-------------------------- MODULE MCPubSubRegistry --------------------------
(* Instances of PubSubRegistry for TLC: the mixes of requests and symmetry.    *)
EXTENDS PubSubRegistry, TLC

AllRequests == Operations \X Kinds
CreateAndGet == {"create", "get"} \X Kinds
RestartedReads == {<<"create", "CONSUMER">>, <<"get", "CONSUMER">>}

Symmetry == Permutations(Handlers) \cup Permutations(Addrs) \cup Permutations(Ids)
=============================================================================
