-------------------------------- MODULE MCPod --------------------------------
(* The instance of Pod for TLC.                                                 *)
EXTENDS Pod

\* What the two binaries of the sidecar do without a file, events over sockets,
\* both status roles, a pod without any, and a generator with a bad rate.
Deployments ==
    {DefaultConfig("vdu"), DefaultConfig("ptp"),
     [app |-> "vdu", roles |-> {"check"}, handler |-> "SOCKET", goodRate |-> TRUE],
     [app |-> "ptp", roles |-> {}, handler |-> "SOCKET", goodRate |-> TRUE],
     [DefaultConfig("ptp") EXCEPT !.goodRate = FALSE],
     [app |-> "vdu", roles |-> {"publish", "check"}, handler |-> "HTTP", goodRate |-> TRUE]}

\* A clock ahead, a usual latency, one beyond the last bin.
SomeLatencies == {-1, 0, 2}
=============================================================================
