--------------------------- MODULE MCEventDelivery ---------------------------
(* Instances of EventDelivery for TLC: a producer's sidecar p and a consumer's  *)
(* sidecar c.                                                                   *)
EXTENDS EventDelivery, TLC

CONSTANTS p, c, a1, a2, e1, e2

OneAddress == (e1 :> a1) @@ (e2 :> a1)
TwoAddresses == (e1 :> a1) @@ (e2 :> a2)
FromProducer == (e1 :> p) @@ (e2 :> p)
OverHTTP == (p :> "HTTP") @@ (c :> "HTTP")
Mixed == (p :> "SOCKET") @@ (c :> "HTTP")

Both == {<<p, "PRODUCER", a1>>, <<c, "CONSUMER", a1>>}
BothAndStatus == Both \cup {<<c, "STATUS", a2>>}
BothAndOwn == Both \cup {<<p, "CONSUMER", a2>>, <<p, "PRODUCER", a2>>}
=============================================================================
