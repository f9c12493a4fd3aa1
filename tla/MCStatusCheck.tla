---------------------------- MODULE MCStatusCheck ----------------------------
(* Instances of StatusCheck for TLC.                                            *)
EXTENDS StatusCheck, TLC

CONSTANTS r1, r2, r3, b1

OwnSeqOf == (r1 :> 1) @@ (r2 :> 2) @@ (r3 :> 3)
NoNumbers == (r1 :> 0) @@ (r2 :> 0)
OneUnreadable == {[of |-> r3, by |-> b1]}
NoneUnreadable == {}
=============================================================================
