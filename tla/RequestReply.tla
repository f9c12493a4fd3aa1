---------------------------- MODULE RequestReply ----------------------------
(* What GET /status/{sequenceid} promises its clients: every request is         *)
(* answered exactly once, with the status that was obtained for that very       *)
(* request or with an error, whatever other requests are doing.                 *)
CONSTANTS
    Reqs,   \* the requests
    None    \* no status

VARIABLES
    state,  \* per request: not yet made, open, answered with a status, failed
    result  \* per request, the request whose status was sent back

vars == <<state, result>>

TypeOK ==
    /\ state \in [Reqs -> {"idle", "open", "answered", "failed"}]
    /\ result \in [Reqs -> Reqs \cup {None}]

Init ==
    /\ state = [r \in Reqs |-> "idle"]
    /\ result = [r \in Reqs |-> None]

Ask(r) ==
    /\ state[r] = "idle"
    /\ state' = [state EXCEPT ![r] = "open"]
    /\ UNCHANGED result

Answer(r) ==
    /\ state[r] = "open"
    /\ state' = [state EXCEPT ![r] = "answered"]
    /\ result' = [result EXCEPT ![r] = r]

\* Any number of requests may fail at once, with the server that had them.
Fail(R) ==
    /\ \A r \in R : state[r] = "open"
    /\ state' = [r \in Reqs |-> IF r \in R THEN "failed" ELSE state[r]]
    /\ UNCHANGED result

Next ==
    \/ \E r \in Reqs : Ask(r) \/ Answer(r)
    \/ \E R \in SUBSET Reqs : Fail(R)

SafeSpec == Init /\ [][Next]_vars
Spec == SafeSpec /\ \A r \in Reqs : WF_vars(Answer(r) \/ Fail({r}))
=============================================================================
