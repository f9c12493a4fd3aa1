-------------------------- MODULE RegistryService ---------------------------
(* What the REST registry promises a client that makes one request at a time:   *)
(* each request is one step on a set of records per kind, taken at some moment  *)
(* between the request and its answer, and the answer tells what that step saw  *)
(* or did.  There is no file here, no map, no copy in between.  The promise     *)
(* ends when the process dies: what a restart makes of the file is not part.    *)
(* Where the documentation of the API and the code disagree, it is left open    *)
(* which of the two the service follows: CreateKnown, RefuseDelete, and all the *)
(* status codes, of which only is told whether the request was refused.         *)
CONSTANTS
    Addrs,     \* the addresses of resource qualifiers
    Ids,       \* the ids a registration can get
    Requests,  \* the <<operation, kind>> pairs the client may send
    None       \* no request, no answer

Kinds == {"PRODUCER", "CONSUMER"}

VARIABLES
    phase,     \* no request, serving one, answered, or the process has died
    regs,      \* per kind, the registrations
    used,      \* the ids ever given to a registration
    asked,     \* the request being served
    answer     \* its answer: done or refused, and the records sent back

vars == <<phase, regs, used, asked, answer>>

Init ==
    /\ phase = "idle"
    /\ regs = [k \in Kinds |-> {}]
    /\ used = {}
    /\ asked = None
    /\ answer = None

\* What a request names besides its kind: an address to register, or an id.
Named(operation) ==
    CASE operation = "create" -> Addrs
      [] operation \in {"get", "delete"} -> Ids
      [] OTHER -> {None}

Ask ==
    /\ phase = "idle"
    /\ phase' = "serving"
    /\ \E r \in Requests : \E x \in Named(r[1]) :
        asked' = [op |-> r[1], kind |-> r[2], about |-> x]
    /\ UNCHANGED <<regs, used, answer>>

Serving(operation) ==
    /\ phase = "serving"
    /\ asked.op = operation

Answer(outcome, body) ==
    /\ phase' = "answered"
    /\ answer' = [outcome |-> outcome, body |-> body]
    /\ UNCHANGED asked

\* The registrations of the kind asked about.
Known == regs[asked.kind]

\* A body that is no JSON, or an endpoint that does not accept.
RefuseCreate ==
    /\ Serving("create")
    /\ Answer("refused", {})
    /\ UNCHANGED <<regs, used>>

\* Nothing is registered twice.  The answer is a refusal, 409 (documented), or the
\* record there is (the code).
CreateKnown ==
    /\ Serving("create")
    /\ \E r \in Known :
        /\ r.addr = asked.about
        /\ Answer("done", {r}) \/ Answer("refused", {})
    /\ UNCHANGED <<regs, used>>

CreateNew ==
    /\ Serving("create")
    /\ \A r \in Known : r.addr # asked.about
    /\ \E i \in Ids \ used :
        LET r == [id |-> i, addr |-> asked.about]
        IN  /\ regs' = [regs EXCEPT ![asked.kind] = Known \cup {r}]
            /\ used' = used \cup {i}
            /\ Answer("done", {r})

Get ==
    /\ Serving("get")
    /\ \E r \in Known : r.id = asked.about /\ Answer("done", {r})
    /\ UNCHANGED <<regs, used>>

GetUnknown ==
    /\ Serving("get")
    /\ \A r \in Known : r.id # asked.about
    /\ Answer("refused", {})
    /\ UNCHANGED <<regs, used>>

List ==
    /\ Serving("list")
    /\ Answer("done", Known)
    /\ UNCHANGED <<regs, used>>

Delete ==
    /\ Serving("delete")
    /\ \E r \in Known :
        /\ r.id = asked.about
        /\ regs' = [regs EXCEPT ![asked.kind] = Known \ {r}]
    /\ Answer("done", {})
    /\ UNCHANGED used

\* An unknown id, or a subscription: its deletion is documented, and refused by
\* the code.  What is refused is not done.
RefuseDelete ==
    /\ Serving("delete")
    /\ asked.kind = "CONSUMER" \/ \A r \in Known : r.id # asked.about
    /\ Answer("refused", {})
    /\ UNCHANGED <<regs, used>>

DeleteAll ==
    /\ Serving("deleteAll")
    /\ regs' = [regs EXCEPT ![asked.kind] = {}]
    /\ Answer("done", {})
    /\ UNCHANGED used

\* The client has its answer.
Over ==
    /\ phase = "answered"
    /\ phase' = "idle"
    /\ asked' = None
    /\ answer' = None
    /\ UNCHANGED <<regs, used>>

Die ==
    /\ phase # "dead"
    /\ phase' = "dead"
    /\ regs' = [k \in Kinds |-> {}]
    /\ used' = {}
    /\ asked' = None
    /\ answer' = None

Serve ==
    \/ RefuseCreate \/ CreateKnown \/ CreateNew
    \/ Get \/ GetUnknown \/ List
    \/ Delete \/ RefuseDelete \/ DeleteAll

Next == Ask \/ Serve \/ Over \/ Die

Spec == Init /\ [][Next]_vars
=============================================================================
