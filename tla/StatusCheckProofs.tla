-------------------------- MODULE StatusCheckProofs --------------------------
(* What StatusCheck guarantees for any number of requests and responders, any   *)
(* assignment of sequence ids and any capacity of the channels.                 *)
EXTENDS StatusCheck, TLAPS

-----------------------------------------------------------------------------
(* Types                                                                        *)

LEMMA TypeInit == Init => TypeOK
BY SeqAssumption, CapAssumption DEF Init, TypeOK, Steps

LEMMA AnswerIsNotNone ==
    /\ \A a \in Answer : a # None /\ a.of \in Reqs /\ a.by \in Responders
    /\ \A r \in Reqs : r # None
BY NoneAssumption DEF Answer

LEMMA SeqInType == \A a \in Answer : SeqIn(a) \in Seqs
BY AnswerIsNotNone, SeqAssumption DEF SeqIn

\* What an action leaves alone keeps its type: each step is about the rest.
LEMMA TypeNext == TypeOK /\ [Next]_vars => TypeOK'
<1> SUFFICES ASSUME TypeOK, [Next]_vars PROVE TypeOK'
    OBVIOUS
<1> USE DEF TypeOK, Goto, handlerVars, listenerVars, netVars, loopVars
<1>1. ASSUME NEW r \in Reqs, Begin(r) PROVE TypeOK'
    BY <1>1 DEF Begin, Steps
<1>2. ASSUME NEW r \in Reqs, SendToListener(r) PROVE TypeOK'
    BY <1>2, CapAssumption DEF SendToListener, Room, Steps
<1>3. ASSUME NEW r \in Reqs, Handle(r) PROVE TypeOK'
    <2>1. CASE Transmit(r)
        <3>1. \A R \in SUBSET Responders : {[of |-> r, by |-> b] : b \in R} \subseteq Answer
            BY DEF Answer
        <3> QED BY <2>1, <3>1 DEF Transmit, Steps
    <2>2. CASE SendAccepted(r) \/ SendUndelivered(r) \/ SendRejected(r)
        BY <2>2 DEF SendAccepted, SendUndelivered, SendRejected, Steps, Over
    <2>3. CASE TakeAnswer(r)
        BY <2>3 DEF TakeAnswer, Steps, Over
    <2>4. CASE TimeOut(r)
        BY <2>4 DEF TimeOut, Steps, Over
    <2> QED BY <1>3, <2>1, <2>2, <2>3, <2>4 DEF Handle
<1>4. CASE Listen
    <2>1. Head(listener) \in Reqs /\ Tail(listener) \in Seq(Reqs)
          /\ Len(Tail(listener)) <= ListenerCap
        BY <1>4, CapAssumption DEF Listen
    <2> QED BY <1>4, <2>1 DEF Listen, SetChannel
<1>5. ASSUME NEW a \in Answer, Respond(a) \/ AnswerLost(a) PROVE TypeOK'
    BY <1>5 DEF Respond, AnswerLost
<1>6. ASSUME NEW a \in Answer, PutOut(a) PROVE TypeOK'
    BY <1>6, CapAssumption DEF PutOut, Room
<1>7. CASE TakeStatus
    <2>1. Head(dataOut) \in Answer /\ Tail(dataOut) \in Seq(Answer)
          /\ Len(Tail(dataOut)) <= OutCap
        BY <1>7, CapAssumption DEF TakeStatus
    <2>2. SeqIn(Head(dataOut)) \in Seqs
        BY <2>1, SeqInType
    <2>3. main' \in Send \cup {None}
        BY <1>7, <2>1, <2>2 DEF TakeStatus, Send
    <2> QED BY <1>7, <2>1, <2>3 DEF TakeStatus
<1>8. CASE Deliver
    <2>1. main.ans \in Answer
        BY <1>8 DEF Deliver, Send
    <2> QED BY <1>8, <2>1 DEF Deliver
<1>9. CASE DropOnClosed
    BY <1>9 DEF DropOnClosed
<1>10. CASE UNCHANGED vars
    BY <1>10 DEF vars
<1>11. CASE MapThrow
    BY <1>11, CapAssumption DEF MapThrow, Steps, Over
<1> QED
    BY <1>1, <1>2, <1>3, <1>4, <1>5, <1>6, <1>7, <1>8, <1>9, <1>10, <1>11 DEF Next, MainLoop, Idle

\* Whatever the handlers, the timers and the network do, every variable stays
\* within its type; neither the listener channel nor DataOut ever holds more
\* than its capacity.
THEOREM TypeCorrect == Spec => []TypeOK
BY TypeInit, TypeNext, PTL DEF Spec

-----------------------------------------------------------------------------
(* Answers and sequence ids.  That what is in a channel matches needs that the  *)
(* channel was found under its own sequence id.                                 *)

StoreMatches == \A s \in Seqs : store[s] # None => SeqOf[store[s]] = s
MatchInv == AnswersMatch /\ StoreMatches

LEMMA MatchInit == Init => MatchInv
BY DEF Init, MatchInv, AnswersMatch, StoreMatches

LEMMA MatchNext == TypeOK /\ MatchInv /\ [Next]_vars => MatchInv'
<1> SUFFICES ASSUME TypeOK, MatchInv, [Next]_vars PROVE MatchInv'
    OBVIOUS
<1> USE DEF MatchInv, AnswersMatch, StoreMatches, SameSeq
<1> USE DEF Goto, handlerVars, listenerVars, netVars, loopVars
<1>1. CASE UNCHANGED <<buffer, got, store, main>>
    BY <1>1
<1>2. ASSUME NEW r \in Reqs, TakeAnswer(r) PROVE MatchInv'
    BY <1>2 DEF TakeAnswer, TypeOK
<1>3. CASE Listen
    <2>1. Head(listener) \in Reqs
        BY <1>3 DEF Listen, TypeOK
    <2> QED BY <1>3, <2>1, SeqAssumption DEF Listen, SetChannel, TypeOK
<1>4. CASE TakeStatus
    <2>1. Head(dataOut) \in Answer
        BY <1>4 DEF TakeStatus, TypeOK
    <2>2. SeqIn(Head(dataOut)) \in Seqs
        BY <2>1, SeqInType
    <2>3. main' # None => SameSeq(main'.to, main'.ans)
        BY <1>4, <2>2 DEF TakeStatus
    <2> QED BY <1>4, <2>3 DEF TakeStatus
<1>5. CASE Deliver
    <2>1. main.to \in Reqs /\ main # None
        BY <1>5 DEF Deliver, TypeOK, Send
    <2> QED BY <1>5, <2>1 DEF Deliver, TypeOK
<1>6. CASE DropOnClosed
    BY <1>6 DEF DropOnClosed
<1>7. CASE MapThrow
    BY <1>7 DEF MapThrow
<1> QED
    BY <1>1, <1>2, <1>3, <1>4, <1>5, <1>6, <1>7
       DEF Next, vars, Begin, SendToListener, Handle, Transmit, SendAccepted, SendUndelivered,
           SendRejected, TimeOut, Respond, AnswerLost, PutOut, MainLoop, Idle

\* For any requests, any number of them with the same sequence id, and any
\* answers that cannot be read: no channel, no client and no send of the main
\* loop is ever given the answer of another sequence id.
THEOREM AnswersAlwaysMatch == Spec => []AnswersMatch
<1>1. Init => TypeOK /\ MatchInv
    BY TypeInit, MatchInit
<1>2. TypeOK /\ MatchInv /\ [Next]_vars => (TypeOK /\ MatchInv)'
    BY TypeNext, MatchNext
<1>3. MatchInv => AnswersMatch
    BY DEF MatchInv
<1> QED BY <1>1, <1>2, <1>3, PTL DEF Spec

-----------------------------------------------------------------------------
(* The main loop never blocks.  Where every request has a sequence id of its    *)
(* own, none the id of what cannot be read, and one responder answers, there is *)
(* at most one answer to a request, and it is in one place.                     *)

OwnSeqs == \A q, r \in Reqs : SeqOf[q] = SeqOf[r] => q = r
ZeroUnused == Unreadable # {} => \A r \in Reqs : SeqOf[r] # ZeroSeq
OneResponder == \A x, y \in Responders : x = y

\* The places an answer to r passes through on its way to the handler.
Asked(r) == \E a \in asked : a.of = r
Answering(r) == \E a \in answers : a.of = r
Out(r) == \E n \in DOMAIN dataOut : dataOut[n].of = r
Sending(r) == main # None /\ main.ans.of = r
Buffered(r) == buffer[r] # None

Unsent(r) == pc[r] \in {"new", "register", "send"}

InOnePlace(r) ==
    /\ Unsent(r) => ~(Asked(r) \/ Answering(r) \/ Out(r) \/ Sending(r) \/ Buffered(r))
    /\ Asked(r) => ~(Answering(r) \/ Out(r) \/ Sending(r) \/ Buffered(r))
    /\ Answering(r) => ~(Out(r) \/ Sending(r) \/ Buffered(r))
    /\ Out(r) => ~(Sending(r) \/ Buffered(r))
    /\ Sending(r) => ~Buffered(r)

OutOnce == \A m, n \in DOMAIN dataOut : dataOut[m].of = dataOut[n].of => m = n
OnceInv == OutOnce /\ \A r \in Reqs : InOnePlace(r)

LEMMA OnceInit == Init => OnceInv
BY DEF Init, OnceInv, OutOnce, InOnePlace, Asked, Answering, Out, Sending, Buffered

\* With one responder an answer is known by its request.
LEMMA OneAnswer ==
    ASSUME OneResponder, NEW a \in Answer, NEW b \in Answer, a.of = b.of
    PROVE  a = b
BY DEF OneResponder, Answer

LEMMA OwnChannel ==
    ASSUME OwnSeqs, ZeroUnused, TypeOK, MatchInv
    PROVE  /\ main # None => main.to \in Reqs /\ main.ans \in Answer /\ main.to = main.ans.of
           /\ \A r \in Reqs : buffer[r] # None => buffer[r] \in Answer /\ buffer[r].of = r
           /\ \A r \in Reqs : got[r] # None => got[r] \in Answer /\ got[r].of = r
<1>1. main # None => main.to \in Reqs /\ main.ans \in Answer
    BY DEF TypeOK, Send
<1>2. \A r \in Reqs : /\ buffer[r] # None => buffer[r] \in Answer
                      /\ got[r] # None => got[r] \in Answer
    BY DEF TypeOK
<1>3. ASSUME NEW r \in Reqs, NEW a \in Answer, SameSeq(r, a) PROVE a.of = r
    <2>1. a \notin Unreadable
        BY <1>3 DEF ZeroUnused, SameSeq, SeqIn
    <2> QED BY <1>3, <2>1, AnswerIsNotNone DEF OwnSeqs, SameSeq, SeqIn
<1> QED BY <1>1, <1>2, <1>3 DEF MatchInv, AnswersMatch

\* Where nothing of r moves and its handler does not go back, r stays in one place.
LEMMA PlacesKept ==
    ASSUME NEW r \in Reqs, InOnePlace(r), Unsent(r)' => Unsent(r),
           Asked(r)' => Asked(r), Answering(r)' => Answering(r), Out(r)' => Out(r),
           Sending(r)' => Sending(r), Buffered(r)' => Buffered(r)
    PROVE  InOnePlace(r)'
BY DEF InOnePlace

LEMMA OnceNext ==
    ASSUME OwnSeqs, ZeroUnused, OneResponder, TypeOK, MatchInv, OnceInv, [Next]_vars
    PROVE  OnceInv'
<1> USE DEF Goto, handlerVars, listenerVars, netVars, loopVars
<1>a. \A r \in Reqs : InOnePlace(r)
    BY DEF OnceInv
<1>1. ASSUME UNCHANGED <<buffer, asked, answers, dataOut, main>>,
             \A r \in Reqs : Unsent(r)' => Unsent(r)
      PROVE  OnceInv'
    BY <1>1, <1>a DEF OnceInv, OutOnce, InOnePlace, Asked, Answering, Out, Sending, Buffered
<1>2. ASSUME NEW q \in Reqs, Begin(q) \/ SendToListener(q) \/ SendAccepted(q) \/ SendUndelivered(q)
                             \/ SendRejected(q) \/ TimeOut(q)
      PROVE  OnceInv'
    <2>1. \A r \in Reqs : Unsent(r)' => Unsent(r)
        BY <1>2 DEF Begin, SendToListener, SendAccepted, SendUndelivered, SendRejected, TimeOut,
                    Unsent, TypeOK
    <2>2. UNCHANGED <<buffer, asked, answers, dataOut, main>>
        BY <1>2 DEF Begin, SendToListener, SendAccepted, SendUndelivered, SendRejected, TimeOut
    <2> QED BY <1>1, <2>1, <2>2
<1>3. ASSUME NEW q \in Reqs, Transmit(q) PROVE OnceInv'
    <2>1. PICK R \in SUBSET Responders : asked' = asked \cup {[of |-> q, by |-> b] : b \in R}
        BY <1>3 DEF Transmit
    <2>2. UNCHANGED <<buffer, answers, dataOut, main>> /\ pc' = [pc EXCEPT ![q] = "sent"] /\ pc[q] = "send"
        BY <1>3 DEF Transmit
    <2>3. ASSUME NEW r \in Reqs PROVE InOnePlace(r)'
        <3>1. UNCHANGED <<Answering(r), Out(r), Sending(r), Buffered(r)>>
            BY <2>2 DEF Answering, Out, Sending, Buffered
        <3>2. CASE r = q
            <4>1. ~Unsent(r)'
                BY <2>2, <3>2 DEF Unsent, TypeOK
            <4>2. ~(Answering(r) \/ Out(r) \/ Sending(r) \/ Buffered(r))
                BY <1>a, <2>2, <3>2 DEF InOnePlace, Unsent
            <4> QED BY <3>1, <4>1, <4>2 DEF InOnePlace
        <3>3. CASE r # q
            <4>1. Asked(r)' => Asked(r)
                BY <2>1, <3>3 DEF Asked
            <4>2. Unsent(r)' => Unsent(r)
                BY <2>2, <3>3 DEF Unsent, TypeOK
            <4> QED BY <1>a, <3>1, <4>1, <4>2, PlacesKept
        <3> QED BY <3>2, <3>3
    <2>4. OutOnce'
        BY <2>2 DEF OnceInv, OutOnce
    <2> QED BY <2>3, <2>4 DEF OnceInv
<1>4. ASSUME NEW q \in Reqs, TakeAnswer(q) PROVE OnceInv'
    <2>1. ASSUME NEW r \in Reqs PROVE InOnePlace(r)'
        <3>1. /\ Unsent(r)' => Unsent(r)
              /\ Buffered(r)' => Buffered(r)
            BY <1>4 DEF TakeAnswer, Unsent, Buffered, TypeOK
        <3>2. UNCHANGED <<Asked(r), Answering(r), Out(r), Sending(r)>>
            BY <1>4 DEF TakeAnswer, Asked, Answering, Out, Sending
        <3> QED BY <1>a, <3>1, <3>2, PlacesKept
    <2>2. OutOnce'
        BY <1>4 DEF TakeAnswer, OnceInv, OutOnce
    <2> QED BY <2>1, <2>2 DEF OnceInv
<1>5. ASSUME NEW a \in Answer, Respond(a) PROVE OnceInv'
    <2>1. ASSUME NEW r \in Reqs PROVE InOnePlace(r)'
        <3>1. UNCHANGED <<Unsent(r), Out(r), Sending(r), Buffered(r)>>
            BY <1>5 DEF Respond, Unsent, Out, Sending, Buffered
        <3>2. Asked(r)' => Asked(r)
            BY <1>5 DEF Respond, Asked
        <3>3. CASE r = a.of
            <4>1. Asked(r)
                BY <1>5, <3>3 DEF Respond, Asked
            <4>2. ~Asked(r)'
                BY <1>5, <3>3, OneAnswer DEF Respond, Asked, TypeOK
            <4> QED BY <1>a, <3>1, <4>1, <4>2 DEF InOnePlace
        <3>4. CASE r # a.of
            <4>1. Answering(r)' => Answering(r)
                BY <1>5, <3>4 DEF Respond, Answering
            <4> QED BY <1>a, <3>1, <3>2, <4>1, PlacesKept
        <3> QED BY <3>3, <3>4
    <2>2. OutOnce'
        BY <1>5 DEF Respond, OnceInv, OutOnce
    <2> QED BY <2>1, <2>2 DEF OnceInv
<1>6. ASSUME NEW a \in Answer, AnswerLost(a) PROVE OnceInv'
    <2>1. ASSUME NEW r \in Reqs PROVE InOnePlace(r)'
        <3>1. UNCHANGED <<Unsent(r), Answering(r), Out(r), Sending(r), Buffered(r)>>
            BY <1>6 DEF AnswerLost, Unsent, Answering, Out, Sending, Buffered
        <3>2. Asked(r)' => Asked(r)
            BY <1>6 DEF AnswerLost, Asked
        <3> QED BY <1>a, <3>1, <3>2, PlacesKept
    <2>2. OutOnce'
        BY <1>6 DEF AnswerLost, OnceInv, OutOnce
    <2> QED BY <2>1, <2>2 DEF OnceInv
<1>7. ASSUME NEW a \in Answer, PutOut(a) PROVE OnceInv'
    <2>0. /\ dataOut \in Seq(Answer) /\ dataOut' = Append(dataOut, a)
          /\ a.of \in Reqs /\ Answering(a.of)
        BY <1>7, AnswerIsNotNone DEF PutOut, Answering, TypeOK
    <2>1. /\ DOMAIN dataOut' = DOMAIN dataOut \cup {Len(dataOut) + 1}
          /\ dataOut'[Len(dataOut) + 1] = a
          /\ \A n \in DOMAIN dataOut : n # Len(dataOut) + 1 /\ dataOut'[n] = dataOut[n]
        BY <2>0
    <2>2. ~Out(a.of)
        BY <1>a, <2>0 DEF InOnePlace
    <2>3. ASSUME NEW r \in Reqs PROVE InOnePlace(r)'
        <3>1. UNCHANGED <<Unsent(r), Asked(r), Sending(r), Buffered(r)>>
            BY <1>7 DEF PutOut, Unsent, Asked, Sending, Buffered
        <3>2. Answering(r)' => Answering(r)
            BY <1>7 DEF PutOut, Answering
        <3>3. CASE r = a.of
            <4>1. ~Answering(r)'
                BY <1>7, <3>3, OneAnswer DEF PutOut, Answering, TypeOK
            <4> QED BY <1>a, <2>0, <3>1, <3>3, <4>1 DEF InOnePlace
        <3>4. CASE r # a.of
            <4>1. Out(r)' => Out(r)
                BY <2>1, <3>4 DEF Out
            <4> QED BY <1>a, <3>1, <3>2, <4>1, PlacesKept
        <3> QED BY <3>3, <3>4
    <2>4. OutOnce'
        BY <2>1, <2>2 DEF OnceInv, OutOnce, Out
    <2> QED BY <2>3, <2>4 DEF OnceInv
<1>8. CASE TakeStatus
    <2>0. /\ dataOut \in Seq(Answer) /\ dataOut # <<>> /\ dataOut' = Tail(dataOut)
          /\ main = None
          /\ main' # None => main'.ans = dataOut[1]
          /\ UNCHANGED <<pc, buffer, asked, answers>>
        BY <1>8 DEF TakeStatus, TypeOK
    <2>1. /\ Len(dataOut) \in Nat \ {0} /\ DOMAIN dataOut = 1 .. Len(dataOut)
          /\ DOMAIN dataOut' = 1 .. Len(dataOut) - 1
          /\ \A n \in DOMAIN dataOut' : dataOut'[n] = dataOut[n + 1]
        BY <2>0
    <2>2. ASSUME NEW r \in Reqs PROVE InOnePlace(r)'
        <3>1. UNCHANGED <<Unsent(r), Asked(r), Answering(r), Buffered(r)>>
            BY <2>0 DEF Unsent, Asked, Answering, Buffered
        <3>2. Out(r)' => Out(r)
            BY <2>1 DEF Out
        <3>3. Sending(r)' => Out(r) /\ ~Out(r)'
            <4> SUFFICES ASSUME Sending(r)' PROVE Out(r) /\ ~Out(r)'
                OBVIOUS
            <4>1. dataOut[1].of = r
                BY <2>0 DEF Sending
            <4>2. \A n \in DOMAIN dataOut' : dataOut'[n].of # r
                BY <2>1, <4>1 DEF OnceInv, OutOnce
            <4> QED BY <2>1, <4>1, <4>2 DEF Out
        <3> QED BY <1>a, <3>1, <3>2, <3>3 DEF InOnePlace
    <2>3. OutOnce'
        BY <2>1 DEF OnceInv, OutOnce
    <2> QED BY <2>2, <2>3 DEF OnceInv
<1>9. CASE Deliver
    <2>0. main # None /\ main' = None /\ buffer' = [buffer EXCEPT ![main.to] = main.ans]
        BY <1>9 DEF Deliver
    <2>1. main.to \in Reqs /\ main.to = main.ans.of
        BY <2>0, OwnChannel
    <2>2. ASSUME NEW r \in Reqs PROVE InOnePlace(r)'
        <3>1. UNCHANGED <<Unsent(r), Asked(r), Answering(r), Out(r)>>
            BY <1>9 DEF Deliver, Unsent, Asked, Answering, Out
        <3>2. ~Sending(r)'
            BY <2>0 DEF Sending
        <3>3. Buffered(r)' => Buffered(r) \/ Sending(r)
            BY <2>0, <2>1 DEF Buffered, Sending, TypeOK
        <3> QED BY <1>a, <3>1, <3>2, <3>3 DEF InOnePlace
    <2>3. OutOnce'
        BY <1>9 DEF Deliver, OnceInv, OutOnce
    <2> QED BY <2>2, <2>3 DEF OnceInv
<1>10. CASE DropOnClosed
    <2>1. ASSUME NEW r \in Reqs PROVE InOnePlace(r)'
        <3>1. UNCHANGED <<Unsent(r), Asked(r), Answering(r), Out(r), Buffered(r)>>
            BY <1>10 DEF DropOnClosed, Unsent, Asked, Answering, Out, Buffered
        <3>2. ~Sending(r)'
            BY <1>10 DEF DropOnClosed, Sending
        <3> QED BY <1>a, <3>1, <3>2, PlacesKept
    <2>2. OutOnce'
        BY <1>10 DEF DropOnClosed, OnceInv, OutOnce
    <2> QED BY <2>1, <2>2 DEF OnceInv
<1>11. CASE Listen \/ UNCHANGED vars
    <2>1. UNCHANGED <<pc, buffer, asked, answers, dataOut, main>>
        BY <1>11 DEF Listen, vars
    <2> QED BY <1>1, <2>1 DEF Unsent
<1>12. CASE MapThrow
    <2>1. ASSUME NEW r \in Reqs PROVE InOnePlace(r)'
        <3>1. Unsent(r)' => Unsent(r)
            BY <1>12 DEF MapThrow, Unsent, Over, TypeOK
        <3>2. UNCHANGED Asked(r)
            BY <1>12 DEF MapThrow, Asked
        <3>3. ~(Answering(r) \/ Out(r) \/ Sending(r) \/ Buffered(r))'
            BY <1>12 DEF MapThrow, Answering, Out, Sending, Buffered
        <3> QED BY <1>a, <3>1, <3>2, <3>3, PlacesKept
    <2>2. OutOnce'
        BY <1>12 DEF MapThrow, OutOnce
    <2> QED BY <2>1, <2>2 DEF OnceInv
<1> QED
    BY <1>2, <1>3, <1>4, <1>5, <1>6, <1>7, <1>8, <1>9, <1>10, <1>11, <1>12
       DEF Next, Handle, MainLoop, Idle

\* While no sequence id is used twice, none is 0 where an answer may be
\* unreadable, and one sidecar answers, the main loop is never stuck on a status:
\* the answer in its hand is the only one, so the channel it goes to is empty,
\* whether or not its handler has given up.
THEOREM NeverBlocks ==
    ASSUME OwnSeqs, ZeroUnused, OneResponder
    PROVE  Spec => []SendNeverBlocks
<1> DEFINE Inv == TypeOK /\ MatchInv /\ OnceInv
<1>1. Init => Inv
    BY TypeInit, MatchInit, OnceInit
<1>2. Inv /\ [Next]_vars => Inv'
    BY TypeNext, MatchNext, OnceNext
<1>3. Inv => SendNeverBlocks
    <2> SUFFICES ASSUME Inv, main # None PROVE buffer[main.to] = None
        BY DEF SendNeverBlocks
    <2>1. main.to \in Reqs /\ main.to = main.ans.of
        BY OwnChannel
    <2>2. Sending(main.to) /\ InOnePlace(main.to)
        BY <2>1 DEF OnceInv, Sending
    <2> QED BY <2>2 DEF InOnePlace, Buffered
<1> QED BY <1>1, <1>2, <1>3, PTL DEF Spec

-----------------------------------------------------------------------------
(* The refinement, but for its liveness, which TLC checks (KeepsPromise).       *)

Results == [r \in Reqs |-> IF got[r] = None THEN None ELSE got[r].of]
Outcomes == [r \in Reqs |-> Outcome(r)]

LEMMA PromiseStutters ==
    ASSUME UNCHANGED got, \A r \in Reqs : Outcome(r)' = Outcome(r)
    PROVE  UNCHANGED Promise!vars
BY DEF Promise!vars

\* A handler's step seen from outside: r's outcome changes to s.
LEMMA OutcomeStep ==
    ASSUME TypeOK, NEW r \in Reqs, NEW step \in Steps, pc' = [pc EXCEPT ![r] = step],
           NEW s, s = CASE step = "new" -> "idle"
                        [] step = "answered" -> "answered"
                        [] step \in Over \ {"answered"} -> "failed"
                        [] OTHER -> "open"
    PROVE  /\ Outcome(r)' = s
           /\ Outcomes' = [Outcomes EXCEPT ![r] = s]
<1>1. pc'[r] = step /\ \A q \in Reqs \ {r} : pc'[q] = pc[q]
    BY DEF TypeOK
<1>2. Outcome(r)' = s
    BY <1>1 DEF Outcome, Over
<1>3. \A q \in Reqs \ {r} : Outcome(q)' = Outcome(q)
    BY <1>1 DEF Outcome
<1> QED BY <1>2, <1>3 DEF Outcomes

LEMMA PromiseNext ==
    ASSUME OwnSeqs, ZeroUnused, TypeOK, MatchInv, [Next]_vars
    PROVE  [Promise!Next]_(Promise!vars)
<1> USE DEF Goto, handlerVars, listenerVars, netVars, loopVars
<1>1. ASSUME UNCHANGED <<pc, got>> PROVE UNCHANGED Promise!vars
    BY <1>1, PromiseStutters DEF Outcome
<1>2. ASSUME NEW r \in Reqs, Begin(r) PROVE Promise!Ask(r)
    <2>1. Outcome(r) = "idle" /\ UNCHANGED got
        BY <1>2 DEF Begin, Outcome, Over
    <2>2. PICK step \in {"register"} : pc' = [pc EXCEPT ![r] = step]
        BY <1>2 DEF Begin
    <2>3. Outcomes' = [Outcomes EXCEPT ![r] = "open"]
        BY <2>2, OutcomeStep DEF Steps, Over
    <2> QED BY <2>1, <2>3 DEF Promise!Ask, Outcomes
<1>3. ASSUME NEW r \in Reqs, SendToListener(r) \/ Transmit(r) \/ SendAccepted(r)
      PROVE  UNCHANGED Promise!vars
    <2>1. UNCHANGED got /\ Outcome(r) = "open"
        BY <1>3 DEF SendToListener, Transmit, SendAccepted, Outcome, Over
    <2>2. PICK step \in {"send", "sent", "wait"} : pc' = [pc EXCEPT ![r] = step]
        BY <1>3 DEF SendToListener, Transmit, SendAccepted
    <2>3. \A q \in Reqs : Outcome(q)' = Outcome(q)
        BY <2>1, <2>2 DEF Outcome, Over, TypeOK
    <2> QED BY <2>1, <2>3, PromiseStutters
<1>4. ASSUME NEW r \in Reqs, SendUndelivered(r) \/ SendRejected(r) \/ TimeOut(r)
      PROVE  Promise!Fail({r})
    <2>1. UNCHANGED got /\ Outcome(r) = "open"
        BY <1>4 DEF SendUndelivered, SendRejected, TimeOut, Outcome, Over
    <2>2. PICK step \in {"undelivered", "rejected", "timedout"} : pc' = [pc EXCEPT ![r] = step]
        BY <1>4 DEF SendUndelivered, SendRejected, TimeOut
    <2>3. Outcomes' = [Outcomes EXCEPT ![r] = "failed"]
        BY <2>2, OutcomeStep DEF Steps, Over
    <2> QED BY <2>1, <2>3 DEF Promise!Fail, Outcomes
<1>5. ASSUME NEW r \in Reqs, TakeAnswer(r) PROVE Promise!Answer(r)
    <2>1. Outcome(r) = "open" /\ buffer[r] # None /\ got' = [got EXCEPT ![r] = buffer[r]]
        BY <1>5 DEF TakeAnswer, Outcome, Over
    <2>2. Outcomes' = [Outcomes EXCEPT ![r] = "answered"]
        BY <1>5, OutcomeStep DEF TakeAnswer, Steps, Over
    <2>3. got'[r] # None /\ got'[r].of = r /\ \A q \in Reqs \ {r} : got'[q] = got[q]
        BY <2>1, OwnChannel DEF TypeOK
    <2>4. Results' = [Results EXCEPT ![r] = r]
        BY <2>3 DEF Results
    <2> QED BY <2>1, <2>2, <2>4 DEF Promise!Answer, Outcomes, Results
<1>6. CASE \/ Listen \/ MainLoop \/ Idle \/ UNCHANGED vars
           \/ \E a \in Answer : Respond(a) \/ AnswerLost(a) \/ PutOut(a)
    BY <1>1, <1>6 DEF Listen, MainLoop, TakeStatus, Deliver, DropOnClosed, Idle, vars, Respond,
                      AnswerLost, PutOut
<1>7. CASE MapThrow
    <2>. DEFINE R == {r \in Reqs : pc[r] \notin Over \cup {"new"}}
    <2>1. UNCHANGED got /\ \A r \in R : Outcome(r) = "open"
        BY <1>7 DEF MapThrow, Outcome, Over
    <2>2. \A r \in Reqs : Outcome(r)' = IF r \in R THEN "failed" ELSE Outcome(r)
        BY <1>7 DEF MapThrow, Outcome, Over
    <2>3. Promise!Fail(R)
        BY <2>1, <2>2 DEF Promise!Fail
    <2> QED BY <2>3 DEF Promise!Next
<1> QED
    BY <1>2, <1>3, <1>4, <1>5, <1>6, <1>7 DEF Next, Handle, Promise!Next

\* With sequence ids of their own, and 0 left to what cannot be read, requests
\* are never answered with the status obtained for another one, nor twice, nor
\* after they failed: every behaviour of the handlers, the main loop and the
\* network is one RequestReply allows, however many sidecars respond and
\* wherever the process ends.
THEOREM ImplementsPromise ==
    ASSUME OwnSeqs, ZeroUnused
    PROVE  Spec => Promise!SafeSpec
<1>1. Init => Promise!Init
    BY DEF Init, Promise!Init, Outcome, Over
<1>2. Init => TypeOK /\ MatchInv
    BY TypeInit, MatchInit
<1>3. TypeOK /\ MatchInv /\ [Next]_vars => (TypeOK /\ MatchInv)'
    BY TypeNext, MatchNext
<1>4. TypeOK /\ MatchInv /\ [Next]_vars => [Promise!Next]_(Promise!vars)
    BY PromiseNext
<1> QED BY <1>1, <1>2, <1>3, <1>4, PTL DEF Spec, Promise!SafeSpec
=============================================================================
