--------------------------- MODULE EventGenerator ---------------------------
(* The event generator of the PTP application (pkg/events, pkg/chain, cmd/ptp): *)
(* a loop over the ticks of a millisecond ticker posts an event of the state of *)
(* a Markov chain after a random number of ticks, and a second goroutine prints *)
(* and resets the number of events sent, which nothing guards.                  *)
EXTENDS Integers

CONSTANTS
    Rates,   \* what MSG_PER_SEC may say; 0 also if it is no number
    Second,  \* ticks in a second: 1000
    MaxTicks \* bound: ticks the loop takes

ASSUME GeneratorAssumption ==
    /\ Rates \subseteq Int
    /\ Second \in Nat \ {0}
    /\ MaxTicks \in Nat

VARIABLES
    rate,     \* avgMsgPerSec
    at,       \* where GenerateEvents is
    ticked,   \* the ticker's channel holds a tick
    state,    \* currentStateID
    counter,
    maxCount,
    total,    \* totalMsgSent
    loaded,   \* totalMsgSent as read by the ++ under way
    report,   \* where the goroutine that reports is
    ticks,    \* bound and history: ticks taken
    posts,    \* history: events posted
    sent,     \* history: those that were answered
    printed,  \* history: the sum of all that was reported
    raced     \* history: a reset fell between the read and the write of a ++

loopVars == <<at, state, counter, maxCount, ticks, posts>>
countVars == <<total, loaded, sent>>
reportVars == <<report, printed, raced>>
vars == <<rate, ticked, loopVars, countVars, reportVars>>

Abs(a) == IF a < 0 THEN -a ELSE a

FloorDiv(a, b) == IF b < 0 THEN (-a) \div (-b) ELSE a \div b

\* Integer division of Go, towards zero.
TruncDiv(a, b) ==
    IF (a < 0) = (b < 0) THEN Abs(a) \div Abs(b) ELSE -(Abs(a) \div Abs(b))

avgMsgPeriodMs == TruncDiv(Second, rate)
midpoint == TruncDiv(avgMsgPeriodMs, 2)

\* The weights, in hundredths; a row need not add up to 100.
Transition ==
    << <<60, 10, 10, 0, 20>>,
       <<10, 70, 10, 100, 100>>,
       <<30, 30, 10, 10, 0>>,
       <<20, 30, 30, 10, 10>>,
       <<30, 30, 30, 10, 0>> >>

ChosenFromZero(id) == {j - 1 : j \in {i \in DOMAIN Transition[id] : Transition[id][i] > 0}}

\* GetStateChoice: WeightedChoice never takes what weighs nothing.
GetStateChoice(id) == {i \in DOMAIN Transition[id] : Transition[id][i] > 0}

Init ==
    /\ rate \in Rates
    /\ at = "start"
    /\ ticked = FALSE
    /\ state = 1
    /\ counter = 0
    /\ maxCount = 0
    /\ total = 0
    /\ loaded = 0
    /\ report = "idle"
    /\ ticks = 0
    /\ posts = 0
    /\ sent = 0
    /\ printed = 0
    /\ raced = FALSE

-----------------------------------------------------------------------------
(* GenerateEvents                                                               *)

\* The first choice of a state, the period and its first count.
Start ==
    /\ at = "start"
    /\ rate # 0
    /\ state' \in GetStateChoice(state)
    /\ maxCount' = avgMsgPeriodMs
    /\ at' = "wait"
    /\ UNCHANGED <<rate, ticked, counter, ticks, posts, countVars, reportVars>>

\* The division by zero ends the process.
StartPanics ==
    /\ at = "start"
    /\ rate = 0
    /\ at' = "dead"
    /\ UNCHANGED <<rate, ticked, state, counter, maxCount, ticks, posts, countVars, reportVars>>

\* The channel of a ticker holds one tick; others are dropped.
Tick ==
    /\ at \notin {"start", "dead"}
    /\ ~ticked
    /\ ticked' = TRUE
    /\ UNCHANGED <<rate, loopVars, countVars, reportVars>>

\* Of every state an event is sent: each has a Probability above 0.
TakeTick ==
    /\ at = "wait"
    /\ ticked
    /\ ticks < MaxTicks
    /\ ticked' = FALSE
    /\ ticks' = ticks + 1
    /\ state' \in GetStateChoice(state)
    /\ IF counter >= maxCount
       THEN at' = "post" /\ posts' = posts + 1 /\ UNCHANGED counter
       ELSE counter' = counter + 1 /\ UNCHANGED <<at, posts>>
    /\ UNCHANGED <<rate, maxCount, countVars, reportVars>>

\* rand.Intn(avgMsgPeriodMs + 1)
AnyCount == 0 .. avgMsgPeriodMs

RearmOnly ==
    /\ UNCHANGED <<rate, ticked, state, ticks, posts>>
    /\ IF avgMsgPeriodMs + 1 > 0
       THEN /\ at' = "wait"
            /\ \E n \in AnyCount : maxCount' = n + midpoint
            /\ UNCHANGED counter
       ELSE at' = "dead" /\ UNCHANGED <<counter, maxCount>>

\* Intn panics unless its argument is positive; the new count starts at 0 and
\* is incremented at the end of the round.
Rearm ==
    /\ UNCHANGED <<rate, ticked, state, ticks, posts>>
    /\ IF avgMsgPeriodMs + 1 > 0
       THEN /\ at' = "wait"
            /\ \E n \in AnyCount : maxCount' = n + midpoint
            /\ counter' = 1
       ELSE at' = "dead" /\ UNCHANGED <<counter, maxCount>>

\* httpEvent, udpEvent: any answer counts, also one that is not 202.
PostAnswered ==
    /\ at = "post"
    /\ at' = "load"
    /\ sent' = sent + 1
    /\ UNCHANGED <<rate, ticked, state, counter, maxCount, ticks, posts, total, loaded, reportVars>>

CountAllTheSame ==
    /\ at = "post"
    /\ at' = "load"
    /\ UNCHANGED <<rate, ticked, state, counter, maxCount, ticks, posts, countVars, reportVars>>

PostFails ==
    /\ at = "post"
    /\ Rearm
    /\ UNCHANGED <<countVars, reportVars>>

\* totalMsgSent++, a read
LoadTotal ==
    /\ at = "load"
    /\ loaded' = total
    /\ at' = "store"
    /\ UNCHANGED <<rate, ticked, state, counter, maxCount, ticks, posts, total, sent, reportVars>>

\* and a write
StoreTotal ==
    /\ at = "store"
    /\ total' = loaded + 1
    /\ Rearm
    /\ UNCHANGED <<loaded, sent, reportVars>>

-----------------------------------------------------------------------------
(* The report, once a second                                                    *)

GetTotalMsgSent ==
    /\ at # "dead"
    /\ report = "idle"
    /\ printed' = printed + total
    /\ report' = "printed"
    /\ UNCHANGED <<rate, ticked, loopVars, countVars, raced>>

ResetTotalMsgSent ==
    /\ at # "dead"
    /\ report = "printed"
    /\ total' = 0
    /\ raced' = (raced \/ at = "store")
    /\ report' = "idle"
    /\ UNCHANGED <<rate, ticked, loopVars, loaded, sent, printed>>

Next ==
    \/ Start \/ StartPanics \/ Tick \/ TakeTick
    \/ PostAnswered \/ PostFails \/ LoadTotal \/ StoreTotal
    \/ GetTotalMsgSent \/ ResetTotalMsgSent

Spec == Init /\ [][Next]_vars

-----------------------------------------------------------------------------
(* Properties                                                                   *)

\* Every variable stays within its type, and the chain within its matrix.
TypeOK ==
    /\ rate \in Rates
    /\ at \in {"start", "wait", "post", "load", "store", "dead"}
    /\ ticked \in BOOLEAN
    /\ state \in DOMAIN Transition
    /\ counter \in Nat
    /\ maxCount \in Int
    /\ total \in Nat
    /\ loaded \in Nat
    /\ report \in {"idle", "printed"}
    /\ ticks \in 0 .. MaxTicks
    /\ posts \in Nat
    /\ sent \in Nat
    /\ printed \in Nat
    /\ raced \in BOOLEAN

BadRates == -Second .. 0

\* The generator dies of a rate of -Second to 0 only, after one event at most,
\* and of each such rate it dies before a second event: a rate further below
\* zero is as good as the highest.
DiesOnlyOfBadRate ==
    /\ at = "dead" => rate \in BadRates
    /\ rate \in BadRates => posts <= 1

\* In the ticks the loop takes, after the period it waits at first, it posts at
\* most about twice and at least about two thirds of what was asked for, and
\* never more than one event per tick.
Paced ==
    rate \notin BadRates =>
        /\ posts <= ticks
        /\ posts > 0 => avgMsgPeriodMs + 1 + (posts - 1) * midpoint <= ticks
        /\ ticks <= (posts + 1) * (midpoint + avgMsgPeriodMs + 1)

\* The count never exceeds the events that were answered, and unless a reset
\* was undone by a ++ under way no event is reported twice.
ReportsHonest ==
    /\ total <= sent
    /\ raced \/ printed + (IF report = "printed" THEN 0 ELSE total) <= sent
=============================================================================
