------------------------ MODULE EventGeneratorProofs ------------------------
(* Theorems about EventGenerator, for every set of rates, every number of ticks *)
(* in a second and every bound on the ticks taken.                              *)
EXTENDS EventGenerator, TLAPS

(* The quotient of two natural numbers.                                         *)
LEMMA NatDiv ==
    ASSUME NEW a \in Nat, NEW b \in Nat \ {0}
    PROVE  /\ a \div b \in Nat
           /\ a < b => a \div b = 0
           /\ b <= a => a \div b >= 1
OBVIOUS

(* The period avgMsgPeriodMs is below zero exactly where Intn panics, and not   *)
(* below zero, like its half, where the generator goes on.                      *)
LEMMA Period ==
    ASSUME rate \in Rates, rate # 0
    PROVE  /\ avgMsgPeriodMs \in Int
           /\ midpoint \in Int
           /\ rate \in BadRates => avgMsgPeriodMs + 1 <= 0
           /\ rate \notin BadRates => avgMsgPeriodMs \in Nat /\ midpoint \in Nat
<1>1. rate \in Int /\ Second \in Nat \ {0}
  BY GeneratorAssumption
<1>2. Abs(Second) = Second /\ Abs(rate) \in Nat \ {0}
  BY <1>1 DEF Abs
<1>. DEFINE q == Second \div Abs(rate)
<1>3. /\ q \in Nat
      /\ Second < Abs(rate) => q = 0
      /\ Abs(rate) <= Second => q >= 1
  BY <1>1, <1>2, NatDiv
<1>4. avgMsgPeriodMs = IF rate < 0 THEN -q ELSE q
  BY <1>1, <1>2 DEF avgMsgPeriodMs, TruncDiv
<1>5. avgMsgPeriodMs \in Int
  BY <1>3, <1>4
<1>6. rate \in BadRates => avgMsgPeriodMs + 1 <= 0
  BY <1>1, <1>3, <1>4 DEF BadRates, Abs
<1>7. rate \notin BadRates => avgMsgPeriodMs \in Nat
  BY <1>1, <1>3, <1>4 DEF BadRates, Abs
<1>8. Abs(avgMsgPeriodMs) \in Nat /\ Abs(2) = 2
  BY <1>5 DEF Abs
<1>9. Abs(avgMsgPeriodMs) \div 2 \in Nat
  BY <1>8, NatDiv
<1>10. midpoint \in Int /\ (avgMsgPeriodMs \in Nat => midpoint \in Nat)
  BY <1>5, <1>8, <1>9 DEF midpoint, TruncDiv
<1>. QED
  BY <1>5, <1>6, <1>7, <1>10

-----------------------------------------------------------------------------
(* Types: a count is a number because the loop runs with a rate other than 0.   *)

RateUsed == at \notin {"start", "dead"} => rate # 0

TypeInv == TypeOK /\ RateUsed

(* Whatever is chosen after a state is a state of the matrix.                   *)
LEMMA ChoiceIsState ==
    ASSUME NEW id \in DOMAIN Transition
    PROVE  GetStateChoice(id) \subseteq DOMAIN Transition
BY DEF GetStateChoice, Transition

(* After a round the generator waits with a count above zero, or is dead, and   *)
(* it is dead exactly at a bad rate.                                            *)
LEMMA RearmEffect ==
    ASSUME TypeInv, rate # 0, Rearm
    PROVE  /\ rate' = rate /\ ticked' = ticked /\ state' = state
           /\ ticks' = ticks /\ posts' = posts
           /\ \/ /\ rate \in BadRates
                 /\ at' = "dead" /\ counter' = counter /\ maxCount' = maxCount
              \/ /\ rate \notin BadRates
                 /\ at' = "wait" /\ counter' = 1
                 /\ maxCount' \in Int
                 /\ midpoint <= maxCount' /\ maxCount' <= midpoint + avgMsgPeriodMs
<1>1. /\ avgMsgPeriodMs \in Int
      /\ midpoint \in Int
      /\ rate \in BadRates => avgMsgPeriodMs + 1 <= 0
      /\ rate \notin BadRates => avgMsgPeriodMs \in Nat /\ midpoint \in Nat
  BY Period DEF TypeInv, TypeOK
<1>2. CASE rate \in BadRates
  BY <1>1, <1>2 DEF Rearm
<1>3. CASE rate \notin BadRates
  BY <1>1, <1>3 DEF Rearm, AnyCount
<1>. QED
  BY <1>2, <1>3

LEMMA TypeInit == Init => TypeInv
<1>1. 1 \in DOMAIN Transition
  BY DEF Transition
<1>2. 0 \in 0 .. MaxTicks
  BY GeneratorAssumption
<1>3. Init => ticked \in BOOLEAN /\ raced \in BOOLEAN
  BY Zenon DEF Init
<1>. QED
  BY <1>1, <1>2, <1>3 DEF Init, TypeInv, TypeOK, RateUsed

LEMMA TypeStep == TypeInv /\ [Next]_vars => TypeInv'
<1>. SUFFICES ASSUME TypeInv, [Next]_vars
              PROVE  TypeInv'
  OBVIOUS
<1>. USE DEF TypeInv, TypeOK, RateUsed
<1>1. CASE Start
  <2>1. maxCount' \in Int
    BY <1>1, Period DEF Start
  <2>2. state' \in DOMAIN Transition
    BY <1>1, ChoiceIsState DEF Start
  <2>. QED
    BY <1>1, <2>1, <2>2 DEF Start, countVars, reportVars
<1>2. CASE StartPanics
  BY <1>2 DEF StartPanics, countVars, reportVars
<1>3. CASE Tick
  BY <1>3 DEF Tick, loopVars, countVars, reportVars
<1>4. CASE TakeTick
  <2>1. state' \in DOMAIN Transition
    BY <1>4, ChoiceIsState DEF TakeTick
  <2>2. ticks' \in 0 .. MaxTicks
    BY <1>4, GeneratorAssumption DEF TakeTick
  <2>3. at' \in {"wait", "post"} /\ rate' = rate /\ rate # 0 /\ maxCount' = maxCount
    BY <1>4 DEF TakeTick
  <2>4. ticked' \in BOOLEAN
    BY <1>4, Zenon DEF TakeTick
  <2>5. counter' \in Nat /\ posts' \in Nat
    <3>1. CASE counter >= maxCount
      BY <1>4, <3>1 DEF TakeTick
    <3>2. CASE ~(counter >= maxCount)
      BY <1>4, <3>2 DEF TakeTick
    <3>. QED
      BY <3>1, <3>2
  <2>. QED
    BY <1>4, <2>1, <2>2, <2>3, <2>4, <2>5 DEF TakeTick, countVars, reportVars
<1>5. CASE PostAnswered
  BY <1>5 DEF PostAnswered, reportVars
<1>6. CASE PostFails
  <2>1. rate # 0
    BY <1>6 DEF PostFails
  <2>2. /\ rate' = rate /\ ticked' = ticked /\ state' = state
        /\ ticks' = ticks /\ posts' = posts
        /\ counter' \in Nat /\ maxCount' \in Int /\ at' \in {"wait", "dead"}
    BY <1>6, <2>1, RearmEffect DEF PostFails
  <2>. QED
    BY <1>6, <2>1, <2>2 DEF PostFails, countVars, reportVars
<1>7. CASE LoadTotal
  BY <1>7 DEF LoadTotal, reportVars
<1>8. CASE StoreTotal
  <2>1. rate # 0
    BY <1>8 DEF StoreTotal
  <2>2. /\ rate' = rate /\ ticked' = ticked /\ state' = state
        /\ ticks' = ticks /\ posts' = posts
        /\ counter' \in Nat /\ maxCount' \in Int /\ at' \in {"wait", "dead"}
    BY <1>8, <2>1, RearmEffect DEF StoreTotal
  <2>. QED
    BY <1>8, <2>1, <2>2 DEF StoreTotal, reportVars
<1>9. CASE GetTotalMsgSent
  BY <1>9 DEF GetTotalMsgSent, loopVars, countVars
<1>10. CASE ResetTotalMsgSent
  BY <1>10 DEF ResetTotalMsgSent, loopVars
<1>11. CASE UNCHANGED vars
  BY <1>11 DEF vars, loopVars, countVars, reportVars
<1>. QED
  BY <1>1, <1>2, <1>3, <1>4, <1>5, <1>6, <1>7, <1>8, <1>9, <1>10, <1>11 DEF Next

(* Every variable of the generator keeps its type, and the chain stays within   *)
(* its matrix, at any rate (GenerateEvents, GetStateChoice).                    *)
THEOREM TypeCorrect == Spec => []TypeOK
<1>1. TypeInv => TypeOK
  BY DEF TypeInv
<1>. QED
  BY <1>1, TypeInit, TypeStep, PTL DEF Spec

-----------------------------------------------------------------------------
(* Death: before its second event a generator at a bad rate is dead.            *)

BadOnce ==
    /\ at = "dead" => rate \in BadRates
    /\ rate \in BadRates => posts <= 1 /\ (at \in {"start", "wait"} => posts = 0)

BadInv == TypeInv /\ BadOnce

LEMMA BadInit == Init => BadInv
<1>1. Init => BadOnce
  BY DEF Init, BadOnce
<1>. QED
  BY <1>1, TypeInit DEF BadInv

LEMMA BadStep == BadInv /\ [Next]_vars => BadInv'
<1>. SUFFICES ASSUME BadInv, [Next]_vars
              PROVE  BadOnce'
  BY TypeStep DEF BadInv
<1>. USE DEF BadInv, BadOnce
<1>0. /\ TypeInv
      /\ rate \in Rates /\ posts \in Nat
      /\ at \in {"start", "wait", "post", "load", "store", "dead"}
      /\ at \notin {"start", "dead"} => rate # 0
      /\ BadRates' = BadRates
  BY DEF TypeInv, TypeOK, RateUsed, BadRates
<1>1. CASE Start
  BY <1>0, <1>1 DEF Start
<1>2. CASE StartPanics
  <2>1. rate \in BadRates
    BY <1>2, GeneratorAssumption DEF StartPanics, BadRates
  <2>. QED
    BY <1>0, <1>2, <2>1 DEF StartPanics
<1>3. CASE Tick
  BY <1>0, <1>3 DEF Tick, loopVars
<1>4. CASE TakeTick
  <2>1. CASE counter >= maxCount
    BY <1>0, <1>4, <2>1 DEF TakeTick
  <2>2. CASE ~(counter >= maxCount)
    BY <1>0, <1>4, <2>2 DEF TakeTick
  <2>. QED
    BY <2>1, <2>2
<1>5. CASE PostAnswered
  BY <1>0, <1>5 DEF PostAnswered
<1>6. CASE PostFails
  <2>1. rate' = rate /\ posts' = posts
        /\ (rate \in BadRates => at' = "dead") /\ (rate \notin BadRates => at' = "wait")
    BY <1>0, <1>6, RearmEffect DEF PostFails
  <2>. QED
    BY <1>0, <2>1
<1>7. CASE LoadTotal
  BY <1>0, <1>7 DEF LoadTotal
<1>8. CASE StoreTotal
  <2>1. rate' = rate /\ posts' = posts
        /\ (rate \in BadRates => at' = "dead") /\ (rate \notin BadRates => at' = "wait")
    BY <1>0, <1>8, RearmEffect DEF StoreTotal
  <2>. QED
    BY <1>0, <2>1
<1>9. CASE GetTotalMsgSent
  BY <1>0, <1>9 DEF GetTotalMsgSent, loopVars
<1>10. CASE ResetTotalMsgSent
  BY <1>0, <1>10 DEF ResetTotalMsgSent, loopVars
<1>11. CASE UNCHANGED vars
  BY <1>0, <1>11 DEF vars, loopVars
<1>. QED
  BY <1>1, <1>2, <1>3, <1>4, <1>5, <1>6, <1>7, <1>8, <1>9, <1>10, <1>11 DEF Next

(* Only a rate of -Second to 0 ends the process, and it does so before a second *)
(* event (events.go:78 and :106).                                               *)
THEOREM DiesOnlyOfThose == Spec => []DiesOnlyOfBadRate
<1>1. BadInv => DiesOnlyOfBadRate
  BY DEF BadInv, BadOnce, DiesOnlyOfBadRate
<1>. QED
  BY <1>1, BadInit, BadStep, PTL DEF Spec

-----------------------------------------------------------------------------
(* The report: an event answered is in flight until its ++ is written.          *)

InFlight == IF at \in {"load", "store"} THEN 1 ELSE 0
Unreported == IF report = "printed" THEN 0 ELSE total

CountOK ==
    /\ total + InFlight <= sent
    /\ at = "store" => loaded + 1 <= sent
    /\ ~raced => (at = "store" => loaded = total)
    /\ ~raced => printed + Unreported + InFlight <= sent

CountInv == TypeInv /\ CountOK

LEMMA CountInit == Init => CountInv
<1>1. Init => CountOK
  BY DEF Init, CountOK, InFlight, Unreported
<1>. QED
  BY <1>1, TypeInit DEF CountInv

LEMMA CountStep == CountInv /\ [Next]_vars => CountInv'
<1>. SUFFICES ASSUME CountInv, [Next]_vars
              PROVE  CountOK'
  BY TypeStep DEF CountInv
<1>. USE DEF CountInv, CountOK, InFlight, Unreported
<1>0. /\ TypeInv
      /\ total \in Nat /\ loaded \in Nat /\ sent \in Nat /\ printed \in Nat
      /\ report \in {"idle", "printed"}
      /\ at \in {"start", "wait", "post", "load", "store", "dead"}
      /\ at \notin {"start", "dead"} => rate # 0
  BY DEF TypeInv, TypeOK, RateUsed
<1>1. CASE Start
  BY <1>0, <1>1 DEF Start, countVars, reportVars
<1>2. CASE StartPanics
  BY <1>0, <1>2 DEF StartPanics, countVars, reportVars
<1>3. CASE Tick
  BY <1>0, <1>3 DEF Tick, loopVars, countVars, reportVars
<1>4. CASE TakeTick
  <2>1. at = "wait" /\ at' \in {"wait", "post"}
    BY <1>4 DEF TakeTick
  <2>. QED
    BY <1>0, <1>4, <2>1 DEF TakeTick, countVars, reportVars
<1>5. CASE PostAnswered
  BY <1>0, <1>5 DEF PostAnswered, reportVars
<1>6. CASE PostFails
  <2>1. at = "post" /\ at' \in {"wait", "dead"}
    BY <1>0, <1>6, RearmEffect DEF PostFails
  <2>. QED
    BY <1>0, <1>6, <2>1 DEF PostFails, countVars, reportVars
<1>7. CASE LoadTotal
  BY <1>0, <1>7 DEF LoadTotal, reportVars
<1>8. CASE StoreTotal
  <2>1. at = "store" /\ at' \in {"wait", "dead"}
    BY <1>0, <1>8, RearmEffect DEF StoreTotal
  <2>. QED
    BY <1>0, <1>8, <2>1 DEF StoreTotal, reportVars
<1>9. CASE GetTotalMsgSent
  BY <1>0, <1>9 DEF GetTotalMsgSent, loopVars, countVars
<1>10. CASE ResetTotalMsgSent
  <2>1. at' = at /\ total' = 0 /\ loaded' = loaded /\ sent' = sent /\ printed' = printed
        /\ report = "printed" /\ report' = "idle"
    BY <1>10 DEF ResetTotalMsgSent, loopVars
  <2>2. ~raced' => ~raced /\ at # "store"
    BY <1>10, Zenon DEF ResetTotalMsgSent
  <2>. QED
    BY <1>0, <2>1, <2>2
<1>11. CASE UNCHANGED vars
  BY <1>0, <1>11 DEF vars, loopVars, countVars, reportVars
<1>. QED
  BY <1>1, <1>2, <1>3, <1>4, <1>5, <1>6, <1>7, <1>8, <1>9, <1>10, <1>11 DEF Next

(* The total never exceeds what was answered, and without the race no event is  *)
(* reported twice (events.go:97, cmd/ptp/main.go:99).                           *)
THEOREM ReportsAreHonest == Spec => []ReportsHonest
<1>1. CountInv => ReportsHonest
  <2>. SUFFICES ASSUME CountInv PROVE ReportsHonest
    OBVIOUS
  <2>1. total \in Nat /\ sent \in Nat /\ printed \in Nat /\ InFlight \in Nat
    BY DEF CountInv, TypeInv, TypeOK, InFlight
  <2>. QED
    BY <2>1 DEF CountInv, CountOK, Unreported, ReportsHonest
<1>. QED
  BY <1>1, CountInit, CountStep, PTL DEF Spec

-----------------------------------------------------------------------------
(* The pace.  Longest is the greatest number of ticks between two events.       *)

Longest == midpoint + avgMsgPeriodMs + 1

\* Before the first event.
AtFirst ==
    /\ posts = 0
    /\ at = "wait"
    /\ maxCount = avgMsgPeriodMs
    /\ ticks = counter
    /\ counter <= avgMsgPeriodMs

\* Between two events: counter - 1 ticks were taken since the last.
Between ==
    /\ posts > 0
    /\ at = "wait"
    /\ midpoint <= maxCount /\ maxCount < Longest
    /\ 1 <= counter /\ counter <= Longest
    /\ posts <= ticks
    /\ avgMsgPeriodMs + (posts - 1) * midpoint + counter <= ticks
    /\ ticks + 1 <= posts * Longest + counter

\* While an event is posted.
Posting ==
    /\ posts > 0
    /\ at \in {"post", "load", "store"}
    /\ posts <= ticks
    /\ avgMsgPeriodMs + 1 + (posts - 1) * midpoint <= ticks
    /\ ticks <= posts * Longest

Unstarted == at = "start" /\ posts = 0 /\ ticks = 0 /\ counter = 0

PaceInv == BadInv /\ (rate \notin BadRates => Unstarted \/ AtFirst \/ Between \/ Posting)

LEMMA OneMore ==
    ASSUME NEW p \in Int, NEW m \in Int
    PROVE  /\ (p - 1) * m + m = p * m
           /\ p * m + m = (p + 1) * m
           /\ (p + 1) - 1 = p
           /\ p * m \in Int /\ (p - 1) * m \in Int
OBVIOUS

LEMMA PaceImpliesPaced == PaceInv => Paced
<1>. SUFFICES ASSUME PaceInv, rate \notin BadRates
              PROVE  /\ posts <= ticks
                     /\ posts > 0 => avgMsgPeriodMs + 1 + (posts - 1) * midpoint <= ticks
                     /\ ticks <= (posts + 1) * Longest
  BY DEF Paced, Longest
<1>1. posts \in Nat /\ ticks \in Nat /\ counter \in Nat /\ rate \in Rates /\ rate # 0
  BY GeneratorAssumption DEF PaceInv, BadInv, TypeInv, TypeOK, BadRates
<1>2. avgMsgPeriodMs \in Nat /\ midpoint \in Nat /\ Longest \in Nat \ {0}
  BY <1>1, Period DEF Longest
<1>3. /\ posts * Longest + Longest = (posts + 1) * Longest
      /\ posts * Longest \in Int /\ (posts - 1) * midpoint \in Int
  BY <1>1, <1>2, OneMore
<1>4. CASE Unstarted
  <2>1. (0 + 1) * Longest = Longest
    BY <1>2
  <2>. QED
    BY <1>1, <1>2, <1>4, <2>1 DEF Unstarted
<1>5. CASE AtFirst
  <2>1. (0 + 1) * Longest = Longest
    BY <1>2
  <2>2. ticks <= Longest
    BY <1>1, <1>2, <1>5 DEF AtFirst, Longest
  <2>. QED
    BY <1>1, <1>2, <1>5, <2>1, <2>2 DEF AtFirst
<1>6. CASE Between
  BY <1>1, <1>2, <1>3, <1>6 DEF Between
<1>7. CASE Posting
  BY <1>1, <1>2, <1>3, <1>7 DEF Posting
<1>. QED
  BY <1>4, <1>5, <1>6, <1>7 DEF PaceInv

LEMMA PaceInit == Init => PaceInv
BY BadInit DEF Init, PaceInv, Unstarted

\* A tick at which an event is posted.
LEMMA DueTick ==
    ASSUME PaceInv, rate \notin BadRates, TakeTick, counter >= maxCount,
           avgMsgPeriodMs \in Nat, midpoint \in Nat
    PROVE  Posting'
<1>1. /\ posts \in Nat /\ ticks \in Nat /\ counter \in Nat /\ maxCount \in Int
      /\ Longest \in Nat \ {0}
  BY DEF PaceInv, BadInv, TypeInv, TypeOK, Longest
<1>2. /\ avgMsgPeriodMs' = avgMsgPeriodMs /\ midpoint' = midpoint /\ Longest' = Longest
      /\ posts' = posts + 1 /\ ticks' = ticks + 1 /\ at' = "post" /\ at = "wait"
  BY DEF TakeTick, avgMsgPeriodMs, midpoint, Longest
<1>3. /\ (posts - 1) * midpoint + midpoint = posts * midpoint
      /\ posts * Longest + Longest = (posts + 1) * Longest
      /\ posts * Longest \in Int /\ (posts - 1) * midpoint \in Int
      /\ posts * midpoint \in Int /\ (posts + 1) * Longest \in Int
      /\ (posts + 1) - 1 = posts
  BY <1>1, OneMore
<1>4. SUFFICES /\ posts + 1 <= ticks + 1
               /\ avgMsgPeriodMs + 1 + posts * midpoint <= ticks + 1
               /\ ticks + 1 <= (posts + 1) * Longest
  BY <1>1, <1>2, <1>3 DEF Posting
<1>5. CASE AtFirst
  <2>1. 0 * midpoint = 0 /\ (0 + 1) * Longest = Longest
    BY <1>1
  <2>2. posts = 0 /\ ticks = counter /\ counter = avgMsgPeriodMs
    BY <1>1, <1>5 DEF AtFirst
  <2>3. ticks + 1 <= Longest
    BY <2>2 DEF Longest
  <2>. QED
    BY <1>1, <2>1, <2>2, <2>3
<1>6. CASE Between
  BY <1>1, <1>3, <1>6 DEF Between
<1>. QED
  BY <1>2, <1>5, <1>6 DEF PaceInv, Unstarted, Posting

\* Any other tick.
LEMMA IdleTick ==
    ASSUME PaceInv, rate \notin BadRates, TakeTick, ~(counter >= maxCount),
           avgMsgPeriodMs \in Nat, midpoint \in Nat
    PROVE  AtFirst' \/ Between'
<1>1. /\ posts \in Nat /\ ticks \in Nat /\ counter \in Nat /\ maxCount \in Int
      /\ Longest \in Nat \ {0}
  BY DEF PaceInv, BadInv, TypeInv, TypeOK, Longest
<1>2. /\ avgMsgPeriodMs' = avgMsgPeriodMs /\ midpoint' = midpoint /\ Longest' = Longest
      /\ posts' = posts /\ ticks' = ticks + 1 /\ counter' = counter + 1
      /\ maxCount' = maxCount /\ at' = "wait" /\ at = "wait"
  BY DEF TakeTick, avgMsgPeriodMs, midpoint, Longest
<1>3. posts * Longest \in Int /\ (posts - 1) * midpoint \in Int
  BY <1>1, OneMore
<1>4. CASE AtFirst
  BY <1>1, <1>2, <1>4 DEF AtFirst
<1>5. CASE Between
  BY <1>1, <1>2, <1>3, <1>5 DEF Between
<1>. QED
  BY <1>2, <1>4, <1>5 DEF PaceInv, Unstarted, Posting

\* The end of a round.
LEMMA Rearmed ==
    ASSUME PaceInv, rate \notin BadRates, rate # 0, Rearm, Posting,
           avgMsgPeriodMs \in Nat, midpoint \in Nat
    PROVE  Between'
<1>1. /\ posts \in Nat /\ ticks \in Nat /\ Longest \in Nat \ {0}
  BY DEF PaceInv, BadInv, TypeInv, TypeOK, Longest
<1>2. /\ rate' = rate /\ posts' = posts /\ ticks' = ticks /\ at' = "wait" /\ counter' = 1
      /\ maxCount' \in Int
      /\ midpoint <= maxCount' /\ maxCount' <= midpoint + avgMsgPeriodMs
  BY RearmEffect DEF PaceInv, BadInv
<1>3. avgMsgPeriodMs' = avgMsgPeriodMs /\ midpoint' = midpoint /\ Longest' = Longest
  BY <1>2 DEF avgMsgPeriodMs, midpoint, Longest
<1>4. posts * Longest \in Int /\ (posts - 1) * midpoint \in Int
  BY <1>1, OneMore
<1>5. maxCount' < Longest /\ 1 <= Longest
  BY <1>1, <1>2 DEF Longest
<1>. QED
  BY <1>1, <1>2, <1>3, <1>4, <1>5 DEF Posting, Between

LEMMA PaceStep == PaceInv /\ [Next]_vars => PaceInv'
<1>. SUFFICES ASSUME PaceInv, [Next]_vars, rate' \notin BadRates'
              PROVE  (Unstarted \/ AtFirst \/ Between \/ Posting)'
  BY BadStep DEF PaceInv
<1>0. rate' = rate
  <2>1. CASE PostFails \/ StoreTotal
    BY <2>1 DEF PostFails, StoreTotal, Rearm
  <2>. QED
    BY <2>1 DEF Next, Start, StartPanics, Tick, TakeTick, PostAnswered, LoadTotal,
                GetTotalMsgSent, ResetTotalMsgSent, vars
<1>1. /\ rate \in Rates /\ rate \notin BadRates /\ rate # 0
      /\ avgMsgPeriodMs \in Nat /\ midpoint \in Nat
      /\ avgMsgPeriodMs' = avgMsgPeriodMs /\ midpoint' = midpoint /\ Longest' = Longest
  <2>1. rate \in Rates /\ rate \notin BadRates /\ rate # 0
    BY <1>0, GeneratorAssumption DEF PaceInv, BadInv, TypeInv, TypeOK, BadRates
  <2>. QED
    BY <1>0, <2>1, Period DEF avgMsgPeriodMs, midpoint, Longest
<1>2. Unstarted \/ AtFirst \/ Between \/ Posting
  BY <1>1 DEF PaceInv
<1>3. CASE Start
  BY <1>1, <1>2, <1>3 DEF Start, Unstarted, AtFirst, Between, Posting
<1>4. CASE StartPanics
  BY <1>1, <1>4 DEF StartPanics
<1>5. CASE UNCHANGED loopVars
  BY <1>1, <1>2, <1>5 DEF loopVars, Unstarted, AtFirst, Between, Posting
<1>6. CASE TakeTick
  BY <1>1, <1>6, DueTick, IdleTick
<1>7. CASE PostAnswered \/ LoadTotal
  BY <1>1, <1>2, <1>7 DEF PostAnswered, LoadTotal, Unstarted, AtFirst, Between, Posting
<1>8. CASE PostFails \/ StoreTotal
  <2>1. Posting /\ Rearm
    BY <1>2, <1>8 DEF PostFails, StoreTotal, Unstarted, AtFirst, Between
  <2>. QED
    BY <1>1, <2>1, Rearmed
<1>. QED
  BY <1>3, <1>4, <1>5, <1>6, <1>7, <1>8
  DEF Next, Tick, GetTotalMsgSent, ResetTotalMsgSent, vars

(* The generator keeps the pace asked for, at any rate it does not die of       *)
(* (events.go:78-110).                                                          *)
THEOREM KeepsPace == Spec => []Paced
BY PaceImpliesPaced, PaceInit, PaceStep, PTL DEF Spec
=============================================================================
