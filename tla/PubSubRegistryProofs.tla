------------------------ MODULE PubSubRegistryProofs ------------------------
(* What PubSubRegistry guarantees for any number of handlers, addresses and    *)
(* ids, any mix of requests, any queue capacity and any number of crashes.     *)
EXTENDS PubSubRegistry, TLAPS

-----------------------------------------------------------------------------
(* deleteFromFile                                                              *)

\* Deleting yields a sequence whose elements are elements of the original.
LEMMA SwapDeleteElements ==
    ASSUME NEW s \in Seq(Record), NEW i
    PROVE  /\ SwapDelete(s, i) \in Seq(Record)
           /\ \A n \in DOMAIN SwapDelete(s, i) :
                \E m \in DOMAIN s : SwapDelete(s, i)[n] = s[m]
<1>1. CASE i \notin IdsIn(s)
    BY <1>1 DEF SwapDelete
<1>2. CASE i \in IdsIn(s)
    <2> DEFINE k == CHOOSE n \in DOMAIN s : s[n].id = i
               t == [s EXCEPT ![k] = s[Len(s)]]
    <2>1. k \in DOMAIN s
        BY <1>2 DEF IdsIn
    <2>2. Len(s) \in DOMAIN s /\ DOMAIN s = 1 .. Len(s) /\ Len(s) \in Nat
        BY <2>1
    <2>3. t \in Seq(Record) /\ Len(t) = Len(s)
        BY <2>1, <2>2
    <2>4. SwapDelete(s, i) = SubSeq(t, 1, Len(s) - 1)
        BY <1>2 DEF SwapDelete
    <2>5. /\ SubSeq(t, 1, Len(s) - 1) \in Seq(Record)
          /\ DOMAIN SubSeq(t, 1, Len(s) - 1) = 1 .. Len(s) - 1
          /\ \A n \in 1 .. Len(s) - 1 : SubSeq(t, 1, Len(s) - 1)[n] = t[n]
        <3> HIDE DEF t
        <3> QED BY <2>2, <2>3
    <2>6. \A n \in 1 .. Len(s) - 1 : \E m \in DOMAIN s : t[n] = s[m]
        <3> SUFFICES ASSUME NEW n \in 1 .. Len(s) - 1
                     PROVE  \E m \in DOMAIN s : t[n] = s[m]
            OBVIOUS
        <3>1. CASE n = k
            <4>1. t[n] = s[Len(s)] BY <3>1, <2>1
            <4> QED BY <4>1, <2>2
        <3>2. CASE n # k
            <4>1. t[n] = s[n] BY <3>2, <2>2
            <4> QED BY <4>1, <2>2
        <3> QED BY <3>1, <3>2
    <2> HIDE DEF t, k
    <2> QED BY <2>4, <2>5, <2>6
<1> QED BY <1>1, <1>2

\* Where ids are distinct, deleting removes exactly the one asked for.
LEMMA SwapDeleteIds ==
    ASSUME NEW s \in Seq(Record), NEW i, Distinct(s)
    PROVE  /\ Distinct(SwapDelete(s, i))
           /\ IdsIn(SwapDelete(s, i)) = IdsIn(s) \ {i}
<1>1. CASE i \notin IdsIn(s)
    BY <1>1 DEF SwapDelete
<1>2. CASE i \in IdsIn(s)
    <2> DEFINE k == CHOOSE n \in DOMAIN s : s[n].id = i
               t == [s EXCEPT ![k] = s[Len(s)]]
               r == SwapDelete(s, i)
               src(n) == IF n = k THEN Len(s) ELSE n
    <2>1. k \in DOMAIN s /\ s[k].id = i
        BY <1>2 DEF IdsIn
    <2>2. Len(s) \in DOMAIN s /\ DOMAIN s = 1 .. Len(s) /\ Len(s) \in Nat \ {0}
        BY <2>1
    <2>3. t \in Seq(Record) /\ Len(t) = Len(s)
        BY <2>1, <2>2
    <2>4. r = SubSeq(t, 1, Len(s) - 1)
        BY <1>2 DEF SwapDelete
    <2>5. \A n \in 1 .. Len(s) - 1 : t[n] = s[src(n)] /\ src(n) \in DOMAIN s
        BY <2>1, <2>2
    <2>6. DOMAIN r = 1 .. Len(s) - 1 /\ \A n \in 1 .. Len(s) - 1 : r[n] = t[n]
        <3> HIDE DEF t, r
        <3> QED BY <2>2, <2>3, <2>4
    <2>7. \A n \in DOMAIN r : r[n] = s[src(n)] /\ src(n) \in DOMAIN s
        <3> HIDE DEF t, r, k, src
        <3> QED BY <2>5, <2>6
    <2>8. \A m, n \in 1 .. Len(s) - 1 : src(m) = src(n) => m = n
        <3> HIDE DEF k
        <3> QED BY <2>1, <2>2
    <2>9. \A n \in 1 .. Len(s) - 1 : src(n) # k
        <3> HIDE DEF k
        <3> QED BY <2>1, <2>2
    <2>10. \A m \in DOMAIN s : m # k => \E n \in 1 .. Len(s) - 1 : src(n) = m
        <3> SUFFICES ASSUME NEW m \in DOMAIN s, m # k
                     PROVE  \E n \in 1 .. Len(s) - 1 : src(n) = m
            OBVIOUS
        <3> HIDE DEF k
        <3>1. CASE m = Len(s)
            <4>1. k \in 1 .. Len(s) - 1 /\ src(k) = m BY <3>1, <2>1, <2>2
            <4> QED BY <4>1
        <3>2. CASE m # Len(s)
            <4>1. m \in 1 .. Len(s) - 1 /\ src(m) = m BY <3>2, <2>2
            <4> QED BY <4>1
        <3> QED BY <3>1, <3>2
    <2> HIDE DEF t, r, k, src
    <2>11. Distinct(r)
        BY <2>6, <2>7, <2>8 DEF Distinct
    <2>12. \A n \in DOMAIN r : s[src(n)].id # i
        BY <2>1, <2>6, <2>7, <2>9 DEF Distinct
    <2>13. IdsIn(r) \subseteq IdsIn(s) \ {i}
        BY <2>7, <2>12 DEF IdsIn
    <2>14. \A m \in DOMAIN s : s[m].id # i => s[m].id \in IdsIn(r)
        BY <2>1, <2>6, <2>7, <2>10 DEF IdsIn
    <2>15. IdsIn(s) \ {i} \subseteq IdsIn(r)
        BY <2>14 DEF IdsIn
    <2> QED BY <2>11, <2>13, <2>15 DEF r
<1> QED BY <1>1, <1>2

\* Appending adds the one id.
LEMMA AppendIds ==
    ASSUME NEW s \in Seq(Record), NEW r \in Record
    PROVE  /\ Append(s, r) \in Seq(Record)
           /\ \A n \in DOMAIN Append(s, r) :
                Append(s, r)[n] = r \/ \E m \in DOMAIN s : Append(s, r)[n] = s[m]
           /\ IdsIn(Append(s, r)) = IdsIn(s) \cup {r.id}
           /\ Distinct(s) /\ r.id \notin IdsIn(s) => Distinct(Append(s, r))
<1> DEFINE t == Append(s, r)
<1>1. /\ t \in Seq(Record)
      /\ DOMAIN s = 1 .. Len(s) /\ Len(s) \in Nat
      /\ DOMAIN t = 1 .. Len(s) + 1
      /\ t[Len(s) + 1] = r
      /\ \A n \in 1 .. Len(s) : t[n] = s[n]
    OBVIOUS
<1> HIDE DEF t
<1>2. \A n \in DOMAIN t : n = Len(s) + 1 \/ n \in DOMAIN s
    BY <1>1
<1>3. \A n \in DOMAIN t : t[n] = r \/ \E m \in DOMAIN s : t[n] = s[m]
    BY <1>1, <1>2
<1>4. IdsIn(t) = IdsIn(s) \cup {r.id}
    BY <1>1, <1>2 DEF IdsIn
<1>5. Distinct(s) /\ r.id \notin IdsIn(s) => Distinct(t)
    BY <1>1, <1>2 DEF IdsIn, Distinct
<1> QED BY <1>1, <1>3, <1>4, <1>5 DEF t

-----------------------------------------------------------------------------
(* Type correctness.  TypeOK is not inductive: what rec and key hold depends    *)
(* on the step the handler has reached.                                         *)

LocalOK(h) ==
    /\ pc[h] \in {"check", "validate"} => op[h] = "create" /\ rec[h] \in Draft
    /\ pc[h] = "read" => op[h] \in {"create", "delete"} /\ rec[h] \in Record
    /\ pc[h] \in {"truncate", "write"} => op[h] \in {"create", "delete", "deleteAll"}
    /\ pc[h] = "write" => op[h] # "deleteAll"
    /\ pc[h] \in {"truncate", "write", "update"} /\ op[h] = "create" => rec[h] \in Record
    /\ pc[h] = "send" => op[h] = "create" /\ rec[h] \in Record
    /\ pc[h] \in {"lookup", "read", "truncate", "write", "update"} /\ op[h] \in {"get", "delete"}
        => key[h] \in Ids

TypeInv == TypeOK /\ \A h \in Handlers : LocalOK(h)

LEMMA TypeInit == Init => TypeInv
BY QueueCapAssumption, CrashAssumption
   DEF Init, TypeInv, TypeOK, SharedOK, HandlersOK, HistoryOK, LocalOK, Kinds,
       Operations, Steps, EmptyStore

\* A handler's step, put together from its effect on each part.
LEMMA TypeNext == TypeInv /\ [Next]_vars => TypeInv'
<1> SUFFICES ASSUME TypeInv, [Next]_vars PROVE TypeInv'
    OBVIOUS
<1> USE DEF TypeInv, TypeOK, historyVars, diskVars, handlerVars, Goto, Reply
<1>1. ASSUME NEW h \in Handlers, Accept(h) PROVE TypeInv'
    <2>0. /\ pc[h] = "idle"
          /\ UNCHANGED <<up, file, damaged, store, dataOut, buf, code, historyVars, crashes>>
          /\ \E o \in Operations, k \in Kinds :
               /\ op' = [op EXCEPT ![h] = o]
               /\ kind' = [kind EXCEPT ![h] = k]
               /\ pc' = [pc EXCEPT ![h] = FirstStep(o)]
               /\ \E d \in Draft \cup {None} :
                    rec' = [rec EXCEPT ![h] = d] /\ (o = "create" => d \in Draft)
               /\ \E i \in Ids \cup {None} :
                    key' = [key EXCEPT ![h] = i] /\ (o \in {"get", "delete"} => i \in Ids)
        <3> PICK r \in Requests :
              /\ op' = [op EXCEPT ![h] = r[1]]
              /\ kind' = [kind EXCEPT ![h] = r[2]]
              /\ Goto(h, FirstStep(r[1]))
              /\ IF r[1] = "create"
                 THEN /\ Cardinality(Creating) < Cardinality(FreshIds)
                      /\ \E a \in Addrs : rec' = [rec EXCEPT ![h] = [id |-> None, addr |-> a]]
                 ELSE rec' = [rec EXCEPT ![h] = None]
              /\ IF r[1] \in {"get", "delete"}
                 THEN \E i \in Ids : key' = [key EXCEPT ![h] = i]
                 ELSE key' = [key EXCEPT ![h] = None]
            BY <1>1 DEF Accept
        <3>1. r[1] \in Operations /\ r[2] \in Kinds
            BY RequestsAssumption
        <3>2. \E d \in Draft \cup {None} :
                rec' = [rec EXCEPT ![h] = d] /\ (r[1] = "create" => d \in Draft)
            <4>1. CASE r[1] = "create"
                <5>1. PICK a \in Addrs : rec' = [rec EXCEPT ![h] = [id |-> None, addr |-> a]]
                    BY <4>1
                <5>2. [id |-> None, addr |-> a] \in Draft
                    BY DEF Draft
                <5> QED BY <5>1, <5>2
            <4>2. CASE r[1] # "create"
                BY <4>2
            <4> QED BY <4>1, <4>2
        <3>3. \E i \in Ids \cup {None} :
                key' = [key EXCEPT ![h] = i] /\ (r[1] \in {"get", "delete"} => i \in Ids)
            OBVIOUS
        <3> QED BY <1>1, <3>1, <3>2, <3>3 DEF Accept
    <2>1. SharedOK' /\ HistoryOK'
        BY <2>0 DEF SharedOK, HistoryOK
    <2>2. pc' \in [Handlers -> Steps]
        BY <2>0 DEF HandlersOK, FirstStep, Operations, Steps
    <2>3. HandlersOK'
        BY <2>0, <2>2 DEF HandlersOK
    <2>4. LocalOK(h)'
        BY <2>0 DEF HandlersOK, LocalOK, FirstStep, Operations
    <2>5. ASSUME NEW g \in Handlers, g # h PROVE LocalOK(g)'
        BY <2>0, <2>5 DEF HandlersOK, LocalOK
    <2> QED BY <2>1, <2>3, <2>4, <2>5
<1>2. ASSUME NEW h \in Handlers, Finish(h) PROVE TypeInv'
    <2>1. SharedOK'
        BY <1>2 DEF Finish, SharedOK, HandlersOK, LocalOK
    <2>2. HandlersOK'
        BY <1>2 DEF Finish, SharedOK, HandlersOK, LocalOK, Steps, Operations, Kinds
    <2>3. HistoryOK'
        BY <1>2 DEF Finish, HandlersOK, HistoryOK, LocalOK
    <2>4. LocalOK(h)'
        BY <1>2 DEF Finish, SharedOK, HandlersOK, LocalOK, Operations, Kinds
    <2>5. ASSUME NEW g \in Handlers, g # h PROVE LocalOK(g)'
        BY <1>2, <2>5 DEF Finish, HandlersOK, LocalOK
    <2> QED BY <2>1, <2>2, <2>3, <2>4, <2>5
<1>3. ASSUME NEW h \in Handlers, CheckDuplicate(h) PROVE TypeInv'
    <2>0. Registered(kind[h], rec[h].addr) \subseteq Record
        BY <1>3 DEF Registered, Stored, SharedOK, HandlersOK
    <2>1. \E r \in Record \cup Draft :
              /\ rec' = [rec EXCEPT ![h] = r]
              /\ \/ pc' = [pc EXCEPT ![h] = "send"] /\ r \in Record
                 \/ pc' = [pc EXCEPT ![h] = "validate"] /\ r \in Draft
        <3>1. CASE Registered(kind[h], rec[h].addr) # {}
            BY <1>3, <2>0, <3>1 DEF CheckDuplicate
        <3>2. CASE Registered(kind[h], rec[h].addr) = {}
            <4>1. rec[h] \in Draft /\ rec' = [rec EXCEPT ![h] = rec[h]]
                BY <1>3, <3>2 DEF CheckDuplicate, HandlersOK, LocalOK
            <4> QED BY <1>3, <3>2, <4>1 DEF CheckDuplicate
        <3> QED BY <3>1, <3>2
    <2>2. /\ rec' \in [Handlers -> Record \cup Draft \cup {None}]
          /\ pc' \in [Handlers -> Steps]
        <3>0. pc \in [Handlers -> Steps] /\ rec \in [Handlers -> Record \cup Draft \cup {None}]
            BY DEF HandlersOK
        <3> HIDE DEF TypeInv
        <3>1. pc' \in [Handlers -> Steps]
            BY <2>1, <3>0 DEF Steps
        <3>2. rec' \in [Handlers -> Record \cup Draft \cup {None}]
            BY <2>1, <3>0
        <3> QED BY <3>1, <3>2
    <2>3. SharedOK'
        BY <1>3 DEF CheckDuplicate, SharedOK
    <2>4. HandlersOK'
        BY <1>3, <2>2 DEF CheckDuplicate, HandlersOK
    <2>5. HistoryOK'
        BY <1>3 DEF CheckDuplicate, HistoryOK
    <2>6. LocalOK(h)'
        BY <1>3, <2>1 DEF CheckDuplicate, HandlersOK, LocalOK
    <2>7. ASSUME NEW g \in Handlers, g # h PROVE LocalOK(g)'
        BY <1>3, <2>1, <2>7 DEF CheckDuplicate, HandlersOK, LocalOK
    <2> QED BY <2>3, <2>4, <2>5, <2>6, <2>7
<1>4. ASSUME NEW h \in Handlers, RejectBody(h) PROVE TypeInv'
    <2>1. SharedOK'
        BY <1>4 DEF RejectBody, SharedOK, HandlersOK, LocalOK
    <2>2. HandlersOK'
        BY <1>4 DEF RejectBody, SharedOK, HandlersOK, LocalOK, Steps
    <2>3. HistoryOK'
        BY <1>4 DEF RejectBody, HandlersOK, HistoryOK, LocalOK
    <2>4. LocalOK(h)'
        BY <1>4 DEF RejectBody, SharedOK, HandlersOK, LocalOK
    <2>5. ASSUME NEW g \in Handlers, g # h PROVE LocalOK(g)'
        BY <1>4, <2>5 DEF RejectBody, HandlersOK, LocalOK
    <2> QED BY <2>1, <2>2, <2>3, <2>4, <2>5
<1>5. ASSUME NEW h \in Handlers, EndpointRefused(h) PROVE TypeInv'
    <2>1. SharedOK'
        BY <1>5 DEF EndpointRefused, SharedOK, HandlersOK, LocalOK
    <2>2. HandlersOK'
        BY <1>5 DEF EndpointRefused, SharedOK, HandlersOK, LocalOK, Steps
    <2>3. HistoryOK'
        BY <1>5 DEF EndpointRefused, HandlersOK, HistoryOK, LocalOK
    <2>4. LocalOK(h)'
        BY <1>5 DEF EndpointRefused, SharedOK, HandlersOK, LocalOK
    <2>5. ASSUME NEW g \in Handlers, g # h PROVE LocalOK(g)'
        BY <1>5, <2>5 DEF EndpointRefused, HandlersOK, LocalOK
    <2> QED BY <2>1, <2>2, <2>3, <2>4, <2>5
<1>6. ASSUME NEW h \in Handlers, EndpointAccepted(h) PROVE TypeInv'
    <2> PICK i \in FreshIds :
            /\ rec' = [rec EXCEPT ![h].id = i]
            /\ born' = [born EXCEPT ![i] = [kind |-> kind[h], addr |-> rec[h].addr]]
        BY <1>6 DEF EndpointAccepted
    <2>0. rec[h] \in Draft /\ i \in Ids /\ op[h] = "create"
        BY <1>6 DEF EndpointAccepted, LocalOK, FreshIds
    <2>1. SharedOK'
        BY <1>6 DEF EndpointAccepted, SharedOK
    <2>2. rec'[h] \in Record /\ rec' \in [Handlers -> Record \cup Draft \cup {None}]
        <3>1. [rec[h] EXCEPT !.id = i] \in Record
            BY <2>0 DEF Draft, Record
        <3>2. rec' = [rec EXCEPT ![h] = [rec[h] EXCEPT !.id = i]]
            BY DEF HandlersOK
        <3> HIDE DEF TypeInv
        <3> QED BY <3>1, <3>2, <1>6 DEF TypeInv, HandlersOK
    <2>3. HandlersOK'
        BY <1>6, <2>2 DEF EndpointAccepted, HandlersOK, Steps
    <2>4. HistoryOK'
        BY <1>6, <2>0 DEF EndpointAccepted, HandlersOK, HistoryOK, Draft, Origin
    <2>5. LocalOK(h)'
        BY <1>6, <2>0, <2>2 DEF EndpointAccepted, HandlersOK, LocalOK
    <2>6. ASSUME NEW g \in Handlers, g # h PROVE LocalOK(g)'
        BY <1>6, <2>6 DEF EndpointAccepted, HandlersOK, LocalOK
    <2> QED BY <2>1, <2>3, <2>4, <2>5, <2>6
<1>7. ASSUME NEW h \in Handlers, ReadDamaged(h) PROVE TypeInv'
    <2>1. SharedOK'
        BY <1>7 DEF ReadDamaged, SharedOK, HandlersOK, LocalOK
    <2>2. HandlersOK'
        BY <1>7 DEF ReadDamaged, SharedOK, HandlersOK, LocalOK, Steps
    <2>3. HistoryOK'
        BY <1>7 DEF ReadDamaged, HandlersOK, HistoryOK, LocalOK
    <2>4. LocalOK(h)'
        BY <1>7 DEF ReadDamaged, SharedOK, HandlersOK, LocalOK
    <2>5. ASSUME NEW g \in Handlers, g # h PROVE LocalOK(g)'
        BY <1>7, <2>5 DEF ReadDamaged, HandlersOK, LocalOK
    <2> QED BY <2>1, <2>2, <2>3, <2>4, <2>5
<1>8. ASSUME NEW h \in Handlers, ReadFile(h) PROVE TypeInv'
    <2>0. NewContent(h) \in Seq(Record)
        BY <1>8, AppendIds, SwapDeleteElements
           DEF ReadFile, NewContent, SharedOK, HandlersOK, LocalOK
    <2>1. SharedOK'
        BY <1>8, <2>0 DEF ReadFile, SharedOK, HandlersOK, LocalOK
    <2>2. HandlersOK'
        BY <1>8, <2>0 DEF ReadFile, SharedOK, HandlersOK, LocalOK, Steps
    <2>3. HistoryOK'
        BY <1>8 DEF ReadFile, HandlersOK, HistoryOK, LocalOK
    <2>4. LocalOK(h)'
        BY <1>8 DEF ReadFile, SharedOK, HandlersOK, LocalOK
    <2>5. ASSUME NEW g \in Handlers, g # h PROVE LocalOK(g)'
        BY <1>8, <2>5 DEF ReadFile, HandlersOK, LocalOK
    <2> QED BY <2>1, <2>2, <2>3, <2>4, <2>5
<1>9. ASSUME NEW h \in Handlers, Truncate(h) PROVE TypeInv'
    <2>1. SharedOK'
        BY <1>9 DEF Truncate, SharedOK, HandlersOK, LocalOK
    <2>2. HandlersOK'
        BY <1>9 DEF Truncate, SharedOK, HandlersOK, LocalOK, Steps
    <2>3. HistoryOK'
        BY <1>9 DEF Truncate, HandlersOK, HistoryOK, LocalOK
    <2>4. LocalOK(h)'
        BY <1>9 DEF Truncate, SharedOK, HandlersOK, LocalOK
    <2>5. ASSUME NEW g \in Handlers, g # h PROVE LocalOK(g)'
        BY <1>9, <2>5 DEF Truncate, HandlersOK, LocalOK
    <2> QED BY <2>1, <2>2, <2>3, <2>4, <2>5
<1>10. ASSUME NEW h \in Handlers, WriteFile(h) PROVE TypeInv'
    <2>1. SharedOK'
        <3>1. kind[h] \in Kinds /\ buf[h] \in Seq(Record) /\ <<>> \in Seq(Record)
            BY <1>10 DEF HandlersOK
        <3>2. file' \in [Kinds -> Seq(Record)]
            BY <1>10, <3>1 DEF WriteFile, SharedOK
        <3>3. damaged' \subseteq Kinds
            BY <1>10, <3>1 DEF WriteFile, SharedOK
        <3> QED BY <1>10, <3>2, <3>3 DEF WriteFile, SharedOK
    <2>2. HandlersOK'
        BY <1>10 DEF WriteFile, SharedOK, HandlersOK, LocalOK, Steps
    <2>3. HistoryOK'
        BY <1>10 DEF WriteFile, HandlersOK, HistoryOK, LocalOK
    <2>4. LocalOK(h)'
        BY <1>10 DEF WriteFile, SharedOK, HandlersOK, LocalOK
    <2>5. ASSUME NEW g \in Handlers, g # h PROVE LocalOK(g)'
        BY <1>10, <2>5 DEF WriteFile, HandlersOK, LocalOK
    <2> QED BY <2>1, <2>2, <2>3, <2>4, <2>5
<1>11. ASSUME NEW h \in Handlers, SetInStore(h) PROVE TypeInv'
    <2>1. SharedOK'
        BY <1>11 DEF SetInStore, SharedOK, HandlersOK, LocalOK, Put, Record
    <2>2. HandlersOK'
        BY <1>11 DEF SetInStore, SharedOK, HandlersOK, LocalOK, Steps, Put, Record
    <2>3. HistoryOK'
        BY <1>11 DEF SetInStore, HandlersOK, HistoryOK, LocalOK, Put, Record
    <2>4. LocalOK(h)'
        BY <1>11 DEF SetInStore, SharedOK, HandlersOK, LocalOK, Put, Record
    <2>5. ASSUME NEW g \in Handlers, g # h PROVE LocalOK(g)'
        BY <1>11, <2>5 DEF SetInStore, HandlersOK, LocalOK
    <2> QED BY <2>1, <2>2, <2>3, <2>4, <2>5
<1>12. ASSUME NEW h \in Handlers, DeleteFromStore(h) PROVE TypeInv'
    <2>1. SharedOK'
        BY <1>12 DEF DeleteFromStore, SharedOK, HandlersOK, LocalOK, Stored
    <2>2. HandlersOK'
        BY <1>12 DEF DeleteFromStore, SharedOK, HandlersOK, LocalOK, Steps, Stored
    <2>3. HistoryOK'
        BY <1>12 DEF DeleteFromStore, HandlersOK, HistoryOK, LocalOK, Stored
    <2>4. LocalOK(h)'
        BY <1>12 DEF DeleteFromStore, SharedOK, HandlersOK, LocalOK, Stored
    <2>5. ASSUME NEW g \in Handlers, g # h PROVE LocalOK(g)'
        BY <1>12, <2>5 DEF DeleteFromStore, HandlersOK, LocalOK
    <2> QED BY <2>1, <2>2, <2>3, <2>4, <2>5
<1>13. ASSUME NEW h \in Handlers, ClearStore(h) PROVE TypeInv'
    <2>1. SharedOK'
        BY <1>13 DEF ClearStore, SharedOK, HandlersOK, LocalOK, Stored, EmptyStore
    <2>2. HandlersOK'
        BY <1>13 DEF ClearStore, SharedOK, HandlersOK, LocalOK, Steps, Stored, EmptyStore
    <2>3. HistoryOK'
        BY <1>13 DEF ClearStore, HandlersOK, HistoryOK, LocalOK, Stored, EmptyStore
    <2>4. LocalOK(h)'
        BY <1>13 DEF ClearStore, SharedOK, HandlersOK, LocalOK, Stored, EmptyStore
    <2>5. ASSUME NEW g \in Handlers, g # h PROVE LocalOK(g)'
        BY <1>13, <2>5 DEF ClearStore, HandlersOK, LocalOK
    <2> QED BY <2>1, <2>2, <2>3, <2>4, <2>5
<1>14. ASSUME NEW h \in Handlers, SendOut(h) PROVE TypeInv'
    <2>1. SharedOK'
        <3> DEFINE msg == [kind |-> kind[h], addr |-> rec[h].addr]
        <3>1. msg \in [kind : Kinds, addr : Addrs]
            BY <1>14 DEF SendOut, HandlersOK, LocalOK, Record
        <3>2. dataOut' = Append(dataOut, msg) /\ Len(dataOut) < QueueCap
            BY <1>14 DEF SendOut, Enqueue
        <3> HIDE DEF msg
        <3>3. /\ dataOut' \in Seq([kind : Kinds, addr : Addrs])
              /\ Len(dataOut') <= QueueCap
            BY <3>1, <3>2, QueueCapAssumption DEF SharedOK
        <3> QED BY <1>14, <3>3 DEF SendOut, SharedOK
    <2>2. HandlersOK'
        BY <1>14 DEF SendOut, SharedOK, HandlersOK, LocalOK, Steps, Enqueue, Record
    <2>3. HistoryOK'
        BY <1>14 DEF SendOut, HandlersOK, HistoryOK, LocalOK, Enqueue, Record
    <2>4. LocalOK(h)'
        BY <1>14 DEF SendOut, SharedOK, HandlersOK, LocalOK, Enqueue, Record
    <2>5. ASSUME NEW g \in Handlers, g # h PROVE LocalOK(g)'
        BY <1>14, <2>5 DEF SendOut, HandlersOK, LocalOK
    <2> QED BY <2>1, <2>2, <2>3, <2>4, <2>5
<1>15. ASSUME NEW h \in Handlers, GetByID(h) PROVE TypeInv'
    <2>1. SharedOK'
        BY <1>15 DEF GetByID, SharedOK, HandlersOK, LocalOK, Stored
    <2>2. HandlersOK'
        BY <1>15 DEF GetByID, SharedOK, HandlersOK, LocalOK, Steps, Stored
    <2>3. HistoryOK'
        BY <1>15 DEF GetByID, HandlersOK, HistoryOK, LocalOK, Stored
    <2>4. LocalOK(h)'
        BY <1>15 DEF GetByID, SharedOK, HandlersOK, LocalOK, Stored
    <2>5. ASSUME NEW g \in Handlers, g # h PROVE LocalOK(g)'
        BY <1>15, <2>5 DEF GetByID, HandlersOK, LocalOK
    <2> QED BY <2>1, <2>2, <2>3, <2>4, <2>5
<1>16. ASSUME NEW h \in Handlers, ListAll(h) PROVE TypeInv'
    <2>1. SharedOK'
        BY <1>16 DEF ListAll, SharedOK, HandlersOK, LocalOK
    <2>2. HandlersOK'
        BY <1>16 DEF ListAll, SharedOK, HandlersOK, LocalOK, Steps
    <2>3. HistoryOK'
        BY <1>16 DEF ListAll, HandlersOK, HistoryOK, LocalOK
    <2>4. LocalOK(h)'
        BY <1>16 DEF ListAll, SharedOK, HandlersOK, LocalOK
    <2>5. ASSUME NEW g \in Handlers, g # h PROVE LocalOK(g)'
        BY <1>16, <2>5 DEF ListAll, HandlersOK, LocalOK
    <2> QED BY <2>1, <2>2, <2>3, <2>4, <2>5
<1>17. ASSUME NEW h \in Handlers, DeletePublisher(h) PROVE TypeInv'
    <2>1. SharedOK'
        BY <1>17 DEF DeletePublisher, SharedOK, HandlersOK, LocalOK, Stored
    <2>2. HandlersOK'
        <3>0. /\ pc \in [Handlers -> Steps] /\ code \in [Handlers -> {0, 200, 201, 400}]
              /\ rec \in [Handlers -> Record \cup Draft \cup {None}]
            BY DEF HandlersOK
        <3>2. \A i \in Stored("PRODUCER") : store["PRODUCER"][i] \in Record
            BY DEF SharedOK, Stored, Kinds
        <3>4. HandlersOK
            OBVIOUS
        <3> HIDE DEF TypeInv
        <3>1. pc' \in [Handlers -> Steps] /\ code' \in [Handlers -> {0, 200, 201, 400}]
            BY <1>17, <3>0 DEF DeletePublisher, Steps
        <3>3. rec' \in [Handlers -> Record \cup Draft \cup {None}]
            BY <1>17, <3>0, <3>2 DEF DeletePublisher
        <3> QED BY <1>17, <3>1, <3>3, <3>4 DEF DeletePublisher, HandlersOK
    <2>3. HistoryOK'
        BY <1>17 DEF DeletePublisher, HandlersOK, HistoryOK, LocalOK, Stored
    <2>4. LocalOK(h)'
        BY <1>17 DEF DeletePublisher, SharedOK, HandlersOK, LocalOK, Stored
    <2>5. ASSUME NEW g \in Handlers, g # h PROVE LocalOK(g)'
        BY <1>17, <2>5 DEF DeletePublisher, HandlersOK, LocalOK
    <2> QED BY <2>1, <2>2, <2>3, <2>4, <2>5
<1>18. ASSUME NEW h \in Handlers, DeleteSubscription(h) PROVE TypeInv'
    <2>1. SharedOK'
        BY <1>18 DEF DeleteSubscription, SharedOK, HandlersOK, LocalOK
    <2>2. HandlersOK'
        BY <1>18 DEF DeleteSubscription, SharedOK, HandlersOK, LocalOK, Steps
    <2>3. HistoryOK'
        BY <1>18 DEF DeleteSubscription, HandlersOK, HistoryOK, LocalOK
    <2>4. LocalOK(h)'
        BY <1>18 DEF DeleteSubscription, SharedOK, HandlersOK, LocalOK
    <2>5. ASSUME NEW g \in Handlers, g # h PROVE LocalOK(g)'
        BY <1>18, <2>5 DEF DeleteSubscription, HandlersOK, LocalOK
    <2> QED BY <2>1, <2>2, <2>3, <2>4, <2>5
<1>19. CASE RouterTake
    <2>1. SharedOK'
        <3>1. /\ Tail(dataOut) \in Seq([kind : Kinds, addr : Addrs])
              /\ Len(Tail(dataOut)) <= QueueCap
            BY <1>19, QueueCapAssumption DEF RouterTake, SharedOK
        <3> QED BY <1>19, <3>1 DEF RouterTake, SharedOK
    <2>2. HandlersOK'
        BY <1>19 DEF RouterTake, HandlersOK
    <2>3. HistoryOK'
        BY <1>19 DEF RouterTake, HistoryOK
    <2>4. ASSUME NEW g \in Handlers PROVE LocalOK(g)'
        BY <1>19 DEF RouterTake, LocalOK
    <2> QED BY <2>1, <2>2, <2>3, <2>4
<1>20. CASE Crash
    <2>1. SharedOK'
        <3>1. crashes' \in 0 .. MaxCrashes
            BY <1>20, CrashAssumption DEF Crash, SharedOK
        <3>2. dataOut' \in Seq([kind : Kinds, addr : Addrs]) /\ Len(dataOut') <= QueueCap
            BY <1>20, QueueCapAssumption DEF Crash
        <3>3. store' \in [Kinds -> [Ids -> Record \cup {None}]]
            BY <1>20 DEF Crash, EmptyStore
        <3> QED BY <1>20, <3>1, <3>2, <3>3 DEF Crash, SharedOK
    <2>2. HandlersOK'
        BY <1>20 DEF Crash, HandlersOK, EmptyStore, Steps, Operations, Kinds
    <2>3. HistoryOK'
        BY <1>20 DEF Crash, HistoryOK
    <2>4. ASSUME NEW g \in Handlers PROVE LocalOK(g)'
        BY <1>20 DEF Crash, LocalOK
    <2> QED BY <2>1, <2>2, <2>3, <2>4
<1>21. CASE Start
    <2>1. SharedOK'
        BY <1>21 DEF Start, SharedOK, Load, IdsIn
    <2>2. HandlersOK'
        BY <1>21 DEF Start, HandlersOK, Load, IdsIn
    <2>3. HistoryOK'
        BY <1>21 DEF Start, HistoryOK
    <2>4. ASSUME NEW g \in Handlers PROVE LocalOK(g)'
        BY <1>21 DEF Start, LocalOK
    <2> QED BY <2>1, <2>2, <2>3, <2>4
<1>22. CASE UNCHANGED vars
    BY <1>22 DEF vars, SharedOK, HandlersOK, HistoryOK, LocalOK
<1> HIDE DEF TypeInv
<1> QED
    BY <1>1, <1>2, <1>3, <1>4, <1>5, <1>6, <1>7, <1>8, <1>9, <1>10, <1>11, <1>12, <1>13, <1>14, <1>15, <1>16, <1>17, <1>18, <1>19, <1>20, <1>21, <1>22 DEF Next, Serve

\* For any constants, every variable stays within its type: the queue never
\* holds more than QueueCap requests, and no handler ever works on a record or
\* a key it does not have.
THEOREM TypeCorrect == Spec => []TypeOK
<1>1. TypeInv => TypeOK
    BY DEF TypeInv
<1> QED BY TypeInit, TypeNext, <1>1, PTL DEF Spec

-----------------------------------------------------------------------------
(* Provenance.  The invariant needs the handlers' own records as well, and      *)
(* that an idle handler has nothing to write.                                   *)

RecsGenuine == \A h \in Handlers : rec[h] \in Record => Genuine(kind[h], rec[h])
IdleClean == \A h \in Handlers : pc[h] = "idle" => buf[h] = <<>>
GenInv == FilesGenuine /\ StoresGenuine /\ BufsGenuine /\ RecsGenuine /\ IdleClean

LEMMA GenInit == Init => GenInv
BY NoneAssumption
   DEF Init, GenInv, FilesGenuine, StoresGenuine, BufsGenuine, RecsGenuine, IdleClean,
       Stored, EmptyStore, Kinds

\* Steps that move a handler on without touching what the invariant is about.
LEMMA GenUntouched ==
    ASSUME GenInv, UNCHANGED <<file, store, buf, kind, rec, born>>,
           \A h \in Handlers : pc'[h] = "idle" => pc[h] = "idle"
    PROVE  GenInv'
BY DEF GenInv, FilesGenuine, StoresGenuine, BufsGenuine, RecsGenuine, IdleClean, Stored, Genuine

LEMMA NoneIsNoRecord ==
    /\ None \notin Record
    /\ \A d \in Draft : d \notin Record
    /\ None \notin Origin
BY NoneAssumption DEF Record, Draft

LEMMA GenNext == TypeInv /\ TypeInv' /\ GenInv /\ [Next]_vars => GenInv'
<1> SUFFICES ASSUME TypeInv, TypeInv', GenInv, [Next]_vars PROVE GenInv'
    OBVIOUS
<1> USE DEF historyVars, diskVars, handlerVars
<1>a. SharedOK /\ HandlersOK /\ HistoryOK /\ HandlersOK' /\ \A h \in Handlers : LocalOK(h)
    BY DEF TypeInv, TypeOK
<1>b. FilesGenuine /\ StoresGenuine /\ BufsGenuine /\ RecsGenuine /\ IdleClean
    BY DEF GenInv
<1>1. ASSUME NEW h \in Handlers, Accept(h) PROVE GenInv'
    <2>1. FilesGenuine' /\ StoresGenuine'
        BY <1>1, <1>b DEF Accept, FilesGenuine, StoresGenuine, Stored, Genuine
    <2>2. BufsGenuine'
        BY <1>1, <1>a, <1>b DEF Accept, BufsGenuine, IdleClean, Genuine, HandlersOK
    <2>3. rec'[h] \notin Record
        BY <1>1, <1>a, NoneIsNoRecord DEF Accept, HandlersOK, Draft
    <2>4. RecsGenuine'
        BY <1>1, <1>a, <1>b, <2>3 DEF Accept, HandlersOK, RecsGenuine, Genuine
    <2>5. IdleClean'
        BY <1>1, <1>a, <1>b DEF Accept, Goto, HandlersOK, IdleClean
    <2> QED BY <2>1, <2>2, <2>4, <2>5 DEF GenInv
<1>2. ASSUME NEW h \in Handlers, Finish(h) PROVE GenInv'
    <2>1. FilesGenuine' /\ StoresGenuine'
        BY <1>2, <1>b DEF Finish, FilesGenuine, StoresGenuine, Stored, Genuine
    <2>2. BufsGenuine' /\ IdleClean'
        BY <1>2, <1>a, <1>b DEF Finish, Goto, HandlersOK, BufsGenuine, IdleClean, Genuine
    <2>3. RecsGenuine'
        BY <1>2, <1>a, <1>b, NoneIsNoRecord DEF Finish, HandlersOK, RecsGenuine, Genuine
    <2> QED BY <2>1, <2>2, <2>3 DEF GenInv
<1>3. ASSUME NEW h \in Handlers, CheckDuplicate(h) PROVE GenInv'
    <2>1. FilesGenuine' /\ StoresGenuine' /\ BufsGenuine'
        BY <1>3, <1>b DEF CheckDuplicate, FilesGenuine, StoresGenuine, BufsGenuine, Stored, Genuine
    <2>2. \A r \in Registered(kind[h], rec[h].addr) : Genuine(kind[h], r)
        BY <1>a, <1>b DEF Registered, StoresGenuine, HandlersOK
    <2>3. RecsGenuine'
        BY <1>3, <1>a, <1>b, <2>2, ZenonT(40) DEF CheckDuplicate, HandlersOK, RecsGenuine, Genuine
    <2>4. IdleClean'
        BY <1>3, <1>a, <1>b DEF CheckDuplicate, Goto, HandlersOK, IdleClean
    <2> QED BY <2>1, <2>3, <2>4 DEF GenInv
<1>4. ASSUME NEW h \in Handlers, RejectBody(h) \/ EndpointRefused(h) \/ ReadDamaged(h)
             \/ SendOut(h) \/ ListAll(h) \/ DeleteSubscription(h)
      PROVE  GenInv'
    <2>1. UNCHANGED <<file, store, buf, kind, rec, born>>
        BY <1>4 DEF RejectBody, EndpointRefused, ReadDamaged, SendOut, ListAll, DeleteSubscription
    <2>2. pc' = [pc EXCEPT ![h] = "done"]
        BY <1>4 DEF RejectBody, EndpointRefused, ReadDamaged, SendOut, ListAll,
                    DeleteSubscription, Reply, Goto
    <2>3. \A g \in Handlers : pc'[g] = "idle" => pc[g] = "idle"
        BY <2>2, <1>a DEF HandlersOK
    <2> QED BY <2>1, <2>3, GenUntouched
<1>5. ASSUME NEW h \in Handlers, EndpointAccepted(h) PROVE GenInv'
    <2> PICK i \in FreshIds :
            /\ rec' = [rec EXCEPT ![h].id = i]
            /\ born' = [born EXCEPT ![i] = [kind |-> kind[h], addr |-> rec[h].addr]]
        BY <1>5 DEF EndpointAccepted
    <2>1. \A k \in Kinds, r \in Record : Genuine(k, r) => Genuine(k, r)'
        <3> SUFFICES ASSUME NEW k \in Kinds, NEW r \in Record, Genuine(k, r)
                     PROVE  born'[r.id] = [kind |-> k, addr |-> r.addr]
            BY DEF Genuine
        <3>1. born[r.id] # None /\ r.id \in Ids
            BY NoneIsNoRecord DEF Genuine, Record, Origin
        <3> QED BY <1>a, <3>1 DEF Genuine, FreshIds, HistoryOK
    <2>2. rec[h] \in Draft /\ rec'[h] = [id |-> i, addr |-> rec[h].addr]
        BY <1>5, <1>a DEF EndpointAccepted, LocalOK, HandlersOK, Draft
    <2>3. Genuine(kind[h], rec[h])'
        BY <1>5, <1>a, <2>2 DEF EndpointAccepted, Genuine, FreshIds, HistoryOK
    <2>4. FilesGenuine' /\ StoresGenuine' /\ BufsGenuine'
        <3>1. FilesGenuine'
            BY <1>5, <1>a, <1>b, <2>1 DEF EndpointAccepted, FilesGenuine, SharedOK
        <3>2. StoresGenuine'
            BY <1>5, <1>a, <1>b, <2>1 DEF EndpointAccepted, StoresGenuine, SharedOK, Stored
        <3>3. BufsGenuine'
            BY <1>5, <1>a, <1>b, <2>1 DEF EndpointAccepted, BufsGenuine, HandlersOK
        <3> QED BY <3>1, <3>2, <3>3
    <2>5. RecsGenuine'
        BY <1>5, <1>a, <1>b, <2>1, <2>3 DEF EndpointAccepted, HandlersOK, RecsGenuine
    <2>6. IdleClean'
        BY <1>5, <1>a, <1>b DEF EndpointAccepted, Goto, HandlersOK, IdleClean
    <2> QED BY <2>4, <2>5, <2>6 DEF GenInv
<1>6. ASSUME NEW h \in Handlers, ReadFile(h) PROVE GenInv'
    <2>1. \A n \in DOMAIN NewContent(h) : Genuine(kind[h], NewContent(h)[n])
        <3>1. kind[h] \in Kinds /\ file[kind[h]] \in Seq(Record) /\ rec[h] \in Record
            BY <1>6, <1>a DEF ReadFile, SharedOK, HandlersOK, LocalOK
        <3>2. Genuine(kind[h], rec[h]) /\ \A n \in DOMAIN file[kind[h]] : Genuine(kind[h], file[kind[h]][n])
            BY <1>b, <3>1 DEF FilesGenuine, RecsGenuine
        <3>3. CASE op[h] = "create"
            BY <3>1, <3>2, <3>3, AppendIds DEF NewContent
        <3>4. CASE op[h] # "create"
            BY <3>1, <3>2, <3>4, SwapDeleteElements DEF NewContent
        <3> QED BY <3>3, <3>4
    <2>2. BufsGenuine'
        BY <1>6, <1>a, <1>b, <2>1 DEF ReadFile, HandlersOK, BufsGenuine, Genuine
    <2>3. FilesGenuine' /\ StoresGenuine' /\ RecsGenuine'
        BY <1>6, <1>b DEF ReadFile, FilesGenuine, StoresGenuine, RecsGenuine, Stored, Genuine
    <2>4. IdleClean'
        BY <1>6, <1>a, <1>b DEF ReadFile, Goto, HandlersOK, IdleClean
    <2> QED BY <2>2, <2>3, <2>4 DEF GenInv
<1>7. ASSUME NEW h \in Handlers, Truncate(h) \/ WriteFile(h) PROVE GenInv'
    <2>1. \E b \in {<<>>, buf[h]} : file' = [file EXCEPT ![kind[h]] = b]
        BY <1>7 DEF Truncate, WriteFile
    <2>2. FilesGenuine'
        BY <1>7, <1>a, <1>b, <2>1 DEF Truncate, WriteFile, SharedOK, HandlersOK, FilesGenuine, BufsGenuine, Genuine
    <2>3. StoresGenuine' /\ BufsGenuine' /\ RecsGenuine'
        BY <1>7, <1>b DEF Truncate, WriteFile, StoresGenuine, BufsGenuine, RecsGenuine, Stored, Genuine
    <2>4. IdleClean'
        BY <1>7, <1>a, <1>b DEF Truncate, WriteFile, Goto, HandlersOK, IdleClean
    <2> QED BY <2>2, <2>3, <2>4 DEF GenInv
<1>8. ASSUME NEW h \in Handlers, SetInStore(h) \/ DeleteFromStore(h) \/ ClearStore(h) PROVE GenInv'
    <2>1. StoresGenuine'
        <3>1. CASE SetInStore(h)
            <4>1. rec[h] \in Record /\ Genuine(kind[h], rec[h]) /\ kind[h] \in Kinds
                BY <3>1, <1>a, <1>b DEF SetInStore, LocalOK, HandlersOK, RecsGenuine
            <4> QED BY <3>1, <4>1, <1>a, <1>b DEF SetInStore, Put, SharedOK, StoresGenuine, Stored, Genuine
        <3>2. CASE DeleteFromStore(h)
            BY <3>2, <1>a, <1>b DEF DeleteFromStore, SharedOK, HandlersOK, StoresGenuine, Stored, Genuine
        <3>3. CASE ClearStore(h)
            BY <3>3, <1>a, <1>b DEF ClearStore, EmptyStore, SharedOK, HandlersOK, StoresGenuine, Stored, Genuine
        <3> QED BY <1>8, <3>1, <3>2, <3>3
    <2>2. FilesGenuine' /\ BufsGenuine' /\ RecsGenuine'
        BY <1>8, <1>b DEF SetInStore, DeleteFromStore, ClearStore, FilesGenuine, BufsGenuine, RecsGenuine, Genuine
    <2>3. IdleClean'
        BY <1>8, <1>a, <1>b DEF SetInStore, DeleteFromStore, ClearStore, Reply, Goto, HandlersOK, IdleClean
    <2> QED BY <2>1, <2>2, <2>3 DEF GenInv
<1>9. ASSUME NEW h \in Handlers, GetByID(h) \/ DeletePublisher(h) PROVE GenInv'
    <2>1. FilesGenuine' /\ StoresGenuine' /\ BufsGenuine'
        BY <1>9, <1>b DEF GetByID, DeletePublisher, FilesGenuine, StoresGenuine, BufsGenuine, Stored, Genuine
    <2>2. \/ rec' = rec
          \/ key[h] \in Ids /\ rec' = [rec EXCEPT ![h] = store[kind[h]][key[h]]]
        BY <1>9, <1>a DEF GetByID, DeletePublisher, LocalOK
    <2>3. RecsGenuine'
        <3>1. UNCHANGED <<kind, born>>
            BY <1>9 DEF GetByID, DeletePublisher
        <3>2. key[h] \in Ids /\ store[kind[h]][key[h]] \in Record
              => Genuine(kind[h], store[kind[h]][key[h]])
            BY <1>a, <1>b, NoneIsNoRecord DEF HandlersOK, StoresGenuine, Stored
        <3>3. CASE rec' = rec
            BY <3>1, <3>3, <1>b DEF RecsGenuine, Genuine
        <3>4. CASE key[h] \in Ids /\ rec' = [rec EXCEPT ![h] = store[kind[h]][key[h]]]
            BY <3>1, <3>2, <3>4, <1>a, <1>b DEF HandlersOK, RecsGenuine, Genuine
        <3> QED BY <2>2, <3>3, <3>4
    <2>4. IdleClean'
        BY <1>9, <1>a, <1>b DEF GetByID, DeletePublisher, Reply, Goto, HandlersOK, IdleClean
    <2> QED BY <2>1, <2>3, <2>4 DEF GenInv
<1>10. CASE RouterTake
    BY <1>10, GenUntouched DEF RouterTake
<1>11. CASE Crash
    <2>1. FilesGenuine' /\ StoresGenuine'
        BY <1>11, <1>b DEF Crash, EmptyStore, FilesGenuine, StoresGenuine, Stored, Genuine
    <2>2. BufsGenuine' /\ RecsGenuine' /\ IdleClean'
        BY <1>11, NoneIsNoRecord DEF Crash, BufsGenuine, RecsGenuine, IdleClean
    <2> QED BY <2>1, <2>2 DEF GenInv
<1>12. CASE Start
    <2>1. \A k \in Kinds : \A i \in IdsIn(file[k]) : Genuine(k, file[k][Len(file[k])])
        <3> SUFFICES ASSUME NEW k \in Kinds, NEW i \in IdsIn(file[k])
                     PROVE  Genuine(k, file[k][Len(file[k])])
            OBVIOUS
        <3>1. file[k] \in Seq(Record) /\ DOMAIN file[k] # {}
            BY <1>a DEF SharedOK, IdsIn
        <3>2. Len(file[k]) \in DOMAIN file[k]
            BY <3>1
        <3> QED BY <3>2, <1>b DEF FilesGenuine
    <2>2. StoresGenuine'
        BY <1>12, <2>1 DEF Start, Load, StoresGenuine, Stored, Genuine
    <2>3. FilesGenuine' /\ BufsGenuine' /\ RecsGenuine' /\ IdleClean'
        BY <1>12, <1>b DEF Start, FilesGenuine, BufsGenuine, RecsGenuine, IdleClean, Genuine
    <2> QED BY <2>2, <2>3 DEF GenInv
<1>13. CASE UNCHANGED vars
    BY <1>13, GenUntouched DEF vars
<1> QED
    BY <1>1, <1>2, <1>3, <1>4, <1>5, <1>6, <1>7, <1>8, <1>9, <1>10, <1>11, <1>12, <1>13
       DEF Next, Serve, GenInv

\* However requests interleave and however often the process dies, no record
\* is ever in a file, a map or a pending write other than the one a create of
\* that kind generated.
THEOREM ProvenanceHolds == Spec => []Provenance
<1>1. GenInv => Provenance
    BY DEF GenInv, Provenance
<1>2. Init => TypeInv /\ GenInv
    BY TypeInit, GenInit
<1>3. TypeInv /\ GenInv /\ [Next]_vars => (TypeInv /\ GenInv)'
    BY TypeNext, GenNext
<1> QED BY <1>1, <1>2, <1>3, PTL DEF Spec

-----------------------------------------------------------------------------
(* Distinct ids.  A handler about to read the file for a create holds an id     *)
(* that is in no file, in no pending write, and held by no other such handler.  *)

New(h) == pc[h] = "read" /\ op[h] = "create"
FilesDistinct == \A k \in Kinds : Distinct(file[k])
BufsDistinct == \A h \in Handlers : Distinct(buf[h])
NotInFiles == \A h \in Handlers : New(h) => \A k \in Kinds : rec[h].id \notin IdsIn(file[k])
NotInBufs == \A g, h \in Handlers : New(h) => rec[h].id \notin IdsIn(buf[g])
HeldByOne == \A g, h \in Handlers : New(g) /\ New(h) /\ rec[g].id = rec[h].id => g = h
IdInv == FilesDistinct /\ BufsDistinct /\ NotInFiles /\ NotInBufs /\ HeldByOne

LEMMA IdInit == Init => IdInv
BY DEF Init, IdInv, FilesDistinct, BufsDistinct, NotInFiles, NotInBufs, HeldByOne, New, Distinct, Kinds

LEMMA IdUntouched ==
    ASSUME IdInv, UNCHANGED <<file, buf>>,
           \A h \in Handlers : New(h)' => New(h) /\ rec'[h] = rec[h]
    PROVE  IdInv'
BY DEF IdInv, FilesDistinct, BufsDistinct, NotInFiles, NotInBufs, HeldByOne

LEMMA EmptyIsDistinct == Distinct(<<>>) /\ IdsIn(<<>>) = {}
BY DEF Distinct, IdsIn

LEMMA IdNext == TypeInv /\ GenInv /\ IdInv /\ [Next]_vars => IdInv'
<1> SUFFICES ASSUME TypeInv, GenInv, IdInv, [Next]_vars PROVE IdInv'
    OBVIOUS
<1> USE DEF historyVars, diskVars, handlerVars
<1>a. SharedOK /\ HandlersOK /\ HistoryOK /\ \A h \in Handlers : LocalOK(h)
    BY DEF TypeInv, TypeOK
<1>b. FilesDistinct /\ BufsDistinct /\ NotInFiles /\ NotInBufs /\ HeldByOne
    BY DEF IdInv
<1>1. ASSUME NEW h \in Handlers, Accept(h) PROVE IdInv'
    <2>1. pc' = [pc EXCEPT ![h] = pc'[h]] /\ pc'[h] # "read"
        BY <1>1, <1>a, RequestsAssumption DEF Accept, Goto, FirstStep, HandlersOK, Operations
    <2>2. \A g \in Handlers : g # h => rec'[g] = rec[g] /\ op'[g] = op[g]
        BY <1>1, <1>a DEF Accept, HandlersOK
    <2>3. \A g \in Handlers : New(g)' => New(g) /\ rec'[g] = rec[g]
        BY <2>1, <2>2, <1>a DEF New, HandlersOK
    <2>4. UNCHANGED <<file, buf>>
        BY <1>1 DEF Accept
    <2> QED BY <2>3, <2>4, IdUntouched
<1>2. ASSUME NEW h \in Handlers, Finish(h) PROVE IdInv'
    <2>1. \A g \in Handlers : New(g)' => New(g) /\ rec'[g] = rec[g]
        BY <1>2, <1>a DEF Finish, Goto, New, HandlersOK
    <2>2. buf' = [buf EXCEPT ![h] = <<>>] /\ file' = file
        BY <1>2 DEF Finish
    <2> QED BY <2>1, <2>2, <1>a, <1>b, EmptyIsDistinct
            DEF HandlersOK, IdInv, FilesDistinct, BufsDistinct, NotInFiles, NotInBufs, HeldByOne
<1>3. ASSUME NEW h \in Handlers, CheckDuplicate(h) PROVE IdInv'
    <2>1. /\ UNCHANGED <<file, buf, op>>
          /\ pc' = [pc EXCEPT ![h] = pc'[h]] /\ pc'[h] # "read"
          /\ \A g \in Handlers : g # h => rec'[g] = rec[g]
        BY <1>3, <1>a DEF CheckDuplicate, Goto, HandlersOK
    <2>2. \A g \in Handlers : New(g)' => New(g) /\ rec'[g] = rec[g]
        BY <2>1, <1>a DEF New, HandlersOK
    <2> QED BY <2>1, <2>2, IdUntouched
<1>4. ASSUME NEW h \in Handlers,
             \/ RejectBody(h) \/ EndpointRefused(h) \/ ReadDamaged(h) \/ SendOut(h)
             \/ ListAll(h) \/ DeleteSubscription(h)
             \/ SetInStore(h) \/ DeleteFromStore(h) \/ ClearStore(h)
      PROVE  IdInv'
    <2>1. UNCHANGED <<file, buf, op, rec>>
        BY <1>4 DEF RejectBody, EndpointRefused, ReadDamaged, SendOut, ListAll, DeleteSubscription,
                    SetInStore, DeleteFromStore, ClearStore
    <2>2. \E s \in {"done", "send"} : pc' = [pc EXCEPT ![h] = s]
        BY <1>4 DEF RejectBody, EndpointRefused, ReadDamaged, SendOut, ListAll, DeleteSubscription,
                    SetInStore, DeleteFromStore, ClearStore, Reply, Goto
    <2>3. \A g \in Handlers : New(g)' => New(g) /\ rec'[g] = rec[g]
        BY <2>1, <2>2, <1>a DEF New, HandlersOK
    <2> QED BY <2>1, <2>3, IdUntouched
<1>5. ASSUME NEW h \in Handlers, EndpointAccepted(h) PROVE IdInv'
    <2> PICK i \in FreshIds : rec' = [rec EXCEPT ![h].id = i]
        BY <1>5 DEF EndpointAccepted
    <2>1. UNCHANGED <<file, buf, op>> /\ pc' = [pc EXCEPT ![h] = "read"]
        BY <1>5 DEF EndpointAccepted, Goto
    <2>2. rec'[h].id = i /\ \A g \in Handlers : g # h => rec'[g] = rec[g]
        BY <1>5, <1>a DEF EndpointAccepted, HandlersOK, LocalOK, Draft
    <2>3. \A k \in Kinds, r \in Record : Genuine(k, r) => r.id # i
        BY NoneIsNoRecord DEF Genuine, FreshIds, Record, Origin
    <2>4. \A k \in Kinds : i \notin IdsIn(file[k])
        BY <1>a, <2>3 DEF GenInv, FilesGenuine, SharedOK, IdsIn
    <2>5. \A g \in Handlers : i \notin IdsIn(buf[g])
        BY <1>a, <2>3 DEF GenInv, BufsGenuine, HandlersOK, IdsIn
    <2>6. \A g \in Handlers : New(g) => rec[g].id # i
        BY <1>a, <2>3 DEF GenInv, RecsGenuine, HandlersOK, LocalOK, New
    <2>7. \A g \in Handlers : g # h /\ New(g)' => New(g)
        BY <2>1, <1>a DEF New, HandlersOK
    <2>8. FilesDistinct' /\ BufsDistinct'
        BY <1>b, <2>1 DEF FilesDistinct, BufsDistinct
    <2>9. NotInFiles'
        BY <1>b, <2>1, <2>2, <2>4, <2>7 DEF NotInFiles
    <2>10. NotInBufs'
        BY <1>b, <2>1, <2>2, <2>5, <2>7 DEF NotInBufs
    <2>11. HeldByOne'
        BY <1>b, <2>2, <2>6, <2>7 DEF HeldByOne
    <2> QED BY <2>8, <2>9, <2>10, <2>11 DEF IdInv
<1>6. ASSUME NEW h \in Handlers, ReadFile(h) PROVE IdInv'
    <2>1. /\ UNCHANGED <<file, op, rec>>
          /\ pc' = [pc EXCEPT ![h] = "truncate"]
          /\ buf' = [buf EXCEPT ![h] = NewContent(h)]
        BY <1>6 DEF ReadFile, Goto
    <2>2. kind[h] \in Kinds /\ file[kind[h]] \in Seq(Record) /\ rec[h] \in Record
        BY <1>6, <1>a DEF ReadFile, SharedOK, HandlersOK, LocalOK
    <2>3. \A g \in Handlers : New(g)' => New(g) /\ g # h
        BY <2>1, <1>a DEF New, HandlersOK
    <2>4. /\ Distinct(NewContent(h))
          /\ \A j \in IdsIn(NewContent(h)) :
                j \in IdsIn(file[kind[h]]) \/ (New(h) /\ j = rec[h].id)
        <3>1. CASE op[h] = "create"
            <4>1. New(h)
                BY <1>6, <3>1 DEF ReadFile, New
            <4>2. Distinct(file[kind[h]]) /\ rec[h].id \notin IdsIn(file[kind[h]])
                BY <1>b, <2>2, <4>1 DEF FilesDistinct, NotInFiles
            <4>3. NewContent(h) = Append(file[kind[h]], rec[h])
                BY <3>1 DEF NewContent
            <4>4. /\ Distinct(Append(file[kind[h]], rec[h]))
                  /\ IdsIn(Append(file[kind[h]], rec[h])) = IdsIn(file[kind[h]]) \cup {rec[h].id}
                BY <2>2, <4>2, AppendIds
            <4> QED BY <4>1, <4>3, <4>4, Zenon
        <3>2. CASE op[h] # "create"
            <4>1. Distinct(file[kind[h]])
                BY <1>b, <2>2 DEF FilesDistinct
            <4>2. NewContent(h) = SwapDelete(file[kind[h]], rec[h].id)
                BY <3>2 DEF NewContent
            <4>3. /\ Distinct(SwapDelete(file[kind[h]], rec[h].id))
                  /\ IdsIn(SwapDelete(file[kind[h]], rec[h].id)) = IdsIn(file[kind[h]]) \ {rec[h].id}
                BY <2>2, <4>1, SwapDeleteIds
            <4> QED BY <4>2, <4>3, Zenon
        <3> QED BY <3>1, <3>2
    <2>5. BufsDistinct'
        BY <1>a, <1>b, <2>1, <2>4 DEF BufsDistinct, HandlersOK
    <2>6. NotInBufs'
        <3> SUFFICES ASSUME NEW f \in Handlers, NEW g \in Handlers, New(g)'
                     PROVE  rec'[g].id \notin IdsIn(buf'[f])
            BY DEF NotInBufs
        <3>1. New(g) /\ g # h /\ rec'[g] = rec[g]
            BY <2>1, <2>3
        <3>2. rec[g].id \notin IdsIn(NewContent(h))
            BY <1>b, <2>2, <2>4, <3>1 DEF NotInFiles, HeldByOne
        <3> QED BY <1>a, <1>b, <2>1, <3>1, <3>2 DEF NotInBufs, HandlersOK
    <2>7. FilesDistinct' /\ NotInFiles' /\ HeldByOne'
        BY <1>b, <2>1, <2>3 DEF FilesDistinct, NotInFiles, HeldByOne
    <2> QED BY <2>5, <2>6, <2>7 DEF IdInv
<1>7. ASSUME NEW h \in Handlers, Truncate(h) \/ WriteFile(h) PROVE IdInv'
    <2>1. \E b \in {<<>>, buf[h]} : file' = [file EXCEPT ![kind[h]] = b]
        BY <1>7 DEF Truncate, WriteFile
    <2>2. UNCHANGED <<buf, op, rec>>
        BY <1>7 DEF Truncate, WriteFile
    <2>3. \E s \in {"write", "update"} : pc' = [pc EXCEPT ![h] = s]
        BY <1>7 DEF Truncate, WriteFile, Goto
    <2>4. \A g \in Handlers : New(g)' => New(g)
        BY <2>2, <2>3, <1>a DEF New, HandlersOK
    <2>5. FilesDistinct'
        BY <1>a, <1>b, <2>1, EmptyIsDistinct DEF FilesDistinct, BufsDistinct, SharedOK, HandlersOK
    <2>6. NotInFiles'
        BY <1>a, <1>b, <2>1, <2>2, <2>4, EmptyIsDistinct DEF NotInFiles, NotInBufs, SharedOK, HandlersOK
    <2>7. BufsDistinct' /\ NotInBufs' /\ HeldByOne'
        BY <1>b, <2>2, <2>4 DEF BufsDistinct, NotInBufs, HeldByOne
    <2> QED BY <2>5, <2>6, <2>7 DEF IdInv
<1>8. ASSUME NEW h \in Handlers, GetByID(h) \/ DeletePublisher(h) PROVE IdInv'
    <2>1. /\ UNCHANGED <<file, buf, op>>
          /\ \E s \in {"done", "read"} : pc' = [pc EXCEPT ![h] = s]
          /\ op[h] # "create"
        BY <1>8 DEF GetByID, DeletePublisher, Reply, Goto
    <2>2. \A g \in Handlers : g # h => rec'[g] = rec[g]
        BY <1>8, <1>a DEF GetByID, DeletePublisher, HandlersOK
    <2>3. \A g \in Handlers : New(g)' => New(g) /\ rec'[g] = rec[g]
        BY <2>1, <2>2, <1>a DEF New, HandlersOK
    <2> QED BY <2>1, <2>3, IdUntouched
<1>9. CASE RouterTake \/ Start
    <2>1. UNCHANGED <<file, buf, pc, op, rec>>
        BY <1>9 DEF RouterTake, Start
    <2> QED BY <2>1, IdUntouched DEF New
<1>10. CASE Crash
    <2>1. \A h \in Handlers : ~New(h)' /\ buf'[h] = <<>>
        BY <1>10 DEF Crash, New
    <2>2. file' = file
        BY <1>10 DEF Crash
    <2> QED BY <1>b, <2>1, <2>2, EmptyIsDistinct
            DEF IdInv, FilesDistinct, BufsDistinct, NotInFiles, NotInBufs, HeldByOne
<1>11. CASE UNCHANGED vars
    BY <1>11, IdUntouched DEF vars, New
<1> QED
    BY <1>1, <1>2, <1>3, <1>4, <1>5, <1>6, <1>7, <1>8, <1>9, <1>10, <1>11 DEF Next, Serve

\* However stale the content a handler writes back, no id is ever twice in a
\* file: the first match that deleteFromFile removes is the only one.
THEOREM IdsStayDistinct == Spec => []DistinctIds
<1>1. IdInv => DistinctIds
    BY DEF IdInv, FilesDistinct, BufsDistinct, DistinctIds
<1>2. Init => TypeInv /\ GenInv /\ IdInv
    BY TypeInit, GenInit, IdInit
<1>3. TypeInv /\ GenInv /\ IdInv /\ [Next]_vars => (TypeInv /\ GenInv /\ IdInv)'
    BY TypeNext, GenNext, IdNext
<1> QED BY <1>1, <1>2, <1>3, PTL DEF Spec

-----------------------------------------------------------------------------
(* Requests served one at a time: a single handler, me.  Between requests the   *)
(* file and the map hold the same ids, and what differs in the middle of one    *)
(* is exactly what the step still to come will make up for.                     *)

\* Nobody else writes between the Truncate and the WriteFile of me.
LoadableInv(me) == damaged = {} /\ (pc[me] = "write" => file[kind[me]] = <<>>)

LEMMA LoadableNext ==
    ASSUME NEW me, Handlers = {me}, TypeInv, LoadableInv(me), [Next]_vars
    PROVE  LoadableInv(me)'
<1> USE DEF historyVars, diskVars, handlerVars
<1>a. SharedOK /\ HandlersOK /\ LocalOK(me) /\ damaged = {}
    BY DEF TypeInv, TypeOK, LoadableInv
<1>1. CASE Accept(me)
    BY <1>1, <1>a, RequestsAssumption DEF Accept, Goto, FirstStep, HandlersOK, Operations, LoadableInv
<1>2. CASE Truncate(me)
    BY <1>2, <1>a DEF Truncate, SharedOK, HandlersOK, LoadableInv
<1>3. CASE WriteFile(me)
    BY <1>3, <1>a DEF WriteFile, Goto, SharedOK, HandlersOK, LoadableInv
<1>4. CASE Serve(me) /\ ~Truncate(me) /\ ~WriteFile(me)
    <2>1. UNCHANGED <<file, damaged>> /\ \E s \in Steps \ {"write"} : pc' = [pc EXCEPT ![me] = s]
        BY <1>4, <1>a DEF Serve, RejectBody, CheckDuplicate, EndpointRefused, EndpointAccepted,
             ReadDamaged, ReadFile, SetInStore, DeleteFromStore, ClearStore, GetByID, ListAll,
             DeletePublisher, DeleteSubscription, Finish, Reply, Goto, Steps
    <2>2. pc'[me] # "write"
        BY <2>1, <1>a DEF HandlersOK
    <2> QED BY <2>1, <2>2, <1>a DEF LoadableInv
<1>5. CASE SendOut(me)
    BY <1>5, <1>a DEF SendOut, Reply, Goto, HandlersOK, LoadableInv
<1>6. CASE RouterTake \/ Start \/ UNCHANGED vars
    BY <1>6 DEF RouterTake, Start, vars, LoadableInv
<1>7. CASE Crash
    BY <1>7, <1>a DEF Crash, LoadableInv
<1> QED
    BY <1>1, <1>2, <1>3, <1>4, <1>5, <1>6, <1>7 DEF Next

\* Where requests are served one at a time the server can always be restarted:
\* whenever it dies, even between truncating a file and writing it, Start can
\* read what is left.
THEOREM SequentialLoadable ==
    ASSUME NEW me, Handlers = {me}
    PROVE  Spec => []AlwaysLoadable
<1>1. Init => TypeInv /\ LoadableInv(me)
    BY TypeInit DEF Init, LoadableInv
<1>2. TypeInv /\ LoadableInv(me) /\ [Next]_vars => (TypeInv /\ LoadableInv(me))'
    BY TypeNext, LoadableNext
<1>3. LoadableInv(me) => AlwaysLoadable
    BY DEF LoadableInv, AlwaysLoadable
<1> QED BY <1>1, <1>2, <1>3, PTL DEF Spec

\* The ids the file should list once the request of me is through.
Expected(me) ==
    CASE op[me] = "create" -> Stored(kind[me]) \cup {rec[me].id}
      [] op[me] = "delete" -> Stored(kind[me]) \ {key[me]}
      [] OTHER -> {}

Writing(me) == pc[me] \in {"truncate", "write", "update"}

AgreePhase(me) ==
    /\ \A k \in Kinds :
         OwnRecords(k) /\ (k # kind[me] \/ pc[me] \notin {"write", "update"})
         => IdsIn(file[k]) = Stored(k)
    /\ OwnRecords(kind[me]) /\ pc[me] \in {"truncate", "write"} /\ op[me] # "deleteAll"
       => IdsIn(buf[me]) = Expected(me)
    /\ OwnRecords(kind[me]) /\ pc[me] = "update" => IdsIn(file[kind[me]]) = Expected(me)

\* A publisher is deleted under the id that its record carries: true of a map
\* that was never loaded from a file.
OwnKeys == crashes = 0 => \A k \in Kinds : \A i \in Stored(k) : store[k][i].id = i
DeleteByOwnKey(me) ==
    /\ op[me] = "delete" /\ kind[me] = "PRODUCER" => <<"delete", "PRODUCER">> \in Requests
    /\ op[me] = "delete" /\ (pc[me] = "read" \/ Writing(me))
       => kind[me] = "PRODUCER" /\ (crashes = 0 => rec[me].id = key[me])

AgreeInv(me) ==
    /\ OwnKeys
    /\ DeleteByOwnKey(me)
    /\ up => AgreePhase(me)
    /\ ~up => crashes # 0 /\ pc[me] = "idle"

LEMMA AgreeNext ==
    ASSUME NEW me, Handlers = {me},
           TypeInv, IdInv, LoadableInv(me), AgreeInv(me), [Next]_vars
    PROVE  AgreeInv(me)'
<1> USE DEF historyVars, diskVars, handlerVars
<1>a. SharedOK /\ HandlersOK /\ LocalOK(me) /\ kind[me] \in Kinds
    BY DEF TypeInv, TypeOK, HandlersOK
<1>b. /\ OwnKeys /\ DeleteByOwnKey(me)
      /\ up => AgreePhase(me)
      /\ ~up => crashes # 0 /\ pc[me] = "idle"
    BY DEF AgreeInv
<1>1. CASE Accept(me)
    <2>1. UNCHANGED <<up, file, store, buf, crashes>> /\ up /\ pc[me] = "idle"
        BY <1>1 DEF Accept
    <2>2. pc'[me] \in {"check", "list", "truncate", "lookup"} /\ (pc'[me] = "truncate" => op'[me] = "deleteAll")
        BY <1>1, <1>a, RequestsAssumption DEF Accept, Goto, FirstStep, HandlersOK, Operations
    <2>3. op'[me] = "delete" /\ kind'[me] = "PRODUCER" => <<"delete", "PRODUCER">> \in Requests
        <3>1. PICK r \in Requests : op' = [op EXCEPT ![me] = r[1]] /\ kind' = [kind EXCEPT ![me] = r[2]]
            BY <1>1 DEF Accept
        <3>2. op'[me] = r[1] /\ kind'[me] = r[2] /\ r = <<r[1], r[2]>>
            BY <3>1, <1>a, RequestsAssumption DEF HandlersOK
        <3> QED BY <3>2
    <2>4. OwnKeys' /\ DeleteByOwnKey(me)'
        BY <1>b, <2>1, <2>2, <2>3 DEF OwnKeys, DeleteByOwnKey, Stored, Writing
    <2>5. AgreePhase(me)'
        BY <1>b, <2>1, <2>2 DEF AgreePhase, OwnRecords, Stored
    <2> QED BY <2>1, <2>4, <2>5 DEF AgreeInv
<1>2. CASE \/ Finish(me) \/ CheckDuplicate(me) \/ RejectBody(me) \/ EndpointRefused(me)
           \/ EndpointAccepted(me) \/ ReadDamaged(me) \/ SendOut(me) \/ GetByID(me)
           \/ ListAll(me) \/ DeleteSubscription(me)
    <2>1. UNCHANGED <<up, file, store, crashes>> /\ pc[me] \notin {"idle", "write", "update"}
        BY <1>2 DEF Finish, CheckDuplicate, RejectBody, EndpointRefused, EndpointAccepted,
             ReadDamaged, SendOut, GetByID, ListAll, DeleteSubscription
    <2>2. \E s \in {"idle", "send", "validate", "done", "read"} :
            pc' = [pc EXCEPT ![me] = s] /\ (s = "read" => op[me] = "create")
        BY <1>2, <1>a DEF Finish, CheckDuplicate, RejectBody, EndpointRefused, EndpointAccepted,
             ReadDamaged, SendOut, GetByID, ListAll, DeleteSubscription, Reply, Goto, LocalOK
    <2>3. pc'[me] \in {"idle", "send", "validate", "done", "read"} /\ (pc'[me] = "read" => op[me] = "create")
        BY <2>2, <1>a DEF HandlersOK
    <2>4. (op'[me] = op[me] /\ kind'[me] = kind[me]) \/ op'[me] = "list"
        BY <1>2, <1>a DEF Finish, CheckDuplicate, RejectBody, EndpointRefused, EndpointAccepted,
             ReadDamaged, SendOut, GetByID, ListAll, DeleteSubscription, HandlersOK
    <2>5. OwnKeys' /\ DeleteByOwnKey(me)'
        BY <1>b, <2>1, <2>3, <2>4 DEF OwnKeys, DeleteByOwnKey, Stored, Writing
    <2>6. up => AgreePhase(me)'
        BY <1>b, <2>1, <2>3 DEF AgreePhase, OwnRecords, Stored
    <2> QED BY <1>b, <2>1, <2>5, <2>6 DEF AgreeInv
<1>3. CASE DeletePublisher(me)
    <2>1. /\ UNCHANGED <<up, file, store, kind, op, key, crashes>> /\ pc[me] = "lookup"
          /\ op[me] = "delete" /\ kind[me] = "PRODUCER"
        BY <1>3 DEF DeletePublisher
    <2>2. pc'[me] = "done" \/ (pc'[me] = "read" /\ (crashes = 0 => rec'[me].id = key[me]))
        <3>1. CASE key[me] \in Stored("PRODUCER")
            <4>1. rec'[me] = store["PRODUCER"][key[me]] /\ pc'[me] = "read"
                BY <1>3, <3>1, <1>a DEF DeletePublisher, Goto, HandlersOK
            <4>2. crashes = 0 => store["PRODUCER"][key[me]].id = key[me]
                BY <1>b, <2>1, <3>1 DEF OwnKeys, DeleteByOwnKey, Kinds
            <4> QED BY <4>1, <4>2
        <3>2. CASE key[me] \notin Stored("PRODUCER")
            BY <1>3, <3>2, <1>a DEF DeletePublisher, Reply, Goto, HandlersOK
        <3> QED BY <3>1, <3>2
    <2>3. OwnKeys' /\ DeleteByOwnKey(me)'
        BY <1>b, <2>1, <2>2 DEF OwnKeys, DeleteByOwnKey, Stored, Writing
    <2>4. up => AgreePhase(me)'
        BY <1>b, <2>1, <2>2 DEF AgreePhase, OwnRecords, Stored
    <2> QED BY <1>b, <2>1, <2>3, <2>4 DEF AgreeInv
<1>4. CASE ReadFile(me)
    <2>1. /\ UNCHANGED <<up, file, store, kind, op, key, rec, crashes>> /\ pc[me] = "read"
          /\ pc'[me] = "truncate" /\ buf'[me] = NewContent(me)
        BY <1>4, <1>a DEF ReadFile, Goto, HandlersOK
    <2>2. file[kind[me]] \in Seq(Record) /\ rec[me] \in Record /\ Distinct(file[kind[me]])
        BY <1>a, <2>1 DEF SharedOK, LocalOK, IdInv, FilesDistinct
    <2>3. op[me] \in {"create", "delete"} /\ up
        BY <1>a, <1>b, <2>1 DEF LocalOK
    <2>4. OwnRecords(kind[me]) => IdsIn(file[kind[me]]) = Stored(kind[me])
        BY <1>a, <1>b, <2>1, <2>3 DEF AgreePhase
    <2>5. OwnRecords(kind[me]) => IdsIn(NewContent(me)) = Expected(me)
        <3> HAVE OwnRecords(kind[me])
        <3>1. CASE op[me] = "create"
            <4>1. IdsIn(Append(file[kind[me]], rec[me])) = Stored(kind[me]) \cup {rec[me].id}
                BY <2>2, <2>4, AppendIds
            <4> QED BY <3>1, <4>1 DEF NewContent, Expected
        <3>2. CASE op[me] = "delete"
            <4>1. rec[me].id = key[me]
                BY <1>b, <2>1, <3>2 DEF DeleteByOwnKey, OwnRecords
            <4>2. IdsIn(SwapDelete(file[kind[me]], rec[me].id)) = Stored(kind[me]) \ {key[me]}
                BY <2>2, <2>4, <4>1, SwapDeleteIds
            <4> QED BY <3>2, <4>2 DEF NewContent, Expected
        <3> QED BY <2>3, <3>1, <3>2
    <2>6. OwnKeys' /\ DeleteByOwnKey(me)'
        BY <1>b, <2>1 DEF OwnKeys, DeleteByOwnKey, Stored, Writing
    <2>7. AgreePhase(me)'
        BY <1>b, <2>1, <2>3, <2>5 DEF AgreePhase, OwnRecords, Expected, Stored
    <2> QED BY <2>1, <2>3, <2>6, <2>7 DEF AgreeInv
<1>5. CASE Truncate(me)
    <2>1. /\ UNCHANGED <<up, store, kind, op, key, rec, buf, crashes>> /\ pc[me] = "truncate"
          /\ pc'[me] = IF op[me] = "deleteAll" THEN "update" ELSE "write"
          /\ \A k \in Kinds : file'[k] = IF k = kind[me] THEN <<>> ELSE file[k]
        BY <1>5, <1>a DEF Truncate, Goto, SharedOK, HandlersOK
    <2>2. up /\ AgreePhase(me)
        BY <1>b, <2>1
    <2>3. OwnKeys' /\ DeleteByOwnKey(me)'
        BY <1>b, <2>1 DEF OwnKeys, DeleteByOwnKey, Stored, Writing
    <2>4. AgreePhase(me)'
        BY <1>a, <2>1, <2>2, EmptyIsDistinct DEF AgreePhase, OwnRecords, Expected, Stored
    <2> QED BY <2>1, <2>2, <2>3, <2>4 DEF AgreeInv
<1>6. CASE WriteFile(me)
    <2>1. /\ UNCHANGED <<up, store, kind, op, key, rec, buf, crashes>> /\ pc[me] = "write" /\ pc'[me] = "update"
          /\ \A k \in Kinds : file'[k] = IF k = kind[me] THEN buf[me] ELSE file[k]
        BY <1>6, <1>a DEF WriteFile, Goto, SharedOK, HandlersOK, LoadableInv
    <2>2. up /\ AgreePhase(me) /\ op[me] # "deleteAll"
        BY <1>a, <1>b, <2>1 DEF LocalOK
    <2>3. OwnKeys' /\ DeleteByOwnKey(me)'
        BY <1>b, <2>1 DEF OwnKeys, DeleteByOwnKey, Stored, Writing
    <2>4. AgreePhase(me)'
        BY <1>a, <2>1, <2>2 DEF AgreePhase, OwnRecords, Expected, Stored
    <2> QED BY <2>1, <2>2, <2>3, <2>4 DEF AgreeInv
<1>7. CASE SetInStore(me) \/ DeleteFromStore(me) \/ ClearStore(me)
    <2>1. /\ UNCHANGED <<up, file, kind, op, key, rec, crashes>> /\ pc[me] = "update"
          /\ pc'[me] \in {"send", "done"}
          /\ \A k \in Kinds : k # kind[me] => store'[k] = store[k]
        BY <1>7, <1>a DEF SetInStore, Put, DeleteFromStore, ClearStore, Reply, Goto, SharedOK, HandlersOK
    <2>2. up /\ AgreePhase(me)
        BY <1>b, <2>1
    <2>3. /\ Stored(kind[me])' = Expected(me)
          /\ crashes = 0 => \A i \in Stored(kind[me])' : store'[kind[me]][i].id = i
        <3>1. CASE SetInStore(me)
            <4>1. /\ op[me] = "create" /\ rec[me] \in Record /\ rec[me] # None /\ rec[me].id \in Ids
                  /\ store'[kind[me]] = [store[kind[me]] EXCEPT ![rec[me].id] = rec[me]]
                BY <3>1, <1>a, NoneIsNoRecord DEF SetInStore, Put, LocalOK, SharedOK, Record
            <4> QED BY <4>1, <1>a, <1>b, <2>1 DEF Stored, Expected, SharedOK, OwnKeys
        <3>2. CASE DeleteFromStore(me)
            <4>1. op[me] = "delete" /\ store'[kind[me]] = [store[kind[me]] EXCEPT ![key[me]] = None]
                BY <3>2, <1>a DEF DeleteFromStore, SharedOK
            <4> QED BY <4>1, <1>a, <1>b, <2>1 DEF Stored, Expected, SharedOK, OwnKeys
        <3>3. CASE ClearStore(me)
            <4>1. op[me] = "deleteAll" /\ store'[kind[me]] = EmptyStore
                BY <3>3, <1>a DEF ClearStore, SharedOK
            <4> QED BY <4>1, <1>a, <2>1 DEF Stored, Expected, EmptyStore
        <3> QED BY <1>7, <3>1, <3>2, <3>3
    <2>4. OwnKeys' /\ DeleteByOwnKey(me)'
        BY <1>b, <2>1, <2>3 DEF OwnKeys, DeleteByOwnKey, Stored, Writing
    <2>5. AgreePhase(me)'
        BY <2>1, <2>2, <2>3 DEF AgreePhase, OwnRecords, Stored
    <2> QED BY <2>1, <2>2, <2>4, <2>5 DEF AgreeInv
<1>8. CASE RouterTake \/ UNCHANGED vars
    <2>1. UNCHANGED <<up, file, store, pc, op, kind, key, rec, buf, crashes>>
        BY <1>8 DEF RouterTake, vars
    <2> QED BY <1>b, <2>1 DEF AgreeInv, OwnKeys, DeleteByOwnKey, AgreePhase, OwnRecords, Writing, Stored, Expected
<1>9. CASE Crash
    <2>1. crashes' # 0 /\ up' = FALSE /\ pc'[me] = "idle" /\ op'[me] = "list"
        BY <1>9, <1>a, CrashAssumption DEF Crash, SharedOK, HandlersOK
    <2> QED BY <2>1 DEF AgreeInv, OwnKeys, DeleteByOwnKey, Writing
<1>10. CASE Start
    <2>1. ~up /\ up' /\ UNCHANGED <<file, pc, op, kind, key, rec, buf, crashes>> /\ store' = [k \in Kinds |-> Load(k)]
        BY <1>10 DEF Start
    <2>2. crashes # 0 /\ pc[me] = "idle"
        BY <1>b, <2>1
    <2>3. \A k \in Kinds : IdsIn(file[k]) = Stored(k)'
        <3> SUFFICES ASSUME NEW k \in Kinds PROVE IdsIn(file[k]) = Stored(k)'
            OBVIOUS
        <3>1. file[k] \in Seq(Record)
            BY <1>a DEF SharedOK
        <3>2. IdsIn(file[k]) \subseteq Ids
            <4>1. \A n \in DOMAIN file[k] : file[k][n] \in Record
                BY <3>1
            <4>2. \A r \in Record : r.id \in Ids
                BY DEF Record
            <4> QED BY <4>1, <4>2 DEF IdsIn
        <3>3. IdsIn(file[k]) # {} => Len(file[k]) \in DOMAIN file[k] /\ file[k][Len(file[k])] \in Record
            BY <3>1 DEF IdsIn
        <3> QED BY <2>1, <3>2, <3>3, NoneIsNoRecord DEF Stored, Load
    <2> QED BY <1>b, <2>1, <2>2, <2>3 DEF AgreeInv, OwnKeys, DeleteByOwnKey, AgreePhase, OwnRecords, Writing
<1> QED
    BY <1>1, <1>2, <1>3, <1>4, <1>5, <1>6, <1>7, <1>8, <1>9, <1>10 DEF Next, Serve

\* Where requests are served one at a time the file and the map hold the same
\* ids whenever no request is being served, after every restart as well: the
\* subscriptions always, the publishers as long as the process has not died or
\* none of them is ever deleted.
THEOREM SequentialAgreement ==
    ASSUME NEW me, Handlers = {me}
    PROVE  Spec => []FileAndStoreAgree
<1> DEFINE Inv == TypeInv /\ GenInv /\ IdInv /\ LoadableInv(me) /\ AgreeInv(me)
<1>1. Init => Inv
    <2>1. Init => LoadableInv(me) /\ AgreeInv(me)
        BY EmptyIsDistinct
           DEF Init, LoadableInv, AgreeInv, OwnKeys, DeleteByOwnKey, AgreePhase, OwnRecords, Writing, Stored, EmptyStore
    <2> QED BY <2>1, TypeInit, GenInit, IdInit
<1>2. Inv /\ [Next]_vars => Inv'
    BY TypeNext, GenNext, IdNext, LoadableNext, AgreeNext
<1>3. Inv => FileAndStoreAgree
    BY DEF FileAndStoreAgree, Quiet, LoadableInv, AgreeInv, AgreePhase
<1> QED BY <1>1, <1>2, <1>3, PTL DEF Spec
=============================================================================
