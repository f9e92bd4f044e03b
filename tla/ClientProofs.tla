---------------------------- MODULE ClientProofs ----------------------------
(***************************************************************************)
(* Proofs about the latency tests, the settings, the release check, status *)
(* --watch, the routing source, deep links and the log files: parts that   *)
(* are small beside the core and share no state, so their theorems share a *)
(* module.                                                                 *)
(***************************************************************************)
EXTENDS LatencyTest, Settings, UpdateCheck, StatusWatch, RoutingSource, DeepLink, Logs, SequencesExt,
  FiniteSetsExt, FiniteSetTheorems, WellFoundedInduction, TLAPS

-----------------------------------------------------------------------------
(* Sequences as queues: what Append, \o and Tail do to the set of elements *)

LEMMA SetOfAppend ==
  ASSUME NEW S, NEW s \in Seq(S), NEW x \in S
  PROVE  Append(s, x) \in Seq(S) /\ ToSet(Append(s, x)) = ToSet(s) \cup {x}
<1>1. Append(s, x) \in Seq(S) /\ Len(Append(s, x)) = Len(s) + 1 /\ DOMAIN Append(s, x) = 1 .. Len(s) + 1
  OBVIOUS
<1>2. \A i \in 1 .. Len(s) : Append(s, x)[i] = s[i]
  OBVIOUS
<1>3. Append(s, x)[Len(s) + 1] = x
  OBVIOUS
<1>4. DOMAIN s = 1 .. Len(s) /\ Len(s) \in Nat
  OBVIOUS
<1> QED
  BY <1>1, <1>2, <1>3, <1>4 DEF ToSet

LEMMA SetOfConcat ==
  ASSUME NEW S, NEW s \in Seq(S), NEW t \in Seq(S)
  PROVE  s \o t \in Seq(S) /\ ToSet(s \o t) = ToSet(s) \cup ToSet(t)
<1>1. s \o t \in Seq(S) /\ DOMAIN (s \o t) = 1 .. Len(s) + Len(t)
  OBVIOUS
<1>2. \A i \in 1 .. Len(s) : (s \o t)[i] = s[i]
  OBVIOUS
<1>3. \A i \in 1 .. Len(t) : (s \o t)[Len(s) + i] = t[i]
  OBVIOUS
<1>4. DOMAIN s = 1 .. Len(s) /\ Len(s) \in Nat /\ DOMAIN t = 1 .. Len(t) /\ Len(t) \in Nat
  OBVIOUS
<1>5. \A i \in 1 .. Len(s) + Len(t) : i \in 1 .. Len(s) \/ \E j \in 1 .. Len(t) : i = Len(s) + j
  <2> TAKE i \in 1 .. Len(s) + Len(t)
  <2>1. CASE i <= Len(s)
    BY <2>1, <1>4
  <2>2. CASE i > Len(s)
    <3>1. i - Len(s) \in 1 .. Len(t) /\ i = Len(s) + (i - Len(s))
      BY <2>2, <1>4
    <3> QED
      BY <3>1
  <2> QED
    BY <2>1, <2>2, <1>4
<1>6. ToSet(s \o t) \subseteq ToSet(s) \cup ToSet(t)
  <2> SUFFICES ASSUME NEW i \in 1 .. Len(s) + Len(t)
               PROVE  (s \o t)[i] \in ToSet(s) \cup ToSet(t)
    BY <1>1 DEF ToSet
  <2>1. CASE i \in 1 .. Len(s)
    BY <2>1, <1>2, <1>4 DEF ToSet
  <2>2. ASSUME NEW j \in 1 .. Len(t), i = Len(s) + j
        PROVE  (s \o t)[i] \in ToSet(s) \cup ToSet(t)
    BY <2>2, <1>3, <1>4 DEF ToSet
  <2> QED
    BY <2>1, <2>2, <1>5
<1>7. ToSet(s) \subseteq ToSet(s \o t)
  BY <1>1, <1>2, <1>4 DEF ToSet
<1>8. ToSet(t) \subseteq ToSet(s \o t)
  <2>1. \A j \in 1 .. Len(t) : Len(s) + j \in 1 .. Len(s) + Len(t)
    BY <1>4
  <2> QED
    BY <2>1, <1>1, <1>3, <1>4 DEF ToSet
<1> QED
  BY <1>1, <1>6, <1>7, <1>8

LEMMA SetOfTail ==
  ASSUME NEW S, NEW s \in Seq(S), s # <<>>
  PROVE  /\ Head(s) \in S /\ Tail(s) \in Seq(S)
         /\ ToSet(s) = {Head(s)} \cup ToSet(Tail(s))
<1>1. Head(s) \in S /\ Tail(s) \in Seq(S) /\ Head(s) = s[1]
  OBVIOUS
<1>2. Len(s) \in Nat \ {0} /\ DOMAIN s = 1 .. Len(s) /\ DOMAIN Tail(s) = 1 .. Len(s) - 1
  OBVIOUS
<1>3. \A i \in 1 .. Len(s) - 1 : Tail(s)[i] = s[i + 1]
  OBVIOUS
<1>4. \A i \in 1 .. Len(s) : i = 1 \/ \E j \in 1 .. Len(s) - 1 : i = j + 1
  <2> TAKE i \in 1 .. Len(s)
  <2>1. CASE i # 1
    <3>1. i - 1 \in 1 .. Len(s) - 1 /\ i = (i - 1) + 1
      BY <2>1, <1>2
    <3> QED
      BY <3>1
  <2> QED
    BY <2>1
<1>5. ToSet(s) \subseteq {Head(s)} \cup ToSet(Tail(s))
  <2>1. \A i \in 1 .. Len(s) : s[i] = s[1] \/ \E j \in 1 .. Len(s) - 1 : s[i] = Tail(s)[j]
    BY <1>3, <1>4
  <2>2. \A x \in ToSet(s) : \E i \in 1 .. Len(s) : x = s[i]
    BY <1>2 DEF ToSet
  <2>3. \A j \in 1 .. Len(s) - 1 : Tail(s)[j] \in ToSet(Tail(s))
    BY <1>2 DEF ToSet
  <2> QED
    BY <2>1, <2>2, <2>3, <1>1
<1>6. Head(s) \in ToSet(s)
  BY <1>1, <1>2 DEF ToSet
<1>7. ToSet(Tail(s)) \subseteq ToSet(s)
  <2>1. \A j \in 1 .. Len(s) - 1 : j + 1 \in 1 .. Len(s)
    BY <1>2
  <2> QED
    BY <2>1, <1>2, <1>3 DEF ToSet
<1> QED
  BY <1>1, <1>5, <1>6, <1>7

LEMMA SetOfSeq ==
  ASSUME NEW S, NEW s \in Seq(S)
  PROVE  ToSet(s) \subseteq S /\ (s = <<>> => ToSet(s) = {}) /\ (ToSet(s) = {} => s = <<>>)
  BY DEF ToSet

-----------------------------------------------------------------------------
(* Latency tests.                                                          *)

Request == [p : All, ep : Nat]
Command == [k : {"cancel"}] \cup [k : {"profile"}, p : All] \cup [k : {"group"}, g : GroupIds]
Queuing == [pc : {"idle", "queue", "send"}, g : Nat, todo : Seq(All), total : Nat, ep : Nat,
            hold : All \cup {0}, whole : BOOLEAN]
Event == [k : {"updated"}, p : All] \cup [k : {"progress"}, g : Nat, tested : Nat, total : Nat]

TestTypeOK ==
  /\ epoch \in Nat
  /\ inFlight \subseteq All
  /\ channel \in Seq(Request)
  /\ taken \in Request \cup {NoReq}
  /\ running \subseteq [p : All, ep : Nat, pc : {"test", "sent"}]
  /\ results \in Seq(All)
  /\ progress \in [GroupIds -> [on : BOOLEAN, tested : Nat, total : Nat]]
  /\ handler \in [{"client", "refresh"} -> Queuing]
  /\ requests \in Seq(Command)
  /\ events \in Seq(Event)
  /\ marked \subseteq All
  /\ excuse \in [early : BOOLEAN, cancelled : BOOLEAN, dropped : BOOLEAN, late : BOOLEAN]

\* A goroutine that is not queuing has nothing left to queue; one that queues a whole group
\* knows which.
HandlerInv ==
  \A h \in {"client", "refresh"} :
    /\ handler[h].pc # "queue" => handler[h].todo = <<>> /\ handler[h].hold = 0
    /\ handler[h].whole => handler[h].g \in GroupIds

\* Until the user cancels, the epoch does not move under what is queued.
EpochInv ==
  excuse.cancelled \/
    /\ \A r \in ToSet(requests) : r.k # "cancel"
    /\ \A r \in ToSet(channel) : r.ep = epoch
    /\ \A h \in {"client", "refresh"} : handler[h].pc = "queue" => handler[h].ep = epoch

\* Where a profile in flight can be: with a goroutine that waits for room, in the channel,
\* with the listener, under test or just tested.
Queued(p) ==
  \/ \E h \in {"client", "refresh"} : handler[h].hold = p
  \/ \E r \in ToSet(channel) : r.p = p
  \/ taken.p = p
FlightInv == \A p \in inFlight : Queued(p) \/ \E t \in running : t.p = p

\* What is still to come for a mark: a command that names the profile or its group, a test
\* that is queued or runs, its result, or the event that clears the mark.
Asked(p) == \E r \in ToSet(requests) :
              (r.k = "profile" /\ r.p = p) \/ (r.k = "group" /\ p \in Members(r.g))
Pending(p) ==
  \/ Asked(p)
  \/ p \in ToSet(handler["client"].todo)
  \/ Queued(p)
  \/ \E t \in running : t.p = p /\ t.pc = "test"
  \/ p \in ToSet(results)
  \/ \E e \in ToSet(events) : e.k = "updated" /\ e.p = p
Excused == excuse.cancelled \/ excuse.dropped \/ excuse.late
MarkInv == Excused \/ \A p \in marked : Pending(p)

TestInv == TestTypeOK /\ HandlerInv /\ EpochInv /\ FlightInv /\ MarkInv

LEMMA Profiles0 ==
  /\ All \subseteq Nat \ {0}
  /\ \A p \in All : GroupOf(p) \in GroupIds
  /\ \A g \in GroupIds : TestGroups[g] \in Seq(All) /\ ToSet(TestGroups[g]) = Members(g)
  /\ GroupIds \subseteq Nat
<1>1. TestGroups \in Seq(Seq(Nat \ {0}))
  BY TestAssumption
<1>2. \A g \in GroupIds : TestGroups[g] \in Seq(Nat \ {0})
  BY <1>1 DEF GroupIds
<1>3. \A g \in GroupIds : ToSet(TestGroups[g]) = Members(g)
  BY DEF ToSet, Members
<1>4. \A g \in GroupIds : Members(g) \subseteq Nat \ {0}
  BY <1>2, <1>3, SetOfSeq
<1>5. \A g \in GroupIds : TestGroups[g] \in Seq(All)
  <2> TAKE g \in GroupIds
  <2>1. \A i \in DOMAIN TestGroups[g] : TestGroups[g][i] \in All
    BY DEF All, Members
  <2>2. DOMAIN TestGroups[g] = 1 .. Len(TestGroups[g]) /\ Len(TestGroups[g]) \in Nat
    BY <1>2
  <2>3. TestGroups[g] = [i \in 1 .. Len(TestGroups[g]) |-> TestGroups[g][i]]
    BY <1>2
  <2> QED
    BY <2>1, <2>2, <2>3
<1>6. \A p \in All : GroupOf(p) \in GroupIds
  BY DEF All, GroupOf
<1>7. GroupIds \subseteq Nat
  BY <1>1 DEF GroupIds
<1> QED
  BY <1>3, <1>4, <1>5, <1>6, <1>7 DEF All

LEMMA FinitelyMany == IsFiniteSet(All)
<1>1. \A g \in GroupIds : IsFiniteSet(Members(g))
  <2> TAKE g \in GroupIds
  <2> DEFINE s == TestGroups[g]
  <2>1. s \in [1 .. Len(s) -> All] /\ Len(s) \in Nat
    BY Profiles0
  <2>2. s \in Surjection(1 .. Len(s), Members(g))
    BY <2>1 DEF Surjection, Members
  <2>3. IsFiniteSet(1 .. Len(s))
    BY <2>1, FS_Interval
  <2> QED
    BY <2>2, <2>3, FS_Surjection
<1>2. IsFiniteSet({Members(g) : g \in GroupIds})
  <2> DEFINE f == [g \in GroupIds |-> Members(g)]
  <2>1. f \in Surjection(GroupIds, {Members(g) : g \in GroupIds})
    BY DEF Surjection
  <2>2. Len(TestGroups) \in Nat /\ GroupIds = 1 .. Len(TestGroups)
    BY TestAssumption DEF GroupIds
  <2>3. IsFiniteSet(GroupIds)
    BY <2>2, FS_Interval
  <2> QED
    BY <2>1, <2>3, FS_Surjection
<1> QED
  BY <1>1, <1>2, FS_UNION DEF All

LEMMA TestLists == ASSUME NEW list \in BuildTestList PROVE list \in Seq(All)
<1>1. \A f \in Seq(All) : \A s \in Others(f) : f \o s \in Seq(All)
  <2> TAKE f \in Seq(All)
  <2> TAKE s \in Others(f)
  <2> DEFINE rest == All \ ToSet(f)
  <2>1. IsFiniteSet(rest)
    BY FinitelyMany, FS_Difference
  <2>2. Cardinality(rest) \in Nat
    BY <2>1, FS_CardinalityType
  <2>3. s \in [1 .. Cardinality(rest) -> rest]
    BY DEF Others
  <2> DEFINE n == Cardinality(rest)
  <2> HIDE DEF n
  <2>4. n \in Nat /\ s \in [1 .. n -> All]
    BY <2>2, <2>3 DEF n
  <2>5. s \in Seq(All)
    BY <2>4
  <2> QED
    BY <2>5
<1>2. \A p \in All : <<p>> \in Seq(All)
  OBVIOUS
<1> DEFINE focused == {<<p>> : p \in All} \cup {TestGroups[g] : g \in GroupIds}
<1>3. focused \subseteq Seq(All)
  BY <1>2, Profiles0
<1>4. list \in focused \/ \E f \in focused : \E s \in Others(f) : list = f \o s
  BY DEF BuildTestList
<1> QED
  BY <1>1, <1>3, <1>4

\* Every profile of a batch is asked for.
LEMMA BatchCovers ==
  ASSUME NEW list \in Seq(All)
  PROVE  /\ Batch(list) \in Seq(Command)
         /\ \A r \in ToSet(Batch(list)) : r.k # "cancel"
         /\ \A p \in ToSet(list) : \E r \in ToSet(Batch(list)) :
              (r.k = "profile" /\ r.p = p) \/ (r.k = "group" /\ p \in Members(r.g))
<1> DEFINE g == GroupOf(list[1])
           single == \A i \in DOMAIN list : list[i] \in Members(g)
           whole == Len(list) > 1 /\ single /\ Len(list) = Len(TestGroups[g])
           one == [k |-> "group", g |-> g]
           each == [i \in DOMAIN list |-> [k |-> "profile", p |-> list[i]]]
<1>1. DOMAIN list = 1 .. Len(list) /\ Len(list) \in Nat /\ \A i \in DOMAIN list : list[i] \in All
  OBVIOUS
<1>2. Batch(list) = IF whole THEN <<one>> ELSE each
  BY DEF Batch
<1>3. CASE whole
  <2>1. list[1] \in All
    BY <1>1, <1>3
  <2>2. g \in GroupIds
    BY <2>1, Profiles0
  <2>3. one \in Command
    BY <2>2 DEF Command
  <2>4. ToSet(<<one>>) = {one}
    BY DEF ToSet
  <2>5. <<one>> \in Seq(Command)
    BY <2>3
  <2>6. Batch(list) = <<one>>
    BY <1>2, <1>3
  <2>7. \A p \in ToSet(list) : p \in Members(g)
    BY <1>3 DEF ToSet
  <2>8. one.k = "group" /\ one.g = g
    OBVIOUS
  <2> HIDE DEF one, g
  <2> QED
    BY <2>4, <2>5, <2>6, <2>7, <2>8
<1>4. CASE ~whole
  <2>1. Batch(list) = each
    BY <1>2, <1>4
  <2>2. \A i \in DOMAIN list : each[i] \in Command
    BY <1>1 DEF Command
  <2>3. each \in Seq(Command)
    BY <1>1, <2>2
  <2>4. \A i \in DOMAIN list : each[i].k = "profile" /\ each[i].p = list[i]
    OBVIOUS
  <2>5. DOMAIN each = DOMAIN list
    OBVIOUS
  <2> HIDE DEF each
  <2>6. \A r \in ToSet(each) : r.k # "cancel"
    BY <2>4, <2>5 DEF ToSet
  <2>7. \A p \in ToSet(list) : \E r \in ToSet(each) : r.k = "profile" /\ r.p = p
    BY <2>4, <2>5 DEF ToSet
  <2> QED
    BY <2>1, <2>3, <2>6, <2>7
<1> QED
  BY <1>3, <1>4

LEMMA InitTests == TestInit => TestInv
<1> SUFFICES ASSUME TestInit PROVE TestInv
  OBVIOUS
<1> USE DEF TestInit
<1>1. TestTypeOK
  BY DEF TestTypeOK, NoReq, NoEntry, Resting, Queuing
<1>2. ToSet(requests) = {} /\ ToSet(channel) = {}
  BY DEF ToSet
<1>3. \A h \in {"client", "refresh"} : handler[h] = Resting
  OBVIOUS
<1>4. HandlerInv /\ EpochInv /\ FlightInv
  BY <1>2, <1>3 DEF HandlerInv, EpochInv, FlightInv, Resting
<1>5. MarkInv
  BY DEF MarkInv
<1> QED
  BY <1>1, <1>4, <1>5 DEF TestInv

LEMMA BatchStep == TestInv /\ RunTestBatch => TestInv'
<1> SUFFICES ASSUME TestInv, RunTestBatch PROVE TestInv'
  OBVIOUS
<1> USE DEF TestInv
<1>1. PICK list \in BuildTestList : marked' = marked \cup ToSet(list) /\ requests' = requests \o Batch(list)
  BY DEF RunTestBatch, ToSet
<1>2. UNCHANGED <<epoch, inFlight, channel, taken, running, results, progress, handler, events, excuse>>
  BY DEF RunTestBatch, coreVars
<1>3. list \in Seq(All)
  BY TestLists
<1>4. requests' \in Seq(Command) /\ ToSet(requests') = ToSet(requests) \cup ToSet(Batch(list))
  BY <1>1, <1>3, BatchCovers, SetOfConcat DEF TestTypeOK
<1>5. TestTypeOK'
  BY <1>1, <1>2, <1>3, <1>4, SetOfSeq DEF TestTypeOK
<1>6. HandlerInv' /\ FlightInv'
  BY <1>2 DEF HandlerInv, FlightInv, Queued
<1>7. EpochInv'
  BY <1>2, <1>3, <1>4, BatchCovers DEF EpochInv
<1>8. MarkInv'
  <2>1. \A p : Pending(p) => Pending(p)'
    BY <1>2, <1>4 DEF Pending, Queued, Asked
  <2>2. \A p \in ToSet(list) : Asked(p)'
    BY <1>3, <1>4, BatchCovers DEF Asked
  <2> QED
    BY <1>1, <1>2, <2>1, <2>2 DEF MarkInv, Excused, Pending
<1> QED
  BY <1>5, <1>6, <1>7, <1>8

LEMMA CancelStep == TestInv /\ CancelTests => TestInv'
<1> SUFFICES ASSUME TestInv, CancelTests PROVE TestInv'
  OBVIOUS
<1> USE DEF TestInv
<1>1. requests' = Append(requests, [k |-> "cancel"]) /\ excuse' = [excuse EXCEPT !.cancelled = TRUE]
  BY DEF CancelTests
<1>2. UNCHANGED <<epoch, inFlight, channel, taken, running, results, progress, handler, events, marked>>
  BY DEF CancelTests, coreVars
<1>3. [k |-> "cancel"] \in Command
  BY DEF Command
<1>4. requests' \in Seq(Command)
  BY <1>1, <1>3 DEF TestTypeOK
<1>5. excuse'.cancelled
  BY <1>1 DEF TestTypeOK
<1>6. TestTypeOK'
  BY <1>1, <1>2, <1>4 DEF TestTypeOK
<1>7. HandlerInv' /\ FlightInv'
  BY <1>2 DEF HandlerInv, FlightInv, Queued
<1>8. EpochInv' /\ MarkInv'
  BY <1>5 DEF EpochInv, MarkInv, Excused
<1> QED
  BY <1>6, <1>7, <1>8

LEMMA ApplyStep == TestInv /\ ApplyEvent => TestInv'
<1> SUFFICES ASSUME TestInv, ApplyEvent PROVE TestInv'
  OBVIOUS
<1> USE DEF TestInv
<1>1. events # <<>> /\ events' = Tail(events)
  BY DEF ApplyEvent
<1>2. UNCHANGED <<epoch, inFlight, channel, taken, running, results, progress, handler, requests, excuse>>
  BY DEF ApplyEvent, coreVars
<1>3. /\ Head(events) \in Event /\ events' \in Seq(Event)
      /\ ToSet(events) = {Head(events)} \cup ToSet(events')
  BY <1>1, SetOfTail DEF TestTypeOK
<1>4. marked' = IF Head(events).k = "updated" THEN marked \ {Head(events).p} ELSE marked
  BY DEF ApplyEvent
<1>5. TestTypeOK'
  BY <1>2, <1>3, <1>4 DEF TestTypeOK
<1>6. HandlerInv' /\ FlightInv' /\ EpochInv'
  BY <1>2 DEF HandlerInv, FlightInv, Queued, EpochInv
<1>7. MarkInv'
  <2>1. ASSUME NEW p \in marked', Pending(p) PROVE Pending(p)'
    <3>1. ~(Head(events).k = "updated" /\ Head(events).p = p)
      BY <2>1, <1>4
    <3>2. \A e \in ToSet(events) : e.k = "updated" /\ e.p = p => e \in ToSet(events')
      BY <3>1, <1>3
    <3> QED
      BY <2>1, <3>2, <1>2 DEF Pending, Queued, Asked
  <2>2. marked' \subseteq marked
    BY <1>4
  <2> QED
    BY <1>2, <2>1, <2>2 DEF MarkInv, Excused
<1> QED
  BY <1>5, <1>6, <1>7

LEMMA RequestStep == TestInv /\ TakeRequest => TestInv'
<1> SUFFICES ASSUME TestInv, TakeRequest PROVE TestInv'
  OBVIOUS
<1> USE DEF TestInv
<1> DEFINE r == Head(requests)
           one == [Resting EXCEPT !.pc = "queue", !.todo = <<r.p>>, !.ep = epoch]
           all == [Resting EXCEPT !.pc = "queue", !.g = r.g, !.todo = TestGroups[r.g], !.ep = epoch, !.whole = TRUE]
<1>1. /\ handler["client"].pc = "idle" /\ requests # <<>> /\ requests' = Tail(requests)
      /\ UNCHANGED <<inFlight, channel, taken, running, results, progress, events, marked, excuse>>
  BY DEF TakeRequest
<1>2. r \in Command /\ requests' \in Seq(Command) /\ ToSet(requests) = {r} \cup ToSet(requests')
  BY <1>1, SetOfTail DEF TestTypeOK
<1>3. handler["client"].todo = <<>> /\ handler["client"].hold = 0
  BY <1>1 DEF HandlerInv
<1>4. CASE r.k = "cancel"
  <2>1. epoch' = epoch + 1 /\ handler' = handler
    BY <1>4 DEF TakeRequest
  <2>2. excuse.cancelled
    BY <1>2, <1>4 DEF EpochInv
  <2>3. TestTypeOK'
    BY <1>1, <1>2, <2>1 DEF TestTypeOK
  <2>4. HandlerInv' /\ FlightInv'
    BY <1>1, <2>1 DEF HandlerInv, FlightInv, Queued
  <2> QED
    BY <1>1, <2>2, <2>3, <2>4 DEF EpochInv, MarkInv, Excused
<1>5. ASSUME NEW m \in Queuing, handler' = [handler EXCEPT !["client"] = m], epoch' = epoch,
             m.pc = "queue", m.hold = 0, m.ep = epoch, m.whole => m.g \in GroupIds,
             r.k # "cancel",
             \A p : (r.k = "profile" /\ r.p = p) \/ (r.k = "group" /\ p \in Members(r.g)) => p \in ToSet(m.todo)
      PROVE  TestInv'
  <2>1. TestTypeOK'
    BY <1>1, <1>2, <1>5 DEF TestTypeOK
  <2>2. handler'["client"] = m /\ handler'["refresh"] = handler["refresh"]
    BY <1>5 DEF TestTypeOK
  <2>3. HandlerInv'
    BY <1>5, <2>2 DEF HandlerInv
  <2>4. EpochInv'
    BY <1>1, <1>2, <1>5, <2>2 DEF EpochInv
  <2>5. \A p \in All : Queued(p) => Queued(p)'
    BY <1>1, <1>3, <2>2, Profiles0 DEF Queued
  <2>6. FlightInv'
    BY <1>1, <2>5 DEF FlightInv, TestTypeOK
  <2>7. ASSUME NEW p \in All, Pending(p) PROVE Pending(p)'
    <3>1. p \notin ToSet(handler["client"].todo)
      BY <1>3 DEF ToSet
    <3>2. Asked(p) => Asked(p)' \/ p \in ToSet(m.todo)
      BY <1>2, <1>5 DEF Asked
    <3> QED
      BY <3>1, <3>2, <2>2, <2>5, <2>7, <1>1 DEF Pending
  <2>8. MarkInv'
    BY <1>1, <2>7 DEF MarkInv, Excused, TestTypeOK
  <2> QED
    BY <2>1, <2>3, <2>4, <2>6, <2>8
<1>6. CASE r.k = "profile"
  <2>1. handler' = [handler EXCEPT !["client"] = one] /\ epoch' = epoch
    BY <1>6 DEF TakeRequest
  <2>2. r.p \in All
    BY <1>2, <1>6 DEF Command
  <2>3. one \in Queuing /\ one.todo = <<r.p>>
    <3> DEFINE s == <<r.p>>
    <3>1. s \in Seq(All)
      BY <2>2
    <3> HIDE DEF s
    <3>2. one = [Resting EXCEPT !.pc = "queue", !.todo = s, !.ep = epoch]
      BY DEF s
    <3>3. one \in Queuing /\ one.todo = s
      BY <3>1, <3>2 DEF Resting, Queuing, TestTypeOK
    <3> QED
      BY <3>3 DEF s
  <2>4. one.pc = "queue" /\ one.hold = 0 /\ one.ep = epoch /\ ~one.whole
    BY DEF Resting
  <2>5. r.p \in ToSet(one.todo)
    BY <2>3 DEF ToSet
  <2> HIDE DEF one
  <2> QED
    BY <2>1, <2>3, <2>4, <2>5, <1>5, <1>6
<1>7. CASE r.k = "group"
  <2>1. handler' = [handler EXCEPT !["client"] = all] /\ epoch' = epoch
    BY <1>7 DEF TakeRequest
  <2>2. r.g \in GroupIds
    BY <1>2, <1>7 DEF Command
  <2>3. all \in Queuing /\ all.todo = TestGroups[r.g] /\ all.g = r.g
    BY <2>2, Profiles0 DEF Resting, Queuing, TestTypeOK
  <2>4. all.pc = "queue" /\ all.hold = 0 /\ all.ep = epoch
    BY DEF Resting
  <2>5. ToSet(all.todo) = Members(r.g)
    BY <2>2, <2>3, Profiles0
  <2> HIDE DEF all
  <2> QED
    BY <2>1, <2>2, <2>3, <2>4, <2>5, <1>5, <1>7
<1> QED
  BY <1>2, <1>4, <1>6, <1>7 DEF Command

LEMMA RefreshStep == TestInv /\ RefreshTests => TestInv'
<1> SUFFICES ASSUME TestInv, RefreshTests PROVE TestInv'
  OBVIOUS
<1> USE DEF TestInv
<1>1. /\ handler["refresh"].pc = "idle"
      /\ UNCHANGED <<epoch, inFlight, channel, taken, running, results, progress, requests, events, marked, excuse>>
  BY DEF RefreshTests
<1>2. PICK g \in GroupIds :
        handler' = [handler EXCEPT !["refresh"] = [Resting EXCEPT !.pc = "queue", !.g = g, !.todo = TestGroups[g],
                                                                  !.ep = epoch, !.whole = TRUE]]
  BY DEF RefreshTests
<1> DEFINE m == [Resting EXCEPT !.pc = "queue", !.g = g, !.todo = TestGroups[g], !.ep = epoch, !.whole = TRUE]
<1>3. m \in Queuing /\ m.pc = "queue" /\ m.hold = 0 /\ m.ep = epoch /\ m.g = g
  BY Profiles0 DEF Resting, Queuing, TestTypeOK
<1> HIDE DEF m
<1>4. handler' \in [{"client", "refresh"} -> Queuing] /\ handler'["client"] = handler["client"] /\ handler'["refresh"] = m
  BY <1>2, <1>3 DEF TestTypeOK, m
<1>5. handler["refresh"].hold = 0
  BY <1>1 DEF HandlerInv
<1>6. TestTypeOK'
  BY <1>1, <1>4 DEF TestTypeOK
<1>7. HandlerInv' /\ EpochInv'
  BY <1>1, <1>3, <1>4 DEF HandlerInv, EpochInv
<1>8. \A p \in All : Queued(p) => Queued(p)'
  BY <1>1, <1>4, <1>5, Profiles0 DEF Queued
<1>9. FlightInv'
  BY <1>1, <1>8 DEF FlightInv, TestTypeOK
<1>10. MarkInv'
  BY <1>1, <1>4, <1>8 DEF MarkInv, Excused, Pending, Asked, TestTypeOK
<1> QED
  BY <1>6, <1>7, <1>9, <1>10

\* A goroutine that queues tests does one more of them, passes it over, or waits.
LEMMA TryStep == ASSUME NEW h \in {"client", "refresh"}, TestInv, TryEnqueue(h) PROVE TestInv'
<1> USE DEF TestInv
<1>0. PICK p : p = Head(handler[h].todo)
  OBVIOUS
<1>1. /\ handler[h].pc = "queue" /\ handler[h].hold = 0 /\ handler[h].todo # <<>>
      /\ UNCHANGED <<epoch, channel, taken, running, results, progress, requests, events, marked>>
  BY DEF TryEnqueue
<1>2. handler[h] \in Queuing
  BY DEF TestTypeOK
<1>3. handler[h].todo \in Seq(All)
  BY <1>2 DEF Queuing
<1>4. p \in All /\ Tail(handler[h].todo) \in Seq(All) /\ ToSet(handler[h].todo) = {p} \cup ToSet(Tail(handler[h].todo))
  BY <1>0, <1>1, <1>3, SetOfTail
<1>5. CASE p \in inFlight
  <2>1. /\ handler' = [handler EXCEPT ![h].todo = Tail(@)] /\ inFlight' = inFlight
        /\ excuse' = [excuse EXCEPT !.late = @ \/ \E t \in running : t.p = p /\ t.pc = "sent"]
    BY <1>0, <1>5 DEF TryEnqueue
  <2>2. /\ handler' \in [{"client", "refresh"} -> Queuing]
        /\ \A k \in {"client", "refresh"} : /\ handler'[k].pc = handler[k].pc /\ handler'[k].hold = handler[k].hold
                                            /\ handler'[k].ep = handler[k].ep /\ handler'[k].whole = handler[k].whole
                                            /\ handler'[k].g = handler[k].g
                                            /\ handler'[k].todo = IF k = h THEN Tail(handler[k].todo) ELSE handler[k].todo
    BY <2>1, <1>2, <1>4 DEF TestTypeOK, Queuing
  <2>3. excuse' \in [early : BOOLEAN, cancelled : BOOLEAN, dropped : BOOLEAN, late : BOOLEAN]
    BY <2>1 DEF TestTypeOK
  <2>4. excuse'.cancelled = excuse.cancelled /\ excuse'.dropped = excuse.dropped
        /\ (excuse'.late <=> excuse.late \/ \E t \in running : t.p = p /\ t.pc = "sent")
    BY <2>1 DEF TestTypeOK
  <2>5. TestTypeOK'
    BY <1>1, <2>1, <2>2, <2>3 DEF TestTypeOK
  <2>6. HandlerInv'
    BY <1>1, <2>2 DEF HandlerInv
  <2>7. EpochInv'
    BY <1>1, <2>2, <2>4 DEF EpochInv
  <2>8. \A q : Queued(q) => Queued(q)'
    BY <1>1, <2>2 DEF Queued
  <2>9. FlightInv'
    BY <1>1, <2>1, <2>8 DEF FlightInv
  <2>10. Excused' \/ Queued(p) \/ \E t \in running : t.p = p /\ t.pc = "test"
    BY <1>5, <2>4 DEF FlightInv, Excused, TestTypeOK
  <2>11. ASSUME NEW q, Pending(q), ~Excused' PROVE Pending(q)'
    <3>1. CASE q = p
      BY <3>1, <2>10, <2>11, <2>8, <1>1 DEF Pending
    <3>2. CASE q # p
      <4>1. q \in ToSet(handler["client"].todo) => q \in ToSet(handler'["client"].todo)
        BY <3>2, <1>4, <2>2
      <4> QED
        BY <4>1, <2>11, <2>8, <1>1 DEF Pending, Asked
    <3> QED
      BY <3>1, <3>2
  <2>12. MarkInv'
    BY <1>1, <2>4, <2>11 DEF MarkInv, Excused
  <2> QED
    BY <2>5, <2>6, <2>7, <2>9, <2>12
<1>6. CASE p \notin inFlight
  <2>1. /\ handler' = [handler EXCEPT ![h].todo = Tail(@), ![h].hold = p]
        /\ inFlight' = inFlight \cup {p} /\ excuse' = excuse
    BY <1>0, <1>6 DEF TryEnqueue
  <2>2. /\ handler' \in [{"client", "refresh"} -> Queuing]
        /\ \A k \in {"client", "refresh"} : /\ handler'[k].pc = handler[k].pc
                                            /\ handler'[k].hold = IF k = h THEN p ELSE handler[k].hold
                                            /\ handler'[k].ep = handler[k].ep /\ handler'[k].whole = handler[k].whole
                                            /\ handler'[k].g = handler[k].g
                                            /\ handler'[k].todo = IF k = h THEN Tail(handler[k].todo) ELSE handler[k].todo
    BY <2>1, <1>2, <1>4 DEF TestTypeOK, Queuing
  <2>3. TestTypeOK'
    BY <1>1, <1>4, <2>1, <2>2 DEF TestTypeOK
  <2>4. HandlerInv'
    BY <1>1, <2>2 DEF HandlerInv
  <2>5. EpochInv'
    BY <1>1, <2>1, <2>2 DEF EpochInv
  <2>6. \A q \in All : Queued(q) => Queued(q)'
    BY <1>1, <2>2, Profiles0 DEF Queued
  <2>7. Queued(p)'
    BY <2>2 DEF Queued
  <2>8. FlightInv'
    BY <1>1, <2>1, <2>6, <2>7 DEF FlightInv, TestTypeOK
  <2>9. ASSUME NEW q \in All, Pending(q) PROVE Pending(q)'
    <3>1. CASE q = p
      BY <3>1, <2>7 DEF Pending
    <3>2. CASE q # p
      <4>1. q \in ToSet(handler["client"].todo) => q \in ToSet(handler'["client"].todo)
        BY <3>2, <1>4, <2>2
      <4> QED
        BY <4>1, <2>9, <2>6, <1>1 DEF Pending, Asked
    <3> QED
      BY <3>1, <3>2
  <2>10. MarkInv'
    BY <1>1, <2>1, <2>9 DEF MarkInv, Excused, TestTypeOK
  <2> QED
    BY <2>3, <2>4, <2>5, <2>8, <2>10
<1> QED
  BY <1>5, <1>6

LEMMA EnqueueStep == ASSUME NEW h \in {"client", "refresh"}, TestInv, Enqueue(h) PROVE TestInv'
<1> USE DEF TestInv
<1> DEFINE r == [p |-> handler[h].hold, ep |-> handler[h].ep]
<1>1. /\ handler[h].hold # 0 /\ channel' = Append(channel, r)
      /\ handler' = [handler EXCEPT ![h].hold = 0, ![h].total = @ + 1]
      /\ UNCHANGED <<epoch, inFlight, taken, running, results, progress, requests, events, marked, excuse>>
  BY DEF Enqueue
<1>2. handler[h] \in Queuing
  BY DEF TestTypeOK
<1>3. r \in Request /\ r.p = handler[h].hold /\ r.ep = handler[h].ep
  BY <1>1, <1>2 DEF Queuing, Request
<1>4. handler[h].pc = "queue"
  BY <1>1 DEF HandlerInv
<1> HIDE DEF r
<1>5. channel' \in Seq(Request) /\ ToSet(channel') = ToSet(channel) \cup {r}
  BY <1>1, <1>3, SetOfAppend DEF TestTypeOK
<1>6. /\ handler' \in [{"client", "refresh"} -> Queuing]
      /\ \A k \in {"client", "refresh"} : /\ handler'[k].pc = handler[k].pc
                                          /\ handler'[k].hold = IF k = h THEN 0 ELSE handler[k].hold
                                          /\ handler'[k].ep = handler[k].ep /\ handler'[k].whole = handler[k].whole
                                          /\ handler'[k].g = handler[k].g
                                          /\ handler'[k].todo = handler[k].todo
  <2>0. PICK n \in Nat : n = handler[h].total + 1
    BY <1>2 DEF Queuing
  <2> DEFINE m == [handler[h] EXCEPT !.hold = 0, !.total = n]
  <2>1. /\ m \in Queuing /\ m.pc = handler[h].pc /\ m.hold = 0 /\ m.ep = handler[h].ep
        /\ m.whole = handler[h].whole /\ m.g = handler[h].g /\ m.todo = handler[h].todo
    BY <1>2 DEF Queuing
  <2>2. handler' = [handler EXCEPT ![h] = m]
    BY <1>1, <2>0 DEF TestTypeOK
  <2> HIDE DEF m
  <2>3. \A k \in {"client", "refresh"} : handler'[k] = IF k = h THEN m ELSE handler[k]
    BY <2>2 DEF TestTypeOK
  <2> QED
    BY <2>1, <2>2, <2>3 DEF TestTypeOK
<1>7. TestTypeOK'
  BY <1>1, <1>5, <1>6 DEF TestTypeOK
<1>8. HandlerInv'
  BY <1>6 DEF HandlerInv
<1>9. EpochInv'
  BY <1>1, <1>3, <1>4, <1>5, <1>6 DEF EpochInv
<1>10. \A q : Queued(q) => Queued(q)'
  BY <1>1, <1>3, <1>5, <1>6, SMTT(30) DEF Queued
<1>11. FlightInv'
  BY <1>1, <1>10 DEF FlightInv
<1>12. MarkInv'
  BY <1>1, <1>6, <1>10 DEF MarkInv, Excused, Pending, Asked
<1> QED
  BY <1>7, <1>8, <1>9, <1>11, <1>12

\* A goroutine is done with its batch.
LEMMA DoneStep ==
  ASSUME NEW h \in {"client", "refresh"}, TestInv,
         handler[h].todo = <<>>, handler[h].hold = 0,
         NEW m \in Queuing, handler' = [handler EXCEPT ![h] = m],
         m.pc # "queue", m.todo = <<>>, m.hold = 0, m.whole => m.g \in GroupIds,
         TestTypeOK',
         UNCHANGED <<epoch, inFlight, channel, taken, running, results, requests, marked, excuse>>,
         \A e \in ToSet(events) : e \in ToSet(events')
  PROVE  TestInv'
<1> USE DEF TestInv
<1>1. \A k \in {"client", "refresh"} : handler'[k] = IF k = h THEN m ELSE handler[k]
  BY DEF TestTypeOK
<1>2. HandlerInv'
  BY <1>1 DEF HandlerInv
<1>3. EpochInv'
  BY <1>1 DEF EpochInv
<1>4. \A q : Queued(q) => Queued(q)'
  BY <1>1 DEF Queued
<1>5. FlightInv'
  BY <1>4 DEF FlightInv
<1>6. handler'["client"].todo = handler["client"].todo
  BY <1>1
<1>7. \A q : Pending(q) => Pending(q)'
  BY <1>4, <1>6 DEF Pending, Asked
<1>8. MarkInv'
  BY <1>7 DEF MarkInv, Excused
<1> QED
  BY <1>2, <1>3, <1>5, <1>8

LEMMA SeedStep == ASSUME NEW h \in {"client", "refresh"}, TestInv, SeedTestProgress(h) PROVE TestInv'
<1> USE DEF TestInv
<1> DEFINE m == IF handler[h].whole /\ h = "client" THEN [handler[h] EXCEPT !.pc = "send"] ELSE Resting
<1>1. /\ handler[h].pc = "queue" /\ handler[h].hold = 0 /\ handler[h].todo = <<>>
      /\ UNCHANGED <<epoch, inFlight, channel, taken, running, results, requests, events, marked, excuse>>
  BY DEF SeedTestProgress
<1>2. handler[h] \in Queuing
  BY DEF TestTypeOK
<1>3. m \in Queuing /\ m.pc # "queue" /\ m.todo = <<>> /\ m.hold = 0
  BY <1>1, <1>2 DEF Queuing, Resting
<1>4. m.whole => m.g \in GroupIds
  BY <1>2 DEF HandlerInv, Queuing, Resting
<1>5. handler' = [handler EXCEPT ![h] = m]
  BY DEF SeedTestProgress
<1>6. progress' \in [GroupIds -> [on : BOOLEAN, tested : Nat, total : Nat]]
  <2>1. CASE handler[h].whole
    <3> DEFINE e == [on |-> TRUE, tested |-> 0, total |-> handler[h].total]
    <3>1. e \in [on : BOOLEAN, tested : Nat, total : Nat]
      BY <1>2 DEF Queuing
    <3>2. progress' = [progress EXCEPT ![handler[h].g] = e]
      BY <2>1 DEF SeedTestProgress
    <3> HIDE DEF e
    <3> QED
      BY <3>1, <3>2 DEF TestTypeOK
  <2>2. CASE ~handler[h].whole
    BY <2>2 DEF SeedTestProgress, TestTypeOK
  <2> QED
    BY <2>1, <2>2
<1> HIDE DEF m
<1>7. TestTypeOK'
  BY <1>1, <1>3, <1>5, <1>6 DEF TestTypeOK
<1> QED
  BY <1>1, <1>3, <1>4, <1>5, <1>7, DoneStep

LEMMA SendSeedStep == TestInv /\ SendSeed => TestInv'
<1> SUFFICES ASSUME TestInv, SendSeed PROVE TestInv'
  OBVIOUS
<1> USE DEF TestInv
<1> DEFINE e == [k |-> "progress", g |-> handler["client"].g, tested |-> 0, total |-> handler["client"].total]
<1>1. /\ handler["client"].pc = "send" /\ events' = Append(events, e)
      /\ handler' = [handler EXCEPT !["client"] = Resting]
      /\ UNCHANGED <<epoch, inFlight, channel, taken, running, results, progress, requests, marked, excuse>>
  BY DEF SendSeed
<1>2. handler["client"].todo = <<>> /\ handler["client"].hold = 0
  BY <1>1 DEF HandlerInv
<1>3. Resting \in Queuing /\ Resting.pc # "queue" /\ Resting.todo = <<>> /\ Resting.hold = 0 /\ ~Resting.whole
  BY DEF Resting, Queuing
<1>4. e \in Event
  <2>1. handler["client"] \in Queuing
    BY DEF TestTypeOK
  <2> QED
    BY <2>1 DEF Queuing, Event
<1> HIDE DEF e
<1>5. events' \in Seq(Event) /\ ToSet(events') = ToSet(events) \cup {e}
  BY <1>1, <1>4, SetOfAppend DEF TestTypeOK
<1>6. TestTypeOK'
  BY <1>1, <1>3, <1>5 DEF TestTypeOK
<1> QED
  BY <1>1, <1>2, <1>3, <1>5, <1>6, DoneStep

LEMMA TakeStep == TestInv /\ TakeTest => TestInv'
<1> SUFFICES ASSUME TestInv, TakeTest PROVE TestInv'
  OBVIOUS
<1> USE DEF TestInv
<1>0. PICK r : r = Head(channel)
  OBVIOUS
<1>1. /\ taken = NoReq /\ channel # <<>> /\ channel' = Tail(channel)
      /\ UNCHANGED <<epoch, running, results, progress, handler, requests, events, marked, excuse>>
  BY DEF TakeTest
<1>2. r \in Request /\ channel' \in Seq(Request) /\ ToSet(channel) = {r} \cup ToSet(channel')
  BY <1>0, <1>1, SetOfTail DEF TestTypeOK
<1>3. \A q \in All : taken.p # q
  BY <1>1, Profiles0 DEF NoReq
<1>4. HandlerInv'
  BY <1>1 DEF HandlerInv
<1>5. EpochInv'
  BY <1>1, <1>2 DEF EpochInv
<1>6. CASE Stale(r)
  <2>1. inFlight' = inFlight \ {r.p} /\ taken' = taken
    BY <1>0, <1>6 DEF TakeTest
  <2>2. TestTypeOK'
    BY <1>1, <1>2, <2>1 DEF TestTypeOK
  <2>3. \A q : q # r.p /\ Queued(q) => Queued(q)'
    BY <1>1, <1>2, <2>1 DEF Queued
  <2>4. FlightInv'
    BY <1>1, <2>1, <2>3 DEF FlightInv
  <2>5. excuse.cancelled
    BY <1>2, <1>6 DEF EpochInv, Stale
  <2>6. MarkInv'
    BY <1>1, <2>5 DEF MarkInv, Excused
  <2> QED
    BY <1>4, <1>5, <2>2, <2>4, <2>6
<1>7. CASE ~Stale(r)
  <2>1. inFlight' = inFlight /\ taken' = r
    BY <1>0, <1>7 DEF TakeTest
  <2>2. TestTypeOK'
    BY <1>1, <1>2, <2>1 DEF TestTypeOK
  <2>3. \A q \in All : Queued(q) => Queued(q)'
    BY <1>1, <1>2, <1>3, <2>1 DEF Queued
  <2>4. FlightInv'
    BY <1>1, <2>1, <2>3 DEF FlightInv, TestTypeOK
  <2>5. MarkInv'
    BY <1>1, <2>3 DEF MarkInv, Excused, Pending, Asked, TestTypeOK
  <2> QED
    BY <1>4, <1>5, <2>2, <2>4, <2>5
<1> QED
  BY <1>6, <1>7

LEMMA SpawnStep == TestInv /\ SpawnTest => TestInv'
<1> SUFFICES ASSUME TestInv, SpawnTest PROVE TestInv'
  OBVIOUS
<1> USE DEF TestInv
<1>0. PICK t : t = [p |-> taken.p, ep |-> taken.ep, pc |-> "test"]
  OBVIOUS
<1>1. /\ taken # NoReq /\ running' = running \cup {t} /\ taken' = NoReq
      /\ UNCHANGED <<epoch, inFlight, channel, results, progress, handler, requests, events, marked, excuse>>
  BY <1>0 DEF SpawnTest
<1>2. t \in [p : All, ep : Nat, pc : {"test", "sent"}] /\ t.p = taken.p /\ t.pc = "test"
  BY <1>0, <1>1 DEF TestTypeOK, Request
<1>3. TestTypeOK'
  BY <1>1, <1>2 DEF TestTypeOK
<1>4. HandlerInv' /\ EpochInv'
  BY <1>1 DEF HandlerInv, EpochInv
<1>5. \A q : Queued(q) => Queued(q)' \/ t.p = q
  BY <1>1, <1>2 DEF Queued
<1>6. FlightInv'
  BY <1>1, <1>5 DEF FlightInv
<1>7. \A q : Pending(q) => Pending(q)'
  BY <1>1, <1>2, <1>5 DEF Pending, Asked
<1>8. MarkInv'
  BY <1>1, <1>7 DEF MarkInv, Excused
<1> QED
  BY <1>3, <1>4, <1>6, <1>8

LEMMA ResultStep == ASSUME NEW t \in running, TestInv, SendTestResult(t) PROVE TestInv'
<1> USE DEF TestInv
<1>0. PICK u : u = [t EXCEPT !.pc = "sent"]
  OBVIOUS
<1>1. /\ t.pc = "test" /\ running' = (running \ {t}) \cup {u}
      /\ UNCHANGED <<epoch, inFlight, channel, taken, progress, handler, requests, events, marked>>
  BY <1>0 DEF SendTestResult
<1>2. /\ t \in [p : All, ep : Nat, pc : {"test", "sent"}] /\ t.p \in All
      /\ u \in [p : All, ep : Nat, pc : {"test", "sent"}] /\ u.p = t.p
  BY <1>0 DEF TestTypeOK
<1>3. HandlerInv'
  BY <1>1 DEF HandlerInv
<1>4. \A q : Queued(q) => Queued(q)'
  BY <1>1 DEF Queued
<1>5. FlightInv'
  BY <1>1, <1>2, <1>4 DEF FlightInv
<1>6. CASE Len(results) < QueueCap
  <2>1. results' = Append(results, t.p) /\ excuse' = excuse
    BY <1>6 DEF SendTestResult
  <2>2. results' \in Seq(All) /\ ToSet(results') = ToSet(results) \cup {t.p}
    BY <1>2, <2>1, SetOfAppend DEF TestTypeOK
  <2>3. TestTypeOK' /\ EpochInv'
    BY <1>1, <1>2, <2>1, <2>2 DEF TestTypeOK, EpochInv
  <2>4. \A q : Pending(q) => Pending(q)'
    BY <1>1, <1>4, <2>2 DEF Pending, Asked
  <2>5. MarkInv'
    BY <1>1, <2>1, <2>4 DEF MarkInv, Excused
  <2> QED
    BY <1>3, <1>5, <2>3, <2>5
<1>7. CASE ~(Len(results) < QueueCap)
  <2>1. results' = results /\ excuse' = [excuse EXCEPT !.dropped = TRUE]
    BY <1>7 DEF SendTestResult
  <2>2. TestTypeOK' /\ EpochInv'
    BY <1>1, <1>2, <2>1 DEF TestTypeOK, EpochInv
  <2>3. excuse'.dropped
    BY <2>1 DEF TestTypeOK
  <2>4. MarkInv'
    BY <2>3 DEF MarkInv, Excused
  <2> QED
    BY <1>3, <1>5, <2>2, <2>4
<1> QED
  BY <1>6, <1>7

LEMMA ReleaseStep == ASSUME NEW t \in running, TestInv, ReleaseInFlight(t) PROVE TestInv'
<1> USE DEF TestInv
<1>1. /\ t.pc = "sent" /\ running' = running \ {t} /\ inFlight' = inFlight \ {t.p}
      /\ UNCHANGED <<epoch, channel, taken, results, progress, handler, requests, events, marked, excuse>>
  BY DEF ReleaseInFlight
<1>2. TestTypeOK'
  BY <1>1 DEF TestTypeOK
<1>3. HandlerInv' /\ EpochInv'
  BY <1>1 DEF HandlerInv, EpochInv
<1>4. FlightInv'
  BY <1>1 DEF FlightInv, Queued
<1>5. \A q : Pending(q) => Pending(q)'
  BY <1>1 DEF Pending, Asked, Queued
<1>6. MarkInv'
  BY <1>1, <1>5 DEF MarkInv, Excused
<1> QED
  BY <1>2, <1>3, <1>4, <1>6

LEMMA HandleStep == TestInv /\ HandleResult => TestInv'
<1> SUFFICES ASSUME TestInv, HandleResult PROVE TestInv'
  OBVIOUS
<1> USE DEF TestInv
<1>0. PICK p, g, e, updated : p = Head(results) /\ g = GroupOf(p) /\ e = progress[g] /\ updated = [k |-> "updated", p |-> p]
  OBVIOUS
<1> DEFINE counted == [k |-> "progress", g |-> g, tested |-> e.tested + 1, total |-> e.total]
           both == <<updated, counted>>
<1>1. /\ results # <<>> /\ results' = Tail(results)
      /\ UNCHANGED <<epoch, inFlight, channel, taken, running, handler, requests, marked>>
  BY DEF HandleResult
<1>2. p \in All /\ results' \in Seq(All) /\ ToSet(results) = {p} \cup ToSet(results')
  BY <1>0, <1>1, SetOfTail DEF TestTypeOK
<1>3. g \in GroupIds /\ e \in [on : BOOLEAN, tested : Nat, total : Nat] /\ g \in Nat
  BY <1>0, <1>2, Profiles0 DEF TestTypeOK
<1>4. updated \in Event /\ updated.k = "updated" /\ updated.p = p
  BY <1>0, <1>2 DEF Event
<1>5. counted \in Event
  BY <1>3 DEF Event
<1>6. /\ events' \in Seq(Event) /\ ToSet(events) \subseteq ToSet(events') /\ updated \in ToSet(events')
      /\ progress' \in [GroupIds -> [on : BOOLEAN, tested : Nat, total : Nat]]
  <2>1. CASE e.on
    <3>1. /\ events' = events \o both
          /\ progress' = [progress EXCEPT ![g] = IF e.tested + 1 >= e.total THEN NoEntry ELSE [e EXCEPT !.tested = @ + 1]]
      BY <2>1, <1>0 DEF HandleResult
    <3> HIDE DEF counted
    <3>2. both \in Seq(Event) /\ ToSet(both) = {updated, counted}
      BY <1>4, <1>5 DEF ToSet
    <3> HIDE DEF both
    <3>3. events' \in Seq(Event) /\ ToSet(events') = ToSet(events) \cup {updated, counted}
      BY <3>1, <3>2, SetOfConcat DEF TestTypeOK
    <3>4. (IF e.tested + 1 >= e.total THEN NoEntry ELSE [e EXCEPT !.tested = @ + 1])
             \in [on : BOOLEAN, tested : Nat, total : Nat]
      BY <1>3 DEF NoEntry
    <3> QED
      BY <3>1, <3>3, <3>4 DEF TestTypeOK
  <2>2. CASE ~e.on
    <3>1. events' = Append(events, updated) /\ progress' = progress
      BY <2>2, <1>0 DEF HandleResult
    <3> QED
      BY <3>1, <1>4, SetOfAppend DEF TestTypeOK
  <2> QED
    BY <2>1, <2>2
<1>7. /\ excuse' \in [early : BOOLEAN, cancelled : BOOLEAN, dropped : BOOLEAN, late : BOOLEAN]
      /\ excuse'.cancelled = excuse.cancelled /\ excuse'.dropped = excuse.dropped /\ excuse'.late = excuse.late
  <2>1. PICK b \in BOOLEAN : excuse' = [excuse EXCEPT !.early = b]
    BY DEF HandleResult, TestTypeOK
  <2> QED
    BY <2>1 DEF TestTypeOK
<1>8. TestTypeOK'
  BY <1>1, <1>2, <1>6, <1>7 DEF TestTypeOK
<1>9. HandlerInv' /\ EpochInv' /\ FlightInv'
  BY <1>1, <1>7 DEF HandlerInv, EpochInv, FlightInv, Queued
<1>10. \A q : Pending(q) => Pending(q)'
  BY <1>1, <1>2, <1>4, <1>6 DEF Pending, Asked, Queued
<1>11. MarkInv'
  BY <1>1, <1>7, <1>10 DEF MarkInv, Excused
<1> QED
  BY <1>8, <1>9, <1>11

LEMMA StepTests == TestInv /\ [TestNext]_testVars => TestInv'
<1> SUFFICES ASSUME TestInv, [TestNext]_testVars PROVE TestInv'
  OBVIOUS
<1>1. CASE UNCHANGED testVars
  BY <1>1 DEF testVars, TestInv, TestTypeOK, HandlerInv, EpochInv, FlightInv, MarkInv, Excused, Pending, Asked, Queued
<1>2. ASSUME NEW h \in DOMAIN handler, TryEnqueue(h) \/ Enqueue(h) \/ SeedTestProgress(h) PROVE TestInv'
  <2>1. h \in {"client", "refresh"}
    BY DEF TestInv, TestTypeOK
  <2> QED
    BY <1>2, <2>1, TryStep, EnqueueStep, SeedStep
<1>3. ASSUME NEW t \in running, SendTestResult(t) \/ ReleaseInFlight(t) PROVE TestInv'
  BY <1>3, ResultStep, ReleaseStep
<1> QED
  BY <1>1, <1>2, <1>3, BatchStep, CancelStep, ApplyStep, RequestStep, RefreshStep, SendSeedStep,
     TakeStep, SpawnStep, HandleStep DEF TestNext

LEMMA TestsInductive == TestSpec => []TestInv
  BY InitTests, StepTests, PTL DEF TestSpec

\* Latency tests: when all tests are over, no profile is left marked as being tested: a batch
\* asks for every profile it marks (run_test_batch), and a profile that the tester passes over
\* because it is in flight (tryEnqueueInFlight) has a test of which the result is still to
\* come, unless that result was sent already, was dropped, or the user cancelled.
THEOREM MarksCleared == TestSpec => []MarksResolved
<1>1. TestInv => MarksResolved
  <2> SUFFICES ASSUME TestInv, Settled, ~excuse.cancelled, ~excuse.dropped, ~excuse.late
               PROVE  marked = {}
    BY DEF MarksResolved
  <2> USE DEF TestInv
  <2>1. /\ ToSet(requests) = {} /\ ToSet(events) = {} /\ ToSet(channel) = {} /\ ToSet(results) = {}
        /\ taken = NoReq /\ running = {}
    BY DEF Settled, ToSet
  <2>2. \A h \in {"client", "refresh"} : handler[h].pc = "idle"
    BY DEF Settled, TestTypeOK
  <2>3. \A h \in {"client", "refresh"} : handler[h].todo = <<>> /\ handler[h].hold = 0
    BY <2>2 DEF HandlerInv
  <2>4. ToSet(handler["client"].todo) = {}
    BY <2>3 DEF ToSet
  <2>5. \A p \in All : ~Queued(p)
    BY <2>1, <2>3, Profiles0 DEF Queued, NoReq
  <2>6. \A p \in All : ~Pending(p)
    BY <2>1, <2>4, <2>5 DEF Pending, Asked
  <2> QED
    BY <2>6 DEF MarkInv, Excused, TestTypeOK
<1> QED
  BY <1>1, TestsInductive, PTL

-----------------------------------------------------------------------------
(* The progress bar: what is still to be counted of a group.               *)

Inside(p) ==
  \/ \E r \in ToSet(channel) : r.p = p
  \/ taken.p = p
  \/ \E t \in running : t.p = p
Outstanding(p) ==
  \/ \E r \in ToSet(channel) : r.p = p
  \/ taken.p = p
  \/ \E t \in running : t.p = p /\ t.pc = "test"
Under(g) == {p \in Members(g) : Outstanding(p)}
Places(s, g) == {i \in DOMAIN s : s[i] \in Members(g)}
Due(g) == Cardinality(Under(g)) + Cardinality(Places(results, g))

\* A goroutine that queues a group queues its profiles, and only then sends a first value.
BatchInv ==
  \A h \in {"client", "refresh"} :
    /\ handler[h].whole => ToSet(handler[h].todo) \subseteq Members(handler[h].g) /\ handler[h].hold \in Members(handler[h].g) \cup {0}
    /\ handler[h].pc = "send" => handler[h].whole

\* A profile in flight is in one place.
Apart(s) == \A i, j \in DOMAIN s : s[i].p = s[j].p => i = j
OnceInv ==
  /\ \A h \in {"client", "refresh"} : handler[h].hold # 0 =>
       /\ handler[h].hold \in inFlight /\ ~Inside(handler[h].hold)
       /\ \A k \in {"client", "refresh"} : k # h => handler[k].hold # handler[h].hold
  /\ Apart(channel)
  /\ \A r \in ToSet(channel) : r.p \in inFlight /\ r.p # taken.p /\ \A t \in running : t.p # r.p
  /\ taken # NoReq => taken.p \in inFlight /\ \A t \in running : t.p # taken.p
  /\ \A t \in running : t.p \in inFlight /\ \A u \in running : u.p = t.p => u = t

Spoiled == excuse.cancelled \/ excuse.dropped \/ excuse.early

\* As many results are still to come as a batch has queued, and as a counter waits for.
Sound(h) == \A g \in GroupIds : handler[h].whole /\ handler[h].g = g =>
  /\ handler[h].total <= Due(g)
  /\ handler[h].pc = "send" => progress[g].on
Covered(g) == progress[g].on => progress[g].total <= progress[g].tested + Due(g)
CountInv == Spoiled \/
  /\ \A h \in {"client", "refresh"} : Sound(h)
  /\ \A g \in GroupIds : Covered(g)

\* The group that the interface will show has a counter and results to come.
Live(g) == progress[g].on /\ Due(g) >= 1
Later(es, i) == \A j \in DOMAIN es : j > i => es[j].k # "progress"
LastNews(es, e) == e.k = "progress" /\ \E i \in DOMAIN es : es[i] = e /\ Later(es, i)
NoNews(es) == \A i \in DOMAIN es : es[i].k # "progress"
BarTrue == Spoiled \/
  /\ \A e \in Event : LastNews(events, e) /\ e.tested < e.total => e.g \in GroupIds /\ Live(e.g)
  /\ NoNews(events) /\ bar # NoBar => \E g \in GroupIds : bar.g = g /\ Live(g)

BarInv == TestInv /\ BatchInv /\ OnceInv /\ CountInv /\ BarTrue

LEMMA AppendNews ==
  ASSUME NEW es \in Seq(Event), NEW e \in Event
  PROVE  /\ e.k = "progress" => ~NoNews(Append(es, e)) /\ \A x : LastNews(Append(es, e), x) => x = e
         /\ e.k # "progress" => /\ NoNews(Append(es, e)) => NoNews(es)
                                /\ \A x : LastNews(Append(es, e), x) => LastNews(es, x)
<1> DEFINE fs == Append(es, e)
<1>1. DOMAIN fs = 1 .. Len(es) + 1 /\ DOMAIN es = 1 .. Len(es) /\ Len(es) \in Nat
  OBVIOUS
<1>2. fs[Len(es) + 1] = e /\ \A i \in 1 .. Len(es) : fs[i] = es[i]
  OBVIOUS
<1> HIDE DEF fs
<1>3. \A i \in 1 .. Len(es) + 1 : i = Len(es) + 1 \/ (i \in 1 .. Len(es) /\ Len(es) + 1 > i)
  BY <1>1
<1>4. Len(es) + 1 \in DOMAIN fs /\ \A i \in 1 .. Len(es) : i \in DOMAIN fs
  BY <1>1
<1>5. ASSUME e.k = "progress" PROVE ~NoNews(fs) /\ \A x : LastNews(fs, x) => x = e
  <2>1. ~NoNews(fs)
    BY <1>2, <1>4, <1>5 DEF NoNews
  <2>2. ASSUME NEW i \in DOMAIN fs, Later(fs, i) PROVE fs[i] = e
    BY <1>1, <1>2, <1>3, <1>4, <1>5, <2>2 DEF Later
  <2> QED
    BY <2>1, <2>2 DEF LastNews
<1>6. ASSUME e.k # "progress" PROVE (NoNews(fs) => NoNews(es)) /\ \A x : LastNews(fs, x) => LastNews(es, x)
  <2>1. NoNews(fs) => NoNews(es)
    BY <1>1, <1>2, <1>4 DEF NoNews
  <2>2. ASSUME NEW x, LastNews(fs, x) PROVE LastNews(es, x)
    <3>1. PICK i \in DOMAIN fs : fs[i] = x /\ Later(fs, i)
      BY <2>2 DEF LastNews
    <3>2. x.k = "progress"
      BY <2>2 DEF LastNews
    <3>3. i \in 1 .. Len(es)
      BY <1>1, <1>2, <1>3, <1>6, <3>1, <3>2
    <3>4. es[i] = x /\ Later(es, i)
      BY <1>1, <1>2, <1>4, <3>1, <3>3 DEF Later
    <3> QED
      BY <1>1, <3>2, <3>3, <3>4 DEF LastNews
  <2> QED
    BY <2>1, <2>2
<1> QED
  BY <1>5, <1>6 DEF fs

LEMMA TailNews ==
  ASSUME NEW es \in Seq(Event), es # <<>>
  PROVE  /\ \A x : LastNews(Tail(es), x) => LastNews(es, x)
         /\ NoNews(Tail(es)) => IF Head(es).k = "progress" THEN LastNews(es, Head(es)) ELSE NoNews(es)
<1>1. /\ Head(es) = es[1] /\ Len(es) \in Nat \ {0}
      /\ DOMAIN es = 1 .. Len(es) /\ DOMAIN Tail(es) = 1 .. Len(es) - 1
  OBVIOUS
<1>2. \A i \in 1 .. Len(es) - 1 : Tail(es)[i] = es[i + 1] /\ i + 1 \in 1 .. Len(es)
  BY <1>1
<1>3. \A j \in 1 .. Len(es) : j = 1 \/ (j - 1 \in 1 .. Len(es) - 1 /\ (j - 1) + 1 = j)
  BY <1>1
<1>4. ASSUME NEW x, LastNews(Tail(es), x) PROVE LastNews(es, x)
  <2>1. PICK i \in 1 .. Len(es) - 1 : Tail(es)[i] = x /\ Later(Tail(es), i)
    BY <1>1, <1>4 DEF LastNews
  <2>2. \A j \in 1 .. Len(es) : j > i + 1 => j # 1 /\ j - 1 > i
    BY <1>1
  <2>3. ASSUME NEW j \in 1 .. Len(es), j > i + 1 PROVE es[j].k # "progress"
    <3>1. j - 1 \in 1 .. Len(es) - 1 /\ (j - 1) + 1 = j /\ j - 1 > i
      BY <1>3, <2>2, <2>3
    <3>2. Tail(es)[j - 1] = es[j]
      BY <1>2, <3>1
    <3> QED
      BY <1>1, <2>1, <3>1, <3>2 DEF Later
  <2>4. Later(es, i + 1)
    BY <1>1, <2>3 DEF Later
  <2> QED
    BY <1>1, <1>2, <1>4, <2>1, <2>4 DEF LastNews
<1>5. ASSUME NoNews(Tail(es)) PROVE IF Head(es).k = "progress" THEN LastNews(es, Head(es)) ELSE NoNews(es)
  <2>1. ASSUME NEW j \in 1 .. Len(es), j # 1 PROVE es[j].k # "progress"
    <3>1. j - 1 \in 1 .. Len(es) - 1 /\ (j - 1) + 1 = j
      BY <1>3, <2>1
    <3>2. Tail(es)[j - 1] = es[j]
      BY <1>2, <3>1
    <3> QED
      BY <1>1, <1>5, <3>1, <3>2 DEF NoNews
  <2>2. Later(es, 1) /\ 1 \in DOMAIN es
    BY <1>1, <2>1 DEF Later
  <2>3. Head(es).k = "progress" => LastNews(es, Head(es))
    BY <1>1, <2>2 DEF LastNews
  <2>4. Head(es).k # "progress" => NoNews(es)
    BY <1>1, <2>1 DEF NoNews
  <2> QED
    BY <2>3, <2>4
<1> QED
  BY <1>4, <1>5

\* The members of a group among the elements of a queue, counted.
LEMMA PlacesAppend ==
  ASSUME NEW s \in Seq(All), NEW p \in All, NEW g
  PROVE  /\ Cardinality(Places(s, g)) \in Nat /\ Cardinality(Places(Append(s, p), g)) \in Nat
         /\ Cardinality(Places(Append(s, p), g)) >= Cardinality(Places(s, g))
         /\ p \in Members(g) => Cardinality(Places(Append(s, p), g)) = Cardinality(Places(s, g)) + 1
<1> DEFINE t == Append(s, p)
<1>1. DOMAIN t = 1 .. Len(s) + 1 /\ DOMAIN s = 1 .. Len(s) /\ Len(s) \in Nat
  OBVIOUS
<1>2. t[Len(s) + 1] = p /\ \A i \in 1 .. Len(s) : t[i] = s[i]
  OBVIOUS
<1> HIDE DEF t
<1>3. \A i \in 1 .. Len(s) + 1 : i \in 1 .. Len(s) \/ i = Len(s) + 1
  BY <1>1
<1>4. Places(t, g) = Places(s, g) \cup (IF p \in Members(g) THEN {Len(s) + 1} ELSE {})
  <2>1. \A i : i \in Places(t, g) <=> i \in Places(s, g) \/ (i = Len(s) + 1 /\ p \in Members(g))
    BY <1>1, <1>2, <1>3 DEF Places
  <2> QED
    BY <2>1
<1>5. IsFiniteSet(Places(s, g))
  <2>1. Places(s, g) \subseteq 1 .. Len(s) /\ IsFiniteSet(1 .. Len(s))
    BY <1>1, FS_Interval DEF Places
  <2> QED
    BY <2>1, FS_Subset
<1>6. Len(s) + 1 \notin Places(s, g)
  BY <1>1 DEF Places
<1>7. /\ Cardinality(Places(s, g)) \in Nat
      /\ Cardinality(Places(s, g) \cup {Len(s) + 1}) = Cardinality(Places(s, g)) + 1
  BY <1>5, <1>6, FS_CardinalityType, FS_AddElement
<1>8. CASE p \in Members(g)
  <2>1. Places(t, g) = Places(s, g) \cup {Len(s) + 1}
    BY <1>4, <1>8
  <2>2. Cardinality(Places(t, g)) = Cardinality(Places(s, g)) + 1
    BY <1>7, <2>1
  <2> QED
    BY <1>7, <2>2 DEF t
<1>9. CASE p \notin Members(g)
  <2>1. Cardinality(Places(t, g)) = Cardinality(Places(s, g))
    BY <1>4, <1>9
  <2>2. Cardinality(Places(s, g)) >= Cardinality(Places(s, g))
    BY <1>7
  <2> QED
    BY <1>7, <1>9, <2>1, <2>2 DEF t
<1> QED
  BY <1>8, <1>9

LEMMA PlacesTail ==
  ASSUME NEW s \in Seq(All), s # <<>>, NEW g
  PROVE  /\ Cardinality(Places(s, g)) \in Nat /\ Cardinality(Places(Tail(s), g)) \in Nat
         /\ Cardinality(Places(s, g)) = Cardinality(Places(Tail(s), g)) + (IF Head(s) \in Members(g) THEN 1 ELSE 0)
<1>1. /\ Head(s) = s[1] /\ Len(s) \in Nat \ {0}
      /\ DOMAIN s = 1 .. Len(s) /\ DOMAIN Tail(s) = 1 .. Len(s) - 1
  OBVIOUS
<1>2. \A i \in 1 .. Len(s) - 1 : Tail(s)[i] = s[i + 1] /\ i + 1 \in 1 .. Len(s)
  BY <1>1
<1>3. \A j \in 1 .. Len(s) : j = 1 \/ (j - 1 \in 1 .. Len(s) - 1 /\ (j - 1) + 1 = j)
  BY <1>1
<1> DEFINE R == Places(s, g) \ {1}
           T == Places(Tail(s), g)
           f == [i \in T |-> i + 1]
<1>4. IsFiniteSet(Places(s, g)) /\ IsFiniteSet(R) /\ IsFiniteSet(T)
  <2>1. Places(s, g) \subseteq 1 .. Len(s) /\ IsFiniteSet(1 .. Len(s)) /\ R \subseteq 1 .. Len(s)
    BY <1>1, FS_Interval DEF Places
  <2>2. T \subseteq 1 .. Len(s) - 1 /\ IsFiniteSet(1 .. Len(s) - 1)
    BY <1>1, FS_Interval DEF Places
  <2> QED
    BY <2>1, <2>2, FS_Subset
<1>5. ExistsBijection(T, R)
  <2>1. \A i \in T : i \in 1 .. Len(s) - 1 /\ Tail(s)[i] \in Members(g)
    BY <1>1 DEF Places
  <2>2. \A i \in T : i + 1 \in R
    <3> TAKE i \in T
    <3>1. i + 1 \in DOMAIN s /\ s[i + 1] \in Members(g)
      BY <1>1, <1>2, <2>1
    <3>2. i + 1 # 1
      BY <1>1, <2>1
    <3> QED
      BY <3>1, <3>2 DEF Places
  <2>3. \A j \in R : \E i \in T : i + 1 = j
    <3> TAKE j \in R
    <3>1. j \in 1 .. Len(s) /\ j # 1 /\ s[j] \in Members(g)
      BY <1>1 DEF Places
    <3>2. j - 1 \in 1 .. Len(s) - 1 /\ (j - 1) + 1 = j
      BY <1>3, <3>1
    <3>3. Tail(s)[j - 1] = s[j]
      BY <1>2, <3>2
    <3>4. j - 1 \in T
      BY <1>1, <3>1, <3>2, <3>3 DEF Places
    <3> QED
      BY <3>2, <3>4
  <2>4. \A i, j \in T : i + 1 = j + 1 => i = j
    BY <1>1, <2>1
  <2> HIDE DEF T, R
  <2> QED
    <3>1. f \in [T -> R] /\ \A i \in T : f[i] = i + 1
      BY <2>2
    <3> HIDE DEF f
    <3>2. f \in Bijection(T, R)
      BY <2>3, <2>4, <3>1 DEF Bijection, Injection, Surjection, IsInjective
    <3> QED
      BY <3>2 DEF ExistsBijection
<1>6. Cardinality(T) = Cardinality(R) /\ Cardinality(R) \in Nat
  BY <1>4, <1>5, FS_Bijection, FS_CardinalityType
<1> HIDE DEF T, R, f
<1>7. Places(s, g) = R \cup (IF Head(s) \in Members(g) THEN {1} ELSE {}) /\ 1 \notin R
  BY <1>1 DEF Places, R
<1>8. Cardinality(R \cup {1}) = Cardinality(R) + 1
  BY <1>4, <1>7, FS_AddElement
<1>9. CASE Head(s) \in Members(g)
  <2>1. Cardinality(Places(s, g)) = Cardinality(T) + 1
    BY <1>6, <1>7, <1>8, <1>9
  <2>2. Cardinality(Places(s, g)) \in Nat /\ Cardinality(T) \in Nat
    BY <1>6, <2>1
  <2> QED
    BY <1>9, <2>1, <2>2 DEF T
<1>10. CASE Head(s) \notin Members(g)
  <2>1. Cardinality(Places(s, g)) = Cardinality(T)
    BY <1>6, <1>7, <1>10
  <2>2. Cardinality(T) \in Nat
    BY <1>6
  <2> QED
    BY <1>10, <2>1, <2>2 DEF T
<1> QED
  BY <1>9, <1>10

LEMMA GroupsApart ==
  /\ \A g \in GroupIds : Members(g) \subseteq All
  /\ \A p \in All : \A g \in GroupIds : GroupOf(p) = g <=> p \in Members(g)
<1>1. \A g \in GroupIds : Members(g) \subseteq All
  BY DEF All
<1>2. \A g, h \in GroupIds : \A p : p \in Members(g) /\ p \in Members(h) => g = h
  BY TestAssumption DEF GroupIds, Members
<1>3. ASSUME NEW p \in All PROVE GroupOf(p) \in GroupIds /\ p \in Members(GroupOf(p))
  <2>1. \E g \in GroupIds : p \in Members(g)
    BY DEF All
  <2> QED
    BY <2>1 DEF GroupOf
<1> QED
  BY <1>1, <1>2, <1>3

LEMMA DueIsNat ==
  TestTypeOK => \A g \in GroupIds :
    /\ IsFiniteSet(Under(g)) /\ Cardinality(Under(g)) \in Nat /\ Cardinality(Places(results, g)) \in Nat
    /\ Due(g) \in Nat
<1> SUFFICES ASSUME TestTypeOK, NEW g \in GroupIds
             PROVE  /\ IsFiniteSet(Under(g)) /\ Cardinality(Under(g)) \in Nat /\ Cardinality(Places(results, g)) \in Nat
                    /\ Due(g) \in Nat
  OBVIOUS
<1>1. IsFiniteSet(Under(g))
  <2>1. Under(g) \subseteq All
    BY GroupsApart DEF Under
  <2> QED
    BY <2>1, FinitelyMany, FS_Subset
<1>2. Cardinality(Under(g)) \in Nat
  BY <1>1, FS_CardinalityType
<1>3. Cardinality(Places(results, g)) \in Nat
  <2>1. Places(results, g) \subseteq 1 .. Len(results) /\ Len(results) \in Nat
    BY DEF Places, TestTypeOK
  <2>2. IsFiniteSet(1 .. Len(results))
    BY <2>1, FS_Interval
  <2> QED
    BY <2>1, <2>2, FS_Subset, FS_CardinalityType
<1> QED
  BY <1>1, <1>2, <1>3 DEF Due

LEMMA DueNext == TestTypeOK' => \A g \in GroupIds : Due(g)' \in Nat
<1> DEFINE D == \A g \in GroupIds : Due(g) \in Nat
<1>1. TestTypeOK => D
  BY DueIsNat
<1> HIDE DEF D
<1>2. TestTypeOK' => D'
  BY <1>1, PTL
<1> QED
  BY <1>2 DEF D

\* A test is queued, ends, and its result is handled: what that does to the count.
LEMMA DueStays ==
  ASSUME results' = results, \A p \in All : Outstanding(p)' <=> Outstanding(p)
  PROVE  \A g \in GroupIds : Due(g)' = Due(g)
<1> SUFFICES ASSUME NEW g \in GroupIds PROVE Due(g)' = Due(g)
  OBVIOUS
<1>1. Under(g)' = Under(g)
  BY GroupsApart DEF Under
<1>2. Places(results, g)' = Places(results, g)
  BY DEF Places
<1> QED
  BY <1>1, <1>2 DEF Due

LEMMA DueGrows ==
  ASSUME TestTypeOK, TestTypeOK', results' = results, NEW q \in All, ~Outstanding(q),
         \A p \in All : Outstanding(p)' <=> Outstanding(p) \/ p = q
  PROVE  \A g \in GroupIds : Due(g)' >= Due(g) /\ (q \in Members(g) => Due(g)' = Due(g) + 1)
<1> SUFFICES ASSUME NEW g \in GroupIds PROVE Due(g)' >= Due(g) /\ (q \in Members(g) => Due(g)' = Due(g) + 1)
  OBVIOUS
<1>1. /\ Cardinality(Under(g)) \in Nat /\ IsFiniteSet(Under(g)) /\ Cardinality(Places(results, g)) \in Nat
      /\ q \notin Under(g)
  BY DueIsNat DEF Under
<1>2. Cardinality(Places(results, g)') = Cardinality(Places(results, g))
  BY DEF Places
<1>3. CASE q \in Members(g)
  <2>1. Under(g)' = Under(g) \cup {q}
    BY <1>3, GroupsApart DEF Under
  <2>2. Cardinality(Under(g)') = Cardinality(Under(g)) + 1
    BY <1>1, <2>1, FS_AddElement
  <2> QED
    BY <1>1, <1>2, <2>2 DEF Due
<1>4. CASE q \notin Members(g)
  <2>1. Under(g)' = Under(g)
    BY <1>4, GroupsApart DEF Under
  <2> QED
    BY <1>1, <1>2, <1>4, <2>1 DEF Due
<1> QED
  BY <1>3, <1>4

LEMMA DueMoves ==
  ASSUME TestTypeOK, TestTypeOK', NEW q \in All, Outstanding(q), results' = Append(results, q),
         \A p \in All : Outstanding(p)' <=> Outstanding(p) /\ p # q
  PROVE  \A g \in GroupIds : Due(g)' >= Due(g)
<1> SUFFICES ASSUME NEW g \in GroupIds PROVE Due(g)' >= Due(g)
  OBVIOUS
<1>1. Cardinality(Under(g)) \in Nat /\ IsFiniteSet(Under(g)) /\ Cardinality(Places(results, g)) \in Nat
  BY DueIsNat
<1>2. /\ Cardinality(Places(results, g)') \in Nat
      /\ Cardinality(Places(results, g)') >= Cardinality(Places(results, g))
      /\ q \in Members(g) => Cardinality(Places(results, g)') = Cardinality(Places(results, g)) + 1
  <2>1. Places(results, g)' = Places(Append(results, q), g)
    BY DEF Places
  <2>2. results \in Seq(All)
    BY DEF TestTypeOK
  <2> QED
    BY <2>1, <2>2, PlacesAppend
<1>3. CASE q \in Members(g)
  <2>1. Under(g)' = Under(g) \ {q} /\ q \in Under(g)
    BY <1>3, GroupsApart DEF Under
  <2>2. Cardinality(Under(g)') = Cardinality(Under(g)) - 1
    BY <1>1, <2>1, FS_RemoveElement
  <2> QED
    BY <1>1, <1>2, <1>3, <2>2 DEF Due
<1>4. CASE q \notin Members(g)
  <2>1. Under(g)' = Under(g)
    BY <1>4, GroupsApart DEF Under
  <2> QED
    BY <1>1, <1>2, <2>1 DEF Due
<1> QED
  BY <1>3, <1>4

LEMMA DueHandled ==
  ASSUME TestTypeOK, results # <<>>, results' = Tail(results), \A p \in All : Outstanding(p)' <=> Outstanding(p)
  PROVE  \A g \in GroupIds : Due(g) = Due(g)' + (IF GroupOf(Head(results)) = g THEN 1 ELSE 0)
<1> SUFFICES ASSUME NEW g \in GroupIds PROVE Due(g) = Due(g)' + (IF GroupOf(Head(results)) = g THEN 1 ELSE 0)
  OBVIOUS
<1>0. results \in Seq(All) /\ Head(results) \in All
  BY DEF TestTypeOK
<1>1. Cardinality(Under(g)) \in Nat /\ Cardinality(Under(g)') = Cardinality(Under(g))
  BY DueIsNat, GroupsApart DEF Under
<1>2. /\ Cardinality(Places(results, g)) \in Nat /\ Cardinality(Places(results, g)') \in Nat
      /\ Cardinality(Places(results, g)) = Cardinality(Places(results, g)') + (IF Head(results) \in Members(g) THEN 1 ELSE 0)
  <2>1. Places(results, g)' = Places(Tail(results), g)
    BY DEF Places
  <2> QED
    BY <1>0, <2>1, PlacesTail
<1>3. Head(results) \in Members(g) <=> GroupOf(Head(results)) = g
  BY <1>0, GroupsApart
<1>4. CASE Head(results) \in Members(g)
  BY <1>1, <1>2, <1>3, <1>4 DEF Due
<1>5. CASE Head(results) \notin Members(g)
  BY <1>1, <1>2, <1>3, <1>5 DEF Due
<1> QED
  BY <1>4, <1>5

\* What each part of the invariant depends on.
LEMMA KeepBatch ==
  ASSUME BatchInv, UNCHANGED handler PROVE BatchInv'
  BY DEF BatchInv

LEMMA KeepOnce ==
  ASSUME OnceInv, \A h \in {"client", "refresh"} : handler'[h].hold = handler[h].hold,
         UNCHANGED <<inFlight, channel, taken, running>>
  PROVE  OnceInv'
<1>1. \A p : Inside(p)' <=> Inside(p)
  BY DEF Inside
<1> QED
  BY <1>1 DEF OnceInv, Apart

LEMMA KeepCount ==
  ASSUME TestTypeOK, CountInv, TestTypeOK', UNCHANGED progress,
         Spoiled => Spoiled',
         \A g \in GroupIds : Due(g)' >= Due(g),
         ~Spoiled' => \A h \in {"client", "refresh"} : Sound(h)'
  PROVE  CountInv'
<1> SUFFICES ASSUME ~Spoiled' PROVE CountInv'
  BY DEF CountInv
<1>1. ASSUME NEW g \in GroupIds PROVE Covered(g)'
  <2>1. Due(g) \in Nat /\ Due(g)' \in Nat /\ Due(g)' >= Due(g)
    BY DueIsNat, DueNext
  <2>2. progress[g] \in [on : BOOLEAN, tested : Nat, total : Nat]
    BY DEF TestTypeOK
  <2>3. progress[g].on => progress[g].total <= progress[g].tested + Due(g)
    BY DEF CountInv, Covered
  <2> QED
    BY <2>1, <2>2, <2>3 DEF Covered
<1> QED
  BY <1>1 DEF CountInv

LEMMA KeepBar ==
  ASSUME TestTypeOK, BarTrue, TestTypeOK', UNCHANGED <<events, bar>>,
         Spoiled => Spoiled',
         \A g \in GroupIds : Due(g)' >= Due(g) /\ (progress[g].on => progress'[g].on)
  PROVE  BarTrue'
<1> SUFFICES ASSUME ~Spoiled' PROVE BarTrue'
  BY DEF BarTrue
<1>1. ASSUME NEW g \in GroupIds, Live(g) PROVE Live(g)'
  <2>1. Due(g) \in Nat /\ Due(g)' \in Nat /\ Due(g)' >= Due(g)
    BY DueIsNat, DueNext
  <2> QED
    BY <1>1, <2>1 DEF Live
<1> QED
  BY <1>1 DEF BarTrue

LEMMA SoundKept ==
  ASSUME NEW h \in {"client", "refresh"}, Sound(h), TestTypeOK, TestTypeOK',
         \A g \in GroupIds : Due(g)' >= Due(g) /\ (progress[g].on => progress'[g].on),
         handler'[h].whole => /\ handler[h].whole /\ handler'[h].g = handler[h].g /\ handler'[h].total = handler[h].total
                              /\ handler'[h].pc = "send" => handler[h].pc = "send"
  PROVE  Sound(h)'
<1> SUFFICES ASSUME NEW g \in GroupIds, handler'[h].whole, handler'[h].g = g
             PROVE  /\ handler'[h].total <= Due(g)'
                    /\ handler'[h].pc = "send" => progress'[g].on
  BY DEF Sound
<1>1. Due(g) \in Nat /\ Due(g)' \in Nat /\ Due(g)' >= Due(g)
  BY DueIsNat, DueNext
<1>2. handler[h].total <= Due(g) /\ (handler[h].pc = "send" => progress[g].on)
  BY DEF Sound
<1>3. handler[h].total \in Nat
  BY DEF TestTypeOK, Queuing
<1> QED
  BY <1>1, <1>2, <1>3

\* A goroutine begins with a batch or is done with it.
LEMMA NewBatch ==
  ASSUME TestInv, BatchInv, OnceInv, NEW h \in {"client", "refresh"}, NEW m \in Queuing,
         handler' = [handler EXCEPT ![h] = m], m.hold = 0, handler[h].hold = 0,
         m.pc = "send" => m.whole, m.whole => ToSet(m.todo) \subseteq Members(m.g),
         UNCHANGED <<inFlight, channel, taken, running, results>>
  PROVE  /\ BatchInv' /\ OnceInv' /\ \A g \in GroupIds : Due(g)' = Due(g)
         /\ handler'[h] = m /\ \A k \in {"client", "refresh"} : k # h => handler'[k] = handler[k]
<1>1. \A k \in {"client", "refresh"} : handler'[k] = IF k = h THEN m ELSE handler[k]
  BY DEF TestInv, TestTypeOK
<1>2. BatchInv'
  BY <1>1 DEF BatchInv
<1>3. OnceInv'
  BY <1>1, KeepOnce
<1>4. \A g \in GroupIds : Due(g)' = Due(g)
  BY DueStays DEF Outstanding
<1> QED
  BY <1>1, <1>2, <1>3, <1>4

LEMMA BarBatch == BarInv /\ TestInv' /\ RunTestBatch => BarInv'
<1> SUFFICES ASSUME BarInv, TestInv', RunTestBatch PROVE BarInv'
  OBVIOUS
<1> USE DEF BarInv
<1>1. UNCHANGED <<inFlight, channel, taken, running, results, progress, handler, events, bar, excuse>>
  BY DEF RunTestBatch, coreVars
<1>2. \A g \in GroupIds : Due(g)' = Due(g) /\ Due(g) \in Nat
  BY <1>1, DueStays, DueIsNat DEF Outstanding, TestInv
<1>3. BatchInv' /\ OnceInv'
  BY <1>1, KeepBatch, KeepOnce
<1>4. CountInv'
  BY <1>1, <1>2 DEF CountInv, Spoiled, Sound, Covered
<1>5. BarTrue'
  BY <1>1, <1>2 DEF BarTrue, Spoiled, Live
<1> QED
  BY <1>3, <1>4, <1>5

LEMMA BarCancel == BarInv /\ TestInv' /\ CancelTests => BarInv'
<1> SUFFICES ASSUME BarInv, TestInv', CancelTests PROVE BarInv'
  OBVIOUS
<1> USE DEF BarInv
<1>1. UNCHANGED <<inFlight, channel, taken, running, handler>>
  BY DEF CancelTests, coreVars
<1>2. BatchInv' /\ OnceInv'
  BY <1>1, KeepBatch, KeepOnce
<1>3. excuse'.cancelled
  BY DEF CancelTests, TestInv, TestTypeOK
<1> QED
  BY <1>2, <1>3 DEF CountInv, BarTrue, Spoiled

LEMMA BarApply == BarInv /\ TestInv' /\ ApplyEvent => BarInv'
<1> SUFFICES ASSUME BarInv, TestInv', ApplyEvent PROVE BarInv'
  OBVIOUS
<1> USE DEF BarInv
<1>0. PICK e : e = Head(events)
  OBVIOUS
<1>1. /\ UNCHANGED <<inFlight, channel, taken, running, results, progress, handler, excuse>>
      /\ events # <<>> /\ events' = Tail(events)
      /\ bar' = IF e.k = "updated" THEN bar ELSE ApplyProgress(e)
  BY <1>0 DEF ApplyEvent, coreVars
<1>2. \A g \in GroupIds : Due(g)' = Due(g) /\ Due(g) \in Nat
  BY <1>1, DueStays, DueIsNat DEF Outstanding, TestInv
<1>3. BatchInv' /\ OnceInv'
  BY <1>1, KeepBatch, KeepOnce
<1>4. CountInv'
  BY <1>1, <1>2 DEF CountInv, Spoiled, Sound, Covered
<1>5. \A g \in GroupIds : Live(g) => Live(g)'
  BY <1>1, <1>2 DEF Live
<1>6. events \in Seq(Event) /\ e \in Event
  BY <1>0, <1>1 DEF TestInv, TestTypeOK
<1>7. /\ \A x : LastNews(events', x) => LastNews(events, x)
      /\ NoNews(events') => IF e.k = "progress" THEN LastNews(events, e) ELSE NoNews(events)
  BY <1>0, <1>1, <1>6, TailNews
<1>8. ASSUME ~Spoiled', NoNews(events'), bar' # NoBar PROVE \E g \in GroupIds : bar'.g = g /\ Live(g)'
  <2>0. ~Spoiled
    BY <1>1, <1>8 DEF Spoiled
  <2>1. CASE e.k = "progress"
    <3>1. e.k # "updated" /\ e.tested \in Nat /\ e.total \in Nat
      BY <1>6, <2>1 DEF Event
    <3>2. bar' = ApplyProgress(e)
      BY <1>1, <3>1
    <3>3. ~(e.total = 0 \/ e.tested >= e.total) /\ bar' = [g |-> e.g, tested |-> e.tested, total |-> e.total]
      BY <1>8, <3>2 DEF ApplyProgress
    <3>4. e.tested < e.total /\ bar'.g = e.g
      BY <3>1, <3>3
    <3>5. e.g \in GroupIds /\ Live(e.g)
      BY <1>6, <1>7, <1>8, <2>0, <2>1, <3>4 DEF BarTrue
    <3> QED
      BY <1>5, <3>4, <3>5
  <2>2. CASE e.k # "progress"
    <3>1. e.k = "updated"
      BY <1>6, <2>2 DEF Event
    <3>2. NoNews(events) /\ bar' = bar
      BY <1>1, <1>7, <1>8, <2>2, <3>1
    <3> QED
      BY <1>5, <1>8, <2>0, <3>2 DEF BarTrue
  <2> QED
    BY <2>1, <2>2
<1>9. BarTrue'
  BY <1>1, <1>5, <1>7, <1>8 DEF BarTrue, Spoiled
<1> QED
  BY <1>3, <1>4, <1>9

LEMMA BarRequest == BarInv /\ TestInv' /\ TakeRequest => BarInv'
<1> SUFFICES ASSUME BarInv, TestInv', TakeRequest PROVE BarInv'
  OBVIOUS
<1> USE DEF BarInv
<1>0. PICK r : r = Head(requests)
  OBVIOUS
<1>1. /\ UNCHANGED <<inFlight, channel, taken, running, results, progress, events, bar, excuse>>
      /\ handler["client"].pc = "idle" /\ requests # <<>>
  BY DEF TakeRequest
<1>2. \A g \in GroupIds : Due(g)' = Due(g) /\ Due(g) \in Nat
  BY <1>1, DueStays, DueIsNat DEF Outstanding, TestInv
<1>3. handler["client"].hold = 0 /\ r \in Command
  BY <1>0, <1>1 DEF TestInv, HandlerInv, TestTypeOK
<1>4. BarTrue'
  BY <1>1, <1>2 DEF BarTrue, Spoiled, Live
<1>5. CASE UNCHANGED handler
  BY <1>1, <1>2, <1>4, <1>5, KeepBatch, KeepOnce DEF CountInv, Spoiled, Sound, Covered
<1>6. ASSUME NEW m \in Queuing, handler' = [handler EXCEPT !["client"] = m],
             m.hold = 0, m.pc = "queue", m.total = 0, m.whole => ToSet(m.todo) \subseteq Members(m.g)
      PROVE  BarInv'
  <2>1. /\ BatchInv' /\ OnceInv' /\ handler'["client"] = m
        /\ \A k \in {"client", "refresh"} : k # "client" => handler'[k] = handler[k]
    BY <1>1, <1>3, <1>6, NewBatch
  <2>2. ~Spoiled => Sound("client")' /\ Sound("refresh")'
    BY <1>1, <1>2, <1>6, <2>1 DEF CountInv, Sound
  <2>3. CountInv'
    BY <1>1, <1>2, <2>2 DEF CountInv, Spoiled, Covered
  <2> QED
    BY <1>4, <2>1, <2>3
<1>7. CASE r.k = "profile" /\ handler' = [handler EXCEPT !["client"] = [Resting EXCEPT !.pc = "queue", !.todo = <<r.p>>, !.ep = epoch]]
  <2>1. PICK m : m = [Resting EXCEPT !.pc = "queue", !.todo = <<r.p>>, !.ep = epoch]
    OBVIOUS
  <2>2. r.p \in All /\ epoch \in Nat
    BY <1>3, <1>7 DEF Command, TestInv, TestTypeOK
  <2>3. <<r.p>> \in Seq(All)
    BY <2>2
  <2>4. m \in Queuing /\ m.hold = 0 /\ m.pc = "queue" /\ m.total = 0 /\ ~m.whole
    BY <2>1, <2>2, <2>3 DEF Queuing, Resting
  <2> QED
    BY <1>6, <1>7, <2>1, <2>4
<1>8. CASE /\ r.k = "group"
           /\ handler' = [handler EXCEPT !["client"] = [Resting EXCEPT !.pc = "queue", !.g = r.g, !.todo = TestGroups[r.g],
                                                                        !.ep = epoch, !.whole = TRUE]]
  <2>1. PICK m : m = [Resting EXCEPT !.pc = "queue", !.g = r.g, !.todo = TestGroups[r.g], !.ep = epoch, !.whole = TRUE]
    OBVIOUS
  <2>2. r.g \in GroupIds /\ epoch \in Nat
    BY <1>3, <1>8 DEF Command, TestInv, TestTypeOK
  <2>3. TestGroups[r.g] \in Seq(All) /\ ToSet(TestGroups[r.g]) = Members(r.g) /\ r.g \in Nat
    BY <2>2, Profiles0
  <2>4. /\ m \in Queuing /\ m.hold = 0 /\ m.pc = "queue" /\ m.total = 0
        /\ m.todo = TestGroups[r.g] /\ m.g = r.g
    BY <2>1, <2>2, <2>3 DEF Queuing, Resting
  <2> QED
    BY <1>6, <1>8, <2>1, <2>3, <2>4
<1> QED
  BY <1>0, <1>5, <1>7, <1>8 DEF TakeRequest

LEMMA BarRefresh == BarInv /\ TestInv' /\ RefreshTests => BarInv'
<1> SUFFICES ASSUME BarInv, TestInv', RefreshTests PROVE BarInv'
  OBVIOUS
<1> USE DEF BarInv
<1>1. /\ UNCHANGED <<inFlight, channel, taken, running, results, progress, events, bar, excuse>>
      /\ handler["refresh"].pc = "idle"
  BY DEF RefreshTests
<1>2. \A g \in GroupIds : Due(g)' = Due(g) /\ Due(g) \in Nat
  BY <1>1, DueStays, DueIsNat DEF Outstanding, TestInv
<1>3. handler["refresh"].hold = 0
  BY <1>1 DEF TestInv, HandlerInv
<1>4. PICK q \in GroupIds :
        handler' = [handler EXCEPT !["refresh"] = [Resting EXCEPT !.pc = "queue", !.g = q, !.todo = TestGroups[q], !.ep = epoch, !.whole = TRUE]]
  BY DEF RefreshTests
<1>5. PICK m : m = [Resting EXCEPT !.pc = "queue", !.g = q, !.todo = TestGroups[q], !.ep = epoch, !.whole = TRUE]
  OBVIOUS
<1>6. TestGroups[q] \in Seq(All) /\ ToSet(TestGroups[q]) = Members(q) /\ q \in Nat /\ epoch \in Nat
  BY Profiles0 DEF TestInv, TestTypeOK
<1>7. /\ m \in Queuing /\ m.hold = 0 /\ m.pc = "queue" /\ m.total = 0
      /\ m.todo = TestGroups[q] /\ m.g = q
  BY <1>5, <1>6 DEF Queuing, Resting
<1>8. /\ BatchInv' /\ OnceInv' /\ handler'["refresh"] = m
      /\ \A k \in {"client", "refresh"} : k # "refresh" => handler'[k] = handler[k]
  BY <1>1, <1>3, <1>4, <1>5, <1>6, <1>7, NewBatch
<1>9. ~Spoiled => Sound("client")' /\ Sound("refresh")'
  BY <1>1, <1>2, <1>7, <1>8 DEF CountInv, Sound
<1>10. CountInv'
  BY <1>1, <1>2, <1>9 DEF CountInv, Spoiled, Covered
<1>11. BarTrue'
  BY <1>1, <1>2 DEF BarTrue, Spoiled, Live
<1> QED
  BY <1>8, <1>10, <1>11

LEMMA BarTry == ASSUME NEW h \in {"client", "refresh"}, BarInv, TestInv', TryEnqueue(h) PROVE BarInv'
<1> USE DEF BarInv
<1>0. PICK p : p = Head(handler[h].todo)
  OBVIOUS
<1>1. /\ handler[h].pc = "queue" /\ handler[h].hold = 0 /\ handler[h].todo # <<>>
      /\ UNCHANGED <<channel, taken, running, results, progress, events, bar>>
  BY DEF TryEnqueue
<1>2. handler[h] \in Queuing /\ handler[h].todo \in Seq(All)
  BY DEF TestInv, TestTypeOK, Queuing
<1>3. p \in All /\ Tail(handler[h].todo) \in Seq(All) /\ ToSet(handler[h].todo) = {p} \cup ToSet(Tail(handler[h].todo))
  BY <1>0, <1>1, <1>2, SetOfTail
<1>4. PICK x : /\ handler' = [handler EXCEPT ![h].todo = Tail(@), ![h].hold = x]
               /\ \/ p \in inFlight /\ x = 0 /\ inFlight' = inFlight
                  \/ p \notin inFlight /\ x = p /\ inFlight' = inFlight \cup {p}
  <2>1. CASE p \in inFlight
    <3>1. handler' = [handler EXCEPT ![h].todo = Tail(@)] /\ inFlight' = inFlight
      BY <1>0, <2>1 DEF TryEnqueue
    <3>2. [handler EXCEPT ![h].todo = Tail(@)] = [handler EXCEPT ![h].todo = Tail(@), ![h].hold = 0]
      BY <1>1 DEF TestInv, TestTypeOK, Queuing
    <3> QED
      BY <2>1, <3>1, <3>2
  <2>2. CASE p \notin inFlight
    BY <1>0, <2>2 DEF TryEnqueue
  <2> QED
    BY <2>1, <2>2
<1>5. \A k \in {"client", "refresh"} :
        /\ handler'[k].pc = handler[k].pc /\ handler'[k].whole = handler[k].whole /\ handler'[k].g = handler[k].g
        /\ handler'[k].total = handler[k].total
        /\ handler'[k].hold = IF k = h THEN x ELSE handler[k].hold
        /\ handler'[k].todo = IF k = h THEN Tail(handler[k].todo) ELSE handler[k].todo
  BY <1>4 DEF TestInv, TestTypeOK, Queuing
<1>6. \A g \in GroupIds : Due(g)' = Due(g) /\ Due(g) \in Nat
  BY <1>1, DueStays, DueIsNat DEF Outstanding, TestInv
<1>7. Spoiled' = Spoiled
  BY DEF TryEnqueue, Spoiled, TestInv, TestTypeOK
<1>8. BatchInv'
  <2>1. handler[h].whole => p \in Members(handler[h].g) /\ ToSet(Tail(handler[h].todo)) \subseteq Members(handler[h].g)
    BY <1>3 DEF BatchInv
  <2>2. handler[h].whole => x \in Members(handler[h].g) \cup {0}
    BY <1>4, <2>1
  <2>3. ASSUME NEW k \in {"client", "refresh"}
        PROVE  /\ handler'[k].whole => ToSet(handler'[k].todo) \subseteq Members(handler'[k].g) /\ handler'[k].hold \in Members(handler'[k].g) \cup {0}
               /\ handler'[k].pc = "send" => handler'[k].whole
    <3>1. CASE k = h
      BY <1>1, <1>5, <2>1, <2>2, <3>1
    <3>2. CASE k # h
      BY <1>5, <3>2 DEF BatchInv
    <3> QED
      BY <3>1, <3>2
  <2> QED
    BY <2>3 DEF BatchInv
<1>9. OnceInv'
  <2>1. \A q : Inside(q)' <=> Inside(q)
    BY <1>1 DEF Inside
  <2>2. Inside(p) => p \in inFlight
    <3>1. p # 0
      BY <1>3, Profiles0
    <3> QED
      BY <3>1 DEF OnceInv, Inside, NoReq
  <2>3. \A k \in {"client", "refresh"} : handler[k].hold # 0 => handler[k].hold \in inFlight
    BY DEF OnceInv
  <2>4. \A k \in {"client", "refresh"} : handler'[k].hold # 0 =>
          /\ handler'[k].hold \in inFlight' /\ ~Inside(handler'[k].hold)
          /\ \A j \in {"client", "refresh"} : j # k => handler'[j].hold # handler'[k].hold
    BY <1>1, <1>4, <1>5, <2>2, <2>3 DEF OnceInv
  <2>5. \A k \in {"client", "refresh"} : handler'[k].hold # 0 =>
          /\ handler'[k].hold \in inFlight' /\ ~Inside(handler[k].hold)'
          /\ \A j \in {"client", "refresh"} : j # k => handler'[j].hold # handler'[k].hold
    BY <1>1, <2>4 DEF Inside
  <2>6. inFlight \subseteq inFlight'
    BY <1>4
  <2> QED
    BY <1>1, <2>5, <2>6 DEF OnceInv, Apart
<1>10. ~Spoiled => Sound("client")' /\ Sound("refresh")'
  BY <1>1, <1>5, <1>6, SoundKept DEF CountInv, TestInv
<1>11. CountInv'
  BY <1>1, <1>6, <1>7, <1>10 DEF CountInv, Covered
<1>12. BarTrue'
  BY <1>1, <1>6, <1>7 DEF BarTrue, Live
<1> QED
  BY <1>8, <1>9, <1>11, <1>12

LEMMA BarEnqueue == ASSUME NEW h \in {"client", "refresh"}, BarInv, TestInv', Enqueue(h) PROVE BarInv'
<1> USE DEF BarInv
<1>0. PICK p, r : p = handler[h].hold /\ r = [p |-> p, ep |-> handler[h].ep]
  OBVIOUS
<1>1. /\ p # 0 /\ channel' = Append(channel, r)
      /\ handler' = [handler EXCEPT ![h].hold = 0, ![h].total = @ + 1]
      /\ UNCHANGED <<inFlight, taken, running, results, progress, events, bar, excuse>>
  BY <1>0 DEF Enqueue
<1>2. handler[h] \in Queuing /\ p \in All /\ r \in Request /\ r.p = p
  BY <1>0, <1>1 DEF TestInv, TestTypeOK, Queuing, Request
<1>3. /\ channel \in Seq(Request) /\ channel' \in Seq(Request) /\ ToSet(channel') = ToSet(channel) \cup {r}
  BY <1>1, <1>2, SetOfAppend DEF TestInv, TestTypeOK
<1>4. PICK n \in Nat : n = handler[h].total /\ n + 1 \in Nat
  BY <1>2 DEF Queuing
<1>5. \A k \in {"client", "refresh"} :
        /\ handler'[k].pc = handler[k].pc /\ handler'[k].whole = handler[k].whole /\ handler'[k].g = handler[k].g
        /\ handler'[k].total = IF k = h THEN n + 1 ELSE handler[k].total
        /\ handler'[k].hold = IF k = h THEN 0 ELSE handler[k].hold
        /\ handler'[k].todo = handler[k].todo
  BY <1>1, <1>4 DEF TestInv, TestTypeOK, Queuing
<1>6. p \in inFlight /\ ~Inside(p) /\ \A k \in {"client", "refresh"} : k # h => handler[k].hold # p
  BY <1>0, <1>1 DEF OnceInv
<1>7. \A q : Inside(q)' <=> Inside(q) \/ q = p
  BY <1>1, <1>2, <1>3 DEF Inside
<1>8. ~Outstanding(p) /\ \A q \in All : Outstanding(q)' <=> Outstanding(q) \/ q = p
  BY <1>1, <1>2, <1>3, <1>6 DEF Outstanding, Inside
<1>9. \A g \in GroupIds : /\ Due(g) \in Nat /\ Due(g)' \in Nat /\ Due(g)' >= Due(g)
                          /\ p \in Members(g) => Due(g)' = Due(g) + 1
  BY <1>1, <1>2, <1>8, DueGrows, DueIsNat, DueNext DEF TestInv
<1>10. BatchInv'
  BY <1>5 DEF BatchInv
<1>11. OnceInv'
  <2>1. \A q \in ToSet(channel) : q.p # p
    BY <1>6 DEF Inside
  <2>2. Apart(channel')
    <3>1. DOMAIN channel' = 1 .. Len(channel) + 1 /\ DOMAIN channel = 1 .. Len(channel) /\ Len(channel) \in Nat
      BY <1>1, <1>2, <1>3
    <3>2. channel'[Len(channel) + 1] = r /\ \A i \in 1 .. Len(channel) : channel'[i] = channel[i]
      BY <1>1, <1>2, <1>3
    <3>3. \A i \in 1 .. Len(channel) + 1 : i \in 1 .. Len(channel) \/ i = Len(channel) + 1
      BY <3>1
    <3>4. \A i \in 1 .. Len(channel) : channel[i].p # p
      BY <2>1, <3>1 DEF ToSet
    <3>5. \A i, j \in 1 .. Len(channel) : channel[i].p = channel[j].p => i = j
      BY <3>1 DEF OnceInv, Apart
    <3> QED
      BY <1>2, <3>1, <3>2, <3>3, <3>4, <3>5 DEF Apart
  <2>3. /\ taken.p # p /\ \A t \in running : t.p # p
    BY <1>6 DEF Inside
  <2>4. \A q \in ToSet(channel') : q.p \in inFlight' /\ q.p # taken'.p /\ \A t \in running' : t.p # q.p
    BY <1>1, <1>2, <1>3, <1>6, <2>3 DEF OnceInv
  <2>5. \A k \in {"client", "refresh"} : handler'[k].hold # 0 =>
          /\ handler'[k].hold \in inFlight' /\ ~Inside(handler[k].hold)'
          /\ \A j \in {"client", "refresh"} : j # k => handler'[j].hold # handler'[k].hold
    <3> SUFFICES ASSUME NEW k \in {"client", "refresh"}, handler'[k].hold # 0
                 PROVE  /\ handler'[k].hold \in inFlight' /\ ~Inside(handler[k].hold)'
                        /\ \A j \in {"client", "refresh"} : j # k => handler'[j].hold # handler'[k].hold
      OBVIOUS
    <3>1. k # h /\ handler'[k].hold = handler[k].hold
      BY <1>5
    <3>2. PICK q : q = handler[k].hold
      OBVIOUS
    <3>3. q # 0 /\ q \in inFlight /\ ~Inside(q) /\ q # p
      BY <1>6, <3>1, <3>2 DEF OnceInv
    <3>4. ~Inside(q)'
      BY <1>7, <3>3
    <3>5. ~Inside(handler[k].hold)'
      BY <3>1, <3>2, <3>4 DEF Inside
    <3>6. \A j \in {"client", "refresh"} : j # k => handler'[j].hold # handler'[k].hold
      BY <1>5, <3>1, <3>2, <3>3 DEF OnceInv
    <3> QED
      BY <1>1, <3>1, <3>2, <3>3, <3>5, <3>6
  <2> QED
    BY <1>1, <2>2, <2>4, <2>5 DEF OnceInv
<1>12. ASSUME ~Spoiled PROVE Sound("client")' /\ Sound("refresh")'
  <2>1. ASSUME NEW k \in {"client", "refresh"}, k # h PROVE Sound(k)'
    BY <1>1, <1>5, <1>9, <1>12, <2>1, SoundKept DEF CountInv, TestInv
  <2>2. ASSUME NEW g \in GroupIds, handler'[h].whole, handler'[h].g = g
        PROVE  handler'[h].total <= Due(g)' /\ (handler'[h].pc = "send" => progress'[g].on)
    <3>1. handler[h].whole /\ handler[h].g = g /\ p \in Members(g)
      BY <1>0, <1>1, <1>5, <2>2 DEF BatchInv
    <3>2. n <= Due(g) /\ (handler[h].pc = "send" => progress[g].on)
      BY <1>4, <1>12, <3>1 DEF CountInv, Sound
    <3>3. handler'[h].total = n + 1 /\ handler'[h].pc = handler[h].pc /\ progress' = progress
      BY <1>1, <1>5
    <3>4. n + 1 <= Due(g)'
      BY <1>4, <1>9, <3>1, <3>2
    <3> QED
      BY <3>2, <3>3, <3>4
  <2>3. Sound(h)'
    BY <2>2 DEF Sound
  <2> QED
    BY <2>1, <2>3
<1>13. Spoiled' = Spoiled
  BY <1>1 DEF Spoiled
<1>14. CountInv'
  BY <1>1, <1>9, <1>12, <1>13, KeepCount DEF TestInv
<1>15. BarTrue'
  BY <1>1, <1>9, <1>13, KeepBar DEF TestInv
<1> QED
  BY <1>10, <1>11, <1>14, <1>15

LEMMA BarSeed == ASSUME NEW h \in {"client", "refresh"}, BarInv, TestInv', SeedTestProgress(h) PROVE BarInv'
<1> USE DEF BarInv
<1>0. PICK m : m = IF handler[h].whole /\ h = "client" THEN [handler[h] EXCEPT !.pc = "send"] ELSE Resting
  OBVIOUS
<1>1. /\ handler[h].pc = "queue" /\ handler[h].hold = 0 /\ handler[h].todo = <<>>
      /\ UNCHANGED <<inFlight, channel, taken, running, results, events, bar, excuse>>
  BY DEF SeedTestProgress
<1>2. handler[h] \in Queuing /\ handler[h].total \in Nat
  BY DEF TestInv, TestTypeOK, Queuing
<1>3. /\ m \in Queuing /\ m.hold = 0 /\ m.todo = <<>> /\ m.pc # "queue"
      /\ m.whole => handler[h].whole /\ m.g = handler[h].g /\ m.total = handler[h].total
      /\ m.pc = "send" => m.whole
  BY <1>0, <1>1, <1>2 DEF Queuing, Resting
<1>4. handler' = [handler EXCEPT ![h] = m]
  BY <1>0 DEF SeedTestProgress
<1>5. ToSet(m.todo) = {}
  BY <1>3 DEF ToSet
<1>6. /\ BatchInv' /\ OnceInv' /\ \A g \in GroupIds : Due(g)' = Due(g)
      /\ handler'[h] = m /\ \A k \in {"client", "refresh"} : k # h => handler'[k] = handler[k]
  BY <1>1, <1>3, <1>4, <1>5, NewBatch
<1>7. Spoiled' = Spoiled
  BY <1>1 DEF Spoiled
<1>8. PICK b : b = handler[h].g
  OBVIOUS
<1>9. \A g \in GroupIds : Due(g) \in Nat
  BY DueIsNat DEF TestInv
<1>10. CASE ~handler[h].whole
  <2>1. progress' = progress /\ ~m.whole
    BY <1>3, <1>10 DEF SeedTestProgress
  <2>2. ASSUME ~Spoiled, NEW k \in {"client", "refresh"} PROVE Sound(k)'
    <3>1. CASE k = h
      BY <1>6, <2>1, <3>1 DEF Sound
    <3>2. CASE k # h
      BY <1>6, <1>9, <2>1, <2>2, <3>2, SoundKept DEF CountInv, TestInv
    <3> QED
      BY <3>1, <3>2
  <2>3. CountInv'
    BY <1>6, <1>7, <1>9, <2>1, <2>2, KeepCount DEF TestInv
  <2>4. BarTrue'
    BY <1>1, <1>6, <1>7, <1>9, <2>1, KeepBar DEF TestInv
  <2> QED
    BY <1>6, <2>3, <2>4
<1>11. CASE handler[h].whole
  <2>1. b \in GroupIds
    BY <1>8, <1>11 DEF TestInv, HandlerInv
  <2>2. PICK e : e = [on |-> TRUE, tested |-> 0, total |-> handler[h].total]
    OBVIOUS
  <2>3. progress' = [progress EXCEPT ![b] = e]
    BY <1>8, <1>11, <2>2 DEF SeedTestProgress
  <2>4. /\ e.on /\ e.tested = 0 /\ e.total = handler[h].total
        /\ \A g \in GroupIds : progress'[g] = IF g = b THEN e ELSE progress[g]
    BY <2>2, <2>3 DEF TestInv, TestTypeOK
  <2>5. \A g \in GroupIds : Due(g)' >= Due(g) /\ (progress[g].on => progress'[g].on)
    BY <1>6, <1>9, <2>4
  <2>6. ASSUME ~Spoiled, NEW k \in {"client", "refresh"} PROVE Sound(k)'
    <3>1. CASE k = h
      <4>1. Sound(h)
        BY <2>6 DEF CountInv
      <4>2. ASSUME NEW g \in GroupIds, handler'[h].whole, handler'[h].g = g
            PROVE  handler'[h].total <= Due(g)' /\ (handler'[h].pc = "send" => progress'[g].on)
        <5>1. handler[h].g = g /\ g = b /\ handler'[h].total = handler[h].total
          BY <1>3, <1>6, <1>8, <4>2
        <5>2. handler[h].total <= Due(g)
          BY <1>11, <4>1, <5>1 DEF Sound
        <5> QED
          BY <1>6, <2>4, <5>1, <5>2
      <4> QED
        BY <3>1, <4>2 DEF Sound
    <3>2. CASE k # h
      BY <1>6, <1>9, <2>5, <2>6, <3>2, SoundKept DEF CountInv, TestInv
    <3> QED
      BY <3>1, <3>2
  <2>7. ASSUME ~Spoiled, NEW g \in GroupIds PROVE Covered(g)'
    <3>1. CASE g = b
      <4>1. handler[h].total <= Due(g)
        BY <1>8, <1>11, <2>7, <3>1 DEF CountInv, Sound
      <4> QED
        BY <1>2, <1>6, <1>9, <2>4, <3>1, <4>1 DEF Covered
    <3>2. CASE g # b
      BY <1>6, <2>4, <2>7, <3>2 DEF CountInv, Covered
    <3> QED
      BY <3>1, <3>2
  <2>8. CountInv'
    BY <1>7, <2>6, <2>7 DEF CountInv
  <2>9. BarTrue'
    BY <1>1, <1>7, <2>5, KeepBar DEF TestInv
  <2> QED
    BY <1>6, <2>8, <2>9
<1> QED
  BY <1>10, <1>11

LEMMA BarSendSeed == BarInv /\ TestInv' /\ SendSeed => BarInv'
<1> SUFFICES ASSUME BarInv, TestInv', SendSeed PROVE BarInv'
  OBVIOUS
<1> USE DEF BarInv
<1>0. PICK c, e : c = handler["client"] /\ e = [k |-> "progress", g |-> c.g, tested |-> 0, total |-> c.total]
  OBVIOUS
<1>1. /\ c.pc = "send" /\ events' = Append(events, e)
      /\ handler' = [handler EXCEPT !["client"] = Resting]
      /\ UNCHANGED <<inFlight, channel, taken, running, results, progress, bar, excuse>>
  BY <1>0 DEF SendSeed
<1>2. c \in Queuing /\ c.whole /\ c.hold = 0 /\ c.g \in GroupIds
  BY <1>0, <1>1 DEF TestInv, TestTypeOK, BatchInv, HandlerInv
<1>3. e \in Event /\ e.k = "progress" /\ e.g = c.g /\ e.tested = 0 /\ e.total = c.total /\ c.total \in Nat
  BY <1>0, <1>2 DEF Queuing, Event
<1>4. Resting \in Queuing /\ Resting.hold = 0 /\ ~Resting.whole /\ Resting.pc # "send"
  BY DEF Resting, Queuing
<1>5. /\ BatchInv' /\ OnceInv' /\ \A g \in GroupIds : Due(g)' = Due(g)
      /\ handler'["client"] = Resting /\ handler'["refresh"] = handler["refresh"]
  BY <1>0, <1>1, <1>2, <1>4, NewBatch
<1>6. \A g \in GroupIds : Due(g) \in Nat
  BY DueIsNat DEF TestInv
<1>7. Spoiled' = Spoiled
  BY <1>1 DEF Spoiled
<1>8. Sound("client")'
  BY <1>4, <1>5 DEF Sound
<1>9. ~Spoiled => Sound("refresh")'
  BY <1>1, <1>5, <1>6, SoundKept DEF CountInv, TestInv
<1>10. CountInv'
  BY <1>1, <1>5, <1>6, <1>7, <1>8, <1>9, KeepCount DEF TestInv
<1>11. ~NoNews(events') /\ \A x : LastNews(events', x) => x = e
  <2>1. events \in Seq(Event)
    BY DEF TestInv, TestTypeOK
  <2> QED
    BY <1>1, <1>3, <2>1, AppendNews
<1>12. ASSUME ~Spoiled, e.tested < e.total PROVE e.g \in GroupIds /\ Live(e.g)'
  <2>1. PICK g \in GroupIds : g = c.g
    BY <1>2
  <2>2. c.total <= Due(g) /\ progress[g].on
    BY <1>0, <1>1, <1>2, <1>12, <2>1 DEF CountInv, Sound
  <2>3. Due(g)' >= 1 /\ progress'[g].on
    BY <1>1, <1>3, <1>5, <1>6, <1>12, <2>2
  <2>4. Live(g)'
    BY <2>3 DEF Live
  <2> QED
    BY <1>3, <2>1, <2>4
<1>13. BarTrue'
  BY <1>7, <1>11, <1>12 DEF BarTrue
<1> QED
  BY <1>5, <1>10, <1>13

LEMMA ApartTail ==
  ASSUME NEW s \in Seq(Request), s # <<>>, Apart(s)
  PROVE  Apart(Tail(s)) /\ \A q \in ToSet(Tail(s)) : q.p # Head(s).p
<1>1. /\ Head(s) = s[1] /\ Len(s) \in Nat \ {0}
      /\ DOMAIN s = 1 .. Len(s) /\ DOMAIN Tail(s) = 1 .. Len(s) - 1
  OBVIOUS
<1>2. \A i \in 1 .. Len(s) - 1 : Tail(s)[i] = s[i + 1] /\ i + 1 \in 1 .. Len(s) /\ i + 1 # 1
  BY <1>1
<1>3. \A i, j \in 1 .. Len(s) : s[i].p = s[j].p => i = j
  BY <1>1 DEF Apart
<1>4. ASSUME NEW i \in 1 .. Len(s) - 1, NEW j \in 1 .. Len(s) - 1, Tail(s)[i].p = Tail(s)[j].p PROVE i = j
  <2>1. i + 1 = j + 1
    BY <1>2, <1>3, <1>4
  <2> QED
    BY <1>1, <2>1
<1>5. ASSUME NEW i \in 1 .. Len(s) - 1 PROVE Tail(s)[i].p # Head(s).p
  <2>1. 1 \in 1 .. Len(s)
    BY <1>1
  <2> QED
    BY <1>1, <1>2, <1>3, <2>1
<1> QED
  BY <1>1, <1>4, <1>5 DEF Apart, ToSet

LEMMA BarTake == BarInv /\ TestInv' /\ TakeTest => BarInv'
<1> SUFFICES ASSUME BarInv, TestInv', TakeTest PROVE BarInv'
  OBVIOUS
<1> USE DEF BarInv
<1>0. PICK r : r = Head(channel)
  OBVIOUS
<1>1. /\ taken = NoReq /\ channel # <<>> /\ channel' = Tail(channel)
      /\ UNCHANGED <<running, results, progress, handler, events, bar, excuse>>
  BY DEF TakeTest
<1>2. /\ channel \in Seq(Request) /\ r \in Request /\ ToSet(channel) = {r} \cup ToSet(channel')
  BY <1>0, <1>1, SetOfTail DEF TestInv, TestTypeOK
<1>3. Apart(channel') /\ \A q \in ToSet(channel') : q.p # r.p
  BY <1>0, <1>1, <1>2, ApartTail DEF OnceInv
<1>4. BatchInv'
  BY <1>1, KeepBatch
<1>5. r.p \in All /\ r.p # 0 /\ r # NoReq
  BY <1>2, Profiles0 DEF Request, NoReq
<1>6. CASE Stale(r)
  <2>1. inFlight' = inFlight \ {r.p} /\ taken' = NoReq
    BY <1>0, <1>1, <1>6 DEF TakeTest
  <2>2. excuse.cancelled
    BY <1>2, <1>6 DEF TestInv, EpochInv, Stale
  <2>3. \A q : Inside(q)' => Inside(q)
    BY <1>1, <1>2, <2>1 DEF Inside
  <2>4. Inside(r.p)
    BY <1>2 DEF Inside
  <2>5. OnceInv'
    <3>1. \A k \in {"client", "refresh"} : handler[k].hold # 0 =>
            handler[k].hold \in inFlight' /\ ~Inside(handler[k].hold)'
      <4> SUFFICES ASSUME NEW k \in {"client", "refresh"}, handler[k].hold # 0
                   PROVE  handler[k].hold \in inFlight' /\ ~Inside(handler[k].hold)'
        OBVIOUS
      <4>1. PICK q : q = handler[k].hold
        OBVIOUS
      <4>2. q \in inFlight /\ ~Inside(q) /\ q # r.p
        BY <2>4, <4>1 DEF OnceInv
      <4>3. ~Inside(q)' /\ q \in inFlight'
        BY <2>1, <2>3, <4>2
      <4> QED
        BY <1>1, <4>1, <4>3 DEF Inside
    <3>2. \A q \in ToSet(channel') : q.p \in inFlight' /\ q.p # taken'.p /\ \A t \in running : t.p # q.p
      BY <1>1, <1>2, <1>3, <2>1 DEF OnceInv
    <3>3. \A t \in running : t.p \in inFlight'
      BY <1>2, <2>1 DEF OnceInv
    <3> QED
      BY <1>1, <1>3, <2>1, <3>1, <3>2, <3>3 DEF OnceInv
  <2> QED
    BY <1>1, <1>4, <2>2, <2>5 DEF CountInv, BarTrue, Spoiled
<1>7. CASE ~Stale(r)
  <2>1. inFlight' = inFlight /\ taken' = r
    BY <1>0, <1>7 DEF TakeTest
  <2>2. \A q : q # 0 => (Inside(q)' <=> Inside(q))
    BY <1>1, <1>2, <2>1 DEF Inside, NoReq
  <2>3. \A q \in All : Outstanding(q)' <=> Outstanding(q)
    BY <1>1, <1>2, <2>1, Profiles0 DEF Outstanding, NoReq
  <2>4. \A g \in GroupIds : Due(g)' = Due(g) /\ Due(g) \in Nat
    BY <1>1, <2>3, DueStays, DueIsNat DEF TestInv
  <2>5. OnceInv'
    <3>1. \A k \in {"client", "refresh"} : handler[k].hold # 0 =>
            handler[k].hold \in inFlight' /\ ~Inside(handler[k].hold)'
      <4> SUFFICES ASSUME NEW k \in {"client", "refresh"}, handler[k].hold # 0
                   PROVE  handler[k].hold \in inFlight' /\ ~Inside(handler[k].hold)'
        OBVIOUS
      <4>1. PICK q : q = handler[k].hold
        OBVIOUS
      <4>2. q \in inFlight /\ ~Inside(q) /\ q # 0
        BY <4>1 DEF OnceInv
      <4>3. ~Inside(q)' /\ q \in inFlight'
        BY <2>1, <2>2, <4>2
      <4> QED
        BY <1>1, <4>1, <4>3 DEF Inside
    <3>2. \A q \in ToSet(channel') : q.p \in inFlight' /\ q.p # taken'.p /\ \A t \in running : t.p # q.p
      BY <1>1, <1>2, <1>3, <2>1 DEF OnceInv
    <3>3. taken'.p \in inFlight' /\ \A t \in running : t.p # taken'.p
      BY <1>2, <2>1 DEF OnceInv
    <3>4. \A t \in running : t.p \in inFlight'
      BY <2>1 DEF OnceInv
    <3> QED
      BY <1>1, <1>3, <3>1, <3>2, <3>3, <3>4 DEF OnceInv
  <2>6. CountInv'
    BY <1>1, <2>4 DEF CountInv, Spoiled, Sound, Covered
  <2>7. BarTrue'
    BY <1>1, <2>4 DEF BarTrue, Spoiled, Live
  <2> QED
    BY <1>4, <2>5, <2>6, <2>7
<1> QED
  BY <1>6, <1>7

LEMMA BarSpawn == BarInv /\ TestInv' /\ SpawnTest => BarInv'
<1> SUFFICES ASSUME BarInv, TestInv', SpawnTest PROVE BarInv'
  OBVIOUS
<1> USE DEF BarInv
<1>0. PICK t, p : t = [p |-> taken.p, ep |-> taken.ep, pc |-> "test"] /\ p = taken.p
  OBVIOUS
<1>1. /\ taken # NoReq /\ running' = running \cup {t} /\ taken' = NoReq
      /\ UNCHANGED <<inFlight, channel, results, progress, handler, events, bar, excuse>>
  BY <1>0 DEF SpawnTest
<1>2. t.p = p /\ t.pc = "test" /\ p \in All /\ p # 0
  BY <1>0, <1>1, Profiles0 DEF TestInv, TestTypeOK, Request
<1>3. p \in inFlight /\ (\A u \in running : u.p # p) /\ \A q \in ToSet(channel) : q.p # p
  BY <1>0, <1>1 DEF OnceInv
<1>4. \A q : q # 0 => (Inside(q)' <=> Inside(q))
  BY <1>0, <1>1, <1>2 DEF Inside, NoReq
<1>5. \A q \in All : Outstanding(q)' <=> Outstanding(q)
  BY <1>0, <1>1, <1>2, Profiles0 DEF Outstanding, NoReq
<1>6. \A g \in GroupIds : Due(g)' = Due(g) /\ Due(g) \in Nat
  BY <1>1, <1>5, DueStays, DueIsNat DEF TestInv
<1>7. BatchInv'
  BY <1>1, KeepBatch
<1>8. OnceInv'
  <2>1. \A k \in {"client", "refresh"} : handler[k].hold # 0 =>
          handler[k].hold \in inFlight' /\ ~Inside(handler[k].hold)'
    <3> SUFFICES ASSUME NEW k \in {"client", "refresh"}, handler[k].hold # 0
                 PROVE  handler[k].hold \in inFlight' /\ ~Inside(handler[k].hold)'
      OBVIOUS
    <3>1. PICK q : q = handler[k].hold
      OBVIOUS
    <3>2. q \in inFlight /\ ~Inside(q) /\ q # 0
      BY <3>1 DEF OnceInv
    <3>3. ~Inside(q)' /\ q \in inFlight'
      BY <1>1, <1>4, <3>2
    <3> QED
      BY <1>1, <3>1, <3>3 DEF Inside
  <2>2. \A q \in ToSet(channel) : q.p \in Nat \ {0}
    <3>1. \A q \in ToSet(channel) : q \in Request
      BY SetOfSeq DEF TestInv, TestTypeOK
    <3> QED
      BY <3>1, Profiles0 DEF Request
  <2>3. \A q \in ToSet(channel') : q.p \in inFlight' /\ q.p # taken'.p /\ \A u \in running' : u.p # q.p
    BY <1>1, <1>2, <1>3, <2>2 DEF OnceInv, NoReq
  <2>4. \A u \in running' : u.p \in inFlight' /\ \A v \in running' : v.p = u.p => v = u
    BY <1>1, <1>2, <1>3 DEF OnceInv
  <2> QED
    BY <1>1, <2>1, <2>3, <2>4 DEF OnceInv
<1>9. CountInv'
  BY <1>1, <1>6 DEF CountInv, Spoiled, Sound, Covered
<1>10. BarTrue'
  BY <1>1, <1>6 DEF BarTrue, Spoiled, Live
<1> QED
  BY <1>7, <1>8, <1>9, <1>10

LEMMA BarResult == ASSUME NEW t \in running, BarInv, TestInv', SendTestResult(t) PROVE BarInv'
<1> USE DEF BarInv
<1>0. PICK u, p : u = [t EXCEPT !.pc = "sent"] /\ p = t.p
  OBVIOUS
<1>1. /\ t.pc = "test" /\ running' = (running \ {t}) \cup {u}
      /\ UNCHANGED <<inFlight, channel, taken, progress, handler, events, bar>>
  BY <1>0 DEF SendTestResult
<1>2. u.p = p /\ u.pc = "sent" /\ p \in All
  BY <1>0 DEF TestInv, TestTypeOK
<1>3. /\ p # taken.p /\ (\A q \in ToSet(channel) : q.p # p) /\ \A v \in running : v.p = p => v = t
  BY <1>0, <1>2, Profiles0 DEF OnceInv, NoReq
<1>4. \A q : Inside(q)' <=> Inside(q)
  BY <1>0, <1>1, <1>2 DEF Inside
<1>5. BatchInv'
  BY <1>1, KeepBatch
<1>6. OnceInv'
  <2>1. \A k \in {"client", "refresh"} : handler[k].hold # 0 =>
          handler[k].hold \in inFlight' /\ ~Inside(handler[k].hold)'
    <3> SUFFICES ASSUME NEW k \in {"client", "refresh"}, handler[k].hold # 0
                 PROVE  handler[k].hold \in inFlight' /\ ~Inside(handler[k].hold)'
      OBVIOUS
    <3>1. PICK q : q = handler[k].hold
      OBVIOUS
    <3>2. q \in inFlight /\ ~Inside(q)
      BY <3>1 DEF OnceInv
    <3>3. ~Inside(q)' /\ q \in inFlight'
      BY <1>1, <1>4, <3>2
    <3> QED
      BY <1>1, <3>1, <3>3 DEF Inside
  <2>2. \A v \in running' : v.p = p => v = u
    BY <1>1, <1>2, <1>3
  <2>3. \A v \in running' : v = u \/ v \in running
    BY <1>1
  <2>4. p \in inFlight
    BY <1>0 DEF OnceInv
  <2>5. \A q \in ToSet(channel') : q.p \in inFlight' /\ q.p # taken'.p /\ \A v \in running' : v.p # q.p
    BY <1>1, <1>2, <1>3, <2>3 DEF OnceInv
  <2>6. taken' # NoReq => taken'.p \in inFlight' /\ \A v \in running' : v.p # taken'.p
    BY <1>1, <1>2, <1>3, <2>3 DEF OnceInv
  <2>7. \A v \in running' : v.p \in inFlight' /\ \A w \in running' : w.p = v.p => w = v
    BY <1>1, <1>2, <2>2, <2>3, <2>4 DEF OnceInv
  <2> QED
    BY <1>1, <2>1, <2>5, <2>6, <2>7 DEF OnceInv
<1>7. CASE Len(results) < QueueCap
  <2>1. results' = Append(results, p) /\ excuse' = excuse
    BY <1>0, <1>7 DEF SendTestResult
  <2>2. Outstanding(p) /\ \A q \in All : Outstanding(q)' <=> Outstanding(q) /\ q # p
    BY <1>0, <1>1, <1>2, <1>3 DEF Outstanding
  <2>3. \A g \in GroupIds : Due(g)' >= Due(g) /\ Due(g) \in Nat /\ Due(g)' \in Nat
    BY <1>2, <2>1, <2>2, DueMoves, DueIsNat, DueNext DEF TestInv
  <2>4. Spoiled' = Spoiled
    BY <2>1 DEF Spoiled
  <2>5. ASSUME ~Spoiled, NEW k \in {"client", "refresh"} PROVE Sound(k)'
    BY <1>1, <2>3, <2>5, SoundKept DEF CountInv, TestInv
  <2>6. CountInv'
    BY <1>1, <2>3, <2>4, <2>5, KeepCount DEF TestInv
  <2>7. BarTrue'
    BY <1>1, <2>3, <2>4, KeepBar DEF TestInv
  <2> QED
    BY <1>5, <1>6, <2>6, <2>7
<1>8. CASE ~(Len(results) < QueueCap)
  <2>1. excuse'.dropped
    BY <1>8 DEF SendTestResult, TestInv, TestTypeOK
  <2> QED
    BY <1>5, <1>6, <2>1 DEF CountInv, BarTrue, Spoiled
<1> QED
  BY <1>7, <1>8

LEMMA BarRelease == ASSUME NEW t \in running, BarInv, TestInv', ReleaseInFlight(t) PROVE BarInv'
<1> USE DEF BarInv
<1>1. /\ t.pc = "sent" /\ running' = running \ {t} /\ inFlight' = inFlight \ {t.p}
      /\ UNCHANGED <<channel, taken, results, progress, handler, events, bar, excuse>>
  BY DEF ReleaseInFlight
<1>2. t.p \in All
  BY DEF TestInv, TestTypeOK
<1>3. /\ t.p # taken.p /\ (\A q \in ToSet(channel) : q.p # t.p) /\ \A v \in running : v.p = t.p => v = t
  BY <1>2, Profiles0 DEF OnceInv, NoReq
<1>4. /\ \A q : Inside(q)' => Inside(q)
      /\ Inside(t.p)
  BY <1>1 DEF Inside
<1>5. \A q \in All : Outstanding(q)' <=> Outstanding(q)
  BY <1>1 DEF Outstanding
<1>6. \A g \in GroupIds : Due(g)' = Due(g) /\ Due(g) \in Nat
  BY <1>1, <1>5, DueStays, DueIsNat DEF TestInv
<1>7. BatchInv'
  BY <1>1, KeepBatch
<1>8. OnceInv'
  <2>1. \A k \in {"client", "refresh"} : handler[k].hold # 0 =>
          handler[k].hold \in inFlight' /\ ~Inside(handler[k].hold)'
    <3> SUFFICES ASSUME NEW k \in {"client", "refresh"}, handler[k].hold # 0
                 PROVE  handler[k].hold \in inFlight' /\ ~Inside(handler[k].hold)'
      OBVIOUS
    <3>1. PICK q : q = handler[k].hold
      OBVIOUS
    <3>2. q \in inFlight /\ ~Inside(q) /\ q # t.p
      BY <1>4, <3>1 DEF OnceInv
    <3>3. ~Inside(q)' /\ q \in inFlight'
      BY <1>1, <1>4, <3>2
    <3> QED
      BY <1>1, <3>1, <3>3 DEF Inside
  <2>2. \A q \in ToSet(channel') : q.p \in inFlight' /\ q.p # taken'.p /\ \A v \in running' : v.p # q.p
    BY <1>1, <1>3 DEF OnceInv
  <2>3. taken' # NoReq => taken'.p \in inFlight' /\ \A v \in running' : v.p # taken'.p
    BY <1>1, <1>3 DEF OnceInv
  <2>4. \A v \in running' : v.p \in inFlight' /\ \A w \in running' : w.p = v.p => w = v
    BY <1>1, <1>3 DEF OnceInv
  <2> QED
    BY <1>1, <2>1, <2>2, <2>3, <2>4 DEF OnceInv
<1>9. CountInv'
  BY <1>1, <1>6 DEF CountInv, Spoiled, Sound, Covered
<1>10. BarTrue'
  BY <1>1, <1>6 DEF BarTrue, Spoiled, Live
<1> QED
  BY <1>7, <1>8, <1>9, <1>10

LEMMA BarHandle == BarInv /\ TestInv' /\ HandleResult => BarInv'
<1> SUFFICES ASSUME BarInv, TestInv', HandleResult PROVE BarInv'
  OBVIOUS
<1> USE DEF BarInv
<1>0. PICK p, b, e, note : p = Head(results) /\ b = GroupOf(p) /\ e = progress[b] /\ note = [k |-> "updated", p |-> p]
  OBVIOUS
<1>1. /\ results # <<>> /\ results' = Tail(results)
      /\ UNCHANGED <<inFlight, channel, taken, running, handler, bar>>
      /\ excuse' = [excuse EXCEPT !.early = @ \/ \E h \in DOMAIN handler : handler[h].whole /\ handler[h].g = b]
  BY <1>0 DEF HandleResult
<1>2. BatchInv' /\ OnceInv'
  BY <1>1, KeepBatch, KeepOnce
<1>3. p \in All /\ b \in GroupIds /\ b \in Nat /\ e \in [on : BOOLEAN, tested : Nat, total : Nat]
  <2>1. results \in Seq(All)
    BY DEF TestInv, TestTypeOK
  <2>2. p \in All
    BY <1>0, <1>1, <2>1
  <2> QED
    BY <1>0, <2>2, Profiles0 DEF TestInv, TestTypeOK
<1> SUFFICES ASSUME ~Spoiled' PROVE CountInv' /\ BarTrue'
  BY <1>2 DEF CountInv, BarTrue
<1>4. /\ ~Spoiled
      /\ \A h \in {"client", "refresh"} : ~(handler[h].whole /\ handler[h].g = b)
  BY <1>1 DEF Spoiled, TestInv, TestTypeOK
<1>5. /\ \A g \in GroupIds : Due(g) \in Nat /\ Due(g)' \in Nat
      /\ \A g \in GroupIds : g # b => Due(g)' = Due(g)
      /\ Due(b)' = Due(b) - 1
  <2>1. \A q \in All : Outstanding(q)' <=> Outstanding(q)
    BY <1>1 DEF Outstanding
  <2>2. \A g \in GroupIds : Due(g) = Due(g)' + (IF b = g THEN 1 ELSE 0)
    BY <1>0, <1>1, <2>1, DueHandled DEF TestInv
  <2>3. \A g \in GroupIds : Due(g) \in Nat /\ Due(g)' \in Nat
    BY DueIsNat, DueNext DEF TestInv
  <2> QED
    BY <1>3, <2>2, <2>3
<1>6. \A g \in GroupIds : g # b => progress'[g] = progress[g]
  <2>1. PICK n : n = IF e.tested + 1 >= e.total THEN NoEntry ELSE [e EXCEPT !.tested = @ + 1]
    OBVIOUS
  <2>2. progress' = [progress EXCEPT ![b] = n] \/ progress' = progress
    BY <1>0, <2>1 DEF HandleResult
  <2> QED
    BY <2>2 DEF TestInv, TestTypeOK
<1>7. \A h \in {"client", "refresh"} : Sound(h)'
  BY <1>1, <1>4, <1>5, <1>6 DEF CountInv, Sound
<1>8. events \in Seq(Event) /\ note \in Event /\ note.k # "progress"
  BY <1>0, <1>3 DEF TestInv, TestTypeOK, Event
<1>9. CASE ~e.on
  <2>1. events' = Append(events, note) /\ progress' = progress
    BY <1>0, <1>9 DEF HandleResult
  <2>2. (NoNews(events') => NoNews(events)) /\ \A x : LastNews(events', x) => LastNews(events, x)
    BY <1>8, <2>1, AppendNews
  <2>3. \A g \in GroupIds : Covered(g)'
    BY <1>0, <1>4, <1>5, <1>9, <2>1 DEF CountInv, Covered
  <2>4. \A g \in GroupIds : Live(g) => Live(g)'
    BY <1>0, <1>5, <1>9, <2>1 DEF Live
  <2>5. BarTrue'
    BY <1>1, <1>4, <2>2, <2>4 DEF BarTrue
  <2> QED
    BY <1>7, <2>3, <2>5 DEF CountInv
<1>10. CASE e.on
  <2>1. PICK n \in Nat : n = e.tested + 1
    BY <1>3
  <2>2. PICK new : new = [k |-> "progress", g |-> b, tested |-> n, total |-> e.total]
    OBVIOUS
  <2>3. events' = events \o <<note, new>>
    BY <1>0, <1>10, <2>1, <2>2 DEF HandleResult
  <2>4. new \in Event /\ new.k = "progress" /\ new.g = b /\ new.tested = n /\ new.total = e.total
    BY <1>3, <2>1, <2>2 DEF Event
  <2>5. ~NoNews(events') /\ \A x : LastNews(events', x) => x = new
    <3>1. events \o <<note, new>> = Append(Append(events, note), new) /\ Append(events, note) \in Seq(Event)
      BY <1>8, <2>4
    <3> QED
      BY <2>3, <2>4, <3>1, AppendNews
  <2>6. progress' = [progress EXCEPT ![b] = IF n >= e.total THEN NoEntry ELSE [e EXCEPT !.tested = n]]
    BY <1>0, <1>3, <1>10, <2>1 DEF HandleResult
  <2>7. /\ n >= e.total => ~progress'[b].on
        /\ n < e.total => progress'[b].on /\ progress'[b].tested = n /\ progress'[b].total = e.total
    <3>1. PICK m : m = IF n >= e.total THEN NoEntry ELSE [e EXCEPT !.tested = n]
      OBVIOUS
    <3>2. progress'[b] = m
      BY <1>3, <2>6, <3>1 DEF TestInv, TestTypeOK
    <3>3. n >= e.total => ~m.on
      BY <3>1 DEF NoEntry
    <3>4. n < e.total => m.on /\ m.tested = n /\ m.total = e.total
      BY <1>3, <1>10, <2>1, <3>1
    <3> QED
      BY <3>2, <3>3, <3>4
  <2>8. e.total <= e.tested + Due(b)
    BY <1>0, <1>3, <1>4, <1>10 DEF CountInv, Covered
  <2>9. ASSUME NEW g \in GroupIds PROVE Covered(g)'
    <3>1. CASE g = b
      BY <1>3, <1>5, <2>1, <2>7, <2>8, <3>1 DEF Covered
    <3>2. CASE g # b
      BY <1>4, <1>5, <1>6, <3>2 DEF CountInv, Covered
    <3> QED
      BY <3>1, <3>2
  <2>10. n < e.total => Live(b)'
    BY <1>3, <1>5, <2>1, <2>7, <2>8 DEF Live
  <2>11. BarTrue'
    BY <1>3, <2>4, <2>5, <2>10 DEF BarTrue
  <2> QED
    BY <1>7, <2>9, <2>11 DEF CountInv
<1> QED
  BY <1>9, <1>10

LEMMA BarInit == TestInit => BarInv
<1> SUFFICES ASSUME TestInit PROVE BarInv
  OBVIOUS
<1>1. TestInv
  BY InitTests
<1>2. /\ channel = <<>> /\ taken = NoReq /\ running = {} /\ results = <<>> /\ events = <<>> /\ bar = NoBar
      /\ \A h \in {"client", "refresh"} : handler[h] = Resting
      /\ \A g \in GroupIds : progress[g] = NoEntry
  BY DEF TestInit
<1>3. ToSet(channel) = {} /\ DOMAIN channel = {} /\ DOMAIN events = {}
  BY <1>2 DEF ToSet
<1>4. BatchInv
  BY <1>2 DEF BatchInv, Resting
<1>5. OnceInv
  BY <1>2, <1>3 DEF OnceInv, Resting, Apart
<1>6. CountInv
  BY <1>2 DEF CountInv, Sound, Covered, Resting, NoEntry
<1>7. BarTrue
  BY <1>2, <1>3 DEF BarTrue, LastNews
<1> QED
  BY <1>1, <1>4, <1>5, <1>6, <1>7 DEF BarInv

LEMMA BarStep == BarInv /\ [TestNext]_testVars => BarInv'
<1> SUFFICES ASSUME BarInv, [TestNext]_testVars PROVE BarInv'
  OBVIOUS
<1>1. TestInv'
  BY StepTests DEF BarInv
<1>2. CASE UNCHANGED testVars
  <2>1. UNCHANGED <<inFlight, channel, taken, running, results, progress, handler, events, bar, excuse>>
    BY <1>2 DEF testVars
  <2>2. BatchInv' /\ OnceInv'
    BY <2>1, KeepBatch, KeepOnce DEF BarInv
  <2>3. \A g \in GroupIds : Due(g)' = Due(g)
    BY <2>1, DueStays DEF Outstanding
  <2>4. CountInv' /\ BarTrue'
    BY <2>1, <2>3 DEF BarInv, CountInv, BarTrue, Spoiled, Sound, Covered, Live
  <2> QED
    BY <1>1, <2>2, <2>4 DEF BarInv
<1>3. ASSUME NEW h \in DOMAIN handler, TryEnqueue(h) \/ Enqueue(h) \/ SeedTestProgress(h) PROVE BarInv'
  <2>1. h \in {"client", "refresh"}
    BY DEF BarInv, TestInv, TestTypeOK
  <2> QED
    BY <1>1, <1>3, <2>1, BarTry, BarEnqueue, BarSeed
<1>4. ASSUME NEW t \in running, SendTestResult(t) \/ ReleaseInFlight(t) PROVE BarInv'
  BY <1>1, <1>4, BarResult, BarRelease
<1> QED
  BY <1>1, <1>2, <1>3, <1>4, BarBatch, BarCancel, BarApply, BarRequest, BarRefresh, BarSendSeed,
     BarTake, BarSpawn, BarHandle DEF TestNext

\* Latency tests: when all tests are over the progress bar is gone, whatever batches, single
\* tests and refreshes overlapped.  A counter never waits for more results than are queued,
\* under test or sent (SeedTestProgress, IncrementTestProgress), and the last value that the
\* interface was told is that of such a counter, unless a result was counted before its batch
\* was seeded, was dropped, or the user cancelled.
THEOREM ProgressEnds == TestSpec => []BarGone
<1>1. BarInv => BarGone
  <2> SUFFICES ASSUME BarInv, Settled, ~Spoiled, bar # NoBar PROVE FALSE
    BY DEF BarGone, Spoiled
  <2>1. /\ events = <<>> /\ channel = <<>> /\ taken = NoReq /\ running = {} /\ results = <<>>
    BY DEF Settled
  <2>2. NoNews(events)
    BY <2>1 DEF NoNews
  <2>3. PICK g \in GroupIds : Live(g)
    BY <2>2 DEF BarInv, BarTrue
  <2>4. Members(g) \subseteq All /\ ToSet(channel) = {} /\ DOMAIN results = {}
    BY <2>1, GroupsApart DEF ToSet
  <2>5. Under(g) = {} /\ Places(results, g) = {}
    BY <2>1, <2>4, Profiles0 DEF Under, Outstanding, Places, NoReq
  <2>6. Due(g) = 0
    BY <2>5, FS_EmptySet DEF Due
  <2> QED
    BY <2>3, <2>6 DEF Live
<1> QED
  BY <1>1, BarInit, BarStep, PTL DEF TestSpec

-----------------------------------------------------------------------------
(* The check for a newer release.                                          *)

Saved == [last : Nat, latest : Nat, skip : Nat, on : BOOLEAN]
UpdateTypeOK ==
  /\ now \in Nat /\ queried \in Nat /\ slips \in Nat /\ release \in Nat
  /\ saved \in Saved
  /\ ui \in [run : BOOLEAN, cfg : Saved, task : {"none", "query", "recall"}, known : Nat, pending : Nat, popup : Nat]

\* Without a failed write, config.toml and the copy of a running interface know the time of
\* the last query; without a clock set back, that time is not in the future.
UpdateInv ==
  /\ UpdateTypeOK
  /\ slips = 0 => /\ saved.last = queried /\ queried <= now
                  /\ ui.run => ui.cfg.last = queried

LEMMA InitUpdate == UpdateInit => UpdateInv
  BY DEF UpdateInit, UpdateInv, UpdateTypeOK, Saved, Off

\* A write puts the whole copy in place or is counted as failed.
LEMMA Writes ==
  ASSUME UpdateTypeOK, NEW c \in Saved, Write(c)
  PROVE  /\ saved' \in Saved /\ slips' \in Nat
         /\ slips' = 0 => slips = 0 /\ saved' = c
  BY DEF Write, Slip, UpdateTypeOK

LEMMA StepUpdate == UpdateInv /\ [UpdateNext]_updateVars => UpdateInv'
<1> SUFFICES ASSUME UpdateInv, [UpdateNext]_updateVars PROVE UpdateInv'
  OBVIOUS
<1> USE DEF UpdateInv
<1>0. ui.cfg \in Saved
  BY DEF UpdateTypeOK
<1>1. CASE Launch
  <2>0. PICK due : due = ShouldCheck(saved)
    OBVIOUS
  <2>1. PICK c \in Saved : c = [saved EXCEPT !.last = IF due THEN now ELSE @] /\ c.last = IF due THEN now ELSE saved.last
    <3>1. [saved EXCEPT !.last = IF due THEN now ELSE @] \in Saved /\ [saved EXCEPT !.last = IF due THEN now ELSE @].last = IF due THEN now ELSE saved.last
      BY DEF UpdateTypeOK, Saved
    <3> QED
      BY <3>1
  <2>2. PICK task \in {"none", "query", "recall"} : ui' = [Off(c) EXCEPT !.run = TRUE, !.task = task]
    BY <1>1, <2>0, <2>1 DEF Launch
  <2>3. /\ queried' = IF due THEN now ELSE queried
        /\ IF due THEN Write(c) ELSE UNCHANGED <<saved, slips>>
        /\ UNCHANGED <<now, release>>
    BY <1>1, <2>0, <2>1 DEF Launch
  <2>4. ui'.cfg = c /\ ui' \in [run : BOOLEAN, cfg : Saved, task : {"none", "query", "recall"}, known : Nat, pending : Nat, popup : Nat]
    BY <2>2 DEF Off
  <2>5. /\ saved' \in Saved /\ slips' \in Nat
        /\ slips' = 0 => slips = 0 /\ saved'.last = c.last
    BY <2>1, <2>3, Writes DEF UpdateTypeOK
  <2>6. UpdateTypeOK'
    BY <2>3, <2>4, <2>5 DEF UpdateTypeOK
  <2> QED
    BY <2>1, <2>3, <2>4, <2>5, <2>6 DEF UpdateTypeOK
<1>2. ASSUME NEW ok \in BOOLEAN, Task(ok) PROVE UpdateInv'
  BY <1>0, <1>2 DEF Task, UpdateTypeOK, Saved
<1>3. CASE UpdateAvailable
  <2>1. PICK c \in Saved : c = [ui.cfg EXCEPT !.latest = ui.known] /\ c.last = ui.cfg.last
    <3>1. [ui.cfg EXCEPT !.latest = ui.known] \in Saved /\ [ui.cfg EXCEPT !.latest = ui.known].last = ui.cfg.last
      BY <1>0 DEF UpdateTypeOK, Saved
    <3> QED
      BY <3>1
  <2>2. /\ ui.run /\ ui' = [ui EXCEPT !.cfg = c, !.pending = ui.known, !.known = 0]
        /\ IF c # ui.cfg THEN Write(c) ELSE UNCHANGED <<saved, slips>>
        /\ UNCHANGED <<now, release, queried>>
    BY <1>3, <2>1 DEF UpdateAvailable
  <2>3. /\ saved' \in Saved /\ slips' \in Nat
        /\ slips' = 0 => slips = 0 /\ saved'.last = c.last
    BY <2>1, <2>2, Writes DEF UpdateTypeOK
  <2>4. UpdateTypeOK' /\ ui'.cfg = c
    BY <2>2, <2>3 DEF UpdateTypeOK
  <2> QED
    BY <2>1, <2>2, <2>3, <2>4
<1>4. CASE Promote
  <2>1. ui.popup + ui.pending \in Nat
    BY DEF UpdateTypeOK
  <2>2. /\ ui' = [ui EXCEPT !.popup = ui.popup + ui.pending, !.pending = 0]
        /\ UNCHANGED <<now, release, saved, queried, slips>>
    BY <1>4 DEF Promote
  <2>3. UpdateTypeOK' /\ ui'.run = ui.run /\ ui'.cfg = ui.cfg
    BY <2>1, <2>2 DEF UpdateTypeOK
  <2> QED
    BY <2>2, <2>3
<1>5. CASE SkipRelease
  <2>1. PICK c \in Saved : c = [ui.cfg EXCEPT !.skip = ui.popup] /\ c.last = ui.cfg.last
    <3>1. [ui.cfg EXCEPT !.skip = ui.popup] \in Saved /\ [ui.cfg EXCEPT !.skip = ui.popup].last = ui.cfg.last
      BY <1>0 DEF UpdateTypeOK, Saved
    <3> QED
      BY <3>1
  <2>2. /\ ui.run /\ Write(c) /\ UNCHANGED <<now, release, queried>>
        /\ ui' = [ui EXCEPT !.cfg = c, !.popup = IF saved' = c THEN 0 ELSE @]
    BY <1>5, <2>1 DEF SkipRelease
  <2>3. /\ saved' \in Saved /\ slips' \in Nat
        /\ slips' = 0 => slips = 0 /\ saved' = c
    BY <2>1, <2>2, Writes
  <2>4. UpdateTypeOK' /\ ui'.cfg = c
    BY <2>2, <2>3 DEF UpdateTypeOK
  <2> QED
    BY <2>1, <2>2, <2>3, <2>4
<1>6. CASE Dismiss
  BY <1>6 DEF Dismiss, UpdateTypeOK
<1>7. CASE ToggleCheck
  <2>1. PICK c \in Saved : c = [ui.cfg EXCEPT !.on = ~@] /\ c.last = ui.cfg.last
    <3>1. [ui.cfg EXCEPT !.on = ~@] \in Saved /\ [ui.cfg EXCEPT !.on = ~@].last = ui.cfg.last
      BY <1>0 DEF Saved
    <3> QED
      BY <3>1
  <2>2. /\ ui.run /\ Write(c) /\ UNCHANGED <<now, release, queried>>
        /\ ui' = [ui EXCEPT !.cfg = c]
    BY <1>7, <2>1 DEF ToggleCheck
  <2>3. /\ saved' \in Saved /\ slips' \in Nat
        /\ slips' = 0 => slips = 0 /\ saved' = c
    BY <2>1, <2>2, Writes
  <2>4. UpdateTypeOK' /\ ui'.cfg = c
    BY <2>2, <2>3 DEF UpdateTypeOK
  <2> QED
    BY <2>1, <2>2, <2>3, <2>4
<1>8. ASSUME NEW saves \in BOOLEAN, Quit(saves) PROVE UpdateInv'
  <2>1. /\ ui.run /\ ui' = Off(ui.cfg) /\ UNCHANGED <<now, release, queried>>
        /\ IF saves THEN Write(ui.cfg) ELSE UNCHANGED <<saved, slips>>
    BY <1>8 DEF Quit
  <2>2. /\ saved' \in Saved /\ slips' \in Nat
        /\ slips' = 0 => slips = 0 /\ (saved' = ui.cfg \/ saved' = saved)
    BY <1>0, <2>1, Writes DEF UpdateTypeOK
  <2>3. UpdateTypeOK' /\ ~ui'.run
    BY <1>0, <2>1, <2>2 DEF UpdateTypeOK, Off
  <2> QED
    BY <2>1, <2>2, <2>3
<1>9. CASE Clock
  BY <1>9 DEF Clock, Slip, UpdateTypeOK
<1>10. CASE Publish
  BY <1>10 DEF Publish, UpdateTypeOK
<1>11. CASE UNCHANGED updateVars
  BY <1>11 DEF updateVars, UpdateTypeOK
<1> QED
  BY <1>1, <1>2, <1>3, <1>4, <1>5, <1>6, <1>7, <1>8, <1>9, <1>10, <1>11 DEF UpdateNext

LEMMA UpdateInductive == UpdateSpec => []UpdateInv
  BY InitUpdate, StepUpdate, PTL DEF UpdateSpec

\* Release check: for every interval, the network is not queried twice in one, over any kills
\* and restarts of the interface, because the time is saved before the query goes out
\* (main.rs) and every later write of config.toml carries it on.
THEOREM OneQueryPerInterval == UpdateSpec => NoCheckStorm
<1> DEFINE Rare == queried' # queried => queried = 0 \/ now - queried >= Interval \/ slips > 0
<1>1. UpdateInv /\ [UpdateNext]_updateVars => [Rare]_updateVars
  <2> SUFFICES ASSUME UpdateInv, UpdateNext, queried' # queried, slips = 0
               PROVE  queried = 0 \/ now - queried >= Interval
    BY DEF UpdateInv, UpdateTypeOK
  <2>1. Launch
    BY DEF UpdateNext, Task, UpdateAvailable, Promote, SkipRelease, Dismiss, ToggleCheck, Quit, Clock, Publish
  <2>2. ShouldCheck(saved)
    BY <2>1 DEF Launch
  <2> QED
    BY <2>2 DEF ShouldCheck, UpdateInv, UpdateTypeOK
<1>2. UpdateSpec => [][Rare]_updateVars
  BY <1>1, UpdateInductive, PTL DEF UpdateSpec
<1> QED
  BY <1>2 DEF NoCheckStorm

-----------------------------------------------------------------------------
(* The routing source.                                                     *)

SourceInv == grp \in [json : BOOLEAN, mode : RoutingModes, active : BOOLEAN]

\* Routing source: the three places that decide which rules apply agree: effective_routing of
\* the command line and the line and the notice of the Routing tab with resolveRouting of the
\* core, in every state of the group and its profile in which the download did not fail.
THEOREM SourceShown == SourceSpec => []SourceTrueUnlessError
<1>1. SourceInit => SourceInv
  BY DEF SourceInit, SourceInv, RoutingModes
<1>2. SourceInv /\ [SourceNext]_sourceVars => SourceInv'
  BY DEF SourceInv, SourceNext, sourceVars, ImportHapp, GeoDone, SetRoutingMode, ActivateHapp,
         HappOff, DeleteHapp, ChangeFormat
<1>3. SourceInv => SourceTrueUnlessError
  BY DEF SourceInv, SourceTrueUnlessError, EffectiveRouting, ResolveRouting, TabSource, TabShadowed, RoutingModes
<1> QED
  BY <1>1, <1>2, <1>3, PTL DEF SourceSpec

-----------------------------------------------------------------------------
(* status --watch.                                                         *)

Views == [p : Profiles \cup {0}, tun : BOOLEAN]
Frame == [k : {"state"}, p : Profiles \cup {0}, tun : BOOLEAN] \cup [k : {"status"}, p : Profiles \cup {0}]
           \cup [k : {"tun"}, on : BOOLEAN] \cup [k : {"traffic"}]
WatchTypeOK ==
  /\ session \in Views
  /\ reading \in Views \cup {NoSnapshot}
  /\ frames \in Seq(Frame)
  /\ watch \in [pc : {"start", "fetch", "watch"}, connected : BOOLEAN, p : Profiles \cup {0}, tun : BOOLEAN,
                mode : {"", "tun", "proxy"}, rate : {0, 1}]
  /\ mixed \in BOOLEAN

\* Frames that tell of the connection, and the last one of them in a queue.
Tells(f) == f.k \in {"state", "status"}
Silent(fs) == \A i \in DOMAIN fs : ~Tells(fs[i])
LastTells(fs, p) == \E i \in DOMAIN fs :
  Tells(fs[i]) /\ fs[i].p = p /\ \A j \in DOMAIN fs : j > i => ~Tells(fs[j])

\* A snapshot that is being built shows the session.  Otherwise the last frame on its way
\* that tells of the connection tells what it is; without such a frame the watcher, who has
\* had its snapshot, knows.
ShownInv ==
  mixed \/ watch.pc = "start" \/
    \/ reading # NoSnapshot /\ reading.p = session.p
    \/ reading = NoSnapshot /\ LastTells(frames, session.p)
    \/ /\ reading = NoSnapshot /\ Silent(frames) /\ watch.pc = "watch"
       /\ watch.p = session.p /\ watch.connected = (session.p # 0)

\* A watcher that waits for its first snapshot will get one; before it, nothing is sent.
FetchInv ==
  /\ watch.pc = "start" => frames = <<>>
  /\ watch.pc = "fetch" => reading # NoSnapshot \/ \E f \in ToSet(frames) : f.k = "state"

WatchInv == WatchTypeOK /\ ShownInv /\ FetchInv

LEMMA AppendTells ==
  ASSUME NEW fs \in Seq(Frame), NEW f \in Frame
  PROVE  /\ Append(fs, f) \in Seq(Frame)
         /\ Tells(f) => LastTells(Append(fs, f), f.p)
         /\ ~Tells(f) => \A p : LastTells(fs, p) => LastTells(Append(fs, f), p)
         /\ ~Tells(f) => (Silent(fs) => Silent(Append(fs, f)))
<1> DEFINE gs == Append(fs, f)
<1>1. gs \in Seq(Frame) /\ DOMAIN gs = 1 .. Len(fs) + 1 /\ DOMAIN fs = 1 .. Len(fs) /\ Len(fs) \in Nat
  OBVIOUS
<1>2. gs[Len(fs) + 1] = f /\ \A i \in 1 .. Len(fs) : gs[i] = fs[i]
  OBVIOUS
<1> HIDE DEF gs
<1>3. \A i \in 1 .. Len(fs) + 1 : i \in 1 .. Len(fs) \/ i = Len(fs) + 1
  BY <1>1
<1>4. Tells(f) => LastTells(gs, f.p)
  BY <1>1, <1>2, <1>3 DEF LastTells
<1>5. ASSUME ~Tells(f), NEW p, LastTells(fs, p) PROVE LastTells(gs, p)
  <2>1. PICK i \in 1 .. Len(fs) : Tells(fs[i]) /\ fs[i].p = p /\ \A j \in 1 .. Len(fs) : j > i => ~Tells(fs[j])
    BY <1>1, <1>5 DEF LastTells
  <2>2. i \in DOMAIN gs /\ gs[i] = fs[i]
    BY <1>1, <1>2
  <2>3. \A j \in DOMAIN gs : j > i => ~Tells(gs[j])
    BY <1>1, <1>2, <1>3, <1>5, <2>1
  <2> QED
    BY <2>1, <2>2, <2>3 DEF LastTells
<1>6. ~Tells(f) => (Silent(fs) => Silent(gs))
  BY <1>1, <1>2, <1>3 DEF Silent
<1> QED
  BY <1>1, <1>4, <1>5, <1>6 DEF gs

LEMMA TailTells ==
  ASSUME NEW fs \in Seq(Frame), fs # <<>>
  PROVE  /\ Head(fs) \in Frame /\ Tail(fs) \in Seq(Frame)
         /\ \A p : LastTells(fs, p) => \/ LastTells(Tail(fs), p)
                                       \/ Tells(Head(fs)) /\ Head(fs).p = p /\ Silent(Tail(fs))
         /\ Silent(fs) => ~Tells(Head(fs)) /\ Silent(Tail(fs))
<1>1. /\ Head(fs) \in Frame /\ Tail(fs) \in Seq(Frame) /\ Head(fs) = fs[1] /\ Len(fs) \in Nat \ {0}
      /\ DOMAIN fs = 1 .. Len(fs) /\ DOMAIN Tail(fs) = 1 .. Len(fs) - 1
  OBVIOUS
<1>2. \A i \in 1 .. Len(fs) - 1 : Tail(fs)[i] = fs[i + 1] /\ i + 1 \in 1 .. Len(fs)
  BY <1>1
<1>3. ASSUME NEW p, LastTells(fs, p)
      PROVE  \/ LastTells(Tail(fs), p)
             \/ Tells(Head(fs)) /\ Head(fs).p = p /\ Silent(Tail(fs))
  <2>1. PICK i \in 1 .. Len(fs) : Tells(fs[i]) /\ fs[i].p = p /\ \A j \in 1 .. Len(fs) : j > i => ~Tells(fs[j])
    BY <1>1, <1>3 DEF LastTells
  <2>2. CASE i = 1
    <3>1. \A j \in 1 .. Len(fs) - 1 : j + 1 > 1
      BY <1>1
    <3>2. Silent(Tail(fs))
      BY <1>1, <1>2, <2>1, <2>2, <3>1 DEF Silent
    <3> QED
      BY <1>1, <2>1, <2>2, <3>2
  <2>3. CASE i # 1
    <3>1. i - 1 \in 1 .. Len(fs) - 1 /\ (i - 1) + 1 = i
      BY <1>1, <2>3
    <3>2. Tail(fs)[i - 1] = fs[i]
      BY <1>2, <3>1
    <3>3. \A j \in 1 .. Len(fs) - 1 : j > i - 1 => j + 1 > i
      BY <1>1
    <3>4. \A j \in 1 .. Len(fs) - 1 : j > i - 1 => ~Tells(Tail(fs)[j])
      BY <1>2, <2>1, <3>3
    <3> QED
      BY <1>1, <2>1, <3>1, <3>2, <3>4 DEF LastTells
  <2> QED
    BY <2>2, <2>3
<1>4. Silent(fs) => ~Tells(Head(fs)) /\ Silent(Tail(fs))
  BY <1>1, <1>2 DEF Silent
<1> QED
  BY <1>1, <1>3, <1>4

LEMMA StepWatch == WatchInv /\ [WatchNext]_watchVars => WatchInv'
<1> SUFFICES ASSUME WatchInv, [WatchNext]_watchVars PROVE WatchInv'
  OBVIOUS
<1> USE DEF WatchInv
<1>0. \A v \in Views : v # NoSnapshot
  BY WatchAssumption DEF Views, NoSnapshot
<1>f. frames \in Seq(Frame)
  BY DEF WatchTypeOK
<1>a. \A s \in Seq(Frame) : \A x \in Frame : ToSet(Append(s, x)) = ToSet(s) \cup {x}
  BY SetOfAppend
<1>1. CASE ReadSnapshot
  <2>1. /\ reading' = session /\ mixed' = FALSE /\ UNCHANGED <<session, frames>>
        /\ watch' = IF watch.pc = "start" THEN [watch EXCEPT !.pc = "fetch"] ELSE watch
    BY <1>1 DEF ReadSnapshot
  <2>2. WatchTypeOK'
    BY <2>1 DEF WatchTypeOK
  <2> QED
    BY <1>0, <2>1, <2>2 DEF ShownInv, FetchInv, WatchTypeOK
<1>2. CASE SendSnapshot
  <2>0. PICK f : f = [k |-> "state", p |-> reading.p, tun |-> reading.tun]
    OBVIOUS
  <2>1. /\ reading # NoSnapshot /\ reading' = NoSnapshot /\ UNCHANGED <<session, watch, mixed>>
        /\ frames' = IF watch.pc = "start" THEN <<>> ELSE frames \o <<f>>
    BY <1>2, <2>0 DEF SendSnapshot, Broadcast
  <2>2. f \in Frame /\ Tells(f) /\ f.p = reading.p
    BY <2>0, <2>1 DEF WatchTypeOK, Views, Frame, Tells
  <2>3. /\ watch.pc # "start" => frames' = Append(frames, f)
        /\ frames' \in Seq(Frame)
    <3>1. frames \o <<f>> = Append(frames, f) /\ Append(frames, f) \in Seq(Frame) /\ <<>> \in Seq(Frame)
      BY <2>2, <1>f
    <3> QED
      BY <2>1, <3>1
  <2>4. WatchTypeOK'
    BY <2>1, <2>3 DEF WatchTypeOK
  <2>5. ShownInv'
    BY <1>f, <2>1, <2>2, <2>3, AppendTells DEF ShownInv, WatchTypeOK
  <2>6. FetchInv'
    <3>1. f.k = "state"
      BY <2>0
    <3>2. watch.pc # "start" => f \in ToSet(frames')
      BY <1>a, <1>f, <2>2, <2>3
    <3> QED
      BY <3>1, <3>2, <2>1 DEF FetchInv
  <2> QED
    BY <2>4, <2>5, <2>6
<1>3. ASSUME NEW p \in Profiles \cup {0}, ChangeSession(p) PROVE WatchInv'
  <2>0. PICK f, g : f = [k |-> "status", p |-> p] /\ g = [k |-> "tun", on |-> FALSE]
    OBVIOUS
  <2>1. /\ session' = [p |-> p, tun |-> session.tun /\ p # 0] /\ UNCHANGED <<reading, watch>>
        /\ mixed' = (mixed \/ reading # NoSnapshot)
        /\ frames' = IF watch.pc = "start" THEN <<>>
                     ELSE frames \o (<<f>> \o (IF session.tun /\ p = 0 THEN <<g>> ELSE <<>>))
    BY <1>3, <2>0 DEF ChangeSession, Broadcast
  <2>2. f \in Frame /\ g \in Frame /\ Tells(f) /\ f.p = p /\ ~Tells(g)
    BY <2>0 DEF Frame, Tells
  <2>3. frames \in Seq(Frame)
    BY DEF WatchTypeOK
  <2>4. /\ frames \o (<<f>> \o <<>>) = Append(frames, f)
        /\ frames \o (<<f>> \o <<g>>) = Append(Append(frames, f), g)
    BY <2>2, <2>3
  <2>5. session' \in Views /\ session'.p = p
    BY <2>1 DEF Views, WatchTypeOK
  <2>6. frames' \in Seq(Frame) /\ (watch.pc # "start" => LastTells(frames', p))
    <3>1. Append(frames, f) \in Seq(Frame) /\ LastTells(Append(frames, f), p)
      BY <2>2, <2>3, AppendTells
    <3>2. Append(Append(frames, f), g) \in Seq(Frame) /\ LastTells(Append(Append(frames, f), g), p)
      BY <3>1, <2>2, AppendTells
    <3>3. <<>> \in Seq(Frame)
      OBVIOUS
    <3> QED
      BY <3>1, <3>2, <3>3, <2>1, <2>4
  <2>7. WatchTypeOK'
    BY <2>1, <2>5, <2>6 DEF WatchTypeOK
  <2>8. watch.pc # "start" => ToSet(frames) \subseteq ToSet(frames')
    <3>1. ToSet(frames) \subseteq ToSet(Append(frames, f))
      BY <1>a, <2>2, <2>3
    <3>2. ToSet(Append(frames, f)) \subseteq ToSet(Append(Append(frames, f), g))
      <4>1. Append(frames, f) \in Seq(Frame)
        BY <2>2, <2>3
      <4> QED
        BY <1>a, <4>1, <2>2
    <3> QED
      BY <3>1, <3>2, <2>1, <2>4
  <2> QED
    BY <2>1, <2>5, <2>6, <2>7, <2>8 DEF ShownInv, FetchInv
<1>4. ASSUME NEW f \in Frame, ~Tells(f), session' \in Views, session'.p = session.p,
             frames' = IF watch.pc = "start" THEN <<>> ELSE frames \o <<f>>,
             mixed' \in BOOLEAN, mixed => mixed', UNCHANGED <<reading, watch>>
      PROVE  WatchInv'
  <2>1. /\ watch.pc # "start" => frames' = Append(frames, f)
        /\ frames' \in Seq(Frame)
    <3>1. frames \o <<f>> = Append(frames, f) /\ Append(frames, f) \in Seq(Frame) /\ <<>> \in Seq(Frame)
      BY <1>f
    <3> QED
      BY <1>4, <3>1
  <2>2. WatchTypeOK'
    BY <1>4, <2>1 DEF WatchTypeOK
  <2>3. watch.pc # "start" => ToSet(frames) \subseteq ToSet(frames')
    <3>1. ToSet(Append(frames, f)) = ToSet(frames) \cup {f}
      BY <1>a, <1>f
    <3> QED
      BY <2>1, <3>1
  <2>4. FetchInv'
    BY <1>4, <2>3 DEF FetchInv
  <2> QED
    BY <1>f, <1>4, <2>1, <2>2, <2>4, AppendTells DEF ShownInv, WatchTypeOK
<1>5. CASE ChangeTun
  <2>0. PICK f : f = [k |-> "tun", on |-> ~session.tun]
    OBVIOUS
  <2>1. f \in Frame /\ ~Tells(f)
    BY <2>0 DEF Frame, Tells
  <2>2. session' \in Views /\ session'.p = session.p
    BY <1>5 DEF ChangeTun, WatchTypeOK, Views
  <2>3. /\ frames' = IF watch.pc = "start" THEN <<>> ELSE frames \o <<f>>
        /\ mixed' \in BOOLEAN /\ (mixed => mixed') /\ UNCHANGED <<reading, watch>>
    BY <1>5, <2>0 DEF ChangeTun, Broadcast, WatchTypeOK
  <2> QED
    BY <2>1, <2>2, <2>3, <1>4
<1>6. CASE Traffic
  <2>0. PICK f : f = [k |-> "traffic"]
    OBVIOUS
  <2>1. f \in Frame /\ ~Tells(f)
    BY <2>0 DEF Frame, Tells
  <2>2. /\ session' \in Views /\ session'.p = session.p
        /\ frames' = IF watch.pc = "start" THEN <<>> ELSE frames \o <<f>>
        /\ mixed' \in BOOLEAN /\ (mixed => mixed') /\ UNCHANGED <<reading, watch>>
    BY <1>6, <2>0 DEF Traffic, Broadcast, WatchTypeOK
  <2> QED
    BY <2>1, <2>2, <1>4
<1>7. CASE ReadFrame
  <2>0. PICK f : f = Head(frames)
    OBVIOUS
  <2>1. frames # <<>> /\ frames' = Tail(frames) /\ UNCHANGED <<session, reading, mixed>>
    BY <1>7 DEF ReadFrame
  <2>2. watch' = CASE f.k = "state" -> FromAppState(f)
                   [] f.k = "status" /\ watch.pc = "watch" -> StatusChanged(f)
                   [] f.k = "traffic" /\ watch.pc = "watch" -> [watch EXCEPT !.rate = 1]
                   [] OTHER -> watch
    BY <1>7, <2>0 DEF ReadFrame
  <2>3. /\ f \in Frame /\ frames' \in Seq(Frame)
        /\ \A p : LastTells(frames, p) => LastTells(frames', p) \/ (Tells(f) /\ f.p = p /\ Silent(frames'))
        /\ Silent(frames) => ~Tells(f) /\ Silent(frames')
    BY <2>0, <2>1, TailTells DEF WatchTypeOK
  <2>4. WatchTypeOK'
    <3> DEFINE W == [pc : {"start", "fetch", "watch"}, connected : BOOLEAN, p : Profiles \cup {0}, tun : BOOLEAN,
                     mode : {"", "tun", "proxy"}, rate : {0, 1}]
    <3>0. watch \in W
      BY DEF WatchTypeOK
    <3>1. CASE f.k = "state"
      <4>1. f.p \in Profiles \cup {0} /\ f.tun \in BOOLEAN
        BY <2>3, <3>1 DEF Frame
      <4>2. FromAppState(f) \in W
        BY <3>0, <4>1 DEF FromAppState
      <4> QED
        BY <2>1, <2>2, <2>3, <3>1, <4>2 DEF WatchTypeOK
    <3>2. CASE f.k = "status" /\ watch.pc = "watch"
      <4>1. f.p \in Profiles \cup {0}
        BY <2>3, <3>2 DEF Frame
      <4>2. StatusChanged(f) \in W
        BY <3>0, <4>1 DEF StatusChanged
      <4>3. watch' = StatusChanged(f)
        BY <2>2, <3>2
      <4> QED
        BY <2>1, <2>3, <4>2, <4>3 DEF WatchTypeOK
    <3>3. CASE ~(f.k = "state") /\ ~(f.k = "status" /\ watch.pc = "watch")
      <4>1. watch' = watch \/ watch' = [watch EXCEPT !.rate = 1]
        BY <2>2, <3>3
      <4>2. [watch EXCEPT !.rate = 1] \in W
        BY <3>0
      <4>3. watch' \in W
        BY <3>0, <4>1, <4>2
      <4> QED
        BY <2>1, <2>3, <4>3 DEF WatchTypeOK
    <3> QED
      BY <3>1, <3>2, <3>3
  <2>5. ToSet(frames) = {f} \cup ToSet(frames')
    BY <2>0, <2>1, SetOfTail DEF WatchTypeOK
  <2>6. FetchInv'
    BY <2>1, <2>2, <2>5 DEF FetchInv, WatchTypeOK, FromAppState, StatusChanged
  <2>7. watch.pc = "fetch" /\ reading = NoSnapshot /\ Silent(frames') => f.k = "state"
    BY <2>5 DEF FetchInv, Silent, Tells, ToSet
  <2>8. ShownInv'
    <3>1. CASE f.k = "state"
      <4>1. watch' = FromAppState(f)
        BY <2>2, <3>1
      <4>2. watch'.pc = "watch" /\ watch'.p = f.p /\ watch'.connected = (f.p # 0)
        BY <4>1 DEF FromAppState
      <4> QED
        BY <3>1, <4>2, <2>1, <2>3 DEF ShownInv, FetchInv, Tells
    <3>2. CASE f.k = "status" /\ watch.pc = "watch"
      <4>1. watch' = [watch EXCEPT !.connected = f.p # 0, !.p = f.p]
        BY <2>2, <3>2 DEF StatusChanged
      <4>2. watch'.pc = watch.pc /\ watch'.p = f.p /\ watch'.connected = (f.p # 0)
        BY <4>1 DEF WatchTypeOK
      <4> QED
        BY <3>2, <4>2, <2>1, <2>3 DEF ShownInv, Tells, WatchTypeOK
    <3>3. CASE f.k = "status" /\ watch.pc # "watch"
      <4>1. watch' = watch
        BY <2>2, <3>3
      <4> QED
        BY <3>3, <4>1, <2>1, <2>3, <2>7 DEF ShownInv, WatchTypeOK
    <3>4. CASE ~Tells(f)
      <4>1. watch'.pc = watch.pc /\ watch'.p = watch.p /\ watch'.connected = watch.connected
        BY <2>2, <3>4 DEF WatchTypeOK, Tells
      <4> QED
        BY <3>4, <4>1, <2>1, <2>3 DEF ShownInv
    <3> QED
      BY <3>1, <3>2, <3>3, <3>4 DEF Tells
  <2> QED
    BY <2>4, <2>6, <2>8
<1>8. CASE UNCHANGED watchVars
  BY <1>8 DEF watchVars, WatchTypeOK, ShownInv, FetchInv
<1> QED
  BY <1>1, <1>2, <1>3, <1>5, <1>6, <1>7, <1>8 DEF WatchNext

\* status --watch: for every set of profiles and any number of changes and snapshots, a
\* watcher that has read all its frames shows the core's connection: every change is
\* broadcast as a status after the session changed, and a snapshot that was not overtaken
\* by a change tells the same (cli/commands/status.rs).
THEOREM WatchShows == WatchSpec => []WatchFollows
<1>1. WatchInit => WatchInv
  <2> SUFFICES ASSUME WatchInit PROVE WatchInv
    OBVIOUS
  <2>1. session \in Views /\ watch.pc = "start" /\ frames = <<>>
    BY DEF WatchInit, Views, Offline
  <2>2. <<>> \in Seq(Frame)
    OBVIOUS
  <2>3. Offline \in [pc : {"start", "fetch", "watch"}, connected : BOOLEAN, p : Profiles \cup {0}, tun : BOOLEAN,
                     mode : {"", "tun", "proxy"}, rate : {0, 1}]
    BY DEF Offline
  <2>4. WatchTypeOK
    BY <2>1, <2>2, <2>3 DEF WatchInit, WatchTypeOK
  <2> QED
    BY <2>1, <2>4 DEF WatchInv, ShownInv, FetchInv
<1>2. WatchInv => WatchFollows
  <2> SUFFICES ASSUME WatchInv, watch.pc = "watch", frames = <<>>, reading = NoSnapshot, ~mixed
               PROVE  watch.connected = (session.p # 0) /\ watch.p = session.p
    BY DEF WatchFollows
  <2>1. ~LastTells(frames, session.p)
    BY DEF LastTells
  <2> QED
    BY <2>1 DEF WatchInv, ShownInv
<1> QED
  BY <1>1, <1>2, StepWatch, PTL DEF WatchSpec

-----------------------------------------------------------------------------
(* The settings.                                                           *)

TestPair == (0..2) \X (0..2)
CoreSettings == [kill : BOOLEAN, test : TestPair, auto : BOOLEAN, conn : 0..1, damaged : BOOLEAN]
Ordered == [k : {"state"}] \cup [k : {"kill", "auto"}, v : BOOLEAN] \cup [k : {"test"}, v : TestPair]
             \cup [k : {"connect"}, v : {1}]
Answer == [k : {"state"}, s : CoreSettings] \cup [k : {"kill", "auto"}, v : BOOLEAN] \cup [k : {"test"}, v : TestPair]
            \cup [k : {"status"}, v : 0..1] \cup [k : {"reconnected"}]
JobLists == CliCommands \cup {<<>>}
TuiState == [run : BOOLEAN, cfg : AppConfig, kill : BOOLEAN, test : TestPair, auto : BOOLEAN,
             first : BOOLEAN, connect : BOOLEAN]
CliState == [pc : {"idle", "fetch", "wait", "local"}, jobs : JobLists, cfg : AppConfig, test : TestPair]

SettingsTypeOK ==
  /\ file \in [text : {"good", "broken", "missing"}, c : AppConfig]
  /\ core \in CoreSettings
  /\ asked \in [tui : Seq(Ordered), cmd : Seq(Ordered)]
  /\ told \in [tui : Seq(Answer), cmd : Seq(Answer)]
  /\ tui \in TuiState
  /\ cmd \in CliState
  /\ handed \in Nat /\ edited \in BOOLEAN /\ lost \in BOOLEAN

\* The command has at most one request under way, and fetches only the state.
CliInv ==
  /\ cmd.pc \in {"idle", "local"} => asked.cmd = <<>> /\ told.cmd = <<>>
  /\ asked.cmd = <<>> \/ (Len(asked.cmd) = 1 /\ told.cmd = <<>>)
  /\ Len(told.cmd) <= 1
  /\ cmd.pc \in {"fetch", "wait"} => cmd.jobs \notin {<<>>, <<Job("theme", 1)>>}
  /\ cmd.pc = "local" => cmd.jobs = <<Job("theme", 1)>>
  /\ cmd.pc = "fetch" => /\ \A r \in ToSet(asked.cmd) : r.k = "state"
                         /\ \A f \in ToSet(told.cmd) : f.k = "state"

\* Values of a test setting that somebody chose.
IsChoice(t) == t[1] # 0 /\ t[2] # 0

\* Unless a test setting was changed under a damaged core: no copy of config.toml holds a
\* fallback, no request carries one, and the core holds and tells one only while it says
\* that it is damaged.  A command that has set a test setting reads back a choice.
CacheInv ==
  edited \/
    /\ IsChoice(file.c.test) /\ IsChoice(tui.cfg.test) /\ IsChoice(cmd.cfg.test)
    /\ core.damaged \/ IsChoice(core.test)
    /\ \A r \in ToSet(asked.tui) \cup ToSet(asked.cmd) : r.k = "test" => IsChoice(r.v)
    /\ \A f \in ToSet(told.tui) : f.k = "state" => f.s.damaged \/ IsChoice(f.s.test)
    /\ cmd.pc = "wait" /\ cmd.jobs = <<Job("test", 2)>> =>
         /\ (\E r \in ToSet(asked.cmd) : r.k = "test") \/ IsChoice(core.test)
         /\ \A f \in ToSet(told.cmd) : f.k = "state" => IsChoice(f.s.test)

\* As long as every write took, the hand-over is remembered in the file and by every
\* interface that runs.
HandInv ==
  lost \/
    /\ file.text = "good" /\ handed <= 1
    /\ handed = 1 => file.c.migr /\ (tui.run => tui.cfg.migr)

SettingsInv == SettingsTypeOK /\ CliInv /\ CacheInv /\ HandInv

LEMMA ConfigShape ==
  AppConfig = [theme : 0..1, level : {"warn", "debug", "env"}, kill : BOOLEAN, test : TestPair,
               auto : BOOLEAN, last : 0..1, migr : BOOLEAN]
  BY DEF AppConfig, TestPair

LEMMA Pairs ==
  /\ <<0, 0>> \in TestPair /\ <<1, 1>> \in TestPair /\ <<2, 1>> \in TestPair
  /\ IsChoice(<<1, 1>>) /\ IsChoice(<<2, 1>>)
  /\ \A t \in TestPair : t[1] \in 0..2 /\ t[2] \in 0..2
  /\ \A t \in TestPair : \A a \in 0..2 : /\ [t EXCEPT ![1] = a] \in TestPair
                                         /\ [t EXCEPT ![1] = a][1] = a /\ [t EXCEPT ![1] = a][2] = t[2]
                                         /\ [t EXCEPT ![2] = a] \in TestPair
                                         /\ [t EXCEPT ![2] = a][1] = t[1] /\ [t EXCEPT ![2] = a][2] = a
<1>1. /\ <<0, 0>> \in TestPair /\ <<1, 1>> \in TestPair /\ <<2, 1>> \in TestPair
      /\ IsChoice(<<1, 1>>) /\ IsChoice(<<2, 1>>)
  BY DEF TestPair, IsChoice
<1>2. ASSUME NEW t \in TestPair
      PROVE  t[1] \in 0..2 /\ t[2] \in 0..2 /\ t = <<t[1], t[2]>>
  BY DEF TestPair
<1>3. ASSUME NEW t \in TestPair, NEW a \in 0..2
      PROVE  [t EXCEPT ![1] = a] = <<a, t[2]>> /\ [t EXCEPT ![2] = a] = <<t[1], a>>
  BY <1>2, <1>3
<1>4. \A x, y \in 0..2 : <<x, y>> \in TestPair /\ <<x, y>>[1] = x /\ <<x, y>>[2] = y
  BY DEF TestPair
<1>5. ASSUME NEW t \in TestPair, NEW a \in 0..2
      PROVE  /\ [t EXCEPT ![1] = a] \in TestPair
             /\ [t EXCEPT ![1] = a][1] = a /\ [t EXCEPT ![1] = a][2] = t[2]
             /\ [t EXCEPT ![2] = a] \in TestPair
             /\ [t EXCEPT ![2] = a][1] = t[1] /\ [t EXCEPT ![2] = a][2] = a
  <2>1. t[1] \in 0..2 /\ t[2] \in 0..2
    BY <1>2
  <2>2. /\ <<a, t[2]>> \in TestPair /\ <<a, t[2]>>[1] = a /\ <<a, t[2]>>[2] = t[2]
        /\ <<t[1], a>> \in TestPair /\ <<t[1], a>>[1] = t[1] /\ <<t[1], a>>[2] = a
    BY <1>4, <2>1
  <2> QED
    BY <1>3, <2>2
<1> QED
  BY <1>1, <1>2, <1>5

LEMMA DefaultConfig ==
  /\ Default \in AppConfig /\ IsChoice(Default.test) /\ NoCli \in CliState
  /\ NoCli.pc = "idle" /\ IsChoice(NoCli.cfg.test)
<1>1. Default \in AppConfig
  BY ConfigShape, Pairs DEF Default
<1>2. IsChoice(Default.test)
  BY Pairs DEF Default
<1> QED
  BY <1>1, <1>2, Pairs DEF NoCli, CliState, JobLists

\* The jobs of the commands, one by one.
LEMMA Jobs ==
  /\ \A jobs \in JobLists : \/ jobs = <<>>
                            \/ jobs = <<Job("theme", 1)>>
                            \/ jobs = <<Job("kill", TRUE), Job("theme", 1)>>
                            \/ jobs = <<Job("test", 2)>>
                            \/ jobs = <<Job("auto", FALSE)>>
  /\ CliFirst(<<>>) = "idle" /\ CliFirst(<<Job("theme", 1)>>) = "local"
  /\ CliFirst(<<Job("kill", TRUE), Job("theme", 1)>>) = "wait"
  /\ CliFirst(<<Job("test", 2)>>) = "fetch" /\ CliFirst(<<Job("auto", FALSE)>>) = "fetch"
  /\ Tail(<<Job("kill", TRUE), Job("theme", 1)>>) = <<Job("theme", 1)>>
  /\ Tail(<<Job("test", 2)>>) = <<>> /\ Tail(<<Job("auto", FALSE)>>) = <<>>
  /\ Head(<<Job("theme", 1)>>) = Job("theme", 1)
  /\ Head(<<Job("kill", TRUE), Job("theme", 1)>>) = Job("kill", TRUE)
  /\ Head(<<Job("test", 2)>>) = Job("test", 2) /\ Head(<<Job("auto", FALSE)>>) = Job("auto", FALSE)
  /\ <<Job("kill", TRUE), Job("theme", 1)>> # <<Job("test", 2)>>
  /\ <<Job("auto", FALSE)>> # <<Job("test", 2)>>
  /\ <<Job("theme", 1)>> # <<Job("test", 2)>>
<1>1. \A jobs \in JobLists : \/ jobs = <<>>
                             \/ jobs = <<Job("theme", 1)>>
                             \/ jobs = <<Job("kill", TRUE), Job("theme", 1)>>
                             \/ jobs = <<Job("test", 2)>>
                             \/ jobs = <<Job("auto", FALSE)>>
  BY DEF JobLists, CliCommands
<1>2. CliFirst(<<>>) = "idle" /\ CliFirst(<<Job("theme", 1)>>) = "local"
  BY DEF CliFirst, Job
<1>3. CliFirst(<<Job("kill", TRUE), Job("theme", 1)>>) = "wait"
  BY DEF CliFirst, Job, Begins
<1>4. CliFirst(<<Job("test", 2)>>) = "fetch" /\ CliFirst(<<Job("auto", FALSE)>>) = "fetch"
  BY DEF CliFirst, Job, Begins
<1>5. Tail(<<Job("kill", TRUE), Job("theme", 1)>>) = <<Job("theme", 1)>>
  OBVIOUS
<1>6. Tail(<<Job("test", 2)>>) = <<>> /\ Tail(<<Job("auto", FALSE)>>) = <<>>
  OBVIOUS
<1>7. /\ Head(<<Job("theme", 1)>>) = Job("theme", 1)
      /\ Head(<<Job("kill", TRUE), Job("theme", 1)>>) = Job("kill", TRUE)
      /\ Head(<<Job("test", 2)>>) = Job("test", 2) /\ Head(<<Job("auto", FALSE)>>) = Job("auto", FALSE)
  OBVIOUS
<1>8. Job("test", 2) # Job("kill", TRUE) /\ Job("test", 2) # Job("auto", FALSE) /\ Job("test", 2) # Job("theme", 1)
  BY DEF Job
<1> QED
  BY <1>1, <1>2, <1>3, <1>4, <1>5, <1>6, <1>7, <1>8

LEMMA JobKinds ==
  /\ Job("theme", 1).k = "theme" /\ Job("theme", 1).v = 1
  /\ Job("kill", TRUE).k = "kill" /\ Job("kill", TRUE).v = TRUE
  /\ Job("test", 2).k = "test" /\ Job("test", 2).v = 2
  /\ Job("auto", FALSE).k = "auto" /\ Job("auto", FALSE).v = FALSE
  BY DEF Job

LEMMA OneElement ==
  ASSUME NEW S, NEW s \in Seq(S), Len(s) <= 1, s # <<>>
  PROVE  Len(s) = 1 /\ Tail(s) = <<>> /\ ToSet(s) = {Head(s)} /\ Head(s) \in S
<1>1. Len(s) = 1
  <2>1. Len(s) \in Nat /\ Len(s) # 0
    OBVIOUS
  <2> QED
    BY <2>1, SMTT(30)
<1>2. DOMAIN s = {1} /\ Head(s) = s[1] /\ Head(s) \in S
  BY <1>1
<1>3. Tail(s) \in Seq(S) /\ Len(Tail(s)) = 0
  BY <1>1
<1>4. Tail(s) = <<>>
  BY <1>3
<1> QED
  BY <1>1, <1>2, <1>4 DEF ToSet

LEMMA OneMore ==
  ASSUME NEW S, NEW x \in S
  PROVE  /\ <<x>> \in Seq(S) /\ Append(<<>>, x) = <<x>> /\ Len(<<x>>) = 1 /\ ToSet(<<x>>) = {x}
         /\ <<>> \in Seq(S) /\ ToSet(<<>>) = {} /\ <<>> \o <<x>> = <<x>> /\ Len(<<>>) = 0
  BY DEF ToSet

LEMMA InitSettings == SettingsInit => SettingsInv
<1> SUFFICES ASSUME SettingsInit PROVE SettingsInv
  OBVIOUS
<1> DEFINE c == [Default EXCEPT !.auto = TRUE, !.last = 1, !.test = <<2, 1>>]
<1>1. c \in AppConfig /\ c.test = <<2, 1>>
  <2>1. Default \in AppConfig /\ <<2, 1>> \in TestPair /\ 1 \in 0..1
    BY DefaultConfig, Pairs
  <2>2. ASSUME NEW d \in AppConfig, NEW t \in TestPair, NEW i \in 0..1
        PROVE  /\ [d EXCEPT !.auto = TRUE, !.last = i, !.test = t] \in AppConfig
               /\ [d EXCEPT !.auto = TRUE, !.last = i, !.test = t].test = t
    BY ConfigShape
  <2> QED
    BY <2>1, <2>2
<1> HIDE DEF c
<1>2. file = [text |-> "good", c |-> c]
  BY DEF SettingsInit, c
<1>3. core \in CoreSettings /\ core.test = <<2, 1>>
  BY Pairs DEF SettingsInit, CoreSettings
<1>4. /\ asked = [tui |-> <<>>, cmd |-> <<>>] /\ told = [tui |-> <<>>, cmd |-> <<>>]
      /\ cmd = NoCli /\ handed = 0 /\ edited = FALSE /\ lost = FALSE
  BY DEF SettingsInit
<1>5. tui \in TuiState /\ tui.cfg = Default
  BY DefaultConfig, Pairs DEF SettingsInit, TuiState
<1>6. <<>> \in Seq(Ordered) /\ <<>> \in Seq(Answer) /\ ToSet(<<>>) = {} /\ Len(<<>>) = 0
  BY DEF ToSet
<1>7. SettingsTypeOK
  BY <1>1, <1>2, <1>3, <1>4, <1>5, <1>6, DefaultConfig DEF SettingsTypeOK
<1>8. CliInv
  BY <1>4, <1>6, DefaultConfig DEF CliInv
<1>9. CacheInv
  BY <1>1, <1>2, <1>3, <1>4, <1>5, <1>6, DefaultConfig, Pairs DEF CacheInv
<1>10. HandInv
  BY <1>2, <1>4 DEF HandInv
<1> QED
  BY <1>7, <1>8, <1>9, <1>10 DEF SettingsInv

\* What load_config makes of the file.
LEMMA Loads ==
  ASSUME SettingsInv
  PROVE  /\ Loaded \in AppConfig
         /\ Created \in [text : {"good", "broken", "missing"}, c : AppConfig]
         /\ edited \/ (IsChoice(Loaded.test) /\ IsChoice(Created.c.test))
         /\ lost \/ (Created = file /\ Loaded = file.c)
<1>1. file \in [text : {"good", "broken", "missing"}, c : AppConfig]
  BY DEF SettingsInv, SettingsTypeOK
<1>2. Loaded = file.c \/ Loaded = Default
  BY DEF Loaded
<1>3. Created = file \/ (Created = [text |-> "good", c |-> Default])
  BY DEF Created
<1>4. lost \/ file.text = "good"
  BY DEF SettingsInv, HandInv
<1>5. edited \/ IsChoice(file.c.test)
  BY DEF SettingsInv, CacheInv
<1>6. file.text = "good" => Created = file /\ Loaded = file.c
  BY DEF Created, Loaded
<1> QED
  BY <1>1, <1>2, <1>3, <1>4, <1>5, <1>6, DefaultConfig

\* A save puts the copy in place or leaves the file as it was.
LEMMA Saves ==
  ASSUME NEW f \in [text : {"good", "broken", "missing"}, c : AppConfig], NEW c \in AppConfig, Save(f, c)
  PROVE  /\ file' \in [text : {"good", "broken", "missing"}, c : AppConfig]
         /\ file'.c \in {c, f.c}
  BY DEF Save

LEMMA StartStep == ASSUME SettingsInv, NEW env \in Envs, TuiStart(env) PROVE SettingsInv'
<1> USE DEF SettingsInv
<1>0. PICK c \in AppConfig : /\ c = IF env THEN [Loaded EXCEPT !.level = "env"] ELSE Loaded
                             /\ c.test = Loaded.test /\ c.migr = Loaded.migr
  <2>1. Loaded \in AppConfig
    BY Loads
  <2> HIDE DEF SettingsInv
  <2>2. /\ [Loaded EXCEPT !.level = "env"] \in AppConfig
        /\ [Loaded EXCEPT !.level = "env"].test = Loaded.test /\ [Loaded EXCEPT !.level = "env"].migr = Loaded.migr
    BY <2>1, ConfigShape
  <2> QED
    BY <2>1, <2>2
<1>1. /\ file' = Created /\ UNCHANGED <<core, cmd, handed, edited, lost>>
      /\ tui' = [run |-> TRUE, cfg |-> c, kill |-> c.kill, test |-> c.test, auto |-> FALSE,
                 first |-> TRUE, connect |-> c.auto /\ c.last # 0 /\ ~c.migr]
      /\ asked' = [asked EXCEPT !.tui = <<[k |-> "state"]>>]
      /\ told' = [told EXCEPT !.tui = <<>>]
  BY <1>0 DEF TuiStart, settingsHistory
<1>2. tui' \in TuiState /\ tui'.cfg = c /\ tui'.run
  <2>1. (c.auto /\ c.last # 0 /\ ~c.migr) \in BOOLEAN
    OBVIOUS
  <2>2. c.kill \in BOOLEAN /\ c.test \in TestPair
    BY ConfigShape
  <2> QED
    BY <1>1, <2>1, <2>2 DEF TuiState
<1>3. [k |-> "state"] \in Ordered
  BY DEF Ordered
<1>4. /\ asked'.tui = <<[k |-> "state"]>> /\ asked'.cmd = asked.cmd /\ told'.tui = <<>> /\ told'.cmd = told.cmd
      /\ asked' \in [tui : Seq(Ordered), cmd : Seq(Ordered)] /\ told' \in [tui : Seq(Answer), cmd : Seq(Answer)]
      /\ ToSet(asked'.tui) = {[k |-> "state"]} /\ ToSet(told'.tui) = {}
  <2>1. <<[k |-> "state"]>> \in Seq(Ordered) /\ ToSet(<<[k |-> "state"]>>) = {[k |-> "state"]}
    BY <1>3, OneMore
  <2>2. <<>> \in Seq(Answer) /\ ToSet(<<>>) = {}
    BY DEF ToSet
  <2> QED
    BY <1>1, <2>1, <2>2 DEF SettingsTypeOK
<1>5. SettingsTypeOK'
  BY <1>1, <1>2, <1>4, Loads DEF SettingsTypeOK
<1>6. CliInv'
  BY <1>1, <1>4 DEF CliInv
<1>7. CacheInv'
  BY <1>0, <1>1, <1>2, <1>4, Loads DEF CacheInv
<1>8. HandInv'
  BY <1>0, <1>1, <1>2, Loads DEF HandInv
<1> QED
  BY <1>5, <1>6, <1>7, <1>8

LEMMA ExitStep == ASSUME SettingsInv, NEW saves \in BOOLEAN, TuiStop(saves) PROVE SettingsInv'
<1> USE DEF SettingsInv
<1>1. /\ tui.run /\ tui' = [tui EXCEPT !.run = FALSE]
      /\ IF saves THEN Save(file, tui.cfg) /\ Slipped(tui.cfg) ELSE UNCHANGED <<file, lost>>
      /\ UNCHANGED <<core, cmd, asked, told, handed, edited>>
  BY DEF TuiStop, Quiet, settingsHistory
<1>2. tui' \in TuiState /\ tui'.cfg = tui.cfg /\ ~tui'.run /\ tui.cfg \in AppConfig
  BY <1>1 DEF SettingsTypeOK, TuiState
<1>3. /\ file' \in [text : {"good", "broken", "missing"}, c : AppConfig]
      /\ file'.c \in {tui.cfg, file.c} /\ lost' \in BOOLEAN
      /\ lost' \/ (~lost /\ file' = file) \/ (~lost /\ file'.text = "good" /\ file'.c = tui.cfg)
  BY <1>1, <1>2, Saves DEF Slipped, SettingsTypeOK
<1>4. SettingsTypeOK'
  BY <1>1, <1>2, <1>3 DEF SettingsTypeOK
<1>5. CliInv'
  BY <1>1 DEF CliInv
<1>6. CacheInv'
  BY <1>1, <1>2, <1>3 DEF CacheInv
<1>7. HandInv'
  BY <1>1, <1>2, <1>3 DEF HandInv
<1> QED
  BY <1>4, <1>5, <1>6, <1>7

\* A request of the interface: it carries a choice, unless "edited" records that it does not.
LEMMA Asks ==
  ASSUME NEW a \in [tui : Seq(Ordered), cmd : Seq(Ordered)], NEW r \in Ordered,
         NEW b, b = [a EXCEPT !["tui"] = Append(@, r)]
  PROVE  /\ b \in [tui : Seq(Ordered), cmd : Seq(Ordered)] /\ b.cmd = a.cmd
         /\ ToSet(b.tui) = ToSet(a.tui) \cup {r}
<1>1. Append(a.tui, r) \in Seq(Ordered) /\ ToSet(Append(a.tui, r)) = ToSet(a.tui) \cup {r}
  BY SetOfAppend
<1> QED
  BY <1>1

LEMMA ActivateStep ==
  ASSUME SettingsInv, NEW item \in {"level", "kill", "test", "auto"}, Activate(item) PROVE SettingsInv'
<1> USE DEF SettingsInv
<1>0. PICK test : test = [tui.test EXCEPT ![1] = Cycle(@)]
  OBVIOUS
<1>1. test \in TestPair /\ (0 \notin {test[1], test[2]} => IsChoice(test))
  <2>1. tui.test \in TestPair
    BY DEF SettingsTypeOK, TuiState
  <2>2. Cycle(tui.test[1]) \in 0..2
    BY DEF Cycle
  <2> QED
    BY <1>0, <2>1, <2>2, Pairs DEF IsChoice
<1>2. PICK c : c = CASE item = "level" -> [tui.cfg EXCEPT !.level = IF @ = "warn" THEN "debug" ELSE "warn"]
                     [] item = "test" -> PersistTest(test)
                     [] OTHER -> tui.cfg
  OBVIOUS
<1>3. tui.cfg \in AppConfig
  BY DEF SettingsTypeOK, TuiState
<1>4. c \in AppConfig /\ c.migr = tui.cfg.migr /\ c.test = IF item = "test" THEN test ELSE tui.cfg.test
  BY <1>1, <1>2, <1>3, ConfigShape DEF PersistTest
<1>5. \/ file' = [text |-> "good", c |-> c] /\ lost' = lost
      \/ file' = file /\ lost' = TRUE
      \/ file' = file /\ lost' = lost /\ c = tui.cfg
  <2>1. CASE c = tui.cfg
    BY <2>1, <1>0, <1>2 DEF Activate
  <2>2. CASE c # tui.cfg
    BY <2>2, <1>0, <1>2 DEF Activate
  <2> QED
    BY <2>1, <2>2
<1>6. /\ tui.run /\ tui' = [tui EXCEPT !.cfg = c, !.test = IF item = "test" THEN test ELSE @]
      /\ edited' = (edited \/ (item = "test" /\ 0 \in {test[1], test[2]}))
      /\ UNCHANGED <<core, told, cmd, handed>>
  BY <1>0, <1>2 DEF Activate
<1>7. tui' \in TuiState /\ tui'.cfg = c /\ tui'.run
  BY <1>1, <1>4, <1>6 DEF SettingsTypeOK, TuiState
<1>8. \/ UNCHANGED asked
      \/ \E r \in Ordered : /\ asked' = [asked EXCEPT !["tui"] = Append(@, r)]
                            /\ r.k = "test" => item = "test" /\ r.v = test
  <2>1. tui \in TuiState
    BY DEF SettingsTypeOK
  <2>2. /\ [k |-> "kill", v |-> ~tui.kill] \in Ordered /\ [k |-> "auto", v |-> ~tui.auto] \in Ordered
        /\ [k |-> "test", v |-> test] \in Ordered
    BY <1>1, <2>1 DEF Ordered, TuiState
  <2>3. CASE item = "kill"
    <3>1. asked' = [asked EXCEPT !["tui"] = Append(@, [k |-> "kill", v |-> ~tui.kill])]
      BY <2>3 DEF Activate, Ask
    <3> QED
      BY <2>2, <3>1
  <2>4. CASE item = "auto"
    <3>1. asked' = [asked EXCEPT !["tui"] = Append(@, [k |-> "auto", v |-> ~tui.auto])]
      BY <2>4 DEF Activate, Ask
    <3> QED
      BY <2>2, <3>1
  <2>5. CASE item = "test"
    <3>1. asked' = [asked EXCEPT !["tui"] = Append(@, [k |-> "test", v |-> test])]
      BY <1>0, <2>5 DEF Activate, Ask
    <3> QED
      BY <2>2, <2>5, <3>1
  <2>6. CASE item = "level"
    BY <2>6 DEF Activate
  <2> QED
    BY <2>3, <2>4, <2>5, <2>6
<1>9. /\ asked' \in [tui : Seq(Ordered), cmd : Seq(Ordered)] /\ asked'.cmd = asked.cmd
      /\ \A r \in ToSet(asked'.tui) : r \in ToSet(asked.tui) \/ (r.k = "test" => item = "test" /\ r.v = test)
  <2>1. asked \in [tui : Seq(Ordered), cmd : Seq(Ordered)]
    BY DEF SettingsTypeOK
  <2>2. CASE UNCHANGED asked
    BY <2>1, <2>2
  <2>3. ASSUME NEW r \in Ordered, asked' = [asked EXCEPT !["tui"] = Append(@, r)],
               r.k = "test" => item = "test" /\ r.v = test
        PROVE  /\ asked' \in [tui : Seq(Ordered), cmd : Seq(Ordered)] /\ asked'.cmd = asked.cmd
               /\ ToSet(asked'.tui) = ToSet(asked.tui) \cup {r}
    BY <2>1, <2>3, Asks
  <2> QED
    BY <1>8, <2>2, <2>3
<1>10. SettingsTypeOK'
  <2>1. file' \in [text : {"good", "broken", "missing"}, c : AppConfig] /\ lost' \in BOOLEAN
    <3>1. [text |-> "good", c |-> c] \in [text : {"good", "broken", "missing"}, c : AppConfig]
      BY <1>4
    <3> QED
      BY <1>5, <3>1 DEF SettingsTypeOK
  <2>2. edited' \in BOOLEAN
    BY <1>6
  <2> QED
    BY <1>6, <1>7, <1>9, <2>1, <2>2 DEF SettingsTypeOK
<1>11. CliInv'
  BY <1>6, <1>9 DEF CliInv
<1>12. CacheInv'
  <2> SUFFICES ASSUME ~edited' PROVE CacheInv'
    BY DEF CacheInv
  <2>1. ~edited /\ (item = "test" => IsChoice(test))
    BY <1>1, <1>6 DEF SettingsTypeOK
  <2>2. IsChoice(c.test)
    BY <1>4, <2>1 DEF CacheInv
  <2>3. IsChoice(file'.c.test)
    BY <1>5, <2>1, <2>2 DEF CacheInv
  <2>4. \A r \in ToSet(asked'.tui) \cup ToSet(asked'.cmd) : r.k = "test" => IsChoice(r.v)
    BY <1>9, <2>1 DEF CacheInv
  <2> QED
    BY <1>6, <1>7, <1>9, <2>1, <2>2, <2>3, <2>4 DEF CacheInv
<1>13. HandInv'
  BY <1>4, <1>5, <1>6, <1>7 DEF HandInv
<1> QED
  BY <1>10, <1>11, <1>12, <1>13

\* What an application state does to the interface's copy of config.toml.
LEMMA Applied ==
  ASSUME NEW s \in CoreSettings, tui \in TuiState
  PROVE  /\ ApplyState(s).cfg \in AppConfig /\ ApplyState(s).hands \in BOOLEAN /\ ApplyState(s).connect \in BOOLEAN
         /\ ApplyState(s).cfg.test \in {tui.cfg.test, s.test}
         /\ s.damaged => ApplyState(s).cfg.test = tui.cfg.test
         /\ ApplyState(s).hands => /\ ~tui.cfg.migr /\ ApplyState(s).cfg.migr /\ ApplyState(s).saves
         /\ ~ApplyState(s).hands => ApplyState(s).cfg.migr = tui.cfg.migr
         /\ ~ApplyState(s).saves => ApplyState(s).cfg = tui.cfg
<1>0. PICK c : c = IF s.damaged THEN tui.cfg ELSE [tui.cfg EXCEPT !.kill = s.kill, !.test = s.test]
  OBVIOUS
<1>1. /\ c \in AppConfig /\ c.migr = tui.cfg.migr
      /\ c.test = IF s.damaged THEN tui.cfg.test ELSE s.test
  BY <1>0, ConfigShape DEF CoreSettings, TuiState
<1>2. PICK hands : hands = (tui.first /\ ~s.damaged /\ ~c.migr /\ c.auto /\ c.last # 0)
  OBVIOUS
<1>3. hands \in BOOLEAN
  BY <1>2
<1>4. PICK d : d = [c EXCEPT !.migr = @ \/ hands]
  OBVIOUS
<1>5. c.migr \in BOOLEAN
  BY <1>1, ConfigShape
<1>6. /\ d \in AppConfig /\ d.test = c.test /\ d.migr = (c.migr \/ hands)
      /\ ~hands => d = c
  <2>1. PICK m \in BOOLEAN : m = (c.migr \/ hands)
    OBVIOUS
  <2>2. d = [c EXCEPT !.migr = m]
    BY <1>1, <1>4, <2>1, ConfigShape
  <2>3. d \in AppConfig /\ d.test = c.test /\ d.migr = m
    BY <1>1, <2>2, ConfigShape
  <2>4. ~hands => m = c.migr
    BY <1>5, <2>1
  <2>5. m = c.migr => d = c
    BY <1>1, <2>2, ConfigShape
  <2> QED
    BY <2>1, <2>3, <2>4, <2>5
<1>7. ApplyState(s) = [cfg |-> d, hands |-> hands, saves |-> c # tui.cfg \/ hands,
                       connect |-> tui.first /\ tui.connect /\ s.conn = 0]
  BY <1>0, <1>2, <1>4 DEF ApplyState
<1>8. (tui.first /\ tui.connect /\ s.conn = 0) \in BOOLEAN
  OBVIOUS
<1>9. /\ ApplyState(s).cfg = d /\ ApplyState(s).hands = hands /\ ApplyState(s).saves = (c # tui.cfg \/ hands)
      /\ ApplyState(s).connect \in BOOLEAN
  BY <1>7, <1>8
<1>10. hands => ~c.migr
  BY <1>2
<1>11. (s.damaged => c.test = tui.cfg.test) /\ c.test \in {tui.cfg.test, s.test}
  BY <1>1
<1>12. d \in AppConfig /\ d.test \in {tui.cfg.test, s.test} /\ (s.damaged => d.test = tui.cfg.test)
  BY <1>6, <1>11
<1>13. hands => ~tui.cfg.migr /\ d.migr
  BY <1>1, <1>6, <1>10
<1>14. ~hands => d.migr = tui.cfg.migr
  BY <1>1, <1>6
<1>15. ~(c # tui.cfg \/ hands) => d = tui.cfg
  BY <1>6
<1> QED
  BY <1>3, <1>9, <1>12, <1>13, <1>14, <1>15

LEMMA StateStep ==
  ASSUME SettingsInv, told.tui # <<>>, tui.run, HandleState, told' = [told EXCEPT !.tui = Tail(@)],
         UNCHANGED <<core, cmd, edited>>
  PROVE  SettingsInv'
<1> USE DEF SettingsInv
<1>0. PICK s, r : s = Head(told.tui).s /\ r = ApplyState(s)
  OBVIOUS
<1>1. Head(told.tui).k = "state" /\ told.tui \in Seq(Answer)
  BY DEF HandleState, SettingsTypeOK
<1>2. /\ Head(told.tui) \in Answer /\ Tail(told.tui) \in Seq(Answer)
      /\ ToSet(told.tui) = {Head(told.tui)} \cup ToSet(Tail(told.tui))
  BY <1>1, SetOfTail
<1>3. s \in CoreSettings
  BY <1>0, <1>1, <1>2 DEF Answer
<1>4. tui \in TuiState
  BY DEF SettingsTypeOK
<1>5. /\ r.cfg \in AppConfig /\ r.hands \in BOOLEAN /\ r.connect \in BOOLEAN
      /\ r.cfg.test \in {tui.cfg.test, s.test}
      /\ s.damaged => r.cfg.test = tui.cfg.test
      /\ r.hands => /\ ~tui.cfg.migr /\ r.cfg.migr /\ r.saves
      /\ ~r.hands => r.cfg.migr = tui.cfg.migr
      /\ ~r.saves => r.cfg = tui.cfg
  BY <1>0, <1>3, <1>4, Applied
<1>6. PICK sends : sends = (IF r.hands THEN <<[k |-> "auto", v |-> TRUE]>> ELSE <<>>)
                             \o (IF r.connect THEN <<[k |-> "connect", v |-> 1]>> ELSE <<>>)
  OBVIOUS
<1>7. /\ tui' = [tui EXCEPT !.cfg = r.cfg, !.kill = s.kill, !.test = s.test, !.auto = s.auto, !.first = FALSE,
                            !.connect = @ /\ ~r.connect]
      /\ IF r.saves THEN Save(file, r.cfg) /\ Slipped(r.cfg) ELSE UNCHANGED <<file, count, lost>>
      /\ asked' = [asked EXCEPT !.tui = @ \o sends]
      /\ handed' = handed + (IF r.hands THEN 1 ELSE 0)
  BY <1>0, <1>6 DEF HandleState
<1>8. tui' \in TuiState /\ tui'.cfg = r.cfg /\ tui'.run
  <2>1. PICK b \in BOOLEAN : b = (tui.connect /\ ~r.connect)
    OBVIOUS
  <2>2. tui' = [tui EXCEPT !.cfg = r.cfg, !.kill = s.kill, !.test = s.test, !.auto = s.auto, !.first = FALSE, !.connect = b]
    BY <1>4, <1>7, <2>1 DEF TuiState
  <2>3. s.kill \in BOOLEAN /\ s.test \in TestPair /\ s.auto \in BOOLEAN
    BY <1>3 DEF CoreSettings
  <2> QED
    BY <1>4, <1>5, <2>2, <2>3 DEF TuiState
<1>9. sends \in Seq(Ordered) /\ \A q \in ToSet(sends) : q.k # "test"
  <2>1. PICK a, b : a = [k |-> "auto", v |-> TRUE] /\ b = [k |-> "connect", v |-> 1]
    OBVIOUS
  <2>2. a \in Ordered /\ a.k # "test" /\ b \in Ordered /\ b.k # "test"
    BY <2>1 DEF Ordered
  <2>3. PICK x, y : x = (IF r.hands THEN <<a>> ELSE <<>>) /\ y = (IF r.connect THEN <<b>> ELSE <<>>)
    OBVIOUS
  <2>4. /\ x \in Seq(Ordered) /\ ToSet(x) \subseteq {a}
        /\ y \in Seq(Ordered) /\ ToSet(y) \subseteq {b}
    <3>1. /\ <<a>> \in Seq(Ordered) /\ ToSet(<<a>>) = {a} /\ <<>> \in Seq(Ordered) /\ ToSet(<<>>) = {}
          /\ <<b>> \in Seq(Ordered) /\ ToSet(<<b>>) = {b}
      BY <2>2, OneMore
    <3> QED
      BY <2>3, <3>1
  <2>5. sends = x \o y
    BY <1>6, <2>1, <2>3
  <2>6. x \o y \in Seq(Ordered) /\ ToSet(x \o y) = ToSet(x) \cup ToSet(y)
    BY <2>4, SetOfConcat
  <2> QED
    BY <2>2, <2>4, <2>5, <2>6
<1>10. /\ asked' \in [tui : Seq(Ordered), cmd : Seq(Ordered)] /\ asked'.cmd = asked.cmd
       /\ ToSet(asked'.tui) = ToSet(asked.tui) \cup ToSet(sends)
  <2>1. asked \in [tui : Seq(Ordered), cmd : Seq(Ordered)]
    BY DEF SettingsTypeOK
  <2>2. asked.tui \o sends \in Seq(Ordered) /\ ToSet(asked.tui \o sends) = ToSet(asked.tui) \cup ToSet(sends)
    BY <1>9, <2>1, SetOfConcat
  <2> QED
    BY <1>7, <2>1, <2>2
<1>11. /\ told' \in [tui : Seq(Answer), cmd : Seq(Answer)] /\ told'.cmd = told.cmd /\ told'.tui = Tail(told.tui)
  BY <1>2 DEF SettingsTypeOK
<1>12. /\ file' \in [text : {"good", "broken", "missing"}, c : AppConfig]
       /\ file'.c \in {r.cfg, file.c} /\ lost' \in BOOLEAN
       /\ lost' \/ (r.saves /\ ~lost /\ file'.text = "good" /\ file'.c = r.cfg) \/ (~r.saves /\ ~lost /\ file' = file)
  <2>1. CASE r.saves
    BY <2>1, <1>5, <1>7, Saves DEF Slipped, SettingsTypeOK
  <2>2. CASE ~r.saves
    BY <2>2, <1>7 DEF SettingsTypeOK
  <2> QED
    BY <2>1, <2>2
<1>13. SettingsTypeOK'
  <2>1. handed' \in Nat
    BY <1>7 DEF SettingsTypeOK
  <2> QED
    BY <1>8, <1>10, <1>11, <1>12, <2>1 DEF SettingsTypeOK
<1>14. CliInv'
  BY <1>10, <1>11 DEF CliInv
<1>15. CacheInv'
  <2> SUFFICES ASSUME ~edited PROVE CacheInv'
    BY DEF CacheInv, SettingsTypeOK
  <2>1. IsChoice(r.cfg.test)
    BY <1>0, <1>1, <1>2, <1>5 DEF CacheInv
  <2>2. IsChoice(file'.c.test) /\ IsChoice(tui'.cfg.test)
    BY <2>1, <1>8, <1>12 DEF CacheInv
  <2>3. \A q \in ToSet(asked'.tui) \cup ToSet(asked'.cmd) : q.k = "test" => IsChoice(q.v)
    BY <1>9, <1>10 DEF CacheInv
  <2>4. \A f \in ToSet(told'.tui) : f.k = "state" => f.s.damaged \/ IsChoice(f.s.test)
    BY <1>2, <1>11 DEF CacheInv
  <2> QED
    BY <2>2, <2>3, <2>4, <1>10, <1>11 DEF CacheInv
<1>16. HandInv'
  <2> SUFFICES ASSUME ~lost' PROVE HandInv'
    BY DEF HandInv
  <2>1. ~lost /\ file.text = "good" /\ handed <= 1 /\ (handed = 1 => file.c.migr /\ tui.cfg.migr) /\ handed \in Nat
    BY <1>12 DEF HandInv, SettingsTypeOK
  <2>2. CASE r.hands
    <3>1. handed = 0 /\ handed' = 1
      BY <1>5, <1>7, <2>1, <2>2
    <3> QED
      BY <1>5, <1>8, <1>12, <2>2, <3>1 DEF HandInv
  <2>3. CASE ~r.hands
    <3>1. handed' = handed
      BY <1>7, <2>1, <2>3
    <3>2. file'.text = "good" /\ (handed = 1 => file'.c.migr)
      BY <1>5, <1>12, <2>1, <2>3
    <3> QED
      BY <1>5, <1>8, <2>1, <2>3, <3>1, <3>2 DEF HandInv
  <2> QED
    BY <1>5, <2>2, <2>3
<1> QED
  BY <1>13, <1>14, <1>15, <1>16

LEMMA AnswerStep ==
  ASSUME SettingsInv, told.tui # <<>>, tui.run, HandleAnswer, told' = [told EXCEPT !.tui = Tail(@)],
         UNCHANGED <<core, cmd, edited>>
  PROVE  SettingsInv'
<1> USE DEF SettingsInv
<1>0. PICK f : f = Head(told.tui)
  OBVIOUS
<1>1. told.tui \in Seq(Answer) /\ asked \in [tui : Seq(Ordered), cmd : Seq(Ordered)] /\ tui \in TuiState
  BY DEF SettingsTypeOK
<1>2. f \in Answer /\ Tail(told.tui) \in Seq(Answer) /\ ToSet(told.tui) = {f} \cup ToSet(Tail(told.tui))
  BY <1>0, <1>1, SetOfTail
<1>3. PICK c : c = CASE f.k = "kill" -> [tui.cfg EXCEPT !.kill = f.v]
                     [] f.k = "status" /\ f.v # 0 -> [tui.cfg EXCEPT !.last = f.v]
                     [] OTHER -> tui.cfg
  OBVIOUS
<1>4. /\ f.k # "state"
      /\ tui' = [tui EXCEPT !.cfg = c, !.kill = IF f.k = "kill" THEN f.v ELSE @,
                            !.test = IF f.k = "test" THEN f.v ELSE @,
                            !.auto = IF f.k = "auto" THEN f.v ELSE @]
      /\ IF c # tui.cfg \/ (f.k = "status" /\ f.v # 0) THEN Save(file, c) /\ Slipped(c) ELSE UNCHANGED <<file, count, lost>>
      /\ CASE f.k = "status" /\ f.v # 0 /\ tui.auto -> Ask("tui", [k |-> "auto", v |-> TRUE])
           [] f.k = "reconnected" -> Ask("tui", [k |-> "state"])
           [] OTHER -> UNCHANGED asked
      /\ UNCHANGED handed
  BY <1>0, <1>3 DEF HandleAnswer
<1>5. /\ f.k \in {"kill", "auto"} => f.v \in BOOLEAN
      /\ f.k = "test" => f.v \in TestPair
      /\ f.k = "status" => f.v \in 0..1
  BY <1>2 DEF Answer
<1>6. c \in AppConfig /\ c.migr = tui.cfg.migr /\ c.test = tui.cfg.test
  <2>1. tui.cfg \in AppConfig
    BY <1>1 DEF TuiState
  <2>2. ASSUME NEW d \in AppConfig, NEW b \in BOOLEAN, NEW i \in 0..1
        PROVE  /\ [d EXCEPT !.kill = b] \in AppConfig /\ [d EXCEPT !.kill = b].migr = d.migr
               /\ [d EXCEPT !.kill = b].test = d.test
               /\ [d EXCEPT !.last = i] \in AppConfig /\ [d EXCEPT !.last = i].migr = d.migr
               /\ [d EXCEPT !.last = i].test = d.test
    BY ConfigShape
  <2>3. CASE f.k = "kill"
    <3>1. PICK b \in BOOLEAN : b = f.v
      BY <1>5, <2>3
    <3>2. PICK d \in AppConfig : d = tui.cfg
      BY <2>1
    <3>3. c = [d EXCEPT !.kill = b]
      BY <1>3, <2>3, <3>1, <3>2
    <3>4. c \in AppConfig /\ c.migr = d.migr /\ c.test = d.test
      BY <3>3, ConfigShape
    <3> QED
      BY <3>2, <3>4
  <2>4. CASE f.k = "status" /\ f.v # 0
    <3>1. PICK i \in 0..1 : i = f.v
      BY <1>5, <2>4
    <3>2. PICK d \in AppConfig : d = tui.cfg
      BY <2>1
    <3>3. c = [d EXCEPT !.last = i]
      BY <1>3, <2>4, <3>1, <3>2
    <3>4. c \in AppConfig /\ c.migr = d.migr /\ c.test = d.test
      BY <2>2, <3>3
    <3> QED
      BY <3>2, <3>4
  <2>5. CASE f.k # "kill" /\ ~(f.k = "status" /\ f.v # 0)
    BY <1>3, <2>1, <2>5
  <2> QED
    BY <2>3, <2>4, <2>5
<1>7. tui' \in TuiState /\ tui'.cfg = c /\ tui'.run
  <2>1. PICK k \in BOOLEAN, t \in TestPair, a \in BOOLEAN :
          /\ k = IF f.k = "kill" THEN f.v ELSE tui.kill
          /\ t = IF f.k = "test" THEN f.v ELSE tui.test
          /\ a = IF f.k = "auto" THEN f.v ELSE tui.auto
    BY <1>1, <1>5 DEF TuiState
  <2>2. tui' = [tui EXCEPT !.cfg = c, !.kill = k, !.test = t, !.auto = a]
    BY <1>1, <1>4, <2>1 DEF TuiState
  <2> QED
    BY <1>1, <1>6, <2>2 DEF TuiState
<1>8. /\ asked' \in [tui : Seq(Ordered), cmd : Seq(Ordered)] /\ asked'.cmd = asked.cmd
      /\ \A r \in ToSet(asked'.tui) : r \in ToSet(asked.tui) \/ r.k # "test"
  <2>1. PICK a, s : a = [k |-> "auto", v |-> TRUE] /\ s = [k |-> "state"]
    OBVIOUS
  <2>2. a \in Ordered /\ a.k # "test" /\ s \in Ordered /\ s.k # "test"
    BY <2>1 DEF Ordered
  <2>3. \/ asked' = [asked EXCEPT !["tui"] = Append(@, a)]
        \/ asked' = [asked EXCEPT !["tui"] = Append(@, s)]
        \/ asked' = asked
    BY <1>4, <2>1 DEF Ask
  <2>4. ASSUME NEW r \in Ordered, r.k # "test", asked' = [asked EXCEPT !["tui"] = Append(@, r)]
        PROVE  /\ asked' \in [tui : Seq(Ordered), cmd : Seq(Ordered)] /\ asked'.cmd = asked.cmd
               /\ ToSet(asked'.tui) = ToSet(asked.tui) \cup {r}
    BY <1>1, <2>4, Asks
  <2> QED
    BY <1>1, <2>2, <2>3, <2>4
<1>9. told' \in [tui : Seq(Answer), cmd : Seq(Answer)] /\ told'.cmd = told.cmd /\ told'.tui = Tail(told.tui)
  BY <1>2 DEF SettingsTypeOK
<1>10. /\ file' \in [text : {"good", "broken", "missing"}, c : AppConfig]
       /\ file'.c \in {c, file.c} /\ lost' \in BOOLEAN
       /\ lost' \/ (~lost /\ file'.text = "good" /\ file'.c = c) \/ (~lost /\ file' = file)
  <2>1. CASE c # tui.cfg \/ (f.k = "status" /\ f.v # 0)
    BY <2>1, <1>4, <1>6, Saves DEF Slipped, SettingsTypeOK
  <2>2. CASE ~(c # tui.cfg \/ (f.k = "status" /\ f.v # 0))
    BY <2>2, <1>4 DEF SettingsTypeOK
  <2> QED
    BY <2>1, <2>2
<1>11. SettingsTypeOK'
  BY <1>4, <1>7, <1>8, <1>9, <1>10 DEF SettingsTypeOK
<1>12. CliInv'
  BY <1>8, <1>9 DEF CliInv
<1>13. CacheInv'
  BY <1>2, <1>6, <1>7, <1>8, <1>9, <1>10 DEF CacheInv
<1>14. HandInv'
  BY <1>4, <1>6, <1>7, <1>10 DEF HandInv
<1> QED
  BY <1>11, <1>12, <1>13, <1>14

\* What the command does first for a list of jobs.
LEMMA FirstSteps ==
  ASSUME NEW jobs \in JobLists
  PROVE  /\ CliFirst(jobs) \in {"idle", "fetch", "wait", "local"}
         /\ CliFirst(jobs) \in {"fetch", "wait"} => jobs \notin {<<>>, <<Job("theme", 1)>>}
         /\ CliFirst(jobs) = "local" => jobs = <<Job("theme", 1)>>
         /\ CliFirst(jobs) = "wait" => jobs # <<Job("test", 2)>>
  BY Jobs

LEMMA CliAsks ==
  ASSUME NEW a \in [tui : Seq(Ordered), cmd : Seq(Ordered)], a.cmd = <<>>, NEW r \in Ordered,
         NEW b, b = [a EXCEPT !["cmd"] = Append(@, r)]
  PROVE  /\ b \in [tui : Seq(Ordered), cmd : Seq(Ordered)] /\ b.tui = a.tui
         /\ Len(b.cmd) = 1 /\ ToSet(b.cmd) = {r}
<1>1. Append(<<>>, r) \in Seq(Ordered) /\ Len(Append(<<>>, r)) = 1 /\ ToSet(Append(<<>>, r)) = {r}
  BY OneMore
<1>2. b = [tui |-> a.tui, cmd |-> Append(<<>>, r)]
  OBVIOUS
<1> QED
  BY <1>1, <1>2

\* The request that opens a list of jobs.
LEMMA Sends ==
  ASSUME asked \in [tui : Seq(Ordered), cmd : Seq(Ordered)], asked.cmd = <<>>, NEW jobs \in JobLists, SendFirst(jobs)
  PROVE  /\ asked' \in [tui : Seq(Ordered), cmd : Seq(Ordered)] /\ asked'.tui = asked.tui
         /\ asked'.cmd = <<>> \/ Len(asked'.cmd) = 1
         /\ \A r \in ToSet(asked'.cmd) : r.k # "test"
         /\ CliFirst(jobs) \in {"idle", "local"} => asked'.cmd = <<>>
         /\ CliFirst(jobs) = "fetch" => \A r \in ToSet(asked'.cmd) : r.k = "state"
<1>1. CASE CliFirst(jobs) \in {"idle", "local"}
  BY <1>1, OneMore DEF SendFirst
<1>2. CASE CliFirst(jobs) \notin {"idle", "local"}
  <2>1. PICK r : r = FirstRequest(Head(jobs))
    OBVIOUS
  <2>2. r \in Ordered /\ r.k # "test" /\ (CliFirst(jobs) = "fetch" => r.k = "state")
    <3>1. CASE jobs = <<Job("kill", TRUE), Job("theme", 1)>>
      BY <2>1, <3>1, Jobs, JobKinds DEF FirstRequest, Ordered
    <3>2. CASE jobs = <<Job("test", 2)>> \/ jobs = <<Job("auto", FALSE)>>
      BY <2>1, <3>2, Jobs, JobKinds DEF FirstRequest, Ordered
    <3> QED
      BY <1>2, <3>1, <3>2, Jobs
  <2>3. asked' = [asked EXCEPT !["cmd"] = Append(@, r)]
    BY <1>2, <2>1 DEF SendFirst, Ask
  <2>4. /\ asked' \in [tui : Seq(Ordered), cmd : Seq(Ordered)] /\ asked'.tui = asked.tui
        /\ Len(asked'.cmd) = 1 /\ ToSet(asked'.cmd) = {r}
    BY <2>2, <2>3, CliAsks
  <2> QED
    BY <1>2, <2>2, <2>4
<1> QED
  BY <1>1, <1>2

LEMMA OpenStep == ASSUME SettingsInv, NEW jobs \in CliCommands, CliOpen(jobs) PROVE SettingsInv'
<1> USE DEF SettingsInv
<1>1. /\ cmd.pc = "idle" /\ jobs \in JobLists
      /\ asked \in [tui : Seq(Ordered), cmd : Seq(Ordered)] /\ asked.cmd = <<>> /\ told.cmd = <<>>
  BY DEF CliOpen, JobLists, SettingsTypeOK, CliInv
<1>2. PICK c \in AppConfig : c = Loaded /\ (edited \/ IsChoice(c.test))
  BY Loads
<1>3. /\ cmd' = [NoCli EXCEPT !.pc = CliFirst(jobs), !.jobs = jobs, !.cfg = c]
      /\ told' = [told EXCEPT !.cmd = <<>>] /\ SendFirst(jobs)
      /\ file' \in {file, Created} /\ UNCHANGED <<core, tui, handed, edited, lost>>
  BY <1>2 DEF CliOpen, CliKeeps
<1>4. /\ cmd' \in CliState /\ cmd'.pc = CliFirst(jobs) /\ cmd'.jobs = jobs /\ cmd'.cfg = c
  BY <1>1, <1>3, FirstSteps, DefaultConfig DEF CliState
<1>5. /\ told' \in [tui : Seq(Answer), cmd : Seq(Answer)] /\ told'.tui = told.tui /\ told'.cmd = <<>>
      /\ ToSet(told'.cmd) = {} /\ Len(told'.cmd) = 0
  <2>1. <<>> \in Seq(Answer) /\ ToSet(<<>>) = {} /\ Len(<<>>) = 0
    BY DEF ToSet
  <2> QED
    BY <1>3, <2>1 DEF SettingsTypeOK
<1>6. /\ asked' \in [tui : Seq(Ordered), cmd : Seq(Ordered)] /\ asked'.tui = asked.tui
      /\ asked'.cmd = <<>> \/ Len(asked'.cmd) = 1
      /\ \A r \in ToSet(asked'.cmd) : r.k # "test"
      /\ CliFirst(jobs) \in {"idle", "local"} => asked'.cmd = <<>>
      /\ CliFirst(jobs) = "fetch" => \A r \in ToSet(asked'.cmd) : r.k = "state"
  BY <1>1, <1>3, Sends
<1>7. /\ file' \in [text : {"good", "broken", "missing"}, c : AppConfig]
      /\ edited \/ IsChoice(file'.c.test)
      /\ lost \/ file' = file
  BY <1>3, Loads DEF SettingsTypeOK, CacheInv
<1>8. SettingsTypeOK'
  BY <1>3, <1>4, <1>5, <1>6, <1>7 DEF SettingsTypeOK
<1>9. CliInv'
  BY <1>1, <1>4, <1>5, <1>6, FirstSteps DEF CliInv
<1>10. CacheInv'
  BY <1>1, <1>2, <1>3, <1>4, <1>5, <1>6, <1>7, FirstSteps DEF CacheInv
<1>11. HandInv'
  BY <1>3, <1>7 DEF HandInv
<1> QED
  BY <1>8, <1>9, <1>10, <1>11

\* While the command waits and has an answer, that is all there is between it and the core.
LEMMA Answered ==
  ASSUME SettingsInv, cmd.pc \in {"fetch", "wait"}, told.cmd # <<>>
  PROVE  /\ asked \in [tui : Seq(Ordered), cmd : Seq(Ordered)] /\ asked.cmd = <<>> /\ ToSet(asked.cmd) = {}
         /\ Tail(told.cmd) = <<>> /\ Head(told.cmd) \in Answer /\ ToSet(told.cmd) = {Head(told.cmd)}
         /\ cmd \in CliState
         /\ cmd.jobs \in {<<Job("kill", TRUE), Job("theme", 1)>>, <<Job("test", 2)>>, <<Job("auto", FALSE)>>}
<1>1. /\ asked \in [tui : Seq(Ordered), cmd : Seq(Ordered)] /\ told.cmd \in Seq(Answer) /\ Len(told.cmd) <= 1
      /\ cmd \in CliState /\ cmd.jobs \in JobLists /\ cmd.jobs \notin {<<>>, <<Job("theme", 1)>>}
  BY DEF SettingsInv, SettingsTypeOK, CliInv, CliState
<1>2. asked.cmd = <<>>
  BY DEF SettingsInv, CliInv
<1>3. Tail(told.cmd) = <<>> /\ ToSet(told.cmd) = {Head(told.cmd)} /\ Head(told.cmd) \in Answer
  BY <1>1, OneElement
<1> QED
  BY <1>1, <1>2, <1>3, Jobs, OneMore

LEMMA FetchStep == ASSUME SettingsInv, CliFetch PROVE SettingsInv'
<1> USE DEF SettingsInv
<1>1. cmd.pc = "fetch" /\ told.cmd # <<>>
  BY DEF CliFetch
<1>2. PICK s, j, test : s = Head(told.cmd).s /\ j = Head(cmd.jobs) /\ test = [s.test EXCEPT ![2] = j.v]
  OBVIOUS
<1>3. PICK r : r = IF j.k = "test" THEN [k |-> "test", v |-> test] ELSE [k |-> "auto", v |-> j.v]
  OBVIOUS
<1>4. /\ asked' = [asked EXCEPT !["cmd"] = Append(@, r)]
      /\ edited' = (edited \/ (j.k = "test" /\ test[1] = 0))
      /\ cmd' = [cmd EXCEPT !.pc = "wait"]
      /\ told' = [told EXCEPT !.cmd = Tail(@)]
      /\ UNCHANGED <<file, lost, core, tui, handed>>
  BY <1>2, <1>3 DEF CliFetch, CliKeeps, Ask
<1>5. s \in CoreSettings /\ s.test \in TestPair
  <2>1. Head(told.cmd) \in Answer /\ Head(told.cmd).k = "state"
    BY <1>1, Answered DEF CliInv
  <2> QED
    BY <1>2, <2>1 DEF Answer, CoreSettings
<1>6. /\ r \in Ordered
      /\ r.k = "test" => j.k = "test" /\ (edited' \/ IsChoice(r.v))
      /\ cmd.jobs = <<Job("test", 2)>> => r.k = "test"
  <2>1. CASE cmd.jobs = <<Job("test", 2)>>
    <3>1. j.k = "test" /\ j.v = 2
      BY <1>2, <2>1, Jobs, JobKinds
    <3>2. test \in TestPair /\ test[1] = s.test[1] /\ test[2] = 2
      BY <1>2, <1>5, <3>1, Pairs
    <3>3. r = [k |-> "test", v |-> test]
      BY <1>3, <3>1
    <3>4. r \in Ordered /\ r.k = "test" /\ r.v = test
      BY <3>2, <3>3 DEF Ordered
    <3>5. edited' \/ test[1] # 0
      BY <1>4, <3>1
    <3> QED
      BY <3>1, <3>2, <3>4, <3>5 DEF IsChoice
  <2>2. CASE cmd.jobs # <<Job("test", 2)>>
    <3>1. j.k # "test" /\ j.v \in BOOLEAN
      BY <1>1, <1>2, <2>2, Answered, Jobs, JobKinds
    <3>2. r = [k |-> "auto", v |-> j.v]
      BY <1>3, <3>1
    <3> QED
      BY <2>2, <3>1, <3>2 DEF Ordered
  <2> QED
    BY <2>1, <2>2
<1>7. /\ asked' \in [tui : Seq(Ordered), cmd : Seq(Ordered)] /\ asked'.tui = asked.tui
      /\ Len(asked'.cmd) = 1 /\ ToSet(asked'.cmd) = {r}
  BY <1>1, <1>4, <1>6, Answered, CliAsks
<1>8. /\ told' \in [tui : Seq(Answer), cmd : Seq(Answer)] /\ told'.tui = told.tui /\ told'.cmd = <<>>
      /\ ToSet(told'.cmd) = {} /\ Len(told'.cmd) = 0
  <2>1. <<>> \in Seq(Answer) /\ ToSet(<<>>) = {} /\ Len(<<>>) = 0
    BY DEF ToSet
  <2> QED
    BY <1>1, <1>4, <2>1, Answered DEF SettingsTypeOK
<1>9. cmd' \in CliState /\ cmd'.pc = "wait" /\ cmd'.jobs = cmd.jobs /\ cmd'.cfg = cmd.cfg
  BY <1>4 DEF SettingsTypeOK, CliState
<1>10. edited' \in BOOLEAN /\ (edited => edited')
  BY <1>4 DEF SettingsTypeOK
<1>11. SettingsTypeOK'
  BY <1>4, <1>7, <1>8, <1>9, <1>10 DEF SettingsTypeOK
<1>12. CliInv'
  BY <1>1, <1>7, <1>8, <1>9 DEF CliInv
<1>13. CacheInv'
  BY <1>4, <1>6, <1>7, <1>8, <1>9, <1>10 DEF CacheInv
<1>14. HandInv'
  BY <1>4 DEF HandInv
<1> QED
  BY <1>11, <1>12, <1>13, <1>14

\* The command saves its copy and goes on to the next job.
LEMMA CliSaveStep ==
  ASSUME SettingsInv, cmd.pc = "wait", told.cmd # <<>>, NEW c \in AppConfig, edited \/ IsChoice(c.test),
         CliSave(c), told' = [told EXCEPT !.cmd = Tail(@)], UNCHANGED <<core, tui, handed, edited>>
  PROVE  SettingsInv'
<1> USE DEF SettingsInv
<1>1. PICK jobs : jobs = Tail(cmd.jobs)
  OBVIOUS
<1>2. /\ jobs \in JobLists /\ cmd \in CliState
      /\ asked \in [tui : Seq(Ordered), cmd : Seq(Ordered)] /\ asked.cmd = <<>> /\ Tail(told.cmd) = <<>>
  <2>1. <<>> \in JobLists /\ <<Job("theme", 1)>> \in JobLists
    BY DEF JobLists, CliCommands
  <2> QED
    BY <1>1, <2>1, Answered, Jobs
<1>3. /\ cmd' = [cmd EXCEPT !.cfg = c, !.jobs = jobs, !.pc = CliFirst(jobs)] /\ SendFirst(jobs)
      /\ Save(file, c)
      /\ lost' = (lost \/ file'.c # c \/ [c EXCEPT !.kill = TRUE, !.test = <<1, 1>>, !.auto = TRUE]
                                         # [file.c EXCEPT !.kill = TRUE, !.test = <<1, 1>>, !.auto = TRUE])
  BY <1>1 DEF CliSave
<1>4. /\ cmd' \in CliState /\ cmd'.pc = CliFirst(jobs) /\ cmd'.jobs = jobs /\ cmd'.cfg = c
  BY <1>2, <1>3, FirstSteps DEF CliState
<1>5. /\ told' \in [tui : Seq(Answer), cmd : Seq(Answer)] /\ told'.tui = told.tui /\ told'.cmd = <<>>
      /\ ToSet(told'.cmd) = {} /\ Len(told'.cmd) = 0
  <2>1. <<>> \in Seq(Answer) /\ ToSet(<<>>) = {} /\ Len(<<>>) = 0
    BY DEF ToSet
  <2> QED
    BY <1>2, <2>1 DEF SettingsTypeOK
<1>6. /\ asked' \in [tui : Seq(Ordered), cmd : Seq(Ordered)] /\ asked'.tui = asked.tui
      /\ asked'.cmd = <<>> \/ Len(asked'.cmd) = 1
      /\ \A r \in ToSet(asked'.cmd) : r.k # "test"
      /\ CliFirst(jobs) \in {"idle", "local"} => asked'.cmd = <<>>
      /\ CliFirst(jobs) = "fetch" => \A r \in ToSet(asked'.cmd) : r.k = "state"
  BY <1>2, <1>3, Sends
<1>7. file \in [text : {"good", "broken", "missing"}, c : AppConfig] /\ lost \in BOOLEAN
  BY DEF SettingsTypeOK
<1>8. /\ file' \in [text : {"good", "broken", "missing"}, c : AppConfig]
      /\ edited \/ IsChoice(file'.c.test)
      /\ lost' \in BOOLEAN
  BY <1>3, <1>7, Saves DEF CacheInv
<1>9. lost' \/ (~lost /\ file'.c = c /\ c.migr = file.c.migr /\ (file.text = "good" => file'.text = "good"))
  <2> SUFFICES ASSUME ~lost'
               PROVE  ~lost /\ file'.c = c /\ c.migr = file.c.migr /\ (file.text = "good" => file'.text = "good")
    OBVIOUS
  <2>1. /\ ~lost /\ file'.c = c
        /\ [c EXCEPT !.kill = TRUE, !.test = <<1, 1>>, !.auto = TRUE]
             = [file.c EXCEPT !.kill = TRUE, !.test = <<1, 1>>, !.auto = TRUE]
    BY <1>3
  <2>2. PICK d \in AppConfig : d = file.c
    BY <1>7
  <2>3. ASSUME NEW e \in AppConfig
        PROVE  [e EXCEPT !.kill = TRUE, !.test = <<1, 1>>, !.auto = TRUE].migr = e.migr
    BY ConfigShape
  <2>4. c.migr = d.migr
    BY <2>1, <2>2, <2>3
  <2>5. file.text = "good" => file'.text = "good"
    BY <1>3 DEF Save
  <2> QED
    BY <2>1, <2>2, <2>4, <2>5
<1>10. SettingsTypeOK'
  BY <1>4, <1>5, <1>6, <1>8 DEF SettingsTypeOK
<1>11. CliInv'
  BY <1>2, <1>4, <1>5, <1>6, FirstSteps DEF CliInv
<1>12. CacheInv'
  BY <1>2, <1>4, <1>5, <1>6, <1>8, FirstSteps DEF CacheInv
<1>13. HandInv'
  BY <1>9 DEF HandInv
<1> QED
  BY <1>10, <1>11, <1>12, <1>13

LEMMA WaitStep == ASSUME SettingsInv, CliWait PROVE SettingsInv'
<1> USE DEF SettingsInv
<1>1. cmd.pc = "wait" /\ told.cmd # <<>>
  BY DEF CliWait
<1>2. PICK f, j : f = Head(told.cmd) /\ j = Head(cmd.jobs)
  OBVIOUS
<1>3. /\ told' = [told EXCEPT !.cmd = Tail(@)]
      /\ UNCHANGED <<core, tui, handed, edited>>
      /\ IF j.k = "test" /\ f.k # "state"
         THEN Ask("cmd", [k |-> "state"]) /\ UNCHANGED <<file, lost, count, cmd>>
         ELSE IF j.k = "test"
         THEN CliSave([cmd.cfg EXCEPT !.test = f.s.test])
         ELSE IF f.v # j.v THEN cmd' = NoCli /\ UNCHANGED <<file, lost, count, asked>>
         ELSE CliSave(IF j.k = "kill" THEN [cmd.cfg EXCEPT !.kill = f.v] ELSE [cmd.cfg EXCEPT !.auto = f.v])
  BY <1>2 DEF CliWait, CliKeeps
<1>4. /\ asked \in [tui : Seq(Ordered), cmd : Seq(Ordered)] /\ asked.cmd = <<>> /\ ToSet(asked.cmd) = {}
      /\ Tail(told.cmd) = <<>> /\ f \in Answer /\ ToSet(told.cmd) = {f}
      /\ cmd.jobs \in {<<Job("kill", TRUE), Job("theme", 1)>>, <<Job("test", 2)>>, <<Job("auto", FALSE)>>}
  BY <1>1, <1>2, Answered
<1>5. cmd.cfg \in AppConfig /\ (edited \/ IsChoice(cmd.cfg.test))
  BY DEF SettingsTypeOK, CliState, CacheInv
<1>6. /\ j.k = "test" => cmd.jobs = <<Job("test", 2)>>
      /\ j.v = TRUE \/ j.v = FALSE \/ j.k = "test"
  BY <1>2, <1>4, Jobs, JobKinds
<1>7. /\ told' \in [tui : Seq(Answer), cmd : Seq(Answer)] /\ told'.tui = told.tui /\ told'.cmd = <<>>
      /\ ToSet(told'.cmd) = {} /\ Len(told'.cmd) = 0
  <2>1. <<>> \in Seq(Answer) /\ ToSet(<<>>) = {} /\ Len(<<>>) = 0
    BY DEF ToSet
  <2> QED
    BY <1>3, <1>4, <2>1 DEF SettingsTypeOK
<1>8. CASE j.k = "test" /\ f.k # "state"
  <2>1. PICK r : r = [k |-> "state"]
    OBVIOUS
  <2>2. r \in Ordered /\ r.k = "state"
    BY <2>1 DEF Ordered
  <2>3. asked' = [asked EXCEPT !["cmd"] = Append(@, r)] /\ UNCHANGED <<file, lost, cmd>>
    BY <1>3, <1>8, <2>1 DEF Ask
  <2>4. /\ asked' \in [tui : Seq(Ordered), cmd : Seq(Ordered)] /\ asked'.tui = asked.tui
        /\ Len(asked'.cmd) = 1 /\ ToSet(asked'.cmd) = {r}
    BY <1>4, <2>2, <2>3, CliAsks
  <2>5. SettingsTypeOK'
    BY <1>3, <1>7, <2>3, <2>4 DEF SettingsTypeOK
  <2>6. CliInv'
    BY <1>1, <1>7, <2>3, <2>4 DEF CliInv
  <2>7. edited \/ (cmd.jobs = <<Job("test", 2)>> => IsChoice(core.test))
    BY <1>1, <1>4 DEF CacheInv
  <2>8. CacheInv'
    BY <1>3, <1>7, <2>2, <2>3, <2>4, <2>7 DEF CacheInv
  <2>9. HandInv'
    BY <1>3, <2>3 DEF HandInv
  <2> QED
    BY <2>5, <2>6, <2>8, <2>9
<1>9. CASE j.k = "test" /\ f.k = "state"
  <2>1. PICK c : c = [cmd.cfg EXCEPT !.test = f.s.test]
    OBVIOUS
  <2>2. f.s.test \in TestPair
    BY <1>4, <1>9 DEF Answer, CoreSettings
  <2>3. edited \/ IsChoice(f.s.test)
    BY <1>1, <1>4, <1>6, <1>9 DEF CacheInv
  <2>4. c \in AppConfig /\ c.test = f.s.test
    BY <1>5, <2>1, <2>2, ConfigShape
  <2>5. CliSave(c)
    BY <1>3, <1>9, <2>1
  <2>6. edited \/ IsChoice(c.test)
    BY <2>3, <2>4
  <2> QED
    BY <1>1, <1>3, <2>4, <2>5, <2>6, CliSaveStep
<1>10. CASE j.k # "test" /\ f.v # j.v
  <2>1. cmd' = NoCli /\ UNCHANGED <<file, lost, asked>>
    BY <1>3, <1>10
  <2>2. SettingsTypeOK'
    BY <1>3, <1>7, <2>1, DefaultConfig DEF SettingsTypeOK
  <2>3. CliInv'
    BY <1>4, <1>7, <2>1, DefaultConfig DEF CliInv
  <2>4. CacheInv'
    BY <1>3, <1>7, <2>1, DefaultConfig DEF CacheInv
  <2>5. HandInv'
    BY <1>3, <2>1 DEF HandInv
  <2> QED
    BY <2>2, <2>3, <2>4, <2>5
<1>11. CASE j.k # "test" /\ f.v = j.v
  <2>1. PICK c : c = IF j.k = "kill" THEN [cmd.cfg EXCEPT !.kill = f.v] ELSE [cmd.cfg EXCEPT !.auto = f.v]
    OBVIOUS
  <2>2. PICK b \in BOOLEAN : b = f.v
    BY <1>6, <1>11
  <2>3. c = [cmd.cfg EXCEPT !.kill = b] \/ c = [cmd.cfg EXCEPT !.auto = b]
    BY <2>1, <2>2
  <2>4. c \in AppConfig /\ c.test = cmd.cfg.test
    BY <1>5, <2>3, ConfigShape
  <2>5. CliSave(c)
    BY <1>3, <1>11, <2>1
  <2>6. edited \/ IsChoice(c.test)
    BY <1>5, <2>4
  <2> QED
    BY <1>1, <1>3, <2>4, <2>5, <2>6, CliSaveStep
<1> QED
  BY <1>8, <1>9, <1>10, <1>11

LEMMA LocalStep == ASSUME SettingsInv, CliLocal PROVE SettingsInv'
<1> USE DEF SettingsInv
<1>0. PICK l, v : l = Loaded /\ v = Head(cmd.jobs).v
  OBVIOUS
<1>1. PICK c : c = [l EXCEPT !.theme = v]
  OBVIOUS
<1>2. /\ cmd.pc = "local" /\ Save(Created, c) /\ lost' = (lost \/ file'.c # c) /\ cmd' = NoCli
      /\ UNCHANGED <<asked, told, edited, core, tui, handed>>
  BY <1>0, <1>1 DEF CliLocal, CliKeeps
<1>3. v = 1 /\ l \in AppConfig /\ (edited \/ IsChoice(l.test))
  BY <1>0, <1>2, Loads, Jobs, JobKinds DEF CliInv
<1>4. c \in AppConfig /\ c.test = l.test /\ c.migr = l.migr
  BY <1>1, <1>3, ConfigShape
<1>5. /\ file' \in [text : {"good", "broken", "missing"}, c : AppConfig]
      /\ file'.c \in {c, Created.c} /\ (Created.text = "good" => file'.text = "good")
      /\ lost' \in BOOLEAN
  <2>1. Created \in [text : {"good", "broken", "missing"}, c : AppConfig]
    BY Loads
  <2>2. file' = Created \/ file' = [text |-> "good", c |-> c]
    BY <1>2 DEF Save
  <2>3. lost \in BOOLEAN
    BY DEF SettingsTypeOK
  <2> QED
    BY <1>2, <1>4, <2>1, <2>2, <2>3
<1>6. asked.cmd = <<>> /\ told.cmd = <<>>
  BY <1>2 DEF CliInv
<1>7. SettingsTypeOK'
  BY <1>2, <1>5, DefaultConfig DEF SettingsTypeOK
<1>8. CliInv'
  BY <1>2, <1>6, DefaultConfig, OneMore DEF CliInv
<1>9. CacheInv'
  BY <1>2, <1>3, <1>4, <1>5, Loads, DefaultConfig DEF CacheInv
<1>10. HandInv'
  BY <1>0, <1>2, <1>4, <1>5, Loads DEF HandInv
<1> QED
  BY <1>7, <1>8, <1>9, <1>10

\* What the core makes of a request, and what it answers.
LEMMA Handled ==
  ASSUME NEW who \in {"tui", "cmd"}, NEW r \in Ordered, core \in CoreSettings,
         core' \in CASE r.k = "kill" -> {core, [core EXCEPT !.kill = r.v]}
                     [] r.k = "test" -> {[core EXCEPT !.test = r.v]}
                     [] r.k = "auto" -> {[core EXCEPT !.auto = r.v]}
                     [] r.k = "connect" -> {[core EXCEPT !.conn = v] : v \in {0, r.v}}
                     [] OTHER -> {core}
  PROVE  /\ core' \in CoreSettings /\ core'.damaged = core.damaged
         /\ core'.test = IF r.k = "test" THEN r.v ELSE core.test
         /\ \/ AnswerSetting(who, r) = <<>>
            \/ \E f \in Answer : /\ AnswerSetting(who, r) = <<f>>
                                 /\ f.k = "state" => f.s.test = core.test /\ f.s.damaged = core.damaged
                                 /\ r.k = "state" => f.k = "state"
                                 /\ r.k = "test" => f.k # "state"
<1>1. /\ r.k \in {"state", "kill", "auto", "test", "connect"}
      /\ r.k \in {"kill", "auto"} => r.v \in BOOLEAN
      /\ r.k = "test" => r.v \in TestPair
      /\ r.k = "connect" => r.v = 1
  BY DEF Ordered
<1>2. CASE r.k = "state"
  <2>1. core' = core
    BY <1>2
  <2>2. Shown \in CoreSettings /\ Shown.test = core.test /\ Shown.damaged = core.damaged
    BY DEF Shown, CoreSettings
  <2>3. PICK f : f = [k |-> "state", s |-> Shown]
    OBVIOUS
  <2>4. f \in Answer /\ f.k = "state" /\ f.s = Shown
    BY <2>2, <2>3 DEF Answer
  <2>5. AnswerSetting(who, r) = <<f>>
    BY <1>2, <2>3 DEF AnswerSetting
  <2> QED
    BY <1>2, <2>1, <2>2, <2>4, <2>5
<1>3. CASE r.k = "kill"
  <2>1. PICK b \in BOOLEAN : b = r.v
    BY <1>1, <1>3
  <2>2. core' = core \/ core' = [core EXCEPT !.kill = b]
    BY <1>3, <2>1
  <2>3. core' \in CoreSettings /\ core'.damaged = core.damaged /\ core'.test = core.test
    BY <2>2 DEF CoreSettings
  <2>4. PICK f : f = [k |-> "kill", v |-> core'.kill]
    OBVIOUS
  <2>5. core'.kill \in BOOLEAN
    BY <2>3 DEF CoreSettings
  <2>6. f \in Answer /\ f.k = "kill"
    BY <2>4, <2>5 DEF Answer
  <2>7. AnswerSetting(who, r) = <<f>>
    BY <1>3, <2>4 DEF AnswerSetting
  <2> QED
    BY <1>3, <2>3, <2>6, <2>7
<1>4. CASE r.k = "test"
  <2>1. PICK t \in TestPair : t = r.v
    BY <1>1, <1>4
  <2>2. core' = [core EXCEPT !.test = t]
    BY <1>4, <2>1
  <2>3. core' \in CoreSettings /\ core'.damaged = core.damaged /\ core'.test = t
    BY <2>2 DEF CoreSettings
  <2>4. PICK f : f = [k |-> "test", v |-> t]
    OBVIOUS
  <2>5. f \in Answer /\ f.k = "test"
    BY <2>4 DEF Answer
  <2>6. AnswerSetting(who, r) = <<f>>
    BY <1>4, <2>1, <2>4 DEF AnswerSetting
  <2> QED
    BY <1>4, <2>1, <2>3, <2>5, <2>6
<1>5. CASE r.k = "auto"
  <2>1. PICK b \in BOOLEAN : b = r.v
    BY <1>1, <1>5
  <2>2. core' = [core EXCEPT !.auto = b]
    BY <1>5, <2>1
  <2>3. core' \in CoreSettings /\ core'.damaged = core.damaged /\ core'.test = core.test
    BY <2>2 DEF CoreSettings
  <2>4. PICK f : f = [k |-> "auto", v |-> b]
    OBVIOUS
  <2>5. f \in Answer /\ f.k = "auto"
    BY <2>4 DEF Answer
  <2>6. AnswerSetting(who, r) = <<f>>
    BY <1>5, <2>1, <2>4 DEF AnswerSetting
  <2> QED
    BY <1>5, <2>3, <2>5, <2>6
<1>6. CASE r.k = "connect"
  <2>1. PICK i \in 0..1 : core' = [core EXCEPT !.conn = i]
    BY <1>1, <1>6
  <2>2. core' \in CoreSettings /\ core'.damaged = core.damaged /\ core'.test = core.test
    BY <2>1 DEF CoreSettings
  <2>3. PICK f : f = [k |-> "status", v |-> core'.conn]
    OBVIOUS
  <2>4. core'.conn \in 0..1
    BY <2>2 DEF CoreSettings
  <2>5. f \in Answer /\ f.k = "status"
    BY <2>3, <2>4 DEF Answer
  <2>6. AnswerSetting(who, r) = <<f>>
    BY <1>6, <2>3 DEF AnswerSetting
  <2> QED
    BY <1>6, <2>2, <2>5, <2>6
<1> QED
  BY <1>1, <1>2, <1>3, <1>4, <1>5, <1>6

LEMMA CoreStep == ASSUME SettingsInv, NEW who \in {"tui", "cmd"}, CoreHandle(who) PROVE SettingsInv'
<1> USE DEF SettingsInv
<1>1. PICK r : r = Head(asked[who])
  OBVIOUS
<1>2. PICK ans : ans = AnswerSetting(who, r)
  OBVIOUS
<1>3. /\ asked[who] # <<>>
      /\ core' \in CASE r.k = "kill" -> {core, [core EXCEPT !.kill = r.v]}
                     [] r.k = "test" -> {[core EXCEPT !.test = r.v]}
                     [] r.k = "auto" -> {[core EXCEPT !.auto = r.v]}
                     [] r.k = "connect" -> {[core EXCEPT !.conn = v] : v \in {0, r.v}}
                     [] OTHER -> {core}
      /\ told' = [tui |-> IF tui.run THEN told.tui \o ans ELSE <<>>,
                  cmd |-> IF who = "cmd" /\ cmd.pc \in {"fetch", "wait"} THEN told.cmd \o ans ELSE told.cmd]
      /\ asked' = [asked EXCEPT ![who] = Tail(@)]
      /\ UNCHANGED <<file, tui, cmd, handed, edited, lost>>
  BY <1>1, <1>2 DEF CoreHandle, settingsHistory
<1>4. /\ asked \in [tui : Seq(Ordered), cmd : Seq(Ordered)] /\ told \in [tui : Seq(Answer), cmd : Seq(Answer)]
      /\ core \in CoreSettings
  BY DEF SettingsTypeOK
<1>5. /\ r \in Ordered /\ asked[who] \in Seq(Ordered) /\ Tail(asked[who]) \in Seq(Ordered)
      /\ ToSet(asked[who]) = {r} \cup ToSet(Tail(asked[who]))
  <2>1. asked[who] \in Seq(Ordered)
    BY <1>4
  <2> QED
    BY <1>1, <1>3, <2>1, SetOfTail
<1>6. /\ core' \in CoreSettings /\ core'.damaged = core.damaged
      /\ core'.test = IF r.k = "test" THEN r.v ELSE core.test
      /\ \/ ans = <<>>
         \/ \E f \in Answer : /\ ans = <<f>>
                              /\ f.k = "state" => f.s.test = core.test /\ f.s.damaged = core.damaged
                              /\ r.k = "state" => f.k = "state"
                              /\ r.k = "test" => f.k # "state"
  BY <1>2, <1>3, <1>4, <1>5, Handled
<1>7. /\ ans \in Seq(Answer) /\ Len(ans) <= 1
      /\ \A f \in ToSet(ans) : /\ f.k = "state" => f.s.test = core.test /\ f.s.damaged = core.damaged
                               /\ r.k = "state" => f.k = "state"
                               /\ r.k = "test" => f.k # "state"
  <2>1. CASE ans = <<>>
    <3>1. <<>> \in Seq(Answer) /\ Len(<<>>) = 0 /\ ToSet(<<>>) = {}
      BY DEF ToSet
    <3> QED
      BY <2>1, <3>1
  <2>2. ASSUME NEW f \in Answer, ans = <<f>>,
               f.k = "state" => f.s.test = core.test /\ f.s.damaged = core.damaged,
               r.k = "state" => f.k = "state", r.k = "test" => f.k # "state"
        PROVE  /\ ans \in Seq(Answer) /\ Len(ans) <= 1
               /\ \A g \in ToSet(ans) : /\ g.k = "state" => g.s.test = core.test /\ g.s.damaged = core.damaged
                                        /\ r.k = "state" => g.k = "state"
                                        /\ r.k = "test" => g.k # "state"
    <3>1. ans \in Seq(Answer) /\ Len(ans) = 1 /\ ToSet(ans) = {f}
      BY <2>2, OneMore
    <3> QED
      BY <2>2, <3>1
  <2> QED
    BY <1>6, <2>1, <2>2
<1>8. /\ told' \in [tui : Seq(Answer), cmd : Seq(Answer)]
      /\ ToSet(told'.tui) \subseteq ToSet(told.tui) \cup ToSet(ans)
  <2>1. told.tui \o ans \in Seq(Answer) /\ ToSet(told.tui \o ans) = ToSet(told.tui) \cup ToSet(ans)
    BY <1>4, <1>7, SetOfConcat
  <2>2. told.cmd \o ans \in Seq(Answer)
    BY <1>4, <1>7, SetOfConcat
  <2>3. <<>> \in Seq(Answer) /\ ToSet(<<>>) = {}
    BY DEF ToSet
  <2> QED
    BY <1>3, <1>4, <2>1, <2>2, <2>3
<1>9. /\ asked' \in [tui : Seq(Ordered), cmd : Seq(Ordered)]
      /\ ToSet(asked'.tui) \cup ToSet(asked'.cmd) \subseteq ToSet(asked.tui) \cup ToSet(asked.cmd)
  <2>1. CASE who = "tui"
    BY <1>3, <1>4, <1>5, <2>1
  <2>2. CASE who = "cmd"
    BY <1>3, <1>4, <1>5, <2>2
  <2> QED
    BY <2>1, <2>2
<1>10. edited \/ (r.k = "test" => IsChoice(r.v))
  <2>1. r \in ToSet(asked.tui) \cup ToSet(asked.cmd)
    BY <1>5
  <2> QED
    BY <2>1 DEF CacheInv
<1>11. SettingsTypeOK'
  BY <1>3, <1>6, <1>8, <1>9 DEF SettingsTypeOK
<1>12. HandInv'
  BY <1>3 DEF HandInv
<1>13. CASE who = "tui"
  <2>1. asked'.cmd = asked.cmd /\ told'.cmd = told.cmd
    BY <1>3, <1>4, <1>13
  <2>2. CliInv'
    BY <1>3, <2>1 DEF CliInv
  <2>3. CacheInv'
    BY <1>3, <1>6, <1>7, <1>8, <1>9, <1>10, <2>1 DEF CacheInv
  <2> QED
    BY <1>11, <1>12, <2>2, <2>3
<1>14. CASE who = "cmd"
  <2>1. /\ asked.cmd # <<>> /\ Len(asked.cmd) = 1 /\ told.cmd = <<>> /\ cmd.pc \in {"fetch", "wait"}
    <3>1. cmd \in CliState
      BY DEF SettingsTypeOK
    <3> QED
      BY <1>3, <1>14, <3>1 DEF CliInv, CliState
  <2>2. asked'.cmd = <<>> /\ ToSet(asked.cmd) = {r} /\ ToSet(asked'.cmd) = {}
    <3>1. Tail(asked.cmd) = <<>> /\ ToSet(asked.cmd) = {Head(asked.cmd)}
      <4>1. asked.cmd \in Seq(Ordered) /\ Len(asked.cmd) <= 1 /\ asked.cmd # <<>>
        BY <1>4, <2>1
      <4> QED
        BY <4>1, OneElement
    <3> QED
      BY <1>1, <1>3, <1>4, <1>14, <3>1, OneMore
  <2>3. told'.cmd = ans
    <3>1. <<>> \o ans = ans
      BY <1>7
    <3> QED
      BY <1>3, <1>14, <2>1, <3>1
  <2>4. CliInv'
    BY <1>3, <1>7, <2>1, <2>2, <2>3 DEF CliInv
  <2>5. CacheInv'
    BY <1>3, <1>6, <1>7, <1>8, <1>9, <1>10, <2>1, <2>2, <2>3 DEF CacheInv
  <2> QED
    BY <1>11, <1>12, <2>4, <2>5
<1> QED
  BY <1>13, <1>14

LEMMA RestartStep == ASSUME SettingsInv, CoreRestart PROVE SettingsInv'
<1> USE DEF SettingsInv
<1>0. PICK f : f = [k |-> "reconnected"]
  OBVIOUS
<1>1. /\ core' = [kill |-> FALSE, test |-> <<0, 0>>, auto |-> FALSE, conn |-> 0, damaged |-> TRUE]
      /\ asked' = [tui |-> <<>>, cmd |-> <<>>]
      /\ told' = [tui |-> IF tui.run THEN Append(told.tui, f) ELSE <<>>, cmd |-> <<>>]
      /\ cmd' = IF cmd.pc \in {"fetch", "wait"} THEN NoCli ELSE cmd
      /\ UNCHANGED <<file, tui, handed, edited, lost>>
  BY <1>0 DEF CoreRestart, settingsHistory
<1>2. core' \in CoreSettings /\ core'.damaged
  BY <1>1, Pairs DEF CoreSettings
<1>3. f \in Answer /\ f.k # "state"
  BY <1>0 DEF Answer
<1>4. /\ told' \in [tui : Seq(Answer), cmd : Seq(Answer)] /\ told'.cmd = <<>> /\ ToSet(told'.cmd) = {}
      /\ ToSet(told'.tui) \subseteq ToSet(told.tui) \cup {f} /\ Len(told'.cmd) = 0
  <2>1. told.tui \in Seq(Answer)
    BY DEF SettingsTypeOK
  <2>2. Append(told.tui, f) \in Seq(Answer) /\ ToSet(Append(told.tui, f)) = ToSet(told.tui) \cup {f}
    BY <1>3, <2>1, SetOfAppend
  <2>3. <<>> \in Seq(Answer) /\ ToSet(<<>>) = {} /\ Len(<<>>) = 0
    BY DEF ToSet
  <2> QED
    BY <1>1, <2>2, <2>3
<1>5. /\ asked' \in [tui : Seq(Ordered), cmd : Seq(Ordered)] /\ asked'.cmd = <<>> /\ asked'.tui = <<>>
      /\ ToSet(asked'.cmd) = {} /\ ToSet(asked'.tui) = {}
  <2>1. <<>> \in Seq(Ordered) /\ ToSet(<<>>) = {}
    BY DEF ToSet
  <2> QED
    BY <1>1, <2>1
<1>6. /\ cmd' \in CliState /\ cmd'.pc \in {"idle", "local"}
      /\ cmd' = NoCli \/ cmd' = cmd
  <2>1. cmd \in CliState
    BY DEF SettingsTypeOK
  <2> QED
    BY <1>1, <2>1, DefaultConfig DEF CliState
<1>7. SettingsTypeOK'
  BY <1>1, <1>2, <1>4, <1>5, <1>6 DEF SettingsTypeOK
<1>8. CliInv'
  BY <1>4, <1>5, <1>6, DefaultConfig DEF CliInv
<1>9. CacheInv'
  BY <1>1, <1>2, <1>3, <1>4, <1>5, <1>6, DefaultConfig DEF CacheInv
<1>10. HandInv'
  BY <1>1 DEF HandInv
<1> QED
  BY <1>7, <1>8, <1>9, <1>10

LEMMA RepairStep == ASSUME SettingsInv, RepairConfig PROVE SettingsInv'
<1> USE DEF SettingsInv
<1>1. PICK s, f : s = [Shown EXCEPT !.damaged = FALSE, !.test = <<2, 1>>] /\ f = [k |-> "state", s |-> s]
  OBVIOUS
<1>2. /\ core' = [core EXCEPT !.damaged = FALSE, !.test = <<2, 1>>]
      /\ told' = [told EXCEPT !.tui = IF tui.run THEN Append(@, f) ELSE @]
      /\ UNCHANGED <<file, asked, tui, cmd, handed, edited, lost>>
  BY <1>1 DEF RepairConfig, settingsHistory
<1>3. core \in CoreSettings
  BY DEF SettingsTypeOK
<1>4. core' \in CoreSettings /\ core'.test = <<2, 1>>
  <2>1. PICK t \in TestPair : t = <<2, 1>>
    BY Pairs
  <2> QED
    BY <1>2, <1>3, <2>1 DEF CoreSettings
<1>5. f \in Answer /\ (f.k = "state" => IsChoice(f.s.test))
  <2>1. PICK t \in TestPair : t = <<2, 1>> /\ IsChoice(t)
    BY Pairs
  <2>2. Shown \in CoreSettings
    BY <1>3 DEF Shown, CoreSettings
  <2>3. s \in CoreSettings /\ s.test = t
    BY <1>1, <2>1, <2>2 DEF CoreSettings
  <2> QED
    BY <1>1, <2>1, <2>3 DEF Answer
<1>6. /\ told' \in [tui : Seq(Answer), cmd : Seq(Answer)] /\ told'.cmd = told.cmd
      /\ ToSet(told'.tui) \subseteq ToSet(told.tui) \cup {f}
  <2>1. told \in [tui : Seq(Answer), cmd : Seq(Answer)]
    BY DEF SettingsTypeOK
  <2>2. Append(told.tui, f) \in Seq(Answer) /\ ToSet(Append(told.tui, f)) = ToSet(told.tui) \cup {f}
    BY <1>5, <2>1, SetOfAppend
  <2> QED
    BY <1>2, <2>1, <2>2
<1>7. SettingsTypeOK'
  BY <1>2, <1>4, <1>6 DEF SettingsTypeOK
<1>8. CliInv'
  BY <1>2, <1>6 DEF CliInv
<1>9. CacheInv'
  BY <1>2, <1>4, <1>5, <1>6, Pairs DEF CacheInv
<1>10. HandInv'
  BY <1>2 DEF HandInv
<1> QED
  BY <1>7, <1>8, <1>9, <1>10

LEMMA HandEditStep == ASSUME SettingsInv, NEW text \in {"broken", "missing"}, HandEdit(text) PROVE SettingsInv'
<1> USE DEF SettingsInv
<1>1. /\ file' = [file EXCEPT !.text = text] /\ lost' = TRUE
      /\ UNCHANGED <<core, asked, told, tui, cmd, handed, edited>>
  BY DEF HandEdit
<1>2. file' \in [text : {"good", "broken", "missing"}, c : AppConfig] /\ file'.c = file.c
  BY <1>1 DEF SettingsTypeOK
<1>3. SettingsTypeOK'
  BY <1>1, <1>2 DEF SettingsTypeOK
<1>4. CliInv'
  BY <1>1 DEF CliInv
<1>5. CacheInv'
  BY <1>1, <1>2 DEF CacheInv
<1>6. HandInv'
  BY <1>1 DEF HandInv
<1> QED
  BY <1>3, <1>4, <1>5, <1>6

LEMMA StepSettings == SettingsInv /\ [SettingsNext]_settingsVars => SettingsInv'
<1> SUFFICES ASSUME SettingsInv, [SettingsNext]_settingsVars PROVE SettingsInv'
  OBVIOUS
<1>1. CASE \E env \in Envs : TuiStart(env)
  BY <1>1, StartStep
<1>2. CASE \E saves \in BOOLEAN : TuiStop(saves)
  BY <1>2, ExitStep
<1>3. CASE \E item \in {"level", "kill", "test", "auto"} : Activate(item)
  BY <1>3, ActivateStep
<1>4. CASE HandleCoreEvent
  <2>1. /\ tui.run /\ told.tui # <<>> /\ (HandleState \/ HandleAnswer) /\ told' = [told EXCEPT !.tui = Tail(@)]
        /\ UNCHANGED <<core, cmd, edited>>
    BY <1>4 DEF HandleCoreEvent
  <2> QED
    BY <2>1, StateStep, AnswerStep
<1>5. CASE \E jobs \in CliCommands : CliOpen(jobs)
  BY <1>5, OpenStep
<1>6. CASE CliFetch \/ CliWait \/ CliLocal
  BY <1>6, FetchStep, WaitStep, LocalStep
<1>7. CASE \E who \in {"tui", "cmd"} : CoreHandle(who)
  BY <1>7, CoreStep
<1>8. CASE CoreRestart \/ RepairConfig
  BY <1>8, RestartStep, RepairStep
<1>9. CASE \E text \in {"broken", "missing"} : HandEdit(text)
  BY <1>9, HandEditStep
<1>10. CASE UNCHANGED settingsVars
  BY <1>10 DEF settingsVars, SettingsInv, SettingsTypeOK, CliInv, CacheInv, HandInv
<1> QED
  BY <1>1, <1>2, <1>3, <1>4, <1>5, <1>6, <1>7, <1>8, <1>9, <1>10 DEF SettingsNext, TuiStep

LEMMA SettingsInductive == SettingsSpec => []SettingsInv
  BY InitSettings, StepSettings, PTL DEF SettingsSpec

\* What a core with a damaged settings file falls back to never reaches the cache in
\* config.toml, however starts, kills, commands, failed writes and restarts of the core
\* interleave (apply_core_state keeps the cache while the core says that it is damaged).
THEOREM FallbackKeptOut == SettingsSpec => []FallbackNotCached
<1>1. SettingsInv => FallbackNotCached
  BY DEF SettingsInv, CacheInv, IsChoice, FallbackNotCached
<1> QED
  BY <1>1, SettingsInductive, PTL

\* The old autoconnect flag is handed to the core at most once, over any number of starts
\* and kills of the interface, as long as no write failed and no outdated copy was written.
THEOREM HandOverOnce == SettingsSpec => []HandedOnce
<1>1. SettingsInv => HandedOnce
  BY DEF SettingsInv, HandInv, HandedOnce
<1> QED
  BY <1>1, SettingsInductive, PTL

-----------------------------------------------------------------------------
(* Deep links (DeepLink).                                                  *)

Names == {"", "x", "2", "new", "other"}
Shelved == [id : Nat, name : Names]
LinkJobs == [k : {"none", "sub", "profile", "happ"}, want : [id : Nat, name : Names]]
Wishes == [k : {"state"}] \cup [k : {"addgroup"}, name : Names, url : BOOLEAN]
            \cup [k : {"addprofile", "happ"}, g : Nat]
Broadcasts == [k : {"state", "groupadded", "addgroupwarn", "subscription", "subwarn", "profiles",
                    "happwarn", "groupupdated", "groupdeleted"},
               g : Nat, by : {"link", "other"}, gs : Seq(Shelved)]

LinkTypeOK ==
  /\ up \in BOOLEAN
  /\ shelf \in [gs : Seq(Shelved), last : Nat]
  /\ wanted \in Seq(Wishes)
  /\ fetching \subseteq Nat
  /\ heard \in Seq(Broadcasts)
  /\ link \in [pc : {"idle", "state", "group", "added", "sub", "happ", "done"}, job : LinkJobs,
               target : Nat, seen : Nat,
               said : {"nothing", "error", "imported", "warned", "background", "sent"}]
  /\ fetched \subseteq Nat /\ imported \subseteq Nat
  /\ placed \in Names \cup {"none"} /\ misread \in BOOLEAN

\* Group g was added once, and while it is there its name is n.
NameKept(g, n) == g <= shelf.last /\ \A i \in DOMAIN shelf.gs : shelf.gs[i].id = g => shelf.gs[i].name = n
ShelfInv == \A i \in DOMAIN shelf.gs : NameKept(shelf.gs[i].id, shelf.gs[i].name)

\* The stages a link of each kind goes through.
StageInv ==
  /\ link.pc = "idle" => link = NoLink /\ wanted = <<>> /\ heard = <<>> /\ fetching = {} /\ placed = "none"
  /\ link.pc = "sub" => link.job.k = "sub"
  /\ link.pc = "happ" => link.job.k = "happ"
  /\ link.pc \in {"group", "added"} => link.job.k = "profile"
  /\ link.pc = "state" => link.job.k \in {"profile", "happ"}
  /\ link.said # "nothing" => link.pc = "done"

\* A group chosen for the profile of the link has the name that was asked for.
RightGroup(g) == misread \/ link.job.want = Anywhere \/ NameKept(g, link.job.want.name)
WishFits(r) ==
  /\ r.k = "addgroup" => r.name = link.job.want.name /\ (r.url => link.job.k = "sub")
  /\ r.k = "happ" => link.job.k = "happ"
  /\ r.k = "addprofile" => RightGroup(r.g)
WishInv == \A i \in DOMAIN wanted : WishFits(wanted[i])

\* A fetch was announced by group-added, and the link has read it or will.
Announced(n) == link.seen # 0 \/ \E j \in 1..n : heard[j].k = "groupadded"
RunningInv == fetching # {} => link.job.k = "sub" /\ (link.pc = "done" \/ Announced(Len(heard)))

\* What was broadcast is true, and a fetched subscription follows its group.
FrameTrue(f) ==
  /\ f.k = "subscription" => \/ f.by = "other" /\ f.g \in fetched
                             \/ f.by = "link" /\ link.job.k = "sub" /\ f.g \in fetched
                             \/ f.by = "link" /\ link.job.k = "happ" /\ f.g \in imported
  /\ f.k = "groupupdated" => f.by = "other"
  /\ f.k = "groupadded" => f.g # 0 /\ (f.by = "link" => NameKept(f.g, link.job.want.name))
  /\ f.k = "state" => \A j \in DOMAIN f.gs : NameKept(f.gs[j].id, f.gs[j].name)
HeardInv == \A i \in DOMAIN heard : FrameTrue(heard[i])
FollowInv == \A i \in DOMAIN heard :
  heard[i].k = "subscription" /\ heard[i].by = "link" /\ link.job.k = "sub" => Announced(i - 1)

ReportInv ==
  /\ misread \/ link.said # "imported" \/ (/\ link.job.k = "sub" => link.seen \in fetched
                                           /\ link.job.k = "happ" => link.target \in imported)
  /\ misread \/ placed = "none" \/ link.job.want = Anywhere \/ placed = link.job.want.name

LinkInv == /\ LinkTypeOK /\ ShelfInv /\ StageInv /\ WishInv
           /\ RunningInv /\ HeardInv /\ FollowInv /\ ReportInv

\* The first element with a property is one with the property.
LEMMA FirstOf ==
  ASSUME NEW n \in Nat, NEW I \in SUBSET (1 .. n), I # {}
  PROVE  Min(I) \in I
<1> DEFINE Less == {p \in Nat \X Nat : p[1] < p[2]}
<1>1. IsWellFoundedOn(Less, Nat)
  BY NatLessThanWellFounded, Zenon DEF OpToRel
<1> HIDE DEF Less
<1>2. I \subseteq Nat
  OBVIOUS
<1>3. PICK i \in I : \A j \in I : ~(<<j, i>> \in Less)
  BY <1>1, <1>2, WFMin
<1>4. \A j \in I : i <= j
  <2> TAKE j \in I
  <2>1. i \in Nat /\ j \in Nat
    BY <1>2
  <2>2. <<j, i>> \in Less <=> j < i
    BY <2>1 DEF Less
  <2> QED
    BY <1>3, <2>1, <2>2
<1>5. \E x \in I : \A y \in I : x <= y
  BY <1>4
<1> QED
  BY <1>5 DEF Min

LEMMA OnList ==
  ASSUME NEW gs \in Seq(Shelved)
  PROVE  /\ Len(gs) \in Nat /\ DOMAIN gs = 1 .. Len(gs)
         /\ \A j \in 1 .. Len(gs) : gs[j] \in Shelved /\ gs[j].id \in Nat /\ gs[j].name \in Names
<1>1. Len(gs) \in Nat /\ DOMAIN gs = 1 .. Len(gs) /\ \A j \in 1 .. Len(gs) : gs[j] \in Shelved
  OBVIOUS
<1>2. \A e \in Shelved : e.id \in Nat /\ e.name \in Names
  BY DEF Shelved
<1> QED
  BY <1>1, <1>2

LEMMA FirstNamed ==
  ASSUME NEW gs \in Seq(Shelved), NEW w
  PROVE  /\ Named(gs, w) \in Nat
         /\ Named(gs, w) # 0 => \E j \in DOMAIN gs : gs[j].id = Named(gs, w) /\ gs[j].name = w.name
<1> DEFINE I == {j \in 1 .. Len(gs) : gs[j].name = w.name}
<1>0. Len(gs) \in Nat /\ I \in SUBSET (1 .. Len(gs)) /\ \A j \in 1 .. Len(gs) : gs[j].id \in Nat
  BY OnList
<1>3. I # {} => Min(I) \in I
  <2> HIDE DEF I
  <2> QED
    BY <1>0, FirstOf, Zenon
<1>1. Named(gs, w) = IF I = {} THEN 0 ELSE gs[Min(I)].id
  <2>1. SelectInSeq(gs, LAMBDA x : x.name = w.name) = IF I # {} THEN Min(I) ELSE 0
    BY DEF SelectInSeq
  <2>2. I # {} => Min(I) # 0
    BY <1>3
  <2> QED
    BY <2>1, <2>2 DEF Named, FirstId
<1>2. I # {} => Min(I) \in 1 .. Len(gs) /\ gs[Min(I)].name = w.name
  BY <1>3
<1> QED
  <2> HIDE DEF I
  <2> QED
    BY <1>0, <1>1, <1>2

LEMMA Targets ==
  ASSUME NEW gs \in Seq(Shelved), NEW w \in [id : Nat, name : Names]
  PROVE  /\ HappTarget(gs, w) \in Nat
         /\ ProfileTarget(gs, w) \in Nat
         /\ w # Anywhere /\ ProfileTarget(gs, w) # 0
              => \E j \in DOMAIN gs : gs[j].id = ProfileTarget(gs, w) /\ gs[j].name = w.name
<1>0. Len(gs) \in Nat /\ (gs # <<>> => Len(gs) > 0) /\ \A j \in 1 .. Len(gs) : gs[j].id \in Nat
  BY OnList
<1>1. Len(gs) = 1 => gs[1].id \in Nat
  BY <1>0
<1>2. gs # <<>> => gs[1].id \in Nat
  BY <1>0
<1> DEFINE I == {j \in 1 .. Len(gs) : w.id # 0 /\ gs[j].id = w.id}
<1>3. FirstId(gs, LAMBDA x : w.id # 0 /\ x.id = w.id) \in Nat
  <2>1. SelectInSeq(gs, LAMBDA x : w.id # 0 /\ x.id = w.id) = IF I # {} THEN Min(I) ELSE 0
    BY DEF SelectInSeq
  <2>2. I # {} => Min(I) \in I
    <3>1. Len(gs) \in Nat /\ I \in SUBSET (1 .. Len(gs))
      OBVIOUS
    <3> HIDE DEF I
    <3> QED
      BY <3>1, FirstOf, Zenon
  <2>3. \A i \in 1 .. Len(gs) : gs[i].id \in Nat
    BY OnList
  <2> QED
    BY <2>1, <2>2, <2>3 DEF FirstId
<1> QED
  BY <1>1, <1>2, <1>3, FirstNamed DEF HappTarget, ProfileTarget

LEMMA NameOnShelf ==
  ASSUME LinkTypeOK, NEW g, OnShelf(g)
  PROVE  NameOf(g) \in Names /\ \A n : NameKept(g, n) => NameOf(g) = n
<1> DEFINE I == {j \in 1 .. Len(shelf.gs) : shelf.gs[j].id = g}
<1>1. shelf.gs \in Seq(Shelved)
  BY DEF LinkTypeOK
<1>2. I # {} /\ Len(shelf.gs) \in Nat
  BY <1>1 DEF OnShelf
<1>3. Min(I) \in I
  <2>1. I \in SUBSET (1 .. Len(shelf.gs))
    OBVIOUS
  <2> HIDE DEF I
  <2> QED
    BY <2>1, <1>2, FirstOf, Zenon
<1>4. SelectInSeq(shelf.gs, LAMBDA x : x.id = g) = Min(I)
  BY <1>2 DEF SelectInSeq
<1>5. NameOf(g) = shelf.gs[Min(I)].name /\ Min(I) \in DOMAIN shelf.gs /\ shelf.gs[Min(I)].id = g
  <2>1. DOMAIN shelf.gs = 1 .. Len(shelf.gs)
    BY <1>1
  <2> QED
    BY <2>1, <1>3, <1>4 DEF NameOf
<1>6. shelf.gs[Min(I)].name \in Names
  BY <1>1, <1>3, OnList
<1> HIDE DEF I
<1> QED
  BY <1>5, <1>6 DEF NameKept

\* A name is kept while groups are added and deleted.
NamesStay == \A g \in Nat, n \in Names : NameKept(g, n) => NameKept(g, n)'

LEMMA ShelfGrows ==
  ASSUME LinkTypeOK, ShelfInv, NEW n \in Names, NEW d, d = shelf.last + 1,
         shelf' = [gs |-> Append(shelf.gs, [id |-> d, name |-> n]), last |-> d]
  PROVE  /\ shelf' \in [gs : Seq(Shelved), last : Nat] /\ ShelfInv' /\ NamesStay
         /\ NameKept(d, n)' /\ d \in Nat \ {0}
<1>0. shelf.last \in Nat /\ d \in Nat \ {0}
  BY DEF LinkTypeOK
<1>1. shelf.gs \in Seq(Shelved) /\ shelf.last \in Nat
  BY DEF LinkTypeOK
<1> DEFINE e == [id |-> d, name |-> n]
<1>2. e \in Shelved /\ e.id = d /\ e.name = n
  BY <1>0 DEF Shelved
<1> HIDE DEF e
<1>3. shelf'.gs = Append(shelf.gs, e) /\ shelf'.last = d
  BY DEF e
<1>4. shelf'.gs \in Seq(Shelved) /\ DOMAIN shelf'.gs = 1 .. Len(shelf.gs) + 1
  BY <1>1, <1>2, <1>3
<1>5. \A i \in 1 .. Len(shelf.gs) : shelf'.gs[i] = shelf.gs[i] /\ shelf.gs[i] \in Shelved
  BY <1>1, <1>2, <1>3
<1>6. shelf'.gs[Len(shelf.gs) + 1] = e
  BY <1>1, <1>2, <1>3
<1>7. DOMAIN shelf.gs = 1 .. Len(shelf.gs) /\ Len(shelf.gs) \in Nat
  BY <1>1
<1>8. \A i \in 1 .. Len(shelf.gs) + 1 : i \in 1 .. Len(shelf.gs) \/ i = Len(shelf.gs) + 1
  BY <1>7
<1>9. \A i \in 1 .. Len(shelf.gs) : shelf.gs[i].id \in Nat /\ shelf.gs[i].id <= shelf.last /\ shelf.gs[i].name \in Names
  BY <1>5, <1>7 DEF ShelfInv, NameKept, Shelved
<1>10. NamesStay
  <2> SUFFICES ASSUME NEW g \in Nat, NEW m \in Names, NameKept(g, m) PROVE NameKept(g, m)'
    BY DEF NamesStay
  <2>1. g <= shelf.last /\ g # d
    BY <1>0 DEF NameKept
  <2>2. \A i \in 1 .. Len(shelf.gs) + 1 : shelf'.gs[i].id = g => shelf'.gs[i].name = m
    BY <2>1, <1>2, <1>5, <1>6, <1>7, <1>8 DEF NameKept
  <2>3. g <= d
    BY <2>1, <1>0
  <2> QED
    BY <2>2, <2>3, <1>3, <1>4 DEF NameKept
<1>11. NameKept(d, n)'
  <2>1. \A i \in 1 .. Len(shelf.gs) + 1 : shelf'.gs[i].id = d => shelf'.gs[i].name = n
    <3> TAKE i \in 1 .. Len(shelf.gs) + 1
    <3>1. CASE i \in 1 .. Len(shelf.gs)
      BY <3>1, <1>0, <1>5, <1>9
    <3>2. CASE i = Len(shelf.gs) + 1
      BY <3>2, <1>2, <1>6
    <3> QED
      BY <3>1, <3>2, <1>8
  <2>2. d <= d
    BY <1>0
  <2> QED
    BY <2>1, <2>2, <1>3, <1>4 DEF NameKept
<1>12. ShelfInv'
  <2> SUFFICES ASSUME NEW i \in 1 .. Len(shelf.gs) + 1
               PROVE  NameKept(shelf.gs[i].id, shelf.gs[i].name)'
    BY <1>4 DEF ShelfInv
  <2>1. CASE i \in 1 .. Len(shelf.gs)
    <3>1. NameKept(shelf.gs[i].id, shelf.gs[i].name)
      BY <2>1, <1>7 DEF ShelfInv
    <3> DEFINE g == shelf.gs[i].id
               m == shelf.gs[i].name
    <3>2. g \in Nat /\ m \in Names
      BY <2>1, <1>9
    <3>3. \A x \in Nat, y \in Names : NameKept(x, y) => x <= shelf'.last /\ \A l \in DOMAIN shelf'.gs : shelf'.gs[l].id = x => shelf'.gs[l].name = y
      BY <1>10 DEF NamesStay, NameKept
    <3>4. shelf'.gs[i].id = g /\ shelf'.gs[i].name = m
      BY <2>1, <1>5
    <3> HIDE DEF g, m
    <3>5. g <= shelf'.last /\ \A l \in DOMAIN shelf'.gs : shelf'.gs[l].id = g => shelf'.gs[l].name = m
      BY <3>1, <3>2, <3>3 DEF g, m
    <3> QED
      BY <3>4, <3>5 DEF NameKept
  <2>2. CASE i = Len(shelf.gs) + 1
    BY <2>2, <1>2, <1>6, <1>11 DEF NameKept
  <2> QED
    BY <2>1, <2>2, <1>8
<1> QED
  BY <1>0, <1>1, <1>2, <1>3, <1>4, <1>10, <1>11, <1>12

LEMMA ShelfShrinks ==
  ASSUME LinkTypeOK, ShelfInv, NEW k \in DOMAIN shelf.gs, shelf' = [shelf EXCEPT !.gs = RemoveAt(@, k)]
  PROVE  shelf' \in [gs : Seq(Shelved), last : Nat] /\ ShelfInv' /\ NamesStay
<1>1. shelf.gs \in Seq(Shelved) /\ shelf.last \in Nat
  BY DEF LinkTypeOK
<1>2. k \in 1 .. Len(shelf.gs) /\ Len(shelf.gs) \in Nat /\ DOMAIN shelf.gs = 1 .. Len(shelf.gs)
  BY <1>1
<1> DEFINE p == SubSeq(shelf.gs, 1, k - 1)
           q == SubSeq(shelf.gs, k + 1, Len(shelf.gs))
<1>3. p \in Seq(Shelved) /\ Len(p) = k - 1 /\ \A i \in 1 .. k - 1 : p[i] = shelf.gs[i]
  BY <1>1, <1>2
<1>4. q \in Seq(Shelved) /\ Len(q) = Len(shelf.gs) - k /\ \A i \in 1 .. Len(shelf.gs) - k : q[i] = shelf.gs[k + i]
  BY <1>1, <1>2
<1>5. shelf'.gs = p \o q /\ shelf'.last = shelf.last /\ shelf' = [gs |-> p \o q, last |-> shelf.last]
  BY DEF RemoveAt, LinkTypeOK
<1> HIDE DEF p, q
<1>6. p \o q \in Seq(Shelved) /\ DOMAIN (p \o q) = 1 .. Len(p) + Len(q)
  BY <1>3, <1>4
<1>7. /\ \A i \in 1 .. Len(p) : (p \o q)[i] = p[i]
      /\ \A i \in Len(p) + 1 .. Len(p) + Len(q) : (p \o q)[i] = q[i - Len(p)]
  BY <1>3, <1>4, SMTT(30)
<1>8. \A i \in DOMAIN shelf'.gs : \E j \in DOMAIN shelf.gs : shelf'.gs[i] = shelf.gs[j]
  <2> SUFFICES ASSUME NEW i \in 1 .. Len(p) + Len(q)
               PROVE  \E j \in DOMAIN shelf.gs : (p \o q)[i] = shelf.gs[j]
    BY <1>5, <1>6
  <2>1. CASE i <= k - 1
    <3>1. i \in 1 .. k - 1 /\ i \in DOMAIN shelf.gs
      BY <2>1, <1>2
    <3> QED
      BY <3>1, <1>3, <1>7
  <2>2. CASE i > k - 1
    <3> DEFINE m == Len(shelf.gs)
               l == i - (k - 1)
    <3>0. i \in Int /\ i <= (k - 1) + (m - k) /\ k \in Int /\ m \in Int
      BY <1>2, <1>3, <1>4
    <3>1. l \in 1 .. m - k /\ k + l \in 1 .. m
      BY <2>2, <3>0, <1>2
    <3>2. i \in Len(p) + 1 .. Len(p) + Len(q)
      BY <2>2, <1>2, <1>3, <1>4
    <3>3. (p \o q)[i] = q[l]
      BY <3>2, <1>3, <1>7
    <3> HIDE DEF l
    <3> QED
      BY <3>1, <3>3, <1>2, <1>4
  <2> QED
    BY <2>1, <2>2, <1>2
<1>9. NamesStay
  BY <1>5, <1>8 DEF NamesStay, NameKept
<1>10. ShelfInv'
  <2> SUFFICES ASSUME NEW i \in DOMAIN shelf'.gs
               PROVE  NameKept(shelf.gs[i].id, shelf.gs[i].name)'
    BY DEF ShelfInv
  <2>1. PICK j \in DOMAIN shelf.gs : shelf'.gs[i] = shelf.gs[j]
    BY <1>8
  <2>2. shelf.gs[j].id \in Nat /\ shelf.gs[j].name \in Names /\ NameKept(shelf.gs[j].id, shelf.gs[j].name)
    BY <1>1, OnList DEF ShelfInv
  <2> QED
    BY <2>1, <2>2, <1>9 DEF NamesStay, NameKept
<1> QED
  BY <1>1, <1>5, <1>6, <1>9, <1>10

\* One more broadcast, or none is heard any more.
LEMMA HeardGrows ==
  ASSUME LinkInv, NEW f \in Broadcasts, Cast(<<f>>), link' = link, NamesStay,
         fetched \subseteq fetched', imported \subseteq imported', FrameTrue(f)',
         f.k = "subscription" /\ f.by = "link" /\ link.job.k = "sub"
           => link.pc = "done" \/ Announced(Len(heard))
  PROVE  /\ heard' \in Seq(Broadcasts) /\ HeardInv' /\ FollowInv'
         /\ Linked /\ (Announced(Len(heard)) \/ f.k = "groupadded") => Announced(Len(heard))'
<1>1. heard \in Seq(Broadcasts) /\ Len(heard) \in Nat /\ DOMAIN heard = 1 .. Len(heard)
  BY DEF LinkInv, LinkTypeOK
<1>2. CASE ~Linked
  <2>1. heard' = <<>>
    BY <1>2 DEF Cast
  <2> QED
    BY <2>1, <1>2 DEF HeardInv, FollowInv
<1>3. CASE Linked
  <2>1. heard' = heard \o <<f>>
    BY <1>3 DEF Cast
  <2>2. heard' \in Seq(Broadcasts) /\ Len(heard') = Len(heard) + 1 /\ DOMAIN heard' = 1 .. Len(heard) + 1
    BY <2>1, <1>1
  <2>3. (\A i \in 1 .. Len(heard) : heard'[i] = heard[i] /\ heard[i] \in Broadcasts) /\ heard'[Len(heard) + 1] = f
    BY <2>1, <1>1
  <2>4. \A i \in 1 .. Len(heard) + 1 : i \in 1 .. Len(heard) \/ i = Len(heard) + 1
    BY <1>1
  <2>5. ASSUME NEW e \in Broadcasts, FrameTrue(e) PROVE FrameTrue(e)'
    <3>1. e.g \in Nat /\ e.gs \in Seq(Shelved) /\ link.job.want.name \in Names
      <4>1. \A x \in Broadcasts : x.g \in Nat /\ x.gs \in Seq(Shelved)
        BY DEF Broadcasts
      <4> QED
        BY <4>1 DEF LinkInv, LinkTypeOK, LinkJobs
    <3>2. \A j \in DOMAIN e.gs : e.gs[j].id \in Nat /\ e.gs[j].name \in Names
      BY <3>1, OnList
    <3>3. \A x \in Nat, n \in Names : NameKept(x, n) => NameKept(x, n)'
      BY DEF NamesStay
    <3>4. e.k = "state" => \A j \in DOMAIN e.gs : NameKept(e.gs[j].id, e.gs[j].name)'
      BY <2>5, <3>2, <3>3 DEF FrameTrue
    <3>5. e.k = "groupadded" => e.g # 0 /\ (e.by = "link" => NameKept(e.g, link.job.want.name)')
      BY <2>5, <3>1, <3>3 DEF FrameTrue
    <3>6. link.job' = link.job
      OBVIOUS
    <3> QED
      BY <2>5, <3>4, <3>5, <3>6 DEF FrameTrue
  <2>6. \A i \in 1 .. Len(heard) : FrameTrue(heard[i])
    BY <1>1 DEF LinkInv, HeardInv
  <2>7. ASSUME NEW i \in 1 .. Len(heard) + 1 PROVE FrameTrue(heard[i])'
    <3>1. CASE i \in 1 .. Len(heard)
      <4>1. PICK e \in Broadcasts : e = heard[i]
        BY <3>1, <2>3
      <4>2. FrameTrue(e)'
        BY <4>1, <3>1, <2>5, <2>6
      <4>3. heard'[i] = e
        BY <4>1, <3>1, <2>3
      <4> QED
        BY <4>2, <4>3
    <3>2. CASE i = Len(heard) + 1
      BY <3>2, <2>3
    <3> QED
      BY <3>1, <3>2, <2>4
  <2>8. HeardInv'
    BY <2>2, <2>7 DEF HeardInv
  <2>9. ASSUME NEW n \in 0 .. Len(heard), Announced(n) PROVE Announced(n)'
    <3>1. CASE link.seen # 0
      BY <3>1 DEF Announced
    <3>2. ASSUME NEW j \in 1 .. n, heard[j].k = "groupadded" PROVE Announced(n)'
      <4>1. heard'[j].k = "groupadded"
        BY <3>2, <2>3, <1>1
      <4> QED
        BY <4>1 DEF Announced
    <3> QED
      BY <2>9, <3>1, <3>2 DEF Announced
  <2>10. FollowInv'
    <3> SUFFICES ASSUME NEW i \in 1 .. Len(heard) + 1,
                        heard'[i].k = "subscription", heard'[i].by = "link", link.job.k = "sub"
                 PROVE  Announced(i - 1)'
      BY <2>2 DEF FollowInv
    <3>1. CASE i \in 1 .. Len(heard)
      <4>1. Announced(i - 1)
        BY <3>1, <2>3, <1>1 DEF LinkInv, FollowInv
      <4>2. i - 1 \in 0 .. Len(heard)
        BY <3>1, <1>1
      <4> QED
        BY <4>1, <4>2, <2>9
    <3>2. CASE i = Len(heard) + 1
      <4>1. Announced(Len(heard))
        BY <3>2, <2>3, <1>3 DEF Linked
      <4>2. Len(heard) \in 0 .. Len(heard) /\ i - 1 = Len(heard)
        BY <3>2, <1>1
      <4>3. PICK n \in 0 .. Len(heard) : n = Len(heard)
        BY <4>2
      <4> QED
        BY <4>1, <4>2, <4>3, <2>9
    <3> QED
      BY <3>1, <3>2, <2>4
  <2>11. Announced(Len(heard)) \/ f.k = "groupadded" => Announced(Len(heard))'
    <3>0. Len(heard) \in 0 .. Len(heard)
      BY <1>1
    <3>1. PICK n \in 0 .. Len(heard) : n = Len(heard)
      BY <3>0
    <3>2. PICK m \in Nat : m = Len(heard) + 1 /\ m = Len(heard')
      BY <1>1, <2>2
    <3>3. CASE f.k = "groupadded"
      <4>1. heard'[m].k = "groupadded" /\ m \in 1 .. m
        BY <3>2, <3>3, <2>3, <1>1
      <4> QED
        BY <4>1, <3>2 DEF Announced
    <3>4. CASE Announced(Len(heard))
      <4>1. Announced(n)'
        BY <3>1, <3>4, <2>9
      <4>2. 1 .. n \subseteq 1 .. m
        BY <3>1, <3>2
      <4> QED
        BY <4>1, <4>2, <3>2 DEF Announced
    <3> QED
      BY <3>3, <3>4
  <2> QED
    BY <2>2, <2>8, <2>10, <2>11
<1> QED
  BY <1>2, <1>3

\* What a step of the core has to keep in order.
LEMMA CoreServes ==
  ASSUME LinkInv, link.pc # "idle", NEW f \in Broadcasts, Cast(<<f>>), FrameTrue(f)',
         f.k = "subscription" /\ f.by = "link" /\ link.job.k = "sub"
           => link.pc = "done" \/ Announced(Len(heard)),
         up' = up, link' = link, misread' = misread,
         shelf' \in [gs : Seq(Shelved), last : Nat], ShelfInv', NamesStay,
         \/ wanted' = wanted
         \/ wanted # <<>> /\ wanted' = Tail(wanted),
         \/ fetching' \subseteq fetching
         \/ fetching' \subseteq Nat /\ f.k = "groupadded" /\ link.job.k = "sub",
         fetched \subseteq fetched', fetched' \subseteq Nat,
         imported \subseteq imported', imported' \subseteq Nat,
         \/ placed' = placed
         \/ placed' \in Names /\ (misread \/ link.job.want = Anywhere \/ placed' = link.job.want.name)
  PROVE  LinkInv'
<1>1. heard' \in Seq(Broadcasts) /\ HeardInv' /\ FollowInv'
  BY HeardGrows
<1>2. Linked /\ (Announced(Len(heard)) \/ f.k = "groupadded") => Announced(Len(heard))'
  BY HeardGrows
<1>3. wanted \in Seq(Wishes)
  BY DEF LinkInv, LinkTypeOK
<1>4. wanted' \in Seq(Wishes) /\ \A i \in DOMAIN wanted' : \E j \in DOMAIN wanted : wanted'[i] = wanted[j]
  <2>1. CASE wanted' = wanted
    BY <2>1, <1>3
  <2>2. CASE wanted # <<>> /\ wanted' = Tail(wanted)
    <3>1. wanted' \in Seq(Wishes) /\ DOMAIN wanted' = 1 .. Len(wanted) - 1 /\ DOMAIN wanted = 1 .. Len(wanted) /\ Len(wanted) \in Nat
      BY <2>2, <1>3
    <3>2. \A i \in 1 .. Len(wanted) - 1 : wanted'[i] = wanted[i + 1] /\ i + 1 \in 1 .. Len(wanted)
      BY <2>2, <1>3
    <3> QED
      BY <3>1, <3>2
  <2> QED
    BY <2>1, <2>2
<1>5. LinkTypeOK'
  BY <1>1, <1>4 DEF LinkInv, LinkTypeOK
<1>6. StageInv'
  BY DEF LinkInv, StageInv
<1>7. WishInv'
  <2> SUFFICES ASSUME NEW i \in DOMAIN wanted' PROVE WishFits(wanted[i])'
    BY DEF WishInv
  <2>1. PICK j \in DOMAIN wanted : wanted'[i] = wanted[j]
    BY <1>4
  <2>2. PICK r \in Wishes : r = wanted[j]
    BY <1>3
  <2>3. WishFits(r)
    BY <2>2 DEF LinkInv, WishInv
  <2>4. r.k = "addprofile" => RightGroup(r.g)'
    <3>1. r.k = "addprofile" => r.g \in Nat
      BY DEF Wishes
    <3>2. link.job.want.name \in Names
      BY DEF LinkInv, LinkTypeOK, LinkJobs
    <3> QED
      BY <2>3, <3>1, <3>2 DEF WishFits, RightGroup, NamesStay
  <2>5. WishFits(r)'
    BY <2>3, <2>4 DEF WishFits
  <2> QED
    BY <2>1, <2>2, <2>5
<1>8. RunningInv'
  BY <1>2 DEF LinkInv, RunningInv, Linked
<1>9. ReportInv'
  BY DEF LinkInv, ReportInv
<1> QED
  BY <1>1, <1>5, <1>6, <1>7, <1>8, <1>9 DEF LinkInv

LEMMA Noticed ==
  ASSUME NEW k, NEW g \in Nat, NEW by \in {"link", "other"},
         k \in {"state", "groupadded", "addgroupwarn", "subscription", "subwarn", "profiles",
                "happwarn", "groupupdated", "groupdeleted"}
  PROVE  /\ Notice(k, g, by) \in Broadcasts
         /\ Notice(k, g, by).k = k /\ Notice(k, g, by).g = g /\ Notice(k, g, by).by = by
BY DEF Notice, Broadcasts

\* add-group, by the link or by another client.
LEMMA ShelveStep ==
  ASSUME LinkInv, link.pc # "idle", NEW n \in Names, NEW url \in BOOLEAN, NEW by \in {"link", "other"},
         ShelveGroup(n, url, by), by = "link" => n = link.job.want.name, url => link.job.k = "sub",
         up' = up, link' = link, misread' = misread, fetched' = fetched, imported' = imported, placed' = placed,
         wanted' = wanted \/ (wanted # <<>> /\ wanted' = Tail(wanted))
  PROVE  LinkInv'
<1>0. /\ fetched \subseteq Nat /\ imported \subseteq Nat /\ fetching \subseteq Nat
      /\ shelf \in [gs : Seq(Shelved), last : Nat] /\ ShelfInv /\ LinkTypeOK
  BY DEF LinkInv, LinkTypeOK
<1>1. ASSUME NEW d, d = shelf.last + 1,
             shelf' = [gs |-> Append(shelf.gs, [id |-> d, name |-> n]), last |-> d],
             fetching' = IF url THEN fetching \cup {d} ELSE fetching,
             Cast(<<Notice("groupadded", d, by)>>)
      PROVE  LinkInv'
  <2>1. /\ shelf' \in [gs : Seq(Shelved), last : Nat] /\ ShelfInv' /\ NamesStay
        /\ NameKept(d, n)' /\ d \in Nat \ {0}
    BY <1>0, <1>1, ShelfGrows
  <2>2. PICK f \in Broadcasts : f = Notice("groupadded", d, by) /\ f.k = "groupadded" /\ f.g = d /\ f.by = by
    BY <2>1, Noticed
  <2>3. FrameTrue(f)'
    BY <2>1, <2>2 DEF FrameTrue
  <2>4. fetching' \subseteq fetching \/ (fetching' \subseteq Nat /\ link.job.k = "sub")
    BY <1>0, <1>1, <2>1
  <2> QED
    BY <1>0, <1>1, <2>1, <2>2, <2>3, <2>4, CoreServes
<1>2. ASSUME Cast(<<Notice("addgroupwarn", 0, by)>>), shelf' = shelf, fetching' = fetching PROVE LinkInv'
  <2>1. ShelfInv' /\ NamesStay
    BY <1>0, <1>2 DEF ShelfInv, NamesStay, NameKept
  <2>2. PICK f \in Broadcasts : f = Notice("addgroupwarn", 0, by) /\ f.k = "addgroupwarn"
    BY Noticed
  <2>3. FrameTrue(f)'
    BY <2>2 DEF FrameTrue
  <2> QED
    BY <1>0, <1>2, <2>1, <2>2, <2>3, CoreServes
<1> QED
  BY <1>1, <1>2 DEF ShelveGroup

LEMMA FetchEnds == ASSUME LinkInv, NEW g \in fetching, FetchDone(g) PROVE LinkInv'
<1>0. /\ fetched \subseteq Nat /\ imported \subseteq Nat /\ g \in Nat
      /\ shelf \in [gs : Seq(Shelved), last : Nat] /\ ShelfInv
      /\ link.pc # "idle" /\ link.job.k = "sub" /\ (link.pc = "done" \/ Announced(Len(heard)))
  BY DEF LinkInv, LinkTypeOK, StageInv, RunningInv
<1>1. ShelfInv' /\ NamesStay /\ shelf' = shelf
  BY <1>0 DEF FetchDone, ShelfInv, NamesStay, NameKept
<1>2. /\ up' = up /\ link' = link /\ misread' = misread /\ wanted' = wanted
      /\ fetching' \subseteq fetching /\ imported' = imported /\ placed' = placed
  BY DEF FetchDone
<1>3. CASE Cast(<<Notice("subscription", g, "link")>>) /\ fetched' = fetched \cup {g}
  <2>1. PICK f \in Broadcasts : f = Notice("subscription", g, "link") /\ f.k = "subscription" /\ f.g = g /\ f.by = "link"
    BY <1>0, Noticed
  <2>2. FrameTrue(f)'
    BY <1>0, <1>2, <1>3, <2>1 DEF FrameTrue
  <2>3. fetched \subseteq fetched' /\ fetched' \subseteq Nat
    BY <1>0, <1>3
  <2> QED
    BY <1>0, <1>1, <1>2, <1>3, <2>1, <2>2, <2>3, CoreServes
<1>4. CASE Cast(<<Notice("subwarn", g, "link")>>) /\ fetched' = fetched
  <2>1. PICK f \in Broadcasts : f = Notice("subwarn", g, "link") /\ f.k = "subwarn"
    BY <1>0, Noticed
  <2>2. FrameTrue(f)'
    BY <2>1 DEF FrameTrue
  <2> QED
    BY <1>0, <1>1, <1>2, <1>4, <2>1, <2>2, CoreServes
<1> QED
  BY <1>3, <1>4 DEF FetchDone

LEMMA ServeStep == ASSUME LinkInv, CoreServesLink PROVE LinkInv'
<1>0. /\ fetched \subseteq Nat /\ imported \subseteq Nat /\ wanted \in Seq(Wishes)
      /\ shelf \in [gs : Seq(Shelved), last : Nat] /\ ShelfInv /\ LinkTypeOK
      /\ link.pc # "idle" /\ link.job.want.name \in Names
  BY DEF LinkInv, LinkTypeOK, StageInv, CoreServesLink, LinkJobs
<1>1. PICK r \in Wishes : r = Head(wanted) /\ WishFits(r)
  <2>1. Head(wanted) \in Wishes /\ Head(wanted) = wanted[1] /\ 1 \in DOMAIN wanted
    BY <1>0 DEF CoreServesLink
  <2>2. WishFits(wanted[1])
    BY <2>1 DEF LinkInv, WishInv
  <2> QED
    BY <2>1, <2>2
<1>2. /\ wanted # <<>> /\ wanted' = Tail(wanted) /\ up' = up /\ link' = link /\ fetched' = fetched /\ misread' = misread
  BY DEF CoreServesLink
<1>3. shelf' = shelf => ShelfInv' /\ NamesStay
  BY <1>0 DEF ShelfInv, NamesStay, NameKept
<1>4. /\ r.k = "addgroup" => r.name \in Names /\ r.url \in BOOLEAN
      /\ r.k \in {"addprofile", "happ"} => r.g \in Nat
  BY DEF Wishes
<1>5. CASE r.k = "state" /\ Cast(<<[Notice("state", 0, "link") EXCEPT !.gs = shelf.gs]>>)
           /\ UNCHANGED <<shelf, fetching, imported, placed>>
  <2>1. PICK f \in Broadcasts : f = [Notice("state", 0, "link") EXCEPT !.gs = shelf.gs] /\ f.k = "state" /\ f.gs = shelf.gs
    <3>1. [Notice("state", 0, "link") EXCEPT !.gs = shelf.gs] \in Broadcasts
      BY <1>0 DEF Notice, Broadcasts
    <3> QED
      BY <3>1 DEF Notice
  <2>2. \A j \in DOMAIN f.gs : NameKept(f.gs[j].id, f.gs[j].name)'
    BY <1>0, <1>5, <2>1 DEF ShelfInv, NameKept
  <2>3. FrameTrue(f)'
    BY <2>1, <2>2 DEF FrameTrue
  <2> QED
    BY <1>0, <1>2, <1>3, <1>5, <2>1, <2>3, CoreServes
<1>6. CASE r.k = "addgroup" /\ ShelveGroup(r.name, r.url, "link") /\ UNCHANGED <<imported, placed>>
  BY <1>0, <1>1, <1>2, <1>4, <1>6, ShelveStep DEF WishFits
<1>7. CASE r.k = "addprofile" /\ Cast(<<Notice("profiles", r.g, "link")>>)
           /\ placed' = (IF OnShelf(r.g) THEN NameOf(r.g) ELSE placed) /\ UNCHANGED <<shelf, fetching, imported>>
  <2>1. PICK f \in Broadcasts : f = Notice("profiles", r.g, "link") /\ f.k = "profiles"
    BY <1>4, <1>7, Noticed
  <2>2. FrameTrue(f)'
    BY <2>1 DEF FrameTrue
  <2>3. \/ placed' = placed
        \/ placed' \in Names /\ (misread \/ link.job.want = Anywhere \/ placed' = link.job.want.name)
    BY <1>0, <1>1, <1>7, NameOnShelf DEF WishFits, RightGroup
  <2> QED
    BY <1>0, <1>2, <1>3, <1>7, <2>1, <2>2, <2>3, CoreServes
<1>8. CASE r.k = "happ" /\ Cast(<<Notice("subscription", r.g, "link")>>) /\ imported' = imported \cup {r.g}
           /\ UNCHANGED <<shelf, fetching, placed>>
  <2>1. PICK f \in Broadcasts : f = Notice("subscription", r.g, "link") /\ f.k = "subscription" /\ f.g = r.g /\ f.by = "link"
    BY <1>4, <1>8, Noticed
  <2>2. link.job.k = "happ"
    BY <1>1, <1>8 DEF WishFits
  <2>3. FrameTrue(f)'
    BY <1>2, <1>8, <2>1, <2>2 DEF FrameTrue
  <2>4. imported \subseteq imported' /\ imported' \subseteq Nat
    BY <1>0, <1>4, <1>8
  <2> QED
    BY <1>0, <1>2, <1>3, <1>8, <2>1, <2>2, <2>3, <2>4, CoreServes
<1>9. CASE r.k = "happ" /\ Cast(<<Notice("happwarn", r.g, "link")>>) /\ UNCHANGED <<imported, shelf, fetching, placed>>
  <2>1. PICK f \in Broadcasts : f = Notice("happwarn", r.g, "link") /\ f.k = "happwarn"
    BY <1>4, <1>9, Noticed
  <2>2. FrameTrue(f)'
    BY <2>1 DEF FrameTrue
  <2> QED
    BY <1>0, <1>2, <1>3, <1>9, <2>1, <2>2, CoreServes
<1> QED
  BY <1>1, <1>5, <1>6, <1>7, <1>8, <1>9 DEF CoreServesLink

LEMMA MeddleStep == ASSUME LinkInv, Meddle PROVE LinkInv'
<1>0. /\ fetched \subseteq Nat /\ imported \subseteq Nat /\ shelf.gs \in Seq(Shelved)
      /\ shelf \in [gs : Seq(Shelved), last : Nat] /\ ShelfInv /\ LinkTypeOK /\ link.pc # "idle"
  BY DEF LinkInv, LinkTypeOK, Meddle, Linked
<1>1. up' = up /\ link' = link /\ misread' = misread /\ wanted' = wanted /\ imported' = imported /\ placed' = placed
  BY DEF Meddle
<1>2. shelf' = shelf => ShelfInv' /\ NamesStay
  BY <1>0 DEF ShelfInv, NamesStay, NameKept
<1>3. CASE ShelveGroup("other", FALSE, "other") /\ UNCHANGED fetched
  <2>1. "other" \in Names
    BY DEF Names
  <2> QED
    BY <1>0, <1>1, <1>3, <2>1, ShelveStep
<1>4. ASSUME NEW i \in DOMAIN shelf.gs, NEW g \in Nat, g = shelf.gs[i].id,
             \/ \E k \in {"groupupdated", "profiles", "subwarn"} :
                  Cast(<<Notice(k, g, "other")>>) /\ UNCHANGED <<shelf, fetching, fetched>>
             \/ /\ Cast(<<Notice("subscription", g, "other")>>) /\ fetched' = fetched \cup {g}
                /\ UNCHANGED <<shelf, fetching>>
             \/ /\ shelf' = [shelf EXCEPT !.gs = RemoveAt(@, i)]
                /\ Cast(<<Notice("groupdeleted", g, "other")>>) /\ UNCHANGED <<fetching, fetched>>
      PROVE  LinkInv'
  <2>1. ASSUME NEW k \in {"groupupdated", "profiles", "subwarn"}, Cast(<<Notice(k, g, "other")>>),
               UNCHANGED <<shelf, fetching, fetched>>
        PROVE  LinkInv'
    <3>1. PICK f \in Broadcasts : f = Notice(k, g, "other") /\ f.k = k /\ f.by = "other"
      BY Noticed
    <3>2. FrameTrue(f)'
      BY <3>1 DEF FrameTrue
    <3> QED
      BY <1>0, <1>1, <1>2, <2>1, <3>1, <3>2, CoreServes
  <2>2. CASE Cast(<<Notice("subscription", g, "other")>>) /\ fetched' = fetched \cup {g} /\ UNCHANGED <<shelf, fetching>>
    <3>1. PICK f \in Broadcasts : f = Notice("subscription", g, "other") /\ f.k = "subscription" /\ f.g = g /\ f.by = "other"
      BY Noticed
    <3>2. FrameTrue(f)'
      BY <2>2, <3>1 DEF FrameTrue
    <3>3. fetched \subseteq fetched' /\ fetched' \subseteq Nat
      BY <1>0, <2>2
    <3> QED
      BY <1>0, <1>1, <1>2, <2>2, <3>1, <3>2, <3>3, CoreServes
  <2>3. CASE shelf' = [shelf EXCEPT !.gs = RemoveAt(@, i)] /\ Cast(<<Notice("groupdeleted", g, "other")>>)
             /\ UNCHANGED <<fetching, fetched>>
    <3>1. PICK f \in Broadcasts : f = Notice("groupdeleted", g, "other") /\ f.k = "groupdeleted"
      BY Noticed
    <3>2. FrameTrue(f)'
      BY <3>1 DEF FrameTrue
    <3>3. shelf' \in [gs : Seq(Shelved), last : Nat] /\ ShelfInv' /\ NamesStay
      BY <1>0, <2>3, ShelfShrinks
    <3> QED
      BY <1>0, <1>1, <2>3, <3>1, <3>2, <3>3, CoreServes
  <2> QED
    BY <1>4, <2>1, <2>2, <2>3
<1>5. \A i \in DOMAIN shelf.gs : shelf.gs[i].id \in Nat
  BY <1>0, OnList
<1> QED
  BY <1>3, <1>4, <1>5 DEF Meddle

\* What a step of the link process that takes a frame has to keep in order.
LEMMA LinkTakes ==
  ASSUME LinkInv, Linked, heard # <<>>, NEW f, f = Head(heard),
         heard' = IF link'.pc = "done" THEN <<>> ELSE Tail(heard),
         UNCHANGED <<up, shelf, fetching, fetched, imported, placed>>,
         link' \in [pc : {"group", "added", "sub", "happ", "done", "state"}, job : LinkJobs, target : Nat, seen : Nat,
                    said : {"nothing", "error", "imported", "warned", "background", "sent"}],
         link'.job = link.job, misread' \in BOOLEAN, misread => misread',
         f.k = "groupadded" /\ link.job.k = "sub" => link'.pc = "done" \/ link'.seen # 0,
         link.seen # 0 => link'.seen # 0,
         \/ wanted' = wanted
         \/ \E r \in Wishes : wanted' = <<r>> /\ WishFits(r)',
         StageInv',
         misread' \/ link'.said # "imported" \/ (/\ link.job.k = "sub" => link'.seen \in fetched
                                                 /\ link.job.k = "happ" => link'.target \in imported)
  PROVE  LinkInv'
<1>1. heard \in Seq(Broadcasts) /\ Len(heard) \in Nat \ {0} /\ DOMAIN heard = 1 .. Len(heard) /\ heard[1] = f
  BY DEF LinkInv, LinkTypeOK
<1>2. wanted \in Seq(Wishes)
  BY DEF LinkInv, LinkTypeOK
<1>3. \A r : WishFits(r) => WishFits(r)'
  <2>1. \A g : RightGroup(g) => RightGroup(g)'
    BY DEF RightGroup, NameKept
  <2> QED
    BY <2>1 DEF WishFits
<1>4. wanted' \in Seq(Wishes) /\ WishInv'
  <2>1. CASE wanted' = wanted
    BY <2>1, <1>2, <1>3 DEF LinkInv, WishInv
  <2>2. ASSUME NEW r \in Wishes, wanted' = <<r>>, WishFits(r)' PROVE wanted' \in Seq(Wishes) /\ WishInv'
    <3>1. DOMAIN wanted' = {1} /\ wanted'[1] = r
      BY <2>2
    <3> QED
      BY <2>2, <3>1 DEF WishInv
  <2> QED
    BY <2>1, <2>2
<1>5. heard' \in Seq(Broadcasts) /\ HeardInv' /\ FollowInv'
      /\ (link'.pc # "done" /\ link.job.k = "sub" /\ Announced(Len(heard)) => Announced(Len(heard))')
  <2>1. CASE link'.pc = "done"
    <3>1. heard' = <<>>
      BY <2>1
    <3> QED
      BY <3>1, <2>1 DEF HeardInv, FollowInv
  <2>2. CASE link'.pc # "done"
    <3>1. heard' = Tail(heard)
      BY <2>2
    <3>2. heard' \in Seq(Broadcasts) /\ Len(heard') = Len(heard) - 1 /\ DOMAIN heard' = 1 .. Len(heard) - 1
      BY <3>1, <1>1
    <3>3. \A i \in 1 .. Len(heard) - 1 : heard'[i] = heard[i + 1] /\ i + 1 \in 1 .. Len(heard) /\ i + 1 \in Nat
      BY <3>1, <1>1
    <3>4. \A e : FrameTrue(e) => FrameTrue(e)'
      <4>1. \A x, n : NameKept(x, n) => NameKept(x, n)'
        BY DEF NameKept
      <4> QED
        BY <4>1 DEF FrameTrue
    <3>5. HeardInv'
      <4> SUFFICES ASSUME NEW i \in 1 .. Len(heard) - 1 PROVE FrameTrue(heard[i])'
        BY <3>2 DEF HeardInv
      <4>1. FrameTrue(heard[i + 1]) /\ heard'[i] = heard[i + 1]
        BY <3>3, <1>1 DEF LinkInv, HeardInv
      <4>2. PICK e : e = heard[i + 1]
        OBVIOUS
      <4>3. FrameTrue(e)' /\ heard'[i] = e
        BY <4>1, <4>2, <3>4
      <4> QED
        BY <4>3
    <3>6. ASSUME NEW n \in 1 .. Len(heard), NEW m, m = n - 1, link.job.k = "sub", Announced(n) PROVE Announced(m)'
      <4>1. CASE link.seen # 0 \/ heard[1].k = "groupadded"
        BY <4>1, <3>6, <2>2, <1>1 DEF Announced
      <4>2. ASSUME NEW j \in 1 .. n, heard[j].k = "groupadded", j # 1 PROVE Announced(m)'
        <5>1. j - 1 \in 1 .. m /\ j - 1 \in 1 .. Len(heard) - 1 /\ (j - 1) + 1 = j
          BY <4>2, <3>6, <1>1
        <5>2. heard'[j - 1].k = "groupadded"
          BY <5>1, <4>2, <3>3
        <5> QED
          BY <5>1, <5>2 DEF Announced
      <4> QED
        BY <3>6, <4>1, <4>2 DEF Announced
    <3>7. FollowInv'
      <4> SUFFICES ASSUME NEW i \in 1 .. Len(heard) - 1,
                          heard'[i].k = "subscription", heard'[i].by = "link", link.job.k = "sub"
                   PROVE  Announced(i - 1)'
        BY <3>2 DEF FollowInv
      <4>1. heard[i + 1].k = "subscription" /\ heard[i + 1].by = "link" /\ i + 1 \in DOMAIN heard /\ (i + 1) - 1 = i
        BY <3>3, <1>1
      <4>2. Announced((i + 1) - 1)
        BY <4>1 DEF LinkInv, FollowInv
      <4>3. Announced(i)
        BY <4>1, <4>2
      <4>4. i \in 1 .. Len(heard)
        BY <1>1
      <4>5. PICK m : m = i - 1
        OBVIOUS
      <4>6. Announced(m)'
        BY <4>3, <4>4, <4>5, <3>6
      <4> QED
        BY <4>5, <4>6
    <3>8. link.job.k = "sub" /\ Announced(Len(heard)) => Announced(Len(heard))'
      <4>1. PICK n \in 1 .. Len(heard) : n = Len(heard)
        <5>1. Len(heard) \in 1 .. Len(heard)
          BY <1>1
        <5> QED
          BY <5>1
      <4>2. PICK m : m = n - 1 /\ m = Len(heard')
        BY <4>1, <3>2
      <4>3. link.job.k = "sub" /\ Announced(n) => Announced(m)'
        BY <4>1, <4>2, <3>6
      <4> QED
        BY <4>1, <4>2, <4>3
    <3> QED
      BY <3>2, <3>5, <3>7, <3>8
  <2> QED
    BY <2>1, <2>2
<1>6. LinkTypeOK'
  BY <1>4, <1>5 DEF LinkInv, LinkTypeOK
<1>7. ShelfInv'
  BY DEF LinkInv, ShelfInv, NameKept
<1>8. RunningInv'
  <2>1. Linked => link.pc # "done"
    BY DEF Linked
  <2> QED
    BY <1>5, <2>1 DEF LinkInv, RunningInv
<1>9. ReportInv'
  BY DEF LinkInv, ReportInv
<1> QED
  BY <1>4, <1>5, <1>6, <1>7, <1>8, <1>9 DEF LinkInv

LEMMA LinkFields ==
  ASSUME LinkInv
  PROVE  /\ link.job \in LinkJobs /\ link.job.want \in [id : Nat, name : Names] /\ link.job.want.name \in Names
         /\ link.target \in Nat /\ link.seen \in Nat
         /\ link = [pc |-> link.pc, job |-> link.job, target |-> link.target, seen |-> link.seen, said |-> link.said]
  BY DEF LinkInv, LinkTypeOK, LinkJobs

\* The link process goes on to another stage, or ends with a report.
LEMMA Moves ==
  ASSUME LinkInv, Linked
  PROVE  /\ \A w \in {"error", "imported", "warned", "background", "sent"} :
              link' = Says(w) => /\ link' = [pc |-> "done", job |-> link.job, target |-> link.target,
                                             seen |-> link.seen, said |-> w]
                                 /\ StageInv'
         /\ \A p \in {"group", "added", "happ"}, g \in Nat :
              link' = Go(p, g) /\ (p = "happ" => link.job.k = "happ") /\ (p \in {"group", "added"} => link.job.k = "profile")
                => /\ link' = [pc |-> p, job |-> link.job, target |-> g, seen |-> link.seen, said |-> "nothing"]
                   /\ StageInv'
<1>1. link.said = "nothing"
  BY DEF LinkInv, StageInv, Linked
<1>2. link = [pc |-> link.pc, job |-> link.job, target |-> link.target, seen |-> link.seen, said |-> link.said]
  BY LinkFields
<1>3. ASSUME NEW w \in {"error", "imported", "warned", "background", "sent"}, link' = Says(w)
      PROVE  link' = [pc |-> "done", job |-> link.job, target |-> link.target, seen |-> link.seen, said |-> w]
  BY <1>2, <1>3 DEF Says
<1>4. ASSUME NEW p \in {"group", "added", "happ"}, NEW g \in Nat, link' = Go(p, g)
      PROVE  link' = [pc |-> p, job |-> link.job, target |-> g, seen |-> link.seen, said |-> "nothing"]
  BY <1>1, <1>2, <1>4 DEF Go
<1> QED
  BY <1>3, <1>4 DEF StageInv

LEMMA ReadStep == ASSUME LinkInv, LinkReads PROVE LinkInv'
<1> DEFINE f == Head(heard)
<1>1. /\ Linked /\ heard # <<>> /\ heard' = (IF link'.pc = "done" THEN <<>> ELSE Tail(heard))
      /\ UNCHANGED <<up, shelf, fetching, fetched, imported, placed>>
  BY DEF LinkReads
<1>2. f \in Broadcasts /\ FrameTrue(f) /\ f = heard[1] /\ 1 \in DOMAIN heard
  <2>1. heard \in Seq(Broadcasts)
    BY DEF LinkInv, LinkTypeOK
  <2>2. f \in Broadcasts /\ f = heard[1] /\ 1 \in DOMAIN heard
    BY <1>1, <2>1
  <2> QED
    BY <2>2 DEF LinkInv, HeardInv
<1>3. f.g \in Nat /\ f.gs \in Seq(Shelved)
  <2>1. \A e \in Broadcasts : e.g \in Nat /\ e.gs \in Seq(Shelved)
    BY DEF Broadcasts
  <2> HIDE DEF f
  <2> QED
    BY <1>2, <2>1
<1>4. misread' \in BOOLEAN /\ (misread => misread')
  <2>1. misread \in BOOLEAN
    BY DEF LinkInv, LinkTypeOK
  <2>2. misread' = (misread \/ Misread(f))
    BY DEF LinkReads
  <2> HIDE DEF f
  <2> QED
    BY <2>1, <2>2, Zenon
<1>13. Misread(f) => misread'
  <2>1. misread' = (misread \/ Misread(f))
    BY DEF LinkReads
  <2> HIDE DEF f
  <2> QED
    BY <2>1, Zenon
<1>5. /\ link.said = "nothing" /\ link.pc \in {"state", "group", "added", "sub", "happ"}
      /\ link.pc = "sub" <=> link.job.k = "sub"
      /\ link.pc \in {"group", "added"} => link.job.k = "profile"
      /\ link.pc = "happ" => link.job.k = "happ"
      /\ link.pc = "state" => link.job.k \in {"profile", "happ"}
  BY <1>1 DEF LinkInv, LinkTypeOK, StageInv, Linked
<1>6. NamesStay
  BY <1>1 DEF NamesStay, NameKept
<1> HIDE DEF f
<1>7. CASE link.pc = "state" /\ f.k = "state" /\ Chosen(f)
  <2> DEFINE w == link.job.want
             g == IF link.job.k = "happ" THEN HappTarget(f.gs, w) ELSE ProfileTarget(f.gs, w)
  <2>1. g \in Nat /\ w \in [id : Nat, name : Names]
    BY <1>3, LinkFields, Targets
  <2>2. CASE link' = Says("error") /\ wanted' = wanted
    BY <1>1, <1>4, <1>5, <1>7, <2>2, LinkFields, Moves, LinkTakes
  <2>3. CASE link.job.k = "happ" /\ link' = Go("happ", g) /\ wanted' = <<[k |-> "happ", g |-> g]>>
    <3>1. PICK r : r = [k |-> "happ", g |-> g]
      OBVIOUS
    <3> HIDE DEF g
    <3>2. link' = [pc |-> "happ", job |-> link.job, target |-> g, seen |-> link.seen, said |-> "nothing"] /\ StageInv'
      BY <1>1, <2>1, <2>3, Moves
    <3>3. r \in Wishes /\ WishFits(r)' /\ wanted' = <<r>>
      BY <2>1, <2>3, <3>1, <3>2 DEF Wishes, WishFits
    <3> QED
      BY <1>1, <1>4, <1>5, <1>7, <2>1, <3>2, <3>3, LinkFields, LinkTakes
  <2>4. CASE link.job.k # "happ" /\ link' = Go("group", 0) /\ wanted' = <<AddGroupRequest(FALSE)>>
    <3>1. link' = [pc |-> "group", job |-> link.job, target |-> 0, seen |-> link.seen, said |-> "nothing"] /\ StageInv'
      BY <1>1, <1>5, <1>7, <2>4, Moves
    <3>2. PICK r : r = [k |-> "addgroup", name |-> w.name, url |-> FALSE]
      OBVIOUS
    <3>3. r \in Wishes /\ WishFits(r)' /\ wanted' = <<r>>
      <4>1. r \in Wishes
        BY <3>2, LinkFields DEF Wishes
      <4>2. link'.job = link.job
        BY <3>1
      <4>3. wanted' = <<r>>
        BY <2>4, <3>2, <4>2 DEF AddGroupRequest
      <4>4. WishFits(r)'
        BY <3>2, <4>2 DEF WishFits
      <4> QED
        BY <4>1, <4>3, <4>4
    <3> QED
      BY <1>1, <1>4, <1>5, <1>7, <3>1, <3>3, LinkFields, LinkTakes
  <2>5. CASE link.job.k # "happ" /\ g # 0 /\ link' = Go("added", g) /\ wanted' = <<[k |-> "addprofile", g |-> g]>>
    <3>1. w # Anywhere => NameKept(g, w.name)
      <4>1. w # Anywhere => \E j \in DOMAIN f.gs : f.gs[j].id = g /\ f.gs[j].name = w.name
        BY <1>3, <2>1, <2>5, Targets
      <4>2. \A j \in DOMAIN f.gs : NameKept(f.gs[j].id, f.gs[j].name)
        BY <1>2, <1>7 DEF FrameTrue
      <4> HIDE DEF g, w
      <4> QED
        BY <4>1, <4>2
    <3>2. link' = [pc |-> "added", job |-> link.job, target |-> g, seen |-> link.seen, said |-> "nothing"] /\ StageInv'
      <4> HIDE DEF g
      <4> QED
        BY <1>1, <1>5, <1>7, <2>1, <2>5, Moves
    <3>3. PICK x : x = g
      OBVIOUS
    <3> HIDE DEF g
    <3>4. RightGroup(x)'
      BY <1>6, <2>1, <3>1, <3>2, <3>3 DEF RightGroup, NamesStay
    <3>5. PICK r : r = [k |-> "addprofile", g |-> x]
      OBVIOUS
    <3>6. r \in Wishes /\ wanted' = <<r>>
      BY <2>1, <2>5, <3>3, <3>5 DEF Wishes
    <3>7. WishFits(r)'
      BY <3>4, <3>5 DEF WishFits
    <3> QED
      BY <1>1, <1>4, <1>5, <1>7, <2>1, <3>2, <3>6, <3>7, LinkFields, LinkTakes
  <2> QED
    BY <1>7, <2>2, <2>3, <2>4, <2>5 DEF Chosen
<1>8. CASE link.pc = "group" /\ f.k \in {"groupadded", "addgroupwarn"} /\ GroupAnswer(f)
  <2>1. CASE f.k = "groupadded" /\ link' = Go("added", f.g) /\ wanted' = <<[k |-> "addprofile", g |-> f.g]>>
    <3>1. link' = [pc |-> "added", job |-> link.job, target |-> f.g, seen |-> link.seen, said |-> "nothing"] /\ StageInv'
      BY <1>1, <1>3, <1>5, <1>8, <2>1, Moves
    <3>2. f.by \in {"link", "other"}
      <4>1. \A e \in Broadcasts : e.by \in {"link", "other"}
        BY DEF Broadcasts
      <4> QED
        BY <1>2, <4>1
    <3>3. misread' \/ NameKept(f.g, link.job.want.name)
      BY <1>2, <1>13, <2>1, <3>2, Zenon DEF FrameTrue, Misread
    <3>4. PICK x : x = f.g
      OBVIOUS
    <3>5. RightGroup(x)'
      <4>1. NameKept(x, link.job.want.name) => NameKept(x, link.job.want.name)'
        BY <1>3, <1>6, <3>1, <3>4, LinkFields DEF NamesStay
      <4> QED
        BY <4>1, <3>3, <3>4 DEF RightGroup
    <3>6. PICK r : r = [k |-> "addprofile", g |-> x]
      OBVIOUS
    <3>7. r \in Wishes /\ wanted' = <<r>>
      BY <1>3, <2>1, <3>4, <3>6 DEF Wishes
    <3>8. WishFits(r)'
      BY <3>5, <3>6 DEF WishFits
    <3> QED
      BY <1>1, <1>3, <1>4, <1>5, <1>8, <3>1, <3>7, <3>8, LinkFields, LinkTakes
  <2>2. CASE link' = Says("error") /\ wanted' = wanted
    BY <1>1, <1>4, <1>5, <1>8, <2>2, LinkFields, Moves, LinkTakes
  <2> QED
    BY <1>8, <2>1, <2>2 DEF GroupAnswer
<1>9. CASE link.pc = "added" /\ f.k = "profiles" /\ link' = Says("imported") /\ wanted' = wanted
  BY <1>1, <1>4, <1>5, <1>9, LinkFields, Moves, LinkTakes
<1>10. CASE link.pc = "sub" /\ link' = SubAnswer(f) /\ wanted' = wanted
  <2>1. CASE f.k = "groupadded" /\ link' = [link EXCEPT !.seen = f.g]
    <3>1. f.g # 0
      BY <1>2, <2>1 DEF FrameTrue
    <3>2. link' = [pc |-> "sub", job |-> link.job, target |-> link.target, seen |-> f.g, said |-> "nothing"]
      BY <1>5, <1>10, <2>1, LinkFields
    <3>3. StageInv'
      BY <1>5, <1>10, <3>2 DEF StageInv
    <3> QED
      BY <1>1, <1>3, <1>4, <1>5, <1>10, <3>1, <3>2, <3>3, LinkFields, LinkTakes DEF f
  <2>2. CASE f.k = "subscription" /\ link.seen \in {0, f.g} /\ link' = Says("imported")
    <3>1. link' = [pc |-> "done", job |-> link.job, target |-> link.target, seen |-> link.seen, said |-> "imported"] /\ StageInv'
      BY <1>1, <2>2, Moves
    <3>2. f.by \in {"link", "other"}
      <4>1. \A e \in Broadcasts : e.by \in {"link", "other"}
        BY DEF Broadcasts
      <4> QED
        BY <1>2, <4>1
    <3>3. f.g \in fetched
      BY <1>2, <1>5, <1>10, <2>2, <3>2 DEF FrameTrue
    <3>4. misread' \/ link.seen # 0
      <4>1. CASE f.by = "link"
        <5>1. Announced(1 - 1)
          BY <1>2, <1>5, <1>10, <2>2, <4>1 DEF LinkInv, FollowInv
        <5> QED
          BY <5>1 DEF Announced
      <4>2. CASE f.by = "other"
        BY <1>10, <1>13, <2>2, <4>2, Zenon DEF Misread
      <4> QED
        BY <3>2, <4>1, <4>2
    <3>5. misread' \/ link'.seen \in fetched
      BY <2>2, <3>1, <3>3, <3>4
    <3> QED
      BY <1>1, <1>4, <1>5, <1>10, <3>1, <3>5, LinkFields, LinkTakes
  <2>3. CASE link' = Says("warned")
    BY <1>1, <1>4, <1>5, <1>10, <2>3, LinkFields, Moves, LinkTakes
  <2>4. CASE link' = link /\ f.k # "groupadded"
    <3>1. StageInv'
      BY <1>5, <2>4 DEF StageInv
    <3>2. link' = [pc |-> "sub", job |-> link.job, target |-> link.target, seen |-> link.seen, said |-> "nothing"]
      BY <1>5, <1>10, <2>4, LinkFields
    <3> QED
      BY <1>1, <1>4, <1>5, <1>10, <2>4, <3>1, <3>2, LinkFields, LinkTakes DEF f
  <2> QED
    BY <1>10, <2>1, <2>2, <2>3, <2>4 DEF SubAnswer
<1>11. CASE link.pc = "happ" /\ link' = HappAnswer(f) /\ wanted' = wanted
  <2>1. CASE f.k \in {"subscription", "groupupdated"} /\ f.g = link.target /\ link' = Says("imported")
    <3>1. link' = [pc |-> "done", job |-> link.job, target |-> link.target, seen |-> link.seen, said |-> "imported"] /\ StageInv'
      BY <1>1, <2>1, Moves
    <3>2. f.by \in {"link", "other"}
      <4>1. \A e \in Broadcasts : e.by \in {"link", "other"}
        BY DEF Broadcasts
      <4> QED
        BY <1>2, <4>1
    <3>3. CASE f.by = "link"
      <4>1. f.g \in imported
        BY <1>2, <1>5, <1>11, <2>1, <3>3 DEF FrameTrue
      <4> QED
        BY <1>1, <1>4, <1>5, <1>11, <2>1, <3>1, <4>1, LinkFields, LinkTakes
    <3>4. CASE f.by = "other"
      <4>1. misread'
        BY <1>11, <1>13, <2>1, <3>4, Zenon DEF Misread
      <4> QED
        BY <1>1, <1>4, <1>5, <1>11, <3>1, <4>1, LinkFields, LinkTakes
    <3> QED
      BY <3>2, <3>3, <3>4
  <2>2. CASE link' = Says("error")
    BY <1>1, <1>4, <1>5, <1>11, <2>2, LinkFields, Moves, LinkTakes
  <2>3. CASE link' = link
    <3>1. StageInv'
      BY <1>5, <2>3 DEF StageInv
    <3>2. link' = [pc |-> "happ", job |-> link.job, target |-> link.target, seen |-> link.seen, said |-> "nothing"]
      BY <1>5, <1>11, <2>3, LinkFields
    <3> QED
      BY <1>1, <1>4, <1>5, <1>11, <2>3, <3>1, <3>2, LinkFields, LinkTakes
  <2> QED
    BY <1>11, <2>1, <2>2, <2>3 DEF HappAnswer
<1>12. CASE UNCHANGED <<link, wanted>> /\ link.pc # "sub"
  <2>1. StageInv'
    BY <1>5, <1>12 DEF StageInv
  <2>2. link' = [pc |-> link.pc, job |-> link.job, target |-> link.target, seen |-> link.seen, said |-> "nothing"]
    BY <1>5, <1>12, LinkFields
  <2>3. link.pc \in {"group", "added", "happ", "state"}
    BY <1>5, <1>12
  <2> QED
    BY <1>1, <1>4, <1>5, <1>12, <2>1, <2>2, <2>3, LinkFields, LinkTakes
<1> QED
  BY <1>5, <1>7, <1>8, <1>9, <1>10, <1>11, <1>12 DEF LinkReads, f

LEMMA OpenLinkStep == ASSUME LinkInv, NEW j \in Links, OpenLink(j) PROVE LinkInv'
<1>1. /\ link = NoLink /\ wanted = <<>> /\ heard = <<>> /\ fetching = {} /\ placed = "none"
      /\ UNCHANGED <<shelf, fetching, heard, fetched, imported, placed, misread>>
  BY DEF LinkInv, StageInv, OpenLink, linkHistory
<1>2. j.k \in {"sub", "profile", "happ"} /\ j.want \in [id : Nat, name : Names] /\ j \in LinkJobs
  <2>1. \A w \in Wants : w \in [id : Nat, name : Names]
    <3>1. \A i \in Nat, n \in Names : [id |-> i, name |-> n] \in [id : Nat, name : Names]
      OBVIOUS
    <3>2. "" \in Names /\ "x" \in Names /\ "2" \in Names /\ "new" \in Names
      BY DEF Names
    <3> QED
      BY <3>1, <3>2 DEF Wants, Anywhere
  <2>2. [id |-> 0, name |-> "new"] \in [id : Nat, name : Names]
    BY DEF Names
  <2>3. j.k \in {"sub", "profile", "happ"} /\ j.want \in [id : Nat, name : Names]
        /\ j = [k |-> j.k, want |-> j.want]
    BY <2>1, <2>2 DEF Links
  <2> QED
    BY <2>3 DEF LinkJobs
<1>3. ShelfInv' /\ HeardInv' /\ FollowInv' /\ RunningInv'
  BY <1>1 DEF LinkInv, ShelfInv, NameKept, HeardInv, FollowInv, RunningInv
<1>4. ASSUME NEW p \in {"sub", "state", "done"}, NEW s \in {"nothing", "error"}, NEW r \in Wishes,
             link' = [pc |-> p, job |-> j, target |-> 0, seen |-> 0, said |-> s],
             p = "sub" => j.k = "sub", p = "state" => j.k # "sub", s # "nothing" => p = "done",
             wanted' = <<>> \/ (wanted' = <<r>> /\ WishFits(r)'), up' \in BOOLEAN
      PROVE  LinkInv'
  <2>1. StageInv' /\ ReportInv'
    BY <1>1, <1>2, <1>4 DEF StageInv, ReportInv
  <2>2. wanted' \in Seq(Wishes) /\ WishInv'
    <3>1. CASE wanted' = <<>>
      BY <3>1 DEF WishInv
    <3>2. CASE wanted' = <<r>> /\ WishFits(r)'
      <4>1. DOMAIN wanted' = {1} /\ wanted'[1] = r
        BY <3>2
      <4> QED
        BY <3>2, <4>1 DEF WishInv
    <3> QED
      BY <1>4, <3>1, <3>2
  <2>3. LinkTypeOK'
    BY <1>1, <1>2, <1>4, <2>2 DEF LinkInv, LinkTypeOK
  <2> QED
    BY <1>3, <2>1, <2>2, <2>3 DEF LinkInv
<1>5. CASE up' = TRUE /\ link' = [NoLink EXCEPT !.job = j, !.pc = IF j.k = "sub" THEN "sub" ELSE "state"]
           /\ wanted' = <<IF j.k = "sub" THEN AddGroupRequest(TRUE) ELSE [k |-> "state"]>>
  <2>1. PICK p \in {"sub", "state"} : p = IF j.k = "sub" THEN "sub" ELSE "state"
    OBVIOUS
  <2>2. link' = [pc |-> p, job |-> j, target |-> 0, seen |-> 0, said |-> "nothing"]
    BY <1>5, <2>1 DEF NoLink
  <2>3. PICK r : r = IF j.k = "sub" THEN [k |-> "addgroup", name |-> j.want.name, url |-> TRUE] ELSE [k |-> "state"]
    OBVIOUS
  <2>4. r \in Wishes /\ wanted' = <<r>>
    BY <1>2, <1>5, <2>2, <2>3 DEF Wishes, AddGroupRequest
  <2>5. WishFits(r)'
    BY <2>2, <2>3 DEF WishFits
  <2> QED
    BY <1>4, <1>5, <2>1, <2>2, <2>4, <2>5
<1>6. CASE up' \in BOOLEAN /\ link' = [NoLink EXCEPT !.job = j, !.pc = "done", !.said = "error"] /\ UNCHANGED wanted
  <2>1. link' = [pc |-> "done", job |-> j, target |-> 0, seen |-> 0, said |-> "error"]
    BY <1>6 DEF NoLink
  <2>2. PICK r \in Wishes : TRUE
    <3>1. [k |-> "state"] \in Wishes
      BY DEF Wishes
    <3> QED
      BY <3>1
  <2> QED
    BY <1>1, <1>4, <1>6, <2>1, <2>2
<1> QED
  BY <1>5, <1>6 DEF OpenLink

LEMMA TimeoutStep == ASSUME LinkInv, LinkTimeout PROVE LinkInv'
<1>1. PICK w \in {"error", "background", "sent"} : link' = Says(w)
  <2>1. (CASE link.pc \in {"state", "group", "added"} -> "error"
           [] link.pc = "sub" /\ link.seen # 0 -> "background"
           [] OTHER -> "sent") \in {"error", "background", "sent"}
    OBVIOUS
  <2> QED
    BY <2>1 DEF LinkTimeout
<1>2. link' = [pc |-> "done", job |-> link.job, target |-> link.target, seen |-> link.seen, said |-> w] /\ StageInv'
  BY <1>1, Moves DEF LinkTimeout
<1>3. heard' = <<>> /\ UNCHANGED <<up, shelf, wanted, fetching, fetched, imported, placed, misread>>
  BY DEF LinkTimeout, linkHistory
<1>4. LinkTypeOK' /\ ReportInv' /\ ShelfInv' /\ HeardInv' /\ FollowInv' /\ RunningInv'
  BY <1>2, <1>3, LinkFields
     DEF LinkInv, LinkTypeOK, ReportInv, ShelfInv, NameKept, HeardInv, FollowInv, RunningInv
<1>5. WishInv'
  <2>1. \A r : WishFits(r) => WishFits(r)'
    <3>1. \A g : RightGroup(g) => RightGroup(g)'
      BY <1>2, <1>3 DEF RightGroup, NameKept
    <3> QED
      BY <1>2, <3>1 DEF WishFits
  <2> QED
    BY <1>3, <2>1 DEF LinkInv, WishInv
<1> QED
  BY <1>2, <1>4, <1>5 DEF LinkInv

LEMMA InitLink == LinkInit => LinkInv
<1> SUFFICES ASSUME LinkInit PROVE LinkInv
  OBVIOUS
<1>1. \A n \in Names, m \in Names :
        /\ [id |-> 1, name |-> n] \in Shelved /\ [id |-> 2, name |-> m] \in Shelved
  BY DEF Shelved
<1>2. <<>> \in Seq(Shelved) /\ "x" \in Names /\ "2" \in Names /\ "" \in Names
  BY DEF Names
<1>3. shelf \in [gs : Seq(Shelved), last : Nat] /\ ShelfInv
  <2>1. CASE shelf = [gs |-> <<>>, last |-> 0]
    BY <2>1 DEF ShelfInv
  <2>2. CASE shelf = [gs |-> <<[id |-> 1, name |-> "x"]>>, last |-> 1]
    <3>1. PICK e \in Shelved : e = [id |-> 1, name |-> "x"]
      BY <1>1, <1>2
    <3>2. shelf.gs = <<e>> /\ shelf.last = 1 /\ e.id = 1 /\ shelf = [gs |-> <<e>>, last |-> 1]
      BY <2>2, <3>1
    <3>3. DOMAIN shelf.gs = {1} /\ shelf.gs[1] = e
      BY <3>2
    <3> QED
      BY <3>2, <3>3 DEF ShelfInv, NameKept
  <2>3. CASE shelf = [gs |-> <<[id |-> 1, name |-> "2"], [id |-> 2, name |-> "x"]>>, last |-> 2]
    <3>1. PICK e \in Shelved : e = [id |-> 1, name |-> "2"]
      BY <1>1, <1>2
    <3>2. PICK d \in Shelved : d = [id |-> 2, name |-> "x"]
      BY <1>1, <1>2
    <3>3. shelf.gs = <<e, d>> /\ shelf.last = 2 /\ e.id = 1 /\ d.id = 2 /\ shelf = [gs |-> <<e, d>>, last |-> 2]
      BY <2>3, <3>1, <3>2
    <3>4. DOMAIN shelf.gs = {1, 2} /\ shelf.gs[1] = e /\ shelf.gs[2] = d
      BY <3>3
    <3> QED
      BY <3>3, <3>4 DEF ShelfInv, NameKept
  <2> QED
    BY <2>1, <2>2, <2>3 DEF LinkInit
<1>4. link = NoLink /\ wanted = <<>> /\ heard = <<>> /\ fetching = {} /\ placed = "none"
  BY DEF LinkInit
<1>5. NoLink.job \in LinkJobs
  BY <1>2 DEF NoLink, LinkJobs, Anywhere
<1>6. NoLink \in [pc : {"idle", "state", "group", "added", "sub", "happ", "done"}, job : LinkJobs,
                  target : Nat, seen : Nat,
                  said : {"nothing", "error", "imported", "warned", "background", "sent"}]
  BY <1>5 DEF NoLink
<1>7. LinkTypeOK
  <2>1. up \in BOOLEAN /\ fetched = {} /\ imported = {} /\ misread \in BOOLEAN
    BY DEF LinkInit
  <2> QED
    BY <1>3, <1>4, <1>6, <2>1 DEF LinkTypeOK
<1>8. StageInv /\ ReportInv
  BY <1>4 DEF StageInv, ReportInv, NoLink
<1>9. WishInv /\ RunningInv /\ HeardInv /\ FollowInv
  BY <1>4 DEF WishInv, RunningInv, HeardInv, FollowInv
<1> QED
  BY <1>3, <1>7, <1>8, <1>9 DEF LinkInv

LEMMA StepLink == LinkInv /\ [LinkNext]_linkVars => LinkInv'
<1> SUFFICES ASSUME LinkInv, [LinkNext]_linkVars PROVE LinkInv'
  OBVIOUS
<1>1. CASE UNCHANGED linkVars
  BY <1>1 DEF linkVars, LinkInv, LinkTypeOK, ShelfInv, NameKept, StageInv, WishInv, WishFits, RightGroup,
              RunningInv, Announced, HeardInv, FrameTrue, FollowInv, ReportInv
<1> QED
  BY <1>1, OpenLinkStep, ReadStep, TimeoutStep, ServeStep, MeddleStep, FetchEnds DEF LinkNext

\* A link reports a subscription or a routing as imported only when that was done in its
\* own group, and its profile lands in a group of the name it asked for, over any number of
\* interfering requests, except where a frame of another client was taken for the answer.
THEOREM LinkReportsTrue == LinkSpec => []LinkReportTrue
<1>1. LinkInv => LinkReportTrue
  BY DEF LinkInv, LinkTypeOK, ReportInv, LinkReportTrue
<1> QED
  BY <1>1, InitLink, StepLink, PTL DEF LinkSpec
-----------------------------------------------------------------------------
(* tui.log: what a step does to the files.                                 *)

\* A file, which is empty before it is created.
Held(F, f) == IF f \in 1 .. Len(F) THEN F[f] ELSE <<>>

\* A record is appended to a file, or a file is emptied; either may create it.
Beside(F, G, f) ==
  /\ f \in 1 .. Len(G)
  /\ Len(G) = IF f > Len(F) THEN Len(F) + 1 ELSE Len(F)
  /\ \A g \in 1 .. Len(F) : g # f => G[g] = F[g]
Grown(F, G, f, r) == Beside(F, G, f) /\ G[f] = Append(Held(F, f), r)
Emptied(F, G, f) == Beside(F, G, f) /\ G[f] = <<>>

\* The three things a system call does to the files.
Stored(F) == F \in Seq(Seq(Nat))
FileStep(f) ==
  \/ files' = files /\ recs' = recs
  \/ Grown(files, files', f, recs') /\ recs' = recs + 1
  \/ Emptied(files, files', f) /\ recs' = recs

LEMMA FilesCreated ==
  ASSUME NEW F, Stored(F), NEW G, G = Append(F, <<>>)
  PROVE  Stored(G) /\ Emptied(F, G, Len(F) + 1) /\ Len(G) = Len(F) + 1
<1>1. <<>> \in Seq(Nat)
  OBVIOUS
<1> QED BY <1>1 DEF Stored, Emptied, Beside

LEMMA FilesGrown ==
  ASSUME NEW F, Stored(F), NEW f \in 1 .. Len(F), NEW r \in Nat, NEW G, G = [F EXCEPT ![f] = Append(@, r)]
  PROVE  Stored(G) /\ Grown(F, G, f, r)
<1>1. F[f] \in Seq(Nat)
  BY DEF Stored
<1>2. Append(F[f], r) \in Seq(Nat)
  BY <1>1
<1>3. Stored(G) /\ Len(G) = Len(F) /\ G[f] = Append(F[f], r) /\ \A g \in 1 .. Len(F) : g # f => G[g] = F[g]
  BY <1>2 DEF Stored
<1>4. Held(F, f) = F[f]
  BY DEF Held
<1>5. Len(F) \in Nat /\ ~(f > Len(F)) /\ f \in 1 .. Len(G)
  BY <1>3 DEF Stored
<1>6. Beside(F, G, f)
  BY <1>3, <1>5 DEF Beside
<1> QED BY <1>3, <1>4, <1>6 DEF Grown

LEMMA FilesCreatedGrown ==
  ASSUME NEW F, Stored(F), NEW f, f = Len(F) + 1, NEW r \in Nat, NEW G, G = [Append(F, <<>>) EXCEPT ![f] = Append(@, r)]
  PROVE  Stored(G) /\ Grown(F, G, f, r) /\ Len(G) = Len(F) + 1
<1> DEFINE M == Append(F, <<>>)
<1>1. Stored(M) /\ Emptied(F, M, f) /\ Len(M) = Len(F) + 1
  BY FilesCreated
<1>2. f \in 1 .. Len(M) /\ Len(F) \in Nat
  BY <1>1 DEF Emptied, Beside, Stored
<1>3. Stored(G) /\ Grown(M, G, f, r)
  BY <1>1, <1>2, FilesGrown
<1>4. Held(F, f) = <<>> /\ Held(M, f) = <<>>
  BY <1>1, <1>2 DEF Held, Emptied
<1>5. Len(G) = Len(F) + 1 /\ \A g \in 1 .. Len(F) : g # f => G[g] = F[g]
  BY <1>1, <1>2, <1>3, SMTT(30) DEF Grown, Beside, Emptied
<1> QED BY <1>2, <1>3, <1>4, <1>5 DEF Grown, Beside

LEMMA FilesEmptied ==
  ASSUME NEW F, Stored(F), NEW f \in 1 .. Len(F), NEW G, G = [F EXCEPT ![f] = <<>>]
  PROVE  Stored(G) /\ Emptied(F, G, f)
<1>1. <<>> \in Seq(Nat)
  OBVIOUS
<1>2. Stored(G) /\ Len(G) = Len(F) /\ G[f] = <<>> /\ \A g \in 1 .. Len(F) : g # f => G[g] = F[g]
  BY <1>1 DEF Stored
<1>3. Len(F) \in Nat /\ ~(f > Len(F)) /\ f \in 1 .. Len(G)
  BY <1>2 DEF Stored
<1>4. Beside(F, G, f)
  BY <1>2, <1>3 DEF Beside
<1> QED BY <1>2, <1>4 DEF Emptied

LEMMA FilesCreatedEmptied ==
  ASSUME NEW F, Stored(F), NEW f, f = Len(F) + 1, NEW G, G = [Append(F, <<>>) EXCEPT ![f] = <<>>]
  PROVE  Stored(G) /\ Emptied(F, G, f) /\ Len(G) = Len(F) + 1
<1> DEFINE M == Append(F, <<>>)
<1>1. Stored(M) /\ Emptied(F, M, f) /\ Len(M) = Len(F) + 1
  BY FilesCreated
<1>2. f \in 1 .. Len(M) /\ Len(F) \in Nat
  BY <1>1 DEF Emptied, Beside, Stored
<1>3. Stored(G) /\ Emptied(M, G, f)
  BY <1>1, <1>2, FilesEmptied
<1>5. Len(G) = Len(F) + 1 /\ \A g \in 1 .. Len(F) : g # f => G[g] = F[g]
  BY <1>1, <1>2, <1>3 DEF Beside, Emptied
<1> QED BY <1>2, <1>3, <1>5 DEF Emptied, Beside

\* The records, for those who read a file by its indices.
LEMMA GrownRecords ==
  ASSUME NEW F, Stored(F), NEW G, Stored(G), NEW f, NEW r \in Nat, Grown(F, G, f, r)
  PROVE  /\ Held(F, f) \in Seq(Nat) /\ Len(G[f]) = Len(Held(F, f)) + 1
         /\ \A i \in 1 .. Len(Held(F, f)) : G[f][i] = Held(F, f)[i]
         /\ G[f][Len(Held(F, f)) + 1] = r
<1>1. Held(F, f) \in Seq(Nat)
  BY DEF Held, Stored
<1> QED BY <1>1 DEF Grown

\* The shape of the state: a logger that runs holds a file open, and the log is the
\* newest of all files, or there is none.
LoggerStates == [pc : {"off", "idle", "rename", "open"}, fd : Nat, written : Nat, degraded : BOOLEAN]
FilesTyped ==
  /\ Stored(files) /\ Len(files) \in Nat \ {0} /\ path \in {0, Len(files)} /\ backup \in 0 .. Len(files)
  /\ recs \in Nat /\ mark \in Nat
LoggersTyped ==
  /\ reader \in DOMAIN Loggers /\ Loggers[reader] \in Nat
  /\ logger \in [1 .. Loggers[reader] -> LoggerStates]
  /\ \A w \in DOMAIN logger : logger[w].fd <= Len(files) /\ (logger[w].pc # "off" => logger[w].fd # 0)
LogTyped == FilesTyped /\ LoggersTyped

\* Only a file that is created becomes the log.
PathStep(f) ==
  \/ path' \in {path, 0} /\ Len(files') = Len(files)
  \/ path = 0 /\ path' = f /\ f = Len(files) + 1 /\ Len(files') = f

\* What a step of a writer means for the reader: a file is emptied, and the log loses its
\* name, only with a note in gap, dirty or slipped.
Appends(f) == files' = files \/ Grown(files, files', f, recs') \/ f > Len(files)
TailNoted(f) == ~gap' => ~gap /\ Appends(f) /\ (path # 0 => path' = path)
TabNoted(f) ==
  /\ ~slipped' => ~slipped /\ (path' # 0 \/ path = 0 \/ tab.pc \notin {"open", "mark"})
  /\ \/ tab' = tab /\ Appends(f)
     \/ tab' = [tab EXCEPT !.dirty = TRUE]
     \/ tab' = [tab EXCEPT !.pc = "reload", !.dirty = TRUE]
WriterStep == \E f \in Nat : FileStep(f) /\ PathStep(f) /\ tail' = tail /\ TailNoted(f) /\ TabNoted(f)

LEMMA ReopenedIs ==
  ASSUME LogTyped, NEW w \in DOMAIN logger, logger[w].pc = "idle", NEW fails \in BOOLEAN,
         NEW l, l = Reopened(logger[w], fails)
  PROVE  /\ l \in LoggerStates /\ l.pc = "idle" /\ l.fd \in 1 .. Len(files) + 1
         /\ \/ l = logger[w] /\ (fails \/ ~logger[w].degraded) /\ l.fd \in 1 .. Len(files)
            \/ logger[w].degraded /\ ~l.degraded /\ path # 0 /\ l.fd = path /\ l.written = Len(files[path])
            \/ logger[w].degraded /\ ~l.degraded /\ path = 0 /\ l.fd = Len(files) + 1 /\ l.written = 0
<1>1. logger[w] \in LoggerStates /\ logger[w].fd \in 1 .. Len(files) /\ Len(files) \in Nat
  BY DEF LogTyped, FilesTyped, LoggersTyped, LoggerStates
<1>2. CASE logger[w].degraded /\ ~fails
  <2> PICK fd : fd = IF path # 0 THEN path ELSE Len(files) + 1
    OBVIOUS
  <2> PICK n : n = SizeOf(path)
    OBVIOUS
  <2>1. l = [logger[w] EXCEPT !.fd = fd, !.written = n, !.degraded = FALSE]
    BY <1>2, Zenon DEF Reopened
  <2>2. CASE path # 0
    <3>1. n = Len(files[path]) /\ n \in Nat /\ fd = path /\ path \in 1 .. Len(files)
      BY <2>2 DEF SizeOf, LogTyped, FilesTyped, Stored
    <3>2. fd \in Nat /\ n \in Nat
      BY <1>1, <3>1
    <3>5. l \in LoggerStates
      BY <1>1, <2>1, <3>2 DEF LoggerStates
    <3>6. l.pc = logger[w].pc /\ l.fd = fd /\ l.written = n
      BY <1>1, <2>1 DEF LoggerStates
    <3>3. ~l.degraded
      BY <1>1, <2>1 DEF LoggerStates
    <3>4. l.pc = "idle" /\ l.fd \in 1 .. Len(files) + 1
      BY <1>1, <3>1, <3>2, <3>6
    <3> QED BY <1>1, <1>2, <2>2, <3>1, <3>2, <3>3, <3>6, <3>5, <3>4, Zenon
  <2>3. CASE path = 0
    <3>1. n = 0 /\ fd = Len(files) + 1
      BY <2>3 DEF SizeOf
    <3>2. fd \in Nat /\ n \in Nat
      BY <1>1, <3>1
    <3>5. l \in LoggerStates
      BY <1>1, <2>1, <3>2 DEF LoggerStates
    <3>6. l.pc = logger[w].pc /\ l.fd = fd /\ l.written = n
      BY <1>1, <2>1 DEF LoggerStates
    <3>3. ~l.degraded
      BY <1>1, <2>1 DEF LoggerStates
    <3>4. l.pc = "idle" /\ l.fd \in 1 .. Len(files) + 1
      BY <1>1, <3>1, <3>2, <3>6
    <3> QED BY <1>1, <1>2, <2>3, <3>1, <3>2, <3>3, <3>6, <3>5, <3>4, Zenon
  <2> QED BY <2>2, <2>3
<1>3. CASE ~(logger[w].degraded /\ ~fails)
  <2>1. l = logger[w]
    BY <1>3 DEF Reopened
  <2> QED BY <1>1, <1>3, <2>1
<1> QED BY <1>2, <1>3

\* The file a write or a clearing of the logger goes to, created if need be.
Written(l, made) ==
  /\ made = IF l.fd > Len(files) THEN Append(files, <<>>) ELSE files
  /\ path' = IF made # files THEN l.fd ELSE path

LEMMA MadeIs ==
  ASSUME LogTyped, NEW l, l.fd \in 1 .. Len(files) + 1, NEW made, Written(l, made)
  PROVE  /\ l.fd \in 1 .. Len(files) => made = files /\ path' = path
         /\ l.fd = Len(files) + 1 => made = Append(files, <<>>) /\ path' = l.fd
<1>1. Len(Append(files, <<>>)) # Len(files) /\ Len(files) \in Nat
  BY DEF LogTyped, FilesTyped, Stored
<1> QED BY <1>1 DEF Written

\* WriteRecord, with the logger before and after the append.
Recorded(w, fails, l, v) ==
  /\ logger[w].pc = "idle" /\ l = Reopened(logger[w], fails)
  /\ recs' = recs + 1 /\ Stored(files') /\ Grown(files, files', l.fd, recs')
  /\ l.fd \in 1 .. Len(files) => path' = path
  /\ l.fd = Len(files) + 1 => path = 0 /\ path' = l.fd
  /\ v \in LoggerStates /\ v.pc \in {"idle", "rename"} /\ v.fd = l.fd /\ v.written = l.written + 1
  /\ v.degraded <=> l.degraded
  /\ v.pc = "rename" <=> l.written + 1 >= MaxSize /\ ~l.degraded
  /\ logger' = [logger EXCEPT ![w] = v]
  /\ shared' = (shared \/ path' \notin {0, l.fd})

LEMMA WriteRecordDoes ==
  ASSUME LogTyped, NEW w \in DOMAIN logger, WriteRecord(w)
  PROVE  \E fails \in BOOLEAN : \E l, v : Recorded(w, fails, l, v)
<1>1. logger[w].pc = "idle" /\ recs' = recs + 1
  BY DEF WriteRecord
<1>2. PICK fails \in BOOLEAN : \E l, made : \E full \in BOOLEAN :
        /\ l = Reopened(logger[w], fails)
        /\ Written(l, made)
        /\ full <=> l.written + 1 >= MaxSize /\ ~l.degraded
        /\ files' = [made EXCEPT ![l.fd] = Append(@, recs')]
        /\ logger' = [logger EXCEPT ![w] = [l EXCEPT !.written = @ + 1, !.pc = IF full THEN "rename" ELSE "idle"]]
        /\ shared' = (shared \/ path' \notin {0, l.fd})
  <2>1. PICK fails \in BOOLEAN :
         LET l == Reopened(logger[w], fails)
             made == IF l.fd > Len(files) THEN Append(files, <<>>) ELSE files
             full == l.written + 1 >= MaxSize /\ ~l.degraded IN
          /\ files' = [made EXCEPT ![l.fd] = Append(@, recs')]
          /\ path' = IF made # files THEN l.fd ELSE path
          /\ logger' = [logger EXCEPT ![w] = [l EXCEPT !.written = @ + 1, !.pc = IF full THEN "rename" ELSE "idle"]]
          /\ shared' = (shared \/ path' \notin {0, l.fd})
    BY Zenon DEF WriteRecord
  <2>2. PICK l : l = Reopened(logger[w], fails)
    OBVIOUS
  <2>3. PICK made : made = IF l.fd > Len(files) THEN Append(files, <<>>) ELSE files
    OBVIOUS
  <2>4. PICK full \in BOOLEAN : full <=> l.written + 1 >= MaxSize /\ ~l.degraded
    OBVIOUS
  <2>5. full = (l.written + 1 >= MaxSize /\ ~l.degraded)
    BY <2>4
  <2>6. /\ files' = [made EXCEPT ![l.fd] = Append(@, recs')]
        /\ path' = IF made # files THEN l.fd ELSE path
        /\ logger' = [logger EXCEPT ![w] = [l EXCEPT !.written = @ + 1, !.pc = IF full THEN "rename" ELSE "idle"]]
        /\ shared' = (shared \/ path' \notin {0, l.fd})
    BY <2>1, <2>2, <2>3, <2>5, Zenon
  <2>7. Written(l, made)
    BY <2>3, <2>6, Zenon DEF Written
  <2> QED BY <2>2, <2>4, <2>6, <2>7, Zenon
<1>3. PICK l, made : \E full \in BOOLEAN :
        /\ l = Reopened(logger[w], fails)
        /\ Written(l, made)
        /\ full <=> l.written + 1 >= MaxSize /\ ~l.degraded
        /\ files' = [made EXCEPT ![l.fd] = Append(@, recs')]
        /\ logger' = [logger EXCEPT ![w] = [l EXCEPT !.written = @ + 1, !.pc = IF full THEN "rename" ELSE "idle"]]
        /\ shared' = (shared \/ path' \notin {0, l.fd})
  BY <1>2
<1>4. /\ l.fd \in 1 .. Len(files) + 1
      /\ l.fd = Len(files) + 1 => path = 0
      /\ l.fd \in 1 .. Len(files) => made = files /\ path' = path
      /\ l.fd = Len(files) + 1 => made = Append(files, <<>>) /\ path' = l.fd
  <2>1. l.fd \in 1 .. Len(files) + 1 /\ (l.fd = Len(files) + 1 => path = 0)
    <3>1. Len(files) \in Nat /\ path \in {0, Len(files)}
      BY DEF LogTyped, FilesTyped
    <3> QED BY <1>1, <1>3, <3>1, ReopenedIs
  <2> QED BY <1>3, <2>1, MadeIs
<1>5. Stored(files) /\ recs' \in Nat
  BY <1>1 DEF LogTyped, FilesTyped
<1>6. Stored(files') /\ Grown(files, files', l.fd, recs')
  <2>1. CASE l.fd \in 1 .. Len(files)
    BY <1>3, <1>4, <1>5, <2>1, FilesGrown
  <2>2. CASE l.fd = Len(files) + 1
    <3>1. files' = [Append(files, <<>>) EXCEPT ![l.fd] = Append(@, recs')]
      BY <1>3, <1>4, <2>2
    <3> QED BY <1>5, <2>2, <3>1, FilesCreatedGrown
  <2> QED BY <1>4, <1>5, <2>1, <2>2 DEF Stored
<1>7. \E v : /\ v \in LoggerStates /\ v.pc \in {"idle", "rename"} /\ v.fd = l.fd /\ v.written = l.written + 1
             /\ v.degraded <=> l.degraded
             /\ v.pc = "rename" <=> l.written + 1 >= MaxSize /\ ~l.degraded
             /\ logger' = [logger EXCEPT ![w] = v]
  <2>1. PICK full \in BOOLEAN :
        /\ full <=> l.written + 1 >= MaxSize /\ ~l.degraded
        /\ logger' = [logger EXCEPT ![w] = [l EXCEPT !.written = @ + 1, !.pc = IF full THEN "rename" ELSE "idle"]]
    BY <1>3
  <2>2. PICK pc : pc = IF full THEN "rename" ELSE "idle"
    OBVIOUS
  <2>3. PICK v : v = [l EXCEPT !.written = @ + 1, !.pc = pc]
    OBVIOUS
  <2>4. l \in LoggerStates
    BY <1>1, <1>3, ReopenedIs
  <2>5. pc \in {"idle", "rename"} /\ (pc = "rename" <=> full)
    BY <2>2
  <2>6. v \in LoggerStates /\ v.pc = pc /\ v.fd = l.fd /\ v.written = l.written + 1
    <3>1. l.written \in Nat /\ pc \in {"off", "idle", "rename", "open"}
      BY <2>4, <2>5 DEF LoggerStates
    <3>2. PICK n : n = l.written + 1
      OBVIOUS
    <3>3. n \in Nat /\ v = [l EXCEPT !.written = n, !.pc = pc]
      BY <2>3, <3>1, <3>2
    <3>4. v \in LoggerStates
      BY <2>4, <3>1, <3>3 DEF LoggerStates
    <3>5. v.pc = pc /\ v.fd = l.fd /\ v.written = n
      BY <2>4, <3>3 DEF LoggerStates
    <3> QED BY <3>2, <3>4, <3>5
  <2>7. v.degraded <=> l.degraded
    BY <2>3, <2>4 DEF LoggerStates
  <2>8. logger' = [logger EXCEPT ![w] = v]
    BY <2>1, <2>2, <2>3
  <2> QED BY <2>1, <2>5, <2>6, <2>7, <2>8, Zenon
<1>8. PICK v :
             /\ v \in LoggerStates /\ v.pc \in {"idle", "rename"} /\ v.fd = l.fd /\ v.written = l.written + 1
             /\ v.degraded <=> l.degraded
             /\ v.pc = "rename" <=> l.written + 1 >= MaxSize /\ ~l.degraded
             /\ logger' = [logger EXCEPT ![w] = v]
  BY <1>7
<1>9. Recorded(w, fails, l, v)
  BY <1>1, <1>3, <1>4, <1>6, <1>8, Zenon DEF Recorded
<1> QED BY <1>9

LEMMA FilesTypedStep ==
  ASSUME LogTyped, NEW f \in Nat, FileStep(f), PathStep(f), Stored(files'), backup' \in 0 .. Len(files), mark' \in Nat
  PROVE  FilesTyped' /\ Len(files') \in Nat /\ Len(files') >= Len(files)
<1>1. Len(files) \in Nat \ {0} /\ path \in {0, Len(files)} /\ Len(files') \in Nat /\ recs \in Nat
  BY DEF LogTyped, FilesTyped, Stored
<1>2. recs' \in Nat
  BY <1>1 DEF FileStep
<1>3. path' \in {0, Len(files')} /\ Len(files') >= Len(files)
  BY <1>1 DEF PathStep
<1> QED BY <1>1, <1>2, <1>3 DEF FilesTyped, Stored

LEMMA LoggersStep ==
  ASSUME LogTyped, NEW w \in DOMAIN logger, NEW v \in LoggerStates, v.fd \in 0 .. Len(files'), v.pc # "off" => v.fd # 0,
         logger' = [logger EXCEPT ![w] = v], Len(files') \in Nat, Len(files') >= Len(files), reader' = reader
  PROVE  LoggersTyped'
<1>1. logger \in [1 .. Loggers[reader] -> LoggerStates] /\ Len(files) \in Nat
  BY DEF LogTyped, LoggersTyped, FilesTyped
<1>2. logger' \in [1 .. Loggers[reader] -> LoggerStates]
  BY <1>1
<1>3. \A u \in DOMAIN logger' : logger'[u].fd <= Len(files') /\ (logger'[u].pc # "off" => logger'[u].fd # 0)
  <2> TAKE u \in DOMAIN logger'
  <2>1. CASE u = w
    BY <1>1, <2>1
  <2>2. CASE u # w
    <3>1. logger'[u] = logger[u] /\ u \in DOMAIN logger /\ logger[u] \in LoggerStates
      BY <1>1, <2>2
    <3> QED BY <1>1, <3>1 DEF LogTyped, LoggersTyped, LoggerStates
  <2> QED BY <2>1, <2>2
<1> QED BY <1>2, <1>3 DEF LogTyped, LoggersTyped

LEMMA LoggersKept ==
  ASSUME LogTyped, logger' = logger, Len(files') \in Nat, Len(files') >= Len(files), reader' = reader
  PROVE  LoggersTyped'
<1>1. logger \in [1 .. Loggers[reader] -> LoggerStates] /\ Len(files) \in Nat
  BY DEF LogTyped, LoggersTyped, FilesTyped
<1>2. \A u \in DOMAIN logger' : logger'[u].fd <= Len(files') /\ (logger'[u].pc # "off" => logger'[u].fd # 0)
  BY <1>1 DEF LogTyped, LoggersTyped, LoggerStates
<1> QED BY <1>2 DEF LogTyped, LoggersTyped

\* The files and the log when OpenLog has opened it.
LEMMA OpenLogDoes ==
  ASSUME LogTyped, OpenLog, recs' = recs
  PROVE  /\ path' \in 1 .. Len(files') /\ path' = Len(files') /\ Stored(files')
         /\ path # 0 => path' = path /\ files' = files
         /\ path = 0 => path' = Len(files) + 1 /\ Emptied(files, files', path')
         /\ FileStep(path') /\ PathStep(path')
<1>1. Stored(files) /\ Len(files) \in Nat \ {0} /\ path \in {0, Len(files)}
  BY DEF LogTyped, FilesTyped
<1>2. CASE path # 0
  <2>1. files' = files /\ path' = path
    BY <1>2 DEF OpenLog
  <2> QED BY <1>1, <1>2, <2>1 DEF FileStep, PathStep
<1>3. CASE path = 0
  <2>1. path' = Len(files) + 1 /\ files' = Append(files, <<>>)
    BY <1>3 DEF OpenLog
  <2>2. Stored(files') /\ Emptied(files, files', path') /\ Len(files') = Len(files) + 1
    BY <1>1, <2>1, FilesCreated
  <2> QED BY <1>1, <1>3, <2>1, <2>2 DEF FileStep, PathStep
<1> QED BY <1>2, <1>3

LEMMA InitLoggerTyped ==
  ASSUME LogTyped, NEW w \in DOMAIN logger, InitLogger(w)
  PROVE  LogTyped' /\ WriterStep
<1>1. OpenLog /\ recs' = recs /\ reader' = reader /\ backup' = backup /\ mark' = mark
  BY DEF InitLogger, Readers
<1>2. path' \in 1 .. Len(files') /\ Stored(files') /\ FileStep(path') /\ PathStep(path')
  BY <1>1, OpenLogDoes
<1>3. path' \in Nat /\ Len(files'[path']) \in Nat
  BY <1>2 DEF Stored
<1>4. FilesTyped' /\ Len(files') \in Nat /\ Len(files') >= Len(files)
  BY <1>1, <1>2, <1>3, FilesTypedStep DEF LogTyped, FilesTyped
<1>5. PICK v : v = [pc |-> "idle", fd |-> path', written |-> Len(files'[path']), degraded |-> FALSE]
  OBVIOUS
<1>6. v \in LoggerStates /\ v.fd \in 0 .. Len(files') /\ v.fd # 0 /\ logger' = [logger EXCEPT ![w] = v]
  BY <1>2, <1>3, <1>5 DEF InitLogger, LoggerStates
<1>7. LoggersTyped'
  BY <1>1, <1>4, <1>6, LoggersStep
<1>8. TailNoted(path') /\ TabNoted(path')
  <2>1. Len(files) \in Nat /\ gap' = gap /\ slipped' = slipped /\ tab' = tab
    BY DEF LogTyped, FilesTyped, InitLogger, Readers
  <2>2. (path # 0 => path' = path /\ files' = files) /\ (path = 0 => path' = Len(files) + 1)
    BY <1>1, OpenLogDoes
  <2>3. Appends(path')
    BY <2>1, <2>2 DEF Appends
  <2>4. path' # 0 \/ path = 0
    BY <2>2
  <2> QED BY <2>1, <2>2, <2>3, <2>4 DEF TailNoted, TabNoted
<1>9. tail' = tail
  BY DEF InitLogger, Readers
<1> QED BY <1>2, <1>3, <1>4, <1>7, <1>8, <1>9 DEF LogTyped, WriterStep

LEMMA WriteRecordTyped ==
  ASSUME LogTyped, NEW w \in DOMAIN logger, WriteRecord(w)
  PROVE  LogTyped' /\ WriterStep
<1>1. reader' = reader /\ backup' = backup /\ mark' = mark
  BY DEF WriteRecord, Readers
<1>2. PICK fails, l, v : fails \in BOOLEAN /\ Recorded(w, fails, l, v)
  BY WriteRecordDoes
<1>3. /\ logger[w].pc = "idle" /\ l = Reopened(logger[w], fails)
      /\ recs' = recs + 1 /\ Stored(files') /\ Grown(files, files', l.fd, recs')
      /\ l.fd \in 1 .. Len(files) => path' = path
      /\ l.fd = Len(files) + 1 => path = 0 /\ path' = l.fd
      /\ v \in LoggerStates /\ v.fd = l.fd
      /\ logger' = [logger EXCEPT ![w] = v]
  BY <1>2 DEF Recorded
<1>4. l.fd \in 1 .. Len(files) + 1 /\ Len(files) \in Nat
  BY <1>2, <1>3, ReopenedIs DEF LogTyped, FilesTyped
<1>5. l.fd \in Nat /\ FileStep(l.fd)
  BY <1>3, <1>4 DEF FileStep
<1>6. PathStep(l.fd)
  <2>1. Len(files') = IF l.fd > Len(files) THEN Len(files) + 1 ELSE Len(files)
    BY <1>3 DEF Grown, Beside
  <2> QED BY <1>3, <1>4, <2>1 DEF PathStep
<1>7. FilesTyped' /\ Len(files') \in Nat /\ Len(files') >= Len(files)
  <2>1. backup' \in 0 .. Len(files) /\ mark' \in Nat
    BY <1>1 DEF LogTyped, FilesTyped
  <2> QED BY <1>3, <1>5, <1>6, <2>1, FilesTypedStep
<1>8. v.fd \in 0 .. Len(files') /\ v.fd # 0
  BY <1>3, <1>4, <1>7 DEF Grown, Beside
<1>9. LoggersTyped'
  BY <1>1, <1>3, <1>7, <1>8, LoggersStep
<1>10. tail' = tail /\ gap' = gap /\ slipped' = slipped /\ tab' = tab
  BY DEF WriteRecord, Readers
<1>11. path # 0 => path' = path
  BY <1>3, <1>4
<1>12. TailNoted(l.fd) /\ TabNoted(l.fd)
  <2>1. Appends(l.fd)
    BY <1>3 DEF Appends
  <2>2. path' # 0 \/ path = 0
    BY <1>11
  <2> QED BY <1>10, <1>11, <2>1, <2>2 DEF TailNoted, TabNoted
<1> QED BY <1>5, <1>6, <1>7, <1>9, <1>10, <1>12 DEF LogTyped, WriterStep

LEMMA RotateRenameTyped ==
  ASSUME LogTyped, NEW w \in DOMAIN logger, RotateRename(w)
  PROVE  LogTyped' /\ WriterStep
<1>1. files' = files /\ reader' = reader /\ recs' = recs /\ mark' = mark
  BY DEF RotateRename, Readers
<1>2. /\ path' \in {path, 0} /\ backup' \in {path, backup}
      /\ \E pc \in {"open", "idle"} : logger' = [logger EXCEPT ![w].pc = pc]
  BY DEF RotateRename
<1>3. Stored(files) /\ Len(files) \in Nat \ {0} /\ path \in {0, Len(files)} /\ backup \in 0 .. Len(files) /\ mark \in Nat
  BY DEF LogTyped, FilesTyped
<1>4. FileStep(0) /\ PathStep(0) /\ Stored(files') /\ backup' \in 0 .. Len(files) /\ mark' \in Nat
  BY <1>1, <1>2, <1>3 DEF FileStep, PathStep
<1>5. FilesTyped' /\ Len(files') \in Nat /\ Len(files') >= Len(files)
  BY <1>4, FilesTypedStep
<1>6. PICK pc \in {"open", "idle"} : logger' = [logger EXCEPT ![w].pc = pc]
  BY <1>2
<1>7. PICK v : v = [logger[w] EXCEPT !.pc = pc]
  OBVIOUS
<1>8. logger[w] \in LoggerStates /\ logger[w].pc = "rename" /\ logger[w].fd \in 1 .. Len(files)
  BY <1>3 DEF LogTyped, LoggersTyped, LoggerStates, RotateRename
<1>9. v \in LoggerStates /\ v.fd = logger[w].fd /\ logger' = [logger EXCEPT ![w] = v]
  BY <1>6, <1>7, <1>8 DEF LoggerStates
<1>10. v.fd \in 0 .. Len(files') /\ v.fd # 0
  BY <1>1, <1>8, <1>9
<1>11. LoggersTyped'
  BY <1>1, <1>5, <1>9, <1>10, LoggersStep
<1>12. tail' = tail /\ TailNoted(0) /\ TabNoted(0)
  <2>1. tail' = tail /\ tab' = tab
    BY DEF RotateRename, Readers
  <2>2. Appends(0)
    BY <1>1 DEF Appends
  <2>3. CASE gap' = TRUE /\ slipped' = (slipped \/ tab.pc \in {"open", "mark"})
    BY <2>1, <2>2, <2>3 DEF TailNoted, TabNoted
  <2>4. CASE gap' = gap /\ slipped' = slipped /\ path' = path
    BY <2>1, <2>2, <2>4 DEF TailNoted, TabNoted
  <2> QED BY <2>1, <2>3, <2>4 DEF RotateRename
<1> QED BY <1>4, <1>5, <1>11, <1>12 DEF LogTyped, WriterStep

LEMMA RotateOpenTyped ==
  ASSUME LogTyped, NEW w \in DOMAIN logger, RotateOpen(w)
  PROVE  LogTyped' /\ WriterStep
<1>1. reader' = reader /\ recs' = recs /\ mark' = mark /\ backup' = backup
  BY DEF RotateOpen, Readers
<1>2. Stored(files) /\ Len(files) \in Nat \ {0} /\ path \in {0, Len(files)} /\ backup \in 0 .. Len(files) /\ mark \in Nat
  BY DEF LogTyped, FilesTyped
<1>3. logger[w] \in LoggerStates /\ logger[w].pc = "open" /\ logger[w].fd \in 1 .. Len(files)
  BY <1>2 DEF LogTyped, LoggersTyped, LoggerStates, RotateOpen
<1>6. tail' = tail /\ tab' = tab /\ gap' = gap /\ slipped' = slipped
  BY DEF RotateOpen, Readers
<1>4. CASE /\ OpenLog
           /\ logger' = [logger EXCEPT ![w] = [pc |-> "idle", fd |-> path', written |-> 0, degraded |-> FALSE]]
  <2>1. path' \in 1 .. Len(files') /\ Stored(files') /\ FileStep(path') /\ PathStep(path')
    BY <1>1, <1>4, OpenLogDoes
  <2>2. FilesTyped' /\ Len(files') \in Nat /\ Len(files') >= Len(files)
    <3>1. path' \in Nat /\ backup' \in 0 .. Len(files) /\ mark' \in Nat
      BY <1>1, <1>2, <2>1 DEF Stored
    <3> QED BY <2>1, <3>1, FilesTypedStep
  <2>3. PICK v : v = [pc |-> "idle", fd |-> path', written |-> 0, degraded |-> FALSE]
    OBVIOUS
  <2>4. v \in LoggerStates /\ v.fd \in 0 .. Len(files') /\ v.fd # 0 /\ logger' = [logger EXCEPT ![w] = v]
    BY <1>4, <2>1, <2>2, <2>3 DEF LoggerStates
  <2>5. LoggersTyped'
    BY <1>1, <2>2, <2>4, LoggersStep
  <2>6. (path # 0 => path' = path /\ files' = files) /\ (path = 0 => path' = Len(files) + 1)
    BY <1>1, <1>4, OpenLogDoes
  <2>7. Appends(path')
    BY <1>2, <2>6 DEF Appends
  <2>8. TailNoted(path') /\ TabNoted(path') /\ path' \in Nat
    BY <1>2, <1>6, <2>1, <2>2, <2>6, <2>7 DEF TailNoted, TabNoted
  <2> QED BY <1>6, <2>1, <2>2, <2>5, <2>8 DEF LogTyped, WriterStep
<1>5. CASE /\ UNCHANGED <<files, path>>
           /\ logger' = [logger EXCEPT ![w].pc = "idle", ![w].degraded = TRUE]
  <2>1. FileStep(0) /\ PathStep(0) /\ Stored(files') /\ backup' \in 0 .. Len(files) /\ mark' \in Nat
    BY <1>1, <1>2, <1>5 DEF FileStep, PathStep
  <2>2. FilesTyped' /\ Len(files') \in Nat /\ Len(files') >= Len(files)
    BY <2>1, FilesTypedStep
  <2>3. PICK v : v = [logger[w] EXCEPT !.pc = "idle", !.degraded = TRUE]
    OBVIOUS
  <2>4. v \in LoggerStates /\ v.fd = logger[w].fd
    BY <1>3, <2>3 DEF LoggerStates
  <2>5. logger' = [logger EXCEPT ![w] = v]
    BY <1>5, <2>3 DEF LogTyped, LoggersTyped
  <2>6. v.fd \in 0 .. Len(files') /\ v.fd # 0
    BY <1>3, <1>5, <2>4
  <2>7. LoggersTyped'
    BY <1>1, <2>2, <2>4, <2>5, <2>6, LoggersStep
  <2>8. TailNoted(0) /\ TabNoted(0)
    BY <1>5, <1>6 DEF TailNoted, TabNoted, Appends
  <2> QED BY <1>6, <2>1, <2>2, <2>7, <2>8 DEF LogTyped, WriterStep
<1> QED BY <1>4, <1>5, Zenon DEF RotateOpen

\* A panic appends to the log, which it creates if need be.
LEMMA EmergencyWriteDoes ==
  ASSUME LogTyped, NEW w \in DOMAIN logger, EmergencyWrite(w)
  PROVE  /\ recs' = recs + 1 /\ path' \in 1 .. Len(files') /\ path' = Len(files') /\ Stored(files')
         /\ path # 0 => path' = path
         /\ path = 0 => path' = Len(files) + 1
         /\ Grown(files, files', path', recs')
         /\ FileStep(path') /\ PathStep(path')
<1>1. Stored(files) /\ Len(files) \in Nat \ {0} /\ path \in {0, Len(files)} /\ recs' = recs + 1 /\ recs' \in Nat
  BY DEF LogTyped, FilesTyped, EmergencyWrite
<1>2. CASE path # 0
  <2>1. path' = path /\ files' = [files EXCEPT ![path] = Append(@, recs')]
    BY <1>2 DEF EmergencyWrite
  <2>2. path \in 1 .. Len(files)
    BY <1>1, <1>2
  <2>3. Stored(files') /\ Grown(files, files', path, recs')
    BY <1>1, <2>1, <2>2, FilesGrown
  <2>4. Len(files') = Len(files)
    BY <1>1, <2>2, <2>3 DEF Grown, Beside
  <2> QED BY <1>1, <1>2, <2>1, <2>2, <2>3, <2>4 DEF FileStep, PathStep
<1>3. CASE path = 0
  <2>1. path' = Len(files) + 1 /\ files' = [Append(files, <<>>) EXCEPT ![Len(files) + 1] = Append(@, recs')]
    BY <1>3 DEF EmergencyWrite
  <2>2. Stored(files') /\ Grown(files, files', path', recs') /\ Len(files') = Len(files) + 1
    BY <1>1, <2>1, FilesCreatedGrown
  <2> QED BY <1>1, <1>3, <2>1, <2>2 DEF FileStep, PathStep
<1> QED BY <1>2, <1>3

LEMMA EmergencyWriteTyped ==
  ASSUME LogTyped, NEW w \in DOMAIN logger, EmergencyWrite(w)
  PROVE  LogTyped' /\ WriterStep
<1>1. reader' = reader /\ mark' = mark /\ backup' = backup /\ logger' = logger
  BY DEF EmergencyWrite, Readers
<1>2. path' \in Nat /\ Stored(files') /\ FileStep(path') /\ PathStep(path')
  BY EmergencyWriteDoes DEF Stored
<1>3. backup' \in 0 .. Len(files) /\ mark' \in Nat
  BY <1>1 DEF LogTyped, FilesTyped
<1>4. FilesTyped' /\ Len(files') \in Nat /\ Len(files') >= Len(files)
  BY <1>2, <1>3, FilesTypedStep
<1>5. LoggersTyped'
  BY <1>1, <1>4, LoggersKept
<1>6. tail' = tail /\ tab' = tab /\ gap' = gap /\ slipped' = slipped
  BY DEF EmergencyWrite, Readers
<1>7. TailNoted(path') /\ TabNoted(path')
  BY <1>6, EmergencyWriteDoes DEF TailNoted, TabNoted, Appends
<1> QED BY <1>2, <1>4, <1>5, <1>6, <1>7 DEF LogTyped, WriterStep

\* A clearing by the interface, with the logger before and after.
Cleared(w, fails, l, v) ==
  /\ logger[w].pc = "idle" /\ l = Reopened(logger[w], fails)
  /\ Stored(files') /\ Emptied(files, files', l.fd)
  /\ l.fd \in 1 .. Len(files) => path' = path
  /\ l.fd = Len(files) + 1 => path = 0 /\ path' = l.fd
  /\ v \in LoggerStates /\ v.pc = "idle" /\ v.fd = l.fd /\ v.written = 0
  /\ v.degraded <=> l.degraded
  /\ logger' = [logger EXCEPT ![w] = v]
  /\ shared' = (shared \/ l.fd # path' \/ BackupInUse)

LEMMA LoggerClearDoes ==
  ASSUME LogTyped, NEW w \in DOMAIN logger, logger[w].pc = "idle", LoggerClear(w)
  PROVE  \E fails \in BOOLEAN : \E l, v : Cleared(w, fails, l, v)
<1>1. PICK fails \in BOOLEAN :
       LET l == Reopened(logger[w], fails)
           made == IF l.fd > Len(files) THEN Append(files, <<>>) ELSE files IN
       /\ files' = [made EXCEPT ![l.fd] = <<>>]
       /\ path' = IF made # files THEN l.fd ELSE path
       /\ logger' = [logger EXCEPT ![w] = [l EXCEPT !.written = 0]]
       /\ shared' = (shared \/ l.fd # path' \/ BackupInUse)
  BY Zenon DEF LoggerClear
<1>2. PICK l : l = Reopened(logger[w], fails)
  OBVIOUS
<1>3. PICK made : made = IF l.fd > Len(files) THEN Append(files, <<>>) ELSE files
  OBVIOUS
<1>4. /\ files' = [made EXCEPT ![l.fd] = <<>>]
      /\ path' = IF made # files THEN l.fd ELSE path
      /\ logger' = [logger EXCEPT ![w] = [l EXCEPT !.written = 0]]
      /\ shared' = (shared \/ l.fd # path' \/ BackupInUse)
  BY <1>1, <1>2, <1>3, Zenon
<1>5. Written(l, made)
  BY <1>3, <1>4, Zenon DEF Written
<1>6. Stored(files) /\ Len(files) \in Nat /\ path \in {0, Len(files)}
  BY DEF LogTyped, FilesTyped
<1>7. l \in LoggerStates /\ l.pc = "idle" /\ l.fd \in 1 .. Len(files) + 1
  BY <1>2, ReopenedIs
<1>8. l.fd = Len(files) + 1 => path = 0
  BY <1>2, <1>6, ReopenedIs
<1>9. /\ l.fd \in 1 .. Len(files) => made = files /\ path' = path
      /\ l.fd = Len(files) + 1 => made = Append(files, <<>>) /\ path' = l.fd
  BY <1>5, <1>7, MadeIs
<1>10. Stored(files') /\ Emptied(files, files', l.fd)
  <2>1. CASE l.fd \in 1 .. Len(files)
    <3>1. files' = [files EXCEPT ![l.fd] = <<>>]
      BY <1>4, <1>9, <2>1
    <3> QED BY <1>6, <2>1, <3>1, FilesEmptied
  <2>2. CASE l.fd = Len(files) + 1
    <3>1. files' = [Append(files, <<>>) EXCEPT ![l.fd] = <<>>]
      BY <1>4, <1>9, <2>2
    <3> QED BY <1>6, <2>2, <3>1, FilesCreatedEmptied
  <2> QED BY <1>6, <1>7, <2>1, <2>2
<1>11. PICK v : v = [l EXCEPT !.written = 0]
  OBVIOUS
<1>12. v \in LoggerStates /\ v.pc = "idle" /\ v.fd = l.fd /\ v.written = 0
  BY <1>7, <1>11 DEF LoggerStates
<1>13. v.degraded <=> l.degraded
  BY <1>7, <1>11 DEF LoggerStates
<1>14. logger' = [logger EXCEPT ![w] = v]
  BY <1>4, <1>11
<1>15. Cleared(w, fails, l, v)
  BY <1>2, <1>4, <1>8, <1>9, <1>10, <1>12, <1>13, <1>14, Zenon DEF Cleared
<1> QED BY <1>15

LEMMA ConfirmClearLogsTyped ==
  ASSUME LogTyped, NEW w \in DOMAIN logger, ConfirmClearLogs(w)
  PROVE  LogTyped' /\ WriterStep
<1>1. reader' = reader /\ mark' = recs /\ recs' = recs /\ backup' = 0 /\ logger[w].pc = "idle" /\ LoggerClear(w)
  BY DEF ConfirmClearLogs, LoggerClear
<1>2. PICK fails, l, v : fails \in BOOLEAN /\ Cleared(w, fails, l, v)
  BY <1>1, LoggerClearDoes
<1>3. /\ l = Reopened(logger[w], fails) /\ Stored(files') /\ Emptied(files, files', l.fd)
      /\ l.fd \in 1 .. Len(files) => path' = path
      /\ l.fd = Len(files) + 1 => path = 0 /\ path' = l.fd
      /\ v \in LoggerStates /\ v.fd = l.fd
      /\ logger' = [logger EXCEPT ![w] = v]
  BY <1>2 DEF Cleared
<1>4. l.fd \in 1 .. Len(files) + 1 /\ Len(files) \in Nat /\ recs \in Nat
  BY <1>1, <1>2, <1>3, ReopenedIs DEF LogTyped, FilesTyped
<1>5. l.fd \in Nat /\ FileStep(l.fd)
  BY <1>1, <1>3, <1>4 DEF FileStep
<1>6. PathStep(l.fd)
  <2>1. Len(files') = IF l.fd > Len(files) THEN Len(files) + 1 ELSE Len(files)
    BY <1>3 DEF Emptied, Beside
  <2> QED BY <1>3, <1>4, <2>1 DEF PathStep
<1>7. FilesTyped' /\ Len(files') \in Nat /\ Len(files') >= Len(files)
  <2>1. backup' \in 0 .. Len(files) /\ mark' \in Nat
    BY <1>1, <1>4
  <2> QED BY <1>3, <1>5, <1>6, <2>1, FilesTypedStep
<1>8. v.fd \in 0 .. Len(files') /\ v.fd # 0
  BY <1>3, <1>4, <1>7 DEF Emptied, Beside
<1>9. LoggersTyped'
  BY <1>1, <1>3, <1>7, <1>8, LoggersStep
<1>10. tail' = tail /\ TailNoted(l.fd) /\ TabNoted(l.fd)
  <2>1. tail' = tail /\ gap' = TRUE /\ slipped' = slipped /\ tab' = [tab EXCEPT !.pc = "reload", !.dirty = TRUE]
    BY DEF ConfirmClearLogs
  <2>2. path' # 0 \/ path = 0
    BY <1>3, <1>4
  <2> QED BY <2>1, <2>2 DEF TailNoted, TabNoted
<1> QED BY <1>5, <1>6, <1>7, <1>9, <1>10 DEF LogTyped, WriterStep

\* `logs clear` empties the log that is there.
LEMMA ClearTuiDoes ==
  ASSUME LogTyped, ClearTui
  PROVE  /\ Stored(files') /\ path' = path /\ recs' = recs
         /\ path = 0 => files' = files
         /\ path # 0 => Emptied(files, files', path)
         /\ FileStep(path) /\ PathStep(path)
<1>1. files' = Truncated(path) /\ path' = path /\ recs' = recs
  BY DEF ClearTui
<1>2. Stored(files) /\ Len(files) \in Nat \ {0} /\ path \in {0, Len(files)}
  BY DEF LogTyped, FilesTyped
<1>3. CASE path = 0
  BY <1>1, <1>2, <1>3 DEF Truncated, FileStep, PathStep
<1>4. CASE path # 0
  <2>1. files' = [files EXCEPT ![path] = <<>>] /\ path \in 1 .. Len(files)
    BY <1>1, <1>2, <1>4 DEF Truncated
  <2>2. Stored(files') /\ Emptied(files, files', path)
    BY <1>2, <2>1, FilesEmptied
  <2>3. Len(files') = Len(files)
    BY <1>2, <2>1, <2>2 DEF Emptied, Beside
  <2> QED BY <1>1, <1>4, <2>2, <2>3 DEF FileStep, PathStep
<1> QED BY <1>3, <1>4

LEMMA ClearTuiTyped ==
  ASSUME LogTyped, ClearTui
  PROVE  LogTyped' /\ WriterStep
<1>1. reader' = reader /\ mark' = recs /\ backup' = backup /\ logger' = logger
  BY DEF ClearTui
<1>2. Stored(files') /\ FileStep(path) /\ PathStep(path) /\ path \in Nat
  BY ClearTuiDoes DEF LogTyped, FilesTyped
<1>3. backup' \in 0 .. Len(files) /\ mark' \in Nat
  BY <1>1 DEF LogTyped, FilesTyped
<1>4. FilesTyped' /\ Len(files') \in Nat /\ Len(files') >= Len(files)
  BY <1>2, <1>3, FilesTypedStep
<1>5. LoggersTyped'
  BY <1>1, <1>4, LoggersKept
<1>6. tail' = tail /\ TailNoted(path) /\ TabNoted(path)
  <2>1. tail' = tail /\ gap' = TRUE /\ slipped' = slipped /\ tab' = [tab EXCEPT !.dirty = TRUE] /\ path' = path
    BY DEF ClearTui
  <2> QED BY <2>1 DEF TailNoted, TabNoted
<1> QED BY <1>2, <1>4, <1>5, <1>6 DEF LogTyped, WriterStep

LEMMA RemoveBackupTyped ==
  ASSUME LogTyped, RemoveBackup
  PROVE  LogTyped' /\ WriterStep
<1>1. /\ reader' = reader /\ backup' = 0 /\ logger' = logger /\ files' = files /\ path' = path /\ recs' = recs
      /\ mark' = IF SizeOf(backup) > 0 /\ Newest(backup) > mark THEN Newest(backup) ELSE mark
  BY DEF RemoveBackup, Readers
<1>2. Stored(files) /\ Len(files) \in Nat \ {0} /\ path \in {0, Len(files)} /\ backup \in 0 .. Len(files) /\ mark \in Nat
  BY DEF LogTyped, FilesTyped
<1>3. mark' \in Nat
  <2>1. CASE backup = 0
    BY <1>1, <1>2, <2>1 DEF SizeOf
  <2>2. CASE backup # 0
    <3>1. files[backup] \in Seq(Nat) /\ SizeOf(backup) = Len(files[backup])
      BY <1>2, <2>2 DEF SizeOf, Stored
    <3>2. SizeOf(backup) > 0 => Newest(backup) \in Nat
      BY <3>1 DEF Newest
    <3> QED BY <1>1, <1>2, <3>2
  <2> QED BY <2>1, <2>2
<1>4. Stored(files') /\ FileStep(0) /\ PathStep(0) /\ backup' \in 0 .. Len(files)
  BY <1>1, <1>2 DEF FileStep, PathStep
<1>5. FilesTyped' /\ Len(files') \in Nat /\ Len(files') >= Len(files)
  BY <1>3, <1>4, FilesTypedStep
<1>6. LoggersTyped'
  BY <1>1, <1>5, LoggersKept
<1>7. tail' = tail /\ TailNoted(0) /\ TabNoted(0)
  <2>1. tail' = tail /\ gap' = gap /\ slipped' = slipped /\ tab' = tab
    BY DEF RemoveBackup, Readers
  <2> QED BY <1>1, <2>1 DEF TailNoted, TabNoted, Appends
<1> QED BY <1>4, <1>5, <1>6, <1>7 DEF LogTyped, WriterStep

\* The steps of the reader leave files and loggers alone.
LEMMA ReaderStepTyped ==
  ASSUME LogTyped, UNCHANGED Writers, reader' = reader
  PROVE  LogTyped'
<1>1. files' = files /\ path' = path /\ backup' = backup /\ logger' = logger /\ recs' = recs /\ mark' = mark
  BY DEF Writers
<1>2. Stored(files) /\ Len(files) \in Nat \ {0} /\ path \in {0, Len(files)} /\ backup \in 0 .. Len(files) /\ mark \in Nat
  BY DEF LogTyped, FilesTyped
<1>4. Stored(files') /\ FileStep(0) /\ PathStep(0) /\ backup' \in 0 .. Len(files) /\ mark' \in Nat
  BY <1>1, <1>2 DEF FileStep, PathStep
<1>5. FilesTyped' /\ Len(files') \in Nat /\ Len(files') >= Len(files)
  BY <1>4, FilesTypedStep
<1>6. LoggersTyped'
  BY <1>1, <1>5, LoggersKept
<1> QED BY <1>5, <1>6 DEF LogTyped

LEMMA LogInitTyped ==
  ASSUME LogInit
  PROVE  LogTyped
<1>1. files = <<<<>>>> /\ path = 1 /\ backup = 0 /\ recs = 0 /\ mark = 0 /\ reader \in DOMAIN Loggers
  BY DEF LogInit
<1>2. <<>> \in Seq(Nat)
  OBVIOUS
<1>3. Stored(files) /\ Len(files) = 1
  BY <1>1, <1>2 DEF Stored
<1>4. Loggers[reader] \in Nat
  BY <1>1, LogsAssumption
<1>5. PICK v : v = [NoLogger EXCEPT !.pc = "idle", !.fd = 1]
  OBVIOUS
<1>6. logger = [w \in 1 .. Loggers[reader] |-> IF w = 1 THEN v ELSE NoLogger]
  BY <1>5 DEF LogInit
<1>7. v \in LoggerStates /\ v.fd = 1
  BY <1>5 DEF LoggerStates, NoLogger
<1>8. NoLogger \in LoggerStates /\ NoLogger.fd = 0 /\ NoLogger.pc = "off"
  BY DEF LoggerStates, NoLogger
<1>9. logger \in [1 .. Loggers[reader] -> LoggerStates]
  BY <1>6, <1>7, <1>8
<1>10. \A w \in DOMAIN logger : logger[w].fd <= Len(files) /\ (logger[w].pc # "off" => logger[w].fd # 0)
  <2> TAKE w \in DOMAIN logger
  <2>1. logger[w] = v \/ logger[w] = NoLogger
    BY <1>6, <1>9
  <2> QED BY <1>3, <1>7, <1>8, <2>1
<1> QED BY <1>1, <1>3, <1>4, <1>9, <1>10 DEF LogTyped, FilesTyped, LoggersTyped

\* The steps of each program.
WriterNext ==
  \/ \E w \in DOMAIN logger : \/ InitLogger(w) \/ WriteRecord(w) \/ RotateRename(w) \/ RotateOpen(w)
                        \/ EmergencyWrite(w) \/ ConfirmClearLogs(w)
  \/ ClearTui \/ RemoveBackup
TailNext == ReadTail \/ OpenAt \/ TailStat \/ TailReopen \/ TailRead
TabNext ==
  \/ ReadLogFile("reload", "mark") \/ ReadLogFile("again", "idle")
  \/ ReloadOpen \/ ReloadMark \/ PollStat \/ PollReopen \/ PollMore
  \/ Scroll \/ CycleFilter \/ CycleSource

LEMMA LogNextIs == LogNext => WriterNext \/ TailNext \/ TabNext
  BY Zenon DEF LogNext, WriterNext, TailNext, TabNext

LEMMA WriterNextTyped ==
  ASSUME LogTyped, WriterNext
  PROVE  LogTyped' /\ WriterStep
<1>1. ASSUME NEW w \in DOMAIN logger, InitLogger(w) PROVE LogTyped' /\ WriterStep
  BY <1>1, InitLoggerTyped
<1>2. ASSUME NEW w \in DOMAIN logger, WriteRecord(w) PROVE LogTyped' /\ WriterStep
  BY <1>2, WriteRecordTyped
<1>3. ASSUME NEW w \in DOMAIN logger, RotateRename(w) PROVE LogTyped' /\ WriterStep
  BY <1>3, RotateRenameTyped
<1>4. ASSUME NEW w \in DOMAIN logger, RotateOpen(w) PROVE LogTyped' /\ WriterStep
  BY <1>4, RotateOpenTyped
<1>5. ASSUME NEW w \in DOMAIN logger, EmergencyWrite(w) PROVE LogTyped' /\ WriterStep
  BY <1>5, EmergencyWriteTyped
<1>6. ASSUME NEW w \in DOMAIN logger, ConfirmClearLogs(w) PROVE LogTyped' /\ WriterStep
  BY <1>6, ConfirmClearLogsTyped
<1>7. CASE ClearTui
  BY <1>7, ClearTuiTyped
<1>8. CASE RemoveBackup
  BY <1>8, RemoveBackupTyped
<1> QED BY <1>1, <1>2, <1>3, <1>4, <1>5, <1>6, <1>7, <1>8 DEF WriterNext

LEMMA TailNextKeeps ==
  ASSUME TailNext
  PROVE  UNCHANGED Writers /\ reader' = reader /\ tab' = tab /\ slipped' = slipped
  BY DEF TailNext, ReadTail, OpenAt, TailStat, TailReopen, TailRead, FollowStep

LEMMA TabNextKeeps ==
  ASSUME TabNext
  PROVE  UNCHANGED Writers /\ reader' = reader /\ tail' = tail /\ gap' = gap
  BY Zenon DEF TabNext, ReadLogFile, ReloadOpen, ReloadMark, PollStat, PollReopen, PollMore, Scroll, CycleFilter,
               CycleSource, TabStep

LEMMA LogStutters ==
  ASSUME UNCHANGED logVars
  PROVE  UNCHANGED Writers /\ reader' = reader /\ tail' = tail /\ gap' = gap /\ tab' = tab /\ slipped' = slipped
  BY DEF logVars, Writers

LEMMA LogNextTyped ==
  ASSUME LogTyped, [LogNext]_logVars
  PROVE  LogTyped'
<1>1. CASE WriterNext
  BY <1>1, WriterNextTyped
<1>2. CASE TailNext
  BY <1>2, TailNextKeeps, ReaderStepTyped
<1>3. CASE TabNext
  BY <1>3, TabNextKeeps, ReaderStepTyped
<1>4. CASE UNCHANGED logVars
  BY <1>4, LogStutters, ReaderStepTyped
<1> QED BY <1>1, <1>2, <1>3, <1>4, LogNextIs

\* The log is the newest file or there is none, and every running logger holds a file open.
THEOREM LogsTyped == LogSpec => []LogTyped
  BY LogInitTyped, LogNextTyped, PTL DEF LogSpec

-----------------------------------------------------------------------------
(* logs --follow.                                                          *)

\* Records are numbered as they are written: a file holds them in order, and no record is
\* in two files.
InOrder(F, r) ==
  /\ \A f \in 1 .. Len(F) : \A i \in 1 .. Len(F[f]) : F[f][i] \in 1 .. r
  /\ \A f \in 1 .. Len(F) : \A i, j \in 1 .. Len(F[f]) : i < j => F[f][i] < F[f][j]
  /\ \A f, g \in 1 .. Len(F) : f # g => \A i \in 1 .. Len(F[f]), j \in 1 .. Len(F[g]) : F[f][i] # F[g][j]

LEMMA FileStepAt ==
  ASSUME LogTyped, LogTyped', NEW f, FileStep(f), NEW g \in 1 .. Len(files')
  PROVE  /\ files'[g] \in Seq(Nat) /\ Held(files, g) \in Seq(Nat)
         /\ g \in 1 .. Len(files) => Held(files, g) = files[g]
         /\ \/ files'[g] = Held(files, g)
            \/ files'[g] = <<>>
            \/ g = f /\ recs' = recs + 1 /\ Len(files'[g]) = Len(Held(files, g)) + 1
               /\ files'[g][Len(Held(files, g)) + 1] = recs'
               /\ \A i \in 1 .. Len(Held(files, g)) : files'[g][i] = Held(files, g)[i]
<1>1. Stored(files) /\ Stored(files') /\ recs \in Nat /\ recs' \in Nat /\ Len(files) \in Nat
  BY DEF LogTyped, FilesTyped
<1>2. Held(files, g) \in Seq(Nat) /\ files'[g] \in Seq(Nat) /\ (g \in 1 .. Len(files) => Held(files, g) = files[g])
  BY <1>1 DEF Stored, Held
<1>3. CASE files' = files
  BY <1>2, <1>3
<1>4. CASE Grown(files, files', f, recs') /\ recs' = recs + 1
  <2>1. CASE g = f
    BY <1>1, <1>2, <1>4, <2>1, GrownRecords
  <2>2. CASE g # f
    <3>1. g \in 1 .. Len(files)
      BY <1>1, <1>4, <2>2 DEF Grown, Beside
    <3> QED BY <1>2, <1>4, <2>2, <3>1 DEF Grown, Beside
  <2> QED BY <2>1, <2>2
<1>5. CASE Emptied(files, files', f)
  <2>1. CASE g = f
    BY <1>2, <1>5, <2>1 DEF Emptied
  <2>2. CASE g # f
    <3>1. g \in 1 .. Len(files)
      BY <1>1, <1>5, <2>2 DEF Emptied, Beside
    <3> QED BY <1>2, <1>5, <2>2, <3>1 DEF Emptied, Beside
  <2> QED BY <1>2, <2>1, <2>2
<1> QED BY <1>3, <1>4, <1>5 DEF FileStep

LEMMA InOrderStep ==
  ASSUME LogTyped, LogTyped', InOrder(files, recs), NEW f, FileStep(f)
  PROVE  InOrder(files', recs')
<1>1. recs \in Nat /\ recs' \in {recs, recs + 1} /\ Len(files) \in Nat
  BY DEF LogTyped, FilesTyped, FileStep
<1>2. \A g \in 1 .. Len(files') :
        /\ Held(files, g) \in Seq(Nat)
        /\ \A i \in 1 .. Len(Held(files, g)) : Held(files, g)[i] \in 1 .. recs
        /\ \A i, j \in 1 .. Len(Held(files, g)) : i < j => Held(files, g)[i] < Held(files, g)[j]
  <2> TAKE g \in 1 .. Len(files')
  <2>1. CASE g \in 1 .. Len(files)
    BY <2>1, FileStepAt DEF InOrder
  <2>2. CASE g \notin 1 .. Len(files)
    BY <2>2 DEF Held
  <2> QED BY <2>1, <2>2
<1>3. \A g, h \in 1 .. Len(files') : g # h =>
        \A i \in 1 .. Len(Held(files, g)), j \in 1 .. Len(Held(files, h)) : Held(files, g)[i] # Held(files, h)[j]
  <2> TAKE g, h \in 1 .. Len(files')
  <2>1. CASE g \in 1 .. Len(files) /\ h \in 1 .. Len(files)
    BY <2>1 DEF InOrder, Held
  <2>2. CASE g \notin 1 .. Len(files) \/ h \notin 1 .. Len(files)
    BY <2>2 DEF Held
  <2> QED BY <2>1, <2>2
<1>4. \A g \in 1 .. Len(files') : \A i \in 1 .. Len(files'[g]) :
        /\ files'[g] \in Seq(Nat) /\ files'[g][i] \in 1 .. recs'
        /\ \/ i \in 1 .. Len(Held(files, g)) /\ files'[g][i] = Held(files, g)[i]
           \/ g = f /\ recs' = recs + 1 /\ files'[g][i] = recs' /\ i = Len(Held(files, g)) + 1
  <2> TAKE g \in 1 .. Len(files')
  <2> TAKE i \in 1 .. Len(files'[g])
  <2>1. /\ files'[g] \in Seq(Nat) /\ Held(files, g) \in Seq(Nat)
        /\ \/ files'[g] = Held(files, g)
           \/ files'[g] = <<>>
           \/ g = f /\ recs' = recs + 1 /\ Len(files'[g]) = Len(Held(files, g)) + 1
              /\ files'[g][Len(Held(files, g)) + 1] = recs'
              /\ \A k \in 1 .. Len(Held(files, g)) : files'[g][k] = Held(files, g)[k]
    BY FileStepAt
  <2>2. CASE files'[g] = Held(files, g)
    BY <1>1, <1>2, <2>1, <2>2
  <2>3. CASE files'[g] = <<>>
    BY <2>3
  <2>4. CASE /\ g = f /\ recs' = recs + 1 /\ Len(files'[g]) = Len(Held(files, g)) + 1
             /\ files'[g][Len(Held(files, g)) + 1] = recs'
             /\ \A k \in 1 .. Len(Held(files, g)) : files'[g][k] = Held(files, g)[k]
    <3>1. i \in 1 .. Len(Held(files, g)) \/ i = Len(Held(files, g)) + 1
      BY <2>1, <2>4
    <3> QED BY <1>1, <1>2, <2>1, <2>4, <3>1, SMTT(30)
  <2> QED BY <2>1, <2>2, <2>3, <2>4
<1>5. \A g \in 1 .. Len(files') : \A i, j \in 1 .. Len(files'[g]) : i < j => files'[g][i] < files'[g][j]
  <2> TAKE g \in 1 .. Len(files')
  <2> TAKE i, j \in 1 .. Len(files'[g])
  <2> HAVE i < j
  <2>1. CASE i \in 1 .. Len(Held(files, g)) /\ files'[g][i] = Held(files, g)[i]
    <3>1. CASE j \in 1 .. Len(Held(files, g)) /\ files'[g][j] = Held(files, g)[j]
      BY <1>2, <2>1, <3>1, SMTT(30)
    <3>2. CASE recs' = recs + 1 /\ files'[g][j] = recs'
      BY <1>1, <1>2, <2>1, <3>2
    <3> QED BY <1>4, <3>1, <3>2
  <2>2. CASE i = Len(Held(files, g)) + 1
    <3>1. j \in 1 .. Len(Held(files, g)) \/ j = Len(Held(files, g)) + 1
      BY <1>4
    <3>2. Len(Held(files, g)) \in Nat
      BY <1>2
    <3> QED BY <2>2, <3>1, <3>2
  <2> QED BY <1>4, <2>1, <2>2
<1>6. \A g, h \in 1 .. Len(files') : g # h =>
        \A i \in 1 .. Len(files'[g]), j \in 1 .. Len(files'[h]) : files'[g][i] # files'[h][j]
  <2> TAKE g, h \in 1 .. Len(files')
  <2> HAVE g # h
  <2> TAKE i \in 1 .. Len(files'[g]), j \in 1 .. Len(files'[h])
  <2>1. \/ i \in 1 .. Len(Held(files, g)) /\ files'[g][i] = Held(files, g)[i]
        \/ g = f /\ recs' = recs + 1 /\ files'[g][i] = recs'
    BY <1>4
  <2>2. \/ j \in 1 .. Len(Held(files, h)) /\ files'[h][j] = Held(files, h)[j]
        \/ h = f /\ recs' = recs + 1 /\ files'[h][j] = recs'
    BY <1>4
  <2>3. CASE i \in 1 .. Len(Held(files, g)) /\ files'[g][i] = Held(files, g)[i]
    <3>1. CASE j \in 1 .. Len(Held(files, h)) /\ files'[h][j] = Held(files, h)[j]
      BY <1>3, <2>3, <3>1
    <3>2. CASE recs' = recs + 1 /\ files'[h][j] = recs'
      <4>1. Held(files, g)[i] \in 1 .. recs
        BY <1>2, <2>3
      <4> QED BY <1>1, <2>3, <3>2, <4>1
    <3> QED BY <2>2, <3>1, <3>2
  <2>4. CASE g = f /\ recs' = recs + 1 /\ files'[g][i] = recs'
    <3>1. j \in 1 .. Len(Held(files, h)) /\ files'[h][j] = Held(files, h)[j]
      BY <2>2, <2>4
    <3>2. Held(files, h)[j] \in 1 .. recs
      BY <1>2, <3>1
    <3> QED BY <1>1, <2>4, <3>1, <3>2
  <2> QED BY <2>1, <2>3, <2>4
<1> QED BY <1>4, <1>5, <1>6 DEF InOrder

TailStates == [pc : {"off", "open", "stat", "read", "reopen"}, fd : Nat, pos : Nat, from : Nat, out : Seq(Nat)]
TailTyped ==
  /\ tail \in TailStates /\ tail.fd <= Len(files)
  /\ tail.pc \notin {"off", "open"} => tail.fd # 0

\* The records of file f after the first k were not printed; and a file that is shorter
\* than the place to read on from was emptied since, so that all of it is new.
Unprinted(F, out, f, k) ==
  \A i \in 1 .. Len(F[f]) : i > k => \A j \in 1 .. Len(out) : F[f][i] # out[j]
Resumes(F, out, f, k) == Unprinted(F, out, f, k) /\ (Len(F[f]) < k => Unprinted(F, out, f, 0))

\* What was printed, what will be read in the open file, and what will be read in the log
\* when it is opened (again).
Printed(out, r) ==
  /\ \A j \in 1 .. Len(out) : out[j] <= r
  /\ \A i, j \in 1 .. Len(out) : i # j => out[i] # out[j]
ReadsNew ==
  /\ tail.pc \in {"stat", "read", "reopen"} => Resumes(files, tail.out, tail.fd, tail.pos)
  /\ tail.pc = "open" /\ path # 0 => Resumes(files, tail.out, path, tail.pos)
OpensNew ==
  /\ tail.pc \in {"stat", "read"} /\ path \notin {0, tail.fd} => Unprinted(files, tail.out, path, 0)
  /\ tail.pc = "reopen" /\ path # 0 => Unprinted(files, tail.out, path, 0)

\* Until the log is rotated or emptied, the part of it that was read is what was printed.
Unbroken(F, p, t) ==
  /\ p # 0 /\ t.pc # "reopen" /\ (t.pc # "open" => t.fd = p)
  /\ t.from <= t.pos /\ t.pos <= Len(F[p]) /\ t.out = SubSeq(F[p], t.from + 1, t.pos)

FollowerInv ==
  /\ InOrder(files, recs) /\ TailTyped
  /\ Printed(tail.out, recs) /\ ReadsNew /\ OpensNew
  /\ ~gap /\ tail.pc # "off" => Unbroken(files, path, tail)

LEMMA PartIs ==
  ASSUME NEW s \in Seq(Nat), NEW m \in Nat \ {0}, NEW n \in Nat, n <= Len(s)
  PROVE  /\ SubSeq(s, m, n) \in Seq(Nat)
         /\ Len(SubSeq(s, m, n)) = IF m <= n THEN n - m + 1 ELSE 0
         /\ \A i \in 1 .. Len(SubSeq(s, m, n)) : m - 1 + i \in 1 .. n /\ SubSeq(s, m, n)[i] = s[m - 1 + i]
  BY SMTT(30)

LEMMA SameSeq ==
  ASSUME NEW s \in Seq(Nat), NEW t \in Seq(Nat), Len(s) = Len(t), \A i \in 1 .. Len(s) : s[i] = t[i]
  PROVE  s = t
  OBVIOUS

LEMMA PartOfAppend ==
  ASSUME NEW s \in Seq(Nat), NEW r \in Nat, NEW m \in Nat \ {0}, NEW n \in Nat, n <= Len(s)
  PROVE  SubSeq(Append(s, r), m, n) = SubSeq(s, m, n) /\ n <= Len(Append(s, r))
<1>1. PICK t : t = Append(s, r)
  OBVIOUS
<1>2. t \in Seq(Nat) /\ n <= Len(t) /\ \A i \in 1 .. Len(s) : t[i] = s[i]
  BY <1>1
<1>3. /\ SubSeq(s, m, n) \in Seq(Nat)
      /\ Len(SubSeq(s, m, n)) = IF m <= n THEN n - m + 1 ELSE 0
      /\ \A i \in 1 .. Len(SubSeq(s, m, n)) : m - 1 + i \in 1 .. n /\ SubSeq(s, m, n)[i] = s[m - 1 + i]
  BY PartIs
<1>4. /\ SubSeq(t, m, n) \in Seq(Nat)
      /\ Len(SubSeq(t, m, n)) = IF m <= n THEN n - m + 1 ELSE 0
      /\ \A i \in 1 .. Len(SubSeq(t, m, n)) : m - 1 + i \in 1 .. n /\ SubSeq(t, m, n)[i] = t[m - 1 + i]
  BY <1>2, PartIs
<1>5. SubSeq(t, m, n) = SubSeq(s, m, n)
  BY <1>2, <1>3, <1>4, SameSeq
<1> QED BY <1>1, <1>2, <1>5

\* A writer adds records that were not printed, or takes all records of a file away.
LEMMA UnprintedStep ==
  ASSUME LogTyped, LogTyped', NEW f, FileStep(f), NEW out \in Seq(Nat), \A j \in 1 .. Len(out) : out[j] <= recs,
         NEW g \in 1 .. Len(files'), NEW k \in Nat,
         g \in 1 .. Len(files) => Unprinted(files, out, g, k)
  PROVE  Unprinted(files', out, g, k)
<1>1. /\ files'[g] \in Seq(Nat) /\ Held(files, g) \in Seq(Nat)
      /\ g \in 1 .. Len(files) => Held(files, g) = files[g]
      /\ \/ files'[g] = Held(files, g)
         \/ files'[g] = <<>>
         \/ g = f /\ recs' = recs + 1 /\ Len(files'[g]) = Len(Held(files, g)) + 1
            /\ files'[g][Len(Held(files, g)) + 1] = recs'
            /\ \A i \in 1 .. Len(Held(files, g)) : files'[g][i] = Held(files, g)[i]
  BY FileStepAt
<1>2. \A i \in 1 .. Len(Held(files, g)) : i > k => \A j \in 1 .. Len(out) : Held(files, g)[i] # out[j]
  <2>1. CASE g \in 1 .. Len(files)
    BY <1>1, <2>1 DEF Unprinted
  <2>2. CASE g \notin 1 .. Len(files)
    BY <2>2 DEF Held
  <2> QED BY <2>1, <2>2
<1>3. recs \in Nat
  BY DEF LogTyped, FilesTyped
<1> SUFFICES ASSUME NEW i \in 1 .. Len(files'[g]), i > k, NEW j \in 1 .. Len(out)
             PROVE  files'[g][i] # out[j]
  BY DEF Unprinted
<1>4. out[j] \in Nat /\ out[j] <= recs
  OBVIOUS
<1>5. CASE files'[g] = Held(files, g)
  BY <1>2, <1>5
<1>6. CASE files'[g] = <<>>
  BY <1>6
<1>7. CASE /\ recs' = recs + 1 /\ Len(files'[g]) = Len(Held(files, g)) + 1
           /\ files'[g][Len(Held(files, g)) + 1] = recs'
           /\ \A h \in 1 .. Len(Held(files, g)) : files'[g][h] = Held(files, g)[h]
  <2>1. i \in 1 .. Len(Held(files, g)) \/ i = Len(Held(files, g)) + 1
    BY <1>1, <1>7
  <2>2. CASE i \in 1 .. Len(Held(files, g))
    BY <1>2, <1>7, <2>2
  <2>3. CASE i = Len(Held(files, g)) + 1
    BY <1>3, <1>4, <1>7, <2>3
  <2> QED BY <2>1, <2>2, <2>3
<1> QED BY <1>1, <1>5, <1>6, <1>7

LEMMA ResumesStep ==
  ASSUME LogTyped, LogTyped', NEW f, FileStep(f), NEW out \in Seq(Nat), \A j \in 1 .. Len(out) : out[j] <= recs,
         NEW g \in 1 .. Len(files'), NEW k \in Nat,
         g \in 1 .. Len(files) => Resumes(files, out, g, k)
  PROVE  Resumes(files', out, g, k)
<1>1. Unprinted(files', out, g, k)
  <2>1. g \in 1 .. Len(files) => Unprinted(files, out, g, k)
    BY DEF Resumes
  <2> QED BY <2>1, UnprintedStep
<1>2. ASSUME Len(files'[g]) < k PROVE Unprinted(files', out, g, 0)
  <2>1. /\ files'[g] \in Seq(Nat) /\ Held(files, g) \in Seq(Nat)
        /\ g \in 1 .. Len(files) => Held(files, g) = files[g]
        /\ files'[g] = Held(files, g) \/ files'[g] = <<>> \/ Len(files'[g]) = Len(Held(files, g)) + 1
    BY FileStepAt
  <2>2. CASE files'[g] = <<>>
    BY <2>2 DEF Unprinted
  <2>3. CASE files'[g] # <<>>
    <3>1. Len(Held(files, g)) \in Nat /\ Len(files'[g]) \in Nat
      BY <2>1
    <3>2. Len(Held(files, g)) < k
      BY <1>2, <2>1, <2>3, <3>1
    <3>3. g \in 1 .. Len(files) => Unprinted(files, out, g, 0)
      BY <2>1, <3>2 DEF Resumes
    <3> QED BY <3>3, UnprintedStep
  <2> QED BY <2>2, <2>3
<1> QED BY <1>1, <1>2 DEF Resumes

\* What was read of a log that only grows stays the same part of it.
LEMMA UnbrokenStep ==
  ASSUME LogTyped, LogTyped', NEW f \in Nat, FileStep(f), PathStep(f), Appends(f), path # 0 => path' = path,
         tail \in TailStates, Unbroken(files, path, tail)
  PROVE  Unbroken(files', path', tail)
<1>1. path # 0 /\ path' = path /\ path \in 1 .. Len(files) /\ Len(files) \in Nat /\ Stored(files) /\ Stored(files')
  BY DEF Unbroken, LogTyped, FilesTyped
<1>2. path \in 1 .. Len(files') /\ Len(files') = Len(files)
  BY <1>1 DEF PathStep
<1>3. files[path] \in Seq(Nat) /\ files'[path] \in Seq(Nat)
  BY <1>1, <1>2 DEF Stored
<1>4. files'[path] = files[path] \/ \E r \in Nat : files'[path] = Append(files[path], r)
  <2>1. CASE files' = files
    BY <2>1
  <2>2. CASE Grown(files, files', f, recs') /\ recs' = recs + 1
    <3>1. recs' \in Nat
      BY DEF LogTyped, FilesTyped
    <3>2. CASE f = path
      BY <1>1, <2>2, <3>1, <3>2 DEF Grown, Held
    <3>3. CASE f # path
      BY <1>1, <2>2, <3>3 DEF Grown, Beside
    <3> QED BY <3>2, <3>3
  <2>3. CASE Emptied(files, files', f) /\ f > Len(files)
    BY <1>1, <1>2, <2>3 DEF Emptied, Beside
  <2>4. CASE Grown(files, files', f, recs')
    <3>1. recs' \in Nat
      BY DEF LogTyped, FilesTyped
    <3>2. CASE f = path
      BY <1>1, <2>4, <3>1, <3>2 DEF Grown, Held
    <3>3. CASE f # path
      BY <1>1, <2>4, <3>3 DEF Grown, Beside
    <3> QED BY <3>2, <3>3
  <2> QED BY <2>1, <2>2, <2>3, <2>4 DEF Appends, FileStep
<1>5. tail.from \in Nat /\ tail.pos \in Nat /\ tail.pos <= Len(files[path])
  BY DEF TailStates, Unbroken
<1>6. SubSeq(files'[path], tail.from + 1, tail.pos) = SubSeq(files[path], tail.from + 1, tail.pos) /\ tail.pos <= Len(files'[path])
  <2>1. CASE files'[path] = files[path]
    BY <1>5, <2>1
  <2>2. ASSUME NEW r \in Nat, files'[path] = Append(files[path], r)
        PROVE  SubSeq(files'[path], tail.from + 1, tail.pos) = SubSeq(files[path], tail.from + 1, tail.pos) /\ tail.pos <= Len(files'[path])
    <3>1. PICK p, lo, hi : p = files[path] /\ lo = tail.from + 1 /\ hi = tail.pos
      OBVIOUS
    <3>2. p \in Seq(Nat) /\ lo \in Nat \ {0} /\ hi \in Nat /\ hi <= Len(p)
      BY <1>3, <1>5, <3>1
    <3>4. SubSeq(Append(p, r), lo, hi) = SubSeq(p, lo, hi) /\ hi <= Len(Append(p, r))
      BY <3>2, PartOfAppend
    <3> QED BY <2>2, <3>1, <3>4, Zenon
  <2> QED BY <1>4, <2>1, <2>2
<1> QED BY <1>1, <1>6 DEF Unbroken

LEMMA FollowWriterStep ==
  ASSUME LogTyped, LogTyped', FollowerInv, WriterStep
  PROVE  FollowerInv'
<1>1. PICK f \in Nat : FileStep(f) /\ PathStep(f) /\ tail' = tail /\ TailNoted(f)
  BY DEF WriterStep
<1>2. tail \in TailStates /\ Len(files) \in Nat /\ Len(files') \in Nat /\ recs \in Nat /\ recs' \in {recs, recs + 1}
  BY <1>1 DEF FollowerInv, TailTyped, LogTyped, FilesTyped, FileStep
<1>3. tail.pos \in Nat /\ tail.out \in Seq(Nat) /\ tail.fd \in Nat /\ \A j \in 1 .. Len(tail.out) : tail.out[j] <= recs
  BY <1>2 DEF TailStates, FollowerInv, Printed
<1>4. Len(files') >= Len(files) /\ path \in {0, Len(files)} /\ path' \in {0, Len(files')}
  BY <1>1, <1>2 DEF PathStep, LogTyped, FilesTyped
<1>5. InOrder(files', recs')
  BY <1>1, InOrderStep DEF FollowerInv
<1>6. TailTyped'
  BY <1>1, <1>2, <1>3, <1>4 DEF TailTyped, FollowerInv
<1>7. Printed(tail'.out, recs')
  <2>1. \A j \in 1 .. Len(tail.out) : tail.out[j] \in Nat /\ tail.out[j] <= recs'
    BY <1>2, <1>3, SMTT(30)
  <2> QED BY <1>1, <2>1 DEF Printed, FollowerInv
<1>8. ReadsNew'
  <2>1. ASSUME tail.pc \in {"stat", "read", "reopen"} PROVE Resumes(files', tail.out, tail.fd, tail.pos)
    <3>1. tail.fd \in 1 .. Len(files) /\ Resumes(files, tail.out, tail.fd, tail.pos)
      BY <1>2, <1>3, <2>1 DEF FollowerInv, TailTyped, ReadsNew
    <3>2. tail.fd \in 1 .. Len(files')
      BY <1>2, <1>4, <3>1
    <3> QED BY <1>1, <1>3, <3>1, <3>2, ResumesStep
  <2>2. ASSUME tail.pc = "open", path' # 0 PROVE Resumes(files', tail.out, path', tail.pos)
    <3>1. path' \in 1 .. Len(files')
      BY <1>2, <1>4, <2>2
    <3>2. path' \in 1 .. Len(files) => path' = path
      BY <1>1, <1>2, <1>4, <2>2 DEF PathStep
    <3>3. path' \in 1 .. Len(files) => Resumes(files, tail.out, path', tail.pos)
      BY <2>2, <3>2 DEF FollowerInv, ReadsNew
    <3> QED BY <1>1, <1>3, <3>1, <3>3, ResumesStep
  <2> QED BY <1>1, <2>1, <2>2 DEF ReadsNew
<1>9. OpensNew'
  <2>1. ASSUME (tail.pc \in {"stat", "read"} /\ path' \notin {0, tail.fd}) \/ (tail.pc = "reopen" /\ path' # 0)
        PROVE  Unprinted(files', tail.out, path', 0)
    <3>1. path' \in 1 .. Len(files')
      BY <1>2, <1>4, <2>1
    <3>2. path' \in 1 .. Len(files) => path' = path
      BY <1>1, <1>2, <1>4, <2>1 DEF PathStep
    <3>3. path' \in 1 .. Len(files) => Unprinted(files, tail.out, path', 0)
      BY <2>1, <3>2 DEF FollowerInv, OpensNew
    <3> QED BY <1>1, <1>3, <3>1, <3>3, UnprintedStep
  <2> QED BY <1>1, <2>1 DEF OpensNew
<1>10. ASSUME ~gap', tail.pc # "off" PROVE Unbroken(files', path', tail)
  <2>1. Unbroken(files, path, tail) /\ Appends(f) /\ (path # 0 => path' = path)
    BY <1>1, <1>10 DEF FollowerInv, TailNoted
  <2> QED BY <1>1, <1>2, <2>1, UnbrokenStep
<1> QED BY <1>1, <1>5, <1>6, <1>7, <1>8, <1>9, <1>10 DEF FollowerInv

\* A reader that goes to another program point.
LEMMA FollowParts ==
  ASSUME LogTyped, FollowerInv
  PROVE  /\ Stored(files) /\ Len(files) \in Nat \ {0} /\ path \in {0, Len(files)} /\ recs \in Nat
         /\ tail \in TailStates /\ tail.fd \in 0 .. Len(files) /\ tail.pos \in Nat /\ tail.from \in Nat
         /\ tail.out \in Seq(Nat) /\ tail.pc \in {"off", "open", "stat", "read", "reopen"}
  BY DEF LogTyped, FilesTyped, FollowerInv, TailTyped, TailStates

LEMMA ReadTailFollows ==
  ASSUME LogTyped, FollowerInv, ReadTail
  PROVE  FollowerInv'
<1>1. /\ files' = files /\ path' = path /\ recs' = recs /\ path # 0 /\ tail.pc = "off"
      /\ tail' = [NoTail EXCEPT !.pc = "open", !.pos = SizeOf(path), !.from = SizeOf(path) - Len(Ending(files[path], 1)),
                                !.out = Ending(files[path], 1)]
  BY DEF ReadTail, Writers
<1>2. path \in 1 .. Len(files) /\ files[path] \in Seq(Nat) /\ recs \in Nat /\ Len(files) \in Nat
  BY <1>1, FollowParts DEF Stored
<1>3. PICK s : s = files[path]
  OBVIOUS
<1>4. PICK o : o = Ending(s, 1)
  OBVIOUS
<1>5. PICK n : n = Len(s)
  OBVIOUS
<1>6. n \in Nat /\ s \in Seq(Nat) /\ SizeOf(path) = n
  BY <1>1, <1>2, <1>3, <1>5 DEF SizeOf
<1>7. PICK k : k = IF n > 1 THEN n - 1 ELSE 0
  OBVIOUS
<1>8. k \in Nat /\ k + 1 \in Nat \ {0} /\ o = SubSeq(s, k + 1, n) /\ k <= n /\ n - k <= 1
  BY <1>4, <1>5, <1>6, <1>7 DEF Ending
<1>9. /\ o \in Seq(Nat) /\ Len(o) = n - k
      /\ \A i \in 1 .. Len(o) : k + i \in 1 .. n /\ o[i] = s[k + i]
  <2>1. /\ SubSeq(s, k + 1, n) \in Seq(Nat)
        /\ Len(SubSeq(s, k + 1, n)) = IF k + 1 <= n THEN n - (k + 1) + 1 ELSE 0
        /\ \A i \in 1 .. Len(SubSeq(s, k + 1, n)) : k + 1 - 1 + i \in 1 .. n /\ SubSeq(s, k + 1, n)[i] = s[k + 1 - 1 + i]
    BY <1>5, <1>6, <1>8, PartIs
  <2>2. Len(o) = n - k /\ o \in Seq(Nat)
    BY <1>6, <1>8, <2>1
  <2>3. \A i \in Nat : k + 1 - 1 + i = k + i
    BY <1>8
  <2>4. \A i \in 1 .. Len(o) : k + i \in 1 .. n /\ o[i] = s[k + i]
    BY <1>8, <2>1, <2>3
  <2> QED BY <2>2, <2>4
<1>10. tail' = [pc |-> "open", fd |-> 0, pos |-> n, from |-> k, out |-> o]
  <2>1. n - Len(o) = k
    BY <1>6, <1>8, <1>9
  <2> QED BY <1>1, <1>3, <1>4, <1>6, <2>1 DEF NoTail
<1>11. tail'.pc = "open" /\ tail'.fd = 0 /\ tail'.pos = n /\ tail'.from = k /\ tail'.out = o /\ tail' \in TailStates
  BY <1>6, <1>8, <1>9, <1>10 DEF TailStates
<1>12. Printed(o, recs)
  <2>1. \A i \in 1 .. Len(o) : o[i] <= recs
    BY <1>2, <1>3, <1>5, <1>9, SMTT(30) DEF FollowerInv, InOrder
  <2>2. \A i, j \in 1 .. Len(o) : i = j
    BY <1>6, <1>8, <1>9
  <2> QED BY <2>1, <2>2 DEF Printed
<1>13. Resumes(files, o, path, n)
  BY <1>3, <1>5, <1>6 DEF Resumes, Unprinted
<1>14. Unbroken(files, path, tail')
  <2>1. tail'.from <= tail'.pos /\ tail'.pos <= Len(files[path])
    BY <1>3, <1>5, <1>6, <1>8, <1>11
  <2>2. tail'.out = SubSeq(files[path], tail'.from + 1, tail'.pos)
    BY <1>3, <1>8, <1>11, Zenon
  <2>3. tail'.pc = "open" /\ path # 0
    BY <1>1, <1>11
  <2> QED BY <2>1, <2>2, <2>3, Zenon DEF Unbroken
<1>15. TailTyped' /\ Printed(tail'.out, recs') /\ ReadsNew' /\ OpensNew' /\ InOrder(files', recs')
  BY <1>1, <1>2, <1>11, <1>12, <1>13 DEF TailTyped, ReadsNew, OpensNew, FollowerInv
<1> QED BY <1>1, <1>14, <1>15 DEF FollowerInv

\* A step that prints nothing.
LEMMA PrintsNothing ==
  ASSUME LogTyped, FollowerInv, UNCHANGED Writers, gap' = gap, tail' \in TailStates, tail'.out = tail.out, tail'.fd \in 0 .. Len(files),
         tail'.pc \notin {"off", "open"} => tail'.fd # 0,
         ReadsNew', OpensNew', ~gap /\ tail'.pc # "off" => Unbroken(files, path, tail')
  PROVE  FollowerInv'
<1>1. files' = files /\ path' = path /\ recs' = recs /\ Len(files) \in Nat
  BY FollowParts DEF Writers
<1>2. TailTyped'
  BY <1>1 DEF TailTyped
<1> QED BY <1>1, <1>2 DEF FollowerInv

LEMMA OpenAtFollows ==
  ASSUME LogTyped, FollowerInv, OpenAt
  PROVE  FollowerInv'
<1>1. /\ tail.pc = "open" /\ UNCHANGED Writers /\ gap' = gap /\ files' = files /\ path' = path /\ recs' = recs
      /\ tail' = IF path = 0 THEN NoTail
                 ELSE [tail EXCEPT !.pc = "stat", !.fd = path, !.pos = IF @ > SizeOf(path) THEN SizeOf(path) ELSE @]
  BY DEF OpenAt, FollowStep, Writers
<1>2. CASE path = 0
  <2>1. tail' = NoTail
    BY <1>1, <1>2
  <2>2. tail' \in TailStates /\ tail'.pc = "off" /\ tail'.fd = 0 /\ tail'.out = <<>>
    BY <2>1 DEF NoTail, TailStates
  <2>3. TailTyped' /\ Printed(tail'.out, recs') /\ ReadsNew' /\ OpensNew'
    BY <1>1, <2>2, FollowParts DEF TailTyped, Printed, ReadsNew, OpensNew
  <2> QED BY <1>1, <2>2, <2>3 DEF FollowerInv
<1>3. CASE path # 0
  <2>1. PICK n : n = Len(files[path])
    OBVIOUS
  <2>2. n \in Nat /\ SizeOf(path) = n /\ path \in 1 .. Len(files)
    BY <1>3, <2>1, FollowParts DEF Stored, SizeOf
  <2>3. PICK k : k = IF tail.pos > n THEN n ELSE tail.pos
    OBVIOUS
  <2>4. tail' = [tail EXCEPT !.pc = "stat", !.fd = path, !.pos = k]
    BY <1>1, <1>3, <2>2, <2>3
  <2>5. k \in Nat /\ path \in Nat /\ tail \in TailStates /\ tail.pos \in Nat /\ Len(files) \in Nat
    BY <2>2, <2>3, FollowParts
  <2>6. /\ tail' \in TailStates /\ tail'.pc = "stat" /\ tail'.fd = path /\ tail'.pos = k /\ tail'.out = tail.out
        /\ tail'.from = tail.from
    BY <2>4, <2>5 DEF TailStates
  <2>7. Resumes(files, tail.out, path, tail.pos)
    BY <1>1, <1>3 DEF FollowerInv, ReadsNew
  <2>8. Resumes(files, tail.out, path, k)
    <3>1. CASE tail.pos > n
      BY <2>1, <2>2, <2>3, <2>5, <2>7, <3>1 DEF Resumes, Unprinted
    <3>2. CASE ~(tail.pos > n)
      BY <2>3, <2>7, <3>2
    <3> QED BY <3>1, <3>2
  <2>9. ReadsNew' /\ OpensNew'
    BY <1>1, <2>6, <2>8 DEF ReadsNew, OpensNew
  <2>10. ASSUME ~gap PROVE Unbroken(files, path, tail')
    <3>1. Unbroken(files, path, tail)
      BY <1>1, <2>10 DEF FollowerInv
    <3>2. k = tail.pos
      BY <2>1, <2>2, <2>3, <2>5, <3>1 DEF Unbroken
    <3> QED BY <2>6, <3>1, <3>2 DEF Unbroken
  <2> QED BY <1>1, <2>2, <2>6, <2>9, <2>10, PrintsNothing
<1> QED BY <1>2, <1>3

LEMMA TailStatFollows ==
  ASSUME LogTyped, FollowerInv, TailStat
  PROVE  FollowerInv'
<1>1. /\ tail.pc = "stat" /\ UNCHANGED Writers /\ gap' = gap /\ files' = files /\ path' = path /\ recs' = recs
      /\ tail' = [tail EXCEPT !.pc = IF path # tail.fd \/ SizeOf(path) < tail.pos THEN "reopen" ELSE "read"]
  BY DEF TailStat, FollowStep, Writers
<1>2. PICK pc : pc = IF path # tail.fd \/ SizeOf(path) < tail.pos THEN "reopen" ELSE "read"
  OBVIOUS
<1>3. /\ tail' \in TailStates /\ tail'.pc = pc /\ tail'.fd = tail.fd /\ tail'.pos = tail.pos /\ tail'.out = tail.out
      /\ tail'.from = tail.from /\ pc \in {"read", "reopen"}
  BY <1>1, <1>2, FollowParts DEF TailStates
<1>4. Resumes(files, tail.out, tail.fd, tail.pos) /\ tail.fd # 0
  BY <1>1 DEF FollowerInv, ReadsNew, TailTyped
<1>5. ReadsNew'
  BY <1>1, <1>3, <1>4 DEF ReadsNew
<1>6. OpensNew'
  <2>1. CASE path \notin {0, tail.fd}
    <3>1. Unprinted(files, tail.out, path, 0)
      BY <1>1, <2>1 DEF FollowerInv, OpensNew
    <3> QED BY <1>1, <1>3, <3>1 DEF OpensNew
  <2>2. CASE path = 0
    BY <1>1, <1>3, <2>2 DEF OpensNew
  <2>3. CASE path = tail.fd
    <3>1. SizeOf(path) = Len(files[path])
      BY <1>4, <2>3 DEF SizeOf
    <3>2. pc = "reopen" => Unprinted(files, tail.out, path, 0)
      BY <1>2, <1>4, <2>3, <3>1 DEF Resumes
    <3> QED BY <1>1, <1>3, <2>3, <3>2 DEF OpensNew
  <2> QED BY <2>1, <2>2, <2>3
<1>7. ASSUME ~gap PROVE Unbroken(files, path, tail')
  <2>1. Unbroken(files, path, tail)
    BY <1>1, <1>7 DEF FollowerInv
  <2>2. path = tail.fd /\ path # 0 /\ tail.pos <= Len(files[path])
    BY <1>1, <2>1 DEF Unbroken
  <2>3. SizeOf(path) = Len(files[path]) /\ Len(files[path]) \in Nat
    BY <2>2, FollowParts DEF SizeOf, Stored
  <2>4. pc = "read"
    BY <1>2, <2>2, <2>3, FollowParts
  <2> QED BY <1>3, <2>1, <2>2, <2>4 DEF Unbroken
<1> QED BY <1>1, <1>3, <1>4, <1>5, <1>6, <1>7, FollowParts, PrintsNothing

LEMMA TailReopenFollows ==
  ASSUME LogTyped, FollowerInv, TailReopen
  PROVE  FollowerInv'
<1>1. /\ tail.pc = "reopen" /\ UNCHANGED Writers /\ gap' = gap /\ files' = files /\ path' = path /\ recs' = recs
      /\ tail' = IF path = 0 THEN [tail EXCEPT !.pc = "stat"] ELSE [tail EXCEPT !.pc = "read", !.fd = path, !.pos = 0]
  BY DEF TailReopen, FollowStep, Writers
<1>2. gap
  BY <1>1 DEF FollowerInv, Unbroken
<1>3. CASE path = 0
  <2>1. tail' = [tail EXCEPT !.pc = "stat"]
    BY <1>1, <1>3
  <2>2. /\ tail' \in TailStates /\ tail'.pc = "stat" /\ tail'.fd = tail.fd /\ tail'.pos = tail.pos /\ tail'.out = tail.out
    BY <2>1, FollowParts DEF TailStates
  <2>3. Resumes(files, tail.out, tail.fd, tail.pos) /\ tail.fd # 0
    BY <1>1 DEF FollowerInv, ReadsNew, TailTyped
  <2>4. ReadsNew' /\ OpensNew'
    BY <1>1, <1>3, <2>2, <2>3 DEF ReadsNew, OpensNew
  <2> QED BY <1>1, <1>2, <2>2, <2>3, <2>4, FollowParts, PrintsNothing
<1>4. CASE path # 0
  <2>1. tail' = [tail EXCEPT !.pc = "read", !.fd = path, !.pos = 0]
    BY <1>1, <1>4
  <2>2. path \in 0 .. Len(files) /\ path \in Nat
    BY FollowParts
  <2>3. /\ tail' \in TailStates /\ tail'.pc = "read" /\ tail'.fd = path /\ tail'.pos = 0 /\ tail'.out = tail.out
    BY <2>1, <2>2, FollowParts DEF TailStates
  <2>4. Unprinted(files, tail.out, path, 0)
    BY <1>1, <1>4 DEF FollowerInv, OpensNew
  <2>5. ReadsNew' /\ OpensNew'
    BY <1>1, <2>3, <2>4 DEF ReadsNew, OpensNew, Resumes
  <2> QED BY <1>1, <1>2, <1>4, <2>2, <2>3, <2>5, PrintsNothing
<1> QED BY <1>3, <1>4

LEMMA JoinIs ==
  ASSUME NEW s \in Seq(Nat), NEW t \in Seq(Nat)
  PROVE  /\ s \o t \in Seq(Nat) /\ Len(s \o t) = Len(s) + Len(t)
         /\ \A i \in 1 .. Len(s) : (s \o t)[i] = s[i]
         /\ \A i \in 1 .. Len(t) : (s \o t)[Len(s) + i] = t[i]
  OBVIOUS

LEMMA JoinNone ==
  ASSUME NEW s \in Seq(Nat)
  PROVE  s \o <<>> = s
<1>1. <<>> \in Seq(Nat) /\ Len(<<>>) = 0
  OBVIOUS
<1>2. PICK o : o = s \o <<>>
  OBVIOUS
<1>3. o \in Seq(Nat) /\ Len(o) = Len(s) /\ \A i \in 1 .. Len(s) : o[i] = s[i]
  BY <1>1, <1>2, JoinIs
<1> QED BY <1>2, <1>3, SameSeq

LEMMA NoPart ==
  ASSUME NEW s \in Seq(Nat), NEW m \in Nat, NEW n \in Nat, n < m
  PROVE  SubSeq(s, m, n) = <<>>
  OBVIOUS

LEMMA JoinAt ==
  ASSUME NEW s \in Seq(Nat), NEW t \in Seq(Nat), NEW i \in 1 .. Len(s) + Len(t)
  PROVE  i \in 1 .. Len(s) \/ \E j \in 1 .. Len(t) : i = Len(s) + j
<1>1. CASE i \notin 1 .. Len(s)
  <2>1. i - Len(s) \in 1 .. Len(t) /\ i = Len(s) + (i - Len(s))
    BY <1>1
  <2> QED BY <2>1
<1> QED BY <1>1

\* x is the part of s after its first k records, up to the n-th.
IsPart(x, s, k, n) == x \in Seq(Nat) /\ Len(x) = n - k /\ \A i \in 1 .. Len(x) : k + i \in 1 .. n /\ x[i] = s[k + i]

LEMMA PartAfter ==
  ASSUME NEW s \in Seq(Nat), NEW k \in Nat, NEW n \in Nat, n <= Len(s), k <= n
  PROVE  IsPart(SubSeq(s, k + 1, n), s, k, n)
<1>1. PICK m : m = k + 1
  OBVIOUS
<1>2. m \in Nat \ {0} /\ m - 1 = k
  BY <1>1
<1>3. /\ SubSeq(s, m, n) \in Seq(Nat)
      /\ Len(SubSeq(s, m, n)) = IF m <= n THEN n - m + 1 ELSE 0
      /\ \A i \in 1 .. Len(SubSeq(s, m, n)) : m - 1 + i \in 1 .. n /\ SubSeq(s, m, n)[i] = s[m - 1 + i]
  BY <1>2, PartIs
<1>4. PICK x : x = SubSeq(s, m, n)
  OBVIOUS
<1>5. Len(x) = n - k
  BY <1>1, <1>3, <1>4
<1>6. x \in Seq(Nat) /\ \A i \in 1 .. Len(x) : k + i \in 1 .. n /\ x[i] = s[k + i]
  BY <1>2, <1>3, <1>4
<1>7. IsPart(x, s, k, n)
  BY <1>5, <1>6 DEF IsPart
<1> QED BY <1>1, <1>4, <1>7

\* Two parts of one sequence that meet.
LEMMA PartsJoin ==
  ASSUME NEW s \in Seq(Nat), NEW m \in Nat, NEW k \in Nat, NEW n \in Nat, m <= k, k <= n,
         NEW x, IsPart(x, s, m, k), NEW y, IsPart(y, s, k, n)
  PROVE  IsPart(x \o y, s, m, n)
<1>1. /\ x \in Seq(Nat) /\ Len(x) = k - m /\ \A i \in 1 .. Len(x) : m + i \in 1 .. k /\ x[i] = s[m + i]
      /\ y \in Seq(Nat) /\ Len(y) = n - k /\ \A i \in 1 .. Len(y) : k + i \in 1 .. n /\ y[i] = s[k + i]
  BY DEF IsPart
<1>2. /\ x \o y \in Seq(Nat) /\ Len(x \o y) = Len(x) + Len(y)
      /\ \A i \in 1 .. Len(x) : (x \o y)[i] = x[i]
      /\ \A i \in 1 .. Len(y) : (x \o y)[Len(x) + i] = y[i]
  BY <1>1, JoinIs
<1>3. Len(x \o y) = n - m
  BY <1>1, <1>2
<1>4. ASSUME NEW i \in 1 .. Len(x \o y) PROVE m + i \in 1 .. n /\ (x \o y)[i] = s[m + i]
  <2>1. i \in 1 .. Len(x) \/ \E j \in 1 .. Len(y) : i = Len(x) + j
    BY <1>1, <1>2, JoinAt
  <2>2. CASE i \in 1 .. Len(x)
    BY <1>1, <1>2, <2>2
  <2>3. ASSUME NEW j \in 1 .. Len(y), i = Len(x) + j PROVE m + i \in 1 .. n /\ (x \o y)[i] = s[m + i]
    <3>1. k + j = m + i
      BY <1>1, <2>3
    <3> QED BY <1>1, <1>2, <2>3, <3>1
  <2> QED BY <2>1, <2>2, <2>3
<1> QED BY <1>2, <1>3, <1>4 DEF IsPart

LEMMA SamePart ==
  ASSUME NEW s, NEW k, NEW n, NEW x, IsPart(x, s, k, n), NEW y, IsPart(y, s, k, n)
  PROVE  x = y
<1>1. x \in Seq(Nat) /\ y \in Seq(Nat) /\ Len(x) = Len(y) /\ \A i \in 1 .. Len(x) : x[i] = y[i]
  BY Zenon DEF IsPart
<1> QED BY <1>1, SameSeq

\* Reading on when none of the records after k was printed.
LEMMA PrintedOn ==
  ASSUME NEW s, NEW k \in Nat, NEW n \in Nat, NEW t, IsPart(t, s, k, n),
         NEW out \in Seq(Nat), NEW r \in Nat, Printed(out, r),
         \A i \in 1 .. n : s[i] <= r,
         \A i, j \in 1 .. n : i < j => s[i] < s[j],
         \A i \in 1 .. n : i > k => \A j \in 1 .. Len(out) : s[i] # out[j]
  PROVE  Printed(out \o t, r)
<1>1. t \in Seq(Nat) /\ \A i \in 1 .. Len(t) : k + i \in 1 .. n /\ t[i] = s[k + i]
  BY DEF IsPart
<1>2. PICK o : o = out \o t
  OBVIOUS
<1>3. /\ out \o t \in Seq(Nat) /\ Len(out \o t) = Len(out) + Len(t)
      /\ \A i \in 1 .. Len(out) : (out \o t)[i] = out[i]
      /\ \A i \in 1 .. Len(t) : (out \o t)[Len(out) + i] = t[i]
  BY <1>1, JoinIs
<1>4. \A i \in 1 .. Len(o) : (i \in 1 .. Len(out) /\ o[i] = out[i]) \/ \E j \in 1 .. Len(t) : i = Len(out) + j /\ o[i] = t[j]
  <2> TAKE i \in 1 .. Len(o)
  <2>1. i \in 1 .. Len(out) \/ \E j \in 1 .. Len(t) : i = Len(out) + j
    BY <1>1, <1>2, <1>3, JoinAt
  <2> QED BY <1>2, <1>3, <2>1
<1>5. \A i \in 1 .. Len(t) : t[i] <= r /\ \A j \in 1 .. Len(out) : t[i] # out[j]
  <2> TAKE i \in 1 .. Len(t)
  <2>1. k + i \in 1 .. n /\ t[i] = s[k + i] /\ k + i > k
    BY <1>1
  <2> QED BY <2>1
<1>6. \A i, j \in 1 .. Len(t) : i # j => t[i] # t[j]
  <2>1. ASSUME NEW i \in 1 .. Len(t), NEW j \in 1 .. Len(t), i < j PROVE t[i] # t[j]
    <3>1. k + i \in 1 .. n /\ t[i] = s[k + i] /\ k + j \in 1 .. n /\ t[j] = s[k + j] /\ k + i < k + j
      BY <1>1, <2>1
    <3>2. t[i] < t[j] /\ t[i] \in Nat /\ t[j] \in Nat
      BY <1>1, <3>1, SMTT(30)
    <3> QED BY <3>2
  <2> TAKE i, j \in 1 .. Len(t)
  <2> HAVE i # j
  <2>2. i < j \/ j < i
    OBVIOUS
  <2> QED BY <2>1, <2>2
<1>7. \A i \in 1 .. Len(o) : o[i] <= r
  BY <1>4, <1>5 DEF Printed
<1>8. \A i, j \in 1 .. Len(o) : i # j => o[i] # o[j]
  <2> TAKE i, j \in 1 .. Len(o)
  <2> HAVE i # j
  <2>1. \A g, h \in 1 .. Len(out) : g # h => out[g] # out[h]
    BY DEF Printed
  <2>2. CASE i \in 1 .. Len(out) /\ o[i] = out[i]
    <3>1. CASE j \in 1 .. Len(out) /\ o[j] = out[j]
      BY <2>1, <2>2, <3>1
    <3>2. ASSUME NEW h \in 1 .. Len(t), o[j] = t[h] PROVE o[i] # o[j]
      BY <1>5, <2>2, <3>2
    <3> QED BY <1>4, <3>1, <3>2
  <2>3. ASSUME NEW g \in 1 .. Len(t), i = Len(out) + g, o[i] = t[g] PROVE o[i] # o[j]
    <3>1. CASE j \in 1 .. Len(out) /\ o[j] = out[j]
      BY <1>5, <2>3, <3>1
    <3>2. ASSUME NEW h \in 1 .. Len(t), j = Len(out) + h, o[j] = t[h] PROVE o[i] # o[j]
      BY <1>6, <2>3, <3>2
    <3> QED BY <1>4, <3>1, <3>2
  <2> QED BY <1>4, <2>2, <2>3
<1> QED BY <1>2, <1>7, <1>8 DEF Printed

LEMMA TailReadFollows ==
  ASSUME LogTyped, FollowerInv, TailRead
  PROVE  FollowerInv'
<1>1. /\ tail.pc = "read" /\ UNCHANGED Writers /\ gap' = gap /\ files' = files /\ path' = path /\ recs' = recs
      /\ tail' = [tail EXCEPT !.pc = "stat", !.out = @ \o SubSeq(files[tail.fd], tail.pos + 1, SizeOf(tail.fd)),
                              !.pos = IF SizeOf(tail.fd) > @ THEN SizeOf(tail.fd) ELSE @]
  BY DEF TailRead, FollowStep, Writers
<1>2. PICK f, s, n, k, out : f = tail.fd /\ s = files[f] /\ n = Len(s) /\ k = tail.pos /\ out = tail.out
  OBVIOUS
<1>3. f \in 1 .. Len(files) /\ f # 0 /\ s \in Seq(Nat) /\ n \in Nat /\ k \in Nat /\ out \in Seq(Nat) /\ SizeOf(f) = n
  <2>1. f \in 1 .. Len(files) /\ f # 0
    BY <1>1, <1>2, FollowParts DEF FollowerInv, TailTyped
  <2> QED BY <1>2, <2>1, FollowParts DEF Stored, SizeOf
<1>4. PICK t, o, m : t = SubSeq(s, k + 1, n) /\ o = out \o t /\ m = IF n > k THEN n ELSE k
  OBVIOUS
<1>5. (t = <<>> /\ n < k) \/ (k <= n /\ IsPart(t, s, k, n))
  <2>1. CASE k <= n
    <3>1. IsPart(SubSeq(s, k + 1, n), s, k, n)
      BY <1>2, <1>3, <2>1, PartAfter
    <3> QED BY <1>4, <2>1, <3>1, Zenon
  <2>2. CASE n < k
    <3>1. n < k + 1 /\ k + 1 \in Nat
      BY <1>3, <2>2
    <3>2. SubSeq(s, k + 1, n) = <<>>
      BY <1>3, <3>1, NoPart
    <3>3. t = <<>>
      BY <1>4, <3>2, Zenon
    <3> QED BY <2>2, <3>3
  <2> QED BY <1>3, <2>1, <2>2
<1>6. t \in Seq(Nat) /\ o \in Seq(Nat) /\ Len(o) = Len(out) + Len(t) /\ (t = <<>> => o = out)
  <2>1. t \in Seq(Nat)
    <3>1. <<>> \in Seq(Nat)
      OBVIOUS
    <3> QED BY <1>5, <3>1 DEF IsPart
  <2>2. out \o t \in Seq(Nat) /\ Len(out \o t) = Len(out) + Len(t)
    BY <1>3, <2>1, JoinIs
  <2>3. out \o <<>> = out
    BY <1>3, JoinNone
  <2> QED BY <1>4, <2>1, <2>2, <2>3
<1>7. tail' = [tail EXCEPT !.pc = "stat", !.out = o, !.pos = m]
  BY <1>1, <1>2, <1>3, <1>4
<1>8. m \in Nat /\ m >= n /\ m >= k
  BY <1>3, <1>4
<1>9. /\ tail' \in TailStates /\ tail'.pc = "stat" /\ tail'.fd = f /\ tail'.pos = m /\ tail'.out = o
      /\ tail'.from = tail.from
  BY <1>2, <1>6, <1>7, <1>8, FollowParts DEF TailStates
<1>10. Resumes(files, out, f, k)
  BY <1>1, <1>2 DEF FollowerInv, ReadsNew
<1>11. \A i \in 1 .. n : i > k => \A j \in 1 .. Len(out) : s[i] # out[j]
  BY <1>2, <1>10 DEF Resumes, Unprinted
<1>12. /\ \A i \in 1 .. n : s[i] <= recs
       /\ \A i, j \in 1 .. n : i < j => s[i] < s[j]
  BY <1>2, <1>3, SMTT(30) DEF FollowerInv, InOrder
<1>13. Printed(o, recs)
  <2>1. Printed(out, recs) /\ recs \in Nat
    BY <1>2, FollowParts DEF FollowerInv
  <2>2. CASE t = <<>>
    BY <1>6, <2>1, <2>2
  <2>3. CASE IsPart(t, s, k, n)
    <3>1. Printed(out \o t, recs)
      BY <1>3, <1>11, <1>12, <2>1, <2>3, PrintedOn, SMTT(30)
    <3> QED BY <1>4, <3>1
  <2> QED BY <1>5, <2>2, <2>3
<1>14. Resumes(files, o, f, m)
  <2>1. Unprinted(files, o, f, m)
    BY <1>2, <1>3, <1>8 DEF Unprinted
  <2>2. ASSUME Len(files[f]) < m PROVE Unprinted(files, o, f, 0)
    <3>1. n < k
      BY <1>2, <1>3, <1>4, <2>2
    <3>3. o = out
      BY <1>3, <1>5, <1>6, <3>1
    <3> QED BY <1>2, <1>10, <3>1, <3>3 DEF Resumes
  <2> QED BY <2>1, <2>2 DEF Resumes
<1>15. ASSUME path \notin {0, f} PROVE Unprinted(files, o, path, 0)
  <2>1. path \in 1 .. Len(files) /\ path # f
    BY <1>15, FollowParts
  <2>2. Unprinted(files, out, path, 0)
    BY <1>1, <1>2, <1>15 DEF FollowerInv, OpensNew
  <2>3. \A i \in 1 .. Len(files[path]), j \in 1 .. n : files[path][i] # s[j]
    BY <1>2, <1>3, <2>1 DEF FollowerInv, InOrder
  <2>4. CASE t = <<>>
    BY <1>6, <2>2, <2>4
  <2>5. CASE IsPart(t, s, k, n)
    <3>1. ASSUME NEW j \in 1 .. Len(o) PROVE (\E h \in 1 .. Len(out) : o[j] = out[h]) \/ (\E h \in 1 .. n : o[j] = s[h])
      <4>1. j \in 1 .. Len(out) \/ \E h \in 1 .. Len(t) : j = Len(out) + h
        BY <1>3, <1>6, JoinAt
      <4>2. CASE j \in 1 .. Len(out)
        <5>1. o[j] = out[j]
          BY <1>3, <1>4, <1>6, <4>2, JoinIs
        <5> QED BY <4>2, <5>1
      <4>3. ASSUME NEW h \in 1 .. Len(t), j = Len(out) + h PROVE \E i \in 1 .. n : o[j] = s[i]
        <5>1. o[j] = t[h]
          BY <1>3, <1>4, <1>6, <4>3, JoinIs
        <5>2. k + h \in 1 .. n /\ t[h] = s[k + h]
          BY <2>5 DEF IsPart
        <5> QED BY <5>1, <5>2
      <4> QED BY <4>1, <4>2, <4>3
    <3>2. \A i \in 1 .. Len(files[path]) : \A j \in 1 .. Len(out) : files[path][i] # out[j]
      BY <2>2 DEF Unprinted
    <3>3. \A i \in 1 .. Len(files[path]) : \A j \in 1 .. Len(o) : files[path][i] # o[j]
      BY <2>3, <3>1, <3>2
    <3> QED BY <3>3 DEF Unprinted
  <2> QED BY <1>5, <2>4, <2>5
<1>16. ReadsNew' /\ OpensNew'
  BY <1>1, <1>9, <1>14, <1>15 DEF ReadsNew, OpensNew
<1>17. ASSUME ~gap PROVE Unbroken(files, path, tail')
  <2>1. Unbroken(files, path, tail)
    BY <1>1, <1>17 DEF FollowerInv
  <2>2. path # 0 /\ f = path /\ tail.from <= k /\ k <= n /\ out = SubSeq(s, tail.from + 1, k)
    BY <1>1, <1>2, <2>1 DEF Unbroken
  <2>3. tail.from \in Nat
    BY FollowParts
  <2>4. m = n
    BY <1>3, <1>4, <2>2
  <2>5. o = SubSeq(s, tail.from + 1, n)
    <3>1. tail.from <= n /\ IsPart(SubSeq(s, tail.from + 1, k), s, tail.from, k)
      BY <1>2, <1>3, <2>2, <2>3, PartAfter
    <3>2. IsPart(t, s, k, n)
      BY <1>3, <1>5, <2>2
    <3>3. IsPart(out \o t, s, tail.from, n)
      BY <1>3, <2>2, <2>3, <3>1, <3>2, PartsJoin
    <3>4. IsPart(SubSeq(s, tail.from + 1, n), s, tail.from, n)
      BY <1>2, <1>3, <2>3, <3>1, PartAfter
    <3> QED BY <1>4, <3>3, <3>4, SamePart
  <2>6. tail'.from <= tail'.pos /\ tail'.pos <= Len(files[path])
    <3>1. Len(files[path]) = n /\ tail.from <= n
      BY <1>2, <1>3, <2>2, <2>3
    <3> QED BY <1>3, <1>9, <2>4, <3>1
  <2>7. tail'.out = SubSeq(files[path], tail'.from + 1, tail'.pos)
    BY <1>2, <1>9, <2>2, <2>4, <2>5, Zenon
  <2>8. tail'.pc = "stat" /\ path # 0 /\ tail'.fd = path
    BY <1>9, <2>2
  <2> QED BY <2>6, <2>7, <2>8 DEF Unbroken
<1>18. tail'.fd \in 0 .. Len(files) /\ tail'.fd # 0
  BY <1>3, <1>9
<1>19. TailTyped'
  <2>1. Len(files) \in Nat /\ files' = files
    BY <1>1, FollowParts
  <2> QED BY <1>9, <1>18, <2>1 DEF TailTyped
<1> QED BY <1>1, <1>9, <1>13, <1>16, <1>17, <1>19 DEF FollowerInv

LEMMA FollowInit ==
  ASSUME LogInit
  PROVE  FollowerInv
<1>1. files = <<<<>>>> /\ path = 1 /\ recs = 0 /\ tail = NoTail
  BY DEF LogInit
<1>2. Len(files) = 1 /\ files[1] = <<>>
  BY <1>1
<1>3. tail.pc = "off" /\ tail.fd = 0 /\ tail.out = <<>> /\ tail \in TailStates
  BY <1>1 DEF NoTail, TailStates
<1>4. InOrder(files, recs)
  BY <1>2 DEF InOrder
<1>5. TailTyped /\ Printed(tail.out, recs) /\ ReadsNew /\ OpensNew
  BY <1>2, <1>3 DEF TailTyped, Printed, ReadsNew, OpensNew
<1> QED BY <1>3, <1>4, <1>5 DEF FollowerInv

LEMMA FollowNext ==
  ASSUME LogTyped, FollowerInv, [LogNext]_logVars
  PROVE  FollowerInv'
<1>1. CASE WriterNext
  BY <1>1, WriterNextTyped, FollowWriterStep
<1>2. CASE TailNext
  BY <1>2, ReadTailFollows, OpenAtFollows, TailStatFollows, TailReopenFollows, TailReadFollows DEF TailNext
<1>3. ASSUME UNCHANGED Writers, tail' = tail, gap' = gap
      PROVE  FollowerInv'
  BY <1>3 DEF Writers, FollowerInv, TailTyped, ReadsNew, OpensNew
<1>4. CASE TabNext
  BY <1>3, <1>4, TabNextKeeps
<1>5. CASE UNCHANGED logVars
  BY <1>3, <1>5, LogStutters
<1> QED BY <1>1, <1>2, <1>4, <1>5, LogNextIs

\* logs --follow prints no record twice, and every record until the log is rotated or
\* emptied: what was not printed is what comes after the place it has reached in the file
\* it holds open, and a log it will open holds nothing it has printed.
THEOREM FollowIsExact == LogSpec => []FollowExact
<1>1. LogTyped /\ FollowerInv => FollowExact
  <2> SUFFICES ASSUME LogTyped, FollowerInv PROVE FollowExact
    OBVIOUS
  <2>1. Printed(tail.out, recs) /\ tail.out \in Seq(Nat) /\ DOMAIN tail.out = 1 .. Len(tail.out)
    BY FollowParts DEF FollowerInv
  <2>2. ASSUME tail.pc \in {"stat", "read", "reopen"}, ~gap PROVE tail.out = SubSeq(files[tail.fd], tail.from + 1, tail.pos)
    <3>1. Unbroken(files, path, tail) /\ tail.pc # "open"
      BY <2>2 DEF FollowerInv
    <3> QED BY <3>1 DEF Unbroken
  <2> QED BY <2>1, <2>2 DEF FollowExact, Printed
<1> QED BY LogInitTyped, LogNextTyped, FollowInit, FollowNext, <1>1, PTL DEF LogSpec

-----------------------------------------------------------------------------
(* tui.log: the newest records are kept.                                   *)

Has(F, f, r) == \E i \in 1 .. Len(F[f]) : F[f][i] = r
Window(k, f) == \A r \in 1 .. recs : r > recs - k /\ r > mark => Has(files, f, r)
Stays(r) == (path # 0 /\ Has(files, path, r)) \/ (backup # 0 /\ Has(files, backup, r))
LiveLogger(w) == logger[w].pc # "off"
Sole(w) == LiveLogger(w) /\ \A v \in DOMAIN logger : v # w => ~LiveLogger(v)

\* A logger writes to the log, or to the backup while it rotates or is degraded.
PlacedAt(l, p, b) ==
  /\ l.pc \in {"idle", "rename"} /\ ~l.degraded => l.fd = p
  /\ l.pc # "off" /\ (l.pc = "open" \/ l.degraded) => l.fd = b
LoggersPlaced ==
  /\ \A w \in DOMAIN logger : logger[w].degraded => logger[w].pc = "idle"
  /\ ~shared => \A w \in DOMAIN logger : PlacedAt(logger[w], path, backup)
  /\ 1 \in DOMAIN logger => LiveLogger(1)

\* The log holds the last records of its only logger, as many as it has counted, and it
\* has counted enough of them when it rotates; when another made the log meanwhile, the
\* log holds the last records, as many as there are in it.
Covers(w) ==
  /\ logger[w].pc \in {"idle", "rename"} /\ ~logger[w].degraded => Window(logger[w].written, path)
  /\ logger[w].pc = "rename" => logger[w].written >= MaxSize
  /\ (logger[w].pc = "open" \/ logger[w].degraded) /\ path # 0 => Window(Len(files[path]), path)
SoleCovers == ~shared => \A w \in DOMAIN logger : Sole(w) => Covers(w)
NewestStay == ~shared => \A r \in 1 .. recs : r > recs - MaxSize /\ r > mark => Stays(r)
KeptInv == InOrder(files, recs) /\ LoggersPlaced /\ SoleCovers /\ NewestStay

LEMMA KeptParts ==
  ASSUME LogTyped
  PROVE  /\ Stored(files) /\ Len(files) \in Nat \ {0} /\ path \in {0, Len(files)} /\ path \in 0 .. Len(files)
         /\ backup \in 0 .. Len(files) /\ recs \in Nat /\ mark \in Nat /\ MaxSize \in Nat
         /\ Loggers[reader] \in Nat /\ DOMAIN logger = 1 .. Loggers[reader]
         /\ \A w \in DOMAIN logger : logger[w] \in LoggerStates /\ logger[w].fd \in Nat /\ logger[w].written \in Nat
         /\ \A w \in DOMAIN logger : LiveLogger(w) => logger[w].fd # 0
  BY LogsAssumption, SMTT(30) DEF LogTyped, FilesTyped, LoggersTyped, LoggerStates, LiveLogger

LEMMA HasKept ==
  ASSUME LogTyped, LogTyped', NEW f \in Nat, FileStep(f), Appends(f), NEW g \in 1 .. Len(files)
  PROVE  /\ g \in 1 .. Len(files') /\ Len(files'[g]) \in Nat /\ Len(files[g]) \in Nat /\ Len(files'[g]) >= Len(files[g])
         /\ \A r : Has(files, g, r) => Has(files', g, r)
<1>1. Stored(files) /\ Stored(files') /\ Len(files) \in Nat /\ Len(files') \in Nat /\ files[g] \in Seq(Nat)
  BY DEF LogTyped, FilesTyped, Stored
<1>2. g \in 1 .. Len(files')
  BY <1>1 DEF FileStep, Grown, Emptied, Beside
<1>3. files'[g] \in Seq(Nat)
  BY <1>1, <1>2 DEF Stored
<1>4. \/ files'[g] = files[g]
      \/ Len(files'[g]) = Len(files[g]) + 1 /\ \A i \in 1 .. Len(files[g]) : files'[g][i] = files[g][i]
  <2>1. CASE files' = files
    BY <2>1
  <2>2. CASE Grown(files, files', f, recs')
    <3>1. CASE f = g
      <4>1. recs' \in Nat /\ Held(files, g) = files[g]
        BY DEF LogTyped, FilesTyped, Held
      <4> QED BY <1>1, <2>2, <3>1, <4>1, GrownRecords
    <3>2. CASE f # g
      BY <2>2, <3>2 DEF Grown, Beside
    <3> QED BY <3>1, <3>2
  <2>3. CASE Emptied(files, files', f) /\ f > Len(files)
    BY <1>1, <2>3 DEF Emptied, Beside
  <2> QED BY <2>1, <2>2, <2>3 DEF FileStep, Appends
<1>5. Len(files[g]) \in Nat /\ Len(files'[g]) \in Nat
  BY <1>1, <1>3
<1>6. \A i \in 1 .. Len(files[g]) : i \in 1 .. Len(files'[g]) /\ files'[g][i] = files[g][i]
  BY <1>4, <1>5
<1>7. \A r : Has(files, g, r) => Has(files', g, r)
  BY <1>6 DEF Has
<1> QED BY <1>2, <1>4, <1>5, <1>7

LEMMA HasNew ==
  ASSUME LogTyped, LogTyped', NEW f \in 1 .. Len(files'), Grown(files, files', f, recs')
  PROVE  Has(files', f, recs') /\ Len(files'[f]) = Len(Held(files, f)) + 1 /\ Len(Held(files, f)) \in Nat
<1>1. Stored(files) /\ Stored(files') /\ recs' \in Nat /\ files'[f] \in Seq(Nat)
  BY DEF LogTyped, FilesTyped, Stored
<1>2. /\ Held(files, f) \in Seq(Nat) /\ Len(files'[f]) = Len(Held(files, f)) + 1
      /\ files'[f][Len(Held(files, f)) + 1] = recs'
  BY <1>1, GrownRecords
<1>3. Len(Held(files, f)) + 1 \in 1 .. Len(files'[f])
  BY <1>2
<1> QED BY <1>2, <1>3 DEF Has

\* A logger whose file keeps its name, or which writes to the backup, is where it was.
LEMMA PlacedStays ==
  ASSUME NEW l, PlacedAt(l, path, backup), l.fd # 0, path # 0 => path' = path
  PROVE  PlacedAt(l, path', backup)
  BY DEF PlacedAt

LEMMA PlacedStep ==
  ASSUME LogTyped, LoggersPlaced, NEW w \in DOMAIN logger, NEW v, logger' = [logger EXCEPT ![w] = v],
         v.degraded => v.pc = "idle", v.pc # "off",
         ~shared' => /\ ~shared /\ PlacedAt(v, path', backup')
                     /\ \A u \in DOMAIN logger : u # w /\ LiveLogger(u) => PlacedAt(logger[u], path', backup')
  PROVE  LoggersPlaced'
<1>1. DOMAIN logger' = DOMAIN logger /\ logger'[w] = v /\ \A u \in DOMAIN logger : u # w => logger'[u] = logger[u]
  OBVIOUS
<1>2. \A u \in DOMAIN logger' : logger'[u].degraded => logger'[u].pc = "idle"
  BY <1>1 DEF LoggersPlaced
<1>3. ASSUME ~shared', NEW u \in DOMAIN logger' PROVE PlacedAt(logger'[u], path', backup')
  <2>1. CASE u = w
    BY <1>1, <1>3, <2>1
  <2>2. CASE u # w /\ LiveLogger(u)
    BY <1>1, <1>3, <2>2
  <2>3. CASE u # w /\ ~LiveLogger(u)
    BY <1>1, <2>3 DEF LiveLogger, PlacedAt
  <2> QED BY <2>1, <2>2, <2>3
<1>4. 1 \in DOMAIN logger' => (LiveLogger(1))'
  BY <1>1 DEF LoggersPlaced, LiveLogger
<1> QED BY <1>2, <1>3, <1>4 DEF LoggersPlaced

\* Only the logger that is alone can be alone after a step of its own.
LEMMA SoleStep ==
  ASSUME LogTyped, NEW w \in DOMAIN logger, LiveLogger(w), NEW v, logger' = [logger EXCEPT ![w] = v], v.pc # "off",
         NEW u \in DOMAIN logger', (Sole(u))'
  PROVE  u = w /\ Sole(w) /\ logger'[u] = v
<1>1. DOMAIN logger' = DOMAIN logger /\ logger'[w] = v /\ \A x \in DOMAIN logger : x # w => logger'[x] = logger[x]
  OBVIOUS
<1>2. u = w
  BY <1>1 DEF Sole, LiveLogger
<1>3. \A x \in DOMAIN logger : x # w => ~LiveLogger(x)
  BY <1>1, <1>2 DEF Sole, LiveLogger
<1> QED BY <1>1, <1>2, <1>3 DEF Sole

\* What is on disk stays there when records are added and the files keep their names.
LEMMA StaysKept ==
  ASSUME LogTyped, LogTyped', NEW f \in Nat, FileStep(f), Appends(f), path # 0 => path' = path, backup' = backup,
         NEW r, Stays(r)
  PROVE  (Stays(r))'
<1>1. CASE path # 0 /\ Has(files, path, r)
  <2>1. path \in 1 .. Len(files) /\ path' = path
    BY <1>1, KeptParts
  <2> QED BY <1>1, <2>1, HasKept DEF Stays
<1>2. CASE backup # 0 /\ Has(files, backup, r)
  <2>1. backup \in 1 .. Len(files)
    BY <1>2, KeptParts
  <2> QED BY <1>2, <2>1, HasKept DEF Stays
<1> QED BY <1>1, <1>2 DEF Stays

LEMMA InitLoggerKeeps ==
  ASSUME LogTyped, LogTyped', KeptInv, NEW w \in DOMAIN logger, InitLogger(w)
  PROVE  LoggersPlaced' /\ SoleCovers' /\ NewestStay'
<1>1. /\ OpenLog /\ recs' = recs /\ mark' = mark /\ backup' = backup /\ shared' = shared /\ ~LiveLogger(w)
      /\ logger' = [logger EXCEPT ![w] = [pc |-> "idle", fd |-> path', written |-> Len(files'[path']), degraded |-> FALSE]]
  BY DEF InitLogger, LiveLogger
<1>2. /\ path' \in 1 .. Len(files') /\ FileStep(path') /\ (path # 0 => path' = path /\ files' = files)
      /\ path = 0 => path' = Len(files) + 1
  BY <1>1, OpenLogDoes
<1>3. path' \in Nat /\ Appends(path') /\ path' # 0
  BY <1>2, KeptParts DEF Appends
<1>4. PICK v : v = [pc |-> "idle", fd |-> path', written |-> Len(files'[path']), degraded |-> FALSE]
  OBVIOUS
<1>5. logger' = [logger EXCEPT ![w] = v] /\ v.pc = "idle" /\ v.fd = path' /\ ~v.degraded
  BY <1>1, <1>4
<1>6. ASSUME ~shared, NEW u \in DOMAIN logger, LiveLogger(u) PROVE PlacedAt(logger[u], path', backup')
  <2>1. PlacedAt(logger[u], path, backup) /\ logger[u].fd # 0
    BY <1>6, KeptParts DEF KeptInv, LoggersPlaced
  <2> QED BY <1>1, <1>2, <2>1, PlacedStays
<1>7. PlacedAt(v, path', backup')
  BY <1>5 DEF PlacedAt
<1>8. LoggersPlaced'
  BY <1>1, <1>5, <1>6, <1>7, PlacedStep DEF KeptInv
<1>9. ASSUME NEW u \in DOMAIN logger', (Sole(u))' PROVE FALSE
  <2>1. DOMAIN logger' = DOMAIN logger /\ logger'[w] = v /\ \A x \in DOMAIN logger : x # w => logger'[x] = logger[x]
    BY <1>5
  <2>2. 1 \in DOMAIN logger /\ LiveLogger(1)
    BY KeptParts DEF KeptInv, LoggersPlaced
  <2>3. w # 1 /\ logger'[1].pc # "off" /\ logger'[w].pc # "off"
    BY <1>1, <1>5, <2>1, <2>2 DEF LiveLogger
  <2> QED BY <1>9, <2>1, <2>2, <2>3 DEF Sole, LiveLogger
<1>10. NewestStay'
  <2>1. \A r : Stays(r) => (Stays(r))'
    BY <1>1, <1>2, <1>3, StaysKept
  <2> QED BY <1>1, <2>1 DEF KeptInv, NewestStay
<1> QED BY <1>8, <1>9, <1>10 DEF SoleCovers

LEMMA WriteRecordKeeps ==
  ASSUME LogTyped, LogTyped', KeptInv, NEW w \in DOMAIN logger, WriteRecord(w)
  PROVE  LoggersPlaced' /\ SoleCovers' /\ NewestStay'
<1>1. backup' = backup /\ mark' = mark
  BY DEF WriteRecord
<1>2. PICK fails, l, v : fails \in BOOLEAN /\ Recorded(w, fails, l, v)
  BY WriteRecordDoes
<1>3. /\ logger[w].pc = "idle" /\ l = Reopened(logger[w], fails)
      /\ recs' = recs + 1 /\ Grown(files, files', l.fd, recs')
      /\ l.fd \in 1 .. Len(files) => path' = path
      /\ l.fd = Len(files) + 1 => path = 0 /\ path' = l.fd
      /\ v \in LoggerStates /\ v.pc \in {"idle", "rename"} /\ v.fd = l.fd /\ v.written = l.written + 1
      /\ v.degraded <=> l.degraded
      /\ v.pc = "rename" <=> l.written + 1 >= MaxSize /\ ~l.degraded
      /\ logger' = [logger EXCEPT ![w] = v]
      /\ shared' = (shared \/ path' \notin {0, l.fd})
  BY <1>2 DEF Recorded
<1>4. /\ l \in LoggerStates /\ l.fd \in 1 .. Len(files) + 1
      /\ \/ l = logger[w] /\ l.fd \in 1 .. Len(files)
         \/ logger[w].degraded /\ ~l.degraded /\ path # 0 /\ l.fd = path /\ l.written = Len(files[path])
         \/ logger[w].degraded /\ ~l.degraded /\ path = 0 /\ l.fd = Len(files) + 1 /\ l.written = 0
  BY <1>2, <1>3, ReopenedIs
<1>5. /\ l.fd \in Nat /\ FileStep(l.fd) /\ Appends(l.fd) /\ (path # 0 => path' = path) /\ LiveLogger(w) /\ v.pc # "off"
      /\ l.fd \in 1 .. Len(files') /\ l.written \in Nat /\ recs \in Nat
  <2>1. l.fd \in Nat /\ l.written \in Nat /\ recs \in Nat
    BY <1>4, KeptParts DEF LoggerStates
  <2>2. FileStep(l.fd) /\ Appends(l.fd) /\ l.fd \in 1 .. Len(files')
    BY <1>3, <2>1 DEF FileStep, Appends, Grown, Beside
  <2>3. path # 0 => path' = path
    BY <1>3, <1>4, KeptParts
  <2> QED BY <1>3, <2>1, <2>2, <2>3 DEF LiveLogger
<1>6. \A r : Stays(r) => (Stays(r))'
  BY <1>1, <1>5, StaysKept
<1>7. Has(files', l.fd, recs')
  BY <1>3, <1>5, HasNew
<1>8. ASSUME ~shared' PROVE ~shared /\ (~l.degraded => l.fd = path') /\ (l.degraded => l.fd = backup /\ l = logger[w])
  <2>1. ~shared /\ path' \in {0, l.fd}
    BY <1>3, <1>8
  <2>2. PlacedAt(logger[w], path, backup)
    BY <2>1 DEF KeptInv, LoggersPlaced
  <2>3. CASE l = logger[w] /\ l.fd \in 1 .. Len(files)
    BY <1>3, <2>1, <2>2, <2>3 DEF PlacedAt
  <2>4. CASE ~l.degraded /\ path # 0 /\ l.fd = path
    BY <1>5, <2>1, <2>4
  <2>5. CASE ~l.degraded /\ path = 0 /\ l.fd = Len(files) + 1
    BY <1>3, <2>1, <2>5
  <2> QED BY <1>4, <2>3, <2>4, <2>5
<1>9. LoggersPlaced'
  <2>1. ASSUME ~shared' PROVE PlacedAt(v, path', backup')
    BY <1>1, <1>3, <1>8, <2>1 DEF PlacedAt
  <2>2. ASSUME ~shared', NEW u \in DOMAIN logger, LiveLogger(u) PROVE PlacedAt(logger[u], path', backup')
    <3>1. PlacedAt(logger[u], path, backup) /\ logger[u].fd # 0
      BY <1>8, <2>2, KeptParts DEF KeptInv, LoggersPlaced
    <3> QED BY <1>1, <1>5, <3>1, PlacedStays
  <2>3. v.degraded => v.pc = "idle"
    BY <1>3
  <2> QED BY <1>3, <1>5, <1>8, <2>1, <2>2, <2>3, PlacedStep DEF KeptInv
<1>10. ASSUME ~shared', NEW u \in DOMAIN logger', (Sole(u))' PROVE (Covers(u))'
  <2>1. u = w /\ Sole(w) /\ logger'[u] = v
    BY <1>3, <1>5, <1>10, SoleStep
  <2>2. Covers(w)
    BY <1>8, <1>10, <2>1 DEF KeptInv, SoleCovers
  <2>3. \A r \in 1 .. recs' : r = recs' \/ r \in 1 .. recs
    BY <1>3, <1>5
  <2>4. ASSUME path # 0, NEW r, Has(files, path, r) PROVE Has(files', path', r)
    BY <1>5, <2>4, KeptParts, HasKept
  <2>5. ASSUME ~v.degraded PROVE (Window(v.written, path))'
    <3>1. l.fd = path' /\ v.written = l.written + 1
      BY <1>3, <1>8, <1>10, <2>5
    <3> SUFFICES ASSUME NEW r \in 1 .. recs, r > recs - l.written, r > mark PROVE Has(files', path', r)
      <4>1. \A r \in 1 .. recs' : r = recs' \/ (r \in 1 .. recs /\ (r > recs' - v.written => r > recs - l.written))
        BY <1>3, <1>5, <3>1
      <4> QED BY <1>1, <1>3, <1>7, <3>1, <4>1 DEF Window
    <3>2. CASE l = logger[w] /\ l.fd \in 1 .. Len(files)
      <4>1. Has(files, path, r) /\ path # 0
        BY <1>3, <2>2, <2>5, <3>1, <3>2 DEF Covers, Window
      <4> QED BY <2>4, <4>1
    <3>3. CASE logger[w].degraded /\ path # 0 /\ l.written = Len(files[path])
      <4>1. Has(files, path, r)
        BY <2>2, <3>3 DEF Covers, Window
      <4> QED BY <2>4, <3>3, <4>1
    <3>4. CASE l.written = 0
      BY <1>5, <3>4
    <3> QED BY <1>4, <3>2, <3>3, <3>4
  <2>6. ASSUME v.degraded, path' # 0 PROVE (Window(Len(files[path]), path))'
    <3>1. l = logger[w] /\ logger[w].degraded /\ l.fd \in 1 .. Len(files) /\ path' = path /\ l.fd = path'
      <4>1. l = logger[w] /\ l.degraded
        BY <1>3, <1>8, <1>10, <2>6
      <4>2. l.fd = path'
        BY <1>3, <1>10, <2>6
      <4> QED BY <1>3, <1>4, <1>5, <4>1, <4>2
    <3>2. Window(Len(files[path]), path)
      BY <2>2, <2>6, <3>1 DEF Covers
    <3>3. Len(files'[path]) = Len(files[path]) + 1 /\ Len(files[path]) \in Nat
      <4>1. Held(files, l.fd) = files[path]
        BY <3>1 DEF Held
      <4> QED BY <1>3, <1>5, <3>1, <4>1, HasNew
    <3>4. ASSUME NEW r \in 1 .. recs', r > recs' - Len(files'[path']), r > mark PROVE Has(files', path', r)
      <4>1. CASE r = recs'
        BY <1>7, <3>1, <4>1
      <4>2. CASE r \in 1 .. recs
        <5>1. r > recs - Len(files[path])
          BY <1>3, <1>5, <3>1, <3>3, <3>4, <4>2
        <5>2. Has(files, path, r)
          BY <3>2, <3>4, <4>2, <5>1 DEF Window
        <5> QED BY <2>4, <2>6, <3>1, <5>2
      <4> QED BY <2>3, <4>1, <4>2
    <3> QED BY <1>1, <3>4 DEF Window
  <2>7. v.pc = "rename" => v.written >= MaxSize
    BY <1>3
  <2> QED BY <1>3, <2>1, <2>5, <2>6, <2>7 DEF Covers
<1>11. ASSUME ~shared', NEW r \in 1 .. recs', r > recs' - MaxSize, r > mark' PROVE (Stays(r))'
  <2>1. CASE r = recs'
    <3>1. l.fd # 0 /\ (l.fd = path' \/ l.fd = backup')
      BY <1>1, <1>4, <1>8, <1>11, KeptParts
    <3> QED BY <1>7, <2>1, <3>1 DEF Stays
  <2>2. CASE r # recs'
    <3>1. r \in 1 .. recs /\ r > recs - MaxSize /\ r > mark
      BY <1>1, <1>3, <1>5, <1>11, <2>2, KeptParts, SMTT(30)
    <3>2. Stays(r)
      BY <1>8, <1>11, <3>1 DEF KeptInv, NewestStay
    <3> QED BY <1>6, <3>2
  <2> QED BY <2>1, <2>2
<1> QED BY <1>9, <1>10, <1>11 DEF SoleCovers, NewestStay

LEMMA RotateRenameKeeps ==
  ASSUME LogTyped, LogTyped', KeptInv, NEW w \in DOMAIN logger, RotateRename(w)
  PROVE  LoggersPlaced' /\ SoleCovers' /\ NewestStay'
<1>1. files' = files /\ recs' = recs /\ mark' = mark /\ logger[w].pc = "rename" /\ LiveLogger(w)
  BY DEF RotateRename, LiveLogger
<1>2. PICK pc \in {"open", "idle"} :
        /\ logger' = [logger EXCEPT ![w].pc = pc]
        /\ \/ /\ pc = "open" /\ path # 0 /\ backup' = path /\ path' = 0
              /\ shared' = (shared \/ \E v \in DOMAIN logger \ {w} : logger[v].pc # "off")
           \/ pc = "idle" /\ path' = path /\ backup' = backup /\ shared' = shared
  BY DEF RotateRename
<1>3. PICK v : v = [logger[w] EXCEPT !.pc = pc]
  OBVIOUS
<1>4. logger[w] \in LoggerStates /\ ~logger[w].degraded
  BY <1>1, KeptParts DEF KeptInv, LoggersPlaced
<1>5. v.pc = pc /\ v.fd = logger[w].fd /\ v.written = logger[w].written /\ ~v.degraded /\ logger' = [logger EXCEPT ![w] = v]
  BY <1>2, <1>3, <1>4 DEF LoggerStates
<1>6. ~shared' => ~shared /\ PlacedAt(logger[w], path, backup) /\ logger[w].fd = path
  <2>1. ~shared' => ~shared
    BY <1>2
  <2> QED BY <1>1, <1>4, <2>1 DEF KeptInv, LoggersPlaced, PlacedAt
<1>7. v.pc # "off" /\ (v.degraded => v.pc = "idle")
  BY <1>5
<1>8. ASSUME ~shared', NEW u \in DOMAIN logger', (Sole(u))' PROVE u = w /\ logger'[u] = v /\ Covers(w)
  <2>1. u = w /\ Sole(w) /\ logger'[u] = v
    BY <1>1, <1>5, <1>7, <1>8, SoleStep
  <2> QED BY <1>6, <1>8, <2>1 DEF KeptInv, SoleCovers
<1>9. CASE pc = "open"
  <2>1. path # 0 /\ backup' = path /\ path' = 0
    BY <1>2, <1>9
  <2>2. ~shared' => \A u \in DOMAIN logger : u # w => ~LiveLogger(u)
    BY <1>2, <1>9 DEF LiveLogger
  <2>3. ~shared' => PlacedAt(v, path', backup')
    BY <1>5, <1>6, <1>9, <2>1 DEF PlacedAt
  <2>4. LoggersPlaced'
    BY <1>5, <1>6, <1>7, <2>2, <2>3, PlacedStep DEF KeptInv
  <2>5. SoleCovers'
    BY <1>5, <1>8, <1>9, <2>1 DEF SoleCovers, Covers
  <2>6. ASSUME ~shared' PROVE Covers(w)
    <3>1. Sole(w)
      BY <1>1, <2>2, <2>6 DEF Sole
    <3> QED BY <1>6, <2>6, <3>1 DEF KeptInv, SoleCovers
  <2>7. ASSUME ~shared', NEW r \in 1 .. recs', r > recs' - MaxSize, r > mark' PROVE (Stays(r))'
    <3>1. Window(logger[w].written, path) /\ logger[w].written >= MaxSize
      BY <1>1, <1>4, <2>6, <2>7 DEF Covers
    <3>2. r > recs - logger[w].written
      BY <1>1, <2>7, <3>1, KeptParts
    <3>3. Has(files, path, r)
      BY <1>1, <2>7, <3>1, <3>2 DEF Window
    <3> QED BY <1>1, <2>1, <3>3 DEF Stays
  <2> QED BY <2>4, <2>5, <2>7 DEF NewestStay
<1>10. CASE pc = "idle"
  <2>1. path' = path /\ backup' = backup /\ shared' = shared
    BY <1>2, <1>10
  <2>2. ~shared' => PlacedAt(v, path', backup')
    BY <1>5, <1>6, <1>10, <2>1 DEF PlacedAt
  <2>3. ~shared' => \A u \in DOMAIN logger : PlacedAt(logger[u], path', backup')
    BY <1>6, <2>1 DEF KeptInv, LoggersPlaced
  <2>4. LoggersPlaced'
    BY <1>5, <1>6, <1>7, <2>2, <2>3, PlacedStep DEF KeptInv
  <2>5. ASSUME ~shared', NEW u \in DOMAIN logger', (Sole(u))' PROVE (Covers(u))'
    <3>1. Window(logger[w].written, path)
      BY <1>1, <1>4, <1>8, <2>5 DEF Covers
    <3>2. (Window(v.written, path))'
      BY <1>1, <1>5, <2>1, <3>1 DEF Window
    <3> QED BY <1>5, <1>8, <1>10, <2>5, <3>2 DEF Covers
  <2>6. NewestStay'
    BY <1>1, <2>1 DEF KeptInv, NewestStay, Stays
  <2> QED BY <2>4, <2>5, <2>6 DEF SoleCovers
<1> QED BY <1>9, <1>10

LEMMA RotateOpenKeeps ==
  ASSUME LogTyped, LogTyped', KeptInv, NEW w \in DOMAIN logger, RotateOpen(w)
  PROVE  LoggersPlaced' /\ SoleCovers' /\ NewestStay'
<1>1. /\ recs' = recs /\ mark' = mark /\ backup' = backup /\ shared' = shared
      /\ logger[w].pc = "open" /\ LiveLogger(w) /\ recs \in Nat
  BY KeptParts DEF RotateOpen, LiveLogger
<1>2. ASSUME ~shared', NEW u \in DOMAIN logger, LiveLogger(u), path # 0 => path' = path
      PROVE  PlacedAt(logger[u], path', backup')
  <2>1. PlacedAt(logger[u], path, backup) /\ logger[u].fd # 0
    BY <1>1, <1>2, KeptParts DEF KeptInv, LoggersPlaced
  <2> QED BY <1>1, <1>2, <2>1, PlacedStays
<1>3. CASE /\ OpenLog
           /\ logger' = [logger EXCEPT ![w] = [pc |-> "idle", fd |-> path', written |-> 0, degraded |-> FALSE]]
  <2>1. PICK v : v = [pc |-> "idle", fd |-> path', written |-> 0, degraded |-> FALSE]
    OBVIOUS
  <2>2. logger' = [logger EXCEPT ![w] = v] /\ v.pc = "idle" /\ v.fd = path' /\ v.written = 0 /\ ~v.degraded
    BY <1>3, <2>1
  <2>3. /\ path' \in 1 .. Len(files') /\ FileStep(path') /\ (path # 0 => path' = path /\ files' = files)
        /\ path = 0 => path' = Len(files) + 1
    BY <1>1, <1>3, OpenLogDoes
  <2>4. path' \in Nat /\ Appends(path')
    BY <2>3, KeptParts DEF Appends
  <2>5. PlacedAt(v, path', backup')
    BY <2>2 DEF PlacedAt
  <2>6. LoggersPlaced'
    BY <1>1, <1>2, <2>2, <2>3, <2>5, PlacedStep DEF KeptInv
  <2>7. ASSUME ~shared', NEW u \in DOMAIN logger', (Sole(u))' PROVE (Covers(u))'
    <3>1. logger'[u] = v
      BY <1>1, <2>2, <2>7, SoleStep
    <3>2. (Window(v.written, path))'
      BY <1>1, <2>2 DEF Window
    <3> QED BY <2>2, <3>1, <3>2 DEF Covers
  <2>8. NewestStay'
    <3>1. \A r : Stays(r) => (Stays(r))'
      BY <1>1, <2>3, <2>4, StaysKept
    <3> QED BY <1>1, <3>1 DEF KeptInv, NewestStay
  <2> QED BY <2>6, <2>7, <2>8 DEF SoleCovers
<1>4. CASE files' = files /\ path' = path /\ logger' = [logger EXCEPT ![w].pc = "idle", ![w].degraded = TRUE]
  <2>1. PICK v : v = [logger[w] EXCEPT !.pc = "idle", !.degraded = TRUE]
    OBVIOUS
  <2>2. logger[w] \in LoggerStates
    BY KeptParts
  <2>3. v.pc = "idle" /\ v.fd = logger[w].fd /\ v.degraded /\ logger' = [logger EXCEPT ![w] = v]
    BY <1>4, <2>1, <2>2 DEF LoggerStates, LogTyped, LoggersTyped
  <2>4. ~shared' => PlacedAt(v, path', backup')
    <3>1. ~shared' => logger[w].fd = backup
      BY <1>1 DEF KeptInv, LoggersPlaced, PlacedAt
    <3> QED BY <1>1, <2>3, <3>1 DEF PlacedAt
  <2>6. LoggersPlaced'
    BY <1>1, <1>2, <1>4, <2>3, <2>4, PlacedStep DEF KeptInv
  <2>7. ASSUME ~shared', NEW u \in DOMAIN logger', (Sole(u))' PROVE (Covers(u))'
    <3>1. logger'[u] = v /\ Sole(w)
      BY <1>1, <2>3, <2>7, SoleStep
    <3>2. Covers(w)
      BY <1>1, <2>7, <3>1 DEF KeptInv, SoleCovers
    <3>3. path' # 0 => (Window(Len(files[path]), path))'
      BY <1>1, <1>4, <3>2 DEF Covers, Window
    <3> QED BY <2>3, <3>1, <3>3 DEF Covers
  <2>8. NewestStay'
    BY <1>1, <1>4 DEF KeptInv, NewestStay, Stays
  <2> QED BY <2>6, <2>7, <2>8 DEF SoleCovers
<1> QED BY <1>3, <1>4 DEF RotateOpen

LEMMA EmergencyWriteKeeps ==
  ASSUME LogTyped, LogTyped', KeptInv, NEW w \in DOMAIN logger, EmergencyWrite(w)
  PROVE  LoggersPlaced' /\ SoleCovers' /\ NewestStay'
<1>1. logger' = logger /\ backup' = backup /\ mark' = mark /\ shared' = shared
  BY DEF EmergencyWrite
<1>2. /\ recs' = recs + 1 /\ path' \in 1 .. Len(files') /\ (path # 0 => path' = path) /\ (path = 0 => path' = Len(files) + 1)
      /\ Grown(files, files', path', recs') /\ FileStep(path') /\ recs \in Nat
  BY EmergencyWriteDoes, KeptParts
<1>3. path' \in Nat /\ Appends(path') /\ path' # 0
  BY <1>2, KeptParts DEF Appends
<1>4. /\ Has(files', path', recs') /\ Len(files'[path']) = Len(Held(files, path')) + 1
      /\ Len(Held(files, path')) \in Nat
  BY <1>2, HasNew
<1>5. \A r \in 1 .. recs' : r = recs' \/ r \in 1 .. recs
  BY <1>2
<1>6. LoggersPlaced'
  <2>1. ASSUME ~shared', NEW u \in DOMAIN logger, LiveLogger(u) PROVE PlacedAt(logger[u], path', backup')
    <3>1. PlacedAt(logger[u], path, backup) /\ logger[u].fd # 0
      BY <1>1, <2>1, KeptParts DEF KeptInv, LoggersPlaced
    <3> QED BY <1>1, <1>2, <3>1, PlacedStays
  <2>2. ASSUME NEW u \in DOMAIN logger, ~LiveLogger(u) PROVE PlacedAt(logger[u], path', backup')
    BY <2>2 DEF LiveLogger, PlacedAt
  <2> QED BY <1>1, <2>1, <2>2 DEF KeptInv, LoggersPlaced, LiveLogger
<1>7. ASSUME path # 0, NEW r, Has(files, path, r) PROVE Has(files', path', r)
  BY <1>2, <1>3, <1>7, KeptParts, HasKept
<1>8. ASSUME ~shared', NEW u \in DOMAIN logger', (Sole(u))' PROVE (Covers(u))'
  <2>1. u \in DOMAIN logger /\ Sole(u) /\ LiveLogger(u)
    BY <1>1, <1>8 DEF Sole, LiveLogger
  <2>2. Covers(u)
    BY <1>1, <1>8, <2>1 DEF KeptInv, SoleCovers
  <2>3. ASSUME logger[u].pc \in {"idle", "rename"}, ~logger[u].degraded PROVE (Window(logger[u].written, path))'
    <3>1. path # 0
      <4>1. PlacedAt(logger[u], path, backup) /\ logger[u].fd # 0
        BY <1>1, <1>8, <2>1, KeptParts DEF KeptInv, LoggersPlaced
      <4> QED BY <2>3, <4>1 DEF PlacedAt
    <3>2. Window(logger[u].written, path) /\ logger[u].written \in Nat
      BY <2>1, <2>2, <2>3, KeptParts DEF Covers
    <3>3. ASSUME NEW r \in 1 .. recs', r > recs' - logger[u].written, r > mark PROVE Has(files', path', r)
      <4>1. CASE r \in 1 .. recs
        <5>1. Has(files, path, r)
          BY <1>2, <3>2, <3>3, <4>1 DEF Window
        <5> QED BY <1>7, <3>1, <5>1
      <4> QED BY <1>4, <1>5, <4>1
    <3> QED BY <1>1, <3>3 DEF Window
  <2>4. ASSUME logger[u].pc = "open" \/ logger[u].degraded PROVE (Window(Len(files[path]), path))'
    <3>1. ASSUME NEW r \in 1 .. recs', r > recs' - Len(files'[path']), r > mark, r \in 1 .. recs PROVE Has(files', path', r)
      <4>1. CASE path # 0
        <5>1. Held(files, path') = files[path]
          BY <1>2, <4>1, KeptParts DEF Held
        <5>4. Len(files'[path']) = Len(files[path]) + 1 /\ Len(files[path]) \in Nat
          BY <1>4, <5>1
        <5>2. r > recs - Len(files[path])
          <6>1. recs' - Len(files'[path']) = recs - Len(files[path])
            BY <1>2, <5>4
          <6> QED BY <3>1, <6>1
        <5>3. Has(files, path, r)
          BY <2>2, <2>4, <3>1, <4>1, <5>2 DEF Covers, Window
        <5> QED BY <1>7, <4>1, <5>3
      <4>2. CASE path = 0
        <5>1. Held(files, path') = <<>>
          BY <1>2, <4>2, KeptParts DEF Held
        <5>2. Len(files'[path']) = 1
          BY <1>4, <5>1
        <5> QED BY <1>2, <3>1, <5>2
      <4> QED BY <4>1, <4>2
    <3> QED BY <1>1, <1>4, <1>5, <3>1 DEF Window
  <2>5. logger[u].pc = "rename" => logger[u].written >= MaxSize
    BY <2>2 DEF Covers
  <2> QED BY <1>1, <2>3, <2>4, <2>5 DEF Covers
<1>9. ASSUME ~shared', NEW r \in 1 .. recs', r > recs' - MaxSize, r > mark' PROVE (Stays(r))'
  <2>1. CASE r = recs'
    BY <1>3, <1>4, <2>1 DEF Stays
  <2>2. CASE r \in 1 .. recs
    <3>1. r > recs - MaxSize
      BY <1>2, <1>9, <2>2, KeptParts
    <3>2. Stays(r)
      BY <1>1, <1>9, <2>2, <3>1 DEF KeptInv, NewestStay
    <3> QED BY <1>1, <1>2, <1>3, <3>2, StaysKept
  <2> QED BY <1>5, <2>1, <2>2
<1> QED BY <1>6, <1>8, <1>9 DEF SoleCovers, NewestStay

LEMMA ConfirmClearLogsKeeps ==
  ASSUME LogTyped, LogTyped', KeptInv, NEW w \in DOMAIN logger, ConfirmClearLogs(w)
  PROVE  LoggersPlaced' /\ SoleCovers' /\ NewestStay'
<1>1. logger[w].pc = "idle" /\ LiveLogger(w) /\ LoggerClear(w) /\ mark' = recs /\ recs' = recs /\ backup' = 0
  BY DEF ConfirmClearLogs, LoggerClear, LiveLogger
<1>2. PICK fails, l, v : fails \in BOOLEAN /\ Cleared(w, fails, l, v)
  BY <1>1, LoggerClearDoes
<1>3. /\ l = Reopened(logger[w], fails)
      /\ l.fd \in 1 .. Len(files) => path' = path
      /\ l.fd = Len(files) + 1 => path = 0 /\ path' = l.fd
      /\ v.pc = "idle" /\ v.fd = l.fd /\ v.written = 0
      /\ v.degraded <=> l.degraded
      /\ logger' = [logger EXCEPT ![w] = v]
      /\ shared' = (shared \/ l.fd # path' \/ BackupInUse)
  BY <1>2 DEF Cleared
<1>4. /\ l.fd \in 1 .. Len(files) + 1
      /\ l = logger[w] \/ ~l.degraded
  BY <1>1, <1>2, <1>3, ReopenedIs
<1>5. path # 0 => path' = path
  BY <1>3, <1>4, KeptParts
<1>6. ASSUME ~shared' PROVE ~shared /\ l.fd = path' /\ \A u \in DOMAIN logger : LiveLogger(u) => logger[u].fd # backup
  BY <1>3, <1>6 DEF BackupInUse, LiveLogger
<1>7. ASSUME ~shared', NEW u \in DOMAIN logger, LiveLogger(u)
      PROVE  PlacedAt(logger[u], path', backup') /\ ~logger[u].degraded
  <2>1. PlacedAt(logger[u], path, backup) /\ logger[u].fd # 0 /\ logger[u].fd # backup
    BY <1>6, <1>7, KeptParts DEF KeptInv, LoggersPlaced
  <2>2. logger[u].pc # "open" /\ ~logger[u].degraded
    BY <1>7, <2>1 DEF PlacedAt, LiveLogger
  <2> QED BY <1>5, <2>1, <2>2 DEF PlacedAt
<1>8. ~shared' => PlacedAt(v, path', backup')
  BY <1>1, <1>3, <1>4, <1>6, <1>7 DEF PlacedAt
<1>9. LoggersPlaced'
  BY <1>3, <1>6, <1>7, <1>8, PlacedStep DEF KeptInv
<1>10. recs \in Nat /\ \A r \in 1 .. recs' : ~(r > mark')
  BY <1>1, KeptParts
<1>11. ASSUME ~shared', NEW u \in DOMAIN logger', (Sole(u))' PROVE (Covers(u))'
  <2>1. logger'[u] = v
    BY <1>1, <1>3, <1>11, SoleStep
  <2> QED BY <1>3, <1>10, <2>1 DEF Covers, Window
<1> QED BY <1>9, <1>10, <1>11 DEF SoleCovers, NewestStay

LEMMA ClearTuiKeeps ==
  ASSUME LogTyped, LogTyped', KeptInv, ClearTui
  PROVE  LoggersPlaced' /\ SoleCovers' /\ NewestStay'
<1>1. logger' = logger /\ path' = path /\ backup' = backup /\ mark' = recs /\ recs' = recs /\ shared' = shared
  BY DEF ClearTui
<1>2. recs \in Nat /\ \A r \in 1 .. recs' : ~(r > mark')
  BY <1>1, KeptParts
<1>3. LoggersPlaced'
  BY <1>1 DEF KeptInv, LoggersPlaced, LiveLogger
<1>4. ASSUME ~shared', NEW u \in DOMAIN logger', (Sole(u))' PROVE (Covers(u))'
  <2>1. Sole(u) /\ u \in DOMAIN logger
    BY <1>1, <1>4 DEF Sole, LiveLogger
  <2>2. logger[u].pc = "rename" => logger[u].written >= MaxSize
    BY <1>1, <1>4, <2>1 DEF KeptInv, SoleCovers, Covers
  <2> QED BY <1>1, <1>2, <2>2 DEF Covers, Window
<1> QED BY <1>2, <1>3, <1>4 DEF SoleCovers, NewestStay

LEMMA RemoveBackupKeeps ==
  ASSUME LogTyped, LogTyped', KeptInv, RemoveBackup
  PROVE  LoggersPlaced' /\ SoleCovers' /\ NewestStay'
<1>1. /\ logger' = logger /\ path' = path /\ files' = files /\ recs' = recs /\ backup' = 0
      /\ mark' = IF SizeOf(backup) > 0 /\ Newest(backup) > mark THEN Newest(backup) ELSE mark
      /\ shared' = (shared \/ BackupInUse)
  BY DEF RemoveBackup
<1>2. mark \in Nat /\ mark' \in Nat /\ recs \in Nat
  BY DEF LogTyped, FilesTyped
<1>3. mark' >= mark /\ (SizeOf(backup) > 0 => mark' >= Newest(backup))
  <2>1. CASE SizeOf(backup) > 0 /\ Newest(backup) > mark
    BY <1>1, <1>2, <2>1
  <2>2. CASE ~(SizeOf(backup) > 0 /\ Newest(backup) > mark)
    <3>1. SizeOf(backup) > 0 => Newest(backup) \in Nat
      <4> SUFFICES ASSUME SizeOf(backup) > 0 PROVE Newest(backup) \in Nat
        OBVIOUS
      <4>1. backup \in 1 .. Len(files)
        BY KeptParts DEF SizeOf
      <4>2. files[backup] \in Seq(Nat) /\ SizeOf(backup) = Len(files[backup])
        BY <4>1, KeptParts DEF SizeOf, Stored
      <4>3. Len(files[backup]) \in 1 .. Len(files[backup])
        BY <4>2
      <4> QED BY <4>2, <4>3 DEF Newest
    <3> QED BY <1>1, <1>2, <2>2, <3>1
  <2> QED BY <2>1, <2>2
<1>4. ASSUME ~shared' PROVE ~shared /\ \A u \in DOMAIN logger : LiveLogger(u) => logger[u].fd # backup
  BY <1>1, <1>4 DEF BackupInUse, LiveLogger
<1>5. LoggersPlaced'
  <2>1. ASSUME ~shared', NEW u \in DOMAIN logger PROVE PlacedAt(logger[u], path', backup')
    <3>1. PlacedAt(logger[u], path, backup)
      BY <1>4, <2>1 DEF KeptInv, LoggersPlaced
    <3> QED BY <1>1, <1>4, <2>1, <3>1 DEF PlacedAt, LiveLogger
  <2> QED BY <1>1, <2>1 DEF KeptInv, LoggersPlaced, LiveLogger
<1>6. \A k, f : Window(k, f) => (Window(k, f))'
  BY <1>1, <1>2, <1>3 DEF Window
<1>7. ASSUME ~shared', NEW u \in DOMAIN logger', (Sole(u))' PROVE (Covers(u))'
  <2>1. Sole(u) /\ u \in DOMAIN logger
    BY <1>1, <1>7 DEF Sole, LiveLogger
  <2>2. Covers(u)
    BY <1>4, <1>7, <2>1 DEF KeptInv, SoleCovers
  <2>3. ASSUME NEW k, Window(k, path) PROVE \A r \in 1 .. recs' : r > recs' - k /\ r > mark' => Has(files', path', r)
    BY <1>1, <1>2, <1>3, <2>3 DEF Window
  <2> QED BY <1>1, <2>2, <2>3 DEF Covers, Window
<1>8. ASSUME ~shared', NEW r \in 1 .. recs', r > recs' - MaxSize, r > mark' PROVE (Stays(r))'
  <2>1. Stays(r)
    BY <1>1, <1>2, <1>3, <1>4, <1>8 DEF KeptInv, NewestStay
  <2>2. ASSUME backup # 0, Has(files, backup, r) PROVE FALSE
    <3>1. backup \in 1 .. Len(files) /\ files[backup] \in Seq(Nat) /\ SizeOf(backup) = Len(files[backup])
      BY <2>2, KeptParts DEF Stored, SizeOf
    <3>2. PICK i \in 1 .. Len(files[backup]) : files[backup][i] = r
      BY <2>2 DEF Has
    <3>3. SizeOf(backup) > 0 /\ Len(files[backup]) \in 1 .. Len(files[backup])
      BY <3>1, <3>2
    <3>4. files[backup][i] <= Newest(backup)
      <4>1. CASE i = Len(files[backup])
        BY <3>1, <3>2, <3>3, <4>1 DEF Newest
      <4>2. CASE i < Len(files[backup])
        BY <3>1, <3>2, <3>3, <4>2 DEF Newest, KeptInv, InOrder
      <4> QED BY <3>1, <3>2, <4>1, <4>2
    <3>5. Newest(backup) \in Nat
      BY <3>1, <3>3 DEF Newest
    <3> QED BY <1>2, <1>3, <1>8, <3>2, <3>3, <3>4, <3>5
  <2> QED BY <1>1, <2>1, <2>2 DEF Stays
<1> QED BY <1>5, <1>7, <1>8 DEF SoleCovers, NewestStay

LEMMA KeptInit ==
  ASSUME LogInit
  PROVE  KeptInv
<1>1. /\ files = <<<<>>>> /\ path = 1 /\ backup = 0 /\ recs = 0
      /\ logger = [w \in 1 .. Loggers[reader] |-> IF w = 1 THEN [NoLogger EXCEPT !.pc = "idle", !.fd = 1] ELSE NoLogger]
  BY DEF LogInit
<1>2. InOrder(files, recs)
  BY <1>1 DEF InOrder
<1>3. PICK v : v = [NoLogger EXCEPT !.pc = "idle", !.fd = 1]
  OBVIOUS
<1>4. v.pc = "idle" /\ v.fd = 1 /\ ~v.degraded /\ NoLogger.pc = "off" /\ ~NoLogger.degraded
  BY <1>3 DEF NoLogger
<1>5. \A w \in DOMAIN logger : (w = 1 /\ logger[w] = v) \/ logger[w] = NoLogger
  BY <1>1, <1>3
<1>6. 1 \in DOMAIN logger => logger[1] = v
  BY <1>1, <1>3
<1>7. LoggersPlaced
  BY <1>1, <1>4, <1>5, <1>6 DEF LoggersPlaced, PlacedAt, LiveLogger
<1>8. \A k, f : Window(k, f)
  BY <1>1 DEF Window
<1>9. SoleCovers
  BY <1>4, <1>5, <1>8 DEF SoleCovers, Covers, Sole, LiveLogger
<1>10. NewestStay
  BY <1>1 DEF NewestStay
<1> QED BY <1>2, <1>7, <1>9, <1>10 DEF KeptInv

LEMMA KeptNext ==
  ASSUME LogTyped, KeptInv, [LogNext]_logVars
  PROVE  KeptInv'
<1> LogTyped'
  BY LogNextTyped
<1>1. ASSUME UNCHANGED Writers PROVE KeptInv'
  BY <1>1 DEF Writers, KeptInv, LoggersPlaced, SoleCovers, NewestStay, Covers, Sole, LiveLogger, Window, Stays
<1>2. CASE WriterNext
  <2>1. InOrder(files', recs')
    BY <1>2, WriterNextTyped, InOrderStep DEF WriterStep, KeptInv
  <2>2. LoggersPlaced' /\ SoleCovers' /\ NewestStay'
    BY <1>2, InitLoggerKeeps, WriteRecordKeeps, RotateRenameKeeps, RotateOpenKeeps, EmergencyWriteKeeps,
       ConfirmClearLogsKeeps, ClearTuiKeeps, RemoveBackupKeeps DEF WriterNext
  <2> QED BY <2>1, <2>2 DEF KeptInv
<1>3. CASE TailNext
  BY <1>1, <1>3, TailNextKeeps
<1>4. CASE TabNext
  BY <1>1, <1>4, TabNextKeeps
<1>5. CASE UNCHANGED logVars
  BY <1>1, <1>5, LogStutters
<1> QED BY <1>2, <1>3, <1>4, <1>5, LogNextIs

\* The newest records, as many as fit into one file, survive rotations, failed renames and
\* reopens, panics and clearings: a logger that is alone has written all of them to the log
\* it renames, and one that is not alone, or whose file has lost its name, is in shared.
THEOREM NewestAreKept == LogSpec => []NewestKept
<1>1. LogTyped /\ KeptInv => NewestKept
  <2> SUFFICES ASSUME LogTyped, KeptInv, ~shared, NEW r \in 1 .. recs, r > recs - MaxSize, r > mark
               PROVE  r \in OnDisk
    BY DEF NewestKept
  <2>1. PICK f \in {path, backup} \ {0} : Has(files, f, r)
    BY DEF KeptInv, NewestStay, Stays
  <2>2. files[f] \in Seq(Nat)
    BY KeptParts DEF Stored
  <2>3. r \in {files[f][i] : i \in DOMAIN files[f]}
    BY <2>1, <2>2 DEF Has
  <2> QED BY <2>3 DEF OnDisk
<1> QED BY LogInitTyped, LogNextTyped, KeptInit, KeptNext, <1>1, PTL DEF LogSpec

-----------------------------------------------------------------------------
(* tui.log: the Logs tab.                                                  *)

\* The last lines of the first k records.
IsShown(x, s, k) == IF k = 0 THEN x = <<0>> ELSE IsPart(x, s, IF k > MaxLines THEN k - MaxLines ELSE 0, k)
UpTo(F, p, t) == t.pos <= Len(F[p]) /\ IsShown(t.lines, F[p], t.pos)

\* What the tab shows at each of its program points, unless it is told that the log was
\* emptied (dirty) or replaced while it reloaded (slipped).
Shows(t, F, p) ==
  /\ t.pc = "open" => p # 0 /\ (~t.dirty => UpTo(F, p, t))
  /\ t.pc = "mark" /\ t.fd # 0 => p # 0 /\ t.fd = p /\ (~t.dirty => UpTo(F, p, t))
  /\ t.pc = "reopen" /\ t.id = p /\ p # 0 /\ ~t.dirty => UpTo(F, p, t)
  /\ t.pc \in {"idle", "more"} /\ t.id = p /\ p # 0 /\ t.fd # 0 /\ ~t.dirty => t.fd = p /\ UpTo(F, p, t)
TabRecord(t) ==
  t = [pc |-> t.pc, fd |-> t.fd, pos |-> t.pos, lines |-> t.lines, id |-> t.id, len |-> t.len,
       dirty |-> t.dirty, auto |-> t.auto, scroll |-> t.scroll, odd |-> t.odd]
TabTyped(t, n) ==
  /\ TabRecord(t) /\ t.fd \in 0 .. n /\ t.id \in 0 .. n /\ t.pos \in Nat /\ t.len \in Nat /\ t.lines \in Seq(Nat)
  /\ t.pc = "more" => t.fd # 0
TabInv ==
  /\ InOrder(files, recs) /\ TabTyped(tab, Len(files))
  /\ ~slipped => Shows(tab, files, path)

LEMMA WholePart ==
  ASSUME NEW s \in Seq(Nat)
  PROVE  IsPart(s, s, 0, Len(s))
  BY DEF IsPart

LEMMA EndingIs ==
  ASSUME NEW x \in Seq(Nat), NEW K \in Nat \ {0}
  PROVE  IsPart(Ending(x, K), x, IF Len(x) > K THEN Len(x) - K ELSE 0, Len(x))
<1>1. PICK n : n = Len(x)
  OBVIOUS
<1>2. PICK h : h = IF n > K THEN n - K ELSE 0
  OBVIOUS
<1>3. n \in Nat /\ h \in Nat /\ h <= n
  BY <1>1, <1>2
<1>4. IsPart(SubSeq(x, h + 1, n), x, h, n)
  BY <1>1, <1>3, PartAfter
<1>5. Ending(x, K) = SubSeq(x, h + 1, n)
  BY <1>1, <1>2 DEF Ending
<1> QED BY <1>1, <1>2, <1>4, <1>5, Zenon

LEMMA PartOfPart ==
  ASSUME NEW s, NEW m \in Nat, NEW n \in Nat, NEW x, IsPart(x, s, m, n), NEW h \in Nat, NEW y, IsPart(y, x, h, Len(x)), m + h <= n
  PROVE  IsPart(y, s, m + h, n)
<1>1. /\ x \in Seq(Nat) /\ Len(x) = n - m /\ \A i \in 1 .. Len(x) : m + i \in 1 .. n /\ x[i] = s[m + i]
      /\ y \in Seq(Nat) /\ Len(y) = Len(x) - h /\ \A i \in 1 .. Len(y) : h + i \in 1 .. Len(x) /\ y[i] = x[h + i]
  BY DEF IsPart
<1>2. Len(y) = n - (m + h)
  BY <1>1
<1>3. ASSUME NEW i \in 1 .. Len(y) PROVE m + h + i \in 1 .. n /\ y[i] = s[m + h + i]
  <2>1. h + i \in 1 .. Len(x) /\ y[i] = x[h + i]
    BY <1>1
  <2>2. m + (h + i) \in 1 .. n /\ x[h + i] = s[m + (h + i)]
    BY <1>1, <2>1
  <2>3. m + (h + i) = m + h + i
    OBVIOUS
  <2> QED BY <2>1, <2>2, <2>3
<1> QED BY <1>1, <1>2, <1>3 DEF IsPart

LEMMA EndingOfPart ==
  ASSUME NEW s, NEW m \in Nat, NEW n \in Nat, m <= n, NEW x, IsPart(x, s, m, n), NEW K \in Nat \ {0}
  PROVE  IsPart(Ending(x, K), s, IF n - m > K THEN n - K ELSE m, n)
<1>1. x \in Seq(Nat) /\ Len(x) = n - m
  BY DEF IsPart
<1>2. PICK h : h = IF Len(x) > K THEN Len(x) - K ELSE 0
  OBVIOUS
<1>3. h \in Nat /\ m + h <= n /\ m + h = IF n - m > K THEN n - K ELSE m
  BY <1>1, <1>2
<1>4. IsPart(Ending(x, K), x, h, Len(x))
  BY <1>1, <1>2, EndingIs
<1>5. IsPart(Ending(x, K), s, m + h, n)
  BY <1>3, <1>4, PartOfPart
<1> QED BY <1>3, <1>5

LEMMA EndingShown ==
  ASSUME NEW s \in Seq(Nat), NEW m \in Nat, NEW n, n = Len(s), n # 0, m <= n, NEW x, IsPart(x, s, m, n), m = 0 \/ n - m >= MaxLines
  PROVE  IsShown(Ending(x, MaxLines), s, n)
<1>1. n \in Nat /\ MaxLines \in Nat \ {0}
  BY LogsAssumption
<1>2. IsPart(Ending(x, MaxLines), s, IF n - m > MaxLines THEN n - MaxLines ELSE m, n)
  BY <1>1, EndingOfPart
<1>3. (IF n - m > MaxLines THEN n - MaxLines ELSE m) = IF n > MaxLines THEN n - MaxLines ELSE 0
  BY <1>1
<1>4. IsPart(Ending(x, MaxLines), s, IF n > MaxLines THEN n - MaxLines ELSE 0, n)
  BY <1>2, <1>3
<1> QED BY <1>4 DEF IsShown

\* The lines of a file that is read from its end.
LEMMA LinesShown ==
  ASSUME LogTyped, NEW p \in 1 .. Len(files)
  PROVE  Lines(p) \in Seq(Nat) /\ IsShown(Lines(p), files[p], Len(files[p])) /\ Len(files[p]) \in Nat /\ SizeOf(p) = Len(files[p])
<1>1. files[p] \in Seq(Nat) /\ SizeOf(p) = Len(files[p]) /\ Len(files) \in Nat /\ p # 0
  BY DEF LogTyped, FilesTyped, Stored, SizeOf
<1>2. CASE Len(files[p]) = 0
  <2>1. Lines(p) = <<0>>
    BY <1>1, <1>2 DEF Lines
  <2> QED BY <1>1, <1>2, <2>1 DEF IsShown
<1>3. CASE Len(files[p]) # 0
  <2>1. Lines(p) = Ending(files[p], MaxLines)
    BY <1>1, <1>3 DEF Lines
  <2>2. IsShown(Ending(files[p], MaxLines), files[p], Len(files[p]))
    <3>1. PICK n : n = Len(files[p])
      OBVIOUS
    <3>2. IsPart(files[p], files[p], 0, n)
      BY <1>1, <3>1, WholePart
    <3>3. n # 0 /\ 0 <= n
      BY <1>1, <1>3, <3>1
    <3>4. IsShown(Ending(files[p], MaxLines), files[p], n)
      BY <1>1, <3>1, <3>2, <3>3, EndingShown
    <3> QED BY <3>1, <3>4
  <2>3. Ending(files[p], MaxLines) \in Seq(Nat)
    BY <1>3, <2>2 DEF IsShown, IsPart
  <2> QED BY <1>1, <2>1, <2>2, <2>3
<1> QED BY <1>2, <1>3

\* What is shown of the file up to a place, joined with what comes after it, shows the file.
LEMMA ReadOnShown ==
  ASSUME NEW s \in Seq(Nat), \A i \in 1 .. Len(s) : s[i] # 0, NEW n, n = Len(s), NEW k \in Nat, k <= n,
         NEW x, IsShown(x, s, k), NEW new, new = SubSeq(s, k + 1, n),
         NEW y, y = Ending(IF x = << 0 >> /\ new # <<>> THEN new ELSE x \o new, MaxLines)
  PROVE  IsShown(y, s, n)
<1>1. n \in Nat /\ MaxLines \in Nat \ {0}
  BY LogsAssumption
<1>2. IsPart(new, s, k, n)
  BY <1>1, PartAfter
<1>3. new \in Seq(Nat) /\ Len(new) = n - k
  BY <1>2 DEF IsPart
<1>4. CASE k = 0
  <2>1. x = <<0>>
    BY <1>4 DEF IsShown
  <2>2. CASE n = 0
    <3>1. new = <<>>
      BY <1>3, <1>4, <2>2
    <3>2. <<0>> \in Seq(Nat) /\ <<0>> \o <<>> = <<0>>
      <4>1. <<0>> \in Seq(Nat)
        OBVIOUS
      <4> QED BY <4>1, JoinNone
    <3>3. y = Ending(<<0>>, MaxLines)
      BY <2>1, <3>1, <3>2
    <3>4. IsPart(Ending(<<0>>, MaxLines), <<0>>, IF Len(<<0>>) > MaxLines THEN Len(<<0>>) - MaxLines ELSE 0, Len(<<0>>))
      BY <1>1, <3>2, EndingIs
    <3>5. Len(<<0>>) = 1 /\ ~(Len(<<0>>) > MaxLines)
      BY <1>1
    <3>6. IsPart(y, <<0>>, 0, 1)
      BY <3>3, <3>4, <3>5
    <3>7. IsPart(<<0>>, <<0>>, 0, 1)
      BY <3>2, <3>5, WholePart
    <3>8. y = <<0>>
      BY <3>6, <3>7, SamePart
    <3> QED BY <2>2, <3>8 DEF IsShown
  <2>3. CASE n # 0
    <3>1. new # <<>>
      BY <1>1, <1>3, <1>4, <2>3
    <3>2. y = Ending(new, MaxLines)
      BY <2>1, <3>1
    <3>3. IsPart(new, s, 0, n) /\ 0 <= n
      BY <1>1, <1>2, <1>4
    <3> QED BY <2>3, <3>2, <3>3, EndingShown
  <2> QED BY <2>2, <2>3
<1>5. CASE k # 0
  <2>1. PICK m : m = IF k > MaxLines THEN k - MaxLines ELSE 0
    OBVIOUS
  <2>2. m \in Nat /\ m <= k /\ (m = 0 \/ k - m >= MaxLines) /\ m < k /\ IsPart(x, s, m, k)
    BY <1>1, <1>5, <2>1 DEF IsShown
  <2>3. x # <<0>>
    <3>1. Len(x) = k - m /\ x \in Seq(Nat) /\ \A i \in 1 .. Len(x) : m + i \in 1 .. k /\ x[i] = s[m + i]
      BY <2>2 DEF IsPart
    <3>2. 1 \in 1 .. Len(x)
      BY <2>2, <3>1
    <3>3. m + 1 \in 1 .. n /\ x[1] = s[m + 1]
      BY <1>1, <3>1, <3>2
    <3>4. x[1] # 0
      BY <3>3
    <3>5. <<0>>[1] = 0
      OBVIOUS
    <3> QED BY <3>4, <3>5
  <2>4. y = Ending(x \o new, MaxLines)
    BY <2>3
  <2>5. IsPart(x \o new, s, m, n)
    BY <1>1, <1>2, <2>2, PartsJoin
  <2>6. n # 0 /\ m <= n /\ (m = 0 \/ n - m >= MaxLines)
    BY <1>1, <1>5, <2>2
  <2> QED BY <2>2, <2>4, <2>5, <2>6, EndingShown
<1> QED BY <1>4, <1>5

LEMMA TabParts ==
  ASSUME LogTyped, TabInv
  PROVE  /\ Stored(files) /\ Len(files) \in Nat \ {0} /\ path \in {0, Len(files)} /\ path \in 0 .. Len(files) /\ recs \in Nat
         /\ TabRecord(tab) /\ tab.fd \in 0 .. Len(files) /\ tab.id \in 0 .. Len(files) /\ tab.pos \in Nat
         /\ tab.len \in Nat /\ tab.lines \in Seq(Nat)
         /\ SizeOf(path) \in Nat /\ SizeOf(tab.fd) \in Nat
         /\ path # 0 => path \in 1 .. Len(files) /\ SizeOf(path) = Len(files[path])
<1>1. /\ Stored(files) /\ Len(files) \in Nat \ {0} /\ path \in {0, Len(files)} /\ path \in 0 .. Len(files) /\ recs \in Nat
      /\ TabRecord(tab) /\ tab.fd \in 0 .. Len(files) /\ tab.id \in 0 .. Len(files) /\ tab.pos \in Nat
      /\ tab.len \in Nat /\ tab.lines \in Seq(Nat)
  BY DEF LogTyped, FilesTyped, TabInv, TabTyped
<1>2. \A f \in 0 .. Len(files) : SizeOf(f) \in Nat /\ (f # 0 => SizeOf(f) = Len(files[f]))
  BY <1>1 DEF SizeOf, Stored
<1> QED BY <1>1, <1>2

\* Scrolling changes nothing of what the tab shows.
SameText(s, t) ==
  /\ TabRecord(s) /\ s.pc = t.pc /\ s.fd = t.fd /\ s.pos = t.pos /\ s.lines = t.lines /\ s.id = t.id /\ s.len = t.len
  /\ s.dirty = t.dirty
LEMMA ScrolledIs ==
  ASSUME NEW t, TabRecord(t), NEW s, s = t \/ \E x : s = [t EXCEPT !.scroll = x]
  PROVE  SameText(s, t)
<1>1. CASE s = t
  BY <1>1 DEF SameText
<1>2. ASSUME NEW x, s = [t EXCEPT !.scroll = x] PROVE SameText(s, t)
  <2>1. s = [pc |-> t.pc, fd |-> t.fd, pos |-> t.pos, lines |-> t.lines, id |-> t.id, len |-> t.len,
             dirty |-> t.dirty, auto |-> t.auto, scroll |-> x, odd |-> t.odd]
    BY <1>2 DEF TabRecord
  <2> QED BY <2>1 DEF TabRecord, SameText
<1> QED BY <1>1, <1>2

LEMMA DrawnIs ==
  ASSUME NEW t, TabRecord(t)
  PROVE  SameText(Drawn(t), t) /\ SameText(AtEnd(t), t) /\ SameText(Drawn(AtEnd(t)), t)
<1>1. \A u : Drawn(u) = u \/ \E x : Drawn(u) = [u EXCEPT !.scroll = x]
  BY Zenon DEF Drawn
<1>2. AtEnd(t) = t \/ \E x : AtEnd(t) = [t EXCEPT !.scroll = x]
  BY Zenon DEF AtEnd
<1>3. SameText(Drawn(t), t) /\ SameText(AtEnd(t), t)
  BY <1>1, <1>2, ScrolledIs
<1>4. TabRecord(AtEnd(t))
  BY <1>3 DEF SameText
<1>5. SameText(Drawn(AtEnd(t)), AtEnd(t))
  BY <1>1, <1>4, ScrolledIs
<1> QED BY <1>3, <1>5 DEF SameText

LEMMA SameTextKeeps ==
  ASSUME NEW t, NEW s, SameText(s, t), NEW n, TabTyped(t, n)
  PROVE  /\ TabTyped(s, n)
         /\ \A F, p : Shows(t, F, p) => Shows(s, F, p)
<1>1. TabTyped(s, n)
  BY DEF SameText, TabTyped
<1>2. \A F, p : Shows(t, F, p) => Shows(s, F, p)
  BY DEF SameText, Shows, UpTo
<1> QED BY <1>1, <1>2

LEMMA TabStepKeeps ==
  ASSUME LogTyped, TabInv, UNCHANGED Writers, NEW t, TabTyped(t, Len(files)), tab' = Drawn(t) \/ tab' = Drawn(AtEnd(t)),
         ~slipped' => Shows(t, files, path)
  PROVE  TabInv'
<1>1. SameText(tab', t)
  BY DrawnIs DEF TabTyped
<1>2. TabTyped(tab', Len(files)) /\ (Shows(t, files, path) => Shows(tab', files, path))
  BY <1>1, SameTextKeeps
<1> QED BY <1>2 DEF Writers, TabInv

LEMMA ReadLogFileShows ==
  ASSUME LogTyped, TabInv, NEW from, NEW to, ReadLogFile(from, to), (from = "reload" /\ to = "mark") \/ (from = "again" /\ to = "idle")
  PROVE  TabInv'
<1>1. UNCHANGED Writers /\ slipped' = slipped
  BY Zenon DEF ReadLogFile, TabStep
<1>2. PICK x : x = Lines(path)
  OBVIOUS
<1>3. PICK read : read = [tab EXCEPT !.lines = x, !.dirty = FALSE]
  OBVIOUS
<1>4. tab' = Drawn(IF path = 0 THEN AtEnd([read EXCEPT !.pc = to, !.fd = 0])
                   ELSE [read EXCEPT !.pc = IF from = "reload" THEN "open" ELSE "reopen", !.pos = SizeOf(path)])
  BY <1>2, <1>3, Zenon DEF ReadLogFile, TabStep
<1>5. read = [pc |-> tab.pc, fd |-> tab.fd, pos |-> tab.pos, lines |-> x, id |-> tab.id, len |-> tab.len,
              dirty |-> FALSE, auto |-> tab.auto, scroll |-> tab.scroll, odd |-> tab.odd]
  BY <1>3, TabParts DEF TabRecord
<1>6. CASE path = 0
  <2>1. PICK t : t = [read EXCEPT !.pc = to, !.fd = 0]
    OBVIOUS
  <2>2. t = [pc |-> to, fd |-> 0, pos |-> tab.pos, lines |-> x, id |-> tab.id, len |-> tab.len,
             dirty |-> FALSE, auto |-> tab.auto, scroll |-> tab.scroll, odd |-> tab.odd]
    BY <1>5, <2>1
  <2>3. TabRecord(t) /\ t.pc = to /\ t.fd = 0 /\ t.pos = tab.pos /\ t.lines = x /\ t.id = tab.id /\ t.len = tab.len
    BY <2>2 DEF TabRecord
  <2>4. x \in Seq(Nat)
    <3>1. x = <<0>>
      BY <1>2, <1>6 DEF Lines
    <3> QED BY <3>1
  <2>5. TabTyped(t, Len(files))
    BY <2>3, <2>4, TabParts DEF TabTyped
  <2>6. Shows(t, files, path)
    BY <1>6, <2>3 DEF Shows
  <2>7. tab' = Drawn(AtEnd(t))
    BY <1>4, <1>6, <2>1
  <2> QED BY <1>1, <2>5, <2>6, <2>7, TabStepKeeps
<1>7. CASE path # 0
  <2>1. PICK pc : pc = IF from = "reload" THEN "open" ELSE "reopen"
    OBVIOUS
  <2>2. PICK n : n = SizeOf(path)
    OBVIOUS
  <2>3. PICK t : t = [read EXCEPT !.pc = pc, !.pos = n]
    OBVIOUS
  <2>4. t = [pc |-> pc, fd |-> tab.fd, pos |-> n, lines |-> x, id |-> tab.id, len |-> tab.len,
             dirty |-> FALSE, auto |-> tab.auto, scroll |-> tab.scroll, odd |-> tab.odd]
    BY <1>5, <2>3
  <2>5. TabRecord(t) /\ t.pc = pc /\ t.fd = tab.fd /\ t.pos = n /\ t.lines = x /\ t.id = tab.id /\ t.len = tab.len
    BY <2>4 DEF TabRecord
  <2>6. path \in 1 .. Len(files) /\ x \in Seq(Nat) /\ IsShown(x, files[path], n) /\ n = Len(files[path]) /\ n \in Nat
    BY <1>2, <1>7, <2>2, TabParts, LinesShown
  <2>7. TabTyped(t, Len(files))
    BY <2>1, <2>5, <2>6, TabParts DEF TabTyped
  <2>8. UpTo(files, path, t)
    BY <2>5, <2>6 DEF UpTo
  <2>9. Shows(t, files, path)
    BY <1>7, <2>1, <2>5, <2>8 DEF Shows
  <2>10. tab' = Drawn(t)
    BY <1>4, <1>7, <2>1, <2>2, <2>3
  <2> QED BY <1>1, <2>7, <2>9, <2>10, TabStepKeeps
<1> QED BY <1>6, <1>7

LEMMA ReloadOpenShows ==
  ASSUME LogTyped, TabInv, ReloadOpen
  PROVE  TabInv'
<1>1. UNCHANGED Writers /\ slipped' = slipped /\ tab.pc = "open" /\ tab' = Drawn([tab EXCEPT !.pc = "mark", !.fd = path])
  BY DEF ReloadOpen, TabStep
<1>2. PICK t : t = [tab EXCEPT !.pc = "mark", !.fd = path]
  OBVIOUS
<1>3. t = [pc |-> "mark", fd |-> path, pos |-> tab.pos, lines |-> tab.lines, id |-> tab.id, len |-> tab.len,
           dirty |-> tab.dirty, auto |-> tab.auto, scroll |-> tab.scroll, odd |-> tab.odd]
  BY <1>2, TabParts DEF TabRecord
<1>4. /\ TabRecord(t) /\ t.pc = "mark" /\ t.fd = path /\ t.pos = tab.pos /\ t.lines = tab.lines /\ t.id = tab.id
      /\ t.len = tab.len /\ t.dirty = tab.dirty
  BY <1>3 DEF TabRecord
<1>5. TabTyped(t, Len(files))
  BY <1>4, TabParts DEF TabTyped
<1>6. ASSUME ~slipped PROVE Shows(t, files, path)
  <2>1. path # 0 /\ (~tab.dirty => UpTo(files, path, tab))
    BY <1>1, <1>6 DEF TabInv, Shows
  <2> QED BY <1>4, <2>1 DEF Shows, UpTo
<1> QED BY <1>1, <1>2, <1>5, <1>6, TabStepKeeps

LEMMA ReloadMarkShows ==
  ASSUME LogTyped, TabInv, ReloadMark
  PROVE  TabInv'
<1>1. PICK n : n = SizeOf(path)
  OBVIOUS
<1>2. /\ UNCHANGED Writers /\ slipped' = (slipped \/ tab.dirty) /\ tab.pc = "mark"
      /\ tab' = Drawn(AtEnd([tab EXCEPT !.pc = "idle", !.id = path, !.len = n, !.auto = TRUE]))
  BY <1>1 DEF ReloadMark, TabStep
<1>3. PICK t : t = [tab EXCEPT !.pc = "idle", !.id = path, !.len = n, !.auto = TRUE]
  OBVIOUS
<1>4. t = [pc |-> "idle", fd |-> tab.fd, pos |-> tab.pos, lines |-> tab.lines, id |-> path, len |-> n,
           dirty |-> tab.dirty, auto |-> TRUE, scroll |-> tab.scroll, odd |-> tab.odd]
  BY <1>3, TabParts DEF TabRecord
<1>5. /\ TabRecord(t) /\ t.pc = "idle" /\ t.fd = tab.fd /\ t.pos = tab.pos /\ t.lines = tab.lines /\ t.id = path
      /\ t.len = n /\ t.dirty = tab.dirty
  BY <1>4 DEF TabRecord
<1>6. TabTyped(t, Len(files))
  BY <1>1, <1>5, TabParts DEF TabTyped
<1>7. ASSUME ~slipped' PROVE Shows(t, files, path)
  <2>1. ~slipped /\ ~tab.dirty
    BY <1>2, <1>7
  <2>2. tab.fd # 0 => path # 0 /\ tab.fd = path /\ UpTo(files, path, tab)
    BY <1>2, <2>1 DEF TabInv, Shows
  <2> QED BY <1>5, <2>1, <2>2 DEF Shows, UpTo
<1> QED BY <1>2, <1>3, <1>6, <1>7, TabStepKeeps

LEMMA PollStatShows ==
  ASSUME LogTyped, TabInv, PollStat
  PROVE  TabInv'
<1>1. PICK n : n = SizeOf(path)
  OBVIOUS
<1>2. PICK again \in BOOLEAN : again <=> (path # 0 /\ path # tab.id) \/ n < tab.len \/ tab.fd = 0
  OBVIOUS
<1>3. /\ UNCHANGED Writers /\ tab.pc = "idle"
      /\ slipped' = (slipped \/ (tab.dirty /\ path = tab.id /\ n >= tab.len))
      /\ tab' = Drawn(IF again /\ path = 0 /\ tab.fd = 0 THEN tab
                      ELSE [tab EXCEPT !.pc = IF again THEN "again" ELSE "more", !.id = IF again THEN path ELSE @,
                                       !.len = n, !.dirty = FALSE])
  <2>1. again = ((path # 0 /\ path # tab.id) \/ n < tab.len \/ tab.fd = 0)
    BY <1>2
  <2> QED BY <1>1, <2>1, Zenon DEF PollStat, TabStep
<1>4. CASE again /\ path = 0 /\ tab.fd = 0
  <2>1. tab' = Drawn(tab) /\ TabTyped(tab, Len(files))
    BY <1>3, <1>4 DEF TabInv
  <2>2. ~slipped' => Shows(tab, files, path)
    BY <1>3 DEF TabInv
  <2> QED BY <1>3, <2>1, <2>2, TabStepKeeps
<1>5. CASE ~(again /\ path = 0 /\ tab.fd = 0)
  <2>1. PICK pc, id : pc = (IF again THEN "again" ELSE "more") /\ id = (IF again THEN path ELSE tab.id)
    OBVIOUS
  <2>2. PICK t : t = [tab EXCEPT !.pc = pc, !.id = id, !.len = n, !.dirty = FALSE]
    OBVIOUS
  <2>3. tab' = Drawn(t)
    BY <1>3, <1>5, <2>1, <2>2
  <2>4. t = [pc |-> pc, fd |-> tab.fd, pos |-> tab.pos, lines |-> tab.lines, id |-> id, len |-> n,
             dirty |-> FALSE, auto |-> tab.auto, scroll |-> tab.scroll, odd |-> tab.odd]
    BY <2>2, TabParts DEF TabRecord
  <2>5. /\ TabRecord(t) /\ t.pc = pc /\ t.fd = tab.fd /\ t.pos = tab.pos /\ t.lines = tab.lines /\ t.id = id
        /\ t.len = n
    BY <2>4 DEF TabRecord
  <2>6. TabTyped(t, Len(files))
    BY <1>1, <1>2, <2>1, <2>5, TabParts DEF TabTyped
  <2>7. ASSUME ~slipped' PROVE Shows(t, files, path)
    <3>1. CASE again
      BY <2>1, <2>5, <3>1 DEF Shows
    <3>2. CASE ~again
      <4>1. ~slipped /\ ~(tab.dirty /\ path = tab.id /\ n >= tab.len)
        BY <1>3, <2>7
      <4>2. n >= tab.len
        BY <1>1, <1>2, <3>2, TabParts
      <4>3. tab.id = path /\ path # 0 => tab.fd = path /\ UpTo(files, path, tab)
        BY <1>2, <1>3, <3>2, <4>1, <4>2 DEF TabInv, Shows
      <4> QED BY <2>1, <2>5, <3>2, <4>3 DEF Shows, UpTo
    <3> QED BY <3>1, <3>2
  <2> QED BY <1>3, <2>3, <2>6, <2>7, TabStepKeeps
<1> QED BY <1>4, <1>5

LEMMA PollReopenShows ==
  ASSUME LogTyped, TabInv, PollReopen
  PROVE  TabInv'
<1>1. UNCHANGED Writers /\ slipped' = slipped /\ tab.pc = "reopen" /\ tab' = Drawn(AtEnd([tab EXCEPT !.pc = "idle", !.fd = path]))
  BY DEF PollReopen, TabStep
<1>2. PICK t : t = [tab EXCEPT !.pc = "idle", !.fd = path]
  OBVIOUS
<1>3. t = [pc |-> "idle", fd |-> path, pos |-> tab.pos, lines |-> tab.lines, id |-> tab.id, len |-> tab.len,
           dirty |-> tab.dirty, auto |-> tab.auto, scroll |-> tab.scroll, odd |-> tab.odd]
  BY <1>2, TabParts DEF TabRecord
<1>4. /\ TabRecord(t) /\ t.pc = "idle" /\ t.fd = path /\ t.pos = tab.pos /\ t.lines = tab.lines /\ t.id = tab.id
      /\ t.len = tab.len /\ t.dirty = tab.dirty
  BY <1>3 DEF TabRecord
<1>5. TabTyped(t, Len(files))
  BY <1>4, TabParts DEF TabTyped
<1>6. ASSUME ~slipped PROVE Shows(t, files, path)
  <2>1. tab.id = path /\ path # 0 /\ ~tab.dirty => UpTo(files, path, tab)
    BY <1>1, <1>6 DEF TabInv, Shows
  <2> QED BY <1>4, <2>1 DEF Shows, UpTo
<1> QED BY <1>1, <1>2, <1>5, <1>6, TabStepKeeps

LEMMA PollMoreShows ==
  ASSUME LogTyped, TabInv, PollMore
  PROVE  TabInv'
<1>1. PICK n, s : n = SizeOf(tab.fd) /\ s = files[tab.fd]
  OBVIOUS
<1>2. PICK new : new = SubSeq(s, tab.pos + 1, n)
  OBVIOUS
<1>3. PICK y : y = Ending(IF tab.lines = <<0>> /\ new # <<>> THEN new ELSE tab.lines \o new, MaxLines)
  OBVIOUS
<1>4. PICK m : m = IF n > tab.pos THEN n ELSE tab.pos
  OBVIOUS
<1>5. PICK t : t = [tab EXCEPT !.pc = "idle", !.pos = m, !.lines = y]
  OBVIOUS
<1>6. UNCHANGED Writers /\ slipped' = slipped /\ tab.pc = "more" /\ tab' = Drawn(AtEnd(t))
  <2>1. UNCHANGED Writers /\ slipped' = slipped /\ tab.pc = "more" /\ tab' = Drawn(AtEnd(ReadOn(tab)))
    BY DEF PollMore, TabStep
  <2>2. ReadOn(tab) = [tab EXCEPT !.pc = "idle", !.pos = IF n > @ THEN n ELSE @,
                         !.lines = Ending(IF @ = <<0>> /\ new # <<>> THEN new ELSE @ \o new, MaxLines)]
    BY <1>1, <1>2, Zenon DEF ReadOn
  <2>3. ReadOn(tab) = t
    BY <1>3, <1>4, <1>5, <2>2
  <2> QED BY <2>1, <2>3
<1>7. t = [pc |-> "idle", fd |-> tab.fd, pos |-> m, lines |-> y, id |-> tab.id, len |-> tab.len,
           dirty |-> tab.dirty, auto |-> tab.auto, scroll |-> tab.scroll, odd |-> tab.odd]
  BY <1>5, TabParts DEF TabRecord
<1>8. /\ TabRecord(t) /\ t.pc = "idle" /\ t.fd = tab.fd /\ t.pos = m /\ t.lines = y /\ t.id = tab.id
      /\ t.len = tab.len /\ t.dirty = tab.dirty
  BY <1>7 DEF TabRecord
<1>9. /\ tab.fd \in 1 .. Len(files) /\ n = Len(s) /\ s \in Seq(Nat) /\ n \in Nat /\ m \in Nat /\ tab.pos \in Nat
      /\ tab.lines \in Seq(Nat)
  <2>1. tab.fd \in 1 .. Len(files) /\ tab.fd # 0
    BY <1>6, TabParts DEF TabInv, TabTyped
  <2>2. n = Len(s) /\ s \in Seq(Nat)
    BY <1>1, <2>1, TabParts DEF SizeOf, Stored
  <2> QED BY <1>4, <2>1, <2>2, TabParts
<1>10. y \in Seq(Nat)
  <2>1. new \in Seq(Nat)
    <3>1. PICK k : k = tab.pos + 1
      OBVIOUS
    <3>2. k \in Nat \ {0} /\ n <= Len(s)
      BY <1>9, <3>1
    <3>3. SubSeq(s, k, n) \in Seq(Nat)
      BY <1>9, <3>2, PartIs
    <3> QED BY <1>2, <3>1, <3>3
  <2>2. tab.lines \o new \in Seq(Nat)
    BY <1>9, <2>1
  <2>3. \A x \in Seq(Nat) : Ending(x, MaxLines) \in Seq(Nat)
    BY LogsAssumption, EndingIs DEF IsPart
  <2> QED BY <1>3, <2>1, <2>2, <2>3
<1>11. TabTyped(t, Len(files))
  BY <1>8, <1>9, <1>10, TabParts DEF TabTyped
<1>12. ASSUME ~slipped PROVE Shows(t, files, path)
  <2> SUFFICES ASSUME tab.id = path, path # 0, ~tab.dirty PROVE tab.fd = path /\ UpTo(files, path, t)
    BY <1>8 DEF Shows
  <2>1. tab.fd = path /\ UpTo(files, path, tab)
    BY <1>6, <1>9, <1>12 DEF TabInv, Shows
  <2>2. tab.pos <= n /\ IsShown(tab.lines, s, tab.pos) /\ m = n
    BY <1>1, <1>4, <1>9, <2>1 DEF UpTo
  <2>3. \A i \in 1 .. Len(s) : s[i] # 0
    BY <1>1, <1>9, TabParts DEF TabInv, InOrder
  <2>4. IsShown(y, s, n)
    BY <1>2, <1>3, <1>9, <2>2, <2>3, ReadOnShown
  <2> QED BY <1>1, <1>8, <1>9, <2>1, <2>2, <2>4 DEF UpTo
<1> QED BY <1>6, <1>11, <1>12, TabStepKeeps

\* The keys that scroll, filter or reload.
LEMMA KeysShow ==
  ASSUME LogTyped, TabInv, Scroll \/ CycleFilter \/ CycleSource
  PROVE  TabInv'
<1>1. PICK t : /\ UNCHANGED Writers /\ slipped' = slipped /\ (tab' = Drawn(t) \/ tab' = Drawn(AtEnd(t))) /\ tab.pc = "idle"
               /\ \/ \E scroll, auto : t = [tab EXCEPT !.scroll = scroll, !.auto = auto]
                  \/ \E odd, auto : t = [tab EXCEPT !.odd = odd, !.auto = auto]
                  \/ t = [tab EXCEPT !.pc = "reload"]
  <2>1. CASE Scroll
    <3>1. PICK scroll, auto : tab' = Drawn([tab EXCEPT !.scroll = scroll, !.auto = auto])
      BY <2>1, Zenon DEF Scroll, TabStep
    <3>2. UNCHANGED Writers /\ slipped' = slipped /\ tab.pc = "idle"
      BY <2>1, Zenon DEF Scroll, TabStep
    <3>3. PICK t : t = [tab EXCEPT !.scroll = scroll, !.auto = auto]
      OBVIOUS
    <3> QED BY <3>1, <3>2, <3>3
  <2>2. CASE CycleFilter
    <3>1. PICK odd, auto : tab' = Drawn(AtEnd([tab EXCEPT !.odd = odd, !.auto = auto]))
      BY <2>2, Zenon DEF CycleFilter, TabStep
    <3>2. UNCHANGED Writers /\ slipped' = slipped /\ tab.pc = "idle"
      BY <2>2, Zenon DEF CycleFilter, TabStep
    <3>3. PICK t : t = [tab EXCEPT !.odd = odd, !.auto = auto]
      OBVIOUS
    <3>4. tab' = Drawn(AtEnd(t)) /\ \E o, a : t = [tab EXCEPT !.odd = o, !.auto = a]
      BY <3>1, <3>3, Zenon
    <3> QED BY <3>2, <3>4
  <2>3. CASE CycleSource
    BY <2>3, Zenon DEF CycleSource, TabStep
  <2> QED BY <2>1, <2>2, <2>3
<1>2. PICK pc, auto, scroll, odd :
        t = [pc |-> pc, fd |-> tab.fd, pos |-> tab.pos, lines |-> tab.lines, id |-> tab.id, len |-> tab.len,
             dirty |-> tab.dirty, auto |-> auto, scroll |-> scroll, odd |-> odd] /\ pc \in {"idle", "reload"}
  <2>1. ASSUME NEW x, NEW a, t = [tab EXCEPT !.scroll = x, !.auto = a] PROVE
        t = [pc |-> "idle", fd |-> tab.fd, pos |-> tab.pos, lines |-> tab.lines, id |-> tab.id, len |-> tab.len,
             dirty |-> tab.dirty, auto |-> a, scroll |-> x, odd |-> tab.odd]
    BY <1>1, <2>1, TabParts DEF TabRecord
  <2>2. ASSUME NEW x, NEW a, t = [tab EXCEPT !.odd = x, !.auto = a] PROVE
        t = [pc |-> "idle", fd |-> tab.fd, pos |-> tab.pos, lines |-> tab.lines, id |-> tab.id, len |-> tab.len,
             dirty |-> tab.dirty, auto |-> a, scroll |-> tab.scroll, odd |-> x]
    BY <1>1, <2>2, TabParts DEF TabRecord
  <2>3. ASSUME t = [tab EXCEPT !.pc = "reload"] PROVE
        t = [pc |-> "reload", fd |-> tab.fd, pos |-> tab.pos, lines |-> tab.lines, id |-> tab.id, len |-> tab.len,
             dirty |-> tab.dirty, auto |-> tab.auto, scroll |-> tab.scroll, odd |-> tab.odd]
    BY <2>3, TabParts DEF TabRecord
  <2>4. CASE \E scroll, auto : t = [tab EXCEPT !.scroll = scroll, !.auto = auto]
    <3>1. PICK x, a : t = [tab EXCEPT !.scroll = x, !.auto = a]
      BY <2>4
    <3> QED BY <2>1, <3>1
  <2>5. CASE \E odd, auto : t = [tab EXCEPT !.odd = odd, !.auto = auto]
    <3>1. PICK x, a : t = [tab EXCEPT !.odd = x, !.auto = a]
      BY <2>5
    <3>2. t = [pc |-> "idle", fd |-> tab.fd, pos |-> tab.pos, lines |-> tab.lines, id |-> tab.id, len |-> tab.len,
               dirty |-> tab.dirty, auto |-> a, scroll |-> tab.scroll, odd |-> x]
      BY <2>2, <3>1, Zenon
    <3> WITNESS "idle", a, tab.scroll, x
    <3> QED BY <3>2, Zenon
  <2>6. CASE t = [tab EXCEPT !.pc = "reload"]
    BY <2>3, <2>6
  <2> QED BY <1>1, <2>4, <2>5, <2>6, Zenon
<1>3. /\ TabRecord(t) /\ t.pc \in {"idle", "reload"} /\ t.fd = tab.fd /\ t.pos = tab.pos /\ t.lines = tab.lines /\ t.id = tab.id
      /\ t.len = tab.len /\ t.dirty = tab.dirty
  BY <1>2 DEF TabRecord
<1>4. TabTyped(t, Len(files))
  BY <1>3, TabParts DEF TabTyped
<1>5. ASSUME ~slipped PROVE Shows(t, files, path)
  <2>1. Shows(tab, files, path)
    BY <1>5 DEF TabInv
  <2> QED BY <1>1, <1>3, <2>1 DEF Shows, UpTo
<1> QED BY <1>1, <1>4, <1>5, TabStepKeeps

\* Records that are added after a place change nothing of what is shown up to it.
LEMMA UpToKept ==
  ASSUME LogTyped, LogTyped', NEW f \in Nat, FileStep(f), Appends(f), NEW p \in 1 .. Len(files),
         NEW t, t.pos \in Nat, UpTo(files, p, t)
  PROVE  UpTo(files', p, t)
<1>1. /\ Stored(files) /\ Stored(files') /\ Len(files) \in Nat /\ files[p] \in Seq(Nat) /\ Held(files, p) = files[p]
      /\ recs' \in Nat /\ MaxLines \in Nat
  BY LogsAssumption DEF LogTyped, FilesTyped, Stored, Held
<1>2. /\ Len(files'[p]) \in Nat /\ Len(files[p]) \in Nat /\ Len(files'[p]) >= Len(files[p])
      /\ \A i \in 1 .. Len(files[p]) : files'[p][i] = files[p][i]
  <2>1. CASE files' = files
    BY <1>1, <2>1
  <2>2. CASE Grown(files, files', f, recs') /\ f = p
    <3>1. Len(files'[p]) = Len(files[p]) + 1 /\ \A i \in 1 .. Len(files[p]) : files'[p][i] = files[p][i]
      BY <1>1, <2>2, GrownRecords
    <3> QED BY <1>1, <3>1
  <2>3. CASE (Grown(files, files', f, recs') \/ Emptied(files, files', f)) /\ f # p
    BY <1>1, <2>3 DEF Grown, Emptied, Beside
  <2> QED BY <1>1, <2>1, <2>2, <2>3 DEF FileStep, Appends
<1>3. t.pos <= Len(files[p]) /\ IsShown(t.lines, files[p], t.pos)
  BY DEF UpTo
<1>4. IsShown(t.lines, files'[p], t.pos)
  <2>1. CASE t.pos = 0
    BY <1>3, <2>1 DEF IsShown
  <2>2. CASE t.pos # 0
    <3>1. PICK m : m = IF t.pos > MaxLines THEN t.pos - MaxLines ELSE 0
      OBVIOUS
    <3>2. IsPart(t.lines, files[p], m, t.pos)
      BY <1>3, <2>2, <3>1 DEF IsShown
    <3>3. \A i \in 1 .. t.pos : files'[p][i] = files[p][i]
      BY <1>2, <1>3
    <3>4. IsPart(t.lines, files'[p], m, t.pos)
      BY <3>2, <3>3 DEF IsPart
    <3> QED BY <2>2, <3>1, <3>4 DEF IsShown
  <2> QED BY <2>1, <2>2
<1> QED BY <1>2, <1>3, <1>4 DEF UpTo

LEMMA TabWriterStep ==
  ASSUME LogTyped, LogTyped', TabInv, WriterStep
  PROVE  TabInv'
<1>1. PICK f \in Nat : FileStep(f) /\ PathStep(f) /\ TabNoted(f)
  BY DEF WriterStep
<1>2. InOrder(files', recs')
  BY <1>1, InOrderStep DEF TabInv
<1>3. /\ Len(files) \in Nat \ {0} /\ Len(files') \in Nat /\ Len(files') >= Len(files) /\ path \in {0, Len(files)}
      /\ path' \in {0, path} \/ (path = 0 /\ path' > Len(files))
  <2>1. Len(files) \in Nat \ {0} /\ Len(files') \in Nat /\ path \in {0, Len(files)}
    BY DEF LogTyped, FilesTyped
  <2> QED BY <1>1, <2>1 DEF PathStep
<1>4. ~slipped' => ~slipped /\ (path' # 0 \/ path = 0 \/ tab.pc \notin {"open", "mark"})
  BY <1>1 DEF TabNoted
<1>5. CASE tab' = tab /\ Appends(f)
  <2>1. TabTyped(tab', Len(files'))
    BY <1>3, <1>5 DEF TabInv, TabTyped
  <2>2. ASSUME ~slipped' PROVE Shows(tab', files', path')
    <3>1. Shows(tab, files, path)
      BY <1>4, <2>2 DEF TabInv
    <3>2. ASSUME path # 0, UpTo(files, path, tab) PROVE UpTo(files', path, tab)
      <4>1. path \in 1 .. Len(files) /\ tab.pos \in Nat
        BY <3>2, TabParts
      <4> QED BY <1>1, <1>5, <3>2, <4>1, UpToKept
    <3>3. tab.pc \in {"open", "mark"} /\ path # 0 => path' = path
      BY <1>3, <1>4, <2>2
    <3>4. path' # 0 /\ tab.id = path' => path' = path
      BY <1>3, TabParts
    <3> QED BY <1>5, <3>1, <3>2, <3>3, <3>4 DEF Shows
  <2> QED BY <1>2, <2>1, <2>2 DEF TabInv
<1>6. CASE \E pc : tab' = [tab EXCEPT !.pc = pc, !.dirty = TRUE] /\ pc \in {tab.pc, "reload"}
  <2>1. PICK pc : tab' = [tab EXCEPT !.pc = pc, !.dirty = TRUE] /\ pc \in {tab.pc, "reload"}
    BY <1>6
  <2>2. tab' = [pc |-> pc, fd |-> tab.fd, pos |-> tab.pos, lines |-> tab.lines, id |-> tab.id, len |-> tab.len,
                dirty |-> TRUE, auto |-> tab.auto, scroll |-> tab.scroll, odd |-> tab.odd]
    BY <2>1, TabParts DEF TabRecord
  <2>3. /\ TabRecord(tab') /\ tab'.pc = pc /\ tab'.fd = tab.fd /\ tab'.pos = tab.pos /\ tab'.lines = tab.lines
        /\ tab'.id = tab.id /\ tab'.len = tab.len /\ tab'.dirty
    BY <2>2 DEF TabRecord
  <2>4. TabTyped(tab', Len(files'))
    BY <1>3, <2>1, <2>3 DEF TabInv, TabTyped
  <2>5. ASSUME ~slipped' PROVE Shows(tab', files', path')
    <3>1. Shows(tab, files, path)
      BY <1>4, <2>5 DEF TabInv
    <3>2. tab.pc \in {"open", "mark"} /\ path # 0 => path' = path
      BY <1>3, <1>4, <2>5
    <3> QED BY <2>1, <2>3, <3>1, <3>2 DEF Shows
  <2> QED BY <1>2, <2>4, <2>5 DEF TabInv
<1>7. CASE tab' = [tab EXCEPT !.dirty = TRUE]
  <2>1. tab' = [tab EXCEPT !.pc = tab.pc, !.dirty = TRUE]
    BY <1>7, TabParts DEF TabRecord
  <2> QED BY <1>6, <2>1
<1>8. CASE tab' = [tab EXCEPT !.pc = "reload", !.dirty = TRUE]
  BY <1>6, <1>8
<1> QED BY <1>1, <1>5, <1>7, <1>8 DEF TabNoted

LEMMA TabInit ==
  ASSUME LogInit
  PROVE  TabInv
<1>1. files = <<<<>>>> /\ path = 1 /\ recs = 0 /\ tab = NewTab
  BY DEF LogInit
<1>2. Len(files) = 1 /\ files[1] = <<>>
  BY <1>1
<1>3. InOrder(files, recs)
  BY <1>2 DEF InOrder
<1>4. /\ TabRecord(tab) /\ tab.pc = "reload" /\ tab.fd = 0 /\ tab.id = 0 /\ tab.pos = 0 /\ tab.len = 0
      /\ tab.lines = <<>>
  BY <1>1 DEF NewTab, TabRecord
<1>5. <<>> \in Seq(Nat)
  OBVIOUS
<1>6. TabTyped(tab, Len(files))
  BY <1>2, <1>4, <1>5 DEF TabTyped
<1>7. Shows(tab, files, path)
  BY <1>4 DEF Shows
<1> QED BY <1>3, <1>6, <1>7 DEF TabInv

LEMMA TabInvNext ==
  ASSUME LogTyped, TabInv, [LogNext]_logVars
  PROVE  TabInv'
<1>1. CASE WriterNext
  BY <1>1, WriterNextTyped, TabWriterStep
<1>2. CASE TabNext
  BY <1>2, ReadLogFileShows, ReloadOpenShows, ReloadMarkShows, PollStatShows, PollReopenShows, PollMoreShows, KeysShow
     DEF TabNext
<1>3. ASSUME UNCHANGED Writers, tab' = tab, slipped' = slipped
      PROVE  TabInv'
  BY <1>3 DEF Writers, TabInv
<1>4. CASE TailNext
  BY <1>3, <1>4, TailNextKeeps
<1>5. CASE UNCHANGED logVars
  BY <1>3, <1>5, LogStutters
<1> QED BY <1>1, <1>2, <1>4, <1>5, LogNextIs

\* A tab that has nothing to poll shows the end of the log, whatever was rotated or emptied
\* between the system calls of its polls: what it shows is the end of the log up to the
\* place it will read on from, and that place is the end when there is nothing to poll.
THEOREM TabShowsTheLog == LogSpec => []TabShowsLog
<1>1. LogTyped /\ TabInv => TabShowsLog
  <2> SUFFICES ASSUME LogTyped, TabInv, ~slipped, ~tab.dirty, path # 0, TabSettled
               PROVE  tab.lines = Lines(path)
    BY DEF TabShowsLog
  <2>1. tab.pc = "idle" /\ tab.fd # 0 /\ SizeOf(tab.fd) <= tab.pos /\ tab.id = path
    BY DEF TabSettled
  <2>2. tab.fd = path /\ UpTo(files, path, tab)
    BY <2>1 DEF TabInv, Shows
  <2>3. path \in 1 .. Len(files) /\ SizeOf(path) = Len(files[path]) /\ SizeOf(path) \in Nat /\ tab.pos \in Nat
    BY TabParts
  <2>4. tab.pos = Len(files[path]) /\ IsShown(tab.lines, files[path], Len(files[path]))
    BY <2>1, <2>2, <2>3 DEF UpTo
  <2>5. IsShown(Lines(path), files[path], Len(files[path]))
    BY <2>3, LinesShown
  <2>6. CASE Len(files[path]) = 0
    BY <2>4, <2>5, <2>6 DEF IsShown
  <2>7. CASE Len(files[path]) # 0
    BY <2>4, <2>5, <2>7, SamePart DEF IsShown
  <2> QED BY <2>6, <2>7
<1> QED BY LogInitTyped, LogNextTyped, TabInit, TabInvNext, <1>1, PTL DEF LogSpec

=============================================================================
