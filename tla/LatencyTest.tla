---------------------------- MODULE LatencyTest ----------------------------
(***************************************************************************)
(* Latency tests: the marks and the progress bar of the interface          *)
(* (testing.rs, input/profiles.rs, core_events.rs), the commands that      *)
(* queue tests, and the core's tester: its queue, the set of profiles in   *)
(* flight, the epoch that cancels, the results and the progress counters.  *)
(* A subscription refresh queues tests beside the commands.                *)
(***************************************************************************)
EXTENDS Naturals, FiniteSets, SequencesExt

CONSTANTS
  TestGroups,  \* the groups, each the sequence of its profiles
  QueueCap,    \* capacity of testChannel and of TestResultChannel (256 in the code)
  Slots,       \* tests at the same time
  MaxKeys      \* bound: batches, cancels and refreshes

\* Identifiers of profiles start at 1.  A profile stands for its group and its number, the
\* pair that keys the set in flight, so that no profile is in two groups.
ASSUME TestAssumption ==
  /\ TestGroups \in Seq(Seq(Nat \ {0}))
  /\ \A g, h \in DOMAIN TestGroups : g # h =>
       \A i \in DOMAIN TestGroups[g] : \A j \in DOMAIN TestGroups[h] : TestGroups[g][i] # TestGroups[h][j]

VARIABLES
  epoch,     \* testEpoch
  inFlight,  \* profiles queued or under test
  channel,   \* testChannel
  taken,     \* the request the listener waits with for a slot
  running,   \* the tests
  results,   \* TestResultChannel
  progress,  \* progressGroups
  handler,   \* the two goroutines that queue tests
  requests,  \* commands of the interface on their way
  events,    \* events on their way to the interface
  marked,    \* profiles the interface shows as being tested
  bar,       \* its progress bar
  keys,      \* batches, cancels and refreshes so far
  excuse     \* history: what may leave a mark or the bar behind

testVars == <<epoch, inFlight, channel, taken, running, results, progress, handler,
              requests, events, marked, bar, keys, excuse>>
coreVars == <<epoch, inFlight, channel, taken, running, results, progress, handler>>

GroupIds == DOMAIN TestGroups
Members(g) == {TestGroups[g][i] : i \in DOMAIN TestGroups[g]}
GroupOf(p) == CHOOSE g \in GroupIds : p \in Members(g)
All == UNION {Members(g) : g \in GroupIds}
NoReq == [p |-> 0, ep |-> 0]
NoBar == [g |-> 0, tested |-> 0, total |-> 0]
NoEntry == [on |-> FALSE, tested |-> 0, total |-> 0]
Resting == [pc |-> "idle", g |-> 0, todo |-> <<>>, total |-> 0, ep |-> 0, hold |-> 0, whole |-> FALSE]

TestInit ==
  /\ epoch \in {0, 1}  \* a cancel before
  /\ inFlight = {} /\ channel = <<>> /\ taken = NoReq /\ running = {} /\ results = <<>>
  /\ progress = [g \in GroupIds |-> NoEntry]
  /\ handler = [h \in {"client", "refresh"} |-> Resting]
  /\ requests = <<>> /\ events = <<>> /\ marked = {} /\ bar = NoBar
  /\ keys = 0
  /\ excuse = [early |-> FALSE, cancelled |-> FALSE, dropped |-> FALSE, late |-> FALSE]

-----------------------------------------------------------------------------
(* The interface.                                                          *)

\* The order of the tree: group after group, profile after profile.
Before(p, q) ==
  \/ GroupOf(p) < GroupOf(q)
  \/ \E i, j \in DOMAIN TestGroups[GroupOf(p)] :
       i < j /\ TestGroups[GroupOf(p)][i] = p /\ TestGroups[GroupOf(p)][j] = q
Others(first) ==
  LET rest == All \ ToSet(first) IN
  {s \in [1..Cardinality(rest) -> rest] : \A i, j \in DOMAIN s : i < j => Before(s[i], s[j])}

\* build_test_list: what is under the cursor, and for "all" everything after it.
BuildTestList ==
  LET focused == {<<p>> : p \in All} \cup {TestGroups[g] : g \in GroupIds} IN
  focused \cup UNION {{f \o s : s \in Others(f)} : f \in focused}

\* run_test_batch: one profile, one whole group, or profile by profile.
Batch(list) ==
  LET g == GroupOf(list[1])
      single == \A i \in DOMAIN list : list[i] \in Members(g) IN
  IF Len(list) > 1 /\ single /\ Len(list) = Len(TestGroups[g]) THEN <<[k |-> "group", g |-> g]>>
  ELSE [i \in DOMAIN list |-> [k |-> "profile", p |-> list[i]]]
RunTestBatch ==
  /\ keys < MaxKeys /\ keys' = keys + 1
  /\ \E list \in BuildTestList :
       /\ marked' = marked \cup {list[i] : i \in DOMAIN list}
       /\ requests' = requests \o Batch(list)
  /\ UNCHANGED <<coreVars, events, bar, excuse>>

CancelTests ==
  /\ keys < MaxKeys /\ keys' = keys + 1
  /\ requests' = Append(requests, [k |-> "cancel"]) /\ bar' = NoBar
  /\ excuse' = [excuse EXCEPT !.cancelled = TRUE]
  /\ UNCHANGED <<coreVars, events, marked>>

\* Mutant: the last result does not end the bar.
ApplyProgressLate(e) == IF e.total = 0 \/ e.tested > e.total THEN NoBar ELSE [g |-> e.g, tested |-> e.tested, total |-> e.total]

\* profile-updated and test-progress.
ApplyProgress(e) == IF e.total = 0 \/ e.tested >= e.total THEN NoBar ELSE [g |-> e.g, tested |-> e.tested, total |-> e.total]
ApplyEvent ==
  /\ events # <<>> /\ events' = Tail(events)
  /\ LET e == Head(events) IN
     IF e.k = "updated" THEN marked' = marked \ {e.p} /\ UNCHANGED bar
     ELSE bar' = ApplyProgress(e) /\ UNCHANGED marked
  /\ UNCHANGED <<coreVars, requests, keys, excuse>>

-----------------------------------------------------------------------------
(* The commands, and TestGroup of a subscription refresh, which sends no   *)
(* first progress.                                                         *)

TakeRequest ==
  /\ handler["client"].pc = "idle" /\ requests # <<>> /\ requests' = Tail(requests)
  /\ LET r == Head(requests) IN
     \/ r.k = "cancel" /\ epoch' = epoch + 1 /\ UNCHANGED handler
     \/ r.k = "profile" /\ handler' = [handler EXCEPT !["client"] = [Resting EXCEPT !.pc = "queue", !.todo = <<r.p>>, !.ep = epoch]] /\ UNCHANGED epoch
     \/ r.k = "group" /\ handler' = [handler EXCEPT !["client"] = [Resting EXCEPT !.pc = "queue", !.g = r.g, !.todo = TestGroups[r.g], !.ep = epoch, !.whole = TRUE]] /\ UNCHANGED epoch
  /\ UNCHANGED <<inFlight, channel, taken, running, results, progress, events, marked, bar, keys, excuse>>

RefreshTests ==
  /\ handler["refresh"].pc = "idle" /\ keys < MaxKeys /\ keys' = keys + 1
  /\ \E g \in GroupIds :
       handler' = [handler EXCEPT !["refresh"] = [Resting EXCEPT !.pc = "queue", !.g = g, !.todo = TestGroups[g], !.ep = epoch, !.whole = TRUE]]
  /\ UNCHANGED <<epoch, inFlight, channel, taken, running, results, progress, requests, events, marked, bar, excuse>>

\* Mutant: a profile in flight ends the batch.
TryEnqueueStops(h) ==
  /\ handler[h].pc = "queue" /\ handler[h].hold = 0 /\ handler[h].todo # <<>>
  /\ LET p == Head(handler[h].todo) IN
     IF p \in inFlight THEN handler' = [handler EXCEPT ![h].todo = <<>>] /\ UNCHANGED <<inFlight, excuse>>
     ELSE inFlight' = inFlight \cup {p} /\ handler' = [handler EXCEPT ![h].todo = Tail(@), ![h].hold = p] /\ UNCHANGED excuse
  /\ UNCHANGED <<epoch, channel, taken, running, results, progress, requests, events, marked, bar, keys>>

\* tryEnqueueInFlight; a profile that is in flight is passed over ...
TryEnqueue(h) ==
  /\ handler[h].pc = "queue" /\ handler[h].hold = 0 /\ handler[h].todo # <<>>
  /\ LET p == Head(handler[h].todo) IN
     IF p \in inFlight
     THEN /\ handler' = [handler EXCEPT ![h].todo = Tail(@)] /\ UNCHANGED inFlight
          /\ excuse' = [excuse EXCEPT !.late = @ \/ \E t \in running : t.p = p /\ t.pc = "sent"]
     ELSE inFlight' = inFlight \cup {p} /\ handler' = [handler EXCEPT ![h].todo = Tail(@), ![h].hold = p] /\ UNCHANGED excuse
  /\ UNCHANGED <<epoch, channel, taken, running, results, progress, requests, events, marked, bar, keys>>

\* ... and its request waits for room in the channel.
Enqueue(h) ==
  /\ handler[h].hold # 0 /\ Len(channel) < QueueCap
  /\ channel' = Append(channel, [p |-> handler[h].hold, ep |-> handler[h].ep])
  /\ handler' = [handler EXCEPT ![h].hold = 0, ![h].total = @ + 1]
  /\ UNCHANGED <<epoch, inFlight, taken, running, results, progress, requests, events, marked, bar, keys, excuse>>

\* SeedTestProgress after the tests are queued, and the first test-progress.
SeedTestProgress(h) ==
  /\ handler[h].pc = "queue" /\ handler[h].hold = 0 /\ handler[h].todo = <<>>
  /\ IF handler[h].whole
     THEN /\ progress' = [progress EXCEPT ![handler[h].g] = [on |-> TRUE, tested |-> 0, total |-> handler[h].total]]
          /\ handler' = [handler EXCEPT ![h] = IF h = "client" THEN [@ EXCEPT !.pc = "send"] ELSE Resting]
     ELSE handler' = [handler EXCEPT ![h] = Resting] /\ UNCHANGED progress
  /\ UNCHANGED <<epoch, inFlight, channel, taken, running, results, requests, events, marked, bar, keys, excuse>>
SendSeed ==
  /\ handler["client"].pc = "send"
  /\ events' = Append(events, [k |-> "progress", g |-> handler["client"].g, tested |-> 0, total |-> handler["client"].total])
  /\ handler' = [handler EXCEPT !["client"] = Resting]
  /\ UNCHANGED <<epoch, inFlight, channel, taken, running, results, progress, requests, marked, bar, keys, excuse>>

-----------------------------------------------------------------------------
(* The tester.                                                             *)

Stale(r) == r.ep > 0 /\ r.ep # epoch

\* listenForTests: a cancelled request gives its place in flight back; another one waits
\* for a slot.
TakeTest ==
  /\ taken = NoReq /\ channel # <<>>
  /\ channel' = Tail(channel)
  /\ IF Stale(Head(channel)) THEN inFlight' = inFlight \ {Head(channel).p} /\ UNCHANGED taken
     ELSE taken' = Head(channel) /\ UNCHANGED inFlight
  /\ UNCHANGED <<epoch, running, results, progress, handler, requests, events, marked, bar, keys, excuse>>
SpawnTest ==
  /\ taken # NoReq /\ Cardinality(running) < Slots
  /\ running' = running \cup {[p |-> taken.p, ep |-> taken.ep, pc |-> "test"]} /\ taken' = NoReq
  /\ UNCHANGED <<epoch, inFlight, channel, results, progress, handler, requests, events, marked, bar, keys, excuse>>

\* test and sendTestResult: measured, failed or, after a cancel, "cancelled": a result it
\* is, unless the channel is full.
SendTestResult(t) ==
  /\ t.pc = "test"
  /\ running' = (running \ {t}) \cup {[t EXCEPT !.pc = "sent"]}
  /\ IF Len(results) < QueueCap THEN results' = Append(results, t.p) /\ UNCHANGED excuse
     ELSE excuse' = [excuse EXCEPT !.dropped = TRUE] /\ UNCHANGED results
  /\ UNCHANGED <<epoch, inFlight, channel, taken, progress, handler, requests, events, marked, bar, keys>>
ReleaseInFlight(t) ==
  /\ t.pc = "sent"
  /\ running' = running \ {t} /\ inFlight' = inFlight \ {t.p}
  /\ UNCHANGED <<epoch, channel, taken, results, progress, handler, requests, events, marked, bar, keys, excuse>>

\* handleTestResults: profile-updated, then the progress of the group, if one is counted.
HandleResult ==
  LET p == Head(results)
      g == GroupOf(p)
      e == progress[g]
      updated == [k |-> "updated", p |-> p] IN
  /\ results # <<>> /\ results' = Tail(results)
  /\ IF e.on
     THEN /\ events' = events \o <<updated, [k |-> "progress", g |-> g, tested |-> e.tested + 1, total |-> e.total]>>
          /\ progress' = [progress EXCEPT ![g] = IF e.tested + 1 >= e.total THEN NoEntry ELSE [e EXCEPT !.tested = @ + 1]]
     ELSE events' = Append(events, updated) /\ UNCHANGED progress
  /\ excuse' = [excuse EXCEPT !.early = @ \/ \E h \in DOMAIN handler : handler[h].whole /\ handler[h].g = g]
  /\ UNCHANGED <<epoch, inFlight, channel, taken, running, handler, requests, marked, bar, keys>>

TestNext ==
  \/ RunTestBatch \/ CancelTests \/ ApplyEvent
  \/ TakeRequest \/ RefreshTests \/ SendSeed
  \/ \E h \in DOMAIN handler : TryEnqueue(h) \/ Enqueue(h) \/ SeedTestProgress(h)
  \/ TakeTest \/ SpawnTest \/ \E t \in running : SendTestResult(t) \/ ReleaseInFlight(t)
  \/ HandleResult
TestSpec == TestInit /\ [][TestNext]_testVars

-----------------------------------------------------------------------------
(* Properties.                                                             *)

Settled ==
  /\ requests = <<>> /\ events = <<>> /\ channel = <<>> /\ taken = NoReq /\ running = {} /\ results = <<>>
  /\ \A h \in DOMAIN handler : handler[h].pc = "idle"

\* When all tests are over, no profile is shown as being tested, even those that were
\* skipped because of a test that ran already.  A cancel, a full result channel and a test
\* asked for in the moment between the result and the release of its profile do leave marks.
MarksResolved ==
  Settled /\ ~excuse.cancelled /\ ~excuse.dropped /\ ~excuse.late => marked = {}

\* ... and the progress bar is gone, whatever batches and single tests overlapped.  A
\* result that is counted while its batch is being queued does leave it: the counter is
\* seeded after the tests are queued, and its first value is sent later still.
BarGone ==
  Settled /\ ~excuse.cancelled /\ ~excuse.dropped /\ ~excuse.early => bar = NoBar
=============================================================================
