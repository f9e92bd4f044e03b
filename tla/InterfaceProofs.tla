--------------------------- MODULE InterfaceProofs ---------------------------
(***************************************************************************)
(* Theorems about the interface: its link to the core (CoreLink), for any  *)
(* number of core processes, attempts, probes, changes, faults and         *)
(* commands; the rule page (RoutingRules), for any groups, edits and       *)
(* lengths of the queues; and the tree of groups and profiles (AppTree),   *)
(* for any database, sizes of the window and bounds of the requests: the   *)
(* cursor stays in the tree, and the copy the interface keeps is the       *)
(* database once every event has arrived.                                  *)
(***************************************************************************)
EXTENDS CoreLink, RoutingRules, AppTree, FiniteSetTheorems, WellFoundedInduction, TLAPS

\* Between the two halves of a reconnect the writer is already the new one.
HalvesAgree == tui.pc \in {"announce", "reading"} => tui.wr = tui.rd

\* The version counts the changes.
TruthCounts == truth = changes + 1

\* A stopper polls a core that served when it was told to die, over TCP with the
\* protocol of this program, so a socket that is silent is one that is gone.
Stopping ==
  /\ cli.pc # "idle" => cli.out = "none"
  /\ cli.pc = "stop" => cli.target = NoProc
  /\ cli.pc = "poll" => /\ cli.target \in Procs
                        /\ core[cli.target].st \notin {"unborn", "boot"}
                        /\ transport = "tcp" => core[cli.target].proto = "new"

Typed == CoreOK /\ TuiOK /\ CliOK /\ BoundsOK /\ TruthCounts

LEMMA ServerConnects == CanConnect => Server \in Procs /\ Connects(Server)
  BY DEF CanConnect, Server

LEMMA ProcsAreNumbers == Procs \subseteq Nat /\ NoProc \notin Procs /\ 1 \in Procs
  BY CoreLinkAssumption DEF Procs, NoProc

\* A new process changes no process that there is.
LEMMA SpawnTyped ==
  ASSUME CoreOK, SpawnCore
  PROVE  /\ core' \in [Procs -> [st : Phases, proto : {"old", "new"}]]
         /\ \A p \in Procs : core[p].st # "unborn" => core'[p] = core[p]
  BY DEF SpawnCore, CoreOK, Unborn, Phases

-----------------------------------------------------------------------------
(* Types.                                                                  *)

LEMMA TypeInit == Init => Typed
<1> SUFFICES ASSUME Init PROVE Typed
  OBVIOUS
<1>1. CoreOK
  BY CoreLinkAssumption DEF Init, CoreOK, Phases, Versions, NoSnap
<1>2. TuiOK
  BY CoreLinkAssumption DEF Init, TuiOK, TuiPoints, Versions, Links
<1>3. CliOK
  BY CoreLinkAssumption DEF Init, CliOK, CliPoints
<1>4. BoundsOK /\ TruthCounts
  BY CoreLinkAssumption DEF Init, BoundsOK, TruthCounts
<1> QED
  BY <1>1, <1>2, <1>3, <1>4 DEF Typed

LEMMA EventsTyped ==
  /\ \A v \in Versions : State(v) \in Events
  /\ \A k \in Links : Notice(k) \in Events
  BY CoreLinkAssumption DEF State, Notice, Events, Links, Versions

\* The steps of the core keep the types; the interface only gets frames.
LEMMA CoreTyped ==
  ASSUME Typed, NEW p \in Procs,
         \/ CoreBoot(p) \/ CoreRead(p) \/ CoreSend(p) \/ CoreDie(p) \/ CoreUnlink(p)
         \/ CoreExit(p) \/ CoreChange(p) \/ CoreCrash(p)
  PROVE  Typed'
<1> USE DEF Typed, Phase, Gone, bounds, uiVars
<1>1. CASE CoreBoot(p)
  BY <1>1 DEF CoreBoot, CoreOK, TuiOK, CliOK, BoundsOK, TruthCounts, Phases
<1>2. CASE CoreRead(p)
  BY <1>2 DEF CoreRead, CoreOK, TuiOK, CliOK, BoundsOK, TruthCounts
<1>3. CASE CoreSend(p)
  <2>1. wire' \in Seq(Events)
    BY <1>3, EventsTyped DEF CoreSend, Deliver, TuiOK, CoreOK
  <2>2. snap' \in [p : Procs \cup {NoProc}, v : Versions]
    BY <1>3, CoreLinkAssumption DEF CoreSend, NoSnap, Versions
  <2> QED
    BY <1>3, <2>1, <2>2 DEF CoreSend, CoreOK, TuiOK, CliOK, BoundsOK, TruthCounts
<1>4. CASE CoreChange(p)
  <2>1. truth' \in Versions /\ changes' \in 0..MaxChanges /\ TruthCounts'
    BY <1>4, CoreLinkAssumption DEF CoreChange, TruthCounts, BoundsOK, Versions
  <2>2. wire' \in Seq(Events)
    BY <1>4, <2>1, EventsTyped DEF CoreChange, Deliver, TuiOK
  <2> QED
    BY <1>4, <2>1, <2>2 DEF CoreChange, CoreOK, TuiOK, CliOK, BoundsOK
<1>5. CASE CoreDie(p)
  BY <1>5, Zenon DEF CoreDie, CoreOK, TuiOK, CliOK, BoundsOK, TruthCounts, Phases
<1>8. CASE CoreUnlink(p)
  BY <1>8, Zenon DEF CoreUnlink, CoreOK, TuiOK, CliOK, BoundsOK, TruthCounts, Phases
<1>6. CASE CoreExit(p)
  <2>1. snap' \in [p : Procs \cup {NoProc}, v : Versions] /\ asked' \subseteq Procs
    BY <1>6, CoreLinkAssumption DEF CoreExit, CoreOK, NoSnap, Versions
  <2> QED
    BY <1>6, <2>1 DEF CoreExit, CoreOK, TuiOK, CliOK, BoundsOK, TruthCounts, Phases
<1>7. CASE CoreCrash(p)
  <2>1. snap' \in [p : Procs \cup {NoProc}, v : Versions] /\ asked' \subseteq Procs
    BY <1>7, CoreLinkAssumption DEF CoreCrash, CoreOK, NoSnap, Versions
  <2>2. faults' \in 0..MaxFaults
    BY <1>7, CoreLinkAssumption DEF CoreCrash, BoundsOK
  <2> QED
    BY <1>7, <2>1, <2>2 DEF CoreCrash, CoreOK, TuiOK, CliOK, BoundsOK, TruthCounts, Phases
<1> QED
  BY <1>1, <1>2, <1>3, <1>4, <1>5, <1>6, <1>7, <1>8

TuiRecord == [pc : TuiPoints, n : 0..(Attempts + Probes), rd : Procs \cup {NoProc}, wr : Procs \cup {NoProc}]

LEMMA ThreeFields ==
  ASSUME NEW t \in TuiRecord, NEW pc \in TuiPoints, NEW n \in 0..(Attempts + Probes),
         NEW rd \in Procs \cup {NoProc}
  PROVE  LET s == [t EXCEPT !.pc = pc, !.n = n, !.rd = rd] IN
         s \in TuiRecord /\ s.pc = pc
  BY Zenon DEF TuiRecord

LEMMA ZeroTries == 0 \in 0..(Attempts + Probes) /\ 0 \in 0..Probes
  BY CoreLinkAssumption

LEMMA GotoTyped ==
  ASSUME tui \in TuiRecord, NEW pc \in TuiPoints, Goto(pc)
  PROVE  tui' \in TuiRecord /\ tui'.pc = pc /\ tui'.rd = tui.rd /\ tui'.wr = tui.wr
<1>1. LET s == [tui EXCEPT !.pc = pc, !.n = 0] IN
      s \in TuiRecord /\ s.pc = pc /\ s.rd = tui.rd /\ s.wr = tui.wr
  BY ZeroTries, Zenon DEF TuiRecord
<1> QED
  BY <1>1, Zenon DEF Goto

LEMMA AgainTyped ==
  ASSUME tui \in TuiRecord, Again, tui.n < Attempts + Probes
  PROVE  tui' \in TuiRecord /\ tui'.pc = tui.pc /\ tui'.rd = tui.rd /\ tui'.wr = tui.wr
  BY CoreLinkAssumption DEF Again, TuiRecord

LEMMA PostTyped ==
  ASSUME TuiOK, NEW e \in Events, Post(e)
  PROVE  evq' \in Seq(Events) /\ seen' = seen /\ shown' = shown
  BY DEF Post, TuiOK

\* The steps of the interface before its read loop runs.
LEMMA StartTyped == ASSUME Typed, TuiStart PROVE Typed'
<1> USE DEF Typed, StartVars, bounds, uiVars
<1>0. tui \in TuiRecord /\ Attempts \in Nat \ {0} /\ Probes \in Nat \ {0}
  BY CoreLinkAssumption DEF TuiOK, TuiRecord
<1>1. CASE TuiQuery
  <2>1. tui' \in TuiRecord
    BY <1>0, <1>1, GotoTyped DEF TuiQuery, TuiPoints
  <2> QED
    BY <1>1, <2>1 DEF TuiQuery, CoreOK, TuiOK, TuiRecord, CliOK, BoundsOK, TruthCounts
<1>2. CASE TuiDie
  <2>1. tui' \in TuiRecord
    BY <1>0, <1>2, GotoTyped DEF TuiDie, TuiPoints
  <2>2. dying' \subseteq Procs
    BY <1>2, ServerConnects DEF TuiDie, CoreOK
  <2> QED
    BY <1>2, <2>1, <2>2 DEF TuiDie, CoreOK, TuiOK, TuiRecord, CliOK, BoundsOK, TruthCounts
<1>3. CASE TuiSpawn
  <2>1. tui' \in TuiRecord
    BY <1>0, <1>3, GotoTyped DEF TuiSpawn, TuiPoints
  <2>2. core' \in [Procs -> [st : Phases, proto : {"old", "new"}]]
    BY <1>3, SpawnTyped DEF TuiSpawn, CoreOK
  <2> QED
    BY <1>3, <2>1, <2>2 DEF TuiSpawn, CoreOK, TuiOK, TuiRecord, CliOK, BoundsOK, TruthCounts
<1>4. CASE TuiProbe
  <2>1. tui' \in TuiRecord
    <3>1. tui.n < Probes => tui.n < Attempts + Probes
      BY <1>0 DEF TuiRecord
    <3> QED
      BY <1>0, <1>4, <3>1, GotoTyped, AgainTyped DEF TuiProbe, TuiPoints
  <2> QED
    BY <1>4, <2>1 DEF TuiProbe, CoreOK, TuiOK, TuiRecord, CliOK, BoundsOK, TruthCounts
<1>5. CASE TuiConnect
  <2>1. tui' \in TuiRecord /\ asked' \subseteq Procs
    BY <1>0, <1>5, GotoTyped, ServerConnects DEF TuiConnect, TuiPoints, TuiRecord, CoreOK
  <2> QED
    BY <1>5, <2>1 DEF TuiConnect, CoreOK, TuiOK, TuiRecord, CliOK, BoundsOK, TruthCounts
<1> QED
  BY <1>1, <1>2, <1>3, <1>4, <1>5 DEF TuiStart

\* The steps of the read loop.
LEMMA ReadTyped == ASSUME Typed, ReadLoop PROVE Typed'
<1> USE DEF Typed, LoopVars, uiVars
<1>0. /\ tui \in TuiRecord /\ Attempts \in Nat \ {0} /\ Probes \in Nat \ {0}
      /\ wire \in Seq(Events) /\ evq \in Seq(Events)
  BY CoreLinkAssumption DEF TuiOK, TuiRecord
<1>1. CASE ReadFrame
  <2>1. Head(wire) \in Events /\ wire' \in Seq(Events)
    BY <1>0, <1>1 DEF ReadFrame
  <2>2. evq' \in Seq(Events) /\ seen' = seen /\ shown' = shown
    BY <1>1, <2>1, PostTyped DEF ReadFrame
  <2> QED
    BY <1>1, <2>1, <2>2 DEF ReadFrame, CoreOK, TuiOK, CliOK, BoundsOK, TruthCounts
<1>2. CASE ReadError
  <2>1. evq' \in Seq(Events) /\ seen' = seen /\ shown' = shown
    BY <1>2, EventsTyped, PostTyped DEF ReadError, Links
  <2>2. tui' \in TuiRecord
    <3>1. "retry" \in TuiPoints
      BY DEF TuiPoints, Recovering
    <3>2. [tui EXCEPT !.pc = "retry", !.n = 0, !.rd = NoProc] \in TuiRecord
      BY <1>0, <3>1, ThreeFields, ZeroTries, Zenon
    <3> QED
      BY <1>2, <3>2, Zenon DEF ReadError
  <2>3. faults' \in 0..MaxFaults
    BY <1>2, CoreLinkAssumption DEF ReadError, BoundsOK
  <2>4. wire' \in Seq(Events)
    BY <1>2 DEF ReadError
  <2> QED
    BY <1>2, <2>1, <2>2, <2>3, <2>4 DEF ReadError, CoreOK, TuiOK, TuiRecord, CliOK, BoundsOK, TruthCounts
<1>3. ASSUME CanConnect, Redial PROVE tui' \in TuiRecord /\ wire' \in Seq(Events)
  <2>1. "swap" \in TuiPoints
    BY DEF TuiPoints, Recovering
  <2>2. Server \in Procs \cup {NoProc}
    BY <1>3, ServerConnects
  <2>3. [tui EXCEPT !.pc = "swap", !.n = 0, !.rd = Server] \in TuiRecord
    BY <1>0, <2>1, <2>2, ThreeFields, ZeroTries, Zenon
  <2>4. tui' \in TuiRecord
    BY <1>3, <2>3, Zenon DEF Redial
  <2> QED
    BY <1>3, <2>4 DEF Redial
<1>4. CASE Reconnect
  <2>1. tui.n + 1 < Attempts => tui.n < Attempts + Probes
    BY <1>0 DEF TuiRecord
  <2>2. tui' \in TuiRecord /\ wire' \in Seq(Events)
    BY <1>0, <1>3, <1>4, <2>1, GotoTyped, AgainTyped DEF Reconnect, TuiPoints, Recovering
  <2> QED
    BY <1>4, <2>2 DEF Reconnect, CoreOK, TuiOK, TuiRecord, CliOK, BoundsOK, TruthCounts
<1>5. CASE Respawn
  <2>1. tui' \in TuiRecord
    BY <1>0, <1>5, GotoTyped DEF Respawn, TuiPoints, Recovering
  <2>2. core' \in [Procs -> [st : Phases, proto : {"old", "new"}]]
    BY <1>5, SpawnTyped DEF Respawn, CoreOK
  <2>3. evq' \in Seq(Events) /\ seen' = seen /\ shown' = shown
    BY <1>0, <1>5, EventsTyped, PostTyped DEF Respawn, Links
  <2> QED
    BY <1>5, <2>1, <2>2, <2>3 DEF Respawn, CoreOK, TuiOK, TuiRecord, CliOK, BoundsOK, TruthCounts
<1>6. CASE Reprobe
  <2>1. tui.n + 1 < Probes => tui.n < Attempts + Probes
    BY <1>0 DEF TuiRecord
  <2>2. tui' \in TuiRecord
    BY <1>0, <1>6, <2>1, GotoTyped, AgainTyped DEF Reprobe, TuiPoints, Recovering
  <2>3. evq' \in Seq(Events) /\ seen' = seen /\ shown' = shown
    BY <1>0, <1>6, EventsTyped, PostTyped DEF Reprobe, Links
  <2> QED
    BY <1>6, <2>2, <2>3 DEF Reprobe, CoreOK, TuiOK, TuiRecord, CliOK, BoundsOK, TruthCounts
<1>7. CASE RedialAfterSpawn
  <2>1. tui' \in TuiRecord /\ wire' \in Seq(Events)
    BY <1>0, <1>3, <1>7, GotoTyped DEF RedialAfterSpawn, TuiPoints
  <2>2. evq' \in Seq(Events) /\ seen' = seen /\ shown' = shown
    BY <1>0, <1>7, EventsTyped, PostTyped DEF RedialAfterSpawn, Links
  <2> QED
    BY <1>7, <2>1, <2>2 DEF RedialAfterSpawn, CoreOK, TuiOK, TuiRecord, CliOK, BoundsOK, TruthCounts
<1>8. CASE ReplaceWriter
  <2>1. tui' \in TuiRecord
    BY <1>0, <1>8, Zenon DEF ReplaceWriter, TuiRecord, TuiPoints, Recovering
  <2> QED
    BY <1>8, <2>1 DEF ReplaceWriter, CoreOK, TuiOK, TuiRecord, CliOK, BoundsOK, TruthCounts
<1>9. CASE Announce
  <2>1. tui' \in TuiRecord
    BY <1>0, <1>9, GotoTyped DEF Announce, TuiPoints
  <2>2. evq' \in Seq(Events) /\ seen' = seen /\ shown' = shown
    BY <1>9, EventsTyped, PostTyped DEF Announce, Links
  <2> QED
    BY <1>9, <2>1, <2>2 DEF Announce, CoreOK, TuiOK, TuiRecord, CliOK, BoundsOK, TruthCounts
<1> QED
  BY <1>1, <1>2, <1>4, <1>5, <1>6, <1>7, <1>8, <1>9 DEF ReadLoop, Recovery

LEMMA HandleTyped == ASSUME Typed, HandleEvent PROVE Typed'
<1>1. Head(evq) \in Events /\ evq' \in Seq(Events)
  BY DEF HandleEvent, Typed, TuiOK
<1>2. seen' \in Versions /\ shown' \in Links
  BY <1>1 DEF HandleEvent, Typed, TuiOK, Events
<1>3. asked' \subseteq Procs
  BY DEF HandleEvent, Typed, TuiOK, CoreOK
<1> QED
  BY <1>1, <1>2, <1>3 DEF HandleEvent, Typed, CoreOK, TuiOK, CliOK, BoundsOK, TruthCounts, bounds

Outs == {"none", "attached", "offline", "timeout", "stopped"}
CliRecord == [pc : CliPoints, n : 0..Probes, cmd : CliCmds \cup {"none"}, target : Procs \cup {NoProc}, out : Outs]

LEMMA CliDoneTyped ==
  ASSUME cli \in CliRecord, NEW out \in Outs, CliDone(out)
  PROVE  cli' \in CliRecord /\ cli'.pc = "idle" /\ cli'.out = out /\ cli'.target = cli.target
<1>0. "idle" \in CliPoints /\ 0 \in 0..Probes
  BY ZeroTries DEF CliPoints
<1>1. LET s == [cli EXCEPT !.pc = "idle", !.n = 0, !.out = out] IN
      s \in CliRecord /\ s.pc = "idle" /\ s.out = out /\ s.target = cli.target
  BY <1>0, Zenon DEF CliRecord
<1> QED
  BY <1>1, Zenon DEF CliDone

LEMMA CliGotoTyped ==
  ASSUME cli \in CliRecord, NEW pc \in CliPoints, CliGoto(pc)
  PROVE  cli' \in CliRecord /\ cli'.pc = pc /\ cli'.out = cli.out /\ cli'.target = cli.target
<1>1. LET s == [cli EXCEPT !.pc = pc, !.n = 0] IN
      s \in CliRecord /\ s.pc = pc /\ s.out = cli.out /\ s.target = cli.target
  BY ZeroTries, Zenon DEF CliRecord
<1> QED
  BY <1>1, Zenon DEF CliGoto

LEMMA CliAgainTyped ==
  ASSUME cli \in CliRecord, cli.n < Probes, cli' = [cli EXCEPT !.n = @ + 1]
  PROVE  cli' \in CliRecord /\ cli'.pc = cli.pc /\ cli'.out = cli.out /\ cli'.target = cli.target
  BY CoreLinkAssumption DEF CliRecord

LEMMA StopDoneTyped ==
  ASSUME cli \in CliRecord, NEW out \in Outs, StopDone(out)
  PROVE  /\ cli' \in CliRecord /\ cli'.target = cli.target
         /\ \/ cli'.pc = "idle" /\ cli'.out = out
            \/ cli'.pc = "start" /\ cli'.out = cli.out
<1>1. "start" \in CliPoints
  BY DEF CliPoints
<1> QED
  BY <1>1, CliDoneTyped, CliGotoTyped DEF StopDone

\* What a stopper knows of the core it has told to die.
LEMMA CliStopTyped ==
  ASSUME cli \in CliRecord, CanConnect,
         cli' = [cli EXCEPT !.pc = "poll", !.n = 0, !.target = Server]
  PROVE  /\ cli' \in CliRecord /\ cli'.pc = "poll" /\ cli'.out = cli.out
         /\ cli'.target = Server /\ Server \in Procs
<1>0. "poll" \in CliPoints /\ 0 \in 0..Probes /\ Server \in Procs
  BY ZeroTries, ServerConnects DEF CliPoints
<1>1. LET s == [cli EXCEPT !.pc = "poll", !.n = 0, !.target = Server] IN
      s \in CliRecord /\ s.pc = "poll" /\ s.out = cli.out /\ s.target = Server
  BY <1>0, Zenon DEF CliRecord
<1> QED
  BY <1>0, <1>1, Zenon

LEMMA CliTyped == ASSUME Typed, CliStep \/ CliUser PROVE Typed'
<1> USE DEF Typed, CliVars, uiVars
<1>0. cli \in CliRecord /\ Probes \in Nat \ {0} /\ MaxCmds \in Nat
  BY CoreLinkAssumption DEF CliOK, CliRecord, Outs
<1>a. ASSUME cli' \in CliRecord PROVE CliOK'
  BY <1>a DEF CliOK, CliRecord, Outs
<1>b. {"idle", "start", "spawn", "wait"} \subseteq CliPoints /\ {"attached", "offline", "timeout", "stopped"} \subseteq Outs
  BY DEF CliPoints, Outs
<1>1. ASSUME NEW c \in CliCmds, CliCommand(c) PROVE Typed'
  <2>1. CliOK' /\ cmds' \in 0..MaxCmds
    BY <1>0, <1>1 DEF CliCommand, CliPoints, BoundsOK, CliOK
  <2> QED
    BY <1>1, <2>1 DEF CliCommand, CoreOK, TuiOK, BoundsOK, TruthCounts
<1>2. CASE CliStart
  <2>1. CliOK'
    BY <1>0, <1>2, <1>a, <1>b, CliDoneTyped, CliGotoTyped DEF CliStart
  <2> QED
    BY <1>2, <2>1 DEF CliStart, CoreOK, TuiOK, BoundsOK, TruthCounts
<1>3. CASE CliSpawn
  <2>1. CliOK'
    BY <1>0, <1>3, <1>a, <1>b, CliDoneTyped, CliGotoTyped DEF CliSpawn
  <2>2. core' \in [Procs -> [st : Phases, proto : {"old", "new"}]]
    BY <1>3, SpawnTyped DEF CliSpawn, CoreOK
  <2> QED
    BY <1>3, <2>1, <2>2 DEF CliSpawn, CoreOK, TuiOK, BoundsOK, TruthCounts
<1>4. CASE CliWait
  <2>1. CliOK'
    BY <1>0, <1>4, <1>a, <1>b, CliDoneTyped, CliAgainTyped DEF CliWait
  <2> QED
    BY <1>4, <2>1 DEF CliWait, CoreOK, TuiOK, BoundsOK, TruthCounts
<1>5. CASE CliStop
  <2>1. CliOK'
    BY <1>0, <1>5, <1>a, <1>b, CliStopTyped, StopDoneTyped DEF CliStop
  <2>2. dying' \subseteq Procs
    BY <1>5, ServerConnects DEF CliStop, CoreOK
  <2> QED
    BY <1>5, <2>1, <2>2 DEF CliStop, CoreOK, TuiOK, BoundsOK, TruthCounts
<1>6. CASE CliPoll
  <2>1. cli.n + 1 < Probes => cli.n < Probes
    BY <1>0 DEF CliRecord
  <2>2. CliOK'
    BY <1>0, <1>6, <1>a, <1>b, <2>1, CliAgainTyped, StopDoneTyped DEF CliPoll
  <2> QED
    BY <1>6, <2>2 DEF CliPoll, CoreOK, TuiOK, BoundsOK, TruthCounts
<1> QED
  BY <1>1, <1>2, <1>3, <1>4, <1>5, <1>6 DEF CliStep, CliUser

LEMMA TypeNext == Typed /\ [Next]_vars => Typed'
<1> SUFFICES ASSUME Typed, [Next]_vars PROVE Typed'
  OBVIOUS
<1>1. CASE UNCHANGED vars
  BY <1>1 DEF vars, Typed, CoreOK, TuiOK, CliOK, BoundsOK, TruthCounts
<1>2. CASE CoreStep
  BY <1>2, CoreTyped DEF CoreStep
<1>3. CASE CoreFault
  BY <1>3, CoreTyped DEF CoreFault
<1> QED
  BY <1>1, <1>2, <1>3, StartTyped, ReadTyped, HandleTyped, CliTyped DEF Next

\* Only a change of the core touches the history of races.
LEMMA RacedTyped == raced \in BOOLEAN /\ [Next]_vars => raced' \in BOOLEAN
<1> SUFFICES ASSUME raced \in BOOLEAN, [Next]_vars PROVE raced' \in BOOLEAN
  OBVIOUS
<1>1. CASE UNCHANGED vars
  BY <1>1, Zenon DEF vars
<1>2. CASE CoreStep
  BY <1>2, Zenon DEF CoreStep, CoreBoot, CoreRead, CoreSend, CoreDie, CoreUnlink, CoreExit, Phase
<1>3. CASE CoreFault
  BY <1>3, Zenon DEF CoreFault, CoreChange, CoreCrash, Phase
<1>4. CASE TuiStart
  BY <1>4, Zenon DEF TuiStart, TuiQuery, TuiDie, TuiSpawn, TuiProbe, TuiConnect, StartVars
<1>5. CASE ReadLoop
  BY <1>5, Zenon DEF ReadLoop, ReadFrame, ReadError, Recovery, Reconnect, Respawn, Reprobe,
     RedialAfterSpawn, ReplaceWriter, Announce, LoopVars
<1>6. CASE HandleEvent
  BY <1>6, Zenon DEF HandleEvent
<1>7. CASE CliStep \/ CliUser
  BY <1>7, Zenon DEF CliStep, CliUser, CliCommand, CliStart, CliSpawn, CliWait, CliStop, CliPoll, CliVars
<1> QED
  BY <1>1, <1>2, <1>3, <1>4, <1>5, <1>6, <1>7 DEF Next

\* Every behaviour of the programs keeps the shape of the state: the counters of
\* attempts and probes of main.rs, spawn_read_loop and cli/commands/core.rs stay within
\* their limits, and every state that is shown or underway is one the core has had.
THEOREM TypeCorrect == Spec => []TypeOK
<1>1. Init => Typed /\ raced \in BOOLEAN
  BY TypeInit, Zenon DEF Init
<1>2. (Typed /\ raced \in BOOLEAN) /\ [Next]_vars => (Typed /\ raced \in BOOLEAN)'
  BY TypeNext, RacedTyped, Zenon
<1>3. Typed /\ raced \in BOOLEAN => TypeOK
  BY Zenon DEF Typed, TypeOK
<1> QED
  BY <1>1, <1>2, <1>3, PTL DEF Spec

-----------------------------------------------------------------------------
(* The two halves of the interface's connection.                           *)

LEMMA HalvesNext == Typed /\ HalvesAgree /\ [Next]_vars => HalvesAgree'
<1> SUFFICES ASSUME Typed, HalvesAgree, [Next]_vars PROVE HalvesAgree'
  OBVIOUS
<1>0. tui \in TuiRecord
  BY DEF Typed, TuiOK, TuiRecord
<1>1. ASSUME UNCHANGED tui PROVE HalvesAgree'
  BY <1>1 DEF HalvesAgree
<1>2. ASSUME NEW pc \in TuiPoints \ {"announce", "reading"}, Goto(pc) PROVE HalvesAgree'
  BY <1>0, <1>2, GotoTyped DEF HalvesAgree
<1>3. ASSUME Redial PROVE HalvesAgree'
  <2>1. LET s == [tui EXCEPT !.pc = "swap", !.n = 0, !.rd = Server] IN s.pc = "swap"
    BY <1>0 DEF TuiRecord
  <2>2. tui'.pc = "swap"
    BY <1>3, <2>1, Zenon DEF Redial
  <2> QED
    BY <2>2 DEF HalvesAgree
<1>4. ASSUME Again, tui.pc \notin {"announce", "reading"} PROVE HalvesAgree'
  BY <1>0, <1>4 DEF HalvesAgree, Again, TuiRecord
<1>5. CASE TuiStart
  <2>1. CASE TuiConnect /\ CanConnect
    BY <2>1 DEF TuiConnect, HalvesAgree
  <2>2. CASE TuiConnect /\ ~CanConnect
    BY <2>2, <1>2 DEF TuiConnect, TuiPoints
  <2>3. CASE TuiProbe
    BY <2>3, <1>2, <1>4 DEF TuiProbe, TuiPoints
  <2> QED
    BY <1>5, <2>1, <2>2, <2>3, <1>2 DEF TuiStart, TuiQuery, TuiDie, TuiSpawn, TuiPoints
<1>6. CASE ReadLoop
  <2>1. CASE ReadError
    <3>1. LET s == [tui EXCEPT !.pc = "retry", !.n = 0, !.rd = NoProc] IN s.pc = "retry"
      BY <1>0 DEF TuiRecord
    <3>2. tui'.pc = "retry"
      BY <2>1, <3>1, Zenon DEF ReadError
    <3> QED
      BY <3>2 DEF HalvesAgree
  <2>2. CASE Reconnect \/ Reprobe \/ RedialAfterSpawn \/ Respawn
    BY <2>2, <1>2, <1>3, <1>4 DEF Reconnect, Reprobe, RedialAfterSpawn, Respawn, TuiPoints, Recovering
  <2>3. CASE ReplaceWriter
    BY <2>3, <1>0 DEF ReplaceWriter, HalvesAgree, TuiRecord
  <2>4. CASE Announce
    BY <2>4, <1>0, GotoTyped DEF Announce, HalvesAgree, TuiPoints
  <2>5. CASE ReadFrame
    BY <2>5, <1>1 DEF ReadFrame
  <2> QED
    BY <1>6, <2>1, <2>2, <2>3, <2>4, <2>5 DEF ReadLoop, Recovery
<1>7. CASE CoreStep \/ CoreFault \/ HandleEvent \/ CliStep \/ CliUser \/ UNCHANGED vars
  <2>1. UNCHANGED tui
    BY <1>7 DEF CoreStep, CoreBoot, CoreRead, CoreSend, CoreDie, CoreUnlink, CoreExit, Phase,
       CoreFault, CoreChange, CoreCrash, HandleEvent, CliStep, CliUser, CliCommand, CliStart,
       CliSpawn, CliWait, CliStop, CliPoll, CliVars, vars
  <2> QED
    BY <2>1, <1>1
<1> QED
  BY <1>5, <1>6, <1>7 DEF Next

\* Whatever happens to the connection and however often the core is replaced, a command
\* typed while events arrive goes to the core the events come from: spawn_read_loop
\* swaps the writer before it reads on.
THEOREM WriterFollowsReader == Spec => []CommandsFollowEvents
<1>1. Init => Typed /\ HalvesAgree
  BY TypeInit DEF Init, HalvesAgree
<1>2. (Typed /\ HalvesAgree) /\ [Next]_vars => (Typed /\ HalvesAgree)'
  BY TypeNext, HalvesNext
<1>3. HalvesAgree => CommandsFollowEvents
  BY DEF HalvesAgree, CommandsFollowEvents
<1> QED
  BY <1>1, <1>2, <1>3, PTL DEF Spec

-----------------------------------------------------------------------------
(* What `core stop` reports.                                               *)

\* A core process never goes back to an earlier phase, nor changes its protocol.
Begun == {"serving", "closing", "unlinked", "dead"}
LetGo == {"unlinked", "dead"}
Forward ==
  \A p \in Procs : /\ core'[p].proto = core[p].proto
                   /\ core[p].st \in Begun => core'[p].st \in Begun
                   /\ core[p].st \in LetGo => core'[p].st \in LetGo

LEMMA CoreForward == Typed /\ [Next]_vars => Forward
<1> SUFFICES ASSUME Typed, [Next]_vars PROVE Forward
  OBVIOUS
<1> USE DEF Typed, CoreOK
<1>1. ASSUME UNCHANGED core PROVE Forward
  BY <1>1 DEF Forward
<1>2. ASSUME SpawnCore PROVE Forward
  BY <1>2 DEF Forward, SpawnCore, Unborn, Begun, LetGo
<1>3. ASSUME NEW p \in Procs, CoreBoot(p) PROVE Forward
  BY <1>3 DEF Forward, CoreBoot, Begun, LetGo
<1>4. ASSUME NEW p \in Procs, NEW to \in {"closing", "unlinked", "dead"}, NEW from, Phase(p, from, to),
             <<from, to>> \in {<<"serving", "closing">>, <<"closing", "unlinked">>} \/ to = "dead"
      PROVE  Forward
  BY <1>4 DEF Forward, Phase, Begun, LetGo
<1>5. CASE CoreStep
  <2>1. PICK p \in Procs : \/ CoreBoot(p) \/ CoreRead(p) \/ CoreSend(p)
                           \/ CoreDie(p) \/ CoreUnlink(p) \/ CoreExit(p)
    BY <1>5 DEF CoreStep
  <2> QED
    BY <2>1, <1>1, <1>3, <1>4 DEF CoreRead, CoreSend, CoreDie, CoreUnlink, CoreExit
<1>6. CASE CoreFault
  <2>1. PICK p \in Procs : CoreChange(p) \/ CoreCrash(p)
    BY <1>6 DEF CoreFault
  <2> QED
    BY <2>1, <1>1, <1>4 DEF CoreChange, CoreCrash
<1>7. CASE TuiStart
  BY <1>7, <1>1, <1>2 DEF TuiStart, TuiQuery, TuiDie, TuiSpawn, TuiProbe, TuiConnect
<1>8. CASE ReadLoop
  BY <1>8, <1>1, <1>2 DEF ReadLoop, ReadFrame, ReadError, Recovery, Reconnect, Respawn, Reprobe,
     RedialAfterSpawn, ReplaceWriter, Announce
<1>9. CASE HandleEvent \/ CliStep \/ CliUser \/ UNCHANGED vars
  BY <1>9, <1>1, <1>2 DEF HandleEvent, CliStep, CliUser, CliCommand, CliStart, CliSpawn, CliWait,
     CliStop, CliPoll, vars
<1> QED
  BY <1>5, <1>6, <1>7, <1>8, <1>9 DEF Next

\* A silent endpoint belongs to a core that has let go of it.
LEMMA SilentMeansGone ==
  ASSUME Typed, Stopping, cli.pc = "poll", ~CanConnect
  PROVE  cli.target \in Procs /\ core[cli.target].st \in LetGo
<1>1. cli.target \in Procs /\ ~Connects(cli.target) /\ core[cli.target].st \in Phases
  BY DEF Stopping, CanConnect, Typed, CoreOK
<1> QED
  BY <1>1 DEF Stopping, Connects, Alive, LetGo, Phases, Typed, CoreOK

LEMMA StopNext == Typed /\ Stopping /\ StopReported /\ [Next]_vars => Stopping' /\ StopReported'
<1> SUFFICES ASSUME Typed, Stopping, StopReported, [Next]_vars PROVE Stopping' /\ StopReported'
  OBVIOUS
<1>0. cli \in CliRecord /\ Forward /\ {"idle", "start", "spawn", "wait"} \subseteq CliPoints
         /\ {"attached", "offline", "timeout", "stopped"} \subseteq Outs
  BY CoreForward DEF Typed, CliOK, CliRecord, Outs, CliPoints
<1>p. core \in [Procs -> [st : Phases, proto : {"old", "new"}]]
  BY DEF Typed, CoreOK
\* Where the command line does not move, the core only moves forward.
<1>1. ASSUME UNCHANGED <<cli, transport>> PROVE Stopping' /\ StopReported'
  <2>1. ASSUME cli.pc = "poll"
        PROVE  core'[cli.target].st \notin {"unborn", "boot"} /\ core'[cli.target].proto = core[cli.target].proto
    <3>1. cli.target \in Procs /\ core[cli.target].st \in Begun
      BY <2>1, <1>p DEF Stopping, Begun, Phases
    <3> QED
      BY <3>1, <1>0 DEF Forward, Begun
  <2>2. Stopping'
    BY <1>1, <2>1 DEF Stopping
  <2>3. StopReported'
    BY <1>0, <1>1 DEF StopReported, CliRecord, Forward, LetGo
  <2> QED
    BY <2>2, <2>3
\* A command that is not finished has reported nothing; one that ends otherwise, nothing of this kind.
<1>2. ASSUME cli'.pc \in {"idle", "start", "spawn", "wait"}, cli'.out # "stopped",
             cli'.pc # "idle" => cli'.out = "none"
      PROVE  Stopping' /\ StopReported'
  BY <1>2 DEF Stopping, StopReported
<1>3. ASSUME CliCommand(CHOOSE c \in CliCmds : CliCommand(c)) PROVE Stopping' /\ StopReported'
  BY <1>3 DEF CliCommand, Stopping, StopReported
<1>4. CASE CliUser
  BY <1>3, <1>4 DEF CliUser
<1>5. CASE CliStart
  <2>1. cli.out = "none"
    BY <1>5 DEF CliStart, Stopping
  <2> QED
    BY <1>0, <1>2, <1>5, <2>1, CliDoneTyped, CliGotoTyped DEF CliStart
<1>6. CASE CliSpawn
  <2>1. cli.out = "none"
    BY <1>6 DEF CliSpawn, Stopping
  <2> QED
    BY <1>0, <1>2, <1>6, <2>1, CliDoneTyped, CliGotoTyped DEF CliSpawn
<1>7. CASE CliWait
  <2>1. cli.out = "none" /\ cli.pc = "wait"
    BY <1>7 DEF CliWait, Stopping
  <2> QED
    BY <1>0, <1>2, <1>7, <2>1, CliDoneTyped, CliAgainTyped DEF CliWait
<1>8. CASE CliStop
  <2>1. cli.out = "none" /\ cli.target = NoProc
    BY <1>8 DEF CliStop, Stopping
  <2>2. CASE CanConnect
    <3>1. cli'.pc = "poll" /\ cli'.target = Server /\ Server \in Procs /\ cli'.out = "none"
      BY <1>0, <1>8, <2>1, <2>2, CliStopTyped DEF CliStop
    <3>2. Connects(Server) /\ core' = core /\ transport' = transport
      BY <1>8, <2>2, ServerConnects DEF CliStop, CliVars
    <3> QED
      BY <3>1, <3>2, <1>p DEF Stopping, StopReported, Connects, Alive
  <2>3. CASE ~CanConnect
    <3>1. cli'.target = NoProc /\ (cli'.pc = "idle" \/ (cli'.pc = "start" /\ cli'.out = "none"))
      <4>1. StopDone("stopped") /\ "stopped" \in Outs
        BY <1>8, <2>3 DEF CliStop, Outs
      <4> QED
        BY <1>0, <2>1, <4>1, StopDoneTyped
    <3> QED
      BY <3>1 DEF Stopping, StopReported
  <2> QED
    BY <2>2, <2>3
<1>9. CASE CliPoll
  <2>1. cli.out = "none" /\ cli.pc = "poll"
    BY <1>9 DEF CliPoll, Stopping
  <2>2. CASE ~CanConnect
    <3>1. cli'.target = cli.target /\ core' = core
          /\ (cli'.pc = "idle" \/ (cli'.pc = "start" /\ cli'.out = "none"))
      <4>1. StopDone("stopped") /\ "stopped" \in Outs /\ core' = core
        BY <1>9, <2>2 DEF CliPoll, Outs
      <4> QED
        BY <1>0, <2>1, <4>1, StopDoneTyped
    <3> QED
      BY <3>1, <2>1, <2>2, SilentMeansGone DEF Stopping, StopReported, LetGo
  <2>3. CASE CanConnect /\ cli.n + 1 < Probes
    <3>1. cli' = [cli EXCEPT !.n = @ + 1] /\ cli.n < Probes /\ UNCHANGED <<core, transport>>
      BY <1>0, <1>9, <2>3, CoreLinkAssumption DEF CliPoll, CliVars, CliRecord
    <3>2. cli'.pc = cli.pc /\ cli'.out = cli.out /\ cli'.target = cli.target
      BY <1>0, <3>1, CliAgainTyped
    <3> QED
      BY <2>1, <3>1, <3>2 DEF Stopping, StopReported
  <2>4. CASE CanConnect /\ ~(cli.n + 1 < Probes)
    <3>1. (cli'.pc = "idle" /\ cli'.out = "timeout") \/ (cli'.pc = "start" /\ cli'.out = "none")
      <4>1. StopDone("timeout") /\ "timeout" \in Outs
        BY <1>9, <2>4 DEF CliPoll, Outs
      <4> QED
        BY <1>0, <2>1, <4>1, StopDoneTyped
    <3> QED
      BY <3>1, <1>2
  <2> QED
    BY <2>2, <2>3, <2>4
<1>10. CASE CoreStep \/ CoreFault \/ TuiStart \/ ReadLoop \/ HandleEvent \/ UNCHANGED vars
  <2>1. CASE CoreStep \/ CoreFault \/ HandleEvent \/ UNCHANGED vars
    BY <2>1, <1>1 DEF CoreStep, CoreBoot, CoreRead, CoreSend, CoreDie, CoreUnlink, CoreExit, Phase,
       CoreFault, CoreChange, CoreCrash, HandleEvent, vars
  <2>2. CASE TuiStart
    BY <2>2, <1>1 DEF TuiStart, TuiQuery, TuiDie, TuiSpawn, TuiProbe, TuiConnect, StartVars
  <2>3. CASE ReadLoop
    BY <2>3, <1>1 DEF ReadLoop, ReadFrame, ReadError, Recovery, Reconnect, Respawn, Reprobe,
       RedialAfterSpawn, ReplaceWriter, Announce, LoopVars
  <2> QED
    BY <1>10, <2>1, <2>2, <2>3
<1> QED
  BY <1>4, <1>5, <1>6, <1>7, <1>8, <1>9, <1>10 DEF Next, CliStep

\* `core stop` says "Core stopped." only of a core that has let go of its endpoint, for
\* any number of processes and however starts, crashes and other clients come between
\* two looks at the socket.
THEOREM StoppedIsStopped == Spec => []StopReported
<1>1. Init => Typed /\ Stopping /\ StopReported
  BY TypeInit DEF Init, Stopping, StopReported
<1>2. (Typed /\ Stopping /\ StopReported) /\ [Next]_vars => (Typed /\ Stopping /\ StopReported)'
  BY TypeNext, StopNext
<1> QED
  BY <1>1, <1>2, PTL DEF Spec

-----------------------------------------------------------------------------
(***************************************************************************)
(* The rule page.  What a copy of the interface will be when it has        *)
(* handled the events under way: the newest one that tells of it, or       *)
(* without one what it is now.                                             *)
(***************************************************************************)
Is(e, k, g) == e.k = k /\ e.g = g
Tells(q, k, g) == \E i \in DOMAIN q : Is(q[i], k, g)
Newest(q, k, g) ==
  {q[i] : i \in {i \in DOMAIN q : Is(q[i], k, g) /\ \A j \in DOMAIN q : Is(q[j], k, g) => j <= i}}

WillRoute(q, now) ==
  IF Tells(q, "routing", Global) THEN {f.eff : f \in Newest(q, "routing", Global)} ELSE {now}
WillUse(q, now, g) ==
  IF Tells(q, "group", g) THEN {f.src : f \in Newest(q, "group", g)} ELSE {now}
WillView(q, now, g) ==
  IF Tells(q, "routing", g) THEN {Some(f.eff) : f \in Newest(q, "routing", g)} ELSE {now}

IsQueue(q) == q \in Seq({q[i] : i \in DOMAIN q})

LEMMA QueueIntro == ASSUME NEW S, NEW q \in Seq(S) PROVE IsQueue(q)
  BY DEF IsQueue

LEMMA QueueAppend ==
  ASSUME NEW q, IsQueue(q), NEW e
  PROVE  /\ IsQueue(Append(q, e)) /\ Len(q) \in Nat /\ DOMAIN q = 1..Len(q)
         /\ DOMAIN Append(q, e) = 1..(Len(q) + 1)
         /\ \A i \in DOMAIN q : Append(q, e)[i] = q[i]
         /\ Append(q, e)[Len(q) + 1] = e
         /\ q \o <<e>> = Append(q, e) /\ q \o <<>> = q
<1>1. PICK S : q \in Seq(S) BY DEF IsQueue
<1> DEFINE T == S \cup {e}
<1>2. q \in Seq(T) /\ e \in T BY <1>1
<1> HIDE DEF T
<1>3. Append(q, e) \in Seq(T) BY <1>2
<1>4. IsQueue(Append(q, e)) BY <1>3, QueueIntro, Zenon
<1> QED BY <1>2, <1>4

LEMMA QueuePair ==
  ASSUME NEW q, IsQueue(q), NEW a, NEW b
  PROVE  q \o <<a, b>> = Append(Append(q, a), b)
<1>1. PICK S : q \in Seq(S) BY DEF IsQueue
<1> DEFINE T == S \cup {a, b}
<1>2. q \in Seq(T) /\ a \in T /\ b \in T BY <1>1
<1> HIDE DEF T
<1> QED BY <1>2

LEMMA QueueTail ==
  ASSUME NEW q, IsQueue(q), q # <<>>
  PROVE  /\ IsQueue(Tail(q)) /\ Len(q) \in Nat \ {0} /\ DOMAIN q = 1..Len(q)
         /\ DOMAIN Tail(q) = 1..(Len(q) - 1)
         /\ \A i \in DOMAIN Tail(q) : Tail(q)[i] = q[i + 1]
         /\ Head(q) = q[1]
<1>1. PICK S : q \in Seq(S) BY DEF IsQueue
<1>2. Tail(q) \in Seq(S) BY <1>1
<1>3. IsQueue(Tail(q)) BY <1>2, QueueIntro, Zenon
<1> QED BY <1>1, <1>3

LEMMA AppendTells ==
  ASSUME NEW q, IsQueue(q), NEW e, NEW k, NEW g
  PROVE  /\ Is(e, k, g) => Tells(Append(q, e), k, g) /\ Newest(Append(q, e), k, g) = {e}
         /\ ~Is(e, k, g) => /\ Tells(Append(q, e), k, g) = Tells(q, k, g)
                            /\ Newest(Append(q, e), k, g) = Newest(q, k, g)
<1> DEFINE p == Append(q, e)
           n == Len(q)
<1>1. /\ n \in Nat /\ DOMAIN q = 1..n /\ DOMAIN p = 1..(n + 1)
      /\ \A i \in 1..n : p[i] = q[i]
      /\ p[n + 1] = e
  BY QueueAppend
<1> HIDE DEF p, n
<1>2. CASE Is(e, k, g)
  <2>1. Is(p[n + 1], k, g) /\ n + 1 \in DOMAIN p BY <1>1, <1>2
  <2>2. Tells(p, k, g) BY <2>1 DEF Tells
  <2>3. Newest(p, k, g) = {e} BY <1>1, <2>1 DEF Newest
  <2> QED BY <1>2, <2>2, <2>3 DEF p
<1>3. CASE ~Is(e, k, g)
  <2>1. ~Is(p[n + 1], k, g) BY <1>1, <1>3
  <2>2. Tells(p, k, g) = Tells(q, k, g) BY <1>1, <2>1 DEF Tells
  <2>3. Newest(p, k, g) \subseteq Newest(q, k, g)
    <3> SUFFICES ASSUME NEW i \in DOMAIN p, Is(p[i], k, g), \A j \in DOMAIN p : Is(p[j], k, g) => j <= i
                 PROVE  p[i] \in Newest(q, k, g)
      BY DEF Newest
    <3>1. i \in DOMAIN q /\ p[i] = q[i] BY <1>1, <2>1
    <3>2. \A j \in DOMAIN q : Is(q[j], k, g) => j <= i BY <1>1
    <3> QED BY <3>1, <3>2 DEF Newest
  <2>4. Newest(q, k, g) \subseteq Newest(p, k, g)
    <3> SUFFICES ASSUME NEW i \in DOMAIN q, Is(q[i], k, g), \A j \in DOMAIN q : Is(q[j], k, g) => j <= i
                 PROVE  q[i] \in Newest(p, k, g)
      BY DEF Newest
    <3>1. i \in DOMAIN p /\ p[i] = q[i] BY <1>1
    <3>2. \A j \in DOMAIN p : Is(p[j], k, g) => j <= i BY <1>1, <2>1
    <3> QED BY <3>1, <3>2 DEF Newest
  <2> QED BY <1>3, <2>2, <2>3, <2>4 DEF p
<1> QED BY <1>2, <1>3

LEMMA TailTells ==
  ASSUME NEW q, IsQueue(q), q # <<>>, NEW k, NEW g
  PROVE  /\ Tells(q, k, g) <=> Is(Head(q), k, g) \/ Tells(Tail(q), k, g)
         /\ Tells(Tail(q), k, g) => Newest(q, k, g) = Newest(Tail(q), k, g)
         /\ ~Tells(Tail(q), k, g) /\ Is(Head(q), k, g) => Newest(q, k, g) = {Head(q)}
<1> DEFINE p == Tail(q)
           n == Len(q)
<1>1. /\ n \in Nat \ {0} /\ DOMAIN q = 1..n /\ DOMAIN p = 1..(n - 1)
      /\ \A i \in 1..(n - 1) : p[i] = q[i + 1]
      /\ Head(q) = q[1]
  BY QueueTail
<1> HIDE DEF p, n
<1>2. \A i \in 2..n : i - 1 \in DOMAIN p /\ p[i - 1] = q[i] BY <1>1
<1>3. \A i \in DOMAIN p : i + 1 \in 2..n /\ q[i + 1] = p[i] BY <1>1
<1>4. DOMAIN q = {1} \cup 2..n BY <1>1
<1>5. Tells(q, k, g) <=> Is(Head(q), k, g) \/ Tells(p, k, g) BY <1>1, <1>2, <1>3, <1>4, Zenon DEF Tells
<1>6. ASSUME Tells(p, k, g) PROVE Newest(q, k, g) = Newest(p, k, g)
  <2>1. PICK m \in DOMAIN p : Is(p[m], k, g) BY <1>6 DEF Tells
  <2>2. Newest(p, k, g) \subseteq Newest(q, k, g)
    <3> SUFFICES ASSUME NEW i \in DOMAIN p, Is(p[i], k, g), \A j \in DOMAIN p : Is(p[j], k, g) => j <= i
                 PROVE  p[i] \in Newest(q, k, g)
      BY DEF Newest
    <3>1. i + 1 \in DOMAIN q /\ q[i + 1] = p[i] BY <1>1
    <3>2. \A j \in DOMAIN q : Is(q[j], k, g) => j <= i + 1
      <4> SUFFICES ASSUME NEW j \in DOMAIN q, Is(q[j], k, g), j > i + 1 PROVE FALSE
        BY <1>1
      <4>1. j - 1 \in DOMAIN p /\ p[j - 1] = q[j] BY <1>1, <1>2
      <4> QED BY <1>1, <4>1
    <3> QED BY <3>1, <3>2 DEF Newest
  <2>3. Newest(q, k, g) \subseteq Newest(p, k, g)
    <3> SUFFICES ASSUME NEW i \in DOMAIN q, Is(q[i], k, g), \A j \in DOMAIN q : Is(q[j], k, g) => j <= i
                 PROVE  q[i] \in Newest(p, k, g)
      BY DEF Newest
    <3>1. m + 1 \in DOMAIN q /\ Is(q[m + 1], k, g) BY <1>1, <2>1
    <3>2. i \in 2..n BY <1>1, <2>1, <3>1
    <3>3. i - 1 \in DOMAIN p /\ p[i - 1] = q[i] BY <1>2, <3>2
    <3>4. \A j \in DOMAIN p : Is(p[j], k, g) => j <= i - 1
      <4> SUFFICES ASSUME NEW j \in DOMAIN p, Is(p[j], k, g) PROVE j <= i - 1
        OBVIOUS
      <4>1. j + 1 \in DOMAIN q /\ Is(q[j + 1], k, g) BY <1>1
      <4> QED BY <1>1, <4>1
    <3> QED BY <3>3, <3>4 DEF Newest
  <2> QED BY <2>2, <2>3, Zenon
<1>7. ASSUME ~Tells(p, k, g), Is(Head(q), k, g) PROVE Newest(q, k, g) = {Head(q)}
  <2>1. \A i \in 2..n : ~Is(q[i], k, g) BY <1>2, <1>7 DEF Tells
  <2>2. 1 \in DOMAIN q /\ Is(q[1], k, g) BY <1>1, <1>7
  <2> QED BY <1>1, <1>4, <2>1, <2>2 DEF Newest
<1> QED BY <1>5, <1>6, <1>7 DEF p

LEMMA AppendRoute ==
  ASSUME NEW q, IsQueue(q), NEW e, NEW now
  PROVE  /\ Is(e, "routing", Global) => WillRoute(Append(q, e), now) = {e.eff}
         /\ ~Is(e, "routing", Global) => WillRoute(Append(q, e), now) = WillRoute(q, now)
<1>1. PICK p : p = Append(q, e) BY Zenon
<1>2. Is(e, "routing", Global) => Tells(p, "routing", Global) /\ Newest(p, "routing", Global) = {e}
  BY <1>1, AppendTells
<1>3. ~Is(e, "routing", Global) => /\ Tells(p, "routing", Global) <=> Tells(q, "routing", Global)
                                  /\ Newest(p, "routing", Global) = Newest(q, "routing", Global)
  BY <1>1, AppendTells
<1> QED BY <1>1, <1>2, <1>3, Zenon DEF WillRoute

LEMMA AppendWill ==
  ASSUME NEW q, IsQueue(q), NEW e, NEW now, NEW g
  PROVE  /\ Is(e, "group", g) => WillUse(Append(q, e), now, g) = {e.src}
         /\ ~Is(e, "group", g) => WillUse(Append(q, e), now, g) = WillUse(q, now, g)
         /\ Is(e, "routing", g) => WillView(Append(q, e), now, g) = {Some(e.eff)}
         /\ ~Is(e, "routing", g) => WillView(Append(q, e), now, g) = WillView(q, now, g)
<1>1. PICK p : p = Append(q, e) BY Zenon
<1>2. \A k, h : Is(e, k, h) => Tells(p, k, h) /\ Newest(p, k, h) = {e} BY <1>1, AppendTells
<1>3. \A k, h : ~Is(e, k, h) => (Tells(p, k, h) <=> Tells(q, k, h)) /\ Newest(p, k, h) = Newest(q, k, h)
  BY <1>1, AppendTells
<1>5. /\ Is(e, "group", g) => WillUse(p, now, g) = {e.src}
      /\ ~Is(e, "group", g) => WillUse(p, now, g) = WillUse(q, now, g)
  BY <1>2, <1>3 DEF WillUse
<1>6. /\ Is(e, "routing", g) => WillView(p, now, g) = {Some(e.eff)}
      /\ ~Is(e, "routing", g) => WillView(p, now, g) = WillView(q, now, g)
  BY <1>2, <1>3, Zenon DEF WillView
<1> QED BY <1>1, <1>5, <1>6

LEMMA TailWill ==
  ASSUME NEW q, IsQueue(q), q # <<>>, NEW now, NEW next, NEW g
  PROVE  /\ next = (IF Is(Head(q), "routing", Global) THEN Head(q).eff ELSE now)
              => WillRoute(Tail(q), next) = WillRoute(q, now)
         /\ next = (IF Is(Head(q), "group", g) THEN Head(q).src ELSE now)
              => WillUse(Tail(q), next, g) = WillUse(q, now, g)
         /\ next = (IF Is(Head(q), "routing", g) THEN Some(Head(q).eff) ELSE now)
              => WillView(Tail(q), next, g) = WillView(q, now, g)
<1>1. PICK p : p = Tail(q) BY Zenon
<1>2. PICK e : e = Head(q) OBVIOUS
<1>3. \A k, h : Tells(q, k, h) <=> Is(e, k, h) \/ Tells(p, k, h) BY <1>1, <1>2, TailTells
<1>4. \A k, h : Tells(p, k, h) => Newest(q, k, h) = Newest(p, k, h) BY <1>1, <1>2, TailTells
<1>5. \A k, h : ~Tells(p, k, h) /\ Is(e, k, h) => Newest(q, k, h) = {e} BY <1>1, <1>2, TailTells
<1>6. ASSUME next = (IF Is(e, "routing", Global) THEN e.eff ELSE now) PROVE WillRoute(p, next) = WillRoute(q, now)
  <2>1. CASE Tells(p, "routing", Global)
    <3>1. Tells(q, "routing", Global) /\ Newest(q, "routing", Global) = Newest(p, "routing", Global) BY <1>3, <1>4, <2>1
    <3> QED BY <2>1, <3>1, Zenon DEF WillRoute
  <2>2. CASE ~Tells(p, "routing", Global) /\ Is(e, "routing", Global)
    <3>1. Tells(q, "routing", Global) /\ Newest(q, "routing", Global) = {e} BY <1>3, <1>5, <2>2
    <3>2. next = e.eff BY <1>6, <2>2
    <3> QED BY <2>2, <3>1, <3>2 DEF WillRoute
  <2>3. CASE ~Tells(p, "routing", Global) /\ ~Is(e, "routing", Global)
    <3>1. ~Tells(q, "routing", Global) BY <1>3, <2>3
    <3>2. next = now BY <1>6, <2>3
    <3> QED BY <2>3, <3>1, <3>2, Zenon DEF WillRoute
  <2> QED BY <2>1, <2>2, <2>3
<1>7. ASSUME next = (IF Is(e, "group", g) THEN e.src ELSE now) PROVE WillUse(p, next, g) = WillUse(q, now, g)
  <2>1. CASE Tells(p, "group", g)
    <3>1. Tells(q, "group", g) /\ Newest(q, "group", g) = Newest(p, "group", g) BY <1>3, <1>4, <2>1
    <3> QED BY <2>1, <3>1, Zenon DEF WillUse
  <2>2. CASE ~Tells(p, "group", g) /\ Is(e, "group", g)
    <3>1. Tells(q, "group", g) /\ Newest(q, "group", g) = {e} BY <1>3, <1>5, <2>2
    <3>2. next = e.src BY <1>7, <2>2
    <3> QED BY <2>2, <3>1, <3>2 DEF WillUse
  <2>3. CASE ~Tells(p, "group", g) /\ ~Is(e, "group", g)
    <3>1. ~Tells(q, "group", g) BY <1>3, <2>3
    <3>2. next = now BY <1>7, <2>3
    <3> QED BY <2>3, <3>1, <3>2, Zenon DEF WillUse
  <2> QED BY <2>1, <2>2, <2>3
<1>8. ASSUME next = (IF Is(e, "routing", g) THEN Some(e.eff) ELSE now) PROVE WillView(p, next, g) = WillView(q, now, g)
  <2>1. CASE Tells(p, "routing", g)
    <3>1. Tells(q, "routing", g) /\ Newest(q, "routing", g) = Newest(p, "routing", g) BY <1>3, <1>4, <2>1
    <3> QED BY <2>1, <3>1, Zenon DEF WillView
  <2>2. CASE ~Tells(p, "routing", g) /\ Is(e, "routing", g)
    <3>1. Tells(q, "routing", g) /\ Newest(q, "routing", g) = {e} BY <1>3, <1>5, <2>2
    <3>2. next = Some(e.eff) BY <1>8, <2>2
    <3> QED BY <2>2, <3>1, <3>2 DEF WillView
  <2>3. CASE ~Tells(p, "routing", g) /\ ~Is(e, "routing", g)
    <3>1. ~Tells(q, "routing", g) BY <1>3, <2>3
    <3>2. next = now BY <1>8, <2>3
    <3> QED BY <2>3, <3>1, <3>2, Zenon DEF WillView
  <2> QED BY <2>1, <2>2, <2>3
<1> QED BY <1>1, <1>2, <1>6, <1>7, <1>8

-----------------------------------------------------------------------------
Clients == {"tui", "cli"}
Awaited(g) == Tells(requests, "update", g)

\* A frame of the core, and a request of the interface.
GoodFrame(e) ==
  /\ e.k \in {"routing", "group", "deleted"} /\ e.g \in Pages
  /\ e.k # "routing" => e.g \in Gids /\ e.src \in {"global", "custom"}
GoodRequest(r) ==
  r.k \in {"get", "update", "source"} /\ r.g \in Pages /\ (r.k = "source" => r.g \in Gids)

StoreShape ==
  /\ alive \in SUBSET Gids /\ source \in SUBSET Gids
  /\ stored = [g \in Gids |-> stored[g]]
Frames(q) == IsQueue(q) /\ \A i \in DOMAIN q : GoodFrame(q[i])
Requests(q) == IsQueue(q) /\ \A i \in DOMAIN q : GoodRequest(q[i])
AnswerShape ==
  /\ answer = [c \in Clients |-> answer[c]]
  /\ \A c \in Clients : answer[c] # NoMsg => answer[c].k = "routing" /\ answer[c].g \in Pages
  /\ command.g \in Pages
CopyShape ==
  /\ view = [g \in Gids |-> [eff |-> view[g].eff, cust |-> view[g].cust]]
  /\ order \in Seq(Gids)
  /\ \A i, j \in DOMAIN order : i # j => order[i] # order[j]

\* A group that was deleted is shown until its event is handled.
GoneInv ==
  /\ \A g \in alive : ~Tells(updates, "deleted", g)
  /\ \A i \in DOMAIN order : order[i] \in alive \/ Tells(updates, "deleted", order[i])

\* Until a change crosses an answer, the answer says what the core would say now, and
\* what the interface will show is what the core has, or a request of it will change that.
AnswerInv == \A c \in Clients : answer[c] # NoMsg => answer[c] = Payload(answer[c].g)
RouteInv == Awaited(Global) \/ \A list \in WillRoute(updates, routing) : list = rules
Used(g) == IF g \in custom THEN "custom" ELSE "global"
UseInv == \A g \in alive : \A src \in WillUse(updates, Used(g), g) :
            /\ g \in source => src = "custom"
            /\ src = "custom" => g \in source \/ Awaited(g)
ViewInv == \A g \in alive \cap source :
             Awaited(g) \/ \A v \in WillView(updates, view[g].eff, g) : v.has => v.list = stored[g].list

Shape == StoreShape /\ Frames(updates) /\ Requests(requests) /\ AnswerShape /\ CopyShape
RuleInv == Shape /\ GoneInv /\ (crossed \/ (AnswerInv /\ RouteInv /\ UseInv /\ ViewInv))

LEMMA FramesAppend == ASSUME NEW q, Frames(q), NEW e, GoodFrame(e) PROVE Frames(Append(q, e))
<1> DEFINE p == Append(q, e)
<1>1. /\ IsQueue(p) /\ Len(q) \in Nat /\ DOMAIN q = 1..Len(q) /\ DOMAIN p = 1..(Len(q) + 1)
      /\ \A i \in DOMAIN q : p[i] = q[i]
      /\ p[Len(q) + 1] = e
  BY QueueAppend DEF Frames
<1> HIDE DEF p
<1>2. \A i \in DOMAIN p : GoodFrame(p[i]) BY <1>1 DEF Frames
<1>3. Frames(p) BY <1>1, <1>2 DEF Frames
<1> QED BY <1>3 DEF p

LEMMA FramesTail ==
  ASSUME NEW q, Frames(q), q # <<>>
  PROVE  Frames(Tail(q)) /\ GoodFrame(Head(q))
BY QueueTail DEF Frames

LEMMA RequestsAppend == ASSUME NEW q, Requests(q), NEW r, GoodRequest(r) PROVE Requests(Append(q, r))
<1> DEFINE p == Append(q, r)
<1>1. /\ IsQueue(p) /\ Len(q) \in Nat /\ DOMAIN q = 1..Len(q) /\ DOMAIN p = 1..(Len(q) + 1)
      /\ \A i \in DOMAIN q : p[i] = q[i]
      /\ p[Len(q) + 1] = r
  BY QueueAppend DEF Requests
<1> HIDE DEF p
<1>2. \A i \in DOMAIN p : GoodRequest(p[i]) BY <1>1 DEF Requests
<1>3. Requests(p) BY <1>1, <1>2 DEF Requests
<1> QED BY <1>3 DEF p

LEMMA RequestsTail ==
  ASSUME NEW q, Requests(q), q # <<>>
  PROVE  Requests(Tail(q)) /\ GoodRequest(Head(q))
BY QueueTail DEF Requests

\* The parts of the invariant speak of these variables only.
ruleState == <<rules, stored, source, alive, answer, requests, updates, routing, view, custom, order,
               command, crossed>>

LEMMA RestKeeps == ASSUME RuleInv, UNCHANGED ruleState PROVE RuleInv'
<1> QED BY Zenon DEF ruleState, RuleInv, Shape, StoreShape, AnswerShape, CopyShape, GoneInv, AnswerInv,
     RouteInv, UseInv, ViewInv, Awaited, Used, Payload

\* Requests that are no update change nothing that is expected.
LEMMA SendKeeps ==
  ASSUME RuleInv, NEW r, NEW t, \/ requests' = Append(requests, r)
                                \/ requests' = Append(Append(requests, r), t),
         GoodRequest(r), r.k # "update", GoodRequest(t), t.k # "update",
         UNCHANGED <<rules, stored, source, alive, answer, updates, routing, view, custom, order, command, crossed>>
  PROVE  RuleInv'
<1> DEFINE q == Append(requests, r)
<1>1. Requests(q) /\ Requests(Append(q, t)) BY RequestsAppend DEF RuleInv, Shape
<1>2. ASSUME NEW g PROVE Awaited(g)' <=> Awaited(g)
  <2>1. IsQueue(requests) /\ IsQueue(q) /\ ~Is(r, "update", g) /\ ~Is(t, "update", g)
    BY <1>1 DEF RuleInv, Shape, Requests, Is
  <2>2. Tells(q, "update", g) <=> Tells(requests, "update", g) BY <2>1, AppendTells
  <2>3. Tells(Append(q, t), "update", g) <=> Tells(q, "update", g)
    <3> HIDE DEF q
    <3> QED BY <2>1, AppendTells
  <2> QED BY <2>2, <2>3, Zenon DEF Awaited
<1>3. Shape' BY <1>1, Zenon DEF RuleInv, Shape, StoreShape, AnswerShape, CopyShape
<1>4. GoneInv' BY DEF RuleInv, GoneInv
<1>5. AnswerInv' = AnswerInv BY DEF AnswerInv, Payload
<1>6. RouteInv => RouteInv' BY <1>2 DEF RouteInv
<1>7. UseInv => UseInv' BY <1>2, Zenon DEF UseInv, Used
<1>8. ViewInv => ViewInv' BY <1>2 DEF ViewInv
<1> QED BY <1>3, <1>4, <1>5, <1>6, <1>7, <1>8 DEF RuleInv

LEMMA GlobalIsNoGroup == Global \notin Gids /\ Gids \subseteq Pages /\ Global \in Pages
  BY RulesAssumption DEF Global, Pages

LEMMA PayloadGives ==
  ASSUME NEW g \in Pages, StoreShape
  PROVE  /\ Payload(g).k = "routing" /\ Payload(g).g = g
         /\ g = Global => Payload(g).eff = rules
         /\ g \in source => Payload(g).eff = stored[g].list
BY GlobalIsNoGroup DEF Payload, StoreShape

LEMMA RulesInitially == RulesInit => RuleInv
<1> SUFFICES ASSUME RulesInit PROVE RuleInv
  OBVIOUS
<1> USE DEF RulesInit
<1>1. StoreShape
  <2>1. source \in SUBSET Gids /\ alive \in SUBSET Gids OBVIOUS
  <2>2. stored = [g \in Gids |-> stored[g]] OBVIOUS
  <2> QED BY <2>1, <2>2 DEF StoreShape
<1>2. updates = <<>> /\ requests = <<>> /\ <<>> \in Seq({}) OBVIOUS
<1>3. Frames(updates) /\ Requests(requests) BY <1>2 DEF Frames, Requests, IsQueue
<1>4. \A k, g : ~Tells(updates, k, g) BY <1>2 DEF Tells
<1>5. AnswerShape /\ AnswerInv BY GlobalIsNoGroup DEF AnswerShape, AnswerInv, Clients, NoCli
<1>6. CopyShape
  <2>1. view = [g \in Gids |-> [eff |-> view[g].eff, cust |-> view[g].cust]] BY DEF NoView
  <2>2. Cardinality(Gids) \in Nat BY RulesAssumption, FS_CardinalityType
  <2>3. /\ order \in [1..Cardinality(Gids) -> Gids]
        /\ \A i, j \in 1..Cardinality(Gids) : i # j => order[i] # order[j]
    BY DEF SetToSeqs
  <2>4. order \in Seq(Gids) BY <2>2, <2>3
  <2> QED BY <2>1, <2>3, <2>4 DEF CopyShape
<1>7. GoneInv BY <1>4, <1>6 DEF GoneInv, CopyShape
<1>8. RouteInv BY <1>4 DEF RouteInv, WillRoute
<1>9. UseInv BY <1>4 DEF UseInv, WillUse, Used
<1>10. ViewInv
  <2>1. \A g \in Gids : view[g].eff.has = FALSE BY DEF NoView, None
  <2>2. \A g \in Gids : WillView(updates, view[g].eff, g) = {view[g].eff} BY <1>4 DEF WillView
  <2> QED BY <1>1, <2>1, <2>2 DEF ViewInv, StoreShape
<1> QED BY <1>1, <1>3, <1>5, <1>6, <1>7, <1>8, <1>9, <1>10 DEF RuleInv, Shape

\* An answer is put together.
LEMMA AnswerKeeps ==
  ASSUME RuleInv, NEW c \in Clients, NEW g \in Pages, answer' = [answer EXCEPT ![c] = Payload(g)],
         \/ requests' = requests /\ command'.g \in Pages
         \/ requests # <<>> /\ requests' = Tail(requests) /\ Head(requests).k # "update" /\ command' = command,
         UNCHANGED <<rules, stored, source, alive, updates, routing, view, custom, order, crossed>>
  PROVE  RuleInv'
<1>1. Requests(requests)' /\ command'.g \in Pages
  BY RequestsTail, Zenon DEF RuleInv, Shape, AnswerShape
<1>2. ASSUME NEW h PROVE Awaited(h)' <=> Awaited(h)
  <2>1. CASE requests' = requests BY <2>1 DEF Awaited
  <2>2. CASE requests # <<>> /\ requests' = Tail(requests) /\ Head(requests).k # "update"
    <3>1. IsQueue(requests) BY DEF RuleInv, Shape, Requests
    <3>2. Tells(requests, "update", h) <=> Is(Head(requests), "update", h) \/ Tells(Tail(requests), "update", h)
      BY <2>2, <3>1, TailTells
    <3> QED BY <2>2, <3>2 DEF Awaited, Is
  <2> QED BY <2>1, <2>2
<1>3. PICK p : p = Payload(g) OBVIOUS
<1>4. p.k = "routing" /\ p.g = g BY <1>3, PayloadGives DEF RuleInv, Shape
<1>5. /\ answer' = [x \in Clients |-> answer'[x]] /\ answer'[c] = p
      /\ \A x \in Clients \ {c} : answer'[x] = answer[x]
  BY <1>3 DEF RuleInv, Shape, AnswerShape
<1>6. AnswerShape' BY <1>1, <1>4, <1>5 DEF RuleInv, Shape, AnswerShape
<1>7. Shape' BY <1>1, <1>6 DEF RuleInv, Shape, StoreShape, CopyShape
<1>8. GoneInv' BY DEF RuleInv, GoneInv
<1>9. AnswerInv => AnswerInv'
  <2>1. \A x : Payload(x)' = Payload(x) BY DEF Payload
  <2> QED BY <1>3, <1>4, <1>5, <2>1 DEF AnswerInv
<1>10. RouteInv => RouteInv' BY <1>2 DEF RouteInv
<1>11. UseInv => UseInv' BY <1>2, Zenon DEF UseInv, Used
<1>12. ViewInv => ViewInv' BY <1>2 DEF ViewInv
<1> QED BY <1>7, <1>8, <1>9, <1>10, <1>11, <1>12 DEF RuleInv

\* An answer is sent.
LEMMA SentKeeps == ASSUME RuleInv, NEW c \in Clients, SendAnswer(c) PROVE RuleInv'
<1> USE DEF SendAnswer
<1>1. PICK e : e = answer[c] OBVIOUS
<1>2. /\ e.k = "routing" /\ e.g \in Pages /\ GoodFrame(e)
      /\ answer = [x \in Clients |-> answer[x]]
  BY <1>1 DEF RuleInv, Shape, AnswerShape, GoodFrame
<1>3. updates' = Append(updates, e) /\ Frames(updates)' BY <1>1, <1>2, FramesAppend DEF RuleInv, Shape
<1>4. command'.g \in Pages BY <1>1, <1>2 DEF RuleInv, Shape, AnswerShape
<1>5. /\ answer' = [x \in Clients |-> answer'[x]] /\ answer'[c] = NoMsg
      /\ \A x \in Clients \ {c} : answer'[x] = answer[x]
  BY <1>2
<1>6. AnswerShape' BY <1>4, <1>5 DEF RuleInv, Shape, AnswerShape
<1>7. Shape' BY <1>3, <1>6 DEF RuleInv, Shape, StoreShape, CopyShape, stores, copies
<1>8. IsQueue(updates) BY DEF RuleInv, Shape, Frames
<1>9. GoneInv'
  <2>1. \A g : ~Is(e, "deleted", g) BY <1>2 DEF Is
  <2>2. \A g : Tells(updates', "deleted", g) = Tells(updates, "deleted", g) BY <1>3, <1>8, <2>1, AppendTells
  <2> QED BY <2>2 DEF RuleInv, GoneInv, stores, copies
<1>10. ASSUME ~crossed, AnswerInv, RouteInv, UseInv, ViewInv PROVE AnswerInv' /\ RouteInv' /\ UseInv' /\ ViewInv'
  <2>1. e = Payload(e.g) BY <1>1, <1>10 DEF AnswerInv
  <2>2. /\ e.g = Global => e.eff = rules
        /\ e.g \in source => e.eff = stored[e.g].list
    BY <1>2, <2>1, PayloadGives DEF RuleInv, Shape
  <2>3. AnswerInv'
    <3>1. \A x : Payload(x)' = Payload(x) BY DEF Payload, stores
    <3> QED BY <1>5, <1>10, <3>1 DEF AnswerInv
  <2>4. RouteInv'
    <3>1. /\ Is(e, "routing", Global) => WillRoute(updates', routing) = {e.eff}
          /\ ~Is(e, "routing", Global) => WillRoute(updates', routing) = WillRoute(updates, routing)
      BY <1>3, <1>8, AppendRoute
    <3>2. \/ Awaited(Global) \/ \A list \in WillRoute(updates', routing) : list = rules
      BY <1>10, <2>2, <3>1 DEF RouteInv, Is
    <3> QED BY <3>2 DEF RouteInv, Awaited, stores, copies
  <2>5. UseInv'
    <3>1. ASSUME NEW g PROVE WillUse(updates', Used(g), g) = WillUse(updates, Used(g), g)
      <4>1. ~Is(e, "group", g) BY <1>2 DEF Is
      <4> QED BY <1>3, <1>8, <4>1, AppendWill
    <3> QED BY <1>10, <3>1, Zenon DEF UseInv, Used, Awaited, stores, copies
  <2>6. ViewInv'
    <3> SUFFICES ASSUME NEW g \in alive \cap source, ~Awaited(g), NEW v \in WillView(updates', view[g].eff, g), v.has
                 PROVE  v.list = stored[g].list
      BY DEF ViewInv, Awaited, stores, copies
    <3>1. /\ Is(e, "routing", g) => WillView(updates', view[g].eff, g) = {Some(e.eff)}
          /\ ~Is(e, "routing", g) => WillView(updates', view[g].eff, g) = WillView(updates, view[g].eff, g)
      BY <1>3, <1>8, AppendWill
    <3>2. CASE Is(e, "routing", g)
      <4>1. v = Some(e.eff) /\ e.g = g BY <3>1, <3>2 DEF Is
      <4> QED BY <2>2, <4>1 DEF Some
    <3>3. CASE ~Is(e, "routing", g)
      <4>1. v \in WillView(updates, view[g].eff, g) BY <3>1, <3>3
      <4> QED BY <1>10, <4>1 DEF ViewInv
    <3> QED BY <3>2, <3>3
  <2> QED BY <2>3, <2>4, <2>5, <2>6
<1> QED BY <1>7, <1>9, <1>10 DEF RuleInv, history

\* A list is edited: the copy changes at once, the core when it has the request.
LEMMA CommitKeeps ==
  ASSUME RuleInv, NEW list, Commit(list), UNCHANGED Rest
  PROVE  RuleInv'
<1> USE DEF Commit, Rest, stores
<1>1. PICK h : h = PageGid OBVIOUS
<1>2. h \in Pages BY <1>1, GlobalIsNoGroup DEF PageGid, RuleInv, Shape, CopyShape
<1>3. PICK r : r = [NoMsg EXCEPT !.k = "update", !.g = h, !.eff = list] OBVIOUS
<1>4. r.k = "update" /\ r.g = h BY <1>3 DEF NoMsg
<1>5. IsQueue(requests) /\ requests' = Append(requests, r)
  BY <1>1, <1>3, QueueAppend DEF Send, RuleInv, Shape, Requests
<1>6. Requests(requests)' BY <1>2, <1>4, <1>5, RequestsAppend DEF GoodRequest, RuleInv, Shape
<1>7. /\ Awaited(h)'
      /\ \A g : Awaited(g) => Awaited(g)'
  BY <1>4, <1>5, AppendTells DEF Awaited, Is
<1>8. /\ h = Global => routing' = list /\ UNCHANGED <<view, custom>>
      /\ h # Global => /\ UNCHANGED routing /\ custom' = custom \cup {h}
                       /\ h \in Gids /\ \A g \in Gids \ {h} : view'[g] = view[g]
  BY <1>1, <1>2 DEF Pages, RuleInv, Shape, CopyShape
<1>9. view' = [g \in Gids |-> [eff |-> view'[g].eff, cust |-> view'[g].cust]]
  BY <1>1, <1>2 DEF Pages, RuleInv, Shape, CopyShape
<1>10. Shape' BY <1>6, <1>9 DEF RuleInv, Shape, StoreShape, AnswerShape, CopyShape
<1>11. GoneInv' BY DEF RuleInv, GoneInv
<1>12. AnswerInv => AnswerInv' BY DEF AnswerInv, Payload
<1>13. RouteInv => RouteInv' BY <1>7, <1>8 DEF RouteInv
<1>14. UseInv => UseInv'
  <2> SUFFICES ASSUME UseInv, NEW g \in alive, NEW src \in WillUse(updates, Used(g)', g)
               PROVE  (g \in source => src = "custom") /\ (src = "custom" => g \in source \/ Awaited(g)')
    BY DEF UseInv
  <2>1. CASE g = h /\ g # Global
    <3>1. Awaited(g)' BY <1>7, <2>1
    <3>2. Used(g)' = "custom" BY <1>8, <2>1 DEF Used
    <3>3. CASE Tells(updates, "group", g)
      <4>1. src \in WillUse(updates, Used(g), g) BY <3>3 DEF WillUse
      <4> QED BY <3>1, <4>1 DEF UseInv
    <3>4. CASE ~Tells(updates, "group", g)
      <4>1. src = "custom" BY <3>2, <3>4 DEF WillUse
      <4> QED BY <3>1, <4>1
    <3> QED BY <3>3, <3>4
  <2>2. CASE ~(g = h /\ g # Global)
    <3>1. Used(g)' = Used(g) BY <1>8, <2>2 DEF Used
    <3> QED BY <1>7, <3>1 DEF UseInv
  <2> QED BY <2>1, <2>2
<1>15. ViewInv => ViewInv'
  <2> SUFFICES ASSUME ViewInv, NEW g \in alive \cap source, ~Awaited(g)',
                      NEW v \in WillView(updates, view'[g].eff, g), v.has
               PROVE  v.list = stored[g].list
    BY DEF ViewInv
  <2>1. g \in Gids /\ g # h /\ ~Awaited(g) BY <1>7 DEF RuleInv, Shape, StoreShape
  <2>2. view'[g] = view[g] BY <1>8, <2>1
  <2> QED BY <2>1, <2>2 DEF ViewInv
<1> QED BY <1>10, <1>11, <1>12, <1>13, <1>14, <1>15 DEF RuleInv

\* A group is deleted.
LEMMA DeleteKeeps == ASSUME RuleInv, NEW g \in Gids, DeleteGroup(g) PROVE RuleInv'
<1> USE DEF DeleteGroup, CliRest, copies
<1>1. PICK e : e = GroupEvent("deleted", g) OBVIOUS
<1>2. e.k = "deleted" /\ e.g = g /\ e.src \in {"global", "custom"} BY <1>1 DEF GroupEvent, NoMsg
<1>3. GoodFrame(e) /\ updates' = Append(updates, e) BY <1>1, <1>2 DEF GoodFrame, Pages
<1>4. IsQueue(updates) /\ Frames(updates)' BY <1>3, FramesAppend DEF RuleInv, Shape, Frames
<1>5. StoreShape' BY DEF RuleInv, Shape, StoreShape
<1>6. Shape' BY <1>4, <1>5 DEF RuleInv, Shape, AnswerShape, CopyShape
<1>7. GoneInv'
  <2>1. /\ \A h : h # g => (Tells(updates', "deleted", h) <=> Tells(updates, "deleted", h))
        /\ Tells(updates', "deleted", g)
    BY <1>2, <1>3, <1>4, AppendTells DEF Is
  <2> QED BY <2>1 DEF RuleInv, GoneInv
<1>8. ASSUME ~crossed', ~crossed, AnswerInv, RouteInv, UseInv, ViewInv
      PROVE  AnswerInv' /\ RouteInv' /\ UseInv' /\ ViewInv'
  <2>1. AnswerInv' BY <1>8, Zenon DEF AnswerInv, Answering, Clients
  <2>2. ~Is(e, "routing", Global) /\ \A h : ~Is(e, "group", h) /\ ~Is(e, "routing", h) BY <1>2 DEF Is
  <2>3. \A now, h : /\ WillRoute(updates', now) = WillRoute(updates, now)
                    /\ WillUse(updates', now, h) = WillUse(updates, now, h)
                    /\ WillView(updates', now, h) = WillView(updates, now, h)
    BY <1>3, <1>4, <2>2, AppendRoute, AppendWill
  <2>4. RouteInv' BY <1>8, <2>3 DEF RouteInv, Awaited
  <2>5. UseInv' BY <1>8, <2>3 DEF UseInv, Used, Awaited
  <2>6. ViewInv'
    <3>1. \A h \in alive' \cap source' : h \in alive \cap source /\ stored'[h] = stored[h]
      BY DEF RuleInv, Shape, StoreShape
    <3> QED BY <1>8, <2>3, <3>1 DEF ViewInv, Awaited
  <2> QED BY <2>1, <2>4, <2>5, <2>6
<1> QED BY <1>6, <1>7, <1>8, Zenon DEF RuleInv

\* A request is taken: of what is awaited only that request may be missing afterwards.
LEMMA TakenAwaits ==
  ASSUME RuleInv, NEW g,
         \/ requests' = requests
         \/ requests # <<>> /\ requests' = Tail(requests) /\ (Head(requests).k = "update" => Head(requests).g = g)
  PROVE  /\ Requests(requests)'
         /\ \A h : Awaited(h)' => Awaited(h)
         /\ \A h : h # g => (Awaited(h)' <=> Awaited(h))
<1>1. CASE requests' = requests
  BY <1>1 DEF Awaited, RuleInv, Shape
<1>2. CASE requests # <<>> /\ requests' = Tail(requests) /\ (Head(requests).k = "update" => Head(requests).g = g)
  <2>1. IsQueue(requests) /\ Requests(requests)'
    BY <1>2, RequestsTail DEF RuleInv, Shape, Requests
  <2>2. \A h : Tells(requests, "update", h) <=> Is(Head(requests), "update", h) \/ Tells(Tail(requests), "update", h)
    BY <1>2, <2>1, TailTells
  <2> QED BY <1>2, <2>1, <2>2 DEF Awaited, Is
<1> QED BY <1>1, <1>2

\* The interface and the command line send a list, and the core takes it.
LEMMA UpdateKeeps ==
  ASSUME RuleInv, NEW g \in Pages, NEW list, UpdateRouting(g, list),
         UNCHANGED <<answer, copies>>, command'.g \in Pages,
         \/ requests' = requests
         \/ requests # <<>> /\ requests' = Tail(requests) /\ Head(requests).g = g
  PROVE  RuleInv'
<1> USE DEF UpdateRouting, copies
<1>1. /\ Requests(requests)'
      /\ \A h : Awaited(h)' => Awaited(h)
      /\ \A h : h # g => (Awaited(h)' <=> Awaited(h))
  BY TakenAwaits, Zenon
<1>2. AnswerShape' /\ CopyShape' BY DEF RuleInv, Shape, AnswerShape, CopyShape
<1>3. IsQueue(updates) /\ Frames(updates) /\ StoreShape BY DEF RuleInv, Shape, Frames
<1>4. ~crossed' => AnswerInv' BY Zenon DEF AnswerInv, Answering, Clients
<1>5. CASE g = Global
  <2>1. PICK e : e = [Payload(g) EXCEPT !.eff = list] OBVIOUS
  <2>2. e.k = "routing" /\ e.g = Global /\ e.eff = list /\ GoodFrame(e)
    BY <1>5, <2>1 DEF Payload, GoodFrame
  <2>3. updates' = Append(updates, e) /\ Frames(updates)' /\ rules' = list /\ UNCHANGED <<stored, source, alive>>
    BY <1>3, <1>5, <2>1, <2>2, FramesAppend, Zenon
  <2>4. Shape' BY <1>1, <1>2, <1>3, <2>3 DEF Shape, StoreShape
  <2>5. GoneInv'
    <3>1. \A h : ~Is(e, "deleted", h) BY <2>2 DEF Is
    <3>2. \A h : Tells(updates', "deleted", h) = Tells(updates, "deleted", h) BY <1>3, <2>3, <3>1, AppendTells
    <3> QED BY <2>3, <3>2 DEF RuleInv, GoneInv
  <2>6. RouteInv'
    <3>1. WillRoute(updates', routing) = {list} BY <1>3, <2>2, <2>3, AppendRoute DEF Is
    <3> QED BY <2>3, <3>1 DEF RouteInv
  <2>7. \A h \in Gids : ~Is(e, "group", h) /\ ~Is(e, "routing", h) BY <2>2, GlobalIsNoGroup DEF Is
  <2>8. \A now : \A h \in Gids : /\ WillUse(updates', now, h) = WillUse(updates, now, h)
                                 /\ WillView(updates', now, h) = WillView(updates, now, h)
    BY <1>3, <2>3, <2>7, AppendWill
  <2>9. \A h \in Gids : Awaited(h)' <=> Awaited(h) BY <1>1, <1>5, GlobalIsNoGroup
  <2>10. UseInv => UseInv' BY <1>3, <2>3, <2>8, <2>9, Zenon DEF UseInv, Used, StoreShape
  <2>11. ViewInv => ViewInv' BY <1>3, <2>3, <2>8, <2>9 DEF ViewInv, StoreShape
  <2> QED BY <1>4, <2>4, <2>5, <2>6, <2>10, <2>11, Zenon DEF RuleInv
<1>6. CASE g # Global /\ g \notin alive
  <2>1. UNCHANGED <<rules, stored, source, alive, updates>> BY <1>6
  <2>2. Shape' BY <1>1, <1>2, <1>3, <2>1 DEF Shape, StoreShape
  <2>3. GoneInv' BY <2>1 DEF RuleInv, GoneInv
  <2>4. RouteInv => RouteInv' BY <1>1, <1>6, <2>1 DEF RouteInv
  <2>5. \A h \in alive : Awaited(h)' <=> Awaited(h) BY <1>1, <1>6
  <2>6. UseInv => UseInv' BY <2>1, <2>5 DEF UseInv, Used
  <2>7. ViewInv => ViewInv' BY <2>1, <2>5 DEF ViewInv
  <2> QED BY <1>4, <2>2, <2>3, <2>4, <2>6, <2>7, Zenon DEF RuleInv
<1>7. CASE g # Global /\ g \in alive
  <2>1. g \in Gids BY <1>7 DEF Pages
  <2>2. /\ source' = source \cup {g} /\ UNCHANGED <<rules, alive>>
        /\ stored'[g] = Some(list) /\ \A h \in Gids \ {g} : stored'[h] = stored[h]
        /\ StoreShape'
    BY <1>3, <1>7, <2>1 DEF StoreShape
  <2>3. PICK f : f = GroupEvent("group", g) OBVIOUS
  <2>4. f.k = "group" /\ f.g = g /\ f.src = "custom" /\ GoodFrame(f)
    BY <2>1, <2>2, <2>3 DEF GroupEvent, NoMsg, GoodFrame, Pages
  <2>5. PICK e : e = [Payload(g) EXCEPT !.eff = list, !.src = "custom", !.cust = Some(list)] OBVIOUS
  <2>6. e.k = "routing" /\ e.g = g /\ e.eff = list /\ GoodFrame(e) BY <2>1, <2>5 DEF Payload, GoodFrame, Pages
  <2>7. PICK q : q = IF g \in source THEN updates ELSE Append(updates, f) BY Zenon
  <2>8. Frames(q) /\ IsQueue(q) BY <1>3, <2>4, <2>7, FramesAppend DEF Frames
  <2>9. updates' = Append(q, e)
    <3>1. updates' = (updates \o (IF g \in source THEN <<>> ELSE <<f>>)) \o <<e>> BY <1>7, <2>3, <2>5
    <3>2. updates \o (IF g \in source THEN <<>> ELSE <<f>>) = q BY <1>3, <2>7, QueueAppend, Zenon
    <3> QED BY <2>8, <3>1, <3>2, QueueAppend, Zenon
  <2>10. Frames(updates)' BY <2>6, <2>8, <2>9, FramesAppend
  <2>11. Shape' BY <1>1, <1>2, <2>2, <2>10 DEF Shape
  <2>12. GoneInv'
    <3>1. \A h : ~Is(e, "deleted", h) /\ ~Is(f, "deleted", h) BY <2>4, <2>6 DEF Is
    <3>2. \A h : Tells(q, "deleted", h) = Tells(updates, "deleted", h) BY <1>3, <2>7, <3>1, AppendTells
    <3>3. \A h : Tells(updates', "deleted", h) = Tells(q, "deleted", h) BY <2>8, <2>9, <3>1, AppendTells
    <3> QED BY <2>2, <3>2, <3>3 DEF RuleInv, GoneInv
  <2>13. RouteInv => RouteInv'
    <3>1. ~Is(e, "routing", Global) /\ ~Is(f, "routing", Global) BY <1>7, <2>4, <2>6 DEF Is
    <3>2. WillRoute(q, routing) = WillRoute(updates, routing) BY <1>3, <2>7, <3>1, AppendRoute
    <3>3. WillRoute(updates', routing) = WillRoute(q, routing) BY <2>8, <2>9, <3>1, AppendRoute
    <3> QED BY <1>1, <1>7, <2>2, <3>2, <3>3 DEF RouteInv
  <2>14. UseInv => UseInv'
    <3> SUFFICES ASSUME UseInv, NEW h \in alive, NEW src \in WillUse(updates', Used(h), h)
                 PROVE  (h \in source' => src = "custom") /\ (src = "custom" => h \in source' \/ Awaited(h)')
      BY <2>2, Zenon DEF UseInv, Used
    <3>1. src \in WillUse(q, Used(h), h) BY <2>4, <2>6, <2>8, <2>9, AppendWill DEF Is
    <3>2. CASE g \in source
      <4> QED BY <1>1, <2>2, <2>7, <3>1, <3>2 DEF UseInv
    <3>3. CASE g \notin source /\ h = g
      <4>1. Is(f, "group", h) /\ q = Append(updates, f) BY <2>4, <2>7, <3>3 DEF Is
      <4>2. WillUse(q, Used(h), h) = {f.src} BY <1>3, <4>1, AppendWill
      <4>3. src = "custom" BY <2>4, <3>1, <4>2
      <4> QED BY <2>2, <3>3, <4>3
    <3>4. CASE g \notin source /\ h # g
      <4>1. src \in WillUse(updates, Used(h), h) BY <1>3, <2>4, <2>7, <3>1, <3>4, AppendWill DEF Is
      <4> QED BY <1>1, <2>2, <3>4, <4>1 DEF UseInv
    <3> QED BY <3>2, <3>3, <3>4
  <2>15. ViewInv => ViewInv'
    <3> SUFFICES ASSUME ViewInv, NEW h \in alive, h \in source', ~Awaited(h)',
                        NEW v \in WillView(updates', view[h].eff, h), v.has
                 PROVE  v.list = stored'[h].list
      BY <2>2 DEF ViewInv
    <3>1. CASE h = g
      <4>1. Is(e, "routing", h) BY <2>6, <3>1 DEF Is
      <4>2. WillView(updates', view[h].eff, h) = {Some(e.eff)} BY <2>8, <2>9, <4>1, AppendWill
      <4>3. v = Some(list) BY <2>6, <4>2
      <4> QED BY <2>2, <3>1, <4>3
    <3>2. CASE h # g
      <4>1. ~Is(e, "routing", h) /\ ~Is(f, "routing", h) BY <2>4, <2>6, <3>2 DEF Is
      <4>2. v \in WillView(q, view[h].eff, h) BY <2>8, <2>9, <4>1, AppendWill
      <4>3. v \in WillView(updates, view[h].eff, h) BY <1>3, <2>7, <4>1, <4>2, AppendWill
      <4>4. h \in source /\ h \in Gids /\ ~Awaited(h) /\ stored'[h] = stored[h]
        BY <1>1, <1>3, <2>2, <3>2 DEF StoreShape
      <4> QED BY <4>3, <4>4 DEF ViewInv
    <3> QED BY <3>1, <3>2
  <2> QED BY <1>4, <2>11, <2>12, <2>13, <2>14, <2>15, Zenon DEF RuleInv
<1> QED BY <1>5, <1>6, <1>7

\* The source of a group is switched.
LEMMA SourceKeeps ==
  ASSUME RuleInv, NEW g \in Gids, NEW to, SetManualSource(g, to),
         UNCHANGED <<answer, copies, command>>,
         \/ requests' = requests
         \/ requests # <<>> /\ requests' = Tail(requests) /\ Head(requests).k # "update"
  PROVE  RuleInv'
<1> USE DEF SetManualSource, copies
<1>1. Requests(requests)' BY TakenAwaits, Zenon
<1>2. \A h : Awaited(h)' <=> Awaited(h)
  <2>1. CASE requests' = requests BY <2>1 DEF Awaited
  <2>2. CASE requests # <<>> /\ requests' = Tail(requests) /\ Head(requests).k # "update"
    <3>1. IsQueue(requests) BY DEF RuleInv, Shape, Requests
    <3>2. \A h : Tells(requests, "update", h) <=> Is(Head(requests), "update", h) \/ Tells(Tail(requests), "update", h)
      BY <2>2, <3>1, TailTells
    <3> QED BY <2>2, <3>2 DEF Awaited, Is
  <2> QED BY <2>1, <2>2
<1>3. AnswerShape' /\ CopyShape' BY DEF RuleInv, Shape, AnswerShape, CopyShape
<1>4. IsQueue(updates) /\ Frames(updates) /\ StoreShape BY DEF RuleInv, Shape, Frames
<1>5. ~crossed' => AnswerInv' BY Zenon DEF AnswerInv, Answering, Clients
<1>6. CASE g \notin alive
  <2>1. UNCHANGED <<rules, stored, source, alive, updates>> BY <1>6
  <2>2. Shape' BY <1>1, <1>3, <1>4, <2>1 DEF Shape, StoreShape
  <2>3. GoneInv' BY <2>1 DEF RuleInv, GoneInv
  <2>4. RouteInv => RouteInv' BY <1>2, <2>1 DEF RouteInv
  <2>5. UseInv => UseInv' BY <1>2, <2>1, Zenon DEF UseInv, Used
  <2>6. ViewInv => ViewInv' BY <1>2, <2>1 DEF ViewInv
  <2> QED BY <1>5, <2>2, <2>3, <2>4, <2>5, <2>6, Zenon DEF RuleInv
<1>7. CASE g \in alive
  <2>1. /\ source' = IF to = "custom" THEN source \cup {g} ELSE source \ {g}
        /\ UNCHANGED <<rules, alive>>
        /\ \A h \in Gids \ {g} : stored'[h] = stored[h]
        /\ StoreShape'
    BY <1>4, <1>7 DEF StoreShape, Customise
  <2>2. PICK f : f = GroupEvent("group", g) OBVIOUS
  <2>3. /\ f.k = "group" /\ f.g = g /\ GoodFrame(f)
        /\ f.src = IF g \in source' THEN "custom" ELSE "global"
    BY <2>2 DEF GroupEvent, NoMsg, GoodFrame, Pages
  <2>4. PICK e : e = [k |-> "routing", g |-> g,
                      eff |-> IF to = "custom" THEN stored'[g].list ELSE rules,
                      src |-> IF to = "custom" THEN "custom" ELSE "global",
                      cust |-> stored'[g]]
    OBVIOUS
  <2>5. /\ e.k = "routing" /\ e.g = g /\ GoodFrame(e)
        /\ g \in source' => e.eff = stored'[g].list
    BY <2>1, <2>4 DEF GoodFrame, Pages
  <2>6. PICK q : q = Append(updates, f) BY Zenon
  <2>7. Frames(q) /\ IsQueue(q) BY <1>4, <2>3, <2>6, FramesAppend, Zenon DEF Frames
  <2>8. updates' = Append(q, e)
    <3>1. updates' = updates \o <<f, e>> BY <1>7, <2>2, <2>4
    <3> QED BY <1>4, <2>6, <3>1, QueuePair
  <2>9. Frames(updates)' BY <2>5, <2>7, <2>8, FramesAppend
  <2>10. Shape' BY <1>1, <1>3, <2>1, <2>9 DEF Shape
  <2>11. GoneInv'
    <3>1. \A h : ~Is(e, "deleted", h) /\ ~Is(f, "deleted", h) BY <2>3, <2>5 DEF Is
    <3>2. \A h : Tells(q, "deleted", h) = Tells(updates, "deleted", h) BY <1>4, <2>6, <3>1, AppendTells
    <3>3. \A h : Tells(updates', "deleted", h) = Tells(q, "deleted", h) BY <2>7, <2>8, <3>1, AppendTells
    <3> QED BY <2>1, <3>2, <3>3 DEF RuleInv, GoneInv
  <2>12. RouteInv => RouteInv'
    <3>1. ~Is(e, "routing", Global) /\ ~Is(f, "routing", Global) BY <2>3, <2>5, GlobalIsNoGroup DEF Is
    <3>2. WillRoute(q, routing) = WillRoute(updates, routing) BY <1>4, <2>6, <3>1, AppendRoute
    <3>3. WillRoute(updates', routing) = WillRoute(q, routing) BY <2>7, <2>8, <3>1, AppendRoute
    <3> QED BY <1>2, <2>1, <3>2, <3>3 DEF RouteInv
  <2>13. UseInv => UseInv'
    <3> SUFFICES ASSUME UseInv, NEW h \in alive, NEW src \in WillUse(updates', Used(h), h)
                 PROVE  (h \in source' => src = "custom") /\ (src = "custom" => h \in source' \/ Awaited(h)')
      BY <2>1, Zenon DEF UseInv, Used
    <3>1. src \in WillUse(q, Used(h), h) BY <2>5, <2>7, <2>8, AppendWill DEF Is
    <3>2. CASE h = g
      <4>1. Is(f, "group", h) BY <2>3, <3>2 DEF Is
      <4>2. WillUse(q, Used(h), h) = {f.src} BY <1>4, <2>6, <4>1, AppendWill
      <4>3. src = f.src BY <3>1, <4>2
      <4> QED BY <2>3, <3>2, <4>3
    <3>3. CASE h # g
      <4>1. src \in WillUse(updates, Used(h), h) BY <1>4, <2>3, <2>6, <3>1, <3>3, AppendWill DEF Is
      <4> QED BY <1>2, <2>1, <3>3, <4>1 DEF UseInv
    <3> QED BY <3>2, <3>3
  <2>14. ViewInv => ViewInv'
    <3> SUFFICES ASSUME ViewInv, NEW h \in alive, h \in source', ~Awaited(h)',
                        NEW v \in WillView(updates', view[h].eff, h), v.has
                 PROVE  v.list = stored'[h].list
      BY <2>1 DEF ViewInv
    <3>1. CASE h = g
      <4>1. Is(e, "routing", h) BY <2>5, <3>1 DEF Is
      <4>2. WillView(updates', view[h].eff, h) = {Some(e.eff)} BY <2>7, <2>8, <4>1, AppendWill
      <4>3. v = Some(e.eff) BY <4>2
      <4> QED BY <2>5, <3>1, <4>3 DEF Some
    <3>2. CASE h # g
      <4>1. ~Is(e, "routing", h) /\ ~Is(f, "routing", h) BY <2>3, <2>5, <3>2 DEF Is
      <4>2. v \in WillView(q, view[h].eff, h) BY <2>7, <2>8, <4>1, AppendWill
      <4>3. v \in WillView(updates, view[h].eff, h) BY <1>4, <2>6, <4>1, <4>2, AppendWill
      <4>4. h \in source /\ h \in Gids /\ ~Awaited(h) /\ stored'[h] = stored[h]
        BY <1>2, <1>4, <2>1, <3>2 DEF StoreShape
      <4> QED BY <4>3, <4>4 DEF ViewInv
    <3> QED BY <3>1, <3>2
  <2> QED BY <1>5, <2>10, <2>11, <2>12, <2>13, <2>14, Zenon DEF RuleInv
<1> QED BY <1>6, <1>7

LEMMA RemoveOne ==
  ASSUME NEW S, NEW s \in Seq(S), NEW e, \A i, j \in DOMAIN s : i # j => s[i] # s[j]
  PROVE  /\ RemoveFirst(s, e) \in Seq(S)
         /\ \A i, j \in DOMAIN RemoveFirst(s, e) : i # j => RemoveFirst(s, e)[i] # RemoveFirst(s, e)[j]
         /\ \A i \in DOMAIN RemoveFirst(s, e) : RemoveFirst(s, e)[i] # e /\ \E j \in DOMAIN s : s[j] = RemoveFirst(s, e)[i]
<1> DEFINE I == {i \in 1..Len(s) : s[i] = e}
<1>1. CASE I # {}
  <2>1. PICK n : n = Len(s) OBVIOUS
  <2>2. n \in Nat /\ DOMAIN s = 1..n BY <2>1
  <2>3. PICK m \in 1..n : s[m] = e BY <1>1, <2>1
  <2>4. I = {m} BY <2>1, <2>2, <2>3
  <2>5. SelectInSeq(s, LAMBDA v : v = e) = m BY <1>1, <2>2, <2>4 DEF SelectInSeq, Min
  <2>6. PICK t : t = RemoveFirst(s, e) OBVIOUS
  <2>7. t = SubSeq(s, 1, m - 1) \o SubSeq(s, m + 1, n) BY <2>1, <2>3, <2>5, <2>6, Zenon DEF RemoveFirst, RemoveAt
  <2>8. PICK u : u = SubSeq(s, 1, m - 1) BY Zenon
  <2>9. PICK w : w = SubSeq(s, m + 1, n) BY Zenon
  <2>10. u \in Seq(S) /\ Len(u) = m - 1 /\ \A i \in 1..(m - 1) : u[i] = s[i]
    BY <2>1, <2>2, <2>3, <2>8
  <2>11. w \in Seq(S) /\ Len(w) = n - m /\ \A i \in 1..(n - m) : w[i] = s[m + i]
    BY <2>1, <2>2, <2>3, <2>9
  <2>12. t \in Seq(S) /\ DOMAIN t = 1..(n - 1) /\ t = u \o w BY <2>3, <2>7, <2>8, <2>9, <2>10, <2>11
  <2>13. \A i \in 1..(m - 1) : t[i] = s[i] BY <2>10, <2>11, <2>12
  <2>14. \A i \in m..(n - 1) : t[i] = s[i + 1]
    <3> SUFFICES ASSUME NEW i \in m..(n - 1) PROVE t[i] = s[i + 1]
      OBVIOUS
    <3>1. i - (m - 1) \in 1..(n - m) /\ m + (i - (m - 1)) = i + 1 BY <2>2, <2>3
    <3>2. t[i] = w[i - (m - 1)] BY <2>2, <2>3, <2>10, <2>11, <2>12
    <3> QED BY <2>11, <3>1, <3>2
  <2>15. \A i \in DOMAIN t : \E j \in DOMAIN s \ {m} : /\ s[j] = t[i]
                                                       /\ (i < m /\ j = i) \/ (i >= m /\ j = i + 1)
    <3> SUFFICES ASSUME NEW i \in DOMAIN t
                 PROVE  \E j \in DOMAIN s \ {m} : s[j] = t[i] /\ ((i < m /\ j = i) \/ (i >= m /\ j = i + 1))
      OBVIOUS
    <3>1. CASE i < m
      <4>1. i \in DOMAIN s \ {m} /\ s[i] = t[i] BY <2>2, <2>3, <2>12, <2>13, <3>1
      <4> QED BY <3>1, <4>1
    <3>2. CASE ~(i < m)
      <4>1. i + 1 \in DOMAIN s \ {m} /\ s[i + 1] = t[i] /\ i >= m BY <2>2, <2>3, <2>12, <2>14, <3>2
      <4> QED BY <4>1
    <3> QED BY <3>1, <3>2
  <2>16. \A i, j \in DOMAIN t : i # j => t[i] # t[j]
    <3> SUFFICES ASSUME NEW i \in DOMAIN t, NEW j \in DOMAIN t, i # j PROVE t[i] # t[j]
      OBVIOUS
    <3>1. PICK x \in DOMAIN s : s[x] = t[i] /\ ((i < m /\ x = i) \/ (i >= m /\ x = i + 1)) BY <2>15
    <3>2. PICK y \in DOMAIN s : s[y] = t[j] /\ ((j < m /\ y = j) \/ (j >= m /\ y = j + 1)) BY <2>15
    <3>3. x # y BY <2>2, <2>3, <2>12, <3>1, <3>2
    <3> QED BY <3>1, <3>2, <3>3
  <2>17. \A i \in DOMAIN t : t[i] # e BY <2>2, <2>3, <2>15
  <2>18. \A i \in DOMAIN t : \E j \in DOMAIN s : s[j] = t[i] BY <2>15
  <2> QED BY <2>6, <2>12, <2>16, <2>17, <2>18, Zenon
<1>2. CASE I = {}
  <2>1. ~\E i \in 1..Len(s) : s[i] = e BY <1>2
  <2>2. RemoveFirst(s, e) = s BY <2>1 DEF RemoveFirst
  <2> QED BY <2>1, <2>2
<1> QED BY <1>1, <1>2

\* The interface handles an event: the events still to come are what they were, so that
\* its copies will be what they would have been.
LEMMA EventKeeps == ASSUME RuleInv, HandleRoutingEvent PROVE RuleInv'
<1> USE DEF HandleRoutingEvent, stores, history
<1>1. PICK e : e = Head(updates) OBVIOUS
<1>2. /\ updates # <<>> /\ IsQueue(updates) /\ updates' = Tail(updates)
      /\ Frames(updates)' /\ GoodFrame(e)
  BY <1>1, FramesTail DEF RuleInv, Shape, Frames
<1>3. \A k, g : Tells(updates, k, g) <=> Is(e, k, g) \/ Tells(updates', k, g) BY <1>1, <1>2, TailTells
<1>4. \/ e.k = "routing" /\ ApplyRouting(e) /\ UNCHANGED <<custom, order>>
      \/ /\ e.k = "group" /\ UNCHANGED <<routing, view, order>>
         /\ custom' = IF e.src = "custom" THEN custom \cup {e.g} ELSE custom \ {e.g}
      \/ /\ e.k = "deleted" /\ UNCHANGED routing
         /\ order' = RemoveFirst(order, e.g)
         /\ view' = [view EXCEPT ![e.g] = NoView]
         /\ custom' = custom \ {e.g}
  <2>1. e.k \in {"routing", "group", "deleted"} BY <1>2 DEF GoodFrame
  <2>2. CASE e.k = "routing" BY <1>1, <2>2, Zenon
  <2>3. CASE e.k = "group" BY <1>1, <2>3, Zenon
  <2>4. CASE e.k = "deleted" BY <1>1, <2>4, Zenon
  <2> QED BY <2>1, <2>2, <2>3, <2>4
<1>5. CopyShape'
  <2>1. CASE e.k = "routing"
    <3>1. order' = order BY <1>4, <2>1
    <3>2. \/ view' = view
          \/ \E c : e.g \in Gids /\ view' = [view EXCEPT ![e.g] = [eff |-> Some(e.eff), cust |-> c]]
      BY <1>2, <1>4, <2>1, Zenon DEF ApplyRouting, GoodFrame, Pages
    <3>3. view' = [g \in Gids |-> [eff |-> view'[g].eff, cust |-> view'[g].cust]]
      BY <3>2, Zenon DEF RuleInv, Shape, CopyShape
    <3> QED BY <3>1, <3>3 DEF RuleInv, Shape, CopyShape
  <2>2. CASE e.k = "group"
    <3>1. UNCHANGED <<view, order>> BY <1>4, <2>2
    <3> QED BY <3>1 DEF RuleInv, Shape, CopyShape
  <2>3. CASE e.k = "deleted"
    <3>1. order' = RemoveFirst(order, e.g) /\ view' = [view EXCEPT ![e.g] = NoView] BY <1>4, <2>3
    <3>2. view' = [g \in Gids |-> [eff |-> view'[g].eff, cust |-> view'[g].cust]]
      BY <3>1 DEF RuleInv, Shape, CopyShape, NoView
    <3>3. order' \in Seq(Gids) /\ \A i, j \in DOMAIN order' : i # j => order'[i] # order'[j]
      BY <3>1, RemoveOne DEF RuleInv, Shape, CopyShape
    <3> QED BY <3>2, <3>3 DEF CopyShape
  <2> QED BY <1>4, <2>1, <2>2, <2>3
<1>6. Shape' BY <1>2, <1>5 DEF RuleInv, Shape, StoreShape, AnswerShape
<1>7. GoneInv'
  <2>1. \A g \in alive : ~Tells(updates', "deleted", g) BY <1>3 DEF RuleInv, GoneInv
  <2>2. CASE e.k # "deleted"
    <3>1. order' = order BY <1>4, <2>2
    <3>2. \A g : Tells(updates, "deleted", g) <=> Tells(updates', "deleted", g) BY <1>3, <2>2 DEF Is
    <3> QED BY <2>1, <3>1, <3>2 DEF RuleInv, GoneInv
  <2>3. CASE e.k = "deleted"
    <3>1. order' = RemoveFirst(order, e.g) BY <1>4, <2>3
    <3>2. \A i \in DOMAIN order' : order'[i] # e.g /\ \E j \in DOMAIN order : order[j] = order'[i]
      BY <3>1, RemoveOne DEF RuleInv, Shape, CopyShape
    <3>3. \A g : g # e.g => (Tells(updates, "deleted", g) <=> Tells(updates', "deleted", g)) BY <1>3 DEF Is
    <3> QED BY <2>1, <3>2, <3>3 DEF RuleInv, GoneInv
  <2> QED BY <2>2, <2>3
<1>8. AnswerInv => AnswerInv' BY DEF AnswerInv, Payload
<1>9. RouteInv => RouteInv'
  <2>1. routing' = IF Is(e, "routing", Global) THEN e.eff ELSE routing BY <1>4 DEF ApplyRouting, Is
  <2>2. WillRoute(updates', routing') = WillRoute(updates, routing) BY <1>1, <1>2, <2>1, TailWill
  <2> QED BY <2>2 DEF RouteInv, Awaited
<1>10. \A g \in alive : e.k = "deleted" => e.g # g BY <1>3 DEF RuleInv, GoneInv, Is
<1>11. UseInv => UseInv'
  <2>1. ASSUME NEW g \in alive PROVE WillUse(updates', Used(g)', g) = WillUse(updates, Used(g), g)
    <3>1. Used(g)' = IF Is(e, "group", g) THEN e.src ELSE Used(g)
      <4>1. CASE Is(e, "group", g)
        <5>1. e.src \in {"global", "custom"} /\ e.g = g /\ e.k = "group" BY <1>2, <4>1 DEF GoodFrame, Is
        <5> QED BY <1>4, <4>1, <5>1 DEF Used
      <4>2. CASE ~Is(e, "group", g)
        <5>1. g \in custom' <=> g \in custom BY <1>4, <1>10, <4>2 DEF Is
        <5> QED BY <4>2, <5>1 DEF Used
      <4> QED BY <4>1, <4>2
    <3> QED BY <1>1, <1>2, <3>1, TailWill
  <2> QED BY <2>1 DEF UseInv, Awaited
<1>12. ViewInv => ViewInv'
  <2>1. ASSUME NEW g \in alive PROVE WillView(updates', view'[g].eff, g) = WillView(updates, view[g].eff, g)
    <3>1. g \in Gids BY DEF RuleInv, Shape, StoreShape
    <3>2. view'[g].eff = IF Is(e, "routing", g) THEN Some(e.eff) ELSE view[g].eff
      <4>1. CASE Is(e, "routing", g)
        <5>1. e.g = g /\ e.k = "routing" /\ e.g # Global BY <3>1, <4>1, GlobalIsNoGroup DEF Is
        <5>2. \E c : view' = [view EXCEPT ![g] = [eff |-> Some(e.eff), cust |-> c]]
          BY <1>4, <5>1, Zenon DEF ApplyRouting
        <5> QED BY <3>1, <4>1, <5>2 DEF RuleInv, Shape, CopyShape
      <4>2. CASE ~Is(e, "routing", g)
        <5>1. view'[g] = view[g]
          BY <1>2, <1>4, <1>10, <3>1, <4>2 DEF ApplyRouting, Is, RuleInv, Shape, CopyShape
        <5> QED BY <4>2, <5>1
      <4> QED BY <4>1, <4>2
    <3> QED BY <1>1, <1>2, <3>2, TailWill
  <2> QED BY <2>1 DEF ViewInv, Awaited
<1> QED BY <1>6, <1>7, <1>8, <1>9, <1>11, <1>12 DEF RuleInv

LEMMA RingPage ==
  ASSUME NEW n \in Nat, NEW x \in Nat, NEW d \in {1, n}
  PROVE  (x + d) % (n + 1) \in 0..n /\ (x + d) % (n + 1) \in Nat
<1>1. x + d \in Nat OBVIOUS
<1>2. \A y \in Nat : y % (n + 1) \in 0..n OBVIOUS
<1> QED BY <1>1, <1>2

LEMMA RulesStep == RuleInv /\ page \in Nat /\ [RulesNext]_ruleVars => RuleInv'
<1> SUFFICES ASSUME RuleInv, page \in Nat, [RulesNext]_ruleVars PROVE RuleInv'
  OBVIOUS
<1>1. CASE HandleRouting
  <2>1. PICK r : r = Head(requests) OBVIOUS
  <2>2. r.g \in Pages /\ r.k \in {"get", "update", "source"} /\ (r.k = "source" => r.g \in Gids) /\ command.g \in Pages
    BY <1>1, <2>1, RequestsTail DEF HandleRouting, RuleInv, Shape, AnswerShape, GoodRequest
  <2>3. /\ requests # <<>> /\ requests' = Tail(requests) /\ UNCHANGED <<copies, command>>
        /\ \/ /\ r.k = "get" /\ answer' = [answer EXCEPT !["tui"] = Payload(r.g)]
              /\ UNCHANGED <<stores, updates, crossed>>
           \/ r.k = "update" /\ UpdateRouting(r.g, r.eff) /\ UNCHANGED answer
           \/ r.k = "source" /\ SetManualSource(r.g, r.src) /\ UNCHANGED answer
    <3>1. CASE r.k = "get" BY <1>1, <2>1, <3>1, Zenon DEF HandleRouting
    <3>2. CASE r.k = "update" BY <1>1, <2>1, <3>2, Zenon DEF HandleRouting
    <3>3. CASE r.k = "source" BY <1>1, <2>1, <3>3, Zenon DEF HandleRouting
    <3> QED BY <2>2, <3>1, <3>2, <3>3
  <2>4. CASE r.k = "get"
    BY <2>1, <2>2, <2>3, <2>4, AnswerKeeps DEF Clients, stores, copies
  <2>5. CASE r.k = "update"
    BY <2>1, <2>2, <2>3, <2>5, UpdateKeeps
  <2>6. CASE r.k = "source"
    BY <2>1, <2>2, <2>3, <2>6, SourceKeeps
  <2> QED BY <2>3, <2>4, <2>5, <2>6
<1>2. CASE HandleRoutingEvent BY <1>2, EventKeeps
<1>3. ASSUME NEW c \in {"tui", "cli"}, SendAnswer(c) PROVE RuleInv' BY <1>3, SentKeeps DEF Clients
<1>4. CASE MoveRuleCursor \/ ClosePopup \/ \E k \in {"add", "edit", "delete", "presets"} : OpenRulePopup(k)
  <2>1. UNCHANGED ruleState
    BY <1>4 DEF MoveRuleCursor, ClosePopup, OpenRulePopup, ruleState, stores, copies, Rest
  <2> QED BY <2>1, RestKeeps
<1>5. CASE TurnPage \/ OpenTab
  <2>1. PICK g : requests' = requests \o <<Get(g)>> /\ g \in Pages
    <3>1. /\ Len(order) \in Nat /\ DOMAIN order = 1..Len(order)
          /\ \A i \in DOMAIN order : order[i] \in Pages
      BY GlobalIsNoGroup DEF RuleInv, Shape, CopyShape
    <3>2. CASE TurnPage
      <4>1. page' \in 0..Len(order)
        <5>1. \E d \in {1, Len(order)} : page' = (page + d) % (Len(order) + 1) BY <3>2, Zenon DEF TurnPage
        <5> QED BY <3>1, <5>1, RingPage, Zenon
      <4>2. page' # 0 => page' \in DOMAIN order BY <3>1, <4>1
      <4>3. PICK g : g = IF page' = 0 THEN Global ELSE order[page'] OBVIOUS
      <4>4. requests' = requests \o <<Get(g)>> BY <3>2, <4>3 DEF TurnPage, Send
      <4>5. CASE page' = 0 BY <4>3, <4>4, <4>5, GlobalIsNoGroup
      <4>6. CASE page' # 0
        <5>1. g \in Pages BY <3>1, <4>2, <4>3, <4>6
        <5> QED BY <4>4, <5>1
      <4> QED BY <4>5, <4>6
    <3>3. CASE OpenTab
      <4>1. requests' = requests \o <<Get(IF page' \in DOMAIN order THEN order[page'] ELSE Global)>>
        BY <3>3 DEF OpenTab, Send
      <4> QED BY <3>1, <4>1, GlobalIsNoGroup
    <3> QED BY <1>5, <3>2, <3>3
  <2>2. GoodRequest(Get(g)) /\ Get(g).k # "update" BY <2>1 DEF Get, NoMsg, GoodRequest
  <2>3. requests' = Append(requests, Get(g)) BY <2>1, QueueAppend DEF RuleInv, Shape, Requests
  <2>4. UNCHANGED <<rules, stored, source, alive, answer, updates, routing, view, custom, order, command, crossed>>
    BY <1>5 DEF TurnPage, OpenTab, stores, copies, Rest
  <2> QED BY <2>2, <2>3, <2>4, SendKeeps
<1>6. CASE ToggleRule \/ SaveForm \/ UsePreset
  <2>1. PICK list : Commit(list) BY <1>6 DEF ToggleRule, SaveForm, UsePreset
  <2>2. UNCHANGED Rest BY <1>6 DEF ToggleRule, SaveForm, UsePreset, Rest
  <2> QED BY <2>1, <2>2, CommitKeeps
<1>7. CASE ConfirmDelete
  <2>1. UNCHANGED Rest BY <1>7 DEF ConfirmDelete, Rest
  <2>2. CASE \E list : Commit(list) BY <2>1, <2>2, CommitKeeps
  <2>3. CASE UNCHANGED <<copies, requests>>
    <3>1. UNCHANGED ruleState BY <2>1, <2>3 DEF Rest, stores, copies, ruleState
    <3> QED BY <3>1, RestKeeps
  <2> QED BY <1>7, <2>2, <2>3 DEF ConfirmDelete
<1>8. CASE ToggleSource
  <2>1. PICK r : r = [NoMsg EXCEPT !.k = "source", !.g = PageGid,
                                   !.src = IF PageGid \in custom THEN "inherit" ELSE "custom"]
    OBVIOUS
  <2>2. PICK s : s = Get(PageGid) OBVIOUS
  <2>3. PageGid \in Gids BY <1>8 DEF ToggleSource, PageGid, RuleInv, Shape, CopyShape
  <2>4. GoodRequest(r) /\ r.k = "source" /\ GoodRequest(s) /\ s.k = "get"
    BY <2>1, <2>2, <2>3 DEF GoodRequest, NoMsg, Get, Pages
  <2>5. requests' = Append(Append(requests, r), s)
    BY <1>8, <2>1, <2>2, QueuePair DEF ToggleSource, Send, RuleInv, Shape, Requests
  <2>6. UNCHANGED <<rules, stored, source, alive, answer, updates, routing, view, custom, order, command, crossed>>
    BY <1>8 DEF ToggleSource, stores, copies, Rest
  <2> QED BY <2>4, <2>5, <2>6, SendKeeps, Zenon
<1>9. ASSUME NEW g \in Pages, CliFetch(g) PROVE RuleInv'
  <2>1. /\ answer' = [answer EXCEPT !["cli"] = Payload(g)] /\ requests' = requests /\ command'.g \in Pages
        /\ UNCHANGED <<rules, stored, source, alive, updates, routing, view, custom, order, crossed>>
    BY <1>9 DEF CliFetch, stores, CliRest, copies
  <2> QED BY <2>1, AnswerKeeps, Zenon DEF Clients
<1>10. CASE CliUpdate
  <2>1. PICK list : UpdateRouting(command.g, list) BY <1>10 DEF CliUpdate
  <2>2. command.g \in Pages /\ command'.g \in Pages
    BY <1>10, GlobalIsNoGroup DEF CliUpdate, NoCli, RuleInv, Shape, AnswerShape
  <2>3. UNCHANGED <<answer, copies, requests>> BY <1>10 DEF CliUpdate, CliRest
  <2> QED BY <2>1, <2>2, <2>3, UpdateKeeps
<1>11. ASSUME NEW g \in Gids, CliSource(g) \/ DeleteGroup(g) PROVE RuleInv'
  <2>1. CASE CliSource(g)
    <3>1. PICK to : SetManualSource(g, to) BY <2>1 DEF CliSource
    <3>2. UNCHANGED <<answer, copies, command, requests>> BY <2>1 DEF CliSource, CliRest
    <3> QED BY <3>1, <3>2, SourceKeeps
  <2> QED BY <1>11, <2>1, DeleteKeeps
<1>12. CASE UNCHANGED ruleVars
  <2>1. UNCHANGED ruleState BY <1>12 DEF ruleVars, ruleState
  <2> QED BY <2>1, RestKeeps
<1> QED BY <1>1, <1>2, <1>3, <1>4, <1>5, <1>6, <1>7, <1>8, <1>9, <1>10, <1>11, <1>12 DEF RulesNext

LEMMA PageIsNumber == RuleInv /\ page \in Nat /\ [RulesNext]_ruleVars => page' \in Nat
<1> SUFFICES ASSUME RuleInv, page \in Nat, [RulesNext]_ruleVars PROVE page' \in Nat
  OBVIOUS
<1>1. Len(order) \in Nat /\ DOMAIN order = 1..Len(order) BY DEF RuleInv, Shape, CopyShape
<1>2. CASE HandleRoutingEvent
  <2>1. RuleInv' BY <1>2, EventKeeps
  <2>2. Len(order') \in Nat BY <2>1 DEF RuleInv, Shape, CopyShape
  <2>3. page' \in {page, Len(order')}
    <3>1. Head(updates).k \in {"routing", "group", "deleted"}
      BY <1>2, FramesTail DEF HandleRoutingEvent, RuleInv, Shape, GoodFrame
    <3>2. CASE Head(updates).k = "routing" BY <1>2, <3>2, Zenon DEF HandleRoutingEvent
    <3>3. CASE Head(updates).k = "group" BY <1>2, <3>3, Zenon DEF HandleRoutingEvent
    <3>4. CASE Head(updates).k = "deleted"
      <4>1. page' = IF page > Len(order') THEN Len(order') ELSE page BY <1>2, <3>4, Zenon DEF HandleRoutingEvent
      <4> QED BY <4>1
    <3> QED BY <3>1, <3>2, <3>3, <3>4
  <2> QED BY <2>2, <2>3
<1>3. CASE TurnPage
  <2>1. PICK d \in {1, Len(order)} : page' = (page + d) % (Len(order) + 1)
    BY <1>3, Zenon DEF TurnPage
  <2> QED BY <1>1, <2>1, RingPage, Zenon
<1>4. CASE OpenTab BY <1>1, <1>4 DEF OpenTab, SyncToConnected
<1>5. CASE ~HandleRoutingEvent /\ ~TurnPage /\ ~OpenTab
  <2>1. page' = page
    BY <1>5, Zenon DEF RulesNext, ruleVars, HandleRouting, SendAnswer, MoveRuleCursor, ClosePopup, OpenRulePopup,
      ToggleRule, ConfirmDelete, SaveForm, UsePreset, ToggleSource, CliFetch, CliUpdate, CliSource,
      DeleteGroup, CliRest
  <2> QED BY <2>1
<1> QED BY <1>2, <1>3, <1>4, <1>5

\* Nothing is under way: the copies are what they will be.
LEMMA RuleInvGives == RuleInv => PageShowsRules
<1> SUFFICES ASSUME RuleInv, Quiet, PageGid \in custom => view[PageGid].eff.has
             PROVE  Shown(PageGid) = Payload(PageGid).eff
  BY DEF PageShowsRules
<1>1. AnswerInv /\ RouteInv /\ UseInv /\ ViewInv /\ StoreShape /\ CopyShape /\ GoneInv
  BY DEF Quiet, RuleInv, Shape
<1>2. \A q, k, g : q = <<>> => ~Tells(q, k, g) BY DEF Tells
<1>3. \A k, g : ~Tells(updates, k, g) BY <1>2 DEF Quiet
<1>4. \A g : ~Awaited(g) BY <1>2 DEF Quiet, Awaited
<1>5. routing = rules BY <1>1, <1>3, <1>4 DEF RouteInv, WillRoute
<1>6. CASE PageGid = Global
  <2>1. Global \notin source BY <1>1, GlobalIsNoGroup DEF StoreShape
  <2> QED BY <1>5, <1>6, <2>1 DEF Shown, ShownIn, Payload
<1>7. CASE PageGid # Global
  <2>1. PICK g : g = PageGid OBVIOUS
  <2>2. g \in Gids /\ g \in alive BY <1>1, <1>3, <1>7, <2>1 DEF PageGid, GoneInv, CopyShape
  <2>3. g \in source <=> g \in custom
    <3>1. WillUse(updates, Used(g), g) = {Used(g)} BY <1>3 DEF WillUse
    <3>2. (g \in source => Used(g) = "custom") /\ (Used(g) = "custom" => g \in source)
      BY <1>1, <1>4, <2>2, <3>1 DEF UseInv
    <3> QED BY <3>2 DEF Used
  <2>4. g \in source /\ view[g].eff.has => view[g].eff.list = stored[g].list
    <3>1. WillView(updates, view[g].eff, g) = {view[g].eff} BY <1>3 DEF WillView
    <3> QED BY <1>1, <1>4, <2>2, <3>1 DEF ViewInv
  <2>5. CASE g \in source
    <3>1. g \in custom /\ view[g].eff.has BY <2>1, <2>3, <2>5
    <3>2. Shown(g) = view[g].eff.list BY <1>7, <2>1, <3>1 DEF Shown, ShownIn
    <3>3. Payload(g).eff = stored[g].list BY <2>5 DEF Payload
    <3> QED BY <2>1, <2>4, <2>5, <3>1, <3>2, <3>3
  <2>6. CASE g \notin source
    <3>1. Shown(g) = routing BY <2>3, <2>6 DEF Shown, ShownIn
    <3>2. Payload(g).eff = rules BY <2>6 DEF Payload
    <3> QED BY <1>5, <2>1, <3>1, <3>2
  <2> QED BY <2>5, <2>6
<1> QED BY <1>6, <1>7

RulesAlways == RuleInv /\ page \in Nat

\* Whoever edits the rules, the page shows what the core routes by once nothing is under
\* way: the events the core sends and the edits the interface makes at once never leave
\* it with an older list (apply_routing_updated, UpdateRouting).
THEOREM RulesShown == RulesSpec => []PageShowsRules
<1>1. RulesInit => RulesAlways BY RulesInitially DEF RulesInit, RulesAlways
<1>2. RulesAlways /\ [RulesNext]_ruleVars => RulesAlways'
  BY RulesStep, PageIsNumber DEF RulesAlways
<1>3. RulesAlways => PageShowsRules BY RuleInvGives DEF RulesAlways
<1> QED BY <1>1, <1>2, <1>3, PTL DEF RulesSpec

-----------------------------------------------------------------------------
(* The order of lists.                                                     *)

LEMMA FirstOf ==
  ASSUME NEW n \in Nat, NEW I \in SUBSET (1 .. n), I # {}
  PROVE  Min(I) \in I
<1> DEFINE Less == {p \in Nat \X Nat : p[1] < p[2]}
<1>1. IsWellFoundedOn(Less, Nat)
  BY NatLessThanWellFounded, Zenon DEF OpToRel
<1> HIDE DEF Less
<1>2. I \subseteq Nat
  OBVIOUS
<1>3. PICK i \in I : \A j \in I : ~(<<j, i>> \in Less)
  BY <1>1, <1>2, WFMin, Zenon
<1>4. \A j \in I : i <= j
  <2> TAKE j \in I
  <2>1. i \in Nat /\ j \in Nat
    BY <1>2
  <2>2. <<j, i>> \in Less <=> j < i
    BY <2>1 DEF Less
  <2> QED
    BY <1>3, <2>1, <2>2
<1>5. \E x \in I : \A y \in I : x <= y
  BY <1>4
<1> QED
  BY <1>5, Zenon DEF Min

Placed(len, L, G) == (\A x \in L : G[x] <= len) /\ (\A x, y \in L : G[x] = G[y] => x = y)
Extends(F, L, G) == \A a, b \in Nat :
  /\ F[a] = F[b] => a = b
  /\ a \in L /\ b \in L => F[a] = G[a]
  /\ a \notin L /\ b \notin L => (F[a] < F[b] <=> a < b)
  /\ a \in L /\ b \notin L => F[a] < F[b]

\* What a list names has a first place in it, and no two have the same.
LEMMA FirstPlaces ==
  ASSUME NEW ids, NEW len \in Nat, DOMAIN ids = 1 .. len
  PROVE  \E L \in SUBSET Nat, G \in [Nat -> Nat] :
           /\ Placed(len, L, G)
           /\ \A a, b \in Nat : Ahead(ids, a, b) <=> a \in L /\ (b \notin L \/ G[a] < G[b])
<1> DEFINE at(x) == {i \in DOMAIN ids : ids[i] = x}
<1>2. ASSUME NEW x, at(x) # {} PROVE Min(at(x)) \in 1 .. len /\ ids[Min(at(x))] = x
  <2> SUFFICES Min(at(x)) \in at(x)
    OBVIOUS
  <2>1. at(x) \in SUBSET (1 .. len) /\ at(x) # {}
    BY <1>2
  <2> HIDE DEF at
  <2> QED
    BY <2>1, FirstOf, Zenon
<1>3. \A a, b : Ahead(ids, a, b) <=> at(a) # {} /\ (at(b) = {} \/ Min(at(a)) < Min(at(b)))
  BY Zenon DEF Ahead
<1> HIDE DEF at
<1> DEFINE L == {x \in Nat : at(x) # {}}
           G == [x \in Nat |-> IF at(x) # {} THEN Min(at(x)) ELSE 0]
<1>4. ASSUME NEW x \in Nat PROVE G[x] \in Nat
  <2>1. CASE at(x) # {}
    BY <1>2, <2>1
  <2>2. CASE at(x) = {}
    BY <2>2
  <2> QED
    BY <2>1, <2>2
<1>5. G \in [Nat -> Nat]
  <2>1. G = [x \in Nat |-> G[x]]
    OBVIOUS
  <2> HIDE DEF G
  <2> QED
    BY <1>4, <2>1
<1>6. ASSUME NEW x \in L PROVE G[x] = Min(at(x)) /\ at(x) # {} /\ x \in Nat
  OBVIOUS
<1>7. ASSUME NEW x \in L PROVE G[x] <= len /\ ids[G[x]] = x
  <2>1. Min(at(x)) <= len
    BY <1>2, <1>6
  <2> QED
    BY <1>2, <1>6, <2>1, Zenon
<1>8. \A a, b \in Nat : Ahead(ids, a, b) <=> a \in L /\ (b \notin L \/ G[a] < G[b])
  <2> TAKE a, b \in Nat
  <2>1. a \in L <=> at(a) # {}
    OBVIOUS
  <2>2. b \in L <=> at(b) # {}
    OBVIOUS
  <2> HIDE DEF L, G
  <2> QED
    BY <1>3, <1>6, <2>1, <2>2, Zenon
<1> HIDE DEF L, G
<1>9. \A x, y \in L : G[x] = G[y] => x = y
  BY <1>7, Zenon
<1>10. L \in SUBSET Nat
  BY <1>6
<1>11. Placed(len, L, G)
  BY <1>7, <1>9, Zenon DEF Placed
<1> QED
  BY <1>5, <1>8, <1>10, <1>11, Zenon

\* Numbers that give the order: the places of what is listed, and beyond them the others.
LEMMA PlacesAreNumbers ==
  ASSUME NEW len \in Nat, NEW L \in SUBSET Nat, NEW G \in [Nat -> Nat], Placed(len, L, G)
  PROVE  \E F \in [Nat -> Nat] : Extends(F, L, G)
<1> USE DEF Placed, Extends
<1>1. PICK F \in [Nat -> Nat] : \A x \in Nat : (x \in L => F[x] = G[x]) /\ (x \notin L => F[x] = len + 1 + x)
  <2> DEFINE F == [x \in Nat |-> IF x \in L THEN G[x] ELSE len + 1 + x]
  <2>1. F \in [Nat -> Nat]
    OBVIOUS
  <2> QED
    BY <2>1, Zenon
<1>2. ASSUME NEW a \in Nat, NEW b \in Nat
      PROVE  /\ F[a] = F[b] => a = b
             /\ a \in L /\ b \in L => F[a] = G[a]
             /\ a \notin L /\ b \notin L => (F[a] < F[b] <=> a < b)
             /\ a \in L /\ b \notin L => F[a] < F[b]
  <2>1. PICK p \in Nat, q \in Nat, u \in Nat, v \in Nat : p = F[a] /\ q = F[b] /\ u = G[a] /\ v = G[b]
    BY Zenon
  <2>2. (a \in L => p = u /\ u <= len) /\ (a \notin L => p = len + 1 + a)
    BY <1>1, <2>1
  <2>3. (b \in L => q = v /\ v <= len) /\ (b \notin L => q = len + 1 + b)
    BY <1>1, <2>1
  <2>4. a \in L /\ b \in L => (u = v => a = b)
    BY <2>1, Zenon
  <2> QED
    BY <2>1, <2>2, <2>3, <2>4
<1> QED
  BY <1>2, Zenon

\* The order of a list compares numbers.
LEMMA OrderNumbers ==
  ASSUME NEW ids, NEW L \in SUBSET Nat, NEW G \in [Nat -> Nat], NEW F \in [Nat -> Nat],
         Extends(F, L, G),
         \A a, b \in Nat : Ahead(ids, a, b) <=> a \in L /\ (b \notin L \/ G[a] < G[b])
  PROVE  \A a, b \in Nat : Before(ids, a, b) <=> F[a] < F[b]
<1>3. ASSUME NEW a \in Nat, NEW b \in Nat
      PROVE  Before(ids, a, b) <=> F[a] < F[b]
  <2>1. Before(ids, a, b) <=> Ahead(ids, a, b) \/ (a < b /\ ~Ahead(ids, b, a))
    BY DEF Before
  <2>2. PICK p \in Nat, q \in Nat, u \in Nat, v \in Nat : p = F[a] /\ q = F[b] /\ u = G[a] /\ v = G[b]
    BY Zenon
  <2>3. /\ p = q => a = b
        /\ a \in L /\ b \in L => p = u /\ q = v
        /\ a \notin L /\ b \notin L => (p < q <=> a < b)
        /\ a \in L /\ b \notin L => p < q
        /\ b \in L /\ a \notin L => q < p
    BY <2>2, Zenon DEF Extends
  <2>4. (Ahead(ids, a, b) <=> a \in L /\ (b \notin L \/ u < v)) /\ (Ahead(ids, b, a) <=> b \in L /\ (a \notin L \/ v < u))
    BY <2>2, Zenon
  <2>5. a \in L /\ b \in L => (p = q => u = v)
    BY <2>3
  <2>6. CASE a \in L /\ b \in L
    <3>0. (Ahead(ids, a, b) <=> u < v) /\ (Ahead(ids, b, a) <=> v < u)
      BY <2>4, <2>6, Zenon
    <3>1. Before(ids, a, b) <=> u < v \/ (a < b /\ ~(v < u))
      BY <2>1, <3>0, Zenon
    <3>2. (u < v \/ (a < b /\ ~(v < u))) <=> u < v
      BY <2>3, <2>5, <2>6
    <3> QED
      BY <2>2, <2>3, <2>6, <3>1, <3>2, Zenon
  <2>7. CASE a \in L /\ b \notin L
    BY <2>1, <2>2, <2>3, <2>4, <2>7, Zenon
  <2>8. CASE a \notin L /\ b \in L
    <3>1. ~Before(ids, a, b) /\ q < p
      BY <2>1, <2>3, <2>4, <2>8, Zenon
    <3>2. ~(p < q)
      BY <3>1
    <3> QED
      BY <2>2, <3>1, <3>2, Zenon
  <2>9. CASE a \notin L /\ b \notin L
    BY <2>1, <2>2, <2>3, <2>4, <2>9, Zenon
  <2> QED
    BY <2>6, <2>7, <2>8, <2>9, Zenon
<1> QED
  BY <1>3

LEMMA OrderIsNumbers ==
  ASSUME NEW ids, NEW len \in Nat, DOMAIN ids = 1 .. len
  PROVE  \E F \in [Nat -> Nat] :
           /\ \A a, b \in Nat : Before(ids, a, b) <=> F[a] < F[b]
           /\ \A a, b \in Nat : F[a] = F[b] => a = b
<1>1. PICK L \in SUBSET Nat, G \in [Nat -> Nat] :
           Placed(len, L, G) /\ \A a, b \in Nat : Ahead(ids, a, b) <=> a \in L /\ (b \notin L \/ G[a] < G[b])
  BY FirstPlaces, Zenon
<1>2. PICK F \in [Nat -> Nat] : Extends(F, L, G)
  BY <1>1, PlacesAreNumbers, Zenon
<1>3. \A a, b \in Nat : Before(ids, a, b) <=> F[a] < F[b]
  BY <1>1, <1>2, OrderNumbers, Zenon
<1> QED
  BY <1>2, <1>3, Zenon DEF Extends
\* Each element has one place, and the places are in order.
LEMMA ArrangeOrders ==
  ASSUME NEW ids, NEW F \in [Nat -> Nat],
         \A a, b \in Nat : Before(ids, a, b) <=> F[a] < F[b], \A a, b \in Nat : F[a] = F[b] => a = b,
         NEW all \in SUBSET Nat, IsFiniteSet(all)
  PROVE  /\ Cardinality(all) \in Nat
         /\ Arrange(ids, all) \in [1 .. Cardinality(all) -> all]
         /\ \A x \in all : \E n \in 1 .. Cardinality(all) : Arrange(ids, all)[n] = x
         /\ \A m, n \in 1 .. Cardinality(all) : m < n => Before(ids, Arrange(ids, all)[m], Arrange(ids, all)[n])
<1>1. (\A a, b \in Nat : Before(ids, a, b) <=> F[a] < F[b]) /\ (\A a, b \in Nat : F[a] = F[b] => a = b)
  OBVIOUS
<1>2. PICK size \in Nat : size = Cardinality(all)
  BY FS_CardinalityType
<1>3. PICK P \in [all -> SUBSET all] : \A x \in all : P[x] = {y \in all : Before(ids, y, x)}
  <2> DEFINE P == [x \in all |-> {y \in all : Before(ids, y, x)}]
  <2> WITNESS P \in [all -> SUBSET all]
  <2> QED
    OBVIOUS
<1>4. \A x \in all : F[x] \in Nat /\ \A y \in all : y \in P[x] <=> F[y] < F[x]
  BY <1>1, <1>3
<1>5. ASSUME NEW x \in all PROVE /\ IsFiniteSet(P[x]) /\ x \notin P[x]
                                 /\ Cardinality(P[x]) \in Nat /\ Cardinality(P[x]) + 1 \in 1 .. size
  <2>1. P[x] \in SUBSET (all \ {x}) /\ x \notin P[x]
    BY <1>4
  <2>2. IsFiniteSet(all \ {x}) /\ Cardinality(all \ {x}) = size - 1
    BY <1>2, FS_RemoveElement, Zenon
  <2>3. IsFiniteSet(P[x]) /\ Cardinality(P[x]) <= size - 1
    BY <2>1, <2>2, FS_Subset
  <2>4. Cardinality(P[x]) \in Nat
    BY <2>3, FS_CardinalityType
  <2> QED
    BY <2>1, <2>3, <2>4
<1>6. PICK c \in [all -> 1 .. size] : \A x \in all : c[x] = Cardinality(P[x]) + 1
  <2> DEFINE c == [x \in all |-> Cardinality(P[x]) + 1]
  <2>1. c \in [all -> 1 .. size]
    BY <1>5
  <2> QED
    BY <2>1, Zenon
<1>7. ASSUME NEW x \in all, NEW y \in all, F[x] < F[y] PROVE c[x] < c[y]
  <2>1. P[x] \subseteq P[y] /\ x \in P[y]
    <3>1. \A z \in P[x] : z \in all
      BY <1>3
    <3>2. ASSUME NEW z \in P[x] PROVE z \in P[y]
      <4>1. PICK p \in Nat, q \in Nat, r \in Nat : p = F[z] /\ q = F[x] /\ r = F[y]
        BY <3>1, <3>2, <1>4
      <4>2. p < q
        BY <1>4, <3>1, <3>2, <4>1
      <4>3. q < r
        BY <1>7, <4>1
      <4>4. p < r
        BY <4>2, <4>3
      <4> QED
        BY <1>4, <3>1, <4>1, <4>4, Zenon
    <3>3. x \in P[y]
      BY <1>4, <1>7, Zenon
    <3> QED
      BY <3>2, <3>3, Zenon
  <2>2. P[x] \cup {x} \in SUBSET P[y]
    BY <2>1
  <2>3. Cardinality(P[x] \cup {x}) = Cardinality(P[x]) + 1
    BY <1>5, FS_AddElement, Zenon
  <2>4. Cardinality(P[x] \cup {x}) <= Cardinality(P[y])
    BY <1>5, <2>2, FS_Subset
  <2> QED
    BY <1>5, <1>6, <2>3, <2>4
<1>8. \A a, b \in all : c[a] = c[b] => a = b
  <2> SUFFICES ASSUME NEW a \in all, NEW b \in all, c[a] = c[b], a # b PROVE FALSE
    OBVIOUS
  <2>1. F[a] # F[b]
    BY <1>1
  <2>2. CASE F[a] < F[b]
    BY <1>7, <2>2
  <2>3. CASE F[b] < F[a]
    BY <1>7, <2>3
  <2> QED
    BY <1>4, <2>1, <2>2, <2>3
<1>9. \A n \in 1 .. size : \E x \in all : c[x] = n
  <2>1. IsFiniteSet(1 .. size) /\ Cardinality(1 .. size) = size
    BY FS_Interval
  <2>2. c \in Injection(all, 1 .. size)
    BY <1>8 DEF Injection, IsInjective
  <2>3. c \in Surjection(all, 1 .. size)
    BY <1>2, <2>1, <2>2, FS_Injection
  <2> QED
    BY <2>3 DEF Surjection
<1>10. PICK A : A = [n \in 1 .. size |-> CHOOSE x \in all : Cardinality({y \in all : Before(ids, y, x)}) + 1 = n]
  BY Zenon
<1>11. Arrange(ids, all) = A
  BY <1>2, <1>10, Zenon DEF Arrange
<1>12. \A n \in 1 .. size : A[n] \in all /\ c[A[n]] = n
  <2> SUFFICES ASSUME NEW n \in 1 .. size PROVE A[n] \in all /\ c[A[n]] = n
    OBVIOUS
  <2>1. \A x \in all : c[x] = Cardinality({y \in all : Before(ids, y, x)}) + 1
    BY <1>3, <1>6, Zenon
  <2>2. A[n] = CHOOSE x \in all : Cardinality({y \in all : Before(ids, y, x)}) + 1 = n
    BY <1>10, Zenon
  <2>3. \E x \in all : Cardinality({y \in all : Before(ids, y, x)}) + 1 = n
    BY <1>9, <2>1
  <2> QED
    BY <2>1, <2>2, <2>3, Zenon
<1>13. A \in [1 .. size -> all]
  BY <1>10, <1>12, Zenon
<1>14. \A x \in all : \E n \in 1 .. size : A[n] = x
  <2> SUFFICES ASSUME NEW x \in all PROVE A[c[x]] = x
    OBVIOUS
  <2> QED
    BY <1>8, <1>12, Zenon
<1>15. \A m, n \in 1 .. size : m < n => Before(ids, A[m], A[n])
  <2> SUFFICES ASSUME NEW m \in 1 .. size, NEW n \in 1 .. size, m < n PROVE F[A[m]] < F[A[n]]
    BY <1>1, <1>12, Zenon
  <2>1. PICK x \in all, y \in all : x = A[m] /\ y = A[n] /\ c[x] = m /\ c[y] = n
    BY <1>12, Zenon
  <2>2. ~(F[y] < F[x])
    BY <1>7, <2>1
  <2>3. F[y] # F[x]
    BY <1>1, <2>1
  <2>4. PICK p \in Nat, q \in Nat : p = F[x] /\ q = F[y]
    BY <1>4
  <2>5. p < q
    BY <2>2, <2>3, <2>4
  <2> QED
    BY <2>1, <2>4, <2>5, Zenon
<1> QED
  BY <1>2, <1>11, <1>13, <1>14, <1>15

LEMMA ArrangeIsOrder ==
  ASSUME NEW ids, NEW len \in Nat, DOMAIN ids = 1 .. len, NEW all \in SUBSET Nat, IsFiniteSet(all)
  PROVE  /\ Cardinality(all) \in Nat
         /\ Arrange(ids, all) \in [1 .. Cardinality(all) -> all]
         /\ \A x \in all : \E n \in 1 .. Cardinality(all) : Arrange(ids, all)[n] = x
         /\ \A m, n \in 1 .. Cardinality(all) : m < n => Before(ids, Arrange(ids, all)[m], Arrange(ids, all)[n])
  BY OrderIsNumbers, ArrangeOrders, Zenon

-----------------------------------------------------------------------------
(* Sequences of sequences, one after the other.                            *)

LEMMA CountsUp ==
  ASSUME NEW P \in SUBSET Nat, 0 \in P, \A n \in P : n + 1 \in P
  PROVE  \A n \in Nat : n \in P
<1> DEFINE Less == {p \in Nat \X Nat : p[1] < p[2]}
           Beyond == Nat \ P
<1>1. IsWellFoundedOn(Less, Nat)
  BY NatLessThanWellFounded, Zenon DEF OpToRel
<1> HIDE DEF Less
<1>2. SUFFICES ASSUME Beyond # {} PROVE FALSE
  OBVIOUS
<1>3. PICK i \in Beyond : \A j \in Beyond : ~(<<j, i>> \in Less)
  BY <1>1, <1>2, WFMin, Zenon
<1>4. i \in Nat /\ i # 0 /\ i - 1 \in Nat
  OBVIOUS
<1>5. <<i - 1, i>> \in Less
  BY <1>4 DEF Less
<1>6. i - 1 \in P
  BY <1>3, <1>4, <1>5
<1> QED
  BY <1>4, <1>6

LEMMA AllUpTo ==
  ASSUME NEW m \in Nat, NEW P \in SUBSET Nat, 0 \in P, \A n \in 0 .. m : n # m /\ n \in P => n + 1 \in P
  PROVE  \A n \in 0 .. m : n \in P
<1> DEFINE Q == {n \in Nat : n <= m => n \in P}
<1>1. 0 \in Q
  OBVIOUS
<1>2. ASSUME NEW n \in Q PROVE n + 1 \in Q
  OBVIOUS
<1>3. Q \in SUBSET Nat
  OBVIOUS
<1>4. \A n \in Nat : n \in Q
  <2> HIDE DEF Q
  <2> QED
    BY <1>1, <1>2, <1>3, CountsUp
<1> QED
  BY <1>4

\* The results after each block.
Blocks(s, S, g) ==
  /\ g \in [0 .. Len(s) -> Seq(S)] /\ g[0] = <<>>
  /\ \A i \in 1 .. Len(s) : g[i] = g[i - 1] \o s[i]

LEMMA BlocksExist ==
  ASSUME NEW S, NEW s \in Seq(Seq(S))
  PROVE  \E g : Blocks(s, S, g)
<1> DEFINE Upto(n, g) == /\ g \in [0 .. n -> Seq(S)] /\ g[0] = <<>>
                         /\ \A i \in 1 .. n : g[i] = g[i - 1] \o s[i]
           P == {n \in Nat : n <= Len(s) => \E g : Upto(n, g)}
<1>0. Len(s) \in Nat /\ DOMAIN s = 1 .. Len(s) /\ \A i \in 1 .. Len(s) : s[i] \in Seq(S)
  OBVIOUS
<1>1. 0 \in P
  <2> DEFINE g == [i \in 0 .. 0 |-> <<>>]
  <2>1. g \in [0 .. 0 -> Seq(S)] /\ g[0] = <<>> /\ \A i \in 1 .. 0 : FALSE
    OBVIOUS
  <2>2. Upto(0, g)
    BY <2>1
  <2> QED
    BY <2>2, Zenon
<1>2. ASSUME NEW n \in P PROVE n + 1 \in P
  <2> HIDE DEF Upto
  <2> SUFFICES ASSUME n + 1 <= Len(s) PROVE \E g : Upto(n + 1, g)
    OBVIOUS
  <2> USE DEF Upto
  <2>0. n \in Nat /\ n <= Len(s) /\ n + 1 \in 1 .. Len(s) /\ s[n + 1] \in Seq(S)
    BY <1>0
  <2>1. PICK g : Upto(n, g)
    BY <2>0, Zenon
  <2>2. n \in 0 .. n /\ g[n] \in Seq(S)
    BY <2>0, <2>1
  <2>3. PICK w \in Seq(S) : w = g[n] \o s[n + 1]
    <3>1. PICK a \in Seq(S), b \in Seq(S) : a = g[n] /\ b = s[n + 1]
      BY <2>0, <2>2, Zenon
    <3>2. a \o b \in Seq(S)
      OBVIOUS
    <3> QED
      BY <3>1, <3>2, Zenon
  <2> DEFINE h == [i \in 0 .. n + 1 |-> IF i = n + 1 THEN w ELSE g[i]]
  <2>4. \A i \in 0 .. n : h[i] = g[i] /\ i \in 0 .. n + 1
    BY <2>0
  <2>5. h[n + 1] = w
    BY <2>0
  <2>6. \A i \in 0 .. n + 1 : h[i] \in Seq(S)
    BY <2>0, <2>1, <2>3
  <2>7. h \in [0 .. n + 1 -> Seq(S)]
    <3>1. h = [i \in 0 .. n + 1 |-> h[i]]
      OBVIOUS
    <3> HIDE DEF h
    <3> QED
      BY <2>6, <3>1
  <2> HIDE DEF h
  <2>8. ASSUME NEW i \in 1 .. n + 1 PROVE h[i] = h[i - 1] \o s[i]
    <3>1. CASE i = n + 1
      <4>1. h[i - 1] = g[n]
        BY <2>0, <2>4, <3>1
      <4> QED
        BY <2>3, <2>5, <3>1, <4>1, Zenon
    <3>2. CASE i # n + 1
      <4>1. i \in 1 .. n /\ i \in 0 .. n /\ i - 1 \in 0 .. n
        BY <2>0, <3>2
      <4>2. g[i] = g[i - 1] \o s[i]
        BY <2>1, <4>1, Zenon
      <4> QED
        BY <2>4, <4>1, <4>2, Zenon
    <3> QED
      BY <3>1, <3>2, Zenon
  <2>9. h[0] = <<>>
    BY <2>0, <2>1, <2>4
  <2> QED
    BY <2>7, <2>8, <2>9, Zenon
<1>3. P \in SUBSET Nat
  BY Zenon
<1>4. \A n \in Nat : n \in P
  <2> HIDE DEF P
  <2> QED
    BY <1>1, <1>2, <1>3, CountsUp, Zenon
<1>5. \E g : Upto(Len(s), g)
  <2>1. Len(s) \in Nat /\ Len(s) \in P
    BY <1>0, <1>4, Zenon
  <2>2. Len(s) <= Len(s)
    BY <2>1
  <2> QED
    BY <2>1, <2>2, Zenon
<1> QED
  BY <1>5, Zenon DEF Blocks

LEMMA FlattenIsLast ==
  ASSUME NEW S, NEW s \in Seq(Seq(S))
  PROVE  \E g : Blocks(s, S, g) /\ FlattenSeq(s) = g[Len(s)]
<1>0. PICK n \in Nat : n = Len(s) /\ DOMAIN s = 1 .. n /\ \A i \in 1 .. n : s[i] \in Seq(S)
  OBVIOUS
<1>1. PICK g : Blocks(s, S, g)
  BY BlocksExist, Zenon
<1>2. CASE n = 0
  <2>1. s = <<>> /\ FlattenSeq(s) = s
    BY <1>0, <1>2 DEF FlattenSeq
  <2> QED
    BY <1>0, <1>1, <1>2, <2>1 DEF Blocks
<1>3. CASE n # 0
  <2> DEFINE step(f) == [i \in 1 .. Len(s) |-> IF i = 1 THEN s[i] ELSE f[i - 1] \o s[i]]
             fl == CHOOSE f : f = step(f)
  <2>1. FlattenSeq(s) = fl[Len(s)]
    BY <1>0, <1>3, Zenon DEF FlattenSeq
  <2>2. \E f : f = step(f)
    <3> DEFINE f == [i \in 1 .. Len(s) |-> g[i]]
    <3>1. ASSUME NEW i \in 1 .. Len(s) PROVE g[i] = IF i = 1 THEN s[i] ELSE f[i - 1] \o s[i]
      <4>1. g[i] = g[i - 1] \o s[i]
        BY <1>0, <1>1, Zenon DEF Blocks
      <4>2. CASE i = 1
        <5>1. g[i - 1] = <<>> /\ s[i] \in Seq(S)
          BY <1>0, <1>1, <4>2 DEF Blocks
        <5>2. g[i] = s[i]
          BY <4>1, <5>1
        <5> QED
          BY <4>2, <5>2
      <4>3. CASE i # 1
        <5>1. i - 1 \in 1 .. Len(s)
          BY <1>0, <4>3
        <5>2. f[i - 1] = g[i - 1]
          BY <5>1
        <5> QED
          BY <4>1, <4>3, <5>2, Zenon
      <4> QED
        BY <4>2, <4>3
    <3>2. f = step(f)
      BY <3>1, Zenon
    <3> QED
      BY <3>2, Zenon
  <2>3. fl = step(fl)
    BY <2>2, Zenon
  <2> HIDE DEF fl
  <2> DEFINE h == [i \in 0 .. Len(s) |-> IF i = 0 THEN <<>> ELSE fl[i]]
  <2>4. h[0] = <<>> /\ h[Len(s)] = fl[Len(s)]
    BY <1>0, <1>3
  <2>5. ASSUME NEW i \in 1 .. Len(s) PROVE i - 1 \in 0 .. Len(s) /\ s[i] \in Seq(S) /\ (h[i - 1] \in Seq(S) => h[i] = h[i - 1] \o s[i])
    <3>1. fl[i] = IF i = 1 THEN s[i] ELSE fl[i - 1] \o s[i]
      BY <2>3, Zenon
    <3>2. i \in 0 .. Len(s) /\ i - 1 \in 0 .. Len(s) /\ i # 0 /\ s[i] \in Seq(S)
      BY <1>0
    <3>3. h[i] = fl[i]
      BY <3>2
    <3>4. CASE i = 1
      <4>1. h[i - 1] = <<>>
        BY <3>2, <3>4
      <4> QED
        BY <3>1, <3>2, <3>3, <3>4, <4>1
    <3>5. CASE i # 1
      <4>1. h[i - 1] = fl[i - 1]
        BY <3>2, <3>5
      <4> QED
        BY <3>1, <3>2, <3>3, <3>5, <4>1, Zenon
    <3> QED
      BY <3>2, <3>4, <3>5, Zenon
  <2>6. DOMAIN h = 0 .. Len(s) /\ h = [i \in DOMAIN h |-> h[i]]
    OBVIOUS
  <2> HIDE DEF h
  <2> DEFINE P == {i \in Nat : i <= Len(s) => h[i] \in Seq(S)}
  <2>7. 0 \in P
    <3>1. h[0] \in Seq(S)
      BY <2>4
    <3> QED
      BY <3>1
  <2>8. ASSUME NEW i \in P PROVE i + 1 \in P
    <3> SUFFICES ASSUME i + 1 <= Len(s) PROVE h[i + 1] \in Seq(S)
      OBVIOUS
    <3>1. i \in Nat /\ i + 1 \in 1 .. Len(s) /\ h[i] \in Seq(S) /\ (i + 1) - 1 = i
      BY <1>0
    <3>2. h[i + 1] = h[i] \o s[i + 1] /\ s[i + 1] \in Seq(S)
      BY <2>5, <3>1, Zenon
    <3> QED
      BY <3>1, <3>2
  <2>9. P \in SUBSET Nat
    OBVIOUS
  <2>10. \A i \in Nat : i \in P
    <3> HIDE DEF P
    <3> QED
      BY <2>7, <2>8, <2>9, CountsUp, Zenon
  <2>11. \A i \in 0 .. Len(s) : h[i] \in Seq(S)
    BY <1>0, <2>10
  <2>12. h \in [0 .. Len(s) -> Seq(S)]
    BY <2>6, <2>11
  <2>13. Blocks(s, S, h)
    BY <2>4, <2>5, <2>11, <2>12, Zenon DEF Blocks
  <2> QED
    BY <2>1, <2>4, <2>13
<1> QED
  BY <1>2, <1>3

LEMMA FlattenTyped ==
  ASSUME NEW S, NEW s \in Seq(Seq(S))
  PROVE  FlattenSeq(s) \in Seq(S)
<1>1. PICK g : Blocks(s, S, g) /\ FlattenSeq(s) = g[Len(s)]
  BY FlattenIsLast, Zenon
<1>2. Len(s) \in 0 .. Len(s)
  OBVIOUS
<1> QED
  BY <1>1, <1>2 DEF Blocks

LEMMA ConcatParts ==
  ASSUME NEW S, NEW a \in Seq(S), NEW b \in Seq(S)
  PROVE  /\ a \o b \in Seq(S) /\ Len(a \o b) = Len(a) + Len(b)
         /\ \A i \in DOMAIN a : i \in DOMAIN (a \o b) /\ (a \o b)[i] = a[i]
         /\ \A i \in DOMAIN b : Len(a) + i \in DOMAIN (a \o b) /\ (a \o b)[Len(a) + i] = b[i]
<1>1. PICK m \in Nat, n \in Nat : m = Len(a) /\ n = Len(b) /\ DOMAIN a = 1 .. m /\ DOMAIN b = 1 .. n
  OBVIOUS
<1>2. a \o b \in Seq(S) /\ Len(a \o b) = m + n
  BY <1>1
<1>3. DOMAIN (a \o b) = 1 .. m + n
  BY <1>2
<1>4. \A i \in 1 .. m : (a \o b)[i] = a[i]
  BY <1>1
<1>5. \A i \in 1 .. n : m + i \in 1 .. m + n /\ (a \o b)[m + i] = b[i]
  BY <1>1
<1> QED
  BY <1>1, <1>2, <1>3, <1>4, <1>5

LEMMA BlocksGrow ==
  ASSUME NEW S, NEW s \in Seq(Seq(S)), NEW g, Blocks(s, S, g), NEW i \in 1 .. Len(s)
  PROVE  /\ i - 1 \in 0 .. Len(s) /\ i \in 0 .. Len(s) /\ s[i] \in Seq(S)
         /\ g[i - 1] \in Seq(S) /\ g[i] \in Seq(S) /\ g[i] = g[i - 1] \o s[i]
         /\ Len(g[i - 1]) \in Nat /\ Len(s[i]) \in Nat /\ Len(g[i]) = Len(g[i - 1]) + Len(s[i])
<1>1. i - 1 \in 0 .. Len(s) /\ i \in 0 .. Len(s) /\ s[i] \in Seq(S)
  OBVIOUS
<1>2. PICK a \in Seq(S), b \in Seq(S) : a = g[i - 1] /\ b = s[i] /\ g[i] \in Seq(S) /\ g[i] = a \o b
  BY <1>1, Zenon DEF Blocks
<1>3. Len(a \o b) = Len(a) + Len(b) /\ Len(a) \in Nat /\ Len(b) \in Nat
  OBVIOUS
<1> QED
  BY <1>1, <1>2, <1>3

\* Every entry of a block is in the whole.
LEMMA FlattenHolds ==
  ASSUME NEW S, NEW s \in Seq(Seq(S)), NEW i \in 1 .. Len(s), NEW j \in DOMAIN s[i]
  PROVE  \E n \in DOMAIN FlattenSeq(s) : FlattenSeq(s)[n] = s[i][j]
<1>1. PICK g : Blocks(s, S, g) /\ FlattenSeq(s) = g[Len(s)]
  BY FlattenIsLast, Zenon
<1>2. PICK len \in Nat : len = Len(s) /\ i \in 1 .. len
  OBVIOUS
<1>3. PICK x : x = s[i][j]
  OBVIOUS
<1> DEFINE Q(k) == \E n \in DOMAIN g[k] : g[k][n] = x
           P == {k \in Nat : i <= k /\ k <= len => Q(k)}
<1>4. ASSUME NEW k \in P PROVE k + 1 \in P
  <2> SUFFICES ASSUME i <= k + 1, k + 1 <= len PROVE Q(k + 1)
    OBVIOUS
  <2>1. k \in Nat /\ k + 1 \in 1 .. Len(s) /\ (k + 1) - 1 = k
    BY <1>2
  <2>2. g[k] \in Seq(S) /\ s[k + 1] \in Seq(S) /\ g[k + 1] = g[k] \o s[k + 1]
    BY <1>1, <2>1, BlocksGrow, Zenon
  <2>3. PICK a \in Seq(S), b \in Seq(S) : a = g[k] /\ b = s[k + 1] /\ g[k + 1] = a \o b
    BY <2>2, Zenon
  <2>4. CASE i = k + 1
    <3>1. j \in DOMAIN b /\ b[j] = x
      BY <1>3, <2>3, <2>4
    <3>2. Len(a) + j \in DOMAIN (a \o b) /\ (a \o b)[Len(a) + j] = x
      BY <3>1, ConcatParts
    <3> QED
      BY <2>3, <3>2, Zenon
  <2>5. CASE i # k + 1
    <3>1. Q(k)
      BY <1>2, <2>1, <2>5
    <3>2. PICK n \in DOMAIN a : a[n] = x
      BY <2>3, <3>1, Zenon
    <3>3. n \in DOMAIN (a \o b) /\ (a \o b)[n] = x
      BY <3>2, ConcatParts
    <3> QED
      BY <2>3, <3>3, Zenon
  <2> QED
    BY <2>4, <2>5
<1>5. 0 \in P
  BY <1>2
<1>6. P \in SUBSET Nat
  OBVIOUS
<1>7. \A k \in Nat : k \in P
  <2> HIDE DEF P
  <2> QED
    BY <1>4, <1>5, <1>6, CountsUp, Zenon
<1>8. Q(len)
  BY <1>2, <1>7
<1> QED
  BY <1>1, <1>2, <1>3, <1>8, Zenon

Sums(s, n, A, E) ==
  /\ n = Len(s) /\ A[0] = 0 /\ A[n] = Len(FlattenSeq(s))
  /\ \A i \in 1 .. n : E[i] = Len(s[i]) /\ A[i] = A[i - 1] + E[i]

LEMMA BlockLengths ==
  ASSUME NEW S, NEW s \in Seq(Seq(S))
  PROVE  \E n \in Nat, A \in [Nat -> Nat], E \in [Nat -> Nat] : Sums(s, n, A, E)
<1>1. PICK g : Blocks(s, S, g) /\ FlattenSeq(s) = g[Len(s)]
  BY FlattenIsLast, Zenon
<1>2. PICK n \in Nat : n = Len(s)
  OBVIOUS
<1>3. ASSUME NEW i \in 1 .. n
      PROVE  /\ i - 1 \in 0 .. n /\ i \in 0 .. n
             /\ Len(g[i - 1]) \in Nat /\ Len(s[i]) \in Nat /\ Len(g[i]) = Len(g[i - 1]) + Len(s[i])
  <2>1. i \in 1 .. Len(s)
    BY <1>2, Zenon
  <2>2. Blocks(s, S, g)
    BY <1>1, Zenon
  <2>3. /\ i - 1 \in 0 .. Len(s) /\ i \in 0 .. Len(s)
        /\ Len(g[i - 1]) \in Nat /\ Len(s[i]) \in Nat /\ Len(g[i]) = Len(g[i - 1]) + Len(s[i])
    BY <2>1, <2>2, BlocksGrow, Zenon
  <2> QED
    BY <1>2, <2>3, Zenon
<1>4. ASSUME NEW i \in 0 .. n PROVE Len(g[i]) \in Nat
  <2>1. g[i] \in Seq(S)
    BY <1>1, <1>2, Zenon DEF Blocks
  <2> QED
    BY <2>1
<1> DEFINE A == [i \in Nat |-> IF i \in 0 .. n THEN Len(g[i]) ELSE 0]
           E == [i \in Nat |-> IF i \in 1 .. n THEN Len(s[i]) ELSE 0]
<1>5. A \in [Nat -> Nat] /\ \A i \in 0 .. n : A[i] = Len(g[i])
  BY <1>4
<1>6. E \in [Nat -> Nat] /\ \A i \in 1 .. n : E[i] = Len(s[i])
  BY <1>3
<1> HIDE DEF A, E
<1>7. 0 \in 0 .. n /\ n \in 0 .. n
  OBVIOUS
<1>8. g[0] = <<>> /\ Len(<<>>) = 0
  BY <1>1 DEF Blocks
<1>9. A[0] = 0 /\ A[n] = Len(FlattenSeq(s))
  BY <1>1, <1>2, <1>5, <1>7, <1>8, Zenon
<1>10. \A i \in 1 .. n : E[i] = Len(s[i]) /\ A[i] = A[i - 1] + E[i]
  BY <1>3, <1>5, <1>6, Zenon
<1> QED
  BY <1>2, <1>5, <1>6, <1>9, <1>10, Zenon DEF Sums

LEMMA SumsCompare ==
  ASSUME NEW m \in Nat, NEW n \in Nat, m <= n,
         NEW A \in [Nat -> Nat], NEW B \in [Nat -> Nat], NEW E \in [Nat -> Nat], NEW F \in [Nat -> Nat],
         A[0] = 0, B[0] = 0, \A i \in 1 .. m : A[i] = A[i - 1] + E[i], \A i \in 1 .. n : B[i] = B[i - 1] + F[i],
         \A i \in 1 .. m : E[i] <= F[i]
  PROVE  A[m] <= B[n]
<1> DEFINE P == {k \in 0 .. n : (k <= m => A[k] <= B[k]) /\ (m <= k => A[m] <= B[k])}
<1>1. 0 \in P
  OBVIOUS
<1>2. ASSUME NEW k \in 0 .. n, k # n, k \in P PROVE k + 1 \in P
  <2>0. k \in Nat /\ k + 1 \in 1 .. n /\ (k + 1) - 1 = k /\ (k <= m => A[k] <= B[k]) /\ (m <= k => A[m] <= B[k])
    BY <1>2
  <2> HIDE DEF P
  <2>10. A[k] \in Nat /\ A[m] \in Nat /\ B[k] \in Nat /\ k + 1 \in Nat
    BY <2>0
  <2>11. E[k + 1] \in Nat /\ F[k + 1] \in Nat
    BY <2>10, Zenon
  <2>1. PICK a \in Nat, am \in Nat, b \in Nat, e \in Nat, f \in Nat :
          a = A[k] /\ am = A[m] /\ b = B[k] /\ e = E[k + 1] /\ f = F[k + 1]
    BY <2>10, <2>11, Zenon
  <2>2. B[k + 1] = b + f
    BY <2>0, <2>1
  <2>3. k + 1 <= m => A[k + 1] = a + e /\ e <= f
    BY <2>0, <2>1
  <2>4. (k <= m => a <= b) /\ (m <= k => am <= b)
    BY <2>0, <2>1
  <2>5. k + 1 <= m => a + e <= b + f
    BY <2>0, <2>3, <2>4
  <2>6. m <= k + 1 => am <= b + f \/ k + 1 = m
    BY <2>0, <2>4
  <2>7. (k + 1 <= m => A[k + 1] <= B[k + 1]) /\ (m <= k + 1 => A[m] <= B[k + 1])
    BY <2>0, <2>1, <2>2, <2>3, <2>5, <2>6, Zenon
  <2> QED
    BY <2>0, <2>7 DEF P
<1>3. P \in SUBSET Nat
  OBVIOUS
<1>4. \A k \in 0 .. n : k \in P
  <2> HIDE DEF P
  <2> QED
    BY <1>1, <1>2, <1>3, AllUpTo, Zenon
<1> QED
  BY <1>4

\* Longer blocks, or more of them, make it no shorter.
LEMMA FlattenLonger ==
  ASSUME NEW S, NEW s \in Seq(Seq(S)), NEW t \in Seq(Seq(S)), Len(s) <= Len(t),
         \A i \in 1 .. Len(s) : Len(s[i]) <= Len(t[i])
  PROVE  Len(FlattenSeq(s)) <= Len(FlattenSeq(t))
<1>1. PICK m \in Nat, A \in [Nat -> Nat], E \in [Nat -> Nat] : Sums(s, m, A, E)
  BY BlockLengths, Zenon
<1>2. PICK n \in Nat, B \in [Nat -> Nat], F \in [Nat -> Nat] : Sums(t, n, B, F)
  BY BlockLengths, Zenon
<1>3. m <= n /\ \A i \in 1 .. m : i \in 1 .. n /\ Len(s[i]) <= Len(t[i])
  BY <1>1, <1>2 DEF Sums
<1>4. \A i \in 1 .. m : E[i] <= F[i]
  BY <1>1, <1>2, <1>3, Zenon DEF Sums
<1>5. \A i \in 1 .. m : A[i] = A[i - 1] + E[i]
  BY <1>1, Zenon DEF Sums
<1>6. \A i \in 1 .. n : B[i] = B[i - 1] + F[i]
  BY <1>2, Zenon DEF Sums
<1>7. A[m] <= B[n]
  BY <1>1, <1>2, <1>3, <1>4, <1>5, <1>6, SumsCompare, Zenon DEF Sums
<1> QED
  BY <1>1, <1>2, <1>7, Zenon DEF Sums

LEMMA ValuesFinite ==
  ASSUME NEW S, NEW s \in Seq(S)
  PROVE  IsFiniteSet(ToSet(s)) /\ ToSet(s) \in SUBSET S /\ \A i \in DOMAIN s : s[i] \in ToSet(s)
<1>1. PICK n \in Nat : DOMAIN s = 1 .. n /\ s \in [1 .. n -> S]
  OBVIOUS
<1>2. ToSet(s) = {s[i] : i \in 1 .. n}
  BY <1>1, Zenon DEF ToSet
<1>3. s \in [1 .. n -> ToSet(s)]
  BY <1>1, <1>2
<1>4. s \in Surjection(1 .. n, ToSet(s))
  BY <1>2, <1>3 DEF Surjection
<1>5. IsFiniteSet(1 .. n)
  BY FS_Interval
<1>6. IsFiniteSet(ToSet(s))
  BY <1>4, <1>5, FS_Surjection
<1> QED
  BY <1>1, <1>2, <1>6

\* An arrangement is a list of what it arranges, each once.
LEMMA ArrangeTyped ==
  ASSUME NEW X, NEW ids \in Seq(X), NEW all \in SUBSET Nat, IsFiniteSet(all)
  PROVE  /\ Arrange(ids, all) \in Seq(all)
         /\ \A x \in all : \E n \in DOMAIN Arrange(ids, all) : Arrange(ids, all)[n] = x
         /\ \A m, n \in DOMAIN Arrange(ids, all) : m < n => Before(ids, Arrange(ids, all)[m], Arrange(ids, all)[n])
<1>1. PICK len \in Nat : DOMAIN ids = 1 .. len
  OBVIOUS
<1>2. /\ Cardinality(all) \in Nat
      /\ Arrange(ids, all) \in [1 .. Cardinality(all) -> all]
      /\ \A x \in all : \E n \in 1 .. Cardinality(all) : Arrange(ids, all)[n] = x
      /\ \A m, n \in 1 .. Cardinality(all) : m < n => Before(ids, Arrange(ids, all)[m], Arrange(ids, all)[n])
  BY <1>1, ArrangeIsOrder, Zenon
<1>3. PICK size, A : size \in Nat /\ size = Cardinality(all) /\ A = Arrange(ids, all) /\ A \in [1 .. size -> all]
  BY <1>2, Zenon
<1>4. A \in Seq(all) /\ DOMAIN A = 1 .. size
  BY <1>3
<1> QED
  BY <1>2, <1>3, <1>4, Zenon

LEMMA SmallerFirst == \A a, b \in Nat : Before(<<>>, a, b) <=> a < b
<1> SUFFICES ASSUME NEW a \in Nat, NEW b \in Nat PROVE Before(<<>>, a, b) <=> a < b
  OBVIOUS
<1>1. DOMAIN <<>> = {}
  OBVIOUS
<1>2. \A x : {i \in DOMAIN <<>> : <<>>[i] = x} = {}
  BY <1>1
<1>3. ~Ahead(<<>>, a, b) /\ ~Ahead(<<>>, b, a)
  BY <1>2, Zenon DEF Ahead
<1> QED
  BY <1>3, Zenon DEF Before

\* The positions of the entries that are kept.
Keeps(s, I, m, at) ==
  /\ at \in [1 .. m -> I] /\ Entries(s, I) = [n \in 1 .. m |-> s[at[n]]]
  /\ \A i \in I : \E n \in 1 .. m : at[n] = i
  /\ \A p, q \in 1 .. m : p < q => at[p] < at[q]

LEMMA EntriesOf ==
  ASSUME NEW S, NEW s \in Seq(S), NEW I \in SUBSET DOMAIN s
  PROVE  \E m \in Nat : \E at : Keeps(s, I, m, at) /\ at = Arrange(<<>>, I)
<1>1. I \in SUBSET Nat /\ IsFiniteSet(I)
  <2>1. IsFiniteSet(DOMAIN s) /\ DOMAIN s \in SUBSET Nat
    BY FS_Interval
  <2>2. IsFiniteSet(I)
    BY <2>1, FS_Subset
  <2> QED
    BY <2>1, <2>2
<1>2. <<>> \in Seq(Nat)
  OBVIOUS
<1>3. PICK A : A = Arrange(<<>>, I)
  OBVIOUS
<1>4. /\ A \in Seq(I)
      /\ \A x \in I : \E n \in DOMAIN A : A[n] = x
      /\ \A m, n \in DOMAIN A : m < n => Before(<<>>, A[m], A[n])
  BY <1>1, <1>2, <1>3, ArrangeTyped, Zenon
<1>5. PICK m \in Nat : DOMAIN A = 1 .. m /\ A \in [1 .. m -> I]
  BY <1>4
<1>6. Entries(s, I) = [n \in 1 .. m |-> s[A[n]]]
  BY <1>3, <1>5, Zenon DEF Entries
<1>7. \A p, q \in 1 .. m : p < q => A[p] < A[q]
  <2> SUFFICES ASSUME NEW p \in 1 .. m, NEW q \in 1 .. m, p < q PROVE A[p] < A[q]
    OBVIOUS
  <2>1. A[p] \in Nat /\ A[q] \in Nat
    BY <1>1, <1>5
  <2>2. Before(<<>>, A[p], A[q])
    BY <1>4, <1>5
  <2> QED
    BY <2>1, <2>2, SmallerFirst
<1>8. Keeps(s, I, m, A)
  BY <1>4, <1>5, <1>6, <1>7, Zenon DEF Keeps
<1> QED
  BY <1>3, <1>8, Zenon

LEMMA EntriesTyped ==
  ASSUME NEW S, NEW s \in Seq(S), NEW I \in SUBSET DOMAIN s
  PROVE  Entries(s, I) \in Seq(S)
<1>0. \E m \in Nat : \E at : Keeps(s, I, m, at)
  BY EntriesOf, Zenon
<1>3. PICK m \in Nat : \E at : Keeps(s, I, m, at)
  BY <1>0, Zenon
<1>1. PICK at \in [1 .. m -> I] : Entries(s, I) = [n \in 1 .. m |-> s[at[n]]]
  BY <1>3, Zenon DEF Keeps
<1>2. \A n \in 1 .. m : s[at[n]] \in S
  OBVIOUS
<1>4. Entries(s, I) \in [1 .. m -> S]
  BY <1>1, <1>2
<1> QED
  BY <1>4

-----------------------------------------------------------------------------
(* What the core keeps, what it is asked and what it tells.                *)

GroupNumbers == 1 .. MaxGid
Refs == Nat \X Nat
Profile == [id : Nat, hit : BOOLEAN, ver : Nat]
Group == [id : Nat, ps : Seq(Profile)]
Database == [order : Seq(GroupNumbers), ps : [GroupNumbers -> Seq(Profile)], last : [GroupNumbers -> Nat], glast : GroupNumbers, conn : Refs]

Request ==
  [k : {"add", "refresh", "delgroup", "addgroup"}, g : Nat]
    \cup [k : {"delete", "rename", "delgroup", "connect", "details"}, g : Nat, id : Nat]
    \cup [k : {"delete", "rename", "move"}, g : Nat, id : Nat, to : Nat]
    \cup [k : {"reorder"}, g : Nat, ids : Seq(Nat)] \cup [k : {"groups"}, ids : Seq(Nat)] \cup [k : {"state"}]
Event ==
  [k : {"warn"}] \cup [k : {"added", "updated"}, g : Nat, p : Profile] \cup [k : {"deleted"}, g : Nat, id : Nat]
    \cup [k : {"moved"}, g : Nat, id : Nat, to : Nat, p : Profile]
    \cup [k : {"reordered"}, g : Nat, ids : Seq(Nat)] \cup [k : {"groups"}, ids : Seq(Nat)]
    \cup [k : {"groupadded", "groupdeleted"}, g : Nat] \cup [k : {"subscription"}, g : Nat, ps : Seq(Profile)]
    \cup [k : {"status"}, ref : Refs] \cup [k : {"state"}, groups : Seq(Group), ref : Refs]
    \cup [k : {"details"}, g : Nat, id : Nat, ver : Nat]

LEMMA RequestParts ==
  ASSUME NEW r \in Request
  PROVE  /\ r.k \in {"add", "refresh", "delgroup", "addgroup", "delete", "rename", "connect", "details", "move",
                     "reorder", "groups", "state"}
         /\ r.k \notin {"groups", "state"} => r.g \in Nat
         /\ r.k \in {"delete", "rename", "connect", "details", "move"} => r.id \in Nat
         /\ r.k = "move" => r.to \in Nat
         /\ r.k \in {"reorder", "groups"} => r.ids \in Seq(Nat)
  BY DEF Request

LEMMA FindTyped ==
  ASSUME NEW ps \in Seq(Profile), NEW id, \E i \in DOMAIN ps : ps[i].id = id
  PROVE  Find(ps, id) \in Profile /\ Find(ps, id).id = id
<1> DEFINE j == CHOOSE i \in DOMAIN ps : ps[i].id = id
<1>1. j \in DOMAIN ps /\ ps[j].id = id
  OBVIOUS
<1>2. Find(ps, id) = ps[j]
  BY Zenon DEF Find
<1> HIDE DEF j
<1>3. ps[j] \in Profile
  BY <1>1
<1> QED
  BY <1>1, <1>2, <1>3, Zenon

LEMMA ProfileParts ==
  ASSUME NEW p \in Profile
  PROVE  /\ p.id \in Nat /\ p.hit \in BOOLEAN /\ p.ver \in Nat
         /\ [p EXCEPT !.hit = ~@] \in Profile /\ [p EXCEPT !.ver = @ + 1] \in Profile
         /\ \A n \in Nat : [p EXCEPT !.id = n] \in Profile /\ [p EXCEPT !.id = n].id = n
         /\ [p EXCEPT !.hit = ~@].id = p.id /\ [p EXCEPT !.ver = @ + 1].id = p.id
<1>1. p.id \in Nat /\ p.hit \in BOOLEAN /\ p.ver \in Nat
  BY DEF Profile
<1>2. PICK n \in BOOLEAN : n = ~p.hit
  BY Zenon
<1>3. [p EXCEPT !.hit = ~@] = [p EXCEPT !.hit = n]
  BY <1>2, Zenon
<1>4. [p EXCEPT !.hit = n] \in Profile /\ [p EXCEPT !.hit = n].id = p.id
  BY DEF Profile
<1>5. [p EXCEPT !.ver = @ + 1] \in Profile /\ [p EXCEPT !.ver = @ + 1].id = p.id
  BY DEF Profile
<1>6. \A m \in Nat : [p EXCEPT !.id = m] \in Profile /\ [p EXCEPT !.id = m].id = m
  BY DEF Profile
<1> QED
  BY <1>1, <1>3, <1>4, <1>5, <1>6, Zenon

LEMMA NewTyped == \A n \in Nat : Prof(n, 1) \in Profile /\ Prof(n, 1).id = n
  BY DEF Prof, Profile

LEMMA WithoutTyped == ASSUME NEW ps \in Seq(Profile), NEW id PROVE Without(ps, id) \in Seq(Profile)
<1>1. {i \in DOMAIN ps : ps[i].id # id} \in SUBSET DOMAIN ps
  OBVIOUS
<1> QED
  BY <1>1, EntriesTyped DEF Without

LEMMA IdsTyped == ASSUME NEW ps \in Seq(Profile)
                  PROVE  /\ Ids(ps) \in Seq(Nat) /\ {p.id : p \in ToSet(ps)} = ToSet(Ids(ps))
                         /\ DOMAIN Ids(ps) = DOMAIN ps
<1>1. PICK n \in Nat : DOMAIN ps = 1 .. n /\ ps \in [1 .. n -> Profile]
  OBVIOUS
<1>2. Ids(ps) = [i \in 1 .. n |-> ps[i].id]
  BY <1>1, Zenon DEF Ids
<1>3. \A i \in 1 .. n : ps[i].id \in Nat
  BY <1>1, ProfileParts, Zenon
<1>4. Ids(ps) \in Seq(Nat) /\ DOMAIN Ids(ps) = 1 .. n
  BY <1>2, <1>3
<1>5. ToSet(ps) = {ps[i] : i \in 1 .. n} /\ ToSet(Ids(ps)) = {ps[i].id : i \in 1 .. n}
  BY <1>1, <1>2, <1>4 DEF ToSet
<1> QED
  BY <1>1, <1>4, <1>5

LEMMA ArrangedTyped ==
  ASSUME NEW ps \in Seq(Profile), NEW ids \in Seq(Nat)
  PROVE  ArrangeProfiles(ps, ids) \in Seq(Profile)
<1> DEFINE all == {p.id : p \in ToSet(ps)}
<1>1. all = ToSet(Ids(ps)) /\ Ids(ps) \in Seq(Nat) /\ DOMAIN Ids(ps) = DOMAIN ps
  BY IdsTyped
<1>2. IsFiniteSet(all) /\ all \in SUBSET Nat
  BY <1>1, ValuesFinite, Zenon
<1>3. PICK line : line = Arrange(ids, all)
  BY Zenon
<1>4. line \in Seq(all)
  BY <1>2, <1>3, ArrangeTyped, Zenon
<1>5. ArrangeProfiles(ps, ids) = [i \in DOMAIN line |-> Find(ps, line[i])]
  BY <1>3, Zenon DEF ArrangeProfiles
<1>6. \A x \in all : \E i \in DOMAIN ps : ps[i].id = x
  BY DEF ToSet
<1> HIDE DEF all
<1>7. \A i \in DOMAIN line : Find(ps, line[i]) \in Profile
  BY <1>4, <1>6, FindTyped
<1> QED
  BY <1>4, <1>5, <1>7

LEMMA SnapshotTyped ==
  ASSUME NEW d \in Database
  PROVE  Snapshot(d) \in Seq(Group) /\ DOMAIN Snapshot(d) = DOMAIN d.order
<1>1. d.order \in Seq(GroupNumbers) /\ d.ps \in [GroupNumbers -> Seq(Profile)]
  BY DEF Database
<1>2. PICK n \in Nat : DOMAIN d.order = 1 .. n
  BY <1>1
<1>3. ASSUME NEW i \in 1 .. n PROVE [id |-> d.order[i], ps |-> d.ps[d.order[i]]] \in Group
  <2>1. d.order[i] \in GroupNumbers /\ d.order[i] \in Nat
    BY <1>1, <1>2, TreeAssumption DEF GroupNumbers
  <2>2. d.ps[d.order[i]] \in Seq(Profile)
    BY <1>1, <2>1
  <2> HIDE DEF Profile
  <2> QED
    BY <2>1, <2>2 DEF Group
<1>4. Snapshot(d) = [i \in 1 .. n |-> [id |-> d.order[i], ps |-> d.ps[d.order[i]]]]
  BY <1>2, Zenon DEF Snapshot
<1> HIDE DEF Group
<1>5. Snapshot(d) \in [1 .. n -> Group]
  BY <1>3, <1>4
<1> QED
  BY <1>2, <1>5

LEMMA DatabaseParts ==
  ASSUME NEW d \in Database
  PROVE  /\ d.order \in Seq(GroupNumbers) /\ d.ps \in [GroupNumbers -> Seq(Profile)] /\ d.last \in [GroupNumbers -> Nat]
         /\ d.glast \in GroupNumbers /\ d.conn \in Refs /\ GroupNumbers \in SUBSET Nat /\ GidsOf(d) \in SUBSET GroupNumbers /\ IsFiniteSet(GidsOf(d))
         /\ \A g \in GidsOf(d) : d.ps[g] \in Seq(Profile) /\ d.last[g] \in Nat
<1>1. /\ d.order \in Seq(GroupNumbers) /\ d.ps \in [GroupNumbers -> Seq(Profile)] /\ d.last \in [GroupNumbers -> Nat]
      /\ d.glast \in GroupNumbers /\ d.conn \in Refs
  BY DEF Database
<1>2. GroupNumbers \in SUBSET Nat
  BY TreeAssumption DEF GroupNumbers
<1>3. GidsOf(d) \in SUBSET GroupNumbers /\ IsFiniteSet(GidsOf(d))
  BY <1>1, ValuesFinite DEF GidsOf
<1>4. \A g \in GroupNumbers : d.ps[g] \in Seq(Profile) /\ d.last[g] \in Nat
  BY <1>1
<1> QED
  BY <1>1, <1>2, <1>3, <1>4, Zenon

LEMMA PsSet ==
  ASSUME NEW d \in Database, NEW g, NEW ps, g \in GroupNumbers => ps \in Seq(Profile)
  PROVE  [d EXCEPT !.ps[g] = ps] \in Database
<1>1. [d.ps EXCEPT ![g] = ps] \in [GroupNumbers -> Seq(Profile)]
  <2>1. d.ps \in [GroupNumbers -> Seq(Profile)]
    BY DatabaseParts
  <2> QED
    BY <2>1, Zenon
<1>2. PICK f \in [GroupNumbers -> Seq(Profile)] : f = [d.ps EXCEPT ![g] = ps]
  BY <1>1, Zenon
<1>3. [d EXCEPT !.ps[g] = ps] = [d EXCEPT !.ps = f]
  BY <1>2
<1>4. [d EXCEPT !.ps = f] \in Database
  BY Zenon DEF Database
<1> QED
  BY <1>3, <1>4

LEMMA LastSet ==
  ASSUME NEW d \in Database, NEW g, NEW n \in Nat
  PROVE  [d EXCEPT !.last[g] = n] \in Database
<1>1. [d.last EXCEPT ![g] = n] \in [GroupNumbers -> Nat]
  <2>1. d.last \in [GroupNumbers -> Nat]
    BY DatabaseParts
  <2> QED
    BY <2>1, Zenon
<1>2. PICK f \in [GroupNumbers -> Nat] : f = [d.last EXCEPT ![g] = n]
  BY <1>1, Zenon
<1>3. [d EXCEPT !.last[g] = n] = [d EXCEPT !.last = f]
  BY <1>2
<1>4. [d EXCEPT !.last = f] \in Database
  BY Zenon DEF Database
<1> QED
  BY <1>3, <1>4

LEMMA OthersSet ==
  ASSUME NEW d \in Database
  PROVE  /\ \A s \in Seq(GroupNumbers) : [d EXCEPT !.order = s] \in Database
         /\ \A n \in GroupNumbers : [d EXCEPT !.glast = n] \in Database
         /\ \A r \in Refs : [d EXCEPT !.conn = r] \in Database
  BY Zenon DEF Database

LEMMA NoneTyped == ASSUME NEW S PROVE <<>> \in Seq(S)
  OBVIOUS

LEMMA AppendParts ==
  ASSUME NEW S, NEW s \in Seq(S), NEW x \in S
  PROVE  Append(s, x) \in Seq(S) /\ Len(Append(s, x)) = Len(s) + 1 /\ Len(s) \in Nat
  OBVIOUS

LEMMA EventMade ==
  /\ [k |-> "warn"] \in Event
  /\ \A g \in Nat : [k |-> "groupadded", g |-> g] \in Event /\ [k |-> "groupdeleted", g |-> g] \in Event
  /\ \A g, i \in Nat : [k |-> "deleted", g |-> g, id |-> i] \in Event
  /\ \A g \in Nat, p \in Profile : /\ [k |-> "added", g |-> g, p |-> p] \in Event
                                  /\ [k |-> "updated", g |-> g, p |-> p] \in Event
  /\ \A g, i, t \in Nat, p \in Profile : [k |-> "moved", g |-> g, id |-> i, to |-> t, p |-> p] \in Event
  /\ \A g \in Nat, ids \in Seq(Nat) : [k |-> "reordered", g |-> g, ids |-> ids] \in Event
  /\ \A ids \in Seq(Nat) : [k |-> "groups", ids |-> ids] \in Event
  /\ \A g \in Nat, ps \in Seq(Profile) : [k |-> "subscription", g |-> g, ps |-> ps] \in Event
  /\ \A r \in Refs : [k |-> "status", ref |-> r] \in Event
  /\ \A gs \in Seq(Group), r \in Refs : [k |-> "state", groups |-> gs, ref |-> r] \in Event
  /\ \A g, i, v \in Nat : [k |-> "details", g |-> g, id |-> i, ver |-> v] \in Event
  BY DEF Event

LEMMA AddTyped ==
  ASSUME NEW d \in Database, NEW g \in GidsOf(d)
  PROVE  AddProfiles(d, g).db \in Database /\ AddProfiles(d, g).ev \in Event
<1>1. d.ps[g] \in Seq(Profile) /\ d.last[g] \in Nat /\ g \in Nat
  BY DatabaseParts
<1>2. PICK p \in Profile : p = Prof(d.last[g] + 1, 1) /\ p.id \in Nat
  BY <1>1, NewTyped, ProfileParts
<1>3. PICK e : e = [d EXCEPT !.last[g] = p.id]
  BY Zenon
<1>4. e \in Database /\ e.ps = d.ps
  BY <1>2, <1>3, LastSet, Zenon DEF Database
<1>5. PICK ps \in Seq(Profile) : ps = Append(d.ps[g], p)
  BY <1>1, AppendParts, Zenon
<1>6. AddProfiles(d, g) = Done([e EXCEPT !.ps[g] = ps], [k |-> "added", g |-> g, p |-> p])
  BY <1>2, <1>3, <1>4, <1>5 DEF AddProfiles
<1>7. [k |-> "added", g |-> g, p |-> p] \in Event
  BY <1>1, EventMade, Zenon
<1>8. [e EXCEPT !.ps[g] = ps] \in Database
  BY <1>4, PsSet, Zenon
<1> QED
  BY <1>6, <1>7, <1>8 DEF Done

LEMMA DeleteTyped ==
  ASSUME NEW d \in Database, NEW g \in Nat, NEW id \in Nat
  PROVE  DeleteProfiles(d, g, id).db \in Database /\ DeleteProfiles(d, g, id).ev \in Event
<1>1. PICK ps : ps = Without(d.ps[g], id)
  OBVIOUS
<1>2. g \in GroupNumbers => ps \in Seq(Profile)
  <2>1. d.ps \in [GroupNumbers -> Seq(Profile)]
    BY DatabaseParts
  <2> QED
    BY <1>1, <2>1, WithoutTyped
<1>3. [d EXCEPT !.ps[g] = ps] \in Database
  BY <1>2, PsSet, Zenon
<1>4. DeleteProfiles(d, g, id) = Done([d EXCEPT !.ps[g] = ps], [k |-> "deleted", g |-> g, id |-> id])
  BY <1>1 DEF DeleteProfiles
<1> QED
  BY <1>3, <1>4, EventMade DEF Done

LEMMA UpdateTyped ==
  ASSUME NEW d \in Database, NEW g \in Nat, NEW id \in Nat, Has(d, g, id)
  PROVE  UpdateProfile(d, g, id).db \in Database /\ UpdateProfile(d, g, id).ev \in Event
<1>1. d.ps[g] \in Seq(Profile) /\ g \in Nat /\ \E i \in DOMAIN d.ps[g] : d.ps[g][i].id = id
  BY DatabaseParts DEF Has
<1>2. Find(d.ps[g], id) \in Profile
  BY <1>1, FindTyped
<1>3. PICK p \in Profile : p = [Find(d.ps[g], id) EXCEPT !.hit = ~@]
  BY <1>2, ProfileParts, Zenon
<1>4. PICK ps : ps = [i \in DOMAIN d.ps[g] |-> IF d.ps[g][i].id = id THEN p ELSE d.ps[g][i]]
  BY Zenon
<1>5. ps \in Seq(Profile)
  <2>1. PICK s \in Seq(Profile) : s = d.ps[g]
    BY <1>1, Zenon
  <2>2. PICK n \in Nat : DOMAIN s = 1 .. n
    OBVIOUS
  <2>3. ps = [i \in 1 .. n |-> IF s[i].id = id THEN p ELSE s[i]]
    BY <1>4, <2>1, <2>2, Zenon
  <2>4. \A i \in 1 .. n : s[i] \in Profile
    BY <2>2
  <2> HIDE DEF Profile
  <2>5. ps \in [1 .. n -> Profile]
    BY <2>3, <2>4
  <2> QED
    BY <2>5
<1>6. [d EXCEPT !.ps[g] = ps] \in Database
  BY <1>5, PsSet, Zenon
<1>7. UpdateProfile(d, g, id) = Done([d EXCEPT !.ps[g] = ps], [k |-> "updated", g |-> g, p |-> p])
  BY <1>3, <1>4, Zenon DEF UpdateProfile
<1>8. [k |-> "updated", g |-> g, p |-> p] \in Event
  BY EventMade, Zenon
<1> QED
  BY <1>6, <1>7, <1>8 DEF Done

LEMMA MoveTyped ==
  ASSUME NEW d \in Database, NEW g \in Nat, NEW id \in Nat, Has(d, g, id), NEW to \in GidsOf(d) \ {g}
  PROVE  MoveProfile(d, g, id, to).db \in Database /\ MoveProfile(d, g, id, to).ev \in Event
<1>1. d.ps[g] \in Seq(Profile) /\ \E i \in DOMAIN d.ps[g] : d.ps[g][i].id = id
  BY DatabaseParts DEF Has
<1>2. Find(d.ps[g], id) \in Profile /\ to \in Nat /\ to \in GroupNumbers /\ d.last[to] + 1 \in Nat /\ d.ps[to] \in Seq(Profile)
  BY <1>1, FindTyped, DatabaseParts
<1>3. PICK p \in Profile : p = [Find(d.ps[g], id) EXCEPT !.id = d.last[to] + 1] /\ p.id \in Nat
  <2>1. PICK q \in Profile, n \in Nat : q = Find(d.ps[g], id) /\ n = d.last[to] + 1
    BY <1>2, Zenon
  <2>2. [q EXCEPT !.id = n] \in Profile /\ [q EXCEPT !.id = n].id = n
    BY ProfileParts, Zenon
  <2> QED
    BY <2>1, <2>2, Zenon
<1>4. PICK ps \in Seq(Profile), qs \in Seq(Profile) : ps = Without(d.ps[g], id) /\ qs = Append(d.ps[to], p)
  BY <1>1, <1>2, <1>3, WithoutTyped, AppendParts, Zenon
<1>5. PICK c : c = IF d.conn = <<g, id>> THEN <<to, p.id>> ELSE d.conn
  BY Zenon
<1>6. c \in Refs
  BY <1>2, <1>3, <1>5, DatabaseParts DEF Refs
<1>7. PICK d1 : d1 = [d EXCEPT !.ps[g] = ps]
  BY Zenon
<1>8. d1 \in Database
  BY <1>7, PsSet, Zenon
<1>9. PICK d2 : d2 = [d1 EXCEPT !.ps[to] = qs]
  BY Zenon
<1>10. d2 \in Database
  BY <1>8, <1>9, PsSet, Zenon
<1>11. PICK d3 : d3 = [d2 EXCEPT !.last[to] = p.id]
  BY Zenon
<1>12. d3 \in Database
  BY <1>3, <1>10, <1>11, LastSet, Zenon
<1>13. [d3 EXCEPT !.conn = c] \in Database
  BY <1>6, <1>12, OthersSet
<1>14. MoveProfile(d, g, id, to) =
         Done([d EXCEPT !.ps[g] = Without(@, id), !.ps[to] = Append(@, p), !.last[to] = p.id,
                        !.conn = IF @ = <<g, id>> THEN <<to, p.id>> ELSE @],
              [k |-> "moved", g |-> g, id |-> id, to |-> to, p |-> p])
  BY <1>3 DEF MoveProfile
<1>15. [d EXCEPT !.ps[g] = Without(@, id), !.ps[to] = Append(@, p), !.last[to] = p.id,
                 !.conn = IF @ = <<g, id>> THEN <<to, p.id>> ELSE @] = [d3 EXCEPT !.conn = c]
  <2>1. d1.ps[to] = d.ps[to] /\ d2.conn = d.conn /\ d3.conn = d.conn
    BY <1>7, <1>9, <1>11, DatabaseParts DEF Database
  <2> QED
    BY <1>4, <1>5, <1>7, <1>9, <1>11, <2>1 DEF Database
<1> QED
  BY <1>2, <1>13, <1>14, <1>15, EventMade DEF Done

LEMMA ReorderTyped ==
  ASSUME NEW d \in Database, NEW g \in GidsOf(d), NEW ids \in Seq(Nat)
  PROVE  ReorderProfiles(d, g, ids).db \in Database /\ ReorderProfiles(d, g, ids).ev \in Event
<1>1. d.ps[g] \in Seq(Profile) /\ g \in Nat
  BY DatabaseParts
<1>2. PICK ps \in Seq(Profile) : ps = ArrangeProfiles(d.ps[g], ids)
  BY <1>1, ArrangedTyped
<1>3. [d EXCEPT !.ps[g] = ps] \in Database
  BY PsSet, Zenon
<1>4. ReorderProfiles(d, g, ids) = Done([d EXCEPT !.ps[g] = ps], [k |-> "reordered", g |-> g, ids |-> ids])
  BY <1>2 DEF ReorderProfiles
<1> QED
  BY <1>1, <1>3, <1>4, EventMade DEF Done

LEMMA GroupsTyped ==
  ASSUME NEW d \in Database, NEW ids \in Seq(Nat)
  PROVE  ReorderGroups(d, ids).db \in Database /\ ReorderGroups(d, ids).ev \in Event
<1>1. GidsOf(d) \in SUBSET GroupNumbers /\ GidsOf(d) \in SUBSET Nat /\ IsFiniteSet(GidsOf(d))
  BY DatabaseParts
<1>2. Arrange(ids, GidsOf(d)) \in Seq(GidsOf(d))
  BY <1>1, ArrangeTyped
<1>3. PICK line \in Seq(GroupNumbers) : line = Arrange(ids, GidsOf(d))
  BY <1>1, <1>2
<1>4. [d EXCEPT !.order = line] \in Database
  BY OthersSet
<1>5. ReorderGroups(d, ids) = Done([d EXCEPT !.order = line], [k |-> "groups", ids |-> ids])
  BY <1>3 DEF ReorderGroups
<1> QED
  BY <1>4, <1>5, EventMade DEF Done

LEMMA AddGroupTyped ==
  ASSUME NEW d \in Database, d.glast < MaxGid
  PROVE  AddGroup(d).db \in Database /\ AddGroup(d).ev \in Event
<1>1. d.glast \in GroupNumbers /\ d.order \in Seq(GroupNumbers)
  BY DatabaseParts
<1>2. PICK g \in GroupNumbers : g = d.glast + 1 /\ g \in Nat
  BY <1>1, TreeAssumption DEF GroupNumbers
<1>3. PICK line \in Seq(GroupNumbers) : line = Append(d.order, g)
  BY <1>1, AppendParts, Zenon
<1>4. PICK d1 : d1 = [d EXCEPT !.glast = g]
  BY Zenon
<1>5. d1 \in Database
  BY <1>4, OthersSet
<1>6. PICK d2 : d2 = [d1 EXCEPT !.order = line]
  BY Zenon
<1>7. d2 \in Database
  BY <1>5, <1>6, OthersSet
<1>8. [d2 EXCEPT !.ps[g] = <<>>] \in Database
  <2>1. PICK none : none = <<>> /\ none \in Seq(Profile)
    BY NoneTyped, Zenon
  <2>2. [d2 EXCEPT !.ps[g] = none] \in Database
    BY <1>7, <2>1, PsSet, Zenon
  <2> QED
    BY <2>1, <2>2, Zenon
<1>9. AddGroup(d) = Done([d EXCEPT !.glast = g, !.order = Append(@, g), !.ps[g] = <<>>], [k |-> "groupadded", g |-> g])
  BY <1>2 DEF AddGroup
<1>10. [d EXCEPT !.glast = g, !.order = Append(@, g), !.ps[g] = <<>>] = [d2 EXCEPT !.ps[g] = <<>>]
  BY <1>3, <1>4, <1>6 DEF Database
<1>11. [d EXCEPT !.glast = g, !.order = Append(@, g), !.ps[g] = <<>>] \in Database
  BY <1>8, <1>10, Zenon
<1>12. [k |-> "groupadded", g |-> g] \in Event
  BY <1>2, EventMade, Zenon
<1> QED
  BY <1>9, <1>11, <1>12 DEF Done

LEMMA DeleteGroupTyped ==
  ASSUME NEW d \in Database, NEW g \in Nat
  PROVE  DropGroup(d, g).db \in Database /\ DropGroup(d, g).ev \in Event
<1>1. {i \in DOMAIN d.order : d.order[i] # g} \in SUBSET DOMAIN d.order /\ d.order \in Seq(GroupNumbers)
  BY DatabaseParts
<1>2. PICK line \in Seq(GroupNumbers) : line = Entries(d.order, {i \in DOMAIN d.order : d.order[i] # g})
  BY <1>1, EntriesTyped, Zenon
<1>3. PICK d1 : d1 = [d EXCEPT !.order = line]
  BY Zenon
<1>4. d1 \in Database
  BY <1>3, OthersSet
<1>5. [d1 EXCEPT !.ps[g] = <<>>] \in Database
  <2>1. PICK none : none = <<>> /\ none \in Seq(Profile)
    BY NoneTyped, Zenon
  <2>2. [d1 EXCEPT !.ps[g] = none] \in Database
    BY <1>4, <2>1, PsSet, Zenon
  <2> QED
    BY <2>1, <2>2, Zenon
<1>6. DropGroup(d, g) = Done([d EXCEPT !.order = line, !.ps[g] = <<>>], [k |-> "groupdeleted", g |-> g])
  BY <1>2 DEF DropGroup
<1>7. [d EXCEPT !.order = line, !.ps[g] = <<>>] = [d1 EXCEPT !.ps[g] = <<>>]
  BY <1>3 DEF Database
<1>8. [d EXCEPT !.order = line, !.ps[g] = <<>>] \in Database
  BY <1>5, <1>7, Zenon
<1>9. [k |-> "groupdeleted", g |-> g] \in Event
  BY EventMade, Zenon
<1> QED
  BY <1>6, <1>8, <1>9 DEF Done

LEMMA SubscriptionTyped ==
  ASSUME NEW d \in Database, NEW g \in GidsOf(d)
  PROVE  UpdateSubscription(d, g).db \in Database /\ UpdateSubscription(d, g).ev \in Event
<1>1. d.ps[g] \in Seq(Profile) /\ d.last[g] \in Nat /\ g \in Nat
  BY DatabaseParts
<1>2. PICK p : p = IF d.ps[g] = <<>> THEN Prof(d.last[g] + 1, 1) ELSE [d.ps[g][1] EXCEPT !.ver = @ + 1]
  BY Zenon
<1>3. p \in Profile /\ p.id \in Nat
  <2>1. CASE d.ps[g] = <<>>
    BY <1>1, <1>2, <2>1, NewTyped, ProfileParts
  <2>2. CASE d.ps[g] # <<>>
    <3>1. PICK s \in Seq(Profile) : s = d.ps[g]
      BY <1>1, Zenon
    <3>2. s # <<>>
      BY <2>2, <3>1, Zenon
    <3>3. s[1] \in Profile
      BY <3>2
    <3>4. [s[1] EXCEPT !.ver = @ + 1] \in Profile
      BY <3>3, ProfileParts, Zenon
    <3> QED
      BY <1>2, <2>2, <3>1, <3>4, ProfileParts, Zenon
  <2> QED
    BY <2>1, <2>2
<1>4. PICK ps \in Seq(Profile) : ps = <<p>> /\ ps[1] = p
  <2>1. <<p>> \in Seq(Profile) /\ <<p>>[1] = p
    BY <1>3
  <2> QED
    BY <2>1, Zenon
<1>5. UpdateSubscription(d, g) =
        Done([d EXCEPT !.ps[g] = ps, !.last[g] = IF ps[1].id > @ THEN ps[1].id ELSE @],
             [k |-> "subscription", g |-> g, ps |-> ps])
  <2>1. ps = IF d.ps[g] = <<>> THEN <<Prof(d.last[g] + 1, 1)>> ELSE <<[d.ps[g][1] EXCEPT !.ver = @ + 1]>>
    BY <1>2, <1>4
  <2> QED
    BY <2>1 DEF UpdateSubscription
<1>6. PICK n \in Nat : n = IF ps[1].id > d.last[g] THEN ps[1].id ELSE d.last[g]
  BY <1>1, <1>3, <1>4
<1>7. PICK d1 : d1 = [d EXCEPT !.ps[g] = ps]
  BY Zenon
<1>8. d1 \in Database
  BY <1>7, PsSet, Zenon
<1>9. [d1 EXCEPT !.last[g] = n] \in Database
  BY <1>8, LastSet, Zenon
<1>10. UpdateSubscription(d, g) = Done([d1 EXCEPT !.last[g] = n], [k |-> "subscription", g |-> g, ps |-> ps])
  BY <1>5, <1>6, <1>7 DEF Database
<1> QED
  BY <1>1, <1>9, <1>10, EventMade DEF Done

LEMMA DetailsTyped ==
  ASSUME NEW d \in Database, NEW g \in Nat, NEW id \in Nat
  PROVE  GetProfileDetails(d, g, id).db = d /\ GetProfileDetails(d, g, id).ev \in Event
<1>1. PICK v : v = IF Has(d, g, id) THEN Find(d.ps[g], id).ver ELSE 0
  OBVIOUS
<1>2. v \in Nat
  <2>1. CASE Has(d, g, id)
    <3>1. d.ps[g] \in Seq(Profile) /\ \E i \in DOMAIN d.ps[g] : d.ps[g][i].id = id
      BY <2>1, DatabaseParts DEF Has
    <3>2. Find(d.ps[g], id) \in Profile
      BY <3>1, FindTyped
    <3> QED
      BY <1>1, <2>1, <3>2, ProfileParts, Zenon
  <2> QED
    BY <1>1, <2>1
<1>3. GetProfileDetails(d, g, id) = Done(d, [k |-> "details", g |-> g, id |-> id, ver |-> v])
  BY <1>1, Zenon DEF GetProfileDetails
<1> QED
  BY <1>2, <1>3, EventMade DEF Done

ExecCase(d, r, x) ==
  \/ r.k = "add" /\ r.g \in GidsOf(d) /\ x = AddProfiles(d, r.g)
  \/ r.k = "delete" /\ x = DeleteProfiles(d, r.g, r.id)
  \/ r.k = "rename" /\ Has(d, r.g, r.id) /\ x = UpdateProfile(d, r.g, r.id)
  \/ r.k = "move" /\ Has(d, r.g, r.id) /\ r.to \in GidsOf(d) \ {r.g} /\ x = MoveProfile(d, r.g, r.id, r.to)
  \/ r.k = "reorder" /\ r.g \in GidsOf(d) /\ x = ReorderProfiles(d, r.g, r.ids)
  \/ r.k = "groups" /\ x = ReorderGroups(d, r.ids)
  \/ r.k = "addgroup" /\ d.glast < MaxGid /\ x = AddGroup(d)
  \/ r.k = "delgroup" /\ x = DropGroup(d, r.g)
  \/ r.k = "refresh" /\ r.g \in GidsOf(d) /\ x = UpdateSubscription(d, r.g)
  \/ r.k = "connect" /\ Has(d, r.g, r.id) /\ x = Done([d EXCEPT !.conn = <<r.g, r.id>>], [k |-> "status", ref |-> <<r.g, r.id>>])
  \/ r.k = "state" /\ x = Done(d, [k |-> "state", groups |-> Snapshot(d), ref |-> d.conn])
  \/ r.k = "details" /\ x = GetProfileDetails(d, r.g, r.id)
  \/ /\ x = Done(d, [k |-> "warn"])
     /\ r.k \notin {"groups", "state"} /\ (r.k = "reorder" => r.g \notin GidsOf(d))

LEMMA ExecIs == ASSUME NEW d, NEW r PROVE ExecCase(d, r, Exec(d, r))
  BY DEF Exec, ExecCase

LEMMA ExecTyped ==
  ASSUME NEW d \in Database, NEW r \in Request
  PROVE  Exec(d, r).db \in Database /\ Exec(d, r).ev \in Event
<1>1. PICK x : x = Exec(d, r) /\ ExecCase(d, r, x)
  BY ExecIs
<1>2. SUFFICES x.db \in Database /\ x.ev \in Event
  BY <1>1
<1>3. CASE r.k = "add" /\ r.g \in GidsOf(d) /\ x = AddProfiles(d, r.g)
  BY <1>3, AddTyped
<1>4. CASE r.k = "delete" /\ x = DeleteProfiles(d, r.g, r.id)
  BY <1>4, RequestParts, DeleteTyped
<1>5. CASE r.k = "rename" /\ Has(d, r.g, r.id) /\ x = UpdateProfile(d, r.g, r.id)
  BY <1>5, RequestParts, UpdateTyped
<1>6. CASE r.k = "move" /\ Has(d, r.g, r.id) /\ r.to \in GidsOf(d) \ {r.g} /\ x = MoveProfile(d, r.g, r.id, r.to)
  BY <1>6, RequestParts, MoveTyped
<1>7. CASE r.k = "reorder" /\ r.g \in GidsOf(d) /\ x = ReorderProfiles(d, r.g, r.ids)
  BY <1>7, RequestParts, ReorderTyped
<1>8. CASE r.k = "groups" /\ x = ReorderGroups(d, r.ids)
  BY <1>8, RequestParts, GroupsTyped
<1>9. CASE r.k = "addgroup" /\ d.glast < MaxGid /\ x = AddGroup(d)
  BY <1>9, AddGroupTyped
<1>10. CASE r.k = "delgroup" /\ x = DropGroup(d, r.g)
  BY <1>10, RequestParts, DeleteGroupTyped
<1>11. CASE r.k = "refresh" /\ r.g \in GidsOf(d) /\ x = UpdateSubscription(d, r.g)
  BY <1>11, SubscriptionTyped
<1>12. CASE r.k = "connect" /\ Has(d, r.g, r.id) /\ x = Done([d EXCEPT !.conn = <<r.g, r.id>>], [k |-> "status", ref |-> <<r.g, r.id>>])
  <2>1. <<r.g, r.id>> \in Refs
    BY <1>12, RequestParts DEF Refs
  <2> QED
    BY <1>12, <2>1, OthersSet, EventMade DEF Done
<1>13. CASE r.k = "state" /\ x = Done(d, [k |-> "state", groups |-> Snapshot(d), ref |-> d.conn])
  BY <1>13, SnapshotTyped, DatabaseParts, EventMade DEF Done
<1>14. CASE r.k = "details" /\ x = GetProfileDetails(d, r.g, r.id)
  BY <1>14, RequestParts, DetailsTyped
<1>15. CASE x = Done(d, [k |-> "warn"])
  BY <1>15, EventMade DEF Done
<1> QED
  BY <1>1, <1>3, <1>4, <1>5, <1>6, <1>7, <1>8, <1>9, <1>10, <1>11, <1>12, <1>13, <1>14, <1>15 DEF ExecCase

-----------------------------------------------------------------------------
(* The interface: its rows and its cursor.                                 *)

Popup == [k : {"none", "help", "tabs", "import", "addgroup", "rename", "delete", "delgroup", "editsub"}, g : Nat, id : Nat]
Triples == Nat \X Nat \X Nat
Interface ==
  [groups : Seq(Group), cursor : Nat \ {0}, scroll : Nat, collapsed : SUBSET Nat,
   query : {"none", "all", "some"}, mode : BOOLEAN, focus : {"left", "right", "popup"}, popup : Popup,
   conn : Refs, cached : SUBSET Triples, pending : SUBSET Refs]
ShownRow == [g : Nat, id : Nat, gi : Nat, pi : Nat]

\* A row tells where in the copy its group or profile is, and which group that is.
Drawn(a) ==
  {r \in ShownRow : /\ r.gi \in DOMAIN a.groups /\ r.gi # 0 /\ r.g = a.groups[r.gi].id
                    /\ r.pi = 0 \/ r.pi \in DOMAIN a.groups[r.gi].ps}

\* The cursor is on a row, or on the first one of an empty tree.
OnRow(a) == a.query = "none" => a.cursor = 1 \/ a.cursor <= Len(Rows(a))
Good(a) == a \in Interface /\ OnRow(a)

LEMMA InterfaceParts ==
  ASSUME NEW a \in Interface
  PROVE  /\ a.groups \in Seq(Group) /\ a.cursor \in Nat /\ a.cursor # 0 /\ a.scroll \in Nat /\ a.collapsed \in SUBSET Nat
         /\ a.query \in {"none", "all", "some"} /\ a.mode \in BOOLEAN /\ a.focus \in {"left", "right", "popup"}
         /\ a.popup \in Popup /\ a.conn \in Refs /\ a.cached \in SUBSET Triples /\ a.pending \in SUBSET Refs
<1>1. a.cursor \in Nat \ {0}
  BY DEF Interface
<1>2. a.cursor \in Nat /\ a.cursor # 0
  BY <1>1
<1> QED
  BY <1>2, Zenon DEF Interface

LEMMA GroupParts == ASSUME NEW x \in Group
                    PROVE  /\ x.id \in Nat /\ x.ps \in Seq(Profile)
                           /\ \A ps \in Seq(Profile) : /\ [x EXCEPT !.ps = ps] \in Group
                                                       /\ [x EXCEPT !.ps = ps].id = x.id
                                                       /\ [x EXCEPT !.ps = ps].ps = ps
  BY DEF Group

HeadRow(g, i) == [g |-> g.id, id |-> 0, gi |-> i, pi |-> 0]
Inside(g, i) == [j \in DOMAIN g.ps |-> [g |-> g.id, id |-> g.ps[j].id, gi |-> i, pi |-> j]]

LEMMA OneTyped == ASSUME NEW S, NEW x \in S PROVE <<x>> \in Seq(S)
  OBVIOUS

LEMMA InsideTyped ==
  ASSUME NEW a \in Interface, NEW i \in DOMAIN a.groups
  PROVE  /\ a.groups[i] \in Group /\ i \in Nat /\ i # 0
         /\ HeadRow(a.groups[i], i) \in Drawn(a)
         /\ Inside(a.groups[i], i) \in Seq(Drawn(a)) /\ Len(Inside(a.groups[i], i)) = Len(a.groups[i].ps)
         /\ DOMAIN Inside(a.groups[i], i) = DOMAIN a.groups[i].ps
<1>1. PICK x \in Group : x = a.groups[i]
  BY InterfaceParts
<1>2. x.id \in Nat /\ x.ps \in Seq(Profile)
  BY GroupParts
<1>3. i \in Nat /\ i # 0
  BY InterfaceParts
<1>4. PICK n \in Nat : n = Len(x.ps) /\ DOMAIN x.ps = 1 .. n /\ \A j \in 1 .. n : x.ps[j] \in Profile
  BY <1>2
<1>5. HeadRow(x, i) \in Drawn(a)
  <2>1. PICK r : r = [g |-> x.id, id |-> 0, gi |-> i, pi |-> 0]
    BY Zenon
  <2>2. r \in ShownRow /\ r.gi = i /\ r.pi = 0 /\ r.g = x.id
    BY <1>2, <1>3, <2>1 DEF ShownRow
  <2> QED
    BY <1>1, <1>3, <2>1, <2>2, Zenon DEF Drawn, HeadRow
<1>6. ASSUME NEW j \in 1 .. n PROVE [g |-> x.id, id |-> x.ps[j].id, gi |-> i, pi |-> j] \in Drawn(a)
  <2>1. x.ps[j].id \in Nat
    BY <1>4, ProfileParts, Zenon
  <2>2. j \in Nat
    BY <1>4
  <2>3. PICK r : r = [g |-> x.id, id |-> x.ps[j].id, gi |-> i, pi |-> j]
    BY Zenon
  <2>4. r \in ShownRow /\ r.gi = i /\ r.pi = j /\ r.g = x.id
    BY <1>2, <1>3, <2>1, <2>2, <2>3 DEF ShownRow
  <2> QED
    BY <1>1, <1>3, <1>4, <2>3, <2>4, Zenon DEF Drawn
<1>7. PICK s : s = [j \in 1 .. n |-> [g |-> x.id, id |-> x.ps[j].id, gi |-> i, pi |-> j]]
  BY Zenon
<1> HIDE DEF Drawn
<1>8. s \in Seq(Drawn(a)) /\ Len(s) = n /\ DOMAIN s = 1 .. n
  BY <1>6, <1>7
<1>9. Inside(x, i) = s
  BY <1>4, <1>7, Zenon DEF Inside
<1> QED
  BY <1>1, <1>3, <1>4, <1>5, <1>8, <1>9, Zenon

LEMMA GroupRowsTyped ==
  ASSUME NEW a \in Interface, NEW i \in DOMAIN a.groups
  PROVE  /\ GroupRows(a, i) \in Seq(Drawn(a))
         /\ a.query = "none" => GroupRows(a, i) =
              <<HeadRow(a.groups[i], i)>> \o (IF a.groups[i].id \in a.collapsed THEN <<>> ELSE Inside(a.groups[i], i))
<1>1. PICK x, h, s : x = a.groups[i] /\ h = HeadRow(x, i) /\ s = Inside(x, i)
  OBVIOUS
<1>2. h \in Drawn(a) /\ s \in Seq(Drawn(a)) /\ DOMAIN s = DOMAIN x.ps
  BY <1>1, InsideTyped, Zenon
<1>3. GroupRows(a, i) = IF a.query # "none" THEN Entries(s, {j \in DOMAIN x.ps : a.query = "all" \/ x.ps[j].hit})
                        ELSE <<h>> \o (IF x.id \in a.collapsed THEN <<>> ELSE s)
  BY <1>1, Zenon DEF GroupRows, HeadRow, Inside
<1> HIDE DEF Drawn
<1>4. CASE a.query = "none"
  <2>1. PICK t \in Seq(Drawn(a)) : t = IF x.id \in a.collapsed THEN <<>> ELSE s
    <3>1. <<>> \in Seq(Drawn(a))
      OBVIOUS
    <3> QED
      BY <1>2, <3>1, Zenon
  <2>2. <<h>> \in Seq(Drawn(a))
    BY <1>2
  <2>3. <<h>> \o t \in Seq(Drawn(a))
    BY <2>2, ConcatParts
  <2>4. GroupRows(a, i) = <<h>> \o t
    BY <1>3, <1>4, <2>1, Zenon
  <2> QED
    BY <1>1, <2>1, <2>3, <2>4, Zenon
<1>5. CASE a.query # "none"
  <2>1. {j \in DOMAIN x.ps : a.query = "all" \/ x.ps[j].hit} \in SUBSET DOMAIN s
    BY <1>2
  <2>2. Entries(s, {j \in DOMAIN x.ps : a.query = "all" \/ x.ps[j].hit}) \in Seq(Drawn(a))
    BY <1>2, <2>1, EntriesTyped
  <2> QED
    BY <1>3, <1>5, <2>2, Zenon
<1> QED
  BY <1>4, <1>5

Blocked(a) == [i \in DOMAIN a.groups |-> GroupRows(a, i)]

LEMMA RowsTyped ==
  ASSUME NEW a \in Interface
  PROVE  /\ Rows(a) \in Seq(Drawn(a)) /\ Len(Rows(a)) \in Nat /\ DOMAIN Rows(a) = 1 .. Len(Rows(a))
         /\ Rows(a) = FlattenSeq(Blocked(a)) /\ Blocked(a) \in Seq(Seq(ShownRow)) /\ DOMAIN Blocked(a) = DOMAIN a.groups
<1>1. PICK n \in Nat : DOMAIN a.groups = 1 .. n
  BY InterfaceParts
<1>2. PICK s : s = Blocked(a)
  OBVIOUS
<1>3. s = [i \in 1 .. n |-> GroupRows(a, i)]
  BY <1>1, <1>2, Zenon DEF Blocked
<1>4. \A i \in 1 .. n : GroupRows(a, i) \in Seq(Drawn(a))
  BY <1>1, GroupRowsTyped, Zenon
<1>5. PICK T : T = Drawn(a) /\ T \in SUBSET ShownRow
  BY Zenon DEF Drawn
<1> HIDE DEF ShownRow
<1>6. s \in Seq(Seq(T)) /\ DOMAIN s = 1 .. n
  BY <1>3, <1>4, <1>5
<1>7. \A i \in 1 .. n : s[i] \in Seq(ShownRow)
  <2>1. \A i \in 1 .. n : s[i] \in Seq(T)
    BY <1>6
  <2>2. \A u \in Seq(T) : u \in Seq(ShownRow)
    BY <1>5
  <2> QED
    BY <2>1, <2>2
<1>8. s \in Seq(Seq(ShownRow))
  <2>1. s \in [1 .. n -> Seq(ShownRow)]
    BY <1>3, <1>6, <1>7
  <2> QED
    BY <2>1
<1>9. Rows(a) = FlattenSeq(s)
  BY <1>2, Zenon DEF Rows, Blocked
<1>10. PICK rows \in Seq(T) : rows = Rows(a)
  BY <1>6, <1>9, FlattenTyped
<1>11. Len(rows) \in Nat /\ DOMAIN rows = 1 .. Len(rows)
  OBVIOUS
<1> QED
  BY <1>1, <1>2, <1>5, <1>6, <1>8, <1>9, <1>10, <1>11, Zenon

LEMMA SameRows ==
  ASSUME NEW a, NEW b, a.groups = b.groups, a.query = b.query, a.collapsed = b.collapsed
  PROVE  Rows(a) = Rows(b)
<1>1. \A i : GroupRows(a, i) = GroupRows(b, i)
  BY Zenon DEF GroupRows
<1>2. Blocked(a) = Blocked(b)
  BY <1>1, Zenon DEF Blocked
<1> QED
  BY <1>2, Zenon DEF Rows, Blocked

LEMMA SameView ==
  ASSUME NEW a, Good(a), NEW b \in Interface,
         b.groups = a.groups, b.query = a.query, b.collapsed = a.collapsed, b.cursor = a.cursor
  PROVE  Good(b) /\ Rows(b) = Rows(a)
<1>1. Rows(b) = Rows(a)
  BY SameRows
<1> QED
  BY <1>1 DEF Good, OnRow

LEMMA CursorSet ==
  ASSUME NEW a \in Interface, NEW n \in Nat, n # 0
  PROVE  /\ [a EXCEPT !.cursor = n] \in Interface /\ Rows([a EXCEPT !.cursor = n]) = Rows(a)
         /\ n = 1 \/ n <= Len(Rows(a)) => Good([a EXCEPT !.cursor = n])
         /\ [a EXCEPT !.cursor = n].groups = a.groups /\ [a EXCEPT !.cursor = n].conn = a.conn
<1>1. PICK b : b = [a EXCEPT !.cursor = n]
  BY Zenon
<1>2. /\ b \in Interface /\ b.groups = a.groups /\ b.query = a.query /\ b.collapsed = a.collapsed
      /\ b.cursor = n /\ b.conn = a.conn
  BY <1>1 DEF Interface
<1>3. Rows(b) = Rows(a)
  BY <1>2, SameRows
<1> QED
  BY <1>1, <1>2, <1>3 DEF Good, OnRow

LEMMA ClampGood ==
  ASSUME NEW a \in Interface
  PROVE  /\ Good(ClampCursor(a)) /\ ClampCursor(a).groups = a.groups /\ ClampCursor(a).conn = a.conn
<1>1. Len(Rows(a)) \in Nat /\ a.cursor \in Nat /\ a.cursor # 0
  BY RowsTyped, InterfaceParts
<1>2. PICK n \in Nat : n = IF Len(Rows(a)) = 0 THEN 1 ELSE IF a.cursor > Len(Rows(a)) THEN Len(Rows(a)) ELSE a.cursor
  BY <1>1
<1>3. n # 0 /\ (n = 1 \/ n <= Len(Rows(a)))
  BY <1>1, <1>2
<1>4. ClampCursor(a) = [a EXCEPT !.cursor = n]
  BY <1>2, Zenon DEF ClampCursor
<1> QED
  BY <1>3, <1>4, CursorSet

LEMMA AtGood ==
  ASSUME NEW a \in Interface, NEW gi, NEW pi,
         Good(a) \/ (a.query = "none" /\ \E n \in DOMAIN Rows(a) : Rows(a)[n].gi = gi /\ Rows(a)[n].pi = pi)
  PROVE  Good(At(a, gi, pi)) /\ At(a, gi, pi).groups = a.groups /\ At(a, gi, pi).conn = a.conn
<1>1. PICK here : here = {n \in DOMAIN Rows(a) : Rows(a)[n].gi = gi /\ Rows(a)[n].pi = pi}
  BY Zenon
<1>2. At(a, gi, pi) = IF a.query = "none" /\ here # {} THEN [a EXCEPT !.cursor = CHOOSE n \in here : TRUE] ELSE a
  BY <1>1, Zenon DEF At
<1>3. CASE a.query = "none" /\ here # {}
  <2>1. PICK n : n = CHOOSE k \in here : TRUE
    OBVIOUS
  <2>2. n \in DOMAIN Rows(a)
    BY <1>1, <1>3, <2>1, Zenon
  <2>3. n \in Nat /\ n # 0 /\ n <= Len(Rows(a))
    BY <2>2, RowsTyped
  <2>4. At(a, gi, pi) = [a EXCEPT !.cursor = n]
    BY <1>2, <1>3, <2>1, Zenon
  <2> QED
    BY <2>3, <2>4, CursorSet
<1>4. CASE ~(a.query = "none" /\ here # {})
  <2>1. At(a, gi, pi) = a
    BY <1>2, <1>4, Zenon
  <2>2. Good(a)
    BY <1>1, <1>4
  <2> QED
    BY <2>1, <2>2
<1> QED
  BY <1>3, <1>4

LEMMA RowTyped ==
  ASSUME NEW a \in Interface
  PROVE  /\ Row(a).g \in Nat /\ Row(a).id \in Nat /\ Row(a).gi \in Nat /\ Row(a).pi \in Nat
         /\ Row(a) # NoRow => /\ a.cursor \in DOMAIN Rows(a) /\ Row(a).gi \in DOMAIN a.groups
                              /\ Row(a).pi = 0 \/ Row(a).pi \in DOMAIN a.groups[Row(a).gi].ps
                              /\ Row(a).g = a.groups[Row(a).gi].id
         /\ Row(a) # NoRow <=> Row(a).gi # 0
<1>1. NoRow.g = 0 /\ NoRow.id = 0 /\ NoRow.gi = 0 /\ NoRow.pi = 0
  BY DEF NoRow
<1>2. PICK rows \in Seq(Drawn(a)) : rows = Rows(a)
  BY RowsTyped
<1>3. CASE a.cursor \in DOMAIN rows
  <2>1. PICK r : r = rows[a.cursor]
    OBVIOUS
  <2>2. Row(a) = r
    BY <1>2, <1>3, <2>1, Zenon DEF Row
  <2>3. r \in Drawn(a)
    <3> HIDE DEF Drawn
    <3> QED
      BY <1>3, <2>1
  <2>4. /\ r \in ShownRow /\ r.gi \in DOMAIN a.groups /\ r.gi # 0 /\ r.g = a.groups[r.gi].id
        /\ r.pi = 0 \/ r.pi \in DOMAIN a.groups[r.gi].ps
    BY <2>3, Zenon DEF Drawn
  <2>5. r.g \in Nat /\ r.id \in Nat /\ r.gi \in Nat /\ r.pi \in Nat
    BY <2>4 DEF ShownRow
  <2> QED
    BY <1>1, <1>2, <1>3, <2>2, <2>4, <2>5, Zenon
<1>4. CASE a.cursor \notin DOMAIN rows
  <2>1. Row(a) = NoRow
    BY <1>2, <1>4, Zenon DEF Row
  <2> QED
    BY <1>1, <2>1
<1> QED
  BY <1>3, <1>4

LEMMA OthersKept ==
  ASSUME NEW a, Good(a)
  PROVE  /\ \A n \in Nat : Good([a EXCEPT !.scroll = n])
         /\ \A f \in {"left", "right", "popup"} : Good([a EXCEPT !.focus = f])
         /\ \A p \in Popup : Good([a EXCEPT !.popup = p])
         /\ \A r \in Refs : Good([a EXCEPT !.conn = r])
         /\ \A x \in SUBSET Triples : Good([a EXCEPT !.cached = x])
         /\ \A x \in SUBSET Refs : Good([a EXCEPT !.pending = x])
         /\ \A m \in BOOLEAN : Good([a EXCEPT !.mode = m])
<1>0. a \in Interface
  BY DEF Good
<1>1. ASSUME NEW n \in Nat PROVE Good([a EXCEPT !.scroll = n])
  <2>1. PICK b : b = [a EXCEPT !.scroll = n]
    BY Zenon
  <2>2. b \in Interface /\ b.groups = a.groups /\ b.query = a.query /\ b.collapsed = a.collapsed /\ b.cursor = a.cursor
    BY <1>0, <2>1 DEF Interface
  <2> QED
    BY <2>1, <2>2, SameView, Zenon
<1>2. ASSUME NEW n \in {"left", "right", "popup"} PROVE Good([a EXCEPT !.focus = n])
  <2>1. PICK b : b = [a EXCEPT !.focus = n]
    BY Zenon
  <2>2. b \in Interface /\ b.groups = a.groups /\ b.query = a.query /\ b.collapsed = a.collapsed /\ b.cursor = a.cursor
    BY <1>0, <2>1, Zenon DEF Interface
  <2> QED
    BY <2>1, <2>2, SameView, Zenon
<1>3. ASSUME NEW n \in Popup PROVE Good([a EXCEPT !.popup = n])
  <2>1. PICK b : b = [a EXCEPT !.popup = n]
    BY Zenon
  <2>2. b \in Interface /\ b.groups = a.groups /\ b.query = a.query /\ b.collapsed = a.collapsed /\ b.cursor = a.cursor
    BY <1>0, <2>1 DEF Interface
  <2> QED
    BY <2>1, <2>2, SameView, Zenon
<1>4. ASSUME NEW n \in Refs PROVE Good([a EXCEPT !.conn = n])
  <2>1. PICK b : b = [a EXCEPT !.conn = n]
    BY Zenon
  <2>2. b \in Interface /\ b.groups = a.groups /\ b.query = a.query /\ b.collapsed = a.collapsed /\ b.cursor = a.cursor
    BY <1>0, <2>1 DEF Interface
  <2> QED
    BY <2>1, <2>2, SameView, Zenon
<1>5. ASSUME NEW n \in SUBSET Triples PROVE Good([a EXCEPT !.cached = n])
  <2>1. PICK b : b = [a EXCEPT !.cached = n]
    BY Zenon
  <2>2. b \in Interface /\ b.groups = a.groups /\ b.query = a.query /\ b.collapsed = a.collapsed /\ b.cursor = a.cursor
    BY <1>0, <2>1, Zenon DEF Interface
  <2> QED
    BY <2>1, <2>2, SameView, Zenon
<1>6. ASSUME NEW n \in SUBSET Refs PROVE Good([a EXCEPT !.pending = n])
  <2>1. PICK b : b = [a EXCEPT !.pending = n]
    BY Zenon
  <2>2. b \in Interface /\ b.groups = a.groups /\ b.query = a.query /\ b.collapsed = a.collapsed /\ b.cursor = a.cursor
    BY <1>0, <2>1, Zenon DEF Interface
  <2> QED
    BY <2>1, <2>2, SameView, Zenon
<1>7. ASSUME NEW n \in BOOLEAN PROVE Good([a EXCEPT !.mode = n])
  <2>1. PICK b : b = [a EXCEPT !.mode = n]
    BY Zenon
  <2>2. b \in Interface /\ b.groups = a.groups /\ b.query = a.query /\ b.collapsed = a.collapsed /\ b.cursor = a.cursor
    BY <1>0, <2>1 DEF Interface
  <2> QED
    BY <2>1, <2>2, SameView, Zenon
<1> QED
  BY <1>1, <1>2, <1>3, <1>4, <1>5, <1>6, <1>7

LEMMA FieldsTyped ==
  ASSUME NEW a \in Interface
  PROVE  /\ \A x \in SUBSET Nat : [a EXCEPT !.collapsed = x] \in Interface
         /\ \A x \in Seq(Group) : [a EXCEPT !.groups = x] \in Interface /\ [a EXCEPT !.groups = x].groups = x
                                  /\ [a EXCEPT !.groups = x].conn = a.conn
         /\ \A q \in {"none", "all", "some"} : [a EXCEPT !.query = q] \in Interface
         /\ \A n \in Nat : [a EXCEPT !.scroll = n] \in Interface
         /\ \A f \in {"left", "right", "popup"} : [a EXCEPT !.focus = f] \in Interface
         /\ \A p \in Popup : [a EXCEPT !.popup = p] \in Interface
         /\ \A r \in Refs : [a EXCEPT !.conn = r] \in Interface
         /\ \A x \in SUBSET Triples : [a EXCEPT !.cached = x] \in Interface
         /\ \A x \in SUBSET Refs : [a EXCEPT !.pending = x] \in Interface
         /\ \A m \in BOOLEAN : [a EXCEPT !.mode = m] \in Interface
<1>1. \A x \in Seq(Group) : [a EXCEPT !.groups = x] \in Interface /\ [a EXCEPT !.groups = x].groups = x
                                  /\ [a EXCEPT !.groups = x].conn = a.conn
  BY Zenon DEF Interface
<1>2. \A x \in SUBSET Nat : [a EXCEPT !.collapsed = x] \in Interface
  BY Zenon DEF Interface
<1>3. /\ \A q \in {"none", "all", "some"} : [a EXCEPT !.query = q] \in Interface
      /\ \A n \in Nat : [a EXCEPT !.scroll = n] \in Interface
      /\ \A f \in {"left", "right", "popup"} : [a EXCEPT !.focus = f] \in Interface
  BY Zenon DEF Interface
<1>4. /\ \A p \in Popup : [a EXCEPT !.popup = p] \in Interface
      /\ \A r \in Refs : [a EXCEPT !.conn = r] \in Interface
  BY DEF Interface
<1>5. /\ \A x \in SUBSET Triples : [a EXCEPT !.cached = x] \in Interface
      /\ \A x \in SUBSET Refs : [a EXCEPT !.pending = x] \in Interface
  BY DEF Interface
<1>6. \A m \in BOOLEAN : [a EXCEPT !.mode = m] \in Interface
  BY DEF Interface
<1> QED
  BY <1>1, <1>2, <1>3, <1>4, <1>5, <1>6, Zenon

LEMMA GroupRowsLength ==
  ASSUME NEW a \in Interface, NEW i \in DOMAIN a.groups, a.query = "none"
  PROVE  /\ Len(a.groups[i].ps) \in Nat
         /\ Len(GroupRows(a, i)) = IF a.groups[i].id \in a.collapsed THEN 1 ELSE 1 + Len(a.groups[i].ps)
         /\ 1 \in DOMAIN GroupRows(a, i) /\ GroupRows(a, i)[1].gi = i /\ GroupRows(a, i)[1].pi = 0
         /\ a.groups[i].id \notin a.collapsed => \A j \in DOMAIN a.groups[i].ps :
              1 + j \in DOMAIN GroupRows(a, i) /\ GroupRows(a, i)[1 + j].gi = i /\ GroupRows(a, i)[1 + j].pi = j
<1>1. PICK x \in Group : x = a.groups[i]
  BY InterfaceParts
<1>2. x.id \in Nat /\ x.ps \in Seq(Profile)
  BY GroupParts
<1>3. PICK y, c : y = HeadRow(x, i) /\ c = Inside(x, i)
  OBVIOUS
<1>4. y \in Drawn(a) /\ c \in Seq(Drawn(a)) /\ Len(c) = Len(x.ps) /\ DOMAIN c = DOMAIN x.ps
  BY <1>1, <1>3, InsideTyped, Zenon
<1>5. y.gi = i /\ y.pi = 0 /\ \A j \in DOMAIN x.ps : c[j].gi = i /\ c[j].pi = j
  BY <1>3 DEF HeadRow, Inside
<1> HIDE DEF Drawn
<1>6. PICK s \in Seq(Drawn(a)) : s = IF x.id \in a.collapsed THEN <<>> ELSE c
  <2>1. <<>> \in Seq(Drawn(a))
    OBVIOUS
  <2> QED
    BY <1>4, <2>1, Zenon
<1>7. PICK h \in Seq(Drawn(a)) : h = <<y>>
  <2>1. <<y>> \in Seq(Drawn(a))
    BY <1>4, OneTyped
  <2> QED
    BY <2>1, Zenon
<1>8. GroupRows(a, i) = h \o s
  BY <1>1, <1>3, <1>6, <1>7, GroupRowsTyped, Zenon
<1>9. Len(h) = 1 /\ DOMAIN h = {1} /\ h[1] = y
  BY <1>7
<1>10. /\ Len(h \o s) = Len(h) + Len(s)
       /\ \A j \in DOMAIN h : j \in DOMAIN (h \o s) /\ (h \o s)[j] = h[j]
       /\ \A j \in DOMAIN s : Len(h) + j \in DOMAIN (h \o s) /\ (h \o s)[Len(h) + j] = s[j]
  BY ConcatParts
<1>11. Len(h \o s) = 1 + Len(s) /\ Len(s) \in Nat
  <2>1. Len(s) \in Nat
    OBVIOUS
  <2> QED
    BY <1>9, <1>10, <2>1, Zenon
<1>12. 1 \in DOMAIN (h \o s) /\ (h \o s)[1] = y
  BY <1>9, <1>10, Zenon
<1>13. \A j \in DOMAIN s : 1 + j \in DOMAIN (h \o s) /\ (h \o s)[1 + j] = s[j]
  BY <1>9, <1>10, Zenon
<1>14. Len(x.ps) \in Nat
  BY <1>2
<1>15. Len(h \o s) = IF x.id \in a.collapsed THEN 1 ELSE 1 + Len(x.ps)
  <2>1. Len(s) = IF x.id \in a.collapsed THEN 0 ELSE Len(x.ps)
    BY <1>4, <1>6
  <2> QED
    BY <1>11, <1>14, <2>1
<1>16. x.id \notin a.collapsed => \A j \in DOMAIN x.ps :
         1 + j \in DOMAIN (h \o s) /\ (h \o s)[1 + j].gi = i /\ (h \o s)[1 + j].pi = j
  <2>1. ASSUME x.id \notin a.collapsed, NEW j \in DOMAIN x.ps
        PROVE  1 + j \in DOMAIN (h \o s) /\ (h \o s)[1 + j].gi = i /\ (h \o s)[1 + j].pi = j
    <3>1. s = c
      BY <1>6, <2>1, Zenon
    <3>2. j \in DOMAIN s
      BY <1>4, <3>1, Zenon
    <3>3. 1 + j \in DOMAIN (h \o s) /\ (h \o s)[1 + j] = c[j]
      BY <1>13, <3>1, <3>2, Zenon
    <3> QED
      BY <1>5, <3>3, Zenon
  <2> QED
    BY <2>1, Zenon
<1> QED
  BY <1>1, <1>5, <1>8, <1>12, <1>14, <1>15, <1>16, Zenon

\* More profiles, or more groups, make no fewer rows.
LEMMA RowsLonger ==
  ASSUME NEW a \in Interface, NEW b \in Interface, a.query = "none", b.query = "none", a.collapsed = b.collapsed,
         Len(a.groups) <= Len(b.groups),
         \A i \in DOMAIN a.groups : b.groups[i].id = a.groups[i].id /\ Len(a.groups[i].ps) <= Len(b.groups[i].ps)
  PROVE  Len(Rows(a)) <= Len(Rows(b))
<1>1. PICK s \in Seq(Seq(ShownRow)), t \in Seq(Seq(ShownRow)) :
        s = Blocked(a) /\ t = Blocked(b) /\ DOMAIN s = DOMAIN a.groups /\ DOMAIN t = DOMAIN b.groups
        /\ Rows(a) = FlattenSeq(s) /\ Rows(b) = FlattenSeq(t)
  BY RowsTyped, Zenon
<1>2. PICK m \in Nat, n \in Nat : m = Len(a.groups) /\ n = Len(b.groups) /\ m <= n
                                  /\ DOMAIN a.groups = 1 .. m /\ DOMAIN b.groups = 1 .. n
  BY InterfaceParts
<1>3. Len(s) = m /\ Len(t) = n
  BY <1>1, <1>2
<1>4. ASSUME NEW i \in 1 .. m PROVE Len(s[i]) <= Len(t[i])
  <2>1. i \in DOMAIN a.groups /\ i \in DOMAIN b.groups
    BY <1>2
  <2>2. s[i] = GroupRows(a, i) /\ t[i] = GroupRows(b, i)
    BY <1>1, <2>1, Zenon DEF Blocked
  <2>3. b.groups[i].id = a.groups[i].id /\ Len(a.groups[i].ps) <= Len(b.groups[i].ps)
    BY <2>1
  <2>4. /\ Len(a.groups[i].ps) \in Nat
        /\ Len(s[i]) = IF a.groups[i].id \in a.collapsed THEN 1 ELSE 1 + Len(a.groups[i].ps)
    <3>1. /\ Len(a.groups[i].ps) \in Nat
          /\ Len(GroupRows(a, i)) = IF a.groups[i].id \in a.collapsed THEN 1 ELSE 1 + Len(a.groups[i].ps)
      BY <2>1, GroupRowsLength
    <3> QED
      BY <2>2, <3>1, Zenon
  <2>5. /\ Len(b.groups[i].ps) \in Nat
        /\ Len(t[i]) = IF a.groups[i].id \in a.collapsed THEN 1 ELSE 1 + Len(b.groups[i].ps)
    <3>1. /\ Len(b.groups[i].ps) \in Nat
          /\ Len(GroupRows(b, i)) = IF b.groups[i].id \in b.collapsed THEN 1 ELSE 1 + Len(b.groups[i].ps)
      BY <2>1, GroupRowsLength
    <3> QED
      BY <2>2, <2>3, <3>1, Zenon
  <2>6. PICK p \in Nat, q \in Nat : p = Len(a.groups[i].ps) /\ q = Len(b.groups[i].ps) /\ p <= q
    BY <2>3, <2>4, <2>5, Zenon
  <2>7. 1 + p <= 1 + q /\ 1 <= 1
    BY <2>6
  <2>8. CASE a.groups[i].id \in a.collapsed
    BY <2>4, <2>5, <2>7, <2>8, Zenon
  <2>9. CASE a.groups[i].id \notin a.collapsed
    BY <2>4, <2>5, <2>6, <2>7, <2>9, Zenon
  <2> QED
    BY <2>8, <2>9, Zenon
<1>5. Len(s) <= Len(t) /\ \A i \in 1 .. Len(s) : Len(s[i]) <= Len(t[i])
  BY <1>2, <1>3, <1>4
<1>6. Len(FlattenSeq(s)) <= Len(FlattenSeq(t))
  BY <1>5, FlattenLonger
<1> QED
  BY <1>1, <1>6

LEMMA LongerGood ==
  ASSUME NEW a, Good(a), NEW b \in Interface, a.query = b.query, a.collapsed = b.collapsed, a.cursor = b.cursor,
         Len(a.groups) <= Len(b.groups),
         \A i \in DOMAIN a.groups : b.groups[i].id = a.groups[i].id /\ Len(a.groups[i].ps) <= Len(b.groups[i].ps)
  PROVE  Good(b)
<1>1. a \in Interface
  BY DEF Good
<1>2. a.query = "none" => Len(Rows(a)) <= Len(Rows(b))
  BY <1>1, RowsLonger, Zenon
<1>3. Len(Rows(a)) \in Nat /\ Len(Rows(b)) \in Nat /\ a.cursor \in Nat
  BY <1>1, RowsTyped, InterfaceParts
<1>4. OnRow(a)
  BY DEF Good
<1>5. OnRow(b)
  BY <1>2, <1>3, <1>4 DEF OnRow
<1> QED
  BY <1>5 DEF Good

LEMMA KnownGroup ==
  ASSUME NEW a \in Interface, NEW g, KnowsGroup(a, g)
  PROVE  /\ GroupIndex(a, g) \in DOMAIN a.groups /\ a.groups[GroupIndex(a, g)].id = g
         /\ ProfilesOf(a, g) \in Seq(Profile) /\ ProfilesOf(a, g) = a.groups[GroupIndex(a, g)].ps
<1>1. PICK k : k = GroupIndex(a, g)
  OBVIOUS
<1>2. k \in DOMAIN a.groups /\ a.groups[k].id = g
  BY <1>1 DEF KnowsGroup, GroupIndex
<1>3. a.groups[k] \in Group
  BY <1>2, InterfaceParts
<1>4. a.groups[k].ps \in Seq(Profile)
  BY <1>3, GroupParts
<1> QED
  BY <1>1, <1>2, <1>4 DEF ProfilesOf

WithProfiles(a, k, ps) == [a EXCEPT !.groups[k].ps = ps]

LEMMA IndexTyped ==
  ASSUME NEW a \in Interface, NEW k \in DOMAIN a.groups, NEW ps \in Seq(Profile)
  PROVE  /\ WithProfiles(a, k, ps) \in Interface
         /\ WithProfiles(a, k, ps).query = a.query
         /\ WithProfiles(a, k, ps).collapsed = a.collapsed
         /\ WithProfiles(a, k, ps).cursor = a.cursor
         /\ WithProfiles(a, k, ps).conn = a.conn
         /\ WithProfiles(a, k, ps).groups =
              [i \in DOMAIN a.groups |-> IF i = k THEN [a.groups[i] EXCEPT !.ps = ps] ELSE a.groups[i]]
<1>2. PICK gs : gs = [i \in DOMAIN a.groups |-> IF i = k THEN [a.groups[i] EXCEPT !.ps = ps] ELSE a.groups[i]]
  BY Zenon
<1>3. PICK n \in Nat : DOMAIN a.groups = 1 .. n
  BY InterfaceParts
<1>4. ASSUME NEW i \in 1 .. n PROVE (IF i = k THEN [a.groups[i] EXCEPT !.ps = ps] ELSE a.groups[i]) \in Group
  <2>1. a.groups[i] \in Group
    BY <1>3, InterfaceParts
  <2>2. [a.groups[i] EXCEPT !.ps = ps] \in Group
    BY <2>1, GroupParts
  <2> QED
    BY <2>1, <2>2
<1>5. gs \in Seq(Group)
  <2>1. gs \in [1 .. n -> Group]
    BY <1>2, <1>3, <1>4
  <2> HIDE DEF Group
  <2> QED
    BY <2>1
<1>6. WithProfiles(a, k, ps) = [a EXCEPT !.groups = gs]
  BY <1>2 DEF WithProfiles
<1>7. PICK b : b = [a EXCEPT !.groups = gs]
  BY Zenon
<1>8. /\ b \in Interface /\ b.query = a.query /\ b.collapsed = a.collapsed
      /\ b.cursor = a.cursor /\ b.conn = a.conn /\ b.groups = gs
  BY <1>5, <1>7, Zenon DEF Interface
<1> QED
  BY <1>2, <1>6, <1>7, <1>8, Zenon

\* Profiles are replaced, and there are no fewer.
LEMMA IndexGood ==
  ASSUME NEW a, Good(a), NEW k \in DOMAIN a.groups, NEW ps \in Seq(Profile), Len(a.groups[k].ps) <= Len(ps)
  PROVE  Good(WithProfiles(a, k, ps))
<1>1. a \in Interface
  BY DEF Good
<1>2. PICK b : b = WithProfiles(a, k, ps)
  OBVIOUS
<1>3. /\ b \in Interface /\ b.query = a.query /\ b.collapsed = a.collapsed /\ b.cursor = a.cursor
      /\ b.groups = [i \in DOMAIN a.groups |-> IF i = k THEN [a.groups[i] EXCEPT !.ps = ps] ELSE a.groups[i]]
  BY <1>1, <1>2, IndexTyped
<1>4. PICK n \in Nat : n = Len(a.groups) /\ DOMAIN a.groups = 1 .. n
  BY <1>1, InterfaceParts
<1>5. Len(b.groups) = n
  BY <1>3, <1>4, <1>1, InterfaceParts
<1>6. ASSUME NEW i \in DOMAIN a.groups
      PROVE  b.groups[i].id = a.groups[i].id /\ Len(a.groups[i].ps) <= Len(b.groups[i].ps)
  <2>1. PICK x \in Group : x = a.groups[i] /\ x.ps \in Seq(Profile)
    BY <1>1, InterfaceParts, GroupParts
  <2>2. CASE i = k
    <3>1. b.groups[i] = [x EXCEPT !.ps = ps]
      BY <1>3, <2>1, <2>2, Zenon
    <3>2. b.groups[i].id = x.id /\ b.groups[i].ps = ps
      BY <3>1, GroupParts
    <3> QED
      BY <2>1, <2>2, <3>2, Zenon
  <2>3. CASE i # k
    <3>1. b.groups[i] = x
      BY <1>3, <2>1, <2>3, Zenon
    <3>2. Len(x.ps) \in Nat /\ Len(x.ps) <= Len(x.ps)
      BY <2>1
    <3> QED
      BY <2>1, <3>1, <3>2, Zenon
  <2> QED
    BY <2>2, <2>3
<1>7. Len(a.groups) <= Len(b.groups)
  BY <1>4, <1>5
<1> QED
  BY <1>2, <1>3, <1>6, <1>7, LongerGood, Zenon

LEMMA SetTyped ==
  ASSUME NEW a \in Interface, NEW g, NEW ps, KnowsGroup(a, g) => ps \in Seq(Profile)
  PROVE  /\ SetProfiles(a, g, ps) \in Interface /\ SetProfiles(a, g, ps).conn = a.conn
         /\ ~KnowsGroup(a, g) => SetProfiles(a, g, ps) = a
<1>1. CASE ~KnowsGroup(a, g)
  BY <1>1 DEF SetProfiles
<1>2. CASE KnowsGroup(a, g)
  <2>1. PICK k : k = GroupIndex(a, g) /\ k \in DOMAIN a.groups
    BY <1>2, KnownGroup
  <2>2. SetProfiles(a, g, ps) = WithProfiles(a, k, ps)
    BY <1>2, <2>1, Zenon DEF SetProfiles, WithProfiles
  <2>3. WithProfiles(a, k, ps) \in Interface /\ WithProfiles(a, k, ps).conn = a.conn
    BY <1>2, <2>1, IndexTyped, Zenon
  <2> QED
    BY <1>2, <2>2, <2>3, Zenon
<1> QED
  BY <1>1, <1>2

LEMMA SetGood ==
  ASSUME NEW a, Good(a), NEW g,
         NEW ps, KnowsGroup(a, g) => ps \in Seq(Profile) /\ Len(ProfilesOf(a, g)) <= Len(ps)
  PROVE  Good(SetProfiles(a, g, ps))
<1>1. a \in Interface
  BY DEF Good
<1>2. CASE ~KnowsGroup(a, g)
  BY <1>2 DEF SetProfiles
<1>3. CASE KnowsGroup(a, g)
  <2>1. PICK k : k = GroupIndex(a, g) /\ k \in DOMAIN a.groups /\ ProfilesOf(a, g) = a.groups[k].ps
    BY <1>1, <1>3, KnownGroup
  <2>2. SetProfiles(a, g, ps) = WithProfiles(a, k, ps)
    BY <1>3, <2>1, Zenon DEF SetProfiles, WithProfiles
  <2>3. Len(a.groups[k].ps) <= Len(ps)
    BY <1>3, <2>1, Zenon
  <2>4. Good(WithProfiles(a, k, ps))
    BY <1>3, <2>1, <2>3, IndexGood
  <2> QED
    BY <2>2, <2>4, Zenon
<1> QED
  BY <1>2, <1>3

-----------------------------------------------------------------------------
(* Keys that move the cursor, fold and reorder.                            *)

LEMMA DownGood == ASSUME NEW a, Good(a) PROVE Good(CursorDown(a))
<1>1. a \in Interface
  BY DEF Good
<1>2. a.cursor \in Nat /\ Len(Rows(a)) \in Nat
  BY <1>1, InterfaceParts, RowsTyped
<1>3. CASE a.cursor < Len(Rows(a))
  <2>1. PICK n \in Nat : n = a.cursor + 1 /\ n # 0 /\ n <= Len(Rows(a))
    BY <1>2, <1>3
  <2>2. CursorDown(a) = [a EXCEPT !.cursor = n]
    BY <1>3, <2>1, Zenon DEF CursorDown
  <2> QED
    BY <1>1, <2>1, <2>2, CursorSet
<1>4. CASE ~(a.cursor < Len(Rows(a)))
  BY <1>4 DEF CursorDown
<1> QED
  BY <1>3, <1>4

LEMMA MovesGood == ASSUME NEW a, Good(a), NEW b \in CursorMoves(a) PROVE Good(b)
<1>1. a \in Interface /\ OnRow(a)
  BY DEF Good
<1>2. a.cursor \in Nat /\ a.cursor # 0 /\ Len(Rows(a)) \in Nat
  BY <1>1, InterfaceParts, RowsTyped
<1>3. CASE b = CursorDown(a)
  BY <1>3, DownGood
<1>4. CASE b = [a EXCEPT !.cursor = IF @ > 1 THEN @ - 1 ELSE 1]
  <2>1. PICK n : n = IF a.cursor > 1 THEN a.cursor - 1 ELSE 1
    OBVIOUS
  <2>2. n \in Nat /\ n # 0 /\ n <= a.cursor
    BY <1>2, <2>1
  <2>3. b = [a EXCEPT !.cursor = n]
    BY <1>4, <2>1, Zenon
  <2>4. b \in Interface /\ Rows(b) = Rows(a) /\ (n = 1 \/ n <= Len(Rows(a)) => Good(b))
    BY <1>1, <2>2, <2>3, CursorSet
  <2>5. b.query = a.query
    BY <1>1, <2>3 DEF Interface
  <2>6. CASE a.query = "none"
    <3>1. n = 1 \/ n <= Len(Rows(a))
      BY <1>1, <1>2, <2>1, <2>2, <2>6 DEF OnRow
    <3> QED
      BY <2>4, <3>1
  <2>7. CASE a.query # "none"
    BY <2>4, <2>5, <2>7 DEF Good, OnRow
  <2> QED
    BY <2>6, <2>7
<1>5. CASE b = [a EXCEPT !.cursor = IF Len(Rows(a)) > 0 THEN Len(Rows(a)) ELSE @]
  <2>1. CASE Len(Rows(a)) > 0
    <3>1. PICK n \in Nat : n = Len(Rows(a)) /\ n # 0 /\ n <= Len(Rows(a))
      BY <1>2, <2>1
    <3>2. b = [a EXCEPT !.cursor = n]
      BY <1>5, <2>1, <3>1, Zenon
    <3> QED
      BY <1>1, <3>1, <3>2, CursorSet
  <2>2. CASE ~(Len(Rows(a)) > 0)
    <3>1. b = a
      BY <1>1, <1>5, <2>2 DEF Interface
    <3> QED
      BY <3>1
  <2> QED
    BY <2>1, <2>2
<1>6. CASE b = [a EXCEPT !.cursor = 1, !.scroll = 0]
  <2>0. PICK n \in Nat : n = 1 /\ n # 0
    OBVIOUS
  <2>1. PICK c : c = [a EXCEPT !.cursor = n]
    BY Zenon
  <2>2. Good(c)
    BY <1>1, <2>0, <2>1, CursorSet
  <2>3. b = [c EXCEPT !.scroll = 0]
    BY <1>6, <2>0, <2>1
  <2> QED
    BY <2>2, <2>3, OthersKept, Zenon
<1> QED
  BY <1>3, <1>4, <1>5, <1>6 DEF CursorMoves

LEMMA ToggleGood == ASSUME NEW a \in Interface, NEW g \in Nat PROVE Good(ToggleCollapsed(a, g))
<1>1. PICK x : x = IF g \in a.collapsed THEN a.collapsed \ {g} ELSE a.collapsed \cup {g}
  BY Zenon
<1>2. x \in SUBSET Nat
  BY <1>1, InterfaceParts
<1>3. ToggleCollapsed(a, g) = ClampCursor([a EXCEPT !.collapsed = x])
  BY <1>1, Zenon DEF ToggleCollapsed
<1>4. [a EXCEPT !.collapsed = x] \in Interface
  BY <1>2, FieldsTyped, Zenon
<1> QED
  BY <1>3, <1>4, ClampGood

LEMMA LeftGood == ASSUME NEW a, Good(a) PROVE Good(CursorLeft(a))
<1>1. a \in Interface
  BY DEF Good
<1>2. Row(a).g \in Nat
  BY <1>1, RowTyped
<1>3. CASE a.focus = "right"
  <2>1. CursorLeft(a) = [a EXCEPT !.focus = "left"]
    BY <1>3, Zenon DEF CursorLeft
  <2> QED
    BY <2>1, OthersKept, Zenon
<1>4. CASE a.focus # "right" /\ OnGroup(a)
  <2>1. PICK x \in SUBSET Nat : x = a.collapsed \cup {Row(a).g}
    BY <1>1, <1>2, InterfaceParts, Zenon
  <2>2. CursorLeft(a) = ClampCursor([a EXCEPT !.collapsed = x])
    BY <1>4, <2>1, Zenon DEF CursorLeft
  <2>3. [a EXCEPT !.collapsed = x] \in Interface
    BY <1>1, FieldsTyped, Zenon
  <2> QED
    BY <2>2, <2>3, ClampGood
<1>5. CASE a.focus # "right" /\ ~OnGroup(a)
  <2>1. CursorLeft(a) = At(a, Row(a).gi, 0)
    BY <1>5, Zenon DEF CursorLeft
  <2> QED
    BY <1>1, <2>1, AtGood
<1> QED
  BY <1>3, <1>4, <1>5

LEMMA RightGood == ASSUME NEW a, Good(a) PROVE Good(CursorRight(a))
<1>1. a \in Interface
  BY DEF Good
<1>2. Row(a).g \in Nat
  BY <1>1, RowTyped
<1>3. \/ CursorRight(a) = a \/ CursorRight(a) = ToggleCollapsed(a, Row(a).g)
      \/ CursorRight(a) = CursorDown(a) \/ CursorRight(a) = [a EXCEPT !.focus = "right"]
  BY Zenon DEF CursorRight
<1> QED
  BY <1>1, <1>2, <1>3, ToggleGood, DownGood, OthersKept, Zenon

LEMMA SwapTyped ==
  ASSUME NEW S, NEW s \in Seq(S), NEW i \in DOMAIN s, NEW j \in DOMAIN s
  PROVE  SwapAt(s, i, j) \in Seq(S) /\ Len(SwapAt(s, i, j)) = Len(s) /\ DOMAIN SwapAt(s, i, j) = DOMAIN s /\ Len(s) \in Nat
  BY DEF SwapAt

LEMMA GroupShown ==
  ASSUME NEW a \in Interface, NEW i \in DOMAIN a.groups, a.query = "none"
  PROVE  \E n \in DOMAIN Rows(a) : Rows(a)[n].gi = i /\ Rows(a)[n].pi = 0
<1>1. PICK s \in Seq(Seq(ShownRow)) : s = Blocked(a) /\ DOMAIN s = DOMAIN a.groups /\ Rows(a) = FlattenSeq(s)
  BY RowsTyped, Zenon
<1>2. s[i] = GroupRows(a, i)
  BY <1>1, Zenon DEF Blocked
<1>3. 1 \in DOMAIN s[i] /\ s[i][1].gi = i /\ s[i][1].pi = 0
  <2>1. 1 \in DOMAIN GroupRows(a, i) /\ GroupRows(a, i)[1].gi = i /\ GroupRows(a, i)[1].pi = 0
    BY GroupRowsLength
  <2> QED
    BY <1>2, <2>1, Zenon
<1>4. i \in 1 .. Len(s)
  BY <1>1
<1>5. \E n \in DOMAIN FlattenSeq(s) : FlattenSeq(s)[n] = s[i][1]
  BY <1>3, <1>4, FlattenHolds
<1> QED
  BY <1>1, <1>3, <1>5, Zenon

\* What moving the row under the cursor changes in the copy: two groups, or two profiles
\* of one group, change places.
Swapped(a, b) ==
  LET r == Row(a) IN
  /\ r.gi \in DOMAIN a.groups /\ r.g = a.groups[r.gi].id /\ b.conn = a.conn
  /\ \/ OnGroup(a) /\ \E m \in DOMAIN a.groups : b.groups = SwapAt(a.groups, r.gi, m)
     \/ ~OnGroup(a) /\ \E p, m \in DOMAIN a.groups[r.gi].ps :
          b.groups = WithProfiles(a, r.gi, SwapAt(a.groups[r.gi].ps, p, m)).groups

LEMMA MovedGood ==
  ASSUME NEW a, Good(a), NEW d
  PROVE  /\ Good(Moved(a, d)) /\ DOMAIN Moved(a, d).groups = DOMAIN a.groups
         /\ Moved(a, d) # a => Swapped(a, Moved(a, d))
<1>1. a \in Interface
  BY DEF Good
<1>2. CASE a.query # "none" \/ Row(a) = NoRow
  <2>1. Moved(a, d) = a
    BY <1>2, Zenon DEF Moved
  <2> QED
    BY <2>1, Zenon
<1>3. CASE a.query = "none" /\ Row(a) # NoRow
  <2>1. PICK r : r = Row(a)
    OBVIOUS
  <2>2. /\ r.gi \in DOMAIN a.groups /\ (r.pi = 0 \/ r.pi \in DOMAIN a.groups[r.gi].ps)
        /\ r.g = a.groups[r.gi].id
    BY <1>1, <1>3, <2>1, RowTyped
  <2>3. CASE OnGroup(a)
    <3>1. PICK m : m = IF d = "up" THEN r.gi - 1 ELSE r.gi + 1
      OBVIOUS
    <3>2. Moved(a, d) = IF m \notin DOMAIN a.groups THEN a ELSE At([a EXCEPT !.groups = SwapAt(@, r.gi, m)], m, 0)
      BY <1>3, <2>1, <2>3, <3>1, Zenon DEF Moved
    <3>3. CASE m \notin DOMAIN a.groups
      BY <2>1, <2>2, <3>2, <3>3, Zenon
    <3>4. CASE m \in DOMAIN a.groups
      <4>1. PICK gs : gs = SwapAt(a.groups, r.gi, m)
        OBVIOUS
      <4>2. a.groups \in Seq(Group)
        BY <1>1, InterfaceParts
      <4>3. gs \in Seq(Group) /\ DOMAIN gs = DOMAIN a.groups
        BY <2>2, <3>4, <4>1, <4>2, SwapTyped
      <4>4. PICK b : b = [a EXCEPT !.groups = gs]
        BY Zenon
      <4>5. b \in Interface /\ b.groups = gs /\ b.query = "none" /\ b.conn = a.conn
        BY <1>1, <1>3, <4>3, <4>4, Zenon DEF Interface
      <4>6. \E n \in DOMAIN Rows(b) : Rows(b)[n].gi = m /\ Rows(b)[n].pi = 0
        BY <3>4, <4>3, <4>5, GroupShown
      <4>7. Moved(a, d) = At(b, m, 0)
        BY <3>2, <3>4, <4>1, <4>4, Zenon
      <4>8. Good(At(b, m, 0)) /\ At(b, m, 0).groups = b.groups /\ At(b, m, 0).conn = b.conn
        BY <4>5, <4>6, AtGood
      <4>9. Swapped(a, Moved(a, d))
        BY <2>1, <2>2, <2>3, <3>4, <4>1, <4>5, <4>7, <4>8, Zenon DEF Swapped
      <4> QED
        BY <4>3, <4>5, <4>7, <4>8, <4>9, Zenon
    <3> QED
      BY <3>3, <3>4
  <2>4. CASE ~OnGroup(a)
    <3>1. PICK m : m = IF d = "up" THEN r.pi - 1 ELSE r.pi + 1
      OBVIOUS
    <3>2. Moved(a, d) = IF m \notin DOMAIN a.groups[r.gi].ps THEN a
                        ELSE At([a EXCEPT !.groups[r.gi].ps = SwapAt(@, r.pi, m)], r.gi, m)
      BY <1>3, <2>1, <2>4, <3>1, Zenon DEF Moved
    <3>3. CASE m \notin DOMAIN a.groups[r.gi].ps
      BY <2>1, <2>2, <3>2, <3>3, Zenon
    <3>4. CASE m \in DOMAIN a.groups[r.gi].ps
      <4>1. PICK ps : ps = SwapAt(a.groups[r.gi].ps, r.pi, m)
        OBVIOUS
      <4>2. a.groups[r.gi].ps \in Seq(Profile)
        BY <1>1, <2>2, InterfaceParts, GroupParts
      <4>3. r.pi \in DOMAIN a.groups[r.gi].ps
        <5>1. Row(a).gi # 0
          BY <1>1, <1>3, RowTyped
        <5> QED
          BY <2>1, <2>2, <2>4, <5>1, Zenon DEF OnGroup
      <4>4. ps \in Seq(Profile) /\ Len(ps) = Len(a.groups[r.gi].ps) /\ Len(a.groups[r.gi].ps) \in Nat
        BY <3>4, <4>1, <4>2, <4>3, SwapTyped
      <4>5. PICK b : b = WithProfiles(a, r.gi, ps)
        OBVIOUS
      <4>6. Good(b)
        <5>1. Len(a.groups[r.gi].ps) <= Len(ps)
          BY <4>4
        <5> QED
          BY <2>2, <4>4, <4>5, <5>1, IndexGood
      <4>7. b \in Interface
        BY <4>6 DEF Good
      <4>8. Moved(a, d) = At(b, r.gi, m)
        BY <3>2, <3>4, <4>1, <4>5, Zenon DEF WithProfiles
      <4>9. Good(At(b, r.gi, m)) /\ At(b, r.gi, m).groups = b.groups /\ At(b, r.gi, m).conn = b.conn
        BY <4>6, <4>7, AtGood
      <4>10. DOMAIN b.groups = DOMAIN a.groups
        <5>1. WithProfiles(a, r.gi, ps).groups =
                [i \in DOMAIN a.groups |-> IF i = r.gi THEN [a.groups[i] EXCEPT !.ps = ps] ELSE a.groups[i]]
          BY <1>1, <2>2, <4>4, IndexTyped
        <5> QED
          BY <4>5, <5>1
      <4>11. b.conn = a.conn
        BY <1>1, <4>5 DEF WithProfiles, Interface
      <4>12. Swapped(a, Moved(a, d))
        BY <2>1, <2>2, <2>4, <3>4, <4>1, <4>3, <4>5, <4>8, <4>9, <4>11, Zenon DEF Swapped
      <4> QED
        BY <4>8, <4>9, <4>10, <4>12, Zenon
    <3> QED
      BY <3>3, <3>4
  <2> QED
    BY <2>3, <2>4
<1> QED
  BY <1>2, <1>3

-----------------------------------------------------------------------------
(* Events.                                                                 *)

LEMMA EventParts ==
  ASSUME NEW e \in Event
  PROVE  /\ e.k \in {"warn", "added", "updated", "deleted", "moved", "reordered", "groups", "groupadded", "groupdeleted",
                     "subscription", "status", "state", "details"}
         /\ e.k \in {"added", "updated", "deleted", "moved", "reordered", "groupadded", "groupdeleted", "subscription",
                     "details"} => e.g \in Nat
         /\ e.k \in {"deleted", "moved", "details"} => e.id \in Nat
         /\ e.k = "moved" => e.to \in Nat
         /\ e.k \in {"added", "updated", "moved"} => e.p \in Profile
         /\ e.k \in {"reordered", "groups"} => e.ids \in Seq(Nat)
         /\ e.k = "subscription" => e.ps \in Seq(Profile)
         /\ e.k \in {"status", "state"} => e.ref \in Refs
         /\ e.k = "state" => e.groups \in Seq(Group)
         /\ e.k = "details" => e.ver \in Nat
  BY DEF Event

LEMMA ClearGood == ASSUME NEW a, Good(a) PROVE Good(ClearDetails(a))
<1>1. PICK x : x = {}
  BY Zenon
<1>2. PICK b, c : b = [a EXCEPT !.cached = x] /\ c = [b EXCEPT !.pending = x]
  BY Zenon
<1>3. x \in SUBSET Triples /\ x \in SUBSET Refs
  BY <1>1
<1>4. Good(b)
  BY <1>2, <1>3, OthersKept, Zenon
<1>5. Good(c)
  BY <1>2, <1>3, <1>4, OthersKept, Zenon
<1>6. c = [a EXCEPT !.cached = x, !.pending = x]
  BY <1>2
<1> QED
  BY <1>1, <1>5, <1>6, Zenon DEF ClearDetails

LEMMA CloseGood == ASSUME NEW a, Good(a) PROVE Good(CloseByEvent(a))
<1>1. NoPopup \in Popup
  BY DEF NoPopup, Popup
<1>2. PICK p : p = NoPopup
  OBVIOUS
<1>3. Good([a EXCEPT !.popup = p])
  BY <1>1, <1>2, OthersKept, Zenon
<1> QED
  BY <1>2, <1>3, Zenon DEF CloseByEvent

LEMMA RemovedTyped ==
  ASSUME NEW a \in Interface, NEW g, NEW id
  PROVE  (IF KnowsGroup(a, g) THEN SetProfiles(a, g, Without(ProfilesOf(a, g), id)) ELSE a) \in Interface
<1>1. CASE KnowsGroup(a, g)
  <2>1. ProfilesOf(a, g) \in Seq(Profile)
    BY <1>1, KnownGroup
  <2>2. PICK ps : ps = Without(ProfilesOf(a, g), id)
    OBVIOUS
  <2>3. ps \in Seq(Profile)
    BY <2>1, <2>2, WithoutTyped
  <2>4. SetProfiles(a, g, ps) \in Interface
    BY <2>3, SetTyped
  <2> QED
    BY <1>1, <2>2, <2>4, Zenon
<1>2. CASE ~KnowsGroup(a, g)
  BY <1>2, Zenon
<1> QED
  BY <1>1, <1>2

LEMMA DeletedGood == ASSUME NEW a \in Interface, NEW e PROVE Good(ApplyDeleted(a, e))
<1>1. PICK b : b = IF KnowsGroup(a, e.g) THEN SetProfiles(a, e.g, Without(ProfilesOf(a, e.g), e.id)) ELSE a
  OBVIOUS
<1>2. b \in Interface
  BY <1>1, RemovedTyped, Zenon
<1>3. ApplyDeleted(a, e) = ClampCursor(b)
  BY <1>1, Zenon DEF ApplyDeleted
<1> QED
  BY <1>2, <1>3, ClampGood

\* A profile is appended to a group.
LEMMA AppendGood ==
  ASSUME NEW a, Good(a), NEW g, NEW p \in Profile
  PROVE  Good(IF KnowsGroup(a, g) THEN SetProfiles(a, g, Append(ProfilesOf(a, g), p)) ELSE a)
<1>1. CASE KnowsGroup(a, g)
  <2>1. ProfilesOf(a, g) \in Seq(Profile)
    BY <1>1, KnownGroup DEF Good
  <2>2. PICK ps : ps = Append(ProfilesOf(a, g), p)
    BY Zenon
  <2>3. ps \in Seq(Profile) /\ Len(ps) = Len(ProfilesOf(a, g)) + 1 /\ Len(ProfilesOf(a, g)) \in Nat
    BY <2>1, <2>2, AppendParts
  <2>4. Len(ProfilesOf(a, g)) <= Len(ps)
    BY <2>3
  <2>5. Good(SetProfiles(a, g, ps))
    BY <2>3, <2>4, SetGood
  <2> QED
    BY <1>1, <2>2, <2>5, Zenon
<1>2. CASE ~KnowsGroup(a, g)
  BY <1>2, Zenon
<1> QED
  BY <1>1, <1>2

LEMMA UpdatedGood == ASSUME NEW a, Good(a), NEW e, e.p \in Profile PROVE Good(ApplyUpdated(a, e))
<1>1. CASE KnowsGroup(a, e.g)
  <2>1. PICK ps \in Seq(Profile) : ps = ProfilesOf(a, e.g)
    BY <1>1, KnownGroup DEF Good
  <2>2. PICK n \in Nat : n = Len(ps) /\ DOMAIN ps = 1 .. n /\ \A i \in 1 .. n : ps[i] \in Profile
    OBVIOUS
  <2>3. PICK p \in Profile : p = e.p
    OBVIOUS
  <2>4. PICK qs : qs = [i \in 1 .. n |-> IF ps[i].id = p.id THEN p ELSE ps[i]]
    BY Zenon
  <2> HIDE DEF Profile
  <2>5. qs \in Seq(Profile) /\ Len(qs) = n
    BY <2>2, <2>4
  <2>6. Len(ProfilesOf(a, e.g)) <= Len(qs)
    BY <2>1, <2>2, <2>5
  <2>7. Good(SetProfiles(a, e.g, qs))
    BY <2>5, <2>6, SetGood
  <2>8. ApplyUpdated(a, e) = SetProfiles(a, e.g, qs)
    BY <1>1, <2>1, <2>2, <2>3, <2>4, Zenon DEF ApplyUpdated
  <2> QED
    BY <2>7, <2>8
<1>2. CASE ~KnowsGroup(a, e.g)
  BY <1>2, Zenon DEF ApplyUpdated
<1> QED
  BY <1>1, <1>2

LEMMA SubscriptionGood ==
  ASSUME NEW a \in Interface, NEW e, e.ps \in Seq(Profile)
  PROVE  Good(ApplySubscription(a, e))
<1>1. SetProfiles(a, e.g, e.ps) \in Interface
  BY SetTyped
<1>2. Good(ClampCursor(SetProfiles(a, e.g, e.ps)))
  BY <1>1, ClampGood
<1> QED
  BY <1>2, ClearGood DEF ApplySubscription

LEMMA GroupDeletedGood == ASSUME NEW a \in Interface, NEW e PROVE Good(ApplyGroupDeleted(a, e))
<1>1. PICK gs, x : gs = Entries(a.groups, {i \in DOMAIN a.groups : a.groups[i].id # e.g}) /\ x = a.collapsed \ {e.g}
  BY Zenon
<1>2. gs \in Seq(Group)
  <2>1. {i \in DOMAIN a.groups : a.groups[i].id # e.g} \in SUBSET DOMAIN a.groups
    OBVIOUS
  <2> QED
    BY <1>1, <2>1, InterfaceParts, EntriesTyped
<1>3. x \in SUBSET Nat
  BY <1>1, InterfaceParts
<1>4. PICK b, c : b = [a EXCEPT !.groups = gs] /\ c = [b EXCEPT !.collapsed = x]
  BY Zenon
<1>5. b \in Interface
  BY <1>2, <1>4, FieldsTyped, Zenon
<1>6. c \in Interface
  BY <1>3, <1>4, <1>5, FieldsTyped, Zenon
<1>7. c = [a EXCEPT !.groups = gs, !.collapsed = x]
  BY <1>4
<1>8. ApplyGroupDeleted(a, e) = ClampCursor(c)
  BY <1>1, <1>7, Zenon DEF ApplyGroupDeleted
<1> QED
  BY <1>6, <1>8, ClampGood

\* An order names what there is.
LEMMA OrdersTyped ==
  ASSUME NEW all, IsFiniteSet(all), NEW ids, NEW o \in Orders(ids, all)
  PROVE  \E n \in Nat : o \in [1 .. n -> all] /\ DOMAIN o = 1 .. n
<1>1. o \in SetToSeqs(all)
  BY DEF Orders
<1>2. Cardinality(all) \in Nat
  BY FS_CardinalityType
<1>3. o \in [1 .. Cardinality(all) -> all]
  BY <1>1 DEF SetToSeqs
<1> QED
  BY <1>2, <1>3

LEMMA ReorderedGood == ASSUME NEW a \in Interface, NEW e, NEW b \in ApplyReordered(a, e) PROVE Good(b)
<1>1. CASE ~KnowsGroup(a, e.g)
  <2>1. b = ClampCursor(a)
    BY <1>1, Zenon DEF ApplyReordered
  <2> QED
    BY <2>1, ClampGood
<1>2. CASE KnowsGroup(a, e.g)
  <2>1. PICK ps \in Seq(Profile) : ps = ProfilesOf(a, e.g)
    BY <1>2, KnownGroup
  <2>2. PICK all : all = ToSet(Ids(ps))
    OBVIOUS
  <2>3. Ids(ps) \in Seq(Nat) /\ DOMAIN Ids(ps) = DOMAIN ps
    BY IdsTyped
  <2>4. IsFiniteSet(all)
    BY <2>2, <2>3, ValuesFinite
  <2>5. PICK o \in Orders(e.ids, all) : b = ClampCursor(SetProfiles(a, e.g, [i \in DOMAIN o |-> Find(ps, o[i])]))
    BY <1>2, <2>1, <2>2, Zenon DEF ApplyReordered
  <2>6. PICK n \in Nat : o \in [1 .. n -> all] /\ DOMAIN o = 1 .. n
    BY <2>4, OrdersTyped
  <2>7. PICK qs : qs = [i \in DOMAIN o |-> Find(ps, o[i])]
    BY Zenon
  <2>8. \A x \in all : \E i \in DOMAIN ps : ps[i].id = x
    BY <2>2, <2>3 DEF ToSet, Ids
  <2>9. \A i \in 1 .. n : Find(ps, o[i]) \in Profile
    BY <2>6, <2>8, FindTyped
  <2> HIDE DEF Profile
  <2>10. qs \in Seq(Profile)
    BY <2>6, <2>7, <2>9
  <2>11. SetProfiles(a, e.g, qs) \in Interface
    BY <2>10, SetTyped
  <2> QED
    BY <2>5, <2>7, <2>11, ClampGood
<1> QED
  BY <1>1, <1>2

LEMMA GroupIdsTyped ==
  ASSUME NEW a \in Interface
  PROVE  /\ GroupIds(a) \in Seq(Nat) /\ IsFiniteSet(ToSet(GroupIds(a)))
         /\ \A g \in ToSet(GroupIds(a)) : KnowsGroup(a, g) /\ a.groups[GroupIndex(a, g)] \in Group
<1>1. PICK n \in Nat : DOMAIN a.groups = 1 .. n /\ \A i \in 1 .. n : a.groups[i] \in Group
  BY InterfaceParts
<1>2. \A i \in 1 .. n : a.groups[i].id \in Nat
  BY <1>1, GroupParts
<1>3. GroupIds(a) = [i \in 1 .. n |-> a.groups[i].id]
  BY <1>1, Zenon DEF GroupIds
<1>4. GroupIds(a) \in Seq(Nat) /\ DOMAIN GroupIds(a) = 1 .. n
  BY <1>2, <1>3
<1>5. IsFiniteSet(ToSet(GroupIds(a)))
  BY <1>4, ValuesFinite
<1>6. ASSUME NEW g \in ToSet(GroupIds(a)) PROVE KnowsGroup(a, g) /\ a.groups[GroupIndex(a, g)] \in Group
  <2>1. \E i \in 1 .. n : a.groups[i].id = g
    BY <1>3, <1>4 DEF ToSet
  <2>2. KnowsGroup(a, g)
    BY <1>1, <2>1 DEF KnowsGroup
  <2>3. GroupIndex(a, g) \in DOMAIN a.groups
    BY <2>2, KnownGroup
  <2> QED
    BY <1>1, <2>2, <2>3, Zenon
<1> QED
  BY <1>4, <1>5, <1>6

LEMMA GroupsReorderedGood == ASSUME NEW a \in Interface, NEW e, NEW b \in ApplyGroupsReordered(a, e) PROVE Good(b)
<1>1. PICK all : all = ToSet(GroupIds(a))
  OBVIOUS
<1>2. PICK o \in Orders(e.ids, all) :
        b = ClampCursor([a EXCEPT !.groups = [i \in DOMAIN o |-> a.groups[GroupIndex(a, o[i])]]])
  BY <1>1, Zenon DEF ApplyGroupsReordered
<1>3. IsFiniteSet(all) /\ \A g \in all : a.groups[GroupIndex(a, g)] \in Group
  BY <1>1, GroupIdsTyped
<1>4. PICK n \in Nat : o \in [1 .. n -> all] /\ DOMAIN o = 1 .. n
  BY <1>3, OrdersTyped
<1>5. PICK gs : gs = [i \in DOMAIN o |-> a.groups[GroupIndex(a, o[i])]]
  BY Zenon
<1>6. \A i \in 1 .. n : a.groups[GroupIndex(a, o[i])] \in Group
  BY <1>3, <1>4
<1> HIDE DEF Group
<1>7. gs \in Seq(Group)
  BY <1>4, <1>5, <1>6
<1>8. [a EXCEPT !.groups = gs] \in Interface
  BY <1>7, FieldsTyped, Zenon
<1> QED
  BY <1>2, <1>5, <1>8, ClampGood

LEMMA MovedEventGood ==
  ASSUME NEW a \in Interface, NEW e, e.p \in Profile, e.to \in Nat
  PROVE  Good(ApplyMoved(a, e))
<1>1. PICK b : b = ApplyDeleted(a, e)
  OBVIOUS
<1>2. Good(b)
  BY <1>1, DeletedGood
<1>3. PICK c : c = IF KnowsGroup(b, e.to) THEN SetProfiles(b, e.to, Append(ProfilesOf(b, e.to), e.p)) ELSE b
  OBVIOUS
<1>4. Good(c)
  BY <1>2, <1>3, AppendGood, Zenon
<1>5. c \in Interface
  BY <1>4 DEF Good
<1>6. PICK r : r = IF c.conn = <<e.g, e.id>> THEN <<e.to, e.p.id>> ELSE c.conn
  BY Zenon
<1>7. r \in Refs
  <2>1. e.p.id \in Nat
    BY ProfileParts, Zenon
  <2>2. <<e.to, e.p.id>> \in Refs
    BY <2>1 DEF Refs
  <2>3. c.conn \in Refs
    BY <1>5, InterfaceParts
  <2> QED
    BY <1>6, <2>2, <2>3, Zenon
<1>8. [c EXCEPT !.conn = r] \in Interface
  BY <1>5, <1>7, FieldsTyped, Zenon
<1>9. ApplyMoved(a, e) = ClampCursor([c EXCEPT !.conn = r])
  BY <1>1, <1>3, <1>6, Zenon DEF ApplyMoved
<1> QED
  BY <1>8, <1>9, ClampGood

LEMMA StateGood ==
  ASSUME NEW a \in Interface, NEW e, e.groups \in Seq(Group), e.ref \in Refs
  PROVE  Good(ApplyState(a, e))
<1>1. PICK b : b = [a EXCEPT !.groups = e.groups]
  BY Zenon
<1>2. b \in Interface
  BY <1>1, FieldsTyped, Zenon
<1>3. PICK c : c = [b EXCEPT !.conn = e.ref]
  BY Zenon
<1>4. c \in Interface
  BY <1>2, <1>3, FieldsTyped, Zenon
<1>5. c = [a EXCEPT !.groups = e.groups, !.conn = e.ref]
  BY <1>1, <1>3
<1> QED
  BY <1>4, <1>5, ClampGood DEF ApplyState

LEMMA DetailsGood ==
  ASSUME NEW a, Good(a), NEW e, e.g \in Nat, e.id \in Nat, e.ver \in Nat
  PROVE  Good(ApplyDetails(a, e))
<1>1. a.pending \in SUBSET Refs /\ a.cached \in SUBSET Triples
  BY InterfaceParts DEF Good
<1>2. PICK p, q : /\ p = a.pending \ {<<e.g, e.id>>}
                  /\ q = {c \in a.cached : <<c[1], c[2]>> # <<e.g, e.id>>} \cup {<<e.g, e.id, e.ver>>}
  BY Zenon
<1>3. p \in SUBSET Refs
  BY <1>1, <1>2
<1>4. q \in SUBSET Triples
  <2>1. <<e.g, e.id, e.ver>> \in Triples
    BY DEF Triples
  <2>2. {c \in a.cached : <<c[1], c[2]>> # <<e.g, e.id>>} \in SUBSET Triples
    BY <1>1
  <2> QED
    BY <1>2, <2>1, <2>2
<1>5. PICK b, c : b = [a EXCEPT !.pending = p] /\ c = [b EXCEPT !.cached = q]
  BY Zenon
<1>6. Good(b)
  BY <1>3, <1>5, OthersKept, Zenon
<1>7. Good(c)
  BY <1>4, <1>5, <1>6, OthersKept, Zenon
<1>8. c = [a EXCEPT !.pending = p, !.cached = q]
  BY <1>5
<1>9. ApplyDetails(a, e) = c
  BY <1>2, <1>8, Zenon DEF ApplyDetails
<1> QED
  BY <1>7, <1>9

LEMMA GroupAddedGood ==
  ASSUME NEW a, Good(a), NEW g \in Nat
  PROVE  Good([a EXCEPT !.groups = Append(@, [id |-> g, ps |-> <<>>])])
<1>1. a \in Interface
  BY DEF Good
<1>2. PICK x : x = [id |-> g, ps |-> <<>>]
  BY Zenon
<1>3. x \in Group
  BY <1>2, NoneTyped DEF Group
<1>4. a.groups \in Seq(Group)
  BY <1>1, InterfaceParts
<1>5. PICK gs \in Seq(Group) : gs = Append(a.groups, x) /\ Len(gs) = Len(a.groups) + 1 /\ Len(a.groups) \in Nat
  BY <1>3, <1>4, AppendParts, Zenon
<1>6. \A i \in DOMAIN a.groups : gs[i] = a.groups[i]
  <2> HIDE DEF Group
  <2> QED
    BY <1>3, <1>4, <1>5
<1>7. PICK b : b = [a EXCEPT !.groups = gs]
  BY Zenon
<1>8. b \in Interface /\ b.groups = gs /\ b.query = a.query /\ b.collapsed = a.collapsed /\ b.cursor = a.cursor
  BY <1>1, <1>5, <1>7, Zenon DEF Interface
<1>9. \A i \in DOMAIN a.groups : Len(a.groups[i].ps) \in Nat
  BY <1>4, GroupParts
<1>10. \A i \in DOMAIN a.groups : b.groups[i].id = a.groups[i].id /\ Len(a.groups[i].ps) <= Len(b.groups[i].ps)
  BY <1>6, <1>8, <1>9
<1>11. Len(a.groups) <= Len(b.groups)
  BY <1>5, <1>8
<1>12. Good(b)
  BY <1>8, <1>10, <1>11, LongerGood, Zenon
<1>13. [a EXCEPT !.groups = Append(@, [id |-> g, ps |-> <<>>])] = b
  BY <1>2, <1>5, <1>7, Zenon
<1> QED
  BY <1>12, <1>13

\* What an event does to the copy leaves the cursor on a row.
LEMMA ApplyGood == ASSUME NEW a, Good(a), NEW e \in Event, NEW b \in Apply(a, e) PROVE Good(b)
<1>1. a \in Interface
  BY DEF Good
<1>2. e.k \in {"warn", "added", "updated", "deleted", "moved", "reordered", "groups", "groupadded", "groupdeleted",
               "subscription", "status", "state", "details"}
  BY EventParts
<1>3. CASE e.k = "added"
  <2>1. e.p \in Profile
    BY <1>3, EventParts
  <2>2. Good(ApplyAdded(a, e))
    BY <2>1, AppendGood, Zenon DEF ApplyAdded
  <2>3. b = CloseByEvent(ClearDetails(ApplyAdded(a, e)))
    BY <1>3 DEF Apply
  <2> QED
    BY <2>2, <2>3, ClearGood, CloseGood
<1>4. CASE e.k = "deleted"
  <2>1. b = CloseByEvent(ClearDetails(ApplyDeleted(a, e)))
    BY <1>4 DEF Apply
  <2> QED
    BY <1>1, <2>1, DeletedGood, ClearGood, CloseGood
<1>5. CASE e.k = "groupdeleted"
  <2>1. b = CloseByEvent(ClearDetails(ApplyGroupDeleted(a, e)))
    BY <1>5 DEF Apply
  <2> QED
    BY <1>1, <2>1, GroupDeletedGood, ClearGood, CloseGood
<1>6. CASE e.k = "moved"
  <2>1. b = CloseByEvent(ClearDetails(ApplyMoved(a, e)))
    BY <1>6 DEF Apply
  <2>2. e.p \in Profile /\ e.to \in Nat
    BY <1>6, EventParts
  <2> QED
    BY <1>1, <2>1, <2>2, MovedEventGood, ClearGood, CloseGood
<1>7. CASE e.k = "updated"
  <2>1. b = ApplyUpdated(a, e)
    BY <1>7 DEF Apply
  <2>2. e.p \in Profile
    BY <1>7, EventParts
  <2> QED
    BY <2>1, <2>2, UpdatedGood
<1>8. CASE e.k = "subscription"
  <2>1. b = ApplySubscription(a, e)
    BY <1>8 DEF Apply
  <2>2. e.ps \in Seq(Profile)
    BY <1>8, EventParts
  <2> QED
    BY <1>1, <2>1, <2>2, SubscriptionGood
<1>9. CASE e.k = "groupadded"
  <2>1. b = [a EXCEPT !.groups = Append(@, [id |-> e.g, ps |-> <<>>])]
    BY <1>9 DEF Apply
  <2>2. e.g \in Nat
    BY <1>9, EventParts
  <2> QED
    BY <2>1, <2>2, GroupAddedGood
<1>10. CASE e.k = "reordered"
  <2>1. b \in ApplyReordered(a, e)
    BY <1>10 DEF Apply
  <2> QED
    BY <1>1, <2>1, ReorderedGood
<1>11. CASE e.k = "groups"
  <2>1. b \in ApplyGroupsReordered(a, e)
    BY <1>11 DEF Apply
  <2> QED
    BY <1>1, <2>1, GroupsReorderedGood
<1>12. CASE e.k = "status"
  <2>1. b = [a EXCEPT !.conn = e.ref]
    BY <1>12 DEF Apply
  <2>2. e.ref \in Refs
    BY <1>12, EventParts
  <2> QED
    BY <2>1, <2>2, OthersKept, Zenon
<1>13. CASE e.k = "state"
  <2>1. b = ApplyState(a, e)
    BY <1>13 DEF Apply
  <2>2. e.groups \in Seq(Group) /\ e.ref \in Refs
    BY <1>13, EventParts
  <2> QED
    BY <1>1, <2>1, <2>2, StateGood
<1>14. CASE e.k = "details"
  <2>1. b = ApplyDetails(a, e)
    BY <1>14 DEF Apply
  <2>2. e.g \in Nat /\ e.id \in Nat /\ e.ver \in Nat
    BY <1>14, EventParts
  <2> QED
    BY <2>1, <2>2, DetailsGood
<1>15. CASE e.k = "warn"
  <2>1. b = a
    BY <1>15 DEF Apply
  <2> QED
    BY <2>1
<1> QED
  BY <1>2, <1>3, <1>4, <1>5, <1>6, <1>7, <1>8, <1>9, <1>10, <1>11, <1>12, <1>13, <1>14, <1>15

-----------------------------------------------------------------------------
(* The steps of the interface and the core.                                *)

LEMMA ScrolledGood == ASSUME NEW a, Good(a) PROVE Good(Scrolled(a))
<1>1. a \in Interface
  BY DEF Good
<1>2. a.cursor \in Nat /\ a.cursor # 0 /\ a.scroll \in Nat
  BY <1>1, InterfaceParts
<1>3. PICK pos \in Nat : pos = IF Row(a) = NoRow THEN 0 ELSE a.cursor - 1
  BY <1>2
<1>4. PICK visible \in Nat : visible = Height - 1
  BY TreeAssumption
<1>5. Scrolled(a) = IF Rows(a) = <<>> THEN a
                    ELSE IF pos < a.scroll THEN [a EXCEPT !.scroll = pos]
                    ELSE IF pos >= a.scroll + visible THEN [a EXCEPT !.scroll = pos - visible + 1]
                    ELSE a
  BY <1>3, <1>4, Zenon DEF Scrolled
<1>6. CASE pos >= a.scroll + visible
  <2>1. PICK n \in Nat : n = pos - visible + 1
    BY <1>2, <1>6
  <2>2. Good([a EXCEPT !.scroll = n]) /\ Good([a EXCEPT !.scroll = pos])
    BY OthersKept, Zenon
  <2> QED
    BY <1>5, <2>1, <2>2, Zenon
<1>7. CASE ~(pos >= a.scroll + visible)
  <2>1. Good([a EXCEPT !.scroll = pos])
    BY OthersKept, Zenon
  <2> QED
    BY <1>5, <1>7, <2>1, Zenon
<1> QED
  BY <1>6, <1>7

LEMMA RequestMade ==
  /\ [k |-> "state"] \in Request
  /\ \A g \in Nat : /\ [k |-> "add", g |-> g] \in Request /\ [k |-> "refresh", g |-> g] \in Request
                    /\ [k |-> "delgroup", g |-> g] \in Request /\ [k |-> "addgroup", g |-> g] \in Request
  /\ \A k \in {"delete", "rename", "delgroup", "connect", "details"}, g, i \in Nat :
       [k |-> k, g |-> g, id |-> i] \in Request
  /\ \A k \in {"delete", "rename", "move"}, g, i, t \in Nat : [k |-> k, g |-> g, id |-> i, to |-> t] \in Request
  /\ \A g \in Nat, ids \in Seq(Nat) : [k |-> "reorder", g |-> g, ids |-> ids] \in Request
  /\ \A ids \in Seq(Nat) : [k |-> "groups", ids |-> ids] \in Request
  BY DEF Request

LEMMA LoopGood ==
  ASSUME NEW a, Good(a), NEW rs, rs \in Seq(Request), toCore \in Seq(Request), Loop(a, rs)
  PROVE  Good(app') /\ toCore' \in Seq(Request)
<1>1. a \in Interface
  BY DEF Good
<1>2. PICK ref, q : ref = <<Row(a).g, Row(a).id>> /\ q = [k |-> "details", g |-> Row(a).g, id |-> Row(a).id]
  BY Zenon
<1>3. Row(a).g \in Nat /\ Row(a).id \in Nat
  BY <1>1, RowTyped
<1>4. ref \in Refs
  BY <1>2, <1>3 DEF Refs
<1>5. q \in Request
  BY <1>2, <1>3, RequestMade, Zenon
<1>6. PICK x : x = a.pending \cup {ref}
  BY Zenon
<1>7. x \in SUBSET Refs
  BY <1>1, <1>4, <1>6, InterfaceParts
<1>8. Good([a EXCEPT !.pending = x])
  BY <1>7, OthersKept, Zenon
<1>9. CASE DetailsWanted(a)
  <2>1. app' = Scrolled([a EXCEPT !.pending = x]) /\ toCore' = toCore \o rs \o <<q>>
    <3>1. ref[1] = Row(a).g /\ ref[2] = Row(a).id
      BY <1>2
    <3>2. /\ app' = Scrolled([a EXCEPT !.pending = @ \cup {<<Row(a).g, Row(a).id>>}])
          /\ toCore' = toCore \o rs \o
               <<[k |-> "details", g |-> <<Row(a).g, Row(a).id>>[1], id |-> <<Row(a).g, Row(a).id>>[2]]>>
      BY <1>9, Zenon DEF Loop
    <3> QED
      BY <1>2, <1>6, <3>1, <3>2, Zenon
  <2> HIDE DEF Request
  <2>2. toCore \o rs \o <<q>> \in Seq(Request)
    BY <1>5
  <2>3. Good(Scrolled([a EXCEPT !.pending = x]))
    BY <1>8, ScrolledGood
  <2> QED
    BY <2>1, <2>2, <2>3, Zenon
<1>10. CASE ~DetailsWanted(a)
  <2>1. app' = Scrolled(a) /\ toCore' = toCore \o rs
    BY <1>10, Zenon DEF Loop
  <2>2. Good(Scrolled(a))
    BY ScrolledGood
  <2> HIDE DEF Request
  <2>3. toCore \o rs \in Seq(Request)
    OBVIOUS
  <2> QED
    BY <2>1, <2>2, <2>3, Zenon
<1> QED
  BY <1>9, <1>10

\* The data have their shape, on both sides and on the way, and the cursor is on a row.
TreeInv ==
  /\ db \in Database /\ sending \in [{"tui", "other"} -> Event \cup {NoEvent}]
  /\ toCore \in Seq(Request) /\ toTui \in Seq(Event)
  /\ Good(app)

LEMMA QueueParts ==
  ASSUME NEW S, NEW s \in Seq(S), s # <<>>
  PROVE  Head(s) \in S /\ Tail(s) \in Seq(S)
  OBVIOUS

LEMMA KeyKeeps == ASSUME TreeInv, NEW a, Good(a), Key(a) PROVE TreeInv'
<1>1. Loop(a, <<>>) /\ UNCHANGED <<db, sending, toTui>>
  BY DEF Key, Ui
<1>2. toCore \in Seq(Request)
  BY DEF TreeInv
<1> HIDE DEF Request
<1>3. <<>> \in Seq(Request)
  OBVIOUS
<1>4. Good(app') /\ toCore' \in Seq(Request)
  BY <1>1, <1>2, <1>3, LoopGood, Zenon
<1> QED
  BY <1>1, <1>4 DEF TreeInv

LEMMA AskKeeps == ASSUME TreeInv, NEW a, Good(a), NEW rs, rs \in Seq(Request), Ask(a, rs) PROVE TreeInv'
<1>1. Loop(a, rs) /\ UNCHANGED <<db, sending, toTui>>
  BY DEF Ask, Ui
<1>2. toCore \in Seq(Request)
  BY DEF TreeInv
<1>3. Good(app') /\ toCore' \in Seq(Request)
  BY <1>1, <1>2, LoopGood
<1> QED
  BY <1>1, <1>3 DEF TreeInv

LEMMA RunKeeps ==
  ASSUME TreeInv, NEW c \in {"tui", "other"}, NEW r \in Request, Run(c, r)
  PROVE  db' \in Database /\ sending' \in [{"tui", "other"} -> Event \cup {NoEvent}]
<1>1. Exec(db, r).db \in Database /\ Exec(db, r).ev \in Event
  BY ExecTyped DEF TreeInv
<1>2. PICK e \in Event : e = Exec(db, r).ev
  BY <1>1
<1>3. sending' = [sending EXCEPT ![c] = e] /\ db' = Exec(db, r).db
  BY <1>2 DEF Run
<1> HIDE DEF Event
<1>4. sending' \in [{"tui", "other"} -> Event \cup {NoEvent}]
  BY <1>2, <1>3 DEF TreeInv
<1> QED
  BY <1>1, <1>3, <1>4

LEMMA HandleKeeps == ASSUME TreeInv, HandleRequest PROVE TreeInv'
<1>1. toCore \in Seq(Request) /\ toCore # <<>>
  BY DEF TreeInv, HandleRequest
<1>2. Head(toCore) \in Request /\ Tail(toCore) \in Seq(Request)
  BY <1>1, QueueParts
<1>3. PICK r \in Request : r = Head(toCore)
  BY <1>2
<1>4. Run("tui", r) /\ toCore' = Tail(toCore) /\ UNCHANGED <<toTui, app>>
  BY <1>3 DEF HandleRequest
<1>5. db' \in Database /\ sending' \in [{"tui", "other"} -> Event \cup {NoEvent}]
  BY <1>4, RunKeeps
<1> QED
  BY <1>2, <1>4, <1>5 DEF TreeInv

LEMMA WiderTyped == ASSUME NEW S, NEW T \in SUBSET S, NEW s \in Seq(T) PROVE s \in Seq(S)
  OBVIOUS

LEMMA OthersTyped == ASSUME TreeInv, NEW r \in OtherRequests PROVE r \in Request
<1>1. /\ db.order \in Seq(GroupNumbers) /\ GroupNumbers \in SUBSET Nat /\ GidsOf(db) \in SUBSET GroupNumbers
      /\ \A g \in GidsOf(db) : db.ps[g] \in Seq(Profile)
  BY DatabaseParts DEF TreeInv
<1>2. \A s \in Seq(Nat) : Reverse(s) \in Seq(Nat)
  BY DEF Reverse
<1>3. \A g \in GidsOf(db) : g \in Nat
  BY <1>1, Zenon
<1>4. ASSUME r \in GroupRequests PROVE r \in Request
  <2>1. db.order \in Seq(Nat)
    BY <1>1, WiderTyped, Zenon
  <2> QED
    BY <1>2, <1>3, <1>4, <2>1 DEF GroupRequests, Request
<1>5. ASSUME NEW g \in GidsOf(db), r \in ProfileRequests(g) PROVE r \in Request
  <2>1. Ids(db.ps[g]) \in Seq(Nat)
    BY <1>1, IdsTyped
  <2>2. ToSet(Ids(db.ps[g])) \in SUBSET Nat
    BY <2>1, ValuesFinite
  <2>3. GidsOf(db) \ {g} \in SUBSET Nat /\ g \in Nat
    BY <1>3
  <2>4. Reverse(Ids(db.ps[g])) \in Seq(Nat)
    BY <1>2, <2>1
  <2> QED
    BY <1>5, <2>2, <2>3, <2>4 DEF ProfileRequests, Request
<1> QED
  BY <1>4, <1>5 DEF OtherRequests

LEMMA OtherKeeps == ASSUME TreeInv, OtherChange PROVE TreeInv'
<1>1. PICK r \in OtherRequests : Run("other", r)
  BY DEF OtherChange
<1>2. r \in Request
  BY OthersTyped
<1>3. db' \in Database /\ sending' \in [{"tui", "other"} -> Event \cup {NoEvent}]
  BY <1>1, <1>2, RunKeeps
<1> QED
  BY <1>3 DEF TreeInv, OtherChange

LEMMA BroadcastKeeps == ASSUME TreeInv, NEW c \in {"tui", "other"}, Broadcast(c) PROVE TreeInv'
<1> HIDE DEF Event
<1>1. sending[c] \in Event
  BY DEF TreeInv, Broadcast
<1>2. toTui' \in Seq(Event)
  BY <1>1, AppendParts DEF TreeInv, Broadcast
<1>3. sending' \in [{"tui", "other"} -> Event \cup {NoEvent}]
  BY DEF TreeInv, Broadcast
<1> QED
  BY <1>2, <1>3 DEF TreeInv, Broadcast

LEMMA TreeEventKeeps == ASSUME TreeInv, HandleCoreEvent PROVE TreeInv'
<1>1. toTui \in Seq(Event) /\ toTui # <<>> /\ Good(app) /\ toCore \in Seq(Request)
  BY DEF TreeInv, HandleCoreEvent
<1>2. Head(toTui) \in Event /\ Tail(toTui) \in Seq(Event)
  BY <1>1, QueueParts
<1>3. PICK e \in Event : e = Head(toTui)
  BY <1>2
<1>4. PICK a \in Apply(app, e) : Loop(a, <<>>)
  BY <1>3, Zenon DEF HandleCoreEvent
<1>5. Good(a)
  BY <1>1, <1>4, ApplyGood
<1>6. <<>> \in Seq(Request)
  <2> HIDE DEF Request
  <2> QED
    OBVIOUS
<1>7. Good(app') /\ toCore' \in Seq(Request)
  BY <1>1, <1>4, <1>5, <1>6, LoopGood, Zenon
<1> QED
  BY <1>2, <1>7 DEF TreeInv, HandleCoreEvent

LEMMA ReconnectedKeeps == ASSUME TreeInv, Reconnected PROVE TreeInv'
<1>1. Good(app')
  BY ClearGood DEF TreeInv, Reconnected
<1>2. [k |-> "state"] \in Request
  BY RequestMade
<1> HIDE DEF Request, Event
<1>3. toCore' \in Seq(Request)
  BY <1>2, OneTyped DEF Reconnected
<1>4. toTui' \in Seq(Event)
  BY DEF Reconnected
<1>5. sending' \in [{"tui", "other"} -> Event \cup {NoEvent}]
  BY DEF TreeInv, Reconnected
<1> QED
  BY <1>1, <1>3, <1>4, <1>5 DEF TreeInv, Reconnected

-----------------------------------------------------------------------------
(* Keys and clicks.                                                        *)

LEMMA AppTyped ==
  TreeInv => /\ Good(app) /\ app \in Interface /\ app.popup \in Popup
             /\ Row(app).g \in Nat /\ Row(app).id \in Nat
<1> SUFFICES ASSUME TreeInv PROVE Good(app) /\ app \in Interface /\ app.popup \in Popup
                                  /\ Row(app).g \in Nat /\ Row(app).id \in Nat
  OBVIOUS
<1>1. Good(app) /\ app \in Interface
  BY DEF TreeInv, Good
<1> QED
  BY <1>1, InterfaceParts, RowTyped

LEMMA ConnectTyped == ASSUME NEW a \in Interface PROVE Connect(a) \in Seq(Request)
<1>1. [k |-> "connect", g |-> Row(a).g, id |-> Row(a).id] \in Request
  BY RowTyped, RequestMade
<1> QED
  BY <1>1, OneTyped DEF Connect

LEMMA MoveRequestTyped ==
  ASSUME NEW a \in Interface, NEW b \in Interface, Row(a).gi \in DOMAIN b.groups
  PROVE  MoveRequest(a, b) \in Seq(Request)
<1>1. CASE OnGroup(a)
  <2>1. GroupIds(b) \in Seq(Nat)
    BY GroupIdsTyped
  <2>2. [k |-> "groups", ids |-> GroupIds(b)] \in Request
    BY <2>1, RequestMade
  <2> QED
    BY <1>1, <2>2, OneTyped DEF MoveRequest
<1>2. CASE ~OnGroup(a)
  <2>1. b.groups[Row(a).gi].ps \in Seq(Profile)
    BY InterfaceParts, GroupParts
  <2>2. Ids(b.groups[Row(a).gi].ps) \in Seq(Nat) /\ Row(a).g \in Nat
    BY <2>1, IdsTyped, RowTyped
  <2>3. [k |-> "reorder", g |-> Row(a).g, ids |-> Ids(b.groups[Row(a).gi].ps)] \in Request
    BY <2>2, RequestMade
  <2> QED
    BY <1>2, <2>3, OneTyped DEF MoveRequest
<1> QED
  BY <1>1, <1>2

\* A popup is opened or closed, and the focus goes with it.
LEMMA PopupGood ==
  ASSUME NEW a, Good(a), NEW p \in Popup, NEW f \in {"left", "popup"}
  PROVE  Good([a EXCEPT !.popup = p, !.focus = f])
<1>1. PICK b, c : b = [a EXCEPT !.popup = p] /\ c = [b EXCEPT !.focus = f]
  BY Zenon
<1>2. Good(b)
  BY <1>1, OthersKept, Zenon
<1>3. Good(c)
  BY <1>1, <1>2, OthersKept, Zenon
<1>4. c = [a EXCEPT !.popup = p, !.focus = f]
  BY <1>1
<1> QED
  BY <1>3, <1>4

LEMMA ClosedGood == TreeInv => Good(Closed)
<1>1. NoPopup \in Popup
  BY DEF NoPopup, Popup
<1>2. PICK p : p = NoPopup
  OBVIOUS
<1>3. TreeInv => Good([app EXCEPT !.popup = p, !.focus = "left"])
  BY <1>1, <1>2, AppTyped, PopupGood, Zenon
<1> QED
  BY <1>2, <1>3, Zenon DEF Closed

LEMMA MoveCursorKeeps == ASSUME TreeInv, MoveCursor PROVE TreeInv'
<1>1. PICK a \in CursorMoves(app) : Key(a)
  BY DEF MoveCursor
<1>2. Good(a)
  BY <1>1, AppTyped, MovesGood
<1> QED
  BY <1>1, <1>2, KeyKeeps

LEMMA FoldKeeps == ASSUME TreeInv, Fold PROVE TreeInv'
<1>1. PICK a : Key(a) /\ (a = CursorLeft(app) \/ a = CursorRight(app))
  BY Zenon DEF Fold
<1>2. Good(a)
  BY <1>1, AppTyped, LeftGood, RightGood
<1> QED
  BY <1>1, <1>2, KeyKeeps

\* The search starts, changes or ends; the cursor goes to the first row.
LEMMA SearchGood ==
  ASSUME NEW a \in Interface, NEW q \in {"none", "all", "some"}, NEW m \in BOOLEAN
  PROVE  /\ Good([a EXCEPT !.mode = m, !.query = q, !.cursor = 1]) /\ Good([a EXCEPT !.query = q, !.cursor = 1])
         /\ [a EXCEPT !.query = q] \in Interface
<1>0. PICK n \in Nat : n = 1 /\ n # 0
  OBVIOUS
<1>1. PICK b, c : b = [a EXCEPT !.query = q] /\ c = [b EXCEPT !.cursor = n]
  BY Zenon
<1>2. b \in Interface
  BY <1>1, FieldsTyped, Zenon
<1>3. Good(c)
  BY <1>0, <1>1, <1>2, CursorSet, Zenon
<1>4. c = [a EXCEPT !.query = q, !.cursor = 1]
  BY <1>0, <1>1
<1>5. PICK d : d = [c EXCEPT !.mode = m]
  BY Zenon
<1>6. Good(d)
  BY <1>3, <1>5, OthersKept, Zenon
<1>7. d = [a EXCEPT !.mode = m, !.query = q, !.cursor = 1]
  BY <1>0, <1>1, <1>5, Zenon
<1> QED
  BY <1>1, <1>2, <1>3, <1>4, <1>6, <1>7, Zenon

LEMMA FocusKeeps == ASSUME TreeInv, Focus PROVE TreeInv'
<1>1. Good(app) /\ app \in Interface
  BY AppTyped
<1>2. PICK f : f = CASE app.focus = "right" -> "left"
                     [] app.focus = "left" /\ Row(app) # NoRow -> "right"
                     [] OTHER -> app.focus
  OBVIOUS
<1>3. f \in {"left", "right", "popup"}
  BY <1>1, <1>2, InterfaceParts
<1>4. PICK n : n = IF app.query = "none" THEN app.cursor ELSE 1
  OBVIOUS
<1>5. n \in Nat /\ n # 0
  BY <1>1, <1>4, InterfaceParts
<1>6. PICK a : Key(a) /\ \/ a = [app EXCEPT !.focus = f] \/ a = [app EXCEPT !.focus = "left"]
                         \/ a = ClampCursor([app EXCEPT !.query = "none", !.cursor = n])
  BY <1>2, <1>4, Zenon DEF Focus
<1>7. PICK b, c : b = [app EXCEPT !.query = "none"] /\ c = [b EXCEPT !.cursor = n]
  BY Zenon
<1>8. b \in Interface
  BY <1>1, <1>7, FieldsTyped, Zenon
<1>9. c \in Interface
  BY <1>5, <1>7, <1>8, CursorSet, Zenon
<1>10. c = [app EXCEPT !.query = "none", !.cursor = n]
  BY <1>7
<1>11. Good(ClampCursor(c))
  BY <1>9, ClampGood
<1>12. Good([app EXCEPT !.focus = f]) /\ Good([app EXCEPT !.focus = "left"])
  BY <1>1, <1>3, OthersKept, Zenon
<1>13. Good(a)
  BY <1>6, <1>10, <1>11, <1>12, Zenon
<1> QED
  BY <1>6, <1>13, KeyKeeps

LEMMA SearchKeeps == ASSUME TreeInv, StartSearch \/ SearchKey PROVE TreeInv'
<1>1. Good(app) /\ app \in Interface
  BY AppTyped
<1>2. PICK b : b = [app EXCEPT !.mode = FALSE, !.query = "none", !.cursor = 1]
  OBVIOUS
<1>3. Good(b)
  BY <1>1, <1>2, SearchGood, Zenon
<1>4. Good(ClampCursor(b))
  BY <1>3, ClampGood DEF Good
<1>5. PICK a : Key(a) /\ \/ a = [app EXCEPT !.mode = TRUE, !.query = "all", !.cursor = 1]
                         \/ \E q \in {"all", "some"} : a = [app EXCEPT !.query = q, !.cursor = 1]
                         \/ a = ClampCursor(b) \/ a = [app EXCEPT !.mode = FALSE]
  BY <1>2, Zenon DEF StartSearch, SearchKey
<1>6. Good([app EXCEPT !.mode = TRUE, !.query = "all", !.cursor = 1])
  BY <1>1, SearchGood, Zenon
<1>7. \A q \in {"all", "some"} : Good([app EXCEPT !.query = q, !.cursor = 1])
  BY <1>1, SearchGood, Zenon
<1>8. Good([app EXCEPT !.mode = FALSE])
  BY <1>1, OthersKept, Zenon
<1>9. Good(a)
  BY <1>4, <1>5, <1>6, <1>7, <1>8, Zenon
<1> QED
  BY <1>5, <1>9, KeyKeeps

LEMMA EnterKeeps == ASSUME TreeInv, Enter PROVE TreeInv'
<1>1. Good(app) /\ app \in Interface /\ Row(app).g \in Nat
  BY AppTyped
<1>2. PICK a, rs : a = ToggleCollapsed(app, Row(app).g) /\ rs = Connect(app)
  OBVIOUS
<1>3. Good(a) /\ rs \in Seq(Request)
  BY <1>1, <1>2, ToggleGood, ConnectTyped
<1>4. Ask(app, rs) \/ Key(a)
  BY <1>2, Zenon DEF Enter
<1> QED
  BY <1>1, <1>3, <1>4, KeyKeeps, AskKeeps

LEMMA MoveItemKeeps == ASSUME TreeInv, MoveItem PROVE TreeInv'
<1>1. Good(app) /\ app \in Interface
  BY AppTyped
<1>2. PICK d : Moved(app, d) # app /\ Ask(Moved(app, d), MoveRequest(app, Moved(app, d)))
  BY DEF MoveItem
<1>3. PICK b : b = Moved(app, d)
  OBVIOUS
<1>4. Good(b) /\ Row(app).gi \in DOMAIN b.groups
  BY <1>1, <1>2, <1>3, MovedGood DEF Swapped
<1>5. PICK rs : rs = MoveRequest(app, b)
  OBVIOUS
<1>6. rs \in Seq(Request)
  BY <1>1, <1>4, <1>5, MoveRequestTyped DEF Good
<1>7. Ask(b, rs)
  BY <1>2, <1>3, <1>5, Zenon
<1> QED
  BY <1>4, <1>6, <1>7, AskKeeps

LEMMA PopupsTyped == ASSUME TreeInv, NEW p, p \in Popups \/ p \in Help PROVE p \in Popup
<1>1. Row(app).g \in Nat /\ Row(app).id \in Nat
  BY AppTyped
<1> QED
  BY <1>1 DEF Popups, Help, Popup

LEMMA OpenPopupKeeps == ASSUME TreeInv, OpenPopup PROVE TreeInv'
<1>1. PICK p : (p \in Popups \/ p \in Help) /\ Key([app EXCEPT !.popup = p, !.focus = "popup"])
  BY Zenon DEF OpenPopup
<1>2. p \in Popup
  BY <1>1, PopupsTyped
<1>3. PICK a : a = [app EXCEPT !.popup = p, !.focus = "popup"]
  OBVIOUS
<1>4. Good(a)
  BY <1>2, <1>3, AppTyped, PopupGood, Zenon
<1>5. Key(a)
  BY <1>1, <1>3, Zenon
<1> QED
  BY <1>4, <1>5, KeyKeeps

LEMMA ClosedKeeps == ASSUME TreeInv, PopupEsc \/ SwitchTab PROVE TreeInv'
<1>1. PICK a : a = Closed
  OBVIOUS
<1>2. Key(a)
  BY <1>1, Zenon DEF PopupEsc, SwitchTab
<1>3. Good(a)
  BY <1>1, ClosedGood
<1> QED
  BY <1>2, <1>3, KeyKeeps

LEMMA PopupEnterTyped ==
  ASSUME TreeInv, PopupEnter PROVE \E a, rs : a = Closed /\ rs \in Seq(Request) /\ Ask(a, rs)
<1>1. app.popup \in Popup /\ Row(app).g \in Nat
  BY AppTyped
<1>2. PICK p : p = app.popup
  OBVIOUS
<1>3. p.g \in Nat /\ p.id \in Nat
  BY <1>1, <1>2 DEF Popup
<1>4. PICK r : r = CASE p.k = "import" -> ImportRequest
                     [] p.k \in {"addgroup", "editsub"} -> EditorRequest(p)
                     [] OTHER -> [k |-> p.k, g |-> p.g, id |-> p.id]
  BY Zenon
<1>5. p.k \in {"import", "addgroup", "rename", "delete", "delgroup", "editsub"}
  BY <1>2 DEF PopupEnter
<1>6. ImportRequest \in Request
  BY <1>1, RequestMade, Zenon DEF ImportRequest
<1>7. EditorRequest(p) \in Request
  BY <1>3, RequestMade, Zenon DEF EditorRequest
<1>8. p.k \in {"rename", "delete", "delgroup"} => [k |-> p.k, g |-> p.g, id |-> p.id] \in Request
  BY <1>3, RequestMade
<1>9. r \in Request
  BY <1>4, <1>5, <1>6, <1>7, <1>8
<1>10. PICK a, rs : a = Closed /\ rs = <<r>>
  BY Zenon
<1>11. rs \in Seq(Request)
  BY <1>9, <1>10, OneTyped
<1>12. Ask(a, rs)
  BY <1>2, <1>4, <1>10, Zenon DEF PopupEnter
<1> QED
  BY <1>10, <1>11, <1>12, Zenon

LEMMA PopupEnterKeeps == ASSUME TreeInv, PopupEnter PROVE TreeInv'
<1>1. PICK a, rs : a = Closed /\ rs \in Seq(Request) /\ Ask(a, rs)
  BY PopupEnterTyped
<1>2. Good(a)
  BY <1>1, ClosedGood
<1> QED
  BY <1>1, <1>2, AskKeeps

LEMMA AskUpdateKeeps == ASSUME TreeInv, AskUpdate PROVE TreeInv'
<1>1. Good(app) /\ Row(app).g \in Nat
  BY AppTyped
<1>2. PICK rs : rs = <<[k |-> "refresh", g |-> Row(app).g]>>
  BY Zenon
<1>3. rs \in Seq(Request)
  BY <1>1, <1>2, RequestMade, OneTyped, Zenon
<1>4. Ask(app, rs)
  BY <1>2, Zenon DEF AskUpdate
<1> QED
  BY <1>1, <1>3, <1>4, AskKeeps

LEMMA ClickKeeps == ASSUME TreeInv, NEW row \in 1 .. Height, ClickTree(row) PROVE TreeInv'
<1>1. Good(app) /\ app \in Interface
  BY AppTyped
<1>2. PICK a : a = [app EXCEPT !.focus = "left"]
  BY Zenon
<1>3. Good(a)
  BY <1>1, <1>2, OthersKept, Zenon
<1>4. a \in Interface
  BY <1>3 DEF Good
<1>5. Row(a).g \in Nat
  BY <1>4, RowTyped
<1>6. PICK n : n = Target(row)
  OBVIOUS
<1>7. PICK b, c, rs : b = [a EXCEPT !.cursor = n] /\ c = ToggleCollapsed(a, Row(a).g) /\ rs = Connect(a)
  BY Zenon
<1>8. Key(a) \/ (n \in DOMAIN Rows(a) /\ Key(b)) \/ Key(c) \/ Ask(a, rs)
  BY <1>2, <1>6, <1>7, Zenon DEF ClickTree
<1>9. Good(c) /\ rs \in Seq(Request)
  BY <1>4, <1>5, <1>7, ToggleGood, ConnectTyped
<1>10. ASSUME n \in DOMAIN Rows(a) PROVE Good(b)
  <2>1. n \in Nat /\ n # 0 /\ n <= Len(Rows(a))
    BY <1>4, <1>10, RowsTyped
  <2> QED
    BY <1>4, <1>7, <2>1, CursorSet
<1> QED
  BY <1>3, <1>8, <1>9, <1>10, KeyKeeps, AskKeeps

LEMMA MouseKeeps == ASSUME TreeInv, Mouse PROVE TreeInv'
<1>1. CASE ClickDetails
  <2>1. PICK a : a = [app EXCEPT !.focus = "right"]
    BY Zenon
  <2>2. Good(a)
    BY <2>1, AppTyped, OthersKept, Zenon
  <2>3. Key(a)
    BY <1>1, <2>1, Zenon DEF ClickDetails
  <2> QED
    BY <2>2, <2>3, KeyKeeps
<1>2. CASE \E row \in 1 .. Height : ClickTree(row)
  BY <1>2, ClickKeeps
<1> QED
  BY <1>1, <1>2 DEF Mouse

LEMMA KeysKeep == ASSUME TreeInv, Keys PROVE TreeInv'
<1> QED
  BY MoveCursorKeeps, FocusKeeps, EnterKeeps, FoldKeeps, MoveItemKeeps, SearchKeeps, OpenPopupKeeps, ClosedKeeps,
     PopupEnterKeeps, AskUpdateKeeps, Zenon DEF Keys

LEMMA TreeStarts == TreeInit => TreeInv
<1> SUFFICES ASSUME TreeInit PROVE TreeInv
  OBVIOUS
<1>1. GroupNumbers \in SUBSET Nat /\ 1 \in GroupNumbers /\ 2 \in GroupNumbers
  BY TreeAssumption DEF GroupNumbers
<1>2. PICK P, L : /\ P = [g \in GroupNumbers |-> CASE g = 1 -> <<Prof(1, 1), Prof(2, 1)>>
                                                 [] g = 2 -> <<Prof(1, 1)>> [] OTHER -> <<>>]
                  /\ L = [g \in GroupNumbers |-> IF g = 1 THEN 2 ELSE IF g = 2 THEN 1 ELSE 0]
  BY Zenon
<1>3. PICK p, q : p = Prof(1, 1) /\ q = Prof(2, 1) /\ p \in Profile /\ q \in Profile
  BY NewTyped
<1>4. P \in [GroupNumbers -> Seq(Profile)]
  <2>1. <<Prof(1, 1), Prof(2, 1)>> \in Seq(Profile) /\ <<Prof(1, 1)>> \in Seq(Profile) /\ <<>> \in Seq(Profile)
    <3> HIDE DEF Profile
    <3>1. <<p, q>> \in Seq(Profile) /\ <<p>> \in Seq(Profile) /\ <<>> \in Seq(Profile)
      BY <1>3
    <3> QED
      BY <1>3, <3>1, Zenon
  <2> HIDE DEF Profile, GroupNumbers
  <2> QED
    BY <1>2, <2>1
<1>5. L \in [GroupNumbers -> Nat]
  <2> HIDE DEF GroupNumbers
  <2> QED
    BY <1>2
<1>6. PICK o : o = <<1, 2>>
  BY Zenon
<1>7. o \in Seq(GroupNumbers)
  <2> HIDE DEF GroupNumbers
  <2> QED
    BY <1>1, <1>6
<1>8. PICK none : none = NoRef
  OBVIOUS
<1>9. none \in Refs
  BY <1>8 DEF NoRef, Refs
<1>10. db = [order |-> o, ps |-> P, last |-> L, glast |-> 2, conn |-> none]
  BY <1>2, <1>6, <1>8, Zenon DEF TreeInit, GroupNumbers
<1>11. db \in Database
  <2> HIDE DEF GroupNumbers, Profile, Refs
  <2> QED
    BY <1>1, <1>4, <1>5, <1>7, <1>9, <1>10 DEF Database
<1>12. PICK gs : gs = Snapshot(db) /\ gs \in Seq(Group)
  BY <1>11, SnapshotTyped
<1>13. NoPopup \in Popup
  BY DEF NoPopup, Popup
<1>14. PICK np : np = NoPopup
  OBVIOUS
<1>15. app = [groups |-> gs, cursor |-> 1, scroll |-> 0, collapsed |-> {}, query |-> "none", mode |-> FALSE,
              focus |-> "left", popup |-> np, conn |-> none, cached |-> {}, pending |-> {}]
  BY <1>8, <1>12, <1>14, Zenon DEF TreeInit
<1>16. app \in Interface /\ app.cursor = 1
  <2> HIDE DEF Group, Popup, Refs, Triples
  <2> QED
    BY <1>9, <1>12, <1>13, <1>14, <1>15 DEF Interface
<1>17. Good(app)
  BY <1>16 DEF Good, OnRow
<1>18. toCore \in Seq(Request) /\ toTui \in Seq(Event)
  <2> HIDE DEF Request, Event
  <2> QED
    BY DEF TreeInit
<1>19. sending \in [{"tui", "other"} -> Event \cup {NoEvent}]
  <2> HIDE DEF Event
  <2> QED
    BY DEF TreeInit
<1> QED
  BY <1>11, <1>17, <1>18, <1>19 DEF TreeInv

LEMMA TreeStays == TreeInv /\ UNCHANGED treeVars => TreeInv'
  BY DEF TreeInv, treeVars

LEMMA TreeKeeps == TreeInv /\ [TreeNext]_treeVars => TreeInv'
<1> SUFFICES ASSUME TreeInv, [TreeNext]_treeVars PROVE TreeInv'
  OBVIOUS
<1>1. CASE TreeNext
  BY <1>1, HandleKeeps, OtherKeeps, BroadcastKeeps, TreeEventKeeps, ReconnectedKeeps, KeysKeep, MouseKeeps DEF TreeNext
<1>2. CASE UNCHANGED treeVars
  BY <1>2, TreeStays
<1> QED
  BY <1>1, <1>2

\* Whatever the user, the core and the other clients do to the tree, without a filter the
\* cursor of handle_core_event, of the keys and of the mouse is on one of its rows.
THEOREM CursorStays == TreeSpec => []CursorInTree
<1>1. TreeInv => CursorInTree
  <2> SUFFICES ASSUME TreeInv, app.query = "none", Rows(app) # <<>> PROVE app.cursor \in DOMAIN Rows(app)
    BY DEF CursorInTree
  <2>1. app \in Interface /\ OnRow(app)
    BY DEF TreeInv, Good
  <2>2. /\ app.cursor \in Nat /\ app.cursor # 0 /\ Len(Rows(app)) \in Nat /\ DOMAIN Rows(app) = 1 .. Len(Rows(app))
        /\ Rows(app) \in Seq(Drawn(app))
    BY <2>1, InterfaceParts, RowsTyped
  <2>3. Len(Rows(app)) # 0
    <3>1. PICK s \in Seq(Drawn(app)) : s = Rows(app) /\ s # <<>>
      BY <2>2
    <3> HIDE DEF Drawn
    <3>2. Len(s) # 0
      BY <3>1
    <3> QED
      BY <3>1, <3>2
  <2>4. app.cursor = 1 \/ app.cursor <= Len(Rows(app))
    BY <2>1 DEF OnRow
  <2> QED
    BY <2>2, <2>3, <2>4
<1> QED
  BY <1>1, TreeStarts, TreeKeeps, PTL DEF TreeSpec

-----------------------------------------------------------------------------
(* The copy of the tree and the database of the core.                      *)

Unique(ps) == \A i, j \in DOMAIN ps : ps[i].id = ps[j].id => i = j
\* The profiles of a group: the same ones, and in the same order unless that is loose.
Match(ps, qs, loose) == Unique(ps) /\ ToSet(ps) = ToSet(qs) /\ (loose \/ ps = qs)

LEMMA FindIs ==
  ASSUME NEW ps, Unique(ps), NEW i \in DOMAIN ps
  PROVE  Find(ps, ps[i].id) = ps[i]
<1> DEFINE j == CHOOSE k \in DOMAIN ps : ps[k].id = ps[i].id
<1>1. j \in DOMAIN ps /\ ps[j].id = ps[i].id
  OBVIOUS
<1>2. Find(ps, ps[i].id) = ps[j]
  BY Zenon DEF Find
<1> HIDE DEF j
<1>3. j = i
  BY <1>1 DEF Unique
<1> QED
  BY <1>2, <1>3

LEMMA SameFound ==
  ASSUME NEW ps, NEW qs, Match(ps, qs, TRUE), Unique(qs), NEW x \in ToSet(ps)
  PROVE  Find(ps, x.id) = x /\ Find(qs, x.id) = x
<1>1. PICK i \in DOMAIN ps, j \in DOMAIN qs : ps[i] = x /\ qs[j] = x
  <2>1. x \in ToSet(qs)
    BY DEF Match
  <2> QED
    BY <2>1 DEF ToSet
<1>2. Unique(ps)
  BY DEF Match
<1>3. Find(ps, ps[i].id) = ps[i] /\ Find(qs, qs[j].id) = qs[j]
  BY <1>2, FindIs
<1> QED
  BY <1>1, <1>3

LEMMA ToSetIs ==
  ASSUME NEW s
  PROVE  ToSet(s) = {s[i] : i \in DOMAIN s}
  BY DEF ToSet

LEMMA MatchSelf == ASSUME NEW ps, Unique(ps), NEW loose PROVE Match(ps, ps, loose)
  BY DEF Match

LEMMA MatchLooser == ASSUME NEW ps, NEW qs, NEW l, NEW m, Match(ps, qs, l), l => m PROVE Match(ps, qs, m)
  BY DEF Match

LEMMA AppendSet ==
  ASSUME NEW S, NEW s \in Seq(S), NEW x \in S
  PROVE  ToSet(Append(s, x)) = ToSet(s) \cup {x}
<1>1. PICK n \in Nat : DOMAIN s = 1 .. n /\ n = Len(s)
  OBVIOUS
<1>2. PICK t : t = Append(s, x)
  BY Zenon
<1>3. DOMAIN t = 1 .. n + 1 /\ t[n + 1] = x /\ \A i \in 1 .. n : t[i] = s[i]
  BY <1>1, <1>2
<1>4. \A i \in 1 .. n + 1 : i = n + 1 \/ i \in 1 .. n
  BY <1>1
<1>5. n + 1 \in 1 .. n + 1 /\ \A i \in 1 .. n : i \in 1 .. n + 1
  BY <1>1
<1>6. ToSet(t) = ToSet(s) \cup {x}
  BY <1>1, <1>3, <1>4, <1>5, ToSetIs
<1> QED
  BY <1>2, <1>6

LEMMA AppendUnique ==
  ASSUME NEW S, NEW ps \in Seq(S), NEW p \in S, Unique(ps), \A q \in ToSet(ps) : q.id # p.id
  PROVE  Unique(Append(ps, p))
<1>1. PICK n \in Nat : DOMAIN ps = 1 .. n /\ n = Len(ps)
  OBVIOUS
<1>2. PICK t : t = Append(ps, p)
  BY Zenon
<1>3. DOMAIN t = 1 .. n + 1 /\ t[n + 1] = p /\ \A i \in 1 .. n : t[i] = ps[i]
  BY <1>1, <1>2
<1>4. \A i \in 1 .. n : ps[i].id # p.id
  BY <1>1 DEF ToSet
<1>5. ASSUME NEW i \in 1 .. n + 1, NEW j \in 1 .. n + 1, t[i].id = t[j].id PROVE i = j
  <2>1. i = n + 1 \/ i \in 1 .. n
    BY <1>1
  <2>2. j = n + 1 \/ j \in 1 .. n
    BY <1>1
  <2> QED
    BY <1>1, <1>3, <1>4, <1>5, <2>1, <2>2 DEF Unique
<1>6. Unique(t)
  BY <1>3, <1>5 DEF Unique
<1> QED
  BY <1>2, <1>6

LEMMA AppendMatch ==
  ASSUME NEW ps \in Seq(Profile), NEW qs \in Seq(Profile), NEW p \in Profile, NEW loose, Match(ps, qs, loose),
         \A q \in ToSet(qs) : q.id # p.id
  PROVE  Match(Append(ps, p), Append(qs, p), loose)
<1>1. Unique(ps) /\ ToSet(ps) = ToSet(qs) /\ (loose \/ ps = qs)
  BY DEF Match
<1>2. Unique(Append(ps, p))
  BY <1>1, AppendUnique
<1>3. ToSet(Append(ps, p)) = ToSet(ps) \cup {p} /\ ToSet(Append(qs, p)) = ToSet(qs) \cup {p}
  BY AppendSet
<1> QED
  BY <1>1, <1>2, <1>3, Zenon DEF Match

LEMMA EntriesSet ==
  ASSUME NEW S, NEW s \in Seq(S), NEW I \in SUBSET DOMAIN s, NEW t, t = Entries(s, I)
  PROVE  /\ ToSet(t) = {s[i] : i \in I}
         /\ \A p, q \in DOMAIN t : \E i, j \in I : t[p] = s[i] /\ t[q] = s[j] /\ (i = j => p = q)
<1>1. PICK m \in Nat : \E at : Keeps(s, I, m, at)
  BY EntriesOf, Zenon
<1>2. PICK at : Keeps(s, I, m, at)
  BY <1>1
<1>3. t = Entries(s, I)
  OBVIOUS
<1>4. /\ at \in [1 .. m -> I] /\ t = [k \in 1 .. m |-> s[at[k]]]
      /\ \A i \in I : \E k \in 1 .. m : at[k] = i
      /\ \A p, q \in 1 .. m : p < q => at[p] < at[q]
  BY <1>2, <1>3, Zenon DEF Keeps
<1>5. DOMAIN t = 1 .. m /\ \A k \in 1 .. m : t[k] = s[at[k]] /\ at[k] \in I
  BY <1>4
<1>6. ToSet(t) = {s[i] : i \in I}
  <2>1. ToSet(t) = {t[k] : k \in 1 .. m}
    BY <1>5, ToSetIs, Zenon
  <2> QED
    BY <1>4, <1>5, <2>1
<1>7. I \in SUBSET Nat
  OBVIOUS
<1>8. ASSUME NEW p \in 1 .. m, NEW q \in 1 .. m, at[p] = at[q] PROVE p = q
  <2>1. PICK u \in Nat, v \in Nat : u = at[p] /\ v = at[q]
    BY <1>5, <1>7
  <2>2. ~(p < q) /\ ~(q < p)
    <3>1. p < q => u < v
      BY <1>4, <2>1
    <3>2. q < p => v < u
      BY <1>4, <2>1
    <3> QED
      BY <1>8, <2>1, <3>1, <3>2
  <2> QED
    BY <2>2
<1>9. \A p, q \in DOMAIN t : \E i, j \in I : t[p] = s[i] /\ t[q] = s[j] /\ (i = j => p = q)
  BY <1>5, <1>8
<1> QED
  BY <1>6, <1>9

LEMMA WithoutSet ==
  ASSUME NEW S, NEW ps \in Seq(S), NEW id
  PROVE  /\ ToSet(Without(ps, id)) = {p \in ToSet(ps) : p.id # id}
         /\ Unique(ps) => Unique(Without(ps, id))
<1>1. PICK I : I = {i \in DOMAIN ps : ps[i].id # id}
  BY Zenon
<1>2. PICK t : t = Without(ps, id)
  OBVIOUS
<1>3. I \in SUBSET DOMAIN ps /\ t = Entries(ps, I)
  BY <1>1, <1>2 DEF Without
<1>4. /\ ToSet(t) = {ps[i] : i \in I}
      /\ \A p, q \in DOMAIN t : \E i, j \in I : t[p] = ps[i] /\ t[q] = ps[j] /\ (i = j => p = q)
  BY <1>3, EntriesSet
<1>5. {ps[i] : i \in I} = {p \in ToSet(ps) : p.id # id}
  BY <1>1, ToSetIs
<1>6. Unique(ps) => Unique(t)
  BY <1>3, <1>4 DEF Unique
<1> QED
  BY <1>2, <1>4, <1>5, <1>6

LEMMA WithoutMatch ==
  ASSUME NEW ps \in Seq(Profile), NEW qs \in Seq(Profile), NEW loose, Match(ps, qs, loose), NEW id
  PROVE  Match(Without(ps, id), Without(qs, id), loose)
<1>1. Unique(ps) /\ ToSet(ps) = ToSet(qs) /\ (loose \/ ps = qs)
  BY DEF Match
<1>2. /\ Unique(Without(ps, id)) /\ ToSet(Without(ps, id)) = {p \in ToSet(ps) : p.id # id}
      /\ ToSet(Without(qs, id)) = {p \in ToSet(qs) : p.id # id}
  BY <1>1, WithoutSet
<1> QED
  BY <1>1, <1>2, Zenon DEF Match

LEMMA IdsSet == ASSUME NEW s
                PROVE  /\ DOMAIN Ids(s) = DOMAIN s /\ \A i \in DOMAIN s : Ids(s)[i] = s[i].id
                       /\ ToSet(Ids(s)) = {x.id : x \in ToSet(s)}
                       /\ \A x : x \in ToSet(Ids(s)) <=> \E i \in DOMAIN s : s[i].id = x
<1>1. DOMAIN Ids(s) = DOMAIN s /\ \A i \in DOMAIN s : Ids(s)[i] = s[i].id
  BY Zenon DEF Ids
<1>2. ToSet(Ids(s)) = {Ids(s)[i] : i \in DOMAIN s} /\ ToSet(s) = {s[i] : i \in DOMAIN s}
  BY <1>1, ToSetIs, Zenon
<1>3. ToSet(Ids(s)) = {x.id : x \in ToSet(s)}
  BY <1>1, <1>2
<1>4. \A x : x \in ToSet(Ids(s)) <=> \E i \in DOMAIN s : s[i].id = x
  BY <1>1, <1>2
<1> QED
  BY <1>1, <1>3, <1>4

LEMMA IdsSeq == ASSUME NEW S, NEW T, \A x \in S : x.id \in T, NEW s \in Seq(S) PROVE Ids(s) \in Seq(T)
<1>1. PICK n \in Nat : DOMAIN s = 1 .. n /\ \A i \in 1 .. n : s[i] \in S
  OBVIOUS
<1>2. Ids(s) = [i \in 1 .. n |-> s[i].id]
  BY <1>1, Zenon DEF Ids
<1>3. \A i \in 1 .. n : s[i].id \in T
  BY <1>1
<1> QED
  BY <1>2, <1>3

LEMMA AppendIds ==
  ASSUME NEW S, NEW s \in Seq(S), NEW x \in S
  PROVE  Ids(Append(s, x)) = Append(Ids(s), x.id)
<1>1. PICK n \in Nat : DOMAIN s = 1 .. n /\ n = Len(s)
  OBVIOUS
<1>2. PICK t, u : t = Append(s, x) /\ u = Ids(s)
  BY Zenon
<1>3. DOMAIN t = 1 .. n + 1 /\ t[n + 1] = x /\ \A i \in 1 .. n : t[i] = s[i]
  BY <1>1, <1>2
<1>4. u = [i \in 1 .. n |-> s[i].id]
  BY <1>1, <1>2, Zenon DEF Ids
<1>5. Ids(t) = [i \in 1 .. n + 1 |-> t[i].id]
  BY <1>3, Zenon DEF Ids
<1>6. u \in Seq({s[i].id : i \in 1 .. n}) /\ Len(u) = n
  BY <1>4
<1>7. PICK v : v = Append(u, x.id)
  BY Zenon
<1>8. v = [i \in 1 .. n + 1 |-> IF i = n + 1 THEN x.id ELSE u[i]]
  BY <1>6, <1>7
<1>9. \A i \in 1 .. n + 1 : t[i].id = IF i = n + 1 THEN x.id ELSE u[i]
  <2> TAKE i \in 1 .. n + 1
  <2>1. i = n + 1 \/ i \in 1 .. n
    BY <1>1
  <2> QED
    BY <1>3, <1>4, <2>1
<1>10. Ids(t) = v
  BY <1>5, <1>8, <1>9, Zenon
<1> QED
  BY <1>2, <1>7, <1>10

LEMMA WithoutIds ==
  ASSUME NEW S, NEW s \in Seq(S), NEW id
  PROVE  Ids(Without(s, id)) = Entries(Ids(s), {i \in DOMAIN Ids(s) : Ids(s)[i] # id})
<1>1. PICK u : u = Ids(s)
  OBVIOUS
<1>2. DOMAIN u = DOMAIN s /\ \A i \in DOMAIN s : u[i] = s[i].id
  BY <1>1, IdsSet
<1>3. PICK I : I = {i \in DOMAIN s : s[i].id # id}
  BY Zenon
<1>4. {i \in DOMAIN u : u[i] # id} = I
  BY <1>2, <1>3
<1>5. I \in SUBSET DOMAIN s
  BY <1>3
<1>6. PICK m \in Nat : \E at : Keeps(s, I, m, at) /\ at = Arrange(<<>>, I)
  BY <1>5, EntriesOf
<1>7. PICK at : Keeps(s, I, m, at) /\ at = Arrange(<<>>, I)
  BY <1>6, Zenon
<1>8. at \in [1 .. m -> I]
  BY <1>7, Zenon DEF Keeps
<1>9. PICK t : t = Entries(s, I)
  OBVIOUS
<1>10. t = [n \in DOMAIN at |-> s[at[n]]] /\ Entries(u, I) = [n \in DOMAIN at |-> u[at[n]]]
  BY <1>7, <1>9, Zenon DEF Entries
<1>11. Ids(t) = [n \in DOMAIN at |-> t[n].id]
  BY <1>10, Zenon DEF Ids
<1>12. \A n \in DOMAIN at : t[n].id = u[at[n]]
  BY <1>2, <1>5, <1>8, <1>10
<1>13. Ids(t) = Entries(u, I)
  BY <1>10, <1>11, <1>12
<1>14. Without(s, id) = t
  BY <1>3, <1>9, Zenon DEF Without
<1> QED
  BY <1>1, <1>4, <1>13, <1>14, Zenon

\* What is listed first cannot be listed later.
LEMMA AheadOnce ==
  ASSUME NEW n \in Nat, NEW ids, DOMAIN ids = 1 .. n, NEW a, NEW b, Ahead(ids, a, b)
  PROVE  ~Ahead(ids, b, a) /\ a # b
<1>1. PICK A, B : A = {i \in DOMAIN ids : ids[i] = a} /\ B = {i \in DOMAIN ids : ids[i] = b}
  BY Zenon
<1>2. A # {} /\ (B = {} \/ Min(A) < Min(B))
  BY <1>1, Zenon DEF Ahead
<1>3. Min(A) \in Nat
  <2>1. A \in SUBSET (1 .. n)
    BY <1>1
  <2>2. PICK x \in A : x = Min(A)
    BY <1>2, <2>1, FirstOf, Zenon
  <2>3. x \in Nat
    BY <2>1
  <2> QED
    BY <2>2, <2>3, Zenon
<1>4. ASSUME B # {} PROVE Min(B) \in Nat
  <2>1. B \in SUBSET (1 .. n)
    BY <1>1
  <2>2. PICK x \in B : x = Min(B)
    BY <1>4, <2>1, FirstOf, Zenon
  <2>3. x \in Nat
    BY <2>1
  <2> QED
    BY <2>2, <2>3, Zenon
<1>5. ~(B # {} /\ (A = {} \/ Min(B) < Min(A)))
  BY <1>2, <1>3, <1>4
<1>6. Ahead(ids, b, a) <=> B # {} /\ (A = {} \/ Min(B) < Min(A))
  BY <1>1, Zenon DEF Ahead
<1>7. ASSUME a = b PROVE FALSE
  <2>1. A = B
    BY <1>1, <1>7
  <2> QED
    BY <1>2, <1>3, <2>1
<1> QED
  BY <1>5, <1>6, <1>7

\* The arrangement of the core is one of the orders the interface may take.
LEMMA ArrangeAmong ==
  ASSUME NEW ids \in Seq(Nat), NEW all \in SUBSET Nat, IsFiniteSet(all)
  PROVE  /\ Arrange(ids, all) \in Orders(ids, all) /\ Arrange(ids, all) \in Seq(all)
         /\ ToSet(Arrange(ids, all)) = all
         /\ \A i, j \in DOMAIN Arrange(ids, all) : Arrange(ids, all)[i] = Arrange(ids, all)[j] => i = j
<1>1. PICK len \in Nat : DOMAIN ids = 1 .. len
  OBVIOUS
<1>2. PICK size, A : size = Cardinality(all) /\ A = Arrange(ids, all)
  OBVIOUS
<1>3. /\ size \in Nat /\ A \in [1 .. size -> all]
      /\ \A x \in all : \E k \in 1 .. size : A[k] = x
      /\ \A i, j \in 1 .. size : i < j => Before(ids, A[i], A[j])
  BY <1>1, <1>2, ArrangeIsOrder, Zenon
<1>4. ASSUME NEW i \in 1 .. size, NEW j \in 1 .. size, i < j
      PROVE  ~Ahead(ids, A[j], A[i]) /\ A[i] # A[j]
  <2>1. Before(ids, A[i], A[j])
    BY <1>3, <1>4
  <2>2. PICK x \in Nat, y \in Nat : x = A[i] /\ y = A[j]
    BY <1>3, Zenon
  <2>3. Ahead(ids, x, y) \/ (x < y /\ ~Ahead(ids, y, x))
    BY <2>1, <2>2, Zenon DEF Before
  <2>4. Ahead(ids, x, y) => ~Ahead(ids, y, x) /\ x # y
    BY <1>1, AheadOnce
  <2>5. ~Ahead(ids, y, x) /\ x # y
    BY <2>3, <2>4
  <2> QED
    BY <2>2, <2>5, Zenon
<1>5. \A i, j \in 1 .. size : A[i] = A[j] => i = j
  <2> TAKE i, j \in 1 .. size
  <2>1. i < j \/ j < i \/ i = j
    BY <1>3
  <2> QED
    BY <1>4, <2>1
<1>6. A \in SetToSeqs(all)
  BY <1>2, <1>3, <1>5, Zenon DEF SetToSeqs
<1>7. DOMAIN A = 1 .. size /\ A \in Seq(all)
  BY <1>3
<1>8. A \in Orders(ids, all)
  BY <1>4, <1>6, <1>7, Zenon DEF Orders
<1>9. ToSet(A) = all
  BY <1>3, <1>7, ToSetIs, Zenon
<1> QED
  BY <1>2, <1>5, <1>7, <1>8, <1>9, Zenon

\* An arrangement of things by their identifiers has the same things.
LEMMA ArrangedSet ==
  ASSUME NEW S, \A x \in S : x.id \in Nat, NEW ps \in Seq(S), Unique(ps), NEW ids \in Seq(Nat),
         NEW line, line = Arrange(ids, ToSet(Ids(ps)))
  PROVE  /\ [i \in DOMAIN line |-> Find(ps, line[i])] \in Seq(S)
         /\ Unique([i \in DOMAIN line |-> Find(ps, line[i])])
         /\ ToSet([i \in DOMAIN line |-> Find(ps, line[i])]) = ToSet(ps)
         /\ Ids([i \in DOMAIN line |-> Find(ps, line[i])]) = line
<1>1. PICK all : all = ToSet(Ids(ps))
  OBVIOUS
<1>2. Ids(ps) \in Seq(Nat)
  BY IdsSeq
<1>3. IsFiniteSet(all) /\ all \in SUBSET Nat
  BY <1>1, <1>2, ValuesFinite
<1>4. /\ line \in Seq(all) /\ ToSet(line) = all
      /\ \A i, j \in DOMAIN line : line[i] = line[j] => i = j
  BY <1>1, <1>3, ArrangeAmong
<1>5. PICK n \in Nat : DOMAIN line = 1 .. n /\ \A i \in 1 .. n : line[i] \in all
  BY <1>4
<1>6. \A x : x \in all <=> \E i \in DOMAIN ps : ps[i].id = x
  BY <1>1, IdsSet
<1>7. ASSUME NEW x \in all PROVE Find(ps, x) \in ToSet(ps) /\ Find(ps, x) \in S /\ Find(ps, x).id = x
  <2>1. PICK i \in DOMAIN ps : ps[i].id = x
    BY <1>6
  <2>2. Find(ps, ps[i].id) = ps[i]
    BY FindIs
  <2>3. ps[i] \in S /\ ps[i] \in ToSet(ps)
    BY DEF ToSet
  <2> QED
    BY <2>1, <2>2, <2>3, Zenon
<1>8. PICK t : t = [i \in DOMAIN line |-> Find(ps, line[i])]
  BY Zenon
<1>9. \A i \in 1 .. n : t[i] \in ToSet(ps) /\ t[i] \in S /\ t[i].id = line[i]
  BY <1>5, <1>7, <1>8
<1>10. DOMAIN t = 1 .. n /\ t \in Seq(S)
  BY <1>5, <1>8, <1>9
<1>11. Unique(t)
  BY <1>4, <1>5, <1>9, <1>10 DEF Unique
<1>12. Ids(t) = line
  <2>1. Ids(t) = [i \in 1 .. n |-> t[i].id]
    BY <1>10, Zenon DEF Ids
  <2>2. line = [i \in 1 .. n |-> line[i]]
    BY <1>4, <1>5
  <2> QED
    BY <1>9, <2>1, <2>2
<1>13. ToSet(t) = ToSet(ps)
  <2>1. \A y \in ToSet(t) : y \in ToSet(ps)
    BY <1>9, <1>10, Zenon DEF ToSet
  <2>2. ASSUME NEW y \in ToSet(ps) PROVE y \in ToSet(t)
    <3>1. PICK j \in DOMAIN ps : ps[j] = y
      BY DEF ToSet
    <3>2. y.id \in all /\ Find(ps, y.id) = y
      BY <1>6, <3>1, FindIs
    <3>3. PICK i \in 1 .. n : line[i] = y.id
      BY <1>4, <1>5, <3>2, Zenon DEF ToSet
    <3>4. t[i] = y
      BY <1>5, <1>8, <3>2, <3>3
    <3> QED
      BY <1>10, <3>4, Zenon DEF ToSet
  <2> QED
    BY <2>1, <2>2, Zenon
<1> QED
  BY <1>8, <1>10, <1>11, <1>12, <1>13, Zenon

\* Two copies with the same profiles are arranged to the same list.
LEMMA ArrangedMatch ==
  ASSUME NEW ps \in Seq(Profile), NEW qs \in Seq(Profile), Match(ps, qs, TRUE), Unique(qs), NEW ids \in Seq(Nat), NEW loose
  PROVE  Match(ArrangeProfiles(ps, ids), ArrangeProfiles(qs, ids), loose) /\ ArrangeProfiles(ps, ids) = ArrangeProfiles(qs, ids)
<1>1. Unique(ps) /\ ToSet(ps) = ToSet(qs)
  BY DEF Match
<1>2. PICK all : all = ToSet(Ids(ps))
  OBVIOUS
<1>3. {p.id : p \in ToSet(ps)} = all /\ {p.id : p \in ToSet(qs)} = all
  BY <1>1, <1>2, IdsTyped
<1>4. PICK line : line = Arrange(ids, all)
  OBVIOUS
<1>5. ArrangeProfiles(ps, ids) = [i \in DOMAIN line |-> Find(ps, line[i])]
  BY <1>3, <1>4, Zenon DEF ArrangeProfiles
<1>6. ArrangeProfiles(qs, ids) = [i \in DOMAIN line |-> Find(qs, line[i])]
  BY <1>3, <1>4, Zenon DEF ArrangeProfiles
<1>7. Ids(ps) \in Seq(Nat)
  BY IdsTyped
<1>8. IsFiniteSet(all) /\ all \in SUBSET Nat
  BY <1>2, <1>7, ValuesFinite
<1>9. line \in Seq(all)
  BY <1>4, <1>8, ArrangeAmong
<1>10. ASSUME NEW x \in all PROVE Find(ps, x) = Find(qs, x)
  <2>1. PICK p \in ToSet(ps) : p.id = x
    BY <1>3
  <2> QED
    BY <2>1, SameFound, Zenon
<1>11. \A i \in DOMAIN line : Find(ps, line[i]) = Find(qs, line[i])
  BY <1>9, <1>10
<1>12. ArrangeProfiles(ps, ids) = ArrangeProfiles(qs, ids)
  BY <1>5, <1>6, <1>11
<1>13. \A x \in Profile : x.id \in Nat
  BY ProfileParts, Zenon
<1>14. Unique([i \in DOMAIN line |-> Find(ps, line[i])])
  BY <1>1, <1>2, <1>4, <1>13, ArrangedSet
<1> QED
  BY <1>5, <1>12, <1>14, MatchSelf, Zenon

\* The identifiers are the ones there were, the rest of a profile may change.
Replace(ps, p) == [i \in DOMAIN ps |-> IF ps[i].id = p.id THEN p ELSE ps[i]]

LEMMA ReplaceTyped ==
  ASSUME NEW ps \in Seq(Profile), NEW p \in Profile
  PROVE  /\ Replace(ps, p) \in Seq(Profile) /\ Ids(Replace(ps, p)) = Ids(ps)
         /\ ToSet(Replace(ps, p)) = {IF x.id = p.id THEN p ELSE x : x \in ToSet(ps)}
         /\ Unique(ps) => Unique(Replace(ps, p))
<1>1. PICK n \in Nat : DOMAIN ps = 1 .. n /\ \A i \in 1 .. n : ps[i] \in Profile
  OBVIOUS
<1>2. PICK t : t = Replace(ps, p)
  OBVIOUS
<1>3. DOMAIN t = 1 .. n /\ \A i \in 1 .. n : t[i] = IF ps[i].id = p.id THEN p ELSE ps[i]
  BY <1>1, <1>2, Zenon DEF Replace
<1>4. t = [i \in 1 .. n |-> IF ps[i].id = p.id THEN p ELSE ps[i]]
  BY <1>1, <1>2, Zenon DEF Replace
<1> HIDE DEF Profile
<1>5. \A i \in 1 .. n : t[i] \in Profile /\ t[i].id = ps[i].id
  BY <1>1, <1>3
<1>6. t \in Seq(Profile)
  BY <1>1, <1>4
<1>7. Ids(t) = Ids(ps)
  <2>1. Ids(t) = [i \in 1 .. n |-> t[i].id] /\ Ids(ps) = [i \in 1 .. n |-> ps[i].id]
    BY <1>1, <1>3, Zenon DEF Ids
  <2> QED
    BY <1>5, <2>1
<1>8. ToSet(t) = {IF x.id = p.id THEN p ELSE x : x \in ToSet(ps)}
  <2>1. ToSet(t) = {t[i] : i \in 1 .. n} /\ ToSet(ps) = {ps[i] : i \in 1 .. n}
    BY <1>1, <1>3, ToSetIs, Zenon
  <2> QED
    BY <1>3, <2>1
<1>9. Unique(ps) => Unique(t)
  BY <1>1, <1>3, <1>5 DEF Unique
<1> QED
  BY <1>2, <1>6, <1>7, <1>8, <1>9

LEMMA ReplaceMatch ==
  ASSUME NEW ps \in Seq(Profile), NEW qs \in Seq(Profile), NEW p \in Profile, NEW loose, Match(ps, qs, loose)
  PROVE  Match(Replace(ps, p), Replace(qs, p), loose)
<1>1. Unique(ps) /\ ToSet(ps) = ToSet(qs) /\ (loose \/ ps = qs)
  BY DEF Match
<1>2. /\ Unique(Replace(ps, p)) /\ ToSet(Replace(ps, p)) = {IF x.id = p.id THEN p ELSE x : x \in ToSet(ps)}
      /\ ToSet(Replace(qs, p)) = {IF x.id = p.id THEN p ELSE x : x \in ToSet(qs)}
  BY <1>1, ReplaceTyped
<1> QED
  BY <1>1, <1>2, Zenon DEF Match

LEMMA SwapMatch ==
  ASSUME NEW S, NEW s \in Seq(S), Unique(s), NEW i \in DOMAIN s, NEW j \in DOMAIN s
  PROVE  Unique(SwapAt(s, i, j)) /\ ToSet(SwapAt(s, i, j)) = ToSet(s)
<1>1. PICK t : t = SwapAt(s, i, j)
  OBVIOUS
<1>2. DOMAIN t = DOMAIN s /\ \A k \in DOMAIN s : t[k] = IF k = j THEN s[i] ELSE IF k = i THEN s[j] ELSE s[k]
  BY <1>1 DEF SwapAt
<1>3. ASSUME NEW k \in DOMAIN s, NEW m \in DOMAIN s, t[k].id = t[m].id PROVE k = m
  BY <1>2, <1>3 DEF Unique
<1>4. Unique(t)
  BY <1>2, <1>3 DEF Unique
<1>5. ToSet(t) = ToSet(s)
  <2>1. \A x \in ToSet(t) : x \in ToSet(s)
    BY <1>2 DEF ToSet
  <2>2. \A k \in DOMAIN s : \E m \in DOMAIN s : t[m] = s[k]
    BY <1>2
  <2>3. \A x \in ToSet(s) : x \in ToSet(t)
    BY <1>2, <2>2 DEF ToSet
  <2> QED
    BY <2>1, <2>3, Zenon
<1> QED
  BY <1>1, <1>4, <1>5

-----------------------------------------------------------------------------
(* What a command does to the database, by the event that tells of it.     *)

Alike(d, e) == e.order = d.order /\ e.glast = d.glast
WithPs(d, g, ps) == [d EXCEPT !.ps[g] = ps]
WithLast(d, g, num) == [d EXCEPT !.last[g] = num]

IsAdded(d, d2, e) ==
  /\ e.k = "added" /\ e.g \in GidsOf(d) /\ e.p \in Profile /\ e.p.id = d.last[e.g] + 1
  /\ Alike(d, d2) /\ d2.conn = d.conn
  /\ d2.ps = [d.ps EXCEPT ![e.g] = Append(d.ps[e.g], e.p)] /\ d2.last = [d.last EXCEPT ![e.g] = e.p.id]
IsDeleted(d, d2, e) ==
  /\ e.k = "deleted" /\ Alike(d, d2) /\ d2.conn = d.conn /\ d2.last = d.last
  /\ d2.ps = [d.ps EXCEPT ![e.g] = Without(d.ps[e.g], e.id)]
IsUpdated(d, d2, e) ==
  /\ e.k = "updated" /\ e.g \in GidsOf(d) /\ e.p \in Profile /\ e.p.id \in ToSet(Ids(d.ps[e.g]))
  /\ Alike(d, d2) /\ d2.conn = d.conn /\ d2.last = d.last
  /\ d2.ps = [d.ps EXCEPT ![e.g] = Replace(d.ps[e.g], e.p)]
IsMoved(d, d2, e) ==
  /\ e.k = "moved" /\ e.g \in GidsOf(d) /\ e.to \in GidsOf(d) /\ e.to # e.g
  /\ e.p \in Profile /\ e.p.id = d.last[e.to] + 1
  /\ Alike(d, d2) /\ d2.last = [d.last EXCEPT ![e.to] = e.p.id]
  /\ d2.ps = [d.ps EXCEPT ![e.g] = Without(d.ps[e.g], e.id), ![e.to] = Append(d.ps[e.to], e.p)]
  /\ d2.conn = IF d.conn = <<e.g, e.id>> THEN <<e.to, e.p.id>> ELSE d.conn
IsReordered(d, d2, e) ==
  /\ e.k = "reordered" /\ e.g \in GidsOf(d) /\ e.ids \in Seq(Nat)
  /\ Alike(d, d2) /\ d2.conn = d.conn /\ d2.last = d.last
  /\ d2.ps = [d.ps EXCEPT ![e.g] = ArrangeProfiles(d.ps[e.g], e.ids)]
IsGroups(d, d2, e) ==
  /\ e.k = "groups" /\ e.ids \in Seq(Nat)
  /\ d2.order = Arrange(e.ids, GidsOf(d)) /\ d2.glast = d.glast
  /\ d2.ps = d.ps /\ d2.last = d.last /\ d2.conn = d.conn
IsGroupAdded(d, d2, e) ==
  /\ e.k = "groupadded" /\ e.g = d.glast + 1 /\ e.g \in GroupNumbers
  /\ d2.order = Append(d.order, e.g) /\ d2.glast = e.g
  /\ d2.ps = [d.ps EXCEPT ![e.g] = <<>>] /\ d2.last = d.last /\ d2.conn = d.conn
IsGroupDeleted(d, d2, e) ==
  /\ e.k = "groupdeleted"
  /\ d2.order = Entries(d.order, {i \in DOMAIN d.order : d.order[i] # e.g}) /\ d2.glast = d.glast
  /\ d2.ps = [d.ps EXCEPT ![e.g] = <<>>] /\ d2.last = d.last /\ d2.conn = d.conn
IsSubscription(d, d2, e) ==
  /\ e.k = "subscription" /\ e.g \in GidsOf(d) /\ Alike(d, d2) /\ d2.conn = d.conn
  /\ d2.ps = [d.ps EXCEPT ![e.g] = e.ps]
  /\ \E p \in Profile, num \in Nat :
       e.ps = <<p>> /\ p.id <= num /\ d2.last = [d.last EXCEPT ![e.g] = num]
IsStatus(d, d2, e) ==
  e.k = "status" /\ Alike(d, d2) /\ d2.ps = d.ps /\ d2.last = d.last /\ d2.conn = e.ref
IsState(d, d2, e) == e.k = "state" /\ d2 = d /\ e.groups = Snapshot(d) /\ e.ref = d.conn
IsNothing(d, d2, e) == e.k \in {"details", "warn"} /\ d2 = d

Outcome(d, d2, e) ==
  \/ IsAdded(d, d2, e) \/ IsDeleted(d, d2, e) \/ IsUpdated(d, d2, e) \/ IsMoved(d, d2, e) \/ IsReordered(d, d2, e)
  \/ IsGroups(d, d2, e) \/ IsGroupAdded(d, d2, e) \/ IsGroupDeleted(d, d2, e) \/ IsSubscription(d, d2, e)
  \/ IsStatus(d, d2, e) \/ IsState(d, d2, e) \/ IsNothing(d, d2, e)

LEMMA AddOutcome ==
  ASSUME NEW d \in Database, NEW g \in GidsOf(d)
  PROVE  Outcome(d, AddProfiles(d, g).db, AddProfiles(d, g).ev) /\ AddProfiles(d, g).ev.k = "added"
<1>1. d.last[g] \in Nat
  BY DatabaseParts
<1>2. PICK p \in Profile : p = Prof(d.last[g] + 1, 1) /\ p.id = d.last[g] + 1
  BY <1>1, NewTyped
<1>3. PICK ps, num : ps = Append(d.ps[g], p) /\ num = p.id /\ num \in Nat
  BY ProfileParts, Zenon
<1>4. PICK d1, d2 : d1 = WithLast(d, g, num) /\ d2 = WithPs(d1, g, ps)
  OBVIOUS
<1>5. d1 \in Database
  BY <1>3, <1>4, LastSet, Zenon DEF WithLast
<1>6. d2 = [d EXCEPT !.last[g] = num, !.ps[g] = ps]
  BY <1>4 DEF WithLast, WithPs, Database
<1>7. PICK e : e = [k |-> "added", g |-> g, p |-> p]
  BY Zenon
<1>8. AddProfiles(d, g) = Done(d2, e)
  BY <1>2, <1>3, <1>6, <1>7, Zenon DEF AddProfiles
<1>9. e.k = "added" /\ e.g = g /\ e.p = p
  BY <1>7
<1>10. /\ d1.last = [d.last EXCEPT ![g] = num] /\ d1.ps = d.ps /\ d1.order = d.order /\ d1.glast = d.glast /\ d1.conn = d.conn
  BY <1>4 DEF Database, WithLast
<1>11. /\ d2.ps = [d1.ps EXCEPT ![g] = ps] /\ d2.last = d1.last /\ d2.order = d1.order /\ d2.glast = d1.glast
       /\ d2.conn = d1.conn
  BY <1>4, <1>5 DEF Database, WithPs
<1>12. IsAdded(d, d2, e)
  BY <1>2, <1>3, <1>9, <1>10, <1>11, Zenon DEF IsAdded, Alike
<1>13. Done(d2, e).db = d2 /\ Done(d2, e).ev = e
  BY DEF Done
<1> QED
  BY <1>8, <1>9, <1>12, <1>13, Zenon DEF Outcome

LEMMA DeleteOutcome ==
  ASSUME NEW d \in Database, NEW g \in Nat, NEW id
  PROVE  Outcome(d, DeleteProfiles(d, g, id).db, DeleteProfiles(d, g, id).ev) /\ DeleteProfiles(d, g, id).ev.k = "deleted"
<1>1. PICK ps, d2 : ps = Without(d.ps[g], id) /\ d2 = WithPs(d, g, ps)
  OBVIOUS
<1>2. PICK e : e = [k |-> "deleted", g |-> g, id |-> id]
  BY Zenon
<1>3. DeleteProfiles(d, g, id) = Done(d2, e)
  BY <1>1, <1>2, Zenon DEF DeleteProfiles, WithPs
<1>4. e.k = "deleted" /\ e.g = g /\ e.id = id
  BY <1>2
<1>5. d2.ps = [d.ps EXCEPT ![g] = ps] /\ d2.order = d.order /\ d2.glast = d.glast /\ d2.last = d.last /\ d2.conn = d.conn
  BY <1>1 DEF Database, WithPs
<1>6. IsDeleted(d, d2, e)
  BY <1>1, <1>4, <1>5, Zenon DEF IsDeleted, Alike
<1>7. Done(d2, e).db = d2 /\ Done(d2, e).ev = e
  BY DEF Done
<1> QED
  BY <1>3, <1>4, <1>6, <1>7, Zenon DEF Outcome

LEMMA HasFound ==
  ASSUME NEW d \in Database, NEW g, NEW id, Has(d, g, id)
  PROVE  /\ g \in GidsOf(d) /\ d.ps[g] \in Seq(Profile) /\ Find(d.ps[g], id) \in Profile /\ Find(d.ps[g], id).id = id
         /\ id \in ToSet(Ids(d.ps[g]))
<1>1. g \in GidsOf(d) /\ d.ps[g] \in Seq(Profile) /\ \E i \in DOMAIN d.ps[g] : d.ps[g][i].id = id
  BY DatabaseParts DEF Has
<1>2. id \in ToSet(Ids(d.ps[g]))
  BY <1>1, IdsSet
<1> QED
  BY <1>1, <1>2, FindTyped

LEMMA UpdateOutcome ==
  ASSUME NEW d \in Database, NEW g, NEW id, Has(d, g, id)
  PROVE  Outcome(d, UpdateProfile(d, g, id).db, UpdateProfile(d, g, id).ev) /\ UpdateProfile(d, g, id).ev.k = "updated"
<1>1. /\ g \in GidsOf(d) /\ d.ps[g] \in Seq(Profile) /\ Find(d.ps[g], id) \in Profile /\ Find(d.ps[g], id).id = id
      /\ id \in ToSet(Ids(d.ps[g]))
  BY HasFound
<1>2. PICK f \in Profile : f = Find(d.ps[g], id) /\ f.id = id
  BY <1>1
<1>3. PICK p \in Profile : p = [f EXCEPT !.hit = ~@] /\ p.id = id
  <2>1. [f EXCEPT !.hit = ~@] \in Profile /\ [f EXCEPT !.hit = ~@].id = f.id
    BY ProfileParts, Zenon
  <2> QED
    BY <1>2, <2>1, Zenon
<1>4. PICK ps, d2 : ps = [i \in DOMAIN d.ps[g] |-> IF d.ps[g][i].id = id THEN p ELSE d.ps[g][i]] /\ d2 = WithPs(d, g, ps)
  BY Zenon
<1>5. ps = Replace(d.ps[g], p)
  BY <1>3, <1>4, Zenon DEF Replace
<1>6. PICK e : e = [k |-> "updated", g |-> g, p |-> p]
  BY Zenon
<1>7. UpdateProfile(d, g, id) = Done(d2, e)
  BY <1>2, <1>3, <1>4, <1>6, Zenon DEF UpdateProfile, WithPs
<1>8. e.k = "updated" /\ e.g = g /\ e.p = p
  BY <1>6
<1>9. d2.ps = [d.ps EXCEPT ![g] = ps] /\ d2.order = d.order /\ d2.glast = d.glast /\ d2.last = d.last /\ d2.conn = d.conn
  BY <1>4 DEF Database, WithPs
<1>10. IsUpdated(d, d2, e)
  BY <1>1, <1>3, <1>5, <1>8, <1>9, Zenon DEF IsUpdated, Alike
<1>11. Done(d2, e).db = d2 /\ Done(d2, e).ev = e
  BY DEF Done
<1> QED
  BY <1>7, <1>8, <1>10, <1>11, Zenon DEF Outcome

LEMMA MoveOutcome ==
  ASSUME NEW d \in Database, NEW g, NEW id, Has(d, g, id), NEW to \in GidsOf(d) \ {g}
  PROVE  Outcome(d, MoveProfile(d, g, id, to).db, MoveProfile(d, g, id, to).ev) /\ MoveProfile(d, g, id, to).ev.k = "moved"
<1>1. g \in GidsOf(d) /\ d.ps[g] \in Seq(Profile) /\ Find(d.ps[g], id) \in Profile
  BY HasFound
<1>2. d.last[to] \in Nat /\ d.ps[to] \in Seq(Profile) /\ to # g /\ to \in GidsOf(d)
  BY DatabaseParts
<1>3. PICK q \in Profile, num \in Nat : q = Find(d.ps[g], id) /\ num = d.last[to] + 1
  BY <1>1, <1>2
<1>4. PICK p \in Profile : p = [q EXCEPT !.id = num] /\ p.id = num
  <2>1. [q EXCEPT !.id = num] \in Profile /\ [q EXCEPT !.id = num].id = num
    BY ProfileParts, Zenon
  <2> QED
    BY <2>1, Zenon
<1>5. PICK ps, qs : ps = Without(d.ps[g], id) /\ qs = Append(d.ps[to], p)
  BY Zenon
<1>6. PICK c : c = IF d.conn = <<g, id>> THEN <<to, p.id>> ELSE d.conn
  BY Zenon
<1>7. ps \in Seq(Profile) /\ qs \in Seq(Profile)
  BY <1>1, <1>2, <1>5, WithoutTyped, AppendParts
<1>8. PICK d1, d2, d3, d4 : /\ d1 = WithPs(d, g, ps) /\ d2 = WithPs(d1, to, qs) /\ d3 = WithLast(d2, to, num)
                            /\ d4 = [d3 EXCEPT !.conn = c]
  BY Zenon
<1>9. d1 \in Database
  BY <1>7, <1>8, PsSet, Zenon DEF WithPs
<1>10. d2 \in Database
  BY <1>7, <1>8, <1>9, PsSet, Zenon DEF WithPs
<1>11. d3 \in Database
  BY <1>8, <1>10, LastSet DEF WithLast
<1>12. d4.conn = c /\ d4.ps = d3.ps /\ d4.last = d3.last /\ d4.order = d3.order /\ d4.glast = d3.glast
  BY <1>8, <1>11 DEF Database
<1>13. d1.ps = [d.ps EXCEPT ![g] = ps] /\ d1.order = d.order /\ d1.glast = d.glast /\ d1.last = d.last /\ d1.conn = d.conn
  BY <1>8 DEF Database, WithPs
<1>14. d2.ps = [d1.ps EXCEPT ![to] = qs] /\ d2.order = d1.order /\ d2.glast = d1.glast /\ d2.last = d1.last /\ d2.conn = d1.conn
  BY <1>8, <1>9 DEF Database, WithPs
<1>15. d3.last = [d2.last EXCEPT ![to] = num] /\ d3.order = d2.order /\ d3.glast = d2.glast /\ d3.ps = d2.ps /\ d3.conn = d2.conn
  BY <1>8, <1>10 DEF Database, WithLast
<1>16. [d EXCEPT !.ps[g] = ps, !.ps[to] = qs, !.last[to] = num, !.conn = c] = d4
  BY <1>8 DEF WithPs, WithLast, Database
<1>17. [d EXCEPT !.ps[g] = Without(@, id), !.ps[to] = Append(@, p), !.last[to] = p.id,
                 !.conn = IF @ = <<g, id>> THEN <<to, p.id>> ELSE @] = d4
  <2>1. d1.ps[to] = d.ps[to] /\ d2.conn = d.conn /\ d3.conn = d.conn
    BY <1>13, <1>14, <1>15, <1>2
  <2>2. [d EXCEPT !.ps[g] = Without(@, id), !.ps[to] = Append(@, p), !.last[to] = p.id,
                  !.conn = IF @ = <<g, id>> THEN <<to, p.id>> ELSE @] = [d3 EXCEPT !.conn = c]
    BY <1>4, <1>5, <1>6, <1>8, <2>1 DEF Database, WithPs, WithLast
  <2> QED
    BY <1>8, <2>2
<1>18. PICK e : e = [k |-> "moved", g |-> g, id |-> id, to |-> to, p |-> p]
  BY Zenon
<1>19. MoveProfile(d, g, id, to) = Done(d4, e)
  <2>1. MoveProfile(d, g, id, to) =
         Done([d EXCEPT !.ps[g] = Without(@, id), !.ps[to] = Append(@, p), !.last[to] = p.id,
                        !.conn = IF @ = <<g, id>> THEN <<to, p.id>> ELSE @],
              [k |-> "moved", g |-> g, id |-> id, to |-> to, p |-> p])
    BY <1>3, <1>4 DEF MoveProfile
  <2> QED
    BY <1>17, <1>18, <2>1, Zenon
<1>20. e.k = "moved" /\ e.g = g /\ e.id = id /\ e.to = to /\ e.p = p
  BY <1>18
<1>21. d4.ps = [d.ps EXCEPT ![g] = ps, ![to] = qs]
  BY <1>12, <1>13, <1>14, <1>15
<1>22. d4.last = [d.last EXCEPT ![to] = p.id]
  BY <1>4, <1>12, <1>13, <1>14, <1>15, Zenon
<1>23. d4.order = d.order /\ d4.glast = d.glast
  BY <1>12, <1>13, <1>14, <1>15, Zenon
<1>24. p.id = d.last[to] + 1
  BY <1>3, <1>4
<1>25. IsMoved(d, d4, e)
  BY <1>1, <1>2, <1>5, <1>6, <1>12, <1>20, <1>21, <1>22, <1>23, <1>24, Zenon DEF IsMoved, Alike
<1>26. Done(d4, e).db = d4 /\ Done(d4, e).ev = e
  BY DEF Done
<1> QED
  BY <1>19, <1>20, <1>25, <1>26, Zenon DEF Outcome

LEMMA ReorderOutcome ==
  ASSUME NEW d \in Database, NEW g \in GidsOf(d), NEW ids \in Seq(Nat)
  PROVE  /\ Outcome(d, ReorderProfiles(d, g, ids).db, ReorderProfiles(d, g, ids).ev)
         /\ ReorderProfiles(d, g, ids).ev.k = "reordered" /\ ReorderProfiles(d, g, ids).ev.g = g
<1>1. PICK ps, d2 : ps = ArrangeProfiles(d.ps[g], ids) /\ d2 = WithPs(d, g, ps)
  OBVIOUS
<1>2. PICK e : e = [k |-> "reordered", g |-> g, ids |-> ids]
  BY Zenon
<1>3. ReorderProfiles(d, g, ids) = Done(d2, e)
  BY <1>1, <1>2, Zenon DEF ReorderProfiles, WithPs
<1>4. e.k = "reordered" /\ e.g = g /\ e.ids = ids
  BY <1>2
<1>5. d2.ps = [d.ps EXCEPT ![g] = ps] /\ d2.order = d.order /\ d2.glast = d.glast /\ d2.last = d.last /\ d2.conn = d.conn
  BY <1>1 DEF Database, WithPs
<1>6. IsReordered(d, d2, e)
  BY <1>1, <1>4, <1>5, Zenon DEF IsReordered, Alike
<1>7. Done(d2, e).db = d2 /\ Done(d2, e).ev = e
  BY DEF Done
<1> QED
  BY <1>3, <1>4, <1>6, <1>7, Zenon DEF Outcome

LEMMA GroupsOutcome ==
  ASSUME NEW d \in Database, NEW ids \in Seq(Nat)
  PROVE  Outcome(d, ReorderGroups(d, ids).db, ReorderGroups(d, ids).ev) /\ ReorderGroups(d, ids).ev.k = "groups"
<1>1. PICK line, d2 : line = Arrange(ids, GidsOf(d)) /\ d2 = [d EXCEPT !.order = line]
  BY Zenon
<1>2. PICK e : e = [k |-> "groups", ids |-> ids]
  BY Zenon
<1>3. ReorderGroups(d, ids) = Done(d2, e)
  BY <1>1, <1>2, Zenon DEF ReorderGroups
<1>4. e.k = "groups" /\ e.ids = ids
  BY <1>2
<1>5. d2.order = line /\ d2.glast = d.glast /\ d2.ps = d.ps /\ d2.last = d.last /\ d2.conn = d.conn
  BY <1>1 DEF Database
<1>6. IsGroups(d, d2, e)
  BY <1>1, <1>4, <1>5, Zenon DEF IsGroups
<1>7. Done(d2, e).db = d2 /\ Done(d2, e).ev = e
  BY DEF Done
<1> QED
  BY <1>3, <1>4, <1>6, <1>7, Zenon DEF Outcome

LEMMA AddGroupOutcome ==
  ASSUME NEW d \in Database, d.glast < MaxGid
  PROVE  Outcome(d, AddGroup(d).db, AddGroup(d).ev) /\ AddGroup(d).ev.k = "groupadded"
<1>1. PICK g \in GroupNumbers : g = d.glast + 1
  BY DatabaseParts, TreeAssumption DEF GroupNumbers
<1>2. PICK line, none : line = Append(d.order, g) /\ none = <<>>
  BY Zenon
<1>3. PICK d1 : d1 = [d EXCEPT !.glast = g, !.order = line]
  OBVIOUS
<1>4. PICK d2 : d2 = [d1 EXCEPT !.ps[g] = none]
  BY Zenon
<1>5. d1.order = line /\ d1.glast = g /\ d1.ps = d.ps /\ d1.last = d.last /\ d1.conn = d.conn
  BY <1>3 DEF Database
<1>6. d2.order = line /\ d2.glast = g /\ d2.ps = [d.ps EXCEPT ![g] = none] /\ d2.last = d.last /\ d2.conn = d.conn
  BY <1>3, <1>4 DEF Database
<1>7. [d EXCEPT !.glast = g, !.order = Append(@, g), !.ps[g] = <<>>] = d2
  <2>1. [d EXCEPT !.glast = g, !.order = Append(@, g), !.ps[g] = <<>>] = [d EXCEPT !.glast = g, !.order = line, !.ps[g] = none]
    BY <1>2, Zenon
  <2>2. [d EXCEPT !.glast = g, !.order = line, !.ps[g] = none] = d2
    BY <1>3, <1>4 DEF Database
  <2> QED
    BY <2>1, <2>2, Zenon
<1>8. PICK e : e = [k |-> "groupadded", g |-> g]
  BY Zenon
<1>9. AddGroup(d) = Done(d2, e)
  BY <1>1, <1>7, <1>8, Zenon DEF AddGroup
<1>10. e.k = "groupadded" /\ e.g = g
  BY <1>8
<1>11. IsGroupAdded(d, d2, e)
  BY <1>1, <1>2, <1>6, <1>10, Zenon DEF IsGroupAdded
<1>12. Done(d2, e).db = d2 /\ Done(d2, e).ev = e
  BY DEF Done
<1> QED
  BY <1>9, <1>10, <1>11, <1>12, Zenon DEF Outcome

LEMMA DropGroupOutcome ==
  ASSUME NEW d \in Database, NEW g \in Nat
  PROVE  Outcome(d, DropGroup(d, g).db, DropGroup(d, g).ev) /\ DropGroup(d, g).ev.k = "groupdeleted"
<1>1. PICK line, none : line = Entries(d.order, {i \in DOMAIN d.order : d.order[i] # g}) /\ none = <<>>
  BY Zenon
<1>2. PICK d2 : d2 = [d EXCEPT !.order = line, !.ps[g] = none]
  OBVIOUS
<1>3. d2.order = line /\ d2.glast = d.glast /\ d2.ps = [d.ps EXCEPT ![g] = none] /\ d2.last = d.last /\ d2.conn = d.conn
  BY <1>2 DEF Database
<1>4. PICK e : e = [k |-> "groupdeleted", g |-> g]
  BY Zenon
<1>5. DropGroup(d, g) = Done(d2, e)
  BY <1>1, <1>2, <1>4, Zenon DEF DropGroup
<1>6. e.k = "groupdeleted" /\ e.g = g
  BY <1>4
<1>7. IsGroupDeleted(d, d2, e)
  BY <1>1, <1>3, <1>6, Zenon DEF IsGroupDeleted
<1>8. Done(d2, e).db = d2 /\ Done(d2, e).ev = e
  BY DEF Done
<1> QED
  BY <1>5, <1>6, <1>7, <1>8, Zenon DEF Outcome

LEMMA SubscriptionOutcome ==
  ASSUME NEW d \in Database, NEW g \in GidsOf(d)
  PROVE  /\ Outcome(d, UpdateSubscription(d, g).db, UpdateSubscription(d, g).ev)
         /\ UpdateSubscription(d, g).ev.k = "subscription"
<1>1. d.ps[g] \in Seq(Profile) /\ d.last[g] \in Nat
  BY DatabaseParts
<1>2. PICK p : p = IF d.ps[g] = <<>> THEN Prof(d.last[g] + 1, 1) ELSE [d.ps[g][1] EXCEPT !.ver = @ + 1]
  BY Zenon
<1>3. p \in Profile /\ p.id \in Nat
  <2>1. CASE d.ps[g] = <<>>
    BY <1>1, <1>2, <2>1, NewTyped, ProfileParts
  <2>2. CASE d.ps[g] # <<>>
    <3>1. PICK s \in Seq(Profile) : s = d.ps[g]
      BY <1>1, Zenon
    <3>2. s # <<>>
      BY <2>2, <3>1, Zenon
    <3>3. s[1] \in Profile
      BY <3>2
    <3>4. [s[1] EXCEPT !.ver = @ + 1] \in Profile
      BY <3>3, ProfileParts, Zenon
    <3> QED
      BY <1>2, <2>2, <3>1, <3>4, ProfileParts, Zenon
  <2> QED
    BY <2>1, <2>2
<1>4. PICK ps : ps = <<p>> /\ ps[1] = p
  <2>1. <<p>>[1] = p
    OBVIOUS
  <2> QED
    BY <2>1, Zenon
<1>5. PICK num : num = IF ps[1].id > d.last[g] THEN ps[1].id ELSE d.last[g]
  OBVIOUS
<1>6. num \in Nat /\ p.id <= num
  BY <1>1, <1>3, <1>4, <1>5
<1>7. ps = IF d.ps[g] = <<>> THEN <<Prof(d.last[g] + 1, 1)>> ELSE <<[d.ps[g][1] EXCEPT !.ver = @ + 1]>>
  BY <1>2, <1>4
<1>8. PICK d2 : d2 = [d EXCEPT !.ps[g] = ps, !.last[g] = num]
  OBVIOUS
<1>9. d2.order = d.order /\ d2.glast = d.glast /\ d2.conn = d.conn
      /\ d2.ps = [d.ps EXCEPT ![g] = ps] /\ d2.last = [d.last EXCEPT ![g] = num]
  BY <1>8 DEF Database
<1>10. PICK e : e = [k |-> "subscription", g |-> g, ps |-> ps]
  BY Zenon
<1>11. UpdateSubscription(d, g) = Done(d2, e)
  <2>1. UpdateSubscription(d, g) =
          Done([d EXCEPT !.ps[g] = ps, !.last[g] = IF ps[1].id > @ THEN ps[1].id ELSE @],
               [k |-> "subscription", g |-> g, ps |-> ps])
    BY <1>7 DEF UpdateSubscription
  <2>2. [d EXCEPT !.ps[g] = ps, !.last[g] = IF ps[1].id > @ THEN ps[1].id ELSE @] = d2
    BY <1>5, <1>8 DEF Database
  <2> QED
    BY <1>10, <2>1, <2>2, Zenon
<1>12. e.k = "subscription" /\ e.g = g /\ e.ps = ps
  BY <1>10
<1>13. \E q \in Profile, m \in Nat : e.ps = <<q>> /\ q.id <= m /\ d2.last = [d.last EXCEPT ![e.g] = m]
  BY <1>3, <1>4, <1>6, <1>9, <1>12, Zenon
<1>14. IsSubscription(d, d2, e)
  BY <1>9, <1>12, <1>13, Zenon DEF IsSubscription, Alike
<1>15. Done(d2, e).db = d2 /\ Done(d2, e).ev = e
  BY DEF Done
<1> QED
  BY <1>11, <1>12, <1>14, <1>15, Zenon DEF Outcome

LEMMA OtherOutcomes ==
  ASSUME NEW d \in Database
  PROVE  /\ \A r : /\ Outcome(d, [d EXCEPT !.conn = r], [k |-> "status", ref |-> r])
         /\ Outcome(d, d, [k |-> "state", groups |-> Snapshot(d), ref |-> d.conn])
         /\ \A g, id : Outcome(d, d, GetProfileDetails(d, g, id).ev)
         /\ Outcome(d, d, [k |-> "warn"])
<1>1. ASSUME NEW r PROVE Outcome(d, [d EXCEPT !.conn = r], [k |-> "status", ref |-> r])
  <2>1. PICK e, d2 : e = [k |-> "status", ref |-> r] /\ d2 = [d EXCEPT !.conn = r]
    BY Zenon
  <2>2. e.k = "status" /\ e.ref = r
    BY <2>1
  <2>3. d2.conn = r /\ d2.order = d.order /\ d2.glast = d.glast /\ d2.ps = d.ps /\ d2.last = d.last
    BY <2>1 DEF Database
  <2>4. IsStatus(d, d2, e)
    BY <2>2, <2>3, Zenon DEF IsStatus, Alike
  <2> QED
    BY <2>1, <2>4, Zenon DEF Outcome
<1>2. Outcome(d, d, [k |-> "state", groups |-> Snapshot(d), ref |-> d.conn])
  <2>1. PICK gs, r, e : gs = Snapshot(d) /\ r = d.conn /\ e = [k |-> "state", groups |-> gs, ref |-> r]
    BY Zenon
  <2>2. e.k = "state" /\ e.groups = gs /\ e.ref = r
    BY <2>1
  <2>3. IsState(d, d, e)
    BY <2>1, <2>2, Zenon DEF IsState
  <2> QED
    BY <2>1, <2>3, Zenon DEF Outcome
<1>3. ASSUME NEW g, NEW id PROVE Outcome(d, d, GetProfileDetails(d, g, id).ev)
  <2>1. PICK v : v = IF Has(d, g, id) THEN Find(d.ps[g], id).ver ELSE 0
    OBVIOUS
  <2>2. PICK e : e = [k |-> "details", g |-> g, id |-> id, ver |-> v]
    BY Zenon
  <2>3. GetProfileDetails(d, g, id) = Done(d, e)
    BY <2>1, <2>2, Zenon DEF GetProfileDetails
  <2>4. e.k = "details" /\ Done(d, e).ev = e
    BY <2>2 DEF Done
  <2>5. IsNothing(d, d, e)
    BY <2>4 DEF IsNothing
  <2> QED
    BY <2>3, <2>4, <2>5, Zenon DEF Outcome
<1>4. Outcome(d, d, [k |-> "warn"])
  <2>1. PICK e : e = [k |-> "warn"]
    BY Zenon
  <2>2. IsNothing(d, d, e)
    BY <2>1 DEF IsNothing
  <2> QED
    BY <2>1, <2>2, Zenon DEF Outcome
<1> QED
  BY <1>1, <1>2, <1>3, <1>4

\* Whether a request is still on the way or the event of it is: a reorder is answered unless
\* its group is gone.
Answered(d, r, e) ==
  /\ r.k = "groups" => e.k = "groups"
  /\ r.k = "state" => e.k = "state"
  /\ r.k = "reorder" => (e.k = "reordered" /\ e.g = r.g) \/ r.g \notin GidsOf(d)

LEMMA ExecOutcome ==
  ASSUME NEW d \in Database, NEW r \in Request
  PROVE  Outcome(d, Exec(d, r).db, Exec(d, r).ev) /\ Answered(d, r, Exec(d, r).ev)
<1>1. PICK x : x = Exec(d, r) /\ ExecCase(d, r, x)
  BY ExecIs
<1>2. SUFFICES Outcome(d, x.db, x.ev) /\ Answered(d, r, x.ev)
  BY <1>1
<1>3. CASE r.k = "add" /\ r.g \in GidsOf(d) /\ x = AddProfiles(d, r.g)
  BY <1>3, AddOutcome DEF Answered
<1>4. CASE r.k = "delete" /\ x = DeleteProfiles(d, r.g, r.id)
  BY <1>4, RequestParts, DeleteOutcome DEF Answered
<1>5. CASE r.k = "rename" /\ Has(d, r.g, r.id) /\ x = UpdateProfile(d, r.g, r.id)
  BY <1>5, UpdateOutcome DEF Answered
<1>6. CASE r.k = "move" /\ Has(d, r.g, r.id) /\ r.to \in GidsOf(d) \ {r.g} /\ x = MoveProfile(d, r.g, r.id, r.to)
  BY <1>6, MoveOutcome DEF Answered
<1>7. CASE r.k = "reorder" /\ r.g \in GidsOf(d) /\ x = ReorderProfiles(d, r.g, r.ids)
  BY <1>7, RequestParts, ReorderOutcome DEF Answered
<1>8. CASE r.k = "groups" /\ x = ReorderGroups(d, r.ids)
  BY <1>8, RequestParts, GroupsOutcome DEF Answered
<1>9. CASE r.k = "addgroup" /\ d.glast < MaxGid /\ x = AddGroup(d)
  BY <1>9, AddGroupOutcome DEF Answered
<1>10. CASE r.k = "delgroup" /\ x = DropGroup(d, r.g)
  BY <1>10, RequestParts, DropGroupOutcome DEF Answered
<1>11. CASE r.k = "refresh" /\ r.g \in GidsOf(d) /\ x = UpdateSubscription(d, r.g)
  BY <1>11, SubscriptionOutcome DEF Answered
<1>12. CASE r.k = "connect" /\ Has(d, r.g, r.id) /\ x = Done([d EXCEPT !.conn = <<r.g, r.id>>], [k |-> "status", ref |-> <<r.g, r.id>>])
  <2>1. PICK c : c = <<r.g, r.id>>
    BY Zenon
  <2>2. x.db = [d EXCEPT !.conn = c] /\ x.ev = [k |-> "status", ref |-> c]
    BY <1>12, <2>1 DEF Done
  <2>3. Outcome(d, [d EXCEPT !.conn = c], [k |-> "status", ref |-> c])
    BY OtherOutcomes, Zenon
  <2> QED
    BY <1>12, <2>2, <2>3 DEF Answered
<1>13. CASE r.k = "state" /\ x = Done(d, [k |-> "state", groups |-> Snapshot(d), ref |-> d.conn])
  <2>1. PICK e : e = [k |-> "state", groups |-> Snapshot(d), ref |-> d.conn] /\ e.k = "state"
    <3>1. PICK gs, c : gs = Snapshot(d) /\ c = d.conn
      OBVIOUS
    <3>2. PICK e : e = [k |-> "state", groups |-> gs, ref |-> c]
      BY Zenon
    <3>3. e.k = "state"
      BY <3>2
    <3> QED
      BY <3>1, <3>2, <3>3, Zenon
  <2>2. x.db = d /\ x.ev = e
    BY <1>13, <2>1 DEF Done
  <2>3. Outcome(d, d, e)
    BY <2>1, OtherOutcomes
  <2> QED
    BY <1>13, <2>1, <2>2, <2>3 DEF Answered
<1>14. CASE r.k = "details" /\ x = GetProfileDetails(d, r.g, r.id)
  <2>1. x.db = d
    BY <1>14 DEF GetProfileDetails, Done
  <2>2. Outcome(d, d, x.ev)
    BY <1>14, OtherOutcomes, Zenon
  <2> QED
    BY <1>14, <2>1, <2>2 DEF Answered
<1>15. CASE /\ x = Done(d, [k |-> "warn"])
            /\ r.k = "reorder" => r.g \notin GidsOf(d)
            /\ r.k \notin {"groups", "state"}
  <2>1. x.db = d /\ x.ev = [k |-> "warn"]
    BY <1>15 DEF Done
  <2> QED
    BY <1>15, <2>1, OtherOutcomes, Zenon DEF Answered
<1> QED
  BY <1>1, <1>3, <1>4, <1>5, <1>6, <1>7, <1>8, <1>9, <1>10, <1>11, <1>12, <1>13, <1>14, <1>15 DEF ExecCase

-----------------------------------------------------------------------------
(* No two entries of the database have one identifier.                     *)

SoundPs(ps, num) == Unique(ps) /\ \A p \in ToSet(ps) : p.id <= num
Sound(d) ==
  /\ \A i, j \in DOMAIN d.order : d.order[i] = d.order[j] => i = j
  /\ \A g \in GidsOf(d) : g <= d.glast
  /\ \A g \in GroupNumbers : SoundPs(d.ps[g], d.last[g])

LEMMA NoneSet == ToSet(<<>>) = {} /\ Unique(<<>>)
  BY DEF ToSet, Unique

LEMMA OneSet == ASSUME NEW x PROVE ToSet(<<x>>) = {x} /\ Unique(<<x>>)
  BY DEF ToSet, Unique

LEMMA SoundMade ==
  ASSUME NEW ps \in Seq(Profile), NEW num \in Nat, SoundPs(ps, num)
  PROVE  /\ \A id : SoundPs(Without(ps, id), num)
         /\ \A p \in Profile : p.id = num + 1 => SoundPs(Append(ps, p), p.id) /\ \A q \in ToSet(ps) : q.id # p.id
         /\ \A p \in Profile : p.id \in ToSet(Ids(ps)) => SoundPs(Replace(ps, p), num)
         /\ \A ids \in Seq(Nat) : SoundPs(ArrangeProfiles(ps, ids), num)
<1>1. Unique(ps) /\ \A p \in ToSet(ps) : p.id <= num
  BY DEF SoundPs
<1>2. \A p \in ToSet(ps) : p \in Profile /\ p.id \in Nat
  <2>1. ToSet(ps) \in SUBSET Profile
    BY ValuesFinite
  <2> QED
    BY <2>1, ProfileParts, Zenon
<1>3. \A x \in ToSet(Ids(ps)) : x \in Nat /\ x <= num
  BY <1>1, <1>2, IdsSet
<1>4. ASSUME NEW id PROVE SoundPs(Without(ps, id), num)
  <2>1. ToSet(Without(ps, id)) = {p \in ToSet(ps) : p.id # id} /\ Unique(Without(ps, id))
    BY <1>1, WithoutSet
  <2> QED
    BY <1>1, <2>1 DEF SoundPs
<1>5. ASSUME NEW p \in Profile, p.id = num + 1
      PROVE  SoundPs(Append(ps, p), p.id) /\ \A q \in ToSet(ps) : q.id # p.id
  <2>1. \A q \in ToSet(ps) : q.id # p.id /\ q.id <= p.id
    <3> TAKE q \in ToSet(ps)
    <3>1. PICK x \in Nat, y \in Nat : x = q.id /\ y = p.id /\ y = num + 1 /\ x <= num
      BY <1>1, <1>2, <1>5
    <3>2. x # y /\ x <= y
      BY <3>1
    <3> QED
      BY <3>1, <3>2, Zenon
  <2>2. ToSet(Append(ps, p)) = ToSet(ps) \cup {p}
    BY AppendSet
  <2>3. Unique(Append(ps, p))
    BY <1>1, <2>1, AppendUnique
  <2>4. p.id <= p.id
    <3>1. PICK x \in Nat : x = p.id
      BY ProfileParts, Zenon
    <3> QED
      BY <3>1
  <2> QED
    BY <2>1, <2>2, <2>3, <2>4 DEF SoundPs
<1>6. ASSUME NEW p \in Profile, p.id \in ToSet(Ids(ps)) PROVE SoundPs(Replace(ps, p), num)
  <2>1. ToSet(Replace(ps, p)) = {IF x.id = p.id THEN p ELSE x : x \in ToSet(ps)} /\ Unique(Replace(ps, p))
    BY <1>1, ReplaceTyped
  <2>2. p.id <= num
    BY <1>3, <1>6
  <2>3. \A x \in ToSet(ps) : (IF x.id = p.id THEN p ELSE x).id <= num
    BY <1>1, <2>2
  <2>4. \A y \in ToSet(Replace(ps, p)) : y.id <= num
    BY <2>1, <2>3
  <2> QED
    BY <2>1, <2>4 DEF SoundPs
<1>7. ASSUME NEW ids \in Seq(Nat) PROVE SoundPs(ArrangeProfiles(ps, ids), num)
  <2>1. {p.id : p \in ToSet(ps)} = ToSet(Ids(ps))
    BY IdsTyped
  <2>2. PICK line : line = Arrange(ids, ToSet(Ids(ps)))
    OBVIOUS
  <2>3. ArrangeProfiles(ps, ids) = [i \in DOMAIN line |-> Find(ps, line[i])]
    BY <2>1, <2>2, Zenon DEF ArrangeProfiles
  <2>4. \A x \in Profile : x.id \in Nat
    BY ProfileParts, Zenon
  <2>5. /\ Unique([i \in DOMAIN line |-> Find(ps, line[i])])
        /\ ToSet([i \in DOMAIN line |-> Find(ps, line[i])]) = ToSet(ps)
    BY <1>1, <2>2, <2>4, ArrangedSet
  <2> QED
    BY <1>1, <2>3, <2>5, Zenon DEF SoundPs
<1> QED
  BY <1>4, <1>5, <1>6, <1>7

\* The profiles of one group have changed.
LEMMA SoundPut ==
  ASSUME NEW d \in Database, Sound(d), NEW d2 \in Database, Alike(d, d2), NEW g,
         NEW ps, d2.ps = [d.ps EXCEPT ![g] = ps],
         \A x \in GroupNumbers : x # g => d2.last[x] = d.last[x],
         g \in GroupNumbers => SoundPs(ps, d2.last[g])
  PROVE  Sound(d2)
<1>1. d.ps \in [GroupNumbers -> Seq(Profile)]
  BY DatabaseParts
<1>2. \A x \in GroupNumbers : d2.ps[x] = IF x = g THEN ps ELSE d.ps[x]
  BY <1>1
<1>3. \A x \in GroupNumbers : SoundPs(d2.ps[x], d2.last[x])
  BY <1>2 DEF Sound
<1>4. d2.order = d.order /\ d2.glast = d.glast /\ GidsOf(d2) = GidsOf(d)
  BY DEF Alike, GidsOf
<1> QED
  BY <1>3, <1>4 DEF Sound

\* The groups of a database have their profiles.
LEMMA SoundGroup ==
  ASSUME NEW d \in Database, Sound(d), NEW g \in GroupNumbers
  PROVE  d.ps[g] \in Seq(Profile) /\ d.last[g] \in Nat /\ SoundPs(d.ps[g], d.last[g]) /\ Unique(d.ps[g])
<1>1. d.ps[g] \in Seq(Profile) /\ d.last[g] \in Nat
  BY DatabaseParts
<1> QED
  BY <1>1 DEF Sound, SoundPs

LEMMA OneGroupSound ==
  ASSUME NEW d \in Database, Sound(d), NEW d2 \in Database, NEW e \in Event,
         IsAdded(d, d2, e) \/ IsDeleted(d, d2, e) \/ IsUpdated(d, d2, e) \/ IsReordered(d, d2, e) \/ IsSubscription(d, d2, e)
  PROVE  Sound(d2)
<1>0. GidsOf(d) \in SUBSET GroupNumbers /\ d.last \in [GroupNumbers -> Nat]
  BY DatabaseParts
<1>1. CASE IsAdded(d, d2, e)
  <2>1. /\ e.g \in GroupNumbers /\ e.p \in Profile /\ e.p.id = d.last[e.g] + 1 /\ Alike(d, d2)
        /\ d2.ps = [d.ps EXCEPT ![e.g] = Append(d.ps[e.g], e.p)] /\ d2.last = [d.last EXCEPT ![e.g] = e.p.id]
    BY <1>0, <1>1 DEF IsAdded
  <2>2. d.ps[e.g] \in Seq(Profile) /\ d.last[e.g] \in Nat /\ SoundPs(d.ps[e.g], d.last[e.g])
    BY <2>1, SoundGroup
  <2>3. SoundPs(Append(d.ps[e.g], e.p), e.p.id)
    BY <2>1, <2>2, SoundMade, Zenon
  <2>4. d2.last[e.g] = e.p.id /\ \A x \in GroupNumbers : x # e.g => d2.last[x] = d.last[x]
    BY <1>0, <2>1
  <2>5. SoundPs(Append(d.ps[e.g], e.p), d2.last[e.g])
    BY <2>3, <2>4, Zenon
  <2> QED
    BY <2>1, <2>4, <2>5, SoundPut, Zenon
<1>2. CASE IsDeleted(d, d2, e)
  <2>1. Alike(d, d2) /\ d2.ps = [d.ps EXCEPT ![e.g] = Without(d.ps[e.g], e.id)] /\ d2.last = d.last
    BY <1>2 DEF IsDeleted
  <2>2. e.g \in GroupNumbers => SoundPs(Without(d.ps[e.g], e.id), d2.last[e.g])
    <3>1. e.g \in GroupNumbers => d.ps[e.g] \in Seq(Profile) /\ d.last[e.g] \in Nat /\ SoundPs(d.ps[e.g], d.last[e.g])
      BY SoundGroup
    <3>2. e.g \in GroupNumbers => SoundPs(Without(d.ps[e.g], e.id), d.last[e.g])
      BY <3>1, SoundMade
    <3> QED
      BY <2>1, <3>2, Zenon
  <2> QED
    BY <2>1, <2>2, SoundPut, Zenon
<1>3. CASE IsUpdated(d, d2, e)
  <2>1. /\ e.g \in GroupNumbers /\ e.p \in Profile /\ e.p.id \in ToSet(Ids(d.ps[e.g])) /\ Alike(d, d2)
        /\ d2.ps = [d.ps EXCEPT ![e.g] = Replace(d.ps[e.g], e.p)] /\ d2.last = d.last
    BY <1>0, <1>3 DEF IsUpdated
  <2>2. d.ps[e.g] \in Seq(Profile) /\ d.last[e.g] \in Nat /\ SoundPs(d.ps[e.g], d.last[e.g])
    BY <2>1, SoundGroup
  <2>3. SoundPs(Replace(d.ps[e.g], e.p), d.last[e.g])
    BY <2>1, <2>2, SoundMade
  <2>4. SoundPs(Replace(d.ps[e.g], e.p), d2.last[e.g])
    BY <2>1, <2>3, Zenon
  <2> QED
    BY <2>1, <2>4, SoundPut
<1>4. CASE IsReordered(d, d2, e)
  <2>1. /\ e.g \in GroupNumbers /\ e.ids \in Seq(Nat) /\ Alike(d, d2)
        /\ d2.ps = [d.ps EXCEPT ![e.g] = ArrangeProfiles(d.ps[e.g], e.ids)] /\ d2.last = d.last
    BY <1>0, <1>4 DEF IsReordered
  <2>2. d.ps[e.g] \in Seq(Profile) /\ d.last[e.g] \in Nat /\ SoundPs(d.ps[e.g], d.last[e.g])
    BY <2>1, SoundGroup
  <2>3. SoundPs(ArrangeProfiles(d.ps[e.g], e.ids), d.last[e.g])
    BY <2>1, <2>2, SoundMade
  <2>4. SoundPs(ArrangeProfiles(d.ps[e.g], e.ids), d2.last[e.g])
    BY <2>1, <2>3, Zenon
  <2> QED
    BY <2>1, <2>4, SoundPut, Zenon
<1>5. CASE IsSubscription(d, d2, e)
  <2>1. e.g \in GroupNumbers /\ Alike(d, d2) /\ d2.ps = [d.ps EXCEPT ![e.g] = e.ps]
    BY <1>0, <1>5 DEF IsSubscription
  <2>2. PICK p \in Profile, num \in Nat : e.ps = <<p>> /\ p.id <= num /\ d2.last = [d.last EXCEPT ![e.g] = num]
    BY <1>5, Zenon DEF IsSubscription
  <2>3. d2.last[e.g] = num /\ \A x \in GroupNumbers : x # e.g => d2.last[x] = d.last[x]
    BY <1>0, <2>1, <2>2
  <2>4. SoundPs(<<p>>, num)
    <3>1. ToSet(<<p>>) = {p} /\ Unique(<<p>>)
      BY OneSet
    <3> QED
      BY <2>2, <3>1, Zenon DEF SoundPs
  <2>5. SoundPs(e.ps, d2.last[e.g])
    BY <2>2, <2>3, <2>4, Zenon
  <2> QED
    BY <2>1, <2>3, <2>5, SoundPut
<1> QED
  BY <1>1, <1>2, <1>3, <1>4, <1>5

LEMMA MovedSound ==
  ASSUME NEW d \in Database, Sound(d), NEW d2 \in Database, NEW e \in Event, IsMoved(d, d2, e)
  PROVE  Sound(d2)
<1>1. /\ e.g \in GidsOf(d) /\ e.to \in GidsOf(d) /\ e.to # e.g /\ e.p \in Profile /\ e.p.id = d.last[e.to] + 1
      /\ Alike(d, d2) /\ d2.last = [d.last EXCEPT ![e.to] = e.p.id]
      /\ d2.ps = [d.ps EXCEPT ![e.g] = Without(d.ps[e.g], e.id), ![e.to] = Append(d.ps[e.to], e.p)]
  BY DEF IsMoved
<1>2. /\ e.g \in GroupNumbers /\ e.to \in GroupNumbers
      /\ d.last \in [GroupNumbers -> Nat] /\ d.ps \in [GroupNumbers -> Seq(Profile)]
  BY <1>1, DatabaseParts, Zenon
<1>3. PICK ps, qs : ps = Without(d.ps[e.g], e.id) /\ qs = Append(d.ps[e.to], e.p)
  BY Zenon
<1>4. d2.ps = [d.ps EXCEPT ![e.g] = ps, ![e.to] = qs]
  BY <1>1, <1>3, Zenon
<1>5. \A x \in GroupNumbers : /\ d2.ps[x] = IF x = e.to THEN qs ELSE IF x = e.g THEN ps ELSE d.ps[x]
                              /\ d2.last[x] = IF x = e.to THEN e.p.id ELSE d.last[x]
  BY <1>1, <1>2, <1>4, Zenon
<1>6. d.ps[e.g] \in Seq(Profile) /\ d.last[e.g] \in Nat /\ SoundPs(d.ps[e.g], d.last[e.g])
  BY <1>2, SoundGroup
<1>7. d.ps[e.to] \in Seq(Profile) /\ d.last[e.to] \in Nat /\ SoundPs(d.ps[e.to], d.last[e.to])
  BY <1>2, SoundGroup
<1>8. SoundPs(Without(d.ps[e.g], e.id), d.last[e.g])
  BY <1>6, SoundMade
<1>9. SoundPs(Append(d.ps[e.to], e.p), e.p.id)
  BY <1>1, <1>7, SoundMade, Zenon
<1>10. \A x \in GroupNumbers : SoundPs(d.ps[x], d.last[x])
  BY DEF Sound
<1>11. ASSUME NEW x \in GroupNumbers PROVE SoundPs(d2.ps[x], d2.last[x])
  <2>1. CASE x = e.to
    BY <1>3, <1>5, <1>9, <2>1, Zenon
  <2>2. CASE x = e.g
    BY <1>1, <1>3, <1>5, <1>8, <2>2, Zenon
  <2>3. CASE x # e.to /\ x # e.g
    BY <1>5, <1>10, <2>3, Zenon
  <2> QED
    BY <2>1, <2>2, <2>3
<1>12. d2.order = d.order /\ d2.glast = d.glast /\ GidsOf(d2) = GidsOf(d)
  BY <1>1 DEF Alike, GidsOf
<1> QED
  BY <1>11, <1>12 DEF Sound

LEMMA GroupsSound ==
  ASSUME NEW d \in Database, Sound(d), NEW d2 \in Database, NEW e \in Event, IsGroups(d, d2, e)
  PROVE  Sound(d2) /\ GidsOf(d2) = GidsOf(d)
<1>1. /\ e.ids \in Seq(Nat) /\ d2.order = Arrange(e.ids, GidsOf(d)) /\ d2.glast = d.glast
      /\ d2.ps = d.ps /\ d2.last = d.last
  BY DEF IsGroups
<1>2. GidsOf(d) \in SUBSET Nat /\ IsFiniteSet(GidsOf(d))
  BY DatabaseParts
<1>3. ToSet(d2.order) = GidsOf(d) /\ \A i, j \in DOMAIN d2.order : d2.order[i] = d2.order[j] => i = j
  BY <1>1, <1>2, ArrangeAmong
<1>4. GidsOf(d2) = GidsOf(d)
  BY <1>3 DEF GidsOf
<1> QED
  BY <1>1, <1>3, <1>4 DEF Sound

LEMMA GroupAddedSound ==
  ASSUME NEW d \in Database, Sound(d), NEW d2 \in Database, NEW e \in Event, IsGroupAdded(d, d2, e)
  PROVE  Sound(d2) /\ GidsOf(d2) = GidsOf(d) \cup {e.g} /\ e.g \notin GidsOf(d) /\ d.glast <= d2.glast
<1>1. /\ e.g = d.glast + 1 /\ e.g \in GroupNumbers /\ d2.order = Append(d.order, e.g) /\ d2.glast = e.g
      /\ d2.ps = [d.ps EXCEPT ![e.g] = <<>>] /\ d2.last = d.last
  BY DEF IsGroupAdded
<1>2. /\ d.order \in Seq(GroupNumbers) /\ d.ps \in [GroupNumbers -> Seq(Profile)] /\ d.glast \in Nat
      /\ GroupNumbers \in SUBSET Nat /\ GidsOf(d) \in SUBSET GroupNumbers
  BY DatabaseParts
<1> HIDE DEF GroupNumbers
<1>3. ToSet(Append(d.order, e.g)) = ToSet(d.order) \cup {e.g}
  BY <1>1, <1>2, AppendSet
<1>4. GidsOf(d2) = GidsOf(d) \cup {e.g}
  BY <1>1, <1>3 DEF GidsOf
<1>5. \A g \in GidsOf(d) : g \in Nat /\ g <= d.glast
  BY <1>2, Zenon DEF Sound
<1>6. \A g \in GidsOf(d2) : g <= d2.glast
  BY <1>1, <1>2, <1>4, <1>5
<1>7. e.g \notin GidsOf(d)
  BY <1>1, <1>2, <1>5
<1>8. \A i, j \in DOMAIN d2.order : d2.order[i] = d2.order[j] => i = j
  <2>1. PICK s, x : s = d.order /\ x = e.g
    OBVIOUS
  <2>2. s \in Seq(GroupNumbers) /\ x \in GroupNumbers
    BY <1>1, <1>2, <2>1
  <2>3. PICK len \in Nat : len = Len(s) /\ DOMAIN s = 1 .. len
    BY <2>2
  <2>4. PICK t : t = Append(s, x)
    BY Zenon
  <2>5. DOMAIN t = 1 .. len + 1 /\ t[len + 1] = x /\ \A i \in 1 .. len : t[i] = s[i]
    BY <2>2, <2>3, <2>4
  <2>6. \A i \in 1 .. len : s[i] # x
    <3>1. \A i \in DOMAIN s : s[i] \in ToSet(s)
      BY DEF ToSet
    <3>2. x \notin ToSet(s)
      BY <1>7, <2>1, Zenon DEF GidsOf
    <3> QED
      BY <2>3, <3>1, <3>2
  <2>7. \A i, j \in 1 .. len : s[i] = s[j] => i = j
    BY <2>1, <2>3 DEF Sound
  <2>8. ASSUME NEW i \in 1 .. len + 1, NEW j \in 1 .. len + 1, t[i] = t[j] PROVE i = j
    <3>1. i = len + 1 \/ i \in 1 .. len
      BY <2>3
    <3>2. j = len + 1 \/ j \in 1 .. len
      BY <2>3
    <3> QED
      BY <2>5, <2>6, <2>7, <2>8, <3>1, <3>2
  <2> QED
    <3>1. d2.order = t
      BY <1>1, <2>1, <2>4, Zenon
    <3> QED
      BY <2>5, <2>8, <3>1
<1>9. \A g \in GroupNumbers : SoundPs(d2.ps[g], d2.last[g])
  <2>1. PICK none : none = <<>>
    OBVIOUS
  <2>2. SoundPs(none, 0) /\ \A num : SoundPs(none, num)
    BY <2>1, NoneSet DEF SoundPs
  <2>3. d2.ps = [d.ps EXCEPT ![e.g] = none]
    BY <1>1, <2>1, Zenon
  <2>4. \A g \in GroupNumbers : d2.ps[g] = IF g = e.g THEN none ELSE d.ps[g]
    BY <1>2, <2>3
  <2> QED
    BY <1>1, <2>2, <2>4 DEF Sound
<1>10. d.glast <= d2.glast
  BY <1>1, <1>2
<1> QED
  BY <1>4, <1>6, <1>7, <1>8, <1>9, <1>10 DEF Sound

LEMMA GroupDeletedSound ==
  ASSUME NEW d \in Database, Sound(d), NEW d2 \in Database, NEW e \in Event, IsGroupDeleted(d, d2, e)
  PROVE  Sound(d2) /\ GidsOf(d2) = GidsOf(d) \ {e.g}
<1>1. /\ d2.order = Entries(d.order, {i \in DOMAIN d.order : d.order[i] # e.g}) /\ d2.glast = d.glast
      /\ d2.ps = [d.ps EXCEPT ![e.g] = <<>>] /\ d2.last = d.last
  BY DEF IsGroupDeleted
<1>2. d.order \in Seq(GroupNumbers) /\ d.ps \in [GroupNumbers -> Seq(Profile)]
  BY DatabaseParts
<1>3. PICK s, I, t : s = d.order /\ I = {i \in DOMAIN s : s[i] # e.g} /\ t = Entries(s, I)
  BY Zenon
<1>4. s \in Seq(GroupNumbers) /\ I \in SUBSET DOMAIN s /\ t = d2.order
  BY <1>1, <1>2, <1>3, Zenon
<1> HIDE DEF GroupNumbers
<1>5. /\ ToSet(t) = {s[i] : i \in I}
      /\ \A p, q \in DOMAIN t : \E i, j \in I : t[p] = s[i] /\ t[q] = s[j] /\ (i = j => p = q)
  <2>1. s \in Seq(GroupNumbers) /\ I \in SUBSET DOMAIN s /\ t = Entries(s, I)
    BY <1>3, <1>4
  <2> QED
    BY <2>1, EntriesSet
<1>6. \A i, j \in DOMAIN s : s[i] = s[j] => i = j
  BY <1>3 DEF Sound
<1>7. \A p, q \in DOMAIN t : t[p] = t[q] => p = q
  BY <1>4, <1>5, <1>6
<1>8. ToSet(t) = ToSet(s) \ {e.g}
  BY <1>3, <1>5, ToSetIs
<1>9. GidsOf(d2) = GidsOf(d) \ {e.g}
  BY <1>3, <1>4, <1>8, Zenon DEF GidsOf
<1>10. \A g \in GroupNumbers : SoundPs(d2.ps[g], d2.last[g])
  <2>1. PICK none : none = <<>>
    OBVIOUS
  <2>2. \A num : SoundPs(none, num)
    BY <2>1, NoneSet DEF SoundPs
  <2>3. d2.ps = [d.ps EXCEPT ![e.g] = none]
    BY <1>1, <2>1, Zenon
  <2>4. \A g \in GroupNumbers : d2.ps[g] = IF g = e.g THEN none ELSE d.ps[g]
    BY <1>2, <2>3
  <2> QED
    BY <1>1, <2>2, <2>4 DEF Sound
<1> QED
  BY <1>1, <1>4, <1>7, <1>9, <1>10 DEF Sound

\* A command leaves the database sound, and identifiers of groups are not used again.
LEMMA OutcomeKeeps ==
  ASSUME NEW d \in Database, Sound(d), NEW d2 \in Database, NEW e \in Event, Outcome(d, d2, e)
  PROVE  /\ Sound(d2) /\ d.glast <= d2.glast
         /\ \A g \in GidsOf(d2) : g \in GidsOf(d) \/ g = d.glast + 1
<1>1. d.glast \in Nat
  BY DatabaseParts
<1>2. CASE \/ IsAdded(d, d2, e) \/ IsDeleted(d, d2, e) \/ IsUpdated(d, d2, e) \/ IsReordered(d, d2, e)
           \/ IsSubscription(d, d2, e)
  <2>1. Alike(d, d2)
    BY <1>2 DEF IsAdded, IsDeleted, IsUpdated, IsReordered, IsSubscription
  <2>2. Sound(d2)
    BY <1>2, OneGroupSound
  <2> QED
    BY <1>1, <2>1, <2>2 DEF Alike, GidsOf
<1>3. CASE IsMoved(d, d2, e)
  <2>1. Alike(d, d2)
    BY <1>3 DEF IsMoved
  <2>2. Sound(d2)
    BY <1>3, MovedSound
  <2> QED
    BY <1>1, <2>1, <2>2 DEF Alike, GidsOf
<1>4. CASE IsGroups(d, d2, e)
  <2>1. d2.glast = d.glast
    BY <1>4 DEF IsGroups
  <2>2. Sound(d2) /\ GidsOf(d2) = GidsOf(d)
    BY <1>4, GroupsSound
  <2> QED
    BY <1>1, <2>1, <2>2
<1>5. CASE IsGroupAdded(d, d2, e)
  <2>1. e.g = d.glast + 1
    BY <1>5 DEF IsGroupAdded
  <2>2. Sound(d2) /\ GidsOf(d2) = GidsOf(d) \cup {e.g} /\ d.glast <= d2.glast
    BY <1>5, GroupAddedSound
  <2> QED
    BY <2>1, <2>2
<1>6. CASE IsGroupDeleted(d, d2, e)
  <2>1. d2.glast = d.glast
    BY <1>6 DEF IsGroupDeleted
  <2>2. Sound(d2) /\ GidsOf(d2) = GidsOf(d) \ {e.g}
    BY <1>6, GroupDeletedSound
  <2> QED
    BY <1>1, <2>1, <2>2
<1>7. CASE IsStatus(d, d2, e)
  <2>1. d2.order = d.order /\ d2.glast = d.glast /\ d2.ps = d.ps /\ d2.last = d.last
    BY <1>7 DEF IsStatus, Alike
  <2> QED
    BY <1>1, <2>1 DEF Sound, GidsOf
<1>8. CASE IsState(d, d2, e) \/ IsNothing(d, d2, e)
  BY <1>1, <1>8 DEF IsState, IsNothing
<1> QED
  BY <1>2, <1>3, <1>4, <1>5, <1>6, <1>7, <1>8 DEF Outcome

-----------------------------------------------------------------------------
(* The copy and a database, and what an event does to both.                *)

\* The groups of a copy are those of an order, with their profiles; the order of the groups
\* may be free, that of the profiles of some groups loose.
Tree(gs, line, P, free, loose) ==
  /\ Unique(gs) /\ ToSet(Ids(gs)) = ToSet(line) /\ (free \/ Ids(gs) = line)
  /\ \A i \in DOMAIN gs : Match(gs[i].ps, P[gs[i].id], gs[i].id \in loose)
Copies(a, d, free, loose) == a.conn = d.conn /\ Tree(a.groups, d.order, d.ps, free, loose)
Alike2(a, b) == b.groups = a.groups /\ b.conn = a.conn

LEMMA TreeLooser ==
  ASSUME NEW gs, NEW line, NEW P, NEW f, NEW L, Tree(gs, line, P, f, L), NEW f2, f => f2,
         NEW L2, \A x \in ToSet(line) : x \in L => x \in L2
  PROVE  Tree(gs, line, P, f2, L2)
<1>1. \A i \in DOMAIN gs : gs[i].id \in ToSet(line)
  <2>1. ToSet(Ids(gs)) = ToSet(line)
    BY DEF Tree
  <2> QED
    BY <2>1, IdsSet
<1>2. \A i \in DOMAIN gs : Match(gs[i].ps, P[gs[i].id], gs[i].id \in L2)
  <2> TAKE i \in DOMAIN gs
  <2>1. Match(gs[i].ps, P[gs[i].id], gs[i].id \in L)
    BY DEF Tree
  <2>2. gs[i].id \in L => gs[i].id \in L2
    BY <1>1
  <2> QED
    BY <2>1, <2>2, Zenon DEF Match
<1> QED
  BY <1>2 DEF Tree

LEMMA KnownIs ==
  ASSUME NEW a, NEW line, NEW P, NEW f, NEW L, Tree(a.groups, line, P, f, L), NEW g
  PROVE  KnowsGroup(a, g) <=> g \in ToSet(line)
<1>1. ToSet(Ids(a.groups)) = ToSet(line)
  BY DEF Tree
<1> QED
  BY <1>1, IdsSet DEF KnowsGroup

LEMMA MatchOf ==
  ASSUME NEW a \in Interface, NEW line, NEW P, NEW f, NEW L, Tree(a.groups, line, P, f, L), NEW g, g \in ToSet(line)
  PROVE  /\ KnowsGroup(a, g) /\ ProfilesOf(a, g) \in Seq(Profile)
         /\ Match(ProfilesOf(a, g), P[g], g \in L)
<1>1. KnowsGroup(a, g)
  BY KnownIs, Zenon
<1>2. PICK k : /\ k = GroupIndex(a, g) /\ k \in DOMAIN a.groups /\ a.groups[k].id = g
               /\ ProfilesOf(a, g) \in Seq(Profile) /\ ProfilesOf(a, g) = a.groups[k].ps
  BY <1>1, KnownGroup
<1>3. Match(a.groups[k].ps, P[a.groups[k].id], a.groups[k].id \in L)
  BY <1>2 DEF Tree
<1> QED
  BY <1>1, <1>2, <1>3, Zenon

\* The profiles of one group are replaced on both sides.
OneChanged(a, g, ps, line, P, Q, f, L, L2) ==
  /\ Tree(a.groups, line, P, f, L) /\ (KnowsGroup(a, g) => ps \in Seq(Profile))
  /\ \A x \in ToSet(line) : x # g => Q[x] = P[x] /\ (x \in L => x \in L2)
  /\ g \in ToSet(line) => Match(ps, Q[g], g \in L2)

LEMMA SetTree ==
  ASSUME NEW a \in Interface, NEW line, NEW P, NEW f, NEW L, NEW g, NEW ps, NEW Q, NEW L2,
         OneChanged(a, g, ps, line, P, Q, f, L, L2)
  PROVE  Tree(SetProfiles(a, g, ps).groups, line, Q, f, L2)
<1> USE DEF OneChanged
<1>0. /\ Unique(a.groups) /\ ToSet(Ids(a.groups)) = ToSet(line) /\ (f \/ Ids(a.groups) = line)
      /\ \A i \in DOMAIN a.groups : Match(a.groups[i].ps, P[a.groups[i].id], a.groups[i].id \in L)
  BY DEF Tree
<1>1. KnowsGroup(a, g) <=> g \in ToSet(line)
  BY KnownIs, Zenon
<1>2. \A i \in DOMAIN a.groups : a.groups[i].id \in ToSet(line)
  BY <1>0, IdsSet
<1>3. CASE ~KnowsGroup(a, g)
  <2>1. SetProfiles(a, g, ps) = a
    BY <1>3, SetTyped
  <2>2. ASSUME NEW i \in DOMAIN a.groups PROVE Match(a.groups[i].ps, Q[a.groups[i].id], a.groups[i].id \in L2)
    <3>1. PICK x : x = a.groups[i].id
      OBVIOUS
    <3>2. x \in ToSet(line) /\ x # g
      BY <1>1, <1>2, <1>3, <3>1
    <3>3. Q[x] = P[x] /\ (x \in L => x \in L2)
      BY <3>2
    <3>4. Match(a.groups[i].ps, P[x], x \in L)
      BY <1>0, <3>1, Zenon
    <3>5. Match(a.groups[i].ps, P[x], x \in L2)
      BY <3>3, <3>4, Zenon DEF Match
    <3> QED
      BY <3>1, <3>3, <3>5, Zenon
  <2> QED
    BY <1>0, <2>1, <2>2, Zenon DEF Tree
<1>4. CASE KnowsGroup(a, g)
  <2>1. PICK k : k = GroupIndex(a, g) /\ k \in DOMAIN a.groups /\ a.groups[k].id = g
    BY <1>4, KnownGroup
  <2>2. SetProfiles(a, g, ps) = WithProfiles(a, k, ps)
    BY <1>4, <2>1, Zenon DEF SetProfiles, WithProfiles
  <2>3. PICK gs : gs = WithProfiles(a, k, ps).groups
    OBVIOUS
  <2>4. gs = [i \in DOMAIN a.groups |-> IF i = k THEN [a.groups[i] EXCEPT !.ps = ps] ELSE a.groups[i]]
    BY <1>4, <2>1, <2>3, IndexTyped
  <2>5. DOMAIN gs = DOMAIN a.groups
    BY <2>4
  <2>6. ASSUME NEW i \in DOMAIN a.groups
        PROVE gs[i].id = a.groups[i].id /\ gs[i].ps = IF i = k THEN ps ELSE a.groups[i].ps
    <3>1. a.groups[i] \in Group
      BY InterfaceParts
    <3>2. [a.groups[i] EXCEPT !.ps = ps].id = a.groups[i].id /\ [a.groups[i] EXCEPT !.ps = ps].ps = ps
      BY <1>4, <3>1, GroupParts
    <3>3. gs[i] = IF i = k THEN [a.groups[i] EXCEPT !.ps = ps] ELSE a.groups[i]
      BY <2>4
    <3> QED
      BY <3>2, <3>3
  <2>7. Ids(gs) = Ids(a.groups)
    <3>1. Ids(gs) = [i \in DOMAIN a.groups |-> gs[i].id] /\ Ids(a.groups) = [i \in DOMAIN a.groups |-> a.groups[i].id]
      BY <2>5, Zenon DEF Ids
    <3> QED
      BY <2>6, <3>1
  <2>8. Unique(gs)
    BY <1>0, <2>5, <2>6 DEF Unique
  <2>9. ASSUME NEW i \in DOMAIN a.groups PROVE Match(gs[i].ps, Q[gs[i].id], gs[i].id \in L2)
    <3>1. PICK x : x = a.groups[i].id /\ x \in ToSet(line)
      BY <1>2
    <3>2. CASE i = k
      <4>1. gs[i].ps = ps /\ gs[i].id = g
        BY <2>1, <2>6, <3>2
      <4>2. Match(ps, Q[g], g \in L2)
        BY <1>1, <1>4
      <4> QED
        BY <4>1, <4>2, Zenon
    <3>3. CASE i # k
      <4>1. gs[i].ps = a.groups[i].ps /\ gs[i].id = x
        BY <2>6, <3>1, <3>3
      <4>2. x # g
        BY <1>0, <2>1, <3>1, <3>3 DEF Unique
      <4>3. Q[x] = P[x] /\ (x \in L => x \in L2)
        BY <3>1, <4>2
      <4>4. Match(a.groups[i].ps, P[x], x \in L)
        BY <1>0, <3>1, Zenon
      <4>5. Match(a.groups[i].ps, P[x], x \in L2)
        BY <4>3, <4>4, Zenon DEF Match
      <4> QED
        BY <4>1, <4>3, <4>5, Zenon
    <3> QED
      BY <3>2, <3>3
  <2>10. Tree(gs, line, Q, f, L2)
    BY <1>0, <2>5, <2>7, <2>8, <2>9, Zenon DEF Tree
  <2> QED
    BY <2>2, <2>3, <2>10, Zenon
<1> QED
  BY <1>3, <1>4

\* What changes no group and no connection.
LEMMA ClearSame ==
  ASSUME NEW a \in Interface
  PROVE  Alike2(a, ClearDetails(a)) /\ Alike2(a, CloseByEvent(a)) /\ ClearDetails(a) \in Interface
<1>1. PICK x, p : x = {} /\ p = NoPopup
  BY Zenon
<1>2. x \in SUBSET Triples /\ x \in SUBSET Refs
  BY <1>1
<1>3. PICK b, c : b = [a EXCEPT !.cached = x] /\ c = [b EXCEPT !.pending = x]
  BY Zenon
<1>4. b \in Interface
  BY <1>2, <1>3, FieldsTyped, Zenon
<1>5. c \in Interface
  BY <1>2, <1>3, <1>4, FieldsTyped, Zenon
<1>6. c = [a EXCEPT !.cached = x, !.pending = x]
  BY <1>3
<1>7. c.groups = a.groups /\ c.conn = a.conn
  BY <1>6 DEF Interface
<1>8. [a EXCEPT !.popup = p].groups = a.groups /\ [a EXCEPT !.popup = p].conn = a.conn
  BY DEF Interface
<1>9. ClearDetails(a) = c
  BY <1>1, <1>6, Zenon DEF ClearDetails
<1>10. CloseByEvent(a) = [a EXCEPT !.popup = p]
  BY <1>1, Zenon DEF CloseByEvent
<1> QED
  BY <1>5, <1>7, <1>8, <1>9, <1>10, Zenon DEF Alike2

LEMMA CopiesSame ==
  ASSUME NEW a, NEW b, Alike2(a, b), NEW d, NEW f, NEW L, Copies(a, d, f, L)
  PROVE  Copies(b, d, f, L)
  BY Zenon DEF Alike2, Copies

LEMMA ClosedSame ==
  ASSUME NEW a \in Interface, NEW d, NEW f, NEW L, Copies(a, d, f, L)
  PROVE  Copies(CloseByEvent(ClearDetails(a)), d, f, L)
<1>1. PICK b : b = ClearDetails(a)
  OBVIOUS
<1>2. b \in Interface /\ Alike2(a, b)
  BY <1>1, ClearSame
<1>3. Alike2(b, CloseByEvent(b))
  BY <1>2, ClearSame
<1>4. Copies(b, d, f, L)
  BY <1>2, CopiesSame
<1> QED
  BY <1>1, <1>3, <1>4, CopiesSame, Zenon

LEMMA ClampSame ==
  ASSUME NEW a \in Interface, NEW d, NEW f, NEW L, Copies(a, d, f, L)
  PROVE  ClampCursor(a) \in Interface /\ Copies(ClampCursor(a), d, f, L)
<1>1. Good(ClampCursor(a)) /\ ClampCursor(a).groups = a.groups /\ ClampCursor(a).conn = a.conn
  BY ClampGood
<1>2. Alike2(a, ClampCursor(a))
  BY <1>1 DEF Alike2
<1> QED
  BY <1>1, <1>2, CopiesSame DEF Good

\* The profiles of one group change alike.
LEMMA SetCopies ==
  ASSUME NEW a \in Interface, NEW d \in Database, NEW f, NEW L, Copies(a, d, f, L), NEW d2 \in Database,
         d2.order = d.order, d2.conn = d.conn,
         NEW g, NEW qs, d2.ps = [d.ps EXCEPT ![g] = qs],
         NEW ps, KnowsGroup(a, g) => ps \in Seq(Profile), NEW L2, \A x \in GidsOf(d) : x # g /\ x \in L => x \in L2,
         g \in GidsOf(d) => Match(ps, qs, g \in L2)
  PROVE  SetProfiles(a, g, ps) \in Interface /\ Copies(SetProfiles(a, g, ps), d2, f, L2)
<1>1. SetProfiles(a, g, ps) \in Interface /\ SetProfiles(a, g, ps).conn = a.conn
  BY SetTyped
<1>2. Tree(a.groups, d.order, d.ps, f, L) /\ a.conn = d.conn
  BY DEF Copies
<1>3. ToSet(d.order) \in SUBSET GroupNumbers /\ d.ps \in [GroupNumbers -> Seq(Profile)] /\ GidsOf(d) = ToSet(d.order)
  BY DatabaseParts DEF GidsOf
<1>4. \A x \in ToSet(d.order) : x # g => d2.ps[x] = d.ps[x]
  BY <1>3
<1>5. g \in ToSet(d.order) => d2.ps[g] = qs
  BY <1>3
<1>6. \A x \in ToSet(d.order) : x # g => d2.ps[x] = d.ps[x] /\ (x \in L => x \in L2)
  BY <1>3, <1>4
<1>7. g \in ToSet(d.order) => Match(ps, d2.ps[g], g \in L2)
  BY <1>3, <1>5, Zenon
<1>8. Tree(SetProfiles(a, g, ps).groups, d.order, d2.ps, f, L2)
  <2>1. OneChanged(a, g, ps, d.order, d.ps, d2.ps, f, L, L2)
    BY <1>2, <1>6, <1>7, Zenon DEF OneChanged
  <2> QED
    BY <2>1, SetTree
<1> QED
  BY <1>1, <1>2, <1>8, Zenon DEF Copies

LEMMA PsOf ==
  ASSUME NEW a \in Interface, NEW d \in Database, Sound(d), NEW f, NEW L, Copies(a, d, f, L), NEW g \in GidsOf(d)
  PROVE  /\ KnowsGroup(a, g) /\ ProfilesOf(a, g) \in Seq(Profile) /\ Match(ProfilesOf(a, g), d.ps[g], g \in L)
         /\ g \in GroupNumbers /\ d.ps[g] \in Seq(Profile) /\ d.last[g] \in Nat
         /\ SoundPs(d.ps[g], d.last[g]) /\ Unique(d.ps[g])
<1>1. g \in GroupNumbers
  BY DatabaseParts
<1>2. Tree(a.groups, d.order, d.ps, f, L) /\ g \in ToSet(d.order)
  BY DEF Copies, GidsOf
<1>3. KnowsGroup(a, g) /\ ProfilesOf(a, g) \in Seq(Profile) /\ Match(ProfilesOf(a, g), d.ps[g], g \in L)
  BY <1>2, MatchOf, Zenon
<1> QED
  BY <1>1, <1>3, SoundGroup

\* A profile with a new identifier is put into a group.
LEMMA AppendedCopies ==
  ASSUME NEW a \in Interface, NEW d \in Database, Sound(d), NEW f, NEW L, Copies(a, d, f, L), NEW d2 \in Database,
         NEW g \in GidsOf(d), NEW p \in Profile, p.id = d.last[g] + 1,
         d2.order = d.order, d2.conn = d.conn, d2.ps = [d.ps EXCEPT ![g] = Append(d.ps[g], p)]
  PROVE  /\ KnowsGroup(a, g)
         /\ SetProfiles(a, g, Append(ProfilesOf(a, g), p)) \in Interface
         /\ Copies(SetProfiles(a, g, Append(ProfilesOf(a, g), p)), d2, f, L)
<1>2. PICK ps, qs : ps = ProfilesOf(a, g) /\ qs = d.ps[g]
  OBVIOUS
<1>3. /\ KnowsGroup(a, g) /\ ps \in Seq(Profile) /\ Match(ps, qs, g \in L) /\ qs \in Seq(Profile)
      /\ d.last[g] \in Nat /\ SoundPs(qs, d.last[g])
  BY <1>2, PsOf
<1>4. \A q \in ToSet(qs) : q.id # p.id
  BY <1>3, SoundMade
<1>5. Match(Append(ps, p), Append(qs, p), g \in L)
  BY <1>3, <1>4, AppendMatch
<1>6. Append(ps, p) \in Seq(Profile)
  BY <1>3, AppendParts
<1>7. PICK ps2, qs2 : ps2 = Append(ps, p) /\ qs2 = Append(qs, p)
  BY Zenon
<1>8. d2.ps = [d.ps EXCEPT ![g] = qs2]
  BY <1>2, <1>7, Zenon
<1>9. SetProfiles(a, g, ps2) \in Interface /\ Copies(SetProfiles(a, g, ps2), d2, f, L)
  <2>1. ps2 \in Seq(Profile) /\ Match(ps2, qs2, g \in L)
    BY <1>5, <1>6, <1>7, Zenon
  <2> QED
    BY <1>8, <2>1, SetCopies
<1> QED
  BY <1>2, <1>3, <1>7, <1>9, Zenon

LEMMA AddedCopies ==
  ASSUME NEW a \in Interface, NEW d \in Database, Sound(d), NEW f, NEW L, Copies(a, d, f, L), NEW d2 \in Database,
         NEW e, IsAdded(d, d2, e)
  PROVE  ApplyAdded(a, e) \in Interface /\ Copies(ApplyAdded(a, e), d2, f, L)
<1>1. /\ e.g \in GidsOf(d) /\ e.p \in Profile /\ e.p.id = d.last[e.g] + 1
      /\ d2.order = d.order /\ d2.conn = d.conn
      /\ d2.ps = [d.ps EXCEPT ![e.g] = Append(d.ps[e.g], e.p)]
  BY DEF IsAdded, Alike
<1>2. /\ KnowsGroup(a, e.g) /\ SetProfiles(a, e.g, Append(ProfilesOf(a, e.g), e.p)) \in Interface
      /\ Copies(SetProfiles(a, e.g, Append(ProfilesOf(a, e.g), e.p)), d2, f, L)
  BY <1>1, AppendedCopies
<1> QED
  BY <1>2, Zenon DEF ApplyAdded

\* A profile is taken out of a group.
LEMMA RemovedCopies ==
  ASSUME NEW a \in Interface, NEW d \in Database, Sound(d), NEW f, NEW L, Copies(a, d, f, L), NEW d2 \in Database,
         NEW e, d2.order = d.order, d2.conn = d.conn, d2.ps = [d.ps EXCEPT ![e.g] = Without(d.ps[e.g], e.id)]
  PROVE  ApplyDeleted(a, e) \in Interface /\ Copies(ApplyDeleted(a, e), d2, f, L)
<1>1. PICK b : b = IF KnowsGroup(a, e.g) THEN SetProfiles(a, e.g, Without(ProfilesOf(a, e.g), e.id)) ELSE a
  OBVIOUS
<1>2. PICK ps2, qs2 : ps2 = Without(ProfilesOf(a, e.g), e.id) /\ qs2 = Without(d.ps[e.g], e.id)
  OBVIOUS
<1>3. b = SetProfiles(a, e.g, ps2)
  BY <1>1, <1>2, Zenon DEF SetProfiles
<1>4. KnowsGroup(a, e.g) => ps2 \in Seq(Profile)
  <2>1. KnowsGroup(a, e.g) => ProfilesOf(a, e.g) \in Seq(Profile)
    BY KnownGroup
  <2> QED
    BY <1>2, <2>1, WithoutTyped
<1>5. e.g \in GidsOf(d) => Match(ps2, qs2, e.g \in L)
  <2>1. e.g \in GidsOf(d) => /\ ProfilesOf(a, e.g) \in Seq(Profile) /\ d.ps[e.g] \in Seq(Profile)
                             /\ Match(ProfilesOf(a, e.g), d.ps[e.g], e.g \in L)
    BY PsOf
  <2> QED
    BY <1>2, <2>1, WithoutMatch
<1>6. d2.ps = [d.ps EXCEPT ![e.g] = qs2]
  BY <1>2, Zenon
<1>7. SetProfiles(a, e.g, ps2) \in Interface /\ Copies(SetProfiles(a, e.g, ps2), d2, f, L)
  BY <1>4, <1>5, <1>6, SetCopies, Zenon
<1>8. b \in Interface /\ Copies(b, d2, f, L)
  BY <1>3, <1>7, Zenon
<1>9. ApplyDeleted(a, e) = ClampCursor(b)
  BY <1>1, Zenon DEF ApplyDeleted
<1> QED
  BY <1>8, <1>9, ClampSame

LEMMA UpdatedCopies ==
  ASSUME NEW a \in Interface, NEW d \in Database, Sound(d), NEW f, NEW L, Copies(a, d, f, L), NEW d2 \in Database,
         NEW e, IsUpdated(d, d2, e)
  PROVE  Copies(ApplyUpdated(a, e), d2, f, L)
<1>1. /\ e.g \in GidsOf(d) /\ e.p \in Profile /\ d2.order = d.order /\ d2.conn = d.conn
      /\ d2.ps = [d.ps EXCEPT ![e.g] = Replace(d.ps[e.g], e.p)]
  BY DEF IsUpdated, Alike
<1>2. PICK ps, qs, p : ps = ProfilesOf(a, e.g) /\ qs = d.ps[e.g] /\ p = e.p
  OBVIOUS
<1>3. KnowsGroup(a, e.g) /\ ps \in Seq(Profile) /\ Match(ps, qs, e.g \in L) /\ qs \in Seq(Profile)
  BY <1>1, <1>2, PsOf
<1>4. PICK ps2, qs2 : ps2 = Replace(ps, p) /\ qs2 = Replace(qs, p)
  OBVIOUS
<1>5. Match(ps2, qs2, e.g \in L) /\ ps2 \in Seq(Profile)
  BY <1>1, <1>2, <1>3, <1>4, ReplaceMatch, ReplaceTyped
<1>6. d2.ps = [d.ps EXCEPT ![e.g] = qs2]
  BY <1>1, <1>2, <1>4, Zenon
<1>7. Copies(SetProfiles(a, e.g, ps2), d2, f, L)
  BY <1>1, <1>5, <1>6, SetCopies, Zenon
<1>8. ApplyUpdated(a, e) = SetProfiles(a, e.g, ps2)
  BY <1>2, <1>3, <1>4, Zenon DEF ApplyUpdated, Replace
<1> QED
  BY <1>7, <1>8, Zenon

LEMMA SubscriptionCopies ==
  ASSUME NEW a \in Interface, NEW d \in Database, Sound(d), NEW f, NEW L, Copies(a, d, f, L), NEW d2 \in Database,
         NEW e, IsSubscription(d, d2, e)
  PROVE  Copies(ApplySubscription(a, e), d2, f, L)
<1>1. /\ e.g \in GidsOf(d) /\ d2.order = d.order /\ d2.conn = d.conn /\ d2.ps = [d.ps EXCEPT ![e.g] = e.ps]
  BY DEF IsSubscription, Alike
<1>2. PICK p \in Profile : e.ps = <<p>>
  BY Zenon DEF IsSubscription
<1>3. e.ps \in Seq(Profile) /\ Unique(e.ps)
  <2>1. <<p>> \in Seq(Profile) /\ Unique(<<p>>)
    BY OneTyped, OneSet
  <2> QED
    BY <1>2, <2>1, Zenon
<1>4. PICK ps : ps = e.ps
  OBVIOUS
<1>5. Match(ps, ps, e.g \in L)
  BY <1>3, <1>4, MatchSelf
<1>6. SetProfiles(a, e.g, ps) \in Interface /\ Copies(SetProfiles(a, e.g, ps), d2, f, L)
  BY <1>1, <1>3, <1>4, <1>5, SetCopies, Zenon
<1>7. PICK b, c : b = SetProfiles(a, e.g, ps) /\ c = ClampCursor(b)
  OBVIOUS
<1>8. c \in Interface /\ Copies(c, d2, f, L)
  BY <1>6, <1>7, ClampSame
<1>9. Alike2(c, ClearDetails(c))
  BY <1>8, ClearSame
<1>10. Copies(ClearDetails(c), d2, f, L)
  BY <1>8, <1>9, CopiesSame
<1> QED
  BY <1>4, <1>7, <1>10, Zenon DEF ApplySubscription

LEMMA MovedCopies ==
  ASSUME NEW a \in Interface, NEW d \in Database, Sound(d), NEW f, NEW L, Copies(a, d, f, L), NEW d2 \in Database,
         NEW e, IsMoved(d, d2, e)
  PROVE  ApplyMoved(a, e) \in Interface /\ Copies(ApplyMoved(a, e), d2, f, L)
<1>1. /\ e.g \in GidsOf(d) /\ e.to \in GidsOf(d) /\ e.to # e.g /\ e.p \in Profile /\ e.p.id = d.last[e.to] + 1
      /\ d2.order = d.order /\ d2.conn = (IF d.conn = <<e.g, e.id>> THEN <<e.to, e.p.id>> ELSE d.conn)
      /\ d2.ps = [d.ps EXCEPT ![e.g] = Without(d.ps[e.g], e.id), ![e.to] = Append(d.ps[e.to], e.p)]
  BY DEF IsMoved, Alike
<1>2. PICK ps1, d1 : ps1 = Without(d.ps[e.g], e.id) /\ d1 = WithPs(d, e.g, ps1)
  OBVIOUS
<1>3. e.g \in GroupNumbers /\ e.to \in GroupNumbers /\ d.ps \in [GroupNumbers -> Seq(Profile)]
  BY <1>1, DatabaseParts
<1>4. d.ps[e.g] \in Seq(Profile) /\ d.last[e.g] \in Nat /\ SoundPs(d.ps[e.g], d.last[e.g])
  BY <1>3, SoundGroup
<1>5. ps1 \in Seq(Profile) /\ SoundPs(ps1, d.last[e.g])
  BY <1>2, <1>4, WithoutTyped, SoundMade
<1>6. d1 \in Database
  BY <1>2, <1>5, PsSet, Zenon DEF WithPs
<1>7. d1.ps = [d.ps EXCEPT ![e.g] = ps1] /\ d1.order = d.order /\ d1.glast = d.glast /\ d1.last = d.last /\ d1.conn = d.conn
  BY <1>2 DEF Database, WithPs
<1>8. Sound(d1)
  <2>1. Alike(d, d1)
    BY <1>7 DEF Alike
  <2>2. SoundPs(ps1, d1.last[e.g])
    BY <1>5, <1>7, Zenon
  <2> QED
    BY <1>6, <1>7, <2>1, <2>2, SoundPut
<1>9. PICK b : b = ApplyDeleted(a, e)
  OBVIOUS
<1>10. b \in Interface /\ Copies(b, d1, f, L)
  <2>1. d1.ps = [d.ps EXCEPT ![e.g] = Without(d.ps[e.g], e.id)]
    BY <1>2, <1>7, Zenon
  <2> QED
    BY <1>6, <1>7, <1>9, <2>1, RemovedCopies
<1>11. PICK qs2, d3 : qs2 = Append(d1.ps[e.to], e.p) /\ d3 = WithPs(d1, e.to, qs2)
  BY Zenon
<1>12. d1.ps[e.to] = d.ps[e.to] /\ d1.ps[e.to] \in Seq(Profile)
  BY <1>1, <1>3, <1>7
<1>13. qs2 \in Seq(Profile)
  BY <1>1, <1>11, <1>12, AppendParts
<1>14. d3 \in Database
  BY <1>6, <1>11, <1>13, PsSet, Zenon DEF WithPs
<1>15. d3.ps = [d1.ps EXCEPT ![e.to] = qs2] /\ d3.order = d1.order /\ d3.conn = d1.conn
  BY <1>6, <1>11 DEF Database, WithPs
<1>16. PICK c : c = SetProfiles(b, e.to, Append(ProfilesOf(b, e.to), e.p))
  OBVIOUS
<1>17. KnowsGroup(b, e.to) /\ c \in Interface /\ Copies(c, d3, f, L)
  <2>1. e.to \in GidsOf(d1)
    BY <1>1, <1>7 DEF GidsOf
  <2>2. e.p.id = d1.last[e.to] + 1
    BY <1>1, <1>7
  <2>3. d3.ps = [d1.ps EXCEPT ![e.to] = Append(d1.ps[e.to], e.p)]
    BY <1>11, <1>15, Zenon
  <2> QED
    BY <1>1, <1>6, <1>8, <1>10, <1>14, <1>15, <1>16, <2>1, <2>2, <2>3, AppendedCopies
<1>18. d2.ps = d3.ps
  <2>1. d2.ps = [d.ps EXCEPT ![e.g] = ps1, ![e.to] = qs2]
    BY <1>1, <1>2, <1>11, <1>12, Zenon
  <2> QED
    BY <1>7, <1>15, <2>1
<1>19. PICK r : r = IF c.conn = <<e.g, e.id>> THEN <<e.to, e.p.id>> ELSE c.conn
  BY Zenon
<1>20. r = d2.conn /\ r \in Refs
  <2>1. c.conn = d.conn
    BY <1>7, <1>15, <1>17, Zenon DEF Copies
  <2>2. r = d2.conn
    BY <1>1, <1>19, <2>1, Zenon
  <2> QED
    BY <2>2, DatabaseParts
<1>21. PICK x : x = [c EXCEPT !.conn = r]
  BY Zenon
<1>22. x \in Interface
  BY <1>17, <1>20, <1>21, FieldsTyped, Zenon
<1>23. x.conn = r /\ x.groups = c.groups
  BY <1>17, <1>21 DEF Interface
<1>24. Copies(x, d2, f, L)
  BY <1>1, <1>7, <1>15, <1>17, <1>18, <1>20, <1>23, Zenon DEF Copies
<1>25. ApplyMoved(a, e) = ClampCursor(x)
  BY <1>9, <1>16, <1>17, <1>19, <1>21, Zenon DEF ApplyMoved
<1> QED
  BY <1>22, <1>24, <1>25, ClampSame

\* The order that was sent is now the order of both.
LEMMA ReorderedCopies ==
  ASSUME NEW a \in Interface, NEW d \in Database, Sound(d), NEW f, NEW L, Copies(a, d, f, L), NEW d2 \in Database,
         NEW e, IsReordered(d, d2, e),
         NEW b \in ApplyReordered(a, e), \A x \in ApplyReordered(a, e) : x = b
  PROVE  Copies(b, d2, f, L \ {e.g})
<1>1. /\ e.g \in GidsOf(d) /\ e.ids \in Seq(Nat) /\ d2.order = d.order /\ d2.conn = d.conn
      /\ d2.ps = [d.ps EXCEPT ![e.g] = ArrangeProfiles(d.ps[e.g], e.ids)]
  BY DEF IsReordered, Alike
<1>2. PICK ps, qs : ps = ProfilesOf(a, e.g) /\ qs = d.ps[e.g]
  OBVIOUS
<1>3. KnowsGroup(a, e.g) /\ ps \in Seq(Profile) /\ Match(ps, qs, e.g \in L) /\ qs \in Seq(Profile) /\ Unique(qs)
  BY <1>1, <1>2, PsOf
<1>4. Match(ps, qs, TRUE)
  BY <1>3, Zenon DEF Match
<1>5. PICK all, line : all = ToSet(Ids(ps)) /\ line = Arrange(e.ids, all)
  OBVIOUS
<1>6. line \in Orders(e.ids, all)
  <2>1. Ids(ps) \in Seq(Nat)
    BY <1>3, IdsTyped
  <2>2. all \in SUBSET Nat /\ IsFiniteSet(all)
    BY <1>5, <2>1, ValuesFinite
  <2> QED
    BY <1>1, <1>5, <2>2, ArrangeAmong
<1>7. PICK ps2, qs2 : ps2 = ArrangeProfiles(ps, e.ids) /\ qs2 = ArrangeProfiles(qs, e.ids)
  OBVIOUS
<1>8. ps2 = [i \in DOMAIN line |-> Find(ps, line[i])]
  <2>1. {p.id : p \in ToSet(ps)} = all
    BY <1>3, <1>5, IdsTyped
  <2> QED
    BY <1>5, <1>7, <2>1, Zenon DEF ArrangeProfiles
<1>9. ps2 \in Seq(Profile)
  BY <1>1, <1>3, <1>7, ArrangedTyped
<1>10. PICK L2 : L2 = L \ {e.g}
  BY Zenon
<1>11. Match(ps2, qs2, e.g \in L2)
  <2>1. Match(ArrangeProfiles(ps, e.ids), ArrangeProfiles(qs, e.ids), FALSE)
    BY <1>1, <1>3, <1>4, ArrangedMatch, Zenon
  <2> QED
    BY <1>7, <2>1, Zenon DEF Match
<1>12. d2.ps = [d.ps EXCEPT ![e.g] = qs2]
  BY <1>1, <1>2, <1>7, Zenon
<1>13. SetProfiles(a, e.g, ps2) \in Interface /\ Copies(SetProfiles(a, e.g, ps2), d2, f, L2)
  <2>1. \A x \in GidsOf(d) : x # e.g /\ x \in L => x \in L2
    BY <1>10
  <2> QED
    BY <1>1, <1>9, <1>11, <1>12, <2>1, SetCopies, Zenon
<1>14. Copies(ClampCursor(SetProfiles(a, e.g, ps2)), d2, f, L2)
  BY <1>13, ClampSame
<1>15. ClampCursor(SetProfiles(a, e.g, ps2)) \in ApplyReordered(a, e)
  <2>1. ApplyReordered(a, e) = {ClampCursor(SetProfiles(a, e.g, [i \in DOMAIN o |-> Find(ps, o[i])])) : o \in Orders(e.ids, all)}
    BY <1>2, <1>3, <1>5, Zenon DEF ApplyReordered
  <2> QED
    BY <1>6, <1>8, <2>1, Zenon
<1> QED
  BY <1>10, <1>14, <1>15, Zenon

\* A tree by its groups.
LEMMA TreeMade ==
  ASSUME NEW gs, NEW line, NEW P, NEW f, NEW L, Unique(gs), ToSet(Ids(gs)) = ToSet(line), f \/ Ids(gs) = line,
         \A x \in ToSet(gs) : Match(x.ps, P[x.id], x.id \in L)
  PROVE  Tree(gs, line, P, f, L)
<1>1. \A i \in DOMAIN gs : gs[i] \in ToSet(gs)
  BY DEF ToSet
<1> QED
  BY <1>1, Zenon DEF Tree

LEMMA TreeOf ==
  ASSUME NEW gs, NEW line, NEW P, NEW f, NEW L, Tree(gs, line, P, f, L), NEW x \in ToSet(gs)
  PROVE  Match(x.ps, P[x.id], x.id \in L) /\ x.id \in ToSet(line)
<1>1. PICK i \in DOMAIN gs : gs[i] = x
  BY DEF ToSet
<1>2. Match(x.ps, P[x.id], x.id \in L)
  BY <1>1, Zenon DEF Tree
<1>3. x.id \in ToSet(Ids(gs))
  BY <1>1, IdsSet
<1> QED
  BY <1>2, <1>3, Zenon DEF Tree

LEMMA GroupsCopies ==
  ASSUME NEW a \in Interface, NEW d \in Database, Sound(d), NEW f, NEW L, Copies(a, d, f, L), NEW d2 \in Database,
         NEW e, IsGroups(d, d2, e),
         NEW b \in ApplyGroupsReordered(a, e), \A x \in ApplyGroupsReordered(a, e) : x = b
  PROVE  Copies(b, d2, FALSE, L)
<1>1. /\ e.ids \in Seq(Nat) /\ d2.order = Arrange(e.ids, GidsOf(d)) /\ d2.ps = d.ps /\ d2.conn = d.conn
  BY DEF IsGroups
<1>2. PICK gs : gs = a.groups /\ gs \in Seq(Group)
  BY InterfaceParts
<1>3. a.conn = d.conn /\ Tree(gs, d.order, d.ps, f, L)
  BY <1>2, Zenon DEF Copies
<1>4. Unique(gs) /\ ToSet(Ids(gs)) = GidsOf(d)
  BY <1>3, Zenon DEF Tree, GidsOf
<1>5. GroupIds(a) = Ids(gs)
  BY <1>2, Zenon DEF GroupIds, Ids
<1>6. GidsOf(d) \in SUBSET Nat /\ IsFiniteSet(GidsOf(d))
  BY DatabaseParts
<1>7. PICK line : line = Arrange(e.ids, GidsOf(d))
  OBVIOUS
<1>8. line \in Orders(e.ids, GidsOf(d)) /\ ToSet(line) = GidsOf(d)
  BY <1>1, <1>6, <1>7, ArrangeAmong
<1>9. PICK gs2 : gs2 = [i \in DOMAIN line |-> Find(gs, line[i])]
  BY Zenon
<1>10. gs2 \in Seq(Group) /\ Unique(gs2) /\ ToSet(gs2) = ToSet(gs) /\ Ids(gs2) = line
  <2>1. \A x \in Group : x.id \in Nat
    BY GroupParts
  <2>2. line = Arrange(e.ids, ToSet(Ids(gs)))
    BY <1>4, <1>7, Zenon
  <2> HIDE DEF Group
  <2> QED
    BY <1>1, <1>2, <1>4, <1>9, <2>1, <2>2, ArrangedSet
<1>11. Tree(gs2, d2.order, d2.ps, FALSE, L)
  <2>1. \A x \in ToSet(gs2) : Match(x.ps, d.ps[x.id], x.id \in L)
    BY <1>3, <1>10, TreeOf, Zenon
  <2>2. d2.order = line
    BY <1>1, <1>7, Zenon
  <2>3. Tree(gs2, line, d.ps, FALSE, L)
    BY <1>10, <2>1, TreeMade, Zenon
  <2> QED
    BY <1>1, <2>2, <2>3, Zenon
<1>12. PICK c : c = [a EXCEPT !.groups = gs2]
  BY Zenon
<1>13. c \in Interface /\ c.groups = gs2 /\ c.conn = a.conn
  BY <1>10, <1>12, FieldsTyped, Zenon
<1>14. Copies(c, d2, FALSE, L)
  BY <1>1, <1>3, <1>11, <1>13, Zenon DEF Copies
<1>15. Copies(ClampCursor(c), d2, FALSE, L)
  BY <1>13, <1>14, ClampSame, Zenon
<1>16. \A x : a.groups[GroupIndex(a, x)] = Find(gs, x)
  BY <1>2, Zenon DEF GroupIndex, Find
<1>17. ClampCursor(c) \in ApplyGroupsReordered(a, e)
  <2>1. ApplyGroupsReordered(a, e) =
          {ClampCursor([a EXCEPT !.groups = [i \in DOMAIN o |-> a.groups[GroupIndex(a, o[i])]]]) : o \in Orders(e.ids, GidsOf(d))}
    BY <1>4, <1>5, Zenon DEF ApplyGroupsReordered
  <2>2. [i \in DOMAIN line |-> a.groups[GroupIndex(a, line[i])]] = gs2
    BY <1>9, <1>16, Zenon
  <2>3. ClampCursor(c) = ClampCursor([a EXCEPT !.groups = [i \in DOMAIN line |-> a.groups[GroupIndex(a, line[i])]]])
    BY <1>12, <2>2, Zenon
  <2> QED
    BY <1>8, <2>1, <2>3, Zenon
<1> QED
  BY <1>15, <1>17, Zenon

LEMMA GroupAddedCopies ==
  ASSUME NEW a \in Interface, NEW d \in Database, Sound(d), NEW f, NEW L, Copies(a, d, f, L), NEW d2 \in Database,
         NEW e \in Event, IsGroupAdded(d, d2, e)
  PROVE  Copies([a EXCEPT !.groups = Append(@, [id |-> e.g, ps |-> <<>>])], d2, f, L)
<1>1. PICK g, none : g = e.g /\ none = <<>>
  OBVIOUS
<1>2. PICK x : x = [id |-> g, ps |-> none]
  BY Zenon
<1>3. /\ g \in GroupNumbers /\ d2.order = Append(d.order, g) /\ d2.conn = d.conn
      /\ d2.ps = [d.ps EXCEPT ![g] = none]
  BY <1>1, Zenon DEF IsGroupAdded
<1>4. g \notin GidsOf(d)
  BY <1>1, GroupAddedSound
<1>5. /\ d.order \in Seq(GroupNumbers) /\ d.ps \in [GroupNumbers -> Seq(Profile)] /\ GroupNumbers \in SUBSET Nat
      /\ GidsOf(d) \in SUBSET GroupNumbers
  BY DatabaseParts
<1>6. x.id = g /\ x.ps = none
  BY <1>2
<1>7. x \in Group
  BY <1>1, <1>2, <1>3, <1>5, NoneTyped DEF Group
<1>8. PICK gs : gs = a.groups /\ gs \in Seq(Group)
  BY InterfaceParts
<1>9. a.conn = d.conn /\ Tree(gs, d.order, d.ps, f, L)
  BY <1>8, Zenon DEF Copies
<1>10. Unique(gs) /\ ToSet(Ids(gs)) = GidsOf(d) /\ (f \/ Ids(gs) = d.order)
  BY <1>9, Zenon DEF Tree, GidsOf
<1>11. \A y \in ToSet(gs) : Match(y.ps, d.ps[y.id], y.id \in L) /\ y.id \in GidsOf(d)
  BY <1>9, TreeOf, Zenon DEF GidsOf
<1> HIDE DEF Group, GroupNumbers
<1>12. PICK gs2 : gs2 = Append(gs, x)
  BY Zenon
<1>13. gs2 \in Seq(Group) /\ ToSet(gs2) = ToSet(gs) \cup {x}
  BY <1>7, <1>8, <1>12, AppendSet, AppendParts
<1>14. Unique(gs2)
  <2>1. \A y \in ToSet(gs) : y.id # x.id
    BY <1>4, <1>6, <1>11
  <2> QED
    BY <1>7, <1>8, <1>10, <1>12, <2>1, AppendUnique
<1>15. Ids(gs2) = Append(Ids(gs), g)
  BY <1>6, <1>7, <1>8, <1>12, AppendIds
<1>16. ToSet(Ids(gs2)) = ToSet(d2.order)
  <2>1. ToSet(Ids(gs2)) = {y.id : y \in ToSet(gs2)} /\ ToSet(Ids(gs)) = {y.id : y \in ToSet(gs)}
    BY IdsSet
  <2>2. ToSet(Ids(gs2)) = ToSet(Ids(gs)) \cup {g}
    BY <1>6, <1>13, <2>1
  <2>3. ToSet(Append(d.order, g)) = ToSet(d.order) \cup {g}
    BY <1>3, <1>5, AppendSet
  <2> QED
    BY <1>3, <1>10, <2>2, <2>3, Zenon DEF GidsOf
<1>17. f \/ Ids(gs2) = d2.order
  BY <1>3, <1>10, <1>15, Zenon
<1>18. ASSUME NEW y \in ToSet(gs2) PROVE Match(y.ps, d2.ps[y.id], y.id \in L)
  <2>1. CASE y = x
    <3>1. d2.ps[g] = none
      BY <1>3, <1>5
    <3>2. Match(none, none, x.id \in L)
      BY <1>1, NoneSet, MatchSelf
    <3> QED
      BY <1>6, <2>1, <3>1, <3>2, Zenon
  <2>2. CASE y \in ToSet(gs)
    <3>1. Match(y.ps, d.ps[y.id], y.id \in L) /\ y.id \in GidsOf(d)
      BY <1>11, <2>2
    <3>2. PICK n : n = y.id
      OBVIOUS
    <3>3. d2.ps[n] = d.ps[n]
      BY <1>3, <1>4, <1>5, <3>1, <3>2
    <3> QED
      BY <3>1, <3>2, <3>3, Zenon
  <2> QED
    BY <1>13, <2>1, <2>2
<1>19. Tree(gs2, d2.order, d2.ps, f, L)
  BY <1>14, <1>16, <1>17, <1>18, TreeMade, Zenon
<1>20. PICK c : c = [a EXCEPT !.groups = gs2]
  BY Zenon
<1>21. c.groups = gs2 /\ c.conn = a.conn
  BY <1>13, <1>20, FieldsTyped
<1>22. Copies(c, d2, f, L)
  BY <1>3, <1>9, <1>19, <1>21, Zenon DEF Copies
<1>23. c = [a EXCEPT !.groups = Append(@, [id |-> e.g, ps |-> <<>>])]
  BY <1>1, <1>2, <1>8, <1>12, <1>20, Zenon
<1> QED
  BY <1>22, <1>23, Zenon

LEMMA GroupDeletedCopies ==
  ASSUME NEW a \in Interface, NEW d \in Database, Sound(d), NEW f, NEW L, Copies(a, d, f, L), NEW d2 \in Database,
         NEW e \in Event, IsGroupDeleted(d, d2, e)
  PROVE  ApplyGroupDeleted(a, e) \in Interface /\ Copies(ApplyGroupDeleted(a, e), d2, f, L)
<1>1. PICK g, none : g = e.g /\ none = <<>>
  OBVIOUS
<1>2. /\ d2.order = Entries(d.order, {i \in DOMAIN d.order : d.order[i] # g}) /\ d2.conn = d.conn
      /\ d2.ps = [d.ps EXCEPT ![g] = none]
  BY <1>1, Zenon DEF IsGroupDeleted
<1>3. ToSet(d2.order) = GidsOf(d) \ {g}
  <2>1. GidsOf(d2) = GidsOf(d) \ {g}
    BY <1>1, GroupDeletedSound
  <2> QED
    BY <2>1, Zenon DEF GidsOf
<1>4. /\ d.ps \in [GroupNumbers -> Seq(Profile)] /\ GidsOf(d) \in SUBSET GroupNumbers
  BY DatabaseParts
<1>5. PICK gs : gs = a.groups /\ gs \in Seq(Group)
  BY InterfaceParts
<1>6. a.conn = d.conn /\ Tree(gs, d.order, d.ps, f, L)
  BY <1>5, Zenon DEF Copies
<1>7. Unique(gs) /\ ToSet(Ids(gs)) = GidsOf(d) /\ (f \/ Ids(gs) = d.order)
  BY <1>6, Zenon DEF Tree, GidsOf
<1>8. \A y \in ToSet(gs) : Match(y.ps, d.ps[y.id], y.id \in L) /\ y.id \in GidsOf(d)
  BY <1>6, TreeOf, Zenon DEF GidsOf
<1> HIDE DEF Group, GroupNumbers
<1>9. PICK gs2 : gs2 = Without(gs, g)
  OBVIOUS
<1>10. ToSet(gs2) = {y \in ToSet(gs) : y.id # g} /\ Unique(gs2)
  BY <1>5, <1>7, <1>9, WithoutSet
<1>11. gs2 \in Seq(Group)
  <2>1. {i \in DOMAIN gs : gs[i].id # g} \in SUBSET DOMAIN gs
    OBVIOUS
  <2>2. Entries(gs, {i \in DOMAIN gs : gs[i].id # g}) \in Seq(Group)
    BY <1>5, <2>1, EntriesTyped
  <2> QED
    BY <1>9, <2>2, Zenon DEF Without
<1>12. Ids(gs2) = Entries(Ids(gs), {i \in DOMAIN Ids(gs) : Ids(gs)[i] # g})
  BY <1>5, <1>9, WithoutIds
<1>13. f \/ Ids(gs2) = d2.order
  <2>1. ASSUME Ids(gs) = d.order PROVE Ids(gs2) = d2.order
    BY <1>2, <1>12, <2>1, Zenon
  <2> QED
    BY <1>7, <2>1, Zenon
<1>14. ToSet(Ids(gs2)) = ToSet(d2.order)
  <2>1. ToSet(Ids(gs2)) = {y.id : y \in ToSet(gs2)} /\ ToSet(Ids(gs)) = {y.id : y \in ToSet(gs)}
    BY IdsSet
  <2>2. ToSet(Ids(gs2)) = ToSet(Ids(gs)) \ {g}
    BY <1>10, <2>1
  <2> QED
    BY <1>3, <1>7, <2>2, Zenon
<1>15. ASSUME NEW y \in ToSet(gs2) PROVE Match(y.ps, d2.ps[y.id], y.id \in L)
  <2>1. y \in ToSet(gs) /\ y.id # g
    BY <1>10
  <2>2. Match(y.ps, d.ps[y.id], y.id \in L) /\ y.id \in GidsOf(d)
    BY <1>8, <2>1
  <2>3. PICK n : n = y.id
    OBVIOUS
  <2>4. d2.ps[n] = d.ps[n]
    BY <1>2, <1>4, <2>1, <2>2, <2>3
  <2> QED
    BY <2>2, <2>3, <2>4, Zenon
<1>16. Tree(gs2, d2.order, d2.ps, f, L)
  BY <1>10, <1>13, <1>14, <1>15, TreeMade, Zenon
<1>17. PICK w : w = a.collapsed \ {g}
  BY Zenon
<1>18. w \in SUBSET Nat
  BY <1>17, InterfaceParts
<1>19. PICK c : c = [a EXCEPT !.groups = gs2]
  BY Zenon
<1>20. c \in Interface /\ c.groups = gs2 /\ c.conn = a.conn
  BY <1>11, <1>19, FieldsTyped, Zenon
<1>21. PICK x : x = [c EXCEPT !.collapsed = w]
  BY Zenon
<1>22. x \in Interface
  BY <1>18, <1>20, <1>21, FieldsTyped, Zenon
<1>23. x.groups = c.groups /\ x.conn = c.conn
  BY <1>20, <1>21 DEF Interface
<1>24. Copies(x, d2, f, L)
  BY <1>2, <1>6, <1>16, <1>20, <1>23, Zenon DEF Copies
<1>25. ApplyGroupDeleted(a, e) = ClampCursor(x)
  <2>1. Entries(a.groups, {i \in DOMAIN a.groups : a.groups[i].id # g}) = gs2
    BY <1>5, <1>9, Zenon DEF Without
  <2>2. x = [a EXCEPT !.groups = gs2, !.collapsed = w]
    BY <1>19, <1>21
  <2>3. x = [a EXCEPT !.groups = Entries(@, {i \in DOMAIN @ : @[i].id # e.g}), !.collapsed = @ \ {e.g}]
    BY <1>1, <1>17, <2>1, <2>2, Zenon
  <2> QED
    BY <2>3, Zenon DEF ApplyGroupDeleted
<1> QED
  BY <1>22, <1>24, <1>25, ClampSame

\* The state is a copy without differences.
LEMMA SnapshotTree == ASSUME NEW d \in Database, Sound(d), NEW f, NEW L PROVE Tree(Snapshot(d), d.order, d.ps, f, L)
<1>1. PICK gs : gs = Snapshot(d)
  OBVIOUS
<1>2. gs = [i \in DOMAIN d.order |-> [id |-> d.order[i], ps |-> d.ps[d.order[i]]]]
  BY <1>1, Zenon DEF Snapshot
<1>3. DOMAIN gs = DOMAIN d.order /\ \A i \in DOMAIN d.order : gs[i].id = d.order[i] /\ gs[i].ps = d.ps[d.order[i]]
  BY <1>2
<1>4. Unique(gs)
  BY <1>3 DEF Sound, Unique
<1>5. Ids(gs) = d.order
  <2>1. Ids(gs) = [i \in DOMAIN d.order |-> gs[i].id]
    BY <1>3, Zenon DEF Ids
  <2>2. d.order = [i \in DOMAIN d.order |-> d.order[i]]
    BY DatabaseParts
  <2> QED
    BY <1>3, <2>1, <2>2
<1>6. ASSUME NEW i \in DOMAIN gs PROVE Match(gs[i].ps, d.ps[gs[i].id], gs[i].id \in L)
  <2>1. PICK g, ps : g = gs[i].id /\ ps = gs[i].ps /\ g = d.order[i] /\ ps = d.ps[g]
    BY <1>3
  <2>2. g \in GidsOf(d)
    BY <1>3, <2>1 DEF GidsOf, ToSet
  <2>3. g \in GroupNumbers
    BY <2>2, DatabaseParts
  <2>4. Unique(ps)
    BY <2>1, <2>3, SoundGroup
  <2>5. Match(ps, ps, g \in L)
    BY <2>4, MatchSelf
  <2> QED
    BY <2>1, <2>5, Zenon
<1>7. Tree(gs, d.order, d.ps, f, L)
  BY <1>4, <1>5, <1>6, Zenon DEF Tree
<1> QED
  BY <1>1, <1>7, Zenon

LEMMA StateCopies ==
  ASSUME NEW a \in Interface, NEW d \in Database, Sound(d), NEW f, NEW L, NEW d2 \in Database,
         NEW e, IsState(d, d2, e)
  PROVE  Copies(ApplyState(a, e), d2, f, L)
<1>1. d2 = d /\ e.groups = Snapshot(d) /\ e.ref = d.conn
  BY DEF IsState
<1>2. PICK gs, r : gs = Snapshot(d) /\ r = d.conn /\ gs \in Seq(Group) /\ r \in Refs
  BY SnapshotTyped, DatabaseParts
<1>3. PICK b : b = [a EXCEPT !.groups = gs]
  BY Zenon
<1>4. PICK c : c = [b EXCEPT !.conn = r]
  BY Zenon
<1>5. b \in Interface /\ b.groups = gs
  BY <1>2, <1>3, FieldsTyped, Zenon
<1>6. c \in Interface
  BY <1>2, <1>4, <1>5, FieldsTyped, Zenon
<1>7. c.groups = gs /\ c.conn = r
  BY <1>4, <1>5 DEF Interface
<1>8. Tree(gs, d.order, d.ps, f, L)
  BY <1>2, SnapshotTree
<1>9. Copies(c, d, f, L)
  BY <1>2, <1>7, <1>8, Zenon DEF Copies
<1>10. ApplyState(a, e) = ClampCursor(c)
  <2>1. c = [a EXCEPT !.groups = gs, !.conn = r]
    BY <1>3, <1>4
  <2> QED
    BY <1>1, <1>2, <2>1, Zenon DEF ApplyState
<1> QED
  BY <1>1, <1>6, <1>9, <1>10, ClampSame

LEMMA StatusCopies ==
  ASSUME NEW a \in Interface, NEW d, NEW f, NEW L, Copies(a, d, f, L), NEW d2, NEW e, IsStatus(d, d2, e)
  PROVE  Copies([a EXCEPT !.conn = e.ref], d2, f, L)
<1>1. d2.order = d.order /\ d2.ps = d.ps /\ d2.conn = e.ref
  BY DEF IsStatus, Alike
<1>2. PICK r : r = e.ref
  OBVIOUS
<1>3. [a EXCEPT !.conn = r].conn = r /\ [a EXCEPT !.conn = r].groups = a.groups
  BY DEF Interface
<1> QED
  BY <1>1, <1>2, <1>3, Zenon DEF Copies

LEMMA DetailsSame == ASSUME NEW a \in Interface, NEW e PROVE Alike2(a, ApplyDetails(a, e))
<1>1. PICK x, y : x = a.pending \ {<<e.g, e.id>>} /\ y = {c \in a.cached : <<c[1], c[2]>> # <<e.g, e.id>>} \cup {<<e.g, e.id, e.ver>>}
  BY Zenon
<1>2. ApplyDetails(a, e) = [a EXCEPT !.pending = x, !.cached = y]
  BY <1>1, Zenon DEF ApplyDetails
<1>3. [a EXCEPT !.pending = x, !.cached = y].groups = a.groups /\ [a EXCEPT !.pending = x, !.cached = y].conn = a.conn
  BY DEF Interface
<1> QED
  BY <1>2, <1>3, Zenon DEF Alike2

LEMMA CopiesLooser ==
  ASSUME NEW a, NEW d, NEW f, NEW L, Copies(a, d, f, L), NEW f2, f => f2,
         NEW L2, \A x \in GidsOf(d) : x \in L => x \in L2
  PROVE  Copies(a, d, f2, L2)
<1>1. a.conn = d.conn /\ Tree(a.groups, d.order, d.ps, f, L)
  BY DEF Copies
<1>2. \A x \in ToSet(d.order) : x \in L => x \in L2
  BY DEF GidsOf
<1>3. Tree(a.groups, d.order, d.ps, f2, L2)
  BY <1>1, <1>2, TreeLooser
<1> QED
  BY <1>1, <1>3, Zenon DEF Copies

-----------------------------------------------------------------------------
(* An event applied to a copy of a database gives a copy of the next one.  *)

\* What stays open in the copy a after the event e: not the order the event gives.
Settles(a, d, e, f, L, f2, L2) ==
  /\ e.k # "state" => Copies(a, d, f, L)
  /\ f /\ e.k # "groups" => f2
  /\ \A x : x \in L /\ ~(e.k = "reordered" /\ x = e.g) => x \in L2

\* The event e tells of the change from d to d2, and does to a what it does to b.
Told(a, d, d2, e, b) ==
  /\ a \in Interface /\ d \in Database /\ d2 \in Database /\ Sound(d) /\ e \in Event
  /\ b \in Apply(a, e) /\ \A x \in Apply(a, e) : x = b

LEMMA ProfileEventCopies ==
  ASSUME NEW a, NEW d, NEW d2, NEW e, NEW b, Told(a, d, d2, e, b), NEW f, NEW L, Copies(a, d, f, L),
         IsAdded(d, d2, e) \/ IsDeleted(d, d2, e) \/ IsUpdated(d, d2, e) \/ IsMoved(d, d2, e) \/ IsSubscription(d, d2, e)
  PROVE  Copies(b, d2, f, L) /\ e.k \notin {"groups", "reordered"}
<1>1. a \in Interface /\ d \in Database /\ d2 \in Database /\ Sound(d) /\ e \in Event /\ b \in Apply(a, e)
  BY DEF Told
<1>2. CASE IsAdded(d, d2, e)
  <2>1. e.k = "added"
    BY <1>2, Zenon DEF IsAdded
  <2>2. PICK c : c = ApplyAdded(a, e)
    OBVIOUS
  <2>3. c \in Interface /\ Copies(c, d2, f, L)
    BY <1>1, <1>2, <2>2, AddedCopies
  <2>4. b = CloseByEvent(ClearDetails(c))
    BY <1>1, <2>1, <2>2 DEF Apply
  <2>5. Copies(b, d2, f, L)
    BY <2>3, <2>4, ClosedSame
  <2> QED
    BY <2>1, <2>5
<1>3. CASE IsDeleted(d, d2, e)
  <2>1. e.k = "deleted" /\ d2.order = d.order /\ d2.conn = d.conn /\ d2.ps = [d.ps EXCEPT ![e.g] = Without(d.ps[e.g], e.id)]
    BY <1>3, Zenon DEF IsDeleted, Alike
  <2>2. PICK c : c = ApplyDeleted(a, e)
    OBVIOUS
  <2>3. c \in Interface /\ Copies(c, d2, f, L)
    BY <1>1, <2>1, <2>2, RemovedCopies
  <2>4. b = CloseByEvent(ClearDetails(c))
    BY <1>1, <2>1, <2>2 DEF Apply
  <2>5. Copies(b, d2, f, L)
    BY <2>3, <2>4, ClosedSame
  <2> QED
    BY <2>1, <2>5
<1>4. CASE IsUpdated(d, d2, e)
  <2>1. e.k = "updated"
    BY <1>4, Zenon DEF IsUpdated
  <2>2. b = ApplyUpdated(a, e)
    BY <1>1, <2>1 DEF Apply
  <2>3. Copies(b, d2, f, L)
    BY <1>1, <1>4, <2>2, UpdatedCopies
  <2> QED
    BY <2>1, <2>3
<1>5. CASE IsMoved(d, d2, e)
  <2>1. e.k = "moved"
    BY <1>5, Zenon DEF IsMoved
  <2>2. PICK c : c = ApplyMoved(a, e)
    OBVIOUS
  <2>3. c \in Interface /\ Copies(c, d2, f, L)
    BY <1>1, <1>5, <2>2, MovedCopies
  <2>4. b = CloseByEvent(ClearDetails(c))
    BY <1>1, <2>1, <2>2 DEF Apply
  <2>5. Copies(b, d2, f, L)
    BY <2>3, <2>4, ClosedSame
  <2> QED
    BY <2>1, <2>5
<1>6. CASE IsSubscription(d, d2, e)
  <2>1. e.k = "subscription"
    BY <1>6, Zenon DEF IsSubscription
  <2>2. b = ApplySubscription(a, e)
    BY <1>1, <2>1 DEF Apply
  <2>3. Copies(b, d2, f, L)
    BY <1>1, <1>6, <2>2, SubscriptionCopies
  <2> QED
    BY <2>1, <2>3
<1> QED
  BY <1>2, <1>3, <1>4, <1>5, <1>6

LEMMA GroupEventCopies ==
  ASSUME NEW a, NEW d, NEW d2, NEW e, NEW b, Told(a, d, d2, e, b), NEW f, NEW L, Copies(a, d, f, L),
         IsGroupAdded(d, d2, e) \/ IsGroupDeleted(d, d2, e) \/ IsStatus(d, d2, e) \/ IsNothing(d, d2, e)
  PROVE  Copies(b, d2, f, L) /\ e.k \notin {"groups", "reordered"}
<1>1. a \in Interface /\ d \in Database /\ d2 \in Database /\ Sound(d) /\ e \in Event /\ b \in Apply(a, e)
  BY DEF Told
<1>2. CASE IsGroupAdded(d, d2, e)
  <2>1. e.k = "groupadded"
    BY <1>2, Zenon DEF IsGroupAdded
  <2>2. b = [a EXCEPT !.groups = Append(@, [id |-> e.g, ps |-> <<>>])]
    BY <1>1, <2>1 DEF Apply
  <2>3. Copies([a EXCEPT !.groups = Append(@, [id |-> e.g, ps |-> <<>>])], d2, f, L)
    BY <1>1, <1>2, GroupAddedCopies
  <2> QED
    BY <2>1, <2>2, <2>3, Zenon
<1>3. CASE IsGroupDeleted(d, d2, e)
  <2>1. e.k = "groupdeleted"
    BY <1>3, Zenon DEF IsGroupDeleted
  <2>2. PICK c : c = ApplyGroupDeleted(a, e)
    OBVIOUS
  <2>3. c \in Interface /\ Copies(c, d2, f, L)
    BY <1>1, <1>3, <2>2, GroupDeletedCopies
  <2>4. b = CloseByEvent(ClearDetails(c))
    BY <1>1, <2>1, <2>2 DEF Apply
  <2>5. Copies(b, d2, f, L)
    BY <2>3, <2>4, ClosedSame
  <2> QED
    BY <2>1, <2>5
<1>4. CASE IsStatus(d, d2, e)
  <2>1. e.k = "status"
    BY <1>4, Zenon DEF IsStatus
  <2>2. b = [a EXCEPT !.conn = e.ref]
    BY <1>1, <2>1 DEF Apply
  <2>3. Copies([a EXCEPT !.conn = e.ref], d2, f, L)
    BY <1>1, <1>4, StatusCopies
  <2> QED
    BY <2>1, <2>2, <2>3, Zenon
<1>5. CASE IsNothing(d, d2, e)
  <2>1. e.k \in {"details", "warn"} /\ d2 = d
    BY <1>5, Zenon DEF IsNothing
  <2>2. Alike2(a, b)
    <3>1. CASE e.k = "details"
      <4>1. b = ApplyDetails(a, e)
        BY <1>1, <3>1 DEF Apply
      <4> QED
        BY <1>1, <4>1, DetailsSame
    <3>2. CASE e.k = "warn"
      <4>1. b = a
        BY <1>1, <3>2 DEF Apply
      <4> QED
        BY <4>1 DEF Alike2
    <3> QED
      BY <2>1, <3>1, <3>2
  <2>3. Copies(b, d, f, L)
    BY <2>2, CopiesSame
  <2> QED
    BY <2>1, <2>3
<1> QED
  BY <1>2, <1>3, <1>4, <1>5

LEMMA ApplyCopies ==
  ASSUME NEW a, NEW d, NEW d2, NEW e, NEW b, Told(a, d, d2, e, b), Outcome(d, d2, e),
         NEW f, NEW L, NEW f2, NEW L2, Settles(a, d, e, f, L, f2, L2)
  PROVE  Copies(b, d2, f2, L2)
<1>1. /\ a \in Interface /\ d \in Database /\ d2 \in Database /\ Sound(d) /\ e \in Event /\ b \in Apply(a, e)
      /\ \A x \in Apply(a, e) : x = b
  BY Zenon DEF Told
<1>2. /\ e.k # "state" => Copies(a, d, f, L)
      /\ f /\ e.k # "groups" => f2
      /\ \A x : x \in L /\ ~(e.k = "reordered" /\ x = e.g) => x \in L2
  BY Zenon DEF Settles
<1>3. ASSUME \/ IsAdded(d, d2, e) \/ IsDeleted(d, d2, e) \/ IsUpdated(d, d2, e) \/ IsMoved(d, d2, e) \/ IsSubscription(d, d2, e)
             \/ IsGroupAdded(d, d2, e) \/ IsGroupDeleted(d, d2, e) \/ IsStatus(d, d2, e) \/ IsNothing(d, d2, e)
      PROVE  Copies(b, d2, f2, L2)
  <2>1. e.k # "state"
    BY <1>3, Zenon DEF IsAdded, IsDeleted, IsUpdated, IsMoved, IsSubscription, IsGroupAdded, IsGroupDeleted, IsStatus, IsNothing
  <2>2. Copies(a, d, f, L)
    BY <1>2, <2>1
  <2>3. Copies(b, d2, f, L) /\ e.k \notin {"groups", "reordered"}
    BY <1>3, <2>2, ProfileEventCopies, GroupEventCopies
  <2>4. (f => f2) /\ \A x \in GidsOf(d2) : x \in L => x \in L2
    BY <1>2, <2>3
  <2> QED
    BY <2>3, <2>4, CopiesLooser
<1>4. CASE IsReordered(d, d2, e)
  <2>1. e.k = "reordered"
    BY <1>4, Zenon DEF IsReordered
  <2>2. Copies(a, d, f, L)
    BY <1>2, <2>1
  <2>3. b \in ApplyReordered(a, e) /\ \A x \in ApplyReordered(a, e) : x = b
    <3>1. Apply(a, e) = ApplyReordered(a, e)
      BY <2>1 DEF Apply
    <3> QED
      BY <1>1, <3>1, Zenon
  <2>4. Copies(b, d2, f, L \ {e.g})
    BY <1>1, <1>4, <2>2, <2>3, ReorderedCopies
  <2>5. (f => f2) /\ \A x \in GidsOf(d2) : x \in L \ {e.g} => x \in L2
    BY <1>2, <2>1
  <2> QED
    BY <2>4, <2>5, CopiesLooser
<1>5. CASE IsGroups(d, d2, e)
  <2>1. e.k = "groups"
    BY <1>5, Zenon DEF IsGroups
  <2>2. Copies(a, d, f, L)
    BY <1>2, <2>1
  <2>3. b \in ApplyGroupsReordered(a, e) /\ \A x \in ApplyGroupsReordered(a, e) : x = b
    <3>1. Apply(a, e) = ApplyGroupsReordered(a, e)
      BY <2>1 DEF Apply
    <3> QED
      BY <1>1, <3>1, Zenon
  <2>4. Copies(b, d2, FALSE, L)
    BY <1>1, <1>5, <2>2, <2>3, GroupsCopies, Zenon
  <2>5. (FALSE => f2) /\ \A x \in GidsOf(d2) : x \in L => x \in L2
    BY <1>2, <2>1
  <2> QED
    BY <2>4, <2>5, CopiesLooser, Zenon
<1>6. CASE IsState(d, d2, e)
  <2>1. e.k = "state"
    BY <1>6, Zenon DEF IsState
  <2>2. b = ApplyState(a, e)
    BY <1>1, <2>1 DEF Apply
  <2>3. Copies(ApplyState(a, e), d2, f2, L2)
    BY <1>1, <1>6, StateCopies
  <2> QED
    BY <2>2, <2>3, Zenon
<1> QED
  BY <1>3, <1>4, <1>5, <1>6, Zenon DEF Outcome

-----------------------------------------------------------------------------
(* What is on the way between the core and its copy.                       *)

\* The event of a finished change, if it is not yet broadcast; it comes after the others.
Unsent(s) == IF s["tui"] # NoEvent THEN s["tui"] ELSE s["other"]
Coming(q, s) == IF Unsent(s) = NoEvent THEN q ELSE Append(q, Unsent(s))
Alone(s) == s["tui"] = NoEvent \/ s["other"] = NoEvent

\* Requests and events on the way that leave something in the copy open: the order of the
\* groups, the order of the profiles of some groups, or all of it.
Way(rs, es) == ToSet(rs) \cup ToSet(es)
Free(W) == \E w \in W : w.k = "groups"
Asked(W) == \E w \in W : w.k = "state"
Loose(W) == {g \in Nat : \E w \in W : w.k \in {"reorder", "reordered"} /\ w.g = g}

\* The databases that the events on the way lead through, from the one the copy is of to
\* the present one.
Chain(h, es, d) ==
  /\ h \in [Nat -> Database] /\ h[Len(es) + 1] = d
  /\ \A i \in 1 .. Len(es) : Outcome(h[i], h[i + 1], es[i])
  /\ \A i \in 1 .. Len(es) + 1 : Sound(h[i]) /\ h[i].glast <= d.glast

Fits(a, d, W, dd) == Copies(a, d, Free(W), Loose(W) \cup (Nat \ GidsOf(dd)))
Mirrors(d, rs, es, a) ==
  \E h : Chain(h, es, d) /\ (Asked(Way(rs, es)) \/ Fits(a, h[1], Way(rs, es), d))
MirrorInv ==
  overlapped \/ scrambled \/ (Alone(sending) /\ Mirrors(db, toCore, Coming(toTui, sending), app))

LEMMA Pushed ==
  ASSUME NEW S, NEW s \in Seq(S), NEW x \in S, NEW n \in Nat, n = Len(s)
  PROVE  Len(Append(s, x)) = n + 1 /\ Append(s, x)[n + 1] = x /\ \A i \in 1 .. n : Append(s, x)[i] = s[i]
  OBVIOUS
LEMMA Popped ==
  ASSUME NEW S, NEW s \in Seq(S), NEW n \in Nat, n + 1 = Len(s)
  PROVE  Len(Tail(s)) = n /\ Head(s) = s[1] /\ \A i \in 1 .. n : Tail(s)[i] = s[i + 1]
  OBVIOUS

LEMMA Extended ==
  ASSUME NEW h, NEW es \in Seq(Event), NEW d, Chain(h, es, d), NEW d2 \in Database, NEW e \in Event, Outcome(d, d2, e)
  PROVE  \E k : Chain(k, Append(es, e), d2) /\ k[1] = h[1]
<1>1. PICK n \in Nat : n = Len(es)
  OBVIOUS
<1>2. /\ h \in [Nat -> Database] /\ h[n + 1] = d /\ \A i \in 1 .. n : Outcome(h[i], h[i + 1], es[i])
      /\ \A i \in 1 .. n + 1 : Sound(h[i]) /\ h[i].glast <= d.glast
  BY <1>1, Zenon DEF Chain
<1>3. d \in Database /\ Sound(d)
  BY <1>2
<1>4. Sound(d2) /\ d.glast <= d2.glast
  BY <1>3, OutcomeKeeps
<1>5. PICK k : k = [h EXCEPT ![n + 2] = d2]
  BY Zenon
<1>6. k \in [Nat -> Database] /\ k[n + 2] = d2 /\ \A i \in 1 .. n + 1 : k[i] = h[i]
  BY <1>2, <1>5
<1>7. PICK fs : fs = Append(es, e) /\ Len(fs) = n + 1 /\ fs[n + 1] = e /\ \A i \in 1 .. n : fs[i] = es[i]
  <2>1. Len(Append(es, e)) = n + 1 /\ Append(es, e)[n + 1] = e /\ \A i \in 1 .. n : Append(es, e)[i] = es[i]
    BY <1>1, Pushed
  <2> QED
    BY <2>1, Zenon
<1>8. ASSUME NEW i \in 1 .. n + 1 PROVE Outcome(k[i], k[i + 1], fs[i])
  <2>1. CASE i = n + 1
    <3>1. k[i] = d /\ k[i + 1] = d2 /\ fs[i] = e
      BY <1>2, <1>6, <1>7, <2>1
    <3> QED
      BY <3>1, Zenon
  <2>2. CASE i # n + 1
    <3>1. i \in 1 .. n /\ k[i] = h[i] /\ k[i + 1] = h[i + 1] /\ fs[i] = es[i]
      BY <1>6, <1>7, <2>2
    <3> QED
      BY <1>2, <3>1, Zenon
  <2> QED
    BY <2>1, <2>2
<1>9. ASSUME NEW i \in 1 .. n + 2 PROVE Sound(k[i]) /\ k[i].glast <= d2.glast
  <2>1. CASE i = n + 2
    <3>1. d2.glast <= d2.glast
      BY DatabaseParts DEF GroupNumbers
    <3> QED
      BY <1>4, <1>6, <2>1, <3>1
  <2>2. CASE i # n + 2
    <3>1. i \in 1 .. n + 1 /\ k[i] = h[i]
      BY <1>6, <2>2
    <3>2. Sound(h[i]) /\ h[i].glast <= d.glast /\ h[i] \in Database
      BY <1>2, <3>1
    <3>3. h[i].glast \in Int /\ d.glast \in Int /\ d2.glast \in Int
      BY <1>3, <3>2, DatabaseParts DEF GroupNumbers
    <3>4. h[i].glast <= d2.glast
      BY <1>4, <3>2, <3>3
    <3> QED
      BY <3>1, <3>2, <3>4
  <2> QED
    BY <2>1, <2>2
<1>10. Chain(k, fs, d2)
  <2>1. Len(fs) + 1 = n + 2
    BY <1>7
  <2>2. Chain(k, fs, d2) <=> /\ k \in [Nat -> Database] /\ k[n + 2] = d2
                             /\ \A i \in 1 .. n + 1 : Outcome(k[i], k[i + 1], fs[i])
                             /\ \A i \in 1 .. n + 2 : Sound(k[i]) /\ k[i].glast <= d2.glast
    BY <1>7, <2>1, Zenon DEF Chain
  <2> QED
    BY <1>6, <1>8, <1>9, <2>2
<1>11. k[1] = h[1]
  BY <1>6
<1> QED
  BY <1>7, <1>10, <1>11, Zenon

LEMMA Shifted ==
  ASSUME NEW h, NEW es \in Seq(Event), es # <<>>, NEW d, Chain(h, es, d)
  PROVE  /\ \E k : Chain(k, Tail(es), d) /\ k[1] = h[2]
         /\ Outcome(h[1], h[2], Head(es)) /\ h[1] \in Database /\ h[2] \in Database /\ Sound(h[1])
         /\ h[1].glast <= d.glast /\ h[2].glast <= d.glast
<1>1. PICK n \in Nat : n + 1 = Len(es)
  <2> HIDE DEF Event
  <2> QED
    OBVIOUS
<1>2. /\ h \in [Nat -> Database] /\ h[n + 2] = d /\ \A i \in 1 .. n + 1 : Outcome(h[i], h[i + 1], es[i])
      /\ \A i \in 1 .. n + 2 : Sound(h[i]) /\ h[i].glast <= d.glast
  <2>1. n + 1 + 1 = n + 2
    OBVIOUS
  <2> QED
    BY <1>1, <2>1, Zenon DEF Chain
<1>3. PICK k : k = [i \in Nat |-> h[i + 1]]
  BY Zenon
<1>4. k \in [Nat -> Database] /\ \A i \in Nat : k[i] = h[i + 1]
  BY <1>2, <1>3
<1>5. PICK fs : fs = Tail(es) /\ Len(fs) = n /\ (\A i \in 1 .. n : fs[i] = es[i + 1]) /\ Head(es) = es[1]
  BY <1>1, Popped, Zenon
<1>6. ASSUME NEW i \in 1 .. n PROVE Outcome(k[i], k[i + 1], fs[i])
  <2>1. i \in Nat /\ i + 1 \in Nat /\ i + 1 \in 1 .. n + 1
    OBVIOUS
  <2>2. PICK j : j = i + 1
    OBVIOUS
  <2>3. j \in 1 .. n + 1 /\ k[i] = h[j] /\ k[i + 1] = h[j + 1] /\ fs[i] = es[j]
    BY <1>4, <1>5, <2>1, <2>2, Zenon
  <2> QED
    BY <1>2, <2>3, Zenon
<1>7. ASSUME NEW i \in 1 .. n + 1 PROVE Sound(k[i]) /\ k[i].glast <= d.glast
  <2>1. i \in Nat /\ i + 1 \in 1 .. n + 2
    OBVIOUS
  <2>2. k[i] = h[i + 1]
    BY <1>4, <2>1, Zenon
  <2> QED
    BY <1>2, <2>1, <2>2, Zenon
<1>8. k[n + 1] = d /\ k[1] = h[2]
  BY <1>2, <1>4
<1>9. Chain(k, fs, d)
  BY <1>4, <1>5, <1>6, <1>7, <1>8, Zenon DEF Chain
<1>10. 1 \in 1 .. n + 1 /\ 1 \in 1 .. n + 2 /\ 2 \in 1 .. n + 2 /\ 1 + 1 = 2
  OBVIOUS
<1>11. Outcome(h[1], h[2], es[1]) /\ Sound(h[1]) /\ h[1].glast <= d.glast /\ h[2].glast <= d.glast
  BY <1>2, <1>10, Zenon
<1>12. h[1] \in Database /\ h[2] \in Database
  BY <1>2
<1> QED
  BY <1>5, <1>8, <1>9, <1>11, <1>12, Zenon

LEMMA AppendWay ==
  ASSUME NEW S, NEW s \in Seq(S), NEW x \in S
  PROVE  x \in ToSet(Append(s, x)) /\ \A w \in ToSet(s) : w \in ToSet(Append(s, x))
  BY AppendSet
LEMMA QueueWay ==
  ASSUME NEW S, NEW s \in Seq(S), s # <<>>
  PROVE  /\ Head(s) \in ToSet(s) /\ \A w \in ToSet(Tail(s)) : w \in ToSet(s)
         /\ \A w \in ToSet(s) : w = Head(s) \/ w \in ToSet(Tail(s))
<1>1. PICK n \in Nat : n + 1 = Len(s)
  OBVIOUS
<1>2. Len(Tail(s)) = n /\ Head(s) = s[1] /\ \A i \in 1 .. n : Tail(s)[i] = s[i + 1]
  BY <1>1, Popped
<1>3. DOMAIN s = 1 .. n + 1 /\ DOMAIN Tail(s) = 1 .. n
  BY <1>1, <1>2, QueueParts
<1>4. ToSet(s) = {s[i] : i \in 1 .. n + 1} /\ ToSet(Tail(s)) = {Tail(s)[i] : i \in 1 .. n}
  BY <1>3, ToSetIs, Zenon
<1>5. \A w \in ToSet(Tail(s)) : w \in ToSet(s)
  BY <1>2, <1>4
<1>6. Head(s) \in ToSet(s)
  BY <1>2, <1>4
<1>7. ASSUME NEW w \in ToSet(s) PROVE w = Head(s) \/ w \in ToSet(Tail(s))
  <2>1. PICK i \in 1 .. n + 1 : w = s[i]
    BY <1>4
  <2>2. CASE i = 1
    BY <1>2, <2>1, <2>2
  <2>3. CASE i # 1
    <3>1. i - 1 \in 1 .. n /\ (i - 1) + 1 = i
      BY <2>3
    <3>2. Tail(s)[i - 1] = s[i]
      BY <1>2, <3>1
    <3> QED
      BY <1>4, <2>1, <3>1, <3>2, Zenon
  <2> QED
    BY <2>2, <2>3
<1> QED
  BY <1>5, <1>6, <1>7

\* All that W leaves open, W2 leaves open, but for the order of what is gone.
Carried(W, W2, gone) ==
  /\ (Free(W) => Free(W2)) /\ (Asked(W) => Asked(W2))
  /\ \A x \in Loose(W) : x \in Loose(W2) \/ x \in gone

LEMMA MoreCarried == ASSUME NEW W, NEW W2, \A w \in W : w \in W2 PROVE Carried(W, W2, {})
  BY DEF Carried, Free, Asked, Loose

LEMMA FitsCarried ==
  ASSUME NEW a, NEW d, NEW W, NEW W2, Carried(W, W2, {}), NEW dd, Fits(a, d, W, dd)
  PROVE  Fits(a, d, W2, dd)
<1>1. PICK f, f2 : f = Free(W) /\ f2 = Free(W2)
  OBVIOUS
<1>2. PICK L, L2 : L = Loose(W) \cup (Nat \ GidsOf(dd)) /\ L2 = Loose(W2) \cup (Nat \ GidsOf(dd))
  BY Zenon
<1>3. Copies(a, d, f, L) /\ (f => f2) /\ \A x : x \in L => x \in L2
  BY <1>1, <1>2 DEF Fits, Carried
<1>4. Copies(a, d, f2, L2)
  BY <1>3, CopiesLooser, Zenon
<1> QED
  BY <1>1, <1>2, <1>4, Zenon DEF Fits

LEMMA AskedMore ==
  ASSUME NEW d, NEW rs, NEW rs2, \A w \in ToSet(rs) : w \in ToSet(rs2), NEW es, NEW a, Mirrors(d, rs, es, a),
         NEW b, Alike2(a, b)
  PROVE  Mirrors(d, rs2, es, b)
<1>1. PICK W, W2 : W = Way(rs, es) /\ W2 = Way(rs2, es)
  OBVIOUS
<1>2. Carried(W, W2, {})
  BY <1>1, MoreCarried DEF Way
<1>3. PICK h : Chain(h, es, d) /\ (Asked(W) \/ Fits(a, h[1], W, d))
  BY <1>1 DEF Mirrors
<1>4. CASE Asked(W)
  BY <1>1, <1>2, <1>3, <1>4, Zenon DEF Carried, Mirrors
<1>5. CASE Fits(a, h[1], W, d)
  <2>1. Fits(a, h[1], W2, d)
    BY <1>2, <1>5, FitsCarried
  <2>2. Fits(b, h[1], W2, d)
    <3>1. PICK x, f, L : x = h[1] /\ f = Free(W2) /\ L = Loose(W2) \cup (Nat \ GidsOf(d))
      BY Zenon
    <3>2. Copies(a, x, f, L)
      BY <2>1, <3>1, Zenon DEF Fits
    <3>3. Copies(b, x, f, L)
      BY <3>2, CopiesSame
    <3> QED
      BY <3>1, <3>3, Zenon DEF Fits
  <2> QED
    BY <1>1, <1>3, <2>2, Zenon DEF Mirrors
<1> QED
  BY <1>3, <1>4, <1>5

\* The next change: its event comes, and answers a request of the interface, if it was one.
Answers(d, rs, rs2, e) ==
  rs2 = rs \/ (rs \in Seq(Request) /\ rs # <<>> /\ rs2 = Tail(rs) /\ Answered(d, Head(rs), e))

LEMMA AnswerCarried ==
  ASSUME NEW d, NEW rs, NEW rs2, NEW es \in Seq(Event), NEW e \in Event, Answers(d, rs, rs2, e)
  PROVE  Carried(Way(rs, es), Way(rs2, Append(es, e)), Nat \ GidsOf(d))
<1>1. PICK fs : fs = Append(es, e)
  BY Zenon
<1>2. e \in ToSet(fs) /\ \A w \in ToSet(es) : w \in ToSet(fs)
  <2>1. e \in ToSet(Append(es, e)) /\ \A w \in ToSet(es) : w \in ToSet(Append(es, e))
    BY AppendWay
  <2> QED
    BY <1>1, <2>1, Zenon
<1>3. PICK W, W2 : W = Way(rs, es) /\ W2 = Way(rs2, fs)
  OBVIOUS
<1>4. CASE rs2 = rs
  <2>1. Carried(W, W2, {})
    BY <1>2, <1>3, <1>4, MoreCarried DEF Way
  <2> QED
    BY <1>1, <1>3, <2>1 DEF Carried
<1>5. CASE rs \in Seq(Request) /\ rs # <<>> /\ rs2 = Tail(rs) /\ Answered(d, Head(rs), e)
  <2>1. \A w \in ToSet(rs) : w = Head(rs) \/ w \in ToSet(rs2)
    BY <1>5, QueueWay
  <2>2. PICK r : r = Head(rs)
    OBVIOUS
  <2>3. e \in W2 /\ \A w \in W : w = r \/ w \in W2
    BY <1>2, <1>3, <2>1, <2>2 DEF Way
  <2>4. /\ r.k = "groups" => e.k = "groups"
        /\ r.k = "state" => e.k = "state"
        /\ r.k = "reorder" => (e.k = "reordered" /\ e.g = r.g) \/ r.g \notin GidsOf(d)
    BY <1>5, <2>2, Zenon DEF Answered
  <2>5. r.k # "reordered"
    <3>1. r \in Request
      BY <1>5, <2>2, QueueParts
    <3> QED
      BY <3>1, RequestParts
  <2>6. Free(W) => Free(W2)
    BY <2>3, <2>4 DEF Free
  <2>7. Asked(W) => Asked(W2)
    BY <2>3, <2>4 DEF Asked
  <2>8. \A x \in Loose(W) : x \in Loose(W2) \/ x \in Nat \ GidsOf(d)
    BY <2>3, <2>4, <2>5 DEF Loose
  <2> QED
    BY <1>1, <1>3, <2>6, <2>7, <2>8, Zenon DEF Carried
<1> QED
  BY <1>4, <1>5 DEF Answers

LEMMA RanMirrors ==
  ASSUME NEW d, NEW d2 \in Database, NEW rs, NEW rs2, NEW es \in Seq(Event), NEW e \in Event, NEW a,
         Outcome(d, d2, e), Answers(d, rs, rs2, e), Mirrors(d, rs, es, a)
  PROVE  Mirrors(d2, rs2, Append(es, e), a)
<1>1. PICK fs : fs = Append(es, e)
  BY Zenon
<1>2. PICK W, W2 : W = Way(rs, es) /\ W2 = Way(rs2, fs)
  OBVIOUS
<1>3. Carried(W, W2, Nat \ GidsOf(d))
  <2>1. Carried(Way(rs, es), Way(rs2, Append(es, e)), Nat \ GidsOf(d))
    BY AnswerCarried
  <2> QED
    BY <1>1, <1>2, <2>1, Zenon
<1>4. PICK h : Chain(h, es, d) /\ (Asked(W) \/ Fits(a, h[1], W, d))
  BY <1>2 DEF Mirrors
<1>5. PICK k : Chain(k, fs, d2) /\ k[1] = h[1]
  <2>1. \E k : Chain(k, Append(es, e), d2) /\ k[1] = h[1]
    BY <1>4, Extended
  <2> QED
    BY <1>1, <2>1, Zenon
<1>6. CASE Asked(W)
  BY <1>1, <1>2, <1>3, <1>5, <1>6, Zenon DEF Carried, Mirrors
<1>7. CASE Fits(a, h[1], W, d)
  <2>1. PICK x : x = h[1] /\ x \in Database /\ Sound(x) /\ x.glast <= d.glast
    <3>1. 1 \in 1 .. Len(es) + 1 /\ h[1] \in Database
      BY <1>4 DEF Chain
    <3> QED
      BY <1>4, <3>1, Zenon DEF Chain
  <2>2. d \in Database /\ Sound(d)
    <3>1. Len(es) + 1 \in Nat /\ Len(es) + 1 \in 1 .. Len(es) + 1
      <4>1. Len(es) \in Nat
        BY AppendParts
      <4> QED
        BY <4>1
    <3>2. h[Len(es) + 1] \in Database /\ h[Len(es) + 1] = d
      BY <1>4, <3>1 DEF Chain
    <3>3. Sound(h[Len(es) + 1])
      BY <1>4, <3>1, Zenon DEF Chain
    <3> QED
      BY <3>2, <3>3, Zenon
  <2>3. \A g \in GidsOf(d2) : g \in GidsOf(d) \/ g = d.glast + 1
    BY <2>2, OutcomeKeeps
  <2>4. PICK f, f2 : f = Free(W) /\ f2 = Free(W2) /\ (f => f2)
    BY <1>3 DEF Carried
  <2>5. PICK L, L2 : L = Loose(W) \cup (Nat \ GidsOf(d)) /\ L2 = Loose(W2) \cup (Nat \ GidsOf(d2))
    BY Zenon
  <2>6. ASSUME NEW g \in GidsOf(x), g \in L PROVE g \in L2
    <3>1. g \in Nat /\ g <= x.glast /\ x.glast \in Nat /\ d.glast \in Nat
      BY <2>1, <2>2, DatabaseParts DEF Sound, GroupNumbers
    <3>2. g # d.glast + 1
      BY <2>1, <3>1
    <3>3. g \in Nat \ GidsOf(d) => g \in Nat \ GidsOf(d2)
      BY <2>3, <3>1, <3>2
    <3>4. g \in Loose(W) => g \in Loose(W2) \/ g \in Nat \ GidsOf(d)
      BY <1>3, Zenon DEF Carried
    <3> QED
      BY <2>5, <2>6, <3>3, <3>4
  <2>7. Copies(a, x, f, L)
    BY <1>7, <2>1, <2>4, <2>5, Zenon DEF Fits
  <2>8. Copies(a, x, f2, L2)
    BY <2>4, <2>6, <2>7, CopiesLooser
  <2>9. Fits(a, k[1], W2, d2)
    BY <1>5, <2>1, <2>4, <2>5, <2>8, Zenon DEF Fits
  <2> QED
    BY <1>1, <1>2, <1>5, <2>9, Zenon DEF Mirrors
<1> QED
  BY <1>4, <1>6, <1>7

LEMMA ArrivedMirrors ==
  ASSUME NEW a \in Interface, NEW es \in Seq(Event), es # <<>>, NEW d, NEW rs, NEW rs2, \A w \in ToSet(rs) : w \in ToSet(rs2),
         Mirrors(d, rs, es, a),
         NEW e, e = Head(es), NEW b, b \in Apply(a, e), \A x \in Apply(a, e) : x = b, NEW c, Alike2(b, c)
  PROVE  Mirrors(d, rs2, Tail(es), c)
<1>1. PICK fs : fs = Tail(es)
  BY Zenon
<1>2. e \in Event /\ (\A w \in ToSet(es) : w = e \/ w \in ToSet(fs)) /\ e.k # "reorder"
  <2>1. e \in Event
    BY QueueParts
  <2>2. \A w \in ToSet(es) : w = Head(es) \/ w \in ToSet(Tail(es))
    BY QueueWay
  <2>3. e.k # "reorder"
    BY <2>1, EventParts
  <2> QED
    BY <1>1, <2>1, <2>2, <2>3, Zenon
<1>3. PICK W, W2 : W = Way(rs, es) /\ W2 = Way(rs2, fs)
  OBVIOUS
<1>4. \A w \in W : w = e \/ w \in W2
  BY <1>2, <1>3 DEF Way
<1>5. PICK h : Chain(h, es, d) /\ (Asked(W) \/ Fits(a, h[1], W, d))
  BY <1>3 DEF Mirrors
<1>6. /\ \E k : Chain(k, Tail(es), d) /\ k[1] = h[2]
      /\ Outcome(h[1], h[2], Head(es)) /\ h[1] \in Database /\ h[2] \in Database /\ Sound(h[1])
  BY <1>5, Shifted, Zenon
<1>7. PICK k : Chain(k, fs, d) /\ k[1] = h[2]
  BY <1>1, <1>6, Zenon
<1>8. PICK x, y : x = h[1] /\ y = h[2] /\ x \in Database /\ y \in Database /\ Sound(x) /\ Outcome(x, y, e)
  BY <1>6, Zenon
<1>9. CASE Asked(W) /\ e.k # "state"
  <2>1. Asked(W2)
    BY <1>4, <1>9 DEF Asked
  <2> QED
    BY <1>1, <1>3, <1>7, <2>1, Zenon DEF Mirrors
<1>10. CASE ~(Asked(W) /\ e.k # "state")
  <2>1. PICK f, f2 : f = Free(W) /\ f2 = Free(W2)
    OBVIOUS
  <2>2. PICK L, L2 : L = Loose(W) \cup (Nat \ GidsOf(d)) /\ L2 = Loose(W2) \cup (Nat \ GidsOf(d))
    BY Zenon
  <2>3. f /\ e.k # "groups" => f2
    BY <1>4, <2>1, Zenon DEF Free
  <2>4. \A g : g \in Loose(W) /\ ~(e.k = "reordered" /\ g = e.g) => g \in Loose(W2)
    BY <1>2, <1>4 DEF Loose
  <2>5. \A g : g \in L /\ ~(e.k = "reordered" /\ g = e.g) => g \in L2
    BY <2>2, <2>4
  <2>7. e.k # "state" => Copies(a, x, f, L)
    BY <1>5, <1>8, <1>10, <2>1, <2>2, Zenon DEF Fits
  <2>6. Settles(a, x, e, f, L, f2, L2)
    BY <2>3, <2>5, <2>7, Zenon DEF Settles
  <2>8. Told(a, x, y, e, b)
    BY <1>2, <1>8, Zenon DEF Told
  <2>9. Copies(b, y, f2, L2)
    BY <1>8, <2>6, <2>8, ApplyCopies
  <2>10. Copies(c, y, f2, L2)
    BY <2>9, CopiesSame
  <2>11. Fits(c, k[1], W2, d)
    BY <1>7, <1>8, <2>1, <2>2, <2>10, Zenon DEF Fits
  <2> QED
    BY <1>1, <1>3, <1>7, <2>11, Zenon DEF Mirrors
<1> QED
  BY <1>9, <1>10

LEMMA StartChain ==
  ASSUME NEW d \in Database, Sound(d)
  PROVE  \E h : Chain(h, <<>>, d) /\ h[1] = d
<1>1. PICK h : h = [i \in Nat |-> d]
  BY Zenon
<1>2. h \in [Nat -> Database] /\ \A i \in Nat : h[i] = d
  BY <1>1
<1>3. PICK es : es = <<>> /\ Len(es) = 0
  OBVIOUS
<1>4. h[Len(es) + 1] = d /\ h[1] = d
  BY <1>2, <1>3
<1>5. \A i \in 1 .. Len(es) : Outcome(h[i], h[i + 1], es[i])
  BY <1>3
<1>6. \A i \in 1 .. Len(es) + 1 : Sound(h[i]) /\ h[i].glast <= d.glast
  <2>1. d.glast <= d.glast
    BY DatabaseParts DEF GroupNumbers
  <2>2. \A i \in 1 .. Len(es) + 1 : h[i] = d
    BY <1>2, <1>3
  <2> QED
    BY <2>1, <2>2, Zenon
<1> QED
  BY <1>2, <1>3, <1>4, <1>5, <1>6, Zenon DEF Chain

LEMMA ChainEnd ==
  ASSUME NEW h, NEW es \in Seq(Event), NEW d, Chain(h, es, d)
  PROVE  d \in Database /\ Sound(d)
<1>1. PICK n \in Nat : n = Len(es) + 1 /\ n \in 1 .. Len(es) + 1
  <2>1. Len(es) \in Nat
    OBVIOUS
  <2> QED
    BY <2>1
<1>2. h[n] \in Database /\ h[n] = d
  BY <1>1 DEF Chain
<1>3. Sound(h[n])
  BY <1>1, Zenon DEF Chain
<1> QED
  BY <1>2, <1>3, Zenon

LEMMA ChainStart ==
  ASSUME NEW h, NEW es \in Seq(Event), NEW d, Chain(h, es, d)
  PROVE  h[1] \in Database /\ Sound(h[1])
<1>1. 1 \in 1 .. Len(es) + 1
  <2>1. Len(es) \in Nat
    OBVIOUS
  <2> QED
    BY <2>1
<1>2. h[1] \in Database
  BY DEF Chain
<1> QED
  BY <1>1, <1>2, Zenon DEF Chain

LEMMA LastChange ==
  ASSUME NEW h, NEW es \in Seq(Event), NEW e \in Event, NEW d, Chain(h, Append(es, e), d)
  PROVE  \E x \in Database : Sound(x) /\ Outcome(x, d, e)
<1>1. PICK n \in Nat : n = Len(es)
  BY AppendParts
<1>2. Len(Append(es, e)) = n + 1 /\ Append(es, e)[n + 1] = e
  BY <1>1, Pushed
<1>3. PICK fs : fs = Append(es, e)
  BY Zenon
<1>4. PICK m \in Nat : m = n + 1 /\ m \in 1 .. Len(fs) /\ m \in 1 .. Len(fs) + 1 /\ m + 1 = Len(fs) + 1
  BY <1>2, <1>3
<1>5. h[m + 1] = d /\ Outcome(h[m], h[m + 1], fs[m]) /\ Sound(h[m])
  BY <1>3, <1>4, Zenon DEF Chain
<1>6. h[m] \in Database
  BY <1>4 DEF Chain
<1>7. fs[m] = e
  BY <1>2, <1>3, <1>4, Zenon
<1> QED
  BY <1>5, <1>6, <1>7, Zenon

-----------------------------------------------------------------------------
(* The events that are coming, after each step.                            *)

Senders == {"tui", "other"}

LEMMA NotAnEvent == NoEvent \notin Event
<1>1. ASSUME NoEvent \in Event PROVE FALSE
  <2>1. NoEvent.k = "none"
    BY DEF NoEvent
  <2>2. PICK e \in Event : e = NoEvent
    BY <1>1
  <2>3. e.k # "none"
    BY EventParts
  <2> QED
    BY <2>1, <2>2, <2>3
<1> QED
  BY <1>1

LEMMA ComingTyped ==
  ASSUME NEW q \in Seq(Event), NEW s \in [Senders -> Event \cup {NoEvent}]
  PROVE  Coming(q, s) \in Seq(Event) /\ (Unsent(s) = NoEvent \/ Unsent(s) \in Event)
<1>1. PICK u : u = Unsent(s)
  OBVIOUS
<1>2. u = NoEvent \/ u \in Event
  BY <1>1 DEF Unsent, Senders
<1>3. u \in Event => Append(q, u) \in Seq(Event)
  BY AppendParts
<1>4. Coming(q, s) = IF u = NoEvent THEN q ELSE Append(q, u)
  BY <1>1, Zenon DEF Coming
<1> QED
  BY <1>1, <1>2, <1>3, <1>4, Zenon

NothingHeld(s) == \A o \in Senders : s[o] = NoEvent
Holds(s, c, e, s2) == s2 = [s EXCEPT ![c] = e]

LEMMA RunComing ==
  ASSUME NEW q, NEW s \in [Senders -> Event \cup {NoEvent}], NothingHeld(s),
         NEW c \in Senders, NEW e \in Event, NEW s2, Holds(s, c, e, s2)
  PROVE  Coming(q, s) = q /\ Coming(q, s2) = Append(q, e) /\ Alone(s2)
<1>1. e # NoEvent
  BY NotAnEvent
<1>2. "tui" \in Senders /\ "other" \in Senders /\ (c = "tui" \/ c = "other")
  BY DEF Senders
<1>3. Unsent(s) = NoEvent
  BY <1>2 DEF Unsent, NothingHeld
<1>4. (s2["tui"] = e /\ s2["other"] = NoEvent) \/ (s2["tui"] = NoEvent /\ s2["other"] = e)
  BY <1>2 DEF NothingHeld, Holds
<1>5. Unsent(s2) = e /\ Alone(s2)
  BY <1>1, <1>4 DEF Unsent, Alone
<1> QED
  BY <1>1, <1>3, <1>5, Zenon DEF Coming

LEMMA SentComing ==
  ASSUME NEW q, NEW s \in [Senders -> Event \cup {NoEvent}], Alone(s), NEW c \in Senders, s[c] # NoEvent,
         NEW s2, s2 = [s EXCEPT ![c] = NoEvent]
  PROVE  Coming(Append(q, s[c]), s2) = Coming(q, s) /\ Alone(s2)
<1>1. "tui" \in Senders /\ "other" \in Senders /\ (c = "tui" \/ c = "other")
  BY DEF Senders
<1>2. s2["tui"] = NoEvent /\ s2["other"] = NoEvent
  BY <1>1 DEF Alone
<1>3. Unsent(s) = s[c] /\ Unsent(s2) = NoEvent /\ Alone(s2)
  BY <1>1, <1>2 DEF Unsent, Alone
<1> QED
  BY <1>3, Zenon DEF Coming

LEMMA TailAppend ==
  ASSUME NEW S, NEW q \in Seq(S), q # <<>>, NEW u \in S
  PROVE  Append(q, u) # <<>> /\ Tail(Append(q, u)) = Append(Tail(q), u) /\ Head(Append(q, u)) = Head(q)
  OBVIOUS

LEMMA TakenComing ==
  ASSUME NEW q \in Seq(Event), q # <<>>, NEW s \in [Senders -> Event \cup {NoEvent}]
  PROVE  Coming(q, s) # <<>> /\ Coming(Tail(q), s) = Tail(Coming(q, s)) /\ Head(Coming(q, s)) = Head(q)
<1>1. PICK u : u = Unsent(s) /\ (u = NoEvent \/ u \in Event)
  BY ComingTyped
<1>2. CASE u = NoEvent
  BY <1>1, <1>2, Zenon DEF Coming
<1>3. CASE u \in Event
  <2>1. u # NoEvent
    BY <1>3, NotAnEvent
  <2>2. Append(q, u) # <<>> /\ Tail(Append(q, u)) = Append(Tail(q), u) /\ Head(Append(q, u)) = Head(q)
    BY <1>3, TailAppend
  <2> QED
    BY <1>1, <2>1, <2>2, Zenon DEF Coming
<1> QED
  BY <1>1, <1>2, <1>3

LEMMA DroppedMirrors ==
  ASSUME NEW q \in Seq(Event), NEW s \in [Senders -> Event \cup {NoEvent}], Alone(s), NEW d, NEW rs, NEW a,
         Mirrors(d, rs, Coming(q, s), a), NEW s2, s2 = [s EXCEPT !["tui"] = NoEvent], NEW b,
         NEW rs2, rs2 = <<[k |-> "state"]>>
  PROVE  Mirrors(d, rs2, Coming(<<>>, s2), b) /\ Alone(s2)
<1>1. Coming(q, s) \in Seq(Event)
  BY ComingTyped
<1>2. PICK h : Chain(h, Coming(q, s), d)
  BY Zenon DEF Mirrors
<1>3. d \in Database /\ Sound(d)
  BY <1>1, <1>2, ChainEnd
<1>4. "tui" \in Senders /\ "other" \in Senders
  BY DEF Senders
<1>5. s2["tui"] = NoEvent /\ s2["other"] = s["other"] /\ Alone(s2)
  BY <1>4 DEF Alone
<1>6. PICK none : none = <<>> /\ none \in Seq(Event)
  <2>1. <<>> \in Seq(Event)
    OBVIOUS
  <2> QED
    BY <2>1, Zenon
<1>7. \E x : Chain(x, Coming(none, s2), d)
  <2>1. CASE s["other"] = NoEvent
    <3>1. Coming(none, s2) = none
      BY <1>5, <2>1 DEF Coming, Unsent
    <3>2. \E x : Chain(x, <<>>, d)
      BY <1>3, StartChain
    <3> QED
      BY <1>6, <3>1, <3>2, Zenon
  <2>2. CASE s["other"] # NoEvent
    <3>1. PICK o : o = s["other"]
      OBVIOUS
    <3>2. o \in Event /\ s["tui"] = NoEvent
      BY <1>4, <2>2, <3>1 DEF Alone
    <3>3. Coming(q, s) = Append(q, o) /\ Coming(none, s2) = Append(none, o)
      BY <1>5, <2>2, <3>1, <3>2 DEF Coming, Unsent
    <3>4. Chain(h, Append(q, o), d)
      BY <1>2, <3>3, Zenon
    <3>5. PICK x \in Database : Sound(x) /\ Outcome(x, d, o)
      BY <3>2, <3>4, LastChange
    <3>6. PICK y : Chain(y, none, x)
      <4>1. \E y : Chain(y, <<>>, x)
        BY <3>5, StartChain
      <4> QED
        BY <1>6, <4>1, Zenon
    <3>7. \E z : Chain(z, Append(none, o), d) /\ z[1] = y[1]
      BY <1>3, <1>6, <3>2, <3>5, <3>6, Extended, Zenon
    <3> QED
      BY <3>3, <3>7, Zenon
  <2> QED
    BY <2>1, <2>2, Zenon
<1>8. PICK fs : fs = Coming(none, s2)
  OBVIOUS
<1>9. Asked(Way(rs2, fs))
  <2>1. PICK r : r = [k |-> "state"] /\ r.k = "state"
    OBVIOUS
  <2>2. ToSet(rs2) = {r}
    BY <2>1, OneSet
  <2> QED
    BY <2>1, <2>2 DEF Asked, Way
<1> QED
  BY <1>5, <1>6, <1>7, <1>8, <1>9, Zenon DEF Mirrors

-----------------------------------------------------------------------------
(* The steps of the core and of the queues.                                *)

LEMMA FieldSame ==
  ASSUME NEW a \in Interface
  PROVE  /\ \A n : Alike2(a, [a EXCEPT !.scroll = n]) /\ Alike2(a, [a EXCEPT !.focus = n])
                   /\ Alike2(a, [a EXCEPT !.pending = n]) /\ Alike2(a, [a EXCEPT !.cursor = n])
                   /\ Alike2(a, [a EXCEPT !.collapsed = n]) /\ Alike2(a, [a EXCEPT !.query = n])
                   /\ Alike2(a, [a EXCEPT !.mode = n]) /\ Alike2(a, [a EXCEPT !.popup = n])
  BY DEF Interface, Alike2

LEMMA AlikeAgain == ASSUME NEW a, NEW b, NEW c, Alike2(a, b), Alike2(b, c) PROVE Alike2(a, c)
  BY DEF Alike2

LEMMA ScrolledSame == ASSUME NEW a \in Interface PROVE Alike2(a, Scrolled(a))
<1>1. PICK pos, visible : pos = (IF Row(a) = NoRow THEN 0 ELSE a.cursor - 1) /\ visible = Height - 1
  OBVIOUS
<1>2. Scrolled(a) = IF Rows(a) = <<>> THEN a
                    ELSE IF pos < a.scroll THEN [a EXCEPT !.scroll = pos]
                    ELSE IF pos >= a.scroll + visible THEN [a EXCEPT !.scroll = pos - visible + 1]
                    ELSE a
  BY <1>1, Zenon DEF Scrolled
<1>3. PICK n : n = pos - visible + 1
  OBVIOUS
<1>4. Scrolled(a) = a \/ Scrolled(a) = [a EXCEPT !.scroll = pos] \/ Scrolled(a) = [a EXCEPT !.scroll = n]
  BY <1>2, <1>3, Zenon
<1>5. Alike2(a, a) /\ Alike2(a, [a EXCEPT !.scroll = pos]) /\ Alike2(a, [a EXCEPT !.scroll = n])
  BY FieldSame DEF Alike2
<1> QED
  BY <1>4, <1>5, Zenon

LEMMA ConcatWay ==
  ASSUME NEW S, NEW s \in Seq(S), NEW t \in Seq(S)
  PROVE  s \o t \in Seq(S) /\ \A w : w \in ToSet(s) \/ w \in ToSet(t) => w \in ToSet(s \o t)
<1>1. PICK u : u = s \o t
  BY Zenon
<1>2. /\ u \in Seq(S) /\ \A i \in DOMAIN s : i \in DOMAIN u /\ u[i] = s[i]
      /\ \A i \in DOMAIN t : Len(s) + i \in DOMAIN u /\ u[Len(s) + i] = t[i]
  BY <1>1, ConcatParts
<1>3. ToSet(s) = {s[i] : i \in DOMAIN s} /\ ToSet(t) = {t[i] : i \in DOMAIN t} /\ ToSet(u) = {u[i] : i \in DOMAIN u}
  BY ToSetIs
<1>4. \A w : w \in ToSet(s) \/ w \in ToSet(t) => w \in ToSet(u)
  BY <1>2, <1>3, Zenon
<1> QED
  BY <1>1, <1>2, <1>4

LEMMA LoopSame ==
  ASSUME NEW a, Good(a), NEW rs, rs \in Seq(Request), toCore \in Seq(Request), Loop(a, rs)
  PROVE  /\ Alike2(a, app')
         /\ \A w : w \in ToSet(toCore) \/ w \in ToSet(rs) => w \in ToSet(toCore')
<1>1. a \in Interface
  BY DEF Good
<1>2. PICK t : t = toCore \o rs /\ t \in Seq(Request) /\ \A w : w \in ToSet(toCore) \/ w \in ToSet(rs) => w \in ToSet(t)
  <2>1. toCore \o rs \in Seq(Request) /\ \A w : w \in ToSet(toCore) \/ w \in ToSet(rs) => w \in ToSet(toCore \o rs)
    BY ConcatWay
  <2> QED
    BY <2>1, Zenon
<1>3. CASE DetailsWanted(a)
  <2>1. PICK q, x : /\ q = [k |-> "details", g |-> Row(a).g, id |-> Row(a).id]
                    /\ x = a.pending \cup {<<Row(a).g, Row(a).id>>}
    BY Zenon
  <2>2. PICK b, ref : b = [a EXCEPT !.pending = x] /\ ref = <<Row(a).g, Row(a).id>>
                      /\ ref[1] = Row(a).g /\ ref[2] = Row(a).id
    <3>1. PICK u, v : u = Row(a).g /\ v = Row(a).id
      OBVIOUS
    <3>2. <<u, v>>[1] = u /\ <<u, v>>[2] = v
      OBVIOUS
    <3> QED
      BY <3>1, <3>2, Zenon
  <2>3. b \in Interface /\ Alike2(a, b)
    <3>1. Row(a).g \in Nat /\ Row(a).id \in Nat
      BY <1>1, RowTyped
    <3>2. x \in SUBSET Refs
      BY <1>1, <2>1, <3>1, InterfaceParts DEF Refs
    <3> QED
      BY <1>1, <2>2, <3>2, FieldsTyped, FieldSame, Zenon
  <2>4. app' = Scrolled(b) /\ toCore' = t \o <<q>>
    <3>1. /\ app' = Scrolled([a EXCEPT !.pending = @ \cup {<<Row(a).g, Row(a).id>>}])
          /\ toCore' = toCore \o rs \o
               <<[k |-> "details", g |-> <<Row(a).g, Row(a).id>>[1], id |-> <<Row(a).g, Row(a).id>>[2]]>>
      BY <1>3, Zenon DEF Loop
    <3> QED
      BY <1>2, <2>1, <2>2, <3>1, Zenon
  <2>5. Alike2(a, app')
    BY <2>3, <2>4, ScrolledSame, AlikeAgain
  <2>6. q \in Request
    BY <1>1, <2>1, RowTyped, RequestMade
  <2>7. PICK l : l = <<q>> /\ l \in Seq(Request)
    BY <2>6, OneTyped, Zenon
  <2>8. \A w : w \in ToSet(t) \/ w \in ToSet(l) => w \in ToSet(t \o l)
    BY <1>2, <2>7, ConcatWay, Zenon
  <2> QED
    BY <1>2, <2>4, <2>5, <2>7, <2>8, Zenon
<1>4. CASE ~DetailsWanted(a)
  <2>1. app' = Scrolled(a) /\ toCore' = toCore \o rs
    BY <1>4, Zenon DEF Loop
  <2>2. Alike2(a, Scrolled(a))
    BY <1>1, ScrolledSame
  <2> QED
    BY <1>2, <2>1, <2>2, Zenon
<1> QED
  BY <1>3, <1>4

LEMMA QueuesTyped ==
  TreeInv => /\ db \in Database /\ sending \in [Senders -> Event \cup {NoEvent}]
             /\ toCore \in Seq(Request) /\ toTui \in Seq(Event) /\ app \in Interface
             /\ Coming(toTui, sending) \in Seq(Event)
<1> SUFFICES ASSUME TreeInv
             PROVE  /\ db \in Database /\ sending \in [Senders -> Event \cup {NoEvent}]
                    /\ toCore \in Seq(Request) /\ toTui \in Seq(Event) /\ app \in Interface
                    /\ Coming(toTui, sending) \in Seq(Event)
  OBVIOUS
<1>1. sending \in [Senders -> Event \cup {NoEvent}] /\ toTui \in Seq(Event)
  BY DEF TreeInv, Senders
<1>2. Coming(toTui, sending) \in Seq(Event)
  BY <1>1, ComingTyped
<1> QED
  BY <1>1, <1>2 DEF TreeInv, Good

LEMMA KeyMirrors == ASSUME TreeInv, MirrorInv, NEW a, Good(a), Alike2(app, a), Key(a) PROVE MirrorInv'
<1>1. Loop(a, <<>>) /\ UNCHANGED <<db, sending, toTui, overlapped, scrambled>>
  BY DEF Key, Ui
<1>2. PICK none : none = <<>> /\ none \in Seq(Request)
  <2>1. <<>> \in Seq(Request)
    OBVIOUS
  <2> QED
    BY <2>1, Zenon
<1>3. Loop(a, none) /\ toCore \in Seq(Request)
  BY <1>1, <1>2, QueuesTyped, Zenon
<1>4. Alike2(a, app') /\ \A w \in ToSet(toCore) : w \in ToSet(toCore')
  BY <1>2, <1>3, LoopSame, Zenon
<1>5. Alike2(app, app')
  BY <1>4, AlikeAgain
<1>6. PICK d, rs, rs2, es, x, y : /\ d = db /\ rs = toCore /\ rs2 = toCore' /\ es = Coming(toTui, sending)
                                  /\ x = app /\ y = app'
  OBVIOUS
<1>7. Mirrors(d, rs, es, x) => Mirrors(d, rs2, es, y)
  BY <1>4, <1>5, <1>6, AskedMore
<1> QED
  BY <1>1, <1>6, <1>7, Zenon DEF MirrorInv

LEMMA AskMirrors ==
  ASSUME TreeInv, MirrorInv, NEW a, Good(a), Alike2(app, a), NEW rs, rs \in Seq(Request), Ask(a, rs)
  PROVE  MirrorInv'
<1>1. Loop(a, rs) /\ UNCHANGED <<db, sending, toTui, overlapped, scrambled>>
  BY DEF Ask, Ui
<1>2. toCore \in Seq(Request)
  BY QueuesTyped
<1>3. Alike2(a, app') /\ \A w \in ToSet(toCore) : w \in ToSet(toCore')
  BY <1>1, <1>2, LoopSame
<1>4. Alike2(app, app')
  BY <1>3, AlikeAgain
<1>5. PICK d, r1, r2, es, x, y : /\ d = db /\ r1 = toCore /\ r2 = toCore' /\ es = Coming(toTui, sending)
                                 /\ x = app /\ y = app'
  OBVIOUS
<1>6. Mirrors(d, r1, es, x) => Mirrors(d, r2, es, y)
  BY <1>3, <1>4, <1>5, AskedMore
<1> QED
  BY <1>1, <1>5, <1>6, Zenon DEF MirrorInv

\* A change by one client, while no event of another one waits; else the copy may go wrong.
LEMMA RunMirrors ==
  ASSUME TreeInv, MirrorInv, NEW c \in Senders, NEW r \in Request, Run(c, r), UNCHANGED <<toTui, app, scrambled>>,
         \/ toCore' = toCore
         \/ toCore # <<>> /\ toCore' = Tail(toCore) /\ r = Head(toCore)
  PROVE  MirrorInv'
<1>1. PICK e \in Event : e = Exec(db, r).ev
  BY ExecTyped, QueuesTyped
<1>2. PICK d, d2, s, s2, rs, rs2, q, a :
        /\ d = db /\ d2 = db' /\ s = sending /\ s2 = sending' /\ rs = toCore /\ rs2 = toCore' /\ q = toTui /\ a = app
  OBVIOUS
<1>3. /\ d \in Database /\ s \in [Senders -> Event \cup {NoEvent}] /\ rs \in Seq(Request) /\ q \in Seq(Event)
  BY <1>2, QueuesTyped, Zenon
<1>4. d2 = Exec(d, r).db /\ s2 = [s EXCEPT ![c] = e] /\ s[c] = NoEvent
      /\ overlapped' = (overlapped \/ \E o \in DOMAIN s : s[o] # NoEvent)
  BY <1>1, <1>2 DEF Run
<1>5. d2 \in Database /\ Outcome(d, d2, e) /\ Answered(d, r, e)
  <2>1. Exec(d, r).db \in Database
    BY <1>3, ExecTyped
  <2>2. Outcome(d, Exec(d, r).db, Exec(d, r).ev) /\ Answered(d, r, Exec(d, r).ev)
    BY <1>3, ExecOutcome
  <2> QED
    BY <1>1, <1>2, <1>4, <2>1, <2>2, Zenon
<1>6. Answers(d, rs, rs2, e)
  BY <1>2, <1>3, <1>5, Zenon DEF Answers
<1>7. CASE overlapped \/ scrambled
  BY <1>4, <1>7, Zenon DEF MirrorInv
<1>8. CASE \E o \in DOMAIN s : s[o] # NoEvent
  BY <1>4, <1>8, Zenon DEF MirrorInv
<1>9. CASE (\A o \in DOMAIN s : s[o] = NoEvent) /\ ~(overlapped \/ scrambled)
  <2>1. NothingHeld(s)
    BY <1>3, <1>9 DEF NothingHeld
  <2>0. Holds(s, c, e, s2)
    BY <1>4 DEF Holds
  <2>2. Coming(q, s) = q /\ Coming(q, s2) = Append(q, e) /\ Alone(s2)
    BY <1>3, <2>0, <2>1, RunComing, Zenon
  <2>3. Mirrors(d, rs, q, a)
    BY <1>2, <1>9, <2>2, Zenon DEF MirrorInv
  <2>4. Mirrors(d2, rs2, Append(q, e), a)
    BY <1>3, <1>5, <1>6, <2>3, RanMirrors
  <2> QED
    BY <1>2, <2>2, <2>4, Zenon DEF MirrorInv
<1> QED
  BY <1>7, <1>8, <1>9

LEMMA HandleMirrors == ASSUME TreeInv, MirrorInv, HandleRequest PROVE MirrorInv'
<1>1. toCore \in Seq(Request) /\ toCore # <<>>
  BY QueuesTyped DEF HandleRequest
<1>2. PICK r \in Request : r = Head(toCore)
  BY <1>1, QueueParts
<1>3. "tui" \in Senders
  BY DEF Senders
<1>4. Run("tui", r) /\ toCore' = Tail(toCore) /\ UNCHANGED <<toTui, app, scrambled>>
  BY <1>2 DEF HandleRequest
<1> QED
  BY <1>1, <1>2, <1>3, <1>4, RunMirrors

LEMMA OtherMirrors == ASSUME TreeInv, MirrorInv, OtherChange PROVE MirrorInv'
<1>1. PICK r \in OtherRequests : Run("other", r)
  BY DEF OtherChange
<1>2. r \in Request
  BY OthersTyped
<1>3. "other" \in Senders
  BY DEF Senders
<1>4. toCore' = toCore /\ UNCHANGED <<toTui, app, scrambled>>
  BY DEF OtherChange
<1> QED
  BY <1>1, <1>2, <1>3, <1>4, RunMirrors

LEMMA BroadcastMirrors == ASSUME TreeInv, MirrorInv, NEW c \in Senders, Broadcast(c) PROVE MirrorInv'
<1>1. PICK s, s2, q : s = sending /\ s2 = sending' /\ q = toTui
  OBVIOUS
<1>2. s \in [Senders -> Event \cup {NoEvent}] /\ s[c] # NoEvent /\ s2 = [s EXCEPT ![c] = NoEvent]
      /\ toTui' = Append(q, s[c]) /\ UNCHANGED <<db, toCore, app, overlapped, scrambled>>
  BY <1>1, QueuesTyped DEF Broadcast
<1>3. Alone(s) => Coming(Append(q, s[c]), s2) = Coming(q, s) /\ Alone(s2)
  BY <1>2, SentComing, Zenon
<1> QED
  BY <1>1, <1>2, <1>3, Zenon DEF MirrorInv

LEMMA EventMirrors == ASSUME TreeInv, MirrorInv, HandleCoreEvent PROVE MirrorInv'
<1>1. toTui \in Seq(Event) /\ toTui # <<>> /\ app \in Interface /\ Good(app) /\ toCore \in Seq(Request)
  BY QueuesTyped, AppTyped DEF HandleCoreEvent
<1>2. PICK e \in Event : e = Head(toTui)
  BY <1>1, QueueParts
<1>3. PICK b \in Apply(app, e) : Loop(b, <<>>)
  BY <1>2, Zenon DEF HandleCoreEvent
<1>4. UNCHANGED <<db, sending, overlapped>> /\ toTui' = Tail(toTui)
      /\ scrambled' = (scrambled \/ \E x, y \in Apply(app, e) : x # y)
  BY <1>2 DEF HandleCoreEvent
<1>5. Good(b)
  BY <1>1, <1>3, ApplyGood
<1>6. PICK none : none = <<>> /\ none \in Seq(Request)
  <2>1. <<>> \in Seq(Request)
    OBVIOUS
  <2> QED
    BY <2>1, Zenon
<1>7. Loop(b, none)
  BY <1>3, <1>6, Zenon
<1>8. Alike2(b, app') /\ \A w \in ToSet(toCore) : w \in ToSet(toCore')
  BY <1>1, <1>5, <1>6, <1>7, LoopSame, Zenon
<1>9. CASE overlapped \/ scrambled \/ \E x, y \in Apply(app, e) : x # y
  BY <1>4, <1>9, Zenon DEF MirrorInv
<1>10. CASE ~(overlapped \/ scrambled \/ \E x, y \in Apply(app, e) : x # y)
  <2>1. PICK a, d, s, q, rs, rs2, c : /\ a = app /\ d = db /\ s = sending /\ q = toTui /\ rs = toCore /\ rs2 = toCore'
                                      /\ c = app'
    OBVIOUS
  <2>2. PICK es : es = Coming(q, s) /\ es \in Seq(Event)
    BY <2>1, QueuesTyped
  <2>3. es # <<>> /\ Coming(Tail(q), s) = Tail(es) /\ Head(es) = e
    BY <1>1, <1>2, <2>1, <2>2, QueuesTyped, TakenComing, Zenon
  <2>4. Mirrors(d, rs, es, a) /\ Alone(s)
    BY <1>10, <2>1, <2>2, Zenon DEF MirrorInv
  <2>5. b \in Apply(a, e) /\ \A x \in Apply(a, e) : x = b
    BY <1>3, <1>10, <2>1, Zenon
  <2>6. a \in Interface /\ Alike2(b, c) /\ \A w \in ToSet(rs) : w \in ToSet(rs2)
    BY <1>1, <1>8, <2>1, Zenon
  <2>7. Mirrors(d, rs2, Tail(es), c)
    BY <2>2, <2>3, <2>4, <2>5, <2>6, ArrivedMirrors, Zenon
  <2> QED
    BY <1>4, <2>1, <2>3, <2>4, <2>7, Zenon DEF MirrorInv
<1> QED
  BY <1>9, <1>10

LEMMA DropMirrors == ASSUME TreeInv, MirrorInv, Reconnected PROVE MirrorInv'
<1>1. PICK d, s, s2, q, rs, rs2, a, b : /\ d = db /\ s = sending /\ s2 = sending' /\ q = toTui /\ rs = toCore
                                        /\ rs2 = toCore' /\ a = app /\ b = app'
  OBVIOUS
<1>2. q \in Seq(Event) /\ s \in [Senders -> Event \cup {NoEvent}]
  BY <1>1, QueuesTyped
<1>3. s2 = [s EXCEPT !["tui"] = NoEvent] /\ rs2 = <<[k |-> "state"]>> /\ toTui' = <<>>
      /\ UNCHANGED <<db, overlapped, scrambled>>
  BY <1>1 DEF Reconnected
<1>4. Alone(s) /\ Mirrors(d, rs, Coming(q, s), a) => Mirrors(d, rs2, Coming(<<>>, s2), b) /\ Alone(s2)
  BY <1>2, <1>3, DroppedMirrors, Zenon
<1> QED
  BY <1>1, <1>3, <1>4, Zenon DEF MirrorInv

-----------------------------------------------------------------------------
(* Keys and clicks: but for a move they leave the copy alone.              *)

LEMMA SelfSame == \A a : Alike2(a, a)
  BY DEF Alike2

LEMMA ClampAlike == ASSUME NEW a \in Interface PROVE Alike2(a, ClampCursor(a))
  BY ClampGood DEF Alike2
LEMMA AtAlike == ASSUME NEW a, Good(a), NEW gi, NEW pi PROVE Alike2(a, At(a, gi, pi))
<1>1. a \in Interface
  BY DEF Good
<1> QED
  BY <1>1, AtGood DEF Alike2

\* Two or three fields are set, and the cursor is brought back into the tree.
LEMMA FieldsSame ==
  ASSUME NEW a \in Interface
  PROVE  /\ \A p, f : Alike2(a, [a EXCEPT !.popup = p, !.focus = f])
         /\ \A q, n : Alike2(a, [a EXCEPT !.query = q, !.cursor = n])
         /\ \A m, q, n : Alike2(a, [a EXCEPT !.mode = m, !.query = q, !.cursor = n])
         /\ Alike2(a, [a EXCEPT !.cursor = 1, !.scroll = 0])
  BY DEF Interface, Alike2

LEMMA DownSame == ASSUME NEW a \in Interface PROVE Alike2(a, CursorDown(a))
<1>1. PICK n : n = a.cursor + 1
  OBVIOUS
<1>2. CursorDown(a) = a \/ CursorDown(a) = [a EXCEPT !.cursor = n]
  BY <1>1, Zenon DEF CursorDown
<1> QED
  BY <1>2, FieldSame, SelfSame, Zenon

LEMMA MovesSame == ASSUME NEW a \in Interface, NEW b \in CursorMoves(a) PROVE Alike2(a, b)
<1>1. PICK m, n : m = (IF a.cursor > 1 THEN a.cursor - 1 ELSE 1) /\ n = (IF Len(Rows(a)) > 0 THEN Len(Rows(a)) ELSE a.cursor)
  BY Zenon
<1>2. \/ b = CursorDown(a) \/ b = [a EXCEPT !.cursor = m] \/ b = [a EXCEPT !.cursor = n]
      \/ b = [a EXCEPT !.cursor = 1, !.scroll = 0]
  BY <1>1 DEF CursorMoves
<1> QED
  BY <1>2, DownSame, FieldSame, FieldsSame, Zenon

LEMMA ToggleSame == ASSUME NEW a \in Interface, NEW g \in Nat PROVE Alike2(a, ToggleCollapsed(a, g))
<1>1. PICK x : x = IF g \in a.collapsed THEN a.collapsed \ {g} ELSE a.collapsed \cup {g}
  BY Zenon
<1>2. x \in SUBSET Nat
  BY <1>1, InterfaceParts
<1>3. PICK b : b = [a EXCEPT !.collapsed = x]
  BY Zenon
<1>4. ToggleCollapsed(a, g) = ClampCursor(b)
  BY <1>1, <1>3, Zenon DEF ToggleCollapsed
<1>5. b \in Interface /\ Alike2(a, b)
  BY <1>2, <1>3, FieldsTyped, FieldSame, Zenon
<1> QED
  BY <1>4, <1>5, ClampAlike, AlikeAgain

LEMMA LeftSame == ASSUME NEW a, Good(a) PROVE Alike2(a, CursorLeft(a))
<1>1. a \in Interface /\ Row(a).g \in Nat
  BY RowTyped DEF Good
<1>2. PICK x \in SUBSET Nat : x = a.collapsed \cup {Row(a).g}
  BY <1>1, InterfaceParts, Zenon
<1>3. PICK b : b = [a EXCEPT !.collapsed = x]
  BY Zenon
<1>4. \/ CursorLeft(a) = [a EXCEPT !.focus = "left"] \/ CursorLeft(a) = ClampCursor(b)
      \/ CursorLeft(a) = At(a, Row(a).gi, 0)
  BY <1>2, <1>3, Zenon DEF CursorLeft
<1>5. b \in Interface /\ Alike2(a, b)
  BY <1>1, <1>3, FieldsTyped, FieldSame, Zenon
<1>6. Alike2(a, ClampCursor(b))
  BY <1>5, ClampAlike, AlikeAgain
<1>7. Alike2(a, At(a, Row(a).gi, 0))
  BY AtAlike
<1> QED
  BY <1>1, <1>4, <1>6, <1>7, FieldSame, Zenon

LEMMA RightSame == ASSUME NEW a, Good(a) PROVE Alike2(a, CursorRight(a))
<1>1. a \in Interface /\ Row(a).g \in Nat
  BY RowTyped DEF Good
<1>2. \/ CursorRight(a) = a \/ CursorRight(a) = ToggleCollapsed(a, Row(a).g)
      \/ CursorRight(a) = CursorDown(a) \/ CursorRight(a) = [a EXCEPT !.focus = "right"]
  BY Zenon DEF CursorRight
<1> QED
  BY <1>1, <1>2, ToggleSame, DownSame, FieldSame, SelfSame, Zenon

LEMMA CursorMirrors == ASSUME TreeInv, MirrorInv, MoveCursor PROVE MirrorInv'
<1>1. PICK a \in CursorMoves(app) : Key(a)
  BY DEF MoveCursor
<1>2. Good(a) /\ Alike2(app, a)
  BY <1>1, AppTyped, MovesGood, MovesSame
<1> QED
  BY <1>1, <1>2, KeyMirrors

LEMMA FoldMirrors == ASSUME TreeInv, MirrorInv, Fold PROVE MirrorInv'
<1>1. PICK a : Key(a) /\ (a = CursorLeft(app) \/ a = CursorRight(app))
  BY Zenon DEF Fold
<1>2. Good(a) /\ Alike2(app, a)
  BY <1>1, AppTyped, LeftGood, RightGood, LeftSame, RightSame
<1> QED
  BY <1>1, <1>2, KeyMirrors

LEMMA FocusMirrors == ASSUME TreeInv, MirrorInv, Focus PROVE MirrorInv'
<1>1. Good(app) /\ app \in Interface
  BY AppTyped
<1>2. PICK f : f = CASE app.focus = "right" -> "left"
                     [] app.focus = "left" /\ Row(app) # NoRow -> "right"
                     [] OTHER -> app.focus
  OBVIOUS
<1>3. f \in {"left", "right", "popup"}
  BY <1>1, <1>2, InterfaceParts
<1>4. PICK n : n = IF app.query = "none" THEN app.cursor ELSE 1
  OBVIOUS
<1>5. n \in Nat /\ n # 0
  BY <1>1, <1>4, InterfaceParts
<1>6. PICK a : Key(a) /\ \/ a = [app EXCEPT !.focus = f] \/ a = [app EXCEPT !.focus = "left"]
                         \/ a = ClampCursor([app EXCEPT !.query = "none", !.cursor = n])
  BY <1>2, <1>4, Zenon DEF Focus
<1>7. PICK b, c : b = [app EXCEPT !.query = "none"] /\ c = [b EXCEPT !.cursor = n]
  BY Zenon
<1>8. b \in Interface
  BY <1>1, <1>7, FieldsTyped, Zenon
<1>9. c \in Interface
  BY <1>5, <1>7, <1>8, CursorSet, Zenon
<1>10. c = [app EXCEPT !.query = "none", !.cursor = n]
  BY <1>7
<1>11. Good(ClampCursor(c)) /\ Alike2(app, ClampCursor(c))
  <2>1. Alike2(app, b) /\ Alike2(b, c)
    BY <1>1, <1>7, <1>8, FieldSame, Zenon
  <2>2. Alike2(app, c) /\ Alike2(c, ClampCursor(c))
    BY <1>9, <2>1, ClampAlike, AlikeAgain
  <2> QED
    BY <1>9, <2>2, ClampGood, AlikeAgain
<1>12. /\ Good([app EXCEPT !.focus = f]) /\ Good([app EXCEPT !.focus = "left"])
       /\ Alike2(app, [app EXCEPT !.focus = f]) /\ Alike2(app, [app EXCEPT !.focus = "left"])
  BY <1>1, <1>3, OthersKept, FieldSame, Zenon
<1>13. Good(a) /\ Alike2(app, a)
  BY <1>6, <1>10, <1>11, <1>12, Zenon
<1> QED
  BY <1>6, <1>13, KeyMirrors

LEMMA SearchMirrors == ASSUME TreeInv, MirrorInv, StartSearch \/ SearchKey PROVE MirrorInv'
<1>1. Good(app) /\ app \in Interface
  BY AppTyped
<1>2. PICK b : b = [app EXCEPT !.mode = FALSE, !.query = "none", !.cursor = 1]
  OBVIOUS
<1>3. Good(b) /\ Alike2(app, b) /\ b \in Interface
  BY <1>1, <1>2, SearchGood, FieldsSame, Zenon DEF Good
<1>4. Good(ClampCursor(b)) /\ Alike2(app, ClampCursor(b))
  BY <1>3, ClampGood, ClampAlike, AlikeAgain
<1>5. PICK a : Key(a) /\ \/ a = [app EXCEPT !.mode = TRUE, !.query = "all", !.cursor = 1]
                         \/ \E q \in {"all", "some"} : a = [app EXCEPT !.query = q, !.cursor = 1]
                         \/ a = ClampCursor(b) \/ a = [app EXCEPT !.mode = FALSE]
  BY <1>2, Zenon DEF StartSearch, SearchKey
<1>6. CASE a = [app EXCEPT !.mode = TRUE, !.query = "all", !.cursor = 1]
  <2>1. Good(a)
    BY <1>1, <1>6, SearchGood, Zenon
  <2>2. Alike2(app, a)
    BY <1>1, <1>6, FieldsSame, Zenon
  <2> QED
    BY <1>5, <2>1, <2>2, KeyMirrors
<1>7. ASSUME NEW q \in {"all", "some"}, a = [app EXCEPT !.query = q, !.cursor = 1] PROVE MirrorInv'
  <2>1. Good(a)
    BY <1>1, <1>7, SearchGood, Zenon
  <2>2. Alike2(app, a)
    BY <1>1, <1>7, FieldsSame, Zenon
  <2> QED
    BY <1>5, <2>1, <2>2, KeyMirrors
<1>8. CASE a = ClampCursor(b)
  BY <1>4, <1>5, <1>8, KeyMirrors
<1>9. CASE a = [app EXCEPT !.mode = FALSE]
  <2>1. Good(a)
    BY <1>1, <1>9, OthersKept, Zenon
  <2>2. Alike2(app, a)
    BY <1>1, <1>9, FieldSame, Zenon
  <2> QED
    BY <1>5, <2>1, <2>2, KeyMirrors
<1> QED
  BY <1>5, <1>6, <1>7, <1>8, <1>9

LEMMA EnterMirrors == ASSUME TreeInv, MirrorInv, Enter PROVE MirrorInv'
<1>1. Good(app) /\ app \in Interface /\ Row(app).g \in Nat
  BY AppTyped
<1>2. PICK a, rs : a = ToggleCollapsed(app, Row(app).g) /\ rs = Connect(app)
  OBVIOUS
<1>3. Good(a) /\ Alike2(app, a) /\ rs \in Seq(Request)
  BY <1>1, <1>2, ToggleGood, ToggleSame, ConnectTyped
<1>4. Ask(app, rs) \/ Key(a)
  BY <1>2, Zenon DEF Enter
<1>5. Alike2(app, app)
  BY SelfSame
<1> QED
  BY <1>1, <1>3, <1>4, <1>5, KeyMirrors, AskMirrors

LEMMA PopupMirrors == ASSUME TreeInv, MirrorInv, OpenPopup PROVE MirrorInv'
<1>1. PICK p : (p \in Popups \/ p \in Help) /\ Key([app EXCEPT !.popup = p, !.focus = "popup"])
  BY Zenon DEF OpenPopup
<1>2. p \in Popup
  BY <1>1, PopupsTyped
<1>3. PICK a : a = [app EXCEPT !.popup = p, !.focus = "popup"]
  OBVIOUS
<1>4. Good(a) /\ Alike2(app, a)
  BY <1>2, <1>3, AppTyped, PopupGood, FieldsSame, Zenon
<1>5. Key(a)
  BY <1>1, <1>3, Zenon
<1> QED
  BY <1>4, <1>5, KeyMirrors

LEMMA ClosedAlike == TreeInv => Alike2(app, Closed)
<1>1. TreeInv => \A p, f : Alike2(app, [app EXCEPT !.popup = p, !.focus = f])
  BY AppTyped, FieldsSame, Zenon
<1>2. PICK p : p = NoPopup
  OBVIOUS
<1>3. TreeInv => Alike2(app, [app EXCEPT !.popup = p, !.focus = "left"])
  BY <1>1, Zenon
<1> QED
  BY <1>2, <1>3, Zenon DEF Closed

LEMMA ClosedMirrors == ASSUME TreeInv, MirrorInv, PopupEsc \/ SwitchTab PROVE MirrorInv'
<1>1. PICK a : a = Closed
  OBVIOUS
<1>2. Key(a)
  BY <1>1, Zenon DEF PopupEsc, SwitchTab
<1>3. Good(a) /\ Alike2(app, a)
  BY <1>1, ClosedGood, ClosedAlike
<1> QED
  BY <1>2, <1>3, KeyMirrors

LEMMA PopupEnterMirrors == ASSUME TreeInv, MirrorInv, PopupEnter PROVE MirrorInv'
<1>1. PICK a, rs : a = Closed /\ rs \in Seq(Request) /\ Ask(a, rs)
  BY PopupEnterTyped
<1>2. Good(a) /\ Alike2(app, a)
  BY <1>1, ClosedGood, ClosedAlike
<1> QED
  BY <1>1, <1>2, AskMirrors

LEMMA UpdateMirrors == ASSUME TreeInv, MirrorInv, AskUpdate PROVE MirrorInv'
<1>1. Good(app) /\ Row(app).g \in Nat
  BY AppTyped
<1>2. PICK rs : rs = <<[k |-> "refresh", g |-> Row(app).g]>>
  BY Zenon
<1>3. rs \in Seq(Request)
  BY <1>1, <1>2, RequestMade, OneTyped, Zenon
<1>4. Ask(app, rs)
  BY <1>2, Zenon DEF AskUpdate
<1>5. Alike2(app, app)
  BY SelfSame
<1> QED
  BY <1>1, <1>3, <1>4, <1>5, AskMirrors

LEMMA ClickMirrors == ASSUME TreeInv, MirrorInv, NEW row \in 1 .. Height, ClickTree(row) PROVE MirrorInv'
<1>1. Good(app) /\ app \in Interface
  BY AppTyped
<1>2. PICK a : a = [app EXCEPT !.focus = "left"]
  BY Zenon
<1>3. Good(a) /\ Alike2(app, a)
  BY <1>1, <1>2, OthersKept, FieldSame, Zenon
<1>4. a \in Interface
  BY <1>3 DEF Good
<1>5. Row(a).g \in Nat
  BY <1>4, RowTyped
<1>6. PICK n : n = Target(row)
  OBVIOUS
<1>7. PICK b, c, rs : b = [a EXCEPT !.cursor = n] /\ c = ToggleCollapsed(a, Row(a).g) /\ rs = Connect(a)
  BY Zenon
<1>8. Key(a) \/ (n \in DOMAIN Rows(a) /\ Key(b)) \/ Key(c) \/ Ask(a, rs)
  BY <1>2, <1>6, <1>7, Zenon DEF ClickTree
<1>9. Good(c) /\ Alike2(app, c) /\ rs \in Seq(Request)
  BY <1>3, <1>4, <1>5, <1>7, ToggleGood, ToggleSame, AlikeAgain, ConnectTyped
<1>10. ASSUME n \in DOMAIN Rows(a) PROVE Good(b)
  <2>1. n \in Nat /\ n # 0 /\ n <= Len(Rows(a))
    BY <1>4, <1>10, RowsTyped
  <2> QED
    BY <1>4, <1>7, <2>1, CursorSet
<1>11. Alike2(app, b)
  BY <1>3, <1>4, <1>7, FieldSame, AlikeAgain, Zenon
<1> QED
  BY <1>3, <1>8, <1>9, <1>10, <1>11, KeyMirrors, AskMirrors

LEMMA MouseMirrors == ASSUME TreeInv, MirrorInv, Mouse PROVE MirrorInv'
<1>1. CASE ClickDetails
  <2>1. PICK a : a = [app EXCEPT !.focus = "right"]
    BY Zenon
  <2>2. Good(a) /\ Alike2(app, a)
    BY <2>1, AppTyped, OthersKept, FieldSame, Zenon
  <2>3. Key(a)
    BY <1>1, <2>1, Zenon DEF ClickDetails
  <2> QED
    BY <2>2, <2>3, KeyMirrors
<1>2. CASE \E row \in 1 .. Height : ClickTree(row)
  BY <1>2, ClickMirrors
<1> QED
  BY <1>1, <1>2 DEF Mouse

-----------------------------------------------------------------------------
(* A move changes the copy at once; the request it sends leaves that open. *)

Opens(a, f, L, f2, L2) ==
  /\ (f => f2) /\ (OnGroup(a) => f2)
  /\ (\A g : g \in L => g \in L2) /\ (~OnGroup(a) => Row(a).g \in L2)

LEMMA GroupsSwapped ==
  ASSUME NEW a \in Interface, NEW b, Swapped(a, b), OnGroup(a), NEW d, NEW f, NEW L, Copies(a, d, f, L),
         NEW f2, NEW L2, Opens(a, f, L, f2, L2)
  PROVE  Copies(b, d, f2, L2)
<1>1. PICK m \in DOMAIN a.groups : b.groups = SwapAt(a.groups, Row(a).gi, m) /\ Row(a).gi \in DOMAIN a.groups /\ b.conn = a.conn
  BY DEF Swapped
<1>2. PICK gs, i : gs = a.groups /\ i = Row(a).gi /\ gs \in Seq(Group) /\ i \in DOMAIN gs /\ m \in DOMAIN gs
  BY <1>1, InterfaceParts
<1>3. PICK hs : hs = SwapAt(gs, i, m) /\ hs = b.groups
  BY <1>1, <1>2, Zenon
<1>4. Tree(gs, d.order, d.ps, f, L) /\ a.conn = d.conn
  BY <1>2, Zenon DEF Copies
<1>5. Unique(gs) /\ ToSet(Ids(gs)) = ToSet(d.order)
  BY <1>4, Zenon DEF Tree
<1>6. Unique(SwapAt(gs, i, m)) /\ ToSet(SwapAt(gs, i, m)) = ToSet(gs)
  BY <1>2, <1>5, SwapMatch
<1>7. Unique(hs) /\ ToSet(hs) = ToSet(gs)
  BY <1>3, <1>6, Zenon
<1>8. ToSet(Ids(hs)) = ToSet(d.order)
  <2>1. ToSet(Ids(hs)) = {x.id : x \in ToSet(hs)} /\ ToSet(Ids(gs)) = {x.id : x \in ToSet(gs)}
    BY IdsSet
  <2> QED
    BY <1>5, <1>7, <2>1, Zenon
<1>9. f2 /\ \A g : g \in L => g \in L2
  BY Zenon DEF Opens
<1>10. ASSUME NEW x \in ToSet(hs) PROVE Match(x.ps, d.ps[x.id], x.id \in L2)
  <2>1. Match(x.ps, d.ps[x.id], x.id \in L)
    BY <1>4, <1>7, TreeOf
  <2> QED
    BY <1>9, <2>1, Zenon DEF Match
<1>11. f2 \/ Ids(hs) = d.order
  BY <1>9
<1>12. Tree(hs, d.order, d.ps, f2, L2)
  BY <1>7, <1>8, <1>10, <1>11, TreeMade
<1> QED
  BY <1>1, <1>3, <1>4, <1>12, Zenon DEF Copies

LEMMA ProfilesSwapped ==
  ASSUME NEW a \in Interface, NEW b, Swapped(a, b), ~OnGroup(a), NEW d \in Database, Sound(d), NEW f, NEW L, Copies(a, d, f, L),
         NEW f2, NEW L2, Opens(a, f, L, f2, L2)
  PROVE  Copies(b, d, f2, L2)
<1>1. PICK i, g : i = Row(a).gi /\ g = Row(a).g
  OBVIOUS
<1>2. i \in DOMAIN a.groups /\ g = a.groups[i].id /\ b.conn = a.conn
  BY <1>1 DEF Swapped
<1>3. PICK p, m : p \in DOMAIN a.groups[i].ps /\ m \in DOMAIN a.groups[i].ps
                  /\ b.groups = WithProfiles(a, i, SwapAt(a.groups[i].ps, p, m)).groups
  BY <1>1 DEF Swapped
<1>4. Tree(a.groups, d.order, d.ps, f, L) /\ a.conn = d.conn
  BY Zenon DEF Copies
<1>5. Unique(a.groups) /\ ToSet(Ids(a.groups)) = ToSet(d.order)
  BY <1>4, Zenon DEF Tree
<1>6. g \in GidsOf(d)
  <2>1. g \in ToSet(Ids(a.groups))
    BY <1>2, IdsSet
  <2> QED
    BY <1>5, <2>1 DEF GidsOf
<1>7. KnowsGroup(a, g) /\ ProfilesOf(a, g) \in Seq(Profile) /\ Match(ProfilesOf(a, g), d.ps[g], g \in L)
  BY <1>6, PsOf
<1>8. GroupIndex(a, g) = i
  <2>1. GroupIndex(a, g) \in DOMAIN a.groups /\ a.groups[GroupIndex(a, g)].id = g
    BY <1>7, KnownGroup
  <2> QED
    BY <1>2, <1>5, <2>1, Zenon DEF Unique
<1>9. PICK ps : ps = a.groups[i].ps /\ ps = ProfilesOf(a, g)
  BY <1>8, Zenon DEF ProfilesOf
<1>10. PICK qs : qs = SwapAt(ps, p, m)
  OBVIOUS
<1>11. ps \in Seq(Profile) /\ Unique(ps) /\ ToSet(ps) = ToSet(d.ps[g]) /\ p \in DOMAIN ps /\ m \in DOMAIN ps
  BY <1>3, <1>7, <1>9, Zenon DEF Match
<1>12. qs \in Seq(Profile)
  BY <1>10, <1>11, SwapTyped
<1>13. Unique(qs) /\ ToSet(qs) = ToSet(ps)
  <2>1. Unique(SwapAt(ps, p, m)) /\ ToSet(SwapAt(ps, p, m)) = ToSet(ps)
    BY <1>11, SwapMatch
  <2> QED
    BY <1>10, <2>1, Zenon
<1>14. g \in L2 /\ \A x : x \in L => x \in L2
  BY <1>1, Zenon DEF Opens
<1>15. PICK rs : rs = d.ps[g]
  OBVIOUS
<1>16. Match(qs, rs, g \in L2)
  BY <1>11, <1>13, <1>14, <1>15, Zenon DEF Match
<1>17. d.ps = [d.ps EXCEPT ![g] = rs]
  BY <1>15 DEF Database
<1>18. \A x \in GidsOf(d) : x # g /\ x \in L => x \in L2
  BY <1>14
<1>19. Copies(SetProfiles(a, g, qs), d, f, L2)
  BY <1>12, <1>16, <1>17, <1>18, SetCopies
<1>20. PICK c : c = SetProfiles(a, g, qs) /\ c = WithProfiles(a, i, qs)
  BY <1>7, <1>8, Zenon DEF SetProfiles, WithProfiles
<1>21. Alike2(c, b)
  <2>1. c.conn = a.conn
    <3>1. WithProfiles(a, i, qs).conn = a.conn
      BY <1>2, <1>12, IndexTyped, Zenon
    <3> QED
      BY <1>20, <3>1, Zenon
  <2>2. b.groups = c.groups
    BY <1>3, <1>9, <1>10, <1>20, Zenon
  <2> QED
    BY <1>2, <2>1, <2>2 DEF Alike2
<1>22. Copies(c, d, f, L2)
  BY <1>19, <1>20, Zenon
<1>23. Copies(b, d, f, L2)
  BY <1>21, <1>22, CopiesSame
<1>24. f => f2
  BY Zenon DEF Opens
<1> QED
  BY <1>23, <1>24, Zenon DEF Copies, Tree

\* The request that a move of the row under the cursor sends.
Says(a, r) ==
  IF OnGroup(a) THEN r.k = "groups" ELSE r.k = "reorder" /\ r.g = Row(a).g

LEMMA SwappedMirrors ==
  ASSUME NEW a \in Interface, NEW b, Swapped(a, b), NEW r, Says(a, r), NEW d, NEW es \in Seq(Event),
         NEW rs, NEW rs2, \A w \in ToSet(rs) : w \in ToSet(rs2), r \in ToSet(rs2), Mirrors(d, rs, es, a)
  PROVE  Mirrors(d, rs2, es, b)
<1>1. PICK W, W2 : W = Way(rs, es) /\ W2 = Way(rs2, es)
  OBVIOUS
<1>2. Carried(W, W2, {}) /\ r \in W2
  BY <1>1, MoreCarried DEF Way
<1>3. PICK h : Chain(h, es, d) /\ (Asked(W) \/ Fits(a, h[1], W, d))
  BY <1>1 DEF Mirrors
<1>4. CASE Asked(W)
  BY <1>1, <1>2, <1>3, <1>4, Zenon DEF Carried, Mirrors
<1>5. CASE Fits(a, h[1], W, d)
  <2>1. PICK x : x = h[1]
    OBVIOUS
  <2>2. x \in Database /\ Sound(x)
    BY <1>3, <2>1, ChainStart
  <2>3. PICK f, f2, L, L2 : /\ f = Free(W) /\ f2 = Free(W2) /\ L = Loose(W) \cup (Nat \ GidsOf(d))
                            /\ L2 = Loose(W2) \cup (Nat \ GidsOf(d))
    BY Zenon
  <2>4. Copies(a, x, f, L)
    BY <1>5, <2>1, <2>3, Zenon DEF Fits
  <2>5. OnGroup(a) => f2
    BY <1>2, <2>3 DEF Says, Free
  <2>6. ~OnGroup(a) => Row(a).g \in L2
    <3>1. Row(a).g \in Nat
      BY RowTyped
    <3> QED
      BY <1>2, <2>3, <3>1 DEF Says, Loose
  <2>7. (f => f2) /\ \A g : g \in L => g \in L2
    BY <1>2, <2>3 DEF Carried
  <2>8. Opens(a, f, L, f2, L2)
    BY <2>5, <2>6, <2>7, Zenon DEF Opens
  <2>9. Copies(b, x, f2, L2)
    BY <2>2, <2>4, <2>8, GroupsSwapped, ProfilesSwapped
  <2>10. Fits(b, h[1], W2, d)
    BY <2>1, <2>3, <2>9, Zenon DEF Fits
  <2> QED
    BY <1>1, <1>3, <2>10, Zenon DEF Mirrors
<1> QED
  BY <1>3, <1>4, <1>5

LEMMA MoveMirrors == ASSUME TreeInv, MirrorInv, MoveItem PROVE MirrorInv'
<1>1. Good(app) /\ app \in Interface
  BY AppTyped
<1>2. PICK k : Moved(app, k) # app /\ Ask(Moved(app, k), MoveRequest(app, Moved(app, k)))
  BY DEF MoveItem
<1>3. PICK b : b = Moved(app, k)
  OBVIOUS
<1>4. Good(b) /\ Swapped(app, b)
  BY <1>1, <1>2, <1>3, MovedGood
<1>5. Row(app).gi \in DOMAIN b.groups
  BY <1>1, <1>2, <1>3, MovedGood DEF Swapped
<1>6. PICK ts : ts = MoveRequest(app, b)
  OBVIOUS
<1>7. ts \in Seq(Request)
  BY <1>1, <1>4, <1>5, <1>6, MoveRequestTyped DEF Good
<1>8. Ask(b, ts)
  BY <1>2, <1>3, <1>6, Zenon
<1>9. PICK r : ts = <<r>> /\ Says(app, r)
  BY <1>6 DEF MoveRequest, Says
<1>10. Loop(b, ts) /\ UNCHANGED <<db, sending, toTui, overlapped, scrambled>>
  BY <1>8 DEF Ask, Ui
<1>11. toCore \in Seq(Request)
  BY QueuesTyped
<1>12. Alike2(b, app') /\ \A w : w \in ToSet(toCore) \/ w \in ToSet(ts) => w \in ToSet(toCore')
  BY <1>4, <1>7, <1>10, <1>11, LoopSame
<1>13. r \in ToSet(ts)
  BY <1>9, OneSet
<1>14. PICK d, rs, rs2, es, a, c : /\ d = db /\ rs = toCore /\ rs2 = toCore' /\ es = Coming(toTui, sending)
                                   /\ a = app /\ c = app'
  OBVIOUS
<1>15. (\A w \in ToSet(rs) : w \in ToSet(rs2)) /\ r \in ToSet(rs2) /\ a \in Interface /\ Swapped(a, b) /\ Says(a, r)
       /\ Alike2(b, c) /\ es \in Seq(Event)
  BY <1>1, <1>4, <1>9, <1>12, <1>13, <1>14, QueuesTyped, Zenon
<1>16. Mirrors(d, rs, es, a) => Mirrors(d, rs2, es, b)
  BY <1>15, SwappedMirrors
<1>17. Mirrors(d, rs2, es, b) => Mirrors(d, rs2, es, c)
  BY <1>15, AskedMore
<1> QED
  BY <1>10, <1>14, <1>16, <1>17, Zenon DEF MirrorInv

LEMMA KeysMirror == ASSUME TreeInv, MirrorInv, Keys PROVE MirrorInv'
<1> QED
  BY CursorMirrors, FocusMirrors, EnterMirrors, FoldMirrors, MoveMirrors, SearchMirrors, PopupMirrors, ClosedMirrors,
     PopupEnterMirrors, UpdateMirrors, Zenon DEF Keys

LEMMA MirrorStays == MirrorInv /\ UNCHANGED treeVars => MirrorInv'
<1>1. UNCHANGED treeVars => UNCHANGED <<overlapped, scrambled, sending, db, toCore, toTui, app>>
  BY DEF treeVars
<1> QED
  BY <1>1, Zenon DEF MirrorInv

LEMMA MirrorKeeps == TreeInv /\ MirrorInv /\ [TreeNext]_treeVars => MirrorInv'
<1> SUFFICES ASSUME TreeInv, MirrorInv, [TreeNext]_treeVars PROVE MirrorInv'
  OBVIOUS
<1>1. CASE TreeNext
  <2>1. CASE \E c \in {"tui", "other"} : Broadcast(c)
    BY <2>1, BroadcastMirrors DEF Senders
  <2> QED
    BY <1>1, <2>1, HandleMirrors, OtherMirrors, EventMirrors, DropMirrors, KeysMirror, MouseMirrors DEF TreeNext
<1>2. CASE UNCHANGED treeVars
  BY <1>2, MirrorStays
<1> QED
  BY <1>1, <1>2

LEMMA FirstSound == TreeInit => Sound(db)
<1> SUFFICES ASSUME TreeInit PROVE Sound(db)
  OBVIOUS
<1>1. PICK P, L, o : /\ P = [g \in GroupNumbers |-> CASE g = 1 -> <<Prof(1, 1), Prof(2, 1)>>
                                                    [] g = 2 -> <<Prof(1, 1)>> [] OTHER -> <<>>]
                     /\ L = [g \in GroupNumbers |-> IF g = 1 THEN 2 ELSE IF g = 2 THEN 1 ELSE 0]
                     /\ o = <<1, 2>>
  BY Zenon
<1>2. db.ps = P /\ db.last = L /\ db.order = o /\ db.glast = 2
  BY <1>1 DEF TreeInit, GroupNumbers
<1>3. DOMAIN o = 1 .. 2 /\ o[1] = 1 /\ o[2] = 2
  BY <1>1
<1>4. \A i, j \in DOMAIN o : o[i] = o[j] => i = j
  BY <1>3
<1>5. \A g \in GidsOf(db) : g <= 2
  <2>1. ToSet(o) = {o[i] : i \in DOMAIN o}
    BY ToSetIs
  <2> QED
    BY <1>2, <1>3, <2>1 DEF GidsOf
<1>6. ASSUME NEW g \in GroupNumbers PROVE SoundPs(P[g], L[g])
  <2>1. PICK p, q : p = Prof(1, 1) /\ q = Prof(2, 1) /\ p.id = 1 /\ q.id = 2
    BY NewTyped
  <2>2. PICK s, t, none : s = <<p, q>> /\ t = <<p>> /\ none = <<>>
    BY Zenon
  <2>3. SoundPs(s, 2)
    <3>1. DOMAIN s = 1 .. 2 /\ s[1] = p /\ s[2] = q
      BY <2>2
    <3>2. ToSet(s) = {s[i] : i \in DOMAIN s}
      BY ToSetIs
    <3> QED
      BY <2>1, <3>1, <3>2 DEF SoundPs, Unique
  <2>4. SoundPs(t, 1)
    BY <2>1, <2>2, OneSet DEF SoundPs
  <2>5. SoundPs(none, 0)
    BY <2>2, NoneSet DEF SoundPs
  <2>6. P[g] = (CASE g = 1 -> s [] g = 2 -> t [] OTHER -> none) /\ L[g] = IF g = 1 THEN 2 ELSE IF g = 2 THEN 1 ELSE 0
    BY <1>1, <2>1, <2>2, Zenon
  <2>7. CASE g = 1
    BY <2>3, <2>6, <2>7
  <2>8. CASE g = 2
    BY <2>4, <2>6, <2>8
  <2>9. CASE g # 1 /\ g # 2
    BY <2>5, <2>6, <2>9
  <2> QED
    BY <2>7, <2>8, <2>9
<1> QED
  BY <1>2, <1>4, <1>5, <1>6, Zenon DEF Sound

LEMMA MirrorStarts == TreeInit => MirrorInv
<1> SUFFICES ASSUME TreeInit PROVE MirrorInv
  OBVIOUS
<1>1. PICK d, a, rs, q, s : d = db /\ a = app /\ rs = toCore /\ q = toTui /\ s = sending
  OBVIOUS
<1>2. d \in Database /\ Sound(d)
  BY <1>1, TreeStarts, QueuesTyped, FirstSound
<1>3. a.groups = Snapshot(d) /\ a.conn = d.conn
  BY <1>1 DEF TreeInit
<1>4. q = <<>> /\ s["tui"] = NoEvent /\ s["other"] = NoEvent
  BY <1>1 DEF TreeInit
<1>5. Coming(q, s) = <<>> /\ Alone(s)
  BY <1>4 DEF Coming, Unsent, Alone
<1>6. PICK h : Chain(h, <<>>, d) /\ h[1] = d
  BY <1>2, StartChain
<1>7. PICK es : es = <<>>
  OBVIOUS
<1>8. PICK f, L : f = Free(Way(rs, es)) /\ L = Loose(Way(rs, es)) \cup (Nat \ GidsOf(d))
  BY Zenon
<1>9. Tree(Snapshot(d), d.order, d.ps, f, L)
  BY <1>2, SnapshotTree
<1>10. Copies(a, d, f, L)
  BY <1>3, <1>9, Zenon DEF Copies
<1>11. Fits(a, h[1], Way(rs, es), d)
  BY <1>6, <1>8, <1>10, Zenon DEF Fits
<1>12. Mirrors(d, rs, Coming(q, s), a)
  BY <1>5, <1>6, <1>7, <1>11, Zenon DEF Mirrors
<1> QED
  BY <1>1, <1>5, <1>12, Zenon DEF MirrorInv

LEMMA ExactCopy ==
  ASSUME NEW a \in Interface, NEW d \in Database, NEW L, Copies(a, d, FALSE, L), \A x \in GidsOf(d) : x \notin L
  PROVE  a.groups = Snapshot(d) /\ a.conn = d.conn
<1>1. PICK gs : gs = a.groups /\ gs \in Seq(Group)
  BY InterfaceParts
<1>2. Ids(gs) = d.order /\ (\A i \in DOMAIN gs : Match(gs[i].ps, d.ps[gs[i].id], gs[i].id \in L)) /\ a.conn = d.conn
  BY <1>1, Zenon DEF Copies, Tree
<1>3. DOMAIN gs = DOMAIN d.order /\ \A i \in DOMAIN gs : d.order[i] = gs[i].id
  BY <1>2, IdsSet
<1>4. ASSUME NEW i \in DOMAIN gs PROVE gs[i] = [id |-> d.order[i], ps |-> d.ps[d.order[i]]]
  <2>1. gs[i] \in Group
    BY <1>1
  <2>2. gs[i].id \in GidsOf(d)
    <3>1. gs[i].id \in ToSet(Ids(gs))
      BY IdsSet
    <3> QED
      BY <1>2, <3>1 DEF GidsOf
  <2>3. gs[i].ps = d.ps[gs[i].id]
    BY <1>2, <2>2, Zenon DEF Match
  <2>4. PICK x : x = gs[i] /\ x \in Group
    BY <2>1
  <2>5. x = [id |-> x.id, ps |-> x.ps]
    BY <2>4 DEF Group
  <2> QED
    BY <1>3, <2>3, <2>4, <2>5, Zenon
<1>5. gs = [i \in DOMAIN gs |-> gs[i]]
  BY <1>1
<1>6. gs = Snapshot(d)
  BY <1>3, <1>4, <1>5, Zenon DEF Snapshot
<1> QED
  BY <1>1, <1>2, <1>6

\* When nothing is on the way any more, no change was made while the event of another one
\* was unsent and no order left several entries to the hash map, what handle_core_event made of the events is what the core stores:
\* whatever the user moved before the core knew, whatever other clients changed meanwhile,
\* and over a lost connection.
THEOREM CopyIsExact == TreeSpec => []MirrorsCore
<1>1. TreeInv /\ MirrorInv => MirrorsCore
  <2> SUFFICES ASSUME TreeInv, MirrorInv, Settled, ~overlapped, ~scrambled
               PROVE  app.groups = Snapshot(db) /\ app.conn = db.conn
    BY DEF MirrorsCore
  <2>1. PICK d, a, rs, q, s : d = db /\ a = app /\ rs = toCore /\ q = toTui /\ s = sending
    OBVIOUS
  <2>2. d \in Database /\ a \in Interface /\ s \in [Senders -> Event \cup {NoEvent}]
    BY <2>1, QueuesTyped
  <2>3. rs = <<>> /\ q = <<>> /\ s["tui"] = NoEvent /\ s["other"] = NoEvent
    BY <2>1, <2>2 DEF Settled, Senders
  <2>4. Coming(q, s) = <<>>
    BY <2>3 DEF Coming, Unsent
  <2>5. PICK es, none : es = <<>> /\ none = <<>> /\ ToSet(es) = {} /\ Len(es) + 1 = 1
    BY NoneSet
  <2>6. Mirrors(d, rs, es, a)
    BY <2>1, <2>4, <2>5, Zenon DEF MirrorInv
  <2>7. PICK W : W = Way(rs, es) /\ W = {}
    BY <2>3, <2>5 DEF Way
  <2>8. PICK h : Chain(h, es, d) /\ (Asked(W) \/ Fits(a, h[1], W, d))
    BY <2>6, <2>7 DEF Mirrors
  <2>9. h[1] = d
    BY <2>5, <2>8, Zenon DEF Chain
  <2>10. ~Asked(W) /\ ~Free(W) /\ Loose(W) = {}
    BY <2>7 DEF Asked, Free, Loose
  <2>11. PICK f, L : f = Free(W) /\ L = Loose(W) \cup (Nat \ GidsOf(d))
    BY Zenon
  <2>12. Copies(a, d, f, L)
    BY <2>8, <2>9, <2>10, <2>11, Zenon DEF Fits
  <2>13. Copies(a, d, FALSE, L)
    BY <2>10, <2>11, <2>12, Zenon DEF Copies, Tree
  <2>14. \A x \in GidsOf(d) : x \notin L
    BY <2>10, <2>11
  <2>15. a.groups = Snapshot(d) /\ a.conn = d.conn
    BY <2>2, <2>13, <2>14, ExactCopy, Zenon
  <2> QED
    BY <2>1, <2>15
<1> QED
  BY <1>1, TreeStarts, TreeKeeps, MirrorStarts, MirrorKeeps, PTL DEF TreeSpec

=============================================================================
