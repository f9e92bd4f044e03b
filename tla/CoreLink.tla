------------------------------ MODULE CoreLink ------------------------------
(***************************************************************************)
(* How the Rust programs find, start, lose and find again the core:        *)
(* startup of the terminal interface (main.rs), its supervised read loop   *)
(* (core_client/dispatch.rs) and its event loop, and the commands of the   *)
(* command line that start and stop the core (cli/commands/core.rs,        *)
(* cli/client.rs).                                                         *)
(*                                                                         *)
(* The core is the Go daemon: one process at a time holds core.lock and    *)
(* serves the socket; on `die` it goes on serving while it cleans up, then *)
(* unlinks the socket and exits.  Its state is a version number; every     *)
(* change is broadcast, and so is the answer to get-application-state,     *)
(* which is put together first and sent afterwards.                        *)
(***************************************************************************)
EXTENDS Naturals, Sequences

CONSTANTS
  N,          \* bound: core processes that can ever be started
  Attempts,   \* reconnect attempts of the read loop (5 in the code)
  Probes,     \* how often a starter or stopper looks at the socket (30, 100, 300)
  MaxChanges, \* bound: changes of the core's state
  MaxFaults,  \* bound: crashes and dropped connections
  MaxCmds     \* bound: commands given on the command line

ASSUME CoreLinkAssumption ==
  /\ N \in Nat \ {0} /\ Attempts \in Nat \ {0} /\ Probes \in Nat \ {0}
  /\ MaxChanges \in Nat /\ MaxFaults \in Nat /\ MaxCmds \in Nat

Procs == 1..N
NoProc == 0

VARIABLES
  transport, \* config.toml: "unix" or, with use_tcp, "tcp"
  core,      \* the core processes: their phase and protocol version
  dying,     \* processes that have been sent `die`
  truth,     \* version of the core's state
  asked,     \* processes with an unanswered get-application-state
  snap,      \* the answer being put together: its process and version
  raced,     \* history: a change was broadcast while an answer was put together
  tui,       \* the interface: program point, counter, read and write half
  wire,      \* frames between the core and the read half
  evq,       \* the channel from the read loop to the event loop
  seen,      \* version of the state the interface shows
  shown,     \* what the interface says about the link
  cli,       \* the command line: program point, counter, command, core, result
  faults, changes, cmds

vars == <<transport, core, dying, truth, asked, snap, raced, tui, wire, evq, seen,
          shown, cli, faults, changes, cmds>>
bounds == <<faults, changes, cmds>>
uiVars == <<evq, seen, shown>>

State(v) == [k |-> "state", v |-> v]
Notice(k) == [k |-> k, v |-> 0]
NoSnap == [p |-> NoProc, v |-> 0]

Alive(p) == core[p].st \in {"serving", "closing", "unlinked"}

\* connect_endpoint: the listener answers; over TCP it does so until the process
\* exits, and the hello handshake refuses another protocol version.
Connects(p) ==
  \/ transport = "unix" /\ core[p].st \in {"serving", "closing"}
  \/ transport = "tcp" /\ Alive(p) /\ core[p].proto = "new"
CanConnect == \E p \in Procs : Connects(p)
Server == CHOOSE p \in Procs : Connects(p)

Init ==
  /\ transport \in {"unix", "tcp"}
  /\ \E first \in {"none", "old", "new"} :
       core = [p \in Procs |-> IF p = 1 /\ first # "none"
                               THEN [st |-> "serving", proto |-> first]
                               ELSE [st |-> "unborn", proto |-> "new"]]
  /\ dying = {} /\ asked = {} /\ snap = NoSnap /\ raced = FALSE
  /\ truth = 1 /\ seen = 0 /\ shown = "up"
  /\ tui = [pc |-> "query", n |-> 0, rd |-> NoProc, wr |-> NoProc]
  /\ wire = <<>> /\ evq = <<>>
  /\ cli = [pc |-> "idle", n |-> 0, cmd |-> "none", target |-> NoProc, out |-> "none"]
  /\ faults = 0 /\ changes = 0 /\ cmds = 0

-----------------------------------------------------------------------------
(* The core.                                                               *)

\* Frames reach the interface while its read half belongs to the process.
Deliver(p, v) == wire' = IF tui.rd = p THEN Append(wire, State(v)) ELSE wire

\* spawn_core: a process exists; without one left, spawning fails.
Unborn == {p \in Procs : core[p].st = "unborn"}
SpawnCore == \E p \in Unborn : /\ \A q \in Unborn : p <= q
                               /\ core' = [core EXCEPT ![p].st = "boot"]

\* acquireInstanceLock: a second core exits at once.
CoreBoot(p) ==
  /\ core[p].st = "boot"
  /\ core' = [core EXCEPT ![p].st = IF \E q \in Procs : Alive(q) THEN "dead" ELSE "serving"]
  /\ UNCHANGED <<transport, raced, dying, truth, asked, snap, tui, wire, uiVars, cli, bounds>>

\* A command of some client, the proxy or the subscription timer changes the state.
CoreChange(p) ==
  /\ core[p].st = "serving" /\ changes < MaxChanges
  /\ truth' = truth + 1 /\ changes' = changes + 1
  /\ Deliver(p, truth')
  /\ raced' = (raced \/ snap # NoSnap)
  /\ UNCHANGED <<transport, core, dying, asked, snap, tui, uiVars, cli, faults, cmds>>

\* GetApplicationState reads the groups and the status, then inspects the kill-switch.
CoreRead(p) ==
  /\ p \in asked /\ Alive(p) /\ snap = NoSnap
  /\ snap' = [p |-> p, v |-> truth]
  /\ asked' = asked \ {p}
  /\ UNCHANGED <<transport, raced, core, dying, truth, tui, wire, uiVars, cli, bounds>>

CoreSend(p) ==
  /\ snap.p = p /\ Alive(p)
  /\ Deliver(p, snap.v)
  /\ snap' = NoSnap
  /\ UNCHANGED <<transport, raced, core, dying, truth, asked, tui, uiVars, cli, bounds>>

Phase(p, from, to) ==
  /\ core[p].st = from
  /\ core' = [core EXCEPT ![p].st = to]
  /\ UNCHANGED <<transport, raced, dying, truth, tui, wire, uiVars, cli>>

CoreDie(p)    == p \in dying /\ Phase(p, "serving", "closing") /\ UNCHANGED <<asked, snap, bounds>>
CoreUnlink(p) == Phase(p, "closing", "unlinked") /\ UNCHANGED <<asked, snap, bounds>>

Gone(p) == asked' = asked \ {p} /\ snap' = IF snap.p = p THEN NoSnap ELSE snap
CoreExit(p)   == Phase(p, "unlinked", "dead") /\ Gone(p) /\ UNCHANGED bounds
CoreCrash(p)  ==
  /\ faults < MaxFaults /\ faults' = faults + 1
  /\ Alive(p) /\ Phase(p, core[p].st, "dead")
  /\ Gone(p) /\ UNCHANGED <<changes, cmds>>

-----------------------------------------------------------------------------
(* Startup of the interface: main.rs.                                      *)

Goto(pc) == tui' = [tui EXCEPT !.pc = pc, !.n = 0]
Again == tui' = [tui EXCEPT !.n = @ + 1]
StartVars == <<transport, raced, dying, truth, asked, snap, wire, uiVars, cli, bounds>>

\* query_core_state: an answer decides by its protocol version; no answer within
\* two seconds counts as no core.
TuiQuery ==
  /\ tui.pc = "query"
  /\ \/ CanConnect /\ Goto(IF core[Server].proto = "new" THEN "connect" ELSE "die")
     \/ Goto("spawn")
  /\ UNCHANGED <<core, StartVars>>

\* The old core is told to die; after half a second a new one is spawned.
TuiDie ==
  /\ tui.pc = "die"
  /\ dying' = IF CanConnect THEN dying \cup {Server} ELSE dying
  /\ Goto("spawn")
  /\ UNCHANGED <<transport, raced, core, truth, asked, snap, wire, uiVars, cli, bounds>>

TuiSpawn ==
  /\ tui.pc = "spawn"
  /\ \/ SpawnCore /\ Goto("probe")
     \/ Unborn = {} /\ Goto("failed") /\ UNCHANGED core
  /\ UNCHANGED StartVars

\* The loop of probes; one more than Probes failures ends the program.
TuiProbe ==
  /\ tui.pc = "probe"
  /\ IF CanConnect THEN Goto("connect")
     ELSE IF tui.n < Probes THEN Again ELSE Goto("failed")
  /\ UNCHANGED <<core, StartVars>>

\* connect_split, spawn_read_loop and the first get_application_state.
TuiConnect ==
  /\ tui.pc = "connect"
  /\ \/ /\ CanConnect
        /\ tui' = [pc |-> "reading", n |-> 0, rd |-> Server, wr |-> Server]
        /\ asked' = asked \cup {Server}
     \/ ~CanConnect /\ Goto("failed") /\ UNCHANGED asked
  /\ UNCHANGED <<transport, raced, core, dying, truth, snap, wire, uiVars, cli, bounds>>

-----------------------------------------------------------------------------
(* The supervised read loop: spawn_read_loop.                              *)

Post(e) == evq' = Append(evq, e) /\ UNCHANGED <<seen, shown>>
LoopVars == <<transport, raced, dying, truth, asked, snap, cli, changes, cmds>>

ReadFrame ==
  /\ tui.pc = "reading" /\ wire # <<>>
  /\ Post(Head(wire))
  /\ wire' = Tail(wire)
  /\ UNCHANGED <<core, tui, LoopVars, faults>>

\* Mutant: the loss of the connection is not announced.
ReadErrorSilent ==
  /\ tui.pc = "reading" /\ ~Alive(tui.rd) /\ wire = <<>>
  /\ tui' = [tui EXCEPT !.pc = "retry", !.n = 0, !.rd = NoProc]
  /\ UNCHANGED <<core, wire, uiVars, LoopVars, faults>>

\* recv fails: the core is gone, or it dropped this client and lives on.
ReadError ==
  /\ tui.pc = "reading"
  /\ \/ ~Alive(tui.rd) /\ wire = <<>> /\ UNCHANGED faults
     \/ Alive(tui.rd) /\ faults < MaxFaults /\ faults' = faults + 1
  /\ tui' = [tui EXCEPT !.pc = "retry", !.n = 0, !.rd = NoProc]
  /\ wire' = <<>>
  /\ Post(Notice("down"))
  /\ UNCHANGED <<core, LoopVars>>

\* connect_split: the socket is connected, and broadcasts arrive from now on.
Redial == /\ tui' = [tui EXCEPT !.pc = "swap", !.n = 0, !.rd = Server]
          /\ wire' = <<>>

Reconnect ==
  /\ tui.pc = "retry"
  /\ IF CanConnect THEN Redial
     ELSE UNCHANGED wire /\ IF tui.n + 1 < Attempts THEN Again ELSE Goto("respawn")
  /\ UNCHANGED <<core, uiVars, LoopVars, faults>>

Respawn ==
  /\ tui.pc = "respawn"
  /\ \/ SpawnCore /\ Goto("reprobe") /\ UNCHANGED uiVars
     \/ Unborn = {} /\ Goto("lost") /\ Post(Notice("over")) /\ UNCHANGED core
  /\ UNCHANGED <<wire, LoopVars, faults>>

\* Mutant: the probes of the new core never give up.
ReprobeForever ==
  /\ tui.pc = "reprobe"
  /\ CanConnect /\ Goto("redial") /\ UNCHANGED uiVars
  /\ UNCHANGED <<core, wire, LoopVars, faults>>

\* Up to Probes probes, whose connection is dropped; the last failure is final.
Reprobe ==
  /\ tui.pc = "reprobe"
  /\ \/ CanConnect /\ Goto("redial") /\ UNCHANGED uiVars
     \/ ~CanConnect /\ tui.n + 1 < Probes /\ Again /\ UNCHANGED uiVars
     \/ ~CanConnect /\ tui.n + 1 >= Probes /\ Goto("lost") /\ Post(Notice("over"))
  /\ UNCHANGED <<core, wire, LoopVars, faults>>

RedialAfterSpawn ==
  /\ tui.pc = "redial"
  /\ \/ CanConnect /\ Redial /\ UNCHANGED uiVars
     \/ ~CanConnect /\ Goto("lost") /\ Post(Notice("over")) /\ UNCHANGED wire
  /\ UNCHANGED <<core, LoopVars, faults>>

\* Mutant: Reconnected is announced before the command connection is replaced.
AnnounceFirst ==
  /\ tui.pc = "swap"
  /\ Post(Notice("up"))
  /\ tui' = [tui EXCEPT !.pc = "reading"]
  /\ UNCHANGED <<core, wire, LoopVars, faults>>

\* replace_writer waits for the lock of the writer.
ReplaceWriter ==
  /\ tui.pc = "swap"
  /\ tui' = [tui EXCEPT !.pc = "announce", !.wr = tui.rd]
  /\ UNCHANGED <<core, wire, uiVars, LoopVars, faults>>

Announce ==
  /\ tui.pc = "announce"
  /\ Post(Notice("up"))
  /\ Goto("reading")
  /\ UNCHANGED <<core, wire, LoopVars, faults>>

-----------------------------------------------------------------------------
(* The event loop: run_loop and handle_core_event.                         *)

\* Mutant: the state is not asked for again after a reconnect.
HandleEventNoResync ==
  /\ evq # <<>>
  /\ evq' = Tail(evq)
  /\ seen' = IF Head(evq).k = "state" THEN Head(evq).v ELSE seen
  /\ shown' = IF Head(evq).k = "state" THEN shown ELSE Head(evq).k
  /\ UNCHANGED <<transport, raced, core, dying, truth, asked, snap, tui, wire, cli, bounds>>

\* A state is applied; Reconnected asks for the state again over the current writer,
\* and a request to a dead core is lost.
HandleEvent ==
  /\ evq # <<>>
  /\ evq' = Tail(evq)
  /\ LET e == Head(evq) IN
       /\ seen' = IF e.k = "state" THEN e.v ELSE seen
       /\ shown' = IF e.k = "state" THEN shown ELSE e.k
       /\ asked' = IF e.k = "up" /\ tui.wr # NoProc /\ Alive(tui.wr)
                   THEN asked \cup {tui.wr} ELSE asked
  /\ UNCHANGED <<transport, raced, core, dying, truth, snap, tui, wire, cli, bounds>>

-----------------------------------------------------------------------------
(* The command line: core start, stop and restart, and the commands that   *)
(* open a session or spawn a core first.                                   *)

CliVars == <<transport, raced, truth, asked, snap, tui, wire, uiVars, faults, changes>>
CliDone(out) == cli' = [cli EXCEPT !.pc = "idle", !.n = 0, !.out = out]
CliGoto(pc) == cli' = [cli EXCEPT !.pc = pc, !.n = 0]

CliCommand(c) ==
  /\ cli.pc = "idle" /\ cmds < MaxCmds
  /\ cmds' = cmds + 1
  /\ cli' = [pc |-> IF c \in {"stop", "restart"} THEN "stop" ELSE "start", n |-> 0,
             cmd |-> c, target |-> NoProc, out |-> "none"]
  /\ UNCHANGED <<core, dying, CliVars>>

\* start, Session::open_or_spawn: a core that answers is used as it is.
CliStart ==
  /\ cli.pc = "start"
  /\ IF CanConnect THEN CliDone("attached") ELSE CliGoto("spawn")
  /\ UNCHANGED <<core, dying, cmds, CliVars>>

CliSpawn ==
  /\ cli.pc = "spawn"
  /\ \/ SpawnCore /\ CliGoto("wait")
     \/ Unborn = {} /\ CliDone("offline") /\ UNCHANGED core
  /\ UNCHANGED <<dying, cmds, CliVars>>

\* wait_for_core and the loop of open_or_spawn.
CliWait ==
  /\ cli.pc = "wait"
  /\ IF CanConnect THEN CliDone("attached")
     ELSE IF cli.n < Probes THEN cli' = [cli EXCEPT !.n = @ + 1]
     ELSE CliDone("timeout")
  /\ UNCHANGED <<core, dying, cmds, CliVars>>

\* stop, also as the first half of restart, which ignores how it ends.
StopDone(out) == IF cli.cmd = "restart" THEN CliGoto("start") ELSE CliDone(out)

CliStop ==
  /\ cli.pc = "stop"
  /\ \/ /\ CanConnect
        /\ dying' = dying \cup {Server}
        /\ cli' = [cli EXCEPT !.pc = "poll", !.n = 0, !.target = Server]
     \/ ~CanConnect /\ StopDone("stopped") /\ UNCHANGED dying
  /\ UNCHANGED <<core, cmds, CliVars>>

\* Mutant: the stopper trusts the first look at the socket.
CliPollOnce ==
  /\ cli.pc = "poll"
  /\ StopDone("stopped")
  /\ UNCHANGED <<core, dying, cmds, CliVars>>

CliPoll ==
  /\ cli.pc = "poll"
  /\ IF ~CanConnect THEN StopDone("stopped")
     ELSE IF cli.n + 1 < Probes THEN cli' = [cli EXCEPT !.n = @ + 1]
     ELSE StopDone("timeout")
  /\ UNCHANGED <<core, dying, cmds, CliVars>>

-----------------------------------------------------------------------------
CoreStep == \E p \in Procs : \/ CoreBoot(p) \/ CoreRead(p) \/ CoreSend(p)
                             \/ CoreDie(p) \/ CoreUnlink(p) \/ CoreExit(p)
CoreFault == \E p \in Procs : CoreChange(p) \/ CoreCrash(p)
TuiStart == TuiQuery \/ TuiDie \/ TuiSpawn \/ TuiProbe \/ TuiConnect
Recovery == Reconnect \/ Respawn \/ Reprobe \/ RedialAfterSpawn \/ ReplaceWriter \/ Announce
ReadLoop == ReadFrame \/ ReadError \/ Recovery
CliStep == CliStart \/ CliSpawn \/ CliWait \/ CliStop \/ CliPoll
CliCmds == {"start", "stop", "restart", "open"}
CliUser == \E c \in CliCmds : CliCommand(c)

Next == CoreStep \/ CoreFault \/ TuiStart \/ ReadLoop \/ HandleEvent \/ CliStep \/ CliUser

\* Every program keeps running: the tasks of the interface and the command line are
\* scheduled, and the core finishes what it has begun.  Nothing makes it change, crash
\* or drop a client, nor a user give commands.
Fairness ==
  /\ WF_vars(TuiStart) /\ WF_vars(ReadLoop) /\ WF_vars(HandleEvent) /\ WF_vars(CliStep)
  /\ \A p \in Procs : /\ WF_vars(CoreBoot(p)) /\ WF_vars(CoreRead(p)) /\ WF_vars(CoreSend(p))
                      /\ WF_vars(CoreDie(p)) /\ WF_vars(CoreUnlink(p)) /\ WF_vars(CoreExit(p))

Spec == Init /\ [][Next]_vars
FairSpec == Spec /\ Fairness

-----------------------------------------------------------------------------
Phases == {"unborn", "boot", "serving", "closing", "unlinked", "dead"}
Recovering == {"retry", "respawn", "reprobe", "redial", "swap", "announce"}
TuiPoints == {"query", "die", "spawn", "probe", "connect", "failed", "reading", "lost"}
               \cup Recovering
CliPoints == {"idle", "start", "spawn", "wait", "stop", "poll"}
Links == {"up", "down", "over"}
Versions == 0..(MaxChanges + 1)
Events == [k : Links \cup {"state"}, v : Versions]

CoreOK ==
  /\ transport \in {"unix", "tcp"}
  /\ core \in [Procs -> [st : Phases, proto : {"old", "new"}]]
  /\ dying \subseteq Procs /\ asked \subseteq Procs
  /\ truth \in Versions /\ snap \in [p : Procs \cup {NoProc}, v : Versions]
TuiOK ==
  /\ tui \in [pc : TuiPoints, n : 0..(Attempts + Probes), rd : Procs \cup {NoProc}, wr : Procs \cup {NoProc}]
  /\ wire \in Seq(Events) /\ evq \in Seq(Events)
  /\ seen \in Versions /\ shown \in Links
CliOK == cli \in [pc : CliPoints, n : 0..Probes, cmd : CliCmds \cup {"none"}, target : Procs \cup {NoProc},
                  out : {"none", "attached", "offline", "timeout", "stopped"}]
BoundsOK == faults \in 0..MaxFaults /\ changes \in 0..MaxChanges /\ cmds \in 0..MaxCmds

\* The shape of the state of all programs.
TypeOK == CoreOK /\ raced \in BOOLEAN /\ TuiOK /\ CliOK /\ BoundsOK

\* While events are read from a core, the commands of the interface go to the same
\* core: spawn_read_loop replaces the writer before it announces the recovery and reads
\* on, although both halves are replaced one after the other while keys are handled.
CommandsFollowEvents == tui.pc = "reading" => tui.wr = tui.rd

\* `core stop` reports "Core stopped." only once the core it sent `die` to has really
\* let go of its endpoint, whatever else is started meanwhile.
StopReported ==
  cli.out = "stopped" /\ cli.target # NoProc => core[cli.target].st \in {"unlinked", "dead"}

\* The read loop implements the announcements of LinkNotices.
IsNotice(e) == e.k # "state"
Kind(e) == e.k
NoticesOf(q) == LET f == SelectSeq(q, IsNotice) IN [i \in 1..Len(f) |-> Kind(f[i])]
Link == CASE tui.pc = "lost" -> "over" [] tui.pc \in Recovering -> "down" [] OTHER -> "up"
Notices == INSTANCE LinkNotices WITH link <- Link, notices <- NoticesOf(evq), shown <- shown
AnnouncesLink == Notices!Spec

\* A broken connection is recovered or given up: spawn_read_loop never stays in between.
RecoveryEnds == (tui.pc \in Recovering) ~> (tui.pc \in {"reading", "lost"})

\* Once nothing changes any more, the interface shows the state of the core it reads:
\* the re-sync after Reconnected.
MirrorCatchesUp == []<>(tui.pc = "reading" => seen = truth)

\* The same as long as no change was broadcast between the two halves of an answer:
\* whatever was lost with a connection, the request after Reconnected brings it back.
MirrorUnraced == []<>(tui.pc = "reading" /\ ~raced => seen = truth)

=============================================================================
