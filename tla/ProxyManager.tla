----------------------------- MODULE ProxyManager -----------------------------
(***************************************************************************)
(* The manager of the Xray subprocess                                      *)
(* (lib/proxy/mainproxy/{mainproxy,routing}.go and lib/proxy/xray/xray.go).*)
(*                                                                         *)
(* Three kinds of actors share it:                                         *)
(*   - Connect, SetTunMode, ReloadRouting, Stop and UpdateMovedProfile, one*)
(*     at a time under p.mu; variable pc is the place of the holder and arg*)
(*     its local variables, so p.mu is free when pc = "free";              *)
(*   - the XrayCore instances: the process itself and the goroutine that   *)
(*     waits for it and posts its exit on the Exited channel;              *)
(*   - one exit watcher per started core.  It reads p.core and the         *)
(*     generation without p.mu, so its steps interleave with a holder's.   *)
(*                                                                         *)
(* A core instance is a number; core = 0 is the idle instance of Init.     *)
(* The watcher started for core c is also called c.  The uint64 watchGen is*)
(* abstracted to what the code compares: the watcher that owns the current *)
(* generation, 0 once a retire has bumped it.                              *)
(***************************************************************************)
EXTENDS PortPool, FiniteSets

CONSTANTS
  Servers,    \* VPN servers a profile may point at
  Groups,     \* groups a profile may be filed under
  NoProfile,  \* the empty profile of a "disconnected" status
  MaxCores    \* bound: cores created after Init

ASSUME ManagerAssumption ==
  /\ StartPort > 0
  /\ MaxCores \in Nat
  /\ NoProfile \notin Servers \X Groups
  /\ NoProfile \notin Servers

VARIABLES
  core,           \* p.core, the current XrayCore
  xray,           \* the XrayCore instances
  watcher,        \* the exit-watcher goroutines
  closed,         \* the watchers whose done channel is closed
  watchGen,       \* the watcher of the current generation, 0 after a retire
  watchStopping,  \* p.watchStopping
  status,         \* p.status
  tunEnabled,     \* p.tunEnabled
  proxyIPs,       \* p.proxyIPs: the server they belong to, or NoProfile
  statsApiPort,   \* p.statsApiPort, 0 when there is none
  collector,      \* the core whose stats goroutine is not cancelled, or 0
  pool,           \* p.portPool
  tests,          \* ports held by latency tests
  pc, arg,        \* the section that holds p.mu and its locals
  event,          \* the last status sent on StatusChanged
  reported,       \* cores whose exit ran the unexpected-exit handler
  discarded,      \* cores whose exit value a stale watcher threw away
  crashed         \* cores that exited without having been stopped

coreVars  == <<core, xray, crashed>>
watchVars == <<watcher, closed, watchGen, watchStopping, discarded>>
portVars  == <<statsApiPort, collector, pool, tests>>
lockVars  == <<pc, arg>>
infoVars  == <<status, event, tunEnabled, proxyIPs, reported>>
vars == <<core, xray, crashed, watcher, closed, watchGen, watchStopping,
          discarded, statsApiPort, collector, pool, tests, pc, arg, status,
          event, tunEnabled, proxyIPs, reported>>

Cores    == 1 .. MaxCores
CoreIds  == 0 .. MaxCores
Profiles == Servers \X Groups

Procs    == {"none", "alive", "dead", "killed", "gone"}
Channels == {"open", "value", "closed"}
XrayCore == [proc : Procs, running : BOOLEAN, exited : Channels,
             apiPort : {0} \cup Ports]
Watcher  == [at : {"none", "loop", "select", "check", "lock", "notify", "done"},
             on : CoreIds]
Status   == [connection : {"connected", "disconnected"},
             profile : Profiles \cup {NoProfile}, reason : BOOLEAN]
Sections == {"free", "c_retire", "c_start", "c_commit",
             "r_stop", "r_start", "r_commit", "s_stop"}
Args     == [profile : Profiles \cup {NoProfile}, apiPort : {0} \cup Ports,
             ips : Servers \cup {NoProfile}]

TypeOK ==
  /\ core \in CoreIds
  /\ xray \in [CoreIds -> XrayCore]
  /\ crashed \subseteq CoreIds
  /\ watcher \in [Cores -> Watcher]
  /\ closed \subseteq Cores
  /\ watchGen \in CoreIds
  /\ watchStopping \in BOOLEAN
  /\ discarded \subseteq CoreIds
  /\ statsApiPort \in {0} \cup Ports
  /\ collector \in CoreIds
  /\ pool \in Pool
  /\ tests \subseteq Ports
  /\ pc \in Sections
  /\ arg \in Args
  /\ status \in Status
  /\ event \in Status
  /\ tunEnabled \in BOOLEAN
  /\ proxyIPs \in Servers \cup {NoProfile}
  /\ reported \subseteq CoreIds

-------------------------------------------------------------------------------
(* Values *)

Disconnected == [connection |-> "disconnected", profile |-> NoProfile, reason |-> FALSE]
Dropped      == [Disconnected EXCEPT !.reason = TRUE]
Connected(p) == [connection |-> "connected", profile |-> p, reason |-> FALSE]

NoArgs == [profile |-> NoProfile, apiPort |-> 0, ips |-> NoProfile]

\* newCore(): an XrayCore that was never started.
FreshCore == [proc |-> "none", running |-> FALSE, exited |-> "open", apiPort |-> 0]

\* XrayCore.Start on a fresh instance, when the process could be spawned.
StartedCore(port) ==
  [proc |-> "alive", running |-> TRUE, exited |-> "open", apiPort |-> port]

\* Mutant: Stop posts the exit it causes itself.
StoppedCorePosts(x, p) ==
  [x EXCEPT !.exited  = IF @ = "open" THEN "value" ELSE @,
            !.running = FALSE,
            !.proc    = IF @ \in {"alive", "dead", "killed"} THEN p ELSE @]

\* XrayCore.Stop: closes Exited, clears running, cancels and kills.  It waits at
\* most 500 ms, so the killed process may outlive the call.
StoppedCore(x, p) ==
  [x EXCEPT !.exited  = IF @ = "open" THEN "closed" ELSE @,
            !.running = FALSE,
            !.proc    = IF @ \in {"alive", "dead", "killed"} THEN p ELSE @]

StopOutcomes == {"killed", "gone"}

StopCore(p) == xray' = [xray EXCEPT ![core] = StoppedCore(@, p)]

\* GetPort with the manager's convention that 0 stands for "none".
ApiPort == IF Exhausted(pool) THEN 0 ELSE GrantedPort(pool)

\* retireExitWatcher
RetireExitWatcher ==
  /\ watchStopping' = TRUE
  /\ closed' = closed \cup ({watchGen} \ {0})
  /\ watchGen' = 0

\* Mutant: the stopping flag of the last retire stays set.
StartExitWatcherStopping ==
  /\ UNCHANGED watchStopping
  /\ watchGen' = core
  /\ watcher' = [watcher EXCEPT ![core] = [at |-> "loop", on |-> 0]]
  /\ UNCHANGED closed

\* startExitWatcher for the current core
StartExitWatcher ==
  /\ watchStopping' = FALSE
  /\ watchGen' = core
  /\ watcher' = [watcher EXCEPT ![core] = [at |-> "loop", on |-> 0]]
  /\ UNCHANGED closed

\* p.status = s with its send on StatusChanged
SetStatus(s) == status' = s /\ event' = s

Unlock == pc' = "free" /\ arg' = NoArgs

Init ==
  /\ core = 0
  /\ xray = [c \in CoreIds |-> FreshCore]
  /\ crashed = {}
  /\ watcher = [c \in Cores |-> [at |-> "none", on |-> 0]]
  /\ closed = {}
  /\ watchGen = 0
  /\ watchStopping = FALSE
  /\ discarded = {}
  /\ statsApiPort = 0
  /\ collector = 0
  /\ pool = CreatePortPool
  /\ tests = {}
  /\ pc = "free"
  /\ arg = NoArgs
  /\ status = Disconnected
  /\ event = Disconnected
  /\ tunEnabled = FALSE
  /\ proxyIPs = NoProfile
  /\ reported = {}

-------------------------------------------------------------------------------
(* Connect *)

\* Mutant: the running core is not stopped.
ConnectLockNoStop(p, tun) ==
  /\ pc = "free"
  /\ core < MaxCores
  /\ tunEnabled' = tun
  /\ pc' = "c_retire"
  /\ arg' = [NoArgs EXCEPT !.profile = p]
  /\ UNCHANGED <<coreVars, watchVars, portVars, status, event, proxyIPs, reported>>

\* Takes p.mu and stops the running core.
ConnectLock(p, tun) ==
  /\ pc = "free"
  /\ core < MaxCores
  /\ tunEnabled' = tun
  /\ IF xray[core].running THEN \E o \in StopOutcomes : StopCore(o) ELSE UNCHANGED xray
  /\ pc' = "c_retire"
  /\ arg' = [NoArgs EXCEPT !.profile = p]
  /\ UNCHANGED <<core, crashed, watchVars, portVars, status, event, proxyIPs, reported>>

\* Retires the watcher, drops the old status, reserves the StatsService port.
ConnectRetire ==
  /\ pc = "c_retire"
  /\ RetireExitWatcher
  /\ IF status.connection = "connected" THEN SetStatus(Disconnected)
     ELSE UNCHANGED <<status, event>>
  /\ pool' = GetPort(pool)
  /\ \E ips \in {arg.profile[1], NoProfile} :
       arg' = [arg EXCEPT !.apiPort = ApiPort, !.ips = ips]
  /\ pc' = "c_start"
  /\ UNCHANGED <<coreVars, watcher, discarded, statsApiPort, collector, tests,
                 tunEnabled, proxyIPs, reported>>

\* The config cannot be built, Xray rejects it in the preflight, or the
\* pre-start hook (the kill-switch) refuses: the port goes back, Connect fails.
ConnectRefused ==
  /\ pc = "c_start"
  /\ pool' = ReleasePort(pool, arg.apiPort)
  /\ Unlock
  /\ UNCHANGED <<coreVars, watchVars, statsApiPort, collector, tests, infoVars>>

\* A new core replaces the old one and is started; Start itself may fail.
ConnectStart ==
  /\ pc = "c_start"
  /\ core' = core + 1
  /\ \/ /\ xray' = [xray EXCEPT ![core + 1] = StartedCore(arg.apiPort)]
        /\ pc' = "c_commit"
        /\ UNCHANGED arg
     \/ /\ UNCHANGED xray
        /\ Unlock
  /\ UNCHANGED <<crashed, watchVars, portVars, infoVars>>

\* Mutant: the port of the new core is released in place of the old one's.
ConnectCommitReleaseNew ==
  /\ pc = "c_commit"
  /\ proxyIPs' = arg.ips
  /\ pool' = ReleasePort(pool, arg.apiPort)
  /\ statsApiPort' = arg.apiPort
  /\ collector' = core
  /\ SetStatus(Connected(arg.profile))
  /\ StartExitWatcher
  /\ Unlock
  /\ UNCHANGED <<coreVars, discarded, tests, tunEnabled, reported>>

\* Publishes the connection: server IPs, stats goroutine, status, watcher.
ConnectCommit ==
  /\ pc = "c_commit"
  /\ proxyIPs' = arg.ips
  /\ pool' = ReleasePort(pool, statsApiPort)
  /\ statsApiPort' = arg.apiPort
  /\ collector' = core
  /\ SetStatus(Connected(arg.profile))
  /\ StartExitWatcher
  /\ Unlock
  /\ UNCHANGED <<coreVars, discarded, tests, tunEnabled, reported>>

-------------------------------------------------------------------------------
(* Hot reload: SetTunMode and ReloadRouting end in reloadCoreLocked *)

Reloadable == status.connection = "connected" /\ xray[core].running

\* The port reloadCoreLocked puts into the new config.
ReloadPort == IF statsApiPort # 0 THEN statsApiPort ELSE ApiPort

\* reloadCoreLocked up to the preflight.  A config that fails it keeps the
\* running core, and a port reserved for it stays reserved.
ReloadCheck ==
  /\ pool' = IF statsApiPort = 0 THEN GetPort(pool) ELSE pool
  /\ \/ UNCHANGED <<watchStopping, closed, watchGen, pc, arg>>
     \/ /\ core < MaxCores
        /\ RetireExitWatcher
        /\ pc' = "r_stop"
        /\ arg' = [NoArgs EXCEPT !.apiPort = ReloadPort]
  /\ UNCHANGED <<coreVars, watcher, discarded, statsApiPort, collector, tests,
                 status, event, proxyIPs, reported>>

SetTunMode(tun) ==
  /\ pc = "free"
  /\ tunEnabled' = tun
  /\ IF Reloadable THEN ReloadCheck
     ELSE UNCHANGED <<coreVars, watchVars, portVars, lockVars, status, event,
                      proxyIPs, reported>>

ReloadRouting ==
  /\ pc = "free"
  /\ Reloadable
  /\ ReloadCheck
  /\ UNCHANGED tunEnabled

ReloadStop ==
  /\ pc = "r_stop"
  /\ \E o \in StopOutcomes : StopCore(o)
  /\ pc' = "r_start"
  /\ UNCHANGED <<core, crashed, watchVars, portVars, infoVars, arg>>

\* The replacement is started and becomes p.core; if it cannot be started the
\* manager is disconnected and keeps its stats port.
ReloadStart ==
  /\ pc = "r_start"
  /\ core' = core + 1
  /\ \/ /\ xray' = [xray EXCEPT ![core + 1] = StartedCore(arg.apiPort)]
        /\ pc' = "r_commit"
        /\ UNCHANGED <<arg, status, event>>
     \/ /\ UNCHANGED xray
        /\ SetStatus(Disconnected)
        /\ Unlock
  /\ UNCHANGED <<crashed, watchVars, portVars, tunEnabled, proxyIPs, reported>>

ReloadCommit ==
  /\ pc = "r_commit"
  /\ statsApiPort' = arg.apiPort
  /\ collector' = core
  /\ StartExitWatcher
  /\ Unlock
  /\ UNCHANGED <<coreVars, discarded, pool, tests, infoVars>>

-------------------------------------------------------------------------------
(* Stop and UpdateMovedProfile *)

\* Stop up to core.Stop: the watcher is retired first.
StopLock ==
  /\ pc = "free"
  /\ tunEnabled' = FALSE
  /\ RetireExitWatcher
  /\ collector' = 0
  /\ pool' = ReleasePort(pool, statsApiPort)
  /\ statsApiPort' = 0
  /\ pc' = "s_stop"
  /\ UNCHANGED <<coreVars, watcher, discarded, tests, arg, status, event, proxyIPs,
                 reported>>

StopFinish ==
  /\ pc = "s_stop"
  /\ \E o \in StopOutcomes : StopCore(o)
  /\ SetStatus(Disconnected)
  /\ Unlock
  /\ UNCHANGED <<core, crashed, watchVars, portVars, tunEnabled, proxyIPs, reported>>

\* The connected profile was moved to another group.
UpdateMovedProfile(g) ==
  /\ pc = "free"
  /\ status.connection = "connected"
  /\ SetStatus(Connected(<<status.profile[1], g>>))
  /\ UNCHANGED <<coreVars, watchVars, portVars, lockVars, tunEnabled, proxyIPs, reported>>

-------------------------------------------------------------------------------
(* The Xray process and the goroutine that waits for it *)

\* The process exits on its own.
ProcessExit(c) ==
  /\ xray[c].proc = "alive"
  /\ xray' = [xray EXCEPT ![c].proc = "dead"]
  /\ UNCHANGED <<core, crashed, watchVars, portVars, lockVars, infoVars>>

\* Mutant: the channel is closed without a value.
WaitCrashSilent(c) ==
  /\ xray[c].proc = "dead"
  /\ xray' = [xray EXCEPT ![c].proc = "gone", ![c].running = FALSE,
                          ![c].exited = IF @ = "open" THEN "closed" ELSE @]
  /\ crashed' = crashed \cup {c}
  /\ UNCHANGED <<core, watchVars, portVars, lockVars, infoVars>>

\* cmd.Wait returns after an exit nobody asked for: the exit is posted and the
\* channel closed.
WaitCrash(c) ==
  /\ xray[c].proc = "dead"
  /\ xray' = [xray EXCEPT ![c].proc = "gone", ![c].running = FALSE,
                          ![c].exited = IF @ = "open" THEN "value" ELSE @]
  /\ crashed' = crashed \cup {c}
  /\ UNCHANGED <<core, watchVars, portVars, lockVars, infoVars>>

\* cmd.Wait returns after Stop cancelled the context: nothing is posted.
WaitStopped(c) ==
  /\ xray[c].proc = "killed"
  /\ xray' = [xray EXCEPT ![c].proc = "gone"]
  /\ UNCHANGED <<core, crashed, watchVars, portVars, lockVars, infoVars>>

-------------------------------------------------------------------------------
(* watchExit *)

Step(w, from, to) ==
  /\ watcher[w].at = from
  /\ watcher' = [watcher EXCEPT ![w].at = to]

\* The select evaluates p.core.ExitedCh() once, when it is entered.
WatchEnter(w) ==
  /\ watcher[w].at = "loop"
  /\ watcher' = [watcher EXCEPT ![w] = [at |-> "select", on |-> core]]
  /\ UNCHANGED <<coreVars, closed, watchGen, watchStopping, discarded, portVars,
                 lockVars, infoVars>>

\* Mutant: the select has no case for done.
WatchEndNoDone(w) ==
  /\ xray[watcher[w].on].exited = "closed"
  /\ Step(w, "select", "done")
  /\ UNCHANGED <<coreVars, closed, watchGen, watchStopping, discarded, portVars,
                 lockVars, infoVars>>

\* done is closed, or the channel is closed and drained: the goroutine ends.
WatchEnd(w) ==
  /\ \/ w \in closed
     \/ xray[watcher[w].on].exited = "closed"
  /\ Step(w, "select", "done")
  /\ UNCHANGED <<coreVars, closed, watchGen, watchStopping, discarded, portVars,
                 lockVars, infoVars>>

\* An exit value is received, even when done is closed too.
WatchReceive(w) ==
  /\ xray[watcher[w].on].exited = "value"
  /\ Step(w, "select", "check")
  /\ xray' = [xray EXCEPT ![watcher[w].on].exited = "closed"]
  /\ UNCHANGED <<core, crashed, closed, watchGen, watchStopping, discarded, portVars,
                 lockVars, infoVars>>

\* watcherIsStale
WatcherIsStale(w) == w # watchGen \/ watchStopping

WatchCheck(w) ==
  /\ IF WatcherIsStale(w)
       THEN /\ Step(w, "check", "done")
            /\ discarded' = discarded \cup {watcher[w].on}
       ELSE /\ Step(w, "check", "lock")
            /\ UNCHANGED discarded
  /\ UNCHANGED <<coreVars, closed, watchGen, watchStopping, portVars, lockVars, infoVars>>

\* The status is overwritten under p.mu.
WatchLock(w) ==
  /\ pc = "free"
  /\ Step(w, "lock", "notify")
  /\ status' = Dropped
  /\ UNCHANGED <<coreVars, closed, watchGen, watchStopping, discarded, portVars,
                 lockVars, event, tunEnabled, proxyIPs, reported>>

\* The copy of the status is sent and the exit handler started without p.mu;
\* the loop goes round.
WatchNotify(w) ==
  /\ Step(w, "notify", "loop")
  /\ event' = Dropped
  /\ reported' = reported \cup {watcher[w].on}
  /\ UNCHANGED <<coreVars, closed, watchGen, watchStopping, discarded, portVars,
                 lockVars, status, tunEnabled, proxyIPs>>

-------------------------------------------------------------------------------
(* Latency tests that share the port pool *)

TestBegins ==
  /\ ~Exhausted(pool)
  /\ pool' = GetPort(pool)
  /\ tests' = tests \cup {GrantedPort(pool)}
  /\ UNCHANGED <<coreVars, watchVars, statsApiPort, collector, lockVars, infoVars>>

TestEnds(port) ==
  /\ port \in tests
  /\ tests' = tests \ {port}
  /\ pool' = ReleasePort(pool, port)
  /\ UNCHANGED <<coreVars, watchVars, statsApiPort, collector, lockVars, infoVars>>

-------------------------------------------------------------------------------
Holder ==
  \/ ConnectRetire \/ ConnectRefused \/ ConnectStart \/ ConnectCommit
  \/ ReloadStop \/ ReloadStart \/ ReloadCommit \/ StopFinish

WatchStep(w) ==
  \/ WatchEnter(w) \/ WatchEnd(w) \/ WatchReceive(w) \/ WatchCheck(w)
  \/ WatchLock(w) \/ WatchNotify(w)

Requests ==
  \/ \E p \in Profiles, tun \in BOOLEAN : ConnectLock(p, tun)
  \/ \E tun \in BOOLEAN : SetTunMode(tun)
  \/ ReloadRouting
  \/ StopLock
  \/ \E g \in Groups : UpdateMovedProfile(g)

Next ==
  \/ Requests
  \/ Holder
  \/ \E c \in CoreIds : ProcessExit(c) \/ WaitCrash(c) \/ WaitStopped(c)
  \/ \E w \in Cores : WatchStep(w)
  \/ TestBegins
  \/ \E port \in Ports : TestEnds(port)

\* Goroutines that can run are scheduled: whoever holds p.mu goes on, cmd.Wait
\* returns for a process that is gone, a watcher that can step steps.  Strong
\* fairness on WatchLock is what sync.Mutex gives a waiter (its starvation mode
\* hands the lock over).  Neither requests nor crashes are assumed to happen.
Fairness ==
  /\ WF_vars(Holder)
  /\ \A c \in CoreIds : WF_vars(WaitCrash(c)) /\ WF_vars(WaitStopped(c))
  /\ \A w \in Cores : WF_vars(WatchStep(w)) /\ SF_vars(WatchLock(w))

Spec == Init /\ [][Next]_vars /\ Fairness
-------------------------------------------------------------------------------
(* Safety *)

\* Switching, reloading and stopping in any order never leave a second Xray
\* behind: a process nobody has told to stop belongs to the current core.
SingleCore == \A c \in CoreIds : xray[c].running => c = core

\* A manager at rest that says "disconnected" without a drop reason has no Xray
\* running, whichever of Connect, reload or Stop got it there and failed where.
DisconnectedMeansStopped ==
  pc = "free" /\ status = Disconnected => ~xray[core].running

\* A live connection is always guarded: its own watcher, of the current
\* generation, is waiting on the exit channel of this very core or about to.
ConnectedIsWatched ==
  pc = "free" /\ status.connection = "connected" /\ xray[core].running =>
    /\ watchGen = core /\ ~watchStopping /\ core \notin closed
    /\ \/ watcher[core].at = "loop"
       \/ watcher[core].at = "select" /\ watcher[core].on = core

\* The unexpected-exit handler runs only for processes that died on their own:
\* no interleaving of Stop or a switch with the watcher reports an ordered stop.
OnlyCrashesReported == reported \subseteq crashed

\* The StatsService port of the running Xray stays reserved while it runs, across
\* switches, reloads and failed attempts, so that a latency test is not given the
\* same port.  Stop gives it back just before it stops the core.
StatsPortReserved ==
  pc # "s_stop" =>
    \A c \in CoreIds : xray[c].running /\ xray[c].apiPort # 0 =>
      xray[c].apiPort \in pool.in_use \ tests

\* The server IPs kept for the kill-switch allowlist and the TUN routes are those
\* of the profile that is connected, across switches, reloads and moves.
IPsBelongToProfile ==
  pc = "free" /\ status.connection = "connected" =>
    proxyIPs \in {status.profile[1], NoProfile}

-------------------------------------------------------------------------------
(* Liveness *)

\* The status catches up with a crash of the connected core, unless a watcher of
\* an earlier connection received the exit value in place of the current one.
CrashNoticedOrStolen ==
  \A c \in Cores :
    (pc = "free" /\ core = c /\ status.connection = "connected" /\ xray[c].proc = "dead")
      ~> (core # c \/ status.connection = "disconnected" \/ c \in discarded)

\* Every retired watcher goroutine ends: switching profiles leaks none.
RetiredWatchersEnd ==
  \A w \in Cores : w \in closed ~> watcher[w].at = "done"

-------------------------------------------------------------------------------
(* Claims of comments and docs that the code does not keep *)

\* protocol.md: "reason is present when the connection dropped unexpectedly";
\* watcherIsStale is there so that a superseded watcher reports nothing.
DropReasonIsTrue == status = Dropped => ~xray[core].running

\* Connect retires the old watcher so that the watchers do not race on the
\* swapped core: the watcher of a crashed core notices the crash.
CrashNoticed ==
  \A c \in Cores :
    (pc = "free" /\ core = c /\ status.connection = "connected" /\ xray[c].proc = "dead")
      ~> (core # c \/ status.connection = "disconnected")
===============================================================================
