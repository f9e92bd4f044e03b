------------------------------ MODULE Session ------------------------------
(***************************************************************************)
(* The session of the core: the commands that hold ConnectionMutex         *)
(* (commands/connect.go, commands/tun.go), boot autoconnect (main.go), the *)
(* reloads that do not hold it, and the exit watcher with its handler      *)
(* (TCPServer/server.go), over the two managers.  Each method of a manager *)
(* is one step here, as its own mutex makes it; ProxyManager and           *)
(* TunManager model what goes on inside.                                   *)
(***************************************************************************)
EXTENDS Naturals

CONSTANTS
  Users,     \* goroutines that serve clients
  Boot,      \* the goroutine of bootAutoconnect
  Hosts,     \* VPN servers, each standing for its profile and its IPs
  Home,      \* the server of the autoconnect profile
  NoHost,
  Starts     \* bound: Xray processes ever started

\* ConnectionMutex when nobody holds it.
Free == "free"

ASSUME SessionAssumption ==
  /\ Boot \notin Users /\ Free \notin Users \cup {Boot}
  /\ Home \in Hosts /\ NoHost \notin Hosts /\ Starts \in Nat

Goroutines == Users \cup {Boot}
Cores == 1..Starts

VARIABLES
  pm,      \* ProxyManager: status, its profile, proxyIPs, current core, is it alive
  tunFor,  \* TunModeManager: the server its routes bypass, NoHost while disabled
  holder,  \* the holder of ConnectionMutex
  at,      \* where each goroutine is
  job,     \* the profile its command is about, and Connect's was_tun_enabled
  watch,   \* the exit watcher of each core
  why      \* history: what may have left TUN without its proxy

sessionVars == <<pm, tunFor, holder, at, job, watch, why>>

Connected == pm.st = "connected"
TunOn == tunFor # NoHost

SessionInit ==
  /\ pm = [st |-> "disconnected", prof |-> NoHost, ips |-> NoHost, core |-> 0, alive |-> FALSE]
  /\ tunFor = NoHost /\ holder = Free
  /\ at = [g \in Goroutines |-> IF g = Boot THEN "boot" ELSE "idle"]
  /\ job = [g \in Goroutines |-> [prof |-> Home, was |-> FALSE]]
  /\ watch = [c \in Cores |-> "none"]
  /\ why = {}

-----------------------------------------------------------------------------
(* The managers.                                                           *)

\* retireExitWatcher: a watcher that has not passed watcherIsStale reports nothing.
Retired == [c \in Cores |-> IF watch[c] = "on" THEN "none" ELSE watch[c]]

\* A new core runs and is watched.
Started(m) == [m EXCEPT !.core = @ + 1, !.alive = TRUE]
StartedWatch == [Retired EXCEPT ![pm.core + 1] = "on"]
Room == pm.core < Starts

ProxyStop ==
  /\ pm' = [pm EXCEPT !.st = "disconnected", !.prof = NoHost, !.alive = FALSE]
  /\ watch' = Retired

\* reloadCoreLocked: done; refused by the preflight; or the new core fails to start.
Reloaded   == Room /\ pm' = Started(pm) /\ watch' = StartedWatch
Refused    == UNCHANGED <<pm, watch>>
ReloadLost == ProxyStop

\* Stop of the TUN manager; whatever was wrong with it is over.
TunStop == tunFor' = NoHost /\ why' = {}

-----------------------------------------------------------------------------
(* The commands.                                                           *)

Move(g, p) == at' = [at EXCEPT ![g] = p]
Lock(g, p) == holder = Free /\ holder' = g /\ Move(g, p)
\* The end of a section; boot autoconnect goes on after it.
Unlock(g, p) == holder' = Free /\ Move(g, IF g = Boot THEN p ELSE "idle")

Ask(g) ==
  /\ at[g] = "idle"
  /\ \E p \in {"disconnect", "connect", "enable", "disable"}, h \in Hosts :
       Lock(g, p) /\ job' = [job EXCEPT ![g].prof = h]
  /\ UNCHANGED <<pm, tunFor, watch, why>>

\* Disconnect, and the second half of DisableTun.
Disconnect(g) ==
  /\ at[g] = "disconnect"
  /\ ProxyStop /\ Move(g, "down")
  /\ UNCHANGED <<tunFor, holder, job, why>>
Down(g) ==
  /\ at[g] = "down"
  /\ TunStop /\ Unlock(g, "tun")
  /\ UNCHANGED <<pm, job, watch>>

\* Whether SetTunMode(false) succeeds or not, TUN is stopped next.
DisableTun(g) ==
  /\ at[g] = "disable"
  /\ IF Connected /\ pm.alive THEN Reloaded \/ Refused \/ ReloadLost ELSE Refused
  /\ Move(g, "down")
  /\ UNCHANGED <<tunFor, holder, job, why>>

\* Connect: the profile is looked up, was_tun_enabled read, the proxy stopped, then TUN.
Connect(g) ==
  /\ at[g] = "connect"
  /\ \/ job' = [job EXCEPT ![g].was = TunOn] /\ Move(g, "hangup") /\ UNCHANGED holder
     \/ Unlock(g, "dialled") /\ UNCHANGED job
  /\ UNCHANGED <<pm, tunFor, watch, why>>
\* Mutant: TUN stays up across a switch.
HangUpKeepsTun(g) ==
  /\ at[g] = "hangup"
  /\ ProxyStop /\ Move(g, "dial")
  /\ UNCHANGED <<tunFor, holder, job, why>>

HangUp(g) ==
  /\ at[g] = "hangup"
  /\ ProxyStop /\ Move(g, IF job[g].was THEN "clear" ELSE "dial")
  /\ UNCHANGED <<tunFor, holder, job, why>>
Clear(g) ==
  /\ at[g] = "clear"
  /\ TunStop /\ Move(g, "dial")
  /\ UNCHANGED <<pm, holder, job, watch>>

\* ProxyManager.Connect; the addresses are kept when the name was resolved.
Dial(g) ==
  /\ at[g] = "dial"
  /\ \/ /\ Room
        /\ \E ips \in {job[g].prof, NoHost} :
             pm' = Started([pm EXCEPT !.st = "connected", !.prof = job[g].prof, !.ips = ips])
        /\ watch' = StartedWatch
        /\ IF job[g].was THEN Move(g, "start") /\ UNCHANGED holder ELSE Unlock(g, "dialled")
     \/ Unlock(g, "dialled") /\ UNCHANGED <<pm, watch>>
  /\ UNCHANGED <<tunFor, job, why>>

\* EnableTun: the status, then whether TUN is up already.
CheckStatus(g) ==
  /\ at[g] = "enable"
  /\ IF Connected
     THEN Move(g, "check") /\ job' = [job EXCEPT ![g].prof = pm.prof] /\ UNCHANGED holder
     ELSE Unlock(g, "tun") /\ UNCHANGED job
  /\ UNCHANGED <<pm, tunFor, watch, why>>
CheckTun(g) ==
  /\ at[g] = "check"
  /\ IF TunOn THEN Unlock(g, "tun") ELSE Move(g, "start") /\ UNCHANGED holder
  /\ UNCHANGED <<pm, tunFor, job, watch, why>>

\* enableTun: the IPs of the connection, or those of the profile it was called with.
StartTun(g) ==
  /\ at[g] = "start"
  /\ \/ /\ tunFor' = IF pm.ips # NoHost THEN pm.ips ELSE job[g].prof
        /\ why' = IF g = Boot /\ pm.prof # tunFor' THEN why \cup {"boot"} ELSE why
        /\ Move(g, "inbound") /\ UNCHANGED holder
     \/ Unlock(g, "tun") /\ UNCHANGED <<tunFor, why>>
  /\ UNCHANGED <<pm, job, watch>>

\* SetTunMode(true); when it fails, TUN is stopped again.
Inbound(g) ==
  /\ at[g] = "inbound"
  /\ IF Connected /\ pm.alive
     THEN \/ Reloaded /\ Unlock(g, "tun")
          \/ (Refused \/ ReloadLost) /\ Move(g, "down") /\ UNCHANGED holder
     ELSE Refused /\ Unlock(g, "tun")
  /\ UNCHANGED <<tunFor, job, why>>

-----------------------------------------------------------------------------
(* bootAutoconnect: a section per attempt, and nothing held between them.  *)

BootConnect ==
  /\ at[Boot] = "boot"
  /\ Lock(Boot, "connect")
  /\ UNCHANGED <<pm, tunFor, job, watch, why>>

\* The status is read without the mutex; three failures end it.
BootSeen ==
  /\ at[Boot] = "dialled"
  /\ \/ Move(Boot, IF Connected THEN "tun" ELSE "boot")
     \/ ~Connected /\ Move(Boot, "done")
  /\ UNCHANGED <<pm, tunFor, holder, job, watch, why>>

\* EnableTunForProfile does not look at the status; five attempts end it.
BootTun ==
  /\ at[Boot] = "tun"
  /\ \/ ~TunOn /\ Lock(Boot, "check")
     \/ Move(Boot, "done") /\ UNCHANGED holder
  /\ UNCHANGED <<pm, tunFor, job, watch, why>>

-----------------------------------------------------------------------------
(* Outside the mutex.                                                      *)

\* ReloadRouting after a change of rules, split mode or subscription.
ReloadRouting ==
  /\ Connected /\ pm.alive
  /\ \/ Reloaded /\ UNCHANGED why
     \/ ReloadLost /\ why' = why \cup {"reload"}
  /\ UNCHANGED <<tunFor, holder, at, job>>

Crash ==
  /\ pm.alive
  /\ pm' = [pm EXCEPT !.alive = FALSE]
  /\ UNCHANGED <<tunFor, holder, at, job, watch, why>>

\* watchExit: the exit arrives and the watcher is not stale; it may then wait for p.mu.
Noticed(c) ==
  /\ watch[c] = "on" /\ ~pm.alive
  /\ watch' = [watch EXCEPT ![c] = "exited"]
  /\ UNCHANGED <<pm, tunFor, holder, at, job, why>>
Dropped(c) ==
  /\ watch[c] = "exited"
  /\ pm' = [pm EXCEPT !.st = "disconnected", !.prof = NoHost]
  /\ watch' = [watch EXCEPT ![c] = "told"]
  /\ UNCHANGED <<tunFor, holder, at, job, why>>

\* Mutant: the handler only reports the exit.
HandlerReports(c) ==
  /\ watch[c] = "told"
  /\ watch' = [watch EXCEPT ![c] = "none"]
  /\ UNCHANGED <<pm, tunFor, holder, at, job, why>>

\* The handler of Server.Start looks at TUN; a section may be about to start it.
AboutToStart == \E g \in Goroutines : at[g] \in {"check", "start"}
Handler(c) ==
  /\ watch[c] = "told"
  /\ watch' = [watch EXCEPT ![c] = IF TunOn THEN "stop" ELSE "none"]
  /\ why' = IF ~TunOn /\ AboutToStart THEN why \cup {"early"} ELSE why
  /\ UNCHANGED <<pm, tunFor, holder, at, job>>

HandlerStop(c) ==
  /\ watch[c] = "stop"
  /\ tunFor' = NoHost /\ why' = IF AboutToStart THEN {"early"} ELSE {}
  /\ watch' = [watch EXCEPT ![c] = "none"]
  /\ UNCHANGED <<pm, holder, at, job>>

SessionNext ==
  \/ \E g \in Users : Ask(g)
  \/ \E g \in Goroutines :
       \/ Disconnect(g) \/ Down(g) \/ DisableTun(g) \/ Connect(g) \/ HangUp(g) \/ Clear(g)
       \/ Dial(g) \/ CheckStatus(g) \/ CheckTun(g) \/ StartTun(g) \/ Inbound(g)
  \/ BootConnect \/ BootSeen \/ BootTun \/ ReloadRouting \/ Crash
  \/ \E c \in Cores : Noticed(c) \/ Dropped(c) \/ Handler(c) \/ HandlerStop(c)
SessionSpec == SessionInit /\ [][SessionNext]_sessionVars

-----------------------------------------------------------------------------
\* No section is underway and no exit is being handled.
NothingUnderway == holder = Free /\ \A c \in Cores : watch[c] \in {"none", "on"}

\* The device does not outlive its proxy, "must not be left half-configured": TUN up
\* with nothing connected comes from one of three races only - the handler looked
\* between the checks of a section and its Start, boot autoconnect started TUN after
\* someone had disconnected, or a reload lost the core.
TunAloneOnlyRaced == NothingUnderway /\ TunOn /\ ~Connected => why # {}

\* The routes past the tunnel lead to the server of the current connection, whoever
\* switched profiles or enabled TUN in which order: otherwise Xray's own packets would
\* go into the tunnel.
RoutesFitServer == NothingUnderway /\ TunOn /\ Connected /\ "boot" \notin why => tunFor = pm.prof
=============================================================================
