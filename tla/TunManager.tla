------------------------------ MODULE TunManager ------------------------------
(***************************************************************************)
(* TUN mode: the kernel state it installs and takes back                   *)
(* (lib/proxy/tun/*.go, commands/{tun,split}.go).                          *)
(*                                                                         *)
(* Start and Stop are sequences of shell scripts under t.mu, any of which  *)
(* can fail and between any two of which the daemon can die.  Enabling and *)
(* disabling also hold ConnectionMutex (cm); the exit handler of the proxy,*)
(* SetSplitTunnel, SetTunName and the refresh of the DNS hijack do not.    *)
(*                                                                         *)
(* An artifact is a pair <<kind, parameter>>: a device, a route, a rule or *)
(* a table.  IPv4 and IPv6 go together, and so do the scripts of the two   *)
(* firewall backends, except where the startup reconcile tells them apart. *)
(***************************************************************************)
EXTENDS Naturals, Sequences

CONSTANTS
  Names,     \* names a TUN device may be given
  Servers,   \* VPN servers, each standing for its IPs
  None,      \* no name, no server, and the parameter of a kind without one
  Clients,   \* clients that run commands without ConnectionMutex
  Backend,   \* probeFirewall: "nft" or "iptables"
  MaxFaults, \* bound: how many scripts fail
  MaxDeaths  \* bound: how often the daemon dies

ASSUME TunAssumption ==
  /\ None \notin Names \cup Servers
  /\ Backend \in {"nft", "iptables"}
  /\ MaxFaults \in Nat /\ MaxDeaths \in Nat

Modes == {"off", "exclude", "include"}
\* DnsHijack: the zero value, the manual redirect, the redirect into the tunnel and
\* the same plan while include mode keeps it out of the kernel.
Plans == {"none", "legacy", "happ", "happ_off"}
Enabled(plan) == plan \in {"legacy", "happ"}

VARIABLES
  conf,     \* the configuration: split mode and TUN name
  net,      \* the artifacts in the kernel
  rp,       \* rp_filter of the physical interface
  rpfile,   \* rp_filter.state: the saved value, or "none"
  t,        \* the fields of TunModeManager
  mu,       \* what the holder of t.mu does
  cm,       \* the holder of ConnectionMutex
  pc, loc,  \* the clients and the plan they have computed
  daemon,   \* is it running
  deaths,   \* how often it died
  faults,   \* how many scripts have failed
  orphans,  \* history: what the last startup reconcile left in the kernel
  failed    \* history: live changes that were reported as failed

vars == <<conf, net, rp, rpfile, t, mu, cm, pc, loc, daemon, deaths, faults,
          orphans, failed>>
kernel == <<net, rp, rpfile>>
clientVars == <<pc, loc>>
past == <<daemon, deaths, orphans>>
history == <<past, faults>>

\* Mutants: the capture comes before the bypass; rp_filter is saved after the change.
StartStepsCaptureFirst ==
  <<"dev", "tunroute", "proxy", "dns", "rp_save", "rp_set", "mark", "conntrack", "uid",
    "hijack", "resolved", "split">>
StartStepsSaveLate ==
  <<"dev", "proxy", "dns", "rp_set", "rp_save", "mark", "conntrack", "uid",
    "hijack", "resolved", "tunroute", "split">>

\* In the order in which Start installs them.
StartSteps == <<"dev", "proxy", "dns", "rp_save", "rp_set", "mark", "conntrack", "uid",
                "hijack", "resolved", "tunroute", "split">>
\* In the order in which clearNetworkRules removes them.
ClearSteps == <<"rp", "tunroute", "dev", "hijack", "proxy", "mark", "conntrack", "split",
                "resolved", "dns", "uid">>

Artifacts ==
  ({"dev", "tunroute", "resolved"} \X Names) \cup ({"proxy"} \X Servers)
    \cup ({"split"} \X Modes)
    \cup ({"dns", "mark", "conntrack", "uid", "hijack"} \X {None})

Fields == [name : Names \cup {None}, server : Servers \cup {None}, plan : Plans, on : BOOLEAN]
Lock   == [op : {"free", "start", "clear", "split"}, i : 1 .. Len(StartSteps) + 1,
           then : {"begin", "fail", "stop", "none"}, err : BOOLEAN]
Holder == [at : {"free", "plan", "enable", "start", "reload", "stop"},
           server : Servers \cup {None}, plan : Plans]

TypeOK ==
  /\ conf \in [split : Modes, name : Names]
  /\ net \subseteq Artifacts
  /\ rp \in {"strict", "loose"} /\ rpfile \in {"none", "strict", "loose"}
  /\ t \in Fields /\ mu \in Lock /\ cm \in Holder
  /\ pc \in [Clients -> {"idle", "check", "split", "splitting", "redns", "plan", "sethijack"}]
  /\ loc \in [Clients -> Plans]
  /\ daemon \in BOOLEAN /\ deaths \in 0 .. MaxDeaths /\ faults \in 0 .. MaxFaults
  /\ orphans \subseteq Artifacts
  /\ failed \subseteq {"split", "dns"}

Idle   == [name |-> None, server |-> None, plan |-> "none", on |-> FALSE]
Free   == [op |-> "free", i |-> 1, then |-> "none", err |-> FALSE]
NoCmd  == [at |-> "free", server |-> None, plan |-> "none"]

Init ==
  /\ conf \in [split : {"off"}, name : Names]
  /\ net = {} /\ rp = "strict" /\ rpfile = "none"
  /\ t = Idle /\ mu = Free /\ cm = NoCmd
  /\ pc = [c \in Clients |-> "idle"]
  /\ loc = [c \in Clients |-> "none"]
  /\ daemon = TRUE /\ deaths = 0 /\ faults = 0 /\ orphans = {} /\ failed = {}

-------------------------------------------------------------------------------
(* Artifacts *)

\* A device takes the routes and the resolver settings bound to it along.
OnDevice(n) == {"dev", "tunroute", "resolved"} \X {n}
SplitRules  == {"split"} \X Modes

\* What a step of Start installs; nothing when it does not apply.
Installs(step) ==
  CASE step \in {"dev", "tunroute", "resolved"} ->
         IF \/ step = "resolved" /\ ~Enabled(t.plan)
            \/ step = "tunroute" /\ conf.split = "include" THEN {} ELSE {<<step, t.name>>}
    [] step = "proxy"  -> {<<"proxy", t.server>>}
    [] step = "dns"    -> IF t.plan = "legacy" THEN {<<"dns", None>>} ELSE {}
    [] step = "hijack" -> IF Enabled(t.plan) THEN {<<"hijack", None>>} ELSE {}
    [] step = "split"  -> IF conf.split = "off" THEN {} ELSE {<<"split", conf.split>>}
    [] step \in {"rp_save", "rp_set"} -> {}
    [] OTHER -> {<<step, None>>}

\* ip route add refuses a route that is there; the metric of the TUN default
\* route is the same for every device.
Refused(step) ==
  \/ step = "proxy" /\ <<"proxy", t.server>> \in net
  \/ step = "tunroute" /\ Installs(step) # {} /\ \E n \in Names : <<"tunroute", n>> \in net

\* A step of clearNetworkRules, from the fields of the session.
Removes(step) ==
  CASE step = "dev" -> OnDevice(t.name)
    [] step \in {"tunroute", "resolved"} -> {<<step, t.name>>}
    [] step = "proxy" -> {<<"proxy", t.server>>}
    [] step = "dns"   -> IF t.plan = "legacy" THEN {<<"dns", None>>} ELSE {}
    [] step = "split" -> SplitRules
    [] step = "rp"    -> {}
    [] OTHER -> {<<step, None>>}

\* restoreRpFilter, when its script runs.
RestoreRpFilter ==
  /\ rp' = IF rpfile = "none" THEN rp ELSE rpfile
  /\ rpfile' = "none"

-------------------------------------------------------------------------------
(* clearNetworkRules *)

\* A script fails.
Fault == faults < MaxFaults /\ faults' = faults + 1

Clearing(then) == [Free EXCEPT !.op = "clear", !.then = then]

\* Every script runs, whatever the earlier ones returned.
ClearStep ==
  /\ mu.op = "clear" /\ mu.i <= Len(ClearSteps)
  /\ net' = net \ Removes(ClearSteps[mu.i])
  /\ \/ /\ IF ClearSteps[mu.i] = "rp" THEN RestoreRpFilter ELSE UNCHANGED <<rp, rpfile>>
        /\ mu' = [mu EXCEPT !.i = @ + 1]
        /\ UNCHANGED faults
     \/ /\ ClearSteps[mu.i] = "rp" /\ rpfile # "none" /\ Fault
        /\ mu' = [mu EXCEPT !.i = @ + 1, !.err = TRUE]
        /\ UNCHANGED <<rp, rpfile>>
  /\ UNCHANGED <<conf, t, cm, clientVars, past, failed>>

ClearEnd(then) == mu.op = "clear" /\ mu.i = Len(ClearSteps) + 1 /\ mu.then = then

-------------------------------------------------------------------------------
(* enableTun, with ConnectionMutex held *)

\* EnableTun, EnableTunForProfile and the last part of Connect, once the server
\* is resolved.
EnableTun(s) ==
  /\ daemon /\ cm.at = "free" /\ mu.op = "free" /\ ~t.on
  /\ cm' = [NoCmd EXCEPT !.at = "plan", !.server = s]
  /\ UNCHANGED <<conf, kernel, t, mu, clientVars, history, failed>>

\* dnsHijackFor: by the routing of the profile, and the split mode at this moment.
DnsHijackFor == {"legacy", IF conf.split = "include" THEN "happ_off" ELSE "happ"}

EnablePlan ==
  /\ cm.at = "plan"
  /\ \E plan \in DnsHijackFor : cm' = [cm EXCEPT !.at = "enable", !.plan = plan]
  /\ UNCHANGED <<conf, kernel, t, mu, clientVars, history, failed>>

\* Start takes t.mu and clears with the fields of the previous session.
StartLock ==
  /\ cm.at = "enable" /\ mu.op = "free"
  /\ mu' = Clearing("begin")
  /\ cm' = [cm EXCEPT !.at = "start"]
  /\ UNCHANGED <<conf, kernel, t, clientVars, history, failed>>

\* The fields are replaced, unless clearing failed or there is no default interface.
StartFields ==
  /\ ClearEnd("begin")
  /\ \/ /\ ~mu.err
        /\ t' = [t EXCEPT !.name = conf.name, !.server = cm.server, !.plan = cm.plan]
        /\ mu' = [Free EXCEPT !.op = "start"]
        /\ UNCHANGED <<cm, faults>>
     \/ /\ mu.err
        /\ mu' = Free /\ cm' = NoCmd
        /\ UNCHANGED <<t, faults>>
     \/ /\ ~mu.err /\ Fault
        /\ t' = [t EXCEPT !.name = conf.name]
        /\ mu' = Free /\ cm' = NoCmd
  /\ UNCHANGED <<conf, kernel, clientVars, past, failed>>

\* Mutant: a failed script only ends the start.
StartStepNoClear ==
  /\ mu.op = "start" /\ mu.i <= Len(StartSteps)
  /\ LET step == StartSteps[mu.i] IN
     \/ /\ ~Refused(step)
        /\ net' = (IF step = "dev" THEN net \ OnDevice(t.name) ELSE net) \cup Installs(step)
        /\ mu' = [mu EXCEPT !.i = @ + 1]
        /\ UNCHANGED <<cm, faults>>
     \/ /\ Fault
        /\ UNCHANGED net
        /\ mu' = Free /\ cm' = NoCmd
  /\ UNCHANGED <<conf, rp, rpfile, t, clientVars, past, failed>>

\* loosenRpFilter keeps a value that is already saved.
RpSaved == IF rpfile = "none" THEN rp ELSE rpfile

\* One script of Start.  A script that fails may have done its work in part, and
\* sends Start into clearNetworkRules; uid routing and resolved only warn.
StartStep ==
  /\ mu.op = "start" /\ mu.i <= Len(StartSteps)
  /\ LET step == StartSteps[mu.i] IN
     \/ /\ ~Refused(step)
        /\ net' = (IF step = "dev" THEN net \ OnDevice(t.name) ELSE net) \cup Installs(step)
        /\ rpfile' = IF step = "rp_save" THEN RpSaved ELSE rpfile
        /\ rp' = IF step = "rp_set" THEN "loose" ELSE rp
        /\ mu' = [mu EXCEPT !.i = @ + 1]
        /\ UNCHANGED faults
     \/ /\ \/ Refused(step) /\ UNCHANGED faults
           \/ ~Refused(step) /\ step # "rp_save" /\ Fault
        /\ net' \in {net, net \cup Installs(step)}
        /\ mu' = IF step \in {"uid", "resolved"} THEN [mu EXCEPT !.i = @ + 1]
                 ELSE Clearing("fail")
        /\ UNCHANGED <<rp, rpfile>>
  /\ UNCHANGED <<conf, t, cm, clientVars, past, failed>>

StartFailed ==
  /\ ClearEnd("fail")
  /\ mu' = Free /\ cm' = NoCmd
  /\ UNCHANGED <<conf, kernel, t, clientVars, history, failed>>

StartDone ==
  /\ mu.op = "start" /\ mu.i = Len(StartSteps) + 1
  /\ t' = [t EXCEPT !.on = TRUE]
  /\ mu' = Free
  /\ cm' = [cm EXCEPT !.at = "reload"]
  /\ failed' = {}
  /\ UNCHANGED <<conf, kernel, clientVars, history>>

-------------------------------------------------------------------------------
(* Stop *)

\* The proxy takes the TUN inbound over; if it cannot, TUN is stopped again.
EnableReload ==
  /\ cm.at = "reload"
  /\ \/ cm' = NoCmd /\ UNCHANGED <<mu, faults>>
     \/ /\ Fault /\ mu.op = "free" /\ t.on
        /\ cm' = [NoCmd EXCEPT !.at = "stop"] /\ mu' = Clearing("stop")
  /\ UNCHANGED <<conf, kernel, t, clientVars, past, failed>>

\* DisableTun, Disconnect and the first part of Connect.
DisableTun ==
  /\ daemon /\ cm.at = "free" /\ mu.op = "free" /\ t.on
  /\ cm' = [NoCmd EXCEPT !.at = "stop"]
  /\ mu' = Clearing("stop")
  /\ UNCHANGED <<conf, kernel, t, clientVars, history, failed>>

\* The handler of an unexpected exit of the proxy, and the shutdown: Stop without
\* ConnectionMutex.
ExitHandler ==
  /\ daemon /\ mu.op = "free" /\ t.on
  /\ mu' = Clearing("stop")
  /\ UNCHANGED <<conf, kernel, t, cm, clientVars, history, failed>>

Stopped ==
  /\ ClearEnd("stop")
  /\ t' = [t EXCEPT !.on = FALSE, !.plan = "none"]
  /\ mu' = Free
  /\ cm' = IF cm.at = "stop" THEN NoCmd ELSE cm
  /\ UNCHANGED <<conf, kernel, clientVars, history, failed>>

-------------------------------------------------------------------------------
(* Live changes *)

At(c, from, to) == pc[c] = from /\ pc' = [pc EXCEPT ![c] = to]

SetTunName(n) ==
  /\ daemon /\ conf.name # n
  /\ conf' = [conf EXCEPT !.name = n]
  /\ UNCHANGED <<kernel, t, mu, cm, clientVars, history, failed>>

SetSplitTunnel(c, mode) ==
  /\ daemon /\ At(c, "idle", "check")
  /\ conf' = [conf EXCEPT !.split = mode]
  /\ UNCHANGED <<kernel, t, mu, cm, loc, history, failed>>

\* IsEnabledLocked
SplitCheck(c) ==
  /\ mu.op = "free"
  /\ At(c, "check", IF t.on THEN "split" ELSE "idle")
  /\ UNCHANGED <<conf, kernel, t, mu, cm, loc, history, failed>>

\* ReapplySplit up to its first script; nothing when TUN went down meanwhile.
ReapplySplit(c) ==
  /\ mu.op = "free"
  /\ \/ /\ t.on /\ At(c, "split", "splitting")
        /\ mu' = [Free EXCEPT !.op = "split"]
        /\ net' = net \ SplitRules
     \/ /\ ~t.on /\ At(c, "split", "redns")
        /\ UNCHANGED <<mu, net>>
  /\ UNCHANGED <<conf, rp, rpfile, t, cm, loc, history, failed>>

SplitFails(c) == At(c, "splitting", "idle") /\ mu' = Free /\ failed' = failed \cup {"split"}

\* Mutant: the default route is left as it was.
ReapplyRouteKeep(c) ==
  /\ mu.op = "split" /\ mu.i = 1 /\ pc[c] = "splitting"
  /\ mu' = [mu EXCEPT !.i = 2]
  /\ UNCHANGED <<net, pc, failed, conf, rp, rpfile, t, cm, loc, history>>

\* The system-wide route through the TUN is there in every mode but include.
ReapplyRoute(c) ==
  /\ mu.op = "split" /\ mu.i = 1 /\ pc[c] = "splitting"
  /\ LET rest == net \ {<<"tunroute", t.name>>} IN
     \/ /\ conf.split = "include" \/ \A n \in Names : <<"tunroute", n>> \notin rest
        /\ net' = rest \cup Installs("tunroute")
        /\ mu' = [mu EXCEPT !.i = 2]
        /\ UNCHANGED <<pc, failed, faults>>
     \/ /\ conf.split # "include"
        /\ \/ Fault
           \/ (\E n \in Names : <<"tunroute", n>> \in rest) /\ UNCHANGED faults
        /\ net' = rest
        /\ SplitFails(c)
  /\ UNCHANGED <<conf, rp, rpfile, t, cm, loc, past>>

\* applySplitRules reads the mode again.
ReapplyRules(c) ==
  /\ mu.op = "split" /\ mu.i = 2
  /\ \/ /\ At(c, "splitting", "redns")
        /\ net' = net \cup Installs("split")
        /\ mu' = Free
        /\ failed' = failed \ {"split"}
        /\ UNCHANGED faults
     \/ /\ Fault /\ conf.split # "off"
        /\ net' \in {net, net \cup Installs("split")}
        /\ SplitFails(c)
  /\ UNCHANGED <<conf, rp, rpfile, t, cm, loc, past>>

\* setDnsHijackLocked while TUN is up: the old plan goes, the new one comes.
SetDnsHijack(plan) ==
  LET rules == {<<"hijack", None>>, <<"resolved", t.name>>}
      rest  == net \ (rules \cup IF t.plan = "legacy" THEN {<<"dns", None>>} ELSE {})
      new   == (IF plan = "legacy" THEN {<<"dns", None>>} ELSE {})
               \cup (IF Enabled(plan) THEN rules ELSE {})
      there == plan = "legacy" /\ <<"dns", None>> \in rest
  IN /\ t' = [t EXCEPT !.plan = plan]
     /\ \/ /\ ~there
           /\ net' = rest \cup new
           /\ failed' = failed \ {"dns"}
           /\ UNCHANGED faults
        \/ /\ Fault \/ (there /\ UNCHANGED faults)
           /\ \E S \in SUBSET new : net' = rest \cup S
           /\ failed' = failed \cup {"dns"}

\* ReapplyDnsHijack: the plan of a Happ profile follows the split mode.
ReapplyDnsHijack(c) ==
  /\ mu.op = "free" /\ At(c, "redns", "idle")
  /\ LET want == IF conf.split = "include" THEN "happ_off" ELSE "happ" IN
     \/ /\ t.on /\ t.plan \in {"happ", "happ_off"} \ {want}
        /\ SetDnsHijack(want)
     \/ /\ ~t.on \/ t.plan \in {"none", "legacy", want}
        /\ UNCHANGED <<t, net, failed, faults>>
  /\ UNCHANGED <<conf, rp, rpfile, mu, cm, loc, past>>

\* refreshDnsHijackFor: IsEnabledLocked, dnsHijackFor, SetDnsHijack.
RefreshCheck(c) ==
  /\ daemon /\ mu.op = "free" /\ t.on
  /\ At(c, "idle", "plan")
  /\ UNCHANGED <<conf, kernel, t, mu, cm, loc, history, failed>>

RefreshPlan(c) ==
  /\ At(c, "plan", "sethijack")
  /\ \E plan \in DnsHijackFor : loc' = [loc EXCEPT ![c] = plan]
  /\ UNCHANGED <<conf, kernel, t, mu, cm, history, failed>>

RefreshApply(c) ==
  /\ mu.op = "free" /\ At(c, "sethijack", "idle")
  /\ IF t.on THEN SetDnsHijack(loc[c]) ELSE UNCHANGED <<t, net, failed, faults>>
  /\ loc' = [loc EXCEPT ![c] = "none"]
  /\ UNCHANGED <<conf, rp, rpfile, mu, cm, past>>

-------------------------------------------------------------------------------
(* Death and start of the daemon *)

\* What the kernel holds and what is on disk stays.
Die ==
  /\ daemon /\ deaths < MaxDeaths
  /\ daemon' = FALSE /\ deaths' = deaths + 1
  /\ t' = Idle /\ mu' = Free /\ cm' = NoCmd
  /\ pc' = [c \in Clients |-> "idle"]
  /\ loc' = [c \in Clients |-> "none"]
  /\ failed' = {}
  /\ UNCHANGED <<conf, kernel, faults, orphans>>

\* buildReconcileScript, for the configured name.
Reconciled ==
  OnDevice(conf.name) \cup SplitRules \cup ({"hijack", "mark", "uid"} \X {None})
    \cup (IF Backend = "nft" THEN {<<"conntrack", None>>} ELSE {})

\* A failure to restore rp_filter ends the reconcile before its script.
ReconcileOrphanedRules ==
  /\ ~daemon
  /\ daemon' = TRUE
  /\ \/ RestoreRpFilter /\ net' = net \ Reconciled /\ UNCHANGED faults
     \/ rpfile # "none" /\ Fault /\ UNCHANGED kernel
  /\ orphans' = net'
  /\ UNCHANGED <<conf, t, mu, cm, clientVars, deaths, failed>>

-------------------------------------------------------------------------------
Locked == ClearStep \/ StartFields \/ StartStep \/ StartFailed \/ StartDone \/ Stopped

Command ==
  \/ \E s \in Servers : EnableTun(s)
  \/ EnablePlan \/ StartLock \/ EnableReload \/ DisableTun \/ ExitHandler

Live(c) ==
  \/ \E mode \in Modes : SetSplitTunnel(c, mode)
  \/ SplitCheck(c) \/ ReapplySplit(c) \/ ReapplyRoute(c) \/ ReapplyRules(c)
  \/ ReapplyDnsHijack(c)
  \/ RefreshCheck(c) \/ RefreshPlan(c) \/ RefreshApply(c)

Next ==
  \/ Locked \/ Command
  \/ \E n \in Names : SetTunName(n)
  \/ \E c \in Clients : Live(c)
  \/ Die \/ ReconcileOrphanedRules

Spec == Init /\ [][Next]_vars
-------------------------------------------------------------------------------
(* Properties *)

AtRest == daemon /\ mu.op = "free"

\* With TUN off nothing of any session is left in the kernel, whichever script of
\* Start failed, whatever was renamed or changed live, and whoever stopped it;
\* only what the startup reconcile itself did not remove can be there.
OffMeansClean == AtRest /\ ~t.on => net \subseteq orphans

\* The route that captures all traffic is in the kernel only together with the
\* routes that keep Xray's own packets out of the tunnel, at every moment of a
\* start, a stop, a failure and a mode change: there is no routing loop.
BypassBeforeCapture ==
  <<"tunroute", t.name>> \in net \ orphans =>
    {<<"proxy", t.server>>, <<"mark", None>>} \subseteq net

\* The rp_filter value the machine had can always be put back: it is in the state
\* file whenever the interface is loosened, at every point a crash can strike.
RpFilterRecoverable == rp = "loose" => rpfile = "strict"

\* Once all commands are done, a running TUN routes by the configured split mode,
\* in whatever order starts and mode changes met, unless a change failed.
SplitFollowsMode ==
  AtRest /\ t.on /\ "split" \notin failed /\ (\A c \in Clients : pc[c] = "idle") =>
    /\ <<"tunroute", t.name>> \in net <=> conf.split # "include"
    /\ net \cap SplitRules = {"split"} \X ({conf.split} \ {"off"})

-------------------------------------------------------------------------------
(* Claims of comments that the code does not keep *)

\* reconcile.go: "It covers every artifact the core can create".
ReconcileIsComplete == daemon => orphans = {}

\* commands/tun.go: "except in include split mode where the hijack must stay
\* disabled".
NoHijackInInclude ==
  AtRest /\ t.on /\ conf.split = "include" /\ (\A c \in Clients : pc[c] = "idle")
    => t.plan # "happ"
===============================================================================
