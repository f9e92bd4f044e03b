------------------------------ MODULE KillSwitch ------------------------------
(***************************************************************************)
(* The kill-switch: the user's intent in the configuration, the rules in   *)
(* the kernel, and everything that moves one without the other             *)
(* (commands/{killswitch,connect,split,repair}.go,                         *)
(* lib/proxy/tun/{killswitch,reconcile}.go, lib/AppConfig, main.go).       *)
(*                                                                         *)
(* Commands that take ConnectionMutex run one at a time: sec is the place  *)
(* of the one that holds it.  SetSplitTunnel and RepairConfig take no lock *)
(* and run in the goroutine of a client.  The firewall scripts run in the  *)
(* holder of ConnectionMutex, or at startup before any client is served.   *)
(*                                                                         *)
(* A server stands for its resolved IPs, in both address families.  The    *)
(* split mode matters here only when it is "include".                      *)
(***************************************************************************)
EXTENDS FiniteSets

CONSTANTS
  Servers,     \* VPN servers
  NoServer,
  Clients,     \* clients that run commands without ConnectionMutex
  Backend,     \* probeFirewall: "nft" or "iptables"
  WritesFail   \* whether config.json may be unwritable

ASSUME KillSwitchAssumption ==
  /\ NoServer \notin Servers
  /\ Backend \in {"nft", "iptables"}
  /\ WritesFail \in BOOLEAN

VARIABLES
  conf,        \* application_configuration
  disk,        \* config.json
  bak,         \* config.json.bak
  fw,          \* the rules in force, per address family
  script,      \* the installation script that is running
  link,        \* the proxy: connected?, to which server, are its IPs known?
  sec, arg,    \* the holder of ConnectionMutex and its locals
  pc, loc,     \* the clients
  daemon,      \* "up", or how far a start has come
  shown,       \* the last kill-switch-updated
  unverified   \* history: the flag was changed without the rules following it

vars == <<conf, disk, bak, fw, script, link, sec, arg, pc, loc, daemon, shown, unverified>>

Families == {"v4", "v6"}
Config   == [ks : BOOLEAN, split : {"include", "other"}]
Rules    == [on : BOOLEAN, local : BOOLEAN, servers : SUBSET Servers]
Script   == [at : {"idle", "boot", "batch", "clear", "v4", "v6", "ok", "failed"},
             allow : SUBSET Servers]
Link     == [up : BOOLEAN, server : Servers \cup {NoServer}, ips : BOOLEAN]
Reply    == [enabled : BOOLEAN, armed : BOOLEAN]
Sections == {"free", "hook", "hooked", "start", "arm", "verify", "save"}
Args     == [server : Servers \cup {NoServer}, ips : BOOLEAN, snap : Config,
             armed : {"yes", "no", "probe"}]

TypeOK ==
  /\ conf \in Config /\ disk \in Config /\ bak \in Config
  /\ fw \in [Families -> Rules]
  /\ script \in Script
  /\ link \in Link
  /\ sec \in Sections /\ arg \in Args
  /\ pc \in [Clients -> {"idle", "set", "write", "load", "assign"}]
  /\ loc \in [Clients -> Config]
  /\ daemon \in {"down", "loaded", "rearm", "up"}
  /\ shown \in Reply
  /\ unverified \in BOOLEAN

-------------------------------------------------------------------------------
(* Values *)

Default   == [ks |-> FALSE, split |-> "other"]
Open      == [on |-> FALSE, local |-> FALSE, servers |-> {}]
Blackhole == [on |-> TRUE, local |-> FALSE, servers |-> {}]
Block(S)  == [on |-> TRUE, local |-> TRUE, servers |-> S]
Everywhere(r) == [f \in Families |-> r]

NoLink   == [up |-> FALSE, server |-> NoServer, ips |-> FALSE]
NoScript == [at |-> "idle", allow |-> {}]
NoArgs   == [server |-> NoServer, ips |-> FALSE, snap |-> Default, armed |-> "no"]

Blocked == \A f \in Families : fw[f].on
AllOpen == \A f \in Families : ~fw[f].on

\* KillSwitchArmed: one family that is seen blocked is enough; what cannot be
\* inspected counts as not armed.
ProbeOutcomes == {FALSE, \E f \in Families : fw[f].on}

\* LoadConfig gives up the kill-switch of a file that combines it with include.
Normalize(c) == IF c.split = "include" THEN [c EXCEPT !.ks = FALSE] ELSE c

\* SaveConfig: a failed write is only logged.
Saved(snap) == IF WritesFail THEN {disk, snap} ELSE {snap}

Init ==
  /\ conf = Default /\ disk = Default /\ bak = Default
  /\ fw = Everywhere(Open)
  /\ script = NoScript
  /\ link = NoLink
  /\ sec = "free" /\ arg = NoArgs
  /\ pc = [c \in Clients |-> "idle"]
  /\ loc = [c \in Clients |-> Default]
  /\ daemon = "up"
  /\ shown = [enabled |-> FALSE, armed |-> FALSE]
  /\ unverified = FALSE

confVars   == <<conf, disk, bak>>
clientVars == <<pc, loc>>

-------------------------------------------------------------------------------
(* The firewall scripts *)

\* SetupKillSwitchBlock starts the script of the backend.
Setup(allow) ==
  script' = [at |-> IF Backend = "nft" THEN "boot" ELSE "clear", allow |-> allow]

ScriptVars == <<conf, disk, bak, link, sec, arg, pc, loc, daemon, shown, unverified>>

Goto(to) == script' = [script EXCEPT !.at = to]

\* Mutant: the table is deleted before it is filled again.
NftBootDelete ==
  /\ script.at = "boot"
  /\ fw' = Everywhere(Open) /\ Goto("batch")
  /\ UNCHANGED ScriptVars

\* The chain is created with policy drop when it is not there.
NftBoot ==
  /\ script.at = "boot"
  /\ \/ fw' = (IF Blocked THEN fw ELSE Everywhere(Blackhole)) /\ Goto("batch")
     \/ Goto("failed") /\ UNCHANGED fw
  /\ UNCHANGED ScriptVars

\* One nft transaction flushes the chain and fills it.
NftBatch ==
  /\ script.at = "batch"
  /\ \/ fw' = Everywhere(Block(script.allow)) /\ Goto("ok")
     \/ Goto("failed") /\ UNCHANGED fw
  /\ UNCHANGED ScriptVars

\* iptables, then ip6tables: every jump goes, the chain is flushed and deleted.
IptablesClear ==
  /\ script.at = "clear"
  /\ \E S \in {{}, {"v4"}, Families} :
       /\ fw' = [f \in Families |-> IF f \in S THEN Open ELSE fw[f]]
       /\ Goto(IF S = Families THEN "v4" ELSE "failed")
  /\ UNCHANGED ScriptVars

\* The chain of a family is filled and its jump inserted last.
IptablesFill(f) ==
  /\ script.at = f
  /\ \/ /\ fw' = [fw EXCEPT ![f] = Block(script.allow)]
        /\ Goto(IF f = "v4" THEN "v6" ELSE "ok")
     \/ Goto("failed") /\ UNCHANGED fw
  /\ UNCHANGED ScriptVars

RunScript == NftBoot \/ NftBatch \/ IptablesClear \/ \E f \in Families : IptablesFill(f)

\* What a teardown may leave behind: one nft table, or one chain per family.
Removable == IF Backend = "nft" THEN {{}, Families} ELSE SUBSET Families
Remove(S) == fw' = [f \in Families |-> IF f \in S THEN Open ELSE fw[f]]

-------------------------------------------------------------------------------
(* Connect and Disconnect *)

\* cmd.Connect stops the proxy; ProxyManager.Connect resolves the new server.
Connect(s) ==
  /\ daemon = "up" /\ sec = "free"
  /\ link' = NoLink
  /\ \E ips \in BOOLEAN : arg' = [NoArgs EXCEPT !.server = s, !.ips = ips]
  /\ sec' = "hook"
  /\ UNCHANGED <<confVars, fw, script, clientVars, daemon, shown, unverified>>

\* The pre-start hook of main.go.  Without IPs to allow it aborts the connect.
PreStart ==
  /\ sec = "hook"
  /\ \/ /\ conf.ks /\ arg.ips
        /\ Setup({arg.server})
        /\ sec' = "hooked"
        /\ UNCHANGED arg
     \/ /\ conf.ks /\ ~arg.ips
        /\ sec' = "free" /\ arg' = NoArgs
        /\ UNCHANGED script
     \/ /\ ~conf.ks
        /\ sec' = "start"
        /\ UNCHANGED <<script, arg>>
  /\ UNCHANGED <<confVars, fw, link, clientVars, daemon, shown, unverified>>

\* Mutant: the error of the firewall script is not returned.
PreStartDoneUnchecked ==
  /\ sec = "hooked"
  /\ script.at \in {"ok", "failed"}
  /\ script' = NoScript
  /\ sec' = "start"
  /\ UNCHANGED <<confVars, fw, link, arg, clientVars, daemon, shown, unverified>>

\* Mutant: a failed script leaves the hook waiting.
PreStartDoneStuck ==
  /\ sec = "hooked"
  /\ script' = NoScript
  /\ script.at = "ok" /\ sec' = "start" /\ UNCHANGED arg
  /\ UNCHANGED <<confVars, fw, link, clientVars, daemon, shown, unverified>>

PreStartDone ==
  /\ sec = "hooked"
  /\ script' = NoScript
  /\ \/ script.at = "ok" /\ sec' = "start" /\ UNCHANGED arg
     \/ script.at = "failed" /\ sec' = "free" /\ arg' = NoArgs
  /\ UNCHANGED <<confVars, fw, link, clientVars, daemon, shown, unverified>>

\* Xray starts, or does not.
StartXray ==
  /\ sec = "start"
  /\ link' \in {NoLink, [up |-> TRUE, server |-> arg.server, ips |-> arg.ips]}
  /\ sec' = "free" /\ arg' = NoArgs
  /\ UNCHANGED <<confVars, fw, script, clientVars, daemon, shown, unverified>>

\* Disconnect leaves the block in place.
Disconnect ==
  /\ daemon = "up" /\ sec = "free"
  /\ link' = NoLink
  /\ UNCHANGED <<confVars, fw, script, sec, arg, clientVars, daemon, shown, unverified>>

\* Xray dies, or a reload cannot restart it.
Drop ==
  /\ link.up
  /\ link' = NoLink
  /\ UNCHANGED <<confVars, fw, script, sec, arg, clientVars, daemon, shown, unverified>>

-------------------------------------------------------------------------------
(* SetKillSwitch *)

\* appconfig.SetKillSwitch: the flag is set and the configuration marshalled;
\* KsSave writes the file and sends the reply.
SetIntent(on, armed) ==
  /\ conf' = [conf EXCEPT !.ks = on]
  /\ arg' = [NoArgs EXCEPT !.snap = [conf EXCEPT !.ks = on], !.armed = armed]
  /\ sec' = "save"

\* Enabling is refused in include mode; the reply is the state as it is.
KsRefuse ==
  /\ daemon = "up" /\ sec = "free"
  /\ conf.split = "include"
  /\ \E a \in ProbeOutcomes : shown' = [enabled |-> conf.ks, armed |-> conf.ks /\ a]
  /\ UNCHANGED <<confVars, fw, script, link, sec, arg, clientVars, daemon, unverified>>

\* Mutant: a live connection is armed with an empty allowlist.
KsEnableEmpty ==
  /\ daemon = "up" /\ sec = "free"
  /\ conf.split # "include"
  /\ Setup({})
  /\ sec' = "arm"
  /\ UNCHANGED <<conf, arg, disk, bak, fw, link, clientVars, daemon, shown, unverified>>

\* An allowlist without the server of a live connection would cut it.
KsEnable ==
  /\ daemon = "up" /\ sec = "free"
  /\ conf.split # "include"
  /\ \/ /\ link.up /\ ~link.ips
        /\ SetIntent(TRUE, "probe")
        /\ UNCHANGED script
     \/ /\ ~(link.up /\ ~link.ips)
        /\ Setup(IF link.up THEN {link.server} ELSE {})
        /\ sec' = "arm"
        /\ UNCHANGED <<conf, arg>>
  /\ UNCHANGED <<disk, bak, fw, link, clientVars, daemon, shown, unverified>>

\* Mutant: a failed installation is reported as armed.
KsArmedUnchecked ==
  /\ sec = "arm"
  /\ script.at \in {"ok", "failed"}
  /\ script' = NoScript
  /\ SetIntent(TRUE, "yes")
  /\ UNCHANGED <<disk, bak, fw, link, clientVars, daemon, shown, unverified>>

\* The intent is kept even when arming failed.
KsArmed ==
  /\ sec = "arm"
  /\ script.at \in {"ok", "failed"}
  /\ script' = NoScript
  /\ SetIntent(TRUE, IF script.at = "ok" THEN "yes" ELSE "probe")
  /\ UNCHANGED <<disk, bak, fw, link, clientVars, daemon, shown, unverified>>

\* RemoveKillSwitchBlock without its verification.
KsDisable ==
  /\ daemon = "up" /\ sec = "free"
  /\ \E S \in Removable : Remove(S)
  /\ sec' = "verify"
  /\ UNCHANGED <<confVars, script, link, arg, clientVars, daemon, shown, unverified>>

\* Off only when no rule is left; anything else, a failed inspection included,
\* keeps the switch on.
KsVerify ==
  /\ sec = "verify"
  /\ \/ AllOpen /\ SetIntent(FALSE, "no") /\ unverified' = FALSE
     \/ SetIntent(TRUE, "probe") /\ UNCHANGED unverified
  /\ UNCHANGED <<disk, bak, fw, script, link, clientVars, daemon, shown>>

\* Force: best-effort removal, the result of the verification is ignored.
KsForce ==
  /\ daemon = "up" /\ sec = "free"
  /\ \E S \in Removable : Remove(S)
  /\ SetIntent(FALSE, "no")
  /\ unverified' = TRUE
  /\ UNCHANGED <<disk, bak, script, link, clientVars, daemon, shown>>

\* The file is replaced (a failed write is only logged) and the reply sent.
KsSave ==
  /\ sec = "save"
  /\ disk' \in Saved(arg.snap)
  /\ \/ /\ arg.armed = "probe"
        /\ \E a \in ProbeOutcomes : shown' = [enabled |-> conf.ks, armed |-> conf.ks /\ a]
     \/ /\ arg.armed # "probe"
        /\ shown' = [enabled |-> arg.snap.ks, armed |-> arg.armed = "yes"]
  /\ sec' = "free" /\ arg' = NoArgs
  /\ UNCHANGED <<conf, bak, fw, script, link, clientVars, daemon, unverified>>

-------------------------------------------------------------------------------
(* SetSplitTunnel and RepairConfig, without ConnectionMutex *)

At(c, from, to) == pc[c] = from /\ pc' = [pc EXCEPT ![c] = to]

ClientVars == <<fw, script, link, sec, arg, daemon, shown, unverified>>

\* The refusal reads the flag here; the mode is stored in a later step.
SplitCheck(c, mode) ==
  /\ daemon = "up"
  /\ ~(mode = "include" /\ conf.ks)
  /\ At(c, "idle", "set")
  /\ loc' = [loc EXCEPT ![c] = [conf EXCEPT !.split = mode]]
  /\ UNCHANGED <<confVars, ClientVars>>

SplitSet(c) ==
  /\ At(c, "set", "write")
  /\ conf' = [conf EXCEPT !.split = loc[c].split]
  /\ loc' = [loc EXCEPT ![c] = [conf EXCEPT !.split = loc[c].split]]
  /\ UNCHANGED <<disk, bak, ClientVars>>

SplitWrite(c) ==
  /\ At(c, "write", "idle")
  /\ disk' \in Saved(loc[c])
  /\ UNCHANGED <<conf, bak, loc, ClientVars>>

\* RestoreFromBackup puts the backup in place of config.json.
RepairWrite(c) ==
  /\ daemon = "up"
  /\ At(c, "idle", "load")
  /\ disk' = bak
  /\ UNCHANGED <<conf, bak, loc, ClientVars>>

\* LoadConfig reads the file ...
RepairLoad(c) ==
  /\ At(c, "load", "assign")
  /\ loc' = [loc EXCEPT ![c] = Normalize(disk)]
  /\ UNCHANGED <<confVars, ClientVars>>

\* ... and later overwrites the whole configuration, the flag included, without a
\* look at the rules; refreshBackup follows.
RepairAssign(c) ==
  /\ At(c, "assign", "idle")
  /\ conf' = loc[c]
  /\ bak' = disk
  /\ unverified' = (unverified \/ loc[c].ks # conf.ks)
  /\ UNCHANGED <<disk, loc, fw, script, link, sec, arg, daemon, shown>>

-------------------------------------------------------------------------------
(* Death and start of the daemon *)

\* Crash, kill or shutdown: the rules and the files stay.
Die ==
  /\ daemon # "down"
  /\ daemon' = "down"
  /\ link' = NoLink /\ script' = NoScript
  /\ sec' = "free" /\ arg' = NoArgs
  /\ pc' = [c \in Clients |-> "idle"]
  /\ loc' = [c \in Clients |-> Default]
  /\ UNCHANGED <<confVars, fw, shown, unverified>>

\* LoadConfig at startup.
Load ==
  /\ daemon = "down"
  /\ daemon' = "loaded"
  /\ conf' = Normalize(disk)
  /\ bak' = disk
  /\ UNCHANGED <<disk, fw, script, link, sec, arg, clientVars, shown, unverified>>

\* Mutant: only the nft table of a crashed session is removed.
ReconcileOneFamily ==
  /\ daemon = "loaded"
  /\ Remove({"v4"})
  /\ unverified' = FALSE
  /\ \/ conf.ks /\ Setup({}) /\ daemon' = "rearm"
     \/ ~conf.ks /\ daemon' = "up" /\ UNCHANGED script
  /\ UNCHANGED <<confVars, link, sec, arg, clientVars, shown>>

\* ReconcileOrphanedRules, whose failure is only logged, then the re-arm.
Reconcile ==
  /\ daemon = "loaded"
  /\ \E S \in Removable : Remove(S) /\ unverified' = (S # Families)
  /\ \/ conf.ks /\ Setup({}) /\ daemon' = "rearm"
     \/ ~conf.ks /\ daemon' = "up" /\ UNCHANGED script
  /\ UNCHANGED <<confVars, link, sec, arg, clientVars, shown>>

\* A failed re-arm is only logged.
Rearmed ==
  /\ daemon = "rearm"
  /\ script.at \in {"ok", "failed"}
  /\ script' = NoScript
  /\ daemon' = "up"
  /\ UNCHANGED <<confVars, fw, link, sec, arg, clientVars, shown, unverified>>

-------------------------------------------------------------------------------
Holder == PreStart \/ PreStartDone \/ StartXray \/ KsArmed \/ KsVerify \/ KsSave

Commands ==
  \/ \E s \in Servers : Connect(s)
  \/ Disconnect
  \/ KsRefuse \/ KsEnable \/ KsDisable \/ KsForce

ClientStep(c) ==
  \/ \E mode \in {"include", "other"} : SplitCheck(c, mode)
  \/ SplitSet(c) \/ SplitWrite(c)
  \/ RepairWrite(c) \/ RepairLoad(c) \/ RepairAssign(c)

Startup == Load \/ Reconcile \/ Rearmed

Next ==
  \/ Commands \/ Holder \/ RunScript \/ Drop
  \/ \E c \in Clients : ClientStep(c)
  \/ Die \/ Startup

\* The goroutine that holds ConnectionMutex and its script go on; a stopped
\* daemon is started again by systemd or by the client.
Fairness == WF_vars(Holder) /\ WF_vars(RunScript) /\ WF_vars(Startup)

Spec == Init /\ [][Next]_vars /\ Fairness
-------------------------------------------------------------------------------
(* Properties *)

\* A profile is never reported connected with the kill-switch on and a rule set
\* that is missing in a family or does not let its server through: the hook, the
\* script and the start are one section, whatever fails in it.  Only a RepairConfig
\* that changes the flag inside the section escapes.
ConnectedOnlyWhenArmed ==
  [][ ~link.up /\ link'.up /\ conf.ks /\ ~unverified =>
        \A f \in Families : fw[f].on /\ link'.server \in fw[f].servers ]_vars

\* "off" is never claimed while rules still drop traffic: with the flag off and
\* nothing under way no rule is left, through partial installations, crashes and
\* restarts, except after a force-disable, a reconcile that failed or a
\* RepairConfig that changed the flag.
OffMeansOpen ==
  daemon = "up" /\ sec = "free" /\ ~conf.ks /\ ~unverified => AllOpen

\* A reply that says "armed" is true of both families when it is sent.
ArmedReplyIsTrue ==
  [][ shown' # shown /\ shown'.armed => Blocked ]_vars

\* The rules of an armed machine open only when the user disables the switch or a
\* start reconciles: connecting, switching, re-arming, failing scripts,
\* disconnecting, drops and the death of the daemon all keep them.
OpensOnlyOnRequest ==
  [][ Blocked /\ ~Blocked' =>
        \/ daemon = "loaded"
        \/ sec = "free" /\ sec' \in {"verify", "save"} ]_vars

\* Rules that are in force let the server of a live connection through, unless an
\* unverified block is about: arming does not cut the tunnel it protects.
LiveServerAllowed ==
  link.up /\ ~unverified =>
    \A f \in Families : fw[f].on => link.server \in fw[f].servers

\* Every command that takes ConnectionMutex gives it back, on every way out of the
\* hook, the scripts, the verification and the save.
LockComesFree == sec # "free" ~> sec = "free"

-------------------------------------------------------------------------------
(* Claims of docs and comments that the code does not keep *)

\* killswitch.md: "The core rejects enabling either feature while the other is
\* active".
NeverWithInclude == ~(conf.ks /\ conf.split = "include")

\* killswitch.md: "The block itself is never removed for the duration of a
\* connect, so there is no unprotected window".
NoWindowDuringConnect == [][ sec = "hooked" /\ Blocked => Blocked' ]_vars
===============================================================================
