-------------------------- MODULE KillSwitchProofs --------------------------
(***************************************************************************)
(* Type correctness and the safety properties of the kill-switch, for any  *)
(* servers and any number of clients.  What holds on both backends is      *)
(* stated without hypothesis; the atomic nft batch and the per-family      *)
(* iptables chains each give what the other cannot.                        *)
(***************************************************************************)
EXTENDS KillSwitch, TLAPS

\* A script runs only in the hook, in the enabling command or in the re-arm, and the
\* mutex is held only in a daemon that is up.
Placed ==
  /\ script.at # "idle" => sec \in {"hooked", "arm"} \/ daemon = "rearm"
  /\ sec # "free" => daemon = "up"
  /\ daemon # "up" => ~link.up
  /\ sec \in {"hook", "hooked", "start"} => ~link.up /\ arg.server \in Servers
  /\ link.up => link.server \in Servers

\* The steps of a script are those of the backend, and what they have filled so far.
Filled ==
  /\ Backend = "nft" => script.at \notin {"clear", "v4", "v6"}
  /\ Backend = "iptables" => script.at \notin {"boot", "batch"}
  /\ script.at = "ok" => fw = Everywhere(Block(script.allow))
  /\ script.at = "v6" => fw["v4"] = Block(script.allow)

\* Whom the running script lets through.
Allows ==
  /\ sec = "hooked" => script.allow = {arg.server}
  /\ sec = "arm" /\ link.up => link.server \in script.allow

\* With the flag off no rule is left wherever no script or removal is under way; a
\* script of the hook or of the re-arm means that the flag is on.
OffInv ==
  /\ daemon = "up" /\ sec \in {"free", "hook", "start", "save"} /\ ~conf.ks /\ ~unverified => AllOpen
  /\ sec = "hooked" \/ daemon = "rearm" => conf.ks \/ unverified

\* Xray is about to start behind rules that let its server through.
StartInv ==
  sec = "start" /\ conf.ks /\ ~unverified => \A f \in Families : fw[f].on /\ arg.server \in fw[f].servers

\* A reply that is about to say "armed" is true.
ReplyInv == sec = "save" /\ arg.armed = "yes" => Blocked

\* The two families share one nft chain.
OneTable == Backend = "nft" => (fw["v4"].on <=> fw["v6"].on)

\* On iptables a live server is let through at every moment.
LiveInv == Backend = "iptables" => LiveServerAllowed

\* The inductive invariant.
Safe == Placed /\ Filled /\ Allows /\ OffInv /\ StartInv /\ ReplyInv /\ OneTable /\ LiveInv

IInv == TypeOK /\ Safe

-----------------------------------------------------------------------------
(* What the values and the parts of actions are. *)

LEMMA ValuesTyped ==
  /\ Default \in Config /\ NoLink \in Link /\ NoScript \in Script /\ NoArgs \in Args
  /\ Open \in Rules /\ Blackhole \in Rules
  /\ \A S \in SUBSET Servers : Block(S) \in Rules
  BY DEF Default, Config, NoLink, Link, NoScript, Script, NoArgs, Args, Open, Blackhole, Block, Rules

LEMMA SetupTyped ==
  ASSUME NEW allow \in SUBSET Servers, Setup(allow)
  PROVE  /\ script' \in Script /\ script'.allow = allow
         /\ script'.at = IF Backend = "nft" THEN "boot" ELSE "clear"
  BY DEF Setup, Script

LEMMA GotoTyped ==
  ASSUME script \in Script, NEW to \in {"batch", "v4", "v6", "ok", "failed"}, Goto(to)
  PROVE  script' \in Script /\ script'.allow = script.allow /\ script'.at = to
  BY DEF Goto, Script

LEMMA IntentTyped ==
  ASSUME conf \in Config, NEW on \in BOOLEAN, NEW armed \in {"yes", "no", "probe"},
         SetIntent(on, armed)
  PROVE  /\ conf' \in Config /\ conf'.ks = on
         /\ arg' \in Args /\ arg'.armed = armed /\ sec' = "save"
<1>1. [conf EXCEPT !.ks = on] \in Config
  BY DEF Config
<1>2. NoArgs \in Args
  BY ValuesTyped
<1> QED
  BY <1>1, <1>2 DEF SetIntent, Args, Config

LEMMA NormalizeTyped == \A c \in Config : Normalize(c) \in Config
  BY DEF Normalize, Config

LEMMA InitIInv == Init => IInv
<1> SUFFICES ASSUME Init PROVE TypeOK /\ Safe
  BY DEF IInv
<1> USE DEF Init, Default, Everywhere, Open, NoScript, NoLink, NoArgs, Families
<1>1. TypeOK
  BY DEF TypeOK, Config, Rules, Script, Link, Sections, Args, Reply
<1>2. Safe
  BY DEF Safe, Placed, Filled, Allows, OffInv, AllOpen, StartInv, ReplyInv, OneTable, LiveInv, LiveServerAllowed
<1> QED
  BY <1>1, <1>2

-----------------------------------------------------------------------------
(* Commands of the user, and a drop.                                       *)

LEMMA ConnectKeeps ==
  ASSUME IInv, NEW s \in Servers, Connect(s)
  PROVE  IInv'
<1> USE DEF IInv
<1>1. \E ips \in BOOLEAN : arg' = [NoArgs EXCEPT !.server = s, !.ips = ips]
  BY DEF Connect
<1>2. arg' \in Args /\ arg'.server = s
  BY <1>1, ValuesTyped DEF Args
<1>3. TypeOK'
  BY <1>2, ValuesTyped DEF Connect, TypeOK, Sections, confVars, clientVars
<1>4. Safe'
  BY <1>2 DEF Connect, NoLink, confVars, clientVars, TypeOK,
     Safe, Placed, Filled, Allows, OffInv, AllOpen, Blocked, StartInv, ReplyInv, OneTable, LiveInv,
       LiveServerAllowed, Families
<1> QED
  BY <1>3, <1>4

LEMMA LinkKeeps ==
  ASSUME IInv, Disconnect \/ Drop \/ KsRefuse
  PROVE  IInv'
<1> USE DEF IInv
<1>1. CASE Disconnect
  BY <1>1, ValuesTyped DEF Disconnect, NoLink, confVars, clientVars, TypeOK,
     Safe, Placed, Filled, Allows, OffInv, AllOpen, Blocked, StartInv, ReplyInv, OneTable, LiveInv,
       LiveServerAllowed, Families
<1>2. CASE Drop
  BY <1>2, ValuesTyped DEF Drop, NoLink, confVars, clientVars, TypeOK,
     Safe, Placed, Filled, Allows, OffInv, AllOpen, Blocked, StartInv, ReplyInv, OneTable, LiveInv,
       LiveServerAllowed, Families
<1>3. CASE KsRefuse
  <2>1. shown' \in Reply
    BY <1>3 DEF KsRefuse, ProbeOutcomes, TypeOK, Config, Reply
  <2> QED
    BY <1>3, <2>1 DEF KsRefuse, confVars, clientVars, TypeOK,
     Safe, Placed, Filled, Allows, OffInv, AllOpen, Blocked, StartInv, ReplyInv, OneTable, LiveInv,
       LiveServerAllowed, Families
<1> QED
  BY <1>1, <1>2, <1>3

LEMMA EnableKeeps ==
  ASSUME IInv, KsEnable
  PROVE  IInv'
<1> USE DEF IInv
<1>1. /\ daemon = "up" /\ sec = "free" /\ script.at = "idle"
      /\ UNCHANGED <<disk, bak, fw, link, pc, loc, daemon, shown, unverified>>
  BY DEF KsEnable, clientVars, Safe, Placed
<1>2. CASE SetIntent(TRUE, "probe") /\ UNCHANGED script
  <2>1. conf' \in Config /\ conf'.ks = TRUE /\ arg' \in Args /\ arg'.armed = "probe" /\ sec' = "save"
    BY <1>2, IntentTyped DEF TypeOK
  <2>2. TypeOK'
    BY <1>1, <1>2, <2>1 DEF TypeOK, Sections
  <2>3. Safe'
    BY <1>1, <1>2, <2>1 DEF Safe, Placed, Filled, Allows, OffInv, AllOpen, Blocked, StartInv, ReplyInv, OneTable, LiveInv,
       LiveServerAllowed, Families
  <2> QED
    BY <2>2, <2>3
<1>3. CASE /\ Setup(IF link.up THEN {link.server} ELSE {})
           /\ sec' = "arm" /\ UNCHANGED <<conf, arg>>
  <2>1. (IF link.up THEN {link.server} ELSE {}) \in SUBSET Servers
    BY DEF Safe, Placed
  <2>2. /\ script' \in Script
        /\ script'.allow = (IF link.up THEN {link.server} ELSE {})
        /\ script'.at = IF Backend = "nft" THEN "boot" ELSE "clear"
    BY <1>3, <2>1, SetupTyped
  <2>3. TypeOK'
    BY <1>1, <1>3, <2>2 DEF TypeOK, Sections
  <2>4. Safe'
    BY <1>1, <1>3, <2>2, KillSwitchAssumption DEF
     Safe, Placed, Filled, Allows, OffInv, AllOpen, Blocked, StartInv, ReplyInv, OneTable, LiveInv,
       LiveServerAllowed, Families
  <2> QED
    BY <2>3, <2>4
<1> QED
  BY <1>2, <1>3 DEF KsEnable

\* A removal takes rules away and adds none.
LEMMA RemoveTyped ==
  ASSUME fw \in [Families -> Rules], NEW S \in Removable, Remove(S)
  PROVE  /\ fw' \in [Families -> Rules]
         /\ \A f \in Families : fw'[f] = fw[f] \/ ~fw'[f].on
         /\ S = Families => \A f \in Families : ~fw'[f].on
         /\ Backend = "nft" => fw' = fw \/ \A f \in Families : ~fw'[f].on
  BY ValuesTyped DEF Remove, Removable, Open, Families

LEMMA DisableKeeps ==
  ASSUME IInv, KsDisable \/ KsForce
  PROVE  IInv'
<1> USE DEF IInv
<1>1. PICK S \in Removable : Remove(S)
  BY DEF KsDisable, KsForce
<1>2. /\ fw' \in [Families -> Rules]
      /\ \A f \in Families : fw'[f] = fw[f] \/ ~fw'[f].on
      /\ Backend = "nft" => fw' = fw \/ \A f \in Families : ~fw'[f].on
  BY <1>1, RemoveTyped DEF TypeOK
<1>3. /\ daemon = "up" /\ sec = "free" /\ script.at = "idle"
      /\ UNCHANGED <<disk, bak, script, link, pc, loc, daemon, shown>>
  BY DEF KsDisable, KsForce, confVars, clientVars, Safe, Placed
<1>4. CASE KsDisable
  <2>1. TypeOK'
    BY <1>2, <1>4 DEF KsDisable, confVars, clientVars, TypeOK, Sections
  <2>2. Safe'
    BY <1>2, <1>3, <1>4 DEF KsDisable, confVars, clientVars,
     Safe, Placed, Filled, Allows, OffInv, AllOpen, Blocked, StartInv, ReplyInv, OneTable, LiveInv,
       LiveServerAllowed, Families
  <2> QED
    BY <2>1, <2>2
<1>5. CASE KsForce
  <2>1. conf' \in Config /\ conf'.ks = FALSE /\ arg' \in Args /\ arg'.armed = "no" /\ sec' = "save" /\ unverified' = TRUE
    BY <1>5, IntentTyped DEF KsForce, TypeOK
  <2>2. TypeOK'
    BY <1>2, <1>3, <2>1 DEF TypeOK, Sections
  <2>3. Safe'
    BY <1>2, <1>3, <2>1 DEF
     Safe, Placed, Filled, Allows, OffInv, AllOpen, Blocked, StartInv, ReplyInv, OneTable, LiveInv,
       LiveServerAllowed, Families
  <2> QED
    BY <2>2, <2>3
<1> QED
  BY <1>4, <1>5

-----------------------------------------------------------------------------
(* The holder of ConnectionMutex.                                          *)

LEMMA PreStartKeeps ==
  ASSUME IInv, PreStart
  PROVE  IInv'
<1> USE DEF IInv
<1>1. /\ sec = "hook" /\ daemon = "up" /\ script.at = "idle" /\ arg.server \in Servers
      /\ UNCHANGED <<conf, disk, bak, fw, link, pc, loc, daemon, shown, unverified>>
  BY DEF PreStart, confVars, clientVars, Safe, Placed
<1>2. CASE conf.ks /\ Setup({arg.server}) /\ sec' = "hooked" /\ UNCHANGED arg
  <2>1. /\ script' \in Script /\ script'.allow = {arg.server}
        /\ script'.at = IF Backend = "nft" THEN "boot" ELSE "clear"
    BY <1>1, <1>2, SetupTyped
  <2>2. TypeOK'
    BY <1>1, <1>2, <2>1 DEF TypeOK, Sections
  <2>3. Safe'
    BY <1>1, <1>2, <2>1, KillSwitchAssumption DEF
     Safe, Placed, Filled, Allows, OffInv, AllOpen, Blocked, StartInv, ReplyInv, OneTable, LiveInv,
       LiveServerAllowed, Families
  <2> QED
    BY <2>2, <2>3
<1>3. CASE conf.ks /\ sec' = "free" /\ arg' = NoArgs /\ UNCHANGED script
  <2>1. TypeOK'
    BY <1>1, <1>3, ValuesTyped DEF TypeOK, Sections
  <2>2. Safe'
    BY <1>1, <1>3 DEF Safe, Placed, Filled, Allows, OffInv, AllOpen, Blocked, StartInv, ReplyInv, OneTable, LiveInv,
       LiveServerAllowed, Families
  <2> QED
    BY <2>1, <2>2
<1>4. CASE ~conf.ks /\ sec' = "start" /\ UNCHANGED <<script, arg>>
  <2>1. TypeOK'
    BY <1>1, <1>4 DEF TypeOK, Sections
  <2>2. Safe'
    BY <1>1, <1>4 DEF Safe, Placed, Filled, Allows, OffInv, AllOpen, Blocked, StartInv, ReplyInv, OneTable, LiveInv,
       LiveServerAllowed, Families
  <2> QED
    BY <2>1, <2>2
<1> QED
  BY <1>2, <1>3, <1>4 DEF PreStart

LEMMA PreStartDoneKeeps ==
  ASSUME IInv, PreStartDone
  PROVE  IInv'
<1> USE DEF IInv
<1>1. TypeOK'
  BY ValuesTyped DEF PreStartDone, confVars, clientVars, TypeOK, Sections
<1>2. Safe'
  BY DEF PreStartDone, NoScript, NoArgs, Default, confVars, clientVars, Everywhere, Block,
     Safe, Placed, Filled, Allows, OffInv, AllOpen, Blocked, StartInv, ReplyInv, OneTable, LiveInv,
       LiveServerAllowed, Families
<1> QED
  BY <1>1, <1>2

LEMMA StartKeeps ==
  ASSUME IInv, StartXray
  PROVE  IInv'
<1> USE DEF IInv
<1>1. link' \in Link
  <2>1. arg.server \in Servers \cup {NoServer} /\ arg.ips \in BOOLEAN
    BY DEF TypeOK, Args
  <2>2. [up |-> TRUE, server |-> arg.server, ips |-> arg.ips] \in Link
    BY <2>1 DEF Link
  <2> QED
    BY <2>2, ValuesTyped DEF StartXray
<1>2. TypeOK'
  BY <1>1, ValuesTyped DEF StartXray, confVars, clientVars, TypeOK, Sections
<1>3. Safe'
  BY DEF StartXray, NoLink, NoArgs, Default, confVars, clientVars,
     Safe, Placed, Filled, Allows, OffInv, AllOpen, Blocked, StartInv, ReplyInv, OneTable, LiveInv,
       LiveServerAllowed, Families
<1> QED
  BY <1>2, <1>3

LEMMA ArmedKeeps ==
  ASSUME IInv, KsArmed
  PROVE  IInv'
<1> USE DEF IInv
<1>1. conf' \in Config /\ conf'.ks = TRUE /\ arg' \in Args /\ sec' = "save"
      /\ (arg'.armed = "yes" => script.at = "ok")
  <2>1. (IF script.at = "ok" THEN "yes" ELSE "probe") \in {"yes", "no", "probe"}
    OBVIOUS
  <2> QED
    BY <2>1, IntentTyped DEF KsArmed, TypeOK
<1>2. TypeOK'
  BY <1>1, ValuesTyped DEF KsArmed, clientVars, TypeOK, Sections
<1>3. Safe'
  BY <1>1 DEF KsArmed, NoScript, clientVars, Everywhere, Block,
     Safe, Placed, Filled, Allows, OffInv, AllOpen, Blocked, StartInv, ReplyInv, OneTable, LiveInv,
       LiveServerAllowed, Families
<1> QED
  BY <1>2, <1>3

LEMMA VerifyKeeps ==
  ASSUME IInv, KsVerify
  PROVE  IInv'
<1> USE DEF IInv
<1>1. /\ sec = "verify" /\ daemon = "up" /\ script.at = "idle"
      /\ UNCHANGED <<disk, bak, fw, script, link, pc, loc, daemon, shown>>
  BY DEF KsVerify, clientVars, Safe, Placed
<1>2. CASE AllOpen /\ SetIntent(FALSE, "no") /\ unverified' = FALSE
  <2>1. conf' \in Config /\ conf'.ks = FALSE /\ arg' \in Args /\ arg'.armed = "no" /\ sec' = "save"
    BY <1>2, IntentTyped DEF TypeOK
  <2>2. TypeOK'
    BY <1>1, <1>2, <2>1 DEF TypeOK, Sections
  <2>3. Safe'
    BY <1>1, <1>2, <2>1 DEF Safe, Placed, Filled, Allows, OffInv, AllOpen, Blocked, StartInv, ReplyInv, OneTable, LiveInv,
       LiveServerAllowed, Families
  <2> QED
    BY <2>2, <2>3
<1>3. CASE SetIntent(TRUE, "probe") /\ UNCHANGED unverified
  <2>1. conf' \in Config /\ conf'.ks = TRUE /\ arg' \in Args /\ arg'.armed = "probe" /\ sec' = "save"
    BY <1>3, IntentTyped DEF TypeOK
  <2>2. TypeOK'
    BY <1>1, <1>3, <2>1 DEF TypeOK, Sections
  <2>3. Safe'
    BY <1>1, <1>3, <2>1 DEF Safe, Placed, Filled, Allows, OffInv, AllOpen, Blocked, StartInv, ReplyInv, OneTable, LiveInv,
       LiveServerAllowed, Families
  <2> QED
    BY <2>2, <2>3
<1> QED
  BY <1>2, <1>3 DEF KsVerify

LEMMA SaveKeeps ==
  ASSUME IInv, KsSave
  PROVE  IInv'
<1> USE DEF IInv
<1>1. disk' \in Config
  BY DEF KsSave, Saved, TypeOK, Args
<1>2. shown' \in Reply
  <2>1. conf.ks \in BOOLEAN /\ arg.snap.ks \in BOOLEAN
    BY DEF TypeOK, Args, Config
  <2>2. CASE \E a \in ProbeOutcomes : shown' = [enabled |-> conf.ks, armed |-> conf.ks /\ a]
    <3>1. PICK a \in ProbeOutcomes : shown' = [enabled |-> conf.ks, armed |-> conf.ks /\ a]
      BY <2>2
    <3> QED
      BY <2>1, <3>1 DEF Reply
  <2>3. CASE shown' = [enabled |-> arg.snap.ks, armed |-> arg.armed = "yes"]
    BY <2>1, <2>3 DEF Reply
  <2> QED
    BY <2>2, <2>3 DEF KsSave
<1>3. TypeOK'
  BY <1>1, <1>2, ValuesTyped DEF KsSave, clientVars, TypeOK, Sections
<1>4. Safe'
  BY DEF KsSave, NoArgs, Default, clientVars,
     Safe, Placed, Filled, Allows, OffInv, AllOpen, Blocked, StartInv, ReplyInv, OneTable, LiveInv,
       LiveServerAllowed, Families
<1> QED
  BY <1>3, <1>4

-----------------------------------------------------------------------------
(* The scripts.  What a step may not disturb is the same for all of them:  *)
(* the sections they run in leave only Filled, OneTable and LiveInv to     *)
(* show.                                                                   *)

LEMMA ScriptStep ==
  ASSUME IInv, script.at \notin {"idle", "ok", "failed"}, UNCHANGED ScriptVars,
         fw' \in [Families -> Rules],
         NEW to \in {"batch", "v4", "v6", "ok", "failed"}, Goto(to),
         Filled', OneTable', LiveInv'
  PROVE  IInv'
<1> USE DEF IInv
<1>1. script' \in Script /\ script'.allow = script.allow /\ script'.at = to
  BY GotoTyped DEF TypeOK
<1>2. TypeOK'
  BY <1>1 DEF TypeOK, ScriptVars
<1>3. (sec \in {"hooked", "arm"} /\ daemon = "up") \/ (daemon = "rearm" /\ sec = "free")
  BY DEF Safe, Placed
<1>4. Safe'
  BY <1>1, <1>3 DEF ScriptVars, Safe, Placed, Allows, OffInv, StartInv, ReplyInv
<1> QED
  BY <1>2, <1>4

LEMMA NftKeeps ==
  ASSUME IInv, NftBoot \/ NftBatch
  PROVE  IInv'
<1> USE DEF IInv
<1>1. Backend = "nft" /\ Backend # "iptables"
  BY KillSwitchAssumption DEF NftBoot, NftBatch, Safe, Filled
<1>2. PICK to \in {"batch", "ok", "failed"} : Goto(to) /\ (to = "ok" => NftBatch /\ fw' = Everywhere(Block(script.allow)))
  BY DEF NftBoot, NftBatch
<1>3. script' \in Script /\ script'.allow = script.allow /\ script'.at = to
  BY <1>2, GotoTyped DEF TypeOK
<1>4. \/ fw' = fw
      \/ fw' = Everywhere(Blackhole)
      \/ fw' = Everywhere(Block(script.allow))
  BY DEF NftBoot, NftBatch
<1>5. fw' \in [Families -> Rules]
  BY <1>4, ValuesTyped DEF TypeOK, Script, Everywhere
<1>6. OneTable'
  BY <1>4 DEF OneTable, Safe, Everywhere, Blackhole, Block, Families
<1>7. Filled'
  BY <1>1, <1>2, <1>3 DEF Filled
<1>8. LiveInv'
  BY <1>1 DEF LiveInv
<1>9. script.at \notin {"idle", "ok", "failed"} /\ UNCHANGED ScriptVars
  BY DEF NftBoot, NftBatch
<1> QED
  BY <1>2, <1>5, <1>6, <1>7, <1>8, <1>9, ScriptStep

\* While a script of iptables runs with a live connection, it arms that connection.
LEMMA ArmsTheLiveServer ==
  ASSUME IInv, script.at \in {"clear", "v4", "v6"}
  PROVE  /\ Backend = "iptables" /\ Backend # "nft"
         /\ link.up => link.server \in script.allow
  BY KillSwitchAssumption DEF IInv, Safe, Placed, Filled, Allows

LEMMA IptablesKeeps ==
  ASSUME IInv, IptablesClear \/ \E f \in Families : IptablesFill(f)
  PROVE  IInv'
<1> USE DEF IInv
<1>1. /\ script.at \in {"clear", "v4", "v6"} /\ UNCHANGED ScriptVars
  BY DEF IptablesClear, IptablesFill, Families
<1>2. /\ Backend = "iptables" /\ Backend # "nft"
      /\ link.up => link.server \in script.allow
  BY <1>1, ArmsTheLiveServer
<1>3. LiveServerAllowed
  BY <1>2 DEF Safe, LiveInv
<1>4. CASE IptablesClear
  <2>1. PICK S \in {{}, {"v4"}, Families} :
          /\ fw' = [f \in Families |-> IF f \in S THEN Open ELSE fw[f]]
          /\ Goto(IF S = Families THEN "v4" ELSE "failed")
    BY <1>4 DEF IptablesClear
  <2>2. PICK to \in {"v4", "failed"} : Goto(to)
    BY <2>1
  <2>3. script'.at = to
    BY <2>2, GotoTyped DEF TypeOK
  <2>4. fw' \in [Families -> Rules]
    BY <2>1, ValuesTyped DEF TypeOK
  <2>5. LiveServerAllowed'
    BY <1>1, <1>3, <2>1 DEF LiveServerAllowed, ScriptVars, Open
  <2> QED
    BY <1>1, <1>2, <2>2, <2>3, <2>4, <2>5, ScriptStep DEF Filled, OneTable, LiveInv
<1>5. ASSUME NEW f \in Families, IptablesFill(f)
      PROVE  IInv'
  <2>1. script.at = f
    BY <1>5 DEF IptablesFill
  <2>2. CASE fw' = [fw EXCEPT ![f] = Block(script.allow)] /\ Goto(IF f = "v4" THEN "v6" ELSE "ok")
    <3>1. PICK to \in {"v6", "ok"} : Goto(to) /\ (to = "v6" <=> f = "v4")
      BY <2>2
    <3>2. script'.at = to /\ script'.allow = script.allow
      BY <3>1, GotoTyped DEF TypeOK
    <3>3. Block(script.allow) \in Rules
      BY ValuesTyped DEF TypeOK, Script
    <3>4. fw' \in [Families -> Rules] /\ fw'[f] = Block(script.allow) /\ \A g \in Families \ {f} : fw'[g] = fw[g]
      BY <2>2, <3>3 DEF TypeOK
    <3>5. Filled'
      <4>1. CASE f = "v4"
        BY <1>2, <3>1, <3>2, <3>4, <4>1 DEF Filled
      <4>2. CASE f = "v6"
        <5>1. fw'["v4"] = Block(script.allow) /\ fw'["v6"] = Block(script.allow)
          BY <2>1, <3>4, <4>2 DEF Safe, Filled, Families
        <5>2. fw' = Everywhere(Block(script.allow))
          BY <3>4, <5>1 DEF Everywhere, Families
        <5> QED
          BY <1>2, <3>1, <3>2, <4>2, <5>2 DEF Filled
      <4> QED
        BY <4>1, <4>2 DEF Families
    <3>6. LiveServerAllowed'
      BY <1>1, <1>2, <1>3, <3>4 DEF LiveServerAllowed, ScriptVars, Block
    <3> QED
      BY <1>1, <1>2, <3>1, <3>4, <3>5, <3>6, ScriptStep DEF OneTable, LiveInv
  <2>3. CASE Goto("failed") /\ UNCHANGED fw
    <3>1. script'.at = "failed"
      BY <2>3, GotoTyped DEF TypeOK
    <3>2. LiveServerAllowed'
      BY <1>1, <1>3, <2>3 DEF LiveServerAllowed, ScriptVars
    <3>3. fw' \in [Families -> Rules]
      BY <2>3 DEF TypeOK
    <3> QED
      BY <1>1, <1>2, <2>3, <3>1, <3>2, <3>3, ScriptStep DEF Filled, OneTable, LiveInv
  <2> QED
    BY <1>5, <2>2, <2>3 DEF IptablesFill
<1> QED
  BY <1>4, <1>5

-----------------------------------------------------------------------------
(* Clients beside the mutex.  They reach the flag only through             *)
(* RepairAssign, which says so in unverified.                              *)

LEMMA ClientKeeps ==
  ASSUME IInv, NEW c \in Clients, ClientStep(c)
  PROVE  IInv'
<1> USE DEF IInv
<1>1. CASE \E mode \in {"include", "other"} : SplitCheck(c, mode)
  <2>1. TypeOK'
    BY <1>1 DEF SplitCheck, At, ClientVars, confVars, TypeOK, Config, Rules, Script, Link, Sections, Args, Reply, Families
  <2>2. Safe'
    BY <1>1 DEF SplitCheck, ClientVars, confVars,
     Safe, Placed, Filled, Allows, OffInv, AllOpen, Blocked, StartInv, ReplyInv, OneTable, LiveInv,
       LiveServerAllowed, Families
  <2> QED
    BY <2>1, <2>2
<1>2. CASE SplitSet(c)
  <2>1. TypeOK'
    BY <1>2 DEF SplitSet, At, ClientVars, TypeOK, Config, Rules, Script, Link, Sections, Args, Reply, Families
  <2>2. Safe'
    BY <1>2 DEF SplitSet, ClientVars, TypeOK, Config,
     Safe, Placed, Filled, Allows, OffInv, AllOpen, Blocked, StartInv, ReplyInv, OneTable, LiveInv,
       LiveServerAllowed, Families
  <2> QED
    BY <2>1, <2>2
<1>3. CASE SplitWrite(c)
  <2>1. TypeOK'
    BY <1>3 DEF SplitWrite, Saved, At, ClientVars, TypeOK
  <2>2. Safe'
    BY <1>3 DEF SplitWrite, ClientVars,
     Safe, Placed, Filled, Allows, OffInv, AllOpen, Blocked, StartInv, ReplyInv, OneTable, LiveInv,
       LiveServerAllowed, Families
  <2> QED
    BY <2>1, <2>2
<1>4. CASE RepairWrite(c)
  <2>1. TypeOK'
    BY <1>4 DEF RepairWrite, At, ClientVars, TypeOK
  <2>2. Safe'
    BY <1>4 DEF RepairWrite, ClientVars,
     Safe, Placed, Filled, Allows, OffInv, AllOpen, Blocked, StartInv, ReplyInv, OneTable, LiveInv,
       LiveServerAllowed, Families
  <2> QED
    BY <2>1, <2>2
<1>5. CASE RepairLoad(c)
  <2>1. TypeOK'
    BY <1>5, NormalizeTyped DEF RepairLoad, At, ClientVars, confVars, TypeOK
  <2>2. Safe'
    BY <1>5 DEF RepairLoad, ClientVars, confVars,
     Safe, Placed, Filled, Allows, OffInv, AllOpen, Blocked, StartInv, ReplyInv, OneTable, LiveInv,
       LiveServerAllowed, Families
  <2> QED
    BY <2>1, <2>2
<1>6. CASE RepairAssign(c)
  <2>1. TypeOK'
    BY <1>6 DEF RepairAssign, At, TypeOK, Config
  <2>2. Safe'
    BY <1>6 DEF RepairAssign, TypeOK, Config,
     Safe, Placed, Filled, Allows, OffInv, AllOpen, Blocked, StartInv, ReplyInv, OneTable, LiveInv,
       LiveServerAllowed, Families
  <2> QED
    BY <2>1, <2>2
<1> QED
  BY <1>1, <1>2, <1>3, <1>4, <1>5, <1>6 DEF ClientStep

-----------------------------------------------------------------------------
(* Death and start.                                                        *)

LEMMA DieKeeps ==
  ASSUME IInv, Die
  PROVE  IInv'
<1> USE DEF IInv
<1>1. TypeOK'
  BY ValuesTyped DEF Die, confVars, TypeOK, Sections
<1>2. Safe'
  BY DEF Die, NoLink, NoScript, confVars,
     Safe, Placed, Filled, Allows, OffInv, AllOpen, Blocked, StartInv, ReplyInv, OneTable, LiveInv,
       LiveServerAllowed, Families
<1> QED
  BY <1>1, <1>2

LEMMA LoadKeeps ==
  ASSUME IInv, Load
  PROVE  IInv'
<1> USE DEF IInv
<1>1. TypeOK'
  BY NormalizeTyped DEF Load, clientVars, TypeOK
<1>2. Safe'
  BY DEF Load, clientVars,
     Safe, Placed, Filled, Allows, OffInv, AllOpen, Blocked, StartInv, ReplyInv, OneTable, LiveInv,
       LiveServerAllowed, Families
<1> QED
  BY <1>1, <1>2

LEMMA ReconcileKeeps ==
  ASSUME IInv, Reconcile
  PROVE  IInv'
<1> USE DEF IInv
<1>1. PICK S \in Removable : Remove(S) /\ unverified' = (S # Families)
  BY DEF Reconcile
<1>2. /\ fw' \in [Families -> Rules]
      /\ S = Families => \A f \in Families : ~fw'[f].on
      /\ Backend = "nft" => fw' = fw \/ \A f \in Families : ~fw'[f].on
  BY <1>1, RemoveTyped DEF TypeOK
<1>3. /\ daemon = "loaded" /\ sec = "free" /\ script.at = "idle" /\ ~link.up
      /\ UNCHANGED <<conf, disk, bak, link, sec, arg, pc, loc, shown>>
  BY DEF Reconcile, confVars, clientVars, Safe, Placed
<1>4. unverified' \in BOOLEAN /\ (~unverified' => \A f \in Families : ~fw'[f].on)
  BY <1>1, <1>2
<1>5. CASE conf.ks /\ Setup({}) /\ daemon' = "rearm"
  <2>1. script' \in Script /\ script'.at = IF Backend = "nft" THEN "boot" ELSE "clear"
    BY <1>5, SetupTyped
  <2>2. TypeOK'
    BY <1>2, <1>3, <1>4, <1>5, <2>1 DEF TypeOK
  <2>3. Safe'
    BY <1>2, <1>3, <1>5, <2>1, KillSwitchAssumption DEF
     Safe, Placed, Filled, Allows, OffInv, AllOpen, Blocked, StartInv, ReplyInv, OneTable, LiveInv,
       LiveServerAllowed, Families
  <2> QED
    BY <2>2, <2>3
<1>6. CASE ~conf.ks /\ daemon' = "up" /\ UNCHANGED script
  <2>1. TypeOK'
    BY <1>2, <1>3, <1>4, <1>6 DEF TypeOK
  <2>2. Safe'
    BY <1>2, <1>3, <1>4, <1>6 DEF
     Safe, Placed, Filled, Allows, OffInv, AllOpen, Blocked, StartInv, ReplyInv, OneTable, LiveInv,
       LiveServerAllowed, Families
  <2> QED
    BY <2>1, <2>2
<1> QED
  BY <1>5, <1>6 DEF Reconcile

LEMMA RearmedKeeps ==
  ASSUME IInv, Rearmed
  PROVE  IInv'
<1> USE DEF IInv
<1>1. TypeOK'
  BY ValuesTyped DEF Rearmed, confVars, clientVars, TypeOK
<1>2. Safe'
  BY DEF Rearmed, NoScript, confVars, clientVars,
     Safe, Placed, Filled, Allows, OffInv, AllOpen, Blocked, StartInv, ReplyInv, OneTable, LiveInv,
       LiveServerAllowed, Families
<1> QED
  BY <1>1, <1>2

-----------------------------------------------------------------------------
LEMMA StepIInv == IInv /\ [Next]_vars => IInv'
<1> SUFFICES ASSUME IInv, [Next]_vars PROVE IInv'
  OBVIOUS
<1>1. CASE Commands
  BY <1>1, ConnectKeeps, LinkKeeps, EnableKeeps, DisableKeeps DEF Commands
<1>2. CASE Holder
  BY <1>2, PreStartKeeps, PreStartDoneKeeps, StartKeeps, ArmedKeeps, VerifyKeeps, SaveKeeps DEF Holder
<1>3. CASE RunScript \/ Drop
  BY <1>3, NftKeeps, IptablesKeeps, LinkKeeps DEF RunScript
<1>4. CASE \E c \in Clients : ClientStep(c)
  BY <1>4, ClientKeeps
<1>5. CASE Die \/ Startup
  BY <1>5, DieKeeps, LoadKeeps, ReconcileKeeps, RearmedKeeps DEF Startup
<1>6. CASE UNCHANGED vars
  BY <1>6 DEF vars, IInv, TypeOK,
     Safe, Placed, Filled, Allows, OffInv, AllOpen, Blocked, StartInv, ReplyInv, OneTable, LiveInv,
       LiveServerAllowed, Families
<1> QED
  BY <1>1, <1>2, <1>3, <1>4, <1>5, <1>6 DEF Next

LEMMA AlwaysIInv == Spec => []IInv
  BY InitIInv, StepIInv, PTL DEF Spec

-----------------------------------------------------------------------------
(* The results.                                                            *)

\* Every reachable state of the kill-switch has the declared types.
THEOREM TypeCorrect == Spec => []TypeOK
<1>1. IInv => TypeOK
  BY DEF IInv
<1> QED
  BY <1>1, AlwaysIInv, PTL

\* "Off" means open, on both backends, through failed scripts, crashes and restarts,
\* with the exceptions that OffMeansOpen names.
THEOREM OffIsOpen == Spec => []OffMeansOpen
<1>1. IInv => OffMeansOpen
  BY DEF IInv, Safe, OffInv, OffMeansOpen
<1> QED
  BY <1>1, AlwaysIInv, PTL

\* A connection comes up with the kill-switch on only behind complete rules that let its
\* server through, on both backends.
THEOREM ArmedBeforeConnected == Spec => ConnectedOnlyWhenArmed
<1>1. IInv /\ [Next]_vars =>
        [~link.up /\ link'.up /\ conf.ks /\ ~unverified =>
           \A f \in Families : fw[f].on /\ link'.server \in fw[f].servers]_vars
  <2> SUFFICES ASSUME IInv, Next, ~link.up, link'.up, conf.ks, ~unverified
               PROVE  \A f \in Families : fw[f].on /\ link'.server \in fw[f].servers
    BY DEF vars
  <2>1. StartXray
    <3>1. link' # link /\ link' # NoLink
      BY DEF NoLink
    <3> QED
      BY <3>1 DEF Next, Commands, Connect, Disconnect, KsRefuse, KsEnable, KsDisable, KsForce,
         Holder, PreStart, PreStartDone, KsArmed, KsVerify, KsSave, RunScript, NftBoot, NftBatch,
         IptablesClear, IptablesFill, ScriptVars, Drop, ClientStep, SplitCheck, SplitSet, SplitWrite,
         RepairWrite, RepairLoad, RepairAssign, ClientVars, Die, Startup, Load, Reconcile, Rearmed
  <2>2. sec = "start" /\ link'.server = arg.server
    BY <2>1 DEF StartXray, NoLink
  <2> QED
    BY <2>2 DEF IInv, Safe, StartInv
<1> QED
  BY <1>1, AlwaysIInv, PTL DEF Spec, ConnectedOnlyWhenArmed

\* On iptables, where the rules are replaced family by family, no step of a script, a
\* removal or a restart cuts a live connection off by the rules.
THEOREM LiveServerPasses ==
  ASSUME Backend = "iptables"
  PROVE  Spec => []LiveServerAllowed
<1>1. IInv => LiveServerAllowed
  BY DEF IInv, Safe, LiveInv
<1> QED
  BY <1>1, AlwaysIInv, PTL

\* On nftables a reply that says "armed" is true of both families.
THEOREM ArmedIsArmed ==
  ASSUME Backend = "nft"
  PROVE  Spec => ArmedReplyIsTrue
<1>1. IInv /\ [Next]_vars => [shown' # shown /\ shown'.armed => Blocked]_vars
  <2> SUFFICES ASSUME IInv, Next, shown' # shown, shown'.armed
               PROVE  Blocked
    BY DEF vars
  <2>1. \A a \in ProbeOutcomes : a => Blocked
    BY DEF ProbeOutcomes, Blocked, Families, IInv, Safe, OneTable
  <2>2. CASE \E a \in ProbeOutcomes : shown' = [enabled |-> conf.ks, armed |-> conf.ks /\ a]
    <3>1. PICK a \in ProbeOutcomes : shown' = [enabled |-> conf.ks, armed |-> conf.ks /\ a]
      BY <2>2
    <3>2. shown'.armed = (conf.ks /\ a)
      BY <3>1
    <3>3. a
      BY <3>2, Zenon
    <3> QED
      BY <2>1, <3>3, Zenon
  <2>3. CASE sec = "save" /\ shown' = [enabled |-> arg.snap.ks, armed |-> arg.armed = "yes"]
    BY <2>3 DEF IInv, Safe, ReplyInv
  <2>4. KsRefuse \/ KsSave
    BY DEF Next, Commands, Connect, Disconnect, KsEnable, KsDisable, KsForce,
       Holder, PreStart, PreStartDone, StartXray, KsArmed, KsVerify, RunScript, NftBoot, NftBatch,
       IptablesClear, IptablesFill, ScriptVars, Drop, ClientStep, SplitCheck, SplitSet, SplitWrite,
       RepairWrite, RepairLoad, RepairAssign, ClientVars, Die, Startup, Load, Reconcile, Rearmed
  <2> QED
    BY <2>2, <2>3, <2>4 DEF KsRefuse, KsSave
<1> QED
  BY <1>1, AlwaysIInv, PTL DEF Spec, ArmedReplyIsTrue

\* On nftables the rules of an armed machine open only when the user disables the switch
\* or a start reconciles.
THEOREM StaysBlocked ==
  ASSUME Backend = "nft"
  PROVE  Spec => OpensOnlyOnRequest
<1>1. IInv /\ [Next]_vars =>
        [Blocked /\ ~Blocked' => \/ daemon = "loaded"
                                 \/ sec = "free" /\ sec' \in {"verify", "save"}]_vars
  <2> SUFFICES ASSUME IInv, Next, Blocked, ~Blocked'
               PROVE  daemon = "loaded" \/ (sec = "free" /\ sec' \in {"verify", "save"})
    BY DEF vars
  <2>1. fw' # fw
    BY DEF Blocked
  <2>2. CASE KsDisable \/ KsForce
    BY <2>2 DEF KsDisable, KsForce, SetIntent
  <2>3. CASE Reconcile
    BY <2>3 DEF Reconcile
  <2>4. CASE NftBoot \/ NftBatch
    BY <2>1, <2>4 DEF NftBoot, NftBatch, Everywhere, Block, Blocked
  <2>5. CASE IptablesClear \/ \E f \in Families : IptablesFill(f)
    BY <2>5 DEF IptablesClear, IptablesFill, Families, IInv, Safe, Filled
  <2> QED
    BY <2>1, <2>2, <2>3, <2>4, <2>5 DEF Next, Commands, Connect, Disconnect, KsRefuse, KsEnable,
       Holder, PreStart, PreStartDone, StartXray, KsArmed, KsVerify, KsSave, RunScript, Drop,
       ClientStep, SplitCheck, SplitSet, SplitWrite, RepairWrite, RepairLoad, RepairAssign,
       ClientVars, confVars, Die, Startup, Load, Rearmed
<1> QED
  BY <1>1, AlwaysIInv, PTL DEF Spec, OpensOnlyOnRequest

=============================================================================
