-------------------------- MODULE TunManagerProofs --------------------------
(***************************************************************************)
(* TUN mode, for any device names, servers, clients, failing scripts and   *)
(* deaths of the daemon: what Start, Stop, the live changes and the        *)
(* startup reconcile leave in the kernel.                                  *)
(***************************************************************************)
EXTENDS TunManager, TLAPS

\* What the clearing has not removed yet.
Left(i) == UNION {Removes(ClearSteps[j]) : j \in i .. Len(ClearSteps)}

\* What a session may have put into the kernel, from its fields.
Own ==
  OnDevice(t.name) \cup SplitRules
    \cup {<<"proxy", t.server>>, <<"hijack", None>>, <<"mark", None>>, <<"conntrack", None>>,
          <<"uid", None>>}
    \cup (IF t.plan = "legacy" THEN {<<"dns", None>>} ELSE {})

\* Which command goes with which work under t.mu, and when TUN can be on; a daemon that
\* is down remembers nothing.
Placed ==
  /\ mu.op = "start" \/ (mu.op = "clear" /\ mu.then \in {"begin", "fail"}) <=> cm.at = "start"
  /\ mu.op = "clear" => mu.then \in {"begin", "fail", "stop"} /\ mu.i <= Len(ClearSteps) + 1
  /\ cm.at = "stop" => mu.op = "clear"
  /\ cm.at \in {"plan", "enable", "start"} => ~t.on
  /\ (mu.op = "clear" /\ mu.then = "stop") \/ mu.op = "split" => t.on
  /\ cm.at \in {"plan", "enable", "start"} => cm.server \in Servers
  /\ mu.op = "start" \/ t.on => t.name \in Names /\ t.server \in Servers
  /\ ~daemon => t = Idle /\ mu = Free /\ cm = NoCmd /\ pc = [c \in Clients |-> "idle"]

\* What is in the kernel is an orphan or belongs to the session, and the session's part
\* shrinks with every step of clearing.
CleanInv ==
  daemon =>
    /\ net \subseteq orphans \cup Own
    /\ mu.op = "clear" => net \subseteq orphans \cup Left(mu.i)
    /\ ~t.on /\ mu.op # "start" /\ ~(mu.op = "clear" /\ mu.then = "fail") => net \subseteq orphans

TunRoute == <<"tunroute", t.name>>
Bypass   == {<<"proxy", t.server>>, <<"mark", None>>}

\* The bypass is in place in a running session and, step by step, in a starting one; the
\* capture comes after it and goes before it.
BypassInv ==
  /\ t.on /\ mu.op # "clear" => Bypass \subseteq net
  /\ mu.op = "start" => /\ mu.i > 2 => <<"proxy", t.server>> \in net
                        /\ mu.i > 6 => <<"mark", None>> \in net
                        /\ mu.i <= 11 => TunRoute \notin net \ orphans
                        /\ 1 < mu.i /\ mu.i <= 11 => TunRoute \notin net
  /\ mu.op = "clear" /\ mu.i > 2 => TunRoute \notin net

\* The value to restore is saved before it is needed and never overwritten.
RpInv ==
  /\ rpfile # "loose"
  /\ rpfile = "none" => rp = "strict"
  /\ mu.op = "start" /\ mu.i > 4 => rpfile = "strict"

\* Nobody has changed the split mode without having it applied.
NoneWaits == \A c \in Clients : pc[c] \notin {"check", "split"}
RouteFits == TunRoute \in net <=> conf.split # "include"
RulesFit  == net \cap SplitRules = {"split"} \X ({conf.split} \ {"off"})

\* A change of the mode that comes too late for a start or a live change is still waiting.
SplitInv ==
  /\ mu.op = "clear" /\ mu.i > 8 => net \cap SplitRules = {}
  /\ mu.op = "start" /\ mu.i <= 12 => net \cap SplitRules = {}
  /\ mu.op = "split" => net \cap SplitRules = {}
  /\ NoneWaits =>
       /\ mu.op = "start" /\ mu.i > 11 => RouteFits
       /\ mu.op = "start" /\ mu.i > 12 => RulesFit
       /\ mu.op = "split" /\ mu.i > 1 => RouteFits
       /\ mu.op = "free" /\ t.on /\ "split" \notin failed => RouteFits /\ RulesFit

\* The inductive invariant.
IInv == TypeOK /\ Placed /\ CleanInv /\ BypassBeforeCapture /\ BypassInv /\ RpInv /\ SplitInv

-----------------------------------------------------------------------------
(* The steps, what they install and what they remove.                      *)

LEMMA StartOrder ==
  /\ Len(StartSteps) = 12
  /\ StartSteps[1] = "dev" /\ StartSteps[2] = "proxy" /\ StartSteps[3] = "dns"
  /\ StartSteps[4] = "rp_save" /\ StartSteps[5] = "rp_set" /\ StartSteps[6] = "mark"
  /\ StartSteps[7] = "conntrack" /\ StartSteps[8] = "uid" /\ StartSteps[9] = "hijack"
  /\ StartSteps[10] = "resolved" /\ StartSteps[11] = "tunroute" /\ StartSteps[12] = "split"
  BY DEF StartSteps

LEMMA StartAt ==
  ASSUME NEW i \in 1 .. 12
  PROVE  /\ StartSteps[i] = "dev" <=> i = 1
         /\ StartSteps[i] = "proxy" <=> i = 2
         /\ StartSteps[i] = "rp_save" <=> i = 4
         /\ StartSteps[i] = "rp_set" <=> i = 5
         /\ StartSteps[i] = "mark" <=> i = 6
         /\ StartSteps[i] = "uid" <=> i = 8
         /\ StartSteps[i] = "resolved" <=> i = 10
         /\ StartSteps[i] = "tunroute" <=> i = 11
         /\ StartSteps[i] = "split" <=> i = 12
         /\ StartSteps[i] \in {"dev", "proxy", "dns", "rp_save", "rp_set", "mark", "conntrack",
                               "uid", "hijack", "resolved", "tunroute", "split"}
<1>1. \/ i = 1 \/ i = 2 \/ i = 3 \/ i = 4 \/ i = 5 \/ i = 6
      \/ i = 7 \/ i = 8 \/ i = 9 \/ i = 10 \/ i = 11 \/ i = 12
  OBVIOUS
<1> QED
  BY <1>1, StartOrder

LEMMA ClearOrder ==
  /\ Len(ClearSteps) = 11
  /\ ClearSteps[1] = "rp" /\ ClearSteps[2] = "tunroute" /\ ClearSteps[3] = "dev"
  /\ ClearSteps[4] = "hijack" /\ ClearSteps[5] = "proxy" /\ ClearSteps[6] = "mark"
  /\ ClearSteps[7] = "conntrack" /\ ClearSteps[8] = "split" /\ ClearSteps[9] = "resolved"
  /\ ClearSteps[10] = "dns" /\ ClearSteps[11] = "uid"
  BY DEF ClearSteps

\* The steps of Start, one by one.
LEMMA InstallsAre ==
  /\ Installs("dev") = {<<"dev", t.name>>}
  /\ Installs("proxy") = {<<"proxy", t.server>>}
  /\ Installs("dns") = IF t.plan = "legacy" THEN {<<"dns", None>>} ELSE {}
  /\ Installs("rp_save") = {} /\ Installs("rp_set") = {}
  /\ Installs("mark") = {<<"mark", None>>}
  /\ Installs("conntrack") = {<<"conntrack", None>>}
  /\ Installs("uid") = {<<"uid", None>>}
  /\ Installs("hijack") = IF Enabled(t.plan) THEN {<<"hijack", None>>} ELSE {}
  /\ Installs("resolved") = IF Enabled(t.plan) THEN {<<"resolved", t.name>>} ELSE {}
  /\ Installs("tunroute") = IF conf.split = "include" THEN {} ELSE {TunRoute}
  /\ Installs("split") = IF conf.split = "off" THEN {} ELSE {<<"split", conf.split>>}
  BY DEF Installs, TunRoute

LEMMA RemovesAre ==
  /\ Removes("rp") = {}
  /\ Removes("tunroute") = {TunRoute}
  /\ Removes("dev") = {"dev", "tunroute", "resolved"} \X {t.name}
  /\ Removes("hijack") = {<<"hijack", None>>}
  /\ Removes("proxy") = {<<"proxy", t.server>>}
  /\ Removes("mark") = {<<"mark", None>>}
  /\ Removes("conntrack") = {<<"conntrack", None>>}
  /\ Removes("split") = {"split"} \X Modes
  /\ Removes("resolved") = {<<"resolved", t.name>>}
  /\ Removes("dns") = IF t.plan = "legacy" THEN {<<"dns", None>>} ELSE {}
  /\ Removes("uid") = {<<"uid", None>>}
  BY DEF Removes, OnDevice, SplitRules, TunRoute

\* A step of clearing takes its share off what is left.
LEMMA LeftSteps ==
  /\ \A i \in 1 .. 11 : Left(i) \subseteq Removes(ClearSteps[i]) \cup Left(i + 1)
  /\ Left(12) = {}
<1>1. ASSUME NEW i \in 1 .. 11, NEW j \in i .. 11
      PROVE  j = i \/ j \in (i + 1) .. 11
  OBVIOUS
<1>2. \A i \in 1 .. 11 : Left(i) \subseteq Removes(ClearSteps[i]) \cup Left(i + 1)
  <2> SUFFICES ASSUME NEW i \in 1 .. 11, NEW x \in Left(i), x \notin Removes(ClearSteps[i])
               PROVE  x \in Left(i + 1)
    OBVIOUS
  <2>1. PICK j \in i .. 11 : x \in Removes(ClearSteps[j])
    BY ClearOrder DEF Left
  <2>2. j \in (i + 1) .. 11
    BY <1>1, <2>1
  <2> QED
    BY <2>1, <2>2, ClearOrder DEF Left
<1>3. Left(12) = {}
  BY ClearOrder DEF Left
<1> QED
  BY <1>2, <1>3

\* The clearing removes all that a session owns.
LEMMA OwnLeft == Own \subseteq Left(1)
<1>1. \A j \in 1 .. 11 : Removes(ClearSteps[j]) \subseteq Left(1)
  BY ClearOrder DEF Left
<1>2. /\ Removes("dev") \subseteq Left(1) /\ Removes("split") \subseteq Left(1)
      /\ Removes("proxy") \subseteq Left(1) /\ Removes("hijack") \subseteq Left(1)
      /\ Removes("mark") \subseteq Left(1) /\ Removes("conntrack") \subseteq Left(1)
      /\ Removes("uid") \subseteq Left(1) /\ Removes("dns") \subseteq Left(1)
  BY <1>1, ClearOrder
<1> QED
  BY <1>2, RemovesAre DEF Own, OnDevice, SplitRules

\* The clearing depends on nothing but the fields.
LEMMA LeftStays ==
  ASSUME t' = t
  PROVE  \A i : Left(i)' = Left(i)
  BY DEF Left, Removes, OnDevice, SplitRules

\* What a step of Start installs belongs to the session, and only three steps touch the
\* capture, the bypass and the split rules.
LEMMA InstallsOwn ==
  ASSUME TypeOK, NEW i \in 1 .. 12
  PROVE  /\ Installs(StartSteps[i]) \subseteq Own
         /\ t.name \in Names /\ t.server \in Servers => Installs(StartSteps[i]) \subseteq Artifacts
         /\ i # 11 => TunRoute \notin Installs(StartSteps[i])
         /\ i # 12 => Installs(StartSteps[i]) \cap SplitRules = {}
<1>1. \/ i = 1 \/ i = 2 \/ i = 3 \/ i = 4 \/ i = 5 \/ i = 6
      \/ i = 7 \/ i = 8 \/ i = 9 \/ i = 10 \/ i = 11 \/ i = 12
  OBVIOUS
<1>2. conf.split \in Modes
  BY DEF TypeOK
<1>3. Installs(StartSteps[i]) \subseteq Own
  BY <1>1, <1>2, StartOrder, InstallsAre DEF TunRoute, Own, OnDevice, SplitRules
<1>4. ASSUME t.name \in Names, t.server \in Servers
      PROVE  Installs(StartSteps[i]) \subseteq Artifacts
  BY <1>1, <1>2, <1>4, StartOrder, InstallsAre DEF TunRoute, Artifacts
<1>5. i # 11 => TunRoute \notin Installs(StartSteps[i])
  BY <1>1, StartOrder, InstallsAre DEF TunRoute
<1>6. i # 12 => Installs(StartSteps[i]) \cap SplitRules = {}
  BY <1>1, StartOrder, InstallsAre DEF TunRoute, SplitRules
<1> QED
  BY <1>3, <1>4, <1>5, <1>6

\* The values of t.mu.
LEMMA LockValues ==
  ASSUME NEW m
  PROVE  /\ m = Free => m = [op |-> "free", i |-> 1, then |-> "none", err |-> FALSE]
         /\ m = Clearing("begin") => m = [op |-> "clear", i |-> 1, then |-> "begin", err |-> FALSE]
         /\ m = Clearing("fail") => m = [op |-> "clear", i |-> 1, then |-> "fail", err |-> FALSE]
         /\ m = Clearing("stop") => m = [op |-> "clear", i |-> 1, then |-> "stop", err |-> FALSE]
         /\ m = [Free EXCEPT !.op = "start"] => m = [op |-> "start", i |-> 1, then |-> "none", err |-> FALSE]
         /\ m = [Free EXCEPT !.op = "split"] => m = [op |-> "split", i |-> 1, then |-> "none", err |-> FALSE]
  BY DEF Clearing, Free

LEMMA Locks ==
  /\ Free = [op |-> "free", i |-> 1, then |-> "none", err |-> FALSE]
  /\ Clearing("begin") = [op |-> "clear", i |-> 1, then |-> "begin", err |-> FALSE]
  /\ Clearing("fail") = [op |-> "clear", i |-> 1, then |-> "fail", err |-> FALSE]
  /\ Clearing("stop") = [op |-> "clear", i |-> 1, then |-> "stop", err |-> FALSE]
  /\ [Free EXCEPT !.op = "start"] = [op |-> "start", i |-> 1, then |-> "none", err |-> FALSE]
  /\ [Free EXCEPT !.op = "split"] = [op |-> "split", i |-> 1, then |-> "none", err |-> FALSE]
  /\ {Free, Clearing("begin"), Clearing("fail"), Clearing("stop"),
      [Free EXCEPT !.op = "start"], [Free EXCEPT !.op = "split"]} \subseteq Lock
<1>1. Lock = [op : {"free", "start", "clear", "split"}, i : 1 .. 13,
              then : {"begin", "fail", "stop", "none"}, err : BOOLEAN]
  BY StartOrder DEF Lock
<1>2. /\ Free = [op |-> "free", i |-> 1, then |-> "none", err |-> FALSE]
      /\ Clearing("begin") = [op |-> "clear", i |-> 1, then |-> "begin", err |-> FALSE]
      /\ Clearing("fail") = [op |-> "clear", i |-> 1, then |-> "fail", err |-> FALSE]
      /\ Clearing("stop") = [op |-> "clear", i |-> 1, then |-> "stop", err |-> FALSE]
      /\ [Free EXCEPT !.op = "start"] = [op |-> "start", i |-> 1, then |-> "none", err |-> FALSE]
      /\ [Free EXCEPT !.op = "split"] = [op |-> "split", i |-> 1, then |-> "none", err |-> FALSE]
  BY LockValues
<1>3. /\ [op |-> "free", i |-> 1, then |-> "none", err |-> FALSE] \in Lock
      /\ [op |-> "clear", i |-> 1, then |-> "begin", err |-> FALSE] \in Lock
      /\ [op |-> "clear", i |-> 1, then |-> "fail", err |-> FALSE] \in Lock
      /\ [op |-> "clear", i |-> 1, then |-> "stop", err |-> FALSE] \in Lock
      /\ [op |-> "start", i |-> 1, then |-> "none", err |-> FALSE] \in Lock
      /\ [op |-> "split", i |-> 1, then |-> "none", err |-> FALSE] \in Lock
  BY <1>1
<1>4. {Free, Clearing("begin"), Clearing("fail"), Clearing("stop"),
       [Free EXCEPT !.op = "start"], [Free EXCEPT !.op = "split"]} \subseteq Lock
  BY <1>2, <1>3, Zenon
<1> QED
  BY <1>2, <1>4, Zenon

LEMMA LockSteps ==
  ASSUME mu \in Lock
  PROVE  /\ mu.op \in {"free", "start", "clear", "split"} /\ mu.i \in 1 .. 13
         /\ mu.then \in {"begin", "fail", "stop", "none"} /\ mu.err \in BOOLEAN
         /\ mu.i < 13 => [mu EXCEPT !.i = @ + 1] \in Lock
         /\ mu.i < 13 => [mu EXCEPT !.i = @ + 1, !.err = TRUE] \in Lock
<1>1. Lock = [op : {"free", "start", "clear", "split"}, i : 1 .. 13,
              then : {"begin", "fail", "stop", "none"}, err : BOOLEAN]
  BY StartOrder DEF Lock
<1>2. mu.i \in 1 .. 13
  BY <1>1
<1>3. mu.i < 13 => mu.i + 1 \in 1 .. 13
  BY <1>2
<1> QED
  BY <1>1, <1>2, <1>3

-----------------------------------------------------------------------------
(* Start and stop.                                                         *)

\* Nothing that is about the kernel moves.
LEMMA KernelStays ==
  ASSUME IInv, UNCHANGED <<net, rp, rpfile, t, mu, orphans, failed, daemon>>,
         conf'.split = conf.split, NoneWaits' => NoneWaits
  PROVE  CleanInv' /\ BypassBeforeCapture' /\ BypassInv' /\ RpInv' /\ SplitInv'
<1> USE DEF IInv
<1>1. CleanInv'
  BY LeftStays DEF CleanInv, Own, OnDevice, SplitRules
<1>2. BypassBeforeCapture' /\ BypassInv' /\ RpInv'
  BY DEF BypassBeforeCapture, BypassInv, RpInv, TunRoute, Bypass
<1>3. SplitInv'
  BY DEF SplitInv, RouteFits, RulesFit, TunRoute, SplitRules
<1> QED
  BY <1>1, <1>2, <1>3

LEMMA EnableTunStep ==
  ASSUME IInv, NEW s \in Servers, EnableTun(s)
  PROVE  IInv'
<1> USE DEF IInv, EnableTun, history, past, kernel, clientVars
<1>1. TypeOK'
  BY DEF TypeOK, NoCmd, Holder, Plans
<1>2. Placed'
  BY DEF Placed, NoCmd
<1>3. CleanInv' /\ BypassBeforeCapture' /\ BypassInv' /\ RpInv' /\ SplitInv'
  BY KernelStays DEF NoneWaits
<1> QED
  BY <1>1, <1>2, <1>3

LEMMA EnablePlanStep ==
  ASSUME IInv, EnablePlan
  PROVE  IInv'
<1> USE DEF IInv, EnablePlan, history, past, kernel, clientVars
<1>1. TypeOK'
  BY DEF TypeOK, Holder, Plans, DnsHijackFor
<1>2. Placed'
  BY DEF Placed, TypeOK, Holder, NoCmd
<1>3. CleanInv' /\ BypassBeforeCapture' /\ BypassInv' /\ RpInv' /\ SplitInv'
  BY KernelStays DEF NoneWaits
<1> QED
  BY <1>1, <1>2, <1>3

LEMMA SetTunNameStep ==
  ASSUME IInv, NEW n \in Names, SetTunName(n)
  PROVE  IInv'
<1> USE DEF IInv, SetTunName, history, past, kernel, clientVars
<1>1. TypeOK'
  BY DEF TypeOK
<1>2. Placed'
  BY DEF Placed
<1>3. CleanInv' /\ BypassBeforeCapture' /\ BypassInv' /\ RpInv' /\ SplitInv'
  BY KernelStays DEF NoneWaits, TypeOK
<1> QED
  BY <1>1, <1>2, <1>3

LEMMA StartLockStep ==
  ASSUME IInv, StartLock
  PROVE  IInv'
<1> USE DEF IInv, StartLock, history, past, kernel, clientVars
<1>1. TypeOK'
  BY Locks DEF TypeOK, Holder
<1>2. Placed'
  BY Locks, ClearOrder DEF Placed, TypeOK, Holder, NoCmd
<1>3. mu' = [op |-> "clear", i |-> 1, then |-> "begin", err |-> FALSE]
  BY Locks
<1>4. ~t.on
  BY DEF Placed
<1>5. CleanInv'
  BY <1>3, <1>4 DEF CleanInv, Own, OnDevice, SplitRules
<1>6. BypassBeforeCapture' /\ BypassInv' /\ RpInv'
  BY <1>3, <1>4 DEF BypassBeforeCapture, BypassInv, RpInv, TunRoute, Bypass
<1>7. SplitInv'
  BY <1>3, <1>4 DEF SplitInv
<1> QED
  BY <1>1, <1>2, <1>5, <1>6, <1>7

\* A step of clearing.
LEMMA ClearStepStep ==
  ASSUME IInv, ClearStep
  PROVE  IInv'
<1> USE DEF IInv, ClearStep, past, clientVars
<1> DEFINE i == mu.i
<1>1. /\ mu.op = "clear" /\ i \in 1 .. 11 /\ t' = t
      /\ net' = net \ Removes(ClearSteps[i])
  BY ClearOrder, LockSteps DEF TypeOK
<1>2. /\ mu' \in Lock /\ mu'.op = "clear" /\ mu'.i = i + 1 /\ mu'.then = mu.then
  <2>1. mu \in Lock /\ mu.i < 13
    BY <1>1 DEF TypeOK
  <2>2. mu' = [mu EXCEPT !.i = @ + 1] \/ mu' = [mu EXCEPT !.i = @ + 1, !.err = TRUE]
    OBVIOUS
  <2>3. mu' \in Lock
    BY <2>1, <2>2, LockSteps
  <2> QED
    BY <1>1, <2>1, <2>2, <2>3 DEF Lock
<1>3. /\ faults' \in 0 .. MaxFaults
      /\ \/ UNCHANGED <<rp, rpfile>>
         \/ rpfile' = "none" /\ rp' = IF rpfile = "none" THEN rp ELSE rpfile
  BY TunAssumption DEF TypeOK, Fault, RestoreRpFilter
<1>4. TypeOK'
  BY <1>1, <1>2, <1>3 DEF TypeOK
<1>5. Placed'
  BY <1>1, <1>2, ClearOrder DEF Placed, Free
<1>6. CleanInv'
  <2>1. Left(i) \subseteq Removes(ClearSteps[i]) \cup Left(i + 1)
    BY <1>1, LeftSteps
  <2>2. daemon => net \subseteq orphans \cup Left(i)
    BY <1>1 DEF CleanInv
  <2>3. daemon' => net' \subseteq orphans' \cup Left(mu.i)'
    BY <1>1, <1>2, <2>1, <2>2, LeftStays
  <2>4. Own' = Own
    BY <1>1 DEF Own, OnDevice, SplitRules
  <2> QED
    BY <1>1, <1>2, <2>3, <2>4 DEF CleanInv
<1>7. BypassInv'
  <2>1. i = 2 => TunRoute \notin net'
    BY <1>1, ClearOrder, RemovesAre
  <2>2. i > 2 => TunRoute \notin net
    BY <1>1 DEF BypassInv
  <2>3. i > 1 => TunRoute \notin net'
    BY <1>1, <2>1, <2>2
  <2> QED
    BY <1>1, <1>2, <2>3 DEF BypassInv, TunRoute
<1>8. BypassBeforeCapture'
  <2>1. i > 2 => BypassBeforeCapture'
    BY <1>1, <1>2, <1>7 DEF BypassInv, BypassBeforeCapture, TunRoute
  <2>2. i = 2 => BypassBeforeCapture'
    BY <1>1, <1>2, <1>7 DEF BypassInv, BypassBeforeCapture, TunRoute
  <2>3. i = 1 => BypassBeforeCapture'
    BY <1>1, <1>2, ClearOrder, RemovesAre DEF BypassBeforeCapture
  <2> QED
    BY <1>1, <2>1, <2>2, <2>3
<1>9. RpInv'
  BY <1>1, <1>2, <1>3 DEF RpInv, TypeOK
<1>10. SplitInv'
  <2>1. i = 8 => net' \cap SplitRules = {}
    BY <1>1, ClearOrder, RemovesAre DEF SplitRules
  <2>2. i > 8 => net \cap SplitRules = {}
    BY <1>1 DEF SplitInv
  <2>3. i > 7 => net' \cap SplitRules = {}
    BY <1>1, <2>1, <2>2
  <2> QED
    BY <1>1, <1>2, <2>3 DEF SplitInv, SplitRules
<1> QED
  BY <1>4, <1>5, <1>6, <1>7, <1>8, <1>9, <1>10

\* A new session has nothing in the kernel.
LEMMA StartFieldsStep ==
  ASSUME IInv, StartFields
  PROVE  IInv'
<1> USE DEF IInv, StartFields, past, kernel, clientVars
<1>1. /\ mu.op = "clear" /\ mu.then = "begin" /\ cm.at = "start" /\ ~t.on /\ daemon
      /\ cm.server \in Servers /\ cm.plan \in Plans /\ conf.name \in Names /\ t \in Fields
  BY DEF ClearEnd, Placed, TypeOK, Holder, Free
<1>2. net \subseteq orphans
  BY <1>1 DEF CleanInv
<1>3. /\ t' \in Fields /\ t'.on = FALSE /\ cm' \in Holder /\ mu' \in Lock
      /\ faults' \in 0 .. MaxFaults
  <2>1. t' \in Fields /\ t'.on = FALSE
    BY <1>1 DEF Fields
  <2>2. cm' \in Holder
    BY DEF TypeOK, Holder, NoCmd, Plans
  <2>3. mu' \in Lock
    BY Locks
  <2>4. faults' \in 0 .. MaxFaults
    BY TunAssumption DEF TypeOK, Fault
  <2> QED
    BY <2>1, <2>2, <2>3, <2>4
<1>4. \/ /\ mu' = [op |-> "start", i |-> 1, then |-> "none", err |-> FALSE]
         /\ t'.name \in Names /\ t'.server \in Servers /\ cm' = cm
      \/ /\ mu' = [op |-> "free", i |-> 1, then |-> "none", err |-> FALSE]
         /\ cm' = NoCmd
  BY <1>1, Locks DEF Fields
<1>5. TypeOK'
  BY <1>3 DEF TypeOK
<1>6. Placed'
  BY <1>1, <1>3, <1>4 DEF Placed, NoCmd
<1>7. CleanInv'
  BY <1>2, <1>4 DEF CleanInv
<1>8. BypassInv' /\ BypassBeforeCapture'
  BY <1>2, <1>3, <1>4 DEF BypassInv, BypassBeforeCapture
<1>9. RpInv'
  BY <1>4 DEF RpInv
<1>10. SplitInv'
  <2>1. net \cap SplitRules = {}
    BY ClearOrder DEF SplitInv, ClearEnd
  <2> QED
    BY <1>3, <1>4, <2>1 DEF SplitInv, SplitRules
<1> QED
  BY <1>5, <1>6, <1>7, <1>8, <1>9, <1>10

\* A script of Start: the next step, or the clearing of what the session has so far.
LEMMA StartStepStep ==
  ASSUME IInv, StartStep
  PROVE  IInv'
<1> USE DEF IInv, StartStep, past, clientVars
<1> DEFINE i    == mu.i
           step == StartSteps[i]
<1>1. /\ mu.op = "start" /\ i \in 1 .. 12 /\ mu \in Lock /\ cm.at = "start" /\ ~t.on /\ daemon
      /\ t.name \in Names /\ t.server \in Servers
  BY StartOrder, LockSteps DEF TypeOK, Placed, Free
<1>2. /\ Installs(step) \subseteq Own
      /\ Installs(step) \subseteq Artifacts
      /\ i # 11 => TunRoute \notin Installs(step)
      /\ i # 12 => Installs(step) \cap SplitRules = {}
  BY <1>1, InstallsOwn
<1>3. /\ step = "dev" <=> i = 1
      /\ step = "rp_save" <=> i = 4
      /\ step = "rp_set" <=> i = 5
      /\ step \in {"uid", "resolved"} <=> i \in {8, 10}
  BY <1>1, StartAt
<1>4. faults' \in 0 .. MaxFaults
  BY TunAssumption DEF TypeOK, Fault
<1>5. net' \subseteq net \cup Installs(step)
  OBVIOUS
<1>6. Own' = Own /\ t' = t /\ conf' = conf /\ orphans' = orphans /\ pc' = pc
  BY DEF Own, OnDevice, SplitRules
<1>7. net \subseteq orphans \cup Own /\ net' \subseteq orphans \cup Own
  BY <1>1, <1>2, <1>5 DEF CleanInv
<1>8. net' \subseteq Artifacts
  BY <1>2, <1>5 DEF TypeOK
<1>9. /\ i <= 11 => TunRoute \notin net \ orphans
      /\ 1 < i /\ i <= 11 => TunRoute \notin net
      /\ i > 2 => <<"proxy", t.server>> \in net
      /\ i > 6 => <<"mark", None>> \in net
      /\ i <= 12 => net \cap SplitRules = {}
      /\ i > 4 => rpfile = "strict"
  BY <1>1 DEF BypassInv, SplitInv, RpInv
<1>10. <<"proxy", t.server>> \notin OnDevice(t.name) /\ <<"mark", None>> \notin OnDevice(t.name)
  BY DEF OnDevice
<1>11. CASE mu' = Clearing("fail")
  <2>1. /\ mu' = [op |-> "clear", i |-> 1, then |-> "fail", err |-> FALSE] /\ mu' \in Lock
        /\ UNCHANGED <<rp, rpfile>> /\ net \subseteq net'
        /\ net' \in {net, net \cup Installs(step)}
    <3>1. [mu EXCEPT !.i = @ + 1].op = "start"
      BY <1>1 DEF Lock
    <3> QED
      BY <1>11, <3>1, Locks
  <2>2. TypeOK'
    BY <1>4, <1>8, <2>1 DEF TypeOK
  <2>3. Placed'
    BY <1>1, <2>1, ClearOrder DEF Placed
  <2>4. CleanInv'
    <3>1. Own \subseteq Left(1)'
      BY OwnLeft, LeftStays, <1>6
    <3> QED
      BY <1>1, <1>6, <1>7, <2>1, <3>1 DEF CleanInv
  <2>5. BypassBeforeCapture'
    <3>1. TunRoute \in net' \ orphans => i > 10
      BY <1>1, <1>2, <1>5, <1>9
    <3> QED
      BY <1>1, <1>6, <1>9, <2>1, <3>1 DEF BypassBeforeCapture, TunRoute
  <2>6. BypassInv' /\ RpInv' /\ SplitInv'
    BY <1>1, <2>1 DEF BypassInv, RpInv, SplitInv
  <2> QED
    BY <2>2, <2>3, <2>4, <2>5, <2>6
<1>12. CASE mu' = [mu EXCEPT !.i = @ + 1]
  <2>1. mu' \in Lock /\ mu'.op = "start" /\ mu'.i = i + 1
    BY <1>1, <1>12, LockSteps DEF Lock
  <2>2. mu'.op # "clear"
    BY <2>1
  <2>3. Clearing("fail").op = "clear"
    BY Locks
  <2>4. \/ /\ net' = (IF i = 1 THEN net \ OnDevice(t.name) ELSE net) \cup Installs(step)
           /\ rpfile' = IF i = 4 THEN RpSaved ELSE rpfile
           /\ rp' = IF i = 5 THEN "loose" ELSE rp
        \/ /\ i \in {8, 10} /\ UNCHANGED <<rp, rpfile>>
           /\ net' \in {net, net \cup Installs(step)}
    BY <1>3, <2>2, <2>3
  <2>5. TypeOK'
    BY <1>4, <1>8, <2>1, <2>4 DEF TypeOK, RpSaved
  <2>6. Placed'
    BY <1>1, <2>1 DEF Placed
  <2>7. CleanInv'
    BY <1>1, <1>6, <1>7, <2>1 DEF CleanInv
  <2>8. i = 2 => <<"proxy", t.server>> \in net'
    BY <2>4, StartOrder, InstallsAre
  <2>9. i = 6 => <<"mark", None>> \in net'
    BY <2>4, StartOrder, InstallsAre
  <2>10. /\ i > 1 => <<"proxy", t.server>> \in net'
         /\ i > 5 => <<"mark", None>> \in net'
    BY <1>1, <1>9, <1>10, <2>4, <2>8, <2>9
  <2>11. i = 1 => TunRoute \notin net'
    BY <1>2, <2>4 DEF TunRoute, OnDevice
  <2>12. i <= 10 => TunRoute \notin net'
    BY <1>1, <1>2, <1>5, <1>9, <2>11
  <2>13. i = 11 => RouteFits'
    BY <1>2, <1>6, <1>9, <2>4, StartOrder, InstallsAre DEF RouteFits, TunRoute
  <2>14. i = 12 => RulesFit' /\ (TunRoute \in net' <=> TunRoute \in net)
    BY <1>2, <1>6, <1>9, <2>4, StartOrder, InstallsAre DEF RulesFit, SplitRules, TypeOK
  <2>15. i <= 11 => (net \cap SplitRules)' = {}
    BY <1>1, <1>2, <1>5, <1>9 DEF SplitRules
  <2>16. BypassBeforeCapture'
    BY <1>1, <1>6, <2>10, <2>12 DEF BypassBeforeCapture, TunRoute
  <2>17. BypassInv'
    BY <1>1, <1>6, <2>1, <2>10, <2>12 DEF BypassInv, TunRoute
  <2>18. RpInv'
    BY <1>1, <1>9, <2>1, <2>4 DEF RpInv, RpSaved, TypeOK
  <2>19. SplitInv'
    <3>1. NoneWaits' = NoneWaits /\ (i > 11 /\ NoneWaits => RouteFits)
      BY <1>1, <1>6 DEF NoneWaits, SplitInv
    <3>2. i = 12 /\ NoneWaits => RouteFits'
      BY <3>1, <2>14, <1>6 DEF RouteFits, TunRoute
    <3> QED
      BY <1>1, <2>1, <2>13, <2>14, <2>15, <3>1, <3>2 DEF SplitInv
  <2> QED
    BY <2>5, <2>6, <2>7, <2>16, <2>17, <2>18, <2>19
<1> QED
  BY <1>11, <1>12

\* The end of a clearing.
LEMMA ClearEnds ==
  ASSUME IInv, NEW then, ClearEnd(then)
  PROVE  /\ mu.op = "clear" /\ mu.then = then /\ daemon
         /\ net \subseteq orphans /\ net \cap SplitRules = {}
<1>1. mu.op = "clear" /\ mu.then = then /\ mu.i = 12 /\ daemon
  BY ClearOrder DEF ClearEnd, IInv, Placed, Free
<1>2. net \subseteq orphans
  BY <1>1, LeftSteps DEF IInv, CleanInv
<1>3. net \cap SplitRules = {}
  BY <1>1 DEF IInv, SplitInv
<1> QED
  BY <1>1, <1>2, <1>3

LEMMA StartFailedStep ==
  ASSUME IInv, StartFailed
  PROVE  IInv'
<1> USE DEF IInv, StartFailed, history, past, kernel, clientVars
<1>1. /\ mu.op = "clear" /\ mu.then = "fail" /\ cm.at = "start" /\ ~t.on /\ daemon
      /\ net \subseteq orphans
  BY ClearEnds DEF Placed
<1>2. /\ mu' = [op |-> "free", i |-> 1, then |-> "none", err |-> FALSE] /\ mu' \in Lock
      /\ cm' = NoCmd /\ cm' \in Holder
  BY Locks DEF NoCmd, Holder, Plans
<1>3. TypeOK'
  BY <1>2 DEF TypeOK
<1>4. Placed'
  BY <1>1, <1>2 DEF Placed, NoCmd
<1>5. CleanInv' /\ BypassBeforeCapture' /\ BypassInv' /\ RpInv' /\ SplitInv'
  BY <1>1, <1>2 DEF CleanInv, BypassBeforeCapture, BypassInv, RpInv, SplitInv
<1> QED
  BY <1>3, <1>4, <1>5

LEMMA StartDoneStep ==
  ASSUME IInv, StartDone
  PROVE  IInv'
<1> USE DEF IInv, StartDone, history, past, kernel, clientVars
<1>1. /\ mu.op = "start" /\ mu.i = 13 /\ cm.at = "start" /\ ~t.on /\ daemon
      /\ t \in Fields /\ cm \in Holder
  BY StartOrder DEF TypeOK, Placed, Free
<1>2. /\ mu' = [op |-> "free", i |-> 1, then |-> "none", err |-> FALSE] /\ mu' \in Lock
      /\ cm' \in Holder /\ cm'.at = "reload"
      /\ t' \in Fields /\ t'.on = TRUE /\ t'.name = t.name /\ t'.server = t.server
      /\ t'.plan = t.plan
  BY <1>1, Locks DEF Fields, Holder
<1>3. TypeOK'
  BY <1>2 DEF TypeOK
<1>4. Placed'
  BY <1>1, <1>2 DEF Placed
<1>5. CleanInv'
  BY <1>1, <1>2 DEF CleanInv, Own, OnDevice, SplitRules
<1>6. BypassBeforeCapture' /\ BypassInv' /\ RpInv'
  BY <1>1, <1>2 DEF BypassBeforeCapture, BypassInv, RpInv, Bypass, TunRoute
<1>7. SplitInv'
  <2>1. NoneWaits => RouteFits /\ RulesFit
    BY <1>1 DEF SplitInv
  <2>2. NoneWaits' => RouteFits' /\ RulesFit'
    BY <1>2, <2>1 DEF NoneWaits, RouteFits, RulesFit, TunRoute, SplitRules
  <2> QED
    BY <1>2, <2>2 DEF SplitInv
<1> QED
  BY <1>3, <1>4, <1>5, <1>6, <1>7

\* Stop begins: Disconnect, a failed reload of the proxy, or the exit handler.
LEMMA StopBegins ==
  ASSUME IInv, mu.op = "free", t.on, mu' = Clearing("stop"),
         UNCHANGED <<conf, net, rp, rpfile, t, orphans, failed, daemon>>
  PROVE  CleanInv' /\ BypassBeforeCapture' /\ BypassInv' /\ RpInv' /\ SplitInv'
<1> USE DEF IInv
<1>1. mu' = [op |-> "clear", i |-> 1, then |-> "stop", err |-> FALSE]
  BY Locks
<1>2. CleanInv'
  <2>1. Own' = Own /\ Own \subseteq Left(1)'
    BY OwnLeft, LeftStays DEF Own, OnDevice, SplitRules
  <2> QED
    BY <1>1, <2>1 DEF CleanInv
<1>3. BypassBeforeCapture' /\ BypassInv' /\ RpInv' /\ SplitInv'
  BY <1>1 DEF BypassBeforeCapture, BypassInv, RpInv, SplitInv
<1> QED
  BY <1>2, <1>3

LEMMA EnableReloadStep ==
  ASSUME IInv, EnableReload
  PROVE  IInv'
<1> USE DEF IInv, EnableReload, past, kernel, clientVars
<1>1. CASE cm' = NoCmd /\ UNCHANGED <<mu, faults>>
  <2>1. TypeOK'
    BY <1>1 DEF TypeOK, NoCmd, Holder, Plans
  <2>2. Placed'
    BY <1>1 DEF Placed, NoCmd
  <2>3. CleanInv' /\ BypassBeforeCapture' /\ BypassInv' /\ RpInv' /\ SplitInv'
    BY <1>1, KernelStays DEF NoneWaits
  <2> QED
    BY <2>1, <2>2, <2>3
<1>2. CASE /\ Fault /\ mu.op = "free" /\ t.on
           /\ cm' = [NoCmd EXCEPT !.at = "stop"] /\ mu' = Clearing("stop")
  <2>1. cm' \in Holder /\ cm'.at = "stop"
    BY <1>2 DEF NoCmd, Holder, Plans
  <2>2. /\ mu' = [op |-> "clear", i |-> 1, then |-> "stop", err |-> FALSE] /\ mu' \in Lock
    BY <1>2, Locks
  <2>3. TypeOK'
    BY <1>2, <2>1, <2>2, TunAssumption DEF TypeOK, Fault
  <2>4. Placed'
    BY <1>2, <2>1, <2>2, ClearOrder DEF Placed, NoCmd
  <2>5. CleanInv' /\ BypassBeforeCapture' /\ BypassInv' /\ RpInv' /\ SplitInv'
    BY <1>2, StopBegins
  <2> QED
    BY <2>3, <2>4, <2>5
<1> QED
  BY <1>1, <1>2

LEMMA DisableTunStep ==
  ASSUME IInv, DisableTun
  PROVE  IInv'
<1> USE DEF IInv, DisableTun, history, past, kernel, clientVars
<1>1. cm' \in Holder /\ cm'.at = "stop"
  BY DEF NoCmd, Holder, Plans
<1>2. /\ mu' = [op |-> "clear", i |-> 1, then |-> "stop", err |-> FALSE] /\ mu' \in Lock
  BY Locks
<1>3. TypeOK'
  BY <1>1, <1>2 DEF TypeOK
<1>4. Placed'
  BY <1>1, <1>2, ClearOrder DEF Placed
<1>5. CleanInv' /\ BypassBeforeCapture' /\ BypassInv' /\ RpInv' /\ SplitInv'
  BY StopBegins
<1> QED
  BY <1>3, <1>4, <1>5

LEMMA ExitHandlerStep ==
  ASSUME IInv, ExitHandler
  PROVE  IInv'
<1> USE DEF IInv, ExitHandler, history, past, kernel, clientVars
<1>1. /\ mu' = [op |-> "clear", i |-> 1, then |-> "stop", err |-> FALSE] /\ mu' \in Lock
  BY Locks
<1>2. TypeOK'
  BY <1>1 DEF TypeOK
<1>3. Placed'
  BY <1>1, ClearOrder DEF Placed
<1>4. CleanInv' /\ BypassBeforeCapture' /\ BypassInv' /\ RpInv' /\ SplitInv'
  BY StopBegins
<1> QED
  BY <1>2, <1>3, <1>4

LEMMA StoppedStep ==
  ASSUME IInv, Stopped
  PROVE  IInv'
<1> USE DEF IInv, Stopped, history, past, kernel, clientVars
<1>1. /\ mu.op = "clear" /\ mu.then = "stop" /\ cm.at # "start" /\ t.on /\ daemon
      /\ net \subseteq orphans /\ cm.at \notin {"plan", "enable"} /\ t \in Fields
  BY ClearEnds DEF Placed, TypeOK
<1>2. /\ mu' = [op |-> "free", i |-> 1, then |-> "none", err |-> FALSE] /\ mu' \in Lock
      /\ cm' \in Holder /\ cm'.at = IF cm.at = "stop" THEN "free" ELSE cm.at
      /\ t' \in Fields /\ t'.on = FALSE
  BY <1>1, Locks DEF NoCmd, Holder, Plans, Fields, TypeOK
<1>3. TypeOK'
  BY <1>2 DEF TypeOK
<1>4. Placed'
  BY <1>1, <1>2 DEF Placed
<1>5. CleanInv' /\ BypassBeforeCapture' /\ BypassInv' /\ RpInv' /\ SplitInv'
  BY <1>1, <1>2 DEF CleanInv, BypassBeforeCapture, BypassInv, RpInv, SplitInv
<1> QED
  BY <1>3, <1>4, <1>5

-----------------------------------------------------------------------------
(* Live changes.                                                           *)

\* From now on this client waits.
LEMMA SetSplitTunnelStep ==
  ASSUME IInv, NEW c \in Clients, NEW mode \in Modes, SetSplitTunnel(c, mode)
  PROVE  IInv'
<1> USE DEF IInv, SetSplitTunnel, At, history, past, kernel
<1>1. TypeOK'
  BY DEF TypeOK
<1>2. Placed'
  BY DEF Placed
<1>3. pc'[c] = "check"
  BY DEF TypeOK
<1>4. CleanInv'
  BY LeftStays DEF CleanInv, Own, OnDevice, SplitRules
<1>5. BypassBeforeCapture' /\ BypassInv' /\ RpInv'
  BY DEF BypassBeforeCapture, BypassInv, RpInv, Bypass, TunRoute
<1>6. SplitInv'
  BY <1>3 DEF SplitInv, NoneWaits, SplitRules
<1> QED
  BY <1>1, <1>2, <1>4, <1>5, <1>6

LEMMA SplitCheckStep ==
  ASSUME IInv, NEW c \in Clients, SplitCheck(c)
  PROVE  IInv'
<1> USE DEF IInv, SplitCheck, At, history, past, kernel
<1>1. TypeOK'
  BY DEF TypeOK
<1>2. Placed'
  BY DEF Placed, TypeOK
<1>3. t.on => pc'[c] = "split"
  BY DEF TypeOK
<1>4. CleanInv'
  BY LeftStays DEF CleanInv, Own, OnDevice, SplitRules
<1>5. BypassBeforeCapture' /\ BypassInv' /\ RpInv'
  BY DEF BypassBeforeCapture, BypassInv, RpInv, Bypass, TunRoute
<1>6. SplitInv'
  BY <1>3 DEF SplitInv, NoneWaits, SplitRules
<1> QED
  BY <1>1, <1>2, <1>4, <1>5, <1>6

LEMMA ReapplySplitStep ==
  ASSUME IInv, NEW c \in Clients, ReapplySplit(c)
  PROVE  IInv'
<1> USE DEF IInv, ReapplySplit, At, history, past
<1>1. CASE /\ t.on /\ At(c, "split", "splitting")
           /\ mu' = [Free EXCEPT !.op = "split"] /\ net' = net \ SplitRules
  <2>1. /\ mu' = [op |-> "split", i |-> 1, then |-> "none", err |-> FALSE] /\ mu' \in Lock
    BY <1>1, Locks
  <2>2. TypeOK'
    BY <1>1, <2>1 DEF TypeOK
  <2>3. Placed'
    BY <1>1, <2>1 DEF Placed, Idle
  <2>4. CleanInv'
    BY <1>1, <2>1 DEF CleanInv, Own, OnDevice, SplitRules
  <2>5. Bypass \cap SplitRules = {}
    BY DEF Bypass, SplitRules
  <2>6. Bypass \subseteq net /\ Bypass \subseteq net'
    BY <1>1, <2>5 DEF BypassInv
  <2>7. BypassBeforeCapture' /\ BypassInv' /\ RpInv'
    BY <1>1, <2>1, <2>6 DEF BypassBeforeCapture, BypassInv, RpInv, Bypass, TunRoute
  <2>8. SplitInv'
    BY <1>1, <2>1 DEF SplitInv, SplitRules
  <2> QED
    BY <2>2, <2>3, <2>4, <2>7, <2>8
<1>2. CASE ~t.on /\ At(c, "split", "redns") /\ UNCHANGED <<mu, net>>
  <2>1. TypeOK'
    BY <1>2 DEF TypeOK
  <2>2. Placed'
    BY <1>2 DEF Placed, TypeOK
  <2>3. CleanInv'
    BY <1>2, LeftStays DEF CleanInv, Own, OnDevice, SplitRules
  <2>4. BypassBeforeCapture' /\ BypassInv' /\ RpInv' /\ SplitInv'
    BY <1>2 DEF BypassBeforeCapture, BypassInv, RpInv, Bypass, TunRoute, SplitInv, SplitRules
  <2> QED
    BY <2>1, <2>2, <2>3, <2>4
<1> QED
  BY <1>1, <1>2

\* What the two scripts of ReapplySplit have in common: they touch the route, the split
\* rules and nothing else.
LEMMA SplitScript ==
  ASSUME IInv, mu.op = "split", UNCHANGED <<conf, rp, rpfile, t, cm, loc, daemon, deaths, orphans>>,
         net \ {TunRoute} \subseteq net', net' \subseteq net \cup {TunRoute} \cup SplitRules,
         mu' \in Lock, mu'.op \in {"free", "split"}, failed' \subseteq {"split", "dns"},
         faults' \in 0 .. MaxFaults,
         pc' \in [Clients -> {"idle", "check", "split", "splitting", "redns", "plan", "sethijack"}]
  PROVE  TypeOK' /\ Placed' /\ CleanInv' /\ BypassBeforeCapture' /\ BypassInv' /\ RpInv'
<1> USE DEF IInv
<1>1. t.on /\ daemon /\ cm.at \notin {"plan", "enable", "start", "stop"}
      /\ t.name \in Names /\ t.server \in Servers
  BY DEF Placed, Free
<1>2. TunRoute \in Artifacts /\ SplitRules \subseteq Artifacts
  BY <1>1 DEF TunRoute, SplitRules, Artifacts
<1>3. TypeOK'
  BY <1>2 DEF TypeOK
<1>4. Placed'
  BY <1>1 DEF Placed
<1>5. CleanInv'
  <2>1. Own' = Own /\ TunRoute \in Own /\ SplitRules \subseteq Own
    BY DEF Own, OnDevice, SplitRules, TunRoute
  <2> QED
    BY <1>1, <2>1 DEF CleanInv
<1>6. TunRoute \notin Bypass /\ Bypass \subseteq net
  BY <1>1 DEF TunRoute, Bypass, BypassInv
<1>7. Bypass \subseteq net'
  BY <1>6
<1>8. BypassBeforeCapture' /\ BypassInv' /\ RpInv'
  BY <1>1, <1>7 DEF BypassBeforeCapture, BypassInv, RpInv, Bypass, TunRoute
<1> QED
  BY <1>3, <1>4, <1>5, <1>8

LEMMA ReapplyRouteStep ==
  ASSUME IInv, NEW c \in Clients, ReapplyRoute(c)
  PROVE  IInv'
<1> USE DEF IInv, ReapplyRoute, past
<1>1. mu.op = "split" /\ mu.i = 1 /\ mu \in Lock
  BY DEF TypeOK
<1>2. [mu EXCEPT !.i = 2] \in Lock
  <2>1. [mu EXCEPT !.i = @ + 1] \in Lock
    BY <1>1, LockSteps
  <2> QED
    BY <1>1, <2>1 DEF Lock
<1>3. TunRoute \notin SplitRules
  BY DEF TunRoute, SplitRules
<1>4. net \cap SplitRules = {}
  BY <1>1 DEF SplitInv
<1>5. CASE /\ net' = (net \ {TunRoute}) \cup Installs("tunroute")
           /\ mu' = [mu EXCEPT !.i = 2] /\ UNCHANGED <<pc, failed, faults>>
  <2>1. mu' \in Lock /\ mu'.op = "split" /\ mu'.i = 2
    BY <1>1, <1>2, <1>5 DEF Lock
  <2>2. TypeOK' /\ Placed' /\ CleanInv' /\ BypassBeforeCapture' /\ BypassInv' /\ RpInv'
    BY <1>1, <1>5, <2>1, SplitScript, InstallsAre DEF TypeOK
  <2>3. RouteFits' /\ (net \cap SplitRules)' = {}
    BY <1>3, <1>4, <1>5, InstallsAre DEF RouteFits, TunRoute, SplitRules
  <2>4. SplitInv'
    BY <2>1, <2>3 DEF SplitInv
  <2> QED
    BY <2>2, <2>4
<1>6. CASE net' = net \ {TunRoute} /\ SplitFails(c) /\ faults' \in 0 .. MaxFaults
  <2>1. mu' \in Lock /\ mu'.op = "free" /\ "split" \in failed'
    BY <1>6, Locks DEF SplitFails
  <2>2. /\ failed' \subseteq {"split", "dns"}
        /\ pc' \in [Clients -> {"idle", "check", "split", "splitting", "redns", "plan", "sethijack"}]
    BY <1>6 DEF SplitFails, At, TypeOK
  <2>3. TypeOK' /\ Placed' /\ CleanInv' /\ BypassBeforeCapture' /\ BypassInv' /\ RpInv'
    BY <1>1, <1>6, <2>1, <2>2, SplitScript
  <2>4. SplitInv'
    BY <2>1 DEF SplitInv
  <2> QED
    BY <2>3, <2>4
<1>7. Fault \/ UNCHANGED faults => faults' \in 0 .. MaxFaults
  BY TunAssumption DEF Fault, TypeOK
<1> QED
  BY <1>5, <1>6, <1>7 DEF TunRoute

LEMMA ReapplyRulesStep ==
  ASSUME IInv, NEW c \in Clients, ReapplyRules(c)
  PROVE  IInv'
<1> USE DEF IInv, ReapplyRules, past
<1>1. mu.op = "split" /\ mu.i = 2
  OBVIOUS
<1>2. Installs("split") \subseteq SplitRules
  BY InstallsAre DEF SplitRules, TypeOK
<1>3. mu' \in Lock /\ mu'.op = "free"
  <2>1. mu' = Free
    BY DEF SplitFails
  <2> QED
    BY <2>1, Locks
<1>4. /\ faults' \in 0 .. MaxFaults /\ failed' \subseteq {"split", "dns"}
      /\ pc' \in [Clients -> {"idle", "check", "split", "splitting", "redns", "plan", "sethijack"}]
  <2>1. faults' \in 0 .. MaxFaults
    BY TunAssumption DEF TypeOK, Fault
  <2>2. failed' \subseteq failed \cup {"split"}
    BY DEF SplitFails
  <2>3. pc' \in {[pc EXCEPT ![c] = "redns"], [pc EXCEPT ![c] = "idle"]}
    BY DEF At, SplitFails
  <2> QED
    BY <2>1, <2>2, <2>3 DEF TypeOK
<1>5. net' \in {net, net \cup Installs("split")}
  OBVIOUS
<1>6. TypeOK' /\ Placed' /\ CleanInv' /\ BypassBeforeCapture' /\ BypassInv' /\ RpInv'
  BY <1>1, <1>2, <1>3, <1>4, <1>5, SplitScript
<1>7. CASE /\ At(c, "splitting", "redns") /\ net' = net \cup Installs("split")
  <2>1. NoneWaits' => NoneWaits
    BY <1>7 DEF At, NoneWaits, TypeOK
  <2>2. RulesFit'
    BY <1>1, <1>7, InstallsAre DEF RulesFit, SplitInv, SplitRules, TypeOK
  <2>3. RouteFits => RouteFits'
    BY <1>2, <1>7 DEF RouteFits, TunRoute, SplitRules
  <2> QED
    BY <1>1, <1>3, <1>6, <2>1, <2>2, <2>3 DEF SplitInv
<1>8. CASE SplitFails(c)
  BY <1>3, <1>6, <1>8 DEF SplitFails, SplitInv
<1> QED
  BY <1>7, <1>8

\* A new plan for DNS in a running session.
LEMMA SetDnsHijackStep ==
  ASSUME IInv, NEW plan \in Plans, SetDnsHijack(plan), t.on, mu.op = "free",
         UNCHANGED <<conf, rp, rpfile, mu, cm, past>>,
         NoneWaits' => NoneWaits, loc' \in [Clients -> Plans],
         pc' \in [Clients -> {"idle", "check", "split", "splitting", "redns", "plan", "sethijack"}]
  PROVE  IInv'
<1> USE DEF IInv, past
<1> DEFINE dns   == {<<"dns", None>>}
           rules == {<<"hijack", None>>, <<"resolved", t.name>>}
           rest  == net \ (rules \cup IF t.plan = "legacy" THEN dns ELSE {})
           new   == (IF plan = "legacy" THEN dns ELSE {})
                    \cup (IF Enabled(plan) THEN rules ELSE {})
<1>1. /\ daemon /\ t \in Fields /\ t.name \in Names /\ t.server \in Servers
      /\ cm.at \notin {"plan", "enable", "start", "stop"}
  BY DEF Placed, TypeOK, Idle
<1>2. /\ t' \in Fields /\ t'.name = t.name /\ t'.server = t.server /\ t'.on = t.on
      /\ t'.plan = plan
  BY <1>1 DEF SetDnsHijack, Fields
<1>3. PICK S \in SUBSET new : net' = rest \cup S
  BY DEF SetDnsHijack
<1>4. /\ faults' \in 0 .. MaxFaults /\ failed' \in {failed \cup {"dns"}, failed \ {"dns"}}
  BY TunAssumption DEF SetDnsHijack, TypeOK, Fault
<1>5. dns \cup rules \subseteq Artifacts
  BY <1>1 DEF Artifacts
<1>6. /\ dns \cap SplitRules = {} /\ rules \cap SplitRules = {}
      /\ TunRoute \notin dns \cup rules
      /\ <<"proxy", t.server>> \notin dns \cup rules /\ <<"mark", None>> \notin dns \cup rules
  BY DEF TunRoute, SplitRules
<1>7. /\ net' \cap SplitRules = net \cap SplitRules
      /\ TunRoute \in net' <=> TunRoute \in net
      /\ <<"proxy", t.server>> \in net' <=> <<"proxy", t.server>> \in net
      /\ <<"mark", None>> \in net' <=> <<"mark", None>> \in net
  BY <1>3, <1>6
<1>8. TypeOK'
  <2>1. net' \subseteq Artifacts
    BY <1>3, <1>5 DEF TypeOK
  <2>2. failed' \subseteq {"split", "dns"}
    BY <1>4 DEF TypeOK
  <2> QED
    BY <1>2, <1>4, <2>1, <2>2 DEF TypeOK
<1>9. Placed'
  BY <1>1, <1>2 DEF Placed
<1>10. CleanInv'
  <2>1. rest \subseteq orphans \cup Own'
    BY <1>1, <1>2 DEF CleanInv, Own, OnDevice, SplitRules
  <2>2. new \subseteq Own'
    BY <1>2 DEF Own, OnDevice, SplitRules
  <2> QED
    BY <1>1, <1>2, <1>3, <2>1, <2>2 DEF CleanInv
<1>11. BypassBeforeCapture' /\ BypassInv' /\ RpInv'
  BY <1>1, <1>2, <1>7 DEF BypassBeforeCapture, BypassInv, RpInv, Bypass, TunRoute
<1>12. SplitInv'
  <2>1. "split" \in failed' <=> "split" \in failed
    BY <1>4
  <2>2. NoneWaits' /\ "split" \notin failed' => RouteFits /\ RulesFit
    BY <1>1, <2>1 DEF SplitInv
  <2>3. RouteFits /\ RulesFit => RouteFits' /\ RulesFit'
    BY <1>2, <1>7 DEF RouteFits, RulesFit, TunRoute, SplitRules
  <2> QED
    BY <2>2, <2>3 DEF SplitInv
<1> QED
  BY <1>8, <1>9, <1>10, <1>11, <1>12

\* A client moves and the rest stays.
LEMMA ClientMoves ==
  ASSUME IInv, daemon, UNCHANGED <<conf, kernel, t, mu, cm, history, failed>>,
         NoneWaits' => NoneWaits, loc' \in [Clients -> Plans],
         pc' \in [Clients -> {"idle", "check", "split", "splitting", "redns", "plan", "sethijack"}]
  PROVE  IInv'
<1> USE DEF IInv, history, past, kernel
<1>1. TypeOK'
  BY DEF TypeOK
<1>2. Placed'
  BY DEF Placed
<1>3. CleanInv' /\ BypassBeforeCapture' /\ BypassInv' /\ RpInv' /\ SplitInv'
  BY KernelStays
<1> QED
  BY <1>1, <1>2, <1>3

\* A step of a client that is not about the split mode.
LEMMA ClientAt ==
  ASSUME IInv, NEW c \in Clients, NEW from, NEW to, At(c, from, to),
         from \notin {"check", "split"}, to \in {"idle", "plan", "sethijack"}
  PROVE  /\ NoneWaits' => NoneWaits
         /\ pc' \in [Clients -> {"idle", "check", "split", "splitting", "redns", "plan", "sethijack"}]
         /\ from # "idle" => daemon
  BY DEF IInv, TypeOK, At, NoneWaits, Placed

LEMMA ReapplyDnsHijackStep ==
  ASSUME IInv, NEW c \in Clients, ReapplyDnsHijack(c)
  PROVE  IInv'
<1> USE DEF ReapplyDnsHijack
<1>1. /\ NoneWaits' => NoneWaits
      /\ pc' \in [Clients -> {"idle", "check", "split", "splitting", "redns", "plan", "sethijack"}]
      /\ daemon
  BY ClientAt
<1>2. loc' \in [Clients -> Plans]
  BY DEF IInv, TypeOK
<1>3. CASE t.on /\ SetDnsHijack(IF conf.split = "include" THEN "happ_off" ELSE "happ")
  BY <1>1, <1>2, <1>3, SetDnsHijackStep DEF Plans
<1>4. CASE UNCHANGED <<t, net, failed, faults>>
  BY <1>1, <1>2, <1>4, ClientMoves DEF kernel, history, past
<1> QED
  BY <1>3, <1>4

LEMMA RefreshStep ==
  ASSUME IInv, NEW c \in Clients, RefreshCheck(c) \/ RefreshPlan(c) \/ RefreshApply(c)
  PROVE  IInv'
<1>1. CASE RefreshCheck(c)
  BY <1>1, ClientAt, ClientMoves DEF RefreshCheck, IInv, TypeOK
<1>2. CASE RefreshPlan(c)
  <2>1. loc' \in [Clients -> Plans]
    BY <1>2 DEF RefreshPlan, IInv, TypeOK, DnsHijackFor, Plans
  <2> QED
    BY <1>2, <2>1, ClientAt, ClientMoves DEF RefreshPlan
<1>3. CASE RefreshApply(c)
  <2>1. loc' \in [Clients -> Plans] /\ loc[c] \in Plans
    BY <1>3 DEF RefreshApply, IInv, TypeOK, Plans
  <2>2. /\ NoneWaits' => NoneWaits
        /\ pc' \in [Clients -> {"idle", "check", "split", "splitting", "redns", "plan", "sethijack"}]
        /\ daemon
    BY <1>3, ClientAt DEF RefreshApply
  <2>3. CASE t.on
    BY <1>3, <2>1, <2>2, <2>3, SetDnsHijackStep DEF RefreshApply
  <2>4. CASE ~t.on
    BY <1>3, <2>1, <2>2, <2>4, ClientMoves DEF RefreshApply, kernel, history, past
  <2> QED
    BY <2>3, <2>4
<1> QED
  BY <1>1, <1>2, <1>3

-----------------------------------------------------------------------------
(* Death and start of the daemon.                                          *)

\* The kernel keeps what it has; the session's fields are gone.
LEMMA DieStep ==
  ASSUME IInv, Die
  PROVE  IInv'
<1> USE DEF IInv, Die, kernel
<1>1. TypeOK'
  <2>1. t' \in Fields /\ cm' \in Holder
    BY DEF Idle, Fields, NoCmd, Holder, Plans
  <2>2. mu' \in Lock
    BY Locks
  <2>3. deaths' \in 0 .. MaxDeaths
    BY TunAssumption DEF TypeOK
  <2> QED
    BY <2>1, <2>2, <2>3 DEF TypeOK, Plans
<1>2. /\ mu' = [op |-> "free", i |-> 1, then |-> "none", err |-> FALSE]
      /\ t'.name = None /\ t'.on = FALSE /\ cm'.at = "free"
  BY Locks DEF Idle, NoCmd
<1>3. Placed'
  BY <1>2 DEF Placed
<1>4. CleanInv'
  BY DEF CleanInv
<1>5. TunRoute' \notin net'
  BY <1>2, TunAssumption DEF TypeOK, TunRoute, Artifacts
<1>6. BypassBeforeCapture' /\ BypassInv' /\ RpInv' /\ SplitInv'
  BY <1>2, <1>5 DEF BypassBeforeCapture, BypassInv, RpInv, SplitInv, TunRoute
<1> QED
  BY <1>1, <1>3, <1>4, <1>6

\* What is left now is an orphan.
LEMMA ReconcileStep ==
  ASSUME IInv, ReconcileOrphanedRules
  PROVE  IInv'
<1> USE DEF IInv, ReconcileOrphanedRules, kernel, clientVars
<1>1. /\ ~t.on /\ mu.op = "free" /\ cm.at = "free"
  BY DEF Placed, Idle, Free, NoCmd
<1>2. /\ faults' \in 0 .. MaxFaults /\ net' \subseteq net /\ orphans' = net'
      /\ \/ UNCHANGED <<rp, rpfile>>
         \/ rpfile' = "none" /\ rp' = IF rpfile = "none" THEN rp ELSE rpfile
  BY TunAssumption DEF TypeOK, Fault, RestoreRpFilter
<1>3. TypeOK'
  BY <1>2 DEF TypeOK
<1>4. Placed'
  BY <1>1 DEF Placed
<1>5. CleanInv'
  BY <1>1, <1>2 DEF CleanInv
<1>6. BypassBeforeCapture' /\ BypassInv' /\ RpInv' /\ SplitInv'
  BY <1>1, <1>2 DEF BypassBeforeCapture, BypassInv, RpInv, SplitInv, TypeOK
<1> QED
  BY <1>3, <1>4, <1>5, <1>6

-----------------------------------------------------------------------------
(* The invariant and what follows from it.                                 *)

LEMMA InitIInv == Init => IInv
<1> SUFFICES ASSUME Init
             PROVE  IInv
  OBVIOUS
<1> USE DEF Init
<1>1. /\ mu = [op |-> "free", i |-> 1, then |-> "none", err |-> FALSE] /\ mu \in Lock
      /\ ~t.on /\ cm.at = "free"
  BY Locks DEF Idle, NoCmd
<1>2. TypeOK
  <2>1. t \in Fields /\ cm \in Holder
    BY DEF Idle, Fields, NoCmd, Holder, Plans
  <2>2. conf \in [split : Modes, name : Names]
    BY DEF Modes
  <2> QED
    BY <1>1, <2>1, <2>2, TunAssumption DEF TypeOK, Plans
<1>3. Placed /\ CleanInv /\ BypassBeforeCapture /\ BypassInv /\ RpInv /\ SplitInv
  BY <1>1 DEF Placed, CleanInv, BypassBeforeCapture, BypassInv, RpInv, SplitInv
<1> QED
  BY <1>2, <1>3 DEF IInv

LEMMA StutterIInv ==
  ASSUME IInv, UNCHANGED vars
  PROVE  IInv'
<1> USE DEF IInv, vars
<1>1. TypeOK' /\ Placed'
  BY DEF TypeOK, Placed
<1>2. CleanInv' /\ BypassBeforeCapture' /\ BypassInv' /\ RpInv' /\ SplitInv'
  BY KernelStays DEF NoneWaits
<1> QED
  BY <1>1, <1>2

LEMMA StepIInv == IInv /\ [Next]_vars => IInv'
<1> SUFFICES ASSUME IInv, [Next]_vars
             PROVE  IInv'
  OBVIOUS
<1>1. CASE Locked
  BY <1>1, ClearStepStep, StartFieldsStep, StartStepStep, StartFailedStep, StartDoneStep,
     StoppedStep DEF Locked
<1>2. CASE Command
  BY <1>2, EnableTunStep, EnablePlanStep, StartLockStep, EnableReloadStep, DisableTunStep,
     ExitHandlerStep DEF Command
<1>3. CASE \E n \in Names : SetTunName(n)
  BY <1>3, SetTunNameStep
<1>4. ASSUME NEW c \in Clients, Live(c)
      PROVE  IInv'
  BY <1>4, SetSplitTunnelStep, SplitCheckStep, ReapplySplitStep, ReapplyRouteStep,
     ReapplyRulesStep, ReapplyDnsHijackStep, RefreshStep DEF Live
<1>5. CASE Die
  BY <1>5, DieStep
<1>6. CASE ReconcileOrphanedRules
  BY <1>6, ReconcileStep
<1>7. CASE UNCHANGED vars
  BY <1>7, StutterIInv
<1> QED
  BY <1>1, <1>2, <1>3, <1>4, <1>5, <1>6, <1>7 DEF Next

LEMMA AlwaysIInv == Spec => []IInv
  BY InitIInv, StepIInv, PTL DEF Spec

\* The state stays within its types, and what the kernel holds are artifacts the code
\* knows of.
THEOREM TypeCorrect == Spec => []TypeOK
<1>1. IInv => TypeOK
  BY DEF IInv
<1> QED
  BY <1>1, AlwaysIInv, PTL

\* TunModeManager.Stop, the error path of Start and the exit handler: with TUN off
\* nothing of a session is in the kernel, but what the startup reconcile left there.
THEOREM CleanWhenOff == Spec => []OffMeansClean
<1>1. IInv => OffMeansClean
  BY DEF IInv, CleanInv, OffMeansClean, AtRest
<1> QED
  BY <1>1, AlwaysIInv, PTL

\* Start, clearNetworkRules and ReapplySplit: the route that captures the traffic is never
\* in the kernel without the routes that keep Xray's own packets out of the tunnel.
THEOREM NoRoutingLoop == Spec => []BypassBeforeCapture
<1>1. IInv => BypassBeforeCapture
  BY DEF IInv
<1> QED
  BY <1>1, AlwaysIInv, PTL

\* loosenRpFilter and restoreRpFilter: at every point the daemon can die, the value the
\* machine had can be put back.
THEOREM RpFilterKept == Spec => []RpFilterRecoverable
<1>1. IInv => RpFilterRecoverable
  BY DEF IInv, RpInv, TypeOK, RpFilterRecoverable
<1> QED
  BY <1>1, AlwaysIInv, PTL

\* SetSplitTunnel, ReapplySplit and Start: in whatever order mode changes and starts meet,
\* a running TUN with no command under way and no failed change routes by the configured mode.
THEOREM ModeTakesEffect == Spec => []SplitFollowsMode
<1>1. IInv => SplitFollowsMode
  <2> SUFFICES ASSUME IInv, AtRest, t.on, "split" \notin failed, \A c \in Clients : pc[c] = "idle"
               PROVE  RouteFits /\ RulesFit
    BY DEF SplitFollowsMode, RouteFits, RulesFit, TunRoute
  <2>1. NoneWaits
    BY DEF NoneWaits
  <2> QED
    BY <2>1 DEF IInv, SplitInv, AtRest
<1> QED
  BY <1>1, AlwaysIInv, PTL

=============================================================================
