--------------------------- MODULE SessionProofs ---------------------------
(***************************************************************************)
(* The session of the core, for any number of clients, servers and Xray    *)
(* processes: TUN mode is left without its proxy only by the three races   *)
(* that TunAloneOnlyRaced names, and its routes lead to the server that is *)
(* connected.  And the commands of the command line, for any number of     *)
(* processes and groups: what one of them edits leaves the rest of the     *)
(* group alone, and the outcome one of them reports is its own.            *)
(***************************************************************************)
EXTENDS Session, CliSession, FiniteSetTheorems, WellFoundedInduction, TLAPS

\* The points of a section of ConnectionMutex.
Section == {"disconnect", "down", "disable", "connect", "hangup", "clear", "dial", "enable",
            "check", "start", "inbound"}
Points == Section \cup {"idle", "boot", "dialled", "tun", "done"}

Proxies == [st : {"connected", "disconnected"}, prof : Hosts \cup {NoHost},
            ips : Hosts \cup {NoHost}, core : 0..Starts, alive : BOOLEAN]
Watchers == [Cores -> {"none", "on", "exited", "told", "stop"}]

TypeOK ==
  /\ pm \in Proxies
  /\ tunFor \in Hosts \cup {NoHost}
  /\ holder \in Goroutines \cup {Free}
  /\ at \in [Goroutines -> Points]
  /\ job \in [Goroutines -> [prof : Hosts, was : BOOLEAN]]
  /\ watch \in Watchers
  /\ why \subseteq {"boot", "reload", "early"}

\* ConnectionMutex: whoever is in a section holds it.
Exclusive == \A g \in Goroutines : at[g] \in Section => holder = g

\* The addresses kept are those of the connection; a core to come is not watched yet.
ProxyInv ==
  /\ Connected => pm.prof \in Hosts /\ pm.ips \in {pm.prof, NoHost}
  /\ ~Connected => pm.prof = NoHost
  /\ \A c \in Cores : c > pm.core => watch[c] = "none"

\* TUN is off where a section has seen to it: before a new connection and before Start.
TunOffAt(g) ==
  /\ at[g] = "hangup" /\ ~job[g].was => ~TunOn
  /\ at[g] \in {"dial", "start"} => ~TunOn
TunOffInv == \A g \in Goroutines : TunOffAt(g)

\* A handler of an exit that has yet to look at TUN, or to stop it.
Handling == \E c \in Cores : watch[c] \in {"told", "stop"}

\* What a client's section that is about to start TUN has read still fits, and if the
\* connection is gone somebody knows.
EnableAt(g) ==
  g \in Users /\ at[g] \in {"check", "start"} =>
    /\ pm.ips \in {job[g].prof, NoHost}
    /\ Connected => pm.prof = job[g].prof
    /\ ~Connected => why # {} \/ Handling
EnableInv == \A g \in Goroutines : EnableAt(g)

\* TUN without a proxy is explained, or somebody is about to stop it.
AloneInv ==
  TunOn /\ ~Connected => why # {} \/ Handling \/ \E g \in Goroutines : at[g] \in {"down", "clear"}

\* Routes fit at every moment, not only between the sections.
RoutesInv == TunOn /\ Connected /\ "boot" \notin why => tunFor = pm.prof

\* The inductive invariant.
IInv == TypeOK /\ Exclusive /\ ProxyInv /\ TunOffInv /\ EnableInv /\ AloneInv /\ RoutesInv

-----------------------------------------------------------------------------
(* What the parts of actions do.                                           *)

LEMMA InitIInv == SessionInit => IInv
<1> SUFFICES ASSUME SessionInit PROVE IInv
  OBVIOUS
<1>1. TypeOK
  BY SessionAssumption DEF SessionInit, TypeOK, Proxies, Watchers, Points, Section, Goroutines, Cores
<1>2. Exclusive /\ ProxyInv /\ TunOffInv /\ EnableInv /\ AloneInv /\ RoutesInv
  BY SessionAssumption DEF SessionInit, Exclusive, Section, ProxyInv, Connected, TunOffInv, TunOn,
     TunOffAt, EnableInv, EnableAt, AloneInv, RoutesInv, Goroutines, Cores
<1> QED
  BY <1>1, <1>2 DEF IInv

\* In a section nobody else is in one.
LEMMA Alone ==
  ASSUME Exclusive, NEW g \in Goroutines, at[g] \in Section
  PROVE  holder = g /\ \A h \in Goroutines \ {g} : at[h] \notin Section
  BY DEF Exclusive

LEMMA MoveTyped ==
  ASSUME TypeOK, NEW g \in Goroutines, NEW p \in Points, Move(g, p)
  PROVE  /\ at' \in [Goroutines -> Points] /\ at'[g] = p
         /\ \A h \in Goroutines \ {g} : at'[h] = at[h]
  BY DEF TypeOK, Move

LEMMA UnlockTyped ==
  ASSUME TypeOK, NEW g \in Goroutines, NEW p \in Points \ Section, Unlock(g, p)
  PROVE  /\ holder' = Free
         /\ at' \in [Goroutines -> Points] /\ at'[g] \in Points \ Section
         /\ \A h \in Goroutines \ {g} : at'[h] = at[h]
  BY DEF TypeOK, Unlock, Move, Points, Section

\* Stop, and a reload that lost the core: disconnected, and no exit under way is forgotten.
LEMMA ProxyStopGives ==
  ASSUME TypeOK, ProxyInv, ProxyStop
  PROVE  /\ pm' \in Proxies /\ watch' \in Watchers
         /\ ~Connected' /\ pm'.ips = pm.ips /\ ProxyInv'
         /\ Handling => Handling'
  BY DEF TypeOK, Proxies, Watchers, ProxyInv, ProxyStop, Retired, Connected, Handling

\* A core that starts is one more, and alone watched; exits under way are not forgotten.
LEMMA StartedGives ==
  ASSUME TypeOK, ProxyInv, Room, watch' = StartedWatch, NEW m \in Proxies, m.core = pm.core,
         pm' = Started(m)
  PROVE  /\ pm' \in Proxies /\ watch' \in Watchers
         /\ pm'.st = m.st /\ pm'.prof = m.prof /\ pm'.ips = m.ips
         /\ \A c \in Cores : c > pm'.core => watch'[c] = "none"
         /\ Handling => Handling'
<1>1. pm.core \in 0..Starts /\ pm.core + 1 \in Cores /\ Starts \in Nat
  BY SessionAssumption DEF TypeOK, Proxies, Room, Cores
<1>2. /\ pm' \in Proxies /\ pm'.core = pm.core + 1
      /\ pm'.st = m.st /\ pm'.prof = m.prof /\ pm'.ips = m.ips
  <2>1. m.core + 1 \in 0..Starts
    BY <1>1 DEF Cores
  <2> QED
    BY <1>1, <2>1 DEF Started, Proxies
<1>3. Retired \in Watchers /\ \A c \in Cores : Retired[c] = IF watch[c] = "on" THEN "none" ELSE watch[c]
  BY DEF Retired, TypeOK, Watchers
<1>4. /\ watch' \in Watchers
      /\ \A c \in Cores : watch'[c] = IF c = pm.core + 1 THEN "on" ELSE Retired[c]
  BY <1>1, <1>3 DEF StartedWatch, Watchers
<1>5. \A c \in Cores : c > pm'.core => watch'[c] = "none"
  BY <1>1, <1>2, <1>3, <1>4 DEF ProxyInv, Cores
<1>6. Handling => Handling'
  <2> SUFFICES ASSUME NEW c \in Cores, watch[c] \in {"told", "stop"}
               PROVE  watch'[c] \in {"told", "stop"}
    BY DEF Handling
  <2>1. c # pm.core + 1
    BY <1>1 DEF ProxyInv, Cores
  <2> QED
    BY <2>1, <1>3, <1>4
<1> QED
  BY <1>2, <1>4, <1>5, <1>6

LEMMA ReloadedGives ==
  ASSUME TypeOK, ProxyInv, Reloaded
  PROVE  /\ pm' \in Proxies /\ watch' \in Watchers
         /\ pm'.st = pm.st /\ pm'.ips = pm.ips /\ pm'.prof = pm.prof /\ ProxyInv'
         /\ Handling => Handling'
  BY StartedGives DEF TypeOK, Reloaded, ProxyInv, Connected

-----------------------------------------------------------------------------
(* The commands.                                                           *)

LEMMA AskKeeps ==
  ASSUME IInv, NEW g \in Users, Ask(g)
  PROVE  IInv'
<1> USE DEF IInv
<1>0. g \in Goroutines
  BY DEF Goroutines
<1>1. PICK p \in {"disconnect", "connect", "enable", "disable"}, h \in Hosts :
        Lock(g, p) /\ job' = [job EXCEPT ![g].prof = h]
  BY DEF Ask
<1>2. /\ at' \in [Goroutines -> Points] /\ at'[g] = p
      /\ \A x \in Goroutines \ {g} : at'[x] = at[x]
  BY <1>0, <1>1, MoveTyped DEF Lock, Points, Section
<1>3. /\ job' \in [Goroutines -> [prof : Hosts, was : BOOLEAN]]
      /\ \A x \in Goroutines \ {g} : job'[x] = job[x]
  BY <1>0, <1>1 DEF TypeOK
<1>4. TypeOK'
  BY <1>0, <1>1, <1>2, <1>3 DEF Ask, Lock, TypeOK
<1>5. Exclusive'
  BY <1>0, <1>1, <1>2, SessionAssumption DEF Ask, Lock, Exclusive, Goroutines
<1>6. ProxyInv'
  BY DEF Ask, ProxyInv, Connected
<1>7. TunOffInv' /\ EnableInv'
  BY <1>0, <1>1, <1>2, <1>3 DEF Ask, TunOffInv, TunOffAt, TunOn, EnableInv, EnableAt, Connected, Handling
<1>8. AloneInv' /\ RoutesInv'
  BY <1>0, <1>2 DEF Ask, AloneInv, RoutesInv, TunOn, Connected, Handling
<1> QED
  BY <1>4, <1>5, <1>6, <1>7, <1>8

\* A step of a section concerns only the one who is in it.
LEMMA SectionStep ==
  ASSUME IInv, NEW g \in Goroutines, at[g] \in Section,
         \A h \in Goroutines \ {g} : at'[h] = at[h],
         at'[g] \in Section => holder' = g, TunOffAt(g)', EnableAt(g)'
  PROVE  Exclusive' /\ TunOffInv' /\ EnableInv'
<1>1. \A h \in Goroutines \ {g} : at'[h] \notin Section
  BY Alone DEF IInv
<1>2. \A h \in Goroutines \ {g} : TunOffAt(h)' /\ EnableAt(h)'
  BY <1>1 DEF Section, TunOffAt, EnableAt
<1> QED
  BY <1>1, <1>2 DEF Exclusive, TunOffInv, EnableInv

LEMMA DisconnectKeeps ==
  ASSUME IInv, NEW g \in Goroutines, Disconnect(g)
  PROVE  IInv'
<1> USE DEF IInv
<1>1. at[g] \in Section /\ holder = g
  BY DEF Disconnect, Section, Exclusive
<1>2. /\ at' \in [Goroutines -> Points] /\ at'[g] = "down"
      /\ \A h \in Goroutines \ {g} : at'[h] = at[h]
  BY MoveTyped DEF Disconnect, Points, Section
<1>3. /\ pm' \in Proxies /\ watch' \in Watchers /\ ~Connected' /\ ProxyInv'
  BY ProxyStopGives DEF Disconnect
<1>4. TypeOK'
  BY <1>2, <1>3 DEF Disconnect, TypeOK
<1>5. TunOffAt(g)' /\ EnableAt(g)'
  BY <1>2 DEF TunOffAt, EnableAt
<1>6. AloneInv' /\ RoutesInv'
  BY <1>2, <1>3 DEF AloneInv, RoutesInv
<1> QED
  BY <1>1, <1>2, <1>3, <1>4, <1>5, <1>6, SectionStep DEF Disconnect

\* Down and Clear: TUN is off afterwards.
LEMMA TunStopKeeps ==
  ASSUME IInv, NEW g \in Goroutines, Down(g) \/ Clear(g)
  PROVE  IInv'
<1> USE DEF IInv
<1>1. at[g] \in Section /\ holder = g
  BY DEF Down, Clear, Section, Exclusive
<1>2. /\ at' \in [Goroutines -> Points] /\ at'[g] \in (Points \ Section) \cup {"dial"}
      /\ at'[g] \in Section => holder' = g
      /\ \A h \in Goroutines \ {g} : at'[h] = at[h]
  <2>1. CASE Down(g)
    BY <2>1, UnlockTyped DEF Down, Points, Section
  <2>2. CASE Clear(g)
    BY <1>1, <2>2, MoveTyped DEF Clear, Points, Section
  <2> QED
    BY <2>1, <2>2
<1>3. /\ UNCHANGED <<pm, job, watch>> /\ TunStop
      /\ holder' \in {holder, Free}
  BY DEF Down, Clear, Unlock
<1>4. TypeOK'
  BY <1>2, <1>3 DEF TunStop, TypeOK
<1>5. ProxyInv' /\ ~TunOn'
  BY <1>3 DEF TunStop, ProxyInv, Connected, TunOn
<1>6. TunOffAt(g)' /\ EnableAt(g)'
  BY <1>2, <1>5 DEF TunOffAt, EnableAt, Section
<1>7. AloneInv' /\ RoutesInv'
  BY <1>5 DEF AloneInv, RoutesInv
<1> QED
  BY <1>1, <1>2, <1>4, <1>5, <1>6, <1>7, SectionStep

LEMMA DisableTunKeeps ==
  ASSUME IInv, NEW g \in Goroutines, DisableTun(g)
  PROVE  IInv'
<1> USE DEF IInv
<1>1. at[g] \in Section /\ holder = g
  BY DEF DisableTun, Section, Exclusive
<1>2. /\ at' \in [Goroutines -> Points] /\ at'[g] = "down"
      /\ \A h \in Goroutines \ {g} : at'[h] = at[h]
  BY MoveTyped DEF DisableTun, Points, Section
<1>3. /\ pm' \in Proxies /\ watch' \in Watchers /\ ProxyInv'
      /\ Connected' => Connected /\ pm'.prof = pm.prof
  <2>1. CASE Reloaded
    BY <2>1, ReloadedGives DEF Connected
  <2>2. CASE Refused
    BY <2>2 DEF Refused, TypeOK, ProxyInv, Connected
  <2>3. CASE ReloadLost
    BY <2>3, ProxyStopGives DEF ReloadLost
  <2> QED
    BY <2>1, <2>2, <2>3 DEF DisableTun
<1>4. TypeOK'
  BY <1>2, <1>3 DEF DisableTun, TypeOK
<1>5. TunOffAt(g)' /\ EnableAt(g)'
  BY <1>2 DEF TunOffAt, EnableAt
<1>6. AloneInv' /\ RoutesInv'
  BY <1>2, <1>3 DEF DisableTun, AloneInv, RoutesInv, TunOn
<1> QED
  BY <1>1, <1>2, <1>3, <1>4, <1>5, <1>6, SectionStep DEF DisableTun

LEMMA ConnectKeeps ==
  ASSUME IInv, NEW g \in Goroutines, Connect(g)
  PROVE  IInv'
<1> USE DEF IInv
<1>1. at[g] \in Section /\ holder = g
  BY DEF Connect, Section, Exclusive
<1>2. /\ at' \in [Goroutines -> Points] /\ at'[g] \in (Points \ Section) \cup {"hangup"}
      /\ at'[g] \in Section => holder' = g
      /\ holder' \in {holder, Free}
      /\ \A h \in Goroutines \ {g} : at'[h] = at[h]
  <2>1. CASE Move(g, "hangup") /\ UNCHANGED holder
    BY <1>1, <2>1, MoveTyped DEF Points, Section
  <2>2. CASE Unlock(g, "dialled")
    BY <2>2, UnlockTyped DEF Points, Section
  <2> QED
    BY <2>1, <2>2 DEF Connect
<1>3. /\ job' \in [Goroutines -> [prof : Hosts, was : BOOLEAN]]
      /\ at'[g] = "hangup" => job'[g].was = TunOn
  <2>1. CASE job' = [job EXCEPT ![g].was = TunOn]
    BY <2>1 DEF TypeOK, TunOn
  <2>2. CASE Unlock(g, "dialled") /\ UNCHANGED job
    BY <2>2, UnlockTyped DEF TypeOK, Points, Section
  <2> QED
    BY <2>1, <2>2 DEF Connect
<1>4. TypeOK'
  BY <1>2, <1>3 DEF Connect, TypeOK
<1>5. TunOffAt(g)' /\ EnableAt(g)'
  BY <1>2, <1>3 DEF Connect, TunOffAt, EnableAt, TunOn, Section
<1>6. ProxyInv' /\ RoutesInv'
  BY DEF Connect, ProxyInv, RoutesInv, TunOn, Connected
<1>7. AloneInv'
  BY <1>2 DEF Connect, AloneInv, TunOn, Connected, Handling
<1> QED
  BY <1>1, <1>2, <1>4, <1>5, <1>6, <1>7, SectionStep

LEMMA HangUpKeeps ==
  ASSUME IInv, NEW g \in Goroutines, HangUp(g)
  PROVE  IInv'
<1> USE DEF IInv
<1>1. at[g] \in Section /\ holder = g
  BY DEF HangUp, Section, Exclusive
<1>2. /\ at' \in [Goroutines -> Points]
      /\ at'[g] = IF job[g].was THEN "clear" ELSE "dial"
      /\ \A h \in Goroutines \ {g} : at'[h] = at[h]
  BY MoveTyped DEF HangUp, Points, Section
<1>3. /\ pm' \in Proxies /\ watch' \in Watchers /\ ~Connected' /\ ProxyInv'
  BY ProxyStopGives DEF HangUp
<1>4. TypeOK'
  BY <1>2, <1>3 DEF HangUp, TypeOK
<1>5. ~job[g].was => ~TunOn'
  BY DEF HangUp, TunOffInv, TunOffAt, TunOn
<1>6. TunOffAt(g)' /\ EnableAt(g)'
  BY <1>2, <1>5 DEF TunOffAt, EnableAt
<1>7. AloneInv' /\ RoutesInv'
  BY <1>2, <1>3, <1>5 DEF AloneInv, RoutesInv
<1> QED
  BY <1>1, <1>2, <1>3, <1>4, <1>6, <1>7, SectionStep DEF HangUp

LEMMA DialKeeps ==
  ASSUME IInv, NEW g \in Goroutines, Dial(g)
  PROVE  IInv'
<1> USE DEF IInv
<1>1. at[g] \in Section /\ holder = g /\ ~TunOn'
  BY DEF Dial, Section, Exclusive, TunOffInv, TunOffAt, TunOn
<1>2. /\ at' \in [Goroutines -> Points] /\ at'[g] \in (Points \ Section) \cup {"start"}
      /\ at'[g] \in Section => holder' = g
      /\ holder' \in {holder, Free}
      /\ \A h \in Goroutines \ {g} : at'[h] = at[h]
  <2>1. CASE Move(g, "start") /\ UNCHANGED holder
    BY <1>1, <2>1, MoveTyped DEF Points, Section
  <2>2. CASE Unlock(g, "dialled")
    BY <2>2, UnlockTyped DEF Points, Section
  <2> QED
    BY <2>1, <2>2 DEF Dial
<1>3. /\ pm' \in Proxies /\ watch' \in Watchers /\ ProxyInv'
      /\ at'[g] = "start" => Connected' /\ pm'.prof = job[g].prof /\ pm'.ips \in {job[g].prof, NoHost}
  <2>1. CASE /\ Room /\ watch' = StartedWatch
             /\ \E ips \in {job[g].prof, NoHost} :
                  pm' = Started([pm EXCEPT !.st = "connected", !.prof = job[g].prof, !.ips = ips])
    <3>1. PICK ips \in {job[g].prof, NoHost} :
            pm' = Started([pm EXCEPT !.st = "connected", !.prof = job[g].prof, !.ips = ips])
      BY <2>1
    <3> DEFINE m == [pm EXCEPT !.st = "connected", !.prof = job[g].prof, !.ips = ips]
    <3>2. job[g].prof \in Hosts
      BY DEF TypeOK
    <3>3. /\ m \in Proxies /\ m.core = pm.core /\ m.st = "connected"
          /\ m.prof = job[g].prof /\ m.ips = ips
      BY <3>2 DEF TypeOK, Proxies
    <3> HIDE DEF m
    <3>4. /\ pm' \in Proxies /\ watch' \in Watchers
          /\ pm'.st = "connected" /\ pm'.prof = job[g].prof /\ pm'.ips = ips
          /\ \A c \in Cores : c > pm'.core => watch'[c] = "none"
      BY <2>1, <3>1, <3>3, StartedGives DEF m
    <3> QED
      BY <3>2, <3>4 DEF ProxyInv, Connected
  <2>2. CASE Unlock(g, "dialled") /\ UNCHANGED <<pm, watch>>
    BY <2>2, UnlockTyped DEF TypeOK, ProxyInv, Connected, Points, Section
  <2> QED
    BY <2>1, <2>2 DEF Dial
<1>4. TypeOK'
  BY <1>2, <1>3 DEF Dial, TypeOK
<1>5. TunOffAt(g)' /\ EnableAt(g)'
  BY <1>1, <1>2, <1>3 DEF Dial, TunOffAt, EnableAt, Section
<1>6. AloneInv' /\ RoutesInv'
  BY <1>1 DEF AloneInv, RoutesInv
<1> QED
  BY <1>1, <1>2, <1>3, <1>4, <1>5, <1>6, SectionStep

LEMMA CheckStatusKeeps ==
  ASSUME IInv, NEW g \in Goroutines, CheckStatus(g)
  PROVE  IInv'
<1> USE DEF IInv
<1>1. at[g] \in Section /\ holder = g
  BY DEF CheckStatus, Section, Exclusive
<1>2. /\ at' \in [Goroutines -> Points] /\ at'[g] \in (Points \ Section) \cup {"check"}
      /\ at'[g] \in Section => holder' = g
      /\ holder' \in {holder, Free}
      /\ \A h \in Goroutines \ {g} : at'[h] = at[h]
      /\ at'[g] = "check" => Connected
  <2>1. CASE Connected
    BY <1>1, <2>1, MoveTyped DEF CheckStatus, Points, Section
  <2>2. CASE ~Connected
    BY <2>2, UnlockTyped DEF CheckStatus, Points, Section
  <2> QED
    BY <2>1, <2>2
<1>3. /\ job' \in [Goroutines -> [prof : Hosts, was : BOOLEAN]]
      /\ at'[g] = "check" => job'[g].prof = pm.prof
  <2>1. CASE Connected
    BY <2>1 DEF CheckStatus, ProxyInv, TypeOK
  <2>2. CASE ~Connected
    BY <1>2, <2>2 DEF CheckStatus, TypeOK
  <2> QED
    BY <2>1, <2>2
<1>4. TypeOK'
  BY <1>2, <1>3 DEF CheckStatus, TypeOK
<1>5. TunOffAt(g)' /\ EnableAt(g)'
  BY <1>2, <1>3 DEF CheckStatus, TunOffAt, EnableAt, Section, ProxyInv, Connected
<1>6. ProxyInv' /\ RoutesInv'
  BY DEF CheckStatus, ProxyInv, RoutesInv, TunOn, Connected
<1>7. AloneInv'
  BY <1>2 DEF CheckStatus, AloneInv, TunOn, Connected, Handling
<1> QED
  BY <1>1, <1>2, <1>4, <1>5, <1>6, <1>7, SectionStep

LEMMA CheckTunKeeps ==
  ASSUME IInv, NEW g \in Goroutines, CheckTun(g)
  PROVE  IInv'
<1> USE DEF IInv
<1>1. at[g] \in Section /\ holder = g
  BY DEF CheckTun, Section, Exclusive
<1>2. /\ at' \in [Goroutines -> Points] /\ at'[g] \in (Points \ Section) \cup {"start"}
      /\ at'[g] \in Section => holder' = g
      /\ holder' \in {holder, Free}
      /\ \A h \in Goroutines \ {g} : at'[h] = at[h]
      /\ at'[g] = "start" => ~TunOn
  <2>1. CASE ~TunOn
    BY <1>1, <2>1, MoveTyped DEF CheckTun, Points, Section
  <2>2. CASE TunOn
    BY <2>2, UnlockTyped DEF CheckTun, Points, Section
  <2> QED
    BY <2>1, <2>2
<1>4. TypeOK'
  BY <1>2 DEF CheckTun, TypeOK
<1>5. TunOffAt(g)' /\ EnableAt(g)'
  <2>1. TunOffAt(g)'
    BY <1>2 DEF CheckTun, TunOffAt, TunOn, Section
  <2>2. EnableAt(g)'
    BY <1>2 DEF CheckTun, EnableInv, EnableAt, Section, Connected, Handling
  <2> QED
    BY <2>1, <2>2
<1>6. ProxyInv' /\ RoutesInv'
  BY DEF CheckTun, ProxyInv, RoutesInv, TunOn, Connected
<1>7. AloneInv'
  BY <1>2 DEF CheckTun, AloneInv, TunOn, Connected, Handling
<1> QED
  BY <1>1, <1>2, <1>4, <1>5, <1>6, <1>7, SectionStep

LEMMA StartTunKeeps ==
  ASSUME IInv, NEW g \in Goroutines, StartTun(g)
  PROVE  IInv'
<1> USE DEF IInv
<1>1. at[g] \in Section /\ holder = g /\ at[g] = "start" /\ ~TunOn
  BY DEF StartTun, Section, Exclusive, TunOffInv, TunOffAt
<1>2. /\ at' \in [Goroutines -> Points] /\ at'[g] \in (Points \ Section) \cup {"inbound"}
      /\ at'[g] \in Section => holder' = g
      /\ holder' \in {holder, Free}
      /\ \A h \in Goroutines \ {g} : at'[h] = at[h]
  <2>1. CASE Move(g, "inbound") /\ UNCHANGED holder
    BY <1>1, <2>1, MoveTyped DEF Points, Section
  <2>2. CASE Unlock(g, "tun")
    BY <2>2, UnlockTyped DEF Points, Section
  <2> QED
    BY <2>1, <2>2 DEF StartTun
<1>3. UNCHANGED <<pm, job, watch>>
  BY DEF StartTun
<1>4. TunOffAt(g)' /\ EnableAt(g)'
  BY <1>2 DEF TunOffAt, EnableAt, Section
<1>5. ProxyInv'
  BY <1>3 DEF ProxyInv, Connected
<1>6. CASE UNCHANGED <<tunFor, why>>
  <2>1. TypeOK'
    BY <1>2, <1>3, <1>6 DEF TypeOK
  <2>2. AloneInv' /\ RoutesInv'
    BY <1>1, <1>6 DEF AloneInv, RoutesInv, TunOn
  <2> QED
    BY <1>1, <1>2, <1>4, <1>5, <2>1, <2>2, SectionStep
<1>7. CASE /\ tunFor' = IF pm.ips # NoHost THEN pm.ips ELSE job[g].prof
           /\ why' = IF g = Boot /\ pm.prof # tunFor' THEN why \cup {"boot"} ELSE why
  <2>1. tunFor' \in Hosts
    BY <1>7 DEF TypeOK, Proxies
  <2>2. TypeOK'
    BY <1>2, <1>3, <1>7, <2>1 DEF TypeOK
  <2>3. CASE g = Boot
    <3>1. RoutesInv'
      BY <1>3, <1>7, <2>3 DEF RoutesInv
    <3>2. ~Connected => "boot" \in why'
      BY <1>7, <2>1, <2>3, SessionAssumption DEF ProxyInv
    <3>3. AloneInv'
      BY <1>3, <3>2 DEF AloneInv, Connected
    <3> QED
      BY <1>1, <1>2, <1>4, <1>5, <2>2, <3>1, <3>3, SectionStep
  <2>4. CASE g # Boot
    <3>1. EnableAt(g) /\ g \in Users
      BY <2>4 DEF EnableInv, Goroutines
    <3>2. tunFor' = job[g].prof /\ why' = why
      BY <1>1, <1>7, <2>4, <3>1 DEF EnableAt
    <3>3. RoutesInv'
      BY <1>1, <1>3, <3>1, <3>2 DEF RoutesInv, EnableAt, Connected
    <3>4. AloneInv'
      BY <1>1, <1>3, <3>1, <3>2 DEF AloneInv, EnableAt, Connected, Handling
    <3> QED
      BY <1>1, <1>2, <1>4, <1>5, <2>2, <3>3, <3>4, SectionStep
  <2> QED
    BY <2>3, <2>4
<1> QED
  BY <1>6, <1>7 DEF StartTun

LEMMA InboundKeeps ==
  ASSUME IInv, NEW g \in Goroutines, Inbound(g)
  PROVE  IInv'
<1> USE DEF IInv
<1>1. at[g] \in Section /\ holder = g
  BY DEF Inbound, Section, Exclusive
<1>2. /\ at' \in [Goroutines -> Points] /\ at'[g] \in (Points \ Section) \cup {"down"}
      /\ at'[g] \in Section => holder' = g
      /\ holder' \in {holder, Free}
      /\ \A h \in Goroutines \ {g} : at'[h] = at[h]
  <2>1. CASE Move(g, "down") /\ UNCHANGED holder
    BY <1>1, <2>1, MoveTyped DEF Points, Section
  <2>2. CASE Unlock(g, "tun")
    BY <2>2, UnlockTyped DEF Points, Section
  <2> QED
    BY <2>1, <2>2 DEF Inbound
<1>3. UNCHANGED <<tunFor, job, why>>
  BY DEF Inbound
<1>4. TunOffAt(g)' /\ EnableAt(g)'
  BY <1>2 DEF TunOffAt, EnableAt, Section
<1>5. /\ pm' \in Proxies /\ watch' \in Watchers /\ ProxyInv'
      /\ Connected' => Connected /\ pm'.prof = pm.prof
      /\ Handling => Handling'
      /\ ~Connected' => ~Connected \/ at'[g] = "down"
  <2>1. CASE Reloaded
    BY <2>1, ReloadedGives DEF Connected
  <2>2. CASE Refused
    BY <2>2 DEF Refused, TypeOK, ProxyInv, Connected, Handling
  <2>3. CASE ReloadLost /\ Move(g, "down")
    BY <2>3, ProxyStopGives, MoveTyped DEF ReloadLost, Points, Section
  <2> QED
    BY <2>1, <2>2, <2>3 DEF Inbound
<1>6. TypeOK'
  BY <1>2, <1>3, <1>5 DEF TypeOK
<1>7. RoutesInv'
  BY <1>3, <1>5 DEF RoutesInv, TunOn
<1>8. AloneInv'
  <2> SUFFICES ASSUME TunOn', ~Connected', why' = {}
               PROVE  Handling' \/ \E h \in Goroutines : at'[h] \in {"down", "clear"}
    BY DEF AloneInv
  <2>1. CASE at'[g] = "down"
    BY <2>1
  <2>2. CASE ~Connected
    <3>1. Handling \/ \E h \in Goroutines : at[h] \in {"down", "clear"}
      BY <1>3, <2>2 DEF AloneInv, TunOn
    <3>2. \A h \in Goroutines : at[h] \in {"down", "clear"} => h = g
      BY <1>1, Alone DEF Section
    <3>3. at[g] = "inbound"
      BY DEF Inbound
    <3> QED
      BY <1>5, <3>1, <3>2, <3>3
  <2> QED
    BY <1>5, <2>1, <2>2
<1> QED
  BY <1>1, <1>2, <1>4, <1>5, <1>6, <1>7, <1>8, SectionStep

-----------------------------------------------------------------------------
(* Boot autoconnect, and what happens outside the mutex.                   *)

LEMMA BootKeeps ==
  ASSUME IInv, BootConnect \/ BootSeen \/ BootTun
  PROVE  IInv'
<1> USE DEF IInv
<1>1. Boot \in Goroutines /\ Boot \notin Users
  BY SessionAssumption DEF Goroutines
<1>2. /\ UNCHANGED <<pm, tunFor, job, watch, why>>
      /\ at[Boot] \notin Section
      /\ \/ /\ at' = [at EXCEPT ![Boot] = "connect"] /\ holder = Free /\ holder' = Boot
         \/ /\ at' = [at EXCEPT ![Boot] = "check"] /\ holder = Free /\ holder' = Boot
         \/ /\ \E p \in {"tun", "boot", "done"} : at' = [at EXCEPT ![Boot] = p]
            /\ holder' = holder
  BY DEF BootConnect, BootSeen, BootTun, Lock, Move, Section
<1>3. /\ at' \in [Goroutines -> Points]
      /\ at'[Boot] \in {"connect", "check", "tun", "boot", "done"}
      /\ \A h \in Goroutines \ {Boot} : at'[h] = at[h]
  BY <1>1, <1>2 DEF TypeOK, Points, Section
<1>4. TypeOK'
  BY <1>1, <1>2, <1>3 DEF TypeOK
<1>5. Exclusive'
  BY <1>1, <1>2, <1>3, SessionAssumption DEF Exclusive, Goroutines, TypeOK, Section
<1>6. ProxyInv' /\ RoutesInv'
  BY <1>2 DEF ProxyInv, RoutesInv, TunOn, Connected
<1>7. TunOffInv'
  BY <1>1, <1>2, <1>3 DEF TunOffInv, TunOffAt, TunOn
<1>8. EnableInv'
  BY <1>1, <1>2, <1>3 DEF EnableInv, EnableAt, Connected, Handling
<1>9. AloneInv'
  BY <1>1, <1>2, <1>3 DEF AloneInv, TunOn, Connected, Handling, Section
<1> QED
  BY <1>4, <1>5, <1>6, <1>7, <1>8, <1>9

LEMMA ReloadRoutingKeeps ==
  ASSUME IInv, ReloadRouting
  PROVE  IInv'
<1> USE DEF IInv
<1>1. UNCHANGED <<tunFor, holder, at, job>>
  BY DEF ReloadRouting
<1>2. CASE Reloaded /\ UNCHANGED why
  <2>1. /\ pm' \in Proxies /\ watch' \in Watchers
        /\ pm'.st = pm.st /\ pm'.ips = pm.ips /\ pm'.prof = pm.prof /\ ProxyInv'
        /\ Handling => Handling'
    BY <1>2, ReloadedGives
  <2>2. TypeOK' /\ Exclusive' /\ TunOffInv'
    BY <1>1, <1>2, <2>1 DEF TypeOK, Exclusive, TunOffInv, TunOffAt, TunOn
  <2>3. EnableInv' /\ AloneInv' /\ RoutesInv'
    BY <1>1, <1>2, <2>1 DEF EnableInv, EnableAt, AloneInv, RoutesInv, Connected, TunOn
  <2> QED
    BY <2>1, <2>2, <2>3
<1>3. CASE ReloadLost /\ why' = why \cup {"reload"}
  <2>1. /\ pm' \in Proxies /\ watch' \in Watchers
        /\ ~Connected' /\ pm'.ips = pm.ips /\ ProxyInv'
    BY <1>3, ProxyStopGives DEF ReloadLost
  <2>2. TypeOK' /\ Exclusive' /\ TunOffInv'
    BY <1>1, <1>3, <2>1 DEF TypeOK, Exclusive, TunOffInv, TunOffAt, TunOn
  <2>3. EnableInv' /\ AloneInv' /\ RoutesInv'
    BY <1>1, <1>3, <2>1 DEF EnableInv, EnableAt, AloneInv, RoutesInv
  <2> QED
    BY <2>1, <2>2, <2>3
<1> QED
  BY <1>2, <1>3 DEF ReloadRouting

LEMMA CrashKeeps ==
  ASSUME IInv, Crash
  PROVE  IInv'
<1> USE DEF IInv
<1>1. /\ pm' \in Proxies
      /\ pm'.st = pm.st /\ pm'.ips = pm.ips /\ pm'.prof = pm.prof /\ pm'.core = pm.core
  BY DEF Crash, TypeOK, Proxies
<1>2. TypeOK' /\ Exclusive' /\ TunOffInv' /\ ProxyInv'
  BY <1>1 DEF Crash, TypeOK, Exclusive, TunOffInv, TunOffAt, TunOn, ProxyInv, Connected
<1>3. EnableInv' /\ AloneInv' /\ RoutesInv'
  BY <1>1 DEF Crash, EnableInv, EnableAt, AloneInv, RoutesInv, Connected, TunOn, Handling
<1> QED
  BY <1>2, <1>3

\* A watcher moves: whom it concerns, and that exits of the others are kept.
LEMMA WatchTyped ==
  ASSUME TypeOK, NEW c \in Cores, NEW w \in {"none", "on", "exited", "told", "stop"},
         watch' = [watch EXCEPT ![c] = w]
  PROVE  /\ watch' \in Watchers /\ watch'[c] = w
         /\ \A d \in Cores \ {c} : watch'[d] = watch[d]
  BY DEF TypeOK, Watchers

LEMMA NoticedKeeps ==
  ASSUME IInv, NEW c \in Cores, Noticed(c)
  PROVE  IInv'
<1> USE DEF IInv
<1>1. /\ watch' \in Watchers /\ watch'[c] = "exited" /\ watch[c] = "on"
      /\ \A d \in Cores \ {c} : watch'[d] = watch[d]
  BY WatchTyped DEF Noticed
<1>2. Handling => Handling'
  BY <1>1 DEF Handling
<1>3. TypeOK' /\ Exclusive' /\ TunOffInv' /\ ProxyInv'
  BY <1>1 DEF Noticed, TypeOK, Exclusive, TunOffInv, TunOffAt, TunOn, ProxyInv, Connected
<1>4. EnableInv' /\ AloneInv' /\ RoutesInv'
  BY <1>2 DEF Noticed, EnableInv, EnableAt, AloneInv, RoutesInv, Connected, TunOn
<1> QED
  BY <1>3, <1>4

LEMMA DroppedKeeps ==
  ASSUME IInv, NEW c \in Cores, Dropped(c)
  PROVE  IInv'
<1> USE DEF IInv
<1>1. /\ watch' \in Watchers /\ watch'[c] = "told" /\ watch[c] = "exited"
      /\ \A d \in Cores \ {c} : watch'[d] = watch[d]
  BY WatchTyped DEF Dropped
<1>2. /\ pm' \in Proxies /\ pm'.ips = pm.ips /\ pm'.core = pm.core
      /\ pm'.prof = NoHost /\ ~Connected'
  BY DEF Dropped, TypeOK, Proxies, Connected
<1>3. Handling'
  BY <1>1 DEF Handling
<1>4. TypeOK' /\ Exclusive' /\ TunOffInv' /\ ProxyInv'
  BY <1>1, <1>2 DEF Dropped, TypeOK, Exclusive, TunOffInv, TunOffAt, TunOn, ProxyInv
<1>5. EnableInv' /\ AloneInv' /\ RoutesInv'
  BY <1>2, <1>3 DEF Dropped, EnableInv, EnableAt, AloneInv, RoutesInv
<1> QED
  BY <1>4, <1>5

LEMMA HandlerKeeps ==
  ASSUME IInv, NEW c \in Cores, Handler(c)
  PROVE  IInv'
<1> USE DEF IInv
<1>1. /\ watch' \in Watchers /\ watch'[c] = IF TunOn THEN "stop" ELSE "none"
      /\ \A d \in Cores \ {c} : watch'[d] = watch[d]
  BY WatchTyped DEF Handler
<1>2. TypeOK' /\ Exclusive' /\ TunOffInv' /\ ProxyInv'
  BY <1>1 DEF Handler, TypeOK, Exclusive, TunOffInv, TunOffAt, TunOn, ProxyInv, Connected
<1>3. why \subseteq why' /\ ("boot" \in why' <=> "boot" \in why)
  BY DEF Handler
<1>4. CASE TunOn
  <2>1. Handling'
    BY <1>1, <1>4 DEF Handling
  <2>2. EnableInv' /\ AloneInv' /\ RoutesInv'
    BY <1>3, <2>1 DEF Handler, EnableInv, EnableAt, AloneInv, RoutesInv, TunOn, Connected
  <2> QED
    BY <1>2, <2>2
<1>5. CASE ~TunOn
  <2>1. \A g \in Goroutines : at[g] \in {"check", "start"} => why' # {}
    BY <1>5 DEF Handler, AboutToStart
  <2>2. EnableInv'
    BY <2>1 DEF Handler, EnableInv, EnableAt, Connected
  <2>3. AloneInv' /\ RoutesInv'
    BY <1>5 DEF Handler, AloneInv, RoutesInv, TunOn
  <2> QED
    BY <1>2, <2>2, <2>3
<1> QED
  BY <1>4, <1>5

LEMMA HandlerStopKeeps ==
  ASSUME IInv, NEW c \in Cores, HandlerStop(c)
  PROVE  IInv'
<1> USE DEF IInv
<1>1. /\ watch' \in Watchers /\ watch'[c] = "none"
      /\ \A d \in Cores \ {c} : watch'[d] = watch[d]
  BY WatchTyped DEF HandlerStop
<1>2. ~TunOn'
  BY DEF HandlerStop, TunOn
<1>3. TypeOK' /\ Exclusive' /\ TunOffInv' /\ ProxyInv'
  BY <1>1, <1>2 DEF HandlerStop, TypeOK, Exclusive, TunOffInv, TunOffAt, ProxyInv, Connected
<1>4. \A g \in Goroutines : at[g] \in {"check", "start"} => why' # {}
  BY DEF HandlerStop, AboutToStart
<1>5. EnableInv' /\ AloneInv' /\ RoutesInv'
  BY <1>2, <1>4 DEF HandlerStop, EnableInv, EnableAt, AloneInv, RoutesInv, Connected
<1> QED
  BY <1>3, <1>5

-----------------------------------------------------------------------------
(* The theorems.                                                           *)

LEMMA StepIInv == IInv /\ [SessionNext]_sessionVars => IInv'
<1> SUFFICES ASSUME IInv, [SessionNext]_sessionVars PROVE IInv'
  OBVIOUS
<1>1. CASE UNCHANGED sessionVars
  BY <1>1 DEF sessionVars, IInv, TypeOK, Exclusive, ProxyInv, TunOffInv, TunOffAt, EnableInv, EnableAt,
     AloneInv, RoutesInv, TunOn, Connected, Handling
<1>2. CASE \E g \in Users : Ask(g)
  BY <1>2, AskKeeps
<1>3. ASSUME NEW g \in Goroutines,
             \/ Disconnect(g) \/ Down(g) \/ DisableTun(g) \/ Connect(g) \/ HangUp(g) \/ Clear(g)
             \/ Dial(g) \/ CheckStatus(g) \/ CheckTun(g) \/ StartTun(g) \/ Inbound(g)
      PROVE  IInv'
  BY <1>3, DisconnectKeeps, TunStopKeeps, DisableTunKeeps, ConnectKeeps, HangUpKeeps, DialKeeps,
     CheckStatusKeeps, CheckTunKeeps, StartTunKeeps, InboundKeeps
<1>4. CASE BootConnect \/ BootSeen \/ BootTun \/ ReloadRouting \/ Crash
  BY <1>4, BootKeeps, ReloadRoutingKeeps, CrashKeeps
<1>5. ASSUME NEW c \in Cores, Noticed(c) \/ Dropped(c) \/ Handler(c) \/ HandlerStop(c)
      PROVE  IInv'
  BY <1>5, NoticedKeeps, DroppedKeeps, HandlerKeeps, HandlerStopKeeps
<1> QED
  BY <1>1, <1>2, <1>3, <1>4, <1>5 DEF SessionNext

LEMMA AlwaysIInv == SessionSpec => []IInv
  BY InitIInv, StepIInv, PTL DEF SessionSpec

\* Every reachable state of the session has the declared types (connect.go, tun.go,
\* main.go, server.go).
THEOREM SessionTyped == SessionSpec => []TypeOK
<1>1. IInv => TypeOK
  BY DEF IInv
<1> QED
  BY <1>1, AlwaysIInv, PTL

\* No two goroutines are inside sections of ConnectionMutex, boot autoconnect included.
THEOREM SectionsExclude ==
  SessionSpec => [](\A g, h \in Goroutines : at[g] \in Section /\ at[h] \in Section => g = h)
<1>1. IInv => \A g, h \in Goroutines : at[g] \in Section /\ at[h] \in Section => g = h
  BY DEF IInv, Exclusive
<1> QED
  BY <1>1, AlwaysIInv, PTL

\* TUN without a proxy comes only from the races that are named, for any clients, servers
\* and crashes (the exit handler of server.go, enableTun, boot autoconnect, the reloads).
THEOREM TunNotLeftAlone == SessionSpec => []TunAloneOnlyRaced
<1>1. IInv => TunAloneOnlyRaced
  <2> SUFFICES ASSUME IInv, NothingUnderway, TunOn, ~Connected PROVE why # {}
    BY DEF TunAloneOnlyRaced
  <2>1. ~Handling
    BY DEF NothingUnderway, Handling
  <2>2. \A g \in Goroutines : at[g] \notin {"down", "clear"}
    BY SessionAssumption DEF IInv, Exclusive, NothingUnderway, Section, Goroutines
  <2> QED
    BY <2>1, <2>2 DEF IInv, AloneInv
<1> QED
  BY <1>1, AlwaysIInv, PTL

\* The routes past the tunnel lead to the connected server, in whatever order clients
\* connect, switch and enable TUN.
THEOREM RoutesFollowServer == SessionSpec => []RoutesFitServer
<1>1. IInv => RoutesFitServer
  BY DEF IInv, RoutesInv, RoutesFitServer
<1> QED
  BY <1>1, AlwaysIInv, PTL

-----------------------------------------------------------------------------
(* Commands of the command line (CliSession).                              *)
(*                                                                         *)
(* A command edits one setting of a group by sending all of them back from *)
(* the snapshot it planned on.  The invariant follows the request from the *)
(* plan to the core: whatever waits in a plan or a queue changes the one   *)
(* field it was made for and carries the others as the snapshot had them   *)
(* (GoodReq).  The core compares that snapshot with the group; unless it   *)
(* is outdated, what a user chose and what the core stores stay the same.  *)
(* A name a provider gives is never one a user chose, so neither a refresh *)
(* nor an update replaces the latter by the former.                        *)

\* The names a provider gives a group, and those a user does.
GivenNames == {"title", "", "host1", "host2"}
UserNames == {"", "mine", "new", "digits"}

\* update-group changes the one field it is sent for; the other comes from the snapshot.
GoodReq(r) ==
  /\ r.k = "update" => \/ r.of = "name" /\ r.name \in UserNames /\ r.url = r.seen[2]
                       \/ r.of = "url" /\ r.name = r.seen[1] /\ r.url = "u2"
                       \/ r.of = "auto" /\ r.name = r.seen[1] /\ r.url = r.seen[2]
  /\ r.k = "addgroup" => r.name \in UserNames
  /\ r.k = "add" => r = [k |-> "add", g |-> r.g]
GoodCmd(cmd) ==
  /\ cmd.k = "padd" => cmd.sel.name \in UserNames
  /\ cmd.k \in {"srename", "sadd"} => cmd.name \in UserNames
  /\ cmd.k = "surl" => cmd.url = "u2"

\* A list of groups, the requests of a stage, a plan, the requests on the way to the core
\* and the frames on the way back.
Listed(s) == \E S : s \in Seq(S)
GoodSends(s) == \E S : s \in Seq(S) /\ \A r \in S : GoodReq(r)
GoodPlan(p) == \E S : p \in Seq(S) /\ \A st \in S : GoodSends(st.send)
GoodQueue(q) == \E S : q \in Seq(S) /\ \A m \in S : GoodReq(m.r)
GoodFrames(q) == \E S : q \in Seq(S) /\ \A f \in S : f.k = "state" => Listed(f.db.order)

\* The records of the core, of the history and of a process.
GroupShape(gr) ==
  /\ gr = [name |-> gr.name, sub |-> gr.sub, url |-> gr.url, auto |-> gr.auto, ps |-> gr.ps, last |-> gr.last]
  /\ gr.sub \in GivenNames
DbShape(d) ==
  /\ d = [order |-> d.order, last |-> d.last, g |-> d.g]
  /\ Listed(d.order)
  /\ d.g = [g \in Gids |-> d.g[g]]
  /\ \A g \in Gids : GroupShape(d.g[g])
MeantShape(m) == m = [name |-> m.name, url |-> m.url] /\ m.name \in UserNames
\* The group has the address last asked for, and the name if a user chose one.
Keeps(gr, m) == gr.url = m.url /\ (m.name = "" \/ gr.name = m.name)
Process(p) ==
  /\ p = [pc |-> p.pc, n |-> p.n, cmd |-> p.cmd, cfg |-> p.cfg, todo |-> p.todo, got |-> p.got, out |-> p.out]
  /\ GoodCmd(p.cmd) /\ GoodPlan(p.todo)
  /\ p.pc = "wait" => p.todo # <<>>

Queues == toCore = [c \in Clients |-> toCore[c]] /\ \A c \in Clients : GoodQueue(toCore[c])
Inboxes == inbox = [c \in Clients |-> inbox[c]] /\ \A c \in Clients : GoodFrames(inbox[c])
Processes == cli = [c \in Clients |-> cli[c]] /\ \A c \in Clients : Process(cli[c])
KeptBy(d, m) == \A g \in Gids : Keeps(d.g[g], m[g])
MeantAll(m) == m = [g \in Gids |-> m[g]] /\ \A g \in Gids : MeantShape(m[g])

EditInv ==
  /\ DbShape(db) /\ MeantAll(meant) /\ Queues /\ Inboxes /\ Processes
  /\ raced \/ KeptBy(db, meant)

\* Frames, stages, plans and requests, put together and taken apart.
LEMMA FramesIntro ==
  ASSUME NEW S, NEW q \in Seq(S), \A f \in S : f.k = "state" => Listed(f.db.order) PROVE GoodFrames(q)
  BY DEF GoodFrames

LEMMA SendsIntro == ASSUME NEW S, NEW q \in Seq(S), \A r \in S : GoodReq(r) PROVE GoodSends(q)
  BY DEF GoodSends

LEMMA PlanIntro == ASSUME NEW S, NEW q \in Seq(S), \A st \in S : GoodSends(st.send) PROVE GoodPlan(q)
  BY DEF GoodPlan

LEMMA QueueIntro == ASSUME NEW S, NEW q \in Seq(S), \A m \in S : GoodReq(m.r) PROVE GoodQueue(q)
  BY DEF GoodQueue

LEMMA NoFrames == GoodFrames(<<>>)
<1> DEFINE S == {}
<1>1. <<>> \in Seq(S) OBVIOUS
<1>2. \A x : x \notin S OBVIOUS
<1> HIDE DEF S
<1> QED BY <1>1, <1>2, FramesIntro

LEMMA OneFrame ==
  ASSUME NEW f, f.k = "state" => Listed(f.db.order) PROVE GoodFrames(<<f>>)
<1> DEFINE S == {f}
<1>1. <<f>> \in Seq(S) OBVIOUS
<1>2. \A e \in S : e.k = "state" => Listed(e.db.order) OBVIOUS
<1> HIDE DEF S
<1> QED BY <1>1, <1>2, FramesIntro

LEMMA MoreFrames == ASSUME NEW a, NEW b, GoodFrames(a), GoodFrames(b) PROVE GoodFrames(a \o b)
<1>1. PICK S : a \in Seq(S) /\ \A f \in S : f.k = "state" => Listed(f.db.order)
  BY DEF GoodFrames
<1>2. PICK T : b \in Seq(T) /\ \A f \in T : f.k = "state" => Listed(f.db.order)
  BY DEF GoodFrames
<1>3. a \in Seq(S \cup T) /\ b \in Seq(S \cup T) BY <1>1, <1>2
<1>4. a \o b \in Seq(S \cup T) BY <1>3
<1>5. \A f \in S \cup T : f.k = "state" => Listed(f.db.order) BY <1>1, <1>2
<1> QED BY <1>4, <1>5 DEF GoodFrames

LEMMA FewerFrames == ASSUME NEW a, GoodFrames(a), a # <<>> PROVE GoodFrames(Tail(a))
<1>1. PICK S : a \in Seq(S) /\ \A f \in S : f.k = "state" => Listed(f.db.order)
  BY DEF GoodFrames
<1>2. Tail(a) \in Seq(S) BY <1>1
<1> QED BY <1>1, <1>2 DEF GoodFrames

LEMMA SentGood ==
  ASSUME Inboxes, NEW fr, GoodFrames(fr), inbox' = Sent(fr)
  PROVE Inboxes'
<1>1. inbox' = [c \in Clients |-> inbox'[c]] BY DEF Sent
<1>2. ASSUME NEW c \in Clients PROVE GoodFrames(inbox'[c])
  <2>1. inbox'[c] = inbox[c] \o fr \/ inbox'[c] = inbox[c] BY DEF Sent
  <2>2. GoodFrames(inbox[c]) BY DEF Inboxes
  <2>3. GoodFrames(inbox[c] \o fr) BY <2>2, MoreFrames
  <2> QED BY <2>1, <2>2, <2>3
<1> QED BY <1>1, <1>2 DEF Inboxes

LEMMA NoPlan == GoodPlan(<<>>)
<1> DEFINE S == {}
<1>1. <<>> \in Seq(S) OBVIOUS
<1>2. \A x : x \notin S OBVIOUS
<1> HIDE DEF S
<1> QED BY <1>1, <1>2, PlanIntro

LEMMA NoSends == GoodSends(<<>>)
<1> DEFINE S == {}
<1>1. <<>> \in Seq(S) OBVIOUS
<1>2. \A x : x \notin S OBVIOUS
<1> HIDE DEF S
<1> QED BY <1>1, <1>2, SendsIntro

LEMMA OneStage == ASSUME NEW st, GoodSends(st.send) PROVE GoodPlan(<<st>>)
<1> DEFINE S == {st}
<1>1. <<st>> \in Seq(S) OBVIOUS
<1>2. \A x \in S : GoodSends(x.send) OBVIOUS
<1> HIDE DEF S
<1> QED BY <1>1, <1>2, PlanIntro

LEMMA UsagePlan == GoodPlan(Usage)
<1> DEFINE st == [send |-> <<>>, await |-> [k |-> "usage"]]
<1>1. GoodSends(st.send) BY NoSends
<1> HIDE DEF st
<1>2. GoodPlan(<<st>>) BY <1>1, OneStage
<1> QED BY <1>2 DEF Usage, st

LEMMA StageGood == ASSUME NEW r, GoodReq(r), NEW a PROVE GoodPlan(<<Stage(r, a)>>)
<1> DEFINE st == Stage(r, a)
<1>1. st.send = <<r>> BY DEF Stage
<1> DEFINE S == {r}
<1>2. <<r>> \in Seq(S) OBVIOUS
<1>3. \A x \in S : GoodReq(x) OBVIOUS
<1> HIDE DEF S
<1>4. GoodSends(<<r>>) BY <1>2, <1>3, SendsIntro
<1>5. GoodSends(st.send) BY <1>1, <1>4
<1> HIDE DEF st
<1>6. GoodPlan(<<st>>) BY <1>5, OneStage
<1> QED BY <1>6 DEF st

LEMMA MorePlan == ASSUME NEW a, NEW b, GoodPlan(a), GoodPlan(b) PROVE GoodPlan(a \o b)
<1>1. PICK S : a \in Seq(S) /\ \A st \in S : GoodSends(st.send) BY DEF GoodPlan
<1>2. PICK T : b \in Seq(T) /\ \A st \in T : GoodSends(st.send) BY DEF GoodPlan
<1>3. a \in Seq(S \cup T) /\ b \in Seq(S \cup T) BY <1>1, <1>2
<1>4. a \o b \in Seq(S \cup T) BY <1>3
<1>5. \A st \in S \cup T : GoodSends(st.send) BY <1>1, <1>2
<1> QED BY <1>4, <1>5 DEF GoodPlan

LEMMA RestPlan == ASSUME NEW a, GoodPlan(a), a # <<>> PROVE GoodPlan(Tail(a)) /\ GoodSends(Head(a).send)
<1>1. PICK S : a \in Seq(S) /\ \A st \in S : GoodSends(st.send) BY DEF GoodPlan
<1>2. Tail(a) \in Seq(S) /\ Head(a) \in S BY <1>1
<1> QED BY <1>1, <1>2 DEF GoodPlan

LEMMA MoreQueue == ASSUME NEW a, NEW b, GoodQueue(a), GoodQueue(b) PROVE GoodQueue(a \o b)
<1>1. PICK S : a \in Seq(S) /\ \A m \in S : GoodReq(m.r) BY DEF GoodQueue
<1>2. PICK T : b \in Seq(T) /\ \A m \in T : GoodReq(m.r) BY DEF GoodQueue
<1>3. a \in Seq(S \cup T) /\ b \in Seq(S \cup T) BY <1>1, <1>2
<1>4. a \o b \in Seq(S \cup T) BY <1>3
<1>5. \A m \in S \cup T : GoodReq(m.r) BY <1>1, <1>2
<1> QED BY <1>4, <1>5 DEF GoodQueue

LEMMA RestQueue == ASSUME NEW a, GoodQueue(a), a # <<>> PROVE GoodQueue(Tail(a)) /\ GoodReq(Head(a).r)
<1>1. PICK S : a \in Seq(S) /\ \A m \in S : GoodReq(m.r) BY DEF GoodQueue
<1>2. Tail(a) \in Seq(S) /\ Head(a) \in S BY <1>1
<1> QED BY <1>1, <1>2 DEF GoodQueue

LEMMA OneQueue == ASSUME NEW m, GoodReq(m.r) PROVE GoodQueue(<<m>>)
<1> DEFINE S == {m}
<1>1. <<m>> \in Seq(S) OBVIOUS
<1>2. \A x \in S : GoodReq(x.r) OBVIOUS
<1> HIDE DEF S
<1> QED BY <1>1, <1>2, QueueIntro

\* What is asked for from a snapshot.
LEMMA RequestGood == ASSUME NEW r, GoodReq(r), NEW kind PROVE GoodPlan(Request(r, kind))
  BY StageGood DEF Request

LEMMA PlainGood == ASSUME NEW r, r.k \notin {"update", "addgroup", "add"} PROVE GoodReq(r)
  BY DEF GoodReq

LEMMA CommandsGood == ASSUME NEW fam, NEW cmd \in Commands(fam) PROVE GoodCmd(cmd)
<1>1. CASE cmd \in SessionCommands \cup [k : {"prm"}, sels : {<<ByRef(2, 1)>>}]
  <2>1. CASE cmd \in {Connects(ById(1), NoSel, TRUE), Connects(NoSel, NoSel, FALSE), Connects(NoSel, ByName("mine"), TRUE)}
    <3>1. \A sel, group, wait : Connects(sel, group, wait).k = "connect" BY DEF Connects
    <3>2. cmd.k = "connect" BY <2>1, <3>1
    <3> QED BY <3>2 DEF GoodCmd
  <2>2. CASE cmd \notin {Connects(ById(1), NoSel, TRUE), Connects(NoSel, NoSel, FALSE), Connects(NoSel, ByName("mine"), TRUE)}
    <3>1. cmd.k \in {"disconnect", "toggle", "mode", "prm"}
      BY <1>1, <2>2 DEF SessionCommands
    <3> QED BY <3>1 DEF GoodCmd
  <2> QED BY <2>1, <2>2
<1>2. CASE cmd \in ProfileCommands
  <2>1. CASE cmd \in [k : {"padd"}, sel : {NoSel, ById(2), ByName("mine"), ByName("new")}]
    <3>1. /\ NoSel.name = "" /\ ById(2).name = ""
          /\ ByName("mine").name = "mine" /\ ByName("new").name = "new"
      BY DEF NoSel, ById, ByName, Sel
    <3>2. cmd.k = "padd" /\ cmd.sel \in {NoSel, ById(2), ByName("mine"), ByName("new")} BY <2>1
    <3>3. cmd.sel.name \in UserNames BY <3>1, <3>2 DEF UserNames
    <3> QED BY <3>2, <3>3 DEF GoodCmd
  <2>2. CASE cmd \notin [k : {"padd"}, sel : {NoSel, ById(2), ByName("mine"), ByName("new")}]
    <3>1. cmd.k \in {"prm", "prename", "pmove", "preorder", "list"}
      BY <1>2, <2>2 DEF ProfileCommands
    <3> QED BY <3>1 DEF GoodCmd
  <2> QED BY <2>1, <2>2
<1>3. CASE cmd \in SubCommands
  <2>1. CASE cmd.k \in {"sadd", "srename", "surl"}
    <3>1. \/ cmd \in [k : {"sadd"}, name : {"", "mine"}, url : {"u2"}, wait : {TRUE}]
          \/ cmd \in [k : {"srename"}, sel : {ById(1)}, name : {"", "mine"}]
          \/ cmd \in [k : {"surl"}, sel : {ById(1)}, url : {"u2"}]
      BY <1>3, <2>1 DEF SubCommands
    <3>2. cmd.k = "sadd" => cmd.name \in {"", "mine"} BY <3>1
    <3>3. cmd.k = "srename" => cmd.name \in {"", "mine"} BY <3>1
    <3>4. cmd.k = "surl" => cmd.url = "u2" BY <3>1
    <3> QED BY <2>1, <3>2, <3>3, <3>4 DEF GoodCmd, UserNames
  <2>2. CASE cmd.k \notin {"sadd", "srename", "surl"}
    <3>1. cmd.k \in {"srm", "srefresh", "sauto", "sreorder"}
      BY <1>3, <2>2 DEF SubCommands
    <3> QED BY <3>1 DEF GoodCmd
  <2> QED BY <2>1, <2>2
<1> QED BY <1>1, <1>2, <1>3 DEF Commands
\* The first element with a property is one with the property.
LEMMA FirstOf ==
  ASSUME NEW n \in Nat, NEW I \in SUBSET (1 .. n), I # {}
  PROVE  Min(I) \in I
<1> DEFINE Less == {p \in Nat \X Nat : p[1] < p[2]}
<1>1. IsWellFoundedOn(Less, Nat)
  BY NatLessThanWellFounded, Zenon DEF OpToRel
<1> HIDE DEF Less
<1>2. I \subseteq Nat
  OBVIOUS
<1>3. PICK i \in I : \A j \in I : ~(<<j, i>> \in Less)
  BY <1>1, <1>2, WFMin
<1>4. \A j \in I : i <= j
  <2> TAKE j \in I
  <2>1. i \in Nat /\ j \in Nat
    BY <1>2
  <2>2. <<j, i>> \in Less <=> j < i
    BY <2>1 DEF Less
  <2> QED
    BY <1>3, <2>1, <2>2
<1>5. \E x \in I : \A y \in I : x <= y
  BY <1>4
<1> QED
  BY <1>5 DEF Min

\* What is listed stays a sequence.
LEMMA ListIntro == ASSUME NEW S, NEW q \in Seq(S) PROVE Listed(q)
  BY DEF Listed

LEMMA RemoveListed == ASSUME NEW s, Listed(s), NEW e PROVE Listed(RemoveFirst(s, e))
<1>1. PICK S : s \in Seq(S) BY DEF Listed
<1> DEFINE I == {i \in 1..Len(s) : s[i] = e}
<1>2. CASE I # {}
  <2>1. Len(s) \in Nat /\ I \in SUBSET (1..Len(s)) BY <1>1
  <2> DEFINE m == Min(I)
  <2>2. m \in I
    <3> HIDE DEF I
    <3> QED BY <2>1, <1>2, FirstOf, Zenon
  <2>3. SelectInSeq(s, LAMBDA v : v = e) = m BY <1>2 DEF SelectInSeq
  <2>4. \E i \in 1..Len(s) : s[i] = e BY <1>2
  <2>5. RemoveFirst(s, e) = RemoveAt(s, m) BY <2>3, <2>4 DEF RemoveFirst
  <2>6. m \in 1..Len(s) BY <2>2
  <2> HIDE DEF m, I
  <2>7. RemoveAt(s, m) \in Seq(S) BY <1>1, <2>1, <2>6 DEF RemoveAt
  <2> QED BY <2>5, <2>7, ListIntro
<1>3. CASE I = {}
  <2>1. ~\E i \in 1..Len(s) : s[i] = e BY <1>3
  <2>2. RemoveFirst(s, e) = s BY <2>1 DEF RemoveFirst
  <2> QED BY <2>2
<1> QED BY <1>2, <1>3

LEMMA ListedFinite == ASSUME NEW s, Listed(s) PROVE IsFiniteSet(ToSet(s))
<1>1. PICK S : s \in Seq(S) BY DEF Listed
<1>2. Len(s) \in Nat /\ DOMAIN s = 1..Len(s) BY <1>1
<1>3. IsFiniteSet(1..Len(s)) BY <1>2, FS_Interval
<1>4. s \in Surjection(1..Len(s), ToSet(s)) BY <1>1, <1>2 DEF Surjection, ToSet
<1> HIDE DEF ToSet
<1> QED BY <1>3, <1>4, FS_Surjection

LEMMA ArrangeListed == ASSUME NEW ids, NEW s, Listed(s) PROVE Listed(Arrange(ids, ToSet(s)))
<1> DEFINE all == ToSet(s)
           q == Arrange(ids, all)
           S == {q[n] : n \in 1..Cardinality(all)}
<1>1. Cardinality(all) \in Nat BY ListedFinite, FS_CardinalityType
<1>2. q = [n \in 1..Cardinality(all) |-> q[n]] BY DEF Arrange
<1> HIDE DEF all, q
<1>3. q \in Seq(S) BY <1>1, <1>2
<1>4. Listed(q)
  <2> HIDE DEF S
  <2> QED BY <1>3, ListIntro
<1> QED BY <1>4 DEF q, all

LEMMA AppendListed == ASSUME NEW s, Listed(s), NEW e PROVE Listed(Append(s, e))
<1>1. PICK S : s \in Seq(S) BY DEF Listed
<1>2. Append(s, e) \in Seq(S \cup {e}) BY <1>1
<1> QED BY <1>2, ListIntro
\* What the core stores.
LEMMA HostGiven == ASSUME NEW u PROVE Host(u) \in GivenNames
  BY DEF Host, GivenNames

LEMMA UpdateShape ==
  ASSUME NEW gr, GroupShape(gr), NEW r PROVE GroupShape(UpdateGroupConfig(gr, r))
<1> DEFINE sub == IF Host(r.url) # "" THEN Host(r.url) ELSE gr.sub
           url == IF r.url = "none" THEN gr.url ELSE r.url
           nu == UpdateGroupConfig(gr, r)
<1>1. sub \in GivenNames BY HostGiven DEF GroupShape
<1>2. PICK n, s, u, a, p, l : gr = [name |-> n, sub |-> s, url |-> u, auto |-> a, ps |-> p, last |-> l]
  BY DEF GroupShape
<1>3. \E n2, a2 : nu = [name |-> n2, sub |-> sub, url |-> url, auto |-> a2, ps |-> p, last |-> l]
  <2> DEFINE n2 == IF ~(r.name = "" \/ (gr.name \in {"", gr.sub} /\ r.name = gr.name)) THEN r.name
                   ELSE IF sub = "" THEN "unnamed" ELSE sub
             a2 == AutoUpdate(gr, r)
  <2>1. nu = [gr EXCEPT !.auto = a2, !.sub = sub, !.url = url, !.name = n2] BY DEF UpdateGroupConfig
  <2> HIDE DEF nu, sub, url, n2, a2
  <2>2. nu = [name |-> n2, sub |-> sub, url |-> url, auto |-> a2, ps |-> p, last |-> l] BY <1>2, <2>1
  <2> QED BY <2>2
<1> HIDE DEF nu, sub, url
<1> QED BY <1>1, <1>3 DEF GroupShape, nu
\* An update made from the group as it is changes what it is meant to change only.
LEMMA UpdateKeeps ==
  ASSUME NEW gr, GroupShape(gr), NEW m, MeantShape(m), Keeps(gr, m),
         NEW r, GoodReq(r), r.k = "update", r.seen = <<gr.name, gr.url>>,
         NEW nm, NEW nu, nu = UpdateGroupConfig(gr, r),
         \/ r.of = "name" /\ nm = [m EXCEPT !.name = r.name]
         \/ r.of = "url" /\ nm = [m EXCEPT !.url = r.url]
         \/ r.of = "auto" /\ nm = m
  PROVE  Keeps(nu, nm)
<1> DEFINE sub == IF Host(r.url) # "" THEN Host(r.url) ELSE gr.sub
           follow == r.name = "" \/ (gr.name \in {"", gr.sub} /\ r.name = gr.name)
<1>1. /\ nu.url = IF r.url = "none" THEN gr.url ELSE r.url
      /\ nu.name = IF ~follow THEN r.name ELSE IF sub = "" THEN "unnamed" ELSE sub
  BY DEF UpdateGroupConfig, GroupShape
<1>2. r.seen[1] = gr.name /\ r.seen[2] = gr.url OBVIOUS
<1>3. gr.sub \in GivenNames /\ m.name \in UserNames BY DEF GroupShape, MeantShape
<1>4. CASE r.of = "name"
  <2>1. nm.name = r.name /\ nm.url = m.url BY <1>4 DEF MeantShape
  <2>2. r.name \in UserNames /\ r.url = gr.url BY <1>2, <1>4 DEF GoodReq
  <2>3. r.name = "" \/ ~follow BY <1>3, <2>2 DEF GivenNames, UserNames
  <2> QED BY <1>1, <2>1, <2>2, <2>3 DEF Keeps
<1>5. CASE r.of = "url"
  <2>1. nm.name = m.name /\ nm.url = r.url BY <1>5 DEF MeantShape
  <2>2. r.name = gr.name /\ r.url = "u2" BY <1>2, <1>5 DEF GoodReq
  <2>3. m.name = "" \/ ~follow BY <1>3, <2>2 DEF GivenNames, UserNames, Keeps
  <2> QED BY <1>1, <2>1, <2>2, <2>3 DEF Keeps
<1>6. CASE r.of = "auto"
  <2>1. nm = m BY <1>6
  <2>2. r.name = gr.name /\ r.url = gr.url BY <1>2, <1>6 DEF GoodReq
  <2>3. m.name = "" \/ ~follow BY <1>3, <2>2 DEF GivenNames, UserNames, Keeps
  <2> QED BY <1>1, <2>1, <2>2, <2>3 DEF Keeps
<1> QED BY <1>4, <1>5, <1>6

\* Two groups with the same name, address and provider's name.
Same(gr, nu) == nu.name = gr.name /\ nu.url = gr.url /\ nu.sub = gr.sub

LEMMA SameProfiles ==
  ASSUME NEW gr, GroupShape(gr), NEW ps PROVE GroupShape([gr EXCEPT !.ps = ps]) /\ Same(gr, [gr EXCEPT !.ps = ps])
  BY DEF GroupShape, Same

LEMMA SameBoth ==
  ASSUME NEW gr, GroupShape(gr), NEW ps, NEW n, NEW nu, nu = [gr EXCEPT !.ps = ps, !.last = n]
  PROVE  GroupShape(nu) /\ Same(gr, nu)
  BY DEF GroupShape, Same

LEMMA SameWith ==
  ASSUME NEW gr, GroupShape(gr) PROVE GroupShape(WithProfile(gr)) /\ Same(gr, WithProfile(gr))
<1>1. PICK ps, n : ps = Append(gr.ps, gr.last + 1) /\ n = gr.last + 1 OBVIOUS
<1>2. PICK nu : nu = WithProfile(gr) OBVIOUS
<1>3. nu = [gr EXCEPT !.ps = ps, !.last = n] BY <1>1, <1>2 DEF WithProfile
<1> QED BY <1>2, <1>3, SameBoth, Zenon

LEMMA SameTwice ==
  ASSUME NEW a, NEW b, NEW c, Same(a, b), Same(b, c) PROVE Same(a, c)
  BY DEF Same

LEMMA SameKeeps ==
  ASSUME NEW a, NEW b, Same(a, b), NEW m, Keeps(a, m) PROVE Keeps(b, m)
  BY DEF Same, Keeps
\* The steps a change of the groups is made of.
SetGroup(d, g, v) == [d EXCEPT !.g[g] = v]
SetProfiles(d, g, ps) == [d EXCEPT !.g[g].ps = ps]
Grown(d, g) == [d EXCEPT !.g[g] = WithProfile(@)]

LEMMA GroupSet ==
  ASSUME NEW d, DbShape(d), NEW g, NEW v, g \in Gids => GroupShape(v), NEW e, e = SetGroup(d, g, v)
  PROVE  /\ DbShape(e) /\ e.order = d.order /\ e.last = d.last
         /\ \A x \in Gids : e.g[x] = IF x = g THEN v ELSE d.g[x]
<1>1. e = [d EXCEPT !.g = [d.g EXCEPT ![g] = v]] BY DEF SetGroup
<1>2. PICK o, l, h : d = [order |-> o, last |-> l, g |-> h] BY DEF DbShape
<1>3. h = [x \in Gids |-> h[x]] /\ Listed(o) /\ \A x \in Gids : GroupShape(h[x]) BY <1>2 DEF DbShape
<1> DEFINE k == [h EXCEPT ![g] = v]
<1>4. e = [order |-> o, last |-> l, g |-> k] BY <1>1, <1>2
<1>5. k = [x \in Gids |-> k[x]] /\ \A x \in Gids : k[x] = IF x = g THEN v ELSE h[x]
  BY <1>3
<1> HIDE DEF k
<1>6. \A x \in Gids : GroupShape(k[x]) BY <1>3, <1>5
<1>7. e.order = o /\ e.last = l /\ e.g = k BY <1>4
<1>8. DbShape(e) BY <1>3, <1>4, <1>5, <1>6, <1>7 DEF DbShape
<1> QED BY <1>2, <1>5, <1>7, <1>8

LEMMA GroupSetSame ==
  ASSUME NEW d, DbShape(d), NEW g, NEW v, g \in Gids => GroupShape(v) /\ Same(d.g[g], v),
         NEW e, e = SetGroup(d, g, v)
  PROVE  DbShape(e) /\ e.order = d.order /\ \A x \in Gids : Same(d.g[x], e.g[x])
<1>1. \A x : Same(d.g[x], d.g[x]) BY DEF Same
<1> QED BY <1>1, GroupSet

LEMMA ProfilesShape ==
  ASSUME NEW d, DbShape(d), NEW g, NEW ps, NEW e, e = SetProfiles(d, g, ps)
  PROVE  DbShape(e) /\ e.order = d.order /\ \A x \in Gids : Same(d.g[x], e.g[x])
<1>0. PICK v : v = [d.g[g] EXCEPT !.ps = ps] OBVIOUS
<1>1. e = SetGroup(d, g, v) BY <1>0 DEF SetGroup, SetProfiles, Grown
<1>2. g \in Gids => GroupShape(v) /\ Same(d.g[g], v) BY <1>0, SameProfiles DEF DbShape
<1> QED BY <1>1, <1>2, GroupSetSame

LEMMA WithShape ==
  ASSUME NEW d, DbShape(d), NEW g, NEW e, e = Grown(d, g)
  PROVE  DbShape(e) /\ \A x \in Gids : Same(d.g[x], e.g[x])
<1>0. PICK v : v = WithProfile(d.g[g]) OBVIOUS
<1>1. e = SetGroup(d, g, v) BY <1>0 DEF SetGroup, SetProfiles, Grown
<1>2. g \in Gids => GroupShape(v) /\ Same(d.g[g], v) BY <1>0, SameWith DEF DbShape
<1> QED BY <1>1, <1>2, GroupSetSame

LEMMA OrderShape ==
  ASSUME NEW d, DbShape(d), NEW o, Listed(o)
  PROVE  DbShape([d EXCEPT !.order = o]) /\ [d EXCEPT !.order = o].g = d.g
<1>1. PICK p, l, h : d = [order |-> p, last |-> l, g |-> h] BY DEF DbShape
<1>2. [d EXCEPT !.order = o] = [order |-> o, last |-> l, g |-> h] BY <1>1
<1> QED BY <1>1, <1>2 DEF DbShape

\* What a request other than update and addgroup stores leaves names and addresses.
LEMMA OtherStored ==
  ASSUME DbShape(db), NEW r, r.k \notin {"update", "addgroup"}, NEW d, d = Stored(db, r)
  PROVE  DbShape(d) /\ \A g \in Gids : Same(db.g[g], d.g[g])
<1>0. \A g : Same(db.g[g], db.g[g]) BY DEF Same
<1>1. CASE r.k = "add" /\ r.g \in Of(db)
  <2>1. d = Grown(db, r.g) BY <1>1 DEF Stored, Grown
  <2> QED BY <2>1, WithShape
<1>2. CASE r.k = "delete"
  <2> DEFINE gone(g) == {ref[2] : ref \in {x \in r.refs : x[1] = g}}
             h == [g \in Gids |-> [db.g[g] EXCEPT !.ps = Without(@, gone(g))]]
  <2>1. d = [db EXCEPT !.g = h] BY <1>2, Zenon DEF Stored
  <2>2. ASSUME NEW g \in Gids PROVE GroupShape(h[g]) /\ Same(db.g[g], h[g])
    <3>1. GroupShape(db.g[g]) BY DEF DbShape
    <3>2. PICK q : q = Without(db.g[g].ps, gone(g)) OBVIOUS
    <3>3. h[g] = [db.g[g] EXCEPT !.ps = q] BY <3>2
    <3> HIDE DEF h
    <3> QED BY <3>1, <3>3, SameProfiles
  <2>3. h = [g \in Gids |-> h[g]] OBVIOUS
  <2> HIDE DEF h
  <2>4. d.g = h /\ d = [order |-> db.order, last |-> db.last, g |-> h] BY <2>1 DEF DbShape
  <2>5. DbShape(d) BY <2>2, <2>3, <2>4 DEF DbShape
  <2> QED BY <2>2, <2>4, <2>5
<1>3. CASE r.k = "move"
  <2>1. PICK ps : ps = Without(db.g[r.ref[1]].ps, {r.ref[2]}) OBVIOUS
  <2>2. PICK e : e = SetProfiles(db, r.ref[1], ps) OBVIOUS
  <2>3. e = [db EXCEPT !.g[r.ref[1]].ps = Without(@, {r.ref[2]})] BY <2>1, <2>2 DEF SetProfiles
  <2>4. d = Grown(e, r.to) BY <1>3, <2>3, Zenon DEF Stored, Grown
  <2>5. DbShape(e) /\ \A x \in Gids : Same(db.g[x], e.g[x]) BY <2>2, ProfilesShape
  <2>6. DbShape(d) /\ \A x \in Gids : Same(e.g[x], d.g[x]) BY <2>4, <2>5, WithShape
  <2> QED BY <2>5, <2>6, SameTwice
<1>4. CASE r.k = "reorder"
  <2>1. PICK ps : ps = Arrange(r.ids, ToSet(db.g[r.g].ps)) OBVIOUS
  <2>2. d = SetProfiles(db, r.g, ps) BY <1>4, <2>1 DEF Stored, SetProfiles
  <2> QED BY <2>2, ProfilesShape
<1>5. CASE r.k = "groups"
  <2> DEFINE o == Arrange(r.ids, ToSet(db.order))
  <2>1. d = [db EXCEPT !.order = o] BY <1>5 DEF Stored
  <2>2. Listed(o) BY ArrangeListed DEF DbShape
  <2> HIDE DEF o
  <2> QED BY <1>0, <2>1, <2>2, OrderShape
<1>6. CASE r.k = "delgroup"
  <2> DEFINE o == RemoveFirst(db.order, r.g)
  <2>1. PICK e : e = [db EXCEPT !.order = o] OBVIOUS
  <2>2. d = SetProfiles(e, r.g, <<>>)
    <3>1. d = [db EXCEPT !.order = RemoveFirst(@, r.g), !.g[r.g].ps = <<>>] BY <1>6, Zenon DEF Stored
    <3> QED BY <2>1, <3>1 DEF SetProfiles
  <2>3. Listed(o) BY RemoveListed DEF DbShape
  <2> HIDE DEF o
  <2>4. DbShape(e) /\ e.g = db.g BY <2>1, <2>3, OrderShape
  <2>5. DbShape(d) /\ \A x \in Gids : Same(e.g[x], d.g[x]) BY <2>2, <2>4, ProfilesShape
  <2> QED BY <2>4, <2>5
<1>7. CASE /\ ~(r.k = "add" /\ r.g \in Of(db))
           /\ r.k \notin {"delete", "move", "reorder", "groups", "delgroup"}
  <2>1. d = db BY <1>7 DEF Stored
  <2> QED BY <1>0, <2>1
<1> QED BY <1>1, <1>2, <1>3, <1>4, <1>5, <1>6, <1>7
\* What a request means for the groups, as HandleStore records it.
Meant(r) ==
  CASE r.k = "update" /\ r.of = "name" -> [meant EXCEPT ![r.g].name = r.name]
    [] r.k = "update" /\ r.of = "url" -> [meant EXCEPT ![r.g].url = r.url]
    [] r.k = "addgroup" -> [meant EXCEPT ![db.last + 1] = [name |-> r.name, url |-> r.url]]
    [] OTHER -> meant

\* A request leaves every group as it is meant, unless it comes from an outdated snapshot.
LEMMA UpdateStored ==
  ASSUME DbShape(db), MeantAll(meant), NEW r, GoodReq(r), r.k = "update",
         NEW d, d = Stored(db, r), NEW m, m = Meant(r)
  PROVE  /\ DbShape(d) /\ MeantAll(m)
         /\ KeptBy(db, meant) /\ r.seen = <<db.g[r.g].name, db.g[r.g].url>> => KeptBy(d, m)
<1>1. PICK nu : nu = UpdateGroupConfig(db.g[r.g], r) OBVIOUS
<1>2. d = SetGroup(db, r.g, nu) BY <1>1, Zenon DEF Stored, SetGroup
<1>3. r.g \in Gids => GroupShape(nu) BY <1>1, UpdateShape DEF DbShape
<1>4. DbShape(d) /\ \A x \in Gids : d.g[x] = IF x = r.g THEN nu ELSE db.g[x] BY <1>2, <1>3, GroupSet
<1>5. \/ r.of = "name" /\ m = [meant EXCEPT ![r.g].name = r.name] /\ r.name \in UserNames
      \/ r.of = "url" /\ m = [meant EXCEPT ![r.g].url = r.url]
      \/ r.of = "auto" /\ m = meant
  BY DEF Meant, GoodReq
<1>6. MeantAll(m) /\ \A x \in Gids : x # r.g => m[x] = meant[x]
  BY <1>5 DEF MeantAll, MeantShape
<1>7. ASSUME KeptBy(db, meant), r.seen = <<db.g[r.g].name, db.g[r.g].url>>, NEW x \in Gids
      PROVE  Keeps(d.g[x], m[x])
  <2>1. CASE x # r.g BY <1>4, <1>6, <1>7, <2>1 DEF KeptBy
  <2>2. CASE x = r.g
    <3>1. PICK gr, mm, nm : gr = db.g[x] /\ mm = meant[x] /\ nm = m[x] OBVIOUS
    <3>2. GroupShape(gr) /\ MeantShape(mm) /\ Keeps(gr, mm) BY <1>7, <3>1 DEF DbShape, MeantAll, KeptBy
    <3>3. \/ r.of = "name" /\ nm = [mm EXCEPT !.name = r.name]
          \/ r.of = "url" /\ nm = [mm EXCEPT !.url = r.url]
          \/ r.of = "auto" /\ nm = mm
      BY <1>5, <2>2, <3>1 DEF MeantAll
    <3>4. r.seen = <<gr.name, gr.url>> BY <1>7, <2>2, <3>1
    <3>5. nu = UpdateGroupConfig(gr, r) BY <1>1, <2>2, <3>1
    <3>6. Keeps(nu, nm) BY <3>2, <3>3, <3>4, <3>5, UpdateKeeps
    <3> QED BY <1>4, <2>2, <3>1, <3>6
  <2> QED BY <2>1, <2>2
<1> QED BY <1>4, <1>6, <1>7 DEF KeptBy

LEMMA AddStored ==
  ASSUME DbShape(db), MeantAll(meant), NEW r, GoodReq(r), r.k = "addgroup",
         NEW d, d = Stored(db, r), NEW m, m = Meant(r)
  PROVE  DbShape(d) /\ MeantAll(m) /\ (KeptBy(db, meant) => KeptBy(d, m))
<1>1. PICK n : n = db.last + 1 OBVIOUS
<1>2. PICK name : name = IF r.name = "" THEN Host(r.url) ELSE r.name OBVIOUS
<1>3. PICK v : v = Group(name, Host(r.url), r.url, <<>>) OBVIOUS
<1>4. PICK w : w = [name |-> r.name, url |-> r.url] OBVIOUS
<1>5. GroupShape(v) /\ v.name = name /\ v.url = r.url
  <2>1. PICK sub : sub = Host(r.url) OBVIOUS
  <2>2. sub \in GivenNames BY <2>1, HostGiven
  <2>3. PICK l : l = Len(<<>>) OBVIOUS
  <2>4. v = [name |-> name, sub |-> sub, url |-> r.url, auto |-> TRUE, ps |-> <<>>, last |-> l]
    BY <1>3, <2>1, <2>3, Zenon DEF Group
  <2> QED BY <2>2, <2>4 DEF GroupShape
<1>6. MeantShape(w) /\ Keeps(v, w)
  <2>1. r.name \in UserNames BY DEF GoodReq
  <2> QED BY <1>2, <1>4, <1>5, <2>1 DEF MeantShape, Keeps
<1>7. m = [meant EXCEPT ![n] = w] BY <1>1, <1>4, Zenon DEF Meant
<1>8. MeantAll(m) /\ \A x \in Gids : m[x] = IF x = n THEN w ELSE meant[x]
  BY <1>6, <1>7 DEF MeantAll
<1>9. PICK o, l, h : db = [order |-> o, last |-> l, g |-> h] BY DEF DbShape
<1>10. d = [order |-> Append(o, n), last |-> n, g |-> [h EXCEPT ![n] = v]]
  <2>1. d = [db EXCEPT !.last = @ + 1, !.order = Append(@, db.last + 1),
                       !.g[db.last + 1] = Group(IF r.name = "" THEN Host(r.url) ELSE r.name, Host(r.url), r.url, <<>>)]
    BY Zenon DEF Stored
  <2>2. d = [db EXCEPT !.last = n, !.order = Append(@, n), !.g[n] = v] BY <2>1, <1>1, <1>2, <1>3
  <2> QED BY <1>9, <2>2
<1>11. PICK k : k = [h EXCEPT ![n] = v] OBVIOUS
<1>12. h = [x \in Gids |-> h[x]] /\ Listed(o) /\ \A x \in Gids : GroupShape(h[x]) BY <1>9 DEF DbShape
<1>13. k = [x \in Gids |-> k[x]] /\ \A x \in Gids : k[x] = IF x = n THEN v ELSE h[x] BY <1>11, <1>12
<1>14. Listed(Append(o, n)) BY <1>12, AppendListed
<1>15. d.order = Append(o, n) /\ d.last = n /\ d.g = k BY <1>10, <1>11
<1>16. DbShape(d) BY <1>5, <1>10, <1>11, <1>12, <1>13, <1>14, <1>15 DEF DbShape
<1>17. KeptBy(db, meant) => KeptBy(d, m) BY <1>6, <1>8, <1>9, <1>13, <1>15 DEF KeptBy
<1> QED BY <1>8, <1>16, <1>17

LEMMA StoreKeeps ==
  ASSUME DbShape(db), MeantAll(meant), NEW r, GoodReq(r),
         NEW d, d = Stored(db, r), NEW m, m = Meant(r)
  PROVE  /\ DbShape(d) /\ MeantAll(m)
         /\ KeptBy(db, meant) /\ (r.k = "update" => r.seen = <<db.g[r.g].name, db.g[r.g].url>>) => KeptBy(d, m)
<1>1. CASE r.k = "update" BY <1>1, UpdateStored
<1>2. CASE r.k = "addgroup" BY <1>2, AddStored
<1>3. CASE r.k \notin {"update", "addgroup"}
  <2>1. DbShape(d) /\ \A g \in Gids : Same(db.g[g], d.g[g]) BY <1>3, OtherStored
  <2>2. m = meant BY <1>3 DEF Meant
  <2> QED BY <2>1, <2>2, SameKeeps DEF KeptBy
<1> QED BY <1>1, <1>2, <1>3
\* What the core broadcasts.
LEMMA WarnGood == ASSUME NEW id, NEW key PROVE GoodFrames(<<Warn(id, key)>>)
<1>1. PICK f : f = Warn(id, key) OBVIOUS
<1>2. f.k # "state" BY <1>1 DEF Warn
<1> QED BY <1>1, <1>2, OneFrame

LEMMA PlainFrame == ASSUME NEW f, f.k # "state" PROVE GoodFrames(<<f>>)
  BY OneFrame

LEMMA AnswerGood ==
  ASSUME DbShape(db), NEW r, NEW id PROVE GoodFrames(Answer(r, id))
<1>1. CASE r.k = "state"
  <2>1. PICK f : f = [k |-> "state", id |-> id, db |-> db, conn |-> conn, tun |-> tun] OBVIOUS
  <2>2. Answer(r, id) = <<f>> BY <1>1, <2>1, Zenon DEF Answer
  <2>3. f.db = db BY <2>1
  <2> QED BY <2>2, <2>3, OneFrame DEF DbShape
<1>2. CASE r.k = "delete"
  <2>1. PICK f : f = [k |-> "delete", id |-> id, n |-> Cardinality(r.refs)] OBVIOUS
  <2>2. Answer(r, id) = <<f>> BY <1>2, <2>1, Zenon DEF Answer
  <2> QED BY <2>1, <2>2, PlainFrame
<1>3. CASE r.k = "add"
  <2>1. PICK f : f = [k |-> "add", id |-> id, n |-> IF r.g \in Of(db) THEN 1 ELSE 0] OBVIOUS
  <2>2. Answer(r, id) = <<f>> BY <1>3, <2>1, Zenon DEF Answer
  <2> QED BY <2>1, <2>2, PlainFrame
<1>4. CASE r.k = "addgroup"
  <2>1. PICK f : f = [k |-> "addgroup", id |-> id, g |-> db.last + 1] OBVIOUS
  <2>2. Answer(r, id) = <<f>> BY <1>4, <2>1, Zenon DEF Answer
  <2>3. f.k = "addgroup" BY <2>1
  <2> QED BY <2>2, <2>3, PlainFrame
<1>5. CASE r.k = "refresh"
  <2>1. Answer(r, id) = <<>> BY <1>5 DEF Answer
  <2> QED BY <2>1, NoFrames
<1>6. CASE r.k \notin {"state", "delete", "add", "addgroup", "refresh"}
  <2>1. PICK f : f = Frame(r.k, id) OBVIOUS
  <2>2. Answer(r, id) = <<f>> BY <1>6, <2>1 DEF Answer
  <2>3. f.k = r.k BY <2>1 DEF Frame
  <2> QED BY <1>6, <2>2, <2>3, PlainFrame
<1> QED BY <1>1, <1>2, <1>3, <1>4, <1>5, <1>6

LEMMA RacedGrows ==
  ASSUME NEW r, raced' = (raced \/ Outdated(r))
  PROVE  (raced \/ Outdated(r) => raced') /\ (raced' => raced \/ Outdated(r))
  BY Zenon

\* The steps of the core.
LEMMA StoreStep ==
  ASSUME EditInv, NEW c, NEW r, GoodReq(r), NEW id, HandleStore(c, r, id)
  PROVE  DbShape(db') /\ MeantAll(meant') /\ Inboxes' /\ (raced' \/ KeptBy(db', meant'))
<1>1. /\ db' = IF Fails(r) THEN db ELSE Stored(db, r)
      /\ meant' = IF Fails(r) THEN meant ELSE Meant(r)
      /\ inbox' = Sent(IF Fails(r) THEN <<Warn(id, "failed")>> ELSE Answer(r, id))
      /\ raced' = (raced \/ Outdated(r))
  BY DEF HandleStore, Meant
<1>2. DbShape(db) /\ MeantAll(meant) /\ Inboxes /\ (raced \/ KeptBy(db, meant)) BY DEF EditInv
<1>3. Inboxes'
  <2>1. PICK fr : fr = IF Fails(r) THEN <<Warn(id, "failed")>> ELSE Answer(r, id) OBVIOUS
  <2>2. GoodFrames(fr) BY <1>2, <2>1, WarnGood, AnswerGood
  <2>3. inbox' = Sent(fr) BY <1>1, <2>1
  <2> QED BY <1>2, <2>2, <2>3, SentGood
<1>4. (raced \/ Outdated(r) => raced') /\ (raced' => raced \/ Outdated(r)) BY <1>1, RacedGrows
<1>5. CASE Fails(r)
  <2>1. db' = db /\ meant' = meant BY <1>1, <1>5
  <2> QED BY <1>2, <1>3, <1>4, <2>1
<1>6. CASE ~Fails(r)
  <2>1. PICK d, m : d = Stored(db, r) /\ m = Meant(r) OBVIOUS
  <2>2. db' = d /\ meant' = m BY <1>1, <1>6, <2>1
  <2>3. /\ DbShape(d) /\ MeantAll(m)
        /\ KeptBy(db, meant) /\ (r.k = "update" => r.seen = <<db.g[r.g].name, db.g[r.g].url>>) => KeptBy(d, m)
    BY <1>2, <2>1, StoreKeeps
  <2>4. ~Outdated(r) => (r.k = "update" => r.seen = <<db.g[r.g].name, db.g[r.g].url>>)
    BY <1>6 DEF Outdated
  <2> QED BY <1>2, <1>3, <1>4, <2>2, <2>3, <2>4
<1> QED BY <1>5, <1>6

LEMMA SessionStep ==
  ASSUME EditInv, NEW c, NEW r, NEW id, NEW starts, NEW up, HandleSession(c, r, id, starts, up)
  PROVE  db' = db /\ meant' = meant /\ raced' = raced /\ Inboxes'
<1>1. \E fr : inbox' = Sent(fr) /\ (fr = <<Warn(id, "failed")>> \/ fr = <<Warn(id, "tun")>> \/ fr = <<>>)
  <2> DEFINE known == r.k # "connect" \/ Exists(db, r.ref)
             joined == r.k = "connect" /\ known /\ starts
             refused == r.k = "tun" /\ r.on /\ (conn = NoRef \/ tun \/ ~up)
             fr == CASE r.k = "connect" /\ ~joined -> <<Warn(id, "failed")>>
                     [] refused \/ (joined /\ tun /\ ~up) -> <<Warn(id, "tun")>>
                     [] OTHER -> <<>>
  <2>1. inbox' = Sent(fr) BY Zenon DEF HandleSession
  <2> HIDE DEF joined, refused
  <2>2. fr = <<Warn(id, "failed")>> \/ fr = <<Warn(id, "tun")>> \/ fr = <<>> OBVIOUS
  <2> HIDE DEF fr
  <2> QED BY <2>1, <2>2
<1>2. PICK fr : inbox' = Sent(fr) /\ (fr = <<Warn(id, "failed")>> \/ fr = <<Warn(id, "tun")>> \/ fr = <<>>)
  BY <1>1
<1>3. GoodFrames(fr) BY <1>2, WarnGood, NoFrames
<1>4. Inboxes BY DEF EditInv
<1>5. Inboxes' BY <1>2, <1>3, <1>4, SentGood
<1>6. db' = db /\ meant' = meant /\ raced' = raced BY DEF HandleSession
<1> QED BY <1>5, <1>6

LEMMA RequestStep == ASSUME EditInv, NEW c \in Clients, HandleRequest(c) PROVE EditInv'
<1> DEFINE m == Head(toCore[c])
<1>1. /\ toCore[c] # <<>> /\ toCore' = [toCore EXCEPT ![c] = Tail(@)]
      /\ cli' = cli
      /\ \/ HandleStore(c, m.r, m.id)
         \/ \E starts, up \in BOOLEAN : HandleSession(c, m.r, m.id, starts, up)
  BY DEF HandleRequest
<1>2. GoodQueue(Tail(toCore[c])) /\ GoodReq(m.r) BY <1>1, RestQueue DEF EditInv, Queues
<1>3. Queues' BY <1>1, <1>2 DEF EditInv, Queues
<1>4. Processes' BY <1>1 DEF EditInv, Processes
<1>5. PICK r, id : r = m.r /\ id = m.id OBVIOUS
<1>6. CASE HandleStore(c, m.r, m.id)
  <2>1. HandleStore(c, r, id) /\ GoodReq(r) BY <1>2, <1>5, <1>6
  <2>2. DbShape(db') /\ MeantAll(meant') /\ Inboxes' /\ (raced' \/ KeptBy(db', meant')) BY <2>1, StoreStep
  <2> QED BY <1>3, <1>4, <2>2 DEF EditInv
<1>7. ASSUME NEW starts \in BOOLEAN, NEW up \in BOOLEAN, HandleSession(c, m.r, m.id, starts, up)
      PROVE  EditInv'
  <2>1. HandleSession(c, r, id, starts, up) BY <1>5, <1>7
  <2>2. db' = db /\ meant' = meant /\ raced' = raced /\ Inboxes' BY <2>1, SessionStep
  <2> QED BY <1>3, <1>4, <2>2 DEF EditInv
<1> QED BY <1>1, <1>6, <1>7

LEMMA RefreshStep == ASSUME EditInv, NEW j, NEW ok \in BOOLEAN, RefreshDone(j, ok) PROVE EditInv'
<1> DEFINE gr == db.g[j.g]
           fine == ok /\ j.g \in Of(db) /\ gr.url # "none"
           merged == [gr EXCEPT !.name = IF @ \in {"", gr.sub} THEN "title" ELSE @, !.sub = "title",
                                !.ps = IF @ = <<>> THEN <<gr.last + 1>> ELSE <<@[1]>>,
                                !.last = IF gr.ps = <<>> THEN @ + 1 ELSE @]
           f == IF fine THEN Frame("subscription", j.id) ELSE Warn(j.id, "failed")
<1>1. /\ db' = IF fine THEN [db EXCEPT !.g[j.g] = merged] ELSE db
      /\ inbox' = Sent(<<f>>)
      /\ toCore' = toCore /\ cli' = cli /\ meant' = meant /\ raced' = raced
  BY Zenon DEF RefreshDone
<1> HIDE DEF fine
<1>2. f.k # "state" BY DEF Frame, Warn
<1>3. Inboxes' 
  <2> HIDE DEF f
  <2> QED BY <1>1, <1>2, PlainFrame, SentGood DEF EditInv
<1>4. Queues' /\ Processes' BY <1>1 DEF EditInv, Queues, Processes
<1>5. PICK v : v = merged OBVIOUS
<1>6. ASSUME j.g \in Gids PROVE GroupShape(v) /\ v.url = gr.url /\ (gr.name \notin GivenNames => v.name = gr.name)
  <2>1. PICK g0 : g0 = gr OBVIOUS
  <2>2. GroupShape(g0) BY <1>6, <2>1 DEF EditInv, DbShape
  <2>3. PICK ps, n, name : /\ ps = (IF g0.ps = <<>> THEN <<g0.last + 1>> ELSE <<g0.ps[1]>>)
                           /\ n = (IF g0.ps = <<>> THEN g0.last + 1 ELSE g0.last)
                           /\ name = (IF g0.name \in {"", g0.sub} THEN "title" ELSE g0.name)
    OBVIOUS
  <2>4. v = [g0 EXCEPT !.name = name, !.sub = "title", !.ps = ps, !.last = n] BY <1>5, <2>1, <2>3, Zenon
  <2>5. v.url = g0.url /\ v.name = name /\ v.sub = "title" BY <2>2, <2>4 DEF GroupShape
  <2>6. GroupShape(v) BY <2>2, <2>4 DEF GroupShape, GivenNames
  <2>7. g0.name \notin GivenNames => name = g0.name BY <2>2, <2>3 DEF GroupShape, GivenNames
  <2> QED BY <2>1, <2>5, <2>6, <2>7
<1> HIDE DEF gr, merged, f
<1>7. CASE ~fine
  <2>1. db' = db BY <1>1, <1>7
  <2> QED BY <1>1, <1>3, <1>4, <2>1 DEF EditInv
<1>8. CASE fine
  <2>1. PICK d : d = SetGroup(db, j.g, v) OBVIOUS
  <2>2. db' = d BY <1>1, <1>5, <1>8, <2>1 DEF SetGroup
  <2>3. DbShape(d) /\ \A x \in Gids : d.g[x] = IF x = j.g THEN v ELSE db.g[x]
    BY <1>6, <2>1, GroupSet DEF EditInv
  <2>4. ASSUME KeptBy(db, meant), NEW x \in Gids PROVE Keeps(d.g[x], meant[x])
    <3>1. Keeps(db.g[x], meant[x]) BY <2>4 DEF KeptBy
    <3>2. meant[x].name \in UserNames BY DEF EditInv, MeantAll, MeantShape
    <3>3. CASE x = j.g
      <4>1. v.url = db.g[x].url /\ (db.g[x].name \notin GivenNames => v.name = db.g[x].name) BY <1>6, <3>3 DEF gr
      <4>2. meant[x].name = "" \/ meant[x].name \notin GivenNames BY <3>2 DEF UserNames, GivenNames
      <4> QED BY <2>3, <3>1, <3>3, <4>1, <4>2 DEF Keeps
    <3>4. CASE x # j.g BY <2>3, <3>1, <3>4
    <3> QED BY <3>3, <3>4
  <2>5. KeptBy(db, meant) => KeptBy(d, meant) BY <2>4 DEF KeptBy
  <2> QED BY <1>1, <1>3, <1>4, <2>2, <2>3, <2>5 DEF EditInv
<1> QED BY <1>7, <1>8

LEMMA BroadcastStep == ASSUME EditInv, BroadcastStatus \/ Drop PROVE EditInv'
<1>1. db' = db /\ meant' = meant /\ raced' = raced /\ toCore' = toCore /\ cli' = cli
  BY DEF BroadcastStatus, Drop, history
<1>2. Inboxes BY DEF EditInv
<1>3. Inboxes'
  <2>1. CASE inbox' = Sent(<<[k |-> "status", ref |-> Head(posted.status)]>>)
    <3>1. PICK f : f = [k |-> "status", ref |-> Head(posted.status)] OBVIOUS
    <3>2. f.k # "state" /\ inbox' = Sent(<<f>>) BY <2>1, <3>1
    <3> QED BY <1>2, <3>2, PlainFrame, SentGood
  <2>2. CASE inbox' = Sent(<<[k |-> "tunstatus", on |-> Head(posted.tun)]>>)
    <3>1. PICK f : f = [k |-> "tunstatus", on |-> Head(posted.tun)] OBVIOUS
    <3>2. f.k # "state" /\ inbox' = Sent(<<f>>) BY <2>2, <3>1
    <3> QED BY <1>2, <3>2, PlainFrame, SentGood
  <2>3. CASE inbox' = Sent(<<Warn(NoId, "exited")>>)
    <3>1. GoodFrames(<<Warn(NoId, "exited")>>) BY WarnGood
    <3> QED BY <1>2, <2>3, <3>1, SentGood
  <2> QED BY <2>1, <2>2, <2>3 DEF BroadcastStatus, Drop
<1> QED BY <1>1, <1>3 DEF EditInv, Queues, Processes

\* Every plan is made of requests that change one field.
LEMMA PlansGood ==
  ASSUME NEW s, Listed(s.db.order), NEW cfg, NEW cmd, GoodCmd(cmd), NEW p, p = Plan(s, cfg, cmd) PROVE GoodPlan(p)
<1>1. CASE cmd.k = "connect"
  <2>1. p = ConnectPlan(s, cfg, cmd) BY <1>1 DEF Plan
  <2>2. PICK hits : hits = SelectTarget(s.db, cfg, cmd) OBVIOUS
  <2>3. PICK r, a : r = [k |-> "connect", ref |-> The(hits)] /\ a = Maybe(cmd.wait, [k |-> "up", ref |-> The(hits)]) OBVIOUS
  <2>4. p = Usage \/ p = <<Stage(r, a)>> BY <2>1, <2>2, <2>3 DEF ConnectPlan
  <2>5. GoodReq(r) BY <2>3, PlainGood
  <2> QED BY <2>4, <2>5, UsagePlan, StageGood
<1>2. CASE cmd.k = "disconnect"
  <2>1. p = DisconnectPlan(s, cmd) BY <1>2 DEF Plan
  <2>2. PICK r, a : r = [k |-> "disconnect"] /\ a = Maybe(cmd.wait, [k |-> "down"]) OBVIOUS
  <2>3. p = <<>> \/ p = <<Stage(r, a)>> BY <2>1, <2>2 DEF DisconnectPlan
  <2>4. GoodReq(r) BY <2>2, PlainGood
  <2> QED BY <2>3, <2>4, NoPlan, StageGood
<1>3. CASE cmd.k = "mode"
  <2>1. p = ModePlan(s, cmd) BY <1>3 DEF Plan
  <2>2. PICK want : want = IF cmd.to = "toggle" THEN ~s.tun ELSE cmd.to = "tun" OBVIOUS
  <2>3. PICK r : r = [k |-> "tun", on |-> want] OBVIOUS
  <2>4. p = <<>> \/ p = <<Stage(r, r)>> BY <2>1, <2>2, <2>3, Zenon DEF ModePlan
  <2>5. GoodReq(r) BY <2>3, PlainGood
  <2> QED BY <2>4, <2>5, NoPlan, StageGood
<1>4. CASE cmd.k = "padd"
  <2>1. p = AddPlan(s, cmd) BY <1>4 DEF Plan
  <2>2. PICK hits : hits = ExactGroup(s.db, cmd.sel) OBVIOUS
  <2>3. PICK name : name = IF cmd.sel.by = "id" THEN "digits" ELSE cmd.sel.name OBVIOUS
  <2>4. PICK ra, r0, rg : /\ ra = [k |-> "add", g |-> hits[1]] /\ r0 = [k |-> "add", g |-> 0]
                          /\ rg = [k |-> "addgroup", name |-> name, url |-> "none"]
    OBVIOUS
  <2>5. \/ p = <<Stage(ra, Reply("add", 1, FALSE))>>
        \/ p = Usage
        \/ p = Request(rg, "addgroup") \o <<Stage(r0, Reply("add", 1, FALSE))>>
    BY <2>1, <2>2, <2>3, <2>4, Zenon DEF AddPlan
  <2>6. GoodReq(ra) /\ GoodReq(r0) BY <2>4 DEF GoodReq
  <2>7. name \in UserNames BY <1>4, <2>3 DEF GoodCmd, UserNames
  <2>8. GoodReq(rg) BY <2>4, <2>7 DEF GoodReq
  <2>9. PICK a : a = Reply("add", 1, FALSE) OBVIOUS
  <2>10. GoodPlan(<<Stage(ra, a)>>) /\ GoodPlan(<<Stage(r0, a)>>) BY <2>6, StageGood
  <2>11. GoodPlan(Request(rg, "addgroup") \o <<Stage(r0, a)>>) BY <2>8, <2>10, RequestGood, MorePlan
  <2> QED BY <2>5, <2>9, <2>10, <2>11, UsagePlan
<1>5. CASE cmd.k = "prm"
  <2>1. p = RemovePlan(s, cmd) BY <1>5 DEF Plan
  <2>2. PICK refs : refs = UNION ToSet([i \in DOMAIN cmd.sels |-> ProfileHits(s.db, cmd.sels[i])]) OBVIOUS
  <2>3. PICK r, a : r = [k |-> "delete", refs |-> refs] /\ a = Reply("delete", Cardinality(refs), FALSE) OBVIOUS
  <2>4. p = Usage \/ p = <<Stage(r, a)>> BY <2>1, <2>2, <2>3, Zenon DEF RemovePlan
  <2>5. GoodReq(r) BY <2>3, PlainGood
  <2> QED BY <2>4, <2>5, UsagePlan, StageGood
<1>6. CASE cmd.k = "prename"
  <2>1. p = RenamePlan(s, cmd) BY <1>6 DEF Plan
  <2>2. PICK r : r = [k |-> "rename", ref |-> The(ProfileHits(s.db, cmd.sel))] OBVIOUS
  <2>3. p = Usage \/ p = Request(r, "rename") BY <2>1, <2>2 DEF RenamePlan
  <2>4. GoodReq(r) BY <2>2, PlainGood
  <2> QED BY <2>3, <2>4, UsagePlan, RequestGood
<1>7. CASE cmd.k = "pmove"
  <2>1. p = MovePlan(s, cmd) BY <1>7 DEF Plan
  <2>2. PICK r : r = [k |-> "move", ref |-> The(ProfileHits(s.db, cmd.sel)), to |-> The(GroupHits(s.db, cmd.to))] OBVIOUS
  <2>3. p = Usage \/ p = Request(r, "move") BY <2>1, <2>2, Zenon DEF MovePlan
  <2>4. GoodReq(r) BY <2>2, PlainGood
  <2> QED BY <2>3, <2>4, UsagePlan, RequestGood
<1>8. CASE cmd.k = "preorder"
  <2>1. p = ReorderPlan(s, cmd) BY <1>8 DEF Plan
  <2>2. PICK r : r = [k |-> "reorder", g |-> The(GroupHits(s.db, cmd.sel)), ids |-> cmd.ids] OBVIOUS
  <2>3. p = Usage \/ p = Request(r, "reorder") BY <2>1, <2>2, Zenon DEF ReorderPlan
  <2>4. GoodReq(r) BY <2>2, PlainGood
  <2> QED BY <2>3, <2>4, UsagePlan, RequestGood
<1>9. CASE cmd.k = "srm"
  <2>1. p = SubRemovePlan(s, cmd) BY <1>9 DEF Plan
  <2>2. PICK r : r = [k |-> "delgroup", g |-> The(GroupHits(s.db, cmd.sel))] OBVIOUS
  <2>3. p = Usage \/ p = Request(r, "delgroup") BY <2>1, <2>2, Zenon DEF SubRemovePlan
  <2>4. GoodReq(r) BY <2>2, PlainGood
  <2> QED BY <2>3, <2>4, UsagePlan, RequestGood
<1>10. CASE cmd.k = "sreorder"
  <2>1. p = SubReorderPlan(s, cmd) BY <1>10 DEF Plan
  <2>2. PICK r : r = [k |-> "groups", ids |-> MovedTo(s.db.order, The(GroupHits(s.db, cmd.sel)), cmd.pos)] OBVIOUS
  <2>3. p = Usage \/ p = Request(r, "groups") BY <2>1, <2>2, Zenon DEF SubReorderPlan
  <2>4. GoodReq(r) BY <2>2, PlainGood
  <2> QED BY <2>3, <2>4, UsagePlan, RequestGood
<1>11. CASE cmd.k = "srefresh"
  <2>1. p = RefreshPlan(s, cfg, cmd) BY <1>11 DEF Plan
  <2>2. PICK targets : targets = RefreshTargets(s, cfg, cmd) OBVIOUS
  <2>3. Listed(targets)
    <3>1. \A x : Listed(<<x>>)
      <4> TAKE x
      <4>1. PICK S : S = {x} OBVIOUS
      <4>2. <<x>> \in Seq(S) BY <4>1
      <4> QED BY <4>2, ListIntro
    <3>2. Listed(<<>>)
      <4>1. PICK S : S = {0} OBVIOUS
      <4>2. <<>> \in Seq(S) BY <4>1
      <4> QED BY <4>2, ListIntro
    <3>3. CASE cmd.sel.by = "all" BY <2>2, <3>3 DEF RefreshTargets
    <3>4. CASE cmd.sel.by \notin {"all", "none"}
      <4>1. PICK x : x = The(GroupHits(s.db, cmd.sel)) OBVIOUS
      <4>2. targets = <<x>> \/ targets = <<>> BY <2>2, <3>4, <4>1 DEF RefreshTargets
      <4> QED BY <3>1, <3>2, <4>2
    <3>5. CASE cmd.sel.by = "none"
      <4>1. PICK x : x = (IF s.conn # NoRef THEN s.conn ELSE cfg)[1] OBVIOUS
      <4>2. targets = <<x>> \/ targets = <<>> BY <2>2, <3>5, <4>1, Zenon DEF RefreshTargets
      <4> QED BY <3>1, <3>2, <4>2
    <3> QED BY <3>3, <3>4, <3>5
  <2>4. PICK T : targets \in Seq(T) BY <2>3 DEF Listed
  <2> DEFINE ask(i) == [k |-> "refresh", g |-> targets[i]]
             asks == [i \in DOMAIN targets |-> ask(i)]
             each == [i \in DOMAIN targets |-> Stage(ask(i), Reply("subscription", 0, FALSE))]
             all == [send |-> asks, await |-> NoAwait]
  <2>5. p = Usage \/ p = each \/ p = <<all>> BY <2>1, <2>2, Zenon DEF RefreshPlan
  <2>6. Len(targets) \in Nat /\ DOMAIN targets = 1..Len(targets) BY <2>4
  <2>7. \A i : GoodReq(ask(i)) BY DEF GoodReq
  <2>8. GoodPlan(each)
    <3> DEFINE st(i) == Stage(ask(i), Reply("subscription", 0, FALSE))
               S == {st(i) : i \in DOMAIN targets}
    <3>1. each = [i \in 1..Len(targets) |-> st(i)] BY <2>6
    <3>2. \A i \in 1..Len(targets) : st(i) \in S BY <2>6
    <3>3. \A x \in S : GoodSends(x.send)
      <4> SUFFICES ASSUME NEW i \in DOMAIN targets PROVE GoodSends(st(i).send) OBVIOUS
      <4>1. PICK r : r = ask(i) OBVIOUS
      <4>2. GoodReq(r) BY <2>7, <4>1
      <4>3. st(i).send = <<r>> BY <4>1 DEF Stage
      <4>4. PICK R : R = {r} OBVIOUS
      <4>5. <<r>> \in Seq(R) /\ \A x \in R : GoodReq(x) BY <4>2, <4>4
      <4>6. GoodSends(<<r>>) BY <4>5, SendsIntro
      <4> QED BY <4>3, <4>6
    <3> HIDE DEF st, S, each
    <3>4. each \in Seq(S) BY <2>6, <3>1, <3>2
    <3> QED BY <3>3, <3>4, PlanIntro
  <2>9. GoodPlan(<<all>>)
    <3>1. GoodSends(asks)
      <4> DEFINE S == {ask(i) : i \in DOMAIN targets}
      <4>1. asks = [i \in 1..Len(targets) |-> ask(i)] BY <2>6
      <4>2. \A i \in 1..Len(targets) : ask(i) \in S BY <2>6
      <4>3. \A x \in S : GoodReq(x) BY <2>7
      <4> HIDE DEF ask, S, asks
      <4>4. asks \in Seq(S) BY <2>6, <4>1, <4>2
      <4> QED BY <4>3, <4>4, SendsIntro
    <3> HIDE DEF asks
    <3>2. GoodSends(all.send) BY <3>1
    <3> HIDE DEF all
    <3> QED BY <3>2, OneStage
  <2> QED BY <2>5, <2>8, <2>9, UsagePlan
<1>12. CASE cmd.k \in {"srename", "surl", "sauto"}
  <2>1. p = UpdatePlan(s, cmd) BY <1>12 DEF Plan
  <2>2. PICK hits, g, name, url : /\ hits = GroupHits(s.db, cmd.sel) /\ g = The(hits)
                                  /\ name = s.db.g[g].name /\ url = s.db.g[g].url
    OBVIOUS
  <2>3. PICK r1, r2, r3 : /\ r1 = Update(s.db, g, "name", cmd.name, url, "keep")
                          /\ r2 = Update(s.db, g, "url", name, cmd.url, "keep")
                          /\ r3 = Update(s.db, g, "auto", name, url, cmd.to)
    OBVIOUS
  <2>4. p = Usage \/ p = Request(CASE cmd.k = "srename" -> r1 [] cmd.k = "surl" -> r2 [] OTHER -> r3, "update")
    BY <2>1, <2>2, <2>3, Zenon DEF UpdatePlan
  <2>5. PICK r : r = CASE cmd.k = "srename" -> r1 [] cmd.k = "surl" -> r2 [] OTHER -> r3 OBVIOUS
  <2>6. p = Usage \/ p = Request(r, "update") BY <2>4, <2>5
  <2>7. \/ cmd.k = "srename" /\ r = r1
        \/ cmd.k = "surl" /\ r = r2
        \/ r = r3
    BY <2>5
  <2>8. /\ r1.k = "update" /\ r1.of = "name" /\ r1.name = cmd.name /\ r1.url = url /\ r1.seen = <<name, url>>
        /\ r2.k = "update" /\ r2.of = "url" /\ r2.name = name /\ r2.url = cmd.url /\ r2.seen = <<name, url>>
        /\ r3.k = "update" /\ r3.of = "auto" /\ r3.name = name /\ r3.url = url /\ r3.seen = <<name, url>>
    BY <2>2, <2>3 DEF Update
  <2>9. GoodReq(r)
    <3>1. CASE cmd.k = "srename" /\ r = r1
      <4>1. cmd.name \in UserNames BY <3>1 DEF GoodCmd
      <4> QED BY <2>8, <3>1, <4>1 DEF GoodReq
    <3>2. CASE cmd.k = "surl" /\ r = r2
      <4>1. cmd.url = "u2" BY <3>2 DEF GoodCmd
      <4> QED BY <2>8, <3>2, <4>1 DEF GoodReq
    <3>3. CASE r = r3 BY <2>8, <3>3 DEF GoodReq
    <3> QED BY <2>7, <3>1, <3>2, <3>3
  <2> QED BY <2>6, <2>9, UsagePlan, RequestGood
<1>13. CASE cmd.k \notin {"connect", "disconnect", "mode", "padd", "prm", "prename", "pmove", "preorder",
                          "srm", "srefresh", "sreorder", "srename", "surl", "sauto"}
  <2>1. p = <<>> BY <1>13 DEF Plan
  <2> QED BY <2>1, NoPlan
<1> QED
  BY <1>1, <1>2, <1>3, <1>4, <1>5, <1>6, <1>7, <1>8, <1>9, <1>10, <1>11, <1>12, <1>13

\* What a process does.
LEMMA ProcessSet == ASSUME Processes, NEW c \in Clients, NEW q, Process(q), cli' = [cli EXCEPT ![c] = q] PROVE Processes'
  BY DEF Processes

LEMMA InboxSet == ASSUME Inboxes, NEW c \in Clients, NEW q, GoodFrames(q), inbox' = [inbox EXCEPT ![c] = q] PROVE Inboxes'
  BY DEF Inboxes

LEMMA QueueSet == ASSUME Queues, NEW c \in Clients, NEW q, GoodQueue(q), toCore' = [toCore EXCEPT ![c] = q] PROVE Queues'
  BY DEF Queues

LEMMA DoneKeeps ==
  ASSUME Queues, Inboxes, Processes, NEW c \in Clients, NEW out, Done(c, out) PROVE Queues' /\ Inboxes' /\ Processes'
<1>1. PICK q : q = [cli[c] EXCEPT !.pc = "done", !.out = out, !.todo = <<>>] OBVIOUS
<1>2. cli' = [cli EXCEPT ![c] = q] BY <1>1 DEF Done
<1>3. PICK e : e = <<>> OBVIOUS
<1>4. GoodPlan(e) BY <1>3, NoPlan
<1>5. Process(q)
  <2>1. PICK p : p = cli[c] OBVIOUS
  <2>2. Process(p) BY <2>1 DEF Processes
  <2>3. q = [p EXCEPT !.pc = "done", !.out = out, !.todo = e] BY <1>1, <1>3, <2>1
  <2> QED BY <1>4, <2>2, <2>3 DEF Process
<1>6. Processes' BY <1>2, <1>5, ProcessSet
<1>7. inbox' = [inbox EXCEPT ![c] = <<>>] /\ toCore' = toCore BY DEF Done
<1>8. Inboxes' BY <1>7, NoFrames, InboxSet
<1> QED BY <1>6, <1>7, <1>8 DEF Queues

LEMMA SkipKeeps ==
  ASSUME Queues, Inboxes, Processes, NEW c \in Clients, inbox[c] # <<>>, Skip(c) PROVE Queues' /\ Inboxes' /\ Processes'
<1>1. GoodFrames(Tail(inbox[c])) BY FewerFrames DEF Inboxes
<1>2. inbox' = [inbox EXCEPT ![c] = Tail(inbox[c])] /\ toCore' = toCore /\ cli' = cli BY DEF Skip
<1>3. Inboxes' BY <1>1, <1>2, InboxSet
<1> QED BY <1>2, <1>3 DEF Queues, Processes

\* The requests of a stage join the queue; only the group of an added profile is filled in.
LEMMA EnterKeeps ==
  ASSUME Queues, Inboxes, Processes, NEW c \in Clients, inbox[c] # <<>>,
         NEW p, Process(p), NEW stages, GoodPlan(stages), NEW got, Enter(c, p, stages, got)
  PROVE  Queues' /\ Inboxes' /\ Processes'
<1>1. CASE stages = <<>>
  <2>1. Done(c, "ok") BY <1>1 DEF Enter
  <2> QED BY <2>1, DoneKeeps
<1>2. CASE stages # <<>>
  <2> DEFINE st == Head(stages)
             rq(i) == IF st.send[i].k = "add" /\ st.send[i].g = 0
                      THEN [st.send[i] EXCEPT !.g = got] ELSE st.send[i]
             rs == [i \in DOMAIN st.send |-> [r |-> rq(i), id |-> <<c, p.n + i>>]]
             over == st.await.k \in {"none", "usage"}
             out == CASE st.await.k = "usage" -> "usage" [] st.await.k = "none" -> "ok" [] OTHER -> p.out
             todo == IF over THEN <<>> ELSE stages
             pc == IF over THEN "done" ELSE "wait"
             n == p.n + Len(rs)
             q == [p EXCEPT !.pc = pc, !.n = n, !.got = got, !.todo = todo, !.out = out]
             ib == IF over THEN <<>> ELSE Tail(inbox[c])
  <2>1. /\ toCore' = [toCore EXCEPT ![c] = toCore[c] \o rs]
        /\ cli' = [cli EXCEPT ![c] = q]
        /\ inbox' = [inbox EXCEPT ![c] = ib]
    BY <1>2, Zenon DEF Enter
  <2>2. GoodSends(st.send) BY <1>2, RestPlan
  <2>3. GoodQueue(rs)
    <3> HIDE DEF st
    <3>1. PICK S : st.send \in Seq(S) /\ \A r \in S : GoodReq(r) BY <2>2 DEF GoodSends
    <3>2. Len(st.send) \in Nat /\ DOMAIN st.send = 1..Len(st.send) /\ \A i \in 1..Len(st.send) : st.send[i] \in S
      BY <3>1
    <3>3. ASSUME NEW i \in 1..Len(st.send) PROVE GoodReq(rq(i))
      <4>1. PICK r : r = st.send[i] OBVIOUS
      <4>2. GoodReq(r) BY <3>1, <3>2, <4>1
      <4>3. CASE r.k = "add" /\ r.g = 0
        <5>1. r = [k |-> "add", g |-> r.g] BY <4>2, <4>3 DEF GoodReq
        <5>2. rq(i) = [k |-> "add", g |-> got] BY <4>1, <4>3, <5>1
        <5> QED BY <5>2 DEF GoodReq
      <4>4. CASE ~(r.k = "add" /\ r.g = 0) BY <4>1, <4>2, <4>4
      <4> QED BY <4>3, <4>4
    <3> DEFINE M == {rs[i] : i \in 1..Len(st.send)}
    <3>4. \A m \in M : GoodReq(m.r)
      <4> SUFFICES ASSUME NEW i \in 1..Len(st.send) PROVE GoodReq(rs[i].r) OBVIOUS
      <4>1. GoodReq(rq(i)) BY <3>3
      <4> HIDE DEF rq
      <4>2. rs[i].r = rq(i) BY <3>2
      <4> QED BY <4>1, <4>2
    <3>5. rs = [i \in 1..Len(st.send) |-> rs[i]] BY <3>2
    <3>6. \A i \in 1..Len(st.send) : rs[i] \in M OBVIOUS
    <3> HIDE DEF rs, M
    <3>7. rs \in Seq(M) BY <3>2, <3>5, <3>6
    <3> QED BY <3>4, <3>7, QueueIntro
  <2>4. Queues'
    <3> HIDE DEF rs
    <3>1. GoodQueue(toCore[c] \o rs) BY <2>3, MoreQueue DEF Queues
    <3> QED BY <2>1, <3>1, QueueSet
  <2>5. Inboxes'
    <3>1. GoodFrames(ib) BY NoFrames, FewerFrames DEF Inboxes
    <3> HIDE DEF ib
    <3> QED BY <2>1, <3>1, InboxSet
  <2>6. Processes'
    <3>1. GoodPlan(todo) BY NoPlan
    <3> HIDE DEF todo, pc, n, out
    <3>2. Process(q)
      <4>1. PICK v1, v2, v3, v4 : v1 = pc /\ v2 = n /\ v3 = todo /\ v4 = out OBVIOUS
      <4>2. PICK v : v = [p EXCEPT !.pc = v1, !.n = v2, !.got = got, !.todo = v3, !.out = v4] OBVIOUS
      <4>3. GoodPlan(v3) BY <3>1, <4>1
      <4>4. v1 = "wait" => v3 # <<>> BY <1>2, <4>1 DEF pc, todo
      <4>5. Process(v) BY <4>2, <4>3, <4>4 DEF Process
      <4>6. q = v BY <4>1, <4>2
      <4> QED BY <4>5, <4>6
    <3> HIDE DEF q
    <3> QED BY <2>1, <3>2, ProcessSet
  <2> QED BY <2>4, <2>5, <2>6
<1> QED BY <1>1, <1>2

LEMMA IdleGood == Process(Idle)
<1>1. PICK a, b, nr, e, z : a = "idle" /\ b = [k |-> "none"] /\ nr = NoRef /\ e = <<>> /\ z = 0 OBVIOUS
<1>2. PICK o : o = "none" OBVIOUS
<1>3. PICK i : i = [pc |-> a, n |-> z, cmd |-> b, cfg |-> nr, todo |-> e, got |-> z, out |-> o] OBVIOUS
<1>4. Idle = i BY <1>1, <1>2, <1>3 DEF Idle
<1>5. GoodCmd(b) BY <1>1 DEF GoodCmd
<1>6. GoodPlan(e) BY <1>1, NoPlan
<1>7. a # "wait" BY <1>1
<1>8. Process(i) BY <1>3, <1>5, <1>6, <1>7 DEF Process
<1> QED BY <1>4, <1>8

LEMMA ProcessStart ==
  ASSUME NEW p, Process(p), NEW pc, pc # "wait", NEW cmd, GoodCmd(cmd), NEW cfg,
         NEW q, q = [p EXCEPT !.pc = pc, !.cmd = cmd, !.cfg = cfg]
  PROVE  Process(q)
  BY DEF Process

LEMMA ProcessWaits ==
  ASSUME NEW p, Process(p), NEW pc, NEW n, NEW todo, GoodPlan(todo), todo # <<>>,
         NEW q, q = [p EXCEPT !.pc = pc, !.n = n, !.todo = todo]
  PROVE  Process(q)
  BY DEF Process

LEMMA FirstIsFirst == ASSUME NEW S, NEW x \in S, NEW t \in Seq(S) PROVE (<<x>> \o t)[1] = x
  OBVIOUS

LEMMA NotEmpty == ASSUME NEW S, NEW x \in S, NEW t \in Seq(S) PROVE <<x>> \o t # <<>>
<1>1. Len(<<x>> \o t) = 1 + Len(t) OBVIOUS
<1>2. Len(t) \in Nat OBVIOUS
<1>3. Len(<<>>) = 0 OBVIOUS
<1> QED BY <1>1, <1>2, <1>3

LEMMA OpenKeeps == ASSUME EditInv, NEW c \in Clients, NEW cmd \in Commands(scene[c]), Open(c, cmd) PROVE EditInv'
<1> DEFINE p == [Idle EXCEPT !.pc = "state", !.cmd = cmd, !.cfg = last]
           plan == SubAddPlan(cmd)
           m1 == [r |-> plan[1].send[1], id |-> <<c, 1>>]
           m0 == [r |-> [k |-> "state"], id |-> <<c, 0>>]
           q == [p EXCEPT !.pc = "wait", !.n = 1, !.todo = plan]
<1>1. /\ db' = db /\ meant' = meant /\ raced' = raced /\ inbox' = inbox
      /\ \/ cmd.k = "sadd" /\ cli' = [cli EXCEPT ![c] = q] /\ toCore' = [toCore EXCEPT ![c] = <<m1>>]
         \/ cmd.k # "sadd" /\ cli' = [cli EXCEPT ![c] = p] /\ toCore' = [toCore EXCEPT ![c] = <<m0>>]
  BY Zenon DEF Open, history
<1>2. GoodCmd(cmd) BY CommandsGood
<1>3. Process(p)
  <2>1. PICK pc : pc = "state" OBVIOUS
  <2>2. p = [Idle EXCEPT !.pc = pc, !.cmd = cmd, !.cfg = last] BY <2>1
  <2> QED BY <1>2, <2>2, IdleGood, ProcessStart
<1>4. CASE cmd.k = "sadd"
  <2>1. PICK r : r = [k |-> "addgroup", name |-> cmd.name, url |-> cmd.url] OBVIOUS
  <2>2. cmd.name \in UserNames BY <1>2, <1>4 DEF GoodCmd
  <2>3. GoodReq(r) BY <2>1, <2>2 DEF GoodReq
  <2>4. PICK a, st1, st2 : /\ a = Reply("addgroup", 0, FALSE) /\ st1 = Stage(r, a)
                           /\ st2 = [send |-> <<>>, await |-> Reply("subscription", 0, TRUE)]
    OBVIOUS
  <2>5. plan = <<st1>> \o <<st2>> \/ plan = <<st1>> \o <<>>
    BY <2>1, <2>4, Zenon DEF SubAddPlan, Request
  <2>6. GoodPlan(<<st1>>) BY <2>3, <2>4, StageGood
  <2>7. GoodPlan(<<st2>>)
    <3>1. GoodSends(st2.send) BY <2>4, NoSends
    <3> QED BY <3>1, OneStage
  <2>8. GoodPlan(plan) BY <2>5, <2>6, <2>7, NoPlan, MorePlan
  <2> HIDE DEF plan
  <2>9. plan[1] = st1
    <3> HIDE DEF m1, q
    <3>1. PICK S : S = {st1, st2} OBVIOUS
    <3>2. <<>> \in Seq(S) /\ <<st2>> \in Seq(S) /\ st1 \in S BY <3>1
    <3> QED BY <2>5, <3>2, FirstIsFirst
  <2>10. st1.send = <<r>> BY <2>4 DEF Stage
  <2>11. m1.r = r BY <2>9, <2>10
  <2>12. Process(q)
    <3>1. PICK pc, n : pc = "wait" /\ n = 1 OBVIOUS
    <3> HIDE DEF p
    <3>2. q = [p EXCEPT !.pc = pc, !.n = n, !.todo = plan] BY <3>1
    <3>3. plan # <<>>
      <4> HIDE DEF m1, q
      <4>1. PICK S : S = {st1, st2} OBVIOUS
      <4>2. <<>> \in Seq(S) /\ <<st2>> \in Seq(S) /\ st1 \in S BY <4>1
      <4> QED BY <2>5, <4>2, NotEmpty
    <3> QED BY <1>3, <2>8, <3>2, <3>3, ProcessWaits
  <2> HIDE DEF m1, q
  <2>13. GoodQueue(<<m1>>) BY <2>3, <2>11, OneQueue
  <2>14. Queues' BY <1>1, <1>4, <2>13, QueueSet DEF EditInv
  <2>15. Processes' BY <1>1, <1>4, <2>12, ProcessSet DEF EditInv
  <2> QED BY <1>1, <2>14, <2>15 DEF EditInv, Inboxes
<1>5. CASE cmd.k # "sadd"
  <2>1. GoodReq(m0.r) BY DEF GoodReq
  <2> HIDE DEF m0, q
  <2>2. GoodQueue(<<m0>>) BY <2>1, OneQueue
  <2> HIDE DEF p
  <2>6. Queues' BY <1>1, <1>5, <2>2, QueueSet DEF EditInv
  <2>7. Processes' BY <1>1, <1>5, <1>3, ProcessSet DEF EditInv
  <2> QED BY <1>1, <2>6, <2>7 DEF EditInv, Inboxes
<1> QED BY <1>4, <1>5

LEMMA FrameGood == ASSUME NEW a, GoodFrames(a), a # <<>>, Head(a).k = "state" PROVE Listed(Head(a).db.order)
<1>1. PICK S : a \in Seq(S) /\ \A f \in S : f.k = "state" => Listed(f.db.order)
  BY DEF GoodFrames
<1>2. Head(a) \in S BY <1>1
<1> QED BY <1>1, <1>2

LEMMA ReadStateKeeps == ASSUME EditInv, NEW c \in Clients, ReadState(c) PROVE EditInv'
<1>1. Queues /\ Inboxes /\ Processes /\ inbox[c] # <<>> BY DEF EditInv, ReadState
<1>2. db' = db /\ meant' = meant /\ raced' = raced BY DEF ReadState, history
<1>3. PICK f, p : f = Head(inbox[c]) /\ p = cli[c] OBVIOUS
<1>4. Process(p) BY <1>1, <1>3 DEF Processes
<1>5. CASE f.k # "state" \/ f.id # <<c, p.n>>
  <2>1. Skip(c) BY <1>3, <1>5 DEF ReadState
  <2>2. Queues' /\ Inboxes' /\ Processes' BY <1>1, <2>1, SkipKeeps
  <2> QED BY <1>2, <2>2 DEF EditInv
<1>6. CASE ~(f.k # "state" \/ f.id # <<c, p.n>>) /\ p.cmd.k = "toggle"
  <2> DEFINE cmd == IF f.conn # NoRef THEN [k |-> "disconnect", wait |-> p.cmd.wait] ELSE Connects(NoSel, NoSel, p.cmd.wait)
             m == [r |-> [k |-> "state"], id |-> <<c, p.n + 1>>]
             q == [p EXCEPT !.cmd = cmd, !.cfg = last, !.n = @ + 1]
  <2>1. /\ cli' = [cli EXCEPT ![c] = q]
        /\ toCore' = [toCore EXCEPT ![c] = <<m>>]
        /\ inbox' = [inbox EXCEPT ![c] = <<>>]
    BY <1>3, <1>6, Zenon DEF ReadState
  <2>2. GoodCmd(cmd)
    <3>1. cmd.k \in {"disconnect", "connect"} BY DEF Connects
    <3> HIDE DEF cmd
    <3> QED BY <3>1 DEF GoodCmd
  <2>3. GoodReq(m.r) BY DEF GoodReq
  <2>4. Process(q)
    <3>1. PICK v, n : v = cmd /\ n = p.n + 1 OBVIOUS
    <3>2. GoodCmd(v) BY <2>2, <3>1
    <3> HIDE DEF cmd
    <3>3. q = [p EXCEPT !.cmd = v, !.cfg = last, !.n = n] BY <3>1
    <3> HIDE DEF q
    <3> QED BY <1>4, <3>2, <3>3 DEF Process
  <2> HIDE DEF m, q
  <2>5. GoodQueue(<<m>>) BY <2>3, OneQueue
  <2>6. Queues' BY <1>1, <2>1, <2>5, QueueSet
  <2>7. Processes' BY <1>1, <2>1, <2>4, ProcessSet
  <2>8. Inboxes' BY <1>1, <2>1, NoFrames, InboxSet
  <2> QED BY <1>2, <2>6, <2>7, <2>8 DEF EditInv
<1>7. CASE ~(f.k # "state" \/ f.id # <<c, p.n>>) /\ p.cmd.k # "toggle"
  <2>1. PICK plan : plan = Plan(f, p.cfg, p.cmd) OBVIOUS
  <2>2. Enter(c, p, plan, 0) BY <1>3, <1>7, <2>1, Zenon DEF ReadState
  <2>3. Listed(f.db.order) BY <1>1, <1>3, <1>7, FrameGood DEF Inboxes
  <2>4. GoodPlan(plan) BY <1>4, <2>1, <2>3, PlansGood DEF Process
  <2>5. Queues' /\ Inboxes' /\ Processes' BY <1>1, <1>4, <2>2, <2>4, EnterKeeps
  <2> QED BY <1>2, <2>5 DEF EditInv
<1> QED BY <1>5, <1>6, <1>7

LEMMA ReadReplyKeeps == ASSUME EditInv, NEW c \in Clients, ReadReply(c) PROVE EditInv'
<1>1. Queues /\ Inboxes /\ Processes /\ inbox[c] # <<>> BY DEF EditInv, ReadReply
<1>2. db' = db /\ meant' = meant /\ raced' = raced BY DEF ReadReply, history
<1>3. PICK f, p : f = Head(inbox[c]) /\ p = cli[c] OBVIOUS
<1>4. Process(p) BY <1>1, <1>3 DEF Processes
<1>5. \/ Skip(c)
      \/ \E out : Done(c, out)
      \/ \E got : Enter(c, p, Tail(p.todo), got)
  BY <1>3, Zenon DEF ReadReply
<1>6. CASE Skip(c)
  <2>1. Queues' /\ Inboxes' /\ Processes' BY <1>1, <1>6, SkipKeeps
  <2> QED BY <1>2, <2>1 DEF EditInv
<1>7. ASSUME NEW out, Done(c, out) PROVE EditInv'
  <2>1. Queues' /\ Inboxes' /\ Processes' BY <1>1, <1>7, DoneKeeps
  <2> QED BY <1>2, <2>1 DEF EditInv
<1>8. ASSUME NEW got, Enter(c, p, Tail(p.todo), got) PROVE EditInv'
  <2>1. PICK plan : plan = Tail(p.todo) OBVIOUS
  <2>2. GoodPlan(plan)
    <3>1. p.todo # <<>> /\ GoodPlan(p.todo) BY <1>3, <1>4 DEF ReadReply, Process
    <3> QED BY <2>1, <3>1, RestPlan
  <2>3. Enter(c, p, plan, got) BY <1>8, <2>1
  <2>4. Queues' /\ Inboxes' /\ Processes' BY <1>1, <1>4, <2>2, <2>3, EnterKeeps
  <2> QED BY <1>2, <2>4 DEF EditInv
<1> QED BY <1>5, <1>6, <1>7, <1>8

LEMMA TimeoutKeeps == ASSUME EditInv, NEW c \in Clients, Timeout(c) PROVE EditInv'
<1>1. Done(c, "timeout") /\ db' = db /\ meant' = meant /\ raced' = raced BY DEF Timeout, history
<1>2. Queues' /\ Inboxes' /\ Processes' BY <1>1, DoneKeeps DEF EditInv
<1> QED BY <1>1, <1>2 DEF EditInv

LEMMA InitEdits == CliInit => EditInv
<1> SUFFICES ASSUME CliInit PROVE EditInv OBVIOUS
<1>1. PICK e : e = <<>> OBVIOUS
<1>2. GoodPlan(e) /\ GoodFrames(e) BY <1>1, NoPlan, NoFrames
<1>3. GoodQueue(e)
  <2>1. PICK S : S = {} OBVIOUS
  <2>2. e \in Seq(S) /\ \A x : x \notin S BY <1>1, <2>1
  <2> QED BY <2>2, QueueIntro
<1>4. Queues
  <2>1. toCore = [c \in Clients |-> e] BY <1>1 DEF CliInit
  <2> QED BY <1>3, <2>1 DEF Queues
<1>5. Inboxes
  <2>1. inbox = [c \in Clients |-> e] BY <1>1 DEF CliInit
  <2> QED BY <1>2, <2>1 DEF Inboxes
<1>6. Processes
  <2>1. cli = [c \in Clients |-> Idle] BY DEF CliInit
  <2> QED BY <2>1, IdleGood DEF Processes
<1>7. DbShape(db)
  <2> DEFINE gr(i) == CASE i = 1 -> Group("title", "title", "u1", <<1, 2>>)
                        [] i = 2 -> Group("mine", "", "none", <<1>>)
                        [] OTHER -> Group("", "", "none", <<>>)
  <2>1. PICK o, l, h : o = <<1, 2>> /\ l = 2 /\ h = [i \in Gids |-> gr(i)] OBVIOUS
  <2>2. db = [order |-> o, last |-> l, g |-> h] BY <2>1, Zenon DEF CliInit
  <2>3. Listed(o)
    <3>1. PICK q : q = <<1, 2>> OBVIOUS
    <3>2. q \in Seq(Nat) BY <3>1
    <3>3. Listed(q) BY <3>2, ListIntro
    <3> QED BY <2>1, <3>1, <3>3
  <2>4. \A name, sub, url, ps : sub \in GivenNames => GroupShape(Group(name, sub, url, ps))
    <3> TAKE name, sub, url, ps
    <3> HAVE sub \in GivenNames
    <3>1. PICK l1, a1 : l1 = Len(ps) /\ a1 = TRUE OBVIOUS
    <3>2. PICK v : v = [name |-> name, sub |-> sub, url |-> url, auto |-> a1, ps |-> ps, last |-> l1] OBVIOUS
    <3>3. Group(name, sub, url, ps) = v BY <3>1, <3>2, Zenon DEF Group
    <3>4. GroupShape(v) BY <3>2 DEF GroupShape
    <3> QED BY <3>3, <3>4
  <2>5. \A i : GroupShape(gr(i))
    <3> TAKE i
    <3>1. "title" \in GivenNames /\ "" \in GivenNames BY DEF GivenNames
    <3> QED BY <2>4, <3>1
  <2> HIDE DEF gr
  <2> QED BY <2>1, <2>2, <2>3, <2>5 DEF DbShape
<1>8. meant = [g \in Gids |-> [name |-> "", url |-> db.g[g].url]] BY DEF CliInit
<1>9. MeantAll(meant) BY <1>8 DEF MeantAll, MeantShape, UserNames
<1>10. KeptBy(db, meant) BY <1>8 DEF KeptBy, Keeps
<1> QED BY <1>4, <1>5, <1>6, <1>7, <1>9, <1>10 DEF EditInv

LEMMA StepEdits == EditInv /\ [CliNext]_cliVars => EditInv'
<1> SUFFICES ASSUME EditInv, [CliNext]_cliVars PROVE EditInv' OBVIOUS
<1>1. ASSUME NEW c \in Clients, HandleRequest(c) PROVE EditInv'
  BY <1>1, RequestStep
<1>2. ASSUME NEW j \in jobs, NEW ok \in BOOLEAN, RefreshDone(j, ok) PROVE EditInv'
  BY <1>2, RefreshStep
<1>3. CASE BroadcastStatus \/ Drop
  BY <1>3, BroadcastStep
<1>4. ASSUME NEW c \in Clients, NEW cmd \in Commands(scene[c]), Open(c, cmd) PROVE EditInv'
  BY <1>4, OpenKeeps
<1>5. ASSUME NEW c \in Clients, ReadState(c) PROVE EditInv'
  BY <1>5, ReadStateKeeps
<1>6. ASSUME NEW c \in Clients, ReadReply(c) PROVE EditInv'
  BY <1>6, ReadReplyKeeps
<1>7. ASSUME NEW c \in Clients, Timeout(c) PROVE EditInv'
  BY <1>7, TimeoutKeeps
<1>8. CASE UNCHANGED cliVars
  BY <1>8 DEF cliVars, EditInv, Queues, Inboxes, Processes
<1> QED
  BY <1>1, <1>2, <1>3, <1>4, <1>5, <1>6, <1>7, <1>8 DEF CliNext, CoreStep, CliStep

\* A command that changes one setting of a subscription leaves the address last asked for
\* and a name the user chose, for any processes, groups and refreshes in between, as long
\* as no update came from an outdated snapshot (cli/commands/subs.rs rename, url, auto;
\* DB.UpdateGroupConfig).
THEOREM EditsAreKept == CliSpec => []EditsKept
<1>1. EditInv => EditsKept
  BY DEF EditInv, EditsKept, KeptBy, Keeps
<1> QED
  BY <1>1, InitEdits, StepEdits, PTL DEF CliSpec

-----------------------------------------------------------------------------
(* The outcome of a command.  OwnInv follows every request from its stage  *)
(* over the queue, the handler and the refresh it may start to the first   *)
(* frame that carries its identifier.                                      *)

\* Commands whose outcome depends on answers to their requests.
Answers(cmd) == cmd.k \in Awaited \/ (cmd.k = "srefresh" /\ cmd.wait)

\* An answer to a request carries its identifier; status messages and the report that the
\* connection broke carry none.
Own(id, c) == \E k \in Nat : id = <<c, k>>
Hit(f, id) == f.k \notin {"status", "tunstatus"} /\ f.id = id /\ (f.k = "warn" => f.key # "exited")
Unheard(q, id) == \A i \in DOMAIN q : ~Hit(q[i], id)
First(q, id, f) ==
  \E i \in DOMAIN q : q[i] = f /\ Hit(f, id) /\ \A h \in DOMAIN q : h < i => ~Hit(q[h], id)
NoJobs(c) == \A j \in jobs : ~Own(j.id, c)
NoJobFor(id) == \A j \in jobs : j.id # id
Fresh(c, n) == \A k \in Nat : k > n => Unheard(inbox[c], <<c, k>>) /\ NoJobFor(<<c, k>>)
OwnQueue(q, c) == \E S : q \in Seq(S) /\ \A m \in S : Own(m.id, c)

\* What a stage asks for and what it waits for.
Kinds == {"add", "delete", "rename", "move", "reorder", "groups", "update", "delgroup", "addgroup", "refresh"}
Need(r) == CASE r.k = "delete" -> Cardinality(r.refs) [] r.k = "add" -> 1 [] OTHER -> 0
Kind(r) == IF r.k = "refresh" THEN "subscription" ELSE r.k
Asks(cmd, r, w) ==
  /\ r.k \in Kinds /\ (r.k = "refresh" <=> cmd.k = "srefresh")
  /\ w.k = "id" /\ w.expect = Kind(r) /\ w.need = Need(r) /\ w.soft = FALSE
  /\ r.k = "add" => r = [k |-> "add", g |-> r.g]
Hopes(cmd, w) == cmd.k = "sadd" /\ w.k = "id" /\ w.expect = "subscription" /\ w.need = 0 /\ w.soft = TRUE
Turns(r, w) == <<w.k, r.k>> \in {<<"up", "connect">>, <<"down", "disconnect">>, <<"tun", "tun">>}
AnswerStage(cmd, st) ==
  \/ st.send = <<>> /\ (st.await.k = "usage" \/ Hopes(cmd, st.await))
  \/ \E r : st.send = <<r>> /\ Asks(cmd, r, st.await)
OtherStage(cmd, st) ==
  \/ st.send = <<>> /\ st.await.k = "usage"
  \/ st.await.k = "none" /\ Listed(st.send)
  \/ cmd.k # "srefresh" /\ \E r : st.send = <<r>> /\ Turns(r, st.await)
Stages(cmd, s) ==
  IF Answers(cmd) THEN \E S : s \in Seq(S) /\ \A st \in S : AnswerStage(cmd, st)
  ELSE s = <<>> \/ \E st : s = <<st>> /\ OtherStage(cmd, st)

\* The requests of a process that succeeded and failed.
Tally(c, n) == did[c] = [ok |-> n, bad |-> 0]
HadFailure(c) == did[c].bad > 0
\* What the first answer says is what happened.
Right(c, w, n, f) ==
  IF f.k = "warn" THEN f.key = "failed" /\ HadFailure(c)
  ELSE f.k = w.expect /\ IF w.need > 0 /\ f.n # w.need THEN HadFailure(c) ELSE Tally(c, n)

\* A request from the queue over the refresh it may start to its answer.
Queued(c, r, n) ==
  /\ toCore[c] = <<[r |-> r, id |-> <<c, n>>]>> /\ Tally(c, n - 1)
  /\ Unheard(inbox[c], <<c, n>>) /\ NoJobFor(<<c, n>>)
  /\ cli[c].cmd.k = "srefresh" => NoJobs(c)
Working(c, n) ==
  /\ cli[c].cmd.k = "srefresh" /\ toCore[c] = <<>> /\ Tally(c, n - 1)
  /\ Unheard(inbox[c], <<c, n>>)
  /\ \E g : \A j \in jobs : Own(j.id, c) => j = [g |-> g, id |-> <<c, n>>]
Answered(c, w, n) ==
  /\ toCore[c] = <<>> /\ (cli[c].cmd.k = "srefresh" => NoJobs(c))
  /\ \E f : First(inbox[c], <<c, n>>, f) /\ Right(c, w, n, f)
Asking(c, w, n) ==
  /\ Answers(cli[c].cmd)
  /\ \E r : Asks(cli[c].cmd, r, w) /\ (Queued(c, r, n) \/ Working(c, n) \/ Answered(c, w, n))
Hoping(c, w, n) == Hopes(cli[c].cmd, w) /\ Tally(c, n) /\ toCore[c] = <<>>
\* A warning that ends the command follows a refusal.
BadNews(c, w, n) ==
  \A i \in DOMAIN inbox[c] :
    inbox[c][i].k = "warn" /\ inbox[c][i].id = <<c, n>> /\ inbox[c][i].key \in Fatal(w) => HadFailure(c)
Turning(c, w, n) ==
  /\ ~Answers(cli[c].cmd) /\ cli[c].cmd.k # "srefresh" /\ NoJobFor(<<c, n>>) /\ Tail(cli[c].todo) = <<>>
  /\ \E r : Turns(r, w)
        /\ \/ toCore[c] = <<[r |-> r, id |-> <<c, n>>]>> /\ Unheard(inbox[c], <<c, n>>)
           \/ toCore[c] = <<>> /\ BadNews(c, w, n)

\* The stages of a process.
Resting(c) ==
  cli[c] = Idle /\ toCore[c] = <<>> /\ inbox[c] = <<>> /\ Tally(c, 0) /\ NoJobs(c)
Loading(c) ==
  LET p == cli[c] IN
  /\ p.pc = "state" /\ p.out = "none" /\ p.n \in Nat /\ (Answers(p.cmd) => p.n = 0)
  /\ Tally(c, 0) /\ NoJobs(c) /\ Fresh(c, p.n)
  /\ \/ toCore[c] = <<>>
     \/ \E m : toCore[c] = <<m>> /\ m.r.k = "state" /\ m.id = <<c, p.n>> /\ Unheard(inbox[c], <<c, p.n>>)
Waiting(c) ==
  LET p == cli[c]
      w == Head(p.todo).await IN
  /\ p.pc = "wait" /\ p.out = "none" /\ p.n \in Nat /\ p.n > 0 /\ p.todo # <<>>
  /\ Stages(p.cmd, p.todo) /\ Fresh(c, p.n)
  /\ Asking(c, w, p.n) \/ Hoping(c, w, p.n) \/ Turning(c, w, p.n)
Over(c) ==
  LET p == cli[c] IN
  /\ p.pc = "done" /\ (p.out = "failed" => HadFailure(c))
  /\ p.out = "ok" /\ Answers(p.cmd) => /\ Tally(c, p.n) /\ toCore[c] = <<>>
                                       /\ p.cmd.k = "srefresh" => NoJobs(c)
Progress(c) == Resting(c) \/ Loading(c) \/ Waiting(c) \/ Over(c)

OwnInv ==
  /\ did \in [Clients -> [ok : Nat, bad : Nat]]
  /\ \A c \in Clients : OwnQueue(toCore[c], c) /\ Progress(c)
  /\ \A j \in jobs : \E c \in Clients : Own(j.id, c)

-----------------------------------------------------------------------------
\* Queues of frames.
LEMMA MoreAt ==
  ASSUME NEW q, Listed(q), NEW f, NEW x, x = q \o <<f>>
  PROVE  /\ Listed(x) /\ Len(q) \in Nat /\ DOMAIN q = 1..Len(q) /\ DOMAIN x = 1..(Len(q) + 1)
         /\ x[Len(q) + 1] = f /\ \A i \in DOMAIN q : x[i] = q[i]
<1>1. PICK S : q \in Seq(S) BY DEF Listed
<1>2. PICK T : T = S \cup {f} OBVIOUS
<1>3. q \in Seq(T) /\ <<f>> \in Seq(T) BY <1>1, <1>2
<1>4. q \o <<f>> \in Seq(T) BY <1>3
<1>5. Listed(x) BY <1>4 DEF Listed
<1>6. Len(x) = Len(q) + 1 BY <1>3
<1>7. x[Len(q) + 1] = f /\ \A i \in DOMAIN q : x[i] = q[i] BY <1>3
<1> QED BY <1>3, <1>4, <1>5, <1>6, <1>7

LEMMA RestAt ==
  ASSUME NEW q, Listed(q), q # <<>>
  PROVE  /\ Listed(Tail(q)) /\ Len(q) \in Nat /\ Len(q) > 0 /\ DOMAIN q = 1..Len(q) /\ DOMAIN Tail(q) = 1..(Len(q) - 1)
         /\ Head(q) = q[1] /\ \A i \in DOMAIN Tail(q) : Tail(q)[i] = q[i + 1]
<1>1. PICK S : q \in Seq(S) BY DEF Listed
<1>2. Tail(q) \in Seq(S) BY <1>1
<1>3. Listed(Tail(q)) BY <1>2 DEF Listed
<1> QED BY <1>1, <1>2, <1>3

LEMMA UnheardMore ==
  ASSUME NEW q, Listed(q), NEW f, NEW id, Unheard(q, id), ~Hit(f, id) PROVE Unheard(q \o <<f>>, id)
<1>1. PICK x : x = q \o <<f>> OBVIOUS
<1>2. /\ Len(q) \in Nat /\ DOMAIN q = 1..Len(q) /\ DOMAIN x = 1..(Len(q) + 1)
      /\ x[Len(q) + 1] = f /\ \A i \in DOMAIN q : x[i] = q[i]
  BY <1>1, MoreAt
<1>3. ASSUME NEW i \in DOMAIN x PROVE ~Hit(x[i], id)
  <2>1. i \in DOMAIN q \/ i = Len(q) + 1 BY <1>2
  <2> QED BY <1>2, <2>1 DEF Unheard
<1> QED BY <1>1, <1>3 DEF Unheard

LEMMA UnheardRest == ASSUME NEW q, Listed(q), q # <<>>, NEW id, Unheard(q, id) PROVE Unheard(Tail(q), id)
<1>1. PICK x : x = Tail(q) OBVIOUS
<1>2. /\ Len(q) \in Nat /\ DOMAIN q = 1..Len(q) /\ DOMAIN x = 1..(Len(q) - 1)
      /\ \A i \in DOMAIN x : x[i] = q[i + 1]
  BY <1>1, RestAt
<1>3. ASSUME NEW i \in DOMAIN x PROVE ~Hit(x[i], id)
  <2>1. i + 1 \in DOMAIN q BY <1>2
  <2> QED BY <1>2, <2>1 DEF Unheard
<1> QED BY <1>1, <1>3 DEF Unheard

LEMMA UnheardNone == ASSUME NEW id PROVE Unheard(<<>>, id)
<1>1. DOMAIN <<>> = {} OBVIOUS
<1> QED BY <1>1 DEF Unheard

LEMMA UnheardHead == ASSUME NEW q, Listed(q), q # <<>>, NEW id, Unheard(q, id) PROVE ~Hit(Head(q), id)
<1>1. 1 \in DOMAIN q /\ Head(q) = q[1] BY RestAt
<1> QED BY <1>1 DEF Unheard

LEMMA FirstMore ==
  ASSUME NEW q, Listed(q), NEW e, NEW id, NEW f, First(q, id, f) PROVE First(q \o <<e>>, id, f)
<1>1. PICK x : x = q \o <<e>> OBVIOUS
<1>2. /\ Len(q) \in Nat /\ DOMAIN q = 1..Len(q) /\ DOMAIN x = 1..(Len(q) + 1)
      /\ \A i \in DOMAIN q : x[i] = q[i]
  BY <1>1, MoreAt
<1>3. PICK i \in DOMAIN q : q[i] = f /\ Hit(f, id) /\ \A h \in DOMAIN q : h < i => ~Hit(q[h], id)
  BY DEF First
<1>4. i \in DOMAIN x /\ x[i] = f BY <1>2, <1>3
<1>5. ASSUME NEW h \in DOMAIN x, h < i PROVE ~Hit(x[h], id)
  <2>1. h \in DOMAIN q BY <1>2, <1>5
  <2> QED BY <1>2, <1>3, <1>5, <2>1
<1> QED BY <1>1, <1>3, <1>4, <1>5 DEF First

LEMMA FirstNew ==
  ASSUME NEW q, Listed(q), NEW e, NEW id, Unheard(q, id), Hit(e, id) PROVE First(q \o <<e>>, id, e)
<1>1. PICK x : x = q \o <<e>> OBVIOUS
<1>2. /\ Len(q) \in Nat /\ DOMAIN q = 1..Len(q) /\ DOMAIN x = 1..(Len(q) + 1)
      /\ x[Len(q) + 1] = e /\ \A i \in DOMAIN q : x[i] = q[i]
  BY <1>1, MoreAt
<1>3. PICK i : i = Len(q) + 1 OBVIOUS
<1>4. i \in DOMAIN x /\ x[i] = e BY <1>2, <1>3
<1>5. ASSUME NEW h \in DOMAIN x, h < i PROVE ~Hit(x[h], id)
  <2>1. h \in DOMAIN q BY <1>2, <1>3, <1>5
  <2> QED BY <1>2, <2>1 DEF Unheard
<1> QED BY <1>1, <1>4, <1>5 DEF First

LEMMA FirstRest ==
  ASSUME NEW q, Listed(q), q # <<>>, NEW id, NEW f, First(q, id, f)
  PROVE  IF Hit(Head(q), id) THEN Head(q) = f ELSE First(Tail(q), id, f)
<1>1. PICK x : x = Tail(q) OBVIOUS
<1>2. /\ Len(q) \in Nat /\ Len(q) > 0 /\ DOMAIN q = 1..Len(q) /\ DOMAIN x = 1..(Len(q) - 1)
      /\ Head(q) = q[1] /\ \A i \in DOMAIN x : x[i] = q[i + 1]
  BY <1>1, RestAt
<1>3. PICK i \in DOMAIN q : q[i] = f /\ Hit(f, id) /\ \A h \in DOMAIN q : h < i => ~Hit(q[h], id)
  BY DEF First
<1>4. CASE i = 1 BY <1>2, <1>3, <1>4
<1>5. CASE i # 1
  <2>1. PICK j : j = i - 1 OBVIOUS
  <2>2. j \in DOMAIN x /\ j + 1 = i BY <1>2, <1>5, <2>1
  <2>3. x[j] = f BY <1>2, <1>3, <2>2
  <2>4. ASSUME NEW h \in DOMAIN x, h < j PROVE ~Hit(x[h], id)
    <3>1. h + 1 \in DOMAIN q /\ h + 1 < i BY <1>2, <2>2, <2>4
    <3> QED BY <1>2, <1>3, <2>4, <3>1
  <2>5. First(x, id, f) BY <1>3, <2>2, <2>3, <2>4 DEF First
  <2>6. ~Hit(Head(q), id)
    <3>1. 1 \in DOMAIN q /\ 1 < i BY <1>2, <1>5
    <3> QED BY <1>2, <1>3, <3>1
  <2> QED BY <1>1, <2>5, <2>6
<1> QED BY <1>4, <1>5

LEMMA FirstHit == ASSUME NEW q, NEW id, NEW f, First(q, id, f) PROVE Hit(f, id)
  BY DEF First

LEMMA FramesListed == ASSUME NEW q, GoodFrames(q) PROVE Listed(q)
  BY DEF GoodFrames, Listed

LEMMA OwnIs == ASSUME NEW c, NEW k \in Nat, NEW d PROVE Own(<<c, k>>, d) <=> c = d
<1>1. ASSUME Own(<<c, k>>, d) PROVE c = d
  <2>1. PICK m \in Nat : <<c, k>> = <<d, m>> BY <1>1 DEF Own
  <2> QED BY <2>1
<1> QED BY <1>1 DEF Own

-----------------------------------------------------------------------------
\* A step of another process, a broadcast that answers nobody, or the end of a refresh that
\* nobody waits for.
LEMMA Undisturbed ==
  ASSUME NEW d \in Clients, Progress(d), Listed(inbox[d]),
         cli'[d] = cli[d], toCore'[d] = toCore[d], did'[d] = did[d],
         \A j \in jobs' : Own(j.id, d) => j \in jobs,
         \/ inbox'[d] = inbox[d]
         \/ /\ cli[d].pc # "idle"
            /\ \E f : /\ inbox'[d] = inbox[d] \o <<f>>
                      /\ \A k \in Nat : Hit(f, <<d, k>>) => ~NoJobFor(<<d, k>>) /\ cli[d].cmd.k # "srefresh"
  PROVE  Progress(d)'
<1>1. ASSUME NEW k \in Nat, Unheard(inbox[d], <<d, k>>), NoJobFor(<<d, k>>) \/ cli[d].cmd.k = "srefresh"
      PROVE  Unheard(inbox'[d], <<d, k>>)
  BY <1>1, UnheardMore
<1>2. ASSUME NEW k \in Nat, NEW f, First(inbox[d], <<d, k>>, f) PROVE First(inbox'[d], <<d, k>>, f)
  BY <1>2, FirstMore
<1>3. NoJobs(d) => NoJobs(d)'
  BY DEF NoJobs
<1>4. ASSUME NEW k \in Nat, NoJobFor(<<d, k>>) PROVE NoJobFor(<<d, k>>)'
  <2>1. Own(<<d, k>>, d) BY OwnIs
  <2> QED BY <1>4, <2>1 DEF NoJobFor
<1>5. ASSUME NEW n \in Nat, Fresh(d, n) PROVE Fresh(d, n)'
  BY <1>1, <1>4, <1>5 DEF Fresh
<1>6. ASSUME NEW n, Tally(d, n) PROVE Tally(d, n)'
  BY <1>6 DEF Tally
<1>7. HadFailure(d) => HadFailure(d)'
  BY DEF HadFailure
<1>8. CASE Resting(d)
  <2>1. inbox'[d] = inbox[d] BY <1>8 DEF Resting, Idle
  <2> QED BY <1>3, <1>6, <1>8, <2>1 DEF Resting, Progress
<1>9. CASE Loading(d)
  <2>1. cli[d].n \in Nat BY <1>9 DEF Loading
  <2>2. Fresh(d, cli[d].n)' BY <1>5, <1>9, <2>1 DEF Loading
  <2>3. NoJobFor(<<d, cli[d].n>>) BY <1>9, <2>1, OwnIs DEF Loading, NoJobs, NoJobFor
  <2>4. Loading(d)' BY <1>1, <1>3, <1>6, <1>9, <2>1, <2>2, <2>3 DEF Loading
  <2> QED BY <2>4 DEF Progress
<1>10. CASE Waiting(d)
  <2>1. PICK p, n, w : p = cli[d] /\ n = p.n /\ w = Head(p.todo).await OBVIOUS
  <2>2. n \in Nat /\ n > 0 /\ n - 1 \in Nat BY <1>10, <2>1 DEF Waiting
  <2>3. Fresh(d, n)' BY <1>5, <1>10, <2>1, <2>2 DEF Waiting
  <2>4. Asking(d, w, n) => Asking(d, w, n)'
    <3> SUFFICES ASSUME Asking(d, w, n) PROVE Asking(d, w, n)' OBVIOUS
    <3>1. PICK r : Asks(cli[d].cmd, r, w) /\ (Queued(d, r, n) \/ Working(d, n) \/ Answered(d, w, n))
      BY DEF Asking
    <3>2. Queued(d, r, n) => Queued(d, r, n)' BY <1>1, <1>3, <1>4, <1>6, <2>2 DEF Queued
    <3>3. Working(d, n) => Working(d, n)' BY <1>1, <1>6, <2>2 DEF Working
    <3>4. Answered(d, w, n) => Answered(d, w, n)'
      <4> SUFFICES ASSUME Answered(d, w, n) PROVE Answered(d, w, n)' OBVIOUS
      <4>1. PICK f : First(inbox[d], <<d, n>>, f) /\ Right(d, w, n, f) BY DEF Answered
      <4>2. First(inbox'[d], <<d, n>>, f) BY <1>2, <2>2, <4>1
      <4>3. Right(d, w, n, f)' BY <4>1 DEF Right, Tally, HadFailure
      <4> QED BY <1>3, <4>2, <4>3 DEF Answered
    <3> QED BY <3>1, <3>2, <3>3, <3>4 DEF Asking
  <2>5. Hoping(d, w, n) => Hoping(d, w, n)' BY <1>6 DEF Hoping
  <2>6. Turning(d, w, n) => Turning(d, w, n)'
    <3> SUFFICES ASSUME Turning(d, w, n) PROVE Turning(d, w, n)' OBVIOUS
    <3>1. NoJobFor(<<d, n>>)' BY <1>4, <2>2 DEF Turning
    <3>2. BadNews(d, w, n) => BadNews(d, w, n)'
      <4> SUFFICES ASSUME BadNews(d, w, n) PROVE BadNews(d, w, n)' OBVIOUS
      <4>1. CASE inbox'[d] = inbox[d] BY <1>7, <4>1 DEF BadNews
      <4>2. ASSUME NEW f, inbox'[d] = inbox[d] \o <<f>>, \A k \in Nat : Hit(f, <<d, k>>) => ~NoJobFor(<<d, k>>)
            PROVE  BadNews(d, w, n)'
        <5>1. PICK x : x = inbox'[d] OBVIOUS
        <5>2. /\ Len(inbox[d]) \in Nat /\ DOMAIN inbox[d] = 1..Len(inbox[d]) /\ DOMAIN x = 1..(Len(inbox[d]) + 1)
              /\ x[Len(inbox[d]) + 1] = f /\ \A i \in DOMAIN inbox[d] : x[i] = inbox[d][i]
          BY <4>2, <5>1, MoreAt
        <5>3. ~(f.k = "warn" /\ f.id = <<d, n>> /\ f.key \in Fatal(w))
          <6>1. "exited" \notin Fatal(w) BY DEF Fatal
          <6>2. ~Hit(f, <<d, n>>) BY <2>2, <4>2 DEF Turning
          <6> QED BY <6>1, <6>2 DEF Hit
        <5>4. ASSUME NEW i \in DOMAIN x, x[i].k = "warn" /\ x[i].id = <<d, n>> /\ x[i].key \in Fatal(w)
              PROVE  HadFailure(d)
          <6>1. i \in DOMAIN inbox[d] BY <5>2, <5>3, <5>4
          <6> QED BY <5>2, <5>4, <6>1 DEF BadNews
        <5> QED BY <1>7, <5>1, <5>4 DEF BadNews
      <4> QED BY <4>1, <4>2
    <3> QED BY <1>1, <2>2, <3>1, <3>2 DEF Turning
  <2>7. cli'[d] = p BY <2>1
  <2>8. Asking(d, w, n)' \/ Hoping(d, w, n)' \/ Turning(d, w, n)' BY <1>10, <2>1, <2>4, <2>5, <2>6 DEF Waiting
  <2>9. Waiting(d)' BY <1>10, <2>1, <2>3, <2>7, <2>8 DEF Waiting
  <2> QED BY <2>9 DEF Progress
<1>11. CASE Over(d)
  <2>1. Over(d)' BY <1>3, <1>6, <1>7, <1>11 DEF Over
  <2> QED BY <2>1 DEF Progress
<1> QED BY <1>8, <1>9, <1>10, <1>11 DEF Progress

-----------------------------------------------------------------------------
\* What the core does with a request.
Succeeds(c) == did' = [did EXCEPT ![c].ok = @ + 1]
Refuses(c) == did' = [did EXCEPT ![c].bad = @ + 1]

LEMMA SentOne ==
  ASSUME Inboxes, NEW f, inbox' = Sent(<<f>>), NEW d \in Clients
  PROVE  inbox'[d] = IF Hears(d, f) THEN inbox[d] \o <<f>> ELSE inbox[d]
<1>1. PICK fr : fr = <<f>> OBVIOUS
<1>2. DOMAIN fr = {1} /\ fr[1] = f BY <1>1
<1>3. inbox'[d] = IF \A i \in DOMAIN fr : Hears(d, fr[i]) THEN inbox[d] \o fr ELSE inbox[d]
  BY <1>1 DEF Sent
<1>4. (\A i \in DOMAIN fr : Hears(d, fr[i])) <=> Hears(d, f) BY <1>2
<1> QED BY <1>1, <1>3, <1>4

LEMMA SentNone ==
  ASSUME Inboxes, inbox' = Sent(<<>>), NEW d \in Clients PROVE inbox'[d] = inbox[d]
<1>1. PICK S : inbox[d] \in Seq(S) BY DEF Inboxes, GoodFrames
<1>2. inbox[d] \o <<>> = inbox[d] BY <1>1
<1> QED BY <1>2 DEF Sent

LEMMA RecordTyped ==
  ASSUME did \in [Clients -> [ok : Nat, bad : Nat]], NEW c \in Clients, did' = did \/ Succeeds(c) \/ Refuses(c)
  PROVE  /\ did' \in [Clients -> [ok : Nat, bad : Nat]]
         /\ \A d \in Clients : d # c => did'[d] = did[d]
         /\ HadFailure(c) => HadFailure(c)'
<1>1. CASE did' = did BY <1>1 DEF HadFailure
<1>2. CASE Succeeds(c) BY <1>2 DEF Succeeds, HadFailure
<1>3. CASE Refuses(c) BY <1>3 DEF Refuses, HadFailure
<1> QED BY <1>1, <1>2, <1>3

LEMMA TallyMore ==
  ASSUME did \in [Clients -> [ok : Nat, bad : Nat]], NEW c \in Clients, NEW n \in Nat, Tally(c, n - 1), Succeeds(c)
  PROVE  Tally(c, n)'
<1>1. did'[c] = [did[c] EXCEPT !.ok = did[c].ok + 1] BY DEF Succeeds
<1>2. PICK a, b : a = n - 1 /\ b = 0 OBVIOUS
<1>3. did[c] = [ok |-> a, bad |-> b] BY <1>2 DEF Tally
<1>4. did'[c] = [ok |-> a + 1, bad |-> b] BY <1>1, <1>3
<1>5. a + 1 = n BY <1>2
<1> QED BY <1>2, <1>4, <1>5 DEF Tally

LEMMA FailureSeen ==
  ASSUME did \in [Clients -> [ok : Nat, bad : Nat]], NEW c \in Clients, Refuses(c) PROVE HadFailure(c)'
  BY DEF Refuses, HadFailure

LEMMA AnswerIs ==
  ASSUME NEW r, NEW id
  PROVE  \/ r.k = "refresh" /\ Answer(r, id) = <<>>
         \/ /\ r.k # "refresh"
            /\ \E f : /\ Answer(r, id) = <<f>> /\ f.k = r.k /\ f.id = id
                      /\ r.k = "add" => f.n = IF r.g \in Of(db) THEN 1 ELSE 0
                      /\ r.k = "delete" => f.n = Cardinality(r.refs)
<1>1. CASE r.k = "state"
  <2>1. PICK f : f = [k |-> "state", id |-> id, db |-> db, conn |-> conn, tun |-> tun] OBVIOUS
  <2>2. Answer(r, id) = <<f>> BY <1>1, <2>1, Zenon DEF Answer
  <2>3. f.k = "state" /\ f.id = id BY <2>1
  <2> QED BY <1>1, <2>2, <2>3
<1>2. CASE r.k = "delete"
  <2>1. PICK n : n = Cardinality(r.refs) OBVIOUS
  <2>2. PICK f : f = [k |-> "delete", id |-> id, n |-> n] OBVIOUS
  <2>3. Answer(r, id) = <<f>> BY <1>2, <2>1, <2>2, Zenon DEF Answer
  <2>4. f.k = "delete" /\ f.id = id /\ f.n = n BY <2>2
  <2> QED BY <1>2, <2>1, <2>3, <2>4
<1>3. CASE r.k = "add"
  <2>1. PICK n : n = IF r.g \in Of(db) THEN 1 ELSE 0 OBVIOUS
  <2>2. PICK f : f = [k |-> "add", id |-> id, n |-> n] OBVIOUS
  <2>3. Answer(r, id) = <<f>> BY <1>3, <2>1, <2>2, Zenon DEF Answer
  <2>4. f.k = "add" /\ f.id = id /\ f.n = n BY <2>2
  <2> QED BY <1>3, <2>1, <2>3, <2>4
<1>4. CASE r.k = "addgroup"
  <2>1. PICK f : f = [k |-> "addgroup", id |-> id, g |-> db.last + 1] OBVIOUS
  <2>2. Answer(r, id) = <<f>> BY <1>4, <2>1, Zenon DEF Answer
  <2>3. f.k = "addgroup" /\ f.id = id BY <2>1
  <2> QED BY <1>4, <2>2, <2>3
<1>5. CASE r.k = "refresh"
  <2>1. Answer(r, id) = <<>> BY <1>5 DEF Answer
  <2> QED BY <1>5, <2>1
<1>6. CASE r.k \notin {"state", "delete", "add", "addgroup", "refresh"}
  <2>1. PICK f : f = Frame(r.k, id) OBVIOUS
  <2>2. Answer(r, id) = <<f>> BY <1>6, <2>1 DEF Answer
  <2>3. f.k = r.k /\ f.id = id BY <2>1 DEF Frame
  <2> QED BY <1>6, <2>2, <2>3
<1> QED BY <1>1, <1>2, <1>3, <1>4, <1>5, <1>6

LEMMA SpawnedIs ==
  ASSUME NEW r, NEW id
  PROVE  /\ \A j \in Spawned(r, id) : j.id = id
         /\ r.k = "refresh" => Spawned(r, id) = {[g |-> r.g, id |-> id]}
         /\ r.k \notin {"refresh", "addgroup", "update"} => Spawned(r, id) = {}
<1>1. CASE r.k = "refresh" BY <1>1 DEF Spawned
<1>2. CASE r.k # "refresh"
  <2>1. \/ Spawned(r, id) = {[g |-> db.last + 1, id |-> id]} \/ Spawned(r, id) = {[g |-> r.g, id |-> id]}
        \/ Spawned(r, id) = {}
    BY <1>2 DEF Spawned
  <2>2. r.k \notin {"refresh", "addgroup", "update"} => Spawned(r, id) = {} BY DEF Spawned
  <2> QED BY <1>2, <2>1, <2>2
<1> QED BY <1>1, <1>2

LEMMA StoreIs ==
  ASSUME NEW c, NEW r, NEW id, HandleStore(c, r, id)
  PROVE  /\ r.k \notin {"connect", "disconnect", "tun"}
         /\ inbox' = Sent(IF Fails(r) THEN <<Warn(id, "failed")>> ELSE Answer(r, id))
         /\ jobs' = IF Fails(r) THEN jobs ELSE jobs \cup Spawned(r, id)
         /\ r.k \in {"state", "refresh"} => did' = did
         /\ r.k \notin {"state", "refresh"} /\ ~Fails(r) /\ (r.k # "add" \/ r.g \in Of(db)) => Succeeds(c)
         /\ r.k \notin {"state", "refresh"} /\ ~(~Fails(r) /\ (r.k # "add" \/ r.g \in Of(db))) => Refuses(c)
<1>1. /\ r.k \notin {"connect", "disconnect", "tun"}
      /\ inbox' = Sent(IF Fails(r) THEN <<Warn(id, "failed")>> ELSE Answer(r, id))
      /\ jobs' = IF Fails(r) THEN jobs ELSE jobs \cup Spawned(r, id)
  BY Zenon DEF HandleStore
<1>2. r.k \in {"state", "refresh"} => did' = did BY Zenon DEF HandleStore
<1>3. ASSUME r.k \notin {"state", "refresh"}, ~Fails(r) /\ (r.k # "add" \/ r.g \in Of(db)) PROVE Succeeds(c)
  BY <1>3, Zenon DEF HandleStore, Record, Succeeds
<1>4. ASSUME r.k \notin {"state", "refresh"}, ~(~Fails(r) /\ (r.k # "add" \/ r.g \in Of(db))) PROVE Refuses(c)
  BY <1>4, Zenon DEF HandleStore, Record, Refuses
<1> QED BY <1>1, <1>2, <1>3, <1>4

LEMMA SessionIs ==
  ASSUME NEW c, NEW r, NEW id, NEW starts, NEW up, HandleSession(c, r, id, starts, up)
  PROVE  /\ r.k \in {"connect", "disconnect", "tun"} /\ jobs' = jobs
         /\ Succeeds(c) \/ Refuses(c)
         /\ \/ inbox' = Sent(<<>>)
            \/ inbox' = Sent(<<Warn(id, "failed")>>) /\ Refuses(c)
            \/ inbox' = Sent(<<Warn(id, "tun")>>) /\ (r.k = "tun" => Refuses(c))
<1> DEFINE known == r.k # "connect" \/ Exists(db, r.ref)
           joined == r.k = "connect" /\ known /\ starts
           refused == r.k = "tun" /\ r.on /\ (conn = NoRef \/ tun \/ ~up)
           fr == CASE r.k = "connect" /\ ~joined -> <<Warn(id, "failed")>>
                   [] refused \/ (joined /\ tun /\ ~up) -> <<Warn(id, "tun")>>
                   [] OTHER -> <<>>
           fine == ~refused /\ (r.k = "connect" => joined)
<1>1. /\ r.k \in {"connect", "disconnect", "tun"} /\ jobs' = jobs
      /\ inbox' = Sent(fr)
      /\ did' = Record(c, fine)
  BY Zenon DEF HandleSession
<1>2. ASSUME fine PROVE Succeeds(c) BY <1>1, <1>2, Zenon DEF Record, Succeeds
<1>3. ASSUME ~fine PROVE Refuses(c) BY <1>1, <1>3, Zenon DEF Record, Refuses
<1>4. joined => r.k = "connect" OBVIOUS
<1>5. refused => r.k = "tun" OBVIOUS
<1> HIDE DEF joined, refused
<1>6. CASE r.k = "connect" /\ ~joined
  <2>1. fr = <<Warn(id, "failed")>> BY <1>4, <1>5, <1>6
  <2>2. ~fine BY <1>6
  <2> QED BY <1>1, <1>3, <2>1, <2>2
<1>7. CASE ~(r.k = "connect" /\ ~joined) /\ (refused \/ (joined /\ tun /\ ~up))
  <2>1. fr = <<Warn(id, "tun")>> BY <1>7
  <2>2. r.k = "tun" => ~fine BY <1>4, <1>7
  <2> QED BY <1>1, <1>2, <1>3, <2>1, <2>2
<1>8. CASE ~(r.k = "connect" /\ ~joined) /\ ~(refused \/ (joined /\ tun /\ ~up))
  <2>1. fr = <<>> BY <1>8
  <2> QED BY <1>1, <1>2, <1>3, <2>1
<1> QED BY <1>6, <1>7, <1>8

\* A request of one process is answered under an identifier of that process.
LEMMA OthersUndisturbed ==
  ASSUME EditInv, OwnInv, NEW c \in Clients, NEW k \in Nat, NEW d \in Clients, d # c,
         cli' = cli, toCore'[d] = toCore[d], did'[d] = did[d],
         \A j \in jobs' : j \in jobs \/ j.id = <<c, k>>,
         inbox' = Sent(<<>>) \/ \E f : inbox' = Sent(<<f>>) /\ f.id = <<c, k>>
  PROVE  Progress(d)'
<1>1. Inboxes /\ Listed(inbox[d]) /\ Progress(d)
  BY FramesListed DEF EditInv, Inboxes, OwnInv
<1>2. ASSUME NEW j \in jobs', Own(j.id, d) PROVE j \in jobs
  <2>1. ~Own(<<c, k>>, d) BY OwnIs
  <2>2. j.id # <<c, k>> BY <1>2, <2>1
  <2> QED BY <2>2
<1>3. CASE inbox' = Sent(<<>>)
  <2>1. inbox'[d] = inbox[d] BY <1>1, <1>3, SentNone
  <2> QED BY <1>1, <1>2, <2>1, Undisturbed
<1>4. ASSUME NEW f, inbox' = Sent(<<f>>), f.id = <<c, k>> PROVE Progress(d)'
  <2>1. inbox'[d] = IF Hears(d, f) THEN inbox[d] \o <<f>> ELSE inbox[d] BY <1>1, <1>4, SentOne
  <2>2. \A m \in Nat : ~Hit(f, <<d, m>>) BY <1>4 DEF Hit
  <2>3. Hears(d, f) => cli[d].pc # "idle" BY DEF Hears, InSession
  <2> QED BY <1>1, <1>2, <2>1, <2>2, <2>3, Undisturbed
<1> QED BY <1>3, <1>4

LEMMA RestOwn ==
  ASSUME NEW q, NEW c, OwnQueue(q, c), q # <<>> PROVE OwnQueue(Tail(q), c) /\ \E k \in Nat : Head(q).id = <<c, k>>
<1>1. PICK S : q \in Seq(S) /\ \A m \in S : Own(m.id, c) BY DEF OwnQueue
<1>2. Tail(q) \in Seq(S) /\ Head(q) \in S BY <1>1
<1> QED BY <1>1, <1>2 DEF OwnQueue, Own

LEMMA OneMessage == ASSUME NEW m PROVE <<m>> # <<>> /\ Head(<<m>>) = m /\ Tail(<<m>>) = <<>>
  OBVIOUS

LEMMA LoadingRequest ==
  ASSUME EditInv, OwnInv, NEW c \in Clients, Loading(c), HandleRequest(c) PROVE Loading(c)'
<1>1. toCore[c] # <<>> /\ cli' = cli /\ toCore'[c] = Tail(toCore[c])
  BY DEF HandleRequest, EditInv, Queues
<1>2. PICK n : n = cli[c].n OBVIOUS
<1>3. PICK m : toCore[c] = <<m>> /\ m.r.k = "state" /\ m.id = <<c, n>> /\ Unheard(inbox[c], <<c, n>>)
  BY <1>1, <1>2 DEF Loading
<1>4. Head(toCore[c]) = m /\ Tail(toCore[c]) = <<>> BY <1>3, OneMessage
<1>5. PICK r, id : r = m.r /\ id = m.id OBVIOUS
<1>6. HandleStore(c, r, id)
  <2>1. \/ HandleStore(c, r, id)
        \/ \E starts, up \in BOOLEAN : HandleSession(c, r, id, starts, up)
    BY <1>4, <1>5, Zenon DEF HandleRequest
  <2>2. r.k = "state" BY <1>3, <1>5
  <2> QED BY <2>1, <2>2, SessionIs
<1>7. r.k = "state" /\ ~Fails(r) BY <1>3, <1>5 DEF Fails
<1>8. Spawned(r, id) = {} BY <1>7, SpawnedIs
<1>9. did' = did /\ jobs' = jobs /\ inbox' = Sent(Answer(r, id)) BY <1>6, <1>7, <1>8, StoreIs
<1>10. PICK f : Answer(r, id) = <<f>> /\ f.k = "state" /\ f.id = <<c, n>> BY <1>3, <1>5, <1>7, AnswerIs
<1>11. Inboxes /\ Listed(inbox[c]) BY FramesListed DEF EditInv, Inboxes
<1>12. inbox' = Sent(<<f>>) BY <1>9, <1>10
<1>13. inbox'[c] = inbox[c] \o <<f>> \/ inbox'[c] = inbox[c] BY <1>11, <1>12, SentOne
<1>14. n \in Nat /\ Fresh(c, n) BY <1>2 DEF Loading
<1>15. ASSUME NEW k \in Nat, k > n PROVE Unheard(inbox'[c], <<c, k>>)
  <2>1. Unheard(inbox[c], <<c, k>>) BY <1>14, <1>15 DEF Fresh
  <2>2. ~Hit(f, <<c, k>>) BY <1>10, <1>14, <1>15 DEF Hit
  <2> QED BY <1>11, <1>13, <2>1, <2>2, UnheardMore
<1>16. Fresh(c, n)' BY <1>9, <1>14, <1>15 DEF Fresh, NoJobFor
<1>17. NoJobs(c)' /\ Tally(c, 0)' BY <1>9 DEF Loading, NoJobs, Tally
<1> QED BY <1>1, <1>2, <1>4, <1>16, <1>17 DEF Loading

\* A request of a stage that waits for its answer.
LEMMA QueuedRequest ==
  ASSUME EditInv, OwnInv, NEW c \in Clients, NEW n \in Nat, n > 0, NEW r, NEW w,
         Asks(cli[c].cmd, r, w), Queued(c, r, n), HandleRequest(c), InSession(c), Fresh(c, n)
  PROVE  Fresh(c, n)' /\ (Working(c, n)' \/ Answered(c, w, n)')
<1>1. /\ cli' = cli /\ toCore'[c] = Tail(toCore[c]) /\ did \in [Clients -> [ok : Nat, bad : Nat]]
      /\ Inboxes /\ Listed(inbox[c])
  BY FramesListed DEF HandleRequest, EditInv, Queues, Inboxes, OwnInv
<1>2. PICK id, m : id = <<c, n>> /\ m = [r |-> r, id |-> id] OBVIOUS
<1>3. toCore[c] = <<m>> /\ m.r = r /\ m.id = id BY <1>2 DEF Queued
<1>4. Head(toCore[c]) = m /\ Tail(toCore[c]) = <<>> BY <1>3, OneMessage
<1>5. r.k \in Kinds BY DEF Asks
<1>6. HandleStore(c, r, id)
  <2>1. \/ HandleStore(c, r, id)
        \/ \E starts, up \in BOOLEAN : HandleSession(c, r, id, starts, up)
    BY <1>3, <1>4, Zenon DEF HandleRequest
  <2>2. r.k \notin {"connect", "disconnect", "tun"} BY <1>5 DEF Kinds
  <2> QED BY <2>1, <2>2, SessionIs
<1>7. r.k # "state" BY <1>5 DEF Kinds
<1>8. Unheard(inbox[c], id) /\ NoJobFor(id) /\ Tally(c, n - 1) /\ (cli[c].cmd.k = "srefresh" => NoJobs(c))
  BY <1>2 DEF Queued
<1>9. ASSUME NEW f, f.k # "state", inbox' = Sent(<<f>>) PROVE inbox'[c] = inbox[c] \o <<f>>
  BY <1>1, <1>9, SentOne DEF Hears
<1>10. ASSUME NEW f, f.id = id, inbox'[c] = inbox[c] \o <<f>> \/ inbox'[c] = inbox[c],
              \A j \in jobs' : j \in jobs \/ j.id = id
       PROVE  Fresh(c, n)'
  <2>1. ASSUME NEW k \in Nat, k > n PROVE Unheard(inbox'[c], <<c, k>>) /\ NoJobFor(<<c, k>>)'
    <3>1. Unheard(inbox[c], <<c, k>>) /\ NoJobFor(<<c, k>>) BY <2>1 DEF Fresh
    <3>2. id # <<c, k>> BY <1>2, <2>1
    <3>3. ~Hit(f, <<c, k>>) BY <1>10, <3>2 DEF Hit
    <3>4. Unheard(inbox'[c], <<c, k>>) BY <1>1, <1>10, <3>1, <3>3, UnheardMore
    <3> QED BY <1>10, <3>1, <3>2, <3>4 DEF NoJobFor
  <2> QED BY <2>1 DEF Fresh
<1>11. CASE r.k = "refresh"
  <2>1. ~Fails(r) BY <1>11 DEF Fails
  <2>2. Answer(r, id) = <<>> /\ Spawned(r, id) = {[g |-> r.g, id |-> id]} BY <1>11, AnswerIs, SpawnedIs
  <2>3. inbox' = Sent(<<>>) /\ jobs' = jobs \cup {[g |-> r.g, id |-> id]} /\ did' = did
    BY <1>6, <1>11, <2>1, <2>2, StoreIs
  <2>4. inbox'[c] = inbox[c] BY <1>1, <2>3, SentNone
  <2>5. cli[c].cmd.k = "srefresh" BY <1>11 DEF Asks
  <2>6. NoJobs(c) BY <1>8, <2>5
  <2>7. PICK g : g = r.g OBVIOUS
  <2>8. \A j \in jobs' : Own(j.id, c) => j = [g |-> g, id |-> id] BY <2>3, <2>6, <2>7 DEF NoJobs
  <2>9. Tally(c, n - 1)' BY <1>8, <2>3 DEF Tally
  <2>10. Working(c, n)' BY <1>1, <1>2, <1>4, <1>8, <2>4, <2>5, <2>8, <2>9 DEF Working
  <2>11. PICK f : f.id = id
    <3>1. PICK f : f = [id |-> id] OBVIOUS
    <3> QED BY <3>1
  <2>12. \A j \in jobs' : j \in jobs \/ j.id = id BY <2>3
  <2>13. Fresh(c, n)' BY <1>10, <2>4, <2>11, <2>12
  <2> QED BY <2>10, <2>13
<1>12. CASE r.k # "refresh"
  <2>1. cli[c].cmd.k # "srefresh" BY <1>12 DEF Asks
  <2>2. w.expect = r.k /\ w.need = Need(r) BY <1>12 DEF Asks, Kind
  <2>3. CASE Fails(r)
    <3>1. PICK f : f = Warn(id, "failed") OBVIOUS
    <3>2. f.k = "warn" /\ f.id = id /\ f.key = "failed" BY <3>1 DEF Warn
    <3>3. inbox' = Sent(<<f>>) /\ jobs' = jobs /\ Refuses(c) BY <1>6, <1>7, <1>12, <2>3, <3>1, StoreIs
    <3>4. inbox'[c] = inbox[c] \o <<f>> BY <1>9, <3>2, <3>3
    <3>5. Hit(f, id) BY <3>2 DEF Hit
    <3>6. First(inbox'[c], id, f) BY <1>1, <1>8, <3>4, <3>5, FirstNew
    <3>7. HadFailure(c)' BY <1>1, <3>3, FailureSeen
    <3>8. Right(c, w, n, f)' BY <3>2, <3>7 DEF Right
    <3>9. Answered(c, w, n)' BY <1>1, <1>2, <1>4, <2>1, <3>6, <3>8 DEF Answered
    <3>10. Fresh(c, n)' BY <1>10, <3>2, <3>3, <3>4
    <3> QED BY <3>9, <3>10
  <2>4. CASE ~Fails(r)
    <3>1. PICK f : /\ Answer(r, id) = <<f>> /\ f.k = r.k /\ f.id = id
                   /\ r.k = "add" => f.n = IF r.g \in Of(db) THEN 1 ELSE 0
                   /\ r.k = "delete" => f.n = Cardinality(r.refs)
      BY <1>12, AnswerIs
    <3>2. inbox' = Sent(<<f>>) /\ jobs' = jobs \cup Spawned(r, id) BY <1>6, <2>4, <3>1, StoreIs
    <3>3. inbox'[c] = inbox[c] \o <<f>> BY <1>7, <1>9, <3>1, <3>2
    <3>4. Hit(f, id) BY <1>5, <3>1 DEF Hit, Kinds
    <3>5. First(inbox'[c], id, f) BY <1>1, <1>8, <3>3, <3>4, FirstNew
    <3>6. Fresh(c, n)' BY <1>10, <3>1, <3>2, <3>3, SpawnedIs
    <3>7. Right(c, w, n, f)'
      <4>1. f.k # "warn" /\ f.k = w.expect BY <1>5, <2>2, <3>1 DEF Kinds
      <4>2. CASE r.k = "add" /\ r.g \notin Of(db)
        <5>1. Refuses(c) BY <1>6, <2>4, <4>2, StoreIs
        <5>2. HadFailure(c)' BY <1>1, <5>1, FailureSeen
        <5>3. w.need = 1 /\ f.n = 0 BY <2>2, <3>1, <4>2 DEF Need
        <5> QED BY <4>1, <5>2, <5>3 DEF Right
      <4>3. CASE ~(r.k = "add" /\ r.g \notin Of(db))
        <5>1. Succeeds(c) BY <1>6, <1>7, <1>12, <2>4, <4>3, StoreIs
        <5>2. Tally(c, n)' BY <1>1, <1>8, <5>1, TallyMore
        <5>3. ~(w.need > 0 /\ f.n # w.need)
          <6>1. CASE r.k = "delete"
            <7>1. PICK v : v = Cardinality(r.refs) OBVIOUS
            <7>2. w.need = v /\ f.n = v BY <2>2, <3>1, <6>1, <7>1 DEF Need
            <7> QED BY <7>2
          <6>2. CASE r.k = "add" BY <2>2, <3>1, <4>3, <6>2 DEF Need
          <6>3. CASE r.k \notin {"add", "delete"} BY <2>2, <6>3 DEF Need
          <6> QED BY <6>1, <6>2, <6>3
        <5> QED BY <4>1, <5>2, <5>3 DEF Right
      <4> QED BY <4>2, <4>3
    <3>8. Answered(c, w, n)' BY <1>1, <1>2, <1>4, <2>1, <3>5, <3>7 DEF Answered
    <3> QED BY <3>6, <3>8
  <2> QED BY <2>3, <2>4
<1> QED BY <1>11, <1>12

\* Starting and stopping a session is answered by status messages, and by a warning when
\* it failed.
LEMMA TurningRequest ==
  ASSUME EditInv, OwnInv, NEW c \in Clients, NEW n \in Nat, n > 0, NEW w,
         Turning(c, w, n), HandleRequest(c), InSession(c), Fresh(c, n)
  PROVE  Fresh(c, n)' /\ Turning(c, w, n)'
<1>1. /\ cli' = cli /\ toCore'[c] = Tail(toCore[c]) /\ did \in [Clients -> [ok : Nat, bad : Nat]]
      /\ Inboxes /\ Listed(inbox[c]) /\ toCore[c] # <<>>
  BY FramesListed DEF HandleRequest, EditInv, Queues, Inboxes, OwnInv
<1>2. PICK r : Turns(r, w) /\ toCore[c] = <<[r |-> r, id |-> <<c, n>>]>> /\ Unheard(inbox[c], <<c, n>>)
  BY <1>1 DEF Turning
<1>3. PICK id, m : id = <<c, n>> /\ m = [r |-> r, id |-> id] OBVIOUS
<1>4. toCore[c] = <<m>> /\ m.r = r /\ m.id = id BY <1>2, <1>3
<1>5. Head(toCore[c]) = m /\ Tail(toCore[c]) = <<>> BY <1>4, OneMessage
<1>6. \/ w.k = "up" /\ r.k = "connect"
      \/ w.k = "down" /\ r.k = "disconnect"
      \/ w.k = "tun" /\ r.k = "tun"
  BY <1>2 DEF Turns
<1>7. PICK starts, up \in BOOLEAN : HandleSession(c, r, id, starts, up)
  <2>1. \/ HandleStore(c, r, id)
        \/ \E starts, up \in BOOLEAN : HandleSession(c, r, id, starts, up)
    BY <1>4, <1>5, Zenon DEF HandleRequest
  <2>2. r.k \in {"connect", "disconnect", "tun"} BY <1>6
  <2> QED BY <2>1, <2>2, StoreIs
<1>8. jobs' = jobs BY <1>7, SessionIs
<1>9. NoJobFor(id)' BY <1>3, <1>8 DEF Turning, NoJobFor
<1>10. \/ inbox'[c] = inbox[c]
       \/ \E f : /\ inbox'[c] = inbox[c] \o <<f>> \/ inbox'[c] = inbox[c]
                 /\ f.k = "warn" /\ f.id = id
                 /\ f.key \in Fatal(w) => HadFailure(c)'
  <2>1. CASE inbox' = Sent(<<>>) BY <1>1, <2>1, SentNone
  <2>2. CASE inbox' = Sent(<<Warn(id, "failed")>>) /\ Refuses(c)
    <3>1. PICK f : f = Warn(id, "failed") OBVIOUS
    <3>2. f.k = "warn" /\ f.id = id BY <3>1 DEF Warn
    <3>3. inbox'[c] = inbox[c] \o <<f>> \/ inbox'[c] = inbox[c] BY <1>1, <2>2, <3>1, SentOne
    <3>4. HadFailure(c)' BY <1>1, <2>2, FailureSeen
    <3> QED BY <3>2, <3>3, <3>4
  <2>3. CASE inbox' = Sent(<<Warn(id, "tun")>>) /\ (r.k = "tun" => Refuses(c))
    <3>1. PICK f : f = Warn(id, "tun") OBVIOUS
    <3>2. f.k = "warn" /\ f.id = id /\ f.key = "tun" BY <3>1 DEF Warn
    <3>3. inbox'[c] = inbox[c] \o <<f>> \/ inbox'[c] = inbox[c] BY <1>1, <2>3, <3>1, SentOne
    <3>4. ASSUME f.key \in Fatal(w) PROVE HadFailure(c)'
      <4>1. r.k = "tun" BY <1>6, <3>2, <3>4 DEF Fatal
      <4> QED BY <1>1, <2>3, <4>1, FailureSeen
    <3> QED BY <3>2, <3>3, <3>4
  <2> QED BY <1>7, <2>1, <2>2, <2>3, SessionIs
<1>11. "exited" \notin Fatal(w) /\ Fatal(w) \subseteq {"failed", "tun"}
  BY DEF Fatal
<1>12. ASSUME NEW i \in DOMAIN inbox[c]
       PROVE  ~(inbox[c][i].k = "warn" /\ inbox[c][i].id = id /\ inbox[c][i].key \in Fatal(w))
  BY <1>2, <1>3, <1>11 DEF Unheard, Hit
<1>13. BadNews(c, w, n)'
  <2>1. CASE inbox'[c] = inbox[c] BY <1>3, <1>12, <2>1 DEF BadNews
  <2>2. ASSUME NEW f, inbox'[c] = inbox[c] \o <<f>>, f.key \in Fatal(w) => HadFailure(c)'
        PROVE  BadNews(c, w, n)'
    <3>1. PICK x : x = inbox'[c] OBVIOUS
    <3>2. /\ Len(inbox[c]) \in Nat /\ DOMAIN inbox[c] = 1..Len(inbox[c]) /\ DOMAIN x = 1..(Len(inbox[c]) + 1)
          /\ x[Len(inbox[c]) + 1] = f /\ \A i \in DOMAIN inbox[c] : x[i] = inbox[c][i]
      BY <1>1, <2>2, <3>1, MoreAt
    <3>3. ASSUME NEW i \in DOMAIN x, x[i].k = "warn" /\ x[i].id = <<c, n>> /\ x[i].key \in Fatal(w)
          PROVE  HadFailure(c)'
      <4>1. i \notin DOMAIN inbox[c] BY <1>3, <1>12, <3>2, <3>3
      <4>2. x[i] = f BY <3>2, <4>1
      <4> QED BY <2>2, <3>3, <4>2
    <3> QED BY <3>1, <3>3 DEF BadNews
  <2> QED BY <1>10, <2>1, <2>2
<1>14. Fresh(c, n)'
  <2>1. ASSUME NEW k \in Nat, k > n PROVE Unheard(inbox'[c], <<c, k>>) /\ NoJobFor(<<c, k>>)'
    <3>1. Unheard(inbox[c], <<c, k>>) /\ NoJobFor(<<c, k>>) BY <2>1 DEF Fresh
    <3>2. \A f : f.id = id => ~Hit(f, <<c, k>>) BY <1>3, <2>1 DEF Hit
    <3>3. Unheard(inbox'[c], <<c, k>>)
      <4>1. CASE inbox'[c] = inbox[c] BY <3>1, <4>1
      <4>2. ASSUME NEW f, inbox'[c] = inbox[c] \o <<f>>, f.id = id PROVE Unheard(inbox'[c], <<c, k>>)
        <5>1. ~Hit(f, <<c, k>>) BY <3>2, <4>2
        <5> QED BY <1>1, <3>1, <4>2, <5>1, UnheardMore
      <4> QED BY <1>10, <4>1, <4>2
    <3> QED BY <1>8, <3>1, <3>3 DEF NoJobFor
  <2> QED BY <2>1 DEF Fresh
<1>15. ~Answers(cli'[c].cmd) /\ Tail(cli'[c].todo) = <<>> BY <1>1 DEF Turning
<1> QED BY <1>1, <1>2, <1>3, <1>5, <1>9, <1>13, <1>14, <1>15 DEF Turning

\* What a request may change.
LEMMA RequestIs ==
  ASSUME EditInv, OwnInv, NEW c \in Clients, HandleRequest(c)
  PROVE  /\ cli' = cli /\ toCore[c] # <<>> /\ OwnQueue(toCore'[c], c)
         /\ \A d \in Clients : d # c => toCore'[d] = toCore[d]
         /\ did' = did \/ Succeeds(c) \/ Refuses(c)
         /\ \E k \in Nat : /\ \A j \in jobs' : j \in jobs \/ j.id = <<c, k>>
                           /\ inbox' = Sent(<<>>) \/ \E f : inbox' = Sent(<<f>>) /\ f.id = <<c, k>>
<1>1. /\ toCore[c] # <<>> /\ cli' = cli /\ toCore' = [toCore EXCEPT ![c] = Tail(toCore[c])]
      /\ toCore = [d \in Clients |-> toCore[d]] /\ OwnQueue(toCore[c], c)
  BY DEF HandleRequest, EditInv, Queues, OwnInv
<1>2. toCore'[c] = Tail(toCore[c]) /\ \A d \in Clients : d # c => toCore'[d] = toCore[d] BY <1>1
<1>3. PICK k \in Nat : OwnQueue(Tail(toCore[c]), c) /\ Head(toCore[c]).id = <<c, k>> BY <1>1, RestOwn
<1>4. PICK r, id : r = Head(toCore[c]).r /\ id = Head(toCore[c]).id OBVIOUS
<1>5. \/ HandleStore(c, r, id)
      \/ \E starts, up \in BOOLEAN : HandleSession(c, r, id, starts, up)
  BY <1>4, Zenon DEF HandleRequest
<1>6. CASE HandleStore(c, r, id)
  <2>1. did' = did \/ Succeeds(c) \/ Refuses(c) BY <1>6, StoreIs
  <2>2. \A j \in jobs' : j \in jobs \/ j.id = id
    <3>1. jobs' = jobs \/ jobs' = jobs \cup Spawned(r, id) BY <1>6, StoreIs
    <3> QED BY <3>1, SpawnedIs
  <2>3. inbox' = Sent(<<Warn(id, "failed")>>) \/ inbox' = Sent(Answer(r, id)) BY <1>6, StoreIs
  <2>4. inbox' = Sent(<<>>) \/ \E f : inbox' = Sent(<<f>>) /\ f.id = id
    <3>1. CASE inbox' = Sent(<<Warn(id, "failed")>>)
      <4>1. Warn(id, "failed").id = id BY DEF Warn
      <4> QED BY <3>1, <4>1
    <3>2. CASE inbox' = Sent(Answer(r, id)) BY <3>2, AnswerIs
    <3> QED BY <2>3, <3>1, <3>2
  <2> QED BY <1>1, <1>2, <1>3, <1>4, <2>1, <2>2, <2>4
<1>7. ASSUME NEW starts, NEW up, HandleSession(c, r, id, starts, up)
      PROVE  /\ did' = did \/ Succeeds(c) \/ Refuses(c)
             /\ \A j \in jobs' : j \in jobs \/ j.id = id
             /\ inbox' = Sent(<<>>) \/ \E f : inbox' = Sent(<<f>>) /\ f.id = id
  <2>1. /\ Succeeds(c) \/ Refuses(c)
        /\ jobs' = jobs
        /\ inbox' = Sent(<<>>) \/ inbox' = Sent(<<Warn(id, "failed")>>) \/ inbox' = Sent(<<Warn(id, "tun")>>)
    BY <1>7, SessionIs
  <2>2. Warn(id, "failed").id = id /\ Warn(id, "tun").id = id BY DEF Warn
  <2> QED BY <2>1, <2>2
<1> QED BY <1>1, <1>2, <1>3, <1>4, <1>5, <1>6, <1>7

LEMMA RequestOwn == ASSUME EditInv, OwnInv, NEW c \in Clients, HandleRequest(c) PROVE OwnInv'
<1>1. /\ cli' = cli /\ toCore[c] # <<>> /\ OwnQueue(toCore'[c], c)
      /\ \A d \in Clients : d # c => toCore'[d] = toCore[d]
      /\ did' = did \/ Succeeds(c) \/ Refuses(c)
  BY RequestIs
<1>2. PICK k \in Nat : /\ \A j \in jobs' : j \in jobs \/ j.id = <<c, k>>
                       /\ inbox' = Sent(<<>>) \/ \E f : inbox' = Sent(<<f>>) /\ f.id = <<c, k>>
  BY RequestIs
<1>3. /\ did' \in [Clients -> [ok : Nat, bad : Nat]]
      /\ \A d \in Clients : d # c => did'[d] = did[d]
      /\ HadFailure(c) => HadFailure(c)'
  BY <1>1, RecordTyped DEF OwnInv
<1>4. ASSUME NEW j \in jobs' PROVE \E d \in Clients : Own(j.id, d)
  <2>1. Own(<<c, k>>, c) BY OwnIs
  <2> QED BY <1>2, <2>1 DEF OwnInv
<1>5. ASSUME NEW d \in Clients, d # c PROVE OwnQueue(toCore'[d], d) /\ Progress(d)'
  <2>1. Progress(d)' BY <1>1, <1>2, <1>3, <1>5, OthersUndisturbed
  <2> QED BY <1>1, <1>5, <2>1 DEF OwnInv
<1>6. Progress(c)'
  <2>1. CASE Resting(c) BY <1>1, <2>1 DEF Resting
  <2>2. CASE Loading(c) BY <2>2, LoadingRequest DEF Progress
  <2>3. CASE Waiting(c)
    <3>1. PICK p, n, w : p = cli[c] /\ n = p.n /\ w = Head(p.todo).await OBVIOUS
    <3>2. n \in Nat /\ n > 0 /\ p.pc = "wait" /\ Fresh(c, n) BY <2>3, <3>1 DEF Waiting
    <3>3. InSession(c) BY <3>1, <3>2 DEF InSession
    <3>4. CASE Asking(c, w, n)
      <4>1. PICK r : Asks(cli[c].cmd, r, w) /\ Queued(c, r, n)
        BY <1>1, <3>4 DEF Asking, Working, Answered
      <4>2. Fresh(c, n)' /\ (Working(c, n)' \/ Answered(c, w, n)') BY <3>2, <3>3, <4>1, QueuedRequest
      <4>3. Asking(c, w, n)' BY <1>1, <3>4, <4>1, <4>2 DEF Asking
      <4>4. Waiting(c)' BY <1>1, <2>3, <3>1, <4>2, <4>3 DEF Waiting
      <4> QED BY <4>4 DEF Progress
    <3>5. CASE Hoping(c, w, n) BY <1>1, <3>5 DEF Hoping
    <3>6. CASE Turning(c, w, n)
      <4>1. Fresh(c, n)' /\ Turning(c, w, n)' BY <3>2, <3>3, <3>6, TurningRequest
      <4>2. Waiting(c)' BY <1>1, <2>3, <3>1, <4>1 DEF Waiting
      <4> QED BY <4>2 DEF Progress
    <3> QED BY <2>3, <3>1, <3>4, <3>5, <3>6 DEF Waiting
  <2>4. CASE Over(c) BY <1>1, <1>3, <2>4 DEF Over, Progress
  <2> QED BY <2>1, <2>2, <2>3, <2>4 DEF OwnInv, Progress
<1> QED BY <1>1, <1>3, <1>4, <1>5, <1>6 DEF OwnInv

-----------------------------------------------------------------------------
\* What the core does on its own.
LEMMA BroadcastOwn == ASSUME EditInv, OwnInv, BroadcastStatus \/ Drop PROVE OwnInv'
<1>1. /\ cli' = cli /\ toCore' = toCore /\ did' = did /\ jobs' = jobs
      /\ \E f : inbox' = Sent(<<f>>) /\ \A id : ~Hit(f, id)
  <2>1. /\ cli' = cli /\ toCore' = toCore /\ did' = did /\ jobs' = jobs
        /\ \/ inbox' = Sent(<<[k |-> "status", ref |-> Head(posted.status)]>>)
           \/ inbox' = Sent(<<[k |-> "tunstatus", on |-> Head(posted.tun)]>>)
           \/ inbox' = Sent(<<Warn(NoId, "exited")>>)
    BY DEF BroadcastStatus, Drop, history
  <2>2. PICK e1, e2, e3 : /\ e1 = [k |-> "status", ref |-> Head(posted.status)]
                          /\ e2 = [k |-> "tunstatus", on |-> Head(posted.tun)]
                          /\ e3 = Warn(NoId, "exited")
    OBVIOUS
  <2>3. e1.k = "status" /\ e2.k = "tunstatus" BY <2>2
  <2>4. e3.k = "warn" /\ e3.key = "exited" BY <2>2 DEF Warn
  <2>5. \A id : ~Hit(e1, id) /\ ~Hit(e2, id) /\ ~Hit(e3, id) BY <2>3, <2>4 DEF Hit
  <2>6. inbox' = Sent(<<e1>>) \/ inbox' = Sent(<<e2>>) \/ inbox' = Sent(<<e3>>) BY <2>1, <2>2
  <2> QED BY <2>1, <2>5, <2>6
<1>2. PICK f : inbox' = Sent(<<f>>) /\ \A id : ~Hit(f, id) BY <1>1
<1>3. ASSUME NEW d \in Clients PROVE Progress(d)'
  <2>1. Inboxes /\ Listed(inbox[d]) /\ Progress(d)
    BY FramesListed DEF EditInv, Inboxes, OwnInv
  <2>2. inbox'[d] = IF Hears(d, f) THEN inbox[d] \o <<f>> ELSE inbox[d] BY <1>2, <2>1, SentOne
  <2>3. Hears(d, f) => cli[d].pc # "idle" BY DEF Hears, InSession
  <2> QED BY <1>1, <1>2, <2>1, <2>2, <2>3, Undisturbed
<1> QED BY <1>1, <1>3 DEF OwnInv

\* The end of a refresh that a process waits for.
LEMMA AwaitedRefresh ==
  ASSUME OwnInv, NEW c \in Clients, NEW n \in Nat, n > 0, NEW r, NEW w, Listed(inbox[c]),
         NEW j \in jobs, Own(j.id, c), jobs' = jobs \ {j}, cli' = cli, toCore' = toCore,
         Asks(cli[c].cmd, r, w), Working(c, n), Fresh(c, n),
         NEW f, inbox'[c] = inbox[c] \o <<f>>, f.id = j.id,
         \/ f.k = "warn" /\ f.key = "failed" /\ Refuses(c)
         \/ f.k = "subscription" /\ Succeeds(c)
  PROVE  Fresh(c, n)' /\ Answered(c, w, n)'
<1>1. PICK g : \A x \in jobs : Own(x.id, c) => x = [g |-> g, id |-> <<c, n>>] BY DEF Working
<1>2. j = [g |-> g, id |-> <<c, n>>] BY <1>1
<1>3. f.id = <<c, n>> BY <1>2
<1>4. NoJobs(c)' BY <1>1, <1>2 DEF NoJobs
<1>5. Hit(f, <<c, n>>) BY <1>3 DEF Hit
<1>6. First(inbox'[c], <<c, n>>, f) BY <1>5, FirstNew DEF Working
<1>7. Right(c, w, n, f)'
  <2>1. CASE f.k = "warn" /\ f.key = "failed" /\ Refuses(c)
    <3>1. HadFailure(c)' BY <2>1, FailureSeen DEF OwnInv
    <3> QED BY <2>1, <3>1 DEF Right
  <2>2. CASE f.k = "subscription" /\ Succeeds(c)
    <3>1. Tally(c, n)' BY <2>2, TallyMore DEF OwnInv, Working
    <3>2. r.k = "refresh" BY DEF Asks, Working
    <3>3. w.expect = "subscription" /\ w.need = 0 BY <3>2 DEF Asks, Kind, Need
    <3> QED BY <2>2, <3>1, <3>3 DEF Right
  <2> QED BY <2>1, <2>2
<1>8. Fresh(c, n)'
  <2>1. ASSUME NEW k \in Nat, k > n PROVE Unheard(inbox'[c], <<c, k>>) /\ NoJobFor(<<c, k>>)'
    <3>1. Unheard(inbox[c], <<c, k>>) /\ NoJobFor(<<c, k>>) BY <2>1 DEF Fresh
    <3>2. ~Hit(f, <<c, k>>) BY <1>3, <2>1 DEF Hit
    <3>3. Unheard(inbox'[c], <<c, k>>) BY <3>1, <3>2, UnheardMore
    <3> QED BY <3>1, <3>3 DEF NoJobFor
  <2> QED BY <2>1 DEF Fresh
<1> QED BY <1>4, <1>6, <1>7, <1>8 DEF Answered, Working

LEMMA RefreshOwn == ASSUME EditInv, OwnInv, NEW j \in jobs, NEW ok \in BOOLEAN, RefreshDone(j, ok) PROVE OwnInv'
<1>1. PICK c \in Clients, k \in Nat : j.id = <<c, k>> BY DEF OwnInv, Own
<1>2. j.id[1] = c /\ Own(j.id, c) BY <1>1, OwnIs
<1> DEFINE fine == ok /\ j.g \in Of(db) /\ db.g[j.g].url # "none"
<1>3. /\ jobs' = jobs \ {j} /\ toCore' = toCore /\ cli' = cli
      /\ inbox' = Sent(<<IF fine THEN Frame("subscription", j.id) ELSE Warn(j.id, "failed")>>)
      /\ did' = IF cli[j.id[1]].cmd.k = "srefresh" THEN Record(j.id[1], fine) ELSE did
  BY Zenon DEF RefreshDone
<1> HIDE DEF fine
<1>4. PICK f : f = IF fine THEN Frame("subscription", j.id) ELSE Warn(j.id, "failed") OBVIOUS
<1>5. f.id = j.id /\ \/ f.k = "warn" /\ f.key = "failed" /\ ~fine
                     \/ f.k = "subscription" /\ fine
  BY <1>4 DEF Frame, Warn
<1>6. inbox' = Sent(<<f>>) BY <1>3, <1>4
<1>7. IF cli[c].cmd.k = "srefresh" THEN IF fine THEN Succeeds(c) ELSE Refuses(c) ELSE did' = did
  BY <1>2, <1>3 DEF Record, Succeeds, Refuses
<1>8. /\ did' \in [Clients -> [ok : Nat, bad : Nat]]
      /\ \A d \in Clients : d # c => did'[d] = did[d]
      /\ HadFailure(c) => HadFailure(c)'
  BY <1>7, RecordTyped DEF OwnInv
<1>9. ASSUME NEW d \in Clients, d # c PROVE Progress(d)'
  BY <1>1, <1>3, <1>5, <1>6, <1>8, <1>9, OthersUndisturbed
<1>10. Inboxes /\ Listed(inbox[c]) /\ Progress(c)
  BY FramesListed DEF EditInv, Inboxes, OwnInv
<1>11. inbox'[c] = IF Hears(c, f) THEN inbox[c] \o <<f>> ELSE inbox[c] BY <1>6, <1>10, SentOne
<1>12. Hears(c, f) <=> InSession(c) BY <1>5 DEF Hears
<1>13. Progress(c)'
  <2>1. CASE cli[c].cmd.k # "srefresh"
    <3>1. Hears(c, f) => cli[c].pc # "idle" BY DEF Hears, InSession
    <3>2. \A m \in Nat : Hit(f, <<c, m>>) => ~NoJobFor(<<c, m>>) BY <1>5 DEF Hit, NoJobFor
    <3> QED BY <1>3, <1>7, <1>10, <1>11, <2>1, <3>1, <3>2, Undisturbed
  <2>2. CASE cli[c].cmd.k = "srefresh"
    <3>1. ~NoJobs(c) BY <1>2 DEF NoJobs
    <3>2. CASE Resting(c) \/ Loading(c) BY <3>1, <3>2 DEF Resting, Loading
    <3>3. CASE Waiting(c)
      <4>1. PICK p, n, w : p = cli[c] /\ n = p.n /\ w = Head(p.todo).await OBVIOUS
      <4>2. n \in Nat /\ n > 0 /\ p.pc = "wait" /\ Fresh(c, n) BY <3>3, <4>1 DEF Waiting
      <4>3. Asking(c, w, n) BY <2>2, <3>3, <4>1 DEF Waiting, Hoping, Hopes, Turning
      <4>4. PICK r : Asks(cli[c].cmd, r, w) /\ Working(c, n) BY <2>2, <3>1, <4>3 DEF Asking, Queued, Answered
      <4>5. inbox'[c] = inbox[c] \o <<f>> BY <1>11, <1>12, <4>1, <4>2 DEF InSession
      <4>6. \/ f.k = "warn" /\ f.key = "failed" /\ Refuses(c)
            \/ f.k = "subscription" /\ Succeeds(c)
        BY <1>5, <1>7, <2>2
      <4>7. Fresh(c, n)' /\ Answered(c, w, n)' BY <1>2, <1>3, <1>5, <1>10, <4>2, <4>4, <4>5, <4>6, AwaitedRefresh
      <4>8. Asking(c, w, n)' BY <1>3, <4>3, <4>4, <4>7 DEF Asking
      <4>9. Waiting(c)' BY <1>3, <3>3, <4>1, <4>7, <4>8 DEF Waiting
      <4> QED BY <4>9 DEF Progress
    <3>4. CASE Over(c) BY <1>3, <1>8, <2>2, <3>1, <3>4 DEF Over, Progress
    <3> QED BY <1>10, <3>2, <3>3, <3>4 DEF Progress
  <2> QED BY <2>1, <2>2
<1>14. \A x \in jobs' : x \in jobs BY <1>3
<1> QED BY <1>3, <1>8, <1>9, <1>13, <1>14 DEF OwnInv

-----------------------------------------------------------------------------
\* What a process does.
LEMMA StepOwn ==
  ASSUME OwnInv, NEW c \in Clients, jobs' = jobs, did' = did,
         \A d \in Clients : d # c => cli'[d] = cli[d] /\ toCore'[d] = toCore[d] /\ inbox'[d] = inbox[d],
         Inboxes, OwnQueue(toCore'[c], c), Progress(c)'
  PROVE  OwnInv'
<1>1. ASSUME NEW d \in Clients, d # c PROVE OwnQueue(toCore'[d], d) /\ Progress(d)'
  <2>1. Listed(inbox[d]) /\ Progress(d) BY FramesListed DEF Inboxes, OwnInv
  <2>2. Progress(d)' BY <1>1, <2>1, Undisturbed
  <2> QED BY <1>1, <2>2 DEF OwnInv
<1> QED BY <1>1 DEF OwnInv

LEMMA DoneOwn ==
  ASSUME EditInv, OwnInv, NEW c \in Clients, NEW out, Done(c, out), jobs' = jobs, did' = did,
         out = "failed" => HadFailure(c),
         out = "ok" /\ Answers(cli[c].cmd) =>
           Tally(c, cli[c].n) /\ toCore[c] = <<>> /\ (cli[c].cmd.k = "srefresh" => NoJobs(c))
  PROVE  OwnInv'
<1>1. Queues /\ Inboxes /\ Processes BY DEF EditInv
<1>2. PICK p, q : p = cli[c] /\ q = [p EXCEPT !.pc = "done", !.out = out, !.todo = <<>>] OBVIOUS
<1>3. cli' = [cli EXCEPT ![c] = q] /\ inbox' = [inbox EXCEPT ![c] = <<>>] /\ toCore' = toCore
  BY <1>2 DEF Done
<1>4. Process(p) BY <1>1, <1>2 DEF Processes
<1>5. q.pc = "done" /\ q.out = out /\ q.cmd = p.cmd /\ q.n = p.n BY <1>2, <1>4 DEF Process
<1>6. cli'[c] = q BY <1>1, <1>3 DEF Processes
<1>7. \A d \in Clients : d # c => cli'[d] = cli[d] /\ toCore'[d] = toCore[d] /\ inbox'[d] = inbox[d]
  BY <1>1, <1>3 DEF Processes, Inboxes
<1>8. OwnQueue(toCore'[c], c) BY <1>3 DEF OwnInv
<1>9. Over(c)'
  <2>1. HadFailure(c)' <=> HadFailure(c) BY DEF HadFailure
  <2>2. NoJobs(c)' <=> NoJobs(c) BY DEF NoJobs
  <2>3. Tally(c, p.n)' <=> Tally(c, p.n) BY DEF Tally
  <2> QED BY <1>2, <1>3, <1>5, <1>6, <2>1, <2>2, <2>3 DEF Over
<1>10. Progress(c)' BY <1>9 DEF Progress
<1> QED BY <1>1, <1>7, <1>8, <1>10, StepOwn

LEMMA SkipIs ==
  ASSUME EditInv, OwnInv, NEW c \in Clients, inbox[c] # <<>>, Skip(c)
  PROVE  /\ cli' = cli /\ toCore' = toCore /\ inbox'[c] = Tail(inbox[c]) /\ Inboxes /\ Listed(inbox[c])
         /\ \A d \in Clients : d # c => inbox'[d] = inbox[d]
         /\ OwnQueue(toCore'[c], c)
         /\ \A id : Unheard(inbox[c], id) => Unheard(inbox'[c], id)
<1>1. /\ cli' = cli /\ toCore' = toCore /\ inbox' = [inbox EXCEPT ![c] = Tail(inbox[c])] /\ Inboxes /\ Listed(inbox[c])
  BY FramesListed DEF Skip, EditInv, Inboxes
<1>2. inbox'[c] = Tail(inbox[c]) /\ \A d \in Clients : d # c => inbox'[d] = inbox[d]
  BY <1>1 DEF Inboxes
<1>3. \A id : Unheard(inbox[c], id) => Unheard(inbox'[c], id) BY <1>1, <1>2, UnheardRest
<1> QED BY <1>1, <1>2, <1>3 DEF OwnInv

LEMMA FreshRest ==
  ASSUME NEW c, NEW n, Fresh(c, n), jobs' = jobs, \A id : Unheard(inbox[c], id) => Unheard(inbox'[c], id)
  PROVE  Fresh(c, n)'
  BY DEF Fresh, NoJobFor

LEMMA StagesSplit ==
  ASSUME NEW cmd, NEW s, Stages(cmd, s), s # <<>>
  PROVE  /\ IF Answers(cmd) THEN AnswerStage(cmd, Head(s)) ELSE OtherStage(cmd, Head(s)) /\ Tail(s) = <<>>
         /\ Stages(cmd, Tail(s))
<1>1. CASE Answers(cmd)
  <2>1. PICK S : s \in Seq(S) /\ \A st \in S : AnswerStage(cmd, st) BY <1>1 DEF Stages
  <2>2. Head(s) \in S /\ Tail(s) \in Seq(S) BY <2>1
  <2>3. AnswerStage(cmd, Head(s)) BY <2>1, <2>2
  <2>4. Stages(cmd, Tail(s)) BY <1>1, <2>1, <2>2 DEF Stages
  <2> QED BY <1>1, <2>3, <2>4
<1>2. CASE ~Answers(cmd)
  <2>1. PICK st : s = <<st>> /\ OtherStage(cmd, st) BY <1>2 DEF Stages
  <2>2. Head(s) = st /\ Tail(s) = <<>> BY <2>1, OneMessage
  <2> QED BY <1>2, <2>1, <2>2 DEF Stages
<1> QED BY <1>1, <1>2

\* The request of a stage, with the group of an added profile filled in.
Filled(r, got) == IF r.k = "add" /\ r.g = 0 THEN [r EXCEPT !.g = got] ELSE r

Numbered(s, got, c, n) ==
  [i \in DOMAIN s |-> [r |-> IF s[i].k = "add" /\ s[i].g = 0 THEN [s[i] EXCEPT !.g = got] ELSE s[i],
                       id |-> <<c, n + i>>]]

LEMMA OneRequest ==
  ASSUME NEW s, NEW r, s = <<r>>, NEW got, NEW c, NEW n \in Nat, NEW x, x = Numbered(s, got, c, n)
  PROVE  x = <<[r |-> Filled(r, got), id |-> <<c, n + 1>>]>> /\ Len(s) = 1
<1>1. DOMAIN s = {1} /\ s[1] = r /\ Len(s) = 1 OBVIOUS
<1>2. PICK m : m = [r |-> Filled(r, got), id |-> <<c, n + 1>>] OBVIOUS
<1>3. [r |-> IF s[1].k = "add" /\ s[1].g = 0 THEN [s[1] EXCEPT !.g = got] ELSE s[1], id |-> <<c, n + 1>>] = m
  BY <1>1, <1>2, Zenon DEF Filled
<1>4. x = [i \in {1} |-> m]
  <2>1. \A i \in {1} : i = 1 OBVIOUS
  <2> QED BY <1>1, <1>3, <2>1, Zenon DEF Numbered
<1>5. [i \in {1} |-> m] = <<m>> OBVIOUS
<1> QED BY <1>1, <1>2, <1>4, <1>5

LEMMA EnterIs ==
  ASSUME Queues, Inboxes, Processes, NEW c \in Clients, NEW p, Process(p), p.n \in Nat,
         NEW stages, stages # <<>>, GoodPlan(stages), NEW got, Enter(c, p, stages, got), toCore[c] = <<>>,
         NEW st, st = Head(stages)
  PROVE  /\ \A d \in Clients : d # c => cli'[d] = cli[d] /\ toCore'[d] = toCore[d] /\ inbox'[d] = inbox[d]
         /\ OwnQueue(toCore'[c], c) /\ cli'[c].cmd = p.cmd
         /\ st.await.k = "usage" => cli'[c].pc = "done" /\ cli'[c].out = "usage"
         /\ st.await.k = "none" => cli'[c].pc = "done" /\ cli'[c].out = "ok"
         /\ st.await.k \notin {"none", "usage"} =>
              /\ cli'[c].pc = "wait" /\ cli'[c].out = p.out /\ cli'[c].todo = stages
              /\ cli'[c].n = p.n + Len(st.send) /\ inbox'[c] = Tail(inbox[c])
         /\ st.send = <<>> => toCore'[c] = <<>> /\ Len(st.send) = 0
         /\ \A r : st.send = <<r>> =>
              toCore'[c] = <<[r |-> Filled(r, got), id |-> <<c, p.n + 1>>]>> /\ Len(st.send) = 1
<1> DEFINE rq(i) == IF st.send[i].k = "add" /\ st.send[i].g = 0
                    THEN [st.send[i] EXCEPT !.g = got] ELSE st.send[i]
           rs == [i \in DOMAIN st.send |-> [r |-> rq(i), id |-> <<c, p.n + i>>]]
           over == st.await.k \in {"none", "usage"}
           out == CASE st.await.k = "usage" -> "usage" [] st.await.k = "none" -> "ok" [] OTHER -> p.out
           todo == IF over THEN <<>> ELSE stages
           pc == IF over THEN "done" ELSE "wait"
           n == p.n + Len(rs)
           q == [p EXCEPT !.pc = pc, !.n = n, !.got = got, !.todo = todo, !.out = out]
           ib == IF over THEN <<>> ELSE Tail(inbox[c])
<1>1. /\ toCore' = [toCore EXCEPT ![c] = toCore[c] \o rs]
      /\ cli' = [cli EXCEPT ![c] = q]
      /\ inbox' = [inbox EXCEPT ![c] = ib]
  BY Zenon DEF Enter
<1>2. PICK S : st.send \in Seq(S)
  <2>1. PICK T : stages \in Seq(T) /\ \A x \in T : GoodSends(x.send) BY DEF GoodPlan
  <2>2. st \in T BY <2>1
  <2> QED BY <2>1, <2>2 DEF GoodSends
<1>3. Len(st.send) \in Nat /\ DOMAIN st.send = 1..Len(st.send) BY <1>2
<1>4. Len(rs) = Len(st.send) BY <1>3
<1>5. OwnQueue(rs, c)
  <2> DEFINE M == {rs[i] : i \in 1..Len(st.send)}
  <2>1. \A m \in M : Own(m.id, c)
    <3> SUFFICES ASSUME NEW i \in 1..Len(st.send) PROVE Own(rs[i].id, c) OBVIOUS
    <3> HIDE DEF rq
    <3>1. rs[i].id = <<c, p.n + i>> /\ p.n + i \in Nat BY <1>3
    <3> QED BY <3>1 DEF Own
  <2>2. rs = [i \in 1..Len(st.send) |-> rs[i]] BY <1>3
  <2>3. \A i \in 1..Len(st.send) : rs[i] \in M OBVIOUS
  <2> HIDE DEF rs, M
  <2>4. rs \in Seq(M) BY <1>3, <2>2, <2>3
  <2> QED BY <2>1, <2>4 DEF OwnQueue
<1>6. ASSUME NEW r, st.send = <<r>>
      PROVE  rs = <<[r |-> Filled(r, got), id |-> <<c, p.n + 1>>]>> /\ Len(st.send) = 1
  <2>1. PICK s : s = st.send OBVIOUS
  <2>2. rs = Numbered(s, got, c, p.n) BY <2>1, Zenon DEF Numbered
  <2> HIDE DEF rs
  <2> QED BY <1>6, <2>1, <2>2, OneRequest
<1>7. st.send = <<>> => rs = <<>> /\ Len(st.send) = 0 BY <1>3, <1>4
<1>8. toCore[c] \o rs = rs
  <2> HIDE DEF rs
  <2>1. PICK M : rs \in Seq(M) BY <1>5 DEF OwnQueue
  <2> QED BY <2>1
<1>9. /\ q.pc = pc /\ q.n = n /\ q.todo = todo /\ q.out = out /\ q.cmd = p.cmd
  <2>1. PICK v1, v2, v3, v4 : v1 = pc /\ v2 = n /\ v3 = todo /\ v4 = out OBVIOUS
  <2>2. PICK v : v = [p EXCEPT !.pc = v1, !.n = v2, !.got = got, !.todo = v3, !.out = v4] OBVIOUS
  <2>3. v.pc = v1 /\ v.n = v2 /\ v.todo = v3 /\ v.out = v4 /\ v.cmd = p.cmd BY <2>2 DEF Process
  <2>4. q = v BY <2>1, <2>2
  <2> HIDE DEF q, pc, n, todo, out
  <2> QED BY <2>1, <2>3, <2>4
<1> HIDE DEF q, rs
<1>10. cli'[c] = q /\ toCore'[c] = rs /\ inbox'[c] = ib
  <2> HIDE DEF ib
  <2> QED BY <1>1, <1>8 DEF Queues, Inboxes, Processes
<1>11. \A d \in Clients : d # c => cli'[d] = cli[d] /\ toCore'[d] = toCore[d] /\ inbox'[d] = inbox[d]
  <2> HIDE DEF ib
  <2> QED BY <1>1 DEF Queues, Inboxes, Processes
<1>12. st.await.k = "usage" => pc = "done" /\ out = "usage" OBVIOUS
<1>13. st.await.k = "none" => pc = "done" /\ out = "ok" OBVIOUS
<1>14. ~over => pc = "wait" /\ out = p.out /\ todo = stages /\ ib = Tail(inbox[c]) OBVIOUS
<1> HIDE DEF pc, out, todo, n, ib
<1>15. n = p.n + Len(st.send) BY <1>4 DEF n
<1> QED BY <1>5, <1>6, <1>7, <1>9, <1>10, <1>11, <1>12, <1>13, <1>14, <1>15

LEMMA FilledAsks ==
  ASSUME NEW cmd, NEW r, NEW w, Asks(cmd, r, w), NEW got, NEW q, q = Filled(r, got) PROVE Asks(cmd, q, w)
<1>1. CASE r.k = "add" /\ r.g = 0
  <2>1. r = [k |-> "add", g |-> r.g] BY <1>1 DEF Asks
  <2>2. q = [k |-> "add", g |-> got] BY <1>1, <2>1 DEF Filled
  <2>3. q.k = "add" /\ q = [k |-> "add", g |-> q.g] BY <2>2
  <2>4. Kind(q) = Kind(r) /\ Need(q) = Need(r) BY <1>1, <2>3 DEF Kind, Need
  <2> QED BY <1>1, <2>3, <2>4 DEF Asks
<1>2. CASE ~(r.k = "add" /\ r.g = 0) BY <1>2 DEF Filled
<1> QED BY <1>1, <1>2

LEMMA EnterOwn ==
  ASSUME EditInv, OwnInv, NEW c \in Clients, inbox[c] # <<>>, NEW p, p = cli[c],
         NEW stages, GoodPlan(stages), Stages(p.cmd, stages), NEW got, Enter(c, p, stages, got),
         jobs' = jobs, did' = did, p.n \in Nat, p.out = "none", toCore[c] = <<>>, Fresh(c, p.n),
         Answers(p.cmd) => Tally(c, p.n), p.cmd.k = "srefresh" => NoJobs(c),
         p.n > 0 \/ p.cmd.k # "sadd" \/ stages = <<>>
  PROVE  OwnInv'
<1>1. Queues /\ Inboxes /\ Processes /\ Process(p) /\ Listed(inbox[c])
  BY FramesListed DEF EditInv, Processes, Inboxes
<1>2. CASE stages = <<>>
  <2>1. PICK out : out = "ok" OBVIOUS
  <2>2. Done(c, out) BY <1>2, <2>1 DEF Enter
  <2> QED BY <2>1, <2>2, DoneOwn
<1>3. CASE stages # <<>>
  <2>1. PICK st : st = Head(stages) OBVIOUS
  <2>2. /\ IF Answers(p.cmd) THEN AnswerStage(p.cmd, st) ELSE OtherStage(p.cmd, st) /\ Tail(stages) = <<>>
    BY <1>3, <2>1, StagesSplit
  <2>3. /\ \A d \in Clients : d # c => cli'[d] = cli[d] /\ toCore'[d] = toCore[d] /\ inbox'[d] = inbox[d]
        /\ OwnQueue(toCore'[c], c) /\ cli'[c].cmd = p.cmd
        /\ st.await.k = "usage" => cli'[c].pc = "done" /\ cli'[c].out = "usage"
        /\ st.await.k = "none" => cli'[c].pc = "done" /\ cli'[c].out = "ok"
        /\ st.await.k \notin {"none", "usage"} =>
             /\ cli'[c].pc = "wait" /\ cli'[c].out = p.out /\ cli'[c].todo = stages
             /\ cli'[c].n = p.n + Len(st.send) /\ inbox'[c] = Tail(inbox[c])
        /\ st.send = <<>> => toCore'[c] = <<>> /\ Len(st.send) = 0
        /\ \A r : st.send = <<r>> =>
             toCore'[c] = <<[r |-> Filled(r, got), id |-> <<c, p.n + 1>>]>> /\ Len(st.send) = 1
    BY <1>1, <1>3, <2>1, EnterIs
  <2>4. ASSUME NEW n \in Nat, n = p.n \/ n = p.n + 1, inbox'[c] = Tail(inbox[c]) PROVE Fresh(c, n)'
    <3>1. ASSUME NEW k \in Nat, k > n PROVE Unheard(inbox'[c], <<c, k>>) /\ NoJobFor(<<c, k>>)'
      <4>1. Unheard(inbox[c], <<c, k>>) /\ NoJobFor(<<c, k>>) BY <2>4, <3>1 DEF Fresh
      <4> QED BY <1>1, <2>4, <4>1, UnheardRest DEF NoJobFor
    <3> QED BY <3>1 DEF Fresh
  <2>5. Unheard(inbox[c], <<c, p.n + 1>>) /\ NoJobFor(<<c, p.n + 1>>)
    <3>1. PICK k \in Nat : k = p.n + 1 OBVIOUS
    <3>2. k > p.n BY <3>1
    <3> QED BY <3>1, <3>2 DEF Fresh
  <2>6. Unheard(Tail(inbox[c]), <<c, p.n + 1>>) BY <1>1, <2>5, UnheardRest
  <2>7. Progress(c)'
    <3>1. CASE st.await.k = "usage" BY <2>3, <3>1 DEF Over, Progress
    <3>2. CASE st.await.k = "none"
      <4>1. ~Answers(p.cmd) BY <2>2, <3>2 DEF AnswerStage, Hopes, Asks
      <4> QED BY <2>3, <3>2, <4>1 DEF Over, Progress
    <3>3. CASE st.await.k \notin {"none", "usage"}
      <4>1. PICK w : w = st.await OBVIOUS
      <4>2. cli'[c].todo = stages /\ Head(cli'[c].todo).await = w BY <2>1, <2>3, <3>3, <4>1
      <4>3. CASE Hopes(p.cmd, w) /\ st.send = <<>> /\ Answers(p.cmd)
        <5>1. p.n > 0 BY <1>3, <4>3 DEF Hopes
        <5>2. cli'[c].n = p.n BY <2>3, <3>3, <4>3
        <5>3. Fresh(c, p.n)' BY <2>3, <2>4, <3>3
        <5>4. Hoping(c, w, p.n)' BY <2>3, <4>3 DEF Hoping, Tally
        <5>5. Waiting(c)' BY <1>3, <2>3, <3>3, <4>2, <5>1, <5>2, <5>3, <5>4 DEF Waiting
        <5> QED BY <5>5 DEF Progress
      <4>4. ASSUME NEW r, st.send = <<r>>, Asks(p.cmd, r, w), Answers(p.cmd) PROVE Progress(c)'
        <5>1. PICK n \in Nat : n = p.n + 1 OBVIOUS
        <5>2. n > 0 /\ n - 1 = p.n BY <5>1
        <5>3. PICK q : q = Filled(r, got) OBVIOUS
        <5>4. Asks(p.cmd, q, w) BY <4>4, <5>3, FilledAsks
        <5>5. cli'[c].n = n BY <2>3, <3>3, <4>4, <5>1
        <5>6. Fresh(c, n)' BY <2>3, <2>4, <3>3, <5>1
        <5>7. Queued(c, q, n)'
          <6>1. toCore'[c] = <<[r |-> q, id |-> <<c, n>>]>> BY <2>3, <4>4, <5>1, <5>3
          <6>2. Tally(c, n - 1)' BY <4>4, <5>2 DEF Tally
          <6>3. Unheard(inbox'[c], <<c, n>>) /\ NoJobFor(<<c, n>>)' BY <2>3, <2>5, <2>6, <3>3, <5>1 DEF NoJobFor
          <6>4. cli'[c].cmd.k = "srefresh" => NoJobs(c)' BY <2>3 DEF NoJobs
          <6> QED BY <6>1, <6>2, <6>3, <6>4 DEF Queued
        <5>8. Asking(c, w, n)' BY <2>3, <4>4, <5>4, <5>7 DEF Asking
        <5>9. Waiting(c)' BY <1>3, <2>3, <3>3, <4>2, <5>2, <5>5, <5>6, <5>8 DEF Waiting
        <5> QED BY <5>9 DEF Progress
      <4>5. ASSUME NEW r, st.send = <<r>>, Turns(r, w), ~Answers(p.cmd), p.cmd.k # "srefresh", Tail(stages) = <<>>
            PROVE  Progress(c)'
        <5>1. PICK n \in Nat : n = p.n + 1 OBVIOUS
        <5>2. n > 0 BY <5>1
        <5>3. Filled(r, got) = r BY <4>5 DEF Turns, Filled
        <5>5. cli'[c].n = n BY <2>3, <3>3, <4>5, <5>1
        <5>6. Fresh(c, n)' BY <2>3, <2>4, <3>3, <5>1
        <5>7. toCore'[c] = <<[r |-> r, id |-> <<c, n>>]>> BY <2>3, <4>5, <5>1, <5>3
        <5>8. Unheard(inbox'[c], <<c, n>>) /\ NoJobFor(<<c, n>>)' BY <2>3, <2>5, <2>6, <3>3, <5>1 DEF NoJobFor
        <5>9. Turning(c, w, n)' BY <2>3, <4>2, <4>5, <5>7, <5>8 DEF Turning
        <5>10. Waiting(c)' BY <1>3, <2>3, <3>3, <4>2, <5>2, <5>5, <5>6, <5>9 DEF Waiting
        <5> QED BY <5>10 DEF Progress
      <4>6. CASE Answers(p.cmd)
        <5>1. \/ st.send = <<>> /\ Hopes(p.cmd, w)
              \/ \E r : st.send = <<r>> /\ Asks(p.cmd, r, w)
          BY <2>2, <3>3, <4>1, <4>6 DEF AnswerStage
        <5> QED BY <4>3, <4>4, <4>6, <5>1
      <4>7. CASE ~Answers(p.cmd)
        <5>1. \E r : st.send = <<r>> /\ Turns(r, w) /\ p.cmd.k # "srefresh" /\ Tail(stages) = <<>>
          BY <2>2, <3>3, <4>1, <4>7 DEF OtherStage
        <5> QED BY <4>5, <4>7, <5>1
      <4> QED BY <4>6, <4>7
    <3> QED BY <3>1, <3>2, <3>3
  <2> QED BY <1>1, <2>3, <2>7, StepOwn
<1> QED BY <1>2, <1>3

LEMMA TimeoutOwn == ASSUME EditInv, OwnInv, NEW c \in Clients, Timeout(c) PROVE OwnInv'
<1>1. PICK out : out = "timeout" OBVIOUS
<1>2. Done(c, out) /\ jobs' = jobs /\ did' = did BY <1>1 DEF Timeout, history
<1> QED BY <1>1, <1>2, DoneOwn

\* Plans.
LEMMA UsageStages == ASSUME NEW cmd PROVE Stages(cmd, Usage)
<1>1. PICK st, e, u : e = <<>> /\ u = "usage" /\ st.send = e /\ st.await.k = u /\ Usage = <<st>>
  <2>1. PICK st, w : w = [k |-> "usage"] /\ st = [send |-> <<>>, await |-> w] OBVIOUS
  <2>2. PICK e, u : e = <<>> /\ u = "usage" OBVIOUS
  <2>3. w.k = u BY <2>1, <2>2
  <2>4. PICK s : s = [send |-> e, await |-> w] OBVIOUS
  <2>5. s.send = e /\ s.await = w BY <2>4
  <2>6. s = st BY <2>1, <2>2, <2>4
  <2>7. Usage = <<st>> BY <2>1, Zenon DEF Usage
  <2> QED BY <2>2, <2>3, <2>5, <2>6, <2>7
<1>2. AnswerStage(cmd, st) /\ OtherStage(cmd, st) BY <1>1 DEF AnswerStage, OtherStage
<1>3. PICK S : S = {st} OBVIOUS
<1>4. <<st>> \in Seq(S) /\ \A x \in S : AnswerStage(cmd, x) BY <1>2, <1>3
<1> QED BY <1>1, <1>2, <1>4 DEF Stages

LEMMA NoStages == ASSUME NEW cmd, NEW p, p = <<>> PROVE Stages(cmd, p)
<1>1. PICK S : S = {0} \ {0} OBVIOUS
<1>2. p \in Seq(S) /\ \A x \in S : AnswerStage(cmd, x) BY <1>1
<1> QED BY <1>2 DEF Stages

LEMMA AskStage ==
  ASSUME NEW cmd, Answers(cmd), NEW r, NEW w, Asks(cmd, r, w)
  PROVE  AnswerStage(cmd, Stage(r, w)) /\ Stages(cmd, <<Stage(r, w)>>)
<1>1. PICK st, q : q = <<r>> /\ st = [send |-> q, await |-> w] OBVIOUS
<1>2. Stage(r, w) = st BY <1>1, Zenon DEF Stage
<1>3. st.send = <<r>> /\ st.await = w BY <1>1
<1>4. AnswerStage(cmd, st) BY <1>3 DEF AnswerStage
<1>5. PICK S : S = {st} OBVIOUS
<1>6. <<st>> \in Seq(S) /\ \A x \in S : AnswerStage(cmd, x) BY <1>4, <1>5
<1>7. Stages(cmd, <<st>>) BY <1>6 DEF Stages
<1> QED BY <1>2, <1>4, <1>7

LEMMA TurnStage ==
  ASSUME NEW cmd, ~Answers(cmd), cmd.k # "srefresh", NEW r, NEW w, Turns(r, w) \/ w.k = "none"
  PROVE  Stages(cmd, <<Stage(r, w)>>)
<1>1. PICK st, q : q = <<r>> /\ st = [send |-> q, await |-> w] OBVIOUS
<1>2. Stage(r, w) = st BY <1>1, Zenon DEF Stage
<1>3. st.send = q /\ st.await = w BY <1>1
<1>4. Listed(q)
  <2>1. PICK S : S = {r} OBVIOUS
  <2>2. q \in Seq(S) BY <1>1, <2>1
  <2> QED BY <2>2, ListIntro
<1>5. OtherStage(cmd, st) BY <1>1, <1>3, <1>4 DEF OtherStage
<1> QED BY <1>2, <1>5 DEF Stages

\* A reply that reports need items.
LEMMA ReplyAsks ==
  ASSUME NEW cmd, cmd.k # "srefresh", NEW r, r.k \in Kinds, r.k # "refresh", r.k = "add" => r = [k |-> "add", g |-> r.g],
         NEW need, need = Need(r), NEW kind, kind = r.k
  PROVE  Asks(cmd, r, Reply(kind, need, FALSE))
<1>1. PICK i, no : i = "id" /\ no = FALSE OBVIOUS
<1>2. PICK w : w = [k |-> i, expect |-> kind, need |-> need, soft |-> no] OBVIOUS
<1>3. Reply(kind, need, FALSE) = w BY <1>1, <1>2, Zenon DEF Reply
<1>4. w.k = "id" /\ w.expect = kind /\ w.need = need /\ w.soft = FALSE BY <1>1, <1>2
<1>5. Kind(r) = r.k BY DEF Kind
<1> QED BY <1>3, <1>4, <1>5 DEF Asks

LEMMA RequestStages ==
  ASSUME NEW cmd, Answers(cmd), cmd.k # "srefresh", NEW r, NEW kind, kind = r.k,
         kind \in Kinds \ {"refresh", "add", "delete"}
  PROVE  AnswerStage(cmd, Stage(r, Reply(kind, 0, FALSE))) /\ Stages(cmd, Request(r, kind))
<1>1. Need(r) = 0 BY DEF Need
<1>2. Asks(cmd, r, Reply(kind, 0, FALSE)) BY <1>1, ReplyAsks
<1>3. PICK w : w = Reply(kind, 0, FALSE) OBVIOUS
<1>4. Request(r, kind) = <<Stage(r, w)>> BY <1>3, Zenon DEF Request
<1> QED BY <1>2, <1>3, <1>4, AskStage

LEMMA TwoStages ==
  ASSUME NEW cmd, Answers(cmd), NEW a, NEW b, AnswerStage(cmd, a), AnswerStage(cmd, b), NEW p, p = <<a>> \o <<b>>
  PROVE  Stages(cmd, p)
<1>1. PICK S : S = {a, b} OBVIOUS
<1>2. <<a>> \in Seq(S) /\ <<b>> \in Seq(S) BY <1>1
<1>3. p \in Seq(S) BY <1>2
<1>4. \A x \in S : AnswerStage(cmd, x) BY <1>1
<1> QED BY <1>3, <1>4 DEF Stages

\* The groups to refresh are a list.
LEMMA TargetsListed ==
  ASSUME NEW s, Listed(s.db.order), NEW cfg, NEW cmd, NEW targets, targets = RefreshTargets(s, cfg, cmd)
  PROVE  Listed(targets)
<1>1. \A x : Listed(<<x>>)
  <2> TAKE x
  <2>1. PICK S : S = {x} OBVIOUS
  <2>2. <<x>> \in Seq(S) BY <2>1
  <2> QED BY <2>2, ListIntro
<1>2. Listed(<<>>)
  <2>1. PICK S : S = {0} OBVIOUS
  <2>2. <<>> \in Seq(S) BY <2>1
  <2> QED BY <2>2, ListIntro
<1>3. CASE cmd.sel.by = "all" BY <1>3 DEF RefreshTargets
<1>4. CASE cmd.sel.by \notin {"all", "none"}
  <2>1. PICK x : x = The(GroupHits(s.db, cmd.sel)) OBVIOUS
  <2>2. targets = <<x>> \/ targets = <<>> BY <1>4, <2>1 DEF RefreshTargets
  <2> QED BY <1>1, <1>2, <2>2
<1>5. CASE cmd.sel.by = "none"
  <2>1. PICK x : x = (IF s.conn # NoRef THEN s.conn ELSE cfg)[1] OBVIOUS
  <2>2. targets = <<x>> \/ targets = <<>> BY <1>5, <2>1, Zenon DEF RefreshTargets
  <2> QED BY <1>1, <1>2, <2>2
<1> QED BY <1>3, <1>4, <1>5

LEMMA PlanStages ==
  ASSUME NEW s, Listed(s.db.order), NEW cfg, NEW cmd, NEW p, p = Plan(s, cfg, cmd)
  PROVE  Stages(cmd, p) /\ (cmd.k = "sadd" => p = <<>>)
<1>0. /\ cmd.k \in Awaited => Answers(cmd)
      /\ cmd.k \notin Awaited \cup {"srefresh"} => ~Answers(cmd)
  BY DEF Answers
<1>1. CASE cmd.k = "connect"
  <2>1. p = ConnectPlan(s, cfg, cmd) BY <1>1 DEF Plan
  <2>2. PICK hits : hits = SelectTarget(s.db, cfg, cmd) OBVIOUS
  <2>3. PICK r, u, a : /\ r = [k |-> "connect", ref |-> The(hits)] /\ u = [k |-> "up", ref |-> The(hits)]
                       /\ a = Maybe(cmd.wait, u)
    OBVIOUS
  <2>4. p = Usage \/ p = <<Stage(r, a)>> BY <2>1, <2>2, <2>3 DEF ConnectPlan
  <2>5. r.k = "connect" /\ u.k = "up" BY <2>3
  <2>6. a.k = "none" \/ a = u BY <2>3 DEF Maybe, NoAwait
  <2>7. Turns(r, a) \/ a.k = "none" BY <2>5, <2>6 DEF Turns
  <2>8. ~Answers(cmd) BY <1>0, <1>1 DEF Awaited
  <2> QED BY <1>1, <2>4, <2>7, <2>8, UsageStages, TurnStage
<1>2. CASE cmd.k = "disconnect"
  <2>1. p = DisconnectPlan(s, cmd) BY <1>2 DEF Plan
  <2>2. PICK r, u, a : r = [k |-> "disconnect"] /\ u = [k |-> "down"] /\ a = Maybe(cmd.wait, u) OBVIOUS
  <2>3. p = <<>> \/ p = <<Stage(r, a)>> BY <2>1, <2>2 DEF DisconnectPlan
  <2>5. r.k = "disconnect" /\ u.k = "down" BY <2>2
  <2>6. a.k = "none" \/ a = u BY <2>2 DEF Maybe, NoAwait
  <2>7. Turns(r, a) \/ a.k = "none" BY <2>5, <2>6 DEF Turns
  <2>8. ~Answers(cmd) BY <1>0, <1>2 DEF Awaited
  <2> QED BY <1>2, <2>3, <2>7, <2>8, NoStages, TurnStage
<1>3. CASE cmd.k = "mode"
  <2>1. p = ModePlan(s, cmd) BY <1>3 DEF Plan
  <2>2. PICK want : want = IF cmd.to = "toggle" THEN ~s.tun ELSE cmd.to = "tun" OBVIOUS
  <2>3. PICK r : r = [k |-> "tun", on |-> want] OBVIOUS
  <2>4. p = <<>> \/ p = <<Stage(r, r)>> BY <2>1, <2>2, <2>3, Zenon DEF ModePlan
  <2>5. r.k = "tun" BY <2>3
  <2>6. Turns(r, r) BY <2>5 DEF Turns
  <2>7. ~Answers(cmd) BY <1>0, <1>3 DEF Awaited
  <2> QED BY <1>3, <2>4, <2>6, <2>7, NoStages, TurnStage
<1>4. CASE cmd.k = "padd"
  <2>1. p = AddPlan(s, cmd) BY <1>4 DEF Plan
  <2>2. PICK hits : hits = ExactGroup(s.db, cmd.sel) OBVIOUS
  <2>3. PICK name : name = IF cmd.sel.by = "id" THEN "digits" ELSE cmd.sel.name OBVIOUS
  <2>4. PICK ra, r0, rg : /\ ra = [k |-> "add", g |-> hits[1]] /\ r0 = [k |-> "add", g |-> 0]
                          /\ rg = [k |-> "addgroup", name |-> name, url |-> "none"]
    OBVIOUS
  <2>5. \/ p = <<Stage(ra, Reply("add", 1, FALSE))>>
        \/ p = Usage
        \/ p = Request(rg, "addgroup") \o <<Stage(r0, Reply("add", 1, FALSE))>>
    BY <2>1, <2>2, <2>3, <2>4, Zenon DEF AddPlan
  <2>6. PICK a, b, one, kind : /\ one = 1 /\ kind = "add" /\ a = Reply(kind, one, FALSE)
                               /\ b = Reply("addgroup", 0, FALSE)
    OBVIOUS
  <2>7. /\ ra.k = "add" /\ ra = [k |-> "add", g |-> ra.g]
        /\ r0.k = "add" /\ r0 = [k |-> "add", g |-> r0.g]
        /\ rg.k = "addgroup"
    BY <2>4
  <2>8. Answers(cmd) /\ cmd.k # "srefresh" BY <1>0, <1>4 DEF Awaited
  <2>9. Need(ra) = one /\ Need(r0) = one BY <2>6, <2>7 DEF Need
  <2>10. ra.k \in Kinds /\ r0.k \in Kinds /\ kind = ra.k /\ kind = r0.k /\ kind # "refresh"
    BY <2>6, <2>7 DEF Kinds
  <2>11. Asks(cmd, ra, a) /\ Asks(cmd, r0, a)
    <3>1. Asks(cmd, ra, Reply(kind, one, FALSE)) BY <2>7, <2>8, <2>9, <2>10, ReplyAsks
    <3>2. Asks(cmd, r0, Reply(kind, one, FALSE)) BY <2>7, <2>8, <2>9, <2>10, ReplyAsks
    <3> QED BY <2>6, <3>1, <3>2
  <2>12. Stages(cmd, <<Stage(ra, a)>>) /\ AnswerStage(cmd, Stage(r0, a)) BY <2>8, <2>11, AskStage
  <2>13. AnswerStage(cmd, Stage(rg, b)) BY <2>6, <2>7, <2>8, RequestStages DEF Kinds
  <2>14. Request(rg, "addgroup") = <<Stage(rg, b)>> BY <2>6, Zenon DEF Request
  <2>15. Stages(cmd, <<Stage(rg, b)>> \o <<Stage(r0, a)>>) BY <2>8, <2>12, <2>13, TwoStages
  <2>16. p = <<Stage(ra, a)>> \/ p = Usage \/ p = <<Stage(rg, b)>> \o <<Stage(r0, a)>>
    BY <2>5, <2>6, <2>14, Zenon
  <2> QED BY <1>4, <2>12, <2>15, <2>16, UsageStages
<1>5. CASE cmd.k = "prm"
  <2>1. p = RemovePlan(s, cmd) BY <1>5 DEF Plan
  <2>2. PICK refs : refs = UNION ToSet([i \in DOMAIN cmd.sels |-> ProfileHits(s.db, cmd.sels[i])]) OBVIOUS
  <2>3. PICK r, n, kind, a : /\ r = [k |-> "delete", refs |-> refs] /\ n = Cardinality(refs) /\ kind = "delete"
                             /\ a = Reply(kind, n, FALSE)
    OBVIOUS
  <2>4. p = Usage \/ p = <<Stage(r, a)>> BY <2>1, <2>2, <2>3, Zenon DEF RemovePlan
  <2>5. r.k = "delete" /\ r.refs = refs BY <2>3
  <2>6. Need(r) = n BY <2>3, <2>5 DEF Need
  <2>7. Answers(cmd) /\ cmd.k # "srefresh" BY <1>0, <1>5 DEF Awaited
  <2>8. Asks(cmd, r, a)
    <3>1. r.k \in Kinds /\ kind = r.k /\ kind \notin {"refresh", "add"} BY <2>3, <2>5 DEF Kinds
    <3>2. Asks(cmd, r, Reply(kind, n, FALSE)) BY <2>6, <2>7, <3>1, ReplyAsks
    <3> QED BY <2>3, <3>2
  <2>9. Stages(cmd, <<Stage(r, a)>>) BY <2>7, <2>8, AskStage
  <2> QED BY <1>5, <2>4, <2>9, UsageStages
<1>6. ASSUME NEW r, NEW kind, kind = r.k, kind \in Kinds \ {"refresh", "add", "delete"},
             cmd.k \in Awaited \ {"sadd"}, p = Usage \/ p = Request(r, kind)
      PROVE  Stages(cmd, p) /\ (cmd.k = "sadd" => p = <<>>)
  <2>1. Answers(cmd) /\ cmd.k # "srefresh" BY <1>0, <1>6 DEF Awaited
  <2>2. Stages(cmd, Request(r, kind)) BY <1>6, <2>1, RequestStages
  <2> QED BY <1>6, <2>2, UsageStages
<1>7. CASE cmd.k = "prename"
  <2>1. p = RenamePlan(s, cmd) BY <1>7 DEF Plan
  <2>2. PICK r, kind : r = [k |-> "rename", ref |-> The(ProfileHits(s.db, cmd.sel))] /\ kind = "rename" OBVIOUS
  <2>3. p = Usage \/ p = Request(r, kind) BY <2>1, <2>2, Zenon DEF RenamePlan
  <2>4. r.k = kind BY <2>2
  <2> QED BY <1>6, <1>7, <2>2, <2>3, <2>4 DEF Kinds, Awaited
<1>8. CASE cmd.k = "pmove"
  <2>1. p = MovePlan(s, cmd) BY <1>8 DEF Plan
  <2>2. PICK r, kind : /\ r = [k |-> "move", ref |-> The(ProfileHits(s.db, cmd.sel)), to |-> The(GroupHits(s.db, cmd.to))]
                       /\ kind = "move"
    OBVIOUS
  <2>3. p = Usage \/ p = Request(r, kind) BY <2>1, <2>2, Zenon DEF MovePlan
  <2>4. r.k = kind BY <2>2
  <2> QED BY <1>6, <1>8, <2>2, <2>3, <2>4 DEF Kinds, Awaited
<1>9. CASE cmd.k = "preorder"
  <2>1. p = ReorderPlan(s, cmd) BY <1>9 DEF Plan
  <2>2. PICK r, kind : /\ r = [k |-> "reorder", g |-> The(GroupHits(s.db, cmd.sel)), ids |-> cmd.ids]
                       /\ kind = "reorder"
    OBVIOUS
  <2>3. p = Usage \/ p = Request(r, kind) BY <2>1, <2>2, Zenon DEF ReorderPlan
  <2>4. r.k = kind BY <2>2
  <2> QED BY <1>6, <1>9, <2>2, <2>3, <2>4 DEF Kinds, Awaited
<1>10. CASE cmd.k = "srm"
  <2>1. p = SubRemovePlan(s, cmd) BY <1>10 DEF Plan
  <2>2. PICK r, kind : r = [k |-> "delgroup", g |-> The(GroupHits(s.db, cmd.sel))] /\ kind = "delgroup" OBVIOUS
  <2>3. p = Usage \/ p = Request(r, kind) BY <2>1, <2>2, Zenon DEF SubRemovePlan
  <2>4. r.k = kind BY <2>2
  <2> QED BY <1>6, <1>10, <2>2, <2>3, <2>4 DEF Kinds, Awaited
<1>11. CASE cmd.k = "sreorder"
  <2>1. p = SubReorderPlan(s, cmd) BY <1>11 DEF Plan
  <2>2. PICK r, kind : /\ r = [k |-> "groups", ids |-> MovedTo(s.db.order, The(GroupHits(s.db, cmd.sel)), cmd.pos)]
                       /\ kind = "groups"
    OBVIOUS
  <2>3. p = Usage \/ p = Request(r, kind) BY <2>1, <2>2, Zenon DEF SubReorderPlan
  <2>4. r.k = kind BY <2>2
  <2> QED BY <1>6, <1>11, <2>2, <2>3, <2>4 DEF Kinds, Awaited
<1>12. CASE cmd.k \in {"srename", "surl", "sauto"}
  <2>1. p = UpdatePlan(s, cmd) BY <1>12 DEF Plan
  <2>2. PICK hits, g, name, url : /\ hits = GroupHits(s.db, cmd.sel) /\ g = The(hits)
                                  /\ name = s.db.g[g].name /\ url = s.db.g[g].url
    OBVIOUS
  <2>3. PICK r1, r2, r3, kind : /\ r1 = Update(s.db, g, "name", cmd.name, url, "keep")
                                /\ r2 = Update(s.db, g, "url", name, cmd.url, "keep")
                                /\ r3 = Update(s.db, g, "auto", name, url, cmd.to)
                                /\ kind = "update"
    OBVIOUS
  <2>4. p = Usage \/ p = Request(CASE cmd.k = "srename" -> r1 [] cmd.k = "surl" -> r2 [] OTHER -> r3, kind)
    BY <2>1, <2>2, <2>3, Zenon DEF UpdatePlan
  <2>5. PICK r : r = CASE cmd.k = "srename" -> r1 [] cmd.k = "surl" -> r2 [] OTHER -> r3 OBVIOUS
  <2>6. p = Usage \/ p = Request(r, kind) BY <2>4, <2>5
  <2>7. r = r1 \/ r = r2 \/ r = r3 BY <2>5
  <2>8. r1.k = kind /\ r2.k = kind /\ r3.k = kind BY <2>3 DEF Update
  <2>9. kind = r.k BY <2>7, <2>8
  <2> QED BY <1>6, <1>12, <2>3, <2>6, <2>9 DEF Kinds, Awaited
<1>13. CASE cmd.k = "srefresh"
  <2>1. p = RefreshPlan(s, cfg, cmd) BY <1>13 DEF Plan
  <2>2. PICK targets : targets = RefreshTargets(s, cfg, cmd) OBVIOUS
  <2>3. PICK T : targets \in Seq(T) BY <2>2, TargetsListed DEF Listed
  <2> DEFINE ask(i) == [k |-> "refresh", g |-> targets[i]]
             asks == [i \in DOMAIN targets |-> ask(i)]
             each == [i \in DOMAIN targets |-> Stage(ask(i), Reply("subscription", 0, FALSE))]
             all == [send |-> asks, await |-> NoAwait]
  <2>4. p = Usage \/ (cmd.wait /\ p = each) \/ (~cmd.wait /\ p = <<all>>) BY <2>1, <2>2, Zenon DEF RefreshPlan
  <2>5. Len(targets) \in Nat /\ DOMAIN targets = 1..Len(targets) BY <2>3
  <2>6. ASSUME cmd.wait PROVE Stages(cmd, each)
    <3>1. Answers(cmd) BY <1>13, <2>6 DEF Answers
    <3> DEFINE st(i) == Stage(ask(i), Reply("subscription", 0, FALSE))
               S == {st(i) : i \in DOMAIN targets}
    <3>2. each = [i \in 1..Len(targets) |-> st(i)] BY <2>5
    <3>3. \A i \in 1..Len(targets) : st(i) \in S BY <2>5
    <3>4. \A x \in S : AnswerStage(cmd, x)
      <4> SUFFICES ASSUME NEW i \in DOMAIN targets PROVE AnswerStage(cmd, st(i)) OBVIOUS
      <4>1. PICK r, w : r = ask(i) /\ w = Reply("subscription", 0, FALSE) OBVIOUS
      <4>2. r.k = "refresh" BY <4>1
      <4>3. Asks(cmd, r, w)
        <5>1. PICK a, b, z, no : a = "id" /\ b = "subscription" /\ z = 0 /\ no = FALSE OBVIOUS
        <5>2. PICK v : v = [k |-> a, expect |-> b, need |-> z, soft |-> no] OBVIOUS
        <5>3. w = v BY <4>1, <5>1, <5>2, Zenon DEF Reply
        <5>4. v.k = "id" /\ v.expect = "subscription" /\ v.need = 0 /\ v.soft = FALSE BY <5>1, <5>2
        <5>5. Kind(r) = "subscription" /\ Need(r) = 0 BY <4>2 DEF Kind, Need
        <5> QED BY <1>13, <4>2, <5>3, <5>4, <5>5 DEF Asks, Kinds
      <4>4. st(i) = Stage(r, w) BY <4>1
      <4> HIDE DEF st
      <4> QED BY <3>1, <4>3, <4>4, AskStage
    <3> HIDE DEF st, S, each
    <3>5. each \in Seq(S) BY <2>5, <3>2, <3>3
    <3> QED BY <3>1, <3>4, <3>5 DEF Stages
  <2>7. ASSUME ~cmd.wait PROVE Stages(cmd, <<all>>)
    <3>1. ~Answers(cmd) BY <1>13, <2>7 DEF Answers, Awaited
    <3>2. Listed(asks)
      <4> DEFINE S == {ask(i) : i \in DOMAIN targets}
      <4>1. asks = [i \in 1..Len(targets) |-> ask(i)] BY <2>5
      <4>2. \A i \in 1..Len(targets) : ask(i) \in S BY <2>5
      <4> HIDE DEF ask, S, asks
      <4>3. asks \in Seq(S) BY <2>5, <4>1, <4>2
      <4> QED BY <4>3, ListIntro
    <3>3. all.send = asks /\ all.await.k = "none" BY DEF NoAwait
    <3> HIDE DEF asks, all
    <3>4. OtherStage(cmd, all) BY <3>2, <3>3 DEF OtherStage
    <3> QED BY <3>1, <3>4 DEF Stages
  <2> HIDE DEF each, all
  <2> QED BY <1>13, <2>4, <2>6, <2>7, UsageStages
<1>14. CASE cmd.k \notin {"connect", "disconnect", "mode", "padd", "prm", "prename", "pmove", "preorder",
                          "srm", "srefresh", "sreorder", "srename", "surl", "sauto"}
  <2>1. p = <<>> BY <1>14 DEF Plan
  <2> QED BY <2>1, NoStages
<1> QED
  BY <1>1, <1>2, <1>3, <1>4, <1>5, <1>7, <1>8, <1>9, <1>10, <1>11, <1>12, <1>13, <1>14

LEMMA OneOwn == ASSUME NEW m, NEW c, NEW k \in Nat, m.id = <<c, k>> PROVE OwnQueue(<<m>>, c)
<1>1. PICK S : S = {m} OBVIOUS
<1>2. <<m>> \in Seq(S) BY <1>1
<1>3. \A x \in S : Own(x.id, c) BY <1>1, OwnIs
<1> QED BY <1>2, <1>3 DEF OwnQueue

\* sub add asks for the group first and for its refresh then.
LEMMA SubAddStages ==
  ASSUME NEW cmd, cmd.k = "sadd", NEW plan, plan = SubAddPlan(cmd)
  PROVE  /\ Stages(cmd, plan) /\ plan # <<>>
         /\ \E r : plan[1].send[1] = r /\ Head(plan) = plan[1] /\ Asks(cmd, r, Head(plan).await)
<1>1. Answers(cmd) /\ cmd.k # "srefresh" BY DEF Answers, Awaited
<1>2. PICK r, a, b, e : /\ r = [k |-> "addgroup", name |-> cmd.name, url |-> cmd.url]
                        /\ a = Reply("addgroup", 0, FALSE) /\ b = Reply("subscription", 0, TRUE) /\ e = <<>>
  OBVIOUS
<1>3. PICK st1, st2 : st1 = Stage(r, a) /\ st2 = [send |-> e, await |-> b] OBVIOUS
<1>4. plan = <<st1>> \o <<st2>> \/ plan = <<st1>> \o <<>>
  BY <1>2, <1>3, Zenon DEF SubAddPlan, Request
<1>5. r.k = "addgroup" BY <1>2
<1>6. Asks(cmd, r, a)
  <2>1. PICK kind, z : kind = "addgroup" /\ z = 0 OBVIOUS
  <2>2. r.k \in Kinds /\ kind = r.k /\ kind \notin {"refresh", "add"} BY <1>5, <2>1 DEF Kinds
  <2>3. z = Need(r) BY <1>5, <2>1 DEF Need
  <2>4. Asks(cmd, r, Reply(kind, z, FALSE)) BY <1>1, <2>2, <2>3, ReplyAsks
  <2> QED BY <1>2, <2>1, <2>4
<1>7. AnswerStage(cmd, st1) /\ Stages(cmd, <<st1>>) BY <1>1, <1>3, <1>6, AskStage
<1>8. AnswerStage(cmd, st2)
  <2>1. PICK i, x, z, y : i = "id" /\ x = "subscription" /\ z = 0 /\ y = TRUE OBVIOUS
  <2>2. PICK v : v = [k |-> i, expect |-> x, need |-> z, soft |-> y] OBVIOUS
  <2>3. b = v BY <1>2, <2>1, <2>2, Zenon DEF Reply
  <2>4. v.k = "id" /\ v.expect = "subscription" /\ v.need = 0 /\ v.soft = TRUE BY <2>1, <2>2
  <2>5. Hopes(cmd, b) BY <2>3, <2>4 DEF Hopes
  <2>6. st2.send = <<>> /\ st2.await = b BY <1>2, <1>3
  <2> QED BY <2>5, <2>6 DEF AnswerStage
<1>9. <<st1>> \o <<>> = <<st1>>
  <2>1. PICK S : S = {st1} OBVIOUS
  <2>2. <<st1>> \in Seq(S) BY <2>1
  <2> QED BY <2>2
<1>10. Stages(cmd, <<st1>> \o <<st2>>) BY <1>1, <1>7, <1>8, TwoStages
<1>11. plan # <<>> /\ plan[1] = st1 /\ Head(plan) = plan[1]
  <2>1. PICK S : S = {st1, st2} OBVIOUS
  <2>2. <<>> \in Seq(S) /\ <<st2>> \in Seq(S) /\ st1 \in S BY <2>1
  <2>3. plan # <<>> BY <1>4, <2>2, NotEmpty
  <2>4. plan[1] = st1 BY <1>4, <2>2, FirstIsFirst
  <2>5. Head(plan) = plan[1]
    <3>1. <<st1>> \in Seq(S) BY <2>2
    <3>2. PICK x, y, z : x = <<st1>> /\ y = <<st2>> /\ z = <<>> OBVIOUS
    <3>3. x \in Seq(S) /\ y \in Seq(S) /\ z \in Seq(S) BY <2>2, <3>1, <3>2
    <3>4. x \o y \in Seq(S) /\ x \o z \in Seq(S) BY <3>3
    <3>5. plan \in Seq(S) BY <1>4, <3>2, <3>4
    <3> QED BY <2>3, <3>5
  <2> QED BY <2>3, <2>4, <2>5
<1>12. st1.send = <<r>> /\ st1.await = a
  <2>1. PICK q : q = <<r>> OBVIOUS
  <2>2. PICK x : x = [send |-> q, await |-> a] OBVIOUS
  <2>3. st1 = x BY <1>3, <2>1, <2>2, Zenon DEF Stage
  <2>4. x.send = q /\ x.await = a BY <2>2
  <2> QED BY <2>1, <2>3, <2>4
<1>13. plan[1].send[1] = r BY <1>11, <1>12
<1> QED BY <1>4, <1>6, <1>7, <1>9, <1>10, <1>11, <1>12, <1>13

LEMMA OpenOwn == ASSUME EditInv, OwnInv, NEW c \in Clients, NEW cmd \in Commands(scene[c]), Open(c, cmd) PROVE OwnInv'
<1> DEFINE p == [Idle EXCEPT !.pc = "state", !.cmd = cmd, !.cfg = last]
           plan == SubAddPlan(cmd)
           m1 == [r |-> plan[1].send[1], id |-> <<c, 1>>]
           m0 == [r |-> [k |-> "state"], id |-> <<c, 0>>]
           q == [p EXCEPT !.pc = "wait", !.n = 1, !.todo = plan]
<1>1. /\ jobs' = jobs /\ did' = did /\ inbox' = inbox /\ cli[c].pc = "idle"
      /\ \/ cmd.k = "sadd" /\ cli' = [cli EXCEPT ![c] = q] /\ toCore' = [toCore EXCEPT ![c] = <<m1>>]
         \/ cmd.k # "sadd" /\ cli' = [cli EXCEPT ![c] = p] /\ toCore' = [toCore EXCEPT ![c] = <<m0>>]
  BY Zenon DEF Open, history
<1>2. Queues /\ Inboxes /\ Processes BY DEF EditInv
<1>3. inbox[c] = <<>> /\ Tally(c, 0) /\ NoJobs(c)
  BY <1>1 DEF OwnInv, Progress, Resting, Loading, Waiting, Over
<1>4. \A k \in Nat : Unheard(inbox'[c], <<c, k>>) BY <1>1, <1>3, UnheardNone
<1>5. NoJobs(c)' /\ \A k \in Nat : NoJobFor(<<c, k>>)'
  <2>1. \A j \in jobs' : ~Own(j.id, c) BY <1>1, <1>3 DEF NoJobs
  <2>2. \A k \in Nat : Own(<<c, k>>, c) BY DEF Own
  <2> QED BY <2>1, <2>2 DEF NoJobs, NoJobFor
<1>6. \A n \in Nat : Fresh(c, n)' BY <1>4, <1>5 DEF Fresh
<1>7. Tally(c, 0)' BY <1>1, <1>3 DEF Tally
<1>8. p.pc = "state" /\ p.n = 0 /\ p.out = "none" /\ p.cmd = cmd
  <2>1. PICK pc, z, e, o, nr, x, b : /\ pc = "state" /\ z = 0 /\ e = <<>> /\ o = "none" /\ nr = NoRef /\ x = "idle"
                                     /\ b = [k |-> "none"]
    OBVIOUS
  <2>2. PICK i : i = [pc |-> x, n |-> z, cmd |-> b, cfg |-> nr, todo |-> e, got |-> z, out |-> o] OBVIOUS
  <2>3. Idle = i BY <2>1, <2>2 DEF Idle
  <2>4. PICK v : v = [i EXCEPT !.pc = pc, !.cmd = cmd, !.cfg = last] OBVIOUS
  <2>5. v.pc = pc /\ v.n = z /\ v.out = o /\ v.cmd = cmd BY <2>2, <2>4
  <2>6. p = v BY <2>1, <2>3, <2>4
  <2> HIDE DEF p
  <2> QED BY <2>1, <2>5, <2>6
<1>9. Process(p)
  <2>1. PICK pc : pc = "state" /\ pc # "wait" OBVIOUS
  <2>2. p = [Idle EXCEPT !.pc = pc, !.cmd = cmd, !.cfg = last] BY <2>1
  <2>3. GoodCmd(cmd) BY CommandsGood
  <2> HIDE DEF p
  <2> QED BY <2>1, <2>2, <2>3, IdleGood, ProcessStart
<1> HIDE DEF p
<1>10. CASE cmd.k = "sadd"
  <2>1. PICK r : plan[1].send[1] = r /\ Head(plan) = plan[1] /\ Asks(cmd, r, Head(plan).await)
    BY <1>10, SubAddStages
  <2>2. Stages(cmd, plan) /\ plan # <<>> BY <1>10, SubAddStages
  <2> HIDE DEF plan
  <2>3. /\ q.pc = "wait" /\ q.n = 1 /\ q.out = "none" /\ q.cmd = cmd /\ q.todo = plan
    <3>1. PICK pc, n : pc = "wait" /\ n = 1 OBVIOUS
    <3>2. PICK v : v = [p EXCEPT !.pc = pc, !.n = n, !.todo = plan] OBVIOUS
    <3>3. v.pc = pc /\ v.n = n /\ v.todo = plan /\ v.out = p.out /\ v.cmd = p.cmd BY <1>9, <3>2 DEF Process
    <3>4. q = v BY <3>1, <3>2
    <3> HIDE DEF q
    <3> QED BY <1>8, <3>1, <3>3, <3>4
  <2> HIDE DEF q
  <2>4. PICK n \in Nat : n = 1 OBVIOUS
  <2>5. PICK m : m = [r |-> r, id |-> <<c, n>>] OBVIOUS
  <2>6. m1 = m /\ m.id = <<c, n>> BY <2>1, <2>4, <2>5
  <2> HIDE DEF m1
  <2>7. cli'[c] = q /\ toCore'[c] = <<m>> BY <1>1, <1>2, <1>10, <2>6 DEF Queues, Processes
  <2>8. \A d \in Clients : d # c => cli'[d] = cli[d] /\ toCore'[d] = toCore[d] /\ inbox'[d] = inbox[d]
    BY <1>1, <1>2, <1>10 DEF Queues, Processes
  <2>9. PICK w : w = Head(plan).await OBVIOUS
  <2>10. Answers(cmd) /\ cmd.k # "srefresh" BY <1>10 DEF Answers, Awaited
  <2>11. n > 0 /\ n - 1 = 0 BY <2>4
  <2>12. Queued(c, r, n)' BY <1>4, <1>5, <1>7, <2>3, <2>5, <2>7, <2>10, <2>11 DEF Queued
  <2>13. Asking(c, w, n)' BY <2>1, <2>3, <2>7, <2>9, <2>10, <2>12 DEF Asking
  <2>14. Waiting(c)' BY <1>6, <2>2, <2>3, <2>4, <2>7, <2>9, <2>11, <2>13 DEF Waiting
  <2>15. OwnQueue(toCore'[c], c) BY <2>6, <2>7, OneOwn
  <2>16. Progress(c)' BY <2>14 DEF Progress
  <2> QED BY <1>1, <1>2, <2>8, <2>15, <2>16, StepOwn
<1>11. CASE cmd.k # "sadd"
  <2>1. PICK m, z : z = 0 /\ m = [r |-> [k |-> "state"], id |-> <<c, z>>] OBVIOUS
  <2>2. m0 = m /\ m.r.k = "state" /\ m.id = <<c, z>> /\ z \in Nat BY <2>1
  <2> HIDE DEF m0, q
  <2>3. cli'[c] = p /\ toCore'[c] = <<m>> BY <1>1, <1>2, <1>11, <2>2 DEF Queues, Processes
  <2>4. \A d \in Clients : d # c => cli'[d] = cli[d] /\ toCore'[d] = toCore[d] /\ inbox'[d] = inbox[d]
    BY <1>1, <1>2, <1>11 DEF Queues, Processes
  <2>5. Loading(c)' BY <1>4, <1>5, <1>6, <1>7, <1>8, <2>1, <2>2, <2>3 DEF Loading
  <2>6. Progress(c)' BY <2>5 DEF Progress
  <2>7. OwnQueue(toCore'[c], c) BY <2>2, <2>3, OneOwn
  <2> QED BY <1>1, <1>2, <2>4, <2>6, <2>7, StepOwn
<1> QED BY <1>10, <1>11

LEMMA LoadingSkips ==
  ASSUME EditInv, OwnInv, NEW c \in Clients, Loading(c), inbox[c] # <<>>, Skip(c), jobs' = jobs, did' = did
  PROVE  OwnInv'
<1>1. /\ cli' = cli /\ toCore' = toCore /\ inbox'[c] = Tail(inbox[c]) /\ Inboxes /\ Listed(inbox[c])
      /\ \A d \in Clients : d # c => inbox'[d] = inbox[d]
      /\ OwnQueue(toCore'[c], c)
      /\ \A id : Unheard(inbox[c], id) => Unheard(inbox'[c], id)
  BY SkipIs
<1>2. PICK n : n = cli[c].n /\ Fresh(c, n) BY DEF Loading
<1>3. Fresh(c, n)' BY <1>1, <1>2, FreshRest
<1>4. NoJobs(c)' /\ Tally(c, 0)' BY DEF Loading, NoJobs, Tally
<1>5. Loading(c)' BY <1>1, <1>2, <1>3, <1>4 DEF Loading
<1>6. Progress(c)' BY <1>5 DEF Progress
<1> QED BY <1>1, <1>6, StepOwn

LEMMA ReadStateOwn == ASSUME EditInv, OwnInv, NEW c \in Clients, ReadState(c) PROVE OwnInv'
<1>1. Queues /\ Inboxes /\ Processes /\ inbox[c] # <<>> /\ Listed(inbox[c])
  BY FramesListed DEF EditInv, ReadState, Inboxes
<1>2. jobs' = jobs /\ did' = did BY DEF ReadState, history
<1>3. PICK f, p, n : f = Head(inbox[c]) /\ p = cli[c] /\ n = p.n OBVIOUS
<1>4. Process(p) BY <1>1, <1>3 DEF Processes
<1>5. Loading(c)
  <2>1. p.pc = "state" BY <1>3 DEF ReadState
  <2> QED BY <1>3, <2>1 DEF OwnInv, Progress, Resting, Waiting, Over, Idle
<1>6. n \in Nat /\ p.out = "none" /\ NoJobs(c) /\ Tally(c, 0) /\ Fresh(c, n) /\ (Answers(p.cmd) => n = 0)
  BY <1>3, <1>5 DEF Loading
<1>7. CASE f.k # "state" \/ f.id # <<c, n>>
  <2>1. Skip(c) BY <1>3, <1>7 DEF ReadState
  <2> QED BY <1>1, <1>2, <1>5, <2>1, LoadingSkips
<1>8. CASE f.k = "state" /\ f.id = <<c, n>>
  <2>1. Hit(f, <<c, n>>) BY <1>8 DEF Hit
  <2>2. ~Unheard(inbox[c], <<c, n>>) BY <1>1, <1>3, <2>1, UnheardHead
  <2>3. toCore[c] = <<>> BY <1>3, <1>5, <2>2 DEF Loading
  <2>4. CASE p.cmd.k = "toggle"
    <3> DEFINE cmd == IF f.conn # NoRef THEN [k |-> "disconnect", wait |-> p.cmd.wait] ELSE Connects(NoSel, NoSel, p.cmd.wait)
               m == [r |-> [k |-> "state"], id |-> <<c, p.n + 1>>]
               q == [p EXCEPT !.cmd = cmd, !.cfg = last, !.n = @ + 1]
    <3>1. /\ cli' = [cli EXCEPT ![c] = q]
          /\ toCore' = [toCore EXCEPT ![c] = <<m>>]
          /\ inbox' = [inbox EXCEPT ![c] = <<>>]
      BY <1>3, <1>8, <2>4, Zenon DEF ReadState
    <3>2. ~Answers(cmd)
      <4>1. cmd.k \in {"disconnect", "connect"} BY DEF Connects
      <4> HIDE DEF cmd
      <4> QED BY <4>1 DEF Answers, Awaited
    <3> HIDE DEF cmd
    <3>3. PICK h \in Nat : h = n + 1 BY <1>6
    <3>4. q.pc = "state" /\ q.n = h /\ q.out = "none" /\ q.cmd = cmd
      <4>1. p.pc = "state" BY <1>3, <1>5 DEF Loading
      <4>2. q = [p EXCEPT !.cmd = cmd, !.cfg = last, !.n = h] BY <1>3, <3>3
      <4> HIDE DEF q
      <4> QED BY <1>4, <1>6, <4>1, <4>2 DEF Process
    <3>5. m.r.k = "state" /\ m.id = <<c, h>> BY <1>3, <3>3
    <3> HIDE DEF m, q
    <3>6. cli'[c] = q /\ toCore'[c] = <<m>> /\ inbox'[c] = <<>> BY <1>1, <3>1 DEF Queues, Processes, Inboxes
    <3>7. \A d \in Clients : d # c => cli'[d] = cli[d] /\ toCore'[d] = toCore[d] /\ inbox'[d] = inbox[d]
      BY <1>1, <3>1 DEF Queues, Processes, Inboxes
    <3>8. \A k \in Nat : Unheard(inbox'[c], <<c, k>>) BY <3>6, UnheardNone
    <3>9. NoJobs(c)' /\ Tally(c, 0)' BY <1>2, <1>6 DEF NoJobs, Tally
    <3>10. Fresh(c, h)'
      <4>1. \A k \in Nat : k > h => k > n BY <1>6, <3>3
      <4> QED BY <1>2, <1>6, <3>8, <4>1 DEF Fresh, NoJobFor
    <3>11. Loading(c)' BY <3>2, <3>4, <3>5, <3>6, <3>8, <3>9, <3>10 DEF Loading
    <3>12. OwnQueue(toCore'[c], c) BY <3>5, <3>6, OneOwn
    <3>13. Progress(c)' BY <3>11 DEF Progress
    <3> QED BY <1>1, <1>2, <3>7, <3>12, <3>13, StepOwn
  <2>5. CASE p.cmd.k # "toggle"
    <3>1. PICK plan, got : plan = Plan(f, p.cfg, p.cmd) /\ got = 0 OBVIOUS
    <3>2. Enter(c, p, plan, got) BY <1>3, <1>8, <2>5, <3>1, Zenon DEF ReadState
    <3>3. Listed(f.db.order) BY <1>1, <1>3, <1>8, FrameGood DEF Inboxes
    <3>4. GoodPlan(plan) BY <1>4, <3>1, <3>3, PlansGood DEF Process
    <3>5. Stages(p.cmd, plan) /\ (p.cmd.k = "sadd" => plan = <<>>) BY <3>1, <3>3, PlanStages
    <3> QED BY <1>1, <1>2, <1>3, <1>6, <2>3, <3>2, <3>4, <3>5, EnterOwn
  <2> QED BY <2>4, <2>5
<1> QED BY <1>7, <1>8

\* What a process does with a frame while it waits.
LEMMA ReplyIs ==
  ASSUME NEW c, ReadReply(c), NEW f, f = Head(inbox[c]), NEW p, p = cli[c], NEW w, w = Head(p.todo).await,
         NEW id, id = <<c, p.n>>
  PROVE  \/ Skip(c) /\ IF f.k = "warn" THEN f.id # id \/ f.key \notin Fatal(w) ELSE ~MatchesReply(w, f, id)
         \/ /\ f.k = "warn" /\ f.id = id /\ f.key \in Fatal(w)
            /\ IF w.k = "id" /\ w.soft THEN Done(c, "ok") ELSE Done(c, "failed")
         \/ /\ f.k # "warn" /\ MatchesReply(w, f, id)
            /\ IF w.k = "id" /\ w.need > 0 /\ f.n # w.need THEN Done(c, "failed")
               ELSE \E got : Enter(c, p, Tail(p.todo), got)
<1>1. CASE f.k = "warn"
  <2>1. IF f.id # id \/ f.key \notin Fatal(w) THEN Skip(c)
        ELSE Done(c, IF w.k = "id" /\ w.soft THEN "ok" ELSE "failed")
    BY <1>1, Zenon DEF ReadReply
  <2>2. CASE f.id # id \/ f.key \notin Fatal(w) BY <1>1, <2>1, <2>2
  <2>3. CASE ~(f.id # id \/ f.key \notin Fatal(w)) BY <1>1, <2>1, <2>3
  <2> QED BY <2>2, <2>3
<1>2. CASE f.k # "warn" /\ ~MatchesReply(w, f, id)
  <2>1. Skip(c) BY <1>2, Zenon DEF ReadReply
  <2> QED BY <1>2, <2>1
<1>3. CASE f.k # "warn" /\ MatchesReply(w, f, id)
  <2>1. IF w.k = "id" /\ w.need > 0 /\ f.n # w.need THEN Done(c, "failed")
        ELSE Enter(c, p, Tail(p.todo), IF f.k = "addgroup" THEN f.g ELSE p.got)
    BY <1>3, Zenon DEF ReadReply
  <2>2. PICK got : got = IF f.k = "addgroup" THEN f.g ELSE p.got OBVIOUS
  <2> QED BY <1>3, <2>1, <2>2
<1> QED BY <1>1, <1>2, <1>3

\* A frame that is not the answer leaves the process waiting.
LEMMA WaitingSkips ==
  ASSUME EditInv, OwnInv, NEW c \in Clients, Waiting(c), inbox[c] # <<>>, Skip(c), jobs' = jobs, did' = did,
         NEW n, n = cli[c].n, NEW w, w = Head(cli[c].todo).await,
         Asking(c, w, n) => ~Hit(Head(inbox[c]), <<c, n>>)
  PROVE  OwnInv'
<1>1. /\ cli' = cli /\ toCore' = toCore /\ inbox'[c] = Tail(inbox[c]) /\ Inboxes /\ Listed(inbox[c])
      /\ \A d \in Clients : d # c => inbox'[d] = inbox[d]
      /\ OwnQueue(toCore'[c], c)
      /\ \A id : Unheard(inbox[c], id) => Unheard(inbox'[c], id)
  BY SkipIs
<1>2. n \in Nat /\ n > 0 /\ Fresh(c, n) BY DEF Waiting
<1>3. Fresh(c, n)' BY <1>1, <1>2, FreshRest
<1>4. /\ NoJobs(c)' <=> NoJobs(c)
      /\ NoJobFor(<<c, n>>)' <=> NoJobFor(<<c, n>>)
      /\ HadFailure(c)' <=> HadFailure(c)
      /\ \A m : Tally(c, m)' <=> Tally(c, m)
  BY DEF NoJobs, NoJobFor, HadFailure, Tally
<1>5. ASSUME Asking(c, w, n) PROVE Asking(c, w, n)'
  <2>1. PICK r : Asks(cli[c].cmd, r, w) /\ (Queued(c, r, n) \/ Working(c, n) \/ Answered(c, w, n))
    BY <1>5 DEF Asking
  <2>2. Queued(c, r, n) => Queued(c, r, n)' BY <1>1, <1>4 DEF Queued
  <2>3. Working(c, n) => Working(c, n)' BY <1>1, <1>4 DEF Working
  <2>4. ASSUME Answered(c, w, n) PROVE Answered(c, w, n)'
    <3>1. PICK f : First(inbox[c], <<c, n>>, f) /\ Right(c, w, n, f) BY <2>4 DEF Answered
    <3>2. First(inbox'[c], <<c, n>>, f) BY <1>1, <1>5, <3>1, FirstRest
    <3>3. Right(c, w, n, f)' BY <1>4, <3>1 DEF Right
    <3> QED BY <1>1, <1>4, <2>4, <3>2, <3>3 DEF Answered
  <2> QED BY <1>1, <1>5, <2>1, <2>2, <2>3, <2>4 DEF Asking
<1>6. ASSUME Hoping(c, w, n) PROVE Hoping(c, w, n)' BY <1>1, <1>4, <1>6 DEF Hoping
<1>7. ASSUME Turning(c, w, n) PROVE Turning(c, w, n)'
  <2>1. ASSUME BadNews(c, w, n) PROVE BadNews(c, w, n)'
    <3>1. PICK x : x = inbox'[c] OBVIOUS
    <3>2. /\ Len(inbox[c]) \in Nat /\ DOMAIN inbox[c] = 1..Len(inbox[c]) /\ DOMAIN x = 1..(Len(inbox[c]) - 1)
          /\ \A i \in DOMAIN x : x[i] = inbox[c][i + 1]
      BY <1>1, <3>1, RestAt
    <3>3. ASSUME NEW i \in DOMAIN x, x[i].k = "warn" /\ x[i].id = <<c, n>> /\ x[i].key \in Fatal(w)
          PROVE  HadFailure(c)
      <4>1. i + 1 \in DOMAIN inbox[c] /\ x[i] = inbox[c][i + 1] BY <3>2
      <4> QED BY <2>1, <3>3, <4>1 DEF BadNews
    <3> QED BY <1>4, <3>1, <3>3 DEF BadNews
  <2> QED BY <1>1, <1>4, <1>7, <2>1 DEF Turning
<1>8. Asking(c, w, n)' \/ Hoping(c, w, n)' \/ Turning(c, w, n)' BY <1>5, <1>6, <1>7 DEF Waiting
<1>9. Waiting(c)' BY <1>1, <1>2, <1>3, <1>8 DEF Waiting
<1>10. Progress(c)' BY <1>9 DEF Progress
<1> QED BY <1>1, <1>10, StepOwn

LEMMA ReadReplyOwn == ASSUME EditInv, OwnInv, NEW c \in Clients, ReadReply(c) PROVE OwnInv'
<1>1. Inboxes /\ Processes /\ inbox[c] # <<>> /\ Listed(inbox[c])
  BY FramesListed DEF EditInv, ReadReply, Inboxes
<1>2. jobs' = jobs /\ did' = did BY DEF ReadReply, history
<1>3. PICK f, p, n, w, id : f = Head(inbox[c]) /\ p = cli[c] /\ n = p.n /\ w = Head(p.todo).await /\ id = <<c, n>>
  OBVIOUS
<1>4. Waiting(c)
  <2>1. p.pc = "wait" BY <1>3 DEF ReadReply
  <2> QED BY <1>3, <2>1 DEF OwnInv, Progress, Resting, Loading, Over, Idle
<1>5. n \in Nat /\ n > 0 /\ p.out = "none" /\ p.todo # <<>> /\ Stages(p.cmd, p.todo) /\ Fresh(c, n)
  BY <1>3, <1>4 DEF Waiting
<1>6. \/ Skip(c) /\ IF f.k = "warn" THEN f.id # id \/ f.key \notin Fatal(w) ELSE ~MatchesReply(w, f, id)
      \/ /\ f.k = "warn" /\ f.id = id /\ f.key \in Fatal(w)
         /\ IF w.k = "id" /\ w.soft THEN Done(c, "ok") ELSE Done(c, "failed")
      \/ /\ f.k # "warn" /\ MatchesReply(w, f, id)
         /\ IF w.k = "id" /\ w.need > 0 /\ f.n # w.need THEN Done(c, "failed")
            ELSE \E got : Enter(c, p, Tail(p.todo), got)
  BY <1>3, ReplyIs
<1>7. PICK rest : rest = Tail(p.todo) OBVIOUS
<1>8. GoodPlan(rest) /\ Stages(p.cmd, rest)
  <2>1. GoodPlan(p.todo) BY <1>1, <1>3 DEF Processes, Process
  <2> QED BY <1>5, <1>7, <2>1, RestPlan, StagesSplit
<1>9. CASE Asking(c, w, n)
  <2>1. PICK r : Asks(p.cmd, r, w) /\ (Queued(c, r, n) \/ Working(c, n) \/ Answered(c, w, n))
    BY <1>3, <1>9 DEF Asking
  <2>2. w.k = "id" /\ w.soft = FALSE /\ w.expect \in Kinds \cup {"subscription"} BY <2>1 DEF Asks, Kind
  <2>3. Fatal(w) = {"failed"} BY <2>2 DEF Fatal
  <2>4. MatchesReply(w, f, id) <=> f.k = w.expect /\ f.id = id BY <2>2 DEF MatchesReply
  <2>5. CASE ~Hit(f, id)
    <3>1. f.k = "warn" /\ f.id = id => f.key \notin Fatal(w) BY <2>3, <2>5 DEF Hit
    <3>2. f.k # "warn" => ~MatchesReply(w, f, id) BY <2>2, <2>4, <2>5 DEF Hit, Kinds
    <3>3. Skip(c) BY <1>6, <3>1, <3>2
    <3> QED BY <1>1, <1>2, <1>3, <1>4, <2>5, <3>3, WaitingSkips
  <2>6. CASE Hit(f, id)
    <3>1. ~Unheard(inbox[c], <<c, n>>) BY <1>1, <1>3, <2>6, UnheardHead
    <3>2. Answered(c, w, n) BY <2>1, <3>1 DEF Queued, Working
    <3>3. PICK e : First(inbox[c], <<c, n>>, e) /\ Right(c, w, n, e) BY <3>2 DEF Answered
    <3>4. e = f BY <1>1, <1>3, <2>6, <3>3, FirstRest
    <3>5. f.id = id BY <2>6 DEF Hit
    <3>6. CASE f.k = "warn"
      <4>1. f.key \in Fatal(w) /\ HadFailure(c) BY <2>3, <3>3, <3>4, <3>6 DEF Right
      <4>2. PICK out : out = "failed" OBVIOUS
      <4>3. Done(c, out) BY <1>6, <2>2, <3>5, <3>6, <4>1, <4>2
      <4> QED BY <1>2, <4>1, <4>2, <4>3, DoneOwn
    <3>7. CASE f.k # "warn" /\ w.need > 0 /\ f.n # w.need
      <4>1. f.k = w.expect /\ HadFailure(c) BY <3>3, <3>4, <3>7 DEF Right
      <4>2. PICK out : out = "failed" OBVIOUS
      <4>3. Done(c, out) BY <1>6, <2>2, <2>4, <3>5, <3>7, <4>1, <4>2
      <4> QED BY <1>2, <4>1, <4>2, <4>3, DoneOwn
    <3>8. CASE f.k # "warn" /\ ~(w.need > 0 /\ f.n # w.need)
      <4>1. f.k = w.expect /\ Tally(c, n) BY <3>3, <3>4, <3>8 DEF Right
      <4>2. PICK got : Enter(c, p, rest, got) BY <1>6, <1>7, <2>4, <3>5, <3>8, <4>1
      <4>3. toCore[c] = <<>> /\ (p.cmd.k = "srefresh" => NoJobs(c)) BY <1>3, <3>2 DEF Answered
      <4> QED BY <1>1, <1>2, <1>3, <1>5, <1>8, <4>1, <4>2, <4>3, EnterOwn
    <3> QED BY <3>6, <3>7, <3>8
  <2> QED BY <2>5, <2>6
<1>10. CASE Hoping(c, w, n)
  <2>1. /\ p.cmd.k = "sadd" /\ w.k = "id" /\ w.need = 0 /\ w.soft = TRUE
        /\ Tally(c, n) /\ toCore[c] = <<>>
    BY <1>3, <1>10 DEF Hoping, Hopes
  <2>2. CASE Skip(c)
    <3>1. ~Asking(c, w, n) BY <2>1 DEF Asking, Asks
    <3> QED BY <1>1, <1>2, <1>3, <1>4, <2>2, <3>1, WaitingSkips
  <2>3. CASE Done(c, "ok")
    <3>1. PICK out : out = "ok" OBVIOUS
    <3> QED BY <1>2, <1>3, <2>1, <2>3, <3>1, DoneOwn
  <2>4. ASSUME NEW got, Enter(c, p, rest, got) PROVE OwnInv'
    BY <1>1, <1>2, <1>3, <1>5, <1>8, <2>1, <2>4, EnterOwn
  <2> QED BY <1>6, <1>7, <2>1, <2>2, <2>3, <2>4
<1>11. CASE Turning(c, w, n)
  <2>1. PICK r : /\ Turns(r, w)
                 /\ \/ toCore[c] = <<[r |-> r, id |-> <<c, n>>]>> /\ Unheard(inbox[c], <<c, n>>)
                    \/ toCore[c] = <<>> /\ BadNews(c, w, n)
    BY <1>11 DEF Turning
  <2>2. w.k \in {"up", "down", "tun"} BY <2>1 DEF Turns
  <2>3. ~Answers(p.cmd) /\ rest = <<>> BY <1>3, <1>7, <1>11 DEF Turning
  <2>4. CASE Skip(c)
    <3>1. ~Asking(c, w, n) BY <2>2 DEF Asking, Asks
    <3> QED BY <1>1, <1>2, <1>3, <1>4, <2>4, <3>1, WaitingSkips
  <2>5. CASE f.k = "warn" /\ f.id = id /\ f.key \in Fatal(w) /\ Done(c, "failed")
    <3>1. "exited" \notin Fatal(w) BY DEF Fatal
    <3>2. Hit(f, id) BY <2>5, <3>1 DEF Hit
    <3>3. ~Unheard(inbox[c], <<c, n>>) BY <1>1, <1>3, <3>2, UnheardHead
    <3>4. BadNews(c, w, n) BY <2>1, <3>3
    <3>5. 1 \in DOMAIN inbox[c] /\ inbox[c][1] = f BY <1>1, <1>3, RestAt
    <3>6. HadFailure(c) BY <1>3, <2>5, <3>4, <3>5 DEF BadNews
    <3>7. PICK out : out = "failed" OBVIOUS
    <3> QED BY <1>2, <2>5, <3>6, <3>7, DoneOwn
  <2>6. ASSUME NEW got, Enter(c, p, rest, got) PROVE OwnInv'
    <3>1. PICK out : out = "ok" OBVIOUS
    <3>2. Done(c, out) BY <2>3, <2>6, <3>1 DEF Enter
    <3> QED BY <1>2, <1>3, <2>3, <3>1, <3>2, DoneOwn
  <2> QED BY <1>6, <1>7, <2>2, <2>4, <2>5, <2>6
<1> QED BY <1>3, <1>4, <1>9, <1>10, <1>11 DEF Waiting

LEMMA InitOwn == CliInit => OwnInv
<1> SUFFICES ASSUME CliInit PROVE OwnInv OBVIOUS
<1>1. PICK e, z : e = <<>> /\ z = 0 OBVIOUS
<1>2. /\ toCore = [c \in Clients |-> e] /\ inbox = [c \in Clients |-> e] /\ cli = [c \in Clients |-> Idle]
      /\ did = [c \in Clients |-> [ok |-> z, bad |-> z]] /\ jobs = {}
  BY <1>1 DEF CliInit
<1>3. did \in [Clients -> [ok : Nat, bad : Nat]]
  <2>1. PICK v : v = [ok |-> z, bad |-> z] OBVIOUS
  <2>2. v \in [ok : Nat, bad : Nat] BY <1>1, <2>1
  <2>3. did = [c \in Clients |-> v] BY <1>2, <2>1
  <2> QED BY <2>2, <2>3
<1>4. ASSUME NEW c \in Clients PROVE OwnQueue(toCore[c], c) /\ Progress(c)
  <2>1. toCore[c] = e /\ inbox[c] = e /\ cli[c] = Idle /\ did[c] = [ok |-> z, bad |-> z] BY <1>2
  <2>2. Tally(c, 0) BY <1>1, <2>1 DEF Tally
  <2>3. NoJobs(c) BY <1>2 DEF NoJobs
  <2>4. PICK S : S = {0} \ {0} OBVIOUS
  <2>5. e \in Seq(S) /\ \A m \in S : Own(m.id, c) BY <1>1, <2>4
  <2> QED BY <1>1, <2>1, <2>2, <2>3, <2>5 DEF OwnQueue, Resting, Progress
<1> QED BY <1>2, <1>3, <1>4 DEF OwnInv

LEMMA StepOwnInv == EditInv /\ OwnInv /\ [CliNext]_cliVars => OwnInv'
<1> SUFFICES ASSUME EditInv, OwnInv, [CliNext]_cliVars PROVE OwnInv' OBVIOUS
<1>1. ASSUME NEW c \in Clients, HandleRequest(c) PROVE OwnInv'
  BY <1>1, RequestOwn
<1>2. ASSUME NEW j \in jobs, NEW ok \in BOOLEAN, RefreshDone(j, ok) PROVE OwnInv'
  BY <1>2, RefreshOwn
<1>3. CASE BroadcastStatus \/ Drop
  BY <1>3, BroadcastOwn
<1>4. ASSUME NEW c \in Clients, NEW cmd \in Commands(scene[c]), Open(c, cmd) PROVE OwnInv'
  BY <1>4, OpenOwn
<1>5. ASSUME NEW c \in Clients, ReadState(c) PROVE OwnInv'
  BY <1>5, ReadStateOwn
<1>6. ASSUME NEW c \in Clients, ReadReply(c) PROVE OwnInv'
  BY <1>6, ReadReplyOwn
<1>7. ASSUME NEW c \in Clients, Timeout(c) PROVE OwnInv'
  BY <1>7, TimeoutOwn
<1>8. CASE UNCHANGED cliVars
  <2>1. /\ cli' = cli /\ toCore' = toCore /\ did' = did /\ jobs' = jobs /\ inbox' = inbox BY <1>8 DEF cliVars
  <2>2. ASSUME NEW d \in Clients PROVE Progress(d)'
    <3>1. Listed(inbox[d]) /\ Progress(d) BY FramesListed DEF EditInv, Inboxes, OwnInv
    <3> QED BY <2>1, <3>1, Undisturbed
  <2> QED BY <2>1, <2>2 DEF OwnInv
<1> QED
  BY <1>1, <1>2, <1>3, <1>4, <1>5, <1>6, <1>7, <1>8 DEF CliNext, CoreStep, CliStep

\* A command that reports success had each of its requests carried out, and one that reports
\* failure had one refused, for any number of processes, whatever the core broadcasts for
\* other clients in between (Session::wait of cli/client.rs picks answers by identifier;
\* the answer to a command of cli/commands/{connection,profiles,subs}.rs).
THEOREM OutcomesAreOwn == CliSpec => []OutcomeIsOwn
<1>1. OwnInv => OutcomeIsOwn
  <2> SUFFICES ASSUME OwnInv, NEW c \in Clients
               PROVE  /\ cli[c].out = "ok" /\ ByAnswer(c) => did[c] = [ok |-> cli[c].n, bad |-> 0]
                      /\ cli[c].out = "failed" => did[c].bad > 0
    BY DEF OutcomeIsOwn
  <2>1. Answers(cli[c].cmd) <=> ByAnswer(c) BY DEF Answers, ByAnswer
  <2>2. CASE Over(c) BY <2>1, <2>2 DEF Over, Tally, HadFailure
  <2>3. CASE ~Over(c)
    <3>1. Idle.out = "none"
      <4>1. PICK z, e, o, nr, x, b : /\ z = 0 /\ e = <<>> /\ o = "none" /\ nr = NoRef /\ x = "idle"
                                     /\ b = [k |-> "none"]
        OBVIOUS
      <4>2. PICK i : i = [pc |-> x, n |-> z, cmd |-> b, cfg |-> nr, todo |-> e, got |-> z, out |-> o] OBVIOUS
      <4>3. Idle = i BY <4>1, <4>2 DEF Idle
      <4>4. i.out = o BY <4>2
      <4> QED BY <4>1, <4>3, <4>4
    <3>2. cli[c].out = "none" BY <2>3, <3>1 DEF OwnInv, Progress, Resting, Loading, Waiting
    <3> QED BY <3>2
  <2> QED BY <2>2, <2>3
<1> QED
  BY <1>1, InitEdits, StepEdits, InitOwn, StepOwnInv, PTL DEF CliSpec
=============================================================================
