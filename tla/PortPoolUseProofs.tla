-------------------------- MODULE PortPoolUseProofs --------------------------
(***************************************************************************)
(* The properties of the shared port pool, for every range of ports and    *)
(* every set of goroutines.  The inductive invariant relates the in_use    *)
(* map to the ports that are held, and the cursor to the last port.        *)
(***************************************************************************)
EXTENDS PortPoolUse, PortPoolProofs, FiniteSetTheorems

HeldPorts == {held[t] : t \in Testers} \ {NoPort}

\* The ports that are held are in use, and nobody else holds them.
HeldAreInUse == HeldPorts \subseteq pool.in_use
HintFollowsLast == last # NoPort => pool.next_hint = HintAfter(last)
FullWhenRefused == refused # {} => HeldPorts = Ports

PoolInv == TypeOK /\ HeldAreInUse /\ NoSharedPort /\ HintFollowsLast

LEMMA NoPortIsNone == NoPort \in Int /\ NoPort \notin Ports
  BY RangeAssumption DEF NoPort, Ports

LEMMA PortsAreInts == Ports \subseteq Int
  BY RangeAssumption DEF Ports

\* What an acquisition does when a port is free.
LEMMA GrantStep ==
  ASSUME NEW p \in Pool, ~Exhausted(p)
  PROVE  /\ GrantedPort(p) \in Ports \ p.in_use
         /\ GetPort(p).in_use = p.in_use \cup {GrantedPort(p)}
         /\ GetPort(p).next_hint = HintAfter(GrantedPort(p))
         /\ GetPort(p) \in Pool
<1>1. GrantedPort(p) \in Ports \ p.in_use
  BY GrantedPortIsFree
<1>2. GetPort(p) \in Pool
  <2>1. NoPort \in Int
    BY NoPortIsNone
  <2> QED
    BY <2>1, PoolStaysTyped
<1> QED
  BY <1>1, <1>2 DEF GetPort

LEMMA InvInit == Init => PoolInv
<1> SUFFICES ASSUME Init PROVE PoolInv
  OBVIOUS
<1>1. TypeOK
  BY RangeAssumption DEF Init, TypeOK, Pool, CreatePortPool, Ports
<1> QED
  BY <1>1 DEF Init, PoolInv, HeldAreInUse, HeldPorts, NoSharedPort, HintFollowsLast

LEMMA AcquireInv == ASSUME PoolInv, NEW t \in Testers, Acquire(t) PROVE PoolInv'
<1> USE DEF PoolInv, TypeOK
<1>1. CASE Exhausted(pool)
  <2>1. held' = [held EXCEPT ![t] = NoPort] /\ pool' = pool /\ last' = last
    BY <1>1 DEF Acquire, GrantedPort, GetPort
  <2>2. held' = held
    BY <2>1 DEF Acquire
  <2>3. refused' \subseteq Testers
    BY <1>1 DEF Acquire
  <2> QED
    BY <2>1, <2>2, <2>3 DEF HeldAreInUse, HeldPorts, NoSharedPort, HintFollowsLast
<1>2. CASE ~Exhausted(pool)
  <2> DEFINE port == GrantedPort(pool)
  <2>1. /\ port \in Ports \ pool.in_use
        /\ pool'.in_use = pool.in_use \cup {port}
        /\ pool'.next_hint = HintAfter(port)
        /\ pool' \in Pool
    BY <1>2, GrantStep DEF Acquire
  <2>2. held' = [held EXCEPT ![t] = port] /\ last' = port /\ refused' \subseteq Testers
    BY <1>2 DEF Acquire
  <2> HIDE DEF port
  <2>3. TypeOK'
    BY <2>1, <2>2
  <2>4. HeldAreInUse'
    BY <2>1, <2>2 DEF HeldAreInUse, HeldPorts
  <2>5. NoSharedPort'
    <3> SUFFICES ASSUME NEW a \in Testers, NEW b \in Testers, a # b, held'[a] # NoPort
                 PROVE  held'[a] # held'[b]
      BY DEF NoSharedPort
    <3>1. \A u \in Testers : u # t => held'[u] = held[u] /\ (held[u] # NoPort => held[u] \in pool.in_use)
      BY <2>2 DEF HeldAreInUse, HeldPorts
    <3>2. held'[t] = port /\ port # NoPort
      BY <2>1, <2>2, NoPortIsNone
    <3> QED
      BY <2>1, <3>1, <3>2 DEF NoSharedPort
  <2>6. HintFollowsLast'
    BY <2>1, <2>2 DEF HintFollowsLast
  <2> QED
    BY <2>3, <2>4, <2>5, <2>6
<1> QED
  BY <1>1, <1>2

LEMMA FinishInv == ASSUME PoolInv, NEW t \in Testers, Finish(t) PROVE PoolInv'
<1> USE DEF PoolInv, TypeOK
<1>1. held[t] \in Int
  BY NoPortIsNone, PortsAreInts
<1>2. pool' \in Pool
  BY <1>1, PoolStaysTyped DEF Finish
<1>3. pool'.next_hint = pool.next_hint /\ pool.in_use \ {held[t]} \subseteq pool'.in_use
  BY DEF Finish, ReleasePort, Pool
<1>4. held' = [held EXCEPT ![t] = NoPort] /\ refused' = {} /\ last' = last
  BY DEF Finish
<1>5. TypeOK'
  BY <1>2, <1>4
<1>6. HeldAreInUse'
  <2> SUFFICES ASSUME NEW u \in Testers, held'[u] # NoPort PROVE held'[u] \in pool'.in_use
    BY DEF HeldAreInUse, HeldPorts
  <2>1. u # t /\ held'[u] = held[u]
    BY <1>4
  <2>2. held[u] \in pool.in_use /\ held[u] # held[t]
    BY <2>1 DEF HeldAreInUse, HeldPorts, NoSharedPort
  <2> QED
    BY <1>3, <2>1, <2>2
<1>7. NoSharedPort'
  BY <1>4 DEF NoSharedPort
<1>8. HintFollowsLast'
  BY <1>3, <1>4 DEF HintFollowsLast
<1> QED
  BY <1>5, <1>6, <1>7, <1>8

LEMMA InvStep == PoolInv /\ [Next]_vars => PoolInv'
<1> SUFFICES ASSUME PoolInv, [Next]_vars PROVE PoolInv'
  OBVIOUS
<1>1. CASE Next
  BY <1>1, AcquireInv, FinishInv DEF Next
<1>2. CASE UNCHANGED vars
  BY <1>2 DEF vars, PoolInv, TypeOK, HeldAreInUse, HeldPorts, NoSharedPort, HintFollowsLast
<1> QED
  BY <1>1, <1>2

LEMMA InvAlways == Spec => []PoolInv
  BY InvInit, InvStep, PTL DEF Spec

\* The pool, the ports held and the cursor keep their types, over any sequence of
\* GetPort and ReleasePort.
THEOREM PoolTypeCorrect == Spec => []TypeOK
<1>1. PoolInv => TypeOK
  BY DEF PoolInv
<1> QED
  BY <1>1, InvAlways, PTL

\* No two tests ever hold the same port, for every range, one from port zero included.
THEOREM PortsNotShared == Spec => []NoSharedPort
<1>1. PoolInv => NoSharedPort
  BY DEF PoolInv
<1> QED
  BY <1>1, InvAlways, PTL

-----------------------------------------------------------------------------
(* A range from port zero leaks that port, which ReleasePort ignores; with  *)
(* every other range the map records exactly the ports that are held.       *)

PositiveRange == StartPort > 0
ExactInv == PoolInv /\ PoolMatchesHolders /\ FullWhenRefused

LEMMA ExactInit == ASSUME PositiveRange PROVE Init => ExactInv
  BY InvInit DEF Init, ExactInv, PoolMatchesHolders, FullWhenRefused, CreatePortPool

LEMMA ExactAcquire == ASSUME PositiveRange, ExactInv, NEW t \in Testers, Acquire(t) PROVE ExactInv'
<1>1. PoolInv'
  BY AcquireInv DEF ExactInv
<1>2. pool \in Pool /\ held \in [Testers -> Ports \cup {NoPort}] /\ HeldPorts = pool.in_use
  BY DEF ExactInv, PoolInv, TypeOK, PoolMatchesHolders, HeldPorts
<1>3. CASE Exhausted(pool)
  <2>1. held' = held /\ pool' = pool
    BY <1>2, <1>3 DEF Acquire, GrantedPort, GetPort
  <2>2. pool.in_use = Ports
    BY <1>2, <1>3, ExhaustedIffAllInUse
  <2> QED
    BY <1>1, <1>2, <2>1, <2>2 DEF ExactInv, PoolMatchesHolders, FullWhenRefused, HeldPorts
<1>4. CASE ~Exhausted(pool)
  <2> DEFINE port == GrantedPort(pool)
  <2>1. port \in Ports \ pool.in_use /\ pool'.in_use = pool.in_use \cup {port}
    BY <1>2, <1>4, GrantStep DEF Acquire
  <2>2. held' = [held EXCEPT ![t] = port] /\ held[t] = NoPort /\ refused' = refused \ {t}
    BY <1>4 DEF Acquire
  <2> HIDE DEF port
  <2>3. HeldPorts' = HeldPorts \cup {port}
    BY <1>2, <2>1, <2>2, NoPortIsNone DEF HeldPorts
  <2>4. refused = {}
    BY <1>2, <2>1 DEF ExactInv, FullWhenRefused
  <2> QED
    BY <1>1, <1>2, <2>1, <2>2, <2>3, <2>4 DEF ExactInv, PoolMatchesHolders, FullWhenRefused, HeldPorts
<1> QED
  BY <1>3, <1>4

LEMMA ExactFinish == ASSUME PositiveRange, ExactInv, NEW t \in Testers, Finish(t) PROVE ExactInv'
<1>1. PoolInv'
  BY FinishInv DEF ExactInv
<1>2. /\ pool \in Pool /\ held \in [Testers -> Ports \cup {NoPort}]
      /\ HeldPorts = pool.in_use /\ NoSharedPort
  BY DEF ExactInv, PoolInv, TypeOK, PoolMatchesHolders, HeldPorts
<1>3. held[t] \in Ports /\ held[t] > 0
  BY <1>2, RangeAssumption DEF Finish, Ports, PositiveRange
<1>4. pool'.in_use = pool.in_use \ {held[t]}
  BY <1>2, <1>3, RangeAssumption DEF Finish, ReleasePort, Pool, Ports
<1>5. held' = [held EXCEPT ![t] = NoPort] /\ refused' = {}
  BY DEF Finish
<1>6. HeldPorts' = HeldPorts \ {held[t]}
  <2>1. ASSUME NEW u \in Testers, u # t PROVE held'[u] = held[u] /\ held[u] # held[t]
    BY <1>2, <1>3, <1>5, <2>1, NoPortIsNone DEF NoSharedPort
  <2> QED
    BY <1>2, <1>5, <2>1 DEF HeldPorts
<1> QED
  BY <1>1, <1>2, <1>4, <1>5, <1>6 DEF ExactInv, PoolMatchesHolders, FullWhenRefused, HeldPorts

LEMMA ExactAlways == ASSUME PositiveRange PROVE Spec => []ExactInv
<1>1. Init => ExactInv
  BY ExactInit
<1>2. ExactInv /\ [Next]_vars => ExactInv'
  <2> SUFFICES ASSUME ExactInv, [Next]_vars PROVE ExactInv'
    OBVIOUS
  <2>1. CASE Next
    BY <2>1, ExactAcquire, ExactFinish DEF Next
  <2>2. CASE UNCHANGED vars
    BY <2>2 DEF vars, ExactInv, PoolInv, TypeOK, HeldAreInUse, HeldPorts, NoSharedPort, HintFollowsLast,
                PoolMatchesHolders, FullWhenRefused
  <2> QED
    BY <2>1, <2>2
<1> QED
  BY <1>1, <1>2, PTL DEF Spec

\* The in_use map is exactly the set of ports that are held: ReleasePort leaks nothing,
\* unless the range starts at port zero.
THEOREM PoolIsExact == ASSUME PositiveRange PROVE Spec => []PoolMatchesHolders
<1>1. ExactInv => PoolMatchesHolders
  BY DEF ExactInv
<1> QED
  BY <1>1, ExactAlways, PTL

\* A refusal of GetPort means that as many ports are held as the range has.
THEOREM RefusalsAreRight == ASSUME PositiveRange PROVE Spec => []RefusedOnlyWhenFull
<1>1. Cardinality(Ports) = RangeSize
  <2>1. StartPort \in Int /\ EndPort - 1 \in Int /\ ~(StartPort > EndPort - 1)
    BY RangeAssumption
  <2>2. Cardinality(StartPort .. (EndPort - 1)) = (EndPort - 1) - StartPort + 1
    BY <2>1, FS_Interval
  <2> QED
    BY <2>2, RangeAssumption DEF Ports, RangeSize
<1>2. ExactInv => RefusedOnlyWhenFull
  BY <1>1 DEF ExactInv, FullWhenRefused, RefusedOnlyWhenFull, HeldPorts
<1> QED
  BY <1>2, ExactAlways, PTL

-----------------------------------------------------------------------------
(* The scan starts behind the last port and meets it again only at its end. *)

LEMMA LastIsScannedLast ==
  ASSUME NEW p \in Pool, NEW l \in Ports, p.next_hint = HintAfter(l),
         NEW i \in 0 .. (RangeSize - 1), Candidate(p, i) = l
  PROVE  i = RangeSize - 1
<1>1. RangeSize \in Nat \ {0} /\ RangeSize = EndPort - StartPort
  BY RangeAssumption DEF RangeSize
<1>2. StartPort \in Int /\ EndPort \in Int /\ l \in Int /\ StartPort <= l /\ l < EndPort
  BY RangeAssumption DEF Ports
<1>3. CASE l + 1 >= EndPort
  <2>1. p.next_hint + i - StartPort = i
    BY <1>2, <1>3 DEF HintAfter
  <2>2. i % RangeSize = i
    BY <1>1, SmallMod
  <2> QED
    BY <1>1, <1>2, <1>3, <2>1, <2>2 DEF Candidate
<1>4. CASE l + 1 < EndPort
  <2> DEFINE x == l + 1 + i - StartPort
  <2>1. p.next_hint + i - StartPort = x
    BY <1>2, <1>4 DEF HintAfter
  <2>2. x % RangeSize = l - StartPort
    BY <1>1, <1>2, <2>1 DEF Candidate
  <2>3. CASE x < RangeSize
    <3>1. x \in 0 .. (RangeSize - 1)
      BY <1>1, <1>2, <2>3
    <3>2. x % RangeSize = x
      BY <1>1, <3>1, SmallMod
    <3> QED
      BY <1>2, <2>2, <3>2
  <2>4. CASE x >= RangeSize
    <3>1. x - RangeSize \in 0 .. (RangeSize - 1) /\ (x - RangeSize) + RangeSize = x
      BY <1>1, <1>2, <1>4, <2>4
    <3>2. ((x - RangeSize) + RangeSize) % RangeSize = x - RangeSize
      BY <1>1, <3>1, SmallMod
    <3>3. x - RangeSize = l - StartPort
      BY <2>2, <3>1, <3>2
    <3> QED
      BY <1>1, <1>2, <3>3
  <2> QED
    BY <1>1, <1>2, <2>3, <2>4
<1> QED
  BY <1>2, <1>3, <1>4

\* GetPort grants the last port again only when every other one is in use.
LEMMA ReuseMeansFull ==
  ASSUME NEW p \in Pool, NEW l \in Ports, p.next_hint = HintAfter(l),
         ~Exhausted(p), GrantedPort(p) = l
  PROVE  p.in_use \cup {l} = Ports
<1> DEFINE First == CHOOSE i \in FreeAt(p) : \A j \in FreeAt(p) : i <= j
<1>1. RangeSize \in Nat \ {0} /\ RangeSize - 1 \in Nat
  BY RangeAssumption DEF RangeSize
<1>2. FreeAt(p) \in SUBSET (0 .. (RangeSize - 1)) /\ FreeAt(p) # {}
  BY DEF FreeAt, Exhausted
<1>3. \E i \in FreeAt(p) : \A j \in FreeAt(p) : i <= j
  BY <1>1, <1>2, LeastOffset
<1>4. First \in FreeAt(p) /\ \A j \in FreeAt(p) : First <= j
  BY <1>3
<1>5. Candidate(p, First) = l
  BY DEF GrantedPort
<1> HIDE DEF First
<1>6. First = RangeSize - 1
  BY <1>2, <1>4, <1>5, LastIsScannedLast
<1>7. ASSUME NEW q \in Ports, q # l PROVE q \in p.in_use
  <2>1. PICK j \in 0 .. (RangeSize - 1) : Candidate(p, j) = q
    BY ScanCoversRange
  <2>2. j # First
    BY <1>5, <1>7, <2>1
  <2>3. j \notin FreeAt(p)
    BY <1>1, <1>4, <1>6, <2>2
  <2> QED
    BY <2>1, <2>3 DEF FreeAt
<1> QED
  BY <1>7 DEF Pool

\* A port that was just given back is not handed out again while another one is free,
\* wherever the cursor wraps.
THEOREM NoPortTwiceInARow == Spec => NoImmediateReuse
<1> DEFINE Fresh == \/ last' # last
                    \/ pool'.in_use \subseteq pool.in_use
                    \/ pool'.in_use \cup {last} = Ports
<1>1. PoolInv /\ [Next]_vars => [ last' # last \/ pool'.in_use \subseteq pool.in_use
                                   \/ pool'.in_use \cup {last} = Ports ]_vars
  <2> SUFFICES ASSUME PoolInv, NEW t \in Testers, Acquire(t) \/ Finish(t) PROVE Fresh
    BY DEF Next
  <2>1. CASE Finish(t)
    BY <2>1 DEF Finish, ReleasePort, PoolInv, TypeOK, Pool
  <2>2. CASE Acquire(t) /\ Exhausted(pool)
    BY <2>2 DEF Acquire, GetPort
  <2>3. CASE Acquire(t) /\ ~Exhausted(pool)
    <3>1. pool \in Pool
      BY DEF PoolInv, TypeOK
    <3>2. /\ GrantedPort(pool) \in Ports
          /\ pool'.in_use = pool.in_use \cup {GrantedPort(pool)}
          /\ last' = GrantedPort(pool)
      BY <2>3, <3>1, GrantStep DEF Acquire
    <3>3. CASE last' = last
      <4>1. last \in Ports /\ last # NoPort /\ GrantedPort(pool) = last
        BY <3>2, <3>3, NoPortIsNone
      <4>2. pool.next_hint = HintAfter(last)
        BY <4>1 DEF PoolInv, HintFollowsLast
      <4>3. pool.in_use \cup {last} = Ports
        BY <2>3, <3>1, <4>1, <4>2, ReuseMeansFull
      <4> QED
        BY <3>2, <4>1, <4>3
    <3> QED
      BY <3>3
  <2> QED
    BY <2>1, <2>2, <2>3
<1> QED
  BY <1>1, InvAlways, PTL DEF Spec, NoImmediateReuse
===============================================================================
