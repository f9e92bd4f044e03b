---------------------------- MODULE PortPoolProofs ----------------------------
(***************************************************************************)
(* What GetPort and ReleasePort do to a pool, for every port range.        *)
(***************************************************************************)
EXTENDS PortPool, WellFoundedInduction, TLAPS

\* The remainder of a number below twice the modulus.
LEMMA SmallMod ==
  ASSUME NEW n \in Nat \ {0}, NEW x \in 0 .. (n - 1)
  PROVE  /\ x % n = x
         /\ (x + n) % n = x
  OBVIOUS

\* Every iteration of GetPort's scan looks at a port of the range.
LEMMA CandidateInRange ==
  ASSUME NEW pool \in Pool, NEW i \in 0 .. (RangeSize - 1)
  PROVE  Candidate(pool, i) \in Ports
<1>1. RangeSize \in Nat \ {0}
  BY RangeAssumption DEF RangeSize
<1>2. pool.next_hint \in Ports
  BY DEF Pool
<1>3. (pool.next_hint + i - StartPort) % RangeSize \in 0 .. (RangeSize - 1)
  BY <1>1, <1>2, RangeAssumption DEF Ports
<1> QED
  BY <1>3, RangeAssumption DEF Candidate, Ports, RangeSize

\* The wrapping scan visits every port of the range.
LEMMA ScanCoversRange ==
  ASSUME NEW pool \in Pool, NEW port \in Ports
  PROVE  \E i \in 0 .. (RangeSize - 1) : Candidate(pool, i) = port
<1>1. RangeSize \in Nat \ {0}
  BY RangeAssumption DEF RangeSize
<1>2. pool.next_hint \in Ports
  BY DEF Pool
<1> DEFINE h == pool.next_hint
           d == port - StartPort
<1>3. d \in 0 .. (RangeSize - 1)
  BY RangeAssumption DEF Ports, RangeSize
<1>4. CASE h <= port
  <2>1. port - h \in 0 .. (RangeSize - 1)
    BY <1>2, <1>4, RangeAssumption DEF Ports, RangeSize
  <2>2. h + (port - h) - StartPort = d
    BY <1>2, RangeAssumption DEF Ports
  <2>3. d % RangeSize = d
    BY <1>1, <1>3, SmallMod
  <2>4. Candidate(pool, port - h) = StartPort + d
    BY <2>2, <2>3 DEF Candidate
  <2> QED
    BY <2>1, <2>4, RangeAssumption DEF Ports
<1>5. CASE port < h
  <2>1. port + RangeSize - h \in 0 .. (RangeSize - 1)
    BY <1>2, <1>5, RangeAssumption DEF Ports, RangeSize
  <2>2. h + (port + RangeSize - h) - StartPort = d + RangeSize
    BY <1>1, <1>2, RangeAssumption DEF Ports
  <2>3. (d + RangeSize) % RangeSize = d
    BY <1>1, <1>3, SmallMod
  <2>4. Candidate(pool, port + RangeSize - h) = StartPort + d
    BY <2>2, <2>3 DEF Candidate
  <2> QED
    BY <2>1, <2>4, RangeAssumption DEF Ports
<1> QED
  BY <1>2, <1>4, <1>5, RangeAssumption DEF Ports

\* GetPort reports "no port available" exactly when every port is in use.
THEOREM ExhaustedIffAllInUse ==
  ASSUME NEW pool \in Pool
  PROVE  Exhausted(pool) <=> pool.in_use = Ports
<1>1. ASSUME Exhausted(pool) PROVE pool.in_use = Ports
  <2>1. ASSUME NEW port \in Ports PROVE port \in pool.in_use
    <3>1. PICK i \in 0 .. (RangeSize - 1) : Candidate(pool, i) = port
      BY ScanCoversRange
    <3> QED
      BY <1>1, <3>1 DEF Exhausted, FreeAt
  <2> QED
    BY <2>1 DEF Pool
<1>2. ASSUME pool.in_use = Ports PROVE Exhausted(pool)
  BY <1>2, CandidateInRange DEF Exhausted, FreeAt
<1> QED
  BY <1>1, <1>2

\* A set of numbers of an interval from zero that is not empty has a least one.
LEMMA LeastOffset ==
  ASSUME NEW n \in Nat, NEW S \in SUBSET (0 .. n), S # {}
  PROVE  \E i \in S : \A j \in S : i <= j
<1> DEFINE Less == {p \in Nat \X Nat : p[1] < p[2]}
<1>1. S \subseteq Nat
  OBVIOUS
<1>2. IsWellFoundedOn(Less, Nat)
  BY NatLessThanWellFounded, Zenon DEF OpToRel
<1> HIDE DEF Less
<1>3. PICK i \in S : \A j \in S : ~(<<j, i>> \in Less)
  BY <1>1, <1>2, WFMin
<1>4. ASSUME NEW j \in S PROVE i <= j
  <2>1. i \in Nat /\ j \in Nat
    BY <1>1
  <2>2. <<j, i>> \in Less <=> j < i
    BY <2>1 DEF Less
  <2>3. ~(j < i)
    BY <1>3, <2>2
  <2> QED
    BY <2>1, <2>3
<1> QED
  BY <1>4

\* A port that is granted lies in the range and was free.
THEOREM GrantedPortIsFree ==
  ASSUME NEW pool \in Pool, ~Exhausted(pool)
  PROVE  GrantedPort(pool) \in Ports \ pool.in_use
<1> DEFINE First == CHOOSE i \in FreeAt(pool) : \A j \in FreeAt(pool) : i <= j
<1>1. RangeSize \in Nat \ {0}
  BY RangeAssumption DEF RangeSize
<1>2. FreeAt(pool) \in SUBSET (0 .. (RangeSize - 1)) /\ FreeAt(pool) # {}
  BY DEF FreeAt, Exhausted
<1>3. \E i \in FreeAt(pool) : \A j \in FreeAt(pool) : i <= j
  <2>1. RangeSize - 1 \in Nat
    BY <1>1
  <2> QED
    BY <1>2, <2>1, LeastOffset
<1>4. First \in FreeAt(pool)
  BY <1>3
<1>5. GrantedPort(pool) = Candidate(pool, First)
  BY DEF GrantedPort
<1> QED
  BY <1>2, <1>4, <1>5, CandidateInRange DEF FreeAt

\* GetPort and ReleasePort keep a well-formed pool: in particular the cursor
\* stays inside the range.
THEOREM PoolStaysTyped ==
  ASSUME NEW pool \in Pool, NEW port \in Int
  PROVE  /\ GetPort(pool) \in Pool
         /\ ReleasePort(pool, port) \in Pool
<1>1. CASE Exhausted(pool)
  BY <1>1 DEF GetPort, ReleasePort, Pool
<1>2. CASE ~Exhausted(pool)
  <2>1. GrantedPort(pool) \in Ports
    BY <1>2, GrantedPortIsFree
  <2>2. HintAfter(GrantedPort(pool)) \in Ports
    BY <2>1, RangeAssumption DEF HintAfter, Ports
  <2>3. GetPort(pool) \in Pool
    BY <1>2, <2>1, <2>2 DEF GetPort, Pool
  <2> QED
    BY <2>3 DEF ReleasePort, Pool
<1> QED
  BY <1>1, <1>2
===============================================================================
