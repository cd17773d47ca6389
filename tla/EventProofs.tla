------------------------------ MODULE EventProofs ------------------------------
(***************************************************************************)
(* The deliveries of MCEvents: none is lost, doubled or posted too often,  *)
(* the jobs in memory are bounded, and no fresh one waits beside a free    *)
(* slot, for any number of endpoints, events, slots and attempts.          *)
(*                                                                         *)
(* A run of the queue takes a prefix of the jobs that are due, and an      *)
(* event enqueues one job after the other, so the proofs need induction    *)
(* over indices; it is done by the smallest index that would be wrong.     *)
(***************************************************************************)
EXTENDS MCEvents, Integers, Sequences, FiniteSetTheorems, WellFoundedInduction, TLAPS

-------------------------------------------------------------------------------
(* Numbers and their order *)

(* A set of natural numbers has a smallest one: the form of induction used here. *)
LEMMA Smallest ==
    ASSUME NEW T \in SUBSET Nat, T # {}
    PROVE  \E m \in T : \A n \in T : m <= n
<1> DEFINE R == {ss \in Nat \X Nat : ss[1] < ss[2]}
<1>1. R = OpToRel(<, Nat)
  BY DEF OpToRel
<1>2. IsWellFoundedOn(OpToRel(<, Nat), Nat)
  BY NatLessThanWellFounded
<1>3. IsWellFoundedOn(R, Nat)
  BY <1>1, <1>2
<1> HIDE DEF R
<1>4. \E x \in T : \A y \in T : ~ (<<y, x>> \in R)
  BY <1>3, WFMin
<1>5. \A x, y \in Nat : <<y, x>> \in R <=> y < x
  BY DEF R
<1>6. PICK x \in T : \A y \in T : ~ (<<y, x>> \in R)
  BY <1>4
<1>7. \A y \in T : ~(y < x)
  BY <1>5, <1>6
<1>8. QED
  BY <1>6, <1>7

(* Numbers up to a bound have a largest one. *)
LEMMA Largest ==
    ASSUME NEW n \in Nat, NEW T \in SUBSET (0..n), T # {}
    PROVE  \E m \in T : \A k \in T : k <= m
<1> DEFINE U == {n - k : k \in T}
<1>1. U \in SUBSET Nat /\ U # {}
  <2>1. \A k \in T : k \in 0..n
    OBVIOUS
  <2>2. \A k \in T : n - k \in Nat
    BY <2>1
  <2>3. QED
    BY <2>2
<1>2. PICK u \in U : \A v \in U : u <= v
  BY <1>1, Smallest
<1>3. PICK m \in T : u = n - m
  BY <1>2
<1>4. \A k \in T : u <= n - k
  BY <1>2
<1>5. QED
  BY <1>3, <1>4

(* An instance of a module counts as this module does. *)
LEMMA HookSizes == \A S : Hooks!Cardinality(S) = Cardinality(S)
BY DEF Hooks!Cardinality, Cardinality

LEMMA BoundedIsFinite ==
    ASSUME NEW n \in Nat, NEW S \in SUBSET (0..n)
    PROVE  IsFiniteSet(S) /\ Cardinality(S) \in Nat
<1>1. IsFiniteSet(0..n)
  BY FS_Interval
<1>2. QED
  BY <1>1, FS_Subset, FS_CardinalityType

(* The numbers of a set can be put in order. *)
Ordered(S) ==
    \E f \in [1..Cardinality(S) -> S] : \A i, k \in 1..Cardinality(S) : i < k => f[i] < f[k]

LEMMA OrderExists ==
    ASSUME NEW n \in Nat, NEW S \in SUBSET (0..n)
    PROVE  Ordered(S)
<1> DEFINE Bad == {Cardinality(T) : T \in {U \in SUBSET (0..n) : ~Ordered(U)}}
<1>1. \A T \in SUBSET (0..n) : IsFiniteSet(T) /\ Cardinality(T) \in Nat
  BY BoundedIsFinite
<1>2. SUFFICES ASSUME ~Ordered(S) PROVE FALSE
  OBVIOUS
<1>3. Bad \in SUBSET Nat /\ Bad # {}
  BY <1>1, <1>2
<1>4. PICK c \in Bad : \A d \in Bad : c <= d
  BY <1>3, Smallest
<1>5. PICK T \in SUBSET (0..n) : Cardinality(T) = c /\ ~Ordered(T)
  BY <1>4
<1>6. \A U \in SUBSET (0..n) : ~Ordered(U) => c <= Cardinality(U)
  BY <1>4
<1> HIDE DEF Bad
<1>7. T # {}
  <2>1. SUFFICES ASSUME T = {} PROVE FALSE
    OBVIOUS
  <2>2. Cardinality(T) = 0 /\ 1..0 = {}
    BY <2>1, FS_EmptySet
  <2>3. PICK f : f = [i \in 1..0 |-> 0]
    OBVIOUS
  <2>4. f \in [1..0 -> T]
    BY <2>2, <2>3
  <2>5. Ordered(T)
    BY <2>2, <2>4 DEF Ordered
  <2>6. QED
    BY <1>5, <2>5
<1>8. PICK m \in T : \A k \in T : k <= m
  BY <1>7, Largest
<1>9. Cardinality(T \ {m}) = c - 1 /\ c \in Nat /\ c # 0 /\ T \ {m} \in SUBSET (0..n)
  BY <1>1, <1>5, <1>7, <1>8, FS_RemoveElement, FS_EmptySet
<1>10. Ordered(T \ {m})
  BY <1>6, <1>9
<1>11. PICK f \in [1..(c - 1) -> T \ {m}] : \A i, k \in 1..(c - 1) : i < k => f[i] < f[k]
  BY <1>9, <1>10 DEF Ordered
<1>12. PICK g : g = [i \in 1..c |-> IF i = c THEN m ELSE f[i]]
  OBVIOUS
<1>13. \A i \in 1..c : i # c => i \in 1..(c - 1)
  BY <1>9
<1>14. g \in [1..c -> T]
  <2>1. \A i \in 1..c : i # c => f[i] \in T
    BY <1>11, <1>13
  <2>2. QED
    BY <1>8, <1>12, <2>1
<1>15. ASSUME NEW i \in 1..c, NEW k \in 1..c, i < k PROVE g[i] < g[k]
  <2>1. i # c
    BY <1>9, <1>15
  <2>2. i \in 1..(c - 1) /\ g[i] = f[i] /\ f[i] \in T \ {m}
    BY <1>11, <1>12, <1>13, <2>1
  <2>3. CASE k = c
    <3>1. f[i] \in 0..n /\ m \in 0..n /\ f[i] # m /\ f[i] <= m
      BY <1>8, <2>2
    <3>2. g[k] = m
      BY <1>12, <2>3
    <3>3. QED
      BY <2>2, <3>1, <3>2
  <2>4. CASE k # c
    BY <1>11, <1>12, <1>13, <1>15, <2>2, <2>4
  <2>5. QED
    BY <2>3, <2>4
<1>16. QED
  BY <1>5, <1>14, <1>15 DEF Ordered

(* InOrder lists every number of a set once. *)
LEMMA OrderLists ==
    ASSUME NEW n \in Nat, NEW S \in SUBSET (0..n)
    PROVE  /\ IsFiniteSet(S) /\ Cardinality(S) \in Nat
           /\ Hooks!InOrder(S) \in [1..Cardinality(S) -> S]
           /\ \A i, k \in 1..Cardinality(S) : i < k => Hooks!InOrder(S)[i] < Hooks!InOrder(S)[k]
           /\ \A x \in S : \E i \in 1..Cardinality(S) : Hooks!InOrder(S)[i] = x
<1>1. IsFiniteSet(S) /\ Cardinality(S) \in Nat
  BY BoundedIsFinite
<1>2. PICK c \in Nat : c = Cardinality(S)
  BY <1>1
<1>3. \E f \in [1..c -> S] : \A i, k \in DOMAIN f : i < k => f[i] < f[k]
  BY <1>2, OrderExists DEF Ordered
<1>4. PICK f : f = Hooks!InOrder(S)
  OBVIOUS
<1>5. f \in [1..c -> S] /\ \A i, k \in DOMAIN f : i < k => f[i] < f[k]
  BY <1>2, <1>3, <1>4, HookSizes DEF Hooks!InOrder
<1>6. \A i, k \in 1..c : i < k => f[i] < f[k]
  BY <1>5
<1>7. \A x \in S : \E i \in 1..c : f[i] = x
  <2>1. \A i, k \in 1..c : f[i] \in 0..n /\ f[k] \in 0..n
    BY <1>5
  <2>2. \A i, k \in 1..c : f[i] = f[k] => i = k
    BY <1>6, <2>1
  <2>3. f \in Injection(1..c, S)
    BY <1>5, <2>2 DEF Injection, IsInjective
  <2>4. Cardinality(1..c) = c
    BY <1>2, FS_Interval
  <2>5. f \in Surjection(1..c, S)
    BY <1>1, <1>2, <2>3, <2>4, FS_Injection
  <2>6. QED
    BY <2>5 DEF Surjection
<1>8. QED
  BY <1>1, <1>2, <1>4, <1>5, <1>6, <1>7
-------------------------------------------------------------------------------
(* A run of the queue *)

(* What a run takes fits into the free slots, and fills them if a job that is due is left. *)
LEMMA TakenFills ==
    ASSUME NEW s, s.queue \in Seq(Hooks!Jobs),
           s.activeDeliveries \in 0..MAX_CONCURRENT_DELIVERIES
    PROVE  /\ Hooks!Taken(s) \in SUBSET DOMAIN s.queue
           /\ \A i \in Hooks!Taken(s) : s.queue[i].due
           /\ IsFiniteSet(Hooks!Taken(s)) /\ Cardinality(Hooks!Taken(s)) \in Nat
           /\ Hooks!FreeSlots(s) \in Nat
           /\ Cardinality(Hooks!Taken(s)) <= Hooks!FreeSlots(s)
           /\ \A i \in DOMAIN s.queue \ Hooks!Taken(s) :
                 s.queue[i].due => Cardinality(Hooks!Taken(s)) = Hooks!FreeSlots(s)
<1> DEFINE q == s.queue
           Due(i) == {k \in 1..i : q[k].due}
<1>1. PICK n \in Nat : n = Len(q) /\ DOMAIN q = 1..n
  OBVIOUS
<1>2. PICK T : T = Hooks!Taken(s)
  OBVIOUS
<1>3. PICK F \in Nat : F = Hooks!FreeSlots(s)
  BY HooksAssumption DEF Hooks!FreeSlots
<1>4. T = {i \in 1..n : q[i].due /\ Cardinality(Due(i)) <= F}
  BY <1>1, <1>2, <1>3, HookSizes DEF Hooks!Taken
<1> HIDE DEF q
<1>5. \A i \in 1..n : Due(i) \in SUBSET (0..n) /\ IsFiniteSet(Due(i)) /\ Cardinality(Due(i)) \in Nat
  <2>1. \A i \in 1..n : Due(i) \in SUBSET (0..n)
    OBVIOUS
  <2>2. QED
    BY <2>1, BoundedIsFinite
<1>6. \A i \in 1..n : \A k : k \in Due(i) <=> k \in 1..i /\ q[k].due
  OBVIOUS
<1> HIDE DEF Due
<1>7. T \in SUBSET (0..n) /\ IsFiniteSet(T) /\ Cardinality(T) \in Nat
  <2>1. T \in SUBSET (0..n)
    BY <1>4
  <2>2. QED
    BY <2>1, BoundedIsFinite
<1>8. Cardinality(T) <= F
  <2>1. CASE T = {}
    BY <2>1, FS_EmptySet
  <2>2. CASE T # {}
    <3>1. PICK m \in T : \A k \in T : k <= m
      BY <1>7, <2>2, Largest
    <3>2. T \in SUBSET Due(m) /\ m \in 1..n /\ Cardinality(Due(m)) <= F
      BY <1>4, <1>6, <3>1
    <3>3. Cardinality(T) <= Cardinality(Due(m))
      BY <1>5, <3>2, FS_Subset
    <3>4. QED
      BY <1>5, <1>7, <3>2, <3>3
  <2>3. QED
    BY <2>1, <2>2
<1>9. ASSUME NEW i \in 1..n, i \notin T, q[i].due
      PROVE  Cardinality(T) = F
  <2> DEFINE Left == {k \in 1..n : q[k].due /\ k \notin T}
  <2>1. PICK m \in Left : \A k \in Left : m <= k
    <3>1. Left \in SUBSET Nat /\ Left # {}
      BY <1>9
    <3>2. QED
      BY <3>1, Smallest
  <2>2. m \in 1..n /\ Cardinality(Due(m)) > F
    BY <1>3, <1>4, <1>5, <2>1
  <2>3. Due(m) \ {m} \in SUBSET T
    <3>1. ASSUME NEW k \in Due(m) \ {m} PROVE k \in T
      <4>1. k \in 1..n /\ q[k].due /\ k < m
        BY <1>6, <2>2, <3>1
      <4>2. QED
        BY <2>1, <2>2, <4>1
    <3>2. QED
      BY <3>1
  <2>4. m \in Due(m)
    BY <1>6, <2>1, <2>2
  <2>5. Cardinality(Due(m) \ {m}) = Cardinality(Due(m)) - 1
    BY <1>5, <2>2, <2>4, FS_RemoveElement
  <2>6. Cardinality(Due(m) \ {m}) <= Cardinality(T)
    BY <1>7, <2>3, FS_Subset
  <2>7. QED
    BY <1>3, <1>5, <1>7, <1>8, <2>2, <2>5, <2>6
<1>10. T \in SUBSET DOMAIN q /\ \A i \in T : q[i].due
  BY <1>1, <1>4
<1>11. QED
  BY <1>1, <1>2, <1>3, <1>7, <1>8, <1>9, <1>10 DEF q

(* The queue of t is what is left of the queue of s without the places in taken. *)
Remains(s, t, taken) ==
    \E left \in [DOMAIN t.queue -> DOMAIN s.queue \ taken] :
        /\ \A i, k \in DOMAIN t.queue : left[i] = left[k] => i = k
        /\ \A x \in DOMAIN s.queue \ taken : \E i \in DOMAIN t.queue : left[i] = x
        /\ \A i \in DOMAIN t.queue : t.queue[i] = s.queue[left[i]]

(* A run moves what it takes into the slots and keeps the rest in its order. *)
LEMMA RunOfTheQueue ==
    ASSUME NEW s, s.queue \in Seq(Hooks!Jobs), NEW t, t = Hooks!ProcessQueue(s),
           s.activeDeliveries \in 0..MAX_CONCURRENT_DELIVERIES
    PROVE  /\ t = [queue |-> t.queue, inFlight |-> t.inFlight, activeDeliveries |-> t.activeDeliveries]
           /\ t.queue \in Seq(Hooks!Jobs)
           /\ Len(t.queue) = Len(s.queue) - Cardinality(Hooks!Taken(s))
           /\ t.inFlight = s.inFlight \union
                 {[s.queue[i] EXCEPT !.attempts = @ + 1] : i \in Hooks!Taken(s)}
           /\ t.activeDeliveries = s.activeDeliveries + Cardinality(Hooks!Taken(s))
           /\ Remains(s, t, Hooks!Taken(s))
<1>1. PICK n \in Nat : n = Len(s.queue) /\ DOMAIN s.queue = 1..n
  OBVIOUS
<1>2. PICK T \in SUBSET (1..n) : T = Hooks!Taken(s)
  BY <1>1, TakenFills
<1>3. PICK S \in SUBSET (0..n) : S = (1..n) \ T
  <2>1. (1..n) \ T \in SUBSET (0..n)
    OBVIOUS
  <2>2. QED
    BY <2>1
<1>4. PICK left : left = Hooks!InOrder(S)
  OBVIOUS
<1>5. PICK c \in Nat : c = Cardinality(S)
  BY <1>3, OrderLists
<1>6. /\ left \in [1..c -> S]
      /\ \A i, k \in 1..c : i < k => left[i] < left[k]
      /\ \A x \in S : \E i \in 1..c : left[i] = x
  <2>1. /\ Hooks!InOrder(S) \in [1..Cardinality(S) -> S]
        /\ \A i, k \in 1..Cardinality(S) : i < k => Hooks!InOrder(S)[i] < Hooks!InOrder(S)[k]
        /\ \A x \in S : \E i \in 1..Cardinality(S) : Hooks!InOrder(S)[i] = x
    BY OrderLists
  <2>2. QED
    BY <1>4, <1>5, <2>1
<1>7. c = n - Cardinality(T)
  <2>1. 1 \in Int /\ n \in Int
    OBVIOUS
  <2>2. IsFiniteSet(1..n) /\ Cardinality(1..n) = IF 1 > n THEN 0 ELSE n - 1 + 1
    BY <2>1, FS_Interval
  <2>3. IsFiniteSet(1..n) /\ Cardinality(1..n) = n
    BY <2>2
  <2>4. IsFiniteSet(T) /\ Cardinality(T) \in Nat
    BY <1>2, TakenFills
  <2>5. (1..n) \cap T = T
    BY <1>2
  <2>6. Cardinality((1..n) \ T) = Cardinality(1..n) - Cardinality((1..n) \cap T)
    BY <2>3, FS_Difference
  <2>7. QED
    BY <1>3, <1>5, <2>3, <2>4, <2>5, <2>6
<1>8. /\ t = [queue |-> t.queue, inFlight |-> t.inFlight, activeDeliveries |-> t.activeDeliveries]
      /\ t.queue = [i \in DOMAIN left |-> s.queue[left[i]]]
      /\ t.inFlight = s.inFlight \union {[s.queue[i] EXCEPT !.attempts = @ + 1] : i \in T}
      /\ t.activeDeliveries = s.activeDeliveries + Cardinality(T)
  BY <1>1, <1>2, <1>3, <1>4, HookSizes DEF Hooks!ProcessQueue
<1>9. /\ t.queue = [i \in 1..c |-> s.queue[left[i]]]
      /\ \A i \in 1..c : s.queue[left[i]] \in Hooks!Jobs
  BY <1>1, <1>3, <1>6, <1>8
<1>10. t.queue \in Seq(Hooks!Jobs) /\ Len(t.queue) = c /\ DOMAIN t.queue = 1..c
  BY <1>9
<1>11. \A i, k \in 1..c : left[i] = left[k] => i = k
  <2>1. \A i \in 1..c : left[i] \in S
    BY <1>6
  <2>2. \A x \in S : x \in Nat
    OBVIOUS
  <2>3. ASSUME NEW i \in 1..c, NEW k \in 1..c, left[i] = left[k], i # k
        PROVE  FALSE
    <3>1. i < k \/ k < i
      BY <2>3
    <3>2. left[i] < left[k] \/ left[k] < left[i]
      BY <1>6, <3>1
    <3>3. left[i] \in Nat /\ left[k] \in Nat
      BY <2>1, <2>2
    <3>4. QED
      BY <2>3, <3>2, <3>3
  <2>4. QED
    BY <2>3
<1>12. DOMAIN t.queue = 1..c /\ DOMAIN s.queue \ T = S
  BY <1>1, <1>3, <1>10
<1>13. left \in [DOMAIN t.queue -> DOMAIN s.queue \ T]
  BY <1>6, <1>12
<1>14. \A i, k \in DOMAIN t.queue : left[i] = left[k] => i = k
  BY <1>11, <1>12
<1>15. \A x \in DOMAIN s.queue \ T : \E i \in DOMAIN t.queue : left[i] = x
  BY <1>6, <1>12
<1>16. \A i \in DOMAIN t.queue : t.queue[i] = s.queue[left[i]]
  BY <1>9, <1>12
<1>17. Len(t.queue) = Len(s.queue) - Cardinality(T)
  BY <1>1, <1>7, <1>10
<1>18. Remains(s, t, T)
  BY <1>13, <1>14, <1>15, <1>16 DEF Remains
<1>19. QED
  BY <1>2, <1>8, <1>10, <1>17, <1>18

-------------------------------------------------------------------------------
(* Where the jobs are *)

Fresh(s) ==
    (\E i \in DOMAIN s.queue : s.queue[i].attempts = 0)
        => s.activeDeliveries = MAX_CONCURRENT_DELIVERIES

Tried(j) == [j EXCEPT !.attempts = @ + 1]

(* The parts of ServiceInv, with the sizes this module counts. *)
Kept(s, p) ==
    /\ s = [queue |-> s.queue, inFlight |-> s.inFlight, activeDeliveries |-> s.activeDeliveries]
    /\ s.queue \in Seq(Hooks!Jobs) /\ s.inFlight \in SUBSET Hooks!Jobs /\ IsFiniteSet(s.inFlight)
    /\ s.activeDeliveries \in Cardinality(s.inFlight)..MAX_CONCURRENT_DELIVERIES
    /\ \A i, k \in DOMAIN s.queue : s.queue[i].delivery = s.queue[k].delivery => i = k
    /\ \A j, k \in s.inFlight : j.delivery = k.delivery => j = k
    /\ \A i \in DOMAIN s.queue, j \in s.inFlight : s.queue[i].delivery # j.delivery
    /\ \A i \in DOMAIN s.queue : /\ s.queue[i].attempts = p[s.queue[i].delivery]
                                 /\ s.queue[i].attempts < MaxAttempts
                                 /\ s.queue[i].attempts = 0 => s.queue[i].due
    /\ \A j \in s.inFlight : j.attempts = p[j.delivery] /\ j.attempts # 0
    /\ Len(s.queue) + Cardinality(s.inFlight) <= MAX_QUEUE_DEPTH + MAX_CONCURRENT_DELIVERIES

LEMMA HookFinite == \A S : Hooks!IsFiniteSet(S) <=> IsFiniteSet(S)
BY DEF Hooks!IsFiniteSet, IsFiniteSet

LEMMA KeptIsServiceInv == \A s, p : Hooks!ServiceInv(s, p) <=> Kept(s, p)
<1>1. SUFFICES ASSUME NEW s, NEW p PROVE Hooks!ServiceInv(s, p) <=> Kept(s, p)
  OBVIOUS
<1>2. /\ Hooks!IsFiniteSet(s.inFlight) <=> IsFiniteSet(s.inFlight)
      /\ Hooks!Cardinality(s.inFlight) = Cardinality(s.inFlight)
  BY HookFinite, HookSizes
<1>3. Hooks!Queued(s) \cap Hooks!Posting(s) = {}
        <=> \A i \in DOMAIN s.queue, j \in s.inFlight : s.queue[i].delivery # j.delivery
  BY DEF Hooks!Queued, Hooks!Posting
<1>4. QED
  BY <1>2, <1>3 DEF Hooks!ServiceInv, Hooks!OnePlace, Kept

(* The sizes behind Kept. *)
LEMMA KeptSizes ==
    ASSUME NEW s, NEW p, Kept(s, p)
    PROVE  /\ s.activeDeliveries \in 0..MAX_CONCURRENT_DELIVERIES
           /\ Cardinality(s.inFlight) \in Nat /\ Cardinality(s.inFlight) <= s.activeDeliveries
           /\ Len(s.queue) \in Nat
           /\ \A i \in DOMAIN s.queue : s.queue[i] \in Hooks!Jobs
<1>1. IsFiniteSet(s.inFlight) /\ s.queue \in Seq(Hooks!Jobs)
  BY DEF Kept
<1>2. PICK c \in Nat : c = Cardinality(s.inFlight)
  BY <1>1, FS_CardinalityType
<1>3. s.activeDeliveries \in c..MAX_CONCURRENT_DELIVERIES /\ MAX_CONCURRENT_DELIVERIES \in Nat
  BY <1>2, HooksAssumption DEF Kept
<1>4. s.activeDeliveries \in 0..MAX_CONCURRENT_DELIVERIES /\ c <= s.activeDeliveries
  BY <1>3
<1>5. QED
  BY <1>1, <1>2, <1>4

(* Posts are counted of the deliveries that a run takes. *)
LEMMA CountedOnce ==
    ASSUME NEW p \in [Hooks!Deliveries -> Nat], NEW s, NEW t
    PROVE  /\ Hooks!Counted(p, s, t) \in [Hooks!Deliveries -> Nat]
           /\ \A d \in Hooks!Deliveries :
                 /\ d \in Hooks!Posting(t) /\ d \notin Hooks!Posting(s)
                       => Hooks!Counted(p, s, t)[d] = p[d] + 1
                 /\ d \notin Hooks!Posting(t) \/ d \in Hooks!Posting(s)
                       => Hooks!Counted(p, s, t)[d] = p[d]
<1>1. \A d \in Hooks!Deliveries : Hooks!Counted(p, s, t)[d]
         = p[d] + IF d \in Hooks!Posting(t) \ Hooks!Posting(s) THEN 1 ELSE 0
  BY DEF Hooks!Counted
<1>2. ASSUME NEW d \in Hooks!Deliveries
      PROVE  /\ p[d] \in Nat
             /\ d \in Hooks!Posting(t) /\ d \notin Hooks!Posting(s)
                   => Hooks!Counted(p, s, t)[d] = p[d] + 1
             /\ d \notin Hooks!Posting(t) \/ d \in Hooks!Posting(s)
                   => Hooks!Counted(p, s, t)[d] = p[d]
  <2>1. p[d] \in Nat
    OBVIOUS
  <2>2. CASE d \in Hooks!Posting(t) \ Hooks!Posting(s)
    BY <1>1, <2>1, <2>2
  <2>3. CASE d \notin Hooks!Posting(t) \ Hooks!Posting(s)
    BY <1>1, <2>1, <2>3
  <2>4. QED
    BY <2>1, <2>2, <2>3
<1>3. \A d \in Hooks!Deliveries : Hooks!Counted(p, s, t)[d] \in Nat
  BY <1>2
<1>4. QED
  BY <1>2, <1>3 DEF Hooks!Counted

(* Whatever a run takes is posted once more; everything else stays where it is. *)
LEMMA RunKeeps ==
    ASSUME NEW p \in [Hooks!Deliveries -> Nat], NEW s, Kept(s, p),
           NEW t, t = Hooks!ProcessQueue(s)
    PROVE  /\ Kept(t, Hooks!Counted(p, s, t)) /\ Fresh(t)
           /\ Hooks!Posting(s) \subseteq Hooks!Posting(t)
           /\ Hooks!Queued(t) \union Hooks!Posting(t) = Hooks!Queued(s) \union Hooks!Posting(s)
<1>1. PICK n \in Nat : n = Len(s.queue) /\ DOMAIN s.queue = 1..n
  BY DEF Kept
<1>2. /\ s.queue \in Seq(Hooks!Jobs)
      /\ s.activeDeliveries \in 0..MAX_CONCURRENT_DELIVERIES
      /\ MAX_CONCURRENT_DELIVERIES \in Nat /\ MAX_QUEUE_DEPTH \in Nat /\ MaxAttempts \in Nat
      /\ IsFiniteSet(s.inFlight) /\ Cardinality(s.inFlight) \in Nat
      /\ Cardinality(s.inFlight) <= s.activeDeliveries
      /\ \A i \in 1..n : s.queue[i] \in Hooks!Jobs
  BY <1>1, KeptSizes, HooksAssumption DEF Kept
<1>3. PICK T \in SUBSET (1..n) : T = Hooks!Taken(s)
  BY <1>1, <1>2, TakenFills
<1>4. /\ \A i \in T : s.queue[i].due
      /\ IsFiniteSet(T) /\ Cardinality(T) \in Nat
      /\ Hooks!FreeSlots(s) \in Nat
      /\ Cardinality(T) <= Hooks!FreeSlots(s)
      /\ \A i \in (1..n) \ T : s.queue[i].due => Cardinality(T) = Hooks!FreeSlots(s)
  BY <1>1, <1>2, <1>3, TakenFills
<1>5. /\ t = [queue |-> t.queue, inFlight |-> t.inFlight, activeDeliveries |-> t.activeDeliveries]
      /\ t.queue \in Seq(Hooks!Jobs)
      /\ Len(t.queue) = n - Cardinality(T)
      /\ t.inFlight = s.inFlight \union {[s.queue[i] EXCEPT !.attempts = @ + 1] : i \in T}
      /\ t.activeDeliveries = s.activeDeliveries + Cardinality(T)
  <2>1. /\ t = [queue |-> t.queue, inFlight |-> t.inFlight,
                activeDeliveries |-> t.activeDeliveries]
        /\ t.queue \in Seq(Hooks!Jobs)
        /\ Len(t.queue) = Len(s.queue) - Cardinality(Hooks!Taken(s))
        /\ t.inFlight = s.inFlight \union
               {[s.queue[i] EXCEPT !.attempts = @ + 1] : i \in Hooks!Taken(s)}
        /\ t.activeDeliveries = s.activeDeliveries + Cardinality(Hooks!Taken(s))
    BY <1>2, RunOfTheQueue
  <2>2. QED
    BY <1>1, <1>3, <2>1
<1>6. PICK left \in [DOMAIN t.queue -> (1..n) \ T] :
         /\ \A i, k \in DOMAIN t.queue : left[i] = left[k] => i = k
         /\ \A x \in (1..n) \ T : \E i \in DOMAIN t.queue : left[i] = x
         /\ \A i \in DOMAIN t.queue : t.queue[i] = s.queue[left[i]]
  <2>1. Remains(s, t, T)
    BY <1>2, <1>3, RunOfTheQueue
  <2>2. QED
    BY <1>1, <2>1 DEF Remains
<1>7. \A i \in DOMAIN t.queue : left[i] \in 1..n /\ left[i] \notin T
  BY <1>6
<1>8. PICK New : New = {Tried(s.queue[i]) : i \in T}
  OBVIOUS
<1>9. t.inFlight = s.inFlight \union New
  BY <1>5, <1>8 DEF Tried
<1>10. \A i \in 1..n : /\ s.queue[i].attempts = p[s.queue[i].delivery]
                       /\ s.queue[i].attempts < MaxAttempts
                       /\ s.queue[i].attempts = 0 => s.queue[i].due
  BY <1>1 DEF Kept
<1>11. \A i \in 1..n : /\ Tried(s.queue[i]) \in Hooks!Jobs
                       /\ Tried(s.queue[i]).delivery = s.queue[i].delivery
                       /\ Tried(s.queue[i]).attempts = s.queue[i].attempts + 1
  <2>1. ASSUME NEW i \in 1..n
        PROVE  /\ Tried(s.queue[i]) \in Hooks!Jobs
               /\ Tried(s.queue[i]).delivery = s.queue[i].delivery
               /\ Tried(s.queue[i]).attempts = s.queue[i].attempts + 1
    <3>1. PICK j \in Hooks!Jobs : j = s.queue[i]
      BY <1>2
    <3>2. j.attempts \in 0..MaxAttempts /\ j.attempts < MaxAttempts
      BY <1>10, <3>1 DEF Hooks!Jobs
    <3>3. j.attempts + 1 \in 0..MaxAttempts
      BY <1>2, <3>2
    <3>4. Tried(j) \in Hooks!Jobs /\ Tried(j).delivery = j.delivery
            /\ Tried(j).attempts = j.attempts + 1
      BY <3>3 DEF Tried, Hooks!Jobs
    <3>5. QED
      BY <3>1, <3>4
  <2>2. QED
    BY <2>1
<1>12. \A i, k \in 1..n : s.queue[i].delivery = s.queue[k].delivery => i = k
  BY <1>1 DEF Kept
<1>13. \A j, k \in s.inFlight : j.delivery = k.delivery => j = k
  BY DEF Kept
<1>14. \A i \in 1..n, j \in s.inFlight : s.queue[i].delivery # j.delivery
  BY <1>1 DEF Kept
<1>15. \A j \in New : \E i \in T : j = Tried(s.queue[i]) /\ j.delivery = s.queue[i].delivery
  BY <1>3, <1>8, <1>11
<1>16. \A i, k \in DOMAIN t.queue : t.queue[i].delivery = t.queue[k].delivery => i = k
  BY <1>6, <1>7, <1>12
<1>17. \A j, k \in t.inFlight : j.delivery = k.delivery => j = k
  <2>1. ASSUME NEW j \in New, NEW k \in New, j.delivery = k.delivery PROVE j = k
    BY <1>3, <1>12, <1>15, <2>1
  <2>2. ASSUME NEW j \in New, NEW k \in s.inFlight PROVE j.delivery # k.delivery
    BY <1>3, <1>14, <1>15
  <2>3. QED
    BY <1>9, <1>13, <2>1, <2>2
<1>18. \A i \in DOMAIN t.queue, j \in t.inFlight : t.queue[i].delivery # j.delivery
  <2>1. ASSUME NEW i \in DOMAIN t.queue, NEW j \in New PROVE t.queue[i].delivery # j.delivery
    <3>1. PICK k \in T : j.delivery = s.queue[k].delivery
      BY <1>15
    <3>2. t.queue[i] = s.queue[left[i]] /\ left[i] \in 1..n /\ left[i] # k
      BY <1>6, <1>7
    <3>3. QED
      BY <1>3, <1>12, <3>1, <3>2
  <2>2. ASSUME NEW i \in DOMAIN t.queue, NEW j \in s.inFlight PROVE t.queue[i].delivery # j.delivery
    BY <1>6, <1>7, <1>14
  <2>3. QED
    BY <1>9, <2>1, <2>2
<1>19. t.inFlight \in SUBSET Hooks!Jobs
  <2>1. New \in SUBSET Hooks!Jobs
    BY <1>3, <1>8, <1>11
  <2>2. s.inFlight \in SUBSET Hooks!Jobs
    BY DEF Kept
  <2>3. QED
    BY <1>9, <2>1, <2>2
<1>20. /\ IsFiniteSet(t.inFlight) /\ Cardinality(t.inFlight) \in Nat
       /\ Cardinality(t.inFlight) <= Cardinality(s.inFlight) + Cardinality(T)
  <2>1. PICK f : f = [i \in T |-> Tried(s.queue[i])]
    OBVIOUS
  <2>2. f \in Surjection(T, New)
    BY <1>8, <2>1 DEF Surjection
  <2>3. IsFiniteSet(New) /\ Cardinality(New) <= Cardinality(T)
    BY <1>4, <2>2, FS_Surjection
  <2>4. Cardinality(New) \in Nat
    BY <2>3, FS_CardinalityType
  <2>5. s.inFlight \cap New \in SUBSET New
    OBVIOUS
  <2>6. Cardinality(s.inFlight \cap New) \in Nat
    BY <2>3, <2>5, FS_Subset, FS_CardinalityType
  <2>7. /\ IsFiniteSet(s.inFlight \union New)
        /\ Cardinality(s.inFlight \union New)
              = Cardinality(s.inFlight) + Cardinality(New) - Cardinality(s.inFlight \cap New)
    BY <1>2, <2>3, FS_Union
  <2>8. IsFiniteSet(t.inFlight)
    BY <1>9, <2>7
  <2>9. Cardinality(t.inFlight) \in Nat
    BY <2>8, FS_CardinalityType
  <2>10. Cardinality(t.inFlight)
            = Cardinality(s.inFlight) + Cardinality(New) - Cardinality(s.inFlight \cap New)
    BY <1>9, <2>7
  <2>11. Cardinality(t.inFlight) <= Cardinality(s.inFlight) + Cardinality(T)
    BY <1>2, <1>4, <2>3, <2>4, <2>6, <2>9, <2>10
  <2>12. QED
    BY <2>8, <2>9, <2>11
<1>21. /\ t.activeDeliveries \in Cardinality(t.inFlight)..MAX_CONCURRENT_DELIVERIES
       /\ Len(t.queue) + Cardinality(t.inFlight) <= MAX_QUEUE_DEPTH + MAX_CONCURRENT_DELIVERIES
  <2>1. Hooks!FreeSlots(s) = MAX_CONCURRENT_DELIVERIES - s.activeDeliveries
    BY DEF Hooks!FreeSlots
  <2>2. n + Cardinality(s.inFlight) <= MAX_QUEUE_DEPTH + MAX_CONCURRENT_DELIVERIES
    BY <1>1 DEF Kept
  <2>3. PICK a \in Nat, b \in Nat, c \in Nat :
           a = Cardinality(s.inFlight) /\ b = Cardinality(t.inFlight) /\ c = Cardinality(T)
    BY <1>2, <1>4, <1>20
  <2>4. b <= a + c /\ a <= s.activeDeliveries /\ c <= MAX_CONCURRENT_DELIVERIES - s.activeDeliveries
    BY <1>2, <1>4, <1>20, <2>1, <2>3
  <2>5. t.activeDeliveries = s.activeDeliveries + c /\ Len(t.queue) = n - c
    BY <1>5, <2>3
  <2>6. n + a <= MAX_QUEUE_DEPTH + MAX_CONCURRENT_DELIVERIES
    BY <2>2, <2>3
  <2>7. t.activeDeliveries \in b..MAX_CONCURRENT_DELIVERIES
    BY <1>2, <2>4, <2>5
  <2>8. Len(t.queue) + b <= MAX_QUEUE_DEPTH + MAX_CONCURRENT_DELIVERIES
    BY <1>2, <2>4, <2>5, <2>6
  <2>9. QED
    BY <2>3, <2>7, <2>8
<1>22. \A i \in DOMAIN t.queue : /\ t.queue[i] \in Hooks!Jobs
                                  /\ t.queue[i].delivery \in Hooks!Deliveries
                                  /\ t.queue[i].delivery \notin Hooks!Posting(t)
                                  /\ \E k \in 1..n : t.queue[i] = s.queue[k] /\ k \notin T
  <2>1. \A i \in DOMAIN t.queue : /\ t.queue[i] \in Hooks!Jobs
                                   /\ \E k \in 1..n : t.queue[i] = s.queue[k] /\ k \notin T
    BY <1>2, <1>6, <1>7
  <2>2. \A i \in DOMAIN t.queue : t.queue[i].delivery \notin Hooks!Posting(t)
    BY <1>18 DEF Hooks!Posting
  <2>3. QED
    BY <2>1, <2>2 DEF Hooks!Jobs
<1>23. \A i \in DOMAIN t.queue :
          /\ t.queue[i].attempts = Hooks!Counted(p, s, t)[t.queue[i].delivery]
          /\ t.queue[i].attempts < MaxAttempts
          /\ t.queue[i].attempts = 0 => t.queue[i].due
  <2>1. ASSUME NEW i \in DOMAIN t.queue
        PROVE  /\ t.queue[i].attempts = Hooks!Counted(p, s, t)[t.queue[i].delivery]
               /\ t.queue[i].attempts < MaxAttempts
               /\ t.queue[i].attempts = 0 => t.queue[i].due
    <3>1. Hooks!Counted(p, s, t)[t.queue[i].delivery] = p[t.queue[i].delivery]
      BY <1>22, CountedOnce
    <3>2. QED
      BY <1>10, <1>22, <3>1
  <2>2. QED
    BY <2>1
<1>24. \A j \in t.inFlight : j.attempts = Hooks!Counted(p, s, t)[j.delivery] /\ j.attempts # 0
  <2>1. ASSUME NEW j \in s.inFlight
        PROVE  j.attempts = Hooks!Counted(p, s, t)[j.delivery] /\ j.attempts # 0
    <3>1. j \in Hooks!Jobs /\ j.attempts = p[j.delivery] /\ j.attempts # 0 /\ j.delivery \in Hooks!Posting(s)
      BY DEF Kept, Hooks!Posting
    <3>2. j.delivery \in Hooks!Deliveries
      BY <3>1 DEF Hooks!Jobs
    <3>3. QED
      BY <3>1, <3>2, CountedOnce
  <2>2. ASSUME NEW j \in New
        PROVE  j.attempts = Hooks!Counted(p, s, t)[j.delivery] /\ j.attempts # 0
    <3>1. PICK i \in T : j = Tried(s.queue[i])
      BY <1>15
    <3>2. /\ j.delivery = s.queue[i].delivery /\ j.attempts = s.queue[i].attempts + 1
          /\ s.queue[i].attempts = p[s.queue[i].delivery]
      BY <1>3, <1>10, <1>11, <3>1
    <3>3. j \in t.inFlight /\ j.delivery \notin Hooks!Posting(s)
      BY <1>3, <1>9, <1>14, <3>2 DEF Hooks!Posting
    <3>4. j.delivery \in Hooks!Deliveries /\ j.delivery \in Hooks!Posting(t)
      BY <1>19, <3>3 DEF Hooks!Posting, Hooks!Jobs
    <3>5. Hooks!Counted(p, s, t)[j.delivery] = p[j.delivery] + 1
      BY <3>3, <3>4, CountedOnce
    <3>6. s.queue[i].attempts \in Nat
      BY <1>2, <1>3 DEF Hooks!Jobs
    <3>7. QED
      BY <3>2, <3>5, <3>6
  <2>3. QED
    BY <1>9, <2>1, <2>2
<1>25. Kept(t, Hooks!Counted(p, s, t))
  BY <1>5, <1>16, <1>17, <1>18, <1>19, <1>20, <1>21, <1>23, <1>24 DEF Kept
<1>26. Fresh(t)
  <2>1. SUFFICES ASSUME NEW i \in DOMAIN t.queue, t.queue[i].attempts = 0
                 PROVE  t.activeDeliveries = MAX_CONCURRENT_DELIVERIES
    BY DEF Fresh
  <2>2. PICK k \in 1..n : t.queue[i] = s.queue[k] /\ k \notin T
    BY <1>22
  <2>3. Cardinality(T) = Hooks!FreeSlots(s)
    BY <1>4, <1>10, <2>1, <2>2
  <2>4. t.activeDeliveries = s.activeDeliveries + (MAX_CONCURRENT_DELIVERIES - s.activeDeliveries)
    BY <1>5, <2>3 DEF Hooks!FreeSlots
  <2>5. QED
    BY <1>2, <2>4
<1>27. Hooks!Posting(s) \subseteq Hooks!Posting(t)
  BY <1>9 DEF Hooks!Posting
<1>28. Hooks!Queued(t) \union Hooks!Posting(t) = Hooks!Queued(s) \union Hooks!Posting(s)
  <2>1. ASSUME NEW d \in Hooks!Queued(s) PROVE d \in Hooks!Queued(t) \union Hooks!Posting(t)
    <3>1. PICK i \in 1..n : s.queue[i].delivery = d
      BY <1>1, <2>1 DEF Hooks!Queued
    <3>2. CASE i \in T
      <4>1. Tried(s.queue[i]) \in t.inFlight /\ Tried(s.queue[i]).delivery = d
        BY <1>8, <1>9, <1>11, <3>1, <3>2
      <4>2. QED
        BY <4>1 DEF Hooks!Posting
    <3>3. CASE i \notin T
      <4>1. PICK k \in DOMAIN t.queue : left[k] = i
        BY <1>6, <3>3
      <4>2. t.queue[k].delivery = d
        BY <1>6, <3>1, <4>1
      <4>3. QED
        BY <4>2 DEF Hooks!Queued
    <3>4. QED
      BY <3>2, <3>3
  <2>2. Hooks!Queued(t) \subseteq Hooks!Queued(s)
    BY <1>1, <1>22 DEF Hooks!Queued
  <2>3. \A j \in New : j.delivery \in Hooks!Queued(s)
    BY <1>1, <1>3, <1>15 DEF Hooks!Queued
  <2>4. Hooks!Posting(t) \subseteq Hooks!Queued(s) \union Hooks!Posting(s)
    BY <1>9, <2>3 DEF Hooks!Posting
  <2>5. QED
    BY <1>27, <2>1, <2>2, <2>4
<1>29. QED
  BY <1>25, <1>26, <1>27, <1>28

-------------------------------------------------------------------------------
(* Jobs that are queued *)

Held(s) == Hooks!Queued(s) \union Hooks!Posting(s)

(* From s to t, nothing was lost, what was counted is right, and only deliveries in D
   came in. *)
Progress(p, s, t, D) ==
    /\ Kept(t, Hooks!Counted(p, s, t)) /\ Fresh(t)
    /\ Hooks!Posting(s) \subseteq Hooks!Posting(t)
    /\ Held(s) \subseteq Held(t)
    /\ Held(t) \subseteq Held(s) \union D

LEMMA ProgressAdds ==
    ASSUME NEW p \in [Hooks!Deliveries -> Nat], NEW s, NEW u, NEW t, NEW D, NEW E,
           Progress(p, s, u, D), Progress(Hooks!Counted(p, s, u), u, t, E)
    PROVE  Progress(p, s, t, D \union E)
<1>1. /\ Hooks!Posting(s) \subseteq Hooks!Posting(u) /\ Hooks!Posting(u) \subseteq Hooks!Posting(t)
      /\ Held(s) \subseteq Held(t) /\ Held(t) \subseteq Held(s) \union D \union E
  BY DEF Progress
<1>2. ASSUME NEW d \in Hooks!Deliveries
      PROVE  Hooks!Counted(Hooks!Counted(p, s, u), u, t)[d] = Hooks!Counted(p, s, t)[d]
  <2>1. Hooks!Counted(p, s, u) \in [Hooks!Deliveries -> Nat]
    BY CountedOnce
  <2>2. CASE d \in Hooks!Posting(u)
    BY <1>1, <2>1, <2>2, CountedOnce
  <2>3. CASE d \notin Hooks!Posting(u)
    <3>1. d \notin Hooks!Posting(s) /\ Hooks!Counted(p, s, u)[d] = p[d]
      BY <1>1, <2>3, CountedOnce
    <3>2. QED
      BY <2>1, <2>3, <3>1, CountedOnce
  <2>4. QED
    BY <2>2, <2>3
<1>3. Hooks!Counted(Hooks!Counted(p, s, u), u, t) = Hooks!Counted(p, s, t)
  <2>1. /\ Hooks!Counted(p, s, u) \in [Hooks!Deliveries -> Nat]
        /\ Hooks!Counted(p, s, t) \in [Hooks!Deliveries -> Nat]
    BY CountedOnce
  <2>2. Hooks!Counted(Hooks!Counted(p, s, u), u, t) \in [Hooks!Deliveries -> Nat]
    BY <2>1, CountedOnce
  <2>3. QED
    BY <1>2, <2>1, <2>2
<1>4. Kept(t, Hooks!Counted(p, s, t)) /\ Fresh(t)
  BY <1>3 DEF Progress
<1>5. QED
  BY <1>1, <1>4 DEF Progress

LEMMA RunProgress ==
    ASSUME NEW p \in [Hooks!Deliveries -> Nat], NEW s, Kept(s, p)
    PROVE  Progress(p, s, Hooks!ProcessQueue(s), {})
BY RunKeeps DEF Progress, Held

LEMMA NoProgress ==
    ASSUME NEW p \in [Hooks!Deliveries -> Nat], NEW s, Kept(s, p), Fresh(s)
    PROVE  Progress(p, s, s, {})
<1>1. \A d \in Hooks!Deliveries : Hooks!Counted(p, s, s)[d] = p[d]
  BY CountedOnce
<1>2. Hooks!Counted(p, s, s) \in [Hooks!Deliveries -> Nat]
  BY CountedOnce
<1>3. Hooks!Counted(p, s, s) = p
  BY <1>1, <1>2
<1>4. QED
  BY <1>3 DEF Progress

(* A job more in the queue, if it is not full. *)
Onto(s, d) ==
    [s EXCEPT !.queue = Append(@, [delivery |-> d, attempts |-> 0, due |-> TRUE])]

LEMMA OntoKeeps ==
    ASSUME NEW p \in [Hooks!Deliveries -> Nat], NEW s, Kept(s, p), ~ Hooks!Full(s),
           NEW d \in Hooks!Deliveries, p[d] = 0, d \notin Held(s),
           NEW t, t = Onto(s, d)
    PROVE  /\ Kept(t, p)
           /\ Hooks!Posting(t) = Hooks!Posting(s) /\ Held(t) = Held(s) \union {d}
<1>1. PICK n \in Nat : n = Len(s.queue) /\ DOMAIN s.queue = 1..n
  BY DEF Kept
<1>2. PICK j : j = [delivery |-> d, attempts |-> 0, due |-> TRUE]
  OBVIOUS
<1>3. /\ j \in Hooks!Jobs /\ j.delivery = d /\ j.attempts = 0 /\ j.due
      /\ MaxAttempts \in Nat \ {0}
  BY <1>2, HooksAssumption DEF Hooks!Jobs
<1>4. /\ t = [queue |-> t.queue, inFlight |-> t.inFlight, activeDeliveries |-> t.activeDeliveries]
      /\ t.queue = Append(s.queue, j)
      /\ t.inFlight = s.inFlight /\ t.activeDeliveries = s.activeDeliveries
  <2>1. PICK q, f, a : s = [queue |-> q, inFlight |-> f, activeDeliveries |-> a]
    BY DEF Kept
  <2>2. t = [queue |-> Append(q, j), inFlight |-> f, activeDeliveries |-> a]
    BY <1>2, <2>1 DEF Onto
  <2>3. QED
    BY <2>1, <2>2
<1>5. s.queue \in Seq(Hooks!Jobs)
  BY DEF Kept
<1>6. /\ t.queue \in Seq(Hooks!Jobs) /\ Len(t.queue) = n + 1 /\ DOMAIN t.queue = 1..(n + 1)
      /\ t.queue[n + 1] = j /\ \A i \in 1..n : t.queue[i] = s.queue[i]
  BY <1>1, <1>3, <1>4, <1>5
<1>7. \A i \in DOMAIN t.queue : i \in 1..n \/ i = n + 1
  BY <1>1, <1>6
<1>8. \A i \in 1..n : s.queue[i].delivery # d
  BY <1>1 DEF Held, Hooks!Queued
<1>9. \A k \in s.inFlight : k.delivery # d
  BY DEF Held, Hooks!Posting
<1>10. \A i, k \in DOMAIN t.queue : t.queue[i].delivery = t.queue[k].delivery => i = k
  <2>1. \A i, k \in 1..n : s.queue[i].delivery = s.queue[k].delivery => i = k
    BY <1>1 DEF Kept
  <2>2. QED
    BY <1>3, <1>6, <1>7, <1>8, <2>1
<1>11. \A i \in DOMAIN t.queue, k \in t.inFlight : t.queue[i].delivery # k.delivery
  <2>1. \A i \in 1..n, k \in s.inFlight : s.queue[i].delivery # k.delivery
    BY <1>1 DEF Kept
  <2>2. QED
    BY <1>3, <1>4, <1>6, <1>7, <1>9, <2>1
<1>12. \A i \in DOMAIN t.queue : /\ t.queue[i].attempts = p[t.queue[i].delivery]
                                 /\ t.queue[i].attempts < MaxAttempts
                                 /\ t.queue[i].attempts = 0 => t.queue[i].due
  <2>1. \A i \in 1..n : /\ s.queue[i].attempts = p[s.queue[i].delivery]
                        /\ s.queue[i].attempts < MaxAttempts
                        /\ s.queue[i].attempts = 0 => s.queue[i].due
    BY <1>1 DEF Kept
  <2>2. /\ t.queue[n + 1].attempts = p[t.queue[n + 1].delivery]
        /\ t.queue[n + 1].attempts < MaxAttempts
        /\ t.queue[n + 1].due
    BY <1>3, <1>6
  <2>3. QED
    BY <1>6, <1>7, <2>1, <2>2
<1>13. Len(t.queue) + Cardinality(t.inFlight) <= MAX_QUEUE_DEPTH + MAX_CONCURRENT_DELIVERIES
  <2>1. Cardinality(s.inFlight) \in Nat /\ Cardinality(s.inFlight) <= MAX_CONCURRENT_DELIVERIES
    BY KeptSizes, HooksAssumption
  <2>2. ~ (n >= MAX_QUEUE_DEPTH)
    BY <1>1 DEF Hooks!Full
  <2>3. QED
    BY <1>4, <1>6, <2>1, <2>2, HooksAssumption
<1>14. Kept(t, p)
  <2>1. /\ s.inFlight \in SUBSET Hooks!Jobs /\ IsFiniteSet(s.inFlight)
        /\ s.activeDeliveries \in Cardinality(s.inFlight)..MAX_CONCURRENT_DELIVERIES
        /\ \A i, k \in s.inFlight : i.delivery = k.delivery => i = k
        /\ \A i \in s.inFlight : i.attempts = p[i.delivery] /\ i.attempts # 0
    BY DEF Kept
  <2>2. QED
    BY <1>4, <1>6, <1>10, <1>11, <1>12, <1>13, <2>1 DEF Kept
<1>15. Hooks!Posting(t) = Hooks!Posting(s)
  BY <1>4 DEF Hooks!Posting
<1>16. Hooks!Queued(t) = Hooks!Queued(s) \union {d}
  <2>1. \A x : x \in Hooks!Queued(t) <=> \E i \in DOMAIN t.queue : x = t.queue[i].delivery
    BY DEF Hooks!Queued
  <2>2. \A x : x \in Hooks!Queued(s) <=> \E i \in 1..n : x = s.queue[i].delivery
    BY <1>1 DEF Hooks!Queued
  <2>3. (n + 1) \in DOMAIN t.queue /\ \A i \in 1..n : i \in DOMAIN t.queue
    BY <1>6
  <2>4. \A x : x \in Hooks!Queued(s) => x \in Hooks!Queued(t)
    BY <1>6, <2>1, <2>2, <2>3
  <2>5. d \in Hooks!Queued(t)
    BY <1>3, <1>6, <2>1, <2>3
  <2>6. ASSUME NEW x \in Hooks!Queued(t) PROVE x \in Hooks!Queued(s) \union {d}
    <3>1. PICK i \in DOMAIN t.queue : x = t.queue[i].delivery
      BY <2>1
    <3>2. CASE i \in 1..n
      BY <1>6, <2>2, <3>1, <3>2
    <3>3. CASE i = n + 1
      BY <1>3, <1>6, <3>1, <3>3
    <3>4. QED
      BY <1>7, <3>2, <3>3
  <2>7. QED
    BY <2>4, <2>5, <2>6
<1>17. QED
  BY <1>14, <1>15, <1>16 DEF Held

LEMMA EnqueueProgress ==
    ASSUME NEW p \in [Hooks!Deliveries -> Nat], NEW s, Kept(s, p), Fresh(s),
           NEW d \in Hooks!Deliveries, p[d] = 0, d \notin Held(s)
    PROVE  Progress(p, s, Hooks!EnqueueEvent(s, d), {d})
<1>1. CASE Hooks!Full(s)
  <2>1. Hooks!EnqueueEvent(s, d) = s
    BY <1>1 DEF Hooks!EnqueueEvent
  <2>2. QED
    BY <2>1, NoProgress DEF Progress
<1>2. CASE ~ Hooks!Full(s)
  <2>1. PICK u : u = Onto(s, d)
    OBVIOUS
  <2>2. PICK t : t = Hooks!EnqueueEvent(s, d)
    OBVIOUS
  <2>3. t = Hooks!ProcessQueue(u)
    BY <1>2, <2>1, <2>2 DEF Hooks!EnqueueEvent, Onto
  <2>4. /\ Kept(u, p)
        /\ Hooks!Posting(u) = Hooks!Posting(s) /\ Held(u) = Held(s) \union {d}
    BY <1>2, <2>1, OntoKeeps
  <2>5. Progress(p, u, t, {})
    BY <2>3, <2>4, RunProgress
  <2>6. Hooks!Counted(p, s, t) = Hooks!Counted(p, u, t)
    BY <2>4 DEF Hooks!Counted
  <2>7. QED
    BY <2>2, <2>4, <2>5, <2>6 DEF Progress
<1>3. QED
  BY <1>1, <1>2

(* f holds the service after each job of EnqueueAll. *)
Runs(f, s, order, e) ==
    /\ f[0] = s
    /\ \A i \in 1..Len(order) : f[i] = Hooks!EnqueueEvent(f[i - 1], <<order[i], e>>)
    /\ Hooks!EnqueueAll(s, order, e) = f[Len(order)]

(* The function that the loop of EnqueueAll chooses exists. *)
LEMMA EnqueueAllRuns ==
    ASSUME NEW s, NEW order, Len(order) \in Nat, NEW e
    PROVE  \E f : Runs(f, s, order, e)
<1> DEFINE Step(f, i) == IF i = 0 THEN s ELSE Hooks!EnqueueEvent(f[i - 1], <<order[i], e>>)
           Bad == {m \in 0..Len(order) : ~ \E f : f = [i \in 0..m |-> Step(f, i)]}
<1>1. PICK n \in Nat : n = Len(order)
  OBVIOUS
<1>2. \E f : f = [i \in 0..n |-> Step(f, i)]
  <2>1. SUFFICES ASSUME ~ \E f : f = [i \in 0..n |-> Step(f, i)] PROVE FALSE
    OBVIOUS
  <2>2. Bad \in SUBSET Nat /\ n \in Bad
    BY <1>1, <2>1
  <2>3. PICK m \in Bad : \A k \in Bad : m <= k
    BY <2>2, Smallest
  <2>4. m \in 0..n /\ ~ \E f : f = [i \in 0..m |-> Step(f, i)]
    BY <1>1, <2>3
  <2>5. \A k \in 0..n : k < m => \E f : f = [i \in 0..k |-> Step(f, i)]
    BY <1>1, <2>3, <2>4
  <2>6. CASE m = 0
    <3>1. PICK f : f = [i \in 0..0 |-> s]
      OBVIOUS
    <3>2. \A i \in 0..0 : i = 0
      OBVIOUS
    <3>3. [i \in 0..0 |-> Step(f, i)] = [i \in 0..0 |-> s]
      BY <3>2
    <3>4. QED
      BY <2>4, <2>6, <3>1, <3>3
  <2>7. CASE m # 0
    <3>1. m - 1 \in 0..n /\ m - 1 < m /\ m \in Nat
      BY <2>4, <2>7
    <3>2. PICK g : g = [i \in 0..(m - 1) |-> Step(g, i)]
      BY <2>5, <3>1
    <3>3. PICK f : f = [i \in 0..m |-> IF i = m THEN Step(g, m) ELSE g[i]]
      OBVIOUS
    <3>4. \A i \in 0..m : i # m => i \in 0..(m - 1)
      BY <3>1
    <3>5. ASSUME NEW i \in 0..m, i # 0 PROVE f[i - 1] = g[i - 1]
      BY <3>1, <3>3, <3>5
    <3>6. ASSUME NEW i \in 0..m PROVE f[i] = Step(f, i)
      <4>1. CASE i = m
        BY <2>7, <3>3, <3>5, <4>1
      <4>2. CASE i # m
        <5>1. f[i] = g[i] /\ g[i] = Step(g, i)
          BY <3>2, <3>3, <3>4, <4>2
        <5>2. QED
          BY <3>5, <5>1
      <4>3. QED
        BY <4>1, <4>2
    <3>7. f = [i \in 0..m |-> f[i]]
      BY <3>3
    <3>8. f = [i \in 0..m |-> Step(f, i)]
      BY <3>6, <3>7
    <3>9. QED
      BY <2>4, <3>8
  <2>8. QED
    BY <2>6, <2>7
<1>3. PICK f : /\ f = [i \in 0..n |-> Step(f, i)]
               /\ Hooks!EnqueueAll(s, order, e) = f[n]
  BY <1>1, <1>2 DEF Hooks!EnqueueAll
<1>4. f[0] = s
  <2>1. 0 \in 0..n
    BY <1>1
  <2>2. QED
    BY <1>3, <2>1
<1>5. ASSUME NEW i \in 1..n PROVE f[i] = Hooks!EnqueueEvent(f[i - 1], <<order[i], e>>)
  <2>1. i \in 0..n /\ i # 0
    BY <1>1
  <2>2. QED
    BY <1>3, <2>1
<1>6. QED
  BY <1>1, <1>3, <1>4, <1>5 DEF Runs

(* The whole event: as many jobs as fit, and only jobs of the event. *)
LEMMA EnqueueAllProgress ==
    ASSUME NEW p \in [Hooks!Deliveries -> Nat], NEW s, Kept(s, p), Fresh(s),
           NEW e \in Events, NEW S \in SUBSET Endpoints, NEW order \in Hooks!SetToSeqs(S),
           \A q \in Endpoints : p[<<q, e>>] = 0 /\ <<q, e>> \notin Held(s)
    PROVE  Progress(p, s, Hooks!EnqueueAll(s, order, e), {<<q, e>> : q \in S})
<1>1. PICK c \in Nat : c = Cardinality(S)
  BY HooksAssumption, FS_Subset, FS_CardinalityType
<1>2. order \in [1..c -> S] /\ \A i, k \in 1..c : i # k => order[i] # order[k]
  BY <1>1, HookSizes DEF Hooks!SetToSeqs
<1>3. Len(order) = c
  BY <1>1, <1>2
<1>4. PICK f : /\ f[0] = s
               /\ \A i \in 1..c : f[i] = Hooks!EnqueueEvent(f[i - 1], <<order[i], e>>)
               /\ Hooks!EnqueueAll(s, order, e) = f[c]
  <2>1. Len(order) \in Nat
    BY <1>3
  <2>2. \E f : Runs(f, s, order, e)
    BY <2>1, EnqueueAllRuns
  <2>3. QED
    BY <1>3, <2>2 DEF Runs
<1> DEFINE D(i) == {<<order[k], e>> : k \in 1..i}
           Bad == {i \in 0..c : ~ Progress(p, s, f[i], D(i))}
<1>5. Progress(p, s, f[c], D(c))
  <2>1. SUFFICES ASSUME ~ Progress(p, s, f[c], D(c)) PROVE FALSE
    OBVIOUS
  <2>2. Bad \in SUBSET Nat /\ c \in Bad
    BY <2>1
  <2>3. PICK i \in Bad : \A k \in Bad : i <= k
    BY <2>2, Smallest
  <2>4. i \in 0..c /\ ~ Progress(p, s, f[i], D(i))
    BY <2>3
  <2>5. ASSUME NEW k \in 0..c, k < i PROVE Progress(p, s, f[k], D(k))
    <3>1. k \notin Bad
      <4>1. k \in Nat /\ i \in Nat /\ ~ (i <= k)
        BY <2>4, <2>5
      <4>2. QED
        BY <2>3, <4>1
    <3>2. QED
      BY <3>1
  <2>6. CASE i = 0
    <3>1. D(0) = {}
      OBVIOUS
    <3>2. Progress(p, s, s, {})
      BY NoProgress
    <3>3. QED
      BY <1>4, <2>4, <2>6, <3>1, <3>2
  <2>7. CASE i # 0
    <3>1. i \in 1..c /\ i - 1 \in 0..c /\ i - 1 < i
      BY <2>4, <2>7
    <3>2. PICK u : u = f[i - 1]
      OBVIOUS
    <3>3. Progress(p, s, u, D(i - 1))
      BY <2>5, <3>1, <3>2
    <3>4. PICK d : d = <<order[i], e>>
      OBVIOUS
    <3>5. d \in Hooks!Deliveries /\ p[d] = 0 /\ d \notin Held(s)
      BY <1>2, <3>1, <3>4 DEF Hooks!Deliveries
    <3>6. d \notin D(i - 1)
      <4>1. ASSUME NEW k \in 1..(i - 1) PROVE <<order[k], e>> # d
        <5>1. k \in 1..c /\ k # i
          BY <3>1
        <5>2. order[k] # order[i]
          BY <1>2, <3>1, <5>1
        <5>3. QED
          BY <3>4, <5>2
      <4>2. QED
        BY <4>1
    <3>7. d \notin Held(u) /\ Kept(u, Hooks!Counted(p, s, u)) /\ Fresh(u)
      BY <3>3, <3>5, <3>6 DEF Progress
    <3>8. Hooks!Counted(p, s, u)[d] = 0
      <4>1. d \notin Hooks!Posting(u)
        BY <3>7 DEF Held
      <4>2. QED
        BY <3>5, <4>1, CountedOnce
    <3>9. PICK t : t = Hooks!EnqueueEvent(u, d)
      OBVIOUS
    <3>10. PICK r : r = Hooks!Counted(p, s, u)
      OBVIOUS
    <3>11. r \in [Hooks!Deliveries -> Nat]
      BY <3>10, CountedOnce
    <3>12. Progress(r, u, t, {d})
      BY <3>5, <3>7, <3>8, <3>9, <3>10, <3>11, EnqueueProgress
    <3>13. Progress(p, s, t, D(i - 1) \union {d})
      BY <3>3, <3>10, <3>12, ProgressAdds
    <3>14. D(i - 1) \union {d} = D(i)
      <4>1. \A k \in 1..i : k = i \/ k \in 1..(i - 1)
        BY <3>1
      <4>2. \A k \in 1..(i - 1) : k \in 1..i
        BY <3>1
      <4>3. i \in 1..i
        BY <3>1
      <4>4. QED
        BY <3>4, <4>1, <4>2, <4>3
    <3>15. f[i] = t
      BY <1>4, <3>1, <3>2, <3>4, <3>9
    <3>16. QED
      BY <2>4, <3>13, <3>14, <3>15
  <2>8. QED
    BY <2>6, <2>7
<1>6. D(c) \subseteq {<<q, e>> : q \in S}
  BY <1>2
<1>7. QED
  BY <1>4, <1>5, <1>6 DEF Progress

-------------------------------------------------------------------------------
(* The invariant and its steps *)

(* HooksInv as a statement about one state of the service and of the books. *)
Books(s, p, o, ev) ==
    /\ p \in [Hooks!Deliveries -> Nat] /\ DOMAIN o = Hooks!Deliveries
    /\ Kept(s, p) /\ Fresh(s)
    /\ \A d \in Hooks!Deliveries :
          /\ o[d] = "queued" <=> d \in Held(s)
          /\ o[d] \in {"none", "overflow"} => p[d] = 0
          /\ o[d] = "exhausted" => p[d] = MaxAttempts
    /\ DOMAIN ev = Events
    /\ \A e \in Events : ev[e] # "over" => \A q \in Endpoints : o[<<q, e>>] = "none"

LEMMA BooksAreHooksInv ==
    /\ Hooks!HooksInv <=> Books(svc, posts, outcome, event)
    /\ Hooks!HooksInv' <=> Books(svc', posts', outcome', event')
<1>1. Hooks!ServiceInv(svc, posts) <=> Kept(svc, posts)
  BY KeptIsServiceInv
<1>2. Hooks!FreshNeverWaits <=> Fresh(svc)
  BY DEF Hooks!FreshNeverWaits, Fresh
<1>3. Hooks!HooksInv <=> Books(svc, posts, outcome, event)
  BY <1>1, <1>2 DEF Hooks!HooksInv, Books, Held
<1>4. Hooks!ServiceInv(svc', posts') <=> Kept(svc', posts')
  BY KeptIsServiceInv
<1>5. Hooks!ServiceInv(svc, posts)' <=> Hooks!ServiceInv(svc', posts')
  BY DEF Hooks!ServiceInv, Hooks!OnePlace, Hooks!Queued, Hooks!Posting
<1>6. Hooks!FreshNeverWaits' <=> Fresh(svc')
  BY DEF Hooks!FreshNeverWaits, Fresh
<1>7. Hooks!HooksInv' <=> Books(svc', posts', outcome', event')
  BY <1>4, <1>5, <1>6 DEF Hooks!HooksInv, Books, Held, Hooks!Queued, Hooks!Posting
<1>8. QED
  BY <1>3, <1>7

(* A run of the queue keeps the books. *)
LEMMA RunKeepsBooks ==
    ASSUME NEW s, NEW p, NEW o, NEW ev, Books(s, p, o, ev), NEW t, Progress(p, s, t, {})
    PROVE  Books(t, Hooks!Counted(p, s, t), o, ev)
<1>1. p \in [Hooks!Deliveries -> Nat] /\ Held(t) = Held(s) /\ Kept(t, Hooks!Counted(p, s, t)) /\ Fresh(t)
  BY DEF Books, Progress
<1>2. Hooks!Counted(p, s, t) \in [Hooks!Deliveries -> Nat]
  BY <1>1, CountedOnce
<1>3. \A d \in Hooks!Deliveries : d \notin Held(s) => Hooks!Counted(p, s, t)[d] = p[d]
  BY <1>1, CountedOnce DEF Held
<1>4. ASSUME NEW d \in Hooks!Deliveries
      PROVE  /\ o[d] = "queued" <=> d \in Held(t)
             /\ o[d] \in {"none", "overflow"} => Hooks!Counted(p, s, t)[d] = 0
             /\ o[d] = "exhausted" => Hooks!Counted(p, s, t)[d] = MaxAttempts
  BY <1>1, <1>3 DEF Books
<1>5. QED
  BY <1>1, <1>2, <1>4 DEF Books

LEMMA TimerKeeps ==
    ASSUME Hooks!HooksInv, Hooks!Timer PROVE Hooks!HooksInv'
<1>1. Books(svc, posts, outcome, event)
  BY BooksAreHooksInv
<1>2. /\ svc' = Hooks!ProcessQueue(svc) /\ posts' = Hooks!Counted(posts, svc, svc')
      /\ outcome' = outcome /\ event' = event
  BY DEF Hooks!Timer, Hooks!CountPosts
<1>3. Progress(posts, svc, svc', {})
  BY <1>1, <1>2, RunProgress DEF Books
<1>4. Books(svc', Hooks!Counted(posts, svc, svc'), outcome, event)
  BY <1>1, <1>3, RunKeepsBooks
<1>5. QED
  BY <1>2, <1>4, BooksAreHooksInv

LEMMA FinallyKeeps ==
    ASSUME Hooks!HooksInv, Hooks!Finally PROVE Hooks!HooksInv'
<1>1. Books(svc, posts, outcome, event)
  BY BooksAreHooksInv
<1>2. PICK s : s = [svc EXCEPT !.activeDeliveries = @ - 1]
  OBVIOUS
<1>3. /\ svc.activeDeliveries > Cardinality(svc.inFlight)
      /\ svc' = Hooks!ProcessQueue(s) /\ posts' = Hooks!Counted(posts, svc, svc')
      /\ outcome' = outcome /\ event' = event
  BY <1>2, HookSizes DEF Hooks!Finally, Hooks!CountPosts
<1>4. /\ s = [queue |-> s.queue, inFlight |-> s.inFlight, activeDeliveries |-> s.activeDeliveries]
      /\ s.queue = svc.queue /\ s.inFlight = svc.inFlight
      /\ s.activeDeliveries = svc.activeDeliveries - 1
  <2>1. PICK q, f, a : svc = [queue |-> q, inFlight |-> f, activeDeliveries |-> a]
    BY <1>1 DEF Books, Kept
  <2>2. s = [queue |-> q, inFlight |-> f, activeDeliveries |-> a - 1]
    BY <1>2, <2>1
  <2>3. QED
    BY <2>1, <2>2
<1>5. Kept(s, posts)
  <2>1. Kept(svc, posts)
    BY <1>1 DEF Books
  <2>2. /\ Cardinality(svc.inFlight) \in Nat /\ MAX_CONCURRENT_DELIVERIES \in Nat
        /\ svc.activeDeliveries \in 0..MAX_CONCURRENT_DELIVERIES
    BY <2>1, KeptSizes, HooksAssumption
  <2>3. s.activeDeliveries \in Cardinality(s.inFlight)..MAX_CONCURRENT_DELIVERIES
    BY <1>3, <1>4, <2>2
  <2>4. QED
    BY <1>4, <2>1, <2>3 DEF Kept
<1>6. Hooks!Posting(s) = Hooks!Posting(svc) /\ Held(s) = Held(svc)
  BY <1>4 DEF Held, Hooks!Posting, Hooks!Queued
<1>7. Progress(posts, s, svc', {})
  BY <1>1, <1>3, <1>5, RunProgress DEF Books
<1>8. Hooks!Counted(posts, s, svc') = Hooks!Counted(posts, svc, svc')
  BY <1>6 DEF Hooks!Counted
<1>9. Progress(posts, svc, svc', {})
  BY <1>6, <1>7, <1>8 DEF Progress
<1>10. Books(svc', Hooks!Counted(posts, svc, svc'), outcome, event)
  BY <1>1, <1>9, RunKeepsBooks
<1>11. QED
  BY <1>3, <1>10, BooksAreHooksInv

LEMMA HandleEventKeeps ==
    ASSUME Hooks!HooksInv, NEW e \in Events, Hooks!HandleEvent(e) PROVE Hooks!HooksInv'
<1>1. Books(svc, posts, outcome, event)
  BY BooksAreHooksInv
<1>2. PICK S \in SUBSET Endpoints : S = Hooks!Interested(e)
  BY DEF Hooks!Interested
<1>3. event[e] \in Hooks!Types /\ event' = [event EXCEPT ![e] = "over"]
  BY DEF Hooks!HandleEvent
<1>4. PICK order \in Hooks!SetToSeqs(S) :
         /\ svc' = Hooks!EnqueueAll(svc, order, e)
         /\ posts' = Hooks!Counted(posts, svc, svc')
         /\ outcome' = [d \in Hooks!Deliveries |->
               IF d \notin {<<q, e>> : q \in S} THEN outcome[d]
               ELSE IF d \in Hooks!Queued(svc') \union Hooks!Posting(svc') THEN "queued" ELSE "overflow"]
  BY <1>2 DEF Hooks!HandleEvent, Hooks!CountPosts
<1> DEFINE D == {<<q, e>> : q \in S}
<1>5. \A q \in Endpoints : /\ <<q, e>> \in Hooks!Deliveries
                           /\ outcome[<<q, e>>] = "none" /\ posts[<<q, e>>] = 0
                           /\ <<q, e>> \notin Held(svc)
  <2>1. event[e] # "over"
    BY <1>3 DEF Hooks!Types
  <2>2. \A q \in Endpoints : <<q, e>> \in Hooks!Deliveries /\ outcome[<<q, e>>] = "none"
    BY <1>1, <2>1 DEF Books, Hooks!Deliveries
  <2>3. QED
    BY <1>1, <2>2 DEF Books
<1>6. posts \in [Hooks!Deliveries -> Nat] /\ Kept(svc, posts) /\ Fresh(svc)
  BY <1>1 DEF Books
<1>7. Progress(posts, svc, svc', D)
  <2>1. PICK t : t = Hooks!EnqueueAll(svc, order, e)
    OBVIOUS
  <2>2. Progress(posts, svc, t, D)
    BY <1>5, <1>6, <2>1, EnqueueAllProgress
  <2>3. QED
    BY <1>4, <2>1, <2>2
<1>8. /\ posts' \in [Hooks!Deliveries -> Nat] /\ DOMAIN outcome' = Hooks!Deliveries
      /\ Kept(svc', posts') /\ Fresh(svc')
  BY <1>4, <1>6, <1>7, CountedOnce DEF Progress
<1>9. ASSUME NEW d \in Hooks!Deliveries
      PROVE  /\ outcome'[d] = "queued" <=> d \in Held(svc')
             /\ outcome'[d] \in {"none", "overflow"} => posts'[d] = 0
             /\ outcome'[d] = "exhausted" => posts'[d] = MaxAttempts
  <2>1. d \notin Held(svc') => posts'[d] = posts[d]
    <3>1. d \notin Hooks!Posting(svc') => posts'[d] = posts[d]
      BY <1>4, <1>6, CountedOnce
    <3>2. QED
      BY <3>1 DEF Held
  <2>2. CASE d \in D
    <3>1. outcome'[d] = IF d \in Held(svc') THEN "queued" ELSE "overflow"
      BY <1>4, <2>2 DEF Held
    <3>2. posts[d] = 0
      BY <1>5, <2>2
    <3>3. QED
      BY <2>1, <3>1, <3>2
  <2>3. CASE d \notin D
    <3>1. outcome'[d] = outcome[d]
      BY <1>4, <2>3
    <3>2. d \in Held(svc') <=> d \in Held(svc)
      BY <1>7, <2>3 DEF Progress
    <3>3. d \notin Held(svc') => posts'[d] = posts[d]
      BY <2>1
    <3>4. d \in Held(svc) <=> outcome[d] = "queued"
      BY <1>1 DEF Books
    <3>5. /\ outcome[d] \in {"none", "overflow"} => posts[d] = 0
          /\ outcome[d] = "exhausted" => posts[d] = MaxAttempts
      BY <1>1 DEF Books
    <3>6. QED
      BY <3>1, <3>2, <3>3, <3>4, <3>5
  <2>4. QED
    BY <2>2, <2>3
<1>10. ASSUME NEW f \in Events, event'[f] # "over", NEW q \in Endpoints
       PROVE  outcome'[<<q, f>>] = "none"
  <2>1. DOMAIN event = Events
    BY <1>1 DEF Books
  <2>2. f # e /\ event'[f] = event[f]
    BY <1>3, <1>10, <2>1
  <2>3. <<q, f>> \notin D /\ <<q, f>> \in Hooks!Deliveries
    BY <2>2 DEF Hooks!Deliveries
  <2>4. outcome[<<q, f>>] = "none"
    BY <1>1, <1>10, <2>2 DEF Books
  <2>5. QED
    BY <1>4, <2>3, <2>4
<1>11. DOMAIN event' = Events
  BY <1>1, <1>3 DEF Books
<1>12. Books(svc', posts', outcome', event')
  BY <1>8, <1>9, <1>10, <1>11 DEF Books
<1>13. QED
  BY <1>12, BooksAreHooksInv

(* The pause of a job that waits ends. *)
LEMMA BackoffEndsKeeps ==
    ASSUME Hooks!HooksInv, NEW i \in DOMAIN svc.queue, Hooks!BackoffEnds(i) PROVE Hooks!HooksInv'
<1>1. Books(svc, posts, outcome, event) /\ Kept(svc, posts)
  BY BooksAreHooksInv DEF Books
<1>2. PICK q, f, a : svc = [queue |-> q, inFlight |-> f, activeDeliveries |-> a]
  BY <1>1 DEF Kept
<1>3. svc' = [queue |-> [q EXCEPT ![i] = [@ EXCEPT !.due = TRUE]], inFlight |-> f, activeDeliveries |-> a]
  BY <1>2 DEF Hooks!BackoffEnds
<1>4. posts' = posts /\ outcome' = outcome /\ event' = event
  BY DEF Hooks!BackoffEnds, Hooks!historyVars
<1>5. svc.queue = q /\ svc.inFlight = f /\ svc.activeDeliveries = a /\ q \in Seq(Hooks!Jobs)
  BY <1>1, <1>2 DEF Kept
<1>6. PICK r : r = [q EXCEPT ![i] = [@ EXCEPT !.due = TRUE]]
  OBVIOUS
<1>7. svc'.queue = r /\ svc'.inFlight = f /\ svc'.activeDeliveries = a
  BY <1>3, <1>6
<1>8. PICK n \in Nat : n = Len(q) /\ DOMAIN q = 1..n /\ i \in 1..n
  BY <1>5
<1>9. \A k \in 1..n : q[k] \in Hooks!Jobs
  BY <1>5, <1>8
<1>10. ASSUME NEW j \in Hooks!Jobs
       PROVE  /\ [j EXCEPT !.due = TRUE] \in Hooks!Jobs
              /\ [j EXCEPT !.due = TRUE].delivery = j.delivery
              /\ [j EXCEPT !.due = TRUE].attempts = j.attempts
              /\ [j EXCEPT !.due = TRUE].due
  BY DEF Hooks!Jobs
<1>11. \A k \in 1..n : /\ r[k] \in Hooks!Jobs
                       /\ r[k].delivery = q[k].delivery
                       /\ r[k].attempts = q[k].attempts
                       /\ q[k].due => r[k].due
  <2>1. ASSUME NEW k \in 1..n
        PROVE  r[k] \in Hooks!Jobs /\ r[k].delivery = q[k].delivery
                 /\ r[k].attempts = q[k].attempts /\ (q[k].due => r[k].due)
    <3>1. CASE k = i
      <4>1. r[k] = [q[k] EXCEPT !.due = TRUE]
        BY <1>6, <1>8, <3>1
      <4>2. QED
        BY <1>9, <1>10, <4>1
    <3>2. CASE k # i
      BY <1>6, <1>8, <1>9, <3>2
    <3>3. QED
      BY <3>1, <3>2
  <2>2. QED
    BY <2>1
<1>12. r \in Seq(Hooks!Jobs) /\ Len(r) = n /\ DOMAIN r = 1..n
  <2>1. q = [k \in 1..n |-> q[k]]
    BY <1>5, <1>8
  <2>2. r = [k \in 1..n |-> r[k]]
    BY <1>6, <2>1
  <2>3. QED
    BY <1>11, <2>2
<1>13. Kept(svc', posts)
  <2>1. svc' = [queue |-> svc'.queue, inFlight |-> svc'.inFlight,
                activeDeliveries |-> svc'.activeDeliveries]
    BY <1>3
  <2>2. /\ f \in SUBSET Hooks!Jobs /\ IsFiniteSet(f)
        /\ a \in Cardinality(f)..MAX_CONCURRENT_DELIVERIES
        /\ \A j, k \in f : j.delivery = k.delivery => j = k
        /\ \A j \in f : j.attempts = posts[j.delivery] /\ j.attempts # 0
        /\ n + Cardinality(f) <= MAX_QUEUE_DEPTH + MAX_CONCURRENT_DELIVERIES
    BY <1>1, <1>5, <1>8 DEF Kept
  <2>3. /\ \A k, l \in 1..n : q[k].delivery = q[l].delivery => k = l
        /\ \A k \in 1..n, j \in f : q[k].delivery # j.delivery
        /\ \A k \in 1..n : /\ q[k].attempts = posts[q[k].delivery]
                           /\ q[k].attempts < MaxAttempts
                           /\ q[k].attempts = 0 => q[k].due
    BY <1>1, <1>5, <1>8 DEF Kept
  <2>4. /\ \A k, l \in 1..n : r[k].delivery = r[l].delivery => k = l
        /\ \A k \in 1..n, j \in f : r[k].delivery # j.delivery
        /\ \A k \in 1..n : /\ r[k].attempts = posts[r[k].delivery]
                           /\ r[k].attempts < MaxAttempts
                           /\ r[k].attempts = 0 => r[k].due
    BY <1>11, <2>3
  <2>5. QED
    BY <1>7, <1>12, <2>1, <2>2, <2>4 DEF Kept
<1>14. Fresh(svc')
  <2>1. Fresh(svc)
    BY <1>1 DEF Books
  <2>2. \A k \in 1..n : r[k].attempts = 0 => q[k].attempts = 0
    BY <1>11
  <2>3. QED
    BY <1>5, <1>7, <1>8, <1>12, <2>1, <2>2 DEF Fresh
<1>15. Held(svc') = Held(svc)
  <2>1. Hooks!Queued(svc') = Hooks!Queued(svc)
    BY <1>5, <1>7, <1>8, <1>11, <1>12 DEF Hooks!Queued
  <2>2. QED
    BY <1>5, <1>7, <2>1 DEF Held, Hooks!Posting
<1>16. Books(svc', posts', outcome', event')
  BY <1>1, <1>4, <1>13, <1>14, <1>15 DEF Books
<1>17. QED
  BY <1>16, BooksAreHooksInv

(* An answer ends a post: the job waits for its next attempt, or it is over. *)
LEMMA AnswerKeeps ==
    ASSUME Hooks!HooksInv, NEW j \in svc.inFlight, NEW result \in {"ok", "refused", "failed"},
           Hooks!Answer(j, result)
    PROVE  Hooks!HooksInv'
<1>1. Books(svc, posts, outcome, event) /\ Kept(svc, posts)
  BY BooksAreHooksInv DEF Books
<1>2. PICK q, f, a : svc = [queue |-> q, inFlight |-> f, activeDeliveries |-> a]
  BY <1>1 DEF Kept
<1>3. svc.queue = q /\ svc.inFlight = f /\ svc.activeDeliveries = a
  BY <1>2
<1>4. PICK n \in Nat : n = Len(q) /\ DOMAIN q = 1..n /\ q \in Seq(Hooks!Jobs)
  BY <1>1, <1>3 DEF Kept
<1>5. PICK d \in Hooks!Deliveries : d = j.delivery
  BY <1>1 DEF Kept, Hooks!Jobs
<1>6. PICK w : w = [j EXCEPT !.due = FALSE]
  OBVIOUS
<1>7. /\ j \in Hooks!Jobs /\ j \in f /\ j.attempts = posts[d] /\ j.attempts # 0
      /\ j.attempts \in 0..MaxAttempts
  BY <1>1, <1>3, <1>5 DEF Kept, Hooks!Jobs
<1>8. w \in Hooks!Jobs /\ w.delivery = d /\ w.attempts = j.attempts
  BY <1>5, <1>6, <1>7 DEF Hooks!Jobs
<1>9. PICK g : g = f \ {j}
  OBVIOUS
<1>10. PICK again \in BOOLEAN : again <=> Hooks!Retried(j, result)
  OBVIOUS
<1>11. /\ svc' = [queue |-> svc'.queue, inFlight |-> svc'.inFlight,
                  activeDeliveries |-> svc'.activeDeliveries]
       /\ svc'.inFlight = g /\ svc'.activeDeliveries = a
       /\ again => svc'.queue = Append(q, w)
       /\ ~ again => svc'.queue = q
  <2>1. svc' = [svc EXCEPT !.inFlight = @ \ {j},
                           !.queue = IF Hooks!Retried(j, result)
                                     THEN Append(@, [j EXCEPT !.due = FALSE]) ELSE @]
    BY DEF Hooks!Answer
  <2>2. CASE Hooks!Retried(j, result)
    <3>1. svc' = [queue |-> Append(q, w), inFlight |-> g, activeDeliveries |-> a]
      BY <1>2, <1>6, <1>9, <2>1, <2>2
    <3>2. QED
      BY <1>10, <2>2, <3>1
  <2>3. CASE ~ Hooks!Retried(j, result)
    <3>1. svc' = [queue |-> q, inFlight |-> g, activeDeliveries |-> a]
      BY <1>2, <1>9, <2>1, <2>3
    <3>2. QED
      BY <1>10, <2>3, <3>1
  <2>4. QED
    BY <2>2, <2>3
<1>12. /\ outcome' = [outcome EXCEPT ![d] = Hooks!Outcome(j, result)]
       /\ posts' = [posts EXCEPT ![d] = IF result = "failed" THEN @ ELSE 0]
       /\ event' = event
  BY <1>5 DEF Hooks!Answer
<1>13. /\ posts \in [Hooks!Deliveries -> Nat] /\ DOMAIN outcome = Hooks!Deliveries
       /\ MaxAttempts \in Nat
  BY <1>1, HooksAssumption DEF Books
<1>14. /\ posts' \in [Hooks!Deliveries -> Nat] /\ DOMAIN outcome' = Hooks!Deliveries
       /\ posts'[d] = IF result = "failed" THEN posts[d] ELSE 0
       /\ outcome'[d] = Hooks!Outcome(j, result)
       /\ \A x \in Hooks!Deliveries : x # d => posts'[x] = posts[x] /\ outcome'[x] = outcome[x]
  BY <1>12, <1>13
<1>15. again <=> result = "failed" /\ j.attempts < MaxAttempts
  BY <1>10 DEF Hooks!Retried
<1>16. outcome'[d] = IF again THEN "queued" ELSE IF result = "failed" THEN "exhausted" ELSE "answered"
  <2>1. CASE result \in {"ok", "refused"}
    BY <1>14, <1>15, <2>1 DEF Hooks!Outcome, Hooks!Retried
  <2>2. CASE result = "failed"
    BY <1>10, <1>14, <2>2 DEF Hooks!Outcome
  <2>3. QED
    BY <2>1, <2>2
<1>17. /\ \A i \in 1..n : /\ q[i] \in Hooks!Jobs /\ q[i].delivery \in Hooks!Deliveries
                          /\ q[i].delivery # d
       /\ \A k \in g : k \in f /\ k \in Hooks!Jobs /\ k.delivery \in Hooks!Deliveries /\ k.delivery # d
  <2>1. \A i \in 1..n : q[i] \in Hooks!Jobs /\ q[i].delivery # d
    BY <1>1, <1>3, <1>4, <1>5 DEF Kept
  <2>2. \A k \in g : k \in f /\ k \in Hooks!Jobs /\ k.delivery # d
    BY <1>1, <1>3, <1>5, <1>9 DEF Kept
  <2>3. QED
    BY <2>1, <2>2 DEF Hooks!Jobs
<1>18. IsFiniteSet(g) /\ Cardinality(g) = Cardinality(f) - 1 /\ Cardinality(f) \in Nat
         /\ Cardinality(g) \in Nat
  <2>1. IsFiniteSet(f)
    BY <1>1, <1>3 DEF Kept
  <2>2. IsFiniteSet(g) /\ Cardinality(g) = Cardinality(f) - 1
    BY <1>7, <1>9, <2>1, FS_RemoveElement
  <2>3. QED
    BY <2>1, <2>2, FS_CardinalityType
<1>19. /\ svc'.queue \in Seq(Hooks!Jobs)
       /\ again => /\ Len(svc'.queue) = n + 1 /\ DOMAIN svc'.queue = 1..(n + 1)
                   /\ svc'.queue[n + 1] = w
       /\ ~ again => Len(svc'.queue) = n /\ DOMAIN svc'.queue = 1..n
       /\ \A i \in 1..n : svc'.queue[i] = q[i]
  <2>1. CASE again
    BY <1>4, <1>8, <1>11, <2>1
  <2>2. CASE ~ again
    BY <1>4, <1>11, <2>2
  <2>3. QED
    BY <2>1, <2>2
<1>20. \A i \in DOMAIN svc'.queue : i \in 1..n \/ (again /\ i = n + 1 /\ svc'.queue[i] = w)
  BY <1>4, <1>19
<1>21. \A i \in DOMAIN svc'.queue : /\ i \in 1..n => svc'.queue[i] = q[i] /\ q[i].delivery # d
                                    /\ i \notin 1..n => again /\ i = n + 1 /\ svc'.queue[i].delivery = d
  BY <1>8, <1>17, <1>19, <1>20
<1>22. \A i, k \in DOMAIN svc'.queue : svc'.queue[i].delivery = svc'.queue[k].delivery => i = k
  <2>1. \A i, k \in 1..n : q[i].delivery = q[k].delivery => i = k
    BY <1>1, <1>3, <1>4 DEF Kept
  <2>2. QED
    BY <1>21, <2>1
<1>23. \A i \in DOMAIN svc'.queue, k \in g : svc'.queue[i].delivery # k.delivery
  <2>1. \A i \in 1..n, k \in f : q[i].delivery # k.delivery
    BY <1>1, <1>3, <1>4 DEF Kept
  <2>2. QED
    BY <1>17, <1>21, <2>1
<1>24. \A i \in DOMAIN svc'.queue : /\ svc'.queue[i].attempts = posts'[svc'.queue[i].delivery]
                                    /\ svc'.queue[i].attempts < MaxAttempts
                                    /\ svc'.queue[i].attempts = 0 => svc'.queue[i].due
  <2>1. \A i \in 1..n : /\ q[i].attempts = posts'[q[i].delivery]
                        /\ q[i].attempts < MaxAttempts
                        /\ q[i].attempts = 0 => q[i].due
    BY <1>1, <1>3, <1>4, <1>14, <1>17 DEF Kept
  <2>2. again => w.attempts = posts'[w.delivery] /\ w.attempts < MaxAttempts /\ w.attempts # 0
    BY <1>7, <1>8, <1>14, <1>15
  <2>3. QED
    BY <1>19, <1>20, <2>1, <2>2
<1>25. /\ \A i, k \in g : i.delivery = k.delivery => i = k
       /\ \A k \in g : k.attempts = posts'[k.delivery] /\ k.attempts # 0
  BY <1>1, <1>3, <1>14, <1>17 DEF Kept
<1>26. /\ svc'.activeDeliveries \in Cardinality(g)..MAX_CONCURRENT_DELIVERIES
       /\ Len(svc'.queue) + Cardinality(g) <= MAX_QUEUE_DEPTH + MAX_CONCURRENT_DELIVERIES
  <2>1. /\ a \in Cardinality(f)..MAX_CONCURRENT_DELIVERIES
        /\ n + Cardinality(f) <= MAX_QUEUE_DEPTH + MAX_CONCURRENT_DELIVERIES
        /\ MAX_CONCURRENT_DELIVERIES \in Nat /\ MAX_QUEUE_DEPTH \in Nat
    BY <1>1, <1>3, <1>4, HooksAssumption DEF Kept
  <2>2. Len(svc'.queue) = n \/ Len(svc'.queue) = n + 1
    BY <1>19
  <2>3. QED
    BY <1>11, <1>18, <2>1, <2>2
<1>27. Kept(svc', posts')
  <2>1. g \in SUBSET Hooks!Jobs
    BY <1>17
  <2>2. QED
    BY <1>11, <1>18, <1>19, <1>22, <1>23, <1>24, <1>25, <1>26, <2>1 DEF Kept
<1>28. Fresh(svc')
  <2>1. SUFFICES ASSUME NEW i \in DOMAIN svc'.queue, svc'.queue[i].attempts = 0
                 PROVE  a = MAX_CONCURRENT_DELIVERIES
    BY <1>11 DEF Fresh
  <2>2. i \in 1..n /\ q[i].attempts = 0
    BY <1>7, <1>8, <1>19, <1>20, <2>1
  <2>3. QED
    BY <1>1, <1>3, <1>4, <2>2 DEF Books, Fresh
<1>29. /\ \A x \in Hooks!Deliveries : x # d => (x \in Held(svc') <=> x \in Held(svc))
       /\ d \in Held(svc') <=> again
  <2>1. \A x : x \in Hooks!Posting(svc') <=> \E k \in g : x = k.delivery
    BY <1>11 DEF Hooks!Posting
  <2>2. \A x : x \in Hooks!Posting(svc) <=> \E k \in f : x = k.delivery
    BY <1>3 DEF Hooks!Posting
  <2>3. \A x : x # d => (x \in Hooks!Posting(svc') <=> x \in Hooks!Posting(svc))
    BY <1>5, <1>9, <2>1, <2>2
  <2>4. d \notin Hooks!Posting(svc')
    BY <1>17, <2>1
  <2>5. \A x : x \in Hooks!Queued(svc') <=> \E i \in DOMAIN svc'.queue : x = svc'.queue[i].delivery
    BY DEF Hooks!Queued
  <2>6. \A x : x \in Hooks!Queued(svc) <=> \E i \in 1..n : x = q[i].delivery
    BY <1>3, <1>4 DEF Hooks!Queued
  <2>7. \A i \in 1..n : i \in DOMAIN svc'.queue
    BY <1>19
  <2>8. \A x : x # d => (x \in Hooks!Queued(svc') <=> x \in Hooks!Queued(svc))
    BY <1>21, <2>5, <2>6, <2>7
  <2>9. d \in Hooks!Queued(svc') <=> again
    <3>1. again => (n + 1) \in DOMAIN svc'.queue /\ svc'.queue[n + 1].delivery = d
      BY <1>8, <1>19
    <3>2. QED
      BY <1>21, <2>5, <3>1
  <2>10. QED
    BY <2>3, <2>4, <2>8, <2>9 DEF Held
<1>30. ASSUME NEW x \in Hooks!Deliveries
       PROVE  /\ outcome'[x] = "queued" <=> x \in Held(svc')
              /\ outcome'[x] \in {"none", "overflow"} => posts'[x] = 0
              /\ outcome'[x] = "exhausted" => posts'[x] = MaxAttempts
  <2>1. CASE x # d
    <3>1. posts'[x] = posts[x] /\ outcome'[x] = outcome[x] /\ (x \in Held(svc') <=> x \in Held(svc))
      BY <1>14, <1>29, <2>1
    <3>2. QED
      BY <1>1, <3>1 DEF Books
  <2>2. CASE x = d
    <3>1. result = "failed" /\ ~ again => posts'[d] = MaxAttempts
      BY <1>7, <1>13, <1>14, <1>15
    <3>2. QED
      BY <1>16, <1>29, <2>2, <3>1
  <2>3. QED
    BY <2>1, <2>2
<1>31. ASSUME NEW e \in Events, event'[e] # "over", NEW p \in Endpoints
       PROVE  outcome'[<<p, e>>] = "none"
  <2>1. outcome[<<p, e>>] = "none" /\ <<p, e>> \in Hooks!Deliveries
    BY <1>1, <1>12, <1>31 DEF Books, Hooks!Deliveries
  <2>2. outcome[d] = "queued"
    BY <1>1, <1>3, <1>5, <1>7 DEF Books, Held, Hooks!Posting
  <2>3. QED
    BY <1>14, <2>1, <2>2
<1>32. Books(svc', posts', outcome', event')
  <2>1. DOMAIN event' = Events
    BY <1>1, <1>12 DEF Books
  <2>2. QED
    BY <1>14, <1>27, <1>28, <1>30, <1>31, <2>1 DEF Books
<1>33. QED
  BY <1>32, BooksAreHooksInv

(* The other steps leave the deliveries alone, or end an event that has none. *)
LEMMA NextKeeps ==
    ASSUME Hooks!HooksInv, Hooks!Next PROVE Hooks!HooksInv'
<1>1. Books(svc, posts, outcome, event)
  BY BooksAreHooksInv
<1>2. ASSUME NEW ev, \A e \in Events : ev[e] # "over" => event[e] # "over", DOMAIN ev = Events,
             event' = ev, UNCHANGED <<svc, posts, outcome>>
      PROVE  Hooks!HooksInv'
  <2>1. Books(svc', posts', outcome', event')
    BY <1>1, <1>2 DEF Books
  <2>2. QED
    BY <2>1, BooksAreHooksInv
<1>3. DOMAIN event = Events
  BY <1>1 DEF Books
<1>4. CASE Hooks!Deliver
  <2>1. CASE \E e \in Events : Hooks!HandleEvent(e)
    BY <2>1, HandleEventKeeps
  <2>2. CASE \E j \in svc.inFlight, result \in {"ok", "refused", "failed"} : Hooks!Answer(j, result)
    BY <2>2, AnswerKeeps
  <2>3. CASE Hooks!Finally
    BY <2>3, FinallyKeeps
  <2>4. CASE \E i \in DOMAIN svc.queue : Hooks!BackoffEnds(i)
    BY <2>4, BackoffEndsKeeps
  <2>5. CASE Hooks!Timer
    BY <2>5, TimerKeeps
  <2>6. QED
    BY <1>4, <2>1, <2>2, <2>3, <2>4, <2>5 DEF Hooks!Deliver
<1>5. ASSUME NEW e \in Events, NEW t \in Hooks!Types, NEW o \in BOOLEAN, Hooks!Broadcast(e, t, o)
      PROVE  Hooks!HooksInv'
  <2>1. /\ event[e] = "none" /\ event' = [event EXCEPT ![e] = IF o THEN "over" ELSE t]
        /\ UNCHANGED <<svc, posts, outcome>>
    BY <1>5 DEF Hooks!Broadcast, Hooks!historyVars
  <2>2. \A x \in Events : event'[x] # "over" => event[x] # "over"
    BY <1>3, <2>1
  <2>3. DOMAIN event' = Events
    BY <1>3, <2>1
  <2>4. QED
    BY <1>2, <2>1, <2>2, <2>3
<1>6. ASSUME NEW e \in Events, Hooks!HandleEventFails(e) PROVE Hooks!HooksInv'
  <2>1. /\ event' = [event EXCEPT ![e] = "over"] /\ UNCHANGED <<svc, posts, outcome>>
    BY <1>6 DEF Hooks!HandleEventFails, Hooks!historyVars
  <2>2. \A x \in Events : event'[x] # "over" => event[x] # "over"
    BY <1>3, <2>1
  <2>3. DOMAIN event' = Events
    BY <1>3, <2>1
  <2>4. QED
    BY <1>2, <2>1, <2>2, <2>3
<1>7. ASSUME UNCHANGED <<event, svc, posts, outcome>> PROVE Hooks!HooksInv'
  BY <1>2, <1>3, <1>7
<1>8. CASE \E p \in Managed, i \in Hooks!Inputs : Hooks!UpdateRead(p, i)
  BY <1>7, <1>8 DEF Hooks!UpdateRead, Hooks!historyVars
<1>9. CASE Hooks!UpdateWrite
  BY <1>7, <1>9 DEF Hooks!UpdateWrite, Hooks!historyVars
<1>10. CASE Hooks!UpdateRejected
  BY <1>7, <1>10 DEF Hooks!UpdateRejected, Hooks!historyVars
<1>11. CASE \E p \in Managed : Hooks!CreateEndpoint(p) \/ Hooks!DeleteEndpoint(p)
  BY <1>7, <1>11 DEF Hooks!CreateEndpoint, Hooks!DeleteEndpoint, Hooks!historyVars
<1>12. CASE Hooks!Stop
  BY <1>7, <1>12 DEF Hooks!Stop, Hooks!historyVars
<1>13. QED
  BY <1>4, <1>5, <1>6, <1>8, <1>9, <1>10, <1>11, <1>12 DEF Hooks!Next

LEMMA InitKeeps ==
    ASSUME Hooks!Init PROVE Hooks!HooksInv
<1>1. /\ svc.queue = <<>> /\ svc.inFlight = {} /\ svc.activeDeliveries = 0
      /\ svc = [queue |-> svc.queue, inFlight |-> svc.inFlight, activeDeliveries |-> svc.activeDeliveries]
  BY DEF Hooks!Init
<1>2. /\ posts = [d \in Hooks!Deliveries |-> 0] /\ outcome = [d \in Hooks!Deliveries |-> "none"]
      /\ event = [e \in Events |-> "none"]
  BY DEF Hooks!Init
<1>3. svc.queue \in Seq(Hooks!Jobs) /\ Len(svc.queue) = 0 /\ DOMAIN svc.queue = {}
  BY <1>1
<1>4. IsFiniteSet(svc.inFlight) /\ Cardinality(svc.inFlight) = 0
  BY <1>1, FS_EmptySet
<1>5. MAX_QUEUE_DEPTH \in Nat /\ MAX_CONCURRENT_DELIVERIES \in Nat
  BY HooksAssumption
<1>6. svc.activeDeliveries \in Cardinality(svc.inFlight)..MAX_CONCURRENT_DELIVERIES
  BY <1>1, <1>4, <1>5
<1>7. Len(svc.queue) + Cardinality(svc.inFlight) <= MAX_QUEUE_DEPTH + MAX_CONCURRENT_DELIVERIES
  BY <1>3, <1>4, <1>5
<1>8. Kept(svc, posts)
  <2>1. svc.inFlight \in SUBSET Hooks!Jobs /\ \A j \in svc.inFlight : FALSE
    BY <1>1
  <2>2. QED
    BY <1>1, <1>3, <1>4, <1>6, <1>7, <2>1 DEF Kept
<1>9. Fresh(svc)
  BY <1>3 DEF Fresh
<1>10. Held(svc) = {}
  BY <1>1, <1>3 DEF Held, Hooks!Queued, Hooks!Posting
<1>11. Books(svc, posts, outcome, event)
  <2>1. posts \in [Hooks!Deliveries -> Nat] /\ DOMAIN outcome = Hooks!Deliveries /\ DOMAIN event = Events
    BY <1>2
  <2>2. \A d \in Hooks!Deliveries : posts[d] = 0 /\ outcome[d] = "none"
    BY <1>2
  <2>3. \A e \in Events, q \in Endpoints : <<q, e>> \in Hooks!Deliveries
    BY DEF Hooks!Deliveries
  <2>4. QED
    BY <1>8, <1>9, <1>10, <2>1, <2>2, <2>3 DEF Books
<1>12. QED
  BY <1>11, BooksAreHooksInv

(* What the invariant says of each delivery. *)
LEMMA InvKeepsDeliveries ==
    ASSUME Hooks!HooksInv PROVE DeliveriesAreKept
<1>1. Books(svc, posts, outcome, event) /\ Kept(svc, posts) /\ Fresh(svc)
  BY BooksAreHooksInv DEF Books
<1>2. Hooks!FreshNeverWaits
  BY <1>1 DEF Hooks!FreshNeverWaits, Fresh
<1>3. Hooks!QueueIsBounded
  BY <1>1, HookSizes DEF Hooks!QueueIsBounded, Kept
<1>4. ASSUME NEW d \in Hooks!Deliveries
      PROVE  Hooks!Copies(d) = IF outcome[d] = "queued" THEN 1 ELSE 0
  <2> DEFINE Q == {i \in DOMAIN svc.queue : svc.queue[i].delivery = d}
             P == {j \in svc.inFlight : j.delivery = d}
  <2>1. Hooks!Copies(d) = Cardinality(Q) + Cardinality(P)
    BY HookSizes DEF Hooks!Copies
  <2>2. /\ \A i, k \in Q : i = k
        /\ \A j, k \in P : j = k
        /\ Q = {} \/ P = {}
    BY <1>1 DEF Kept
  <2>3. Q # {} \/ P # {} <=> outcome[d] = "queued"
    <3>1. Q # {} <=> d \in Hooks!Queued(svc)
      BY DEF Hooks!Queued
    <3>2. P # {} <=> d \in Hooks!Posting(svc)
      BY DEF Hooks!Posting
    <3>3. outcome[d] = "queued" <=> d \in Held(svc)
      BY <1>1 DEF Books
    <3>4. QED
      BY <3>1, <3>2, <3>3 DEF Held
  <2> HIDE DEF Q, P
  <2>4. ASSUME NEW S, \A i, k \in S : i = k
        PROVE  Cardinality(S) = IF S = {} THEN 0 ELSE 1
    <3>1. CASE S = {}
      BY <3>1, FS_EmptySet
    <3>2. CASE S # {}
      <4>1. PICK x : S = {x}
        BY <2>4, <3>2
      <4>2. QED
        BY <3>2, <4>1, FS_Singleton
    <3>3. QED
      BY <3>1, <3>2
  <2>5. /\ Cardinality(Q) = IF Q = {} THEN 0 ELSE 1
        /\ Cardinality(P) = IF P = {} THEN 0 ELSE 1
    BY <2>2, <2>4
  <2>6. QED
    BY <2>1, <2>2, <2>3, <2>5
<1>5. Hooks!DeliveryIsAccounted
  <2>1. \A d \in Hooks!Deliveries : /\ outcome[d] \in {"none", "overflow"} => posts[d] = 0
                                    /\ outcome[d] = "exhausted" => posts[d] = MaxAttempts
    BY <1>1 DEF Books
  <2>2. QED
    BY <1>4, <2>1 DEF Hooks!DeliveryIsAccounted
<1>6. QED
  BY <1>2, <1>3, <1>5 DEF DeliveriesAreKept

-------------------------------------------------------------------------------
(* The theorems *)

(* The inductive invariant of the dispatcher (webhook-dispatcher.service.ts): a delivery
   that is queued is in exactly one place with as many attempts as it was posted; a slot is
   taken for every post; the jobs in memory fit into the queue and the slots; and an event
   that has not been handled has queued nothing. *)
THEOREM HooksConsistent == Spec => []Hooks!HooksInv
<1>1. Init => Hooks!HooksInv
  BY InitKeeps DEF Init
<1>2. Hooks!HooksInv /\ [Next]_vars => Hooks!HooksInv'
  <2>1. SUFFICES ASSUME Hooks!HooksInv, [Next]_vars PROVE Hooks!HooksInv'
    OBVIOUS
  <2>2. CASE Next /\ part = "hooks"
    BY <2>1, <2>2, NextKeeps DEF Next
  <2>3. CASE UNCHANGED hookVars
    <3>1. Books(svc, posts, outcome, event)
      BY <2>1, BooksAreHooksInv
    <3>2. Books(svc', posts', outcome', event')
      BY <2>3, <3>1 DEF hookVars
    <3>3. QED
      BY <3>2, BooksAreHooksInv
  <2>4. QED
    BY <2>1, <2>2, <2>3 DEF Next, vars
<1>3. QED
  BY <1>1, <1>2, PTL DEF Spec

(* No delivery of an event to an endpoint is lost, doubled or posted too often between the
   queue, the slots and the retries; the jobs in memory are bounded although a retry is
   queued whatever the depth; and no fresh delivery waits while a slot is free. *)
THEOREM DeliveriesStayKept == Spec => []DeliveriesAreKept
<1>1. Hooks!HooksInv => DeliveriesAreKept
  BY InvKeepsDeliveries
<1>2. QED
  BY <1>1, HooksConsistent, PTL
================================================================================
