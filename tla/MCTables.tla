------------------------------ MODULE MCTables ------------------------------
(***************************************************************************)
(* The sequential programs that keep their data in tables, chains, bit     *)
(* sets, forests and adjacency lists, checked together under every order   *)
(* of calls: a run picks one of them at the start and the others stay in   *)
(* their initial state.                                                    *)
(* The proofs about graphs come first, those about the suite last.         *)
(***************************************************************************)
EXTENDS
  BumpArena, Sequences, FiniteSetTheorems, SequenceTheorems, WellFoundedInduction, TLAPS

CONSTANTS
  BayCapacity, BayCodes, BayValues, MaxShips,   \* cargo.c
  PacketCapacity, PacketChecksums, MaxBatches,  \* f1_engine.c
  ItemNames, ItemKinds, MaxItems,               \* rpg_inventory.c
  UnionSize,                                    \* disjoint_subset.c: nodes
  MakeTasks, MakeEdges,                         \* micro-make.c
  WalkSize, WalkStarts, WalkCalls               \* BFS_and_DFS.c

VARIABLES
  program,
  pPhase, pAllocated, pBlocks,
  fPhase, fControls, fEngine, fAuthorized, fBox, fDropped, fConfirmed, fStopped,
  cPhase, cQueue, cSize, cRails, cContainer, cLive,
  sKind, sPhase, sSlots, sCapacity, sSize, sLive, sAdded, sGiven,
  lKind, lPhase, lHead, lTail, lSize, lNext, lPrev, lCost, lLive,
  iPhase, iItems, iStored, iHealth, iMagicka, iAcquired, iUses,
  kKind, kPhase, kBuckets, kInserted, kAsked, kAnswer,
  kValue, kLeft, kRight, kUsed, kNode, kNew, kLive,
  eKind, ePhase, eFan, eMeant, eSrc, eDest, eSize, eId, eN, eLast, eTotal, eBatches,
  mPhase, mAdj, mDSU, mState, mOrder, mTask, mStack,
  uPhase, uSet, uJoined,
  wPhase, wMatrix, wQueue, wVisited, wStack, wStarts, wPrinted
-----------------------------------------------------------------------------
(* The programs on graphs and on forests that an array holds. *)

Make == INSTANCE MicroMake WITH
  VERTEX <- MakeTasks, MaxEdges <- MakeEdges, phase <- mPhase, adj_list <- mAdj, DSU <- mDSU,
  state <- mState, topo_order <- mOrder, task <- mTask, stack <- mStack
makeVars == <<mPhase, mAdj, mDSU, mState, mOrder, mTask, mStack>>

Sets == INSTANCE DisjointSubset WITH
  UNION_SET_SIZE <- UnionSize, phase <- uPhase, union_set <- uSet, joined <- uJoined
setsVars == <<uPhase, uSet, uJoined>>

Walk == INSTANCE Walks WITH
  matrix_size <- WalkSize, Starts <- WalkStarts, MaxWalks <- WalkCalls,
  phase <- wPhase, matrix <- wMatrix,
  queue <- wQueue, visited <- wVisited, stack <- wStack, starts <- wStarts,
  printed <- wPrinted
walkVars == <<wPhase, wMatrix, wQueue, wVisited, wStack, wStarts, wPrinted>>

ASSUME MakeAssumption == Make!MakeAssumption
ASSUME UnionAssumption == Sets!UnionAssumption
ASSUME WalkAssumption == Walk!WalkAssumption
-----------------------------------------------------------------------------
(* Proofs: the disjoint-set forest of disjoint_subset.c, for any number of  *)
(* nodes.                                                                   *)

\* A smallest of some numbers.
LEMMA LeastOf ==
  ASSUME NEW Bad, Bad \subseteq Nat, Bad # {}
  PROVE  \E k \in Bad : \A j \in Bad : k <= j
<1>1. PICK k \in Bad : \A j \in Bad : ~(<<j, k>> \in OpToRel(<, Nat))
  BY NatLessThanWellFounded, WFMin
<1>2. \A j \in Bad : <<j, k>> \in OpToRel(<, Nat) <=> j < k
  BY DEF OpToRel
<1>3. ASSUME NEW j \in Bad PROVE k <= j
  <2>1. ~(j < k)
    BY <1>1, <1>2
  <2>2. j \in Nat /\ k \in Nat
    OBVIOUS
  <2> QED BY <2>1, <2>2
<1> QED BY <1>3

(* Powers of two are the numbers of subsets: there are twice as many with one
   element more.                                                            *)
LEMMA PowersGrow ==
  ASSUME NEW n \in Nat
  PROVE  2 ^ n \in Nat /\ 2 ^ (n + 1) = 2 * 2 ^ n
<1> DEFINE S == 1 .. n
           x == n + 1
           A == SUBSET S
           B == {s \cup {x} : s \in A}
           f == [s \in A |-> s \cup {x}]
<1>1. IsFiniteSet(S) /\ Cardinality(S) = n
  BY FS_Interval
<1>2. x \notin S
  OBVIOUS
<1>3. IsFiniteSet(A) /\ Cardinality(A) = 2 ^ n
  BY <1>1, FS_SUBSET
<1>4. Cardinality(A) \in Nat
  BY <1>3, FS_CardinalityType
<1>5. IsFiniteSet(S \cup {x}) /\ Cardinality(S \cup {x}) = n + 1
  BY <1>1, <1>2, FS_AddElement
<1>6. Cardinality(SUBSET (S \cup {x})) = 2 ^ (n + 1)
  BY <1>5, FS_SUBSET
<1> HIDE DEF S, x
<1>7. f \in Bijection(A, B)
  <2>1. f \in [A -> B]
    OBVIOUS
  <2>2. \A s, t \in A : f[s] = f[t] => s = t
    BY <1>2
  <2>3. \A b \in B : \E s \in A : f[s] = b
    OBVIOUS
  <2> HIDE DEF A, B, f
  <2>4. f \in Injection(A, B)
    BY <2>1, <2>2 DEF Injection, IsInjective
  <2>5. f \in Surjection(A, B)
    BY <2>1, <2>3 DEF Surjection
  <2> QED BY <2>4, <2>5 DEF Bijection
<1>8. IsFiniteSet(B) /\ Cardinality(B) = Cardinality(A)
  <2> HIDE DEF A, B, f
  <2>1. ExistsBijection(A, B)
    BY <1>7 DEF ExistsBijection
  <2> QED BY <1>3, <2>1, FS_Bijection
<1>9. A \cup B = SUBSET (S \cup {x}) /\ A \cap B = {}
  <2>1. ASSUME NEW s \in SUBSET (S \cup {x}) PROVE s \in A \cup B
    <3>1. CASE x \in s
      <4>1. s = (s \ {x}) \cup {x} /\ s \ {x} \in A
        BY <3>1
      <4> QED BY <4>1
    <3>2. CASE x \notin s
      BY <3>2
    <3> QED BY <3>1, <3>2
  <2>2. A \cup B \subseteq SUBSET (S \cup {x})
    OBVIOUS
  <2>3. A \cap B = {}
    BY <1>2
  <2> HIDE DEF A, B
  <2> QED BY <2>1, <2>2, <2>3
<1> HIDE DEF A, B
<1>10. Cardinality(A \cup B) = Cardinality(A) + Cardinality(B)
  <2>1. Cardinality(A \cup B) = Cardinality(A) + Cardinality(B) - Cardinality(A \cap B)
    BY <1>3, <1>8, FS_Union
  <2>2. Cardinality(A \cap B) = 0
    BY <1>9, FS_EmptySet
  <2> QED BY <1>4, <1>8, <2>1, <2>2
<1>11. 2 ^ (n + 1) = Cardinality(A) + Cardinality(A)
  BY <1>6, <1>8, <1>9, <1>10
<1>12. PICK c \in Nat : c = Cardinality(A)
  BY <1>4
<1>13. c + c = 2 * c
  BY <1>12
<1> QED BY <1>3, <1>11, <1>12, <1>13

\* What is less than its power.
LEMMA BelowPower ==
  ASSUME NEW n \in Nat
  PROVE  n < 2 ^ n
<1> DEFINE Bad == {k \in Nat : ~(k < 2 ^ k)}
<1> SUFFICES ASSUME Bad # {} PROVE FALSE
  OBVIOUS
<1>1. PICK k \in Bad : \A j \in Bad : k <= j
  <2>1. Bad \subseteq Nat
    OBVIOUS
  <2> HIDE DEF Bad
  <2> QED BY <2>1, LeastOf
<1>2. k \in Nat /\ ~(k < 2 ^ k)
  OBVIOUS
<1>3. k # 0
  <2>1. SUFFICES ASSUME k = 0 PROVE FALSE
    OBVIOUS
  <2>2. 2 ^ 0 = 1
    OBVIOUS
  <2>3. ~(0 < 2 ^ 0)
    BY <1>2, <2>1
  <2> QED BY <2>2, <2>3
<1>4. PICK j \in Nat : k = j + 1
  <2>1. k - 1 \in Nat /\ k = (k - 1) + 1
    BY <1>2, <1>3
  <2> QED BY <2>1
<1>5. j \notin Bad
  BY <1>1, <1>4
<1>6. j < 2 ^ j
  BY <1>5
<1>7. PICK a \in Nat, b \in Nat : a = 2 ^ j /\ b = 2 ^ (j + 1) /\ b = 2 * a
  BY PowersGrow
<1>8. j + 1 < b
  BY <1>6, <1>7
<1> QED BY <1>2, <1>4, <1>7, <1>8

(* The loop of find, as a function of the array.                            *)
Entry(N) == 0 .. N - 1
PathStep(f, u, k, n) == IF k = 0 \/ u[n] < 0 THEN n ELSE f[k - 1][u[n]]
PathUpTo(N, f, u, m) == f = [k \in 0 .. m |-> [n \in Entry(N) |-> PathStep(f, u, k, n)]]
PathOf(N, u) == CHOOSE f : PathUpTo(N, f, u, N)
Parents(N) == [Entry(N) -> (-N .. -1) \cup Entry(N)]

(* Such a function exists for every length of the loop.                     *)
LEMMA PathExtends ==
  ASSUME NEW N \in Nat, NEW u \in Parents(N), NEW m \in Nat, NEW f, PathUpTo(N, f, u, m)
  PROVE  \E g : PathUpTo(N, g, u, m + 1)
<1> DEFINE g == [k \in 0 .. m + 1 |-> [n \in Entry(N) |-> PathStep(f, u, k, n)]]
<1>1. f = [k \in 0 .. m |-> [n \in Entry(N) |-> PathStep(f, u, k, n)]]
  BY DEF PathUpTo
<1>2. \A k \in 0 .. m, n \in Entry(N) : f[k][n] = PathStep(f, u, k, n)
  BY <1>1
<1>3. \A k \in 0 .. m + 1, n \in Entry(N) : g[k][n] = PathStep(f, u, k, n)
  OBVIOUS
<1>4. \A k \in 0 .. m, n \in Entry(N) : g[k][n] = f[k][n]
  BY <1>2, <1>3
<1>5. ASSUME NEW k \in 0 .. m + 1, NEW n \in Entry(N)
      PROVE  PathStep(f, u, k, n) = PathStep(g, u, k, n)
  <2> HIDE DEF g
  <2>1. CASE k = 0 \/ u[n] < 0
    BY <2>1 DEF PathStep
  <2>2. CASE ~(k = 0 \/ u[n] < 0)
    <3>1. k - 1 \in 0 .. m
      BY <2>2
    <3>2. u[n] \in Entry(N)
      BY <2>2 DEF Parents
    <3>3. g[k - 1][u[n]] = f[k - 1][u[n]]
      BY <1>4, <3>1, <3>2
    <3> QED BY <2>2, <3>3 DEF PathStep
  <2> QED BY <2>1, <2>2
<1>6. g = [k \in 0 .. m + 1 |-> [n \in Entry(N) |-> PathStep(g, u, k, n)]]
  BY <1>5
<1> HIDE DEF g
<1> QED BY <1>6 DEF PathUpTo

LEMMA PathDefined ==
  ASSUME NEW N \in Nat, NEW u \in Parents(N)
  PROVE  \A k \in 0 .. N, n \in Entry(N) : PathOf(N, u)[k][n] = PathStep(PathOf(N, u), u, k, n)
<1> DEFINE Bad == {m \in Nat : ~\E f : PathUpTo(N, f, u, m)}
<1>1. Bad = {}
  <2> SUFFICES ASSUME Bad # {} PROVE FALSE
    OBVIOUS
  <2>1. PICK m \in Bad : \A j \in Bad : m <= j
    <3>1. Bad \subseteq Nat
      OBVIOUS
    <3> HIDE DEF Bad
    <3> QED BY <3>1, LeastOf
  <2>2. m \in Nat /\ ~\E f : PathUpTo(N, f, u, m)
    OBVIOUS
  <2>3. CASE m = 0
    <3> DEFINE f == [k \in 0 .. 0 |-> [n \in Entry(N) |-> n]]
    <3>1. f = [k \in 0 .. 0 |-> [n \in Entry(N) |-> PathStep(f, u, k, n)]]
      BY DEF PathStep
    <3> HIDE DEF f
    <3> QED BY <2>2, <2>3, <3>1 DEF PathUpTo
  <2>4. CASE m # 0
    <3>1. PICK j \in Nat : m = j + 1
      <4>1. m - 1 \in Nat /\ m = (m - 1) + 1
        BY <2>2, <2>4
      <4> QED BY <4>1
    <3>2. ~(m <= j)
      BY <3>1
    <3>3. j \notin Bad
      BY <2>1, <3>2
    <3>4. \E f : PathUpTo(N, f, u, j)
      BY <3>3
    <3> HIDE DEF Bad
    <3> QED BY <2>2, <3>1, <3>4, PathExtends
  <2> QED BY <2>3, <2>4
<1>2. \E f : PathUpTo(N, f, u, N)
  BY <1>1
<1>3. PathUpTo(N, PathOf(N, u), u, N)
  BY <1>2 DEF PathOf
<1>4. PICK p : p = PathOf(N, u)
  OBVIOUS
<1>5. p = [k \in 0 .. N |-> [n \in Entry(N) |-> PathStep(p, u, k, n)]]
  BY <1>3, <1>4 DEF PathUpTo
<1>6. \A k \in 0 .. N, n \in Entry(N) : p[k][n] = PathStep(p, u, k, n)
  <2>1. PICK q : q = p
    OBVIOUS
  <2>2. p = [k \in 0 .. N |-> [n \in Entry(N) |-> PathStep(q, u, k, n)]]
    BY <1>5, <2>1
  <2>3. \A k \in 0 .. N, n \in Entry(N) : p[k][n] = PathStep(q, u, k, n)
    BY <2>2
  <2> QED BY <2>1, <2>3
<1> QED BY <1>4, <1>6

(* A forest: d is the distance of each node from its root, r is the root.   *)
Forest(N, u, d, r) ==
  /\ u \in Parents(N) /\ d \in [Entry(N) -> Nat] /\ r \in [Entry(N) -> Entry(N)]
  /\ \A n \in Entry(N) : u[n] < 0 => d[n] = 0 /\ r[n] = n
  /\ \A n \in Entry(N) : u[n] >= 0 => d[n] = d[u[n]] + 1 /\ r[n] = r[u[n]]

(* An entry is negative, or the number of a node.                           *)
LEMMA EntryKinds ==
  ASSUME NEW N \in Nat, NEW u \in Parents(N), NEW n \in Entry(N)
  PROVE  /\ u[n] \in Int /\ n \in Int
         /\ u[n] >= 0 => u[n] \in Entry(N)
         /\ u[n] < 0 => -u[n] \in 1 .. N
<1>1. N \in Nat
  OBVIOUS
<1>2. u[n] \in (-N .. -1) \cup Entry(N)
  BY DEF Parents
<1> QED BY <1>1, <1>2 DEF Entry

(* After k passes the loop of find is k nodes nearer to the root, or there.  *)
Climbed(N, u, d, r, k, n) ==
  LET p == PathOf(N, u)[k][n]
  IN  p \in Entry(N) /\ r[p] = r[n] /\ d[p] = IF d[n] < k THEN 0 ELSE d[n] - k

LEMMA ClimbsOn ==
  ASSUME NEW N \in Nat, NEW u, NEW d, NEW r, Forest(N, u, d, r), NEW j \in Nat, j + 1 <= N,
         \A n \in Entry(N) : Climbed(N, u, d, r, j, n), NEW n \in Entry(N)
  PROVE  Climbed(N, u, d, r, j + 1, n)
<1> DEFINE p == PathOf(N, u)[j + 1][n]
<1>1. u \in Parents(N) /\ d[n] \in Nat
  BY DEF Forest
<1>2. j + 1 \in 0 .. N /\ j + 1 # 0 /\ j + 1 - 1 = j
  OBVIOUS
<1>3. p = PathStep(PathOf(N, u), u, j + 1, n)
  BY <1>1, <1>2, PathDefined
<1>4. CASE u[n] < 0
  <2>1. p = n
    BY <1>3, <1>4 DEF PathStep
  <2>2. d[n] = 0
    BY <1>4 DEF Forest
  <2>3. 0 < j + 1
    OBVIOUS
  <2> HIDE DEF p
  <2>4. p \in Entry(N) /\ r[p] = r[n] /\ d[p] = IF d[n] < j + 1 THEN 0 ELSE d[n] - (j + 1)
    BY <2>1, <2>2, <2>3
  <2> QED BY <2>4 DEF Climbed, p
<1>5. CASE ~(u[n] < 0)
  <2>1. u[n] \in Entry(N) /\ u[n] >= 0
    BY <1>1, <1>5, EntryKinds
  <2>2. p = PathOf(N, u)[j][u[n]]
    BY <1>2, <1>3, <1>5 DEF PathStep
  <2>3. Climbed(N, u, d, r, j, u[n])
    BY <2>1
  <2> HIDE DEF p
  <2>4. p \in Entry(N) /\ r[p] = r[u[n]] /\ d[p] = IF d[u[n]] < j THEN 0 ELSE d[u[n]] - j
    BY <2>2, <2>3 DEF Climbed
  <2>5. d[n] = d[u[n]] + 1 /\ r[n] = r[u[n]] /\ d[u[n]] \in Nat /\ d[p] \in Nat
    BY <2>1, <2>4 DEF Forest
  <2>6. PICK x \in Nat, y \in Nat : x = d[u[n]] /\ y = d[p] /\ d[n] = x + 1
    BY <2>5
  <2>7. y = IF x < j THEN 0 ELSE x - j
    BY <2>4, <2>6
  <2>8. y = IF x + 1 < j + 1 THEN 0 ELSE x + 1 - (j + 1)
    BY <2>7
  <2>9. p \in Entry(N) /\ r[p] = r[n] /\ d[p] = IF d[n] < j + 1 THEN 0 ELSE d[n] - (j + 1)
    BY <2>4, <2>5, <2>6, <2>8
  <2> QED BY <2>9 DEF Climbed, p
<1> QED BY <1>4, <1>5

LEMMA Climbs ==
  ASSUME NEW N \in Nat, NEW u, NEW d, NEW r, Forest(N, u, d, r)
  PROVE  \A k \in 0 .. N, n \in Entry(N) : Climbed(N, u, d, r, k, n)
<1> DEFINE Bad == {k \in 0 .. N : ~\A n \in Entry(N) : Climbed(N, u, d, r, k, n)}
<1> SUFFICES ASSUME Bad # {} PROVE FALSE
  OBVIOUS
<1>0. N \in Nat
  OBVIOUS
<1>1. PICK k \in Bad : \A j \in Bad : k <= j
  <2>1. Bad \subseteq Nat
    BY <1>0
  <2> HIDE DEF Bad
  <2> QED BY <2>1, LeastOf
<1>2. k \in 0 .. N /\ ~\A n \in Entry(N) : Climbed(N, u, d, r, k, n)
  OBVIOUS
<1>3. CASE k = 0
  <2>1. ASSUME NEW n \in Entry(N) PROVE Climbed(N, u, d, r, 0, n)
    <3>1. u \in Parents(N) /\ d[n] \in Nat
      BY DEF Forest
    <3>2. 0 \in 0 .. N
      BY <1>0
    <3>3. PathOf(N, u)[0][n] = n
      BY <3>1, <3>2, PathDefined DEF PathStep
    <3>4. d[n] = IF d[n] < 0 THEN 0 ELSE d[n] - 0
      BY <3>1
    <3> QED BY <3>3, <3>4 DEF Climbed
  <2> QED BY <1>2, <1>3, <2>1
<1>4. CASE k # 0
  <2>1. PICK j \in Nat : k = j + 1
    <3>1. k - 1 \in Nat /\ k = (k - 1) + 1
      BY <1>0, <1>2, <1>4
    <3> QED BY <3>1
  <2>2. ~(k <= j) /\ j \in 0 .. N /\ j + 1 <= N
    BY <1>0, <1>2, <2>1
  <2>3. j \notin Bad
    BY <1>1, <2>2
  <2>4. \A n \in Entry(N) : Climbed(N, u, d, r, j, n)
    BY <2>2, <2>3
  <2> HIDE DEF Bad
  <2>5. \A n \in Entry(N) : Climbed(N, u, d, r, j + 1, n)
    BY <2>2, <2>4, ClimbsOn
  <2> QED BY <1>2, <2>1, <2>5
<1> QED BY <1>3, <1>4

Visited(N, u, n) == {PathOf(N, u)[k][n] : k \in 0 .. N}

\* A node at distance zero is a root, its own.
LEMMA RootsAtZero ==
  ASSUME NEW N \in Nat, NEW u, NEW d, NEW r, Forest(N, u, d, r), NEW n \in Entry(N)
  PROVE  /\ d[n] = 0 <=> u[n] < 0
         /\ d[n] = 0 => r[n] = n
<1>1. u \in Parents(N)
  BY DEF Forest
<1>2. CASE u[n] < 0
  BY <1>2 DEF Forest
<1>3. CASE ~(u[n] < 0)
  <2>1. u[n] >= 0 /\ u[n] \in Entry(N)
    BY <1>1, <1>3, EntryKinds
  <2>2. d[n] = d[u[n]] + 1 /\ d[u[n]] \in Nat
    BY <2>1 DEF Forest
  <2>3. d[n] # 0
    BY <2>2
  <2> QED BY <1>3, <2>3
<1> QED BY <1>2, <1>3

(* find leads to the root, and its loop makes as many passes as the node is
   away from it.                                                            *)
LEMMA FindsRoot ==
  ASSUME NEW N \in Nat, NEW u, NEW d, NEW r, Forest(N, u, d, r), NEW n \in Entry(N), d[n] <= N
  PROVE  /\ PathOf(N, u)[N][n] = r[n] /\ u[r[n]] < 0 /\ r[r[n]] = r[n]
         /\ Cardinality(Visited(N, u, n)) = d[n] + 1
<1> DEFINE P(k) == PathOf(N, u)[k][n]
           T == {P(k) : k \in 0 .. N}
<1>0. N \in Nat /\ d[n] \in Nat
  BY DEF Forest
<1>1. \A k \in 0 .. N :
        P(k) \in Entry(N) /\ r[P(k)] = r[n] /\ d[P(k)] = IF d[n] < k THEN 0 ELSE d[n] - k
  BY Climbs DEF Climbed
<1> HIDE DEF P
<1>2. ASSUME NEW k \in 0 .. N, d[n] <= k
      PROVE  P(k) = r[n] /\ d[P(k)] = 0
  <2>1. P(k) \in Entry(N) /\ r[P(k)] = r[n]
    BY <1>1
  <2>2. d[P(k)] = 0
    <3>1. PICK x \in Nat : x = d[n]
      BY <1>0
    <3>2. (IF x < k THEN 0 ELSE x - k) = 0
      BY <1>0, <1>2, <3>1
    <3> QED BY <1>1, <3>1, <3>2
  <2>3. r[P(k)] = P(k)
    BY <2>1, <2>2, RootsAtZero
  <2> QED BY <2>1, <2>2, <2>3
<1>3. P(N) = r[n] /\ d[r[n]] = 0 /\ r[n] \in Entry(N)
  <2>1. N \in 0 .. N
    BY <1>0
  <2> QED BY <1>1, <1>2, <2>1
<1>4. u[r[n]] < 0 /\ r[r[n]] = r[n]
  BY <1>3, RootsAtZero
<1>5. Cardinality(T) = d[n] + 1
  <2> DEFINE D == 0 .. d[n]
             f == [k \in D |-> P(k)]
  <2>1. \A k \in D : k \in 0 .. N /\ d[P(k)] = d[n] - k
    <3> SUFFICES ASSUME NEW k \in D PROVE k \in 0 .. N /\ d[P(k)] = d[n] - k
      OBVIOUS
    <3>1. PICK x \in Nat : x = d[n]
      BY <1>0
    <3>2. k \in 0 .. N /\ ~(x < k)
      BY <1>0, <3>1
    <3> QED BY <1>1, <3>1, <3>2
  <2>2. f \in [D -> T]
    BY <2>1
  <2>3. \A k, l \in D : f[k] = f[l] => k = l
    <3> SUFFICES ASSUME NEW k \in D, NEW l \in D, P(k) = P(l) PROVE k = l
      OBVIOUS
    <3>1. d[n] - k = d[n] - l
      BY <2>1
    <3> QED BY <1>0, <3>1
  <2>4. \A t \in T : \E k \in D : f[k] = t
    <3> SUFFICES ASSUME NEW k \in 0 .. N PROVE \E j \in D : P(j) = P(k)
      OBVIOUS
    <3>1. CASE k \in D
      BY <3>1
    <3>2. CASE k \notin D
      <4>1. d[n] <= k /\ d[n] \in 0 .. N /\ d[n] \in D
        BY <1>0, <3>2
      <4>2. P(k) = r[n]
        BY <1>2, <4>1
      <4>3. P(d[n]) = r[n]
        <5>1. d[n] <= d[n]
          BY <1>0
        <5> QED BY <1>2, <4>1, <5>1
      <4> QED BY <4>1, <4>2, <4>3
    <3> QED BY <3>1, <3>2
  <2>5. IsFiniteSet(D) /\ Cardinality(D) = d[n] + 1
    <3>1. PICK x \in Nat : x = d[n]
      BY <1>0
    <3>2. IsFiniteSet(0 .. x) /\ Cardinality(0 .. x) = x + 1
      BY FS_Interval
    <3> QED BY <3>1, <3>2
  <2> HIDE DEF D, T, f
  <2>6. f \in Bijection(D, T)
    BY <2>2, <2>3, <2>4 DEF Bijection, Injection, Surjection, IsInjective
  <2>7. ExistsBijection(D, T)
    BY <2>6 DEF ExistsBijection
  <2> QED BY <2>5, <2>7, FS_Bijection
<1> QED BY <1>3, <1>4, <1>5 DEF P, Visited

(* The trees: a root keeps the size of its tree, which is large enough for
   the depth of its nodes.                                                  *)
Class(N, r, q) == {n \in Entry(N) : r[n] = q}
Grown(N, u, d, r) ==
  /\ Forest(N, u, d, r)
  /\ \A n \in Entry(N) : 2 ^ d[n] <= -u[r[n]]
  /\ \A q \in Entry(N) : u[q] < 0 => Cardinality(Class(N, r, q)) = -u[q]

LEMMA ClassFinite ==
  ASSUME NEW N \in Nat, NEW r, NEW q
  PROVE  /\ IsFiniteSet(Entry(N)) /\ Cardinality(Entry(N)) = N
         /\ IsFiniteSet(Class(N, r, q)) /\ Cardinality(Class(N, r, q)) \in Nat
<1>1. N \in Nat
  OBVIOUS
<1>2. IsFiniteSet(Entry(N)) /\ Cardinality(Entry(N)) = N
  <2>1. PICK z \in Int, y \in Int : z = 0 /\ y = N - 1
    BY <1>1
  <2>2. IsFiniteSet(z .. y) /\ Cardinality(z .. y) = IF z > y THEN 0 ELSE y - z + 1
    BY FS_Interval
  <2>3. (IF z > y THEN 0 ELSE y - z + 1) = N
    BY <1>1, <2>1
  <2>4. Entry(N) = z .. y
    BY <2>1 DEF Entry
  <2> QED BY <2>2, <2>3, <2>4
<1>3. Class(N, r, q) \in SUBSET Entry(N)
  BY DEF Class
<1>4. IsFiniteSet(Class(N, r, q))
  BY <1>2, <1>3, FS_Subset
<1>5. Cardinality(Class(N, r, q)) \in Nat
  BY <1>4, FS_CardinalityType
<1> QED BY <1>2, <1>4, <1>5

(* No node is farther away than there are nodes, and find gets to its root.  *)
LEMMA FindsInTree ==
  ASSUME NEW N \in Nat, NEW u, NEW d, NEW r, Grown(N, u, d, r), NEW n \in Entry(N)
  PROVE  /\ PathOf(N, u)[N][n] = r[n] /\ u[r[n]] < 0 /\ r[r[n]] = r[n] /\ r[n] \in Entry(N)
         /\ Cardinality(Visited(N, u, n)) - 1 = d[n]
<1>1. Forest(N, u, d, r) /\ u \in Parents(N) /\ d[n] \in Nat /\ r[n] \in Entry(N)
  BY DEF Grown, Forest
<1>2. 2 ^ d[n] <= -u[r[n]]
  BY DEF Grown
<1>3. d[n] < 2 ^ d[n] /\ 2 ^ d[n] \in Nat
  BY <1>1, BelowPower, PowersGrow
<1>4. PICK x \in Nat, y \in Nat : x = d[n] /\ y = 2 ^ d[n]
  BY <1>1, <1>3
<1>5. PICK v \in Int : v = u[r[n]]
  BY <1>1, EntryKinds
<1>6. x < y /\ y <= -v
  BY <1>2, <1>3, <1>4, <1>5
<1>7. v < 0
  BY <1>6
<1>8. -v \in 1 .. N
  BY <1>1, <1>5, <1>7, EntryKinds
<1>9. N \in Nat
  OBVIOUS
<1>10. x <= N
  BY <1>6, <1>8, <1>9
<1>11. d[n] <= N
  BY <1>4, <1>10
<1>12. /\ PathOf(N, u)[N][n] = r[n] /\ u[r[n]] < 0 /\ r[r[n]] = r[n]
       /\ Cardinality(Visited(N, u, n)) = d[n] + 1
  BY <1>1, <1>11, FindsRoot
<1>13. x + 1 - 1 = x
  OBVIOUS
<1> QED BY <1>1, <1>4, <1>12, <1>13

(* A tree hung below the root of one that is no smaller.                    *)
Hung(u, a, b) == [u EXCEPT ![a] = @ + u[b], ![b] = a]
Deeper(N, d, r, b) == [n \in Entry(N) |-> IF r[n] = b THEN d[n] + 1 ELSE d[n]]
Moved(N, r, a, b) == [n \in Entry(N) |-> IF r[n] = b THEN a ELSE r[n]]

LEMMA TreesGrow ==
  ASSUME NEW N \in Nat, NEW u, NEW d, NEW r, Grown(N, u, d, r), NEW a \in Entry(N), NEW b \in Entry(N), a # b,
         u[a] < 0, u[b] < 0, u[a] <= u[b]
  PROVE  Grown(N, Hung(u, a, b), Deeper(N, d, r, b), Moved(N, r, a, b))
<1> DEFINE v == Hung(u, a, b)
           e == Deeper(N, d, r, b)
           s == Moved(N, r, a, b)
<1>0. N \in Nat
  OBVIOUS
<1>1. Forest(N, u, d, r) /\ u \in Parents(N) /\ d \in [Entry(N) -> Nat] /\ r \in [Entry(N) -> Entry(N)]
  BY DEF Grown, Forest
<1>2. /\ r[a] = a /\ r[b] = b /\ d[a] = 0 /\ d[b] = 0
      /\ Cardinality(Class(N, r, a)) = -u[a] /\ Cardinality(Class(N, r, b)) = -u[b]
  BY <1>1 DEF Grown, Forest
<1>3. /\ v[a] = u[a] + u[b] /\ v[b] = a
      /\ \A n \in Entry(N) : n # a /\ n # b => v[n] = u[n]
      /\ DOMAIN v = Entry(N)
  <2>1. DOMAIN u = Entry(N)
    BY <1>1 DEF Parents
  <2> QED BY <2>1 DEF Hung
<1>4. \A n \in Entry(N) : /\ e[n] = IF r[n] = b THEN d[n] + 1 ELSE d[n]
                       /\ s[n] = IF r[n] = b THEN a ELSE r[n]
  BY DEF Deeper, Moved
<1>5. e \in [Entry(N) -> Nat] /\ s \in [Entry(N) -> Entry(N)]
  BY <1>1 DEF Deeper, Moved
<1>6. /\ v = [n \in Entry(N) |-> v[n]]
  BY <1>1 DEF Hung, Parents
<1> HIDE DEF v, e, s
<1>7. /\ Class(N, s, a) = Class(N, r, a) \cup Class(N, r, b) /\ Class(N, r, a) \cap Class(N, r, b) = {}
      /\ \A q \in Entry(N) : q # a /\ q # b => Class(N, s, q) = Class(N, r, q)
  BY <1>4 DEF Class
<1>8. Cardinality(Class(N, s, a)) = -(u[a] + u[b])
  <2>1. IsFiniteSet(Class(N, r, a)) /\ IsFiniteSet(Class(N, r, b))
    BY ClassFinite
  <2>2. Cardinality(Class(N, r, a) \cup Class(N, r, b))
          = Cardinality(Class(N, r, a)) + Cardinality(Class(N, r, b))
            - Cardinality(Class(N, r, a) \cap Class(N, r, b))
    BY <2>1, FS_Union
  <2>3. Cardinality(Class(N, r, a) \cap Class(N, r, b)) = 0
    BY <1>7, FS_EmptySet
  <2>4. PICK x \in Int, y \in Int : x = u[a] /\ y = u[b]
    BY <1>1, EntryKinds
  <2>5. Cardinality(Class(N, s, a)) = -x + -y - 0
    BY <1>2, <1>7, <2>2, <2>3, <2>4
  <2>6. -x + -y - 0 = -(x + y)
    OBVIOUS
  <2> QED BY <2>4, <2>5, <2>6
<1>9. u[a] + u[b] \in -N .. -1
  <2>1. Class(N, s, a) \in SUBSET Entry(N) /\ IsFiniteSet(Entry(N)) /\ Cardinality(Entry(N)) = N
    BY ClassFinite DEF Class
  <2>2. Cardinality(Class(N, s, a)) <= N
    BY <2>1, FS_Subset
  <2>3. PICK x \in Int, y \in Int : x = u[a] /\ y = u[b]
    BY <1>1, EntryKinds
  <2>4. -(x + y) <= N /\ x < 0 /\ y < 0
    BY <1>8, <2>2, <2>3
  <2>5. x + y \in -N .. -1
    BY <1>0, <2>4
  <2> QED BY <2>3, <2>5
<1>10. v \in Parents(N)
  <2>1. ASSUME NEW n \in Entry(N) PROVE v[n] \in (-N .. -1) \cup Entry(N)
    BY <1>1, <1>3, <1>9 DEF Parents
  <2> QED BY <1>6, <2>1 DEF Parents
<1>11. ASSUME NEW n \in Entry(N), v[n] < 0 PROVE e[n] = 0 /\ s[n] = n /\ n # b
  <2>1. n # b
    <3>1. a >= 0
      BY <1>0 DEF Entry
    <3>2. a \in Int
      BY <1>1, EntryKinds
    <3>3. ~(a < 0)
      BY <3>1, <3>2
    <3> QED BY <1>3, <1>11, <3>3
  <2>2. CASE n = a
    BY <1>2, <1>4, <2>2
  <2>3. CASE n # a
    <3>1. u[n] < 0
      BY <1>3, <1>11, <2>1, <2>3
    <3>2. d[n] = 0 /\ r[n] = n
      BY <1>1, <3>1 DEF Forest
    <3> QED BY <1>4, <2>1, <3>2
  <2> QED BY <2>1, <2>2, <2>3
<1>12. ASSUME NEW n \in Entry(N), v[n] >= 0 PROVE e[n] = e[v[n]] + 1 /\ s[n] = s[v[n]]
  <2>1. n # a
    <3>1. PICK z \in Int : z = u[a] + u[b] /\ z < 0
      BY <1>0, <1>9
    <3> QED BY <1>3, <1>12, <3>1
  <2>2. CASE n = b
    <3>1. e[n] = 1 /\ s[n] = a
      <4>1. e[n] = d[b] + 1
        BY <1>2, <1>4, <2>2
      <4> QED BY <1>2, <1>4, <2>2, <4>1
    <3>2. v[n] = a /\ e[a] = 0 /\ s[a] = a
      BY <1>2, <1>3, <1>4, <2>2
    <3> QED BY <3>1, <3>2
  <2>3. CASE n # b
    <3>1. v[n] = u[n] /\ u[n] >= 0
      BY <1>3, <1>12, <2>1, <2>3
    <3>2. u[n] \in Entry(N)
      BY <1>1, <3>1, EntryKinds
    <3>3. d[n] = d[u[n]] + 1 /\ r[n] = r[u[n]]
      BY <1>1, <3>1 DEF Forest
    <3>4. s[n] = s[u[n]]
      BY <1>4, <3>2, <3>3
    <3>5. e[n] = e[u[n]] + 1
      <4>1. CASE r[n] = b
        <5>1. e[n] = d[n] + 1 /\ e[u[n]] = d[u[n]] + 1
          BY <1>4, <3>2, <3>3, <4>1
        <5> QED BY <3>3, <5>1
      <4>2. CASE r[n] # b
        <5>1. e[n] = d[n] /\ e[u[n]] = d[u[n]]
          BY <1>4, <3>2, <3>3, <4>2
        <5> QED BY <3>3, <5>1
      <4> QED BY <4>1, <4>2
    <3> QED BY <3>1, <3>4, <3>5
  <2> QED BY <2>2, <2>3
<1>13. Forest(N, v, e, s)
  BY <1>5, <1>10, <1>11, <1>12 DEF Forest
<1>14. ASSUME NEW n \in Entry(N) PROVE 2 ^ e[n] <= -v[s[n]]
  <2>1. 2 ^ d[n] <= -u[r[n]] /\ d[n] \in Nat /\ r[n] \in Entry(N)
    BY <1>1 DEF Grown
  <2>2. 2 ^ d[n] \in Nat /\ 2 ^ (d[n] + 1) = 2 * 2 ^ d[n]
    BY <2>1, PowersGrow
  <2>3. PICK p \in Nat, x \in Int, y \in Int : p = 2 ^ d[n] /\ x = u[a] /\ y = u[b]
    BY <1>1, <2>2, EntryKinds
  <2>4. x < 0 /\ y < 0 /\ x <= y
    BY <2>3
  <2>5. CASE r[n] = b
    <3>1. e[n] = d[n] + 1 /\ s[n] = a /\ v[s[n]] = x + y
      BY <1>3, <1>4, <2>3, <2>5
    <3>2. p <= -y
      BY <2>1, <2>3, <2>5
    <3>3. 2 * p <= -(x + y)
      BY <2>4, <3>2
    <3>4. 2 ^ e[n] = 2 * p
      BY <2>2, <2>3, <3>1
    <3> QED BY <3>1, <3>3, <3>4
  <2>6. CASE r[n] = a
    <3>1. e[n] = d[n] /\ s[n] = a /\ v[s[n]] = x + y
      BY <1>3, <1>4, <2>3, <2>6
    <3>2. p <= -x
      BY <2>1, <2>3, <2>6
    <3>3. p <= -(x + y)
      BY <2>4, <3>2
    <3> QED BY <2>3, <3>1, <3>3
  <2>7. CASE r[n] # a /\ r[n] # b
    <3>1. e[n] = d[n] /\ s[n] = r[n] /\ v[s[n]] = u[r[n]]
      BY <1>3, <1>4, <2>1, <2>7
    <3> QED BY <2>1, <3>1
  <2> QED BY <2>5, <2>6, <2>7
<1>15. ASSUME NEW q \in Entry(N), v[q] < 0 PROVE Cardinality(Class(N, s, q)) = -v[q]
  <2>1. q # b
    BY <1>11, <1>15
  <2>2. CASE q = a
    BY <1>3, <1>8, <2>2
  <2>3. CASE q # a
    <3>1. v[q] = u[q] /\ Class(N, s, q) = Class(N, r, q)
      BY <1>3, <1>7, <2>1, <2>3
    <3> QED BY <1>15, <3>1 DEF Grown
  <2> QED BY <2>2, <2>3
<1> QED BY <1>13, <1>14, <1>15 DEF Grown, v, e, s

(* Trees join what the pairs join, and no more: a set that no pair leaves is
   one of whole trees.                                                      *)
Pairs(N) == SUBSET (Entry(N) \X Entry(N))
Unsplit(J, S) == \A p \in J : p[1] \in S <=> p[2] \in S
Together(N, J, r) ==
  /\ \A p \in J : r[p[1]] = r[p[2]]
  /\ \A S \in SUBSET Entry(N) : Unsplit(J, S) =>
       \A m, n \in Entry(N) : r[m] = r[n] => (m \in S <=> n \in S)

LEMMA PairAdded ==
  ASSUME NEW N \in Nat, NEW J \in Pairs(N), NEW r, Together(N, J, r),
         NEW m \in Entry(N), NEW n \in Entry(N), NEW s,
         NEW a, NEW b, (a = r[m] /\ b = r[n]) \/ (a = r[n] /\ b = r[m]),
         \A k \in Entry(N) : s[k] = IF r[k] = b THEN a ELSE r[k]
  PROVE  Together(N, J \cup {<<m, n>>}, s)
<1> DEFINE K == J \cup {<<m, n>>}
<1>1. ASSUME NEW p \in K PROVE s[p[1]] = s[p[2]]
  <2>1. CASE p \in J
    <3>1. r[p[1]] = r[p[2]] /\ p[1] \in Entry(N) /\ p[2] \in Entry(N)
      BY <2>1 DEF Together, Pairs
    <3> QED BY <2>1, <3>1
  <2>2. CASE p = <<m, n>>
    BY <2>2
  <2> QED BY <2>1, <2>2
<1>2. ASSUME NEW S \in SUBSET Entry(N), Unsplit(K, S), NEW k \in Entry(N), NEW l \in Entry(N), s[k] = s[l]
      PROVE  k \in S <=> l \in S
  <2>1. Unsplit(J, S) /\ (m \in S <=> n \in S)
    <3>1. \A p \in J : p[1] \in S <=> p[2] \in S
      BY <1>2 DEF Unsplit
    <3>2. <<m, n>> \in K
      OBVIOUS
    <3>3. m \in S <=> n \in S
      BY <1>2, <3>2 DEF Unsplit
    <3> QED BY <3>1, <3>3 DEF Unsplit
  <2>2. \A x, y \in Entry(N) : r[x] = r[y] => (x \in S <=> y \in S)
    BY <2>1 DEF Together
  <2>3. s[k] = (IF r[k] = b THEN a ELSE r[k]) /\ s[l] = (IF r[l] = b THEN a ELSE r[l])
    OBVIOUS
  <2>4. CASE r[k] = r[l]
    BY <2>2, <2>4
  <2>5. CASE r[k] = b /\ r[l] = a
    BY <2>1, <2>2, <2>5
  <2>6. CASE r[k] = a /\ r[l] = b
    BY <2>1, <2>2, <2>6
  <2> QED BY <1>2, <2>3, <2>4, <2>5, <2>6
<1> HIDE DEF K
<1>3. Together(N, K, s)
  BY <1>1, <1>2 DEF Together
<1> QED BY <1>3 DEF K

RootsOf(N, u) == {n \in Entry(N) : u[n] < 0}

(* Every node is a tree of its own at first.                                *)
LEMMA FirstTrees ==
  ASSUME NEW N \in Nat, NEW u, u = [n \in Entry(N) |-> -1]
  PROVE  /\ \E d, r : Grown(N, u, d, r) /\ Together(N, {}, r)
         /\ RootsOf(N, u) = Entry(N)
<1>1. u = [n \in Entry(N) |-> -1]
  OBVIOUS
<1>2. N \in Nat
  OBVIOUS
<1> DEFINE d == [n \in Entry(N) |-> 0]
           r == [n \in Entry(N) |-> n]
<1>3. \A n \in Entry(N) : u[n] = -1 /\ d[n] = 0 /\ r[n] = n
  BY <1>1
<1>4. Forest(N, u, d, r)
  <2>1. ASSUME Entry(N) # {} PROVE -1 \in -N .. -1
    <3>1. N >= 1
      BY <1>2, <2>1 DEF Entry
    <3> QED BY <1>2, <3>1
  <2>2. u \in Parents(N)
    BY <1>1, <2>1 DEF Parents
  <2> QED BY <1>3, <2>2 DEF Forest
<1>5. Grown(N, u, d, r)
  <2>1. ASSUME NEW n \in Entry(N) PROVE 2 ^ d[n] <= -u[r[n]]
    <3>1. 2 ^ 0 = 1
      OBVIOUS
    <3>2. 2 ^ d[n] = 2 ^ 0
      BY <1>3
    <3>3. PICK x \in Int, p \in Int : x = u[n] /\ p = 2 ^ 0 /\ x = -1 /\ p = 1
      BY <1>3, <3>1
    <3>4. p <= -x
      BY <3>3
    <3>5. r[n] = n
      BY <1>3
    <3> QED BY <3>2, <3>3, <3>4, <3>5
  <2>2. ASSUME NEW q \in Entry(N) PROVE Cardinality(Class(N, r, q)) = -u[q]
    <3>1. Class(N, r, q) = {q}
      BY <1>3 DEF Class
    <3>2. Cardinality({q}) = 1
      BY FS_Singleton
    <3> QED BY <1>3, <3>1, <3>2
  <2> QED BY <1>4, <2>1, <2>2 DEF Grown
<1>6. Together(N, {}, r)
  BY <1>3 DEF Together
<1>7. RootsOf(N, u) = Entry(N)
  BY <1>3 DEF RootsOf
<1> HIDE DEF d, r
<1> QED BY <1>5, <1>6, <1>7

(* A pair of one tree adds nothing.                                         *)
LEMMA SameTree ==
  ASSUME NEW N \in Nat, NEW J \in Pairs(N), NEW r, Together(N, J, r), NEW m \in Entry(N), NEW n \in Entry(N),
         r[m] = r[n]
  PROVE  Together(N, J \cup {<<m, n>>}, r)
<1>1. \A k \in Entry(N) : r[k] = IF r[k] = r[n] THEN r[m] ELSE r[k]
  OBVIOUS
<1> QED BY <1>1, PairAdded

(* The smaller of two trees is hung below the other.                        *)
Union(u, a, b) == IF u[a] <= u[b] THEN Hung(u, a, b) ELSE Hung(u, b, a)

LEMMA TreesJoin ==
  ASSUME NEW N \in Nat, NEW u, NEW d, NEW r, Grown(N, u, d, r), NEW J \in Pairs(N), Together(N, J, r),
         NEW m \in Entry(N), NEW n \in Entry(N), r[m] # r[n],
         NEW v, v = Union(u, r[m], r[n])
  PROVE  /\ \E e, s : Grown(N, v, e, s) /\ Together(N, J \cup {<<m, n>>}, s)
         /\ \E b \in RootsOf(N, u) : RootsOf(N, v) = RootsOf(N, u) \ {b}
<1>1. u \in Parents(N) /\ \A k \in Entry(N) : r[k] \in Entry(N) /\ u[r[k]] < 0
  BY FindsInTree DEF Grown, Forest
<1>2. PICK a, b : /\ \/ a = r[m] /\ b = r[n] 
                     \/ a = r[n] /\ b = r[m]
                  /\ u[a] <= u[b] /\ v = Hung(u, a, b)
  <2>1. PICK x \in Int, y \in Int : x = u[r[m]] /\ y = u[r[n]]
    BY <1>1, EntryKinds
  <2>2. x <= y \/ y <= x
    OBVIOUS
  <2>3. CASE u[r[m]] <= u[r[n]]
    BY <2>3 DEF Union
  <2>4. CASE ~(u[r[m]] <= u[r[n]])
    <3>1. v = Hung(u, r[n], r[m])
      BY <2>4 DEF Union
    <3>2. u[r[n]] <= u[r[m]]
      BY <2>1, <2>2, <2>4
    <3> QED BY <3>1, <3>2
  <2> QED BY <2>3, <2>4
<1>3. a \in Entry(N) /\ b \in Entry(N) /\ a # b /\ u[a] < 0 /\ u[b] < 0
  BY <1>1, <1>2
<1>4. Grown(N, v, Deeper(N, d, r, b), Moved(N, r, a, b))
  BY <1>2, <1>3, TreesGrow
<1>5. Together(N, J \cup {<<m, n>>}, Moved(N, r, a, b))
  <2>1. \A k \in Entry(N) : Moved(N, r, a, b)[k] = IF r[k] = b THEN a ELSE r[k]
    BY DEF Moved
  <2>2. PICK s : s = Moved(N, r, a, b)
    OBVIOUS
  <2> QED BY <1>2, <2>1, <2>2, PairAdded
<1>6. RootsOf(N, v) = RootsOf(N, u) \ {b} /\ b \in RootsOf(N, u)
  <2>1. DOMAIN u = Entry(N)
    BY <1>1 DEF Parents
  <2>2. /\ v[a] = u[a] + u[b] /\ v[b] = a
        /\ \A k \in Entry(N) : k # a /\ k # b => v[k] = u[k]
    BY <1>2, <1>3, <2>1 DEF Hung
  <2>3. v[a] < 0 /\ ~(v[b] < 0)
    <3>1. PICK x \in Int, y \in Int : x = u[a] /\ y = u[b]
      BY <1>1, <1>3, EntryKinds
    <3>2. x + y < 0
      BY <1>3, <3>1
    <3>3. a \in Int /\ a >= 0
      BY <1>3 DEF Entry
    <3> QED BY <2>2, <3>1, <3>2, <3>3
  <2> QED BY <1>3, <2>2, <2>3 DEF RootsOf
<1> QED BY <1>4, <1>5, <1>6

(* A tree is a set that no pair leaves, and none of its parts is.           *)
LEMMA TreesSeparate ==
  ASSUME NEW N \in Nat, NEW u, NEW d, NEW r, Grown(N, u, d, r), NEW J \in Pairs(N), Together(N, J, r), NEW q \in RootsOf(N, u)
  PROVE  /\ Cardinality(Class(N, r, q)) = -u[q]
         /\ Unsplit(J, Class(N, r, q))
         /\ \A S \in SUBSET Class(N, r, q) : Unsplit(J, S) => S \in {{}, Class(N, r, q)}
<1>1. q \in Entry(N) /\ u[q] < 0
  BY DEF RootsOf
<1>2. Cardinality(Class(N, r, q)) = -u[q]
  BY <1>1 DEF Grown
<1>3. Unsplit(J, Class(N, r, q))
  <2>1. \A p \in J : p[1] \in Entry(N) /\ p[2] \in Entry(N) /\ r[p[1]] = r[p[2]]
    BY DEF Together, Pairs
  <2> QED BY <2>1 DEF Unsplit, Class
<1>4. ASSUME NEW S \in SUBSET Class(N, r, q), Unsplit(J, S), S # {}
      PROVE  S = Class(N, r, q)
  <2>1. S \in SUBSET Entry(N) /\ \A n \in S : n \in Entry(N) /\ r[n] = q
    BY DEF Class
  <2>2. \A m, n \in Entry(N) : r[m] = r[n] => (m \in S <=> n \in S)
    BY <1>4, <2>1 DEF Together
  <2>3. PICK m : m \in S
    BY <1>4
  <2>4. ASSUME NEW n \in Class(N, r, q) PROVE n \in S
    <3>1. n \in Entry(N) /\ r[n] = q
      BY DEF Class
    <3> QED BY <2>1, <2>2, <2>3, <3>1
  <2> QED BY <2>4
<1> QED BY <1>2, <1>3, <1>4

(* The loop of find in DisjointSubset.                                      *)
LEMMA SetsPath == Sets!Path = PathOf(UnionSize, uSet)
BY DEF Sets!Path, PathOf, PathUpTo, PathStep, Sets!Entries, Entry

SetsInv ==
  /\ uPhase \in {"running", "exited"}
  /\ uJoined \in Pairs(UnionSize)
  /\ \E d, r : Grown(UnionSize, uSet, d, r) /\ Together(UnionSize, uJoined, r)
  /\ uPhase = "running" =>
       Cardinality(uJoined) + Cardinality(RootsOf(UnionSize, uSet)) = UnionSize

LEMMA SetsInit == Sets!Init => SetsInv
<1> SUFFICES ASSUME Sets!Init PROVE SetsInv
  OBVIOUS
<1>1. uPhase = "running" /\ uSet = [n \in Entry(UnionSize) |-> -1] /\ uJoined = {}
  BY DEF Sets!Init, Sets!Entries, Entry
<1>2. UnionSize \in Nat
  BY UnionAssumption DEF Sets!UnionAssumption
<1>3. /\ \E d, r : Grown(UnionSize, uSet, d, r) /\ Together(UnionSize, {}, r)
      /\ RootsOf(UnionSize, uSet) = Entry(UnionSize)
  BY <1>1, <1>2, FirstTrees
<1>4. Cardinality(Entry(UnionSize)) = UnionSize /\ Cardinality(uJoined) = 0
  BY <1>1, <1>2, ClassFinite, FS_EmptySet
<1>5. Cardinality(uJoined) + Cardinality(RootsOf(UnionSize, uSet)) = UnionSize
  BY <1>2, <1>3, <1>4
<1>6. uJoined \in Pairs(UnionSize)
  BY <1>1 DEF Pairs
<1> QED BY <1>1, <1>3, <1>5, <1>6 DEF SetsInv

\* What find finds.
LEMMA SetsFind ==
  ASSUME NEW d, NEW r, Grown(UnionSize, uSet, d, r), NEW n \in Entry(UnionSize)
  PROVE  /\ Sets!find(n) = r[n] /\ r[n] \in Entry(UnionSize) /\ uSet[r[n]] < 0
         /\ Sets!Depth(n) = d[n]
<1>1. UnionSize \in Nat
  BY UnionAssumption DEF Sets!UnionAssumption
<1>2. /\ PathOf(UnionSize, uSet)[UnionSize][n] = r[n] /\ uSet[r[n]] < 0
      /\ r[n] \in Entry(UnionSize)
      /\ Cardinality(Visited(UnionSize, uSet, n)) - 1 = d[n]
  BY <1>1, FindsInTree
<1> QED BY <1>2, SetsPath DEF Sets!find, Sets!Depth, Visited, Sets!Cardinality, Cardinality

(* A pair of one tree ends the program; another hangs the smaller tree of its
   two below the bigger one.                                                *)
LEMMA SetsJoins ==
  ASSUME SetsInv, NEW m \in Entry(UnionSize), NEW n \in Entry(UnionSize), Sets!set_union(m, n)
  PROVE  SetsInv'
<1>0. UnionSize \in Nat
  BY UnionAssumption DEF Sets!UnionAssumption
<1>1. PICK d, r : Grown(UnionSize, uSet, d, r) /\ Together(UnionSize, uJoined, r)
  BY DEF SetsInv
<1>2. Sets!find(m) = r[m] /\ Sets!find(n) = r[n]
  BY <1>1, SetsFind
<1>3. uJoined \in Pairs(UnionSize)
  BY DEF SetsInv
<1>4. /\ uJoined' = uJoined \cup {<<m, n>>} /\ uPhase = "running"
      /\ uJoined' \in Pairs(UnionSize)
  BY <1>3 DEF Sets!set_union, Pairs
<1>6. CASE r[m] = r[n]
  <2>1. uPhase' = "exited" /\ uSet' = uSet
    BY <1>2, <1>6 DEF Sets!set_union, Sets!Connected
  <2>2. Together(UnionSize, uJoined', r)
    BY <1>0, <1>1, <1>4, <1>3, <1>6, SameTree
  <2> QED BY <1>1, <1>4, <2>1, <2>2 DEF SetsInv
<1>7. CASE r[m] # r[n]
  <2>1. uPhase' = "running" /\ uSet' = Union(uSet, r[m], r[n])
    BY <1>2, <1>4, <1>7
       DEF Sets!set_union, Sets!Connected, Sets!BiggerFirst, Sets!Attach, Union, Hung
  <2>2. PICK v : v = uSet'
    OBVIOUS
  <2>3. /\ \E e, s : Grown(UnionSize, v, e, s) /\ Together(UnionSize, uJoined', s)
        /\ \E b \in RootsOf(UnionSize, uSet) :
             RootsOf(UnionSize, v) = RootsOf(UnionSize, uSet) \ {b}
    <3>1. v = Union(uSet, r[m], r[n])
      BY <2>1, <2>2
    <3>2. /\ \E e, s : Grown(UnionSize, v, e, s) /\ Together(UnionSize, uJoined \cup {<<m, n>>}, s)
          /\ \E b \in RootsOf(UnionSize, uSet) :
               RootsOf(UnionSize, v) = RootsOf(UnionSize, uSet) \ {b}
      BY <1>0, <1>1, <1>3, <1>7, <3>1, TreesJoin
    <3> QED BY <1>4, <3>2
  <2>4. Cardinality(uJoined') = Cardinality(uJoined) + 1 /\ Cardinality(uJoined) \in Nat
    <3>1. <<m, n>> \notin uJoined
      BY <1>1, <1>7 DEF Together
    <3>2. IsFiniteSet(Entry(UnionSize) \X Entry(UnionSize))
      BY <1>0, ClassFinite, FS_Product
    <3>3. IsFiniteSet(uJoined) /\ Cardinality(uJoined) \in Nat
      <4>1. uJoined \in SUBSET (Entry(UnionSize) \X Entry(UnionSize))
        BY <1>3 DEF Pairs
      <4> QED BY <3>2, <4>1, FS_Subset, FS_CardinalityType
    <3> QED BY <1>4, <3>1, <3>3, FS_AddElement
  <2>5. /\ Cardinality(RootsOf(UnionSize, v)) = Cardinality(RootsOf(UnionSize, uSet)) - 1
        /\ Cardinality(RootsOf(UnionSize, uSet)) \in Nat
    <3>1. RootsOf(UnionSize, uSet) \in SUBSET Entry(UnionSize)
      BY DEF RootsOf
    <3>2. IsFiniteSet(RootsOf(UnionSize, uSet)) /\ Cardinality(RootsOf(UnionSize, uSet)) \in Nat
      BY <1>0, <3>1, ClassFinite, FS_Subset, FS_CardinalityType
    <3> QED BY <2>3, <3>2, FS_RemoveElement
  <2>6. PICK x \in Nat, y \in Nat : /\ x = Cardinality(uJoined)
                                    /\ y = Cardinality(RootsOf(UnionSize, uSet))
    BY <2>4, <2>5
  <2>7. x + y = UnionSize
    BY <1>4, <2>6 DEF SetsInv
  <2>8. (x + 1) + (y - 1) = x + y
    OBVIOUS
  <2>9. Cardinality(uJoined') + Cardinality(RootsOf(UnionSize, v)) = UnionSize
    BY <2>4, <2>5, <2>6, <2>7, <2>8
  <2> QED BY <1>4, <2>1, <2>2, <2>3, <2>9 DEF SetsInv
<1> QED BY <1>6, <1>7

LEMMA SetsStep == SetsInv /\ [Sets!Next]_(Sets!vars) => SetsInv'
<1> SUFFICES ASSUME SetsInv, [Sets!Next]_(Sets!vars) PROVE SetsInv'
  OBVIOUS
<1>1. ASSUME NEW m \in Entry(UnionSize), NEW n \in Entry(UnionSize), Sets!set_union(m, n)
      PROVE  SetsInv'
  BY <1>1, SetsJoins
<1>2. ASSUME UNCHANGED Sets!vars PROVE SetsInv'
  BY <1>2 DEF Sets!vars, SetsInv
<1> QED BY <1>1, <1>2 DEF Sets!Next, Sets!Terminated, Sets!Entries, Entry

(* The trees are the sets the pairs join, they have the sizes at their roots
   and find's loop is short in them.                                        *)
LEMMA SetsSound ==
  ASSUME SetsInv
  PROVE  Sets!TypeOK /\ Sets!TreesAreSets /\ Sets!EndsAtCycle /\ Sets!FindIsShort
<1>0. UnionSize \in Nat
  BY UnionAssumption DEF Sets!UnionAssumption
<1>1. PICK d, r : Grown(UnionSize, uSet, d, r) /\ Together(UnionSize, uJoined, r)
  BY DEF SetsInv
<1>2. \A n \in Entry(UnionSize) : /\ Sets!find(n) = r[n] /\ r[n] \in Entry(UnionSize)
                                  /\ uSet[r[n]] < 0 /\ Sets!Depth(n) = d[n]
  BY <1>1, SetsFind
<1>3. Sets!TypeOK
  BY <1>1 DEF SetsInv, Pairs, Sets!TypeOK, Grown, Forest, Parents, Entry, Sets!Entries
<1>4. /\ Sets!Roots = RootsOf(UnionSize, uSet)
      /\ \A q : Sets!Tree(q) = Class(UnionSize, r, q)
  BY <1>2 DEF Sets!Roots, RootsOf, Entry, Sets!Entries, Sets!Tree, Class
<1>5. \A S : Sets!Separate(S) <=> Unsplit(uJoined, S)
  BY DEF Sets!Separate, Unsplit
<1>6. \A S : Sets!Cardinality(S) = Cardinality(S)
  BY DEF Sets!Cardinality, Cardinality
<1>7. Sets!TreesAreSets
  <2>1. ASSUME NEW n \in Entry(UnionSize) PROVE Sets!find(n) \in RootsOf(UnionSize, uSet)
    BY <1>2 DEF RootsOf
  <2>2. uJoined \in Pairs(UnionSize)
    BY DEF SetsInv
  <2>3. ASSUME NEW q \in RootsOf(UnionSize, uSet)
        PROVE  /\ Cardinality(Class(UnionSize, r, q)) = -uSet[q]
               /\ Unsplit(uJoined, Class(UnionSize, r, q))
               /\ \A S \in SUBSET Class(UnionSize, r, q) :
                    Unsplit(uJoined, S) => S \in {{}, Class(UnionSize, r, q)}
    BY <1>0, <1>1, <2>2, TreesSeparate
  <2>4. ASSUME NEW q \in Sets!Roots
        PROVE  /\ Sets!Cardinality(Sets!Tree(q)) = -uSet[q]
               /\ Sets!Separate(Sets!Tree(q))
               /\ \A S \in SUBSET Sets!Tree(q) : Sets!Separate(S) => S \in {{}, Sets!Tree(q)}
    BY <1>4, <1>5, <1>6, <2>3
  <2> QED BY <1>4, <2>1, <2>4 DEF Sets!TreesAreSets, Entry, Sets!Entries
<1>8. Sets!EndsAtCycle
  BY <1>4, <1>6 DEF SetsInv, Sets!EndsAtCycle
<1>9. Sets!FindIsShort
  <2>1. ASSUME NEW n \in Entry(UnionSize) PROVE 2 ^ Sets!Depth(n) <= -uSet[Sets!find(n)]
    <3>1. 2 ^ d[n] <= -uSet[r[n]]
      BY <1>1 DEF Grown
    <3> QED BY <1>2, <3>1
  <2> QED BY <2>1 DEF Sets!FindIsShort, Entry, Sets!Entries
<1> QED BY <1>3, <1>7, <1>8, <1>9

(* For any number of nodes and any pairs, the trees of disjoint_subset.c are
   the sets that set_union has joined, a root holds the size of its tree, the
   program ends at the first pair that closes a cycle, and a node d passes
   of find's loop away from its root is in a tree of 2^d nodes at least.    *)
THEOREM ForestIsSound ==
  Sets!Spec => [](Sets!TypeOK /\ Sets!TreesAreSets /\ Sets!EndsAtCycle /\ Sets!FindIsShort)
<1> QED BY SetsInit, SetsStep, SetsSound, PTL DEF Sets!Spec
-----------------------------------------------------------------------------
(* Proofs: the clusters of micro-make.c and its search, for any number of   *)
(* tasks and any dependencies.                                              *)

TaskSet == Entry(MakeTasks)

LEMMA MakePath == Make!Climb = PathOf(MakeTasks, mDSU)
BY DEF Make!Climb, PathOf, PathUpTo, PathStep, Make!Tasks, Entry

\* The dependencies as pairs.
Needs(l, t) == {l[t][k] : k \in 1 .. Len(l[t])}
PairsOf(l) == {e \in TaskSet \X TaskSet : e[2] \in Needs(l, e[1])}

LEMMA MakeEdgesAre == Make!Edges = PairsOf(mAdj)
BY DEF Make!Edges, PairsOf, Make!Tasks, TaskSet, Entry, Make!ToSet, Needs

\* The trees of the forest are what the dependencies added so far connect.
ClustersInv ==
  /\ mAdj \in [TaskSet -> Seq(TaskSet)]
  /\ \E d, r : Grown(MakeTasks, mDSU, d, r) /\ Together(MakeTasks, PairsOf(mAdj), r)

LEMMA MakeInit == Make!Init => ClustersInv
<1> SUFFICES ASSUME Make!Init PROVE ClustersInv
  OBVIOUS
<1>1. /\ mAdj = [t \in TaskSet |-> <<>>] /\ mDSU = [t \in Entry(MakeTasks) |-> -1]
  BY DEF Make!Init, Make!Tasks, TaskSet, Entry
<1>2. mAdj \in [TaskSet -> Seq(TaskSet)]
  BY <1>1
<1>3. PairsOf(mAdj) = {}
  <2>1. \A t \in TaskSet : Len(mAdj[t]) = 0
    BY <1>1
  <2>2. \A t \in TaskSet : Needs(mAdj, t) = {}
    BY <2>1 DEF Needs
  <2> QED BY <2>2 DEF PairsOf
<1>4. MakeTasks \in Nat
  BY MakeAssumption DEF Make!MakeAssumption
<1> QED BY <1>1, <1>2, <1>3, <1>4, FirstTrees DEF ClustersInv

LEMMA MakeFind ==
  ASSUME NEW d, NEW r, Grown(MakeTasks, mDSU, d, r), NEW t \in TaskSet
  PROVE  Make!find(t) = r[t] /\ r[t] \in TaskSet /\ mDSU[r[t]] < 0
<1>1. MakeTasks \in Nat
  BY MakeAssumption DEF Make!MakeAssumption
<1>2. t \in Entry(MakeTasks)
  BY DEF TaskSet
<1>3. /\ PathOf(MakeTasks, mDSU)[MakeTasks][t] = r[t] /\ mDSU[r[t]] < 0
      /\ r[t] \in Entry(MakeTasks)
  BY <1>1, <1>2, FindsInTree
<1> QED BY <1>3, MakePath DEF Make!find, TaskSet

\* A dependency in front of a task's list.
InFront(l, t, p) == [l EXCEPT ![t] = <<p>> \o @]
LEMMA PairInFront ==
  ASSUME NEW l \in [TaskSet -> Seq(TaskSet)], NEW t \in TaskSet, NEW p \in TaskSet,
         NEW m, m = InFront(l, t, p)
  PROVE  /\ m \in [TaskSet -> Seq(TaskSet)]
         /\ PairsOf(m) = PairsOf(l) \cup {<<t, p>>}
<1>1. PICK s \in Seq(TaskSet) : s = l[t]
  OBVIOUS
<1>2. PICK q : q = <<p>> \o s
  OBVIOUS
<1>3. q \in Seq(TaskSet) /\ Len(q) = Len(s) + 1 /\ Len(s) \in Nat
  BY <1>1, <1>2
<1>4. q[1] = p /\ \A k \in 1 .. Len(s) : q[k + 1] = s[k]
  BY <1>1, <1>2
<1>5. /\ m[t] = q /\ m \in [TaskSet -> Seq(TaskSet)]
      /\ \A u \in TaskSet : u # t => m[u] = l[u]
  BY <1>1, <1>2, <1>3 DEF InFront
<1>6. {q[k] : k \in 1 .. Len(q)} = {s[k] : k \in 1 .. Len(s)} \cup {p}
  <2>1. ASSUME NEW k \in 1 .. Len(q) PROVE q[k] \in {s[j] : j \in 1 .. Len(s)} \cup {p}
    <3>1. CASE k = 1
      BY <1>4, <3>1
    <3>2. CASE k # 1
      <4>1. PICK j \in 1 .. Len(s) : k = j + 1
        <5>1. k - 1 \in 1 .. Len(s) /\ k = (k - 1) + 1
          BY <1>3, <3>2
        <5> QED BY <5>1
      <4> QED BY <1>4, <4>1
    <3> QED BY <3>1, <3>2
  <2>2. ASSUME NEW j \in 1 .. Len(s) PROVE s[j] \in {q[k] : k \in 1 .. Len(q)}
    <3>1. j + 1 \in 1 .. Len(q) /\ q[j + 1] = s[j]
      BY <1>3, <1>4
    <3> QED BY <3>1
  <2>3. p \in {q[k] : k \in 1 .. Len(q)}
    <3>1. 1 \in 1 .. Len(q)
      BY <1>3
    <3> QED BY <1>4, <3>1
  <2> QED BY <2>1, <2>2, <2>3
<1>7. Needs(m, t) = Needs(l, t) \cup {p}
  <2>1. Needs(m, t) = {q[k] : k \in 1 .. Len(q)} /\ Needs(l, t) = {s[k] : k \in 1 .. Len(s)}
    BY <1>1, <1>5 DEF Needs
  <2> QED BY <1>6, <2>1
<1>8. \A u \in TaskSet : u # t => Needs(m, u) = Needs(l, u)
  BY <1>5 DEF Needs
<1>9. PairsOf(m) = PairsOf(l) \cup {<<t, p>>}
  <2>1. ASSUME NEW a \in TaskSet, NEW b \in TaskSet
        PROVE  <<a, b>> \in PairsOf(m) <=> <<a, b>> \in PairsOf(l) \cup {<<t, p>>}
    BY <1>7, <1>8 DEF PairsOf
  <2>2. /\ PairsOf(m) \subseteq TaskSet \X TaskSet
        /\ PairsOf(l) \cup {<<t, p>>} \subseteq TaskSet \X TaskSet
    BY DEF PairsOf
  <2> QED BY <2>1, <2>2
<1> QED BY <1>5, <1>9

LEMMA MakeJoins ==
  ASSUME ClustersInv, NEW t \in TaskSet, NEW p \in TaskSet, Make!add_dependency(t, p)
  PROVE  ClustersInv'
<1>0. MakeTasks \in Nat
  BY MakeAssumption DEF Make!MakeAssumption
<1>1. PICK d, r : Grown(MakeTasks, mDSU, d, r) /\ Together(MakeTasks, PairsOf(mAdj), r)
  BY DEF ClustersInv
<1>2. Make!find(t) = r[t] /\ Make!find(p) = r[p] /\ t \in Entry(MakeTasks) /\ p \in Entry(MakeTasks)
  BY <1>1, MakeFind DEF TaskSet
<1>3. mAdj' = InFront(mAdj, t, p) /\ Make!set_union(t, p)
  BY DEF Make!add_dependency, InFront
<1>4. PICK m : m = mAdj'
  OBVIOUS
<1>5. m \in [TaskSet -> Seq(TaskSet)] /\ PairsOf(m) = PairsOf(mAdj) \cup {<<t, p>>}
  <2>1. m = InFront(mAdj, t, p)
    BY <1>3, <1>4
  <2>2. mAdj \in [TaskSet -> Seq(TaskSet)]
    BY DEF ClustersInv
  <2> QED BY <2>1, <2>2, PairInFront
<1>6. PairsOf(mAdj) \in Pairs(MakeTasks)
  BY DEF PairsOf, Pairs, TaskSet
<1>7. PICK v : v = mDSU'
  OBVIOUS
<1>8. \E e, s : Grown(MakeTasks, v, e, s) /\ Together(MakeTasks, PairsOf(m), s)
  <2>1. CASE r[t] = r[p]
    <3>1. v = mDSU
      BY <1>2, <1>3, <1>7, <2>1 DEF Make!set_union
    <3>2. Together(MakeTasks, PairsOf(mAdj) \cup {<<t, p>>}, r)
      BY <1>0, <1>1, <1>2, <1>6, <2>1, SameTree
    <3> QED BY <1>1, <1>5, <3>1, <3>2
  <2>2. CASE r[t] # r[p]
    <3>1. v = Union(mDSU, r[t], r[p])
      BY <1>2, <1>3, <1>7, <2>2 DEF Make!set_union, Make!Attach, Union, Hung
    <3>2. \E e, s : /\ Grown(MakeTasks, v, e, s)
                    /\ Together(MakeTasks, PairsOf(mAdj) \cup {<<t, p>>}, s)
      BY <1>0, <1>1, <1>2, <1>6, <2>2, <3>1, TreesJoin
    <3> QED BY <1>5, <3>2
  <2> QED BY <2>1, <2>2
<1> QED BY <1>4, <1>5, <1>7, <1>8 DEF ClustersInv

(* The clusters are what the dependencies connect.                          *)
LEMMA ClustersSound ==
  ASSUME ClustersInv
  PROVE  Make!Clusters /\ mDSU \in [TaskSet -> (-MakeTasks .. -1) \cup TaskSet]
<1>0. MakeTasks \in Nat
  BY MakeAssumption DEF Make!MakeAssumption
<1>1. PICK d, r : Grown(MakeTasks, mDSU, d, r) /\ Together(MakeTasks, PairsOf(mAdj), r)
  BY DEF ClustersInv
<1>2. \A t \in TaskSet : Make!find(t) = r[t] /\ r[t] \in TaskSet /\ mDSU[r[t]] < 0
  BY <1>1, MakeFind
<1>3. mDSU \in [TaskSet -> (-MakeTasks .. -1) \cup TaskSet]
  BY <1>1 DEF Grown, Forest, Parents, TaskSet
<1>4. PairsOf(mAdj) \in Pairs(MakeTasks)
  BY DEF PairsOf, Pairs, TaskSet
<1>5. \A S : Make!Separate(S) <=> Unsplit(PairsOf(mAdj), S)
  BY MakeEdgesAre DEF Make!Separate, Unsplit
<1>6. \A S : Make!Cardinality(S) = Cardinality(S)
  BY DEF Make!Cardinality, Cardinality
<1>7. ASSUME NEW q \in RootsOf(MakeTasks, mDSU)
      PROVE  /\ Make!Separate(Make!Tree(q)) /\ Make!Cardinality(Make!Tree(q)) = -mDSU[q]
             /\ \A S \in SUBSET Make!Tree(q) : Make!Separate(S) => S \in {{}, Make!Tree(q)}
  <2>1. q \in TaskSet /\ mDSU[q] < 0
    BY DEF RootsOf, TaskSet
  <2>2. r[q] = q
    BY <1>1, <2>1 DEF Grown, Forest, TaskSet
  <2>3. Make!Tree(q) = Class(MakeTasks, r, q)
    BY <1>2, <2>1, <2>2 DEF Make!Tree, Make!Tasks, TaskSet, Class, Entry
  <2>4. /\ Cardinality(Class(MakeTasks, r, q)) = -mDSU[q]
        /\ Unsplit(PairsOf(mAdj), Class(MakeTasks, r, q))
        /\ \A S \in SUBSET Class(MakeTasks, r, q) :
             Unsplit(PairsOf(mAdj), S) => S \in {{}, Class(MakeTasks, r, q)}
    BY <1>0, <1>1, <1>4, TreesSeparate
  <2> QED BY <1>5, <1>6, <2>3, <2>4
<1>8. Make!Tasks = TaskSet /\ {t \in Make!Tasks : mDSU[t] < 0} = RootsOf(MakeTasks, mDSU)
  BY DEF Make!Tasks, TaskSet, Entry, RootsOf
<1>9. Make!Clusters
  BY <1>2, <1>7, <1>8 DEF Make!Clusters
<1> QED BY <1>3, <1>9

(* Three ways the stack of activations changes at its innermost end.         *)
LEMMA StackGrows ==
  ASSUME NEW S, NEW s \in Seq(S), NEW x \in S
  PROVE  /\ <<x>> \o s \in Seq(S) /\ Len(<<x>> \o s) = Len(s) + 1
         /\ (<<x>> \o s)[1] = x
         /\ \A k \in 1 .. Len(s) : (<<x>> \o s)[k + 1] = s[k]
OBVIOUS

LEMMA StackTail ==
  ASSUME NEW S, NEW s \in Seq(S), s # <<>>
  PROVE  /\ Tail(s) \in Seq(S) /\ Len(Tail(s)) = Len(s) - 1 /\ Len(s) >= 1
         /\ \A k \in 1 .. Len(s) - 1 : Tail(s)[k] = s[k + 1]
BY EmptySeq, HeadTailProperties

LEMMA TopReplaced ==
  ASSUME NEW S, NEW s \in Seq(S), s # <<>>, NEW x \in S
  PROVE  /\ <<x>> \o Tail(s) \in Seq(S) /\ Len(<<x>> \o Tail(s)) = Len(s)
         /\ (<<x>> \o Tail(s))[1] = x
         /\ \A k \in 2 .. Len(s) : (<<x>> \o Tail(s))[k] = s[k]
<1>1. PICK t \in Seq(S) : t = Tail(s)
  BY StackTail
<1>2. Len(t) = Len(s) - 1 /\ Len(s) \in Nat /\ \A k \in 1 .. Len(s) - 1 : t[k] = s[k + 1]
  BY <1>1, StackTail
<1>3. PICK z : z = <<x>> \o t
  OBVIOUS
<1>4. /\ z \in Seq(S) /\ Len(z) = Len(t) + 1 /\ z[1] = x
      /\ \A k \in 1 .. Len(t) : z[k + 1] = t[k]
  BY <1>3, StackGrows
<1>5. ASSUME NEW k \in 2 .. Len(s) PROVE z[k] = s[k]
  <2>1. PICK j \in 1 .. Len(t) : k = j + 1
    <3>1. k - 1 \in 1 .. Len(t) /\ k = (k - 1) + 1
      BY <1>2
    <3> QED BY <3>1
  <2> QED BY <1>2, <1>4, <2>1
<1>6. Len(z) = Len(s)
  BY <1>2, <1>4
<1> QED BY <1>1, <1>3, <1>4, <1>5, <1>6

LEMMA TopDescends ==
  ASSUME NEW S, NEW s \in Seq(S), s # <<>>, NEW x \in S, NEW y \in S
  PROVE  /\ <<x, y>> \o Tail(s) \in Seq(S) /\ Len(<<x, y>> \o Tail(s)) = Len(s) + 1
         /\ (<<x, y>> \o Tail(s))[1] = x /\ (<<x, y>> \o Tail(s))[2] = y
         /\ \A k \in 2 .. Len(s) : (<<x, y>> \o Tail(s))[k + 1] = s[k]
<1>1. PICK t \in Seq(S) : t = Tail(s)
  BY StackTail
<1>2. Len(t) = Len(s) - 1 /\ Len(s) \in Nat /\ \A k \in 1 .. Len(s) - 1 : t[k] = s[k + 1]
  BY <1>1, StackTail
<1>3. PICK z : z = <<x, y>> \o t
  OBVIOUS
<1>4. /\ z \in Seq(S) /\ Len(z) = Len(t) + 2 /\ z[1] = x /\ z[2] = y
      /\ \A k \in 1 .. Len(t) : z[k + 2] = t[k]
  BY <1>3
<1>5. ASSUME NEW k \in 2 .. Len(s) PROVE z[k + 1] = s[k]
  <2>1. PICK j \in 1 .. Len(t) : k = j + 1
    <3>1. k - 1 \in 1 .. Len(t) /\ k = (k - 1) + 1
      BY <1>2
    <3> QED BY <3>1
  <2>2. k + 1 = j + 2
    BY <2>1
  <2> QED BY <1>2, <1>4, <2>1, <2>2
<1>6. Len(z) = Len(s) + 1
  BY <1>2, <1>4
<1> QED BY <1>1, <1>3, <1>4, <1>5, <1>6

(* has_cycle: an activation has been through the prerequisites that are
   finished, the last one may be the next activation's, and the rest is open.
   What is on the way without an activation leads to a cycle: a prerequisite
   of it is in the same position.  What is finished is in the order, after
   all its prerequisites.                                                   *)
Frame == [task : TaskSet, edges : Seq(TaskSet)]
OnStack(s) == {s[k].task : k \in 1 .. Len(s)}
OpenEdge(f, p) == \E i \in 1 .. Len(f.edges) : f.edges[i] = p
\* An activation has seen all its edges but the open ones and the one on which
\* it called the next.
FrameOK(l, m, s, k) ==
  /\ m[s[k].task] = 1
  /\ \A p \in Needs(l, s[k].task) :
       OpenEdge(s[k], p) \/ m[p] = 2 \/ (k > 1 /\ p = s[k - 1].task)
  /\ \A p : OpenEdge(s[k], p) => p \in Needs(l, s[k].task)
  /\ k > 1 => s[k - 1].task \in Needs(l, s[k].task)
\* Tasks on the stack are distinct, and on their way.
FramesOK(l, m, s) ==
  /\ s \in Seq(Frame)
  /\ \A j, k \in 1 .. Len(s) : s[j].task = s[k].task => j = k
  /\ \A k \in 1 .. Len(s) : FrameOK(l, m, s, k)
\* What a cycle left behind leads to what was left behind, too.
LeftOK(l, m, s) ==
  \A t \in TaskSet : m[t] = 1 /\ t \notin OnStack(s) =>
    \E p \in Needs(l, t) : m[p] = 1 /\ p \notin OnStack(s)
\* The finished tasks are in the order, each once and after what it needs.
OrderOK(l, m, o) ==
  /\ o \in Seq(TaskSet)
  /\ \A j, k \in 1 .. Len(o) : o[j] = o[k] => j = k
  /\ \A t \in TaskSet : m[t] = 2 <=> \E k \in 1 .. Len(o) : o[k] = t
  /\ \A k \in 1 .. Len(o) : \A p \in Needs(l, o[k]) : \E j \in 1 .. Len(o) : j < k /\ o[j] = p
States == [TaskSet -> 0 .. 2]
Lists == [TaskSet -> Seq(TaskSet)]

LEMMA NeedsTasks ==
  ASSUME NEW l \in Lists, NEW t \in TaskSet
  PROVE  Needs(l, t) \subseteq TaskSet
<1>1. l[t] \in Seq(TaskSet)
  BY DEF Lists
<1> QED BY <1>1 DEF Needs

\* The innermost activation goes on to its next edge.
Advanced(f) == [f EXCEPT !.edges = Tail(@)]
NextEdge(s) == Head(s[1].edges)
HasEdge(s) == s # <<>> /\ s[1].edges # <<>>
LEMMA EdgeTaken ==
  ASSUME NEW f \in Frame, f.edges # <<>>
  PROVE  /\ Advanced(f) \in Frame /\ Advanced(f).task = f.task
         /\ Head(f.edges) \in TaskSet /\ OpenEdge(f, Head(f.edges))
         /\ \A p : OpenEdge(f, p) <=> p = Head(f.edges) \/ OpenEdge(Advanced(f), p)
<1>1. PICK q \in Seq(TaskSet) : q = f.edges
  BY DEF Frame
<1>2. PICK t \in Seq(TaskSet) : t = Tail(q)
  BY <1>1, StackTail
<1>3. /\ Len(t) = Len(q) - 1 /\ Len(q) >= 1 /\ Len(q) \in Nat
      /\ \A k \in 1 .. Len(q) - 1 : t[k] = q[k + 1]
  BY <1>1, <1>2, StackTail
<1>4. Advanced(f) \in Frame /\ Advanced(f).task = f.task /\ Advanced(f).edges = t
  BY <1>1, <1>2 DEF Advanced, Frame
<1>5. Head(q) = q[1] /\ q[1] \in TaskSet /\ 1 \in 1 .. Len(q)
  BY <1>1, <1>3
<1>6. ASSUME NEW p
      PROVE  (\E i \in 1 .. Len(q) : q[i] = p) <=> p = q[1] \/ \E i \in 1 .. Len(t) : t[i] = p
  <2>1. ASSUME NEW i \in 1 .. Len(q), q[i] = p
        PROVE  p = q[1] \/ \E j \in 1 .. Len(t) : t[j] = p
    <3>1. CASE i = 1
      BY <2>1, <3>1
    <3>2. CASE i # 1
      <4>1. PICK j \in 1 .. Len(t) : i = j + 1
        <5>1. i - 1 \in 1 .. Len(t) /\ i = (i - 1) + 1
          BY <1>3, <3>2
        <5> QED BY <5>1
      <4> QED BY <1>3, <2>1, <4>1
    <3> QED BY <3>1, <3>2
  <2>2. ASSUME NEW j \in 1 .. Len(t), t[j] = p PROVE \E i \in 1 .. Len(q) : q[i] = p
    <3>1. j + 1 \in 1 .. Len(q) /\ q[j + 1] = p
      BY <1>3, <2>2
    <3> QED BY <3>1
  <2> QED BY <1>5, <2>1, <2>2
<1> QED BY <1>1, <1>4, <1>5, <1>6 DEF OpenEdge

\* A task is called from the loop of test_graph_for_cycles.
Called(l, t) == [task |-> t, edges |-> l[t]]
StackAt(l, s, t) == <<Called(l, t), Advanced(s[1])>> \o Tail(s)
Marked(m, t) == [m EXCEPT ![t] = 1]

LEMMA CalledOpen ==
  ASSUME NEW l \in Lists, NEW t \in TaskSet
  PROVE  /\ Called(l, t) \in Frame /\ Called(l, t).task = t
         /\ \A p : OpenEdge(Called(l, t), p) <=> p \in Needs(l, t)
<1>1. l[t] \in Seq(TaskSet)
  BY DEF Lists
<1> QED BY <1>1 DEF Called, Frame, OpenEdge, Needs

LEMMA FirstCall ==
  ASSUME NEW l \in Lists, NEW m \in States, NEW o, NEW t \in TaskSet, m[t] = 0,
         LeftOK(l, m, <<>>), OrderOK(l, m, o),
         NEW z, z = <<Called(l, t)>> \o <<>>, NEW n, n = Marked(m, t)
  PROVE  n \in States /\ FramesOK(l, n, z) /\ LeftOK(l, n, z) /\ OrderOK(l, n, o)
<1>1. /\ n \in States /\ n[t] = 1 /\ \A u \in TaskSet : u # t => n[u] = m[u]
  BY DEF States, Marked
<1>2. z \in Seq(Frame) /\ Len(z) = 1 /\ z[1] = Called(l, t)
  BY CalledOpen
<1>3. FramesOK(l, n, z)
  <2>1. \A k \in 1 .. Len(z) : k = 1
    BY <1>2
  <2>2. FrameOK(l, n, z, 1)
    BY <1>1, <1>2, CalledOpen DEF FrameOK
  <2> QED BY <1>2, <2>1, <2>2 DEF FramesOK
<1>4. OnStack(z) = {t}
  BY <1>2, CalledOpen DEF OnStack
<1>5. LeftOK(l, n, z)
  <2> SUFFICES ASSUME NEW u \in TaskSet, n[u] = 1, u # t
               PROVE  \E p \in Needs(l, u) : n[p] = 1 /\ p # t
    BY <1>4 DEF LeftOK
  <2>1. OnStack(<<>>) = {}
    BY DEF OnStack
  <2>2. PICK p \in Needs(l, u) : m[p] = 1
    BY <1>1, <2>1 DEF LeftOK
  <2>3. p \in TaskSet
    BY NeedsTasks
  <2> QED BY <1>1, <2>2, <2>3
<1>6. OrderOK(l, n, o)
  BY <1>1 DEF OrderOK
<1> QED BY <1>1, <1>3, <1>5, <1>6

LEMMA DeeperCall ==
  ASSUME NEW l \in Lists, NEW m \in States, NEW o, NEW s,
         FramesOK(l, m, s), LeftOK(l, m, s), OrderOK(l, m, o), HasEdge(s),
         NEW t, t = NextEdge(s), m[t] = 0,
         NEW z, z = StackAt(l, s, t), NEW n, n = Marked(m, t)
  PROVE  n \in States /\ FramesOK(l, n, z) /\ LeftOK(l, n, z) /\ OrderOK(l, n, o)
<1>1. s \in Seq(Frame) /\ Len(s) \in Nat /\ Len(s) >= 1 /\ s[1] \in Frame
  BY StackTail DEF FramesOK, HasEdge
<1>2. t \in TaskSet /\ OpenEdge(s[1], t) /\ Advanced(s[1]) \in Frame
      /\ Advanced(s[1]).task = s[1].task
      /\ \A p : OpenEdge(s[1], p) <=> p = t \/ OpenEdge(Advanced(s[1]), p)
  BY <1>1, EdgeTaken DEF NextEdge, HasEdge
<1>3. /\ n \in States /\ n[t] = 1 /\ \A u \in TaskSet : u # t => n[u] = m[u]
  BY <1>2 DEF States, Marked
<1>4. /\ Called(l, t) \in Frame /\ Called(l, t).task = t
      /\ \A p : OpenEdge(Called(l, t), p) <=> p \in Needs(l, t)
  BY <1>2, CalledOpen
<1>5. /\ z \in Seq(Frame) /\ Len(z) = Len(s) + 1 /\ z[1] = Called(l, t) /\ z[2] = Advanced(s[1])
      /\ \A k \in 2 .. Len(s) : z[k + 1] = s[k]
  BY <1>1, <1>2, <1>4, TopDescends DEF StackAt, HasEdge
<1>6. \A k \in 1 .. Len(s) : z[k + 1].task = s[k].task
  BY <1>1, <1>2, <1>5
<1>7. ASSUME NEW k \in 1 .. Len(z), k # 1
      PROVE  \E j \in 1 .. Len(s) : k = j + 1
  <2>1. k - 1 \in 1 .. Len(s) /\ k = (k - 1) + 1
    BY <1>1, <1>5, <1>7
  <2> QED BY <2>1
<1>8. \A j \in 1 .. Len(s) : s[j].task \in TaskSet /\ s[j].task # t
  <2>1. \A j \in 1 .. Len(s) : m[s[j].task] = 1
    BY DEF FramesOK, FrameOK
  <2>2. \A j \in 1 .. Len(s) : s[j].task \in TaskSet
    <3>1. \A j \in 1 .. Len(s) : s[j] \in Frame
      BY <1>1
    <3> QED BY <3>1 DEF Frame
  <2> QED BY <2>1, <2>2
<1>9. \A j, k \in 1 .. Len(z) : z[j].task = z[k].task => j = k
  <2> SUFFICES ASSUME NEW j \in 1 .. Len(z), NEW k \in 1 .. Len(z), z[j].task = z[k].task
               PROVE  j = k
    OBVIOUS
  <2>1. CASE j = 1 /\ k = 1
    BY <2>1
  <2>2. CASE j = 1 /\ k # 1
    BY <1>4, <1>5, <1>6, <1>7, <1>8, <2>2
  <2>3. CASE j # 1 /\ k = 1
    BY <1>4, <1>5, <1>6, <1>7, <1>8, <2>3
  <2>4. CASE j # 1 /\ k # 1
    <3>1. PICK i \in 1 .. Len(s), h \in 1 .. Len(s) : j = i + 1 /\ k = h + 1
      BY <1>7, <2>4
    <3>2. s[i].task = s[h].task
      BY <1>6, <3>1
    <3>3. i = h
      BY <3>2 DEF FramesOK
    <3> QED BY <3>1, <3>3
  <2> QED BY <2>1, <2>2, <2>3, <2>4
<1>10. FrameOK(l, n, z, 1)
  BY <1>3, <1>4, <1>5 DEF FrameOK
<1>11. ASSUME NEW j \in 1 .. Len(s) PROVE FrameOK(l, n, z, j + 1)
  <2>1. FrameOK(l, m, s, j)
    BY DEF FramesOK
  <2>2. n[z[j + 1].task] = 1
    BY <1>3, <1>6, <1>8, <2>1 DEF FrameOK
  <2>3. Needs(l, s[j].task) \subseteq TaskSet
    BY <1>8, NeedsTasks
  <2>4. j + 1 > 1 /\ (j + 1) - 1 = j
    BY <1>1
  <2>5. CASE j = 1
    <3>1. z[j + 1] = Advanced(s[1]) /\ z[j].task = t /\ z[j + 1].task = s[1].task
      BY <1>2, <1>4, <1>5, <2>5
    <3>2. t \in Needs(l, s[1].task)
      BY <1>2, <2>1, <2>5 DEF FrameOK
    <3>3. ASSUME NEW p \in Needs(l, s[1].task)
          PROVE  OpenEdge(z[j + 1], p) \/ n[p] = 2 \/ p = z[j].task
      <4>1. OpenEdge(s[1], p) \/ m[p] = 2
        BY <2>1, <2>5 DEF FrameOK
      <4>2. p \in TaskSet
        BY <2>3, <2>5
      <4> QED BY <1>2, <1>3, <3>1, <4>1, <4>2
    <3>4. \A p : OpenEdge(z[j + 1], p) => p \in Needs(l, s[1].task)
      BY <1>2, <2>1, <2>5, <3>1 DEF FrameOK
    <3> QED BY <2>2, <2>4, <3>1, <3>2, <3>3, <3>4 DEF FrameOK
  <2>6. CASE j # 1
    <3>1. j > 1 /\ j - 1 \in 1 .. Len(s) /\ j = (j - 1) + 1 /\ j \in 2 .. Len(s)
      BY <1>1, <2>6
    <3>2. z[j + 1] = s[j] /\ z[j].task = s[j - 1].task
      BY <1>5, <1>6, <3>1
    <3>3. ASSUME NEW p \in Needs(l, s[j].task)
          PROVE  OpenEdge(s[j], p) \/ n[p] = 2 \/ p = s[j - 1].task
      <4>1. OpenEdge(s[j], p) \/ m[p] = 2 \/ p = s[j - 1].task
        BY <2>1 DEF FrameOK
      <4>2. p \in TaskSet
        BY <2>3
      <4> QED BY <1>3, <4>1, <4>2
    <3>4. /\ s[j - 1].task \in Needs(l, s[j].task)
          /\ \A p : OpenEdge(s[j], p) => p \in Needs(l, s[j].task)
      BY <2>1, <3>1 DEF FrameOK
    <3> QED BY <2>2, <2>4, <3>2, <3>3, <3>4 DEF FrameOK
  <2> QED BY <2>5, <2>6
<1>12. FramesOK(l, n, z)
  <2>1. ASSUME NEW k \in 1 .. Len(z) PROVE FrameOK(l, n, z, k)
    <3>1. CASE k = 1
      BY <1>10, <3>1
    <3>2. CASE k # 1
      BY <1>7, <1>11, <3>2
    <3> QED BY <3>1, <3>2
  <2> QED BY <1>5, <1>9, <2>1 DEF FramesOK
<1>13. OnStack(z) = OnStack(s) \cup {t}
  <2>1. ASSUME NEW k \in 1 .. Len(z) PROVE z[k].task \in OnStack(s) \cup {t}
    BY <1>4, <1>5, <1>6, <1>7 DEF OnStack
  <2>2. ASSUME NEW j \in 1 .. Len(s) PROVE s[j].task \in OnStack(z)
    <3>1. j + 1 \in 1 .. Len(z)
      BY <1>1, <1>5
    <3> QED BY <1>6, <3>1 DEF OnStack
  <2>3. t \in OnStack(z)
    <3>1. 1 \in 1 .. Len(z)
      BY <1>1, <1>5
    <3> QED BY <1>4, <1>5, <3>1 DEF OnStack
  <2>4. /\ \A u \in OnStack(z) : \E k \in 1 .. Len(z) : u = z[k].task
        /\ \A u \in OnStack(s) : \E k \in 1 .. Len(s) : u = s[k].task
    BY DEF OnStack
  <2> QED BY <2>1, <2>2, <2>3, <2>4
<1>14. LeftOK(l, n, z)
  <2> SUFFICES ASSUME NEW u \in TaskSet, n[u] = 1, u \notin OnStack(s), u # t
               PROVE  \E p \in Needs(l, u) : n[p] = 1 /\ p \notin OnStack(s) /\ p # t
    BY <1>13 DEF LeftOK
  <2>1. PICK p \in Needs(l, u) : m[p] = 1 /\ p \notin OnStack(s)
    BY <1>3 DEF LeftOK
  <2>2. p \in TaskSet
    BY NeedsTasks
  <2> QED BY <1>3, <2>1, <2>2
<1>15. OrderOK(l, n, o)
  BY <1>2, <1>3 DEF OrderOK
<1> QED BY <1>3, <1>12, <1>14, <1>15

\* The next prerequisite is finished.
StackSkipped(s) == <<Advanced(s[1])>> \o Tail(s)
LEMMA EdgeSkipped ==
  ASSUME NEW l \in Lists, NEW m \in States, NEW s, FramesOK(l, m, s), LeftOK(l, m, s),
         HasEdge(s), m[NextEdge(s)] = 2, NEW z, z = StackSkipped(s)
  PROVE  FramesOK(l, m, z) /\ LeftOK(l, m, z)
<1> DEFINE t == NextEdge(s)
<1>1. s \in Seq(Frame) /\ Len(s) \in Nat /\ Len(s) >= 1 /\ s[1] \in Frame
  BY StackTail DEF FramesOK, HasEdge
<1>2. /\ Advanced(s[1]) \in Frame /\ Advanced(s[1]).task = s[1].task
      /\ \A p : OpenEdge(s[1], p) <=> p = t \/ OpenEdge(Advanced(s[1]), p)
  BY <1>1, EdgeTaken DEF NextEdge, HasEdge
<1>3. /\ z \in Seq(Frame) /\ Len(z) = Len(s) /\ z[1] = Advanced(s[1])
      /\ \A k \in 2 .. Len(s) : z[k] = s[k]
  BY <1>1, <1>2, TopReplaced DEF StackSkipped, HasEdge
<1>4. \A k \in 1 .. Len(s) : z[k].task = s[k].task
  <2> SUFFICES ASSUME NEW k \in 1 .. Len(s) PROVE z[k].task = s[k].task
    OBVIOUS
  <2>1. CASE k = 1
    BY <1>2, <1>3, <2>1
  <2>2. CASE k # 1
    BY <1>1, <1>3, <2>2
  <2> QED BY <2>1, <2>2
<1>5. ASSUME NEW k \in 1 .. Len(s) PROVE FrameOK(l, m, z, k)
  <2>1. FrameOK(l, m, s, k)
    BY DEF FramesOK
  <2>2. k > 1 => k - 1 \in 1 .. Len(s)
    BY <1>1
  <2>3. CASE k = 1
    <3>1. \A p : OpenEdge(s[k], p) <=> p = t \/ OpenEdge(z[k], p)
      BY <1>2, <1>3, <2>3
    <3>2. m[t] = 2
      OBVIOUS
    <3> HIDE DEF t
    <3>3. ~(k > 1) /\ z[k].task = s[k].task
      BY <1>4, <2>3
    <3> QED BY <2>1, <3>1, <3>2, <3>3 DEF FrameOK
  <2>4. CASE k # 1
    <3>1. k > 1 /\ z[k] = s[k]
      BY <1>1, <1>3, <2>4
    <3>2. z[k - 1].task = s[k - 1].task
      BY <1>4, <2>2, <3>1
    <3> QED BY <2>1, <3>1, <3>2 DEF FrameOK
  <2> QED BY <2>3, <2>4
<1>6. FramesOK(l, m, z)
  <2>1. \A j, k \in 1 .. Len(s) : s[j].task = s[k].task => j = k
    BY DEF FramesOK
  <2> QED BY <1>3, <1>4, <1>5, <2>1 DEF FramesOK
<1>7. OnStack(z) = OnStack(s)
  BY <1>3, <1>4 DEF OnStack
<1> QED BY <1>6, <1>7 DEF LeftOK

\* The next prerequisite is on the way: every activation returns.
LEMMA CycleMet ==
  ASSUME NEW l \in Lists, NEW m \in States, NEW s, FramesOK(l, m, s), LeftOK(l, m, s),
         HasEdge(s), m[NextEdge(s)] = 1
  PROVE  LeftOK(l, m, <<>>)
<1> DEFINE t == NextEdge(s)
<1>1. s \in Seq(Frame) /\ Len(s) \in Nat /\ Len(s) >= 1 /\ s[1] \in Frame /\ 1 \in 1 .. Len(s)
  BY StackTail DEF FramesOK, HasEdge
<1>2. OpenEdge(s[1], t)
  BY <1>1, EdgeTaken DEF NextEdge, HasEdge
<1>3. t \in Needs(l, s[1].task) /\ m[t] = 1
  BY <1>1, <1>2 DEF FramesOK, FrameOK
<1> HIDE DEF t
<1>4. OnStack(<<>>) = {}
  BY DEF OnStack
<1>5. ASSUME NEW u \in TaskSet, m[u] = 1 PROVE \E p \in Needs(l, u) : m[p] = 1
  <2>1. CASE u \notin OnStack(s)
    BY <1>5, <2>1 DEF LeftOK
  <2>2. CASE u \in OnStack(s)
    <3>1. PICK k \in 1 .. Len(s) : u = s[k].task
      BY <2>2 DEF OnStack
    <3>2. CASE k = 1
      BY <1>3, <3>1, <3>2
    <3>3. CASE k # 1
      <4>1. k > 1 /\ k - 1 \in 1 .. Len(s)
        BY <1>1, <3>3
      <4>2. s[k - 1].task \in Needs(l, s[k].task)
        BY <4>1 DEF FramesOK, FrameOK
      <4>3. m[s[k - 1].task] = 1
        BY <4>1 DEF FramesOK, FrameOK
      <4> QED BY <3>1, <4>2, <4>3
    <3> QED BY <3>2, <3>3
  <2> QED BY <2>1, <2>2
<1> QED BY <1>4, <1>5 DEF LeftOK

LEMMA NoFrames ==
  ASSUME NEW l, NEW m PROVE FramesOK(l, m, <<>>)
BY DEF FramesOK

\* The last prerequisite has been looked at.
Ended(m, t) == [m EXCEPT ![t] = 2]
AllSeen(s) == s # <<>> /\ s[1].edges = <<>>
TopTask(s) == s[1].task
Popped(s) == Tail(s)
Longer(o, t) == Append(o, t)
LEMMA TaskFinished ==
  ASSUME NEW l \in Lists, NEW m \in States, NEW o, NEW s,
         FramesOK(l, m, s), LeftOK(l, m, s), OrderOK(l, m, o), AllSeen(s),
         NEW t, t = TopTask(s), NEW z, z = Popped(s), NEW n, n = Ended(m, t),
         NEW q, q = Longer(o, t)
  PROVE  n \in States /\ FramesOK(l, n, z) /\ LeftOK(l, n, z) /\ OrderOK(l, n, q)
<1>1. /\ s \in Seq(Frame) /\ Len(s) \in Nat /\ Len(s) >= 1 /\ 1 \in 1 .. Len(s)
      /\ z \in Seq(Frame) /\ Len(z) = Len(s) - 1
      /\ \A k \in 1 .. Len(s) - 1 : z[k] = s[k + 1]
  BY StackTail DEF FramesOK, AllSeen, Popped
<1>2. /\ \A j, k \in 1 .. Len(s) : s[j].task = s[k].task => j = k
      /\ \A k \in 1 .. Len(s) : FrameOK(l, m, s, k)
  BY DEF FramesOK
<1>3. \A k \in 1 .. Len(s) : s[k].task \in TaskSet
  <2>1. \A k \in 1 .. Len(s) : s[k] \in Frame
    BY <1>1
  <2> QED BY <2>1 DEF Frame
<1>4. t \in TaskSet /\ m[t] = 1
  BY <1>1, <1>2, <1>3 DEF FrameOK, TopTask
<1>5. n \in States /\ n[t] = 2 /\ \A u \in TaskSet : u # t => n[u] = m[u]
  BY <1>4 DEF States, Ended
<1>6. \A p \in Needs(l, t) : m[p] = 2 /\ p \in TaskSet
  <2>1. FrameOK(l, m, s, 1)
    BY <1>1, <1>2
  <2>2. \A p : ~OpenEdge(s[1], p)
    BY DEF OpenEdge, AllSeen
  <2>3. Needs(l, t) \subseteq TaskSet
    BY <1>4, NeedsTasks
  <2> QED BY <2>1, <2>2, <2>3 DEF FrameOK, TopTask
<1>7. ASSUME NEW k \in 1 .. Len(z)
      PROVE  k + 1 \in 1 .. Len(s) /\ k + 1 # 1 /\ z[k] = s[k + 1]
  BY <1>1
<1>8. \A k \in 1 .. Len(z) : z[k].task # t
  BY <1>1, <1>2, <1>7 DEF TopTask
<1>9. ASSUME NEW k \in 1 .. Len(z) PROVE FrameOK(l, n, z, k)
  <2>1. FrameOK(l, m, s, k + 1) /\ z[k] = s[k + 1] /\ z[k].task \in TaskSet /\ z[k].task # t
    BY <1>2, <1>3, <1>7, <1>8
  <2>2. k + 1 > 1 /\ k + 1 - 1 = k
    BY <1>1
  <2>3. k > 1 => z[k - 1] = s[k]
    <3>1. k > 1 => k - 1 \in 1 .. Len(z) /\ (k - 1) + 1 = k
      BY <1>1
    <3> QED BY <1>7, <3>1
  <2>4. k = 1 \/ k > 1
    BY <1>1
  <2>5. n[z[k].task] = 1
    BY <1>5, <2>1 DEF FrameOK
  <2>6. ASSUME NEW p \in Needs(l, z[k].task)
        PROVE  OpenEdge(z[k], p) \/ n[p] = 2 \/ (k > 1 /\ p = z[k - 1].task)
    <3>1. OpenEdge(z[k], p) \/ m[p] = 2 \/ p = s[k].task
      BY <2>1, <2>2 DEF FrameOK
    <3>2. p \in TaskSet
      BY <2>1, NeedsTasks
    <3>3. m[p] = 2 => n[p] = 2
      BY <1>5, <3>2
    <3>4. k = 1 /\ p = s[k].task => n[p] = 2
      BY <1>5 DEF TopTask
    <3> QED BY <2>3, <2>4, <3>1, <3>3, <3>4
  <2>7. k > 1 => z[k - 1].task \in Needs(l, z[k].task)
    BY <2>1, <2>2, <2>3 DEF FrameOK
  <2>8. \A p : OpenEdge(z[k], p) => p \in Needs(l, z[k].task)
    BY <2>1 DEF FrameOK
  <2> QED BY <2>5, <2>6, <2>7, <2>8 DEF FrameOK
<1>10. FramesOK(l, n, z)
  <2>1. \A j, k \in 1 .. Len(z) : z[j].task = z[k].task => j = k
    <3> SUFFICES ASSUME NEW j \in 1 .. Len(z), NEW k \in 1 .. Len(z), z[j].task = z[k].task
                 PROVE  j = k
      OBVIOUS
    <3>1. j + 1 = k + 1
      BY <1>2, <1>7
    <3> QED BY <1>1, <3>1
  <2> QED BY <1>1, <1>9, <2>1 DEF FramesOK
<1>11. /\ \A u \in OnStack(z) : u \in OnStack(s) /\ u # t
       /\ \A u \in OnStack(s) : u # t => u \in OnStack(z)
  <2>1. ASSUME NEW u \in OnStack(z) PROVE u \in OnStack(s) /\ u # t
    <3>1. PICK k \in 1 .. Len(z) : u = z[k].task
      BY DEF OnStack
    <3> QED BY <1>7, <1>8, <3>1 DEF OnStack
  <2>2. ASSUME NEW u \in OnStack(s), u # t PROVE u \in OnStack(z)
    <3>1. PICK k \in 1 .. Len(s) : u = s[k].task
      BY DEF OnStack
    <3>2. PICK j \in 1 .. Len(z) : k = j + 1
      <4>1. k # 1
        BY <2>2, <3>1 DEF TopTask
      <4>2. k - 1 \in 1 .. Len(z) /\ k = (k - 1) + 1
        BY <1>1, <4>1
      <4> QED BY <4>2
    <3> QED BY <1>7, <3>1, <3>2 DEF OnStack
  <2> QED BY <2>1, <2>2
<1>12. LeftOK(l, n, z)
  <2> SUFFICES ASSUME NEW u \in TaskSet, n[u] = 1, u \notin OnStack(z)
               PROVE  \E p \in Needs(l, u) : n[p] = 1 /\ p \notin OnStack(z)
    BY DEF LeftOK
  <2>1. u # t /\ m[u] = 1 /\ u \notin OnStack(s)
    BY <1>5, <1>11
  <2>2. PICK p \in Needs(l, u) : m[p] = 1 /\ p \notin OnStack(s)
    BY <2>1 DEF LeftOK
  <2>3. p \in TaskSet /\ t \in OnStack(s)
    BY <1>1, NeedsTasks DEF OnStack, TopTask
  <2> QED BY <1>5, <1>11, <2>2, <2>3
<1>13. /\ o \in Seq(TaskSet) /\ Len(o) \in Nat
       /\ \A j, k \in 1 .. Len(o) : o[j] = o[k] => j = k
       /\ \A u \in TaskSet : m[u] = 2 <=> \E k \in 1 .. Len(o) : o[k] = u
       /\ \A k \in 1 .. Len(o) : \A p \in Needs(l, o[k]) : \E j \in 1 .. Len(o) : j < k /\ o[j] = p
  BY DEF OrderOK
<1>14. /\ q \in Seq(TaskSet) /\ Len(q) = Len(o) + 1 /\ q[Len(o) + 1] = t
       /\ \A k \in 1 .. Len(o) : q[k] = o[k]
  BY <1>4, <1>13, AppendProperties DEF Longer
<1>15. PICK e \in Nat : e = Len(o)
  BY <1>13
<1>16. \A k \in 1 .. e : o[k] # t
  BY <1>4, <1>13, <1>15
<1>17. \A k \in 1 .. e + 1 : k \in 1 .. e \/ k = e + 1
  OBVIOUS
<1>18. \A k \in 1 .. e : k \in 1 .. e + 1 /\ k < e + 1
  OBVIOUS
<1>19. e + 1 \in 1 .. e + 1
  OBVIOUS
<1>20. \A j, k \in 1 .. e + 1 : q[j] = q[k] => j = k
  BY <1>13, <1>14, <1>15, <1>16, <1>17
<1>21. ASSUME NEW u \in TaskSet PROVE n[u] = 2 <=> \E k \in 1 .. e + 1 : q[k] = u
  <2>1. CASE u = t
    BY <1>5, <1>14, <1>15, <1>19, <2>1
  <2>2. CASE u # t
    <3>1. n[u] = 2 <=> \E k \in 1 .. e : o[k] = u
      BY <1>5, <1>13, <1>15, <2>2
    <3>2. (\E k \in 1 .. e : o[k] = u) <=> \E k \in 1 .. e + 1 : q[k] = u
      BY <1>14, <1>15, <1>17, <1>18, <2>2
    <3> QED BY <3>1, <3>2
  <2> QED BY <2>1, <2>2
<1>22. ASSUME NEW k \in 1 .. e + 1, NEW p \in Needs(l, q[k])
       PROVE  \E j \in 1 .. e + 1 : j < k /\ q[j] = p
  <2>1. CASE k \in 1 .. e
    <3>1. PICK j \in 1 .. e : j < k /\ o[j] = p
      BY <1>13, <1>14, <1>15, <2>1
    <3> QED BY <1>14, <1>15, <1>18, <3>1
  <2>2. CASE k = e + 1
    <3>1. m[p] = 2 /\ p \in TaskSet
      BY <1>6, <1>14, <1>15, <2>2
    <3>2. PICK j \in 1 .. e : o[j] = p
      BY <1>13, <1>15, <3>1
    <3> QED BY <1>14, <1>15, <1>18, <2>2, <3>2
  <2> QED BY <1>17, <2>1, <2>2
<1>23. OrderOK(l, n, q)
  <2>1. Len(q) = e + 1
    BY <1>14, <1>15
  <2>2. q \in Seq(TaskSet)
    BY <1>14
  <2> QED BY <1>20, <1>21, <1>22, <2>1, <2>2 DEF OrderOK
<1> QED BY <1>5, <1>10, <1>12, <1>23

SearchInv ==
  /\ mPhase \in {"building", "testing", "done"}
  /\ mState \in States /\ mTask \in 0 .. MakeTasks
  /\ FramesOK(mAdj, mState, mStack)
  /\ LeftOK(mAdj, mState, mStack)
  /\ OrderOK(mAdj, mState, mOrder)
  /\ \A t \in TaskSet : t < mTask => mState[t] # 0
  /\ mPhase = "building" => mTask = 0 /\ mStack = <<>> /\ \A t \in TaskSet : mState[t] = 0
  /\ mPhase = "done" => mTask = MakeTasks /\ mStack = <<>>
MakeInv == ClustersInv /\ SearchInv

\* Before the search nothing is known of the tasks.
LEMMA NothingSearched ==
  ASSUME NEW l, NEW m, \A t \in TaskSet : m[t] = 0, NEW o, o \in Seq(TaskSet),
         \A k \in 1 .. Len(o) : m[o[k]] = 2
  PROVE  FramesOK(l, m, <<>>) /\ LeftOK(l, m, <<>>) /\ OrderOK(l, m, o)
<1>1. ~\E k \in 1 .. Len(o) : TRUE
  <2> SUFFICES ASSUME NEW k \in 1 .. Len(o) PROVE FALSE
    OBVIOUS
  <2>1. o[k] \in TaskSet
    OBVIOUS
  <2> QED BY <2>1
<1> QED BY <1>1, NoFrames DEF LeftOK, OrderOK

LEMMA SearchInit == Make!Init => SearchInv
<1> SUFFICES ASSUME Make!Init PROVE SearchInv
  OBVIOUS
<1>1. /\ mPhase = "building" /\ mState = [t \in TaskSet |-> 0] /\ mOrder = <<>>
      /\ mTask = 0 /\ mStack = <<>>
  BY DEF Make!Init, Make!Tasks, TaskSet, Entry
<1>2. \A t \in TaskSet : mState[t] = 0
  BY <1>1
<1>3. mOrder \in Seq(TaskSet) /\ \A k \in 1 .. Len(mOrder) : mState[mOrder[k]] = 2
  BY <1>1
<1>4. FramesOK(mAdj, mState, <<>>) /\ LeftOK(mAdj, mState, <<>>) /\ OrderOK(mAdj, mState, mOrder)
  BY <1>2, <1>3, NothingSearched
<1>5. mState \in States /\ mTask \in 0 .. MakeTasks
  BY <1>1, MakeAssumption DEF States, Make!MakeAssumption
<1>6. \A t \in TaskSet : ~(t < mTask)
  BY <1>1 DEF TaskSet, Entry
<1> QED BY <1>1, <1>2, <1>4, <1>5, <1>6 DEF SearchInv

LEMMA SearchBuilds ==
  ASSUME SearchInv, NEW t \in TaskSet, NEW p \in TaskSet, Make!add_dependency(t, p)
  PROVE  SearchInv'
<1>1. /\ mPhase = "building" /\ mPhase' = mPhase /\ mState' = mState /\ mOrder' = mOrder
      /\ mTask' = mTask /\ mStack' = mStack
  BY DEF Make!add_dependency
<1>2. mTask = 0 /\ mStack = <<>> /\ \A u \in TaskSet : mState[u] = 0
  BY <1>1 DEF SearchInv
<1>3. /\ mOrder \in Seq(TaskSet)
      /\ \A u \in TaskSet : mState[u] = 2 <=> \E k \in 1 .. Len(mOrder) : mOrder[k] = u
  BY DEF SearchInv, OrderOK
<1>4. \A k \in 1 .. Len(mOrder) : mState[mOrder[k]] = 2
  BY <1>3
<1>5. PICK l : l = mAdj'
  OBVIOUS
<1>6. FramesOK(l, mState, <<>>) /\ LeftOK(l, mState, <<>>) /\ OrderOK(l, mState, mOrder)
  BY <1>2, <1>3, <1>4, NothingSearched
<1> QED BY <1>1, <1>2, <1>5, <1>6 DEF SearchInv

LEMMA SearchCalls ==
  ASSUME MakeInv, Make!NextTask
  PROVE  SearchInv'
<1>1. /\ mPhase = "testing" /\ mStack = <<>> /\ mTask < MakeTasks /\ mTask' = mTask + 1
      /\ mPhase' = mPhase /\ mAdj' = mAdj /\ mOrder' = mOrder
  BY DEF Make!NextTask
<1>2. mTask \in 0 .. MakeTasks /\ MakeTasks \in Nat
  BY MakeAssumption DEF MakeInv, SearchInv, Make!MakeAssumption
<1>3. mTask \in TaskSet /\ mTask' \in 0 .. MakeTasks
  BY <1>1, <1>2 DEF TaskSet, Entry
<1>4. \A u \in TaskSet : u < mTask' => u < mTask \/ u = mTask
  BY <1>1, <1>2 DEF TaskSet, Entry
<1>5. mAdj \in Lists /\ mState \in States
  BY DEF MakeInv, ClustersInv, Lists, SearchInv
<1>6. CASE mState[mTask] = 0
  <2>1. mState' = Marked(mState, mTask) /\ mStack' = <<Called(mAdj, mTask)>> \o <<>>
    BY <1>1, <1>6 DEF Make!NextTask, Make!Call, Make!Mark, Make!Activation, Marked, Called
  <2>2. PICK z : z = mStack'
    OBVIOUS
  <2>3. PICK n : n = mState'
    OBVIOUS
  <2>4. LeftOK(mAdj, mState, <<>>) /\ OrderOK(mAdj, mState, mOrder)
    BY <1>1 DEF MakeInv, SearchInv
  <2>5. z = <<Called(mAdj, mTask)>> \o <<>> /\ n = Marked(mState, mTask)
    BY <2>1, <2>2, <2>3
  <2>6. n \in States /\ FramesOK(mAdj, n, z) /\ LeftOK(mAdj, n, z) /\ OrderOK(mAdj, n, mOrder)
    BY <1>3, <1>5, <1>6, <2>4, <2>5, FirstCall
  <2>7. \A u \in TaskSet : u < mTask' => n[u] # 0
    <3>1. n[mTask] = 1 /\ \A u \in TaskSet : u # mTask => n[u] = mState[u]
      BY <1>3, <1>5, <2>5 DEF States, Marked
    <3>2. \A u \in TaskSet : u < mTask => mState[u] # 0
      BY DEF MakeInv, SearchInv
    <3> QED BY <1>4, <3>1, <3>2
  <2> QED BY <1>1, <1>3, <2>2, <2>3, <2>6, <2>7 DEF SearchInv
<1>7. CASE mState[mTask] # 0
  <2>1. mState' = mState /\ mStack' = mStack
    BY <1>7 DEF Make!NextTask
  <2> QED BY <1>1, <1>3, <1>4, <1>7, <2>1 DEF MakeInv, SearchInv
<1> QED BY <1>6, <1>7

LEMMA SearchDescends ==
  ASSUME MakeInv, Make!Descend
  PROVE  SearchInv'
<1>1. /\ mPhase = "testing" /\ mPhase' = mPhase /\ mAdj' = mAdj /\ mOrder' = mOrder
      /\ mTask' = mTask /\ HasEdge(mStack) /\ Make!Target = NextEdge(mStack)
      /\ mState[NextEdge(mStack)] = 0
  BY DEF Make!Descend, Make!Looking, Make!Target, HasEdge, NextEdge
<1>2. PICK t : t = NextEdge(mStack)
  OBVIOUS
<1>3. /\ mState' = Marked(mState, t) /\ mStack' = StackAt(mAdj, mStack, t)
  BY <1>1, <1>2
     DEF Make!Descend, Make!Mark, Make!Activation, Marked, StackAt, Called, Advanced
<1>4. mAdj \in Lists /\ mState \in States
  BY DEF MakeInv, ClustersInv, Lists, SearchInv
<1>5. /\ FramesOK(mAdj, mState, mStack) /\ LeftOK(mAdj, mState, mStack)
      /\ OrderOK(mAdj, mState, mOrder) /\ \A u \in TaskSet : u < mTask => mState[u] # 0
  BY DEF MakeInv, SearchInv
<1>6. PICK z : z = mStack'
  OBVIOUS
<1>7. PICK n : n = mState'
  OBVIOUS
<1>8. z = StackAt(mAdj, mStack, t) /\ n = Marked(mState, t) /\ mState[t] = 0
  BY <1>1, <1>2, <1>3, <1>6, <1>7
<1>9. n \in States /\ FramesOK(mAdj, n, z) /\ LeftOK(mAdj, n, z) /\ OrderOK(mAdj, n, mOrder)
  BY <1>1, <1>2, <1>4, <1>5, <1>8, DeeperCall
<1>10. \A u \in TaskSet : mState[u] # 0 => n[u] # 0
  BY <1>4, <1>8 DEF States, Marked
<1>11. mTask \in 0 .. MakeTasks
  BY DEF MakeInv, SearchInv
<1> QED BY <1>1, <1>5, <1>6, <1>7, <1>9, <1>10, <1>11 DEF SearchInv

LEMMA SearchSkips ==
  ASSUME MakeInv, Make!SkipFinished
  PROVE  SearchInv'
<1>1. /\ mPhase = "testing" /\ mPhase' = mPhase /\ mAdj' = mAdj /\ mOrder' = mOrder
      /\ mTask' = mTask /\ mState' = mState /\ HasEdge(mStack)
      /\ mState[NextEdge(mStack)] = 2 /\ mStack' = StackSkipped(mStack)
  BY DEF Make!SkipFinished, Make!Looking, Make!Finished, Make!Target, HasEdge, NextEdge,
         StackSkipped, Advanced
<1>2. mAdj \in Lists /\ mState \in States
  BY DEF MakeInv, ClustersInv, Lists, SearchInv
<1>3. FramesOK(mAdj, mState, mStack) /\ LeftOK(mAdj, mState, mStack)
  BY DEF MakeInv, SearchInv
<1>4. PICK z : z = mStack'
  OBVIOUS
<1>5. z = StackSkipped(mStack)
  BY <1>1, <1>4
<1>6. FramesOK(mAdj, mState, z) /\ LeftOK(mAdj, mState, z)
  BY <1>1, <1>2, <1>3, <1>5, EdgeSkipped
<1> QED BY <1>1, <1>4, <1>6 DEF MakeInv, SearchInv

LEMMA SearchMeets ==
  ASSUME MakeInv, Make!Cycle
  PROVE  SearchInv'
<1>1. /\ mPhase = "testing" /\ mPhase' = mPhase /\ mAdj' = mAdj /\ mOrder' = mOrder
      /\ mTask' = mTask /\ mState' = mState /\ HasEdge(mStack)
      /\ mState[NextEdge(mStack)] = 1 /\ mStack' = <<>>
  BY DEF Make!Cycle, Make!Looking, Make!Target, HasEdge, NextEdge
<1>2. mAdj \in Lists /\ mState \in States
  BY DEF MakeInv, ClustersInv, Lists, SearchInv
<1>3. FramesOK(mAdj, mState, mStack) /\ LeftOK(mAdj, mState, mStack)
  BY DEF MakeInv, SearchInv
<1>4. LeftOK(mAdj, mState, <<>>) /\ FramesOK(mAdj, mState, <<>>)
  BY <1>1, <1>2, <1>3, CycleMet, NoFrames
<1> QED BY <1>1, <1>4 DEF MakeInv, SearchInv

LEMMA SearchFinishes ==
  ASSUME MakeInv, Make!Finish
  PROVE  SearchInv'
<1>1. /\ mPhase = "testing" /\ mPhase' = mPhase /\ mAdj' = mAdj /\ mTask' = mTask
      /\ AllSeen(mStack)
  BY DEF Make!Finish, AllSeen
<1>2. PICK t : t = TopTask(mStack)
  OBVIOUS
<1>3. /\ mState' = Ended(mState, t) /\ mOrder' = Longer(mOrder, t) /\ mStack' = Popped(mStack)
  BY <1>2 DEF Make!Finish, Make!Record, Ended, Longer, TopTask, Popped
<1>4. mAdj \in Lists /\ mState \in States
  BY DEF MakeInv, ClustersInv, Lists, SearchInv
<1>5. /\ FramesOK(mAdj, mState, mStack) /\ LeftOK(mAdj, mState, mStack)
      /\ OrderOK(mAdj, mState, mOrder) /\ \A u \in TaskSet : u < mTask => mState[u] # 0
  BY DEF MakeInv, SearchInv
<1>6. PICK z : z = mStack'
  OBVIOUS
<1>7. PICK n : n = mState'
  OBVIOUS
<1>8. PICK q : q = mOrder'
  OBVIOUS
<1>9. z = Popped(mStack) /\ n = Ended(mState, t) /\ q = Longer(mOrder, t)
  BY <1>3, <1>6, <1>7, <1>8
<1>10. n \in States /\ FramesOK(mAdj, n, z) /\ LeftOK(mAdj, n, z) /\ OrderOK(mAdj, n, q)
  BY <1>1, <1>2, <1>4, <1>5, <1>9, TaskFinished
<1>11. \A u \in TaskSet : mState[u] # 0 => n[u] # 0
  BY <1>4, <1>9 DEF States, Ended
<1>12. mTask \in 0 .. MakeTasks
  BY DEF MakeInv, SearchInv
<1> QED BY <1>1, <1>5, <1>6, <1>7, <1>8, <1>10, <1>11, <1>12 DEF SearchInv

LEMMA MakeStep == MakeInv /\ [Make!Next]_(Make!vars) => MakeInv'
<1> SUFFICES ASSUME MakeInv, [Make!Next]_(Make!vars) PROVE MakeInv'
  OBVIOUS
<1>1. ASSUME NEW t \in TaskSet, NEW p \in TaskSet, Make!add_dependency(t, p) PROVE MakeInv'
  BY <1>1, MakeJoins, SearchBuilds DEF MakeInv
<1>2. ASSUME mAdj' = mAdj, mDSU' = mDSU, SearchInv' PROVE MakeInv'
  BY <1>2 DEF MakeInv, ClustersInv
<1>3. CASE Make!StartTest
  <2>1. /\ mPhase' = "testing" /\ mAdj' = mAdj /\ mDSU' = mDSU /\ mState' = mState
        /\ mOrder' = mOrder /\ mTask' = mTask /\ mStack' = mStack
    BY <1>3 DEF Make!StartTest
  <2>2. SearchInv'
    BY <2>1 DEF MakeInv, SearchInv
  <2> QED BY <1>2, <2>1, <2>2
<1>4. CASE Make!NextTask
  BY <1>2, <1>4, SearchCalls DEF Make!NextTask
<1>5. CASE Make!has_cycle
  <2>1. CASE Make!Descend
    BY <1>2, <2>1, SearchDescends DEF Make!Descend
  <2>2. CASE Make!SkipFinished
    BY <1>2, <2>2, SearchSkips DEF Make!SkipFinished
  <2>3. CASE Make!Cycle
    BY <1>2, <2>3, SearchMeets DEF Make!Cycle
  <2>4. CASE Make!Finish
    BY <1>2, <2>4, SearchFinishes DEF Make!Finish
  <2> QED BY <1>5, <2>1, <2>2, <2>3, <2>4 DEF Make!has_cycle
<1>6. CASE Make!EndTest
  <2>1. /\ mPhase' = "done" /\ mAdj' = mAdj /\ mDSU' = mDSU /\ mState' = mState
        /\ mOrder' = mOrder /\ mTask' = mTask /\ mStack' = mStack
        /\ mTask = MakeTasks /\ mStack = <<>>
    BY <1>6 DEF Make!EndTest
  <2>2. SearchInv'
    BY <2>1 DEF MakeInv, SearchInv
  <2> QED BY <1>2, <2>1, <2>2
<1>7. CASE UNCHANGED Make!vars
  BY <1>7 DEF Make!vars, MakeInv, ClustersInv, SearchInv
<1> QED BY <1>1, <1>3, <1>4, <1>5, <1>6, <1>7
        DEF Make!Next, Make!Terminated, Make!Tasks, TaskSet, Entry

(* Whoever can follow dependencies for ever was not put in order, and who was
   left out of the order can.                                               *)
LEMMA CyclicAreLeft ==
  ASSUME NEW l \in Lists, NEW m \in States, NEW o, LeftOK(l, m, <<>>), OrderOK(l, m, o),
         \A t \in TaskSet : m[t] # 0
  PROVE  /\ \A t \in TaskSet : m[t] = 1 =>
              \E S \in SUBSET TaskSet : t \in S /\ \A u \in S : Needs(l, u) \cap S # {}
         /\ \A S \in SUBSET TaskSet : (\A u \in S : Needs(l, u) \cap S # {}) =>
              \A t \in S : m[t] = 1
<1>1. ASSUME NEW t \in TaskSet, m[t] = 1
      PROVE  \E S \in SUBSET TaskSet : t \in S /\ \A u \in S : Needs(l, u) \cap S # {}
  <2> DEFINE S == {u \in TaskSet : m[u] = 1}
  <2>1. OnStack(<<>>) = {}
    BY DEF OnStack
  <2>2. ASSUME NEW u \in S PROVE Needs(l, u) \cap S # {}
    <3>1. PICK p \in Needs(l, u) : m[p] = 1
      BY <2>1 DEF LeftOK
    <3>2. p \in TaskSet
      BY NeedsTasks
    <3> QED BY <3>1, <3>2
  <2>3. t \in S /\ S \in SUBSET TaskSet
    BY <1>1
  <2> HIDE DEF S
  <2> QED BY <2>2, <2>3
<1>2. ASSUME NEW S \in SUBSET TaskSet, \A u \in S : Needs(l, u) \cap S # {}, NEW t \in S
      PROVE  m[t] = 1
  <2>1. m[t] \in 0 .. 2 /\ t \in TaskSet
    BY DEF States
  <2>2. SUFFICES ASSUME m[t] = 2 PROVE FALSE
    BY <2>1
  <2>3. /\ o \in Seq(TaskSet) /\ Len(o) \in Nat
        /\ \A u \in TaskSet : m[u] = 2 <=> \E k \in 1 .. Len(o) : o[k] = u
        /\ \A k \in 1 .. Len(o) : \A p \in Needs(l, o[k]) :
             \E j \in 1 .. Len(o) : j < k /\ o[j] = p
    BY DEF OrderOK
  <2> DEFINE Bad == {k \in 1 .. Len(o) : o[k] \in S}
  <2>4. Bad # {}
    BY <2>1, <2>2, <2>3
  <2>5. Bad \subseteq Nat
    BY <2>3
  <2>6. PICK k \in Bad : \A j \in Bad : k <= j
    <3> HIDE DEF Bad
    <3> QED BY <2>4, <2>5, LeastOf
  <2>7. PICK p \in S : p \in Needs(l, o[k])
    BY <1>2, <2>6
  <2>8. PICK j \in 1 .. Len(o) : j < k /\ o[j] = p
    BY <2>3, <2>6, <2>7
  <2>9. j \in Bad /\ j \in Nat /\ k \in Nat
    BY <2>3, <2>7, <2>8
  <2> QED BY <2>6, <2>8, <2>9
<1> QED BY <1>1, <1>2

(* test_graph_for_cycles and has_cycle: the order and those left out.       *)
LEMMA OrderSound ==
  ASSUME MakeInv
  PROVE  Make!Clusters /\ Make!SearchSound
<1>1. /\ mAdj \in Lists /\ mState \in States /\ mTask \in 0 .. MakeTasks
      /\ FramesOK(mAdj, mState, mStack) /\ LeftOK(mAdj, mState, mStack)
      /\ OrderOK(mAdj, mState, mOrder) /\ mPhase \in {"building", "testing", "done"}
  BY DEF MakeInv, SearchInv, ClustersInv, Lists
<1>2. Make!Clusters /\ mDSU \in [TaskSet -> (-MakeTasks .. -1) \cup TaskSet]
  BY ClustersSound DEF MakeInv
<1>3. \A s : Make!ToSet(s) = {s[k] : k \in DOMAIN s}
  BY DEF Make!ToSet
<1>4. \A t \in TaskSet : Make!ToSet(mAdj[t]) = Needs(mAdj, t)
  <2> SUFFICES ASSUME NEW t \in TaskSet PROVE Make!ToSet(mAdj[t]) = Needs(mAdj, t)
    OBVIOUS
  <2>1. mAdj[t] \in Seq(TaskSet)
    BY <1>1 DEF Lists
  <2> QED BY <2>1 DEF Make!ToSet, Needs
<1>5. Make!Tasks = TaskSet
  BY DEF Make!Tasks, TaskSet, Entry
<1>6. /\ mOrder \in Seq(TaskSet) /\ DOMAIN mOrder = 1 .. Len(mOrder) /\ Len(mOrder) \in Nat
      /\ \A j, k \in 1 .. Len(mOrder) : mOrder[j] = mOrder[k] => j = k
      /\ \A t \in TaskSet : mState[t] = 2 <=> \E k \in 1 .. Len(mOrder) : mOrder[k] = t
      /\ \A k \in 1 .. Len(mOrder) : \A p \in Needs(mAdj, mOrder[k]) :
           \E j \in 1 .. Len(mOrder) : j < k /\ mOrder[j] = p
  BY <1>1 DEF OrderOK
<1>7. Make!TypeOK
  <2>1. Make!IsInjective(mOrder)
    BY <1>6 DEF Make!IsInjective
  <2>2. {mStack[k].task : k \in DOMAIN mStack} \subseteq {t \in TaskSet : mState[t] = 1}
    <3>1. mStack \in Seq(Frame) /\ DOMAIN mStack = 1 .. Len(mStack)
      BY <1>1 DEF FramesOK
    <3>2. \A k \in 1 .. Len(mStack) : mStack[k] \in Frame
      BY <3>1
    <3>3. \A k \in 1 .. Len(mStack) : mStack[k].task \in TaskSet
      BY <3>2 DEF Frame
    <3>4. \A k \in 1 .. Len(mStack) : mState[mStack[k].task] = 1
      BY <1>1 DEF FramesOK, FrameOK
    <3> QED BY <3>1, <3>3, <3>4
  <2> QED BY <1>1, <1>2, <1>5, <1>6, <2>1, <2>2 DEF Make!TypeOK, Lists, States
<1>8. Make!PrerequisitesFirst
  <2> SUFFICES ASSUME NEW k \in 1 .. Len(mOrder), NEW p \in Make!ToSet(mAdj[mOrder[k]])
               PROVE  \E j \in 1 .. k - 1 : mOrder[j] = p
    BY <1>6 DEF Make!PrerequisitesFirst
  <2>1. mOrder[k] \in TaskSet
    BY <1>6
  <2>2. p \in Needs(mAdj, mOrder[k])
    BY <1>4, <2>1
  <2>3. PICK j \in 1 .. Len(mOrder) : j < k /\ mOrder[j] = p
    BY <1>6, <2>2
  <2>4. j \in 1 .. k - 1
    BY <1>6, <2>3
  <2> QED BY <2>3, <2>4
<1>9. Make!CyclesFound
  <2> SUFFICES ASSUME mPhase = "done"
               PROVE  /\ {t \in Make!Tasks : mState[t] = 1} = Make!Cyclic
                      /\ Make!ToSet(mOrder) = Make!Tasks \ Make!Cyclic
    BY DEF Make!CyclesFound
  <2>1. mTask = MakeTasks /\ mStack = <<>> /\ \A t \in TaskSet : t < mTask => mState[t] # 0
    BY DEF MakeInv, SearchInv
  <2>2. \A t \in TaskSet : mState[t] # 0
    <3>1. \A t \in TaskSet : t < MakeTasks
      BY MakeAssumption DEF TaskSet, Entry, Make!MakeAssumption
    <3> QED BY <2>1, <3>1
  <2>3. /\ \A t \in TaskSet : mState[t] = 1 =>
              \E S \in SUBSET TaskSet : t \in S /\ \A u \in S : Needs(mAdj, u) \cap S # {}
        /\ \A S \in SUBSET TaskSet : (\A u \in S : Needs(mAdj, u) \cap S # {}) =>
              \A t \in S : mState[t] = 1
    BY <1>1, <2>1, <2>2, CyclicAreLeft
  <2>4. Make!Cyclic = UNION {S \in SUBSET TaskSet : \A u \in S : Needs(mAdj, u) \cap S # {}}
    BY <1>4, <1>5 DEF Make!Cyclic
  <2>5. {t \in TaskSet : mState[t] = 1} = Make!Cyclic
    <3>1. ASSUME NEW t \in TaskSet, mState[t] = 1 PROVE t \in Make!Cyclic
      BY <2>3, <2>4, <3>1
    <3>2. ASSUME NEW t \in Make!Cyclic PROVE t \in TaskSet /\ mState[t] = 1
      BY <2>3, <2>4
    <3> QED BY <3>1, <3>2
  <2>6. Make!ToSet(mOrder) = {t \in TaskSet : mState[t] = 2}
    <3>1. Make!ToSet(mOrder) = {mOrder[k] : k \in 1 .. Len(mOrder)}
      BY <1>3, <1>6
    <3>2. \A k \in 1 .. Len(mOrder) : mOrder[k] \in TaskSet
      BY <1>6
    <3> QED BY <1>6, <3>1, <3>2
  <2>7. \A t \in TaskSet : mState[t] = 2 <=> mState[t] # 1
    <3>1. \A t \in TaskSet : mState[t] \in 0 .. 2
      BY <1>1 DEF States
    <3> QED BY <2>2, <3>1
  <2> QED BY <1>5, <2>5, <2>6, <2>7
<1> QED BY <1>2, <1>7, <1>8, <1>9 DEF Make!SearchSound

(* For any number of tasks and any dependencies, the clusters of micro-make.c
   are what the dependencies connect and its order puts every task after its
   prerequisites; what it leaves out is what leads to a cycle, however early
   a cycle cut the search short.                                            *)
THEOREM BuildIsOrdered == Make!Spec => [](Make!Clusters /\ Make!SearchSound)
<1>1. Make!Init => MakeInv
  BY MakeInit, SearchInit DEF MakeInv
<1> QED BY <1>1, MakeStep, OrderSound, PTL DEF Make!Spec
-----------------------------------------------------------------------------
(* Proofs: the two walks of BFS_and_DFS.c, for any matrix of edges and any  *)
(* vertices they start from.                                                *)

VertexSet == 1 .. WalkSize - 1

LEMMA VerticesAre == WalkSize \in Nat /\ Walk!Vertices = VertexSet /\ WalkStarts \subseteq VertexSet
BY WalkAssumption DEF Walk!WalkAssumption, Walk!Vertices, VertexSet

\* f lists the elements of S from the lowest to the highest.
Listing(f, S, n) ==
  /\ f \in [1 .. n -> S]
  /\ \A v \in S : \E k \in 1 .. n : f[k] = v
  /\ \A j, k \in 1 .. n : j < k => f[j] < f[k]

\* One more element, higher than the others.
LEMMA ListingGrows ==
  ASSUME NEW S, NEW n \in Nat, NEW f, Listing(f, S, n), S \subseteq Nat, NEW x \in Nat,
         \A v \in S : v < x
  PROVE  \E g : Listing(g, S \cup {x}, n + 1)
<1> DEFINE T == S \cup {x}
           g == [k \in 1 .. n + 1 |-> IF k = n + 1 THEN x ELSE f[k]]
<1>1. f \in [1 .. n -> S] /\ \A v \in S : \E k \in 1 .. n : f[k] = v
  BY DEF Listing
<1>2. \A j, k \in 1 .. n : j < k => f[j] < f[k]
  BY DEF Listing
<1>3. \A k \in 1 .. n : k \in 1 .. n + 1 /\ k # n + 1 /\ k < n + 1 /\ f[k] \in S
  BY <1>1
<1>4. \A k \in 1 .. n + 1 : k \in 1 .. n \/ k = n + 1
  OBVIOUS
<1>5. n + 1 \in 1 .. n + 1
  OBVIOUS
<1>6. (\A k \in 1 .. n : g[k] = f[k]) /\ g[n + 1] = x
  BY <1>3, <1>5
<1>7. g \in [1 .. n + 1 -> T]
  <2>1. \A k \in 1 .. n + 1 : (IF k = n + 1 THEN x ELSE f[k]) \in T
    BY <1>3, <1>4
  <2> QED BY <2>1
<1> HIDE DEF g
<1>8. \A v \in T : \E k \in 1 .. n + 1 : g[k] = v
  <2> SUFFICES ASSUME NEW v \in T PROVE \E k \in 1 .. n + 1 : g[k] = v
    OBVIOUS
  <2>1. CASE v \in S
    <3>1. PICK k \in 1 .. n : f[k] = v
      BY <2>1, <1>1
    <3> QED BY <3>1, <1>3, <1>6
  <2>2. CASE v = x
    BY <2>2, <1>5, <1>6
  <2> QED BY <2>1, <2>2
<1>9. \A j, k \in 1 .. n + 1 : j < k => g[j] < g[k]
  <2> SUFFICES ASSUME NEW j \in 1 .. n + 1, NEW k \in 1 .. n + 1, j < k PROVE g[j] < g[k]
    OBVIOUS
  <2>1. j \in 1 .. n
    OBVIOUS
  <2>2. g[j] = f[j] /\ f[j] \in S
    BY <2>1, <1>3, <1>6
  <2>3. CASE k \in 1 .. n
    <3>1. f[j] < f[k] /\ g[k] = f[k]
      BY <2>1, <2>3, <1>2, <1>6
    <3> QED BY <2>2, <3>1
  <2>4. CASE k = n + 1
    BY <2>2, <2>4, <1>6
  <2> QED BY <2>3, <2>4, <1>4
<1> QED BY <1>7, <1>8, <1>9 DEF Listing

\* The greatest of some numbers below a bound.
LEMMA GreatestOf ==
  ASSUME NEW n \in Nat, NEW S, S \subseteq 1 .. n, S # {}
  PROVE  \E x \in S : \A v \in S : v <= x
<1> DEFINE Bad == {k \in Nat : \E v \in S : k = n - v}
<1>1. \A v \in S : n - v \in Bad
  OBVIOUS
<1>2. Bad # {} /\ Bad \subseteq Nat
  BY <1>1
<1>3. PICK k \in Bad : \A j \in Bad : k <= j
  BY <1>2, LeastOf
<1>4. PICK x \in S : k = n - x
  OBVIOUS
<1>5. ASSUME NEW v \in S PROVE v <= x
  <2>1. k <= n - v
    BY <1>1, <1>3
  <2>2. v \in 1 .. n /\ x \in 1 .. n
    OBVIOUS
  <2> QED BY <2>1, <2>2, <1>4
<1> QED BY <1>5

\* Every set of vertices can be listed.
LEMMA ListingExists ==
  ASSUME NEW m \in Nat, NEW S, S \subseteq 1 .. m
  PROVE  IsFiniteSet(S) /\ Cardinality(S) \in Nat /\ \E f : Listing(f, S, Cardinality(S))
<1> DEFINE V == 1 .. m
           Bad == {n \in Nat : \E T \in SUBSET V :
                     Cardinality(T) = n /\ ~ \E f : Listing(f, T, Cardinality(T))}
<1>1. IsFiniteSet(V)
  BY FS_Interval
<1>2. \A T \in SUBSET V : IsFiniteSet(T) /\ Cardinality(T) \in Nat
  BY <1>1, FS_Subset, FS_CardinalityType
<1>3. Bad = {}
  <2> SUFFICES ASSUME Bad # {} PROVE FALSE
    OBVIOUS
  <2>1. PICK n \in Bad : \A j \in Bad : n <= j
    BY LeastOf
  <2>2. PICK T \in SUBSET V : Cardinality(T) = n /\ ~ \E f : Listing(f, T, Cardinality(T))
    OBVIOUS
  <2>3. T # {}
    <3> SUFFICES ASSUME T = {} PROVE FALSE
      OBVIOUS
    <3>1. Cardinality(T) = 0
      BY FS_EmptySet
    <3>2. Listing(<<>>, T, 0)
      BY DEF Listing
    <3> QED BY <3>1, <3>2, <2>2
  <2>4. PICK x \in T : \A v \in T : v <= x
    BY <2>3, GreatestOf
  <2> DEFINE U == T \ {x}
  <2>5. IsFiniteSet(U) /\ U \in SUBSET V /\ x \notin U /\ U \cup {x} = T
    BY <1>2
  <2>6. PICK c \in Nat : c = Cardinality(U)
    BY <1>2, <2>5
  <2>7. n = c + 1
    BY <2>2, <2>5, <2>6, FS_AddElement
  <2>8. c \notin Bad
    BY <2>1, <2>6, <2>7
  <2>9. PICK f : Listing(f, U, c)
    BY <2>5, <2>6, <2>8
  <2>10. \A v \in U : v < x
    BY <2>4
  <2>11. U \subseteq Nat /\ x \in Nat
    OBVIOUS
  <2> HIDE DEF U
  <2>12. \E g : Listing(g, U \cup {x}, c + 1)
    BY <2>9, <2>10, <2>11, ListingGrows
  <2> QED BY <2>12, <2>5, <2>7, <2>2
<1>4. S \in SUBSET V
  OBVIOUS
<1> QED BY <1>2, <1>3, <1>4

\* What the loop over the vertices finds.
LEMMA FoundInOrder ==
  ASSUME NEW S, S \subseteq VertexSet
  PROVE  \E n \in Nat : Listing(Walk!InOrder(S), S, n)
<1>1. PICK m \in Nat : S \subseteq 1 .. m
  <2>1. VertexSet \subseteq 1 .. WalkSize
    BY VerticesAre DEF VertexSet
  <2> QED BY <2>1, VerticesAre
<1>2. PICK n \in Nat : n = Cardinality(S)
  BY <1>1, ListingExists
<1>3. \E f : Listing(f, S, n)
  BY <1>1, <1>2, ListingExists
<1> DEFINE P(f) == /\ \A v \in S : \E k \in DOMAIN f : f[k] = v
                   /\ \A j, k \in DOMAIN f : j < k => f[j] < f[k]
<1>4. Walk!InOrder(S) = CHOOSE f \in [1 .. n -> S] : P(f)
  <2>1. Walk!Cardinality(S) = n
    BY <1>2 DEF Walk!Cardinality, Cardinality
  <2> QED BY <2>1 DEF Walk!InOrder
<1>5. \A f \in [1 .. n -> S] : DOMAIN f = 1 .. n
  OBVIOUS
<1>6. \E f \in [1 .. n -> S] : P(f)
  BY <1>3, <1>5 DEF Listing
<1>7. Walk!InOrder(S) \in [1 .. n -> S] /\ P(Walk!InOrder(S))
  BY <1>4, <1>6
<1> QED BY <1>5, <1>7 DEF Listing

\* q goes on from p with f.
Extends(p, f, q) ==
  /\ Len(q) = Len(p) + Len(f)
  /\ \A k \in 1 .. Len(p) : q[k] = p[k]
  /\ \A k \in 1 .. Len(f) : q[Len(p) + k] = f[k]

LEMMA ConcatExtends ==
  ASSUME NEW p \in Seq(VertexSet), NEW f \in Seq(VertexSet), NEW q, q = p \o f
  PROVE  q \in Seq(VertexSet) /\ Extends(p, f, q)
<1>1. PICK m \in Nat : m = Len(p)
  BY LenProperties
<1>2. PICK n \in Nat : n = Len(f)
  BY LenProperties
<1>3. /\ q \in Seq(VertexSet) /\ Len(q) = m + n
      /\ \A i \in 1 .. m + n : q[i] = IF i <= m THEN p[i] ELSE f[i - m]
  BY <1>1, <1>2, ConcatProperties
<1>4. \A k \in 1 .. m : q[k] = p[k]
  BY <1>3
<1>5. \A k \in 1 .. n : q[m + k] = f[k]
  <2> SUFFICES ASSUME NEW k \in 1 .. n PROVE q[m + k] = f[k]
    OBVIOUS
  <2>1. PICK i \in 1 .. m + n : i = m + k /\ ~(i <= m) /\ i - m = k
    OBVIOUS
  <2> QED BY <1>3, <2>1
<1> QED BY <1>1, <1>2, <1>3, <1>4, <1>5 DEF Extends

\* An entry of q is one of p or one of f.
LEMMA EntryOfBoth ==
  ASSUME NEW p \in Seq(VertexSet), NEW f \in Seq(VertexSet), NEW q, Extends(p, f, q),
         NEW k \in 1 .. Len(q)
  PROVE  \/ k \in 1 .. Len(p) /\ q[k] = p[k]
         \/ \E j \in 1 .. Len(f) : k = Len(p) + j /\ q[k] = f[j]
<1>1. PICK m \in Nat : m = Len(p)
  BY LenProperties
<1>2. PICK n \in Nat : n = Len(f)
  BY LenProperties
<1>3. /\ Len(q) = m + n
      /\ \A i \in 1 .. m : q[i] = p[i]
      /\ \A i \in 1 .. n : q[m + i] = f[i]
  BY <1>1, <1>2 DEF Extends
<1>4. k \in 1 .. m + n
  BY <1>3
<1>5. CASE k \in 1 .. m
  BY <1>1, <1>3, <1>5
<1>6. CASE k \notin 1 .. m
  <2>1. PICK j \in 1 .. n : k = m + j
    <3>1. k - m \in 1 .. n /\ k = m + (k - m)
      BY <1>4, <1>6
    <3> QED BY <3>1
  <2>2. q[k] = f[j]
    BY <1>3, <2>1
  <2> QED BY <1>1, <1>2, <2>1, <2>2
<1> QED BY <1>5, <1>6

\* p lists the visited vertices, each once.
Listed(p, vis) ==
  /\ p \in Seq(VertexSet) /\ vis \subseteq VertexSet
  /\ \A k \in 1 .. Len(p) : p[k] \in vis
  /\ \A v \in vis : \E k \in 1 .. Len(p) : p[k] = v
  /\ \A j, k \in 1 .. Len(p) : p[j] = p[k] => j = k

\* f lists some more, each once.
MoreOf(f, new) ==
  /\ f \in Seq(VertexSet) /\ new \subseteq VertexSet
  /\ \A k \in 1 .. Len(f) : f[k] \in new
  /\ \A v \in new : \E k \in 1 .. Len(f) : f[k] = v
  /\ \A j, k \in 1 .. Len(f) : f[j] = f[k] => j = k

LEMMA ListGrows ==
  ASSUME NEW p, NEW vis, Listed(p, vis), NEW f, NEW new, MoreOf(f, new), new \cap vis = {},
         NEW q \in Seq(VertexSet), Extends(p, f, q)
  PROVE  Listed(q, vis \cup new)
<1>1. PICK m \in Nat : m = Len(p)
  BY LenProperties DEF Listed
<1>2. PICK n \in Nat : n = Len(f)
  BY LenProperties DEF MoreOf
<1>3. /\ Len(q) = m + n
      /\ \A k \in 1 .. m : q[k] = p[k]
      /\ \A k \in 1 .. n : q[m + k] = f[k]
  BY <1>1, <1>2 DEF Extends
<1>4. /\ \A k \in 1 .. m : p[k] \in vis
      /\ \A v \in vis : \E k \in 1 .. m : p[k] = v
  BY <1>1 DEF Listed
<1>5. \A j, k \in 1 .. m : p[j] = p[k] => j = k
  BY <1>1 DEF Listed
<1>6. /\ \A k \in 1 .. n : f[k] \in new
      /\ \A v \in new : \E k \in 1 .. n : f[k] = v
  BY <1>2 DEF MoreOf
<1>7. \A j, k \in 1 .. n : f[j] = f[k] => j = k
  BY <1>2 DEF MoreOf
<1>8. \A k \in 1 .. m + n : k \in 1 .. m \/ \E j \in 1 .. n : k = m + j
  <2> SUFFICES ASSUME NEW k \in 1 .. m + n, k \notin 1 .. m PROVE \E j \in 1 .. n : k = m + j
    OBVIOUS
  <2>1. k - m \in 1 .. n /\ k = m + (k - m)
    OBVIOUS
  <2> QED BY <2>1
<1>9. \A k \in 1 .. m : k \in 1 .. m + n
  OBVIOUS
<1>10. \A k \in 1 .. n : m + k \in 1 .. m + n
  OBVIOUS
<1>11. \A k \in 1 .. m : q[k] \in vis
  BY <1>3, <1>4
<1>12. ASSUME NEW k \in 1 .. m + n, k \notin 1 .. m PROVE q[k] \in new
  <2>1. PICK j \in 1 .. n : k = m + j
    BY <1>8, <1>12
  <2>2. q[k] = f[j]
    BY <2>1, <1>3
  <2> QED BY <2>2, <1>6
<1>13. \A k \in 1 .. m + n : q[k] \in vis \cup new
  BY <1>11, <1>12
<1>14. \A v \in vis \cup new : \E k \in 1 .. m + n : q[k] = v
  <2> SUFFICES ASSUME NEW v \in vis \cup new PROVE \E k \in 1 .. m + n : q[k] = v
    OBVIOUS
  <2>1. CASE v \in vis
    BY <2>1, <1>3, <1>4, <1>9
  <2>2. CASE v \in new
    BY <2>2, <1>3, <1>6, <1>10
  <2> QED BY <2>1, <2>2
<1>15. \A j, k \in 1 .. m + n : q[j] = q[k] => j = k
  <2> SUFFICES ASSUME NEW j \in 1 .. m + n, NEW k \in 1 .. m + n, q[j] = q[k] PROVE j = k
    OBVIOUS
  <2>1. CASE j \in 1 .. m /\ k \in 1 .. m
    BY <2>1, <1>3, <1>5
  <2>2. CASE j \in 1 .. m /\ k \notin 1 .. m
    BY <2>2, <1>11, <1>12
  <2>3. CASE j \notin 1 .. m /\ k \in 1 .. m
    BY <2>3, <1>11, <1>12
  <2>4. CASE j \notin 1 .. m /\ k \notin 1 .. m
    <3>1. PICK a \in 1 .. n : j = m + a
      BY <2>4, <1>8
    <3>2. PICK b \in 1 .. n : k = m + b
      BY <2>4, <1>8
    <3>3. f[a] = f[b]
      BY <3>1, <3>2, <1>3
    <3> QED BY <3>1, <3>2, <3>3, <1>7
  <2> QED BY <2>1, <2>2, <2>3, <2>4
<1>16. vis \cup new \subseteq VertexSet
  BY DEF Listed, MoreOf
<1> QED BY <1>3, <1>13, <1>14, <1>15, <1>16 DEF Listed

Linked(m, v, w) == {v, w} \in m
NoneLeaves(m, S) == \A v, w \in VertexSet : Linked(m, v, w) /\ v \in S => w \in S

LEMMA LinksAreSymmetric ==
  ASSUME NEW m, NEW v, NEW w, Linked(m, v, w)
  PROVE  Linked(m, w, v)
<1>1. {v, w} = {w, v}
  OBVIOUS
<1> QED BY <1>1 DEF Linked

LEMMA ClosedIs ==
  ASSUME wMatrix \subseteq Walk!Edges, NEW S
  PROVE  Walk!Closed(S) <=> NoneLeaves(wMatrix, S)
<1>1. \A e \in wMatrix : \E v, w \in VertexSet : e = {v, w}
  BY VerticesAre DEF Walk!Edges, Walk!Pairs
<1>2. ASSUME Walk!Closed(S) PROVE NoneLeaves(wMatrix, S)
  <2> SUFFICES ASSUME NEW v \in VertexSet, NEW w \in VertexSet, Linked(wMatrix, v, w), v \in S
               PROVE  w \in S
    BY DEF NoneLeaves
  <2>1. {v, w} \in wMatrix /\ {v, w} \cap S # {}
    BY DEF Linked
  <2>2. {v, w} \subseteq S
    BY <1>2, <2>1 DEF Walk!Closed
  <2> QED BY <2>2
<1>3. ASSUME NoneLeaves(wMatrix, S) PROVE Walk!Closed(S)
  <2> SUFFICES ASSUME NEW e \in wMatrix, e \cap S # {} PROVE e \subseteq S
    BY DEF Walk!Closed
  <2>1. PICK v, w \in VertexSet : e = {v, w}
    BY <1>1
  <2>2. Linked(wMatrix, v, w) /\ Linked(wMatrix, w, v)
    BY <2>1, LinksAreSymmetric DEF Linked
  <2>3. v \in S \/ w \in S
    BY <2>1
  <2>4. v \in S /\ w \in S
    BY <1>3, <2>2, <2>3 DEF NoneLeaves
  <2> QED BY <2>1, <2>4
<1> QED BY <1>2, <1>3

\* What no edge leaves and holds where the walks began, holds all they visited.
Reached(m, st, vis) ==
  \A S \in SUBSET VertexSet : NoneLeaves(m, S) /\ (\A k \in 1 .. Len(st) : st[k] \in S) => vis \subseteq S

\* The vertices a step adds can be reached.
LEMMA ReachGrows ==
  ASSUME NEW m, NEW st, NEW vis, Reached(m, st, vis), NEW new, new \subseteq VertexSet,
         vis \subseteq VertexSet,
         \A w \in new : \E v \in vis : Linked(m, v, w)
  PROVE  Reached(m, st, vis \cup new)
<1> SUFFICES ASSUME NEW S \in SUBSET VertexSet, NoneLeaves(m, S),
                    \A k \in 1 .. Len(st) : st[k] \in S
             PROVE  vis \cup new \subseteq S
  BY DEF Reached
<1>1. vis \subseteq S
  BY DEF Reached
<1>2. ASSUME NEW w \in new PROVE w \in S
  <2>1. PICK v \in vis : Linked(m, v, w)
    OBVIOUS
  <2> QED BY <2>1, <1>1 DEF NoneLeaves
<1> QED BY <1>1, <1>2

\* A walk begins.
LEMMA ReachBegins ==
  ASSUME NEW m, NEW st \in Seq(VertexSet), NEW vis, Reached(m, st, vis), NEW v,
         NEW ts, Extends(st, <<v>>, ts)
  PROVE  Reached(m, ts, vis \cup {v})
<1> SUFFICES ASSUME NEW S \in SUBSET VertexSet, NoneLeaves(m, S),
                    \A k \in 1 .. Len(ts) : ts[k] \in S
             PROVE  vis \cup {v} \subseteq S
  BY DEF Reached
<1>1. PICK n \in Nat : n = Len(st)
  BY LenProperties
<1>2. Len(<<v>>) = 1 /\ <<v>>[1] = v
  OBVIOUS
<1>3. Len(ts) = n + 1 /\ (\A k \in 1 .. n : ts[k] = st[k]) /\ ts[n + 1] = v
  <2>1. 1 \in 1 .. Len(<<v>>)
    BY <1>2
  <2> QED BY <1>1, <1>2, <2>1 DEF Extends
<1>4. /\ n + 1 \in 1 .. n + 1
      /\ \A k \in 1 .. n : k \in 1 .. n + 1
  OBVIOUS
<1>5. v \in S /\ \A k \in 1 .. n : st[k] \in S
  BY <1>3, <1>4
<1>6. vis \subseteq S
  BY <1>1, <1>5 DEF Reached
<1> QED BY <1>5, <1>6

\* The unvisited vertices a vertex has an edge to.
New(m, v, vis) == {w \in VertexSet \ vis : Linked(m, v, w)}

LEMMA FreshIs == \A v : Walk!Fresh(v) = New(wMatrix, v, wVisited)
BY VerticesAre DEF Walk!Fresh, New, Linked

\* A listing is a sequence of all of them.
LEMMA ListingIsMore ==
  ASSUME NEW f, NEW S, S \subseteq VertexSet, NEW n \in Nat, Listing(f, S, n)
  PROVE  MoreOf(f, S) /\ Walk!ToSet(f) = S
<1>1. f \in [1 .. n -> S] /\ \A v \in S : \E k \in 1 .. n : f[k] = v
  BY DEF Listing
<1>2. f \in Seq(VertexSet) /\ Len(f) = n /\ DOMAIN f = 1 .. n
  BY <1>1
<1>3. Walk!ToSet(f) = S
  BY <1>1, <1>2 DEF Walk!ToSet
<1>4. ASSUME NEW j \in 1 .. n, NEW k \in 1 .. n, f[j] = f[k] PROVE j = k
  <2>1. f[j] \in Nat
    <3>1. f[j] \in VertexSet
      BY <1>1
    <3> QED BY <3>1, VerticesAre DEF VertexSet
  <2>2. ~(j < k)
    BY <1>4, <2>1 DEF Listing
  <2>3. ~(k < j)
    BY <1>4, <2>1 DEF Listing
  <2> QED BY <2>2, <2>3
<1> QED BY <1>1, <1>2, <1>3, <1>4 DEF MoreOf

(* Breadth first *)

\* The h vertices served lead to visited ones only.
Served(m, p, h, vis) == \A k \in 1 .. h : \A w \in VertexSet : Linked(m, p[k], w) => w \in vis

\* The first vertex with an edge to the k-th one is the j-th.
First(m, p, j, k) == Linked(m, p[j], p[k]) /\ \A i \in 1 .. j - 1 : ~Linked(m, p[i], p[k])

\* Each vertex was met first from one that was served, in their order.
Sourced(m, p, h) ==
  /\ \A k \in 2 .. Len(p) : \E j \in 1 .. h : First(m, p, j, k)
  /\ \A k, l \in 2 .. Len(p) : \A i, j \in 1 .. h :
       k < l /\ First(m, p, i, k) /\ First(m, p, j, l) => i <= j

\* The queue is the list but for its first h vertices.
Queued(q, p, h) ==
  /\ Len(p) = h + Len(q)
  /\ \A k \in 1 .. Len(q) : q[k] = p[h + k]

LEMMA FirstIsUnique ==
  ASSUME NEW m, NEW p, NEW k, NEW i \in Nat, NEW j \in Nat, i > 0, j > 0,
         First(m, p, i, k), First(m, p, j, k)
  PROVE  i = j
<1>1. ~(i < j)
  <2> SUFFICES ASSUME i < j PROVE FALSE
    OBVIOUS
  <2>1. i \in 1 .. j - 1
    OBVIOUS
  <2> QED BY <2>1 DEF First
<1>2. ~(j < i)
  <2> SUFFICES ASSUME j < i PROVE FALSE
    OBVIOUS
  <2>1. j \in 1 .. i - 1
    OBVIOUS
  <2> QED BY <2>1 DEF First
<1> QED BY <1>1, <1>2

\* One more vertex is served.
LEMMA ServedGrows ==
  ASSUME NEW m, NEW p \in Seq(VertexSet), NEW h \in Nat, h < Len(p), NEW vis,
         Served(m, p, h, vis), NEW new, New(m, p[h + 1], vis) \subseteq new,
         NEW f \in Seq(VertexSet), NEW q, Extends(p, f, q)
  PROVE  Served(m, q, h + 1, vis \cup new)
<1>1. PICK n \in Nat : n = Len(p)
  BY LenProperties
<1>2. \A k \in 1 .. n : q[k] = p[k]
  BY <1>1 DEF Extends
<1>3. \A k \in 1 .. h + 1 : k \in 1 .. n /\ (k \in 1 .. h \/ k = h + 1)
  BY <1>1
<1>4. SUFFICES ASSUME NEW k \in 1 .. h + 1, NEW w \in VertexSet, Linked(m, q[k], w)
               PROVE  w \in vis \cup new
  BY DEF Served
<1>5. Linked(m, p[k], w)
  BY <1>2, <1>3, <1>4
<1>6. CASE k \in 1 .. h
  BY <1>5, <1>6 DEF Served
<1>7. CASE k = h + 1
  <2>1. w \in vis \/ w \in New(m, p[h + 1], vis)
    BY <1>5, <1>7 DEF New
  <2> QED BY <2>1
<1> QED BY <1>3, <1>6, <1>7

\* The queue without its first vertex and with the new ones.
LEMMA QueueMoves ==
  ASSUME NEW p \in Seq(VertexSet), NEW z \in Seq(VertexSet), z # <<>>, NEW h \in Nat,
         Queued(z, p, h), NEW f \in Seq(VertexSet), NEW q, Extends(p, f, q),
         NEW y, y = Tail(z) \o f
  PROVE  Queued(y, q, h + 1) /\ y \in Seq(VertexSet) /\ h < Len(p) /\ Head(z) = p[h + 1]
<1>1. PICK n \in Nat : n = Len(z)
  BY LenProperties
<1>2. n > 0
  BY <1>1, EmptySeq
<1>3. PICK t \in Seq(VertexSet) : t = Tail(z)
  BY HeadTailProperties
<1>4. Len(t) = n - 1 /\ \A i \in 1 .. n - 1 : t[i] = z[i + 1]
  BY <1>1, <1>3, HeadTailProperties
<1>5. Len(p) = h + n /\ \A k \in 1 .. n : z[k] = p[h + k]
  BY <1>1 DEF Queued
<1>6. y \in Seq(VertexSet) /\ Extends(t, f, y)
  BY <1>3, ConcatExtends
<1>7. PICK c \in Nat : c = Len(f)
  BY LenProperties
<1>8. /\ Len(q) = h + n + c
      /\ \A k \in 1 .. h + n : q[k] = p[k]
      /\ \A k \in 1 .. c : q[h + n + k] = f[k]
  BY <1>5, <1>7 DEF Extends
<1>9. /\ Len(y) = n - 1 + c
      /\ \A k \in 1 .. n - 1 : y[k] = t[k]
      /\ \A k \in 1 .. c : y[n - 1 + k] = f[k]
  BY <1>4, <1>6, <1>7 DEF Extends
<1>10. ASSUME NEW k \in 1 .. n - 1 + c PROVE y[k] = q[h + 1 + k]
  <2>1. CASE k \in 1 .. n - 1
    <3>1. y[k] = z[k + 1]
      BY <2>1, <1>4, <1>9
    <3>2. PICK l \in 1 .. n : l = k + 1 /\ h + l = h + 1 + k /\ h + l \in 1 .. h + n
      BY <2>1
    <3>3. z[l] = p[h + l] /\ q[h + l] = p[h + l]
      BY <3>2, <1>5, <1>8
    <3> QED BY <3>1, <3>2, <3>3
  <2>2. CASE k \notin 1 .. n - 1
    <3>1. PICK l \in 1 .. c : k = n - 1 + l /\ h + 1 + k = h + n + l
      <4>1. k - (n - 1) \in 1 .. c
        BY <2>2
      <4> QED BY <4>1
    <3> QED BY <3>1, <1>8, <1>9
  <2> QED BY <2>1, <2>2
<1>11. Len(q) = h + 1 + Len(y)
  <2>1. h + n + c = h + 1 + (n - 1 + c)
    OBVIOUS
  <2> QED BY <2>1, <1>8, <1>9
<1>12. Queued(y, q, h + 1)
  BY <1>9, <1>10, <1>11 DEF Queued
<1>13. Head(z) = z[1]
  OBVIOUS
<1>14. z[1] = p[h + 1]
  BY <1>2, <1>5
<1> QED BY <1>2, <1>5, <1>6, <1>12, <1>13, <1>14

\* The vertices a step adds have the one it serves for their first source.
LEMMA SourcedGrows ==
  ASSUME NEW m, NEW p, NEW vis, Listed(p, vis), NEW h \in Nat, h < Len(p),
         Served(m, p, h, vis), Sourced(m, p, h),
         NEW new, new = New(m, p[h + 1], vis), NEW f, MoreOf(f, new),
         NEW q, Extends(p, f, q)
  PROVE  Sourced(m, q, h + 1)
<1>1. PICK n \in Nat : n = Len(p)
  BY LenProperties DEF Listed
<1>2. PICK c \in Nat : c = Len(f)
  BY LenProperties DEF MoreOf
<1>3. /\ Len(q) = n + c
      /\ \A k \in 1 .. n : q[k] = p[k]
      /\ \A k \in 1 .. c : q[n + k] = f[k]
  BY <1>1, <1>2 DEF Extends
<1>4. h < n
  BY <1>1
<1>5. ASSUME NEW j \in 1 .. n, NEW k \in 1 .. n PROVE First(m, q, j, k) <=> First(m, p, j, k)
  <2>1. \A i \in 1 .. j - 1 : i \in 1 .. n
    OBVIOUS
  <2>2. q[j] = p[j] /\ q[k] = p[k] /\ \A i \in 1 .. j - 1 : q[i] = p[i]
    BY <2>1, <1>3
  <2> QED BY <2>2 DEF First
<1>6. \A j \in 1 .. h : j \in 1 .. n /\ j \in 1 .. h + 1 /\ j \in Nat /\ j > 0
  BY <1>4
<1>7. h + 1 \in 1 .. n /\ h + 1 \in 1 .. h + 1 /\ h + 1 \in Nat /\ h + 1 > 0
  BY <1>4
<1>8. ASSUME NEW k \in 2 .. n PROVE \E j \in 1 .. h : First(m, q, j, k)
  <2>1. k \in 1 .. n
    OBVIOUS
  <2>2. PICK j \in 1 .. h : First(m, p, j, k)
    BY <1>1 DEF Sourced
  <2> QED BY <2>1, <2>2, <1>5, <1>6
<1>9. ASSUME NEW k \in 2 .. n + c, k \notin 2 .. n PROVE First(m, q, h + 1, k)
  <2>1. PICK i \in 1 .. c : k = n + i
    <3>1. k - n \in 1 .. c /\ k = n + (k - n)
      BY <1>4, <1>9
    <3> QED BY <3>1
  <2>2. q[k] = f[i] /\ f[i] \in new
    BY <2>1, <1>2, <1>3 DEF MoreOf
  <2>3. Linked(m, p[h + 1], q[k]) /\ q[k] \in VertexSet \ vis
    BY <2>2 DEF New
  <2>4. q[h + 1] = p[h + 1]
    BY <1>3, <1>7
  <2>5. ASSUME NEW a \in 1 .. h, Linked(m, q[a], q[k]) PROVE FALSE
    <3>1. q[a] = p[a]
      BY <1>3, <1>6
    <3>2. q[k] \in vis
      BY <3>1, <2>3, <2>5 DEF Served
    <3> QED BY <3>2, <2>3
  <2>6. h + 1 - 1 = h
    OBVIOUS
  <2> QED BY <2>3, <2>4, <2>5, <2>6 DEF First
<1>10. ASSUME NEW k \in 2 .. n + c PROVE \E j \in 1 .. h + 1 : First(m, q, j, k)
  <2>1. CASE k \in 2 .. n
    BY <2>1, <1>6, <1>8
  <2>2. CASE k \notin 2 .. n
    BY <2>2, <1>7, <1>9
  <2> QED BY <2>1, <2>2
<1>11. ASSUME NEW k \in 2 .. n + c, NEW l \in 2 .. n + c, NEW i \in 1 .. h + 1,
              NEW j \in 1 .. h + 1, k < l, First(m, q, i, k), First(m, q, j, l)
       PROVE  i <= j
  <2>1. CASE l \in 2 .. n
    <3>1. k \in 2 .. n /\ k \in 1 .. n /\ l \in 1 .. n
      BY <2>1, <1>11
    <3>2. PICK a \in 1 .. h : First(m, q, a, k)
      BY <3>1, <1>8
    <3>3. PICK b \in 1 .. h : First(m, q, b, l)
      BY <2>1, <1>8
    <3>4. a = i /\ b = j
      BY <3>2, <3>3, <1>6, <1>11, FirstIsUnique
    <3>5. First(m, p, a, k) /\ First(m, p, b, l)
      BY <3>1, <3>2, <3>3, <1>5, <1>6
    <3>6. a <= b
      BY <3>1, <3>5, <2>1, <1>1, <1>11 DEF Sourced
    <3> QED BY <3>4, <3>6
  <2>2. CASE l \notin 2 .. n
    <3>1. First(m, q, h + 1, l)
      BY <2>2, <1>9
    <3>2. j = h + 1
      BY <3>1, <1>7, <1>11, FirstIsUnique
    <3> QED BY <3>2
  <2> QED BY <2>1, <2>2
<1> QED BY <1>3, <1>10, <1>11 DEF Sourced

BreadthInv(m, p, z, vis) ==
  \E h \in Nat : h <= Len(p) /\ Queued(z, p, h) /\ Served(m, p, h, vis) /\ Sourced(m, p, h)

\* Serving a vertex keeps what breadth first needs.
LEMMA BreadthGoesOn ==
  ASSUME NEW m, NEW p, NEW vis, Listed(p, vis), NEW z \in Seq(VertexSet), z # <<>>,
         BreadthInv(m, p, z, vis),
         NEW new, new = New(m, Head(z), vis), NEW f, MoreOf(f, new),
         NEW q \in Seq(VertexSet), Extends(p, f, q), NEW y, y = Tail(z) \o f
  PROVE  y \in Seq(VertexSet) /\ BreadthInv(m, q, y, vis \cup new)
<1>1. PICK h \in Nat : Queued(z, p, h) /\ Served(m, p, h, vis) /\ Sourced(m, p, h)
  BY DEF BreadthInv
<1>2. p \in Seq(VertexSet)
  BY DEF Listed
<1>3. f \in Seq(VertexSet)
  BY DEF MoreOf
<1>4. Queued(y, q, h + 1) /\ y \in Seq(VertexSet) /\ h < Len(p) /\ Head(z) = p[h + 1]
  BY <1>1, <1>2, <1>3, QueueMoves
<1>5. Served(m, q, h + 1, vis \cup new)
  BY <1>1, <1>2, <1>3, <1>4, ServedGrows
<1>6. Sourced(m, q, h + 1)
  BY <1>1, <1>4, SourcedGrows
<1>7. h + 1 <= Len(q)
  <2>1. PICK n \in Nat : n = Len(y)
    BY <1>4, LenProperties
  <2>2. Len(q) = h + 1 + n
    BY <1>4, <2>1 DEF Queued
  <2>3. h + 1 <= h + 1 + n
    OBVIOUS
  <2> QED BY <2>2, <2>3
<1>8. h + 1 \in Nat
  OBVIOUS
<1> QED BY <1>4, <1>5, <1>6, <1>7, <1>8 DEF BreadthInv

(* Depth first *)

OnWalk(s, v) == \E k \in 1 .. Len(s) : s[k] = v
LeadsOn(m, p, a, b) == \E d \in a .. b - 1 : Linked(m, p[d], p[b])

\* What is on the stack was printed, the innermost last.
StackInv(p, s) ==
  /\ \A k \in 1 .. Len(s) : \E a \in 1 .. Len(p) : p[a] = s[k]
  /\ \A k, l \in 1 .. Len(s) : \A a, b \in 1 .. Len(p) :
       k < l /\ p[a] = s[k] /\ p[b] = s[l] => b < a

\* What is not on the stack leads to visited vertices only.
LeftInv(m, p, s, vis) ==
  \A a \in 1 .. Len(p) : OnWalk(s, p[a]) \/ \A w \in VertexSet : Linked(m, p[a], w) => w \in vis

\* What comes after a vertex on the stack was led to by it or a later one.
BelowInv(m, p, s) ==
  \A a, b \in 1 .. Len(p) : OnWalk(s, p[a]) /\ a < b => LeadsOn(m, p, a, b)

\* What is printed between a vertex and one it leads to was led to since.
OrderInv(m, p) ==
  \A a, b, c \in 1 .. Len(p) : a < b /\ b < c /\ Linked(m, p[a], p[c]) => LeadsOn(m, p, a, b)

DepthInv(m, p, s, vis) ==
  StackInv(p, s) /\ LeftInv(m, p, s, vis) /\ BelowInv(m, p, s) /\ OrderInv(m, p)

\* t has v on top of s.
Pushed(s, v, t) ==
  Len(t) = Len(s) + 1 /\ t[1] = v /\ \A k \in 1 .. Len(s) : t[k + 1] = s[k]

LEMMA PushedIs ==
  ASSUME NEW s \in Seq(VertexSet), NEW v \in VertexSet, NEW t, t = <<v>> \o s
  PROVE  t \in Seq(VertexSet) /\ Pushed(s, v, t)
<1>1. PICK n \in Nat : n = Len(s)
  BY LenProperties
<1>2. PICK o : o = <<v>>
  OBVIOUS
<1>3. o \in Seq(VertexSet) /\ Len(o) = 1 /\ o[1] = v
  BY <1>2
<1>4. t = o \o s
  BY <1>2
<1>5. t \in Seq(VertexSet) /\ Extends(o, s, t)
  BY <1>3, <1>4, ConcatExtends
<1>6. Len(t) = 1 + n /\ (\A k \in 1 .. 1 : t[k] = o[k]) /\ \A k \in 1 .. n : t[1 + k] = s[k]
  BY <1>1, <1>3, <1>5 DEF Extends
<1>7. 1 \in 1 .. 1 /\ 1 + n = n + 1 /\ \A k \in 1 .. n : 1 + k = k + 1
  OBVIOUS
<1>8. t[1] = v /\ Len(t) = n + 1 /\ \A k \in 1 .. n : t[k + 1] = s[k]
  BY <1>3, <1>6, <1>7
<1> QED BY <1>1, <1>5, <1>8 DEF Pushed

LEMMA OnPushed ==
  ASSUME NEW s \in Seq(VertexSet), NEW v, NEW t, Pushed(s, v, t), NEW w
  PROVE  OnWalk(t, w) <=> w = v \/ OnWalk(s, w)
<1>1. PICK n \in Nat : n = Len(s)
  BY LenProperties
<1>2. Len(t) = n + 1 /\ t[1] = v /\ \A k \in 1 .. n : t[k + 1] = s[k]
  BY <1>1 DEF Pushed
<1>3. 1 \in 1 .. n + 1 /\ \A k \in 1 .. n : k + 1 \in 1 .. n + 1
  OBVIOUS
<1>4. \A k \in 1 .. n + 1 : k = 1 \/ \E l \in 1 .. n : k = l + 1
  <2> SUFFICES ASSUME NEW k \in 1 .. n + 1, k # 1 PROVE \E l \in 1 .. n : k = l + 1
    OBVIOUS
  <2>1. k - 1 \in 1 .. n /\ k = (k - 1) + 1
    OBVIOUS
  <2> QED BY <2>1
<1>5. OnWalk(t, w) <=> \E k \in 1 .. n + 1 : t[k] = w
  BY <1>2 DEF OnWalk
<1>6. OnWalk(s, w) <=> \E k \in 1 .. n : s[k] = w
  BY <1>1 DEF OnWalk
<1>7. (\E k \in 1 .. n + 1 : t[k] = w) => w = v \/ \E k \in 1 .. n : s[k] = w
  BY <1>2, <1>4
<1>8. (w = v \/ \E k \in 1 .. n : s[k] = w) => \E k \in 1 .. n + 1 : t[k] = w
  BY <1>2, <1>3
<1> QED BY <1>5, <1>6, <1>7, <1>8

\* A vertex is entered: q is the list with it and t the stack.
Entered(m, p, s, vis, v, q, t) ==
  /\ Listed(p, vis) /\ v \in VertexSet \ vis /\ s \in Seq(VertexSet)
  /\ q \in Seq(VertexSet) /\ Len(q) = Len(p) + 1 /\ q[Len(p) + 1] = v
  /\ \A k \in 1 .. Len(p) : q[k] = p[k]
  /\ Pushed(s, v, t)
  /\ DepthInv(m, p, s, vis)
  /\ Len(s) > 0 => Linked(m, s[1], v)

LEMMA EnterStack ==
  ASSUME NEW m, NEW p, NEW s, NEW vis, NEW v, NEW q, NEW t, Entered(m, p, s, vis, v, q, t)
  PROVE  StackInv(q, t)
<1>1. PICK n \in Nat : n = Len(p)
  BY LenProperties DEF Entered, Listed
<1>2. PICK c \in Nat : c = Len(s)
  BY LenProperties DEF Entered
<1>3. Len(q) = n + 1 /\ q[n + 1] = v /\ \A k \in 1 .. n : q[k] = p[k]
  BY <1>1 DEF Entered
<1>4. Len(t) = c + 1 /\ t[1] = v /\ \A k \in 1 .. c : t[k + 1] = s[k]
  BY <1>2 DEF Entered, Pushed
<1>5. \A k \in 1 .. n : p[k] # v
  BY <1>1 DEF Entered, Listed
<1>6. \A k \in 1 .. c : \E a \in 1 .. n : p[a] = s[k]
  BY <1>1, <1>2 DEF Entered, DepthInv, StackInv
<1>7. \A k, l \in 1 .. c : \A a, b \in 1 .. n : k < l /\ p[a] = s[k] /\ p[b] = s[l] => b < a
  BY <1>1, <1>2 DEF Entered, DepthInv, StackInv
<1>8. \A k \in 1 .. c + 1 : k = 1 \/ \E l \in 1 .. c : k = l + 1
  <2> SUFFICES ASSUME NEW k \in 1 .. c + 1, k # 1 PROVE \E l \in 1 .. c : k = l + 1
    OBVIOUS
  <2>1. k - 1 \in 1 .. c /\ k = (k - 1) + 1
    OBVIOUS
  <2> QED BY <2>1
<1>9. \A a \in 1 .. n + 1 : a = n + 1 \/ a \in 1 .. n
  OBVIOUS
<1>10. n + 1 \in 1 .. n + 1 /\ \A a \in 1 .. n : a \in 1 .. n + 1 /\ a < n + 1
  OBVIOUS
<1>11. ASSUME NEW k \in 1 .. c + 1 PROVE \E a \in 1 .. n + 1 : q[a] = t[k]
  <2>1. CASE k = 1
    BY <2>1, <1>3, <1>4, <1>10
  <2>2. CASE k # 1
    <3>1. PICK l \in 1 .. c : k = l + 1
      BY <2>2, <1>8
    <3>2. PICK a \in 1 .. n : p[a] = s[l]
      BY <1>6
    <3> QED BY <3>1, <3>2, <1>3, <1>4, <1>10
  <2> QED BY <2>1, <2>2
<1>12. ASSUME NEW k \in 1 .. c + 1, NEW l \in 1 .. c + 1, NEW a \in 1 .. n + 1,
              NEW b \in 1 .. n + 1, k < l, q[a] = t[k], q[b] = t[l]
       PROVE  b < a
  <2>1. PICK j \in 1 .. c : l = j + 1
    <3>1. l # 1
      BY <1>12
    <3> QED BY <3>1, <1>8
  <2>2. PICK e \in 1 .. n : p[e] = s[j]
    BY <1>6
  <2>3. t[l] = s[j]
    BY <2>1, <1>4
  <2>4. b \in 1 .. n /\ p[b] = s[j]
    <3>1. b # n + 1
      BY <2>2, <2>3, <1>3, <1>5, <1>12
    <3> QED BY <3>1, <2>3, <1>3, <1>9, <1>12
  <2>5. CASE k = 1
    <3>1. q[a] = v
      BY <2>5, <1>4, <1>12
    <3>2. a = n + 1
      BY <3>1, <1>3, <1>5, <1>9
    <3> QED BY <3>2, <2>4, <1>10
  <2>6. CASE k # 1
    <3>1. PICK i \in 1 .. c : k = i + 1
      BY <2>6, <1>8
    <3>2. PICK g \in 1 .. n : p[g] = s[i]
      BY <1>6
    <3>3. t[k] = s[i]
      BY <3>1, <1>4
    <3>4. a \in 1 .. n /\ p[a] = s[i]
      <4>1. a # n + 1
        BY <3>2, <3>3, <1>3, <1>5, <1>12
      <4> QED BY <4>1, <3>3, <1>3, <1>9, <1>12
    <3>5. i < j
      BY <3>1, <2>1, <1>12
    <3> QED BY <3>4, <3>5, <2>4, <1>7
  <2> QED BY <2>5, <2>6
<1> QED BY <1>3, <1>4, <1>11, <1>12 DEF StackInv

\* The facts about the lists that the rest of an entry needs.
LEMMA EnterFacts ==
  ASSUME NEW m, NEW p, NEW s, NEW vis, NEW v, NEW q, NEW t, Entered(m, p, s, vis, v, q, t)
  PROVE  \E n \in Nat :
           /\ n = Len(p) /\ Len(q) = n + 1 /\ q[n + 1] = v
           /\ \A k \in 1 .. n : q[k] = p[k] /\ p[k] \in vis
           /\ \A w : OnWalk(t, w) <=> w = v \/ OnWalk(s, w)
<1>1. PICK n \in Nat : n = Len(p)
  BY LenProperties DEF Entered, Listed
<1>2. Len(q) = n + 1 /\ q[n + 1] = v /\ \A k \in 1 .. n : q[k] = p[k]
  BY <1>1 DEF Entered
<1>3. \A k \in 1 .. n : p[k] \in vis
  BY <1>1 DEF Entered, Listed
<1>4. \A w : OnWalk(t, w) <=> w = v \/ OnWalk(s, w)
  BY OnPushed DEF Entered
<1> QED BY <1>1, <1>2, <1>3, <1>4

LEMMA EnterLeft ==
  ASSUME NEW m, NEW p, NEW s, NEW vis, NEW v, NEW q, NEW t, Entered(m, p, s, vis, v, q, t)
  PROVE  LeftInv(m, q, t, vis \cup {v})
<1>1. PICK n \in Nat :
        /\ n = Len(p) /\ Len(q) = n + 1 /\ q[n + 1] = v
        /\ \A k \in 1 .. n : q[k] = p[k] /\ p[k] \in vis
        /\ \A w : OnWalk(t, w) <=> w = v \/ OnWalk(s, w)
  BY EnterFacts
<1>2. ASSUME NEW a \in 1 .. n + 1, ~OnWalk(t, q[a]), NEW w \in VertexSet, Linked(m, q[a], w)
      PROVE  w \in vis \cup {v}
  <2>1. a # n + 1
    BY <1>1, <1>2
  <2>2. a \in 1 .. n
    BY <2>1
  <2>3. q[a] = p[a] /\ ~OnWalk(s, p[a])
    BY <2>2, <1>1, <1>2
  <2>4. w \in vis
    BY <2>2, <2>3, <1>1, <1>2 DEF Entered, DepthInv, LeftInv
  <2> QED BY <2>4
<1> QED BY <1>1, <1>2 DEF LeftInv

\* The list's entries keep what leads on to them.
LEMMA StillLeadsOn ==
  ASSUME NEW m, NEW p, NEW q, NEW n \in Nat, \A k \in 1 .. n : q[k] = p[k],
         NEW a \in 1 .. n, NEW b \in 1 .. n, LeadsOn(m, p, a, b)
  PROVE  LeadsOn(m, q, a, b)
<1>1. PICK d \in a .. b - 1 : Linked(m, p[d], p[b])
  BY DEF LeadsOn
<1>2. d \in 1 .. n
  OBVIOUS
<1>3. q[d] = p[d] /\ q[b] = p[b]
  BY <1>2
<1> QED BY <1>1, <1>3 DEF LeadsOn

LEMMA EnterBelow ==
  ASSUME NEW m, NEW p, NEW s, NEW vis, NEW v, NEW q, NEW t, Entered(m, p, s, vis, v, q, t)
  PROVE  BelowInv(m, q, t)
<1>1. PICK n \in Nat :
        /\ n = Len(p) /\ Len(q) = n + 1 /\ q[n + 1] = v
        /\ \A k \in 1 .. n : q[k] = p[k] /\ p[k] \in vis
        /\ \A w : OnWalk(t, w) <=> w = v \/ OnWalk(s, w)
  BY EnterFacts
<1>2. PICK c \in Nat : c = Len(s)
  BY LenProperties DEF Entered
<1>3. v \notin vis
  BY DEF Entered
<1>4. ASSUME NEW a \in 1 .. n + 1, NEW b \in 1 .. n + 1, OnWalk(t, q[a]), a < b
      PROVE  LeadsOn(m, q, a, b)
  <2>1. a \in 1 .. n
    BY <1>4
  <2>2. q[a] = p[a] /\ OnWalk(s, p[a])
    BY <2>1, <1>1, <1>3, <1>4
  <2>3. CASE b \in 1 .. n
    <3>1. LeadsOn(m, p, a, b)
      BY <2>1, <2>2, <2>3, <1>1, <1>4 DEF Entered, DepthInv, BelowInv
    <3> QED BY <3>1, <2>1, <2>3, <1>1, StillLeadsOn
  <2>4. CASE b = n + 1
    <3>1. PICK k \in 1 .. c : s[k] = p[a]
      BY <2>2, <1>2 DEF OnWalk
    <3>2. 1 \in 1 .. c /\ c > 0 /\ (k = 1 \/ 1 < k)
      OBVIOUS
    <3>3. Linked(m, s[1], v)
      BY <3>2, <1>2 DEF Entered
    <3>4. PICK d \in 1 .. n : p[d] = s[1]
      BY <3>2, <1>1, <1>2 DEF Entered, DepthInv, StackInv
    <3>5. a <= d
      <4>1. CASE k = 1
        <5>1. p[a] = p[d]
          BY <4>1, <3>1, <3>4
        <5>2. a = d
          BY <5>1, <2>1, <1>1 DEF Entered, Listed
        <5> QED BY <5>2
      <4>2. CASE 1 < k
        <5>1. a < d
          BY <4>2, <3>1, <3>2, <3>4, <2>1, <1>1, <1>2 DEF Entered, DepthInv, StackInv
        <5> QED BY <5>1
      <4> QED BY <4>1, <4>2, <3>2
    <3>6. q[d] = s[1] /\ q[b] = v
      BY <3>4, <2>4, <1>1
    <3>7. d \in a .. b - 1
      BY <3>5, <2>4
    <3> QED BY <3>3, <3>6, <3>7 DEF LeadsOn
  <2> QED BY <2>3, <2>4
<1> QED BY <1>1, <1>4 DEF BelowInv

LEMMA EnterOrder ==
  ASSUME NEW m, NEW p, NEW s, NEW vis, NEW v, NEW q, NEW t, Entered(m, p, s, vis, v, q, t)
  PROVE  OrderInv(m, q)
<1>1. PICK n \in Nat :
        /\ n = Len(p) /\ Len(q) = n + 1 /\ q[n + 1] = v
        /\ \A k \in 1 .. n : q[k] = p[k] /\ p[k] \in vis
        /\ \A w : OnWalk(t, w) <=> w = v \/ OnWalk(s, w)
  BY EnterFacts
<1>2. v \notin vis /\ v \in VertexSet
  BY DEF Entered
<1>3. ASSUME NEW a \in 1 .. n + 1, NEW b \in 1 .. n + 1, NEW c \in 1 .. n + 1,
             a < b, b < c, Linked(m, q[a], q[c])
      PROVE  LeadsOn(m, q, a, b)
  <2>1. a \in 1 .. n /\ b \in 1 .. n /\ q[a] = p[a]
    BY <1>1, <1>3
  <2>2. LeadsOn(m, p, a, b)
    <3>1. CASE c \in 1 .. n
      <4>1. Linked(m, p[a], p[c])
        BY <3>1, <2>1, <1>1, <1>3
      <4> QED BY <3>1, <4>1, <2>1, <1>1, <1>3 DEF Entered, DepthInv, OrderInv
    <3>2. CASE c = n + 1
      <4>1. Linked(m, p[a], v)
        BY <3>2, <2>1, <1>1, <1>3
      <4>2. OnWalk(s, p[a])
        BY <4>1, <2>1, <1>1, <1>2 DEF Entered, DepthInv, LeftInv
      <4> QED BY <4>2, <2>1, <1>1, <1>3 DEF Entered, DepthInv, BelowInv
    <3> QED BY <3>1, <3>2
  <2> QED BY <2>1, <2>2, <1>1, StillLeadsOn
<1> QED BY <1>1, <1>3 DEF OrderInv

LEMMA DepthGoesOn ==
  ASSUME NEW m, NEW p, NEW s, NEW vis, NEW v, NEW q, NEW t, Entered(m, p, s, vis, v, q, t)
  PROVE  DepthInv(m, q, t, vis \cup {v})
BY EnterStack, EnterLeft, EnterBelow, EnterOrder DEF DepthInv

\* The innermost activation returns: its vertex leads to visited ones only.
LEMMA DepthReturns ==
  ASSUME NEW m, NEW p, NEW s \in Seq(VertexSet), s # <<>>, NEW vis,
         DepthInv(m, p, s, vis), New(m, Head(s), vis) = {}, NEW t, t = Tail(s)
  PROVE  t \in Seq(VertexSet) /\ DepthInv(m, p, t, vis)
<1>1. PICK n \in Nat : n = Len(s)
  BY LenProperties
<1>2. n > 0 /\ Head(s) = s[1]
  BY <1>1, EmptySeq
<1>3. t \in Seq(VertexSet) /\ Len(t) = n - 1 /\ \A k \in 1 .. n - 1 : t[k] = s[k + 1]
  BY <1>1, HeadTailProperties
<1>4. \A k \in 1 .. n - 1 : k + 1 \in 1 .. n
  OBVIOUS
<1>5. \A w : OnWalk(t, w) => OnWalk(s, w)
  BY <1>1, <1>3, <1>4 DEF OnWalk
<1>6. \A w : OnWalk(s, w) => w = s[1] \/ OnWalk(t, w)
  <2>1. \A k \in 1 .. n : k = 1 \/ \E l \in 1 .. n - 1 : k = l + 1
    <3> SUFFICES ASSUME NEW k \in 1 .. n, k # 1 PROVE \E l \in 1 .. n - 1 : k = l + 1
      OBVIOUS
    <3>1. k - 1 \in 1 .. n - 1 /\ k = (k - 1) + 1
      OBVIOUS
    <3> QED BY <3>1
  <2> QED BY <2>1, <1>1, <1>3 DEF OnWalk
<1>7. StackInv(p, t)
  <2>1. \A k \in 1 .. n - 1 : \E a \in 1 .. Len(p) : p[a] = t[k]
    BY <1>1, <1>3, <1>4 DEF DepthInv, StackInv
  <2>2. ASSUME NEW k \in 1 .. n - 1, NEW l \in 1 .. n - 1, NEW a \in 1 .. Len(p),
               NEW b \in 1 .. Len(p), k < l, p[a] = t[k], p[b] = t[l]
        PROVE  b < a
    <3>1. PICK i \in 1 .. n : i = k + 1
      BY <1>4
    <3>2. PICK j \in 1 .. n : j = l + 1
      BY <1>4
    <3>3. i < j
      BY <3>1, <3>2, <2>2
    <3>4. p[a] = s[i] /\ p[b] = s[j]
      BY <3>1, <3>2, <2>2, <1>3
    <3> QED BY <3>3, <3>4, <1>1 DEF DepthInv, StackInv
  <2> QED BY <2>1, <2>2, <1>3 DEF StackInv
<1>8. LeftInv(m, p, t, vis)
  <2> SUFFICES ASSUME NEW a \in 1 .. Len(p), ~OnWalk(t, p[a]), NEW w \in VertexSet,
                      Linked(m, p[a], w)
               PROVE  w \in vis
    BY DEF LeftInv
  <2>1. CASE OnWalk(s, p[a])
    <3>1. p[a] = Head(s)
      BY <2>1, <1>2, <1>6
    <3> QED BY <3>1 DEF New
  <2>2. CASE ~OnWalk(s, p[a])
    BY <2>2 DEF DepthInv, LeftInv
  <2> QED BY <2>1, <2>2
<1>9. BelowInv(m, p, t)
  BY <1>5 DEF DepthInv, BelowInv
<1> QED BY <1>3, <1>7, <1>8, <1>9 DEF DepthInv

WalkTypes ==
  /\ wPhase \in {"main", "bfs", "dfs"} /\ wMatrix \subseteq Walk!Edges
  /\ wQueue \in Seq(VertexSet) /\ wStack \in Seq(VertexSet) /\ wStarts \in Seq(VertexSet)
  /\ Listed(wPrinted, wVisited)
  /\ Reached(wMatrix, wStarts, wVisited)

WalksInv ==
  /\ WalkTypes
  /\ wPhase = "main" <=> wStarts = <<>>
  /\ wPhase = "main" => /\ wQueue = <<>> /\ wStack = <<>>
                        /\ wVisited = {} /\ wPrinted = <<>>
  /\ wPhase = "bfs" => wStack = <<>> /\ BreadthInv(wMatrix, wPrinted, wQueue, wVisited)
  /\ wPhase = "dfs" => wQueue = <<>> /\ DepthInv(wMatrix, wPrinted, wStack, wVisited)

LEMMA EmptyList == \A p : p = <<>> => p \in Seq(VertexSet) /\ Len(p) = 0 /\ Listed(p, {})
<1> SUFFICES ASSUME NEW p, p = <<>> PROVE p \in Seq(VertexSet) /\ Len(p) = 0 /\ Listed(p, {})
  OBVIOUS
<1>1. p \in Seq(VertexSet) /\ Len(p) = 0
  BY EmptySeq
<1> QED BY <1>1 DEF Listed

LEMMA SingleList ==
  ASSUME NEW v \in VertexSet, NEW f, f = <<v>>
  PROVE  f \in Seq(VertexSet) /\ Len(f) = 1 /\ f[1] = v /\ MoreOf(f, {v})
<1>1. f \in Seq(VertexSet) /\ Len(f) = 1 /\ f[1] = v
  OBVIOUS
<1>2. \A k \in 1 .. 1 : k = 1
  OBVIOUS
<1> QED BY <1>1, <1>2 DEF MoreOf

\* q is p with v at its end.
Appended(p, v, q) ==
  /\ q \in Seq(VertexSet) /\ Extends(p, <<v>>, q) /\ Len(q) = Len(p) + 1
  /\ q[Len(p) + 1] = v /\ \A k \in 1 .. Len(p) : q[k] = p[k]

LEMMA AppendExtends ==
  ASSUME NEW p \in Seq(VertexSet), NEW v \in VertexSet, NEW q, q = Append(p, v)
  PROVE  Appended(p, v, q)
<1>1. PICK n \in Nat : n = Len(p)
  BY LenProperties
<1>2. PICK f : f = <<v>>
  OBVIOUS
<1>3. Len(f) = 1 /\ f[1] = v
  BY <1>2
<1>4. q \in Seq(VertexSet) /\ Len(q) = n + 1 /\ q[n + 1] = v /\ \A k \in 1 .. n : q[k] = p[k]
  BY <1>1, AppendProperties
<1>5. \A k \in 1 .. 1 : k = 1
  OBVIOUS
<1>6. Extends(p, f, q)
  BY <1>1, <1>3, <1>4, <1>5 DEF Extends
<1> QED BY <1>1, <1>2, <1>4, <1>6 DEF Appended

LEMMA NoStack ==
  ASSUME NEW m, NEW p, NEW vis, NEW s, s = <<>>, OrderInv(m, p),
         \A a \in 1 .. Len(p) : \A w \in VertexSet : Linked(m, p[a], w) => w \in vis
  PROVE  DepthInv(m, p, s, vis)
<1>1. Len(s) = 0
  OBVIOUS
<1>2. \A k \in 1 .. Len(s) : FALSE
  BY <1>1
<1>3. \A w : ~OnWalk(s, w)
  BY <1>2 DEF OnWalk
<1>4. StackInv(p, s)
  BY <1>2 DEF StackInv
<1>5. BelowInv(m, p, s)
  BY <1>3 DEF BelowInv
<1>6. LeftInv(m, p, s, vis)
  BY DEF LeftInv
<1> QED BY <1>4, <1>5, <1>6 DEF DepthInv

LEMMA WalksInit == Walk!Init => WalksInv
<1> SUFFICES ASSUME Walk!Init PROVE WalksInv
  OBVIOUS
<1>1. /\ wPhase = "main" /\ wMatrix \subseteq Walk!Edges
      /\ wQueue = <<>> /\ wVisited = {} /\ wStack = <<>> /\ wStarts = <<>> /\ wPrinted = <<>>
  BY DEF Walk!Init
<1>2. Listed(wPrinted, wVisited) /\ wQueue \in Seq(VertexSet) /\ wStack \in Seq(VertexSet)
      /\ wStarts \in Seq(VertexSet)
  BY <1>1, EmptyList
<1>3. Reached(wMatrix, wStarts, wVisited)
  BY <1>1 DEF Reached
<1> QED BY <1>1, <1>2, <1>3 DEF WalksInv, WalkTypes

\* The vertices that are listed next, one or several.
LEMMA StartedBreadth ==
  ASSUME NEW m, NEW v \in VertexSet, NEW f, f = <<v>>
  PROVE  BreadthInv(m, f, f, {v})
<1>1. Len(f) = 1 /\ f[1] = v
  BY SingleList
<1>2. \A k \in 1 .. 1 : f[k] = f[0 + k]
  OBVIOUS
<1>3. Queued(f, f, 0)
  BY <1>1, <1>2 DEF Queued
<1>4. (\A k \in 1 .. 0 : FALSE) /\ \A k \in 2 .. 1 : FALSE
  OBVIOUS
<1>5. Served(m, f, 0, {v}) /\ Sourced(m, f, 0)
  BY <1>1, <1>4 DEF Served, Sourced
<1>6. 0 \in Nat /\ 0 <= Len(f)
  BY <1>1
<1> QED BY <1>3, <1>5, <1>6 DEF BreadthInv

LEMMA StartBFSStep ==
  ASSUME WalksInv, NEW v \in WalkStarts, Walk!StartBFS(v)
  PROVE  WalksInv'
<1>1. /\ wPhase = "main" /\ wPhase' = "bfs" /\ wQueue' = <<v>> /\ wStarts' = <<v>>
      /\ wPrinted' = <<v>> /\ wVisited' = wVisited \cup {v} /\ wStarts = <<>>
      /\ wMatrix' = wMatrix /\ wStack' = wStack
  BY DEF Walk!StartBFS, Walk!Visit
<1>2. v \in VertexSet
  BY VerticesAre
<1>3. PICK f : f = <<v>>
  OBVIOUS
<1>4. f \in Seq(VertexSet) /\ Len(f) = 1 /\ f[1] = v /\ MoreOf(f, {v})
  BY <1>2, <1>3, SingleList
<1>5. /\ WalkTypes /\ wStack = <<>> /\ wVisited = {} /\ wPrinted = <<>>
  BY <1>1 DEF WalksInv
<1>6. Reached(wMatrix, wStarts, wVisited) /\ wStarts \in Seq(VertexSet) /\ Listed(wPrinted, wVisited)
      /\ wMatrix \subseteq Walk!Edges /\ wPrinted \in Seq(VertexSet)
  BY <1>5 DEF WalkTypes, Listed
<1>7. Extends(wStarts, f, f) /\ Extends(wPrinted, f, f)
  <2>1. \A e : e = <<>> => Extends(e, f, f)
    <3> SUFFICES ASSUME NEW e, e = <<>> PROVE Extends(e, f, f)
      OBVIOUS
    <3>1. Len(e) = 0
      OBVIOUS
    <3>2. (\A k \in 1 .. 0 : f[k] = e[k]) /\ \A k \in 1 .. 1 : f[0 + k] = f[k]
      OBVIOUS
    <3> QED BY <3>1, <3>2, <1>4 DEF Extends
  <2> QED BY <2>1, <1>1, <1>5
<1>8. Reached(wMatrix, f, wVisited \cup {v})
  BY <1>3, <1>6, <1>7, ReachBegins
<1>9. Listed(f, wVisited \cup {v})
  <2>1. {v} \cap wVisited = {}
    BY <1>5
  <2> QED BY <2>1, <1>4, <1>6, <1>7, ListGrows
<1>10. BreadthInv(wMatrix, f, f, wVisited \cup {v})
  <2>1. BreadthInv(wMatrix, f, f, {v}) /\ wVisited \cup {v} = {v}
    BY <1>2, <1>3, <1>5, StartedBreadth
  <2> QED BY <2>1
<1>11. /\ wQueue' = f /\ wStarts' = f /\ wPrinted' = f /\ wStack' = <<>>
       /\ wPhase' = "bfs" /\ wMatrix' = wMatrix /\ wVisited' = wVisited \cup {v}
  BY <1>1, <1>3, <1>5
<1>12. WalkTypes'
  <2>1. wStack' \in Seq(VertexSet)
    BY <1>11, EmptyList
  <2> QED BY <2>1, <1>4, <1>6, <1>8, <1>9, <1>11 DEF WalkTypes
<1>13. wStarts' # <<>>
  BY <1>1
<1>14. wStack' = <<>> /\ BreadthInv(wMatrix', wPrinted', wQueue', wVisited')
  BY <1>10, <1>11
<1> QED BY <1>11, <1>12, <1>13, <1>14 DEF WalksInv

LEMMA ServeStep ==
  ASSUME WalksInv, Walk!Serve
  PROVE  WalksInv'
<1>1. PICK new : new = Walk!Fresh(Head(wQueue))
  OBVIOUS
<1>2. PICK f : f = Walk!InOrder(new)
  OBVIOUS
<1>3. /\ wPhase = "bfs" /\ wQueue # <<>> /\ wQueue' = Walk!Enqueue(f)
      /\ wVisited' = wVisited \cup Walk!ToSet(f) /\ wPrinted' = wPrinted \o f
      /\ wPhase' = wPhase /\ wMatrix' = wMatrix /\ wStack' = wStack /\ wStarts' = wStarts
  BY <1>1, <1>2 DEF Walk!Serve, Walk!Visit
<1>4. /\ WalkTypes /\ wStack = <<>> /\ wStarts # <<>>
      /\ BreadthInv(wMatrix, wPrinted, wQueue, wVisited)
  BY <1>3 DEF WalksInv
<1>5. /\ Reached(wMatrix, wStarts, wVisited) /\ wStarts \in Seq(VertexSet) /\ wStack \in Seq(VertexSet)
      /\ Listed(wPrinted, wVisited) /\ wMatrix \subseteq Walk!Edges /\ wQueue \in Seq(VertexSet)
  BY <1>4 DEF WalkTypes
<1>6. new = New(wMatrix, Head(wQueue), wVisited) /\ new \subseteq VertexSet
  BY <1>1, FreshIs DEF New
<1>7. MoreOf(f, new) /\ Walk!ToSet(f) = new
  <2>1. PICK n \in Nat : Listing(f, new, n)
    BY <1>2, <1>6, FoundInOrder
  <2> QED BY <2>1, <1>6, ListingIsMore
<1>8. PICK q : q = wPrinted \o f
  OBVIOUS
<1>9. q \in Seq(VertexSet) /\ Extends(wPrinted, f, q) /\ wPrinted \in Seq(VertexSet)
  BY <1>5, <1>7, <1>8, ConcatExtends DEF Listed, MoreOf
<1>10. PICK y : y = Tail(wQueue) \o f
  OBVIOUS
<1>11. y \in Seq(VertexSet) /\ BreadthInv(wMatrix, q, y, wVisited \cup new)
  BY <1>3, <1>4, <1>5, <1>6, <1>7, <1>9, <1>10, BreadthGoesOn
<1>12. new \cap wVisited = {}
  BY <1>6 DEF New
<1>13. Listed(q, wVisited \cup new)
  BY <1>5, <1>7, <1>9, <1>12, ListGrows
<1>14. Reached(wMatrix, wStarts, wVisited \cup new)
  <2>1. Head(wQueue) \in wVisited
    <3>1. PICK h \in Nat : h <= Len(wPrinted) /\ Queued(wQueue, wPrinted, h)
      BY <1>4 DEF BreadthInv
    <3>2. PICK d \in Nat : d = Len(wPrinted)
      BY <1>9, LenProperties
    <3>3. PICK e : e = <<>>
      OBVIOUS
    <3>4. e \in Seq(VertexSet)
      BY <3>3
    <3>5. PICK x : x = wPrinted \o e
      OBVIOUS
    <3>6. Extends(wPrinted, e, x)
      BY <3>4, <3>5, <1>9, ConcatExtends
    <3>7. PICK w : w = Tail(wQueue) \o e
      OBVIOUS
    <3>8. h < Len(wPrinted) /\ Head(wQueue) = wPrinted[h + 1]
      BY <3>1, <3>4, <3>6, <3>7, <1>3, <1>5, <1>9, QueueMoves
    <3>9. h + 1 \in 1 .. d
      BY <3>2, <3>8
    <3> QED BY <3>2, <3>8, <3>9, <1>5 DEF Listed
  <2>2. \A w \in new : \E v \in wVisited : Linked(wMatrix, v, w)
    BY <2>1, <1>6 DEF New
  <2>3. wVisited \subseteq VertexSet
    BY <1>5 DEF Listed
  <2> QED BY <2>2, <2>3, <1>5, <1>6, ReachGrows
<1>15. /\ wQueue' = y /\ wStarts' = wStarts /\ wPrinted' = q /\ wStack' = wStack
       /\ wPhase' = "bfs" /\ wMatrix' = wMatrix /\ wVisited' = wVisited \cup new
  BY <1>3, <1>7, <1>8, <1>10 DEF Walk!Enqueue
<1>16. WalkTypes'
  BY <1>5, <1>11, <1>13, <1>14, <1>15 DEF WalkTypes
<1>17. /\ wStack' = <<>> /\ wStarts' # <<>> /\ wPhase' = "bfs"
       /\ BreadthInv(wMatrix', wPrinted', wQueue', wVisited')
  BY <1>4, <1>11, <1>15
<1> QED BY <1>16, <1>17 DEF WalksInv

\* A vertex entered, by a call or from the top of the stack.
LEMMA EnterStep ==
  ASSUME WalkTypes, NEW v \in VertexSet, NEW s \in Seq(VertexSet), Walk!Enter(v, s),
         DepthInv(wMatrix, wPrinted, s, wVisited), Len(s) > 0 => Linked(wMatrix, s[1], v)
  PROVE  /\ wStack' \in Seq(VertexSet) /\ wVisited' = wVisited \cup {v}
         /\ Listed(wPrinted', wVisited')
         /\ DepthInv(wMatrix, wPrinted', wStack', wVisited')
<1>1. /\ v \notin wVisited /\ wVisited' = wVisited \cup {v} /\ wStack' = <<v>> \o s
      /\ wPrinted' = Append(wPrinted, v)
  BY DEF Walk!Enter, Walk!Mark, Walk!Visit
<1>2. Listed(wPrinted, wVisited) /\ wPrinted \in Seq(VertexSet)
  BY DEF WalkTypes, Listed
<1>3. PICK q : q = Append(wPrinted, v)
  OBVIOUS
<1>4. /\ q \in Seq(VertexSet) /\ Extends(wPrinted, <<v>>, q) /\ Len(q) = Len(wPrinted) + 1
      /\ q[Len(wPrinted) + 1] = v /\ \A k \in 1 .. Len(wPrinted) : q[k] = wPrinted[k]
  <2>1. Appended(wPrinted, v, q)
    BY <1>2, <1>3, AppendExtends
  <2> QED BY <2>1 DEF Appended
<1>5. PICK t : t = <<v>> \o s
  OBVIOUS
<1>6. t \in Seq(VertexSet) /\ Pushed(s, v, t)
  BY <1>5, PushedIs
<1>7. Entered(wMatrix, wPrinted, s, wVisited, v, q, t)
  BY <1>1, <1>2, <1>4, <1>6 DEF Entered
<1>8. DepthInv(wMatrix, q, t, wVisited \cup {v})
  BY <1>7, DepthGoesOn
<1>9. Listed(q, wVisited \cup {v})
  <2>1. PICK f : f = <<v>>
    OBVIOUS
  <2>2. MoreOf(f, {v}) /\ Extends(wPrinted, f, q)
    BY <2>1, <1>4, SingleList
  <2>3. {v} \cap wVisited = {}
    BY <1>1
  <2> QED BY <2>2, <2>3, <1>2, <1>4, ListGrows
<1> QED BY <1>1, <1>3, <1>5, <1>6, <1>8, <1>9

LEMMA CallDFSStep ==
  ASSUME WalksInv, NEW v \in WalkStarts, Walk!CallDFS(v)
  PROVE  WalksInv'
<1>1. /\ wPhase \in {"main", "dfs"} /\ wStack = <<>>
      /\ wPhase' = "dfs" /\ wStarts' = Append(wStarts, v)
      /\ \/ Walk!Enter(v, <<>>)
         \/ v \in wVisited /\ UNCHANGED <<wVisited, wStack, wPrinted>>
      /\ wMatrix' = wMatrix /\ wQueue' = wQueue
  BY DEF Walk!CallDFS
<1>2. v \in VertexSet
  BY VerticesAre
<1>3. WalkTypes /\ wQueue = <<>>
  BY <1>1 DEF WalksInv
<1>4. /\ Reached(wMatrix, wStarts, wVisited) /\ wStarts \in Seq(VertexSet)
      /\ Listed(wPrinted, wVisited) /\ wMatrix \subseteq Walk!Edges /\ wQueue \in Seq(VertexSet)
  BY <1>3 DEF WalkTypes
<1>5. DepthInv(wMatrix, wPrinted, wStack, wVisited)
  <2>1. CASE wPhase = "dfs"
    BY <2>1 DEF WalksInv
  <2>2. CASE wPhase = "main"
    <3>1. wPrinted = <<>>
      BY <2>2 DEF WalksInv
    <3>2. Len(wPrinted) = 0
      BY <3>1
    <3>3. \A k \in 1 .. Len(wPrinted) : FALSE
      BY <3>2
    <3>4. OrderInv(wMatrix, wPrinted)
      BY <3>3 DEF OrderInv
    <3> QED BY <3>3, <3>4, <1>1, NoStack
  <2> QED BY <2>1, <2>2, <1>1
<1>6. /\ wStack' \in Seq(VertexSet) /\ wVisited' = wVisited \cup {v}
      /\ Listed(wPrinted', wVisited')
      /\ DepthInv(wMatrix, wPrinted', wStack', wVisited')
  <2>1. CASE Walk!Enter(v, <<>>)
    <3>1. PICK s : s = <<>>
      OBVIOUS
    <3>2. s \in Seq(VertexSet) /\ Len(s) = 0 /\ Walk!Enter(v, s)
      BY <3>1, <2>1, EmptyList
    <3>3. DepthInv(wMatrix, wPrinted, s, wVisited)
      BY <3>1, <1>1, <1>5
    <3>4. ~(Len(s) > 0)
      BY <3>2
    <3> QED BY <3>2, <3>3, <3>4, <1>2, <1>3, EnterStep
  <2>2. CASE v \in wVisited /\ UNCHANGED <<wVisited, wStack, wPrinted>>
    <3>1. wVisited' = wVisited /\ wStack' = wStack /\ wPrinted' = wPrinted
      BY <2>2
    <3>2. wVisited = wVisited \cup {v}
      BY <2>2
    <3>3. wStack \in Seq(VertexSet)
      BY <1>1, EmptyList
    <3> QED BY <3>1, <3>2, <3>3, <1>4, <1>5
  <2> QED BY <2>1, <2>2, <1>1
<1>7. PICK ts : ts = Append(wStarts, v)
  OBVIOUS
<1>8. ts \in Seq(VertexSet) /\ Extends(wStarts, <<v>>, ts) /\ Len(ts) = Len(wStarts) + 1
  <2>1. Appended(wStarts, v, ts)
    BY <1>2, <1>4, <1>7, AppendExtends
  <2> QED BY <2>1 DEF Appended
<1>9. Reached(wMatrix, ts, wVisited \cup {v})
  BY <1>4, <1>8, ReachBegins
<1>10. ts # <<>>
  <2>1. PICK n \in Nat : n = Len(wStarts)
    BY <1>4, LenProperties
  <2>2. Len(ts) = n + 1
    BY <2>1, <1>8
  <2>3. SUFFICES ASSUME ts = <<>> PROVE FALSE
    OBVIOUS
  <2>4. Len(ts) = 0
    BY <2>3
  <2>5. n + 1 = 0
    BY <2>2, <2>4
  <2> QED BY <2>1, <2>5
<1>11. WalkTypes'
  BY <1>1, <1>4, <1>6, <1>7, <1>8, <1>9 DEF WalkTypes
<1>12. /\ wPhase' = "dfs" /\ wStarts' # <<>> /\ wQueue' = <<>>
       /\ DepthInv(wMatrix', wPrinted', wStack', wVisited')
  BY <1>1, <1>3, <1>6, <1>7, <1>10
<1> QED BY <1>11, <1>12 DEF WalksInv

\* A stack that is not empty is that of a walk in depth.
LEMMA InDepth ==
  ASSUME WalksInv, wStack # <<>>
  PROVE  /\ wPhase = "dfs" /\ wQueue = <<>> /\ wStarts # <<>> /\ WalkTypes
         /\ DepthInv(wMatrix, wPrinted, wStack, wVisited)
<1>1. wPhase \in {"main", "bfs", "dfs"} /\ WalkTypes
  BY DEF WalksInv, WalkTypes
<1>2. wPhase # "main" /\ wPhase # "bfs"
  BY DEF WalksInv
<1> QED BY <1>1, <1>2 DEF WalksInv

LEMMA DescendStep ==
  ASSUME WalksInv, Walk!Descend
  PROVE  WalksInv'
<1>1. PICK new : new = Walk!Fresh(Head(wStack))
  OBVIOUS
<1>2. PICK v : v = Walk!Min(new)
  OBVIOUS
<1>3. /\ wStack # <<>> /\ new # {} /\ Walk!Enter(v, wStack)
      /\ wPhase' = wPhase /\ wMatrix' = wMatrix /\ wQueue' = wQueue /\ wStarts' = wStarts
  BY <1>1, <1>2 DEF Walk!Descend
<1>4. /\ wPhase = "dfs" /\ wQueue = <<>> /\ wStarts # <<>> /\ WalkTypes
      /\ DepthInv(wMatrix, wPrinted, wStack, wVisited)
  BY <1>3, InDepth
<1>5. /\ Reached(wMatrix, wStarts, wVisited) /\ wStarts \in Seq(VertexSet)
      /\ wStack \in Seq(VertexSet) /\ Listed(wPrinted, wVisited)
      /\ wMatrix \subseteq Walk!Edges /\ wQueue \in Seq(VertexSet)
  BY <1>4 DEF WalkTypes
<1>6. new = New(wMatrix, Head(wStack), wVisited) /\ new \subseteq VertexSet /\ new \subseteq Nat
  BY <1>1, FreshIs DEF New, VertexSet
<1>7. v \in new
  <2>1. \E x \in new : \A y \in new : x <= y
    BY <1>3, <1>6, LeastOf
  <2> QED BY <2>1, <1>2 DEF Walk!Min
<1>8. v \in VertexSet /\ Linked(wMatrix, Head(wStack), v)
  BY <1>6, <1>7 DEF New
<1>9. PICK n \in Nat : n = Len(wStack)
  BY <1>5, LenProperties
<1>10. n > 0 /\ Head(wStack) = wStack[1]
  BY <1>3, <1>5, <1>9, EmptySeq
<1>11. /\ wStack' \in Seq(VertexSet) /\ wVisited' = wVisited \cup {v}
       /\ Listed(wPrinted', wVisited')
       /\ DepthInv(wMatrix, wPrinted', wStack', wVisited')
  BY <1>3, <1>4, <1>5, <1>8, <1>10, EnterStep
<1>12. Head(wStack) \in wVisited
  <2>1. 1 \in 1 .. n
    BY <1>10
  <2>2. PICK a \in 1 .. Len(wPrinted) : wPrinted[a] = wStack[1]
    BY <2>1, <1>4, <1>9 DEF DepthInv, StackInv
  <2> QED BY <2>2, <1>5, <1>10 DEF Listed
<1>13. Reached(wMatrix, wStarts, wVisited \cup {v})
  <2>1. \A w \in {v} : \E u \in wVisited : Linked(wMatrix, u, w)
    BY <1>8, <1>12
  <2>2. wVisited \subseteq VertexSet /\ {v} \subseteq VertexSet
    BY <1>5, <1>8 DEF Listed
  <2> QED BY <2>1, <2>2, <1>5, ReachGrows
<1>14. WalkTypes'
  BY <1>3, <1>4, <1>5, <1>11, <1>13 DEF WalkTypes
<1>15. /\ wPhase' = "dfs" /\ wStarts' # <<>> /\ wQueue' = <<>>
       /\ DepthInv(wMatrix', wPrinted', wStack', wVisited')
  BY <1>3, <1>4, <1>11
<1> QED BY <1>14, <1>15 DEF WalksInv

LEMMA ReturnStep ==
  ASSUME WalksInv, Walk!Return
  PROVE  WalksInv'
<1>1. /\ wStack # <<>> /\ Walk!Fresh(Head(wStack)) = {} /\ wStack' = Tail(wStack)
      /\ wPhase' = wPhase /\ wMatrix' = wMatrix /\ wQueue' = wQueue /\ wVisited' = wVisited
      /\ wStarts' = wStarts /\ wPrinted' = wPrinted
  BY DEF Walk!Return
<1>2. /\ wPhase = "dfs" /\ wQueue = <<>> /\ wStarts # <<>> /\ WalkTypes
      /\ DepthInv(wMatrix, wPrinted, wStack, wVisited)
  BY <1>1, InDepth
<1>3. PICK t : t = Tail(wStack)
  OBVIOUS
<1>4. New(wMatrix, Head(wStack), wVisited) = {}
  BY <1>1, FreshIs
<1>5. wStack \in Seq(VertexSet)
  BY <1>2 DEF WalkTypes
<1>6. t \in Seq(VertexSet) /\ DepthInv(wMatrix, wPrinted, t, wVisited)
  BY <1>1, <1>2, <1>3, <1>4, <1>5, DepthReturns
<1>7. WalkTypes'
  BY <1>1, <1>2, <1>3, <1>6 DEF WalkTypes
<1>8. /\ wPhase' = "dfs" /\ wStarts' # <<>> /\ wQueue' = <<>>
      /\ DepthInv(wMatrix', wPrinted', wStack', wVisited')
  BY <1>1, <1>2, <1>3, <1>6
<1> QED BY <1>7, <1>8 DEF WalksInv

LEMMA WalksStep == WalksInv /\ [Walk!Next]_(Walk!vars) => WalksInv'
<1> SUFFICES ASSUME WalksInv, [Walk!Next]_(Walk!vars) PROVE WalksInv'
  OBVIOUS
<1>1. CASE \E v \in WalkStarts : Walk!StartBFS(v)
  BY <1>1, StartBFSStep
<1>2. CASE Walk!Serve
  BY <1>2, ServeStep
<1>3. CASE \E v \in WalkStarts : Walk!CallDFS(v)
  BY <1>3, CallDFSStep
<1>4. CASE Walk!Descend
  BY <1>4, DescendStep
<1>5. CASE Walk!Return
  BY <1>5, ReturnStep
<1>6. CASE UNCHANGED Walk!vars
  BY <1>6 DEF Walk!vars, WalksInv, WalkTypes
<1> QED BY <1>1, <1>2, <1>3, <1>4, <1>5, <1>6
     DEF Walk!Next, Walk!BFS, Walk!DFS, Walk!Terminated

\* What the walks promise, from the invariant.
LEMMA WalksTyped == WalksInv => Walk!TypeOK
<1> SUFFICES ASSUME WalksInv PROVE Walk!TypeOK
  OBVIOUS
<1>1. /\ wPhase \in {"main", "bfs", "dfs"} /\ wMatrix \subseteq Walk!Edges
      /\ wQueue \in Seq(VertexSet) /\ wStack \in Seq(VertexSet) /\ Listed(wPrinted, wVisited)
  BY DEF WalksInv, WalkTypes
<1>2. /\ wPrinted \in Seq(VertexSet) /\ wVisited \subseteq VertexSet
      /\ \A k \in 1 .. Len(wPrinted) : wPrinted[k] \in wVisited
      /\ \A v \in wVisited : \E k \in 1 .. Len(wPrinted) : wPrinted[k] = v
      /\ \A j, k \in 1 .. Len(wPrinted) : wPrinted[j] = wPrinted[k] => j = k
  BY <1>1 DEF Listed
<1>3. DOMAIN wPrinted = 1 .. Len(wPrinted) /\ DOMAIN wStack = 1 .. Len(wStack)
  BY <1>1, <1>2
<1>4. Walk!ToSet(wPrinted) = wVisited
  <2>1. Walk!ToSet(wPrinted) = {wPrinted[k] : k \in 1 .. Len(wPrinted)}
    BY <1>3 DEF Walk!ToSet
  <2> QED BY <2>1, <1>2
<1>5. Walk!IsInjective(wPrinted)
  BY <1>2, <1>3 DEF Walk!IsInjective
<1>6. PICK c \in Nat : c = Len(wStack)
  BY <1>1, LenProperties
<1>7. /\ \A k \in 1 .. c : \E a \in 1 .. Len(wPrinted) : wPrinted[a] = wStack[k]
      /\ \A k, l \in 1 .. c : \A a, b \in 1 .. Len(wPrinted) :
           k < l /\ wPrinted[a] = wStack[k] /\ wPrinted[b] = wStack[l] => b < a
  <2>1. CASE wStack = <<>>
    <3>1. Len(wStack) = 0
      BY <2>1
    <3>2. \A k \in 1 .. c : FALSE
      BY <3>1, <1>6
    <3> QED BY <3>2
  <2>2. CASE wStack # <<>>
    <3>1. StackInv(wPrinted, wStack)
      BY <2>2, InDepth DEF DepthInv
    <3> QED BY <3>1, <1>6 DEF StackInv
  <2> QED BY <2>1, <2>2
<1>8. Walk!ToSet(wStack) \subseteq wVisited
  <2>1. Walk!ToSet(wStack) = {wStack[k] : k \in 1 .. c}
    BY <1>3, <1>6 DEF Walk!ToSet
  <2> QED BY <2>1, <1>2, <1>7
<1>9. \A k, l \in 1 .. c : wStack[k] = wStack[l] => k = l
  <2>1. ASSUME NEW k \in 1 .. c, NEW l \in 1 .. c, wStack[k] = wStack[l] PROVE ~(k < l)
    <3> SUFFICES ASSUME k < l PROVE FALSE
      OBVIOUS
    <3>1. PICK a \in 1 .. Len(wPrinted) : wPrinted[a] = wStack[k]
      BY <1>7
    <3>2. PICK x \in Nat : x = Len(wPrinted)
      BY <1>2, LenProperties
    <3>3. a < a /\ a \in 1 .. x
      BY <2>1, <3>1, <3>2, <1>7
    <3> QED BY <3>3
  <2>2. ASSUME NEW k \in 1 .. c, NEW l \in 1 .. c, wStack[k] = wStack[l] PROVE k = l
    <3>1. ~(k < l) /\ ~(l < k)
      BY <2>1, <2>2
    <3> QED BY <3>1
  <2> QED BY <2>2
<1>10. Walk!IsInjective(wStack)
  BY <1>3, <1>6, <1>9 DEF Walk!IsInjective
<1>11. Walk!Vertices = VertexSet
  BY VerticesAre
<1> QED BY <1>1, <1>2, <1>4, <1>5, <1>8, <1>10, <1>11 DEF Walk!TypeOK

LEMMA ReachSound == WalksInv => Walk!WalksReach
<1> SUFFICES ASSUME WalksInv, wStarts # <<>>, wQueue = <<>>, wStack = <<>>
             PROVE  /\ Walk!Closed(wVisited)
                    /\ \A S \in SUBSET wVisited :
                         Walk!Closed(S) /\ Walk!ToSet(wStarts) \subseteq S => S = wVisited
  BY DEF Walk!WalksReach
<1>1. /\ wMatrix \subseteq Walk!Edges /\ wStarts \in Seq(VertexSet)
      /\ Listed(wPrinted, wVisited) /\ Reached(wMatrix, wStarts, wVisited)
      /\ wPhase \in {"bfs", "dfs"}
  BY DEF WalksInv, WalkTypes
<1>2. wVisited \subseteq VertexSet /\ wPrinted \in Seq(VertexSet)
  BY <1>1 DEF Listed
<1>3. PICK n \in Nat : n = Len(wPrinted)
  BY <1>2, LenProperties
<1>4. \A k \in 1 .. n : \A w \in VertexSet : Linked(wMatrix, wPrinted[k], w) => w \in wVisited
  <2>1. CASE wPhase = "bfs"
    <3>1. BreadthInv(wMatrix, wPrinted, wQueue, wVisited)
      BY <2>1 DEF WalksInv
    <3>2. PICK h \in Nat : Queued(wQueue, wPrinted, h) /\ Served(wMatrix, wPrinted, h, wVisited)
      BY <3>1 DEF BreadthInv
    <3>3. PICK z \in Nat : z = Len(wQueue) /\ z = 0
      OBVIOUS
    <3>4. n = h + z
      BY <3>2, <3>3, <1>3 DEF Queued
    <3>5. n = h
      BY <3>3, <3>4
    <3> QED BY <3>2, <3>5 DEF Served
  <2>2. CASE wPhase = "dfs"
    <3>1. LeftInv(wMatrix, wPrinted, wStack, wVisited)
      BY <2>2 DEF WalksInv, DepthInv
    <3>2. \A w : ~OnWalk(wStack, w)
      <4>1. Len(wStack) = 0
        OBVIOUS
      <4>2. \A k \in 1 .. Len(wStack) : FALSE
        BY <4>1
      <4> QED BY <4>2 DEF OnWalk
    <3> QED BY <3>1, <3>2, <1>3 DEF LeftInv
  <2> QED BY <2>1, <2>2, <1>1
<1>5. NoneLeaves(wMatrix, wVisited)
  <2> SUFFICES ASSUME NEW v \in VertexSet, NEW w \in VertexSet, Linked(wMatrix, v, w), v \in wVisited
               PROVE  w \in wVisited
    BY DEF NoneLeaves
  <2>1. PICK k \in 1 .. n : wPrinted[k] = v
    BY <1>1, <1>3 DEF Listed
  <2> QED BY <2>1, <1>4
<1>6. Walk!Closed(wVisited)
  BY <1>1, <1>5, ClosedIs
<1>7. ASSUME NEW S \in SUBSET wVisited, Walk!Closed(S), Walk!ToSet(wStarts) \subseteq S
      PROVE  S = wVisited
  <2>1. NoneLeaves(wMatrix, S) /\ S \in SUBSET VertexSet
    BY <1>1, <1>2, <1>7, ClosedIs
  <2>2. \A k \in 1 .. Len(wStarts) : wStarts[k] \in S
    <3>1. DOMAIN wStarts = 1 .. Len(wStarts)
      BY <1>1
    <3> QED BY <3>1, <1>7 DEF Walk!ToSet
  <2>3. wVisited \subseteq S
    BY <2>1, <2>2, <1>1 DEF Reached
  <2> QED BY <2>3
<1> QED BY <1>6, <1>7

LEMMA BreadthSound == WalksInv => Walk!BreadthFirst
<1> SUFFICES ASSUME WalksInv, wPhase = "bfs",
                    NEW k \in 2 .. Len(wPrinted), NEW l \in 2 .. Len(wPrinted), k < l
             PROVE  Walk!FirstSource(k) <= Walk!FirstSource(l)
  BY DEF Walk!BreadthFirst
<1>1. BreadthInv(wMatrix, wPrinted, wQueue, wVisited) /\ wPrinted \in Seq(VertexSet)
  BY DEF WalksInv, WalkTypes, Listed
<1>2. PICK n \in Nat : n = Len(wPrinted)
  BY <1>1, LenProperties
<1>3. PICK h \in Nat : h <= n /\ Sourced(wMatrix, wPrinted, h)
  BY <1>1, <1>2 DEF BreadthInv
<1>4. ASSUME NEW x \in 2 .. n, NEW i \in 1 .. h, First(wMatrix, wPrinted, i, x)
      PROVE  Walk!FirstSource(x) = i
  <2> DEFINE P(j) == First(wMatrix, wPrinted, j, x)
  <2>1. Walk!FirstSource(x) = CHOOSE j \in 1 .. n : P(j)
    BY <1>2 DEF Walk!FirstSource, First, Linked
  <2>2. i \in 1 .. n
    BY <1>3
  <2>3. \E j \in 1 .. n : P(j)
    BY <2>2, <1>4
  <2> DEFINE f == CHOOSE j \in 1 .. n : P(j)
  <2>4. f \in 1 .. n /\ P(f)
    BY <2>3
  <2>5. \A j \in 1 .. n : j \in Nat /\ j > 0
    OBVIOUS
  <2> HIDE DEF f
  <2>6. f = i
    BY <2>2, <2>4, <2>5, <1>4, FirstIsUnique
  <2> QED BY <2>1, <2>6 DEF f
<1>5. PICK i \in 1 .. h : First(wMatrix, wPrinted, i, k)
  BY <1>3 DEF Sourced
<1>6. PICK j \in 1 .. h : First(wMatrix, wPrinted, j, l)
  BY <1>3 DEF Sourced
<1>7. i <= j
  BY <1>3, <1>5, <1>6 DEF Sourced
<1> QED BY <1>2, <1>4, <1>5, <1>6, <1>7

LEMMA DepthSound == WalksInv => Walk!DepthFirst
<1> SUFFICES ASSUME WalksInv, wPhase = "dfs" PROVE Walk!DepthFirst
  BY DEF Walk!DepthFirst
<1>1. OrderInv(wMatrix, wPrinted)
  BY DEF WalksInv, DepthInv
<1> QED BY <1>1 DEF Walk!DepthFirst, OrderInv, LeadsOn, Linked

(* For any matrix of edges: when a walk of BFS_and_DFS.c has ended, it has
   printed what can be reached from where it started, and nothing else; BFS
   in the order of the first vertices with an edge to them, DFS whatever a
   vertex leads to before what only vertices before it lead to.             *)
THEOREM WalksAreInOrder ==
  Walk!Spec => [](Walk!TypeOK /\ Walk!WalksReach /\ Walk!BreadthFirst /\ Walk!DepthFirst)
<1> QED BY WalksInit, WalksStep, WalksTyped, ReachSound, BreadthSound, DepthSound, PTL
     DEF Walk!Spec
-----------------------------------------------------------------------------
(* Proofs, for every capacity (a multiple of eight where blocks are padded)  *)
(* and all sizes callers may ask for.                                       *)

(* The offset of the padding allocator is itself aligned, which is why a    *)
(* size that fits the capacity fits it padded.                              *)
Aligned == Pads => allocated % 8 = 0

IndInv == ArenaSound /\ Aligned

(* alloc_obj's padding goes up to the next multiple of eight ...            *)
LEMMA PaddedUp ==
  ASSUME NEW size \in Nat
  PROVE  /\ Padded(size) \in Nat /\ size <= Padded(size)
         /\ Pads => Padded(size) % 8 = 0 /\ Padded(size) <= size + 7
  BY SMT DEF Padded

(* ... and not beyond a multiple of eight that the size itself respects.    *)
LEMMA PaddedFits ==
  ASSUME NEW size \in Nat, NEW room \in Nat, NEW limit \in Nat,
         room % 8 = 0, limit % 8 = 0, Pads, room + size <= limit
  PROVE  room + Padded(size) <= limit /\ (room + Padded(size)) % 8 = 0
<1>1. PICK p \in Nat : p = Padded(size) /\ p % 8 = 0 /\ p <= size + 7
  BY PaddedUp
<1>2. room + p <= limit /\ (room + p) % 8 = 0
  BY <1>1, SMT
<1> QED BY <1>1, <1>2

(* init_arena.                                                              *)
LEMMA InitInd == Init => IndInv
  BY ArenaAssumption, SMT DEF Init, IndInv, ArenaSound, TypeOK, BlocksApart, Aligned

(* alloc_obj hands out a block above all the others.                        *)
LEMMA AllocInd ==
  ASSUME IndInv, NEW size \in Sizes, Alloc(size)
  PROVE  IndInv'
<1> DEFINE new == [start |-> allocated, size |-> size]
<1>1. /\ size \in Nat /\ capacity \in Nat /\ allocated \in Nat
      /\ allocated + size <= capacity /\ Padded(size) \in Nat /\ size <= Padded(size)
  BY ArenaAssumption, PaddedUp DEF IndInv, ArenaSound, TypeOK, Alloc, Fits
<1>2. /\ allocated' = allocated + Padded(size)
      /\ blocks' = blocks \cup {new} /\ phase' = phase
  BY DEF Alloc
<1>3. allocated' <= capacity /\ Aligned'
  <2>1. CASE Pads
    BY <2>1, <1>1, <1>2, PaddedFits, ArenaAssumption DEF IndInv, Aligned
  <2>2. CASE ~Pads
    BY <2>2, <1>1, <1>2 DEF Padded, Aligned
  <2> QED BY <2>1, <2>2
<1>4. TypeOK'
  BY <1>1, <1>2, <1>3 DEF IndInv, ArenaSound, TypeOK
<1>5. \A b \in blocks : b.start \in Nat /\ b.size \in Nat /\ b.start + b.size <= allocated
  <2>1. ASSUME NEW b \in blocks PROVE b.start \in 0 .. capacity /\ b.size \in Sizes
    BY <2>1 DEF IndInv, ArenaSound, TypeOK
  <2>2. \A b \in blocks : b.start + b.size <= allocated
    BY DEF IndInv, ArenaSound, BlocksApart
  <2>3. Sizes \subseteq Nat /\ 0 .. capacity \subseteq Nat
    BY ArenaAssumption
  <2> QED BY <2>1, <2>2, <2>3
<1>6. \A b \in blocks' : /\ b.start + b.size <= allocated'
                         /\ Pads => b.start % 8 = 0
  <2>1. ASSUME NEW b \in blocks
        PROVE  b.start + b.size <= allocated' /\ (Pads => b.start % 8 = 0)
    BY <2>1, <1>1, <1>2, <1>5 DEF IndInv, ArenaSound, BlocksApart
  <2>2. new.start + new.size <= allocated' /\ (Pads => new.start % 8 = 0)
    BY <1>1, <1>2 DEF IndInv, Aligned
  <2> QED BY <2>1, <2>2, <1>2
<1>7. \A b, c \in blocks' :
        b = c \/ b.start + b.size <= c.start \/ c.start + c.size <= b.start
  BY <1>2, <1>5 DEF IndInv, ArenaSound, BlocksApart
<1> QED BY <1>3, <1>4, <1>6, <1>7 DEF IndInv, ArenaSound, BlocksApart

(* Every step.                                                              *)
LEMMA StepInd == IndInv /\ [Next]_vars => IndInv'
<1> SUFFICES ASSUME IndInv, [Next]_vars PROVE IndInv'
  OBVIOUS
<1> USE DEF IndInv, ArenaSound, TypeOK, BlocksApart, Aligned
<1>1. ASSUME NEW size \in Sizes, Alloc(size) PROVE IndInv'
  BY <1>1, AllocInd
<1>2. ASSUME NEW size \in Sizes, OutOfMemory(size) PROVE IndInv'
  BY <1>2 DEF OutOfMemory
<1>3. CASE arena_reset
  BY <1>3, ArenaAssumption, SMT DEF arena_reset
<1>4. CASE destroy_arena
  BY <1>4 DEF destroy_arena
<1>5. CASE UNCHANGED vars
  BY <1>5 DEF vars
<1> QED BY <1>1, <1>2, <1>3, <1>4, <1>5 DEF Next, alloc_obj, Terminated

(* Whatever callers allocate and reset, the blocks alloc_obj hands out lie
   inside the buffer, share no byte, and are aligned where they are padded. *)
THEOREM ArenaIsSound == Spec => []ArenaSound
<1>1. IndInv => ArenaSound
  BY DEF IndInv
<1> QED BY <1>1, InitInd, StepInd, PTL DEF Spec
-----------------------------------------------------------------------------
Flight == INSTANCE FlightControl WITH
  phase <- fPhase, flight_controls <- fControls, engine_control <- fEngine,
  authorized_to_flight <- fAuthorized, box <- fBox, dropped <- fDropped,
  confirmed <- fConfirmed, stopped <- fStopped
flightVars == <<fPhase, fControls, fEngine, fAuthorized, fBox, fDropped, fConfirmed, fStopped>>

(* Proofs about problems/fcw.c.                                             *)

(* Fuel that the checklist asks for is in the tanks: nothing drains them,
   and refill writes both.                                                  *)
FuelAuthorized == "fuel" \in fAuthorized => "fuel" \in fControls

FlightInv == /\ Flight!TypeOK /\ Flight!OneAltitude /\ Flight!FuelledAloft
             /\ Flight!BoxKnowsLeft /\ Flight!SignedOrStopped /\ FuelAuthorized

(* What main starts from.                                                   *)
LEMMA FlightInit == Flight!Init => FlightInv
  BY DEF Flight!Init, FlightInv, Flight!TypeOK, Flight!OneAltitude, Flight!FuelledAloft,
     Flight!BoxKnowsLeft, Flight!SignedOrStopped, FuelAuthorized, Flight!Ground,
     Flight!Airborne, Flight!EngineOn, Flight!MaskBit, Flight!Sides, Flight!Running

(* A command to an engine is recorded, if at all, in the state it has.      *)
LEMMA FlightRecords ==
  ASSUME FlightInv, NEW side \in Flight!Sides, NEW state \in {"ON", "OFF", "IGNORED"},
         Flight!record_command(side, state)
  PROVE  /\ fBox' \in {"none", "ON", "OFF", "IGNORED"} /\ fDropped' \in BOOLEAN
         /\ side = "left" /\ ~fDropped' => fBox' = state
         /\ side # "left" => UNCHANGED <<fBox, fDropped>>
  BY DEF FlightInv, Flight!TypeOK, Flight!record_command, Flight!recorder

(* A call that leaves switches and records alone.                           *)
LEMMA FlightKeeps ==
  ASSUME FlightInv, UNCHANGED <<fControls, fEngine, fAuthorized, fBox, fDropped, fStopped>>,
         fPhase' \in {"running", "aborted", "spinning"}, fPhase' = "running" => fPhase = "running",
         fConfirmed' \in BOOLEAN
  PROVE  FlightInv'
  BY DEF FlightInv, Flight!TypeOK, Flight!OneAltitude, Flight!FuelledAloft,
     Flight!BoxKnowsLeft, Flight!SignedOrStopped, FuelAuthorized, Flight!Ground,
     Flight!Airborne, Flight!EngineOn, Flight!Running

(* refill fills the tanks and the checklist together.                       *)
LEMMA FlightRefill == ASSUME FlightInv, Flight!refill PROVE FlightInv'
<1>1. CASE Flight!Refill
  <2>1. /\ fControls' = fControls \cup {"fuel"} /\ fAuthorized' = fAuthorized \cup {"fuel"}
        /\ UNCHANGED <<fPhase, fEngine, fBox, fDropped, fConfirmed, fStopped>>
    BY <1>1 DEF Flight!Refill, Flight!Fill, Flight!recorder
  <2> QED
    BY <2>1 DEF FlightInv, Flight!TypeOK, Flight!OneAltitude, Flight!FuelledAloft,
       Flight!BoxKnowsLeft, Flight!SignedOrStopped, FuelAuthorized, Flight!Ground,
       Flight!Airborne, Flight!EngineOn, Flight!Running, Flight!Sides
<1>2. CASE Flight!RefillFull
  BY <1>2, FlightKeeps DEF Flight!RefillFull, Flight!vars, Flight!recorder, FlightInv, Flight!TypeOK
<1>3. CASE Flight!RefillAloft
  BY <1>3, FlightKeeps DEF Flight!RefillAloft, Flight!Abort, Flight!recorder, FlightInv, Flight!TypeOK
<1> QED BY <1>1, <1>2, <1>3 DEF Flight!refill

(* toggle_engine_switch_on signs the checklist for the engine it starts.    *)
LEMMA FlightOn ==
  ASSUME FlightInv, NEW side \in Flight!Sides, Flight!toggle_engine_switch_on(side)
  PROVE  FlightInv'
<1>1. CASE Flight!EnginesAlreadyOn
  BY <1>1, FlightKeeps DEF Flight!EnginesAlreadyOn, Flight!vars, Flight!recorder, FlightInv, Flight!TypeOK
<1>2. CASE Flight!EngineStarts(side)
  <2>1. /\ fEngine' = fEngine \cup {Flight!MaskBit(side)}
        /\ fAuthorized' = fAuthorized \cup {side} /\ fStopped' = fStopped \ {side}
        /\ UNCHANGED <<fPhase, fControls, fConfirmed>>
        /\ Flight!record_command(side, "ON")
    BY <1>2 DEF Flight!EngineStarts, Flight!Sign
  <2>2. /\ fBox' \in {"none", "ON", "OFF", "IGNORED"} /\ fDropped' \in BOOLEAN
        /\ side = "left" /\ ~fDropped' => fBox' = "ON"
        /\ side # "left" => UNCHANGED <<fBox, fDropped>>
    BY <2>1, FlightRecords
  <2> QED
    BY <2>1, <2>2 DEF FlightInv, Flight!TypeOK, Flight!OneAltitude, Flight!FuelledAloft,
       Flight!BoxKnowsLeft, Flight!SignedOrStopped, FuelAuthorized, Flight!Ground,
       Flight!Airborne, Flight!EngineOn, Flight!Running, Flight!Sides, Flight!MaskBit
<1>3. CASE Flight!EngineRefused(side)
  <2>1. fBox' \in {"none", "ON", "OFF", "IGNORED"} /\ fDropped' \in BOOLEAN
    BY <1>3, FlightRecords DEF Flight!EngineRefused
  <2> QED
    BY <1>3, <2>1 DEF Flight!EngineRefused, Flight!Abort, FlightInv, Flight!TypeOK,
       Flight!OneAltitude, Flight!FuelledAloft, Flight!BoxKnowsLeft, Flight!SignedOrStopped,
       FuelAuthorized, Flight!Ground, Flight!Airborne, Flight!EngineOn, Flight!Running
<1> QED BY <1>1, <1>2, <1>3 DEF Flight!toggle_engine_switch_on

(* execute_departure: what the checklist says of the fuel is so.            *)
LEMMA FlightDeparts == ASSUME FlightInv, Flight!execute_departure PROVE FlightInv'
<1>1. CASE Flight!Depart
  BY <1>1 DEF Flight!Depart, Flight!Leave, Flight!request_departure_auth, Flight!recorder,
     FlightInv, Flight!TypeOK, Flight!OneAltitude, Flight!FuelledAloft, Flight!BoxKnowsLeft,
     Flight!SignedOrStopped, FuelAuthorized, Flight!Ground, Flight!Airborne, Flight!EngineOn,
     Flight!Running
<1>2. CASE Flight!DepartureDenied
  BY <1>2, FlightKeeps
  DEF Flight!DepartureDenied, Flight!Abort, Flight!recorder, FlightInv, Flight!TypeOK
<1> QED BY <1>1, <1>2 DEF Flight!execute_departure

(* execute_landing.                                                         *)
LEMMA FlightLands == ASSUME FlightInv, Flight!execute_landing PROVE FlightInv'
<1>1. CASE Flight!Land
  BY <1>1 DEF Flight!Land, Flight!recorder,
     FlightInv, Flight!TypeOK, Flight!OneAltitude, Flight!FuelledAloft, Flight!BoxKnowsLeft,
     Flight!SignedOrStopped, FuelAuthorized, Flight!Ground, Flight!Airborne, Flight!EngineOn,
     Flight!Running
<1>2. CASE Flight!LandingDenied
  BY <1>2, FlightKeeps
  DEF Flight!LandingDenied, Flight!Abort, Flight!recorder, FlightInv, Flight!TypeOK
<1> QED BY <1>1, <1>2 DEF Flight!execute_landing

(* What turn_eng_off leaves: the left engine's bit is its own, the right
   engine's is not, so that turning the right one off changes nothing.      *)
LEMMA FlightTurnsOff ==
  ASSUME FlightInv, NEW side \in Flight!Sides,
         fEngine' = Flight!turn_eng_off(side), Flight!record_command(side, "OFF"),
         fStopped' = fStopped \cup {side}, fConfirmed' \in BOOLEAN,
         UNCHANGED <<fPhase, fControls, fAuthorized>>
  PROVE  FlightInv'
<1>1. /\ fBox' \in {"none", "ON", "OFF", "IGNORED"} /\ fDropped' \in BOOLEAN
      /\ side = "left" /\ ~fDropped' => fBox' = "OFF"
      /\ side # "left" => UNCHANGED <<fBox, fDropped>>
  BY FlightRecords
<1>2. fEngine' = fEngine \ {IF side = "left" THEN 1 ELSE 3}
  BY DEF Flight!turn_eng_off, Flight!SwitchBit
<1> QED
  BY <1>1, <1>2 DEF FlightInv, Flight!TypeOK, Flight!OneAltitude, Flight!FuelledAloft,
     Flight!BoxKnowsLeft, Flight!SignedOrStopped, FuelAuthorized, Flight!Ground,
     Flight!Airborne, Flight!EngineOn, Flight!Running, Flight!MaskBit, Flight!Sides

(* toggle_engine_switch_off, with the dialogue of declare_emergency.        *)
LEMMA FlightOff ==
  ASSUME FlightInv, NEW side \in Flight!Sides, Flight!toggle_engine_switch_off(side)
  PROVE  FlightInv'
<1>1. CASE Flight!EmergencyOff(side)
  <2>1. PICK p1, p2 \in BOOLEAN :
          /\ fConfirmed' = (p1 /\ p2)
          /\ IF Flight!Approved(p1, p2)
               THEN /\ fEngine' = Flight!turn_eng_off(side)
                    /\ fStopped' = fStopped \cup {side}
                    /\ Flight!record_command(side, "OFF")
               ELSE UNCHANGED <<fEngine, Flight!recorder, fStopped>>
    BY <1>1 DEF Flight!EmergencyOff
  <2>2. UNCHANGED <<fPhase, fControls, fAuthorized>> /\ fConfirmed' \in BOOLEAN
    BY <1>1, <2>1 DEF Flight!EmergencyOff
  <2>3. CASE Flight!Approved(p1, p2)
    BY <2>1, <2>2, <2>3, FlightTurnsOff
  <2>4. CASE ~Flight!Approved(p1, p2)
    <3>1. UNCHANGED <<fEngine, fBox, fDropped, fStopped>>
      BY <2>1, <2>4 DEF Flight!recorder
    <3>2. fPhase \in {"running", "aborted", "spinning"}
      BY DEF FlightInv, Flight!TypeOK
    <3> QED BY <2>2, <3>1, <3>2, FlightKeeps
  <2> QED BY <2>3, <2>4
<1>2. CASE Flight!InputEnds
  BY <1>2, FlightKeeps
  DEF Flight!InputEnds, Flight!Running, Flight!recorder, FlightInv, Flight!TypeOK
<1>3. CASE Flight!EnginesAlreadyOff
  BY <1>3, FlightKeeps
  DEF Flight!EnginesAlreadyOff, Flight!vars, Flight!recorder, FlightInv, Flight!TypeOK
<1>4. CASE Flight!EngineOff(side)
  BY <1>4, FlightTurnsOff DEF Flight!EngineOff, FlightInv, Flight!TypeOK
<1> QED BY <1>1, <1>2, <1>3, <1>4 DEF Flight!toggle_engine_switch_off

(* Every call to the controls.                                              *)
LEMMA FlightStep == FlightInv /\ [Flight!Next]_(Flight!vars) => FlightInv'
<1> SUFFICES ASSUME FlightInv, [Flight!Next]_(Flight!vars) PROVE FlightInv'
  OBVIOUS
<1>1. CASE UNCHANGED Flight!vars
  BY <1>1, FlightKeeps DEF Flight!vars, Flight!recorder, FlightInv, Flight!TypeOK
<1> QED
  BY <1>1, FlightRefill, FlightDeparts, FlightLands, FlightOn, FlightOff
  DEF Flight!Next, Flight!Terminated

(* In the air no call touches an engine but declare_emergency, and that only
   when both pilots agree: everything else that moves an engine asks for the
   ground, and an airplane is never both on the ground and in the air.      *)
LEMMA FlightConfirmed ==
  FlightInv /\ [Flight!Next]_(Flight!vars)
    => [Flight!Airborne /\ fEngine' # fEngine => fConfirmed']_(Flight!vars)
<1> SUFFICES ASSUME FlightInv, Flight!Next, Flight!Airborne, fEngine' # fEngine PROVE fConfirmed'
  OBVIOUS
<1>1. ~Flight!Ground
  BY DEF FlightInv, Flight!OneAltitude
<1>2. ~Flight!refill /\ ~Flight!execute_departure /\ ~Flight!execute_landing /\ ~Flight!Terminated
  BY DEF Flight!refill, Flight!Refill, Flight!RefillFull, Flight!RefillAloft,
     Flight!execute_departure, Flight!Depart, Flight!DepartureDenied, Flight!execute_landing,
     Flight!Land, Flight!LandingDenied, Flight!Terminated, Flight!vars
<1>3. ASSUME NEW side \in Flight!Sides PROVE ~Flight!toggle_engine_switch_on(side)
  BY <1>1 DEF Flight!toggle_engine_switch_on, Flight!EnginesAlreadyOn, Flight!EngineStarts,
     Flight!EngineRefused, Flight!vars
<1>4. PICK side \in Flight!Sides : Flight!toggle_engine_switch_off(side)
  BY <1>2, <1>3 DEF Flight!Next
<1>5. Flight!EmergencyOff(side)
  BY <1>1, <1>4 DEF Flight!toggle_engine_switch_off, Flight!InputEnds, Flight!EnginesAlreadyOff,
     Flight!EngineOff, Flight!vars
<1> QED BY <1>5 DEF Flight!EmergencyOff, Flight!Approved
-----------------------------------------------------------------------------
Bay == INSTANCE Cargo WITH
  CARGO_QUEUE_CAPACITY <- BayCapacity, Codes <- BayCodes, Values <- BayValues,
  phase <- cPhase, queue <- cQueue, size <- cSize, rails <- cRails,
  container <- cContainer, live <- cLive
bayVars == <<cPhase, cQueue, cSize, cRails, cContainer, cLive>>

ASSUME BayAssumption == Bay!CargoAssumption

(* Proofs about problems/cargo.c.                                           *)

(* What enqueue makes of a ship that arrives with a code it knows.          *)
Ships == [code : DOMAIN Bay!CharSum, given : (0 .. 255) \X (0 .. 255),
          material : 0 .. 255, state : Bay!States]

(* The queue fills its first slots and holds the ships in the order of their
   arrival; what is still in it is marked as inspected only with both
   measures.                                                                *)
QueueOrder ==
  /\ \A i \in Bay!Slots : cQueue[i] # Bay!NoShip <=> i < cSize
  /\ \A i, j \in 0 .. cSize - 1 : i < j => cQueue[i] < cQueue[j]
Judged == \A c \in Bay!Queued : Bay!Inspected(c) <=> Bay!Complete(c)

BayInv == /\ Bay!TypeOK /\ Bay!HeldOnce /\ Bay!Sorted /\ Bay!RailOrder
          /\ cRails \in [Bay!Rails -> Seq(Bay!Arrived)] /\ cContainer \in Seq(Ships)
          /\ QueueOrder /\ Judged

(* Every code has its rail.                                                 *)
LEMMA BayHash ==
  ASSUME NEW code \in DOMAIN Bay!CharSum PROVE Bay!hash_function(code) \in Bay!Rails
<1>1. Bay!CharSum[code] \in {447, 450, 458}
  BY DEF Bay!CharSum
<1> QED BY <1>1 DEF Bay!hash_function, Bay!Rails, Bay!CARGO_RAILS_CAPACITY

(* inspect leaves exactly one bit, whatever malloc left, and it tells whether
   both measures came: MAT_COMBINE keeps them in four bits each and the
   macros that extract get back what was kept.                              *)
LEMMA BayInspects ==
  ASSUME NEW code \in DOMAIN Bay!CharSum, NEW v1 \in 0 .. 255, NEW v2 \in 0 .. 255, NEW garbage,
         NEW ship, ship = Bay!inspect(Bay!NewContainer(code, v1, v2, garbage), "known")
  PROVE  /\ ship \in Ships
         /\ 1 \in ship.state <=> \A v \in {1, 2} : ship.given[v] % 16 # 0
<1> DEFINE fresh == Bay!NewContainer(code, v1, v2, garbage)
           verdict == IF Bay!Passes(fresh, "known") THEN Bay!INSPECTED_IDX ELSE Bay!QUARANTINE_IDX
           combined == (v1 % 16) * 16 + (v2 % 16)
<1>1. fresh = [code |-> code, given |-> <<v1, v2>>, material |-> combined,
               state |-> garbage \cup {Bay!IN_QUEUE_IDX}]
  BY DEF Bay!NewContainer, Bay!MAT_COMBINE
<1>2. ship = [code |-> code, given |-> <<v1, v2>>, material |-> combined, state |-> {verdict}]
  <2>1. ship = [fresh EXCEPT !.state = {verdict}]
    BY DEF Bay!inspect
  <2> HIDE DEF verdict, combined, fresh
  <2> QED BY <1>1, <2>1
<1>3. combined \in 0 .. 255 /\ combined \div 16 = v1 % 16 /\ combined % 16 = v2 % 16
  <2>1. \A x, y \in 0 .. 15 : /\ x * 16 + y \in 0 .. 255
                             /\ (x * 16 + y) \div 16 = x /\ (x * 16 + y) % 16 = y
    OBVIOUS
  <2>2. v1 % 16 \in 0 .. 15 /\ v2 % 16 \in 0 .. 15
    OBVIOUS
  <2> QED BY <2>1, <2>2
<1>4. Bay!Passes(fresh, "known") <=> v1 % 16 # 0 /\ v2 % 16 # 0
  <2> HIDE DEF combined
  <2> QED
    BY <1>1, <1>3 DEF Bay!Passes, Bay!BothMeasures, Bay!MAT_EXTRACT_LEFT, Bay!MAT_EXTRACT_RIGHT
<1>5. {verdict} \in Bay!States /\ (1 \in {verdict} <=> Bay!Passes(fresh, "known"))
  <2> HIDE DEF fresh
  <2> QED BY DEF Bay!States, Bay!INSPECTED_IDX, Bay!QUARANTINE_IDX, Bay!DEPARTURE_IDX
<1>6. ship.given[1] = v1 /\ ship.given[2] = v2 /\ ship.state = {verdict}
  <2> HIDE DEF verdict, combined, fresh
  <2> QED BY <1>2
<1>7. ship \in Ships
  <2> HIDE DEF verdict, combined, fresh
  <2>1. combined \in 0 .. 255
    BY <1>3
  <2>2. {verdict} \in Bay!States
    BY <1>5
  <2>3. <<v1, v2>> \in (0 .. 255) \X (0 .. 255)
    OBVIOUS
  <2> QED BY <1>2, <2>1, <2>2, <2>3 DEF Ships
<1> HIDE DEF verdict, combined, fresh
<1> QED BY <1>4, <1>5, <1>6, <1>7

(* A container of a material that inspect does not know is put in quarantine,
   whatever malloc left in its bytes.                                       *)
LEMMA BayRefuses ==
  ASSUME NEW code \in DOMAIN Bay!CharSum, NEW left \in 0 .. 255, NEW garbage,
         NEW ship, ship = Bay!inspect(Bay!StrangeContainer(code, left, garbage), "unidentified")
  PROVE  /\ ship \in Ships
         /\ 1 \in ship.state <=> \A v \in {1, 2} : ship.given[v] % 16 # 0
<1> DEFINE fresh == Bay!StrangeContainer(code, left, garbage)
<1>1. ship = [fresh EXCEPT !.state = {3}]
  BY DEF Bay!inspect, Bay!Passes, Bay!QUARANTINE_IDX
<1>2. fresh = [code |-> code, given |-> <<0, 0>>, material |-> left,
               state |-> garbage \cup {3}]
  BY DEF Bay!StrangeContainer, Bay!QUARANTINE_IDX
<1>3. ship = [code |-> code, given |-> <<0, 0>>, material |-> left, state |-> {3}]
  <2> HIDE DEF fresh
  <2> QED BY <1>1, <1>2
<1>4. {3} \in Bay!States /\ 1 \notin {3}
  BY DEF Bay!States, Bay!QUARANTINE_IDX
<1>5. <<0, 0>> \in (0 .. 255) \X (0 .. 255) /\ <<0, 0>>[1] = 0
  OBVIOUS
<1>6. ship \in Ships
  BY <1>3, <1>4, <1>5 DEF Ships
<1>7. ship.state = {3} /\ ship.given[1] = 0
  BY <1>3, <1>5
<1>8. ~(1 \in ship.state) /\ ship.given[1] % 16 = 0
  BY <1>4, <1>7
<1> QED BY <1>6, <1>8

(* Containers are numbered as they arrive.                                  *)
LEMMA BayNumbers ==
  ASSUME BayInv
  PROVE  /\ Bay!Arrived = 1 .. Len(cContainer) /\ Len(cContainer) \in Nat
         /\ Bay!Slots \subseteq Nat /\ BayCapacity \in Nat /\ cSize \in 0 .. BayCapacity
         /\ cQueue \in [Bay!Slots -> Bay!Arrived \cup {Bay!NoShip}]
         /\ \A i \in Bay!Slots : i < cSize => cQueue[i] \in Bay!Arrived
         /\ Bay!Queued = {cQueue[i] : i \in 0 .. cSize - 1} /\ Bay!Queued \subseteq Bay!Arrived
<1>1. /\ Bay!Arrived = 1 .. Len(cContainer) /\ Len(cContainer) \in Nat /\ BayCapacity \in Nat
      /\ cQueue \in [Bay!Slots -> Bay!Arrived \cup {Bay!NoShip}] /\ cSize \in 0 .. BayCapacity
  BY BayAssumption DEF BayInv, Bay!TypeOK, Bay!Arrived, Bay!CargoAssumption
<1>2. Bay!Slots \subseteq Nat
  BY <1>1 DEF Bay!Slots
<1>3. \A i \in Bay!Slots : cQueue[i] # Bay!NoShip <=> i < cSize
  BY DEF BayInv, QueueOrder
<1>4. \A i \in 0 .. cSize - 1 : i \in Bay!Slots /\ i < cSize
  BY <1>1 DEF Bay!Slots
<1>5. \A i \in Bay!Slots : i < cSize => cQueue[i] \in Bay!Arrived /\ i \in 0 .. cSize - 1
  BY <1>1, <1>2, <1>3
<1>6. Bay!Queued = {cQueue[i] : i \in 0 .. cSize - 1}
  BY <1>3, <1>4, <1>5 DEF Bay!Queued
<1>7. Bay!Queued \subseteq Bay!Arrived
  BY <1>1 DEF Bay!Queued
<1> QED BY <1>1, <1>2, <1>5, <1>6, <1>7

(* What stands on the rails has arrived.                                    *)
LEMMA BayRails ==
  ASSUME BayInv
  PROVE  /\ \A r \in Bay!Rails : cRails[r] \in Seq(Bay!Arrived) /\ Bay!OnRail(r) \subseteq Bay!Arrived
         /\ Bay!OnRails \subseteq Bay!Arrived
<1>1. \A r \in Bay!Rails : cRails[r] \in Seq(Bay!Arrived)
  BY DEF BayInv
<1>2. \A r \in Bay!Rails : Bay!OnRail(r) \subseteq Bay!Arrived
  <2> SUFFICES ASSUME NEW r \in Bay!Rails, NEW i \in DOMAIN cRails[r]
               PROVE  cRails[r][i] \in Bay!Arrived
    BY DEF Bay!OnRail
  <2> HIDE DEF Bay!Arrived
  <2> QED BY <1>1
<1> QED BY <1>1, <1>2 DEF Bay!OnRails

(* The empty bay.                                                           *)
LEMMA BayInit == Bay!Init => BayInv
<1> SUFFICES ASSUME Bay!Init PROVE BayInv
  OBVIOUS
<1>1. BayCapacity \in Nat
  BY BayAssumption DEF Bay!CargoAssumption
<1>2. /\ cPhase = "running" /\ cSize = 0 /\ cLive = {} /\ cContainer = <<>>
      /\ cQueue = [i \in Bay!Slots |-> Bay!NoShip] /\ cRails = [r \in Bay!Rails |-> <<>>]
  BY DEF Bay!Init
<1>3. Bay!Arrived = {} /\ cContainer \in Seq(Ships)
  BY <1>2 DEF Bay!Arrived
<1>4. Bay!Queued = {} /\ \A r \in Bay!Rails : Bay!OnRail(r) = {}
  BY <1>2 DEF Bay!Queued, Bay!OnRail
<1>5. Bay!OnRails = {}
  BY <1>4 DEF Bay!OnRails
<1>6. \A r \in Bay!Rails : cRails[r] = <<>> /\ cRails[r] \in Seq(Bay!Arrived)
  BY <1>2
<1>7. cRails \in [Bay!Rails -> Seq(Bay!Arrived)]
  BY <1>2
<1>8. Bay!TypeOK
  BY <1>1, <1>2, <1>3, <1>6 DEF Bay!TypeOK
<1>9. QueueOrder
  BY <1>1, <1>2 DEF QueueOrder, Bay!Slots
<1>10. Bay!HeldOnce
  BY <1>1, <1>2, <1>4, <1>5 DEF Bay!HeldOnce, Bay!Slots
<1>11. Bay!Sorted /\ Judged
  BY <1>3, <1>4 DEF Bay!Sorted, Judged
<1>12. Bay!RailOrder
  BY <1>4, <1>6 DEF Bay!RailOrder
<1> QED BY <1>3, <1>7, <1>8, <1>9, <1>10, <1>11, <1>12 DEF BayInv

(* Calls that end the program, and those that change nothing.               *)
LEMMA BayStops ==
  ASSUME BayInv, cPhase' \in {"exited", "crashed", "cleaned"}, cLive' \subseteq cLive,
         UNCHANGED <<cQueue, cSize, cRails, cContainer>>
  PROVE  BayInv'
<1> USE DEF Bay!Arrived, Bay!OnRail, Bay!OnRails, Bay!Queued
<1>1. Bay!TypeOK'
  BY DEF BayInv, Bay!TypeOK
<1>2. Bay!HeldOnce' /\ Bay!Sorted'
  BY DEF Bay!HeldOnce, Bay!Sorted, Bay!Running
<1>3. Bay!RailOrder'
  BY DEF BayInv, Bay!RailOrder, Bay!Running
<1> QED
  BY <1>1, <1>2, <1>3 DEF BayInv, QueueOrder, Judged, Bay!Inspected, Bay!Complete

(* A call that changes nothing.                                             *)
LEMMA BayStutters == ASSUME BayInv, UNCHANGED Bay!vars PROVE BayInv'
<1> USE DEF Bay!vars, Bay!Arrived, Bay!OnRail, Bay!OnRails, Bay!Queued
<1>1. /\ Bay!OnRails' = Bay!OnRails /\ Bay!Queued' = Bay!Queued /\ cLive' = cLive
      /\ cQueue' = cQueue /\ cSize' = cSize /\ cPhase' = cPhase
  OBVIOUS
<1>2. Bay!TypeOK'
  BY DEF BayInv, Bay!TypeOK
<1>3. Bay!HeldOnce'
  <2> USE DEF BayInv, Bay!HeldOnce, Bay!Running
  <2> HIDE DEF Bay!OnRails, Bay!Queued
  <2> QED BY <1>1
<1>4. Bay!Sorted'
  BY DEF BayInv, Bay!Sorted, Bay!Running, Bay!Complete
<1>5. Bay!RailOrder'
  BY DEF BayInv, Bay!RailOrder, Bay!Running
<1> QED
  BY <1>2, <1>3, <1>4, <1>5 DEF BayInv, QueueOrder, Judged, Bay!Inspected, Bay!Complete

(* enqueue: the ship's number is the largest, it takes the slot behind the
   others, and its container is judged by the measures that came.           *)
LEMMA BayEnters ==
  ASSUME BayInv, NEW code, NEW ship \in Ships, Bay!Enter(code, ship),
         1 \in ship.state <=> \A v \in {1, 2} : ship.given[v] % 16 # 0
  PROVE  BayInv'
<1>1. /\ cPhase' = cPhase /\ Bay!Running /\ cRails' = cRails
      /\ cContainer' = Append(cContainer, ship) /\ cSize < BayCapacity
      /\ cLive' = cLive \cup {Len(cContainer')} /\ cSize' = cSize + 1
      /\ cQueue' = [cQueue EXCEPT ![cSize] = Len(cContainer')]
  BY DEF Bay!Enter
<1>2. ship \in Ships /\ (1 \in ship.state <=> \A v \in {1, 2} : ship.given[v] % 16 # 0)
  OBVIOUS
<1>3. /\ Len(cContainer) \in Nat /\ Bay!Arrived = 1 .. Len(cContainer) /\ Bay!Slots \subseteq Nat
      /\ cSize \in Nat /\ cSize \in Bay!Slots /\ cSize' \in 0 .. BayCapacity /\ BayCapacity \in Nat
      /\ cQueue \in [Bay!Slots -> Bay!Arrived \cup {Bay!NoShip}]
      /\ Bay!Queued = {cQueue[i] : i \in 0 .. cSize - 1} /\ Bay!Queued \subseteq Bay!Arrived
      /\ \A i \in Bay!Slots : i < cSize => cQueue[i] \in Bay!Arrived
  BY <1>1, BayNumbers DEF Bay!Slots
<1>0. PICK n \in Nat : n = Len(cContainer) + 1
  BY <1>3
<1>4. /\ cContainer' \in Seq(Ships) /\ Len(cContainer') = n
      /\ Bay!Arrived' = Bay!Arrived \cup {n} /\ n \notin Bay!Arrived
      /\ cContainer'[n] = ship /\ \A c \in Bay!Arrived : cContainer'[c] = cContainer[c] /\ c < n
  <2>1. cContainer \in Seq(Ships)
    BY DEF BayInv
  <2> QED BY <1>1, <1>2, <1>3, <1>0, <2>1 DEF Bay!Arrived
<1>5. /\ cQueue' = [cQueue EXCEPT ![cSize] = n] /\ cLive' = cLive \cup {n}
      /\ n \in Nat /\ n # Bay!NoShip
  BY <1>1, <1>3, <1>4 DEF Bay!NoShip
<1>6. /\ cQueue' \in [Bay!Slots -> Bay!Arrived' \cup {Bay!NoShip}] /\ cQueue'[cSize] = n
      /\ \A i \in Bay!Slots : i # cSize => cQueue'[i] = cQueue[i]
  BY <1>3, <1>4, <1>5
<1>7. Bay!Queued' = Bay!Queued \cup {n}
  <2>1. \A i \in Bay!Slots : cQueue[i] # Bay!NoShip <=> i < cSize
    BY DEF BayInv, QueueOrder
  <2>2. cQueue[cSize] = Bay!NoShip
    BY <1>3, <2>1
  <2> QED BY <1>3, <1>5, <1>6, <2>2 DEF Bay!Queued
<1>8. /\ \A r \in Bay!Rails : Bay!OnRail(r)' = Bay!OnRail(r)
      /\ Bay!OnRails' = Bay!OnRails /\ Bay!OnRails \subseteq Bay!Arrived
  BY <1>1, BayRails DEF Bay!OnRail, Bay!OnRails
<1>9. /\ \A r \in Bay!Rails : cRails[r] \in Seq(Bay!Arrived')
      /\ cRails' \in [Bay!Rails -> Seq(Bay!Arrived')]
  <2>1. cRails \in [Bay!Rails -> Seq(Bay!Arrived)]
    BY DEF BayInv
  <2>2. ASSUME NEW s \in Seq(Bay!Arrived) PROVE s \in Seq(Bay!Arrived')
    <3> DEFINE A == Bay!Arrived
               B == Bay!Arrived'
    <3>1. A \subseteq B /\ s \in Seq(A)
      BY <1>4
    <3> HIDE DEF A, B
    <3>2. s \in Seq(B)
      BY <3>1
    <3> QED BY <3>2 DEF B
  <2> QED BY <1>1, <2>1, <2>2
<1>10. Bay!TypeOK'
  <2>1. \A c \in Bay!Arrived' : cContainer'[c] \in Ships
    BY <1>4 DEF Bay!Arrived
  <2>2. \A c \in Bay!Arrived' :
          cContainer'[c].state \in Bay!States /\ cContainer'[c].material \in 0 .. 255
    BY <2>1 DEF Ships
  <2>3. cLive' \subseteq Bay!Arrived'
    BY <1>4, <1>5 DEF BayInv, Bay!TypeOK
  <2> QED BY <1>1, <1>3, <1>6, <1>9, <2>2, <2>3 DEF BayInv, Bay!TypeOK
<1>11. QueueOrder'
  <2>1. \A i \in Bay!Slots : cQueue'[i] # Bay!NoShip <=> i < cSize'
    <3> SUFFICES ASSUME NEW i \in Bay!Slots
                 PROVE  cQueue'[i] # Bay!NoShip <=> i < cSize + 1
      BY <1>1
    <3>1. CASE i = cSize
      BY <1>3, <1>5, <1>6, <3>1
    <3>2. CASE i # cSize
      <4>1. cQueue'[i] = cQueue[i] /\ (cQueue[i] # Bay!NoShip <=> i < cSize)
        BY <1>6, <3>2 DEF BayInv, QueueOrder
      <4>2. i < cSize + 1 <=> i < cSize
        BY <1>3, <3>2
      <4> QED BY <4>1, <4>2
    <3> QED BY <3>1, <3>2
  <2>2. ASSUME NEW i \in 0 .. cSize' - 1, NEW j \in 0 .. cSize' - 1, i < j
        PROVE  cQueue'[i] < cQueue'[j]
    <3>1. i \in 0 .. cSize - 1 /\ i \in Bay!Slots /\ j \in Bay!Slots /\ i < cSize
      BY <1>1, <1>3, <2>2 DEF Bay!Slots
    <3>2. CASE j = cSize
      BY <1>3, <1>4, <1>6, <3>1, <3>2
    <3>3. CASE j # cSize
      <4>1. j \in 0 .. cSize - 1
        BY <1>1, <1>3, <3>3
      <4> QED BY <1>6, <2>2, <3>1, <3>3, <4>1 DEF BayInv, QueueOrder
    <3> QED BY <3>2, <3>3
  <2> QED BY <2>1, <2>2 DEF QueueOrder
<1>12. /\ Bay!OnRails \cup Bay!Queued = cLive /\ Bay!OnRails \cap Bay!Queued = {}
  BY <1>1 DEF BayInv, Bay!HeldOnce
<1>13. Bay!HeldOnce'
  <2>1. /\ Bay!OnRails' \cup Bay!Queued' = cLive' /\ Bay!OnRails' \cap Bay!Queued' = {}
    BY <1>4, <1>5, <1>7, <1>8, <1>12
  <2>2. ASSUME NEW i \in 0 .. cSize' - 1, NEW j \in 0 .. cSize' - 1, cQueue'[i] = cQueue'[j]
        PROVE  i = j
    <3>1. i \in Bay!Slots
      <4>1. PICK s : s = cSize'
        OBVIOUS
      <4>2. s \in 0 .. BayCapacity /\ BayCapacity \in Nat /\ i \in 0 .. s - 1
        BY <1>3, <4>1
      <4>3. i \in 0 .. BayCapacity - 1
        BY <4>2
      <4> QED BY <4>3 DEF Bay!Slots
    <3>2. cQueue'[i] \in Bay!Arrived' \cup {Bay!NoShip}
      BY <1>6, <3>1
    <3>3. cQueue'[i] \in Nat
      BY <1>3, <1>4, <3>2 DEF Bay!NoShip
    <3>4. /\ i < j => cQueue'[i] < cQueue'[j]
          /\ j < i => cQueue'[j] < cQueue'[i]
      BY <1>11 DEF QueueOrder
    <3>5. ~(i < j) /\ ~(j < i)
      BY <2>2, <3>3, <3>4
    <3>6. i \in Int /\ j \in Int
      BY <1>3
    <3> QED BY <3>5, <3>6
  <2> QED BY <2>1, <2>2, <1>11 DEF Bay!HeldOnce, QueueOrder
<1>14. \A c \in Bay!Arrived : Bay!Complete(c)' <=> Bay!Complete(c)
  BY <1>4 DEF Bay!Complete
<1>15. Bay!Complete(n)' <=> Bay!Inspected(n)'
  BY <1>2, <1>4 DEF Bay!Complete, Bay!Inspected, Bay!INSPECTED_IDX
<1>16. Judged'
  BY <1>3, <1>4, <1>7, <1>14, <1>15 DEF BayInv, Judged, Bay!Inspected
<1>17. Bay!Sorted'
  <2>1. ASSUME NEW c \in Bay!Arrived'
        PROVE  (c \in Bay!OnRails' => Bay!Complete(c)') /\ (c \notin cLive' => ~Bay!Complete(c)')
    BY <1>1, <1>4, <1>5, <1>8, <1>14 DEF BayInv, Bay!Sorted
  <2> QED BY <2>1 DEF Bay!Sorted
<1>18. Bay!RailOrder'
  <2>1. ASSUME NEW r \in Bay!Rails, NEW c \in Bay!OnRail(r), NEW q \in Bay!Queued' PROVE c < q
    <3>1. c \in Bay!Arrived
      BY BayRails
    <3> QED BY <1>1, <1>4, <1>7, <3>1 DEF BayInv, Bay!RailOrder
  <2> QED BY <1>1, <1>8, <2>1 DEF BayInv, Bay!RailOrder
<1> QED BY <1>4, <1>9, <1>10, <1>11, <1>13, <1>16, <1>17, <1>18 DEF BayInv

(* What ShiftLeft leaves of the queue: its front is gone, the others keep
   their order, and the slot behind the last is cleared.                    *)
LEMMA BayShifts ==
  ASSUME BayInv, cSize > 0, cQueue' = Bay!ShiftLeft, cSize' = cSize - 1,
         Bay!Arrived' = Bay!Arrived,
         NEW c, c = Bay!Front
  PROVE  /\ c \in Bay!Queued /\ c \in Bay!Arrived /\ Bay!Queued' = Bay!Queued \ {c}
         /\ \A q \in Bay!Queued' : c < q
         /\ cQueue' \in [Bay!Slots -> Bay!Arrived' \cup {Bay!NoShip}]
         /\ cSize' \in 0 .. BayCapacity /\ QueueOrder'
         /\ \A i, j \in 0 .. cSize' - 1 : cQueue'[i] = cQueue'[j] => i = j
<1>1. /\ Bay!Arrived = 1 .. Len(cContainer) /\ Len(cContainer) \in Nat
      /\ Bay!Slots \subseteq Nat /\ BayCapacity \in Nat /\ cSize \in 0 .. BayCapacity
      /\ cQueue \in [Bay!Slots -> Bay!Arrived \cup {Bay!NoShip}]
      /\ \A i \in Bay!Slots : i < cSize => cQueue[i] \in Bay!Arrived
      /\ Bay!Queued = {cQueue[i] : i \in 0 .. cSize - 1} /\ Bay!Queued \subseteq Bay!Arrived
  BY BayNumbers
<1>2. /\ \A i \in Bay!Slots : cQueue[i] # Bay!NoShip <=> i < cSize
      /\ \A i, j \in 0 .. cSize - 1 : i < j => cQueue[i] < cQueue[j]
  BY DEF BayInv, QueueOrder
<1>3. /\ \A i \in 0 .. cSize - 1 : i \in Bay!Slots /\ cQueue[i] \in Nat
      /\ 0 \in 0 .. cSize - 1 /\ c = cQueue[0] /\ cSize - 1 \in Nat /\ Bay!NoShip = 0
      /\ c \in Bay!Arrived
  BY <1>1 DEF Bay!Slots, Bay!Front, Bay!NoShip
<1>4. ASSUME NEW i \in Bay!Slots
      PROVE  /\ i < cSize - 1 => cQueue'[i] = cQueue[i + 1] /\ i + 1 \in 0 .. cSize - 1
             /\ ~(i < cSize - 1) => cQueue'[i] = Bay!NoShip
  <2>1. cQueue'[i] = IF i < cSize - 1 THEN cQueue[i + 1]
                     ELSE IF i = cSize - 1 THEN Bay!NoShip ELSE cQueue[i]
    BY DEF Bay!ShiftLeft
  <2>2. i \in Nat /\ cSize \in Nat
    BY <1>1
  <2>3. ~(i < cSize - 1) /\ i # cSize - 1 => ~(i < cSize)
    BY <2>2
  <2>4. ~(i < cSize) => cQueue[i] = Bay!NoShip
    BY <1>2
  <2>5. i < cSize - 1 => i + 1 \in 0 .. cSize - 1
    BY <2>2
  <2> QED BY <2>1, <2>3, <2>4, <2>5
<1>5. cQueue' \in [Bay!Slots -> Bay!Arrived' \cup {Bay!NoShip}]
  <2>1. DOMAIN cQueue' = Bay!Slots /\ cQueue' = [i \in Bay!Slots |-> cQueue'[i]]
    BY DEF Bay!ShiftLeft
  <2>2. \A i \in Bay!Slots : cQueue'[i] \in Bay!Arrived \cup {Bay!NoShip}
    BY <1>1, <1>3, <1>4
  <2> QED BY <2>1, <2>2
<1>6. Bay!Queued' = {cQueue[i] : i \in 1 .. cSize - 1}
  <2>1. ASSUME NEW q \in Bay!Queued' PROVE \E i \in 1 .. cSize - 1 : q = cQueue[i]
    <3>1. PICK i \in Bay!Slots : q = cQueue'[i] /\ q # Bay!NoShip
      BY <2>1 DEF Bay!Queued
    <3>2. i \in Nat /\ i < cSize - 1 /\ q = cQueue[i + 1]
      BY <1>1, <1>4, <3>1
    <3>3. i + 1 \in 1 .. cSize - 1
      BY <1>1, <3>2
    <3> QED BY <3>2, <3>3
  <2>2. ASSUME NEW i \in 1 .. cSize - 1 PROVE cQueue[i] \in Bay!Queued'
    <3>1. i - 1 \in 0 .. cSize - 1 /\ i - 1 < cSize - 1 /\ (i - 1) + 1 = i /\ i \in 0 .. cSize - 1
      BY <1>1
    <3>2. cQueue'[i - 1] = cQueue[i] /\ i - 1 \in Bay!Slots
      BY <1>3, <1>4, <3>1
    <3>3. i \in Bay!Slots /\ i < cSize
      BY <1>1, <1>3, <3>1
    <3>4. cQueue[i] # Bay!NoShip
      BY <1>2, <3>3
    <3> QED BY <3>2, <3>4 DEF Bay!Queued
  <2> QED BY <2>1, <2>2
<1>7. /\ \A q \in Bay!Queued' : c < q
      /\ Bay!Queued' = Bay!Queued \ {c} /\ c \in Bay!Queued
  <2>1. \A i \in 1 .. cSize - 1 : c < cQueue[i] /\ i \in 0 .. cSize - 1 /\ cQueue[i] \in Nat
    BY <1>1, <1>2, <1>3
  <2>2. c \in Bay!Queued /\ c \in Nat
    BY <1>1, <1>3
  <2>3. \A i \in 0 .. cSize - 1 : cQueue[i] # c => i \in 1 .. cSize - 1
    BY <1>1, <1>3
  <2>4. \A i \in 1 .. cSize - 1 : cQueue[i] # c
    BY <2>1, <2>2
  <2>5. Bay!Queued' = Bay!Queued \ {c}
    BY <1>1, <1>6, <2>1, <2>3, <2>4
  <2> QED BY <1>6, <2>1, <2>2, <2>5
<1>8. QueueOrder'
  <2>1. \A i \in Bay!Slots : cQueue'[i] # Bay!NoShip <=> i < cSize'
    <3>1. ASSUME NEW i \in Bay!Slots, i < cSize - 1 PROVE cQueue'[i] # Bay!NoShip
      <4>1. i + 1 \in Bay!Slots /\ i + 1 < cSize /\ cQueue'[i] = cQueue[i + 1]
        BY <1>1, <1>3, <1>4, <3>1
      <4> QED BY <1>2, <4>1
    <3> QED BY <1>4, <3>1
  <2>2. ASSUME NEW i \in 0 .. cSize' - 1, NEW j \in 0 .. cSize' - 1, i < j
        PROVE  cQueue'[i] < cQueue'[j]
    <3>1. /\ i \in 0 .. cSize - 1 /\ i < cSize - 1 /\ i + 1 \in 0 .. cSize - 1
          /\ j \in 0 .. cSize - 1 /\ j < cSize - 1 /\ j + 1 \in 0 .. cSize - 1 /\ i + 1 < j + 1
      BY <1>1, <2>2
    <3>2. cQueue'[i] = cQueue[i + 1] /\ cQueue'[j] = cQueue[j + 1]
      BY <1>3, <1>4, <3>1
    <3> QED BY <1>2, <3>1, <3>2
  <2> QED BY <2>1, <2>2 DEF QueueOrder
<1>9. cSize' \in 0 .. BayCapacity
  BY <1>1
<1>10. ASSUME NEW i \in 0 .. cSize' - 1, NEW j \in 0 .. cSize' - 1, cQueue'[i] = cQueue'[j]
       PROVE  i = j
  <2>1. i + 1 \in 0 .. cSize - 1 /\ i < cSize - 1 /\ i \in 0 .. cSize - 1
    BY <1>1
  <2>2. cQueue'[i] \in Nat
    BY <1>3, <1>4, <2>1
  <2>3. ~(i < j) /\ ~(j < i)
    BY <1>8, <1>10, <2>2 DEF QueueOrder
  <2> QED BY <1>1, <2>3
<1> QED BY <1>3, <1>5, <1>7, <1>8, <1>9, <1>10

(* A chain that grows at its end by a ship that came after all the others.  *)
LEMMA ChainGrows ==
  ASSUME NEW A \in SUBSET Nat, NEW s \in Seq(A), NEW c \in A,
         \A i, j \in DOMAIN s : i < j => s[i] < s[j], \A i \in DOMAIN s : s[i] < c,
         NEW t, t = Append(s, c)
  PROVE  /\ t \in Seq(A) /\ \A i, j \in DOMAIN t : i < j => t[i] < t[j]
         /\ {t[i] : i \in DOMAIN t} = {s[i] : i \in DOMAIN s} \cup {c}
<1>1. /\ t \in Seq(A) /\ DOMAIN s = 1 .. Len(s) /\ DOMAIN t = 1 .. (Len(s) + 1)
      /\ Len(s) \in Nat /\ t[Len(s) + 1] = c /\ \A i \in DOMAIN s : t[i] = s[i] /\ s[i] \in A
  OBVIOUS
<1>2. ASSUME NEW i \in DOMAIN t, NEW j \in DOMAIN t, i < j PROVE t[i] < t[j]
  <2>1. i \in DOMAIN s /\ (j \in DOMAIN s \/ j = Len(s) + 1)
    BY <1>1, <1>2
  <2> QED BY <1>1, <1>2, <2>1
<1>3. \A i \in DOMAIN t : i \in DOMAIN s \/ i = Len(s) + 1
  BY <1>1
<1>4. DOMAIN s \subseteq DOMAIN t /\ Len(s) + 1 \in DOMAIN t
  BY <1>1
<1>5. {t[i] : i \in DOMAIN t} = {s[i] : i \in DOMAIN s} \cup {c}
  BY <1>1, <1>3, <1>4
<1> QED BY <1>1, <1>2, <1>5

(* load: the front of the queue goes behind what its rail holds.            *)
LEMMA BayLoads ==
  ASSUME BayInv, Bay!Running, cPhase' = cPhase, cSize > 0,
         cQueue' = Bay!ShiftLeft, cSize' = cSize - 1,
         NEW c, c = Bay!Front, Bay!Load(c)
  PROVE  BayInv'
<1>1. /\ c \in Bay!Queued /\ c \in Bay!Arrived
      /\ Bay!Arrived \subseteq Nat /\ cContainer \in Seq(Ships)
      /\ cRails \in [Bay!Rails -> Seq(Bay!Arrived)]
  BY BayNumbers DEF BayInv, Bay!Queued, Bay!Front, Bay!Slots, Bay!NoShip, QueueOrder
<1>2. PICK r \in Bay!Rails : r = Bay!Rail(c)
  <2>1. cContainer[c] \in Ships
    BY <1>1 DEF Bay!Arrived
  <2>2. cContainer[c].code \in DOMAIN Bay!CharSum
    BY <2>1 DEF Ships
  <2> QED BY <2>2, BayHash DEF Bay!Rail
<1>3. /\ cRails' = [cRails EXCEPT ![r] = Append(cRails[r], c)] /\ cLive' = cLive
      /\ \/ cContainer' = cContainer
         \/ cContainer' = [cContainer EXCEPT ![c].state = {Bay!DEPARTURE_IDX}]
  <2>1. Append(<<>>, c) = <<c>>
    OBVIOUS
  <2> QED BY <1>2, <2>1 DEF Bay!Load, Bay!LoadFirst, Bay!LoadBehind, Bay!ChainEnd
<1>4. /\ cContainer' \in Seq(Ships) /\ Bay!Arrived' = Bay!Arrived
      /\ \A d \in Bay!Arrived : /\ cContainer'[d].given = cContainer[d].given
                                /\ d # c => cContainer'[d] = cContainer[d]
  <2>1. CASE cContainer' = cContainer
    BY <1>1, <2>1 DEF Bay!Arrived
  <2>2. CASE cContainer' = [cContainer EXCEPT ![c].state = {Bay!DEPARTURE_IDX}]
    <3> DEFINE gone == [cContainer[c] EXCEPT !.state = {Bay!DEPARTURE_IDX}]
    <3>1. c \in DOMAIN cContainer /\ cContainer[c] \in Ships
      BY <1>1 DEF Bay!Arrived
    <3>2. gone \in Ships /\ gone.given = cContainer[c].given
      BY <3>1 DEF Ships, Bay!States
    <3>3. cContainer' = [cContainer EXCEPT ![c] = gone]
      BY <2>2, <3>1
    <3> HIDE DEF gone
    <3> QED BY <1>1, <3>1, <3>2, <3>3 DEF Bay!Arrived
  <2> QED BY <1>3, <2>1, <2>2
<1>5. /\ Bay!Queued' = Bay!Queued \ {c} /\ \A q \in Bay!Queued' : c < q
      /\ cQueue' \in [Bay!Slots -> Bay!Arrived' \cup {Bay!NoShip}]
      /\ cSize' \in 0 .. BayCapacity /\ QueueOrder'
      /\ \A i, j \in 0 .. cSize' - 1 : cQueue'[i] = cQueue'[j] => i = j
  BY <1>4, BayShifts
<1>6. /\ \A o \in Bay!Rails : \A d \in Bay!OnRail(o), q \in Bay!Queued : d < q
      /\ \A o \in Bay!Rails : \A i, j \in DOMAIN cRails[o] : i < j => cRails[o][i] < cRails[o][j]
  BY DEF BayInv, Bay!RailOrder
<1>7. /\ cRails'[r] \in Seq(Bay!Arrived) /\ Bay!OnRail(r)' = Bay!OnRail(r) \cup {c}
      /\ \A i, j \in DOMAIN cRails'[r] : i < j => cRails'[r][i] < cRails'[r][j]
  <2>1. /\ cRails[r] \in Seq(Bay!Arrived) /\ cRails'[r] = Append(cRails[r], c)
        /\ \A i \in DOMAIN cRails[r] : cRails[r][i] < c
        /\ \A i, j \in DOMAIN cRails[r] : i < j => cRails[r][i] < cRails[r][j]
    BY <1>1, <1>2, <1>3, <1>6 DEF Bay!OnRail
  <2>2. PICK s, t : s = cRails[r] /\ t = cRails'[r]
    OBVIOUS
  <2>3. /\ Bay!Arrived \in SUBSET Nat /\ c \in Bay!Arrived
        /\ s \in Seq(Bay!Arrived) /\ t = Append(s, c) /\ \A i \in DOMAIN s : s[i] < c
        /\ \A i, j \in DOMAIN s : i < j => s[i] < s[j]
    BY <1>1, <2>1, <2>2
  <2>4. \A i, j \in DOMAIN t : i < j => t[i] < t[j]
    BY <2>3, ChainGrows
  <2>5. /\ t \in Seq(Bay!Arrived)
        /\ {t[i] : i \in DOMAIN t} = {s[i] : i \in DOMAIN s} \cup {c}
    BY <2>3, ChainGrows
  <2> QED BY <2>2, <2>4, <2>5 DEF Bay!OnRail
<1>8. \A o \in Bay!Rails : o # r => cRails'[o] = cRails[o] /\ Bay!OnRail(o)' = Bay!OnRail(o)
  BY <1>1, <1>3 DEF Bay!OnRail
<1>9. cRails' \in [Bay!Rails -> Seq(Bay!Arrived')]
  BY <1>1, <1>2, <1>3, <1>4, <1>7, <1>8
<1>10. Bay!OnRails' = Bay!OnRails \cup {c}
  BY <1>2, <1>7, <1>8 DEF Bay!OnRails
<1>11. Bay!TypeOK'
  <2>1. \A d \in Bay!Arrived' : cContainer'[d] \in Ships
    BY <1>4 DEF Bay!Arrived
  <2>2. \A d \in Bay!Arrived' :
          cContainer'[d].state \in Bay!States /\ cContainer'[d].material \in 0 .. 255
    BY <2>1 DEF Ships
  <2> QED BY <1>3, <1>4, <1>5, <1>9, <2>2 DEF BayInv, Bay!TypeOK
<1>12. Bay!HeldOnce'
  <2>1. Bay!OnRails \cup Bay!Queued = cLive /\ Bay!OnRails \cap Bay!Queued = {}
    BY DEF BayInv, Bay!HeldOnce
  <2>2. Bay!OnRails' \cup Bay!Queued' = cLive' /\ Bay!OnRails' \cap Bay!Queued' = {}
    BY <1>1, <1>3, <1>5, <1>10, <2>1
  <2> QED BY <1>5, <2>2 DEF Bay!HeldOnce, QueueOrder
<1>13. \A d \in Bay!Arrived : Bay!Complete(d)' <=> Bay!Complete(d)
  BY <1>4 DEF Bay!Complete
<1>14. Judged'
  <2>1. \A q \in Bay!Queued' : q \in Bay!Arrived /\ q # c /\ q \in Bay!Queued
    BY <1>5, BayNumbers
  <2> QED BY <1>4, <1>13, <2>1 DEF BayInv, Judged, Bay!Inspected
<1>15. Bay!Complete(c)
  BY <1>1 DEF Bay!Load, BayInv, Judged
<1>16. Bay!Sorted'
  BY <1>3, <1>4, <1>10, <1>13, <1>15 DEF BayInv, Bay!Sorted
<1>17. Bay!RailOrder'
  <2>1. \A o \in Bay!Rails : \A i, j \in DOMAIN cRails'[o] : i < j => cRails'[o][i] < cRails'[o][j]
    BY <1>6, <1>7, <1>8
  <2>2. ASSUME NEW o \in Bay!Rails, NEW d \in Bay!OnRail(o)', NEW q \in Bay!Queued' PROVE d < q
    BY <1>5, <1>6, <1>7, <1>8, <2>2
  <2> QED BY <2>1, <2>2 DEF Bay!RailOrder
<1> QED BY <1>4, <1>5, <1>9, <1>11, <1>12, <1>14, <1>16, <1>17 DEF BayInv

(* The front of the queue is not inspected: it is freed, and had come with a
   measure missing.                                                         *)
LEMMA BayDiscards ==
  ASSUME BayInv, Bay!Running, cPhase' = cPhase, cSize > 0,
         cQueue' = Bay!ShiftLeft, cSize' = cSize - 1,
         NEW c, c = Bay!Front, Bay!Discard(c)
  PROVE  BayInv'
<1>1. cLive' = cLive \ {c} /\ cRails' = cRails /\ cContainer' = cContainer
  BY DEF Bay!Discard
<1>2. /\ Bay!Arrived' = Bay!Arrived /\ Bay!OnRails' = Bay!OnRails
      /\ \A r \in Bay!Rails : Bay!OnRail(r)' = Bay!OnRail(r)
      /\ \A d : Bay!Complete(d)' <=> Bay!Complete(d)
  BY <1>1 DEF Bay!Arrived, Bay!OnRails, Bay!OnRail, Bay!Complete
<1>3. /\ c \in Bay!Queued /\ c \in Bay!Arrived /\ Bay!Queued' = Bay!Queued \ {c}
      /\ cQueue' \in [Bay!Slots -> Bay!Arrived' \cup {Bay!NoShip}]
      /\ cSize' \in 0 .. BayCapacity /\ QueueOrder'
      /\ \A i, j \in 0 .. cSize' - 1 : cQueue'[i] = cQueue'[j] => i = j
  BY <1>2, BayShifts
<1>4. Bay!TypeOK'
  BY <1>1, <1>2, <1>3 DEF BayInv, Bay!TypeOK
<1>5. Bay!OnRails \cup Bay!Queued = cLive /\ Bay!OnRails \cap Bay!Queued = {}
  BY DEF BayInv, Bay!HeldOnce
<1>6. Bay!HeldOnce'
  <2>1. Bay!OnRails' \cup Bay!Queued' = cLive' /\ Bay!OnRails' \cap Bay!Queued' = {}
    BY <1>1, <1>2, <1>3, <1>5
  <2> QED BY <1>3, <2>1 DEF Bay!HeldOnce, QueueOrder
<1>7. Judged' /\ ~Bay!Complete(c)
  BY <1>1, <1>2, <1>3 DEF BayInv, Judged, Bay!Inspected, Bay!Discard
<1>8. Bay!Sorted'
  BY <1>1, <1>2, <1>7 DEF BayInv, Bay!Sorted
<1>9. Bay!RailOrder'
  BY <1>1, <1>2, <1>3 DEF BayInv, Bay!RailOrder
<1> QED BY <1>1, <1>2, <1>3, <1>4, <1>6, <1>7, <1>8, <1>9 DEF BayInv

(* Every call to the bay.                                                   *)
LEMMA BayStep == BayInv /\ [Bay!Next]_(Bay!vars) => BayInv'
<1> SUFFICES ASSUME BayInv, [Bay!Next]_(Bay!vars) PROVE BayInv'
  OBVIOUS
<1>1. CASE Bay!enqueue
  <2>1. ASSUME NEW code \in BayCodes, Bay!EnqueueMalformed(code) PROVE BayInv'
    BY <2>1, BayStops DEF Bay!EnqueueMalformed
  <2>2. CASE Bay!EnqueueFull
    BY <2>2, BayStops DEF Bay!EnqueueFull
  <2>3. CASE Bay!EnqueueNoMemory
    BY <2>3, BayStutters DEF Bay!EnqueueNoMemory
  <2>4. ASSUME NEW code \in BayCodes, NEW v1 \in BayValues, NEW v2 \in BayValues,
               NEW garbage \in SUBSET Bay!StateBits, Bay!Enqueue(code, v1, v2, garbage)
        PROVE  BayInv'
    <3>1. code \in DOMAIN Bay!CharSum /\ v1 \in 0 .. 255 /\ v2 \in 0 .. 255
      BY <2>4, BayAssumption
      DEF Bay!Enqueue, Bay!Enter, Bay!validate_tc, Bay!CargoAssumption
    <3> QED BY <2>4, <3>1, BayInspects, BayEnters DEF Bay!Enqueue
  <2>5. ASSUME NEW code \in BayCodes, NEW left \in BayValues,
               NEW garbage \in SUBSET Bay!StateBits, Bay!EnqueueStrange(code, left, garbage)
        PROVE  BayInv'
    <3>1. code \in DOMAIN Bay!CharSum /\ left \in 0 .. 255
      BY <2>5, BayAssumption
      DEF Bay!EnqueueStrange, Bay!Enter, Bay!validate_tc, Bay!CargoAssumption
    <3> QED BY <2>5, <3>1, BayRefuses, BayEnters DEF Bay!EnqueueStrange
  <2> QED BY <1>1, <2>1, <2>2, <2>3, <2>4, <2>5 DEF Bay!enqueue
<1>2. CASE Bay!Dequeue
  BY <1>2, BayLoads, BayDiscards DEF Bay!Dequeue, Bay!load
<1>3. CASE Bay!clean
  BY <1>3, BayStops DEF Bay!clean
<1>4. CASE UNCHANGED Bay!vars
  BY <1>4, BayStutters
<1> QED BY <1>1, <1>2, <1>3, <1>4 DEF Bay!Next, Bay!dequeue, Bay!DequeueEmpty, Bay!Terminated
-----------------------------------------------------------------------------
Bytes == INSTANCE StateBytes WITH
  DB_CAPACITY <- PacketCapacity, Checksums <- PacketChecksums,
  kind <- eKind, phase <- ePhase, fan <- eFan, meant <- eMeant, src <- eSrc, dest <- eDest,
  size <- eSize, id <- eId, n <- eN, last <- eLast, total <- eTotal, batches <- eBatches
byteVars == <<eKind, ePhase, eFan, eMeant, eSrc, eDest, eSize, eId, eN, eLast, eTotal, eBatches>>

ASSUME BytesAssumption == Bytes!BatchAssumption

(* What get_fan_speed masks and shifts is the number of the three bits.     *)
LEMMA SpeedCounts ==
  ASSUME NEW byte
  PROVE  /\ Bytes!get_fan_speed(byte) = (IF 4 \in byte THEN 1 ELSE 0)
              + (IF 5 \in byte THEN 2 ELSE 0) + (IF 6 \in byte THEN 4 ELSE 0)
         /\ Bytes!get_fan_speed(byte) \in 0 .. 7
<1>1. 2 ^ (4 - 4) = 1 /\ 2 ^ (5 - 4) = 2 /\ 2 ^ (6 - 4) = 4
  OBVIOUS
<1>2. Bytes!get_fan_speed(byte) = (IF 4 \in byte THEN 1 ELSE 0)
              + (IF 5 \in byte THEN 2 ELSE 0) + (IF 6 \in byte THEN 4 ELSE 0)
  BY <1>1 DEF Bytes!get_fan_speed, Bytes!Counts, Bytes!MASK_FAN_ISOLATE
<1> QED BY <1>2

(* Proofs about bitwise/smarth_fan.c and problems/f1_engine.c.              *)

(* The bits of a speed are the lowest three ...                             *)
LEMMA SpeedBits ==
  ASSUME NEW s \in 0 .. 7
  PROVE  /\ Bytes!BitsOf(s) \subseteq {0, 1, 2}
         /\ (IF 0 \in Bytes!BitsOf(s) THEN 1 ELSE 0) + (IF 1 \in Bytes!BitsOf(s) THEN 2 ELSE 0)
              + (IF 2 \in Bytes!BitsOf(s) THEN 4 ELSE 0) = s
<1> DEFINE bits == Bytes!BitsOf(s)
<1>1. \A b \in 0 .. 7 : b \in bits <=> (s \div 2 ^ b) % 2 = 1
  BY DEF Bytes!BitsOf, Bytes!Bits
<1>2. /\ 0 \in bits <=> (s \div 1) % 2 = 1
      /\ 1 \in bits <=> (s \div 2) % 2 = 1
      /\ 2 \in bits <=> (s \div 4) % 2 = 1
  BY <1>1
<1>3. /\ 3 \in bits <=> (s \div 8) % 2 = 1
      /\ 4 \in bits <=> (s \div 16) % 2 = 1
      /\ 5 \in bits <=> (s \div 32) % 2 = 1
      /\ 6 \in bits <=> (s \div 64) % 2 = 1
      /\ 7 \in bits <=> (s \div 128) % 2 = 1
  BY <1>1
<1>4. 3 \notin bits /\ 4 \notin bits /\ 5 \notin bits /\ 6 \notin bits /\ 7 \notin bits
  BY <1>3
<1>5. bits \subseteq 0 .. 7
  BY DEF Bytes!BitsOf, Bytes!Bits
<1>6. bits \subseteq {0, 1, 2}
  BY <1>4, <1>5
<1>7. s \in {0, 1, 2, 3, 4, 5, 6, 7}
  OBVIOUS
<1> HIDE DEF bits
<1>8. (IF 0 \in bits THEN 1 ELSE 0) + (IF 1 \in bits THEN 2 ELSE 0)
        + (IF 2 \in bits THEN 4 ELSE 0) = s
  BY <1>2, <1>7
<1> QED BY <1>6, <1>8 DEF bits

(* ... and get_fan_speed reads back what set_speed_direct writes, which
   leaves the other bits of the register alone.                             *)
LEMMA SpeedReadBack ==
  ASSUME NEW byte \in SUBSET Bytes!Bits, NEW s \in 0 .. 7,
         NEW written, written = Bytes!set_speed_direct(byte, s)
  PROVE  /\ written \subseteq Bytes!Bits /\ Bytes!get_fan_speed(written) = s
         /\ \A b \in {0, 1, 2, 3, 7} : b \in written <=> b \in byte
<1> DEFINE bits == Bytes!BitsOf(s)
           shifted == {b + 4 : b \in bits} \cap Bytes!Bits
<1>1. /\ bits \subseteq {0, 1, 2}
      /\ (IF 0 \in bits THEN 1 ELSE 0) + (IF 1 \in bits THEN 2 ELSE 0)
           + (IF 2 \in bits THEN 4 ELSE 0) = s
  BY SpeedBits
<1>2. written = (byte \ {4, 5, 6}) \cup shifted
  BY DEF Bytes!set_speed_direct, Bytes!Cleared, Bytes!MASK_FAN_ISOLATE
<1> HIDE DEF bits
<1>3. /\ 4 \in shifted <=> 0 \in bits
      /\ 5 \in shifted <=> 1 \in bits
      /\ 6 \in shifted <=> 2 \in bits
      /\ shifted \subseteq {4, 5, 6}
  <2>1. \A b \in bits : b = 0 \/ b = 1 \/ b = 2
    BY <1>1
  <2>2. \A x \in {4, 5, 6} : x \in Bytes!Bits
    BY DEF Bytes!Bits
  <2> QED BY <2>1, <2>2
<1> HIDE DEF shifted
<1>4. /\ 4 \in written <=> 0 \in bits
      /\ 5 \in written <=> 1 \in bits
      /\ 6 \in written <=> 2 \in bits
  BY <1>2, <1>3
<1>5. written \subseteq Bytes!Bits
  BY <1>2, <1>3 DEF Bytes!Bits
<1>6. \A b \in {0, 1, 2, 3, 7} : b \in written <=> b \in byte
  BY <1>2, <1>3
<1>7. Bytes!get_fan_speed(written) = (IF 4 \in written THEN 1 ELSE 0)
        + (IF 5 \in written THEN 2 ELSE 0) + (IF 6 \in written THEN 4 ELSE 0)
  BY SpeedCounts
<1>8. Bytes!get_fan_speed(written) = s
  BY <1>1, <1>4, <1>7
<1> QED BY <1>5, <1>6, <1>8

(* The fan that the calls so far ask for, and what it becomes.              *)
Fans == [on : BOOLEAN, speed : 0 .. 7, others : SUBSET (0 .. 3)]
FanMeans == eMeant = [on |-> Bytes!is_on(eFan), speed |-> Bytes!get_fan_speed(eFan),
                      others |-> eFan \cap (Bytes!LED \cup Bytes!Oscillation)]
FanInv == /\ eFan \subseteq Bytes!Bits /\ FanMeans
          /\ eKind = "fan" => ePhase \in {"idle", "refused"} /\ eDest = <<>>

(* The fan's three parts in terms of its bits.                              *)
LEMMA FanParts ==
  /\ Bytes!is_on(eFan) <=> 7 \in eFan
  /\ eFan \cap (Bytes!LED \cup Bytes!Oscillation) = eFan \cap (0 .. 3)
  BY DEF Bytes!is_on, Bytes!Power, Bytes!LED, Bytes!Oscillation

(* A register that keeps the fan's bits but for those of the speed.         *)
LEMMA FanSpeedSet ==
  ASSUME FanInv, Bytes!FanCall, NEW s \in 0 .. 7, ePhase' = ePhase,
         eFan' = Bytes!set_speed_direct(eFan, s), eMeant' = [eMeant EXCEPT !.speed = s]
  PROVE  FanInv'
<1>1. /\ eFan' \subseteq Bytes!Bits /\ Bytes!get_fan_speed(eFan') = s
      /\ \A b \in {0, 1, 2, 3, 7} : b \in eFan' <=> b \in eFan
  BY SpeedReadBack DEF FanInv
<1>2. Bytes!is_on(eFan)' = Bytes!is_on(eFan)
  BY <1>1 DEF Bytes!is_on, Bytes!Power
<1>3. (eFan \cap (Bytes!LED \cup Bytes!Oscillation))'
        = eFan \cap (Bytes!LED \cup Bytes!Oscillation)
  BY <1>1 DEF Bytes!LED, Bytes!Oscillation
<1>4. eMeant' = [on |-> Bytes!is_on(eFan), speed |-> s,
                 others |-> eFan \cap (Bytes!LED \cup Bytes!Oscillation)]
  BY DEF FanInv, FanMeans
<1>5. FanMeans'
  BY <1>1, <1>2, <1>3, <1>4 DEF FanMeans
<1> QED BY <1>1, <1>5 DEF FanInv, Bytes!FanCall, Bytes!engineVars

(* A register without its speed bits is one set to the speed zero.          *)
LEMMA ResetIsZero ==
  ASSUME NEW byte \in SUBSET Bytes!Bits
  PROVE  /\ Bytes!reset_speed_flags(byte) = Bytes!set_speed_direct(byte, 0)
         /\ Bytes!get_fan_speed(Bytes!reset_speed_flags(byte)) = 0
<1>1. Bytes!BitsOf(0) = {}
  <2> DEFINE bits == Bytes!BitsOf(0)
  <2>1. /\ bits \subseteq {0, 1, 2}
        /\ (IF 0 \in bits THEN 1 ELSE 0) + (IF 1 \in bits THEN 2 ELSE 0)
             + (IF 2 \in bits THEN 4 ELSE 0) = 0
    BY SpeedBits
  <2> HIDE DEF bits
  <2>2. 0 \notin bits /\ 1 \notin bits /\ 2 \notin bits
    BY <2>1
  <2>3. bits = {}
    BY <2>1, <2>2
  <2> QED BY <2>3 DEF bits
<1>2. Bytes!reset_speed_flags(byte) = Bytes!set_speed_direct(byte, 0)
  BY <1>1 DEF Bytes!reset_speed_flags, Bytes!set_speed_direct, Bytes!Cleared
<1> QED BY <1>2, SpeedReadBack

(* Keeping a number between two others, as meant does.                      *)
LEMMA Clamped ==
  ASSUME NEW x \in -1 .. 8
  PROVE  Bytes!Max({0, Bytes!Min({7, x})}) = IF x < 0 THEN 0 ELSE IF x > 7 THEN 7 ELSE x
<1> DEFINE least == IF x > 7 THEN 7 ELSE x
<1>1. Bytes!Min({7, x}) = least
  BY DEF Bytes!Min
<1>2. Bytes!Max({0, least}) = IF least < 0 THEN 0 ELSE least
  BY DEF Bytes!Max
<1> QED BY <1>1, <1>2

(* The fan's register means what the calls ask for, call by call.           *)
LEMMA FanStep ==
  ASSUME FanInv,
         \/ Bytes!set_max_speed \/ Bytes!set_min_speed \/ Bytes!turn_on \/ Bytes!turn_off
         \/ \E by \in {1, -1} : Bytes!change_speed(by)
  PROVE  FanInv' /\ eKind' = eKind /\ eKind = "fan" /\ UNCHANGED Bytes!engineVars
<1> USE DEF Bytes!FanCall
<1>1. eFan \in SUBSET Bytes!Bits
  BY DEF FanInv
<1>2. CASE Bytes!set_max_speed
  <2>1. CASE Bytes!is_on(eFan)
    <3> DEFINE written == Bytes!set_speed_direct(eFan, 7)
    <3>1. Bytes!get_fan_speed(written) = 7
      BY <1>1, SpeedReadBack
    <3>2. eFan' = written /\ eMeant' = [eMeant EXCEPT !.speed = 7] /\ ePhase' = ePhase
      BY <1>2, <2>1, <3>1 DEF Bytes!set_max_speed, Bytes!check_speed_status, Bytes!MAX_SPEED_VAL
    <3> QED BY <1>2, <3>2, FanSpeedSet DEF Bytes!set_max_speed
  <2>2. CASE ~Bytes!is_on(eFan)
    BY <1>2, <2>2 DEF Bytes!set_max_speed, Bytes!fanVars, Bytes!engineVars, FanInv, FanMeans
  <2> QED BY <2>1, <2>2
<1>3. CASE Bytes!set_min_speed
  <2>1. Bytes!get_fan_speed(Bytes!reset_speed_flags(eFan)) = 0
    BY <1>1, ResetIsZero
  <2>2. /\ eFan' = Bytes!check_speed_status(Bytes!reset_speed_flags(eFan), 0)
        /\ eMeant' = [eMeant EXCEPT !.speed = 0] /\ ePhase' = ePhase
    BY <1>3, <2>1 DEF Bytes!set_min_speed, Bytes!MIN_SPEED_VAL
  <2>3. eFan' = Bytes!set_speed_direct(eFan, 0)
    BY <1>1, <2>1, <2>2, ResetIsZero DEF Bytes!check_speed_status
  <2> QED BY <1>3, <2>2, <2>3, FanSpeedSet DEF Bytes!set_min_speed
<1>4. ASSUME eFan' \subseteq Bytes!Bits, \A b \in 0 .. 6 : b \in eFan' <=> b \in eFan,
             eMeant' = [eMeant EXCEPT !.on = 7 \in eFan'], ePhase' = ePhase, eKind' = eKind,
             eDest' = eDest
      PROVE  FanInv'
  <2>1. Bytes!get_fan_speed(eFan') = Bytes!get_fan_speed(eFan)
    BY <1>4, SpeedCounts
  <2>2. (eFan \cap (Bytes!LED \cup Bytes!Oscillation))'
          = eFan \cap (Bytes!LED \cup Bytes!Oscillation)
    BY <1>4 DEF Bytes!LED, Bytes!Oscillation
  <2>3. eMeant' = [on |-> 7 \in eFan', speed |-> Bytes!get_fan_speed(eFan),
                   others |-> eFan \cap (Bytes!LED \cup Bytes!Oscillation)]
    BY <1>4 DEF FanInv, FanMeans
  <2>4. (7 \in eFan') = Bytes!is_on(eFan)'
    BY DEF Bytes!is_on, Bytes!Power
  <2>5. FanMeans'
    BY <2>1, <2>2, <2>3, <2>4 DEF FanMeans
  <2> QED BY <1>4, <2>5 DEF FanInv
<1>5. CASE Bytes!turn_on
  <2>1. /\ eFan' = eFan \cup {7} /\ eMeant' = [eMeant EXCEPT !.on = TRUE]
        /\ 7 \in eFan' /\ ePhase' = ePhase
    BY <1>5 DEF Bytes!turn_on, Bytes!is_on, Bytes!Power
  <2>2. eFan' \subseteq Bytes!Bits /\ \A b \in 0 .. 6 : b \in eFan' <=> b \in eFan
    BY <1>1, <2>1 DEF Bytes!Bits
  <2>3. (7 \in eFan') = TRUE
    BY <2>1
  <2>4. eMeant' = [eMeant EXCEPT !.on = 7 \in eFan']
    BY <2>1, <2>3
  <2> QED BY <1>4, <1>5, <2>1, <2>2, <2>4 DEF Bytes!turn_on, Bytes!engineVars
<1>6. CASE Bytes!turn_off
  <2>1. /\ eFan' = eFan \ {7} /\ eMeant' = [eMeant EXCEPT !.on = FALSE] /\ ePhase' = ePhase
    BY <1>6 DEF Bytes!turn_off, Bytes!SwitchedOff, Bytes!Power
  <2>2. eFan' \subseteq Bytes!Bits /\ \A b \in 0 .. 6 : b \in eFan' <=> b \in eFan
    BY <1>1, <2>1 DEF Bytes!Bits
  <2>3. (7 \in eFan') = FALSE
    BY <2>1
  <2>4. eMeant' = [eMeant EXCEPT !.on = 7 \in eFan']
    BY <2>1, <2>3
  <2> QED BY <1>4, <1>6, <2>1, <2>2, <2>4 DEF Bytes!turn_off, Bytes!engineVars
<1>7. ASSUME NEW by \in {1, -1}, Bytes!change_speed(by)
      PROVE  FanInv' /\ eKind' = eKind /\ eKind = "fan" /\ UNCHANGED Bytes!engineVars
  <2> DEFINE speed == Bytes!get_fan_speed(eFan)
             next == Bytes!Steps(speed, by)
  <2>1. speed \in 0 .. 7
    BY SpeedCounts
  <2>2. eMeant.speed = speed
    BY DEF FanInv, FanMeans
  <2>3. /\ eFan' = Bytes!set_speed_direct(eFan, next) /\ ePhase' = ePhase
        /\ eMeant' = [eMeant EXCEPT !.speed = Bytes!Max({0, Bytes!Min({7, @ + by})})]
    BY <1>7 DEF Bytes!change_speed, Bytes!MIN_SPEED_VAL, Bytes!MAX_SPEED_VAL
  <2> HIDE DEF speed
  <2>4. next = (IF speed + by < 0 THEN 0 ELSE IF speed + by > 7 THEN 7 ELSE speed + by)
        /\ next \in 0 .. 7 /\ speed + by \in -1 .. 8
    BY <2>1 DEF Bytes!Steps, Bytes!MIN_SPEED_VAL, Bytes!MAX_SPEED_VAL
  <2>5. Bytes!Max({0, Bytes!Min({7, eMeant.speed + by})}) = next
    BY <2>2, <2>4, Clamped
  <2> HIDE DEF next
  <2>6. eMeant' = [eMeant EXCEPT !.speed = next]
    BY <2>3, <2>5
  <2> QED BY <1>7, <2>3, <2>4, <2>6, FanSpeedSet DEF Bytes!change_speed
<1> QED BY <1>2, <1>3, <1>5, <1>6, <1>7

(* A packet's timestamps and checksums add up number after number.          *)
LEMMA TriangleGrows ==
  ASSUME NEW i \in Nat
  PROVE  /\ Bytes!Triangle(i) \in Nat /\ Bytes!Triangle(i - 1) \in Nat
         /\ Bytes!Triangle(i) = Bytes!Triangle(i - 1) + i
<1> DEFINE below == i * (i - 1)
<1>1. below \in Nat
  <2>1. CASE i = 0
    BY <2>1
  <2>2. CASE i # 0
    BY <2>2
  <2> QED BY <2>1, <2>2
<1>2. i * (i + 1) = below + 2 * i /\ (i - 1) * ((i - 1) + 1) = below
  OBVIOUS
<1> HIDE DEF below
<1>3. (below + 2 * i) \div 2 = (below \div 2) + i /\ below \div 2 \in Nat
  BY <1>1
<1> QED BY <1>2, <1>3 DEF Bytes!Triangle

(* Adding to a checksum of one byte in two steps ...                        *)
LEMMA ChecksumAdds ==
  ASSUME NEW cs \in 0 .. 255, NEW t \in Nat, NEW i \in Nat
  PROVE  (((cs + t) % 256) + i) % 256 = (cs + (t + i)) % 256
  OBVIOUS

(* ... and taking off again what was added.                                 *)
LEMMA ChecksumBack ==
  ASSUME NEW cs \in 0 .. 255, NEW t \in Nat
  PROVE  (((cs + t) % 256) + 256 - t) % 256 = cs
  OBVIOUS

(* Packet i of a batch of m packets that started from the checksum cs.      *)
IsPacket(p, i, m, cs) ==
  /\ p.sensor_id = i /\ p.timestamp = 10 + Bytes!Triangle(i)
  /\ p.checksum = (cs + Bytes!Triangle(i)) % 256
  /\ 1 \in p.status_flag <=> (m - i) % 2 = 0

(* The first k packets of the batch are as they should be, and what the
   recursion passes on belongs to the last of them.                         *)
Packets(k, cs) ==
  \A i \in 0 .. k - 1 : i \in DOMAIN eSrc /\ IsPacket(eSrc[i], i, eTotal, cs)
PassedOn(k, cs) ==
  /\ eLast.timestamp = 10 + Bytes!Triangle(k - 1)
  /\ eLast.checksum = (cs + Bytes!Triangle(k - 1)) % 256

(* A batch on top of an earlier one is one whose packets radio->size counts
   from the earlier one's: it is never equal to the batch's own number.     *)
OnTop == (eSize - eId) % 256 # 0

Adding ==
  /\ eTotal \in 0 .. PacketCapacity - 1 /\ eId \in 0 .. eTotal /\ eN = eTotal - eId
  /\ OnTop \/ (eSize = eId /\ \E cs \in PacketChecksums : Packets(eId, cs) /\ PassedOn(eId, cs))
Verified ==
  /\ eTotal \in 0 .. PacketCapacity - 1 /\ eSize = eTotal
  /\ \E cs \in PacketChecksums : Packets(eTotal, cs)
Copied ==
  /\ Verified /\ DOMAIN eDest = 0 .. eSize - 1 /\ \A i \in DOMAIN eDest : eDest[i] = eSrc[i]

EngineInv ==
  /\ ePhase \in {"idle", "adding", "verified", "refused", "failed", "reported"}
  /\ eSize \in 0 .. 255 /\ DOMAIN eSrc \subseteq 0 .. PacketCapacity - 1
  /\ ePhase = "adding" => Adding
  /\ ePhase = "verified" => Verified
  /\ ePhase \in {"idle", "reported"} => (eDest = <<>> /\ eSize = 0) \/ Copied

LEMMA EngineInit == Bytes!Init => EngineInv
  BY BytesAssumption DEF Bytes!Init, EngineInv, Bytes!BatchAssumption

(* add_radio_packet writes the packet of its number behind the others.      *)
LEMMA AddsPacket ==
  ASSUME EngineInv, Bytes!add_radio_packet
  PROVE  EngineInv'
<1>1. /\ eTotal \in 0 .. PacketCapacity - 1 /\ eId \in 0 .. eTotal /\ eN = eTotal - eId /\ eN > 0
      /\ eSize \in 0 .. 255 /\ PacketCapacity \in 0 .. 255
      /\ OnTop \/ (eSize = eId /\ \E cs \in PacketChecksums : Packets(eId, cs) /\ PassedOn(eId, cs))
      /\ ePhase' = "adding" /\ eTotal' = eTotal /\ eSize' = (eSize + 1) % 256
      /\ eId' = eId + 1 /\ eN' = eN - 1
  BY BytesAssumption DEF EngineInv, Adding, Bytes!add_radio_packet, Bytes!Engine, Bytes!BatchAssumption
<1>2. PICK k \in Nat : k = eId
  BY <1>1
<1>3. PICK packet : packet = Bytes!Packet
  OBVIOUS
<1>4. /\ eSrc' = [i \in DOMAIN eSrc \cup {k} |-> IF i = k THEN packet ELSE eSrc[i]]
      /\ eLast' = [timestamp |-> packet.timestamp, degrees |-> FALSE, checksum |-> packet.checksum]
  BY <1>2, <1>3 DEF Bytes!add_radio_packet
<1>5. /\ DOMAIN eSrc' = DOMAIN eSrc \cup {k} /\ k \in DOMAIN eSrc' /\ eSrc'[k] = packet
      /\ \A i \in DOMAIN eSrc : i # k => eSrc'[i] = eSrc[i]
  BY <1>4
<1>6. eSize' \in 0 .. 255 /\ DOMAIN eSrc' \subseteq 0 .. PacketCapacity - 1
  <2>1. k \in 0 .. PacketCapacity - 1
    BY <1>1, <1>2
  <2> QED BY <1>1, <1>5, <2>1 DEF EngineInv
<1>7. /\ eTotal' \in 0 .. PacketCapacity - 1 /\ eId' \in 0 .. eTotal' /\ eN' = eTotal' - eId'
  BY <1>1
<1>8. CASE OnTop
  <2>1. OnTop'
    BY <1>1, <1>8 DEF OnTop
  <2> QED BY <1>1, <1>6, <1>7, <2>1 DEF EngineInv, Adding
<1>9. ASSUME eSize = eId, NEW cs \in PacketChecksums, Packets(k, cs), PassedOn(k, cs)
      PROVE  EngineInv'
  <2>1. PICK t \in Nat : t = Bytes!Triangle(k) /\ t = Bytes!Triangle(k - 1) + k
    BY TriangleGrows
  <2>2. cs \in 0 .. 255
    BY BytesAssumption DEF Bytes!BatchAssumption
  <2>3. packet.sensor_id = k /\ packet.timestamp = 10 + t
    <3>1. packet.sensor_id = k /\ packet.timestamp = eLast.timestamp + k
      BY <1>2, <1>3 DEF Bytes!Packet
    <3>2. eLast.timestamp = 10 + Bytes!Triangle(k - 1)
      BY <1>9 DEF PassedOn
    <3> QED BY <2>1, <3>1, <3>2, TriangleGrows
  <2>4. packet.checksum = (cs + t) % 256
    <3>1. PICK u \in Nat : u = Bytes!Triangle(k - 1) /\ t = u + k
      BY <2>1, TriangleGrows
    <3>2. packet.checksum = (((cs + u) % 256) + k) % 256
      <4>1. eLast.checksum = (cs + u) % 256
        BY <1>9, <3>1 DEF PassedOn
      <4>2. packet.checksum = (eLast.checksum + k) % 256
        BY <1>2, <1>3 DEF Bytes!Packet
      <4> QED BY <4>1, <4>2
    <3>3. (((cs + u) % 256) + k) % 256 = (cs + (u + k)) % 256
      BY <2>2, ChecksumAdds
    <3> QED BY <3>1, <3>2, <3>3
  <2>5. 1 \in packet.status_flag <=> (eTotal - k) % 2 = 0
    BY <1>1, <1>2, <1>3 DEF Bytes!Packet, Bytes!Flag
  <2>6. IsPacket(packet, k, eTotal, cs)
    BY <2>1, <2>3, <2>4, <2>5 DEF IsPacket
  <2>7. ASSUME NEW i \in 0 .. (k + 1) - 1
        PROVE  i \in DOMAIN eSrc' /\ IsPacket(eSrc'[i], i, eTotal, cs)
    <3>1. CASE i = k
      BY <1>5, <2>6, <3>1
    <3>2. CASE i # k
      <4>1. i \in 0 .. k - 1
        BY <3>2
      <4> QED BY <1>5, <1>9, <3>2, <4>1 DEF Packets
    <3> QED BY <3>1, <3>2
  <2>8. Packets(k + 1, cs)'
    BY <1>1, <2>7 DEF Packets, IsPacket
  <2>9. PassedOn(k + 1, cs)'
    <3>1. (k + 1) - 1 = k
      OBVIOUS
    <3> QED BY <1>4, <2>1, <2>3, <2>4, <3>1 DEF PassedOn
  <2>10. eSize' = eId' /\ eId' = k + 1
    BY <1>1, <1>2, <1>9
  <2>11. Packets(eId, cs)' /\ PassedOn(eId, cs)'
    BY <2>8, <2>9, <2>10 DEF Packets, PassedOn
  <2> QED BY <1>1, <1>6, <1>7, <2>10, <2>11 DEF EngineInv, Adding
<1> QED BY <1>1, <1>2, <1>8, <1>9

(* The other steps of the engine.                                           *)
LEMMA EngineStep ==
  ASSUME EngineInv,
         \/ \E m \in 0 .. PacketCapacity, cs \in PacketChecksums : Bytes!batch(m, cs)
         \/ Bytes!add_radio_packet \/ Bytes!verify_batch \/ Bytes!batch_copy \/ Bytes!report
  PROVE  EngineInv' /\ eKind' = eKind /\ eKind = "engine" /\ UNCHANGED Bytes!fanVars
<1> USE DEF Bytes!Engine
<1>1. PacketCapacity \in 0 .. 255 /\ PacketChecksums \subseteq 0 .. 255
  BY BytesAssumption DEF Bytes!BatchAssumption
<1>2. ASSUME NEW m \in 0 .. PacketCapacity, NEW cs \in PacketChecksums, Bytes!batch(m, cs)
      PROVE  EngineInv' /\ eKind' = eKind /\ eKind = "engine" /\ UNCHANGED Bytes!fanVars
  <2>1. /\ ePhase = "idle" /\ ePhase' = IF m >= PacketCapacity THEN "refused" ELSE "adding"
        /\ eN' = m /\ eTotal' = m /\ eId' = 0 /\ eLast' = [timestamp |-> 10, degrees |-> TRUE, checksum |-> cs]
        /\ UNCHANGED <<eSrc, eDest, eSize>>
    BY <1>2 DEF Bytes!batch
  <2>2. eSize \in 0 .. 255
    BY DEF EngineInv
  <2>3. CASE m >= PacketCapacity
    BY <1>2, <2>1, <2>3 DEF Bytes!batch, EngineInv
  <2>4. CASE m < PacketCapacity
    <3>1. /\ eTotal' \in 0 .. PacketCapacity - 1 /\ eId' \in 0 .. eTotal' /\ eN' = eTotal' - eId'
      BY <1>1, <2>1, <2>4
    <3>2. OnTop' \/ (eSize' = eId' /\ Packets(eId, cs)' /\ PassedOn(eId, cs)')
      <4>1. CASE eSize = 0
        <5>1. PassedOn(eId, cs)'
          <6>1. Bytes!Triangle(0 - 1) = 0 /\ cs \in 0 .. 255
            BY <1>1 DEF Bytes!Triangle
          <6>2. eLast'.timestamp = 10 /\ eLast'.checksum = cs
            BY <2>1
          <6> QED BY <2>1, <6>1, <6>2 DEF PassedOn
        <5>2. Packets(eId, cs)'
          BY <2>1 DEF Packets
        <5> QED BY <2>1, <4>1, <5>1, <5>2
      <4>2. CASE eSize # 0
        BY <2>1, <2>2, <4>2 DEF OnTop
      <4> QED BY <4>1, <4>2
    <3>3. Adding'
      BY <3>1, <3>2 DEF Adding
    <3>4. ePhase' = "adding"
      BY <1>1, <2>1, <2>4
    <3> QED BY <1>2, <2>1, <3>3, <3>4 DEF Bytes!batch, EngineInv
  <2> QED BY <1>1, <2>3, <2>4
<1>3. CASE Bytes!add_radio_packet
  BY <1>3, AddsPacket DEF Bytes!add_radio_packet
<1>4. CASE Bytes!verify_batch
  <2>1. /\ ePhase = "adding" /\ eN = 0 /\ ePhase' = IF eSize = eId THEN "verified" ELSE "failed"
        /\ UNCHANGED <<eSrc, eDest, eSize, eId, eN, eLast, eTotal, eBatches>>
    BY <1>4 DEF Bytes!verify_batch, Bytes!SizeIsId, Bytes!engineVars
  <2>2. Adding
    BY <2>1 DEF EngineInv
  <2>3. CASE eSize = eId
    <3>1. ~OnTop /\ eId = eTotal
      BY <1>1, <2>1, <2>2, <2>3 DEF OnTop, Adding
    <3>2. Verified
      BY <2>2, <2>3, <3>1 DEF Adding, Verified
    <3>3. Verified'
      BY <2>1, <3>2 DEF Verified, Packets, IsPacket
    <3> QED BY <1>4, <2>1, <2>3, <3>3 DEF Bytes!verify_batch, EngineInv
  <2>4. CASE eSize # eId
    BY <1>4, <2>1, <2>4 DEF Bytes!verify_batch, EngineInv
  <2> QED BY <2>3, <2>4
<1>5. CASE Bytes!batch_copy
  <2>1. /\ ePhase = "verified" /\ ePhase' = "idle" /\ eDest' = [i \in 0 .. eSize - 1 |-> eSrc[i]]
        /\ UNCHANGED <<eSrc, eSize, eId, eN, eLast, eTotal, eBatches>>
    BY <1>5 DEF Bytes!batch_copy
  <2>2. Verified'
    BY <2>1 DEF EngineInv, Verified, Packets, IsPacket
  <2>3. Copied'
    BY <2>1, <2>2 DEF Copied
  <2> QED BY <1>5, <2>1, <2>3 DEF Bytes!batch_copy, EngineInv
<1>6. CASE Bytes!report
  BY <1>6 DEF Bytes!report, Bytes!engineVars, EngineInv, Copied, Verified, Packets, IsPacket
<1> QED BY <1>2, <1>3, <1>4, <1>5, <1>6

(* What the analytics hold is the whole batch.                              *)
LEMMA EngineCopies == EngineInv => Bytes!CopiesWhole
<1> SUFFICES ASSUME EngineInv, ePhase \in {"idle", "reported"}, eDest # <<>>
             PROVE  /\ eSize < PacketCapacity /\ DOMAIN eDest = 0 .. eSize - 1
                    /\ \A i \in DOMAIN eDest :
                         /\ eDest[i] = eSrc[i] /\ eDest[i].sensor_id = i
                         /\ eDest[i].timestamp = 10 + Bytes!Triangle(i)
                         /\ (eDest[i].checksum + 256 - Bytes!Triangle(i)) % 256 \in PacketChecksums
                         /\ 1 \in eDest[i].status_flag <=> (eSize - i) % 2 = 0
  BY DEF Bytes!CopiesWhole
<1>1. Copied
  BY DEF EngineInv
<1>2. /\ eTotal \in 0 .. PacketCapacity - 1 /\ eSize = eTotal /\ DOMAIN eDest = 0 .. eSize - 1
      /\ \A i \in DOMAIN eDest : eDest[i] = eSrc[i]
  BY <1>1 DEF Copied, Verified
<1>3. PICK cs \in PacketChecksums : Packets(eTotal, cs)
  BY <1>1 DEF Copied, Verified
<1>4. cs \in 0 .. 255 /\ PacketCapacity \in 0 .. 255
  BY BytesAssumption DEF Bytes!BatchAssumption
<1>5. ASSUME NEW i \in DOMAIN eDest
      PROVE  /\ eDest[i].sensor_id = i /\ eDest[i].timestamp = 10 + Bytes!Triangle(i)
             /\ (eDest[i].checksum + 256 - Bytes!Triangle(i)) % 256 \in PacketChecksums
             /\ 1 \in eDest[i].status_flag <=> (eSize - i) % 2 = 0
  <2>1. i \in 0 .. eTotal - 1 /\ i \in Nat
    BY <1>2, <1>4
  <2>2. IsPacket(eDest[i], i, eTotal, cs)
    BY <1>2, <1>3, <2>1 DEF Packets
  <2>3. (((cs + Bytes!Triangle(i)) % 256) + 256 - Bytes!Triangle(i)) % 256 = cs
    <3>1. PICK t \in Nat : t = Bytes!Triangle(i)
      BY <2>1, TriangleGrows
    <3>2. (((cs + t) % 256) + 256 - t) % 256 = cs
      BY <1>4, ChecksumBack
    <3> QED BY <3>1, <3>2
  <2> QED BY <1>2, <2>2, <2>3 DEF IsPacket
<1>6. eSize < PacketCapacity
  BY <1>2, <1>4
<1> QED BY <1>2, <1>5, <1>6

BytesInv == eKind \in {"fan", "engine"} /\ FanInv /\ EngineInv

(* The registers and engines that a program may start from.                 *)
LEMMA BytesInit == Bytes!Init => BytesInv
<1> SUFFICES ASSUME Bytes!Init PROVE BytesInv
  OBVIOUS
<1>1. FanInv
  <2>1. eFan \subseteq Bytes!Bits
    BY DEF Bytes!Init
  <2> QED BY <2>1 DEF Bytes!Init, FanInv, FanMeans
<1> QED BY <1>1, EngineInit DEF Bytes!Init, BytesInv

(* The engine's part of the state says nothing about the phase.             *)
LEMMA EngineStays ==
  ASSUME UNCHANGED <<eSrc, eDest, eSize, eId, eN, eLast, eTotal>>
  PROVE  Verified' = Verified /\ Adding' = Adding /\ Copied' = Copied
<1>1. Verified' = Verified
  BY DEF Verified, Packets, IsPacket
<1>2. Adding' = Adding
  BY DEF Adding, OnTop, Packets, PassedOn, IsPacket
<1>3. Copied' = Copied
  BY <1>1 DEF Copied
<1> QED BY <1>1, <1>2, <1>3

(* A step of one program leaves the other's part as it is.                  *)
LEMMA BytesStep == BytesInv /\ [Bytes!Next]_(Bytes!vars) => BytesInv'
<1> SUFFICES ASSUME BytesInv, [Bytes!Next]_(Bytes!vars) PROVE BytesInv'
  OBVIOUS
<1>1. CASE UNCHANGED Bytes!vars
  <2>1. /\ UNCHANGED <<ePhase, eSrc, eDest, eSize, eId, eN, eLast, eTotal>>
        /\ eKind' = eKind /\ eFan' = eFan /\ eMeant' = eMeant
    BY <1>1 DEF Bytes!vars, Bytes!fanVars, Bytes!engineVars
  <2>2. EngineInv'
    BY <2>1, EngineStays DEF BytesInv, EngineInv
  <2>3. FanInv'
    BY <2>1 DEF BytesInv, FanInv, FanMeans
  <2> QED BY <2>1, <2>2, <2>3 DEF BytesInv
<1>2. CASE \/ Bytes!set_max_speed \/ Bytes!set_min_speed \/ Bytes!turn_on \/ Bytes!turn_off
           \/ \E by \in {1, -1} : Bytes!change_speed(by)
  <2>1. FanInv' /\ eKind' = eKind /\ eKind = "fan" /\ UNCHANGED Bytes!engineVars
    BY <1>2, FanStep DEF BytesInv
  <2>2. ePhase = "idle"
    BY <1>2 DEF Bytes!set_max_speed, Bytes!set_min_speed, Bytes!turn_on, Bytes!turn_off,
       Bytes!change_speed, Bytes!FanCall
  <2>3. EngineInv'
    <3>1. UNCHANGED <<eSrc, eDest, eSize, eId, eN, eLast, eTotal>>
      BY <2>1 DEF Bytes!engineVars
    <3>2. ePhase' \in {"idle", "refused"}
      BY <2>1 DEF FanInv
    <3> QED BY <2>2, <3>1, <3>2, EngineStays DEF BytesInv, EngineInv
  <2> QED BY <2>1, <2>3 DEF BytesInv
<1>3. CASE \/ \E m \in 0 .. PacketCapacity, cs \in PacketChecksums : Bytes!batch(m, cs)
           \/ Bytes!add_radio_packet \/ Bytes!verify_batch \/ Bytes!batch_copy \/ Bytes!report
  <2>1. EngineInv' /\ eKind' = eKind /\ eKind = "engine" /\ UNCHANGED Bytes!fanVars
    BY <1>3, EngineStep DEF BytesInv
  <2>2. FanInv'
    BY <2>1 DEF BytesInv, FanInv, FanMeans, Bytes!fanVars
  <2> QED BY <2>1, <2>2 DEF BytesInv
<1> QED BY <1>1, <1>2, <1>3 DEF Bytes!Next, Bytes!Terminated

(* What that invariant says of the two programs.                            *)
LEMMA BytesSound == BytesInv => Bytes!TypeOK /\ Bytes!RegisterMeans /\ Bytes!CopiesWhole
<1> SUFFICES ASSUME BytesInv PROVE Bytes!TypeOK /\ Bytes!RegisterMeans /\ Bytes!CopiesWhole
  OBVIOUS
<1>1. eMeant.speed \in 0 .. 7
  BY SpeedCounts DEF BytesInv, FanInv, FanMeans
<1>2. Bytes!TypeOK
  BY <1>1 DEF BytesInv, FanInv, EngineInv, Bytes!TypeOK
<1>3. Bytes!RegisterMeans
  BY DEF BytesInv, FanInv, FanMeans, Bytes!RegisterMeans
<1> QED BY <1>2, <1>3, EngineCopies DEF BytesInv
-----------------------------------------------------------------------------
Player == INSTANCE Inventory WITH
  Names <- ItemNames, Kinds <- ItemKinds,
  phase <- iPhase, items <- iItems, items_stored <- iStored, player_health <- iHealth,
  player_magicka <- iMagicka, acquired <- iAcquired, uses <- iUses
playerVars == <<iPhase, iItems, iStored, iHealth, iMagicka, iAcquired, iUses>>

ASSUME PlayerAssumption == Player!ItemsAssumption

(* Proofs about problems/rpg_inventory.c.                                   *)

(* Every name has its index, and the stats of a kind are two halves of a
   byte: what costs no more magicka than there is at the start heals no more
   than twice that, and nothing is free.                                    *)
LEMMA ItemTables ==
  /\ \A n \in ItemNames : Player!Hash[n] \in 0 .. 9
  /\ \A k \in ItemKinds :
       /\ Player!Stats[k] = <<Player!Stats[k][1], Player!Stats[k][2]>>
       /\ Player!Stats[k][1] \in 0 .. 15 /\ Player!Stats[k][2] \in 2 .. 15
       /\ Player!Stats[k][1] <= 2 * Player!Stats[k][2]
<1>1. ASSUME NEW n \in ItemNames PROVE Player!Hash[n] \in 0 .. 9
  BY PlayerAssumption DEF Player!ItemsAssumption, Player!Hash
<1>2. ASSUME NEW k \in ItemKinds
      PROVE  /\ Player!Stats[k] = <<Player!Stats[k][1], Player!Stats[k][2]>>
             /\ Player!Stats[k][1] \in 0 .. 15 /\ Player!Stats[k][2] \in 2 .. 15
             /\ Player!Stats[k][1] <= 2 * Player!Stats[k][2]
  <2>1. Player!Stats[k] \in {<<15, 8>>, <<4, 7>>, <<2, 4>>, <<10, 15>>, <<8, 4>>, <<4, 2>>}
    BY PlayerAssumption DEF Player!ItemsAssumption, Player!Stats
  <2> QED BY <2>1
<1> QED BY <1>1, <1>2

(* A detail gives back the two stats that were combined in it.              *)
LEMMA Halves ==
  ASSUME NEW k \in ItemKinds
  PROVE  LET d == Player!ITEM_D_COMBINE(Player!Stats[k]) IN
           /\ d \in 0 .. 255
           /\ Player!ITEM_D_EXTRACT_LEFT(d) = Player!Stats[k][1]
           /\ Player!ITEM_D_EXTRACT_RIGHT(d) = Player!Stats[k][2]
<1>1. PICK l \in 0 .. 15, r \in 0 .. 15 : l = Player!Stats[k][1] /\ r = Player!Stats[k][2]
  BY ItemTables
<1>2. (l * 16) % 256 = l * 16 /\ r % 16 = r
  OBVIOUS
<1>3. (l * 16 + r) \div 16 = l /\ (l * 16 + r) % 16 = r /\ l * 16 + r \in 0 .. 255
  OBVIOUS
<1> QED
  BY <1>1, <1>2, <1>3
  DEF Player!ITEM_D_COMBINE, Player!ITEM_D_EXTRACT_LEFT, Player!ITEM_D_EXTRACT_RIGHT

ItemType == [name : ItemNames, state : SUBSET {"added", "equipped"}, detail : 0 .. 255]
Chains == [0 .. 9 -> Seq(ItemType)]

(* Every item in a chain carries the stats of a kind.                       *)
Genuine(chains) ==
  \A k \in 0 .. 9 : \A j \in 1 .. Len(chains[k]) : \E kind \in ItemKinds :
    chains[k][j].detail = Player!ITEM_D_COMBINE(Player!Stats[kind])

PlayerTyped ==
  /\ iItems \in Chains /\ iAcquired \in Seq(ItemNames \X ItemKinds) /\ iUses \in Nat
  /\ Genuine(iItems)

(* find_item returns the first item of the name.                            *)
LEMMA FindsFirst ==
  ASSUME NEW n \in ItemNames, iItems \in Chains, Player!find_item(n) # 0
  PROVE  LET chain == iItems[Player!Hash[n]] IN
           /\ Player!find_item(n) \in 1 .. Len(chain)
           /\ chain[Player!find_item(n)].name = n
           /\ \A j \in 1 .. Len(chain) : chain[j].name = n => Player!find_item(n) <= j
<1> DEFINE chain == iItems[Player!Hash[n]]
           I == {i \in 1 .. Len(chain) : chain[i].name = n}
<1>1. Player!find_item(n) = IF I # {} THEN Player!Min(I) ELSE 0
  BY DEF Player!find_item, Player!SelectInSeq
<1>2. Len(chain) \in Nat
  <2>1. chain \in Seq(ItemType)
    <3>1. Player!Hash[n] \in 0 .. 9
      BY ItemTables
    <3> QED BY <3>1 DEF Chains
  <2> HIDE DEF chain
  <2> QED BY <2>1
<1>3. I # {} /\ Player!find_item(n) = Player!Min(I)
  BY <1>1
<1>4. I \subseteq Nat
  BY <1>2
<1>5. I \subseteq 1 .. Len(chain) /\ \A i \in I : chain[i].name = n
  OBVIOUS
<1>6. \A i \in 1 .. Len(chain) : chain[i].name = n => i \in I
  OBVIOUS
<1> HIDE DEF I
<1>7. PICK k \in I : \A j \in I : ~(<<j, k>> \in OpToRel(<, Nat))
  BY <1>3, <1>4, NatLessThanWellFounded, WFMin
<1>8. \A j \in I : k <= j
  <2>1. \A j \in I : <<j, k>> \in OpToRel(<, Nat) <=> j < k
    BY <1>4 DEF OpToRel
  <2>2. \A j \in I : j \in Nat /\ ~(j < k)
    BY <1>4, <1>7, <2>1
  <2> QED BY <1>4, <2>2
<1>9. Player!Min(I) \in I /\ \A j \in I : Player!Min(I) <= j
  BY <1>8 DEF Player!Min
<1> QED BY <1>3, <1>5, <1>6, <1>9
-----------------------------------------------------------------------------
(* The places of a chain's items among all that were added.                 *)
At(acquired, k, m) == {j \in 1 .. m : Player!Hash[acquired[j][1]] = k}

(* They are a finite set, which grows with the items looked at.             *)
LEMMA Places ==
  ASSUME NEW s, NEW k, NEW m \in Nat
  PROVE  IsFiniteSet(At(s, k, m)) /\ Cardinality(At(s, k, m)) \in Nat
<1>1. IsFiniteSet(1 .. m)
  BY FS_Interval
<1>2. At(s, k, m) \in SUBSET (1 .. m)
  BY DEF At
<1>3. IsFiniteSet(At(s, k, m))
  BY <1>1, <1>2, FS_Subset
<1> QED BY <1>3, FS_CardinalityType

(* The item at j is no further in its chain than the chain is long.         *)
LEMMA PlacesWithin ==
  ASSUME NEW s, NEW m \in Nat, NEW j \in 1 .. m
  PROVE  LET k == Player!Hash[s[j][1]] IN
           Cardinality(At(s, k, j)) \in 1 .. Cardinality(At(s, k, m))
<1> DEFINE k == Player!Hash[s[j][1]]
<1>1. j \in Nat /\ j \in At(s, k, j)
  BY DEF At
<1>2. At(s, k, j) \in SUBSET At(s, k, m)
  BY DEF At
<1>3. IsFiniteSet(At(s, k, j)) /\ IsFiniteSet(At(s, k, m))
  BY <1>1, Places
<1>4. Cardinality(At(s, k, j)) <= Cardinality(At(s, k, m))
  BY <1>2, <1>3, FS_Subset
<1>5. Cardinality(At(s, k, j)) # 0
  BY <1>1, <1>3, FS_EmptySet
<1>6. Cardinality(At(s, k, j)) \in Nat /\ Cardinality(At(s, k, m)) \in Nat
  BY <1>1, Places
<1> HIDE DEF k
<1>7. Cardinality(At(s, k, j)) \in 1 .. Cardinality(At(s, k, m))
  BY <1>4, <1>5, <1>6
<1> QED BY <1>7 DEF k

(* One more item is in its own chain only.                                  *)
LEMMA PlacesGrow ==
  ASSUME NEW s, NEW t, NEW k, NEW m \in Nat, \A j \in 1 .. m : t[j] = s[j]
  PROVE  /\ \A j \in 1 .. m : At(t, k, j) = At(s, k, j)
         /\ Cardinality(At(t, k, m + 1)) =
              IF Player!Hash[t[m + 1][1]] = k THEN Cardinality(At(s, k, m)) + 1
                                             ELSE Cardinality(At(s, k, m))
<1>1. \A j \in 1 .. m : At(t, k, j) = At(s, k, j)
  BY DEF At
<1>2. At(t, k, m + 1) = IF Player!Hash[t[m + 1][1]] = k THEN At(s, k, m) \cup {m + 1}
                                                        ELSE At(s, k, m)
  <2>1. \A j \in 1 .. m + 1 : j \in 1 .. m \/ j = m + 1
    OBVIOUS
  <2> QED BY <2>1 DEF At
<1>3. m + 1 \notin At(s, k, m)
  BY DEF At
<1>4. IsFiniteSet(At(s, k, m))
  BY Places
<1>5. Cardinality(At(s, k, m) \cup {m + 1}) = Cardinality(At(s, k, m)) + 1
  BY <1>3, <1>4, FS_AddElement
<1> QED BY <1>1, <1>2, <1>5

LEMMA SameCardinality == \A S : Player!Cardinality(S) = Cardinality(S)
BY DEF Player!Cardinality, Cardinality

(* ChainsKeep in these terms.                                               *)
Kept(chains, acquired) ==
  /\ \A k \in 0 .. 9 : Len(chains[k]) = Cardinality(At(acquired, k, Len(acquired)))
  /\ \A j \in 1 .. Len(acquired) :
       LET k == Player!Hash[acquired[j][1]]
           i == chains[k][Cardinality(At(acquired, k, j))]
       IN  i.name = acquired[j][1] /\ i.detail = Player!ITEM_D_COMBINE(Player!Stats[acquired[j][2]])

LEMMA KeptIsKept ==
  ASSUME PlayerTyped, Kept(iItems, iAcquired)
  PROVE  Player!ChainsKeep
<1>1. DOMAIN iItems = 0 .. 9 /\ DOMAIN iAcquired = 1 .. Len(iAcquired)
  BY DEF PlayerTyped, Chains
<1>2. \A j \in 1 .. Len(iAcquired) :
        Player!Before(j) = At(iAcquired, Player!Hash[iAcquired[j][1]], j)
  BY DEF Player!Before, At
<1>3. ASSUME NEW k \in 0 .. 9
      PROVE  Len(iItems[k])
               = Cardinality({j \in DOMAIN iAcquired : Player!Hash[iAcquired[j][1]] = k})
  BY <1>1 DEF Kept, At
<1>4. ASSUME NEW j \in 1 .. Len(iAcquired)
      PROVE  LET i == iItems[Player!Hash[iAcquired[j][1]]][Cardinality(Player!Before(j))] IN
               /\ i.name = iAcquired[j][1]
               /\ <<Player!ITEM_D_EXTRACT_LEFT(i.detail), Player!ITEM_D_EXTRACT_RIGHT(i.detail)>>
                    = Player!Stats[iAcquired[j][2]]
  <2> DEFINE i == iItems[Player!Hash[iAcquired[j][1]]][Cardinality(Player!Before(j))]
  <2>1. i.name = iAcquired[j][1] /\ i.detail = Player!ITEM_D_COMBINE(Player!Stats[iAcquired[j][2]])
    BY <1>2 DEF Kept
  <2>2. iAcquired[j][2] \in ItemKinds
    BY DEF PlayerTyped
  <2> HIDE DEF i
  <2>3. <<Player!ITEM_D_EXTRACT_LEFT(i.detail), Player!ITEM_D_EXTRACT_RIGHT(i.detail)>>
          = Player!Stats[iAcquired[j][2]]
    BY <2>1, <2>2, Halves, ItemTables
  <2> QED BY <2>1, <2>3 DEF i
<1>5. \A k \in DOMAIN iItems : Len(iItems[k])
        = Cardinality({j \in DOMAIN iAcquired : Player!Hash[iAcquired[j][1]] = k})
  BY <1>3, <1>1
<1> HIDE DEF Player!Before
<1> QED BY <1>4, <1>5, <1>1, SameCardinality DEF Player!ChainsKeep

PlayerInv ==
  /\ PlayerTyped /\ Kept(iItems, iAcquired)
  /\ Player!TypeOK /\ Player!OneEquipped /\ Player!CountedOff /\ Player!UsesPaidFor

LEMMA PlayerInit == Player!Init => PlayerInv
<1> SUFFICES ASSUME Player!Init PROVE PlayerInv
  OBVIOUS
<1>1. iItems = [k \in 0 .. 9 |-> <<>>] /\ iAcquired = <<>> /\ iUses = 0
  BY DEF Player!Init, Player!CAPACITY
<1>2. PlayerTyped
  BY <1>1 DEF PlayerTyped, Chains, Genuine
<1>3. Kept(iItems, iAcquired)
  <2>1. \A k : At(iAcquired, k, 0) = {}
    BY DEF At
  <2>2. \A k \in 0 .. 9 : Cardinality(At(iAcquired, k, 0)) = 0
    BY <2>1, FS_EmptySet
  <2>3. Len(iAcquired) = 0 /\ \A k \in 0 .. 9 : Len(iItems[k]) = 0
    BY <1>1
  <2> QED BY <2>2, <2>3 DEF Kept
<1>4. Player!TypeOK
  BY <1>1 DEF Player!Init, Player!TypeOK, Player!ToSet
<1>5. Player!OneEquipped
  BY <1>1 DEF Player!OneEquipped
<1>6. Player!CountedOff /\ Player!UsesPaidFor
  BY <1>1 DEF Player!Init, Player!CountedOff, Player!UsesPaidFor
<1> QED BY <1>2, <1>3, <1>4, <1>5, <1>6 DEF PlayerInv

(* What TypeOK says of the chains follows from their type.                  *)
LEMMA ChainsTyped ==
  ASSUME iItems \in Chains
  PROVE  \A k \in DOMAIN iItems : \A i \in Player!ToSet(iItems[k]) :
           i.state \subseteq {"added", "equipped"} /\ i.detail \in 0 .. 255
<1> SUFFICES ASSUME NEW k \in 0 .. 9, NEW i \in Player!ToSet(iItems[k])
             PROVE  i.state \subseteq {"added", "equipped"} /\ i.detail \in 0 .. 255
  BY DEF Chains
<1>1. iItems[k] \in Seq(ItemType)
  BY DEF Chains
<1>2. PICK j \in 1 .. Len(iItems[k]) : i = iItems[k][j]
  BY <1>1 DEF Player!ToSet
<1>3. i \in ItemType
  BY <1>1, <1>2
<1> QED BY <1>3 DEF ItemType

Scalars ==
  /\ iPhase \in {"running", "returned", "exited", "crashed"} /\ iStored \in 0 .. 255
  /\ iHealth \in 0 .. 255 /\ iMagicka \in 0 .. 255

LEMMA PlayerTypes == ASSUME PlayerTyped, Scalars PROVE Player!TypeOK
BY ChainsTyped DEF PlayerTyped, Scalars, Player!TypeOK

(* The history counts as items_stored does.                                 *)
LEMMA CountsOn ==
  ASSUME NEW a \in Int
  PROVE  /\ ((a % 256) + 1) % 256 = (a + 1) % 256
         /\ ((a % 256) - 1) % 256 = (a - 1) % 256
OBVIOUS
-----------------------------------------------------------------------------
LEMMA PlayerAdds ==
  ASSUME PlayerInv, NEW n \in ItemNames, NEW kind \in ItemKinds, Player!AddItem(n, kind)
  PROVE  PlayerInv'
<1> DEFINE h == Player!Hash[n]
           it == Player!Item(n, kind)
           m == Len(iAcquired)
           old == iItems[h]
<1>1. /\ iItems' = [iItems EXCEPT ![h] = Append(old, it)]
      /\ iStored' = (iStored + 1) % 256 /\ iAcquired' = Append(iAcquired, <<n, kind>>)
      /\ iPhase' = iPhase /\ iHealth' = iHealth /\ iMagicka' = iMagicka /\ iUses' = iUses
  BY DEF Player!AddItem, Player!EndOfChain
<1>2. h \in 0 .. 9
  BY ItemTables
<1>3. it \in ItemType /\ it.name = n /\ it.state = {"added"}
      /\ it.detail = Player!ITEM_D_COMBINE(Player!Stats[kind])
  BY Halves DEF Player!Item, ItemType
<1>4. /\ \A k \in 0 .. 9 : iItems[k] \in Seq(ItemType) /\ Len(iItems[k]) \in Nat
      /\ DOMAIN iItems = 0 .. 9 /\ m \in Nat
      /\ \A k \in 0 .. 9 : DOMAIN iItems[k] = 1 .. Len(iItems[k])
  <2>1. iItems \in [0 .. 9 -> Seq(ItemType)] /\ iAcquired \in Seq(ItemNames \X ItemKinds)
    BY DEF PlayerInv, PlayerTyped, Chains
  <2>2. m \in Nat
    BY <2>1
  <2>3. ASSUME NEW k \in 0 .. 9
        PROVE  /\ iItems[k] \in Seq(ItemType) /\ Len(iItems[k]) \in Nat
               /\ DOMAIN iItems[k] = 1 .. Len(iItems[k])
    <3>1. iItems[k] \in Seq(ItemType)
      BY <2>1
    <3> QED BY <3>1
  <2> QED BY <2>1, <2>2, <2>3
<1>m. m \in Nat
  BY <1>4
<1>5. iItems' \in Chains
  <2>1. Append(old, it) \in Seq(ItemType)
    <3>1. old \in Seq(ItemType) /\ it \in ItemType
      BY <1>2, <1>3, <1>4
    <3> HIDE DEF old, it
    <3> QED BY <3>1
  <2> QED BY <1>1, <1>2, <2>1 DEF PlayerInv, PlayerTyped, Chains
<1> HIDE DEF it, h
<1>old. old = iItems[h] /\ old \in Seq(ItemType) /\ Len(old) \in Nat
  BY <1>2, <1>4
<1> HIDE DEF old
<1>6. /\ iItems'[h] = Append(old, it) /\ Len(iItems'[h]) = Len(old) + 1
      /\ iItems'[h][Len(old) + 1] = it
      /\ \A j \in 1 .. Len(old) : iItems'[h][j] = old[j]
      /\ \A k \in 0 .. 9 : k # h => iItems'[k] = iItems[k]
  <2>1. iItems'[h] = Append(old, it) /\ \A k \in 0 .. 9 : k # h => iItems'[k] = iItems[k]
    BY <1>1, <1>2, <1>4
  <2> QED BY <1>3, <1>old, <2>1
<1>7. /\ iAcquired' \in Seq(ItemNames \X ItemKinds) /\ Len(iAcquired') = m + 1
      /\ iAcquired'[m + 1] = <<n, kind>>
      /\ \A j \in 1 .. m : iAcquired'[j] = iAcquired[j]
  BY <1>1 DEF PlayerInv, PlayerTyped
<1>8. \A k \in 0 .. 9 : \A j \in 1 .. Len(iItems'[k]) :
        \/ j \in 1 .. Len(iItems[k]) /\ iItems'[k][j] = iItems[k][j]
        \/ k = h /\ j = Len(old) + 1 /\ iItems'[k][j] = it
  <2> SUFFICES ASSUME NEW k \in 0 .. 9, NEW j \in 1 .. Len(iItems'[k])
               PROVE  \/ j \in 1 .. Len(iItems[k]) /\ iItems'[k][j] = iItems[k][j]
                      \/ k = h /\ j = Len(old) + 1 /\ iItems'[k][j] = it
    OBVIOUS
  <2>1. CASE k = h
    <3>1. j \in 1 .. Len(old) \/ j = Len(old) + 1
      BY <1>6, <1>old, <2>1
    <3> QED BY <1>6, <1>old, <2>1, <3>1
  <2>2. CASE k # h
    BY <1>6, <2>2
  <2> QED BY <2>1, <2>2
<1> HIDE DEF m
<1>9. PlayerTyped'
  <2>1. Genuine(iItems')
    BY <1>3, <1>8 DEF Genuine, PlayerInv, PlayerTyped
  <2> QED BY <1>1, <1>5, <1>7, <2>1 DEF PlayerInv, PlayerTyped
<1>10. Kept(iItems, iAcquired)'
  <2>1. /\ \A k : \A j \in 1 .. m : At(iAcquired', k, j) = At(iAcquired, k, j)
        /\ \A k : Cardinality(At(iAcquired', k, m + 1))
             = IF h = k THEN Cardinality(At(iAcquired, k, m)) + 1
                        ELSE Cardinality(At(iAcquired, k, m))
    <3>1. Player!Hash[iAcquired'[m + 1][1]] = h
      BY <1>7 DEF h
    <3>2. ASSUME NEW k
          PROVE  /\ \A j \in 1 .. m : At(iAcquired', k, j) = At(iAcquired, k, j)
                 /\ Cardinality(At(iAcquired', k, m + 1))
                      = IF h = k THEN Cardinality(At(iAcquired, k, m)) + 1
                                 ELSE Cardinality(At(iAcquired, k, m))
      <4>1. \A j \in 1 .. m : iAcquired'[j] = iAcquired[j]
        BY <1>7
      <4>2. m \in Nat
        BY <1>m
      <4>3. PICK s, t : s = iAcquired /\ t = iAcquired'
        OBVIOUS
      <4>4. \A j \in 1 .. m : t[j] = s[j]
        BY <4>1, <4>3
      <4>5. /\ \A j \in 1 .. m : At(t, k, j) = At(s, k, j)
            /\ Cardinality(At(t, k, m + 1)) =
                 IF Player!Hash[t[m + 1][1]] = k THEN Cardinality(At(s, k, m)) + 1
                                                ELSE Cardinality(At(s, k, m))
        BY <4>2, <4>4, PlacesGrow
      <4> QED BY <3>1, <4>3, <4>5
    <3> QED BY <3>2
  <2>2. \A k \in 0 .. 9 : Len(iItems[k]) = Cardinality(At(iAcquired, k, m))
    BY DEF PlayerInv, Kept, m
  <2>3. ASSUME NEW k \in 0 .. 9
        PROVE  Len(iItems'[k]) = Cardinality(At(iAcquired', k, m + 1))
    BY <1>6, <2>1, <2>2 DEF old
  <2>4. ASSUME NEW j \in 1 .. m + 1
        PROVE  LET k == Player!Hash[iAcquired'[j][1]]
                   i == iItems'[k][Cardinality(At(iAcquired', k, j))]
               IN  /\ i.name = iAcquired'[j][1]
                   /\ i.detail = Player!ITEM_D_COMBINE(Player!Stats[iAcquired'[j][2]])
    <3>1. CASE j = m + 1
      <4>1. Player!Hash[iAcquired'[j][1]] = h /\ iAcquired'[j] = <<n, kind>>
        BY <1>7, <3>1 DEF h
      <4>2. Cardinality(At(iAcquired', h, j)) = Len(old) + 1
        BY <1>2, <2>1, <2>2, <3>1 DEF old
      <4> QED BY <1>3, <1>6, <4>1, <4>2
    <3>2. CASE j \in 1 .. m
      <4> DEFINE k == Player!Hash[iAcquired[j][1]]
                 p == Cardinality(At(iAcquired, k, j))
      <4>1. iAcquired'[j] = iAcquired[j] /\ At(iAcquired', k, j) = At(iAcquired, k, j)
        BY <1>7, <2>1, <3>2
      <4>2. k \in 0 .. 9
        <5>1. iAcquired[j][1] \in ItemNames
          BY <3>2 DEF PlayerInv, PlayerTyped, m
        <5> QED BY <5>1, ItemTables
      <4>3. p \in 1 .. Cardinality(At(iAcquired, k, m))
        BY <1>4, <3>2, PlacesWithin
      <4> HIDE DEF k, p
      <4>4. p \in 1 .. Len(iItems[k])
        BY <2>2, <4>2, <4>3
      <4>5. iItems'[k][p] = iItems[k][p]
        BY <1>6, <4>2, <4>4 DEF old
      <4>6. /\ iItems[k][p].name = iAcquired[j][1]
            /\ iItems[k][p].detail = Player!ITEM_D_COMBINE(Player!Stats[iAcquired[j][2]])
        BY <3>2 DEF PlayerInv, Kept, k, p, m
      <4> QED BY <4>1, <4>5, <4>6 DEF k, p
    <3>3. j = m + 1 \/ j \in 1 .. m
      BY <1>m
    <3> QED BY <3>1, <3>2, <3>3
  <2>5. Len(iAcquired') = m + 1
    BY <1>7
  <2> QED BY <2>3, <2>4, <2>5 DEF Kept
<1>11. Player!TypeOK'
  <2>1. Scalars'
    <3>1. Scalars
      BY DEF PlayerInv, Player!TypeOK, Scalars
    <3>2. iStored' \in 0 .. 255
      <4>1. iStored \in 0 .. 255 /\ iStored' = (iStored + 1) % 256
        BY <1>1, <3>1 DEF Scalars
      <4> QED BY <4>1
    <3>3. iPhase' = iPhase /\ iHealth' = iHealth /\ iMagicka' = iMagicka
      BY <1>1
    <3> QED BY <3>1, <3>2, <3>3 DEF Scalars
  <2> QED BY <1>9, <2>1, PlayerTypes, PTL
<1>dom. /\ DOMAIN iItems' = 0 .. 9
        /\ \A k \in 0 .. 9 : DOMAIN iItems'[k] = 1 .. Len(iItems'[k])
  BY <1>5 DEF Chains
<1>12. Player!OneEquipped'
  <2> SUFFICES ASSUME NEW k \in 0 .. 9, NEW i \in 1 .. Len(iItems'[k]),
                      NEW j \in 1 .. Len(iItems'[k]), i < j,
                      iItems'[k][i].name = iItems'[k][j].name,
                      "equipped" \in iItems'[k][j].state
               PROVE  FALSE
    BY <1>dom DEF Player!OneEquipped
  <2>1. j \in 1 .. Len(iItems[k]) /\ iItems'[k][j] = iItems[k][j]
    <3>1. "equipped" \notin it.state
      BY <1>3
    <3> QED BY <1>8, <3>1
  <2>2. i # Len(iItems[k]) + 1
    BY <1>4, <2>1
  <2>3. i \in 1 .. Len(iItems[k]) /\ iItems'[k][i] = iItems[k][i]
    BY <1>8, <1>old, <2>2
  <2>4. \A a \in 1 .. Len(iItems[k]), b \in 1 .. Len(iItems[k]) :
          a < b /\ iItems[k][a].name = iItems[k][b].name
            => "equipped" \notin iItems[k][b].state
    BY <1>4 DEF PlayerInv, Player!OneEquipped
  <2> QED BY <2>1, <2>3, <2>4
<1>13. Player!CountedOff'
  <2>1. iStored = (m - iUses) % 256 /\ iUses \in Nat
    BY DEF PlayerInv, PlayerTyped, Player!CountedOff, m
  <2>2. PICK a \in Int : a = m - iUses
    BY <1>m, <2>1
  <2>3. iStored' = (a + 1) % 256
    BY <1>1, <2>1, <2>2, CountsOn
  <2>4. Len(iAcquired') - iUses' = a + 1
    BY <1>1, <1>4, <1>7, <2>1, <2>2 DEF m
  <2> QED BY <2>3, <2>4 DEF Player!CountedOff
<1>14. Player!UsesPaidFor'
  BY <1>1 DEF PlayerInv, Player!UsesPaidFor
<1> QED BY <1>9, <1>10, <1>11, <1>12, <1>13, <1>14 DEF PlayerInv

LEMMA PlayerEquips ==
  ASSUME PlayerInv, NEW n \in ItemNames, Player!equip_weapon(n), ~Player!NotFound(n)
  PROVE  PlayerInv'
<1> DEFINE h == Player!Hash[n]
           f == Player!find_item(n)
           old == iItems[h]
           it == [old[f] EXCEPT !.state = @ \cup {"equipped"}]
<1>1. /\ Player!find_item(n) # 0
      /\ iItems' = [iItems EXCEPT ![h] = [old EXCEPT ![f] = it]]
      /\ iPhase' = iPhase /\ iStored' = iStored /\ iHealth' = iHealth
      /\ iMagicka' = iMagicka /\ iAcquired' = iAcquired /\ iUses' = iUses
  BY DEF Player!equip_weapon
<1>2. h \in 0 .. 9
  BY ItemTables
<1>3. \A k \in 0 .. 9 : iItems[k] \in Seq(ItemType) /\ Len(iItems[k]) \in Nat
  <2>1. \A k \in 0 .. 9 : iItems[k] \in Seq(ItemType)
    BY DEF PlayerInv, PlayerTyped, Chains
  <2>2. ASSUME NEW k \in 0 .. 9 PROVE Len(iItems[k]) \in Nat
    <3>1. iItems[k] \in Seq(ItemType)
      BY <2>1
    <3> QED BY <3>1
  <2> QED BY <2>1, <2>2
<1>4. /\ f \in 1 .. Len(old) /\ old[f].name = n
      /\ \A j \in 1 .. Len(old) : old[j].name = n => f <= j
  BY <1>1, FindsFirst DEF PlayerInv, PlayerTyped
<1> HIDE DEF h, f
<1>5. old \in Seq(ItemType) /\ Len(old) \in Nat
  BY <1>2, <1>3
<1>6. old[f] \in ItemType
  BY <1>4, <1>5
<1> HIDE DEF old
<1>7. it \in ItemType /\ it.name = n /\ it.detail = old[f].detail
  BY <1>4, <1>6 DEF ItemType
<1>old. old = iItems[h]
  BY DEF old
<1> HIDE DEF it
<1>8. /\ [old EXCEPT ![f] = it] \in Seq(ItemType)
      /\ Len([old EXCEPT ![f] = it]) = Len(old)
      /\ \A j \in 1 .. Len(old) : [old EXCEPT ![f] = it][j] = IF j = f THEN it ELSE old[j]
  <2>1. old \in [1 .. Len(old) -> ItemType]
    BY <1>5
  <2>2. [old EXCEPT ![f] = it] \in [1 .. Len(old) -> ItemType]
    BY <1>7, <2>1
  <2>3. \A j \in 1 .. Len(old) : [old EXCEPT ![f] = it][j] = IF j = f THEN it ELSE old[j]
    BY <2>1
  <2>4. \A g \in [1 .. Len(old) -> ItemType] : g \in Seq(ItemType) /\ Len(g) = Len(old)
    BY <1>5
  <2> QED BY <2>2, <2>3, <2>4
<1>9. iItems' \in Chains
  BY <1>1, <1>8 DEF PlayerInv, PlayerTyped, Chains
<1>10. iItems'[h] = [old EXCEPT ![f] = it] /\ \A k \in 0 .. 9 : k # h => iItems'[k] = iItems[k]
  BY <1>1, <1>2 DEF PlayerInv, PlayerTyped, Chains
<1>11. \A k \in 0 .. 9 : Len(iItems'[k]) = Len(iItems[k])
  BY <1>8, <1>10, <1>old
<1>12. \A k \in 0 .. 9 : \A j \in 1 .. Len(iItems[k]) :
         iItems'[k][j] = IF k = h /\ j = f THEN it ELSE iItems[k][j]
  <2> SUFFICES ASSUME NEW k \in 0 .. 9, NEW j \in 1 .. Len(iItems[k])
               PROVE  iItems'[k][j] = IF k = h /\ j = f THEN it ELSE iItems[k][j]
    OBVIOUS
  <2>1. CASE k = h
    BY <1>8, <1>10, <1>old, <2>1
  <2>2. CASE k # h
    BY <1>10, <2>2
  <2> QED BY <2>1, <2>2
<1>13. \A k \in 0 .. 9 : \A j \in 1 .. Len(iItems[k]) :
         /\ iItems'[k][j].name = iItems[k][j].name
         /\ iItems'[k][j].detail = iItems[k][j].detail
  BY <1>4, <1>7, <1>12, <1>old
<1>14. PlayerTyped'
  <2>1. Genuine(iItems')
    <3>1. Genuine(iItems)
      BY DEF PlayerInv, PlayerTyped
    <3>2. ASSUME NEW k \in 0 .. 9, NEW j \in 1 .. Len(iItems'[k])
          PROVE  \E kind \in ItemKinds :
                   iItems'[k][j].detail = Player!ITEM_D_COMBINE(Player!Stats[kind])
      <4>1. j \in 1 .. Len(iItems[k])
        BY <1>11
      <4>2. iItems'[k][j].detail = iItems[k][j].detail
        BY <1>13, <4>1
      <4> QED BY <3>1, <4>1, <4>2 DEF Genuine
    <3> QED BY <3>2 DEF Genuine
  <2> QED BY <1>1, <1>9, <2>1 DEF PlayerInv, PlayerTyped
<1>15. Kept(iItems, iAcquired)'
  <2>1. \A k \in 0 .. 9 : Len(iItems'[k]) = Cardinality(At(iAcquired, k, Len(iAcquired)))
    BY <1>11 DEF PlayerInv, Kept
  <2>2. ASSUME NEW j \in 1 .. Len(iAcquired)
        PROVE  LET k == Player!Hash[iAcquired[j][1]]
                   i == iItems'[k][Cardinality(At(iAcquired, k, j))]
               IN  /\ i.name = iAcquired[j][1]
                   /\ i.detail = Player!ITEM_D_COMBINE(Player!Stats[iAcquired[j][2]])
    <3> DEFINE k == Player!Hash[iAcquired[j][1]]
               p == Cardinality(At(iAcquired, k, j))
    <3>1. k \in 0 .. 9 /\ Len(iAcquired) \in Nat
      <4>1. iAcquired[j][1] \in ItemNames
        BY DEF PlayerInv, PlayerTyped
      <4> QED BY <4>1, ItemTables DEF PlayerInv, PlayerTyped
    <3>2. p \in 1 .. Cardinality(At(iAcquired, k, Len(iAcquired)))
      BY <3>1, PlacesWithin
    <3>3. /\ iItems[k][p].name = iAcquired[j][1]
          /\ iItems[k][p].detail = Player!ITEM_D_COMBINE(Player!Stats[iAcquired[j][2]])
      BY DEF PlayerInv, Kept
    <3> HIDE DEF k, p
    <3>4. p \in 1 .. Len(iItems[k])
      BY <3>1, <3>2 DEF PlayerInv, Kept
    <3>5. iItems'[k][p].name = iItems[k][p].name /\ iItems'[k][p].detail = iItems[k][p].detail
      BY <1>13, <3>1, <3>4
    <3> QED BY <3>3, <3>5 DEF k, p
  <2> QED BY <1>1, <2>1, <2>2 DEF Kept
<1>16. Player!TypeOK'
  <2>1. Scalars'
    <3>1. Scalars
      BY DEF PlayerInv, Player!TypeOK, Scalars
    <3>2. iPhase' = iPhase /\ iStored' = iStored /\ iHealth' = iHealth /\ iMagicka' = iMagicka
      BY <1>1
    <3> QED BY <3>1, <3>2 DEF Scalars
  <2> QED BY <1>14, <2>1, PlayerTypes, PTL
<1>17. Player!OneEquipped'
  <2>1. /\ DOMAIN iItems' = 0 .. 9
        /\ \A k \in 0 .. 9 : DOMAIN iItems'[k] = 1 .. Len(iItems[k])
    <3>1. DOMAIN iItems' = 0 .. 9 /\ \A k \in 0 .. 9 : DOMAIN iItems'[k] = 1 .. Len(iItems'[k])
      BY <1>9 DEF Chains
    <3> QED BY <1>11, <3>1
  <2> SUFFICES ASSUME NEW k \in 0 .. 9, NEW i \in 1 .. Len(iItems[k]),
                      NEW j \in 1 .. Len(iItems[k]), i < j,
                      iItems'[k][i].name = iItems'[k][j].name,
                      "equipped" \in iItems'[k][j].state
               PROVE  FALSE
    BY <2>1 DEF Player!OneEquipped
  <2>2. iItems[k][i].name = iItems[k][j].name
    BY <1>13
  <2>3. "equipped" \notin iItems[k][j].state
    <3>1. DOMAIN iItems = 0 .. 9 /\ DOMAIN iItems[k] = 1 .. Len(iItems[k])
      BY DEF PlayerInv, PlayerTyped, Chains
    <3> QED BY <2>2, <3>1 DEF PlayerInv, Player!OneEquipped
  <2>4. k = h /\ j = f
    BY <1>12, <2>3
  <2>5. f <= i
    BY <1>4, <1>old, <2>2, <2>4
  <2>6. f \in Nat /\ i \in Nat /\ j \in Nat
    BY <1>3, <1>4, <1>5
  <2> QED BY <2>4, <2>5, <2>6
<1>18. Player!CountedOff' /\ Player!UsesPaidFor'
  BY <1>1 DEF PlayerInv, Player!CountedOff, Player!UsesPaidFor
<1> QED BY <1>14, <1>15, <1>16, <1>17, <1>18 DEF PlayerInv

LEMMA PlayerUses ==
  ASSUME PlayerInv, NEW n \in ItemNames, Player!find_item(n) # 0,
         Player!Affordable(Player!ITEM_D_EXTRACT_RIGHT(Player!Found(n).detail)),
         Player!Consume(Player!ITEM_D_EXTRACT_LEFT(Player!Found(n).detail),
                        Player!ITEM_D_EXTRACT_RIGHT(Player!Found(n).detail))
  PROVE  PlayerInv'
<1>1. PICK kind \in ItemKinds :
        Player!Found(n).detail = Player!ITEM_D_COMBINE(Player!Stats[kind])
  <2>1. Player!Hash[n] \in 0 .. 9
    BY ItemTables
  <2>2. Player!find_item(n) \in 1 .. Len(iItems[Player!Hash[n]])
    BY FindsFirst DEF PlayerInv, PlayerTyped
  <2> QED BY <2>1, <2>2 DEF Player!Found, PlayerInv, PlayerTyped, Genuine
<1>2. PICK heal \in 0 .. 15, cost \in 2 .. 15 :
        /\ heal = Player!ITEM_D_EXTRACT_LEFT(Player!Found(n).detail)
        /\ cost = Player!ITEM_D_EXTRACT_RIGHT(Player!Found(n).detail)
        /\ heal <= 2 * cost
  BY <1>1, Halves, ItemTables
<1>3. /\ iHealth' = (iHealth + heal) % 256 /\ iMagicka' = (iMagicka - cost) % 256
      /\ iStored' = (iStored - 1) % 256 /\ iUses' = iUses + 1
      /\ iPhase' = iPhase /\ iItems' = iItems /\ iAcquired' = iAcquired
      /\ iMagicka >= cost
  BY <1>2 DEF Player!Consume, Player!Affordable
<1>4. /\ iHealth \in 0 .. 255 /\ iMagicka \in 0 .. 255 /\ iUses \in Nat
      /\ iMagicka <= 10 /\ 2 * iUses <= 10 - iMagicka
      /\ iHealth >= 20 /\ iHealth - 20 <= 2 * (10 - iMagicka)
      /\ iPhase \in {"running", "returned", "exited", "crashed"}
  BY DEF PlayerInv, PlayerTyped, Player!TypeOK, Player!UsesPaidFor
<1>5. /\ iHealth' = iHealth + heal /\ iMagicka' = iMagicka - cost
      /\ iHealth' \in 0 .. 255 /\ iMagicka' \in 0 .. 255
  <2>1. iHealth + heal \in 0 .. 255 /\ iMagicka - cost \in 0 .. 255
    BY <1>2, <1>3, <1>4
  <2> QED BY <1>3, <2>1
<1>6. Player!UsesPaidFor'
  BY <1>2, <1>3, <1>4, <1>5 DEF Player!UsesPaidFor
<1>7. Player!CountedOff'
  <2>1. PICK a \in Int : a = Len(iAcquired) - iUses
    <3>1. Len(iAcquired) \in Nat
      BY DEF PlayerInv, PlayerTyped
    <3>2. iUses \in Int
      BY <1>4
    <3>3. Len(iAcquired) - iUses \in Int
      BY <3>1, <3>2
    <3> QED BY <3>3
  <2>2. iStored' = (a - 1) % 256
    BY <1>3, <2>1, CountsOn DEF PlayerInv, Player!CountedOff
  <2>3. Len(iAcquired') - iUses' = a - 1
    <3>1. Len(iAcquired) \in Nat
      BY DEF PlayerInv, PlayerTyped
    <3> QED BY <1>3, <1>4, <2>1, <3>1
  <2> QED BY <2>2, <2>3 DEF Player!CountedOff
<1>8. PlayerTyped'
  BY <1>3, <1>4 DEF PlayerInv, PlayerTyped
<1>9. Player!TypeOK'
  <2>1. Scalars'
    <3>1. iStored' \in 0 .. 255
      <4>1. iStored \in 0 .. 255
        BY DEF PlayerInv, Player!TypeOK
      <4>2. iStored' = (iStored - 1) % 256
        BY <1>3
      <4> QED BY <4>1, <4>2
    <3>2. iHealth' \in 0 .. 255 /\ iMagicka' \in 0 .. 255
      BY <1>5
    <3>3. iPhase' = iPhase /\ iPhase \in {"running", "returned", "exited", "crashed"}
      BY <1>3, <1>4
    <3> QED BY <3>1, <3>2, <3>3 DEF Scalars
  <2> QED BY <1>8, <2>1, PlayerTypes, PTL
<1>10. Kept(iItems, iAcquired)' /\ Player!OneEquipped'
  <2>1. Kept(iItems, iAcquired)'
    BY <1>3 DEF PlayerInv, Kept
  <2>2. Player!OneEquipped'
    BY <1>3 DEF PlayerInv, Player!OneEquipped
  <2> QED BY <2>1, <2>2
<1> QED BY <1>6, <1>7, <1>8, <1>9, <1>10 DEF PlayerInv

(* A call that ends the program leaves everything else as it is.            *)
LEMMA PlayerEnds ==
  ASSUME PlayerInv, iPhase' \in {"running", "returned", "exited", "crashed"},
         UNCHANGED <<iItems, iStored, iHealth, iMagicka, iAcquired, iUses>>
  PROVE  PlayerInv'
<1>1. PlayerTyped' /\ Kept(iItems, iAcquired)'
  BY DEF PlayerInv, PlayerTyped, Kept
<1>2. Player!TypeOK'
  BY DEF PlayerInv, Player!TypeOK
<1>3. Player!OneEquipped' /\ Player!CountedOff' /\ Player!UsesPaidFor'
  BY DEF PlayerInv, Player!OneEquipped, Player!CountedOff, Player!UsesPaidFor
<1> QED BY <1>1, <1>2, <1>3 DEF PlayerInv

LEMMA PlayerStep == PlayerInv /\ [Player!Next]_(Player!vars) => PlayerInv'
<1> SUFFICES ASSUME PlayerInv, [Player!Next]_(Player!vars) PROVE PlayerInv'
  OBVIOUS
<1>1. ASSUME NEW n \in ItemNames, Player!NotFound(n) PROVE PlayerInv'
  BY <1>1, PlayerEnds DEF Player!NotFound, Player!End
<1>2. ASSUME NEW n \in ItemNames, NEW kind \in ItemKinds, Player!AddItem(n, kind)
      PROVE  PlayerInv'
  BY <1>2, PlayerAdds
<1>3. ASSUME NEW n \in ItemNames, Player!equip_weapon(n) PROVE PlayerInv'
  BY <1>1, <1>3, PlayerEquips
<1>4. ASSUME NEW n \in ItemNames, Player!use_consumable(n) PROVE PlayerInv'
  BY <1>1, <1>4, PlayerUses DEF Player!use_consumable
<1>5. CASE Player!clean_mem
  BY <1>5, PlayerEnds DEF Player!clean_mem, Player!End
<1>6. CASE Player!Terminated \/ UNCHANGED Player!vars
  <2>1. iPhase' = iPhase
        /\ UNCHANGED <<iItems, iStored, iHealth, iMagicka, iAcquired, iUses>>
    BY <1>6 DEF Player!Terminated, Player!vars
  <2> QED BY <2>1, PlayerEnds DEF PlayerInv, Player!TypeOK
<1> QED BY <1>2, <1>3, <1>4, <1>5, <1>6 DEF Player!Next
-----------------------------------------------------------------------------
\* memory/arena.c, without the padding.
Plain == INSTANCE BumpArena WITH
  capacity <- 10, Pads <- FALSE, Sizes <- {1, 5}, phase <- pPhase,
  allocated <- pAllocated, blocks <- pBlocks
plainVars == <<pPhase, pAllocated, pBlocks>>

Arrays == INSTANCE Containers WITH
  MaxItems <- 6, kind <- sKind, phase <- sPhase, slots <- sSlots, capacity <- sCapacity,
  size <- sSize, live <- sLive, added <- sAdded, given <- sGiven
arrayVars == <<sKind, sPhase, sSlots, sCapacity, sSize, sLive, sAdded, sGiven>>

Links == INSTANCE LinkedLists WITH
  MaxNodes <- 5, SLOT_ITEM_CAPACITY <- 4, Costs <- {2, 5, 10, 12},
  kind <- lKind, phase <- lPhase, head <- lHead, tail <- lTail, size <- lSize,
  next <- lNext, prev <- lPrev, cost <- lCost, live <- lLive
linkVars == <<lKind, lPhase, lHead, lTail, lSize, lNext, lPrev, lCost, lLive>>

Looked == INSTANCE Lookups WITH
  capacity <- 5, MaxPairs <- 3, MaxNodes <- 5, Values <- 1 .. 5,
  kind <- kKind, phase <- kPhase, buckets <- kBuckets, inserted <- kInserted,
  asked <- kAsked, answer <- kAnswer, value <- kValue, left <- kLeft, right <- kRight,
  used <- kUsed, node <- kNode, new <- kNew, live <- kLive
lookupVars == <<kKind, kPhase, kBuckets, kInserted, kAsked, kAnswer,
                kValue, kLeft, kRight, kUsed, kNode, kNew, kLive>>

\* Bound: edges of a graph that is walked, as many as main's graph has.
MaxPaths == 6

Programs == {"arena", "plain", "flight", "bay", "arrays", "links", "player",
             "lookups", "bytes", "make", "sets", "walks"}
suite == <<program, vars, plainVars, flightVars, bayVars,
           arrayVars, linkVars, playerVars, lookupVars, byteVars,
           makeVars, setsVars, walkVars>>

SuiteInit ==
  /\ program \in Programs /\ Init /\ Plain!Init /\ Flight!Init
  /\ Bay!Init /\ Arrays!Init /\ Links!Init /\ Player!Init
  /\ Looked!Init /\ Bytes!Init
  \* What a program chooses at the start is of no matter to the others.
  /\ program # "arrays" => sKind = "stack"
  /\ program # "links" => lKind = "list"
  /\ program # "lookups" => kKind = "table"
  /\ program # "bytes" => eKind = "engine"
  /\ program # "walks" => wMatrix = {}
  /\ Make!Init /\ Sets!Init /\ Walk!Init /\ Cardinality(wMatrix) <= MaxPaths

\* A program that was not picked does nothing.
SuiteNext ==
  /\ UNCHANGED program
  /\ \/ program = "arena" /\ Next
     \/ program # "arena" /\ UNCHANGED vars
  /\ \/ program = "plain" /\ Plain!Next
     \/ program # "plain" /\ UNCHANGED plainVars
  /\ \/ program = "flight" /\ Flight!Next
     \/ program # "flight" /\ UNCHANGED flightVars
  /\ \/ program = "bay" /\ Bay!Next
     \/ program # "bay" /\ UNCHANGED bayVars
  /\ \/ program = "arrays" /\ Arrays!Next
     \/ program # "arrays" /\ UNCHANGED arrayVars
  /\ \/ program = "links" /\ Links!Next
     \/ program # "links" /\ UNCHANGED linkVars
  /\ \/ program = "player" /\ Player!Next
     \/ program # "player" /\ UNCHANGED playerVars
  /\ \/ program = "lookups" /\ Looked!Next
     \/ program # "lookups" /\ UNCHANGED lookupVars
  /\ \/ program = "bytes" /\ Bytes!Next
     \/ program # "bytes" /\ UNCHANGED byteVars
  /\ \/ program = "make" /\ Make!Next
     \/ program # "make" /\ UNCHANGED makeVars
  /\ \/ program = "sets" /\ Sets!Next
     \/ program # "sets" /\ UNCHANGED setsVars
  /\ \/ program = "walks" /\ Walk!Next
     \/ program # "walks" /\ UNCHANGED walkVars

SuiteSpec == SuiteInit /\ [][SuiteNext]_suite
-----------------------------------------------------------------------------
(* The blocks that arena_alloc of memory/arena.c hands out, without padding,
   stay within the buffer and apart.  Queues give their values in the order
   in which they came, a stack in an order a stack can give them, and what
   they point to is freed once, the stream's last chunk aside.  Lists, slots
   and the deck are walked in their order, backwards as well as forwards, and
   freed whole.  A hash table answers what was inserted last under a key, and
   a tree prints its values in order.                                       *)
ContainersSound ==
  /\ Plain!ArenaSound
  /\ Arrays!TypeOK /\ Arrays!FirstInFirstOut /\ Arrays!LastInFirstOut /\ Arrays!FreedOnce
  /\ Links!TypeOK /\ Links!InOrder /\ Links!Mirrored /\ Links!GetsElement /\ Links!AllFreed
  /\ Looked!TypeOK /\ Looked!GetsLast /\ Looked!ChainsWhole
  /\ Looked!TreeSorted /\ Looked!OnTheWay

(* Whatever names collide, a chain holds the items that were added, in order
   and with their stats, and only the first of a name is equipped; magicka is
   never overdrawn and pays for every use, although a used item stays to be
   used again: problems/rpg_inventory.c.                                    *)
InventorySound ==
  /\ Player!TypeOK /\ Player!ChainsKeep /\ Player!OneEquipped
  /\ Player!CountedOff /\ Player!UsesPaidFor
(* However the controls are called, the airplane is on the ground or in the
   air, never flies on empty tanks, its black box is right about the left
   engine unless the latest record found no memory, and an engine that the
   checklist counts is on or was ordered off since: problems/fcw.c.  The
   register of bitwise/smarth_fan.c stands for the fan that the calls ask for,
   and the analytics of problems/f1_engine.c hold whole batches, never parts
   or batches on top of each other.                                         *)
BitsTruthful ==
  /\ Flight!TypeOK /\ Flight!OneAltitude /\ Flight!FuelledAloft /\ Flight!BoxKnowsLeft
  /\ Flight!SignedOrStopped
  /\ Bytes!TypeOK /\ Bytes!RegisterMeans /\ Bytes!CopiesWhole

(* In the air an engine changes only in declare_emergency, and only when both
   pilots have said yes: problems/fcw.c.                                    *)
BothPilotsConfirm == Flight!BothPilotsConfirm

(* A container is in the queue, on one rail or departed, never in two places,
   and rails keep the classes apart and in order: problems/cargo.c.         *)
BaySound == Bay!TypeOK /\ Bay!HeldOnce /\ Bay!Sorted /\ Bay!RailOrder
(* The trees of the two disjoint-set forests are the connected clusters of
   what was added so far, their roots hold the sizes, and in
   disjoint_subset.c, which stops at a cycle, paths are logarithmic.
   micro-make.c orders tasks after their prerequisites and leaves out those
   that lead to a cycle; the walks of BFS_and_DFS.c print what they can reach,
   once, breadth first and depth first.                                     *)
GraphsSearched ==
  /\ program = "make" => Make!Clusters /\ Make!SearchSound
  /\ program = "sets" => /\ Sets!TypeOK /\ Sets!TreesAreSets
                         /\ Sets!EndsAtCycle /\ Sets!FindIsShort
  /\ program = "walks" => /\ Walk!TypeOK /\ Walk!WalksReach
                          /\ Walk!BreadthFirst /\ Walk!DepthFirst
-----------------------------------------------------------------------------
(* A step of the suite is a step of each program or leaves it as it is.     *)
LEMMA SuiteSteps ==
  [SuiteNext]_suite => /\ [Flight!Next]_(Flight!vars)
                       /\ [Bay!Next]_(Bay!vars)
                       /\ [Bytes!Next]_(Bytes!vars)
                       /\ [Player!Next]_(Player!vars)
<1> SUFFICES ASSUME [SuiteNext]_suite
             PROVE  /\ [Flight!Next]_(Flight!vars)
                    /\ [Bay!Next]_(Bay!vars)
                    /\ [Bytes!Next]_(Bytes!vars)
                    /\ [Player!Next]_(Player!vars)
  OBVIOUS
<1>1. [Flight!Next]_(Flight!vars)
  BY DEF SuiteNext, suite, flightVars, Flight!vars, Flight!recorder
<1>2. [Bay!Next]_(Bay!vars)
  BY DEF SuiteNext, suite, bayVars, Bay!vars
<1>3. [Bytes!Next]_(Bytes!vars)
  BY DEF SuiteNext, suite, byteVars, Bytes!vars, Bytes!fanVars, Bytes!engineVars
<1>4. [Player!Next]_(Player!vars)
  BY DEF SuiteNext, suite, playerVars, Player!vars
<1> QED BY <1>1, <1>2, <1>3, <1>4

(* Whatever the order of calls to fcw.c, in the air no engine goes off and
   none comes on unless both pilots have said yes.                          *)
THEOREM PilotsAgree == SuiteSpec => BothPilotsConfirm
<1>1. SuiteInit => FlightInv
  BY FlightInit DEF SuiteInit
<1>2. FlightInv /\ [SuiteNext]_suite => FlightInv'
  BY FlightStep, SuiteSteps
<1>3. FlightInv /\ [SuiteNext]_suite
        => [Flight!Airborne /\ fEngine' # fEngine => fConfirmed']_(Flight!vars)
  BY FlightConfirmed, SuiteSteps
<1> QED BY <1>1, <1>2, <1>3, PTL DEF SuiteSpec, BothPilotsConfirm, Flight!BothPilotsConfirm

(* The airplane of fcw.c is on the ground or in the air and never flies on
   empty tanks, its black box knows the left engine, and its checklist counts
   an engine that is on or was ordered off since; the register of
   smarth_fan.c means the fan that was asked for; and the analytics of
   f1_engine.c hold whole batches, for every capacity and all checksums that
   fit a byte.                                                              *)
THEOREM BitsAreTruthful == SuiteSpec => []BitsTruthful
<1>1. SuiteInit => FlightInv /\ BytesInv
  BY FlightInit, BytesInit DEF SuiteInit
<1>2. FlightInv /\ BytesInv /\ [SuiteNext]_suite => (FlightInv /\ BytesInv)'
  BY FlightStep, BytesStep, SuiteSteps
<1>3. FlightInv /\ BytesInv => BitsTruthful
  BY BytesSound DEF FlightInv, BitsTruthful
<1> QED BY <1>1, <1>2, <1>3, PTL DEF SuiteSpec

(* For every capacity of the queue and any number of ships, a container of
   cargo.c is in one place, only what came with both measures is loaded, and
   the rails keep the order of arrival.                                     *)
THEOREM BayIsSound == SuiteSpec => []BaySound
<1>1. SuiteInit => BayInv
  BY BayInit DEF SuiteInit
<1>2. BayInv /\ [SuiteNext]_suite => BayInv'
  BY BayStep, SuiteSteps
<1>3. BayInv => BaySound
  BY DEF BayInv, BaySound
<1> QED BY <1>1, <1>2, <1>3, PTL DEF SuiteSpec

(* For any number of items and any names that collide, a chain of
   rpg_inventory.c holds what was added to it, in order and with the stats of
   its kind, only the first of a name is ever equipped, items_stored counts
   the uses off, and magicka pays for each of them.                         *)
THEOREM InventoryIsSound == SuiteSpec => []InventorySound
<1>1. SuiteInit => PlayerInv
  BY PlayerInit DEF SuiteInit
<1>2. PlayerInv /\ [SuiteNext]_suite => PlayerInv'
  BY PlayerStep, SuiteSteps
<1>3. PlayerInv => InventorySound
  BY KeptIsKept DEF PlayerInv, InventorySound
<1> QED BY <1>1, <1>2, <1>3, PTL DEF SuiteSpec

(* In the suite, the three programs on graphs each run as they would alone,
   or not at all.                                                           *)
LEMMA SuiteSearches ==
  /\ SuiteInit => Make!Init /\ Sets!Init /\ Walk!Init
  /\ [SuiteNext]_suite => /\ [Make!Next]_(Make!vars) /\ [Sets!Next]_(Sets!vars)
                          /\ [Walk!Next]_(Walk!vars)
<1>1. SuiteInit => Make!Init /\ Sets!Init /\ Walk!Init
  BY DEF SuiteInit
<1>2. SuiteNext => /\ Make!Next \/ UNCHANGED makeVars
                   /\ Sets!Next \/ UNCHANGED setsVars
                   /\ Walk!Next \/ UNCHANGED walkVars
  BY DEF SuiteNext
<1>3. UNCHANGED suite => UNCHANGED makeVars /\ UNCHANGED setsVars /\ UNCHANGED walkVars
  BY DEF suite
<1>4. /\ UNCHANGED makeVars => UNCHANGED Make!vars
      /\ UNCHANGED setsVars => UNCHANGED Sets!vars
      /\ UNCHANGED walkVars => UNCHANGED Walk!vars
  BY DEF Make!vars, makeVars, Sets!vars, setsVars, Walk!vars, walkVars
<1> QED BY <1>1, <1>2, <1>3, <1>4

(* For any number of nodes, tasks and vertices, whatever is joined, added or
   drawn: the forests of disjoint_subset.c and micro-make.c are the connected
   clusters, micro-make.c orders all that leads to no cycle, and the walks of
   BFS_and_DFS.c print what they reach in their order.                      *)
THEOREM GraphsAreSearched == SuiteSpec => []GraphsSearched
<1>1. SuiteSpec => Make!Spec /\ Sets!Spec /\ Walk!Spec
  BY SuiteSearches, PTL DEF SuiteSpec, Make!Spec, Sets!Spec, Walk!Spec
<1>2. /\ Make!Clusters /\ Make!SearchSound
      /\ Sets!TypeOK /\ Sets!TreesAreSets /\ Sets!EndsAtCycle /\ Sets!FindIsShort
      /\ Walk!TypeOK /\ Walk!WalksReach /\ Walk!BreadthFirst /\ Walk!DepthFirst
      => GraphsSearched
  BY DEF GraphsSearched
<1> QED BY <1>1, <1>2, ForestIsSound, BuildIsOrdered, WalksAreInOrder, PTL
=============================================================================
