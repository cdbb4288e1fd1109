----------------------------- MODULE MCCounters -----------------------------
(***************************************************************************)
(* The programs whose threads add to shared numbers, and the bank whose    *)
(* balances add up, checked together: a run picks one of them, the others  *)
(* stay in their initial state.                                            *)
(***************************************************************************)
EXTENDS CasCounter, FiniteSetsExt, Integers,
        Sequences, FiniteSetTheorems, WellFoundedInduction, TLAPS

CONSTANTS None,
          Depositors, DepositAmount, Reader,             \* bank_account.c
          d1, d2, d3, d4, d5,                            \* the depositors checked
          Ta, Tb, Check, Start1, Start2, AmountA, AmountB, MaxSpurious,  \* deadlock_accounts.c
          Toggles,                                       \* mutex.c
          SumThreads, ChunkSize,                         \* aggregator.c, concurrent_sum.c
          mario, luis,                                   \* the customers checked
          BranchNames, Customers, Amounts, MaxBranches, MaxAccounts, MaxDeposits  \* banking.c

\* What each depositor adds.
MCDepositAmount ==
  [d \in {d1, d2, d3, d4, d5} |-> CASE d = d1 -> 240 [] d = d2 -> 360 [] d = d3 -> 1 [] OTHER -> 10]
AmountOf(d) == DepositAmount[d]

VARIABLES
  program,
  bMutex, bBalance, bLoaded, bPc, bJoined,
  xLockA, xLockB, xOnCompleted, xCompleted, xBalance, xPc, xReport, xSpurious,
  tMutex, tLog, tIsOn, tPc, tMain, tUser, tJoins, tReport, tLate,
  aKind, aMain, aCount, aPc, aAt, aPartial, aSums, aTotal, aReads,
  kPhase, kBranches, kCount, kDeposited, kPremium, kDeposits

Bank == INSTANCE Deposits WITH
  Amount <- AmountOf,
  mutex <- bMutex, balance <- bBalance, loaded <- bLoaded, pc <- bPc, joined <- bJoined
bankVars == <<bMutex, bBalance, bLoaded, bPc, bJoined>>

Swaps == INSTANCE Transfer WITH
  lock_A <- xLockA, lock_B <- xLockB, onCompleted <- xOnCompleted,
  completed <- xCompleted, balance <- xBalance, pc <- xPc, report <- xReport,
  spurious <- xSpurious
swapsVars == <<xLockA, xLockB, xOnCompleted, xCompleted, xBalance, xPc, xReport,
               xSpurious>>

Sensor == INSTANCE SensorToggles WITH
  mutex <- tMutex, log <- tLog, is_on <- tIsOn, pc <- tPc, main <- tMain,
  user1 <- tUser, joins <- tJoins, report <- tReport, late <- tLate
sensorVars == <<tMutex, tLog, tIsOn, tPc, tMain, tUser, tJoins, tReport, tLate>>

Split == INSTANCE SplitSums WITH
  Workers <- SumThreads, kind <- aKind, main <- aMain, count <- aCount,
  pc <- aPc, at <- aAt, partial <- aPartial, sums <- aSums, total <- aTotal,
  reads <- aReads
splitVars == <<aKind, aMain, aCount, aPc, aAt, aPartial, aSums, aTotal, aReads>>

Branches == INSTANCE Banking WITH
  Names <- BranchNames, phase <- kPhase, branches <- kBranches, branch_count <- kCount,
  deposited <- kDeposited, premium <- kPremium, deposits <- kDeposits
branchVars == <<kPhase, kBranches, kCount, kDeposited, kPremium, kDeposits>>

ASSUME BankAssumption == Bank!DepositAssumption
ASSUME SwapsAssumption == Swaps!TransferAssumption
ASSUME SensorAssumption == Sensor!SensorAssumption
ASSUME SplitAssumption == Split!SplitAssumption
ASSUME BranchesAssumption == Branches!BranchAssumption

suite == <<program, vars, bankVars, swapsVars, sensorVars, splitVars, branchVars>>

SuiteInit ==
  /\ program \in {"cas", "bank", "transfers", "sensor", "split", "branches"}
  /\ Init /\ Bank!Init /\ Swaps!Init /\ Sensor!Init /\ Split!Init /\ Branches!Init
  /\ program = "split" \/ aKind = "aggregator"  \* of no matter to the others

\* A program that was not picked does nothing.
SuiteNext ==
  /\ UNCHANGED program
  /\ \/ program = "cas" /\ Next
     \/ program # "cas" /\ UNCHANGED vars
  /\ \/ program = "bank" /\ Bank!Next
     \/ program # "bank" /\ UNCHANGED bankVars
  /\ \/ program = "transfers" /\ Swaps!Next
     \/ program # "transfers" /\ UNCHANGED swapsVars
  /\ \/ program = "sensor" /\ Sensor!Next
     \/ program # "sensor" /\ UNCHANGED sensorVars
  /\ \/ program = "split" /\ Split!Next
     \/ program # "split" /\ UNCHANGED splitVars
  /\ \/ program = "branches" /\ Branches!Next
     \/ program # "branches" /\ UNCHANGED branchVars

\* In the finite programs it is enough that some thread that can run does, but a
\* wakeup without a signal is never owed; the compare-and-swap may fail
\* spuriously, but not for ever.
SuiteSpec ==
  /\ SuiteInit /\ [][SuiteNext]_suite
  /\ \A w \in Workers : /\ WF_vars(program = "cas" /\ worker_loop(w))
                        /\ WF_vars(program = "cas" /\ Swap(w))
  /\ WF_suite(program \in {"bank", "sensor", "split"} /\ SuiteNext)
  /\ WF_swapsVars(/\ program = "transfers"
                  /\ Swaps!transfer_a_to_b \/ Swaps!transfer_b_to_a \/ Swaps!check_balance)
-----------------------------------------------------------------------------
(* No deposit under the mutex is lost and every one is an indivisible addition
   to its balance: deposit of multithreading/balance_race.c.                *)
DepositsImplementTally == [](Bank!TypeOK /\ Bank!LoadedIsFresh) /\ Bank!ImplementsTally

(* The counter of cas.c stays within its rounds.  Money is under way only while
   a transfer holds both locks, and what check_balance prints balances and has
   the second transfer in it, whatever the order of locks and signal:
   multithreading/deadlock_accounts.c.                                      *)
BooksBalance == TypeOK /\ Swaps!TypeOK /\ Swaps!MoneyConserved /\ Swaps!ReportConsistent

(* What a main prints after joins that miss threads, or race with them: the
   sensor of pthread/mutex.c and its log fit each other and lack at most the
   toggles of threads that were late, and its undefined behaviour comes from
   the handle all threads share; the totals of pthread/aggregator.c and
   multithreading/concurrent_sum.c are those of the whole list.             *)
ReportsTruthful ==
  /\ Sensor!TypeOK /\ Sensor!SwitchMatchesLog /\ Sensor!ReportHasLast
  /\ Sensor!UndefinedOnlyUnjoined
  /\ Split!TypeOK /\ Split!TotalIsSum /\ Split!EveryIndexOnce

(* However branch and customer names collide, find and find_customer lead to
   the first entry a caller added under that name or to none, identifiers
   count up, and the money of a branch is what was deposited there:
   multithreading/banking.c.                                                *)
BankSound == /\ Branches!TypeOK /\ Branches!FindFinds /\ Branches!ShadowedIsEmpty
             /\ Branches!IdsConsecutive /\ Branches!MoneyAccounted

(* The mains' joins return: the retries of the compare-and-swap end, the last
   depositor gets the mutex, transfers in opposite directions do not
   deadlock, and the sensor's program ends, if only by undefined behaviour. *)
MainsJoin == /\ program = "cas" => Termination
             /\ program = "bank" => Bank!Termination
             /\ program = "transfers" => Swaps!Termination
             /\ program = "sensor" => Sensor!Termination
             /\ program = "split" => Split!Termination
-----------------------------------------------------------------------------
(* Proofs. *)
(* cas.c, for every finite set of workers and every number of rounds: no     *)
(* increment is lost, and the retry loop implements the indivisible          *)
(* additions of Tally.                                                      *)

(* A worker at its exchange still has a round to complete.                  *)
RoundLeft == \A w \in Workers : pc[w] = "swap" => i[w] < Rounds

IndInv == TypeOK /\ RoundLeft /\ NoLostUpdate

Ops == Workers \X (1..Rounds)

(* The operations of all workers are finitely many, and so are those of
   worker_loop that are completed.                                          *)
LEMMA CompletedFinite == IsFiniteSet(Completed)
<1>1. IsFiniteSet(1..Rounds)
  BY RoundsAssumption, FS_Interval
<1>2. IsFiniteSet(Ops)
  BY <1>1, WorkersAssumption, FS_Product DEF Ops
<1> QED
  BY <1>2, FS_Subset DEF Completed, Ops

(* A successful exchange of worker_loop completes exactly one operation.    *)
LEMMA SwapCompletes ==
  ASSUME NEW w \in Workers, TypeOK, RoundLeft, Swap(w)
  PROVE  /\ <<w, i[w] + 1>> \in Ops \ Completed
         /\ Completed' = Completed \cup {<<w, i[w] + 1>>}
<1>1. i[w] \in 0..Rounds /\ i[w] < Rounds
  BY DEF Swap, TypeOK, RoundLeft
<1>2. <<w, i[w] + 1>> \in Ops
  BY <1>1, RoundsAssumption DEF Ops
<1>3. <<w, i[w] + 1>> \notin Completed
  BY <1>1, RoundsAssumption DEF Completed
<1>4. ASSUME NEW v \in Workers, NEW k \in 1..Rounds
      PROVE  k <= i'[v] <=> k <= i[v] \/ (v = w /\ k = i[w] + 1)
  <2>1. i'[v] = IF v = w THEN i[w] + 1 ELSE i[v]
    BY DEF Swap, TypeOK
  <2>2. i[v] \in 0..Rounds
    BY DEF TypeOK
  <2> QED
    BY <1>1, <2>1, <2>2, RoundsAssumption
<1> QED
  BY <1>2, <1>3, <1>4 DEF Completed, Ops

(* The counter starts at zero, with nothing completed.                      *)
LEMMA InitInd == Init => IndInv
<1> SUFFICES ASSUME Init PROVE IndInv
  OBVIOUS
<1>1. TypeOK /\ RoundLeft
  BY RoundsAssumption DEF Init, TypeOK, RoundLeft
<1>2. Completed = {}
  BY RoundsAssumption DEF Init, Completed
<1>3. NoLostUpdate
  BY <1>2, FS_EmptySet DEF Init, NoLostUpdate
<1> QED
  BY <1>1, <1>3 DEF IndInv

(* Every step of worker_loop but the successful exchange leaves the counter
   and the completed rounds alone.                                          *)
LEMMA QuietStep ==
  ASSUME NEW w \in Workers, IndInv, Load(w) \/ Fail(w) \/ Finish(w)
  PROVE  IndInv' /\ UNCHANGED <<counter, Completed>>
<1> USE DEF IndInv
<1>1. UNCHANGED <<counter, i>>
  BY DEF Load, Fail, Finish
<1>2. UNCHANGED Completed
  BY <1>1 DEF Completed
<1>3. NoLostUpdate'
  BY <1>1, <1>2 DEF NoLostUpdate
<1>4. TypeOK'
  BY <1>1 DEF TypeOK, Load, Fail, Finish, Reload
<1>5. RoundLeft'
  BY <1>1 DEF TypeOK, RoundLeft, Load, Fail, Finish, More
<1> QED
  BY <1>1, <1>2, <1>3, <1>4, <1>5

(* The successful exchange of worker_loop adds one to the counter and to
   what is completed.                                                       *)
LEMMA SwapStep ==
  ASSUME NEW w \in Workers, IndInv, Swap(w)
  PROVE  IndInv' /\ counter' = counter + 1
<1> USE DEF IndInv
<1>1. counter \in Nat /\ counter' = counter + 1
  BY DEF TypeOK, Swap, StillExpected
<1>2. TypeOK'
  <2>1. i[w] \in 0..Rounds /\ i[w] < Rounds
    BY DEF Swap, TypeOK, RoundLeft
  <2>2. i[w] + 1 \in 0..Rounds
    BY <2>1, RoundsAssumption
  <2> QED
    BY <1>1, <2>2 DEF TypeOK, Swap
<1>3. RoundLeft'
  BY DEF TypeOK, RoundLeft, Swap
<1>4. NoLostUpdate'
  <2>1. /\ <<w, i[w] + 1>> \notin Completed
        /\ Completed' = Completed \cup {<<w, i[w] + 1>>}
    BY SwapCompletes
  <2>2. Cardinality(Completed') = Cardinality(Completed) + 1
    BY <2>1, CompletedFinite, FS_AddElement
  <2> QED
    BY <1>1, <2>2 DEF NoLostUpdate
<1> QED
  BY <1>1, <1>2, <1>3, <1>4

(* IndInv is inductive for cas.c.                                           *)
THEOREM Inductive == Spec => []IndInv
<1>1. ASSUME IndInv, [Next]_vars PROVE IndInv'
  <2>1. CASE UNCHANGED vars
    <3>1. UNCHANGED Completed
      BY <2>1 DEF vars, Completed
    <3> QED
      BY <1>1, <2>1, <3>1 DEF vars, IndInv, TypeOK, RoundLeft, NoLostUpdate
  <2>2. ASSUME NEW w \in Workers, worker_loop(w) PROVE IndInv'
    BY <1>1, <2>2, QuietStep, SwapStep DEF worker_loop
  <2> QED
    BY <1>1, <2>1, <2>2 DEF Next, Terminated
<1> QED
  BY InitInd, <1>1, PTL DEF Spec

(* The counter of cas.c is the number of completed increments in every
   reachable state, for all numbers of workers and rounds.                  *)
THEOREM NoUpdateLost == Spec => []NoLostUpdate
<1>1. IndInv => NoLostUpdate
  BY DEF IndInv
<1> QED
  BY Inductive, <1>1, PTL

(* When main of cas.c has joined its workers the sum it prints is that of
   all their increments.                                                    *)
THEOREM SumIsComplete == Spec => []SumComplete
<1>1. DEFINE FinishedAll == \A w \in Workers : pc[w] = "done" => i[w] = Rounds
<1>2. Init => FinishedAll
  BY DEF Init
<1>3. IndInv /\ FinishedAll /\ [Next]_vars => FinishedAll'
  <2> SUFFICES ASSUME IndInv, FinishedAll, [Next]_vars PROVE FinishedAll'
    OBVIOUS
  <2>1. CASE UNCHANGED vars
    BY <2>1 DEF vars
  <2>2. ASSUME NEW w \in Workers, worker_loop(w) PROVE FinishedAll'
    <3>1. IndInv => i \in [Workers -> 0..Rounds] /\ pc \in [Workers -> {"load", "swap", "done"}]
      BY DEF IndInv, TypeOK
    <3> QED
      BY <2>2, <3>1, RoundsAssumption DEF worker_loop, Load, Swap, Fail, Finish, More
  <2> QED
    BY <2>1, <2>2 DEF Next, Terminated
<1>4. IndInv /\ FinishedAll => SumComplete
  <2> SUFFICES ASSUME IndInv, FinishedAll, Joined PROVE counter = Cardinality(Ops)
    BY DEF SumComplete, Ops
  <2>1. \A w \in Workers : i[w] = Rounds
    BY DEF Joined
  <2>2. Completed = Ops
    BY <2>1, RoundsAssumption DEF Completed, Ops
  <2> QED
    BY <2>2 DEF IndInv, NoLostUpdate
<1> HIDE DEF FinishedAll
<1> QED
  BY Inductive, <1>2, <1>3, <1>4, PTL DEF Spec

(* The load, exchange and retry of worker_loop implement an indivisible
   addition.                                                                *)
THEOREM RetryIsAtomic == Spec => ImplementsTally
<1>1. Init => Abstract!Init
  BY RoundsAssumption DEF Init, Abstract!Init, Completed
<1>2. IndInv /\ [Next]_vars => [Abstract!Next]_<<counter, Completed>>
  <2> SUFFICES ASSUME IndInv, [Next]_vars PROVE [Abstract!Next]_<<counter, Completed>>
    OBVIOUS
  <2>1. CASE UNCHANGED vars
    BY <2>1 DEF vars, Completed
  <2>2. ASSUME NEW w \in Workers, Swap(w) PROVE Abstract!Next
    <3>1. /\ <<w, i[w] + 1>> \in (Workers \X (1..Rounds)) \ Completed
          /\ Completed' = Completed \cup {<<w, i[w] + 1>>}
      BY <2>2, SwapCompletes DEF IndInv, Ops
    <3>2. counter' = counter + 1
      BY <2>2, SwapStep
    <3> QED
      BY <3>1, <3>2 DEF Abstract!Next, Abstract!Apply, One
  <2>3. ASSUME NEW w \in Workers, Load(w) \/ Fail(w) \/ Finish(w)
        PROVE  UNCHANGED <<counter, Completed>>
    BY <2>3, QuietStep
  <2> QED
    BY <2>1, <2>2, <2>3 DEF Next, Terminated, worker_loop
<1> QED
  BY Inductive, <1>1, <1>2, PTL DEF Spec, ImplementsTally, Abstract!Spec
-----------------------------------------------------------------------------
(* Sums over finite sets, as the folds that compute them. *)

(* Every nonempty family of subsets of a finite set has a smallest member.  *)
LEMMA SmallestSubset ==
  ASSUME NEW S, IsFiniteSet(S), NEW F \in SUBSET SUBSET S, F # {}
  PROVE  \E s \in F : \A t \in SUBSET s : t \in F => t = s
<1>1. IsWellFoundedOn(StrictSubsetOrdering(S), SUBSET S)
  BY FS_StrictSubsetOrderingWellFounded, FS_FiniteSubsetsOfFinite
<1>2. \E s \in F : \A t \in F : ~(<<t, s>> \in StrictSubsetOrdering(S))
  BY <1>1, WFMin
<1> QED
  BY <1>2 DEF StrictSubsetOrdering

\* The element a fold takes first, and a fold of v over s by the values g it has
\* for the smaller sets.
Some(s) == CHOOSE x \in s : TRUE
Folded(v, g, s) == IF s = {} THEN 0 ELSE v[Some(s)] + g[s \ {Some(s)}]
FoldOn(v, A) == CHOOSE g : g = [s \in SUBSET A |-> Folded(v, g, s)]
IsFold(v, g, A) == g = [s \in SUBSET A |-> Folded(v, g, s)]
SumOf(v, S) == MapThenSumSet(LAMBDA x : v[x], S)

(* The sum is what the fold over the set has for the set itself.            *)
LEMMA SumIsFold == ASSUME NEW v, NEW S PROVE SumOf(v, S) = FoldOn(v, S)[S]
  BY DEF SumOf, MapThenSumSet, MapThenFoldSet, FoldOn, Folded, Some

(* What is chosen first is a member.                                        *)
LEMMA SomeMember == ASSUME NEW s, s # {} PROVE Some(s) \in s
  BY DEF Some

(* Folds over two sets agree on what the sets share.                        *)
LEMMA FoldsAgree ==
  ASSUME NEW v, NEW A, NEW B, IsFiniteSet(A), NEW g, NEW h,
         IsFold(v, g, A), IsFold(v, h, B), NEW P, P \subseteq A, P \subseteq B
  PROVE  g[P] = h[P]
<1> DEFINE F == {s \in SUBSET A : s \subseteq B /\ g[s] # h[s]}
<1> SUFFICES ASSUME F # {} PROVE FALSE
  OBVIOUS
<1>1. PICK s \in F : \A t \in SUBSET s : t \in F => t = s
  <2>1. F \in SUBSET SUBSET A
    OBVIOUS
  <2> HIDE DEF F
  <2> QED BY <2>1, SmallestSubset
<1>2. g[s] = Folded(v, g, s) /\ h[s] = Folded(v, h, s)
  BY DEF IsFold
<1>3. CASE s = {}
  BY <1>1, <1>2, <1>3 DEF Folded
<1>4. CASE s # {}
  <2> DEFINE t == s \ {Some(s)}
  <2>1. t \in SUBSET s /\ t # s
    BY <1>4, SomeMember
  <2>2. g[t] = h[t]
    BY <1>1, <2>1
  <2> QED BY <1>1, <1>2, <1>4, <2>2 DEF Folded
<1> QED BY <1>3, <1>4

(* The fold over a finite set exists.                                       *)
LEMMA FoldExists ==
  ASSUME NEW v, NEW A, IsFiniteSet(A)
  PROVE  IsFold(v, FoldOn(v, A), A)
<1> DEFINE F == {B \in SUBSET A : ~IsFold(v, FoldOn(v, B), B)}
<1> SUFFICES ASSUME F # {} PROVE FALSE
  OBVIOUS
<1>1. PICK B \in F : \A t \in SUBSET B : t \in F => t = B
  <2>1. F \in SUBSET SUBSET A
    OBVIOUS
  <2> HIDE DEF F
  <2> QED BY <2>1, SmallestSubset
<1>a. B \subseteq A
  OBVIOUS
<1>2. \A P \in SUBSET B : P # B => IsFold(v, FoldOn(v, P), P)
  BY <1>1
<1> DEFINE G(s) == FoldOn(v, s)[s]
           g == [s \in SUBSET B |-> IF s = {} THEN 0 ELSE v[Some(s)] + G(s \ {Some(s)})]
<1>3. ASSUME NEW P \in SUBSET B, P # B PROVE g[P] = G(P)
  <2>0. IsFold(v, FoldOn(v, P), P)
    BY <1>2, <1>3
  <2>1. G(P) = Folded(v, FoldOn(v, P), P)
    BY <2>0 DEF IsFold
  <2>2. CASE P = {}
    BY <2>1, <2>2 DEF Folded
  <2>3. CASE P # {}
    <3> DEFINE Q == P \ {Some(P)}
    <3>1. Q \subseteq P /\ Q # P /\ Q \subseteq B /\ Q # B
      BY <2>3, SomeMember
    <3>2. IsFold(v, FoldOn(v, Q), Q)
      BY <1>2, <3>1
    <3>3. IsFiniteSet(P)
      BY <1>a, FS_Subset
    <3>4. FoldOn(v, P)[Q] = G(Q)
      <4> HIDE DEF Q
      <4> QED BY <2>0, <3>1, <3>2, <3>3, FoldsAgree
    <3>5. g[P] = v[Some(P)] + G(Q)
      BY <2>3
    <3> HIDE DEF Q, G, g
    <3>6. G(P) = v[Some(P)] + FoldOn(v, P)[Q]
      BY <2>1, <2>3 DEF Folded, Q
    <3> QED BY <3>4, <3>5, <3>6
  <2> QED BY <2>2, <2>3
<1>4. ASSUME NEW s \in SUBSET B PROVE g[s] = Folded(v, g, s)
  <2>1. CASE s = {}
    BY <2>1 DEF Folded
  <2>2. CASE s # {}
    <3> DEFINE Q == s \ {Some(s)}
    <3>1. Q \in SUBSET B /\ Q # B
      BY <2>2, SomeMember
    <3>2. g[Q] = G(Q)
      BY <1>3, <3>1
    <3>3. g[s] = v[Some(s)] + G(Q)
      BY <2>2
    <3> HIDE DEF g, G
    <3> QED BY <2>2, <3>2, <3>3 DEF Folded
  <2> QED BY <2>1, <2>2
<1>5. IsFold(v, g, B)
  <2>1. g = [s \in SUBSET B |-> g[s]]
    OBVIOUS
  <2> HIDE DEF g
  <2> QED BY <1>4, <2>1 DEF IsFold
<1>6. IsFold(v, FoldOn(v, B), B)
  <2> HIDE DEF g
  <2> QED BY <1>5 DEF IsFold, FoldOn
<1> QED BY <1>6

(* The sum over a set is the first member's value and the sum of the others. *)
LEMMA SumFirst ==
  ASSUME NEW v, NEW S, IsFiniteSet(S)
  PROVE  SumOf(v, S) = IF S = {} THEN 0 ELSE v[Some(S)] + SumOf(v, S \ {Some(S)})
<1> DEFINE Q == S \ {Some(S)}
<1>1. IsFold(v, FoldOn(v, S), S)
  BY FoldExists
<1>2. FoldOn(v, S)[S] = Folded(v, FoldOn(v, S), S)
  BY <1>1 DEF IsFold
<1>3. IsFiniteSet(Q)
  BY FS_Subset
<1>4. FoldOn(v, S)[Q] = FoldOn(v, Q)[Q]
  <2>1. IsFold(v, FoldOn(v, Q), Q)
    BY <1>3, FoldExists
  <2>2. Q \subseteq S
    OBVIOUS
  <2> HIDE DEF Q
  <2> QED BY <1>1, <2>1, <2>2, FoldsAgree
<1> QED
  BY <1>2, <1>4, SumIsFold DEF Folded

(* Sums of natural numbers are natural.                                     *)
LEMMA SumNat ==
  ASSUME NEW v, NEW S, IsFiniteSet(S), \A x \in S : v[x] \in Nat
  PROVE  SumOf(v, S) \in Nat
<1> DEFINE F == {s \in SUBSET S : SumOf(v, s) \notin Nat}
<1> SUFFICES ASSUME F # {} PROVE FALSE
  OBVIOUS
<1>1. PICK s \in F : \A t \in SUBSET s : t \in F => t = s
  <2>1. F \in SUBSET SUBSET S
    OBVIOUS
  <2> HIDE DEF F
  <2> QED BY <2>1, SmallestSubset
<1>2. SumOf(v, s) = IF s = {} THEN 0 ELSE v[Some(s)] + SumOf(v, s \ {Some(s)})
  BY SumFirst, FS_Subset
<1>3. s # {}
  BY <1>2
<1>4. Some(s) \in s
  BY <1>3, SomeMember
<1>5. s \ {Some(s)} \in SUBSET S /\ SumOf(v, s \ {Some(s)}) \in Nat
  BY <1>1, <1>4
<1>6. SumOf(v, s) \in Nat
  BY <1>2, <1>3, <1>4, <1>5
<1> QED BY <1>6

(* Any member may be taken first.                                           *)
LEMMA SumRemove ==
  ASSUME NEW v, NEW S, IsFiniteSet(S), \A x \in S : v[x] \in Nat, NEW d \in S
  PROVE  SumOf(v, S) = SumOf(v, S \ {d}) + v[d]
<1> DEFINE F == {s \in SUBSET S : \E e \in s : SumOf(v, s) # SumOf(v, s \ {e}) + v[e]}
<1> SUFFICES ASSUME F # {} PROVE FALSE
  OBVIOUS
<1>1. PICK s \in F : \A t \in SUBSET s : t \in F => t = s
  <2>1. F \in SUBSET SUBSET S
    OBVIOUS
  <2> HIDE DEF F
  <2> QED BY <2>1, SmallestSubset
<1>0. \A t \in SUBSET s : t # s => \A y \in t : SumOf(v, t) = SumOf(v, t \ {y}) + v[y]
  BY <1>1
<1>2. PICK e \in s : SumOf(v, s) # SumOf(v, s \ {e}) + v[e]
  OBVIOUS
<1> DEFINE x == Some(s)
           p == s \ {x}
           q == s \ {e}
           r == p \ {e}
<1>3. x \in s /\ p \in SUBSET s /\ p # s /\ q \in SUBSET s /\ q # s
  BY <1>2, SomeMember
<1>4. IsFiniteSet(s) /\ IsFiniteSet(p) /\ IsFiniteSet(q) /\ IsFiniteSet(r)
  BY FS_Subset
<1>5. SumOf(v, s) = v[x] + SumOf(v, p)
  BY <1>2, <1>4, SumFirst
<1>6. /\ v[x] \in Nat /\ v[e] \in Nat
      /\ SumOf(v, p) \in Nat /\ SumOf(v, q) \in Nat /\ SumOf(v, r) \in Nat
  BY <1>3, <1>4, SumNat
<1>7. CASE e = x
  <2>1. SumOf(v, s \ {e}) = SumOf(v, p)
    BY <1>7
  <2>2. v[e] = v[x]
    BY <1>7
  <2> HIDE DEF p, q, r, x
  <2> QED BY <1>2, <1>5, <1>6, <2>1, <2>2
<1>8. CASE e # x
  <2>0. e \in p /\ x \in q
    BY <1>3, <1>8
  <2> HIDE DEF F
  <2>1. SumOf(v, p) = SumOf(v, r) + v[e]
    BY <1>0, <1>3, <2>0
  <2>2. SumOf(v, q) = SumOf(v, q \ {x}) + v[x]
    BY <1>0, <1>3, <2>0
  <2>3. q \ {x} = r
    BY DEF q, r, p
  <2>4. SumOf(v, q) = SumOf(v, r) + v[x]
    BY <2>2, <2>3
  <2>5. SumOf(v, s) # SumOf(v, q) + v[e]
    BY <1>2 DEF q
  <2> HIDE DEF p, q, r, x
  <2> QED BY <1>5, <1>6, <2>1, <2>4, <2>5
<1> QED BY <1>7, <1>8

(* More elements, a larger sum.                                             *)
LEMMA SumMonotone ==
  ASSUME NEW v, NEW S, IsFiniteSet(S), \A x \in S : v[x] \in Nat, NEW R \in SUBSET S
  PROVE  SumOf(v, R) <= SumOf(v, S)
<1> DEFINE F == {s \in SUBSET S : R \subseteq s /\ ~(SumOf(v, R) <= SumOf(v, s))}
<1> SUFFICES ASSUME F # {} PROVE FALSE
  OBVIOUS
<1>1. PICK s \in F : \A t \in SUBSET s : t \in F => t = s
  <2>1. F \in SUBSET SUBSET S
    OBVIOUS
  <2> HIDE DEF F
  <2> QED BY <2>1, SmallestSubset
<1>2. IsFiniteSet(R) /\ IsFiniteSet(s)
  BY FS_Subset
<1>3. SumOf(v, R) \in Nat /\ SumOf(v, s) \in Nat
  BY <1>2, SumNat
<1>4. s # R
  BY <1>3
<1>5. PICK d \in s : d \notin R
  BY <1>4
<1>6. SumOf(v, s) = SumOf(v, s \ {d}) + v[d]
  BY <1>2, SumRemove
<1>7. SumOf(v, R) <= SumOf(v, s \ {d})
  BY <1>1, <1>5
<1>8. SumOf(v, s \ {d}) \in Nat /\ v[d] \in Nat
  BY <1>2, FS_Subset, SumNat
<1>9. ~(SumOf(v, R) <= SumOf(v, s))
  OBVIOUS
<1> HIDE DEF F
<1> QED BY <1>3, <1>6, <1>7, <1>8, <1>9

(* Sums of the same values are the same.                                    *)
LEMMA SumSame ==
  ASSUME NEW v, NEW w, NEW S, IsFiniteSet(S), \A x \in S : v[x] = w[x]
  PROVE  SumOf(v, S) = SumOf(w, S)
<1> DEFINE F == {s \in SUBSET S : SumOf(v, s) # SumOf(w, s)}
<1> SUFFICES ASSUME F # {} PROVE FALSE
  OBVIOUS
<1>1. PICK s \in F : \A t \in SUBSET s : t \in F => t = s
  <2>1. F \in SUBSET SUBSET S
    OBVIOUS
  <2> HIDE DEF F
  <2> QED BY <2>1, SmallestSubset
<1>2. s \in SUBSET S /\ SumOf(v, s) # SumOf(w, s)
  OBVIOUS
<1>3. IsFiniteSet(s)
  BY <1>2, FS_Subset
<1>4. /\ SumOf(v, s) = IF s = {} THEN 0 ELSE v[Some(s)] + SumOf(v, s \ {Some(s)})
      /\ SumOf(w, s) = IF s = {} THEN 0 ELSE w[Some(s)] + SumOf(w, s \ {Some(s)})
  BY <1>3, SumFirst
<1>5. s # {}
  BY <1>2, <1>4
<1>6. Some(s) \in s /\ v[Some(s)] = w[Some(s)]
  BY <1>2, <1>5, SomeMember
<1>7. SumOf(v, s \ {Some(s)}) = SumOf(w, s \ {Some(s)})
  BY <1>1, <1>2, <1>6
<1> QED BY <1>2, <1>4, <1>5, <1>6, <1>7

(* One value changes, the sum changes by as much.                           *)
LEMMA SumChanges ==
  ASSUME NEW v, NEW w, NEW S, IsFiniteSet(S), NEW d \in S, NEW a \in Nat,
         \A x \in S : v[x] \in Nat, \A x \in S \ {d} : w[x] = v[x], w[d] = v[d] + a
  PROVE  SumOf(w, S) = SumOf(v, S) + a
<1>1. \A x \in S : w[x] \in Nat
  OBVIOUS
<1>2. SumOf(v, S) = SumOf(v, S \ {d}) + v[d] /\ SumOf(w, S) = SumOf(w, S \ {d}) + w[d]
  BY <1>1, SumRemove
<1>3. IsFiniteSet(S \ {d})
  BY FS_RemoveElement
<1>4. SumOf(v, S \ {d}) = SumOf(w, S \ {d}) /\ SumOf(v, S \ {d}) \in Nat
  BY <1>3, SumSame, SumNat
<1>5. PICK r \in Nat, b \in Nat : r = SumOf(v, S \ {d}) /\ b = v[d]
  BY <1>4
<1> QED BY <1>2, <1>4, <1>5

(* One more member adds its value.                                          *)
LEMMA SumGrows ==
  ASSUME NEW v, NEW w, NEW S, IsFiniteSet(S), NEW d, d \notin S, w[d] \in Nat,
         \A x \in S : v[x] \in Nat /\ w[x] = v[x]
  PROVE  SumOf(w, S \cup {d}) = SumOf(v, S) + w[d]
<1>1. IsFiniteSet(S \cup {d}) /\ \A x \in S \cup {d} : w[x] \in Nat
  BY FS_AddElement
<1>2. (S \cup {d}) \ {d} = S
  OBVIOUS
<1>3. SumOf(w, S \cup {d}) = SumOf(w, (S \cup {d}) \ {d}) + w[d]
  BY <1>1, SumRemove
<1>4. SumOf(w, S) = SumOf(v, S)
  BY SumSame
<1> QED BY <1>2, <1>3, <1>4
-----------------------------------------------------------------------------
(* The deposits under the mutex. *)

\* Who is between its lock and its unlock holds the mutex.
AccountLocked ==
  /\ \A d \in Depositors : bPc[d] \in {"load", "store", "unlock"} => bMutex = d
  /\ bPc[Reader] = "unlock" => bMutex = Reader

\* The balance is the sum of what was stored.
BalanceIsSum == bBalance = SumOf(DepositAmount, Bank!Stored)

BankInd == Bank!TypeOK /\ AccountLocked /\ BalanceIsSum /\ Bank!LoadedIsFresh

(* The sum of the deposits is that of their amounts.                        *)
LEMMA BankSum == ASSUME NEW S PROVE Bank!Sum(S) = SumOf(DepositAmount, S)
  BY DEF Bank!Sum, SumOf, AmountOf, MapThenSumSet, MapThenFoldSet, Bank!MapThenSumSet,
         Bank!MapThenFoldSet

(* The assumptions about the depositors.                                    *)
LEMMA BankFacts ==
  /\ IsFiniteSet(Depositors) /\ \A d \in Depositors : DepositAmount[d] \in Nat
  /\ Reader \notin Depositors /\ None \notin Depositors /\ None # Reader
  BY BankAssumption DEF Bank!DepositAssumption, AmountOf, Bank!IsFiniteSet, IsFiniteSet

(* What was stored never exceeds all the deposits.                          *)
LEMMA BankBound ==
  ASSUME NEW S \in SUBSET Depositors
  PROVE  /\ SumOf(DepositAmount, S) \in 0..Bank!Sum(Depositors)
         /\ Bank!Sum(Depositors) \in Nat
  <1>1. IsFiniteSet(S)
    BY BankFacts, FS_Subset
  <1>2. SumOf(DepositAmount, S) \in Nat /\ SumOf(DepositAmount, Depositors) \in Nat
    BY <1>1, BankFacts, SumNat
  <1>3. SumOf(DepositAmount, S) <= SumOf(DepositAmount, Depositors)
    BY BankFacts, SumMonotone
  <1> QED BY <1>2, <1>3, BankSum

(* The account is opened empty.                                             *)
LEMMA BankInit == Bank!Init => BankInd
  <1> SUFFICES ASSUME Bank!Init PROVE BankInd
    OBVIOUS
  <1> USE DEF Bank!Init, Bank!Threads
  <1>1. Bank!Stored = {}
    BY BankFacts DEF Bank!Stored
  <1>2. BalanceIsSum
    BY <1>1, SumFirst, FS_EmptySet DEF BalanceIsSum
  <1>3. Bank!TypeOK
    <2>1. 0 \in 0..Bank!Sum(Depositors)
      BY BankBound
    <2> QED BY <2>1, BankFacts DEF Bank!TypeOK
  <1>4. AccountLocked /\ Bank!LoadedIsFresh
    BY BankFacts DEF AccountLocked, Bank!LoadedIsFresh
  <1> QED BY <1>2, <1>3, <1>4 DEF BankInd

(* A depositor's load is fresh until its store, which adds its amount.      *)
LEMMA DepositStep ==
  ASSUME NEW d \in Depositors, BankInd, Bank!deposit(d)
  PROVE  /\ BankInd'
         /\ \/ UNCHANGED <<bBalance, Bank!Stored>>
            \/ /\ d \notin Bank!Stored /\ Bank!Stored' = Bank!Stored \cup {d}
               /\ bBalance' = bBalance + DepositAmount[d]
  <1> USE BankFacts DEF BankInd, Bank!Goto
  <1>a. bPc \in [Bank!Threads -> {"unborn", "lock", "load", "store", "unlock", "done"}]
        /\ d \in Bank!Threads /\ Reader \in Bank!Threads /\ Depositors \subseteq Bank!Threads
        /\ d # Reader
    BY DEF Bank!TypeOK, Bank!Threads
  <1>1. CASE Bank!LockAccount(d)
    <2> USE <1>1 DEF Bank!LockAccount, Bank!Enter, Bank!Lock
    <2>1. Bank!Stored' = Bank!Stored /\ bBalance' = bBalance
      BY <1>a DEF Bank!Stored
    <2>2. Bank!TypeOK'
      BY <1>a DEF Bank!TypeOK
    <2>3. AccountLocked'
      BY <1>a DEF AccountLocked
    <2>4. BalanceIsSum' /\ Bank!LoadedIsFresh'
      BY <1>a, <2>1 DEF BalanceIsSum, Bank!LoadedIsFresh
    <2> QED BY <2>1, <2>2, <2>3, <2>4
  <1>2. CASE Bank!LoadBalance(d)
    <2> USE <1>2 DEF Bank!LoadBalance
    <2>1. Bank!Stored' = Bank!Stored /\ bBalance' = bBalance
      BY <1>a DEF Bank!Stored
    <2>2. Bank!TypeOK'
      BY <1>a DEF Bank!TypeOK
    <2>3. AccountLocked'
      BY <1>a DEF AccountLocked
    <2>4. BalanceIsSum' /\ Bank!LoadedIsFresh'
      BY <1>a, <2>1 DEF BalanceIsSum, Bank!LoadedIsFresh, Bank!TypeOK
    <2> QED BY <2>1, <2>2, <2>3, <2>4
  <1>3. CASE Bank!StoreBalance(d)
    <2> USE <1>3 DEF Bank!StoreBalance
    <2>1. d \notin Bank!Stored /\ Bank!Stored' = Bank!Stored \cup {d}
      BY <1>a DEF Bank!Stored
    <2>2. bBalance' = bBalance + DepositAmount[d]
      BY DEF Bank!NewBalance, Bank!LoadedIsFresh, AmountOf
    <2>3. BalanceIsSum'
      <3> DEFINE S == Bank!Stored \cup {d}
      <3>1. IsFiniteSet(S) /\ \A x \in S : DepositAmount[x] \in Nat
        BY FS_Subset DEF Bank!Stored
      <3>2. SumOf(DepositAmount, S) = SumOf(DepositAmount, S \ {d}) + DepositAmount[d]
        BY <3>1, SumRemove
      <3>3. S \ {d} = Bank!Stored
        BY <2>1
      <3> QED BY <2>1, <2>2, <3>2, <3>3 DEF BalanceIsSum
    <2>4. Bank!TypeOK'
      <3>1. Bank!Stored' \subseteq Depositors
        BY <2>1 DEF Bank!Stored
      <3>2. bBalance' \in 0..Bank!Sum(Depositors)
        BY <2>3, <3>1, BankBound DEF BalanceIsSum
      <3> QED BY <1>a, <3>2 DEF Bank!TypeOK
    <2>5. AccountLocked'
      BY <1>a DEF AccountLocked
    <2>6. Bank!LoadedIsFresh'
      BY <1>a DEF Bank!LoadedIsFresh, AccountLocked
    <2> QED BY <2>1, <2>2, <2>3, <2>4, <2>5, <2>6
  <1>4. CASE Bank!UnlockAccount(d)
    <2> USE <1>4 DEF Bank!UnlockAccount, Bank!Leave
    <2>1. Bank!Stored' = Bank!Stored /\ bBalance' = bBalance
      BY <1>a DEF Bank!Stored
    <2>2. Bank!TypeOK'
      BY <1>a DEF Bank!TypeOK
    <2>3. AccountLocked'
      BY <1>a DEF AccountLocked
    <2>4. BalanceIsSum' /\ Bank!LoadedIsFresh'
      BY <1>a, <2>1 DEF BalanceIsSum, Bank!LoadedIsFresh
    <2> QED BY <2>1, <2>2, <2>3, <2>4
  <1> QED BY <1>1, <1>2, <1>3, <1>4 DEF Bank!deposit

(* main's joins and user_balance change no money.                           *)
LEMMA ReaderStep ==
  ASSUME BankInd, Bank!JoinDepositors \/ Bank!user_balance \/ UNCHANGED Bank!vars
  PROVE  BankInd' /\ UNCHANGED <<bBalance, Bank!Stored>>
  <1> USE BankFacts DEF BankInd, Bank!JoinDepositors, Bank!user_balance, Bank!GetBalance,
          Bank!Goto, Bank!Lock, Bank!Unlock, Bank!vars
  <1>a. bPc \in [Bank!Threads -> {"unborn", "lock", "load", "store", "unlock", "done"}]
        /\ Reader \in Bank!Threads /\ Depositors \subseteq Bank!Threads
    BY DEF Bank!TypeOK, Bank!Threads
  <1>b. \A d \in Depositors : bPc'[d] = bPc[d]
    BY <1>a
  <1>1. Bank!Stored' = Bank!Stored /\ bBalance' = bBalance /\ bLoaded' = bLoaded
    BY <1>b DEF Bank!Stored
  <1>2. Bank!TypeOK'
    BY <1>a DEF Bank!TypeOK
  <1>3. AccountLocked'
    BY <1>a DEF AccountLocked
  <1>4. BalanceIsSum' /\ Bank!LoadedIsFresh'
    BY <1>b, <1>1 DEF BalanceIsSum, Bank!LoadedIsFresh
  <1> QED BY <1>1, <1>2, <1>3, <1>4

(* The load and the store of a deposit under the mutex are one indivisible
   addition, for any finite set of depositors and any amounts.              *)
THEOREM DepositIsAtomic == Bank!Spec => DepositsImplementTally
  <1>1. BankInd /\ [Bank!Next]_(Bank!vars) => BankInd'
    BY DepositStep, ReaderStep DEF Bank!Next, Bank!Terminated
  <1>2. Bank!Init => Bank!Abstract!Init
    <2> SUFFICES ASSUME Bank!Init PROVE bBalance = 0 /\ Bank!Stored = {}
      BY DEF Bank!Abstract!Init
    <2> QED BY BankFacts DEF Bank!Init, Bank!Stored, Bank!Threads
  <1>3. BankInd /\ [Bank!Next]_(Bank!vars) => [Bank!Abstract!Next]_<<bBalance, Bank!Stored>>
    <2> SUFFICES ASSUME BankInd, [Bank!Next]_(Bank!vars)
                 PROVE  [Bank!Abstract!Next]_<<bBalance, Bank!Stored>>
      OBVIOUS
    <2>1. ASSUME NEW d \in Depositors, Bank!deposit(d)
          PROVE  [Bank!Abstract!Next]_<<bBalance, Bank!Stored>>
      BY <2>1, DepositStep
      DEF Bank!Abstract!Next, Bank!Abstract!Apply, Bank!Plus, AmountOf
    <2> QED BY <2>1, ReaderStep DEF Bank!Next, Bank!Terminated
  <1>4. BankInd => Bank!TypeOK /\ Bank!LoadedIsFresh
    BY DEF BankInd
  <1> QED
    BY <1>1, <1>2, <1>3, <1>4, BankInit, PTL
    DEF Bank!Spec, DepositsImplementTally, Bank!ImplementsTally, Bank!Abstract!Spec
-----------------------------------------------------------------------------
(* The opposite transfers. *)

\* How far a transfer has got: its places with the first mutex, with both, after
\* the debit and after the credit.
HasFirst == {"second", "debit", "credit", "unlockB", "unlockA"}
HasBoth == {"debit", "credit", "unlockB"}
Debited == {"credit", "unlockB", "unlockA", "signal", "done"}
Credited == {"unlockB", "unlockA", "signal", "done"}

LocksHeld ==
  /\ \A t \in {Ta, Tb} : /\ xPc[t] \in HasFirst <=> xLockA = t
                         /\ xPc[t] \in HasBoth <=> xLockB = t
                         /\ xPc[t] \in {"first"} \cup HasFirst \cup Credited
  /\ xPc[Check] \in {"first", "test", "wait", "unlock", "done"}
  /\ xPc[Check] \in {"test", "unlock"} <=> xLockB = Check

\* The balances are those main opened the accounts with, less what was debited
\* and with what was credited; the second transfer is marked with its credit.
MovedAmounts ==
  /\ xBalance[1] = (IF xPc[Ta] \in Debited THEN Start1 - AmountA ELSE Start1)
                   + (IF xPc[Tb] \in Credited THEN AmountB ELSE 0)
  /\ xBalance[2] = (IF xPc[Tb] \in Debited THEN Start2 - AmountB ELSE Start2)
                   + (IF xPc[Ta] \in Credited THEN AmountA ELSE 0)
  /\ xCompleted <=> xPc[Tb] \in Credited

SwapsInd == Swaps!TypeOK /\ LocksHeld /\ MovedAmounts /\ Swaps!ReportConsistent

(* The members of an interval, whatever its name.                           *)
LEMMA InRange ==
  ASSUME NEW m \in Int, NEW S, S = 0..m
  PROVE  \A n : n \in S <=> n \in Int /\ 0 <= n /\ n <= m
  BY SMT

(* What fits into a uint16_t is kept by one.                                *)
LEMMA Fits ==
  ASSUME NEW n
  PROVE  n \in Swaps!UInt16 <=> n \in Int /\ 0 <= n /\ n <= 65535
  <1> DEFINE largest == 65535
  <1>1. Swaps!UInt16 = 0..largest /\ largest \in Int
    BY DEF Swaps!UInt16
  <1>2. n \in Swaps!UInt16 <=> n \in Int /\ 0 <= n /\ n <= largest
    <2> HIDE DEF largest
    <2> QED BY <1>1, InRange
  <1> QED BY <1>2

(* So the wrapped sum is the sum.                                           *)
LEMMA WrappedFits ==
  ASSUME NEW n \in Swaps!UInt16
  PROVE  n \in Nat /\ Swaps!Wrapped(n) = n
  <1>1. n \in Nat /\ n <= 65535
    BY Fits
  <1>2. n \in Nat /\ n <= 65535 => Swaps!Wrapped(n) = n
    BY SMT DEF Swaps!Wrapped
  <1> QED BY <1>1, <1>2

SwapPlaces == {"first", "second", "debit", "credit", "unlockB", "unlockA", "signal",
               "test", "wait", "unlock", "done"}

(* The threads, their places and the balances.                              *)
LEMMA SwapsTyped ==
  /\ Ta \in Swaps!Threads /\ Tb \in Swaps!Threads /\ Check \in Swaps!Threads
  /\ Ta # Tb /\ Ta # Check /\ Tb # Check
  /\ Swaps!TypeOK => /\ xPc \in [Swaps!Threads -> SwapPlaces]
                      /\ xBalance \in [{1, 2} -> Swaps!UInt16] /\ xCompleted \in BOOLEAN
  <1>1. /\ Ta \in Swaps!Threads /\ Tb \in Swaps!Threads /\ Check \in Swaps!Threads
        /\ Ta # Tb /\ Ta # Check /\ Tb # Check
    BY SwapsAssumption DEF Swaps!TransferAssumption, Swaps!Threads, Swaps!Movers
  <1> QED BY <1>1 DEF Swaps!TypeOK, SwapPlaces

(* Part of a sum that fits does so as well.                                 *)
LEMMA PartFits ==
  ASSUME NEW m \in Nat, NEW n \in Nat, m + n \in Swaps!UInt16
  PROVE  m \in Swaps!UInt16 /\ n \in Swaps!UInt16
  BY Fits

(* main opens the accounts with their first balances.                       *)
LEMMA SwapsInit == Swaps!Init => SwapsInd
  <1> SUFFICES ASSUME Swaps!Init PROVE SwapsInd
    OBVIOUS
  <1>0. Start1 \in Swaps!UInt16 /\ Start2 \in Swaps!UInt16
    BY SwapsAssumption, PartFits DEF Swaps!TransferAssumption
  <1> USE SwapsAssumption DEF Swaps!TransferAssumption, Swaps!Init
  <1>1. xBalance \in [{1, 2} -> Swaps!UInt16] /\ xBalance[1] = Start1 /\ xBalance[2] = Start2
    <2>1. xBalance = <<Start1, Start2>>
      OBVIOUS
    <2>2. 1..2 = {1, 2}
      OBVIOUS
    <2>3. <<Start1, Start2>> \in [1..2 -> Swaps!UInt16]
      BY <1>0
    <2>4. <<Start1, Start2>>[1] = Start1 /\ <<Start1, Start2>>[2] = Start2
      OBVIOUS
    <2>5. <<Start1, Start2>> \in [{1, 2} -> Swaps!UInt16]
      BY <2>2, <2>3
    <2> QED BY <2>1, <2>4, <2>5
  <1>2. \A t \in {Ta, Tb, Check} : xPc[t] = "first"
    BY SwapsTyped
  <1>3. Swaps!TypeOK
    <2>1. xPc \in [Swaps!Threads -> SwapPlaces]
      BY DEF SwapPlaces
    <2>2. xReport \in {<<>>} \cup [{1, 2} -> Swaps!UInt16]
      OBVIOUS
    <2>3. xLockA = None /\ xLockB = None /\ xOnCompleted = {} /\ xCompleted = FALSE /\ xSpurious \in 0..MaxSpurious
      OBVIOUS
    <2> HIDE DEF Swaps!Init
    <2> QED BY <1>1, <2>1, <2>2, <2>3 DEF Swaps!TypeOK, SwapPlaces
  <1>4. LocksHeld
    BY <1>2 DEF LocksHeld, HasFirst, HasBoth, Credited
  <1>5. MovedAmounts
    <2>1. xPc[Ta] \notin Debited \cup Credited /\ xPc[Tb] \notin Debited \cup Credited
      BY <1>2 DEF Debited, Credited
    <2> QED BY <1>1, <2>1 DEF MovedAmounts
  <1>6. Swaps!ReportConsistent
    BY DEF Swaps!ReportConsistent
  <1> QED BY <1>3, <1>4, <1>5, <1>6 DEF SwapsInd

(* With lock_B free, or held by the check, no money is under way.           *)
LEMMA SwapsConserve == SwapsInd => Swaps!MoneyConserved
  <1> SUFFICES ASSUME SwapsInd, xLockB \notin {Ta, Tb} PROVE Swaps!Conserved(xBalance)
    BY DEF Swaps!MoneyConserved, Swaps!Movers
  <1>1. \A t \in {Ta, Tb} : xPc[t] \notin HasBoth
    BY DEF SwapsInd, LocksHeld
  <1>2. \A t \in {Ta, Tb} : xPc[t] \in Debited <=> xPc[t] \in Credited
    BY <1>1 DEF HasBoth, Debited, Credited
  <1> QED
    BY <1>2, SwapsAssumption
    DEF SwapsInd, MovedAmounts, Swaps!Conserved, Swaps!TransferAssumption

(* No account ever holds more than all the money.                           *)
LEMMA BalancesFit ==
  /\ AmountA \in Nat /\ AmountB \in Nat /\ Start1 \in Nat /\ Start2 \in Nat
  /\ {Start1 - AmountA, Start1 + AmountB, Start1 - AmountA + AmountB} \subseteq Swaps!UInt16
  /\ {Start2 - AmountB, Start2 + AmountA, Start2 - AmountB + AmountA} \subseteq Swaps!UInt16
  <1>1. /\ AmountA \in Nat /\ AmountB \in Nat /\ Start1 \in Nat /\ Start2 \in Nat
        /\ AmountA <= Start1 /\ AmountB <= Start2
    BY SwapsAssumption DEF Swaps!TransferAssumption
  <1>2. Start1 + Start2 <= 65535
    BY <1>1, SwapsAssumption, Fits DEF Swaps!TransferAssumption
  <1>3. /\ Start1 - AmountA \in Swaps!UInt16 /\ Start1 + AmountB \in Swaps!UInt16
        /\ Start1 - AmountA + AmountB \in Swaps!UInt16
    BY <1>1, <1>2, Fits
  <1>4. /\ Start2 - AmountB \in Swaps!UInt16 /\ Start2 + AmountA \in Swaps!UInt16
        /\ Start2 - AmountB + AmountA \in Swaps!UInt16
    BY <1>1, <1>2, Fits
  <1> QED BY <1>1, <1>3, <1>4

(* The first half of a transfer: its locks.                                 *)
LEMMA TransferLocks ==
  ASSUME NEW t \in {Ta, Tb}, SwapsInd, Swaps!LockFirst(t) \/ Swaps!LockSecond(t)
  PROVE  SwapsInd'
  <1> USE SwapsAssumption
      DEF Swaps!TransferAssumption, SwapsInd, Swaps!LockFirst, Swaps!LockSecond,
          Swaps!LockNamed, Swaps!First, Swaps!Goto, Swaps!Lock
  <1>a. xPc \in [Swaps!Threads -> SwapPlaces]
    BY SwapsTyped
  <1>1. Swaps!TypeOK'
    BY <1>a, SwapsTyped DEF Swaps!TypeOK, Swaps!Movers, SwapPlaces
  <1>2. LocksHeld'
    BY <1>a, SwapsTyped DEF LocksHeld, HasFirst, HasBoth, Credited
  <1>3. MovedAmounts'
    BY <1>a, SwapsTyped DEF MovedAmounts, Debited, Credited
  <1>4. Swaps!ReportConsistent'
    BY DEF Swaps!ReportConsistent, Swaps!Conserved
  <1> QED BY <1>1, <1>2, <1>3, <1>4

(* The debit and the credit, which stay within the uint16_t.                *)
LEMMA TransferMoves ==
  ASSUME NEW t \in {Ta, Tb}, SwapsInd, Swaps!Debit(t) \/ Swaps!Credit(t)
  PROVE  SwapsInd'
  <1> USE SwapsAssumption DEF Swaps!TransferAssumption, SwapsInd
  <1>a. /\ xPc \in [Swaps!Threads -> SwapPlaces]
        /\ xBalance \in [{1, 2} -> Swaps!UInt16] /\ xCompleted \in BOOLEAN
    BY SwapsTyped
  <1>1. CASE Swaps!Debit(t)
    <2> DEFINE o == Swaps!Origin(t)
               left == xBalance[o] - Swaps!Amount(t)
    <2>1. /\ xPc[t] = "debit" /\ xPc' = [xPc EXCEPT ![t] = "credit"]
          /\ xBalance' = [xBalance EXCEPT ![o] = Swaps!Wrapped(left)]
          /\ UNCHANGED <<xLockA, xLockB, xOnCompleted, xCompleted, xReport, xSpurious>>
      BY <1>1 DEF Swaps!Debit, Swaps!Goto
    <2>2. left \in Swaps!UInt16
      <3>1. CASE t = Ta
        <4>1. o = 1 /\ Swaps!Amount(t) = AmountA
          BY <3>1 DEF Swaps!Origin, Swaps!Amount
        <4>2. xBalance[1] = Start1 + (IF xPc[Tb] \in Credited THEN AmountB ELSE 0)
          BY <2>1, <3>1 DEF MovedAmounts, Debited
        <4>3. left = Start1 - AmountA \/ left = Start1 - AmountA + AmountB
          BY <4>1, <4>2, BalancesFit
        <4> QED BY <4>3, BalancesFit
      <3>2. CASE t = Tb
        <4>1. o = 2 /\ Swaps!Amount(t) = AmountB
          BY <3>2, SwapsTyped DEF Swaps!Origin, Swaps!Amount
        <4>2. xBalance[2] = Start2 + (IF xPc[Ta] \in Credited THEN AmountA ELSE 0)
          BY <2>1, <3>2 DEF MovedAmounts, Debited
        <4>3. left = Start2 - AmountB \/ left = Start2 - AmountB + AmountA
          BY <4>1, <4>2, BalancesFit
        <4> QED BY <4>3, BalancesFit
      <3> QED BY <3>1, <3>2
    <2>3. xBalance' = [xBalance EXCEPT ![o] = left]
      <3> HIDE DEF left
      <3> QED BY <2>1, <2>2, WrappedFits
    <2>o. o \in {1, 2}
      BY DEF Swaps!Origin
    <2>4. Swaps!TypeOK'
      <3>1. xBalance' \in [{1, 2} -> Swaps!UInt16]
        <4> HIDE DEF left, o
        <4> QED BY <1>a, <2>2, <2>3, <2>o
      <3> HIDE DEF left, o
      <3> QED BY <2>1, <3>1 DEF Swaps!TypeOK, SwapPlaces
    <2>5. LocksHeld'
      <3> HIDE DEF left, o
      <3> QED BY <1>a, SwapsTyped, <2>1 DEF LocksHeld, HasFirst, HasBoth, Credited
    <2>6. MovedAmounts'
      <3>1. xBalance'[o] = xBalance[o] - Swaps!Amount(t) /\ xBalance'[3 - o] = xBalance[3 - o]
        BY <1>a, <2>3, <2>o
      <3>2. \A u \in {Ta, Tb} : xPc'[u] = IF u = t THEN "credit" ELSE xPc[u]
        BY <1>a, <2>1, SwapsTyped
      <3> QED
        BY <1>a, SwapsTyped, <2>1, <3>1, <3>2
        DEF MovedAmounts, Debited, Credited, Swaps!Origin, Swaps!Amount
    <2>7. Swaps!ReportConsistent'
      BY <2>1 DEF Swaps!ReportConsistent, Swaps!Conserved
    <2> QED BY <2>4, <2>5, <2>6, <2>7
  <1>2. CASE Swaps!Credit(t)
    <2> DEFINE o == Swaps!Destination(t)
               filled == xBalance[o] + Swaps!Amount(t)
    <2>1. /\ xPc[t] = "credit" /\ xPc' = [xPc EXCEPT ![t] = "unlockB"]
          /\ xBalance' = [xBalance EXCEPT ![o] = Swaps!Wrapped(filled)]
          /\ xCompleted' = (xCompleted \/ t = Tb)
          /\ UNCHANGED <<xLockA, xLockB, xOnCompleted, xReport, xSpurious>>
      BY <1>2 DEF Swaps!Credit, Swaps!Goto
    <2>2. filled \in Swaps!UInt16
      <3>1. CASE t = Ta
        <4>1. o = 2 /\ Swaps!Amount(t) = AmountA
          BY <3>1 DEF Swaps!Destination, Swaps!Origin, Swaps!Amount
        <4>2. xBalance[2] = IF xPc[Tb] \in Debited THEN Start2 - AmountB ELSE Start2
          BY <2>1, <3>1, BalancesFit DEF MovedAmounts, Credited
        <4>3. filled = Start2 + AmountA \/ filled = Start2 - AmountB + AmountA
          BY <4>1, <4>2, BalancesFit
        <4> QED BY <4>3, BalancesFit
      <3>2. CASE t = Tb
        <4>1. o = 1 /\ Swaps!Amount(t) = AmountB
          BY <3>2, SwapsTyped DEF Swaps!Destination, Swaps!Origin, Swaps!Amount
        <4>2. xBalance[1] = IF xPc[Ta] \in Debited THEN Start1 - AmountA ELSE Start1
          BY <2>1, <3>2, BalancesFit DEF MovedAmounts, Credited
        <4>3. filled = Start1 + AmountB \/ filled = Start1 - AmountA + AmountB
          BY <4>1, <4>2, BalancesFit
        <4> QED BY <4>3, BalancesFit
      <3> QED BY <3>1, <3>2
    <2>3. xBalance' = [xBalance EXCEPT ![o] = filled]
      <3> HIDE DEF filled
      <3> QED BY <2>1, <2>2, WrappedFits
    <2>o. o \in {1, 2}
      BY DEF Swaps!Origin, Swaps!Destination
    <2>4. Swaps!TypeOK'
      <3>1. xBalance' \in [{1, 2} -> Swaps!UInt16]
        <4> HIDE DEF filled, o
        <4> QED BY <1>a, <2>2, <2>3, <2>o
      <3>2. xCompleted' \in BOOLEAN
        BY <2>1
      <3> HIDE DEF filled, o
      <3> QED BY <2>1, <3>1, <3>2 DEF Swaps!TypeOK, SwapPlaces
    <2>5. LocksHeld'
      <3> HIDE DEF filled, o
      <3> QED BY <1>a, SwapsTyped, <2>1 DEF LocksHeld, HasFirst, HasBoth, Credited
    <2>6. MovedAmounts'
      <3>1. xBalance'[o] = xBalance[o] + Swaps!Amount(t) /\ xBalance'[3 - o] = xBalance[3 - o]
        BY <1>a, <2>3, <2>o
      <3>2. \A u \in {Ta, Tb} : xPc'[u] = IF u = t THEN "unlockB" ELSE xPc[u]
        BY <1>a, <2>1, SwapsTyped
      <3> HIDE DEF filled, o
      <3>3. CASE t = Ta
        <4>1. o = 2 /\ Swaps!Amount(t) = AmountA
          BY <3>3 DEF o, Swaps!Destination, Swaps!Origin, Swaps!Amount
        <4>2. xPc[Ta] \in Debited \ Credited /\ xPc'[Ta] \in Debited \cap Credited
          BY <2>1, <3>2, <3>3 DEF Debited, Credited
        <4>3. xBalance'[1] = xBalance[1] /\ xBalance'[2] = xBalance[2] + AmountA
          BY <3>1, <4>1
        <4>4. xPc'[Tb] = xPc[Tb] /\ xCompleted' = xCompleted
          BY <2>1, <3>2, <3>3, SwapsTyped
        <4> QED BY <4>2, <4>3, <4>4, BalancesFit DEF MovedAmounts
      <3>4. CASE t = Tb
        <4>1. o = 1 /\ Swaps!Amount(t) = AmountB
          BY <3>4, SwapsTyped DEF o, Swaps!Destination, Swaps!Origin, Swaps!Amount
        <4>2. xPc[Tb] \in Debited \ Credited /\ xPc'[Tb] \in Debited \cap Credited
          BY <2>1, <3>2, <3>4 DEF Debited, Credited
        <4>3. xBalance'[2] = xBalance[2] /\ xBalance'[1] = xBalance[1] + AmountB
          BY <3>1, <4>1
        <4>4. xPc'[Ta] = xPc[Ta] /\ xCompleted'
          BY <2>1, <3>2, <3>4, SwapsTyped
        <4> QED BY <4>2, <4>3, <4>4, BalancesFit DEF MovedAmounts
      <3> QED BY <3>3, <3>4
    <2>7. Swaps!ReportConsistent'
      BY <2>1 DEF Swaps!ReportConsistent, Swaps!Conserved
    <2> QED BY <2>4, <2>5, <2>6, <2>7
  <1> QED BY <1>1, <1>2

(* The unlocks and the signal after them.                                   *)
LEMMA TransferLeaves ==
  ASSUME NEW t \in {Ta, Tb}, SwapsInd,
         Swaps!UnlockB(t) \/ Swaps!UnlockA(t) \/ Swaps!Signal
  PROVE  SwapsInd'
  <1> USE SwapsAssumption
      DEF Swaps!TransferAssumption, SwapsInd, Swaps!UnlockB, Swaps!UnlockA, Swaps!Signal,
          Swaps!SignalCompleted, Swaps!CondSignal, Swaps!Goto, Swaps!Unlock
  <1>a. xPc \in [Swaps!Threads -> SwapPlaces]
    BY SwapsTyped
  <1>1. Swaps!TypeOK'
    BY <1>a, SwapsTyped DEF Swaps!TypeOK, Swaps!Movers, SwapPlaces
  <1>2. LocksHeld'
    BY <1>a, SwapsTyped DEF LocksHeld, HasFirst, HasBoth, Credited
  <1>3. MovedAmounts'
    BY <1>a, SwapsTyped DEF MovedAmounts, Debited, Credited
  <1>4. Swaps!ReportConsistent'
    BY DEF Swaps!ReportConsistent, Swaps!Conserved
  <1> QED BY <1>1, <1>2, <1>3, <1>4

(* check_balance, which prints under lock_B and after the second transfer.  *)
LEMMA CheckPreserves ==
  ASSUME SwapsInd, Swaps!check_balance \/ Swaps!SpuriousWake \/ UNCHANGED Swaps!vars
  PROVE  SwapsInd'
  <1> USE SwapsAssumption
      DEF Swaps!TransferAssumption, SwapsInd, Swaps!check_balance, Swaps!CheckLock,
          Swaps!CheckEnters, Swaps!CheckWait, Swaps!CheckWake, Swaps!CheckPrint,
          Swaps!CheckUnlock, Swaps!SpuriousWake, Swaps!CondWait, Swaps!CondWake,
          Swaps!Goto, Swaps!Lock, Swaps!Unlock, Swaps!vars
  <1>a. /\ xPc \in [Swaps!Threads -> SwapPlaces]
        /\ xBalance \in [{1, 2} -> Swaps!UInt16]
    BY SwapsTyped
  <1>b. \A t \in {Ta, Tb} : xPc'[t] = xPc[t]
    BY <1>a, SwapsTyped
  <1>1. Swaps!TypeOK'
    BY <1>a, SwapsTyped DEF Swaps!TypeOK, Swaps!Movers, SwapPlaces
  <1>2. LocksHeld'
    BY <1>a, SwapsTyped DEF LocksHeld, HasFirst, HasBoth, Credited
  <1>3. MovedAmounts'
    <2>1. xBalance' = xBalance /\ xCompleted' = xCompleted
      OBVIOUS
    <2> QED BY <1>b, <2>1 DEF MovedAmounts
  <1>4. CASE xReport' = xReport
    BY <1>1, <1>2, <1>3, <1>4 DEF Swaps!ReportConsistent, Swaps!Conserved
  <1>5. CASE Swaps!CheckPrint
    <2>1. xReport' = xBalance /\ xLockB = Check /\ xPc[Tb] \in Credited
      BY <1>5 DEF LocksHeld, MovedAmounts
    <2>2. Swaps!Conserved(xBalance)
      BY <2>1, SwapsConserve DEF Swaps!MoneyConserved, Swaps!Movers
    <2>3. xBalance[2] \in {Start2 - AmountB, Start2 - AmountB + AmountA}
      <3>1. xPc[Tb] \in Debited
        BY <2>1 DEF Debited, Credited
      <3> QED BY <3>1 DEF MovedAmounts
    <2>4. Swaps!ReportConsistent'
      BY <2>1, <2>2, <2>3 DEF Swaps!ReportConsistent, Swaps!Conserved
    <2> QED BY <1>1, <1>2, <1>3, <2>4
  <1> QED BY <1>4, <1>5

(* The report of check_balance balances and has the second transfer in it, and
   money is under way only while a transfer holds both mutexes, for any
   balances and amounts that fit.                                           *)
LEMMA SwapsBalance ==
  Swaps!Spec => [](Swaps!TypeOK /\ Swaps!MoneyConserved /\ Swaps!ReportConsistent)
  <1>1. ASSUME SwapsInd, [Swaps!Next]_(Swaps!vars) PROVE SwapsInd'
    BY <1>1, TransferLocks, TransferMoves, TransferLeaves, CheckPreserves
    DEF Swaps!Next, Swaps!transfer_a_to_b, Swaps!transfer_b_to_a, Swaps!Move,
        Swaps!Terminated
  <1>2. SwapsInd => Swaps!TypeOK /\ Swaps!MoneyConserved /\ Swaps!ReportConsistent
    BY SwapsConserve DEF SwapsInd
  <1> QED BY <1>1, <1>2, SwapsInit, PTL DEF Swaps!Spec
-----------------------------------------------------------------------------
(* The sensor's toggles. *)

\* The places from which a thread has yet to leave the mutex, and those by which
\* it has registered its toggle.
SensorInside == {"log", "test", "turn on", "turn off", "unlock"}
SensorPast == {"test", "turn on", "turn off", "unlock", "done"}
Registered == {u \in Sensor!Users : tPc[u] \in SensorPast}
Pending == \E u \in Sensor!Users : tPc[u] \in {"test", "turn on", "turn off"}

SensorLocked == \A u \in Sensor!Users : tPc[u] \in SensorInside <=> tMutex = u

\* The log counts the registered toggles; the switch has followed all of them but
\* the pending one, and nobody has turned it since the pending one has tested it.
LogCounts == tLog = Cardinality(Registered)
SwitchFollows ==
  /\ tIsOn = IF Pending THEN (tLog - 1) % 2 ELSE tLog % 2
  /\ \A u \in Sensor!Users : /\ tPc[u] = "turn on" => tIsOn = 0
                             /\ tPc[u] = "turn off" => tIsOn = 1

\* main creates the threads in turn, all of them before it joins, and has joined
\* the last one before it goes on.
MainStages ==
  /\ \A u \in Sensor!Users : tPc[u] # "unborn" <=> u <= tUser
  /\ tMain = "create" => tUser < Toggles /\ tJoins = 0
  /\ tMain # "create" => tUser = Toggles
  /\ tMain = "join" => tJoins < Toggles
  /\ tMain \in {"switch", "log", "destroy", "free", "return"} => tJoins = Toggles
  /\ tJoins > 0 => tPc[Toggles] = "done"

\* Whoever was not late stays done, and was counted.
ReportTaken ==
  /\ tMain \in {"create", "join", "switch"} => tReport = <<>>
  /\ tMain = "log" =>
       /\ tReport \in [1..1 -> {0, 1}] /\ tLate \subseteq Sensor!Users
       /\ Toggles \notin tLate
       /\ \A u \in Sensor!Users \ tLate : tPc[u] = "done"
       /\ tLate = {} => tReport[1] = Toggles % 2

SensorInd ==
  /\ Sensor!TypeOK /\ SensorLocked /\ LogCounts /\ SwitchFollows
  /\ MainStages /\ ReportTaken /\ Sensor!ReportHasLast /\ Sensor!UndefinedOnlyUnjoined

(* The threads are finitely many and the last of them is one of them.       *)
LEMMA SensorFacts ==
  /\ Toggles \in Nat \ {0} /\ Toggles \in Sensor!Users /\ None \notin Sensor!Users
  /\ Sensor!Users = 1..Toggles
  /\ IsFiniteSet(Sensor!Users) /\ Cardinality(Sensor!Users) = Toggles
  <1>1. Toggles \in Nat \ {0} /\ None \notin 1..Toggles
    BY SensorAssumption DEF Sensor!SensorAssumption
  <1>2. IsFiniteSet(1..Toggles) /\ Cardinality(1..Toggles) = Toggles
    BY <1>1, FS_Interval
  <1> QED BY <1>1, <1>2 DEF Sensor!Users

(* What has been registered, or was late, is a finite part of the threads.  *)
LEMMA PartCounts ==
  ASSUME NEW S \in SUBSET Sensor!Users
  PROVE  /\ IsFiniteSet(S) /\ Cardinality(S) \in 0..Toggles
         /\ Cardinality(S) = Toggles => S = Sensor!Users
         /\ Cardinality(Sensor!Users \ S) = Toggles - Cardinality(S)
  <1>0. IsFiniteSet(Sensor!Users) /\ Cardinality(Sensor!Users) = Toggles
    BY SensorFacts
  <1>1. IsFiniteSet(S) /\ Cardinality(S) <= Toggles
    BY <1>0, FS_Subset, Zenon
  <1>2. Cardinality(S) \in Nat
    BY <1>1, FS_CardinalityType
  <1>3. Cardinality(S) = Toggles => S = Sensor!Users
    BY SensorFacts, FS_Subset
  <1>4. Cardinality(Sensor!Users \ S) = Toggles - Cardinality(S)
    <2>1. Cardinality(Sensor!Users \ S) = Cardinality(Sensor!Users) - Cardinality(Sensor!Users \cap S)
      BY SensorFacts, <1>1, FS_Difference
    <2>2. Sensor!Users \cap S = S
      OBVIOUS
    <2> QED BY <2>1, <2>2, SensorFacts
  <1> QED BY <1>1, <1>2, <1>3, <1>4, SensorFacts

(* The parity of a number and of its predecessor.                           *)
LEMMA Parity ==
  ASSUME NEW n \in Nat
  PROVE  /\ n % 2 \in {0, 1} /\ (n - 1) % 2 \in {0, 1}
         /\ (n - 1) % 2 = 0 => n % 2 = 1
         /\ (n - 1) % 2 = 1 => n % 2 = 0
         /\ n + 1 - 1 = n
  BY SMT

SensorPlaces == {"unborn", "lock", "log", "test", "turn on", "turn off", "unlock", "done"}

(* The types of the counters as numbers.                                    *)
LEMMA SensorTyped ==
  Sensor!TypeOK => /\ tPc \in [Sensor!Users -> SensorPlaces]
                   /\ tLog \in Nat /\ tJoins \in Nat /\ tUser \in Nat /\ tIsOn \in {0, 1}
  <1>1. \A n \in 0..Toggles : n \in Nat
    BY SensorFacts
  <1> QED BY <1>1 DEF Sensor!TypeOK, SensorPlaces

(* What the invariant says about the switch as the program's own property.  *)
LEMMA SwitchMatches == SensorInd => Sensor!SwitchMatchesLog
  <1> SUFFICES ASSUME SensorInd PROVE tIsOn = (tLog - Cardinality(Sensor!Between)) % 2
    BY DEF Sensor!SwitchMatchesLog, Sensor!Cardinality, Cardinality
  <1>0. tLog \in Nat /\ tLog - 0 = tLog
    BY SensorTyped DEF SensorInd
  <1>1. CASE Pending
    <2>1. PICK u \in Sensor!Users : tPc[u] \in {"test", "turn on", "turn off"}
      BY <1>1 DEF Pending
    <2>2. Sensor!Between = {u}
      BY <2>1 DEF SensorInd, SensorLocked, SensorInside, Sensor!Between
    <2>3. Cardinality(Sensor!Between) = 1
      BY <2>2, FS_Singleton
    <2> QED BY <1>1, <2>3 DEF SensorInd, SwitchFollows
  <1>2. CASE ~Pending
    <2>1. Sensor!Between = {}
      BY <1>2 DEF Pending, Sensor!Between
    <2>2. Cardinality(Sensor!Between) = 0
      BY <2>1, FS_EmptySet
    <2> QED BY <1>0, <1>2, <2>2 DEF SensorInd, SwitchFollows
  <1> QED BY <1>1, <1>2

(* The threads and main before anything was created.                        *)
LEMMA SensorInit == Sensor!Init => SensorInd
  <1> SUFFICES ASSUME Sensor!Init PROVE SensorInd
    OBVIOUS
  <1> USE SensorFacts DEF Sensor!Init
  <1>1. Sensor!TypeOK
    BY DEF Sensor!TypeOK
  <1>2. SensorLocked
    BY DEF SensorLocked, SensorInside
  <1>3. Registered = {} /\ ~Pending
    BY DEF Registered, Pending, SensorPast
  <1>4. LogCounts
    BY <1>3, FS_EmptySet DEF LogCounts
  <1>5. SwitchFollows
    BY <1>3 DEF SwitchFollows
  <1>6. MainStages
    <2>1. \A u \in Sensor!Users : tPc[u] = "unborn" /\ ~(u <= tUser)
      OBVIOUS
    <2> QED BY <2>1 DEF MainStages
  <1>7. ReportTaken /\ Sensor!UndefinedOnlyUnjoined
    BY DEF ReportTaken, Sensor!UndefinedOnlyUnjoined
  <1>8. Sensor!ReportHasLast
    BY DEF Sensor!ReportHasLast
  <1> QED BY <1>1, <1>2, <1>4, <1>5, <1>6, <1>7, <1>8 DEF SensorInd

(* What every step of a thread that main need not notice leaves alone.      *)
LEMMA SensorMainKept ==
  ASSUME NEW u \in Sensor!Users, SensorInd, Sensor!Running,
         NEW p, tPc' = [tPc EXCEPT ![u] = p], tPc[u] \notin {"unborn", "done"},
         p \in SensorPlaces \ {"unborn"},
         UNCHANGED <<tMain, tUser, tJoins, tReport, tLate>>
  PROVE  /\ MainStages' /\ ReportTaken'
         /\ Sensor!ReportHasLast' /\ Sensor!UndefinedOnlyUnjoined'
  <1>1. tPc \in [Sensor!Users -> SensorPlaces]
    BY DEF SensorInd, Sensor!TypeOK, SensorPlaces
  <1>2. \A v \in Sensor!Users : /\ tPc[v] = "done" => tPc'[v] = "done"
                                /\ tPc'[v] # "unborn" <=> tPc[v] # "unborn"
    BY <1>1
  <1>3. MainStages'
    BY <1>2, SensorFacts DEF SensorInd, MainStages
  <1>4. ReportTaken'
    BY <1>2 DEF SensorInd, ReportTaken
  <1>5. Sensor!ReportHasLast'
    BY DEF SensorInd, Sensor!ReportHasLast
  <1>6. Sensor!UndefinedOnlyUnjoined'
    BY DEF Sensor!Running, Sensor!UndefinedOnlyUnjoined
  <1> QED BY <1>3, <1>4, <1>5, <1>6

(* toggle_sensor takes the mutex, registers, tests, turns and leaves.       *)
LEMMA ToggleStep ==
  ASSUME NEW u \in Sensor!Users, SensorInd, Sensor!Running,
         \/ Sensor!LockSensor(u) \/ Sensor!RegisterToggle(u) \/ Sensor!TestSwitch(u)
         \/ Sensor!TurnSwitch(u) \/ Sensor!UnlockSensor(u)
  PROVE  SensorInd'
  <1> USE DEF Sensor!Goto
  <1>a. tPc \in [Sensor!Users -> SensorPlaces] /\ tLog \in Nat /\ tIsOn \in {0, 1}
    BY SensorTyped DEF SensorInd
  <1>b. SensorLocked /\ LogCounts /\ SwitchFollows /\ None \notin Sensor!Users
    BY SensorFacts DEF SensorInd
  <1>1. CASE Sensor!LockSensor(u)
    <2> USE <1>1 DEF Sensor!LockSensor, Sensor!Enter, Sensor!Lock
    <2>1. Sensor!TypeOK'
      BY <1>a DEF SensorInd, Sensor!TypeOK, SensorPlaces
    <2>2. SensorLocked'
      BY <1>a, <1>b DEF SensorLocked, SensorInside
    <2>3. Registered' = Registered /\ Pending' = Pending
      BY <1>a DEF Registered, Pending, SensorPast
    <2>4. LogCounts' /\ SwitchFollows'
      BY <1>a, <1>b, <2>3 DEF LogCounts, SwitchFollows
    <2>5. MainStages' /\ ReportTaken' /\ Sensor!ReportHasLast' /\ Sensor!UndefinedOnlyUnjoined'
      <3>1. /\ tPc' = [tPc EXCEPT ![u] = "log"] /\ tPc[u] \notin {"unborn", "done"}
            /\ UNCHANGED <<tMain, tUser, tJoins, tReport, tLate>>
        BY DEF Sensor!told
      <3> QED BY <3>1, SensorMainKept DEF SensorPlaces
    <2> QED BY <2>1, <2>2, <2>4, <2>5 DEF SensorInd
  <1>2. CASE Sensor!RegisterToggle(u)
    <2> USE <1>2 DEF Sensor!RegisterToggle
    <2>2. SensorLocked'
      BY <1>a, <1>b DEF SensorLocked, SensorInside
    <2>3. Registered' = Registered \cup {u} /\ u \notin Registered /\ Pending' /\ ~Pending
      BY <1>a, <1>b DEF Registered, Pending, SensorPast, SensorLocked, SensorInside
    <2>4. LogCounts'
      <3>1. IsFiniteSet(Registered)
        BY PartCounts DEF Registered
      <3>2. Cardinality(Registered') = Cardinality(Registered) + 1
        BY <2>3, <3>1, FS_AddElement
      <3> QED BY <1>b, <3>2 DEF LogCounts
    <2>1. Sensor!TypeOK'
      <3>1. Registered' \in SUBSET Sensor!Users
        BY <2>3 DEF Registered
      <3>2. Cardinality(Registered') \in 0..Toggles
        BY <3>1, PartCounts
      <3>3. tLog' \in 0..Toggles
        BY <2>4, <3>2 DEF LogCounts
      <3> QED BY <1>a, <3>3 DEF SensorInd, Sensor!TypeOK, SensorPlaces
    <2>5. SwitchFollows'
      <3>0. tIsOn' = tIsOn /\ tLog' - 1 = tLog
        BY <1>a
      <3>1. tIsOn = tLog % 2 /\ tIsOn' = tIsOn /\ tLog' - 1 = tLog
        BY <1>b, <2>3, <3>0 DEF SwitchFollows
      <3>2. \A v \in Sensor!Users : tPc'[v] \notin {"turn on", "turn off"}
        BY <1>a, <2>3 DEF Pending
      <3> QED BY <2>3, <3>1, <3>2 DEF SwitchFollows
    <2>6. MainStages' /\ ReportTaken' /\ Sensor!ReportHasLast' /\ Sensor!UndefinedOnlyUnjoined'
      <3>1. /\ tPc' = [tPc EXCEPT ![u] = "test"] /\ tPc[u] \notin {"unborn", "done"}
            /\ UNCHANGED <<tMain, tUser, tJoins, tReport, tLate>>
        BY DEF Sensor!told
      <3> QED BY <3>1, SensorMainKept DEF SensorPlaces
    <2> QED BY <2>1, <2>2, <2>4, <2>5, <2>6 DEF SensorInd
  <1>3. CASE Sensor!TestSwitch(u)
    <2> USE <1>3 DEF Sensor!TestSwitch
    <2>0. PICK p \in {"turn on", "turn off"} :
            /\ tPc' = [tPc EXCEPT ![u] = p]
            /\ p = "turn on" => tIsOn = 0
            /\ p = "turn off" => tIsOn = 1
      BY <1>a
    <2>1. Sensor!TypeOK'
      BY <1>a, <2>0 DEF SensorInd, Sensor!TypeOK, SensorPlaces
    <2>2. SensorLocked'
      BY <1>a, <1>b, <2>0 DEF SensorLocked, SensorInside
    <2>3. Registered' = Registered /\ Pending' /\ Pending
      BY <1>a, <2>0 DEF Registered, Pending, SensorPast
    <2>4. LogCounts' /\ SwitchFollows'
      BY <1>a, <1>b, <2>0, <2>3 DEF LogCounts, SwitchFollows
    <2>5. MainStages' /\ ReportTaken' /\ Sensor!ReportHasLast' /\ Sensor!UndefinedOnlyUnjoined'
      <3>1. tPc[u] \notin {"unborn", "done"} /\ UNCHANGED <<tMain, tUser, tJoins, tReport, tLate>>
        BY DEF Sensor!told
      <3> QED BY <2>0, <3>1, SensorMainKept DEF SensorPlaces
    <2> QED BY <2>1, <2>2, <2>4, <2>5 DEF SensorInd
  <1>4. CASE Sensor!TurnSwitch(u)
    <2> USE <1>4 DEF Sensor!TurnSwitch
    <2>0. /\ tPc[u] \in {"turn on", "turn off"} /\ tPc' = [tPc EXCEPT ![u] = "unlock"]
          /\ tIsOn' = (IF tPc[u] = "turn on" THEN 1 ELSE 0)
          /\ UNCHANGED <<tMutex, tLog, tMain, tUser, tJoins, tReport, tLate>>
      BY DEF Sensor!told
    <2>1. Sensor!TypeOK'
      BY <1>a, <2>0 DEF SensorInd, Sensor!TypeOK, SensorPlaces
    <2>2. SensorLocked'
      BY <1>a, <1>b, <2>0 DEF SensorLocked, SensorInside
    <2>3. Registered' = Registered /\ ~Pending' /\ Pending
      BY <1>a, <1>b, <2>0 DEF Registered, Pending, SensorPast, SensorLocked, SensorInside
    <2>4. LogCounts'
      BY <1>b, <2>0, <2>3 DEF LogCounts
    <2>5. SwitchFollows'
      <3>1. tIsOn = (tLog - 1) % 2
        BY <1>b, <2>3 DEF SwitchFollows
      <3>2. (tPc[u] = "turn on" => tIsOn = 0) /\ (tPc[u] = "turn off" => tIsOn = 1)
        BY <1>b DEF SwitchFollows
      <3>3. tIsOn' = tLog' % 2
        BY <1>a, <2>0, <3>1, <3>2, Parity
      <3>4. \A v \in Sensor!Users : tPc'[v] \notin {"turn on", "turn off"}
        BY <2>3 DEF Pending
      <3> QED BY <2>3, <3>3, <3>4 DEF SwitchFollows
    <2>6. MainStages' /\ ReportTaken' /\ Sensor!ReportHasLast' /\ Sensor!UndefinedOnlyUnjoined'
      BY <2>0, SensorMainKept DEF SensorPlaces
    <2> QED BY <2>1, <2>2, <2>4, <2>5, <2>6 DEF SensorInd
  <1>5. CASE Sensor!UnlockSensor(u)
    <2> USE <1>5 DEF Sensor!UnlockSensor, Sensor!Leave
    <2>1. Sensor!TypeOK'
      BY <1>a DEF SensorInd, Sensor!TypeOK, SensorPlaces
    <2>2. SensorLocked'
      BY <1>a, <1>b DEF SensorLocked, SensorInside
    <2>3. Registered' = Registered /\ Pending' = Pending
      BY <1>a DEF Registered, Pending, SensorPast
    <2>4. LogCounts' /\ SwitchFollows'
      BY <1>a, <1>b, <2>3 DEF LogCounts, SwitchFollows
    <2>5. MainStages' /\ ReportTaken' /\ Sensor!ReportHasLast' /\ Sensor!UndefinedOnlyUnjoined'
      <3>1. /\ tPc' = [tPc EXCEPT ![u] = "done"] /\ tPc[u] \notin {"unborn", "done"}
            /\ UNCHANGED <<tMain, tUser, tJoins, tReport, tLate>>
        BY DEF Sensor!told
      <3> QED BY <3>1, SensorMainKept DEF SensorPlaces
    <2> QED BY <2>1, <2>2, <2>4, <2>5 DEF SensorInd
  <1> QED BY <1>1, <1>2, <1>3, <1>4, <1>5

(* Undefined behaviour: a second join of one handle, a thread that was late, or
   a mutex that is destroyed while it is locked.                            *)
LEMMA UndefinedStep ==
  ASSUME SensorInd, Sensor!Undefined,
         \/ tMain = "join" /\ tJoins > 0
         \/ tMain = "destroy" /\ tMutex # None
         \/ /\ tMain \in {"free", "return"}
            /\ \E u \in Sensor!Users : tPc[u] \notin {"unborn", "done"}
  PROVE  SensorInd'
  <1> USE SensorFacts DEF SensorInd, Sensor!Undefined, Sensor!told
  <1>1. Sensor!TypeOK'
    BY DEF Sensor!TypeOK
  <1>2. SensorLocked' /\ LogCounts' /\ SwitchFollows'
    BY DEF SensorLocked, LogCounts, SwitchFollows, Registered, Pending
  <1>3. MainStages'
    BY DEF MainStages
  <1>4. ReportTaken' /\ Sensor!ReportHasLast'
    BY DEF ReportTaken, Sensor!ReportHasLast
  <1>5. Sensor!UndefinedOnlyUnjoined'
    <2>0. tJoins \in Nat /\ tJoins' = tJoins /\ tPc' = tPc
      BY SensorTyped
    <2>1. CASE tMain = "join" /\ tJoins > 0
      BY <2>0, <2>1 DEF MainStages, Sensor!UndefinedOnlyUnjoined
    <2>2. ASSUME NEW u \in Sensor!Users, tPc[u] # "done", tPc[Toggles] = "done"
          PROVE  Sensor!UndefinedOnlyUnjoined'
      <3>1. Toggles > 1
        BY <2>2
      <3> QED BY <2>0, <2>2, <3>1 DEF Sensor!UndefinedOnlyUnjoined
    <2>3. CASE tMain = "destroy" /\ tMutex # None
      <3>1. tMutex \in Sensor!Users
        BY <2>3 DEF Sensor!TypeOK
      <3>2. tPc[tMutex] # "done"
        BY <3>1 DEF SensorLocked, SensorInside
      <3>3. tPc[Toggles] = "done"
        BY <2>3 DEF MainStages
      <3> QED BY <2>2, <3>1, <3>2, <3>3
    <2>4. CASE /\ tMain \in {"free", "return"}
               /\ \E u \in Sensor!Users : tPc[u] \notin {"unborn", "done"}
      <3>1. tPc[Toggles] = "done"
        BY <2>4 DEF MainStages
      <3> QED BY <2>2, <2>4, <3>1
    <2> QED BY <2>1, <2>3, <2>4
  <1> QED BY <1>1, <1>2, <1>3, <1>4, <1>5

(* main's creates: the next thread into the one handle.                     *)
LEMMA CreateStep == ASSUME SensorInd, Sensor!Create PROVE SensorInd'
  <1> USE SensorFacts
  <1>a. /\ tPc \in [Sensor!Users -> SensorPlaces] /\ tUser \in Nat /\ tUser < Toggles
        /\ tMain = "create"
    BY SensorTyped DEF SensorInd, MainStages, Sensor!Create
  <1>1. {v \in Sensor!Users : tPc[v] # "unborn"} = 1..tUser
    BY <1>a DEF SensorInd, MainStages
  <1>2. Sensor!Cardinality({v \in Sensor!Users : tPc[v] # "unborn"}) = tUser
    <2>1. Cardinality(1..tUser) = tUser
      BY <1>a, FS_Interval
    <2> QED BY <1>1, <2>1 DEF Sensor!Cardinality, Cardinality
  <1> DEFINE n == tUser + 1
  <1>3. /\ tPc' = [tPc EXCEPT ![n] = "lock"] /\ tUser' = n
        /\ tMain' = (IF n = Toggles THEN "join" ELSE "create")
        /\ UNCHANGED <<tMutex, tLog, tIsOn, tJoins, tReport, tLate>>
    BY <1>2 DEF Sensor!Create, Sensor!Handle, Sensor!told
  <1>4. n \in Sensor!Users /\ tPc[n] = "unborn" /\ n \in Nat
    BY <1>a DEF SensorInd, MainStages
  <1>5. \A v \in Sensor!Users : tPc'[v] = IF v = n THEN "lock" ELSE tPc[v]
    BY <1>a, <1>3, <1>4
  <1>6. Sensor!TypeOK'
    <2> HIDE DEF n
    <2>1. tPc' \in [Sensor!Users -> SensorPlaces]
      BY <1>a, <1>3 DEF SensorPlaces
    <2>2. tUser' \in 0..Toggles
      BY <1>3, <1>4
    <2> QED BY <1>3, <2>1, <2>2 DEF SensorInd, Sensor!TypeOK, SensorPlaces
  <1>7. SensorLocked' /\ Registered' = Registered /\ Pending' = Pending
    <2> HIDE DEF n
    <2>0. tMutex' = tMutex /\ SensorLocked
      BY <1>3 DEF SensorInd
    <2>1. SensorLocked'
      <3> SUFFICES ASSUME NEW v \in Sensor!Users
                   PROVE  tPc'[v] \in SensorInside <=> tMutex = v
        BY <2>0 DEF SensorLocked, SensorInside
      <3>1. tPc'[v] \in SensorInside <=> tPc[v] \in SensorInside
        BY <1>4, <1>5 DEF SensorInside
      <3> QED BY <2>0, <3>1 DEF SensorLocked
    <2>2. Registered' = Registered
      BY <1>4, <1>5 DEF Registered, SensorPast
    <2>3. Pending' = Pending
      BY <1>4, <1>5 DEF Pending
    <2> QED BY <2>1, <2>2, <2>3
  <1>8. LogCounts' /\ SwitchFollows'
    <2> HIDE DEF n
    <2>1. LogCounts'
      BY <1>3, <1>7 DEF SensorInd, LogCounts
    <2>2. SwitchFollows'
      <3>1. tIsOn' = tIsOn /\ tLog' = tLog /\ SwitchFollows
        BY <1>3 DEF SensorInd
      <3>2. \A v \in Sensor!Users : tPc'[v] \in {"turn on", "turn off"} => tPc'[v] = tPc[v]
        BY <1>5
      <3> QED BY <1>7, <3>1, <3>2 DEF SwitchFollows
    <2> QED BY <2>1, <2>2
  <1>9. MainStages'
    <2>1. tJoins = 0
      BY <1>a DEF SensorInd, MainStages
    <2>2. \A v \in Sensor!Users : tPc'[v] # "unborn" <=> v <= n
      <3>1. \A v \in Sensor!Users : tPc[v] # "unborn" <=> v <= tUser
        BY DEF SensorInd, MainStages
      <3>2. \A v \in Sensor!Users : v <= n <=> v <= tUser \/ v = n
        BY <1>a
      <3> HIDE DEF n
      <3> QED BY <1>5, <3>1, <3>2
    <2>3. tMain' = "create" => n < Toggles
      BY <1>3, <1>a
    <2> HIDE DEF n
    <2> QED BY <1>3, <1>4, <2>1, <2>2, <2>3 DEF MainStages
  <1>10. ReportTaken' /\ Sensor!ReportHasLast' /\ Sensor!UndefinedOnlyUnjoined'
    <2> HIDE DEF n
    <2> QED
      BY <1>a, <1>3
      DEF SensorInd, ReportTaken, Sensor!ReportHasLast, Sensor!UndefinedOnlyUnjoined
  <1> QED BY <1>6, <1>7, <1>8, <1>9, <1>10 DEF SensorInd

(* What main's later steps leave to the threads.                            *)
LEMMA SensorThreadsKept ==
  ASSUME SensorInd, UNCHANGED <<tMutex, tLog, tIsOn, tPc>>
  PROVE  SensorLocked' /\ LogCounts' /\ SwitchFollows'
  BY DEF SensorInd, SensorLocked, LogCounts, SwitchFollows, Registered, Pending

(* main's joins, and the reading of the switch.                             *)
LEMMA JoinStep ==
  ASSUME SensorInd, Sensor!Join \/ Sensor!CheckSwitch PROVE SensorInd'
  <1> USE SensorFacts
  <1>a. tJoins \in Nat /\ tUser \in Nat
    BY SensorTyped DEF SensorInd
  <1>1. CASE tMain = "join" /\ tJoins > 0 /\ Sensor!Undefined
    BY <1>1, UndefinedStep
  <1>2. CASE Sensor!Join /\ ~Sensor!Undefined
    <2>1. /\ tMain = "join" /\ tUser = Toggles /\ tJoins < Toggles
          /\ tJoins = 0 => tPc[Toggles] = "done"
          /\ tJoins' = tJoins + 1
          /\ tMain' = (IF tJoins' = Toggles THEN "switch" ELSE "join")
          /\ UNCHANGED <<tMutex, tLog, tIsOn, tPc, tUser, tReport, tLate>>
      BY <1>2 DEF Sensor!Join, Sensor!told, SensorInd, MainStages
    <2>2. Sensor!TypeOK'
      <3>1. tJoins' \in 0..Toggles
        BY <1>a, <2>1
      <3> QED BY <2>1, <3>1 DEF SensorInd, Sensor!TypeOK
    <2>3. MainStages'
      BY <1>a, <2>1 DEF SensorInd, MainStages
    <2>4. ReportTaken' /\ Sensor!ReportHasLast' /\ Sensor!UndefinedOnlyUnjoined'
      BY <2>1 DEF SensorInd, ReportTaken, Sensor!ReportHasLast, Sensor!UndefinedOnlyUnjoined
    <2> QED BY <2>1, <2>2, <2>3, <2>4, SensorThreadsKept DEF SensorInd
  <1>3. CASE Sensor!CheckSwitch
    <2>1. /\ tMain = "switch" /\ tMain' = "log" /\ tReport' = <<tIsOn>>
          /\ tLate' = {u \in Sensor!Users : tPc[u] # "done"}
          /\ UNCHANGED <<tMutex, tLog, tIsOn, tPc, tUser, tJoins>>
      BY <1>3 DEF Sensor!CheckSwitch
    <2>2. Sensor!TypeOK'
      BY <2>1 DEF SensorInd, Sensor!TypeOK
    <2>3. MainStages'
      BY <2>1 DEF SensorInd, MainStages
    <2>4. ReportTaken'
      <3>1. tIsOn \in {0, 1} /\ <<tIsOn>> \in [1..1 -> {0, 1}] /\ <<tIsOn>>[1] = tIsOn
        <4>1. tIsOn \in {0, 1}
          BY SensorTyped DEF SensorInd
        <4> QED BY <4>1
      <3>2. tPc[Toggles] = "done"
        BY <1>a, <2>1 DEF SensorInd, MainStages
      <3>3. ASSUME tLate' = {} PROVE tIsOn = Toggles % 2
        <4>1. \A u \in Sensor!Users : tPc[u] = "done"
          BY <2>1, <3>3
        <4>2. Registered = Sensor!Users /\ ~Pending
          BY <4>1 DEF Registered, Pending, SensorPast
        <4> QED BY <4>2 DEF SensorInd, SwitchFollows, LogCounts
      <3> QED BY <2>1, <3>1, <3>2, <3>3 DEF ReportTaken
    <2>5. Sensor!ReportHasLast' /\ Sensor!UndefinedOnlyUnjoined'
      <3>1. Len(tReport') = 1
        BY <2>1
      <3> QED BY <2>1, <3>1 DEF Sensor!ReportHasLast, Sensor!UndefinedOnlyUnjoined
    <2> QED BY <2>1, <2>2, <2>3, <2>4, <2>5, SensorThreadsKept DEF SensorInd
  <1>4. Sensor!Join /\ Sensor!Undefined => tMain = "join" /\ tJoins > 0
    BY <1>a DEF Sensor!Join, Sensor!Undefined
  <1> QED BY <1>1, <1>2, <1>3, <1>4 DEF Sensor!Join

(* The reading of the log, which lacks at most the toggles of who was late. *)
LEMMA CheckLogStep == ASSUME SensorInd, Sensor!CheckLog PROVE SensorInd'
  <1> USE SensorFacts
  <1>1. /\ tMain = "log" /\ tMain' = "destroy" /\ tReport' = <<tReport[1], tLog>>
        /\ UNCHANGED <<tMutex, tLog, tIsOn, tPc, tUser, tJoins, tLate>>
    BY DEF Sensor!CheckLog
  <1>2. Sensor!TypeOK'
    BY <1>1 DEF SensorInd, Sensor!TypeOK
  <1>3. MainStages'
    BY <1>1 DEF SensorInd, MainStages
  <1>4. ReportTaken' /\ Sensor!UndefinedOnlyUnjoined'
    BY <1>1 DEF SensorInd, ReportTaken, Sensor!UndefinedOnlyUnjoined
  <1>5. Sensor!ReportHasLast'
    <2>1. /\ tLate \in SUBSET Sensor!Users /\ Toggles \notin tLate
          /\ \A u \in Sensor!Users \ tLate : tPc[u] = "done"
          /\ tLate = {} => tReport[1] = Toggles % 2
      BY <1>1 DEF SensorInd, ReportTaken
    <2>2. Sensor!Users \ tLate \subseteq Registered /\ Registered \in SUBSET Sensor!Users
      BY <2>1 DEF Registered, SensorPast
    <2>3. Cardinality(Sensor!Users \ tLate) <= Cardinality(Registered)
      BY <2>2, PartCounts, FS_Subset
    <2>4. Cardinality(Sensor!Users \ tLate) = Toggles - Cardinality(tLate)
      BY <2>1, PartCounts
    <2>5. tLog = Cardinality(Registered)
      BY DEF SensorInd, LogCounts
    <2>6. tLog >= Toggles - Cardinality(tLate)
      <3>1. Cardinality(tLate) \in 0..Toggles /\ Cardinality(Registered) \in 0..Toggles
        BY <2>1, <2>2, PartCounts
      <3> QED BY <2>3, <2>4, <2>5, <3>1
    <2>7. tLate = {} => tLog = Toggles
      BY <2>2, <2>5
    <2>8. Sensor!Cardinality(tLate) = Cardinality(tLate)
      BY DEF Sensor!Cardinality, Cardinality
    <2> QED BY <1>1, <2>1, <2>6, <2>7, <2>8 DEF Sensor!ReportHasLast
  <1> QED BY <1>1, <1>2, <1>3, <1>4, <1>5, SensorThreadsKept DEF SensorInd

(* What main destroys, frees and returns from.                              *)
LEMMA EndStep ==
  ASSUME SensorInd, Sensor!Destroy \/ Sensor!Free \/ Sensor!Return \/ UNCHANGED Sensor!vars
  PROVE  SensorInd'
  <1> USE SensorFacts
  <1>1. CASE tMain = "destroy" /\ tMutex # None /\ Sensor!Undefined
    BY <1>1, UndefinedStep
  <1>2. CASE UNCHANGED Sensor!vars
    <2> USE <1>2 DEF Sensor!vars
    <2>1. Sensor!TypeOK' /\ MainStages'
      BY DEF SensorInd, Sensor!TypeOK, MainStages
    <2>2. ReportTaken' /\ Sensor!ReportHasLast' /\ Sensor!UndefinedOnlyUnjoined'
      BY DEF SensorInd, ReportTaken, Sensor!ReportHasLast, Sensor!UndefinedOnlyUnjoined
    <2> QED BY <2>1, <2>2, SensorThreadsKept DEF SensorInd
  <1>3. ASSUME NEW next \in {"free", "return", "returned"}, tMain' = next,
               tMain \in {"destroy", "free", "return"},
               UNCHANGED <<tMutex, tLog, tIsOn, tPc, tUser, tJoins, tReport, tLate>>
        PROVE  SensorInd'
    <2> USE <1>3
    <2>1. Sensor!TypeOK'
      BY DEF SensorInd, Sensor!TypeOK
    <2>2. MainStages'
      BY DEF SensorInd, MainStages
    <2>3. ReportTaken' /\ Sensor!ReportHasLast' /\ Sensor!UndefinedOnlyUnjoined'
      BY DEF SensorInd, ReportTaken, Sensor!ReportHasLast, Sensor!UndefinedOnlyUnjoined
    <2> QED BY <2>1, <2>2, <2>3, SensorThreadsKept DEF SensorInd
  <1> QED BY <1>1, <1>2, <1>3 DEF Sensor!Destroy, Sensor!Free, Sensor!Return, Sensor!told

(* The sensor's invariant holds whatever the order of the toggles and main's
   reading, for any number of threads.                                      *)
LEMMA SensorTruthful ==
  Sensor!Spec => [](/\ Sensor!TypeOK /\ Sensor!SwitchMatchesLog /\ Sensor!ReportHasLast
                    /\ Sensor!UndefinedOnlyUnjoined)
  <1>1. ASSUME SensorInd, [Sensor!Next]_(Sensor!vars) PROVE SensorInd'
    <2>1. ASSUME NEW u \in Sensor!Users, Sensor!toggle_sensor(u) PROVE SensorInd'
      <3>1. CASE Sensor!Late(u)
        BY <1>1, <3>1, UndefinedStep DEF Sensor!Late, Sensor!MutexGone, Sensor!SensorGone
      <3> QED BY <1>1, <2>1, <3>1, ToggleStep DEF Sensor!toggle_sensor
    <2> QED
      BY <1>1, <2>1, CreateStep, JoinStep, CheckLogStep, EndStep
      DEF Sensor!Next, Sensor!MainStep, Sensor!check_sensor_state, Sensor!Terminated
  <1>2. SensorInd => /\ Sensor!TypeOK /\ Sensor!SwitchMatchesLog /\ Sensor!ReportHasLast
                     /\ Sensor!UndefinedOnlyUnjoined
    BY SwitchMatches DEF SensorInd
  <1> QED BY <1>1, <1>2, SensorInit, PTL DEF Sensor!Spec
-----------------------------------------------------------------------------
(* The sums of the chunks. *)

Start(t) == Split!start_index(t)
Length == SumThreads * ChunkSize
Prefix(v, k) == SumOf(v, 0..(k - 1))
Kept(w, n) == n % w
Widths == {256, 65536}

\* A thread is within its chunk, or through with it, and has the sum of what it
\* has passed, as far as its type keeps it.
ChunkSummed ==
  \A t \in Split!Threads :
    /\ aAt[t] \in Start(t) .. Start(t) + ChunkSize
    /\ aPc[t] = "done" => aAt[t] = Start(t) + ChunkSize
    /\ aPartial[t] =
         Kept(Split!Width, Prefix(Split!data, aAt[t]) - Prefix(Split!data, Start(t)))

\* main has created, joined or added up the threads before count.
MainCounts ==
  /\ aMain = "join" => \A t \in Split!Threads : t < aCount => aPc[t] = "done"
  /\ aMain \in {"add", "done"} => \A t \in Split!Threads : aPc[t] = "done"
  /\ \A t \in Split!Threads :
       (aMain = "join" /\ t < aCount) \/ aMain \in {"add", "done"} => aSums[t] = aPartial[t]
  /\ aMain \in {"create", "join"} => aTotal = 0
  /\ aMain = "add" => aTotal = Kept(Split!Width, Prefix(Split!data, Start(aCount)))
  /\ aMain = "done" => aTotal = Kept(Split!Width, Prefix(Split!data, Length))

\* The aggregator's threads have read what they have passed; those of
\* concurrent_sum.c the first chunk as far as each has got in its own.
ReadersOf(j) == {t \in Split!Threads : j < aAt[t] - Start(t)}
ReadsCounted ==
  IF Split!Aggregates
  THEN \A t \in Split!Threads, j \in Split!Indices :
         Start(t) <= j /\ j < Start(t) + ChunkSize => aReads[j] = IF j < aAt[t] THEN 1 ELSE 0
  ELSE \A j \in Split!Indices : aReads[j] = Cardinality(ReadersOf(j))

SplitInd == Split!TypeOK /\ ChunkSummed /\ MainCounts /\ ReadsCounted

(* The list and its chunks: each begins where the one before it ends.       *)
LEMMA SplitFacts ==
  /\ SumThreads \in Nat \ {0} /\ ChunkSize \in Nat \ {0} /\ Length \in Nat
  /\ Split!Threads = 0..(SumThreads - 1) /\ Split!Indices = 0..(Length - 1)
  /\ IsFiniteSet(Split!Threads) /\ Cardinality(Split!Threads) = SumThreads
  /\ 0 \in Split!Threads
  <1>1. SumThreads \in Nat \ {0} /\ ChunkSize \in Nat \ {0}
    BY SplitAssumption DEF Split!SplitAssumption
  <1>2. Length \in Nat
    BY <1>1 DEF Length
  <1>3. Split!Threads = 0..(SumThreads - 1) /\ Split!Indices = 0..(Length - 1)
    BY DEF Split!Threads, Split!Indices, Length
  <1>4. IsFiniteSet(0..(SumThreads - 1)) /\ Cardinality(0..(SumThreads - 1)) = SumThreads
    BY <1>1, FS_Interval
  <1> QED BY <1>1, <1>2, <1>3, <1>4

(* Products of naturals grow by their second factor ...                     *)
LEMMA ProductStep ==
  ASSUME NEW m \in Nat, NEW c \in Nat
  PROVE  m * c \in Nat /\ (m + 1) * c = m * c + c
  BY SMT

(* ... and with their first.                                                *)
LEMMA ProductMonotone ==
  ASSUME NEW m \in Nat, NEW n \in Nat, NEW c \in Nat, m <= n
  PROVE  m * c <= n * c
  BY SMT

(* The chunks of the list follow each other and end with it.                *)
LEMMA ChunkFacts ==
  /\ Start(0) = 0
  /\ \A t \in 0..SumThreads : Start(t) \in 0..Length
  /\ Start(SumThreads) = Length
  /\ \A t \in Split!Threads : Start(t + 1) = Start(t) + ChunkSize /\ Start(t) + ChunkSize <= Length
  /\ \A t, u \in Split!Threads : t < u => Start(t) + ChunkSize <= Start(u)
  <1>1. \A t \in Nat : Start(t) = t * ChunkSize
    BY DEF Start, Split!start_index
  <1>2. Start(0) = 0 /\ Start(SumThreads) = Length
    BY <1>1, SplitFacts DEF Length
  <1>3. ASSUME NEW t \in 0..SumThreads PROVE Start(t) \in 0..Length
    <2>1. t \in Nat /\ t <= SumThreads /\ SumThreads \in Nat /\ ChunkSize \in Nat
      BY SplitFacts
    <2>2. t * ChunkSize \in Nat /\ t * ChunkSize <= SumThreads * ChunkSize
      BY <2>1, ProductStep, ProductMonotone
    <2>3. Start(t) = t * ChunkSize /\ Length = SumThreads * ChunkSize
      BY <1>1, <2>1 DEF Length
    <2>4. Start(t) \in Nat /\ Start(t) <= Length
      BY <2>2, <2>3
    <2> QED BY <2>4, SplitFacts
  <1>4. ASSUME NEW t \in Split!Threads
        PROVE  Start(t + 1) = Start(t) + ChunkSize /\ t \in 0..SumThreads /\ t + 1 \in 0..SumThreads
    BY <1>1, SplitFacts, ProductStep
  <1>5. ASSUME NEW t \in Split!Threads, NEW u \in Split!Threads, t < u
        PROVE  Start(t) + ChunkSize <= Start(u)
    <2>1. t + 1 \in Nat /\ u \in Nat /\ t + 1 <= u /\ ChunkSize \in Nat
      BY <1>5, SplitFacts
    <2>2. (t + 1) * ChunkSize <= u * ChunkSize
      BY <2>1, ProductMonotone
    <2>3. Start(t + 1) = (t + 1) * ChunkSize /\ Start(u) = u * ChunkSize
      BY <1>1, <2>1
    <2>4. Start(t + 1) <= Start(u)
      BY <2>2, <2>3
    <2> QED BY <1>4, <2>4
  <1>6. ASSUME NEW t \in Split!Threads PROVE Start(t) + ChunkSize <= Length
    BY <1>3, <1>4
  <1> QED BY <1>2, <1>3, <1>4, <1>5, <1>6

(* Sums of the list's front parts, and what a type of width w keeps.        *)
LEMMA ListFacts ==
  ASSUME Split!TypeOK
  PROVE  /\ Split!data \in [Split!Indices -> Nat] /\ Split!Width \in Widths
         /\ ~Split!Aggregates => \A j \in Split!Indices : Split!data[j] = 1
  <1>1. \A j \in Split!Indices : j + 1 \in Nat
    BY SplitFacts
  <1> QED BY <1>1 DEF Split!data, Split!Width, Widths

(* The sum of a front part grows by the next element, up to that of the list.*)
LEMMA PrefixFacts ==
  ASSUME NEW v \in [Split!Indices -> Nat], NEW k \in 0..Length
  PROVE  /\ Prefix(v, k) \in Nat /\ Prefix(v, 0) = 0
         /\ k < Length => Prefix(v, k + 1) = Prefix(v, k) + v[k]
         /\ Prefix(v, Length) = SumOf(v, Split!Indices)
  <1>1. \A m \in 0..Length : /\ IsFiniteSet(0..(m - 1)) /\ 0..(m - 1) \subseteq Split!Indices
                             /\ m - 1 \in Int
    BY SplitFacts, FS_Interval
  <1>2. Prefix(v, k) \in Nat
    BY <1>1, SumNat DEF Prefix
  <1>3. Prefix(v, 0) = 0
    <2>1. 0..(0 - 1) = {}
      OBVIOUS
    <2>2. SumOf(v, {}) = 0
      BY SumFirst, FS_EmptySet
    <2> QED BY <2>1, <2>2 DEF Prefix
  <1>4. ASSUME k < Length PROVE Prefix(v, k + 1) = Prefix(v, k) + v[k]
    <2> DEFINE S == 0..(k + 1 - 1)
    <2>1. k + 1 \in 0..Length /\ k \in S /\ S \ {k} = 0..(k - 1)
      BY <1>4, SplitFacts
    <2>2. IsFiniteSet(S) /\ \A x \in S : v[x] \in Nat
      BY <1>1, <2>1
    <2> HIDE DEF S
    <2>3. SumOf(v, S) = SumOf(v, S \ {k}) + v[k]
      BY <2>1, <2>2, SumRemove
    <2>4. Prefix(v, k + 1) = SumOf(v, S)
      <3>1. Prefix(v, k + 1) = SumOf(v, 0..((k + 1) - 1))
        BY Zenon DEF Prefix
      <3>2. (k + 1) - 1 = k + 1 - 1
        OBVIOUS
      <3>3. 0..((k + 1) - 1) = S
        BY Zenon, <3>2 DEF S
      <3> QED BY <3>1, <3>3
    <2>5. Prefix(v, k) = SumOf(v, S \ {k})
      BY <2>1 DEF Prefix
    <2> QED BY <2>3, <2>4, <2>5
  <1>5. Prefix(v, Length) = SumOf(v, Split!Indices)
    BY SplitFacts DEF Prefix
  <1> QED BY <1>2, <1>3, <1>4, <1>5

(* The types of the sums are uint8_t and uint16_t.                          *)
LEMMA WidthCases == ASSUME NEW w \in Widths PROVE w = 256 \/ w = 65536
  BY DEF Widths

(* They keep zero,                                                          *)
LEMMA KeptZero == ASSUME NEW w \in Widths PROVE Kept(w, 0) = 0
  <1>1. CASE w = 256
    <2>1. 0 % 256 = 0
      BY SMT
    <2> QED BY <1>1, <2>1 DEF Kept
  <1>2. CASE w = 65536
    <2>1. 0 % 65536 = 0
      BY SMT
    <2> QED BY <1>2, <2>1 DEF Kept
  <1> QED BY <1>1, <1>2, WidthCases

(* keep what is below their width,                                          *)
LEMMA KeptRange ==
  ASSUME NEW w \in Widths, NEW m \in Int
  PROVE  Kept(w, m) \in 0..(w - 1)
  <1> SUFFICES Kept(w, m) \in Int /\ 0 <= Kept(w, m) /\ Kept(w, m) < w
    <2>1. w \in Int
      BY WidthCases
    <2> QED BY <2>1
  <1>1. CASE w = 256
    <2>1. m % 256 \in Int /\ 0 <= m % 256 /\ m % 256 < 256
      BY SMT
    <2>2. Kept(w, m) = m % 256
      BY <1>1 DEF Kept
    <2> QED BY <1>1, <2>1, <2>2
  <1>2. CASE w = 65536
    <2>1. m % 65536 \in Int /\ 0 <= m % 65536 /\ m % 65536 < 65536
      BY SMT
    <2>2. Kept(w, m) = m % 65536
      BY <1>2 DEF Kept
    <2> QED BY <1>2, <2>1, <2>2
  <1> QED BY <1>1, <1>2, WidthCases

(* and it is all the same whether a summand was kept before                 *)
LEMMA KeptSum ==
  ASSUME NEW w \in Widths, NEW m \in Int, NEW n \in Int
  PROVE  Kept(w, Kept(w, m) + n) = Kept(w, m + n)
  <1>1. CASE w = 256
    <2>1. ((m % 256) + n) % 256 = (m + n) % 256
      BY SMT
    <2> QED BY <1>1, <2>1 DEF Kept
  <1>2. CASE w = 65536
    <2>1. ((m % 65536) + n) % 65536 = (m + n) % 65536
      BY SMT
    <2> QED BY <1>2, <2>1 DEF Kept
  <1> QED BY <1>1, <1>2, WidthCases

(* or both were.                                                            *)
LEMMA KeptSums ==
  ASSUME NEW w \in Widths, NEW m \in Int, NEW n \in Int
  PROVE  Kept(w, Kept(w, m) + Kept(w, n)) = Kept(w, m + n)
  <1>1. CASE w = 256
    <2>1. ((m % 256) + (n % 256)) % 256 = (m + n) % 256
      BY SMT
    <2> QED BY <1>1, <2>1 DEF Kept
  <1>2. CASE w = 65536
    <2>1. ((m % 65536) + (n % 65536)) % 65536 = (m + n) % 65536
      BY SMT
    <2> QED BY <1>2, <2>1 DEF Kept
  <1> QED BY <1>1, <1>2, WidthCases

(* The thread after the last one is the first.                              *)
LEMMA RoundFacts ==
  ASSUME NEW k \in Split!Threads
  PROVE  /\ (k + 1) % SumThreads = (IF k + 1 = SumThreads THEN 0 ELSE k + 1)
         /\ k + 1 # SumThreads => k + 1 \in Split!Threads
  <1>1. k \in Nat /\ SumThreads \in Nat \ {0} /\ k + 1 <= SumThreads
    BY SplitFacts
  <1>2. k + 1 < SumThreads => (k + 1) % SumThreads = k + 1
    BY <1>1, SMT
  <1>3. SumThreads % SumThreads = 0
    BY <1>1, SMT
  <1>4. k + 1 # SumThreads => k + 1 \in Split!Threads /\ k + 1 < SumThreads
    BY <1>1, SplitFacts
  <1>5. k + 1 = SumThreads => (k + 1) % SumThreads = 0
    BY <1>3
  <1> QED BY <1>2, <1>4, <1>5

(* Every index is in some thread's chunk.                                   *)
LEMMA ChunksCover ==
  ASSUME NEW j \in Split!Indices
  PROVE  \E t \in Split!Threads : Start(t) <= j /\ j < Start(t) + ChunkSize
  <1> DEFINE Above == {m \in 0..SumThreads : j < Start(m)}
  <1>1. j \in Nat /\ SumThreads \in Above
    BY SplitFacts, ChunkFacts
  <1>2. PICK m \in Above : \A n \in Above : ~(n < m)
    <2>1. Above \subseteq Nat /\ Above # {}
      BY <1>1, SplitFacts
    <2> HIDE DEF Above
    <2>2. PICK m \in Above : \A n \in Above : ~(<<n, m>> \in OpToRel(<, Nat))
      BY <2>1, NatLessThanWellFounded, WFMin
    <2>3. \A n \in Above : <<n, m>> \in OpToRel(<, Nat) <=> n < m
      BY <2>1 DEF OpToRel
    <2> QED BY <2>2, <2>3
  <1>3. m \in Nat /\ m # 0 /\ m <= SumThreads /\ SumThreads \in Nat /\ j < Start(m)
    BY <1>1, ChunkFacts, SplitFacts
  <1> DEFINE t == m - 1
  <1>4. t \in Split!Threads /\ t \in 0..SumThreads /\ t + 1 = m /\ t < m
    BY <1>3, SplitFacts
  <1>5. ~(j < Start(t))
    BY <1>2, <1>4
  <1>6. Start(t) \in Nat /\ Start(t + 1) = Start(t) + ChunkSize /\ Start(t + 1) = Start(m)
    BY <1>4, ChunkFacts, SplitFacts
  <1> HIDE DEF t
  <1> QED BY <1>1, <1>3, <1>4, <1>5, <1>6

(* What the type invariant says of the program's variables.                 *)
LEMMA SplitTyped ==
  ASSUME Split!TypeOK
  PROVE  /\ aPc \in [Split!Threads -> {"unborn", "sum", "done"}]
         /\ aAt \in [Split!Threads -> 0..Length]
         /\ aPartial \in [Split!Threads -> 0..(Split!Width - 1)]
         /\ aSums \in [Split!Threads -> 0..(Split!Width - 1)]
         /\ aTotal \in 0..(Split!Width - 1)
         /\ aReads \in [Split!Indices -> 0..SumThreads]
         /\ aCount \in Split!Threads
         /\ aKind \in {"aggregator", "concurrent"}
         /\ aMain \in {"create", "join", "add", "done", "exited"}
  BY DEF Split!TypeOK, Length

(* No thread has begun.                                                     *)
LEMMA SplitInit == Split!Init => SplitInd
  <1> SUFFICES ASSUME Split!Init PROVE SplitInd
    OBVIOUS
  <1> USE DEF Split!Init
  <1>1. Split!TypeOK
    <2>1. \A t \in Split!Threads : Split!start_index(t) \in 0..Length
      BY ChunkFacts, SplitFacts DEF Start
    <2>2. 0 \in 0..(Split!Width - 1) /\ 0 \in 0..SumThreads
      BY SplitFacts DEF Split!Width
    <2>3. aKind \in {"aggregator", "concurrent"}
      BY DEF Split!Kinds
    <2> QED BY <2>1, <2>2, <2>3, SplitFacts DEF Split!TypeOK, Length
  <1>2. \A t \in Split!Threads : aAt[t] = Start(t) /\ aPartial[t] = 0 /\ aPc[t] = "unborn"
    BY DEF Start
  <1>3. ChunkSummed
    <2> SUFFICES ASSUME NEW t \in Split!Threads
                 PROVE  /\ Start(t) \in Start(t) .. Start(t) + ChunkSize
                        /\ 0 = Kept(Split!Width,
                                    Prefix(Split!data, Start(t)) - Prefix(Split!data, Start(t)))
      BY <1>2 DEF ChunkSummed
    <2>1. Start(t) \in 0..Length /\ ChunkSize \in Nat
      BY ChunkFacts, SplitFacts
    <2>2. Prefix(Split!data, Start(t)) \in Nat
      BY <1>1, <2>1, ListFacts, PrefixFacts
    <2>3. Prefix(Split!data, Start(t)) - Prefix(Split!data, Start(t)) = 0
      BY <2>2
    <2>4. Kept(Split!Width, 0) = 0
      <3>1. Split!Width \in Widths /\ 0 \in Int
        BY <1>1, ListFacts
      <3> QED BY <3>1, KeptZero
    <2>5. Start(t) \in Start(t) .. Start(t) + ChunkSize
      BY <2>1, SplitFacts
    <2> QED BY <2>3, <2>4, <2>5
  <1>4. MainCounts
    BY DEF MainCounts
  <1>5. ReadsCounted
    <2>1. \A j \in Split!Indices : aReads[j] = 0
      OBVIOUS
    <2>2. ASSUME NEW j \in Split!Indices PROVE ReadersOf(j) = {}
      <3>1. \A t \in Split!Threads : Start(t) \in Nat
        BY ChunkFacts, SplitFacts
      <3>2. j \in Nat
        BY SplitFacts
      <3> QED BY <1>2, <3>1, <3>2 DEF ReadersOf
    <2>3. \A j \in Split!Indices : Cardinality(ReadersOf(j)) = 0
      BY <2>2, FS_EmptySet
    <2>4. \A t \in Split!Threads, j \in Split!Indices :
            Start(t) <= j => ~(j < Start(t)) /\ Start(t) \in Nat /\ j \in Nat
      BY ChunkFacts, SplitFacts
    <2> QED BY <1>2, <2>1, <2>3, <2>4 DEF ReadsCounted
  <1> QED BY <1>1, <1>3, <1>4, <1>5 DEF SplitInd

(* A thread's next element is in its chunk; the sum that the thread has then
   is that of one element more.                                             *)
LEMMA NextElement ==
  ASSUME NEW t \in Split!Threads, SplitInd, Split!AddElement(t)
  PROVE  /\ aPc[t] = "sum"
         /\ Start(t) <= aAt[t] /\ aAt[t] < Start(t) + ChunkSize
         /\ aAt[t] \in Split!Indices /\ aAt[t] + 1 \in 0..Length
         /\ aAt[t] - Start(t) \in Split!Indices
         /\ aAt' = [aAt EXCEPT ![t] = aAt[t] + 1]
         /\ \A u \in Split!Threads \ {t} : aPartial'[u] = aPartial[u]
         /\ aPartial'[t] \in 0..(Split!Width - 1)
         /\ aPartial'[t] =
              Kept(Split!Width, Prefix(Split!data, aAt[t] + 1) - Prefix(Split!data, Start(t)))
  <1> USE DEF SplitInd
  <1> DEFINE a == aAt[t]
             s == Start(t)
  <1>1. a \in Nat /\ s \in Nat /\ ChunkSize \in Nat /\ Length \in Nat /\ s <= a
        /\ s + ChunkSize <= Length /\ s \in 0..Length
    BY SplitTyped, ChunkFacts, SplitFacts DEF ChunkSummed
  <1>2. a < s + ChunkSize
    <2>1. Split!More(t)
      BY DEF Split!AddElement
    <2>2. IF Split!Aggregates THEN a <= s + (ChunkSize - 1) ELSE a < s + ChunkSize
      BY <2>1 DEF Split!More, Split!end_index, Start
    <2> HIDE DEF a, s
    <2> QED BY <1>1, <2>2
  <1>3. /\ a \in 0..(Length - 1) /\ a + 1 \in 0..Length /\ a \in 0..Length
        /\ a - s \in 0..(Length - 1) /\ a < Length
    <2> HIDE DEF a, s
    <2> QED BY <1>1, <1>2
  <1>4. a \in Split!Indices /\ a - s \in Split!Indices
    BY <1>3, SplitFacts
  <1> DEFINE v == Split!data
             w == Split!Width
             x == Split!data[Split!Position(t)]
             pa == Prefix(v, a)
             ps == Prefix(v, s)
  <1>5. x = v[a] /\ v[a] \in Nat
    <2>1. Split!Position(t) = IF Split!Aggregates THEN a ELSE a - s
      BY DEF Split!Position, Start
    <2>2. ~Split!Aggregates => v[a - s] = 1 /\ v[a] = 1
      BY <1>4, ListFacts
    <2>3. v[a] \in Nat
      BY <1>4, ListFacts
    <2> QED BY <2>1, <2>2, <2>3
  <1>6. /\ pa \in Nat /\ ps \in Nat /\ Prefix(v, a + 1) = pa + v[a]
        /\ w \in Widths
    <2>1. v \in [Split!Indices -> Nat] /\ w \in Widths
      BY ListFacts
    <2> HIDE DEF v, w, a, s
    <2> QED BY <1>1, <1>3, <2>1, PrefixFacts DEF pa, ps
  <1>7. aPartial[t] = Kept(w, pa - ps)
    BY DEF ChunkSummed
  <1>8. aPartial' = [aPartial EXCEPT ![t] = (aPartial[t] + x) % w]
        /\ aAt' = [aAt EXCEPT ![t] = a + 1] /\ aPc[t] = "sum"
    BY DEF Split!AddElement
  <1>9. aPartial'[t] = (aPartial[t] + x) % w
        /\ \A u \in Split!Threads \ {t} : aPartial'[u] = aPartial[u]
    BY <1>8, SplitTyped, Zenon
  <1>10. aPartial'[t] = Kept(w, Prefix(v, a + 1) - ps) /\ aPartial'[t] \in 0..(w - 1)
    <2> HIDE DEF a, s, v, w, x, pa, ps
    <2> DEFINE m == pa - ps
               n == v[a]
    <2>1. m \in Int /\ n \in Int /\ m + n = Prefix(v, a + 1) - ps
      BY <1>5, <1>6
    <2>2. aPartial'[t] = Kept(w, Kept(w, m) + n)
      BY <1>5, <1>7, <1>9 DEF Kept
    <2>3. m + n \in Int
      BY <2>1
    <2> HIDE DEF m, n
    <2>4. Kept(w, Kept(w, m) + n) = Kept(w, m + n) /\ Kept(w, m + n) \in 0..(w - 1)
      BY <1>6, <2>1, <2>3, KeptSum, KeptRange
    <2> QED BY <2>1, <2>2, <2>4
  <1> QED BY <1>1, <1>2, <1>3, <1>4, <1>8, <1>9, <1>10

(* A thread that adds an element counts it once among what it has read.     *)
LEMMA ElementRead ==
  ASSUME NEW t \in Split!Threads, SplitInd, Split!AddElement(t)
  PROVE  ReadsCounted' /\ aReads' \in [Split!Indices -> 0..SumThreads]
  <1> USE DEF SplitInd
  <1> DEFINE a == aAt[t]
             p == IF Split!Aggregates THEN a ELSE a - Start(t)
  <1>1. aReads' = [aReads EXCEPT ![p] = aReads[p] + 1] /\ UNCHANGED aKind
    BY DEF Split!AddElement, Split!Position, Start
  <1>2. /\ p \in Split!Indices /\ aAt' = [aAt EXCEPT ![t] = a + 1]
        /\ Start(t) <= a /\ a < Start(t) + ChunkSize /\ a \in Split!Indices
    BY NextElement
  <1>3. /\ aReads \in [Split!Indices -> 0..SumThreads] /\ aAt \in [Split!Threads -> 0..Length]
    BY SplitTyped
  <1>4. aReads'[p] = aReads[p] + 1 /\ \A j \in Split!Indices \ {p} : aReads'[j] = aReads[j]
    <2> HIDE DEF p
    <2> QED BY <1>1, <1>2, <1>3
  <1>5. aAt'[t] = a + 1 /\ \A u \in Split!Threads \ {t} : aAt'[u] = aAt[u]
    BY <1>2, <1>3
  <1>6. \A j \in Split!Indices : j \in Nat /\ j \in Int
    BY SplitFacts
  <1>7. \A u \in Split!Threads : Start(u) \in Nat /\ Start(u) \in 0..Length
    BY ChunkFacts, SplitFacts
  <1>8. SumThreads \in Nat \ {0} /\ ChunkSize \in Nat \ {0} /\ a \in Nat
    BY <1>2, <1>6, SplitFacts
  <1>9. CASE Split!Aggregates
    <2>1. p = a
      BY <1>9
    <2>2. \A u \in Split!Threads, j \in Split!Indices :
            Start(u) <= j /\ j < Start(u) + ChunkSize => aReads[j] = IF j < aAt[u] THEN 1 ELSE 0
      BY <1>9 DEF ReadsCounted
    <2>3. aReads[a] = 0
      BY <1>2, <1>8, <2>2
    <2>4. ASSUME NEW u \in Split!Threads, NEW j \in Split!Indices,
                 Start(u) <= j, j < Start(u) + ChunkSize
          PROVE  aReads'[j] = IF j < aAt'[u] THEN 1 ELSE 0
      <3>1. aReads[j] = IF j < aAt[u] THEN 1 ELSE 0
        BY <2>2, <2>4
      <3>2. CASE j = a
        <4>1. u = t
          <5>1. t < u => Start(t) + ChunkSize <= Start(u)
            BY ChunkFacts
          <5>2. u < t => Start(u) + ChunkSize <= Start(t)
            BY ChunkFacts
          <5>3. u \in Nat /\ t \in Nat
            BY SplitFacts
          <5>4. ~(t < u) /\ ~(u < t)
            BY <1>2, <1>6, <1>7, <1>8, <2>4, <3>2, <5>1, <5>2
          <5> QED BY <5>3, <5>4
        <4>2. aReads'[a] = 1 /\ aAt'[t] = a + 1
          BY <1>4, <1>5, <2>1, <2>3
        <4> QED BY <1>8, <3>2, <4>1, <4>2
      <3>3. CASE j # a
        <4>1. aReads'[j] = aReads[j]
          BY <1>4, <2>1, <3>3
        <4>2. j < aAt'[u] <=> j < aAt[u]
          <5>1. CASE u = t
            <6>1. j < a + 1 <=> j < a
              BY <1>6, <1>8, <3>3
            <6> QED BY <1>5, <5>1, <6>1
          <5>2. CASE u # t
            BY <1>5, <5>2
          <5> QED BY <5>1, <5>2
        <4> QED BY <3>1, <4>1, <4>2
      <3> QED BY <3>2, <3>3
    <2>5. ReadsCounted'
      <3>1. Split!Aggregates'
        BY <1>1, <1>9 DEF Split!Aggregates
      <3> QED BY <2>4, <3>1 DEF ReadsCounted, Start, Split!start_index
    <2>6. aReads'[p] \in 0..SumThreads
      BY <1>4, <1>8, <2>1, <2>3
    <2> QED BY <1>1, <1>3, <2>5, <2>6
  <1>10. CASE ~Split!Aggregates
    <2>1. p = a - Start(t) /\ p \in Nat
      BY <1>2, <1>6, <1>10
    <2>2. \A j \in Split!Indices : aReads[j] = Cardinality(ReadersOf(j))
      BY <1>10 DEF ReadsCounted
    <2>3. \A j \in Split!Indices :
            ReadersOf(j)' = {u \in Split!Threads : j < aAt'[u] - Start(u)}
      BY DEF ReadersOf, Start, Split!start_index, Split!Threads
    <2>4. ASSUME NEW j \in Split!Indices
          PROVE  /\ IsFiniteSet(ReadersOf(j)') /\ Cardinality(ReadersOf(j)') \in 0..SumThreads
                 /\ IsFiniteSet(ReadersOf(j))
      <3>1. ReadersOf(j)' \subseteq Split!Threads /\ ReadersOf(j) \subseteq Split!Threads
        BY <2>3 DEF ReadersOf
      <3>2. IsFiniteSet(Split!Threads) /\ Cardinality(Split!Threads) = SumThreads
        BY SplitFacts
      <3>3. /\ IsFiniteSet(ReadersOf(j)') /\ Cardinality(ReadersOf(j)') <= Cardinality(Split!Threads)
            /\ IsFiniteSet(ReadersOf(j))
        BY <3>1, <3>2, FS_Subset
      <3>4. Cardinality(ReadersOf(j)') \in Nat
        BY <3>3, FS_CardinalityType
      <3> QED BY <1>8, <3>2, <3>3, <3>4
    <2>5. ASSUME NEW j \in Split!Indices PROVE aReads'[j] = Cardinality(ReadersOf(j)')
      <3>1. CASE j = p
        <4>1. t \notin ReadersOf(j)
          <5>1. ~(p < a - Start(t))
            BY <2>1
          <5> QED BY <3>1, <5>1 DEF ReadersOf
        <4>2. ReadersOf(j)' = ReadersOf(j) \cup {t}
          <5>1. p < (a + 1) - Start(t)
            BY <1>7, <1>8, <2>1
          <5>2. ASSUME NEW u \in Split!Threads
                PROVE  j < aAt'[u] - Start(u) <=> j < aAt[u] - Start(u) \/ u = t
            <6>1. CASE u = t
              <7>1. aAt'[u] - Start(u) = (a + 1) - Start(t)
                BY <1>5, <6>1
              <7> QED BY <3>1, <5>1, <6>1, <7>1
            <6>2. CASE u # t
              BY <1>5, <6>2
            <6> QED BY <6>1, <6>2
          <5> QED BY <2>3, <5>2 DEF ReadersOf
        <4>3. Cardinality(ReadersOf(j)') = Cardinality(ReadersOf(j)) + 1
          BY <2>4, <4>1, <4>2, FS_AddElement
        <4> QED BY <1>4, <2>2, <3>1, <4>3
      <3>2. CASE j # p
        <4>1. j < (a + 1) - Start(t) <=> j < a - Start(t)
          <5>1. j # a - Start(t)
            BY <2>1, <3>2
          <5> QED BY <1>6, <1>7, <1>8, <5>1
        <4>2. ReadersOf(j)' = ReadersOf(j)
          <5>1. ASSUME NEW u \in Split!Threads
                PROVE  j < aAt'[u] - Start(u) <=> j < aAt[u] - Start(u)
            <6>1. CASE u = t
              <7>1. aAt'[u] - Start(u) = (a + 1) - Start(t) /\ aAt[u] - Start(u) = a - Start(t)
                BY <1>5, <6>1
              <7> QED BY <4>1, <7>1
            <6>2. CASE u # t
              BY <1>5, <6>2
            <6> QED BY <6>1, <6>2
          <5> QED BY <2>3, <5>1 DEF ReadersOf
        <4> QED BY <1>4, <2>2, <3>2, <4>2
      <3> QED BY <3>1, <3>2
    <2>6. ReadsCounted'
      <3>1. ~Split!Aggregates'
        BY <1>1, <1>10 DEF Split!Aggregates
      <3>2. \A j \in Split!Indices : aReads'[j] = Cardinality(ReadersOf(j))'
        BY <2>5, Zenon
      <3> QED BY <3>1, <3>2 DEF ReadsCounted
    <2>7. aReads'[p] \in 0..SumThreads
      BY <1>2, <2>4, <2>5
    <2> QED BY <1>1, <1>3, <2>6, <2>7
  <1> QED BY <1>9, <1>10

(* A thread's own step.                                                     *)
LEMMA ThreadSums ==
  ASSUME NEW t \in Split!Threads, SplitInd, Split!partial_sum(t)
  PROVE  SplitInd'
  <1> USE DEF SplitInd
  <1> DEFINE W == 0..(Split!Width - 1)
  <1>1. UNCHANGED <<aKind, aCount, aSums, aTotal>>
    BY DEF Split!partial_sum, Split!AddElement, Split!ReturnSum, Split!OutOfMemory
  <1>2. Split!data' = Split!data /\ Split!Width' = Split!Width
    BY <1>1 DEF Split!data, Split!Width, Split!Aggregates
  <1>3. ASSUME NEW u \in Split!Threads PROVE Start(u)' = Start(u)
    BY DEF Start, Split!start_index
  <1>4. CASE Split!AddElement(t)
    <2>1. aPc[t] = "sum" /\ UNCHANGED <<aMain, aPc>>
      BY <1>4 DEF Split!AddElement
    <2> DEFINE a == aAt[t]
               v == Split!data
               w == Split!Width
    <2>2. /\ Start(t) <= a /\ a < Start(t) + ChunkSize /\ a \in Split!Indices /\ a + 1 \in 0..Length
          /\ aAt' = [aAt EXCEPT ![t] = a + 1]
          /\ aPartial'[t] \in W
          /\ aPartial'[t] = Kept(w, Prefix(v, a + 1) - Prefix(v, Start(t)))
          /\ \A u \in Split!Threads \ {t} : aPartial'[u] = aPartial[u]
      BY <1>4, NextElement
    <2>3. aAt'[t] = a + 1 /\ \A u \in Split!Threads \ {t} : aAt'[u] = aAt[u]
      BY <2>2, SplitTyped
    <2>4. Split!TypeOK'
      <3>1. aReads' \in [Split!Indices -> 0..SumThreads]
        BY <1>4, ElementRead
      <3>2. aAt' \in [Split!Threads -> 0..Length]
        BY <2>2, SplitTyped
      <3>3. aPartial' \in [Split!Threads -> W]
        <4>1. aPartial' = [aPartial EXCEPT ![t] = aPartial'[t]]
          <5>1. aPartial' = [aPartial EXCEPT ![t] =
                               (aPartial[t] + Split!data[Split!Position(t)]) % Split!Width]
            BY <1>4 DEF Split!AddElement
          <5> QED BY <5>1, SplitTyped
        <4>2. aPartial \in [Split!Threads -> W] /\ aPartial'[t] \in W
          BY <2>2, SplitTyped
        <4> HIDE DEF W
        <4> QED BY <4>1, <4>2
      <3>4. Split!TypeOK
        OBVIOUS
      <3> QED
        BY <1>1, <1>2, <2>1, <3>1, <3>2, <3>3, <3>4
        DEF Split!TypeOK, Length, Split!Threads, Split!Indices
    <2>5. ChunkSummed'
      <3>1. ASSUME NEW u \in Split!Threads
            PROVE  /\ aAt'[u] \in Start(u) .. Start(u) + ChunkSize
                   /\ aPc'[u] = "done" => aAt'[u] = Start(u) + ChunkSize
                   /\ aPartial'[u] = Kept(w, Prefix(v, aAt'[u]) - Prefix(v, Start(u)))
        <4>1. CASE u = t
          <5>1. Start(t) \in Nat /\ ChunkSize \in Nat /\ a \in Nat
            BY <2>2, ChunkFacts, SplitFacts
          <5>2. a + 1 \in Start(t) .. Start(t) + ChunkSize
            BY <2>2, <5>1
          <5>3. aPc'[u] # "done"
            BY <2>1, <4>1
          <5> QED BY <2>2, <2>3, <4>1, <5>2, <5>3
        <4>2. CASE u # t
          BY <2>1, <2>2, <2>3, <4>2 DEF ChunkSummed
        <4> QED BY <4>1, <4>2
      <3> QED
        BY <1>2, <3>1 DEF ChunkSummed, Split!Threads, Start, Split!start_index, Kept, Prefix
    <2>6. MainCounts'
      <3>1. \A u \in Split!Threads : aPc[u] = "done" => aPartial'[u] = aPartial[u]
        BY <2>1, <2>2
      <3> QED
        BY <1>1, <1>2, <2>1, <3>1
        DEF MainCounts, Split!Threads, Start, Split!start_index, Kept, Prefix
    <2>7. ReadsCounted'
      BY <1>4, ElementRead
    <2> QED BY <2>4, <2>5, <2>6, <2>7
  <1>5. CASE Split!ReturnSum(t)
    <2>1. /\ aPc[t] = "sum" /\ ~Split!More(t) /\ aPc' = [aPc EXCEPT ![t] = "done"]
          /\ UNCHANGED <<aMain, aAt, aPartial, aReads>>
      BY <1>5 DEF Split!ReturnSum
    <2>2. aPc'[t] = "done" /\ \A u \in Split!Threads \ {t} : aPc'[u] = aPc[u]
      BY <2>1, SplitTyped
    <2>3. Split!TypeOK'
      BY <1>1, <1>2, <2>1 DEF Split!TypeOK, Split!Threads, Split!Indices
    <2>4. aAt[t] = Start(t) + ChunkSize
      <3>1. IF Split!Aggregates THEN ~(aAt[t] <= Start(t) + (ChunkSize - 1))
                                ELSE ~(aAt[t] < Start(t) + ChunkSize)
        BY <2>1 DEF Split!More, Split!end_index, Start
      <3>2. /\ Start(t) \in Nat /\ ChunkSize \in Nat /\ aAt[t] \in Nat
            /\ aAt[t] \in Start(t) .. Start(t) + ChunkSize
        BY ChunkFacts, SplitFacts, SplitTyped DEF ChunkSummed
      <3> QED BY <3>1, <3>2
    <2>5. ChunkSummed'
      <3>1. ASSUME NEW u \in Split!Threads
            PROVE  aPc'[u] = "done" => aAt[u] = Start(u) + ChunkSize
        BY <2>2, <2>4 DEF ChunkSummed
      <3> QED
        BY <1>2, <2>1, <3>1
        DEF ChunkSummed, Split!Threads, Start, Split!start_index, Kept, Prefix
    <2>6. MainCounts'
      <3>1. \A u \in Split!Threads : aPc[u] = "done" => aPc'[u] = "done"
        BY <2>2
      <3> QED
        BY <1>1, <1>2, <2>1, <3>1
        DEF MainCounts, Split!Threads, Start, Split!start_index, Kept, Prefix
    <2>7. ReadsCounted'
      BY <1>1, <2>1 DEF ReadsCounted, ReadersOf, Split!Aggregates, Split!Threads, Split!Indices,
                        Start, Split!start_index
    <2> QED BY <2>3, <2>5, <2>6, <2>7
  <1>6. CASE Split!OutOfMemory(t)
    <2>1. aMain' = "exited" /\ UNCHANGED <<aPc, aAt, aPartial, aReads>>
      BY <1>6 DEF Split!OutOfMemory
    <2>2. Split!TypeOK'
      BY <1>1, <1>2, <2>1 DEF Split!TypeOK, Split!Threads, Split!Indices
    <2>3. ChunkSummed'
      BY <1>2, <2>1 DEF ChunkSummed, Split!Threads, Start, Split!start_index, Kept, Prefix
    <2>4. MainCounts'
      BY <2>1 DEF MainCounts
    <2>5. ReadsCounted'
      BY <1>1, <2>1 DEF ReadsCounted, ReadersOf, Split!Aggregates, Split!Threads, Split!Indices,
                        Start, Split!start_index
    <2> QED BY <2>2, <2>3, <2>4, <2>5
  <1> QED BY <1>4, <1>5, <1>6 DEF Split!partial_sum

(* main goes on with the next thread, or after the last one with its next loop. *)
LEMMA MainMoves ==
  ASSUME SplitInd, NEW next, Split!Onward(next)
  PROVE  /\ aCount + 1 = SumThreads => aCount' = 0 /\ aMain' = next
         /\ aCount + 1 # SumThreads => aCount' = aCount + 1 /\ aMain' = aMain /\ aCount + 1 # 0
         /\ aCount' \in Split!Threads
         /\ \A t \in Split!Threads : t < aCount + 1 <=> t < aCount \/ t = aCount
         /\ \A t \in Split!Threads : aCount + 1 = SumThreads => t < aCount + 1
  <1> USE DEF SplitInd
  <1>1. aCount \in Split!Threads /\ 0 \in Split!Threads
    BY SplitTyped, SplitFacts
  <1>2. aCount' = (aCount + 1) % SumThreads /\ aMain' = IF aCount' = 0 THEN next ELSE aMain
    BY DEF Split!Onward
  <1>3. /\ (aCount + 1) % SumThreads = (IF aCount + 1 = SumThreads THEN 0 ELSE aCount + 1)
        /\ aCount + 1 # SumThreads => aCount + 1 \in Split!Threads
    BY <1>1, RoundFacts
  <1>4. aCount + 1 # 0
    BY <1>1, SplitFacts
  <1>5. \A t \in Split!Threads : t < aCount + 1 <=> t < aCount \/ t = aCount
    BY <1>1, SplitFacts
  <1>6. \A t \in Split!Threads : t < SumThreads
    BY SplitFacts
  <1>7. aCount' = IF aCount + 1 = SumThreads THEN 0 ELSE aCount + 1
    BY <1>2, <1>3
  <1> QED BY <1>1, <1>2, <1>3, <1>4, <1>5, <1>6, <1>7

(* What no step of main touches.                                            *)
LEMMA MainKeeps ==
  ASSUME SplitInd, UNCHANGED <<aKind, aAt, aPartial, aReads>>,
         \A t \in Split!Threads : aPc'[t] = "done" => aPc[t] = "done"
  PROVE  ChunkSummed' /\ ReadsCounted' /\ Split!data' = Split!data /\ Split!Width' = Split!Width
  <1> USE DEF SplitInd
  <1>1. Split!data' = Split!data /\ Split!Width' = Split!Width
    BY DEF Split!data, Split!Width, Split!Aggregates
  <1>2. ChunkSummed'
    BY <1>1 DEF ChunkSummed, Split!Threads, Start, Split!start_index, Kept, Prefix
  <1>3. ReadsCounted'
    BY DEF ReadsCounted, ReadersOf, Split!Aggregates, Split!Threads, Split!Indices,
           Start, Split!start_index
  <1> QED BY <1>1, <1>2, <1>3

(* A thread that is through has the sum of its chunk, and with it the total of
   the chunks before becomes that of one chunk more.                        *)
LEMMA ChunkAdded ==
  ASSUME NEW t \in Split!Threads, SplitInd, aPc[t] = "done"
  PROVE  /\ Kept(Split!Width, Kept(Split!Width, Prefix(Split!data, Start(t))) + aPartial[t]) =
              Kept(Split!Width, Prefix(Split!data, Start(t + 1)))
         /\ Kept(Split!Width, Prefix(Split!data, Start(t + 1))) \in 0..(Split!Width - 1)
  <1> DEFINE v == Split!data
             w == Split!Width
             s == Start(t)
             e == Start(t + 1)
             m == Prefix(v, s)
             n == Prefix(v, e) - Prefix(v, s)
  <1>1. v \in [Split!Indices -> Nat] /\ w \in Widths
    BY ListFacts DEF SplitInd
  <1>2. s \in 0..Length /\ e \in 0..Length /\ e = s + ChunkSize
    <2>1. t \in 0..SumThreads /\ t + 1 \in 0..SumThreads
      BY SplitFacts
    <2> QED BY <2>1, ChunkFacts
  <1>3. aPartial[t] = Kept(w, n)
    BY <1>2 DEF SplitInd, ChunkSummed
  <1>4. m \in Nat /\ Prefix(v, e) \in Nat
    <2> HIDE DEF v, s, e
    <2> QED BY <1>1, <1>2, PrefixFacts
  <1>5. m \in Int /\ n \in Int /\ m + n = Prefix(v, e) /\ Prefix(v, e) \in Int
    <2> HIDE DEF v, s, e
    <2> QED BY <1>4
  <1> HIDE DEF v, w, s, e, m, n
  <1>6. Kept(w, Kept(w, m) + Kept(w, n)) = Kept(w, Prefix(v, e))
    BY <1>1, <1>5, KeptSums
  <1>7. Kept(w, Prefix(v, e)) \in 0..(w - 1)
    BY <1>1, <1>5, KeptRange
  <1> QED BY <1>3, <1>6, <1>7 DEF v, w, s, e, m

(* main's own steps.                                                        *)
LEMMA MainSums ==
  ASSUME SplitInd, Split!spawn_workers
  PROVE  SplitInd'
  <1> USE DEF SplitInd
  <1> DEFINE c == aCount
             w == Split!Width
             v == Split!data
  <1>0. c \in Split!Threads /\ w \in Widths /\ v \in [Split!Indices -> Nat]
    BY SplitTyped, ListFacts
  <1>1. CASE Split!Create
    <2>1. /\ aMain = "create" /\ aPc' = [aPc EXCEPT ![c] = "sum"]
          /\ UNCHANGED <<aKind, aAt, aPartial, aSums, aTotal, aReads>>
      BY <1>1 DEF Split!Create
    <2>2. aMain' \in {"create", "join"} /\ c' \in Split!Threads /\ (aMain' = "join" => c' = 0)
      BY <1>1, <2>1, MainMoves DEF Split!Create
    <2>3. aPc' \in [Split!Threads -> {"unborn", "sum", "done"}]
          /\ \A t \in Split!Threads : aPc'[t] = "done" => aPc[t] = "done"
      BY <1>0, <2>1, SplitTyped
    <2>4. /\ ChunkSummed' /\ ReadsCounted' /\ v' = v /\ w' = w
      BY <2>1, <2>3, MainKeeps
    <2>5. Split!TypeOK'
      BY <2>1, <2>2, <2>3, <2>4 DEF Split!TypeOK, Split!Threads, Split!Indices
    <2>6. MainCounts'
      <3>1. \A t \in Split!Threads : ~(t < 0)
        BY SplitFacts
      <3> QED BY <2>1, <2>2, <3>1 DEF MainCounts, Split!Threads
    <2> QED BY <2>4, <2>5, <2>6
  <1>2. CASE Split!Join
    <2>1. /\ aMain = "join" /\ aPc[c] = "done" /\ aSums' = [aSums EXCEPT ![c] = aPartial[c]]
          /\ UNCHANGED <<aKind, aPc, aAt, aPartial, aTotal, aReads>>
      BY <1>2 DEF Split!Join, Split!Joined
    <2>2. /\ c + 1 = SumThreads => c' = 0 /\ aMain' = "add"
          /\ c + 1 # SumThreads => c' = c + 1 /\ aMain' = "join"
          /\ c' \in Split!Threads
          /\ \A t \in Split!Threads : t < c + 1 <=> t < c \/ t = c
          /\ \A t \in Split!Threads : c + 1 = SumThreads => t < c + 1
      BY <1>2, <2>1, MainMoves DEF Split!Join
    <2>3. ChunkSummed' /\ ReadsCounted' /\ v' = v /\ w' = w
      BY <2>1, MainKeeps
    <2>4. aSums'[c] = aPartial[c] /\ \A t \in Split!Threads \ {c} : aSums'[t] = aSums[t]
      BY <1>0, <2>1, SplitTyped
    <2>5. Split!TypeOK'
      <3>1. aSums' \in [Split!Threads -> 0..(Split!Width - 1)]
        <4> DEFINE W == 0..(Split!Width - 1)
        <4>1. aSums \in [Split!Threads -> W] /\ aPartial \in [Split!Threads -> W]
          BY SplitTyped
        <4> HIDE DEF W
        <4>2. aSums' \in [Split!Threads -> W]
          BY <1>0, <2>1, <4>1
        <4> QED BY <4>2 DEF W
      <3>2. aMain' \in {"join", "add"}
        BY <2>2
      <3> QED BY <2>1, <2>2, <2>3, <3>1, <3>2 DEF Split!TypeOK, Split!Threads, Split!Indices
    <2>6. ASSUME NEW t \in Split!Threads, t < c + 1
          PROVE  aPc[t] = "done" /\ aSums'[t] = aPartial[t]
      BY <2>1, <2>2, <2>4, <2>6 DEF MainCounts
    <2>7. MainCounts'
      <3>1. CASE c + 1 = SumThreads
        <4>1. aMain' = "add" /\ c' = 0
          BY <2>2, <3>1
        <4>2. \A t \in Split!Threads : aPc[t] = "done" /\ aSums'[t] = aPartial[t]
          BY <2>2, <2>6, <3>1
        <4>3. aTotal = Kept(w, Prefix(v, Start(0)))
          <5>1. Start(0) = 0 /\ 0 \in 0..Length
            BY ChunkFacts, SplitFacts
          <5>2. Prefix(v, 0) = 0
            <6> HIDE DEF v
            <6> QED BY <1>0, <5>1, PrefixFacts
          <5>3. aTotal = 0
            BY <2>1 DEF MainCounts
          <5> HIDE DEF v, w
          <5>4. Kept(w, 0) = 0
            BY <1>0, KeptZero
          <5> QED BY <5>1, <5>2, <5>3, <5>4
        <4> QED
          BY <2>1, <2>3, <4>1, <4>2, <4>3
          DEF MainCounts, Split!Threads, Start, Split!start_index, Kept, Prefix
      <3>2. CASE c + 1 # SumThreads
        <4>1. aMain' = "join" /\ c' = c + 1
          BY <2>2, <3>2
        <4>2. aTotal = 0
          BY <2>1 DEF MainCounts
        <4> QED BY <2>1, <2>6, <4>1, <4>2 DEF MainCounts, Split!Threads
      <3> QED BY <3>1, <3>2
    <2> QED BY <2>3, <2>5, <2>7
  <1>3. CASE Split!AddUp
    <2> DEFINE x == IF Split!Aggregates THEN aSums[c] ELSE aPartial[c]
    <2>1. /\ aMain = "add" /\ aTotal' = (aTotal + x) % w
          /\ UNCHANGED <<aKind, aPc, aAt, aPartial, aSums, aReads>>
      BY <1>3 DEF Split!AddUp
    <2>2. /\ c + 1 = SumThreads => c' = 0 /\ aMain' = "done"
          /\ c + 1 # SumThreads => c' = c + 1 /\ aMain' = "add"
          /\ c' \in Split!Threads
      BY <1>3, <2>1, MainMoves DEF Split!AddUp
    <2>3. ChunkSummed' /\ ReadsCounted' /\ v' = v /\ w' = w
      BY <2>1, MainKeeps
    <2>4. \A t \in Split!Threads : aPc[t] = "done" /\ aSums[t] = aPartial[t]
      BY <2>1 DEF MainCounts
    <2>5. aTotal' = Kept(w, Kept(w, Prefix(v, Start(c))) + aPartial[c])
      <3>1. x = aPartial[c] /\ aTotal = Kept(w, Prefix(v, Start(c)))
        BY <1>0, <2>1, <2>4 DEF MainCounts
      <3> HIDE DEF x, v, w
      <3>2. aTotal' = Kept(w, aTotal + x)
        BY <2>1 DEF Kept
      <3> QED BY <3>1, <3>2
    <2>6. aTotal' = Kept(w, Prefix(v, Start(c + 1))) /\ aTotal' \in 0..(Split!Width - 1)
      BY <1>0, <2>4, <2>5, ChunkAdded
    <2>7. Split!TypeOK'
      <3>1. aMain' \in {"add", "done"}
        BY <2>2
      <3> QED BY <2>1, <2>2, <2>3, <2>6, <3>1 DEF Split!TypeOK, Split!Threads, Split!Indices
    <2>8. MainCounts'
      <3>1. CASE c + 1 = SumThreads
        <4>1. aMain' = "done" /\ Start(c + 1) = Length
          BY <2>2, <3>1, ChunkFacts
        <4>2. aTotal' = Kept(w, Prefix(v, Length))
          BY <2>6, <4>1
        <4> QED BY <2>1, <2>3, <2>4, <4>1, <4>2
                DEF MainCounts, Split!Threads, Kept, Prefix, Length
      <3>2. CASE c + 1 # SumThreads
        <4>1. aMain' = "add" /\ c' = c + 1
          BY <2>2, <3>2
        <4> QED BY <2>1, <2>3, <2>4, <2>6, <4>1
                DEF MainCounts, Split!Threads, Kept, Prefix, Start, Split!start_index
      <3> QED BY <3>1, <3>2
    <2> QED BY <2>3, <2>7, <2>8
  <1> QED BY <1>1, <1>2, <1>3 DEF Split!spawn_workers

(* The total that main prints is the sum of the list, as its type keeps it. *)
LEMMA SplitTotal == SplitInd => Split!TotalIsSum
  <1> SUFFICES ASSUME SplitInd PROVE Split!TotalIsSum
    OBVIOUS
  <1> USE DEF SplitInd
  <1>1. Prefix(Split!data, Length) = SumOf(Split!data, Split!Indices)
    <2> DEFINE v == Split!data
    <2>1. v \in [Split!Indices -> Nat] /\ Length \in 0..Length
      BY ListFacts, SplitFacts
    <2> HIDE DEF v
    <2>2. Prefix(v, Length) = SumOf(v, Split!Indices)
      BY <2>1, PrefixFacts
    <2> QED BY <2>2 DEF v
  <1>2. SumOf(Split!data, Split!Indices) =
          Split!MapThenSumSet(LAMBDA i_1 : Split!data[i_1], Split!Indices)
    BY DEF SumOf, MapThenSumSet, MapThenFoldSet, Split!MapThenSumSet, Split!MapThenFoldSet
  <1>3. aMain = "add" => \A t \in Split!Threads : aPc[t] = "done"
    BY DEF MainCounts
  <1>4. aMain = "done" => aTotal = SumOf(Split!data, Split!Indices) % Split!Width
    <2>1. aMain = "done" => aTotal = Kept(Split!Width, Prefix(Split!data, Length))
      BY DEF MainCounts
    <2> QED BY <1>1, <2>1 DEF Kept
  <1> QED BY <1>2, <1>3, <1>4 DEF Split!TotalIsSum

(* The threads have read what their programs have them read.                *)
LEMMA SplitReads == SplitInd => Split!EveryIndexOnce
  <1> SUFFICES ASSUME SplitInd, aMain = "done"
               PROVE  aReads = [j \in Split!Indices |-> IF Split!Aggregates THEN 1
                                              ELSE IF j < ChunkSize THEN SumThreads ELSE 0]
    BY DEF Split!EveryIndexOnce
  <1> USE DEF SplitInd
  <1>1. \A t \in Split!Threads : aAt[t] = Start(t) + ChunkSize
    BY DEF MainCounts, ChunkSummed
  <1>2. aReads = [j \in Split!Indices |-> aReads[j]]
    BY SplitTyped
  <1>3. \A t \in Split!Threads : Start(t) \in Nat /\ ChunkSize \in Nat
    BY ChunkFacts, SplitFacts
  <1>4. ASSUME NEW j \in Split!Indices
        PROVE  aReads[j] = IF Split!Aggregates THEN 1
                           ELSE IF j < ChunkSize THEN SumThreads ELSE 0
    <2>1. CASE Split!Aggregates
      <3>1. PICK t \in Split!Threads : Start(t) <= j /\ j < Start(t) + ChunkSize
        BY ChunksCover
      <3>2. aReads[j] = 1
        BY <1>1, <2>1, <3>1 DEF ReadsCounted
      <3> QED BY <2>1, <3>2
    <2>2. CASE ~Split!Aggregates
      <3>1. aReads[j] = Cardinality(ReadersOf(j))
        BY <2>2 DEF ReadsCounted
      <3>2. ASSUME NEW t \in Split!Threads PROVE aAt[t] - Start(t) = ChunkSize
        <4>1. (Start(t) + ChunkSize) - Start(t) = ChunkSize
          BY <1>3
        <4> QED BY <1>1, <4>1
      <3>3. ReadersOf(j) = IF j < ChunkSize THEN Split!Threads ELSE {}
        BY <3>2 DEF ReadersOf
      <3>4. Cardinality(Split!Threads) = SumThreads /\ Cardinality({}) = 0
        BY SplitFacts, FS_EmptySet
      <3>5. aReads[j] = IF j < ChunkSize THEN SumThreads ELSE 0
        BY <3>1, <3>3, <3>4
      <3> QED BY <2>2, <3>5
    <2> QED BY <2>1, <2>2
  <1> QED BY <1>2, <1>4

(* The totals are those of the whole list.                                  *)
LEMMA SplitTruthful ==
  Split!Spec => [](Split!TypeOK /\ Split!TotalIsSum /\ Split!EveryIndexOnce)
  <1>1. SplitInd /\ UNCHANGED Split!vars => SplitInd'
    <2> SUFFICES ASSUME SplitInd, UNCHANGED Split!vars PROVE SplitInd'
      OBVIOUS
    <2> USE DEF SplitInd, Split!vars
    <2>1. ChunkSummed' /\ ReadsCounted' /\ Split!data' = Split!data /\ Split!Width' = Split!Width
      BY MainKeeps
    <2>2. Split!TypeOK'
      BY <2>1 DEF Split!TypeOK, Split!Threads, Split!Indices
    <2>3. MainCounts'
      BY <2>1 DEF MainCounts, Split!Threads, Start, Split!start_index, Kept, Prefix, Length
    <2> QED BY <2>1, <2>2, <2>3
  <1>2. SplitInd /\ [Split!Next]_(Split!vars) => SplitInd'
    BY <1>1, ThreadSums, MainSums DEF Split!Next, Split!Terminated
  <1>3. SplitInd => Split!TypeOK
    BY DEF SplitInd
  <1> QED BY <1>2, <1>3, SplitInit, SplitTotal, SplitReads, PTL DEF Split!Spec
-----------------------------------------------------------------------------
(* The branches and accounts of multithreading/banking.c. *)

(* A nonempty set of numbers has the minimum that is chosen.                *)
LEMMA LeastMember ==
  ASSUME NEW S \in SUBSET Nat, S # {}
  PROVE  Branches!Min(S) \in S /\ \A y \in S : Branches!Min(S) <= y
<1>1. PICK k \in S : \A j \in S : ~(<<j, k>> \in OpToRel(<, Nat))
  BY NatLessThanWellFounded, WFMin
<1>2. \A j \in S : <<j, k>> \in OpToRel(<, Nat) <=> j < k
  BY DEF OpToRel
<1>3. \A j \in S : j \in Nat /\ ~(j < k)
  BY <1>1, <1>2
<1>4. \A j \in S : k <= j
  BY <1>3
<1> QED BY <1>4 DEF Branches!Min
-----------------------------------------------------------------------------
Account == [id : Nat, customer : Customers, balance : Nat]
Branch == [id : BranchNames, accounts : Seq(Account)]
BranchChains == [0 .. 4 -> Seq(Branch)]

\* The places of branches, and of accounts, in the chains b.
BranchPlaces(b) == {p \in (0 .. 4) \X (1 .. MaxBranches) : p[2] \in 1 .. Len(b[p[1]])}
AccountPlaces(b) ==
  {t \in BranchPlaces(b) \X (1 .. MaxAccounts) :
     t[2] \in 1 .. Len(b[t[1][1]][t[1][2]].accounts)}
BalancesAt(b) == [t \in AccountPlaces(b) |-> b[t[1][1]][t[1][2]].accounts[t[2]].balance]

(* Every branch is in the chain of its name, its accounts count from one.   *)
Listed(b) ==
  \A k \in 0 .. 4 : \A r \in 1 .. Len(b[k]) :
    /\ Branches!Hash[b[k][r].id] = k
    /\ Len(b[k][r].accounts) <= MaxAccounts
    /\ \A a \in 1 .. Len(b[k][r].accounts) : b[k][r].accounts[a].id = a

(* Only the first branch of a name has accounts.                            *)
Served(b) ==
  \A k \in 0 .. 4 : \A r, j \in 1 .. Len(b[k]) :
    r < j /\ b[k][r].id = b[k][j].id => b[k][j].accounts = <<>>

(* As many branches as branch_count says, and the money that was brought.   *)
BooksFit(b, count) ==
  /\ count \in 0 .. MaxBranches /\ \A k \in 0 .. 4 : Len(b[k]) <= count
  /\ count = Cardinality(BranchPlaces(b))
Holds(b, money) == SumOf(BalancesAt(b), AccountPlaces(b)) = money

BranchInv ==
  /\ kPhase \in {"running", "returned", "exited", "crashed"}
  /\ kBranches \in BranchChains /\ kDeposited \in Nat /\ kPremium \in Nat
  /\ Listed(kBranches) /\ Served(kBranches) /\ BooksFit(kBranches, kCount)
  /\ Holds(kBranches, kDeposited + 100 * kPremium)

(* What the chains hold.                                                    *)
LEMMA InChains ==
  ASSUME NEW b \in BranchChains, NEW k \in 0 .. 4
  PROVE  /\ b[k] \in Seq(Branch) /\ Len(b[k]) \in Nat /\ DOMAIN b[k] = 1 .. Len(b[k])
         /\ \A r \in 1 .. Len(b[k]) :
              /\ b[k][r] \in Branch /\ b[k][r].id \in BranchNames
              /\ b[k][r].accounts \in Seq(Account) /\ Len(b[k][r].accounts) \in Nat
              /\ DOMAIN b[k][r].accounts = 1 .. Len(b[k][r].accounts)
              /\ \A a \in 1 .. Len(b[k][r].accounts) :
                   /\ b[k][r].accounts[a] \in Account
                   /\ b[k][r].accounts[a].balance \in Nat
<1>1. b[k] \in Seq(Branch)
  BY DEF BranchChains
<1>2. Len(b[k]) \in Nat /\ DOMAIN b[k] = 1 .. Len(b[k])
  BY <1>1
<1>3. ASSUME NEW r \in 1 .. Len(b[k])
      PROVE  /\ b[k][r] \in Branch /\ b[k][r].id \in BranchNames
             /\ b[k][r].accounts \in Seq(Account)
  <2>1. b[k][r] \in Branch
    BY <1>1
  <2> QED BY <2>1 DEF Branch
<1>4. ASSUME NEW r \in 1 .. Len(b[k])
      PROVE  /\ Len(b[k][r].accounts) \in Nat
             /\ DOMAIN b[k][r].accounts = 1 .. Len(b[k][r].accounts)
             /\ \A a \in 1 .. Len(b[k][r].accounts) :
                  /\ b[k][r].accounts[a] \in Account
                  /\ b[k][r].accounts[a].balance \in Nat
  <2>1. PICK list \in Seq(Account) : list = b[k][r].accounts
    BY <1>3
  <2>2. \A a \in 1 .. Len(list) : list[a] \in Account
    OBVIOUS
  <2>3. \A a \in 1 .. Len(list) : list[a].balance \in Nat
    BY <2>2 DEF Account
  <2>4. Len(list) \in Nat /\ DOMAIN list = 1 .. Len(list)
    OBVIOUS
  <2> QED BY <2>1, <2>2, <2>3, <2>4
<1> QED BY <1>1, <1>2, <1>3, <1>4

(* The places are finitely many.                                            *)
LEMMA PlacesFinite ==
  ASSUME NEW b
  PROVE  IsFiniteSet(BranchPlaces(b)) /\ IsFiniteSet(AccountPlaces(b))
<1>1. IsFiniteSet(0 .. 4)
  <2>1. PICK last \in Int : last = 4
    OBVIOUS
  <2>2. IsFiniteSet(0 .. last)
    BY FS_Interval
  <2> QED BY <2>1, <2>2
<1>2. IsFiniteSet(1 .. MaxBranches) /\ IsFiniteSet(1 .. MaxAccounts)
  <2>1. MaxBranches \in Int /\ MaxAccounts \in Int
    BY BranchesAssumption DEF Branches!BranchAssumption
  <2> QED BY <2>1, FS_Interval
<1>3. IsFiniteSet((0 .. 4) \X (1 .. MaxBranches))
  BY <1>1, <1>2, FS_Product
<1>4. BranchPlaces(b) \in SUBSET ((0 .. 4) \X (1 .. MaxBranches))
  BY DEF BranchPlaces
<1>5. IsFiniteSet(BranchPlaces(b))
  BY <1>3, <1>4, FS_Subset
<1>6. IsFiniteSet(BranchPlaces(b) \X (1 .. MaxAccounts))
  BY <1>2, <1>5, FS_Product
<1>7. AccountPlaces(b) \in SUBSET (BranchPlaces(b) \X (1 .. MaxAccounts))
  BY DEF AccountPlaces
<1> QED BY <1>5, <1>6, <1>7, FS_Subset

(* The places and values that the sum of the model goes over.               *)
LEMMA ModelPlaces ==
  ASSUME kBranches \in BranchChains
  PROVE  /\ Branches!AllBranches = BranchPlaces(kBranches)
         /\ Branches!AllAccounts = AccountPlaces(kBranches)
         /\ Branches!Balances = BalancesAt(kBranches)
<1>1. DOMAIN kBranches = 0 .. 4
  BY DEF BranchChains
<1>2. Branches!AllBranches = BranchPlaces(kBranches)
  BY <1>1, InChains DEF Branches!AllBranches, BranchPlaces
<1>3. Branches!AllAccounts = AccountPlaces(kBranches)
  <2>1. ASSUME NEW p \in BranchPlaces(kBranches)
        PROVE  DOMAIN Branches!BranchAt(p).accounts = 1 .. Len(kBranches[p[1]][p[2]].accounts)
    <3>1. p[1] \in 0 .. 4 /\ p[2] \in 1 .. Len(kBranches[p[1]])
      BY DEF BranchPlaces
    <3> QED BY <3>1, InChains DEF Branches!BranchAt
  <2> QED BY <1>2, <2>1 DEF Branches!AllAccounts, AccountPlaces
<1>4. Branches!Balances = BalancesAt(kBranches)
  BY <1>3 DEF Branches!Balances, BalancesAt, Branches!BranchAt
<1> QED BY <1>2, <1>3, <1>4
-----------------------------------------------------------------------------
(* A branch that is served gets another list of accounts.                   *)
Replaced(b, h, f, list) == [b EXCEPT ![h] = [b[h] EXCEPT ![f] = [b[h][f] EXCEPT !.accounts = list]]]

SameBut(b, c, h, f, list) ==
  /\ \A k \in 0 .. 4 : Len(c[k]) = Len(b[k])
  /\ \A k \in 0 .. 4 : \A r \in 1 .. Len(b[k]) :
       /\ c[k][r].id = b[k][r].id
       /\ c[k][r].accounts = IF k = h /\ r = f THEN list ELSE b[k][r].accounts

LEMMA ListReplaced ==
  ASSUME NEW b \in BranchChains, NEW h \in 0 .. 4, NEW f \in 1 .. Len(b[h]),
         NEW list \in Seq(Account), NEW c, c = Replaced(b, h, f, list)
  PROVE  c \in BranchChains /\ SameBut(b, c, h, f, list)
<1> DEFINE new == [b[h][f] EXCEPT !.accounts = list]
           chain == [b[h] EXCEPT ![f] = new]
<1>1. new \in Branch /\ new.id = b[h][f].id /\ new.accounts = list
  <2>1. b[h][f] \in Branch
    BY InChains
  <2> QED BY <2>1 DEF Branch
<1>2. c = [b EXCEPT ![h] = chain]
  BY DEF Replaced
<1> HIDE DEF new
<1>3. /\ chain \in Seq(Branch) /\ Len(chain) = Len(b[h])
      /\ \A r \in 1 .. Len(b[h]) : chain[r] = IF r = f THEN new ELSE b[h][r]
  <2>1. b[h] \in Seq(Branch) /\ Len(b[h]) \in Nat
    BY InChains
  <2>2. b[h] \in [1 .. Len(b[h]) -> Branch]
    BY <2>1
  <2>3. chain \in [1 .. Len(b[h]) -> Branch]
    BY <1>1, <2>2
  <2>4. \A r \in 1 .. Len(b[h]) : chain[r] = IF r = f THEN new ELSE b[h][r]
    BY <2>2
  <2>5. \A g \in [1 .. Len(b[h]) -> Branch] : g \in Seq(Branch) /\ Len(g) = Len(b[h])
    BY <2>1
  <2> HIDE DEF chain
  <2> QED BY <2>3, <2>4, <2>5
<1> HIDE DEF chain
<1>4. c \in BranchChains /\ c[h] = chain /\ \A k \in 0 .. 4 : k # h => c[k] = b[k]
  BY <1>2, <1>3 DEF BranchChains
<1>5. \A k \in 0 .. 4 : Len(c[k]) = Len(b[k])
  BY <1>3, <1>4
<1>6. ASSUME NEW k \in 0 .. 4, NEW r \in 1 .. Len(b[k])
      PROVE  /\ c[k][r].id = b[k][r].id
             /\ c[k][r].accounts = IF k = h /\ r = f THEN list ELSE b[k][r].accounts
  <2>1. CASE k = h
    BY <1>1, <1>3, <1>4, <2>1
  <2>2. CASE k # h
    BY <1>4, <2>2
  <2> QED BY <2>1, <2>2
<1> QED BY <1>4, <1>5, <1>6 DEF SameBut

First(b, h, f) == \A r \in 1 .. Len(b[h]) : b[h][r].id = b[h][f].id => f <= r
Numbered(list) == Len(list) <= MaxAccounts /\ \A a \in 1 .. Len(list) : list[a].id = a

(* If it is the first of its name the branches stay as they were served.    *)
LEMMA StaysListed ==
  ASSUME NEW b \in BranchChains, NEW h \in 0 .. 4, NEW f \in 1 .. Len(b[h]),
         NEW list \in Seq(Account), Listed(b), Served(b),
         First(b, h, f), Numbered(list), NEW c, c = Replaced(b, h, f, list)
  PROVE  Listed(c) /\ Served(c) /\ BranchPlaces(c) = BranchPlaces(b)
<1>1. /\ \A k \in 0 .. 4 : Len(c[k]) = Len(b[k])
      /\ \A k \in 0 .. 4 : \A r \in 1 .. Len(b[k]) :
           /\ c[k][r].id = b[k][r].id
           /\ c[k][r].accounts = IF k = h /\ r = f THEN list ELSE b[k][r].accounts
  <2>1. SameBut(b, c, h, f, list)
    BY ListReplaced
  <2> QED BY <2>1 DEF SameBut
<1>2. Listed(c)
  <2> SUFFICES ASSUME NEW k \in 0 .. 4, NEW r \in 1 .. Len(c[k])
               PROVE  /\ Branches!Hash[c[k][r].id] = k
                      /\ Len(c[k][r].accounts) <= MaxAccounts
                      /\ \A a \in 1 .. Len(c[k][r].accounts) : c[k][r].accounts[a].id = a
    BY DEF Listed
  <2>1. r \in 1 .. Len(b[k]) /\ c[k][r].id = b[k][r].id
        /\ c[k][r].accounts = IF k = h /\ r = f THEN list ELSE b[k][r].accounts
    BY <1>1
  <2>2. CASE k = h /\ r = f
    BY <2>1, <2>2 DEF Listed, Numbered
  <2>3. CASE ~(k = h /\ r = f)
    <3>1. c[k][r].accounts = b[k][r].accounts
      BY <2>1, <2>3
    <3>2. /\ Branches!Hash[b[k][r].id] = k
          /\ Len(b[k][r].accounts) <= MaxAccounts
          /\ \A a \in 1 .. Len(b[k][r].accounts) : b[k][r].accounts[a].id = a
      BY <2>1 DEF Listed
    <3> QED BY <2>1, <3>1, <3>2
  <2> QED BY <2>2, <2>3
<1>3. Served(c)
  <2> SUFFICES ASSUME NEW k \in 0 .. 4, NEW r \in 1 .. Len(c[k]), NEW j \in 1 .. Len(c[k]),
                      r < j, c[k][r].id = c[k][j].id
               PROVE  c[k][j].accounts = <<>>
    BY DEF Served
  <2>1. r \in 1 .. Len(b[k]) /\ j \in 1 .. Len(b[k]) /\ b[k][r].id = b[k][j].id
    BY <1>1
  <2>2. b[k][j].accounts = <<>>
    BY <2>1 DEF Served
  <2>3. ~(k = h /\ j = f)
    <3>1. SUFFICES ASSUME k = h, j = f PROVE FALSE
      OBVIOUS
    <3>2. f <= r
      BY <2>1, <3>1 DEF First
    <3>3. r \in Nat /\ j \in Nat
      BY <2>1, InChains
    <3> QED BY <3>1, <3>2, <3>3
  <2> QED BY <1>1, <2>1, <2>2, <2>3
<1>4. BranchPlaces(c) = BranchPlaces(b)
  BY <1>1 DEF BranchPlaces
<1> QED BY <1>2, <1>3, <1>4

(* What is found is the first branch of the name.                           *)
LEMMA FindsBranch ==
  ASSUME BranchInv, NEW n \in BranchNames, Branches!Found(n)
  PROVE  LET h == Branches!Hash[n]
             f == Branches!find(n) IN
           /\ h \in 0 .. 4 /\ f \in 1 .. Len(kBranches[h]) /\ kBranches[h][f].id = n
           /\ \A r \in 1 .. Len(kBranches[h]) : kBranches[h][r].id = n => f <= r
<1> DEFINE h == Branches!Hash[n]
           I == Branches!Matching(n)
<1>1. h \in 0 .. 4
  BY BranchesAssumption DEF Branches!BranchAssumption, Branches!Hash
<1>2. Len(kBranches[h]) \in Nat /\ DOMAIN kBranches[h] = 1 .. Len(kBranches[h])
  BY <1>1, InChains DEF BranchInv
<1>3. I = {r \in 1 .. Len(kBranches[h]) : kBranches[h][r].id = n}
  BY <1>2 DEF Branches!Matching
<1> HIDE DEF h
<1>4. I \in SUBSET Nat /\ I # {}
  BY <1>2, <1>3 DEF Branches!Found
<1>5. Branches!Min(I) \in I /\ \A r \in I : Branches!Min(I) <= r
  BY <1>4, LeastMember
<1>6. Branches!find(n) = Branches!Min(I)
  BY DEF Branches!find
<1> HIDE DEF I
<1> QED BY <1>1, <1>3, <1>5, <1>6 DEF h
-----------------------------------------------------------------------------
LEMMA BranchesInit == Branches!Init => BranchInv
<1> SUFFICES ASSUME Branches!Init PROVE BranchInv
  OBVIOUS
<1>1. /\ kBranches = [k \in 0 .. 4 |-> <<>>] /\ kCount = 0 /\ kPhase = "running"
      /\ kDeposited = 0 /\ kPremium = 0
  BY DEF Branches!Init, Branches!BANK_BRANCH_CAPACITY
<1>2. kBranches \in BranchChains /\ \A k \in 0 .. 4 : kBranches[k] = <<>> /\ Len(kBranches[k]) = 0
  BY <1>1 DEF BranchChains
<1>3. BranchPlaces(kBranches) = {} /\ AccountPlaces(kBranches) = {}
  BY <1>2 DEF BranchPlaces, AccountPlaces
<1>4. Listed(kBranches) /\ Served(kBranches)
  BY <1>2 DEF Listed, Served
<1>5. BooksFit(kBranches, kCount)
  <2>1. MaxBranches \in Nat
    BY BranchesAssumption DEF Branches!BranchAssumption
  <2> QED BY <1>1, <1>2, <1>3, <2>1, FS_EmptySet DEF BooksFit
<1>6. SumOf(BalancesAt(kBranches), {}) = 0
  BY SumFirst, FS_EmptySet
<1>7. Holds(kBranches, kDeposited + 100 * kPremium)
  <2>1. kDeposited + 100 * kPremium = 0
    BY <1>1
  <2> QED BY <1>3, <1>6, <2>1 DEF Holds
<1>8. kPhase \in {"running", "returned", "exited", "crashed"}
      /\ kDeposited \in Nat /\ kPremium \in Nat
  BY <1>1
<1> QED BY <1>2, <1>4, <1>5, <1>7, <1>8 DEF BranchInv

(* add_branch puts an empty list of accounts at the end of a chain.         *)
LEMMA BranchAdded ==
  ASSUME BranchInv, NEW n \in BranchNames, Branches!add_branch(n)
  PROVE  BranchInv'
<1> DEFINE h == Branches!Hash[n]
           new == [id |-> n, accounts |-> <<>>]
<1>b. PICK b \in BranchChains : b = kBranches
  BY DEF BranchInv
<1>c. PICK c : c = kBranches'
  OBVIOUS
<1>1. b = kBranches /\ c = kBranches'
  BY <1>b, <1>c
<1>2. /\ c = [b EXCEPT ![h] = Append(@, new)]
      /\ kCount < MaxBranches /\ kCount' = kCount + 1 /\ kPhase' = kPhase
      /\ kDeposited' = kDeposited /\ kPremium' = kPremium
  BY <1>1 DEF Branches!add_branch, Branches!Chained
<1>3. h \in 0 .. 4
  BY BranchesAssumption DEF Branches!BranchAssumption, Branches!Hash
<1>4. new \in Branch /\ new.id = n /\ new.accounts = <<>>
  BY DEF Branch
<1>h. Branches!Hash[n] = h
  OBVIOUS
<1> HIDE DEF new, h
<1>5. PICK chain \in Seq(Branch), l \in Nat : chain = b[h] /\ l = Len(b[h])
  BY <1>3, InChains
<1>6. /\ Append(chain, new) \in Seq(Branch) /\ Len(Append(chain, new)) = l + 1
      /\ Append(chain, new)[l + 1] = new
      /\ \A r \in 1 .. l : Append(chain, new)[r] = chain[r]
  BY <1>4, <1>5
<1>7. /\ c \in BranchChains /\ c[h] = Append(chain, new)
      /\ \A k \in 0 .. 4 : k # h => c[k] = b[k]
  BY <1>2, <1>3, <1>5, <1>6 DEF BranchChains
<1>8. /\ Len(c[h]) = l + 1 /\ c[h][l + 1] = new
      /\ \A r \in 1 .. l : c[h][r] = b[h][r]
  BY <1>5, <1>6, <1>7
<1>9. \A k \in 0 .. 4 : \A r \in 1 .. Len(c[k]) :
        \/ r \in 1 .. Len(b[k]) /\ c[k][r] = b[k][r]
        \/ k = h /\ r = l + 1 /\ c[k][r] = new
  <2> SUFFICES ASSUME NEW k \in 0 .. 4, NEW r \in 1 .. Len(c[k])
               PROVE  \/ r \in 1 .. Len(b[k]) /\ c[k][r] = b[k][r]
                      \/ k = h /\ r = l + 1 /\ c[k][r] = new
    OBVIOUS
  <2>1. CASE k = h
    <3>1. r \in 1 .. l \/ r = l + 1
      BY <1>8, <2>1
    <3> QED BY <1>5, <1>8, <2>1, <3>1
  <2>2. CASE k # h
    BY <1>7, <2>2
  <2> QED BY <2>1, <2>2
<1>10. \A k \in 0 .. 4 : \A r \in 1 .. Len(b[k]) : r \in 1 .. Len(c[k]) /\ c[k][r] = b[k][r]
  <2> SUFFICES ASSUME NEW k \in 0 .. 4, NEW r \in 1 .. Len(b[k])
               PROVE  r \in 1 .. Len(c[k]) /\ c[k][r] = b[k][r]
    OBVIOUS
  <2>1. CASE k = h
    <3>1. r \in 1 .. l /\ r \in 1 .. l + 1
      BY <1>5, <2>1
    <3> QED BY <1>8, <2>1, <3>1
  <2>2. CASE k # h
    BY <1>7, <2>2
  <2> QED BY <2>1, <2>2
<1>11. Listed(c)
  <2> SUFFICES ASSUME NEW k \in 0 .. 4, NEW r \in 1 .. Len(c[k])
               PROVE  /\ Branches!Hash[c[k][r].id] = k
                      /\ Len(c[k][r].accounts) <= MaxAccounts
                      /\ \A a \in 1 .. Len(c[k][r].accounts) : c[k][r].accounts[a].id = a
    BY DEF Listed
  <2>1. CASE r \in 1 .. Len(b[k]) /\ c[k][r] = b[k][r]
    <3>1. Listed(b)
      BY <1>1 DEF BranchInv
    <3>2. /\ Branches!Hash[b[k][r].id] = k
          /\ Len(b[k][r].accounts) <= MaxAccounts
          /\ \A a \in 1 .. Len(b[k][r].accounts) : b[k][r].accounts[a].id = a
      BY <2>1, <3>1 DEF Listed
    <3> QED BY <2>1, <3>2
  <2>2. CASE k = h /\ c[k][r] = new
    <3>1. Len(new.accounts) = 0 /\ 0 <= MaxAccounts
      BY <1>4, BranchesAssumption DEF Branches!BranchAssumption
    <3> QED BY <1>4, <1>h, <2>2, <3>1
  <2> QED BY <1>9, <2>1, <2>2
<1>12. Served(c)
  <2> SUFFICES ASSUME NEW k \in 0 .. 4, NEW r \in 1 .. Len(c[k]), NEW j \in 1 .. Len(c[k]),
                      r < j, c[k][r].id = c[k][j].id, c[k][j].accounts # <<>>
               PROVE  FALSE
    BY DEF Served
  <2>1. j \in 1 .. Len(b[k]) /\ c[k][j] = b[k][j]
    BY <1>4, <1>9
  <2>2. r \in 1 .. Len(b[k])
    <3>1. Len(b[k]) \in Nat /\ Len(c[k]) \in Nat
      BY <1>7, InChains
    <3> QED BY <2>1, <3>1
  <2>3. c[k][r] = b[k][r]
    BY <1>10, <2>2
  <2> QED BY <1>1, <2>1, <2>2, <2>3 DEF BranchInv, Served
<1>13. l <= kCount /\ kCount \in 0 .. MaxBranches /\ kCount = Cardinality(BranchPlaces(b))
       /\ \A k \in 0 .. 4 : Len(b[k]) <= kCount
  BY <1>1, <1>3, <1>5 DEF BranchInv, BooksFit
<1>14. MaxBranches \in Nat
  BY BranchesAssumption DEF Branches!BranchAssumption
<1>15. BooksFit(c, kCount')
  <2>1. kCount' \in 0 .. MaxBranches /\ l + 1 \in 1 .. MaxBranches
    BY <1>2, <1>13, <1>14
  <2>2. ASSUME NEW k \in 0 .. 4 PROVE Len(c[k]) <= kCount'
    <3>1. CASE k = h
      BY <1>2, <1>8, <1>13, <3>1
    <3>2. CASE k # h
      <4>1. Len(c[k]) = Len(b[k]) /\ Len(b[k]) \in Nat
        BY <1>7, <3>2, InChains
      <4>2. Len(b[k]) <= kCount
        BY <1>13
      <4> QED BY <1>2, <1>13, <4>1, <4>2
    <3> QED BY <3>1, <3>2
  <2>3. BranchPlaces(c) = BranchPlaces(b) \cup {<<h, l + 1>>}
    <3>1. \A k \in 0 .. 4 : \A r \in 1 .. MaxBranches :
            r \in 1 .. Len(c[k]) <=> r \in 1 .. Len(b[k]) \/ (k = h /\ r = l + 1)
      <4>1. l + 1 \in 1 .. Len(c[h])
        BY <1>8
      <4> QED BY <1>9, <1>10, <4>1
    <3>2. ASSUME NEW p \in (0 .. 4) \X (1 .. MaxBranches)
          PROVE  p[2] \in 1 .. Len(c[p[1]])
                   <=> p[2] \in 1 .. Len(b[p[1]]) \/ p = <<h, l + 1>>
      <4>1. PICK k \in 0 .. 4, r \in 1 .. MaxBranches : p = <<k, r>>
        OBVIOUS
      <4> QED BY <3>1, <4>1
    <3>3. <<h, l + 1>> \in (0 .. 4) \X (1 .. MaxBranches)
      <4>1. l + 1 \in 1 .. MaxBranches
        BY <2>1
      <4> QED BY <1>3, <4>1
    <3> QED BY <3>2, <3>3 DEF BranchPlaces
  <2>4. <<h, l + 1>> \notin BranchPlaces(b)
    <3>1. l + 1 \notin 1 .. Len(b[h])
      BY <1>5
    <3> QED BY <3>1 DEF BranchPlaces
  <2>5. Cardinality(BranchPlaces(c)) = Cardinality(BranchPlaces(b)) + 1
    BY <2>3, <2>4, PlacesFinite, FS_AddElement
  <2> QED BY <1>2, <1>13, <2>1, <2>2, <2>5 DEF BooksFit
<1>16. Holds(c, kDeposited' + 100 * kPremium')
  <2>1. AccountPlaces(c) = AccountPlaces(b)
    <3>1. ASSUME NEW p \in BranchPlaces(c), NEW a \in 1 .. Len(c[p[1]][p[2]].accounts)
          PROVE  p \in BranchPlaces(b) /\ c[p[1]][p[2]] = b[p[1]][p[2]]
      <4>1. p[1] \in 0 .. 4 /\ p[2] \in 1 .. Len(c[p[1]])
            /\ p \in (0 .. 4) \X (1 .. MaxBranches)
        BY DEF BranchPlaces
      <4>2. c[p[1]][p[2]] # new
        <5>1. Len(new.accounts) = 0
          BY <1>4
        <5> QED BY <5>1
      <4>3. p[2] \in 1 .. Len(b[p[1]]) /\ c[p[1]][p[2]] = b[p[1]][p[2]]
        BY <1>9, <4>1, <4>2
      <4> QED BY <4>1, <4>3 DEF BranchPlaces
    <3>2. ASSUME NEW p \in BranchPlaces(b)
          PROVE  p \in BranchPlaces(c) /\ c[p[1]][p[2]] = b[p[1]][p[2]]
      BY <1>10 DEF BranchPlaces
    <3> QED BY <3>1, <3>2 DEF AccountPlaces
  <2>2. ASSUME NEW t \in AccountPlaces(b) PROVE BalancesAt(c)[t] = BalancesAt(b)[t]
    <3>1. /\ t[1][1] \in 0 .. 4 /\ t[1][2] \in 1 .. Len(b[t[1][1]])
      BY DEF AccountPlaces, BranchPlaces
    <3>2. c[t[1][1]][t[1][2]] = b[t[1][1]][t[1][2]]
      BY <1>10, <3>1
    <3> QED BY <2>1, <3>2 DEF BalancesAt
  <2>3. SumOf(BalancesAt(c), AccountPlaces(b)) = SumOf(BalancesAt(b), AccountPlaces(b))
    BY <2>2, PlacesFinite, SumSame
  <2> QED BY <1>1, <1>2, <2>1, <2>3 DEF BranchInv, Holds
<1> QED BY <1>1, <1>2, <1>7, <1>11, <1>12, <1>15, <1>16 DEF BranchInv
-----------------------------------------------------------------------------
(* open_account gives the next number and puts the account at the end.      *)
LEMMA AccountOpened ==
  ASSUME BranchInv, NEW n \in BranchNames, NEW who \in Customers, NEW gift \in BOOLEAN,
         Branches!OpenAccount(n, who, gift)
  PROVE  BranchInv'
<1> DEFINE h == Branches!Hash[n]
           f == Branches!find(n)
           list == kBranches[h][f].accounts
           new == [id |-> Branches!NextId(list), customer |-> who,
                   balance |-> IF gift THEN 100 ELSE 0]
<1>b. PICK b \in BranchChains : b = kBranches
  BY DEF BranchInv
<1>c. PICK c : c = kBranches'
  OBVIOUS
<1>1. b = kBranches /\ c = kBranches'
  BY <1>b, <1>c
<1>2. /\ Branches!Found(n) /\ Len(list) < MaxAccounts
      /\ c = [b EXCEPT ![h][f].accounts = Append(list, new)]
      /\ kPremium' = IF gift THEN kPremium + 1 ELSE kPremium
      /\ kPhase' = kPhase /\ kCount' = kCount /\ kDeposited' = kDeposited
  BY <1>1 DEF Branches!OpenAccount, Branches!Accounts
<1>3. /\ h \in 0 .. 4 /\ f \in 1 .. Len(b[h]) /\ b[h][f].id = n
      /\ \A r \in 1 .. Len(b[h]) : b[h][r].id = n => f <= r
  BY <1>1, <1>2, FindsBranch
<1>4. c = Replaced(b, h, f, Append(list, new))
  BY <1>2 DEF Replaced
<1>5. list = b[h][f].accounts
  BY <1>1
<1> HIDE DEF h, f, list
<1>6. list \in Seq(Account) /\ Len(list) \in Nat
  <2>1. b[h][f].accounts \in Seq(Account)
    BY <1>3, InChains
  <2>2. list \in Seq(Account)
    BY <1>5, <2>1
  <2> QED BY <2>2
<1>7. Listed(b) /\ Served(b) /\ BooksFit(b, kCount) /\ Holds(b, kDeposited + 100 * kPremium)
  BY <1>1 DEF BranchInv
<1>8. \A a \in 1 .. Len(list) : list[a].id = a
  <2>1. Listed(b)
    BY <1>7
  <2>2. \A a \in 1 .. Len(b[h][f].accounts) : b[h][f].accounts[a].id = a
    BY <1>3, <2>1 DEF Listed
  <2> QED BY <1>5, <2>2
<1>9. Branches!NextId(list) = Len(list) + 1
  <2>1. CASE list = <<>>
    BY <2>1 DEF Branches!NextId
  <2>2. CASE list # <<>>
    <3>1. Len(list) \in 1 .. Len(list)
      BY <1>6, <2>2
    <3>2. Branches!Last(list).id = Len(list)
      BY <1>8, <3>1 DEF Branches!Last
    <3> QED BY <2>2, <3>2 DEF Branches!NextId
  <2> QED BY <2>1, <2>2
<1>10. new \in Account /\ new.id = Len(list) + 1 /\ new.balance = IF gift THEN 100 ELSE 0
  BY <1>6, <1>9 DEF Account
<1> HIDE DEF new
<1>11. PICK longer \in Seq(Account) : longer = Append(list, new)
  <2>1. list \in Seq(Account) /\ new \in Account
    BY <1>6, <1>10
  <2>2. Append(list, new) \in Seq(Account)
    BY <2>1
  <2> QED BY <2>2
<1>12. /\ Len(longer) = Len(list) + 1 /\ longer[Len(list) + 1] = new
       /\ \A a \in 1 .. Len(list) : longer[a] = list[a]
  BY <1>6, <1>10, <1>11
<1>13. Len(longer) <= MaxAccounts /\ Len(list) + 1 \in 1 .. MaxAccounts
  <2>1. MaxAccounts \in Nat
    BY BranchesAssumption DEF Branches!BranchAssumption
  <2> QED BY <1>2, <1>6, <1>12, <2>1
<1>14. \A a \in 1 .. Len(longer) : longer[a].id = a
  <2>1. \A a \in 1 .. Len(longer) : a \in 1 .. Len(list) \/ a = Len(list) + 1
    BY <1>6, <1>12
  <2> QED BY <1>8, <1>10, <1>12, <2>1
<1>15. c \in BranchChains /\ SameBut(b, c, h, f, longer)
  BY <1>3, <1>4, <1>11, ListReplaced
<1>16. Listed(c) /\ Served(c) /\ BranchPlaces(c) = BranchPlaces(b)
  <2>1. First(b, h, f) /\ Numbered(longer)
    BY <1>3, <1>13, <1>14 DEF First, Numbered
  <2>2. h \in 0 .. 4 /\ f \in 1 .. Len(b[h]) /\ c = Replaced(b, h, f, longer)
    BY <1>3, <1>4, <1>11
  <2> QED BY <1>7, <2>1, <2>2, StaysListed
<1>17. BooksFit(c, kCount')
  <2>1. \A k \in 0 .. 4 : Len(c[k]) = Len(b[k])
    BY <1>15 DEF SameBut
  <2> QED BY <1>2, <1>7, <1>16, <2>1 DEF BooksFit
<1> DEFINE place == <<<<h, f>>, Len(list) + 1>>
<1>18. <<h, f>> \in BranchPlaces(b)
  <2>1. f \in 1 .. MaxBranches
    <3>1. PICK l \in Nat : l = Len(b[h]) /\ l <= kCount
      BY <1>3, <1>7, InChains DEF BooksFit
    <3>2. kCount \in 0 .. MaxBranches /\ MaxBranches \in Nat
      BY <1>7, BranchesAssumption DEF BooksFit, Branches!BranchAssumption
    <3> QED BY <1>3, <3>1, <3>2
  <2> QED BY <1>3, <2>1 DEF BranchPlaces
<1>19. ASSUME NEW p \in BranchPlaces(b)
       PROVE  c[p[1]][p[2]].accounts = IF p = <<h, f>> THEN longer ELSE b[p[1]][p[2]].accounts
  <2>1. p \in (0 .. 4) \X (1 .. MaxBranches) /\ p[2] \in 1 .. Len(b[p[1]])
    BY DEF BranchPlaces
  <2>2. PICK k \in 0 .. 4, r \in 1 .. MaxBranches : p = <<k, r>>
    BY <2>1
  <2>3. r \in 1 .. Len(b[k])
    BY <2>1, <2>2
  <2>4. c[k][r].accounts = IF k = h /\ r = f THEN longer ELSE b[k][r].accounts
    BY <1>15, <2>3 DEF SameBut
  <2> QED BY <2>2, <2>4
<1>20. /\ AccountPlaces(c) = AccountPlaces(b) \cup {place} /\ place \notin AccountPlaces(b)
  <2>1. ASSUME NEW p \in BranchPlaces(b), NEW a \in 1 .. MaxAccounts
        PROVE  a \in 1 .. Len(c[p[1]][p[2]].accounts)
                 <=> a \in 1 .. Len(b[p[1]][p[2]].accounts) \/ <<p, a>> = place
    <3>1. CASE p = <<h, f>>
      <4>1. a \in 1 .. Len(longer) <=> a \in 1 .. Len(list) \/ a = Len(list) + 1
        BY <1>6, <1>12
      <4>2. c[p[1]][p[2]].accounts = longer /\ b[p[1]][p[2]].accounts = list
        BY <1>5, <1>19, <3>1
      <4> QED BY <3>1, <4>1, <4>2
    <3>2. CASE p # <<h, f>>
      BY <1>19, <3>2
    <3> QED BY <3>1, <3>2
  <2>2. place \in BranchPlaces(b) \X (1 .. MaxAccounts)
    BY <1>13, <1>18
  <2>3. ASSUME NEW t \in BranchPlaces(b) \X (1 .. MaxAccounts)
        PROVE  t \in AccountPlaces(c) <=> t \in AccountPlaces(b) \/ t = place
    <3>1. PICK p \in BranchPlaces(b), a \in 1 .. MaxAccounts : t = <<p, a>>
      OBVIOUS
    <3> HIDE DEF place
    <3> QED BY <1>16, <2>1, <3>1 DEF AccountPlaces
  <2>4. place \notin AccountPlaces(b)
    <3>1. Len(list) + 1 \notin 1 .. Len(list)
      BY <1>6
    <3> QED BY <1>5, <3>1 DEF AccountPlaces
  <2>5. AccountPlaces(c) \subseteq BranchPlaces(b) \X (1 .. MaxAccounts)
        /\ AccountPlaces(b) \subseteq BranchPlaces(b) \X (1 .. MaxAccounts)
    BY <1>16 DEF AccountPlaces
  <2> HIDE DEF place
  <2> QED BY <2>2, <2>3, <2>4, <2>5
<1>21. BalancesAt(c)[place] = IF gift THEN 100 ELSE 0
  <2>1. c[h][f].accounts = longer
    BY <1>18, <1>19
  <2> QED BY <1>10, <1>12, <1>20, <2>1 DEF BalancesAt
<1>22. ASSUME NEW t \in AccountPlaces(b)
       PROVE  BalancesAt(b)[t] \in Nat /\ BalancesAt(c)[t] = BalancesAt(b)[t]
  <2>1. PICK p \in BranchPlaces(b), a \in 1 .. MaxAccounts :
          t = <<p, a>> /\ a \in 1 .. Len(b[p[1]][p[2]].accounts)
    BY DEF AccountPlaces
  <2>2. p[1] \in 0 .. 4 /\ p[2] \in 1 .. Len(b[p[1]])
    BY DEF BranchPlaces
  <2>3. b[p[1]][p[2]].accounts[a].balance \in Nat
    BY <2>1, <2>2, InChains
  <2>4. c[p[1]][p[2]].accounts[a] = b[p[1]][p[2]].accounts[a]
    <3>1. CASE p = <<h, f>>
      BY <1>5, <1>12, <1>19, <2>1, <3>1
    <3>2. CASE p # <<h, f>>
      BY <1>19, <3>2
    <3> QED BY <3>1, <3>2
  <2>5. t \in AccountPlaces(c)
    BY <1>20
  <2> QED BY <2>1, <2>3, <2>4, <2>5 DEF BalancesAt
<1>23. SumOf(BalancesAt(c), AccountPlaces(c))
         = SumOf(BalancesAt(b), AccountPlaces(b)) + (IF gift THEN 100 ELSE 0)
  <2>1. IsFiniteSet(AccountPlaces(b))
    BY PlacesFinite
  <2>2. BalancesAt(c)[place] \in Nat
    BY <1>21
  <2> HIDE DEF place
  <2> QED BY <1>20, <1>21, <1>22, <2>1, <2>2, SumGrows
<1>24. Holds(c, kDeposited' + 100 * kPremium')
  <2>1. kDeposited \in Nat /\ kPremium \in Nat
    BY DEF BranchInv
  <2>2. kDeposited' + 100 * kPremium' = (kDeposited + 100 * kPremium) + (IF gift THEN 100 ELSE 0)
    BY <1>2, <2>1
  <2> QED BY <1>7, <1>23, <2>2 DEF Holds
<1>25. kPremium' \in Nat /\ kDeposited' \in Nat
  BY <1>2 DEF BranchInv
<1> QED BY <1>1, <1>2, <1>15, <1>16, <1>17, <1>24, <1>25 DEF BranchInv
-----------------------------------------------------------------------------
(* deposit adds to the balance of the first account of the customer.        *)
LEMMA MoneyDeposited ==
  ASSUME BranchInv, NEW n \in BranchNames, NEW who \in Customers, NEW amt \in Amounts,
         Branches!Deposit(n, who, amt)
  PROVE  BranchInv'
<1> DEFINE h == Branches!Hash[n]
           f == Branches!find(n)
           list == kBranches[h][f].accounts
           m == Branches!Min(Branches!Matches(n, who))
           new == [list[m] EXCEPT !.balance = @ + amt]
<1>b. PICK b \in BranchChains : b = kBranches
  BY DEF BranchInv
<1>c. PICK c : c = kBranches'
  OBVIOUS
<1>1. b = kBranches /\ c = kBranches'
  BY <1>b, <1>c
<1>2. /\ Branches!Found(n) /\ Branches!Matches(n, who) # {}
      /\ c = [b EXCEPT ![h][f].accounts[m].balance = @ + amt]
      /\ kDeposited' = kDeposited + amt
      /\ kPhase' = kPhase /\ kCount' = kCount /\ kPremium' = kPremium
  BY <1>1 DEF Branches!Deposit, Branches!Credited
<1>3. /\ h \in 0 .. 4 /\ f \in 1 .. Len(b[h]) /\ b[h][f].id = n
      /\ \A r \in 1 .. Len(b[h]) : b[h][r].id = n => f <= r
  BY <1>1, <1>2, FindsBranch
<1>4. c = Replaced(b, h, f, [list EXCEPT ![m] = new])
  BY <1>1, <1>2 DEF Replaced
<1>5. list = b[h][f].accounts /\ Branches!Accounts(n) = list
  BY <1>1 DEF Branches!Accounts
<1> HIDE DEF h, f, list
<1>6. list \in Seq(Account) /\ Len(list) \in Nat /\ DOMAIN list = 1 .. Len(list)
  <2>1. b[h][f].accounts \in Seq(Account)
    BY <1>3, InChains
  <2>2. list \in Seq(Account)
    BY <1>5, <2>1
  <2> QED BY <2>2
<1>7. m \in 1 .. Len(list)
  <2>1. Branches!Matches(n, who) \in SUBSET (1 .. Len(list))
    BY <1>5, <1>6 DEF Branches!Matches
  <2>2. Branches!Matches(n, who) \in SUBSET Nat
    BY <1>6, <2>1
  <2>3. m \in Branches!Matches(n, who)
    BY <1>2, <2>2, LeastMember
  <2> QED BY <2>1, <2>3
<1>a. amt \in Nat
  BY BranchesAssumption DEF Branches!BranchAssumption
<1> HIDE DEF m
<1>8. list[m] \in Account /\ list[m].balance \in Nat
  <2>1. list[m] \in Account
    BY <1>6, <1>7
  <2> QED BY <2>1 DEF Account
<1>9. new \in Account /\ new.id = list[m].id /\ new.balance = list[m].balance + amt
  BY <1>8, <1>a DEF Account
<1>old. PICK old \in Account : old = list[m]
  BY <1>8
<1> HIDE DEF new
<1>10. PICK updated \in Seq(Account) :
         /\ updated = [list EXCEPT ![m] = new] /\ Len(updated) = Len(list)
         /\ \A a \in 1 .. Len(list) : updated[a] = IF a = m THEN new ELSE list[a]
  <2>1. list \in [1 .. Len(list) -> Account]
    BY <1>6
  <2>2. [list EXCEPT ![m] = new] \in [1 .. Len(list) -> Account]
    BY <1>9, <2>1
  <2>3. \A a \in 1 .. Len(list) : [list EXCEPT ![m] = new][a] = IF a = m THEN new ELSE list[a]
    BY <2>1
  <2>4. \A g \in [1 .. Len(list) -> Account] : g \in Seq(Account) /\ Len(g) = Len(list)
    BY <1>6
  <2> QED BY <2>2, <2>3, <2>4
<1>11. Listed(b) /\ Served(b) /\ BooksFit(b, kCount) /\ Holds(b, kDeposited + 100 * kPremium)
  BY <1>1 DEF BranchInv
<1>12. Len(updated) <= MaxAccounts /\ \A a \in 1 .. Len(updated) : updated[a].id = a
  <2>1. Len(list) <= MaxAccounts /\ \A a \in 1 .. Len(list) : list[a].id = a
    <3>1. Listed(b)
      BY <1>11
    <3>2. Len(b[h][f].accounts) <= MaxAccounts
          /\ \A a \in 1 .. Len(b[h][f].accounts) : b[h][f].accounts[a].id = a
      BY <1>3, <3>1 DEF Listed
    <3> QED BY <1>5, <3>2
  <2> QED BY <1>7, <1>9, <1>10, <2>1
<1>13. h \in 0 .. 4 /\ f \in 1 .. Len(b[h]) /\ c = Replaced(b, h, f, updated)
  BY <1>3, <1>4, <1>10
<1>14. c \in BranchChains /\ SameBut(b, c, h, f, updated)
  BY <1>13, ListReplaced
<1>15. Listed(c) /\ Served(c) /\ BranchPlaces(c) = BranchPlaces(b)
  <2>1. First(b, h, f) /\ Numbered(updated)
    BY <1>3, <1>12 DEF First, Numbered
  <2>2. Listed(b) /\ Served(b)
    BY <1>11
  <2> QED BY <1>13, <2>1, <2>2, StaysListed
<1>16. BooksFit(c, kCount')
  <2>1. \A k \in 0 .. 4 : Len(c[k]) = Len(b[k])
    BY <1>14 DEF SameBut
  <2> QED BY <1>2, <1>11, <1>15, <2>1 DEF BooksFit
<1>17. ASSUME NEW p \in BranchPlaces(b)
       PROVE  c[p[1]][p[2]].accounts = IF p = <<h, f>> THEN updated ELSE b[p[1]][p[2]].accounts
  <2>1. p \in (0 .. 4) \X (1 .. MaxBranches) /\ p[2] \in 1 .. Len(b[p[1]])
    BY DEF BranchPlaces
  <2>2. PICK k \in 0 .. 4, r \in 1 .. MaxBranches : p = <<k, r>>
    BY <2>1
  <2>3. r \in 1 .. Len(b[k])
    BY <2>1, <2>2
  <2>4. c[k][r].accounts = IF k = h /\ r = f THEN updated ELSE b[k][r].accounts
    BY <1>14, <2>3 DEF SameBut
  <2> QED BY <2>2, <2>4
<1>18. <<h, f>> \in BranchPlaces(b)
  <2>1. f \in 1 .. MaxBranches
    <3>1. PICK l \in Nat : l = Len(b[h]) /\ l <= kCount
      BY <1>3, <1>11, InChains DEF BooksFit
    <3>2. kCount \in 0 .. MaxBranches /\ MaxBranches \in Nat
      BY <1>11, BranchesAssumption DEF BooksFit, Branches!BranchAssumption
    <3> QED BY <1>3, <3>1, <3>2
  <2> QED BY <1>3, <2>1 DEF BranchPlaces
<1>19. AccountPlaces(c) = AccountPlaces(b)
  <2>1. ASSUME NEW p \in BranchPlaces(b)
        PROVE  Len(c[p[1]][p[2]].accounts) = Len(b[p[1]][p[2]].accounts)
    <3>1. CASE p = <<h, f>>
      BY <1>5, <1>10, <1>17, <3>1
    <3>2. CASE p # <<h, f>>
      BY <1>17, <3>2
    <3> QED BY <3>1, <3>2
  <2> QED BY <1>15, <2>1 DEF AccountPlaces
<1> DEFINE place == <<<<h, f>>, m>>
<1>20. place \in AccountPlaces(b)
  <2>1. m \in 1 .. MaxAccounts
    <3>1. Len(list) <= MaxAccounts /\ MaxAccounts \in Nat
      BY <1>10, <1>12, BranchesAssumption DEF Branches!BranchAssumption
    <3> QED BY <1>6, <1>7, <3>1
  <2> QED BY <1>5, <1>7, <1>18, <2>1 DEF AccountPlaces
<1>21. ASSUME NEW t \in AccountPlaces(b)
       PROVE  /\ BalancesAt(b)[t] \in Nat
              /\ t # place => BalancesAt(c)[t] = BalancesAt(b)[t]
              /\ t = place => BalancesAt(c)[t] = BalancesAt(b)[t] + amt
  <2>1. PICK p \in BranchPlaces(b), a \in 1 .. MaxAccounts :
          t = <<p, a>> /\ a \in 1 .. Len(b[p[1]][p[2]].accounts)
    BY DEF AccountPlaces
  <2>2. p[1] \in 0 .. 4 /\ p[2] \in 1 .. Len(b[p[1]])
    BY DEF BranchPlaces
  <2>3. b[p[1]][p[2]].accounts[a].balance \in Nat
    BY <2>1, <2>2, InChains
  <2>4. /\ BalancesAt(b)[t] = b[p[1]][p[2]].accounts[a].balance
        /\ BalancesAt(c)[t] = c[p[1]][p[2]].accounts[a].balance
    BY <1>19, <2>1 DEF BalancesAt
  <2>5. CASE p = <<h, f>>
    <3>1. c[p[1]][p[2]].accounts = updated /\ b[p[1]][p[2]].accounts = list
      BY <1>5, <1>17, <2>5
    <3>2. a \in 1 .. Len(list)
      BY <2>1, <3>1
    <3>3. updated[a] = IF a = m THEN new ELSE list[a]
      BY <1>10, <3>2
    <3>4. t = place <=> a = m
      BY <2>1, <2>5
    <3> HIDE DEF place
    <3> QED BY <1>9, <2>3, <2>4, <3>1, <3>3, <3>4
  <2>6. CASE p # <<h, f>>
    <3>1. t # place
      BY <2>1, <2>6
    <3>2. c[p[1]][p[2]].accounts = b[p[1]][p[2]].accounts
      BY <1>17, <2>6
    <3> HIDE DEF place
    <3> QED BY <2>3, <2>4, <3>1, <3>2
  <2> QED BY <2>5, <2>6
<1>22. SumOf(BalancesAt(c), AccountPlaces(b)) = SumOf(BalancesAt(b), AccountPlaces(b)) + amt
  <2>1. IsFiniteSet(AccountPlaces(b))
    BY PlacesFinite
  <2> HIDE DEF place
  <2>2. \A t \in AccountPlaces(b) : BalancesAt(b)[t] \in Nat
    BY <1>21
  <2>3. \A t \in AccountPlaces(b) \ {place} : BalancesAt(c)[t] = BalancesAt(b)[t]
    BY <1>21
  <2>4. BalancesAt(c)[place] = BalancesAt(b)[place] + amt
    BY <1>20, <1>21
  <2> QED BY <1>20, <1>a, <2>1, <2>2, <2>3, <2>4, SumChanges
<1>23. kDeposited \in Nat /\ kPremium \in Nat
  BY DEF BranchInv
<1>24. Holds(c, kDeposited' + 100 * kPremium')
  <2>1. kDeposited' + 100 * kPremium' = (kDeposited + 100 * kPremium) + amt
    BY <1>2, <1>23, <1>a
  <2> QED BY <1>11, <1>19, <1>22, <2>1 DEF Holds
<1>25. kPremium' \in Nat /\ kDeposited' \in Nat
  BY <1>2, <1>23, <1>a
<1>26. kPhase' \in {"running", "returned", "exited", "crashed"}
  BY <1>2 DEF BranchInv
<1> QED BY <1>1, <1>14, <1>15, <1>16, <1>24, <1>25, <1>26 DEF BranchInv

(* A call that fails ends the program and leaves the bank as it is.         *)
LEMMA BranchesStep == BranchInv /\ [Branches!Next]_(Branches!vars) => BranchInv'
<1> SUFFICES ASSUME BranchInv, [Branches!Next]_(Branches!vars) PROVE BranchInv'
  OBVIOUS
<1>1. ASSUME kPhase' \in {"running", "returned", "exited", "crashed"},
             UNCHANGED <<kBranches, kCount, kDeposited, kPremium>>
      PROVE  BranchInv'
  BY <1>1 DEF BranchInv
<1>2. CASE Branches!Return \/ Branches!Terminated \/ UNCHANGED Branches!vars
  <2>1. kPhase' \in {"running", "returned", "exited", "crashed"}
    BY <1>2 DEF Branches!Return, Branches!Terminated, Branches!vars, BranchInv
  <2>2. UNCHANGED <<kBranches, kCount, kDeposited, kPremium>>
    BY <1>2 DEF Branches!Return, Branches!Terminated, Branches!vars
  <2> QED BY <1>1, <2>1, <2>2
<1>3. ASSUME NEW n \in BranchNames, Branches!add_branch(n) PROVE BranchInv'
  BY <1>3, BranchAdded
<1>4. ASSUME NEW n \in BranchNames, NEW who \in Customers, NEW gift \in BOOLEAN,
             Branches!open_account(n, who, gift)
      PROVE  BranchInv'
  <2>1. CASE Branches!OpenAccount(n, who, gift)
    BY <2>1, AccountOpened
  <2>2. CASE Branches!ExitUnknown
    BY <1>1, <2>2 DEF Branches!ExitUnknown
  <2> QED BY <1>4, <2>1, <2>2 DEF Branches!open_account
<1>5. ASSUME NEW n \in BranchNames, NEW who \in Customers, NEW amt \in Amounts,
             Branches!deposit(n, who, amt)
      PROVE  BranchInv'
  <2>1. CASE Branches!Deposit(n, who, amt)
    BY <2>1, MoneyDeposited
  <2>2. CASE Branches!ExitUnknown \/ Branches!DepositCrash(n, who)
    BY <1>1, <2>2 DEF Branches!ExitUnknown, Branches!DepositCrash
  <2> QED BY <1>5, <2>1, <2>2 DEF Branches!deposit
<1> QED BY <1>2, <1>3, <1>4, <1>5 DEF Branches!Next

(* What the invariant says in the terms of the model.                       *)
LEMMA BranchesSound ==
  ASSUME BranchInv
  PROVE  /\ Branches!TypeOK /\ Branches!FindFinds /\ Branches!ShadowedIsEmpty
         /\ Branches!IdsConsecutive /\ Branches!MoneyAccounted
<1>1. /\ Branches!AllBranches = BranchPlaces(kBranches)
      /\ Branches!AllAccounts = AccountPlaces(kBranches)
      /\ Branches!Balances = BalancesAt(kBranches)
  BY ModelPlaces DEF BranchInv
<1>2. ASSUME NEW p \in Branches!AllBranches
      PROVE  /\ p[1] \in 0 .. 4 /\ p[2] \in 1 .. Len(kBranches[p[1]])
             /\ p[2] \in Nat /\ Branches!BranchAt(p) = kBranches[p[1]][p[2]]
  BY <1>1 DEF BranchPlaces, Branches!BranchAt
<1>3. ASSUME NEW p \in Branches!AllBranches
      PROVE  /\ Branches!BranchAt(p).id \in BranchNames
             /\ Branches!BranchAt(p).accounts \in Seq(Account)
             /\ Branches!Hash[Branches!BranchAt(p).id] = p[1]
             /\ Numbered(Branches!BranchAt(p).accounts)
  <2>1. Branches!BranchAt(p) \in Branch
    BY <1>2, InChains DEF BranchInv
  <2>2. Listed(kBranches)
    BY DEF BranchInv
  <2>3. /\ Branches!Hash[Branches!BranchAt(p).id] = p[1]
        /\ Numbered(Branches!BranchAt(p).accounts)
    <3>0. PICK k \in 0 .. 4 : k = p[1]
      BY <1>2
    <3>1. PICK r \in 1 .. Len(kBranches[k]) : r = p[2]
      BY <1>2, <3>0
    <3>2. /\ Branches!Hash[kBranches[k][r].id] = k
          /\ Len(kBranches[k][r].accounts) <= MaxAccounts
          /\ \A a \in 1 .. Len(kBranches[k][r].accounts) : kBranches[k][r].accounts[a].id = a
      BY <2>2 DEF Listed
    <3> QED BY <1>2, <3>0, <3>1, <3>2 DEF Numbered
  <2> QED BY <2>1, <2>3 DEF Branch
<1>4. Branches!TypeOK
  <2>1. ASSUME NEW p \in Branches!AllBranches,
               NEW a \in Branches!ToSet(Branches!BranchAt(p).accounts)
        PROVE  a.id \in 1 .. MaxAccounts /\ a.customer \in Customers /\ a.balance \in Nat
    <3>1. PICK list \in Seq(Account) : list = Branches!BranchAt(p).accounts /\ Numbered(list)
      BY <1>3
    <3>2. PICK r \in 1 .. Len(list) : a = list[r]
      BY <3>1 DEF Branches!ToSet
    <3>3. a \in Account /\ a.id = r /\ Len(list) <= MaxAccounts /\ Len(list) \in Nat
      BY <3>1, <3>2 DEF Numbered
    <3>4. MaxAccounts \in Nat
      BY BranchesAssumption DEF Branches!BranchAssumption
    <3> QED BY <3>2, <3>3, <3>4 DEF Account
  <2>2. kCount = Branches!Cardinality(Branches!AllBranches)
    <3>1. kCount = Cardinality(BranchPlaces(kBranches))
      BY DEF BranchInv, BooksFit
    <3> QED BY <1>1, <3>1 DEF Branches!Cardinality, Cardinality
  <2> QED BY <1>3, <2>1, <2>2 DEF Branches!TypeOK, BranchInv
<1>5. Branches!FindFinds
  <2>1. ASSUME NEW p \in Branches!AllBranches PROVE Branches!Found(Branches!BranchAt(p).id)
    <3>1. DOMAIN kBranches[p[1]] = 1 .. Len(kBranches[p[1]])
      BY <1>2, InChains DEF BranchInv
    <3>2. p[2] \in Branches!Matching(Branches!BranchAt(p).id)
      BY <1>2, <1>3, <3>1 DEF Branches!Matching
    <3> QED BY <3>2 DEF Branches!Found
  <2> QED BY <1>3, <2>1 DEF Branches!FindFinds
<1>6. Branches!ShadowedIsEmpty
  <2> SUFFICES ASSUME NEW p \in Branches!AllBranches, NEW q \in Branches!AllBranches,
                      p[1] = q[1], p[2] < q[2],
                      Branches!BranchAt(p).id = Branches!BranchAt(q).id
               PROVE  Branches!BranchAt(q).accounts = <<>>
    BY DEF Branches!ShadowedIsEmpty
  <2>1. Served(kBranches)
    BY DEF BranchInv
  <2> QED BY <1>2, <2>1 DEF Served
<1>7. Branches!IdsConsecutive
  <2>1. ASSUME NEW p \in Branches!AllBranches,
               NEW k \in DOMAIN Branches!BranchAt(p).accounts
        PROVE  Branches!BranchAt(p).accounts[k].id = k
    <3>1. k \in 1 .. Len(Branches!BranchAt(p).accounts)
      BY <1>3
    <3> QED BY <1>3, <3>1 DEF Numbered
  <2> QED BY <2>1 DEF Branches!IdsConsecutive
<1>8. Branches!MoneyAccounted
  <2>1. Holds(kBranches, kDeposited + 100 * kPremium)
    BY DEF BranchInv
  <2>2. Branches!MapThenSumSet(LAMBDA t : Branches!Balances[t], Branches!AllAccounts)
          = SumOf(Branches!Balances, Branches!AllAccounts)
    BY DEF SumOf, MapThenSumSet, MapThenFoldSet, Branches!MapThenSumSet, Branches!MapThenFoldSet
  <2> QED BY <1>1, <2>1, <2>2 DEF Branches!MoneyAccounted, Holds
<1> QED BY <1>4, <1>5, <1>6, <1>7, <1>8
-----------------------------------------------------------------------------
(* The books and reports of all the programs. *)

(* A run of the suite is a run of each of its programs, each of which stands
   still while it was not picked.                                           *)
LEMMA SuiteRunsPrograms ==
  SuiteInit /\ [][SuiteNext]_suite =>
    Spec /\ Bank!Spec /\ Swaps!Spec /\ Sensor!Spec /\ Split!Spec /\ Branches!Spec
  <1>1. SuiteInit => /\ Init /\ Bank!Init /\ Swaps!Init /\ Sensor!Init /\ Split!Init
                     /\ Branches!Init
    BY DEF SuiteInit
  <1>2. [SuiteNext]_suite =>
          /\ [Next]_vars /\ [Bank!Next]_(Bank!vars) /\ [Swaps!Next]_(Swaps!vars)
          /\ [Sensor!Next]_(Sensor!vars) /\ [Split!Next]_(Split!vars)
          /\ [Branches!Next]_(Branches!vars)
    BY DEF SuiteNext, suite, vars, bankVars, swapsVars, sensorVars, splitVars, branchVars,
           Bank!vars, Swaps!vars, Sensor!vars, Split!vars, Branches!vars
  <1> QED BY <1>1, <1>2, PTL DEF Spec, Bank!Spec, Swaps!Spec, Sensor!Spec, Split!Spec, Branches!Spec

(* The counter stays within its rounds; money is under way only while a
   transfer holds both mutexes, and check_balance prints under lock_B, after
   the second transfer, what balances: for any workers, rounds, balances and
   amounts that fit, and any number of wakeups without a signal.            *)
THEOREM BooksAreBalanced == Spec /\ Swaps!Spec => []BooksBalance
  <1>1. IndInv /\ Swaps!TypeOK /\ Swaps!MoneyConserved /\ Swaps!ReportConsistent => BooksBalance
    BY DEF IndInv, BooksBalance
  <1> QED BY <1>1, Inductive, SwapsBalance, PTL

(* Whatever threads main's joins of mutex.c miss, the sensor and its log fit
   each other and lack only the late ones' toggles; and the totals of
   aggregator.c and concurrent_sum.c are those of their lists, in any order of
   the threads, for any number of toggles, threads and elements.            *)
THEOREM ReportsAreTruthful == Sensor!Spec /\ Split!Spec => []ReportsTruthful
  <1>1. /\ Sensor!TypeOK /\ Sensor!SwitchMatchesLog /\ Sensor!ReportHasLast
        /\ Sensor!UndefinedOnlyUnjoined
        /\ Split!TypeOK /\ Split!TotalIsSum /\ Split!EveryIndexOnce
        => ReportsTruthful
    BY DEF ReportsTruthful
  <1> QED BY <1>1, SensorTruthful, SplitTruthful, PTL

(* In the bank of banking.c a name leads to the first branch of that name,
   which alone has accounts, numbered from one, and the balances add up to the
   deposits and the premium gifts: for any names that collide and any amounts,
   branches and accounts.                                                   *)
THEOREM BankIsSound == Branches!Spec => []BankSound
  <1>1. BranchInv => BankSound
    BY BranchesSound DEF BankSound
  <1> QED BY <1>1, BranchesInit, BranchesStep, PTL DEF Branches!Spec
=============================================================================
