------------------------------ MODULE Transfer ------------------------------
(***************************************************************************)
(* multithreading/deadlock_accounts.c: two transfers in opposite           *)
(* directions take lock_A and then lock_B; check_balance waits, under      *)
(* lock_B alone, until the second transfer is marked as completed.         *)
(***************************************************************************)
EXTENDS Pthreads, Integers, FiniteSets

CONSTANTS Ta, Tb, Check,  \* transfer_a_to_b, transfer_b_to_a, check_balance
          Start1, Start2, \* the balances main opens the accounts with
          AmountA, AmountB, \* and the amounts of its two transfers
          MaxSpurious     \* bound on spurious wakeups

UInt16 == 0 .. 65535

\* main transfers no more than it has opened an account with, 250 of 500 and 300
\* of 400, and all the money fits into either uint16_t.
TransferAssumption ==
  /\ Ta # Tb /\ Check \notin {Ta, Tb} /\ None \notin {Ta, Tb, Check}
  /\ Start1 \in Nat /\ Start2 \in Nat /\ Start1 + Start2 \in UInt16
  /\ AmountA \in 0 .. Start1 /\ AmountB \in 0 .. Start2
  /\ MaxSpurious \in Nat

VARIABLES
  lock_A, lock_B,  \* holders of the mutexes
  onCompleted, \* threads blocked on completed
  completed,   \* transfer2.transaction_completed
  balance,     \* the balance of acc1 and acc2, uint16_t
  pc,          \* where each thread is
  report,      \* history: the balances check_balance printed
  spurious     \* spurious wakeups so far

vars == <<lock_A, lock_B, onCompleted, completed, balance, pc, report, spurious>>

Movers == {Ta, Tb}
Threads == Movers \cup {Check}
Origin(t) == IF t = Ta THEN 1 ELSE 2
Destination(t) == 3 - Origin(t)
Amount(t) == IF t = Ta THEN AmountA ELSE AmountB

Init ==
  /\ lock_A = None /\ lock_B = None
  /\ onCompleted = {} /\ completed = FALSE
  /\ balance = <<Start1, Start2>>
  /\ pc = [t \in Threads |-> "first"]
  /\ report = <<>> /\ spurious = 0
-----------------------------------------------------------------------------
(* transfer_a_to_b and transfer_b_to_a *)

\* The order of the locks is the same in both; the variant mirrors it.
FirstMirrored(t) == IF t = Ta THEN "A" ELSE "B"
First(t) == "A"

\* t locks the mutex named m.
LockNamed(m, t) == IF m = "A" THEN Lock(lock_A, t) /\ UNCHANGED lock_B
                              ELSE Lock(lock_B, t) /\ UNCHANGED lock_A

LockFirst(t) ==
  /\ Goto(pc, t, "first", "second")
  /\ LockNamed(First(t), t)
  /\ UNCHANGED <<onCompleted, completed, balance, report, spurious>>

LockSecond(t) ==
  /\ Goto(pc, t, "second", "debit")
  /\ LockNamed(IF First(t) = "A" THEN "B" ELSE "A", t)
  /\ UNCHANGED <<onCompleted, completed, balance, report, spurious>>

\* uint16_t arithmetic; the variant credits a byte.
NarrowSum(n) == n % 256
Wrapped(n) == n % 65536

Debit(t) ==
  /\ Goto(pc, t, "debit", "credit")
  /\ balance' = [balance EXCEPT ![Origin(t)] = Wrapped(@ - Amount(t))]
  /\ UNCHANGED <<lock_A, lock_B, onCompleted, completed, report, spurious>>

\* transfer_b_to_a also marks its transfer as completed.
Credit(t) ==
  /\ Goto(pc, t, "credit", "unlockB")
  /\ balance' = [balance EXCEPT ![Destination(t)] = Wrapped(@ + Amount(t))]
  /\ completed' = (completed \/ t = Tb)
  /\ UNCHANGED <<lock_A, lock_B, onCompleted, report, spurious>>

UnlockB(t) ==
  /\ Goto(pc, t, "unlockB", "unlockA")
  /\ Unlock(lock_B, t)
  /\ UNCHANGED <<lock_A, onCompleted, completed, balance, report, spurious>>

UnlockA(t) ==
  /\ Goto(pc, t, "unlockA", IF t = Tb THEN "signal" ELSE "done")
  /\ Unlock(lock_A, t)
  /\ UNCHANGED <<lock_B, onCompleted, completed, balance, report, spurious>>

\* After both unlocks.
SignalCompleted == CondSignal(onCompleted)

Signal ==
  /\ Goto(pc, Tb, "signal", "done")
  /\ SignalCompleted
  /\ UNCHANGED <<lock_A, lock_B, completed, balance, report, spurious>>

Move(t) == \/ LockFirst(t) \/ LockSecond(t) \/ Debit(t) \/ Credit(t)
           \/ UnlockB(t) \/ UnlockA(t)
transfer_a_to_b == Move(Ta)
transfer_b_to_a == Move(Tb) \/ Signal
-----------------------------------------------------------------------------
(* check_balance *)

\* The variant reads the balances without the mutex.
CheckUnlocked == UNCHANGED lock_B
CheckEnters == Lock(lock_B, Check)

CheckLock ==
  /\ Goto(pc, Check, "first", "test")
  /\ CheckEnters
  /\ UNCHANGED <<lock_A, onCompleted, completed, balance, report, spurious>>

CheckWait ==
  /\ ~completed
  /\ Goto(pc, Check, "test", "wait")
  /\ CondWait(lock_B, onCompleted, Check)
  /\ UNCHANGED <<lock_A, completed, balance, report, spurious>>

CheckWake ==
  /\ Goto(pc, Check, "wait", "test")
  /\ CondWake(lock_B, onCompleted, Check)
  /\ UNCHANGED <<lock_A, onCompleted, completed, balance, report, spurious>>

CheckPrint ==
  /\ completed
  /\ Goto(pc, Check, "test", "unlock")
  /\ report' = balance
  /\ UNCHANGED <<lock_A, lock_B, onCompleted, completed, balance, spurious>>

CheckUnlock ==
  /\ Goto(pc, Check, "unlock", "done")
  /\ Unlock(lock_B, Check)
  /\ UNCHANGED <<lock_A, onCompleted, completed, balance, report, spurious>>

check_balance == CheckLock \/ CheckWait \/ CheckWake \/ CheckPrint \/ CheckUnlock

SpuriousWake ==
  /\ spurious < MaxSpurious /\ Check \in onCompleted
  /\ spurious' = spurious + 1
  /\ onCompleted' = {}
  /\ UNCHANGED <<lock_A, lock_B, completed, balance, pc, report>>
-----------------------------------------------------------------------------
\* main's joins, then clean.
Joined == \A t \in Threads : pc[t] = "done"
Terminated == Joined /\ UNCHANGED vars

Next == transfer_a_to_b \/ transfer_b_to_a \/ check_balance \/ SpuriousWake \/ Terminated

Spec == Init /\ [][Next]_vars

\* It is enough that some thread that can run does; a wakeup without a signal
\* is never owed.
FairSpec == Spec /\ WF_vars(transfer_a_to_b \/ transfer_b_to_a \/ check_balance)
-----------------------------------------------------------------------------
(* The uint16_t balances, both mutexes and the report of check_balance
   keep their types.                                                        *)
TypeOK ==
  /\ lock_A \in Movers \cup {None} /\ lock_B \in Threads \cup {None}
  /\ onCompleted \subseteq {Check} /\ completed \in BOOLEAN
  /\ balance \in [{1, 2} -> UInt16]
  /\ pc \in [Threads -> {"first", "second", "debit", "credit", "unlockB", "unlockA",
                         "signal", "test", "wait", "unlock", "done"}]
  /\ report \in {<<>>} \cup [{1, 2} -> UInt16]
  /\ spurious \in 0..MaxSpurious

(* Money is only under way while a transfer holds both locks: lock_B alone is
   enough to see the accounts balance.                                      *)
Conserved(b) == b[1] + b[2] = Start1 + Start2
MoneyConserved == lock_B \notin Movers => Conserved(balance)

(* So the report balances, and it has the second transfer in it.            *)
ReportConsistent ==
  report # <<>> => Conserved(report) /\ report[2] \in {Start2 - AmountB, Start2 - AmountB + AmountA}

(* Transfers in opposite directions do not deadlock, and check_balance does
   not miss the signal sent after the unlocks.                              *)
Termination == <>[]Joined

=============================================================================
