------------------------------ MODULE Deposits ------------------------------
(***************************************************************************)
(* Deposits into one balance under a mutex: pthread/bank_account.c,        *)
(* multithreading/balance_race.c and multithreading/pthreads.c.  The       *)
(* update itself is a load and a store.  main joins every depositor and    *)
(* then reads the balance through a pointer into the shared account.       *)
(***************************************************************************)
EXTENDS Pthreads, FiniteSetsExt

\* All deposits together stay far below 2^32: the uint32_t does not wrap.
CONSTANTS Depositors, Amount(_),  \* the threads and what each deposits
          Reader                  \* the thread of user_balance

DepositAssumption ==
  /\ IsFiniteSet(Depositors) /\ \A d \in Depositors : Amount(d) \in Nat
  /\ Reader \notin Depositors /\ None \notin Depositors \cup {Reader}

VARIABLES
  mutex,    \* holder of the mutex
  balance,  \* the shared balance
  loaded,   \* the value a depositor has read
  pc,       \* where each thread is
  joined    \* main has joined all depositors

vars == <<mutex, balance, loaded, pc, joined>>

Threads == Depositors \cup {Reader}

Init ==
  /\ mutex = None /\ balance = 0
  /\ loaded = [d \in Depositors |-> 0]
  /\ pc = [t \in Threads |-> IF t = Reader THEN "unborn" ELSE "lock"]
  /\ joined = FALSE
-----------------------------------------------------------------------------
(* deposit *)

\* The variant deposits without the mutex.
EnterUnlocked(d) == UNCHANGED mutex
Enter(d) == Lock(mutex, d)

LockAccount(d) ==
  /\ Goto(pc, d, "lock", "load")
  /\ Enter(d)
  /\ UNCHANGED <<balance, loaded, joined>>

LoadBalance(d) ==
  /\ Goto(pc, d, "load", "store")
  /\ loaded' = [loaded EXCEPT ![d] = balance]
  /\ UNCHANGED <<mutex, balance, joined>>

NewBalance(d) == loaded[d] + Amount(d)

StoreBalance(d) ==
  /\ Goto(pc, d, "store", "unlock")
  /\ balance' = NewBalance(d)
  /\ UNCHANGED <<mutex, loaded, joined>>

Leave(d) == mutex' = None

UnlockAccount(d) ==
  /\ Goto(pc, d, "unlock", "done")
  /\ Leave(d)
  /\ UNCHANGED <<balance, loaded, joined>>

deposit(d) == LockAccount(d) \/ LoadBalance(d) \/ StoreBalance(d) \/ UnlockAccount(d)
-----------------------------------------------------------------------------
(* main and user_balance *)

JoinDepositors ==
  /\ ~joined /\ \A d \in Depositors : pc[d] = "done"
  /\ joined' = TRUE
  /\ pc' = [pc EXCEPT ![Reader] = "lock"]
  /\ UNCHANGED <<mutex, balance, loaded>>

\* It returns the address of the balance, which main then reads.
GetBalance ==
  /\ Goto(pc, Reader, "lock", "unlock")
  /\ Lock(mutex, Reader)
  /\ UNCHANGED <<balance, loaded, joined>>

user_balance == \/ GetBalance
                \/ /\ Goto(pc, Reader, "unlock", "done")
                   /\ Unlock(mutex, Reader)
                   /\ UNCHANGED <<balance, loaded, joined>>

Finished == pc[Reader] = "done"
Terminated == Finished /\ UNCHANGED vars

Next == \/ JoinDepositors \/ user_balance \/ Terminated
        \/ \E d \in Depositors : deposit(d)

Spec == Init /\ [][Next]_vars

\* The program is finite: it is enough that some thread that can run does.
FairSpec == Spec /\ WF_vars(Next)
-----------------------------------------------------------------------------
Stored == {d \in Depositors : pc[d] \in {"unlock", "done"}}
Sum(S) == MapThenSumSet(Amount, S)

(* deposit never takes the balance beyond all the deposits together.        *)
TypeOK ==
  /\ mutex \in Threads \cup {None}
  /\ balance \in 0..Sum(Depositors) /\ loaded \in [Depositors -> 0..Sum(Depositors)]
  /\ pc \in [Threads -> {"unborn", "lock", "load", "store", "unlock", "done"}]
  /\ joined \in BOOLEAN

(* What a depositor is about to write back is not out of date.              *)
LoadedIsFresh == \A d \in Depositors : pc[d] = "store" => loaded[d] = balance

Plus(d) == Amount(d)
Abstract == INSTANCE Tally WITH Ops <- Depositors, Value <- Plus,
                                total <- balance, applied <- Stored

(* A deposit under the mutex is an indivisible addition.                    *)
ImplementsTally == Abstract!Spec

(* Every depositor gets the mutex, and the balance is printed.              *)
Termination == <>Finished
=============================================================================
