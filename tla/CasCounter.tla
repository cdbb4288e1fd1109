----------------------------- MODULE CasCounter -----------------------------
(***************************************************************************)
(* multithreading/cas.c: every worker loads the counter and retries        *)
(* atomic_compare_exchange_weak until it has replaced the value it         *)
(* expected by the next one.  A failed exchange, real or spurious, leaves  *)
(* the current value in expected.                                          *)
(***************************************************************************)
EXTENDS Naturals, FiniteSets

CONSTANTS Workers,     \* the threads of main
          Rounds       \* iterations of worker_loop, 1000000 in the code

\* The counter is an int: four workers make 4000000 exchanges.
ASSUME WorkersAssumption == IsFiniteSet(Workers)
ASSUME RoundsAssumption == Rounds \in Nat

VARIABLES
  counter,   \* the atomic
  expected,  \* each worker's expected
  i,         \* each worker's loop counter: exchanges it has completed
  pc         \* where each worker is: load, swap or done

vars == <<counter, expected, i, pc>>

Init ==
  /\ counter = 0
  /\ expected = [w \in Workers |-> 0]
  /\ i = [w \in Workers |-> 0]
  /\ pc = [w \in Workers |-> "load"]
-----------------------------------------------------------------------------
\* The loop condition; the variant runs one round too many.
MoreOrEqual(w) == i[w] <= Rounds
More(w) == i[w] < Rounds

Load(w) ==
  /\ pc[w] = "load" /\ More(w)
  /\ expected' = [expected EXCEPT ![w] = counter]
  /\ pc' = [pc EXCEPT ![w] = "swap"]
  /\ UNCHANGED <<counter, i>>

\* The comparison; the variant overwrites whatever is there.
Overwrite(w) == TRUE
StillExpected(w) == counter = expected[w]

Swap(w) ==
  /\ pc[w] = "swap" /\ StillExpected(w)
  /\ counter' = expected[w] + 1
  /\ i' = [i EXCEPT ![w] = @ + 1]
  /\ pc' = [pc EXCEPT ![w] = "load"]
  /\ UNCHANGED expected

\* A failure stores the current value.
Reload(w) == counter

\* A weak exchange may also fail although the values agree.
Fail(w) ==
  /\ pc[w] = "swap"
  /\ expected' = [expected EXCEPT ![w] = Reload(w)]
  /\ UNCHANGED <<counter, i, pc>>

Finish(w) ==
  /\ pc[w] = "load" /\ ~More(w)
  /\ pc' = [pc EXCEPT ![w] = "done"]
  /\ UNCHANGED <<counter, expected, i>>

worker_loop(w) == Load(w) \/ Swap(w) \/ Fail(w) \/ Finish(w)

\* main's joins, then it prints the sum.
Joined == \A w \in Workers : pc[w] = "done"
Terminated == Joined /\ UNCHANGED vars

Next == Terminated \/ \E w \in Workers : worker_loop(w)

Spec == Init /\ [][Next]_vars

\* A worker keeps running, and an exchange that would succeed does not fail
\* spuriously for ever.
FairSpec == Spec /\ \A w \in Workers : WF_vars(worker_loop(w)) /\ WF_vars(Swap(w))
-----------------------------------------------------------------------------
(* The rounds of worker_loop stop at their bound, and the counter and
   every expected value are counts.                                         *)
TypeOK ==
  /\ counter \in Nat
  /\ expected \in [Workers -> Nat]
  /\ i \in [Workers -> 0..Rounds]
  /\ pc \in [Workers -> {"load", "swap", "done"}]

\* The exchanges that have been completed.
Completed == {o \in Workers \X (1..Rounds) : o[2] <= i[o[1]]}

(* No increment of worker_loop is lost or counted twice, however the workers
   race.                                                                    *)
NoLostUpdate == counter = Cardinality(Completed)

(* The sum main prints is that of all workers' increments.                  *)
SumComplete == Joined => counter = Cardinality(Workers \X (1..Rounds))

One(o) == 1
Abstract == INSTANCE Tally WITH Ops <- Workers \X (1..Rounds), Value <- One,
                                total <- counter, applied <- Completed

(* The retry loop is an atomic increment.                                   *)
ImplementsTally == Abstract!Spec

(* The retries come to an end: a worker is overtaken only as often as the
   others still have increments to make.                                    *)
Termination == <>Joined
=============================================================================
