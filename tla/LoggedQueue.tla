---------------------------- MODULE LoggedQueue ----------------------------
(***************************************************************************)
(* recap/ring_buffer.c: main pushes and pops through a ring of three       *)
(* slots; a push into a full ring is refused, raises is_full and signals   *)
(* cond_full, and a detached thread logs a warning and clears the flag.    *)
(* A pop clears the flag too, and the end of main ends the logger.         *)
(***************************************************************************)
EXTENDS Pthreads, Integers, Sequences

CONSTANTS Main, Logger,   \* the two threads
          Script,         \* main's operations: <<value>> pushes, <<>> pops
          Capacity,       \* the capacity main asks init for
          MaxSpurious     \* bound on spurious wakeups

LoggedAssumption ==
  /\ Main \notin {Logger, None} /\ Logger # None
  /\ Script \in Seq(Seq(Int)) /\ \A k \in DOMAIN Script : Len(Script[k]) <= 1
  /\ Capacity \in Nat \ {0} /\ MaxSpurious \in Nat

VARIABLES
  lock,      \* holder of lock
  onFull,    \* threads blocked on cond_full
  is_full,   \* the flag
  buffer, head, tail, size,   \* the ring
  step,      \* operations of Script main has completed
  pc,        \* where each thread is
  accepted,  \* history: values pushed and not yet popped
  refused, warned, \* history: refused pushes and logged warnings
  spurious   \* spurious wakeups so far

ring == <<buffer, head, tail, size, accepted>>
vars == <<lock, onFull, is_full, ring, step, pc, refused, warned, spurious>>

Init ==
  /\ lock = None /\ onFull = {} /\ is_full = FALSE
  /\ buffer = [k \in 0..Capacity - 1 |-> 0]
  /\ head = 0 /\ tail = 0 /\ size = 0
  /\ step = 0 /\ pc = [t \in {Main, Logger} |-> "lock"]
  /\ accepted = <<>> /\ refused = 0 /\ warned = 0 /\ spurious = 0

Running == step < Len(Script)
Current == Script[step + 1]

Enter(t) ==
  /\ Running
  /\ Goto(pc, t, "lock", "in")
  /\ Lock(lock, t)
  /\ UNCHANGED <<onFull, is_full, ring, step, refused, warned, spurious>>
-----------------------------------------------------------------------------
(* push and pop *)

\* The next slot; the variant forgets to wrap.
Onward(k) == k + 1
Advance(k) == (k + 1) % Capacity
NoRoom == size + 1 > Capacity

\* The logger is told; the variant tells nobody.
AlertNobody == UNCHANGED onFull
Alert == CondSignal(onFull)

PushRefused ==
  /\ Goto(pc, Main, "in", "out")
  /\ Current # <<>> /\ NoRoom
  /\ is_full' = TRUE /\ Alert
  /\ refused' = refused + 1
  /\ UNCHANGED <<lock, ring, step, warned, spurious>>

PushStored ==
  /\ Goto(pc, Main, "in", "out")
  /\ Current # <<>> /\ ~NoRoom
  /\ buffer' = [buffer EXCEPT ![head] = Current[1]]
  /\ head' = Advance(head) /\ size' = size + 1
  /\ accepted' = accepted \o Current
  /\ UNCHANGED <<lock, onFull, is_full, tail, step, refused, warned, spurious>>

PopEmpty ==
  /\ Goto(pc, Main, "in", "out")
  /\ Current = <<>> /\ size = 0
  /\ UNCHANGED <<lock, onFull, is_full, ring, step, refused, warned, spurious>>

PopTaken ==
  /\ Goto(pc, Main, "in", "out")
  /\ Current = <<>> /\ size > 0
  /\ tail' = Advance(tail) /\ size' = size - 1
  /\ accepted' = Tail(accepted)
  /\ is_full' = FALSE
  /\ UNCHANGED <<lock, onFull, buffer, head, step, refused, warned, spurious>>

\* The variant returns with the mutex.
KeepLock == UNCHANGED lock
Release == Unlock(lock, Main)

MainLeaves ==
  /\ Goto(pc, Main, "out", "lock")
  /\ Release
  /\ step' = step + 1
  /\ UNCHANGED <<onFull, is_full, ring, refused, warned, spurious>>

push == PushRefused \/ PushStored
pop == PopEmpty \/ PopTaken
main == Enter(Main) \/ push \/ pop \/ MainLeaves
-----------------------------------------------------------------------------
(* is_full, the detached logger *)

LoggerWait ==
  /\ Running /\ ~is_full
  /\ Goto(pc, Logger, "in", "wait")
  /\ CondWait(lock, onFull, Logger)
  /\ UNCHANGED <<is_full, ring, step, refused, warned, spurious>>

LoggerWake ==
  /\ Running
  /\ Goto(pc, Logger, "wait", "in")
  /\ CondWake(lock, onFull, Logger)
  /\ UNCHANGED <<onFull, is_full, ring, step, refused, warned, spurious>>

LoggerSpurious ==
  /\ Running /\ spurious < MaxSpurious /\ Logger \in onFull
  /\ spurious' = spurious + 1
  /\ onFull' = {}
  /\ UNCHANGED <<lock, is_full, ring, step, pc, refused, warned>>

\* The variant leaves the flag up.
KeepWarning == is_full
AfterWarning == FALSE

LoggerWarn ==
  /\ Running /\ is_full
  /\ Goto(pc, Logger, "in", "out")
  /\ is_full' = AfterWarning /\ warned' = warned + 1
  /\ UNCHANGED <<lock, onFull, ring, step, refused, spurious>>

LoggerLeaves ==
  /\ Running
  /\ Goto(pc, Logger, "out", "lock")
  /\ Unlock(lock, Logger)
  /\ UNCHANGED <<onFull, is_full, ring, step, refused, warned, spurious>>

logger == \/ Enter(Logger) \/ LoggerWait \/ LoggerWake \/ LoggerSpurious
          \/ LoggerWarn \/ LoggerLeaves

Terminated == ~Running /\ UNCHANGED vars

Next == main \/ logger \/ Terminated

Spec == Init /\ [][Next]_vars

\* Both threads are scheduled and get the mutex in the end.
FairSpec == Spec /\ SF_vars(main) /\ WF_vars(logger)
-----------------------------------------------------------------------------
(* push and pop keep the ring's indices and size within its capacity.       *)
TypeOK ==
  /\ lock \in {Main, Logger, None} /\ onFull \subseteq {Logger}
  /\ {head, tail} \subseteq DOMAIN buffer /\ size \in 0..Capacity
  /\ step \in 0..Len(Script) /\ {refused, warned} \subseteq 0..Len(Script)
  /\ pc \in [{Main, Logger} -> {"lock", "in", "out", "wait"}]

(* The ring holds exactly what was accepted and not popped, oldest at tail. *)
RingHoldsAccepted ==
  /\ size = Len(accepted)
  /\ head = (tail + size) % Capacity
  /\ \A k \in 1..size : buffer[(tail + k - 1) % Capacity] = accepted[k]

(* The flag and the warning are never out of date: the ring is full then.   *)
FlagMeansFull == is_full => size = Capacity

(* Each warning answers a refused push of its own, and while one is due the
   logger is awake: it loses the warning only to a pop that comes first.    *)
WarningsAnswerRefusals ==
  /\ warned + (IF is_full THEN 1 ELSE 0) <= refused
  /\ is_full => Logger \notin onFull

(* The logger never keeps main from completing its operations.              *)
MainEnds == <>(step = Len(Script))

=============================================================================
