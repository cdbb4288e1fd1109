---------------------------- MODULE ArenaReport ----------------------------
(***************************************************************************)
(* recap/custom_arena.c: six threads add a byte each to an arena of five,  *)
(* the one that finds it full wakes the printer, the printer wakes the     *)
(* destroyer, and the destroyer frees the arena.  main joins them all.     *)
(***************************************************************************)
EXTENDS Pthreads, Sequences, FiniteSets

CONSTANTS Adders,            \* the workers, capacity + 1 of them in main
          Printer, Destroyer,
          Capacity,          \* arena->capacity
          MaxSpurious        \* bound on spurious wakeups

\* main starts one adder more than there are bytes.
ArenaAssumption ==
  /\ IsFiniteSet(Adders) /\ Capacity \in Nat /\ Cardinality(Adders) = Capacity + 1
  /\ Printer \notin Adders \cup {Destroyer, None} /\ Destroyer \notin Adders \cup {None}
  /\ None \notin Adders
  /\ MaxSpurious \in Nat

VARIABLES
  lock,                \* holder of the mutex
  onFull, onReset,     \* threads blocked on cond and on reset_cond
  buffer,              \* the bytes before arena->offset (and size)
  is_full, can_reset,
  freed,               \* the arena and its buffer have been freed
  pc, spurious,
  printed              \* history: what print_buffer printed

flags == <<is_full, can_reset>>
vars == <<lock, onFull, onReset, buffer, flags, freed, pc, spurious, printed>>

Threads == Adders \cup {Printer, Destroyer}

Init ==
  /\ lock = None /\ onFull = {} /\ onReset = {}
  /\ buffer = <<>> /\ is_full = FALSE /\ can_reset = FALSE /\ freed = FALSE
  /\ pc = [t \in Threads |-> "lock"] /\ spurious = 0 /\ printed = <<>>

Enter(t) ==
  /\ Goto(pc, t, "lock", "body")
  /\ Lock(lock, t)
  /\ UNCHANGED <<onFull, onReset, buffer, flags, freed, spurious, printed>>

Leave(t) ==
  /\ Goto(pc, t, "unlock", "done")
  /\ Unlock(lock, t)
  /\ UNCHANGED <<onFull, onReset, buffer, flags, freed, spurious, printed>>

\* A wait on one of the two conditions, and the return from it.
Wait(t, on, other) ==
  /\ Goto(pc, t, "body", "wait")
  /\ CondWait(lock, on, t)
  /\ UNCHANGED <<other, buffer, flags, freed, spurious, printed>>

Wake(t, on) ==
  /\ Goto(pc, t, "wait", "body")
  /\ CondWake(lock, on, t)
  /\ UNCHANGED <<onFull, onReset, buffer, flags, freed, spurious, printed>>
-----------------------------------------------------------------------------
(* worker_add and add *)

\* The byte does not fit; the variant gives up one byte early.
FullSoon == Len(buffer) + 1 >= Capacity
Full == Len(buffer) + 1 > Capacity

Store(t) ==
  /\ ~Full
  /\ Goto(pc, t, "body", "unlock")
  /\ buffer' = Append(buffer, Len(buffer) + 2)
  /\ UNCHANGED <<lock, onFull, onReset, flags, freed, spurious, printed>>

Refuse(t) ==
  /\ Full
  /\ Goto(pc, t, "body", "unlock")
  /\ is_full' = TRUE
  /\ CondSignal(onFull)
  /\ UNCHANGED <<lock, onReset, buffer, can_reset, freed, spurious, printed>>

worker_add(t) == Enter(t) \/ Store(t) \/ Refuse(t) \/ Leave(t)
-----------------------------------------------------------------------------
(* worker_print and arena_destroy *)

print_buffer ==
  /\ is_full
  /\ Goto(pc, Printer, "body", "unlock")
  /\ printed' = buffer /\ can_reset' = TRUE
  /\ CondSignal(onReset)
  /\ UNCHANGED <<lock, onFull, buffer, is_full, freed, spurious>>

worker_print == \/ Enter(Printer) \/ (~is_full /\ Wait(Printer, onFull, onReset))
                \/ Wake(Printer, onFull) \/ print_buffer \/ Leave(Printer)

\* When the arena may go; the variant does not wait for the printer.
MayFreeFull == is_full
MayFree == can_reset

Free ==
  /\ MayFree
  /\ Goto(pc, Destroyer, "body", "unlock")
  /\ buffer' = <<>> /\ freed' = TRUE
  /\ UNCHANGED <<lock, onFull, onReset, flags, spurious, printed>>

arena_destroy == \/ Enter(Destroyer) \/ (~MayFree /\ Wait(Destroyer, onReset, onFull))
                 \/ Wake(Destroyer, onReset) \/ Free \/ Leave(Destroyer)

SpuriousWake ==
  /\ spurious < MaxSpurious /\ spurious' = spurious + 1
  /\ \/ Printer \in onFull /\ onFull' = {} /\ UNCHANGED onReset
     \/ Destroyer \in onReset /\ onReset' = {} /\ UNCHANGED onFull
  /\ UNCHANGED <<lock, buffer, flags, freed, pc, printed>>

Joined == \A t \in Threads : pc[t] = "done"
Terminated == Joined /\ UNCHANGED vars

Next == \/ \E t \in Adders : worker_add(t)
        \/ worker_print \/ arena_destroy \/ SpuriousWake \/ Terminated

Spec == Init /\ [][Next]_vars
-----------------------------------------------------------------------------
(* add never writes beyond the capacity and each condition has one possible
   sleeper.                                                                 *)
TypeOK ==
  /\ lock \in Threads \cup {None}
  /\ onFull \subseteq {Printer} /\ onReset \subseteq {Destroyer}
  /\ buffer \in Seq(2 .. Capacity + 1) /\ Len(buffer) <= Capacity
  /\ {is_full, can_reset, freed} \subseteq BOOLEAN
  /\ pc \in [Threads -> {"lock", "body", "wait", "unlock", "done"}]
  /\ spurious \in 0 .. MaxSpurious

(* arena_destroy comes last: once it has freed the arena, no adder and no
   printer is left that would still look at it.  Nothing but the number of
   adders sees to that.                                                     *)
FreedLast ==
  freed => \A t \in Adders \cup {Printer} : pc[t] \in {"unlock", "done"}

(* print_buffer shows a full arena, in order, before it is freed.           *)
PrintedFull ==
  /\ can_reset => printed = [k \in 1 .. Capacity |-> k + 1]
  /\ freed => can_reset

(* Printer and destroyer are woken, whoever came first; main joins them.    *)
Termination == <>Joined
=============================================================================
