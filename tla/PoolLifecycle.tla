--------------------------- MODULE PoolLifecycle ---------------------------
(***************************************************************************)
(* pthread/contional_var.c: a swimming pool is cleaned, filled and opened  *)
(* by three threads.  Each stage raises a bit of the shared state under    *)
(* the mutex and broadcasts its condition after the unlock; the next stage *)
(* waits for the bits it needs.  main joins the three and frees the pool.  *)
(***************************************************************************)
EXTENDS Pthreads

CONSTANTS Cleaner, Filler, Opener,  \* clean, fill, open_pool
          MaxSpurious               \* bound on spurious wakeups

ASSUME LifecycleAssumption ==
  /\ Cleaner \notin {Filler, Opener, None} /\ Filler \notin {Opener, None}
  /\ Opener # None
  /\ MaxSpurious \in Nat

VARIABLES
  owner,             \* holder of mutex
  onClean, onFull,   \* threads blocked on is_clean and on is_full
  state,             \* the bits of pool->state that are 1
  pc,                \* where each thread is
  mismatch,          \* open_pool has printed "State mismatch"
  spurious,          \* spurious wakeups so far
  freed              \* main has freed the pool

vars == <<owner, onClean, onFull, state, pc, mismatch, spurious, freed>>

Threads == {Cleaner, Filler, Opener}
ReadyMask == {"clean", "full", "open"}

Init ==
  /\ owner = None /\ onClean = {} /\ onFull = {}
  /\ state = {}
  /\ pc = [t \in Threads |-> IF t = Cleaner THEN "lockSet" ELSE "lock"]
  /\ mismatch = FALSE /\ spurious = 0 /\ freed = FALSE

\* The mutex before a wait loop, and the second time before a bit is raised.
Enter(t, from, to) ==
  /\ Goto(pc, t, from, to)
  /\ Lock(owner, t)
  /\ UNCHANGED <<onClean, onFull, state, mismatch, spurious, freed>>

Leave(t, from, to) ==
  /\ Goto(pc, t, from, to)
  /\ Unlock(owner, t)
  /\ UNCHANGED <<onClean, onFull, state, mismatch, spurious, freed>>

\* A stage raises its bit; the variant assigns it.
Overwritten(bit) == {bit}
Raised(bit) == state \cup {bit}

Raise(t, bit) ==
  /\ Goto(pc, t, "set", "leaveSet")
  /\ state' = Raised(bit)
  /\ UNCHANGED <<owner, onClean, onFull, mismatch, spurious, freed>>
-----------------------------------------------------------------------------
\* clean: scrub, raise the bit, broadcast after the unlock.
CleanBroadcast ==
  /\ Goto(pc, Cleaner, "announce", "done")
  /\ CondBroadcast(onClean)
  /\ UNCHANGED <<owner, onFull, state, mismatch, spurious, freed>>

clean == \/ Enter(Cleaner, "lockSet", "set") \/ Raise(Cleaner, "clean")
         \/ Leave(Cleaner, "leaveSet", "announce") \/ CleanBroadcast
-----------------------------------------------------------------------------
\* fill waits for CLEAN; the variant, an "if" on nothing, goes straight on.
MayFillAnyway == TRUE
MayFill == "clean" \in state

FillWait ==
  /\ ~MayFill
  /\ Goto(pc, Filler, "check", "wait")
  /\ CondWait(owner, onClean, Filler)
  /\ UNCHANGED <<onFull, state, mismatch, spurious, freed>>

FillWake ==
  /\ Goto(pc, Filler, "wait", "check")
  /\ CondWake(owner, onClean, Filler)
  /\ UNCHANGED <<onClean, onFull, state, mismatch, spurious, freed>>

FillGo ==
  /\ MayFill
  /\ Leave(Filler, "check", "lockSet")

\* Announcing a full pool after the unlock; the variant forgets to.
FullQuietly == UNCHANGED onFull
AnnounceFull == CondBroadcast(onFull)

FillBroadcast ==
  /\ Goto(pc, Filler, "announce", "done")
  /\ AnnounceFull
  /\ UNCHANGED <<owner, onClean, state, mismatch, spurious, freed>>

fill == \/ Enter(Filler, "lock", "check") \/ FillWait \/ FillWake \/ FillGo
        \/ Enter(Filler, "lockSet", "set") \/ Raise(Filler, "full")
        \/ Leave(Filler, "leaveSet", "announce") \/ FillBroadcast
-----------------------------------------------------------------------------
\* open_pool waits for CLEAN and FULL.
MayOpen == {"clean", "full"} \subseteq state

OpenWait ==
  /\ ~MayOpen
  /\ Goto(pc, Opener, "check", "wait")
  /\ CondWait(owner, onFull, Opener)
  /\ UNCHANGED <<onClean, state, mismatch, spurious, freed>>

OpenWake ==
  /\ Goto(pc, Opener, "wait", "check")
  /\ CondWake(owner, onFull, Opener)
  /\ UNCHANGED <<onClean, onFull, state, mismatch, spurious, freed>>

OpenUp ==
  /\ MayOpen
  /\ Goto(pc, Opener, "check", "leaveSet")
  /\ state' = Raised("open")
  /\ mismatch' = (state' # ReadyMask)
  /\ UNCHANGED <<owner, onClean, onFull, spurious, freed>>

open_pool == \/ Enter(Opener, "lock", "check") \/ OpenWait \/ OpenWake \/ OpenUp
             \/ Leave(Opener, "leaveSet", "done")
-----------------------------------------------------------------------------
SpuriousWake ==
  /\ spurious < MaxSpurious
  /\ spurious' = spurious + 1
  /\ \/ Filler \in onClean /\ onClean' = {} /\ UNCHANGED onFull
     \/ Opener \in onFull /\ onFull' = {} /\ UNCHANGED onClean
  /\ UNCHANGED <<owner, state, pc, mismatch, freed>>

\* main: the joins, then free.
Free ==
  /\ ~freed
  /\ \A t \in Threads : pc[t] = "done"
  /\ freed' = TRUE
  /\ UNCHANGED <<owner, onClean, onFull, state, pc, mismatch, spurious>>

Terminated == freed /\ UNCHANGED vars

Next == clean \/ fill \/ open_pool \/ SpuriousWake \/ Free \/ Terminated

Spec == Init /\ [][Next]_vars

\* Whoever can run eventually runs; spurious wakeups are never owed.
FairSpec == /\ Spec
            /\ WF_vars(clean) /\ WF_vars(fill) /\ WF_vars(open_pool) /\ WF_vars(Free)
-----------------------------------------------------------------------------
(* The state byte of clean, fill and open_pool has no bit outside
   READY_MASK, and each condition has one possible sleeper.                 *)
TypeOK ==
  /\ owner \in Threads \cup {None}
  /\ onClean \subseteq {Filler} /\ onFull \subseteq {Opener}
  /\ state \subseteq ReadyMask
  /\ pc \in [Threads -> {"lock", "check", "wait", "lockSet", "set", "leaveSet",
                         "announce", "done"}]
  /\ mismatch \in BOOLEAN /\ freed \in BOOLEAN /\ spurious \in 0..MaxSpurious

(* The stages happen in order: no filling before the cleaning, no opening
   before both, and open_pool never finds a state other than READY_MASK.    *)
StagesInOrder ==
  /\ "full" \in state => "clean" \in state
  /\ "open" \in state => state = ReadyMask
  /\ ~mismatch

(* A sleeper whose bits are up is owed the broadcast that wakes it, although
   both broadcasts come after the unlock.                                   *)
BroadcastOwed ==
  /\ Filler \in onClean /\ MayFill => pc[Cleaner] \in {"leaveSet", "announce"}
  /\ Opener \in onFull /\ MayOpen => pc[Filler] \in {"leaveSet", "announce"}

(* The pool is never cleaned, filled or opened out of order, nor while it is
   in the wrong state, and a state somebody waits for has been announced or
   is about to be: pthread/contional_var.c's broadcasts after the unlock.   *)
PoolStages == TypeOK /\ StagesInOrder /\ BroadcastOwed

(* main gets past its joins.                                                *)
Termination == <>freed
=============================================================================
