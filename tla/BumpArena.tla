----------------------------- MODULE BumpArena -----------------------------
(***************************************************************************)
(* The bump allocators of system-design-bootcamp/arena.c, which pads every *)
(* block to eight bytes, and of memory/arena.c, which does not.  A block   *)
(* is where it starts and how many bytes were asked for.                   *)
(***************************************************************************)
EXTENDS Integers

CONSTANTS
  capacity,  \* bytes of the buffer
  Pads,      \* whether blocks are padded to eight bytes
  Sizes      \* the sizes callers ask for

\* MAX_SIZE of the padding allocator is a multiple of eight.
ASSUME ArenaAssumption ==
  /\ capacity \in Nat /\ Pads \in BOOLEAN /\ Sizes \subseteq Nat
  /\ Pads => capacity % 8 = 0

VARIABLES
  phase,      \* running, exited (out of memory) or destroyed
  allocated,  \* the offset of the next block
  blocks      \* history: the blocks handed out since the last reset

vars == <<phase, allocated, blocks>>

Running == phase = "running"

Init == phase = "running" /\ allocated = 0 /\ blocks = {}

\* The test precedes the padding; the variant tests what is already taken.
FitsAnyway(size) == allocated <= capacity
Fits(size) == allocated + size <= capacity

\* Up to the next multiple of eight; the variant adds the remainder.
PaddedTwice(size) == IF Pads THEN size + (size % 8) ELSE size
Padded(size) == IF Pads /\ size % 8 # 0 THEN size + (8 - (size % 8)) ELSE size

Alloc(size) ==
  /\ Running /\ Fits(size)
  /\ allocated' = allocated + Padded(size)
  /\ blocks' = blocks \cup {[start |-> allocated, size |-> size]}
  /\ UNCHANGED phase

OutOfMemory(size) ==
  /\ Running /\ ~Fits(size)
  /\ phase' = "exited"
  /\ UNCHANGED <<allocated, blocks>>

\* set_string writes its block and nothing else.
alloc_obj(size) == Alloc(size) \/ OutOfMemory(size)

\* What was handed out before is no longer the caller's.
arena_reset ==
  /\ Running
  /\ allocated' = 0 /\ blocks' = {}
  /\ UNCHANGED phase

destroy_arena ==
  /\ Running
  /\ phase' = "destroyed" /\ blocks' = {}
  /\ UNCHANGED allocated

Terminated == ~Running /\ UNCHANGED vars

Next == \/ \E size \in Sizes : alloc_obj(size)
        \/ arena_reset \/ destroy_arena \/ Terminated

Spec == Init /\ [][Next]_vars
-----------------------------------------------------------------------------
\* alloc_obj keeps the offset within the buffer, although it pads after the
\* test.
TypeOK ==
  /\ phase \in {"running", "exited", "destroyed"}
  /\ allocated \in 0 .. capacity
  /\ blocks \subseteq [start : 0 .. capacity, size : Sizes]

\* The blocks lie below the offset, no two of them share a byte, and where
\* they are padded they are aligned.
BlocksApart ==
  /\ \A b \in blocks : /\ b.start + b.size <= allocated
                       /\ Pads => b.start % 8 = 0
  /\ \A b, c \in blocks :
       b = c \/ b.start + b.size <= c.start \/ c.start + c.size <= b.start

(* However callers of alloc_obj allocate and reset, their blocks lie inside
   the buffer, aligned where they are padded, and share no byte, although the
   room is tested before the size is padded.                                *)
ArenaSound == TypeOK /\ BlocksApart
=============================================================================
