---------------------------- MODULE PacketArena ----------------------------
(***************************************************************************)
(* system-design-bootcamp/arena-alloc.c: sixteen threads store a packet    *)
(* each in an arena, the one that fills it signals a reporter, which waits *)
(* for the count and then reads the packets without the mutex.             *)
(***************************************************************************)
EXTENDS Pthreads, FiniteSets

CONSTANTS Adders,      \* threads, named like the packets they carry
          Reporter,
          BLOCK_SIZE,  \* bytes of a packet, and also how many packets fit
          BLOCK,       \* bytes of the arena: BLOCK_SIZE * BLOCK_SIZE
          MaxSpurious  \* bound on spurious wakeups

\* main starts as many threads as there is room for packets.
PacketAssumption ==
  /\ IsFiniteSet(Adders) /\ BLOCK_SIZE \in Nat \ {0} /\ Cardinality(Adders) = BLOCK_SIZE
  /\ BLOCK = BLOCK_SIZE * BLOCK_SIZE
  /\ Reporter \notin Adders \cup {None} /\ None \notin Adders
  /\ MaxSpurious \in Nat

VARIABLES
  lock, onFull,   \* holder of the mutex, threads blocked on cond
  buffer, offset, \* the arena; offset counts packets
  pc, spurious,
  reported        \* history: the packets report read, slot by slot

vars == <<lock, onFull, buffer, offset, pc, spurious, reported>>

Threads == Adders \cup {Reporter}
Slots == 0 .. BLOCK_SIZE - 1

Init ==
  /\ lock = None /\ onFull = {}
  /\ buffer = [k \in Slots |-> None] /\ offset = 0
  /\ pc = [t \in Threads |-> "lock"] /\ spurious = 0
  /\ reported = [k \in Slots |-> None]

Enter(t) ==
  /\ Goto(pc, t, "lock", "check")
  /\ Lock(lock, t)
  /\ UNCHANGED <<onFull, buffer, offset, spurious, reported>>
-----------------------------------------------------------------------------
(* add_packet *)

\* This packet is the last that fits; the variant is off by one.
LastBeyond == offset * BLOCK_SIZE + BLOCK_SIZE > BLOCK
Last == offset * BLOCK_SIZE + BLOCK_SIZE >= BLOCK

\* The signal precedes the packet and the count it announces.
Announce(t) ==
  /\ Goto(pc, t, "check", "store")
  /\ IF Last THEN CondSignal(onFull) ELSE UNCHANGED onFull
  /\ UNCHANGED <<lock, buffer, offset, spurious, reported>>

Store(t) ==
  /\ Goto(pc, t, "store", "unlock")
  /\ buffer' = [buffer EXCEPT ![offset] = t]
  /\ offset' = offset + 1
  /\ UNCHANGED <<lock, onFull, spurious, reported>>

\* The offset that is printed after the unlock changes nothing.
Leave(t) ==
  /\ Goto(pc, t, "unlock", "done")
  /\ Unlock(lock, t)
  /\ UNCHANGED <<onFull, buffer, offset, spurious, reported>>

add_packet(t) == Enter(t) \/ Announce(t) \/ Store(t) \/ Leave(t)
-----------------------------------------------------------------------------
(* report *)

\* The count the reporter waits for; the variant starts with the last packet.
AlmostFull == offset >= BLOCK_SIZE - 1
Complete == offset = BLOCK_SIZE

Wait ==
  /\ ~Complete
  /\ Goto(pc, Reporter, "check", "wait")
  /\ CondWait(lock, onFull, Reporter)
  /\ UNCHANGED <<buffer, offset, spurious, reported>>

Wake ==
  /\ Goto(pc, Reporter, "wait", "check")
  /\ CondWake(lock, onFull, Reporter)
  /\ UNCHANGED <<onFull, buffer, offset, spurious, reported>>

SpuriousWake ==
  /\ Reporter \in onFull /\ onFull' = {}
  /\ spurious < MaxSpurious /\ spurious' = spurious + 1
  /\ UNCHANGED <<lock, buffer, offset, pc, reported>>

LeaveReport ==
  /\ Complete
  /\ Goto(pc, Reporter, "check", "show")
  /\ Unlock(lock, Reporter)
  /\ UNCHANGED <<onFull, buffer, offset, spurious, reported>>

\* The packets are printed after the unlock, one by one.
Show ==
  /\ Goto(pc, Reporter, "show", "done")
  /\ reported' = buffer
  /\ UNCHANGED <<lock, onFull, buffer, offset, spurious>>

report == Enter(Reporter) \/ Wait \/ Wake \/ LeaveReport \/ Show

\* main's joins, then destroy.
Joined == \A t \in Threads : pc[t] = "done"
Terminated == Joined /\ UNCHANGED vars

Next == report \/ SpuriousWake \/ Terminated \/ \E t \in Adders : add_packet(t)

Spec == Init /\ [][Next]_vars
-----------------------------------------------------------------------------
(* add_packet stays within the arena.                                       *)
TypeOK ==
  /\ lock \in Threads \cup {None} /\ onFull \subseteq {Reporter}
  /\ offset \in 0 .. BLOCK_SIZE
  /\ buffer \in [Slots -> Adders \cup {None}]
  /\ pc \in [Threads -> {"lock", "check", "store", "unlock", "wait", "show", "done"}]
  /\ spurious \in 0 .. MaxSpurious

(* The early signal is not lost: with the arena full and the mutex free, the
   reporter is not asleep.                                                  *)
SignalInTime == lock = None /\ Complete => Reporter \notin onFull

(* The reporter, reading without the mutex, has every thread's packet, each
   in a slot of its own.                                                    *)
ReportsAll ==
  pc[Reporter] = "done" => \A t \in Adders : \E k \in Slots : reported[k] = t

(* main joins all adders and the reporter.                                  *)
Termination == <>Joined
=============================================================================
