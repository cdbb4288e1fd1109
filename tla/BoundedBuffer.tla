---------------------------- MODULE BoundedBuffer ----------------------------
(***************************************************************************)
(* multithreading/bounded_buffer.c: as many one-shot producers             *)
(* (encode_package) as one-shot consumers (decode_package) around a queue  *)
(* of QUEUE_SIZE packets with one mutex and two condition variables.  Both *)
(* sides signal after they have released the mutex.  Every producer        *)
(* encodes the same packet, 0x8B; the model keeps the producer's name in   *)
(* its place, so that a lost or repeated packet shows.                     *)
(***************************************************************************)
EXTENDS Pthreads, Integers, Sequences, FiniteSets,
        SequenceTheorems, FiniteSetTheorems, TLAPS

CONSTANTS Producers, Consumers,  \* PACKAGE_X_SEC of each
          QueueSize,             \* QUEUE_SIZE
          MaxSpurious            \* bound on spurious wakeups of pthread_cond_wait

BufferAssumption ==
  /\ IsFiniteSet(Producers) /\ IsFiniteSet(Consumers)
  /\ Producers \cap Consumers = {}
  /\ QueueSize \in 1..255 /\ MaxSpurious \in Nat
  /\ None \notin Producers \cup Consumers

VARIABLES
  owner,               \* holder of lock
  fullSleepers,        \* threads blocked on not_full
  emptySleepers,       \* threads blocked on not_empty
  packets, head, tail, count,  \* the fields of Queue
  pc,                  \* where each thread is
  spurious,            \* spurious wakeups so far
  delivered            \* history: packets decoded, in order

queue == <<packets, head, tail, count>>
vars == <<owner, fullSleepers, emptySleepers, queue, pc, spurious, delivered>>

Threads == Producers \cup Consumers
Slots == 0..(QueueSize - 1)
PCs == {"lock", "check", "wait", "unlock", "signal", "done"}

\* The slot after i.
Advance(i) == (i + 1) % QueueSize

\* When a producer must wait; the variant lets one packet too many in.
FullLate == count > QueueSize
Full == count = QueueSize

\* A producer's announcement; the variant makes it only for the first packet.
AnnounceFirst == IF count = 1 THEN CondSignal(emptySleepers) ELSE UNCHANGED emptySleepers
Announce == CondSignal(emptySleepers)

\* A consumer's announcement; the variant forgets it.
FreeQuietly == UNCHANGED fullSleepers
FreeSlot == CondSignal(fullSleepers)

Init ==
  /\ owner = None /\ fullSleepers = {} /\ emptySleepers = {}
  /\ packets = [s \in Slots |-> None]
  /\ head = 0 /\ tail = 0 /\ count = 0
  /\ pc = [t \in Threads |-> "lock"]
  /\ spurious = 0 /\ delivered = <<>>

Enter(t) ==
  /\ Goto(pc, t, "lock", "check")
  /\ Lock(owner, t)
  /\ UNCHANGED <<fullSleepers, emptySleepers, queue, spurious, delivered>>

Leave(t) ==
  /\ Goto(pc, t, "unlock", "signal")
  /\ Unlock(owner, t)
  /\ UNCHANGED <<fullSleepers, emptySleepers, queue, spurious, delivered>>
-----------------------------------------------------------------------------
(* encode_package *)

WaitNotFull(p) ==
  /\ Full
  /\ Goto(pc, p, "check", "wait")
  /\ CondWait(owner, fullSleepers, p)
  /\ UNCHANGED <<emptySleepers, queue, spurious, delivered>>

WakeNotFull(p) ==
  /\ Goto(pc, p, "wait", "check")
  /\ CondWake(owner, fullSleepers, p)
  /\ UNCHANGED <<fullSleepers, emptySleepers, queue, spurious, delivered>>

\* tail moves first: slot 0 is used last.
Enqueue(p) ==
  /\ ~Full
  /\ Goto(pc, p, "check", "unlock")
  /\ tail' = Advance(tail)
  /\ packets' = [packets EXCEPT ![tail'] = p]
  /\ count' = count + 1
  /\ UNCHANGED <<owner, fullSleepers, emptySleepers, head, spurious, delivered>>

SignalNotEmpty(p) ==
  /\ Goto(pc, p, "signal", "done")
  /\ Announce
  /\ UNCHANGED <<owner, fullSleepers, queue, spurious, delivered>>

Producer(p) == \/ Enter(p) \/ WaitNotFull(p) \/ WakeNotFull(p) \/ Enqueue(p)
               \/ Leave(p) \/ SignalNotEmpty(p)
-----------------------------------------------------------------------------
(* decode_package *)

WaitNotEmpty(c) ==
  /\ count = 0
  /\ Goto(pc, c, "check", "wait")
  /\ CondWait(owner, emptySleepers, c)
  /\ UNCHANGED <<fullSleepers, queue, spurious, delivered>>

WakeNotEmpty(c) ==
  /\ Goto(pc, c, "wait", "check")
  /\ CondWake(owner, emptySleepers, c)
  /\ UNCHANGED <<fullSleepers, emptySleepers, queue, spurious, delivered>>

Dequeue(c) ==
  /\ count # 0
  /\ Goto(pc, c, "check", "unlock")
  /\ head' = Advance(head)
  /\ delivered' = Append(delivered, packets[head'])
  /\ count' = count - 1
  /\ UNCHANGED <<owner, fullSleepers, emptySleepers, packets, tail, spurious>>

SignalNotFull(c) ==
  /\ Goto(pc, c, "signal", "done")
  /\ FreeSlot
  /\ UNCHANGED <<owner, emptySleepers, queue, spurious, delivered>>

Consumer(c) == \/ Enter(c) \/ WaitNotEmpty(c) \/ WakeNotEmpty(c) \/ Dequeue(c)
               \/ Leave(c) \/ SignalNotFull(c)
-----------------------------------------------------------------------------
\* pthread_cond_wait returns although nobody has signalled.
SpuriousWake(t) ==
  /\ t \in fullSleepers \cup emptySleepers
  /\ spurious < MaxSpurious /\ spurious' = spurious + 1
  /\ fullSleepers' = fullSleepers \ {t} /\ emptySleepers' = emptySleepers \ {t}
  /\ UNCHANGED <<owner, queue, pc, delivered>>
-----------------------------------------------------------------------------
\* main joins everyone before clean() frees the queue.
Joined == \A t \in Threads : pc[t] = "done"
Terminated == Joined /\ UNCHANGED vars

Next ==
  \/ \E p \in Producers : Producer(p)
  \/ \E c \in Consumers : Consumer(c)
  \/ \E t \in Threads : SpuriousWake(t)
  \/ Terminated

Spec == Init /\ [][Next]_vars

\* The program is finite: it is enough that some thread that can run does.
FairSpec == Spec /\ WF_vars(Next)
-----------------------------------------------------------------------------
(* The queue of encode_package and decode_package keeps to its slots, and
   each condition has sleepers of one kind.                                 *)
TypeOK ==
  /\ owner \in Threads \cup {None}
  /\ fullSleepers \subseteq Producers /\ emptySleepers \subseteq Consumers
  /\ packets \in [Slots -> Producers \cup {None}]
  /\ head \in Slots /\ tail \in Slots /\ count \in 0..QueueSize
  /\ pc \in [Threads -> PCs]
  /\ spurious \in 0..MaxSpurious /\ delivered \in Seq(Producers)

\* Threads about to look at the queue without a further signal.
Awake(S, asleep) == {t \in S : pc[t] \in {"check", "wait"}} \ asleep

\* Signals owed: threads that changed count and have not signalled yet.
Owed(S) == {t \in S : pc[t] \in {"unlock", "signal"}}

\* While a consumer sleeps, every packet in the queue has an awake consumer or a
\* producer that still owes its signal, and dually for producers and slots.
PacketsClaimed ==
  emptySleepers # {} =>
    count <= Cardinality(Awake(Consumers, emptySleepers)) + Cardinality(Owed(Producers))
SlotsClaimed ==
  fullSleepers # {} =>
    QueueSize - count <= Cardinality(Awake(Producers, fullSleepers))
                         + Cardinality(Owed(Consumers))

(* No wakeup is lost: nobody sleeps on the packet queue while there is
   something to do and no signal is under way, although both sides of
   bounded_buffer.c signal after the unlock.                                *)
SleepersAreOwed == TypeOK /\ PacketsClaimed /\ SlotsClaimed

\* The slot that is n steps after head.
SlotAt(n) == IF head + n < QueueSize THEN head + n ELSE head + n - QueueSize
Pending == [n \in 1..count |-> packets[SlotAt(n)]]

Channel == INSTANCE BoundedChannel
             WITH Values <- Producers, Capacity <- QueueSize,
                  pending <- Pending

(* encode_package and decode_package implement a bounded FIFO channel.      *)
ImplementsChannel == Channel!Spec

(* main's joins return: nobody is left asleep, whoever ran first.           *)
Termination == <>Joined
-----------------------------------------------------------------------------
(* Proofs, for any finite sets of producers and consumers and any queue of
   1..255 packets.                                                          *)

\* The mutex is held around each look at the queue.
HoldsLock == \A t \in Threads : pc[t] \in {"check", "unlock"} <=> owner = t

\* Who sleeps waits.
SleepersWait ==
  /\ \A t \in fullSleepers : pc[t] = "wait"
  /\ \A t \in emptySleepers : pc[t] = "wait"

\* tail is where the packets end, and each slot after head holds a packet.
RingHolds ==
  /\ tail = SlotAt(count)
  /\ \A n \in 1..count : packets[SlotAt(n)] \in Producers

IndInv == TypeOK /\ HoldsLock /\ SleepersWait /\ RingHolds
          /\ PacketsClaimed /\ SlotsClaimed

(* main starts with an empty queue and nobody asleep.                       *)
LEMMA InitInd == BufferAssumption /\ Init => IndInv
  <1> SUFFICES ASSUME BufferAssumption, Init PROVE IndInv
    OBVIOUS
  <1> USE DEF Init, Threads
  <1>1. TypeOK
    <2>1. head \in Slots /\ tail \in Slots /\ count \in 0..QueueSize
      BY DEF Slots, BufferAssumption
    <2>2. delivered \in Seq(Producers)
      OBVIOUS
    <2>3. packets \in [Slots -> Producers \cup {None}] /\ pc \in [Threads -> PCs]
      BY DEF PCs
    <2> QED BY <2>1, <2>2, <2>3 DEF TypeOK
  <1>2. HoldsLock
    BY DEF HoldsLock, BufferAssumption
  <1>3. SleepersWait /\ PacketsClaimed /\ SlotsClaimed
    BY DEF SleepersWait, PacketsClaimed, SlotsClaimed
  <1>4. RingHolds
    BY DEF RingHolds, SlotAt, BufferAssumption
  <1> QED BY <1>1, <1>2, <1>3, <1>4 DEF IndInv

(* Adding one modulo QueueSize moves to the next slot, or wraps to 0.       *)
LEMMA AdvanceWraps ==
  ASSUME BufferAssumption, NEW s \in Slots
  PROVE  Advance(s) = IF s + 1 = QueueSize THEN 0 ELSE s + 1
  BY SMT DEF Advance, Slots, BufferAssumption

(* What encode_package does to the ring: one more packet at its end.        *)
LEMMA EnqueueRing ==
  ASSUME BufferAssumption, IndInv, NEW p \in Producers, Enqueue(p)
  PROVE  /\ count \in 0..(QueueSize - 1) /\ count' = count + 1
         /\ tail' = SlotAt(count + 1) /\ tail' \in Slots /\ head' = head
         /\ packets' = [packets EXCEPT ![tail'] = p]
         /\ \A n \in 1..count : SlotAt(n) \in Slots \ {tail'}
         /\ delivered' = delivered
  <1>1. /\ head \in Slots /\ tail \in Slots /\ count \in 0..(QueueSize - 1)
        /\ tail = SlotAt(count)
    BY DEF IndInv, TypeOK, RingHolds, Enqueue, Full, BufferAssumption
  <1>2. /\ tail' = Advance(tail) /\ count' = count + 1 /\ head' = head
        /\ packets' = [packets EXCEPT ![tail'] = p] /\ delivered' = delivered
    BY DEF Enqueue
  <1>3. tail' = IF tail + 1 = QueueSize THEN 0 ELSE tail + 1
    BY <1>1, <1>2, AdvanceWraps
  <1>4. tail' = SlotAt(count + 1) /\ tail' \in Slots
    BY <1>1, <1>3 DEF SlotAt, Slots, BufferAssumption
  <1>5. \A n \in 1..count : SlotAt(n) \in Slots /\ SlotAt(n) # SlotAt(count + 1)
    BY <1>1 DEF SlotAt, Slots, BufferAssumption
  <1> QED BY <1>1, <1>2, <1>4, <1>5

(* What decode_package does to it: the oldest packet is handed out.         *)
LEMMA DequeueRing ==
  ASSUME BufferAssumption, IndInv, NEW c \in Consumers, Dequeue(c)
  PROVE  /\ count \in 1..QueueSize /\ count' = count - 1
         /\ head' = SlotAt(1) /\ head' \in Slots
         /\ packets' = packets /\ tail' = tail /\ tail' = SlotAt(count)'
         /\ delivered' = Append(delivered, packets[SlotAt(1)])
         /\ packets[SlotAt(1)] \in Producers
         /\ \A n \in 0..(count - 1) : SlotAt(n)' = SlotAt(n + 1)
  <1>1. /\ head \in Slots /\ count \in 1..QueueSize
        /\ \A n \in 1..count : packets[SlotAt(n)] \in Producers
    BY DEF IndInv, TypeOK, RingHolds, Dequeue, BufferAssumption
  <1>2. /\ head' = Advance(head) /\ count' = count - 1
        /\ packets' = packets /\ tail' = tail
        /\ delivered' = Append(delivered, packets[head'])
    BY DEF Dequeue
  <1>3. head' = IF head + 1 = QueueSize THEN 0 ELSE head + 1
    BY <1>1, <1>2, AdvanceWraps
  <1>4. head' = SlotAt(1) /\ head' \in Slots
    BY <1>1, <1>3 DEF SlotAt, Slots, BufferAssumption
  <1>5. \A n \in 0..(count - 1) : SlotAt(n)' = SlotAt(n + 1)
    BY <1>1, <1>3 DEF SlotAt, Slots, BufferAssumption
  <1>6. packets[SlotAt(1)] \in Producers
    BY <1>1
  <1>7. tail' = SlotAt(count)'
    <2>1. tail = SlotAt(count)
      BY DEF IndInv, RingHolds
    <2> QED BY <1>1, <1>2, <1>3, <2>1 DEF SlotAt, Slots, BufferAssumption
  <1> QED BY <1>1, <1>2, <1>4, <1>5, <1>6, <1>7

\* The steps that leave the queue alone.
Elsewhere(t) ==
  \/ Enter(t) \/ Leave(t)
  \/ WaitNotFull(t) \/ WakeNotFull(t) \/ SignalNotEmpty(t)
  \/ WaitNotEmpty(t) \/ WakeNotEmpty(t) \/ SignalNotFull(t)
  \/ SpuriousWake(t)

(* The ring keeps its shape.                                                *)
LEMMA RingStep == BufferAssumption /\ IndInv /\ [Next]_vars => RingHolds'
  <1> SUFFICES ASSUME BufferAssumption, IndInv, [Next]_vars PROVE RingHolds'
    OBVIOUS
  <1>1. ASSUME NEW p \in Producers, Enqueue(p)
        PROVE  RingHolds'
    <2>1. /\ count \in 0..(QueueSize - 1) /\ count' = count + 1
          /\ tail' = SlotAt(count + 1) /\ tail' \in Slots /\ head' = head
          /\ packets' = [packets EXCEPT ![tail'] = p]
          /\ \A n \in 1..count : SlotAt(n) \in Slots \ {tail'}
      BY <1>1, EnqueueRing
    <2>2. packets \in [Slots -> Producers \cup {None}]
      BY DEF IndInv, TypeOK
    <2>3. \A n : SlotAt(n)' = SlotAt(n)
      BY <2>1 DEF SlotAt
    <2>4. \A n \in 1..(count + 1) : packets'[SlotAt(n)] \in Producers
      <3> TAKE n \in 1..(count + 1)
      <3>1. CASE n \in 1..count
        BY <2>1, <2>2, <3>1 DEF IndInv, RingHolds
      <3>2. CASE n = count + 1
        BY <2>1, <2>2, <3>2
      <3> QED BY <2>1, <3>1, <3>2
    <2>5. tail' = SlotAt(count)'
      BY <2>1 DEF SlotAt
    <2> QED BY <2>1, <2>3, <2>4, <2>5 DEF RingHolds
  <1>2. ASSUME NEW c \in Consumers, Dequeue(c)
        PROVE  RingHolds'
    <2>1. /\ count \in 1..QueueSize /\ count' = count - 1
          /\ packets' = packets /\ tail' = tail
          /\ \A n \in 0..(count - 1) : SlotAt(n)' = SlotAt(n + 1)
      BY <1>2, DequeueRing
    <2>2. \A n \in 1..(count - 1) : packets'[SlotAt(n)'] \in Producers
      BY <2>1 DEF IndInv, RingHolds
    <2>3. tail' = SlotAt(count)'
      BY <1>2, DequeueRing
    <2> QED BY <2>1, <2>2, <2>3 DEF RingHolds
  <1>3. ASSUME UNCHANGED queue
        PROVE  RingHolds'
    BY <1>3 DEF queue, RingHolds, SlotAt, IndInv
  <1>4. ASSUME NEW t \in Threads, Elsewhere(t)
        PROVE  UNCHANGED queue
    BY <1>4 DEF Elsewhere, Enter, Leave, WaitNotFull, WakeNotFull, SignalNotEmpty,
                WaitNotEmpty, WakeNotEmpty, SignalNotFull, SpuriousWake
  <1>5. UNCHANGED vars => UNCHANGED queue
    BY DEF vars
  <1> QED BY <1>1, <1>2, <1>3, <1>4, <1>5
          DEF Next, Terminated, Producer, Consumer, Elsewhere, Threads

(* Taking a free lock.                                                      *)
LEMMA LockTaken ==
  ASSUME BufferAssumption, TypeOK, HoldsLock, NEW t \in Threads,
         owner = None, owner' = t, pc' = [pc EXCEPT ![t] = "check"]
  PROVE  HoldsLock'
  <1>1. \A u \in Threads : pc[u] \notin {"check", "unlock"}
    BY DEF HoldsLock, BufferAssumption, Threads
  <1>2. pc'[t] = "check" /\ \A u \in Threads \ {t} : pc'[u] = pc[u]
    BY DEF TypeOK
  <1> QED BY <1>1, <1>2 DEF HoldsLock

(* Releasing it.                                                            *)
LEMMA LockGiven ==
  ASSUME BufferAssumption, TypeOK, HoldsLock, NEW t \in Threads,
         owner = t, owner' = None,
         NEW x \in {"wait", "signal"}, pc' = [pc EXCEPT ![t] = x]
  PROVE  HoldsLock'
  <1>1. \A u \in Threads \ {t} : pc[u] \notin {"check", "unlock"}
    BY DEF HoldsLock
  <1>2. pc'[t] = x /\ \A u \in Threads \ {t} : pc'[u] = pc[u]
    BY DEF TypeOK
  <1> QED BY <1>1, <1>2 DEF HoldsLock, BufferAssumption, Threads

(* Types, the lock and the sleepers: one step of a thread.                  *)
LEMMA ThreadStep ==
  ASSUME BufferAssumption, IndInv, NEW t \in Threads,
         \/ t \in Producers /\ Producer(t)
         \/ t \in Consumers /\ Consumer(t)
  PROVE  TypeOK' /\ HoldsLock' /\ SleepersWait'
  <1> USE DEF IndInv, TypeOK, HoldsLock, SleepersWait, Goto, Lock, Unlock
  <1>1. t # None /\ ~(t \in Producers /\ t \in Consumers)
    BY DEF BufferAssumption, Threads
  <1>2. pc[t] \in PCs /\ \A x \in PCs : [pc EXCEPT ![t] = x] \in [Threads -> PCs]
    OBVIOUS
  <1> USE DEF PCs
  <1>3. CASE Enter(t)
    <2>1. TypeOK'
      BY <1>1, <1>2, <1>3 DEF Enter, queue
    <2>2. HoldsLock'
      BY <1>3, LockTaken DEF Enter
    <2>3. SleepersWait'
      BY <1>1, <1>2, <1>3 DEF Enter, queue
    <2> QED BY <2>1, <2>2, <2>3
  <1>4. CASE Leave(t)
    <2>1. TypeOK'
      BY <1>1, <1>2, <1>4 DEF Leave, queue
    <2>2. HoldsLock'
      BY <1>4, LockGiven DEF Leave
    <2>3. SleepersWait'
      BY <1>1, <1>2, <1>4 DEF Leave, queue
    <2> QED BY <2>1, <2>2, <2>3
  <1>5. CASE t \in Producers /\ WaitNotFull(t)
    <2>1. TypeOK'
      BY <1>1, <1>2, <1>5 DEF WaitNotFull, CondWait, queue
    <2>2. HoldsLock'
      BY <1>5, LockGiven DEF WaitNotFull, CondWait
    <2>3. SleepersWait'
      BY <1>1, <1>2, <1>5 DEF WaitNotFull, CondWait, queue
    <2> QED BY <2>1, <2>2, <2>3
  <1>6. CASE t \in Producers /\ WakeNotFull(t)
    <2>1. TypeOK'
      BY <1>1, <1>2, <1>6 DEF WakeNotFull, CondWake, queue
    <2>2. HoldsLock'
      BY <1>6, LockTaken DEF WakeNotFull, CondWake
    <2>3. SleepersWait'
      BY <1>1, <1>2, <1>6 DEF WakeNotFull, CondWake, queue
    <2> QED BY <2>1, <2>2, <2>3
  <1>7. CASE t \in Producers /\ Enqueue(t)
    <2>1. packets' \in [Slots -> Producers \cup {None}] /\ tail' \in Slots
          /\ head' = head /\ count' \in 0..QueueSize /\ delivered' = delivered
      <3>1. count \in 0..(QueueSize - 1) /\ count' = count + 1 /\ QueueSize \in 1..255
        BY <1>7, EnqueueRing DEF BufferAssumption
      <3>2. count' \in 0..QueueSize
        BY <3>1
      <3>3. /\ tail' \in Slots /\ head' = head /\ delivered' = delivered
            /\ packets' = [packets EXCEPT ![tail'] = t]
        BY <1>7, EnqueueRing
      <3> QED BY <1>7, <3>2, <3>3
    <2>2. UNCHANGED <<owner, fullSleepers, emptySleepers, spurious>> /\ Goto(pc, t, "check", "unlock")
      BY <1>7 DEF Enqueue
    <2> QED BY <1>1, <1>2, <2>1, <2>2
  <1>8. CASE t \in Producers /\ SignalNotEmpty(t)
    BY <1>1, <1>2, <1>8 DEF SignalNotEmpty, Announce, CondSignal, queue
  <1>9. CASE t \in Consumers /\ WaitNotEmpty(t)
    <2>1. TypeOK'
      BY <1>1, <1>2, <1>9 DEF WaitNotEmpty, CondWait, queue
    <2>2. HoldsLock'
      BY <1>9, LockGiven DEF WaitNotEmpty, CondWait
    <2>3. SleepersWait'
      BY <1>1, <1>2, <1>9 DEF WaitNotEmpty, CondWait, queue
    <2> QED BY <2>1, <2>2, <2>3
  <1>10. CASE t \in Consumers /\ WakeNotEmpty(t)
    <2>1. TypeOK'
      BY <1>1, <1>2, <1>10 DEF WakeNotEmpty, CondWake, queue
    <2>2. HoldsLock'
      BY <1>10, LockTaken DEF WakeNotEmpty, CondWake
    <2>3. SleepersWait'
      BY <1>1, <1>2, <1>10 DEF WakeNotEmpty, CondWake, queue
    <2> QED BY <2>1, <2>2, <2>3
  <1>11. CASE t \in Consumers /\ Dequeue(t)
    <2>1. /\ packets' = packets /\ tail' = tail /\ head' \in Slots
          /\ count' \in 0..QueueSize /\ delivered' \in Seq(Producers)
      <3>1. count \in 1..QueueSize /\ count' = count - 1 /\ QueueSize \in 1..255
        BY <1>11, DequeueRing DEF BufferAssumption
      <3>2. count' \in 0..QueueSize
        BY <3>1
      <3>3. /\ packets' = packets /\ tail' = tail /\ head' \in Slots
            /\ delivered' = Append(delivered, packets[SlotAt(1)])
            /\ packets[SlotAt(1)] \in Producers
        BY <1>11, DequeueRing
      <3>4. delivered' \in Seq(Producers)
        BY <3>3
      <3> QED BY <3>2, <3>3, <3>4
    <2>2. UNCHANGED <<owner, fullSleepers, emptySleepers, spurious>> /\ Goto(pc, t, "check", "unlock")
      BY <1>11 DEF Dequeue
    <2> QED BY <1>1, <1>2, <2>1, <2>2
  <1>12. CASE t \in Consumers /\ SignalNotFull(t)
    BY <1>1, <1>2, <1>12 DEF SignalNotFull, FreeSlot, CondSignal, queue
  <1> QED BY <1>3, <1>4, <1>5, <1>6, <1>7, <1>8, <1>9, <1>10, <1>11, <1>12
          DEF Producer, Consumer

(* A thread that wakes for no reason is one that waits.                     *)
LEMMA SpuriousStep ==
  ASSUME BufferAssumption, IndInv, NEW t \in Threads, SpuriousWake(t)
  PROVE  TypeOK' /\ HoldsLock' /\ SleepersWait'
  <1>1. /\ UNCHANGED <<owner, queue, pc, delivered>>
        /\ fullSleepers' = fullSleepers \ {t} /\ emptySleepers' = emptySleepers \ {t}
        /\ spurious < MaxSpurious /\ spurious' = spurious + 1
    BY DEF SpuriousWake
  <1>2. spurious' \in 0..MaxSpurious
    BY <1>1 DEF IndInv, TypeOK, BufferAssumption
  <1>3. TypeOK'
    BY <1>1, <1>2 DEF IndInv, TypeOK, queue
  <1> QED BY <1>1, <1>3 DEF IndInv, HoldsLock, SleepersWait

(* The awake and those who owe a signal are finitely many.                  *)
LEMMA SidesFinite ==
  ASSUME BufferAssumption
  PROVE  /\ \A asleep : /\ IsFiniteSet(Awake(Consumers, asleep))
                        /\ Cardinality(Awake(Consumers, asleep)) \in Nat
                        /\ IsFiniteSet(Awake(Producers, asleep))
                        /\ Cardinality(Awake(Producers, asleep)) \in Nat
         /\ IsFiniteSet(Owed(Consumers)) /\ Cardinality(Owed(Consumers)) \in Nat
         /\ IsFiniteSet(Owed(Producers)) /\ Cardinality(Owed(Producers)) \in Nat
  <1>1. /\ \A asleep : /\ IsFiniteSet(Awake(Consumers, asleep))
                       /\ IsFiniteSet(Awake(Producers, asleep))
        /\ IsFiniteSet(Owed(Consumers)) /\ IsFiniteSet(Owed(Producers))
    BY FS_Subset DEF Awake, Owed, BufferAssumption
  <1> QED BY <1>1, FS_CardinalityType

(* Every packet stays claimed while a consumer sleeps.                      *)
LEMMA PacketsStep == BufferAssumption /\ IndInv /\ [Next]_vars => PacketsClaimed'
  <1> SUFFICES ASSUME BufferAssumption, IndInv, [Next]_vars PROVE PacketsClaimed'
    OBVIOUS
  <1> DEFINE awake == Awake(Consumers, emptySleepers)
             owed == Owed(Producers)
  <1>1. /\ IsFiniteSet(awake) /\ Cardinality(awake) \in Nat
        /\ IsFiniteSet(owed) /\ Cardinality(owed) \in Nat
    BY SidesFinite
  <1>2. /\ pc \in [Threads -> PCs] /\ count \in 0..QueueSize /\ QueueSize \in 1..255
        /\ emptySleepers \subseteq Consumers
        /\ \A t \in emptySleepers : pc[t] = "wait"
        /\ Producers \cap Consumers = {}
        /\ emptySleepers # {} => count <= Cardinality(awake) + Cardinality(owed)
    BY DEF IndInv, TypeOK, SleepersWait, PacketsClaimed, BufferAssumption
  <1>3. ASSUME emptySleepers' = emptySleepers, awake' = awake, owed' = owed, count' = count
        PROVE  PacketsClaimed'
    BY <1>2, <1>3 DEF PacketsClaimed
  <1>4. ASSUME NEW p \in Producers, Producer(p), ~Enqueue(p), ~SignalNotEmpty(p)
        PROVE  PacketsClaimed'
    <2>1. /\ emptySleepers' = emptySleepers /\ count' = count
          /\ \/ pc[p] \in {"lock", "check", "wait"} /\ pc' = [pc EXCEPT ![p] = "check"]
             \/ pc[p] = "check" /\ pc' = [pc EXCEPT ![p] = "wait"]
             \/ pc[p] = "unlock" /\ pc' = [pc EXCEPT ![p] = "signal"]
      BY <1>4 DEF Producer, Enter, Leave, WaitNotFull, WakeNotFull, Goto, queue
    <2>2. awake' = awake /\ owed' = owed
      BY <1>2, <2>1 DEF Awake, Owed, Threads
    <2> QED BY <1>3, <2>1, <2>2
  <1>5. ASSUME NEW p \in Producers, Enqueue(p)
        PROVE  PacketsClaimed'
    <2>1. /\ emptySleepers' = emptySleepers /\ count' = count + 1
          /\ pc[p] = "check" /\ pc' = [pc EXCEPT ![p] = "unlock"]
      BY <1>5 DEF Enqueue, Goto
    <2>2. awake' = awake /\ owed' = owed \cup {p} /\ p \notin owed
      BY <1>2, <2>1 DEF Awake, Owed, Threads
    <2>3. Cardinality(owed') = Cardinality(owed) + 1
      BY <1>1, <2>2, FS_AddElement
    <2> HIDE DEF awake, owed
    <2>4. emptySleepers' # {} => count' <= Cardinality(awake') + Cardinality(owed')
      BY <1>1, <1>2, <2>1, <2>2, <2>3
    <2> QED BY <2>4 DEF PacketsClaimed, awake, owed
  <1>6. ASSUME NEW p \in Producers, SignalNotEmpty(p)
        PROVE  PacketsClaimed'
    <2>1. /\ count' = count /\ pc[p] = "signal" /\ pc' = [pc EXCEPT ![p] = "done"]
          /\ \/ emptySleepers' = {}
             \/ \E t \in emptySleepers : emptySleepers' = emptySleepers \ {t}
      BY <1>6 DEF SignalNotEmpty, Announce, CondSignal, Goto, queue
    <2>2. CASE emptySleepers' = {}
      BY <2>2 DEF PacketsClaimed
    <2>3. ASSUME NEW t \in emptySleepers, emptySleepers' = emptySleepers \ {t}
          PROVE  PacketsClaimed'
      <3>1. awake' = awake \cup {t} /\ t \notin awake
        BY <1>2, <2>1, <2>3 DEF Awake, Threads
      <3>2. owed' = owed \ {p} /\ p \in owed
        BY <1>2, <2>1 DEF Owed, Threads
      <3>3. Cardinality(awake') = Cardinality(awake) + 1
        BY <1>1, <3>1, FS_AddElement
      <3>4. Cardinality(owed') = Cardinality(owed) - 1
        BY <1>1, <3>2, FS_RemoveElement
      <3> HIDE DEF awake, owed
      <3>5. count' <= Cardinality(awake') + Cardinality(owed')
        BY <1>1, <1>2, <2>1, <3>3, <3>4
      <3> QED BY <3>5 DEF PacketsClaimed, awake, owed
    <2> QED BY <2>1, <2>2, <2>3
  <1>7. ASSUME NEW c \in Consumers, Enter(c)
        PROVE  PacketsClaimed'
    <2>1. /\ emptySleepers' = emptySleepers /\ count' = count
          /\ pc[c] = "lock" /\ pc' = [pc EXCEPT ![c] = "check"]
      BY <1>7 DEF Enter, Goto, queue
    <2>2. awake' = awake \cup {c} /\ c \notin awake /\ owed' = owed
      BY <1>2, <2>1 DEF Awake, Owed, Threads
    <2>3. Cardinality(awake') = Cardinality(awake) + 1
      BY <1>1, <2>2, FS_AddElement
    <2> HIDE DEF awake, owed
    <2>4. emptySleepers' # {} => count' <= Cardinality(awake') + Cardinality(owed')
      BY <1>1, <1>2, <2>1, <2>2, <2>3
    <2> QED BY <2>4 DEF PacketsClaimed, awake, owed
  <1>8. ASSUME NEW c \in Consumers, WaitNotEmpty(c)
        PROVE  PacketsClaimed'
    <2>1. count' = 0
      BY <1>8 DEF WaitNotEmpty, queue
    <2>2. Cardinality(awake') \in Nat /\ Cardinality(owed') \in Nat
      BY FS_Subset, FS_CardinalityType DEF Awake, Owed, BufferAssumption
    <2> HIDE DEF awake, owed
    <2>3. count' <= Cardinality(awake') + Cardinality(owed')
      BY <2>1, <2>2
    <2> QED BY <2>3 DEF PacketsClaimed, awake, owed
  <1>9. ASSUME NEW c \in Consumers, Dequeue(c)
        PROVE  PacketsClaimed'
    <2>1. /\ emptySleepers' = emptySleepers /\ count' = count - 1
          /\ pc[c] = "check" /\ pc' = [pc EXCEPT ![c] = "unlock"]
      BY <1>9 DEF Dequeue, Goto
    <2>2. awake' = awake \ {c} /\ c \in awake /\ owed' = owed
      BY <1>2, <2>1 DEF Awake, Owed, Threads
    <2>3. Cardinality(awake') = Cardinality(awake) - 1
      BY <1>1, <2>2, FS_RemoveElement
    <2> HIDE DEF awake, owed
    <2>4. emptySleepers' # {} => count' <= Cardinality(awake') + Cardinality(owed')
      BY <1>1, <1>2, <2>1, <2>2, <2>3
    <2> QED BY <2>4 DEF PacketsClaimed, awake, owed
  <1>10. ASSUME NEW c \in Consumers,
                WakeNotEmpty(c) \/ Leave(c) \/ SignalNotFull(c)
         PROVE  PacketsClaimed'
    <2>1. /\ emptySleepers' = emptySleepers /\ count' = count
          /\ \/ /\ pc[c] = "wait" /\ pc' = [pc EXCEPT ![c] = "check"]
                /\ c \notin emptySleepers
             \/ pc[c] = "unlock" /\ pc' = [pc EXCEPT ![c] = "signal"]
             \/ pc[c] = "signal" /\ pc' = [pc EXCEPT ![c] = "done"]
      BY <1>10 DEF WakeNotEmpty, CondWake, Leave, SignalNotFull, Goto, queue
    <2>2. awake' = awake /\ owed' = owed
      BY <1>2, <2>1 DEF Awake, Owed, Threads
    <2> QED BY <1>3, <2>1, <2>2
  <1>11. ASSUME UNCHANGED vars
         PROVE  PacketsClaimed'
    BY <1>3, <1>11 DEF vars, queue, Awake, Owed
  <1>12. ASSUME NEW t \in Threads, SpuriousWake(t)
         PROVE  PacketsClaimed'
    <2>1. /\ count' = count /\ pc' = pc
          /\ emptySleepers' = emptySleepers \ {t}
      BY <1>12 DEF SpuriousWake, queue
    <2>2. owed' = owed
      BY <2>1 DEF Owed
    <2>3. CASE t \notin emptySleepers
      BY <1>3, <2>1, <2>2, <2>3 DEF Awake
    <2>4. CASE t \in emptySleepers
      <3>1. awake' = awake \cup {t} /\ t \notin awake
        BY <1>2, <2>1, <2>4 DEF Awake, Threads
      <3>2. Cardinality(awake') = Cardinality(awake) + 1
        BY <1>1, <3>1, FS_AddElement
      <3> HIDE DEF awake, owed
      <3>3. count' <= Cardinality(awake') + Cardinality(owed')
        BY <1>1, <1>2, <2>1, <2>2, <2>4, <3>2
      <3> QED BY <3>3 DEF PacketsClaimed, awake, owed
    <2> QED BY <2>3, <2>4
  <1> QED BY <1>4, <1>5, <1>6, <1>7, <1>8, <1>9, <1>10, <1>11, <1>12
          DEF Next, Terminated, Consumer

(* Every free slot stays claimed while a producer sleeps.                    *)
LEMMA SlotsStep == BufferAssumption /\ IndInv /\ [Next]_vars => SlotsClaimed'
  <1> SUFFICES ASSUME BufferAssumption, IndInv, [Next]_vars PROVE SlotsClaimed'
    OBVIOUS
  <1> DEFINE awake == Awake(Producers, fullSleepers)
             owed == Owed(Consumers)
  <1>1. /\ IsFiniteSet(awake) /\ Cardinality(awake) \in Nat
        /\ IsFiniteSet(owed) /\ Cardinality(owed) \in Nat
    BY SidesFinite
  <1>2. /\ pc \in [Threads -> PCs] /\ count \in 0..QueueSize /\ QueueSize \in 1..255
        /\ fullSleepers \subseteq Producers
        /\ \A t \in fullSleepers : pc[t] = "wait"
        /\ Producers \cap Consumers = {}
        /\ fullSleepers # {} => QueueSize - count <= Cardinality(awake) + Cardinality(owed)
    BY DEF IndInv, TypeOK, SleepersWait, SlotsClaimed, BufferAssumption
  <1>3. ASSUME fullSleepers' = fullSleepers, awake' = awake, owed' = owed, count' = count
        PROVE  SlotsClaimed'
    BY <1>2, <1>3 DEF SlotsClaimed
  <1>4. ASSUME NEW c \in Consumers, Consumer(c), ~Dequeue(c), ~SignalNotFull(c)
        PROVE  SlotsClaimed'
    <2>1. /\ fullSleepers' = fullSleepers /\ count' = count
          /\ \/ pc[c] \in {"lock", "check", "wait"} /\ pc' = [pc EXCEPT ![c] = "check"]
             \/ pc[c] = "check" /\ pc' = [pc EXCEPT ![c] = "wait"]
             \/ pc[c] = "unlock" /\ pc' = [pc EXCEPT ![c] = "signal"]
      BY <1>4 DEF Consumer, Enter, Leave, WaitNotEmpty, WakeNotEmpty, Goto, queue
    <2>2. awake' = awake /\ owed' = owed
      BY <1>2, <2>1 DEF Awake, Owed, Threads
    <2> QED BY <1>3, <2>1, <2>2
  <1>5. ASSUME NEW c \in Consumers, Dequeue(c)
        PROVE  SlotsClaimed'
    <2>1. /\ fullSleepers' = fullSleepers /\ count' = count - 1
          /\ pc[c] = "check" /\ pc' = [pc EXCEPT ![c] = "unlock"]
      BY <1>5 DEF Dequeue, Goto
    <2>2. awake' = awake /\ owed' = owed \cup {c} /\ c \notin owed
      BY <1>2, <2>1 DEF Awake, Owed, Threads
    <2>3. Cardinality(owed') = Cardinality(owed) + 1
      BY <1>1, <2>2, FS_AddElement
    <2> HIDE DEF awake, owed
    <2>4. fullSleepers' # {} => QueueSize - count' <= Cardinality(awake') + Cardinality(owed')
      BY <1>1, <1>2, <2>1, <2>2, <2>3
    <2> QED BY <2>4 DEF SlotsClaimed, awake, owed
  <1>6. ASSUME NEW c \in Consumers, SignalNotFull(c)
        PROVE  SlotsClaimed'
    <2>1. /\ count' = count /\ pc[c] = "signal" /\ pc' = [pc EXCEPT ![c] = "done"]
          /\ \/ fullSleepers' = {}
             \/ \E t \in fullSleepers : fullSleepers' = fullSleepers \ {t}
      BY <1>6 DEF SignalNotFull, FreeSlot, CondSignal, Goto, queue
    <2>2. CASE fullSleepers' = {}
      BY <2>2 DEF SlotsClaimed
    <2>3. ASSUME NEW t \in fullSleepers, fullSleepers' = fullSleepers \ {t}
          PROVE  SlotsClaimed'
      <3>1. awake' = awake \cup {t} /\ t \notin awake
        BY <1>2, <2>1, <2>3 DEF Awake, Threads
      <3>2. owed' = owed \ {c} /\ c \in owed
        BY <1>2, <2>1 DEF Owed, Threads
      <3>3. Cardinality(awake') = Cardinality(awake) + 1
        BY <1>1, <3>1, FS_AddElement
      <3>4. Cardinality(owed') = Cardinality(owed) - 1
        BY <1>1, <3>2, FS_RemoveElement
      <3> HIDE DEF awake, owed
      <3>5. QueueSize - count' <= Cardinality(awake') + Cardinality(owed')
        BY <1>1, <1>2, <2>1, <3>3, <3>4
      <3> QED BY <3>5 DEF SlotsClaimed, awake, owed
    <2> QED BY <2>1, <2>2, <2>3
  <1>7. ASSUME NEW p \in Producers, Enter(p)
        PROVE  SlotsClaimed'
    <2>1. /\ fullSleepers' = fullSleepers /\ count' = count
          /\ pc[p] = "lock" /\ pc' = [pc EXCEPT ![p] = "check"]
      BY <1>7 DEF Enter, Goto, queue
    <2>2. awake' = awake \cup {p} /\ p \notin awake /\ owed' = owed
      BY <1>2, <2>1 DEF Awake, Owed, Threads
    <2>3. Cardinality(awake') = Cardinality(awake) + 1
      BY <1>1, <2>2, FS_AddElement
    <2> HIDE DEF awake, owed
    <2>4. fullSleepers' # {} => QueueSize - count' <= Cardinality(awake') + Cardinality(owed')
      BY <1>1, <1>2, <2>1, <2>2, <2>3
    <2> QED BY <2>4 DEF SlotsClaimed, awake, owed
  <1>8. ASSUME NEW p \in Producers, WaitNotFull(p)
        PROVE  SlotsClaimed'
    <2>1. QueueSize - count' = 0
      BY <1>2, <1>8 DEF WaitNotFull, Full, queue
    <2>2. Cardinality(awake') \in Nat /\ Cardinality(owed') \in Nat
      BY FS_Subset, FS_CardinalityType DEF Awake, Owed, BufferAssumption
    <2> HIDE DEF awake, owed
    <2>3. QueueSize - count' <= Cardinality(awake') + Cardinality(owed')
      BY <2>1, <2>2
    <2> QED BY <2>3 DEF SlotsClaimed, awake, owed
  <1>9. ASSUME NEW p \in Producers, Enqueue(p)
        PROVE  SlotsClaimed'
    <2>1. /\ fullSleepers' = fullSleepers /\ count' = count + 1
          /\ pc[p] = "check" /\ pc' = [pc EXCEPT ![p] = "unlock"]
      BY <1>9 DEF Enqueue, Goto
    <2>2. awake' = awake \ {p} /\ p \in awake /\ owed' = owed
      BY <1>2, <2>1 DEF Awake, Owed, Threads
    <2>3. Cardinality(awake') = Cardinality(awake) - 1
      BY <1>1, <2>2, FS_RemoveElement
    <2> HIDE DEF awake, owed
    <2>4. fullSleepers' # {} => QueueSize - count' <= Cardinality(awake') + Cardinality(owed')
      BY <1>1, <1>2, <2>1, <2>2, <2>3
    <2> QED BY <2>4 DEF SlotsClaimed, awake, owed
  <1>10. ASSUME NEW p \in Producers,
                WakeNotFull(p) \/ Leave(p) \/ SignalNotEmpty(p)
         PROVE  SlotsClaimed'
    <2>1. /\ fullSleepers' = fullSleepers /\ count' = count
          /\ \/ /\ pc[p] = "wait" /\ pc' = [pc EXCEPT ![p] = "check"]
                /\ p \notin fullSleepers
             \/ pc[p] = "unlock" /\ pc' = [pc EXCEPT ![p] = "signal"]
             \/ pc[p] = "signal" /\ pc' = [pc EXCEPT ![p] = "done"]
      BY <1>10 DEF WakeNotFull, CondWake, Leave, SignalNotEmpty, Goto, queue
    <2>2. awake' = awake /\ owed' = owed
      BY <1>2, <2>1 DEF Awake, Owed, Threads
    <2> QED BY <1>3, <2>1, <2>2
  <1>11. ASSUME UNCHANGED vars
         PROVE  SlotsClaimed'
    BY <1>3, <1>11 DEF vars, queue, Awake, Owed
  <1>12. ASSUME NEW t \in Threads, SpuriousWake(t)
         PROVE  SlotsClaimed'
    <2>1. /\ count' = count /\ pc' = pc
          /\ fullSleepers' = fullSleepers \ {t}
      BY <1>12 DEF SpuriousWake, queue
    <2>2. owed' = owed
      BY <2>1 DEF Owed
    <2>3. CASE t \notin fullSleepers
      BY <1>3, <2>1, <2>2, <2>3 DEF Awake
    <2>4. CASE t \in fullSleepers
      <3>1. awake' = awake \cup {t} /\ t \notin awake
        BY <1>2, <2>1, <2>4 DEF Awake, Threads
      <3>2. Cardinality(awake') = Cardinality(awake) + 1
        BY <1>1, <3>1, FS_AddElement
      <3> HIDE DEF awake, owed
      <3>3. QueueSize - count' <= Cardinality(awake') + Cardinality(owed')
        BY <1>1, <1>2, <2>1, <2>2, <2>4, <3>2
      <3> QED BY <3>3 DEF SlotsClaimed, awake, owed
    <2> QED BY <2>3, <2>4
  <1> QED BY <1>4, <1>5, <1>6, <1>7, <1>8, <1>9, <1>10, <1>11, <1>12
          DEF Next, Terminated, Producer

(* Every reachable state of the queue satisfies the inductive invariant.    *)
THEOREM Inductive ==
  ASSUME BufferAssumption
  PROVE  Spec => []IndInv
  <1>1. Init => IndInv
    BY InitInd
  <1>2. IndInv /\ [Next]_vars => IndInv'
    <2> SUFFICES ASSUME IndInv, [Next]_vars PROVE IndInv'
      OBVIOUS
    <2>1. ASSUME NEW p \in Producers, Producer(p)
          PROVE  TypeOK' /\ HoldsLock' /\ SleepersWait'
      BY <2>1, ThreadStep DEF Threads
    <2>2. ASSUME NEW c \in Consumers, Consumer(c)
          PROVE  TypeOK' /\ HoldsLock' /\ SleepersWait'
      BY <2>2, ThreadStep DEF Threads
    <2>3. ASSUME UNCHANGED vars
          PROVE  TypeOK' /\ HoldsLock' /\ SleepersWait'
      BY <2>3 DEF vars, queue, IndInv, TypeOK, HoldsLock, SleepersWait
    <2>4. ASSUME NEW t \in Threads, SpuriousWake(t)
          PROVE  TypeOK' /\ HoldsLock' /\ SleepersWait'
      BY <2>4, SpuriousStep
    <2>5. TypeOK' /\ HoldsLock' /\ SleepersWait'
      BY <2>1, <2>2, <2>3, <2>4 DEF Next, Terminated
    <2> QED BY <2>5, RingStep, PacketsStep, SlotsStep DEF IndInv
  <1> QED BY <1>1, <1>2, PTL DEF Spec

(* No wakeup of encode_package and decode_package is lost, whatever their
   numbers and the size of the queue: while a consumer sleeps, every packet
   has an awake consumer or a producer about to signal, and dually.         *)
THEOREM NoWakeupLost ==
  ASSUME BufferAssumption
  PROVE  Spec => []SleepersAreOwed
  <1>1. IndInv => SleepersAreOwed
    BY DEF IndInv, SleepersAreOwed
  <1>2. Spec => []IndInv
    BY Inductive
  <1> QED BY <1>1, <1>2, PTL
-----------------------------------------------------------------------------
(* The queue implements a FIFO channel *)

\* The pending packets, in plain terms.
PendingFacts ==
  /\ Pending \in Seq(Producers) /\ Len(Pending) = count
  /\ \A n \in 1..count : Pending[n] = packets[SlotAt(n)]

(* The packets between head and tail are a sequence of count packets.       *)
LEMMA PendingFits == IndInv => PendingFacts
  <1> SUFFICES ASSUME IndInv PROVE PendingFacts
    OBVIOUS
  <1>1. count \in Nat /\ \A n \in 1..count : packets[SlotAt(n)] \in Producers
    BY DEF IndInv, TypeOK, RingHolds
  <1>2. Pending \in [1..count -> Producers]
    BY <1>1 DEF Pending
  <1>3. Pending \in Seq(Producers)
    BY <1>1, <1>2, SeqDef
  <1>4. Len(Pending) = count
    BY <1>1, <1>2, <1>3, LenProperties
  <1> QED BY <1>3, <1>4 DEF PendingFacts, Pending

(* The same of the next state.                                              *)
LEMMA PendingFitsNext == IndInv' => PendingFacts'
  BY PendingFits, PTL

(* Encoding a packet puts it at the end of the pending ones.                *)
LEMMA EnqueueMaps ==
  ASSUME BufferAssumption, IndInv, IndInv', NEW p \in Producers, Enqueue(p)
  PROVE  Channel!Put(p)
  <1>1. /\ count \in 0..(QueueSize - 1) /\ count' = count + 1 /\ head' = head
        /\ tail' = SlotAt(count + 1) /\ tail' \in Slots
        /\ packets' = [packets EXCEPT ![tail'] = p] /\ delivered' = delivered
        /\ \A n \in 1..count : SlotAt(n) \in Slots \ {tail'}
    BY EnqueueRing
  <1>2. packets \in [Slots -> Producers \cup {None}] /\ QueueSize \in 1..255
    BY DEF IndInv, TypeOK, BufferAssumption
  <1>3. \A n : SlotAt(n)' = SlotAt(n)
    BY <1>1 DEF SlotAt
  <1>4. /\ Pending \in Seq(Producers) /\ Len(Pending) = count
        /\ \A n \in 1..count : Pending[n] = packets[SlotAt(n)]
    BY PendingFits DEF PendingFacts
  <1>5. /\ Pending' \in Seq(Producers) /\ Len(Pending') = count + 1
        /\ \A n \in 1..(count + 1) : Pending'[n] = packets'[SlotAt(n)]
    <2> HIDE DEF Pending
    <2> QED BY <1>1, <1>3, PendingFitsNext DEF PendingFacts
  <1>6. Pending' = Append(Pending, p)
    <2>1. /\ Append(Pending, p) \in Seq(Producers) /\ Len(Append(Pending, p)) = count + 1
          /\ \A n \in 1..count : Append(Pending, p)[n] = Pending[n]
          /\ Append(Pending, p)[count + 1] = p
      BY <1>4, AppendProperties
    <2>2. \A n \in 1..(count + 1) : Pending'[n] = Append(Pending, p)[n]
      <3> TAKE n \in 1..(count + 1)
      <3>1. CASE n \in 1..count
        BY <1>1, <1>2, <1>4, <1>5, <2>1, <3>1
      <3>2. CASE n = count + 1
        BY <1>1, <1>2, <1>5, <2>1, <3>2
      <3>3. n \in 1..count \/ n = count + 1
        <4>1. count \in Nat
          BY <1>1
        <4> QED BY <4>1
      <3> QED BY <3>1, <3>2, <3>3
    <2> QED BY <1>5, <2>1, <2>2, SeqEqual
  <1>7. Len(Pending) < QueueSize
    BY <1>1, <1>2, <1>4
  <1> QED BY <1>1, <1>6, <1>7 DEF Channel!Put

(* Decoding one takes the oldest.                                           *)
LEMMA DequeueMaps ==
  ASSUME BufferAssumption, IndInv, IndInv', NEW c \in Consumers, Dequeue(c)
  PROVE  Channel!Get
  <1>1. /\ count \in 1..QueueSize /\ count' = count - 1 /\ packets' = packets
        /\ delivered' = Append(delivered, packets[SlotAt(1)])
        /\ \A n \in 0..(count - 1) : SlotAt(n)' = SlotAt(n + 1)
    BY DequeueRing
  <1>2. /\ Pending \in Seq(Producers) /\ Len(Pending) = count
        /\ \A n \in 1..count : Pending[n] = packets[SlotAt(n)]
    BY PendingFits DEF PendingFacts
  <1>3. /\ Pending' \in Seq(Producers) /\ Len(Pending') = count - 1
        /\ \A n \in 1..(count - 1) : Pending'[n] = packets[SlotAt(n + 1)]
    <2>1. /\ Pending' \in Seq(Producers) /\ Len(Pending') = count - 1
          /\ \A n \in 1..(count - 1) : Pending'[n] = packets'[SlotAt(n)']
      <3> HIDE DEF Pending
      <3> QED BY <1>1, PendingFitsNext DEF PendingFacts
    <2> QED BY <1>1, <2>1
  <1>4. Pending # <<>> /\ Head(Pending) = packets[SlotAt(1)]
    BY <1>1, <1>2
  <1>5. Pending' = Tail(Pending)
    <2>1. /\ Tail(Pending) \in Seq(Producers) /\ Len(Tail(Pending)) = count - 1
          /\ \A n \in 1..(count - 1) : Tail(Pending)[n] = Pending[n + 1]
      BY <1>1, <1>2, <1>4, HeadTailProperties
    <2>2. \A n \in 1..(count - 1) : Pending'[n] = Tail(Pending)[n]
      <3> TAKE n \in 1..(count - 1)
      <3>1. n + 1 \in 1..count
        BY <1>1
      <3> QED BY <1>2, <1>3, <2>1, <3>1
    <2> QED BY <1>3, <2>1, <2>2, SeqEqual
  <1> QED BY <1>1, <1>4, <1>5 DEF Channel!Get

(* encode_package and decode_package implement a bounded FIFO channel: no
   packet is lost, overwritten, decoded twice or decoded before it is there,
   whatever their numbers, the size of the queue and the interleaving.      *)
THEOREM RefinesChannel ==
  ASSUME BufferAssumption
  PROVE  Spec => ImplementsChannel
  <1>1. Init => Channel!Init
    BY DEF Init, Channel!Init, Pending
  <1>2. IndInv /\ IndInv' /\ [Next]_vars => [Channel!Next]_Channel!channelVars
    <2> SUFFICES ASSUME IndInv, IndInv', [Next]_vars
                 PROVE  [Channel!Next]_Channel!channelVars
      OBVIOUS
    <2>1. ASSUME NEW p \in Producers, Enqueue(p)
          PROVE  Channel!Next
      BY <2>1, EnqueueMaps DEF Channel!Next
    <2>2. ASSUME NEW c \in Consumers, Dequeue(c)
          PROVE  Channel!Next
      BY <2>2, DequeueMaps DEF Channel!Next
    <2>3. ASSUME UNCHANGED <<queue, delivered>>
          PROVE  UNCHANGED Channel!channelVars
      BY <2>3 DEF queue, Channel!channelVars, Pending, SlotAt
    <2>4. ASSUME NEW t \in Threads, Elsewhere(t)
          PROVE  UNCHANGED <<queue, delivered>>
      BY <2>4 DEF Elsewhere, Enter, Leave, WaitNotFull, WakeNotFull, SignalNotEmpty,
                  WaitNotEmpty, WakeNotEmpty, SignalNotFull, SpuriousWake
    <2>5. UNCHANGED vars => UNCHANGED <<queue, delivered>>
      BY DEF vars
    <2> QED BY <2>1, <2>2, <2>3, <2>4, <2>5
            DEF Next, Terminated, Producer, Consumer, Elsewhere, Threads
  <1>3. Spec => []IndInv
    BY Inductive
  <1> QED BY <1>1, <1>2, <1>3, PTL DEF Spec, ImplementsChannel, Channel!Spec
=============================================================================
