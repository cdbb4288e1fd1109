--------------------------- MODULE SemRingBuffer ---------------------------
(***************************************************************************)
(* pthread/ring_buffer.c: producers and a consumer share a ring of         *)
(* BUFFER_SIZE bytes.  Two counting semaphores account for its empty and   *)
(* filled slots and one mutex guards the buffer and its indices.  Every    *)
(* producer writes Rounds items and every consumer reads Rounds items, so  *)
(* with two producers and one consumer (main) the threads finish only      *)
(* because the ring can hold the items nobody reads.                       *)
(***************************************************************************)
EXTENDS Pthreads, Integers, Sequences, FiniteSets

CONSTANTS Producers,   \* threads in add_value
          Consumers,   \* threads in get_value
          BufferSize,  \* BUFFER_SIZE
          Rounds       \* iterations of each thread's for loop (10 in the code)

ASSUME RingAssumption ==
  /\ IsFiniteSet(Producers) /\ IsFiniteSet(Consumers)
  /\ Producers \cap Consumers = {}
  /\ BufferSize \in 1..255 /\ Rounds \in Nat
  /\ None \notin Producers \cup Consumers

VARIABLES
  empty_slots, filled_slots,  \* values of the two semaphores
  owner,                      \* holder of lock
  buffer, write_index, read_index,
  pc,                         \* where each thread is in its loop body
  i,                          \* loop counter of each thread
  written,                    \* history: items stored, in order
  read                        \* history: items fetched, in order

vars == <<empty_slots, filled_slots, owner, buffer, write_index, read_index,
          pc, i, written, read>>

Threads == Producers \cup Consumers
Slots == 0..(BufferSize - 1)
\* An item is the i-th value of a producer: enough to tell any two apart.
Items == Producers \X (0..(Rounds - 1))
PCs == {"wait", "lock", "access", "advance", "unlock", "post", "done"}

\* The for loop's head: another round, or return.
LoopHead(n) == IF n < Rounds THEN "wait" ELSE "done"

\* The slot after n; the variant forgets to wrap.
AdvanceNoWrap(n) == n + 1
Advance(n) == (n + 1) % BufferSize

\* The value empty_slots is opened with; the variant is one token short.
InitialShort == BufferSize - 1
InitialEmpty == BufferSize

\* Taking the mutex; the variant does not wait for its holder.
EnterAnyway(t) == owner' = t
Enter(t) == Lock(owner, t)

\* A fetched slot is free again; the variant forgets it.
GiveNothing == UNCHANGED empty_slots
GiveBack == SemPost(empty_slots)

Init ==
  /\ empty_slots = InitialEmpty /\ filled_slots = 0
  /\ owner = None
  /\ buffer = [s \in Slots |-> None]
  /\ write_index = 0 /\ read_index = 0
  /\ pc = [t \in Threads |-> LoopHead(0)]
  /\ i = [t \in Threads |-> 0]
  /\ written = <<>> /\ read = <<>>

Acquire(t) ==
  /\ Goto(pc, t, "lock", "access")
  /\ Enter(t)
  /\ UNCHANGED <<empty_slots, filled_slots, buffer, write_index, read_index,
                 i, written, read>>

Release(t) ==
  /\ Goto(pc, t, "unlock", "post")
  /\ Unlock(owner, t)
  /\ UNCHANGED <<empty_slots, filled_slots, buffer, write_index, read_index,
                 i, written, read>>
-----------------------------------------------------------------------------
(* add_value *)

WaitEmpty(p) ==
  /\ SemWait(empty_slots)
  /\ Goto(pc, p, "wait", "lock")
  /\ UNCHANGED <<filled_slots, owner, buffer, write_index, read_index,
                 i, written, read>>

StoreItem(p) ==
  /\ Goto(pc, p, "access", "advance")
  /\ buffer' = [buffer EXCEPT ![write_index] = <<p, i[p]>>]
  /\ written' = Append(written, <<p, i[p]>>)
  /\ UNCHANGED <<empty_slots, filled_slots, owner, write_index, read_index,
                 i, read>>

AdvanceWrite(p) ==
  /\ Goto(pc, p, "advance", "unlock")
  /\ write_index' = Advance(write_index)
  /\ UNCHANGED <<empty_slots, filled_slots, owner, buffer, read_index,
                 i, written, read>>

PostFilled(p) ==
  /\ Goto(pc, p, "post", LoopHead(i[p] + 1))
  /\ i' = [i EXCEPT ![p] = @ + 1]
  /\ SemPost(filled_slots)
  /\ UNCHANGED <<empty_slots, owner, buffer, write_index, read_index,
                 written, read>>

Producer(p) == \/ WaitEmpty(p) \/ Acquire(p) \/ StoreItem(p)
               \/ AdvanceWrite(p) \/ Release(p) \/ PostFilled(p)
-----------------------------------------------------------------------------
(* get_value *)

WaitFilled(c) ==
  /\ SemWait(filled_slots)
  /\ Goto(pc, c, "wait", "lock")
  /\ UNCHANGED <<empty_slots, owner, buffer, write_index, read_index,
                 i, written, read>>

FetchItem(c) ==
  /\ Goto(pc, c, "access", "advance")
  /\ read' = Append(read, buffer[read_index])
  /\ UNCHANGED <<empty_slots, filled_slots, owner, buffer, write_index,
                 read_index, i, written>>

AdvanceRead(c) ==
  /\ Goto(pc, c, "advance", "unlock")
  /\ read_index' = Advance(read_index)
  /\ UNCHANGED <<empty_slots, filled_slots, owner, buffer, write_index,
                 i, written, read>>

PostEmpty(c) ==
  /\ Goto(pc, c, "post", LoopHead(i[c] + 1))
  /\ i' = [i EXCEPT ![c] = @ + 1]
  /\ GiveBack
  /\ UNCHANGED <<filled_slots, owner, buffer, write_index, read_index,
                 written, read>>

Consumer(c) == \/ WaitFilled(c) \/ Acquire(c) \/ FetchItem(c)
               \/ AdvanceRead(c) \/ Release(c) \/ PostEmpty(c)
-----------------------------------------------------------------------------
\* main joins every thread before read_data looks at the buffer.
Joined == \A t \in Threads : pc[t] = "done"
Terminated == Joined /\ UNCHANGED vars

Next ==
  \/ \E p \in Producers : Producer(p)
  \/ \E c \in Consumers : Consumer(c)
  \/ Terminated

Spec == Init /\ [][Next]_vars

\* The program is finite: it is enough that some thread that can run does.
FairSpec == Spec /\ WF_vars(Next)
-----------------------------------------------------------------------------
(* Semaphores and indices of add_value and get_value stay within the
   ring, and only items of the producers are in it.                         *)
TypeOK ==
  /\ empty_slots \in 0..BufferSize /\ filled_slots \in 0..BufferSize
  /\ owner \in Threads \cup {None}
  /\ buffer \in [Slots -> Items \cup {None}]
  /\ write_index \in Slots /\ read_index \in Slots
  /\ pc \in [Threads -> PCs]
  /\ i \in [Threads -> 0..Rounds]
  /\ written \in Seq(Items) /\ read \in Seq(Items \cup {None})

\* Threads with a token, between their sem_wait and their sem_post.
Between == {t \in Threads : pc[t] \notin {"wait", "done"}}

(* Slots are neither created nor lost: the two semaphores and the threads
   that hold a token between sem_wait and sem_post add up to the ring.      *)
TokensConserved ==
  empty_slots + filled_slots + Cardinality(Between) = BufferSize

(* Every slot of the ring of pthread/ring_buffer.c is counted by exactly one
   semaphore or in the hands of one thread.                                 *)
SlotsConserved == TypeOK /\ TokensConserved

Channel == INSTANCE BoundedChannel
             WITH Values <- Items, Capacity <- BufferSize,
                  pending <- SubSeq(written, Len(read) + 1, Len(written)),
                  delivered <- read

(* Together the two loops implement a bounded FIFO channel.                 *)
ImplementsChannel == Channel!Spec

(* main gets past its joins, although more items are written than read.     *)
Termination == <>Joined
=============================================================================
