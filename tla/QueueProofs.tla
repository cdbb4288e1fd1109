---------------------------- MODULE QueueProofs ----------------------------
(***************************************************************************)
(* Proofs about the bounded queues and the named semaphore, for any        *)
(* threads, capacities, requests, operations and runs.  BoundedBuffer's    *)
(* proofs are in its own module.                                           *)
(***************************************************************************)
EXTENDS MCQueues, FiniteSetTheorems, SequenceTheorems, TLAPS
-----------------------------------------------------------------------------
(* pthread/ring_buffer.c, for any finite sets of producers and consumers, any
   ring of 1..255 slots and any number of rounds.                           *)

\* Threads on the two sides of a store and of a fetch, with their token.
Storing == {p \in Producers : pc[p] \in {"lock", "access"}}
Stored == {p \in Producers : pc[p] \in {"advance", "unlock", "post"}}
Fetching == {c \in Consumers : pc[c] \in {"lock", "access"}}
Fetched == {c \in Consumers : pc[c] \in {"advance", "unlock", "post"}}

\* TypeOK without the bounds of the semaphores, which the tokens give.
Typed ==
  /\ empty_slots \in Nat /\ filled_slots \in Nat
  /\ owner \in Threads \cup {None}
  /\ buffer \in [Slots -> Items \cup {None}]
  /\ write_index \in Slots /\ read_index \in Slots
  /\ pc \in [Threads -> PCs]
  /\ i \in [Threads -> 0..Rounds]
  /\ written \in Seq(Items) /\ read \in Seq(Items)

\* A thread that has not left its loop has rounds left.
RoundsLeft == \A t \in Threads : pc[t] # "done" => i[t] < Rounds

\* Who is between lock and unlock holds the mutex.
HoldsLock == \A t \in Threads : pc[t] \in {"access", "advance", "unlock"} <=> owner = t

\* Items written and not read are announced by filled_slots, still to be
\* announced, or spoken for; empty_slots counts the rest of the ring.
TokensBalance ==
  /\ Len(written) - Len(read) = filled_slots + Cardinality(Stored) + Cardinality(Fetching)
  /\ Len(read) + BufferSize - Len(written)
       = empty_slots + Cardinality(Storing) + Cardinality(Fetched)

\* Where the next item will be fetched and stored once the indices have
\* followed the fetch or the store that has just happened.
Front == IF \E c \in Consumers : pc[c] = "advance" THEN Advance(read_index) ELSE read_index
Back == IF \E p \in Producers : pc[p] = "advance" THEN Advance(write_index) ELSE write_index
SlotAt(n) == IF Front + n < BufferSize THEN Front + n ELSE Front + n - BufferSize

\* The slots from the one to the other hold what is written and not read.
RingHolds ==
  /\ Back = SlotAt(Len(written) - Len(read))
  /\ \A k \in 1..(Len(written) - Len(read)) : buffer[SlotAt(k - 1)] = written[Len(read) + k]

IndInv == Typed /\ RoundsLeft /\ HoldsLock /\ TokensBalance /\ RingHolds
-----------------------------------------------------------------------------
(* Adding one modulo BufferSize moves to the next slot, or wraps to 0.      *)
LEMMA AdvanceWraps ==
  ASSUME NEW n \in Slots
  PROVE  /\ Advance(n) = IF n + 1 = BufferSize THEN 0 ELSE n + 1
         /\ Advance(n) \in Slots
  BY RingAssumption, SMT DEF Advance, Slots

(* The threads on each side of an access are finitely many.                 *)
LEMMA SidesFinite ==
  /\ IsFiniteSet(Storing) /\ Cardinality(Storing) \in Nat
  /\ IsFiniteSet(Stored) /\ Cardinality(Stored) \in Nat
  /\ IsFiniteSet(Fetching) /\ Cardinality(Fetching) \in Nat
  /\ IsFiniteSet(Fetched) /\ Cardinality(Fetched) \in Nat
  <1>1. /\ IsFiniteSet(Storing) /\ IsFiniteSet(Stored)
        /\ IsFiniteSet(Fetching) /\ IsFiniteSet(Fetched)
    BY RingAssumption, FS_Subset DEF Storing, Stored, Fetching, Fetched
  <1> QED BY <1>1, FS_CardinalityType

(* Nobody else is at the ring when a thread is.                             *)
LEMMA Alone ==
  ASSUME HoldsLock, NEW t \in Threads, pc[t] \in {"access", "advance", "unlock"}
  PROVE  \A u \in Threads \ {t} : pc[u] \notin {"access", "advance", "unlock"}
  BY DEF HoldsLock

(* Init opens the semaphores with all the slots free.                       *)
LEMMA InitInd == Init => IndInv
  <1> SUFFICES ASSUME Init PROVE IndInv
    OBVIOUS
  <1> USE RingAssumption DEF Init
  <1>1. Typed
    <2>1. written \in Seq(Items) /\ read \in Seq(Items)
      OBVIOUS
    <2>2. pc \in [Threads -> PCs] /\ i \in [Threads -> 0..Rounds]
      BY DEF LoopHead, PCs
    <2>3. 0 \in Slots
      BY DEF Slots
    <2> QED BY <2>1, <2>2, <2>3 DEF Typed, InitialEmpty
  <1>2. RoundsLeft
    BY DEF RoundsLeft, LoopHead
  <1>3. HoldsLock
    BY DEF HoldsLock, LoopHead, Threads
  <1>4. TokensBalance
    <2>1. Storing = {} /\ Stored = {} /\ Fetching = {} /\ Fetched = {}
      BY DEF Storing, Stored, Fetching, Fetched, LoopHead, Threads
    <2>2. Cardinality({}) = 0
      BY FS_EmptySet
    <2> QED BY <2>1, <2>2 DEF TokensBalance, InitialEmpty
  <1>5. RingHolds
    <2>1. Front = 0 /\ Back = 0
      BY DEF Front, Back, LoopHead, Threads
    <2> QED BY <2>1 DEF RingHolds, SlotAt
  <1> QED BY <1>1, <1>2, <1>3, <1>4, <1>5 DEF IndInv

(* A producer at the buffer finds the slot after the last item free.        *)
LEMMA RoomToStore ==
  ASSUME IndInv, NEW p \in Producers, pc[p] = "access"
  PROVE  /\ Len(written) - Len(read) \in 0..(BufferSize - 1)
         /\ Back = write_index /\ Front = read_index
  <1>1. p \in Storing /\ p \in Threads
    BY DEF Storing, Threads
  <1>2. Cardinality(Storing) >= 1
    <2>1. Cardinality(Storing) # 0
      BY <1>1, SidesFinite, FS_EmptySet
    <2> QED BY <2>1, SidesFinite
  <1>3. Len(written) \in Nat /\ Len(read) \in Nat
    BY DEF IndInv, Typed
  <1>4. Len(written) - Len(read) \in 0..(BufferSize - 1)
    <2>1. empty_slots \in Nat /\ filled_slots \in Nat /\ BufferSize \in Nat
      BY RingAssumption DEF IndInv, Typed
    <2>2. TokensBalance
      BY DEF IndInv
    <2> QED BY <1>2, <1>3, <2>1, <2>2, SidesFinite DEF TokensBalance
  <1>5. \A u \in Threads : pc[u] # "advance"
    BY <1>1, Alone DEF IndInv
  <1> QED BY <1>4, <1>5 DEF Front, Back, Threads

(* A consumer at the buffer finds the oldest item that was not read.        *)
LEMMA ItemToFetch ==
  ASSUME IndInv, NEW c \in Consumers, pc[c] = "access"
  PROVE  /\ Len(written) - Len(read) \in 1..BufferSize
         /\ Front = read_index /\ Back = write_index
         /\ buffer[read_index] = written[Len(read) + 1]
         /\ buffer[read_index] \in Items
  <1>1. c \in Fetching /\ c \in Threads
    BY DEF Fetching, Threads
  <1>2. Cardinality(Fetching) >= 1
    <2>1. Cardinality(Fetching) # 0
      BY <1>1, SidesFinite, FS_EmptySet
    <2> QED BY <2>1, SidesFinite
  <1>3. Len(written) \in Nat /\ Len(read) \in Nat /\ written \in Seq(Items)
    BY DEF IndInv, Typed
  <1>4. Len(written) - Len(read) \in 1..BufferSize
    <2>1. empty_slots \in Nat /\ filled_slots \in Nat /\ BufferSize \in Nat
      BY RingAssumption DEF IndInv, Typed
    <2>2. TokensBalance
      BY DEF IndInv
    <2> QED BY <1>2, <1>3, <2>1, <2>2, SidesFinite DEF TokensBalance
  <1>5. \A u \in Threads : pc[u] # "advance"
    BY <1>1, Alone DEF IndInv
  <1>6. Front = read_index /\ Back = write_index
    BY <1>5 DEF Front, Back, Threads
  <1>7. SlotAt(0) = read_index
    BY <1>6, RingAssumption DEF SlotAt, IndInv, Typed, Slots
  <1>8. buffer[read_index] = written[Len(read) + 1]
    <2>1. 1 \in 1..(Len(written) - Len(read)) /\ 1 - 1 = 0
      BY <1>3, <1>4
    <2> QED BY <1>7, <2>1 DEF IndInv, RingHolds
  <1>9. Len(read) + 1 \in 1..Len(written)
    BY <1>3, <1>4
  <1> QED BY <1>3, <1>4, <1>6, <1>8, <1>9

(* Types and loop counters, whatever step add_value or get_value takes.     *)
LEMMA TypedStep == IndInv /\ [Next]_vars => Typed' /\ RoundsLeft'
  <1> SUFFICES ASSUME IndInv, [Next]_vars PROVE Typed' /\ RoundsLeft'
    OBVIOUS
  <1> USE RingAssumption DEF IndInv, Goto
  <1>1. ASSUME NEW t \in Threads, Acquire(t) \/ Release(t)
        PROVE  Typed' /\ RoundsLeft'
    <2>1. /\ pc[t] # "done" /\ pc' \in {[pc EXCEPT ![t] = "access"], [pc EXCEPT ![t] = "post"]}
          /\ owner' \in {t, None}
          /\ UNCHANGED <<empty_slots, filled_slots, buffer, write_index, read_index,
                         i, written, read>>
      BY <1>1 DEF Acquire, Release, Enter, Lock, Unlock
    <2>2. pc' \in [Threads -> PCs]
      BY <2>1 DEF Typed, PCs
    <2>3. Typed'
      BY <2>1, <2>2 DEF Typed
    <2>4. RoundsLeft'
      BY <2>1 DEF RoundsLeft, Typed
    <2> QED BY <2>3, <2>4
  <1>2. ASSUME NEW p \in Producers, WaitEmpty(p)
        PROVE  Typed' /\ RoundsLeft'
    BY <1>2 DEF WaitEmpty, SemWait, Typed, RoundsLeft, PCs, Threads
  <1>3. ASSUME NEW p \in Producers, StoreItem(p)
        PROVE  Typed' /\ RoundsLeft'
    <2>1. <<p, i[p]>> \in Items
      <3>1. pc[p] = "access" /\ p \in Threads
        BY <1>3 DEF StoreItem, Threads
      <3>2. i[p] \in 0..(Rounds - 1)
        BY <3>1 DEF RoundsLeft, Typed
      <3> QED BY <3>2 DEF Items
    <2>2. written' \in Seq(Items) /\ buffer' \in [Slots -> Items \cup {None}]
      BY <1>3, <2>1 DEF StoreItem, Typed
    <2> QED BY <1>3, <2>2 DEF StoreItem, Typed, RoundsLeft, PCs
  <1>4. ASSUME NEW p \in Producers, AdvanceWrite(p)
        PROVE  Typed' /\ RoundsLeft'
    <2>1. write_index' \in Slots
      BY <1>4, AdvanceWraps DEF AdvanceWrite, Typed
    <2> QED BY <1>4, <2>1 DEF AdvanceWrite, Typed, RoundsLeft, PCs
  <1>5. ASSUME NEW t \in Threads, (t \in Producers /\ PostFilled(t))
                                 \/ (t \in Consumers /\ PostEmpty(t))
        PROVE  Typed' /\ RoundsLeft'
    <2>1. /\ pc[t] = "post" /\ pc' = [pc EXCEPT ![t] = LoopHead(i[t] + 1)]
          /\ i' = [i EXCEPT ![t] = @ + 1]
          /\ UNCHANGED <<owner, buffer, write_index, read_index, written, read>>
          /\ empty_slots' \in Nat /\ filled_slots' \in Nat
      BY <1>5 DEF PostFilled, PostEmpty, SemPost, GiveBack, Typed
    <2>2. i[t] \in 0..(Rounds - 1) /\ LoopHead(i[t] + 1) \in {"wait", "done"}
      BY <2>1 DEF RoundsLeft, LoopHead, Typed
    <2>3. pc' \in [Threads -> PCs] /\ i' \in [Threads -> 0..Rounds]
      BY <2>1, <2>2 DEF PCs, Typed
    <2>4. RoundsLeft'
      BY <2>1, <2>2 DEF RoundsLeft, LoopHead, Typed
    <2> QED BY <2>1, <2>3, <2>4 DEF Typed
  <1>6. ASSUME NEW c \in Consumers, WaitFilled(c)
        PROVE  Typed' /\ RoundsLeft'
    BY <1>6 DEF WaitFilled, SemWait, Typed, RoundsLeft, PCs, Threads
  <1>7. ASSUME NEW c \in Consumers, FetchItem(c)
        PROVE  Typed' /\ RoundsLeft'
    <2>1. buffer[read_index] \in Items
      BY <1>7, ItemToFetch DEF FetchItem
    <2>2. read' \in Seq(Items)
      BY <1>7, <2>1 DEF FetchItem, Typed
    <2> QED BY <1>7, <2>2 DEF FetchItem, Typed, RoundsLeft, PCs
  <1>8. ASSUME NEW c \in Consumers, AdvanceRead(c)
        PROVE  Typed' /\ RoundsLeft'
    <2>1. read_index' \in Slots
      BY <1>8, AdvanceWraps DEF AdvanceRead, Typed
    <2> QED BY <1>8, <2>1 DEF AdvanceRead, Typed, RoundsLeft, PCs
  <1>9. ASSUME UNCHANGED vars
        PROVE  Typed' /\ RoundsLeft'
    BY <1>9 DEF vars, Typed, RoundsLeft
  <1>10. ASSUME NEW p \in Producers, Producer(p)
         PROVE  Typed' /\ RoundsLeft'
    BY <1>1, <1>2, <1>3, <1>4, <1>5, <1>10 DEF Producer, Threads
  <1>11. ASSUME NEW c \in Consumers, Consumer(c)
         PROVE  Typed' /\ RoundsLeft'
    BY <1>1, <1>5, <1>6, <1>7, <1>8, <1>11 DEF Consumer, Threads
  <1> QED BY <1>9, <1>10, <1>11 DEF Next, Terminated

(* The mutex lets one thread to the ring at a time.                         *)
LEMMA LockStep == IndInv /\ [Next]_vars => HoldsLock'
  <1> SUFFICES ASSUME IndInv, [Next]_vars PROVE HoldsLock'
    OBVIOUS
  <1> USE RingAssumption DEF IndInv, Typed, HoldsLock, Goto
  <1>1. ASSUME NEW t \in Threads, Acquire(t) \/ Release(t)
        PROVE  HoldsLock'
    BY <1>1 DEF Acquire, Release, Enter, Lock, Unlock, Threads
  <1>2. ASSUME NEW p \in Producers, WaitEmpty(p) \/ StoreItem(p) \/ AdvanceWrite(p) \/ PostFilled(p)
        PROVE  HoldsLock'
    BY <1>2 DEF WaitEmpty, StoreItem, AdvanceWrite, PostFilled, LoopHead, Threads
  <1>3. ASSUME NEW c \in Consumers, WaitFilled(c) \/ FetchItem(c) \/ AdvanceRead(c) \/ PostEmpty(c)
        PROVE  HoldsLock'
    BY <1>3 DEF WaitFilled, FetchItem, AdvanceRead, PostEmpty, LoopHead, Threads
  <1>4. ASSUME UNCHANGED vars
        PROVE  HoldsLock'
    BY <1>4 DEF vars
  <1> QED BY <1>1, <1>2, <1>3, <1>4 DEF Next, Producer, Consumer, Terminated, Threads

(* Tokens only change hands: sem_wait takes one from the semaphore, the store
   or the fetch turns it into one of the other kind, sem_post gives it back. *)
LEMMA TokensStep == IndInv /\ [Next]_vars => TokensBalance'
  <1> SUFFICES ASSUME IndInv, [Next]_vars PROVE TokensBalance'
    OBVIOUS
  <1>1. /\ empty_slots \in Nat /\ filled_slots \in Nat /\ BufferSize \in Nat
        /\ pc \in [Threads -> PCs]
        /\ written \in Seq(Items) /\ read \in Seq(Items)
    BY RingAssumption DEF IndInv, Typed
  <1>2. /\ empty_slots \in Nat /\ filled_slots \in Nat /\ BufferSize \in Nat
        /\ Len(written) \in Nat /\ Len(read) \in Nat
        /\ Cardinality(Storing) \in Nat /\ Cardinality(Stored) \in Nat
        /\ Cardinality(Fetching) \in Nat /\ Cardinality(Fetched) \in Nat
        /\ TokensBalance
    BY <1>1, SidesFinite DEF IndInv
  <1>3. ASSUME UNCHANGED <<empty_slots, filled_slots, written, read>>,
               Storing' = Storing, Stored' = Stored, Fetching' = Fetching, Fetched' = Fetched
        PROVE  TokensBalance'
    BY <1>2, <1>3 DEF TokensBalance
  <1>4. ASSUME NEW t \in Threads, Acquire(t) \/ Release(t)
        PROVE  TokensBalance'
    <2>1. Storing' = Storing /\ Stored' = Stored /\ Fetching' = Fetching /\ Fetched' = Fetched
      BY <1>1, <1>4 DEF Acquire, Release, Goto, Storing, Stored, Fetching, Fetched, Threads
    <2> QED BY <1>3, <1>4, <2>1 DEF Acquire, Release
  <1>5. ASSUME NEW p \in Producers, AdvanceWrite(p)
        PROVE  TokensBalance'
    <2>1. Storing' = Storing /\ Stored' = Stored /\ Fetching' = Fetching /\ Fetched' = Fetched
      BY <1>1, <1>5 DEF AdvanceWrite, Goto, Storing, Stored, Fetching, Fetched, Threads
    <2> QED BY <1>3, <1>5, <2>1 DEF AdvanceWrite
  <1>6. ASSUME NEW c \in Consumers, AdvanceRead(c)
        PROVE  TokensBalance'
    <2>1. Storing' = Storing /\ Stored' = Stored /\ Fetching' = Fetching /\ Fetched' = Fetched
      BY <1>1, <1>6 DEF AdvanceRead, Goto, Storing, Stored, Fetching, Fetched, Threads
    <2> QED BY <1>3, <1>6, <2>1 DEF AdvanceRead
  <1>7. ASSUME NEW p \in Producers, WaitEmpty(p)
        PROVE  TokensBalance'
    <2>1. /\ p \notin Storing /\ Storing' = Storing \cup {p}
          /\ Stored' = Stored /\ Fetching' = Fetching /\ Fetched' = Fetched
      BY <1>1, <1>7, RingAssumption
         DEF WaitEmpty, Goto, Storing, Stored, Fetching, Fetched, Threads
    <2>2. Cardinality(Storing') = Cardinality(Storing) + 1
      BY <2>1, SidesFinite, FS_AddElement
    <2>3. empty_slots' = empty_slots - 1 /\ filled_slots' = filled_slots /\ written' = written /\ read' = read
      BY <1>7 DEF WaitEmpty, SemWait
    <2>4. /\ Cardinality(Stored') = Cardinality(Stored) /\ Cardinality(Fetching') = Cardinality(Fetching)
          /\ Cardinality(Fetched') = Cardinality(Fetched)
      BY <2>1
    <2> QED BY <1>2, <2>2, <2>3, <2>4 DEF TokensBalance
  <1>8. ASSUME NEW p \in Producers, StoreItem(p)
        PROVE  TokensBalance'
    <2>1. /\ p \in Storing /\ Storing' = Storing \ {p}
          /\ p \notin Stored /\ Stored' = Stored \cup {p}
          /\ Fetching' = Fetching /\ Fetched' = Fetched
      BY <1>1, <1>8, RingAssumption
         DEF StoreItem, Goto, Storing, Stored, Fetching, Fetched, Threads
    <2>2. /\ Cardinality(Storing') = Cardinality(Storing) - 1
          /\ Cardinality(Stored') = Cardinality(Stored) + 1
      BY <2>1, SidesFinite, FS_AddElement, FS_RemoveElement
    <2>3. Len(written') = Len(written) + 1 /\ empty_slots' = empty_slots /\ filled_slots' = filled_slots /\ read' = read
      BY <1>1, <1>8 DEF StoreItem
    <2>4. Cardinality(Fetching') = Cardinality(Fetching) /\ Cardinality(Fetched') = Cardinality(Fetched)
      BY <2>1
    <2>5. Len(written') - Len(read') = filled_slots' + Cardinality(Stored') + Cardinality(Fetching')
      <3>1. /\ Len(written) - Len(read) = filled_slots + Cardinality(Stored) + Cardinality(Fetching)
            /\ Len(written) \in Nat /\ Len(read) \in Nat /\ filled_slots \in Nat
            /\ Cardinality(Stored) \in Nat /\ Cardinality(Fetching) \in Nat
        BY <1>2 DEF TokensBalance
      <3> QED BY <2>2, <2>3, <2>4, <3>1, SMTT(30)
    <2>6. Len(read') + BufferSize - Len(written')
            = empty_slots' + Cardinality(Storing') + Cardinality(Fetched')
      <3>1. /\ Len(read) + BufferSize - Len(written)
                 = empty_slots + Cardinality(Storing) + Cardinality(Fetched)
            /\ Len(written) \in Nat /\ Len(read) \in Nat /\ empty_slots \in Nat
            /\ BufferSize \in Nat /\ Cardinality(Storing) \in Nat /\ Cardinality(Fetched) \in Nat
        BY <1>2 DEF TokensBalance
      <3> QED BY <2>2, <2>3, <2>4, <3>1, SMTT(30)
    <2> QED BY <2>5, <2>6 DEF TokensBalance
  <1>9. ASSUME NEW p \in Producers, PostFilled(p)
        PROVE  TokensBalance'
    <2>1. /\ p \in Stored /\ Stored' = Stored \ {p}
          /\ Storing' = Storing /\ Fetching' = Fetching /\ Fetched' = Fetched
      BY <1>1, <1>9, RingAssumption
         DEF PostFilled, LoopHead, Goto, Storing, Stored, Fetching, Fetched, Threads
    <2>2. Cardinality(Stored') = Cardinality(Stored) - 1
      BY <2>1, SidesFinite, FS_RemoveElement
    <2>3. filled_slots' = filled_slots + 1 /\ empty_slots' = empty_slots /\ written' = written /\ read' = read
      BY <1>9 DEF PostFilled, SemPost
    <2>4. /\ Cardinality(Storing') = Cardinality(Storing) /\ Cardinality(Fetching') = Cardinality(Fetching)
          /\ Cardinality(Fetched') = Cardinality(Fetched)
      BY <2>1
    <2> QED BY <1>2, <2>2, <2>3, <2>4 DEF TokensBalance
  <1>10. ASSUME NEW c \in Consumers, WaitFilled(c)
        PROVE  TokensBalance'
    <2>1. /\ c \notin Fetching /\ Fetching' = Fetching \cup {c}
          /\ Storing' = Storing /\ Stored' = Stored /\ Fetched' = Fetched
      BY <1>1, <1>10, RingAssumption
         DEF WaitFilled, Goto, Storing, Stored, Fetching, Fetched, Threads
    <2>2. Cardinality(Fetching') = Cardinality(Fetching) + 1
      BY <2>1, SidesFinite, FS_AddElement
    <2>3. filled_slots' = filled_slots - 1 /\ empty_slots' = empty_slots /\ written' = written /\ read' = read
      BY <1>10 DEF WaitFilled, SemWait
    <2>4. /\ Cardinality(Storing') = Cardinality(Storing) /\ Cardinality(Stored') = Cardinality(Stored)
          /\ Cardinality(Fetched') = Cardinality(Fetched)
      BY <2>1
    <2> QED BY <1>2, <2>2, <2>3, <2>4 DEF TokensBalance
  <1>11. ASSUME NEW c \in Consumers, FetchItem(c)
         PROVE  TokensBalance'
    <2>1. /\ c \in Fetching /\ Fetching' = Fetching \ {c}
          /\ c \notin Fetched /\ Fetched' = Fetched \cup {c}
          /\ Storing' = Storing /\ Stored' = Stored
      BY <1>1, <1>11, RingAssumption
         DEF FetchItem, Goto, Storing, Stored, Fetching, Fetched, Threads
    <2>2. /\ Cardinality(Fetching') = Cardinality(Fetching) - 1
          /\ Cardinality(Fetched') = Cardinality(Fetched) + 1
      BY <2>1, SidesFinite, FS_AddElement, FS_RemoveElement
    <2>3. buffer[read_index] \in Items
      BY <1>11, ItemToFetch DEF FetchItem, Goto
    <2>4. Len(read') = Len(read) + 1 /\ empty_slots' = empty_slots /\ filled_slots' = filled_slots /\ written' = written
      BY <1>1, <1>11, <2>3 DEF FetchItem
    <2>5. Cardinality(Storing') = Cardinality(Storing) /\ Cardinality(Stored') = Cardinality(Stored)
      BY <2>1
    <2>6. Len(written') - Len(read') = filled_slots' + Cardinality(Stored') + Cardinality(Fetching')
      <3>1. /\ Len(written) - Len(read) = filled_slots + Cardinality(Stored) + Cardinality(Fetching)
            /\ Len(written) \in Nat /\ Len(read) \in Nat /\ filled_slots \in Nat
            /\ Cardinality(Stored) \in Nat /\ Cardinality(Fetching) \in Nat
        BY <1>2 DEF TokensBalance
      <3> QED BY <2>2, <2>4, <2>5, <3>1, SMTT(30)
    <2>7. Len(read') + BufferSize - Len(written')
            = empty_slots' + Cardinality(Storing') + Cardinality(Fetched')
      <3>1. /\ Len(read) + BufferSize - Len(written)
                 = empty_slots + Cardinality(Storing) + Cardinality(Fetched)
            /\ Len(written) \in Nat /\ Len(read) \in Nat /\ empty_slots \in Nat
            /\ BufferSize \in Nat /\ Cardinality(Storing) \in Nat /\ Cardinality(Fetched) \in Nat
        BY <1>2 DEF TokensBalance
      <3> QED BY <2>2, <2>4, <2>5, <3>1, SMTT(30)
    <2> QED BY <2>6, <2>7 DEF TokensBalance
  <1>12. ASSUME NEW c \in Consumers, PostEmpty(c)
         PROVE  TokensBalance'
    <2>1. /\ c \in Fetched /\ Fetched' = Fetched \ {c}
          /\ Storing' = Storing /\ Stored' = Stored /\ Fetching' = Fetching
      BY <1>1, <1>12, RingAssumption
         DEF PostEmpty, LoopHead, Goto, Storing, Stored, Fetching, Fetched, Threads
    <2>2. Cardinality(Fetched') = Cardinality(Fetched) - 1
      BY <2>1, SidesFinite, FS_RemoveElement
    <2>3. empty_slots' = empty_slots + 1 /\ filled_slots' = filled_slots /\ written' = written /\ read' = read
      BY <1>12 DEF PostEmpty, GiveBack, SemPost
    <2>4. /\ Cardinality(Storing') = Cardinality(Storing) /\ Cardinality(Stored') = Cardinality(Stored)
          /\ Cardinality(Fetching') = Cardinality(Fetching)
      BY <2>1
    <2> QED BY <1>2, <2>2, <2>3, <2>4 DEF TokensBalance
  <1>13. ASSUME UNCHANGED vars
         PROVE  TokensBalance'
    BY <1>3, <1>13 DEF vars, Storing, Stored, Fetching, Fetched
  <1>14. ASSUME NEW p \in Producers, Producer(p)
         PROVE  TokensBalance'
    BY <1>4, <1>5, <1>7, <1>8, <1>9, <1>14 DEF Producer, Threads
  <1>15. ASSUME NEW c \in Consumers, Consumer(c)
         PROVE  TokensBalance'
    BY <1>4, <1>6, <1>10, <1>11, <1>12, <1>15 DEF Consumer, Threads
  <1> QED BY <1>13, <1>14, <1>15 DEF Next, Terminated

(* The place of the (n+1)-th item that is not read is a slot.               *)
LEMMA PlacesAreSlots ==
  ASSUME Typed, NEW n \in 0..BufferSize
  PROVE  /\ Front \in Slots /\ Back \in Slots /\ SlotAt(n) \in Slots
         /\ n < BufferSize => Advance(SlotAt(n)) = SlotAt(n + 1)
         /\ \A m \in 0..BufferSize : m < n /\ n < BufferSize => SlotAt(m) # SlotAt(n)
  <1> USE RingAssumption
  <1>1. Front \in Slots /\ Back \in Slots
    BY AdvanceWraps DEF Front, Back, Typed
  <1>2. SlotAt(n) \in Slots
    BY <1>1 DEF SlotAt, Slots
  <1>3. n < BufferSize => Advance(SlotAt(n)) = SlotAt(n + 1)
    BY <1>1, <1>2, AdvanceWraps DEF SlotAt, Slots
  <1>4. \A m \in 0..BufferSize : m < n /\ n < BufferSize => SlotAt(m) # SlotAt(n)
    BY <1>1 DEF SlotAt, Slots
  <1> QED BY <1>1, <1>2, <1>3, <1>4

(* A store grows what the ring holds at its back, a fetch takes it from the
   front; the indices follow while the mutex keeps everyone else away.      *)
LEMMA RingStep == IndInv /\ [Next]_vars => RingHolds'
  <1> SUFFICES ASSUME IndInv, [Next]_vars PROVE RingHolds'
    OBVIOUS
  <1> DEFINE n == Len(written) - Len(read)
  <1>1. /\ pc \in [Threads -> PCs] /\ Typed /\ RingHolds /\ HoldsLock
        /\ written \in Seq(Items) /\ read \in Seq(Items)
        /\ Len(written) \in Nat /\ Len(read) \in Nat /\ n \in Int
        /\ buffer \in [Slots -> Items \cup {None}]
    BY DEF IndInv, Typed
  <1>2. ASSUME UNCHANGED <<buffer, written, read, Front, Back>>
        PROVE  RingHolds'
    BY <1>2, <1>1 DEF RingHolds, SlotAt
  <1>3. ASSUME NEW t \in Threads, pc[t] # "advance", pc'[t] # "advance",
               \A u \in Threads \ {t} : pc'[u] = pc[u],
               UNCHANGED <<buffer, write_index, read_index, written, read>>
        PROVE  RingHolds'
    <2>1. /\ \A c \in Consumers : pc'[c] = "advance" <=> pc[c] = "advance"
          /\ \A p \in Producers : pc'[p] = "advance" <=> pc[p] = "advance"
      BY <1>3 DEF Threads
    <2>2. Front' = Front /\ Back' = Back
      BY <1>3, <2>1 DEF Front, Back, Advance
    <2> QED BY <1>2, <1>3, <2>2
  <1>4. ASSUME NEW t \in Threads, Acquire(t) \/ Release(t)
        PROVE  RingHolds'
    BY <1>1, <1>3, <1>4 DEF Acquire, Release, Goto
  <1>5. ASSUME NEW p \in Producers, WaitEmpty(p) \/ PostFilled(p)
        PROVE  RingHolds'
    BY <1>1, <1>3, <1>5 DEF WaitEmpty, PostFilled, LoopHead, Goto, Threads
  <1>6. ASSUME NEW c \in Consumers, WaitFilled(c) \/ PostEmpty(c)
        PROVE  RingHolds'
    BY <1>1, <1>3, <1>6 DEF WaitFilled, PostEmpty, LoopHead, Goto, Threads
  <1>7. ASSUME NEW p \in Producers, StoreItem(p)
        PROVE  RingHolds'
    <2>1. /\ pc[p] = "access" /\ pc' = [pc EXCEPT ![p] = "advance"] /\ p \in Threads
          /\ buffer' = [buffer EXCEPT ![write_index] = <<p, i[p]>>]
          /\ written' = Append(written, <<p, i[p]>>)
          /\ write_index' = write_index /\ read_index' = read_index /\ read' = read
      BY <1>7 DEF StoreItem, Goto, Threads
    <2>2. n \in 0..(BufferSize - 1) /\ Back = write_index /\ Front = read_index
      BY <2>1, RoomToStore
    <2>3. \A u \in Threads \ {p} : pc[u] # "advance"
      BY <1>1, <2>1, Alone
    <2>4. Front' = Front /\ Back' = Advance(Back)
      BY <1>1, <2>1, <2>2, <2>3, RingAssumption DEF Front, Back, Threads, Advance
    <2>5. \A m : SlotAt(m)' = SlotAt(m)
      BY <2>4 DEF SlotAt
    <2>6. Back = SlotAt(n) /\ Advance(SlotAt(n)) = SlotAt(n + 1)
      BY <1>1, <2>2, PlacesAreSlots, RingAssumption DEF RingHolds
    <2>7. \A m \in 0..(n - 1) : SlotAt(m) \in Slots /\ SlotAt(m) # write_index
      BY <1>1, <2>2, <2>6, PlacesAreSlots, RingAssumption
    <2>8. /\ Len(written') = Len(written) + 1
          /\ \A k \in 1..Len(written) : written'[k] = written[k]
          /\ written'[Len(written) + 1] = <<p, i[p]>>
      BY <1>1, <2>1, AppendProperties DEF Typed
    <2>9. \A k \in 1..n : buffer'[SlotAt(k - 1)] = written'[Len(read) + k]
      <3> TAKE k \in 1..n
      <3>1. k - 1 \in 0..(n - 1) /\ Len(read) + k \in 1..Len(written)
        BY <1>1, <2>2
      <3>2. buffer[SlotAt(k - 1)] = written[Len(read) + k]
        BY <1>1 DEF RingHolds
      <3> QED BY <1>1, <2>1, <2>7, <2>8, <3>1, <3>2
    <2>10. buffer'[SlotAt(n)] = written'[Len(read) + (n + 1)]
      <3>1. Len(read) + (n + 1) = Len(written) + 1
        BY <1>1
      <3>2. write_index \in Slots
        BY <1>1 DEF Typed
      <3> QED BY <1>1, <2>1, <2>2, <2>6, <2>8, <3>1, <3>2
    <2>11. Len(written') - Len(read') = n + 1
      BY <1>1, <2>1, <2>8
    <2>12. \A k \in 1..(n + 1) : buffer'[SlotAt(k - 1)] = written'[Len(read) + k]
      <3> TAKE k \in 1..(n + 1)
      <3>1. k \in 1..n \/ (k = n + 1 /\ k - 1 = n)
        BY <2>2
      <3> QED BY <2>9, <2>10, <3>1
    <2> HIDE DEF n
    <2> QED BY <2>1, <2>4, <2>5, <2>6, <2>11, <2>12 DEF RingHolds
  <1>8. ASSUME NEW p \in Producers, AdvanceWrite(p)
        PROVE  RingHolds'
    <2>1. /\ pc[p] = "advance" /\ pc' = [pc EXCEPT ![p] = "unlock"] /\ p \in Threads
          /\ write_index' = Advance(write_index) /\ read_index' = read_index
          /\ UNCHANGED <<buffer, written, read>>
      BY <1>8 DEF AdvanceWrite, Goto, Threads
    <2>2. \A u \in Threads \ {p} : pc[u] # "advance"
      BY <1>1, <2>1, Alone
    <2>3. Front' = Front /\ Back' = Back
      BY <1>1, <2>1, <2>2, RingAssumption DEF Front, Back, Threads, Advance
    <2> QED BY <1>2, <2>1, <2>3
  <1>9. ASSUME NEW c \in Consumers, FetchItem(c)
        PROVE  RingHolds'
    <2>1. /\ pc[c] = "access" /\ pc' = [pc EXCEPT ![c] = "advance"] /\ c \in Threads
          /\ read' = Append(read, buffer[read_index])
          /\ write_index' = write_index /\ read_index' = read_index
          /\ buffer' = buffer /\ written' = written
      BY <1>9 DEF FetchItem, Goto, Threads
    <2>2. /\ n \in 1..BufferSize /\ Back = write_index /\ Front = read_index
          /\ buffer[read_index] \in Items
      BY <2>1, ItemToFetch
    <2>3. \A u \in Threads \ {c} : pc[u] # "advance"
      BY <1>1, <2>1, Alone
    <2>4. Front' = Advance(Front) /\ Back' = Back /\ Front \in Slots
      BY <1>1, <2>1, <2>2, <2>3, RingAssumption DEF Front, Back, Threads, Advance, Typed
    <2>5. Front' = IF Front + 1 = BufferSize THEN 0 ELSE Front + 1
      BY <2>4, AdvanceWraps
    <2>6. \A m \in 0..(BufferSize - 1) : SlotAt(m)' = SlotAt(m + 1)
      BY <2>4, <2>5, RingAssumption DEF SlotAt, Slots
    <2>7. Len(read') = Len(read) + 1 /\ Len(written') - Len(read') = n - 1
      BY <1>1, <2>1, <2>2
    <2>8. Back' = SlotAt(n)
      BY <1>1, <2>4 DEF RingHolds
    <2>9. \A k \in 1..(n - 1) : SlotAt(k - 1)' = SlotAt(k)
                                /\ buffer[SlotAt(k)] = written[Len(read) + 1 + k]
      <3> TAKE k \in 1..(n - 1)
      <3>1. /\ k - 1 \in 0..(BufferSize - 1) /\ (k - 1) + 1 = k
            /\ k + 1 \in 1..n /\ (k + 1) - 1 = k /\ Len(read) + (k + 1) = Len(read) + 1 + k
        BY <1>1, <2>2, RingAssumption
      <3>2. buffer[SlotAt((k + 1) - 1)] = written[Len(read) + (k + 1)]
        BY <1>1, <3>1 DEF RingHolds
      <3> QED BY <2>6, <3>1, <3>2
    <2>10. \A m : m = n - 1 => SlotAt(m)' = SlotAt(n)
      <3>1. n - 1 \in 0..(BufferSize - 1) /\ (n - 1) + 1 = n
        BY <2>2, RingAssumption
      <3> QED BY <2>6, <3>1
    <2> HIDE DEF n
    <2> QED BY <2>1, <2>7, <2>8, <2>9, <2>10 DEF RingHolds
  <1>10. ASSUME NEW c \in Consumers, AdvanceRead(c)
         PROVE  RingHolds'
    <2>1. /\ pc[c] = "advance" /\ pc' = [pc EXCEPT ![c] = "unlock"] /\ c \in Threads
          /\ read_index' = Advance(read_index) /\ write_index' = write_index
          /\ UNCHANGED <<buffer, written, read>>
      BY <1>10 DEF AdvanceRead, Goto, Threads
    <2>2. \A u \in Threads \ {c} : pc[u] # "advance"
      BY <1>1, <2>1, Alone
    <2>3. Front' = Front /\ Back' = Back
      BY <1>1, <2>1, <2>2, RingAssumption DEF Front, Back, Threads, Advance
    <2> QED BY <1>2, <2>1, <2>3
  <1>11. ASSUME UNCHANGED vars
         PROVE  RingHolds'
    BY <1>2, <1>11 DEF vars, Front, Back, Advance
  <1>12. ASSUME NEW p \in Producers, Producer(p)
         PROVE  RingHolds'
    BY <1>4, <1>5, <1>7, <1>8, <1>12 DEF Producer, Threads
  <1>13. ASSUME NEW c \in Consumers, Consumer(c)
         PROVE  RingHolds'
    BY <1>4, <1>6, <1>9, <1>10, <1>13 DEF Consumer, Threads
  <1> QED BY <1>11, <1>12, <1>13 DEF Next, Terminated

(* Every reachable state of the ring satisfies the inductive invariant.     *)
THEOREM Inductive == Spec => []IndInv
  <1>1. IndInv /\ [Next]_vars => IndInv'
    BY TypedStep, LockStep, TokensStep, RingStep DEF IndInv
  <1> QED BY <1>1, InitInd, PTL DEF Spec
-----------------------------------------------------------------------------
(* Two sets of threads with no member in common are counted one by one.     *)
LEMMA ApartCounts ==
  ASSUME NEW S, NEW T, IsFiniteSet(S), IsFiniteSet(T), S \cap T = {}
  PROVE  /\ IsFiniteSet(S \cup T)
         /\ Cardinality(S \cup T) = Cardinality(S) + Cardinality(T)
  <1>1. Cardinality(S \cup T) = Cardinality(S) + Cardinality(T) - Cardinality(S \cap T)
    BY FS_Union
  <1>2. Cardinality(S \cap T) = 0
    BY FS_EmptySet
  <1>3. Cardinality(S) \in Nat /\ Cardinality(T) \in Nat
    BY FS_CardinalityType
  <1> QED BY <1>1, <1>2, <1>3, FS_Union

(* A thread with a token is on one side of its access.                      *)
LEMMA BetweenCounts ==
  ASSUME Typed
  PROVE  Cardinality(Between) = Cardinality(Storing) + Cardinality(Stored)
                                + Cardinality(Fetching) + Cardinality(Fetched)
  <1>1. Between = (Storing \cup Stored) \cup (Fetching \cup Fetched)
    BY DEF Typed, PCs, Between, Storing, Stored, Fetching, Fetched, Threads
  <1>2. /\ Storing \cap Stored = {} /\ Fetching \cap Fetched = {}
        /\ (Storing \cup Stored) \cap (Fetching \cup Fetched) = {}
    BY RingAssumption DEF Storing, Stored, Fetching, Fetched
  <1>3. /\ IsFiniteSet(Storing \cup Stored)
        /\ Cardinality(Storing \cup Stored) = Cardinality(Storing) + Cardinality(Stored)
    BY <1>2, SidesFinite, ApartCounts
  <1>4. /\ IsFiniteSet(Fetching \cup Fetched)
        /\ Cardinality(Fetching \cup Fetched) = Cardinality(Fetching) + Cardinality(Fetched)
    BY <1>2, SidesFinite, ApartCounts
  <1>5. Cardinality(Between) = Cardinality(Storing \cup Stored) + Cardinality(Fetching \cup Fetched)
    BY <1>1, <1>2, <1>3, <1>4, ApartCounts
  <1>6. /\ Cardinality(Storing) \in Nat /\ Cardinality(Stored) \in Nat
        /\ Cardinality(Fetching) \in Nat /\ Cardinality(Fetched) \in Nat
    BY SidesFinite
  <1> QED BY <1>3, <1>4, <1>5, <1>6

(* add_value and get_value neither create nor lose a slot of the ring, for any
   numbers of threads and rounds and any ring: the semaphores and the threads
   between their sem_wait and sem_post account for every slot, and indices,
   counters and items keep their types.                                     *)
THEOREM SlotsAreConserved == Spec => []SlotsConserved
  <1>1. IndInv => SlotsConserved
    <2> SUFFICES ASSUME IndInv PROVE SlotsConserved
      OBVIOUS
    <2>1. Typed /\ TokensBalance
      BY DEF IndInv
    <2>2. /\ empty_slots \in Nat /\ filled_slots \in Nat /\ BufferSize \in Nat
          /\ Len(written) \in Nat /\ Len(read) \in Nat
          /\ Cardinality(Storing) \in Nat /\ Cardinality(Stored) \in Nat
          /\ Cardinality(Fetching) \in Nat /\ Cardinality(Fetched) \in Nat
      BY <2>1, SidesFinite, RingAssumption DEF Typed
    <2>3. empty_slots + filled_slots
            + (Cardinality(Storing) + Cardinality(Stored)
               + Cardinality(Fetching) + Cardinality(Fetched)) = BufferSize
      <3>1. /\ Len(written) - Len(read)
                 = filled_slots + Cardinality(Stored) + Cardinality(Fetching)
            /\ Len(read) + BufferSize - Len(written)
                 = empty_slots + Cardinality(Storing) + Cardinality(Fetched)
        BY <2>1 DEF TokensBalance
      <3> DEFINE s == Cardinality(Storing)
                 t == Cardinality(Stored)
                 f == Cardinality(Fetching)
                 g == Cardinality(Fetched)
                 w == Len(written)
                 r == Len(read)
      <3>2. /\ s \in Nat /\ t \in Nat /\ f \in Nat /\ g \in Nat
            /\ w \in Nat /\ r \in Nat
            /\ empty_slots \in Nat /\ filled_slots \in Nat /\ BufferSize \in Nat
        BY <2>2
      <3>3. w - r = filled_slots + t + f /\ r + BufferSize - w = empty_slots + s + g
        BY <3>1
      <3> HIDE DEF s, t, f, g, w, r
      <3>4. empty_slots + filled_slots + (s + t + f + g) = BufferSize
        BY <3>2, <3>3
      <3> QED BY <3>4 DEF s, t, f, g
    <2>4. TokensConserved
      BY <2>1, <2>3, BetweenCounts DEF TokensConserved
    <2>5. empty_slots \in 0..BufferSize /\ filled_slots \in 0..BufferSize
      BY <2>2, <2>3
    <2>6. read \in Seq(Items \cup {None})
      BY <2>1 DEF Typed
    <2> QED BY <2>1, <2>4, <2>5, <2>6 DEF SlotsConserved, TypeOK, Typed
  <1> QED BY <1>1, Inductive, PTL

\* What is written and not read, as the refinement has it.
Unread == SubSeq(written, Len(read) + 1, Len(written))

\* The unread items one by one.
UnreadFacts ==
  /\ Unread \in Seq(Items)
  /\ Len(Unread) = Len(written) - Len(read)
  /\ \A k \in 1..(Len(written) - Len(read)) : Unread[k] = written[Len(read) + k]

(* The unread items are those that follow the ones that were read.          *)
LEMMA UnreadFits == IndInv => UnreadFacts
  <1> SUFFICES ASSUME IndInv PROVE UnreadFacts
    OBVIOUS
  <1>1. /\ written \in Seq(Items) /\ Len(written) \in Nat /\ Len(read) \in Nat
        /\ empty_slots \in Nat /\ filled_slots \in Nat
    BY DEF IndInv, Typed
  <1>2. Len(written) - Len(read) \in Nat
    BY <1>1, SidesFinite DEF IndInv, TokensBalance
  <1>3. \A k \in (Len(read) + 1)..Len(written) : written[k] \in Items
    BY <1>1
  <1>4. /\ Unread \in Seq(Items)
        /\ Len(Unread) = IF Len(read) + 1 <= Len(written)
                         THEN Len(written) - (Len(read) + 1) + 1 ELSE 0
        /\ \A k \in 1..(Len(written) - (Len(read) + 1) + 1) :
             Unread[k] = written[(Len(read) + 1) + k - 1]
    BY <1>1, <1>3, SubSeqProperties DEF Unread
  <1> QED BY <1>1, <1>2, <1>4 DEF UnreadFacts

(* The same of the next state.                                              *)
LEMMA UnreadFitsNext == IndInv' => UnreadFacts'
  BY UnreadFits, PTL

(* Storing an item puts it at the end of what is unread.                    *)
LEMMA StoreMaps ==
  ASSUME IndInv, IndInv', NEW p \in Producers, StoreItem(p)
  PROVE  Channel!Put(<<p, i[p]>>) /\ <<p, i[p]>> \in Items
  <1>1. /\ pc[p] = "access" /\ p \in Threads
        /\ written' = Append(written, <<p, i[p]>>) /\ read' = read
    BY DEF StoreItem, Goto, Threads
  <1>2. <<p, i[p]>> \in Items
    <2>1. i[p] < Rounds
      BY <1>1 DEF IndInv, RoundsLeft
    <2>2. i[p] \in 0..Rounds
      BY <1>1 DEF IndInv, Typed
    <2>3. i[p] \in 0..(Rounds - 1)
      BY <2>1, <2>2, RingAssumption
    <2> QED BY <2>3 DEF Items
  <1>3. Len(Unread) \in 0..(BufferSize - 1) /\ Len(Unread) = Len(written) - Len(read)
    BY <1>1, RoomToStore, UnreadFits DEF UnreadFacts
  <1>4. /\ written \in Seq(Items) /\ Len(written) \in Nat /\ Len(read) \in Nat
        /\ Len(written') = Len(written) + 1
        /\ \A k \in 1..Len(written) : written'[k] = written[k]
        /\ written'[Len(written) + 1] = <<p, i[p]>>
    BY <1>1, <1>2, AppendProperties DEF IndInv, Typed
  <1>5. /\ Unread' \in Seq(Items) /\ Len(Unread') = Len(Unread) + 1
        /\ \A k \in 1..(Len(Unread) + 1) : Unread'[k] = written'[Len(read) + k]
    <2>1. Len(written') - Len(read') = Len(Unread) + 1
      BY <1>1, <1>3, <1>4
    <2> HIDE DEF Unread
    <2> QED BY <1>1, <2>1, UnreadFitsNext DEF UnreadFacts
  <1>6. Unread' = Append(Unread, <<p, i[p]>>)
    <2>1. /\ Unread \in Seq(Items) /\ Append(Unread, <<p, i[p]>>) \in Seq(Items)
          /\ Len(Append(Unread, <<p, i[p]>>)) = Len(Unread) + 1
          /\ \A k \in 1..Len(Unread) : Append(Unread, <<p, i[p]>>)[k] = Unread[k]
          /\ Append(Unread, <<p, i[p]>>)[Len(Unread) + 1] = <<p, i[p]>>
      BY <1>2, UnreadFits, AppendProperties DEF UnreadFacts
    <2>2. \A k \in 1..(Len(Unread) + 1) : Unread'[k] = Append(Unread, <<p, i[p]>>)[k]
      <3> TAKE k \in 1..(Len(Unread) + 1)
      <3>1. CASE k \in 1..Len(Unread)
        <4>1. Len(read) + k \in 1..Len(written)
          BY <1>3, <1>4, <3>1
        <4> QED BY <1>3, <1>4, <1>5, <2>1, <3>1, <4>1, UnreadFits DEF UnreadFacts
      <3>2. CASE k = Len(Unread) + 1
        <4>1. Len(read) + k = Len(written) + 1
          BY <1>3, <1>4, <3>2
        <4> QED BY <1>4, <1>5, <2>1, <3>2, <4>1
      <3>3. k \in 1..Len(Unread) \/ k = Len(Unread) + 1
        BY <1>3
      <3> QED BY <3>1, <3>2, <3>3
    <2> QED BY <1>5, <2>1, <2>2, SeqEqual
  <1>7. Len(Unread) < BufferSize
    BY <1>3, RingAssumption
  <1> QED BY <1>1, <1>2, <1>6, <1>7 DEF Channel!Put, Unread

(* Fetching an item takes the oldest unread one.                            *)
LEMMA FetchMaps ==
  ASSUME IndInv, NEW c \in Consumers, FetchItem(c)
  PROVE  Channel!Get
  <1>1. /\ pc[c] = "access" /\ read' = Append(read, buffer[read_index]) /\ written' = written
    BY DEF FetchItem, Goto
  <1>2. /\ Len(written) - Len(read) \in 1..BufferSize
        /\ buffer[read_index] = written[Len(read) + 1] /\ buffer[read_index] \in Items
    BY <1>1, ItemToFetch
  <1>3. /\ written \in Seq(Items) /\ Len(written) \in Nat /\ Len(read) \in Nat
        /\ Len(read') = Len(read) + 1
    BY <1>1, <1>2 DEF IndInv, Typed
  <1>4. Len(read) + 1 \in 1..Len(written) /\ Len(written) \in (Len(read) + 1)..Len(written)
    BY <1>2, <1>3
  <1>5. /\ Head(Unread) = written[Len(read) + 1]
        /\ Tail(Unread) = SubSeq(written, Len(read) + 1 + 1, Len(written))
    BY <1>3, <1>4, HeadTailOfSubSeq DEF Unread
  <1>6. Unread' = Tail(Unread)
    BY <1>1, <1>3, <1>5 DEF Unread
  <1>7. Unread # <<>>
    BY <1>2, UnreadFits DEF UnreadFacts
  <1> QED BY <1>1, <1>2, <1>5, <1>6, <1>7 DEF Channel!Get, Unread

(* add_value and get_value implement a bounded FIFO channel: no item is lost,
   overwritten, read twice or read before it is there, whatever the numbers of
   threads, the size of the ring and the interleaving.                      *)
THEOREM RefinesChannel == Spec => ImplementsChannel
  <1>1. Init => Channel!Init
    <2> SUFFICES ASSUME Init PROVE Channel!Init
      OBVIOUS
    <2>1. written = <<>> /\ read = <<>> /\ Len(<<>>) = 0
      BY DEF Init
    <2>2. SubSeq(written, Len(read) + 1, Len(written)) = <<>>
      BY <2>1, SubSeqEmpty
    <2> QED BY <2>1, <2>2 DEF Channel!Init
  <1>2. IndInv /\ IndInv' /\ [Next]_vars => [Channel!Next]_Channel!channelVars
    <2> SUFFICES ASSUME IndInv, IndInv', [Next]_vars
                 PROVE  [Channel!Next]_Channel!channelVars
      OBVIOUS
    <2>1. ASSUME NEW p \in Producers, StoreItem(p)
          PROVE  Channel!Next
      BY <2>1, StoreMaps DEF Channel!Next
    <2>2. ASSUME NEW c \in Consumers, FetchItem(c)
          PROVE  Channel!Next
      BY <2>2, FetchMaps DEF Channel!Next
    <2>3. ASSUME UNCHANGED <<written, read>>
          PROVE  UNCHANGED Channel!channelVars
      BY <2>3 DEF Channel!channelVars
    <2>4. ASSUME NEW p \in Producers, Producer(p), ~StoreItem(p)
          PROVE  UNCHANGED <<written, read>>
      BY <2>4 DEF Producer, WaitEmpty, Acquire, AdvanceWrite, Release, PostFilled
    <2>5. ASSUME NEW c \in Consumers, Consumer(c), ~FetchItem(c)
          PROVE  UNCHANGED <<written, read>>
      BY <2>5 DEF Consumer, WaitFilled, Acquire, AdvanceRead, Release, PostEmpty
    <2>6. UNCHANGED vars => UNCHANGED <<written, read>>
      BY DEF vars
    <2> QED BY <2>1, <2>2, <2>3, <2>4, <2>5, <2>6 DEF Next, Terminated
  <1> QED BY <1>1, <1>2, Inductive, PTL DEF Spec, ImplementsChannel, Channel!Spec
-----------------------------------------------------------------------------
(* pthread/prod_cons.c *)

ViewPCs == {"unborn", "start", "lock", "add", "consume", "unlock", "post", "done"}
Known == Views!ToSet(Requests)

\* TypeOK without the bounds that the tokens give; and what each thread runs.
ViewsTyped ==
  /\ vLock \in Views!Threads \cup {None} /\ vItems \in Nat
  /\ vList \in [Views!Lists -> Seq(Known)] /\ vSize \in Int
  /\ vPc \in [Views!Threads -> ViewPCs]
  /\ vSpawned \in 0..2 * Len(Requests) /\ vFreed \in BOOLEAN
  /\ vTaken \in Seq(Known)
  /\ \A j \in Views!Pairs :
       /\ vPc[Views!Producer(j)] \in {"unborn", "start", "add", "unlock", "post", "done"}
       /\ vPc[Views!Consumer(j)] \in {"unborn", "start", "lock", "consume", "unlock", "done"}

\* Who is between lock and unlock holds the mutex; freed lists have no users.
ViewsHeld ==
  /\ \A t \in Views!Threads : vPc[t] \in {"add", "consume", "unlock"} <=> vLock = t
  /\ vFreed => Views!Joined

\* Producers whose view is in and about to be announced, or announced;
\* consumers with a token, and with a view.
Adding == {j \in Views!Pairs : vPc[Views!Producer(j)] \in {"unlock", "post"}}
Announced == {j \in Views!Pairs : vPc[Views!Producer(j)] = "done"}
Reaching == {j \in Views!Pairs : vPc[Views!Consumer(j)] \in {"lock", "consume"}}
Took == {j \in Views!Pairs : vPc[Views!Consumer(j)] \in {"unlock", "done"}}

\* Tokens are the views announced and not spoken for, views in the lists those
\* added and not taken.
ViewsBalance ==
  /\ vItems + Cardinality(Reaching) + Cardinality(Took) = Cardinality(Announced)
  /\ vSize + Cardinality(Took) = Cardinality(Announced) + Cardinality(Adding)
  /\ Views!SizeCounts

\* A request was added when its view is in its list or was taken from there,
\* and the lists hold nothing else.
ViewsPlaced ==
  /\ \A j \in Views!Pairs :
       vPc[Views!Producer(j)] \in {"unlock", "post", "done"}
         <=> Requests[j] \in Views!ToSet(vTaken) \cup Views!ToSet(vList[Views!Hash[Requests[j]]])
  /\ \A b \in Views!Lists : \A v \in Views!ToSet(vList[b]) : Views!Hash[v] = b
  /\ Views!TakenOnce

ViewsInd == ViewsTyped /\ ViewsHeld /\ ViewsBalance /\ ViewsPlaced

LEMMA RequestsKnown ==
  /\ Len(Requests) \in Nat /\ Views!Pairs = 1..Len(Requests)
  /\ \A j \in Views!Pairs : Requests[j] \in Known /\ Views!Hash[Requests[j]] \in Views!Lists
  /\ \A v \in Known : \E j \in Views!Pairs : v = Requests[j]
  /\ \A j, k \in Views!Pairs : Requests[j] = Requests[k] => j = k
  /\ None \notin Views!Threads
  <1>1. /\ Requests \in Seq(DOMAIN Views!Hash) /\ None \notin Views!Threads
        /\ \A j, k \in Views!Pairs : Requests[j] = Requests[k] => j = k
    BY ViewsAssumption DEF Views!RequestsAssumption
  <1>2. Len(Requests) \in Nat /\ Views!Pairs = 1..Len(Requests) /\ DOMAIN Requests = Views!Pairs
    BY <1>1 DEF Views!Pairs
  <1>3. \A v \in DOMAIN Views!Hash : Views!Hash[v] \in Views!Lists
    BY DEF Views!Hash, Views!Lists
  <1>4. \A j \in Views!Pairs : Requests[j] \in DOMAIN Views!Hash
    BY <1>1, <1>2
  <1>5. Known = {Requests[j] : j \in Views!Pairs}
    BY <1>2 DEF Known, Views!ToSet
  <1> QED BY <1>1, <1>2, <1>3, <1>4, <1>5

LEMMA ThreadNames ==
  /\ \A j \in Views!Pairs : Views!Producer(j) \in Views!Threads /\ Views!Consumer(j) \in Views!Threads
  /\ \A t \in Views!Threads : \E j \in Views!Pairs : t = Views!Producer(j) \/ t = Views!Consumer(j)
  /\ \A j, k \in Views!Pairs : Views!Producer(j) = Views!Producer(k) => j = k
  /\ \A j, k \in Views!Pairs : Views!Consumer(j) = Views!Consumer(k) => j = k
  /\ \A j, k \in Views!Pairs : Views!Producer(j) # Views!Consumer(k)
  BY DEF Views!Threads, Views!ProducerThreads, Views!ConsumerThreads, Views!Producer, Views!Consumer

LEMMA PairsFinite ==
  /\ IsFiniteSet(Views!Pairs) /\ Cardinality(Views!Pairs) = Len(Requests)
  /\ IsFiniteSet(Adding) /\ Cardinality(Adding) \in Nat
  /\ IsFiniteSet(Announced) /\ Cardinality(Announced) \in Nat
  /\ IsFiniteSet(Reaching) /\ Cardinality(Reaching) \in Nat
  /\ IsFiniteSet(Took) /\ Cardinality(Took) \in Nat
  <1>1. IsFiniteSet(Views!Pairs) /\ Cardinality(Views!Pairs) = Len(Requests)
    BY RequestsKnown, FS_Interval
  <1>2. /\ Adding \in SUBSET Views!Pairs /\ Announced \in SUBSET Views!Pairs
        /\ Reaching \in SUBSET Views!Pairs /\ Took \in SUBSET Views!Pairs
    BY DEF Adding, Announced, Reaching, Took
  <1>3. IsFiniteSet(Adding) /\ IsFiniteSet(Announced) /\ IsFiniteSet(Reaching) /\ IsFiniteSet(Took)
    BY <1>1, <1>2, FS_Subset
  <1> QED BY <1>1, <1>3, FS_CardinalityType

(* Appending to a list, and taking its head.                                *)
LEMMA AppendFacts ==
  ASSUME NEW S, NEW s \in Seq(S), NEW v \in S
  PROVE  /\ Append(s, v) \in Seq(S) /\ Len(Append(s, v)) = Len(s) + 1
         /\ Views!ToSet(Append(s, v)) = Views!ToSet(s) \cup {v}
         /\ Views!Different(s) /\ v \notin Views!ToSet(s) => Views!Different(Append(s, v))
  <1>1. /\ Append(s, v) \in Seq(S) /\ Len(Append(s, v)) = Len(s) + 1 /\ Len(s) \in Nat
        /\ \A j \in 1..Len(s) : Append(s, v)[j] = s[j]
        /\ Append(s, v)[Len(s) + 1] = v
    OBVIOUS
  <1>2. DOMAIN s = 1..Len(s) /\ DOMAIN Append(s, v) = 1..(Len(s) + 1)
    BY <1>1
  <1>3. Views!ToSet(Append(s, v)) = Views!ToSet(s) \cup {v}
    BY <1>1, <1>2 DEF Views!ToSet
  <1>4. Views!Different(s) /\ v \notin Views!ToSet(s) => Views!Different(Append(s, v))
    BY <1>1, <1>2 DEF Views!ToSet, Views!Different
  <1> QED BY <1>1, <1>3, <1>4

LEMMA TailFacts ==
  ASSUME NEW S, NEW s \in Seq(S), s # <<>>
  PROVE  /\ Tail(s) \in Seq(S) /\ Len(Tail(s)) = Len(s) - 1 /\ Head(s) \in S
         /\ Views!ToSet(s) = Views!ToSet(Tail(s)) \cup {Head(s)}
         /\ Views!Different(s) => /\ Views!Different(Tail(s))
                                  /\ Head(s) \notin Views!ToSet(Tail(s))
  <1>1. /\ Tail(s) \in Seq(S) /\ Len(Tail(s)) = Len(s) - 1 /\ Len(s) \in Nat \ {0}
        /\ \A j \in 1..(Len(s) - 1) : Tail(s)[j] = s[j + 1]
        /\ Head(s) = s[1] /\ s[1] \in S
    OBVIOUS
  <1>2. DOMAIN s = 1..Len(s) /\ DOMAIN Tail(s) = 1..(Len(s) - 1)
    BY <1>1
  <1>3. \A j \in 1..Len(s) : j = 1 \/ j - 1 \in 1..(Len(s) - 1)
    BY <1>1
  <1>4. Views!ToSet(s) = Views!ToSet(Tail(s)) \cup {Head(s)}
    <2>1. ASSUME NEW x \in Views!ToSet(s) PROVE x \in Views!ToSet(Tail(s)) \cup {Head(s)}
      <3>1. PICK j \in 1..Len(s) : x = s[j]
        BY <1>2 DEF Views!ToSet
      <3>2. CASE j = 1
        BY <1>1, <3>1, <3>2
      <3>3. CASE j # 1
        <4>1. j - 1 \in 1..(Len(s) - 1) /\ Tail(s)[j - 1] = s[j]
          <5>1. j - 1 \in 1..(Len(s) - 1) /\ (j - 1) + 1 = j
            BY <1>1, <3>3
          <5> QED BY <1>1, <5>1
        <4> QED BY <1>2, <3>1, <4>1 DEF Views!ToSet
      <3> QED BY <3>2, <3>3
    <2>2. ASSUME NEW x \in Views!ToSet(Tail(s)) PROVE x \in Views!ToSet(s)
      <3>1. PICK j \in 1..(Len(s) - 1) : x = Tail(s)[j]
        BY <1>2 DEF Views!ToSet
      <3>2. j + 1 \in 1..Len(s) /\ x = s[j + 1]
        BY <1>1, <3>1
      <3> QED BY <1>2, <3>2 DEF Views!ToSet
    <2>3. Head(s) \in Views!ToSet(s)
      BY <1>1, <1>2 DEF Views!ToSet
    <2> QED BY <2>1, <2>2, <2>3
  <1>5. ASSUME Views!Different(s)
        PROVE  Views!Different(Tail(s)) /\ Head(s) \notin Views!ToSet(Tail(s))
    <2>1. \A j \in 1..(Len(s) - 1) : j + 1 \in 1..Len(s) /\ j + 1 # 1
      BY <1>1
    <2>2. \A j \in 1..(Len(s) - 1) : Tail(s)[j] = s[j + 1] /\ s[j + 1] # s[1]
      BY <1>1, <1>2, <1>5, <2>1 DEF Views!Different
    <2>3. Head(s) \notin Views!ToSet(Tail(s))
      BY <1>1, <1>2, <2>2 DEF Views!ToSet
    <2>4. Views!Different(Tail(s))
      <3> SUFFICES ASSUME NEW j \in 1..(Len(s) - 1), NEW k \in 1..(Len(s) - 1), Tail(s)[j] = Tail(s)[k]
                   PROVE  j = k
        BY <1>2 DEF Views!Different
      <3>1. s[j + 1] = s[k + 1]
        BY <2>2
      <3>2. j + 1 = k + 1
        BY <1>2, <1>5, <2>1, <3>1 DEF Views!Different
      <3> QED BY <1>1, <3>2
    <2> QED BY <2>3, <2>4
  <1> QED BY <1>1, <1>4, <1>5

LEMMA ViewsInit == Views!Init => ViewsInd
  <1> SUFFICES ASSUME Views!Init PROVE ViewsInd
    OBVIOUS
  <1>1. /\ vLock = None /\ vItems = 0 /\ vList = [b \in Views!Lists |-> <<>>] /\ vSize = 0
        /\ vPc = [t \in Views!Threads |-> "unborn"]
        /\ vSpawned = 0 /\ vFreed = FALSE /\ vTaken = <<>>
    BY DEF Views!Init
  <1>2. \A t \in Views!Threads : vPc[t] = "unborn"
    BY <1>1
  <1>3. ViewsTyped
    <2>1. vPc \in [Views!Threads -> ViewPCs]
      BY <1>1 DEF ViewPCs
    <2>2. \A j \in Views!Pairs : vPc[Views!Producer(j)] = "unborn" /\ vPc[Views!Consumer(j)] = "unborn"
      BY <1>2, ThreadNames
    <2>3. vSpawned \in 0..2 * Len(Requests)
      BY <1>1, RequestsKnown
    <2>4. vList \in [Views!Lists -> Seq(Known)] /\ vTaken \in Seq(Known)
      BY <1>1
    <2>5. vLock = None /\ vItems \in Nat /\ vSize \in Int /\ vFreed \in BOOLEAN
      <3>1. vItems = 0 /\ vSize = 0
        BY <1>1, Zenon
      <3>2. vLock = None
        BY <1>1, Zenon
      <3>3. vFreed \in BOOLEAN
        BY <1>1, Zenon
      <3> QED BY <3>1, <3>2, <3>3
    <2> QED BY <2>1, <2>2, <2>3, <2>4, <2>5 DEF ViewsTyped
  <1>4. ViewsHeld
    BY <1>1, <1>2, RequestsKnown DEF ViewsHeld
  <1>5. ViewsBalance
    <2>1. Adding = {} /\ Announced = {} /\ Reaching = {} /\ Took = {}
      BY <1>2, ThreadNames DEF Adding, Announced, Reaching, Took
    <2>2. vList[0] = <<>> /\ vList[1] = <<>> /\ vList[2] = <<>> /\ vList[3] = <<>>
      BY <1>1 DEF Views!Lists
    <2>3. Len(vList[0]) = 0 /\ Len(vList[1]) = 0 /\ Len(vList[2]) = 0 /\ Len(vList[3]) = 0
      BY <2>2
    <2>4. Views!SizeCounts
      <3>1. Views!Stored = 0
        BY <2>3 DEF Views!Stored
      <3>2. vSize = 0
        BY <1>1
      <3> QED BY <3>1, <3>2 DEF Views!SizeCounts
    <2> QED BY <1>1, <2>1, <2>4, FS_EmptySet DEF ViewsBalance
  <1>6. ViewsPlaced
    <2>1. Views!ToSet(<<>>) = {} /\ Views!Different(<<>>)
      BY DEF Views!ToSet, Views!Different
    <2>2. \A b \in Views!Lists : vList[b] = <<>>
      BY <1>1
    <2> QED BY <1>1, <1>2, <2>1, <2>2, ThreadNames, RequestsKnown DEF ViewsPlaced, Views!TakenOnce
  <1> QED BY <1>3, <1>4, <1>5, <1>6 DEF ViewsInd

(* Every view in the lists is backed, and a consumer finds one.             *)
LEMMA ViewsFound ==
  ASSUME ViewsInd
  PROVE  Views!TokensBackViews /\ Views!ConsumerFindsView
  <1>1. Views!TokensBackViews
    <2>1. /\ Views!Cardinality(Adding) = Cardinality(Adding)
          /\ Views!Cardinality(Reaching) = Cardinality(Reaching)
      BY DEF Views!Cardinality, Cardinality
    <2>2. Views!Stored = vItems + Cardinality(Adding) + Cardinality(Reaching)
      <3>1. /\ vItems \in Nat /\ vSize \in Int
            /\ Cardinality(Adding) \in Nat /\ Cardinality(Reaching) \in Nat
            /\ Cardinality(Announced) \in Nat /\ Cardinality(Took) \in Nat
        BY PairsFinite DEF ViewsInd, ViewsTyped
      <3>2. /\ vItems + Cardinality(Reaching) + Cardinality(Took) = Cardinality(Announced)
            /\ vSize + Cardinality(Took) = Cardinality(Announced) + Cardinality(Adding)
        BY DEF ViewsInd, ViewsBalance
      <3>3. vSize = vItems + Cardinality(Adding) + Cardinality(Reaching)
        <4> DEFINE ad == Cardinality(Adding)
                   an == Cardinality(Announced)
                   re == Cardinality(Reaching)
                   to == Cardinality(Took)
        <4>1. ad \in Nat /\ an \in Nat /\ re \in Nat /\ to \in Nat /\ vItems \in Nat /\ vSize \in Int
          BY <3>1
        <4>2. vItems + re + to = an /\ vSize + to = an + ad
          BY <3>2
        <4> HIDE DEF ad, an, re, to
        <4>3. vSize = vItems + ad + re
          BY <4>1, <4>2
        <4> QED BY <4>3 DEF ad, re
      <3> QED BY <3>3 DEF ViewsInd, ViewsBalance, Views!SizeCounts
    <2> QED BY <2>1, <2>2 DEF Views!TokensBackViews, Adding, Reaching
  <1>2. ASSUME NEW t \in Views!ConsumerThreads, vPc[t] = "consume"
        PROVE  Views!Candidates # {}
    <2>1. PICK j \in Views!Pairs : t = Views!Consumer(j)
      BY DEF Views!ConsumerThreads
    <2>2. Reaching # {}
      BY <1>2, <2>1 DEF Reaching
    <2>3. Cardinality(Reaching) # 0
      BY <2>2, PairsFinite, FS_EmptySet
    <2>4. Views!Stored # 0
      <3>1. vItems \in Nat /\ Cardinality(Adding) \in Nat /\ Cardinality(Reaching) \in Nat
        BY PairsFinite DEF ViewsInd, ViewsTyped
      <3>2. Views!Stored = vItems + Cardinality(Adding) + Cardinality(Reaching)
        <4>1. /\ Views!Cardinality(Adding) = Cardinality(Adding)
              /\ Views!Cardinality(Reaching) = Cardinality(Reaching)
          BY DEF Views!Cardinality, Cardinality
        <4> QED BY <1>1, <4>1 DEF Views!TokensBackViews, Adding, Reaching
      <3> QED BY <2>3, <3>1, <3>2
    <2>5. \E b \in 0..3 : vList[b] # <<>>
      <3> SUFFICES ASSUME \A b \in 0..3 : vList[b] = <<>> PROVE FALSE
        OBVIOUS
      <3>1. Len(vList[0]) = 0 /\ Len(vList[1]) = 0 /\ Len(vList[2]) = 0 /\ Len(vList[3]) = 0
        OBVIOUS
      <3> QED BY <2>4, <3>1 DEF Views!Stored
    <2> QED BY <2>5 DEF Views!Candidates, Views!Lists
  <1> QED BY <1>1, <1>2 DEF Views!ConsumerFindsView

(* Where everybody is when one thread has moved.                            *)
LEMMA ProducerMoves ==
  ASSUME ViewsTyped, NEW j \in Views!Pairs, NEW to, vPc' = [vPc EXCEPT ![Views!Producer(j)] = to]
  PROVE  /\ vPc'[Views!Producer(j)] = to
         /\ \A k \in Views!Pairs : k # j => vPc'[Views!Producer(k)] = vPc[Views!Producer(k)]
         /\ \A k \in Views!Pairs : vPc'[Views!Consumer(k)] = vPc[Views!Consumer(k)]
         /\ \A t \in Views!Threads : t # Views!Producer(j) => vPc'[t] = vPc[t]
         /\ to \in ViewPCs => vPc' \in [Views!Threads -> ViewPCs]
  BY ThreadNames DEF ViewsTyped

LEMMA ConsumerMoves ==
  ASSUME ViewsTyped, NEW j \in Views!Pairs, NEW to, vPc' = [vPc EXCEPT ![Views!Consumer(j)] = to]
  PROVE  /\ vPc'[Views!Consumer(j)] = to
         /\ \A k \in Views!Pairs : k # j => vPc'[Views!Consumer(k)] = vPc[Views!Consumer(k)]
         /\ \A k \in Views!Pairs : vPc'[Views!Producer(k)] = vPc[Views!Producer(k)]
         /\ \A t \in Views!Threads : t # Views!Consumer(j) => vPc'[t] = vPc[t]
         /\ to \in ViewPCs => vPc' \in [Views!Threads -> ViewPCs]
  BY ThreadNames DEF ViewsTyped

(* A consumer takes the head of some list that is not empty.                *)
LEMMA TakenHead ==
  ASSUME ViewsInd, NEW j \in Views!Pairs, Views!consume_any(j)
  PROVE  /\ \E b \in Views!Lists :
              /\ vList[b] # <<>> /\ vList' = [vList EXCEPT ![b] = Tail(vList[b])]
              /\ vTaken' = Append(vTaken, Head(vList[b]))
         /\ vSize' = vSize - 1
         /\ UNCHANGED <<vLock, vItems, vSpawned, vFreed>>
         /\ vList' \in [Views!Lists -> Seq(Known)] /\ vTaken' \in Seq(Known)
  <1> DEFINE b == Views!Min(Views!Candidates)
  <1>1. Views!Candidates # {}
    <2>1. vPc[Views!Consumer(j)] = "consume" /\ Views!Consumer(j) \in Views!ConsumerThreads
      BY DEF Views!consume_any, Views!Goto, Views!ConsumerThreads
    <2> QED BY <2>1, ViewsFound DEF Views!ConsumerFindsView
  <1>2. /\ vList' = [vList EXCEPT ![b] = Tail(@)] /\ vSize' = vSize - 1
        /\ vTaken' = Append(vTaken, Head(vList[b]))
        /\ UNCHANGED <<vLock, vItems, vSpawned, vFreed>>
    BY <1>1 DEF Views!consume_any, Views!DropHead
  <1>3. b \in Views!Lists /\ vList[b] # <<>>
    <2>1. Views!Candidates \in SUBSET 0..3
      BY DEF Views!Candidates, Views!Lists
    <2>2. \E x \in Views!Candidates : \A y \in Views!Candidates : x <= y
      <3> DEFINE C == Views!Candidates
      <3>1. CASE 0 \in C
        BY <2>1, <3>1
      <3>2. CASE 0 \notin C /\ 1 \in C
        BY <2>1, <3>2
      <3>3. CASE 0 \notin C /\ 1 \notin C /\ 2 \in C
        BY <2>1, <3>3
      <3>4. CASE 0 \notin C /\ 1 \notin C /\ 2 \notin C
        <4>1. \A y \in C : y = 3
          BY <2>1, <3>4
        <4> QED BY <1>1, <4>1
      <3> QED BY <3>1, <3>2, <3>3, <3>4
    <2>3. b \in Views!Candidates
      BY <2>2 DEF Views!Min
    <2> QED BY <2>3 DEF Views!Candidates
  <1>4. /\ Tail(vList[b]) \in Seq(Known) /\ Head(vList[b]) \in Known
        /\ vList \in [Views!Lists -> Seq(Known)] /\ vTaken \in Seq(Known)
    BY <1>3, TailFacts DEF ViewsInd, ViewsTyped
  <1> HIDE DEF b
  <1>5. vTaken' \in Seq(Known)
    BY <1>2, <1>4
  <1>6. vList' \in [Views!Lists -> Seq(Known)]
    BY <1>2, <1>4
  <1> QED BY <1>2, <1>3, <1>5, <1>6

(* What threads do at the lists keeps its types, and the mutex its holder.  *)
LEMMA ViewsTypedStep ==
  ASSUME ViewsInd, [Views!Next]_(Views!vars)
  PROVE  ViewsTyped' /\ ViewsHeld'
  <1>a. ViewsTyped /\ ViewsHeld
    BY DEF ViewsInd
  <1>b. None \notin Views!Threads
    BY RequestsKnown
  <1>c. /\ vLock \in Views!Threads \cup {None} /\ vItems \in Nat
        /\ vList \in [Views!Lists -> Seq(Known)] /\ vSize \in Int
        /\ vSpawned \in 0..2 * Len(Requests) /\ vFreed \in BOOLEAN /\ vTaken \in Seq(Known)
    BY <1>a DEF ViewsTyped
  \* What is left to show of a step of a producer, and of a consumer.
  <1> DEFINE Values == /\ vLock' \in Views!Threads \cup {None} /\ vItems' \in Nat
                       /\ vList' \in [Views!Lists -> Seq(Known)] /\ vSize' \in Int
                       /\ vSpawned' \in 0..2 * Len(Requests) /\ vFreed' \in BOOLEAN
                       /\ vTaken' \in Seq(Known)
  <1>p. ASSUME NEW j \in Views!Pairs, NEW to \in {"start", "add", "unlock", "post", "done"},
               vPc' = [vPc EXCEPT ![Views!Producer(j)] = to], Values
        PROVE  ViewsTyped'
    <2>1. to \in ViewPCs
      BY DEF ViewPCs
    <2>2. vPc' \in [Views!Threads -> ViewPCs]
      BY <1>a, <1>p, <2>1, ProducerMoves
    <2>3. ASSUME NEW k \in Views!Pairs
          PROVE  /\ vPc'[Views!Producer(k)] \in {"unborn", "start", "add", "unlock", "post", "done"}
                 /\ vPc'[Views!Consumer(k)] \in {"unborn", "start", "lock", "consume", "unlock", "done"}
      BY <1>a, <1>p, ProducerMoves DEF ViewsTyped
    <2> QED BY <1>p, <2>2, <2>3 DEF ViewsTyped
  <1>q. ASSUME NEW j \in Views!Pairs, NEW to \in {"start", "lock", "consume", "unlock", "done"},
               vPc' = [vPc EXCEPT ![Views!Consumer(j)] = to], Values
        PROVE  ViewsTyped'
    <2>1. to \in ViewPCs
      BY DEF ViewPCs
    <2>2. vPc' \in [Views!Threads -> ViewPCs]
      BY <1>a, <1>q, <2>1, ConsumerMoves
    <2>3. ASSUME NEW k \in Views!Pairs
          PROVE  /\ vPc'[Views!Producer(k)] \in {"unborn", "start", "add", "unlock", "post", "done"}
                 /\ vPc'[Views!Consumer(k)] \in {"unborn", "start", "lock", "consume", "unlock", "done"}
      BY <1>a, <1>q, ConsumerMoves DEF ViewsTyped
    <2> QED BY <1>q, <2>2, <2>3 DEF ViewsTyped
  \* A thread that is not done keeps the lists from being freed.
  <1>r. ASSUME NEW t \in Views!Threads, vPc[t] # "done", vFreed' = vFreed,
               NEW to, vPc' = [vPc EXCEPT ![t] = to],
               \/ /\ vLock' = vLock
                  /\ vPc[t] \in {"add", "consume", "unlock"} <=> to \in {"add", "consume", "unlock"}
               \/ vLock = None /\ vLock' = t /\ to \in {"add", "consume", "unlock"}
               \/ vLock = t /\ vLock' = None /\ to \notin {"add", "consume", "unlock"}
        PROVE  ViewsHeld'
    <2>1. ~vFreed
      BY <1>a, <1>r DEF ViewsHeld, Views!Joined
    <2>2. \A u \in Views!Threads : vPc'[u] = IF u = t THEN to ELSE vPc[u]
      BY <1>a, <1>r DEF ViewsTyped
    <2>3. \A u \in Views!Threads : vPc'[u] \in {"add", "consume", "unlock"} <=> vLock' = u
      BY <1>a, <1>b, <1>r, <2>2 DEF ViewsHeld
    <2> QED BY <1>r, <2>1, <2>3 DEF ViewsHeld
  <1> HIDE DEF Values
  <1> USE DEF Views!Goto, Views!Lock, Views!Unlock
  <1>1. CASE Views!Spawn
    <2>1. /\ vSpawned < 2 * Len(Requests) /\ vSpawned' = vSpawned + 1
          /\ vPc[Views!NextThread] = "unborn" /\ vPc' = [vPc EXCEPT ![Views!NextThread] = "start"]
          /\ UNCHANGED <<vLock, vItems, vList, vSize, vFreed, vTaken>>
      BY <1>1 DEF Views!Spawn
    <2>2. Values
      BY <1>c, <2>1, RequestsKnown DEF Values
    <2>3. CASE Views!NextThread \in Views!Threads
      <3>1. ViewsHeld'
        BY <1>r, <2>1, <2>3
      <3>2. PICK j \in Views!Pairs : Views!NextThread \in {Views!Producer(j), Views!Consumer(j)}
        BY <2>3, ThreadNames
      <3>3. ViewsTyped'
        BY <1>p, <1>q, <2>1, <2>2, <3>2
      <3> QED BY <3>1, <3>3
    <2>4. CASE Views!NextThread \notin Views!Threads
      <3>1. vPc' = vPc
        BY <1>a, <2>1, <2>4 DEF ViewsTyped
      <3> QED BY <1>a, <2>1, <2>2, <3>1 DEF ViewsTyped, ViewsHeld, Values, Views!Joined
    <2> QED BY <2>3, <2>4
  <1>2. CASE Views!end_process
    <2>1. Views!Joined /\ vFreed' = TRUE
          /\ UNCHANGED <<vLock, vItems, vList, vSize, vPc, vSpawned, vTaken>>
      BY <1>2 DEF Views!end_process
    <2>2. ViewsTyped'
      BY <1>a, <2>1 DEF ViewsTyped
    <2>3. ViewsHeld'
      BY <1>a, <2>1 DEF ViewsHeld, Views!Joined
    <2> QED BY <2>2, <2>3
  <1>3. CASE UNCHANGED Views!vars
    <2>1. UNCHANGED <<vLock, vItems, vList, vSize, vPc, vSpawned, vFreed, vTaken>>
      BY <1>3 DEF Views!vars
    <2> QED BY <1>a, <2>1 DEF ViewsTyped, ViewsHeld, Views!Joined
  <1>4. ASSUME NEW j \in Views!Pairs, Views!add_view(j)
        PROVE  ViewsTyped' /\ ViewsHeld'
    <2> DEFINE t == Views!Producer(j)
    <2>t. t \in Views!Threads
      BY ThreadNames
    <2>1. CASE Views!LockLists(t, "start", "add")
      <3>1. Values
        BY <1>c, <2>1, <2>t DEF Views!LockLists, Values
      <3> QED BY <1>p, <1>r, <2>1, <2>t, <3>1 DEF Views!LockLists
    <2>2. CASE Views!UnlockLists(t, "unlock", "post")
      <3>1. Values
        BY <1>c, <2>2, <2>t DEF Views!UnlockLists, Values
      <3> QED BY <1>p, <1>r, <2>2, <2>t, <3>1 DEF Views!UnlockLists
    <2>3. CASE Views!PostToken(j)
      <3>1. Values
        BY <1>c, <2>3 DEF Views!PostToken, Views!SemPost, Values
      <3> QED BY <1>p, <1>r, <2>3, <2>t, <3>1 DEF Views!PostToken
    <2>4. CASE Views!AppendView(j)
      <3>1. /\ vList' = [vList EXCEPT ![Views!Hash[Requests[j]]] = Append(@, Requests[j])]
            /\ vSize' = vSize + 1
            /\ UNCHANGED <<vLock, vItems, vSpawned, vFreed, vTaken>>
        BY <2>4 DEF Views!AppendView
      <3>2. Requests[j] \in Known /\ Views!Hash[Requests[j]] \in Views!Lists
        BY RequestsKnown
      <3>3. Append(vList[Views!Hash[Requests[j]]], Requests[j]) \in Seq(Known)
        BY <1>c, <3>2, AppendFacts
      <3>4. Values
        BY <1>c, <3>1, <3>2, <3>3 DEF Values
      <3> QED BY <1>p, <1>r, <2>4, <2>t, <3>4 DEF Views!AppendView
    <2> QED BY <1>4, <2>1, <2>2, <2>3, <2>4 DEF Views!add_view
  <1>5. ASSUME NEW j \in Views!Pairs, Views!consumer_process(j)
        PROVE  ViewsTyped' /\ ViewsHeld'
    <2> DEFINE t == Views!Consumer(j)
    <2>t. t \in Views!Threads
      BY ThreadNames
    <2>1. CASE Views!LockLists(t, "lock", "consume")
      <3>1. Values
        BY <1>c, <2>1, <2>t DEF Views!LockLists, Values
      <3> QED BY <1>q, <1>r, <2>1, <2>t, <3>1 DEF Views!LockLists
    <2>2. CASE Views!UnlockLists(t, "unlock", "done")
      <3>1. Values
        BY <1>c, <2>2, <2>t DEF Views!UnlockLists, Values
      <3> QED BY <1>q, <1>r, <2>2, <2>t, <3>1 DEF Views!UnlockLists
    <2>3. CASE Views!WaitToken(j)
      <3>1. Values
        BY <1>c, <2>3 DEF Views!WaitToken, Views!TakeToken, Views!SemWait, Values
      <3> QED BY <1>q, <1>r, <2>3, <2>t, <3>1 DEF Views!WaitToken
    <2>4. CASE Views!consume_any(j)
      <3>1. Values
        BY <1>c, <2>4, TakenHead DEF Values
      <3>2. vFreed' = vFreed /\ vLock' = vLock
        BY <2>4 DEF Views!consume_any
      <3> QED BY <1>q, <1>r, <2>4, <2>t, <3>1, <3>2 DEF Views!consume_any
    <2> QED BY <1>5, <2>1, <2>2, <2>3, <2>4 DEF Views!consumer_process
  <1> QED BY <1>1, <1>2, <1>3, <1>4, <1>5 DEF Views!Next, Views!Terminated

(* One list grows or shrinks, and the sum with it.                          *)
LEMMA StoredChanges ==
  ASSUME ViewsTyped, NEW b \in Views!Lists, NEW q \in Seq(Known), vList' = [vList EXCEPT ![b] = q]
  PROVE  /\ Views!Stored \in Int
         /\ Views!Stored' = Views!Stored + Len(q) - Len(vList[b])
  <1>1. b \in {0, 1, 2, 3} /\ vList \in [{0, 1, 2, 3} -> Seq(Known)]
    BY DEF Views!Lists, ViewsTyped
  <1>2. \A c \in {0, 1, 2, 3} : vList'[c] = IF c = b THEN q ELSE vList[c]
    BY <1>1
  <1>3. /\ Len(vList[0]) \in Nat /\ Len(vList[1]) \in Nat /\ Len(vList[2]) \in Nat
        /\ Len(vList[3]) \in Nat /\ Len(q) \in Nat
    BY <1>1
  <1> DEFINE a0 == Len(vList[0])
             a1 == Len(vList[1])
             a2 == Len(vList[2])
             a3 == Len(vList[3])
             new == Len(q)
  <1>4. Views!Stored = a0 + a1 + a2 + a3
    BY DEF Views!Stored
  <1>5. Views!Stored' = (IF b = 0 THEN new ELSE a0) + (IF b = 1 THEN new ELSE a1)
                        + (IF b = 2 THEN new ELSE a2) + (IF b = 3 THEN new ELSE a3)
    <2>1. /\ Len(vList'[0]) = IF b = 0 THEN new ELSE a0
          /\ Len(vList'[1]) = IF b = 1 THEN new ELSE a1
          /\ Len(vList'[2]) = IF b = 2 THEN new ELSE a2
          /\ Len(vList'[3]) = IF b = 3 THEN new ELSE a3
      BY <1>2
    <2> HIDE DEF a0, a1, a2, a3, new
    <2> QED BY <2>1 DEF Views!Stored
  <1>6. Len(vList[b]) = IF b = 0 THEN a0 ELSE IF b = 1 THEN a1 ELSE IF b = 2 THEN a2 ELSE a3
    BY <1>1
  <1>7. a0 \in Nat /\ a1 \in Nat /\ a2 \in Nat /\ a3 \in Nat /\ new \in Nat
    BY <1>3
  <1> HIDE DEF a0, a1, a2, a3, new
  <1>8. Views!Stored' = Views!Stored + new - Len(vList[b]) /\ Views!Stored \in Int
    BY <1>1, <1>4, <1>5, <1>6, <1>7
  <1> QED BY <1>8 DEF new

(* The balance is a matter of the counts.                                   *)
LEMMA BalanceKept ==
  ASSUME ViewsInd, UNCHANGED <<vItems, vSize, vList>>,
         Adding' = Adding, Announced' = Announced, Reaching' = Reaching, Took' = Took
  PROVE  ViewsBalance'
  BY DEF ViewsInd, ViewsBalance, Views!SizeCounts, Views!Stored

LEMMA SidesKept ==
  /\ (\A k \in Views!Pairs : vPc'[Views!Producer(k)] = vPc[Views!Producer(k)])
       => Adding' = Adding /\ Announced' = Announced
  /\ (\A k \in Views!Pairs : vPc'[Views!Consumer(k)] = vPc[Views!Consumer(k)])
       => Reaching' = Reaching /\ Took' = Took
  BY DEF Adding, Announced, Reaching, Took, Views!Pairs

(* A view comes with a token and goes with one.                             *)
LEMMA ViewsBalanceStep ==
  ASSUME ViewsInd, [Views!Next]_(Views!vars)
  PROVE  ViewsBalance'
  <1>a. ViewsTyped /\ ViewsHeld /\ ViewsBalance
    BY DEF ViewsInd
  <1>n. /\ vItems \in Nat /\ vSize \in Int
        /\ IsFiniteSet(Adding) /\ Cardinality(Adding) \in Nat
        /\ IsFiniteSet(Announced) /\ Cardinality(Announced) \in Nat
        /\ IsFiniteSet(Reaching) /\ Cardinality(Reaching) \in Nat
        /\ IsFiniteSet(Took) /\ Cardinality(Took) \in Nat
    BY <1>a, PairsFinite DEF ViewsTyped
  <1>e. /\ vItems + Cardinality(Reaching) + Cardinality(Took) = Cardinality(Announced)
        /\ vSize + Cardinality(Took) = Cardinality(Announced) + Cardinality(Adding)
        /\ vSize = Views!Stored
    BY <1>a DEF ViewsBalance, Views!SizeCounts
  <1> DEFINE ad == Cardinality(Adding)
             an == Cardinality(Announced)
             re == Cardinality(Reaching)
             to == Cardinality(Took)
  <1> USE DEF Views!Goto
  <1>1. CASE Views!Spawn
    <2>1. /\ vPc[Views!NextThread] = "unborn" /\ vPc' = [vPc EXCEPT ![Views!NextThread] = "start"]
          /\ UNCHANGED <<vItems, vList, vSize>>
      BY <1>1 DEF Views!Spawn
    <2>2. \A t \in Views!Threads : vPc'[t] = IF t = Views!NextThread THEN "start" ELSE vPc[t]
      BY <1>a, <2>1 DEF ViewsTyped
    <2>3. /\ Adding' = Adding /\ Announced' = Announced
          /\ Reaching' = Reaching /\ Took' = Took
      BY <2>1, <2>2, ThreadNames DEF Adding, Announced, Reaching, Took, Views!Pairs
    <2> QED BY <2>1, <2>3, BalanceKept
  <1>2. CASE Views!end_process \/ UNCHANGED Views!vars
    <2>1. UNCHANGED <<vItems, vSize, vList, vPc>>
      BY <1>2 DEF Views!end_process, Views!vars
    <2>2. /\ Adding' = Adding /\ Announced' = Announced
          /\ Reaching' = Reaching /\ Took' = Took
      BY <2>1, SidesKept
    <2> QED BY <2>1, <2>2, BalanceKept
  <1>3. ASSUME NEW j \in Views!Pairs, NEW from, NEW goal,
               Views!LockLists(Views!Producer(j), from, goal) \/ Views!UnlockLists(Views!Producer(j), from, goal),
               <<from, goal>> \in {<<"start", "add">>, <<"unlock", "post">>}
        PROVE  ViewsBalance'
    <2>1. /\ vPc[Views!Producer(j)] = from /\ vPc' = [vPc EXCEPT ![Views!Producer(j)] = goal]
          /\ UNCHANGED <<vItems, vList, vSize>>
      BY <1>3 DEF Views!LockLists, Views!UnlockLists
    <2>2. /\ vPc'[Views!Producer(j)] = goal
          /\ \A k \in Views!Pairs : k # j => vPc'[Views!Producer(k)] = vPc[Views!Producer(k)]
          /\ \A k \in Views!Pairs : vPc'[Views!Consumer(k)] = vPc[Views!Consumer(k)]
      BY <1>a, <2>1, ProducerMoves
    <2>3. Adding' = Adding /\ Announced' = Announced
      BY <1>3, <2>1, <2>2 DEF Adding, Announced, Views!Pairs
    <2> QED BY <2>1, <2>2, <2>3, SidesKept, BalanceKept
  <1>4. ASSUME NEW j \in Views!Pairs, NEW from, NEW goal,
               Views!LockLists(Views!Consumer(j), from, goal) \/ Views!UnlockLists(Views!Consumer(j), from, goal),
               <<from, goal>> \in {<<"lock", "consume">>, <<"unlock", "done">>}
        PROVE  ViewsBalance'
    <2>1. /\ vPc[Views!Consumer(j)] = from /\ vPc' = [vPc EXCEPT ![Views!Consumer(j)] = goal]
          /\ UNCHANGED <<vItems, vList, vSize>>
      BY <1>4 DEF Views!LockLists, Views!UnlockLists
    <2>2. /\ vPc'[Views!Consumer(j)] = goal
          /\ \A k \in Views!Pairs : k # j => vPc'[Views!Consumer(k)] = vPc[Views!Consumer(k)]
          /\ \A k \in Views!Pairs : vPc'[Views!Producer(k)] = vPc[Views!Producer(k)]
      BY <1>a, <2>1, ConsumerMoves
    <2>3. Reaching' = Reaching /\ Took' = Took
      BY <1>4, <2>1, <2>2 DEF Reaching, Took, Views!Pairs
    <2> QED BY <2>1, <2>2, <2>3, SidesKept, BalanceKept
  <1>5. ASSUME NEW j \in Views!Pairs, Views!AppendView(j)
        PROVE  ViewsBalance'
    <2> DEFINE b == Views!Hash[Requests[j]]
    <2>1. /\ vPc[Views!Producer(j)] = "add" /\ vPc' = [vPc EXCEPT ![Views!Producer(j)] = "unlock"]
          /\ vList' = [vList EXCEPT ![b] = Append(vList[b], Requests[j])]
          /\ vSize' = vSize + 1 /\ vItems' = vItems
      BY <1>5 DEF Views!AppendView
    <2>2. /\ vPc'[Views!Producer(j)] = "unlock"
          /\ \A k \in Views!Pairs : k # j => vPc'[Views!Producer(k)] = vPc[Views!Producer(k)]
          /\ \A k \in Views!Pairs : vPc'[Views!Consumer(k)] = vPc[Views!Consumer(k)]
      BY <1>a, <2>1, ProducerMoves
    <2>3. Adding' = Adding \cup {j} /\ j \notin Adding /\ Announced' = Announced
      BY <2>1, <2>2 DEF Adding, Announced, Views!Pairs
    <2>4. Reaching' = Reaching /\ Took' = Took
      BY <2>2, SidesKept
    <2>5. Cardinality(Adding') = ad + 1
      BY <1>n, <2>3, FS_AddElement
    <2>6. Views!Stored' = Views!Stored + 1
      <3>1. b \in Views!Lists /\ vList[b] \in Seq(Known) /\ Requests[j] \in Known
        BY <1>a, RequestsKnown DEF ViewsTyped
      <3> HIDE DEF b
      <3>2. /\ Append(vList[b], Requests[j]) \in Seq(Known)
            /\ Len(Append(vList[b], Requests[j])) = Len(vList[b]) + 1 /\ Len(vList[b]) \in Nat
        BY <3>1, AppendFacts
      <3>3. /\ Views!Stored \in Int
            /\ Views!Stored' = Views!Stored + Len(Append(vList[b], Requests[j])) - Len(vList[b])
        BY <1>a, <2>1, <3>1, <3>2, StoredChanges
      <3> DEFINE len == Len(vList[b])
                 more == Len(Append(vList[b], Requests[j]))
      <3>4. len \in Nat /\ more = len + 1 /\ Views!Stored' = Views!Stored + more - len
        BY <3>2, <3>3
      <3>5. Views!Stored \in Int
        BY <3>3
      <3> HIDE DEF len, more
      <3> QED BY <3>4, <3>5
    <2>7. vItems' + Cardinality(Reaching') + Cardinality(Took') = Cardinality(Announced')
      BY <1>e, <2>1, <2>3, <2>4
    <2>8. vSize' + Cardinality(Took') = Cardinality(Announced') + Cardinality(Adding')
      <3>1. vSize + to = an + ad /\ to \in Nat /\ an \in Nat /\ ad \in Nat
        BY <1>e, <1>n
      <3>2. vSize' + to = an + (ad + 1)
        <4> HIDE DEF to, an, ad
        <4> QED BY <1>n, <2>1, <3>1
      <3> QED BY <2>3, <2>4, <2>5, <3>2
    <2>9. vSize' = Views!Stored'
      BY <1>e, <2>1, <2>6
    <2> QED BY <2>7, <2>8, <2>9 DEF ViewsBalance, Views!SizeCounts
  <1>6. ASSUME NEW j \in Views!Pairs, Views!PostToken(j)
        PROVE  ViewsBalance'
    <2>1. /\ vPc[Views!Producer(j)] = "post" /\ vPc' = [vPc EXCEPT ![Views!Producer(j)] = "done"]
          /\ vItems' = vItems + 1 /\ UNCHANGED <<vList, vSize>>
      BY <1>6 DEF Views!PostToken, Views!SemPost
    <2>2. /\ vPc'[Views!Producer(j)] = "done"
          /\ \A k \in Views!Pairs : k # j => vPc'[Views!Producer(k)] = vPc[Views!Producer(k)]
          /\ \A k \in Views!Pairs : vPc'[Views!Consumer(k)] = vPc[Views!Consumer(k)]
      BY <1>a, <2>1, ProducerMoves
    <2>3. /\ Adding' = Adding \ {j} /\ j \in Adding
          /\ Announced' = Announced \cup {j} /\ j \notin Announced
      BY <2>1, <2>2 DEF Adding, Announced, Views!Pairs
    <2>4. Reaching' = Reaching /\ Took' = Took
      BY <2>2, SidesKept
    <2>5. Cardinality(Adding') = ad - 1 /\ Cardinality(Announced') = an + 1
      BY <1>n, <2>3, FS_AddElement, FS_RemoveElement
    <2>6. /\ vItems' + re + to = an + 1 /\ vSize' + to = (an + 1) + (ad - 1)
      <3>1. vItems + re + to = an /\ vSize + to = an + ad
        BY <1>e
      <3>2. to \in Nat /\ an \in Nat /\ ad \in Nat /\ re \in Nat
        BY <1>n
      <3> HIDE DEF to, an, ad, re
      <3> QED BY <1>n, <2>1, <3>1, <3>2
    <2>7. /\ vItems' + Cardinality(Reaching') + Cardinality(Took') = Cardinality(Announced')
          /\ vSize' + Cardinality(Took') = Cardinality(Announced') + Cardinality(Adding')
      BY <2>4, <2>5, <2>6
    <2>8. vSize' = Views!Stored'
      BY <1>e, <2>1 DEF Views!Stored
    <2> QED BY <2>7, <2>8 DEF ViewsBalance, Views!SizeCounts
  <1>7. ASSUME NEW j \in Views!Pairs, Views!WaitToken(j)
        PROVE  ViewsBalance'
    <2>1. /\ vPc[Views!Consumer(j)] = "start" /\ vPc' = [vPc EXCEPT ![Views!Consumer(j)] = "lock"]
          /\ vItems' = vItems - 1 /\ UNCHANGED <<vList, vSize>>
      BY <1>7 DEF Views!WaitToken, Views!TakeToken, Views!SemWait
    <2>2. /\ vPc'[Views!Consumer(j)] = "lock"
          /\ \A k \in Views!Pairs : k # j => vPc'[Views!Consumer(k)] = vPc[Views!Consumer(k)]
          /\ \A k \in Views!Pairs : vPc'[Views!Producer(k)] = vPc[Views!Producer(k)]
      BY <1>a, <2>1, ConsumerMoves
    <2>3. Reaching' = Reaching \cup {j} /\ j \notin Reaching /\ Took' = Took
      BY <2>1, <2>2 DEF Reaching, Took, Views!Pairs
    <2>4. Adding' = Adding /\ Announced' = Announced
      BY <2>2, SidesKept
    <2>5. Cardinality(Reaching') = re + 1
      BY <1>n, <2>3, FS_AddElement
    <2>6. vItems' + (re + 1) + to = an /\ vSize' + to = an + ad
      <3>1. vItems + re + to = an /\ vSize + to = an + ad
        BY <1>e
      <3>2. to \in Nat /\ an \in Nat /\ ad \in Nat /\ re \in Nat
        BY <1>n
      <3> HIDE DEF to, an, ad, re
      <3> QED BY <1>n, <2>1, <3>1, <3>2
    <2>7. /\ vItems' + Cardinality(Reaching') + Cardinality(Took') = Cardinality(Announced')
          /\ vSize' + Cardinality(Took') = Cardinality(Announced') + Cardinality(Adding')
      BY <2>3, <2>4, <2>5, <2>6
    <2>8. vSize' = Views!Stored'
      BY <1>e, <2>1 DEF Views!Stored
    <2> QED BY <2>7, <2>8 DEF ViewsBalance, Views!SizeCounts
  <1>8. ASSUME NEW j \in Views!Pairs, Views!consume_any(j)
        PROVE  ViewsBalance'
    <2>1. /\ vPc[Views!Consumer(j)] = "consume" /\ vPc' = [vPc EXCEPT ![Views!Consumer(j)] = "unlock"]
      BY <1>8 DEF Views!consume_any
    <2>2. /\ vPc'[Views!Consumer(j)] = "unlock"
          /\ \A k \in Views!Pairs : k # j => vPc'[Views!Consumer(k)] = vPc[Views!Consumer(k)]
          /\ \A k \in Views!Pairs : vPc'[Views!Producer(k)] = vPc[Views!Producer(k)]
      BY <1>a, <2>1, ConsumerMoves
    <2>3. /\ Reaching' = Reaching \ {j} /\ j \in Reaching
          /\ Took' = Took \cup {j} /\ j \notin Took
      BY <2>1, <2>2 DEF Reaching, Took, Views!Pairs
    <2>4. Adding' = Adding /\ Announced' = Announced
      BY <2>2, SidesKept
    <2>5. Cardinality(Reaching') = re - 1 /\ Cardinality(Took') = to + 1
      BY <1>n, <2>3, FS_AddElement, FS_RemoveElement
    <2>a. PICK b \in Views!Lists : vList[b] # <<>> /\ vList' = [vList EXCEPT ![b] = Tail(vList[b])]
      BY <1>8, TakenHead
    <2>b. vSize' = vSize - 1 /\ vItems' = vItems
      BY <1>8, TakenHead
    <2>6. Views!Stored' = Views!Stored - 1
      <3>1. vList[b] \in Seq(Known)
        BY <1>a DEF ViewsTyped
      <3>2. /\ Tail(vList[b]) \in Seq(Known)
            /\ Len(Tail(vList[b])) = Len(vList[b]) - 1 /\ Len(vList[b]) \in Nat
        BY <2>a, <3>1, TailFacts
      <3>3. /\ Views!Stored \in Int
            /\ Views!Stored' = Views!Stored + Len(Tail(vList[b])) - Len(vList[b])
        BY <1>a, <2>a, <3>2, StoredChanges
      <3> DEFINE len == Len(vList[b])
                 less == Len(Tail(vList[b]))
      <3>4. len \in Nat /\ less = len - 1 /\ Views!Stored' = Views!Stored + less - len
        BY <3>2, <3>3
      <3>5. Views!Stored \in Int
        BY <3>3
      <3> HIDE DEF len, less
      <3> QED BY <3>4, <3>5
    <2>7. vItems' + (re - 1) + (to + 1) = an /\ vSize' + (to + 1) = an + ad
      <3>1. vItems + re + to = an /\ vSize + to = an + ad
        BY <1>e
      <3>2. to \in Nat /\ an \in Nat /\ ad \in Nat /\ re \in Nat
        BY <1>n
      <3> HIDE DEF to, an, ad, re
      <3> QED BY <1>n, <2>b, <3>1, <3>2
    <2>8. /\ vItems' + Cardinality(Reaching') + Cardinality(Took') = Cardinality(Announced')
          /\ vSize' + Cardinality(Took') = Cardinality(Announced') + Cardinality(Adding')
      BY <2>4, <2>5, <2>7
    <2>9. vSize' = Views!Stored'
      BY <1>e, <2>b, <2>6
    <2> QED BY <2>8, <2>9 DEF ViewsBalance, Views!SizeCounts
  <1>9. ASSUME NEW j \in Views!Pairs, Views!add_view(j)
        PROVE  ViewsBalance'
    BY <1>3, <1>5, <1>6, <1>9 DEF Views!add_view
  <1>10. ASSUME NEW j \in Views!Pairs, Views!consumer_process(j)
         PROVE  ViewsBalance'
    BY <1>4, <1>7, <1>8, <1>10 DEF Views!consumer_process
  <1> QED BY <1>1, <1>2, <1>9, <1>10 DEF Views!Next, Views!Terminated

(* A step elsewhere leaves every view where it is.                          *)
LEMMA PlacedKept ==
  ASSUME ViewsInd, UNCHANGED <<vList, vTaken>>,
         \A j \in Views!Pairs : vPc'[Views!Producer(j)] \in {"unlock", "post", "done"}
                               <=> vPc[Views!Producer(j)] \in {"unlock", "post", "done"}
  PROVE  ViewsPlaced'
  BY DEF ViewsInd, ViewsPlaced, Views!TakenOnce, Views!Pairs

(* A view that was requested once is new to the lists.                      *)
LEMMA AppendPlaced ==
  ASSUME ViewsInd, NEW j \in Views!Pairs, Views!AppendView(j)
  PROVE  ViewsPlaced'
  <1> DEFINE v == Requests[j]
             b == Views!Hash[v]
  <1>a. ViewsTyped /\ ViewsPlaced
    BY DEF ViewsInd
  <1>1. /\ vPc[Views!Producer(j)] = "add" /\ vPc' = [vPc EXCEPT ![Views!Producer(j)] = "unlock"]
        /\ vList' = [vList EXCEPT ![b] = Append(vList[b], v)]
        /\ vTaken' = vTaken
    BY DEF Views!AppendView, Views!Goto
  <1>2. /\ vPc'[Views!Producer(j)] = "unlock"
        /\ \A k \in Views!Pairs : k # j => vPc'[Views!Producer(k)] = vPc[Views!Producer(k)]
    BY <1>a, <1>1, ProducerMoves
  <1>3. /\ b \in Views!Lists /\ v \in Known
        /\ \A c \in Views!Lists : vList[c] \in Seq(Known)
    BY <1>a, RequestsKnown DEF ViewsTyped
  <1>4. v \notin Views!ToSet(vTaken) /\ v \notin Views!ToSet(vList[b])
    BY <1>a, <1>1 DEF ViewsPlaced
  <1>5. \A c \in Views!Lists : vList'[c] = IF c = b THEN Append(vList[b], v) ELSE vList[c]
    BY <1>a, <1>1 DEF ViewsTyped
  <1>6. /\ \A c \in Views!Lists : Views!Different(vList[c])
                                  /\ Views!ToSet(vTaken) \cap Views!ToSet(vList[c]) = {}
        /\ Views!Different(vTaken)
    BY <1>a DEF ViewsPlaced, Views!TakenOnce
  <1>7. /\ Views!ToSet(Append(vList[b], v)) = Views!ToSet(vList[b]) \cup {v}
        /\ Views!Different(Append(vList[b], v))
    BY <1>3, <1>4, <1>6, AppendFacts
  <1>8. \A c \in Views!Lists :
          Views!ToSet(vList'[c]) = IF c = b THEN Views!ToSet(vList[b]) \cup {v} ELSE Views!ToSet(vList[c])
    BY <1>5, <1>7
  <1> HIDE DEF b
  <1>9. Views!TakenOnce'
    <2>1. ASSUME NEW c \in Views!Lists
          PROVE  Views!Different(vList'[c]) /\ Views!ToSet(vTaken') \cap Views!ToSet(vList'[c]) = {}
      <3>1. CASE c = b
        BY <1>1, <1>4, <1>5, <1>6, <1>7, <1>8, <3>1
      <3>2. CASE c # b
        BY <1>1, <1>5, <1>6, <3>2
      <3> QED BY <3>1, <3>2
    <2> QED BY <1>1, <1>6, <2>1 DEF Views!TakenOnce
  <1>10. \A c \in Views!Lists : \A w \in Views!ToSet(vList'[c]) : Views!Hash[w] = c
    BY <1>a, <1>8 DEF ViewsPlaced, b
  <1>11. ASSUME NEW k \in Views!Pairs
         PROVE  vPc'[Views!Producer(k)] \in {"unlock", "post", "done"}
                  <=> Requests[k] \in Views!ToSet(vTaken') \cup Views!ToSet(vList'[Views!Hash[Requests[k]]])
    <2>1. CASE k = j
      BY <1>2, <1>3, <1>8, <2>1 DEF b
    <2>2. CASE k # j
      <3>1. Requests[k] # v /\ Views!Hash[Requests[k]] \in Views!Lists
        BY <2>2, RequestsKnown
      <3>2. Requests[k] \in Views!ToSet(vList'[Views!Hash[Requests[k]]])
              <=> Requests[k] \in Views!ToSet(vList[Views!Hash[Requests[k]]])
        BY <1>8, <3>1
      <3>3. vPc[Views!Producer(k)] \in {"unlock", "post", "done"}
              <=> Requests[k] \in Views!ToSet(vTaken) \cup Views!ToSet(vList[Views!Hash[Requests[k]]])
        BY <1>a DEF ViewsPlaced
      <3> QED BY <1>1, <1>2, <2>2, <3>2, <3>3
    <2> QED BY <2>1, <2>2
  <1> QED BY <1>9, <1>10, <1>11 DEF ViewsPlaced, Views!Pairs, Views!Lists

(* A view that is taken leaves its list.                                    *)
LEMMA ConsumePlaced ==
  ASSUME ViewsInd, NEW j \in Views!Pairs, Views!consume_any(j)
  PROVE  ViewsPlaced'
  <1>a. ViewsTyped /\ ViewsPlaced
    BY DEF ViewsInd
  <1>1. PICK b \in Views!Lists : /\ vList[b] # <<>> /\ vList' = [vList EXCEPT ![b] = Tail(vList[b])]
                               /\ vTaken' = Append(vTaken, Head(vList[b]))
    BY TakenHead
  <1>2. \A k \in Views!Pairs : vPc'[Views!Producer(k)] = vPc[Views!Producer(k)]
    <2>1. vPc' = [vPc EXCEPT ![Views!Consumer(j)] = "unlock"]
      BY DEF Views!consume_any, Views!Goto
    <2> QED BY <1>a, <2>1, ConsumerMoves
  <1> DEFINE h == Head(vList[b])
             rest == Tail(vList[b])
  <1>3. vTaken \in Seq(Known) /\ \A c \in Views!Lists : vList[c] \in Seq(Known)
    BY <1>a DEF ViewsTyped
  <1>4. /\ Views!Different(vTaken)
        /\ \A c \in Views!Lists : Views!Different(vList[c])
                                  /\ Views!ToSet(vTaken) \cap Views!ToSet(vList[c]) = {}
    BY <1>a DEF ViewsPlaced, Views!TakenOnce
  <1>5. /\ h \in Known /\ Views!ToSet(vList[b]) = Views!ToSet(rest) \cup {h}
        /\ Views!Different(rest) /\ h \notin Views!ToSet(rest)
    BY <1>1, <1>3, <1>4, TailFacts
  <1>6. \A c \in Views!Lists : vList'[c] = IF c = b THEN rest ELSE vList[c]
    BY <1>a, <1>1 DEF ViewsTyped
  <1>7. vTaken' = Append(vTaken, h)
    BY <1>1
  <1> HIDE DEF h, rest
  <1>8. h \notin Views!ToSet(vTaken)
    BY <1>4, <1>5
  <1>9. Views!ToSet(vTaken') = Views!ToSet(vTaken) \cup {h} /\ Views!Different(vTaken')
    BY <1>3, <1>4, <1>5, <1>7, <1>8, AppendFacts
  <1>10. \A c \in Views!Lists : \A w \in Views!ToSet(vList[c]) : Views!Hash[w] = c
    BY <1>a DEF ViewsPlaced
  <1>11. Views!Hash[h] = b
    BY <1>5, <1>10
  <1>12. ASSUME NEW c \in Views!Lists
         PROVE  /\ Views!Different(vList'[c])
                /\ Views!ToSet(vTaken') \cap Views!ToSet(vList'[c]) = {}
                /\ \A w \in Views!ToSet(vList'[c]) : Views!Hash[w] = c
    <2>1. CASE c = b
      <3>1. vList'[c] = rest
        BY <1>6, <2>1
      <3>2. Views!ToSet(vTaken) \cap Views!ToSet(rest) = {}
        BY <1>4, <1>5
      <3> QED BY <1>5, <1>9, <1>10, <2>1, <3>1, <3>2
    <2>2. CASE c # b
      <3>1. vList'[c] = vList[c]
        BY <1>6, <2>2
      <3>2. h \notin Views!ToSet(vList[c])
        BY <1>10, <1>11, <2>2
      <3> QED BY <1>4, <1>9, <1>10, <3>1, <3>2
    <2> QED BY <2>1, <2>2
  <1>13. ASSUME NEW k \in Views!Pairs
         PROVE  vPc'[Views!Producer(k)] \in {"unlock", "post", "done"}
                  <=> Requests[k] \in Views!ToSet(vTaken') \cup Views!ToSet(vList'[Views!Hash[Requests[k]]])
    <2> DEFINE w == Requests[k]
               c == Views!Hash[w]
    <2>1. c \in Views!Lists
      BY RequestsKnown
    <2>2. vPc[Views!Producer(k)] \in {"unlock", "post", "done"}
            <=> w \in Views!ToSet(vTaken) \cup Views!ToSet(vList[c])
      BY <1>a DEF ViewsPlaced
    <2>3. w \in Views!ToSet(vTaken') \cup Views!ToSet(vList'[c])
            <=> w \in Views!ToSet(vTaken) \cup Views!ToSet(vList[c])
      <3>1. CASE c = b
        <4>1. vList'[c] = rest /\ Views!ToSet(vList[c]) = Views!ToSet(rest) \cup {h}
          BY <1>5, <1>6, <3>1
        <4> QED BY <1>9, <4>1
      <3>2. CASE c # b
        <4>1. vList'[c] = vList[c] /\ w # h
          BY <1>6, <1>11, <2>1, <3>2
        <4> QED BY <1>9, <4>1
      <3> QED BY <3>1, <3>2
    <2> QED BY <1>2, <2>2, <2>3
  <1> QED BY <1>9, <1>12, <1>13 DEF ViewsPlaced, Views!TakenOnce, Views!Pairs, Views!Lists

LEMMA ViewsPlacedStep ==
  ASSUME ViewsInd, [Views!Next]_(Views!vars)
  PROVE  ViewsPlaced'
  <1>a. ViewsTyped
    BY DEF ViewsInd
  <1> USE DEF Views!Goto
  <1>1. CASE Views!Spawn
    <2>1. /\ vPc[Views!NextThread] = "unborn" /\ vPc' = [vPc EXCEPT ![Views!NextThread] = "start"]
          /\ UNCHANGED <<vList, vTaken>>
      BY <1>1 DEF Views!Spawn
    <2>2. \A t \in Views!Threads : vPc'[t] = IF t = Views!NextThread THEN "start" ELSE vPc[t]
      BY <1>a, <2>1 DEF ViewsTyped
    <2> QED BY <2>1, <2>2, ThreadNames, PlacedKept
  <1>2. CASE Views!end_process \/ UNCHANGED Views!vars
    <2>1. UNCHANGED <<vList, vTaken, vPc>>
      BY <1>2 DEF Views!end_process, Views!vars
    <2> QED BY <2>1, PlacedKept
  <1>3. ASSUME NEW j \in Views!Pairs, Views!add_view(j)
        PROVE  ViewsPlaced'
    <2>1. CASE Views!AppendView(j)
      BY <2>1, AppendPlaced
    <2>2. ASSUME NEW goal, vPc' = [vPc EXCEPT ![Views!Producer(j)] = goal],
                 UNCHANGED <<vList, vTaken>>,
                 vPc[Views!Producer(j)] \in {"unlock", "post", "done"}
                   <=> goal \in {"unlock", "post", "done"}
          PROVE  ViewsPlaced'
      <3>1. \A k \in Views!Pairs : vPc'[Views!Producer(k)] = IF k = j THEN goal ELSE vPc[Views!Producer(k)]
        BY <1>a, <2>2, ProducerMoves
      <3> QED BY <2>2, <3>1, PlacedKept
    <2>3. CASE Views!LockLists(Views!Producer(j), "start", "add")
      BY <2>2, <2>3 DEF Views!LockLists
    <2>4. CASE Views!UnlockLists(Views!Producer(j), "unlock", "post")
      BY <2>2, <2>4 DEF Views!UnlockLists
    <2>5. CASE Views!PostToken(j)
      BY <2>2, <2>5 DEF Views!PostToken
    <2> QED BY <1>3, <2>1, <2>3, <2>4, <2>5 DEF Views!add_view
  <1>4. ASSUME NEW j \in Views!Pairs, Views!consumer_process(j)
        PROVE  ViewsPlaced'
    <2>1. CASE Views!consume_any(j)
      BY <2>1, ConsumePlaced
    <2>2. ASSUME NEW goal, vPc' = [vPc EXCEPT ![Views!Consumer(j)] = goal], UNCHANGED <<vList, vTaken>>
          PROVE  ViewsPlaced'
      <3>1. \A k \in Views!Pairs : vPc'[Views!Producer(k)] = vPc[Views!Producer(k)]
        BY <1>a, <2>2, ConsumerMoves
      <3> QED BY <2>2, <3>1, PlacedKept
    <2>3. CASE Views!LockLists(Views!Consumer(j), "lock", "consume")
      BY <2>2, <2>3 DEF Views!LockLists
    <2>4. CASE Views!UnlockLists(Views!Consumer(j), "unlock", "done")
      BY <2>2, <2>4 DEF Views!UnlockLists
    <2>5. CASE Views!WaitToken(j)
      BY <2>2, <2>5 DEF Views!WaitToken
    <2> QED BY <1>4, <2>1, <2>3, <2>4, <2>5 DEF Views!consumer_process
  <1> QED BY <1>1, <1>2, <1>3, <1>4 DEF Views!Next, Views!Terminated

(* Views and tokens are no more than the requests.                          *)
LEMMA ViewsBounded ==
  ASSUME ViewsInd
  PROVE  vItems \in 0..Len(Requests) /\ vSize \in 0..Len(Requests)
  <1>1. IsFiniteSet(Adding \cup Announced) /\ Cardinality(Adding \cup Announced) <= Len(Requests)
    <2>1. Adding \cup Announced \in SUBSET Views!Pairs
      BY DEF Adding, Announced
    <2> QED BY <2>1, PairsFinite, FS_Subset
  <1>2. Cardinality(Adding \cup Announced) = Cardinality(Adding) + Cardinality(Announced)
    <2>1. Adding \cap Announced = {}
      BY DEF Adding, Announced
    <2>2. Cardinality(Adding \cap Announced) = 0
      BY <2>1, FS_EmptySet
    <2>3. Cardinality(Adding \cup Announced)
            = Cardinality(Adding) + Cardinality(Announced) - Cardinality(Adding \cap Announced)
      BY PairsFinite, FS_Union
    <2> DEFINE all == Cardinality(Adding \cup Announced)
               ad == Cardinality(Adding)
               an == Cardinality(Announced)
               both == Cardinality(Adding \cap Announced)
    <2>4. ad \in Nat /\ an \in Nat /\ both = 0 /\ all = ad + an - both
      BY <2>2, <2>3, PairsFinite
    <2> HIDE DEF all, ad, an, both
    <2>5. all = ad + an
      BY <2>4
    <2> QED BY <2>5 DEF all, ad, an
  <1> DEFINE ad == Cardinality(Adding)
             an == Cardinality(Announced)
             re == Cardinality(Reaching)
             to == Cardinality(Took)
             n == Len(Requests)
  <1>3. /\ ad \in Nat /\ an \in Nat /\ re \in Nat /\ to \in Nat /\ n \in Nat
        /\ ad + an <= n /\ vItems \in Nat /\ vSize \in Int
    BY <1>1, <1>2, PairsFinite, RequestsKnown DEF ViewsInd, ViewsTyped
  <1>4. vItems + re + to = an /\ vSize + to = an + ad
    BY DEF ViewsInd, ViewsBalance
  <1> HIDE DEF ad, an, re, to, n
  <1>5. vItems \in 0..n /\ vSize \in 0..n
    BY <1>3, <1>4
  <1> QED BY <1>5 DEF n

(* When everybody is done, every view has been taken.                       *)
LEMMA ViewsAllTaken ==
  ASSUME ViewsInd
  PROVE  Views!FreedEmpty
  <1> SUFFICES ASSUME vFreed
               PROVE  /\ Views!Stored = 0 /\ vLock = None
                      /\ Views!ToSet(vTaken) = Views!ToSet(Requests)
    BY DEF Views!FreedEmpty
  <1>a. ViewsTyped /\ ViewsHeld /\ ViewsBalance /\ ViewsPlaced
    BY DEF ViewsInd
  <1>1. \A t \in Views!Threads : vPc[t] = "done"
    BY <1>a DEF ViewsHeld, Views!Joined
  <1>2. vLock = None
    BY <1>a, <1>1 DEF ViewsHeld, ViewsTyped
  <1>3. Views!Stored = 0
    <2>1. Announced = Views!Pairs /\ Took = Views!Pairs /\ Adding = {}
      BY <1>1, ThreadNames DEF Announced, Took, Adding
    <2>2. Cardinality(Adding) = 0
      BY <2>1, FS_EmptySet
    <2> DEFINE n == Cardinality(Views!Pairs)
    <2>3. vSize + n = n + 0 /\ n \in Nat /\ vSize \in Int
      BY <1>a, <2>1, <2>2, PairsFinite DEF ViewsBalance, ViewsTyped
    <2> HIDE DEF n
    <2>4. vSize = 0
      BY <2>3
    <2> QED BY <1>a, <2>4 DEF ViewsBalance, Views!SizeCounts
  <1>4. \A b \in Views!Lists : Views!ToSet(vList[b]) = {}
    <2>1. \A b \in 0..3 : vList[b] \in Seq(Known) /\ Len(vList[b]) \in Nat
      BY <1>a DEF ViewsTyped, Views!Lists
    <2> DEFINE a0 == Len(vList[0])
               a1 == Len(vList[1])
               a2 == Len(vList[2])
               a3 == Len(vList[3])
    <2>s. a0 + a1 + a2 + a3 = 0
      BY <1>3 DEF Views!Stored
    <2>2. a0 \in Nat /\ a1 \in Nat /\ a2 \in Nat /\ a3 \in Nat
      BY <2>1
    <2> HIDE DEF a0, a1, a2, a3
    <2>3. a0 = 0 /\ a1 = 0 /\ a2 = 0 /\ a3 = 0
      BY <2>s, <2>2
    <2>4. \A b \in 0..3 : Len(vList[b]) = 0
      BY <2>3 DEF a0, a1, a2, a3
    <2>5. \A b \in 0..3 : vList[b] = <<>>
      BY <2>1, <2>4, EmptySeq
    <2>6. Views!ToSet(<<>>) = {}
      BY DEF Views!ToSet
    <2> QED BY <2>5, <2>6 DEF Views!Lists
  <1>5. \A j \in Views!Pairs : Requests[j] \in Views!ToSet(vTaken)
    BY <1>a, <1>1, <1>4, ThreadNames, RequestsKnown DEF ViewsPlaced
  <1>6. Known \subseteq Views!ToSet(vTaken)
    BY <1>5, RequestsKnown
  <1>7. Views!ToSet(vTaken) \subseteq Known
    BY <1>a DEF ViewsTyped, Views!ToSet
  <1> QED BY <1>2, <1>3, <1>6, <1>7 DEF Known

(* Every view in the lists of pthread/prod_cons.c is backed by a token, so that
   no consumer finds them empty; no view is taken twice; and all were taken
   when the lists are freed: for any requests of different known views, in any
   order and number, and any interleaving.                                  *)
THEOREM ViewsAreBacked == Views!Spec => []ViewsBacked
  <1>1. ViewsInd /\ [Views!Next]_(Views!vars) => ViewsInd'
    BY ViewsTypedStep, ViewsBalanceStep, ViewsPlacedStep DEF ViewsInd
  <1>2. ViewsInd => ViewsBacked
    <2> SUFFICES ASSUME ViewsInd PROVE ViewsBacked
      OBVIOUS
    <2>1. Views!TypeOK
      BY ViewsBounded DEF ViewsInd, ViewsTyped, ViewPCs, Known, Views!TypeOK
    <2>2. Views!SizeCounts /\ Views!TakenOnce
      BY DEF ViewsInd, ViewsBalance, ViewsPlaced
    <2> QED BY <2>1, <2>2, ViewsFound, ViewsAllTaken DEF ViewsBacked
  <1> QED BY <1>1, <1>2, ViewsInit, PTL DEF Views!Spec
-----------------------------------------------------------------------------
(* recap/ring_buffer.c *)

\* Main's operation is one of the script's, and every refused push is an
\* operation main has completed or is completing.
LoggedTyped ==
  /\ gBuffer \in [0..Capacity - 1 -> Int] /\ gAccepted \in Seq(Int)
  /\ gPc[Main] \in {"lock", "in", "out"}
  /\ gPc[Main] \in {"in", "out"} => gStep < Len(Script)
  /\ gRefused \in Nat /\ gWarned \in Nat
  /\ gRefused <= gStep + (IF gPc[Main] = "out" THEN 1 ELSE 0)
LoggedInd == RingHoldsAccepted /\ LoggedTyped

(* A ring index wraps at most once.                                         *)
LEMMA WrapsOnce ==
  ASSUME NEW C \in Nat \ {0}, NEW n \in 0..(2 * C - 1)
  PROVE  /\ n % C = IF n < C THEN n ELSE n - C
         /\ n % C \in 0..C - 1
  <1> DEFINE q == n \div C
             r == n % C
  <1>1. n = C * q + r /\ r \in 0..(C - 1) /\ q \in Int
    OBVIOUS
  <1> HIDE DEF q, r
  <1>2. q >= 0
    <2>1. ASSUME q <= -1 PROVE FALSE
      <3>1. C * q <= C * (-1)
        BY <1>1, <2>1
      <3> QED BY <1>1, <3>1
    <2> QED BY <1>1, <2>1
  <1>3. q <= 1
    <2>1. ASSUME q >= 2 PROVE FALSE
      <3>1. C * q >= C * 2
        BY <1>1, <2>1
      <3> QED BY <1>1, <3>1
    <2> QED BY <1>1, <2>1
  <1>4. q = 0 \/ q = 1
    BY <1>1, <1>2, <1>3
  <1>5. n = r \/ n = C + r
    BY <1>1, <1>4
  <1>6. r = IF n < C THEN n ELSE n - C
    BY <1>1, <1>5
  <1> QED BY <1>1, <1>6 DEF r

Wrapped(n) == IF n < Capacity THEN n ELSE n - Capacity
LEMMA CapacityWraps ==
  \A n \in 0..(2 * Capacity - 1) : n % Capacity = Wrapped(n) /\ Wrapped(n) \in 0..Capacity - 1
  <1>1. Capacity \in Nat \ {0}
    BY LoggedAssumption DEF Logged!LoggedAssumption
  <1> TAKE n \in 0..(2 * Capacity - 1)
  <1>2. n % Capacity = Wrapped(n)
    BY <1>1, WrapsOnce DEF Wrapped
  <1>3. Wrapped(n) \in 0..Capacity - 1
    BY <1>1 DEF Wrapped
  <1> QED BY <1>2, <1>3

(* An operation of the script is a push of one value or a pop.              *)
LEMMA OperationsTyped ==
  ASSUME LoggedInd, gStep < Len(Script)
  PROVE  /\ Logged!Current \in Seq(Int) /\ Len(Logged!Current) <= 1
         /\ Logged!Current # <<>> => Logged!Current = <<Logged!Current[1]>> /\ Logged!Current[1] \in Int
  <1>1. Script \in Seq(Seq(Int)) /\ \A k \in DOMAIN Script : Len(Script[k]) <= 1
    BY LoggedAssumption DEF Logged!LoggedAssumption
  <1>2. gStep + 1 \in 1..Len(Script)
    BY <1>1 DEF LoggedInd, RingHoldsAccepted, Logged!TypeOK
  <1>3. Script[gStep + 1] \in Seq(Int) /\ Len(Script[gStep + 1]) <= 1
    BY <1>1, <1>2
  <1> QED BY <1>3 DEF Logged!Current

LEMMA LoggedInit == Logged!Init => LoggedInd
  <1> SUFFICES ASSUME Logged!Init PROVE LoggedInd
    OBVIOUS
  <1> USE LoggedAssumption DEF Logged!Init, Logged!LoggedAssumption
  <1>1. Logged!TypeOK
    BY DEF Logged!TypeOK
  <1>2. Logged!RingHoldsAccepted
    <2>1. 0 % Capacity = 0
      BY CapacityWraps
    <2> QED BY <2>1 DEF Logged!RingHoldsAccepted
  <1>3. LoggedTyped
    BY DEF LoggedTyped
  <1> QED BY <1>1, <1>2, <1>3
       DEF LoggedInd, RingHoldsAccepted, Logged!FlagMeansFull, Logged!WarningsAnswerRefusals

(* A stored value is the newest of those accepted.                          *)
LEMMA LoggedStore ==
  ASSUME LoggedInd, Logged!PushStored
  PROVE  LoggedInd'
  <1>a. Logged!TypeOK /\ Logged!RingHoldsAccepted /\ Logged!FlagMeansFull
        /\ Logged!WarningsAnswerRefusals /\ LoggedTyped
    BY DEF LoggedInd, RingHoldsAccepted
  <1>b. Capacity \in Nat \ {0} /\ Main # Logger
    BY LoggedAssumption DEF Logged!LoggedAssumption
  <1> DEFINE v == Logged!Current[1]
  <1>1. /\ gPc[Main] = "in" /\ gPc' = [gPc EXCEPT ![Main] = "out"]
        /\ gBuffer' = [gBuffer EXCEPT ![gHead] = v]
        /\ gHead' = (gHead + 1) % Capacity /\ gSize' = gSize + 1
        /\ gAccepted' = gAccepted \o Logged!Current /\ Logged!Current # <<>>
        /\ ~(gSize + 1 > Capacity)
        /\ UNCHANGED <<gLock, gOnFull, gIsFull, gTail, gStep, gRefused, gWarned, gSpurious>>
    BY DEF Logged!PushStored, Logged!Goto, Logged!NoRoom, Logged!Advance
  <1>2. Logged!Current = <<v>> /\ v \in Int
    BY <1>a, <1>1, OperationsTyped DEF LoggedTyped
  <1> HIDE DEF v
  <1>2a. gBuffer \in [0..Capacity - 1 -> Int] /\ gAccepted \in Seq(Int) /\ gSize = Len(gAccepted)
    BY <1>a DEF Logged!RingHoldsAccepted, LoggedTyped
  <1>2b. gHead \in 0..Capacity - 1 /\ gTail \in 0..Capacity - 1
    BY <1>a, <1>2a DEF Logged!TypeOK
  <1>2c. gSize \in 0..Capacity - 1
    BY <1>a, <1>b, <1>1 DEF Logged!TypeOK
  <1>2d. gHead = (gTail + gSize) % Capacity
    BY <1>a DEF Logged!RingHoldsAccepted
  <1>3. /\ gHead \in 0..Capacity - 1 /\ gTail \in 0..Capacity - 1 /\ gSize \in 0..Capacity - 1
        /\ gSize = Len(gAccepted) /\ gAccepted \in Seq(Int)
        /\ gBuffer \in [0..Capacity - 1 -> Int]
    BY <1>2a, <1>2b, <1>2c
  <1>4. /\ gAccepted' \in Seq(Int) /\ Len(gAccepted') = gSize + 1
        /\ \A k \in 1..gSize : gAccepted'[k] = gAccepted[k]
        /\ gAccepted'[gSize + 1] = v
    BY <1>1, <1>2, <1>3
  <1>5. gHead' \in 0..Capacity - 1 /\ gBuffer' \in [0..Capacity - 1 -> Int]
    <2>1. gHead + 1 \in 0..(2 * Capacity - 1)
      BY <1>b, <1>3
    <2>2. (gHead + 1) % Capacity \in 0..Capacity - 1
      BY <2>1, CapacityWraps, Zenon
    <2> QED BY <1>1, <1>2, <1>3, <2>2
  <1>6. gHead' = (gTail' + gSize') % Capacity
    <2>1. gTail + gSize \in 0..(2 * Capacity - 1) /\ gTail + gSize + 1 \in 0..(2 * Capacity - 1)
          /\ gHead + 1 \in 0..(2 * Capacity - 1)
      BY <1>b, <1>3
    <2>2. gHead = Wrapped(gTail + gSize)
      BY <1>2d, <2>1, CapacityWraps, Zenon
    <2>3. (gHead + 1) % Capacity = Wrapped(gHead + 1)
      BY <2>1, CapacityWraps, Zenon
    <2>4. (gTail + gSize + 1) % Capacity = Wrapped(gTail + gSize + 1)
      BY <2>1, CapacityWraps, Zenon
    <2>5. Wrapped(gHead + 1) = Wrapped(gTail + gSize + 1)
      BY <1>b, <1>3, <2>2 DEF Wrapped
    <2>6. gTail' + gSize' = gTail + gSize + 1
      BY <1>1, <1>3
    <2> QED BY <1>1, <2>3, <2>4, <2>5, <2>6
  <1>7. ASSUME NEW k \in 1..gSize'
        PROVE  gBuffer'[(gTail' + k - 1) % Capacity] = gAccepted'[k]
    <2>1. gTail + k - 1 \in 0..(2 * Capacity - 1) /\ gTail + gSize \in 0..(2 * Capacity - 1)
      BY <1>b, <1>1, <1>3
    <2>2. gHead = Wrapped(gTail + gSize)
      BY <1>2d, <2>1, CapacityWraps, Zenon
    <2>3. /\ (gTail + k - 1) % Capacity = Wrapped(gTail + k - 1)
          /\ (gTail + k - 1) % Capacity \in 0..Capacity - 1
      BY <2>1, CapacityWraps, Zenon
    <2>4. CASE k = gSize + 1
      <3>1. (gTail + k - 1) % Capacity = gHead
        <4>1. gTail + k - 1 = gTail + gSize
          BY <1>3, <2>4
        <4> QED BY <1>2d, <4>1
      <3>2. gBuffer'[gHead] = v /\ gTail' = gTail
        BY <1>1, <1>3
      <3> QED BY <1>4, <2>4, <3>1, <3>2
    <2>5. CASE k # gSize + 1
      <3>1. k \in 1..gSize
        BY <1>1, <1>3, <2>5
      <3>2. (gTail + k - 1) % Capacity # gHead
        <4>1. gTail \in 0..Capacity - 1 /\ gSize \in 0..Capacity - 1
          BY <1>3
        <4>2. Wrapped(gTail + k - 1) # gHead
          BY <1>b, <2>2, <3>1, <4>1 DEF Wrapped
        <4> QED BY <2>3, <4>2
      <3>3. gBuffer[(gTail + k - 1) % Capacity] = gAccepted[k]
        BY <1>a, <3>1 DEF Logged!RingHoldsAccepted
      <3>4. gBuffer'[(gTail + k - 1) % Capacity] = gBuffer[(gTail + k - 1) % Capacity]
        BY <1>1, <1>3, <2>3, <3>2
      <3> QED BY <1>1, <1>4, <3>1, <3>3, <3>4
    <2> QED BY <2>4, <2>5
  <1>8. Logged!RingHoldsAccepted'
    BY <1>1, <1>4, <1>6, <1>7 DEF Logged!RingHoldsAccepted
  <1>9. Logged!TypeOK'
    <2>1. gSize' \in 0..Capacity /\ gHead' \in DOMAIN gBuffer' /\ gTail' \in DOMAIN gBuffer'
      BY <1>b, <1>1, <1>3, <1>5
    <2>2. gPc' \in [{Main, Logger} -> {"lock", "in", "out", "wait"}]
      BY <1>a, <1>1 DEF Logged!TypeOK
    <2> QED BY <1>a, <1>1, <2>1, <2>2 DEF Logged!TypeOK
  <1>10. Logged!FlagMeansFull' /\ Logged!WarningsAnswerRefusals'
    BY <1>a, <1>b, <1>1, <1>3 DEF Logged!FlagMeansFull, Logged!WarningsAnswerRefusals
  <1>11. LoggedTyped'
    BY <1>a, <1>b, <1>1, <1>4, <1>5 DEF LoggedTyped, Logged!TypeOK
  <1> QED BY <1>8, <1>9, <1>10, <1>11 DEF LoggedInd, RingHoldsAccepted

(* A popped value is the oldest of those accepted.                          *)
LEMMA LoggedTake ==
  ASSUME LoggedInd, Logged!PopTaken
  PROVE  LoggedInd'
  <1>a. Logged!TypeOK /\ Logged!RingHoldsAccepted /\ Logged!FlagMeansFull
        /\ Logged!WarningsAnswerRefusals /\ LoggedTyped
    BY DEF LoggedInd, RingHoldsAccepted
  <1>b. Capacity \in Nat \ {0} /\ Main # Logger
    BY LoggedAssumption DEF Logged!LoggedAssumption
  <1>1. /\ gPc[Main] = "in" /\ gPc' = [gPc EXCEPT ![Main] = "out"]
        /\ gTail' = (gTail + 1) % Capacity /\ gSize' = gSize - 1 /\ gSize > 0
        /\ gAccepted' = Tail(gAccepted) /\ gIsFull' = FALSE
        /\ UNCHANGED <<gLock, gOnFull, gBuffer, gHead, gStep, gRefused, gWarned, gSpurious>>
    BY DEF Logged!PopTaken, Logged!Goto, Logged!Advance
  <1>2a. gBuffer \in [0..Capacity - 1 -> Int] /\ gAccepted \in Seq(Int) /\ gSize = Len(gAccepted)
    BY <1>a DEF Logged!RingHoldsAccepted, LoggedTyped
  <1>2b. gHead \in 0..Capacity - 1 /\ gTail \in 0..Capacity - 1
    BY <1>a, <1>2a DEF Logged!TypeOK
  <1>2c. gSize \in 1..Capacity
    BY <1>a, <1>b, <1>1 DEF Logged!TypeOK
  <1>2d. gHead = (gTail + gSize) % Capacity
    BY <1>a DEF Logged!RingHoldsAccepted
  <1>3. /\ gHead \in 0..Capacity - 1 /\ gTail \in 0..Capacity - 1 /\ gSize \in 1..Capacity
        /\ gSize = Len(gAccepted) /\ gAccepted \in Seq(Int)
        /\ gBuffer \in [0..Capacity - 1 -> Int]
    BY <1>2a, <1>2b, <1>2c
  <1>4. /\ gAccepted' \in Seq(Int) /\ Len(gAccepted') = gSize - 1
        /\ \A k \in 1..(gSize - 1) : gAccepted'[k] = gAccepted[k + 1]
    <2>1. gAccepted # <<>>
      BY <1>3
    <2> QED BY <1>1, <1>3, <2>1
  <1>5. /\ gTail + 1 \in 0..(2 * Capacity - 1)
        /\ gTail' = Wrapped(gTail + 1)
        /\ gTail' \in 0..Capacity - 1
    <2>1. gTail + 1 \in 0..(2 * Capacity - 1)
      BY <1>b, <1>3
    <2> QED BY <1>1, <2>1, CapacityWraps, Zenon
  <1>6. gHead' = (gTail' + gSize') % Capacity
    <2>1. gTail + gSize \in 0..(2 * Capacity - 1) /\ gTail' + gSize' \in 0..(2 * Capacity - 1)
      <3>1. gTail \in 0..Capacity - 1 /\ gTail' \in 0..Capacity - 1 /\ gSize \in 1..Capacity
        BY <1>3, <1>5
      <3>2. gSize' = gSize - 1
        BY <1>1
      <3>3. gTail + gSize \in 0..(2 * Capacity - 1)
        BY <1>b, <3>1
      <3>4. gSize' \in 0..Capacity - 1
        BY <1>b, <3>1, <3>2
      <3>5. gTail' + gSize' \in 0..(2 * Capacity - 1)
        <4> DEFINE t == gTail'
                   z == gSize'
        <4>1. t \in 0..Capacity - 1 /\ z \in 0..Capacity - 1
          BY <3>1, <3>4
        <4> HIDE DEF t, z
        <4>2. t + z \in 0..(2 * Capacity - 1)
          BY <1>b, <4>1
        <4> QED BY <4>2 DEF t, z
      <3> QED BY <3>3, <3>5
    <2>2. gHead = Wrapped(gTail + gSize)
      BY <1>2d, <2>1, CapacityWraps, Zenon
    <2>3. (gTail' + gSize') % Capacity = Wrapped(gTail' + gSize')
      BY <2>1, CapacityWraps, Zenon
    <2>4. gSize' = gSize - 1 /\ gHead' = gHead
      BY <1>1
    <2>5. Wrapped(gTail' + gSize') = Wrapped(gTail + gSize)
      BY <1>b, <1>3, <1>5, <2>4 DEF Wrapped
    <2> QED BY <2>2, <2>3, <2>4, <2>5
  <1>7. ASSUME NEW k \in 1..gSize'
        PROVE  gBuffer'[(gTail' + k - 1) % Capacity] = gAccepted'[k]
    <2>1. gTail + k \in 0..(2 * Capacity - 1) /\ gTail' + k - 1 \in 0..(2 * Capacity - 1)
          /\ k + 1 \in 1..gSize /\ k \in 1..(gSize - 1)
      <3>1. gSize' = gSize - 1
        BY <1>1
      <3>2. k \in 1..(gSize - 1) /\ k + 1 \in 1..gSize
        BY <1>3, <3>1
      <3>3. gTail' \in 0..Capacity - 1
        BY <1>5
      <3>4. gTail \in 0..Capacity - 1 /\ gSize \in 1..Capacity
        BY <1>3
      <3>5. gTail + k \in 0..(2 * Capacity - 1)
        BY <1>b, <3>2, <3>4
      <3>6. gTail' + k - 1 \in 0..(2 * Capacity - 1)
        <4> DEFINE t == gTail'
        <4>1. t \in Nat /\ t < Capacity /\ k \in Nat /\ k >= 1 /\ k < Capacity /\ Capacity \in Nat
          BY <1>b, <3>2, <3>3, <3>4
        <4> HIDE DEF t
        <4>2. t + k - 1 \in Nat /\ t + k - 1 <= 2 * Capacity - 1
          BY <4>1
        <4>3. t + k - 1 \in 0..(2 * Capacity - 1)
          BY <4>1, <4>2
        <4> QED BY <4>3 DEF t
      <3> QED BY <3>2, <3>5, <3>6
    <2>2. (gTail + k) % Capacity = Wrapped(gTail + k)
      BY <2>1, CapacityWraps, Zenon
    <2>3. (gTail' + k - 1) % Capacity = Wrapped(gTail' + k - 1)
      BY <2>1, CapacityWraps, Zenon
    <2>4. (gTail' + k - 1) % Capacity = (gTail + k) % Capacity
      BY <1>b, <1>3, <1>5, <2>1, <2>2, <2>3 DEF Wrapped
    <2>5. gBuffer[(gTail + (k + 1) - 1) % Capacity] = gAccepted[k + 1]
      BY <1>a, <2>1 DEF Logged!RingHoldsAccepted
    <2>6. gTail + (k + 1) - 1 = gTail + k
      BY <1>3, <2>1
    <2> QED BY <1>1, <1>4, <2>1, <2>4, <2>5, <2>6
  <1>8. Logged!RingHoldsAccepted'
    BY <1>1, <1>4, <1>6, <1>7 DEF Logged!RingHoldsAccepted
  <1>9. Logged!TypeOK'
    <2>1. gSize' \in 0..Capacity /\ gHead' \in DOMAIN gBuffer' /\ gTail' \in DOMAIN gBuffer'
      BY <1>b, <1>1, <1>3, <1>5
    <2>2. gPc' \in [{Main, Logger} -> {"lock", "in", "out", "wait"}]
      BY <1>a, <1>1 DEF Logged!TypeOK
    <2> QED BY <1>a, <1>1, <2>1, <2>2 DEF Logged!TypeOK
  <1>10. Logged!FlagMeansFull' /\ Logged!WarningsAnswerRefusals'
    BY <1>a, <1>1 DEF Logged!FlagMeansFull, Logged!WarningsAnswerRefusals, LoggedTyped
  <1>11. LoggedTyped'
    BY <1>a, <1>b, <1>1, <1>4 DEF LoggedTyped, Logged!TypeOK
  <1> QED BY <1>8, <1>9, <1>10, <1>11 DEF LoggedInd, RingHoldsAccepted

(* The rest of main's and the logger's steps leave the ring alone.          *)
LEMMA LoggedStep == LoggedInd /\ [Logged!Next]_(Logged!vars) => LoggedInd'
  <1> SUFFICES ASSUME LoggedInd, [Logged!Next]_(Logged!vars) PROVE LoggedInd'
    OBVIOUS
  <1>a. Logged!TypeOK /\ Logged!RingHoldsAccepted /\ Logged!FlagMeansFull
        /\ Logged!WarningsAnswerRefusals /\ LoggedTyped
    BY DEF LoggedInd, RingHoldsAccepted
  <1>b. Main # Logger /\ Main # None /\ Logger # None /\ Capacity \in Nat \ {0} /\ Script \in Seq(Seq(Int))
    BY LoggedAssumption DEF Logged!LoggedAssumption
  <1>c. ASSUME UNCHANGED Logged!ring PROVE Logged!RingHoldsAccepted'
    BY <1>a, <1>c DEF Logged!ring, Logged!RingHoldsAccepted
  <1> DEFINE Rest == /\ Logged!TypeOK' /\ Logged!FlagMeansFull'
                     /\ Logged!WarningsAnswerRefusals' /\ LoggedTyped'
  <1>d. ASSUME UNCHANGED Logged!ring, Rest PROVE LoggedInd'
    BY <1>c, <1>d DEF LoggedInd, RingHoldsAccepted
  <1> USE DEF Logged!ring, Logged!Goto, Logged!Lock, Logged!Unlock, Logged!Running,
              Logged!TypeOK, Logged!FlagMeansFull, Logged!WarningsAnswerRefusals, LoggedTyped
  <1>1. ASSUME NEW t \in {Main, Logger}, Logged!Enter(t) PROVE LoggedInd'
    BY <1>a, <1>b, <1>d, <1>1 DEF Logged!Enter
  <1>2. CASE Logged!PushRefused
    <2>1. gSize = Capacity
      BY <1>a, <1>b, <1>2 DEF Logged!PushRefused, Logged!NoRoom
    <2> QED BY <1>a, <1>b, <1>d, <1>2, <2>1 DEF Logged!PushRefused, Logged!Alert, Logged!CondSignal
  <1>3. CASE Logged!PopEmpty
    BY <1>a, <1>b, <1>d, <1>3 DEF Logged!PopEmpty
  <1>4. CASE Logged!MainLeaves
    BY <1>a, <1>b, <1>d, <1>4 DEF Logged!MainLeaves, Logged!Release
  <1>5. CASE Logged!LoggerWait
    BY <1>a, <1>b, <1>d, <1>5 DEF Logged!LoggerWait, Logged!CondWait
  <1>6. CASE Logged!LoggerWake
    BY <1>a, <1>b, <1>d, <1>6 DEF Logged!LoggerWake, Logged!CondWake
  <1>7. CASE Logged!LoggerSpurious
    BY <1>a, <1>b, <1>d, <1>7 DEF Logged!LoggerSpurious
  <1>8. CASE Logged!LoggerWarn
    BY <1>a, <1>b, <1>d, <1>8 DEF Logged!LoggerWarn, Logged!AfterWarning
  <1>9. CASE Logged!LoggerLeaves
    BY <1>a, <1>b, <1>d, <1>9 DEF Logged!LoggerLeaves
  <1>10. CASE UNCHANGED Logged!vars
    BY <1>a, <1>b, <1>d, <1>10 DEF Logged!vars
  <1> QED BY <1>1, <1>2, <1>3, <1>4, <1>5, <1>6, <1>7, <1>8, <1>9, <1>10,
             LoggedStore, LoggedTake
       DEF Logged!Next, Logged!main, Logged!logger, Logged!push, Logged!pop,
           Logged!Terminated

(* recap/ring_buffer.c keeps in the ring, in order, exactly what push accepted
   and pop has not taken, raises the flag only while it is full and warns at
   most once per refused push; for any sequence of operations, any capacity and
   any interleaving of main and the logger.                                 *)
THEOREM RingKeepsAccepted == Logged!Spec => []RingHoldsAccepted
  <1>1. LoggedInd => RingHoldsAccepted
    BY DEF LoggedInd
  <1> QED BY <1>1, LoggedInit, LoggedStep, PTL DEF Logged!Spec
-----------------------------------------------------------------------------
(* pthread/resource_counter.c *)

RunStates == {"unlink", "open", "run", "destroy", "ended", "crashed"}

\* TypeOK without the bound of the semaphores, which the messages give.
CounterTyped ==
  /\ rMain \in [Runs -> RunStates]
  /\ rName \in Runs \cup {None} /\ rItems \in [Runs -> Runs \cup {None}]
  /\ rValue \in [Runs -> Nat]
  /\ rPosted \in [Runs -> 0 .. messages] /\ rTaken \in [Runs -> 0 .. messages]
  /\ rRaced \in BOOLEAN

\* A run has a semaphore from the moment it has opened it, and posts and takes
\* only then.
CounterOpened ==
  \A r \in Runs :
    /\ rMain[r] \in {"unlink", "open"} => rItems[r] = None
    /\ rMain[r] \in {"run", "destroy", "ended"} => rItems[r] # None
    /\ rItems[r] = None => rPosted[r] = 0 /\ rTaken[r] = 0
    /\ rMain[r] \in {"destroy", "ended"} => rPosted[r] = messages /\ rTaken[r] = messages

\* Who opens the semaphore alone finds no name, so that each run has its own.
CounterApart ==
  ~rRaced =>
    /\ \A r, other \in Runs : rMain[r] = "open" /\ rMain[other] = "open" => r = other
    /\ \A r \in Runs : /\ rMain[r] = "open" => rName = None
                       /\ rItems[r] \in {None, r}
                       /\ rValue[r] = rPosted[r] - rTaken[r]

CounterEnds == (\A r \in Runs : rMain[r] = "ended") => rName = None

CounterInd == /\ CounterTyped /\ CounterOpened /\ CounterApart /\ CounterEnds
              /\ Counter!TokensCount

(* A message is passed on once, so those passed are finitely many; the finite
   sets of the two modules are the same.                                    *)
LEMMA SameCardinality ==
  /\ \A S : Counter!Cardinality(S) = Cardinality(S)
  /\ \A S : Counter!IsFiniteSet(S) <=> IsFiniteSet(S)
  <1>1. \A S : Counter!Cardinality(S) = Cardinality(S)
    BY DEF Counter!Cardinality, Cardinality
  <1>2. \A S : Counter!IsFiniteSet(S) <=> IsFiniteSet(S)
    BY DEF Counter!IsFiniteSet, IsFiniteSet
  <1> QED BY <1>1, <1>2

LEMMA CounterConstants == IsFiniteSet(Runs) /\ None \notin Runs /\ messages \in Nat
  BY CounterAssumption, SameCardinality DEF Counter!CounterAssumption

LEMMA MessagesFinite ==
  /\ IsFiniteSet(Runs \X (1 .. messages)) /\ Cardinality(Runs) \in Nat
  /\ Cardinality(Runs \X (1 .. messages)) = Cardinality(Runs) * messages
  <1>1. IsFiniteSet(1 .. messages) /\ Cardinality(1 .. messages) = messages
    BY CounterConstants, FS_Interval
  <1>2. Cardinality(Runs) \in Nat
    BY CounterConstants, FS_CardinalityType
  <1> QED BY <1>1, <1>2, CounterConstants, FS_Product

LEMMA PassedFinite ==
  ASSUME NEW s, NEW n
  PROVE  /\ IsFiniteSet(Counter!Passed(s, n)) /\ Cardinality(Counter!Passed(s, n)) \in Nat
         /\ Cardinality(Counter!Passed(s, n)) <= Cardinality(Runs) * messages
  <1>1. Counter!Passed(s, n) \in SUBSET (Runs \X (1 .. messages))
    BY DEF Counter!Passed, Counter!Sharing
  <1> QED BY <1>1, MessagesFinite, FS_Subset, FS_CardinalityType

LEMMA PassedFiniteNext ==
  ASSUME NEW s, NEW n
  PROVE  /\ IsFiniteSet(Counter!Passed(s, n))' /\ (Cardinality(Counter!Passed(s, n)) \in Nat)'
         /\ (Cardinality(Counter!Passed(s, n)) <= Cardinality(Runs) * messages)'
  BY PassedFinite, PTL

LEMMA CounterInit == Counter!Init => CounterInd
  <1> SUFFICES ASSUME Counter!Init PROVE CounterInd
    OBVIOUS
  <1> USE CounterConstants DEF Counter!Init
  <1>1. CounterTyped
    <2>1. rMain \in [Runs -> RunStates] /\ rItems \in [Runs -> Runs \cup {None}]
      BY DEF RunStates
    <2>2. 0 \in 0 .. messages /\ 0 \in Nat
      OBVIOUS
    <2>3. rValue \in [Runs -> Nat] /\ rPosted \in [Runs -> 0 .. messages] /\ rTaken \in [Runs -> 0 .. messages]
      BY <2>2
    <2> QED BY <2>1, <2>3 DEF CounterTyped
  <1>2. CounterOpened /\ CounterApart /\ CounterEnds
    BY DEF CounterOpened, CounterApart, CounterEnds
  <1>3. Counter!TokensCount
    <2>1. ASSUME NEW s \in Runs
          PROVE  Counter!Passed(s, rTaken) = {} /\ Counter!Passed(s, rPosted) = {}
      BY DEF Counter!Passed, Counter!Sharing
    <2> QED BY <2>1, SameCardinality, FS_EmptySet DEF Counter!TokensCount
  <1> QED BY <1>1, <1>2, <1>3 DEF CounterInd

(* Unlinking.                                                               *)
LEMMA UnlinkInd ==
  ASSUME CounterInd, NEW r \in Runs, Counter!UnlinkOld(r)
  PROVE  CounterInd'
  <1> USE CounterConstants DEF CounterInd
  <1>1. /\ rMain[r] = "unlink" /\ rMain' = [rMain EXCEPT ![r] = "open"]
        /\ rName' = None
        /\ rRaced' = (rRaced \/ \E other \in Runs : rMain[other] = "open")
        /\ UNCHANGED <<rItems, rValue, rPosted, rTaken>>
    BY DEF Counter!UnlinkOld, Counter!Goto, Counter!Unlinked, Counter!threads
  <1>2. CounterTyped'
    BY <1>1 DEF CounterTyped, RunStates
  <1>3. CounterOpened'
    BY <1>1 DEF CounterTyped, CounterOpened
  <1>4. CounterApart'
    BY <1>1 DEF CounterTyped, CounterApart
  <1>5. CounterEnds'
    BY <1>1 DEF CounterEnds
  <1>6. Counter!TokensCount'
    BY <1>1 DEF Counter!TokensCount, Counter!Passed, Counter!Sharing
  <1> QED BY <1>2, <1>3, <1>4, <1>5, <1>6

(* Opening: the run has passed on nothing yet.                              *)
LEMMA OpenInd ==
  ASSUME CounterInd, NEW r \in Runs, Counter!OpenSemaphore(r)
  PROVE  CounterInd'
  <1> USE CounterConstants DEF CounterInd
  <1>1. /\ rMain[r] = "open" /\ rMain' = [rMain EXCEPT ![r] = "run"]
        /\ rName' = (IF rName = None THEN r ELSE rName)
        /\ rItems' = [rItems EXCEPT ![r] = rName']
        /\ UNCHANGED <<rValue, rPosted, rTaken, rRaced>>
    BY DEF Counter!OpenSemaphore, Counter!Goto, Counter!threads
  <1>2. rName' \in Runs /\ rItems[r] = None /\ rPosted[r] = 0 /\ rTaken[r] = 0
    BY <1>1 DEF CounterTyped, CounterOpened
  <1>3. CounterTyped'
    BY <1>1, <1>2 DEF CounterTyped, RunStates
  <1>4. CounterOpened'
    BY <1>1, <1>2 DEF CounterTyped, CounterOpened
  <1>5. CounterApart'
    BY <1>1 DEF CounterTyped, CounterApart
  <1>6. CounterEnds'
    BY <1>1 DEF CounterTyped, CounterEnds
  <1>7. ASSUME NEW s \in Runs
        PROVE  /\ Counter!Passed(s, rTaken)' = Counter!Passed(s, rTaken)
               /\ Counter!Passed(s, rPosted)' = Counter!Passed(s, rPosted)
    <2>1. \A n \in {rTaken, rPosted} : n \in [Runs -> 0 .. messages] /\ n[r] = 0
      BY <1>2 DEF CounterTyped
    <2>2. \A q \in Runs : q # r => rItems'[q] = rItems[q]
      BY <1>1 DEF CounterTyped
    <2>3. /\ \A q \in Runs, k \in 1 .. messages :
               rItems'[q] = s /\ k <= rTaken[q] <=> rItems[q] = s /\ k <= rTaken[q]
          /\ \A q \in Runs, k \in 1 .. messages :
               rItems'[q] = s /\ k <= rPosted[q] <=> rItems[q] = s /\ k <= rPosted[q]
      BY <2>1, <2>2
    <2> QED BY <1>1, <2>3 DEF Counter!Passed, Counter!Sharing
  <1>8. Counter!TokensCount'
    <2> SUFFICES ASSUME NEW s \in Runs
                 PROVE  rValue'[s] + Counter!Cardinality(Counter!Passed(s, rTaken)')
                          = Counter!Cardinality(Counter!Passed(s, rPosted)')
      BY DEF Counter!TokensCount
    <2> QED BY <1>1, <1>7 DEF Counter!TokensCount
  <1> QED BY <1>3, <1>4, <1>5, <1>6, <1>8

(* What is passed on when one more message is.                              *)
LEMMA OneMorePassed ==
  ASSUME CounterInd, NEW r \in Runs, rItems[r] \in Runs, NEW s \in Runs,
         NEW n \in [Runs -> 0 .. messages], n[r] < messages
  PROVE  Cardinality(Counter!Passed(s, [n EXCEPT ![r] = @ + 1]))
           = Cardinality(Counter!Passed(s, n)) + (IF s = rItems[r] THEN 1 ELSE 0)
  <1> DEFINE more == [n EXCEPT ![r] = @ + 1]
             k == n[r] + 1
  <1>1. /\ n[r] \in 0 .. messages /\ k \in 1 .. messages /\ more[r] = k
        /\ \A q \in Runs : q # r => more[q] = n[q]
    BY CounterConstants
  <1>2. CASE s = rItems[r]
    <2>1. Counter!Passed(s, more) = Counter!Passed(s, n) \cup {<<r, k>>}
      <3>1. \A q \in Runs, j \in 1 .. messages : j <= more[q] <=> j <= n[q] \/ (q = r /\ j = k)
        BY <1>1, CounterConstants
      <3>2. <<r, k>> \in Counter!Sharing(s) \X (1 .. messages)
        BY <1>1, <1>2 DEF Counter!Sharing
      <3> HIDE DEF k, more
      <3>3. \A m \in Counter!Sharing(s) \X (1 .. messages) :
              m[2] <= more[m[1]] <=> m[2] <= n[m[1]] \/ m = <<r, k>>
        BY <3>1 DEF Counter!Sharing
      <3>4. r \in Runs /\ k <= more[r]
        BY <1>1, CounterConstants
      <3> QED BY <3>2, <3>3, <3>4 DEF Counter!Passed
    <2>2. <<r, k>> \notin Counter!Passed(s, n)
      BY <1>1 DEF Counter!Passed
    <2> HIDE DEF k, more
    <2>3. Cardinality(Counter!Passed(s, more)) = Cardinality(Counter!Passed(s, n)) + 1
      BY <2>1, <2>2, PassedFinite, FS_AddElement
    <2> QED BY <1>2, <2>3 DEF more
  <1>3. CASE s # rItems[r]
    <2>1. r \notin Counter!Sharing(s)
      BY <1>3 DEF Counter!Sharing
    <2>2. Counter!Passed(s, more) = Counter!Passed(s, n)
      BY <1>1, <2>1 DEF Counter!Passed, Counter!Sharing
    <2> HIDE DEF k, more
    <2>3. Cardinality(Counter!Passed(s, n)) \in Nat
      BY PassedFinite
    <2> QED BY <1>3, <2>2, <2>3 DEF more
  <1> QED BY <1>2, <1>3

(* A step that opens nothing leaves the sharing alone.                      *)
LEMMA SharingKept ==
  ASSUME NEW s, UNCHANGED rItems
  PROVE  /\ Counter!Passed(s, rPosted)' = Counter!Passed(s, rPosted')
         /\ Counter!Passed(s, rTaken)' = Counter!Passed(s, rTaken')
  BY DEF Counter!Passed, Counter!Sharing

(* A message posted is a token more.                                        *)
LEMMA PostInd ==
  ASSUME CounterInd, NEW r \in Runs, Counter!gen_message(r)
  PROVE  CounterInd'
  <1> USE CounterConstants DEF CounterInd
  <1>1. /\ rMain[r] = "run" /\ rPosted[r] < messages
        /\ rPosted' = [rPosted EXCEPT ![r] = @ + 1]
        /\ rValue' = [rValue EXCEPT ![rItems[r]] = @ + 1]
        /\ UNCHANGED <<rMain, rName, rItems, rTaken, rRaced>>
    BY DEF Counter!gen_message
  <1>2. rItems[r] \in Runs
    BY <1>1 DEF CounterTyped, CounterOpened
  <1>3. CounterTyped'
    <2>1. rPosted' \in [Runs -> 0 .. messages]
      BY <1>1 DEF CounterTyped
    <2>2. rValue' \in [Runs -> Nat]
      BY <1>1, <1>2 DEF CounterTyped
    <2> QED BY <1>1, <2>1, <2>2 DEF CounterTyped
  <1>4. CounterOpened'
    BY <1>1, <1>2 DEF CounterTyped, CounterOpened
  <1>5. CounterApart'
    <2> SUFFICES ASSUME ~rRaced PROVE CounterApart'
      BY <1>1 DEF CounterApart
    <2>1. rItems[r] = r
      BY <1>2 DEF CounterApart
    <2>2. \A q \in Runs : rValue'[q] = rPosted'[q] - rTaken'[q]
      BY <1>1, <2>1 DEF CounterTyped, CounterApart
    <2> QED BY <1>1, <2>2 DEF CounterApart
  <1>6. CounterEnds'
    BY <1>1 DEF CounterEnds
  <1>7. Counter!TokensCount'
    <2> SUFFICES ASSUME NEW s \in Runs
                 PROVE  rValue'[s] + Cardinality(Counter!Passed(s, rTaken'))
                          = Cardinality(Counter!Passed(s, rPosted'))
      BY <1>1, SharingKept, SameCardinality DEF Counter!TokensCount
    <2>1. rPosted \in [Runs -> 0 .. messages]
      BY DEF CounterTyped
    <2>2. Cardinality(Counter!Passed(s, rPosted'))
            = Cardinality(Counter!Passed(s, rPosted)) + (IF s = rItems[r] THEN 1 ELSE 0)
      BY <1>1, <1>2, <2>1, OneMorePassed
    <2>3. rValue'[s] = rValue[s] + (IF s = rItems[r] THEN 1 ELSE 0)
      BY <1>1, <1>2 DEF CounterTyped
    <2>4. rValue[s] + Cardinality(Counter!Passed(s, rTaken)) = Cardinality(Counter!Passed(s, rPosted))
      BY SameCardinality DEF Counter!TokensCount
    <2>5. /\ rValue[s] \in Nat /\ Cardinality(Counter!Passed(s, rTaken)) \in Nat
          /\ Cardinality(Counter!Passed(s, rPosted)) \in Nat
      BY PassedFinite DEF CounterTyped
    <2>6. rTaken' = rTaken
      BY <1>1
    <2> QED BY <2>2, <2>3, <2>4, <2>5, <2>6
  <1> QED BY <1>3, <1>4, <1>5, <1>6, <1>7

(* A message consumed is a token less.                                      *)
LEMMA TakeInd ==
  ASSUME CounterInd, NEW r \in Runs, Counter!consume_message(r)
  PROVE  CounterInd'
  <1> USE CounterConstants DEF CounterInd
  <1>1. /\ rMain[r] = "run" /\ rTaken[r] < messages /\ rValue[rItems[r]] > 0
        /\ rTaken' = [rTaken EXCEPT ![r] = @ + 1]
        /\ rValue' = [rValue EXCEPT ![rItems[r]] = @ - 1]
        /\ UNCHANGED <<rMain, rName, rItems, rPosted, rRaced>>
    BY DEF Counter!consume_message
  <1>2. rItems[r] \in Runs
    BY <1>1 DEF CounterTyped, CounterOpened
  <1>3. CounterTyped'
    <2>1. rTaken' \in [Runs -> 0 .. messages]
      BY <1>1 DEF CounterTyped
    <2>2. rValue' \in [Runs -> Nat]
      BY <1>1, <1>2 DEF CounterTyped
    <2> QED BY <1>1, <2>1, <2>2 DEF CounterTyped
  <1>4. CounterOpened'
    BY <1>1, <1>2 DEF CounterTyped, CounterOpened
  <1>5. CounterApart'
    <2> SUFFICES ASSUME ~rRaced PROVE CounterApart'
      BY <1>1 DEF CounterApart
    <2>1. rItems[r] = r
      BY <1>2 DEF CounterApart
    <2>2. \A q \in Runs : rValue'[q] = rPosted'[q] - rTaken'[q]
      BY <1>1, <2>1 DEF CounterTyped, CounterApart
    <2> QED BY <1>1, <2>2 DEF CounterApart
  <1>6. CounterEnds'
    BY <1>1 DEF CounterEnds
  <1>7. Counter!TokensCount'
    <2> SUFFICES ASSUME NEW s \in Runs
                 PROVE  rValue'[s] + Cardinality(Counter!Passed(s, rTaken'))
                          = Cardinality(Counter!Passed(s, rPosted'))
      BY <1>1, SharingKept, SameCardinality DEF Counter!TokensCount
    <2>1. rTaken \in [Runs -> 0 .. messages]
      BY DEF CounterTyped
    <2>2. Cardinality(Counter!Passed(s, rTaken'))
            = Cardinality(Counter!Passed(s, rTaken)) + (IF s = rItems[r] THEN 1 ELSE 0)
      BY <1>1, <1>2, <2>1, OneMorePassed
    <2>3. rValue'[s] = rValue[s] - (IF s = rItems[r] THEN 1 ELSE 0)
      BY <1>1, <1>2 DEF CounterTyped
    <2>4. rValue[s] + Cardinality(Counter!Passed(s, rTaken)) = Cardinality(Counter!Passed(s, rPosted))
      BY SameCardinality DEF Counter!TokensCount
    <2>5. /\ rValue[s] \in Nat /\ Cardinality(Counter!Passed(s, rTaken)) \in Nat
          /\ Cardinality(Counter!Passed(s, rPosted)) \in Nat
      BY PassedFinite DEF CounterTyped
    <2>6. rPosted' = rPosted
      BY <1>1
    <2> QED BY <2>2, <2>3, <2>4, <2>5, <2>6
  <1> QED BY <1>3, <1>4, <1>5, <1>6, <1>7

(* The end of a run, orderly or not, is the name's and main's affair only.  *)
LEMMA CounterStep == CounterInd /\ [Counter!Next]_(Counter!vars) => CounterInd'
  <1> SUFFICES ASSUME CounterInd, [Counter!Next]_(Counter!vars) PROVE CounterInd'
    OBVIOUS
  <1> USE CounterConstants DEF CounterInd
  <1>a. ASSUME UNCHANGED <<rItems, rValue, rPosted, rTaken>> PROVE Counter!TokensCount'
    BY <1>a DEF Counter!TokensCount, Counter!Passed, Counter!Sharing
  <1>1. ASSUME NEW r \in Runs, Counter!Join(r) PROVE CounterInd'
    <2>1. /\ rMain[r] = "run" /\ rMain' = [rMain EXCEPT ![r] = "destroy"]
          /\ rPosted[r] = messages /\ rTaken[r] = messages
          /\ UNCHANGED <<rName, rItems, rValue, rPosted, rTaken, rRaced>>
      BY <1>1 DEF Counter!Join, Counter!Joined, Counter!Goto, Counter!threads
    <2>2. CounterTyped'
      BY <2>1 DEF CounterTyped, RunStates
    <2>3. CounterOpened'
      BY <2>1 DEF CounterTyped, CounterOpened
    <2>4. CounterApart' /\ CounterEnds'
      BY <2>1 DEF CounterTyped, CounterApart, CounterEnds
    <2> QED BY <1>a, <2>1, <2>2, <2>3, <2>4
  <1>2. ASSUME NEW r \in Runs, Counter!destroy_semaphore(r) PROVE CounterInd'
    <2>1. /\ rMain[r] = "destroy" /\ rMain' = [rMain EXCEPT ![r] = "ended"]
          /\ rName' = None /\ UNCHANGED <<rItems, rValue, rPosted, rTaken, rRaced>>
      BY <1>2 DEF Counter!destroy_semaphore, Counter!Goto, Counter!threads
    <2>2. CounterTyped'
      BY <2>1 DEF CounterTyped, RunStates
    <2>3. CounterOpened'
      BY <2>1 DEF CounterTyped, CounterOpened
    <2>4. CounterApart' /\ CounterEnds'
      BY <2>1 DEF CounterTyped, CounterApart, CounterEnds
    <2> QED BY <1>a, <2>1, <2>2, <2>3, <2>4
  <1>3. ASSUME NEW r \in Runs, Counter!Crash(r) PROVE CounterInd'
    <2>1. /\ rMain' = [rMain EXCEPT ![r] = "crashed"]
          /\ UNCHANGED <<rName, rItems, rValue, rPosted, rTaken, rRaced>>
      BY <1>3 DEF Counter!Crash, Counter!threads
    <2>2. CounterTyped'
      BY <2>1 DEF CounterTyped, RunStates
    <2>3. CounterOpened'
      BY <2>1 DEF CounterTyped, CounterOpened
    <2>4. CounterApart' /\ CounterEnds'
      BY <2>1 DEF CounterTyped, CounterApart, CounterEnds
    <2> QED BY <1>a, <2>1, <2>2, <2>3, <2>4
  <1>4. CASE UNCHANGED Counter!vars
    <2>1. UNCHANGED <<rMain, rName, rValue, rItems, rPosted, rTaken, rRaced>>
      BY <1>4 DEF Counter!vars
    <2> QED BY <1>a, <2>1 DEF CounterTyped, CounterOpened, CounterApart, CounterEnds
  <1> QED BY <1>1, <1>2, <1>3, <1>4, UnlinkInd, OpenInd, PostInd, TakeInd
       DEF Counter!Next, Counter!Run, Counter!init_semaphore, Counter!Terminated

(* No run of pthread/resource_counter.c consumes tokens of an earlier one, for
   any number of runs and messages and whenever runs start and are killed:
   unless two of them unlink the name at the same moment each has a semaphore
   of its own; tokens are messages posted and not consumed in any case; and
   the name outlives only a run that was killed.                            *)
THEOREM TokensAreFresh == Counter!Spec => []NoStaleTokens
  <1>1. CounterInd => NoStaleTokens
    <2> SUFFICES ASSUME CounterInd PROVE NoStaleTokens
      OBVIOUS
    <2> USE CounterConstants DEF CounterInd
    <2>1. Counter!TypeOK
      <3>1. ASSUME NEW s \in Runs PROVE rValue[s] \in 0 .. messages * Cardinality(Runs)
        <4>1. rValue[s] + Cardinality(Counter!Passed(s, rTaken)) = Cardinality(Counter!Passed(s, rPosted))
          BY SameCardinality DEF Counter!TokensCount
        <4>2. /\ rValue[s] \in Nat /\ Cardinality(Counter!Passed(s, rTaken)) \in Nat
              /\ Cardinality(Counter!Passed(s, rPosted)) \in Nat
              /\ Cardinality(Counter!Passed(s, rPosted)) <= Cardinality(Runs) * messages
          BY PassedFinite DEF CounterTyped
        <4>3. Cardinality(Runs) \in Nat
          BY MessagesFinite
        <4> QED BY <4>1, <4>2, <4>3
      <3>2. rValue \in [Runs -> 0 .. messages * Counter!Cardinality(Runs)]
        BY <3>1, SameCardinality DEF CounterTyped
      <3> QED BY <3>2 DEF CounterTyped, RunStates, Counter!TypeOK
    <2>2. Counter!NoStaleTokens
      <3> SUFFICES ASSUME ~rRaced
                   PROVE  \A r \in Runs : /\ rTaken[r] <= rPosted[r]
                                          /\ \A s \in Runs : Counter!Cardinality(Counter!Sharing(s)) <= 1
        BY DEF Counter!NoStaleTokens
      <3>1. \A r \in Runs : rTaken[r] <= rPosted[r]
        BY DEF CounterTyped, CounterApart
      <3>2. ASSUME NEW s \in Runs PROVE Cardinality(Counter!Sharing(s)) <= 1
        <4>1. Counter!Sharing(s) \in SUBSET {s}
          BY DEF CounterApart, Counter!Sharing
        <4>2. IsFiniteSet({s}) /\ Cardinality({s}) = 1
          BY FS_Singleton
        <4> QED BY <4>1, <4>2, FS_Subset
      <3> QED BY <3>1, <3>2, SameCardinality
    <2>3. Counter!CleanEnd
      BY DEF CounterOpened, CounterEnds, Counter!CleanEnd
    <2> QED BY <2>1, <2>2, <2>3 DEF NoStaleTokens
  <1> QED BY <1>1, CounterInit, CounterStep, PTL DEF Counter!Spec
-----------------------------------------------------------------------------
(* multithreading/bounded_buffer.c *)

(* No sleeper of the packet queue is forgotten, although both sides signal
   after they have unlocked: BoundedBuffer's theorem, for this instance.    *)
THEOREM PacketSleepersAreOwed == Packets!Spec => []SleepersAreOwed
  <1>1. Packets!Spec => []Packets!SleepersAreOwed
    BY PacketsAssumption, Packets!NoWakeupLost
  <1>2. SleepersAreOwed <=> Packets!SleepersAreOwed
    BY DEF SleepersAreOwed
  <1> QED BY <1>1, <1>2, PTL

(* The ring guarded by semaphores and the one guarded by a mutex and conditions
   both implement a bounded FIFO channel: what is got is what was put, in that
   order and never more than fits.                                          *)
THEOREM BothImplementChannel == Spec /\ Packets!Spec => QueuesImplementChannel
  <1>1. Packets!Spec => Packets!ImplementsChannel
    BY PacketsAssumption, Packets!RefinesChannel
  <1> QED BY <1>1, RefinesChannel DEF QueuesImplementChannel
=============================================================================
