----------------------------- MODULE ThreadPool -----------------------------
(***************************************************************************)
(* The thread pool of pthread/thread_pool.c (multithreading/tp_engine.c    *)
(* repeats it with other sizes): a ring buffer of tasks guarded by one     *)
(* mutex and one condition variable, workers that sleep on the condition   *)
(* while the ring is empty, and a main thread that submits a fixed list of *)
(* tasks, raises the shutdown flag and joins the workers.                  *)
(***************************************************************************)
EXTENDS Pthreads, Integers, Sequences, FiniteSets,
        SequenceTheorems, FiniteSetTheorems, TLAPS

CONSTANTS Workers,      \* the worker threads (thread_count of them)
          QueueSize,    \* slots of the ring (queue_size)
          NumTasks,     \* how many tasks main submits, in order 1..NumTasks
          MaxSpurious,  \* bound on spurious wakeups of pthread_cond_wait
          Main          \* the main thread (None also means "no task")

ASSUME PoolAssumption ==
  /\ IsFiniteSet(Workers)
  /\ Workers # {}
  /\ QueueSize \in 1..255
  /\ NumTasks \in Nat
  /\ MaxSpurious \in Nat
  /\ Main \notin Workers
  /\ None \notin Workers \cup {Main}
  /\ None \notin Nat

VARIABLES
  owner,      \* holder of pool->lock
  sleeping,   \* threads blocked in pthread_cond_wait(&pool->notify)
  queue, head, tail, count, shutdown,  \* the fields of threadpool_t
  pc,         \* where each worker is in worker_loop
  task,       \* the worker's local copy of the task it dequeued
  mpc,        \* where main is
  next,       \* the task main submits next
  spurious,   \* spurious wakeups so far
  accepted,   \* history: tasks submit_task returned true for, in order
  taken,      \* history: tasks dequeued, in order
  ran         \* history: tasks whose function was called, in order

sync == <<owner, sleeping>>
ring == <<queue, head, tail, count>>
hist == <<accepted, taken, ran>>
vars == <<sync, ring, shutdown, pc, task, mpc, next, spurious, hist>>

Tasks == 1..NumTasks
Slots == 0..(QueueSize - 1)
Threads == Workers \cup {Main}
WorkerPC == {"unborn", "lock", "check", "wait", "unlock", "run", "done"}
MainPC == {"spawn", "submit", "insert", "submitted",
           "flag", "flagged", "join", "exit"}

\* The slot after i; the variant forgets to wrap.
AdvanceNoWrap(i) == i + 1
Advance(i) == (i + 1) % QueueSize

\* The ring has no room; the variant notices one task too late.
FullLate == count > QueueSize
Full == count = QueueSize

\* A worker may leave; the variant leaves queued tasks behind.
MayExitEarly == shutdown
MayExit == shutdown /\ count = 0

\* A submission wakes one worker; the variant, only for an empty ring.
NotifyFirst == IF count = 0 THEN CondSignal(sleeping) ELSE UNCHANGED sleeping
NotifyOne == CondSignal(sleeping)

\* Shutdown wakes all workers; the variant wakes one.
NotifyAny == CondSignal(sleeping)
NotifyAll == CondBroadcast(sleeping)

Init ==
  /\ owner = None /\ sleeping = {}
  /\ queue = [i \in Slots |-> None]
  /\ head = 0 /\ tail = 0 /\ count = 0 /\ shutdown = FALSE
  /\ pc = [w \in Workers |-> "unborn"]
  /\ task = [w \in Workers |-> None]
  /\ mpc = "spawn" /\ next = 1 /\ spurious = 0
  /\ accepted = <<>> /\ taken = <<>> /\ ran = <<>>
-----------------------------------------------------------------------------
(* worker_loop *)

WorkerLock(w) ==
  /\ Goto(pc, w, "lock", "check")
  /\ Lock(owner, w)
  /\ UNCHANGED <<sleeping, ring, shutdown, task, mpc, next, spurious, hist>>

\* The loop condition holds: release the lock and sleep, in one step.
WorkerWait(w) ==
  /\ count = 0 /\ ~shutdown
  /\ Goto(pc, w, "check", "wait")
  /\ CondWait(owner, sleeping, w)
  /\ UNCHANGED <<ring, shutdown, task, mpc, next, spurious, hist>>

\* Woken, pthread_cond_wait takes the lock again and the loop re-evaluates.
WorkerWake(w) ==
  /\ Goto(pc, w, "wait", "check")
  /\ CondWake(owner, sleeping, w)
  /\ UNCHANGED <<sleeping, ring, shutdown, task, mpc, next, spurious, hist>>

SpuriousWake(w) ==
  /\ w \in sleeping
  /\ spurious < MaxSpurious
  /\ spurious' = spurious + 1
  /\ sleeping' = sleeping \ {w}
  /\ UNCHANGED <<owner, ring, shutdown, pc, task, mpc, next, hist>>

WorkerExit(w) ==
  /\ MayExit
  /\ Goto(pc, w, "check", "done")
  /\ Unlock(owner, w)
  /\ UNCHANGED <<sleeping, ring, shutdown, task, mpc, next, spurious, hist>>

WorkerTake(w) ==
  /\ count > 0
  /\ Goto(pc, w, "check", "unlock")
  /\ task' = [task EXCEPT ![w] = queue[head]]
  /\ head' = Advance(head)
  /\ count' = count - 1
  /\ taken' = Append(taken, queue[head])
  /\ UNCHANGED <<sync, queue, tail, shutdown, mpc, next, spurious, accepted, ran>>

WorkerUnlock(w) ==
  /\ Goto(pc, w, "unlock", "run")
  /\ Unlock(owner, w)
  /\ UNCHANGED <<sleeping, ring, shutdown, task, mpc, next, spurious, hist>>

\* Outside the lock: call the function, unless it is NULL.
WorkerRun(w) ==
  /\ Goto(pc, w, "run", "lock")
  /\ ran' = IF task[w] # None THEN Append(ran, task[w]) ELSE ran
  /\ UNCHANGED <<sync, ring, shutdown, task, mpc, next, spurious, accepted, taken>>

Worker(w) ==
  \/ WorkerLock(w) \/ WorkerWait(w) \/ WorkerWake(w) \/ WorkerExit(w)
  \/ WorkerTake(w) \/ WorkerUnlock(w) \/ WorkerRun(w)
-----------------------------------------------------------------------------
(* main and submit_task *)

MainStep(from, to) == mpc = from /\ mpc' = to

Spawn ==
  /\ mpc = "spawn"
  /\ \E w \in Workers : Goto(pc, w, "unborn", "lock")
  /\ mpc' = IF \A w \in Workers : pc'[w] # "unborn" THEN "submit" ELSE "spawn"
  /\ UNCHANGED <<sync, ring, shutdown, task, next, spurious, hist>>

SubmitLock ==
  /\ next <= NumTasks
  /\ MainStep("submit", "insert")
  /\ Lock(owner, Main)
  /\ UNCHANGED <<sleeping, ring, shutdown, pc, task, next, spurious, hist>>

\* The ring is full: unlock and return false; main ignores the result.
SubmitReject ==
  /\ Full
  /\ MainStep("insert", "submit")
  /\ Unlock(owner, Main)
  /\ next' = next + 1
  /\ UNCHANGED <<sleeping, ring, shutdown, pc, task, spurious, hist>>

SubmitInsert ==
  /\ ~Full
  /\ MainStep("insert", "submitted")
  /\ queue' = [queue EXCEPT ![tail] = next]
  /\ tail' = Advance(tail)
  /\ count' = count + 1
  /\ NotifyOne
  /\ accepted' = Append(accepted, next)
  /\ UNCHANGED <<owner, head, shutdown, pc, task, next, spurious, taken, ran>>

SubmitUnlock ==
  /\ MainStep("submitted", "submit")
  /\ Unlock(owner, Main)
  /\ next' = next + 1
  /\ UNCHANGED <<sleeping, ring, shutdown, pc, task, spurious, hist>>

ShutdownLock ==
  /\ next > NumTasks
  /\ MainStep("submit", "flag")
  /\ Lock(owner, Main)
  /\ UNCHANGED <<sleeping, ring, shutdown, pc, task, next, spurious, hist>>

ShutdownFlag ==
  /\ MainStep("flag", "flagged")
  /\ shutdown' = TRUE
  /\ NotifyAll
  /\ UNCHANGED <<owner, ring, pc, task, next, spurious, hist>>

ShutdownUnlock ==
  /\ MainStep("flagged", "join")
  /\ Unlock(owner, Main)
  /\ UNCHANGED <<sleeping, ring, shutdown, pc, task, next, spurious, hist>>

\* The loop of pthread_join returns when every worker has returned.
JoinAll ==
  /\ \A w \in Workers : pc[w] = "done"
  /\ MainStep("join", "exit")
  /\ UNCHANGED <<sync, ring, shutdown, pc, task, next, spurious, hist>>

MainNext ==
  \/ Spawn \/ SubmitLock \/ SubmitReject \/ SubmitInsert \/ SubmitUnlock
  \/ ShutdownLock \/ ShutdownFlag \/ ShutdownUnlock \/ JoinAll

Terminated == mpc = "exit" /\ UNCHANGED vars

Next ==
  \/ MainNext
  \/ \E w \in Workers : Worker(w) \/ SpuriousWake(w)
  \/ Terminated

Spec == Init /\ [][Next]_vars

\* Every thread the scheduler can run eventually runs.
FairSpec == Spec /\ WF_vars(MainNext) /\ \A w \in Workers : WF_vars(Worker(w))
-----------------------------------------------------------------------------
(* The fields of submit_task and worker_loop keep to the ring: indices
   below queue_size, count up to it, tasks that were submitted.             *)
TypeOK ==
  /\ owner \in Threads \cup {None}
  /\ sleeping \subseteq Workers
  /\ queue \in [Slots -> Tasks \cup {None}]
  /\ head \in Slots /\ tail \in Slots /\ count \in 0..QueueSize
  /\ shutdown \in BOOLEAN
  /\ pc \in [Workers -> WorkerPC]
  /\ task \in [Workers -> Tasks \cup {None}]
  /\ mpc \in MainPC
  /\ next \in 1..(NumTasks + 1)
  /\ spurious \in 0..MaxSpurious
  /\ accepted \in Seq(Tasks) /\ taken \in Seq(Tasks) /\ ran \in Seq(Tasks)

\* The slot i places after the head of the ring, without the modulo.
SlotAt(i) == IF head + i < QueueSize THEN head + i ELSE head + i - QueueSize

\* The tasks waiting in the ring, oldest first.
Pending == [i \in 1..count |-> queue[SlotAt(i - 1)]]

\* Workers that will look at the ring again without being signalled first:
\* woken ones on their way to the lock and the one that holds it.
Alert == {w \in Workers : pc[w] = "check" \/ (pc[w] = "wait" /\ w \notin sleeping)}

(* No wakeup is lost (submit_task's signal against worker_loop's wait loop):
   while any worker sleeps, each queued task has an alert worker of its own. *)
TaskHasAlertWorker == sleeping # {} => count <= Cardinality(Alert)

(* Graceful shutdown (main's broadcast and joins): when main leaves, every
   task that submit_task accepted has run, none of them twice.              *)
GracefulShutdown ==
  mpc = "exit" =>
    /\ Len(ran) = Len(accepted)
    /\ \A i \in 1..Len(accepted) : \E j \in 1..Len(ran) : ran[j] = accepted[i]

Channel == INSTANCE BoundedChannel
             WITH Values <- Tasks, Capacity <- QueueSize,
                  pending <- Pending, delivered <- taken

(* submit_task and worker_loop together implement a bounded FIFO channel.  *)
ImplementsChannel == Channel!Spec

(* main's shutdown sequence terminates: no worker sleeps through it.        *)
Termination == <>(mpc = "exit")
-----------------------------------------------------------------------------
(* Proofs, for any number of workers, any ring of 1..255 slots and any number
   of submissions.                                                          *)

(* Adding one modulo QueueSize moves to the next slot, or wraps to 0.       *)
LEMMA AdvanceWraps ==
  ASSUME QueueSize \in 1..255, NEW i \in Slots
  PROVE  Advance(i) = IF i + 1 = QueueSize THEN 0 ELSE i + 1
  BY SMT DEF Advance, Slots

(* The ring agrees with its indices: tail is where the pending tasks end,
   every slot between head and tail holds a task (submit_task and
   worker_loop move head, tail and count together).                         *)
RingOK ==
  /\ tail = SlotAt(count)
  /\ \A i \in 0..(count - 1) : queue[SlotAt(i)] \in Tasks

(* While main is inside submit_task, next is one of its tasks.              *)
NextOK == mpc \in {"insert", "submitted"} => next \in Tasks

IndInv == TypeOK /\ RingOK /\ NextOK

(* init_threadpool establishes the inductive invariant.                     *)
LEMMA InitInd == Init => IndInv
  <1> SUFFICES ASSUME Init PROVE IndInv
    OBVIOUS
  <1>1. TypeOK
    <2>1. accepted \in Seq(Tasks) /\ taken \in Seq(Tasks) /\ ran \in Seq(Tasks)
      BY DEF Init
    <2>2. next \in 1..(NumTasks + 1) /\ spurious \in 0..MaxSpurious
      BY PoolAssumption DEF Init
    <2>3. head \in Slots /\ tail \in Slots /\ count \in 0..QueueSize
      BY PoolAssumption DEF Init, Slots
    <2>4. owner \in Threads \cup {None} /\ sleeping \subseteq Workers
      BY DEF Init
    <2>5. /\ queue \in [Slots -> Tasks \cup {None}]
          /\ pc \in [Workers -> WorkerPC]
          /\ task \in [Workers -> Tasks \cup {None}]
      BY DEF Init, WorkerPC
    <2>6. shutdown \in BOOLEAN /\ mpc \in MainPC
      BY DEF Init, MainPC
    <2> QED BY <2>1, <2>2, <2>3, <2>4, <2>5, <2>6 DEF TypeOK
  <1>2. RingOK
    BY PoolAssumption DEF Init, RingOK, SlotAt
  <1>3. NextOK
    BY DEF Init, NextOK
  <1> QED BY <1>1, <1>2, <1>3 DEF IndInv

(* A worker dequeues from head.                                             *)
LEMMA TakeInd ==
  ASSUME IndInv, NEW w \in Workers, WorkerTake(w)
  PROVE  IndInv'
  <1> USE PoolAssumption DEF IndInv, WorkerTake, Goto, sync
  <1>1. Advance(head) = IF head + 1 = QueueSize THEN 0 ELSE head + 1
    BY AdvanceWraps DEF TypeOK
  <1>2. /\ head \in Slots /\ count \in 1..QueueSize /\ SlotAt(0) = head
        /\ queue[head] \in Tasks
    <2>1. head \in Slots /\ count \in 1..QueueSize
      BY DEF TypeOK
    <2>2. SlotAt(0) = head
      BY <2>1 DEF SlotAt, Slots
    <2>3. queue[head] \in Tasks
      BY <2>1, <2>2 DEF RingOK
    <2> QED BY <2>1, <2>2, <2>3
  <1>3. \A i \in 0..(count - 1) : SlotAt(i)' = SlotAt(i + 1)
    BY <1>1, <1>2 DEF SlotAt, Slots
  <1>4. TypeOK'
    <2>1. taken' \in Seq(Tasks)
      BY <1>2 DEF TypeOK
    <2>2. /\ head' \in Slots /\ count' \in 0..QueueSize
          /\ task' \in [Workers -> Tasks \cup {None}]
      BY <1>1, <1>2 DEF TypeOK, Slots
    <2>3. pc' \in [Workers -> WorkerPC]
      BY DEF TypeOK, WorkerPC
    <2> QED BY <2>1, <2>2, <2>3 DEF TypeOK
  <1>5. RingOK'
    <2>1. tail' = SlotAt(count)
      BY DEF RingOK
    <2>2. tail' = SlotAt(count)'
      BY <1>1, <1>2, <2>1 DEF SlotAt, Slots
    <2>3. \A i \in 0..(count' - 1) : queue'[SlotAt(i)'] \in Tasks
      BY <1>2, <1>3 DEF RingOK
    <2> QED BY <2>2, <2>3 DEF RingOK
  <1>6. NextOK'
    BY DEF NextOK
  <1> QED BY <1>4, <1>5, <1>6

(* main enqueues at tail.                                                   *)
LEMMA InsertInd ==
  ASSUME IndInv, SubmitInsert
  PROVE  IndInv'
  <1> USE PoolAssumption DEF IndInv, SubmitInsert, MainStep
  <1>1. Advance(tail) = IF tail + 1 = QueueSize THEN 0 ELSE tail + 1
    BY AdvanceWraps DEF TypeOK
  <1>2. /\ head \in Slots /\ tail \in Slots /\ count \in 0..(QueueSize - 1)
        /\ next \in Tasks /\ tail = SlotAt(count)
    BY DEF TypeOK, Full, NextOK, RingOK
  <1>3. \A i : SlotAt(i)' = SlotAt(i)
    BY DEF SlotAt
  <1>4. TypeOK'
    <2>1. accepted' \in Seq(Tasks)
      BY <1>2 DEF TypeOK
    <2>2. sleeping' \subseteq Workers
      BY DEF TypeOK, NotifyOne, CondSignal
    <2>3. /\ queue' \in [Slots -> Tasks \cup {None}]
          /\ tail' \in Slots /\ count' \in 0..QueueSize
      BY <1>1, <1>2 DEF TypeOK, Slots
    <2> QED BY <2>1, <2>2, <2>3 DEF TypeOK, MainPC
  <1>5. RingOK'
    <2>1. tail' = SlotAt(count + 1)
      BY <1>1, <1>2 DEF SlotAt, Slots
    <2>2. \A i \in 0..(count - 1) : SlotAt(i) \in Slots /\ SlotAt(i) # tail
      BY <1>2 DEF SlotAt, Slots
    <2>3. \A i \in 0..count : queue'[SlotAt(i)] \in Tasks
      BY <1>2, <2>2 DEF RingOK, TypeOK
    <2> QED BY <1>2, <1>3, <2>1, <2>3 DEF RingOK
  <1>6. NextOK'
    BY <1>2 DEF NextOK
  <1> QED BY <1>4, <1>5, <1>6

(* Every other step leaves the ring alone.                                  *)
LEMMA OtherInd ==
  ASSUME IndInv, UNCHANGED ring,
         TypeOK', NextOK'
  PROVE  IndInv'
  BY DEF IndInv, RingOK, SlotAt, ring

(* The remaining steps of a worker.                                         *)
LEMMA WorkerInd ==
  ASSUME IndInv, NEW w \in Workers, Worker(w) \/ SpuriousWake(w)
  PROVE  IndInv'
  <1> USE DEF IndInv, NextOK, ring, hist, sync, Goto
  <1>1. CASE WorkerLock(w)
    BY <1>1, OtherInd DEF WorkerLock, Lock, TypeOK, WorkerPC, Threads
  <1>2. CASE WorkerWait(w)
    BY <1>2, OtherInd DEF WorkerWait, CondWait, Unlock, TypeOK, WorkerPC
  <1>3. CASE WorkerWake(w)
    BY <1>3, OtherInd DEF WorkerWake, CondWake, Lock, TypeOK, WorkerPC, Threads
  <1>4. CASE WorkerExit(w)
    BY <1>4, OtherInd DEF WorkerExit, Unlock, TypeOK, WorkerPC
  <1>5. CASE WorkerTake(w)
    BY <1>5, TakeInd
  <1>6. CASE WorkerUnlock(w)
    BY <1>6, OtherInd DEF WorkerUnlock, Unlock, TypeOK, WorkerPC
  <1>7. CASE WorkerRun(w)
    <2>1. task[w] \in Tasks \cup {None}
      BY DEF TypeOK
    <2>2. ran' \in Seq(Tasks)
      BY <1>7, <2>1 DEF WorkerRun, TypeOK
    <2> QED BY <1>7, <2>2, OtherInd DEF WorkerRun, TypeOK, WorkerPC
  <1>8. CASE SpuriousWake(w)
    BY <1>8, OtherInd, PoolAssumption DEF SpuriousWake, TypeOK
  <1> QED BY <1>1, <1>2, <1>3, <1>4, <1>5, <1>6, <1>7, <1>8 DEF Worker

(* The remaining steps of main.                                             *)
LEMMA MainInd ==
  ASSUME IndInv, MainNext
  PROVE  IndInv'
  <1> USE DEF IndInv, NextOK, ring, hist, sync, MainStep
  <1>1. CASE Spawn
    <2>1. mpc' \in {"submit", "spawn"}
      BY <1>1 DEF Spawn
    <2>2. pc' \in [Workers -> WorkerPC]
      BY <1>1 DEF Spawn, Goto, TypeOK, WorkerPC
    <2>3. UNCHANGED <<sync, ring, shutdown, task, next, spurious, hist>>
      BY <1>1 DEF Spawn
    <2> QED BY <2>1, <2>2, <2>3, OtherInd DEF TypeOK, MainPC
  <1>2. CASE SubmitLock
    BY <1>2, OtherInd, PoolAssumption DEF SubmitLock, Lock, TypeOK, MainPC, Threads, Tasks
  <1>3. CASE SubmitReject
    BY <1>3, OtherInd, PoolAssumption DEF SubmitReject, Unlock, TypeOK, MainPC, Tasks
  <1>4. CASE SubmitInsert
    BY <1>4, InsertInd
  <1>5. CASE SubmitUnlock
    BY <1>5, OtherInd, PoolAssumption DEF SubmitUnlock, Unlock, TypeOK, MainPC, Tasks
  <1>6. CASE ShutdownLock
    BY <1>6, OtherInd DEF ShutdownLock, Lock, TypeOK, MainPC, Threads
  <1>7. CASE ShutdownFlag
    BY <1>7, OtherInd DEF ShutdownFlag, NotifyAll, CondBroadcast, TypeOK, MainPC
  <1>8. CASE ShutdownUnlock
    BY <1>8, OtherInd DEF ShutdownUnlock, Unlock, TypeOK, MainPC
  <1>9. CASE JoinAll
    BY <1>9, OtherInd DEF JoinAll, TypeOK, MainPC
  <1> QED BY <1>1, <1>2, <1>3, <1>4, <1>5, <1>6, <1>7, <1>8, <1>9 DEF MainNext

(* Every step of the program preserves the inductive invariant.             *)
LEMMA StepInd == IndInv /\ [Next]_vars => IndInv'
  <1> SUFFICES ASSUME IndInv, [Next]_vars PROVE IndInv'
    OBVIOUS
  <1>1. CASE MainNext
    BY <1>1, MainInd
  <1>2. CASE \E w \in Workers : Worker(w) \/ SpuriousWake(w)
    BY <1>2, WorkerInd
  <1>3. CASE UNCHANGED vars
    BY <1>3, OtherInd DEF vars, ring, sync, hist, IndInv, TypeOK, NextOK
  <1> QED BY <1>1, <1>2, <1>3 DEF Next, Terminated

(* The ring and every other variable keep their types, the indices agree
   with the contents, for every pool size.                                  *)
THEOREM Inductive == Spec => []IndInv
  BY InitInd, StepInd, PTL DEF Spec

(* Type correctness of the pool: head, tail and count of submit_task and
   worker_loop never leave the ring, only submitted tasks are ever taken.   *)
THEOREM TypeCorrect == Spec => []TypeOK
  <1>1. IndInv => TypeOK
    BY DEF IndInv
  <1> QED BY <1>1, Inductive, PTL
-----------------------------------------------------------------------------
(* The ring implements a FIFO channel *)

\* What the proofs below use of a state: the ring's shape in plain terms.
RingFacts ==
  /\ QueueSize \in 1..255 /\ count \in 0..QueueSize
  /\ head \in Slots /\ tail \in Slots /\ tail = SlotAt(count)
  /\ Advance(head) = IF head + 1 = QueueSize THEN 0 ELSE head + 1
  /\ Advance(tail) = IF tail + 1 = QueueSize THEN 0 ELSE tail + 1
  /\ queue \in [Slots -> Tasks \cup {None}]
  /\ Pending \in Seq(Tasks) /\ Len(Pending) = count
  /\ \A i \in 1..count : Pending[i] = queue[SlotAt(i - 1)]

(* What the ring of submit_task and worker_loop looks like from outside.    *)
LEMMA RingFactsHold == IndInv => RingFacts
  <1> SUFFICES ASSUME IndInv PROVE RingFacts
    OBVIOUS
  <1>1. /\ QueueSize \in 1..255 /\ count \in 0..QueueSize
        /\ head \in Slots /\ tail \in Slots /\ tail = SlotAt(count)
        /\ queue \in [Slots -> Tasks \cup {None}]
    BY PoolAssumption DEF IndInv, TypeOK, RingOK
  <1>2. \A i \in 1..count : queue[SlotAt(i - 1)] \in Tasks
    BY <1>1 DEF IndInv, RingOK
  <1>3. Pending \in [1..count -> Tasks]
    BY <1>2 DEF Pending
  <1>4. Pending \in Seq(Tasks)
    BY <1>1, <1>3, SeqDef
  <1>5. Len(Pending) = count
    BY <1>1, <1>3, <1>4, LenProperties
  <1> QED BY <1>1, <1>4, <1>5, AdvanceWraps DEF RingFacts, Pending

(* The same of the next state.                                              *)
LEMMA RingFactsNext == IndInv' => RingFacts'
  BY RingFactsHold, PTL

(* Taking a task hands out the oldest pending one.                          *)
LEMMA TakeMaps ==
  ASSUME RingFacts, RingFacts', NEW w \in Workers, WorkerTake(w)
  PROVE  Channel!Get
  <1>1. /\ count \in 1..QueueSize /\ count' = count - 1
        /\ head' = Advance(head) /\ queue' = queue
        /\ taken' = Append(taken, queue[head])
    BY DEF RingFacts, WorkerTake
  <1>2. \A i \in 0..(count - 1) : SlotAt(i)' = SlotAt(i + 1)
    BY <1>1 DEF RingFacts, SlotAt, Slots
  <1>3. SlotAt(0) = head
    BY DEF RingFacts, SlotAt, Slots
  <1>4. Pending # <<>> /\ Head(Pending) = queue[head]
    BY <1>1, <1>3 DEF RingFacts
  <1>5. Pending' = Tail(Pending)
    <2>1. /\ Tail(Pending) \in Seq(Tasks) /\ Len(Tail(Pending)) = count - 1
          /\ \A i \in 1..(count - 1) : Tail(Pending)[i] = Pending[i + 1]
      BY <1>1, <1>4, HeadTailProperties DEF RingFacts
    <2>2. \A i \in 1..(count - 1) : Pending'[i] = Pending[i + 1]
      <3> TAKE i \in 1..(count - 1)
      <3>1. Pending'[i] = queue[SlotAt(i - 1)']
        BY <1>1 DEF RingFacts
      <3>2. i - 1 \in 0..(count - 1) /\ i + 1 \in 1..count /\ (i - 1) + 1 = i
        BY <1>1
      <3>3. SlotAt(i - 1)' = SlotAt(i) /\ (i + 1) - 1 = i
        BY <1>2, <3>2
      <3>4. Pending[i + 1] = queue[SlotAt(i)]
        BY <3>2, <3>3 DEF RingFacts
      <3> QED BY <3>1, <3>3, <3>4
    <2>3. Pending' \in Seq(Tasks) /\ Len(Pending') = count - 1
      BY <1>1 DEF RingFacts
    <2> QED BY <2>1, <2>2, <2>3, SeqEqual
  <1> QED BY <1>1, <1>4, <1>5 DEF Channel!Get

(* Accepting a task appends it to the pending ones.                         *)
LEMMA InsertMaps ==
  ASSUME RingFacts, RingFacts', next \in Tasks, SubmitInsert
  PROVE  Channel!Put(next)
  <1>1. /\ count < QueueSize /\ count' = count + 1 /\ head' = head
        /\ queue' = [queue EXCEPT ![tail] = next] /\ taken' = taken
    BY DEF RingFacts, SubmitInsert, Full
  <1>2. \A i \in 0..count : SlotAt(i)' = SlotAt(i)
    BY <1>1 DEF SlotAt
  <1>3. \A i \in 0..(count - 1) : SlotAt(i) \in Slots /\ SlotAt(i) # tail
    BY <1>1 DEF RingFacts, SlotAt, Slots
  <1>4. Pending' = Append(Pending, next)
    <2>1. /\ Append(Pending, next) \in Seq(Tasks)
          /\ Len(Append(Pending, next)) = count + 1
          /\ \A i \in 1..count : Append(Pending, next)[i] = Pending[i]
          /\ Append(Pending, next)[count + 1] = next
      BY AppendProperties DEF RingFacts
    <2>2. \A i \in 1..count : Pending'[i] = Pending[i]
      BY <1>1, <1>2, <1>3 DEF RingFacts
    <2>3. Pending'[count + 1] = next
      BY <1>1, <1>2 DEF RingFacts
    <2>4. Pending' \in Seq(Tasks) /\ Len(Pending') = count + 1
      BY <1>1 DEF RingFacts
    <2>5. \A i \in 1..(count + 1) : Pending'[i] = Append(Pending, next)[i]
      BY <2>1, <2>2, <2>3 DEF RingFacts
    <2> QED BY <2>1, <2>4, <2>5, SeqEqual
  <1> QED BY <1>1, <1>4 DEF Channel!Put, RingFacts

(* submit_task and worker_loop implement a bounded FIFO channel: no task is
   lost, repeated or reordered, whatever the pool's size and interleaving.  *)
THEOREM RefinesChannel == Spec => ImplementsChannel
  <1>1. Init => Channel!Init
    BY DEF Init, Channel!Init, Pending
  <1>2. IndInv /\ IndInv' /\ [Next]_vars => [Channel!Next]_Channel!channelVars
    <2> SUFFICES ASSUME IndInv, IndInv', [Next]_vars
                 PROVE  [Channel!Next]_Channel!channelVars
      OBVIOUS
    <2>1. RingFacts /\ RingFacts'
      BY RingFactsHold, RingFactsNext
    <2>2. ASSUME NEW w \in Workers, WorkerTake(w)
          PROVE  Channel!Next
      BY <2>1, <2>2, TakeMaps DEF Channel!Next
    <2>3. ASSUME SubmitInsert
          PROVE  Channel!Next
      <3>1. next \in Tasks
        BY <2>3 DEF IndInv, NextOK, SubmitInsert, MainStep
      <3> QED BY <2>1, <2>3, <3>1, InsertMaps DEF Channel!Next
    <2>4. ASSUME UNCHANGED <<ring, taken>>
          PROVE  UNCHANGED Channel!channelVars
      BY <2>4 DEF ring, Channel!channelVars, Pending, SlotAt
    <2>5. ASSUME MainNext, ~SubmitInsert
          PROVE  UNCHANGED <<ring, taken>>
      BY <2>5 DEF MainNext, Spawn, SubmitLock, SubmitReject, SubmitUnlock, ShutdownLock,
                  ShutdownFlag, ShutdownUnlock, JoinAll, hist
    <2>6. ASSUME NEW w \in Workers, Worker(w) \/ SpuriousWake(w), ~WorkerTake(w)
          PROVE  UNCHANGED <<ring, taken>>
      BY <2>6 DEF Worker, WorkerLock, WorkerWait, WorkerWake, WorkerExit, WorkerUnlock,
                  WorkerRun, SpuriousWake, hist
    <2>7. UNCHANGED vars => UNCHANGED <<ring, taken>>
      BY DEF vars, hist
    <2> QED BY <2>2, <2>3, <2>4, <2>5, <2>6, <2>7 DEF Next, Terminated
  <1> QED BY <1>1, <1>2, Inductive, PTL DEF Spec, ImplementsChannel, Channel!Spec
-----------------------------------------------------------------------------
(* No wakeup is lost *)

(* Only workers in pthread_cond_wait are asleep on pool->notify.            *)
SleepersWait == \A w \in sleeping : pc[w] = "wait"

AlertInv == SleepersWait /\ TaskHasAlertWorker

(* The workers on their way to the ring are finitely many.                  *)
LEMMA AlertFinite == IsFiniteSet(Alert) /\ Cardinality(Alert) \in Nat
  <1>1. IsFiniteSet(Alert)
    BY PoolAssumption, FS_Subset DEF Alert
  <1> QED BY <1>1, FS_CardinalityType

(* The same of the next state.                                              *)
LEMMA AlertFiniteNext == IsFiniteSet(Alert') /\ Cardinality(Alert') \in Nat
  <1>1. IsFiniteSet(Alert')
    BY PoolAssumption, FS_Subset DEF Alert
  <1> QED BY <1>1, FS_CardinalityType

(* No step of submit_task, worker_loop or main leaves more tasks queued than
   workers alert while a worker sleeps: a submission wakes one, a worker
   that takes a task stays awake, shutdown wakes all.                       *)
LEMMA AlertStep == IndInv /\ AlertInv /\ [Next]_vars => AlertInv'
  <1> SUFFICES ASSUME IndInv, AlertInv, [Next]_vars PROVE AlertInv'
    OBVIOUS
  <1>1. /\ count \in Nat /\ sleeping \subseteq Workers /\ pc \in [Workers -> WorkerPC]
        /\ SleepersWait
    BY DEF IndInv, TypeOK, AlertInv
  <1> HIDE DEF Alert
  \* The shape of most steps: nobody falls asleep, nobody stops being alert.
  <1>2. ASSUME SleepersWait', sleeping' \subseteq sleeping, count' <= count, count' \in Nat,
               Alert \subseteq Alert'
        PROVE  AlertInv'
    <2>1. Cardinality(Alert) <= Cardinality(Alert')
      BY <1>2, AlertFiniteNext, FS_Subset
    <2> QED BY <1>1, <1>2, <2>1, AlertFinite, AlertFiniteNext DEF AlertInv, TaskHasAlertWorker
  <1>3. ASSUME NEW w \in Workers, WorkerLock(w) \/ WorkerWake(w) \/ WorkerUnlock(w)
                                  \/ WorkerRun(w) \/ SpuriousWake(w)
        PROVE  AlertInv'
    <2>1. SleepersWait' /\ sleeping' \subseteq sleeping /\ count' = count
      BY <1>1, <1>3 DEF SleepersWait, WorkerLock, WorkerWake, CondWake, WorkerUnlock,
                        WorkerRun, SpuriousWake, Goto, sync, ring
    <2>2. Alert \subseteq Alert'
      BY <1>1, <1>3 DEF Alert, WorkerLock, WorkerWake, CondWake, WorkerUnlock, WorkerRun,
                        SpuriousWake, Goto, sync
    <2> QED BY <1>1, <1>2, <2>1, <2>2
  <1>4. ASSUME NEW w \in Workers, WorkerWait(w) \/ WorkerExit(w)
        PROVE  AlertInv'
    <2>1. SleepersWait' /\ count' = 0
      BY <1>1, <1>4 DEF SleepersWait, WorkerWait, CondWait, WorkerExit, MayExit, Goto, ring
    <2> QED BY <2>1, AlertFiniteNext DEF AlertInv, TaskHasAlertWorker
  <1>5. ASSUME NEW w \in Workers, WorkerTake(w)
        PROVE  AlertInv'
    <2>1. SleepersWait' /\ sleeping' = sleeping /\ count' = count - 1 /\ count > 0
      BY <1>1, <1>5 DEF SleepersWait, WorkerTake, Goto, sync
    <2>2. w \in Alert /\ Alert' = Alert \ {w}
      BY <1>1, <1>5 DEF Alert, WorkerTake, Goto, sync
    <2>3. Cardinality(Alert') = Cardinality(Alert) - 1
      BY <2>2, AlertFinite, FS_RemoveElement
    <2> QED BY <1>1, <2>1, <2>3, AlertFinite DEF AlertInv, TaskHasAlertWorker
  <1>6. ASSUME SubmitInsert
        PROVE  AlertInv'
    <2>1. CASE sleeping = {}
      BY <1>6, <2>1 DEF SubmitInsert, NotifyOne, CondSignal, AlertInv, SleepersWait,
                        TaskHasAlertWorker
    <2>2. CASE sleeping # {}
      <3>1. PICK w \in sleeping : sleeping' = sleeping \ {w}
        BY <1>6, <2>2 DEF SubmitInsert, NotifyOne, CondSignal
      <3>2. SleepersWait' /\ count' = count + 1 /\ pc' = pc
        BY <1>1, <1>6, <3>1 DEF SubmitInsert, SleepersWait
      <3>3. w \notin Alert /\ Alert' = Alert \cup {w}
        BY <1>1, <3>1, <3>2 DEF Alert, SleepersWait
      <3>4. Cardinality(Alert') = Cardinality(Alert) + 1
        BY <3>3, AlertFinite, FS_AddElement
      <3> QED BY <1>1, <2>2, <3>2, <3>4, AlertFinite DEF AlertInv, TaskHasAlertWorker
    <2> QED BY <2>1, <2>2
  <1>7. ASSUME MainNext, ~SubmitInsert
        PROVE  AlertInv'
    <2>1. SleepersWait' /\ sleeping' \subseteq sleeping /\ count' = count
      BY <1>1, <1>7 DEF MainNext, Spawn, SubmitLock, SubmitReject, SubmitUnlock, ShutdownLock,
                        ShutdownFlag, NotifyAll, CondBroadcast, ShutdownUnlock, JoinAll,
                        Goto, SleepersWait, sync, ring
    <2>2. Alert \subseteq Alert'
      BY <1>1, <1>7 DEF MainNext, Spawn, SubmitLock, SubmitReject, SubmitUnlock, ShutdownLock,
                        ShutdownFlag, NotifyAll, CondBroadcast, ShutdownUnlock, JoinAll,
                        Goto, Alert, sync
    <2> QED BY <1>1, <1>2, <2>1, <2>2
  <1>8. ASSUME UNCHANGED vars
        PROVE  AlertInv'
    BY <1>8 DEF vars, sync, ring, AlertInv, SleepersWait, TaskHasAlertWorker, Alert
  <1> QED BY <1>3, <1>4, <1>5, <1>6, <1>7, <1>8 DEF Next, Terminated, Worker

(* submit_task wakes enough workers: while any worker sleeps, every queued
   task has a worker of its own on its way to the ring, for every pool.     *)
THEOREM NoLostWakeup == Spec => []TaskHasAlertWorker
  <1>1. Init => AlertInv
    BY DEF Init, AlertInv, SleepersWait, TaskHasAlertWorker
  <1>2. AlertInv => TaskHasAlertWorker
    BY DEF AlertInv
  <1> QED BY <1>1, <1>2, AlertStep, Inductive, PTL DEF Spec
-----------------------------------------------------------------------------
(* Graceful shutdown *)

\* Workers with a task they took and have not called yet.
Busy == {w \in Workers : pc[w] \in {"unlock", "run"}}

(* A worker returns only from an empty ring after the flag is up, main accepts
   nothing after it raised the flag and leaves when every worker returned.  *)
LeavingInOrder ==
  /\ \A w \in Workers : pc[w] = "done" => shutdown /\ count = 0
  /\ shutdown => mpc \in {"flagged", "join", "exit"}
  /\ mpc = "exit" => \A w \in Workers : pc[w] = "done"

(* What submit_task accepted was taken, in that order, or is in the ring.   *)
AcceptedAccounted ==
  /\ Len(accepted) = Len(taken) + count
  /\ \A i \in 1..Len(taken) : accepted[i] = taken[i]
  /\ \A i \in 1..count : accepted[Len(taken) + i] = queue[SlotAt(i - 1)]

(* What was taken has run, or is in the hands of a worker of its own.       *)
TakenAccounted ==
  /\ \A w \in Busy : task[w] \in Tasks
  /\ Len(taken) = Len(ran) + Cardinality(Busy)
  /\ \A i \in 1..Len(taken) : \/ \E j \in 1..Len(ran) : ran[j] = taken[i]
                              \/ \E w \in Busy : task[w] = taken[i]

(* main's flag, its broadcast and the exits of worker_loop keep their order. *)
LEMMA LeavingStep == IndInv /\ LeavingInOrder /\ [Next]_vars => LeavingInOrder'
  <1> SUFFICES ASSUME IndInv, LeavingInOrder, [Next]_vars PROVE LeavingInOrder'
    OBVIOUS
  <1> USE DEF LeavingInOrder, ring, sync, hist, Goto
  <1>1. pc \in [Workers -> WorkerPC] /\ count \in Nat
    BY DEF IndInv, TypeOK
  <1>2. ASSUME NEW w \in Workers, Worker(w) \/ SpuriousWake(w)
        PROVE  LeavingInOrder'
    <2>1. CASE WorkerExit(w)
      BY <1>1, <2>1 DEF WorkerExit, MayExit
    <2>2. CASE WorkerTake(w)
      BY <1>1, <2>2 DEF WorkerTake
    <2>3. CASE WorkerLock(w) \/ WorkerWait(w) \/ WorkerWake(w) \/ WorkerUnlock(w)
               \/ WorkerRun(w) \/ SpuriousWake(w)
      BY <1>1, <2>3 DEF WorkerLock, WorkerWait, WorkerWake, WorkerUnlock, WorkerRun, SpuriousWake
    <2> QED BY <1>2, <2>1, <2>2, <2>3 DEF Worker
  <1>3. ASSUME MainNext
        PROVE  LeavingInOrder'
    BY <1>1, <1>3 DEF MainNext, MainStep, Spawn, SubmitLock, SubmitReject, SubmitInsert,
                      SubmitUnlock, ShutdownLock, ShutdownFlag, ShutdownUnlock, JoinAll
  <1>4. ASSUME UNCHANGED vars
        PROVE  LeavingInOrder'
    BY <1>4 DEF vars
  <1> QED BY <1>2, <1>3, <1>4 DEF Next, Terminated

(* submit_task appends to what is accepted where the ring grows; worker_loop
   moves the oldest task over to what is taken.                             *)
LEMMA AcceptedStep == IndInv /\ AcceptedAccounted /\ [Next]_vars => AcceptedAccounted'
  <1> SUFFICES ASSUME IndInv, AcceptedAccounted, [Next]_vars PROVE AcceptedAccounted'
    OBVIOUS
  <1>1. /\ RingFacts
        /\ accepted \in Seq(Tasks) /\ taken \in Seq(Tasks)
    BY RingFactsHold DEF IndInv, TypeOK
  <1>2. ASSUME NEW w \in Workers, WorkerTake(w)
        PROVE  AcceptedAccounted'
    <2>1. /\ count \in 1..QueueSize /\ count' = count - 1
          /\ head' = Advance(head) /\ queue' = queue /\ accepted' = accepted
          /\ taken' = Append(taken, queue[head])
      BY <1>1, <1>2 DEF RingFacts, WorkerTake
    <2>2. \A i \in 0..(count - 1) : SlotAt(i)' = SlotAt(i + 1)
      BY <1>1, <2>1 DEF RingFacts, SlotAt, Slots
    <2>3. SlotAt(0) = head
      BY <1>1 DEF RingFacts, SlotAt, Slots
    <2>4. accepted[Len(taken) + 1] = queue[head]
      BY <1>1, <2>1, <2>3 DEF AcceptedAccounted
    <2>5. /\ Len(taken) \in Nat /\ Len(taken') = Len(taken) + 1
          /\ \A i \in 1..Len(taken) : taken'[i] = taken[i]
          /\ taken'[Len(taken) + 1] = queue[head]
      BY <1>1, <2>1
    <2>6. \A i \in 1..(count - 1) : accepted[Len(taken) + 1 + i] = queue[SlotAt(i - 1)']
      <3> TAKE i \in 1..(count - 1)
      <3>1. i - 1 \in 0..(count - 1) /\ i + 1 \in 1..count /\ (i - 1) + 1 = i /\ (i + 1) - 1 = i
        BY <2>1
      <3>2. accepted[Len(taken) + (i + 1)] = queue[SlotAt(i)]
        BY <3>1 DEF AcceptedAccounted
      <3>3. Len(taken) + (i + 1) = Len(taken) + 1 + i
        BY <2>1, <2>5
      <3> QED BY <2>2, <3>1, <3>2, <3>3
    <2> QED BY <1>1, <2>1, <2>4, <2>5, <2>6 DEF AcceptedAccounted
  <1>3. ASSUME SubmitInsert
        PROVE  AcceptedAccounted'
    <2>1. /\ count \in Nat /\ count \in 0..(QueueSize - 1) /\ count' = count + 1 /\ head' = head
          /\ queue' = [queue EXCEPT ![tail] = next] /\ taken' = taken
          /\ accepted' = Append(accepted, next)
      BY <1>1, <1>3 DEF RingFacts, SubmitInsert, Full
    <2>2. \A i \in 0..count : SlotAt(i)' = SlotAt(i)
      BY <2>1 DEF SlotAt
    <2>3. \A i \in 0..(count - 1) : SlotAt(i) \in Slots /\ SlotAt(i) # tail
      BY <1>1, <2>1 DEF RingFacts, SlotAt, Slots
    <2>4. /\ Len(accepted) \in Nat /\ Len(taken) \in Nat /\ Len(accepted') = Len(accepted) + 1
          /\ \A i \in 1..Len(accepted) : accepted'[i] = accepted[i]
          /\ accepted'[Len(accepted) + 1] = next
      BY <1>1, <2>1
    <2>5. \A i \in 1..count : accepted'[Len(taken) + i] = queue'[SlotAt(i - 1)']
      <3> TAKE i \in 1..count
      <3>1. i - 1 \in 0..(count - 1) /\ Len(taken) + i \in 1..Len(accepted)
        BY <2>1, <2>4 DEF AcceptedAccounted
      <3>2. queue'[SlotAt(i - 1)] = queue[SlotAt(i - 1)]
        BY <1>1, <2>1, <2>3, <3>1 DEF RingFacts
      <3>3. SlotAt(i - 1)' = SlotAt(i - 1)
        BY <2>1, <2>2, <3>1
      <3>4. accepted'[Len(taken) + i] = queue[SlotAt(i - 1)]
        BY <2>4, <3>1 DEF AcceptedAccounted
      <3> QED BY <3>2, <3>3, <3>4
    <2>6. accepted'[Len(taken) + count + 1] = queue'[SlotAt(count)]
      BY <1>1, <2>1, <2>4 DEF AcceptedAccounted, RingFacts
    <2>7. \A i \in 1..(count + 1) : accepted'[Len(taken) + i] = queue'[SlotAt(i - 1)']
      <3> TAKE i \in 1..(count + 1)
      <3>1. CASE i \in 1..count
        BY <2>5, <3>1
      <3>2. CASE i = count + 1
        <4>1. i - 1 = count /\ i - 1 \in 0..count /\ Len(taken) + count + 1 = Len(taken) + i
          BY <2>1, <2>4, <3>2
        <4> QED BY <2>2, <2>6, <4>1
      <3>3. i \in 1..count \/ i = count + 1
        BY <2>1
      <3> QED BY <3>1, <3>2, <3>3
    <2>8. /\ Len(accepted') = Len(taken') + count'
          /\ \A i \in 1..Len(taken') : accepted'[i] = taken'[i]
      BY <2>1, <2>4 DEF AcceptedAccounted
    <2> QED BY <2>1, <2>7, <2>8 DEF AcceptedAccounted
  <1>4. ASSUME UNCHANGED <<ring, accepted, taken>>
        PROVE  AcceptedAccounted'
    BY <1>4 DEF ring, AcceptedAccounted, SlotAt
  <1>5. ASSUME MainNext, ~SubmitInsert
        PROVE  UNCHANGED <<ring, accepted, taken>>
    BY <1>5 DEF MainNext, Spawn, SubmitLock, SubmitReject, SubmitUnlock, ShutdownLock,
                ShutdownFlag, ShutdownUnlock, JoinAll, hist
  <1>6. ASSUME NEW w \in Workers, Worker(w) \/ SpuriousWake(w), ~WorkerTake(w)
        PROVE  UNCHANGED <<ring, accepted, taken>>
    BY <1>6 DEF Worker, WorkerLock, WorkerWait, WorkerWake, WorkerExit, WorkerUnlock,
                WorkerRun, SpuriousWake, hist
  <1>7. UNCHANGED vars => UNCHANGED <<ring, accepted, taken>>
    BY DEF vars, hist
  <1> QED BY <1>2, <1>3, <1>4, <1>5, <1>6, <1>7 DEF Next, Terminated

(* Those who hold a task are finitely many.                                 *)
LEMMA BusyFinite == IsFiniteSet(Busy) /\ Cardinality(Busy) \in Nat
  <1>1. IsFiniteSet(Busy)
    BY PoolAssumption, FS_Subset DEF Busy
  <1> QED BY <1>1, FS_CardinalityType

(* A worker takes one task and calls it before it takes the next.           *)
LEMMA TakenStep == IndInv /\ TakenAccounted /\ [Next]_vars => TakenAccounted'
  <1> SUFFICES ASSUME IndInv, TakenAccounted, [Next]_vars PROVE TakenAccounted'
    OBVIOUS
  <1>1. /\ RingFacts
        /\ pc \in [Workers -> WorkerPC] /\ task \in [Workers -> Tasks \cup {None}]
        /\ taken \in Seq(Tasks) /\ ran \in Seq(Tasks)
    BY RingFactsHold DEF IndInv, TypeOK
  <1>2. ASSUME NEW w \in Workers, WorkerTake(w)
        PROVE  TakenAccounted'
    <2>1. w \notin Busy /\ Busy' = Busy \cup {w}
      BY <1>1, <1>2 DEF Busy, WorkerTake, Goto
    <2>2. Cardinality(Busy') = Cardinality(Busy) + 1
      BY <2>1, BusyFinite, FS_AddElement
    <2>3. queue[head] \in Tasks
      <3>1. count \in 1..QueueSize /\ SlotAt(0) = head
        BY <1>1, <1>2 DEF WorkerTake, RingFacts, SlotAt, Slots
      <3> QED BY <3>1 DEF IndInv, RingOK
    <2>4. /\ task' = [task EXCEPT ![w] = queue[head]] /\ ran' = ran
          /\ taken' = Append(taken, queue[head])
      BY <1>2 DEF WorkerTake
    <2>5. /\ Len(taken) \in Nat /\ Len(taken') = Len(taken) + 1
          /\ \A i \in 1..Len(taken) : taken'[i] = taken[i]
          /\ taken'[Len(taken) + 1] = queue[head]
      BY <1>1, <2>3, <2>4
    <2>6. task'[w] = queue[head] /\ \A u \in Busy : task'[u] = task[u]
      BY <1>1, <2>1, <2>4 DEF Busy
    <2>7. \A i \in 1..Len(taken') : \/ \E j \in 1..Len(ran) : ran[j] = taken'[i]
                                    \/ \E u \in Busy' : task'[u] = taken'[i]
      BY <2>1, <2>5, <2>6 DEF TakenAccounted
    <2>8. \A u \in Busy' : task'[u] \in Tasks
      BY <2>1, <2>3, <2>6 DEF TakenAccounted
    <2>9. Len(taken') = Len(ran) + Cardinality(Busy')
      BY <1>1, <2>2, <2>5, BusyFinite DEF TakenAccounted
    <2> HIDE DEF Busy
    <2> QED BY <2>4, <2>7, <2>8, <2>9 DEF TakenAccounted
  <1>3. ASSUME NEW w \in Workers, WorkerRun(w)
        PROVE  TakenAccounted'
    <2>1. w \in Busy /\ Busy' = Busy \ {w}
      BY <1>1, <1>3 DEF Busy, WorkerRun, Goto
    <2>2. Cardinality(Busy') = Cardinality(Busy) - 1
      BY <2>1, BusyFinite, FS_RemoveElement
    <2>3. task[w] \in Tasks /\ task[w] # None
      BY <2>1, PoolAssumption DEF TakenAccounted, Tasks
    <2>4. ran' = Append(ran, task[w]) /\ UNCHANGED <<task, taken>>
      BY <1>3, <2>3 DEF WorkerRun
    <2>5. /\ Len(ran) \in Nat /\ Len(ran') = Len(ran) + 1
          /\ \A j \in 1..Len(ran) : ran'[j] = ran[j]
          /\ ran'[Len(ran) + 1] = task[w]
      BY <1>1, <2>3, <2>4
    <2>6. \A i \in 1..Len(taken) : \/ \E j \in 1..Len(ran') : ran'[j] = taken[i]
                                   \/ \E u \in Busy' : task[u] = taken[i]
      <3> TAKE i \in 1..Len(taken)
      <3>1. CASE \E j \in 1..Len(ran) : ran[j] = taken[i]
        BY <2>5, <3>1
      <3>2. CASE task[w] = taken[i]
        <4>1. Len(ran) + 1 \in 1..Len(ran')
          BY <2>5
        <4> QED BY <2>5, <3>2, <4>1
      <3>3. CASE \E u \in Busy \ {w} : task[u] = taken[i]
        BY <2>1, <3>3
      <3> QED BY <3>1, <3>2, <3>3 DEF TakenAccounted
    <2>7. Len(taken) = Len(ran') + Cardinality(Busy')
      BY <1>1, <2>2, <2>5, BusyFinite DEF TakenAccounted
    <2>8. \A u \in Busy' : task[u] \in Tasks
      BY <2>1 DEF TakenAccounted
    <2> QED BY <2>4, <2>6, <2>7, <2>8 DEF TakenAccounted
  <1>4. ASSUME UNCHANGED <<task, taken, ran>>, Busy' = Busy
        PROVE  TakenAccounted'
    BY <1>4 DEF TakenAccounted
  <1>5. ASSUME MainNext
        PROVE  UNCHANGED <<task, taken, ran>> /\ Busy' = Busy
    BY <1>1, <1>5 DEF MainNext, Spawn, SubmitLock, SubmitReject, SubmitInsert, SubmitUnlock,
                      ShutdownLock, ShutdownFlag, ShutdownUnlock, JoinAll, hist, Goto, Busy
  <1>6. ASSUME NEW w \in Workers, Worker(w) \/ SpuriousWake(w), ~WorkerTake(w), ~WorkerRun(w)
        PROVE  UNCHANGED <<task, taken, ran>> /\ Busy' = Busy
    BY <1>1, <1>6 DEF Worker, WorkerLock, WorkerWait, WorkerWake, WorkerExit, WorkerUnlock,
                      SpuriousWake, hist, Goto, Busy
  <1>7. UNCHANGED vars => UNCHANGED <<task, taken, ran>> /\ Busy' = Busy
    BY DEF vars, hist, Busy
  <1> QED BY <1>2, <1>3, <1>4, <1>5, <1>6, <1>7 DEF Next, Terminated

(* When main has joined the workers, each task that submit_task accepted has
   been called once: the flag of thread_pool.c lets no worker go while the
   ring holds a task, and none goes with a task in its hands.               *)
THEOREM ShutdownIsGraceful == Spec => []GracefulShutdown
  <1> DEFINE Accounted == LeavingInOrder /\ AcceptedAccounted /\ TakenAccounted
  <1>1. Init => Accounted
    <2> SUFFICES ASSUME Init PROVE Accounted
      OBVIOUS
    <2>1. Busy = {}
      BY DEF Init, Busy
    <2>2. Cardinality(Busy) = 0
      BY <2>1, FS_EmptySet
    <2>3. LeavingInOrder
      BY DEF Init, LeavingInOrder
    <2>4. AcceptedAccounted
      BY DEF Init, AcceptedAccounted
    <2>5. TakenAccounted
      BY <2>1, <2>2 DEF Init, TakenAccounted
    <2> QED BY <2>3, <2>4, <2>5
  <1>2. IndInv /\ Accounted /\ [Next]_vars => Accounted'
    BY LeavingStep, AcceptedStep, TakenStep
  <1>3. IndInv /\ Accounted => GracefulShutdown
    <2> SUFFICES ASSUME IndInv, Accounted, mpc = "exit"
                 PROVE  /\ Len(ran) = Len(accepted)
                        /\ \A i \in 1..Len(accepted) : \E j \in 1..Len(ran) : ran[j] = accepted[i]
      BY DEF GracefulShutdown
    <2>1. count = 0 /\ Busy = {}
      BY PoolAssumption DEF LeavingInOrder, Busy
    <2>2. Cardinality(Busy) = 0
      BY <2>1, FS_EmptySet
    <2>3. Len(accepted) \in Nat /\ Len(taken) \in Nat /\ Len(ran) \in Nat
      BY DEF IndInv, TypeOK
    <2>4. Len(accepted) = Len(taken) /\ Len(taken) = Len(ran)
      BY <2>1, <2>2, <2>3 DEF AcceptedAccounted, TakenAccounted
    <2> QED BY <2>1, <2>4 DEF AcceptedAccounted, TakenAccounted
  <1> QED BY <1>1, <1>2, <1>3, Inductive, PTL DEF Spec
=============================================================================
