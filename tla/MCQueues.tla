------------------------------ MODULE MCQueues ------------------------------
(***************************************************************************)
(* The bounded queues, checked together: the two that count with           *)
(* semaphores (SemRingBuffer, ProdCons) and the two guarded by a mutex and *)
(* conditions (BoundedBuffer, LoggedQueue); and the processes that share   *)
(* a named semaphore (ResourceCounter).  A run picks one of them, the      *)
(* others stay in their initial state.                                     *)
(***************************************************************************)
EXTENDS SemRingBuffer

CONSTANTS Requests,                                       \* prod_cons.c
          PacketProducers, PacketConsumers, QueueSize,    \* bounded_buffer.c
          Main, Logger, Script, Capacity, MaxSpurious,    \* recap/ring_buffer.c
          Runs, messages                                  \* resource_counter.c

\* The requests of prod_cons.c's main, two of which share a list.
MCRequests == <<"logs_view", "inventory_view", "orders_view", "users_view">>

\* The operations of recap/ring_buffer.c's main.
Pop == <<>>
MCScript == << <<14>>, <<7>>, <<21>>, <<28>>, Pop, Pop, Pop, Pop,
               <<4>>, <<11>>, <<21>>, <<13>> >>

VARIABLES
  program,
  vLock, vItems, vList, vSize, vPc, vSpawned, vFreed, vTaken,
  bOwner, bFullSleepers, bEmptySleepers, bPackets, bHead, bTail, bCount, bPc,
  bSpurious, bDelivered,
  gLock, gOnFull, gIsFull, gBuffer, gHead, gTail, gSize, gStep, gPc,
  gAccepted, gRefused, gWarned, gSpurious,
  rMain, rName, rValue, rItems, rPosted, rTaken, rRaced

Views == INSTANCE ProdCons WITH
  lock <- vLock, items_in_queue <- vItems, list <- vList,
  size <- vSize, pc <- vPc, spawned <- vSpawned, freed <- vFreed, taken <- vTaken
viewsVars == <<vLock, vItems, vList, vSize, vPc, vSpawned, vFreed, vTaken>>

Packets == INSTANCE BoundedBuffer WITH
  Producers <- PacketProducers, Consumers <- PacketConsumers,
  owner <- bOwner, fullSleepers <- bFullSleepers, emptySleepers <- bEmptySleepers,
  packets <- bPackets, head <- bHead, tail <- bTail, count <- bCount, pc <- bPc,
  spurious <- bSpurious, delivered <- bDelivered
packetsVars == <<bOwner, bFullSleepers, bEmptySleepers, bPackets, bHead, bTail, bCount,
                 bPc, bSpurious, bDelivered>>

Logged == INSTANCE LoggedQueue WITH
  lock <- gLock, onFull <- gOnFull, is_full <- gIsFull, buffer <- gBuffer,
  head <- gHead, tail <- gTail, size <- gSize, step <- gStep, pc <- gPc,
  accepted <- gAccepted, refused <- gRefused, warned <- gWarned, spurious <- gSpurious
loggedVars == <<gLock, gOnFull, gIsFull, gBuffer, gHead, gTail, gSize, gStep, gPc,
                gAccepted, gRefused, gWarned, gSpurious>>

\* The processes that share the name of the semaphore.
Counter == INSTANCE ResourceCounter WITH
  main <- rMain, name <- rName, value <- rValue,
  items_in_queue <- rItems, posted <- rPosted, taken <- rTaken, raced <- rRaced
counterVars == <<rMain, rName, rValue, rItems, rPosted, rTaken, rRaced>>

ASSUME ViewsAssumption == Views!RequestsAssumption
ASSUME PacketsAssumption == Packets!BufferAssumption
ASSUME LoggedAssumption == Logged!LoggedAssumption
ASSUME CounterAssumption == Counter!CounterAssumption

suite == <<program, vars, viewsVars, packetsVars, loggedVars, counterVars>>

SuiteInit ==
  /\ program \in {"ring", "views", "packets", "logged", "counter"}
  /\ Init /\ Views!Init /\ Packets!Init /\ Logged!Init /\ Counter!Init

\* A program that was not picked does nothing.
SuiteNext ==
  /\ UNCHANGED program
  /\ \/ program = "ring" /\ Next
     \/ program # "ring" /\ UNCHANGED vars
  /\ \/ program = "views" /\ Views!Next
     \/ program # "views" /\ UNCHANGED viewsVars
  /\ \/ program = "packets" /\ Packets!Next
     \/ program # "packets" /\ UNCHANGED packetsVars
  /\ \/ program = "logged" /\ Logged!Next
     \/ program # "logged" /\ UNCHANGED loggedVars
  /\ \/ program = "counter" /\ Counter!Next
     \/ program # "counter" /\ UNCHANGED counterVars

\* In the finite programs it is enough that some thread that can run does; only
\* the logger polls, so that main must be granted the lock in the end.  Nobody
\* has to be killed.
SuiteSpec ==
  /\ SuiteInit /\ [][SuiteNext]_suite
  /\ WF_suite(program \in {"ring", "views", "packets"} /\ SuiteNext)
  /\ WF_counterVars(program = "counter" /\ \E r \in Runs : Counter!Run(r))
  /\ SF_loggedVars(program = "logged" /\ Logged!main)
  /\ WF_loggedVars(program = "logged" /\ Logged!logger)
-----------------------------------------------------------------------------
(* add_view of pthread/prod_cons.c: every view in the lists is backed by a
   token of the semaphore, so a consumer never finds all lists empty;
   consumer_process takes no view twice; and end_process frees empty lists
   that nobody uses.                                                        *)
ViewsBacked ==
  /\ Views!TypeOK /\ Views!TokensBackViews /\ Views!ConsumerFindsView
  /\ Views!SizeCounts /\ Views!TakenOnce /\ Views!FreedEmpty

(* Nobody sleeps on the packet queue while there is something to do and no
   signal is under way: the signals after the unlock of bounded_buffer.c.   *)
SleepersAreOwed == Packets!SleepersAreOwed

(* Both queues of packets implement a FIFO channel of bounded capacity: the
   ring guarded by semaphores, its cycle of wait, lock, access, unlock and
   post, and the one whose threads signal after the unlock.                 *)
QueuesImplementChannel == ImplementsChannel /\ Packets!ImplementsChannel

(* A run of pthread/resource_counter.c never consumes tokens of a run that was
   killed before it, for the name is unlinked before it is opened; runs share
   a semaphore only if they started at the same moment, and even then every
   token is a message posted; the name outlives only a run that was killed. *)
NoStaleTokens == /\ Counter!TypeOK /\ Counter!TokensCount
                 /\ Counter!NoStaleTokens /\ Counter!CleanEnd

(* The logged ring holds what push accepted, in order; its flag is up only
   while it is full; and each warning of the logger answers a refused push of
   its own: recap/ring_buffer.c.                                            *)
RingHoldsAccepted ==
  /\ Logged!TypeOK /\ Logged!RingHoldsAccepted
  /\ Logged!FlagMeansFull /\ Logged!WarningsAnswerRefusals

(* The joins of the three mains return: nobody is left asleep on a semaphore
   or on the packet queue, whoever ran first; and recap/ring_buffer.c's logger
   never keeps main from completing its operations.  Runs of
   resource_counter.c end, unless they share the semaphore and one of them is
   killed.                                                                  *)
MainsJoin == /\ program = "ring" => Termination
             /\ program = "views" => Views!Termination
             /\ program = "packets" => Packets!Termination
             /\ program = "logged" => Logged!MainEnds
             /\ program = "counter" => Counter!RunsEnd
=============================================================================
