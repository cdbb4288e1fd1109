------------------------------ MODULE ProdCons ------------------------------
(***************************************************************************)
(* pthread/prod_cons.c: four producers hash a view's name into one of four *)
(* lists and post a semaphore; four consumers wait for a token, lock, and  *)
(* take the head of the first list that is not empty.  A token stands for  *)
(* some view, not for the consumer's own: which views are in which list    *)
(* when the consumer has the mutex is up to the scheduler.                 *)
(***************************************************************************)
EXTENDS Pthreads, SequencesExt

CONSTANT Requests   \* the views of main's requests, in order

\* hash_function adds up the characters modulo VIEWS_COUNT: two views collide.
Hash == [users_view |-> 0, orders_view |-> 1, inventory_view |-> 0, logs_view |-> 3]
Lists == 0..3

VARIABLES
  lock,      \* holder of lock
  items_in_queue, \* value of the semaphore
  list,      \* the views in each list
  size,      \* processor->size
  pc,        \* where each thread is
  spawned,   \* threads main has created, a producer and a consumer in turn
  freed,     \* end_process has run
  taken      \* history: the views consumers took, in order

vars == <<lock, items_in_queue, list, size, pc, spawned, freed, taken>>

Pairs == 1..Len(Requests)
Producer(i) == <<"producer", i>>
Consumer(i) == <<"consumer", i>>
ProducerThreads == {Producer(i) : i \in Pairs}
ConsumerThreads == {Consumer(i) : i \in Pairs}
Threads == ProducerThreads \cup ConsumerThreads

\* main asks for known views, each of them once.
RequestsAssumption ==
  /\ Requests \in Seq(DOMAIN Hash)
  /\ \A j, k \in Pairs : Requests[j] = Requests[k] => j = k
  /\ None \notin Threads

Init ==
  /\ lock = None /\ items_in_queue = 0
  /\ list = [b \in Lists |-> <<>>] /\ size = 0
  /\ pc = [t \in Threads |-> "unborn"]
  /\ spawned = 0 /\ freed = FALSE /\ taken = <<>>
-----------------------------------------------------------------------------
(* main *)

NextThread == IF spawned % 2 = 0 THEN Producer(spawned \div 2 + 1)
                                 ELSE Consumer(spawned \div 2 + 1)

Spawn ==
  /\ spawned < 2 * Len(Requests)
  /\ spawned' = spawned + 1
  /\ Goto(pc, NextThread, "unborn", "start")
  /\ UNCHANGED <<lock, items_in_queue, list, size, freed, taken>>

Joined == \A t \in Threads : pc[t] = "done"

end_process ==
  /\ ~freed /\ Joined
  /\ freed' = TRUE
  /\ UNCHANGED <<lock, items_in_queue, list, size, pc, spawned, taken>>

Terminated == freed /\ UNCHANGED vars
-----------------------------------------------------------------------------
(* add_view: every view requested is a known one *)

LockLists(t, from, to) ==
  /\ Goto(pc, t, from, to)
  /\ Lock(lock, t)
  /\ UNCHANGED <<items_in_queue, list, size, spawned, freed, taken>>

UnlockLists(t, from, to) ==
  /\ Goto(pc, t, from, to)
  /\ Unlock(lock, t)
  /\ UNCHANGED <<items_in_queue, list, size, spawned, freed, taken>>

AppendView(i) ==
  LET v == Requests[i]
      b == Hash[v] IN
  /\ Goto(pc, Producer(i), "add", "unlock")
  /\ list' = [list EXCEPT ![b] = Append(@, v)]
  /\ size' = size + 1
  /\ UNCHANGED <<lock, items_in_queue, spawned, freed, taken>>

PostToken(i) ==
  /\ Goto(pc, Producer(i), "post", "done")
  /\ SemPost(items_in_queue)
  /\ UNCHANGED <<lock, list, size, spawned, freed, taken>>

add_view(i) == \/ LockLists(Producer(i), "start", "add") \/ AppendView(i)
               \/ UnlockLists(Producer(i), "unlock", "post") \/ PostToken(i)
-----------------------------------------------------------------------------
(* consumer_process *)

\* The variant goes on without a token.
TakeNothing == UNCHANGED items_in_queue
TakeToken == SemWait(items_in_queue)

WaitToken(i) ==
  /\ Goto(pc, Consumer(i), "start", "lock")
  /\ TakeToken
  /\ UNCHANGED <<lock, list, size, spawned, freed, taken>>

Candidates == {b \in Lists : list[b] # <<>>}
\* The variant leaves the head in the list.
PeekHead(s) == s
DropHead(s) == Tail(s)

consume_any(i) ==
  /\ Goto(pc, Consumer(i), "consume", "unlock")
  /\ IF Candidates = {}
       THEN UNCHANGED <<list, size, taken>>
       ELSE LET b == Min(Candidates) IN
              /\ list' = [list EXCEPT ![b] = DropHead(@)]
              /\ size' = size - 1
              /\ taken' = Append(taken, Head(list[b]))
  /\ UNCHANGED <<lock, items_in_queue, spawned, freed>>

consumer_process(i) ==
  \/ WaitToken(i) \/ LockLists(Consumer(i), "lock", "consume")
  \/ consume_any(i) \/ UnlockLists(Consumer(i), "unlock", "done")
-----------------------------------------------------------------------------
Next == \/ Spawn \/ end_process \/ Terminated
        \/ \E i \in Pairs : add_view(i) \/ consumer_process(i)

Spec == Init /\ [][Next]_vars

\* The program is finite: it is enough that some thread that can run does.
FairSpec == Spec /\ WF_vars(Next)
-----------------------------------------------------------------------------
Stored == Len(list[0]) + Len(list[1]) + Len(list[2]) + Len(list[3])

(* add_view and consume_any keep size, lists and tokens within main's
   requests.                                                                *)
TypeOK ==
  /\ lock \in Threads \cup {None} /\ items_in_queue \in 0..Len(Requests)
  /\ list \in [Lists -> Seq(ToSet(Requests))] /\ size \in 0..Len(Requests)
  /\ pc \in [Threads -> {"unborn", "start", "lock", "add", "consume", "unlock", "post", "done"}]
  /\ spawned \in 0..2 * Len(Requests) /\ freed \in BOOLEAN
  /\ taken \in Seq(ToSet(Requests))

(* Views in the lists are tokens of the semaphore, or held by a consumer on
   its way to the lists, or about to be posted by their producer.           *)
TokensBackViews ==
  Stored = items_in_queue
           + Cardinality({j \in Pairs : pc[Producer(j)] \in {"unlock", "post"}})
           + Cardinality({j \in Pairs : pc[Consumer(j)] \in {"lock", "consume"}})

(* So a consumer never finds all lists empty, whoever overtook it; and the
   size it decrements, a uint8_t, counts the views of all lists.            *)
ConsumerFindsView == \A t \in ConsumerThreads : pc[t] = "consume" => Candidates # {}
SizeCounts == size = Stored

(* No view is taken twice, nor twice in a list, nor taken and still in a list. *)
Different(views) == \A j, k \in DOMAIN views : views[j] = views[k] => j = k
TakenOnce ==
  /\ Different(taken)
  /\ \A b \in Lists : Different(list[b]) /\ ToSet(taken) \cap ToSet(list[b]) = {}

(* When the lists are freed nothing is in them, nobody is using them, and all
   requests were processed.                                                 *)
FreedEmpty == freed => /\ Stored = 0 /\ lock = None
                       /\ ToSet(taken) = ToSet(Requests)

(* main's joins return and it cleans up.                                    *)
Termination == <>freed
=============================================================================
