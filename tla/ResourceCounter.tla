-------------------------- MODULE ResourceCounter --------------------------
(***************************************************************************)
(* pthread/resource_counter.c: a producer posts a token for each message,  *)
(* a consumer waits for one before each.  The semaphore has a name in the  *)
(* system and survives the process: main unlinks the name and opens it     *)
(* anew, in two calls.  A run may be killed at any moment and another may  *)
(* start at any moment; pthread/prod_cons.c opens the same name in the     *)
(* same two calls.                                                         *)
(***************************************************************************)
EXTENDS Pthreads, Integers, FiniteSets

CONSTANTS Runs,    \* processes
          messages \* how many each of them passes on, 5 in the code

CounterAssumption == IsFiniteSet(Runs) /\ None \notin Runs /\ messages \in Nat

VARIABLES
  main,    \* where each run's main is, or how the run ended
  name,    \* the semaphore "/items_queue" stands for, named by its creator
  value,   \* tokens of each semaphore
  items_in_queue, \* the semaphore each run has opened
  posted, taken,  \* loop counters of gen_message and consume_message
  raced    \* history: two runs were between unlinking and opening

vars == <<main, name, value, items_in_queue, posted, taken, raced>>
threads == <<value, posted, taken>>

Init ==
  /\ main = [r \in Runs |-> "unlink"]
  /\ name = None /\ value = [r \in Runs |-> 0]
  /\ items_in_queue = [r \in Runs |-> None]
  /\ posted = [r \in Runs |-> 0] /\ taken = [r \in Runs |-> 0]
  /\ raced = FALSE
-----------------------------------------------------------------------------
(* init_semaphore *)

\* The variant leaves what an earlier run may have left.
KeepName(r) == name
Unlinked(r) == None

UnlinkOld(r) ==
  /\ Goto(main, r, "unlink", "open")
  /\ name' = Unlinked(r)
  /\ raced' = (raced \/ \E other \in Runs : main[other] = "open")
  /\ UNCHANGED <<items_in_queue, threads>>

\* sem_open(O_CREAT) creates a semaphore without tokens unless one of that
\* name is there.
OpenSemaphore(r) ==
  /\ Goto(main, r, "open", "run")
  /\ name' = IF name = None THEN r ELSE name
  /\ items_in_queue' = [items_in_queue EXCEPT ![r] = name']
  /\ UNCHANGED <<threads, raced>>

init_semaphore(r) == UnlinkOld(r) \/ OpenSemaphore(r)
-----------------------------------------------------------------------------
(* The threads of a run *)

gen_message(r) ==
  /\ main[r] = "run" /\ posted[r] < messages
  /\ posted' = [posted EXCEPT ![r] = @ + 1]
  /\ value' = [value EXCEPT ![items_in_queue[r]] = @ + 1]
  /\ UNCHANGED <<main, name, items_in_queue, taken, raced>>

consume_message(r) ==
  /\ main[r] = "run" /\ taken[r] < messages
  /\ value[items_in_queue[r]] > 0
  /\ taken' = [taken EXCEPT ![r] = @ + 1]
  /\ value' = [value EXCEPT ![items_in_queue[r]] = @ - 1]
  /\ UNCHANGED <<main, name, items_in_queue, posted, raced>>

\* main joins the producer, then the consumer; the variant only the producer.
ProducerDone(r) == posted[r] = messages
Joined(r) == posted[r] = messages /\ taken[r] = messages

Join(r) ==
  /\ Goto(main, r, "run", "destroy")
  /\ Joined(r)
  /\ UNCHANGED <<name, items_in_queue, threads, raced>>

\* The name goes, whichever semaphore it stands for by now.
destroy_semaphore(r) ==
  /\ Goto(main, r, "destroy", "ended")
  /\ name' = None
  /\ UNCHANGED <<items_in_queue, threads, raced>>

\* The process is killed; what it has done to the system stays.
Crash(r) ==
  /\ main[r] \in {"open", "run", "destroy"}
  /\ main' = [main EXCEPT ![r] = "crashed"]
  /\ UNCHANGED <<name, items_in_queue, threads, raced>>

Run(r) == init_semaphore(r) \/ gen_message(r) \/ consume_message(r) \/ Join(r) \/ destroy_semaphore(r)

Over(r) == main[r] \in {"ended", "crashed"}
Terminated == (\A r \in Runs : Over(r)) /\ UNCHANGED vars

Next == Terminated \/ \E r \in Runs : Run(r) \/ Crash(r)

Spec == Init /\ [][Next]_vars

\* It is enough that some thread that can run does.  Nobody has to be killed.
FairSpec == Spec /\ WF_vars(\E r \in Runs : Run(r))
-----------------------------------------------------------------------------
Sharing(s) == {r \in Runs : items_in_queue[r] = s}

TypeOK ==
  /\ main \in [Runs -> {"unlink", "open", "run", "destroy", "ended", "crashed"}]
  /\ name \in Runs \cup {None} /\ items_in_queue \in [Runs -> Runs \cup {None}]
  /\ value \in [Runs -> 0 .. messages * Cardinality(Runs)]
  /\ posted \in [Runs -> 0 .. messages] /\ taken \in [Runs -> 0 .. messages]
  /\ raced \in BOOLEAN

(* A token is a message that was posted and not yet consumed, by the runs that
   share the semaphore: tokens and consumed messages are as many as the
   messages posted.                                                         *)
Passed(s, n) == {m \in Sharing(s) \X (1 .. messages) : m[2] <= n[m[1]]}
TokensCount ==
  \A s \in Runs : value[s] + Cardinality(Passed(s, taken)) = Cardinality(Passed(s, posted))

(* The tokens an earlier run left behind are never taken for messages of this
   one: unless two runs started at the same moment each has a semaphore of its
   own, and has consumed no more than it extracted.                         *)
NoStaleTokens ==
  raced \/ \A r \in Runs : /\ taken[r] <= posted[r]
                           /\ \A s \in Runs : Cardinality(Sharing(s)) <= 1

(* A run that was not killed leaves no name behind, and all its messages were
   consumed.                                                                *)
CleanEnd ==
  /\ (\A r \in Runs : main[r] = "ended") => name = None
  /\ \A r \in Runs : main[r] = "ended" => taken[r] = messages /\ posted[r] = messages

(* Every run ends.  The one exception takes two faults: runs that started at
   the same moment share a semaphore, and one is killed with tokens the other
   waits for.                                                               *)
AllOver ==
  \/ \A r \in Runs : Over(r)
  \/ \E s \in Runs : /\ Cardinality(Sharing(s)) > 1
                     /\ \E r \in Sharing(s) : main[r] = "crashed"

RunsEnd == <>AllOver
=============================================================================
