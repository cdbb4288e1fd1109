--------------------------- MODULE Reconciliation ---------------------------
(***************************************************************************)
(* pthread/reconciliation.c: two threads extract a list of packets each    *)
(* and mark every packet ready; a third waits until both have finished,    *)
(* prints both lists and counts them as processed; a fourth waits for that *)
(* count and compares the sizes.  One mutex, two conditions, two counters. *)
(* Every critical section without a wait in it is one step, and so is each *)
(* turn of a wait loop.                                                    *)
(***************************************************************************)
EXTENDS Naturals

CONSTANTS Quantities,  \* what Extractor.quantity may be (6 in main)
          Capacity     \* DS_MAX_SIZE

RecoAssumption == Quantities \subseteq Nat /\ Capacity \in Nat

VARIABLES
  quantity,           \* Extractor.quantity of each source
  size,               \* packets in each source's list
  ready,              \* packets marked with RECONCILIATION_READY_BIT, per source
  reconciliate_state, \* extractions finished
  process_reco,       \* lists printed
  epc, current,       \* each extractor's place, and its position in the list
  rpc, printing, node,\* start_reconciliation's place, source and position
  ppc,                \* process_reconciliation's place
  exited              \* how the process ended: "no", "failed" or "clean"

extractors == <<size, ready, reconciliate_state, epc, current>>
printer == <<process_reco, rpc, printing, node>>
vars == <<quantity, extractors, printer, ppc, exited>>

Sources == {1, 2}   \* reco->ds1 and reco->ds2

Init ==
  /\ quantity \in [Sources -> Quantities]
  /\ size = [s \in Sources |-> 0] /\ ready = [s \in Sources |-> {}]
  /\ reconciliate_state = 0 /\ process_reco = 0
  /\ epc = [s \in Sources |-> "start"] /\ current = [s \in Sources |-> 1]
  /\ rpc = "await" /\ printing = 1 /\ node = 1
  /\ ppc = "await" /\ exited = "no"

\* One turn of "while(!ready) pthread_cond_wait": go on or fall asleep.
Await(pc, condition) ==
  /\ pc = "await"
  /\ pc' = IF condition THEN "go" ELSE "asleep"

\* pthread_cond_broadcast for the one thread that may sleep on the condition.
\* The variant forgets it.
RouseNobody(pc) == UNCHANGED pc
Rouse(pc) == pc' = IF pc = "asleep" THEN "await" ELSE pc

\* exit(EXIT_FAILURE) ends every thread.
Fail == exited' = "failed"
-----------------------------------------------------------------------------
(* extract *)

At(s, from, to) == epc[s] = from /\ epc' = [epc EXCEPT ![s] = to]

ExtractStart(s) ==
  /\ quantity[s] <= Capacity
  /\ At(s, "start", "add")
  /\ UNCHANGED <<quantity, size, ready, reconciliate_state, current, printer, ppc, exited>>

ExtractRefuse(s) ==
  /\ quantity[s] > Capacity
  /\ At(s, "start", "done")
  /\ Fail
  /\ UNCHANGED <<quantity, size, ready, reconciliate_state, current, printer, ppc>>

\* add_data under the mutex; its capacity test cannot fail after ExtractStart.
AddData(s) ==
  /\ size[s] < quantity[s]
  /\ At(s, "add", "add")
  /\ size' = [size EXCEPT ![s] = @ + 1]
  /\ UNCHANGED <<quantity, ready, reconciliate_state, current, printer, ppc, exited>>

\* The loop is over: current = ds->head.
StartMarking(s) ==
  /\ size[s] >= quantity[s]
  /\ At(s, "add", "mark")
  /\ UNCHANGED <<quantity, size, ready, reconciliate_state, current, printer, ppc, exited>>

MarkReady(s) ==
  /\ current[s] <= size[s]
  /\ At(s, "mark", "mark")
  /\ ready' = [ready EXCEPT ![s] = @ \cup {current[s]}]
  /\ current' = [current EXCEPT ![s] = @ + 1]
  /\ UNCHANGED <<quantity, size, reconciliate_state, printer, ppc, exited>>

\* The counter's value that starts the next stage; the variant starts early.
BothEarly(n) == n >= 1
Both(n) == n = 2

FinishExtraction(s) ==
  /\ current[s] > size[s]
  /\ At(s, "mark", "done")
  /\ reconciliate_state' = reconciliate_state + 1
  /\ IF Both(reconciliate_state') THEN Rouse(rpc) ELSE UNCHANGED rpc
  /\ UNCHANGED <<quantity, size, ready, current, process_reco, printing, node, ppc, exited>>

extract(s) == \/ ExtractStart(s) \/ ExtractRefuse(s) \/ AddData(s) \/ StartMarking(s)
              \/ MarkReady(s) \/ FinishExtraction(s)
-----------------------------------------------------------------------------
(* start_reconciliation and print_ds_data *)

AwaitReady ==
  /\ Await(rpc, Both(reconciliate_state))
  /\ UNCHANGED <<quantity, extractors, process_reco, printing, node, ppc, exited>>

PrintNode ==
  /\ rpc = "go" /\ node <= size[printing]
  /\ node' = node + 1
  /\ UNCHANGED <<quantity, extractors, process_reco, rpc, printing, ppc, exited>>

\* Moving from the first list to the second.
NextSource(s) == s + 1

\* print_ds_data returns: go to the second list, or return as well.
PrintReturns ==
  IF printing = 1
    THEN printing' = NextSource(printing) /\ node' = 1 /\ UNCHANGED rpc
    ELSE rpc' = "done" /\ UNCHANGED <<printing, node>>

\* The list is printed: count it.
PrintEnd ==
  /\ rpc = "go" /\ 0 < size[printing] /\ size[printing] < node
  /\ process_reco' = process_reco + 1
  /\ IF Both(process_reco') THEN Rouse(ppc) ELSE UNCHANGED ppc
  /\ PrintReturns
  /\ UNCHANGED <<quantity, extractors, exited>>

\* An empty list is not printed, and never counted.  The variant counts it.
CountEmpty ==
  process_reco' = process_reco + 1 /\ IF Both(process_reco') THEN Rouse(ppc) ELSE UNCHANGED ppc
PassEmpty == UNCHANGED <<process_reco, ppc>>

PrintEmpty ==
  /\ rpc = "go" /\ size[printing] = 0
  /\ PassEmpty
  /\ PrintReturns
  /\ UNCHANGED <<quantity, extractors, exited>>

start_reconciliation == AwaitReady \/ PrintNode \/ PrintEnd \/ PrintEmpty
-----------------------------------------------------------------------------
(* process_reconciliation *)

AwaitProcessed ==
  /\ Await(ppc, Both(process_reco))
  /\ UNCHANGED <<quantity, extractors, printer, exited>>

CompareEqual ==
  /\ ppc = "go" /\ size[1] = size[2]
  /\ ppc' = "done"
  /\ UNCHANGED <<quantity, extractors, printer, exited>>

CompareDifferent ==
  /\ ppc = "go" /\ size[1] # size[2]
  /\ Fail
  /\ UNCHANGED <<quantity, extractors, printer, ppc>>

process_reconciliation == AwaitProcessed \/ CompareEqual \/ CompareDifferent
-----------------------------------------------------------------------------
\* main: the four joins, then clean for both sources; clean returns early for an
\* empty list, but then the fourth thread has not ended (StagesInOrder).
Clean ==
  /\ \A s \in Sources : epc[s] = "done"
  /\ rpc = "done" /\ ppc = "done"
  /\ exited' = "clean"
  /\ UNCHANGED <<quantity, extractors, printer, ppc>>

\* pthread_cond_wait may return without a broadcast, any number of times.
WakeSpuriously ==
  /\ \/ rpc = "asleep" /\ rpc' = "await" /\ UNCHANGED ppc
     \/ ppc = "asleep" /\ ppc' = "await" /\ UNCHANGED rpc
  /\ UNCHANGED <<quantity, extractors, process_reco, printing, node, exited>>

Running == /\ exited = "no"
           /\ \/ \E s \in Sources : extract(s)
              \/ start_reconciliation \/ process_reconciliation \/ Clean
              \/ WakeSpuriously

Terminated == exited # "no" /\ UNCHANGED vars

Next == Running \/ Terminated

Spec == Init /\ [][Next]_vars

\* Every thread that can run eventually runs, until the process ends.
FairSpec ==
  /\ Spec
  /\ \A s \in Sources : WF_vars(exited = "no" /\ extract(s))
  /\ WF_vars(exited = "no" /\ start_reconciliation)
  /\ WF_vars(exited = "no" /\ process_reconciliation)
  /\ WF_vars(exited = "no" /\ Clean)
-----------------------------------------------------------------------------
(* extract_and_process, start_reconciliation and process_reconciliation
   keep sizes within the capacity and the counters of lists within two.     *)
TypeOK ==
  /\ quantity \in [Sources -> Quantities]
  /\ size \in [Sources -> 0..Capacity]
  /\ ready \in [Sources -> SUBSET (1..Capacity)]
  /\ reconciliate_state \in 0..2 /\ process_reco \in 0..2
  /\ epc \in [Sources -> {"start", "add", "mark", "done"}]
  /\ current \in [Sources -> 1..(Capacity + 1)]
  /\ rpc \in {"await", "asleep", "go", "done"}
  /\ printing \in Sources /\ node \in 1..(Capacity + 1)
  /\ ppc \in {"await", "asleep", "go", "done"}
  /\ exited \in {"no", "failed", "clean"}

(* The lists are printed only when both are complete and every packet in
   them has been marked ready, although they are walked without the mutex.  *)
PrintsReadyData ==
  rpc \in {"go", "done"} =>
    \A s \in Sources : size[s] = quantity[s] /\ ready[s] = 1..size[s]

(* The sizes are compared only after both lists have been printed to their
   ends, and so only if neither is empty; a thread asleep on a condition has
   not been overtaken by its broadcast.                                     *)
StagesInOrder ==
  /\ ppc \in {"go", "done"} =>
       /\ rpc = "done" /\ printing = 2 /\ node = size[2] + 1
       /\ \A s \in Sources : size[s] > 0
  /\ rpc = "asleep" => reconciliate_state < 2
  /\ ppc = "asleep" => process_reco < 2

(* The verdict depends on what the extractors ask for, on no schedule.  Too
   much: the process fails.  Nothing for a source: print_ds_data returns
   before it counts the list, process_reconciliation waits for ever and main
   with it.  Otherwise equal sizes end clean and different ones fail.       *)
Verdict ==
  LET TooMuch == \E s \in Sources : quantity[s] > Capacity
      Nothing == \E s \in Sources : quantity[s] = 0
      Hung == exited = "no" /\ rpc = "done" /\ ppc \in {"await", "asleep"}
  IN  /\ TooMuch => <>(exited = "failed")
      /\ ~TooMuch /\ Nothing => <>[]Hung
      /\ ~TooMuch /\ ~Nothing /\ quantity[1] = quantity[2] => <>(exited = "clean")
      /\ ~TooMuch /\ ~Nothing /\ quantity[1] # quantity[2] => <>(exited = "failed")
=============================================================================
