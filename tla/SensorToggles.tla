--------------------------- MODULE SensorToggles ----------------------------
(***************************************************************************)
(* pthread/mutex.c: main creates its threads into one handle, user1, and   *)
(* then joins that handle once for each of them.  The first join waits for *)
(* the thread created last; joining it again is undefined behaviour.  main *)
(* then reads the sensor without the mutex, destroys the mutex and frees   *)
(* the sensor, whatever the other threads are doing.                       *)
(***************************************************************************)
EXTENDS Pthreads, Integers, Sequences, FiniteSets

CONSTANT Toggles  \* the threads main creates, 10 in the code

SensorAssumption == Toggles \in Nat \ {0} /\ None \notin 1 .. Toggles

Users == 1 .. Toggles

VARIABLES
  mutex,    \* holder of the mutex
  log,      \* toggles registered
  is_on,    \* 0 or 1
  pc,       \* where each thread is
  main,     \* where main is, or the end of the program
  user1,    \* the thread the handle stands for, the last one created
  joins,    \* calls of pthread_join that have returned
  report,   \* history: is_on and log as check_sensor_state printed them
  late      \* history: threads that were not done when it began

vars == <<mutex, log, is_on, pc, main, user1, joins, report, late>>
told == <<report, late>>

Init ==
  /\ mutex = None /\ log = 0 /\ is_on = 0
  /\ pc = [u \in Users |-> "unborn"]
  /\ main = "create" /\ user1 = 0 /\ joins = 0 /\ report = <<>> /\ late = {}

\* The process is there: main has not returned and nothing undefined happened.
Running == main \notin {"returned", "undefined"}
Undefined == main' = "undefined" /\ UNCHANGED <<mutex, log, is_on, pc, user1, joins, told>>
-----------------------------------------------------------------------------
(* toggle_sensor *)

\* The variant goes on without the mutex.
EnterUnlocked(u) == UNCHANGED mutex
Enter(u) == Lock(mutex, u)

LockSensor(u) ==
  /\ Goto(pc, u, "lock", "log") /\ Enter(u)
  /\ UNCHANGED <<log, is_on, main, user1, joins, told>>

RegisterToggle(u) ==
  /\ Goto(pc, u, "log", "test")
  /\ log' = log + 1
  /\ UNCHANGED <<mutex, is_on, main, user1, joins, told>>

TestSwitch(u) ==
  /\ Goto(pc, u, "test", IF is_on = 0 THEN "turn on" ELSE "turn off")
  /\ UNCHANGED <<mutex, log, is_on, main, user1, joins, told>>

TurnSwitch(u) ==
  /\ \/ Goto(pc, u, "turn on", "unlock") /\ is_on' = 1
     \/ Goto(pc, u, "turn off", "unlock") /\ is_on' = 0
  /\ UNCHANGED <<mutex, log, main, user1, joins, told>>

Leave(u) == mutex' = None

UnlockSensor(u) ==
  /\ Goto(pc, u, "unlock", "done") /\ Leave(u)
  /\ UNCHANGED <<log, is_on, main, user1, joins, told>>

MutexGone == main \in {"free", "return"}
SensorGone == main = "return"

\* A thread that was not waited for uses the mutex that main has destroyed or
\* the sensor it has freed.  What it does then may also go well.
Late(u) ==
  /\ \/ MutexGone /\ pc[u] \in {"lock", "unlock"}
     \/ SensorGone /\ pc[u] \in {"log", "test", "turn on", "turn off"}
  /\ Undefined

toggle_sensor(u) ==
  /\ Running
  /\ \/ LockSensor(u) \/ RegisterToggle(u) \/ TestSwitch(u) \/ TurnSwitch(u)
     \/ UnlockSensor(u) \/ Late(u)
-----------------------------------------------------------------------------
(* main *)

\* Every thread goes into the same handle; the variant keeps the first one.
FirstHandle(u) == IF user1 = 0 THEN u ELSE user1
Handle(u) == u

Create ==
  /\ main = "create"
  /\ LET u == Cardinality({v \in Users : pc[v] # "unborn"}) + 1 IN
       /\ pc' = [pc EXCEPT ![u] = "lock"]
       /\ user1' = Handle(u)
       /\ main' = IF u = Toggles THEN "join" ELSE "create"
  /\ UNCHANGED <<mutex, log, is_on, joins, told>>

\* The first join waits; a later one fails and changes nothing, or worse.
Join ==
  /\ main = "join"
  /\ \/ joins > 0 /\ Undefined
     \/ /\ joins = 0 => pc[user1] = "done"
        /\ joins' = joins + 1
        /\ main' = IF joins' = Toggles THEN "switch" ELSE "join"
        /\ UNCHANGED <<mutex, log, is_on, pc, user1, told>>

\* check_sensor_state reads the switch, then the log.
CheckSwitch ==
  /\ main = "switch"
  /\ main' = "log" /\ report' = <<is_on>>
  /\ late' = {u \in Users : pc[u] # "done"}
  /\ UNCHANGED <<mutex, log, is_on, pc, user1, joins>>

CheckLog ==
  /\ main = "log"
  /\ main' = "destroy" /\ report' = <<report[1], log>>
  /\ UNCHANGED <<mutex, log, is_on, pc, user1, joins, late>>

check_sensor_state == CheckSwitch \/ CheckLog

\* To destroy a mutex that is locked is undefined as well.
Destroy ==
  /\ main = "destroy"
  /\ \/ mutex # None /\ Undefined
     \/ main' = "free" /\ UNCHANGED <<mutex, log, is_on, pc, user1, joins, told>>

Free == main = "free" /\ main' = "return" /\ UNCHANGED <<mutex, log, is_on, pc, user1, joins, told>>

\* main's return ends the process and the threads with it.
Return == main = "return" /\ main' = "returned" /\ UNCHANGED <<mutex, log, is_on, pc, user1, joins, told>>

MainStep == Create \/ Join \/ check_sensor_state \/ Destroy \/ Free \/ Return

Terminated == ~Running /\ UNCHANGED vars

Next == MainStep \/ Terminated \/ \E u \in Users : toggle_sensor(u)

Spec == Init /\ [][Next]_vars

\* The program is finite: it is enough that some thread that can run does.
FairSpec == Spec /\ WF_vars(Next)
-----------------------------------------------------------------------------
Between == {u \in Users : pc[u] \in {"test", "turn on", "turn off"}}

TypeOK ==
  /\ mutex \in Users \cup {None} /\ log \in 0 .. Toggles /\ is_on \in {0, 1}
  /\ pc \in [Users -> {"unborn", "lock", "log", "test", "turn on", "turn off", "unlock", "done"}]
  /\ main \in {"create", "join", "switch", "log", "destroy", "free", "return", "returned",
               "undefined"}
  /\ user1 \in 0 .. Toggles /\ joins \in 0 .. Toggles

(* The switch is on after an odd number of registered toggles, but for the
   thread that has registered its own and not turned the switch yet: no toggle
   is lost, whatever the threads' order.                                    *)
SwitchMatchesLog == is_on = (log - Cardinality(Between)) % 2

(* main only waits for the thread created last.  What it prints is the switch
   and the log after all toggles if no other thread was late; otherwise both
   numbers may miss toggles, and need not fit each other.                   *)
ReportHasLast ==
  Len(report) = 2 => /\ Toggles \notin late /\ report[2] >= Toggles - Cardinality(late)
                     /\ late = {} => report = <<Toggles % 2, Toggles>>

(* Undefined behaviour comes from joining user1 a second time or from a thread
   main did not wait for, never from the last one; with a single thread there
   is none.                                                                 *)
UndefinedOnlyUnjoined ==
  main = "undefined" => /\ Toggles > 1 /\ pc[Toggles] = "done"
                        /\ joins < Toggles \/ \E u \in Users : pc[u] # "done"

(* main's joins return and the program ends, if only with undefined behaviour. *)
Termination == <>(~Running)
=============================================================================
