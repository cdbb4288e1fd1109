----------------------------- MODULE WaterPump -----------------------------
(***************************************************************************)
(* pthread/water_pump.c: fill_water fills the tank under the mutex,        *)
(* get_water drains it ten litres at a time and tests the EMPTY bit        *)
(* outside the mutex, show_report waits for a tank that is not empty.      *)
(* Three condition uses do not meet: get_water would wait for bits nobody  *)
(* sets, fill_water signals a condition nobody waits on, and show_report   *)
(* waits on a condition nobody signals.                                    *)
(***************************************************************************)
EXTENDS Pthreads, Integers, FiniteSets

CONSTANTS Device, User, Report,  \* fill_water, get_water, show_report
          MaxLevel,              \* MAX_LEVEL / 10: the level counts tens of litres
          MaxSpurious            \* bound on spurious wakeups

PumpAssumption ==
  /\ Device \notin {User, Report, None} /\ User \notin {Report, None} /\ Report # None
  /\ MaxLevel \in Nat \ {0} /\ MaxSpurious \in Nat

VARIABLES
  owner,     \* holder of mutex
  onReady,   \* threads blocked on is_ready
  onLevel,   \* threads blocked on is_level
  state,     \* the bits of pump->state that are 1
  level,     \* pump->level, in tens
  pc,        \* where each thread is
  poured,    \* history: tens of litres get_water took out
  spurious   \* spurious wakeups so far

vars == <<owner, onReady, onLevel, state, level, pc, poured, spurious>>

Threads == {Device, User, Report}
Empty == "empty" \in state

\* DEFAULT_STATE 0x02 is the EMPTY bit alone; READY_STATE 0x09 is bits 0 and 3.
DefaultState == {"empty"}
\* The variant's mask covers the EMPTY bit instead of bit 3.
ReadyWide == {"ready", "empty"}
ReadyState == {"ready", "progress"}

Init ==
  /\ owner = None /\ onReady = {} /\ onLevel = {}
  /\ state = DefaultState /\ level = 0
  /\ pc = [t \in Threads |-> "lock"]
  /\ poured = 0 /\ spurious = 0

Enter(t) ==
  /\ Goto(pc, t, "lock", "check")
  /\ Lock(owner, t)
  /\ UNCHANGED <<onReady, onLevel, state, level, poured, spurious>>

Leave(t, to) ==
  /\ Goto(pc, t, "unlock", to)
  /\ Unlock(owner, t)
  /\ UNCHANGED <<onReady, onLevel, state, level, poured, spurious>>
-----------------------------------------------------------------------------
(* fill_water *)

\* The tank has reached MAX_LEVEL.
FullAt(n) == n >= MaxLevel

FillMore ==
  /\ Empty
  /\ Goto(pc, Device, "check", "check")
  /\ level' = level + 1
  /\ IF FullAt(level')
       THEN state' = state \ {"empty"} /\ CondSignal(onReady)
       ELSE UNCHANGED <<state, onReady>>
  /\ UNCHANGED <<owner, onLevel, poured, spurious>>

FillEnd ==
  /\ ~Empty
  /\ Goto(pc, Device, "check", "unlock")
  /\ UNCHANGED <<owner, onReady, onLevel, state, level, poured, spurious>>

\* The second signal, after the unlock.
SignalReady ==
  /\ Goto(pc, Device, "signal", "done")
  /\ CondSignal(onReady)
  /\ UNCHANGED <<owner, onLevel, state, level, poured, spurious>>

fill_water == Enter(Device) \/ FillMore \/ FillEnd \/ Leave(Device, "signal") \/ SignalReady
-----------------------------------------------------------------------------
(* get_water *)

\* No bit of READY_STATE is set: go on.  The bits are set nowhere, so the
\* cond_wait on is_ready is never reached.
UserReady ==
  /\ state \cap ReadyState = {}
  /\ Goto(pc, User, "check", "unlock")
  /\ UNCHANGED <<owner, onReady, onLevel, state, level, poured, spurious>>

\* The loop condition, read without the mutex.
TestEmpty ==
  /\ Goto(pc, User, "test", IF Empty THEN "done" ELSE "relock")
  /\ UNCHANGED <<owner, onReady, onLevel, state, level, poured, spurious>>

Relock ==
  /\ Goto(pc, User, "relock", "drain")
  /\ Lock(owner, User)
  /\ UNCHANGED <<onReady, onLevel, state, level, poured, spurious>>

\* level is a uint8_t: below zero it wraps.  The variant sets the bit too late.
LowLate(n) == n < 0
Drained(n) == n = 0

Drain ==
  /\ Goto(pc, User, "drain", "unlock")
  /\ level' = level - 1
  /\ state' = IF Drained(level') THEN state \cup {"empty"} ELSE state
  /\ poured' = poured + 1
  /\ UNCHANGED <<owner, onReady, onLevel, spurious>>

get_water == \/ Enter(User) \/ UserReady \/ Leave(User, "test") \/ TestEmpty
             \/ Relock \/ Drain
-----------------------------------------------------------------------------
(* show_report *)

ReportWait ==
  /\ Empty
  /\ Goto(pc, Report, "check", "wait")
  /\ CondWait(owner, onLevel, Report)
  /\ UNCHANGED <<onReady, state, level, poured, spurious>>

ReportWake ==
  /\ Goto(pc, Report, "wait", "check")
  /\ CondWake(owner, onLevel, Report)
  /\ UNCHANGED <<onReady, onLevel, state, level, poured, spurious>>

ReportSpurious ==
  /\ Report \in onLevel
  /\ spurious < MaxSpurious
  /\ spurious' = spurious + 1
  /\ onLevel' = onLevel \ {Report}
  /\ UNCHANGED <<owner, onReady, state, level, pc, poured>>

\* get_temp prints the temperature.
ReportShow ==
  /\ ~Empty
  /\ Goto(pc, Report, "check", "unlock")
  /\ UNCHANGED <<owner, onReady, onLevel, state, level, poured, spurious>>

show_report == \/ Enter(Report) \/ ReportWait \/ ReportWake \/ ReportShow
               \/ Leave(Report, "done")
-----------------------------------------------------------------------------
\* main's joins, then free.
Joined == \A t \in Threads : pc[t] = "done"
Terminated == Joined /\ UNCHANGED vars

Next == fill_water \/ get_water \/ show_report \/ ReportSpurious \/ Terminated

Spec == Init /\ [][Next]_vars

\* Whoever can run eventually runs; spurious wakeups are never owed.
FairSpec == Spec /\ WF_vars(fill_water) /\ WF_vars(get_water) /\ WF_vars(show_report)
-----------------------------------------------------------------------------
(* The level of fill_water and get_water stays within the tank: the
   uint8_t never wraps, and each condition has one possible sleeper.        *)
TypeOK ==
  /\ owner \in Threads \cup {None}
  /\ onReady \subseteq {User} /\ onLevel \subseteq {Report}
  /\ state \subseteq {"ready", "empty", "progress"}
  /\ level \in 0..MaxLevel
  /\ pc \in [Threads -> {"lock", "check", "wait", "unlock", "signal", "test",
                         "relock", "drain", "done"}]
  /\ poured \in 0..MaxLevel /\ spurious \in 0..MaxSpurious

(* Whenever the mutex is free the EMPTY bit tells the truth, although
   get_water tests it without the mutex: ...                                *)
EmptyBitTruthful == owner = None => (Empty <=> level = 0)

(* ... and a thread that has decided to drain still finds water.            *)
DrainFindsWater == pc[User] \in {"relock", "drain"} => level > 0

(* The race between get_water's first unlocked test and fill_water decides
   everything: the user takes the whole tank or nothing.                    *)
AllOrNothing == pc[User] = "done" => poured \in {0, MaxLevel}

(* fill_water and get_water always return.  show_report returns if it comes
   to a tank that nobody will drain any more; otherwise it returns or, having
   found the tank empty, sleeps for ever: no condition of it is signalled.  *)
PumpStops ==
  /\ <>(pc[Device] = "done" /\ pc[User] = "done")
  /\ (pc[Report] = "lock" /\ pc[User] = "done" /\ ~Empty) ~> (pc[Report] = "done")
  /\ <>[](pc[Report] = "done" \/ Report \in onLevel)
=============================================================================
