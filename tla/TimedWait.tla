----------------------------- MODULE TimedWait -----------------------------
(***************************************************************************)
(* pthread/cond_timed_wait.c: a worker computes an absolute deadline, then *)
(* waits for is_ready with pthread_cond_timedwait in a loop over both the  *)
(* flag and the return code; main raises the flag after a sleep.  Time is  *)
(* a clock that ticks; a thread may be delayed at any point.               *)
(***************************************************************************)
EXTENDS Pthreads, Integers

CONSTANTS Worker, Main,
          Patience,    \* seconds the worker waits (3)
          Delays,      \* seconds main may sleep (the code's comment: 1 or 5)
          Horizon,     \* bound on the clock
          MaxSpurious  \* bound on spurious wakeups

TimedAssumption ==
  /\ Patience \in Nat /\ Horizon \in Nat /\ Patience <= Horizon
  /\ MaxSpurious \in Nat

VARIABLES
  now,        \* CLOCK_REALTIME, in seconds
  owner,      \* holder of lock
  sleeping,   \* threads blocked on data_ready
  is_ready,   \* the flag
  deadline,   \* timeout_time
  rc,         \* the worker's rc
  wpc, mpc,   \* where the worker and main are
  wakeAt,     \* when main's sleep is over
  spurious,   \* spurious wakeups so far
  askedAt     \* history: when the worker made its request

hist == <<spurious, askedAt>>
vars == <<now, owner, sleeping, is_ready, deadline, rc, wpc, mpc, wakeAt, hist>>

Init ==
  /\ now = 0 /\ owner = None /\ sleeping = {}
  /\ is_ready = FALSE /\ deadline = 0 /\ rc = "ok"
  /\ wpc = "clock" /\ mpc = "sleep"
  /\ wakeAt \in Delays
  /\ spurious = 0 /\ askedAt = 0

\* The worker reads the clock early enough for its deadline to be reached
\* within the bound.
Tick ==
  /\ now < IF wpc = "clock" THEN Horizon - Patience ELSE Horizon
  /\ now' = now + 1
  /\ UNCHANGED <<owner, sleeping, is_ready, deadline, rc, wpc, mpc, wakeAt, hist>>
-----------------------------------------------------------------------------
(* api_worker *)

WorkerStep(from, to) == wpc = from /\ wpc' = to

\* An absolute time; the variant passes the three seconds themselves.
Relative(t) == Patience
After(t) == t + Patience

SetDeadline ==
  /\ WorkerStep("clock", "lock")
  /\ deadline' = After(now)
  /\ askedAt' = now
  /\ UNCHANGED <<now, owner, sleeping, is_ready, rc, mpc, wakeAt, spurious>>

WorkerLock ==
  /\ WorkerStep("lock", "check")
  /\ Lock(owner, Worker)
  /\ UNCHANGED <<now, sleeping, is_ready, deadline, rc, mpc, wakeAt, hist>>

\* The loop's condition; the variant forgets the return code.
MustWaitFlag == ~is_ready
MustWait == ~is_ready /\ rc = "ok"

Wait ==
  /\ MustWait
  /\ WorkerStep("check", "wait")
  /\ CondWait(owner, sleeping, Worker)
  /\ UNCHANGED <<now, is_ready, deadline, rc, mpc, wakeAt, hist>>

\* The deadline has passed while nobody signalled.
Expired == now >= deadline

TimeOut ==
  /\ Worker \in sleeping /\ Expired
  /\ WorkerStep("wait", "retake")
  /\ sleeping' = sleeping \ {Worker}
  /\ rc' = "ETIMEDOUT"
  /\ UNCHANGED <<now, owner, is_ready, deadline, mpc, wakeAt, hist>>

\* Signalled, the wait returns 0, however late it gets the mutex back.
Signalled ==
  /\ Worker \notin sleeping
  /\ WorkerStep("wait", "retake")
  /\ rc' = "ok"
  /\ UNCHANGED <<now, owner, sleeping, is_ready, deadline, mpc, wakeAt, hist>>

SpuriousWake ==
  /\ Worker \in sleeping
  /\ spurious < MaxSpurious
  /\ spurious' = spurious + 1
  /\ sleeping' = sleeping \ {Worker}
  /\ UNCHANGED <<now, owner, is_ready, deadline, rc, wpc, mpc, wakeAt, askedAt>>

Retake ==
  /\ WorkerStep("retake", "check")
  /\ Lock(owner, Worker)
  /\ UNCHANGED <<now, sleeping, is_ready, deadline, rc, mpc, wakeAt, hist>>

\* Which message is printed.
Verdict == IF rc = "ETIMEDOUT" THEN "fatal" ELSE "success"

\* Giving the mutex back at the end.
Release == Unlock(owner, Worker)

Conclude ==
  /\ ~MustWait
  /\ WorkerStep("check", Verdict)
  /\ Release
  /\ UNCHANGED <<now, sleeping, is_ready, deadline, rc, mpc, wakeAt, hist>>

api_worker == \/ SetDeadline \/ WorkerLock \/ Wait \/ TimeOut \/ Signalled
              \/ Retake \/ Conclude
-----------------------------------------------------------------------------
(* main *)

MainStep(from, to) == mpc = from /\ mpc' = to

MainLock ==
  /\ now >= wakeAt
  /\ MainStep("sleep", "raise")
  /\ Lock(owner, Main)
  /\ UNCHANGED <<now, sleeping, is_ready, deadline, rc, wpc, wakeAt, hist>>

MainRaise ==
  /\ MainStep("raise", "unlock")
  /\ is_ready' = TRUE
  /\ CondSignal(sleeping)
  /\ UNCHANGED <<now, owner, deadline, rc, wpc, wakeAt, spurious, askedAt>>

MainUnlock ==
  /\ MainStep("unlock", "join")
  /\ Unlock(owner, Main)
  /\ UNCHANGED <<now, sleeping, is_ready, deadline, rc, wpc, wakeAt, hist>>

MainJoin ==
  /\ wpc \in {"fatal", "success"}
  /\ MainStep("join", "exit")
  /\ UNCHANGED <<now, owner, sleeping, is_ready, deadline, rc, wpc, wakeAt, hist>>

main == MainLock \/ MainRaise \/ MainUnlock \/ MainJoin

Terminated == mpc = "exit" /\ UNCHANGED vars

Next == Tick \/ SpuriousWake \/ api_worker \/ main \/ Terminated

Spec == Init /\ [][Next]_vars
FairSpec == Spec /\ WF_vars(Tick) /\ WF_vars(api_worker) /\ WF_vars(main)

-----------------------------------------------------------------------------
(* api_worker and main keep the flag, the deadline and the return code to
   what the calls can give.                                                 *)
TypeOK ==
  /\ now \in 0..Horizon
  /\ askedAt \in 0..Horizon /\ spurious \in 0..MaxSpurious
  /\ owner \in {Worker, Main, None} /\ sleeping \subseteq {Worker}
  /\ is_ready \in BOOLEAN
  /\ deadline \in 0..Horizon /\ wakeAt \in Delays
  /\ rc \in {"ok", "ETIMEDOUT"}
  /\ wpc \in {"clock", "lock", "check", "wait", "retake", "fatal", "success"}
  /\ mpc \in {"sleep", "raise", "unlock", "join", "exit"}

(* The worker never claims success without data, whatever woke it, and never
   gives up before it has waited for its full patience.                     *)
VerdictJustified ==
  /\ wpc = "success" => is_ready
  /\ wpc = "fatal" => now >= askedAt + Patience

(* The circuit breaker: whether or not main ever answers, the worker does not
   sleep for ever, unless main holds the mutex for ever.                    *)
WorkerAnswers == <>(wpc \in {"fatal", "success"}) \/ <>[](owner = Main)

(* With a fair main, the program ends.                                      *)
Termination == <>(mpc = "exit")

=============================================================================
