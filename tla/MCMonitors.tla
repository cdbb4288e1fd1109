----------------------------- MODULE MCMonitors -----------------------------
(***************************************************************************)
(* The programs built on one mutex and its condition variables, checked    *)
(* together: a run picks one of them at the start and the others stay in   *)
(* their initial state.  "silent" is TimedWait with a main that the        *)
(* scheduler may abandon.                                                  *)
(***************************************************************************)
EXTENDS PoolLifecycle, Integers

CONSTANTS Power, Frequency, Reader,             \* scanner.c
          Device, User, Report, MaxLevel,       \* water_pump.c
          Worker, Main, Patience, Delays, Horizon,  \* cond_timed_wait.c
          Quantities, ListCapacity,             \* reconciliation.c
          Printer, Destroyer, ArenaAdders, ArenaCapacity,  \* custom_arena.c
          Reporter, PacketAdders, BLOCK_SIZE, BLOCK        \* arena-alloc.c

VARIABLES
  program,
  sOwner, sSleeping, sFlags, sPc, sSpurious,
  wOwner, wReady, wLevelWait, wState, wLevel, wPc, wPoured, wSpurious,
  tNow, tOwner, tSleeping, tReady, tDeadline, tRc, tWorker, tMain, tWakeAt,
  tSpurious, tAskedAt,
  rQuantity, rSize, rReady, rExtracted, rPrinted, rExtract, rCurrent, rStart,
  rPrinting, rNode, rProcess, rExited,
  aLock, aFull, aReset, aBuffer, aIsFull, aCanReset, aFreed, aPc, aSpurious, aPrinted,
  kLock, kFull, kBuffer, kOffset, kPc, kSpurious, kReported

Scan == INSTANCE Scanner WITH
  owner <- sOwner, sleeping <- sSleeping, flags <- sFlags, pc <- sPc, spurious <- sSpurious
scanVars == <<sOwner, sSleeping, sFlags, sPc, sSpurious>>

Pump == INSTANCE WaterPump WITH
  owner <- wOwner, onReady <- wReady, onLevel <- wLevelWait,
  state <- wState, level <- wLevel, pc <- wPc, poured <- wPoured, spurious <- wSpurious
pumpVars == <<wOwner, wReady, wLevelWait, wState, wLevel, wPc, wPoured,
              wSpurious>>

Timed == INSTANCE TimedWait WITH
  now <- tNow, owner <- tOwner, sleeping <- tSleeping, is_ready <- tReady,
  deadline <- tDeadline, rc <- tRc, wpc <- tWorker, mpc <- tMain, wakeAt <- tWakeAt,
  spurious <- tSpurious, askedAt <- tAskedAt
timedVars == <<tNow, tOwner, tSleeping, tReady, tDeadline, tRc, tWorker, tMain,
               tWakeAt, tSpurious, tAskedAt>>

Reco == INSTANCE Reconciliation WITH
  Capacity <- ListCapacity,
  quantity <- rQuantity, size <- rSize, ready <- rReady, reconciliate_state <- rExtracted,
  process_reco <- rPrinted, epc <- rExtract, current <- rCurrent, rpc <- rStart,
  printing <- rPrinting, node <- rNode, ppc <- rProcess, exited <- rExited
recoVars == <<rQuantity, rSize, rReady, rExtracted, rPrinted, rExtract, rCurrent,
              rStart, rPrinting, rNode, rProcess, rExited>>

Arena == INSTANCE ArenaReport WITH
  Adders <- ArenaAdders, Capacity <- ArenaCapacity, lock <- aLock, onFull <- aFull, onReset <- aReset,
  buffer <- aBuffer, is_full <- aIsFull, can_reset <- aCanReset, freed <- aFreed,
  pc <- aPc, spurious <- aSpurious, printed <- aPrinted
arenaVars == <<aLock, aFull, aReset, aBuffer, aIsFull, aCanReset, aFreed, aPc,
               aSpurious, aPrinted>>

Packets == INSTANCE PacketArena WITH
  Adders <- PacketAdders, lock <- kLock, onFull <- kFull,
  buffer <- kBuffer, offset <- kOffset, pc <- kPc, spurious <- kSpurious,
  reported <- kReported
packetsVars == <<kLock, kFull, kBuffer, kOffset, kPc, kSpurious, kReported>>

ASSUME ScanAssumption == Scan!ScannerAssumption
ASSUME PumpAssumption == Pump!PumpAssumption
ASSUME TimedAssumption == Timed!TimedAssumption
ASSUME RecoAssumption == Reco!RecoAssumption
ASSUME ArenaAssumption == Arena!ArenaAssumption
ASSUME PacketsAssumption == Packets!PacketAssumption

Programs == {"pool", "scanner", "pump", "timed", "silent", "reconciliation", "arena",
             "packets"}
suite == <<program, vars, scanVars, pumpVars, timedVars, recoVars, arenaVars, packetsVars>>

\* What a program that is not picked would start from makes no difference.
SuiteInit ==
  /\ program \in Programs
  /\ Init /\ Scan!Init /\ Pump!Init /\ Timed!Init /\ Reco!Init /\ Arena!Init
  /\ Packets!Init
  /\ program \in {"timed", "silent"} \/ tWakeAt = 1
  /\ program = "reconciliation" \/ rQuantity = [s \in Reco!Sources |-> 1]

\* A program that was not picked does nothing.
SuiteNext ==
  /\ UNCHANGED program
  /\ \/ program = "pool" /\ Next
     \/ program # "pool" /\ UNCHANGED vars
  /\ \/ program = "scanner" /\ Scan!Next
     \/ program # "scanner" /\ UNCHANGED scanVars
  /\ \/ program = "pump" /\ Pump!Next
     \/ program # "pump" /\ UNCHANGED pumpVars
  /\ \/ program \in {"timed", "silent"} /\ Timed!Next
     \/ program \notin {"timed", "silent"} /\ UNCHANGED timedVars
  /\ \/ program = "reconciliation" /\ Reco!Next
     \/ program # "reconciliation" /\ UNCHANGED recoVars
  /\ \/ program = "arena" /\ Arena!Next
     \/ program # "arena" /\ UNCHANGED arenaVars
  /\ \/ program = "packets" /\ Packets!Next
     \/ program # "packets" /\ UNCHANGED packetsVars

SuiteSpec ==
  /\ SuiteInit /\ [][SuiteNext]_suite
  /\ WF_vars(program = "pool" /\ clean) /\ WF_vars(program = "pool" /\ fill)
  /\ WF_vars(program = "pool" /\ open_pool) /\ WF_vars(program = "pool" /\ Free)
  /\ WF_scanVars(program = "scanner" /\ Scan!set_power)
  /\ WF_scanVars(program = "scanner" /\ Scan!set_frequency)
  /\ WF_scanVars(program = "scanner" /\ Scan!read_value)
  /\ WF_pumpVars(program = "pump" /\ Pump!fill_water)
  /\ WF_pumpVars(program = "pump" /\ Pump!get_water)
  /\ WF_pumpVars(program = "pump" /\ Pump!show_report)
  /\ WF_timedVars(program \in {"timed", "silent"} /\ Timed!Tick)
  /\ WF_timedVars(program \in {"timed", "silent"} /\ Timed!api_worker)
  /\ WF_timedVars(program = "timed" /\ Timed!main)
  /\ \A s \in Reco!Sources :
        WF_recoVars(program = "reconciliation" /\ rExited = "no" /\ Reco!extract(s))
  /\ WF_recoVars(program = "reconciliation" /\ rExited = "no" /\ Reco!start_reconciliation)
  /\ WF_recoVars(program = "reconciliation" /\ rExited = "no" /\ Reco!process_reconciliation)
  /\ WF_recoVars(program = "reconciliation" /\ rExited = "no" /\ Reco!Clean)
  /\ \A t \in ArenaAdders : WF_arenaVars(program = "arena" /\ Arena!worker_add(t))
  /\ WF_arenaVars(program = "arena" /\ Arena!worker_print)
  /\ WF_arenaVars(program = "arena" /\ Arena!arena_destroy)
  /\ \A t \in PacketAdders : WF_packetsVars(program = "packets" /\ Packets!add_packet(t))
  /\ WF_packetsVars(program = "packets" /\ Packets!report)
-----------------------------------------------------------------------------
(* read_value reports only a scanner with its power and frequency set, in
   that order.                                                              *)
ReportComplete == Scan!TypeOK /\ Scan!ReportComplete

(* get_water's tests without the mutex never drain an empty tank, and the
   user gets the whole tank or nothing.                                     *)
TankTruthful == /\ Pump!TypeOK /\ Pump!EmptyBitTruthful
                /\ Pump!DrainFindsWater /\ Pump!AllOrNothing

(* api_worker claims data only when there is some and gives up no earlier
   than its patience says.                                                  *)
VerdictJustified == Timed!TypeOK /\ Timed!VerdictJustified

(* The lists are printed complete, with every packet marked, and compared
   only after both were printed, although they are read without the mutex.  *)
RecoStages == Reco!TypeOK /\ Reco!PrintsReadyData /\ Reco!StagesInOrder

(* The two arenas: custom_arena.c frees the arena after everybody who uses it
   and prints it full; arena-alloc.c's signal, sent before what it announces,
   is in time, and the report has every packet.                             *)
ArenasSound ==
  /\ Arena!TypeOK /\ Arena!FreedLast /\ Arena!PrintedFull
  /\ Packets!TypeOK /\ Packets!SignalInTime /\ Packets!ReportsAll

(* How each program ends.  The pool is opened and freed, the late broadcasts
   are not lost.  set_power's one signal is lost only if both others were
   asleep, and never once the frequency is set.  fill_water and get_water
   return whatever show_report waits for.  api_worker gives its verdict even
   when main stays silent, and its program ends with a main that answers.
   show_report returns if it comes to a tank that nobody will drain.  The
   reconciliation's verdict depends on the quantities alone: it fails, ends
   clean, or waits for ever when there is an empty list to print.  The
   arenas' threads are joined.                                              *)
ProgramsEnd ==
  /\ program = "pool" => Termination
  /\ program = "scanner" => Scan!OnlyCrowdHangs /\ Scan!FrequencyEnds
  /\ program = "pump" => Pump!PumpStops
  /\ program = "silent" => Timed!WorkerAnswers
  /\ program = "timed" => Timed!Termination
  /\ program = "reconciliation" => Reco!Verdict
  /\ program = "arena" => Arena!Termination
  /\ program = "packets" => Packets!Termination
=============================================================================
