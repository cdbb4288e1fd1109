--------------------------- MODULE FlightControl ---------------------------
(***************************************************************************)
(* problems/fcw.c: the controls of an airplane as three bytes of switches, *)
(* the departure checklist, the emergency dialogue with the two pilots and *)
(* the black box.  Calls come in any order that the functions' own checks  *)
(* let through; a check that fails exits the program.                      *)
(***************************************************************************)
EXTENDS Naturals

VARIABLES
  phase,     \* running, aborted (exit), or spinning on an ended input
  flight_controls,  \* the switches that are 1: ground, airborne, fuel, gear
  engine_control,   \* the numbers of the bits that are 1
  authorized_to_flight, \* the items of the checklist that are 1
  box,       \* the latest state the black box holds of the left engine
  dropped,   \* history: the latest command to the left engine was not recorded
  confirmed, \* history: both pilots confirmed the latest emergency
  stopped    \* history: the engines whose latest executed command was OFF

recorder == <<box, dropped>>
vars == <<phase, flight_controls, engine_control, authorized_to_flight, recorder,
          confirmed, stopped>>

Sides == {"left", "right"}

\* LEFT_ENGINE_MASK 0x02 and RIGHT_ENGINE_MASK 0x04 are bits 1 and 2;
\* LEFT_ENGINE_BIT and RIGHT_ENGINE_BIT are 1 and 3.
MaskBit(side) == IF side = "left" THEN 1 ELSE 2
\* The variant confuses the left engine as well.
BitSwapped(side) == 3
SwitchBit(side) == IF side = "left" THEN 1 ELSE 3

EngineOn(side) == MaskBit(side) \in engine_control
Ground == "ground" \in flight_controls
Airborne == "airborne" \in flight_controls

\* A record of a command to an engine: when malloc fails the command is carried out
\* all the same, with a warning.  The left engine has one name, LEFT-ENG; the right
\* one is RIGHT-ENG when it goes on and RIGHT_ENG when it goes off, and like the
\* other names of the black box (all fit MAX_CMD_SIZE) it is left out.
record_command(side, state) ==
  IF side = "left" THEN \/ box' = state /\ dropped' = FALSE
                        \/ dropped' = TRUE /\ UNCHANGED box
                   ELSE UNCHANGED recorder

Init ==
  /\ phase = "running"
  /\ flight_controls = {"ground"} /\ engine_control = {}
  /\ authorized_to_flight = {"ground"}
  /\ box = "none" /\ dropped = FALSE
  /\ confirmed = FALSE /\ stopped = {}

Running == phase = "running"
Abort == phase' = "aborted"
-----------------------------------------------------------------------------
(* refill *)

Fill == flight_controls \cup {"fuel"}

Refill ==
  /\ Running /\ Ground /\ "fuel" \notin flight_controls
  /\ flight_controls' = Fill
  /\ authorized_to_flight' = authorized_to_flight \cup {"fuel"}
  /\ UNCHANGED <<phase, engine_control, recorder, confirmed, stopped>>

RefillFull ==
  /\ Running /\ Ground /\ "fuel" \in flight_controls
  /\ UNCHANGED vars

RefillAloft ==
  /\ Running /\ ~Ground
  /\ Abort
  /\ UNCHANGED <<flight_controls, engine_control, authorized_to_flight, recorder, confirmed, stopped>>

refill == Refill \/ RefillFull \/ RefillAloft
-----------------------------------------------------------------------------
(* toggle_engine_switch_on *)

BothOn == \A s \in Sides : EngineOn(s)

EnginesAlreadyOn ==
  /\ Running /\ BothOn
  /\ UNCHANGED vars

\* The checklist's item of the engine; the variant signs for both.
SignBoth(side) == authorized_to_flight \cup Sides
Sign(side) == authorized_to_flight \cup {side}

EngineStarts(side) ==
  /\ Running /\ ~BothOn /\ ~EngineOn(side) /\ Ground
  /\ engine_control' = engine_control \cup {MaskBit(side)}
  /\ authorized_to_flight' = Sign(side)
  /\ record_command(side, "ON")
  /\ stopped' = stopped \ {side}
  /\ UNCHANGED <<phase, flight_controls, confirmed>>

EngineRefused(side) ==
  /\ Running /\ ~BothOn /\ (EngineOn(side) \/ ~Ground)
  /\ Abort
  /\ record_command(side, "IGNORED")
  /\ UNCHANGED <<flight_controls, engine_control, authorized_to_flight, confirmed, stopped>>

toggle_engine_switch_on(side) == EnginesAlreadyOn \/ EngineStarts(side) \/ EngineRefused(side)
-----------------------------------------------------------------------------
(* execute_departure *)

\* AUTH_APPROVAL_CODE: all four items; the variant is content with three.
MostItems == {"ground", "left", "right"} \subseteq authorized_to_flight
request_departure_auth == {"ground", "fuel", "left", "right"} \subseteq authorized_to_flight

\* Leaving the ground; the variant leaves the GROUND switch on.
StayGrounded == flight_controls \cup {"gear", "airborne"}
Leave == (flight_controls \ {"ground"}) \cup {"gear", "airborne"}

Depart ==
  /\ Running /\ request_departure_auth
  /\ flight_controls' = Leave
  /\ UNCHANGED <<phase, engine_control, authorized_to_flight, recorder, confirmed, stopped>>

DepartureDenied ==
  /\ Running /\ ~request_departure_auth
  /\ Abort
  /\ UNCHANGED <<flight_controls, engine_control, authorized_to_flight, recorder, confirmed, stopped>>

execute_departure == Depart \/ DepartureDenied
-----------------------------------------------------------------------------
(* toggle_engine_switch_off *)

\* What turn_eng_off leaves of the engine byte.
turn_eng_off(side) == engine_control \ {SwitchBit(side)}

\* declare_emergency asks P1 and then P2; each says yes or something else.
\* The variant asks either pilot.
EitherPilot(p1, p2) == p1 \/ p2
Approved(p1, p2) == p1 /\ p2

EmergencyOff(side) ==
  /\ Running /\ Airborne
  /\ \E p1, p2 \in BOOLEAN :
       /\ confirmed' = (p1 /\ p2)
       /\ IF Approved(p1, p2)
            THEN /\ engine_control' = turn_eng_off(side)
                 /\ stopped' = stopped \cup {side}
                 /\ record_command(side, "OFF")
            ELSE UNCHANGED <<engine_control, recorder, stopped>>
  /\ UNCHANGED <<phase, flight_controls, authorized_to_flight>>

\* At the end of the input fgets returns NULL and the dialogue never ends.
InputEnds ==
  /\ Running /\ Airborne
  /\ phase' = "spinning"
  /\ UNCHANGED <<flight_controls, engine_control, authorized_to_flight, recorder, confirmed, stopped>>

BothOff == \A s \in Sides : ~EngineOn(s)

EnginesAlreadyOff ==
  /\ Running /\ Ground /\ ~Airborne /\ BothOff
  /\ UNCHANGED vars

EngineOff(side) ==
  /\ Running /\ Ground /\ ~Airborne /\ ~BothOff
  /\ engine_control' = turn_eng_off(side)
  /\ stopped' = stopped \cup {side}
  /\ record_command(side, "OFF")
  /\ UNCHANGED <<phase, flight_controls, authorized_to_flight, confirmed>>

toggle_engine_switch_off(side) ==
  EmergencyOff(side) \/ InputEnds \/ EnginesAlreadyOff \/ EngineOff(side)
-----------------------------------------------------------------------------
(* execute_landing *)

request_landing_auth == {"gear", "airborne"} \subseteq flight_controls

Land ==
  /\ Running /\ request_landing_auth
  /\ flight_controls' = (flight_controls \ {"airborne"}) \cup {"gear", "ground"}
  /\ UNCHANGED <<phase, engine_control, authorized_to_flight, recorder, confirmed, stopped>>

LandingDenied ==
  /\ Running /\ ~request_landing_auth
  /\ Abort
  /\ UNCHANGED <<flight_controls, engine_control, authorized_to_flight, recorder, confirmed, stopped>>

execute_landing == Land \/ LandingDenied

Terminated == ~Running /\ UNCHANGED vars

Next == \/ refill \/ execute_departure \/ execute_landing \/ Terminated
        \/ \E side \in Sides : toggle_engine_switch_on(side) \/ toggle_engine_switch_off(side)

Spec == Init /\ [][Next]_vars
-----------------------------------------------------------------------------
(* The switches, the checklist and the black box hold only what the
   functions of fcw.c write.                                                *)
TypeOK ==
  /\ phase \in {"running", "aborted", "spinning"}
  /\ flight_controls \subseteq {"ground", "airborne", "fuel", "gear"}
  /\ engine_control \subseteq {1, 2}
  /\ authorized_to_flight \subseteq {"ground", "fuel"} \cup Sides
  /\ box \in {"none", "ON", "OFF", "IGNORED"} /\ dropped \in BOOLEAN
  /\ confirmed \in BOOLEAN /\ stopped \subseteq Sides

(* The airplane is on the ground or in the air, never both, never neither:
   Depart and Land switch both bits.                                        *)
OneAltitude == Ground <=> ~Airborne

(* The airplane never flies on empty tanks, however often it lands and
   departs (request_departure_auth, refill).                                *)
FuelledAloft == Airborne => "fuel" \in flight_controls

(* In the air an engine changes only in declare_emergency, and only when both
   pilots have confirmed.                                                   *)
BothPilotsConfirm ==
  [][Airborne /\ engine_control' # engine_control => confirmed']_vars

(* The black box is right about the left engine, unless record_command had
   no memory for the latest command to it.                                  *)
BoxKnowsLeft == Running /\ ~dropped => (box = "ON" <=> EngineOn("left"))

(* The checklist's items are never taken back: an engine that the checklist
   counts is on, or was ordered off since; an airplane may well depart on
   such an item (request_departure_auth).                                   *)
SignedOrStopped == \A s \in Sides \cap authorized_to_flight : EngineOn(s) \/ s \in stopped

(* turn_eng_off switches the airplane's engine off.                         *)
OffMeansOff == \A s \in stopped : ~EngineOn(s)
=============================================================================
