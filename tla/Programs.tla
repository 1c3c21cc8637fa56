------------------------------ MODULE Programs ------------------------------
(***************************************************************************)
(* The programs that publish and subscribe: the two sensors and the hub of *)
(* the smart nightlight, and puber.c, control.c and suber.c that evaluate  *)
(* pub-sub.  Each device runs one of them: simulate_bootstrap, initialize, *)
(* which asks for the keys of its services and puts them into the storage  *)
(* itself, then the loop of main.                                          *)
(*                                                                         *)
(* suber.c's callback changes nothing and is left out; so is the hub's,    *)
(* which is module Nightlight, but for the command it may send.            *)
(***************************************************************************)
EXTENDS Sensor, FiniteSets

CONSTANT AesSlots   \* AES keys the key storage has room for

(* The hub and the subscriber need four.  Where the storage is full, NULL  *)
(* is written through.                                                     *)
ASSUME SlotsAssumption == AesSlots \in Nat /\ AesSlots >= 4

(* Variables of the access control and of the key storage: the services    *)
(* that have their key, those whose key is not injected yet, and the slots *)
(* in use.                                                                 *)
VARIABLES pc, keyed, uninjected, slots

(* The services published and subscribed to, the commands of control.c,    *)
(* and whether a second has passed since its state.timestamp.              *)
VARIABLES spoke, listens, commands, late

startVars == <<keyed, uninjected, slots, listens>>
vars == <<program, sensorVars, pc, startVars, spoke, commands, late>>

-----------------------------------------------------------------------------
(* initialize: the services registered for encryption and for access, and  *)
(* those the loops over the tables look for.                               *)
IlluminanceServices == [encrypts |-> {"illuminance", "battery"}, accesses |-> {},
                        sought |-> {"illuminance", "battery"}]

MotionServices == [encrypts |-> {"motion", "battery"}, accesses |-> {},
                   sought |-> {"motion", "battery"}]

HubServices == [encrypts |-> {"led"}, accesses |-> {"motion", "illuminance"},
                sought |-> {"led", "motion", "illuminance"}]

PuberServices == [encrypts |-> {"motion", "battery"}, accesses |-> {},
                  sought |-> {"motion", "battery"}]

ControlServices == [encrypts |-> {"motion"}, accesses |-> {},
                    sought |-> {"motion", "battery"}]

SuberServices == [encrypts |-> {"led"}, accesses |-> {"motion", "illuminance"},
                  sought |-> {"led", "motion", "illuminance"}]

Services == [illuminance |-> IlluminanceServices, motion |-> MotionServices,
             hub |-> HubServices, puber |-> PuberServices,
             control |-> ControlServices, suber |-> SuberServices]

AllServices == {"illuminance", "motion", "led", "battery"}

Injected(p) ==
  (Services[p].encrypts \cup Services[p].accesses) \cap Services[p].sought

SubscribedTo == [p \in DOMAIN Services |->
                   CASE p = "hub" -> {"motion", "illuminance"}
                     [] p = "suber" -> {"motion"}
                     [] OTHER -> {}]

Init ==
  /\ program \in DOMAIN Services
  /\ SensorInit
  /\ pc = "boot"
  /\ keyed = {} /\ uninjected = {} /\ slots = 0
  /\ spoke = {} /\ listens = {}
  /\ commands = 0 /\ late = FALSE

(* simulate_bootstrap ends with key 10002; initialize registers services.  *)
SimulateBootstrap ==
  /\ pc = "boot"
  /\ pc' = "inject"
  /\ slots' = slots + 1
  /\ uninjected' = Injected(program)
  /\ UNCHANGED <<program, sensorVars, keyed, spoke, listens, commands, late>>

(* Variant: each service found takes two slots. *)
InjectKeyTwice(s) ==
  /\ pc = "inject"
  /\ uninjected' = uninjected \ {s}
  /\ slots' = IF slots + 1 < AesSlots THEN slots + 2 ELSE slots
  /\ keyed' = IF slots + 1 < AesSlots THEN keyed \cup {s} ELSE keyed
  /\ UNCHANGED <<program, sensorVars, pc, spoke, listens, commands, late>>

InjectKey(s) ==
  /\ pc = "inject"
  /\ uninjected' = uninjected \ {s}
  /\ slots' = IF slots < AesSlots THEN slots + 1 ELSE slots
  /\ keyed' = IF slots < AesSlots THEN keyed \cup {s} ELSE keyed
  /\ UNCHANGED <<program, sensorVars, pc, spoke, listens, commands, late>>

(* The subscriptions; puber.c publishes its one content before the loop.   *)
EnterLoop ==
  /\ pc = "inject" /\ uninjected = {}
  /\ pc' = "loop"
  /\ listens' = SubscribedTo[program]
  /\ spoke' = IF program = "puber" THEN {"motion"} ELSE spoke
  /\ UNCHANGED <<program, sensorVars, keyed, uninjected, slots, commands, late>>

-----------------------------------------------------------------------------
(* The loops *)

SensorLoop(percents, v) ==
  /\ pc = "loop" /\ program \in Sensors
  /\ ServiceDataPublishing(percents, v)
  /\ spoke' = spoke \cup (IF battery' # battery THEN {"battery"} ELSE {})
                    \cup (IF published' # published THEN {program} ELSE {})
  /\ UNCHANGED <<program, pc, startVars, commands, late>>

(* ndn_forwarder_process calls on_motion_publish or on_illuminance_publish.*)
HubLoop ==
  /\ pc = "loop" /\ program = "hub" /\ listens # {}
  /\ spoke' = {"led"}
  /\ UNCHANGED <<program, sensorVars, pc, startVars, commands, late>>

(* Variant: cmd_generation stays true. *)
ControlLoopRepeats ==
  /\ pc = "loop" /\ program = "control" /\ late
  /\ spoke' = {"motion"}
  /\ commands' = IF commands = 2 THEN 1 ELSE commands + 1
  /\ UNCHANGED <<program, sensorVars, pc, startVars, late>>

(* cmd_generation is true until a command was sent. *)
ControlLoop ==
  /\ pc = "loop" /\ program = "control" /\ late
  /\ commands = 0
  /\ spoke' = {"motion"}
  /\ commands' = commands + 1
  /\ UNCHANGED <<program, sensorVars, pc, startVars, late>>

(* Programs start less than 2^32 us after the clock did, so that the 32    *)
(* bits of state.timestamp hold all of it.                                 *)
SecondPasses ==
  /\ pc = "loop" /\ ~ late
  /\ late' = TRUE
  /\ UNCHANGED <<program, sensorVars, pc, startVars, spoke, commands>>

Start == SimulateBootstrap \/ (\E s \in uninjected : InjectKey(s)) \/ EnterLoop

SensorRound == \E percents \in Rounds, v \in Values : SensorLoop(percents, v)

Next == Start \/ SensorRound \/ HubLoop \/ ControlLoop \/ SecondPasses

Spec == Init /\ [][Next]_vars

(* Nothing blocks main, and time passes. *)
FairSpec == Spec /\ WF_vars(Start) /\ WF_vars(ControlLoop) /\ WF_vars(SecondPasses)

-----------------------------------------------------------------------------
(* Properties *)

TypeOK ==
  /\ program \in DOMAIN Services
  /\ SensorTypeOK
  /\ pc \in {"boot", "inject", "loop"}
  /\ keyed \subseteq AllServices /\ uninjected \subseteq AllServices
  /\ spoke \subseteq AllServices /\ listens \subseteq AllServices
  /\ slots \in 0 .. AesSlots
  /\ commands \in 0 .. 1 /\ late \in BOOLEAN

(* Every service a program publishes or subscribes to was registered, found *)
(* again by the loops over the tables, and given a key that was not NULL:   *)
(* the three lists are written apart in initialize and in the loop of main. *)
KeysAtHand == spoke \cup listens \subseteq keyed

(* control.c sends its command, and sends it once. *)
CommandSentOnce == program = "control" => <>[](commands = 1)

=============================================================================
