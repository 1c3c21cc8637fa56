----------------------------- MODULE Nightlight -----------------------------
(***************************************************************************)
(* The hub of the smart nightlight, smart-nightlight-hub.c: it subscribes  *)
(* to the motion and illuminance sensors and commands the lights.          *)
(*                                                                         *)
(* The reports of the sensors come from the pub-sub library, in any order, *)
(* with gaps, and with repetitions of the same content.  The callbacks run *)
(* in the one application thread, so that each is one step.                *)
(***************************************************************************)
EXTENDS Integers

CONSTANTS Delays,            \* what delayMinutes * 60000 may be, in ticks
          MotionValues,      \* values the motion sensor publishes
          IlluminanceValues  \* values the illuminance sensor publishes

ASSUME DelayAssumption == Delays \subseteq Nat
ASSUME ValuesAssumption == MotionValues \subseteq Nat /\ IlluminanceValues \subseteq Nat

CmdOn  == 111
CmdOff == 112
None   == -1
NoCommand == [id |-> None, content |-> None]

(* Variables of the program: the delay the user provides; the status;      *)
(* motionStopTime, kept as the time that has passed since, or as None      *)
(* where the code has 0.  Time is not counted further than one above the   *)
(* delay: only elapsed > delay is ever asked.                              *)
VARIABLES delay, lastStatus, sinceStop

(* What was observed: the last command, the last report of each sensor,    *)
(* the time since motion was last reported active, and a bit that changes  *)
(* with every illuminance report.                                          *)
VARIABLES command, motion, illuminance, sinceActive, reported

vars == <<delay, lastStatus, sinceStop, command, motion, illuminance, sinceActive, reported>>

Ages == 0 .. delay + 1
Older(age) == IF age = None \/ age = delay + 1 THEN age ELSE age + 1
Passed(age) == age # None /\ age > delay

Active(v) == v > 50
Bright(v) == v > 50
Dark(v) == v < 30

Init ==
  /\ delay \in Delays
  /\ lastStatus = 1
  /\ sinceStop = None
  /\ command = NoCommand
  /\ motion = None /\ illuminance = None
  /\ sinceActive = None
  /\ reported = FALSE

-----------------------------------------------------------------------------
(* Callbacks *)

LeaveLights == UNCHANGED <<command, lastStatus>>

(* ps_publish_command, to the lights: the identifier of the command is     *)
(* part of the name, and content is what they receive.                     *)
PublishCommand(id, content) == command' = [id |-> id, content |-> content]

(* Variants: the command is stored in place of the status; a dark report   *)
(* is looked at before the time since motion ceased; only a bright report  *)
(* turns the lights off.                                                   *)
TurnOffStoresCommand ==
  /\ PublishCommand(CmdOff, CmdOff)
  /\ lastStatus' = CmdOff

(* Three sites do the same: lines 66 and 77 of on_illuminance_publish, and *)
(* line 100, of turnOffMotion.                                             *)
TurnOff ==
  /\ PublishCommand(CmdOff, CmdOff)
  /\ lastStatus' = 0

(* It got dark. *)
TurnOn ==
  /\ PublishCommand(CmdOn, CmdOn)
  /\ lastStatus' = 1

(* Something moves.  The content is the sensor's reading, and not the      *)
(* command as everywhere else.                                             *)
TurnOnMoving(v) ==
  /\ PublishCommand(CmdOn, v)
  /\ lastStatus' = 1

IlluminanceRuleDarkFirst(v) ==
  IF lastStatus = 1 /\ Bright(v) THEN TurnOff
  ELSE IF lastStatus # 1 /\ Dark(v) THEN TurnOn
  ELSE IF lastStatus = 1 /\ Passed(sinceStop) THEN TurnOff
  ELSE LeaveLights

IlluminanceRuleBrightOnly(v) ==
  IF lastStatus = 1 /\ Bright(v) THEN TurnOff
  ELSE IF sinceStop # None THEN LeaveLights
  ELSE IF lastStatus # 1 /\ Dark(v) THEN TurnOn
  ELSE LeaveLights

IlluminanceRule(v) ==
  IF lastStatus = 1 /\ Bright(v) THEN TurnOff
  ELSE IF sinceStop # None
  THEN IF lastStatus = 1 /\ Passed(sinceStop) THEN TurnOff ELSE LeaveLights
  ELSE IF lastStatus # 1 /\ Dark(v) THEN TurnOn ELSE LeaveLights

OnIlluminancePublish(v) ==
  /\ IlluminanceRule(v)
  /\ illuminance' = v
  /\ reported' = ~ reported
  /\ UNCHANGED <<delay, sinceStop, motion, sinceActive>>

TurnOffMotion(since) ==
  IF lastStatus = 1 /\ Passed(since) THEN TurnOff ELSE LeaveLights

(* Variant: the time at which motion stopped is kept when it starts again. *)
MotionRuleKeepsStop(v, ticked) ==
  IF Active(v)
  THEN TurnOnMoving(v) /\ UNCHANGED sinceStop
  ELSE /\ sinceStop' = IF ticked THEN 1 ELSE 0
       /\ IF delay = 0 THEN TurnOffMotion(sinceStop') ELSE LeaveLights

(* Between the reading of motionStopTime and that of turnOffMotion, which  *)
(* is called where there is no delay, the clock may tick.                  *)
MotionRule(v, ticked) ==
  IF Active(v)
  THEN TurnOnMoving(v) /\ sinceStop' = None
  ELSE /\ sinceStop' = IF ticked THEN 1 ELSE 0
       /\ IF delay = 0 THEN TurnOffMotion(sinceStop') ELSE LeaveLights

OnMotionPublish(v) == \E ticked \in BOOLEAN :
  /\ MotionRule(v, ticked)
  /\ motion' = v
  /\ sinceActive' = LET before == IF Active(v) THEN 0 ELSE sinceActive
                    IN  IF ticked THEN Older(before) ELSE before
  /\ UNCHANGED <<delay, illuminance, reported>>

(* ndn_time_now_ms moves on. *)
Tick ==
  /\ sinceStop' = Older(sinceStop)
  /\ sinceActive' = Older(sinceActive)
  /\ UNCHANGED <<delay, lastStatus, command, motion, illuminance, reported>>

-----------------------------------------------------------------------------
IlluminanceReport == \E v \in IlluminanceValues : OnIlluminancePublish(v)
MotionReport == \E v \in MotionValues : OnMotionPublish(v)

Next == IlluminanceReport \/ MotionReport \/ Tick

Spec == Init /\ [][Next]_vars

-----------------------------------------------------------------------------
(* Properties *)

Commands == [id : {CmdOn, CmdOff}, content : {CmdOn, CmdOff} \cup MotionValues]

(* The state has the type of state_t; what was published is a command.     *)
TypeOK ==
  /\ delay \in Delays
  /\ lastStatus \in {0, 1}
  /\ sinceStop \in Ages \cup {None} /\ sinceActive \in Ages \cup {None}
  /\ command \in Commands \cup {NoCommand}
  /\ motion \in MotionValues \cup {None}
  /\ illuminance \in IlluminanceValues \cup {None}
  /\ reported \in BOOLEAN

TurnsOff == command'.id = CmdOff /\ lastStatus = 1 /\ lastStatus' = 0
TurnsOn == command'.id = CmdOn /\ lastStatus = 0 /\ lastStatus' = 1

(* Unless it is bright, the hub turns the lights off only after motion was *)
(* last reported inactive, and longer than the delay after it was last     *)
(* reported active.                                                        *)
OnWhileMotion ==
  [][TurnsOff /\ ~ Bright(illuminance') =>
       /\ motion' # None /\ ~ Active(motion')
       /\ sinceActive' = None \/ Passed(sinceActive)']_vars

(* Once motion ceased, darkness alone does not turn the lights on again:   *)
(* without this order of the branches they would flicker all night.        *)
DarkAfterMotionStaysOff ==
  [][TurnsOn => Active(motion') \/ motion' = None]_vars

(* When motion ceased and the motion sensor falls silent, the lights go    *)
(* off and stay off, as long as illuminance reports keep coming.           *)
LightsGoOff ==
  \/ []<><<MotionReport>>_vars
  \/ <>[][~ IlluminanceReport]_vars
  \/ <>[](motion # None /\ ~ Active(motion) => lastStatus = 0)

(* The inductive invariant behind the properties of commands: the program  *)
(* remembers a stop exactly while the last motion report was inactive, and *)
(* that stop is not older than the last active report.                     *)
StopFollowsMotion ==
  /\ sinceStop = None <=> motion = None \/ Active(motion)
  /\ sinceStop # None => sinceActive = None \/ sinceActive >= sinceStop

=============================================================================
