------------------------------- MODULE Sensor -------------------------------
(***************************************************************************)
(* The loops of the two simulated sensors of the smart nightlight:         *)
(* service_data_publishing of device-illuminance.c and device-motion.c.    *)
(* They differ in what they remember of the value they published.  Module  *)
(* Programs runs the loop in a program, Home next to the hub.              *)
(*                                                                         *)
(* The counters are unsigned words.  Time is counted in the 600 ms of one  *)
(* percent of battery; every round of the loop sleeps for longer than one. *)
(***************************************************************************)
EXTENDS Integers

CONSTANTS Word,    \* 2^32 in the program
          Rounds,  \* percents that one round of the loop may take
          Values   \* what ndn_rng's dice / 3 may be

ASSUME WordAssumption == Word \in Nat /\ Word > 200
ASSUME RoundsAssumption == Rounds \subseteq Nat \ {0}
ASSUME ValuesAssumption == Values \subseteq 0 .. 85

Sensors == {"illuminance", "motion"}
Nothing == -1

(* state_t: the battery last published, the value last remembered, and the *)
(* percents used since state.timestamp.  Of these not more are counted     *)
(* than the word can tell from a battery that is spent.                    *)
VARIABLES program, lastBattery, lastValue, used

(* What the subscribers got, and the value that was read in this round.    *)
VARIABLES battery, published, reading

sensorVars == <<lastBattery, lastValue, used, battery, published, reading>>

FullBattery == 100
MaxUsed == FullBattery + 1

SensorInit ==
  /\ lastBattery = FullBattery
  /\ lastValue = 0
  /\ used = 0
  /\ battery = Nothing /\ published = Nothing
  /\ reading = 0

Minus(a, b) == (a - b) % Word

Capped(n) == IF n > MaxUsed THEN MaxUsed ELSE n

-----------------------------------------------------------------------------
(* Variants: the battery is a signed number; it is published whenever it   *)
(* differs; the value that was published is not remembered; only a         *)
(* difference of more than twenty is published.                            *)
PublishBatterySigned(now) ==
  LET level == FullBattery - now
  IN  IF level < lastBattery
      THEN lastBattery' = level /\ battery' = level /\ used' = 0
      ELSE used' = now /\ UNCHANGED <<lastBattery, battery>>

PublishBatteryWhenDifferent(now) ==
  LET level == Minus(FullBattery, now)
  IN  IF level # lastBattery
      THEN lastBattery' = level /\ battery' = level /\ used' = 0
      ELSE used' = now /\ UNCHANGED <<lastBattery, battery>>

PublishBattery(now) ==
  LET level == Minus(FullBattery, now)
  IN  IF level < lastBattery
      THEN lastBattery' = level /\ battery' = level /\ used' = 0
      ELSE used' = now /\ UNCHANGED <<lastBattery, battery>>

PublishValueForgotten(v) ==
  IF Minus(v, lastValue) > 10
  THEN published' = v /\ UNCHANGED lastValue
  ELSE UNCHANGED <<published, lastValue>>

PublishValueCoarse(v) ==
  IF Minus(v, lastValue) > 20
  THEN published' = v /\ lastValue' = v
  ELSE UNCHANGED <<published, lastValue>>

PublishValue(v) ==
  IF Minus(v, lastValue) > 10
  THEN /\ published' = v
       /\ lastValue' = IF program = "illuminance" THEN v ELSE lastValue
  ELSE UNCHANGED <<published, lastValue>>

ServiceDataPublishing(percents, v) ==
  /\ PublishBattery(Capped(used + percents))
  /\ PublishValue(v)
  /\ reading' = v

-----------------------------------------------------------------------------
(* Properties *)

(* Neither the state nor what is published ever is a subtraction that      *)
(* wrapped, although the battery's does when more is used than there was.  *)
SensorTypeOK ==
  /\ lastBattery \in 0 .. FullBattery /\ used \in 0 .. MaxUsed
  /\ battery \in 0 .. FullBattery - 1 \cup {Nothing}
  /\ lastValue \in Values \cup {0} /\ reading \in Values \cup {0}
  /\ published \in Values \cup {Nothing}

(* The battery that subscribers see only falls.                            *)
BatteryFalls ==
  [][battery' # battery /\ battery # Nothing => battery' < battery]_sensorVars

(* After every round the subscribers' illuminance is at most ten below the *)
(* one just read and never above it, the comparison of words being what    *)
(* publishes every decrease.                                               *)
IlluminanceTracked ==
  program = "illuminance" =>
    LET known == IF published = Nothing THEN 0 ELSE published
    IN  known <= reading /\ reading <= known + 10

=============================================================================
