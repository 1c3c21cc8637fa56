-------------------------------- MODULE Home --------------------------------
(***************************************************************************)
(* The smart nightlight as a whole: the hub, the two sensors, and the      *)
(* pub-sub library between them.  The hub asks for the content of each     *)
(* sensor every 5 s; an answer holds what was published last when it left, *)
(* and may be late or lost.                                                *)
(***************************************************************************)
EXTENDS Nightlight

CONSTANT Word   \* 2^32 in the program

ASSUME WordAssumption == Word \in Nat /\ Word > 200
ASSUME ReadingsAssumption == MotionValues \cup IlluminanceValues \subseteq 0 .. 85

Nothing == -1

(* Of each sensor: the value its state remembers, the content it published *)
(* last, the value it read last, and the answer under way to the hub.      *)
VARIABLES illLast, illContent, illReading, illAnswer
VARIABLES motLast, motContent, motReading, motAnswer

illVars == <<illLast, illContent, illReading>>
motVars == <<motLast, motContent, motReading>>
homeVars == <<vars, illVars, illAnswer, motVars, motAnswer>>

Ill == INSTANCE Sensor WITH program <- "illuminance", Values <- IlluminanceValues,
         lastValue <- illLast, published <- illContent, reading <- illReading,
         lastBattery <- 100, used <- 0, battery <- Nothing, Rounds <- {1}

Mot == INSTANCE Sensor WITH program <- "motion", Values <- MotionValues,
         lastValue <- motLast, published <- motContent, reading <- motReading,
         lastBattery <- 100, used <- 0, battery <- Nothing, Rounds <- {1}

HomeInit ==
  /\ Init
  /\ illLast = 0 /\ illContent = Nothing /\ illReading = 0 /\ illAnswer = Nothing
  /\ motLast = 0 /\ motContent = Nothing /\ motReading = 0 /\ motAnswer = Nothing

-----------------------------------------------------------------------------
(* The sensors *)

SenseIlluminance(v) ==
  /\ Ill!PublishValue(v)
  /\ illReading' = v
  /\ UNCHANGED <<vars, illAnswer, motVars, motAnswer>>

SenseMotion(v) ==
  /\ Mot!PublishValue(v)
  /\ motReading' = v
  /\ UNCHANGED <<vars, illVars, illAnswer, motAnswer>>

(* The library: an Interest of the hub reaches the sensor, which answers   *)
(* when it has content; the answer is lost; the hub's callback gets it.    *)
AnswerIlluminance ==
  /\ illContent # Nothing
  /\ illAnswer' = illContent
  /\ UNCHANGED <<vars, illVars, motVars, motAnswer>>

AnswerMotion ==
  /\ motContent # Nothing
  /\ motAnswer' = motContent
  /\ UNCHANGED <<vars, illVars, illAnswer, motVars>>

LoseIlluminance == illAnswer # Nothing /\ illAnswer' = Nothing /\ UNCHANGED <<vars, illVars, motVars, motAnswer>>

LoseMotion == motAnswer # Nothing /\ motAnswer' = Nothing /\ UNCHANGED <<vars, illVars, illAnswer, motVars>>

ReceiveIlluminance ==
  /\ illAnswer # Nothing
  /\ OnIlluminancePublish(illAnswer)
  /\ illAnswer' = Nothing
  /\ UNCHANGED <<illVars, motVars, motAnswer>>

ReceiveMotion ==
  /\ motAnswer # Nothing
  /\ OnMotionPublish(motAnswer)
  /\ motAnswer' = Nothing
  /\ UNCHANGED <<illVars, illAnswer, motVars>>

HomeTick == Tick /\ UNCHANGED <<illVars, illAnswer, motVars, motAnswer>>

IlluminanceRound == \E v \in IlluminanceValues : SenseIlluminance(v)
MotionRound == \E v \in MotionValues : SenseMotion(v)

HomeNext ==
  \/ IlluminanceRound \/ AnswerIlluminance \/ LoseIlluminance \/ ReceiveIlluminance
  \/ MotionRound \/ AnswerMotion \/ LoseMotion \/ ReceiveMotion
  \/ HomeTick

HomeSpec == HomeInit /\ [][HomeNext]_homeVars

(* Time passes, the hub asks every five seconds, and not every answer of   *)
(* the illuminance sensor is lost.  Of the sensors nothing is assumed: the *)
(* reading is published in the round that reads it, and may stay the same. *)
HomeFairSpec ==
  /\ HomeSpec
  /\ WF_homeVars(HomeTick) /\ WF_homeVars(AnswerIlluminance) /\ SF_homeVars(ReceiveIlluminance)

(* Nor is every answer of the motion sensor. *)
HomeMotionFairSpec ==
  HomeFairSpec /\ WF_homeVars(AnswerMotion) /\ SF_homeVars(ReceiveMotion)

-----------------------------------------------------------------------------
(* Properties *)

(* Type correctness of what the hub's module does not have. *)
HomeTypeOK ==
  /\ Ill!SensorTypeOK /\ Mot!SensorTypeOK
  /\ illAnswer \in IlluminanceValues \cup {Nothing}
  /\ motAnswer \in MotionValues \cup {Nothing}

(* When it stays so light that what was published is bright as well, the   *)
(* lights go off and stay off, unless motion is still published as active. *)
(* It takes the sensor's threshold of ten and the hub's of fifty together. *)
LightTurnsOff ==
  <>[](illReading > 60 /\ (motContent = Nothing \/ ~ Active(motContent)))
    => <>[](lastStatus = 0)

-----------------------------------------------------------------------------
(* What the comments say, and the code does not do.                        *)

(* smart-nightlight-hub.c:48 "Turns lights off when it becomes light or    *)
(* some time after motion ceases."                                         *)
OffAfterMotionCeased ==
  <>(motion # None /\ Active(motion)) /\ <>[](~ Active(motReading))
    => []<>(lastStatus = 0)

=============================================================================
