----------------------------- MODULE HomeProofs -----------------------------
(***************************************************************************)
(* Theorems about Nightlight and Home, for every delay and all values of   *)
(* reports and readings: those about the hub alone first; then those about *)
(* the home, in which the hub behaves as module Nightlight says, so that   *)
(* what is proved of the hub holds of the home.                            *)
(***************************************************************************)
EXTENDS Home, TLAPS

HubInv == TypeOK /\ StopFollowsMotion

LEMMA HubInit == Init => HubInv
BY DelayAssumption DEF Init, HubInv, TypeOK, StopFollowsMotion, Ages, None, NoCommand

(* Whatever a rule does, it leaves the lights alone or sends a command of  *)
(* the right type.                                                         *)
LEMMA LightsStep ==
  ASSUME HubInv,
         TurnOff \/ TurnOn \/ LeaveLights \/ \E v \in MotionValues : TurnOnMoving(v)
  PROVE  lastStatus' \in {0, 1} /\ command' \in Commands \cup {NoCommand}
BY DEF HubInv, TypeOK, TurnOff, TurnOn, TurnOnMoving, LeaveLights, PublishCommand, Commands

LEMMA OlderFacts ==
  ASSUME NEW a \in Ages \cup {None}, delay \in Delays
  PROVE  /\ Older(a) \in Ages \cup {None} /\ (Older(a) = None <=> a = None)
         /\ a # None => a \in Nat /\ Older(a) = IF a = delay + 1 THEN a ELSE a + 1
BY DelayAssumption DEF Older, Ages, None

(* What a motion report does to the times. *)
MotionEffect(v, ticked) ==
  /\ motion' = v
  /\ sinceStop' = IF Active(v) THEN None ELSE IF ticked THEN 1 ELSE 0
  /\ sinceActive' = LET before == IF Active(v) THEN 0 ELSE sinceActive
                    IN  IF ticked THEN Older(before) ELSE before
  /\ UNCHANGED <<delay, illuminance, reported>>

LEMMA MotionEffects ==
  ASSUME NEW v \in MotionValues, OnMotionPublish(v)
  PROVE  \E ticked \in BOOLEAN : MotionEffect(v, ticked)
<1>1. PICK ticked \in BOOLEAN :
         /\ MotionRule(v, ticked)
         /\ motion' = v
         /\ sinceActive' = LET before == IF Active(v) THEN 0 ELSE sinceActive
                           IN  IF ticked THEN Older(before) ELSE before
         /\ UNCHANGED <<delay, illuminance, reported>>
  BY DEF OnMotionPublish
<1>2. sinceStop' = IF Active(v) THEN None ELSE IF ticked THEN 1 ELSE 0
  BY <1>1 DEF MotionRule
<1> QED BY <1>1, <1>2 DEF MotionEffect

LEMMA HubStep == HubInv /\ [Next]_vars => HubInv'
<1> SUFFICES ASSUME HubInv, [Next]_vars PROVE HubInv'
  OBVIOUS
<1>1. ASSUME NEW v \in IlluminanceValues, OnIlluminancePublish(v)
      PROVE  HubInv'
  <2>1. TurnOff \/ TurnOn \/ LeaveLights
    BY <1>1 DEF OnIlluminancePublish, IlluminanceRule
  <2>2. lastStatus' \in {0, 1} /\ command' \in Commands \cup {NoCommand}
    BY <2>1, LightsStep
  <2>3. illuminance' \in IlluminanceValues \cup {None} /\ reported' \in BOOLEAN
    BY <1>1 DEF OnIlluminancePublish, HubInv, TypeOK
  <2>4. UNCHANGED <<delay, sinceStop, motion, sinceActive>>
    BY <1>1 DEF OnIlluminancePublish
  <2> QED BY <2>2, <2>3, <2>4 DEF HubInv, TypeOK, StopFollowsMotion, Ages, Commands
<1>2. ASSUME NEW v \in MotionValues, OnMotionPublish(v)
      PROVE  HubInv'
  <2>1. TurnOff \/ TurnOnMoving(v) \/ LeaveLights
    BY <1>2 DEF OnMotionPublish, MotionRule, TurnOffMotion
  <2>2. lastStatus' \in {0, 1} /\ command' \in Commands \cup {NoCommand}
    BY <2>1, LightsStep
  <2>3. PICK ticked \in BOOLEAN : MotionEffect(v, ticked)
    BY <1>2, MotionEffects
  <2>4. v \in Nat /\ v # None
    BY ValuesAssumption DEF None
  <2>5. delay \in Nat /\ sinceActive \in Ages \cup {None}
    BY DelayAssumption DEF HubInv, TypeOK
  <2>6. sinceStop' \in {None, 0, 1} /\ {0, 1} \subseteq Ages'
    BY <2>3, <2>5 DEF Ages, MotionEffect
  <2>7. sinceActive' \in Ages' \cup {None}
    BY <2>3, <2>5 DEF Ages, MotionEffect, Older, None
  <2>8. StopFollowsMotion'
    <3>1. sinceStop' = None <=> motion' = None \/ Active(motion')
      BY <2>3, <2>4 DEF MotionEffect, None
    <3>2. ASSUME sinceStop' # None PROVE sinceActive' = None \/ sinceActive' >= sinceStop'
      BY <3>2, <2>3, <2>5 DEF MotionEffect, Older, Ages, None
    <3> QED BY <3>1, <3>2 DEF StopFollowsMotion
  <2> QED BY <2>2, <2>3, <2>4, <2>6, <2>7, <2>8 DEF HubInv, TypeOK, MotionEffect, Commands
<1>3. CASE Tick
  <2>1. /\ sinceStop \in Ages \cup {None} /\ sinceActive \in Ages \cup {None}
        /\ delay \in Delays /\ delay \in Nat
    BY DelayAssumption DEF HubInv, TypeOK
  <2>2. /\ sinceStop' = Older(sinceStop) /\ sinceActive' = Older(sinceActive)
        /\ UNCHANGED <<delay, lastStatus, command, motion, illuminance, reported>>
    BY <1>3 DEF Tick
  <2>3. StopFollowsMotion'
    <3>1. sinceStop' = None <=> motion' = None \/ Active(motion')
      BY <2>1, <2>2, OlderFacts DEF HubInv, StopFollowsMotion
    <3>2. ASSUME sinceStop' # None, sinceActive' # None
          PROVE  sinceActive' >= sinceStop'
      <4>1. /\ sinceStop # None /\ sinceActive # None
            /\ sinceStop \in Nat /\ sinceActive \in Nat
            /\ sinceStop' = IF sinceStop = delay + 1 THEN sinceStop ELSE sinceStop + 1
            /\ sinceActive' = IF sinceActive = delay + 1 THEN sinceActive ELSE sinceActive + 1
        BY <2>1, <2>2, <3>2, OlderFacts
      <4>2. sinceActive >= sinceStop /\ sinceActive <= delay + 1
        BY <2>1, <4>1, DelayAssumption DEF HubInv, StopFollowsMotion, Ages
      <4> QED BY <4>1, <4>2, DelayAssumption
    <3> QED BY <3>1, <3>2 DEF StopFollowsMotion
  <2>4. TypeOK'
    BY <2>1, <2>2, OlderFacts DEF HubInv, TypeOK, Ages, Commands
  <2> QED BY <2>3, <2>4 DEF HubInv
<1>4. CASE UNCHANGED vars
  BY <1>4 DEF vars, HubInv, TypeOK, StopFollowsMotion, Ages, Commands
<1> QED BY <1>1, <1>2, <1>3, <1>4 DEF Next, IlluminanceReport, MotionReport

-----------------------------------------------------------------------------
(* The state keeps its type, whatever the delay.                           *)
THEOREM HubTypeCorrect == Spec => []TypeOK
<1>1. HubInv => TypeOK
  BY DEF HubInv
<1> QED BY <1>1, HubInit, HubStep, PTL DEF Spec

(* The stop time is set exactly while motion was last reported inactive,   *)
(* and is not older than the last active report.                           *)
THEOREM StopTimeFollowsMotion == Spec => []StopFollowsMotion
<1>1. HubInv => StopFollowsMotion
  BY DEF HubInv
<1> QED BY <1>1, HubInit, HubStep, PTL DEF Spec

(* Unless it is bright, the lights only go off once motion was last        *)
(* reported active longer than the delay ago.                              *)
THEOREM LightsStayOnWhileMotion == Spec => OnWhileMotion
<1> DEFINE MayTurnOff == /\ motion' # None /\ ~ Active(motion')
                         /\ sinceActive' = None \/ Passed(sinceActive)'
<1>1. HubInv /\ [Next]_vars => [TurnsOff /\ ~ Bright(illuminance') => MayTurnOff]_vars
  <2> SUFFICES ASSUME HubInv, HubInv', Next, TurnsOff, ~ Bright(illuminance')
               PROVE  MayTurnOff
    BY HubStep
  <2>1. sinceStop' # None /\ sinceStop' > delay /\ delay' = delay
    <3>1. ASSUME NEW v \in IlluminanceValues, OnIlluminancePublish(v)
          PROVE  sinceStop' # None /\ sinceStop' > delay /\ delay' = delay
      BY <3>1 DEF OnIlluminancePublish, IlluminanceRule, TurnsOff, LeaveLights, TurnOn,
                  PublishCommand, CmdOn, CmdOff, Passed
    <3>2. ASSUME NEW v \in MotionValues, OnMotionPublish(v)
          PROVE  sinceStop' # None /\ sinceStop' > delay /\ delay' = delay
      BY <3>2 DEF OnMotionPublish, MotionRule, TurnOffMotion, TurnsOff, LeaveLights,
                  TurnOnMoving, PublishCommand, CmdOn, CmdOff, Passed
    <3>3. CASE Tick
      BY <3>3 DEF Tick, TurnsOff
    <3> QED BY <3>1, <3>2, <3>3 DEF Next, IlluminanceReport, MotionReport
  <2>2. motion' # None /\ ~ Active(motion')
    BY <2>1 DEF HubInv, StopFollowsMotion
  <2>3. sinceActive' = None \/ sinceActive' >= sinceStop'
    BY <2>1 DEF HubInv, StopFollowsMotion
  <2>4. sinceStop' \in Int /\ sinceActive' \in Int /\ delay \in Nat
    BY DelayAssumption DEF HubInv, TypeOK, Ages, None
  <2>5. sinceActive' = None \/ (sinceActive' # None /\ sinceActive' > delay')
    BY <2>1, <2>3, <2>4
  <2> QED BY <2>2, <2>5 DEF Passed
<1> QED BY <1>1, HubInit, HubStep, PTL DEF Spec, OnWhileMotion

(* Once motion ceased, no illuminance report turns the lights on.          *)
THEOREM DarknessAloneStaysOff == Spec => DarkAfterMotionStaysOff
<1> DEFINE MayTurnOn == Active(motion') \/ motion' = None
<1>1. HubInv /\ [Next]_vars => [TurnsOn => MayTurnOn]_vars
  <2> SUFFICES ASSUME HubInv, Next, TurnsOn PROVE MayTurnOn
    OBVIOUS
  <2>1. ASSUME NEW v \in IlluminanceValues, OnIlluminancePublish(v)
        PROVE  MayTurnOn
    <3>1. sinceStop = None /\ motion' = motion
      BY <2>1 DEF OnIlluminancePublish, IlluminanceRule, TurnsOn, LeaveLights, TurnOff
    <3> QED BY <3>1 DEF HubInv, StopFollowsMotion
  <2>2. ASSUME NEW v \in MotionValues, OnMotionPublish(v)
        PROVE  MayTurnOn
    BY <2>2 DEF OnMotionPublish, MotionRule, TurnOffMotion, TurnsOn, LeaveLights, TurnOff
  <2>3. CASE Tick
    BY <2>3 DEF Tick, TurnsOn
  <2> QED BY <2>1, <2>2, <2>3 DEF Next, IlluminanceReport, MotionReport
<1> QED BY <1>1, HubInit, HubStep, PTL DEF Spec, DarkAfterMotionStaysOff

-----------------------------------------------------------------------------
(* The home *)

(* What a sensor remembers, publishes and sends was read.                  *)
LEMMA HomeInitType == HomeInit => HomeTypeOK
BY DEF HomeInit, HomeTypeOK, Ill!SensorTypeOK, Mot!SensorTypeOK, Ill!FullBattery,
       Ill!MaxUsed, Mot!FullBattery, Mot!MaxUsed, Ill!Nothing, Mot!Nothing, Nothing

LEMMA HomeTypeStep == HomeTypeOK /\ [HomeNext]_homeVars => HomeTypeOK'
<1> SUFFICES ASSUME HomeTypeOK, [HomeNext]_homeVars PROVE HomeTypeOK'
  OBVIOUS
<1> USE DEF HomeTypeOK, Ill!SensorTypeOK, Mot!SensorTypeOK, Ill!FullBattery,
       Ill!MaxUsed, Mot!FullBattery, Mot!MaxUsed, Ill!Nothing, Mot!Nothing, Nothing
<1>1. ASSUME NEW v \in IlluminanceValues, SenseIlluminance(v) PROVE HomeTypeOK'
  BY <1>1 DEF SenseIlluminance, Ill!PublishValue, motVars
<1>2. ASSUME NEW v \in MotionValues, SenseMotion(v) PROVE HomeTypeOK'
  BY <1>2 DEF SenseMotion, Mot!PublishValue, illVars
<1>3. CASE AnswerIlluminance \/ LoseIlluminance \/ ReceiveIlluminance
  BY <1>3 DEF AnswerIlluminance, LoseIlluminance, ReceiveIlluminance, illVars, motVars
<1>4. CASE AnswerMotion \/ LoseMotion \/ ReceiveMotion
  BY <1>4 DEF AnswerMotion, LoseMotion, ReceiveMotion, illVars, motVars
<1>5. CASE HomeTick
  BY <1>5 DEF HomeTick, illVars, motVars
<1>6. CASE UNCHANGED homeVars
  BY <1>6 DEF homeVars, illVars, motVars
<1> QED BY <1>1, <1>2, <1>3, <1>4, <1>5, <1>6 DEF HomeNext, IlluminanceRound, MotionRound

(* Every step of the home is a step of the hub or none of it.              *)
LEMMA HomeStepIsHubStep == HomeTypeOK /\ [HomeNext]_homeVars => [Next]_vars
<1> SUFFICES ASSUME HomeTypeOK, HomeNext PROVE [Next]_vars
  BY DEF homeVars
<1>1. CASE ReceiveIlluminance
  BY <1>1 DEF ReceiveIlluminance, HomeTypeOK, Next, IlluminanceReport
<1>2. CASE ReceiveMotion
  BY <1>2 DEF ReceiveMotion, HomeTypeOK, Next, MotionReport
<1>3. CASE HomeTick
  BY <1>3 DEF HomeTick, Next
<1>4. CASE IlluminanceRound \/ MotionRound
  BY <1>4 DEF IlluminanceRound, MotionRound, SenseIlluminance, SenseMotion
<1>5. CASE AnswerIlluminance \/ LoseIlluminance \/ AnswerMotion \/ LoseMotion
  BY <1>5 DEF AnswerIlluminance, LoseIlluminance, AnswerMotion, LoseMotion
<1> QED BY <1>1, <1>2, <1>3, <1>4, <1>5 DEF HomeNext

-----------------------------------------------------------------------------
(* The sensors and the answers under way hold nothing but readings. *)
THEOREM HomeTypeCorrect == HomeSpec => []HomeTypeOK
BY HomeInitType, HomeTypeStep, PTL DEF HomeSpec

(* The hub of the home is the hub of module Nightlight, whatever becomes   *)
(* of the answers of the sensors.                                          *)
THEOREM HomeImplementsHub == HomeSpec => Spec
<1>1. HomeInit => Init
  BY DEF HomeInit
<1> QED BY <1>1, HomeStepIsHubStep, HomeTypeCorrect, PTL DEF HomeSpec, Spec

(* In the home too the lights stay on for the delay after motion was last  *)
(* reported, unless it is bright.                                          *)
THEOREM HomeStaysLit == HomeSpec => OnWhileMotion
BY HomeImplementsHub, LightsStayOnWhileMotion, PTL

(* And darkness alone does not turn them on once motion ceased.            *)
THEOREM HomeStaysDark == HomeSpec => DarkAfterMotionStaysOff
BY HomeImplementsHub, DarknessAloneStaysOff, PTL

-----------------------------------------------------------------------------
(* What the sensors let the hub know *)

(* Subtraction of readings as unsigned words: a difference of more than    *)
(* ten, or any decrease, exceeds ten.                                      *)
LEMMA DifferenceFacts ==
  ASSUME NEW a \in 0 .. 85, NEW b \in 0 .. 85
  PROVE  Ill!Minus(a, b) > 10 <=> ~ (b <= a /\ a <= b + 10)
<1>1. Word \in Nat /\ Word > 200 /\ Ill!Minus(a, b) = (a - b) % Word
  BY WordAssumption DEF Ill!Minus
<1>2. CASE a >= b
  <2>1. a - b \in 0 .. Word - 1
    BY <1>1, <1>2
  <2> QED BY <1>1, <1>2, <2>1
<1>3. CASE a < b
  <2>1. a - b + Word \in 0 .. Word - 1
    BY <1>1, <1>3
  <2>2. (a - b) % Word = a - b + Word
    BY <1>1, <1>3, <2>1
  <2> QED BY <1>1, <1>3, <2>2
<1> QED BY <1>2, <1>3

(* The illuminance sensor remembers what it published, which is at most    *)
(* ten below what it read.                                                 *)
Tracked ==
  /\ illLast = IF illContent = Nothing THEN 0 ELSE illContent
  /\ Ill!IlluminanceTracked

(* The motion sensor remembers nothing: a reading is published exactly if  *)
(* it exceeds ten, so that nothing below it ever reaches the hub.          *)
Heard ==
  /\ motLast = 0
  /\ motReading > 10 => motContent = motReading
  /\ motContent # Nothing => motContent > 10
  /\ motAnswer # Nothing => motAnswer > 10
  /\ motion # None => motion > 10

(* What the lights need of the sensor: when it reads bright, with ten to   *)
(* spare, what it published is bright.                                     *)
BrightIsPublished == illReading > 60 => illContent # Nothing /\ Bright(illContent)

(* A reading of ten or less leaves the content of the motion sensor as it  *)
(* is: that motion ceased is not published.                                *)
StillnessUnpublished == motReading' <= 10 => UNCHANGED motContent

LEMMA TrackedInit == HomeInit => Tracked /\ Heard
BY DEF HomeInit, Init, Tracked, Heard, Ill!IlluminanceTracked, Ill!Nothing, Nothing, None

LEMMA TrackedStep ==
  ASSUME HomeTypeOK, Tracked, [HomeNext]_homeVars
  PROVE  Tracked'
<1> DEFINE known == IF illContent = Nothing THEN 0 ELSE illContent
<1>1. /\ illLast = known /\ known <= illReading /\ illReading <= known + 10
      /\ illLast \in 0 .. 85 /\ illReading \in 0 .. 85
  BY ReadingsAssumption DEF Tracked, Ill!IlluminanceTracked, Ill!Nothing, Nothing, HomeTypeOK,
                            Ill!SensorTypeOK
<1>2. CASE UNCHANGED illVars
  BY <1>2 DEF Tracked, Ill!IlluminanceTracked, illVars
<1>3. ASSUME NEW v \in IlluminanceValues, SenseIlluminance(v)
      PROVE  Tracked'
  <2>1. Ill!PublishValue(v) /\ illReading' = v /\ v \in 0 .. 85
    BY <1>3, ReadingsAssumption DEF SenseIlluminance
  <2>2. CASE Ill!Minus(v, illLast) > 10
    <3>1. illContent' = v /\ illLast' = v /\ v # Nothing
      BY <2>1, <2>2 DEF Ill!PublishValue, Nothing
    <3> QED BY <2>1, <3>1 DEF Tracked, Ill!IlluminanceTracked, Ill!Nothing, Nothing
  <2>3. CASE ~ (Ill!Minus(v, illLast) > 10)
    <3>1. UNCHANGED <<illContent, illLast>> /\ illLast <= v /\ v <= illLast + 10
      BY <1>1, <2>1, <2>3, DifferenceFacts DEF Ill!PublishValue
    <3> QED BY <1>1, <2>1, <3>1 DEF Tracked, Ill!IlluminanceTracked, Ill!Nothing, Nothing
  <2> QED BY <2>2, <2>3
<1>4. CASE UNCHANGED homeVars
  BY <1>2, <1>4 DEF homeVars
<1>5. CASE HomeNext /\ ~ IlluminanceRound
  BY <1>2, <1>5 DEF HomeNext, AnswerIlluminance, LoseIlluminance, ReceiveIlluminance, MotionRound,
                    SenseMotion, AnswerMotion, LoseMotion, ReceiveMotion, HomeTick
<1> QED BY <1>3, <1>4, <1>5 DEF IlluminanceRound

LEMMA HeardStep ==
  ASSUME HomeTypeOK, Heard, [HomeNext]_homeVars
  PROVE  Heard' /\ StillnessUnpublished
<1>1. motReading \in 0 .. 85
  BY ReadingsAssumption DEF HomeTypeOK, Mot!SensorTypeOK
<1>2. ASSUME UNCHANGED motVars, UNCHANGED <<motAnswer, motion>> \/ motAnswer' = Nothing,
             UNCHANGED motion \/ motion' = motAnswer, motAnswer # Nothing \/ UNCHANGED motion
      PROVE  Heard' /\ StillnessUnpublished
  BY <1>2 DEF Heard, StillnessUnpublished, motVars
<1>3. ASSUME NEW v \in MotionValues, SenseMotion(v)
      PROVE  Heard' /\ StillnessUnpublished
  <2>1. Mot!PublishValue(v) /\ motReading' = v /\ v \in 0 .. 85 /\ UNCHANGED <<motAnswer, motion>>
    BY <1>3, ReadingsAssumption DEF SenseMotion, vars
  <2>2. motLast = 0 /\ (Mot!Minus(v, motLast) > 10 <=> v > 10)
    <3>1. Mot!Minus(v, 0) = Ill!Minus(v, 0)
      BY DEF Mot!Minus, Ill!Minus
    <3>2. Ill!Minus(v, 0) > 10 <=> ~ (0 <= v /\ v <= 0 + 10)
      BY <2>1, DifferenceFacts
    <3> QED BY <2>1, <3>1, <3>2 DEF Heard
  <2>3. /\ motLast' = motLast
        /\ IF v > 10 THEN motContent' = v ELSE UNCHANGED motContent
    BY <2>1, <2>2 DEF Mot!PublishValue
  <2> QED BY <2>1, <2>2, <2>3 DEF Heard, StillnessUnpublished
<1>4. CASE AnswerMotion
  BY <1>4 DEF AnswerMotion, Heard, StillnessUnpublished, motVars, vars
<1>5. CASE LoseMotion \/ ReceiveMotion
  BY <1>2, <1>5 DEF LoseMotion, ReceiveMotion, OnMotionPublish, vars
<1>6. CASE UNCHANGED homeVars
  BY <1>2, <1>6 DEF homeVars, vars
<1>7. CASE IlluminanceRound \/ AnswerIlluminance \/ LoseIlluminance \/ ReceiveIlluminance
           \/ HomeTick
  BY <1>2, <1>7 DEF IlluminanceRound, SenseIlluminance, AnswerIlluminance, LoseIlluminance,
                    ReceiveIlluminance, OnIlluminancePublish, HomeTick, Tick, vars
<1> QED BY <1>3, <1>4, <1>5, <1>6, <1>7 DEF HomeNext, MotionRound

(* The sensor's threshold of ten and the hub's of fifty together: while it *)
(* reads more than sixty, every answer that leaves it tells the hub that   *)
(* it is bright.                                                           *)
THEOREM BrightnessIsPublished == HomeSpec => [](Ill!IlluminanceTracked /\ BrightIsPublished)
<1>1. HomeTypeOK /\ Tracked => Ill!IlluminanceTracked /\ BrightIsPublished
  <2> SUFFICES ASSUME HomeTypeOK, Tracked PROVE Ill!IlluminanceTracked /\ BrightIsPublished
    OBVIOUS
  <2>1. illContent \in 0 .. 85 \cup {Nothing} /\ illReading \in 0 .. 85
    BY ReadingsAssumption DEF HomeTypeOK, Ill!SensorTypeOK, Ill!Nothing, Nothing
  <2> QED BY <2>1 DEF Tracked, Ill!IlluminanceTracked, BrightIsPublished, Bright, Ill!Nothing, Nothing
<1>2. HomeTypeOK /\ Tracked /\ [HomeNext]_homeVars => Tracked'
  BY TrackedStep
<1> QED BY <1>1, <1>2, TrackedInit, HomeTypeCorrect, PTL DEF HomeSpec

(* Why the lights may stay on after motion ceased: whatever the values and *)
(* however often the hub asks, it never hears of a reading of ten or less, *)
(* but goes on being told of the last one above.                           *)
THEOREM StillnessIsNotHeard == HomeSpec => []Heard /\ [][StillnessUnpublished]_homeVars
<1>1. HomeTypeOK /\ Heard /\ [HomeNext]_homeVars => Heard' /\ [StillnessUnpublished]_homeVars
  BY HeardStep
<1> QED BY <1>1, TrackedInit, HomeTypeCorrect, PTL DEF HomeSpec

=============================================================================
