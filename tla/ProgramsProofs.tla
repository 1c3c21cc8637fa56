--------------------------- MODULE ProgramsProofs ---------------------------
(***************************************************************************)
(* Theorems about Programs, for every word, all readings and every storage *)
(* with room for four keys.                                                *)
(***************************************************************************)
EXTENDS Programs, FiniteSetTheorems, TLAPS

(* Subtraction of unsigned words. *)
LEMMA MinusFacts ==
  ASSUME NEW a \in 0 .. 200, NEW b \in 0 .. 200
  PROVE  Minus(a, b) = IF a >= b THEN a - b ELSE a - b + Word
<1>1. Word \in Nat /\ Word > 200
  BY WordAssumption
<1>2. CASE a >= b
  <2>1. a - b \in 0 .. Word - 1
    BY <1>1, <1>2
  <2> QED BY <1>1, <1>2, <2>1 DEF Minus
<1>3. CASE a < b
  <2>1. a - b + Word \in 0 .. Word - 1
    BY <1>1, <1>3
  <2>2. (a - b) % Word = a - b + Word
    BY <1>1, <1>3, <2>1
  <2> QED BY <1>3, <2>2 DEF Minus
<1> QED BY <1>2, <1>3

-----------------------------------------------------------------------------
(* The sensors *)

Known == IF published = Nothing THEN 0 ELSE published

(* What is published last is what the state remembers.                     *)
SensorInv ==
  /\ SensorTypeOK
  /\ IlluminanceTracked
  /\ battery # Nothing => battery = lastBattery
  /\ program = "illuminance" => lastValue = Known

LEMMA SensorInitInv == SensorInit => SensorInv
BY DEF SensorInit, SensorInv, SensorTypeOK, IlluminanceTracked, Known, Nothing,
       FullBattery, MaxUsed

LEMMA BatteryStep ==
  ASSUME SensorInv, NEW percents \in Rounds, PublishBattery(Capped(used + percents))
  PROVE  /\ lastBattery' \in 0 .. FullBattery /\ used' \in 0 .. MaxUsed
         /\ battery' \in 0 .. FullBattery - 1 \cup {Nothing}
         /\ battery' # Nothing => battery' = lastBattery'
         /\ battery' # battery /\ battery # Nothing => battery' < battery
<1> DEFINE now == Capped(used + percents)
           level == Minus(FullBattery, now)
<1>1. used \in 0 .. 101 /\ lastBattery \in 0 .. 100 /\ percents \in Nat \ {0}
  BY RoundsAssumption DEF SensorInv, SensorTypeOK, FullBattery, MaxUsed
<1>2. now \in 1 .. 101
  BY <1>1 DEF Capped, FullBattery, MaxUsed
<1>3. level = IF 100 >= now THEN 100 - now ELSE 100 - now + Word
  BY <1>2, MinusFacts DEF FullBattery
<1>4. Word \in Nat /\ Word > 200
  BY WordAssumption
<1>5. level < lastBattery => level \in 0 .. 99
  BY <1>1, <1>2, <1>3, <1>4
<1>6. \/ level < lastBattery /\ lastBattery' = level /\ battery' = level /\ used' = 0
      \/ used' = now /\ UNCHANGED <<lastBattery, battery>>
  BY DEF PublishBattery
<1>7. battery \in 0 .. 99 \cup {-1} /\ (battery # -1 => battery = lastBattery)
  BY DEF SensorInv, SensorTypeOK, Nothing, FullBattery
<1> HIDE DEF now, level
<1> QED BY <1>1, <1>2, <1>5, <1>6, <1>7 DEF FullBattery, MaxUsed, Nothing

LEMMA ValueStep ==
  ASSUME SensorInv, NEW v \in Values, PublishValue(v), reading' = v, UNCHANGED program
  PROVE  /\ lastValue' \in Values \cup {0} /\ reading' \in Values \cup {0}
         /\ published' \in Values \cup {Nothing}
         /\ IlluminanceTracked'
         /\ program' = "illuminance" => lastValue' = Known'
<1>1. v \in 0 .. 85 /\ lastValue \in 0 .. 85
  BY ValuesAssumption DEF SensorInv, SensorTypeOK
<1>2. Word \in Nat /\ Word > 200
  BY WordAssumption
<1>3. Minus(v, lastValue) = IF v >= lastValue THEN v - lastValue ELSE v - lastValue + Word
  BY <1>1, MinusFacts
<1>4. Minus(v, lastValue) > 10 <=> ~ (lastValue <= v /\ v <= lastValue + 10)
  BY <1>1, <1>2, <1>3
<1>5. CASE Minus(v, lastValue) > 10
  <2>1. /\ published' = v /\ published' # Nothing
        /\ lastValue' = IF program = "illuminance" THEN v ELSE lastValue
    BY <1>1, <1>5 DEF PublishValue, Nothing
  <2> QED BY <1>1, <2>1 DEF SensorInv, SensorTypeOK, IlluminanceTracked, Known
<1>6. CASE ~ (Minus(v, lastValue) > 10)
  <2>1. UNCHANGED <<published, lastValue>> /\ lastValue <= v /\ v <= lastValue + 10
    BY <1>4, <1>6 DEF PublishValue
  <2> QED BY <1>1, <2>1 DEF SensorInv, SensorTypeOK, IlluminanceTracked, Known
<1> QED BY <1>5, <1>6

LEMMA SensorStep ==
  ASSUME SensorInv, UNCHANGED program, NEW percents \in Rounds, NEW v \in Values,
         ServiceDataPublishing(percents, v)
  PROVE  SensorInv' /\ (battery' # battery /\ battery # Nothing => battery' < battery)
<1>1. PublishBattery(Capped(used + percents)) /\ PublishValue(v) /\ reading' = v
  BY DEF ServiceDataPublishing
<1> QED BY <1>1, BatteryStep, ValueStep DEF SensorInv, SensorTypeOK

-----------------------------------------------------------------------------
(* The keys *)

(* Every injected key took its own slot; nothing is spoken of before the   *)
(* loop, and in it only what was to be injected.                           *)
KeysInv ==
  /\ pc \in {"boot", "inject", "loop"}
  /\ program \in DOMAIN Services
  /\ pc = "boot" => keyed = {} /\ uninjected = {} /\ slots = 0
  /\ pc # "boot" => /\ keyed \cup uninjected = Injected(program)
                    /\ keyed \cap uninjected = {}
                    /\ slots = 1 + Cardinality(keyed)
  /\ pc = "loop" => uninjected = {}
  /\ pc # "loop" => spoke = {} /\ listens = {}
  /\ spoke \subseteq Injected(program) /\ listens \subseteq Injected(program)

LEMMA InjectedFacts ==
  ASSUME NEW p \in DOMAIN Services
  PROVE  /\ Injected(p) \subseteq AllServices
         /\ IsFiniteSet(Injected(p)) /\ Cardinality(Injected(p)) <= 3
         /\ SubscribedTo[p] \subseteq Injected(p)
         /\ p \in Sensors => Injected(p) = {p, "battery"}
         /\ p = "puber" => "motion" \in Injected(p)
         /\ p = "control" => "motion" \in Injected(p)
         /\ p = "hub" => "led" \in Injected(p)
<1> USE DEF Services, Injected
<1>1. p \in {"illuminance", "motion", "hub", "puber", "control", "suber"}
  OBVIOUS
<1>2. \/ Injected(p) = {"illuminance", "battery"} /\ p = "illuminance"
      \/ Injected(p) = {"motion", "battery"} /\ p \in {"motion", "puber"}
      \/ Injected(p) = {"motion"} /\ p = "control"
      \/ Injected(p) = {"led", "motion", "illuminance"} /\ p \in {"hub", "suber"}
  BY <1>1 DEF IlluminanceServices, MotionServices, HubServices, PuberServices,
              ControlServices, SuberServices
<1>3. \A a, b, c : IsFiniteSet({a, b, c}) /\ Cardinality({a, b, c}) <= 3
  <2> SUFFICES ASSUME NEW a, NEW b, NEW c
               PROVE  IsFiniteSet({a, b, c}) /\ Cardinality({a, b, c}) <= 3
    OBVIOUS
  <2>1. IsFiniteSet({a}) /\ Cardinality({a}) = 1
    BY FS_Singleton
  <2>2. /\ IsFiniteSet({a} \cup {b}) /\ Cardinality({a} \cup {b}) \in {1, 2}
    BY <2>1, FS_AddElement
  <2>3. /\ IsFiniteSet(({a} \cup {b}) \cup {c})
        /\ Cardinality(({a} \cup {b}) \cup {c}) \in {1, 2, 3}
    BY <2>2, FS_AddElement
  <2>4. ({a} \cup {b}) \cup {c} = {a, b, c}
    OBVIOUS
  <2> QED BY <2>3, <2>4
<1>4. \E a, b, c : Injected(p) = {a, b, c}
  <2>1. {"illuminance", "battery"} = {"illuminance", "battery", "battery"}
    OBVIOUS
  <2>2. {"motion", "battery"} = {"motion", "battery", "battery"}
    OBVIOUS
  <2>3. {"motion"} = {"motion", "motion", "motion"}
    OBVIOUS
  <2> HIDE DEF Injected
  <2> QED BY <1>2, <2>1, <2>2, <2>3
<1>5. IsFiniteSet(Injected(p)) /\ Cardinality(Injected(p)) <= 3
  <2> HIDE DEF Injected
  <2>1. PICK a, b, c : Injected(p) = {a, b, c}
    BY <1>4
  <2>2. IsFiniteSet({a, b, c}) /\ Cardinality({a, b, c}) <= 3
    BY <1>3
  <2> QED BY <2>1, <2>2
<1>6. SubscribedTo[p] = CASE p = "hub" -> {"motion", "illuminance"}
                          [] p = "suber" -> {"motion"}
                          [] OTHER -> {}
  BY DEF SubscribedTo
<1>7. SubscribedTo[p] \subseteq Injected(p)
  <2>1. CASE p = "hub"
    BY <1>2, <1>6, <2>1
  <2>2. CASE p = "suber"
    BY <1>2, <1>6, <2>2
  <2>3. CASE p # "hub" /\ p # "suber"
    BY <1>6, <2>3
  <2> QED BY <2>1, <2>2, <2>3
<1> HIDE DEF Injected
<1> QED BY <1>2, <1>5, <1>7 DEF AllServices, Sensors

LEMMA KeysInit == Init => KeysInv
BY DEF Init, KeysInv

LEMMA KeysStep == KeysInv /\ [Next]_vars => KeysInv'
<1> SUFFICES ASSUME KeysInv, [Next]_vars PROVE KeysInv'
  OBVIOUS
<1> USE DEF KeysInv
<1>0. program' = program
  BY DEF Next, Start, SimulateBootstrap, InjectKey, EnterLoop, SensorRound, SensorLoop,
         HubLoop, ControlLoop, SecondPasses, vars
<1>1. CASE SimulateBootstrap
  BY <1>1, <1>0, FS_EmptySet DEF SimulateBootstrap
<1>2. ASSUME NEW s \in uninjected, InjectKey(s)
      PROVE  KeysInv'
  <2>1. /\ pc = "inject" /\ keyed \cup uninjected = Injected(program)
        /\ keyed \cap uninjected = {} /\ slots = 1 + Cardinality(keyed)
    BY <1>2 DEF InjectKey
  <2>2. IsFiniteSet(Injected(program)) /\ Cardinality(Injected(program)) <= 3
    BY InjectedFacts
  <2>3. IsFiniteSet(keyed \cup {s})
    BY <2>1, <2>2, FS_Subset
  <2>4. IsFiniteSet(keyed) /\ Cardinality(keyed \cup {s}) = Cardinality(keyed) + 1
    BY <2>1, <2>2, FS_Subset, FS_AddElement
  <2>5. Cardinality(keyed \cup {s}) <= Cardinality(Injected(program))
    BY <2>1, <2>2, FS_Subset
  <2>6. slots < AesSlots
    <3>1. Cardinality(keyed) \in Nat /\ Cardinality(Injected(program)) \in Nat
      BY <2>2, <2>4, FS_CardinalityType
    <3> QED BY <2>1, <2>2, <2>4, <2>5, <3>1, SlotsAssumption
  <2>7. /\ uninjected' = uninjected \ {s} /\ slots' = slots + 1
        /\ keyed' = keyed \cup {s}
        /\ UNCHANGED <<pc, spoke, listens>>
    BY <1>2, <2>6 DEF InjectKey
  <2>8. slots' = 1 + Cardinality(keyed')
    BY <2>1, <2>4, <2>7, FS_CardinalityType
  <2>9. keyed' \cup uninjected' = Injected(program) /\ keyed' \cap uninjected' = {}
    BY <2>1, <2>7
  <2> QED BY <1>0, <2>1, <2>7, <2>8, <2>9
<1>3. CASE EnterLoop
  BY <1>3, <1>0, InjectedFacts DEF EnterLoop
<1>4. ASSUME NEW percents \in Rounds, NEW v \in Values, SensorLoop(percents, v)
      PROVE  KeysInv'
  <2>1. Injected(program) = {program, "battery"}
    BY <1>4, InjectedFacts DEF SensorLoop
  <2>2. spoke' \subseteq spoke \cup {program, "battery"}
    BY <1>4 DEF SensorLoop
  <2>3. UNCHANGED <<program, pc, keyed, uninjected, slots, listens>> /\ pc = "loop"
    BY <1>4 DEF SensorLoop, startVars
  <2> QED BY <2>1, <2>2, <2>3
<1>5. CASE HubLoop
  BY <1>5, InjectedFacts DEF HubLoop, startVars
<1>6. CASE ControlLoop
  BY <1>6, InjectedFacts DEF ControlLoop, startVars
<1>7. CASE SecondPasses
  BY <1>7 DEF SecondPasses, startVars
<1>8. CASE UNCHANGED vars
  BY <1>8 DEF vars, startVars
<1> QED BY <1>1, <1>2, <1>3, <1>4, <1>5, <1>6, <1>7, <1>8 DEF Next, Start, SensorRound

-----------------------------------------------------------------------------
(* Together *)

ProgramsInv ==
  /\ SensorInv
  /\ KeysInv
  /\ commands \in 0 .. 1 /\ late \in BOOLEAN

LEMMA ProgramsInit == Init => ProgramsInv
<1> SUFFICES ASSUME Init PROVE ProgramsInv
  OBVIOUS
<1>1. SensorInv /\ KeysInv
  BY SensorInitInv, KeysInit DEF Init
<1>2. commands \in 0 .. 1
  BY DEF Init
<1>3. late \in BOOLEAN
  BY Zenon DEF Init
<1> QED BY <1>1, <1>2, <1>3 DEF ProgramsInv

LEMMA ProgramsStep ==
  ASSUME ProgramsInv, [Next]_vars
  PROVE  ProgramsInv' /\ (battery' # battery /\ battery # Nothing => battery' < battery)
<1>1. KeysInv'
  BY KeysStep DEF ProgramsInv
<1>2. SensorInv' /\ (battery' # battery /\ battery # Nothing => battery' < battery)
  <2>1. ASSUME NEW percents \in Rounds, NEW v \in Values, SensorLoop(percents, v)
        PROVE  SensorInv' /\ (battery' # battery /\ battery # Nothing => battery' < battery)
    BY <2>1, SensorStep DEF SensorLoop, ProgramsInv
  <2>2. ASSUME UNCHANGED <<program, sensorVars>>
        PROVE  SensorInv' /\ (battery' # battery /\ battery # Nothing => battery' < battery)
    BY <2>2 DEF sensorVars, ProgramsInv, SensorInv, SensorTypeOK, IlluminanceTracked, Known
  <2> QED BY <2>1, <2>2 DEF Next, Start, SimulateBootstrap, InjectKey, EnterLoop,
             SensorRound, HubLoop, ControlLoop, SecondPasses, vars
<1>3. commands' \in 0 .. 1
  <2>1. commands' = commands \/ (commands = 0 /\ commands' = commands + 1)
    BY Zenon DEF Next, Start, SimulateBootstrap, InjectKey, EnterLoop, SensorRound,
           SensorLoop, HubLoop, ControlLoop, SecondPasses, vars
  <2> QED BY <2>1 DEF ProgramsInv
<1>4. late' \in BOOLEAN
  <2>1. late \in BOOLEAN
    BY DEF ProgramsInv
  <2>2. late' = late \/ late' = TRUE
    BY Zenon DEF Next, Start, SimulateBootstrap, InjectKey, EnterLoop, SensorRound,
           SensorLoop, HubLoop, ControlLoop, SecondPasses, vars
  <2> QED BY Zenon, <2>1, <2>2
<1> QED BY <1>1, <1>2, <1>3, <1>4 DEF ProgramsInv

LEMMA ProgramsInvariant == Spec => []ProgramsInv
<1>1. ProgramsInv /\ [Next]_vars => ProgramsInv'
  BY ProgramsStep
<1> QED BY <1>1, ProgramsInit, PTL DEF Spec

(* Every service a program publishes or subscribes to has its key, however *)
(* large a storage of at least four keys is.                               *)
THEOREM KeysAreAtHand == Spec => []KeysAtHand
<1>1. ProgramsInv => KeysAtHand
  BY DEF ProgramsInv, KeysInv, KeysAtHand
<1> QED BY <1>1, ProgramsInvariant, PTL

(* What subscribers know of the illuminance is at most ten too low.        *)
THEOREM IlluminanceIsTracked == Spec => []IlluminanceTracked
<1>1. ProgramsInv => IlluminanceTracked
  BY DEF ProgramsInv, SensorInv
<1> QED BY <1>1, ProgramsInvariant, PTL

(* No wrapped subtraction is ever stored or published, no slot is used     *)
(* that the storage does not have.                                         *)
THEOREM ProgramsTypeCorrect == Spec => []TypeOK
<1>1. ProgramsInv => TypeOK
  <2> SUFFICES ASSUME ProgramsInv PROVE TypeOK
    OBVIOUS
  <2>1. /\ Injected(program) \subseteq AllServices /\ IsFiniteSet(Injected(program))
        /\ Cardinality(Injected(program)) <= 3
    BY InjectedFacts DEF ProgramsInv, KeysInv
  <2>2. /\ keyed \subseteq AllServices /\ uninjected \subseteq AllServices
        /\ spoke \subseteq AllServices /\ listens \subseteq AllServices
    BY <2>1 DEF ProgramsInv, KeysInv
  <2>3. slots \in 0 .. AesSlots
    <3>1. CASE pc = "boot"
      BY <3>1, SlotsAssumption DEF ProgramsInv, KeysInv
    <3>2. CASE pc # "boot"
      <4>1. keyed \subseteq Injected(program) /\ slots = 1 + Cardinality(keyed)
        BY <3>2 DEF ProgramsInv, KeysInv
      <4>2. /\ Cardinality(keyed) <= Cardinality(Injected(program))
            /\ Cardinality(keyed) \in Nat /\ Cardinality(Injected(program)) \in Nat
        BY <2>1, <4>1, FS_Subset, FS_CardinalityType
      <4> QED BY <2>1, <4>1, <4>2, SlotsAssumption
    <3> QED BY <3>1, <3>2
  <2> QED BY <2>2, <2>3 DEF ProgramsInv, KeysInv, SensorInv, TypeOK
<1> QED BY <1>1, ProgramsInvariant, PTL

(* The battery level that is published only falls. *)
THEOREM BatteryOnlyFalls == Spec => BatteryFalls
<1>1. ProgramsInv /\ [Next]_vars
        => [battery' # battery /\ battery # Nothing => battery' < battery]_sensorVars
  BY ProgramsStep
<1> QED BY <1>1, ProgramsInvariant, PTL DEF Spec, BatteryFalls

=============================================================================
