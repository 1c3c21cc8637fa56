-------------------------- MODULE BootstrapProofs ---------------------------
(***************************************************************************)
(* Proofs about Bootstrap, for any number of devices, runs and starts of   *)
(* the controller.                                                         *)
(***************************************************************************)
EXTENDS Bootstrap, TLAPS

(* A device waits for at most one answer, to an Interest of its present    *)
(* run; if that is the certificate Interest, it bears the digest the       *)
(* device holds.  Nothing is awaited at the end.                           *)
PitInv ==
  \A d \in Devices :
    /\ \A i, j \in pit[d] : i = j
    /\ \A i \in pit[d] : /\ i.key = <<d, run[d]>>
                         /\ i.kind = "cert" => i = Cert(<<d, run[d]>>, sha[d])
    /\ phase[d] = "off" => pit[d] = {} /\ ~ ended[d]
    /\ ended[d] => pit[d] = {}

(* What is on its way was sent by its supposed sender. *)
NetInv ==
  /\ \A i \in interests : i.kind = "sign-on" => i = SignOn(i.key)
  /\ \A i \in interests : i.kind = "cert" => SignedOn(i.key, i.anchor)
  /\ \A m \in datas : [m EXCEPT !.intact = TRUE] \in answered
  /\ \A m \in answered : m.name.kind = "sign-on" => m.name = SignOn(m.name.key)

BootInv == TypeOK /\ PitInv /\ NetInv /\ CertFollowsSignOn /\ EndedOnOwnCertificate

LEMMA InitBoot == Init => BootInv
<1> SUFFICES ASSUME Init PROVE BootInv
  OBVIOUS
<1>1. TypeOK
  <2>1. 0 \in 0 .. MaxRuns /\ 0 \in 0 .. MaxBoots
    BY BoundsAssumption
  <2> QED BY <2>1 DEF Init, TypeOK
<1>2. PitInv
  BY DEF Init, PitInv
<1>3. NetInv /\ CertFollowsSignOn /\ EndedOnOwnCertificate
  BY DEF Init, NetInv, CertFollowsSignOn, EndedOnOwnCertificate
<1> QED BY <1>1, <1>2, <1>3 DEF BootInv

LEMMA KeyTypes ==
  ASSUME NEW d \in Devices, NEW r \in 1 .. MaxRuns, NEW a \in Anchors \cup {None}
  PROVE  /\ SignOn(<<d, r>>) \in Interest /\ Cert(<<d, r>>, a) \in Interest
         /\ SignOn(<<d, r>>).key = <<d, r>> /\ SignOn(<<d, r>>).kind = "sign-on"
         /\ Cert(<<d, r>>, a).key = <<d, r>> /\ Cert(<<d, r>>, a).kind = "cert"
BY DEF SignOn, Cert, Interest, DhKeys

LEMMA MainBoot ==
  ASSUME BootInv, NEW d \in Devices, Main(d)
  PROVE  BootInv'
<1> DEFINE i == SignOn(<<d, run[d] + 1>>)
<1>1. run[d] \in 0 .. MaxRuns /\ run[d] + 1 \in 1 .. MaxRuns
  BY BoundsAssumption DEF BootInv, TypeOK, Main
<1>2. i \in Interest /\ i.key = <<d, run[d] + 1>> /\ i.kind = "sign-on" /\ i = SignOn(i.key)
  BY <1>1, KeyTypes DEF None
<1>3. /\ run' = [run EXCEPT ![d] = @ + 1]
      /\ aes' = [aes EXCEPT ![d] = {10002}]
      /\ pit' \in {[pit EXCEPT ![d] = {i}], [pit EXCEPT ![d] = {}]}
      /\ interests' \in {interests, interests \cup {i}}
      /\ phase' \in {[phase EXCEPT ![d] = "running"], [phase EXCEPT ![d] = "returned"]}
      /\ UNCHANGED <<sha, peer, ended, boots, up, datas, answered, mishap>>
  BY DEF Main, SimulateBootstrap, Express, controller
<1>4. ~ ended[d]
  BY DEF BootInv, PitInv, Main
<1>5. TypeOK'
  BY <1>1, <1>2, <1>3 DEF BootInv, TypeOK, AesKeyIds
<1>6. PitInv'
  <2> SUFFICES ASSUME NEW e \in Devices PROVE PitInv!(e)'
    BY DEF PitInv
  <2>1. CASE e = d
    BY <1>1, <1>2, <1>3, <1>4, <2>1 DEF BootInv, TypeOK
  <2>2. CASE e # d
    BY <1>3, <2>2 DEF BootInv, TypeOK, PitInv, Cert
  <2> QED BY <2>1, <2>2
<1>7. NetInv'
  BY <1>2, <1>3 DEF BootInv, NetInv, SignedOn
<1>8. CertFollowsSignOn' /\ EndedOnOwnCertificate'
  BY <1>3, <1>4 DEF BootInv, TypeOK, CertFollowsSignOn, EndedOnOwnCertificate, SignedOn, Cert
<1> QED BY <1>5, <1>6, <1>7, <1>8 DEF BootInv


(* The device sends a certificate Interest on the anchor of a verified     *)
(* answer to its sign-on Interest, whose content the controller made.      *)
LEMMA OnData1Boot ==
  ASSUME BootInv, NEW d \in Devices, NEW m \in datas,
         phase[d] = "running", m.name \in pit[d], datas' = datas \ {m},
         m.name.kind = "sign-on", OnData1(d, m),
         UNCHANGED <<ended, phase, run, controller, answered>>
  PROVE  BootInv'
<1> DEFINE key == <<d, run[d]>>
           i == Cert(key, m.anchor)
           a == [m EXCEPT !.intact = TRUE]
<1>1. /\ m \in Data /\ m.name.key = key /\ key \in DhKeys
      /\ m.anchor \in Anchors \cup {None}
      /\ \A j \in pit[d] : j = m.name
      /\ ~ ended[d]
  BY DEF BootInv, TypeOK, PitInv, Data, Interest
<1>2. i \in Interest /\ i.key = key /\ i.kind = "cert" /\ i.anchor = m.anchor
  BY <1>1 DEF Interest, Cert
<1>3. /\ a \in answered /\ a \in Data
      /\ a.name = SignOn(key) /\ a.anchor = m.anchor
  <2>1. a \in answered /\ a.name = m.name /\ a.anchor = m.anchor
    BY <1>1 DEF BootInv, NetInv, Data
  <2>2. a.name = SignOn(a.name.key)
    BY <2>1 DEF BootInv, NetInv
  <2> QED BY <1>1, <2>1, <2>2 DEF BootInv, TypeOK
<1>4. SignedOn(key, m.anchor)
  BY <1>3 DEF SignedOn
<1>5. /\ UNCHANGED <<ended, phase, run, boots, up, answered>>
      /\ pit' \in {[pit EXCEPT ![d] = pit[d] \ {m.name}],
                   [pit EXCEPT ![d] = (pit[d] \ {m.name}) \cup {i}]}
      /\ i \in pit'[d] => sha' = [sha EXCEPT ![d] = m.anchor]
      /\ sha' \in {sha, [sha EXCEPT ![d] = m.anchor]}
      /\ peer' \in {peer, [peer EXCEPT ![d] = "own"]}
      /\ aes' \in {aes, [aes EXCEPT ![d] = aes[d] \cup {10012}]}
      /\ mishap' \in {mishap, [mishap EXCEPT ![d] = TRUE]}
      /\ interests' \in {interests, interests \cup {i}}
  <2>1. i # m.name
    BY <1>2
  <2>2. CASE ~ m.intact
    BY <1>1, <2>1, <2>2 DEF OnData1, Mishap, controller, BootInv, TypeOK
  <2>3. CASE m.intact
    BY <1>1, <2>3 DEF OnData1, Mishap, Express, controller
  <2> QED BY <2>2, <2>3
<1>6. TypeOK'
  <2>1. pit' \in [Devices -> SUBSET Interest] /\ sha' \in [Devices -> Anchors \cup {None}]
    BY <1>1, <1>2, <1>5 DEF BootInv, TypeOK
  <2>2. peer' \in [Devices -> {"none", "own"}] /\ mishap' \in [Devices -> BOOLEAN]
    <3>1. peer \in [Devices -> {"none", "own"}] /\ mishap \in [Devices -> BOOLEAN]
      BY DEF BootInv, TypeOK
    <3>2. [peer EXCEPT ![d] = "own"] \in [Devices -> {"none", "own"}]
      BY <3>1
    <3>3. [mishap EXCEPT ![d] = TRUE] \in [Devices -> BOOLEAN]
      BY <3>1
    <3>4. peer' = peer \/ peer' = [peer EXCEPT ![d] = "own"]
      BY <1>5
    <3>5. mishap' = mishap \/ mishap' = [mishap EXCEPT ![d] = TRUE]
      BY <1>5
    <3> QED BY <3>1, <3>2, <3>3, <3>4, <3>5
  <2>3. aes' \in [Devices -> SUBSET AesKeyIds]
    <3>1. aes[d] \cup {10012} \in SUBSET AesKeyIds /\ aes \in [Devices -> SUBSET AesKeyIds]
      BY DEF BootInv, TypeOK, AesKeyIds
    <3> QED BY <1>5, <3>1
  <2>4. interests' \subseteq Interest /\ datas' \subseteq Data
    BY <1>2, <1>5 DEF BootInv, TypeOK
  <2> QED BY <1>5, <2>1, <2>2, <2>3, <2>4 DEF BootInv, TypeOK
<1>7. PitInv'
  <2> SUFFICES ASSUME NEW e \in Devices PROVE PitInv!(e)'
    BY DEF PitInv
  <2>1. CASE e = d
    <3>1. /\ pit'[d] \in {{}, {i}} /\ pit[d] \ {m.name} = {}
          /\ phase'[d] = "running" /\ ~ ended'[d] /\ run'[d] = run[d]
      BY <1>1, <1>5 DEF BootInv, TypeOK
    <3>2. i \in pit'[d] => sha'[d] = m.anchor
      BY <1>5 DEF BootInv, TypeOK
    <3> QED BY <1>2, <2>1, <3>1, <3>2
  <2>2. CASE e # d
    BY <1>5, <2>2 DEF BootInv, TypeOK, PitInv
  <2> QED BY <2>1, <2>2
<1>8. NetInv'
  BY <1>2, <1>4, <1>5 DEF BootInv, NetInv, SignedOn
<1>9. CertFollowsSignOn' /\ EndedOnOwnCertificate'
  BY <1>1, <1>5 DEF BootInv, TypeOK, CertFollowsSignOn, EndedOnOwnCertificate, SignedOn
<1> QED BY <1>6, <1>7, <1>8, <1>9 DEF BootInv

LEMMA OnData2Boot ==
  ASSUME BootInv, NEW d \in Devices, NEW m \in datas,
         phase[d] = "running", m.name \in pit[d], datas' = datas \ {m},
         m.name.kind = "cert", OnData2(d, m),
         UNCHANGED <<sha, peer, interests, phase, run, controller, answered>>
  PROVE  BootInv'
<1> DEFINE a == [m EXCEPT !.intact = TRUE]
<1>1. /\ m \in Data /\ m.name = Cert(<<d, run[d]>>, sha[d])
      /\ \A j \in pit[d] : j = m.name
  BY DEF BootInv, TypeOK, PitInv
<1>2. a \in answered /\ a.name = Cert(<<d, run[d]>>, sha[d])
  BY <1>1 DEF BootInv, NetInv, Data
<1>3. /\ UNCHANGED <<sha, peer, interests, phase, run, boots, up, answered>>
      /\ pit' = [pit EXCEPT ![d] = {}]
      /\ aes' \in {aes, [aes EXCEPT ![d] = aes[d] \cup {124}]}
      /\ ended' \in {ended, [ended EXCEPT ![d] = TRUE]}
      /\ mishap' \in {mishap, [mishap EXCEPT ![d] = TRUE]}
  <2>1. pit[d] \ {m.name} = {}
    BY <1>1
  <2> QED BY <2>1 DEF OnData2, Mishap, controller
<1>4. TypeOK'
  <2>1. pit' \in [Devices -> SUBSET Interest]
    BY <1>3 DEF BootInv, TypeOK
  <2>2. ended' \in [Devices -> BOOLEAN] /\ mishap' \in [Devices -> BOOLEAN]
    BY <1>3 DEF BootInv, TypeOK
  <2>3. aes' \in [Devices -> SUBSET AesKeyIds]
    <3>1. aes[d] \cup {124} \in SUBSET AesKeyIds /\ aes \in [Devices -> SUBSET AesKeyIds]
      BY DEF BootInv, TypeOK, AesKeyIds
    <3> QED BY <1>3, <3>1
  <2>4. datas' \subseteq Data
    BY DEF BootInv, TypeOK
  <2> QED BY <1>3, <2>1, <2>2, <2>3, <2>4 DEF BootInv, TypeOK
<1>5. PitInv'
  <2> SUFFICES ASSUME NEW e \in Devices PROVE PitInv!(e)'
    BY DEF PitInv
  <2>1. CASE e = d
    BY <1>3, <2>1 DEF BootInv, TypeOK
  <2>2. CASE e # d
    BY <1>3, <2>2 DEF BootInv, TypeOK, PitInv
  <2> QED BY <2>1, <2>2
<1>6. NetInv' /\ CertFollowsSignOn'
  BY <1>3 DEF BootInv, NetInv, CertFollowsSignOn, SignedOn
<1>7. EndedOnOwnCertificate'
  <2> SUFFICES ASSUME NEW e \in Devices, ended'[e]
               PROVE  \E b \in answered : b.name = Cert(<<e, run[e]>>, sha[e])
    BY <1>3 DEF EndedOnOwnCertificate
  <2>1. CASE e = d
    BY <1>2, <2>1
  <2>2. CASE e # d
    BY <1>3, <2>2 DEF BootInv, TypeOK, EndedOnOwnCertificate
  <2> QED BY <2>1, <2>2
<1> QED BY <1>4, <1>5, <1>6, <1>7 DEF BootInv

LEMMA ReceiveDataBoot ==
  ASSUME BootInv, NEW d \in Devices, ReceiveData(d)
  PROVE  BootInv'
BY OnData1Boot, OnData2Boot DEF ReceiveData

-----------------------------------------------------------------------------
(* The other steps *)

LEMMA ExpireBoot ==
  ASSUME BootInv, NEW d \in Devices, Expire(d)
  PROVE  BootInv'
<1>1. PICK i \in pit[d] : pit' = [pit EXCEPT ![d] = @ \ {i}]
  BY DEF Expire
<1>2. TypeOK'
  BY <1>1 DEF BootInv, TypeOK, Expire, Mishap, controller
<1>3. PitInv'
  BY <1>1 DEF BootInv, TypeOK, PitInv, Expire
<1>4. NetInv' /\ CertFollowsSignOn' /\ EndedOnOwnCertificate'
  BY DEF BootInv, NetInv, CertFollowsSignOn, EndedOnOwnCertificate, SignedOn, Expire
<1> QED BY <1>2, <1>3, <1>4 DEF BootInv

LEMMA ResetBoot ==
  ASSUME BootInv, NEW d \in Devices, Reset(d)
  PROVE  BootInv'
<1>1. TypeOK'
  BY DEF BootInv, TypeOK, Reset, controller
<1>2. PitInv'
  BY DEF BootInv, TypeOK, PitInv, Reset
<1>3. NetInv' /\ CertFollowsSignOn'
  BY DEF BootInv, NetInv, CertFollowsSignOn, SignedOn, Reset
<1>4. EndedOnOwnCertificate'
  BY DEF BootInv, TypeOK, EndedOnOwnCertificate, Reset
<1> QED BY <1>1, <1>2, <1>3, <1>4 DEF BootInv

LEMMA ReceiveInterestBoot ==
  ASSUME BootInv, NEW d \in Devices, ReceiveInterest(d)
  PROVE  BootInv'
<1> PICK i \in interests :
      /\ up
      /\ interests' = interests \ {i}
      /\ \E m \in {OnInterest1(i), OnInterest2(i)} :
           datas' = datas \cup {m} /\ answered' = answered \cup {m}
      /\ UNCHANGED <<phase, run, pit, sha, peer, aes, ended, boots, up, mishap>>
  BY DEF ReceiveInterest, device, controller
<1>1. PICK m \in {OnInterest1(i), OnInterest2(i)} :
        datas' = datas \cup {m} /\ answered' = answered \cup {m}
  OBVIOUS
<1>2. m \in Data /\ m.name = i /\ [m EXCEPT !.intact = TRUE] = m
  <2>1. i \in Interest /\ boots \in Anchors /\ None \in Anchors \cup {None}
    BY <1>1 DEF BootInv, TypeOK, Anchors
  <2>2. PICK b \in Anchors \cup {None} : m = [name |-> i, anchor |-> b, intact |-> TRUE]
    BY <2>1 DEF OnInterest1, OnInterest2
  <2>3. m \in Data /\ m.name = i /\ m.intact = TRUE
    BY <2>1, <2>2 DEF Data
  <2>4. [m EXCEPT !.intact = TRUE] = m
    BY <2>3 DEF Data
  <2> QED BY <2>3, <2>4
<1>3. \A key, anchor : SignedOn(key, anchor) => SignedOn(key, anchor)'
  BY <1>1 DEF SignedOn
<1>4. TypeOK'
  BY <1>1, <1>2 DEF BootInv, TypeOK
<1>5. PitInv'
  BY <1>1 DEF BootInv, PitInv
<1>6. NetInv'
  BY <1>1, <1>2, <1>3 DEF BootInv, NetInv
<1>7. CertFollowsSignOn'
  BY <1>1, <1>2, <1>3 DEF BootInv, NetInv, CertFollowsSignOn
<1>8. EndedOnOwnCertificate'
  BY <1>1 DEF BootInv, EndedOnOwnCertificate
<1> QED BY <1>4, <1>5, <1>6, <1>7, <1>8 DEF BootInv

LEMMA LinkBoot ==
  ASSUME BootInv, Lose \/ Garble
  PROVE  BootInv'
<1>1. /\ UNCHANGED <<phase, run, pit, sha, peer, aes, ended, boots, up, answered>>
      /\ interests' \subseteq interests
      /\ mishap' \in [Devices -> BOOLEAN]
  BY DEF Lose, Garble, device, controller, MishapTo, BootInv, TypeOK
<1>2. \A n \in datas' : n \in Data /\ [n EXCEPT !.intact = TRUE] \in answered
  <2>1. \A n \in datas : n \in Data /\ [n EXCEPT !.intact = TRUE] \in answered
    BY DEF BootInv, TypeOK, NetInv
  <2>2. CASE Lose
    BY <2>1, <2>2 DEF Lose
  <2>3. CASE Garble
    <3>1. PICK m \in datas : datas' = (datas \ {m}) \cup {[m EXCEPT !.intact = FALSE]}
      BY <2>3 DEF Garble
    <3>2. [m EXCEPT !.intact = FALSE] \in Data
      BY <2>1 DEF Data
    <3>3. [[m EXCEPT !.intact = FALSE] EXCEPT !.intact = TRUE] = [m EXCEPT !.intact = TRUE]
      BY <2>1 DEF Data
    <3> QED BY <2>1, <3>1, <3>2, <3>3
  <2> QED BY <2>2, <2>3
<1>3. TypeOK'
  BY <1>1, <1>2 DEF BootInv, TypeOK
<1>4. PitInv' /\ CertFollowsSignOn' /\ EndedOnOwnCertificate'
  BY <1>1 DEF BootInv, PitInv, CertFollowsSignOn, EndedOnOwnCertificate, SignedOn
<1>5. NetInv'
  BY <1>1, <1>2 DEF BootInv, NetInv, SignedOn
<1> QED BY <1>3, <1>4, <1>5 DEF BootInv

LEMMA ControllerBoot ==
  ASSUME BootInv, ControllerMain \/ ControllerReset \/ UNCHANGED vars
  PROVE  BootInv'
<1>1. /\ UNCHANGED <<phase, run, pit, sha, peer, aes, ended, interests, datas, answered, mishap>>
      /\ boots' \in 0 .. MaxBoots /\ up' \in BOOLEAN /\ (up' => boots' > 0)
  <2>1. boots \in 0 .. MaxBoots /\ up \in BOOLEAN /\ (up => boots > 0)
    BY DEF BootInv, TypeOK
  <2>2. CASE ControllerMain
    BY <2>1, <2>2, BoundsAssumption DEF ControllerMain, device
  <2>3. CASE ControllerReset
    BY <2>1, <2>3 DEF ControllerReset, device
  <2>4. CASE UNCHANGED vars
    BY <2>1, <2>4 DEF vars, device, controller
  <2> QED BY <2>2, <2>3, <2>4
<1> QED BY <1>1
        DEF BootInv, TypeOK, PitInv, NetInv, CertFollowsSignOn, EndedOnOwnCertificate, SignedOn

-----------------------------------------------------------------------------
(* The invariant holds in every state of the bootstrapping. *)
THEOREM BootstrapInvariant == Spec => []BootInv
<1>1. BootInv /\ [Next]_vars => BootInv'
  BY MainBoot, ReceiveDataBoot, ExpireBoot, ResetBoot, ReceiveInterestBoot, LinkBoot,
     ControllerBoot
  DEF Next, DeviceStep
<1> QED BY InitBoot, <1>1, PTL DEF Spec

(* The state has its type. *)
THEOREM BootstrapTypeCorrect == Spec => []TypeOK
<1>1. BootInv => TypeOK
  BY DEF BootInv
<1> QED BY BootstrapInvariant, <1>1, PTL

(* A controller that keeps nothing of its devices issues certificates only *)
(* to devices it signed on in the same run, on the same anchor.            *)
THEOREM CertificatesFollowSignOn == Spec => []CertFollowsSignOn
<1>1. BootInv => CertFollowsSignOn
  BY DEF BootInv
<1> QED BY BootstrapInvariant, <1>1, PTL

(* A device comes to the end only on an answer to the certificate Interest *)
(* of its present run, whatever answers to earlier runs are still on their *)
(* way.                                                                    *)
THEOREM EndsOnOwnCertificate == Spec => []EndedOnOwnCertificate
<1>1. BootInv => EndedOnOwnCertificate
  BY DEF BootInv
<1> QED BY BootstrapInvariant, <1>1, PTL

-----------------------------------------------------------------------------
(* Refinement of Enrollment *)

(* Nothing bears a key that is not made yet.  A run's certificate Interest *)
(* exists once, either on its way or answered, and not while the run still *)
(* waits for its sign-on; an Interest that was answered is not on its way. *)
AskedCert(key) == {i \in interests : i.kind = "cert" /\ i.key = key}
IssuedCert(key) == {m \in answered : m.name.kind = "cert" /\ m.name.key = key}

OnceInv ==
  /\ \A i \in interests : i.key[2] <= run[i.key[1]]
  /\ \A m \in answered : m.name.key[2] <= run[m.name.key[1]]
  /\ \A m \in answered : m.name.kind = "sign-on" => m.anchor \in Anchors
  /\ \A m \in answered : m.name \notin interests
  /\ \A l, m \in answered : l.name = m.name => l.anchor = m.anchor
  /\ \A key \in DhKeys :
       /\ \A i, j \in AskedCert(key) : i = j
       /\ \A l, m \in IssuedCert(key) : l.name = m.name
       /\ AskedCert(key) = {} \/ IssuedCert(key) = {}
  /\ \A d \in Devices :
       SignOn(<<d, run[d]>>) \in pit[d] =>
         AskedCert(<<d, run[d]>>) = {} /\ IssuedCert(<<d, run[d]>>) = {}

LEMMA InitOnce == Init => OnceInv
BY DEF Init, OnceInv, AskedCert, IssuedCert

LEMMA NameFacts ==
  ASSUME BootInv
  PROVE  /\ \A i \in interests : i \in Interest /\ i.key \in DhKeys
         /\ \A m \in answered : m \in Data /\ m.name \in Interest /\ m.name.key \in DhKeys
         /\ \A k \in DhKeys : /\ k[1] \in Devices /\ k[2] \in 1 .. MaxRuns
                              /\ k = <<k[1], k[2]>>
         /\ \A d \in Devices : run[d] \in Nat /\ run[d] \in 0 .. MaxRuns
<1>1. \A i \in interests : i \in Interest /\ i.key \in DhKeys
  BY DEF BootInv, TypeOK, Interest
<1>2. \A m \in answered : m \in Data /\ m.name \in Interest /\ m.name.key \in DhKeys
  BY DEF BootInv, TypeOK, Data, Interest
<1>3. \A k \in DhKeys : k[1] \in Devices /\ k[2] \in 1 .. MaxRuns /\ k = <<k[1], k[2]>>
  BY DEF DhKeys
<1>4. \A d \in Devices : run[d] \in 0 .. MaxRuns
  BY DEF BootInv, TypeOK
<1> QED BY <1>1, <1>2, <1>3, <1>4, BoundsAssumption

LEMMA MainOnce ==
  ASSUME BootInv, OnceInv, NEW d \in Devices, Main(d)
  PROVE  OnceInv'
<1> DEFINE key == <<d, run[d] + 1>>
           i == SignOn(key)
<1>1. /\ run' = [run EXCEPT ![d] = @ + 1] /\ interests' \in {interests, interests \cup {i}}
      /\ pit' \in {[pit EXCEPT ![d] = {i}], [pit EXCEPT ![d] = {}]}
      /\ UNCHANGED answered /\ run[d] \in Nat
      /\ run \in [Devices -> 0 .. MaxRuns] /\ pit \in [Devices -> SUBSET Interest]
  BY NameFacts DEF Main, Express, BootInv, TypeOK
<1>2. i.kind = "sign-on" /\ i.key = key /\ i.key[1] = d /\ i.key[2] = run[d] + 1
  BY DEF SignOn
<1>3. \A k \in Devices : run'[k] = IF k = d THEN run[d] + 1 ELSE run[k]
  BY <1>1
<1>4. /\ \A j \in interests' : j.key[2] <= run'[j.key[1]]
      /\ \A m \in answered' : m.name.key[2] <= run'[m.name.key[1]]
  <2>1. /\ \A j \in interests : j.key[1] \in Devices /\ j.key[2] \in Nat
        /\ \A m \in answered : m.name.key[1] \in Devices /\ m.name.key[2] \in Nat
        /\ \A k \in Devices : run[k] \in Nat
    BY NameFacts
  <2>2. \A j \in interests : j.key[2] <= run[j.key[1]]
    BY DEF OnceInv
  <2>3. \A m \in answered : m.name.key[2] <= run[m.name.key[1]]
    BY DEF OnceInv
  <2>4. i.key[2] <= run'[i.key[1]]
    BY <1>1, <1>2, <1>3
  <2>5. \A k \in Devices : run[k] <= run'[k] /\ run'[k] \in Nat
    BY <1>1, <1>3, <2>1
  <2>6. \A j \in interests : j.key[2] <= run'[j.key[1]]
    BY <2>1, <2>2, <2>5
  <2>7. \A m \in answered : m.name.key[2] <= run'[m.name.key[1]]
    BY <2>1, <2>3, <2>5
  <2> QED BY <1>1, <2>4, <2>6, <2>7
<1>5. \A m \in answered : m.name.key # key
  BY <1>1, NameFacts DEF OnceInv
<1>6. \A j \in interests : j.key # key
  BY <1>1, NameFacts DEF OnceInv
<1>7. \A m \in answered' : m.name \notin interests'
  BY <1>1, <1>2, <1>5 DEF OnceInv
<1>8. \A k \in DhKeys : AskedCert(k)' = AskedCert(k) /\ IssuedCert(k)' = IssuedCert(k)
  BY <1>1, <1>2 DEF AskedCert, IssuedCert
<1>9. ASSUME NEW e \in Devices, SignOn(<<e, run'[e]>>) \in pit'[e]
      PROVE  AskedCert(<<e, run[e]>>)' = {} /\ IssuedCert(<<e, run[e]>>)' = {}
  <2>1. CASE e = d
    <3>1. <<e, run'[e]>> = key
      BY <1>3, <2>1
    <3> QED BY <1>1, <1>2, <1>5, <1>6, <3>1 DEF AskedCert, IssuedCert
  <2>2. CASE e # d
    <3>1. run'[e] = run[e] /\ pit'[e] = pit[e]
      BY <1>1, <2>2
    <3> QED BY <1>1, <1>2, <1>9, <3>1 DEF OnceInv, AskedCert, IssuedCert
  <2> QED BY <2>1, <2>2
<1> QED BY <1>1, <1>4, <1>7, <1>8, <1>9 DEF OnceInv

(* A step after which a device waits for no new sign-on, and in which no   *)
(* packet appears that was not there.                                      *)
LEMMA QuietOnce ==
  ASSUME BootInv, OnceInv, UNCHANGED <<run, answered>>, interests' \subseteq interests,
         \A d \in Devices : pit'[d] \subseteq pit[d]
  PROVE  OnceInv'
<1>1. \A key : AskedCert(key)' \subseteq AskedCert(key) /\ IssuedCert(key)' = IssuedCert(key)
  BY DEF AskedCert, IssuedCert
<1> QED BY <1>1 DEF OnceInv

LEMMA OnData1Once ==
  ASSUME BootInv, OnceInv, NEW d \in Devices, NEW m \in datas,
         phase[d] = "running", m.name \in pit[d],
         m.name.kind = "sign-on", OnData1(d, m),
         UNCHANGED <<run, answered>>
  PROVE  OnceInv'
<1> DEFINE key == <<d, run[d]>>
           i == Cert(key, m.anchor)
<1>1. /\ m \in Data /\ m.name.key = key /\ key \in DhKeys
      /\ \A j \in pit[d] : j = m.name
      /\ pit \in [Devices -> SUBSET Interest]
  BY DEF BootInv, TypeOK, PitInv, Data, Interest
<1>2. m.name = SignOn(key)
  <2>1. [m EXCEPT !.intact = TRUE] \in answered /\ [m EXCEPT !.intact = TRUE].name = m.name
    BY <1>1 DEF BootInv, NetInv, Data
  <2>2. m.name = SignOn(m.name.key)
    BY <2>1 DEF BootInv, NetInv
  <2> QED BY <1>1, <2>2
<1>3. AskedCert(key) = {} /\ IssuedCert(key) = {}
  BY <1>2 DEF OnceInv
<1>4. i.kind = "cert" /\ i.key = key /\ i # m.name /\ key[1] = d /\ key[2] = run[d]
  BY <1>2 DEF Cert, SignOn
<1>5. /\ pit' \in {[pit EXCEPT ![d] = {}], [pit EXCEPT ![d] = {i}]}
      /\ interests' \in {interests, interests \cup {i}}
  <2>1. pit[d] \ {m.name} = {}
    BY <1>1
  <2>2. CASE ~ m.intact
    BY <2>1, <2>2 DEF OnData1
  <2>3. CASE m.intact
    BY <1>1, <2>1, <2>3 DEF OnData1, Express
  <2> QED BY <2>2, <2>3
<1>6. \A k \in DhKeys : /\ IssuedCert(k)' = IssuedCert(k)
                        /\ AskedCert(k)' \subseteq IF k = key THEN {i} ELSE AskedCert(k)
  <2> SUFFICES ASSUME NEW k \in DhKeys
               PROVE  /\ IssuedCert(k)' = IssuedCert(k)
                      /\ AskedCert(k)' \subseteq IF k = key THEN {i} ELSE AskedCert(k)
    OBVIOUS
  <2>1. IssuedCert(k)' = IssuedCert(k)
    BY DEF IssuedCert
  <2>2. AskedCert(k)' \subseteq AskedCert(k) \cup {j \in {i} : j.key = k}
    BY <1>5 DEF AskedCert
  <2> HIDE DEF i, key
  <2> QED BY <1>3, <1>4, <2>1, <2>2
<1>7. /\ \A j \in interests' : j.key[2] <= run'[j.key[1]]
      /\ \A l \in answered' : l.name \notin interests'
  <2>1. run[d] <= run[d]
    BY NameFacts
  <2>2. \A l \in answered : l.name # i
    BY <1>3, <1>4 DEF IssuedCert
  <2> QED BY <1>4, <1>5, <2>1, <2>2 DEF OnceInv
<1>8. ASSUME NEW k \in DhKeys
      PROVE  /\ \A j, l \in AskedCert(k)' : j = l
             /\ \A j, l \in IssuedCert(k)' : j.name = l.name
             /\ AskedCert(k)' = {} \/ IssuedCert(k)' = {}
  <2>1. CASE k = key
    BY <1>3, <1>6, <2>1
  <2>2. CASE k # key
    BY <1>6, <2>2 DEF OnceInv
  <2> QED BY <2>1, <2>2
<1>9. ASSUME NEW e \in Devices, SignOn(<<e, run'[e]>>) \in pit'[e]
      PROVE  AskedCert(<<e, run[e]>>)' = {} /\ IssuedCert(<<e, run[e]>>)' = {}
  <2>1. CASE e = d
    <3>1. pit'[d] \in {{}, {i}}
      BY <1>1, <1>5
    <3>2. SignOn(<<e, run'[e]>>).kind # "cert"
      BY DEF SignOn
    <3> QED BY <1>4, <1>9, <2>1, <3>1, <3>2
  <2>2. CASE e # d
    <3>1. pit'[e] = pit[e] /\ run'[e] = run[e] /\ <<e, run[e]>> # key
      BY <1>1, <1>5, <2>2
    <3>2. AskedCert(<<e, run[e]>>)' \subseteq AskedCert(<<e, run[e]>>)
      BY <1>4, <1>5, <3>1 DEF AskedCert
    <3>3. AskedCert(<<e, run[e]>>) = {} /\ IssuedCert(<<e, run[e]>>) = {}
      BY <1>9, <3>1 DEF OnceInv
    <3> QED BY <3>1, <3>2, <3>3 DEF IssuedCert
  <2> QED BY <2>1, <2>2
<1> QED BY <1>7, <1>8, <1>9 DEF OnceInv

(* What the controller answers it takes from the link, so that it is not   *)
(* answered again.                                                         *)
LEMMA ReceiveInterestOnce ==
  ASSUME BootInv, OnceInv, NEW d \in Devices, ReceiveInterest(d)
  PROVE  OnceInv'
<1>1. PICK i \in interests :
        /\ up /\ interests' = interests \ {i}
        /\ answered' = answered \cup {IF i.kind = "sign-on" THEN OnInterest1(i) ELSE OnInterest2(i)}
        /\ UNCHANGED <<run, pit>>
  BY DEF ReceiveInterest, device
<1> DEFINE m == IF i.kind = "sign-on" THEN OnInterest1(i) ELSE OnInterest2(i)
<1>2. /\ m.name = i /\ (m.name.kind = "sign-on" => m.anchor = boots) /\ boots \in Anchors
      /\ i.key \in DhKeys
  BY <1>1, NameFacts DEF OnInterest1, OnInterest2, BootInv, TypeOK, Anchors
<1>3. answered' = answered \cup {m}
  BY <1>1
<1> HIDE DEF m
<1>4. /\ \A l \in answered : l.name # i
      /\ i.key[2] <= run[i.key[1]]
  BY DEF OnceInv
<1>5. \A k \in DhKeys :
        /\ AskedCert(k)' = AskedCert(k) \ {i}
        /\ IssuedCert(k)' = IF i.kind = "cert" /\ i.key = k THEN IssuedCert(k) \cup {m}
                                                           ELSE IssuedCert(k)
  BY <1>1, <1>2, <1>3 DEF AskedCert, IssuedCert
<1>6. ASSUME NEW k \in DhKeys
      PROVE  /\ \A j, l \in AskedCert(k)' : j = l
             /\ \A j, l \in IssuedCert(k)' : j.name = l.name
             /\ AskedCert(k)' = {} \/ IssuedCert(k)' = {}
  <2>1. /\ \A j, l \in AskedCert(k) : j = l
        /\ \A j, l \in IssuedCert(k) : j.name = l.name
        /\ AskedCert(k) = {} \/ IssuedCert(k) = {}
    BY DEF OnceInv
  <2>2. CASE i.kind = "cert" /\ i.key = k
    <3>1. i \in AskedCert(k)
      BY <2>2 DEF AskedCert
    <3> QED BY <1>5, <2>1, <2>2, <3>1
  <2>3. CASE ~ (i.kind = "cert" /\ i.key = k)
    BY <1>5, <2>1, <2>3
  <2> QED BY <2>2, <2>3
<1>7. ASSUME NEW e \in Devices, SignOn(<<e, run[e]>>) \in pit[e]
      PROVE  AskedCert(<<e, run[e]>>)' = {} /\ IssuedCert(<<e, run[e]>>)' = {}
  <2>1. AskedCert(<<e, run[e]>>) = {} /\ IssuedCert(<<e, run[e]>>) = {}
    BY <1>7 DEF OnceInv
  <2>2. ~ (i.kind = "cert" /\ i.key = <<e, run[e]>>)
    BY <2>1 DEF AskedCert
  <2> QED BY <1>1, <1>2, <1>3, <2>1, <2>2 DEF AskedCert, IssuedCert
<1> QED BY <1>1, <1>2, <1>3, <1>4, <1>6, <1>7 DEF OnceInv

THEOREM EnrollsOnce == Spec => []OnceInv
<1>1. BootInv /\ OnceInv /\ [Next]_vars => OnceInv'
  <2> SUFFICES ASSUME BootInv, OnceInv, [Next]_vars PROVE OnceInv'
    OBVIOUS
  <2>1. ASSUME NEW d \in Devices, ReceiveData(d) PROVE OnceInv'
    <3>1. PICK m \in datas :
            /\ phase[d] = "running" /\ m.name \in pit[d]
            /\ \/ m.name.kind = "sign-on" /\ OnData1(d, m) /\ UNCHANGED ended
               \/ m.name.kind = "cert" /\ OnData2(d, m) /\ UNCHANGED <<sha, peer, interests>>
            /\ UNCHANGED <<phase, run, controller, answered>>
      BY <2>1 DEF ReceiveData
    <3>2. CASE m.name.kind = "sign-on" /\ OnData1(d, m)
      BY <3>1, <3>2, OnData1Once
    <3>3. CASE OnData2(d, m) /\ UNCHANGED interests
      BY <3>1, <3>3, QuietOnce DEF OnData2, BootInv, TypeOK
    <3> QED BY <3>1, <3>2, <3>3
  <2>2. ASSUME NEW d \in Devices, Expire(d) \/ Reset(d) PROVE OnceInv'
    BY <2>2, QuietOnce DEF Expire, Reset, BootInv, TypeOK
  <2>3. CASE Lose \/ Garble \/ ControllerMain \/ ControllerReset \/ UNCHANGED vars
    BY <2>3, QuietOnce DEF Lose, Garble, ControllerMain, ControllerReset, vars, device
  <2> QED BY <2>1, <2>2, <2>3, MainOnce, ReceiveInterestOnce DEF Next, DeviceStep
<1> QED BY <1>1, InitOnce, BootstrapInvariant, PTL DEF Spec

LEMMA NothingOffered ==
  ASSUME answered' = answered, Enrolled' = Enrolled
  PROVE  UNCHANGED Enrolling!vars
BY DEF Enrolling!vars, Offers, Certificates

LEMMA EnrollStep ==
  ASSUME BootInv, OnceInv, NEW d \in Devices, NEW m \in datas,
         m.name \in pit[d], m.name.kind = "cert", OnData2(d, m), UNCHANGED <<run, answered>>
  PROVE  Enrolling!Next \/ UNCHANGED Enrolling!vars
<1> DEFINE key == <<d, run[d]>>
           o == <<key, sha[d]>>
<1>1. CASE ~ m.intact
  BY <1>1, NothingOffered DEF OnData2, Enrolled
<1>2. CASE m.intact
  <2>1. m.name = Cert(key, sha[d]) /\ m \in Data /\ ~ ended[d]
    BY DEF BootInv, TypeOK, PitInv
  <2>2. [m EXCEPT !.intact = TRUE] \in answered /\ [m EXCEPT !.intact = TRUE].name = m.name
    BY <2>1 DEF BootInv, NetInv, Data
  <2>3. key \in DhKeys /\ key[1] = d /\ key[2] = run[d] /\ m.name.key = key /\ m.name.anchor = sha[d]
    <3>1. m.name.key = key /\ m.name.anchor = sha[d]
      BY <2>1 DEF Cert
    <3>2. PICK l \in answered : l.name = m.name
      BY <2>2
    <3>3. l.name.key \in DhKeys
      BY NameFacts
    <3> QED BY <3>1, <3>2, <3>3
  <2>4. SignedOn(key, sha[d])
    BY <2>2, <2>3 DEF BootInv, CertFollowsSignOn
  <2>5. sha[d] \in Anchors
    BY <2>4 DEF SignedOn, SignOn, OnceInv
  <2>6. o \in DhKeys \X Anchors /\ o[1] = key /\ o[2] = sha[d]
    BY <2>3, <2>5
  <2>7. o \in Certificates
    BY <2>1, <2>2, <2>6 DEF Certificates, Known
  <2>8. ended' = [ended EXCEPT ![d] = TRUE] /\ ended \in [Devices -> BOOLEAN]
    BY <1>2 DEF OnData2, BootInv, TypeOK
  <2>9. key \notin Enrolled /\ Enrolled' = Enrolled \cup {key}
    <3>1. ASSUME NEW k \in DhKeys PROVE k \in Enrolled' <=> k \in Enrolled \/ k = key
      <4>1. k[1] \in Devices /\ k = <<k[1], k[2]>>
        BY NameFacts
      <4>2. CASE k[1] = d
        BY <2>1, <2>3, <2>8, <4>1, <4>2 DEF Enrolled
      <4>3. CASE k[1] # d
        BY <2>3, <2>8, <4>1, <4>3 DEF Enrolled
      <4> QED BY <4>2, <4>3
    <3>2. Enrolled \subseteq DhKeys /\ Enrolled' \subseteq DhKeys
      BY DEF Enrolled
    <3> QED BY <2>1, <2>3, <3>1, <3>2 DEF Enrolled
  <2>10. Offers' = Offers /\ Certificates' = Certificates
    BY DEF Offers, Certificates
  <2>11. Enrolling!Enroll(o)
    BY <2>6, <2>7, <2>9, <2>10 DEF Enrolling!Enroll
  <2> QED BY <2>6, <2>11 DEF Enrolling!Next
<1> QED BY <1>1, <1>2

LEMMA LeaveStep ==
  ASSUME BootInv, NEW d \in Devices, Reset(d)
  PROVE  Enrolling!Next \/ UNCHANGED Enrolling!vars
<1> DEFINE key == <<d, run[d]>>
<1>1. /\ ended' = [ended EXCEPT ![d] = FALSE] /\ ended \in [Devices -> BOOLEAN]
      /\ UNCHANGED <<run, answered>>
  BY DEF Reset, BootInv, TypeOK
<1>2. ASSUME NEW k \in DhKeys PROVE k \in Enrolled' <=> k \in Enrolled /\ k # key
  <2>1. k[1] \in Devices /\ k = <<k[1], k[2]>>
    BY NameFacts
  <2>2. CASE k[1] = d
    BY <1>1, <2>1, <2>2 DEF Enrolled
  <2>3. CASE k[1] # d
    BY <1>1, <2>1, <2>3 DEF Enrolled
  <2> QED BY <2>2, <2>3
<1>3. Enrolled' = Enrolled \ {key}
  <2>1. Enrolled \subseteq DhKeys /\ Enrolled' \subseteq DhKeys
    BY DEF Enrolled
  <2> QED BY <1>2, <2>1
<1>4. Offers' = Offers /\ Certificates' = Certificates
  BY <1>1 DEF Offers, Certificates
<1>5. CASE key \in DhKeys
  BY <1>3, <1>4, <1>5 DEF Enrolling!Next, Enrolling!Leave
<1>6. CASE key \notin DhKeys
  <2>1. Enrolled' = Enrolled
    BY <1>3, <1>6 DEF Enrolled
  <2> QED BY <1>1, <2>1, NothingOffered
<1> QED BY <1>5, <1>6

LEMMA AnswerStep ==
  ASSUME BootInv, OnceInv, NEW d \in Devices, ReceiveInterest(d)
  PROVE  Enrolling!Next
<1>1. PICK i \in interests :
        /\ up
        /\ answered' = answered \cup {IF i.kind = "sign-on" THEN OnInterest1(i) ELSE OnInterest2(i)}
        /\ UNCHANGED <<run, ended>>
  BY DEF ReceiveInterest, device
<1>2. /\ i \in Interest /\ i.key \in DhKeys /\ boots \in Anchors
      /\ \A m \in answered : m.name # i
  BY <1>1, NameFacts DEF OnceInv, BootInv, TypeOK, Anchors
<1>3. Enrolled' = Enrolled
  BY <1>1 DEF Enrolled
<1>4. CASE i.kind = "sign-on"
  <2> DEFINE m == OnInterest1(i)
  <2>1. /\ answered' = answered \cup {m} /\ m.name = SignOn(i.key) /\ m.anchor = boots
        /\ i = SignOn(i.key)
    BY <1>1, <1>4 DEF OnInterest1, BootInv, NetInv
  <2>2. \A k, l : SignOn(k) = SignOn(l) => k = l
    BY DEF SignOn
  <2>3. \A k, a : SignOn(i.key) # Cert(k, a)
    BY DEF SignOn, Cert
  <2> HIDE DEF m
  <2>4. \A o \in Offers : o[1] # i.key
    BY <1>2, <2>1 DEF Offers
  <2>5. Certificates' = Certificates
    BY <2>1, <2>3 DEF Certificates
  <2>6. ASSUME NEW o \in DhKeys \X Known
        PROVE  o \in Offers' <=> o \in Offers \/ o = <<i.key, boots>>
    <3>1. o = <<o[1], o[2]>>
      OBVIOUS
    <3>2. (\E l \in answered' : l.name = SignOn(o[1]) /\ l.anchor = o[2])
            <=> (\E l \in answered : l.name = SignOn(o[1]) /\ l.anchor = o[2])
                \/ (o[1] = i.key /\ o[2] = boots)
      BY <2>1, <2>2
    <3> QED BY <3>1, <3>2 DEF Offers
  <2>7. <<i.key, boots>> \in DhKeys \X Known /\ Offers \subseteq DhKeys \X Known
        /\ Offers' \subseteq DhKeys \X Known
    BY <1>2 DEF Offers, Known
  <2>8. Offers' = Offers \cup {<<i.key, boots>>}
    BY <2>6, <2>7
  <2>9. Enrolling!Offer(i.key, boots)
    BY <1>3, <2>4, <2>5, <2>8 DEF Enrolling!Offer
  <2> QED BY <1>2, <2>9 DEF Enrolling!Next
<1>5. CASE i.kind = "cert"
  <2> DEFINE m == OnInterest2(i)
             o == <<i.key, i.anchor>>
  <2>1. /\ answered' = answered \cup {m} /\ m.name = i /\ i = Cert(i.key, i.anchor)
    BY <1>1, <1>2, <1>5 DEF OnInterest2, Interest, Cert
  <2>2. \A k, l, a, b : Cert(k, a) = Cert(l, b) => k = l /\ a = b
    BY DEF Cert
  <2>3. \A k : i # SignOn(k)
    BY <1>5 DEF SignOn
  <2>4. SignedOn(i.key, i.anchor)
    BY <1>5 DEF BootInv, NetInv
  <2>5. i.anchor \in Anchors
    BY <2>4 DEF SignedOn, SignOn, OnceInv
  <2> HIDE DEF m
  <2>6. o \in DhKeys \X Anchors /\ o \in DhKeys \X Known /\ o[1] = i.key /\ o[2] = i.anchor
    BY <1>2, <2>5 DEF Known
  <2>7. o \in Offers
    BY <2>4, <2>6 DEF SignedOn, Offers
  <2>8. o \notin Certificates
    BY <1>2, <2>1, <2>6 DEF Certificates
  <2>9. Offers' = Offers
    BY <2>1, <2>3 DEF Offers
  <2>10. ASSUME NEW c \in DhKeys \X Known
         PROVE  c \in Certificates' <=> c \in Certificates \/ c = o
    <3>1. c = <<c[1], c[2]>>
      OBVIOUS
    <3>2. (\E l \in answered' : l.name = Cert(c[1], c[2]))
            <=> (\E l \in answered : l.name = Cert(c[1], c[2]))
                \/ (c[1] = i.key /\ c[2] = i.anchor)
      BY <2>1, <2>2
    <3> QED BY <3>1, <3>2 DEF Certificates
  <2>11. Certificates' = Certificates \cup {o}
    BY <2>6, <2>10 DEF Certificates
  <2>12. Enrolling!Certify(o)
    BY <1>3, <2>7, <2>8, <2>9, <2>11 DEF Enrolling!Certify
  <2> QED BY <2>6, <2>12 DEF Enrolling!Next
<1> QED BY <1>2, <1>4, <1>5 DEF Interest

(* Without its packets, bootstrapping is the enrollment of Enrollment: an  *)
(* anchor is offered and certified at most once in each run, and only then *)
(* does the device come to its end.                                        *)
THEOREM BootstrapImplementsEnrollment == Spec => ImplementsEnrollment
<1>1. Init => Enrolling!Init
  BY DEF Init, Enrolling!Init, Offers, Certificates, Enrolled, DhKeys
<1>2. BootInv /\ OnceInv /\ [Next]_vars => [Enrolling!Next]_(Enrolling!vars)
  <2> SUFFICES ASSUME BootInv, OnceInv, [Next]_vars
               PROVE  Enrolling!Next \/ UNCHANGED Enrolling!vars
    OBVIOUS
  <2>1. ASSUME NEW d \in Devices, Main(d)
        PROVE  UNCHANGED Enrolling!vars
    <3>1. /\ run' = [run EXCEPT ![d] = @ + 1] /\ run \in [Devices -> 0 .. MaxRuns]
          /\ ~ ended[d] /\ UNCHANGED <<ended, answered>>
      BY <2>1 DEF Main, BootInv, TypeOK, PitInv
    <3>2. ASSUME NEW k \in DhKeys PROVE k \in Enrolled' <=> k \in Enrolled
      BY <3>1, NameFacts DEF Enrolled
    <3>3. Enrolled' = Enrolled
      BY <3>2 DEF Enrolled
    <3> QED BY <3>1, <3>3, NothingOffered
  <2>2. ASSUME NEW d \in Devices, ReceiveData(d)
        PROVE  Enrolling!Next \/ UNCHANGED Enrolling!vars
    <3>1. PICK m \in datas :
            /\ m.name \in pit[d]
            /\ \/ UNCHANGED ended
               \/ m.name.kind = "cert" /\ OnData2(d, m)
            /\ UNCHANGED <<run, answered>>
      BY <2>2 DEF ReceiveData
    <3>2. CASE UNCHANGED ended
      BY <3>1, <3>2, NothingOffered DEF Enrolled
    <3> QED BY <3>1, <3>2, EnrollStep
  <2>3. ASSUME NEW d \in Devices, Expire(d) PROVE UNCHANGED Enrolling!vars
    BY <2>3, NothingOffered DEF Expire, Enrolled
  <2>4. CASE Lose \/ Garble \/ ControllerMain \/ ControllerReset \/ UNCHANGED vars
    <3>1. UNCHANGED <<run, ended, answered>>
      BY <2>4 DEF Lose, Garble, ControllerMain, ControllerReset, vars, device
    <3> QED BY <3>1, NothingOffered DEF Enrolled
  <2> QED BY <2>1, <2>2, <2>3, <2>4, LeaveStep, AnswerStep DEF Next, DeviceStep
<1> QED BY <1>1, <1>2, BootstrapInvariant, EnrollsOnce, PTL
        DEF Spec, ImplementsEnrollment, Enrolling!Spec

-----------------------------------------------------------------------------
(* Undisturbed runs *)

(* An Interest is on its way, or an answer to it, garbled or not.          *)
OnItsWay(i) == i \in interests \/ \E m \in datas : m.name = i

Undisturbed(d) == phase[d] = "running" /\ ~ mishap[d]

(* The safety behind Completes.  No Interest is ever sent again; still, a  *)
(* device in its loop that met with no mishap and is not at the end waits  *)
(* for something that is under way: there is always a step that brings it  *)
(* on, and no other device or earlier run uses up what it waits for.       *)
NeverStuck ==
  \A d \in Devices : Undisturbed(d) /\ ~ ended[d] => \E i \in pit[d] : OnItsWay(i)

LEMMA InitWay == Init => NeverStuck
BY DEF Init, NeverStuck, Undisturbed

LEMMA ReceiveDataWay ==
  ASSUME BootInv, NeverStuck, NEW e \in Devices, ReceiveData(e)
  PROVE  NeverStuck'
<1> SUFFICES ASSUME NEW d \in Devices, Undisturbed(d)', ~ ended'[d]
             PROVE  \E i \in pit'[d] : OnItsWay(i)'
  BY DEF NeverStuck
<1>1. PICK m \in datas :
        /\ phase[e] = "running" /\ m.name \in pit[e] /\ datas' = datas \ {m}
        /\ \/ m.name.kind = "sign-on" /\ OnData1(e, m) /\ UNCHANGED ended
           \/ m.name.kind = "cert" /\ OnData2(e, m) /\ UNCHANGED interests
        /\ UNCHANGED phase
  BY DEF ReceiveData
<1>2. m.name.key = <<e, run[e]>>
  BY <1>1 DEF BootInv, PitInv
<1>3. CASE d = e
  <2>1. mishap \in [Devices -> BOOLEAN] /\ ended \in [Devices -> BOOLEAN]
        /\ pit \in [Devices -> SUBSET Interest]
    BY DEF BootInv, TypeOK
  <2>2. CASE m.name.kind = "sign-on" /\ OnData1(e, m)
    <3>1. m.intact
      BY <1>3, <2>1, <2>2 DEF OnData1, Mishap, Undisturbed
    <3> DEFINE i == Cert(m.name.key, m.anchor)
    <3>2. Express(e, pit[e] \ {m.name}, i) /\ i \in pit'[e]
      BY <1>3, <2>1, <2>2, <3>1 DEF OnData1, Mishap, Undisturbed, Expressed
    <3>3. i # m.name
      BY <2>2 DEF Cert
    <3>4. m.name \in pit[e] /\ \A j \in pit[e] : j = m.name
      BY <1>1 DEF BootInv, PitInv
    <3>5. i \in interests'
      BY <2>1, <3>2, <3>3, <3>4 DEF Express
    <3> QED BY <1>3, <3>2, <3>5 DEF OnItsWay
  <2>3. CASE OnData2(e, m)
    BY <1>3, <2>1, <2>3 DEF OnData2, Mishap, Undisturbed
  <2> QED BY <1>1, <2>2, <2>3
<1>4. CASE d # e
  <2>1. pit'[d] = pit[d] /\ mishap'[d] = mishap[d] /\ ended'[d] = ended[d] /\ phase'[d] = phase[d]
        /\ interests \subseteq interests'
    BY <1>1, <1>4 DEF OnData1, OnData2, Express, Mishap, BootInv, TypeOK
  <2>2. PICK i \in pit[d] : OnItsWay(i)
    BY <2>1 DEF NeverStuck, Undisturbed
  <2>3. i # m.name
    <3>1. i.key = <<d, run[d]>>
      BY <2>2 DEF BootInv, PitInv
    <3>2. <<d, run[d]>> # <<e, run[e]>>
      BY <1>4
    <3> QED BY <1>2, <3>1, <3>2
  <2> QED BY <1>1, <2>1, <2>2, <2>3 DEF OnItsWay
<1> QED BY <1>3, <1>4

LEMMA MainWay ==
  ASSUME BootInv, NeverStuck, NEW e \in Devices, Main(e)
  PROVE  NeverStuck'
<1> SUFFICES ASSUME NEW d \in Devices, Undisturbed(d)', ~ ended'[d]
             PROVE  \E i \in pit'[d] : OnItsWay(i)'
  BY DEF NeverStuck
<1> DEFINE i == SignOn(<<e, run[e] + 1>>)
<1>1. /\ Express(e, {}, i) /\ UNCHANGED <<ended, datas, mishap>>
      /\ phase' = [phase EXCEPT ![e] = IF Expressed(e, i) THEN "running" ELSE "returned"]
      /\ phase \in [Devices -> {"off", "running", "returned"}]
      /\ pit \in [Devices -> SUBSET Interest]
  BY DEF Main, BootInv, TypeOK
<1>2. CASE d = e
  <2>1. i \in pit'[e]
    BY <1>1, <1>2 DEF Undisturbed, Expressed
  <2>2. i \in interests'
    BY <1>1, <2>1 DEF Express
  <2> QED BY <1>2, <2>1, <2>2 DEF OnItsWay
<1>3. CASE d # e
  <2>1. pit'[d] = pit[d] /\ phase'[d] = phase[d] /\ interests \subseteq interests'
    BY <1>1, <1>3 DEF Express
  <2> QED BY <1>1, <2>1 DEF NeverStuck, Undisturbed, OnItsWay
<1> QED BY <1>2, <1>3

LEMMA LoseWay ==
  ASSUME BootInv, NeverStuck, Lose
  PROVE  NeverStuck'
<1> SUFFICES ASSUME NEW d \in Devices, Undisturbed(d)', ~ ended'[d]
             PROVE  \E i \in pit'[d] : OnItsWay(i)'
  BY DEF NeverStuck
<1>1. UNCHANGED <<phase, run, pit, ended>>
  BY DEF Lose, device
<1>2. PICK lost :
        /\ \/ interests' = interests \ {lost} /\ UNCHANGED datas
           \/ \E m \in datas : m.name = lost /\ datas' = datas \ {m} /\ UNCHANGED interests
        /\ MishapTo(lost.key)
  BY DEF Lose
<1>3. mishap'[d] = (mishap[d] \/ (d = lost.key[1] /\ run[d] = lost.key[2] /\ phase[d] # "off"))
  BY <1>2 DEF MishapTo
<1>4. ~ mishap[d] /\ phase[d] = "running" /\ ~ (d = lost.key[1] /\ run[d] = lost.key[2])
  BY <1>1, <1>3 DEF Undisturbed
<1>5. PICK i \in pit[d] : OnItsWay(i)
  BY <1>1, <1>4 DEF NeverStuck, Undisturbed
<1>6. i.key = <<d, run[d]>>
  BY DEF BootInv, PitInv
<1>7. i # lost
  BY <1>4, <1>6
<1> QED BY <1>1, <1>2, <1>5, <1>7 DEF OnItsWay

LEMMA OtherWay ==
  ASSUME BootInv, NeverStuck,
         \/ Garble \/ ControllerMain \/ ControllerReset \/ UNCHANGED vars
         \/ \E e \in Devices : ReceiveInterest(e) \/ Expire(e) \/ Reset(e)
  PROVE  NeverStuck'
<1>1. CASE Garble
  <2>1. PICK m \in datas : datas' = (datas \ {m}) \cup {[m EXCEPT !.intact = FALSE]}
                           /\ UNCHANGED <<device, interests, mishap>>
    BY <1>1 DEF Garble
  <2>2. [m EXCEPT !.intact = FALSE].name = m.name
    BY DEF BootInv, TypeOK, Data
  <2>3. \A i : OnItsWay(i) => OnItsWay(i)'
    BY <2>1, <2>2 DEF OnItsWay
  <2> QED BY <2>1, <2>3 DEF NeverStuck, Undisturbed, device
<1>2. CASE ControllerMain \/ ControllerReset \/ UNCHANGED vars
  BY <1>2 DEF ControllerMain, ControllerReset, vars, device, NeverStuck, Undisturbed, OnItsWay
<1>3. ASSUME NEW e \in Devices, ReceiveInterest(e) PROVE NeverStuck'
  <2>1. PICK i \in interests :
          /\ interests' = interests \ {i}
          /\ \E m \in {OnInterest1(i), OnInterest2(i)} : datas' = datas \cup {m}
          /\ UNCHANGED <<phase, pit, ended, mishap>>
    BY <1>3 DEF ReceiveInterest, device
  <2>2. OnInterest1(i).name = i /\ OnInterest2(i).name = i
    BY DEF OnInterest1, OnInterest2
  <2>3. \A j : OnItsWay(j) => OnItsWay(j)'
    BY <2>1, <2>2 DEF OnItsWay
  <2> QED BY <2>1, <2>3 DEF NeverStuck, Undisturbed
<1>4. ASSUME NEW e \in Devices, Expire(e) \/ Reset(e) PROVE NeverStuck'
  <2> SUFFICES ASSUME NEW d \in Devices, Undisturbed(d)', ~ ended'[d]
               PROVE  \E i \in pit'[d] : OnItsWay(i)'
    BY DEF NeverStuck
  <2>1. d # e
    <3>1. mishap \in [Devices -> BOOLEAN] /\ phase \in [Devices -> {"off", "running", "returned"}]
      BY DEF BootInv, TypeOK
    <3>2. CASE Expire(e)
      BY <3>1, <3>2 DEF Expire, Mishap, Undisturbed
    <3>3. CASE Reset(e)
      BY <3>1, <3>3 DEF Reset, Undisturbed
    <3> QED BY <1>4, <3>2, <3>3
  <2>2. /\ pit'[d] = pit[d] /\ mishap'[d] = mishap[d] /\ ended'[d] = ended[d]
        /\ phase'[d] = phase[d] /\ UNCHANGED <<interests, datas>>
    BY <1>4, <2>1 DEF Expire, Reset, Mishap, BootInv, TypeOK
  <2> QED BY <2>2 DEF NeverStuck, Undisturbed, OnItsWay
<1> QED BY <1>1, <1>2, <1>3, <1>4

(* For any number of devices and resets, a device whose present run met    *)
(* with no mishap waits for something that is on its way.                  *)
THEOREM NobodyIsStuck == Spec => []NeverStuck
<1>1. BootInv /\ NeverStuck /\ [Next]_vars => NeverStuck'
  BY MainWay, ReceiveDataWay, LoseWay, OtherWay DEF Next, DeviceStep
<1> QED BY <1>1, InitWay, BootstrapInvariant, PTL DEF Spec

(* The packets a device still needs: its sign-on Interest to the           *)
(* controller and back, then its certificate Interest.                     *)
StepsLeft(d) ==
  LET asked == pit[d] \cap interests # {}
  IN  IF pit[d] = {} THEN 0
      ELSE IF \E i \in pit[d] : i.kind = "sign-on" THEN IF asked THEN 4 ELSE 3
      ELSE IF asked THEN 2 ELSE 1

(* Of an undisturbed device nothing is ever undone, by whatever other      *)
(* devices, earlier runs or a restarted controller do; each Data it takes, *)
(* and each Interest of its that the controller takes, brings it on.       *)
GoesForward ==
  [][\A d \in Devices : Undisturbed(d) /\ Undisturbed(d)' =>
       /\ StepsLeft(d)' <= StepsLeft(d)
       /\ ReceiveData(d) => StepsLeft(d)' < StepsLeft(d)
       /\ (pit[d] \cap interests) \ interests' # {} => StepsLeft(d)' < StepsLeft(d)]_vars

LEMMA SameInterestAwaited ==
  ASSUME BootInv, NEW d \in Devices, pit'[d] = pit[d],
         pit[d] \cap interests' \subseteq interests
  PROVE  /\ StepsLeft(d)' <= StepsLeft(d)
         /\ (pit[d] \cap interests) \ interests' # {} => StepsLeft(d)' < StepsLeft(d)
<1> DEFINE asked == pit[d] \cap interests # {}
           still == pit[d] \cap interests' # {}
<1>1. /\ StepsLeft(d) = IF pit[d] = {} THEN 0
                        ELSE IF \E i \in pit[d] : i.kind = "sign-on" THEN IF asked THEN 4 ELSE 3
                        ELSE IF asked THEN 2 ELSE 1
      /\ StepsLeft(d)' = IF pit[d] = {} THEN 0
                         ELSE IF \E i \in pit[d] : i.kind = "sign-on" THEN IF still THEN 4 ELSE 3
                         ELSE IF still THEN 2 ELSE 1
  BY DEF StepsLeft
<1>2. still => asked
  OBVIOUS
<1>3. (pit[d] \cap interests) \ interests' # {} => asked /\ ~ still /\ pit[d] # {}
  BY DEF BootInv, PitInv
<1> HIDE DEF asked, still
<1> QED BY <1>1, <1>2, <1>3

LEMMA TakesData ==
  ASSUME BootInv, NEW d \in Devices, ReceiveData(d), Undisturbed(d)'
  PROVE  StepsLeft(d)' < StepsLeft(d)
<1>1. PICK m \in datas :
        /\ m.name \in pit[d]
        /\ \/ m.name.kind = "sign-on" /\ OnData1(d, m)
           \/ m.name.kind = "cert" /\ OnData2(d, m)
  BY DEF ReceiveData
<1>2. /\ \A i \in pit[d] : i = m.name
      /\ mishap \in [Devices -> BOOLEAN] /\ pit \in [Devices -> SUBSET Interest]
  BY <1>1 DEF BootInv, PitInv, TypeOK
<1>3. CASE m.name.kind = "sign-on" /\ OnData1(d, m)
  <2> DEFINE i == Cert(m.name.key, m.anchor)
  <2>1. m.intact
    BY <1>2, <1>3 DEF OnData1, Mishap, Undisturbed
  <2>2. Express(d, pit[d] \ {m.name}, i)
    BY <1>3, <2>1 DEF OnData1
  <2>3. \A j \in pit'[d] : j.kind = "cert"
    BY <1>2, <2>2 DEF Express, Cert
  <2>4. StepsLeft(d)' \in {0, 1, 2} /\ StepsLeft(d) \in {3, 4}
    BY <1>1, <1>3, <2>3 DEF StepsLeft
  <2> QED BY <2>4
<1>4. CASE m.name.kind = "cert" /\ OnData2(d, m)
  <2>1. pit'[d] = {}
    BY <1>2, <1>4 DEF OnData2
  <2>2. StepsLeft(d)' = 0 /\ StepsLeft(d) \in {1, 2}
    BY <1>1, <1>2, <1>4, <2>1 DEF StepsLeft
  <2> QED BY <2>2
<1> QED BY <1>1, <1>3, <1>4

(* What other steps do to an undisturbed device: at most, an Interest is   *)
(* gone; what is added bears another device.                               *)
LEMMA OtherSteps ==
  ASSUME BootInv, [Next]_vars, NEW d \in Devices, ~ ReceiveData(d),
         Undisturbed(d), Undisturbed(d)'
  PROVE  pit'[d] = pit[d] /\ pit[d] \cap interests' \subseteq interests
<1>1. \A i \in pit[d] : i.key = <<d, run[d]>>
  BY DEF BootInv, PitInv
<1>2. pit \in [Devices -> SUBSET Interest] /\ mishap \in [Devices -> BOOLEAN]
      /\ phase \in [Devices -> {"off", "running", "returned"}]
  BY DEF BootInv, TypeOK
<1>3. ASSUME NEW e \in Devices, e # d, NEW i, NEW p, i.key[1] = e, Express(e, p, i)
      PROVE  pit'[d] = pit[d] /\ pit[d] \cap interests' \subseteq interests
  <2>1. i \notin pit[d]
    BY <1>1, <1>3
  <2> QED BY <1>2, <1>3, <2>1 DEF Express
<1>4. ASSUME NEW e \in Devices, Main(e)
      PROVE  pit'[d] = pit[d] /\ pit[d] \cap interests' \subseteq interests
  <2>1. e # d /\ Express(e, {}, SignOn(<<e, run[e] + 1>>))
    BY <1>4 DEF Main, Undisturbed
  <2>2. SignOn(<<e, run[e] + 1>>).key[1] = e
    BY DEF SignOn
  <2> QED BY <1>3, <2>1, <2>2
<1>5. ASSUME NEW e \in Devices, ReceiveData(e)
      PROVE  pit'[d] = pit[d] /\ pit[d] \cap interests' \subseteq interests
  <2>1. PICK m \in datas : /\ m.name \in pit[e]
                           /\ \/ OnData1(e, m)
                              \/ OnData2(e, m) /\ UNCHANGED interests
    BY <1>5 DEF ReceiveData
  <2>2. e # d /\ m.name.key[1] = e
    <3>1. m.name.key = <<e, run[e]>>
      BY <2>1 DEF BootInv, PitInv
    <3>2. e # d
      BY <1>5
    <3> QED BY <3>1, <3>2
  <2>3. CASE OnData1(e, m) /\ m.intact
    <3>1. Express(e, pit[e] \ {m.name}, Cert(m.name.key, m.anchor))
      BY <2>3 DEF OnData1
    <3>2. Cert(m.name.key, m.anchor).key[1] = e
      BY <2>2 DEF Cert
    <3> QED BY <1>3, <2>2, <3>1, <3>2
  <2>4. CASE OnData1(e, m) /\ ~ m.intact
    BY <1>2, <2>2, <2>4 DEF OnData1
  <2>5. CASE OnData2(e, m) /\ UNCHANGED interests
    BY <1>2, <2>2, <2>5 DEF OnData2
  <2> QED BY <2>1, <2>3, <2>4, <2>5
<1>6. ASSUME NEW e \in Devices, Expire(e) \/ Reset(e)
      PROVE  pit'[d] = pit[d] /\ pit[d] \cap interests' \subseteq interests
  <2>1. CASE Expire(e)
    <3>1. e # d
      BY <1>2, <2>1 DEF Expire, Mishap, Undisturbed
    <3> QED BY <1>2, <2>1, <3>1 DEF Expire
  <2>2. CASE Reset(e)
    <3>1. e # d
      BY <1>2, <2>2 DEF Reset, Undisturbed
    <3> QED BY <1>2, <2>2, <3>1 DEF Reset
  <2> QED BY <1>6, <2>1, <2>2
<1>7. ASSUME NEW e \in Devices, ReceiveInterest(e)
      PROVE  pit'[d] = pit[d] /\ pit[d] \cap interests' \subseteq interests
  BY <1>7 DEF ReceiveInterest, device
<1>8. CASE Lose \/ Garble \/ ControllerMain \/ ControllerReset \/ UNCHANGED vars
  BY <1>8 DEF Lose, Garble, ControllerMain, ControllerReset, vars, device
<1> QED BY <1>4, <1>5, <1>6, <1>7, <1>8 DEF Next, DeviceStep

(* The action property behind Completes, for any number of devices.        *)
THEOREM UndisturbedGoForward == Spec => GoesForward
<1> DEFINE Forward(d) ==
      /\ StepsLeft(d)' <= StepsLeft(d)
      /\ ReceiveData(d) => StepsLeft(d)' < StepsLeft(d)
      /\ (pit[d] \cap interests) \ interests' # {} => StepsLeft(d)' < StepsLeft(d)
<1>1. ASSUME BootInv, Next, NEW d \in Devices, Undisturbed(d), Undisturbed(d)'
      PROVE  Forward(d)
  <2>1. CASE ReceiveData(d)
    <3>1. StepsLeft(d)' < StepsLeft(d)
      BY <1>1, <2>1, TakesData
    <3>2. StepsLeft(d) \in 0 .. 4 /\ StepsLeft(d)' \in 0 .. 4
      BY DEF StepsLeft
    <3> QED BY <3>1, <3>2
  <2>2. CASE ~ ReceiveData(d)
    BY <1>1, <2>2, OtherSteps, SameInterestAwaited
  <2> QED BY <2>1, <2>2
<1> HIDE DEF Forward
<1>2. BootInv /\ [Next]_vars
        => [\A d \in Devices : Undisturbed(d) /\ Undisturbed(d)' => Forward(d)]_vars
  BY <1>1
<1>3. Spec => [][\A d \in Devices : Undisturbed(d) /\ Undisturbed(d)' => Forward(d)]_vars
  BY <1>2, BootstrapInvariant, PTL DEF Spec
<1> QED BY <1>3 DEF GoesForward, Forward

=============================================================================
