----------------------------- MODULE Bootstrap ------------------------------
(***************************************************************************)
(* The bootstrapping of a device by the controller, bootstrap.c and        *)
(* controller.c over ndn-lite's forwarder: a sign-on Interest, answered    *)
(* with the trust anchor, and a certificate Interest with the digest of    *)
(* that anchor, answered with a certificate.                               *)
(*                                                                         *)
(* Packets travel through the link layer, which loses, delays and garbles  *)
(* them (see L2Link).  A packet garbled in its name, or an Interest that   *)
(* reaches no controller, is as good as lost; parameters of an Interest    *)
(* are not looked at by the controller.  So only the content of Data is    *)
(* garbled here.  Devices and the controller may be reset at any time and  *)
(* remember nothing.                                                       *)
(***************************************************************************)
EXTENDS Integers

CONSTANTS Devices,
          MaxRuns,   \* how often a device is started
          MaxBoots   \* how often the controller is started

ASSUME BoundsAssumption == MaxRuns \in Nat /\ MaxBoots \in Nat

None == 0

(* A device makes a new Diffie-Hellman pair in each run, and the           *)
(* controller signs a new trust anchor at each start.                      *)
DhKeys  == Devices \X (1 .. MaxRuns)
Anchors == 1 .. MaxBoots

(* What ndn_sha256 makes of an anchor that was garbled. *)
Garbled == -1

(* An Interest is known by its name, which ends in the digest of its       *)
(* parameters; Data bears the name of the Interest it answers.             *)
SignOn(key) == [kind |-> "sign-on", key |-> key, anchor |-> None]
Cert(key, sha) == [kind |-> "cert", key |-> key, anchor |-> sha]
Interest == [kind : {"sign-on", "cert"}, key : DhKeys, anchor : Anchors \cup {None}]
Data == [name : Interest, anchor : Anchors \cup {None}, intact : BOOLEAN]

AesKeyIds == {10002, 10012, 124}

VARIABLES
  phase,      \* per device: "off", in the loop of main, or returned from it
  run,        \* per device: how often it was started
  pit,        \* per device: Interests its forwarder waits to be answered
  sha,        \* per device: trust_anchor_sha
  peer,       \* per device: whose public key controller_dh_pub holds
  aes,        \* per device: ids of the AES keys in the key storage
  ended,      \* per device: on_data_2 came to its end
  boots,      \* how often the controller was started
  up,         \* the controller is in its loop
  interests,  \* Interests on their way
  datas       \* Data on its way

(* What was observed: the Data the controller made, and the devices whose  *)
(* present run met with a mishap.                                          *)
VARIABLES answered, mishap

device == <<phase, run, pit, sha, peer, aes, ended>>
controller == <<boots, up>>
vars == <<device, controller, interests, datas, answered, mishap>>

Init ==
  /\ phase = [d \in Devices |-> "off"]
  /\ run = [d \in Devices |-> 0]
  /\ pit = [d \in Devices |-> {}]
  /\ sha = [d \in Devices |-> None]
  /\ peer = [d \in Devices |-> "none"]
  /\ aes = [d \in Devices |-> {}]
  /\ ended = [d \in Devices |-> FALSE]
  /\ boots = 0 /\ up = FALSE
  /\ interests = {} /\ datas = {}
  /\ answered = {}
  /\ mishap = [d \in Devices |-> FALSE]

-----------------------------------------------------------------------------
(* Helpers *)

Mishap(d) == mishap' = [mishap EXCEPT ![d] = TRUE]

(* ndn_forwarder_express_interest: entered in the pending Interest table   *)
(* and sent, or refused.                                                   *)
Express(d, pending, i) ==
  \/ /\ pit' = [pit EXCEPT ![d] = pending \cup {i}]
     /\ interests' = interests \cup {i}
  \/ /\ pit' = [pit EXCEPT ![d] = pending]
     /\ UNCHANGED interests

Expressed(d, i) == i \in pit'[d]

(* simulate_bootstrap leaves the default AES key; its trust anchor and     *)
(* identity are not used again on a device.                                *)
SimulateBootstrap(d) == aes' = [aes EXCEPT ![d] = {10002}]

-----------------------------------------------------------------------------
(* The device *)

(* Variant: the pair of the first run is kept for all runs. *)
MainOldKey(d) ==
  LET i == SignOn(<<d, 1>>)
  IN /\ phase[d] = "off" /\ run[d] < MaxRuns
     /\ run' = [run EXCEPT ![d] = @ + 1]
     /\ SimulateBootstrap(d)
     /\ Express(d, {}, i)
     /\ phase' = [phase EXCEPT ![d] = IF Expressed(d, i) THEN "running" ELSE "returned"]
     /\ UNCHANGED <<sha, peer, ended, controller, datas, answered, mishap>>

(* Up to the loop: making the key, adding the route or expressing the      *)
(* Interest may fail, and then main returns.                               *)
Main(d) ==
  LET i == SignOn(<<d, run[d] + 1>>)
  IN /\ phase[d] = "off" /\ run[d] < MaxRuns
     /\ run' = [run EXCEPT ![d] = @ + 1]
     /\ SimulateBootstrap(d)
     /\ Express(d, {}, i)
     /\ phase' = [phase EXCEPT ![d] = IF Expressed(d, i) THEN "running" ELSE "returned"]
     /\ UNCHANGED <<sha, peer, ended, controller, datas, answered, mishap>>

(* Variant: the Data is decoded and not verified. *)
OnData1Unverified(d, m) ==
  LET anchor == IF m.intact THEN m.anchor ELSE Garbled
      i == Cert(m.name.key, anchor)
  IN /\ sha' = [sha EXCEPT ![d] = anchor]
     /\ peer' = [peer EXCEPT ![d] = "own"]
     /\ aes' = [aes EXCEPT ![d] = @ \cup {10012}]
     /\ Express(d, pit[d] \ {m.name}, i)
     /\ IF Expressed(d, i) THEN UNCHANGED mishap ELSE Mishap(d)

(* Variant: the digest sent is that of the device's own trust anchor.      *)
OnData1OwnAnchor(d, m) ==
  IF ~ m.intact
  THEN /\ pit' = [pit EXCEPT ![d] = @ \ {m.name}]
       /\ Mishap(d)
       /\ UNCHANGED <<sha, peer, aes, interests>>
  ELSE LET i == Cert(m.name.key, None)
       IN /\ sha' = [sha EXCEPT ![d] = None]
          /\ peer' = [peer EXCEPT ![d] = "own"]
          /\ aes' = [aes EXCEPT ![d] = @ \cup {10012}]
          /\ Express(d, pit[d] \ {m.name}, i)
          /\ IF Expressed(d, i) THEN UNCHANGED mishap ELSE Mishap(d)

(* The answer to the sign-on Interest.  If its HMAC does not verify, the   *)
(* callback returns and nothing is tried again.  The key that is read as   *)
(* N2 is the device's own ecc_secp256r1_pub_key.                           *)
OnData1(d, m) ==
  IF ~ m.intact
  THEN /\ pit' = [pit EXCEPT ![d] = @ \ {m.name}]
       /\ Mishap(d)
       /\ UNCHANGED <<sha, peer, aes, interests>>
  ELSE LET i == Cert(m.name.key, m.anchor)
       IN /\ sha' = [sha EXCEPT ![d] = m.anchor]
          /\ peer' = [peer EXCEPT ![d] = "own"]
          /\ aes' = [aes EXCEPT ![d] = @ \cup {10012}]
          /\ Express(d, pit[d] \ {m.name}, i)
          /\ IF Expressed(d, i) THEN UNCHANGED mishap ELSE Mishap(d)

(* The answer to the certificate Interest. *)
OnData2(d, m) ==
  /\ pit' = [pit EXCEPT ![d] = @ \ {m.name}]
  /\ IF m.intact
     THEN /\ aes' = [aes EXCEPT ![d] = @ \cup {124}]
          /\ ended' = [ended EXCEPT ![d] = TRUE]
          /\ UNCHANGED mishap
     ELSE Mishap(d) /\ UNCHANGED <<aes, ended>>

(* ndn_forwarder_process, in the loop of main, hands Data to the callback  *)
(* of the Interest it answers.                                             *)
ReceiveData(d) ==
  \E m \in datas :
    /\ phase[d] = "running" /\ m.name \in pit[d]
    /\ datas' = datas \ {m}
    /\ \/ m.name.kind = "sign-on" /\ OnData1(d, m) /\ UNCHANGED ended
       \/ m.name.kind = "cert" /\ OnData2(d, m) /\ UNCHANGED <<sha, peer, interests>>
    /\ UNCHANGED <<phase, run, controller, answered>>

(* An Interest expires, and there is no callback for that. *)
Expire(d) ==
  /\ phase[d] = "running"
  /\ \E i \in pit[d] : pit' = [pit EXCEPT ![d] = @ \ {i}]
  /\ Mishap(d)
  /\ UNCHANGED <<phase, run, sha, peer, aes, ended, controller, interests, datas, answered>>

(* A device is switched off, or reset. *)
Reset(d) ==
  /\ phase[d] # "off"
  /\ phase' = [phase EXCEPT ![d] = "off"]
  /\ pit' = [pit EXCEPT ![d] = {}]
  /\ sha' = [sha EXCEPT ![d] = None]
  /\ peer' = [peer EXCEPT ![d] = "none"]
  /\ aes' = [aes EXCEPT ![d] = {}]
  /\ ended' = [ended EXCEPT ![d] = FALSE]
  /\ mishap' = [mishap EXCEPT ![d] = FALSE]
  /\ UNCHANGED <<run, controller, interests, datas, answered>>

-----------------------------------------------------------------------------
(* The controller *)

ControllerMain ==
  /\ ~ up /\ boots < MaxBoots
  /\ boots' = boots + 1 /\ up' = TRUE
  /\ UNCHANGED <<device, interests, datas, answered, mishap>>

ControllerReset ==
  /\ up /\ up' = FALSE
  /\ UNCHANGED <<device, boots, interests, datas, answered, mishap>>

OnInterest1(i) == [name |-> i, anchor |-> boots, intact |-> TRUE]

(* Variant: the Data gets the name of the sign-on Interest. *)
OnInterest2Misnamed(i) == [name |-> SignOn(i.key), anchor |-> None, intact |-> TRUE]

OnInterest2(i) == [name |-> i, anchor |-> None, intact |-> TRUE]

(* Whatever came before, the controller answers: it keeps nothing of the   *)
(* devices.                                                                *)
ReceiveInterest(d) ==
  \E i \in interests :
    LET m == IF i.kind = "sign-on" THEN OnInterest1(i) ELSE OnInterest2(i)
    IN /\ up /\ i.key[1] = d
       /\ interests' = interests \ {i}
       /\ datas' = datas \cup {m}
       /\ answered' = answered \cup {m}
       /\ UNCHANGED <<device, controller, mishap>>

-----------------------------------------------------------------------------
(* The link *)

MishapTo(key) ==
  mishap' = [d \in Devices |-> mishap[d] \/ (d = key[1] /\ run[d] = key[2] /\ phase[d] # "off")]

Lose ==
  \/ \E i \in interests : /\ interests' = interests \ {i}
                          /\ MishapTo(i.key)
                          /\ UNCHANGED <<device, controller, datas, answered>>
  \/ \E m \in datas : /\ datas' = datas \ {m}
                      /\ MishapTo(m.name.key)
                      /\ UNCHANGED <<device, controller, interests, answered>>

Garble ==
  \E m \in datas :
    /\ m.intact
    /\ datas' = (datas \ {m}) \cup {[m EXCEPT !.intact = FALSE]}
    /\ UNCHANGED <<device, controller, interests, answered, mishap>>

-----------------------------------------------------------------------------
DeviceStep(d) == Main(d) \/ ReceiveData(d) \/ Expire(d) \/ Reset(d)

Next ==
  \/ \E d \in Devices : DeviceStep(d) \/ ReceiveInterest(d)
  \/ ControllerMain \/ ControllerReset
  \/ Lose \/ Garble

Spec == Init /\ [][Next]_vars

(* Both loops call ndn_forwarder_process without end, and what is neither  *)
(* lost nor late arrives.                                                  *)
FairSpec ==
  Spec /\ \A d \in Devices : WF_vars(ReceiveData(d)) /\ WF_vars(ReceiveInterest(d))

-----------------------------------------------------------------------------
(* Properties *)

(* The buffers hold what they are declared for. *)
TypeOK ==
  /\ phase \in [Devices -> {"off", "running", "returned"}]
  /\ run \in [Devices -> 0 .. MaxRuns]
  /\ pit \in [Devices -> SUBSET Interest]
  /\ sha \in [Devices -> Anchors \cup {None}]
  /\ peer \in [Devices -> {"none", "own"}]
  /\ aes \in [Devices -> SUBSET AesKeyIds]
  /\ ended \in [Devices -> BOOLEAN]
  /\ boots \in 0 .. MaxBoots /\ up \in BOOLEAN
  /\ up => boots > 0
  /\ interests \subseteq Interest /\ datas \subseteq Data
  /\ answered \subseteq Data
  /\ mishap \in [Devices -> BOOLEAN]

SignedOn(key, anchor) ==
  \E m \in answered : m.name = SignOn(key) /\ m.anchor = anchor

(* The controller, which keeps no state of a device and checks nothing of  *)
(* its Interests, yet never issues a certificate to a device that it did   *)
(* not sign on in the same run of the device, with the very anchor whose   *)
(* digest the device sent; on_data_1's check of the HMAC sees to that.     *)
CertFollowsSignOn ==
  \A m \in answered : m.name.kind = "cert" => SignedOn(m.name.key, m.name.anchor)

(* A device that came to the end of bootstrapping did so on an answer to   *)
(* the certificate Interest of its present run, with the digest it holds:  *)
(* neither a late answer to an earlier run nor a garbled one ends it.      *)
EndedOnOwnCertificate ==
  \A d \in Devices : ended[d] =>
    \E m \in answered : m.name = Cert(<<d, run[d]>>, sha[d])

(* Seen without packets and phases, the device and the controller do what  *)
(* Enrollment says: no loss, delay or reset makes the controller offer an  *)
(* anchor, or issue a certificate, twice in one run of a device.           *)
Known == Anchors \cup {None}
Offers == {o \in DhKeys \X Known : \E m \in answered : m.name = SignOn(o[1]) /\ m.anchor = o[2]}
Certificates == {o \in DhKeys \X Known : \E m \in answered : m.name = Cert(o[1], o[2])}
Enrolled == {k \in DhKeys : ended[k[1]] /\ run[k[1]] = k[2]}

Enrolling == INSTANCE Enrollment
               WITH Keys <- DhKeys, Anchors <- Anchors,
                    offers <- Offers, certificates <- Certificates, enrolled <- Enrolled
ImplementsEnrollment == Enrolling!Spec

(* While the controller is up, and unless the link or the forwarder fails  *)
(* it, a device in its loop comes to the end of bootstrapping.             *)
Completes ==
  \A d \in Devices :
    phase[d] = "running" ~> ended[d] \/ mishap[d] \/ phase[d] # "running" \/ ~ up

=============================================================================
