-------------------------- MODULE NetfaceRxProofs --------------------------
(***************************************************************************)
(* Theorems about NetfaceRx, for every set of interfaces, every capacity   *)
(* of the packet buffer, the mailbox and the event queue, and every set of *)
(* frames.                                                                 *)
(***************************************************************************)
EXTENDS NetfaceRx, L2FragProofs, FiniteSetTheorems

-----------------------------------------------------------------------------
(* The operators *)

(* Posting never overfills the queue, keeps what is in it, and succeeds    *)
(* when there is room.                                                     *)
LEMMA PostFacts ==
  ASSUME NEW q \in Seq(Faces), NEW f \in Faces, Len(q) <= EventSlots
  PROVE  /\ Post(q, f) \in Seq(Faces)
         /\ Len(Post(q, f)) <= EventSlots
         /\ Len(Post(q, f)) <= Len(q) + 1
         /\ Len(Post(q, f)) >= Len(q)
         /\ \A i \in 1 .. Len(q) : Post(q, f)[i] = q[i]
         /\ \A i \in 1 .. Len(Post(q, f)) : i > Len(q) => Post(q, f)[i] = f
         /\ Len(q) < EventSlots => Len(Post(q, f)) = Len(q) + 1
<1>1. CASE Len(q) < EventSlots
  BY <1>1, EventSlotsAssumption DEF Post
<1>2. CASE ~ (Len(q) < EventSlots)
  BY <1>2, EventSlotsAssumption DEF Post
<1> QED BY <1>1, <1>2

(* A handler that posts its own event moves it from the head to the tail.  *)
LEMMA PollAgain ==
  ASSUME NEW q \in Seq(Faces), NEW f \in Faces, Len(q) <= EventSlots,
         q # <<>>, Head(q) = f
  PROVE  /\ Post(Tail(q), f) \in Seq(Faces)
         /\ Len(Post(Tail(q), f)) = Len(q)
         /\ \A i \in 1 .. Len(q) - 1 : Post(Tail(q), f)[i] = q[i + 1]
         /\ Post(Tail(q), f)[Len(q)] = q[1]
<1>1. /\ Tail(q) \in Seq(Faces) /\ Len(Tail(q)) = Len(q) - 1 /\ Len(q) \in Nat /\ Len(q) > 0
      /\ \A i \in 1 .. Len(q) - 1 : Tail(q)[i] = q[i + 1]
  OBVIOUS
<1>2. Len(Tail(q)) < EventSlots /\ Len(Tail(q)) <= EventSlots
  BY <1>1, EventSlotsAssumption
<1>3. Post(Tail(q), f) = Append(Tail(q), f)
  BY <1>2 DEF Post
<1>4. q[1] = f
  OBVIOUS
<1> QED BY <1>1, <1>3, <1>4

-----------------------------------------------------------------------------
(* Type correctness *)

LEMMA CallType ==
  ASSUME NEW f \in Faces, NEW p \in Packet, NEW fresh \in BOOLEAN
  PROVE  Call(f, p.type, fresh) \in CallRecord /\ Call(f, "NDN", fresh) \in CallRecord
BY DEF Call, CallRecord, Packet

(* What a link-layer face does with any message, in any order, keeps the   *)
(* variables it touches well typed.                                        *)
LEMMA NetfaceHandleType ==
  ASSUME TypeOK, NEW n \in Netifs, NEW m \in Message, NetfaceHandle(n, m)
  PROVE  /\ netface' \in [Netifs -> [state : FaceState, registered : BOOLEAN,
                                     assembler : Assembler]]
         /\ live' \subseteq live
         /\ asker' \in {"idle", "waiting"}
         /\ fwd' \in CallRecord \cup {NoCall}
<1> USE DEF TypeOK
<1>n. n \in Faces
  BY DEF Faces
<1>1. CASE m.type = "RCV" /\ ProcessPacket(n, m.pkt) /\ UNCHANGED asker
  <2>1. m.pkt \in Slots
    BY <1>1 DEF Message, Rcv, Option, Other
  <2> DEFINE s == m.pkt
  <2>p. pkt[s] \in Packet
    BY <2>1
  <2>2. CASE pkt[s].type # "NDN" /\ fwd' = NoCall /\ UNCHANGED <<netface, live>>
    BY <1>1, <2>2
  <2>3. CASE fwd' = Call(n, "NDN", s \in live) /\ UNCHANGED <<netface, live>>
    <3>1. (s \in live) \in BOOLEAN
      OBVIOUS
    <3>2. fwd' \in CallRecord
      BY <2>3, <3>1, <2>p, <1>n, CallType
    <3> QED BY <1>1, <2>3, <3>2
  <2>4. ASSUME pkt[s].body # Whole, Release(s),
               NEW a \in AssembleFrag(netface[n].assembler, pkt[s].body),
               netface' = [netface EXCEPT ![n].assembler =
                             IF a.finished THEN AssemblerInit ELSE a],
               fwd' = IF a.finished THEN Call(n, "NDN", TRUE) ELSE NoCall
        PROVE  /\ netface' \in [Netifs -> [state : FaceState, registered : BOOLEAN,
                                           assembler : Assembler]]
               /\ live' \subseteq live
               /\ fwd' \in CallRecord \cup {NoCall}
    <3>1. pkt[s].body \in Fragment
      BY <2>4, <2>p DEF Packet
    <3>2. netface[n].assembler \in Assembler
      OBVIOUS
    <3>f. LET f == pkt[s].body
          IN  /\ f.id \in FragIds /\ f.seq \in 0 .. MaxFrags - 1
              /\ f.last \in BOOLEAN /\ f.len \in Nat
      BY <3>1, FragBufAssumption DEF Fragment
    <3>3. a \in Assembler
      BY <3>f, <3>2, <2>4, AssembleFragType
    <3>4. (IF a.finished THEN AssemblerInit ELSE a) \in Assembler
      BY <3>3, InitialAssembler
    <3>5. netface' \in [Netifs -> [state : FaceState, registered : BOOLEAN,
                                   assembler : Assembler]]
      BY <2>4, <3>4
    <3>6. Call(n, "NDN", TRUE) \in CallRecord
      BY <1>n, <2>p, CallType
    <3> QED BY <2>4, <3>5, <3>6 DEF Release
  <2> QED BY <1>1, <2>2, <2>3, <2>4 DEF ProcessPacket
<1>2. CASE ReplyNotSupported
  BY <1>2 DEF ReplyNotSupported
<1>3. CASE Ignore
  BY <1>3 DEF Ignore
<1> QED BY <1>1, <1>2, <1>3 DEF NetfaceHandle

(* The same of the UDP face, whose message may also be garbage. *)
LEMMA UdpHandleType ==
  ASSUME TypeOK, NEW m \in Message \cup {Garbage}, UdpHandle(m)
  PROVE  /\ netface' = netface
         /\ live' \subseteq live
         /\ asker' \in {"idle", "waiting"}
         /\ fwd' \in CallRecord \cup {NoCall}
<1> USE DEF TypeOK
<1>1. CASE /\ m.type = "RCV"
           /\ fwd' = Call(UdpFace, pkt[m.pkt].type, m.pkt \in live)
           /\ Release(m.pkt)
           /\ UNCHANGED <<netface, asker>>
  <2>1. m.pkt \in Slots
    BY <1>1 DEF Message, Rcv, Option, Other, Garbage
  <2>2. pkt[m.pkt] \in Packet /\ UdpFace \in Faces /\ (m.pkt \in live) \in BOOLEAN
    BY <2>1 DEF Faces
  <2>3. fwd' \in CallRecord
    BY <1>1, <2>2, CallType
  <2> QED BY <1>1, <2>3 DEF Release
<1>2. CASE ReplyNotSupported
  BY <1>2 DEF ReplyNotSupported
<1>3. CASE Ignore
  BY <1>3 DEF Ignore
<1> QED BY <1>1, <1>2, <1>3 DEF UdpHandle

LEMMA TypeInit == Init => TypeOK
<1> SUFFICES ASSUME Init PROVE TypeOK
  OBVIOUS
<1> USE DEF Init
<1>1. netface \in [Netifs -> [state : FaceState, registered : BOOLEAN, assembler : Assembler]]
  BY InitialAssembler DEF FaceState
<1>2. pkt \in [Slots -> Packet]
  BY DEF Packet
<1>3. mbox \in Seq(Message) /\ Len(mbox) <= MboxSize
  BY MboxAssumption
<1>4. events \in Seq(Faces) /\ Len(events) <= EventSlots
  BY EventSlotsAssumption
<1> QED BY <1>1, <1>2, <1>3, <1>4 DEF TypeOK

LEMMA TypeStep == TypeOK /\ [Next]_vars => TypeOK'
<1> SUFFICES ASSUME TypeOK, [Next]_vars PROVE TypeOK'
  OBVIOUS
<1> USE DEF TypeOK
<1>f. \A n \in Netifs : n \in Faces
  BY DEF Faces
<1>u. UdpFace \in Faces
  BY DEF Faces
<1>1. CASE AutoConstruct
  <2>1. <<>> \in Seq(Message) /\ Len(<<>>) <= MboxSize
    BY MboxAssumption
  <2> QED BY <1>1, <2>1 DEF AutoConstruct
<1>2. ASSUME NEW n \in Netifs, SetUpNetface(n) PROVE TypeOK'
  <2>1. Cardinality(Netifs) \in Int
    BY NetifsAssumption, FS_CardinalityType
  <2>2. events' \in Seq(Faces) /\ Len(events') <= EventSlots
    BY <1>2, <1>f, PostFacts DEF SetUpNetface
  <2>3. netface' \in [Netifs -> [state : FaceState, registered : BOOLEAN,
                                 assembler : Assembler]]
    BY <1>2, InitialAssembler DEF SetUpNetface, FaceState
  <2> QED BY <1>2, <2>1, <2>2, <2>3 DEF SetUpNetface
<1>3. ASSUME NEW n \in Netifs, NetfaceReceive(n) PROVE TypeOK'
  <2>1. events' \in Seq(Faces) /\ Len(events') <= EventSlots
    BY <1>3, <1>f, PollAgain DEF NetfaceReceive, Polling, PostAgain
  <2>2. CASE mbox = <<>> /\ Ignore /\ UNCHANGED mbox
    BY <1>3, <2>1, <2>2 DEF NetfaceReceive, Ignore, appVars
  <2>3. CASE mbox # <<>> /\ mbox' = Tail(mbox) /\ NetfaceHandle(n, Head(mbox))
    <3>1. Head(mbox) \in Message /\ mbox' \in Seq(Message) /\ Len(mbox') <= MboxSize
      BY <2>3, MboxAssumption
    <3>2. /\ netface' \in [Netifs -> [state : FaceState, registered : BOOLEAN,
                                      assembler : Assembler]]
          /\ live' \subseteq live
          /\ asker' \in {"idle", "waiting"}
          /\ fwd' \in CallRecord \cup {NoCall}
      BY <2>3, <3>1, NetfaceHandleType
    <3> QED BY <1>3, <2>1, <3>1, <3>2 DEF NetfaceReceive, appVars
  <2> QED BY <1>3, <2>2, <2>3 DEF NetfaceReceive
<1>4. ASSUME NEW n \in Netifs, NEW state \in {"UP", "DOWN", "DESTROYED"},
             NetfaceSetState(n, state)
      PROVE  TypeOK'
  BY <1>4 DEF NetfaceSetState, appVars, FaceState
<1>5. CASE UdpConstruct
  <2>1. <<>> \in Seq(Message) /\ Len(<<>>) <= MboxSize
    BY MboxAssumption
  <2>2. events' \in Seq(Faces) /\ Len(events') <= EventSlots
    BY <1>5, <1>u, PostFacts DEF UdpConstruct
  <2>3. udp' \in [state : {"UNSET", "DOWN", "UP"}, registered : BOOLEAN, netreg : BOOLEAN]
    <3>1. CASE udp' = [state |-> "UP", registered |-> TRUE, netreg |-> TRUE]
      BY <3>1
    <3>2. CASE udp' = [udp EXCEPT !.netreg = TRUE]
      BY <3>2
    <3> QED BY <1>5, <3>1, <3>2 DEF UdpConstruct
  <2> QED BY <1>5, <2>1, <2>2, <2>3 DEF UdpConstruct, appVars
<1>6. CASE UdpUp
  <2>1. events' \in Seq(Faces) /\ Len(events') <= EventSlots
    BY <1>6, <1>u, PostFacts DEF UdpUp
  <2> QED BY <1>6, <2>1 DEF UdpUp, appVars
<1>7. CASE UdpDown
  BY <1>7 DEF UdpDown, appVars
<1>8. CASE UdpDestroy
  BY <1>8 DEF UdpDestroy, appVars
<1>9. CASE UdpRecv
  <2>1. events' \in Seq(Faces) /\ Len(events') <= EventSlots
    BY <1>9, <1>u, PollAgain DEF UdpRecv, Polling, PostAgain
  <2>2. PICK m \in Message \cup {Garbage} :
          /\ UdpHandle(m) /\ stale' = m
          /\ mbox' \in Seq(Message) /\ Len(mbox') <= MboxSize
    <3>1. CASE mbox # <<>>
      <4>1. Head(mbox) \in Message /\ Tail(mbox) \in Seq(Message)
            /\ Len(Tail(mbox)) <= MboxSize
        BY <3>1, MboxAssumption
      <4> QED BY <1>9, <3>1, <4>1 DEF UdpRecv
    <3>2. CASE mbox = <<>>
      BY <1>9, <3>2 DEF UdpRecv
    <3> QED BY <3>1, <3>2
  <2>3. /\ netface' = netface
        /\ live' \subseteq live
        /\ asker' \in {"idle", "waiting"}
        /\ fwd' \in CallRecord \cup {NoCall}
    BY <2>2, UdpHandleType
  <2> QED BY <1>9, <2>1, <2>2, <2>3 DEF UdpRecv, appVars
<1>10. ASSUME NEW p \in Packet, Receive(p) PROVE TypeOK'
  <2>1. PICK s \in Slots \ live : /\ live' = live \cup {s}
                                  /\ pkt' = [pkt EXCEPT ![s] = p]
                                  /\ mbox' = Append(mbox, Rcv(s))
    BY <1>10 DEF Receive
  <2>2. Rcv(s) \in Message
    BY DEF Message
  <2>3. mbox' \in Seq(Message) /\ Len(mbox') <= MboxSize
    BY <1>10, <2>1, <2>2, MboxAssumption DEF Receive
  <2> QED BY <1>10, <2>1, <2>3 DEF Receive, appVars
<1>11. ASSUME NEW m \in {Option, Other}, Ask(m) PROVE TypeOK'
  <2>1. m \in Message
    BY DEF Message
  <2>2. mbox' \in Seq(Message) /\ Len(mbox') <= MboxSize
    BY <1>11, <2>1, MboxAssumption DEF Ask
  <2> QED BY <1>11, <2>2 DEF Ask, appVars
<1>12. CASE UNCHANGED vars
  BY <1>12 DEF vars
<1>13. \A b \in Frames : [type |-> "NDN", body |-> b] \in Packet
  BY FramesAssumption DEF Packet
<1>14. [type |-> "UDP", body |-> Whole] \in Packet
  BY DEF Packet
<1> QED
  BY <1>1, <1>2, <1>3, <1>4, <1>5, <1>6, <1>7, <1>8, <1>9, <1>10, <1>11, <1>12,
     <1>13, <1>14 DEF Next, AppOnNetface, AppOnUdp, Network

(* The mailbox, the event queue and the re-assembly buffers stay within    *)
(* their capacities, and every packet handed over is well formed.          *)
THEOREM TypeCorrect == Spec => []TypeOK
<1> QED BY TypeInit, TypeStep, PTL DEF Spec

-----------------------------------------------------------------------------
(* One poller for each face *)

(* Until ndn_lite_startup is through, no face but the link-layer ones can  *)
(* have an event, and there is room for those still to be set up.          *)
BootInv ==
  boot # "running" =>
    /\ ~ udp.netreg /\ ~ udp.registered
    /\ Len(events) + Cardinality(toSetUp) < EventSlots
    /\ \A n \in toSetUp : netface[n].state = "UNSET"

PollInv == TypeOK /\ BootInv /\ OnePoller

LEMMA PollInit == Init => PollInv
<1> SUFFICES ASSUME Init PROVE PollInv
  OBVIOUS
<1>1. Cardinality(Netifs) \in Nat
  BY NetifsAssumption, FS_CardinalityType
<1>2. BootInv
  BY <1>1, EventSlotsAssumption DEF Init, BootInv
<1>3. OnePoller
  BY DEF Init, OnePoller, Polls
<1> QED BY <1>2, <1>3, TypeInit DEF PollInv

(* A poll moves the event of its face from the head to the tail, and every *)
(* other event one place forward.                                          *)
LEMMA RotationKeepsPoller ==
  ASSUME TypeOK, OnePoller, NEW f \in Faces, events # <<>>, Head(events) = f,
         events' = Post(Tail(events), f),
         \A n \in Netifs : (netface'[n].state = "UNSET") <=> (netface[n].state = "UNSET")
  PROVE  OnePoller'
<1>1. /\ events \in Seq(Faces) /\ Len(events) <= EventSlots
      /\ Len(events) \in Nat /\ Len(events) > 0
  BY DEF TypeOK
<1>2. /\ events' \in Seq(Faces)
      /\ Len(events') = Len(events)
      /\ \A i \in 1 .. Len(events) - 1 : events'[i] = events[i + 1]
      /\ events'[Len(events)] = events[1]
  BY <1>1, PollAgain
<1>3. DOMAIN events = 1 .. Len(events) /\ DOMAIN events' = 1 .. Len(events)
  BY <1>1, <1>2
<1>4. ASSUME NEW n \in Netifs, Polls(n) = {}
      PROVE  Polls(n)' = {}
  <2>1. \A i \in 1 .. Len(events) : events[i] # n
    BY <1>3, <1>4 DEF Polls
  <2>2. \A i \in 1 .. Len(events) : events'[i] # n
    BY <1>1, <1>2, <2>1
  <2> QED BY <1>3, <2>2 DEF Polls
<1>5. ASSUME NEW n \in Netifs, NEW i \in DOMAIN events, Polls(n) = {i}
      PROVE  \E j \in DOMAIN events' : Polls(n)' = {j}
  <2> DEFINE j == IF i = 1 THEN Len(events) ELSE i - 1
  <2>1. /\ i \in 1 .. Len(events) /\ events[i] = n
        /\ \A k \in 1 .. Len(events) : events[k] = n => k = i
    BY <1>3, <1>5 DEF Polls
  <2>2. j \in 1 .. Len(events) /\ events'[j] = n
    BY <1>1, <1>2, <2>1
  <2>3. \A k \in 1 .. Len(events) : events'[k] = n => k = j
    <3> TAKE k \in 1 .. Len(events)
    <3> HAVE events'[k] = n
    <3>1. CASE k = Len(events)
      BY <1>1, <1>2, <2>1, <3>1
    <3>2. CASE k # Len(events)
      <4>1. events[k + 1] = n /\ k + 1 \in 1 .. Len(events)
        BY <1>1, <1>2, <3>2
      <4> QED BY <1>1, <2>1, <4>1
    <3> QED BY <3>1, <3>2
  <2>4. Polls(n)' = {j}
    BY <1>3, <2>2, <2>3 DEF Polls
  <2>5. j \in DOMAIN events'
    BY <1>3, <2>2
  <2> QED BY <2>4, <2>5
<1> QED BY <1>4, <1>5 DEF OnePoller

(* Posting an event of another face leaves those of a face where they are. *)
LEMMA PostKeepsPolls ==
  ASSUME TypeOK, NEW f \in Faces, NEW n \in Faces, f # n, events' = Post(events, f)
  PROVE  Polls(n)' = Polls(n)
<1>1. /\ events \in Seq(Faces) /\ Len(events) <= EventSlots /\ Len(events) \in Nat
  BY DEF TypeOK
<1>2. /\ events' \in Seq(Faces)
      /\ Len(events') >= Len(events)
      /\ \A i \in 1 .. Len(events) : events'[i] = events[i]
      /\ \A i \in 1 .. Len(events') : i > Len(events) => events'[i] = f
  BY <1>1, PostFacts
<1>3. DOMAIN events = 1 .. Len(events) /\ DOMAIN events' = 1 .. Len(events')
      /\ Len(events') \in Nat
  BY <1>1, <1>2
<1>4. \A i \in 1 .. Len(events) : i \in 1 .. Len(events')
  BY <1>1, <1>2, <1>3
<1>5. \A i \in 1 .. Len(events') : events'[i] = n => i \in 1 .. Len(events) /\ events[i] = n
  BY <1>1, <1>2, <1>3
<1> QED BY <1>2, <1>3, <1>4, <1>5 DEF Polls

LEMMA PollStep == PollInv /\ [Next]_vars => PollInv'
<1> SUFFICES ASSUME PollInv, [Next]_vars PROVE PollInv'
  OBVIOUS
<1> USE DEF PollInv
<1>t. TypeOK'
  BY TypeStep
<1>f. UdpFace \in Faces /\ \A n \in Netifs : n \in Faces /\ n # UdpFace
  BY NetifsAssumption DEF Faces
<1>s. Polls(UdpFace)' = Polls(UdpFace)' /\ events \in Seq(Faces) /\ Len(events) <= EventSlots
  BY DEF TypeOK
<1>1. CASE UNCHANGED <<events, netface, boot, toSetUp, udp>>
  BY <1>1, <1>t DEF BootInv, OnePoller, Polls
<1>2. CASE AutoConstruct
  BY <1>2, <1>t DEF AutoConstruct, BootInv, OnePoller, Polls
<1>3. ASSUME NEW n \in Netifs, SetUpNetface(n) PROVE PollInv'
  <2>1. /\ IsFiniteSet(toSetUp) /\ Cardinality(toSetUp) \in Nat
        /\ Cardinality(toSetUp') = Cardinality(toSetUp) - 1
    BY <1>3, NetifsAssumption, FS_Subset, FS_RemoveElement, FS_CardinalityType
    DEF SetUpNetface, TypeOK
  <2>2. netface[n].state = "UNSET" /\ Polls(n) = {}
    BY <1>3 DEF SetUpNetface, BootInv, OnePoller
  <2>3. Len(events) + Cardinality(toSetUp) < EventSlots /\ ~ udp.netreg /\ ~ udp.registered
    BY <1>3 DEF SetUpNetface, BootInv
  <2>4. CASE UNCHANGED <<netface, events>>
    <3>1. BootInv'
      BY <1>3, <2>1, <2>3, <2>4, <1>s, EventSlotsAssumption DEF SetUpNetface, BootInv
    <3> QED BY <1>t, <2>4, <3>1 DEF OnePoller, Polls
  <2>5. ASSUME NEW ok \in BOOLEAN,
               netface' = [netface EXCEPT ![n] = [state |-> "UP", registered |-> ok,
                                                  assembler |-> AssemblerInit]],
               events' = Post(events, n)
        PROVE  PollInv'
    <3>1. Len(events) \in Nat /\ Len(events) < EventSlots
      BY <1>s, <2>1, <2>3, EventSlotsAssumption
    <3>2. events' = Append(events, n)
      BY <2>5, <3>1 DEF Post
    <3>3. Len(events') = Len(events) + 1
      BY <3>2, <1>s
    <3>4. BootInv'
      BY <1>3, <2>1, <2>3, <2>5, <3>1, <3>3, EventSlotsAssumption
      DEF SetUpNetface, BootInv, TypeOK
    <3>5. Polls(n)' = {Len(events) + 1} /\ Len(events) + 1 \in DOMAIN events'
      <4>1. \A i \in 1 .. Len(events) : events[i] # n
        BY <2>2, <1>s DEF Polls
      <4>2. DOMAIN events' = 1 .. Len(events) + 1
        BY <3>2, <1>s
      <4>3. events'[Len(events) + 1] = n
        BY <3>2, <1>s
      <4>4. \A i \in 1 .. Len(events) : events'[i] # n
        BY <3>2, <1>s, <4>1
      <4> QED BY <3>1, <4>2, <4>3, <4>4 DEF Polls
    <3>6. netface'[n].state = "UP"
      BY <2>5 DEF TypeOK
    <3>7. ASSUME NEW k \in Netifs, k # n
          PROVE  netface'[k] = netface[k] /\ Polls(k)' = Polls(k)
      BY <1>f, <2>5, <3>7, PostKeepsPolls DEF TypeOK
    <3>8. DOMAIN events \subseteq DOMAIN events'
      BY <3>2, <1>s
    <3>9. ASSUME NEW k \in Netifs
          PROVE  IF netface'[k].state = "UNSET" THEN Polls(k)' = {}
                 ELSE \E i \in DOMAIN events' : Polls(k)' = {i}
      <4>1. CASE k = n
        BY <3>5, <3>6, <4>1
      <4>2. CASE k # n
        BY <3>7, <3>8, <4>2 DEF OnePoller
      <4> QED BY <4>1, <4>2
    <3>10. OnePoller'
      BY <3>9 DEF OnePoller
    <3> QED BY <1>t, <3>4, <3>10
  <2> QED BY <1>3, <2>4, <2>5 DEF SetUpNetface
<1>4. ASSUME NEW n \in Netifs, NetfaceReceive(n) PROVE PollInv'
  <2>1. \A k \in Netifs : netface'[k].state = netface[k].state
    <3>1. CASE mbox = <<>> /\ Ignore
      BY <3>1 DEF Ignore
    <3>2. CASE NetfaceHandle(n, Head(mbox))
      <4>1. \/ netface' = netface
            \/ \E a : netface' = [netface EXCEPT ![n].assembler = a]
        BY <3>2 DEF NetfaceHandle, ProcessPacket, ReplyNotSupported, Ignore
      <4> QED BY <4>1 DEF TypeOK
    <3> QED BY <1>4, <3>1, <3>2 DEF NetfaceReceive
  <2>2. OnePoller'
    BY <1>4, <1>f, <2>1, RotationKeepsPoller DEF NetfaceReceive, Polling, PostAgain
  <2>3. BootInv'
    BY <1>4 DEF NetfaceReceive, Polling, BootInv, appVars
  <2> QED BY <1>t, <2>2, <2>3
<1>5. ASSUME NEW n \in Netifs, NEW state \in {"UP", "DOWN", "DESTROYED"},
             NetfaceSetState(n, state)
      PROVE  PollInv'
  <2>1. \A k \in Netifs : (netface'[k].state = "UNSET") <=> (netface[k].state = "UNSET")
    BY <1>5 DEF NetfaceSetState, TypeOK
  <2>2. events' = events /\ boot' = boot /\ boot = "running"
    BY <1>5 DEF NetfaceSetState, appVars
  <2> QED BY <1>t, <2>1, <2>2 DEF BootInv, OnePoller, Polls
<1>6. ASSUME boot = "running", boot' = boot, netface' = netface,
             events' = Post(events, UdpFace)
      PROVE  PollInv'
  <2>1. \A k \in Netifs : Polls(k)' = Polls(k)
    BY <1>6, <1>f, PostKeepsPolls
  <2>2. DOMAIN events \subseteq DOMAIN events'
    BY <1>6, <1>f, <1>s, PostFacts
  <2> QED BY <1>6, <1>t, <2>1, <2>2 DEF BootInv, OnePoller
<1>7. ASSUME boot = "running", UNCHANGED <<boot, netface, events>>
      PROVE  PollInv'
  BY <1>7, <1>t DEF BootInv, OnePoller, Polls
<1>8. CASE UdpConstruct
  BY <1>6, <1>7, <1>8 DEF UdpConstruct, appVars
<1>9. CASE UdpUp
  BY <1>6, <1>9 DEF UdpUp, appVars, BootInv
<1>10. CASE UdpDown \/ UdpDestroy
  BY <1>7, <1>10 DEF UdpDown, UdpDestroy, appVars, BootInv
<1>11. CASE UdpRecv
  <2>1. netface' = netface
    BY <1>11 DEF UdpRecv, UdpHandle, ReplyNotSupported, Ignore
  <2>2. OnePoller'
    BY <1>11, <1>f, <2>1, RotationKeepsPoller DEF UdpRecv, Polling, PostAgain
  <2>3. BootInv'
    BY <1>11 DEF UdpRecv, Polling, BootInv, appVars
  <2> QED BY <1>t, <2>2, <2>3
<1>12. CASE Network
  BY <1>1, <1>12 DEF Network, Receive, Ask, appVars
<1>13. CASE UNCHANGED vars
  BY <1>1, <1>13 DEF vars
<1> QED
  BY <1>2, <1>3, <1>4, <1>5, <1>8, <1>9, <1>10, <1>11, <1>12, <1>13
  DEF Next, AppOnNetface, AppOnUdp

(* No interleaving of network threads, faces going up and down and polls   *)
(* makes a link-layer face lose its event or get a second one.             *)
THEOREM OnePollerPerNetface == Spec => []OnePoller
<1>1. PollInv => OnePoller
  BY DEF PollInv
<1> QED BY <1>1, PollInit, PollStep, PTL DEF Spec

-----------------------------------------------------------------------------
(* The UDP face keeps an event *)

(* Each link-layer face has at most one event, so that a queue that is     *)
(* full holds one of the UDP face: where Post refuses it, it is there.     *)
LEMMA FullQueuePollsUdp ==
  ASSUME TypeOK, OnePoller, Len(events) = EventSlots
  PROVE  Polls(UdpFace) # {}
<1> SUFFICES ASSUME Polls(UdpFace) = {} PROVE FALSE
  OBVIOUS
<1>1. events \in Seq(Faces) /\ Len(events) \in Nat /\ DOMAIN events = 1 .. Len(events)
  BY DEF TypeOK
<1>2. events \in [1 .. Len(events) -> Netifs]
  BY <1>1 DEF Polls, Faces
<1>3. /\ IsFiniteSet(1 .. Len(events))
      /\ Cardinality(1 .. Len(events)) = Len(events)
      /\ IsFiniteSet(Netifs) /\ Cardinality(Netifs) \in Nat
  BY <1>1, EventSlotsAssumption, NetifsAssumption, FS_Interval, FS_CardinalityType
<1>4. Cardinality(Netifs) < Cardinality(1 .. Len(events))
  BY <1>3, EventSlotsAssumption
<1>5. PICK i \in 1 .. Len(events), j \in 1 .. Len(events) : i # j /\ events[i] = events[j]
  BY <1>2, <1>3, <1>4, FS_PigeonHole
<1>6. events[i] \in Netifs /\ {i, j} \subseteq Polls(events[i])
  BY <1>1, <1>2, <1>5 DEF Polls
<1> QED BY <1>5, <1>6 DEF OnePoller

(* Posting an event of the UDP face leaves it with one. *)
LEMMA PostPollsUdp ==
  ASSUME TypeOK, OnePoller, events' = Post(events, UdpFace)
  PROVE  Polls(UdpFace)' # {}
<1>1. events \in Seq(Faces) /\ Len(events) \in Nat /\ Len(events) <= EventSlots
      /\ UdpFace \in Faces
  BY DEF TypeOK, Faces
<1>2. CASE Len(events) < EventSlots
  <2>1. events' = Append(events, UdpFace)
    BY <1>2 DEF Post
  <2>2. Len(events) + 1 \in DOMAIN events' /\ events'[Len(events) + 1] = UdpFace
    BY <1>1, <2>1
  <2> QED BY <2>2 DEF Polls
<1>3. CASE Len(events) = EventSlots
  <2>1. events' = events
    BY <1>3, EventSlotsAssumption DEF Post
  <2> QED BY <1>3, <2>1, FullQueuePollsUdp DEF Polls
<1> QED BY <1>1, <1>2, <1>3, EventSlotsAssumption

(* A poll, whichever face it is of, leaves the UDP face with its event. *)
LEMMA RotationKeepsUdp ==
  ASSUME TypeOK, NEW f \in Faces, events # <<>>, Head(events) = f,
         events' = Post(Tail(events), f), Polls(UdpFace) # {}
  PROVE  Polls(UdpFace)' # {}
<1>1. /\ events \in Seq(Faces) /\ Len(events) <= EventSlots
      /\ Len(events) \in Nat /\ Len(events) > 0
  BY DEF TypeOK
<1>2. /\ events' \in Seq(Faces)
      /\ Len(events') = Len(events)
      /\ \A i \in 1 .. Len(events) - 1 : events'[i] = events[i + 1]
      /\ events'[Len(events)] = events[1]
  BY <1>1, PollAgain
<1>3. PICK i \in 1 .. Len(events) : events[i] = UdpFace
  BY <1>1 DEF Polls
<1>4. CASE i = 1
  BY <1>1, <1>2, <1>3, <1>4 DEF Polls
<1>5. CASE i # 1
  <2>1. i - 1 \in 1 .. Len(events) - 1 /\ events'[i - 1] = UdpFace
    BY <1>1, <1>2, <1>3, <1>5
  <2>2. i - 1 \in DOMAIN events'
    BY <1>1, <1>2, <2>1
  <2> QED BY <2>1, <2>2 DEF Polls
<1> QED BY <1>4, <1>5

UdpInv == PollInv /\ UdpPolled /\ (udp.state = "UP" => udp.registered)

LEMMA UdpInvInit == Init => UdpInv
<1> SUFFICES ASSUME Init PROVE UdpInv
  OBVIOUS
<1>1. udp.state # "UP"
  BY DEF Init
<1> QED BY <1>1, PollInit DEF UdpInv, UdpPolled

LEMMA UdpInvStep == UdpInv /\ [Next]_vars => UdpInv'
<1> SUFFICES ASSUME UdpInv, [Next]_vars PROVE UdpInv'
  OBVIOUS
<1> USE DEF UdpInv
<1>p. PollInv' /\ TypeOK /\ OnePoller /\ BootInv
  BY PollStep DEF PollInv
<1>f. UdpFace \in Faces /\ \A n \in Netifs : n \in Faces /\ n # UdpFace
  BY NetifsAssumption DEF Faces
<1>1. ASSUME udp' = udp, Polls(UdpFace) # {} => Polls(UdpFace)' # {}
      PROVE  UdpInv'
  BY <1>p, <1>1 DEF UdpPolled
<1>2. ASSUME udp' = udp, events' = events PROVE UdpInv'
  BY <1>1, <1>2 DEF Polls
<1>3. ASSUME udp'.state = "UP" => udp'.registered, events' = Post(events, UdpFace)
      PROVE  UdpInv'
  BY <1>p, <1>3, PostPollsUdp DEF UdpPolled
<1>4. ASSUME NEW n \in Netifs, SetUpNetface(n) PROVE UdpInv'
  <2>1. udp' = udp /\ ~ udp.registered
    BY <1>4, <1>p DEF SetUpNetface, BootInv
  <2> QED BY <1>p, <2>1 DEF UdpPolled
<1>5. ASSUME NEW n \in Netifs, NetfaceReceive(n) PROVE UdpInv'
  <2>1. udp' = udp /\ n \in Faces
    BY <1>5, <1>f DEF NetfaceReceive
  <2>2. Polls(UdpFace) # {} => Polls(UdpFace)' # {}
    BY <1>5, <1>p, <2>1, RotationKeepsUdp DEF NetfaceReceive, Polling, PostAgain
  <2> QED BY <1>1, <2>1, <2>2
<1>6. CASE UdpConstruct
  <2>1. CASE udp' = [state |-> "UP", registered |-> TRUE, netreg |-> TRUE]
             /\ events' = Post(events, UdpFace)
    <3>1. udp'.registered
      BY <2>1
    <3> QED BY <1>3, <2>1, <3>1
  <2>2. CASE udp' = [udp EXCEPT !.netreg = TRUE] /\ UNCHANGED events
    <3>1. udp'.state = udp.state /\ udp'.registered = udp.registered
      BY <1>p, <2>2 DEF TypeOK
    <3> QED BY <1>p, <2>2, <3>1 DEF UdpPolled, Polls
  <2> QED BY <1>6, <2>1, <2>2 DEF UdpConstruct
<1>7. CASE UdpUp
  <2>1. udp'.registered
    BY <1>7, <1>p DEF UdpUp, TypeOK
  <2> QED BY <1>3, <1>7, <2>1 DEF UdpUp
<1>8. CASE UdpDown \/ UdpDestroy
  <2>1. udp'.state # "UP"
    BY <1>8, <1>p DEF UdpDown, UdpDestroy, TypeOK
  <2> QED BY <1>p, <2>1 DEF UdpPolled
<1>9. CASE UdpRecv
  <2>1. udp' = udp
    BY <1>9 DEF UdpRecv
  <2>2. Polls(UdpFace) # {} => Polls(UdpFace)' # {}
    BY <1>9, <1>p, <1>f, RotationKeepsUdp DEF UdpRecv, Polling, PostAgain
  <2> QED BY <1>1, <2>1, <2>2
<1>10. CASE AutoConstruct \/ Network \/ UNCHANGED vars
  BY <1>2, <1>10 DEF AutoConstruct, Network, Receive, Ask, vars
<1>11. ASSUME NEW n \in Netifs, NEW state \in {"UP", "DOWN", "DESTROYED"},
              NetfaceSetState(n, state)
       PROVE  UdpInv'
  BY <1>2, <1>11 DEF NetfaceSetState
<1> QED BY <1>4, <1>5, <1>6, <1>7, <1>8, <1>9, <1>10, <1>11 DEF Next, AppOnNetface, AppOnUdp

(* Whatever calls of construct, up, down and destroy came before, and      *)
(* although a full queue refuses events, a UDP face that is up is polled.  *)
THEOREM UdpFaceIsPolled == Spec => []UdpPolled
<1>1. UdpInv => UdpPolled
  BY DEF UdpInv
<1> QED BY <1>1, UdpInvInit, UdpInvStep, PTL DEF Spec

-----------------------------------------------------------------------------
(* Packets and requests, in a build without the UDP face *)

(* Only the link-layer faces are polled.  Before the thread has a mailbox  *)
(* nothing is in it.                                                       *)
NoUdpInv ==
  /\ ~ udp.netreg /\ ~ udp.registered
  /\ \A i \in DOMAIN events : events[i] \in Netifs
  /\ boot = "off" => mbox = <<>>

OwnInv ==
  /\ TypeOK
  /\ NoUdpInv
  /\ PacketsOwned
  /\ FragmentsReleased
  /\ RequestPending
  /\ FreshCalls

LEMMA OwnInit == Init => OwnInv
<1> SUFFICES ASSUME Init PROVE OwnInv
  OBVIOUS
<1> USE DEF Init
<1>1. NoUdpInv
  BY DEF NoUdpInv
<1>2. PacketsOwned /\ FragmentsReleased /\ FreshCalls
  BY DEF PacketsOwned, FragmentsReleased, FreshCalls, Received
<1>3. RequestPending
  BY DEF RequestPending
<1> QED BY <1>1, <1>2, <1>3, TypeInit DEF OwnInv

(* Taking the message at the head of the mailbox: the packets of the other *)
(* messages stay owned, and stay distinct from the one taken.              *)
LEMMA TakeKeepsOwned ==
  ASSUME TypeOK, PacketsOwned, mbox # <<>>, mbox' = Tail(mbox),
         live' = live \/ (/\ mbox[1].type = "RCV"
                          /\ live' = live \ {mbox[1].pkt})
  PROVE  PacketsOwned'
<1>1. /\ Len(mbox) \in Nat /\ DOMAIN mbox = 1 .. Len(mbox) /\ 1 \in DOMAIN mbox
      /\ DOMAIN mbox' = 1 .. Len(mbox) - 1
      /\ \A i \in DOMAIN mbox' : mbox'[i] = mbox[i + 1] /\ i + 1 \in DOMAIN mbox
  BY DEF TypeOK
<1>2. ASSUME NEW i \in Received'
      PROVE  i + 1 \in Received /\ mbox'[i] = mbox[i + 1]
  BY <1>1, <1>2 DEF Received
<1>3. ASSUME NEW i \in Received'
      PROVE  mbox'[i].pkt \in live'
  <2>1. mbox[i + 1].pkt \in live
    BY <1>2, <1>3 DEF PacketsOwned
  <2>2. mbox[1].type = "RCV" => mbox[i + 1].pkt # mbox[1].pkt
    <3> SUFFICES ASSUME mbox[1].type = "RCV", mbox[i + 1].pkt = mbox[1].pkt PROVE FALSE
      OBVIOUS
    <3>1. 1 \in Received
      BY <1>1 DEF Received
    <3>2. i + 1 = 1
      BY <1>2, <1>3, <3>1 DEF PacketsOwned
    <3>3. i \in 1 .. Len(mbox) - 1
      BY <1>1, <1>3 DEF Received
    <3> QED BY <1>1, <3>2, <3>3
  <2> QED BY <1>2, <1>3, <2>1, <2>2
<1>4. ASSUME NEW i \in Received', NEW j \in Received', mbox'[i].pkt = mbox'[j].pkt
      PROVE  i = j
  <2>1. i + 1 = j + 1
    BY <1>2, <1>4 DEF PacketsOwned
  <2>2. i \in 1 .. Len(mbox) - 1 /\ j \in 1 .. Len(mbox) - 1
    BY <1>1, <1>4 DEF Received
  <2> QED BY <1>1, <2>1, <2>2
<1> QED BY <1>3, <1>4 DEF PacketsOwned, Received

(* A fragment that stays in use after the head was taken is still queued,  *)
(* provided that the head, when it is one, was released.                   *)
LEMMA TakeKeepsReleased ==
  ASSUME TypeOK, FragmentsReleased, mbox # <<>>, mbox' = Tail(mbox), pkt' = pkt,
         live' \subseteq live,
         mbox[1].type = "RCV" /\ pkt[mbox[1].pkt].body # Whole => mbox[1].pkt \notin live'
  PROVE  FragmentsReleased'
<1>1. /\ Len(mbox) \in Nat /\ DOMAIN mbox = 1 .. Len(mbox)
      /\ DOMAIN mbox' = 1 .. Len(mbox) - 1
      /\ \A i \in DOMAIN mbox' : mbox'[i] = mbox[i + 1]
  BY DEF TypeOK
<1>2. ASSUME NEW s \in live', pkt'[s].body # Whole
      PROVE  \E i \in Received' : mbox'[i].pkt = s
  <2>1. PICK i \in Received : mbox[i].pkt = s
    BY <1>2 DEF FragmentsReleased
  <2>2. i # 1
    BY <1>2, <2>1 DEF Received
  <2>3. i - 1 \in DOMAIN mbox' /\ mbox'[i - 1] = mbox[i]
    BY <1>1, <2>1, <2>2 DEF Received
  <2> QED BY <2>1, <2>3 DEF Received
<1> QED BY <1>2 DEF FragmentsReleased

(* The request of a waiting thread moves forward with the mailbox, and is  *)
(* gone when it was answered.                                              *)
LEMMA TakeKeepsRequest ==
  ASSUME TypeOK, RequestPending, mbox # <<>>, mbox' = Tail(mbox),
         asker' = IF mbox[1].type = "OPTION" THEN "idle" ELSE asker
  PROVE  RequestPending'
<1> DEFINE requests == {i \in DOMAIN mbox : mbox[i].type = "OPTION"}
<1>1. /\ Len(mbox) \in Nat /\ Len(mbox) > 0 /\ DOMAIN mbox = 1 .. Len(mbox)
      /\ DOMAIN mbox' = 1 .. Len(mbox) - 1
      /\ \A i \in DOMAIN mbox' : mbox'[i] = mbox[i + 1] /\ i + 1 \in DOMAIN mbox
  BY DEF TypeOK
<1>2. \A i \in requests' : i + 1 \in requests
  BY <1>1
<1>3. CASE mbox[1].type = "OPTION"
  <2>1. 1 \in requests
    BY <1>1, <1>3
  <2>2. requests = {1}
    BY <2>1 DEF RequestPending
  <2>3. requests' = {}
    BY <1>1, <1>2, <2>2
  <2> QED BY <1>3, <2>3 DEF RequestPending
<1>4. CASE mbox[1].type # "OPTION" /\ asker # "waiting"
  <2>1. requests = {}
    BY <1>4 DEF RequestPending
  <2>2. requests' = {}
    BY <1>2, <2>1
  <2> QED BY <1>4, <2>2 DEF RequestPending
<1>5. CASE mbox[1].type # "OPTION" /\ asker = "waiting"
  <2>1. PICK i \in DOMAIN mbox : requests = {i}
    BY <1>5 DEF RequestPending
  <2>2. i \in requests
    BY <2>1
  <2>3. i # 1 /\ mbox[i].type = "OPTION"
    BY <1>5, <2>2
  <2>4. i - 1 \in DOMAIN mbox' /\ mbox'[i - 1] = mbox[i]
    BY <1>1, <2>3
  <2>5. \A k \in requests' : k = i - 1
    <3> TAKE k \in requests'
    <3>1. k + 1 = i /\ k \in 1 .. Len(mbox) - 1
      BY <1>1, <1>2, <2>1
    <3> QED BY <1>1, <3>1
  <2>6. i - 1 \in requests'
    BY <2>3, <2>4
  <2>7. requests' = {i - 1}
    BY <2>5, <2>6
  <2>8. asker' = "waiting"
    BY <1>5
  <2> QED BY <2>4, <2>7, <2>8 DEF RequestPending
<1> QED BY <1>3, <1>4, <1>5

(* A message at the tail of the mailbox: a new packet, in a slot that was  *)
(* free, or a request or another message.                                  *)
LEMMA ReceiveKeepsOwned ==
  ASSUME OwnInv, NEW p \in Packet, Receive(p)
  PROVE  PacketsOwned' /\ FragmentsReleased' /\ RequestPending'
<1> USE DEF OwnInv
<1>1. PICK s \in Slots \ live : /\ live' = live \cup {s}
                                /\ pkt' = [pkt EXCEPT ![s] = p]
                                /\ mbox' = Append(mbox, Rcv(s))
  BY DEF Receive
<1>2. asker' = asker
  BY DEF Receive
<1>3. Rcv(s) \in Message /\ Rcv(s).type = "RCV" /\ Rcv(s).pkt = s
  BY DEF Message, Rcv
<1>4. /\ Len(mbox) \in Nat /\ DOMAIN mbox = 1 .. Len(mbox)
      /\ DOMAIN mbox' = 1 .. Len(mbox) + 1
      /\ \A i \in DOMAIN mbox : mbox'[i] = mbox[i] /\ i \in DOMAIN mbox'
      /\ mbox'[Len(mbox) + 1] = Rcv(s)
      /\ \A i \in DOMAIN mbox' : i # Len(mbox) + 1 => i \in DOMAIN mbox
      /\ Len(mbox) + 1 \in DOMAIN mbox' /\ Len(mbox) + 1 \notin DOMAIN mbox
  BY <1>1, <1>3 DEF TypeOK
<1>5. Received' = Received \cup {Len(mbox) + 1}
  BY <1>3, <1>4 DEF Received
<1>6. \A i \in Received : mbox'[i] = mbox[i] /\ mbox[i].pkt \in live /\ mbox[i].pkt # s
  BY <1>4 DEF PacketsOwned, Received
<1>n. Len(mbox) + 1 \notin Received
  BY <1>4 DEF Received
<1>7. PacketsOwned'
  <2>1. ASSUME NEW i \in Received' PROVE mbox'[i].pkt \in live'
    BY <1>1, <1>3, <1>4, <1>5, <1>6, <2>1
  <2>2. ASSUME NEW i \in Received', NEW j \in Received', mbox'[i].pkt = mbox'[j].pkt
        PROVE  i = j
    <3>1. CASE i \in Received /\ j \in Received
      BY <1>6, <2>2, <3>1 DEF PacketsOwned
    <3>2. CASE i \in Received /\ j = Len(mbox) + 1
      BY <1>3, <1>4, <1>6, <2>2, <3>2
    <3>3. CASE i = Len(mbox) + 1 /\ j \in Received
      BY <1>3, <1>4, <1>6, <2>2, <3>3
    <3> QED BY <1>5, <2>2, <3>1, <3>2, <3>3
  <2> QED BY <2>1, <2>2 DEF PacketsOwned
<1>8. ASSUME NEW t \in live', pkt'[t].body # Whole
      PROVE  \E i \in Received' : mbox'[i].pkt = t
  <2>1. CASE t = s
    BY <1>3, <1>4, <1>5, <2>1
  <2>2. CASE t # s
    <3>1. t \in live /\ pkt[t].body # Whole
      BY <1>1, <1>8, <2>2 DEF TypeOK
    <3> QED BY <1>5, <1>6, <3>1 DEF FragmentsReleased
  <2> QED BY <2>1, <2>2
<1>9. FragmentsReleased'
  BY <1>8 DEF FragmentsReleased
<1>10. {i \in DOMAIN mbox' : mbox'[i].type = "OPTION"}
         = {i \in DOMAIN mbox : mbox[i].type = "OPTION"}
  BY <1>3, <1>4
<1>11. RequestPending'
  BY <1>2, <1>4, <1>10 DEF RequestPending
<1> QED BY <1>7, <1>9, <1>11

LEMMA AskKeepsOwned ==
  ASSUME OwnInv, NEW m \in {Option, Other}, Ask(m)
  PROVE  PacketsOwned' /\ FragmentsReleased' /\ RequestPending'
<1> USE DEF OwnInv
<1>1. /\ mbox' = Append(mbox, m) /\ UNCHANGED <<live, pkt>>
      /\ m = Option => asker = "idle"
      /\ asker' = IF m = Option THEN "waiting" ELSE asker
  BY DEF Ask
<1>2. m \in Message /\ m.type # "RCV" /\ (m.type = "OPTION" <=> m = Option)
  BY DEF Message, Option, Other
<1>3. /\ Len(mbox) \in Nat /\ DOMAIN mbox = 1 .. Len(mbox)
      /\ DOMAIN mbox' = 1 .. Len(mbox) + 1
      /\ \A i \in DOMAIN mbox : mbox'[i] = mbox[i] /\ i \in DOMAIN mbox'
      /\ mbox'[Len(mbox) + 1] = m
      /\ \A i \in DOMAIN mbox' : i # Len(mbox) + 1 => i \in DOMAIN mbox
      /\ Len(mbox) + 1 \in DOMAIN mbox'
  BY <1>1, <1>2 DEF TypeOK
<1>4. Received' = Received /\ \A i \in Received : mbox'[i] = mbox[i]
  BY <1>2, <1>3 DEF Received
<1>a. PacketsOwned'
  <2>1. \A i \in Received' : mbox'[i].pkt \in live'
    BY <1>1, <1>4 DEF PacketsOwned
  <2>2. ASSUME NEW i \in Received', NEW j \in Received', mbox'[i].pkt = mbox'[j].pkt
        PROVE  i = j
    BY <1>4, <2>2 DEF PacketsOwned
  <2> QED BY <2>1, <2>2 DEF PacketsOwned
<1>b. FragmentsReleased'
  <2>1. ASSUME NEW t \in live', pkt'[t].body # Whole
        PROVE  \E i \in Received' : mbox'[i].pkt = t
    <3>1. PICK i \in Received : mbox[i].pkt = t
      BY <1>1, <2>1 DEF FragmentsReleased
    <3> QED BY <1>4, <3>1
  <2> QED BY <2>1 DEF FragmentsReleased
<1>5. PacketsOwned' /\ FragmentsReleased'
  BY <1>a, <1>b
<1> DEFINE requests == {i \in DOMAIN mbox : mbox[i].type = "OPTION"}
<1>6. CASE m = Option
  <2>1. requests = {}
    BY <1>1, <1>6 DEF RequestPending
  <2>2. requests' = {Len(mbox) + 1}
    BY <1>2, <1>3, <1>6, <2>1
  <2>3. asker' = "waiting"
    BY <1>1, <1>6
  <2> QED BY <1>3, <1>5, <2>2, <2>3 DEF RequestPending
<1>7. CASE m # Option
  <2>1. requests' = requests /\ asker' = asker
    BY <1>1, <1>2, <1>3, <1>7
  <2> QED BY <1>3, <1>5, <2>1 DEF RequestPending
<1> QED BY <1>6, <1>7

(* A poll, along every path of ndn_netface_receive and of                  *)
(* ndn_l2_process_packet.                                                  *)
LEMMA PollKeepsOwned ==
  ASSUME OwnInv, NEW n \in Netifs, NetfaceReceive(n)
  PROVE  PacketsOwned' /\ FragmentsReleased' /\ RequestPending' /\ FreshCalls'
<1> USE DEF OwnInv
<1>p. pkt' = pkt
  BY DEF NetfaceReceive
<1>1. CASE mbox = <<>> /\ Ignore /\ UNCHANGED mbox
  BY <1>1, <1>p
  DEF Ignore, PacketsOwned, FragmentsReleased, RequestPending, FreshCalls, Received
<1>2. ASSUME mbox # <<>>, mbox' = Tail(mbox), NetfaceHandle(n, Head(mbox))
      PROVE  PacketsOwned' /\ FragmentsReleased' /\ RequestPending' /\ FreshCalls'
  <2>1. Head(mbox) = mbox[1] /\ mbox[1] \in Message /\ 1 \in DOMAIN mbox
    BY <1>2 DEF TypeOK
  <2>2. CASE mbox[1].type = "RCV" /\ ProcessPacket(n, mbox[1].pkt) /\ UNCHANGED asker
    <3> DEFINE s == mbox[1].pkt
    <3>1. s \in Slots /\ s \in live
      BY <2>1, <2>2 DEF PacketsOwned, Received, TypeOK
    <3>2. pkt[s].type # "NDN" => pkt[s].body = Whole
      BY <3>1 DEF TypeOK, Packet
    <3>3. /\ live' = live \/ live' = live \ {s}
          /\ pkt[s].body # Whole => s \notin live'
          /\ fwd' # NoCall => fwd'.fresh
      <4>1. CASE fwd' = NoCall /\ UNCHANGED live /\ pkt[s].type # "NDN"
        BY <3>2, <4>1
      <4>2. CASE fwd' = Call(n, "NDN", s \in live) /\ UNCHANGED live /\ pkt[s].body = Whole
        <5>1. (s \in live) = TRUE
          BY <3>1
        <5>2. fwd'.fresh
          BY <4>2, <5>1 DEF Call
        <5> QED BY <4>2, <5>2
      <4>3. CASE Release(s) /\ fwd' \in {Call(n, "NDN", TRUE), NoCall}
        BY <4>3 DEF Release, Call
      <4> QED BY <2>2, <4>1, <4>2, <4>3 DEF ProcessPacket
    <3>4. RequestPending'
      <4>1. asker' = IF mbox[1].type = "OPTION" THEN "idle" ELSE asker
        BY <2>2
      <4> QED BY <1>2, <4>1, TakeKeepsRequest
    <3>5. PacketsOwned'
      BY <1>2, <2>2, <3>3, TakeKeepsOwned
    <3>6. FragmentsReleased'
      BY <1>2, <1>p, <3>3, TakeKeepsReleased
    <3> QED BY <3>3, <3>4, <3>5, <3>6 DEF FreshCalls
  <2>3. CASE mbox[1].type = "OPTION" /\ ReplyNotSupported
    <3>1. live' = live /\ asker' = "idle" /\ fwd' = NoCall
      BY <2>3 DEF ReplyNotSupported
    <3> QED BY <1>2, <1>p, <2>3, <3>1, TakeKeepsOwned, TakeKeepsReleased, TakeKeepsRequest
            DEF FreshCalls
  <2>4. CASE mbox[1].type \notin {"RCV", "OPTION"} /\ Ignore
    <3>1. live' = live /\ asker' = asker /\ fwd' = NoCall
      BY <2>4 DEF Ignore
    <3> QED BY <1>2, <1>p, <2>4, <3>1, TakeKeepsOwned, TakeKeepsReleased, TakeKeepsRequest
            DEF FreshCalls
  <2> QED BY <1>2, <2>1, <2>2, <2>3, <2>4 DEF NetfaceHandle
<1> QED BY <1>1, <1>2 DEF NetfaceReceive

LEMMA OwnStep == ~ UdpEnabled /\ OwnInv /\ [Next]_vars => OwnInv'
<1> SUFFICES ASSUME ~ UdpEnabled, OwnInv, [Next]_vars PROVE OwnInv'
  OBVIOUS
<1> USE DEF OwnInv
<1>t. TypeOK'
  BY TypeStep
<1>k. ASSUME UNCHANGED <<mbox, live, pkt, asker, fwd>>
      PROVE  PacketsOwned' /\ FragmentsReleased' /\ RequestPending' /\ FreshCalls'
  BY <1>k DEF PacketsOwned, FragmentsReleased, RequestPending, FreshCalls, Received
<1>1. CASE AutoConstruct
  <2>1. UNCHANGED <<mbox, live, pkt, asker, fwd, events, udp>>
    BY <1>1 DEF AutoConstruct, NoUdpInv
  <2>2. NoUdpInv'
    BY <1>1, <2>1 DEF NoUdpInv, AutoConstruct
  <2> QED BY <1>t, <1>k, <2>1, <2>2
<1>2. ASSUME NEW n \in Netifs, SetUpNetface(n) PROVE OwnInv'
  <2>1. UNCHANGED <<mbox, live, pkt, asker, fwd, udp>> /\ boot' # "off"
    BY <1>2 DEF SetUpNetface
  <2>2. \A i \in DOMAIN events' : events'[i] \in Netifs
    <3>1. CASE events' = events
      BY <3>1 DEF NoUdpInv
    <3>2. CASE events' = Append(events, n)
      BY <3>2 DEF NoUdpInv, TypeOK
    <3> QED BY <1>2, <3>1, <3>2 DEF SetUpNetface, Post
  <2> QED BY <1>t, <1>k, <2>1, <2>2 DEF NoUdpInv
<1>3. ASSUME NEW n \in Netifs, NetfaceReceive(n) PROVE OwnInv'
  <2>1. udp' = udp /\ boot' = boot /\ boot # "off"
    BY <1>3 DEF NetfaceReceive, Polling, appVars
  <2>2. \A i \in DOMAIN events' : events'[i] \in Netifs
    <3>1. /\ events \in Seq(Faces) /\ Len(events) <= EventSlots /\ events # <<>>
          /\ Head(events) = n /\ n \in Faces /\ events' = Post(Tail(events), n)
      BY <1>3 DEF NetfaceReceive, Polling, PostAgain, TypeOK, Faces
    <3>2. /\ DOMAIN events = 1 .. Len(events) /\ DOMAIN events' = 1 .. Len(events)
          /\ \A i \in 1 .. Len(events) - 1 : events'[i] = events[i + 1]
          /\ events'[Len(events)] = events[1]
          /\ Len(events) \in Nat /\ Len(events) > 0
      BY <3>1, PollAgain
    <3> QED BY <3>2 DEF NoUdpInv
  <2>3. NoUdpInv'
    BY <2>1, <2>2 DEF NoUdpInv
  <2> QED BY <1>t, <1>3, <2>3, PollKeepsOwned
<1>4. ASSUME NEW n \in Netifs, NEW state \in {"UP", "DOWN", "DESTROYED"},
             NetfaceSetState(n, state)
      PROVE  OwnInv'
  <2>1. UNCHANGED <<mbox, live, pkt, asker, fwd, udp, events, boot>>
    BY <1>4 DEF NetfaceSetState, appVars
  <2> QED BY <1>t, <1>k, <2>1 DEF NoUdpInv
<1>5. CASE AppOnUdp
  <2>1. ~ (UdpConstruct \/ UdpUp \/ UdpDown \/ UdpDestroy)
    BY DEF UdpConstruct, UdpUp, UdpDown, UdpDestroy, NoUdpInv
  <2>2. ~ UdpRecv
    BY NetifsAssumption DEF UdpRecv, Polling, NoUdpInv, TypeOK
  <2> QED BY <1>5, <2>1, <2>2 DEF AppOnUdp
<1>6. ASSUME NEW p \in Packet, Receive(p) PROVE OwnInv'
  <2>1. UNCHANGED <<fwd, udp, events, boot>> /\ boot # "off"
    BY <1>6 DEF Receive, Registered, appVars, NoUdpInv
  <2> QED BY <1>t, <1>6, <2>1, ReceiveKeepsOwned DEF NoUdpInv, FreshCalls
<1>7. ASSUME NEW m \in {Option, Other}, Ask(m) PROVE OwnInv'
  <2>1. UNCHANGED <<fwd, udp, events, boot>> /\ boot # "off"
    BY <1>7 DEF Ask, appVars
  <2> QED BY <1>t, <1>7, <2>1, AskKeepsOwned DEF NoUdpInv, FreshCalls
<1>8. CASE UNCHANGED vars
  BY <1>8, <1>t, <1>k DEF vars, NoUdpInv
<1>9. \A b \in Frames : [type |-> "NDN", body |-> b] \in Packet
  BY FramesAssumption DEF Packet
<1>10. [type |-> "UDP", body |-> Whole] \in Packet
  BY DEF Packet
<1> QED
  BY <1>1, <1>2, <1>3, <1>4, <1>5, <1>6, <1>7, <1>8, <1>9, <1>10
  DEF Next, AppOnNetface, Network

LEMMA OwnInvariant ==
  ASSUME ~ UdpEnabled
  PROVE  Spec => []OwnInv
<1>1. Init => OwnInv
  BY OwnInit
<1>2. OwnInv /\ [Next]_vars => OwnInv'
  BY OwnStep
<1> QED BY <1>1, <1>2, PTL DEF Spec

(* In a build without the UDP face no packet is released while its message *)
(* waits, and no two messages refer to one packet.                         *)
THEOREM PacketsAreOwned ==
  ASSUME ~ UdpEnabled
  PROVE  Spec => []PacketsOwned
<1>1. OwnInv => PacketsOwned
  BY DEF OwnInv
<1> QED BY <1>1, OwnInvariant, PTL

(* ... so that the forwarder is only ever given bytes that are in use, ... *)
THEOREM CallsAreFresh ==
  ASSUME ~ UdpEnabled
  PROVE  Spec => []FreshCalls
<1>1. OwnInv => FreshCalls
  BY DEF OwnInv
<1> QED BY <1>1, OwnInvariant, PTL

(* ... what is never given back to the packet buffer is no fragment, ...   *)
THEOREM FragmentsAreReleased ==
  ASSUME ~ UdpEnabled
  PROVE  Spec => []FragmentsReleased
<1>1. OwnInv => FragmentsReleased
  BY DEF OwnInv
<1> QED BY <1>1, OwnInvariant, PTL

(* ... and a blocked GET or SET is always still in the mailbox.            *)
THEOREM RequestsArePending ==
  ASSUME ~ UdpEnabled
  PROVE  Spec => []RequestPending
<1>1. OwnInv => RequestPending
  BY DEF OwnInv
<1> QED BY <1>1, OwnInvariant, PTL

-----------------------------------------------------------------------------
(* Polling moves on, and requests with it *)

(* A face is polled. *)
Poll == (\E n \in Netifs : NetfaceReceive(n)) \/ UdpRecv

(* A poll moves its own event to the tail of the queue and all others one  *)
(* place forward; nothing else moves an event or removes one.              *)
EventsRotate ==
  IF Poll
  THEN /\ Len(events') = Len(events)
       /\ \A i \in 1 .. Len(events) :
            events'[IF i = 1 THEN Len(events) ELSE i - 1] = events[i]
  ELSE \A i \in 1 .. Len(events) : i <= Len(events') /\ events'[i] = events[i]

(* The request of a waiting thread is answered by the poll that finds it   *)
(* at the head of the mailbox, moves one place towards it with every other *)
(* poll, whatever face is polled, and is never moved back.                 *)
RequestMoves ==
  \A k \in 1 .. Len(mbox) : asker = "waiting" /\ mbox[k].type = "OPTION" =>
    LET next == IF Poll THEN k - 1 ELSE k
    IN  IF next = 0
        THEN asker' = "idle"
        ELSE asker' = "waiting" /\ next <= Len(mbox') /\ mbox'[next].type = "OPTION"

LEMMA PollHead ==
  ASSUME TypeOK, Poll
  PROVE  \E f \in Faces : /\ events # <<>> /\ Head(events) = f
                          /\ events' = Post(Tail(events), f)
BY DEF Poll, NetfaceReceive, UdpRecv, Polling, PostAgain, Faces

LEMMA EventsStep == TypeOK /\ Next => EventsRotate
<1> SUFFICES ASSUME TypeOK, Next PROVE EventsRotate
  OBVIOUS
<1>1. events \in Seq(Faces) /\ Len(events) <= EventSlots /\ Len(events) \in Nat
  BY DEF TypeOK
<1>2. CASE Poll
  <2>1. PICK f \in Faces : /\ events # <<>> /\ Head(events) = f
                           /\ events' = Post(Tail(events), f)
    BY <1>2, PollHead
  <2>2. /\ Len(events') = Len(events) /\ Len(events) > 0
        /\ \A i \in 1 .. Len(events) - 1 : events'[i] = events[i + 1]
        /\ events'[Len(events)] = events[1]
    BY <1>1, <2>1, PollAgain
  <2>3. ASSUME NEW i \in 1 .. Len(events), i # 1 PROVE events'[i - 1] = events[i]
    <3>1. i - 1 \in 1 .. Len(events) - 1 /\ (i - 1) + 1 = i
      BY <1>1, <2>3
    <3> QED BY <2>2, <3>1
  <2> QED BY <1>2, <2>2, <2>3 DEF EventsRotate
<1>3. ASSUME UNCHANGED events \/ \E f \in Faces : events' = Post(events, f)
      PROVE  \A i \in 1 .. Len(events) : i <= Len(events') /\ events'[i] = events[i]
  <2>1. CASE UNCHANGED events
    BY <1>1, <2>1
  <2>2. ASSUME NEW f \in Faces, events' = Post(events, f)
        PROVE  \A i \in 1 .. Len(events) : i <= Len(events') /\ events'[i] = events[i]
    <3>1. /\ Len(events') >= Len(events) /\ events' \in Seq(Faces)
          /\ \A i \in 1 .. Len(events) : events'[i] = events[i]
      BY <1>1, <2>2, PostFacts
    <3> QED BY <1>1, <3>1
  <2> QED BY <1>3, <2>1, <2>2
<1>4. CASE ~ Poll
  <2>1. UNCHANGED events \/ \E f \in Faces : events' = Post(events, f)
    BY <1>4 DEF Next, AppOnNetface, AppOnUdp, Network, Poll, AutoConstruct, SetUpNetface,
                NetfaceSetState, UdpConstruct, UdpUp, UdpDown, UdpDestroy, Receive, Ask, Faces
  <2> QED BY <1>3, <1>4, <2>1 DEF EventsRotate
<1> QED BY <1>2, <1>4

LEMMA RequestStep == ~ UdpEnabled /\ OwnInv /\ Next => RequestMoves
<1> SUFFICES ASSUME ~ UdpEnabled, OwnInv, Next,
                    NEW k \in 1 .. Len(mbox), asker = "waiting", mbox[k].type = "OPTION"
             PROVE  LET next == IF Poll THEN k - 1 ELSE k
                    IN  IF next = 0
                        THEN asker' = "idle"
                        ELSE asker' = "waiting" /\ next <= Len(mbox') /\ mbox'[next].type = "OPTION"
  BY DEF RequestMoves
<1>1. /\ TypeOK /\ NoUdpInv /\ RequestPending /\ mbox \in Seq(Message) /\ Len(mbox) \in Nat
      /\ DOMAIN mbox = 1 .. Len(mbox) /\ Len(mbox) > 0
  BY DEF OwnInv, TypeOK
<1>2. ~ UdpRecv /\ ~ UdpConstruct
  BY <1>1, NetifsAssumption DEF UdpRecv, UdpConstruct, Polling, NoUdpInv, TypeOK
<1>3. CASE Poll
  <2>1. PICK n \in Netifs : NetfaceReceive(n)
    BY <1>2, <1>3 DEF Poll
  <2>2. mbox # <<>> /\ mbox' = Tail(mbox) /\ NetfaceHandle(n, mbox[1])
    BY <1>1, <2>1 DEF NetfaceReceive
  <2>3. CASE k = 1
    <3>1. asker' = "idle"
      BY <2>2, <2>3 DEF NetfaceHandle, ReplyNotSupported
    <3> QED BY <1>3, <2>3, <3>1
  <2>4. CASE k # 1
    <3>1. mbox[1].type # "OPTION"
      <4>1. 1 \in DOMAIN mbox /\ k \in DOMAIN mbox
        BY <1>1
      <4>2. PICK i \in DOMAIN mbox : {j \in DOMAIN mbox : mbox[j].type = "OPTION"} = {i}
        BY <1>1 DEF RequestPending
      <4> QED BY <2>4, <4>1, <4>2
    <3>2. asker' = "waiting"
      BY <2>2, <3>1 DEF NetfaceHandle, Ignore
    <3>3. k - 1 \in 1 .. Len(mbox) - 1 /\ (k - 1) + 1 = k
      BY <1>1, <2>4
    <3>4. Len(Tail(mbox)) = Len(mbox) - 1 /\ \A i \in 1 .. Len(mbox) - 1 : Tail(mbox)[i] = mbox[i + 1]
      BY <1>1
    <3>5. k - 1 <= Len(mbox') /\ mbox'[k - 1] = mbox[k] /\ k - 1 # 0
      BY <1>1, <2>2, <3>3, <3>4
    <3> QED BY <1>3, <3>2, <3>5
  <2> QED BY <2>3, <2>4
<1>4. CASE ~ Poll
  <2>1. boot # "off"
    BY <1>1 DEF NoUdpInv
  <2>2. ~ AutoConstruct
    BY <2>1 DEF AutoConstruct
  <2>3. /\ asker' = "waiting"
        /\ UNCHANGED mbox \/ \E m \in Message : mbox' = Append(mbox, m)
    <3>1. ASSUME NEW p \in Packet, Receive(p)
          PROVE  asker' = "waiting" /\ \E m \in Message : mbox' = Append(mbox, m)
      BY <3>1 DEF Receive, Message
    <3>2. ASSUME NEW m \in {Option, Other}, Ask(m)
          PROVE  asker' = "waiting" /\ mbox' = Append(mbox, m) /\ m \in Message
      BY <3>2 DEF Ask, Message
    <3>3. \A b \in Frames : [type |-> "NDN", body |-> b] \in Packet
      BY FramesAssumption DEF Packet
    <3>4. [type |-> "UDP", body |-> Whole] \in Packet
      BY DEF Packet
    <3>5. CASE Network
      BY <3>1, <3>2, <3>3, <3>4, <3>5 DEF Network
    <3>6. CASE ~ Network
      BY <1>2, <1>4, <2>2, <3>6
      DEF Next, AppOnNetface, AppOnUdp, Poll, SetUpNetface, NetfaceSetState, UdpUp, UdpDown,
          UdpDestroy
    <3> QED BY <3>5, <3>6
  <2>4. k <= Len(mbox') /\ mbox'[k] = mbox[k]
    BY <1>1, <2>3
  <2>5. k # 0
    BY <1>1
  <2> QED BY <1>4, <2>3, <2>4, <2>5
<1> QED BY <1>3, <1>4

(* Polling is fair by itself: an event is never lost or overtaken, so that *)
(* a face that has one is polled again within as many polls as the queue   *)
(* holds events, whatever is constructed, brought up or down meanwhile.    *)
THEOREM PollingRotates == Spec => [][EventsRotate]_vars
<1>1. TypeOK /\ [Next]_vars => [EventsRotate]_vars
  BY EventsStep
<1> QED BY <1>1, TypeCorrect, PTL DEF Spec

(* Without the UDP face, a blocked GET or SET is answered within as many   *)
(* polls as there are messages up to it in the mailbox.                    *)
THEOREM RequestsMoveForward ==
  ASSUME ~ UdpEnabled
  PROVE  Spec => [][RequestMoves]_vars
<1>1. OwnInv /\ [Next]_vars => [RequestMoves]_vars
  BY RequestStep
<1> QED BY <1>1, OwnInvariant, PTL DEF Spec

=============================================================================
