----------------------------- MODULE NetfaceRx -----------------------------
(***************************************************************************)
(* The receiving half of the adaptation layer, from ndn_lite_startup on:   *)
(* the link-layer faces of adaptation/gnrc-netface and the UDP face of     *)
(* adaptation/gnrc-udp in the one application thread that polls them.      *)
(*                                                                         *)
(* RIOT's network threads put received packets into the packet buffer and  *)
(* a message for each into the mailbox of the application thread.  All     *)
(* faces share that mailbox.  A face is polled by an event in ndn-lite's   *)
(* message queue: its handler takes at most one message, whosever it is,   *)
(* and posts the event again.                                              *)
(*                                                                         *)
(* A handler is one action.  What the network threads do while it runs     *)
(* they could as well do before it, or is the loss of a frame.             *)
(***************************************************************************)
EXTENDS L2Frag, Sequences, FiniteSets

CONSTANTS
  Netifs,      \* the link-layer interfaces of the node
  UdpFace,     \* the UDP face
  UdpEnabled,  \* the build option NDN_DISABLE_UDP is 0
  Slots,       \* the packets the packet buffer has room for
  MboxSize,    \* MAX_NET_QUEUE_SIZE
  EventSlots,  \* the events ndn-lite's message queue has room for
  Whole,       \* the body of a packet that is not a fragment
  Frames       \* the bodies of the NDN packets that may arrive

ASSUME NetifsAssumption == IsFiniteSet(Netifs) /\ UdpFace \notin Netifs
ASSUME UdpEnabledAssumption == UdpEnabled \in BOOLEAN
ASSUME WholeAssumption == Whole \notin Fragment
ASSUME FramesAssumption == Frames \subseteq Fragment \cup {Whole}
ASSUME MboxAssumption == MboxSize \in Nat \ {0}
\* The queue has room for an event of every face.
ASSUME EventSlotsAssumption == EventSlots \in Nat /\ EventSlots > Cardinality(Netifs) + 1

VARIABLES
  boot,        \* progress of ndn_lite_startup
  toSetUp,     \* the interfaces ndn_netface_auto_construct has still to visit
  netfaceNum,  \* the value ndn_netface_auto_construct returned
  netface,     \* _netface_table, by interface
  udp,         \* udp_face, and whether it is in the network registry
  mbox,        \* the message queue of the application thread
  live,        \* the slots of the packet buffer in use
  pkt,         \* what the slots hold; a released slot keeps its old bytes
  events,      \* ndn-lite's message queue: the faces to poll
  stale,       \* the stack bytes ndn_udp_face_recv's "msg" is made of
  asker,       \* another thread, waiting or not for the answer to a GET/SET
  fwd          \* what the last handler passed to ndn_forwarder_receive

vars == <<boot, toSetUp, netfaceNum, netface, udp, mbox, live, pkt, events,
          stale, asker, fwd>>
appVars == <<boot, toSetUp, netfaceNum>>

Faces == Netifs \cup {UdpFace}

Packet == [type : {"NDN"}, body : Fragment \cup {Whole}]
            \cup [type : {"UDP"}, body : {Whole}]

(* msg_t: a received packet, a GET or SET of an option, a type that the    *)
(* handlers do nothing for, or bytes that were never a message.            *)
Rcv(s)  == [type |-> "RCV", pkt |-> s]
Option  == [type |-> "OPTION"]
Other   == [type |-> "SND"]
Garbage == [type |-> "NONE"]
Message == {Rcv(s) : s \in Slots} \cup {Option, Other}

NoCall == [face |-> "none"]
Call(f, type, fresh) == [face |-> f, type |-> type, fresh |-> fresh]

FaceState == {"UNSET", "DOWN", "UP", "DESTROYED"}

(* Variant: the queue's capacity is not respected.                         *)
PostUnbounded(q, f) == Append(q, f)

(* ndn_msgqueue_post: refused when the queue is full, and every caller     *)
(* ignores that.                                                           *)
Post(q, f) == IF Len(q) < EventSlots THEN Append(q, f) ELSE q

Init ==
  /\ boot = "off"
  /\ toSetUp = Netifs
  /\ netfaceNum = 0
  /\ netface = [n \in Netifs |-> [state |-> "UNSET", registered |-> FALSE,
                                  assembler |-> AssemblerInit]]
  /\ udp = [state |-> "UNSET", registered |-> FALSE, netreg |-> FALSE]
  /\ mbox = <<>>
  /\ live = {}
  /\ pkt = [s \in Slots |-> [type |-> "UDP", body |-> Whole]]
  /\ events = <<>>
  /\ stale = Garbage
  /\ asker = "idle"
  /\ fwd = NoCall

-----------------------------------------------------------------------------
(* ndn_netface_auto_construct *)

(* The thread gets its mailbox and is registered for NDN packets.          *)
AutoConstruct ==
  /\ boot = "off"
  /\ mbox' = <<>>
  /\ IF Netifs = {}
     THEN boot' = "running" /\ netfaceNum' = -1
     ELSE boot' = "netfaces" /\ UNCHANGED netfaceNum
  /\ UNCHANGED <<toSetUp, netface, udp, live, pkt, events, stale, asker, fwd>>

(* One pass of the loop over the interfaces.  The MTU may be unavailable,  *)
(* and the forwarder may refuse the face, which the code does not look at. *)
SetUpNetface(n) ==
  /\ boot = "netfaces"
  /\ n \in toSetUp
  /\ toSetUp' = toSetUp \ {n}
  /\ IF toSetUp' = {}
     THEN boot' = "running" /\ netfaceNum' = Cardinality(Netifs)
     ELSE UNCHANGED <<boot, netfaceNum>>
  /\ \/ UNCHANGED <<netface, events>>
     \/ \E ok \in BOOLEAN :
          /\ netface' = [netface EXCEPT ![n] =
                           [state |-> "UP", registered |-> ok, assembler |-> AssemblerInit]]
          /\ events' = Post(events, n)
  /\ UNCHANGED <<udp, mbox, live, pkt, stale, asker, fwd>>

(* Variant: bringing a face up posts its event, as the UDP face does.      *)
NetfaceUpPosts(n, state) ==
  /\ boot = "running"
  /\ netface[n].state # "UNSET"
  /\ netface' = [netface EXCEPT ![n].state = state]
  /\ events' = IF state = "UP" THEN Post(events, n) ELSE events
  /\ UNCHANGED <<appVars, udp, mbox, live, pkt, stale, asker, fwd>>

(* ndn_netface_up, _down and _destroy: the event and the assembler of the  *)
(* face are left alone.                                                    *)
NetfaceSetState(n, state) ==
  /\ boot = "running"
  /\ netface[n].state # "UNSET"
  /\ netface' = [netface EXCEPT ![n].state = state]
  /\ UNCHANGED <<appVars, udp, mbox, live, pkt, events, stale, asker, fwd>>

-----------------------------------------------------------------------------
(* The UDP face *)

(* Variant: the face is marked up without calling ndn_face_up.             *)
UdpConstructUnposted ==
  /\ UdpEnabled /\ boot = "running"
  /\ mbox' = <<>>
  /\ udp' = [state |-> "UP", registered |-> TRUE, netreg |-> TRUE]
  /\ UNCHANGED <<appVars, netface, live, pkt, events, stale, asker, fwd>>

(* ndn_udp_face_construct.  It gives the thread a new mailbox, also when   *)
(* the face was constructed before.  If the forwarder refuses the face, it *)
(* stays what it was.                                                      *)
UdpConstruct ==
  /\ UdpEnabled /\ boot = "running"
  /\ mbox' = <<>>
  /\ \/ /\ udp' = [state |-> "UP", registered |-> TRUE, netreg |-> TRUE]
        /\ events' = Post(events, UdpFace)
     \/ /\ udp' = [udp EXCEPT !.netreg = TRUE]
        /\ UNCHANGED events
  /\ UNCHANGED <<appVars, netface, live, pkt, stale, asker, fwd>>

UdpUp ==
  /\ udp.registered
  /\ events' = Post(events, UdpFace)
  /\ udp' = [udp EXCEPT !.state = "UP"]
  /\ UNCHANGED <<appVars, netface, mbox, live, pkt, stale, asker, fwd>>

UdpDown ==
  /\ udp.registered
  /\ udp' = [udp EXCEPT !.state = "DOWN"]
  /\ UNCHANGED <<appVars, netface, mbox, live, pkt, events, stale, asker, fwd>>

UdpDestroy ==
  /\ udp.registered
  /\ udp' = [state |-> "DOWN", registered |-> FALSE, netreg |-> FALSE]
  /\ UNCHANGED <<appVars, netface, mbox, live, pkt, events, stale, asker, fwd>>

-----------------------------------------------------------------------------
(* The network threads.  With a full mailbox or packet buffer the frame is *)
(* dropped, and nothing changes.                                           *)

Registered(type) ==
  IF type = "NDN" THEN boot # "off" ELSE udp.netreg

Receive(p) ==
  /\ Registered(p.type)
  /\ Len(mbox) < MboxSize
  /\ \E s \in Slots \ live :
       /\ live' = live \cup {s}
       /\ pkt' = [pkt EXCEPT ![s] = p]
       /\ mbox' = Append(mbox, Rcv(s))
  /\ UNCHANGED <<appVars, netface, udp, events, stale, asker, fwd>>

(* Another thread asks for an option and blocks, or sends anything else.   *)
Ask(m) ==
  /\ boot # "off"
  /\ Len(mbox) < MboxSize
  /\ m = Option => asker = "idle"
  /\ asker' = IF m = Option THEN "waiting" ELSE asker
  /\ mbox' = Append(mbox, m)
  /\ UNCHANGED <<appVars, netface, udp, live, pkt, events, stale, fwd>>

-----------------------------------------------------------------------------
(* The handlers.  What a message makes a handler do does not depend on     *)
(* whether the message is for the handler's face.                          *)

Release(s) == live' = live \ {s}

(* Variants: every packet is released, but before it is passed on; a       *)
(* fragment is released in the "is_finished" branch only.                  *)
ProcessPacketEarlyRelease(n, s) ==
  /\ Release(s)
  /\ fwd' = Call(n, "NDN", s \in live')
  /\ UNCHANGED netface

ProcessPacketLateRelease(n, s) ==
  /\ pkt[s].body # Whole
  /\ \E a \in AssembleFrag(netface[n].assembler, pkt[s].body) :
       /\ netface' = [netface EXCEPT ![n].assembler =
                        IF a.finished THEN AssemblerInit ELSE a]
       /\ live' = IF a.finished THEN live \ {s} ELSE live
       /\ fwd' = IF a.finished THEN Call(n, "NDN", TRUE) ELSE NoCall

(* ndn_l2_process_packet: only a fragment gives its packet back. *)
ProcessPacket(n, s) ==
  \/ /\ pkt[s].type # "NDN"
     /\ fwd' = NoCall
     /\ UNCHANGED <<netface, live>>
  \/ /\ pkt[s].type = "NDN" /\ pkt[s].body = Whole
     /\ fwd' = Call(n, "NDN", s \in live)
     /\ UNCHANGED <<netface, live>>
  \/ /\ pkt[s].type = "NDN" /\ pkt[s].body # Whole
     /\ Release(s)
     /\ \E a \in AssembleFrag(netface[n].assembler, pkt[s].body) :
          /\ netface' = [netface EXCEPT ![n].assembler =
                           IF a.finished THEN AssemblerInit ELSE a]
          /\ fwd' = IF a.finished THEN Call(n, "NDN", TRUE) ELSE NoCall

(* Variant: the reply is prepared and never sent.                          *)
NoReply ==
  /\ fwd' = NoCall
  /\ UNCHANGED <<netface, live, asker>>

(* The GET and SET case of both handlers. *)
ReplyNotSupported ==
  /\ asker' = "idle"
  /\ fwd' = NoCall
  /\ UNCHANGED <<netface, live>>

Ignore ==
  /\ fwd' = NoCall
  /\ UNCHANGED <<netface, live, asker>>

NetfaceHandle(n, m) ==
  \/ m.type = "RCV" /\ ProcessPacket(n, m.pkt) /\ UNCHANGED asker
  \/ m.type = "OPTION" /\ ReplyNotSupported
  \/ m.type \notin {"RCV", "OPTION"} /\ Ignore

Polling(f) == boot = "running" /\ events # <<>> /\ Head(events) = f

(* Variant: the early return of an empty mailbox does not post.            *)
PostAgainAfterMessage(f) ==
  events' = IF mbox = <<>> THEN Tail(events) ELSE Post(Tail(events), f)

PostAgain(f) == events' = Post(Tail(events), f)

(* Variants: a message is put back for the other faces; a face that is not *)
(* up takes nothing.                                                       *)
NetfaceReceivePutsBack(n) ==
  /\ Polling(n) /\ mbox # <<>>
  /\ mbox' = Append(Tail(mbox), Head(mbox)) /\ NetfaceHandle(n, Head(mbox))
  /\ PostAgain(n)
  /\ UNCHANGED <<appVars, udp, pkt, stale>>

NetfaceReceiveOnlyUp(n) ==
  /\ Polling(n)
  /\ \/ (mbox = <<>> \/ netface[n].state # "UP") /\ Ignore /\ UNCHANGED mbox
     \/ /\ mbox # <<>> /\ netface[n].state = "UP"
        /\ mbox' = Tail(mbox) /\ NetfaceHandle(n, Head(mbox))
  /\ PostAgain(n)
  /\ UNCHANGED <<appVars, udp, pkt, stale>>

NetfaceReceive(n) ==
  /\ Polling(n)
  /\ \/ mbox = <<>> /\ Ignore /\ UNCHANGED mbox
     \/ mbox # <<>> /\ mbox' = Tail(mbox) /\ NetfaceHandle(n, Head(mbox))
  /\ PostAgain(n)
  /\ UNCHANGED <<appVars, udp, pkt, stale>>

(* A packet is handed over whatever its type is, and released. *)
UdpHandle(m) ==
  \/ /\ m.type = "RCV"
     /\ fwd' = Call(UdpFace, pkt[m.pkt].type, m.pkt \in live)
     /\ Release(m.pkt)
     /\ UNCHANGED <<netface, asker>>
  \/ m.type = "OPTION" /\ ReplyNotSupported
  \/ m.type \notin {"RCV", "OPTION"} /\ Ignore

(* Variant: a face that is not up takes nothing.                           *)
UdpRecvOnlyUp ==
  /\ Polling(UdpFace)
  /\ IF mbox # <<>> /\ udp.state = "UP"
     THEN mbox' = Tail(mbox) /\ stale' = Head(mbox) /\ UdpHandle(Head(mbox))
     ELSE Ignore /\ UNCHANGED <<mbox, stale>>
  /\ PostAgain(UdpFace)
  /\ UNCHANGED <<appVars, udp, pkt>>

(* msg_try_receive leaves msg alone when there is no message, and its      *)
(* result is not looked at: msg is then what the stack held, the message   *)
(* of an earlier call or anything else.                                    *)
UdpRecv ==
  /\ Polling(UdpFace)
  /\ \/ /\ mbox # <<>>
        /\ mbox' = Tail(mbox)
        /\ stale' = Head(mbox)
        /\ UdpHandle(Head(mbox))
     \/ /\ mbox = <<>>
        /\ \E m \in {stale, Garbage} : stale' = m /\ UdpHandle(m)
        /\ UNCHANGED mbox
  /\ PostAgain(UdpFace)
  /\ UNCHANGED <<appVars, udp, pkt>>

-----------------------------------------------------------------------------
AppOnNetface(n) ==
  \/ SetUpNetface(n)
  \/ NetfaceReceive(n)
  \/ \E state \in {"UP", "DOWN", "DESTROYED"} : NetfaceSetState(n, state)

AppOnUdp == UdpConstruct \/ UdpUp \/ UdpDown \/ UdpDestroy \/ UdpRecv

Network ==
  \/ \E b \in Frames : Receive([type |-> "NDN", body |-> b])
  \/ Receive([type |-> "UDP", body |-> Whole])
  \/ \E m \in {Option, Other} : Ask(m)

Next ==
  \/ AutoConstruct
  \/ \E n \in Netifs : AppOnNetface(n)
  \/ AppOnUdp
  \/ Network

Spec == Init /\ [][Next]_vars

(* The application calls ndn_lite_startup, and then ndn_forwarder_process  *)
(* over and over.                                                          *)
Fairness ==
  /\ WF_vars(AutoConstruct)
  /\ \A n \in Netifs : WF_vars(SetUpNetface(n)) /\ WF_vars(NetfaceReceive(n))
  /\ WF_vars(UdpRecv)

FairSpec == Spec /\ Fairness

-----------------------------------------------------------------------------
(* Properties *)

CallRecord == [face : Faces, type : {"NDN", "UDP"}, fresh : BOOLEAN]

(* Every variable has the type of the C object it stands for. *)
TypeOK ==
  /\ boot \in {"off", "netfaces", "running"}
  /\ toSetUp \subseteq Netifs
  /\ netfaceNum \in Int
  /\ netface \in [Netifs -> [state : FaceState, registered : BOOLEAN, assembler : Assembler]]
  /\ udp \in [state : {"UNSET", "DOWN", "UP"}, registered : BOOLEAN, netreg : BOOLEAN]
  /\ mbox \in Seq(Message) /\ Len(mbox) <= MboxSize
  /\ live \subseteq Slots
  /\ pkt \in [Slots -> Packet]
  /\ events \in Seq(Faces) /\ Len(events) <= EventSlots
  /\ stale \in Message \cup {Garbage}
  /\ asker \in {"idle", "waiting"}
  /\ fwd \in CallRecord \cup {NoCall}

Polls(f) == {i \in DOMAIN events : events[i] = f}

(* The handler of a link-layer face posts its own successor.  Along every  *)
(* path through it, and through the set-up loop, a face that was set up    *)
(* keeps exactly one event: with none it is deaf for good, with two it     *)
(* takes the other faces' share of the mailbox.                            *)
OnePoller ==
  \A n \in Netifs :
    IF netface[n].state = "UNSET" THEN Polls(n) = {} ELSE \E i \in DOMAIN events : Polls(n) = {i}

(* A UDP face that is up is polled, whatever calls of construct, up, down  *)
(* and destroy brought it there and however full they left the queue.      *)
UdpPolled == udp.state = "UP" => Polls(UdpFace) # {}

Received == {i \in DOMAIN mbox : mbox[i].type = "RCV"}

(* A packet whose message waits in the mailbox is in the packet buffer,    *)
(* and is the packet of no other message: no handler released it or keeps  *)
(* a second reference to it.                                               *)
PacketsOwned ==
  \A i \in Received :
    /\ mbox[i].pkt \in live
    /\ \A j \in Received : mbox[i].pkt = mbox[j].pkt => i = j

(* The bytes given to ndn_forwarder_receive are those of a packet in use.  *)
FreshCalls == fwd # NoCall => fwd.fresh

(* Only packets that are no fragments are ever held after their message    *)
(* was taken from the mailbox.                                             *)
FragmentsReleased ==
  \A s \in live : pkt[s].body # Whole => \E i \in Received : mbox[i].pkt = s

(* A thread that is blocked in a GET or SET has its one request in the     *)
(* mailbox, so that some handler will answer it.                           *)
RequestPending ==
  LET requests == {i \in DOMAIN mbox : mbox[i].type = "OPTION"}
  IN  IF asker = "waiting" THEN \E i \in DOMAIN mbox : requests = {i} ELSE requests = {}

(* A mailbox that is full, so that frames are lost, is polled until it has *)
(* room again, as long as some face is polled at all.                      *)
FullMailboxDrains ==
  (events # <<>> /\ Len(mbox) = MboxSize) ~> (Len(mbox) < MboxSize)

(* A GET or SET is answered, as long as some face is polled.               *)
OptionAnswered == (events # <<>> /\ asker = "waiting") ~> (asker = "idle")

-----------------------------------------------------------------------------
(* What comments and documents say, and the code does not do.              *)

(* README.md:42, of the predecessor, "After significant amount of time,    *)
(* application can never successfully apply for a buffer": not here, so    *)
(* that with an empty mailbox the packet buffer has room.                  *)
BufferRecovers == mbox = <<>> => live # Slots

(* udp.c:39 "catch the received packet": the packet the UDP face passes on *)
(* is one that was received, not one that was released before.             *)
UdpCatchesReceived == fwd.face = UdpFace => fwd.fresh

=============================================================================
