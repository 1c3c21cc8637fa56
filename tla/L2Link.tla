------------------------------- MODULE L2Link -------------------------------
(***************************************************************************)
(* Nodes that send packets over one link, and one node that receives them: *)
(* ndn_netface_send and the loop of ndn_l2_send_fragments at the senders,  *)
(* ndn_l2_process_packet and the assemblers of its faces at the receiver.  *)
(* All faces poll the mailbox of the one forwarder thread, so that a frame *)
(* is taken by any of them, whichever interface it came in at (see         *)
(* NetfaceRx).                                                             *)
(*                                                                         *)
(* Frames are broadcast (l2.c:50), so that nothing is acknowledged or sent *)
(* again: those of one sender arrive in their order, with gaps, and those  *)
(* of several senders arrive interleaved.  A sender that cannot allocate   *)
(* or hand over a frame gives the rest of its packet up.                   *)
(***************************************************************************)
EXTENDS L2Frag, Sequences

CONSTANTS
  Senders,
  Faces,      \* of the receiver
  Packets,    \* the sendings of packets, each made at most once
  Size,       \* their sizes
  Mtu,
  Failures,   \* whether frames are lost and packets given up
  Garbled     \* bytes that are not one of the packets

ASSUME SizeAssumption == Size \in [Packets -> Nat \ {0}]
ASSUME MtuAssumption == Mtu \in Nat
ASSUME FailuresAssumption == Failures \in BOOLEAN

Nothing == "nothing"

ASSUME OtherAssumption == Garbled \notin Packets /\ Nothing \notin Packets

VARIABLES
  sent,       \* the packets whose sending began
  ids,        \* the identifiers drawn for those that are fragmented
  sending,    \* the packet each sender is at, if any,
  next,       \* and the number of its next frame
  air,        \* the frames of each sender on their way
  assembler,  \* the assembler of each receiving face,
  content,    \* and the frames whose bytes are in its frag_buffer, up to the offset
  log         \* the packets that ndn_forwarder_receive got

vars == <<sent, ids, sending, next, air, assembler, content, log>>
txVars == <<sent, ids, sending, next>>

(* A frame is a packet and a number.  A packet that fits the MTU is one    *)
(* frame without a fragment header.                                        *)
Fragmented(p) == Size[p] > Mtu
Total(p) == IF Fragmented(p) THEN FragTotal(Size[p], Mtu) ELSE 1
Sendable(p) == Fragmented(p) => Fragmentable(Size[p], Mtu)

Frame(p, k) == [pkt |-> p, seq |-> k]
FramesOf(p) == {Frame(p, k) : k \in 0 .. Total(p) - 1}
AllFrames(p) == [i \in 1 .. Total(p) |-> Frame(p, i - 1)]

(* What the receiver reads in the header of a fragment, and its length. *)
Header(f) ==
  [id   |-> ids[f.pkt],
   seq  |-> f.seq,
   last |-> f.seq = Total(f.pkt) - 1,
   len  |-> FragFrameSize(Size[f.pkt], Mtu, f.seq, f.seq * (Mtu - HdrLen)) - HdrLen]

Init ==
  /\ sent = {}
  /\ ids = [p \in Packets |-> NoId]
  /\ sending = [n \in Senders |-> Nothing]
  /\ next = [n \in Senders |-> 0]
  /\ air = [n \in Senders |-> <<>>]
  /\ assembler = [i \in Faces |-> AssemblerInit]
  /\ content = [i \in Faces |-> <<>>]
  /\ log = <<>>

-----------------------------------------------------------------------------
(* Senders *)

(* Only ndn_l2_send_fragments draws an identifier. *)
StartSend(n, p, id) ==
  /\ sending[n] = Nothing
  /\ p \notin sent /\ Sendable(p)
  /\ sent' = sent \cup {p}
  /\ ids' = [ids EXCEPT ![p] = IF Fragmented(p) THEN id ELSE NoId]
  /\ sending' = [sending EXCEPT ![n] = p]
  /\ next' = [next EXCEPT ![n] = 0]
  /\ UNCHANGED <<air, assembler, content, log>>

(* A frame goes to the interface; the last one ends the call. *)
SendFrame(n) ==
  /\ sending[n] # Nothing
  /\ air' = [air EXCEPT ![n] = Append(@, Frame(sending[n], next[n]))]
  /\ next' = [next EXCEPT ![n] = @ + 1]
  /\ sending' = [sending EXCEPT ![n] =
                   IF next[n] + 1 < Total(sending[n]) THEN @ ELSE Nothing]
  /\ UNCHANGED <<sent, ids, assembler, content, log>>

GiveUp(n) ==
  /\ Failures
  /\ sending[n] # Nothing
  /\ sending' = [sending EXCEPT ![n] = Nothing]
  /\ UNCHANGED <<sent, ids, next, air, assembler, content, log>>

-----------------------------------------------------------------------------
(* The link and the receiver *)

Lose(n) ==
  /\ Failures
  /\ air[n] # <<>>
  /\ air' = [air EXCEPT ![n] = Tail(@)]
  /\ UNCHANGED <<txVars, assembler, content, log>>

(* ndn_forwarder_receive gets the bytes of these frames. *)
Meaning(c) == IF \E p \in Packets : c = AllFrames(p)
              THEN CHOOSE p \in Packets : c = AllFrames(p)
              ELSE Garbled

Deliver(c) == log' = Append(log, Meaning(c))

(* The bytes in the buffer of a face when frame f took its assembler to b. *)
Copied(i, b, f) ==
  IF b = assembler[i] THEN content[i]
  ELSE IF b.seq = 1 THEN <<f>> ELSE Append(content[i], f)

Keep(i, b, c) ==
  /\ assembler' = [assembler EXCEPT ![i] = b]
  /\ content' = [content EXCEPT ![i] = c]

(* Variants: the buffer is passed on although the packet is not finished;  *)
(* the assembler is not initialised again; the faces share their buffer.   *)
ReceiveFragmentEarly(i, f) ==
  \E b \in AssembleFrag(assembler[i], Header(f)) :
    Deliver(Copied(i, b, f)) /\ Keep(i, AssemblerInit, <<>>)

ReceiveFragmentOnce(i, f) ==
  \E b \in AssembleFrag(assembler[i], Header(f)) :
    LET c == Copied(i, b, f)
    IN  Keep(i, b, c) /\ IF b.finished THEN Deliver(c) ELSE UNCHANGED log

ReceiveFragmentShared(i, f) ==
  \E b \in AssembleFrag(assembler[i], Header(f)) :
    LET c == Copied(i, b, f)
    IN  /\ assembler' = [assembler EXCEPT ![i] = IF b.finished THEN AssemblerInit ELSE b]
        /\ content' = [j \in Faces |-> IF b.finished THEN <<>> ELSE c]
        /\ IF b.finished THEN Deliver(c) ELSE UNCHANGED log

(* The fragment branch of ndn_l2_process_packet. *)
ReceiveFragment(i, f) ==
  \E b \in AssembleFrag(assembler[i], Header(f)) :
    LET c == Copied(i, b, f)
    IN  IF b.finished
        THEN Deliver(c) /\ Keep(i, AssemblerInit, <<>>)
        ELSE Keep(i, b, c) /\ UNCHANGED log

ReceiveWhole(f) == Deliver(<<f>>) /\ UNCHANGED <<assembler, content>>

Receive(n, i) ==
  /\ air[n] # <<>>
  /\ air' = [air EXCEPT ![n] = Tail(@)]
  /\ LET f == Head(air[n])
     IN  IF Fragmented(f.pkt) THEN ReceiveFragment(i, f) ELSE ReceiveWhole(f)
  /\ UNCHANGED txVars

-----------------------------------------------------------------------------
Sender(n) ==
  \/ \E p \in Packets, id \in FragIds : StartSend(n, p, id)
  \/ SendFrame(n)
  \/ GiveUp(n)

Next == \E n \in Senders : Sender(n) \/ Lose(n) \/ \E i \in Faces : Receive(n, i)

Spec == Init /\ [][Next]_vars

(* A call in progress runs on, and the receiver keeps polling.             *)
FairSpec ==
  /\ Spec
  /\ \A n \in Senders : WF_vars(SendFrame(n)) /\ WF_vars(\E i \in Faces : Receive(n, i))

-----------------------------------------------------------------------------
(* Properties *)

FrameType == {Frame(p, k) : p \in Packets, k \in 0 .. MaxFrags - 1}

(* Assemblers keep within their buffer, and frames within their header.    *)
TypeOK ==
  /\ sent \subseteq Packets
  /\ ids \in [Packets -> FragIds \cup {NoId}]
  /\ sending \in [Senders -> Packets \cup {Nothing}]
  /\ next \in [Senders -> 0 .. MaxFrags]
  /\ air \in [Senders -> Seq(FrameType)]
  /\ assembler \in [Faces -> Assembler]
  /\ content \in [Faces -> Seq(FrameType)]
  /\ log \in Seq(Packets \cup {Garbled})

Collision == \E p, q \in sent : p # q /\ ids[p] = ids[q] /\ ids[p] # NoId

(* Bytes of two packets are mixed only if two packets drew the same        *)
(* identifier: no loss, no packet given up half-way, no interleaving of    *)
(* senders and no scattering over the receiver's faces does it.            *)
GarbledOnlyOnCollision ==
  (\E i \in 1 .. Len(log) : log[i] = Garbled) => Collision

(* A packet is delivered as one that was sent, whole, and once; when two   *)
(* identifiers collide, the one thing more that may happen is that bytes   *)
(* are delivered which are no packet.                                      *)
Service == INSTANCE PacketService
             WITH Packets <- Packets, Garbled <- Garbled,
                  sent <- sent, log <- log, collided <- Collision
ImplementsService == Service!Spec

(* On a link without losses, with one sender whose packets all fit the     *)
(* re-assembly buffer of the one face, every packet whose sending began    *)
(* arrives, also when two packets in a row drew the same identifier.       *)
ReliablyDelivered ==
  \A p \in Packets : p \in sent ~> \E i \in 1 .. Len(log) : log[i] = p

=============================================================================
