------------------------------- MODULE FaceTx -------------------------------
(***************************************************************************)
(* The sending half of the adaptation layer: ndn_netface_send with the     *)
(* functions of l2.c below it, and ndn_udp_face_send.  The forwarder calls *)
(* them in the application thread, one at a time.                          *)
(*                                                                         *)
(* Every call takes snips (gnrc_pktsnip_t) from the packet buffer, which   *)
(* all threads of the node share, and hands chains of them over to the     *)
(* thread of the interface or of UDP.  Between two steps of a call the     *)
(* other threads run, and any allocation may fail.  A step is the code     *)
(* from one call of the network stack to the next.                         *)
(***************************************************************************)
EXTENDS L2Frag, Sequences

CONSTANTS BufSnips,  \* snips the packet buffer has room for
          Sizes,     \* sizes of the packets to send
          Mtus       \* MTUs an interface may report

ASSUME BufSnipsAssumption == BufSnips \in Nat
ASSUME SizesAssumption == Sizes \subseteq Nat \ {0}
ASSUME MtusAssumption == Mtus \subseteq Nat

VARIABLES
  pc,       \* the next step of the call
  face,     \* the face it is made on, "net" or "udp"
  size,     \* its packet,
  mtu,      \* and the MTU of the interface
  counter,  \* the fragmenter: fragments made,
  offset,   \* and bytes in them
  own,      \* snips that the call holds,
  chain,    \* and those its pointer reaches
  handed,   \* snips that the interface and UDP threads hold
  others,   \* snips that the rest of the node holds
  wire,     \* the frames this call handed over
  ret       \* the value the last call returned

vars == <<pc, face, size, mtu, counter, offset, own, chain, handed, others, wire, ret>>
callVars == <<face, size, mtu>>
fragmenter == <<counter, offset>>
snips == <<own, chain>>

FreeSnips == BufSnips - own - handed - others

Fragmented == size > mtu
Total == FragTotal(size, mtu)

Init ==
  /\ pc = "idle"
  /\ face = "net" /\ size \in Sizes /\ mtu \in Mtus
  /\ counter = 0 /\ offset = 0
  /\ own = 0 /\ chain = 0
  /\ handed = 0
  /\ others = 0
  /\ wire = <<>>
  /\ ret = -1

Return(r) == pc' = "idle" /\ ret' = r
ContinueAt(step) == pc' = step /\ UNCHANGED ret

(* gnrc_pktbuf_add and the gnrc_*_hdr_build functions.  The buffer is one  *)
(* of bytes: an allocation may also fail while there is room for a snip.   *)
Allocated == FreeSnips > 0 /\ own' = own + 1 /\ chain' = chain + 1

(* gnrc_pktbuf_release frees whatever the pointer reaches: once the call   *)
(* does not hold that any more, own falls below 0, and it was the snips of *)
(* somebody else.                                                          *)
ReleaseChain == own' = own - chain /\ chain' = 0

(* The thread that gets a chain owns its snips. *)
HandOver == handed' = handed + chain /\ own' = own - chain /\ chain' = 0

-----------------------------------------------------------------------------
(* ndn_netface_send, ndn_l2_send_fragments and ndn_l2_send_packet *)

NetfaceSend(s, m) ==
  /\ pc = "idle"
  /\ face' = "net" /\ size' = s /\ mtu' = m
  /\ counter' = 0 /\ offset' = 0
  /\ wire' = <<>>
  /\ IF s > m /\ ~ Fragmentable(s, m) THEN Return(-1) ELSE ContinueAt("packet")
  /\ UNCHANGED <<snips, handed, others>>

(* The packet, or its next fragment. *)
AddPacket ==
  /\ pc = "packet"
  /\ \/ Allocated /\ ContinueAt("header")
     \/ Return(-1) /\ UNCHANGED snips
  /\ UNCHANGED <<callVars, fragmenter, handed, others, wire>>

(* Variants: the packet is kept when there is no room for its header; the  *)
(* allocation is tried again and again.                                    *)
BuildHeaderKeeps ==
  /\ pc = "header"
  /\ \/ Allocated /\ ContinueAt("send")
     \/ Return(-1) /\ chain' = 0 /\ UNCHANGED own
  /\ UNCHANGED <<callVars, fragmenter, handed, others, wire>>

BuildHeaderRetries ==
  /\ pc = "header"
  /\ Allocated /\ ContinueAt("send")
  /\ UNCHANGED <<callVars, fragmenter, handed, others, wire>>

BuildHeader ==
  /\ pc = "header"
  /\ \/ Allocated /\ ContinueAt("send")
     \/ ReleaseChain /\ Return(-1)
  /\ UNCHANGED <<callVars, fragmenter, handed, others, wire>>

FrameSize ==
  IF Fragmented THEN FragFrameSize(size, mtu, counter, offset) ELSE size

(* A frame: its size, and the byte of the packet its payload begins with.  *)
Frame(from, n) == [from |-> from, size |-> n]

(* gnrc_netapi_send: the interface takes the frame, or the frame is        *)
(* released and the fragments after it are never made.                     *)
FrameTaken ==
  /\ HandOver
  /\ wire' = Append(wire, Frame(offset, FrameSize))
  /\ IF Fragmented
     THEN counter' = counter + 1 /\ offset' = offset + FrameSize - HdrLen
     ELSE UNCHANGED fragmenter
  /\ IF Fragmented /\ counter' < Total THEN ContinueAt("packet") ELSE Return(0)

(* Variant: ndn_l2_send_fragments releases its packet once more, after     *)
(* ndn_l2_send_packet has done so.                                         *)
FrameRefusedTwice ==
  /\ own' = own - chain - 1 /\ chain' = 0
  /\ Return(-1)
  /\ UNCHANGED <<fragmenter, handed, wire>>

FrameRefused ==
  /\ ReleaseChain
  /\ Return(-1)
  /\ UNCHANGED <<fragmenter, handed, wire>>

SendFrame ==
  /\ pc = "send"
  /\ FrameTaken \/ FrameRefused
  /\ UNCHANGED <<callVars, others>>

-----------------------------------------------------------------------------
(* ndn_udp_face_send.  It has no return value: what the caller sees is     *)
(* whatever the register holds.                                            *)

ReturnNothing == pc' = "idle" /\ ret' \in {-1, 0}

UdpSend(s) ==
  /\ pc = "idle"
  /\ face' = "udp" /\ size' = s /\ mtu' = mtu
  /\ wire' = <<>>
  /\ ContinueAt("payload")
  /\ UNCHANGED <<fragmenter, snips, handed, others>>

AddPayload ==
  /\ pc = "payload"
  /\ \/ Allocated /\ ContinueAt("udp_header")
     \/ UNCHANGED snips /\ ReturnNothing
  /\ UNCHANGED <<callVars, fragmenter, handed, others, wire>>

BuildUdpHeader ==
  /\ pc = "udp_header"
  /\ \/ Allocated /\ ContinueAt("ip_header")
     \/ ReleaseChain /\ ReturnNothing
  /\ UNCHANGED <<callVars, fragmenter, handed, others, wire>>

BuildIpHeader ==
  /\ pc = "ip_header"
  /\ \/ Allocated /\ ContinueAt("netif_header")
     \/ ReleaseChain /\ ReturnNothing
  /\ UNCHANGED <<callVars, fragmenter, handed, others, wire>>

(* A node without an interface skips the header.  The result of the        *)
(* allocation is written through unchecked, a fault when it is NULL.       *)
BuildNetifHeader ==
  /\ pc = "netif_header"
  /\ \/ Allocated /\ ContinueAt("dispatch")
     \/ UNCHANGED snips /\ ContinueAt("dispatch")
     \/ UNCHANGED snips /\ ContinueAt("fault")
  /\ UNCHANGED <<callVars, fragmenter, handed, others, wire>>

(* No UDP thread, and the chain is released. *)
DispatchUdp ==
  /\ pc = "dispatch"
  /\ \/ HandOver /\ wire' = <<Frame(0, size)>>
     \/ ReleaseChain /\ UNCHANGED <<handed, wire>>
  /\ ReturnNothing
  /\ UNCHANGED <<callVars, fragmenter, others>>

-----------------------------------------------------------------------------
(* The other threads release the snips of a chain that was transmitted,    *)
(* one after the other, and take and give back snips of their own.         *)

Transmitted ==
  /\ handed > 0 /\ handed' = handed - 1
  /\ UNCHANGED <<pc, callVars, fragmenter, snips, others, wire, ret>>

OthersAllocate ==
  /\ FreeSnips > 0 /\ others' = others + 1
  /\ UNCHANGED <<pc, callVars, fragmenter, snips, handed, wire, ret>>

OthersRelease ==
  /\ others > 0 /\ others' = others - 1
  /\ UNCHANGED <<pc, callVars, fragmenter, snips, handed, wire, ret>>

-----------------------------------------------------------------------------
NetfaceStep == AddPacket \/ BuildHeader \/ SendFrame
UdpStep == \/ AddPayload \/ BuildUdpHeader \/ BuildIpHeader
           \/ BuildNetifHeader \/ DispatchUdp

Call ==
  \/ \E s \in Sizes, m \in Mtus : NetfaceSend(s, m)
  \/ \E s \in Sizes : UdpSend(s)

OtherThreads == Transmitted \/ OthersAllocate \/ OthersRelease

Next == Call \/ NetfaceStep \/ UdpStep \/ OtherThreads

Spec == Init /\ [][Next]_vars

(* A call that was made runs on. *)
FairSpec == Spec /\ WF_vars(NetfaceStep) /\ WF_vars(UdpStep)

-----------------------------------------------------------------------------
(* Properties *)

(* The variables have the types of the C objects, and the snips of all     *)
(* owners together fit the packet buffer.                                  *)
TypeOK ==
  /\ pc \in {"idle", "packet", "header", "send", "payload", "udp_header", "ip_header",
             "netif_header", "dispatch", "fault"}
  /\ face \in {"net", "udp"} /\ size \in Sizes /\ mtu \in Mtus
  /\ counter \in Nat /\ offset \in Int
  /\ own \in 0 .. 4 /\ chain \in 0 .. 4 /\ handed \in Nat /\ others \in Nat /\ FreeSnips >= 0
  /\ wire \in Seq([from : Int, size : Int])
  /\ ret \in {-1, 0}

(* Whichever allocation or hand-over failed, and on whichever face, what   *)
(* the call that returned took was handed over or released, and once: held *)
(* snips are leaked, and a count below 0 is of snips that were freed while *)
(* they belonged to another thread.                                        *)
NothingKept == pc = "idle" => own = 0

(* Every frame of a link-layer call fits the MTU.  A fragment has payload  *)
(* behind its header, and a sequence number of five bits.                  *)
FramesFit ==
  face = "net" =>
    /\ Len(wire) <= MaxFrags
    /\ \A i \in 1 .. Len(wire) :
         wire[i].size <= mtu /\ wire[i].size > (IF Fragmented THEN HdrLen ELSE 0)

(* The byte of the packet after the payload of the first i frames.         *)
End(i) ==
  IF i = 0 THEN 0 ELSE wire[i].from + wire[i].size - (IF Fragmented THEN HdrLen ELSE 0)

(* The frames handed over carry the packet from its first byte on, without *)
(* gap or repetition.  0 means that this is the whole packet, -1 that it   *)
(* is not: the fragments sent before a failure stay on their way, and are  *)
(* never all of them.                                                      *)
ResultIsHonest ==
  pc = "idle" /\ face = "net" =>
    /\ \A i \in 1 .. Len(wire) : wire[i].from = End(i - 1)
    /\ IF ret = 0 THEN End(Len(wire)) = size ELSE End(Len(wire)) < size

(* A packet is refused before anything is sent only when it has to be, the *)
(* interface having no room for payload or the packet more fragments than  *)
(* can be numbered; or when it fills 32 fragments to the last byte, which  *)
(* l2.c:74 takes for 33.                                                   *)
RefusesOnlyFull ==
  [][Call /\ pc' = "idle" =>
       /\ Fragmented'
       /\ \/ mtu' <= HdrLen
          \/ Total' > MaxFrags
          \/ size' = MaxFrags * (mtu' - HdrLen)]_vars

(* A call returns, however the buffer is contended for, unless it ends in  *)
(* a fault.                                                                *)
CallReturns == (pc # "idle") ~> (pc \in {"idle", "fault"})

=============================================================================
