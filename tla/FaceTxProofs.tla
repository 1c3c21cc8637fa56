---------------------------- MODULE FaceTxProofs ----------------------------
(***************************************************************************)
(* Theorems about FaceTx, for every capacity of the packet buffer and all  *)
(* packet sizes and MTUs.                                                  *)
(***************************************************************************)
EXTENDS FaceTx, L2FragProofs

-----------------------------------------------------------------------------
(* The calls *)

NetPcs == {"packet", "header", "send"}

FrameRecord == [from : Int, size : Int]

(* How many snips the call holds at each step. *)
Held(step) ==
  IF step \in {"header", "udp_header"} THEN {1}
  ELSE IF step \in {"send", "ip_header"} THEN {2}
  ELSE IF step = "netif_header" THEN {3}
  ELSE IF step = "dispatch" THEN {3, 4}
  ELSE IF step = "fault" THEN {3}
  ELSE {0}

(* In the loop of ndn_l2_send_fragments the fragments made so far were all *)
(* full and are all on the wire.                                           *)
LoopInv ==
  pc \in NetPcs =>
    /\ face = "net"
    /\ IF Fragmented
       THEN /\ Fragmentable(size, mtu)
            /\ counter < Total
            /\ offset = counter * (mtu - HdrLen)
            /\ Len(wire) = counter
       ELSE wire = <<>>

(* The steps of ndn_udp_face_send belong to a call on the UDP face. *)
StepsOfFace ==
  pc \in {"payload", "udp_header", "ip_header", "netif_header", "dispatch", "fault"}
    => face = "udp"

TxInv ==
  /\ TypeOK
  /\ StepsOfFace
  /\ own \in Held(pc) /\ chain = own
  /\ LoopInv
  /\ FramesFit

LEMMA TxInit == Init => TxInv
BY BufSnipsAssumption
DEF Init, TxInv, TypeOK, StepsOfFace, Held, LoopInv, NetPcs, FramesFit, FreeSnips, MaxFrags

(* The frame of the loop's next step fits. *)
LEMMA NextFrameFits ==
  ASSUME TxInv, pc = "send"
  PROVE  /\ FrameSize \in Int /\ FrameSize <= mtu
         /\ FrameSize > (IF Fragmented THEN HdrLen ELSE 0)
         /\ Fragmented => /\ Total \in Nat /\ Total <= MaxFrags
                          /\ counter + 1 < Total =>
                               offset + FrameSize - HdrLen = (counter + 1) * (mtu - HdrLen)
<1>1. size \in Nat \ {0} /\ mtu \in Nat /\ counter \in Nat
  BY SizesAssumption, MtusAssumption DEF TxInv, TypeOK
<1>2. CASE Fragmented
  <2>1. /\ Fragmentable(size, mtu) /\ counter < FragTotal(size, mtu)
        /\ offset = counter * (mtu - HdrLen)
    BY <1>2 DEF TxInv, LoopInv, NetPcs, Total
  <2>2. FrameSize = FragFrameSize(size, mtu, counter, counter * (mtu - HdrLen))
    BY <1>2, <2>1 DEF FrameSize
  <2>3. FragTotal(size, mtu) \in Nat /\ FragTotal(size, mtu) <= MaxFrags
    BY <1>1, <2>1, FragmentCount
  <2>4. /\ FrameSize \in Int /\ FrameSize <= mtu /\ FrameSize > HdrLen
        /\ counter + 1 < FragTotal(size, mtu) =>
             counter * (mtu - HdrLen) + FrameSize - HdrLen = (counter + 1) * (mtu - HdrLen)
    BY <1>1, <2>1, <2>2, FragmentFits
  <2> QED BY <1>2, <2>1, <2>3, <2>4 DEF Total
<1>3. CASE ~ Fragmented
  BY <1>1, <1>3 DEF FrameSize, Fragmented
<1> QED BY <1>2, <1>3

LEMMA StepsOfFaceStep == StepsOfFace /\ TypeOK /\ [Next]_vars => StepsOfFace'
BY DEF StepsOfFace, TypeOK, Next, Call, NetfaceStep, UdpStep, OtherThreads, NetfaceSend, UdpSend,
       AddPacket, BuildHeader, SendFrame, FrameTaken, FrameRefused, AddPayload, BuildUdpHeader, BuildIpHeader,
       BuildNetifHeader, DispatchUdp, Transmitted, OthersAllocate, OthersRelease, Return,
       ContinueAt, ReturnNothing, callVars, vars

LEMMA TxStep == TxInv /\ [Next]_vars => TxInv'
<1> SUFFICES ASSUME TxInv, [Next]_vars PROVE TxInv'
  OBVIOUS
<1>f. StepsOfFace'
  BY StepsOfFaceStep DEF TxInv
<1> USE <1>f DEF TxInv
<1>1. /\ BufSnips \in Nat /\ own \in Nat /\ handed \in Nat /\ others \in Nat
      /\ own + handed + others <= BufSnips
  BY BufSnipsAssumption DEF TypeOK, FreeSnips
<1>2. ASSUME NEW s \in Sizes, NEW m \in Mtus, NetfaceSend(s, m) PROVE TxInv'
  <2> USE <1>2 DEF NetfaceSend, Return, ContinueAt, snips
  <2>1. TypeOK'
    BY DEF TypeOK, FreeSnips
  <2>2. own' \in Held(pc') /\ chain' = own'
    BY DEF Held
  <2>3. FramesFit'
    BY DEF FramesFit, MaxFrags
  <2>4. LoopInv'
    <3> SUFFICES ASSUME pc' \in NetPcs, s > m PROVE LoopInv'
      BY DEF LoopInv, NetPcs, Fragmented
    <3>1. Fragmentable(s, m) /\ s \in Nat \ {0} /\ m \in Nat
      BY SizesAssumption, MtusAssumption DEF NetPcs
    <3>2. 0 < FragTotal(s, m) /\ 0 = 0 * (m - HdrLen)
      BY <3>1, FragmentCount
    <3> QED BY <3>1, <3>2 DEF LoopInv, Fragmented, Total
  <2> QED BY <2>1, <2>2, <2>3, <2>4
<1>3. ASSUME NEW s \in Sizes, UdpSend(s) PROVE TxInv'
  <2> USE <1>3 DEF UdpSend, ContinueAt, fragmenter, snips
  <2>1. TypeOK'
    BY DEF TypeOK, FreeSnips
  <2>2. own' \in Held(pc') /\ chain' = own'
    BY DEF Held
  <2>3. FramesFit' /\ LoopInv'
    BY DEF FramesFit, LoopInv, NetPcs
  <2> QED BY <2>1, <2>2, <2>3
<1>4. CASE AddPacket
  <2>1. TypeOK' /\ own' \in Held(pc') /\ chain' = own'
    BY <1>1, <1>4 DEF AddPacket, TypeOK, FreeSnips, Held, Allocated, ContinueAt, Return,
                      callVars, fragmenter, snips
  <2>2. LoopInv' /\ FramesFit'
    BY <1>4 DEF AddPacket, ContinueAt, Return, callVars, fragmenter, LoopInv, FramesFit,
                NetPcs, Fragmented, Total
  <2> QED BY <2>1, <2>2
<1>5. CASE BuildHeader
  <2>1. TypeOK' /\ own' \in Held(pc') /\ chain' = own'
    BY <1>1, <1>5 DEF BuildHeader, TypeOK, FreeSnips, Held, Allocated, ReleaseChain, ContinueAt,
                      Return, callVars, fragmenter
  <2>2. LoopInv' /\ FramesFit'
    BY <1>5 DEF BuildHeader, ContinueAt, Return, callVars, fragmenter, LoopInv, FramesFit,
                NetPcs, Fragmented, Total
  <2> QED BY <2>1, <2>2
<1>6. CASE SendFrame
  <2>1. pc = "send" /\ UNCHANGED <<callVars, others>> /\ own = 2 /\ face = "net"
    BY <1>6 DEF SendFrame, Held, LoopInv, NetPcs
  <2>2. CASE FrameRefused
    <3>1. TypeOK' /\ own' \in Held(pc') /\ chain' = own'
      BY <1>1, <2>1, <2>2 DEF FrameRefused, TypeOK, FreeSnips, Held, ReleaseChain, Return, callVars, fragmenter
    <3>2. LoopInv' /\ FramesFit'
      BY <2>1, <2>2 DEF FrameRefused, Return, callVars, fragmenter, LoopInv, FramesFit, NetPcs, Fragmented
    <3> QED BY <3>1, <3>2
  <2>3. CASE FrameTaken
    <3>1. /\ FrameSize \in Int /\ FrameSize <= mtu
          /\ FrameSize > (IF Fragmented THEN HdrLen ELSE 0)
          /\ Fragmented => /\ Total \in Nat /\ Total <= MaxFrags
                           /\ counter + 1 < Total =>
                                offset + FrameSize - HdrLen = (counter + 1) * (mtu - HdrLen)
      BY <2>1, NextFrameFits
    <3>2. wire \in Seq(FrameRecord) /\ counter \in Nat /\ offset \in Int /\ Len(wire) \in Nat
      BY DEF TypeOK, FrameRecord
    <3>3. /\ wire' \in Seq(FrameRecord) /\ Len(wire') = Len(wire) + 1
          /\ \A i \in 1 .. Len(wire) : wire'[i] = wire[i]
          /\ wire'[Len(wire) + 1].size = FrameSize
      <4>1. Frame(offset, FrameSize) \in FrameRecord /\ Frame(offset, FrameSize).size = FrameSize
        BY <3>1, <3>2 DEF Frame, FrameRecord
      <4> QED BY <2>3, <3>2, <4>1 DEF FrameTaken
    <3>4. counter' \in Nat /\ offset' \in Int
      BY <2>3, <3>1, <3>2 DEF FrameTaken, fragmenter, HdrLen
    <3>5. /\ pc' \in {"packet", "idle"} /\ ret' \in {-1, 0}
          /\ pc' = "packet" => Fragmented /\ counter' < Total
      BY <2>3 DEF FrameTaken, ContinueAt, Return, TypeOK
    <3>6. TypeOK'
      BY <1>1, <2>1, <2>3, <3>3, <3>4, <3>5
      DEF FrameTaken, TypeOK, FreeSnips, HandOver, callVars, FrameRecord
    <3>7. own' \in Held(pc') /\ chain' = own'
      BY <1>1, <2>3, <3>5 DEF FrameTaken, HandOver, Held
    <3>8. Fragmented' = Fragmented /\ Total' = Total
      BY <2>1 DEF Fragmented, Total, callVars
    <3>9. Fragmented => Len(wire) = counter /\ counter < Total /\ Fragmentable(size, mtu)
      BY <2>1 DEF LoopInv, NetPcs
    <3>10. LoopInv'
      <4> SUFFICES ASSUME pc' = "packet" PROVE LoopInv'
        BY <3>5 DEF LoopInv, NetPcs
      <4>1. Fragmented /\ counter' = counter + 1 /\ offset' = (counter + 1) * (mtu - HdrLen)
        BY <2>3, <3>1, <3>5 DEF FrameTaken
      <4> QED BY <2>1, <3>2, <3>3, <3>5, <3>8, <3>9, <4>1 DEF LoopInv, callVars
    <3>11. FramesFit'
      <4>1. Len(wire') <= MaxFrags
        <5>1. CASE Fragmented
          BY <3>1, <3>2, <3>3, <3>9, <5>1 DEF MaxFrags
        <5>2. CASE ~ Fragmented
          BY <2>1, <3>3, <5>2 DEF LoopInv, NetPcs, MaxFrags
        <5> QED BY <5>1, <5>2
      <4>2. ASSUME NEW i \in 1 .. Len(wire')
            PROVE  /\ wire'[i].size <= mtu
                   /\ wire'[i].size > (IF Fragmented THEN HdrLen ELSE 0)
        <5>1. CASE i \in 1 .. Len(wire)
          BY <2>1, <3>3, <5>1 DEF FramesFit
        <5>2. CASE i = Len(wire) + 1
          BY <3>1, <3>3, <5>2
        <5> QED BY <3>2, <3>3, <5>1, <5>2
      <4> QED BY <2>1, <3>8, <4>1, <4>2 DEF FramesFit, callVars
    <3> QED BY <3>6, <3>7, <3>10, <3>11
  <2> QED BY <1>6, <2>2, <2>3 DEF SendFrame
<1>7. CASE AddPayload \/ BuildUdpHeader \/ BuildIpHeader \/ BuildNetifHeader
  <2>1. TypeOK' /\ own' \in Held(pc') /\ chain' = own'
    <3> USE DEF TypeOK, FreeSnips, Held, Allocated, ReleaseChain, ReturnNothing, ContinueAt,
                callVars, fragmenter, snips
    <3>1. CASE AddPayload
      BY <1>1, <3>1 DEF AddPayload
    <3>2. CASE BuildUdpHeader
      BY <1>1, <3>2 DEF BuildUdpHeader
    <3>3. CASE BuildIpHeader
      BY <1>1, <3>3 DEF BuildIpHeader
    <3>4. CASE BuildNetifHeader
      BY <1>1, <3>4 DEF BuildNetifHeader
    <3> QED BY <1>7, <3>1, <3>2, <3>3, <3>4
  <2>2. LoopInv' /\ FramesFit'
    BY <1>7
    DEF AddPayload, BuildUdpHeader, BuildIpHeader, BuildNetifHeader, ReturnNothing, ContinueAt,
        callVars, LoopInv, FramesFit, NetPcs, Fragmented
  <2> QED BY <2>1, <2>2
<1>8. CASE DispatchUdp
  <2>1. /\ pc = "dispatch" /\ pc' = "idle" /\ ret' \in {-1, 0} /\ own' = 0 /\ chain' = 0
        /\ UNCHANGED <<callVars, fragmenter, others>>
        /\ wire' = wire \/ wire' = <<Frame(0, size)>>
        /\ handed' = handed \/ handed' = handed + own
    BY <1>1, <1>8 DEF DispatchUdp, HandOver, ReleaseChain, ReturnNothing
  <2>2. wire' \in Seq(FrameRecord)
    <3>1. Frame(0, size) \in FrameRecord
      BY SizesAssumption DEF TypeOK, Frame, FrameRecord
    <3>2. <<Frame(0, size)>> \in Seq(FrameRecord) /\ wire \in Seq(FrameRecord)
      BY <3>1 DEF TypeOK, FrameRecord
    <3> QED BY <2>1, <3>2
  <2>3. TypeOK' /\ own' \in Held(pc') /\ chain' = own'
    BY <1>1, <2>1, <2>2 DEF TypeOK, FreeSnips, Held, callVars, fragmenter, FrameRecord
  <2>4. face = "udp"
    BY <2>1 DEF StepsOfFace
  <2>5. LoopInv' /\ FramesFit'
    BY <2>1, <2>4 DEF LoopInv, FramesFit, NetPcs, callVars
  <2> QED BY <2>3, <2>5
<1>9. CASE OtherThreads
  <2>1. UNCHANGED <<pc, callVars, fragmenter, snips, wire, ret>>
    BY <1>9 DEF OtherThreads, Transmitted, OthersAllocate, OthersRelease
  <2>2. TypeOK'
    BY <1>1, <1>9, <2>1 DEF OtherThreads, Transmitted, OthersAllocate, OthersRelease, TypeOK,
                            FreeSnips, callVars, fragmenter, snips
  <2>3. LoopInv' /\ FramesFit'
    BY <2>1 DEF LoopInv, FramesFit, Fragmented, Total, callVars, fragmenter
  <2> QED BY <2>1, <2>2, <2>3 DEF snips
<1>10. CASE UNCHANGED vars
  BY <1>10 DEF vars, TypeOK, FreeSnips, LoopInv, FramesFit, Fragmented, Total
<1> QED BY <1>2, <1>3, <1>4, <1>5, <1>6, <1>7, <1>8, <1>9, <1>10
        DEF Next, Call, NetfaceStep, UdpStep

LEMMA TxInvariant == Spec => []TxInv
<1> QED BY TxInit, TxStep, PTL DEF Spec

(* The packet buffer is never overdrawn. *)
THEOREM TxTypeCorrect == Spec => []TypeOK
<1>1. TxInv => TypeOK
  BY DEF TxInv
<1> QED BY <1>1, TxInvariant, PTL

(* No call leaks a snip, or releases one that it does not hold any more,   *)
(* on any error path of any face.                                          *)
THEOREM NothingIsKept == Spec => []NothingKept
<1>1. TxInv => NothingKept
  BY DEF TxInv, NothingKept, Held
<1> QED BY <1>1, TxInvariant, PTL

(* The sizes that ndn_l2_send_fragments computes never wrap around, exceed *)
(* the MTU or need a sequence number beyond five bits.                     *)
THEOREM AllFramesFit == Spec => []FramesFit
<1>1. TxInv => FramesFit
  BY DEF TxInv
<1> QED BY <1>1, TxInvariant, PTL

(* For every MTU and packet size, ndn_netface_send sends nothing at all    *)
(* only of packets that cannot be sent, and of those that fill the last of *)
(* 32 fragments.                                                           *)
THEOREM OnlyFullPacketsAreRefused == Spec => RefusesOnlyFull
<1> DEFINE MustRefuse == /\ Fragmented'
                         /\ \/ mtu' <= HdrLen
                            \/ Total' > MaxFrags
                            \/ size' = MaxFrags * (mtu' - HdrLen)
<1>1. [Next]_vars => [Call /\ pc' = "idle" => MustRefuse]_vars
  <2> SUFFICES ASSUME Call, pc' = "idle" PROVE MustRefuse
    OBVIOUS
  <2>1. PICK s \in Sizes, m \in Mtus : NetfaceSend(s, m)
    BY DEF Call, UdpSend, ContinueAt
  <2>2. s > m /\ ~ Fragmentable(s, m) /\ size' = s /\ mtu' = m
    BY <2>1 DEF NetfaceSend, ContinueAt
  <2>3. s \in Nat \ {0} /\ m \in Nat
    BY SizesAssumption, MtusAssumption
  <2>4. CASE MtuCarriesPayload(m)
    <3>1. FragTotal(s, m) \in Int
      BY <2>3, <2>4, DivFacts DEF FragTotal, MtuCarriesPayload, HdrLen
    <3>2. FragTotal(s, m) > MaxFrags \/ s = MaxFrags * (m - HdrLen)
      BY <2>2, <2>3, <2>4, <3>1, GuardRefusesFullPacket DEF MaxFrags
    <3> QED BY <2>2, <3>2 DEF Fragmented, Total
  <2>5. CASE ~ MtuCarriesPayload(m)
    BY <2>2, <2>3, <2>5 DEF MtuCarriesPayload, Fragmented, HdrLen
  <2> QED BY <2>4, <2>5
<1> QED BY <1>1, PTL DEF Spec, RefusesOnlyFull

-----------------------------------------------------------------------------
(* What the result says *)

(* The frames on the wire carry consecutive parts of the packet. *)
Chained == \A i \in 1 .. Len(wire) : wire[i].from = End(i - 1)

(* While a link-layer call lasts, the frames reach as far as the offset of *)
(* the fragmenter, which is not the end of the packet.                     *)
HonestInv ==
  /\ TxInv
  /\ pc \in NetPcs => Chained /\ End(Len(wire)) = offset /\ offset < size
  /\ ResultIsHonest

LEMMA HonestInit == Init => HonestInv
<1> SUFFICES ASSUME Init PROVE HonestInv
  OBVIOUS
<1>1. Len(wire) = 0 /\ size > 0 /\ ret = -1 /\ pc = "idle"
  BY SizesAssumption DEF Init
<1> QED BY <1>1, TxInit DEF HonestInv, NetPcs, ResultIsHonest, End

(* Where the payload of the next frame ends: after the last fragment, at   *)
(* the end of the packet, and before that, short of it.                    *)
LEMMA NextFrameEnds ==
  ASSUME TxInv, pc = "send"
  PROVE  IF Fragmented
         THEN IF counter + 1 < Total THEN offset + FrameSize - HdrLen < size
                                     ELSE offset + FrameSize - HdrLen = size
         ELSE wire = <<>> /\ FrameSize = size
<1>1. /\ size \in Nat \ {0} /\ mtu \in Nat /\ counter \in Nat /\ offset \in Int
      /\ HdrLen \in Nat
  BY SizesAssumption, MtusAssumption DEF TxInv, TypeOK, HdrLen
<1>2. CASE Fragmented
  <2>1. Fragmentable(size, mtu) /\ counter < Total
    BY <1>2 DEF TxInv, LoopInv, NetPcs
  <2> DEFINE p == mtu - HdrLen
  <2>2. p \in Nat /\ p > 0 /\ Total \in Nat /\ (Total - 1) * p < size
    BY <1>1, <2>1, FragmentCount DEF Total
  <2>3. CASE counter + 1 < Total
    <3>1. FrameSize \in Int /\ offset + FrameSize - HdrLen = (counter + 1) * p
      BY <1>2, <2>3, NextFrameFits
    <3>2. counter + 1 <= Total - 1 /\ counter + 1 \in Nat /\ Total - 1 \in Nat
      BY <1>1, <2>2, <2>3
    <3>3. (counter + 1) * p < size
      <4> SUFFICES ASSUME NEW a \in Nat, NEW b \in Nat, a <= b, b * p < size
                   PROVE  a * p < size
        BY <2>2, <3>2
      <4>1. b * p = a * p + (b - a) * p /\ (b - a) * p >= 0
        BY <2>2, SMTT(30)
      <4>2. a * p \in Int /\ b * p \in Int /\ (b - a) * p \in Int
        BY <2>2
      <4> QED BY <1>1, <4>1, <4>2
    <3> QED BY <1>2, <2>3, <3>1, <3>3
  <2>4. CASE ~ (counter + 1 < Total)
    <3>1. counter = Total - 1
      BY <1>1, <2>1, <2>2, <2>4
    <3>2. FrameSize = size - offset + HdrLen
      BY <1>2, <3>1 DEF FrameSize, FragFrameSize, Total
    <3>3. offset + FrameSize - HdrLen = size
      BY <1>1, <3>2
    <3> QED BY <1>2, <2>4, <3>3
  <2> QED BY <2>3, <2>4
<1>3. CASE ~ Fragmented
  BY <1>3 DEF TxInv, LoopInv, NetPcs, FrameSize
<1> QED BY <1>2, <1>3

(* A frame that is handed over extends the chain to its payload's end.     *)
LEMMA FrameExtendsChain ==
  ASSUME TxInv, pc = "send", FrameTaken, UNCHANGED <<size, mtu>>,
         Chained, End(Len(wire)) = offset
  PROVE  /\ Chained'
         /\ End(Len(wire))' = offset + FrameSize - (IF Fragmented THEN HdrLen ELSE 0)
<1> DEFINE h == IF Fragmented THEN HdrLen ELSE 0
<1>1. /\ wire \in Seq(FrameRecord) /\ Len(wire) \in Nat
      /\ FrameSize \in Int /\ offset \in Int /\ h \in Int
      /\ h' = h
  BY NextFrameFits DEF TxInv, TypeOK, FrameRecord, HdrLen, Fragmented
<1>2. /\ Len(wire') = Len(wire) + 1
      /\ \A i \in 1 .. Len(wire) : wire'[i] = wire[i]
      /\ wire'[Len(wire) + 1].from = offset
      /\ wire'[Len(wire) + 1].size = FrameSize
  <2>1. Frame(offset, FrameSize) \in FrameRecord
    BY <1>1 DEF Frame, FrameRecord
  <2>2. wire' = Append(wire, Frame(offset, FrameSize))
    BY DEF FrameTaken
  <2> QED BY <1>1, <2>1, <2>2 DEF Frame
<1>3. End(Len(wire))' = offset + FrameSize - h
  <2>1. End(Len(wire))' = wire'[Len(wire')].from + wire'[Len(wire')].size - h'
    BY <1>1, <1>2 DEF End
  <2> QED BY <1>1, <1>2, <2>1
<1>4. \A i \in 0 .. Len(wire) : (End(i))' = End(i)
  BY <1>1, <1>2 DEF End
<1>5. ASSUME NEW i \in 1 .. Len(wire')
      PROVE  wire'[i].from = (End(i - 1))'
  <2>1. CASE i \in 1 .. Len(wire)
    <3>1. i - 1 \in 0 .. Len(wire)
      BY <1>1, <2>1
    <3> QED BY <1>2, <1>4, <2>1, <3>1 DEF Chained
  <2>2. CASE i = Len(wire) + 1
    <3>1. i - 1 = Len(wire) /\ Len(wire) \in 0 .. Len(wire)
      BY <1>1, <2>2
    <3> QED BY <1>2, <1>4, <2>2, <3>1
  <2> QED BY <1>1, <1>2, <2>1, <2>2
<1> QED BY <1>3, <1>5 DEF Chained

LEMMA HonestStep == HonestInv /\ [Next]_vars => HonestInv'
<1> SUFFICES ASSUME HonestInv, [Next]_vars PROVE HonestInv'
  OBVIOUS
<1>t. TxInv /\ TxInv'
  BY TxStep DEF HonestInv
<1>1. ASSUME NEW s \in Sizes, NEW m \in Mtus, NetfaceSend(s, m) PROVE HonestInv'
  <2>1. Len(wire') = 0 /\ offset' = 0 /\ size' = s /\ s > 0 /\ (pc' = "idle" => ret' = -1)
    BY <1>1, SizesAssumption DEF NetfaceSend, Return, ContinueAt
  <2>2. End(Len(wire))' = 0 /\ Chained'
    BY <2>1 DEF End, Chained
  <2> QED BY <1>t, <2>1, <2>2 DEF HonestInv, ResultIsHonest, Chained
<1>2. ASSUME pc \in NetPcs, pc' \in NetPcs \/ (pc' = "idle" /\ ret' = -1),
             UNCHANGED <<callVars, fragmenter, wire>>
      PROVE  HonestInv'
  <2>1. Chained /\ End(Len(wire)) = offset /\ offset < size
    BY <1>2 DEF HonestInv
  <2>2. Chained' /\ End(Len(wire))' = offset' /\ offset' < size'
    BY <1>2, <2>1 DEF Chained, End, Fragmented, callVars, fragmenter
  <2> QED BY <1>2, <1>t, <2>2 DEF HonestInv, ResultIsHonest, Chained, NetPcs
<1>3. CASE AddPacket \/ BuildHeader
  BY <1>2, <1>3 DEF AddPacket, BuildHeader, Return, ContinueAt, NetPcs
<1>4. CASE SendFrame
  <2>1. pc = "send" /\ UNCHANGED <<size, mtu, face>> /\ UNCHANGED callVars
    BY <1>4 DEF SendFrame, callVars
  <2>2. CASE FrameRefused
    BY <1>2, <2>1, <2>2 DEF FrameRefused, Return, NetPcs
  <2>3. CASE FrameTaken
    <3>1. Chained /\ End(Len(wire)) = offset /\ offset < size
      BY <2>1 DEF HonestInv, NetPcs
    <3>2. /\ Chained'
          /\ End(Len(wire))' = offset + FrameSize - (IF Fragmented THEN HdrLen ELSE 0)
      BY <1>t, <2>1, <2>3, <3>1, FrameExtendsChain
    <3>3. CASE Fragmented /\ counter + 1 < Total
      <4>1. pc' = "packet" /\ offset' = offset + FrameSize - HdrLen
        BY <2>3, <3>3 DEF FrameTaken, ContinueAt
      <4>2. End(Len(wire))' = offset' /\ offset' < size'
        BY <1>t, <2>1, <3>2, <3>3, <4>1, NextFrameEnds
      <4> QED BY <1>t, <3>2, <4>1, <4>2 DEF HonestInv, ResultIsHonest
    <3>4. CASE ~ (Fragmented /\ counter + 1 < Total)
      <4>1. pc' = "idle" /\ ret' = 0
        <5>1. CASE Fragmented
          BY <2>3, <3>4, <5>1 DEF FrameTaken, Return
        <5>2. CASE ~ Fragmented
          BY <2>3, <5>2 DEF FrameTaken, Return
        <5> QED BY <5>1, <5>2
      <4>2. End(Len(wire))' = size'
        <5>1. CASE Fragmented
          BY <1>t, <2>1, <3>2, <3>4, <5>1, NextFrameEnds
        <5>2. CASE ~ Fragmented
          <6>1. wire = <<>> /\ FrameSize = size /\ size \in Int
            BY <1>t, <2>1, <5>2, SizesAssumption, NextFrameEnds DEF TxInv, TypeOK
          <6>2. offset = 0
            BY <3>1, <6>1 DEF End
          <6> QED BY <2>1, <3>2, <5>2, <6>1, <6>2
        <5> QED BY <5>1, <5>2
      <4> QED BY <1>t, <3>2, <4>1, <4>2 DEF HonestInv, ResultIsHonest, Chained, NetPcs
    <3> QED BY <3>3, <3>4
  <2> QED BY <1>4, <2>2, <2>3 DEF SendFrame
<1>5. ASSUME face' = "udp", pc' \notin NetPcs PROVE HonestInv'
  BY <1>5, <1>t DEF HonestInv, ResultIsHonest
<1>6. ASSUME NEW s \in Sizes, UdpSend(s) PROVE HonestInv'
  BY <1>5, <1>6 DEF UdpSend, ContinueAt, NetPcs
<1>7. CASE UdpStep
  <2>1. face = "udp"
    BY <1>7, <1>t DEF UdpStep, AddPayload, BuildUdpHeader, BuildIpHeader, BuildNetifHeader,
                      DispatchUdp, TxInv, StepsOfFace
  <2>2. face' = face /\ pc' \notin NetPcs
    BY <1>7 DEF UdpStep, AddPayload, BuildUdpHeader, BuildIpHeader, BuildNetifHeader,
                DispatchUdp, ReturnNothing, ContinueAt, NetPcs, callVars
  <2> QED BY <1>5, <2>1, <2>2
<1>8. CASE OtherThreads \/ UNCHANGED vars
  <2>1. UNCHANGED <<pc, callVars, fragmenter, wire, ret>>
    BY <1>8 DEF OtherThreads, Transmitted, OthersAllocate, OthersRelease, vars, callVars,
                fragmenter
  <2>2. (Chained' <=> Chained) /\ End(Len(wire))' = End(Len(wire))
    BY <2>1 DEF Chained, End, Fragmented, callVars
  <2> QED BY <1>t, <2>1, <2>2 DEF HonestInv, ResultIsHonest, Chained, callVars, fragmenter
<1> QED BY <1>1, <1>3, <1>4, <1>6, <1>7, <1>8 DEF Next, Call, NetfaceStep

(* For every MTU and packet size, with failures anywhere, 0 is returned    *)
(* exactly when the frames handed over carry the whole packet, in order.   *)
THEOREM ResultTellsTheTruth == Spec => []ResultIsHonest
<1>1. HonestInv => ResultIsHonest
  BY DEF HonestInv
<1> QED BY <1>1, HonestInit, HonestStep, PTL DEF Spec

-----------------------------------------------------------------------------
(* A call comes to its end *)

(* The steps a call has before it at most: three for each frame that it    *)
(* still has to make, one for each snip of a UDP packet.                   *)
FramesLeft == IF Fragmented THEN Total - counter ELSE 1

CallLeft ==
  IF pc = "packet" THEN 3 * FramesLeft
  ELSE IF pc = "header" THEN 3 * FramesLeft - 1
  ELSE IF pc = "send" THEN 3 * FramesLeft - 2
  ELSE IF pc = "payload" THEN 5
  ELSE IF pc = "udp_header" THEN 4
  ELSE IF pc = "ip_header" THEN 3
  ELSE IF pc = "netif_header" THEN 2
  ELSE IF pc = "dispatch" THEN 1
  ELSE 0

(* The count is bounded, and 0 when the call is over.                      *)
CallBounded ==
  /\ CallLeft \in 0 .. 3 * MaxFrags
  /\ CallLeft = 0 <=> pc \in {"idle", "fault"}

(* A step of the call takes from it, and other threads leave it.           *)
CallShrinks ==
  /\ NetfaceStep \/ UdpStep => CallLeft' < CallLeft
  /\ OtherThreads => UNCHANGED CallLeft

LEMMA FramesAhead ==
  ASSUME TxInv, pc \in NetPcs
  PROVE  /\ FramesLeft \in 1 .. MaxFrags
         /\ Fragmented => Total \in Nat /\ counter \in Nat
<1>1. size \in Nat \ {0} /\ mtu \in Nat /\ counter \in Nat
  BY SizesAssumption, MtusAssumption DEF TxInv, TypeOK
<1>2. CASE Fragmented
  <2>1. Fragmentable(size, mtu) /\ counter < Total
    BY <1>2 DEF TxInv, LoopInv
  <2>2. Total \in Nat /\ Total <= MaxFrags
    BY <1>1, <2>1, FragmentCount DEF Total
  <2> QED BY <1>1, <1>2, <2>1, <2>2 DEF FramesLeft, MaxFrags
<1>3. CASE ~ Fragmented
  BY <1>1, <1>3 DEF FramesLeft, MaxFrags
<1> QED BY <1>2, <1>3

LEMMA TxInvBounds == TxInv => CallBounded
<1> SUFFICES ASSUME TxInv PROVE CallBounded
  OBVIOUS
<1>1. CASE pc \in NetPcs
  BY <1>1, FramesAhead DEF CallBounded, CallLeft, NetPcs, MaxFrags
<1>2. CASE pc \notin NetPcs
  BY <1>2 DEF CallBounded, CallLeft, NetPcs, MaxFrags, TxInv, TypeOK
<1> QED BY <1>1, <1>2

LEMMA CallStep == TxInv => CallShrinks
<1> SUFFICES ASSUME TxInv PROVE CallShrinks
  OBVIOUS
<1>1. ASSUME AddPacket PROVE CallLeft' < CallLeft
  <2>1. pc = "packet" /\ FramesLeft' = FramesLeft /\ FramesLeft \in 1 .. MaxFrags
    BY <1>1, FramesAhead DEF AddPacket, FramesLeft, Fragmented, Total, callVars, fragmenter, NetPcs
  <2>2. pc' \in {"header", "idle"}
    BY <1>1 DEF AddPacket, ContinueAt, Return
  <2> QED BY <2>1, <2>2 DEF CallLeft, MaxFrags
<1>2. ASSUME BuildHeader PROVE CallLeft' < CallLeft
  <2>1. pc = "header" /\ FramesLeft' = FramesLeft /\ FramesLeft \in 1 .. MaxFrags
    BY <1>2, FramesAhead DEF BuildHeader, FramesLeft, Fragmented, Total, callVars, fragmenter, NetPcs
  <2>2. pc' \in {"send", "idle"}
    BY <1>2 DEF BuildHeader, ContinueAt, Return
  <2> QED BY <2>1, <2>2 DEF CallLeft, MaxFrags
<1>3. ASSUME SendFrame PROVE CallLeft' < CallLeft
  <2>1. /\ pc = "send" /\ FramesLeft \in 1 .. MaxFrags /\ UNCHANGED callVars
        /\ Fragmented => Total \in Nat /\ counter \in Nat
    BY <1>3, FramesAhead DEF SendFrame, NetPcs
  <2>2. CASE pc' = "idle"
    BY <2>1, <2>2 DEF CallLeft, MaxFrags
  <2>3. CASE pc' = "packet" /\ Fragmented /\ counter' = counter + 1
    <3>1. Fragmented' /\ Total' = Total
      BY <2>1, <2>3 DEF Fragmented, Total, callVars
    <3>2. FramesLeft' = FramesLeft - 1
      BY <2>1, <2>3, <3>1 DEF FramesLeft
    <3> QED BY <2>1, <2>3, <3>2 DEF CallLeft, MaxFrags
  <2> QED BY <1>3, <2>2, <2>3 DEF SendFrame, FrameTaken, FrameRefused, ContinueAt, Return
<1>4. ASSUME UdpStep PROVE CallLeft' < CallLeft
  BY <1>4 DEF UdpStep, AddPayload, BuildUdpHeader, BuildIpHeader, BuildNetifHeader, DispatchUdp,
              ReturnNothing, ContinueAt, CallLeft
<1>5. ASSUME OtherThreads PROVE UNCHANGED CallLeft
  <2>1. UNCHANGED <<pc, size, mtu, counter>>
    BY <1>5 DEF OtherThreads, Transmitted, OthersAllocate, OthersRelease, callVars, fragmenter
  <2> QED BY <2>1 DEF CallLeft, FramesLeft, Fragmented, Total
<1> QED BY <1>1, <1>2, <1>3, <1>4, <1>5 DEF NetfaceStep, CallShrinks

(* Each step brings a call nearer to its end, also one on which an         *)
(* allocation or a hand-over fails, and what the other threads do to the   *)
(* buffer in between never sets it back: after at most 96 steps of its own *)
(* ndn_netface_send or ndn_udp_face_send has returned or faulted.          *)
THEOREM CallsAreBounded == Spec => []CallBounded /\ [][CallShrinks]_vars
<1> QED BY CallStep, TxInvBounds, TxInvariant, PTL

=============================================================================
