---------------------------- MODULE L2LinkProofs ----------------------------
(***************************************************************************)
(* Theorems about L2Link, for any number of senders and packets, all sizes *)
(* and MTUs: what the receiver is given was sent.                          *)
(***************************************************************************)
EXTENDS L2Link, L2FragProofs

-----------------------------------------------------------------------------
(* The senders and the air *)

(* Each packet is with one sender, which has sent a frame of it only below *)
(* its next number, in increasing order.                                   *)
SendersInv ==
  /\ \A n \in Senders :
       sending[n] # Nothing =>
         sending[n] \in sent /\ Sendable(sending[n]) /\ next[n] < Total(sending[n])
  /\ \A m, n \in Senders : sending[m] = sending[n] /\ sending[m] # Nothing => m = n

AirInv ==
  /\ \A n \in Senders : \A i \in 1 .. Len(air[n]) :
       /\ air[n][i].pkt \in sent /\ Sendable(air[n][i].pkt)
       /\ air[n][i].seq < Total(air[n][i].pkt)
  /\ \A m, n \in Senders : \A i \in 1 .. Len(air[n]) :
       sending[m] = air[n][i].pkt => m = n /\ air[n][i].seq < next[n]
  /\ \A m, n \in Senders : \A i \in 1 .. Len(air[m]), j \in 1 .. Len(air[n]) :
       air[m][i].pkt = air[n][j].pkt => m = n
  /\ \A n \in Senders : \A i, j \in 1 .. Len(air[n]) :
       i < j /\ air[n][i].pkt = air[n][j].pkt => air[n][i].seq < air[n][j].seq

(* A packet that was delivered has no frame left that could be received.   *)
LogInv ==
  \A k \in 1 .. Len(log) : log[k] # Garbled =>
    /\ log[k] \in sent
    /\ \A n \in Senders : sending[n] # log[k]
    /\ \A n \in Senders : \A i \in 1 .. Len(air[n]) : air[n][i].pkt # log[k]

(* The bytes in the buffer of a face are, between two handlers, the first  *)
(* fragments of one packet, the one whose identifier its assembler holds.  *)
Begun(b, c) ==
  IF b.seq = 0
  THEN b = AssemblerInit
  ELSE \E p \in sent : /\ Fragmented(p) /\ b.id = ids[p] /\ b.seq < Total(p)
                       /\ \A i \in 1 .. Len(c) : c[i] = Frame(p, i - 1)

AsmInv ==
  \A i \in Faces :
    /\ ~ assembler[i].finished
    /\ Len(content[i]) = assembler[i].seq
    /\ ~ Collision => Begun(assembler[i], content[i])

LinkInv ==
  /\ TypeOK
  /\ \A p \in sent : Fragmented(p) => ids[p] \in FragIds
  /\ SendersInv
  /\ AirInv
  /\ LogInv
  /\ AsmInv
  /\ GarbledOnlyOnCollision

-----------------------------------------------------------------------------
(* Packets and frames *)

LEMMA TotalType ==
  ASSUME NEW p \in Packets, Sendable(p)
  PROVE  Total(p) \in Nat /\ Total(p) > 0 /\ Total(p) <= MaxFrags
<1>1. Size[p] \in Nat \ {0} /\ Mtu \in Nat
  BY SizeAssumption, MtuAssumption
<1>2. CASE Fragmented(p)
  <2>1. Fragmentable(Size[p], Mtu)
    BY <1>2 DEF Sendable
  <2> QED BY <1>1, <1>2, <2>1, FragmentCount DEF Total
<1>3. CASE ~ Fragmented(p)
  BY <1>3 DEF Total, MaxFrags
<1> QED BY <1>2, <1>3

LEMMA SeqRange ==
  ASSUME NEW k \in Nat, NEW t \in Nat, k < t, t <= MaxFrags
  PROVE  k \in 0 .. MaxFrags - 1 /\ k + 1 \in 0 .. MaxFrags
BY DEF MaxFrags

LEMMA NextNat ==
  ASSUME TypeOK, NEW n \in Senders
  PROVE  next[n] \in Nat
<1>1. next[n] \in 0 .. MaxFrags
  BY DEF TypeOK
<1> QED BY <1>1 DEF MaxFrags

LEMMA FrameFacts ==
  ASSUME NEW f \in FrameType
  PROVE  /\ f.pkt \in Packets /\ f.seq \in 0 .. MaxFrags - 1 /\ f.seq \in Nat
         /\ f = Frame(f.pkt, f.seq)
<1>1. f.pkt \in Packets /\ f.seq \in 0 .. MaxFrags - 1 /\ f = Frame(f.pkt, f.seq)
  BY DEF FrameType, Frame
<1> QED BY <1>1 DEF MaxFrags

(* The header of a frame in the air is one that the assembler can read. *)
LEMMA HeaderFacts ==
  ASSUME NEW f \in FrameType, Sendable(f.pkt), Fragmented(f.pkt), f.seq < Total(f.pkt),
         ids[f.pkt] \in FragIds
  PROVE  LET h == Header(f)
         IN  /\ h.id = ids[f.pkt] /\ h.id \in FragIds
             /\ h.seq = f.seq /\ h.seq \in 0 .. MaxFrags - 1
             /\ (h.last <=> f.seq = Total(f.pkt) - 1) /\ h.last \in BOOLEAN
             /\ h.len \in Nat
<1> DEFINE p == f.pkt
           c == f.seq
           F == FragFrameSize(Size[p], Mtu, c, c * (Mtu - HdrLen))
<1>1. p \in Packets /\ c \in Nat /\ c \in 0 .. MaxFrags - 1
  BY FrameFacts DEF MaxFrags
<1>2. Size[p] \in Nat \ {0} /\ Mtu \in Nat
  BY <1>1, SizeAssumption, MtuAssumption
<1>3. Fragmentable(Size[p], Mtu) /\ c < FragTotal(Size[p], Mtu)
  BY DEF Sendable, Total
<1>4. F \in Int /\ F > HdrLen
  BY <1>1, <1>2, <1>3, FragmentFits
<1>5. F - HdrLen \in Nat
  <2> HIDE DEF F
  <2> QED BY <1>4 DEF HdrLen
<1>6. Header(f).len = F - HdrLen
  BY DEF Header
<1>7. /\ Header(f).id = ids[p] /\ Header(f).seq = c
      /\ (Header(f).last <=> c = Total(p) - 1) /\ Header(f).last \in BOOLEAN
  BY DEF Header
<1> HIDE DEF F
<1> QED BY <1>1, <1>5, <1>6, <1>7

(* Bytes that are a packet end with its last frame, and no two packets are *)
(* the same bytes.                                                         *)
LEMMA MeaningFacts ==
  ASSUME NEW c, Meaning(c) # Garbled
  PROVE  /\ Meaning(c) \in Packets
         /\ c = AllFrames(Meaning(c))
BY DEF Meaning

LEMMA LastFrame ==
  ASSUME NEW p \in Packets, Total(p) \in Nat, Total(p) > 0
  PROVE  /\ Len(AllFrames(p)) = Total(p)
         /\ AllFrames(p)[Total(p)] = Frame(p, Total(p) - 1)
         /\ AllFrames(p)[1] = Frame(p, 0)
         /\ DOMAIN AllFrames(p) = 1 .. Total(p)
<1>1. AllFrames(p) \in [1 .. Total(p) -> {Frame(p, i - 1) : i \in 1 .. Total(p)}]
  BY DEF AllFrames
<1>2. AllFrames(p) \in Seq({Frame(p, i - 1) : i \in 1 .. Total(p)})
  BY <1>1
<1>3. Len(AllFrames(p)) = Total(p)
  BY <1>1, <1>2
<1> QED BY <1>1, <1>3 DEF AllFrames

LEMMA MeaningOfPacket ==
  ASSUME NEW p \in Packets, Total(p) \in Nat, Total(p) > 0
  PROVE  Meaning(AllFrames(p)) = p
<1> DEFINE c == AllFrames(p)
           q == CHOOSE q \in Packets : c = AllFrames(q)
<1>1. q \in Packets /\ c = AllFrames(q)
  OBVIOUS
<1>2. Meaning(c) = q
  BY <1>1 DEF Meaning
<1>3. DOMAIN c = 1 .. Total(p) /\ c[1] = Frame(p, 0)
  BY LastFrame
<1>4. c = [i \in 1 .. Total(q) |-> Frame(q, i - 1)]
  BY <1>1 DEF AllFrames
<1>5. 1 \in DOMAIN c
  BY <1>3
<1> HIDE DEF c, q
<1>6. 1 \in 1 .. Total(q)
  BY <1>4, <1>5
<1>7. c[1] = Frame(q, 0)
  BY <1>4, <1>6
<1>8. p = q
  BY <1>3, <1>7 DEF Frame
<1> QED BY <1>2, <1>8 DEF c

-----------------------------------------------------------------------------
(* The steps *)

LEMMA LinkInit == Init => LinkInv
<1> SUFFICES ASSUME Init PROVE LinkInv
  OBVIOUS
<1> USE DEF Init
<1>1. TypeOK
  BY InitialAssembler DEF TypeOK, MaxFrags
<1>2. SendersInv
  BY DEF SendersInv
<1>3. AirInv
  BY DEF AirInv
<1>4. LogInv
  BY DEF LogInv
<1>5. AsmInv
  BY DEF AsmInv, Begun, AssemblerInit
<1>6. GarbledOnlyOnCollision
  BY DEF GarbledOnlyOnCollision
<1> QED BY <1>1, <1>2, <1>3, <1>4, <1>5, <1>6 DEF LinkInv

LEMMA StartSendStep ==
  ASSUME LinkInv, NEW n \in Senders, NEW p \in Packets, NEW id \in FragIds,
         StartSend(n, p, id)
  PROVE  LinkInv'
<1> USE DEF LinkInv, StartSend
<1>1. /\ \A q \in sent : q # p /\ ids'[q] = ids[q]
      /\ (Fragmented(p) => ids'[p] = id) /\ p \in sent' /\ sent \subseteq sent'
      /\ \A m \in Senders : sending'[m] = IF m = n THEN p ELSE sending[m]
      /\ \A m \in Senders : next'[m] = IF m = n THEN 0 ELSE next[m]
      /\ UNCHANGED <<air, assembler, content, log>>
  BY DEF TypeOK
<1>2. Collision => Collision'
  BY <1>1 DEF Collision
<1>3. TypeOK'
  BY DEF TypeOK, MaxFrags
<1>4. \A q \in sent' : Fragmented(q) => ids'[q] \in FragIds
  BY <1>1
<1>5. SendersInv'
  <2>1. Total(p) > 0 /\ Total(p) \in Nat /\ Sendable(p)
    BY TotalType
  <2>2. \A m \in Senders : m # n /\ sending[m] # Nothing => sending[m] # p
    BY DEF SendersInv
  <2> QED BY <1>1, <2>1, <2>2 DEF SendersInv
<1>6. AirInv'
  BY <1>1 DEF AirInv
<1>7. LogInv'
  BY <1>1 DEF LogInv
<1>8. AsmInv'
  <2>1. ~ Collision' => ~ Collision
    BY <1>2
  <2> QED BY <1>1, <2>1 DEF AsmInv, Begun
<1>9. GarbledOnlyOnCollision'
  BY <1>1, <1>2 DEF GarbledOnlyOnCollision
<1> QED BY <1>3, <1>4, <1>5, <1>6, <1>7, <1>8, <1>9

LEMMA SendFrameStep ==
  ASSUME LinkInv, NEW n \in Senders, SendFrame(n)
  PROVE  LinkInv'
<1> DEFINE p == sending[n]
           f == Frame(p, next[n])
           L == Len(air[n])
<1> USE DEF LinkInv, SendFrame
<1>1. /\ p \in Packets /\ p \in sent /\ Sendable(p) /\ next[n] \in Nat
      /\ next[n] < Total(p) /\ Total(p) \in Nat /\ Total(p) <= MaxFrags
  <2>1. p \in Packets /\ p \in sent /\ Sendable(p) /\ next[n] \in Nat /\ next[n] < Total(p)
    BY DEF TypeOK, SendersInv
  <2> QED BY <2>1, TotalType
<1>2. f \in FrameType /\ f.pkt = p /\ f.seq = next[n]
  <2>1. next[n] \in 0 .. MaxFrags - 1
    BY <1>1, SeqRange
  <2>2. \A q \in Packets, k \in 0 .. MaxFrags - 1 : Frame(q, k) \in FrameType
    BY DEF FrameType
  <2> QED BY <1>1, <2>1, <2>2 DEF Frame
<1>3. /\ \A m \in Senders : air[m] \in Seq(FrameType) /\ Len(air[m]) \in Nat
      /\ \A m \in Senders : m # n => air'[m] = air[m] /\ sending'[m] = sending[m]
                                    /\ next'[m] = next[m]
      /\ air'[n] = Append(air[n], f)
      /\ next'[n] = next[n] + 1
      /\ sending'[n] \in {p, Nothing}
      /\ sending'[n] = p => next[n] + 1 < Total(p)
      /\ UNCHANGED <<sent, ids, assembler, content, log>>
  <2>1. \A m \in Senders : air[m] \in Seq(FrameType)
    BY DEF TypeOK
  <2>2. p # Nothing
    OBVIOUS
  <2> QED BY <2>1, <2>2 DEF TypeOK
<1>4. /\ air'[n] \in Seq(FrameType) /\ Len(air'[n]) = L + 1
      /\ air'[n][L + 1] = f
      /\ \A i \in 1 .. L : air'[n][i] = air[n][i]
  BY <1>2, <1>3
<1>5. \A m \in Senders : \A i \in 1 .. Len(air'[m]) :
        \/ i \in 1 .. Len(air[m]) /\ air'[m][i] = air[m][i]
        \/ m = n /\ i = L + 1 /\ air'[m][i] = f
  BY <1>3, <1>4
<1>6. TypeOK'
  <2>1. air' \in [Senders -> Seq(FrameType)]
    BY <1>3, <1>4 DEF TypeOK
  <2>2. next' \in [Senders -> 0 .. MaxFrags]
    <3>1. next[n] + 1 \in 0 .. MaxFrags
      BY <1>1, SeqRange
    <3> QED BY <3>1 DEF TypeOK
  <2>3. sending' \in [Senders -> Packets \cup {Nothing}]
    BY <1>1, <1>3 DEF TypeOK
  <2> QED BY <1>3, <2>1, <2>2, <2>3 DEF TypeOK
<1>7. SendersInv'
  BY <1>1, <1>3 DEF SendersInv
<1>8. AirInv'
  <2>1. \A m \in Senders : \A i \in 1 .. Len(air'[m]) :
          /\ air'[m][i].pkt \in sent /\ Sendable(air'[m][i].pkt)
          /\ air'[m][i].seq < Total(air'[m][i].pkt)
    BY <1>1, <1>2, <1>5 DEF AirInv
  <2>2. \A k \in Senders : sending[k] = p => k = n
    BY <1>1 DEF SendersInv
  <2>3. \A k, m \in Senders : \A i \in 1 .. Len(air'[m]) :
          sending'[k] = air'[m][i].pkt => k = m /\ air'[m][i].seq < next'[k]
    <3> SUFFICES ASSUME NEW k \in Senders, NEW m \in Senders, NEW i \in 1 .. Len(air'[m]),
                        sending'[k] = air'[m][i].pkt
                 PROVE  k = m /\ air'[m][i].seq < next'[k]
      OBVIOUS
    <3>1. sending'[k] = sending[k]
      <4>1. sending'[k] # Nothing
        BY <2>1, OtherAssumption DEF TypeOK
      <4> QED BY <4>1, <1>3
    <3>2. CASE i \in 1 .. Len(air[m]) /\ air'[m][i] = air[m][i]
      <4>1. k = m /\ air[m][i].seq < next[k]
        BY <3>1, <3>2 DEF AirInv
      <4>2. air[m][i].seq \in Nat /\ next[k] \in Nat
        <5>1. air[m][i] \in FrameType
          BY <1>3, <3>2
        <5>2. next[k] \in Nat
          BY NextNat
        <5> QED BY <5>1, <5>2, FrameFacts
      <4> QED BY <1>3, <3>2, <4>1, <4>2
    <3>3. CASE m = n /\ i = L + 1 /\ air'[m][i] = f
      <4>1. k = n
        BY <1>2, <2>2, <3>1, <3>3
      <4> QED BY <1>1, <1>2, <1>3, <3>3, <4>1
    <3> QED BY <1>5, <3>2, <3>3
  <2>4. \A k, m \in Senders : \A i \in 1 .. Len(air'[k]), j \in 1 .. Len(air'[m]) :
          air'[k][i].pkt = air'[m][j].pkt => k = m
    <3>1. \A m \in Senders : \A i \in 1 .. Len(air[m]) : air[m][i].pkt = p => m = n
      BY DEF AirInv
    <3> QED BY <1>2, <1>5, <3>1 DEF AirInv
  <2>5. \A m \in Senders : \A i, j \in 1 .. Len(air'[m]) :
          i < j /\ air'[m][i].pkt = air'[m][j].pkt => air'[m][i].seq < air'[m][j].seq
    <3> SUFFICES ASSUME NEW m \in Senders, NEW i \in 1 .. Len(air'[m]),
                        NEW j \in 1 .. Len(air'[m]),
                        i < j, air'[m][i].pkt = air'[m][j].pkt
                 PROVE  air'[m][i].seq < air'[m][j].seq
      OBVIOUS
    <3>1. i \in 1 .. Len(air[m]) /\ air'[m][i] = air[m][i]
      BY <1>3, <1>4, <1>5
    <3>2. CASE j \in 1 .. Len(air[m]) /\ air'[m][j] = air[m][j]
      BY <3>1, <3>2 DEF AirInv
    <3>3. CASE m = n /\ j = L + 1 /\ air'[m][j] = f
      BY <1>2, <3>1, <3>3 DEF AirInv
    <3> QED BY <1>5, <3>2, <3>3
  <2>6. sent' = sent
    BY <1>3
  <2> HIDE DEF LinkInv, SendFrame, p, f, L
  <2> QED BY <2>1, <2>3, <2>4, <2>5, <2>6 DEF AirInv
<1>9. LogInv'
  <2>1. \A k \in 1 .. Len(log) : log[k] # Garbled => log[k] # p /\ log[k] # Nothing
    BY OtherAssumption DEF LogInv, TypeOK
  <2> QED BY <1>2, <1>3, <1>5, <2>1 DEF LogInv
<1>10. AsmInv'
  BY <1>3 DEF AsmInv, Begun, Collision
<1>11. GarbledOnlyOnCollision'
  BY <1>3 DEF GarbledOnlyOnCollision, Collision
<1> QED BY <1>3, <1>6, <1>7, <1>8, <1>9, <1>10, <1>11

LEMMA GiveUpStep ==
  ASSUME LinkInv, NEW n \in Senders, GiveUp(n)
  PROVE  LinkInv'
<1> USE DEF LinkInv, GiveUp
<1>1. /\ \A m \in Senders : sending'[m] = IF m = n THEN Nothing ELSE sending[m]
      /\ UNCHANGED <<sent, ids, next, air, assembler, content, log>>
  BY DEF TypeOK
<1>2. TypeOK'
  BY DEF TypeOK
<1>3. SendersInv'
  BY <1>1 DEF SendersInv
<1>4. AirInv'
  <2>1. \A m \in Senders : \A i \in 1 .. Len(air[m]) : air[m][i].pkt # Nothing
    BY OtherAssumption DEF AirInv, TypeOK
  <2> QED BY <1>1, <2>1 DEF AirInv
<1>5. LogInv'
  <2>1. \A k \in 1 .. Len(log) : log[k] # Garbled => log[k] # Nothing
    BY OtherAssumption DEF LogInv, TypeOK
  <2> QED BY <1>1, <2>1 DEF LogInv
<1>6. AsmInv'
  BY <1>1 DEF AsmInv, Begun, Collision
<1>7. GarbledOnlyOnCollision'
  BY <1>1 DEF GarbledOnlyOnCollision, Collision
<1> QED BY <1>1, <1>2, <1>3, <1>4, <1>5, <1>6, <1>7

-----------------------------------------------------------------------------
(* Frames that leave the air, and what the receiver makes of them *)

(* Taking the first frame of a sender off the air leaves every other frame *)
(* in its place.                                                           *)
LEMMA TailFacts ==
  ASSUME TypeOK, NEW n \in Senders, air[n] # <<>>,
         air' = [air EXCEPT ![n] = Tail(@)]
  PROVE  /\ air' \in [Senders -> Seq(FrameType)]
         /\ \A m \in Senders : Len(air[m]) \in Nat /\ Len(air'[m]) \in Nat
         /\ Len(air[n]) > 0 /\ Head(air[n]) = air[n][1] /\ Head(air[n]) \in FrameType
         /\ \A m \in Senders : \A i \in 1 .. Len(air'[m]) :
              IF m = n THEN i + 1 \in 1 .. Len(air[n]) /\ air'[m][i] = air[n][i + 1]
                       ELSE i \in 1 .. Len(air[m]) /\ air'[m][i] = air[m][i]
<1>1. air \in [Senders -> Seq(FrameType)]
  BY DEF TypeOK
<1>2. /\ Tail(air[n]) \in Seq(FrameType) /\ Len(Tail(air[n])) = Len(air[n]) - 1
      /\ \A i \in 1 .. Len(air[n]) - 1 : Tail(air[n])[i] = air[n][i + 1]
      /\ Len(air[n]) > 0 /\ Head(air[n]) = air[n][1] /\ Head(air[n]) \in FrameType
  BY <1>1
<1>3. \A m \in Senders : air'[m] = IF m = n THEN Tail(air[n]) ELSE air[m]
  BY <1>1
<1>4. \A m \in Senders : Len(air[m]) \in Nat
  BY <1>1
<1>5. air' \in [Senders -> Seq(FrameType)]
  BY <1>1, <1>2
<1>6. \A m \in Senders : Len(air'[m]) \in Nat
  BY <1>5
<1>7. \A m \in Senders : \A i \in 1 .. Len(air'[m]) :
        IF m = n THEN i + 1 \in 1 .. Len(air[n]) /\ air'[m][i] = air[n][i + 1]
                 ELSE i \in 1 .. Len(air[m]) /\ air'[m][i] = air[m][i]
  <2> SUFFICES ASSUME NEW m \in Senders, NEW i \in 1 .. Len(air'[m])
               PROVE  IF m = n THEN i + 1 \in 1 .. Len(air[n]) /\ air'[m][i] = air[n][i + 1]
                               ELSE i \in 1 .. Len(air[m]) /\ air'[m][i] = air[m][i]
    OBVIOUS
  <2>1. CASE m = n
    <3>1. air'[m] = Tail(air[n]) /\ i \in 1 .. Len(air[n]) - 1 /\ Len(air[n]) \in Nat
      BY <1>2, <1>3, <1>4, <2>1
    <3>2. i + 1 \in 1 .. Len(air[n])
      BY <3>1
    <3> QED BY <1>2, <2>1, <3>1, <3>2
  <2>2. CASE m # n
    BY <1>3, <2>2
  <2> QED BY <2>1, <2>2
<1> QED BY <1>2, <1>4, <1>5, <1>6, <1>7

LEMMA TailAir ==
  ASSUME LinkInv, NEW n \in Senders, air[n] # <<>>,
         air' = [air EXCEPT ![n] = Tail(@)], UNCHANGED txVars
  PROVE  SendersInv' /\ AirInv' /\ (UNCHANGED log => LogInv')
<1> USE DEF txVars
<1>1. TypeOK /\ SendersInv /\ AirInv /\ LogInv
  BY DEF LinkInv
<1>2. /\ \A m \in Senders : Len(air[m]) \in Nat /\ Len(air'[m]) \in Nat
      /\ \A m \in Senders : \A i \in 1 .. Len(air'[m]) :
           IF m = n THEN i + 1 \in 1 .. Len(air[n]) /\ air'[m][i] = air[n][i + 1]
                    ELSE i \in 1 .. Len(air[m]) /\ air'[m][i] = air[m][i]
  BY <1>1, TailFacts
<1>3. SendersInv'
  BY <1>1 DEF SendersInv
<1>4. \A m \in Senders : \A i \in 1 .. Len(air'[m]) :
        \E k \in 1 .. Len(air[m]) : air'[m][i] = air[m][k]
  BY <1>2
<1>5. \A m \in Senders : \A i, j \in 1 .. Len(air'[m]) : i < j =>
        \E k, l \in 1 .. Len(air[m]) :
          k < l /\ air'[m][i] = air[m][k] /\ air'[m][j] = air[m][l]
  <2> SUFFICES ASSUME NEW m \in Senders, NEW i \in 1 .. Len(air'[m]),
                      NEW j \in 1 .. Len(air'[m]), i < j
               PROVE  \E k, l \in 1 .. Len(air[m]) :
                        k < l /\ air'[m][i] = air[m][k] /\ air'[m][j] = air[m][l]
    OBVIOUS
  <2>1. CASE m = n
    <3>1. /\ i + 1 \in 1 .. Len(air[m]) /\ j + 1 \in 1 .. Len(air[m])
          /\ air'[m][i] = air[m][i + 1] /\ air'[m][j] = air[m][j + 1]
      BY <1>2, <2>1
    <3>2. i + 1 < j + 1
      BY <1>2
    <3> QED BY <3>1, <3>2
  <2>2. CASE m # n
    BY <1>2, <2>2
  <2> QED BY <2>1, <2>2
<1>6. AirInv'
  <2>1. \A m \in Senders : \A i \in 1 .. Len(air'[m]) :
          /\ air'[m][i].pkt \in sent' /\ Sendable(air'[m][i].pkt)
          /\ air'[m][i].seq < Total(air'[m][i].pkt)
    BY <1>1, <1>4 DEF AirInv
  <2>2. \A k, m \in Senders : \A i \in 1 .. Len(air'[m]) :
          sending'[k] = air'[m][i].pkt => k = m /\ air'[m][i].seq < next'[m]
    <3> SUFFICES ASSUME NEW k \in Senders, NEW m \in Senders, NEW i \in 1 .. Len(air'[m]),
                        sending[k] = air'[m][i].pkt
                 PROVE  k = m /\ air'[m][i].seq < next[m]
      OBVIOUS
    <3>1. PICK j \in 1 .. Len(air[m]) : air'[m][i] = air[m][j]
      BY <1>4
    <3>2. sending[k] = air[m][j].pkt
      BY <3>1
    <3>3. k = m /\ air[m][j].seq < next[m]
      BY <1>1, <3>2 DEF AirInv
    <3> QED BY <3>1, <3>3
  <2>3. \A k, m \in Senders : \A i \in 1 .. Len(air'[k]), j \in 1 .. Len(air'[m]) :
          air'[k][i].pkt = air'[m][j].pkt => k = m
    <3> SUFFICES ASSUME NEW k \in Senders, NEW m \in Senders, NEW i \in 1 .. Len(air'[k]),
                        NEW j \in 1 .. Len(air'[m]), air'[k][i].pkt = air'[m][j].pkt
                 PROVE  k = m
      OBVIOUS
    <3>1. PICK g \in 1 .. Len(air[k]) : air'[k][i] = air[k][g]
      BY <1>4
    <3>2. PICK h \in 1 .. Len(air[m]) : air'[m][j] = air[m][h]
      BY <1>4
    <3>3. air[k][g].pkt = air[m][h].pkt
      BY <3>1, <3>2
    <3> QED BY <1>1, <3>3 DEF AirInv
  <2>4. \A m \in Senders : \A i, j \in 1 .. Len(air'[m]) :
          i < j /\ air'[m][i].pkt = air'[m][j].pkt => air'[m][i].seq < air'[m][j].seq
    BY <1>1, <1>5 DEF AirInv
  <2> QED BY <2>1, <2>2, <2>3, <2>4, Zenon DEF AirInv
<1>7. UNCHANGED log => LogInv'
  BY <1>1, <1>4 DEF LogInv
<1> QED BY <1>3, <1>6, <1>7

LEMMA LoseStep ==
  ASSUME LinkInv, NEW n \in Senders, Lose(n)
  PROVE  LinkInv'
<1> USE DEF Lose, txVars
<1>1. SendersInv' /\ AirInv' /\ LogInv'
  BY TailAir
<1>2. TypeOK'
  <2>1. air' \in [Senders -> Seq(FrameType)]
    BY TailFacts DEF LinkInv
  <2> QED BY <2>1 DEF LinkInv, TypeOK
<1>3. AsmInv'
  BY DEF LinkInv, AsmInv, Begun, Collision
<1>4. GarbledOnlyOnCollision'
  BY DEF LinkInv, GarbledOnlyOnCollision, Collision
<1> QED BY <1>1, <1>2, <1>3, <1>4 DEF LinkInv

(* One fragment at the assembler: the bytes up to the offset are as many   *)
(* fragments as the assembler counts, and unless two packets have the same *)
(* identifier they are the first fragments of one packet.                  *)
LEMMA AssembleStep ==
  ASSUME LinkInv, NEW k \in Faces,
         NEW f \in FrameType, f.pkt \in sent, Sendable(f.pkt),
         Fragmented(f.pkt), f.seq < Total(f.pkt),
         NEW b \in AssembleFrag(assembler[k], Header(f))
  PROVE  LET c == Copied(k, b, f)
         IN  /\ b \in Assembler /\ c \in Seq(FrameType) /\ Len(c) = b.seq
             /\ b.finished => Len(c) > 0 /\ c[Len(c)] = f
             /\ ~ Collision =>
                  IF b.finished THEN c = AllFrames(f.pkt) ELSE Begun(b, c)
<1> DEFINE h == Header(f)
           c == Copied(k, b, f)
           a == assembler[k]
           d == content[k]
           T == Total(f.pkt)
<1>1. /\ a \in Assembler /\ d \in Seq(FrameType) /\ Len(d) = a.seq
      /\ ~ a.finished /\ sent \subseteq Packets /\ ids[f.pkt] \in FragIds
  BY DEF LinkInv, TypeOK, AsmInv
<1>2. /\ h.id = ids[f.pkt] /\ h.id \in FragIds /\ h.seq = f.seq
      /\ h.seq \in 0 .. MaxFrags - 1 /\ (h.last <=> f.seq = T - 1)
      /\ h.last \in BOOLEAN /\ h.len \in Nat
  BY <1>1, HeaderFacts
<1>3. b \in Assembler
  BY <1>1, <1>2, AssembleFragType
<1>4. f.pkt \in Packets /\ f.seq \in Nat /\ f = Frame(f.pkt, f.seq)
  BY FrameFacts
<1>5. T \in Nat /\ T > 0 /\ T <= MaxFrags /\ f.seq < T
  BY <1>4, TotalType
<1>6. a.seq \in Nat
  BY <1>1 DEF Assembler, MaxFrags
<1> HIDE DEF h, T
<1>7. CASE b = a
  BY <1>1, <1>3, <1>6, <1>7 DEF Copied, LinkInv, AsmInv
<1>8. CASE b = Extended(a, h) /\ Continues(a, h)
  <2>1. /\ b.seq = a.seq + 1 /\ b.id = ids[f.pkt] /\ f.seq = a.seq
        /\ (b.finished <=> f.seq = T - 1) /\ a.id \in {NoId, ids[f.pkt]}
    BY <1>2, <1>8 DEF Extended, Continues
  <2>2. b # a
    BY <1>6, <2>1
  <2>3. c = Append(d, f)
    <3>1. CASE b.seq = 1
      <4>1. Len(d) = 0
        BY <1>1, <1>6, <2>1, <3>1
      <4>2. d = <<>>
        BY <1>1, <4>1
      <4> QED BY <2>2, <3>1, <4>2 DEF Copied
    <3>2. CASE b.seq # 1
      BY <2>2, <3>2 DEF Copied
    <3> QED BY <3>1, <3>2
  <2>4. /\ c \in Seq(FrameType) /\ Len(c) = a.seq + 1 /\ c[Len(c)] = f
        /\ \A i \in 1 .. a.seq : c[i] = d[i]
    BY <1>1, <2>3
  <2>5. ASSUME ~ Collision
        PROVE  \A i \in 1 .. Len(c) : c[i] = Frame(f.pkt, i - 1)
    <3>1. CASE a.seq = 0
      BY <1>4, <2>1, <2>4, <3>1
    <3>2. CASE a.seq # 0
      <4>1. PICK p \in sent : /\ Fragmented(p) /\ a.id = ids[p]
                              /\ \A i \in 1 .. Len(d) : d[i] = Frame(p, i - 1)
        BY <2>5, <3>2 DEF LinkInv, AsmInv, Begun
      <4>2. ids[p] # NoId
        BY <4>1, NoIdAssumption DEF LinkInv
      <4>3. p = f.pkt
        BY <2>1, <2>5, <4>1, <4>2 DEF Collision
      <4>4. \A i \in 1 .. a.seq : c[i] = Frame(f.pkt, i - 1)
        BY <1>1, <2>4, <4>1, <4>3
      <4>5. c[a.seq + 1] = Frame(f.pkt, (a.seq + 1) - 1)
        BY <1>4, <1>6, <2>1, <2>4
      <4>6. \A i \in 1 .. Len(c) : i \in 1 .. a.seq \/ i = a.seq + 1
        BY <1>6, <2>4
      <4> HIDE DEF a, c, d
      <4> QED BY <4>4, <4>5, <4>6
    <3> QED BY <3>1, <3>2
  <2>6. ASSUME ~ Collision, b.finished
        PROVE  c = AllFrames(f.pkt)
    <3>1. Len(c) = T
      BY <1>4, <1>5, <1>6, <2>1, <2>4, <2>6
    <3>2. c = [i \in 1 .. T |-> Frame(f.pkt, i - 1)]
      BY <2>4, <2>5, <2>6, <3>1
    <3> QED BY <3>2 DEF AllFrames, T
  <2>7. ~ b.finished => b.seq < T /\ b.seq # 0
    BY <1>4, <1>5, <1>6, <2>1
  <2> HIDE DEF c
  <2> QED BY <1>3, <1>6, <2>1, <2>4, <2>5, <2>6, <2>7 DEF c, T, Begun
<1>9. CASE b = Extended(AssemblerInit, h) /\ Continues(AssemblerInit, h) /\ b # a
  <2>1. /\ b.seq = 1 /\ b.id = ids[f.pkt] /\ f.seq = 0
        /\ (b.finished <=> f.seq = T - 1)
    BY <1>2, <1>9 DEF Extended, Continues, AssemblerInit
  <2>2. c = <<f>>
    BY <1>9, <2>1 DEF Copied
  <2>3. /\ c \in Seq(FrameType) /\ Len(c) = 1 /\ c[Len(c)] = f
        /\ \A i \in 1 .. Len(c) : c[i] = Frame(f.pkt, i - 1)
    BY <1>4, <2>1, <2>2
  <2>4. b.finished => c = AllFrames(f.pkt)
    <3>1. b.finished => T = 1
      BY <1>5, <2>1
    <3>2. b.finished => c = [i \in 1 .. T |-> Frame(f.pkt, i - 1)]
      BY <2>2, <2>3, <3>1
    <3> QED BY <3>2 DEF AllFrames, T
  <2>5. ~ b.finished => b.seq < T
    BY <1>5, <2>1
  <2> HIDE DEF c
  <2> QED BY <1>3, <2>1, <2>3, <2>4, <2>5 DEF c, T, Begun
<1> QED BY <1>7, <1>8, <1>9, AssembleFragCases DEF h

(* What the forwarder is given when the first frame in the air is received:*)
(* a packet that was sent and of which nothing more is on its way, or, if  *)
(* two packets have the same identifier, bytes that are no packet.         *)
PacketDelivered ==
  \E p \in sent : log' = Append(log, p) /\ \A i \in 1 .. Len(log) : log[i] # p

LEMMA DeliverFacts ==
  ASSUME LinkInv, NEW n \in Senders, air[n] # <<>>,
         air' = [air EXCEPT ![n] = Tail(@)], UNCHANGED txVars,
         NEW c \in Seq(FrameType), Len(c) > 0, c[Len(c)] = Head(air[n]),
         ~ Collision => c = AllFrames(Head(air[n]).pkt),
         log' = Append(log, Meaning(c))
  PROVE  /\ log' \in Seq(Packets \cup {Garbled})
         /\ LogInv'
         /\ GarbledOnlyOnCollision'
         /\ PacketDelivered \/ (Collision /\ log' = Append(log, Garbled))
<1> DEFINE f == Head(air[n])
           m == Meaning(c)
<1>1. TypeOK /\ SendersInv /\ AirInv /\ LogInv /\ GarbledOnlyOnCollision
  BY DEF LinkInv
<1>2. /\ Len(air[n]) \in Nat /\ Len(air[n]) > 0 /\ f = air[n][1] /\ f \in FrameType
      /\ \A k \in Senders : \A i \in 1 .. Len(air'[k]) :
           IF k = n THEN i + 1 \in 1 .. Len(air[n]) /\ air'[k][i] = air[n][i + 1]
                    ELSE i \in 1 .. Len(air[k]) /\ air'[k][i] = air[k][i]
  BY <1>1, TailFacts
<1>3. 1 \in 1 .. Len(air[n])
  BY <1>2
<1>4. /\ f.pkt \in Packets /\ f.seq \in Nat /\ f.pkt \in sent /\ Sendable(f.pkt)
      /\ Total(f.pkt) \in Nat /\ Total(f.pkt) > 0
  <2>1. f.pkt \in Packets /\ f.seq \in Nat
    BY <1>2, FrameFacts
  <2>2. f.pkt \in sent /\ Sendable(f.pkt)
    BY <1>1, <1>2, <1>3 DEF AirInv
  <2> QED BY <2>1, <2>2, TotalType
<1>5. m \in Packets \cup {Garbled}
  BY MeaningFacts
<1>6. log \in Seq(Packets \cup {Garbled}) /\ log' = Append(log, m)
  BY <1>1 DEF TypeOK
<1> HIDE DEF f, m
<1>7. /\ log' \in Seq(Packets \cup {Garbled}) /\ Len(log') = Len(log) + 1
      /\ Len(log) \in Nat /\ log'[Len(log) + 1] = m
      /\ \A k \in 1 .. Len(log) : log'[k] = log[k]
  BY <1>5, <1>6
<1>8. ASSUME m # Garbled
      PROVE  m = f.pkt /\ f.seq = Total(f.pkt) - 1
  <2>1. m \in Packets /\ c = AllFrames(m)
    BY <1>8, MeaningFacts DEF m
  <2>2. c = [i \in 1 .. Total(m) |-> Frame(m, i - 1)]
    BY <2>1 DEF AllFrames
  <2>3. DOMAIN c = 1 .. Len(c) /\ Len(c) \in Nat
    OBVIOUS
  <2>4. Len(c) \in 1 .. Len(c)
    BY <2>3
  <2>5. c[Len(c)] = Frame(m, Len(c) - 1)
    BY <2>2, <2>3, <2>4
  <2>6. m = f.pkt /\ f.seq = Len(c) - 1
    BY <2>5 DEF f, Frame
  <2>7. Len(c) = Total(f.pkt)
    BY <1>4, <2>1, <2>6, LastFrame
  <2> QED BY <2>6, <2>7
<1>9. ~ Collision => m = f.pkt
  BY <1>4, MeaningOfPacket DEF f, m
<1>10. \A k \in 1 .. Len(log) : log[k] # f.pkt
  BY <1>1, <1>2, <1>3, <1>4, OtherAssumption DEF LogInv
<1>11. ASSUME m # Garbled
       PROVE  /\ m \in sent
              /\ \A k \in Senders : sending[k] # m
              /\ \A k \in Senders : \A i \in 1 .. Len(air'[k]) : air'[k][i].pkt # m
  <2>1. m = f.pkt /\ f.seq = Total(m) - 1
    BY <1>8, <1>11
  <2>2. ASSUME NEW k \in Senders, sending[k] = m
        PROVE  FALSE
    <3>1. sending[k] = air[n][1].pkt
      BY <1>2, <2>1, <2>2
    <3>2. k = n /\ f.seq < next[n]
      BY <1>1, <1>2, <1>3, <3>1 DEF AirInv
    <3>3. next[n] < Total(m)
      BY <1>1, <1>4, <2>1, <2>2, <3>2, OtherAssumption DEF SendersInv
    <3>4. next[n] \in Nat /\ Total(m) \in Nat
      BY <1>1, <1>4, <2>1, NextNat
    <3> HIDE DEF m, f
    <3> QED BY <2>1, <3>2, <3>3, <3>4
  <2>3. ASSUME NEW k \in Senders, NEW i \in 1 .. Len(air'[k]), air'[k][i].pkt = m
        PROVE  FALSE
    <3>1. PICK j \in 1 .. Len(air[k]) : /\ air'[k][i] = air[k][j]
                                        /\ k = n => j > 1
      <4>1. CASE k = n
        <5>1. i + 1 \in 1 .. Len(air[k]) /\ air'[k][i] = air[k][i + 1]
          BY <1>2, <4>1
        <5>2. i + 1 > 1
          OBVIOUS
        <5> QED BY <5>1, <5>2
      <4>2. CASE k # n
        BY <1>2, <4>2
      <4> QED BY <4>1, <4>2
    <3>2. air[k][j].pkt = air[n][1].pkt
      BY <1>2, <2>1, <2>3, <3>1
    <3>3. k = n
      BY <1>1, <1>3, <3>2 DEF AirInv
    <3>4. 1 < j /\ j \in 1 .. Len(air[n])
      BY <3>1, <3>3
    <3>5. air[n][1].seq < air[n][j].seq
      BY <1>1, <1>3, <3>2, <3>3, <3>4 DEF AirInv
    <3>6. air[n][j].seq < Total(m)
      BY <1>1, <2>3, <3>1, <3>3 DEF AirInv
    <3>7. air[n][j].seq \in Nat /\ Total(m) \in Nat
      <4>1. air[n][j] \in FrameType
        BY <1>1, <3>4 DEF TypeOK
      <4> QED BY <1>4, <2>1, <4>1, FrameFacts
    <3> QED BY <1>2, <1>4, <2>1, <3>5, <3>6, <3>7
  <2> QED BY <1>4, <2>1, <2>2, <2>3
<1>12. LogInv'
  <2> SUFFICES ASSUME NEW k \in 1 .. Len(log'), log'[k] # Garbled
               PROVE  /\ log'[k] \in sent'
                      /\ \A l \in Senders : sending'[l] # log'[k]
                      /\ \A l \in Senders : \A i \in 1 .. Len(air'[l]) : air'[l][i].pkt # log'[k]
    BY DEF LogInv
  <2>1. CASE k = Len(log) + 1
    BY <1>7, <1>11, <2>1 DEF txVars
  <2>2. CASE k \in 1 .. Len(log)
    <3>1. /\ log[k] \in sent
          /\ \A l \in Senders : sending[l] # log[k]
          /\ \A l \in Senders : \A i \in 1 .. Len(air[l]) : air[l][i].pkt # log[k]
      BY <1>1, <1>7, <2>2 DEF LogInv
    <3>2. \A l \in Senders : \A i \in 1 .. Len(air'[l]) :
            \E j \in 1 .. Len(air[l]) : air'[l][i] = air[l][j]
      BY <1>2
    <3>3. \A l \in Senders : \A i \in 1 .. Len(air'[l]) : air'[l][i].pkt # log[k]
      BY <3>1, <3>2
    <3>4. log'[k] = log[k] /\ sent' = sent /\ sending' = sending
      BY <1>7, <2>2 DEF txVars
    <3>5. log'[k] \in sent'
      BY <3>1, <3>4
    <3>6. \A l \in Senders : sending'[l] # log'[k]
      BY <3>1, <3>4
    <3>7. \A l \in Senders : \A i \in 1 .. Len(air'[l]) : air'[l][i].pkt # log'[k]
      BY <3>3, <3>4
    <3> QED BY <3>5, <3>6, <3>7
  <2>3. k = Len(log) + 1 \/ k \in 1 .. Len(log)
    BY <1>7
  <2> QED BY <2>1, <2>2, <2>3
<1>13. GarbledOnlyOnCollision'
  <2>1. CASE Collision
    BY <2>1 DEF GarbledOnlyOnCollision, Collision, txVars
  <2>2. CASE ~ Collision
    <3>1. m # Garbled
      BY <1>4, <1>9, <2>2, OtherAssumption
    <3>2. \A k \in 1 .. Len(log) : log[k] # Garbled
      BY <1>1, <2>2 DEF GarbledOnlyOnCollision
    <3>3. \A k \in 1 .. Len(log') : k \in 1 .. Len(log) \/ k = Len(log) + 1
      BY <1>7
    <3> QED BY <1>7, <3>1, <3>2, <3>3 DEF GarbledOnlyOnCollision
  <2> QED BY <2>1, <2>2
<1>14. m = Garbled => Collision
  BY <1>4, <1>9, OtherAssumption
<1>15. m # Garbled => PacketDelivered
  BY <1>6, <1>8, <1>10, <1>11 DEF PacketDelivered
<1> QED BY <1>6, <1>7, <1>12, <1>13, <1>14, <1>15

(* A face whose assembler and buffer belong together keeps them so, and    *)
(* the other faces keep theirs.                                            *)
LEMMA KeepStep ==
  ASSUME TypeOK, AsmInv, NEW k \in Faces, UNCHANGED <<sent, ids>>,
         NEW b \in Assembler, NEW c \in Seq(FrameType), Keep(k, b, c),
         ~ b.finished, Len(c) = b.seq, ~ Collision => Begun(b, c)
  PROVE  /\ AsmInv' /\ assembler' \in [Faces -> Assembler]
         /\ content' \in [Faces -> Seq(FrameType)]
<1>1. /\ assembler' \in [Faces -> Assembler] /\ content' \in [Faces -> Seq(FrameType)]
      /\ assembler'[k] = b /\ content'[k] = c
      /\ \A i \in Faces : i # k => assembler'[i] = assembler[i] /\ content'[i] = content[i]
  BY DEF TypeOK, Keep
<1>2. ~ Collision' => ~ Collision
  BY DEF Collision
<1>3. ASSUME NEW i \in Faces
      PROVE  /\ ~ assembler'[i].finished
             /\ Len(content'[i]) = assembler'[i].seq
             /\ ~ Collision => Begun(assembler'[i], content'[i])
  <2>1. CASE i = k
    BY <1>1, <2>1
  <2>2. CASE i # k
    BY <1>1, <2>2 DEF AsmInv
  <2> QED BY <2>1, <2>2
<1> QED BY <1>1, <1>2, <1>3 DEF AsmInv, Begun

LEMMA ReceiveStep ==
  ASSUME LinkInv, NEW n \in Senders, NEW k \in Faces, Receive(n, k)
  PROVE  /\ LinkInv'
         /\ UNCHANGED <<sent, ids>>
         /\ UNCHANGED log \/ PacketDelivered \/ (Collision /\ log' = Append(log, Garbled))
<1> DEFINE f == Head(air[n])
<1>1. /\ TypeOK /\ AirInv /\ AsmInv /\ LogInv /\ GarbledOnlyOnCollision
      /\ \A p \in sent : Fragmented(p) => ids[p] \in FragIds
  BY DEF LinkInv
<1>2. /\ air[n] # <<>> /\ air' = [air EXCEPT ![n] = Tail(@)] /\ UNCHANGED txVars
      /\ IF Fragmented(f.pkt) THEN ReceiveFragment(k, f) ELSE ReceiveWhole(f)
  BY DEF Receive
<1>3. /\ Len(air[n]) > 0 /\ f = air[n][1] /\ f \in FrameType /\ Len(air[n]) \in Nat
      /\ air' \in [Senders -> Seq(FrameType)]
  BY <1>1, <1>2, TailFacts
<1>4. /\ f.pkt \in sent /\ Sendable(f.pkt) /\ f.seq < Total(f.pkt)
      /\ f.pkt \in Packets /\ f.seq \in Nat /\ f = Frame(f.pkt, f.seq)
  <2>1. 1 \in 1 .. Len(air[n])
    BY <1>3
  <2>2. f.pkt \in sent /\ Sendable(f.pkt) /\ f.seq < Total(f.pkt)
    BY <1>1, <1>3, <2>1 DEF AirInv
  <2> QED BY <1>3, <2>2, FrameFacts
<1>5. SendersInv' /\ AirInv' /\ (UNCHANGED log => LogInv')
  BY <1>2, TailAir
<1>6. UNCHANGED <<sent, ids, sending, next>>
  BY <1>2 DEF txVars
<1>7. \A p \in sent' : Fragmented(p) => ids'[p] \in FragIds
  BY <1>1, <1>6
<1>8. ASSUME assembler' \in [Faces -> Assembler], content' \in [Faces -> Seq(FrameType)],
             log' \in Seq(Packets \cup {Garbled})
      PROVE  TypeOK'
  BY <1>1, <1>3, <1>6, <1>8 DEF TypeOK
<1>9. UNCHANGED log => GarbledOnlyOnCollision'
  BY <1>1, <1>6 DEF GarbledOnlyOnCollision, Collision
<1> HIDE DEF f
<1>10. CASE Fragmented(f.pkt)
  <2>1. PICK b \in AssembleFrag(assembler[k], Header(f)) :
          LET c == Copied(k, b, f)
          IN  IF b.finished
              THEN Deliver(c) /\ Keep(k, AssemblerInit, <<>>)
              ELSE Keep(k, b, c) /\ UNCHANGED log
    BY <1>2, <1>10 DEF ReceiveFragment
  <2> DEFINE c == Copied(k, b, f)
  <2>2. /\ b \in Assembler /\ c \in Seq(FrameType) /\ Len(c) = b.seq
        /\ b.finished => Len(c) > 0 /\ c[Len(c)] = f
        /\ ~ Collision => IF b.finished THEN c = AllFrames(f.pkt) ELSE Begun(b, c)
    BY <1>3, <1>4, <1>10, <2>1, AssembleStep
  <2> HIDE DEF c
  <2>3. CASE b.finished
    <3>1. log' = Append(log, Meaning(c)) /\ Keep(k, AssemblerInit, <<>>)
      BY <2>1, <2>3 DEF Deliver, c
    <3>2. /\ log' \in Seq(Packets \cup {Garbled}) /\ LogInv' /\ GarbledOnlyOnCollision'
          /\ PacketDelivered \/ (Collision /\ log' = Append(log, Garbled))
      BY <1>2, <2>2, <2>3, <3>1, DeliverFacts DEF f
    <3>3. ~ AssemblerInit.finished /\ Len(<<>>) = AssemblerInit.seq /\ Begun(AssemblerInit, <<>>)
      BY DEF AssemblerInit, Begun
    <3>4. AsmInv' /\ assembler' \in [Faces -> Assembler] /\ content' \in [Faces -> Seq(FrameType)]
      <4>1. <<>> \in Seq(FrameType) /\ AssemblerInit \in Assembler
        BY InitialAssembler
      <4> QED BY <1>1, <1>6, <3>1, <3>3, <4>1, KeepStep
    <3>5. TypeOK'
      BY <1>8, <3>2, <3>4
    <3> QED BY <1>5, <1>6, <1>7, <3>2, <3>4, <3>5 DEF LinkInv
  <2>4. CASE ~ b.finished
    <3>1. Keep(k, b, c) /\ UNCHANGED log
      BY <2>1, <2>4 DEF c
    <3>2. AsmInv' /\ assembler' \in [Faces -> Assembler] /\ content' \in [Faces -> Seq(FrameType)]
      BY <1>1, <1>6, <2>2, <2>4, <3>1, KeepStep
    <3>3. TypeOK'
      BY <1>1, <1>8, <3>1, <3>2 DEF TypeOK
    <3> QED BY <1>5, <1>6, <1>7, <1>9, <3>1, <3>2, <3>3 DEF LinkInv
  <2> QED BY <2>3, <2>4
<1>11. CASE ~ Fragmented(f.pkt)
  <2>1. log' = Append(log, Meaning(<<f>>)) /\ UNCHANGED <<assembler, content>>
    BY <1>2, <1>11 DEF ReceiveWhole, Deliver
  <2>2. /\ <<f>> \in Seq(FrameType) /\ Len(<<f>>) > 0 /\ <<f>>[Len(<<f>>)] = f
    BY <1>3
  <2>3. <<f>> = AllFrames(f.pkt)
    <3>1. Total(f.pkt) = 1
      BY <1>11 DEF Total
    <3>2. f = Frame(f.pkt, 0)
      BY <1>4, <3>1
    <3>3. AllFrames(f.pkt) = [i \in 1 .. 1 |-> Frame(f.pkt, i - 1)]
      BY <3>1 DEF AllFrames
    <3>4. \A i \in 1 .. 1 : Frame(f.pkt, i - 1) = f
      BY <3>2
    <3> QED BY <3>3, <3>4
  <2>4. /\ log' \in Seq(Packets \cup {Garbled}) /\ LogInv' /\ GarbledOnlyOnCollision'
        /\ PacketDelivered \/ (Collision /\ log' = Append(log, Garbled))
    BY <1>2, <2>1, <2>2, <2>3, DeliverFacts DEF f
  <2>5. AsmInv'
    BY <1>1, <1>6, <2>1 DEF AsmInv, Begun, Collision
  <2>6. TypeOK'
    BY <1>1, <1>8, <2>1, <2>4 DEF TypeOK
  <2> QED BY <1>5, <1>6, <1>7, <2>4, <2>5, <2>6 DEF LinkInv
<1> QED BY <1>10, <1>11

-----------------------------------------------------------------------------
(* Theorems *)

THEOREM LinkInvariant == Spec => []LinkInv
<1>1. LinkInv /\ [Next]_vars => LinkInv'
  <2> SUFFICES ASSUME LinkInv, [Next]_vars PROVE LinkInv'
    OBVIOUS
  <2>1. ASSUME NEW n \in Senders, NEW p \in Packets, NEW id \in FragIds, StartSend(n, p, id)
        PROVE  LinkInv'
    BY <2>1, StartSendStep
  <2>2. ASSUME NEW n \in Senders, SendFrame(n)
        PROVE  LinkInv'
    BY <2>2, SendFrameStep
  <2>3. ASSUME NEW n \in Senders, GiveUp(n)
        PROVE  LinkInv'
    BY <2>3, GiveUpStep
  <2>4. ASSUME NEW n \in Senders, Lose(n)
        PROVE  LinkInv'
    BY <2>4, LoseStep
  <2>5. ASSUME NEW n \in Senders, NEW i \in Faces, Receive(n, i)
        PROVE  LinkInv'
    BY <2>5, ReceiveStep
  <2>6. CASE UNCHANGED vars
    BY <2>6 DEF vars, LinkInv, TypeOK, SendersInv, AirInv, LogInv, AsmInv, Begun,
                GarbledOnlyOnCollision, Collision
  <2> QED BY <2>1, <2>2, <2>3, <2>4, <2>5, <2>6 DEF Next, Sender
<1> QED BY <1>1, LinkInit, PTL DEF Spec

(* Whatever is lost, given up or interleaved, the assembler keeps within   *)
(* its buffer and fragment numbers within their five bits.                 *)
THEOREM LinkTypeCorrect == Spec => []TypeOK
<1>1. LinkInv => TypeOK
  BY DEF LinkInv
<1> QED BY <1>1, LinkInvariant, PTL

(* The one assembler that all senders share mixes the bytes of two packets *)
(* only if two packets drew the same identifier.                           *)
THEOREM NoGarblingWithoutCollision == Spec => []GarbledOnlyOnCollision
<1>1. LinkInv => GarbledOnlyOnCollision
  BY DEF LinkInv
<1> QED BY <1>1, LinkInvariant, PTL

(* The faces keep the promise of PacketService: packets that were sent,    *)
(* whole, and each at most once, and, only once two identifiers collided,  *)
(* bytes that are no packet.                                               *)
THEOREM LinkImplementsService == Spec => ImplementsService
<1>1. Init => Service!Init
  BY DEF Init, Service!Init, Collision
<1>2. LinkInv /\ [Next]_vars => [Service!Next]_(Service!vars)
  <2> SUFFICES ASSUME LinkInv, [Next]_vars
               PROVE  Service!Next \/ (UNCHANGED <<sent, log>> /\ Collision' = Collision)
    BY DEF Service!vars
  <2>1. ASSUME UNCHANGED <<sent, ids>> PROVE Collision' = Collision
    BY <2>1 DEF Collision
  <2>2. ASSUME NEW n \in Senders, NEW p \in Packets, NEW id \in FragIds, StartSend(n, p, id)
        PROVE  Service!Next
    <3>1. /\ p \notin sent /\ sent' = sent \cup {p} /\ UNCHANGED log
          /\ \A q \in sent : ids'[q] = ids[q]
      BY <2>2 DEF StartSend, LinkInv, TypeOK
    <3>2. Collision => Collision'
      BY <3>1 DEF Collision
    <3>3. Collision \in BOOLEAN /\ Collision' \in BOOLEAN
      BY DEF Collision
    <3>4. Collision' \in {Collision, TRUE}
      BY <3>2, <3>3
    <3> QED BY <3>1, <3>4 DEF Service!Next, Service!Send
  <2>3. ASSUME NEW n \in Senders, NEW i \in Faces, Receive(n, i)
        PROVE  Service!Next \/ (UNCHANGED <<sent, log>> /\ Collision' = Collision)
    <3>1. /\ UNCHANGED <<sent, ids>>
          /\ UNCHANGED log \/ PacketDelivered \/ (Collision /\ log' = Append(log, Garbled))
      BY <2>3, ReceiveStep
    <3>2. CASE UNCHANGED log
      BY <2>1, <3>1, <3>2
    <3>3. CASE PacketDelivered
      <4>1. PICK p \in sent : log' = Append(log, p) /\ \A j \in 1 .. Len(log) : log[j] # p
        BY <3>3 DEF PacketDelivered
      <4>2. p \in Packets
        BY DEF LinkInv, TypeOK
      <4>3. Service!Deliver(p)
        BY <2>1, <3>1, <4>1 DEF Service!Deliver, Service!Delivered
      <4> QED BY <4>2, <4>3 DEF Service!Next
    <3>4. CASE Collision /\ log' = Append(log, Garbled)
      BY <2>1, <3>1, <3>4 DEF Service!Next, Service!DeliverGarbled
    <3> QED BY <3>1, <3>2, <3>3, <3>4
  <2>4. ASSUME UNCHANGED <<sent, log, ids>>
        PROVE  UNCHANGED <<sent, log>> /\ Collision' = Collision
    BY <2>1, <2>4
  <2> QED BY <2>2, <2>3, <2>4 DEF Next, Sender, SendFrame, GiveUp, Lose, vars, txVars
<1> QED BY <1>1, <1>2, LinkInvariant, PTL DEF Spec, ImplementsService, Service!Spec

-----------------------------------------------------------------------------
(* A link without losses *)

(* A face waits for frame k of packet p: its assembler and its buffer c    *)
(* hold the k fragments before, or, for the first, nothing.                *)
Continuing(a, c, p, k) ==
  /\ a = [id |-> ids[p], seq |-> k, offset |-> k * (Mtu - HdrLen), finished |-> FALSE]
  /\ \A j \in 1 .. k : c[j] = Frame(p, j - 1)

Awaits(a, c, p, k) == IF k = 0 THEN a = AssemblerInit ELSE Continuing(a, c, p, k)

(* The fragments of a packet that fits the buffer end within the packet,   *)
(* each where the next one begins.                                         *)
LEMMA OffsetFacts ==
  ASSUME NEW p \in Packets, Sendable(p), Fragmented(p), NEW k \in Nat, k < Total(p),
         ids[p] \in FragIds
  PROVE  LET h == Header(Frame(p, k))
         IN  /\ h.len \in Nat
             /\ k * (Mtu - HdrLen) + h.len <= Size[p]
             /\ k + 1 < Total(p) => k * (Mtu - HdrLen) + h.len = (k + 1) * (Mtu - HdrLen)
<1> DEFINE P == Mtu - HdrLen
           T == Total(p)
           q == k * P
           F == FragFrameSize(Size[p], Mtu, k, q)
           len == Header(Frame(p, k)).len
<1>1. Size[p] \in Nat \ {0} /\ Mtu \in Nat /\ Fragmentable(Size[p], Mtu)
      /\ T = FragTotal(Size[p], Mtu)
  BY SizeAssumption, MtuAssumption DEF Sendable, Total
<1>2. /\ P \in Nat /\ P > 0 /\ T \in Nat /\ T > 0 /\ (T - 1) * P < Size[p]
  BY <1>1, FragmentCount
<1>3. F \in Int /\ F > HdrLen /\ (k + 1 < T => q + F - HdrLen = (k + 1) * P)
  BY <1>1, FragmentFits
<1>4. len = F - HdrLen
  BY DEF Header, Frame
<1>5. q \in Nat /\ (k + 1) * P \in Nat /\ (T - 1) * P \in Nat
  BY <1>2
<1>6. len \in Nat
  <2> HIDE DEF F, len
  <2> QED BY <1>3, <1>4 DEF HdrLen
<1>7. k + 1 < T => q + len = (k + 1) * P
  <2> HIDE DEF F, len, q, P, T
  <2> QED BY <1>3, <1>4, <1>5 DEF HdrLen
<1>8. CASE k + 1 < T
  <2>1. (T - 1) * P = (k + 1) * P + (T - 1 - (k + 1)) * P /\ (T - 1 - (k + 1)) * P >= 0
    <3> HIDE DEF P, T
    <3> QED BY <1>2, <1>8, SMTT(30)
  <2>2. (T - 1 - (k + 1)) * P \in Int
    BY <1>2
  <2>3. (k + 1) * P <= Size[p]
    <3> DEFINE u == (T - 1) * P  v == (k + 1) * P  w == (T - 1 - (k + 1)) * P
    <3> HIDE DEF u, v, w
    <3>1. u \in Nat /\ v \in Nat /\ w \in Int /\ u = v + w /\ w >= 0 /\ u < Size[p]
      BY <1>2, <1>5, <2>1, <2>2 DEF u, v, w
    <3> QED BY <1>1, <3>1 DEF v
  <2> QED BY <1>6, <1>7, <1>8, <2>3
<1>9. CASE ~ (k + 1 < T)
  <2>1. k = FragTotal(Size[p], Mtu) - 1
    BY <1>1, <1>2, <1>9
  <2>2. F = Size[p] - q + HdrLen
    BY <2>1 DEF FragFrameSize
  <2>3. q + len = Size[p]
    <3> HIDE DEF F, len, q, P, T
    <3> QED BY <1>1, <1>4, <1>5, <2>2 DEF HdrLen
  <2> QED BY <1>1, <1>6, <1>9, <2>3
<1> QED BY <1>8, <1>9

(* A frame that is waited for is taken: the face then waits for the next   *)
(* one, or, after the last, has passed the packet on.                      *)
LEMMA AwaitedArrives ==
  ASSUME LinkInv, NEW n \in Senders, NEW i \in Faces, Receive(n, i),
         NEW p \in Packets, NEW k \in Nat, Head(air[n]) = Frame(p, k),
         Size[p] <= FragBufSize, Awaits(assembler[i], content[i], p, k)
  PROVE  IF k + 1 < Total(p)
         THEN UNCHANGED log /\ Continuing(assembler'[i], content'[i], p, k + 1)
         ELSE log' = Append(log, p) /\ assembler'[i] = AssemblerInit
<1> DEFINE f == Frame(p, k)
           a == assembler[i]
           T == Total(p)
<1>1. /\ TypeOK /\ AirInv /\ AsmInv
      /\ \A q \in sent : Fragmented(q) => ids[q] \in FragIds
  BY DEF LinkInv
<1>2. /\ air[n] # <<>> /\ air' = [air EXCEPT ![n] = Tail(@)]
      /\ IF Fragmented(p) THEN ReceiveFragment(i, f) ELSE ReceiveWhole(f)
  BY DEF Receive, Frame
<1>3. /\ Len(air[n]) \in Nat /\ Len(air[n]) > 0 /\ f = air[n][1] /\ f \in FrameType
  BY <1>1, <1>2, TailFacts
<1>4. p \in sent /\ Sendable(p) /\ k < T /\ f.pkt = p /\ f.seq = k
  <2>1. 1 \in 1 .. Len(air[n])
    BY <1>3
  <2>2. f.pkt \in sent /\ Sendable(f.pkt) /\ f.seq < Total(f.pkt)
    BY <1>1, <1>3, <2>1 DEF AirInv
  <2> QED BY <2>2 DEF Frame
<1>5. T \in Nat /\ T > 0
  BY <1>4, TotalType
<1>6. a \in Assembler /\ content[i] \in Seq(FrameType) /\ Len(content[i]) = a.seq /\ ~ a.finished
  BY <1>1 DEF TypeOK, AsmInv
<1>7. CASE Fragmented(p)
  <2> DEFINE h == Header(f)
             P == Mtu - HdrLen
  <2>1. ids[p] \in FragIds
    BY <1>1, <1>4, <1>7
  <2>2. h.id = ids[p] /\ h.seq = k /\ (h.last <=> k = T - 1) /\ h.last \in BOOLEAN
    BY <1>3, <1>4, <1>7, <2>1, HeaderFacts
  <2>3. /\ h.len \in Nat /\ k * P + h.len <= Size[p]
        /\ k + 1 < T => k * P + h.len = (k + 1) * P
    BY <1>4, <1>7, <2>1, OffsetFacts
  <2>4. P \in Nat /\ P > 0
    <3>1. Size[p] \in Nat \ {0} /\ Mtu \in Nat /\ Fragmentable(Size[p], Mtu)
      BY <1>4, <1>7, SizeAssumption, MtuAssumption DEF Sendable
    <3> QED BY <3>1, FragmentCount
  <2>5. a.seq = k /\ a.offset = k * P /\ a.id \in {NoId, ids[p]}
    <3>1. CASE k = 0
      <4>1. a = AssemblerInit /\ k * P = 0
        BY <2>4, <3>1 DEF Awaits
      <4> QED BY <3>1, <4>1 DEF AssemblerInit
    <3>2. CASE k # 0
      BY <3>2 DEF Awaits, Continuing
    <3> QED BY <3>1, <3>2
  <2> HIDE DEF h, P
  <2>6. Continues(a, h)
    <3>1. a.offset + h.len <= FragBufSize
      <4>1. k * P \in Nat /\ Size[p] \in Nat
        BY <2>4, SizeAssumption
      <4> QED BY <2>3, <2>5, <4>1, FragBufAssumption
    <3> QED BY <1>6, <2>2, <2>5, <3>1 DEF Continues
  <2> DEFINE b == Extended(a, h)
             c == Copied(i, b, f)
  <2>7. AssembleFrag(a, h) = {b}
    BY <2>6 DEF AssembleFrag
  <2>8. IF b.finished THEN Deliver(c) /\ Keep(i, AssemblerInit, <<>>)
                      ELSE Keep(i, b, c) /\ UNCHANGED log
    BY <1>2, <1>7, <2>7 DEF ReceiveFragment, h
  <2>9. /\ b.id = ids[p] /\ b.seq = k + 1 /\ b.offset = k * P + h.len
        /\ b.finished = h.last
        /\ b = [id |-> ids[p], seq |-> k + 1, offset |-> k * P + h.len, finished |-> h.last]
    BY <2>2, <2>5 DEF Extended
  <2>10. b # a
    BY <2>5, <2>9
  <2>11. c = Append(content[i], f)
    <3>1. CASE k = 0
      <4>1. content[i] = <<>> /\ b.seq = 1
        BY <1>6, <2>5, <2>9, <3>1
      <4> QED BY <2>10, <4>1 DEF Copied
    <3>2. CASE k # 0
      BY <2>9, <2>10, <3>2 DEF Copied
    <3> QED BY <3>1, <3>2
  <2>12. Len(c) = k + 1 /\ \A j \in 1 .. k + 1 : c[j] = Frame(p, j - 1)
    <3>1. /\ c \in Seq(FrameType) /\ Len(c) = k + 1 /\ c[k + 1] = f
          /\ \A j \in 1 .. k : c[j] = content[i][j]
      BY <1>3, <1>6, <2>5, <2>11
    <3>2. \A j \in 1 .. k : content[i][j] = Frame(p, j - 1)
      BY DEF Awaits, Continuing
    <3>3. \A j \in 1 .. k + 1 : j \in 1 .. k \/ j = k + 1
      OBVIOUS
    <3>4. f = Frame(p, (k + 1) - 1)
      OBVIOUS
    <3> HIDE DEF c, f
    <3> QED BY <3>1, <3>2, <3>3, <3>4
  <2>13. CASE k + 1 < T
    <3>1. Keep(i, b, c) /\ UNCHANGED log
      BY <1>5, <2>2, <2>8, <2>9, <2>13
    <3>2. assembler'[i] = b /\ content'[i] = c
      BY <1>1, <3>1 DEF Keep, TypeOK
    <3>3. b = [id |-> ids[p], seq |-> k + 1, offset |-> (k + 1) * P, finished |-> FALSE]
      <4>1. ~ h.last /\ h.last = FALSE
        <5>1. k # T - 1
          BY <1>5, <2>13
        <5> QED BY <2>2, <5>1, Zenon
      <4>2. k * P + h.len = (k + 1) * P
        BY <2>3, <2>13
      <4> QED BY <2>9, <4>1, <4>2
    <3> HIDE DEF b, c
    <3> QED BY <2>12, <2>13, <3>1, <3>2, <3>3 DEF Continuing, P
  <2>14. CASE ~ (k + 1 < T)
    <3>1. k = T - 1
      BY <1>4, <1>5, <2>14
    <3>2. Deliver(c) /\ Keep(i, AssemblerInit, <<>>)
      BY <2>2, <2>8, <2>9, <3>1
    <3>3. assembler'[i] = AssemblerInit
      BY <1>1, <3>2 DEF Keep, TypeOK
    <3>4. c = AllFrames(p)
      <4>1. c \in Seq(FrameType) /\ Len(c) = T
        BY <1>3, <1>5, <1>6, <2>5, <2>11, <2>12, <3>1
      <4>2. c = [j \in 1 .. T |-> Frame(p, j - 1)]
        <5> HIDE DEF c
        <5> QED BY <2>12, <3>1, <4>1
      <4> QED BY <4>2 DEF AllFrames
    <3>5. log' = Append(log, p)
      BY <1>5, <3>2, <3>4, MeaningOfPacket DEF Deliver
    <3> QED BY <2>14, <3>3, <3>5
  <2> QED BY <2>13, <2>14
<1>8. CASE ~ Fragmented(p)
  <2>1. T = 1 /\ k = 0
    BY <1>4, <1>8 DEF Total
  <2>2. a = AssemblerInit
    BY <2>1 DEF Awaits
  <2>3. log' = Append(log, Meaning(<<f>>)) /\ UNCHANGED assembler
    BY <1>2, <1>8 DEF ReceiveWhole, Deliver
  <2>4. <<f>> = AllFrames(p)
    <3>1. AllFrames(p) = [j \in 1 .. 1 |-> Frame(p, j - 1)]
      BY <2>1 DEF AllFrames
    <3>2. \A j \in 1 .. 1 : Frame(p, j - 1) = f
      BY <2>1
    <3> QED BY <3>1, <3>2
  <2>5. log' = Append(log, p)
    BY <1>5, <2>3, <2>4, MeaningOfPacket
  <2> QED BY <2>1, <2>2, <2>3, <2>5
<1> QED BY <1>7, <1>8

-----------------------------------------------------------------------------
(* The stream of one sender: its frames on their way and the one it is at. *)
(* They come in order, packet after packet, the receiver waits for the     *)
(* first of them, and between two calls the last one ends a packet.        *)
Follows(f, g) == IF f.seq + 1 < Total(f.pkt) THEN g = Frame(f.pkt, f.seq + 1)
                                             ELSE g.seq = 0

InOrder(s) == \A k \in 1 .. Len(s) - 1 : Follows(s[k], s[k + 1])

Stream(n) == IF sending[n] = Nothing THEN air[n]
             ELSE Append(air[n], Frame(sending[n], next[n]))

Expects(i, s) == IF s = <<>> THEN assembler[i] = AssemblerInit
                 ELSE Awaits(assembler[i], content[i], s[1].pkt, s[1].seq)

Whole(n) == sending[n] = Nothing /\ air[n] # <<>> =>
              LET f == air[n][Len(air[n])] IN f.seq + 1 = Total(f.pkt)

(* A packet whose sending began has arrived, or is being sent, or its last *)
(* frame is on its way; and nothing else has arrived.                      *)
Logged(p) == \E k \in 1 .. Len(log) : log[k] = p

UnderWay(p) == \E n \in Senders : \/ sending[n] = p
                                  \/ \E k \in 1 .. Len(air[n]) : air[n][k] = Frame(p, Total(p) - 1)

NothingLost ==
  /\ \A p \in sent : Logged(p) \/ UnderWay(p)
  /\ ~ Logged(Garbled)

StreamInv(n, i) ==
  /\ InOrder(Stream(n))
  /\ Expects(i, Stream(n))
  /\ Whole(n)
  /\ NothingLost

(* One sender, one face, no losses, packets that fit the buffer.           *)
Reliable(n, i) ==
  /\ ~ Failures
  /\ Senders = {n} /\ Faces = {i}
  /\ \A p \in Packets : Size[p] <= FragBufSize

-----------------------------------------------------------------------------
(* Sequences of frames *)

LEMMA AppendInOrder ==
  ASSUME NEW S, NEW s \in Seq(S), NEW g \in S, InOrder(s),
         s # <<>> => Follows(s[Len(s)], g)
  PROVE  InOrder(Append(s, g))
<1> DEFINE t == Append(s, g)
<1>1. /\ Len(s) \in Nat /\ Len(t) = Len(s) + 1 /\ t[Len(s) + 1] = g
      /\ \A k \in 1 .. Len(s) : t[k] = s[k]
  OBVIOUS
<1>2. Len(s) > 0 => s # <<>>
  OBVIOUS
<1>3. ASSUME NEW k \in 1 .. Len(t) - 1 PROVE Follows(t[k], t[k + 1])
  <2>1. k \in 1 .. Len(s)
    BY <1>1
  <2>2. CASE k = Len(s)
    BY <1>1, <1>2, <2>1, <2>2
  <2>3. CASE k # Len(s)
    <3>1. k \in 1 .. Len(s) - 1 /\ k + 1 \in 1 .. Len(s)
      BY <1>1, <2>1, <2>3
    <3> QED BY <1>1, <2>1, <3>1 DEF InOrder
  <2> QED BY <2>2, <2>3
<1> QED BY <1>3 DEF InOrder

LEMMA TailInOrder ==
  ASSUME NEW S, NEW s \in Seq(S), InOrder(s), s # <<>>
  PROVE  /\ Tail(s) \in Seq(S)
         /\ InOrder(Tail(s))
         /\ Tail(s) # <<>> => /\ Follows(s[1], Tail(s)[1])
                              /\ Tail(s)[Len(Tail(s))] = s[Len(s)]
<1> DEFINE t == Tail(s)
<1>1. /\ Len(s) \in Nat /\ Len(s) > 0 /\ t \in Seq(S) /\ Len(t) = Len(s) - 1
      /\ \A k \in 1 .. Len(s) - 1 : t[k] = s[k + 1]
  OBVIOUS
<1>2. ASSUME NEW k \in 1 .. Len(t) - 1 PROVE Follows(t[k], t[k + 1])
  <2>1. k \in 1 .. Len(s) - 1 /\ k + 1 \in 1 .. Len(s) - 1
    BY <1>1
  <2>2. Follows(s[k + 1], s[(k + 1) + 1])
    BY <2>1 DEF InOrder
  <2> QED BY <1>1, <2>1, <2>2
<1>3. ASSUME t # <<>>
      PROVE  Follows(s[1], t[1]) /\ t[Len(t)] = s[Len(s)]
  <2>1. Len(t) > 0
    BY <1>1, <1>3
  <2>2. 1 \in 1 .. Len(s) - 1 /\ Len(t) \in 1 .. Len(s) - 1 /\ Len(t) + 1 = Len(s)
    BY <1>1, <2>1
  <2>3. t[1] = s[1 + 1] /\ t[Len(t)] = s[Len(t) + 1]
    BY <1>1, <2>2
  <2> HIDE DEF t
  <2> QED BY <2>2, <2>3 DEF InOrder
<1> QED BY <1>1, <1>2, <1>3 DEF InOrder

LEMMA AppendTail ==
  ASSUME NEW S, NEW s \in Seq(S), s # <<>>, NEW g \in S
  PROVE  /\ Append(s, g) # <<>> /\ Append(s, g)[1] = Head(s)
         /\ Append(Tail(s), g) = Tail(Append(s, g))
<1> DEFINE t == Append(Tail(s), g)
           u == Tail(Append(s, g))
<1>1. /\ Len(s) \in Nat /\ Len(s) > 0 /\ Append(s, g) # <<>>
      /\ Append(s, g)[1] = Head(s)
  OBVIOUS
<1>2. t \in Seq(S) /\ u \in Seq(S) /\ Len(t) = Len(s) /\ Len(u) = Len(s)
  BY <1>1
<1>3. ASSUME NEW k \in 1 .. Len(s) PROVE t[k] = u[k]
  <2>1. u[k] = Append(s, g)[k + 1]
    BY <1>1
  <2>2. CASE k = Len(s)
    BY <1>1, <2>1, <2>2
  <2>3. CASE k # Len(s)
    <3>1. k \in 1 .. Len(s) - 1 /\ k + 1 \in 1 .. Len(s)
      BY <1>1, <2>3
    <3> QED BY <1>1, <2>1, <3>1
  <2> QED BY <2>2, <2>3
<1>4. t = u
  <2> HIDE DEF t, u
  <2> QED BY <1>2, <1>3
<1> QED BY <1>1, <1>4

LEMMA StreamFrames ==
  ASSUME LinkInv, NEW n \in Senders
  PROVE  /\ air[n] \in Seq(FrameType) /\ Stream(n) \in Seq(FrameType)
         /\ sending[n] # Nothing => /\ Frame(sending[n], next[n]) \in FrameType
                                    /\ sending[n] \in Packets /\ sending[n] \in sent
                                    /\ next[n] \in Nat /\ next[n] < Total(sending[n])
                                    /\ Total(sending[n]) \in Nat
         /\ \A k \in 1 .. Len(Stream(n)) : Stream(n)[k].pkt \in sent
<1>1. air[n] \in Seq(FrameType)
  BY DEF LinkInv, TypeOK
<1>2. ASSUME sending[n] # Nothing
      PROVE  /\ Frame(sending[n], next[n]) \in FrameType
             /\ sending[n] \in Packets /\ sending[n] \in sent
             /\ next[n] \in Nat /\ next[n] < Total(sending[n]) /\ Total(sending[n]) \in Nat
  <2>1. /\ sending[n] \in Packets /\ sending[n] \in sent /\ Sendable(sending[n])
        /\ next[n] < Total(sending[n])
    BY <1>2 DEF LinkInv, TypeOK, SendersInv
  <2>2. next[n] \in Nat /\ Total(sending[n]) \in Nat /\ Total(sending[n]) <= MaxFrags
    BY <2>1, NextNat, TotalType DEF LinkInv
  <2>3. next[n] \in 0 .. MaxFrags - 1
    BY <2>1, <2>2, SeqRange
  <2> QED BY <2>1, <2>2, <2>3 DEF FrameType
<1>3. \A k \in 1 .. Len(air[n]) : air[n][k].pkt \in sent
  BY DEF LinkInv, AirInv
<1>4. CASE sending[n] = Nothing
  BY <1>1, <1>3, <1>4 DEF Stream
<1>5. CASE sending[n] # Nothing
  <2> DEFINE g == Frame(sending[n], next[n])
             s == Append(air[n], g)
  <2>1. /\ s \in Seq(FrameType) /\ Len(air[n]) \in Nat /\ Len(s) = Len(air[n]) + 1
        /\ s[Len(air[n]) + 1] = g /\ \A k \in 1 .. Len(air[n]) : s[k] = air[n][k]
    BY <1>1, <1>2, <1>5
  <2>2. g.pkt \in sent
    BY <1>2, <1>5 DEF Frame
  <2>3. \A k \in 1 .. Len(s) : k \in 1 .. Len(air[n]) \/ k = Len(air[n]) + 1
    BY <2>1
  <2>4. Stream(n) = s
    BY <1>5 DEF Stream
  <2> HIDE DEF g, s
  <2>5. \A k \in 1 .. Len(s) : s[k].pkt \in sent
    BY <1>3, <2>1, <2>2, <2>3
  <2> QED BY <1>1, <1>2, <1>5, <2>1, <2>4, <2>5 DEF g
<1> QED BY <1>4, <1>5

-----------------------------------------------------------------------------
(* The steps keep the stream *)

LEMMA StartStream ==
  ASSUME LinkInv, NEW n \in Senders, NEW i \in Faces, Reliable(n, i), StreamInv(n, i),
         NEW p \in Packets, NEW id \in FragIds, StartSend(n, p, id)
  PROVE  StreamInv(n, i)'
<1> DEFINE g == Frame(p, 0)
<1>1. /\ sending[n] = Nothing /\ p \notin sent /\ sent' = sent \cup {p}
      /\ sending'[n] = p /\ p # Nothing /\ next'[n] = 0
      /\ \A q \in sent : ids'[q] = ids[q]
      /\ UNCHANGED <<air, assembler, content, log>>
  BY OtherAssumption DEF StartSend, LinkInv, TypeOK
<1>2. Stream(n) = air[n] /\ Stream(n)' = Append(air[n], g)
  BY <1>1 DEF Stream
<1>3. /\ air[n] \in Seq(FrameType)
      /\ \A k \in 1 .. Len(air[n]) : air[n][k].pkt \in sent
  BY <1>2, StreamFrames
<1>4. g \in FrameType /\ g.pkt = p /\ g.seq = 0
  <2>1. 0 \in 0 .. MaxFrags - 1
    BY DEF MaxFrags
  <2>2. g \in FrameType
    BY <2>1 DEF FrameType
  <2> QED BY <2>2 DEF Frame
<1>5. ASSUME air[n] # <<>> PROVE Follows(air[n][Len(air[n])], g)
  <2> DEFINE f == air[n][Len(air[n])]
  <2>1. f.seq + 1 = Total(f.pkt)
    BY <1>1, <1>5 DEF StreamInv, Whole
  <2>2. f.seq \in Nat
    <3>1. Len(air[n]) \in Nat /\ Len(air[n]) > 0
      BY <1>3, <1>5
    <3>2. f \in FrameType
      BY <1>3, <3>1
    <3> QED BY <3>2, FrameFacts
  <2> HIDE DEF f
  <2>3. ~ (f.seq + 1 < Total(f.pkt))
    BY <2>1, <2>2
  <2> QED BY <1>4, <2>3 DEF Follows, f
<1>6. InOrder(Stream(n)')
  <2>1. InOrder(air[n])
    BY <1>2 DEF StreamInv
  <2> QED BY <1>2, <1>3, <1>4, <1>5, <2>1, AppendInOrder
<1>7. Expects(i, Stream(n))'
  <2>1. CASE air[n] = <<>>
    <3>1. Stream(n)' = <<g>> /\ assembler[i] = AssemblerInit
      BY <1>2, <2>1 DEF StreamInv, Expects
    <3>2. Stream(n)' # <<>> /\ Stream(n)'[1].seq = 0
      BY <1>4, <3>1
    <3> QED BY <1>1, <3>1, <3>2 DEF Expects, Awaits
  <2>2. CASE air[n] # <<>>
    <3>1. /\ Stream(n)' # <<>> /\ Stream(n)'[1] = air[n][1] /\ 1 \in 1 .. Len(air[n])
      BY <1>2, <1>3, <1>4, <2>2
    <3>2. air[n][1].pkt \in sent
      BY <1>3, <3>1
    <3>3. Awaits(assembler[i], content[i], air[n][1].pkt, air[n][1].seq)
      BY <1>2, <2>2 DEF StreamInv, Expects
    <3> QED BY <1>1, <3>1, <3>2, <3>3 DEF Expects, Awaits, Continuing
  <2> QED BY <2>1, <2>2
<1>8. Whole(n)'
  BY <1>1 DEF Whole
<1>9. NothingLost'
  <2>1. \A m \in Senders : m = n
    BY DEF Reliable
  <2>2. \A q : Logged(q)' <=> Logged(q)
    BY <1>1 DEF Logged
  <2>3. ASSUME NEW q \in sent, UnderWay(q) PROVE UnderWay(q)'
    <3>1. q # Nothing
      BY OtherAssumption DEF LinkInv, TypeOK
    <3>2. \E k \in 1 .. Len(air[n]) : air[n][k] = Frame(q, Total(q) - 1)
      BY <1>1, <2>1, <2>3, <3>1 DEF UnderWay
    <3> QED BY <1>1, <3>2 DEF UnderWay
  <2>4. UnderWay(p)'
    BY <1>1 DEF UnderWay
  <2>5. (\A q \in sent : Logged(q) \/ UnderWay(q)) /\ ~ Logged(Garbled)
    BY DEF StreamInv, NothingLost
  <2>6. \A q \in sent' : Logged(q)' \/ UnderWay(q)'
    BY <1>1, <2>2, <2>3, <2>4, <2>5
  <2> QED BY <2>2, <2>5, <2>6 DEF NothingLost
<1> QED BY <1>6, <1>7, <1>8, <1>9 DEF StreamInv

LEMMA SendStream ==
  ASSUME LinkInv, NEW n \in Senders, NEW i \in Faces, Reliable(n, i), StreamInv(n, i),
         SendFrame(n)
  PROVE  StreamInv(n, i)'
<1> DEFINE p == sending[n]
           f == Frame(p, next[n])
           g == Frame(p, next[n] + 1)
<1>1. /\ p # Nothing /\ f \in FrameType /\ p \in Packets /\ p \in sent
      /\ next[n] \in Nat /\ next[n] < Total(p) /\ Total(p) \in Nat
      /\ air[n] \in Seq(FrameType) /\ Stream(n) \in Seq(FrameType)
      /\ f.pkt = p /\ f.seq = next[n]
  BY StreamFrames DEF SendFrame, Frame
<1>2. /\ air'[n] = Append(air[n], f) /\ next'[n] = next[n] + 1
      /\ sending'[n] = IF next[n] + 1 < Total(p) THEN p ELSE Nothing
      /\ UNCHANGED <<sent, ids, assembler, content, log>>
  BY DEF SendFrame, LinkInv, TypeOK
<1>3. Stream(n) = air'[n]
  BY <1>1, <1>2 DEF Stream
<1>4. /\ air'[n] # <<>> /\ Len(air[n]) \in Nat /\ Len(air'[n]) = Len(air[n]) + 1
      /\ air'[n][Len(air'[n])] = f
      /\ \A k \in 1 .. Len(air[n]) : air'[n][k] = air[n][k]
  BY <1>1, <1>2
<1>5. InOrder(Stream(n)) /\ Expects(i, Stream(n)) /\ NothingLost
  BY DEF StreamInv
<1>6. Whole(n)'
  BY <1>1, <1>2, <1>4 DEF Whole
<1>7. NothingLost'
  <2>1. \A m \in Senders : m = n
    BY DEF Reliable
  <2>2. \A q : Logged(q)' <=> Logged(q)
    BY <1>2 DEF Logged
  <2>3. ASSUME NEW q \in sent', ~ Logged(q)' PROVE UnderWay(q)'
    <3>1. UnderWay(q)
      BY <1>2, <1>5, <2>2, <2>3 DEF NothingLost
    <3>2. CASE sending[n] = q
      <4>1. CASE next[n] + 1 < Total(p)
        BY <1>2, <3>2, <4>1 DEF UnderWay
      <4>2. CASE ~ (next[n] + 1 < Total(p))
        <5>1. next[n] = Total(p) - 1
          BY <1>1, <4>2
        <5>2. air'[n][Len(air'[n])] = Frame(q, Total(q) - 1) /\ Len(air'[n]) \in 1 .. Len(air'[n])
          BY <1>4, <3>2, <5>1
        <5> QED BY <5>2 DEF UnderWay
      <4> QED BY <4>1, <4>2
    <3>3. CASE sending[n] # q
      <4>1. PICK k \in 1 .. Len(air[n]) : air[n][k] = Frame(q, Total(q) - 1)
        BY <2>1, <3>1, <3>3 DEF UnderWay
      <4>2. k \in 1 .. Len(air'[n]) /\ air'[n][k] = Frame(q, Total(q) - 1)
        BY <1>4, <4>1
      <4> QED BY <4>2 DEF UnderWay
    <3> QED BY <3>2, <3>3
  <2> QED BY <1>5, <2>2, <2>3 DEF NothingLost
<1>8. CASE next[n] + 1 < Total(p)
  <2>1. Stream(n)' = Append(Stream(n), g)
    BY <1>1, <1>2, <1>3, <1>8 DEF Stream
  <2>2. g \in FrameType /\ Follows(f, g)
    <3>1. LinkInv' /\ n \in Senders /\ sending'[n] # Nothing
      BY <1>1, <1>2, <1>8, SendFrameStep
    <3>2. g = Frame(p, next[n] + 1) /\ next[n] + 1 \in 0 .. MaxFrags - 1
      <4>1. Total(p) <= MaxFrags
        <5>1. Sendable(p)
          BY <1>1 DEF LinkInv, SendersInv
        <5> QED BY <1>1, <5>1, TotalType
      <4> QED BY <1>1, <1>8, <4>1, SeqRange
    <3> QED BY <1>1, <1>8, <3>2 DEF FrameType, Follows
  <2>3. InOrder(Stream(n)')
    BY <1>1, <1>3, <1>4, <1>5, <2>1, <2>2, AppendInOrder
  <2>4. Expects(i, Stream(n))'
    <3>1. /\ Stream(n) # <<>> /\ Stream(n)' # <<>>
          /\ Stream(n)'[1] = Stream(n)[1]
      BY <1>1, <1>3, <1>4, <2>1, <2>2
    <3>2. Awaits(assembler[i], content[i], Stream(n)[1].pkt, Stream(n)[1].seq)
      BY <1>5, <3>1 DEF Expects
    <3> QED BY <1>2, <3>1, <3>2 DEF Expects, Awaits, Continuing
  <2> QED BY <1>6, <1>7, <2>3, <2>4 DEF StreamInv
<1>9. CASE ~ (next[n] + 1 < Total(p))
  <2>1. Stream(n)' = Stream(n)
    BY <1>2, <1>3, <1>9 DEF Stream
  <2>2. Expects(i, Stream(n))'
    BY <1>2, <1>5, <2>1 DEF Expects, Awaits, Continuing
  <2> QED BY <1>5, <1>6, <1>7, <2>1, <2>2 DEF StreamInv
<1> QED BY <1>8, <1>9

LEMMA ReceiveStream ==
  ASSUME LinkInv, NEW n \in Senders, NEW i \in Faces, Reliable(n, i), StreamInv(n, i),
         Receive(n, i)
  PROVE  StreamInv(n, i)'
<1> DEFINE s == Stream(n)
<1>1. /\ air[n] # <<>> /\ air' = [air EXCEPT ![n] = Tail(@)] /\ UNCHANGED txVars
  BY DEF Receive
<1>2. /\ air[n] \in Seq(FrameType) /\ s \in Seq(FrameType)
      /\ sending[n] # Nothing => Frame(sending[n], next[n]) \in FrameType
      /\ LinkInv' /\ air'[n] = Tail(air[n])
  BY <1>1, StreamFrames, ReceiveStep DEF LinkInv, TypeOK
<1>3. InOrder(s) /\ Expects(i, s) /\ Whole(n) /\ NothingLost
  BY DEF StreamInv
<1>4. s # <<>> /\ s[1] = Head(air[n]) /\ Stream(n)' = Tail(s)
  <2>1. CASE sending[n] = Nothing
    BY <1>1, <1>2, <2>1 DEF Stream, txVars
  <2>2. CASE sending[n] # Nothing
    <3> DEFINE g == Frame(sending[n], next[n])
    <3>1. s = Append(air[n], g) /\ Stream(n)' = Append(Tail(air[n]), g)
      BY <1>1, <1>2, <2>2 DEF Stream, txVars
    <3> HIDE DEF s, g
    <3>2. /\ Append(air[n], g) # <<>> /\ Append(air[n], g)[1] = Head(air[n])
          /\ Append(Tail(air[n]), g) = Tail(Append(air[n], g))
      <4>1. g \in FrameType
        BY <1>2, <2>2 DEF g
      <4> QED BY <1>1, <1>2, <4>1, AppendTail
    <3> QED BY <3>1, <3>2 DEF s
  <2> QED BY <2>1, <2>2
<1>5. /\ Len(air[n]) \in Nat /\ Len(air[n]) > 0 /\ Head(air[n]) = air[n][1]
      /\ Head(air[n]) \in FrameType
  BY <1>1, <1>2
<1>6. PICK p \in Packets, k \in Nat : Head(air[n]) = Frame(p, k)
  BY <1>5, FrameFacts
<1>7. s[1].pkt = p /\ s[1].seq = k
  BY <1>4, <1>6 DEF Frame
<1>8. Awaits(assembler[i], content[i], p, k) /\ Size[p] <= FragBufSize
  BY <1>3, <1>4, <1>7 DEF Expects, Reliable
<1>9. IF k + 1 < Total(p)
      THEN UNCHANGED log /\ Continuing(assembler'[i], content'[i], p, k + 1)
      ELSE log' = Append(log, p) /\ assembler'[i] = AssemblerInit
  BY <1>6, <1>8, AwaitedArrives
<1>10. /\ Stream(n)' \in Seq(FrameType) /\ InOrder(Stream(n)')
       /\ Stream(n)' # <<>> => Follows(s[1], Stream(n)'[1])
  BY <1>2, <1>3, <1>4, TailInOrder
<1>11. k < Total(p) /\ Total(p) \in Nat
  <2>1. 1 \in 1 .. Len(air[n])
    BY <1>5
  <2>2. Sendable(air[n][1].pkt) /\ air[n][1].seq < Total(air[n][1].pkt)
    BY <2>1 DEF LinkInv, AirInv
  <2>3. Sendable(p) /\ k < Total(p)
    BY <1>4, <1>5, <1>7, <2>2
  <2> QED BY <2>3, TotalType
<1>12. Whole(n)'
  <2> SUFFICES ASSUME sending[n] = Nothing, air'[n] # <<>>
               PROVE  LET f == air'[n][Len(air'[n])] IN f.seq + 1 = Total(f.pkt)
    BY <1>1 DEF Whole, txVars
  <2>1. air'[n][Len(air'[n])] = air[n][Len(air[n])]
    <3>1. Len(Tail(air[n])) = Len(air[n]) - 1 /\ Len(Tail(air[n])) > 0
      BY <1>2, <1>5
    <3>2. Len(air[n]) - 1 \in 1 .. Len(air[n]) - 1
      BY <1>5, <3>1
    <3>3. Tail(air[n])[Len(air[n]) - 1] = air[n][(Len(air[n]) - 1) + 1]
      BY <1>2, <1>5, <3>2
    <3>4. (Len(air[n]) - 1) + 1 = Len(air[n])
      BY <1>5
    <3> QED BY <1>2, <3>1, <3>3, <3>4
  <2> QED BY <1>1, <1>3, <2>1 DEF Whole
<1>13. Expects(i, Stream(n))'
  <2>1. CASE k + 1 < Total(p)
    <3>1. Stream(n)' # <<>>
      <4>a. /\ Len(s) \in Nat /\ Len(s) > 0
            /\ Tail(s) \in Seq(FrameType) /\ Len(Tail(s)) = Len(s) - 1
        BY <1>2, <1>4
      <4>b. \A t \in Seq(FrameType) : Len(t) > 0 => t # <<>>
        OBVIOUS
      <4> HIDE DEF s
      <4> SUFFICES ASSUME Len(s) = 1 PROVE FALSE
        BY <1>4, <4>a, <4>b
      <4>1. Len(s) = 1
        OBVIOUS
      <4>2. sending[n] = Nothing
        <5> SUFFICES ASSUME sending[n] # Nothing PROVE FALSE
          OBVIOUS
        <5>1. s = Append(air[n], Frame(sending[n], next[n]))
          BY DEF s, Stream
        <5>2. Len(Append(air[n], Frame(sending[n], next[n]))) = Len(air[n]) + 1
          BY <1>2
        <5> QED BY <1>5, <4>1, <5>1, <5>2
      <4>3. Len(air[n]) = 1
        BY <4>1, <4>2 DEF s, Stream
      <4>4. k + 1 = Total(p)
        BY <1>1, <1>3, <1>4, <1>5, <1>7, <4>2, <4>3 DEF Whole
      <4> QED BY <1>11, <2>1, <4>4
    <3>2. Stream(n)'[1] = Frame(p, k + 1)
      BY <1>7, <1>10, <2>1, <3>1 DEF Follows
    <3>3. Stream(n)'[1].pkt = p /\ Stream(n)'[1].seq = k + 1
      BY <3>2 DEF Frame
    <3>4. Continuing(assembler'[i], content'[i], p, k + 1)
      BY <1>9, <2>1
    <3>5. ids' = ids /\ k + 1 # 0
      BY <1>1, <1>6 DEF txVars
    <3> QED BY <3>1, <3>3, <3>4, <3>5 DEF Expects, Awaits, Continuing
  <2>2. CASE ~ (k + 1 < Total(p))
    <3>1. assembler'[i] = AssemblerInit
      BY <1>9, <2>2
    <3>2. Stream(n)' # <<>> => Stream(n)'[1].seq = 0
      BY <1>7, <1>10, <2>2 DEF Follows
    <3> QED BY <3>1, <3>2 DEF Expects, Awaits
  <2> QED BY <2>1, <2>2
<1>14. NothingLost'
  <2>1. \A m \in Senders : m = n
    BY DEF Reliable
  <2>2. log \in Seq(Packets \cup {Garbled}) /\ p # Garbled /\ p \in Packets \cup {Garbled}
    BY OtherAssumption DEF LinkInv, TypeOK
  <2>3. \A q : Logged(q) => Logged(q)'
    BY <1>9, <2>2 DEF Logged
  <2>4. \A q : Logged(q)' => Logged(q) \/ q = p
    BY <1>9, <2>2 DEF Logged
  <2>5. ~ (k + 1 < Total(p)) => Logged(p)'
    BY <1>9, <2>2 DEF Logged
  <2>6. ASSUME NEW q \in sent' PROVE Logged(q)' \/ UnderWay(q)'
    <3>1. Logged(q) \/ UnderWay(q)
      BY <1>1, <1>3 DEF NothingLost, txVars
    <3>2. CASE sending[n] = q
      BY <1>1, <3>2 DEF UnderWay, txVars
    <3>3. ASSUME NEW j \in 1 .. Len(air[n]), air[n][j] = Frame(q, Total(q) - 1)
          PROVE  Logged(q)' \/ UnderWay(q)'
      <4>1. CASE j = 1
        <5>1. q = p /\ k = Total(p) - 1
          BY <1>5, <1>6, <3>3, <4>1 DEF Frame
        <5>2. ~ (k + 1 < Total(p))
          BY <1>11, <5>1
        <5> QED BY <2>5, <5>1, <5>2
      <4>2. CASE j # 1
        <5>1. j - 1 \in 1 .. Len(air'[n]) /\ air'[n][j - 1] = air[n][(j - 1) + 1]
          BY <1>2, <1>5, <4>2
        <5>2. (j - 1) + 1 = j
          OBVIOUS
        <5>3. air'[n][j - 1] = Frame(q, Total(q) - 1)
          BY <3>3, <5>1, <5>2
        <5> QED BY <5>1, <5>3 DEF UnderWay
      <4> QED BY <4>1, <4>2
    <3> QED BY <2>1, <2>3, <3>1, <3>2, <3>3 DEF UnderWay
  <2>7. ~ Logged(Garbled)'
    BY <1>3, <2>2, <2>4 DEF NothingLost
  <2> QED BY <2>6, <2>7 DEF NothingLost, Logged
<1> QED BY <1>10, <1>12, <1>13, <1>14 DEF StreamInv

(* Between one sender and one face, without losses, no packet that fits    *)
(* the re-assembly buffer is lost or garbled, whatever identifiers were    *)
(* drawn: once the sender is idle and the air is empty, the log holds all. *)
THEOREM LosslessLinkLosesNothing ==
  ASSUME NEW n, NEW i, Reliable(n, i)
  PROVE  Spec => []NothingLost
<1>1. n \in Senders /\ i \in Faces /\ ~ Failures
      /\ (\A m \in Senders : m = n) /\ (\A j \in Faces : j = i)
  BY DEF Reliable
<1>2. Init => StreamInv(n, i)
  <2> SUFFICES ASSUME Init PROVE StreamInv(n, i)
    OBVIOUS
  <2>1. Stream(n) = <<>> /\ air[n] = <<>> /\ assembler[i] = AssemblerInit
    BY <1>1 DEF Init, Stream
  <2>2. InOrder(Stream(n))
    BY <2>1 DEF InOrder
  <2>3. NothingLost
    BY DEF Init, NothingLost, Logged
  <2> QED BY <2>1, <2>2, <2>3 DEF StreamInv, Expects, Whole
<1>3. LinkInv /\ StreamInv(n, i) /\ [Next]_vars => StreamInv(n, i)'
  <2> SUFFICES ASSUME LinkInv, StreamInv(n, i), [Next]_vars PROVE StreamInv(n, i)'
    OBVIOUS
  <2>1. ASSUME NEW p \in Packets, NEW id \in FragIds, StartSend(n, p, id)
        PROVE  StreamInv(n, i)'
    BY <1>1, <2>1, StartStream
  <2>2. ASSUME SendFrame(n) PROVE StreamInv(n, i)'
    BY <1>1, <2>2, SendStream
  <2>3. ASSUME GiveUp(n) \/ Lose(n) PROVE FALSE
    BY <1>1, <2>3 DEF GiveUp, Lose
  <2>4. ASSUME Receive(n, i) PROVE StreamInv(n, i)'
    BY <1>1, <2>4, ReceiveStream
  <2>5. CASE UNCHANGED vars
    BY <2>5 DEF vars, StreamInv, Stream, Expects, Awaits, Continuing, Whole, NothingLost,
                Logged, UnderWay
  <2> QED BY <1>1, <2>1, <2>2, <2>3, <2>4, <2>5 DEF Next, Sender
<1>4. StreamInv(n, i) => NothingLost
  BY DEF StreamInv
<1> QED BY <1>2, <1>3, <1>4, LinkInvariant, PTL DEF Spec

=============================================================================
