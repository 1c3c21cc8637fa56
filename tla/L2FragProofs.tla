---------------------------- MODULE L2FragProofs ----------------------------
(***************************************************************************)
(* Lemmas about the arithmetic of ndn_l2_send_fragments and the contract   *)
(* of the assembler, for all sizes, MTUs and buffers.                      *)
(***************************************************************************)
EXTENDS L2Frag, TLAPS

-----------------------------------------------------------------------------
(* Arithmetic of fragments *)

LEMMA DivFacts ==
  ASSUME NEW a \in Nat, NEW p \in Nat, p > 0
  PROVE  /\ a \div p \in Nat
         /\ (a \div p) * p <= a
         /\ a < (a \div p) * p + p
BY SMTT(30)

LEMMA MulCancel ==
  ASSUME NEW a \in Int, NEW b \in Int, NEW p \in Nat, p > 0, a * p < b * p
  PROVE  a < b
<1> SUFFICES ASSUME a >= b PROVE FALSE
  OBVIOUS
<1>1. a * p = b * p + (a - b) * p /\ (a - b) * p >= 0
  BY SMTT(30)
<1>2. a * p \in Int /\ b * p \in Int /\ (a - b) * p \in Int
  OBVIOUS
<1> QED BY <1>1, <1>2

(* The fragments that ndn_l2_send_fragments lets through: at most 32, all  *)
(* of them full but the last, which is not empty.                          *)
LEMMA FragmentCount ==
  ASSUME NEW s \in Nat \ {0}, NEW m \in Nat, Fragmentable(s, m)
  PROVE  /\ m - HdrLen \in Nat /\ m - HdrLen > 0
         /\ FragTotal(s, m) \in Nat /\ FragTotal(s, m) > 0
         /\ FragTotal(s, m) <= MaxFrags
         /\ (FragTotal(s, m) - 1) * (m - HdrLen) < s
         /\ s <= FragTotal(s, m) * (m - HdrLen)
<1> DEFINE p == m - HdrLen
           T == FragTotal(s, m)
           E == s \div p
<1>1. p \in Nat /\ p > 0
  BY DEF Fragmentable, MtuCarriesPayload, HdrLen
<1>2. s + p - 1 \in Nat /\ T = (s + p - 1) \div p
  BY <1>1 DEF FragTotal, HdrLen
<1>3. T \in Nat /\ T * p <= s + p - 1 /\ s + p - 1 < T * p + p
  BY <1>1, <1>2, DivFacts
<1>4. E \in Nat /\ s < E * p + p
  BY <1>1, DivFacts
<1>5. E + 1 <= MaxFrags
  BY DEF Fragmentable, EstimatedFrags
<1>6. T * p \in Nat /\ E * p \in Nat
  BY <1>1, <1>3, <1>4
<1>7. (T - 1) * p = T * p - p /\ (E + 2) * p = E * p + p + p
  BY <1>1, <1>3, <1>4, SMTT(30)
<1>8. T * p < (E + 2) * p
  BY <1>1, <1>3, <1>4, <1>6, <1>7
<1>9. T < E + 2
  BY <1>1, <1>3, <1>4, <1>8, MulCancel
<1>10. T <= MaxFrags
  BY <1>3, <1>4, <1>5, <1>9 DEF MaxFrags
<1>11. T > 0
  <2> SUFFICES ASSUME T = 0 PROVE FALSE
    BY <1>3
  <2>1. T * p = 0
    BY <1>1
  <2> QED BY <1>1, <1>3, <2>1
<1>12. (T - 1) * p < s /\ s <= T * p
  BY <1>1, <1>3, <1>6, <1>7
<1> QED BY <1>1, <1>3, <1>10, <1>11, <1>12

(* The frame computed for fragment number c, when the c before it were     *)
(* full, fits the MTU and carries at least a byte.                         *)
LEMMA FragmentFits ==
  ASSUME NEW s \in Nat \ {0}, NEW m \in Nat, Fragmentable(s, m),
         NEW c \in Nat, c < FragTotal(s, m)
  PROVE  /\ FragFrameSize(s, m, c, c * (m - HdrLen)) \in Int
         /\ FragFrameSize(s, m, c, c * (m - HdrLen)) <= m
         /\ FragFrameSize(s, m, c, c * (m - HdrLen)) > HdrLen
         /\ c + 1 < FragTotal(s, m) =>
              c * (m - HdrLen) + FragFrameSize(s, m, c, c * (m - HdrLen)) - HdrLen
                = (c + 1) * (m - HdrLen)
<1> DEFINE p == m - HdrLen
           T == FragTotal(s, m)
<1>1. /\ p \in Nat /\ p > 0 /\ T \in Nat /\ T > 0
      /\ (T - 1) * p < s /\ s <= T * p
  BY FragmentCount
<1>2. c * p \in Nat /\ (c + 1) * p = c * p + p
  BY <1>1, SMTT(30)
<1> DEFINE q == c * p
           F == FragFrameSize(s, m, c, q)
<1>m. m = p + HdrLen /\ HdrLen \in Nat
  BY DEF HdrLen
<1>3. CASE c = T - 1
  <2>1. T * p = q + p
    BY <1>1, <1>2, <1>3
  <2>2. q \in Nat /\ q < s /\ s <= q + p
    BY <1>1, <1>2, <1>3, <2>1
  <2>3. F = s - q + HdrLen
    BY <1>3 DEF FragFrameSize
  <2>4. ~ (c + 1 < T)
    BY <1>1, <1>3
  <2>5. F \in Int /\ F <= m /\ F > HdrLen
    <3> HIDE DEF q, p
    <3> QED BY <1>1, <1>m, <2>2, <2>3
  <2> QED BY <2>4, <2>5
<1>4. CASE c # T - 1
  <2>1. F = m
    BY <1>4 DEF FragFrameSize
  <2>2. F \in Int /\ F <= m /\ F > HdrLen
    BY <1>1, <1>m, <2>1
  <2>3. q + F - HdrLen = (c + 1) * p
    <3>1. q + F - HdrLen = q + p
      <4> HIDE DEF q, p
      <4> QED BY <1>1, <1>2, <1>m, <2>1
    <3> QED BY <1>2, <3>1
  <2> QED BY <2>2, <2>3
<1> QED BY <1>3, <1>4

(* The estimate of ndn_l2_send_fragments is one too high exactly for the   *)
(* packet that fills 32 fragments to the last byte: it is refused although *)
(* its fragments could be numbered, and no other packet is.                *)
THEOREM GuardRefusesFullPacket ==
  ASSUME NEW s \in Nat \ {0}, NEW m \in Nat, MtuCarriesPayload(m)
  PROVE  FragTotal(s, m) <= MaxFrags /\ ~ Fragmentable(s, m)
           <=> s = MaxFrags * (m - HdrLen)
<1> DEFINE p == m - HdrLen
           T == FragTotal(s, m)
           E == s \div p
<1>1. p \in Nat /\ p > 0 /\ s \in Nat /\ s > 0
  BY DEF MtuCarriesPayload, HdrLen
<1>2. s + p - 1 \in Nat /\ T = (s + p - 1) \div p
  BY <1>1 DEF FragTotal, HdrLen
<1>3. T \in Nat /\ T * p <= s + p - 1 /\ s + p - 1 < T * p + p /\ T * p \in Nat
  BY <1>1, <1>2, DivFacts
<1>4. E \in Nat /\ E * p <= s /\ s < E * p + p /\ E * p \in Nat
  BY <1>1, DivFacts
<1>5. ~ Fragmentable(s, m) <=> 32 <= E
  BY <1>4 DEF Fragmentable, EstimatedFrags, MaxFrags
<1> HIDE DEF p, T, E
<1>6. T <= 32 <=> s <= 32 * p
  <2>1. ASSUME 32 < T PROVE 32 * p < s
    <3>1. T * p = 33 * p + (T - 33) * p /\ (T - 33) * p >= 0
      BY <1>1, <1>3, <2>1, SMTT(30)
    <3>2. (T - 33) * p \in Int
      BY <1>1, <1>3
    <3> QED BY <1>1, <1>3, <3>1, <3>2
  <2>2. ASSUME T <= 32 PROVE s <= 32 * p
    <3>1. 32 * p = T * p + (32 - T) * p /\ (32 - T) * p >= 0
      BY <1>1, <1>3, <2>2, SMTT(30)
    <3>2. (32 - T) * p \in Int
      BY <1>1, <1>3
    <3> QED BY <1>1, <1>3, <3>1, <3>2
  <2> QED BY <1>1, <1>3, <2>1, <2>2
<1>7. 32 <= E <=> 32 * p <= s
  <2>1. ASSUME 32 <= E PROVE 32 * p <= s
    <3>1. E * p = 32 * p + (E - 32) * p /\ (E - 32) * p >= 0
      BY <1>1, <1>4, <2>1, SMTT(30)
    <3>2. (E - 32) * p \in Int
      BY <1>1, <1>4
    <3> QED BY <1>1, <1>4, <3>1, <3>2
  <2>2. ASSUME E < 32 PROVE s < 32 * p
    <3>1. 32 * p = E * p + p + (31 - E) * p /\ (31 - E) * p >= 0
      BY <1>1, <1>4, <2>2, SMTT(30)
    <3>2. (31 - E) * p \in Int
      BY <1>1, <1>4
    <3> QED BY <1>1, <1>4, <3>1, <3>2
  <2> QED BY <1>1, <1>4, <2>1, <2>2
<1> QED BY <1>1, <1>5, <1>6, <1>7 DEF T, p, MaxFrags

-----------------------------------------------------------------------------
(* The assembler *)

LEMMA InitialAssembler == AssemblerInit \in Assembler
  BY FragBufAssumption DEF AssemblerInit, Assembler, MaxFrags

(* Whatever fragment arrives, the assembler stays well formed: the offset  *)
(* within the re-assembly buffer, the next number at most 32.              *)
LEMMA AssembleFragType ==
  ASSUME NEW a \in Assembler, NEW f,
         f.id \in FragIds, f.seq \in 0 .. MaxFrags - 1, f.last \in BOOLEAN, f.len \in Nat
  PROVE  AssembleFrag(a, f) \subseteq Assembler
<1>1. ASSUME NEW b \in Assembler, Continues(b, f)
      PROVE  Extended(b, f) \in Assembler
  BY <1>1, FragBufAssumption DEF Continues, Extended, Assembler, MaxFrags
<1> QED BY <1>1, InitialAssembler DEF AssembleFrag

(* A fragment leaves an assembler as it is, continues its packet, or       *)
(* starts one.                                                             *)
LEMMA AssembleFragCases ==
  ASSUME NEW a, NEW f, NEW b \in AssembleFrag(a, f)
  PROVE  \/ b = a /\ ~ Continues(a, f)
         \/ b = Extended(a, f) /\ Continues(a, f)
         \/ b = Extended(AssemblerInit, f) /\ Continues(AssemblerInit, f) /\ ~ Continues(a, f)
BY DEF AssembleFrag

=============================================================================
