------------------------------- MODULE L2Frag -------------------------------
(***************************************************************************)
(* The link-layer fragmentation that adaptation/gnrc-netface/l2.c drives:  *)
(* the arithmetic of ndn_l2_send_fragments, and the ndn-lite fragmenter    *)
(* and assembler as l2.c uses them.  The two library objects are not in    *)
(* this repository; their contract is what l2.c and the fragment sizes     *)
(* logged under benchmark/ show of them.                                   *)
(*                                                                         *)
(* Lengths are in bytes of packet payload, FragBufSize is the size of the  *)
(* re-assembly buffer of a netface (netface.h: frag_buffer[500]).          *)
(***************************************************************************)
EXTENDS Integers

CONSTANTS FragBufSize,  \* bytes one assembler can hold
          FragIds,      \* identifiers a fragment header can carry
          NoId          \* the identifier field of a fresh assembler

ASSUME FragBufAssumption == FragBufSize \in Nat \ {0}
ASSUME NoIdAssumption == NoId \notin FragIds

HdrLen   == 3    \* NDN_FRAG_HDR_LEN
MaxFrags == 32   \* the sequence number of a fragment has five bits

-----------------------------------------------------------------------------
(* Sending *)

(* Variants: the count is not rounded up; one is added after rounding up;  *)
(* the last fragment is looked for one too late.                           *)
EstimatedFragsDown(size, mtu) == size \div (mtu - HdrLen)
EstimatedFragsUp(size, mtu) == (size + mtu - HdrLen - 1) \div (mtu - HdrLen) + 1
FragFrameSizeLate(size, mtu, counter, offset) ==
  IF counter * (mtu - HdrLen) >= size THEN size - offset + HdrLen ELSE mtu

(* The guards of ndn_l2_send_fragments: a payload byte must fit beside the *)
(* header, and the (over-)estimate of the fragment count must fit the      *)
(* sequence number.                                                        *)
MtuCarriesPayload(mtu) == mtu > HdrLen
EstimatedFrags(size, mtu) == size \div (mtu - HdrLen) + 1
Fragmentable(size, mtu) == MtuCarriesPayload(mtu) /\ EstimatedFrags(size, mtu) <= MaxFrags

(* ndn_fragmenter_init: total_frag_num, every fragment but the last full.  *)
FragTotal(size, mtu) == (size + mtu - HdrLen - 1) \div (mtu - HdrLen)

(* The size that ndn_l2_send_fragments computes for the next fragment.     *)
FragFrameSize(size, mtu, counter, offset) ==
  IF counter = FragTotal(size, mtu) - 1 THEN size - offset + HdrLen ELSE mtu

-----------------------------------------------------------------------------
(* Receiving *)

Fragment == [id : FragIds, seq : 0 .. MaxFrags - 1, last : BOOLEAN,
             len : 1 .. FragBufSize]

Assembler == [id : FragIds \cup {NoId}, seq : 0 .. MaxFrags,
              offset : 0 .. FragBufSize, finished : BOOLEAN]

(* ndn_frag_assembler_init *)
AssemblerInit == [id |-> NoId, seq |-> 0, offset |-> 0, finished |-> FALSE]

(* Variant: the rest of the buffer is not checked. *)
ContinuesUnchecked(a, f) ==
  ~ a.finished /\ f.seq = a.seq /\ a.id \in {NoId, f.id}

Continues(a, f) ==
  /\ ~ a.finished
  /\ f.seq = a.seq
  /\ a.id \in {NoId, f.id}
  /\ a.offset + f.len <= FragBufSize

Extended(a, f) == [id |-> f.id, seq |-> a.seq + 1, offset |-> a.offset + f.len,
                   finished |-> f.last]

(* ndn_frag_assembler_assemble_frag: the states it may leave.  A fragment  *)
(* that continues the packet is copied in.  Any other one is refused with  *)
(* an error code that l2.c ignores; whether the library then starts over   *)
(* from a first fragment of another packet is left open.                   *)
AssembleFrag(a, f) ==
  IF Continues(a, f)
  THEN {Extended(a, f)}
  ELSE {a} \cup {Extended(b, f) : b \in {c \in {AssemblerInit} : Continues(c, f)}}

=============================================================================
