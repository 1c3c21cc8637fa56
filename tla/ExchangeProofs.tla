--------------------------- MODULE ExchangeProofs ---------------------------
(***************************************************************************)
(* Theorems about Exchange, for all sets of consumers and producers, every *)
(* lifetime and every size of the mailbox.                                 *)
(***************************************************************************)
EXTENDS Exchange, TLAPS

(* Where a consumer can be: before its Interest, waiting for a packet or   *)
(* for the end of the lifetime, called back, or refused.  The Interest is  *)
(* given up in the step of the one callback, and in no other.              *)
Idle(c) == interest[c] = "none" /\ ~ running[c] /\ pending[c] = 0 /\ calls[c] = <<>>
Waiting(c) == interest[c] = "accepted" /\ running[c] /\ pending[c] > 0 /\ calls[c] = <<>>
Called(c) == interest[c] = "accepted" /\ ~ running[c] /\ pending[c] = 0 /\ Len(calls[c]) = 1
Refused(c) == interest[c] = "refused" /\ running[c] /\ pending[c] = 0 /\ calls[c] = <<>>

Outcomes == {"printed", "garbage", "timeout"}

ConsumerInv ==
  /\ interest \in [Consumers -> {"none", "accepted", "refused"}]
  /\ running \in [Consumers -> BOOLEAN]
  /\ pending \in [Consumers -> 0 .. Lifetime]
  /\ calls \in [Consumers -> Seq(Outcomes)]
  /\ \A c \in Consumers : Idle(c) \/ Waiting(c) \/ Called(c) \/ Refused(c)

MailboxInv ==
  /\ mailbox \in [Nodes -> Seq(Packets)]
  /\ \A n \in Nodes : Len(mailbox[n]) <= Mailbox

ExchangeInv == ConsumerInv /\ MailboxInv

-----------------------------------------------------------------------------
(* Mailboxes *)

(* A message that finds the mailbox full is lost, so that none overflows.  *)
LEMMA DeliveredFits ==
  ASSUME NEW box \in Seq(Packets), Len(box) <= Mailbox,
         NEW fate \in Packets \cup {"lost"}
  PROVE  Delivered(box, fate) \in Seq(Packets) /\ Len(Delivered(box, fate)) <= Mailbox
BY BoundsAssumption DEF Delivered, Packets

LEMMA MulticastKeepsMailboxes ==
  ASSUME NEW sender \in Nodes, NEW packet \in {"interest", "data"},
         NEW boxes \in [Nodes -> Seq(Packets)],
         \A n \in Nodes : Len(boxes[n]) <= Mailbox,
         Multicast(sender, packet, boxes)
  PROVE  MailboxInv'
<1>1. PICK fates \in [Nodes \ {sender} -> Fates(packet)] :
        mailbox' = [n \in Nodes |-> IF n = sender THEN boxes[n]
                                    ELSE Delivered(boxes[n], fates[n])]
  BY DEF Multicast
<1>2. ASSUME NEW n \in Nodes, n # sender
      PROVE  Delivered(boxes[n], fates[n]) \in Seq(Packets)
             /\ Len(Delivered(boxes[n], fates[n])) <= Mailbox
  <2>1. fates[n] \in Packets \cup {"lost"}
    BY <1>2 DEF Fates, Packets
  <2> QED BY <2>1, DeliveredFits
<1>3. ASSUME NEW n \in Nodes
      PROVE  mailbox'[n] \in Seq(Packets) /\ Len(mailbox'[n]) <= Mailbox
  BY <1>1, <1>2
<1> QED BY <1>1, <1>3 DEF MailboxInv

LEMMA TakeKeepsMailboxes ==
  ASSUME MailboxInv, NEW n \in Nodes, mailbox[n] # <<>>
  PROVE  /\ [mailbox EXCEPT ![n] = Tail(@)] \in [Nodes -> Seq(Packets)]
         /\ \A k \in Nodes : Len([mailbox EXCEPT ![n] = Tail(@)][k]) <= Mailbox
<1>1. mailbox[n] \in Seq(Packets) /\ Len(mailbox[n]) <= Mailbox
  BY DEF MailboxInv
<1>2. Tail(mailbox[n]) \in Seq(Packets) /\ Len(Tail(mailbox[n])) <= Mailbox
  BY <1>1, BoundsAssumption
<1> QED BY <1>2 DEF MailboxInv

-----------------------------------------------------------------------------
(* Consumers *)

LEMMA ExchangeInit == Init => ExchangeInv
BY BoundsAssumption
   DEF Init, ExchangeInv, ConsumerInv, MailboxInv, Idle

(* What a step does to the consumer that takes it is one of these.         *)
LEMMA ExpressStep ==
  ASSUME ExchangeInv, NEW c \in Consumers, Express(c)
  PROVE  ExchangeInv'
<1>1. c \in Nodes
  BY DEF Nodes
<1>2. Idle(c)
  BY DEF Express, ExchangeInv, ConsumerInv, Waiting, Called, Refused
<1>3. (Waiting(c) \/ Refused(c))'
  BY <1>2, BoundsAssumption
     DEF Express, ExchangeInv, ConsumerInv, Idle, Waiting, Refused
<1>4. ConsumerInv'
  <2>1. /\ interest' \in [Consumers -> {"none", "accepted", "refused"}]
        /\ running' \in [Consumers -> BOOLEAN]
        /\ pending' \in [Consumers -> 0 .. Lifetime]
        /\ calls' \in [Consumers -> Seq(Outcomes)]
    <3>1. interest \in [Consumers -> {"none", "accepted", "refused"}]
          /\ running \in [Consumers -> BOOLEAN] /\ calls \in [Consumers -> Seq(Outcomes)]
      BY DEF ExchangeInv, ConsumerInv
    <3>2. pending \in [Consumers -> 0 .. Lifetime] /\ Lifetime \in 0 .. Lifetime
      BY BoundsAssumption DEF ExchangeInv, ConsumerInv
    <3> QED BY <3>1, <3>2 DEF Express
  <2>2. ASSUME NEW d \in Consumers, d # c
        PROVE  interest'[d] = interest[d] /\ running'[d] = running[d]
               /\ pending'[d] = pending[d] /\ calls'[d] = calls[d]
    BY <2>2 DEF Express, ExchangeInv, ConsumerInv
  <2> QED BY <1>3, <2>1, <2>2 DEF ExchangeInv, ConsumerInv, Idle, Waiting, Called, Refused
<1>5. MailboxInv'
  <2>1. CASE Multicast(c, "interest", mailbox)
    BY <1>1, <2>1, MulticastKeepsMailboxes DEF ExchangeInv, MailboxInv
  <2>2. CASE UNCHANGED mailbox
    BY <2>2 DEF ExchangeInv, MailboxInv
  <2> QED BY <2>1, <2>2 DEF Express
<1> QED BY <1>4, <1>5 DEF ExchangeInv

LEMMA RoundStep ==
  ASSUME ExchangeInv, NEW c \in Consumers, Round(c)
  PROVE  ExchangeInv'
<1>1. c \in Nodes
  BY DEF Nodes
<1>2. /\ interest' = interest /\ running[c]
      /\ \/ /\ pending[c] > 0 /\ \E o \in Outcomes : Call(c, o)
            /\ pending' = [pending EXCEPT ![c] = 0]
         \/ /\ NoCall
            /\ pending' = [pending EXCEPT ![c] = IF @ = 0 THEN 0 ELSE @ - 1]
            /\ pending[c] # 1
  BY DEF Round, RoundWithData, RoundWithoutData, Answers, OnData, Expire, OnTimeout,
         ExchangeInv, ConsumerInv, Outcomes
<1>3. ConsumerInv'
  <2>1. Waiting(c) \/ Refused(c)
    BY <1>2 DEF ExchangeInv, ConsumerInv, Idle, Called
  <2>2. pending[c] \in 0 .. Lifetime /\ Lifetime \in Nat
    BY BoundsAssumption DEF ExchangeInv, ConsumerInv
  <2>3. CASE /\ pending[c] > 0
             /\ \E o \in Outcomes : Call(c, o)
             /\ pending' = [pending EXCEPT ![c] = 0]
    <3>1. PICK o \in Outcomes : Call(c, o)
      BY <2>3
    <3>2. Waiting(c)
      BY <2>1, <2>3 DEF Refused
    <3>3. Append(calls[c], o) \in Seq(Outcomes) /\ Len(Append(calls[c], o)) = 1
      BY <3>2 DEF Waiting
    <3>4. Called(c)'
      BY <1>2, <2>3, <3>1, <3>2, <3>3 DEF Call, Called, Waiting, ExchangeInv, ConsumerInv
    <3>5. /\ running' \in [Consumers -> BOOLEAN]
          /\ pending' \in [Consumers -> 0 .. Lifetime]
          /\ calls' \in [Consumers -> Seq(Outcomes)]
      BY <2>2, <2>3, <3>1, <3>3 DEF Call, ExchangeInv, ConsumerInv
    <3>6. ASSUME NEW d \in Consumers, d # c
          PROVE  running'[d] = running[d] /\ pending'[d] = pending[d] /\ calls'[d] = calls[d]
      BY <2>3, <3>1, <3>6 DEF Call, ExchangeInv, ConsumerInv
    <3> QED BY <1>2, <3>4, <3>5, <3>6 DEF ExchangeInv, ConsumerInv, Idle, Waiting, Called, Refused
  <2>4. CASE /\ NoCall
             /\ pending' = [pending EXCEPT ![c] = IF @ = 0 THEN 0 ELSE @ - 1]
             /\ pending[c] # 1
    <3>1. pending' \in [Consumers -> 0 .. Lifetime]
      BY <2>2, <2>4 DEF ExchangeInv, ConsumerInv
    <3>2. pending'[c] = 0 <=> pending[c] = 0
      BY <2>2, <2>4 DEF ExchangeInv, ConsumerInv
    <3>3. (Waiting(c) \/ Refused(c))'
      <4>1. pending'[c] \in 0 .. Lifetime
        BY <3>1
      <4>2. interest'[c] = interest[c] /\ running'[c] = running[c] /\ calls'[c] = calls[c]
        BY <1>2, <2>4 DEF NoCall
      <4>3. pending'[c] > 0 <=> pending[c] > 0
        BY <2>2, <3>2, <4>1
      <4> QED BY <2>1, <3>2, <4>2, <4>3 DEF Waiting, Refused
    <3>4. ASSUME NEW d \in Consumers, d # c PROVE pending'[d] = pending[d]
      BY <2>4, <3>4 DEF ExchangeInv, ConsumerInv
    <3> QED BY <1>2, <2>4, <3>1, <3>3, <3>4
            DEF NoCall, ExchangeInv, ConsumerInv, Idle, Waiting, Called, Refused
  <2> QED BY <1>2, <2>3, <2>4
<1>4. MailboxInv'
  <2>1. CASE mailbox[c] # <<>> /\ Take(c)
    BY <1>1, <2>1, TakeKeepsMailboxes DEF Take, ExchangeInv, MailboxInv
  <2>2. CASE UNCHANGED mailbox
    BY <2>2 DEF ExchangeInv, MailboxInv
  <2> QED BY <2>1, <2>2 DEF Round, RoundWithData, RoundWithoutData
<1> QED BY <1>3, <1>4 DEF ExchangeInv

LEMMA ProducerStep ==
  ASSUME ExchangeInv, NEW p \in Producers, ProducerRound(p)
  PROVE  ExchangeInv'
<1>1. p \in Nodes
  BY DEF Nodes
<1>2. ConsumerInv'
  BY DEF ProducerRound, ExchangeInv, ConsumerInv, Idle, Waiting, Called, Refused
<1>3. MailboxInv'
  <2> DEFINE rest == [mailbox EXCEPT ![p] = Tail(@)]
  <2>1. rest \in [Nodes -> Seq(Packets)] /\ \A n \in Nodes : Len(rest[n]) <= Mailbox
    BY <1>1, TakeKeepsMailboxes DEF ProducerRound, ExchangeInv
  <2>2. CASE OnInterest(p)
    BY <1>1, <2>1, <2>2, MulticastKeepsMailboxes DEF OnInterest
  <2>3. CASE Take(p)
    BY <2>1, <2>3 DEF Take, MailboxInv
  <2> QED BY <2>2, <2>3 DEF ProducerRound
<1> QED BY <1>2, <1>3 DEF ExchangeInv

LEMMA ExchangeStep == ExchangeInv /\ [Next]_vars => ExchangeInv'
<1>1. ASSUME ExchangeInv, UNCHANGED vars PROVE ExchangeInv'
  BY <1>1 DEF vars, ExchangeInv, ConsumerInv, MailboxInv, Idle, Waiting, Called, Refused
<1> QED BY <1>1, ExpressStep, RoundStep, ProducerStep DEF Next

-----------------------------------------------------------------------------
(* No mailbox overflows, no lifetime wraps below zero and no consumer is   *)
(* called back twice, whatever is lost, garbled or answered twice.         *)
THEOREM ExchangeTypeCorrect == Spec => []TypeOK
<1>1. ExchangeInv => TypeOK
  <2> SUFFICES ASSUME ExchangeInv PROVE TypeOK
    OBVIOUS
  <2>1. ASSUME NEW c \in Consumers PROVE Len(calls[c]) <= 1
    <3>1. calls[c] = <<>> \/ Len(calls[c]) = 1
      BY Zenon DEF ExchangeInv, ConsumerInv, Idle, Waiting, Called, Refused
    <3>2. calls[c] \in Seq(Outcomes)
      BY DEF ExchangeInv, ConsumerInv
    <3>3. CASE calls[c] = <<>>
      BY <3>2, <3>3
    <3>4. CASE Len(calls[c]) = 1
      BY <3>2, <3>4
    <3> QED BY <3>1, <3>3, <3>4
  <2>2. \A n \in Nodes : Len(mailbox[n]) <= Mailbox
    BY Zenon DEF ExchangeInv, MailboxInv
  <2>3. /\ interest \in [Consumers -> {"none", "accepted", "refused"}]
        /\ running \in [Consumers -> BOOLEAN]
        /\ pending \in [Consumers -> 0 .. Lifetime]
    BY Zenon DEF ExchangeInv, ConsumerInv
  <2> QED BY <2>1, <2>2, <2>3, Zenon DEF TypeOK
<1> QED BY <1>1, ExchangeInit, ExchangeStep, PTL DEF Spec

(* Only a consumer whose Interest was refused can go round with nothing    *)
(* pending: running is cleared in the step that uses the Interest up.      *)
THEOREM OnlyRefusedAreStuck == Spec => []StuckOnlyIfRefused
<1>1. ExchangeInv => StuckOnlyIfRefused
  BY DEF ExchangeInv, ConsumerInv, StuckOnlyIfRefused, Idle, Waiting, Called, Refused
<1> QED BY <1>1, ExchangeInit, ExchangeStep, PTL DEF Spec

(* The step-by-step core of LoopEnds.  Nothing but a consumer's own rounds *)
(* touches its wait for a callback; each of them makes the wait shorter,   *)
(* and the one that ends it ends the loop.                                 *)
WaitShrinks ==
  [][\A c \in Consumers : pending[c] > 0 =>
       \/ UNCHANGED <<pending[c], running[c]>> /\ ~ Round(c)
       \/ /\ Round(c) /\ pending'[c] < pending[c]
          /\ pending'[c] = 0 => ~ running'[c]]_vars

(* Whatever arrives, a wait of k rounds is over after k rounds.            *)
THEOREM WaitsAreBounded == Spec => WaitShrinks
<1> DEFINE Shrinks(c) ==
      \/ UNCHANGED <<pending[c], running[c]>> /\ ~ Round(c)
      \/ /\ Round(c) /\ pending'[c] < pending[c]
         /\ pending'[c] = 0 => ~ running'[c]
<1>1. ASSUME ExchangeInv, Next, NEW c \in Consumers, pending[c] > 0 PROVE Shrinks(c)
  <2>1. pending[c] \in 0 .. Lifetime /\ Lifetime \in Nat
    BY BoundsAssumption, <1>1 DEF ExchangeInv, ConsumerInv
  <2>2. CASE Round(c)
    <3>1. \/ pending' = [pending EXCEPT ![c] = 0] /\ \E o \in Outcomes : Call(c, o)
          \/ pending' = [pending EXCEPT ![c] = IF @ = 0 THEN 0 ELSE @ - 1]
             /\ (pending[c] = 1 => \E o \in Outcomes : Call(c, o))
      BY <2>2, <1>1 DEF Round, RoundWithData, RoundWithoutData, Answers, OnData, Expire, OnTimeout,
         ExchangeInv, ConsumerInv, Outcomes
    <3>2. /\ pending'[c] \in {0, pending[c] - 1}
          /\ pending'[c] = 0 => \E o \in Outcomes : Call(c, o)
      BY <1>1, <2>1, <3>1 DEF ExchangeInv, ConsumerInv
    <3>3. (\E o \in Outcomes : Call(c, o)) => ~ running'[c]
      BY <1>1 DEF Call, ExchangeInv, ConsumerInv
    <3>4. pending'[c] < pending[c]
      BY <1>1, <2>1, <3>2
    <3> QED BY <2>2, <3>2, <3>3, <3>4
  <2>3. CASE ~ Round(c)
    <3>1. ASSUME NEW d \in Consumers, Express(d) PROVE UNCHANGED <<pending[c], running[c]>>
      <4>1. d # c
        BY <1>1, <3>1 DEF Express, ExchangeInv, ConsumerInv, Idle, Waiting, Called, Refused
      <4> QED BY <1>1, <3>1, <4>1 DEF Express, ExchangeInv, ConsumerInv
    <3>2. ASSUME NEW d \in Consumers, Round(d) PROVE UNCHANGED <<pending[c], running[c]>>
      <4>1. d # c
        BY <2>3, <3>2
      <4> QED BY <1>1, <3>2, <4>1
             DEF Round, RoundWithData, RoundWithoutData, OnData, Expire, OnTimeout, Call, NoCall,
                 ExchangeInv, ConsumerInv
    <3>3. ASSUME NEW p \in Producers, ProducerRound(p) PROVE UNCHANGED <<pending[c], running[c]>>
      BY <3>3 DEF ProducerRound
    <3>4. UNCHANGED <<pending[c], running[c]>>
      BY <1>1, <3>1, <3>2, <3>3 DEF Next
    <3> QED BY <2>3, <3>4
  <2> QED BY <2>2, <2>3
<1> HIDE DEF Shrinks
<1>2. ExchangeInv /\ [Next]_vars => [\A c \in Consumers : pending[c] > 0 => Shrinks(c)]_vars
  BY <1>1
<1>3. Spec => [][\A c \in Consumers : pending[c] > 0 => Shrinks(c)]_vars
  BY <1>2, ExchangeInit, ExchangeStep, PTL DEF Spec
<1> QED BY <1>3 DEF WaitShrinks, Shrinks

=============================================================================
