------------------------------ MODULE Exchange ------------------------------
(***************************************************************************)
(* The examples: consumers that express one Interest for /ndn/test and     *)
(* wait for a callback, and producers that answer every Interest with      *)
(* /ndn/test/01, over link-layer or UDP faces.  All of them multicast, so  *)
(* that each node hears every packet: the Data for one consumer answers    *)
(* the Interest of another as well, and every producer answers.            *)
(*                                                                         *)
(* Packets are lost or arrive garbled.  A node takes them in order from    *)
(* its mailbox, one in a round of its loop at most, as its face is polled. *)
(***************************************************************************)
EXTENDS Integers, Sequences

CONSTANTS Consumers, Producers,
          Lifetime,   \* rounds of a second that an Interest lives: 5
          Mailbox     \* messages the mailbox of a node holds

ASSUME NodesAssumption == Consumers \cap Producers = {}
ASSUME BoundsAssumption == Lifetime \in Nat \ {0} /\ Mailbox \in Nat

Nodes == Consumers \cup Producers
Packets == {"interest", "data", "garbled"}

(* Of each consumer: what became of its Interest, the variable running,    *)
(* the rounds the pending Interest has left, and the callbacks it got.     *)
VARIABLES interest, running, pending, calls, mailbox

vars == <<interest, running, pending, calls, mailbox>>

Init ==
  /\ interest = [c \in Consumers |-> "none"]
  /\ running = [c \in Consumers |-> FALSE]
  /\ pending = [c \in Consumers |-> 0]
  /\ calls = [c \in Consumers |-> <<>>]
  /\ mailbox = [n \in Nodes |-> <<>>]

-----------------------------------------------------------------------------
(* The network: what each of the other nodes gets of a packet. *)

Fates(packet) == {packet, "garbled", "lost"}

Delivered(box, fate) ==
  IF fate = "lost" \/ Len(box) = Mailbox THEN box ELSE Append(box, fate)

Multicast(sender, packet, boxes) ==
  \E fates \in [Nodes \ {sender} -> Fates(packet)] :
    mailbox' = [n \in Nodes |-> IF n = sender THEN boxes[n]
                                ELSE Delivered(boxes[n], fates[n])]

Take(n) == mailbox' = [mailbox EXCEPT ![n] = Tail(@)]

-----------------------------------------------------------------------------
(* Consumers *)

(* ndn_forwarder_express_interest may refuse; its result is ignored.       *)
Express(c) ==
  /\ interest[c] = "none"
  /\ running' = [running EXCEPT ![c] = TRUE]
  /\ \/ /\ interest' = [interest EXCEPT ![c] = "accepted"]
        /\ pending' = [pending EXCEPT ![c] = Lifetime]
        /\ Multicast(c, "interest", mailbox)
     \/ /\ interest' = [interest EXCEPT ![c] = "refused"]
        /\ UNCHANGED <<pending, mailbox>>
  /\ UNCHANGED calls

Call(c, outcome) ==
  /\ calls' = [calls EXCEPT ![c] = Append(@, outcome)]
  /\ running' = [running EXCEPT ![c] = FALSE]

NoCall == UNCHANGED <<calls, running>>

(* Variant: the callback returns where decoding fails. *)
OnDataReturnsEarly(c, packet) ==
  IF packet = "garbled" THEN NoCall ELSE Call(c, "printed")

(* Where decoding fails the callback says so and prints all the same. *)
OnData(c, packet) ==
  Call(c, IF packet = "garbled" THEN "garbage" ELSE "printed")

(* Variant: the timeout is not looked at. *)
OnTimeoutIgnored(c) == NoCall

OnTimeout(c) == Call(c, "timeout")

(* The forwarder drops what no pending Interest asked for, and garbled     *)
(* Data unless it garbles the content alone.                               *)
Answers(c, packet) == pending[c] > 0 /\ packet \in {"data", "garbled"}

RoundWithData(c) ==
  /\ running[c] /\ mailbox[c] # <<>>
  /\ Answers(c, Head(mailbox[c]))
  /\ OnData(c, Head(mailbox[c]))
  /\ pending' = [pending EXCEPT ![c] = 0]
  /\ Take(c)
  /\ UNCHANGED interest

(* Variant: the lifetime of an Interest that was refused runs on. *)
ExpireAll(c) ==
  /\ pending' = [pending EXCEPT ![c] = @ - 1]
  /\ IF pending[c] = 1 THEN OnTimeout(c) ELSE NoCall

Expire(c) ==
  /\ pending' = [pending EXCEPT ![c] = IF @ = 0 THEN 0 ELSE @ - 1]
  /\ IF pending[c] = 1 THEN OnTimeout(c) ELSE NoCall

RoundWithoutData(c) ==
  /\ running[c]
  /\ Expire(c)
  /\ \/ UNCHANGED mailbox
     \/ mailbox[c] # <<>> /\ Head(mailbox[c]) # "data" /\ Take(c)
     \/ mailbox[c] # <<>> /\ pending[c] = 0 /\ Take(c)
  /\ UNCHANGED interest

Round(c) == RoundWithData(c) \/ RoundWithoutData(c)

-----------------------------------------------------------------------------
(* Producers, whose loop never ends *)

OnInterest(p) == Multicast(p, "data", [mailbox EXCEPT ![p] = Tail(@)])

ProducerRound(p) ==
  /\ mailbox[p] # <<>>
  /\ IF Head(mailbox[p]) = "interest" THEN OnInterest(p) ELSE Take(p)
  /\ UNCHANGED <<interest, running, pending, calls>>

Next ==
  \/ \E c \in Consumers : Express(c) \/ Round(c)
  \/ \E p \in Producers : ProducerRound(p)

Spec == Init /\ [][Next]_vars

(* Every loop goes round. *)
FairSpec ==
  /\ Spec
  /\ \A c \in Consumers : WF_vars(Round(c))
  /\ \A p \in Producers : WF_vars(ProducerRound(p))

-----------------------------------------------------------------------------
(* Properties *)

TypeOK ==
  /\ interest \in [Consumers -> {"none", "accepted", "refused"}]
  /\ running \in [Consumers -> BOOLEAN]
  /\ pending \in [Consumers -> 0 .. Lifetime]
  /\ \A c \in Consumers : Len(calls[c]) <= 1
  /\ \A n \in Nodes : Len(mailbox[n]) <= Mailbox

(* A consumer whose Interest was accepted leaves its loop, whatever is     *)
(* lost or garbled: it gets a callback, and only running, which both set,  *)
(* ends the loop.                                                          *)
LoopEnds == \A c \in Consumers : pending[c] > 0 ~> ~ running[c]

(* The only consumers that go round forever without anything pending are   *)
(* those whose Interest was refused: an answer to someone else, a garbled  *)
(* one or a late one never uses up the Interest without ending the loop.   *)
StuckOnlyIfRefused ==
  \A c \in Consumers :
    running[c] /\ pending[c] = 0 => interest[c] = "refused" /\ calls[c] = <<>>

=============================================================================
