--------------------------- MODULE PacketService ---------------------------
(***************************************************************************)
(* What the link-layer faces of two nodes promise the forwarders above     *)
(* them: the receiver is given packets that were sent, whole and unmixed,  *)
(* each sending at most once.  Any packet may be lost, and packets may     *)
(* overtake each other.  A sending may collide with an earlier one; from   *)
(* then on the receiver may also be given bytes that are no packet.        *)
(***************************************************************************)
EXTENDS Sequences, Integers

CONSTANTS Packets, Garbled

VARIABLES sent,     \* the packets given to a sender
          log,      \* what was given to the receiver, in order
          collided  \* whether two packets bear the same identifier

vars == <<sent, log, collided>>

Delivered(p) == \E i \in 1 .. Len(log) : log[i] = p

Init == sent = {} /\ log = <<>> /\ collided = FALSE

Send(p) ==
  /\ p \notin sent
  /\ sent' = sent \cup {p}
  /\ collided' \in {collided, TRUE}
  /\ UNCHANGED log

Deliver(p) ==
  /\ p \in sent /\ ~ Delivered(p)
  /\ log' = Append(log, p)
  /\ UNCHANGED <<sent, collided>>

DeliverGarbled ==
  /\ collided
  /\ log' = Append(log, Garbled)
  /\ UNCHANGED <<sent, collided>>

Next == DeliverGarbled \/ \E p \in Packets : Send(p) \/ Deliver(p)

Spec == Init /\ [][Next]_vars
=============================================================================
