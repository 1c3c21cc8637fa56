----------------------------- MODULE Enrollment -----------------------------
(***************************************************************************)
(* What bootstrapping promises, without its packets: in each run, known by *)
(* its key, a device is offered at most one trust anchor; the anchor that  *)
(* was offered, and no other, is certified, at most once; and only a run   *)
(* that was certified comes to its end.                                    *)
(***************************************************************************)
CONSTANTS Keys, Anchors

VARIABLES offers,        \* pairs of a key and the anchor sent in answer to it
          certificates,  \* those of them that were certified
          enrolled       \* the keys of runs at their end

vars == <<offers, certificates, enrolled>>

Init == offers = {} /\ certificates = {} /\ enrolled = {}

Offer(k, a) ==
  /\ \A o \in offers : o[1] # k
  /\ offers' = offers \cup {<<k, a>>}
  /\ UNCHANGED <<certificates, enrolled>>

Certify(o) ==
  /\ o \in offers \ certificates
  /\ certificates' = certificates \cup {o}
  /\ UNCHANGED <<offers, enrolled>>

Enroll(o) ==
  /\ o \in certificates /\ o[1] \notin enrolled
  /\ enrolled' = enrolled \cup {o[1]}
  /\ UNCHANGED <<offers, certificates>>

Leave(k) ==
  /\ enrolled' = enrolled \ {k}
  /\ UNCHANGED <<offers, certificates>>

Next ==
  \/ \E k \in Keys : Leave(k) \/ \E a \in Anchors : Offer(k, a)
  \/ \E o \in Keys \X Anchors : Certify(o) \/ Enroll(o)

Spec == Init /\ [][Next]_vars
=============================================================================
