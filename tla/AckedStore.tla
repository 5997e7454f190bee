----------------------------- MODULE AckedStore -----------------------------
(***************************************************************************)
(* What a lake writer promises its topic, without saying how: records may  *)
(* land, or be refused by the object store, in any order and any groups,   *)
(* and the acknowledged prefix of the topic only grows and only covers     *)
(* records that have landed or been refused.                               *)
(***************************************************************************)
EXTENDS Naturals

VARIABLES
  landed,    \* offsets of the records in the lake
  refused,   \* offsets of the records that a failed put has given up
  acked      \* length of the acknowledged prefix

storeVars == <<landed, refused, acked>>

Init == landed = {} /\ refused = {} /\ acked = 0

Land ==
  /\ landed \subseteq landed'
  /\ UNCHANGED <<refused, acked>>

Refuse ==
  /\ refused \subseteq refused'
  /\ UNCHANGED <<landed, acked>>

Ack ==
  /\ acked' \in Nat /\ acked' >= acked
  /\ 1..acked' \subseteq landed \cup refused
  /\ UNCHANGED <<landed, refused>>

Next == Land \/ Refuse \/ Ack

Spec == Init /\ [][Next]_storeVars
=============================================================================
