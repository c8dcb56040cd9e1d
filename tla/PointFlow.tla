------------------------------ MODULE PointFlow ------------------------------
(***************************************************************************)
(* What the node promises about its LiDAR points, without saying how: every *)
(* message brings new points, a point in hand is kept, lost or mapped, and  *)
(* a point that was lost or mapped never comes back.  No point is mapped    *)
(* twice and none is made up.                                              *)
(*                                                                         *)
(* A point is a record with a field "scan", the number of its message.      *)
(* MappingNodeFlow shows that MappingNode implements this.                  *)
(***************************************************************************)
EXTENDS Naturals

CONSTANT AllPoints   \* every point that could ever be measured

VARIABLES
  scans,      \* messages received
  in_hand,    \* points received and neither lost nor mapped
  mapped      \* points handed to the map

flow_vars == <<scans, in_hand, mapped>>

FlowInit ==
  /\ scans = 0
  /\ in_hand = {}
  /\ mapped = {}

\* A message arrives; its points are new, and may push out old ones.
Receive ==
  /\ scans' = scans + 1
  /\ in_hand' \in
       SUBSET (in_hand \cup {p \in AllPoints : p.scan = scans + 1})
  /\ UNCHANGED mapped

Lose ==
  /\ in_hand' \in SUBSET in_hand
  /\ UNCHANGED <<scans, mapped>>

\* Some of the points in hand are mapped and are in hand no more.
Map ==
  /\ in_hand' \in SUBSET in_hand
  /\ mapped' \in SUBSET (mapped \cup (in_hand \ in_hand'))
  /\ mapped \subseteq mapped'
  /\ UNCHANGED scans

FlowNext == Receive \/ Lose \/ Map

FlowSpec == FlowInit /\ [][FlowNext]_flow_vars
=============================================================================
