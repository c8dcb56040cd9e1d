--------------------------- MODULE MappingNodeFlow ---------------------------
(***************************************************************************)
(* The refinement of PointFlow by MappingNode.                             *)
(***************************************************************************)
EXTENDS MappingNode

\* The points the node still holds: in LidarProcess's bins, waiting to be
\* synced, left over from the last sync, and in the scan being worked on.
InHand ==
  (UNION {bin_pcs[b] : b \in Bins}) \cup raw_cloud \cup buffer_cloud
    \cup (IF loop_pc \in {"undistort", "update", "map"} THEN scan_cloud ELSE {})

Flow == INSTANCE PointFlow WITH
          AllPoints <- Point, scans <- scans_received, in_hand <- InHand,
          mapped <- mapped

\* A LiDAR point is mapped at most once and only if it was measured: no
\* interleaving of the callback with the loop's taking, merging, splitting and
\* clearing of clouds duplicates one or brings back one that was dropped
\* (lidar_processing.cpp:205-233, map_processing.cpp:1283-1371).
RefinesPointFlow == Flow!FlowSpec
=============================================================================
