---------------------------- MODULE MCMappingNode ----------------------------
(* Values for the constants of MappingNode that a .cfg cannot write. *)
EXTENDS MappingNodeFlow

Return(rel, bin) == [rel |-> rel, bin |-> bin]

\* A message without a return in range, a scan that has a return in every bin,
\* one more than MaxProcPoints lets through, and one that begins before its
\* stamp
Shapes ==
  {{}, {Return(0, 1), Return(2, 2), Return(1, 3)},
   {Return(-1, 1), Return(0, 2)}}

\* The same with a bin of two returns, of which downsampling may leave one or
\* both: the cap may then leave out the whole bin.
ThinnedShapes ==
  {{}, {Return(0, 1), Return(2, 2), Return(1, 3)},
   {Return(-1, 1), Return(0, 2), Return(1, 2)}}
=============================================================================
