------------------------ MODULE MCVolumeAttachments ------------------------
(* Instances of VolumeAttachments for TLC.                                 *)
EXTENDS VolumeAttachments, TLC

Symmetry == Permutations(Server) \cup Permutations(Volume)
============================================================================
