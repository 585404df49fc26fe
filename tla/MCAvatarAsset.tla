--------------------------- MODULE MCAvatarAsset ---------------------------
(* Instances of AvatarAsset for TLC. *)
EXTENDS AvatarAsset, TLC

Symmetry == Permutations(Workers) \cup Permutations(Assets)
=============================================================================
