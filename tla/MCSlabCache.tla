----------------------------- MODULE MCSlabCache -----------------------------
(* Small instances of SlabLinks for TLC. *)
EXTENDS SlabLinks

CONSTANTS small, large

TwoCaches == {small, large}

\* Two slots in a slab of one block, and one in a slab of three.
Sizes == small :> 1 @@ large :> 3
Slots == small :> 2 @@ large :> 1
=============================================================================
