--------------------------- MODULE MCSignedWrites ---------------------------
(***************************************************************************)
(* Three writes that say the same: a receipt published again and again.    *)
(* Nothing but the nonce tells them apart.                                 *)
(***************************************************************************)
EXTENDS SignedWrites, TLC

CONSTANTS copy, again, twice, receipt

MCWrite == {copy, again, twice}
MCTextOf == [w \in MCWrite |-> receipt]

MCSymmetry == Permutations(MCWrite)
=============================================================================
