--------------------------- MODULE MCStateVersions ---------------------------
(* The instances of StateVersions for TLC. *)
EXTENDS StateVersions, MCBlockTree

\* The branch beside the first block.
MCBlamed == {{2}}

=============================================================================
