--------------------------- MODULE MCAssetSystem ---------------------------
(* Small instances of AssetSystem for TLC. *)
EXTENDS AssetSystem

=============================================================================
