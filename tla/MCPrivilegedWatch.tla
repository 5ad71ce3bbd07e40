------------------------- MODULE MCPrivilegedWatch -------------------------
(* Small instances of PrivilegedWatch for TLC. *)
EXTENDS PrivilegedWatch, TLC

=============================================================================
