---------------------------- MODULE MCConsoles -----------------------------
(* Two consoles, both tools, with and without a prompt kick. *)
EXTENDS Consoles
=============================================================================
