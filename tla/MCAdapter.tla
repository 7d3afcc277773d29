------------------------------ MODULE MCAdapter ------------------------------
(***************************************************************************)
(* Values of Adapter's constants for TLC.                                  *)
(***************************************************************************)
EXTENDS Adapter, Workflows

=============================================================================
