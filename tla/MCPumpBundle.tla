---------------------------- MODULE MCPumpBundle ----------------------------
(***************************************************************************)
(* Small instances of PumpBundle: every list of up to six accounts of two  *)
(* owners, so that one may appear more than once, and so that bundles of   *)
(* a size below, at and above the limit of five occur.                     *)
(***************************************************************************)
EXTENDS PumpBundle, SequencesExt

MCAccountLists == BoundedSeq({"anna", "ben"}, 6)
=============================================================================
