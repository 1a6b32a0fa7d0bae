-------------------------- MODULE MCEventDecoding --------------------------
(***************************************************************************)
(* A small instance of EventDecoding: a known program, another that uses   *)
(* the same discriminator for another body, as CLMM and CPMM do, and one   *)
(* that parse_logs does not know.                                          *)
(***************************************************************************)
EXTENDS EventDecoding

CONSTANTS clmm, cpmm, other

MCPrograms == {clmm, cpmm, other}

MCReading ==
  clmm :> ("clmm_swap" :> "event" @@ "cpmm_swap" :> "garbled" @@ "short" :> "short") @@
  cpmm :> ("clmm_swap" :> "garbled" @@ "cpmm_swap" :> "event" @@ "short" :> "short")
=============================================================================
