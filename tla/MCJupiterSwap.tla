--------------------------- MODULE MCJupiterSwap ---------------------------
(***************************************************************************)
(* Small instances of JupiterSwap.  Word is small enough for products of   *)
(* the amounts below to wrap.                                              *)
(***************************************************************************)
EXTENDS JupiterSwap

Collector(bps) == [bps |-> bps, address |-> "valid"]

\* No collectors; one; rates that do not divide the fees evenly; rates below
\* the whole; rates above it; an address that does not parse.
MCConfigs == {
  <<>>,
  <<Collector(10000)>>,
  <<Collector(3333), Collector(3334), Collector(3333)>>,
  <<Collector(100), Collector(7000)>>,
  <<Collector(9000), Collector(6000), Collector(1)>>,
  <<Collector(5000), [Collector(5000) EXCEPT !.address = "invalid"]>>}

Amounts == {NotANumber, 0, 1, 99, 100, 777, 3500, 9999, 99999}

SwapOf(m, n) == {[typed |-> TRUE, input_mint |-> m, output_mint |-> n,
                  in_amount |-> a, out_amount |-> b] : a, b \in Amounts}

MCQuotes == SwapOf(Wsol, "token") \cup SwapOf("token", Wsol)
  \cup {[q EXCEPT !.typed = b] : q \in SwapOf("token", "other"), b \in BOOLEAN}
=============================================================================
