------------------------- MODULE MC_TradeProcessor -------------------------
(* Instantiation of TradeProcessor for TLC.                                *)
EXTENDS TradeProcessor, TLC

CONSTANTS m1, m2

MC_Mints == {m1, m2}
\* Mints are interchangeable: no action or property names one.
MC_Symmetry == Permutations(MC_Mints)

=============================================================================
