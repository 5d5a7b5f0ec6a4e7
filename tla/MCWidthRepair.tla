--------------------------- MODULE MCWidthRepair ---------------------------
(* The widths of the run are interchangeable: it starts with one of them.   *)
EXTENDS WidthRepair

MCInit == WidthInit /\ configured = AnyWidth
MCFairSpec == MCInit /\ [][WidthNext]_widthVars /\ WidthFairness
=============================================================================
