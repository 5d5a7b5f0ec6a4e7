------------------------ MODULE MCSidebarVisibility ------------------------
(* Instances of SidebarVisibility for TLC.                                  *)
EXTENDS SidebarVisibility, TLC

(* Windows are interchangeable: nothing in the code orders them.            *)
WindowSymmetry == Permutations(Windows)
=============================================================================
