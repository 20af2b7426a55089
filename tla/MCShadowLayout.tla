--------------------------- MODULE MCShadowLayout ---------------------------
(***************************************************************************)
(* An instance of ShadowLayout: distances around every limit of the three  *)
(* builders, and addresses around a multiple of Align, so that the area    *)
(* crosses it, begins at it and ends behind it.                            *)
(***************************************************************************)
EXTENDS ShadowLayout

MCDistances ==
  (-128 .. -103) \cup (-32 .. 16) \cup (112 .. 131) \cup {241, 242, 243}
    \cup {20013, 20014, -20019, -20020, -40029, -40030}
MCSources == {65536 + k : k \in {-110, -60, -5, 0, 1, 3, 12, 17, 25, 29, 38, 127, 129, 300}}
MCMems == {131072 + 256 * k : k \in {0, 1, 2, 255}}
=============================================================================
