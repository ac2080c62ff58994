--------------------------- MODULE MCSystemFiles ---------------------------
(* Two containers, two drivers, two wrappers and one update.                *)
EXTENDS SystemFiles, TLC

CONSTANTS c1, c2, turnip, virgl, wined3d, dxvk

MCSymmetry == Permutations({c1, c2}) \cup Permutations({turnip, virgl})
                \cup Permutations({wined3d, dxvk})

=============================================================================
