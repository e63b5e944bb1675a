--------------------------- MODULE MCHostActions ---------------------------
(* Small instances of HostActions for TLC. *)
EXTENDS HostActions, TLC

CONSTANTS r1, r2, r3, c1, c2, s1, s2

\* Two commands and a write.
MCKindOf == [r \in Requests |-> IF r = r3 THEN "write_file" ELSE "run_command"]

Symmetry == Permutations(Keys)
=============================================================================
