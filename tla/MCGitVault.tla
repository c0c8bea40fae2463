----------------------------- MODULE MCGitVault -----------------------------
(* Bounds for GitVault: two files, no directory.                            *)
EXTENDS GitVault

CONSTANTS a, b, d, v, absent, unborn, nil

MCFile == {a, b}
MCBelow == [f \in MCFile |-> {f}]

\* A third path: the directory that holds b.
MCPathWithDir == {a, b, d}
MCBelowWithDir == [p \in MCPathWithDir |-> IF p = d THEN {b} ELSE {p}]

=============================================================================
