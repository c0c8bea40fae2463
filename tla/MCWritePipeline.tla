-------------------------- MODULE MCWritePipeline --------------------------
(* Bounds for WritePipeline: two vaults, two calls.                         *)
EXTENDS WritePipeline, TLC

CONSTANTS c1, c2, nil

MCCaller == {c1, c2}

\* A mutation changes what its folder and the top show, or neither.
MCChanges == {{}, Dir}

\* Calls are alike.
Interchangeable == Permutations(MCCaller)

=============================================================================
