----------------------------- MODULE MCLinkGraph ----------------------------
(* Bounds for LinkGraph: two notes of one name in two directories, d/s.md   *)
(* and e/s.md.  A link names them by the bare name s, or the second as e/s, *)
(* and either may become a phantom of its own.                              *)
EXTENDS LinkGraph, TLC

CONSTANTS p, q, x, y, bare, path, absent, nil

MCTarget == {bare, path}
\* The path is looked up as written and with .md, the bare name among the notes.
MCTried == [t \in MCTarget |-> IF t = path THEN <<path, y>> ELSE <<bare>>]
MCNamed == [t \in MCTarget |-> IF t = path THEN << >> ELSE <<x, y>>]
\* The directory d may become e.
MCMoves == {[n \in {x} |-> y]}
\* After a failed operation or torn reads the properties say nothing more.  Rebuilds scan
\* the vault one at a time, and a stop and a change of a directory are not combined.
Sound == Whole /\ (\E r \in Proc : scan[r] = Nil) /\ (unheard = {} \/ crashes = 0)

Interchangeable == Permutations(Proc)

MCLinkLists == {<<bare>>, <<path, bare>>}

=============================================================================
