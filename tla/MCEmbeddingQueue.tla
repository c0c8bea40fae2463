-------------------------- MODULE MCEmbeddingQueue --------------------------
(* Bounds for EmbeddingQueue: two notes whose contents grow, shrink and     *)
(* change a chunk; the directory of the one may become that of the other.   *)
EXTENDS EmbeddingQueue

CONSTANTS x, y, bg, tool, g, h, absent, nil

MCContent == {<<g>>, <<g, h>>, <<h>>}

MCMoves == {[n \in {x} |-> y]}

=============================================================================
