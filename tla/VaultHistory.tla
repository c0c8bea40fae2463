---------------------------- MODULE VaultHistory ----------------------------
(***************************************************************************)
(* What the local Git history promises, without timers, markers, phases or *)
(* crashes: a file the server has staged waits until one commit takes the  *)
(* staged content of the whole batch, which has everything that waits, on  *)
(* top of whatever HEAD is at that moment.  Nothing that waits is          *)
(* forgotten, and the operator's own commits are never taken back.         *)
(***************************************************************************)
EXTENDS Naturals

CONSTANTS File,      \* files a commit can hold
          Content,   \* contents of a file
          Absent,    \* a tree has no such file
          Unborn     \* there is no commit yet

Tree == [File -> Content \cup {Absent}]

VARIABLES head,      \* tree of the last commit
          staged,    \* what a commit takes of each file
          batch,     \* files the next commit is about
          waiting,   \* files the server has staged and nobody has committed
          turns      \* things the operator did

vars == <<head, staged, batch, waiting, turns>>

Init ==
    /\ head \in {[f \in File |-> Absent], Unborn}
    /\ staged = [f \in File |-> Absent]
    /\ batch = {} /\ waiting = {} /\ turns = 0

\* An event enters the batch, and its files wait.
Stage ==
    /\ batch \subseteq batch' /\ waiting \subseteq waiting'
    /\ UNCHANGED <<head, turns>>

\* The batch is in memory; what waits outlives it.
Restart == batch' \subseteq batch /\ UNCHANGED <<head, waiting, turns>>

\* One commit for the batch, and nothing is left waiting.
Commit ==
    /\ head # Unborn /\ waiting \subseteq batch
    /\ head' = [f \in File |-> IF f \in batch THEN staged[f] ELSE head[f]]
    /\ waiting' = {} /\ batch' = {}
    /\ UNCHANGED turns

\* The first commit takes the whole working tree.
Initialise ==
    /\ head = Unborn /\ head' \in Tree
    /\ waiting' = {} /\ batch' \subseteq batch
    /\ UNCHANGED turns

\* A recovery: what HEAD does not have as it is staged is the batch again.
Recover ==
    /\ head # Unborn
    /\ waiting' = {f \in waiting : staged[f] # head[f]}
    /\ waiting' \subseteq batch'
    /\ UNCHANGED <<head, turns>>

OperatorActs ==
    /\ turns' = turns + 1 /\ head' \in Tree \cup {head}
    /\ UNCHANGED <<batch, waiting>>

\* The staging area is shared with git's command line, so that any step may
\* find it changed; what counts is what it holds when a commit reads it.
Next ==
    /\ staged' \in Tree
    /\ Stage \/ Restart \/ Commit \/ Initialise \/ Recover \/ OperatorActs

Spec == Init /\ [][Next]_vars

=============================================================================
