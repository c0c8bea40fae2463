----------------------------- MODULE FreshIndex -----------------------------
(***************************************************************************)
(* What semantic indexing promises, without queues, passes or processes:   *)
(* a note that changes waits; while it waits its rows may be anything; it  *)
(* stops waiting with the rows of the content it has then, or by being     *)
(* lost, with any rows, which the next change or request of the note       *)
(* repairs.  A note whose directory changes does not wait for it.          *)
(***************************************************************************)
CONSTANTS Note,     \* notes in scope
          Value,    \* contents of a note, and its absence
          Absent,   \* the vault has no such note
          Row,      \* what the index can hold of a note
          Indexed   \* Indexed[c]: what an index of content c holds

VARIABLES vault,    \* content of each note
          rows,     \* what the index holds of it
          waiting,  \* notes somebody is going to index
          lost      \* notes nobody is going to index, whatever their rows

vars == <<vault, rows, waiting, lost>>

Init ==
    /\ vault = [n \in Note |-> Absent]
    /\ rows = [n \in Note |-> Indexed[Absent]]
    /\ waiting = {} /\ lost = {}

\* Notes change, and wait from then on.
Change ==
    \E ns \in SUBSET Note :
        /\ vault' \in [Note -> Value] /\ \A n \in Note \ ns : vault'[n] = vault[n]
        /\ waiting' = waiting \cup ns /\ lost' = lost \ ns
        /\ UNCHANGED rows

\* Notes change with their directory: those that do not wait already are lost.
Unnoticed ==
    \E ns \in SUBSET Note :
        /\ vault' \in [Note -> Value] /\ \A n \in Note \ ns : vault'[n] = vault[n]
        /\ lost' = lost \cup (ns \ waiting)
        /\ UNCHANGED <<rows, waiting>>

\* Somebody asks for a note to be indexed.
Request(n) ==
    /\ waiting' = waiting \cup {n} /\ lost' = lost \ {n}
    /\ UNCHANGED <<vault, rows>>

Work(n) ==
    /\ n \in waiting
    /\ \E r \in Row : rows' = [rows EXCEPT ![n] = r]
    /\ UNCHANGED <<vault, waiting, lost>>

Finish(n) ==
    /\ n \in waiting /\ waiting' = waiting \ {n}
    /\ rows' = [rows EXCEPT ![n] = Indexed[vault[n]]]
    /\ UNCHANGED <<vault, lost>>

Lose(ns) ==
    /\ ns \subseteq waiting /\ waiting' = waiting \ ns
    /\ lost' = lost \cup ns
    /\ rows' \in [Note -> Row] /\ \A n \in Note \ ns : rows'[n] = rows[n]
    /\ UNCHANGED vault

Next ==
    \/ Change \/ Unnoticed
    \/ \E n \in Note : Request(n) \/ Work(n) \/ Finish(n)
    \/ \E ns \in SUBSET Note : Lose(ns)

\* A waiting note's turn comes.
Settle(n) == Finish(n) \/ \E ns \in SUBSET Note : n \in ns /\ Lose(ns)

Fairness == \A n \in Note : WF_vars(Settle(n))

SafeSpec == Init /\ [][Next]_vars
Spec == SafeSpec /\ Fairness

=============================================================================
