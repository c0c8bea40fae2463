-------------------------- MODULE MCManagedIndex --------------------------
(***************************************************************************)
(* ManagedIndex and Doctor over vaults of a few directories, one of them    *)
(* excluded and one with a dot, with notes, an index the operator edited    *)
(* and a legacy index.                                                      *)
(***************************************************************************)
EXTENDS Integers, Sequences, FiniteSets, TLC

AllNames == <<".h", "_index.md", "a", "b", "index.md", "n.md", "w](v.md", "x">>
Range1(s) == {s[i] : i \in DOMAIN s}

INSTANCE Doctor WITH
    Excluded <- {<<"x">>, <<"a", "x">>}, Dotted <- {".h"}, Markdown <- {"n.md", "w](v.md", "index.md", "_index.md"},
    ReadBack <- [n \in Range1(AllNames) |-> IF n = "w](v.md" THEN "v.md" ELSE n], InOrder <- AllNames

NoteFile(title, sentence) == File([title |-> title, sentence |-> sentence, broken |-> FALSE])
Broken == File([title |-> << >>, sentence |-> << >>, broken |-> TRUE])
Index(head, table) == [head |-> head, table |-> table, tail |-> "t", broken |-> FALSE]
HandRow(name) == [name |-> name, summary |-> <<"hand">>]

\* The vaults are settled by a rebuild of these.
Places == {<<"a">>, <<"a", "b">>, <<"a", "n.md">>, <<"n.md">>, <<"a", "b", "n.md">>, <<"x">>,
           <<"index.md">>, <<"a", "index.md">>, <<"a", "_index.md">>, <<"a", "w](v.md">>}
NodeAt(p) == CASE Last(p) \in {"a", "b", "x", ".h"} -> Directory
               [] Last(p) \in {"index.md", "_index.md"} -> File(Index("h", <<<<HandRow("a"), HandRow("n.md"), HandRow("w](v.md")>>>>))
               [] OTHER -> NoteFile(<<"T">>, <<"S">>)
Trees == {s \in SUBSET Places : \A p \in s : Len(p) > 1 => Front(p) \in s}
Settleds == {v \in {Rebuild([p \in s \cup {<< >>} |-> IF p = << >> THEN Directory ELSE NodeAt(p)]) : s \in Trees} : v.ok}
Vaults == {v.vault : v \in Settleds}

Targets == {<<"a">>, <<"a", "b">>, <<"a", "b", "n.md">>, <<"n.md">>, <<"b">>, <<"b", "b">>, <<"b", "b", "b">>, <<"b", "b", "n.md">>,
            <<"x", "n.md">>, <<"x", "b">>, <<"a", "x">>, <<".h", "n.md">>, <<".h", "b">>, <<"a", "w](v.md">>}
Texts == {NoteFile(<<"U">>, << >>).text, NoteFile(<< >>, << >>).text, Broken.text}
IndexTexts == {Index("g", << >>), [Index("g", << >>) EXCEPT !.broken = TRUE], Index("g", <<<<HandRow("n.md"), HandRow("b")>>>>)}
Changes ==
    {[do |-> "write", path |-> p, text |-> t] : p \in {q \in Targets : Last(q) \in {"n.md", "w](v.md"}}, t \in Texts}
    \cup {[do |-> "write", path |-> p, text |-> t] : p \in {<<"index.md">>, <<"a", "index.md">>, <<"a", "_index.md">>}, t \in IndexTexts}
    \cup {[do |-> "mkdir", path |-> p] : p \in {q \in Targets : Last(q) \notin {"n.md", "w](v.md"}}}
    \cup {[do |-> "delete", path |-> p] : p \in Targets \cup {<<"index.md">>, <<"a", "index.md">>}}
    \cup {[do |-> "move", path |-> p, to |-> q] : p, q \in Targets}

-----------------------------------------------------------------------------
(* Vaults that were never settled, for the doctor: one in every state, next  *)
(* to one that needs both repairs or none.                                   *)

Fronted(front) == File([title |-> <<"T">>, sentence |-> <<"S">>, broken |-> ~Parses(front), front |-> front])
Fronts == {<<"w">>, <<"{{", "w", "}}">>, <<"{{", "bad", "}}", "w">>, <<"{{", "w", "}}", "bad">>, <<"{{", "w">>,
           <<"{{", "{{", "}}", "}}">>}
Sick == {s \cup {<< >>} : s \in SUBSET {<<"a">>, <<"n.md">>, <<"_index.md">>, <<"index.md">>}} \cup {{<< >>, <<"a">>, <<"a", "_index.md">>, <<"index.md">>}}
SickTrees(front) == {[p \in s |-> CASE p = << >> -> Directory [] p = <<"n.md">> -> Fronted(front) [] OTHER -> NodeAt(p)] : s \in Sick}
Patient(tree, managed, indexed, git, repo, ignore) ==
    [tree |-> tree, managed |-> managed, indexed |-> indexed, git |-> git, repo |-> repo, ignore |-> ignore,
     semantic |-> IF git = "on" THEN "failing" ELSE "off"]
Repos == {<<"none", "none">>, <<"none", "no text">>, <<"wrecked", "partial">>, <<"unborn", "whole">>, <<"whole", "whole">>}
Patients ==
    {Patient(t, TRUE, x, "on", r[1], r[2]) : t \in SickTrees(<<"w">>), x \in BOOLEAN, r \in Repos}
    \cup {Patient(t, m, TRUE, "off", "none", "none") : t \in UNION {SickTrees(f) : f \in Fronts}, m \in BOOLEAN}
Others == {Patient(<< >> :> Directory, TRUE, TRUE, g, "none", "none") : g \in {"on", "off"}}
Scopes == {{}, {1}, {2}}
Consultations == {<<v, o>> : v \in Patients, o \in Others}

=============================================================================
