---------------------------- MODULE MCNoteLinks ----------------------------
(***************************************************************************)
(* NoteLinks over short lines of all marks, and over notes of up to three  *)
(* links in vaults of notes in two directories, with an attachment and     *)
(* names that differ in case.                                              *)
(***************************************************************************)
EXTENDS Integers, Sequences, FiniteSets

SmallParts == [p \in {"n", "N", "m", "d", "md", "png", "..", "not a name", "1"} |-> IF p = "N" THEN "n" ELSE p]

INSTANCE NoteLinks WITH Lower <- SmallParts

Name(p) == <<p>>
Marks == {Tick(1), Tick(2), Mark("%%"), Mark("\\"), Mark("[["), Mark("![["), Mark("]]"), Mark("|"), Mark("#"), Word(<<Name("n")>>)}

\* Runs of ticks that touch are one run, and brackets that touch another word.
Apart(tokens) == \A i \in 1..Len(tokens) - 1 : ~(tokens[i].is \in {"tick", "[[", "![["} /\ tokens[i + 1].is = tokens[i].is)
Lines == {l \in UNION {[1..n -> Marks] : n \in 0..4} : Apart(l) /\ (l # << >> => l[1].is # "tick" /\ l[Len(l)].is # "tick")}
Link(content) == <<Mark("[[")>> \o content \o <<Mark("]]")>>
Around == {Link(<<Word(<<Name("n")>>)>>), <<Mark("%%")>>, <<Mark("[[")>>}
Contexts == {<<Line(b), Line(a)>> : b, a \in Around} \ {<<Line(<<Mark(b)>>), Line(<<Mark(a)>>)>> : b, a \in {"%%", "[["}}

Targets == {<< >>, <<Name("n")>>, <<Name("N")>>, <<Name("m")>>, <<Name("d"), Name("n")>>, <<Name("d"), Name("m")>>,
            <<Name(".."), Name("n")>>, <<<<"n", "md">>>>, <<<<"m", "md">>>>, <<<<"n", "png">>>>, <<<<"n", "1">>>>}
TheFiles == {<<<<"n", "md">>>>, <<<<"N", "md">>>>, <<Name("d"), <<"n", "md">>>>, <<Name("d"), <<"m", "md">>>>,
             <<<<"n", "png">>>>, <<<<"n", "1", "md">>>>}
To(target) == Link(IF target = << >> THEN <<Mark("#"), Word(<<Name("m")>>)>> ELSE <<Word(target), Mark("|"), Word(<<Name("d")>>)>>)
LinkNotes == {[i \in DOMAIN ts |-> Line(To(ts[i]))] : ts \in UNION {[1..n -> Targets] : n \in 0..2}}

=============================================================================
