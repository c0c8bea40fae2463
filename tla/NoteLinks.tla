----------------------------- MODULE NoteLinks -----------------------------
(***************************************************************************)
(* The wikilinks of a note: how its text is scanned for them               *)
(* (contextos-obsidian, markdown.rs), which of them links_read reports as  *)
(* unresolved (contextos-mcp, tools/obsidian.rs) and which of them the     *)
(* graph points at a phantom (contextos-search, graph/mod.rs).             *)
(*                                                                         *)
(* A note is its lines: fences, and sequences of marks and words.  A word  *)
(* is a path, and a path the sequence of its names, each split at its dots. *)
(***************************************************************************)
EXTENDS Integers, Sequences, FiniteSets, SequencesExt

CONSTANT Lower \* the parts of names without case

Mark(m) == [is |-> m]
Tick(n) == [is |-> "tick", n |-> n]
Word(path) == [is |-> "word", path |-> path]
Fence == [fence |-> TRUE, tokens |-> << >>]
Line(tokens) == [fence |-> FALSE, tokens |-> tokens]

-----------------------------------------------------------------------------
(* The scan.                                                                *)

Before(mark, tokens) ==
    LET i == SelectInSeq(tokens, LAMBDA t : t.is = mark) IN IF i = 0 THEN tokens ELSE SubSeq(tokens, 1, i - 1)

\* ObsidianLink::try_from: the target ends at the first "#" or "|"; without one
\* there must be something of a heading or of a block.
TargetOf(content) ==
    LET name == Before("#", Before("|", content))
    IN  CASE name = << >> -> << >>
          [] Len(name) = 1 /\ name[1].is = "word" -> name[1].path
          [] OTHER -> << <<"not a name">> >>

Anchored(content) ==
    LET to == Before("|", content) IN \E i \in DOMAIN to : i > Len(Before("#", to)) + 1 /\ to[i].is # "^"

\* Mutant: any run of ticks closes a code span.
MutCloses(opening, run) == TRUE
Closes(opening, run) == opening = run

Ticked(s, n) == [s EXCEPT !.ticks = CASE @ = 0 -> n [] @ # 0 /\ Closes(@, n) -> 0 [] OTHER -> @]
Opened(s, embed) == [s EXCEPT !.link = <<[embed |-> embed, content |-> << >>]>>]

\* A backslash takes one character: of "![[" the "!", of a run of ticks one.
Escaped(s, t) ==
    LET rest == [s EXCEPT !.escaped = FALSE]
    IN  CASE t.is = "![[" -> Opened(rest, FALSE)
          [] t.is = "tick" /\ t.n > 1 -> Ticked(rest, t.n - 1)
          [] OTHER -> rest

InLink(s, t) ==
    LET link == s.link[1]
    IN  CASE t.is # "]]" -> [s EXCEPT !.link[1].content = Append(@, t)]
          [] t.is = "]]" /\ TargetOf(link.content) = << >> /\ ~Anchored(link.content) -> [s EXCEPT !.ok = FALSE]
          [] OTHER -> [s EXCEPT !.link = << >>, !.out = Append(@, [target |-> TargetOf(link.content), embed |-> link.embed])]

\* scan_line.  Ticks count in a comment too, and hide the end of it.
Token(s, t) ==
    CASE ~s.ok -> s
      [] s.ok /\ s.link # << >> -> InLink(s, t)
      [] s.ok /\ s.link = << >> /\ s.escaped -> Escaped(s, t)
      [] s.ok /\ s.link = << >> /\ ~s.escaped ->
            CASE t.is = "tick" -> Ticked(s, t.n)
              [] t.is = "%%" /\ s.ticks = 0 -> [s EXCEPT !.comment = ~@]
              [] t.is = "\\" /\ s.ticks = 0 /\ ~s.comment -> [s EXCEPT !.escaped = TRUE]
              [] t.is \in {"[[", "![["} /\ s.ticks = 0 /\ ~s.comment -> Opened(s, t.is = "![[")
              [] OTHER -> s

\* LinkCollection::try_from: a link left open at the end of its line is an error,
\* and after an error there are no links at all.  A comment runs on over lines.
Scanned(s, line) ==
    CASE line.fence -> [s EXCEPT !.fenced = ~@]
      [] ~line.fence /\ s.fenced -> s
      [] OTHER -> LET end == FoldLeft(Token, [s EXCEPT !.ticks = 0, !.escaped = FALSE, !.link = << >>], line.tokens)
                  IN  [end EXCEPT !.ok = @ /\ end.link = << >>, !.ticks = 0, !.escaped = FALSE, !.link = << >>]

Unscanned == [ok |-> TRUE, fenced |-> FALSE, comment |-> FALSE, ticks |-> 0, escaped |-> FALSE,
              link |-> << >>, out |-> << >>]
Scan(note) == FoldLeft(Scanned, Unscanned, note)

\* A note that cannot be scanned is an error for links_read, and without links for a rebuild.
LinksOf(scan) == IF scan.ok THEN scan.out ELSE << >>
Links(note) == LinksOf(Scan(note))

-----------------------------------------------------------------------------
(* The two resolutions, in a vault of files.                                *)

HasExtension(path) == Len(Last(path)) > 1
WithMd(path) == Append(Front(path), Append(Last(path), "md"))
LowerPath(path) == [i \in DOMAIN path |-> [j \in DOMAIN path[i] |-> Lower[path[i][j]]]]

\* links_read: the target with .md unless it has an extension, whatever its case;
\* without a slash in any directory.
Finds(files, target) ==
    LET candidate == LowerPath(IF HasExtension(target) THEN target ELSE WithMd(target))
    IN  /\ target # << >> /\ <<"..">> \notin ToSet(target)
        /\ \E f \in files : LowerPath(f) = candidate \/ (Len(target) = 1 /\ LowerPath(f) = LowerPath(Front(f)) \o candidate)

Unresolved(files, note) == {l.target : l \in {l \in ToSet(Links(note)) : l.target = << >> \/ ~Finds(files, l.target)}}

Notes(files) == {f \in files : HasExtension(f) /\ Last(Last(f)) = "md"}

\* resolve_target: the node of the name, then of the name with .md, a phantom or
\* not, then a note of that stem; otherwise a phantom.  wire_links passes over an
\* empty target.
ResolveTarget(notes, phantoms, target) ==
    CASE target \in notes \cup phantoms -> target
      [] target \notin notes \cup phantoms /\ WithMd(target) \in notes \cup phantoms -> WithMd(target)
      [] OTHER -> LET named == {n \in notes : Len(target) = 1 /\ <<Front(Last(n))>> = target}
                  IN  IF named = {} THEN target ELSE CHOOSE n \in named : TRUE

WireLinks(files, note) ==
    LET notes == Notes(files)
        wire(s, l) == LET to == ResolveTarget(notes, s.phantoms, l.target)
                      IN  [phantoms |-> s.phantoms \cup ({to} \ notes), edges |-> s.edges \cup {<<l.target, to>>}]
    IN  FoldLeft(wire, [phantoms |-> {}, edges |-> {}], SelectSeq(Links(note), LAMBDA l : l.target # << >>))

-----------------------------------------------------------------------------

\* Where the two ways to resolve are meant to agree: a name without dots, whose
\* files are written in its case.
Plain(files, target) ==
    /\ target # << >> /\ \A i \in DOMAIN target : Len(target[i]) = 1
    /\ \A f \in Notes(files) : LowerPath(<<Front(Last(f))>>) = LowerPath(<<Last(target)>>) =>
           Front(Last(f)) = Last(target) /\ (Len(f) = Len(target) /\ LowerPath(Front(f)) = LowerPath(Front(target))
                                                => Front(f) = Front(target))

\* Of a link to a plain name, links_read says that it is unresolved exactly when its
\* edge in the graph leads to a phantom, unless an earlier link with the extension
\* has made a phantom of the same name (tools/obsidian.rs, read_links; graph/mod.rs,
\* resolve_target).
LinksAgree(files, note) ==
    LET wired == WireLinks(files, note)
    IN  \A edge \in wired.edges : Plain(files, edge[1]) /\ WithMd(edge[1]) \notin wired.phantoms =>
            (edge[1] \in Unresolved(files, note) <=> edge[2] \in wired.phantoms)

TicksClosed(tokens) == FoldLeft(Token, [Unscanned EXCEPT !.comment = TRUE], tokens).ticks = 0

Quotings(tokens) ==
    {<<Fence, Line(tokens), Fence>>, <<Line(<<Tick(4)>> \o tokens \o <<Tick(4)>>)>>}
    \cup IF Mark("%%") \in ToSet(tokens) \/ ~TicksClosed(tokens) THEN {}
         ELSE {<<Line(<<Mark("%%")>> \o tokens \o <<Mark("%%")>>)>>}

\* Whatever stands in a fence, in a comment or in a code span of longer ticks changes
\* no link of the note around it, and cannot make it unreadable.  A comment in which
\* a run of ticks stays open does not end, as the code has it.
QuotedIsSilent(before, tokens, after) ==
    ~Scan(<<before>>).comment /\ ~before.fence =>
        \A lines \in Quotings(tokens) : Scan(<<before>> \o lines \o <<after>>) = Scan(<<before, after>>)

=============================================================================
