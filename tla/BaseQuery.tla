----------------------------- MODULE BaseQuery -----------------------------
(***************************************************************************)
(* base_query: the rows of a vault that match the filters of an Obsidian   *)
(* base (contextos-obsidian, base_query.rs; contextos-mcp,                 *)
(* tools/base_query.rs).  Before it scans the vault it looks for a filter  *)
(* that confines every match to one directory, and scans only that.        *)
(*                                                                         *)
(* A filter expression is a sequence of tokens: the operators, the         *)
(* parentheses, and leaves.  A path is what its string has between slashes:*)
(* "a/x" is <<"a", "x">>, "./a" <<".", "a">>, "a/" <<"a", "">>, "/v" is    *)
(* <<"", "v">> and the empty string << >>.  A place is a sequence of names, *)
(* from the root of the disk.                                              *)
(***************************************************************************)
EXTENDS Integers, Sequences, FiniteSets, SequencesExt

CONSTANTS Notes,         \* the notes of all vaults, in the order of the walk
          Home,          \* the place of the vault that is queried
          Vaults,        \* the places of all vaults
          Directories,   \* the places of their directories
          Hidden,        \* the directories that search_candidates leaves out
          MaxCandidates  \* MAX_CANDIDATE_FILES

\* A note has the place of its directory, a file name and a state: "ok", "unreadable",
\* "broken" when its front matter does not parse, or "unnamed" when its name has a colon,
\* which no path of a tool may have.  It has the flag and the sortable properties p and q
\* of the front matter; values are explained below.
Missing == [rank |-> 0, n |-> 0]

\* The string of Path::parent: what is before the last name, without the slashes and dots
\* at its end.
FolderOf(path) ==
    LET dir == Front(path)
        named == {i \in DOMAIN dir : i = 1 \/ dir[i] \notin {"", "."}}
    IN  SubSeq(dir, 1, Max({0} \cup named))

Row(path, note) ==
    [path |-> path, folder |-> FolderOf(path), flag |-> note.flag, p |-> note.p, q |-> note.q]

\* load_row: nothing for a note that cannot be read, no properties for one whose
\* front matter is broken.
LoadRow(found) ==
    CASE found.note.state \in {"unreadable", "unnamed"} -> << >>
      [] found.note.state = "broken" ->
            <<[Row(found.path, found.note) EXCEPT !.flag = FALSE, !.p = Missing, !.q = Missing]>>
      [] OTHER -> <<Row(found.path, found.note)>>

\* A leaf: what it compares, and with which path.
Leaf(kind, value) == [kind |-> kind, value |-> value]

\* A hint is the path of a directory, or of a note in it, as the leaf has it.
NoHint == [kind |-> "none", value |-> << >>]
Hint(kind, value) == [kind |-> kind, value |-> value]

-----------------------------------------------------------------------------
(* Leaves (evaluate_leaf, in_folder, resolve_property, leaf_scan_hint).     *)

\* The slashes at the end of the leaf's folder do not count; the empty one has no
\* folders below it, but those that begin with a slash.
Trimmed(dir) == SubSeq(dir, 1, Max({0} \cup {i \in DOMAIN dir : dir[i] # ""}))

InFolder(folder, dir) ==
    LET top == Trimmed(dir)
    IN  folder = top \/ IsPrefix(IF top = << >> THEN <<"">> ELSE top, folder)

Truth(b) == IF b THEN "yes" ELSE "no"

\* Equality with a property, a tag, or contains, is "flag"; "folder_part" is
\* contains on the folder, which any depth may satisfy; what is outside the
\* grammar, and a formula or an unknown file property, is an error.
EvalLeaf(leaf, row) ==
    CASE leaf.kind = "folder"      -> Truth(row.folder = leaf.value)
      [] leaf.kind = "in_folder"   -> Truth(InFolder(row.folder, leaf.value))
      [] leaf.kind = "path"        -> Truth(row.path = leaf.value)
      [] leaf.kind = "folder_not"  -> Truth(row.folder # leaf.value)
      [] leaf.kind = "folder_part" -> Truth(Range(row.folder) \cap Range(leaf.value) # {})
      [] leaf.kind = "flag"        -> Truth(row.flag)
      [] OTHER                     -> "error"

\* Only equality with the folder or the path, and inFolder, anchor a match.
LeafHint(leaf) ==
    CASE leaf.kind \in {"folder", "in_folder"} -> Hint("folder", leaf.value)
      [] leaf.kind = "path" -> Hint("path", leaf.value)
      [] OTHER -> NoHint

-----------------------------------------------------------------------------
(* The grammar.  Evaluation and hint walk it in the same way, so one parser *)
(* returns both: v is the value, h the hint, rest what is not yet read.     *)

And(v, w) == IF "error" \in {v, w} THEN "error" ELSE Truth(v = "yes" /\ w = "yes")
Or(v, w) == IF "error" \in {v, w} THEN "error" ELSE Truth(v = "yes" \/ w = "yes")
Not(v) == CASE v = "yes" -> "no" [] v = "no" -> "yes" [] OTHER -> "error"

\* Mutant: the first operand with a hint narrows an alternative.
MutOrHint(h, g) == IF h # NoHint THEN h ELSE g

\* merge_or_hints: operands must agree.
OrHint(h, g) == IF h = g THEN h ELSE NoHint

\* Any conjunct bounds the conjunction.
AndHint(h, g) == IF h # NoHint THEN h ELSE g

NotHint(h) == NoHint

Parsed(v, h, rest) == [v |-> v, h |-> h, rest |-> rest]

Starts(toks, t) == toks # << >> /\ Head(toks) = t

Op(t) == [kind |-> t]
IsOperator(t) == t \in {Op("&&"), Op("||"), Op(")")}

\* scan_leaf: up to the next operator outside parentheses that the leaf opens.
\* More than one token is no leaf of the grammar.
Depth(toks, i) == Cardinality({j \in 1..i - 1 : toks[j] = Op("(")})
                  - Cardinality({j \in 1..i - 1 : toks[j] = Op(")")})

LeafLength(toks) ==
    LET ends == {i \in DOMAIN toks : IsOperator(toks[i]) /\ Depth(toks, i) = 0}
    IN  IF ends = {} THEN Len(toks) ELSE (CHOOSE i \in ends : \A j \in ends : i <= j) - 1

RECURSIVE ParseOr(_, _), OrRest(_, _), ParseAnd(_, _), AndRest(_, _), ParseNot(_, _)

Closed(p) == IF Starts(p.rest, Op(")")) THEN [p EXCEPT !.rest = Tail(@)] ELSE Parsed("error", NoHint, p.rest)
Negated(p) == Parsed(Not(p.v), NotHint(p.h), p.rest)
Both(p, q) == Parsed(And(p.v, q.v), AndHint(p.h, q.h), q.rest)
Either(p, q) == Parsed(Or(p.v, q.v), OrHint(p.h, q.h), q.rest)

ParseLeaf(toks, n, row) ==
    IF n = 1 /\ toks[1] # Op("!")
    THEN Parsed(EvalLeaf(toks[1], row), LeafHint(toks[1]), Tail(toks))
    ELSE Parsed("error", NoHint, SubSeq(toks, n + 1, Len(toks)))

ParsePrimary(toks, row) ==
    IF Starts(toks, Op("(")) THEN Closed(ParseOr(Tail(toks), row)) ELSE ParseLeaf(toks, LeafLength(toks), row)

ParseNot(toks, row) ==
    IF Starts(toks, Op("!")) THEN Negated(ParseNot(Tail(toks), row)) ELSE ParsePrimary(toks, row)

AndRest(p, row) ==
    IF Starts(p.rest, Op("&&")) THEN AndRest(Both(p, ParseNot(Tail(p.rest), row)), row) ELSE p

ParseAnd(toks, row) == AndRest(ParseNot(toks, row), row)

OrRest(p, row) ==
    IF Starts(p.rest, Op("||")) THEN OrRest(Either(p, ParseAnd(Tail(p.rest), row)), row) ELSE p

ParseOr(toks, row) == OrRest(ParseAnd(toks, row), row)

\* evaluate_expression and expression_scan_hint: something left over is an
\* error, and no hint.
Whole(p) == IF p.rest = << >> THEN p ELSE Parsed("error", NoHint, << >>)
Expression(toks, row) == Whole(ParseOr(toks, row))

\* A node is an expression, or and/or/not of nodes.
RECURSIVE Evaluate(_, _), ScanHint(_)

Combined(op, values) ==
    CASE "error" \in values -> "error"
      [] op = "and" -> Truth(values \subseteq {"yes"})
      [] op = "or"  -> Truth("yes" \in values)
      [] op = "not" -> Truth("no" \in values)

Evaluate(node, row) ==
    IF node.op = "expr" THEN Expression(node.toks, row).v
    ELSE Combined(node.op, {Evaluate(node.kids[i], row) : i \in DOMAIN node.kids})

CombinedHint(op, hints) ==
    CASE op = "and" -> FoldLeft(AndHint, NoHint, hints)
      [] op = "or" /\ hints # << >> -> FoldLeft(OrHint, hints[1], hints)
      [] OTHER -> NoHint

\* scan_root_hint does not look at the row.
ScanHint(node) ==
    IF node.op = "expr" THEN Expression(node.toks, Row(<<"">>, Notes[1])).h
    ELSE CombinedHint(node.op, [i \in DOMAIN node.kids |-> ScanHint(node.kids[i])])

-----------------------------------------------------------------------------
(* Sorting (compare_values, sort_rows).                                     *)

\* A value is its type's rank and a number to stand for it; missing ranks 0,
\* null 1, booleans 2, numbers 3, strings 4, lists and objects above.  Within
\* a type of the last two there is no order.
Compare(a, b) ==
    IF a.rank # b.rank THEN a.rank < b.rank ELSE a.rank < 5 /\ a.n < b.n

Less(key, r, s) == IF key.descending THEN Compare(s[key.property], r[key.property])
                   ELSE Compare(r[key.property], s[key.property])

\* Mutant: rows that compare equal change places.
MutInsert(row, rows, key) ==
    LET n == Cardinality({i \in DOMAIN rows : Less(key, rows[i], row)})
    IN  SubSeq(rows, 1, n) \o <<row>> \o SubSeq(rows, n + 1, Len(rows))

\* A stable sort puts a row after those that are not greater.
Insert(row, rows, key) ==
    LET n == Cardinality({i \in DOMAIN rows : ~Less(key, row, rows[i])})
    IN  SubSeq(rows, 1, n) \o <<row>> \o SubSeq(rows, n + 1, Len(rows))

StableSort(rows, key) == FoldLeft(LAMBDA done, row : Insert(row, done, key), << >>, rows)

\* The keys in reverse, one stable sort each.
SortRows(keys, rows) == FoldRight(LAMBDA key, done : StableSort(done, key), keys, rows)

-----------------------------------------------------------------------------
(* run.                                                                     *)

\* The path of the directory that the hint leads to.  A path hint names the parent of the
\* path, by the last slash; one with no directory does not narrow.
Narrowing(filter) ==
    LET hint == IF filter.op = "none" THEN NoHint ELSE ScanHint(filter)
    IN  IF hint.kind = "path" THEN Front(hint.value) ELSE hint.value

\* join_relative: an absolute path replaces that of the vault.
Place(dir) ==
    LET names == SelectSeq(dir, LAMBDA name : name \notin {"", "."})
    IN  IF dir[1] = "" THEN names ELSE Home \o names

\* The path resolves within a vault, and to a directory; otherwise the vault is scanned.
Narrows(dir) ==
    /\ dir \notin {<< >>, <<"">>} /\ ".." \notin Range(dir)
    /\ \E vault \in Vaults : IsPrefix(vault, Place(dir))
    /\ Place(dir) \in Directories

\* search_candidates, below the place root: a note has its path from there, after the path
\* that led there.  What is hidden is a directory of the root.
Below(root, dir, note) ==
    LET rest == Append(SubSeq(note.at, Len(root) + 1, Len(note.at)), note.name)
    IN  IF IsPrefix(root, note.at) /\ ~(Len(rest) > 1 /\ rest[1] \in Hidden)
        THEN <<[note |-> note, path |-> dir \o rest]>> ELSE << >>

SearchCandidates(root, dir) == FoldLeft(LAMBDA done, note : done \o Below(root, dir, note), << >>, Notes)

Candidates(filter) ==
    LET dir == Narrowing(filter)
    IN  IF Narrows(dir) THEN SearchCandidates(Place(dir), dir) ELSE SearchCandidates(Home, << >>)

Failed == [ok |-> FALSE]

\* resolve_column and resolve_formula: a formula is a property's name, or a link
\* to the note that shows one, and otherwise is not evaluated; it never fails.
\* Outside formulas an unknown file property does.
Cell(kind, value) == [kind |-> kind, value |-> value]

ResolveColumn(column, row) ==
    CASE column = "unknown" -> Cell("error", Missing)
      [] column \in {"p", "formula.p"} -> Cell("value", row.p)
      [] column = "formula.link" -> Cell(IF row.p = Missing THEN "link by name" ELSE "link", row.p)
      [] OTHER -> Cell("not evaluated", Missing)

ResolveRow(columns, row) == [i \in DOMAIN columns |-> ResolveColumn(columns[i], row)]

Limited(rows, limit) == IF limit > 0 /\ limit < Len(rows) THEN SubSeq(rows, 1, limit) ELSE rows

LoadRows(scanned) == FoldLeft(LAMBDA done, found : done \o LoadRow(found), << >>, scanned)

FilterValue(filter, row) == IF filter.op = "none" THEN "yes" ELSE Evaluate(filter, row)

\* An unknown property is an error once it is compared.
BadSort(keys, matched) == Len(matched) > 1 /\ \E k \in DOMAIN keys : keys[k].property = "unknown"

BadCell(cells) == \E i \in DOMAIN cells : \E j \in DOMAIN cells[i] : cells[i][j].kind = "error"

Table(def, scanned, matched, shown, cells) ==
    IF BadSort(def.sort, matched) \/ BadCell(cells) THEN Failed
    ELSE [ok |-> TRUE, truncated |-> Len(Candidates(def.filter)) > MaxCandidates, matched |-> Len(matched),
          paths |-> [i \in DOMAIN shown |-> shown[i].path], cells |-> cells,
          diagnostics |-> {scanned[i].path : i \in {j \in DOMAIN scanned : scanned[j].note.state = "broken"}}]

Shown(def, scanned, matched, shown) ==
    Table(def, scanned, matched, shown, [i \in DOMAIN shown |-> ResolveRow(def.columns, shown[i])])

\* values are those of the filter for the rows; one that fails ends the query, and so does
\* a candidate whose path is none.
Answer(def, scanned, rows, values) ==
    IF \/ \E i \in DOMAIN scanned : scanned[i].note.state = "unnamed"
       \/ \E i \in DOMAIN rows : values[i] = "error"
    THEN Failed
    ELSE LET matched == FoldLeft(LAMBDA done, i : IF values[i] = "yes" THEN Append(done, rows[i]) ELSE done,
                                 << >>, [i \in DOMAIN rows |-> i])
         IN  Shown(def, scanned, matched, Limited(SortRows(def.sort, matched), def.limit))

Scan(def, scanned, rows) == Answer(def, scanned, rows, [i \in DOMAIN rows |-> FilterValue(def.filter, rows[i])])

Cut(found) == SubSeq(found, 1, IF Len(found) > MaxCandidates THEN MaxCandidates ELSE Len(found))

Run(def) == LET scanned == Cut(Candidates(def.filter)) IN Scan(def, scanned, LoadRows(scanned))

-----------------------------------------------------------------------------
(* Properties of one query definition.                                      *)

\* A hint is plain when it spells its directory as the rows of the vault do.
Plain(dir) == Range(dir) \cap {"", "."} = {} /\ dir[1] \notin Hidden

\* The rows that a query is about: those of the whole vault, except that under a hint that
\* is not plain the notes of its directory have the path that the hint spells, those that
\* the vault hides and those of another vault too.
Rows(def) ==
    LET dir == Narrowing(def.filter)
        spelled(note) == IF IsPrefix(Place(dir), note.at) THEN Below(Place(dir), dir, note)
                         ELSE Below(Home, << >>, note)
    IN  LoadRows(IF Narrows(dir) /\ ~Plain(dir)
                 THEN FoldLeft(LAMBDA done, note : done \o spelled(note), << >>, Notes)
                 ELSE SearchCandidates(Home, << >>))

Matches(def, rows) == {i \in DOMAIN rows : FilterValue(def.filter, rows[i]) = "yes"}

\* i comes before j: the first key that tells them apart decides, then the walk.
Precedes(def, rows, i, j) ==
    LET differ == {k \in DOMAIN def.sort : \/ Less(def.sort[k], rows[i], rows[j])
                                           \/ Less(def.sort[k], rows[j], rows[i])}
    IN  IF differ = {} THEN i < j
        ELSE Less(def.sort[CHOOSE k \in differ : \A l \in differ : k <= l], rows[i], rows[j])

\* The scan is narrowed, sorted key by key and cut, and still a query that succeeds returns
\* the matching rows in the order of its keys, up to its limit; when it is truncated, some
\* of them, and it says so.
SameAnswer(def, out, rows, all) ==
    out.ok =>
      /\ out.matched <= Len(all)
      /\ Range(out.paths) \subseteq {rows[all[i]].path : i \in DOMAIN all}
      /\ ~out.truncated => /\ out.matched = Len(all)
                           /\ out.paths = Limited([i \in DOMAIN all |-> rows[all[i]].path], def.limit)

ExactOn(def, rows) ==
    SameAnswer(def, Run(def), rows, SetToSortSeq(Matches(def, rows), LAMBDA i, j : Precedes(def, rows, i, j)))

Exact(def) == ExactOn(def, Rows(def))

=============================================================================
