----------------------------- MODULE VaultReads -----------------------------
(***************************************************************************)
(* How a tool's path becomes a file of a vault (contextos-core, path.rs),  *)
(* and what the reading tools do with it (contextos-fs, read.rs and        *)
(* discover.rs).                                                           *)
(*                                                                         *)
(* A location is a sequence of names from the root of the file system.     *)
(***************************************************************************)
EXTENDS Integers, Sequences, FiniteSets, SequencesExt

CONSTANTS Roots,     \* the configured vaults: a sequence of locations
          Names,     \* their names, in lower case
          Dirs,      \* the directories there are
          Files,     \* the files there are
          Links      \* the symbolic links: a function to locations

Exists == Dirs \cup Files \cup DOMAIN Links

-----------------------------------------------------------------------------
(* Resolution.                                                              *)

\* canonicalize.
RECURSIVE Canonical(_)
Canonical(path) ==
    IF path = << >> THEN << >>
    ELSE LET here == Append(Canonical(Front(path)), Last(path))
         IN  IF here \in DOMAIN Links THEN Canonical(Links[here]) ELSE here

\* symlink_metadata: the links on the way are followed, the last name is not.
Seen(path) == path = << >> \/ Append(Canonical(Front(path)), Last(path)) \in Exists

\* resolve_with_missing_suffix: the longest ancestor that is there, resolved,
\* and the names that are not.  A link to nowhere cannot be resolved.
Resolved(path) ==
    LET n == CHOOSE n \in 0..Len(path) :
                 Seen(SubSeq(path, 1, n)) /\ \A m \in n + 1..Len(path) : ~Seen(SubSeq(path, 1, m))
        ancestor == Canonical(SubSeq(path, 1, n))
    IN  IF ancestor \in Exists \cup {<< >>} THEN <<ancestor \o SubSeq(path, n + 1, Len(path))>> ELSE << >>

Error(code) == [ok |-> FALSE, code |-> code]

\* Mutant: the root is the one the path is written under.
MutOwner(roots, path, resolved, only) ==
    SelectInSeq(roots, LAMBDA r : IsPrefix(r, path))

\* The first root that holds the resolved path; with a vault name, only that one.
Owner(roots, path, resolved, only) ==
    LET holds == {i \in DOMAIN roots : only \in {0, i} /\ IsPrefix(roots[i], resolved)}
    IN  IF holds = {} THEN 0 ELSE CHOOSE i \in holds : \A j \in holds : i <= j

\* finish.
Owned(roots, absolute, owner, written) ==
    IF owner = 0 THEN Error(IF written THEN "path/symlink-escape" ELSE "path/outside-root")
    ELSE [ok |-> TRUE, root |-> owner, absolute |-> absolute,
          relative |-> SubSeq(absolute, Len(roots[owner]) + 1, Len(absolute))]
Placed(roots, path, resolved, written, only) ==
    IF resolved = << >> THEN Error("path/invalid")
    ELSE Owned(roots, resolved[1], Owner(roots, path, resolved[1], only), written)
Finish(roots, path, written, only) == Placed(roots, path, Resolved(path), written, only)

\* What a caller writes: an optional vault name, an absolute or a relative
\* location, and whether it is empty, or has a parent traversal, a drive or a
\* stream in it.  A name that is no scheme reads as a stream.
Resolve(raw) ==
    LET named == SelectInSeq(Names, LAMBDA n : n = raw.name)
        only == IF raw.name = "" THEN 0 ELSE named
    IN  CASE raw.name # "" /\ named = 0 -> Error("path/unknown-vault-name")
          [] raw.name # "" /\ named # 0 /\ raw.form = "empty" -> Error("path/empty-named-prefix")
          [] raw.name = "" /\ raw.form = "empty" -> Error("path/invalid")
          [] raw.form = "traversal" -> Error("path/outside-root")
          [] raw.form = "windows" -> Error("path/invalid-windows-path")
          [] raw.form = "relative" /\ only = 0 /\ Len(Roots) > 1 -> Error("path/ambiguous-root")
          [] OTHER -> LET path == IF raw.form = "absolute" THEN raw.path ELSE Roots[IF only = 0 THEN 1 ELSE only] \o raw.path
                      IN  Finish(Roots, path, \E i \in DOMAIN Roots : only \in {0, i} /\ IsPrefix(Roots[i], path), only)

\* try_from_vault_selector: the name of a vault alone selects all of it.
Select(raw) ==
    IF raw.form = "relative" /\ raw.name = "" /\ Len(raw.path) = 1 /\ Contains(Names, raw.path[1])
    THEN Resolve([name |-> raw.path[1], form |-> "relative", path |-> << >>])
    ELSE Resolve(raw)

\* VaultSet: what may be configured.
Configurable(roots, names) ==
    /\ roots # << >>
    /\ \A i, j \in DOMAIN roots : i # j => roots[i] # roots[j] /\ names[i] # names[j]
    /\ \A i \in DOMAIN roots : Canonical(roots[i]) = roots[i] /\ roots[i] \in Dirs

\* authorises.
Authorises(p) == p.root \in DOMAIN Roots /\ p.absolute = Roots[p.root] \o p.relative

\* git_filter_path: a path filter of git_log and git_diff, in the vault selected before.
InVault(selected, p) == IF p.ok /\ p.root # selected THEN Error("path/other-vault") ELSE p
FilterPath(selected, raw) ==
    InVault(selected, Resolve(IF raw.form # "relative" THEN raw
                              ELSE [raw EXCEPT !.form = "absolute", !.path = Roots[selected] \o raw.path]))

Disjoint == \A i, j \in DOMAIN Roots : i # j => ~IsPrefix(Roots[i], Roots[j])

\* However a caller writes it and whatever links lead there, a file has one name:
\* two paths that come to the same place come to the same vault and the same
\* relative path, which is what the locks and the indexes go by; it lies in that
\* vault, and a path with a vault's name comes to that vault or to nothing.
\* Vaults that lie inside one another are the exception.  A filter of git_log comes to
\* the file that the vault's name and the same path come to.
IsNameOf(p, raw, others) ==
    p.ok => /\ Authorises(p) /\ p.absolute = Canonical(p.absolute)
            /\ raw.name # "" => Names[p.root] = raw.name
            /\ \A q \in others : q.ok /\ Disjoint /\ p.absolute = q.absolute => p = q
OneName(raw, others) == IsNameOf(Resolve(raw), raw, others)

Agree(filter, named) == filter.ok = named.ok /\ (filter.ok => filter = named)
FiltersAgree(raw) ==
    \A i \in DOMAIN Roots : raw.name = "" /\ raw.form \in {"relative", "absolute"} /\ Disjoint =>
        Agree(FilterPath(i, raw), Resolve([raw EXCEPT !.name = Names[i]]))

-----------------------------------------------------------------------------
(* read_text.                                                               *)

\* Mutant: the queue of a tail is cut before it is full.
MutObserve(limit, acc, line) ==
    LET n == acc.count + 1
        take == \/ limit.kind = "none" \/ (limit.kind = "head" /\ n <= limit.n)
                \/ (limit.kind = "range" /\ limit.from <= n /\ n <= limit.to)
        queue == Append(acc.tail, line)
    IN  [count |-> n,
         selected |-> IF take THEN Append(acc.selected, line) ELSE acc.selected,
         tail |-> CASE limit.kind # "tail" \/ limit.n = 0 -> acc.tail
                    [] Len(queue) >= limit.n -> Tail(queue)
                    [] OTHER -> queue]

\* ReadAccumulator: the lines are observed one by one; a tail is a queue.
Observe(limit, acc, line) ==
    LET n == acc.count + 1
        take == \/ limit.kind = "none" \/ (limit.kind = "head" /\ n <= limit.n)
                \/ (limit.kind = "range" /\ limit.from <= n /\ n <= limit.to)
        queue == Append(acc.tail, line)
    IN  [count |-> n,
         selected |-> IF take THEN Append(acc.selected, line) ELSE acc.selected,
         tail |-> CASE limit.kind # "tail" \/ limit.n = 0 -> acc.tail
                    [] Len(queue) > limit.n -> Tail(queue)
                    [] OTHER -> queue]

Accumulate(limit, lines) ==
    FoldLeft(LAMBDA acc, line : Observe(limit, acc, line),
             [count |-> 0, selected |-> << >>, tail |-> << >>], lines)

\* A file is what its metadata says it is and its lines, each the widths of its
\* characters; a character of width 0 is none, and its line is not text.
Bytes(chars) == FoldLeft(LAMBDA sum, c : sum + c, 0, chars)
Size(lines) == Bytes(FlattenSeq(lines))
Binary(lines) == Contains(FlattenSeq(lines), 0)

Selection(file, acc, selected) ==
    [ok |-> TRUE, lines |-> selected, line_count |-> acc.count, hash |-> file.lines, truncated |-> Len(selected) # acc.count]
Finished(file, limit, acc) == Selection(file, acc, IF limit.kind = "tail" THEN acc.tail ELSE acc.selected)

\* Every line is read, so binary content behind a limit is an error too.
ReadText(file, limit, maximum) ==
    CASE file.kind = "absent" -> Error("fs/not-found")
      [] file.kind = "dir" -> Error("fs/not-file")
      [] OTHER -> IF limit.kind = "none" /\ Size(file.lines) > maximum THEN Error("fs/too-large")
                  ELSE IF Binary(file.lines) THEN Error("fs/binary")
                  ELSE Finished(file, limit, Accumulate(limit, file.lines))

\* read_many: too many files of one vault refuse the whole batch; a file that
\* cannot be read is an error of its own.
ReadMany(files, maximum, batch) ==
    IF \E r \in DOMAIN batch : Cardinality({i \in DOMAIN files : files[i].root = r}) > batch[r]
    THEN Error("fs/batch-too-large")
    ELSE [ok |-> TRUE, results |-> [i \in DOMAIN files |-> ReadText(files[i], [kind |-> "none"], maximum)]]

\* read_attachment: any file up to a size, as it is.
ReadAttachment(file, cap) ==
    CASE file.kind = "absent" -> Error("fs/not-found")
      [] file.kind = "dir" -> Error("fs/not-file")
      [] file.kind = "file" /\ Size(file.lines) > cap -> Error("fs/too-large")
      [] OTHER -> [ok |-> TRUE, lines |-> file.lines, text |-> ~Binary(file.lines)]

\* A limited read shows the lines that were asked for, its hash is that of the
\* whole file, which is what a later write expects, and it says truncated exactly
\* when the caller has not seen the whole file.
ReadExact(file, limit, maximum) ==
    LET out == ReadText(file, limit, maximum)
        n == Len(file.lines)
        least(a, b) == IF a < b THEN a ELSE b
        expected == CASE limit.kind = "none"  -> file.lines
                      [] limit.kind = "head"  -> SubSeq(file.lines, 1, least(limit.n, n))
                      [] limit.kind = "tail"  -> SubSeq(file.lines, n - least(limit.n, n) + 1, n)
                      [] limit.kind = "range" -> SubSeq(file.lines, limit.from, least(limit.to, n))
    IN  out.ok => /\ out.lines = expected /\ out.hash = file.lines
                  /\ out.truncated = (expected # file.lines)

-----------------------------------------------------------------------------
(* list_directory, directory_tree and search_files.                         *)

\* A pattern is a directory's name, at any depth ("name/"); everything below a
\* directory of the place the walk starts from ("name/**"); or the name of files.
Matches(pattern, rel, dir) ==
    LET dirs == IF dir THEN rel ELSE Front(rel)
    IN  CASE pattern.kind = "dir"   -> Contains(dirs, pattern.name)
          [] pattern.kind = "below" -> Len(rel) > 1 /\ rel[1] = pattern.name
          [] pattern.kind = "file"  -> Contains(rel, pattern.name)

\* is_excluded: a directory is also left out if anything in it would be.
Excluded(patterns, rel, dir) ==
    \E p \in patterns : Matches(p, rel, dir) \/ (dir /\ Matches(p, Append(rel, "descendant"), FALSE))

Children(top) == {p \in Dirs \cup Files : Len(p) = Len(top) + 1 /\ IsPrefix(top, p)}
Relative(root, p) == SubSeq(p, Len(root) + 1, Len(p))

\* list_directory: what is shown of one directory.
Listed(top, hidden) == {p \in Children(top) : ~Excluded(hidden, Relative(top, p), p \in Dirs)}

\* directory_tree: the nodes below top, down to a depth.
RECURSIVE TreeNodes(_, _, _, _)
TreeNodes(root, top, depth, patterns) ==
    IF depth = 0 \/ top \notin Dirs THEN {}
    ELSE LET shown == {p \in Children(top) : ~Excluded(patterns, Relative(root, p), p \in Dirs)}
         IN  shown \cup UNION {TreeNodes(root, p, depth - 1, patterns) : p \in shown}

\* search_walk: everything is walked, left out one by one, and the result cut.
Found(root, pattern, patterns, maximum) ==
    LET all == {p \in Dirs \cup Files : p # root /\ IsPrefix(root, p)}
        kept == {p \in all : ~Excluded(patterns, Relative(root, p), p \in Dirs) /\ Last(p) \in pattern}
    IN  IF Cardinality(kept) <= maximum THEN kept
        ELSE CHOOSE s \in SUBSET kept : Cardinality(s) = maximum

\* The three walks agree on what there is: a search that is not cut finds what the
\* full tree shows, the tree's first level is the listing, and neither shows
\* anything below what it leaves out.
WalksAgree(root, patterns, pattern) ==
    LET tree == TreeNodes(root, root, 10, patterns)
    IN  /\ Found(root, pattern, patterns, 100) = {p \in tree : Last(p) \in pattern}
        /\ TreeNodes(root, root, 1, patterns) = Listed(root, patterns)
        /\ \A p \in tree : Front(p) \in tree \cup {root}

-----------------------------------------------------------------------------
(* resources/list and the previews of linked resources.                     *)

\* list_vault_resources: what a vault's list of files names, and links of such a name,
\* which are not followed; a file that several patterns find is listed once.
Resources(i, names, hidden) ==
    LET links == {p \in DOMAIN Links : IsPrefix(Roots[i], p) /\ Last(p) \in names /\ ~Excluded(hidden, Relative(Roots[i], p), FALSE)}
    IN  {Relative(Roots[i], p) : p \in (Found(Roots[i], names, hidden, 1000) \ Dirs) \cup links}
Uri(i, relative) == [name |-> Names[i], form |-> "relative", path |-> relative]

\* resource_eligible_file_counts: one resource that does not resolve refuses the count
\* of all vaults.
Counted(paths) ==
    IF \E p \in paths : ~p.ok THEN << >> ELSE [i \in DOMAIN Roots |-> Cardinality({p \in paths : p.root = i})]
EligibleFiles(names, hidden) ==
    Counted({Resolve(Uri(r[1], r[2])) @@ [uri |-> r] :
                r \in UNION {{i} \X Resources(i, names, hidden) : i \in DOMAIN Roots}})

\* bounded_preview.
WholeLines(lines, maximum) == Max({n \in 0..Len(lines) : n = 0 \/ Bytes(FlattenSeq(SubSeq(lines, 1, n))) <= maximum})
Cut(text, whole, maximum) ==
    IF whole # << >> THEN whole
    ELSE SubSeq(text, 1, Max({n \in DOMAIN text : Bytes(SubSeq(text, 1, n - 1)) <= maximum}))
BoundedPreview(lines, maximum) ==
    IF Size(lines) <= maximum THEN [text |-> FlattenSeq(lines), shortened |-> FALSE]
    ELSE [text |-> Cut(FlattenSeq(lines), FlattenSeq(SubSeq(lines, 1, WholeLines(lines, maximum))), maximum),
          shortened |-> TRUE]

\* ToolReadLimit: what a caller asks for, as a function of head, tail and range.
Asked(given) ==
    CASE Cardinality(DOMAIN given) > 1 -> Error("tool/invalid")
      [] DOMAIN given = {} -> [ok |-> TRUE, limit |-> [kind |-> "none"]]
      [] DOMAIN given = {"range"} ->
            LET from == given["range"][1] to == given["range"][2]
            IN  IF from = 0 \/ to = 0 \/ from > to THEN Error("fs/invalid-range")
                ELSE [ok |-> TRUE, limit |-> [kind |-> "range", from |-> from, to |-> to]]
      [] OTHER -> LET kind == CHOOSE k \in DOMAIN given : TRUE
                  IN  [ok |-> TRUE, limit |-> [kind |-> kind, n |-> given[kind]]]

\* From a threshold on, a preview and a link to the resource.
Shown(read, linked, preview) ==
    [ok |-> TRUE, hash |-> read.hash, linked |-> linked,
     text |-> IF linked THEN preview.text ELSE FlattenSeq(read.lines),
     truncated |-> read.truncated \/ (linked /\ preview.shortened)]
Answered(read, threshold) ==
    IF read.ok THEN Shown(read, Size(read.lines) >= threshold, BoundedPreview(read.lines, threshold)) ELSE read

\* fs_read_text_file.
Limited(file, asked, maximum, threshold) ==
    IF asked.ok THEN Answered(ReadText(file, asked.limit, maximum), threshold) ELSE asked
ReadTool(file, given, maximum, threshold) == Limited(file, Asked(given), maximum, threshold)

\* batch_capacity: of all vaults together.
Capacity(batch) == FoldSeq(LAMBDA b, sum : b + sum, 0, batch)

\* Which of the valid paths the n-th one is.
Slot(items, n) == Cardinality({i \in 1..n : items[i].valid})

\* fs_read_multiple_files: every path has its slot, and one that is no path of a
\* vault is an error there.  Text that is long enough for a link is always called truncated.
Batched(answer) == IF answer.ok THEN [answer EXCEPT !.truncated = answer.linked] ELSE answer
Slots(items, read, threshold) ==
    IF ~read.ok THEN read
    ELSE [ok |-> TRUE, slots |-> [n \in DOMAIN items |->
             IF items[n].valid THEN Batched(Answered(read.results[Slot(items, n)], threshold)) ELSE Error("path/invalid")]]
BatchTool(items, maximum, batch, threshold) ==
    IF Len(items) > Capacity(batch) THEN Error("fs/batch-too-large")
    ELSE Slots(items, ReadMany(SelectSeq(items, LAMBDA item : item.valid), maximum, batch), threshold)

\* read_vault_resource: binary content is an attachment.
Blob(attachment) == IF attachment.ok THEN [attachment EXCEPT !.text = FALSE] ELSE attachment
Served(file, read, cap) ==
    CASE read.ok -> [ok |-> TRUE, lines |-> read.lines, text |-> TRUE]
      [] ~read.ok /\ read.code = "fs/binary" -> Blob(ReadAttachment(file, cap))
      [] OTHER -> read
ReadResource(file, maximum, cap) == Served(file, ReadText(file, [kind |-> "none"], maximum), cap)

\* A resource that is a file is read by its URI, and the count is of what is listed,
\* unless a link among them leads out of its vault or nowhere.
LeadsIn(i, absolute, resolved) == absolute \in Files \/ (resolved # << >> /\ IsPrefix(Roots[i], resolved[1]))
IsRead(p, absolute) == p.ok /\ p.absolute = absolute
ResourcesAreRead(names, hidden) ==
    LET listed == [i \in DOMAIN Roots |-> Resources(i, names, hidden)]
        AllLead == \A i \in DOMAIN Roots : \A r \in listed[i] : LeadsIn(i, Roots[i] \o r, Resolved(Roots[i] \o r))
    IN  /\ \A i \in DOMAIN Roots : \A r \in listed[i] : Roots[i] \o r \in Files => IsRead(Resolve(Uri(i, r)), Roots[i] \o r)
        /\ EligibleFiles(names, hidden) = IF AllLead THEN [i \in DOMAIN Roots |-> Cardinality(listed[i])] ELSE << >>

\* Whoever is not told that a text is truncated has seen all that its hash stands
\* for; whoever is told so of an unlimited read has a link, and behind it is that text.
Honest(answer, behind) ==
    answer.ok => /\ answer.truncated \/ answer.text = FlattenSeq(answer.hash)
                 /\ answer.linked /\ behind.ok => behind.text /\ behind.lines = answer.hash

Followed(answer, behind, unlimited) ==
    /\ Honest(answer, behind)
    /\ answer.ok /\ unlimited /\ answer.truncated => answer.linked /\ behind.ok
ToolShows(file, given, maximum, threshold, cap) ==
    Followed(ReadTool(file, given, maximum, threshold), ReadResource(file, maximum, cap), DOMAIN given = {})

\* A slot of a batch is what a read of its path alone gives, whatever stands beside
\* it, but for a truncated that is told of a whole text too; a batch is refused only when
\* a vault's share or the capacity of all is exceeded.
AsAlone(slot, one) ==
    IF slot.ok THEN [slot EXCEPT !.truncated = one.truncated] = one /\ (one.truncated => slot.truncated)
    ELSE slot = one
Admitted(items, batch) ==
    /\ Len(items) <= Capacity(batch)
    /\ \A v \in DOMAIN batch : Cardinality({n \in DOMAIN items : items[n].valid /\ items[n].root = v}) <= batch[v]
Fills(out, items, maximum, batch, threshold, cap) ==
    /\ out.ok = Admitted(items, batch)
    /\ out.ok => \A n \in DOMAIN items :
          IF items[n].valid
          THEN /\ Honest(out.slots[n], ReadResource(items[n], maximum, cap))
               /\ AsAlone(out.slots[n], ReadTool(items[n], << >>, maximum, threshold))
          ELSE out.slots[n] = Error("path/invalid")
BatchShows(items, maximum, batch, threshold, cap) ==
    Fills(BatchTool(items, maximum, batch, threshold), items, maximum, batch, threshold, cap)

\* A preview is a beginning of the text, of whole lines when the first one fits, and
\* exceeds its bound by no more than its last character.
PreviewIsBounded(lines, maximum) ==
    LET text == FlattenSeq(lines)
        preview == BoundedPreview(lines, maximum)
    IN  /\ IsPrefix(preview.text, text) /\ (preview.text # text => preview.shortened)
        /\ text # << >> => preview.text # << >> /\ Bytes(Front(preview.text)) <= maximum
        /\ lines # << >> /\ Bytes(lines[1]) <= maximum => Bytes(preview.text) <= maximum

=============================================================================
