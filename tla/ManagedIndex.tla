---------------------------- MODULE ManagedIndex ----------------------------
(***************************************************************************)
(* The managed index.md of every directory of a vault (contextos-index,    *)
(* lib.rs): what a table holds, the rebuild of a subtree and the           *)
(* reconciliation after an event.                                          *)
(*                                                                         *)
(* A vault is a function from locations, sequences of names below its      *)
(* root, to nodes: a directory, or a file with its text.  The text of an   *)
(* index is what the operator wrote around the table, the table, if there  *)
(* is one, as its rows, and whether its markers are broken; the text of a  *)
(* note is what a summary is made of.                                      *)
(***************************************************************************)
EXTENDS Integers, Sequences, FiniteSets, SequencesExt, TLC

CONSTANTS Excluded, \* the configured exclusions: locations
          Dotted,   \* the names that begin with a dot
          Markdown, \* the names that end in .md
          ReadBack, \* the name a row is read back under: the name itself, unless it holds "](" or the like
          InOrder   \* all names, by their lower-case form and then by the name

Directory == [kind |-> "dir"]
File(text) == [kind |-> "file", text |-> text]

IsDir(vault, path) == path \in DOMAIN vault /\ vault[path].kind = "dir"
Below(vault, path) == {p \in DOMAIN vault : IsPrefix(path, p)}

\* ListsVault::list: the names in a directory.
Listing(vault, dir) == {Last(p) : p \in {p \in DOMAIN vault : Len(p) = Len(dir) + 1 /\ IsPrefix(dir, p)}}

\* is_excluded: the location or a directory above it.
IsExcluded(path) == \E x \in Excluded : IsPrefix(x, path)

\* includes.
Includes(dir, name) == name \notin Dotted \cup {"index.md", "_index.md"} /\ ~IsExcluded(Append(dir, name))

-----------------------------------------------------------------------------
(* One table.                                                               *)

\* The title or the first heading, and the first sentence, unless they are the same.
Described(text) == IF text.title = text.sentence THEN text.title ELSE text.title \o text.sentence

\* IndexSummary::try_from: without either, or for anything but a note, the name.
Suggested(name, node) ==
    IF node.kind = "file" /\ name \in Markdown /\ Described(node.text) # << >>
    THEN Described(node.text) ELSE <<name>>

\* The rows there are, by the name they are read back under; existing_summaries.
Existing(rows) == [n \in {ReadBack[r.name] : r \in ToSet(rows)} |->
                       (CHOOSE r \in ToSet(rows) : ReadBack[r.name] = n).summary]

\* Mutant: every summary is made anew.
MutSummary(name, node, existing) == <<"auto">> \o Suggested(name, node)

\* A row that was there keeps its summary, written by hand or not.
Summary(name, node, existing) ==
    IF name \in DOMAIN existing THEN existing[name] ELSE <<"auto">> \o Suggested(name, node)

\* Directories first, then by name.
Entries(vault, dir) ==
    LET shown == SelectSeq(InOrder, LAMBDA n : n \in Listing(vault, dir) /\ Includes(dir, n))
    IN  SelectSeq(shown, LAMBDA n : IsDir(vault, Append(dir, n)))
        \o SelectSeq(shown, LAMBDA n : ~IsDir(vault, Append(dir, n)))

\* render_block.
Block(vault, dir, existing) ==
    LET names == Entries(vault, dir)
    IN  [i \in DOMAIN names |-> [name |-> names[i],
                                 summary |-> Summary(names[i], vault[Append(dir, names[i])], existing)]]

\* IndexDocument::try_from, reconcile_existing: a new index, a table added to
\* what there is, or the table replaced in its place.
Document(vault, dir, old) ==
    CASE old = << >> ->
            [head |-> "title", table |-> <<Block(vault, dir, << >>)>>, tail |-> "", broken |-> FALSE]
      [] old # << >> /\ old[1].table = << >> -> [old[1] EXCEPT !.table = <<Block(vault, dir, << >>)>>]
      [] OTHER -> [old[1] EXCEPT !.table = <<Block(vault, dir, Existing(old[1].table[1]))>>]

-----------------------------------------------------------------------------
(* The directories of a vault: an outcome is a vault and whether it went    *)
(* well so far.                                                             *)

Put(vault, path, node) == path :> node @@ vault

\* A note of the directory whose frontmatter does not parse.
Unreadable(vault, dir) ==
    \E n \in Listing(vault, dir) \cap Markdown :
        Includes(dir, n) /\ vault[Append(dir, n)].kind = "file" /\ vault[Append(dir, n)].text.broken

\* migrate_legacy_index: _index.md becomes index.md, unless both are there.
Migrated(vault, dir) ==
    LET old == Append(dir, "_index.md")
    IN  IF old \in DOMAIN vault
        THEN Put([p \in DOMAIN vault \ {old} |-> vault[p]], Append(dir, "index.md"), vault[old])
        ELSE vault

\* persist_directory.
Persisted(vault, dir) ==
    LET index == Append(dir, "index.md")
        old == IF index \in DOMAIN vault THEN <<vault[index].text>> ELSE << >>
    IN  IF Unreadable(vault, dir) \/ (old # << >> /\ old[1].broken) THEN [ok |-> FALSE, vault |-> vault]
        ELSE [ok |-> TRUE, vault |-> Put(vault, index, File(Document(vault, dir, old)))]

\* One directory, of a rebuild or of a reconciliation: both _index.md and
\* index.md is an error, and so is a directory that is not there to be listed.
Indexed(outcome, dir) ==
    CASE ~outcome.ok -> outcome
      [] outcome.ok /\ (~IsDir(outcome.vault, dir) \/ {"index.md", "_index.md"} \subseteq Listing(outcome.vault, dir)) ->
            [outcome EXCEPT !.ok = FALSE]
      [] OTHER -> Persisted(Migrated(outcome.vault, dir), dir)

\* rebuild_directory: the directory, then the directories its table shows.
RECURSIVE Rebuilt(_, _)
Rebuilt(outcome, dir) ==
    FoldLeft(LAMBDA o, n : IF o.ok /\ IsDir(o.vault, Append(dir, n)) THEN Rebuilt(o, Append(dir, n)) ELSE o,
             Indexed(outcome, dir), Entries(outcome.vault, dir))

Rebuild(vault) == Rebuilt([ok |-> TRUE, vault |-> vault], << >>)

\* Mutant: of a path, its own directory and the one above it.
MutDirectories(vault, path) ==
    (IF IsDir(vault, path) /\ ~IsExcluded(path) THEN <<path>> ELSE << >>)
    \o (IF path # << >> /\ ~IsExcluded(Front(path)) THEN <<Front(path)>> ELSE << >>)

\* The directories an event's path touches: itself, and those above it, nearest first.
Directories(vault, path) ==
    LET above == [i \in 1..Len(path) |-> SubSeq(path, 1, Len(path) - i)]
    IN  (IF IsDir(vault, path) /\ ~IsExcluded(path) THEN <<path>> ELSE << >>)
        \o SelectSeq(above, LAMBDA d : ~IsExcluded(d))

\* reconcile_event.  The directories above a later path that were listed for an
\* earlier one are not listed again.
Reconciled(vault, paths) ==
    LET all == FoldLeft(LAMBDA ds, p : ds \o SelectSeq(Directories(vault, p),
                            LAMBDA d : d = p \/ d \notin ToSet(ds)), << >>, paths)
    IN  FoldLeft(Indexed, [ok |-> TRUE, vault |-> vault], all)

-----------------------------------------------------------------------------
(* What the tools do to a vault, and the paths of their events; writes,     *)
(* moves and new directories make the directories above them.               *)

WithParents(vault, path) ==
    [p \in {SubSeq(path, 1, n) : n \in 0..Len(path) - 1} |-> Directory] @@ vault

Changed(vault, change) ==
    CASE change.do = "write" -> Put(WithParents(vault, change.path), change.path, File(change.text))
      [] change.do = "mkdir" -> Put(WithParents(vault, change.path), change.path, Directory)
      [] change.do = "delete" -> [p \in DOMAIN vault \ Below(vault, change.path) |-> vault[p]]
      [] change.do = "move" ->
            LET moved == Below(vault, change.path)
                stay == [p \in DOMAIN vault \ moved |-> vault[p]]
                new(p) == change.to \o SubSeq(p, Len(change.path) + 1, Len(p))
            IN  [q \in {new(p) : p \in moved} |-> vault[CHOOSE p \in moved : new(p) = q]]
                @@ WithParents(stay, change.to)

\* delete_honouring_managed_index: a directory goes when it is empty, and one whose
\* index is managed when it holds nothing else.
Gone(vault, dir) ==
    Below(vault, dir) \subseteq {dir} \cup IF IsExcluded(dir) THEN {} ELSE {Append(dir, n) : n \in {"index.md", "_index.md"}}

\* The changes the tools accept: nothing is replaced by a directory or through a file.
May(vault, change) ==
    LET into == IF change.do = "move" THEN change.to ELSE change.path
    IN  /\ \A n \in 1..Len(into) - 1 : SubSeq(into, 1, n) \in DOMAIN vault => IsDir(vault, SubSeq(into, 1, n))
        /\ CASE change.do = "write" -> ~IsDir(vault, change.path)
             [] change.do = "mkdir" -> change.path \notin DOMAIN vault
             [] change.do = "delete" -> change.path \in DOMAIN vault /\ Gone(vault, change.path)
             [] change.do = "move" -> change.path \in DOMAIN vault /\ change.to \notin DOMAIN vault
                                      /\ ~IsPrefix(change.path, change.to)

Paths(change) == IF change.do = "move" THEN <<change.path, change.to>> ELSE <<change.path>>

-----------------------------------------------------------------------------

\* Every table is what a rebuild would make it.
Settled(vault) == Rebuild(vault) = [ok |-> TRUE, vault |-> vault]

\* Directories moved out of an exclusion, or into a name with a dot and out
\* again, bring subdirectories that never had an index.
Stays(vault, change) ==
    change.do = "move" /\ IsDir(vault, change.path) =>
        \A p \in Below(vault, change.path) : ~IsExcluded(p) /\ ToSet(p) \cap Dotted = {}

\* What the operator wrote is still there: the text around a table that was not
\* itself written, deleted or moved, and the summary of a row whose file stays.
Kept(before, after, change) ==
    \A p \in DOMAIN before \cap DOMAIN after :
        p # << >> /\ Last(p) = "index.md" /\ p \notin ToSet(Paths(change)) =>
            LET old == before[p].text
                new == after[p].text
            IN  /\ new.head = old.head /\ new.tail = old.tail
                /\ \A r \in ToSet(old.table[1]), s \in ToSet(new.table[1]) :
                       s.name = r.name /\ ReadBack[r.name] = r.name => s = r

\* After any one change to a vault whose tables are settled, the reconciliation of
\* its event settles them again, or reports a failure, and in neither case takes
\* anything the operator wrote (lib.rs, reconcile_event, against rebuild_directory).
ReconcileSettles(vault, change) ==
    May(vault, change) /\ Stays(vault, change) /\ Settled(vault) =>
        LET done == Reconciled(Changed(vault, change), Paths(change))
        IN  (done.ok => Settled(done.vault)) /\ Kept(vault, done.vault, change)

=============================================================================
