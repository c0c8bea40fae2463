--------------------------- MODULE GitInspection ---------------------------
(***************************************************************************)
(* What git_status, git_log and git_diff say of a vault, and the ignore     *)
(* rules that git_init keeps.  A tree is a function from paths to contents, *)
(* a history the trees of its commits, oldest first and without merges, a  *)
(* repository its history with the index and the files of the working      *)
(* tree.  A path filter has no character of a pattern.                      *)
(***************************************************************************)
EXTENDS Integers, Sequences, FiniteSets, SequencesExt, FiniteSetsExt

Under(path, filter) == Len(filter) <= Len(path) /\ SubSeq(path, 1, Len(filter)) = filter
Empty == [p \in {} |-> "none"]
At(tree, path) == IF path \in DOMAIN tree THEN tree[path] ELSE "none"
Changed(old, new) == {p \in DOMAIN old \cup DOMAIN new : At(old, p) # At(new, p)}

(* git_log *)

TreeBefore(history, c) == IF c = 1 THEN Empty ELSE history[c - 1]
Entry(history, c) == [commit |-> c, files |-> Changed(TreeBefore(history, c), history[c])]
Touches(entry, filter) == filter = "none" \/ \E p \in entry.files : Under(p, filter[1])

\* Mutant: the limit counts the commits that are looked at.
MutLog(history, filter, limit) ==
    IF limit = 0 \/ history = << >> THEN "refused"
    ELSE LET newest == Reverse([c \in 1..Len(history) |-> Entry(history, c)])
         IN SelectSeq(SubSeq(newest, 1, Min({limit, Len(newest)})), LAMBDA e : Touches(e, filter))

Log(history, filter, limit) ==
    IF limit = 0 \/ history = << >> THEN "refused"
    ELSE LET touching == SelectSeq(Reverse([c \in 1..Len(history) |-> Entry(history, c)]), LAMBDA e : Touches(e, filter))
         IN SubSeq(touching, 1, Min({limit, Len(touching)}))

(* git_status and git_diff *)

Status(repo) ==
    [staged |-> Changed(repo.head, repo.index),
     unstaged |-> Changed(repo.index, repo.files) \cap DOMAIN repo.index,
     untracked |-> {p \in DOMAIN repo.files \ DOMAIN repo.index : p \notin repo.ignored}]

\* The working tree as a diff sees it: the tracked files.
WorkTree(repo) == [p \in DOMAIN repo.files \cap DOMAIN repo.index |-> repo.files[p]]
Diff(from, to, filter) == {p \in Changed(from, to) : filter = "none" \/ Under(p, filter[1])}

\* The text of a diff is a sequence of characters: 1 to 4 are their bytes, 0 is a byte
\* that is no character.  It is read lossily, each broken piece as a character, again 0, of 3 bytes.
\* A limit of 0 is refused.
Raw(text) == FlattenSeq([i \in DOMAIN text |->
    IF text[i] = 0 THEN <<<<0, 1, 1>>>> ELSE [b \in 1..text[i] |-> <<i, b, text[i]>>]])
Width(char) == IF char = 0 THEN 3 ELSE char
WidthOf(chars) == FoldSeq(LAMBDA c, sum : Width(c) + sum, 0, chars)
Lossy(bytes) ==
    LET Ends(b) == b[1] # 0 /\ b[2] = b[3]
        Breaks(i) == bytes[i][1] = 0 \/ (i = Len(bytes) /\ ~Ends(bytes[i]))
        read == [i \in DOMAIN bytes |-> IF Breaks(i) THEN 0 ELSE IF Ends(bytes[i]) THEN bytes[i][3] ELSE -1]
    IN SelectSeq(read, LAMBDA c : c >= 0)
Popped(chars, limit) == SubSeq(chars, 1, Max({n \in 0..Len(chars) : n = 0 \/ WidthOf(SubSeq(chars, 1, n)) <= limit}))
Capped(text, max, notice) ==
    LET bytes == Raw(text)
        Cut(limit) == Popped(Lossy(SubSeq(bytes, 1, Min({limit, Len(bytes)}))), limit)
    IN IF Len(bytes) > max /\ max >= notice
       THEN [content |-> Cut(max - notice), bytes |-> WidthOf(Cut(max - notice)) + notice, truncated |-> TRUE]
       ELSE [content |-> Cut(max), bytes |-> WidthOf(Cut(max)), truncated |-> Len(bytes) > max]

(* git_init: the lines of .gitignore; a last line without its end is ended first. *)

Required == <<".contextos/", ".obsidian/workspace*">>
WithRule(lines, rule) == IF rule \in ToSet(lines) THEN lines ELSE Append(lines, rule)
MaintainIgnorePolicy(lines) == FoldLeft(WithRule, lines, Required)

(* What the answers owe each other *)

Restricted(tree, filter) == [p \in {q \in DOMAIN tree : Under(q, filter)} |-> tree[p]]

\* The log of a path retraces it: its newest entry has what HEAD has, every entry was made
\* on what the next one left, and the first on nothing; a shorter log is its beginning.
LogRetraces(history, filter) ==
    \A log \in {Log(history, <<filter>>, Len(history))} :
        LET Left(i) == IF i > Len(log) THEN Restricted(Empty, filter) ELSE Restricted(history[log[i].commit], filter)
        IN /\ Left(1) = Restricted(Last(history), filter)
           /\ \A i \in DOMAIN log : Restricted(TreeBefore(history, log[i].commit), filter) = Left(i + 1)
           /\ \A limit \in 1..Len(history) : Log(history, <<filter>>, limit) = SubSeq(log, 1, Min({limit, Len(log)}))

\* What differs between two commits is in the log between them.
DiffIsLogged(history, from, to, filter) ==
    Diff(history[from], history[to], <<filter>>)
        \subseteq UNION {e.files : e \in {x \in ToSet(Log(history, <<filter>>, Len(history))) : from < x.commit /\ x.commit <= to}}

\* What a diff to the working tree shows is in the status, and what the status does not
\* list is the same in the commit, the index and the files.
StatusAccounts(repo) ==
    \A status \in {Status(repo)} :
        /\ Diff(repo.head, WorkTree(repo), "none") \subseteq status.staged \cup status.unstaged
        /\ \A p \in (DOMAIN repo.head \cup DOMAIN repo.index \cup DOMAIN repo.files) \ (status.staged \cup status.unstaged \cup status.untracked) :
              \/ At(repo.head, p) = At(repo.index, p) /\ At(repo.index, p) = At(repo.files, p)
              \/ p \in repo.ignored /\ p \notin DOMAIN repo.head \cup DOMAIN repo.index

\* A capped diff fits, and one that is not truncated is whole, when it is text.
CapIsTold(text, max, notice) ==
    \A result \in {Capped(text, max, notice)} :
        /\ result.bytes <= max
        /\ (\A i \in DOMAIN text : text[i] # 0) /\ ~result.truncated => result.content = text

\* Asking again for the ignore rules changes nothing, and no line is lost.
IgnoreSettles(lines) ==
    \A kept \in {MaintainIgnorePolicy(lines)} :
        /\ MaintainIgnorePolicy(kept) = kept
        /\ IsPrefix(lines, kept) /\ ToSet(Required) \subseteq ToSet(kept)

=============================================================================
