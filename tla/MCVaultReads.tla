---------------------------- MODULE MCVaultReads ----------------------------
(***************************************************************************)
(* VaultReads over two vaults, v and w, and a directory outside them, with  *)
(* links from one vault to the other, out of them, back in and to nowhere.  *)
(***************************************************************************)
EXTENDS Integers, Sequences, FiniteSets

TheRoots == << <<"v">>, <<"w">> >>
TheNames == <<"vv", "ww">>
TheDirs == {<<"v">>, <<"w">>, <<"o">>, <<"v", "a">>, <<"v", "a", "g">>, <<"v", "g">>, <<"w", "b">>}
TheFiles == {<<"v", "x">>, <<"v", "a", "x">>, <<"v", "a", "y">>, <<"v", "g", "x">>, <<"v", "a", "g", "x">>,
             <<"w", "x">>, <<"o", "x">>}
TheLinks == [p \in {<<"v", "l">>, <<"v", "m">>, <<"w", "n">>, <<"o", "k">>, <<"w", "d">>} |->
                CASE p = <<"v", "l">> -> <<"w", "b">> [] p = <<"v", "m">> -> <<"o">>
                  [] p = <<"w", "n">> -> <<"v", "a">> [] p = <<"o", "k">> -> <<"v", "l">> [] OTHER -> <<"z">>]

INSTANCE VaultReads WITH Roots <- TheRoots, Names <- TheNames, Dirs <- TheDirs, Files <- TheFiles, Links <- TheLinks

Paths == UNION {[1..n -> {"a", "b", "l", "m", "n", "x", "k", "d", "z"}] : n \in 0..2}
Raw(name, form, path) == [name |-> name, form |-> form, path |-> path]
Absolute == {Raw("", "absolute", <<r>> \o p) : r \in {"v", "w", "o"}, p \in Paths}
Others == {Resolve(r) : r \in Absolute}
Raws == {Raw(n, "relative", p) : n \in {"", "vv", "ww", "zz"}, p \in Paths}
    \cup Absolute \cup {Raw("vv", r.form, r.path) : r \in Absolute}
    \cup {Raw(n, f, << >>) : n \in {"", "vv"}, f \in {"empty", "traversal", "windows"}}

P == <<1>>
Q == <<2, 1>>
Limits == {[kind |-> "none"]} \cup {[kind |-> k, n |-> n] : k \in {"head", "tail"}, n \in 0..3}
    \cup {[kind |-> "range", from |-> r[1], to |-> r[2]] : r \in {ab \in (1..3) \X (1..3) : ab[1] <= ab[2]}}
Contents == {[kind |-> k, lines |-> ls] : k \in {"file", "dir", "absent"},
                ls \in {<< >>, <<P>>, <<P, Q>>, <<P, P, Q>>, <<P, <<0>> >>}}

Patterns == {[kind |-> k, name |-> n] : k \in {"dir", "below", "file"}, n \in {"g", "a", "x"}}
Walks == {<<top, ps, names>> : top \in {<<"v">>, <<"v", "a">>}, ps \in {s \in SUBSET Patterns : Cardinality(s) <= 2},
                               names \in {{"x"}, {"x", "g"}}}

\* Batches of up to three paths, the files of reads, and what a reader may ask for.
Items == {[valid |-> v, root |-> r, kind |-> "file", lines |-> ls] :
             v \in BOOLEAN, r \in 1..2, ls \in {<< >>, <<P>>, <<P, Q>>, <<Q, Q>>, <<P, <<0>> >>, <<Q, Q, P>>}}
    \cup {[valid |-> TRUE, root |-> 1, kind |-> k, lines |-> << >>] : k \in {"dir", "absent"}}
Batches == UNION {[1..n -> {i \in Items : i.valid \/ (i.root = 1 /\ i.lines = << >>)}] : n \in 0..3}
Given == {[k \in S |-> IF k = "range" THEN r ELSE n] : S \in SUBSET {"head", "tail", "range"},
             r \in (0..3) \X (0..3), n \in 0..2}

\* Texts of up to three lines of characters of one to three bytes, and its bounds.
Lines == {<<1>>, <<2, 1>>, <<3, 3, 1>>, <<1, 2, 3, 1>>}
LineLists == UNION {[1..n -> Lines] : n \in 0..3}
Bounds == 0..12

=============================================================================
