---------------------------- MODULE MCRetrieval ----------------------------
(***************************************************************************)
(* Retrieval over short notes, with chunks of up to four tokens of two     *)
(* characters, and over the vectors of two notes and queries about them.   *)
(***************************************************************************)
EXTENDS Integers, Sequences, FiniteSets

SmallLetters == [n \in {"a", "A", "b", "B", "c", "d"} |-> CASE n = "A" -> "a" [] n = "B" -> "b" [] OTHER -> n]

INSTANCE Retrieval WITH TARGET_MIN_TOKENS <- 2, TARGET_MAX_TOKENS <- 4, OVERLAP_TOKENS <- 1,
                        CHARS_PER_TOKEN <- 2, Lower <- SmallLetters

Prose(lengths) == [kind |-> "prose", words |-> lengths]
Fence == [kind |-> "fence", words |-> <<3>>]
Heading(level, text) == [kind |-> "heading", level |-> level, text |-> text, words |-> <<1, 1>>]

\* One paragraph of up to six words, one of them longer than a chunk.
Flat == {<<Prose(ws)>> : ws \in UNION {[1..n -> {1, 2, 9}] : n \in 0..6}}
Lines == {Prose(<< >>), Prose(<<2, 5, 1>>), Fence, Heading(1, "A"), Heading(2, "B"), Heading(2, "C")}
Notes == Flat \cup UNION {[1..n -> Lines] : n \in 1..4}

\* Versions of a note that share some chunks, and some headings.
Versions == {<<Prose(ws)>> : ws \in {<< >>, <<2>>, <<2, 5, 1>>, <<2, 5, 1, 5>>}}
    \cup {<<Heading(1, t), Prose(ws)>> : t \in {"A", "B"}, ws \in {<<2>>, <<2, 5, 1>>}}
    \cup {<<Prose(ws), Heading(1, "A"), Prose(<<2>>)>> : ws \in {<<2>>, <<2, 5, 1>>}}
Histories == UNION {[1..n -> Versions] : n \in 1..3}

\* The nearest chunks, best first: of notes whose names differ in case, of one
\* that is gone, of one that has become shorter and of one that is no text any more.
Chunk(path, ordinal, tags) == [path |-> path, ordinal |-> ordinal, tags |-> tags, fields |-> << >>]
TheFiles == [p \in {<<"a", "b">>, <<"A", "b">>, <<"a">>, <<"b">>, <<"a", "d">>} |->
                IF p = <<"a", "d">> THEN "no text" ELSE "text"]
TheCuts == [t \in {"text"} |-> Chunks(<<Prose(<<2, 5, 1>>)>>)]
Hits == {Chunk(<<"a", "b">>, 1, {<<"a">>}), Chunk(<<"A", "b">>, 1, {}), Chunk(<<"a">>, 1, {<<"a", "b">>}),
         Chunk(<<"a", "c">>, 1, {<<"a">>}), Chunk(<<"a">>, 9, {}), Chunk(<<"b">>, 1, {}), Chunk(<<"a", "d">>, 1, {})}
Nearest == {n \in [1..3 -> Hits] : \A i, j \in 1..3 : i # j => n[i] # n[j]}
Asked(prefix, excluded, tags, limit) ==
    [prefix |-> prefix, excluded |-> excluded, tags |-> tags, fields |-> << >>, limit |-> limit]
Queries == {Asked(p, x, {}, k) : p \in {<< >>, <<"a">>, <<"A">>, <<"a", "b">>},
                                 x \in {{}, {<<"a">>}, {<<"A">>}, {<<"a", "B">>}, {<<"b">>, <<"a", "d">>}}, k \in 0..2}

\* Two files, and what the index has of two notes.
States == {[time |-> t, text |-> x, readable |-> r] : t \in 1..2, x \in {"x", "y"}, r \in BOOLEAN}
Stored == {[time |-> t, text |-> x] : t \in 1..2, x \in {"x", "y"}}
FileSets == UNION {[ns -> States] : ns \in SUBSET {"n", "m"}}
EntrySets == UNION {[ns -> Stored] : ns \in SUBSET {"n", "m"}}

\* Answers of a provider to two chunks, of two dimensions.
Entries == {[index |-> i, vector |-> [of |-> i + 1, dimension |-> d]] : i \in 0..1, d \in 1..2}
Answers == {[fault |-> "none", entries |-> es] : es \in UNION {[1..n -> Entries] : n \in 0..3}}
    \cup {[fault |-> "provider", entries |-> << >>]}

\* Services of three notes, of which one may fail and may have been missed, and up to four steps.
TheNotes == <<"k", "m", "n">>
Service(on, queue, failing, missed) ==
    [on |-> on, notes |-> TheNotes, queue |-> queue, failing |-> failing, missed |-> missed,
     stale |-> ToSet(queue) \cup missed, unseen |-> {}, taken |-> << >>, failed |-> 0, told |-> FALSE]
Services ==
    {Service(o, q, f, {}) : o \in {{"semantic"}, {"text", "semantic"}, {"text", "graph", "semantic"}, {"text", "graph"}},
                            q \in {<< >>, <<"m">>, <<"n", "k">>}, f \in {{}, {"m"}}}
    \cup {Service({"text", "semantic"}, q, {"m"}, {"m"}) : q \in {<< >>, <<"n", "k">>}}
Step(k, n, t, b) == [kind |-> k, note |-> n, target |-> t, budget |-> b]
Steps == {Step("call", "", t, b) : t \in {"semantic", "all"}, b \in {0, 2}}
    \cup {Step(k, n, "", 0) : k \in {"write", "outside"}, n \in {"m", "n"}}
Schedules == UNION {[1..n -> Steps] : n \in 1..3}
    \cup {s \in [1..4 -> Steps] : \A i \in {1, 2} : s[i].target # "all" /\ s[i].note # "n"}

=============================================================================
