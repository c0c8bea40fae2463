----------------------------- MODULE Retrieval -----------------------------
(***************************************************************************)
(* What query_text and query_semantic find (contextos-search: chunk.rs,    *)
(* document.rs, text.rs, sync.rs, vector_store.rs, service.rs): how a note *)
(* is cut into chunks under its headings, how a query is scoped in the two *)
(* indexes, and how stale the text index says it is.                       *)
(*                                                                         *)
(* A note is a sequence of lines; a line has the lengths of its words, and *)
(* a heading a level and a text as well.  A path is a sequence of names.   *)
(***************************************************************************)
EXTENDS Integers, Sequences, FiniteSets, SequencesExt, FiniteSetsExt

CONSTANTS TARGET_MIN_TOKENS, TARGET_MAX_TOKENS, OVERLAP_TOKENS, CHARS_PER_TOKEN,
          Lower  \* Lower[n]: the name n in ASCII lower case

-----------------------------------------------------------------------------
(* Sections.                                                                *)

\* detect_atx_heading, outside fences; a fence line opens or closes whatever
\* kind of fence the other one had.
InFence(note, i) == Cardinality({j \in 1..i - 1 : note[j].kind = "fence"}) % 2 = 1
IsHeading(note, i) == note[i].kind = "heading" /\ ~InFence(note, i)

\* Mutant: a heading closes those above its level only.
MutClosed(trail, level) == SelectSeq(trail, LAMBDA h : h.level <= level)

\* A heading closes those of its own level and below.
Closed(trail, level) == SelectSeq(trail, LAMBDA h : h.level < level)

Words(note, i) == [w \in DOMAIN note[i].words |-> [line |-> i, at |-> w, len |-> note[i].words[w]]]

\* flush_section: a section with prose is kept, under the texts of its trail.
Flushed(state) ==
    IF state.body = << >> THEN state.sections
    ELSE Append(state.sections, [trail |-> [h \in DOMAIN state.trail |-> state.trail[h].text],
                                 words |-> state.body])

\* parse_sections.
Sections(note) ==
    LET Line(state, i) ==
            IF IsHeading(note, i)
            THEN [trail |-> Append(Closed(state.trail, note[i].level), note[i]),
                  body |-> << >>, sections |-> Flushed(state)]
            ELSE [state EXCEPT !.body = @ \o Words(note, i)]
    IN  Flushed(FoldLeft(Line, [trail |-> << >>, body |-> << >>, sections |-> << >>],
                         [i \in DOMAIN note |-> i]))

-----------------------------------------------------------------------------
(* Chunks.                                                                  *)

\* The tokens of words s to e, joined by single spaces.
Tokens(words, s, e) ==
    LET chars == FoldLeft(LAMBDA n, w : n + w.len, e - s, SubSeq(words, s, e))
    IN  (chars + CHARS_PER_TOKEN - 1) \div CHARS_PER_TOKEN

\* The last word of the chunk that starts at s: one word is always taken.
EndFrom(words, s) ==
    Max({e \in s..Len(words) : \A x \in s + 1..e : Tokens(words, s, x) <= TARGET_MAX_TOKENS})

\* The next chunk starts back in this one, as far as the overlap allows.
StartAfter(words, s, e) ==
    Min({b \in s + 1..e + 1 : \A x \in b..e : Tokens(words, x, e) <= OVERLAP_TOKENS})

RECURSIVE RangesFrom(_, _)
RangesOf(words, s, e) ==
    <<[from |-> s, to |-> e]>> \o (IF e = Len(words) THEN << >> ELSE RangesFrom(words, StartAfter(words, s, e)))
RangesFrom(words, s) == RangesOf(words, s, EndFrom(words, s))

\* A remainder below the minimum joins the chunk before it.
Folded(ranges, words) ==
    LET last == Last(ranges)
        kept == Front(ranges)
    IN  IF Len(ranges) > 1 /\ Tokens(words, last.from, last.to) < TARGET_MIN_TOKENS
        THEN [kept EXCEPT ![Len(kept)].to = last.to] ELSE ranges

\* split_section_words.
Ranges(words) == Folded(RangesFrom(words, 1), words)

\* chunk_document: the index of a chunk is its ordinal.
Cut(section, ranges) ==
    [r \in DOMAIN ranges |-> [trail |-> section.trail, words |-> SubSeq(section.words, ranges[r].from, ranges[r].to)]]

Chunks(note) == FoldLeft(LAMBDA out, section : out \o Cut(section, Ranges(section.words)), << >>, Sections(note))

-----------------------------------------------------------------------------
(* Headings in the text index.                                              *)

\* extract_headings.
Headings(note) == SelectSeq([i \in DOMAIN note |-> i], LAMBDA i : IsHeading(note, i))

\* heading_before: what a hit in line i is shown under.
HeadingBefore(note, i) ==
    LET above == SelectSeq(Headings(note), LAMBDA h : h <= i)
    IN  IF above = << >> THEN << >> ELSE <<note[Last(above)].text>>

\* Both tools cut a note the same way, and as it reads: every word outside the
\* headings is in a chunk; the words of a chunk follow one another under one
\* trail, that of the headings still open where they stand, whose last is the
\* heading query_text shows there; a chunk keeps to its size unless one word or
\* a short remainder exceeds it, and repeats no more than the overlap.
Above(note, i) == {h \in 1..i : IsHeading(note, h)}
Open(note, i) == {h \in Above(note, i) : \A g \in Above(note, i) : g > h => note[g].level > note[h].level}
TrailAt(note, hs) == [h \in DOMAIN hs |-> note[hs[h]].text]

UnderHeadings(note, chunk) ==
    \A w \in DOMAIN chunk.words : LET i == chunk.words[w].line IN
        /\ chunk.trail = TrailAt(note, SetToSortSeq(Open(note, i), <))
        /\ HeadingBefore(note, i) = SubSeq(chunk.trail, Max({1, Len(chunk.trail)}), Len(chunk.trail))

WithinSize(note, chunk, next) ==
    Len(chunk.words) > 1 /\ Above(note, next.words[1].line) = Above(note, chunk.words[1].line)
        => Tokens(chunk.words, 1, Len(chunk.words)) <= TARGET_MAX_TOKENS

Covers(prose, chunks, starts, ends) ==
    /\ UNION {starts[c]..ends[c] : c \in DOMAIN chunks} = DOMAIN prose
    /\ \A c \in DOMAIN chunks : chunks[c].words = SubSeq(prose, starts[c], ends[c])
    /\ \A c \in 1..Len(chunks) - 1 :
         /\ starts[c] < starts[c + 1]
         /\ starts[c + 1] <= ends[c] => Tokens(prose, starts[c + 1], ends[c]) <= OVERLAP_TOKENS

InOrder(prose, chunks, starts) ==
    Covers(prose, chunks, starts, [c \in DOMAIN chunks |-> starts[c] + Len(chunks[c].words) - 1])

Faithful(note, prose, chunks) ==
    /\ InOrder(prose, chunks, [c \in DOMAIN chunks |-> SelectInSeq(prose, LAMBDA w : w = chunks[c].words[1])])
    /\ \A c \in DOMAIN chunks : UnderHeadings(note, chunks[c])
    /\ \A c \in DOMAIN chunks : c + 1 \in DOMAIN chunks => WithinSize(note, chunks[c], chunks[c + 1])

ChunksFollowHeadings(note) ==
    Faithful(note, FoldLeft(LAMBDA ws, i : IF IsHeading(note, i) THEN ws ELSE ws \o Words(note, i),
                            << >>, [i \in DOMAIN note |-> i]), Chunks(note))

-----------------------------------------------------------------------------
(* The vectors of a list of chunks, from a provider.                        *)

\* read_bounded_body, embed: an answer has a fault, or entries in the order the provider
\* wrote them, each the index of a chunk and a vector; one sort puts them in order.
ByIndex(entries) ==
    LET sooner(a, b) == entries[a].index < entries[b].index \/ (entries[a].index = entries[b].index /\ a < b)
    IN [i \in DOMAIN entries |-> entries[SetToSortSeq(DOMAIN entries, sooner)[i]].vector]

\* embed: known is the dimension of the first vectors that were accepted, 0 before; a refused
\* answer leaves no vectors.
Provided(chunks, answer, known) ==
    IF chunks = 0 THEN [vectors |-> << >>, known |-> known]
    ELSE IF answer.fault # "none" \/ Len(answer.entries) # chunks THEN [vectors |-> << >>, known |-> known]
    ELSE LET vectors == ByIndex(answer.entries)
             observed == vectors[1].dimension
         IN IF (\E i \in DOMAIN vectors : vectors[i].dimension # observed) \/ known \notin {0, observed}
            THEN [vectors |-> << >>, known |-> known]
            ELSE [vectors |-> vectors, known |-> observed]

\* Vectors are those of their chunks whatever the order of the answer, and every two
\* answers that are accepted have one dimension.
VectorsAreTheChunks(chunks, first, second) ==
    LET one == Provided(chunks, first, 0)
        two == Provided(chunks, second, one.known)
        Indexed(answer) == {answer.entries[i].index : i \in DOMAIN answer.entries} = 0..chunks - 1
    IN /\ two.vectors # << >> /\ Indexed(second) => \A c \in 1..chunks : two.vectors[c].of = c
       /\ one.vectors # << >> /\ two.vectors # << >> =>
             \A i, j \in 1..chunks : one.vectors[i].dimension = two.vectors[j].dimension

-----------------------------------------------------------------------------
(* The vectors of one note (embed_path, upsert, existing_hash, prune).      *)

\* A row stands for the vector, the headings and the hash stored under an
\* ordinal; the hash is that of the text alone.
TextOf(chunk) == [w \in DOMAIN chunk.words |-> chunk.words[w].len]
Row(chunk) == [text |-> TextOf(chunk), trail |-> chunk.trail]

\* A chunk whose stored hash is its own is skipped.
Skipped(rows, chunk, c) == c \in DOMAIN rows /\ rows[c].text = TextOf(chunk)

Upserted(rows, chunks) ==
    [c \in DOMAIN rows \cup DOMAIN chunks |->
        IF c \in DOMAIN chunks /\ ~Skipped(rows, chunks[c], c) THEN Row(chunks[c]) ELSE rows[c]]

\* Mutant: rows beyond the last chunk stay.
MutPruned(rows, n) == rows

\* prune_ordinals_at_or_beyond.
Pruned(rows, n) == [c \in DOMAIN rows \cap 1..n |-> rows[c]]

\* embed_path, when the embedder and the store answer.
Embed(rows, chunks) == Pruned(Upserted(rows, chunks), Len(chunks))

\* reread_chunk_text: nothing when the note has no chunk at that ordinal any
\* more, and else the chunk it has there now.
Reread(chunks, c) == IF c \in DOMAIN chunks THEN <<TextOf(chunks[c])>> ELSE << >>

\* The rows of a note whose last version has the chunks of all[Len(all)].
ReadBack(all, rows) ==
    LET last == Len(all) IN
    /\ DOMAIN rows = DOMAIN all[last]
    /\ \A c \in DOMAIN rows :
         /\ Reread(all[last], c) = <<rows[c].text>>
         /\ \E v \in 1..last : /\ \A u \in v..last : Reread(all[u], c) = Reread(all[last], c)
                             /\ rows[c].trail = all[v][c].trail

\* A note is embedded in several versions.  Afterwards each row has a chunk to
\* be read back, with the text its vector was made of; its headings are those
\* of this chunk in a version since which the text under the ordinal is the
\* same.  (So they are not always those of the last version.)
After(all) == ReadBack(all, FoldLeft(Embed, << >>, all))
HitsReadBack(versions) == After([v \in DOMAIN versions |-> Chunks(versions[v])])

-----------------------------------------------------------------------------
(* The scope of a query.                                                    *)

\* segment_facet and facet_clause: a path, or a tag, and all below it.
Within(dir, path) == IsPrefix(dir, path)

\* json_term: a list, an object and null cannot be looked for.
FieldOk(fields) == \A f \in DOMAIN fields : fields[f] \notin {"null", "list", "object"}

\* TantivyIndex::query, over the notes that match its text, best first.
QueryText(q, found) ==
    IF ~FieldOk(q.fields) THEN [error |-> "InvalidFieldFilter", hits |-> << >>]
    ELSE LET hits == SelectSeq(found, LAMBDA note :
                 /\ Within(q.prefix, note.path)
                 /\ \A dir \in q.excluded : ~Within(dir, note.path)
                 /\ \A tag \in q.tags : \E has \in note.tags : Within(tag, has)
                 /\ \A f \in DOMAIN q.fields : f \in DOMAIN note.fields /\ q.fields[f] \in note.fields[f])
         IN  [error |-> "", hits |-> SubSeq(hits, 1, Min({Len(hits), Max({q.limit, 1})}))]

Lowered(path) == [i \in DOMAIN path |-> Lower[path[i]]]

\* Mutant: the path itself is not in the scope it names.
MutLike(dir, path) == Len(path) > Len(dir) /\ IsPrefix(Lowered(dir), Lowered(path))

\* push_segment_scope_clause: the path itself, or LIKE, which takes upper and
\* lower case for the same.
Like(dir, path) == path = dir \/ (Len(path) > Len(dir) /\ IsPrefix(Lowered(dir), Lowered(path)))

\* similar: the vector table looks among the rows of the prefix, a list it is given,
\* takes the k nearest of these, and what NOT IN excludes is then taken from them.
Similar(q, near) ==
    LET usable == SelectSeq(near, LAMBDA hit : q.prefix = << >> \/ Like(q.prefix, hit.path))
        nearest == SubSeq(usable, 1, Min({Len(usable), q.limit}))
    IN  SelectSeq(nearest, LAMBDA hit : \A dir \in q.excluded : ~Like(dir, hit.path))

\* query_semantic: what can no longer be read back is left out, and a note that is there
\* and cannot be read as text ends the query.  files has a note's text, or nothing for one
\* that is no text, and cut the chunks of a text.
QuerySemantic(q, near, files, cut) ==
    LET hits == Similar(q, near)
        there(hit) == hit.path \in DOMAIN files
        read(hit) == there(hit) /\ Reread(cut[files[hit.path]], hit.ordinal) # << >>
    IN  IF \E n \in DOMAIN hits : there(hits[n]) /\ files[hits[n].path] = "no text"
        THEN [error |-> "DocumentRead", hits |-> << >>]
        ELSE [error |-> "", hits |-> SelectSeq(hits, read)]

\* No path is in a scope but for upper and lower case.
OneCase(q, near) ==
    \A dir \in {q.prefix} \cup q.excluded : \A i \in DOMAIN near :
        Within(Lowered(dir), Lowered(near[i].path)) => Within(dir, near[i].path)

\* What query_text takes for its scope, without and with the exclusions.
TextScope(q, near, excluded) ==
    QueryText([q EXCEPT !.limit = Len(near), !.excluded = excluded], near).hits

\* How many of the nearest are excluded.
TakenUp(q, near) ==
    LET scope == TextScope(q, near, {})
        nearest == SubSeq(scope, 1, Min({Len(scope), q.limit}))
    IN  Len(nearest) - Len(TextScope(q, nearest, q.excluded))

\* Both tools have one scope.  A query that succeeds shows, of the chunks that query_text
\* would find in it, the nearest that can be read back, and the places of those it shows
\* are as many as its limit, or as the scope has, but for one less by each excluded chunk
\* that is among the nearest: an exclusion does cost a place.  It fails when one of the
\* notes it would show is no text.
Shown(q, near, scope, files, cut, answer) ==
    LET places == Min({Len(TextScope(q, near, {})), q.limit}) - TakenUp(q, near)
        best == SubSeq(scope, 1, places)
        readable(hit) == /\ hit.path \in DOMAIN files /\ files[hit.path] # "no text"
                         /\ hit.ordinal \in DOMAIN cut[files[hit.path]]
    IN  /\ answer.error = "" => answer.hits = SelectSeq(best, readable)
        /\ answer.error # "" <=> \E n \in DOMAIN best : /\ best[n].path \in DOMAIN files
                                                       /\ files[best[n].path] = "no text"

\* Where names differ in case only, what query_semantic shows is within its prefix when
\* case is disregarded, and not excluded when it is regarded.
WithinScope(q, hit) ==
    /\ Within(Lowered(q.prefix), Lowered(hit.path))
    /\ \A dir \in q.excluded : ~Within(dir, hit.path)

AnswersInScope(q, near, files, cut) ==
    LET answer == QuerySemantic(q, near, files, cut)
    IN  /\ \A hit \in ToSet(answer.hits) : WithinScope(q, hit)
        /\ OneCase(q, near) => Shown(q, near, TextScope(q, near, q.excluded), files, cut, answer)

-----------------------------------------------------------------------------
(* The state of the text index (refresh, text_stale_estimate).              *)

\* A file has a time, a text, and whether it can be read as text; an entry has
\* the time and the text of when it was indexed.
Entry(file) == [time |-> file.time, text |-> file.text]

\* Mutant: what is gone is not counted.
MutStaleCount(files, entries) ==
    Cardinality({n \in DOMAIN files : n \notin DOMAIN entries \/ entries[n].time # files[n].time})

\* text_stale_estimate.
StaleCount(files, entries) ==
    Cardinality({n \in DOMAIN files : n \notin DOMAIN entries \/ entries[n].time # files[n].time})
    + Cardinality(DOMAIN entries \ DOMAIN files)

\* TextSync::refresh over files that stay as they are: the index and the report.
Refresh(files, entries) ==
    LET kept == DOMAIN files \cap DOMAIN entries
        same == {n \in kept : entries[n].time = files[n].time}
        read == {n \in DOMAIN files \ same : files[n].readable}
        gone == DOMAIN entries \ DOMAIN files
    IN  [entries |-> [n \in kept \cup read |-> IF n \in read THEN Entry(files[n]) ELSE entries[n]],
         scanned |-> Cardinality(same \cup read),
         reindexed |-> Cardinality({n \in read : n \notin kept \/ entries[n].text # files[n].text}),
         removed |-> Cardinality(gone)]

\* What the status calls stale is what the next refresh has to do: it reindexes
\* or removes no more than that, and after it only files that cannot be read
\* are stale, and a second refresh has nothing to do.
StaleIsRefreshed(files, entries) ==
    LET once == Refresh(files, entries)
        twice == Refresh(files, once.entries)
        unreadable == {n \in DOMAIN files : ~files[n].readable}
    IN  /\ once.reindexed + once.removed <= StaleCount(files, entries)
        /\ StaleCount(files, entries) = 0 => once.entries = entries
        /\ StaleCount(files, once.entries) <= Cardinality(unreadable)
        /\ twice.reindexed = 0 /\ twice.removed = 0 /\ twice.entries = once.entries

-----------------------------------------------------------------------------
(* query_index_rebuild, call after call, and query_index_status.            *)

\* rebuild_with_budget: the indexes a target stands for, in their order.
Wanted(target, on) ==
    IF target # "all" THEN <<target>>
    ELSE <<"text", "graph">> \o (IF "semantic" \in on THEN <<"semantic">> ELSE << >>)

\* rebuild_semantic: the notes are walked only when nothing is queued.
Seeded(queue, notes) == IF queue = << >> THEN notes ELSE queue

\* drain_until: what a budget allows for, and at least one path.
Drained(queue, budget) == SubSeq(queue, 1, Min({Len(queue), Max({budget, 1})}))

\* enqueue.
Enqueue(queue, note) == IF Contains(queue, note) THEN queue ELSE Append(queue, note)

\* A call: an index that is off ends it, after those before it.  A service has the
\* indexes that are on, its notes in their order and what is queued.
Rebuild(service, target, budget) ==
    LET wanted == Wanted(target, service.on)
        off == SelectInSeq(wanted, LAMBDA index : index \notin service.on)
        ran == IF off = 0 THEN wanted ELSE SubSeq(wanted, 1, off - 1)
        seeded == Seeded(service.queue, service.notes)
        taken == Drained(seeded, budget)
    IN  IF Contains(ran, "semantic")
        THEN [ran |-> ran, off |-> off, taken |-> taken, queue |-> SubSeq(seeded, Len(taken) + 1, Len(seeded))]
        ELSE [ran |-> ran, off |-> off, taken |-> << >>, queue |-> service.queue]

\* SemanticRebuildToolResult: what the caller is told, whatever failed.
UpToDate(answer) == Contains(answer.ran, "semantic") /\ answer.queue = << >>

\* status: stale is what is queued.
Pending(service) == IF "semantic" \in service.on THEN Len(service.queue) ELSE 0

\* A call's answer: what fails is not queued again, it is missed, and the answer counts it.
Called(s, answer) ==
    LET failed == ToSet(answer.taken) \cap s.failing \cap s.stale
    IN  [s EXCEPT !.queue = answer.queue, !.stale = @ \ (ToSet(answer.taken) \ failed),
                  !.unseen = @ \ ToSet(answer.taken), !.missed = (@ \ ToSet(answer.taken)) \cup failed,
                  !.taken = @ \o answer.taken, !.failed = Cardinality(failed), !.told = UpToDate(answer)]

\* What happens to a vault between and by the calls: a note is written through the
\* server, or by somebody else, which nobody is told of before the next walk; or a
\* call is made.
Happens(s, step) ==
    CASE step.kind = "write" -> [s EXCEPT !.queue = Enqueue(@, step.note), !.stale = @ \cup {step.note},
                                          !.missed = @ \ {step.note}]
      [] step.kind = "outside" -> [s EXCEPT !.stale = @ \cup {step.note}, !.unseen = @ \cup {step.note}]
      [] step.kind = "call" -> Called(s, Rebuild(s, step.target, step.budget))

\* The states of a service before the first step and after each.
Continues(states, steps) ==
    LET asked == Seeded(states[0].queue, states[0].notes)
        ends == {k \in DOMAIN steps : states[k].told}
        end == Min(ends)
    IN  /\ \A k \in DOMAIN steps : \A s \in {states[k]} :
            /\ s.stale \subseteq ToSet(s.queue) \cup s.missed \cup s.unseen /\ IsInjective(s.queue)
            /\ s.told /\ steps[k].kind = "call" => s.stale = s.missed \cup s.unseen /\ Pending(s) = 0
            /\ steps[k].kind = "call" /\ states[k - 1].queue = << >> /\ s.told =>
                  s.unseen = {} /\ Cardinality(s.stale) = s.failed
        /\ ends # {} /\ (\A k \in 1..end : steps[k].kind = "call") => states[end].taken = asked
        /\ ends = {} /\ (\A k \in DOMAIN steps : steps[k].kind = "call") /\ "semantic" \in states[0].on =>
               Len(steps) < Len(asked) \/ \E k \in DOMAIN steps : steps[k].target # "semantic"

\* A caller that goes on until nothing remains has every note embedded once, or, when
\* notes were queued before, exactly these.  When it is told that the index is up to date,
\* what is stale is what was missed, in this call, an earlier one or before, and what others
\* wrote since the notes were walked: the index is up to date when both are none, and else
\* it is not.  An answer that has walked the notes and says so counts all that is stale.
RebuildContinues(service, steps) ==
    Continues([k \in 0..Len(steps) |-> FoldLeft(Happens, service, SubSeq(steps, 1, k))], steps)

=============================================================================
