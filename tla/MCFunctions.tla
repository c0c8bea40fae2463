---------------------------- MODULE MCFunctions ----------------------------
(***************************************************************************)
(* MCFilesAndText and the sequential algorithms for TLC, the latter over all *)
(* the inputs their MC modules list: a behaviour runs one component, or takes *)
(* one input of one algorithm, or the steps of the graph's replicas.         *)
(***************************************************************************)
EXTENDS MCFilesAndText

VARIABLE input  \* of an algorithm: nothing yet, or its input

Query == INSTANCE MCBaseQuery
Document == INSTANCE MCBaseDocument
Reads == INSTANCE MCVaultReads
Found == INSTANCE MCRetrieval
Config == INSTANCE MCConfiguration
Indexes == INSTANCE MCManagedIndex
Replay == INSTANCE GraphReplay WITH Names <- <<"a", "b", "c">>, Retention <- 2
Canvas == INSTANCE MCCanvasDocument
NoteText == INSTANCE MCNoteLinks
Sky == INSTANCE MCEphemeris
Git == INSTANCE GitInspection

\* GitInspection's inputs: histories of up to three commits of two notes, and of two
\* commits of three; repositories of one commit; texts of characters of one to three
\* bytes and bytes that are none, with a notice of three bytes; ignore files.
TreesOf(paths) == UNION {[ps -> {"x", "y"}] : ps \in SUBSET paths}
Small == TreesOf({<<"a">>, <<"d", "a">>})
Commits == UNION {[1..n -> Small] : n \in 1..3}
           \cup [1..2 -> TreesOf({<<"a">>, <<"d", "a">>, <<"d", "b">>})]
Filters == {<< >>, <<"a">>, <<"d">>, <<"d", "a">>}
Repositories ==
    {[head |-> h, index |-> i, files |-> f, ignored |-> g] :
        h, i, f \in Small, g \in SUBSET {<<"d", "a">>}}
Bytes == UNION {[1..n -> {0, 1, 2, 3}] : n \in 0..4}
Notice == 3
IgnoreFiles == UNION {[1..n -> {".contextos/", ".obsidian/workspace*", "x"}] : n \in 0..4}

\* GraphReplay's: two notes, a name no note has, a log of two generations and a few
\* mutations by two processes; After are the states that follow one.
MaxGeneration == 3
Link(name) == [to |-> name, kind |-> "link"]
Embed(name) == [to |-> name, kind |-> "embed"]
LinkLists == [n \in {"a", "b"} |->
    {<< >>, <<Link("a")>>, IF n = "a" THEN <<Link("b"), Embed("c")>> ELSE <<Link("c"), Embed("c")>>}]
After(st) ==
    LET last == Replay!Generation(st.store)
        who == IF st = Replay!Start THEN {"p"} ELSE Replay!Processes \* of two that are alike, p begins
    IN  {Replay!Query(st, p) : p \in who}
        \cup {Replay!Open(st, p, s, s) : p \in who, s \in {g \in 1..last : g + 1 >= last}}
        \cup {Replay!Open(st, "q", s - 1, s) : s \in {last} \ {0}}
        \cup IF last = MaxGeneration THEN {}
             ELSE {Replay!UpsertNote(st, p, "a", l) : p \in who, l \in LinkLists["a"]}
                  \cup {Replay!UpsertNote(st, p, "b", l) : p \in who, l \in LinkLists["b"]}
                  \cup {Replay!RemoveNote(st, p, n) : p \in who, n \in DOMAIN st.vault}
                  \cup {Replay!Rebuild(st, p) : p \in who}

Algorithms ==
    {"query", "document", "path", "read", "walk", "note", "history", "scope", "stale", "config",
     "index", "replay", "canvas", "doctor", "links", "quotes", "horizon", "embed", "log", "status",
     "diff", "ignore", "preview", "batch", "ask", "rebuild"}

AllInit == input = << >> /\ Beside(Components \cup Algorithms)

AtRest == UNCHANGED <<part, vars, textVars, webVars, hostVars>>

Take(name, inputs) == part = name /\ input = << >> /\ (\E i \in inputs : input' = <<i>>) /\ AtRest

TakeQuery == \E k \in DOMAIN Query!DefinitionSets : Take("query", Query!DefinitionSets[k])
TakeDocument == Take("document", Document!Edits)
TakePath == Take("path", Reads!Raws)
TakeRead == Take("read", Reads!Contents \X Reads!Limits)
TakeWalk == Take("walk", Reads!Walks)
TakeNote == Take("note", Found!Notes)
TakeHistory == Take("history", Found!Histories)
TakeScope == Take("scope", Found!Queries \X Found!Nearest)
TakeStale == Take("stale", Found!FileSets \X Found!EntrySets)
TakeConfig == Take("config", Config!Documents)
TakeIndex == Take("index", Indexes!Vaults)
TakeCanvas == Take("canvas", Canvas!Sources \X Canvas!OpLists)
TakeDoctor == Take("doctor", Indexes!Consultations \X Indexes!Scopes \X BOOLEAN)
TakeLinks == Take("links", (SUBSET NoteText!TheFiles) \X NoteText!LinkNotes)
TakeQuotes == Take("quotes", NoteText!Contexts \X NoteText!Lines)
TakeHorizon == Take("horizon", Sky!Ranges)
TakePreview == Take("preview", Reads!LineLists \X Reads!Bounds)
TakeBatch == Take("batch", Reads!Batches \X {<<2, 1>>, <<1, 1>>})
TakeAsk == Take("ask", Reads!Items \X Reads!Given)
TakeRebuild == Take("rebuild", Found!Services \X Found!Schedules)
TakeEmbed == Take("embed", Found!Answers \X Found!Answers)
TakeLog == Take("log", Commits)
TakeStatus == Take("status", Repositories)
TakeDiff == Take("diff", Bytes \X (1..13))
TakeIgnore == Take("ignore", IgnoreFiles)
StepReplay ==
    /\ part = "replay"
    /\ input # << >> => ~input[1].lost
    /\ \E st \in After(IF input = << >> THEN Replay!Start ELSE input[1]) : input' = <<st>>
    /\ AtRest

AllNext ==
    \/ MCNext /\ UNCHANGED input
    \/ TakeQuery \/ TakeDocument \/ TakePath \/ TakeRead \/ TakeWalk
    \/ TakeNote \/ TakeHistory \/ TakeScope \/ TakeStale \/ TakeConfig \/ TakeIndex
    \/ TakeCanvas \/ TakeDoctor \/ TakeLinks \/ TakeQuotes \/ TakeHorizon
    \/ TakeEmbed \/ TakeLog \/ TakeStatus \/ TakeDiff \/ TakeIgnore \/ TakePreview \/ TakeBatch \/ TakeAsk \/ TakeRebuild \/ StepReplay

AllSpec == AllInit /\ [][AllNext]_<<part, input, vars, textVars, webVars, hostVars>>

On(name) == part = name /\ input # << >>

\* BaseQuery: a narrowed, sorted and cut scan answers as the whole vault would.
QueryExact == On("query") => Query!IsExact(input[1])

\* BaseDocument, CanvasDocument: an edit keeps what it does not name, and base_query can
\* read what the schema accepts after it.
EditsKeepTheRest ==
    /\ On("document") => Document!Queryable(Document!Apply(input[1][1], input[1][2]))
    /\ On("document") => Document!ViewsKept(input[1][1], input[1][2])
    /\ On("canvas") => Canvas!CanvasKept(input[1][1], input[1][2])

\* VaultReads: a file has one vault and one name, however it is written.
PathHasOneName == On("path") => Reads!OneName(input[1], Reads!Others) /\ Reads!FiltersAgree(input[1])

\* VaultReads: a limited read shows what was asked for, and listing, tree and search
\* leave out the same entries, a listed resource can be read, a preview is a beginning.
ReadsShowTheVault ==
    /\ On("read") => Reads!ReadExact(input[1][1], input[1][2], 3)
    /\ On("walk") => Reads!WalksAgree(input[1][1], input[1][2], input[1][3])
    /\ On("walk") => Reads!ResourcesAreRead(input[1][3] \cup {"l"}, input[1][2])
    /\ On("walk") => Reads!ResourcesAreRead(input[1][3] \cup {"l", "m"}, input[1][2])
    /\ On("preview") => Reads!PreviewIsBounded(input[1][1], input[1][2])
    /\ On("batch") => Reads!BatchShows(input[1][1], 5, input[1][2], 3, 4)
    /\ On("ask") => Reads!ToolShows(input[1][1], input[1][2], 5, 3, 4)

\* Retrieval: the chunks of a note cover its prose, each under its headings, and the
\* text read back for a hit is the one its vector was made of, by the provider's answer for it.
HitsReadBack ==
    /\ On("note") => Found!ChunksFollowHeadings(input[1])
    /\ On("history") => Found!HitsReadBack(input[1])
    /\ On("embed") => Found!VectorsAreTheChunks(2, input[1][1], input[1][2])

\* Retrieval: query_semantic answers in the scope that query_text answers in, less a place
\* for each excluded chunk among the nearest.
AnswersInScope == On("scope") => Found!AnswersInScope(input[1][1], input[1][2], Found!TheFiles, Found!TheCuts)

\* Retrieval: what the status calls stale is what a refresh has to do, and a caller is told
\* that the vectors are up to date when nothing is stale but what was missed or not noticed.
StaleIsRefreshed ==
    /\ On("stale") => Found!StaleIsRefreshed(input[1][1], input[1][2])
    /\ On("rebuild") => Found!RebuildContinues(input[1][1], input[1][2])

\* Configuration: an interview does to config.toml what was answered.
InterviewAsAnswered == On("config") => \A talk \in Config!Talks : Config!InterviewDoesAsAnswered(input[1], talk)

\* ManagedIndex: the reconciliation of a change makes of every table what a rebuild would.
IndexesSettle == On("index") => \A change \in Indexes!Changes : Indexes!ReconcileSettles(input[1], change)

\* GraphReplay: a process that catches up has the graph of the store, and queries answer
\* by their definitions, from the links of the vault, until one writes that read its next
\* id before its generation.
ReplicasAnswer ==
    On("replay") /\ ~input[1].lost => Replay!ReplicasAgree(input[1]) /\ Replay!QueriesExact(input[1])

\* Doctor: a repair does what was asked, once and for all.
DoctorHeals == On("doctor") => Indexes!DoctorHeals(input[1][1], input[1][2], input[1][3])

\* NoteLinks: links_read and the graph agree on what is unresolved, and quoted text has no links.
LinksAgree ==
    /\ On("links") => NoteText!LinksAgree(input[1][1], input[1][2])
    /\ On("quotes") => NoteText!QuotedIsSilent(input[1][1][1], input[1][2], input[1][1][2])

\* Ephemeris: the boundaries of a range are those of its days, and what the days say of themselves.
BoundariesAreTheDays == On("horizon") => Sky!BoundariesAreTheDays(input[1][1], input[1][2])

\* GitInspection: the log retraces the history, diff and status agree with it and with
\* each other, a cut diff says so, and the ignore rules are added once.
HistoryRetraced ==
    /\ On("log") => \A filter \in Filters :
          /\ Git!LogRetraces(input[1], filter)
          /\ \A from, to \in DOMAIN input[1] : from <= to => Git!DiffIsLogged(input[1], from, to, filter)
    /\ On("status") => Git!StatusAccounts(input[1])
    /\ On("diff") => Git!CapIsTold(input[1][1], input[1][2], Notice)
    /\ On("ignore") => Git!IgnoreSettles(input[1])

=============================================================================
