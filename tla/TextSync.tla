------------------------------ MODULE TextSync ------------------------------
(***************************************************************************)
(* The full-text index and how it follows the vault (contextos-search,     *)
(* sync.rs and text.rs).  Two ways lead into it.  The event of a tool has  *)
(* its notes indexed or removed one by one.  A query first refreshes: it   *)
(* compares the modification times of the files with those the index       *)
(* keeps, indexes what differs in one commit and removes what is gone.     *)
(* Both look at files that anyone may change in between, and several       *)
(* processes share one index, each with a reader of its own that is        *)
(* reloaded only by that process's commits.                                *)
(***************************************************************************)
EXTENDS Naturals, Sequences

CONSTANTS Proc,       \* processes that serve the vault
          Note,       \* paths of notes
          Text,       \* contents of a note
          Absent,     \* there is no such note
          MaxChange,  \* bound: changes of files, by tools and by others
          MaxQuery    \* bound: queries

VARIABLES disk,     \* each note's content and modification time
          store,    \* the index: a content and a time for some notes
          reader,   \* what each process's reader shows of it
          query,    \* the query in progress in each process
          sync,     \* the event each process is applying to the index
          clock,    \* the latest modification time
          queries   \* queries begun so far

vars == <<disk, store, reader, query, sync, clock, queries>>

Times == 0..MaxChange + 1

File == [text : Text \cup {Absent}, time : Times]

\* An entry of the index.  torn is a history variable: content and time were
\* read on both sides of a change, so they are not of one file.
Entry == [text : Text, time : Times, torn : BOOLEAN]
None == [text |-> Absent, time |-> 0, torn |-> FALSE]
Index == [Note -> Entry \cup {None}]

NoFile == [text |-> Absent, time |-> 0]

Here == {n \in Note : disk[n].text # Absent}
Empty == [n \in Note |-> None]

\* stored, files and pending are the variables of refresh, at and seen the file
\* it looks at and what it saw.  disturbed is a history variable: the notes for
\* which nothing can be promised, because they changed or were indexed by
\* another commit since the refresh began.
NoQuery == [pc |-> "idle", stored |-> Empty, files |-> {}, pending |-> Empty,
            at |-> {}, seen |-> NoFile, disturbed |-> {}]

\* todo is what the event has left to do, read the content sync_path read, with
\* the time it had, and entry what sync_path is about to index.
NoEvent == [pc |-> "idle", todo |-> << >>, read |-> NoFile, entry |-> None]
Left(todo) == [pc |-> "next", todo |-> todo, read |-> NoFile, entry |-> None]

Todo == [op : {"remove", "sync"}, note : Note]

Disturb(ns) == [p \in Proc |-> IF query[p].pc = "idle" THEN query[p]
                               ELSE [query[p] EXCEPT !.disturbed = @ \cup ns]]

-----------------------------------------------------------------------------
(* The files change.                                                        *)

Changed(f) ==
    /\ clock \in 1..MaxChange /\ clock' = clock + 1
    /\ disk' = f
    /\ query' = Disturb({n \in Note : f[n] # disk[n]})

\* Another program saves or removes a note.
OtherChange ==
    /\ \/ \E n \in Note, t \in Text :
            Changed([disk EXCEPT ![n] = [text |-> t, time |-> clock + 1]])
       \/ \E n \in Here : Changed([disk EXCEPT ![n] = NoFile])
    /\ UNCHANGED <<store, reader, sync, queries>>

\* A tool changes the vault; its event has the index updated, in this order:
\* a deleted note is removed, a moved one removed and then indexed at its
\* destination, a written one indexed.
Event(p, f, todo) ==
    /\ sync[p].pc = "idle"
    /\ Changed(f)
    /\ sync' = [sync EXCEPT ![p] = Left(todo)]
    /\ UNCHANGED <<store, reader, queries>>

ToolWrite(p) == \E n \in Note, t \in Text :
    Event(p, [disk EXCEPT ![n] = [text |-> t, time |-> clock + 1]],
          <<[op |-> "sync", note |-> n]>>)

ToolDelete(p) == \E n \in Here :
    Event(p, [disk EXCEPT ![n] = NoFile], <<[op |-> "remove", note |-> n]>>)

\* rename keeps the modification time.
ToolMove(p) == \E n \in Here, m \in Note \ Here :
    Event(p, [disk EXCEPT ![n] = NoFile, ![m] = disk[n]],
          <<[op |-> "remove", note |-> n], [op |-> "sync", note |-> m]>>)

-----------------------------------------------------------------------------
(* Commits (with_writer, index and remove of the tantivy index).            *)

\* Mutant: the reader is not reloaded after a commit.
MutReloaded(p, s) == reader

Reloaded(p, s) == [reader EXCEPT ![p] = s]

Commit(p, s) == store' = s /\ reader' = Reloaded(p, s)

-----------------------------------------------------------------------------
(* update: an event is applied.                                             *)

Advance(p) == LET rest == Tail(sync[p].todo) IN
    [sync EXCEPT ![p] = IF rest = << >> THEN NoEvent ELSE Left(rest)]

\* remove_path; and sync_path of a note that is not a file.
UpdateRemove(p) ==
    /\ sync[p].pc = "next"
    /\ LET t == Head(sync[p].todo) IN
         /\ t.op = "remove" \/ t.note \notin Here
         /\ Commit(p, [store EXCEPT ![t.note] = None])
         /\ query' = Disturb({t.note})
    /\ sync' = Advance(p)
    /\ UNCHANGED <<disk, clock, queries>>

\* sync_path reads the content first,
SyncReadContent(p) ==
    /\ sync[p].pc = "next"
    /\ LET t == Head(sync[p].todo) IN
         /\ t.op = "sync" /\ t.note \in Here
         /\ sync' = [sync EXCEPT ![p] = [pc |-> "stat", todo |-> sync[p].todo,
                                         read |-> disk[t.note], entry |-> None]]
    /\ UNCHANGED <<disk, store, reader, query, clock, queries>>

\* and then the modification time.
SyncReadTime(p) ==
    /\ sync[p].pc = "stat"
    /\ LET n == Head(sync[p].todo).note
           content == sync[p].read
           entry == [text |-> content.text, time |-> disk[n].time,
                     torn |-> content.time # disk[n].time]
       IN  /\ n \in Here
           /\ sync' = [sync EXCEPT ![p] = [pc |-> "commit", todo |-> sync[p].todo,
                                           read |-> content, entry |-> entry]]
    /\ UNCHANGED <<disk, store, reader, query, clock, queries>>

SyncCommit(p) ==
    /\ sync[p].pc = "commit"
    /\ LET n == Head(sync[p].todo).note IN
         /\ Commit(p, [store EXCEPT ![n] = sync[p].entry])
         /\ query' = Disturb({n})
    /\ sync' = Advance(p)
    /\ UNCHANGED <<disk, clock, queries>>

\* The note is gone by the second look, or the index is locked by another
\* process: the event gives up on the index with a warning.
UpdateFails(p) ==
    /\ sync[p].pc # "idle"
    /\ sync' = [sync EXCEPT ![p] = NoEvent]
    /\ UNCHANGED <<disk, store, reader, query, clock, queries>>

-----------------------------------------------------------------------------
(* query_text: refresh, then search.                                        *)

\* Notes whose newer entry in this process's reader hides an older one that a
\* late commit of another process has put into the index.
Hidden(p) == {n \in Note : /\ reader[p][n] # store[n]
                           /\ reader[p][n].time = disk[n].time}

\* A query goes on, with what it has of its variables.
Goes(p, pc, stored, files, pending, at, seen, disturbed) ==
    query' = [query EXCEPT ![p] = [pc |-> pc, stored |-> stored, files |-> files, pending |-> pending,
                                   at |-> at, seen |-> seen, disturbed |-> disturbed]]

\* entries: what this process's reader shows.
QueryBegin(p) ==
    /\ query[p].pc = "idle" /\ queries < MaxQuery
    /\ queries' = queries + 1
    /\ Goes(p, "walk", reader[p], {}, Empty, {}, NoFile, Hidden(p))
    /\ UNCHANGED <<disk, store, reader, sync, clock>>

\* collect_markdown_files.
RefreshWalk(p) ==
    /\ query[p].pc = "walk"
    /\ LET q == query[p] IN Goes(p, "stat", q.stored, Here, q.pending, {}, NoFile, q.disturbed)
    /\ UNCHANGED <<disk, store, reader, sync, clock, queries>>

\* The next file is looked at.  One that has gone since the walk is left alone,
\* and so is one whose time is the stored one.  (The order of the paths, which
\* the code sorts, is left open.)
RefreshStat(p) ==
    /\ query[p].pc = "stat"
    /\ \E n \in query[p].files :
         LET q == query[p]
             read == n \in Here /\ (q.stored[n] = None \/ q.stored[n].time # disk[n].time)
         IN  Goes(p, IF read THEN "read" ELSE "stat", [q.stored EXCEPT ![n] = None],
                  q.files \ {n}, q.pending, IF read THEN {n} ELSE {},
                  IF read THEN disk[n] ELSE NoFile, q.disturbed)
    /\ UNCHANGED <<disk, store, reader, sync, clock, queries>>

\* The time is the one from before the content was read.
Document(before, after) ==
    [text |-> after.text, time |-> before.time, torn |-> before.time # after.time]

RefreshRead(p) ==
    /\ query[p].pc = "read"
    /\ LET q == query[p]
           pending == [n \in Note |-> IF n \in q.at \cap Here THEN Document(q.seen, disk[n])
                                     ELSE q.pending[n]]
       IN  Goes(p, "stat", q.stored, q.files, pending, {}, NoFile, q.disturbed)
    /\ UNCHANGED <<disk, store, reader, sync, clock, queries>>

Scanned(p) == query[p].pc = "stat" /\ query[p].files = {}

\* Everything pending goes in with one commit.
RefreshIndex(p) ==
    /\ Scanned(p) /\ query[p].pending # Empty
    /\ LET pending == query[p].pending
           ns == {n \in Note : pending[n] # None}
       IN  /\ Commit(p, [n \in Note |-> IF n \in ns THEN pending[n] ELSE store[n]])
           /\ query' = [q \in Proc |-> IF q = p THEN [query[p] EXCEPT !.pending = Empty]
                                       ELSE Disturb(ns)[q]]
    /\ UNCHANGED <<disk, sync, clock, queries>>

\* Mutant: what the walk did not find stays.
MutGone(p) == {}

\* The stored paths the walk did not find.
Gone(p) == {n \in Note : query[p].stored[n] # None}

RefreshRemove(p) ==
    /\ Scanned(p) /\ query[p].pending = Empty
    /\ \E n \in Gone(p) :
         /\ Commit(p, [store EXCEPT ![n] = None])
         /\ query' = [q \in Proc |->
               IF q = p THEN [query[p] EXCEPT !.stored = [@ EXCEPT ![n] = None]] ELSE Disturb({n})[q]]
    /\ UNCHANGED <<disk, sync, clock, queries>>

\* The index is locked by another process: the query fails.
RefreshFails(p) ==
    /\ Scanned(p) /\ (query[p].pending # Empty \/ Gone(p) # {})
    /\ query' = [query EXCEPT ![p] = NoQuery]
    /\ UNCHANGED <<disk, store, reader, sync, clock, queries>>

Answering(p) == Scanned(p) /\ query[p].pending = Empty /\ Gone(p) = {}

Answer(p) ==
    /\ Answering(p)
    /\ query' = [query EXCEPT ![p] = NoQuery]
    /\ UNCHANGED <<disk, store, reader, sync, clock, queries>>

-----------------------------------------------------------------------------

\* The first process starts on a vault with a note or none, and an empty index.
\* (Two notes would need two times: each change has a time of its own.)
Init ==
    /\ disk \in [Note -> [text : Text, time : {1}] \cup {NoFile}]
    /\ \A m, n \in Here : m = n
    /\ store = Empty /\ reader = [p \in Proc |-> Empty]
    /\ query = [p \in Proc |-> NoQuery] /\ sync = [p \in Proc |-> NoEvent]
    /\ clock = 1 /\ queries = 0

Next ==
    \/ OtherChange
    \/ \E p \in Proc :
         \/ ToolWrite(p) \/ ToolDelete(p) \/ ToolMove(p)
         \/ UpdateRemove(p) \/ SyncReadContent(p) \/ SyncReadTime(p) \/ SyncCommit(p)
         \/ UpdateFails(p)
         \/ QueryBegin(p) \/ RefreshWalk(p) \/ RefreshStat(p) \/ RefreshRead(p)
         \/ RefreshIndex(p) \/ RefreshRemove(p) \/ RefreshFails(p) \/ Answer(p)

Spec == Init /\ [][Next]_vars

-----------------------------------------------------------------------------
(* Properties.                                                              *)

TypeOK ==
    /\ disk \in [Note -> File] /\ store \in Index /\ reader \in [Proc -> Index]
    /\ \A p \in Proc :
         /\ query[p].pc \in {"idle", "walk", "stat", "read"}
         /\ query[p].stored \in Index /\ query[p].pending \in Index
         /\ query[p].files \subseteq Note /\ query[p].at \subseteq Note
         /\ query[p].seen \in File /\ query[p].disturbed \subseteq Note
         /\ sync[p].pc \in {"idle", "next", "stat", "commit"}
         /\ sync[p].todo \in Seq(Todo) /\ sync[p].read \in File
         /\ sync[p].entry \in Entry \cup {None}
    /\ clock \in 1..MaxChange + 1 /\ queries \in 0..MaxQuery

\* A query answers from the files as they are: each note is shown with its
\* content, and no note that is gone, whatever events, refreshes and failures
\* went before.  Nothing is promised for a note that changes or that another
\* commit indexes while the refresh runs, for one whose late commit by another
\* process this process has not seen yet, and for one with a torn entry whose
\* time is the file's: a refresh cannot tell it from a whole one.
QueryFresh ==
    \A p \in Proc : Answering(p) =>
        \A n \in Note \ query[p].disturbed :
            LET entry == reader[p][n]
            IN  entry.text = disk[n].text \/ (entry.torn /\ entry.time = disk[n].time)

=============================================================================
