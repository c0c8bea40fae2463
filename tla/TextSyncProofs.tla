--------------------------- MODULE TextSyncProofs ---------------------------
(***************************************************************************)
(* Proofs about TextSync, for any processes, notes, texts and bounds: the  *)
(* variables keep their types, and a query answers from the files as they  *)
(* are.                                                                    *)
(***************************************************************************)
EXTENDS TextSync, SequenceTheorems, TLAPS

\* What a text is, and the bounds.
Bounded == Absent \notin Text /\ MaxChange \in Nat /\ MaxQuery \in Nat

Query == [pc : {"idle", "walk", "stat", "read"}, stored : Index, files : SUBSET Note,
          pending : Index, at : SUBSET Note, seen : File, disturbed : SUBSET Note]

Sync == [pc : {"idle", "next", "stat", "commit"}, todo : Seq(Todo), read : File,
         entry : Entry \cup {None}]

SyncOk(s) ==
    /\ s \in Sync
    /\ s.pc # "idle" => s.todo # << >>
    /\ s.pc = "stat" => s.read.text # Absent

QueryOk(q) == q \in Query /\ (q.pc = "read" => q.seen.text # Absent)

TypeInv ==
    /\ disk \in [Note -> File] /\ store \in Index /\ reader \in [Proc -> Index]
    /\ query \in [Proc -> Query] /\ \A p \in Proc : QueryOk(query[p])
    /\ sync \in [Proc -> Sync] /\ \A p \in Proc : SyncOk(sync[p])
    /\ clock \in 1..MaxChange + 1 /\ queries \in 0..MaxQuery

\* What the files held at each time: w is the content written then.
FileFits(f, w, now) ==
    f # NoFile => f.text \in Text /\ f.time \in 1..now /\ f.text = w[f.time]

\* An entry that is not torn has the content of its time.
Fits(e, w, now) == e # None => e.time \in 1..now /\ (~e.torn => e.text = w[e.time])

Agrees(w) ==
    /\ \A n \in Note : FileFits(disk[n], w, clock) /\ Fits(store[n], w, clock)
    /\ \A p \in Proc, n \in Note :
         /\ Fits(reader[p][n], w, clock) /\ Fits(query[p].stored[n], w, clock)
         /\ Fits(query[p].pending[n], w, clock)
    /\ \A p \in Proc :
         /\ FileFits(query[p].seen, w, clock) /\ FileFits(sync[p].read, w, clock)
         /\ Fits(sync[p].entry, w, clock)

HistoryInv == \E w \in [Times -> Text \cup {Absent}] : Agrees(w)

\* A note whose file the refresh has not come to, or that has no file: if its time
\* is the stored one, its entry has not changed since the refresh began.
Unread(p, n) ==
    LET q == query[p]
    IN  /\ q.pending[n] = None
        /\ q.stored[n].time = disk[n].time => q.stored[n] = store[n] /\ q.stored[n] = reader[p][n]

\* A note the refresh has come to: it is being read, or about to be indexed as it
\* is, or its entry has the time of its file.
Scan(p, n) ==
    LET q == query[p]
    IN  /\ q.stored[n] = None
        /\ n \in q.at => q.seen = disk[n]
        /\ n \notin q.at =>
             \/ q.pending[n] = [text |-> disk[n].text, time |-> disk[n].time, torn |-> FALSE]
             \/ q.pending[n] = None /\ reader[p][n] = store[n] /\ reader[p][n].time = disk[n].time

\* What a refresh knows of a note that nobody disturbs.
QueryInv(p) ==
    LET q == query[p]
    IN  q.pc # "idle" =>
          /\ q.at \cap q.files = {} /\ (q.pc # "read" => q.at = {})
          /\ \A n \in Note \ q.disturbed :
               /\ n \in q.files => n \in Here
               /\ q.pc = "walk" \/ n \in q.files \/ n \notin Here => Unread(p, n)
               /\ q.pc # "walk" /\ n \notin q.files /\ n \in Here => Scan(p, n)

Inv == TypeInv /\ HistoryInv /\ \A p \in Proc : QueryInv(p)

-----------------------------------------------------------------------------
(* Types.                                                                   *)

\* An empty index is an index.
LEMMA EmptyTypes == Empty \in Index
  BY DEF Empty, Index

\* The first state has its types.
LEMMA TypeInit ==
    ASSUME Bounded, Init
    PROVE  TypeInv
<1>1. NoFile \in File /\ Empty \in Index /\ None \in Entry \cup {None}
  BY DEF Bounded, NoFile, File, Times, Empty, Index
<1>2. QueryOk(NoQuery) /\ SyncOk(NoEvent)
  BY <1>1, EmptySeq DEF QueryOk, SyncOk, Query, Sync, NoQuery, NoEvent
<1>3. disk \in [Note -> File]
  BY <1>1 DEF Init, File, Times, Bounded
<1>4. QED
  BY <1>1, <1>2, <1>3 DEF Init, TypeInv, Bounded, QueryOk, SyncOk

\* A query that goes on leaves the others where they are.
LEMMA GoesOn ==
    ASSUME TypeInv, NEW p \in Proc, NEW pc \in {"idle", "walk", "stat", "read"}, NEW stored \in Index,
           NEW files \in SUBSET Note, NEW pending \in Index, NEW at \in SUBSET Note, NEW seen \in File,
           NEW disturbed \in SUBSET Note, pc = "read" => seen.text # Absent,
           Goes(p, pc, stored, files, pending, at, seen, disturbed)
    PROVE  /\ query' \in [Proc -> Query] /\ \A r \in Proc : QueryOk(query'[r])
           /\ query'[p] = [pc |-> pc, stored |-> stored, files |-> files, pending |-> pending,
                           at |-> at, seen |-> seen, disturbed |-> disturbed]
           /\ \A r \in Proc \ {p} : query'[r] = query[r]
<1> DEFINE k == [pc |-> pc, stored |-> stored, files |-> files, pending |-> pending,
                 at |-> at, seen |-> seen, disturbed |-> disturbed]
<1>1. QueryOk(k)
  BY DEF QueryOk, Query
<1>2. query' = [query EXCEPT ![p] = k]
  BY DEF Goes
<1>3. QED
  <2> HIDE DEF k
  <2>1. query'[p] = k /\ \A r \in Proc \ {p} : query'[r] = query[r]
    BY <1>2 DEF TypeInv
  <2>2. query' \in [Proc -> Query]
    BY <1>1, <1>2 DEF TypeInv, QueryOk
  <2>3. \A r \in Proc : QueryOk(query'[r])
    BY <1>1, <2>1 DEF TypeInv
  <2>4. QED
    BY <2>1, <2>2, <2>3 DEF k

\* A query that is disturbed is told which notes, and no more.
LEMMA DisturbTypes ==
    ASSUME TypeInv, NEW ns \in SUBSET Note
    PROVE  /\ Disturb(ns) \in [Proc -> Query]
           /\ \A p \in Proc :
                LET q == query[p]
                    d == Disturb(ns)[p]
                IN  /\ QueryOk(d) /\ d.pc = q.pc /\ d.stored = q.stored /\ d.files = q.files
                    /\ d.pending = q.pending /\ d.at = q.at /\ d.seen = q.seen
                    /\ q.disturbed \subseteq d.disturbed
                    /\ q.pc # "idle" => ns \subseteq d.disturbed
<1>1. ASSUME NEW p \in Proc
      PROVE  LET q == query[p]
                 d == Disturb(ns)[p]
             IN  /\ QueryOk(d) /\ d.pc = q.pc /\ d.stored = q.stored /\ d.files = q.files
                 /\ d.pending = q.pending /\ d.at = q.at /\ d.seen = q.seen
                 /\ q.disturbed \subseteq d.disturbed
                 /\ q.pc # "idle" => ns \subseteq d.disturbed
  <2>1. query[p] \in Query /\ QueryOk(query[p])
    BY DEF TypeInv
  <2>2. CASE query[p].pc = "idle"
    BY <2>1, <2>2 DEF Disturb
  <2>3. CASE query[p].pc # "idle"
    BY <2>1, <2>3 DEF Disturb, QueryOk, Query
  <2>4. QED
    BY <2>2, <2>3
<1>2. Disturb(ns) \in [Proc -> Query]
  BY <1>1 DEF QueryOk, Disturb
<1>3. QED
  BY <1>1, <1>2

\* An event that goes on leaves the others where they are.
LEMMA SyncOn ==
    ASSUME TypeInv, NEW p \in Proc, NEW s, SyncOk(s), sync' = [sync EXCEPT ![p] = s]
    PROVE  sync' \in [Proc -> Sync] /\ (\A r \in Proc : SyncOk(sync'[r])) /\ sync'[p] = s
  BY DEF TypeInv, SyncOk

\* Events have something left to do, or are over.
LEMMA EventTypes ==
    ASSUME Bounded, TypeInv, NEW p \in Proc
    PROVE  /\ SyncOk(NoEvent)
           /\ \A todo \in Seq(Todo) : todo # << >> => SyncOk(Left(todo))
           /\ sync[p].pc # "idle" => /\ Head(sync[p].todo) \in Todo
                                     /\ Tail(sync[p].todo) \in Seq(Todo)
                                     /\ Head(sync[p].todo).note \in Note
<1>1. NoFile \in File
  BY DEF Bounded, NoFile, File, Times
<1>2. SyncOk(NoEvent)
  BY <1>1, EmptySeq DEF SyncOk, Sync, NoEvent
<1>3. \A todo \in Seq(Todo) : todo # << >> => SyncOk(Left(todo))
  BY <1>1 DEF SyncOk, Sync, Left
<1>4. sync[p].pc # "idle" => Head(sync[p].todo) \in Todo /\ Tail(sync[p].todo) \in Seq(Todo)
  BY HeadTailProperties DEF TypeInv, SyncOk, Sync
<1>5. \A t \in Todo : t.note \in Note
  BY DEF Todo
<1>6. QED
  BY <1>2, <1>3, <1>4, <1>5

\* An event whose first step is done.
LEMMA AdvanceTypes ==
    ASSUME Bounded, TypeInv, NEW p \in Proc, sync[p].pc # "idle", sync' = Advance(p)
    PROVE  /\ sync' \in [Proc -> Sync] /\ \A r \in Proc : SyncOk(sync'[r])
           /\ sync'[p].read = NoFile /\ sync'[p].entry = None
           /\ \A r \in Proc \ {p} : sync'[r] = sync[r]
<1> DEFINE rest == Tail(sync[p].todo)
           s == IF rest = << >> THEN NoEvent ELSE Left(rest)
<1>1. SyncOk(s)
  BY EventTypes
<1>2. sync' = [sync EXCEPT ![p] = s]
  BY DEF Advance
<1>3. s.read = NoFile /\ s.entry = None
  BY DEF NoEvent, Left
<1>4. QED
  <2> HIDE DEF s
  <2> QED
    BY <1>1, <1>2, <1>3, SyncOn DEF TypeInv

\* An index with one entry filled in, or taken out.
LEMMA OneEntry ==
    ASSUME NEW s \in Index, NEW n, NEW e \in Entry \cup {None}
    PROVE  [s EXCEPT ![n] = e] \in Index
  BY DEF Index

\* A change of a file has a time of its own, the latest.
LEMMA ChangedTypes ==
    ASSUME Bounded, TypeInv, NEW f \in [Note -> File], Changed(f)
    PROVE  /\ disk' \in [Note -> File] /\ clock' = clock + 1 /\ clock' \in 1..MaxChange + 1
           /\ query' \in [Proc -> Query] /\ \A r \in Proc : QueryOk(query'[r])
<1>1. {n \in Note : f[n] # disk[n]} \in SUBSET Note
  OBVIOUS
<1>2. clock' = clock + 1 /\ clock' \in 1..MaxChange + 1
  BY DEF Changed, Bounded
<1>3. QED
  BY <1>1, <1>2, DisturbTypes DEF Changed

\* A change leaves files where they are, moves or removes them, or writes one with
\* the time that is new.
Renewed(f) ==
    /\ f \in [Note -> File]
    /\ \E x \in Text \cup {Absent} : \A n \in Note :
         \/ f[n] = NoFile
         \/ \E m \in Note : f[n] = disk[m]
         \/ x \in Text /\ f[n] = [text |-> x, time |-> clock + 1]

\* Files that hold what they held, or a new text at the next time, are files.
LEMMA NewFiles ==
    ASSUME Bounded, TypeInv, clock \in 1..MaxChange
    PROVE  /\ \A n \in Note, x \in Text : Renewed([disk EXCEPT ![n] = [text |-> x, time |-> clock + 1]])
           /\ \A n \in Note : Renewed([disk EXCEPT ![n] = NoFile])
           /\ \A n, m \in Note : Renewed([disk EXCEPT ![n] = NoFile, ![m] = disk[n]])
<1>1. NoFile \in File /\ \A x \in Text : [text |-> x, time |-> clock + 1] \in File
  BY DEF Bounded, NoFile, File, Times
<1>2. ASSUME NEW n \in Note, NEW x \in Text
      PROVE  Renewed([disk EXCEPT ![n] = [text |-> x, time |-> clock + 1]])
  BY <1>1 DEF TypeInv, Renewed
<1>3. ASSUME NEW n \in Note
      PROVE  Renewed([disk EXCEPT ![n] = NoFile])
  BY <1>1 DEF TypeInv, Renewed
<1>4. ASSUME NEW n \in Note, NEW m \in Note
      PROVE  Renewed([disk EXCEPT ![n] = NoFile, ![m] = disk[n]])
  BY <1>1 DEF TypeInv, Renewed
<1>5. QED
  BY <1>2, <1>3, <1>4

\* A tool's change starts an event.
LEMMA ToolStarts ==
    ASSUME Bounded, TypeInv, NEW p \in Proc, ToolWrite(p) \/ ToolDelete(p) \/ ToolMove(p)
    PROVE  \E f, todo : Renewed(f) /\ todo \in Seq(Todo) /\ todo # << >> /\ Event(p, f, todo)
<1>1. CASE ToolWrite(p)
  <2>1. PICK n \in Note, x \in Text : Event(p, [disk EXCEPT ![n] = [text |-> x, time |-> clock + 1]],
                                         <<[op |-> "sync", note |-> n]>>)
    BY <1>1 DEF ToolWrite
  <2>2. clock \in 1..MaxChange
    BY <2>1 DEF Event, Changed
  <2>3. <<[op |-> "sync", note |-> n]>> \in Seq(Todo) /\ <<[op |-> "sync", note |-> n]>> # << >>
    BY DEF Todo
  <2>4. QED
    BY <2>1, <2>2, <2>3, NewFiles
<1>2. CASE ToolDelete(p)
  <2>1. PICK n \in Note : Event(p, [disk EXCEPT ![n] = NoFile], <<[op |-> "remove", note |-> n]>>)
    BY <1>2 DEF ToolDelete, Here
  <2>2. clock \in 1..MaxChange
    BY <2>1 DEF Event, Changed
  <2>3. <<[op |-> "remove", note |-> n]>> \in Seq(Todo) /\ <<[op |-> "remove", note |-> n]>> # << >>
    BY DEF Todo
  <2>4. QED
    BY <2>1, <2>2, <2>3, NewFiles
<1>3. CASE ToolMove(p)
  <2>1. PICK n \in Note, m \in Note :
          Event(p, [disk EXCEPT ![n] = NoFile, ![m] = disk[n]],
                <<[op |-> "remove", note |-> n], [op |-> "sync", note |-> m]>>)
    BY <1>3 DEF ToolMove, Here
  <2>2. clock \in 1..MaxChange
    BY <2>1 DEF Event, Changed
  <2>3. /\ <<[op |-> "remove", note |-> n], [op |-> "sync", note |-> m]>> \in Seq(Todo)
        /\ <<[op |-> "remove", note |-> n], [op |-> "sync", note |-> m]>> # << >>
    BY DEF Todo
  <2>4. QED
    BY <2>1, <2>2, <2>3, NewFiles
<1>4. QED
  BY <1>1, <1>2, <1>3

\* A change by a tool, with the event it starts, keeps the types.
LEMMA ToolTypes ==
    ASSUME Bounded, TypeInv, NEW p \in Proc, ToolWrite(p) \/ ToolDelete(p) \/ ToolMove(p)
    PROVE  TypeInv'
<1>1. PICK f, todo : Renewed(f) /\ todo \in Seq(Todo) /\ todo # << >> /\ Event(p, f, todo)
  BY ToolStarts
<1>2. SyncOk(Left(todo)) /\ sync' = [sync EXCEPT ![p] = Left(todo)]
  BY <1>1, EventTypes DEF Event
<1>3. sync' \in [Proc -> Sync] /\ \A r \in Proc : SyncOk(sync'[r])
  BY <1>2, SyncOn
<1>4. QED
  BY <1>1, <1>3, ChangedTypes DEF Event, Renewed, TypeInv

\* The steps of an event keep the types.
LEMMA UpdateTypes ==
    ASSUME Bounded, TypeInv, NEW p \in Proc,
           UpdateRemove(p) \/ SyncReadContent(p) \/ SyncReadTime(p) \/ SyncCommit(p) \/ UpdateFails(p)
    PROVE  TypeInv'
<1> DEFINE n == Head(sync[p].todo).note
<1>1. sync[p].pc # "idle" /\ sync[p] \in Sync /\ SyncOk(sync[p]) /\ n \in Note
  BY EventTypes DEF TypeInv, UpdateRemove, SyncReadContent, SyncReadTime, SyncCommit, UpdateFails
<1>2. CASE UpdateRemove(p)
  <2>1. store' \in Index /\ reader' \in [Proc -> Index]
    BY <1>2, OneEntry DEF UpdateRemove, Commit, Reloaded, TypeInv
  <2>2. query' \in [Proc -> Query] /\ \A r \in Proc : QueryOk(query'[r])
    BY <1>1, <1>2, DisturbTypes DEF UpdateRemove
  <2>3. sync' \in [Proc -> Sync] /\ \A r \in Proc : SyncOk(sync'[r])
    BY <1>1, <1>2, AdvanceTypes DEF UpdateRemove
  <2>4. QED
    BY <1>2, <2>1, <2>2, <2>3 DEF UpdateRemove, TypeInv
<1>3. CASE SyncReadContent(p)
  <2> DEFINE s == [pc |-> "stat", todo |-> sync[p].todo, read |-> disk[n], entry |-> None]
  <2>1. SyncOk(s)
    BY <1>1, <1>3 DEF SyncReadContent, SyncOk, Sync, TypeInv, Here
  <2>2. sync' = [sync EXCEPT ![p] = s]
    BY <1>3 DEF SyncReadContent
  <2>3. sync' \in [Proc -> Sync] /\ \A r \in Proc : SyncOk(sync'[r])
    <3> HIDE DEF s
    <3> QED
      BY <2>1, <2>2, SyncOn
  <2>4. QED
    BY <1>3, <2>3 DEF SyncReadContent, TypeInv
<1>4. CASE SyncReadTime(p)
  <2> DEFINE entry == [text |-> sync[p].read.text, time |-> disk[n].time,
                       torn |-> sync[p].read.time # disk[n].time]
             s == [pc |-> "commit", todo |-> sync[p].todo, read |-> sync[p].read, entry |-> entry]
  <2>1. sync[p].read \in File /\ sync[p].read.text \in Text /\ disk[n] \in File
    BY <1>1, <1>4 DEF SyncReadTime, SyncOk, Sync, TypeInv, File
  <2>2. entry \in Entry
    BY <2>1 DEF Entry, File
  <2>3. SyncOk(s)
    <3> HIDE DEF entry
    <3> QED
      BY <1>1, <2>1, <2>2 DEF SyncOk, Sync
  <2>4. sync' = [sync EXCEPT ![p] = s]
    BY <1>4 DEF SyncReadTime
  <2>5. sync' \in [Proc -> Sync] /\ \A r \in Proc : SyncOk(sync'[r])
    <3> HIDE DEF s
    <3> QED
      BY <2>3, <2>4, SyncOn
  <2>6. QED
    BY <1>4, <2>5 DEF SyncReadTime, TypeInv
<1>5. CASE SyncCommit(p)
  <2>1. sync[p].entry \in Entry \cup {None}
    BY <1>1 DEF Sync
  <2>2. store' \in Index /\ reader' \in [Proc -> Index]
    BY <1>5, <2>1, OneEntry DEF SyncCommit, Commit, Reloaded, TypeInv
  <2>3. query' \in [Proc -> Query] /\ \A r \in Proc : QueryOk(query'[r])
    BY <1>1, <1>5, DisturbTypes DEF SyncCommit
  <2>4. sync' \in [Proc -> Sync] /\ \A r \in Proc : SyncOk(sync'[r])
    BY <1>1, <1>5, AdvanceTypes DEF SyncCommit
  <2>5. QED
    BY <1>5, <2>2, <2>3, <2>4 DEF SyncCommit, TypeInv
<1>6. CASE UpdateFails(p)
  <2>1. sync' \in [Proc -> Sync] /\ \A r \in Proc : SyncOk(sync'[r])
    BY <1>6, EventTypes, SyncOn DEF UpdateFails
  <2>2. QED
    BY <1>6, <2>1 DEF UpdateFails, TypeInv
<1>7. QED
  BY <1>2, <1>3, <1>4, <1>5, <1>6

\* The steps of a refresh that only look.
LEMMA LookTypes ==
    ASSUME Bounded, TypeInv, NEW p \in Proc,
           QueryBegin(p) \/ RefreshWalk(p) \/ RefreshStat(p) \/ RefreshRead(p)
    PROVE  TypeInv' /\ \A r \in Proc \ {p} : query'[r] = query[r]
<1> DEFINE q == query[p]
<1>1. q \in Query /\ QueryOk(q) /\ NoFile \in File /\ Empty \in Index
  BY EmptyTypes DEF TypeInv, Bounded, NoFile, File, Times
<1>2. CASE QueryBegin(p)
  <2>1. Hidden(p) \in SUBSET Note /\ reader[p] \in Index
    BY DEF Hidden, TypeInv
  <2>2. /\ query' \in [Proc -> Query] /\ \A r \in Proc : QueryOk(query'[r])
        /\ \A r \in Proc \ {p} : query'[r] = query[r]
    BY <1>1, <1>2, <2>1, GoesOn DEF QueryBegin
  <2>3. queries' \in 0..MaxQuery
    BY <1>2 DEF QueryBegin, TypeInv, Bounded
  <2>4. QED
    BY <1>2, <2>2, <2>3 DEF QueryBegin, TypeInv
<1>3. CASE RefreshWalk(p)
  <2>1. Here \in SUBSET Note /\ q.stored \in Index /\ q.pending \in Index /\ q.disturbed \in SUBSET Note
    BY <1>1 DEF Here, Query
  <2>2. /\ query' \in [Proc -> Query] /\ \A r \in Proc : QueryOk(query'[r])
        /\ \A r \in Proc \ {p} : query'[r] = query[r]
    BY <1>1, <1>3, <2>1, GoesOn DEF RefreshWalk
  <2>3. QED
    BY <1>3, <2>2 DEF RefreshWalk, TypeInv
<1>4. CASE RefreshStat(p)
  <2>1. PICK n \in q.files :
          LET read == n \in Here /\ (q.stored[n] = None \/ q.stored[n].time # disk[n].time)
          IN  Goes(p, IF read THEN "read" ELSE "stat", [q.stored EXCEPT ![n] = None],
                   q.files \ {n}, q.pending, IF read THEN {n} ELSE {},
                   IF read THEN disk[n] ELSE NoFile, q.disturbed)
    BY <1>4 DEF RefreshStat
  <2> DEFINE read == n \in Here /\ (q.stored[n] = None \/ q.stored[n].time # disk[n].time)
             pc == IF read THEN "read" ELSE "stat"
             stored == [q.stored EXCEPT ![n] = None]
             files == q.files \ {n}
             at == IF read THEN {n} ELSE {}
             seen == IF read THEN disk[n] ELSE NoFile
  <2>2. /\ q.pending \in Index /\ q.disturbed \in SUBSET Note /\ q.stored \in Index
        /\ q.files \in SUBSET Note /\ n \in Note
    BY <1>1 DEF Query
  <2>3. /\ stored \in Index /\ files \in SUBSET Note /\ at \in SUBSET Note /\ seen \in File
        /\ pc \in {"read", "stat"} /\ (pc = "read" => seen.text # Absent)
    BY <1>1, <2>2, OneEntry DEF TypeInv, Here
  <2>4. Goes(p, pc, stored, files, q.pending, at, seen, q.disturbed)
    BY <2>1
  <2>5. /\ query' \in [Proc -> Query] /\ \A r \in Proc : QueryOk(query'[r])
        /\ \A r \in Proc \ {p} : query'[r] = query[r]
    <3> HIDE DEF pc, stored, files, at, seen
    <3>1. pc \in {"idle", "walk", "stat", "read"}
      BY <2>3
    <3>2. QED
      BY <2>2, <2>3, <2>4, <3>1, GoesOn
  <2>6. QED
    BY <1>4, <2>5 DEF RefreshStat, TypeInv
<1>5. CASE RefreshRead(p)
  <2> DEFINE pending == [n \in Note |-> IF n \in q.at \cap Here THEN Document(q.seen, disk[n])
                                       ELSE q.pending[n]]
  <2>1. /\ q.pending \in Index /\ q.disturbed \in SUBSET Note /\ q.stored \in Index
        /\ q.files \in SUBSET Note /\ q.seen \in File
    BY <1>1 DEF Query
  <2>2. ASSUME NEW n \in Here
        PROVE  Document(q.seen, disk[n]) \in Entry
    BY <2>1 DEF Document, Entry, TypeInv, File, Here
  <2>3. pending \in Index
    BY <2>1, <2>2 DEF Index
  <2>4. Goes(p, "stat", q.stored, q.files, pending, {}, NoFile, q.disturbed)
    BY <1>5 DEF RefreshRead
  <2>5. /\ query' \in [Proc -> Query] /\ \A r \in Proc : QueryOk(query'[r])
        /\ \A r \in Proc \ {p} : query'[r] = query[r]
    <3> HIDE DEF pending, q
    <3> QED
      BY <1>1, <2>1, <2>3, <2>4, GoesOn
  <2>6. QED
    BY <1>5, <2>5 DEF RefreshRead, TypeInv
<1>6. QED
  BY <1>2, <1>3, <1>4, <1>5

\* The commits of a refresh: its own query has less to do, and others are disturbed.
LEMMA CommitTypes ==
    ASSUME Bounded, TypeInv, NEW p \in Proc, RefreshIndex(p) \/ RefreshRemove(p)
    PROVE  TypeInv'
<1> DEFINE q == query[p]
<1>1. /\ q \in Query /\ q.pc = "stat" /\ q.stored \in Index /\ q.pending \in Index
      /\ store \in Index /\ reader \in [Proc -> Index]
  BY DEF TypeInv, Query, RefreshIndex, RefreshRemove, Scanned
<1>2. CASE RefreshIndex(p)
  <2> DEFINE ns == {n \in Note : q.pending[n] # None}
             s == [n \in Note |-> IF n \in ns THEN q.pending[n] ELSE store[n]]
             k == [q EXCEPT !.pending = Empty]
  <2>1. s \in Index
    BY <1>1 DEF Index
  <2>2. store' \in Index /\ reader' \in [Proc -> Index]
    BY <1>1, <1>2, <2>1 DEF RefreshIndex, Commit, Reloaded
  <2>3. QueryOk(k)
    BY <1>1, EmptyTypes DEF QueryOk, Query
  <2>4. query' = [r \in Proc |-> IF r = p THEN k ELSE Disturb(ns)[r]]
    BY <1>2 DEF RefreshIndex
  <2>5. query' \in [Proc -> Query] /\ \A r \in Proc : QueryOk(query'[r])
    <3> HIDE DEF k
    <3>1. ns \in SUBSET Note
      OBVIOUS
    <3>2. QED
      <4> HIDE DEF ns
      <4> QED
        BY <2>3, <2>4, <3>1, DisturbTypes DEF QueryOk
  <2>6. QED
    BY <1>2, <2>2, <2>5 DEF RefreshIndex, TypeInv
<1>3. CASE RefreshRemove(p)
  <2>1. PICK n \in Note :
          /\ store' = [store EXCEPT ![n] = None] /\ reader' = [reader EXCEPT ![p] = [store EXCEPT ![n] = None]]
          /\ query' = [r \in Proc |->
                IF r = p THEN [query[p] EXCEPT !.stored = [@ EXCEPT ![n] = None]] ELSE Disturb({n})[r]]
    BY <1>3 DEF RefreshRemove, Gone, Commit, Reloaded
  <2> DEFINE s == [store EXCEPT ![n] = None]
             st == [q.stored EXCEPT ![n] = None]
             k == [q EXCEPT !.stored = st]
  <2>2. s \in Index /\ st \in Index
    BY <1>1, OneEntry
  <2>3. store' \in Index /\ reader' \in [Proc -> Index]
    BY <1>1, <2>1, <2>2
  <2>4. QueryOk(k)
    <3> HIDE DEF st
    <3> QED
      BY <1>1, <2>2 DEF QueryOk, Query
  <2>5. query' = [r \in Proc |-> IF r = p THEN k ELSE Disturb({n})[r]]
    BY <2>1
  <2>6. query' \in [Proc -> Query] /\ \A r \in Proc : QueryOk(query'[r])
    <3> HIDE DEF k
    <3> QED
      BY <2>4, <2>5, DisturbTypes DEF QueryOk
  <2>7. QED
    BY <1>3, <2>3, <2>6 DEF RefreshRemove, TypeInv
<1>4. QED
  BY <1>2, <1>3

\* A query that is over.
LEMMA OverTypes ==
    ASSUME Bounded, TypeInv, NEW p \in Proc, RefreshFails(p) \/ Answer(p)
    PROVE  /\ TypeInv' /\ query'[p].pc = "idle" /\ query'[p].stored = Empty /\ query'[p].pending = Empty
           /\ query'[p].seen = NoFile /\ \A r \in Proc \ {p} : query'[r] = query[r]
<1>1. NoFile \in File
  BY DEF Bounded, NoFile, File, Times
<1>2. QueryOk(NoQuery)
  BY <1>1, EmptyTypes DEF QueryOk, Query, NoQuery
<1>3. query' = [query EXCEPT ![p] = NoQuery] /\ UNCHANGED <<disk, store, reader, sync, clock, queries>>
  BY DEF RefreshFails, Answer
<1>4. query' \in [Proc -> Query] /\ query'[p] = NoQuery /\ \A r \in Proc \ {p} : query'[r] = query[r]
  BY <1>2, <1>3 DEF TypeInv, QueryOk
<1>5. TypeInv'
  BY <1>2, <1>3, <1>4 DEF TypeInv
<1>6. QED
  BY <1>4, <1>5 DEF NoQuery

\* Another program's change is one of the files alone.
LEMMA OtherRenews ==
    ASSUME Bounded, TypeInv, OtherChange
    PROVE  \E f : Renewed(f) /\ Changed(f)
<1>1. clock \in 1..MaxChange
  BY DEF OtherChange, Changed
<1>2. QED
  BY <1>1, NewFiles DEF OtherChange, Here

\* Every step keeps the types.
LEMMA TypeStep ==
    ASSUME Bounded, TypeInv, [Next]_vars
    PROVE  TypeInv'
<1>1. CASE OtherChange
  BY <1>1, OtherRenews, ChangedTypes DEF OtherChange, Renewed, TypeInv
<1>2. CASE UNCHANGED vars
  BY <1>2 DEF vars, TypeInv
<1>3. QED
  BY <1>1, <1>2, ToolTypes, UpdateTypes, LookTypes, CommitTypes, OverTypes DEF Next

-----------------------------------------------------------------------------
(* The contents of each time.                                               *)

\* At first every time has at most one content, the one of its file.
LEMMA HistoryInit ==
    ASSUME Bounded, Init
    PROVE  HistoryInv
<1>1. \E x \in Text \cup {Absent} : \A n \in Here : disk[n].text = x
  <2>1. CASE Here = {}
    BY <2>1
  <2>2. CASE Here # {}
    <3>1. PICK m \in Here : TRUE
      BY <2>2
    <3>2. m \in Note /\ disk[m].text \in Text \cup {Absent}
      BY <3>1 DEF Here, Init, NoFile
    <3>3. \A n \in Here : disk[n].text = disk[m].text
      BY <3>1 DEF Init
    <3>4. QED
      BY <3>2, <3>3
  <2>3. QED
    BY <2>1, <2>2
<1>2. PICK x \in Text \cup {Absent} : \A n \in Here : disk[n].text = x
  BY <1>1
<1> DEFINE w == [i \in Times |-> x]
<1>3. w \in [Times -> Text \cup {Absent}] /\ 1 \in Times /\ clock = 1
  BY DEF Times, Bounded, Init
<1>4. \A n \in Note : FileFits(disk[n], w, clock)
  BY <1>2, <1>3 DEF FileFits, Init, Here, NoFile, Bounded
<1>5. /\ \A n \in Note : store[n] = None
      /\ \A p \in Proc, n \in Note : reader[p][n] = None /\ query[p].stored[n] = None /\ query[p].pending[n] = None
      /\ \A p \in Proc : query[p].seen = NoFile /\ sync[p].read = NoFile /\ sync[p].entry = None
  BY DEF Init, Empty, NoQuery, NoEvent
<1>6. Agrees(w)
  BY <1>4, <1>5 DEF Agrees, Fits, FileFits
<1>7. QED
  BY <1>3, <1>6 DEF HistoryInv

\* A change of a file adds to the history, and takes nothing back.
LEMMA ChangeFits ==
    ASSUME Bounded, TypeInv, HistoryInv, NEW f, Renewed(f), Changed(f), UNCHANGED <<store, reader>>,
           \A p \in Proc : \/ sync'[p].read = sync[p].read /\ sync'[p].entry = sync[p].entry
                           \/ sync'[p].read = NoFile /\ sync'[p].entry = None
    PROVE  HistoryInv'
<1>1. PICK w \in [Times -> Text \cup {Absent}] : Agrees(w)
  BY DEF HistoryInv
<1>2. PICK x \in Text \cup {Absent} : \A n \in Note :
         \/ f[n] = NoFile
         \/ \E m \in Note : f[n] = disk[m]
         \/ x \in Text /\ f[n] = [text |-> x, time |-> clock + 1]
  BY DEF Renewed
<1>3. clock \in 1..MaxChange /\ clock' = clock + 1 /\ clock + 1 \in Times /\ 1..clock \subseteq Times
  BY DEF Changed, Times, Bounded
<1>4. PICK v \in [Times -> Text \cup {Absent}] : v[clock + 1] = x /\ \A i \in 1..clock : v[i] = w[i]
  <2> DEFINE v == [w EXCEPT ![clock + 1] = x]
  <2>1. v \in [Times -> Text \cup {Absent}] /\ v[clock + 1] = x /\ \A i \in 1..clock : v[i] = w[i]
    BY <1>3
  <2>2. QED
    <3> HIDE DEF v
    <3> QED
      BY <2>1
<1>5. \A e : Fits(e, w, clock) => Fits(e, v, clock + 1)
  BY <1>3, <1>4 DEF Fits
<1>6. \A g : FileFits(g, w, clock) => FileFits(g, v, clock + 1)
  BY <1>3, <1>4 DEF FileFits
<1>7. \A n \in Note : FileFits(disk'[n], v, clock + 1)
  <2> SUFFICES ASSUME NEW n \in Note PROVE FileFits(f[n], v, clock + 1)
    BY DEF Changed
  <2>1. CASE f[n] = NoFile
    BY <2>1 DEF FileFits
  <2>2. CASE \E m \in Note : f[n] = disk[m]
    BY <1>1, <1>6, <2>2 DEF Agrees
  <2>3. CASE x \in Text /\ f[n] = [text |-> x, time |-> clock + 1]
    BY <1>3, <1>4, <2>3 DEF FileFits
  <2>4. QED
    BY <1>2, <2>1, <2>2, <2>3
<1>8. \A p \in Proc : query'[p].stored = query[p].stored /\ query'[p].pending = query[p].pending
                      /\ query'[p].seen = query[p].seen
  <2>1. {n \in Note : f[n] # disk[n]} \in SUBSET Note
    OBVIOUS
  <2>2. QED
    BY <2>1, DisturbTypes DEF Changed
<1>9. FileFits(NoFile, v, clock + 1) /\ Fits(None, v, clock + 1)
  BY DEF FileFits, Fits
<1>10. Agrees(v)'
  BY <1>1, <1>3, <1>5, <1>6, <1>7, <1>8, <1>9 DEF Agrees
<1>11. QED
  BY <1>4, <1>10 DEF HistoryInv

\* Where the time stands still, what the files held is as it was.
LEMMA SameHistory ==
    ASSUME TypeInv, HistoryInv, UNCHANGED <<disk, clock>>,
           \A w \in [Times -> Text \cup {Absent}] : Agrees(w) =>
             /\ \A n \in Note : Fits(store'[n], w, clock)
             /\ \A p \in Proc, n \in Note :
                  /\ Fits(reader'[p][n], w, clock) /\ Fits(query'[p].stored[n], w, clock)
                  /\ Fits(query'[p].pending[n], w, clock)
             /\ \A p \in Proc :
                  /\ FileFits(query'[p].seen, w, clock) /\ FileFits(sync'[p].read, w, clock)
                  /\ Fits(sync'[p].entry, w, clock)
    PROVE  HistoryInv'
<1>1. PICK w \in [Times -> Text \cup {Absent}] : Agrees(w)
  BY DEF HistoryInv
<1>2. Agrees(w)'
  BY <1>1 DEF Agrees
<1>3. QED
  BY <1>2 DEF HistoryInv

\* A commit of entries that fit, with queries told.
LEMMA CommitFits ==
    ASSUME TypeInv, NEW p \in Proc, NEW s \in Index, Commit(p, s), NEW w, Agrees(w),
           \A n \in Note : Fits(s[n], w, clock)
    PROVE  /\ \A n \in Note : Fits(store'[n], w, clock)
           /\ \A r \in Proc, n \in Note : Fits(reader'[r][n], w, clock)
  BY DEF Commit, Reloaded, TypeInv, Agrees

\* An event reads content and time of a file, or notices that it was torn.
LEMMA UpdateFits ==
    ASSUME Bounded, TypeInv, HistoryInv, NEW p \in Proc,
           UpdateRemove(p) \/ SyncReadContent(p) \/ SyncReadTime(p) \/ SyncCommit(p) \/ UpdateFails(p)
    PROVE  HistoryInv'
<1> DEFINE n == Head(sync[p].todo).note
<1>1. /\ sync[p].pc # "idle" /\ sync[p] \in Sync /\ SyncOk(sync[p]) /\ n \in Note /\ store \in Index
      /\ sync \in [Proc -> Sync]
  BY EventTypes DEF TypeInv, UpdateRemove, SyncReadContent, SyncReadTime, SyncCommit, UpdateFails
<1> SUFFICES ASSUME NEW w \in [Times -> Text \cup {Absent}], Agrees(w)
             PROVE  /\ \A m \in Note : Fits(store'[m], w, clock)
                    /\ \A r \in Proc, m \in Note :
                         /\ Fits(reader'[r][m], w, clock) /\ Fits(query'[r].stored[m], w, clock)
                         /\ Fits(query'[r].pending[m], w, clock)
                    /\ \A r \in Proc :
                         /\ FileFits(query'[r].seen, w, clock) /\ FileFits(sync'[r].read, w, clock)
                         /\ Fits(sync'[r].entry, w, clock)
  BY SameHistory DEF UpdateRemove, SyncReadContent, SyncReadTime, SyncCommit, UpdateFails
<1>2. FileFits(NoFile, w, clock) /\ Fits(None, w, clock)
  BY DEF FileFits, Fits
<1>3. \A m \in Note, e \in Entry \cup {None} : Fits(e, w, clock) =>
         \A k \in Note : Fits([store EXCEPT ![m] = e][k], w, clock)
  BY <1>1 DEF Agrees, Index
<1>4. CASE UpdateRemove(p)
  <2>1. \A r \in Proc : query'[r].stored = query[r].stored /\ query'[r].pending = query[r].pending
                        /\ query'[r].seen = query[r].seen
    BY <1>1, <1>4, DisturbTypes DEF UpdateRemove
  <2>2. \A r \in Proc : FileFits(sync'[r].read, w, clock) /\ Fits(sync'[r].entry, w, clock)
    BY <1>1, <1>2, <1>4, AdvanceTypes DEF UpdateRemove, Agrees
  <2>3. Commit(p, [store EXCEPT ![n] = None])
    BY <1>4 DEF UpdateRemove
  <2>4. /\ \A m \in Note : Fits(store'[m], w, clock)
        /\ \A r \in Proc, m \in Note : Fits(reader'[r][m], w, clock)
    BY <1>1, <1>2, <1>3, <2>3, OneEntry, CommitFits
  <2>5. QED
    BY <2>1, <2>2, <2>4 DEF Agrees
<1>5. CASE SyncReadContent(p)
  <2>1. sync'[p].read = disk[n] /\ sync'[p].entry = None /\ \A r \in Proc \ {p} : sync'[r] = sync[r]
    BY <1>1, <1>5 DEF SyncReadContent
  <2>2. \A r \in Proc : FileFits(sync'[r].read, w, clock) /\ Fits(sync'[r].entry, w, clock)
    BY <1>1, <1>2, <2>1 DEF Agrees
  <2>3. QED
    BY <1>5, <2>2 DEF SyncReadContent, Agrees
<1>6. CASE SyncReadTime(p)
  <2> DEFINE entry == [text |-> sync[p].read.text, time |-> disk[n].time,
                       torn |-> sync[p].read.time # disk[n].time]
  <2>1. sync'[p].read = sync[p].read /\ sync'[p].entry = entry /\ \A r \in Proc \ {p} : sync'[r] = sync[r]
    BY <1>1, <1>6 DEF SyncReadTime
  <2>2. n \in Here /\ FileFits(disk[n], w, clock) /\ FileFits(sync[p].read, w, clock)
    BY <1>1, <1>6 DEF SyncReadTime, Agrees
  <2>3. disk[n] # NoFile /\ sync[p].read # NoFile
    BY <1>1, <1>6, <2>2 DEF Here, NoFile, SyncReadTime, SyncOk
  <2>4. Fits(entry, w, clock)
    BY <2>2, <2>3 DEF Fits, FileFits
  <2>5. \A r \in Proc : FileFits(sync'[r].read, w, clock) /\ Fits(sync'[r].entry, w, clock)
    <3> HIDE DEF entry
    <3> QED
      BY <2>1, <2>4 DEF Agrees
  <2>6. QED
    BY <1>6, <2>5 DEF SyncReadTime, Agrees
<1>7. CASE SyncCommit(p)
  <2>1. \A r \in Proc : query'[r].stored = query[r].stored /\ query'[r].pending = query[r].pending
                        /\ query'[r].seen = query[r].seen
    BY <1>1, <1>7, DisturbTypes DEF SyncCommit
  <2>2. \A r \in Proc : FileFits(sync'[r].read, w, clock) /\ Fits(sync'[r].entry, w, clock)
    BY <1>1, <1>2, <1>7, AdvanceTypes DEF SyncCommit, Agrees
  <2>3. sync[p].entry \in Entry \cup {None} /\ Fits(sync[p].entry, w, clock)
    BY <1>1 DEF Sync, Agrees
  <2>4. Commit(p, [store EXCEPT ![n] = sync[p].entry])
    BY <1>7 DEF SyncCommit
  <2>5. /\ \A m \in Note : Fits(store'[m], w, clock)
        /\ \A r \in Proc, m \in Note : Fits(reader'[r][m], w, clock)
    BY <1>1, <1>3, <2>3, <2>4, OneEntry, CommitFits
  <2>6. QED
    BY <2>1, <2>2, <2>5 DEF Agrees
<1>8. CASE UpdateFails(p)
  <2>1. sync'[p].read = NoFile /\ sync'[p].entry = None /\ \A r \in Proc \ {p} : sync'[r] = sync[r]
    BY <1>1, <1>8 DEF UpdateFails, NoEvent
  <2>2. \A r \in Proc : FileFits(sync'[r].read, w, clock) /\ Fits(sync'[r].entry, w, clock)
    BY <1>2, <2>1 DEF Agrees
  <2>3. QED
    BY <1>8, <2>2 DEF UpdateFails, Agrees
<1>9. QED
  BY <1>4, <1>5, <1>6, <1>7, <1>8

\* What a query has when it goes on.
LEMMA GoesTo ==
    ASSUME TypeInv, NEW p \in Proc, NEW pc, NEW stored, NEW files, NEW pending, NEW at, NEW seen,
           NEW disturbed, Goes(p, pc, stored, files, pending, at, seen, disturbed)
    PROVE  /\ query'[p].pc = pc /\ query'[p].stored = stored /\ query'[p].files = files
           /\ query'[p].pending = pending /\ query'[p].at = at /\ query'[p].seen = seen
           /\ query'[p].disturbed = disturbed
           /\ \A r \in Proc \ {p} : query'[r] = query[r]
  BY DEF TypeInv, Goes

\* A refresh takes what it shows, and reads files; a file that is read with
\* another time than it was seen with makes a torn entry.
LEMMA LookFits ==
    ASSUME Bounded, TypeInv, HistoryInv, NEW p \in Proc,
           QueryBegin(p) \/ RefreshWalk(p) \/ RefreshStat(p) \/ RefreshRead(p)
    PROVE  HistoryInv'
<1> SUFFICES ASSUME NEW w \in [Times -> Text \cup {Absent}], Agrees(w)
             PROVE  /\ \A m \in Note : Fits(store'[m], w, clock)
                    /\ \A r \in Proc, m \in Note :
                         /\ Fits(reader'[r][m], w, clock) /\ Fits(query'[r].stored[m], w, clock)
                         /\ Fits(query'[r].pending[m], w, clock)
                    /\ \A r \in Proc :
                         /\ FileFits(query'[r].seen, w, clock) /\ FileFits(sync'[r].read, w, clock)
                         /\ Fits(sync'[r].entry, w, clock)
  BY SameHistory DEF QueryBegin, RefreshWalk, RefreshStat, RefreshRead
<1> DEFINE q == query[p]
<1>1. FileFits(NoFile, w, clock) /\ Fits(None, w, clock) /\ \A m \in Note : Empty[m] = None
  BY DEF FileFits, Fits, Empty
<1>2. q \in Query /\ QueryOk(q) /\ q.stored \in Index
  BY DEF TypeInv, Query
<1>3. ASSUME /\ \A m \in Note : Fits(query'[p].stored[m], w, clock) /\ Fits(query'[p].pending[m], w, clock)
             /\ FileFits(query'[p].seen, w, clock)
             /\ \A r \in Proc \ {p} : query'[r] = query[r]
             /\ UNCHANGED <<store, reader, sync>>
      PROVE  /\ \A m \in Note : Fits(store'[m], w, clock)
             /\ \A r \in Proc, m \in Note :
                  /\ Fits(reader'[r][m], w, clock) /\ Fits(query'[r].stored[m], w, clock)
                  /\ Fits(query'[r].pending[m], w, clock)
             /\ \A r \in Proc :
                  /\ FileFits(query'[r].seen, w, clock) /\ FileFits(sync'[r].read, w, clock)
                  /\ Fits(sync'[r].entry, w, clock)
  BY <1>3 DEF Agrees
<1>4. CASE QueryBegin(p)
  <2>1. /\ query'[p].stored = reader[p] /\ query'[p].pending = Empty /\ query'[p].seen = NoFile
        /\ \A r \in Proc \ {p} : query'[r] = query[r]
    BY <1>4, GoesTo DEF QueryBegin
  <2>2. QED
    BY <1>1, <1>3, <1>4, <2>1 DEF QueryBegin, Agrees
<1>5. CASE RefreshWalk(p)
  <2>1. /\ query'[p].stored = q.stored /\ query'[p].pending = q.pending /\ query'[p].seen = NoFile
        /\ \A r \in Proc \ {p} : query'[r] = query[r]
    BY <1>5, GoesTo DEF RefreshWalk
  <2>2. QED
    BY <1>1, <1>3, <1>5, <2>1 DEF RefreshWalk, Agrees
<1>6. CASE RefreshStat(p)
  <2>1. \E n \in q.files :
          /\ query'[p].stored = [q.stored EXCEPT ![n] = None] /\ query'[p].pending = q.pending
          /\ query'[p].seen \in {NoFile, disk[n]}
          /\ \A r \in Proc \ {p} : query'[r] = query[r]
    <3>1. PICK n \in q.files :
            LET read == n \in Here /\ (q.stored[n] = None \/ q.stored[n].time # disk[n].time)
            IN  Goes(p, IF read THEN "read" ELSE "stat", [q.stored EXCEPT ![n] = None],
                     q.files \ {n}, q.pending, IF read THEN {n} ELSE {},
                     IF read THEN disk[n] ELSE NoFile, q.disturbed)
      BY <1>6 DEF RefreshStat
    <3> DEFINE read == n \in Here /\ (q.stored[n] = None \/ q.stored[n].time # disk[n].time)
               pc == IF read THEN "read" ELSE "stat"
               stored == [q.stored EXCEPT ![n] = None]
               files == q.files \ {n}
               at == IF read THEN {n} ELSE {}
               seen == IF read THEN disk[n] ELSE NoFile
    <3>2. Goes(p, pc, stored, files, q.pending, at, seen, q.disturbed)
      BY <3>1
    <3>3. seen \in {NoFile, disk[n]}
      OBVIOUS
    <3>4. /\ query'[p].stored = stored /\ query'[p].pending = q.pending /\ query'[p].seen = seen
          /\ \A r \in Proc \ {p} : query'[r] = query[r]
      <4> HIDE DEF pc, stored, files, at, seen
      <4> QED
        BY <3>2, GoesTo
    <3>5. QED
      BY <3>3, <3>4
  <2>2. q.files \subseteq Note
    BY <1>2 DEF Query
  <2>3. \A m \in Note : Fits(query'[p].stored[m], w, clock) /\ Fits(query'[p].pending[m], w, clock)
    BY <1>1, <1>2, <2>1, <2>2 DEF Agrees, Index
  <2>4. FileFits(query'[p].seen, w, clock)
    BY <1>1, <2>1, <2>2 DEF Agrees
  <2>5. QED
    BY <1>3, <1>6, <2>1, <2>3, <2>4 DEF RefreshStat
<1>7. CASE RefreshRead(p)
  <2> DEFINE pending == [n \in Note |-> IF n \in q.at \cap Here THEN Document(q.seen, disk[n])
                                       ELSE q.pending[n]]
  <2>1. Goes(p, "stat", q.stored, q.files, pending, {}, NoFile, q.disturbed)
    BY <1>7 DEF RefreshRead
  <2>2. /\ query'[p].stored = q.stored /\ query'[p].pending = pending /\ query'[p].seen = NoFile
        /\ \A r \in Proc \ {p} : query'[r] = query[r]
    <3> HIDE DEF pending
    <3> QED
      BY <2>1, GoesTo
  <2>3. ASSUME NEW m \in Here
        PROVE  Fits(Document(q.seen, disk[m]), w, clock)
    <3>1. m \in Note /\ disk[m] # NoFile /\ q.seen # NoFile
      BY <1>2, <1>7 DEF Here, NoFile, RefreshRead, QueryOk
    <3>2. FileFits(disk[m], w, clock) /\ FileFits(q.seen, w, clock)
      BY <3>1 DEF Agrees
    <3>3. QED
      BY <3>1, <3>2 DEF Document, Fits, FileFits
  <2>4. \A m \in Note : Fits(pending[m], w, clock)
    BY <2>3 DEF Agrees
  <2>5. QED
    <3> HIDE DEF pending
    <3> QED
      BY <1>1, <1>3, <1>7, <2>2, <2>4 DEF RefreshRead, Agrees
<1>8. QED
  BY <1>4, <1>5, <1>6, <1>7

\* What a commit of a refresh does: it puts s into the index, which is new for ns,
\* its own query has less to do, and the others are told.
CommitOf(p, ns, s) ==
    LET q == query[p]
        k == query'[p]
    IN  /\ Commit(p, s) /\ \A n \in Note \ ns : s[n] = store[n]
        /\ \A r \in Proc \ {p} : query'[r] = Disturb(ns)[r]
        /\ k.pc = "stat" /\ q.pc = "stat" /\ k.files = {} /\ q.files = {} /\ k.at = q.at /\ k.seen = q.seen
        /\ k.disturbed = q.disturbed
        /\ \/ /\ RefreshIndex(p) /\ k.stored = q.stored /\ k.pending = Empty
              /\ ns = {n \in Note : q.pending[n] # None}
              /\ \A n \in ns : s[n] = q.pending[n]
           \/ /\ RefreshRemove(p) /\ k.pending = q.pending /\ q.pending = Empty
              /\ \E n \in Note : /\ ns = {n} /\ q.stored[n] # None /\ s[n] = None
                                /\ k.stored = [q.stored EXCEPT ![n] = None]

\* A commit of a refresh changes its notes in the store, and its query has less to do.
LEMMA CommitMoves ==
    ASSUME Bounded, TypeInv, NEW p \in Proc, RefreshIndex(p) \/ RefreshRemove(p)
    PROVE  \E ns \in SUBSET Note, s \in Index : CommitOf(p, ns, s)
<1> DEFINE q == query[p]
<1>1. /\ q \in Query /\ q.pc = "stat" /\ q.files = {} /\ q.stored \in Index /\ q.pending \in Index /\ store \in Index
  BY DEF TypeInv, Query, RefreshIndex, RefreshRemove, Scanned
<1>2. CASE RefreshIndex(p)
  <2> DEFINE ns == {n \in Note : q.pending[n] # None}
             s == [n \in Note |-> IF n \in ns THEN q.pending[n] ELSE store[n]]
  <2>1. s \in Index /\ ns \in SUBSET Note
    BY <1>1 DEF Index
  <2>2. Commit(p, s)
    BY <1>2 DEF RefreshIndex
  <2>3. query'[p] = [q EXCEPT !.pending = Empty] /\ \A r \in Proc \ {p} : query'[r] = Disturb(ns)[r]
    BY <1>2 DEF RefreshIndex
  <2>4. LET k == query'[p]
        IN  /\ k.pc = "stat" /\ k.files = {} /\ k.at = q.at /\ k.seen = q.seen
            /\ k.disturbed = q.disturbed /\ k.stored = q.stored /\ k.pending = Empty
    BY <1>1, <2>3 DEF Query
  <2>5. (\A n \in Note \ ns : s[n] = store[n]) /\ (\A n \in ns : s[n] = q.pending[n])
    OBVIOUS
  <2>6. ns = {n \in Note : q.pending[n] # None}
    OBVIOUS
  <2>7. QED
    <3> HIDE DEF s, ns
    <3> QED
      BY <1>1, <1>2, <2>1, <2>2, <2>3, <2>4, <2>5, <2>6 DEF CommitOf
<1>3. CASE RefreshRemove(p)
  <2>1. PICK n \in Note :
          /\ q.stored[n] # None /\ Commit(p, [store EXCEPT ![n] = None])
          /\ query' = [r \in Proc |->
                IF r = p THEN [query[p] EXCEPT !.stored = [@ EXCEPT ![n] = None]] ELSE Disturb({n})[r]]
    BY <1>3 DEF RefreshRemove, Gone
  <2> DEFINE s == [store EXCEPT ![n] = None]
             st == [q.stored EXCEPT ![n] = None]
  <2>2. s \in Index /\ s[n] = None /\ \A m \in Note \ {n} : s[m] = store[m]
    BY <1>1 DEF Index
  <2>3. query'[p] = [q EXCEPT !.stored = st] /\ \A r \in Proc \ {p} : query'[r] = Disturb({n})[r]
    BY <2>1
  <2>4. LET k == query'[p]
        IN  /\ k.pc = "stat" /\ k.files = {} /\ k.at = q.at /\ k.seen = q.seen
            /\ k.disturbed = q.disturbed /\ k.stored = st /\ k.pending = q.pending
    <3> HIDE DEF st
    <3> QED
      BY <1>1, <2>3 DEF Query
  <2>5. q.pending = Empty
    BY <1>3 DEF RefreshRemove
  <2>6. Commit(p, s) /\ {n} \in SUBSET Note
    BY <2>1
  <2>7. QED
    <3> HIDE DEF s
    <3>1. \E m \in Note : /\ {n} = {m} /\ q.stored[m] # None /\ s[m] = None
                         /\ query'[p].stored = [q.stored EXCEPT ![m] = None]
      BY <2>1, <2>2, <2>4
    <3>2. \A m \in Note \ {n} : s[m] = store[m]
      BY <2>2
    <3> HIDE DEF q
    <3>3. /\ s \in Index /\ Commit(p, s) /\ {n} \in SUBSET Note
          /\ \A r \in Proc \ {p} : query'[r] = Disturb({n})[r]
      BY <2>2, <2>3, <2>6
    <3>4. QED
      BY <1>1, <1>3, <2>4, <2>5, <3>1, <3>2, <3>3 DEF q, CommitOf
<1>4. QED
  BY <1>2, <1>3

\* A commit of a refresh puts in what fits, or takes out.
LEMMA RefreshFits ==
    ASSUME Bounded, TypeInv, HistoryInv, NEW p \in Proc, RefreshIndex(p) \/ RefreshRemove(p)
    PROVE  HistoryInv'
<1>1. PICK ns \in SUBSET Note, s \in Index : CommitOf(p, ns, s)
  BY CommitMoves
<1>2. UNCHANGED <<disk, clock, sync>>
  BY DEF RefreshIndex, RefreshRemove
<1> SUFFICES ASSUME NEW w \in [Times -> Text \cup {Absent}], Agrees(w)
             PROVE  /\ \A m \in Note : Fits(store'[m], w, clock)
                    /\ \A r \in Proc, m \in Note :
                         /\ Fits(reader'[r][m], w, clock) /\ Fits(query'[r].stored[m], w, clock)
                         /\ Fits(query'[r].pending[m], w, clock)
                    /\ \A r \in Proc :
                         /\ FileFits(query'[r].seen, w, clock) /\ FileFits(sync'[r].read, w, clock)
                         /\ Fits(sync'[r].entry, w, clock)
  BY <1>2, SameHistory
<1>3. Fits(None, w, clock) /\ \A m \in Note : Empty[m] = None
  BY DEF Fits, Empty
<1>4. query[p].stored \in Index
  BY DEF TypeInv, Query
<1>5. \A m \in Note : Fits(s[m], w, clock)
  BY <1>1, <1>3 DEF CommitOf, Agrees
<1>6. /\ \A m \in Note : Fits(store'[m], w, clock)
      /\ \A r \in Proc, m \in Note : Fits(reader'[r][m], w, clock)
  BY <1>1, <1>5, CommitFits DEF CommitOf
<1>7. ASSUME NEW r \in Proc \ {p}
      PROVE  /\ query'[r].stored = query[r].stored /\ query'[r].pending = query[r].pending
             /\ query'[r].seen = query[r].seen
  BY <1>1, DisturbTypes DEF CommitOf
<1>8. \A m \in Note : Fits(query'[p].stored[m], w, clock) /\ Fits(query'[p].pending[m], w, clock)
  <2>1. \A m \in Note : Fits(query[p].stored[m], w, clock) /\ Fits(query[p].pending[m], w, clock)
    BY DEF Agrees
  <2>2. CASE query'[p].stored = query[p].stored /\ query'[p].pending = Empty
    BY <1>3, <2>1, <2>2
  <2>3. CASE /\ query'[p].pending = query[p].pending
             /\ \E n \in Note : query'[p].stored = [query[p].stored EXCEPT ![n] = None]
    <3>1. PICK n \in Note : query'[p].stored = [query[p].stored EXCEPT ![n] = None]
      BY <2>3
    <3>2. \A m \in Note : query'[p].stored[m] \in {None, query[p].stored[m]}
      BY <1>4, <3>1 DEF Index
    <3>3. QED
      BY <1>3, <2>1, <2>3, <3>2
  <2>4. QED
    BY <1>1, <2>2, <2>3 DEF CommitOf
<1>9. FileFits(query'[p].seen, w, clock)
  BY <1>1 DEF CommitOf, Agrees
<1>10. QED
  BY <1>2, <1>6, <1>7, <1>8, <1>9 DEF Agrees

\* A query that is over has nothing to fit.
LEMMA OverFits ==
    ASSUME Bounded, TypeInv, HistoryInv, NEW p \in Proc, RefreshFails(p) \/ Answer(p)
    PROVE  HistoryInv'
<1>1. /\ query'[p].stored = Empty /\ query'[p].pending = Empty
      /\ query'[p].seen = NoFile /\ \A r \in Proc \ {p} : query'[r] = query[r]
  BY OverTypes
<1>2. UNCHANGED <<disk, store, reader, sync, clock>>
  BY DEF RefreshFails, Answer
<1>3. \A w : FileFits(NoFile, w, clock) /\ Fits(None, w, clock) /\ \A m \in Note : Empty[m] = None
  BY DEF FileFits, Fits, Empty
<1>4. QED
  BY <1>1, <1>2, <1>3, SameHistory DEF Agrees

\* Every step leaves at most one content to each time.
LEMMA HistoryStep ==
    ASSUME Bounded, TypeInv, HistoryInv, [Next]_vars
    PROVE  HistoryInv'
<1>1. CASE OtherChange
  BY <1>1, OtherRenews, ChangeFits DEF OtherChange
<1>2. ASSUME NEW p \in Proc, ToolWrite(p) \/ ToolDelete(p) \/ ToolMove(p)
      PROVE  HistoryInv'
  <2>1. PICK f, todo : Renewed(f) /\ Event(p, f, todo)
    BY <1>2, ToolStarts
  <2>2. \A r \in Proc : \/ sync'[r].read = sync[r].read /\ sync'[r].entry = sync[r].entry
                        \/ sync'[r].read = NoFile /\ sync'[r].entry = None
    BY <2>1 DEF Event, Left, TypeInv
  <2>3. QED
    BY <2>1, <2>2, ChangeFits DEF Event
<1>3. CASE UNCHANGED vars
  BY <1>3, SameHistory DEF vars, Agrees
<1>4. QED
  BY <1>1, <1>2, <1>3, UpdateFits, LookFits, RefreshFits, OverFits DEF Next

-----------------------------------------------------------------------------
(* What a refresh knows.                                                    *)

\* While a query only waits, what it knows of the notes nobody disturbs stays: the
\* store keeps their entries, and its reader shows those or is reloaded to them.
LEMMA QueryWaits ==
    ASSUME TypeInv, NEW p \in Proc, QueryInv(p),
           LET q == query[p]
               k == query'[p]
           IN  /\ k.pc = q.pc /\ k.stored = q.stored /\ k.files = q.files /\ k.pending = q.pending
               /\ k.at = q.at /\ k.seen = q.seen /\ q.disturbed \subseteq k.disturbed,
           query[p].pc # "idle" => \A n \in Note \ query'[p].disturbed :
               /\ disk'[n] = disk[n] /\ store'[n] = store[n]
               /\ reader'[p][n] = reader[p][n] \/ reader'[p][n] = store[n]
    PROVE  QueryInv(p)'
<1> SUFFICES ASSUME query[p].pc # "idle", NEW n \in Note \ query'[p].disturbed
             PROVE  /\ query[p].at \cap query[p].files = {} /\ (query[p].pc # "read" => query[p].at = {})
                    /\ n \in query[p].files => n \in Here'
                    /\ query[p].pc = "walk" \/ n \in query[p].files \/ n \notin Here' => Unread(p, n)'
                    /\ query[p].pc # "walk" /\ n \notin query[p].files /\ n \in Here' => Scan(p, n)'
  <2> HIDE DEF Unread, Scan
  <2>1. query'[p].pc = query[p].pc /\ query'[p].files = query[p].files /\ query'[p].at = query[p].at
    OBVIOUS
  <2>2. query[p].pc # "idle" => /\ query[p].at \cap query[p].files = {}
                                /\ (query[p].pc # "read" => query[p].at = {})
    BY DEF QueryInv
  <2>3. QED
    BY <2>1, <2>2 DEF QueryInv
<1>1. n \in Note \ query[p].disturbed /\ (n \in Here' <=> n \in Here)
  BY DEF Here
<1>2. Unread(p, n) => Unread(p, n)'
  BY DEF Unread
<1>3. Scan(p, n) => Scan(p, n)'
  BY DEF Scan
<1>4. QED
  BY <1>1, <1>2, <1>3 DEF QueryInv

\* The start of a query: where the reader's time is the file's, the reader shows
\* what the index holds, but for notes it counts as disturbed.
LEMMA BeginKnows ==
    ASSUME TypeInv, NEW p \in Proc, QueryBegin(p)
    PROVE  QueryInv(p)'
<1>1. /\ query'[p].pc = "walk" /\ query'[p].stored = reader[p] /\ query'[p].files = {}
      /\ query'[p].pending = Empty /\ query'[p].at = {} /\ query'[p].disturbed = Hidden(p)
  BY GoesTo DEF QueryBegin
<1>2. UNCHANGED <<disk, store, reader>>
  BY DEF QueryBegin
<1>3. ASSUME NEW n \in Note \ Hidden(p)
      PROVE  Unread(p, n)'
  BY <1>1, <1>2 DEF Unread, Hidden, Empty
<1>4. QED
  BY <1>1, <1>3 DEF QueryInv

\* The walk finds the files.
LEMMA WalkKnows ==
    ASSUME TypeInv, NEW p \in Proc, QueryInv(p), RefreshWalk(p)
    PROVE  QueryInv(p)'
<1>1. /\ query'[p].pc = "stat" /\ query'[p].stored = query[p].stored /\ query'[p].files = Here
      /\ query'[p].pending = query[p].pending /\ query'[p].at = {}
      /\ query'[p].disturbed = query[p].disturbed /\ query[p].pc = "walk"
  BY GoesTo DEF RefreshWalk
<1>2. UNCHANGED <<disk, store, reader>> /\ Here' = Here
  BY DEF RefreshWalk, Here
<1>3. ASSUME NEW n \in Note \ query[p].disturbed
      PROVE  Unread(p, n)'
  <2>1. Unread(p, n)
    BY <1>1 DEF QueryInv
  <2>2. QED
    BY <1>1, <1>2, <2>1 DEF Unread
<1>4. QED
  BY <1>1, <1>2, <1>3 DEF QueryInv, Here

\* A file with the stored time has the entry the reader shows; any other is read.
LEMMA StatKnows ==
    ASSUME TypeInv, NEW p \in Proc, QueryInv(p), RefreshStat(p)
    PROVE  QueryInv(p)'
<1> DEFINE q == query[p]
           Reads(n) == n \in Here /\ (q.stored[n] = None \/ q.stored[n].time # disk[n].time)
<1>1. PICK n \in q.files :
            Goes(p, IF Reads(n) THEN "read" ELSE "stat", [q.stored EXCEPT ![n] = None],
                 q.files \ {n}, q.pending, IF Reads(n) THEN {n} ELSE {},
                 IF Reads(n) THEN disk[n] ELSE NoFile, q.disturbed)
  BY DEF RefreshStat
<1>2. /\ query'[p].pc = IF Reads(n) THEN "read" ELSE "stat"
      /\ query'[p].stored = [q.stored EXCEPT ![n] = None] /\ query'[p].files = q.files \ {n}
      /\ query'[p].pending = q.pending /\ query'[p].at = IF Reads(n) THEN {n} ELSE {}
      /\ query'[p].seen = IF Reads(n) THEN disk[n] ELSE NoFile
      /\ query'[p].disturbed = q.disturbed
  <2> DEFINE pc == IF Reads(n) THEN "read" ELSE "stat"
             stored == [q.stored EXCEPT ![n] = None]
             files == q.files \ {n}
             at == IF Reads(n) THEN {n} ELSE {}
             seen == IF Reads(n) THEN disk[n] ELSE NoFile
  <2>1. Goes(p, pc, stored, files, q.pending, at, seen, q.disturbed)
    BY <1>1
  <2>2. /\ query'[p].pc = pc /\ query'[p].stored = stored /\ query'[p].files = files
        /\ query'[p].pending = q.pending /\ query'[p].at = at /\ query'[p].seen = seen
        /\ query'[p].disturbed = q.disturbed
    <3> HIDE DEF pc, stored, files, at, seen
    <3> QED
      BY <2>1, GoesTo
  <2>3. QED
    BY <2>2
<1>3. UNCHANGED <<disk, store, reader>> /\ Here' = Here /\ q.pc = "stat"
  BY DEF RefreshStat, Here
<1>4. q.at = {} /\ q.files \subseteq Note /\ n \in Note /\ q.stored \in Index
  BY <1>3 DEF QueryInv, TypeInv, Query
<1>5. ASSUME NEW m \in Note \ q.disturbed
      PROVE  /\ m \in query'[p].files => m \in Here
             /\ m \in query'[p].files \/ m \notin Here => Unread(p, m)'
             /\ m \notin query'[p].files /\ m \in Here => Scan(p, m)'
  <2>1. /\ m \in q.files => m \in Here
        /\ m \in q.files \/ m \notin Here => Unread(p, m)
        /\ m \notin q.files /\ m \in Here => Scan(p, m)
    BY <1>3 DEF QueryInv
  <2>2. CASE m = n
    <3>1. m \in Here /\ Unread(p, m) /\ m \notin query'[p].files
      BY <1>2, <2>1, <2>2
    <3>2. query'[p].stored[m] = None
      BY <1>2, <1>4, <2>2 DEF Index
    <3>3. CASE Reads(n)
      BY <1>2, <1>3, <2>2, <3>1, <3>2, <3>3 DEF Scan
    <3>4. CASE ~Reads(n)
      <4>1. q.stored[m].time = disk[m].time
        BY <2>2, <3>1, <3>4
      <4>2. q.pending[m] = None /\ reader[p][m] = store[m] /\ reader[p][m].time = disk[m].time
        BY <3>1, <4>1 DEF Unread
      <4>3. QED
        BY <1>2, <1>3, <3>1, <3>2, <3>4, <4>2 DEF Scan
    <3>5. QED
      BY <3>1, <3>3, <3>4
  <2>3. CASE m # n
    <3>1. query'[p].stored[m] = q.stored[m] /\ m \notin query'[p].at /\ (m \in query'[p].files <=> m \in q.files)
      BY <1>2, <1>4, <2>3 DEF Index
    <3>2. Unread(p, m) => Unread(p, m)'
      BY <1>2, <1>3, <3>1 DEF Unread
    <3>3. Scan(p, m) => Scan(p, m)'
      BY <1>2, <1>3, <1>4, <3>1 DEF Scan
    <3>4. QED
      BY <2>1, <3>1, <3>2, <3>3
  <2>4. QED
    BY <2>2, <2>3
<1>6. /\ query'[p].pc # "walk" /\ (query'[p].pc # "read" => query'[p].at = {})
      /\ query'[p].at \cap query'[p].files = {}
  BY <1>2
<1>7. QED
  <2> HIDE DEF Reads, q
  <2> QED
    BY <1>2, <1>3, <1>5, <1>6 DEF QueryInv

\* A file that is read while nobody disturbs it is indexed as it is.
LEMMA ReadKnows ==
    ASSUME TypeInv, NEW p \in Proc, QueryInv(p), RefreshRead(p)
    PROVE  QueryInv(p)'
<1> DEFINE q == query[p]
           pending == [n \in Note |-> IF n \in q.at \cap Here THEN Document(q.seen, disk[n])
                                     ELSE q.pending[n]]
<1>1. Goes(p, "stat", q.stored, q.files, pending, {}, NoFile, q.disturbed)
  BY DEF RefreshRead
<1>2. /\ query'[p].pc = "stat" /\ query'[p].stored = q.stored /\ query'[p].files = q.files
      /\ query'[p].pending = pending /\ query'[p].at = {} /\ query'[p].disturbed = q.disturbed
  <2> HIDE DEF pending
  <2> QED
    BY <1>1, GoesTo
<1>3. UNCHANGED <<disk, store, reader>> /\ Here' = Here /\ q.pc = "read"
  BY DEF RefreshRead, Here
<1>4. ASSUME NEW m \in Note \ q.disturbed
      PROVE  /\ m \in q.files => m \in Here
             /\ m \in q.files \/ m \notin Here => Unread(p, m)'
             /\ m \notin q.files /\ m \in Here => Scan(p, m)'
  <2>1. /\ m \in q.files => m \in Here
        /\ m \in q.files \/ m \notin Here => Unread(p, m)
        /\ m \notin q.files /\ m \in Here => Scan(p, m)
    BY <1>3 DEF QueryInv
  <2>2. Unread(p, m) /\ (m \notin q.at \/ m \notin Here) => Unread(p, m)'
    BY <1>2, <1>3 DEF Unread
  <2>3. Scan(p, m) /\ m \notin q.at => Scan(p, m)'
    BY <1>2, <1>3 DEF Scan
  <2>4. Scan(p, m) /\ m \in q.at /\ m \in Here => Scan(p, m)'
    <3> SUFFICES ASSUME Scan(p, m), m \in q.at, m \in Here PROVE Scan(p, m)'
      OBVIOUS
    <3>1. pending[m] = [text |-> disk[m].text, time |-> disk[m].time, torn |-> FALSE]
      BY DEF Scan, Document
    <3>2. QED
      <4> HIDE DEF pending
      <4> QED
        BY <1>2, <1>3, <3>1 DEF Scan
  <2>5. m \in q.files => m \notin q.at
    BY <1>3 DEF QueryInv
  <2>6. QED
    BY <2>1, <2>2, <2>3, <2>4, <2>5
<1>5. QED
  <2> HIDE DEF pending, q
  <2> QED
    BY <1>2, <1>3, <1>4 DEF QueryInv, q

\* A commit of a refresh leaves its notes with the entry of their file, or none, and
\* reloads the reader.
LEMMA RefreshKnows ==
    ASSUME Bounded, TypeInv, NEW p \in Proc, QueryInv(p), RefreshIndex(p) \/ RefreshRemove(p)
    PROVE  QueryInv(p)'
<1> DEFINE q == query[p]
           k == query'[p]
<1>1. PICK ns \in SUBSET Note, s \in Index : CommitOf(p, ns, s)
  BY CommitMoves
<1>2. /\ store' = s /\ reader'[p] = s /\ disk' = disk /\ Here' = Here
      /\ k.pc = "stat" /\ q.pc = "stat" /\ k.files = {} /\ q.files = {} /\ k.at = q.at /\ q.at = {}
      /\ k.disturbed = q.disturbed /\ q.stored \in Index
  BY <1>1 DEF CommitOf, Commit, Reloaded, TypeInv, RefreshIndex, RefreshRemove, Here, QueryInv, Query
<1>3. \/ /\ k.stored = q.stored /\ k.pending = Empty /\ ns = {n \in Note : q.pending[n] # None}
         /\ \A n \in ns : s[n] = q.pending[n]
      \/ /\ k.pending = Empty /\ q.pending = Empty
         /\ \E n \in Note : /\ ns = {n} /\ q.stored[n] # None /\ s[n] = None
                           /\ k.stored = [q.stored EXCEPT ![n] = None]
  BY <1>1 DEF CommitOf
<1>4. \A n \in Note \ ns : s[n] = store[n]
  BY <1>1 DEF CommitOf
<1>5. \A n \in Note : Empty[n] = None
  BY DEF Empty
<1>6. ASSUME NEW n \in Note \ q.disturbed, n \notin Here
      PROVE  Unread(p, n)'
  <2>1. Unread(p, n)
    BY <1>2, <1>6 DEF QueryInv
  <2>2. n \notin ns => s[n] = store[n]
    BY <1>4
  <2>3. CASE k.stored = q.stored /\ k.pending = Empty /\ n \notin ns
    BY <1>2, <1>5, <2>1, <2>2, <2>3 DEF Unread
  <2>4. CASE /\ k.pending = Empty
             /\ \E m \in Note : /\ ns = {m} /\ s[m] = None /\ k.stored = [q.stored EXCEPT ![m] = None]
    <3>1. PICK m \in Note : ns = {m} /\ s[m] = None /\ k.stored = [q.stored EXCEPT ![m] = None]
      BY <2>4
    <3>2. CASE m = n
      <4>1. k.stored[n] = None
        BY <1>2, <3>1, <3>2 DEF Index
      <4>2. QED
        BY <1>2, <1>5, <2>4, <3>1, <3>2, <4>1 DEF Unread
    <3>3. CASE m # n
      <4>1. k.stored[n] = q.stored[n]
        BY <1>2, <3>1, <3>3 DEF Index
      <4>2. QED
        BY <1>2, <1>5, <2>1, <2>2, <2>4, <3>1, <3>3, <4>1 DEF Unread
    <3>4. QED
      BY <3>2, <3>3
  <2>5. QED
    BY <1>3, <2>1, <2>3, <2>4 DEF Unread
<1>7. ASSUME NEW n \in Note \ q.disturbed, n \in Here
      PROVE  Scan(p, n)'
  <2>1. Scan(p, n) /\ n \notin q.at
    BY <1>2, <1>7 DEF QueryInv
  <2>2. n \notin ns => s[n] = store[n]
    BY <1>4
  <2>3. [text |-> disk[n].text, time |-> disk[n].time, torn |-> FALSE] # None
    BY <1>7 DEF Here, None
  <2>4. CASE /\ k.stored = q.stored /\ k.pending = Empty /\ ns = {m \in Note : q.pending[m] # None}
             /\ \A m \in ns : s[m] = q.pending[m]
    <3>1. CASE q.pending[n] = [text |-> disk[n].text, time |-> disk[n].time, torn |-> FALSE]
      <4>1. s[n] = [text |-> disk[n].text, time |-> disk[n].time, torn |-> FALSE]
        BY <2>3, <2>4, <3>1
      <4>2. QED
        BY <1>2, <1>5, <2>1, <2>4, <4>1 DEF Scan
    <3>2. CASE q.pending[n] = None /\ reader[p][n] = store[n] /\ reader[p][n].time = disk[n].time
      BY <1>2, <1>5, <2>1, <2>2, <2>4, <3>2 DEF Scan
    <3>3. QED
      BY <2>1, <3>1, <3>2 DEF Scan
  <2>5. CASE /\ k.pending = Empty /\ q.pending = Empty
             /\ \E m \in Note : /\ ns = {m} /\ q.stored[m] # None
                               /\ k.stored = [q.stored EXCEPT ![m] = None]
    <3>1. PICK m \in Note : ns = {m} /\ q.stored[m] # None /\ k.stored = [q.stored EXCEPT ![m] = None]
      BY <2>5
    <3>2. m # n /\ k.stored[n] = None
      BY <1>2, <2>1, <3>1 DEF Scan, Index
    <3>3. reader[p][n] = store[n] /\ reader[p][n].time = disk[n].time
      BY <1>5, <2>1, <2>3, <2>5 DEF Scan
    <3>4. QED
      BY <1>2, <1>5, <2>1, <2>2, <2>5, <3>1, <3>2, <3>3 DEF Scan
  <2>6. QED
    BY <1>3, <2>4, <2>5
<1>8. QED
  <2> HIDE DEF q, k
  <2> QED
    BY <1>2, <1>6, <1>7 DEF QueryInv, q, k

\* The steps of the others disturb the notes they change.
LEMMA OthersKnow ==
    ASSUME Bounded, TypeInv, NEW p \in Proc, QueryInv(p), NEW ns \in SUBSET Note,
           query'[p] = Disturb(ns)[p],
           \A n \in Note \ ns : /\ disk'[n] = disk[n] /\ store'[n] = store[n]
                                /\ reader'[p][n] = reader[p][n] \/ reader'[p][n] = store[n]
    PROVE  QueryInv(p)'
  BY DisturbTypes, QueryWaits

\* Every step leaves each query what it knows of the notes nobody disturbed.
LEMMA QueryStep ==
    ASSUME Bounded, TypeInv, [Next]_vars, NEW p \in Proc, QueryInv(p)
    PROVE  QueryInv(p)'
<1>1. ASSUME NEW f, Changed(f), UNCHANGED <<store, reader>>
      PROVE  QueryInv(p)'
  <2> DEFINE ns == {n \in Note : f[n] # disk[n]}
  <2>1. query'[p] = Disturb(ns)[p] /\ \A n \in Note \ ns : disk'[n] = disk[n]
    BY <1>1 DEF Changed
  <2>2. ns \in SUBSET Note
    OBVIOUS
  <2>3. QED
    <3> HIDE DEF ns
    <3> QED
      BY <1>1, <2>1, <2>2, OthersKnow
<1>2. ASSUME query'[p] = query[p], UNCHANGED <<disk, store, reader>>
      PROVE  QueryInv(p)'
  BY <1>2, QueryWaits
<1>3. ASSUME NEW r \in Proc, ToolWrite(r) \/ ToolDelete(r) \/ ToolMove(r)
      PROVE  QueryInv(p)'
  BY <1>1, <1>3, ToolStarts DEF Event
<1>4. ASSUME NEW r \in Proc, UpdateRemove(r) \/ SyncCommit(r)
      PROVE  QueryInv(p)'
  <2> DEFINE n == Head(sync[r].todo).note
  <2>1. n \in Note /\ store \in Index
    BY <1>4, EventTypes DEF UpdateRemove, SyncCommit, TypeInv
  <2>2. query' = Disturb({n}) /\ disk' = disk /\ \E e : Commit(r, [store EXCEPT ![n] = e])
    BY <1>4 DEF UpdateRemove, SyncCommit
  <2>3. PICK e : Commit(r, [store EXCEPT ![n] = e])
    BY <2>2
  <2>4. ASSUME NEW m \in Note \ {n}
        PROVE  store'[m] = store[m] /\ (reader'[p][m] = reader[p][m] \/ reader'[p][m] = store[m])
    BY <2>1, <2>3 DEF Commit, Reloaded, TypeInv, Index
  <2>5. QED
    <3> HIDE DEF n
    <3>1. {n} \in SUBSET Note
      BY <2>1
    <3>2. QED
      BY <2>2, <2>4, <3>1, OthersKnow
<1>5. ASSUME NEW r \in Proc, SyncReadContent(r) \/ SyncReadTime(r) \/ UpdateFails(r)
      PROVE  QueryInv(p)'
  BY <1>2, <1>5 DEF SyncReadContent, SyncReadTime, UpdateFails
<1>6. ASSUME NEW r \in Proc, QueryBegin(r) \/ RefreshWalk(r) \/ RefreshStat(r) \/ RefreshRead(r)
      PROVE  QueryInv(p)'
  <2>1. UNCHANGED <<disk, store, reader>>
    BY <1>6 DEF QueryBegin, RefreshWalk, RefreshStat, RefreshRead
  <2>2. CASE r # p
    BY <1>2, <1>6, <2>1, <2>2, LookTypes
  <2>3. CASE r = p
    BY <1>6, <2>3, BeginKnows, WalkKnows, StatKnows, ReadKnows
  <2>4. QED
    BY <2>2, <2>3
<1>7. ASSUME NEW r \in Proc, RefreshIndex(r) \/ RefreshRemove(r)
      PROVE  QueryInv(p)'
  <2>1. CASE r = p
    BY <1>7, <2>1, RefreshKnows
  <2>2. CASE r # p
    <3>1. PICK ns \in SUBSET Note, s \in Index : CommitOf(r, ns, s)
      BY <1>7, CommitMoves
    <3>2. /\ query'[p] = Disturb(ns)[p] /\ reader'[p] = reader[p]
          /\ \A n \in Note \ ns : store'[n] = store[n]
      BY <2>2, <3>1 DEF CommitOf, Commit, Reloaded, TypeInv
    <3>3. disk' = disk
      BY <1>7 DEF RefreshIndex, RefreshRemove
    <3>4. QED
      BY <3>2, <3>3, OthersKnow
  <2>3. QED
    BY <2>1, <2>2
<1>8. ASSUME NEW r \in Proc, RefreshFails(r) \/ Answer(r)
      PROVE  QueryInv(p)'
  <2>1. CASE r = p
    BY <1>8, <2>1, OverTypes DEF QueryInv
  <2>2. CASE r # p
    BY <1>2, <1>8, <2>2, OverTypes DEF RefreshFails, Answer
  <2>3. QED
    BY <2>1, <2>2
<1>9. CASE OtherChange
  BY <1>1, <1>9, OtherRenews DEF OtherChange
<1>10. CASE UNCHANGED vars
  BY <1>2, <1>10 DEF vars
<1>11. QED
  BY <1>3, <1>4, <1>5, <1>6, <1>7, <1>8, <1>9, <1>10 DEF Next

-----------------------------------------------------------------------------
(* Theorems.                                                                *)

\* The three parts together hold at first, and every step keeps them.
LEMMA InvInductive ==
    ASSUME Bounded
    PROVE  /\ Init => Inv
           /\ Inv /\ [Next]_vars => Inv'
<1>1. ASSUME Init
      PROVE  Inv
  <2>1. \A p \in Proc : query[p].pc = "idle"
    BY <1>1 DEF Init, NoQuery
  <2>2. QED
    BY <1>1, <2>1, TypeInit, HistoryInit DEF Inv, QueryInv
<1>2. ASSUME Inv, [Next]_vars
      PROVE  Inv'
  BY <1>2, TypeStep, HistoryStep, QueryStep DEF Inv
<1>3. QED
  BY <1>1, <1>2

\* A query that is about to answer knows every note nobody has disturbed.
LEMMA AnswersAreFresh ==
    ASSUME Bounded, Inv
    PROVE  QueryFresh
<1> SUFFICES ASSUME NEW p \in Proc, Answering(p), NEW n \in Note \ query[p].disturbed
             PROVE  \/ reader[p][n].text = disk[n].text
                    \/ reader[p][n].torn /\ reader[p][n].time = disk[n].time
  BY DEF QueryFresh
<1> DEFINE q == query[p]
<1>1. /\ q.pc = "stat" /\ q.files = {} /\ q.at = {} /\ q.pending[n] = None /\ q.stored[n] = None
  BY DEF Answering, Scanned, Gone, Empty, Inv, QueryInv
<1>2. PICK w \in [Times -> Text \cup {Absent}] : Agrees(w)
  BY DEF Inv, HistoryInv
<1>3. FileFits(disk[n], w, clock) /\ Fits(reader[p][n], w, clock)
  BY <1>2 DEF Agrees
<1>4. CASE n \notin Here
  <2>1. Unread(p, n)
    BY <1>1, <1>4 DEF Inv, QueryInv
  <2>2. disk[n] = NoFile
    BY <1>3, <1>4 DEF Here, FileFits, Bounded
  <2>3. reader[p][n] = None
    BY <1>1, <2>1, <2>2 DEF Unread, None, NoFile
  <2>4. QED
    BY <2>2, <2>3 DEF None, NoFile
<1>5. CASE n \in Here
  <2>1. Scan(p, n)
    BY <1>1, <1>5 DEF Inv, QueryInv
  <2>2. [text |-> disk[n].text, time |-> disk[n].time, torn |-> FALSE] # None
    BY <1>5 DEF Here, None
  <2>3. reader[p][n].time = disk[n].time
    BY <1>1, <2>1, <2>2 DEF Scan
  <2>4. disk[n] # NoFile
    BY <1>5 DEF Here, NoFile
  <2>5. disk[n].time \in 1..clock /\ disk[n].text = w[disk[n].time]
    BY <1>3, <2>4 DEF FileFits
  <2>6. reader[p][n] # None
    BY <2>3, <2>5 DEF None
  <2>7. QED
    BY <1>3, <2>3, <2>5, <2>6 DEF Fits
<1>6. QED
  BY <1>4, <1>5

\* The variables of files, index, queries and events keep their types.
THEOREM TextTypeCorrect == Bounded => (Spec => []TypeOK)
<1> SUFFICES ASSUME Bounded PROVE Spec => []TypeOK
  OBVIOUS
<1>1. Init => Inv
  BY InvInductive
<1>2. Inv /\ [Next]_vars => Inv'
  BY InvInductive
<1>3. Inv => TypeOK
  BY DEF Inv, TypeInv, TypeOK, QueryOk, Query, SyncOk, Sync
<1>4. QED
  BY <1>1, <1>2, <1>3, PTL DEF Spec

\* query_text answers from the files as they are (sync.rs, refresh), whatever events,
\* refreshes and changes of files went before, in any number of processes: each note
\* that nobody changed or indexed meanwhile is shown with its content, or not at all
\* if it is gone, but for a torn entry with the time of its file.
THEOREM QueriesAreFresh == Bounded => (Spec => []QueryFresh)
<1> SUFFICES ASSUME Bounded PROVE Spec => []QueryFresh
  OBVIOUS
<1>1. Init => Inv
  BY InvInductive
<1>2. Inv /\ [Next]_vars => Inv'
  BY InvInductive
<1>3. Inv => QueryFresh
  BY AnswersAreFresh
<1>4. QED
  BY <1>1, <1>2, <1>3, PTL DEF Spec

=============================================================================
