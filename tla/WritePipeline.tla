--------------------------- MODULE WritePipeline ---------------------------
(***************************************************************************)
(* How a tool call changes vaults and what hears of it.  A call takes the  *)
(* write locks of its vaults, applies its mutations, and routes the event  *)
(* of each, still under the locks: the managed indexes of the event's      *)
(* directories, the operation log with its retry buffer, then git and      *)
(* search, for the event and for the writes of index and log themselves.   *)
(* A failure on the way is a warning; the mutation stays.  Two tools write *)
(* without the router: vault_log_append and vault_index_rebuild.  At       *)
(* shutdown the buffered log records are tried once more, without locks.   *)
(*                                                                         *)
(* A vault has one note, in one folder of its top directory, and one log   *)
(* file (of one day).  Of a file only this matters: has git, has search    *)
(* been told of its last write.                                            *)
(***************************************************************************)
EXTENDS Naturals, Sequences

CONSTANTS RootCount, \* vaults, numbered in the configuration's order
          Caller,    \* tool calls that can be in progress at once
          Nil,       \* a lock is free
          MaxPaths,  \* bound: paths a request names
          Changes,   \* sets of directories whose entries one mutation can change
          MaxOps,    \* bound: mutations and manual log entries
          MaxFaults  \* bound: failures of index, log, git or search

ASSUME BoundAssumption ==
    /\ RootCount \in Nat \ {0}
    /\ MaxPaths \in Nat \ {0}
    /\ MaxOps \in Nat
    /\ MaxFaults \in Nat

ASSUME NilAssumption == Nil \notin Caller

Root == 1..RootCount
Dir == {"folder", "top"}
File == Dir \cup {"note", "log"}   \* a directory stands for its index.md

ASSUME ChangesAssumption == Changes \subseteq SUBSET Dir

Sink == {"git", "search"}
OpId == 1..MaxOps
Kinds == {"tool", "manual", "rebuild"}
Phases == {"idle", "waiting", "locked", "index", "log", "git", "search",
           "internal", "ending"}

\* The vaults of the paths a request names, in the order of its arguments: one,
\* two for a move, more for a batch of deletes.
Request == UNION {[1..n -> Root] : n \in 1..MaxPaths}

VARIABLES lock,    \* WriteCoordinator.locks: who holds each vault
          call,    \* the calls in progress
          stale,   \* directories whose index.md does not show their entries
          log,     \* the log file: the operation of each line
          pending, \* OperationLog.pending: records not known to be appended
          dirty,   \* dirty[s]: files sink s has not been told the last write of
          flushAt, \* 0 while serving, else the next vault of the last flush
          ops,     \* history: mutations and manual log entries so far
          owed,    \* history: operations whose log step is over, by vault
          faults   \* history: failures so far

vars == <<lock, call, stale, log, pending, dirty, flushAt, ops, owed, faults>>
vault == <<stale, log, pending, dirty, owed>>

Idle == [pc |-> "idle", kind |-> "tool", ask |-> << >>, event |-> {}, todo |-> {},
         found |-> {}, derived |-> {}, op |-> 0, clean |-> TRUE]

CallType ==
    [pc : Phases, kind : Kinds, ask : Request \cup {<< >>},
     event : SUBSET (Root \X File), todo : SUBSET Root,
     found : SUBSET (Root \X File), derived : SUBSET (Root \X File),
     op : OpId \cup {0}, clean : BOOLEAN]

\* Variables keep their types; a record is buffered only for a known operation.
TypeOK ==
    /\ lock \in [Root -> Caller \cup {Nil}]
    /\ call \in [Caller -> CallType]
    /\ stale \in SUBSET (Root \X Dir)
    /\ log \in [Root -> Seq(1..ops)]
    /\ pending \in [Root -> Seq(1..ops)]
    /\ dirty \in [Sink -> SUBSET (Root \X File)]
    /\ flushAt \in 0..(RootCount + 1)
    /\ ops \in 0..MaxOps
    /\ owed \in [Root -> SUBSET (1..ops)]
    /\ faults \in 0..MaxFaults

-----------------------------------------------------------------------------
(* WriteCoordinator::lock_roots and the guards a call carries.              *)

Elements(s) == {s[i] : i \in 1..Len(s)}
Held(c) == {r \in Root : lock[r] = c}
Least(S) == CHOOSE r \in S : \A q \in S : r <= q

\* Mutant: the locks are taken in the order of the request.
MutNextRoot(ask, held) ==
    ask[CHOOSE i \in 1..Len(ask) :
            ask[i] \notin held /\ \A j \in 1..(i - 1) : ask[j] \in held]

\* Indices are sorted and deduplicated before the first lock is taken.
NextRoot(ask, held) == Least(Elements(ask) \ held)

\* Mutant: a vault that is not the call's own is open to it.
MutFree(r) == TRUE
Free(r) == lock[r] = Nil

Begin(c) ==
    /\ call[c].pc = "idle" /\ flushAt = 0 /\ ops < MaxOps
    /\ \E ask \in Request, kind \in Kinds :
        /\ kind # "tool" => Len(ask) = 1
        /\ call' = [call EXCEPT ![c] = [Idle EXCEPT !.pc = "waiting",
                                                    !.kind = kind, !.ask = ask]]
    /\ UNCHANGED <<lock, vault, flushAt, ops, faults>>

Lock(c) ==
    /\ call[c].pc = "waiting"
    /\ LET r == NextRoot(call[c].ask, Held(c))
           all == Elements(call[c].ask) \subseteq Held(c) \cup {r}
       IN  /\ Free(r)
           /\ lock' = [lock EXCEPT ![r] = c]
           /\ call' = IF all THEN [call EXCEPT ![c].pc = "locked", ![c].ask = << >>]
                      ELSE call
    /\ UNCHANGED <<vault, flushAt, ops, faults>>

Unlocked(c) == [r \in Root |-> IF lock[r] = c THEN Nil ELSE lock[r]]

\* The call returns, after its work or on a primary error, and drops its guards.
Finish(c) ==
    /\ call[c].pc \in {"locked", "ending"}
    /\ call' = [call EXCEPT ![c] = Idle]
    /\ lock' = Unlocked(c)
    /\ UNCHANGED <<vault, flushAt, ops, faults>>

-----------------------------------------------------------------------------
(* Outcomes and writes.                                                     *)

\* A step may fail only while the bound on failures allows it.
Outcome(c, failed, next) ==
    /\ failed => faults < MaxFaults
    /\ faults' = IF failed THEN faults + 1 ELSE faults
    /\ call' = [call EXCEPT ![c] = [next EXCEPT !.clean = @ /\ ~failed]]

\* Mutant: an operation gets the number of the one before it.
MutNextOp == ops
NextOp == ops + 1

\* Files were written: neither git nor search knows their new content.
Dirtied(fs) == [s \in Sink |-> dirty[s] \cup fs]

\* The vaults an event's files are in.
RootsOf(fs) == {f[1] : f \in fs}

-----------------------------------------------------------------------------
(* RoutedWritePipeline: the mutation, then the route of its event.          *)

\* A note is created, changed, moved or deleted; a move between vaults changes
\* both.  Any of the directories may have to show other entries now.
Mutate(c) ==
    /\ call[c].pc = "locked" /\ call[c].kind = "tool" /\ ops < MaxOps
    /\ \E rs \in (SUBSET Held(c)) \ {{}} :
        /\ \E change \in [rs -> Changes] :
            stale' = stale \cup {f \in rs \X Dir : f[2] \in change[f[1]]}
        /\ dirty' = Dirtied(rs \X {"note"})
        /\ call' = [call EXCEPT ![c].pc = "index", ![c].event = rs \X {"note"},
                                ![c].todo = rs, ![c].op = NextOp,
                                ![c].clean = TRUE]
    /\ ops' = ops + 1
    /\ UNCHANGED <<lock, log, pending, owed, flushAt, faults>>

\* A delete first removes the folder's index.md itself, as an internal
\* operation: OperationRoute takes it to git and search only.
ClearIndex(c) ==
    /\ call[c].pc = "locked" /\ call[c].kind = "tool" /\ ops < MaxOps
    /\ \E r \in Held(c) :
        /\ stale' = stale \cup {<<r, "folder">>}
        /\ dirty' = Dirtied({<<r, "folder">>})
        /\ call' = [call EXCEPT ![c].pc = "git", ![c].event = {<<r, "folder">>},
                                ![c].op = 0, ![c].clean = TRUE]
    /\ ops' = ops + 1
    /\ UNCHANGED <<lock, log, pending, owed, flushAt, faults>>

\* The directories of one vault that a reconciliation gets done: the deepest
\* first, up to the one whose listing, rows or write fails.
Reconciled == {{}, {"folder"}, Dir}

\* IndexCollection::reconcile, one vault: an index whose rows have not changed
\* is not written and yields no event.  A failure ends the loop over the vaults
\* and drops the events found so far.
Reconcile(c) ==
    /\ call[c].pc = "index"
    /\ LET r == Least(call[c].todo)
           rest == call[c].todo \ {r}
       IN  \E ds \in Reconciled :
            LET written == stale \cap ({r} \X ds)
                found == call[c].found \cup written
            IN  /\ stale' = stale \ written
                /\ dirty' = Dirtied(written)
                /\ Outcome(c, ds # Dir,
                    IF ds # Dir
                    THEN [call[c] EXCEPT !.pc = "log", !.found = {},
                                         !.todo = RootsOf(call[c].event)]
                    ELSE IF rest # {}
                    THEN [call[c] EXCEPT !.todo = rest, !.found = found]
                    ELSE [call[c] EXCEPT !.pc = "log", !.found = {},
                                         !.derived = found,
                                         !.todo = RootsOf(call[c].event)])
    /\ UNCHANGED <<lock, log, pending, owed, flushAt, ops>>

-----------------------------------------------------------------------------
(* OperationLog: append_record and flush_pending under the buffer's mutex.  *)

\* Mutant: a new record is put before those that wait.
MutBuffered(r, op) == <<op>> \o pending[r]
Buffered(r, op) == Append(pending[r], op)

\* Mutant: a record is taken from the buffer before it is appended.
MutKept(ps, n) == SubSeq(ps, n + 2, Len(ps))
Kept(ps, n) == SubSeq(ps, n + 1, Len(ps))

\* Mutant: the log's own writes yield no events.
MutFlushEvents(r) == {}
FlushEvents(r) == {<<r, "log">>}

\* Of the records ps the first n are appended and popped.  If that is not all,
\* the next append failed: before its line was on disk, or (landed) after it.
FlushTo(r, ps, n, landed) ==
    /\ n = Len(ps) => ~landed
    /\ log' = [log EXCEPT ![r] = @ \o SubSeq(ps, 1, IF landed THEN n + 1 ELSE n)]
    /\ pending' = [pending EXCEPT ![r] = Kept(ps, n)]
    /\ dirty' = IF n > 0 \/ landed THEN Dirtied({<<r, "log">>}) ELSE dirty

\* OperationLogCollection::append, one vault.  A failure ends the loop over the
\* vaults and drops the events of every append made for this operation.
AppendEvent(c) ==
    /\ call[c].pc = "log"
    /\ LET r == Least(call[c].todo)
           rest == call[c].todo \ {r}
           ps == Buffered(r, call[c].op)
           found == call[c].found \cup FlushEvents(r)
           roots == RootsOf(call[c].event)
       IN  \E n \in 0..Len(ps), landed \in BOOLEAN :
            /\ FlushTo(r, ps, n, landed)
            /\ Outcome(c, n # Len(ps),
                IF n # Len(ps)
                THEN [call[c] EXCEPT !.pc = "git", !.found = {}, !.todo = {}]
                ELSE IF rest # {}
                THEN [call[c] EXCEPT !.todo = rest, !.found = found]
                ELSE [call[c] EXCEPT !.pc = "git", !.found = {}, !.todo = {},
                                     !.derived = @ \cup found])
            /\ owed' = IF n = Len(ps) /\ rest # {} THEN owed
                       ELSE [q \in Root |-> IF q \in roots
                                            THEN owed[q] \cup {call[c].op}
                                            ELSE owed[q]]
    /\ UNCHANGED <<lock, stale, flushAt, ops>>

\* vault_log_append: the caller gets the events, the router does not.
AppendManual(c) ==
    /\ call[c].pc = "locked" /\ call[c].kind = "manual" /\ ops < MaxOps
    /\ LET r == Least(Held(c))
           ps == Buffered(r, NextOp)
       IN  \E n \in 0..Len(ps), landed \in BOOLEAN :
            /\ FlushTo(r, ps, n, landed)
            /\ Outcome(c, n # Len(ps), [call[c] EXCEPT !.pc = "ending"])
            /\ owed' = [owed EXCEPT ![r] = @ \cup {NextOp}]
    /\ ops' = ops + 1
    /\ UNCHANGED <<lock, stale, flushAt>>

\* The directories a rebuild gets done, from the top down.
Rebuilt == {{}, {"top"}, Dir}

\* vault_index_rebuild: the report counts the writes, the router gets no event.
RebuildIndexes(c) ==
    /\ call[c].pc = "locked" /\ call[c].kind = "rebuild"
    /\ \E ds \in Rebuilt :
        LET written == stale \cap (Held(c) \X ds)
        IN  /\ stale' = stale \ written
            /\ dirty' = Dirtied(written)
            /\ Outcome(c, ds # Dir, [call[c] EXCEPT !.pc = "ending"])
    /\ UNCHANGED <<lock, log, pending, owed, flushAt, ops>>

-----------------------------------------------------------------------------
(* OperationRouter::route, its second half.                                 *)

\* The routed event reaches the vaults before the first that fails.
Tell(c, s, next) ==
    \E b \in 1..(RootCount + 1) :
        LET told == {f \in call[c].event : f[1] < b}
        IN  /\ dirty' = [dirty EXCEPT ![s] = @ \ told]
            /\ Outcome(c, told # call[c].event, [call[c] EXCEPT !.pc = next])

StageEvent(c) ==
    /\ call[c].pc = "git"
    /\ Tell(c, "git", "search")
    /\ UNCHANGED <<lock, stale, log, pending, owed, flushAt, ops>>

UpdateSearch(c) ==
    /\ call[c].pc = "search"
    /\ Tell(c, "search", "internal")
    /\ UNCHANGED <<lock, stale, log, pending, owed, flushAt, ops>>

\* One write of index or log: git and search are told, each whatever the other
\* did.  The events are independent, so one order stands for all.
TellInternal(c) ==
    /\ call[c].pc = "internal" /\ call[c].derived # {}
    /\ LET f == CHOOSE g \in call[c].derived : TRUE
       IN  \E told \in SUBSET Sink :
            /\ dirty' = [s \in Sink |-> IF s \in told THEN dirty[s] \ {f}
                                       ELSE dirty[s]]
            /\ Outcome(c, told # Sink, [call[c] EXCEPT !.derived = @ \ {f}])
    /\ UNCHANGED <<lock, stale, log, pending, owed, flushAt, ops>>

\* The warnings go back to the tool, which may have another mutation to make.
Routed(c) ==
    /\ call[c].pc = "internal" /\ call[c].derived = {}
    /\ call' = [call EXCEPT ![c] = [Idle EXCEPT !.pc = "locked"]]
    /\ UNCHANGED <<lock, vault, flushAt, ops, faults>>

-----------------------------------------------------------------------------
(* Shutdown: no new calls; those that run go on.                            *)

Shutdown ==
    /\ flushAt = 0
    /\ flushAt' = 1
    /\ UNCHANGED <<lock, call, vault, ops, faults>>

\* flush_operation_logs: every vault is attempted, the events are dropped.
FlushLog ==
    /\ flushAt \in Root
    /\ LET ps == pending[flushAt]
       IN  \E n \in 0..Len(ps), landed \in BOOLEAN :
            /\ FlushTo(flushAt, ps, n, landed)
            /\ n # Len(ps) => faults < MaxFaults
            /\ faults' = IF n # Len(ps) THEN faults + 1 ELSE faults
    /\ flushAt' = flushAt + 1
    /\ UNCHANGED <<lock, call, stale, owed, ops>>

\* The runtime ends: a call that still waits for a lock is dropped, one that
\* holds its locks runs to its end first.
Dropped(c) ==
    /\ flushAt = RootCount + 1 /\ call[c].pc = "waiting"
    /\ call' = [call EXCEPT ![c] = Idle]
    /\ lock' = Unlocked(c)
    /\ UNCHANGED <<vault, flushAt, ops, faults>>

-----------------------------------------------------------------------------

\* A server that starts on vaults in order: nothing buffered, nothing untold.
Init ==
    /\ lock = [r \in Root |-> Nil]
    /\ call = [c \in Caller |-> Idle]
    /\ stale = {}
    /\ log = [r \in Root |-> << >>]
    /\ pending = [r \in Root |-> << >>]
    /\ dirty = [s \in Sink |-> {}]
    /\ flushAt = 0 /\ ops = 0 /\ faults = 0
    /\ owed = [r \in Root |-> {}]

\* A step of a call, from its first lock to its end.
Step(c) ==
    \/ Begin(c) \/ Lock(c) \/ Finish(c) \/ Dropped(c)
    \/ Mutate(c) \/ ClearIndex(c) \/ AppendManual(c) \/ RebuildIndexes(c)
    \/ Reconcile(c) \/ AppendEvent(c)
    \/ StageEvent(c) \/ UpdateSearch(c) \/ TellInternal(c) \/ Routed(c)

Next == (\E c \in Caller : Step(c)) \/ Shutdown \/ FlushLog

Spec == Init /\ [][Next]_vars

-----------------------------------------------------------------------------
(* Properties.                                                              *)

\* The lines of a vault's log followed by the records it still buffers are in
\* the order of the operations, also after failed, half-failed and repeated
\* appends (OperationLog::flush: "in original order").
LogInOrder ==
    \A r \in Root :
        LET all == log[r] \o pending[r]
        IN  \A i, j \in 1..Len(all) : i < j => all[i] <= all[j]

Recorded(r, op) == op \in Elements(log[r]) \cup Elements(pending[r])

\* An operation is in the log of its first vault or in the buffer that is
\* retried, whatever failed.  Of its other vaults this is not so: a failure for
\* one vault means that no record is made for those after it.
OnRecord ==
    \A r \in Root : \A op \in owed[r] :
        Recorded(r, op) \/ \E q \in 1..(r - 1) : op \in owed[q]

\* When the route of a mutation ends without a warning, git and search know
\* the mutated files, and every line of the log of their vaults, those of
\* earlier failed operations included; and every index of their directories
\* shows its entries again.
CleanRouteIsSeen ==
    [][\A c \in Caller, s \in Sink :
        Routed(c) /\ call[c].clean =>
            /\ call[c].event \cap dirty'[s] = {}
            /\ call[c].op # 0 =>
                LET roots == RootsOf(call[c].event)
                IN  /\ (roots \X {"log"}) \cap dirty'[s] = {}
                    /\ (roots \X Dir) \cap stale' = {}]_vars

\* While calls are in progress one of them can go on: it has all its locks, or
\* the next one it needs is free.
NobodyIsStuck ==
    (\E c \in Caller : call[c].pc # "idle") =>
        \E c \in Caller :
            \/ call[c].pc \notin {"idle", "waiting"}
            \/ call[c].pc = "waiting" /\ Free(NextRoot(call[c].ask, Held(c)))

\* Every mutation's event is routed to git and search (the repository's
\* README.md:83).  With no call in progress and no failure ever, nothing is
\* unknown to them.
EveryWriteIsRouted ==
    faults = 0 /\ (\A c \in Caller : call[c].pc = "idle") =>
        \A s \in Sink : dirty[s] = {}

\* A vault is its holder's once that call has all it asked for.
Owner ==
    [r \in Root |-> IF lock[r] # Nil /\ call[lock[r]].pc # "waiting"
                    THEN lock[r] ELSE Nil]
Outdated == [r \in Root |-> {d \in Dir : <<r, d>> \in stale}]
Untold == [r \in Root |-> {u \in Sink \X File : <<r, u[2]>> \in dirty[u[1]]}]

Turns == INSTANCE VaultTurns WITH
    owner <- Owner, outdated <- Outdated, untold <- Untold

\* Calls do nothing that VaultTurns does not allow: between its last lock and its
\* first unlock a call is alone with its vaults and touches no others, although
\* it takes them one by one, and although appends fail, half succeed and are
\* repeated (WriteCoordinator::lock_roots and the guards held over the route).
ImplementsVaultTurns == Turns!Spec

=============================================================================
