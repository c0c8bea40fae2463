--------------------------- MODULE FileMutations ---------------------------
(***************************************************************************)
(* The mutations contextos-fs applies to the files of one vault, as the    *)
(* tools fs_write_file, fs_edit_file, fs_create_directory, fs_move_file,   *)
(* fs_delete_file and git_restore ask for them.  Every mutation first      *)
(* looks at the vault and then acts on what it saw.  The vault's root lock *)
(* keeps other tools out between the two; nothing keeps out the program    *)
(* the operator edits the vault with.                                      *)
(*                                                                         *)
(* The vault has one folder, with an index.md the server manages.          *)
(***************************************************************************)
EXTENDS Naturals, Sequences, FiniteSets, SequencesExt

CONSTANTS Caller,      \* tool calls that can be in progress at once
          Note,        \* paths of notes
          Inside,      \* the notes in the folder
          Folder,      \* the folder's own path
          Text,        \* contents of a note
          Absent,      \* there is no such note
          Nil,         \* no path, no expected hash, a free lock
          Old,         \* the notes of the commit a restore goes back to
          Destructive, \* git.destructive_delete of the vault
          MaxBatch,    \* max_batch_files of the vault
          MaxCall,     \* bound: calls
          MaxEdit      \* bound: changes by the other program

Tree == [Note -> Text \cup {Absent}]

ASSUME VaultAssumption ==
    /\ IsFiniteSet(Note) /\ Inside \subseteq Note /\ Folder \notin Note
    /\ Absent \notin Text /\ Nil \notin Text \cup Note \cup Caller \cup {Folder}
    /\ Old \in Tree
    /\ Destructive \in BOOLEAN
    /\ MaxBatch \in Nat /\ MaxCall \in Nat /\ MaxEdit \in Nat

VARIABLES file,    \* content of each note
          folder,  \* does the folder exist
          index,   \* does the folder hold its index.md
          lock,    \* the call that holds the vault's root lock
          call,    \* the calls in progress
          owned,   \* PendingBatch.paths: what tools changed since the last commit
          mine,    \* history: every path a tool ever changed
          calls,   \* history: calls so far
          edits    \* history: changes by the other program so far

vars == <<file, folder, index, lock, call, owned, mine, calls, edits>>

Kinds == {"none", "write", "edit", "create", "move", "delete", "batch", "restore"}
Phases == {"idle", "waiting", "plan", "check", "apply", "clear", "retry"}

\* One mutation: what it does, where, and what a write takes along.
Step == [op : {"write", "create", "move", "trash", "hard", "recursive"},
         at : Note \cup {Folder}, to : Note \cup {Nil},
         text : Text \cup {Nil}, expect : Text \cup {Absent, Nil}, force : BOOLEAN]

Do(op, at) == [op |-> op, at |-> at, to |-> Nil, text |-> Nil, expect |-> Nil,
               force |-> FALSE]

Idle == [pc |-> "idle", kind |-> "none", steps |-> << >>, seen |-> Nil, touched |-> {}]

\* A call goes on at another place, with the mutations that are left to it.
Goes(c, pc, kind, steps) ==
    call' = [call EXCEPT ![c] = [pc |-> pc, kind |-> kind, steps |-> steps, seen |-> Nil, touched |-> {}]]

Turns(c, pc, steps) == Goes(c, pc, call[c].kind, steps)

-----------------------------------------------------------------------------
(* Requests.                                                                *)

\* fs_write_file: the content, and the hash the caller believes is there.
Writes == [op : {"write"}, at : Note, to : {Nil}, text : Text, expect : Text \cup {Nil}, force : BOOLEAN]

Moves == [op : {"move"}, at : Note, to : Note, text : {Nil}, expect : {Nil}, force : {FALSE}]

\* plan_one_delete: a hard deletion needs the vault's permission.
Deletes == {Do(op, p) : op \in IF Destructive THEN {"trash", "hard"} ELSE {"trash"},
                        p \in Note \cup {Folder}}

\* plan_delete: the notes a pattern matches, or nothing if there are too many.
Matched ==
    LET found == {n \in Inside : file[n] # Absent}
    IN  IF folder /\ Cardinality(found) <= MaxBatch
        THEN SetToSeq({Do("trash", n) : n \in found})
        ELSE << >>

\* The kinds of call, and the mutations each asks for.  An edit and a restore plan
\* theirs later.
Requests ==
    [kind : {"write", "edit"}, steps : {<<s>> : s \in Writes}]
    \cup [kind : {"create"}, steps : {<<Do("create", Folder)>>}]
    \cup [kind : {"move"}, steps : {<<s>> : s \in Moves}]
    \cup [kind : {"delete"}, steps : {<<s>> : s \in Deletes}]
    \cup [kind : {"batch"}, steps : {Matched}]
    \cup [kind : {"restore"}, steps : {<< >>}]

\* The request is resolved, and a batch planned, before the lock is asked for.
Begin(c) ==
    /\ call[c].pc = "idle" /\ calls < MaxCall
    /\ calls' = calls + 1
    /\ \E r \in Requests : Goes(c, "waiting", r.kind, r.steps)
    /\ UNCHANGED <<file, folder, index, lock, owned, mine, edits>>

\* Mutant: the vault is not locked.
MutFree == TRUE

Free == lock = Nil

Acquire(c) ==
    /\ call[c].pc = "waiting" /\ Free
    /\ lock' = c
    /\ Turns(c, IF call[c].kind \in {"edit", "restore"} THEN "plan" ELSE "check", call[c].steps)
    /\ UNCHANGED <<file, folder, index, owned, mine, calls, edits>>

\* The call returns; its guards are dropped.
Return(c) ==
    /\ call[c].pc = "check" /\ call[c].steps = << >>
    /\ call' = [call EXCEPT ![c] = Idle]
    /\ lock' = Nil
    /\ UNCHANGED <<file, folder, index, owned, mine, calls, edits>>

\* What is left after a mutation that failed: the other targets of a batch.
Rest(c) == IF call[c].kind = "batch" THEN Tail(call[c].steps) ELSE << >>

-----------------------------------------------------------------------------
(* Plans made under the lock.                                               *)

\* edit_file: the file is read, every edit must match exactly once, and the
\* write expects what was read, unless the caller named a hash.
PlanEdit(c) ==
    /\ call[c].pc = "plan" /\ call[c].kind = "edit"
    /\ LET s == Head(call[c].steps)
           current == file[s.at]
       IN  \/ /\ current # Absent
              /\ Turns(c, "check", <<[s EXCEPT !.expect = IF @ = Nil THEN current ELSE @]>>)
           \/ Turns(c, "check", << >>)
    /\ UNCHANGED <<file, folder, index, lock, owned, mine, calls, edits>>

Holds(p) == IF p = Folder THEN folder ELSE file[p] # Absent

UnderPath(p) == IF p = Folder THEN Inside ELSE {p}

\* Mutant: whatever the commit does not have is deleted.
MutOwnedDeletions == {n \in Note : Old[n] = Absent /\ Holds(n)}

\* owned_deletions: pending paths with nothing of the commit at or below them.
OwnedDeletions ==
    {p \in owned : Holds(p) /\ \A n \in UnderPath(p) : Old[n] = Absent}

\* What a restore may be asked for: the vault, or what the commit has at a path.
Scopes ==
    {Note \cup {Folder}} \cup {{n} : n \in {m \in Note : Old[m] # Absent}}
    \cup IF \E n \in Inside : Old[n] # Absent THEN {Inside \cup {Folder}} ELSE {}

\* restore: historical files that differ are written, then pending paths the
\* commit does not have are deleted, the deepest first.
PlanRestore(c) ==
    /\ call[c].pc = "plan" /\ call[c].kind = "restore"
    /\ \E scope \in Scopes, dry_run \in BOOLEAN :
        LET differ == {n \in Note \cap scope : Old[n] # Absent /\ file[n] # Old[n]}
            gone == OwnedDeletions \cap scope
            writes == {[Do("write", n) EXCEPT !.text = Old[n]] : n \in differ}
            deletes == {Do("hard", n) : n \in gone \cap Note}
            last == IF Folder \in gone THEN <<Do("recursive", Folder)>> ELSE << >>
        IN  Turns(c, "check", IF dry_run \/ (gone # {} /\ ~Destructive) THEN << >>
                              ELSE SetToSeq(writes) \o SetToSeq(deletes) \o last)
    /\ UNCHANGED <<file, folder, index, lock, owned, mine, calls, edits>>

-----------------------------------------------------------------------------
(* A mutation looks.                                                        *)

\* Mutant: a file that is there may be replaced by a caller that names no hash.
MutHashOk(s, expect) == s.force \/ expect \in {Nil, file[s.at]}

\* validate_expected_hash.
HashOk(s, expect) ==
    s.force \/ expect = file[s.at] \/ (expect = Nil /\ file[s.at] = Absent)

\* Mutant: only the index is looked for.
MutEmpty == ~index

Empty == ~index /\ \A n \in Inside : file[n] = Absent

\* A restore reads the hash to expect when it is about to write.
Expected(c, s) ==
    IF call[c].kind # "restore" \/ s.op # "write" THEN s.expect
    ELSE IF file[s.at] = Absent THEN Nil ELSE file[s.at]

May(c, s) ==
    \/ s.op = "write" /\ HashOk(s, Expected(c, s))
    \/ s.op = "create" /\ ~folder
    \/ s.op = "move" /\ file[s.at] # Absent /\ file[s.to] = Absent
    \/ /\ s.op \in {"trash", "hard", "recursive"} /\ Holds(s.at)
       /\ s.at = Folder /\ s.op # "recursive" => Empty

\* A folder that is not empty may hold nothing but its index: a deletion by a
\* tool then clears the index and looks once more.
Look(c) ==
    /\ call[c].pc \in {"check", "retry"} /\ call[c].steps # << >>
    /\ LET s == Head(call[c].steps)
           full == s.at = Folder /\ folder /\ ~Empty
           steps == <<[s EXCEPT !.expect = Expected(c, s)]>> \o Tail(call[c].steps)
       IN  \/ /\ May(c, s)
              /\ call' = [call EXCEPT ![c] = [pc |-> "apply", kind |-> call[c].kind, steps |-> steps,
                                              seen |-> file, touched |-> {}]]
           \/ /\ ~May(c, s)
              /\ IF full /\ call[c].pc = "check" /\ call[c].kind = "delete"
                 THEN Turns(c, "clear", call[c].steps)
                 ELSE Turns(c, "check", Rest(c))
    /\ UNCHANGED <<file, folder, index, lock, owned, mine, calls, edits>>

\* delete_honouring_managed_index: index.md goes, as an internal deletion, and
\* the folder is looked at once more; or that fails, and so does the call.
ClearIndex(c) ==
    /\ call[c].pc = "clear"
    /\ \/ index' = FALSE /\ Turns(c, "retry", call[c].steps)
       \/ UNCHANGED index /\ Turns(c, "check", Rest(c))
    /\ UNCHANGED <<file, folder, lock, owned, mine, calls, edits>>

-----------------------------------------------------------------------------
(* A mutation acts on what it saw.                                          *)

\* The next step, and the paths of the event, which git stages.
Proceed(c, paths) ==
    /\ owned' = owned \cup paths /\ mine' = mine \cup paths
    /\ Turns(c, "check", Tail(call[c].steps))

\* The event has the index of a folder it touches reconciled, if that works.
Reconciled(exists, touches) ==
    IF ~exists THEN {FALSE} ELSE IF touches THEN {index, TRUE} ELSE {index}

\* The temporary file is renamed over the target; its folder is made first.
ApplyWrite(c) ==
    /\ call[c].pc = "apply"
    /\ LET s == Head(call[c].steps) IN
         /\ s.op = "write"
         /\ file' = [file EXCEPT ![s.at] = s.text]
         /\ folder' = (folder \/ s.at \in Inside)
         /\ index' \in Reconciled(folder', s.at \in Inside)
         /\ Proceed(c, {s.at})
    /\ UNCHANGED <<lock, calls, edits>>

ApplyCreate(c) ==
    /\ call[c].pc = "apply"
    /\ Head(call[c].steps).op = "create"
    /\ folder' = TRUE
    /\ index' \in Reconciled(TRUE, TRUE)
    /\ Proceed(c, {Folder})
    /\ UNCHANGED <<file, lock, calls, edits>>

\* rename replaces a file that has appeared at the destination meanwhile.
ApplyMove(c) ==
    /\ call[c].pc = "apply"
    /\ LET s == Head(call[c].steps) IN
         /\ s.op = "move" /\ file[s.at] # Absent
         /\ file' = [file EXCEPT ![s.to] = file[s.at], ![s.at] = Absent]
         /\ folder' = (folder \/ s.to \in Inside)
         /\ index' \in Reconciled(folder', {s.at, s.to} \cap Inside # {})
         /\ Proceed(c, {s.at, s.to})
    /\ UNCHANGED <<lock, calls, edits>>

\* The trash and remove_dir_all take a folder with all it holds by now.
ApplyDelete(c) ==
    /\ call[c].pc = "apply"
    /\ LET s == Head(call[c].steps) IN
         /\ s.op \in {"trash", "hard", "recursive"} /\ Holds(s.at)
         /\ s.op = "hard" /\ s.at = Folder => Empty
         /\ file' = [n \in Note |-> IF n \in UnderPath(s.at) THEN Absent ELSE file[n]]
         /\ folder' = (folder /\ s.at # Folder)
         /\ index' \in Reconciled(folder', s.at \in Inside)
         /\ Proceed(c, {s.at})
    /\ UNCHANGED <<lock, calls, edits>>

\* The system call fails: the source is gone, or anything else.  The folder of
\* a file to write or to move to may have been made by then.
ApplyFails(c) ==
    /\ call[c].pc = "apply"
    /\ LET s == Head(call[c].steps)
           makes == (s.op = "write" /\ s.at \in Inside) \/ s.to \in Inside
       IN  folder' \in {folder, folder \/ makes}
    /\ Turns(c, "check", Rest(c))
    /\ UNCHANGED <<file, index, lock, owned, mine, calls, edits>>

-----------------------------------------------------------------------------

\* The other program writes or removes a note, at any time.
OtherEdits ==
    /\ edits < MaxEdit /\ edits' = edits + 1
    /\ \E n \in Note, t \in Text \cup {Absent} :
         /\ file[n] # t
         /\ file' = [file EXCEPT ![n] = t]
         /\ folder' = (folder \/ n \in Inside)
         /\ call' = [c \in Caller |-> [call[c] EXCEPT !.touched =
                       IF call[c].pc = "apply" THEN @ \cup {n} ELSE @]]
    /\ UNCHANGED <<index, lock, owned, mine, calls>>

\* The debounce timer or git_commit empties the batch.
Commit ==
    /\ owned # {} /\ owned' = {}
    /\ UNCHANGED <<file, folder, index, lock, call, mine, calls, edits>>

Init ==
    /\ file \in {Old, [n \in Note |-> Absent]}
    /\ folder = (\E n \in Inside : file[n] # Absent)
    /\ index = folder
    /\ lock = Nil /\ call = [c \in Caller |-> Idle]
    /\ owned = {} /\ mine = {} /\ calls = 0 /\ edits = 0

Apply(c) ==
    ApplyWrite(c) \/ ApplyCreate(c) \/ ApplyMove(c) \/ ApplyDelete(c) \/ ApplyFails(c)

Next ==
    \/ \E c \in Caller :
         \/ Begin(c) \/ Acquire(c) \/ PlanEdit(c) \/ PlanRestore(c) \/ Look(c)
         \/ ClearIndex(c) \/ Apply(c) \/ Return(c)
    \/ OtherEdits \/ Commit

Spec == Init /\ [][Next]_vars

-----------------------------------------------------------------------------
(* Properties.                                                              *)

TypeOK ==
    /\ file \in Tree /\ folder \in BOOLEAN /\ index \in BOOLEAN
    /\ lock \in Caller \cup {Nil}
    /\ \A c \in Caller :
         /\ call[c].pc \in Phases /\ call[c].kind \in Kinds
         /\ call[c].steps \in Seq(Step)
         /\ call[c].seen \in Tree \cup {Nil} /\ call[c].touched \in SUBSET Note
    /\ mine \in SUBSET (Note \cup {Folder}) /\ owned \in SUBSET mine
    /\ calls \in 0..MaxCall /\ edits \in 0..MaxEdit
    /\ index => folder
    /\ \A n \in Inside : file[n] # Absent => folder

\* This step is the mutation of call c, and removes or replaces these notes.
Acts(c) == call[c].pc = "apply" /\ call'[c].pc = "check"

Lost == {n \in Note : file[n] # Absent /\ file'[n] # file[n]}

\* Conflict protection: between the look and the act of a mutation no other
\* tool changes the vault, so a tool replaces or removes only content it has
\* looked at, and a write only the content its caller expects or forces.  What
\* the other program wrote in between is the exception: nothing holds it off.
ConflictSafe ==
    [][\A c \in Caller : Acts(c) =>
         LET s == Head(call[c].steps) IN
         \A n \in Lost \ call[c].touched :
             /\ file[n] = call[c].seen[n]
             /\ s.op = "write" /\ ~s.force => s.expect = file[n]]_vars

\* Deletions keep to their targets: deleting a folder takes no note along that
\* was there when the folder was looked at, and a restore deletes no note but
\* those that tools wrote, or that are in a folder a tool made.
DeletionsSpareNotes ==
    [][\A c \in Caller : Acts(c) =>
         LET s == Head(call[c].steps) IN
         /\ s.at = Folder /\ s.op # "recursive" => Lost \subseteq call[c].touched
         /\ call[c].kind = "restore" /\ s.op # "write" =>
              \A n \in Lost : n \in mine \/ (n \in Inside /\ Folder \in mine)]_vars

=============================================================================
