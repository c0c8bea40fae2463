-------------------------- MODULE HostRegistration --------------------------
(***************************************************************************)
(* The entry of this server in the configuration of the host application    *)
(* (contextos-mcp, host_registration.rs): calls that register and remove it, *)
(* from the command line (main.rs) and from the interview (interview.rs),   *)
(* while the host starts, stops and writes its file itself.                 *)
(*                                                                         *)
(* Of the file the model keeps whether it is there, whether it and its      *)
(* mcpServers are JSON objects, and which servers it holds.                 *)
(***************************************************************************)
EXTENDS Integers, FiniteSets

CONSTANTS Caller,      \* the calls
          Other,       \* the names of other servers
          Packages,    \* the package directories there can be
          MaxSecond,   \* bound: the seconds that pass
          MaxHostWrite \* bound: how often the host writes its file

VARIABLES file,    \* claude_desktop_config.json
          backups, \* the backup made in each second: a document, or nothing
          second,  \* the clock
          host,    \* whether the host runs, the entry of ours it has read, and bound: its writes
          calls    \* where each call is

vars == <<file, backups, second, host, calls>>

-----------------------------------------------------------------------------
(* The file.                                                                *)

Missing == [is |-> "missing", ours |-> "none", others |-> {}]
Malformed == [is |-> "malformed", ours |-> "none", others |-> {}]
Object(ours, others) == [is |-> "object", ours |-> ours, others |-> others]

\* An entry of ours (SERVER_KEY) is the one to register, or another: of an earlier
\* installation, or unreadable.
Entries == {"none", "new", "old"}
Contents == {Missing, Malformed} \cup {Object(e, o) : e \in Entries, o \in SUBSET Other}

\* load_document and the edit of what it read: whether they refuse, and the document to write.
Refused(doc, do) == doc.is = "malformed" \/ (do = "deregister" /\ doc.ours = "none")

Wanted(do) == IF do = "register" THEN "new" ELSE "none"

\* Mutant: the servers of others are not carried over.
MutEdited(doc, do) == Object(Wanted(do), IF do = "register" THEN {} ELSE doc.others)

Edited(doc, do) == Object(Wanted(do), doc.others)

\* status, server_entry: what a call wants to find when it reads its file again.
AsWanted(doc, do) == doc.is # "malformed" /\ doc.ours = Wanted(do)

\* resolve_windows_config_paths: one candidate is the file, more are the operator's to tell apart.
Candidates(packages, roaming) == packages \cup IF roaming THEN {"roaming"} ELSE {}

-----------------------------------------------------------------------------
(* A call.  For the properties it keeps the file it found, until somebody    *)
(* else writes the file ("was"), and whether its backup is still its own and *)
(* of the file as it is ("own").                                            *)

Idle == [at |-> "idle"]
Done == [at |-> "done"]
Running == {c \in Caller : calls[c].at \notin {"idle", "done"}}
Goes(c, at) == calls' = [calls EXCEPT ![c].at = at]

\* run_config_mcp_command, register_with_host: the path is given, or there is one
\* candidate.  A forced call does not ask whether the host runs.
Begin(c, do, force, paths) ==
    /\ calls[c] = Idle
    /\ Cardinality(paths) = 1
    /\ calls' = [calls EXCEPT ![c] = [at |-> IF force THEN "checked" ELSE "asked", do |-> do, was |-> {file},
                                      doc |-> Missing, second |-> 0, own |-> TRUE]]
    /\ UNCHANGED <<file, backups, second, host>>

\* ensure_host_not_running; the interview asks again when the operator has closed the
\* host, any other call ends.
Check(c) ==
    /\ calls[c].at = "asked"
    /\ \/ ~host.running /\ Goes(c, "checked")
       \/ host.running /\ calls' = [calls EXCEPT ![c] = Done]
    /\ UNCHANGED <<file, backups, second, host>>

\* load_document, and the edit of it.
Load(c) ==
    /\ calls[c].at = "checked"
    /\ IF Refused(file, calls[c].do) THEN calls' = [calls EXCEPT ![c] = Done]
       ELSE calls' = [calls EXCEPT ![c].at = "loaded", ![c].doc = Edited(file, calls[c].do)]
    /\ UNCHANGED <<file, backups, second, host>>

\* backup: under the name of the second, which may be taken.
Saved == IF file = Missing THEN backups ELSE [backups EXCEPT ![second] = {file}]

Backup(c) ==
    /\ calls[c].at = "loaded"
    /\ backups' = Saved
    /\ calls' = [d \in Caller |->
           IF d = c THEN [calls[c] EXCEPT !.at = "saved", !.second = second]
           ELSE IF file # Missing /\ calls[d].at \in {"saved", "written"} /\ calls[d].second = second
                THEN [calls[d] EXCEPT !.own = FALSE] ELSE calls[d]]
    /\ UNCHANGED <<file, second, host>>

\* Calls that see a write of the file by another.
Seen(cs) == [c \in Caller |-> IF c \in cs THEN [calls[c] EXCEPT !.was = {}, !.own = @ /\ calls[c].at # "saved"]
                              ELSE calls[c]]

\* write_file_atomically.
Write(c) ==
    /\ calls[c].at = "saved"
    /\ file' = calls[c].doc
    /\ calls' = [Seen(Running \ {c}) EXCEPT ![c].at = "written"]
    /\ UNCHANGED <<backups, second, host>>

\* The backup or the write fails.
Fail(c) ==
    /\ calls[c].at \in {"loaded", "saved"}
    /\ calls' = [calls EXCEPT ![c] = Done]
    /\ UNCHANGED <<file, backups, second, host>>

\* The file is read again, and the call answers whether it is as wanted.
ReadBack(c) ==
    /\ calls[c].at = "written"
    /\ calls' = [calls EXCEPT ![c] = Done]
    /\ UNCHANGED <<file, backups, second, host>>

-----------------------------------------------------------------------------
(* The host, and time.                                                      *)

HostStarts ==
    /\ ~host.running
    /\ host' = [host EXCEPT !.running = TRUE, !.read = file.ours]
    /\ UNCHANGED <<file, backups, second, calls>>

HostStops ==
    /\ host.running
    /\ host' = [host EXCEPT !.running = FALSE, !.read = "none"]
    /\ UNCHANGED <<file, backups, second, calls>>

\* It writes the entry of ours it read when it started, with other servers of its own.
HostWrites(others) ==
    /\ host.running /\ host.writes < MaxHostWrite
    /\ file' = Object(host.read, others)
    /\ host' = [host EXCEPT !.writes = @ + 1]
    /\ calls' = Seen(Running)
    /\ UNCHANGED <<backups, second>>

Tick ==
    /\ second < MaxSecond
    /\ second' = second + 1
    /\ UNCHANGED <<file, backups, host, calls>>

Init ==
    /\ file \in Contents
    /\ backups = [s \in 0..MaxSecond |-> {}]
    /\ second = 0
    /\ host = [running |-> FALSE, read |-> "none", writes |-> 0]
    /\ calls = [c \in Caller |-> Idle]

Next ==
    \/ \E c \in Caller, do \in {"register", "deregister"}, force, roaming \in BOOLEAN, packages \in SUBSET Packages :
           Begin(c, do, force, Candidates(packages, roaming))
    \/ \E c \in Caller : Check(c) \/ Load(c) \/ Backup(c) \/ Write(c) \/ Fail(c) \/ ReadBack(c)
    \/ \E others \in SUBSET Other : HostWrites(others)
    \/ HostStarts \/ HostStops \/ Tick

Spec == Init /\ [][Next]_vars

-----------------------------------------------------------------------------

\* A file that a call found, or that a backup is of: one document, or nothing.
AtMostOne == {{}} \cup {{d} : d \in Contents}

Call == [at : {"asked", "checked", "loaded", "saved", "written"}, do : {"register", "deregister"},
         was : AtMostOne, doc : Contents, second : 0..MaxSecond, own : BOOLEAN]

\* Every variable has its type.
TypeOK ==
    /\ file \in Contents /\ second \in 0..MaxSecond
    /\ backups \in [0..MaxSecond -> AtMostOne]
    /\ host \in [running : BOOLEAN, read : Entries, writes : 0..MaxHostWrite]
    /\ calls \in [Caller -> {Idle, Done} \cup Call]

\* The write of a call replaces what its backup holds, unless another call made a
\* backup in the same second or somebody wrote the file in between.  Until its write
\* a call nobody disturbs leaves the file alone; then all other servers are as it
\* found them, what it wrote is what it wanted, and the backup is the file it found
\* (host_registration.rs, register, deregister, backup).
EditsCanBeUndone ==
    \A c \in Running :
        LET call == calls[c]
        IN  /\ call.at = "saved" /\ call.own /\ file # Missing => backups[call.second] = {file}
            /\ \A was \in call.was :
                   IF call.at # "written" THEN file = was
                   ELSE /\ file.others = was.others /\ AsWanted(file, call.do)
                        /\ call.own /\ was # Missing => backups[call.second] = {was}

=============================================================================
