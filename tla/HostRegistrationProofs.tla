----------------------- MODULE HostRegistrationProofs -----------------------
(***************************************************************************)
(* Proofs about HostRegistration, for any calls, servers, packages and     *)
(* bounds: the variables keep their types, and what a registration         *)
(* replaces can be found in its backup.                                    *)
(***************************************************************************)
EXTENDS HostRegistration, TLAPS

Bounded == MaxSecond \in Nat /\ MaxHostWrite \in Nat

\* While nobody else writes the file, it is as the call found it until the call
\* writes it, and then as the call made it from that.
Undisturbed(call) ==
    \A w \in call.was :
        /\ call.at # "written" => file = w
        /\ call.at \in {"loaded", "saved", "written"} => call.doc = Edited(w, call.do)
        /\ call.at = "written" => file = call.doc

\* A backup that is the call's own is of the file it is about to replace, or has replaced.
BackedUp(call) ==
    call.own =>
        /\ call.at = "saved" /\ file # Missing => backups[call.second] = {file}
        /\ call.at = "written" => \A w \in call.was : w # Missing => backups[call.second] = {w}

CallInv == \A c \in Running : Undisturbed(calls[c]) /\ BackedUp(calls[c])

Inv == TypeOK /\ CallInv

-----------------------------------------------------------------------------
(* Documents and calls.                                                     *)

\* What an edit makes of a document is one that is as wanted, with the same others.
LEMMA EditedDocument ==
    ASSUME NEW doc \in Contents, NEW do \in {"register", "deregister"}
    PROVE  /\ Edited(doc, do) \in Contents
           /\ AsWanted(Edited(doc, do), do)
           /\ Edited(doc, do).others = doc.others
  BY DEF Contents, Missing, Malformed, Object, Entries, Edited, Wanted, AsWanted

\* A call that runs has the fields of a call.
LEMMA RunningIsCall ==
    ASSUME TypeOK, NEW c \in Running
    PROVE  c \in Caller /\ calls[c] \in Call
  BY DEF TypeOK, Running, Idle, Done

\* A record of a call is that of one that runs.
LEMMA CallRuns ==
    ASSUME NEW c \in Caller, calls[c] \in Call
    PROVE  c \in Running
  BY DEF Running, Call

\* A set of at most one document is that document alone.
LEMMA AtMostOneDocument ==
    ASSUME NEW was \in AtMostOne, NEW w \in was
    PROVE  w \in Contents /\ was = {w}
  BY DEF AtMostOne

-----------------------------------------------------------------------------
(* Types.                                                                   *)

\* No call runs at first.
LEMMA InitInv ==
    ASSUME Bounded, Init
    PROVE  Inv
<1>1. TypeOK
  BY DEF Bounded, Init, TypeOK, AtMostOne, Entries
<1>2. Running = {}
  BY DEF Init, Running, Idle
<1>3. QED
  BY <1>1, <1>2 DEF Inv, CallInv

\* A step that leaves the file and the backups alone, and sends a call on or ends it.
LEMMA OneCallGoesOn ==
    ASSUME Inv, NEW c \in Caller, NEW call \in {Idle, Done} \cup Call,
           calls' = [calls EXCEPT ![c] = call], UNCHANGED <<file, backups, second, host>>,
           call \in Call => Undisturbed(call) /\ BackedUp(call)
    PROVE  Inv'
<1>1. TypeOK'
  BY DEF Inv, TypeOK
<1>2. ASSUME NEW d \in Running'
      PROVE  Undisturbed(calls[d])' /\ BackedUp(calls[d])'
  <2>1. d \in Caller /\ calls'[d] \in Call
    BY <1>1 DEF TypeOK, Running, Idle, Done
  <2>2. CASE d = c
    <3>1. calls'[d] = call
      BY <2>2 DEF Inv, TypeOK
    <3>2. QED
      BY <2>1, <3>1 DEF Undisturbed, BackedUp
  <2>3. CASE d # c
    <3>1. calls'[d] = calls[d]
      BY <2>1, <2>3 DEF Inv, TypeOK
    <3>2. d \in Running
      BY <2>1, <3>1, CallRuns
    <3>3. QED
      BY <3>1, <3>2 DEF Inv, CallInv, Undisturbed, BackedUp
  <2>4. QED
    BY <2>2, <2>3
<1>3. QED
  BY <1>1, <1>2 DEF Inv, CallInv

\* A call that begins keeps the file as it is.
LEMMA BeginInv ==
    ASSUME Bounded, Inv, NEW c \in Caller, NEW do \in {"register", "deregister"}, NEW force \in BOOLEAN,
           NEW paths, Begin(c, do, force, paths)
    PROVE  Inv'
<1> DEFINE call == [at |-> IF force THEN "checked" ELSE "asked", do |-> do, was |-> {file},
                    doc |-> Missing, second |-> 0, own |-> TRUE]
<1>1. call \in Call
  <2>1. {file} \in AtMostOne
    BY DEF Inv, TypeOK, AtMostOne
  <2>2. Missing \in Contents /\ 0 \in 0..MaxSecond
    BY DEF Contents, Bounded
  <2>3. QED
    BY <2>1, <2>2 DEF Call
<1>2. Undisturbed(call) /\ BackedUp(call)
  BY DEF Undisturbed, BackedUp
<1>3. calls' = [calls EXCEPT ![c] = call] /\ UNCHANGED <<file, backups, second, host>>
  BY DEF Begin
<1>4. QED
  BY <1>1, <1>2, <1>3, OneCallGoesOn

\* A call that ends.
LEMMA EndInv ==
    ASSUME Inv, NEW c \in Caller, calls' = [calls EXCEPT ![c] = Done], UNCHANGED <<file, backups, second, host>>
    PROVE  Inv'
<1>1. Done \notin Call
  BY DEF Done, Call
<1>2. QED
  BY <1>1, OneCallGoesOn

\* Asking whether the host runs changes nothing a call keeps.
LEMMA CheckInv ==
    ASSUME Inv, NEW c \in Caller, Check(c)
    PROVE  Inv'
<1>1. CASE calls' = [calls EXCEPT ![c] = Done]
  BY <1>1, EndInv DEF Check
<1>2. CASE Goes(c, "checked")
  <2> DEFINE call == [calls[c] EXCEPT !.at = "checked"]
  <2>1. c \in Running /\ calls[c].at = "asked"
    BY DEF Check, Running
  <2>2. calls[c] \in Call /\ call \in Call
    BY <2>1, RunningIsCall DEF Inv, Call
  <2>3. Undisturbed(call) /\ BackedUp(call)
    BY <2>1, <2>2 DEF Inv, CallInv, Undisturbed, BackedUp, Call
  <2>4. calls' = [calls EXCEPT ![c] = call]
    BY <1>2 DEF Goes
  <2>5. QED
    BY <2>2, <2>3, <2>4, OneCallGoesOn DEF Check
<1>3. QED
  BY <1>1, <1>2 DEF Check

\* What a call is to write is made from the file it found.
LEMMA LoadInv ==
    ASSUME Inv, NEW c \in Caller, Load(c)
    PROVE  Inv'
<1>1. CASE Refused(file, calls[c].do)
  BY <1>1, EndInv DEF Load
<1>2. CASE ~Refused(file, calls[c].do)
  <2> DEFINE call == [calls[c] EXCEPT !.at = "loaded", !.doc = Edited(file, calls[c].do)]
  <2>1. c \in Running /\ calls[c].at = "checked"
    BY DEF Load, Running
  <2>2. calls[c] \in Call
    BY <2>1, RunningIsCall DEF Inv
  <2>3. Edited(file, calls[c].do) \in Contents
    BY <2>2, EditedDocument DEF Inv, TypeOK, Call
  <2>4. call \in Call
    BY <2>2, <2>3 DEF Call
  <2>5. call.at = "loaded" /\ call.doc = Edited(file, call.do) /\ call.was = calls[c].was
    BY <2>2 DEF Call
  <2>6. Undisturbed(call) /\ BackedUp(call)
    BY <2>1, <2>5 DEF Inv, CallInv, Undisturbed, BackedUp
  <2>7. calls' = [calls EXCEPT ![c] = call]
    BY <1>2, <2>2 DEF Load, Inv, TypeOK
  <2>8. QED
    BY <2>4, <2>6, <2>7, OneCallGoesOn DEF Load
<1>3. QED
  BY <1>1, <1>2

\* A backup is the call's own; it takes from the calls of the same second what was theirs.
LEMMA BackupInv ==
    ASSUME Inv, NEW c \in Caller, Backup(c)
    PROVE  Inv'
<1> DEFINE call == [calls[c] EXCEPT !.at = "saved", !.second = second]
<1>1. c \in Running /\ calls[c].at = "loaded"
  BY DEF Backup, Running
<1>2. calls[c] \in Call
  BY <1>1, RunningIsCall DEF Inv
<1>3. call \in Call /\ call.at = "saved" /\ call.second = second /\ call.was = calls[c].was
      /\ call.doc = calls[c].doc /\ call.do = calls[c].do
  BY <1>2 DEF Inv, TypeOK, Call
<1>4. calls'[c] = call /\ UNCHANGED <<file, second, host>>
  BY DEF Backup
<1> HIDE DEF call
<1>5. TypeOK'
  <2>1. backups' \in [0..MaxSecond -> AtMostOne]
    BY DEF Backup, Saved, Inv, TypeOK, AtMostOne
  <2>2. ASSUME NEW d \in Caller
        PROVE  calls'[d] \in {Idle, Done} \cup Call
    <3>1. CASE d = c
      BY <3>1, <1>3, <1>4
    <3>2. CASE d # c /\ calls[d].at \in {"saved", "written"}
      <4>1. d \in Running
        BY <3>2 DEF Running
      <4>2. calls[d] \in Call
        BY <4>1, RunningIsCall DEF Inv
      <4>3. QED
        BY <3>2, <4>2 DEF Backup, Call
    <3>3. CASE d # c /\ calls[d].at \notin {"saved", "written"}
      BY <3>3 DEF Backup, Inv, TypeOK
    <3>4. QED
      BY <3>1, <3>2, <3>3
  <2>3. calls' = [d \in Caller |-> calls'[d]]
    BY DEF Backup
  <2>4. QED
    BY <1>4, <2>1, <2>2, <2>3 DEF Inv, TypeOK
<1>6. file # Missing => backups'[second] = {file} /\ \A s \in 0..MaxSecond \ {second} : backups'[s] = backups[s]
  BY DEF Backup, Saved, Inv, TypeOK
<1>7. file = Missing => backups' = backups
  BY DEF Backup, Saved
<1>8. ASSUME NEW d \in Running'
      PROVE  Undisturbed(calls[d])' /\ BackedUp(calls[d])'
  <2>1. d \in Caller /\ calls'[d] \in Call
    BY <1>5 DEF TypeOK, Running, Idle, Done
  <2>2. CASE d = c
    <3>1. Undisturbed(calls[d])'
      BY <1>1, <1>3, <1>4, <2>2 DEF Inv, CallInv, Undisturbed
    <3>2. BackedUp(calls[d])'
      BY <1>3, <1>4, <1>6, <2>2 DEF BackedUp
    <3>3. QED
      BY <3>1, <3>2
  <2>3. CASE d # c /\ file # Missing /\ calls[d].at \in {"saved", "written"} /\ calls[d].second = second
    <3>1. d \in Running
      BY <2>1, <2>3 DEF Running
    <3>2. calls[d] \in Call
      BY <3>1, RunningIsCall DEF Inv
    <3>3. calls'[d] = [calls[d] EXCEPT !.own = FALSE]
      BY <2>1, <2>3 DEF Backup
    <3>4. /\ ~calls'[d].own /\ calls'[d].at = calls[d].at /\ calls'[d].was = calls[d].was
          /\ calls'[d].doc = calls[d].doc /\ calls'[d].do = calls[d].do
      BY <3>2, <3>3 DEF Call
    <3>5. QED
      BY <1>4, <3>1, <3>4 DEF Inv, CallInv, Undisturbed, BackedUp
  <2>4. CASE d # c /\ ~(file # Missing /\ calls[d].at \in {"saved", "written"} /\ calls[d].second = second)
    <3>1. calls'[d] = calls[d]
      BY <2>1, <2>4 DEF Backup
    <3>2. d \in Running /\ calls[d].second \in 0..MaxSecond
      BY <2>1, <3>1, CallRuns DEF Call
    <3>3. file = Missing \/ calls[d].at \notin {"saved", "written"} \/ backups'[calls[d].second] = backups[calls[d].second]
      BY <1>6, <2>4, <3>2
    <3>4. backups'[calls[d].second] = backups[calls[d].second] \/ calls[d].at \notin {"saved", "written"}
      BY <1>7, <3>3
    <3>5. QED
      BY <1>4, <3>1, <3>2, <3>4 DEF Inv, CallInv, Undisturbed, BackedUp
  <2>5. QED
    BY <2>2, <2>3, <2>4
<1>9. QED
  BY <1>5, <1>8 DEF Inv, CallInv

\* A call that sees the file written by another has nothing to say of it any more.
LEMMA SeenInv ==
    ASSUME Inv, NEW cs \in SUBSET Running, NEW c \in cs
    PROVE  LET call == Seen(cs)[c]
           IN  call \in Call /\ call.was = {} /\ ~(call.own /\ call.at = "saved")
<1>1. c \in Caller /\ calls[c] \in Call
  BY RunningIsCall DEF Inv
<1>2. Seen(cs)[c] = [calls[c] EXCEPT !.was = {}, !.own = @ /\ calls[c].at # "saved"]
  BY <1>1 DEF Seen
<1>3. (calls[c].own /\ calls[c].at # "saved") \in BOOLEAN
  OBVIOUS
<1>4. QED
  BY <1>1, <1>2, <1>3 DEF Call, AtMostOne

\* A write: the calls of cs see it, the others do not run, but the one whose write it is.
LEMMA WriteInv ==
    ASSUME Inv, NEW c \in Caller, Write(c)
    PROVE  Inv'
<1> DEFINE call == [calls[c] EXCEPT !.at = "written"]
           cs == Running \ {c}
<1>1. c \in Running /\ calls[c].at = "saved"
  BY DEF Write, Running
<1>2. calls[c] \in Call
  BY <1>1, RunningIsCall DEF Inv
<1>3. /\ call \in Call /\ call.at = "written" /\ call.second = calls[c].second /\ call.was = calls[c].was
      /\ call.doc = calls[c].doc /\ call.do = calls[c].do /\ call.own = calls[c].own
  BY <1>2 DEF Call
<1>4. /\ calls'[c] = call /\ \A d \in Caller \ {c} : calls'[d] = Seen(cs)[d]
      /\ calls' = [d \in Caller |-> calls'[d]]
  BY DEF Write, Seen
<1> HIDE DEF call
<1>5. \A d \in cs : calls'[d] \in Call /\ calls'[d].was = {} /\ ~(calls'[d].own /\ calls'[d].at = "saved")
  <2>1. ASSUME NEW d \in cs
        PROVE  Seen(cs)[d] \in Call /\ Seen(cs)[d].was = {} /\ ~(Seen(cs)[d].own /\ Seen(cs)[d].at = "saved")
    BY SeenInv
  <2>2. cs \subseteq Caller \ {c}
    BY DEF Running
  <2>3. QED
    BY <1>4, <2>1, <2>2
<1>6. \A d \in Caller \ Running : calls'[d] = calls[d]
  BY <1>1, <1>4 DEF Seen
<1>7. TypeOK'
  <2>1. file' \in Contents /\ UNCHANGED <<backups, second, host>>
    BY <1>2 DEF Write, Call
  <2>2. \A d \in Caller : calls'[d] \in {Idle, Done} \cup Call
    BY <1>3, <1>4, <1>5, <1>6 DEF Inv, TypeOK
  <2>3. QED
    BY <1>4, <2>1, <2>2 DEF Inv, TypeOK
<1>8. ASSUME NEW d \in Running'
      PROVE  Undisturbed(calls[d])' /\ BackedUp(calls[d])'
  <2>1. CASE d = c
    <3>1. /\ Undisturbed(calls[c]) /\ BackedUp(calls[c])
      BY <1>1 DEF Inv, CallInv
    <3>2. file' = call.doc /\ backups' = backups /\ calls'[d] = call
      BY <1>3, <1>4, <2>1 DEF Write
    <3>3. \A w \in call.was : w = file /\ call.doc = Edited(w, call.do)
      BY <1>1, <1>3, <3>1 DEF Undisturbed
    <3>4. Undisturbed(calls[d])'
      BY <1>3, <3>2, <3>3 DEF Undisturbed
    <3>5. BackedUp(calls[d])'
      BY <1>1, <1>3, <3>1, <3>2, <3>3 DEF BackedUp
    <3>6. QED
      BY <3>4, <3>5
  <2>2. CASE d \in cs
    BY <1>5, <2>2 DEF Undisturbed, BackedUp
  <2>3. d = c \/ d \in cs
    BY <1>6 DEF Running
  <2>4. QED
    BY <2>1, <2>2, <2>3
<1>9. QED
  BY <1>7, <1>8 DEF Inv, CallInv

\* The host writes: no call takes the file or its backup for its own any more.
LEMMA HostWritesInv ==
    ASSUME Bounded, Inv, NEW others \in SUBSET Other, HostWrites(others)
    PROVE  Inv'
<1>1. \A d \in Running : calls'[d] \in Call /\ calls'[d].was = {} /\ ~(calls'[d].own /\ calls'[d].at = "saved")
  BY SeenInv DEF HostWrites
<1>2. /\ \A d \in Caller \ Running : calls'[d] = calls[d]
      /\ calls' = [d \in Caller |-> calls'[d]]
  BY DEF HostWrites, Seen
<1>3. TypeOK'
  <2>1. file' \in Contents
    BY DEF HostWrites, Inv, TypeOK, Contents
  <2>2. host' \in [running : BOOLEAN, read : Entries, writes : 0..MaxHostWrite]
    BY DEF HostWrites, Inv, TypeOK, Bounded
  <2>3. calls' \in [Caller -> {Idle, Done} \cup Call]
    BY <1>1, <1>2 DEF Inv, TypeOK
  <2>4. QED
    BY <2>1, <2>2, <2>3 DEF HostWrites, Inv, TypeOK
<1>4. \A d \in Running' : d \in Running
  BY <1>2 DEF Running
<1>5. \A d \in Running' : Undisturbed(calls[d])' /\ BackedUp(calls[d])'
  BY <1>1, <1>4 DEF Undisturbed, BackedUp
<1>6. QED
  BY <1>3, <1>5 DEF Inv, CallInv

\* The host starts and stops, and time passes.
LEMMA RestInv ==
    ASSUME Bounded, Inv, HostStarts \/ HostStops \/ Tick
    PROVE  Inv'
<1>1. UNCHANGED <<file, backups, calls>>
  BY DEF HostStarts, HostStops, Tick
<1>2. file.ours \in Entries
  BY DEF Inv, TypeOK, Contents, Missing, Malformed, Object, Entries
<1>3. host' \in [running : BOOLEAN, read : Entries, writes : 0..MaxHostWrite]
  BY <1>2 DEF HostStarts, HostStops, Tick, Inv, TypeOK, Entries
<1>4. second' \in 0..MaxSecond
  BY DEF HostStarts, HostStops, Tick, Inv, TypeOK, Bounded
<1>5. TypeOK'
  BY <1>1, <1>3, <1>4 DEF Inv, TypeOK
<1>6. CallInv'
  BY <1>1 DEF Inv, CallInv, Running, Undisturbed, BackedUp
<1>7. QED
  BY <1>5, <1>6 DEF Inv

-----------------------------------------------------------------------------

\* Every step keeps types and calls.
LEMMA NextInv ==
    ASSUME Bounded, Inv, [Next]_vars
    PROVE  Inv'
<1>1. ASSUME NEW c \in Caller, NEW do \in {"register", "deregister"}, NEW force \in BOOLEAN,
             NEW roaming \in BOOLEAN, NEW packages \in SUBSET Packages,
             Begin(c, do, force, Candidates(packages, roaming))
      PROVE  Inv'
  BY <1>1, BeginInv
<1>2. ASSUME NEW c \in Caller, Check(c) \/ Load(c) \/ Backup(c) \/ Write(c)
      PROVE  Inv'
  BY <1>2, CheckInv, LoadInv, BackupInv, WriteInv
<1>3. ASSUME NEW c \in Caller, Fail(c) \/ ReadBack(c)
      PROVE  Inv'
  BY <1>3, EndInv DEF Fail, ReadBack
<1>4. ASSUME NEW others \in SUBSET Other, HostWrites(others)
      PROVE  Inv'
  BY <1>4, HostWritesInv
<1>5. CASE HostStarts \/ HostStops \/ Tick
  BY <1>5, RestInv
<1>6. CASE UNCHANGED vars
  BY <1>6 DEF vars, Inv, TypeOK, CallInv, Running, Undisturbed, BackedUp
<1>7. QED
  BY <1>1, <1>2, <1>3, <1>4, <1>5, <1>6 DEF Next

\* What the invariant says of the files: a call nobody disturbs can be undone.
LEMMA InvUndo ==
    ASSUME Inv
    PROVE  EditsCanBeUndone
<1>1. SUFFICES ASSUME NEW c \in Running
               PROVE  LET call == calls[c]
                      IN  /\ call.at = "saved" /\ call.own /\ file # Missing => backups[call.second] = {file}
                          /\ \A was \in call.was :
                                 IF call.at # "written" THEN file = was
                                 ELSE /\ file.others = was.others /\ AsWanted(file, call.do)
                                      /\ call.own /\ was # Missing => backups[call.second] = {was}
  BY DEF EditsCanBeUndone
<1>2. calls[c] \in Call /\ Undisturbed(calls[c]) /\ BackedUp(calls[c])
  BY RunningIsCall DEF Inv, CallInv
<1>3. calls[c].was \in AtMostOne /\ calls[c].do \in {"register", "deregister"}
  BY <1>2 DEF Call
<1>4. ASSUME NEW was \in calls[c].was, calls[c].at = "written"
      PROVE  file.others = was.others /\ AsWanted(file, calls[c].do)
  <2>1. file = Edited(was, calls[c].do)
    BY <1>2, <1>4 DEF Undisturbed
  <2>2. was \in Contents
    BY <1>3, AtMostOneDocument
  <2>3. QED
    BY <1>3, <2>1, <2>2, EditedDocument
<1>5. QED
  BY <1>2, <1>4 DEF Undisturbed, BackedUp

\* Types and calls are as they should be in every reachable state.
LEMMA InvAlways ==
    ASSUME Bounded
    PROVE  Spec => []Inv
<1>1. Init => Inv
  BY InitInv
<1>2. Inv /\ [Next]_vars => Inv'
  BY NextInv
<1>3. QED
  BY <1>1, <1>2, PTL DEF Spec

\* The variables keep their types: the file is a document there can be, a backup is
\* of one, and a call has what its place asks for (host_registration.rs, register
\* and deregister).
THEOREM RegistrationTypes ==
    ASSUME Bounded
    PROVE  Spec => []TypeOK
<1>1. Inv => TypeOK
  BY DEF Inv
<1>2. QED
  BY <1>1, InvAlways, PTL

\* What a registration replaces is in its backup: while nobody disturbs a call the
\* file is what it found, its write keeps the other servers and is what it wanted,
\* and the backup it made in a second of its own is the file it replaced
\* (host_registration.rs, register, deregister, backup).
THEOREM UndoFromBackup ==
    ASSUME Bounded
    PROVE  Spec => []EditsCanBeUndone
<1>1. Inv => EditsCanBeUndone
  BY InvUndo
<1>2. QED
  BY <1>1, InvAlways, PTL

=============================================================================
