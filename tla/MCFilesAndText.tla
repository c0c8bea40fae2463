--------------------------- MODULE MCFilesAndText ---------------------------
(***************************************************************************)
(* FileMutations, TextSync, WebSettings and HostRegistration for TLC, side *)
(* by side: one runs while the others rest in an initial state.  They are  *)
(* instantiated with their proofs, whose theorems FilesAndTextProofs takes *)
(* over.                                                                   *)
(***************************************************************************)
EXTENDS FileMutations, TLC

CONSTANTS noteA, noteB,                       \* of FileMutations
          proc1, proc2, note1, note2, text1, text2, MaxChange, MaxQuery, \* of TextSync
          req1, req2, MaxManifest,                                       \* of WebSettings
          MaxSecond, MaxHostWrite                                        \* of HostRegistration

ASSUME BoundsAssumption ==
    /\ Absent \notin {text1, text2}
    /\ {MaxChange, MaxQuery, MaxManifest, MaxSecond, MaxHostWrite} \subseteq Nat

VARIABLES part,
          disk, store, reader, query, sync, clock, queries,
          web, manifests, requests, written,
          hostFile, backups, second, host, registrations

\* The commit a restore goes back to has the first note alone.
MCOld == noteA :> "old" @@ noteB :> Absent

Texts == INSTANCE TextSyncProofs WITH
    Proc <- {proc1, proc2}, Note <- {note1, note2}, Text <- {text1, text2}

\* Two vaults, the first with two app directories; the names of servers differ
\* in case, and the slug of one directory may be the name of the other.
Settings == INSTANCE WebSettingsProofs WITH
    Request <- {req1, req2}, Dirs <- [v \in {"v", "w"} |-> IF v = "v" THEN <<"d", "e">> ELSE <<"f">>],
    Server <- {"s", "S"}, Lower <- [n \in {"s", "S"} |-> "s"],
    Manifest <- {[slug |-> "", needs |-> {"s"}], [slug |-> "d", needs |-> {"s"}]}

\* The calls of FileMutations, with one other server and one package directory.
Registration == INSTANCE HostRegistrationProofs WITH
    Other <- {"o"}, Packages <- {"p"}, file <- hostFile, calls <- registrations

hostVars == <<hostFile, backups, second, host, registrations>>
webVars == <<web, manifests, requests, written>>
textVars == <<disk, store, reader, query, sync, clock, queries>>

Symmetry == Permutations({proc1, proc2}) \cup Permutations({note1, note2}) \cup Permutations({text1, text2})
            \cup Permutations({req1, req2}) \cup Permutations(Caller)

Beside(parts) ==
    /\ part \in parts
    /\ Init /\ Texts!Init /\ Settings!Init /\ Registration!Init
    /\ part # "files" => file = [n \in Note |-> Absent]
    /\ part # "text" => disk = [n \in {note1, note2} |-> Texts!NoFile]
    /\ part # "settings" => web.servers = {} /\ manifests = [d \in {"d", "e", "f"} |-> << >>]
    /\ manifests["f"] # << >> =>               \* alone in its vault, its slug is nobody else's;
           manifests["f"][1].slug = "" /\ manifests["e"] = << >>   \* two apps at first, of one vault or two
    /\ part # "registration" => hostFile = Registration!Missing

Components == {"files", "text", "settings", "registration"}
MCInit == Beside(Components)

MCNext ==
    \/ part = "files" /\ Next /\ UNCHANGED <<part, textVars, webVars, hostVars>>
    \/ part = "text" /\ Texts!Next /\ UNCHANGED <<part, vars, webVars, hostVars>>
    \/ part = "settings" /\ Settings!Next /\ UNCHANGED <<part, vars, textVars, hostVars>>
    \/ part = "registration" /\ Registration!Next /\ UNCHANGED <<part, vars, textVars, webVars>>

MCSpec == MCInit /\ [][MCNext]_<<part, vars, textVars, webVars, hostVars>>

\* A tool's error is met by one request, while no other checks and no manifest changes.
Hidden(r) == IF requests[r].at \in {"check", "write"} THEN requests[r].hidden ELSE {}
FewErrors ==
    \A r, s \in {req1, req2} : r # s /\ Hidden(r) # {} => written = 0 /\ requests[s].at # "check" /\ Hidden(s) = {}

\* The modules' variables keep to their types.
TypesOK == TypeOK /\ Texts!TypeOK /\ Settings!TypeOK /\ Registration!TypeOK

\* TextSync: a query answers from the files as they are.
QueryFresh == Texts!QueryFresh

\* WebSettings: no write of web.toml takes from an app a server it needs.
NoAppLosesItsServer == Settings!NoAppLosesItsServer

\* HostRegistration: what a registration replaces can be found in its backup.
EditsCanBeUndone == Registration!EditsCanBeUndone

=============================================================================
