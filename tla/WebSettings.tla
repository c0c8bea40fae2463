---------------------------- MODULE WebSettings ----------------------------
(***************************************************************************)
(* The settings page of contextos-web: requests that edit web.toml         *)
(* (routes/settings.rs, config_writer.rs), while the manifests of the apps *)
(* that need its MCP servers change in the vaults (apps.rs).               *)
(*                                                                         *)
(* Of web.toml the model keeps the names of the servers, and whether the   *)
(* appearance was set; of a manifest its slug and the servers it needs.    *)
(* Requests run concurrently and share nothing but the file.  What a tool  *)
(* of the MCP server is asked for and answers with an error stays hidden.  *)
(***************************************************************************)
EXTENDS Integers, Sequences

CONSTANTS Request,    \* the requests there are in a behaviour
          Dirs,       \* the vaults: a function to the directories under registry/apps, in the order they are listed
          Server,     \* the names of servers
          Lower,      \* their names without case
          Manifest,   \* the manifests an app can have: [slug, needs], the slug "" when none is given
          MaxManifest \* bound: how often a manifest is written or removed

VARIABLES web,       \* web.toml
          manifests, \* the manifest of each directory: nothing, or one
          requests,  \* where each request is
          written    \* bound: the changes to manifests so far

vars == <<web, manifests, requests, written>>

Vault == DOMAIN Dirs
Dir == UNION {{Dirs[v][i] : i \in DOMAIN Dirs[v]} : v \in Vault}

-----------------------------------------------------------------------------
(* web.toml and its edits.                                                  *)

\* Names that differ at most in case.
Same(s, t) == Lower[s] = Lower[t]

\* WebConfig::validate: a name once, whatever its case.
Valid(doc) == \A s, t \in doc.servers : Same(s, t) => s = t

\* find_mcp_server_index.
Found(doc, name) == {s \in doc.servers : Same(s, name)}

\* The edits a request can hold; a patch is bad when a value of it is null or
\* what it makes of the entry no longer matches the schema.
Edits ==
    [do : {"add", "remove"}, name : Server]
    \cup [do : {"patch"}, name : Server, to : Server, bad : BOOLEAN]
    \cup [do : {"replace"}, name : Server, to : Server]
    \cup [do : {"ui"}, bad : BOOLEAN]

\* The edits of an entry that is there.
OfEntry == {"patch", "replace", "remove"}

Unknown(doc, edit) == edit.do \in OfEntry /\ Found(doc, edit.name) = {}

\* add_mcp_server, patch_mcp_server, replace_mcp_server, remove_mcp_server and
\* patch_ui, before the result is validated: the names that stay, and the new one.
Kept(doc, edit) == IF edit.do \in OfEntry THEN doc.servers \ Found(doc, edit.name) ELSE doc.servers

Added(edit) ==
    CASE edit.do = "add" -> {edit.name}
      [] edit.do \in {"patch", "replace"} -> {edit.to}
      [] OTHER -> {}

Edited(doc, edit) == [servers |-> Kept(doc, edit) \cup Added(edit), ui |-> doc.ui \/ edit.do = "ui"]

\* Mutant: the edited document is not validated.
MutInvalid(doc, edit) == ~Unknown(doc, edit) /\ edit.do \in {"patch", "ui"} /\ edit.bad

\* Why an edit is refused: merge_patch, and validate_or_rollback of a name that is taken.
Invalid(doc, edit) ==
    /\ ~Unknown(doc, edit)
    /\ \/ edit.do \in {"patch", "ui"} /\ edit.bad
       \/ \E s \in Kept(doc, edit), t \in Added(edit) : Same(s, t)

-----------------------------------------------------------------------------
(* The apps that need a server.                                             *)

\* load_app: a manifest that names a server the list lacks is no app.
Loads(dir, known) == manifests[dir] # << >> /\ manifests[dir][1].needs \subseteq known

SlugOf(dir) == IF manifests[dir][1].slug = "" THEN dir ELSE manifests[dir][1].slug

\* discover_apps, all at once: of the directories with one slug, the first.
Wins(v, i, known) ==
    /\ Loads(Dirs[v][i], known)
    /\ \A k \in 1..i - 1 : Loads(Dirs[v][k], known) => SlugOf(Dirs[v][k]) # SlugOf(Dirs[v][i])

Registered(v, known) == {Dirs[v][i] : i \in {j \in DOMAIN Dirs[v] : Wins(v, j, known)}}

-----------------------------------------------------------------------------
(* A request.                                                               *)

Idle == [at |-> "idle"]

\* The names that are gone from the document, in their very spelling.
Removed(before, after) == before.servers \ after.servers

\* Mutant: only a removal is checked, not a change of name.
MutChecked(edit, before, after) == IF edit.do = "remove" THEN Removed(before, after) ELSE {}

Checked(edit, before, after) == Removed(before, after)

\* mutate: the file is read, and what was read is edited.  An edit that removes
\* no name is written next; the others are checked against every vault first.
\* "touched" and "hidden" are for the properties: the vaults a manifest changed in
\* since, and the directories of which a tool told nothing but an error.
Begin(r, edit) ==
    /\ requests[r] = Idle
    /\ ~Unknown(web, edit) /\ ~Invalid(web, edit)
    /\ LET after == Edited(web, edit)
           removed == Checked(edit, web, after)
       IN  requests' = [requests EXCEPT ![r] =
               [at |-> IF removed = {} THEN "write" ELSE "check", before |-> web, after |-> after,
                removed |-> removed, vaults |-> Vault, dirs |-> {}, slugs |-> {},
                conflict |-> FALSE, touched |-> {}, hidden |-> {}]]
    /\ UNCHANGED <<web, manifests, written>>

\* Of a refusal the answer is left out.
End(r, answer) == requests' = [requests EXCEPT ![r] = [at |-> answer]]

\* An unknown server or an edit that is invalid is refused at once.
BeginRefused(r, edit) ==
    /\ requests[r] = Idle
    /\ Unknown(web, edit) \/ Invalid(web, edit)
    /\ End(r, "refused")
    /\ UNCHANGED <<web, manifests, written>>

\* configured_vault_names: an answer that is no list of vaults is taken for one
\* without any.
NoVaults(r) ==
    /\ requests[r].at = "check" /\ requests[r].dirs = {} /\ requests[r].vaults = Vault
    /\ requests' = [requests EXCEPT ![r] = [requests[r] EXCEPT !.vaults = {}, !.hidden = Dir]]
    /\ UNCHANGED <<web, manifests, written>>

\* dependent_apps, the next vault: its directories are listed.
ListApps(r, v) ==
    /\ requests[r].at = "check" /\ requests[r].dirs = {} /\ v \in requests[r].vaults
    /\ requests' = [requests EXCEPT ![r] = [requests[r] EXCEPT
           !.vaults = @ \ {v}, !.slugs = {},
           !.dirs = {<<v, i>> : i \in {j \in DOMAIN Dirs[v] : manifests[Dirs[v][j]] # << >>}}]]
    /\ UNCHANGED <<web, manifests, written>>

\* list_app_directories: an error is taken for a vault without apps.
ListFails(r, v) ==
    /\ requests[r].at = "check" /\ requests[r].dirs = {} /\ v \in requests[r].vaults
    /\ requests' = [requests EXCEPT ![r] = [requests[r] EXCEPT
           !.vaults = @ \ {v}, !.slugs = {}, !.hidden = @ \cup {Dirs[v][i] : i \in DOMAIN Dirs[v]}]]
    /\ UNCHANGED <<web, manifests, written>>

\* discover_apps, the next directory.  The known servers are those of the
\* document that was read, so the edit itself makes no app invalid.
LoadApp(r, v, i) ==
    /\ requests[r].at = "check" /\ <<v, i>> \in requests[r].dirs
    /\ \A j \in DOMAIN Dirs[v] : <<v, j>> \in requests[r].dirs => i <= j
    /\ LET dir == Dirs[v][i]
           app == Loads(dir, requests[r].before.servers) /\ SlugOf(dir) \notin requests[r].slugs
       IN  requests' = [requests EXCEPT ![r] = [requests[r] EXCEPT
               !.dirs = @ \ {<<v, i>>},
               !.slugs = IF app THEN @ \cup {SlugOf(dir)} ELSE @,
               !.conflict = @ \/ (app /\ manifests[dir][1].needs \cap requests[r].removed # {})]]
    /\ UNCHANGED <<web, manifests, written>>

\* load_app: a manifest that cannot be read, or an entry file that cannot be looked
\* up, is taken for no app.
LoadFails(r, v, i) ==
    /\ requests[r].at = "check" /\ <<v, i>> \in requests[r].dirs
    /\ \A j \in DOMAIN Dirs[v] : <<v, j>> \in requests[r].dirs => i <= j
    /\ requests' = [requests EXCEPT ![r] = [requests[r] EXCEPT
           !.dirs = @ \ {<<v, i>>}, !.hidden = @ \cup {Dirs[v][i]}]]
    /\ UNCHANGED <<web, manifests, written>>

\* Every vault was asked: a conflict refuses the edit.
AllAsked(r) ==
    /\ requests[r].at = "check" /\ requests[r].dirs = {} /\ requests[r].vaults = {}
    /\ IF requests[r].conflict THEN End(r, "refused") ELSE requests' = [requests EXCEPT ![r].at = "write"]
    /\ UNCHANGED <<web, manifests, written>>

\* The MCP server cannot be reached.
Unreachable(r) ==
    /\ requests[r].at = "check"
    /\ End(r, "refused")
    /\ UNCHANGED <<web, manifests, written>>

\* write_atomically: the whole document, over whatever the file has become.
Write(r) ==
    /\ requests[r].at = "write"
    /\ web' = requests[r].after
    /\ End(r, "ok")
    /\ UNCHANGED <<manifests, written>>

\* The temporary file or its rename fails: web.toml keeps its content.
WriteFails(r) ==
    /\ requests[r].at = "write"
    /\ End(r, "refused")
    /\ UNCHANGED <<web, manifests, written>>

\* A manifest is written, changed or removed, through the vault's own tools.
ChangeManifest(v, dir, manifest) ==
    /\ written < MaxManifest
    /\ (\E i \in DOMAIN Dirs[v] : dir = Dirs[v][i]) /\ manifests[dir] # manifest
    /\ manifests' = [manifests EXCEPT ![dir] = manifest]
    /\ requests' = [r \in Request |-> IF requests[r].at \in {"check", "write"}
                                      THEN [requests[r] EXCEPT !.touched = @ \cup {v}] ELSE requests[r]]
    /\ written' = written + 1
    /\ UNCHANGED web

\* Nothing, or a manifest.
Manifests == {<< >>} \cup {<<m>> : m \in Manifest}

Init ==
    /\ web \in {[servers |-> s, ui |-> FALSE] : s \in {s \in SUBSET Server : Valid([servers |-> s])}}
    /\ manifests \in [Dir -> Manifests]
    /\ requests = [r \in Request |-> Idle]
    /\ written = 0

Next ==
    \/ \E r \in Request, edit \in Edits : Begin(r, edit) \/ BeginRefused(r, edit)
    \/ \E r \in Request, v \in Vault :
          \/ ListApps(r, v) \/ ListFails(r, v)
          \/ \E i \in DOMAIN Dirs[v] : LoadApp(r, v, i) \/ LoadFails(r, v, i)
    \/ \E r \in Request : NoVaults(r) \/ AllAsked(r) \/ Unreachable(r) \/ Write(r) \/ WriteFails(r)
    \/ \E v \in Vault, dir \in Dir, m \in Manifests : ChangeManifest(v, dir, m)

Spec == Init /\ [][Next]_vars

-----------------------------------------------------------------------------

Document == [servers : SUBSET Server, ui : BOOLEAN]

\* What a request keeps until it is answered.
Pending ==
    [at : {"check", "write"}, before : Document, after : Document, removed : SUBSET Server,
     vaults : SUBSET Vault, dirs : SUBSET UNION {{v} \X DOMAIN Dirs[v] : v \in Vault},
     slugs : SUBSET (Dir \cup {m.slug : m \in Manifest}), conflict : BOOLEAN, touched : SUBSET Vault,
     hidden : SUBSET Dir]

\* Every variable has its type, and web.toml is one contextos-web starts with.
TypeOK ==
    /\ web \in Document /\ Valid(web)
    /\ manifests \in [Dir -> Manifests]
    /\ requests \in [Request -> [at : {"idle", "refused", "ok"}] \cup Pending]
    /\ written \in 0..MaxManifest

\* A write of web.toml takes from no registered app a server it needs, but in
\* three cases the code leaves open: the server was added by another request after
\* this one had read the file, a manifest of the app's vault changed while the
\* request was under way, or a tool answered with an error when it was asked for
\* the vaults, for the directories of the app's vault or for the app's own files
\* (settings.rs, mutate and dependent_apps; apps.rs, discover_apps).
NoAppLosesItsServer ==
    [][\A r \in Request : requests[r].at = "write" /\ requests'[r].at = "ok" =>
         \A name \in Removed(web, web') \cap requests[r].before.servers, v \in Vault \ requests[r].touched :
             \A dir \in Registered(v, requests[r].before.servers) \ requests[r].hidden :
                 name \notin manifests[dir][1].needs]_vars

=============================================================================
