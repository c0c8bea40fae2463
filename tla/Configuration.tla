--------------------------- MODULE Configuration ---------------------------
(***************************************************************************)
(* config.toml: what the server loads from it (contextos-mcp, config.rs),  *)
(* the edits of it (config_writer.rs) and the interview of `init` that     *)
(* makes them (interview.rs).                                              *)
(*                                                                         *)
(* A TOML table is a function from the keys it has.  A table written       *)
(* inline is another kind of item to the editor and the same to the        *)
(* server, so a table with tables under it says whether it is inline.      *)
(***************************************************************************)
EXTENDS Integers, Sequences, SequencesExt, Functions, TLC

CONSTANTS Canonical,   \* the directory a path leads to, for the paths that lead to one
          Basename,    \* the last name of a path or a directory
          Lower,       \* names without their case
          SchemeNames, \* the names a vault may have
          Levels, Kinds \* the log levels and the transports the server knows

Get(table, key, default) == IF key \in DOMAIN table THEN table[key] ELSE default
Insert(table, key, v) == [k \in DOMAIN table \cup {key} |-> IF k = key THEN v ELSE table[k]]
Drop(table, keys) == Restrict(table, DOMAIN table \ keys)

NoTable == [inline |-> FALSE, keys |-> << >>]

\* ConfigDocument::new.
Blank == [server |-> NoTable, vaults |-> << >>]

-----------------------------------------------------------------------------
(* What the server makes of a document.                                     *)

\* VaultRoot::try_from.
NameOf(table) == Get(table, "name", Basename[Canonical[table.path]])

\* VaultConfig, its search settings, and the defaults.
VaultConfig(table) ==
    LET search == Get(table, "search", NoTable).keys
    IN  [root |-> Canonical[table.path], name |-> NameOf(table), managed |-> Get(table, "managed", TRUE),
         semantic |-> Get(search, "semantic", FALSE),
         model |-> Get(Get(search, "embedding", NoTable).keys, "model_directory", "")]

ServerConfig(server) ==
    [transports |-> Get(server.keys, "transports", <<"stdio">>),
     log_level |-> Get(server.keys, "log_level", "info"), log_file |-> Get(server.keys, "log_file", "")]

Config(doc) ==
    [server |-> ServerConfig(doc.server), vaults |-> [i \in DOMAIN doc.vaults |-> VaultConfig(doc.vaults[i])]]

\* Mutant: names that differ in case are different names.
MutUnique(tables) ==
    /\ IsInjective([i \in DOMAIN tables |-> Canonical[tables[i].path]])
    /\ IsInjective([i \in DOMAIN tables |-> NameOf(tables[i])])

\* VaultSet::try_from: no directory twice, no name twice.
Unique(tables) ==
    /\ IsInjective([i \in DOMAIN tables |-> Canonical[tables[i].path]])
    /\ IsInjective([i \in DOMAIN tables |-> Lower[NameOf(tables[i])]])

\* Config::try_from, Config::validate and VaultSet::try_from accept the document.
Loads(doc) ==
    LET server == ServerConfig(doc.server)
    IN  /\ server.transports # << >> /\ ToSet(server.transports) \subseteq Kinds /\ server.log_level \in Levels
        /\ doc.vaults # << >>
        /\ \A i \in DOMAIN doc.vaults :
               doc.vaults[i].path \in DOMAIN Canonical /\ NameOf(doc.vaults[i]) \in SchemeNames
        /\ Unique(doc.vaults)

-----------------------------------------------------------------------------
(* The edits: an outcome is a document and whether the edit was accepted.   *)

Accept(doc) == [ok |-> TRUE, doc |-> doc]
Refuse(doc) == [ok |-> FALSE, doc |-> doc]

\* An edit of what another one accepted.
Then(outcome, Change(_)) == IF outcome.ok THEN Change(outcome.doc) ELSE outcome

\* validate_or_rollback.
Validated(doc, backup) == IF Loads(doc) THEN Accept(doc) ELSE Refuse(backup)

\* vault_display_name: the name of the table, or the last name of its path.
DisplayName(table) == Get(table, "name", Basename[table.path])

Matches(table, name) == Lower[DisplayName(table)] = Lower[name]

\* find_vault_table_mut: the first table of that name, 0 when there is none.
FindVault(doc, name) == SelectInSeq(doc.vaults, LAMBDA t : Matches(t, name))

\* Puts a table in the place of one that was found.
Replaced(doc, at, table) == [doc EXCEPT !.vaults = ReplaceAt(doc.vaults, at, table)]

AddVault(doc, name, path) ==
    Validated([doc EXCEPT !.vaults = Append(@, [path |-> path, name |-> name])], doc)

\* remove_vault: every table of that name.
RemoveVault(doc, name) ==
    LET kept == SelectSeq(doc.vaults, LAMBDA t : ~Matches(t, name))
    IN  IF Len(kept) = Len(doc.vaults) THEN Refuse(doc) ELSE Validated([doc EXCEPT !.vaults = kept], doc)

\* Mutant: managed is written when it is off, and left as it was when it is on.
MutMarked(table, managed) == IF managed THEN table ELSE Insert(table, "managed", FALSE)

\* managed is written only when it is off.
Marked(table, managed) == IF managed THEN Drop(table, {"managed"}) ELSE Insert(table, "managed", FALSE)

UpdateVault(doc, current, name, path, managed) ==
    LET at == FindVault(doc, current)
    IN  IF at = 0 THEN Refuse(doc)
        ELSE Validated(Replaced(doc, at, Marked(Insert(Insert(doc.vaults[at], "path", path), "name", name),
                                                managed)), doc)

\* A search or embedding key that is no table of its own ends the edit, and
\* what was written before it stays: semantic is on then.
EnableSemanticSearch(doc, name, directory) ==
    LET at == FindVault(doc, name)
        search == Get(doc.vaults[at], "search", NoTable)
        on == Insert(search.keys, "semantic", TRUE)
        embedding == Get(search.keys, "embedding", NoTable)
        With(keys) == Replaced(doc, at, Insert(doc.vaults[at], "search", [search EXCEPT !.keys = keys]))
    IN  CASE at = 0 \/ search.inline -> Refuse(doc)
          [] embedding.inline -> Refuse(With(on))
          [] OTHER -> Validated(With(Insert(on, "embedding",
                          [embedding EXCEPT !.keys = Insert(@, "model_directory", directory)])), doc)

\* A table that is inline, or absent, is left alone, and the edit accepted.
DisableSemanticSearch(doc, name) ==
    LET at == FindVault(doc, name)
        search == Get(doc.vaults[at], "search", NoTable)
    IN  IF at = 0 THEN Refuse(doc)
        ELSE Validated(IF "search" \notin DOMAIN doc.vaults[at] \/ search.inline THEN doc
                       ELSE Replaced(doc, at, Insert(doc.vaults[at], "search",
                                [search EXCEPT !.keys = Insert(@, "semantic", FALSE)])), doc)

\* set_server_settings: what equals its default is taken out.
SetServerSettings(doc, settings) ==
    LET default == [transports |-> <<"stdio">>, log_level |-> "info", log_file |-> ""]
        equal == {k \in DOMAIN settings : settings[k] = default[k]}
        keys == Drop(settings, equal) @@ Drop(doc.server.keys, equal)
    IN  IF doc.server.inline THEN Refuse(doc) ELSE Validated([doc EXCEPT !.server.keys = keys], doc)

-----------------------------------------------------------------------------
(* The interview.                                                           *)

\* vaults: the prefilled answers about a vault.
Summary(table) ==
    LET search == Get(table, "search", NoTable)
        keys == IF search.inline THEN << >> ELSE search.keys
        embedding == Get(keys, "embedding", NoTable)
    IN  [name |-> DisplayName(table), path |-> table.path, managed |-> Get(table, "managed", TRUE),
         semantic |-> Get(keys, "semantic", FALSE),
         model |-> IF embedding.inline THEN "" ELSE Get(embedding.keys, "model_directory", "")]

\* server_settings.
ServerSettings(doc) ==
    LET settings == ServerConfig(IF doc.server.inline THEN NoTable ELSE doc.server)
    IN  [settings EXCEPT !.transports = IF @ = << >> THEN <<"stdio">> ELSE @]

\* An operator answers some prompts and takes what is prefilled at the others;
\* a model directory that is not known is downloaded.
Answered(answer, prefilled) ==
    LET given == answer @@ prefilled
    IN  IF "model" \in DOMAIN given /\ given.model = "" THEN [given EXCEPT !.model = "downloaded"] ELSE given

\* Mutant: a refusal of semantic search leaves it as it was.
MutEditVault(doc, current, answer) ==
    LET new == Answered(answer, current)
    IN  Then(UpdateVault(doc, current.name, new.name, new.path, new.managed),
             LAMBDA d : IF new.semantic THEN EnableSemanticSearch(d, new.name, new.model) ELSE Accept(d))

\* edit_existing_vault.
EditVault(doc, current, answer) ==
    LET new == Answered(answer, current)
    IN  Then(UpdateVault(doc, current.name, new.name, new.path, new.managed),
             LAMBDA d : CASE new.semantic -> EnableSemanticSearch(d, new.name, new.model)
                          [] ~new.semantic /\ current.semantic -> DisableSemanticSearch(d, new.name)
                          [] OTHER -> Accept(d))

\* What the operator does with the vaults there are: nothing follows a refusal.
\* "all" goes through the vaults as they were when it began.
Edit(outcome, step) ==
    Then(outcome, LAMBDA doc :
        CASE step.do = "server" -> SetServerSettings(doc, Answered(step.answer, ServerSettings(doc)))
          [] step.do \in {"edit", "remove"} /\ step.at \notin DOMAIN doc.vaults -> Refuse(doc)
          [] step.do = "edit" /\ step.at \in DOMAIN doc.vaults ->
                EditVault(doc, Summary(doc.vaults[step.at]), step.answer)
          [] step.do = "remove" /\ step.at \in DOMAIN doc.vaults ->
                RemoveVault(doc, DisplayName(doc.vaults[step.at]))
          [] step.do = "all" ->
                FoldLeft(LAMBDA o, i : Then(o, LAMBDA d : EditVault(d, Summary(doc.vaults[i]), step.answers[i])),
                         outcome, [i \in DOMAIN doc.vaults |-> i]))

\* run_interview, up to the document it writes: with one vault, that is edited;
\* with more, the operator chooses.  Then vaults are added, and semantic search
\* enabled for those.  A refusal ends it, and nothing is written.
Interview(doc, talk) ==
    LET edited == FoldLeft(Edit, Accept(doc), talk.edits)
        added == FoldLeft(LAMBDA o, v : Then(o, LAMBDA d : AddVault(d, v.name, v.path)), edited, talk.added)
    IN  IF talk.model = "" THEN added
        ELSE FoldLeft(LAMBDA o, v : Then(o, LAMBDA d : EnableSemanticSearch(d, v.name, talk.model)), added, talk.added)

\* The interviews a document can have.
Fits(doc, talk) ==
    /\ CASE Len(doc.vaults) = 0 -> talk.edits = << >> /\ talk.added # << >>
         [] Len(doc.vaults) = 1 -> Len(talk.edits) = 1 /\ talk.edits[1].do = "edit" /\ talk.edits[1].at = 1
         [] OTHER -> talk.edits # << >>
    /\ talk.model # "" => talk.added # << >>
    /\ \A i \in DOMAIN talk.edits : talk.edits[i].do = "all" => Len(talk.edits[i].answers) >= Len(doc.vaults)

-----------------------------------------------------------------------------
(* What an interview promises: it does to the configuration what was        *)
(* answered, and nothing else.                                              *)

\* What a vault's answers say of it, with the rest as it was loaded.
Meant(vault, answer) ==
    LET given == answer @@ vault
        semantic == Get(answer, "semantic", vault.semantic)
    IN  [root |-> IF "path" \in DOMAIN answer THEN Canonical[answer.path] ELSE vault.root,
         name |-> given.name, managed |-> given.managed, semantic |-> semantic,
         model |-> IF semantic THEN Answered([model |-> given.model], << >>).model ELSE vault.model]

Did(config, step) ==
    CASE step.do = "server" -> [config EXCEPT !.server = step.answer @@ @]
      [] step.do = "edit" -> [config EXCEPT !.vaults[step.at] = Meant(@, step.answer)]
      [] step.do = "remove" -> [config EXCEPT !.vaults = RemoveAt(@, step.at)]
      [] step.do = "all" -> [config EXCEPT !.vaults = [i \in DOMAIN @ |-> Meant(@[i], step.answers[i])]]

Added(vault, model) ==
    [root |-> Canonical[vault.path], name |-> vault.name, managed |-> TRUE, semantic |-> model # "", model |-> model]

Promised(config, talk) ==
    LET edited == FoldLeft(Did, config, talk.edits)
    IN  [edited EXCEPT !.vaults = @ \o [i \in DOMAIN talk.added |-> Added(talk.added[i], talk.model)]]

\* Documents that load, or name no vault yet; whose tables are not inline; and
\* in which a vault with no name has that of its path, not only that of the
\* directory a link leads to.
Plain(doc) ==
    /\ Loads(doc) \/ doc = Blank
    /\ \A i \in DOMAIN doc.vaults :
           LET search == Get(doc.vaults[i], "search", NoTable)
           IN  /\ ~search.inline /\ ~Get(search.keys, "embedding", NoTable).inline
               /\ DisplayName(doc.vaults[i]) = NameOf(doc.vaults[i])
    /\ ~doc.server.inline

EndsAsPromised(ended, doc, talk) ==
    ended.ok => Loads(ended.doc) /\ Config(ended.doc) = Promised(Config(doc), talk)

\* An interview that ends leaves a document the server loads, in which every
\* vault and the server have the settings that were answered, and those no
\* question was about are as they were (config_writer.rs; interview.rs).
InterviewDoesAsAnswered(doc, talk) ==
    Plain(doc) /\ Fits(doc, talk) => EndsAsPromised(Interview(doc, talk), doc, talk)

=============================================================================
