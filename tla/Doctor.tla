------------------------------- MODULE Doctor -------------------------------
(***************************************************************************)
(* doctor and doctor_resolve (contextos-mcp, doctor.rs and tools/doctor.rs): *)
(* the checks of every configured vault, and the two repairs that are made  *)
(* without asking.                                                          *)
(*                                                                         *)
(* A vault is its tree, as in ManagedIndex, where the text of a note also   *)
(* has its frontmatter as a sequence of words; what its configuration turns *)
(* on; the state of its .git and of its .gitignore.                         *)
(***************************************************************************)
EXTENDS ManagedIndex

\* What strict YAML takes for structure, in the frontmatter of a note.
Parses(front) == {"{{", "bad"} \cap ToSet(front) = {}

\* substitute_placeholders: the first "}}" after a "{{" closes it.
Substituted(front) ==
    LET step(s, word) ==
            CASE s.held = << >> /\ word = "{{" -> [s EXCEPT !.held = <<word>>]
              [] s.held # << >> /\ word = "}}" -> [out |-> Append(s.out, "PLACEHOLDER"), held |-> << >>]
              [] s.held # << >> /\ word # "}}" -> [s EXCEPT !.held = Append(@, word)]
              [] OTHER -> [s EXCEPT !.out = Append(@, word)]
        last == FoldLeft(step, [out |-> << >>, held |-> << >>], front)
    IN  last.out \o last.held

\* frontmatter_check: a note that parses, or does with its placeholders filled in.
FrontOk(node) ==
    "front" \in DOMAIN node.text => Parses(node.text.front) \/ Parses(Substituted(node.text.front))

-----------------------------------------------------------------------------
(* The report: a sequence of checks, each of a vault, 0 for none.           *)

Check(i, subject, ok, fix) == [vault |-> i, subject |-> subject, ok |-> ok, fix |-> fix]

IndexCheck(i, v) ==
    LET stale == v.indexed /\ ~Settled(v.tree)
    IN  Check(i, "index", ~stale, IF stale /\ Rebuild(v.tree).ok THEN "vault_index_rebuild" ELSE "none")

\* A repository without a commit has no HEAD, so that its status is an error.
GitCheck(i, v) ==
    Check(i, "git", v.git = "off" \/ (v.git = "on" /\ v.repo = "whole"),
          IF v.git = "on" /\ v.repo \in {"none", "wrecked"} THEN "git_init" ELSE "none")

SemanticCheck(i, v) == Check(i, "semantic", v.semantic # "failing", "none")

FrontmatterCheck(i, v) ==
    Check(i, "frontmatter", \A p \in DOMAIN v.tree : v.tree[p].kind = "file" /\ Last(p) \in Markdown => FrontOk(v.tree[p]), "none")

Checks(i, v) ==
    <<Check(i, "vault", TRUE, "none")>>
    \o IF v.managed THEN <<IndexCheck(i, v), GitCheck(i, v), SemanticCheck(i, v), FrontmatterCheck(i, v)>>
       ELSE <<Check(i, "index", TRUE, "none"), Check(i, "git", TRUE, "none")>>

Report(vaults) == FoldLeft(LAMBDA r, i : r \o Checks(i, vaults[i]),
                           <<Check(0, "configuration", TRUE, "none")>>, [i \in DOMAIN vaults |-> i])

-----------------------------------------------------------------------------
(* The repairs.                                                             *)

\* initialise, as far as the checks tell: the ignore policy comes first, and it
\* stops on a .gitignore that is no text; a .git that cannot be opened stays.
Initialised(v) ==
    CASE v.ignore = "no text" -> v
      [] v.ignore # "no text" /\ v.repo = "wrecked" -> [v EXCEPT !.ignore = "whole"]
      [] OTHER -> [v EXCEPT !.ignore = "whole", !.repo = "whole"]

Repaired(v, fix) == IF fix = "git_init" THEN Initialised(v) ELSE [v EXCEPT !.tree = Rebuild(v.tree).vault]

\* Mutant: a selected vault only decides what is locked.
MutWanted(report, target) == SelectSeq(report, LAMBDA c : c.fix # "none")

\* The findings to act on, of the selected vault or of all.
Wanted(report, target) ==
    SelectSeq(report, LAMBDA c : c.fix # "none" /\ (target = {} \/ c.vault \in target))

\* resolve_doctor_findings.  An outcome says "resolved" of every repair that was
\* tried, and the report is made again when there is one.
Resolve(vaults, target, dry) ==
    LET step(s, c) == [vaults |-> IF dry THEN s.vaults ELSE [s.vaults EXCEPT ![c.vault] = Repaired(@, c.fix)],
                       outcomes |-> Append(s.outcomes, [vault |-> c.vault, subject |-> c.subject, resolved |-> ~dry])]
        report == Report(vaults)
        done == FoldLeft(step, [vaults |-> vaults, outcomes |-> << >>], Wanted(report, target))
        wrote == \E o \in ToSet(done.outcomes) : o.resolved
    IN  done @@ [report |-> IF wrote THEN Report(done.vaults) ELSE report]

-----------------------------------------------------------------------------

\* The notes are as they were, and so is what the operator wrote around a table and
\* in its rows, in an index.md or in the _index.md that became one.
OperatorKept(before, after) ==
    /\ \A p \in DOMAIN before : p = << >> \/ Last(p) \notin {"index.md", "_index.md"} => p \in DOMAIN after /\ after[p] = before[p]
    /\ \A p \in DOMAIN before : p # << >> /\ Last(p) \in {"index.md", "_index.md"} =>
        LET new == after[IF p \in DOMAIN after THEN p ELSE Append(Front(p), "index.md")].text
            old == before[p].text
        IN  /\ new.head = old.head /\ new.tail = old.tail
            /\ old.table # << >> => \A r \in ToSet(old.table[1]), s \in ToSet(new.table[1]) :
                   s.name = r.name /\ ReadBack[r.name] = r.name => s = r

\* doctor_resolve leaves alone what it was not asked about, and with dry_run everything;
\* it takes nothing the operator wrote; it makes no check fail that passed; its report is
\* that of the vaults as they are; and one call leaves nothing it could repair, but a
\* .git or a .gitignore that git_init cannot use (doctor.rs, resolve_doctor_findings).
DoctorHeals(vaults, target, dry) ==
    \A done \in {Resolve(vaults, target, dry)}, before \in {Report(vaults)} :
        /\ \A i \in DOMAIN vaults :
               /\ dry \/ (target # {} /\ i \notin target) \/ ~vaults[i].managed => done.vaults[i] = vaults[i]
               /\ OperatorKept(vaults[i].tree, done.vaults[i].tree)
        /\ done.report = Report(done.vaults)
        /\ \A k \in DOMAIN before : before[k].ok => done.report[k].ok
        /\ ~dry => \A c \in ToSet(Wanted(done.report, target)) :
               c.fix = "git_init" /\ (vaults[c.vault].repo = "wrecked" \/ vaults[c.vault].ignore = "no text")

=============================================================================
