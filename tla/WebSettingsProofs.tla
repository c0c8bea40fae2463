------------------------- MODULE WebSettingsProofs -------------------------
(***************************************************************************)
(* Proofs about WebSettings, for any requests, servers, vaults and         *)
(* manifests: the variables keep their types, web.toml stays valid, and no *)
(* write of it takes from a registered app a server it needs.              *)
(***************************************************************************)
EXTENDS WebSettings, TLAPS

\* A vault's directories are listed in an order, and are its own.
Apart ==
    /\ \A v \in Vault : Dirs[v] \in Seq(Dir)
    /\ \A v, w \in Vault : \A i \in DOMAIN Dirs[v], j \in DOMAIN Dirs[w] : Dirs[v][i] = Dirs[w][j] => v = w

Sound == Apart /\ MaxManifest \in Nat

Under == {"check", "write"}

\* One vault is asked at a time, after it has left those that are to be asked.
OneVault(q) ==
    \A v \in Vault : \A i \in DOMAIN Dirs[v] : <<v, i>> \in q.dirs =>
        /\ v \notin q.vaults
        /\ \A w \in Vault : \A j \in DOMAIN Dirs[w] : <<w, j>> \in q.dirs => w = v

\* The slugs taken in a vault nobody changes are those of directories before the ones that are left.
SlugsTaken(q) ==
    \A v \in Vault \ q.touched : \A i \in DOMAIN Dirs[v] : <<v, i>> \in q.dirs =>
        \A slug \in q.slugs : \E k \in 1..i - 1 :
            /\ <<v, k>> \notin q.dirs
            /\ Loads(Dirs[v][k], q.before.servers) /\ SlugOf(Dirs[v][k]) = slug

\* The app of a directory needs a server that is to go.
Needs(v, i, q) == manifests[Dirs[v][i]][1].needs \cap q.removed # {}

\* Of a vault that was asked and nobody changed, each app that needs a server which is
\* to go was noticed, unless a tool hid it.
Noticed(q) ==
    \A v \in Vault \ (q.vaults \cup q.touched) : \A i \in DOMAIN Dirs[v] :
        <<v, i>> \notin q.dirs /\ Dirs[v][i] \notin q.hidden
            /\ Wins(v, i, q.before.servers) /\ Needs(v, i, q) => q.conflict

\* What a request that is under way knows.
Knows(q) ==
    /\ Valid(q.after) /\ q.removed = Removed(q.before, q.after)
    /\ OneVault(q) /\ SlugsTaken(q) /\ Noticed(q)
    /\ q.at = "write" /\ q.removed # {} => ~q.conflict /\ q.dirs = {} /\ q.vaults = {}

RequestsInv == \A r \in Request : requests[r].at \in Under => Knows(requests[r])

Inv == TypeOK /\ RequestsInv

-----------------------------------------------------------------------------
(* Documents, manifests and requests.                                       *)

\* An edit that is not refused leaves a valid document.
LEMMA EditedDocument ==
    ASSUME NEW doc \in Document, NEW edit \in Edits, Valid(doc)
    PROVE  /\ Edited(doc, edit) \in Document
           /\ ~Unknown(doc, edit) /\ ~Invalid(doc, edit) => Valid(Edited(doc, edit))
<1>1. Added(edit) \subseteq Server
  BY DEF Edits, Added
<1>2. Kept(doc, edit) \subseteq doc.servers
  BY DEF Kept
<1>3. Edited(doc, edit) \in Document
  BY <1>1, <1>2 DEF Edited, Document
<1>4. \A s, t \in Added(edit) : s = t
  BY DEF Edits, Added
<1>5. ASSUME ~Unknown(doc, edit), ~Invalid(doc, edit),
             NEW s \in Kept(doc, edit) \cup Added(edit), NEW t \in Kept(doc, edit) \cup Added(edit), Same(s, t)
      PROVE  s = t
  <2>1. CASE s \in Kept(doc, edit) /\ t \in Kept(doc, edit)
    BY <1>2, <1>5, <2>1 DEF Valid
  <2>2. CASE s \in Added(edit) /\ t \in Added(edit)
    BY <1>4, <2>2
  <2>3. CASE s \in Kept(doc, edit) /\ t \in Added(edit)
    BY <1>5, <2>3 DEF Invalid
  <2>4. CASE s \in Added(edit) /\ t \in Kept(doc, edit)
    BY <1>5, <2>4 DEF Invalid, Same
  <2>5. QED
    BY <2>1, <2>2, <2>3, <2>4
<1>6. QED
  BY <1>3, <1>5 DEF Edited, Valid

\* What is in a directory that has a manifest is one.
LEMMA ManifestThere ==
    ASSUME TypeOK, NEW dir \in Dir, manifests[dir] # << >>
    PROVE  manifests[dir][1] \in Manifest
<1>1. PICK m \in Manifest : manifests[dir] = <<m>>
  BY DEF TypeOK, Manifests
<1>2. QED
  BY <1>1

\* The directories of a vault are listed from the first, and are directories.
LEMMA DirsOfVault ==
    ASSUME Sound, NEW v \in Vault, NEW i \in DOMAIN Dirs[v]
    PROVE  i \in Nat /\ Dirs[v][i] \in Dir /\ 1..i - 1 \subseteq DOMAIN Dirs[v]
<1>1. Dirs[v] \in Seq(Dir)
  BY DEF Sound, Apart
<1>2. DOMAIN Dirs[v] = 1..Len(Dirs[v]) /\ Len(Dirs[v]) \in Nat
  BY <1>1
<1>3. QED
  BY <1>1, <1>2

\* A request that is under way has the fields of one.
LEMMA UnderWay ==
    ASSUME TypeOK, NEW r \in Request, requests[r].at \in Under
    PROVE  requests[r] \in Pending
  BY DEF TypeOK, Under

\* What is registered in a vault whose manifests stay as they are.
LEMMA SameVault ==
    ASSUME Sound, NEW v \in Vault, NEW known,
           \A i \in DOMAIN Dirs[v] : manifests'[Dirs[v][i]] = manifests[Dirs[v][i]]
    PROVE  \A i \in DOMAIN Dirs[v] : Wins(v, i, known)' = Wins(v, i, known)
<1>1. \A i \in DOMAIN Dirs[v] : Loads(Dirs[v][i], known)' = Loads(Dirs[v][i], known)
                                /\ SlugOf(Dirs[v][i])' = SlugOf(Dirs[v][i])
  BY DEF Loads, SlugOf
<1>2. \A i \in DOMAIN Dirs[v] : 1..i - 1 \subseteq DOMAIN Dirs[v]
  BY DirsOfVault
<1>3. QED
  BY <1>1, <1>2 DEF Wins

-----------------------------------------------------------------------------
(* The steps.                                                               *)

\* No request is under way at first.
LEMMA InitInv ==
    ASSUME Sound, Init
    PROVE  Inv
<1>1. web \in Document /\ Valid(web)
  <2>1. PICK s \in SUBSET Server : Valid([servers |-> s]) /\ web = [servers |-> s, ui |-> FALSE]
    BY DEF Init
  <2>2. QED
    BY <2>1 DEF Document, Valid
<1>2. TypeOK
  BY <1>1 DEF Init, TypeOK, Sound, Idle
<1>3. RequestsInv
  BY DEF Init, RequestsInv, Idle, Under
<1>4. QED
  BY <1>2, <1>3 DEF Inv

\* What a request knows is of its own fields and of the manifests.
LEMMA SameKnowledge ==
    ASSUME NEW r \in Request, manifests' = manifests, Knows(requests'[r])
    PROVE  Knows(requests[r])'
<1>1. Valid(requests[r].after)' = Valid(requests'[r].after)
  BY DEF Valid, Same
<1>2. OneVault(requests[r])' = OneVault(requests'[r])
  BY DEF OneVault
<1>3. SlugsTaken(requests[r])' = SlugsTaken(requests'[r])
  BY DEF SlugsTaken, Loads, SlugOf
<1>4. Noticed(requests[r])' = Noticed(requests'[r])
  BY DEF Noticed, Wins, Loads, SlugOf, Needs
<1>5. QED
  BY <1>1, <1>2, <1>3, <1>4 DEF Knows, Removed

\* A step of one request, which leaves the manifests alone.
LEMMA OneRequest ==
    ASSUME Inv, NEW r \in Request, NEW q \in [at : {"idle", "refused", "ok"}] \cup Pending,
           requests' = [requests EXCEPT ![r] = q], UNCHANGED <<manifests, written>>,
           web' \in Document, Valid(web'), q.at \in Under => Knows(q)
    PROVE  Inv'
<1>1. TypeOK'
  <2>1. Valid(web)'
    BY DEF Valid, Same
  <2>2. QED
    BY <2>1 DEF Inv, TypeOK
<1>2. ASSUME NEW s \in Request, requests'[s].at \in Under
      PROVE  Knows(requests[s])'
  <2>1. Knows(requests'[s])
    BY <1>2 DEF Inv, TypeOK, RequestsInv
  <2>2. QED
    BY <2>1, SameKnowledge
<1>3. QED
  BY <1>1, <1>2 DEF Inv, RequestsInv

\* A request that begins knows what its edit removes and has asked no vault.
LEMMA BeginInv ==
    ASSUME Inv, NEW r \in Request, NEW edit \in Edits, Begin(r, edit)
    PROVE  Inv'
<1> DEFINE after == Edited(web, edit)
           removed == Removed(web, after)
           q == [at |-> IF removed = {} THEN "write" ELSE "check", before |-> web, after |-> after,
                 removed |-> removed, vaults |-> Vault, dirs |-> {}, slugs |-> {},
                 conflict |-> FALSE, touched |-> {}, hidden |-> {}]
<1>1. web \in Document /\ after \in Document /\ Valid(after)
  BY EditedDocument DEF Begin, Inv, TypeOK
<1>2. removed \subseteq Server
  BY <1>1 DEF Removed, Document
<1>3. q \in Pending
  BY <1>1, <1>2 DEF Pending
<1>4. Knows(q)
  BY <1>1 DEF Knows, OneVault, SlugsTaken, Noticed
<1>5. requests' = [requests EXCEPT ![r] = q] /\ UNCHANGED <<web, manifests, written>>
  BY DEF Begin, Checked
<1>6. QED
  BY <1>3, <1>4, <1>5, OneRequest DEF Inv, TypeOK

\* A request that is answered.
LEMMA EndInv ==
    ASSUME Inv, NEW r \in Request, NEW answer \in {"refused", "ok"}, End(r, answer),
           UNCHANGED <<manifests, written>>, web' \in Document, Valid(web')
    PROVE  Inv'
<1>1. [at |-> answer] \in [at : {"idle", "refused", "ok"}] /\ answer \notin Under
  BY DEF Under
<1>2. QED
  BY <1>1, OneRequest DEF End

\* A vault whose directories are listed is the one that is being asked.
LEMMA ListAppsInv ==
    ASSUME Inv, NEW r \in Request, NEW v \in Vault, ListApps(r, v)
    PROVE  Inv'
<1> DEFINE p == requests[r]
           listed == {<<v, i>> : i \in {j \in DOMAIN Dirs[v] : manifests[Dirs[v][j]] # << >>}}
           q == [p EXCEPT !.vaults = @ \ {v}, !.slugs = {}, !.dirs = listed]
<1>1. p \in Pending /\ p.at = "check" /\ p.dirs = {} /\ Knows(p)
  BY UnderWay DEF ListApps, Inv, RequestsInv, Under
<1>2. listed \subseteq UNION {{w} \X DOMAIN Dirs[w] : w \in Vault}
  OBVIOUS
<1>3. q \in Pending
  BY <1>1, <1>2 DEF Pending
<1>4. /\ q.at = "check" /\ q.before = p.before /\ q.after = p.after /\ q.removed = p.removed
      /\ q.vaults = p.vaults \ {v} /\ q.dirs = listed /\ q.slugs = {}
      /\ q.conflict = p.conflict /\ q.touched = p.touched /\ q.hidden = p.hidden
  BY <1>1 DEF Pending
<1>5. requests' = [requests EXCEPT ![r] = q] /\ UNCHANGED <<web, manifests, written>>
  BY DEF ListApps
<1> HIDE DEF q
<1>6. OneVault(q)
  BY <1>4 DEF OneVault
<1>7. SlugsTaken(q)
  BY <1>4 DEF SlugsTaken
<1>8. ASSUME NEW w \in Vault \ (q.vaults \cup q.touched), NEW i \in DOMAIN Dirs[w],
             <<w, i>> \notin q.dirs, Dirs[w][i] \notin q.hidden, Wins(w, i, q.before.servers), Needs(w, i, q)
      PROVE  q.conflict
  <2>1. CASE w = v
    <3>1. manifests[Dirs[v][i]] # << >>
      BY <1>8, <2>1 DEF Wins, Loads
    <3>2. QED
      BY <1>4, <1>8, <2>1, <3>1
  <2>2. CASE w # v
    <3>1. w \in Vault \ (p.vaults \cup p.touched) /\ <<w, i>> \notin p.dirs /\ Dirs[w][i] \notin p.hidden
      BY <1>1, <1>4, <1>8, <2>2
    <3>2. Wins(w, i, p.before.servers) /\ Needs(w, i, p)
      BY <1>4, <1>8 DEF Needs
    <3>3. QED
      BY <1>1, <1>4, <3>1, <3>2 DEF Knows, Noticed
  <2>3. QED
    BY <2>1, <2>2
<1>9. Knows(q)
  BY <1>1, <1>4, <1>6, <1>7, <1>8 DEF Knows, Noticed
<1>10. QED
  BY <1>3, <1>9, <1>5, OneRequest DEF Inv, TypeOK

\* The next directory: its app wins its slug if no earlier one has it, and a need is noticed.
LEMMA LoadAppInv ==
    ASSUME Sound, Inv, NEW r \in Request, NEW v \in Vault, NEW i \in DOMAIN Dirs[v], LoadApp(r, v, i)
    PROVE  Inv'
<1> DEFINE p == requests[r]
           dir == Dirs[v][i]
           app == Loads(dir, p.before.servers) /\ SlugOf(dir) \notin p.slugs
           q == [p EXCEPT !.dirs = @ \ {<<v, i>>},
                          !.slugs = IF app THEN @ \cup {SlugOf(dir)} ELSE @,
                          !.conflict = @ \/ (app /\ manifests[dir][1].needs \cap p.removed # {})]
<1>1. p \in Pending /\ p.at = "check" /\ <<v, i>> \in p.dirs /\ Knows(p)
  BY UnderWay DEF LoadApp, Inv, RequestsInv, Under
<1>2. \A j \in DOMAIN Dirs[v] : <<v, j>> \in p.dirs => i <= j
  BY DEF LoadApp
<1>3. app => SlugOf(dir) \in Dir \cup {m.slug : m \in Manifest}
  BY DirsOfVault, ManifestThere DEF Inv, Loads, SlugOf
<1>4. q \in Pending
  BY <1>1, <1>3 DEF Pending
<1>5. /\ q.at = "check" /\ q.before = p.before /\ q.after = p.after /\ q.removed = p.removed
      /\ q.vaults = p.vaults /\ q.dirs = p.dirs \ {<<v, i>>} /\ q.touched = p.touched /\ q.hidden = p.hidden
      /\ q.slugs = IF app THEN p.slugs \cup {SlugOf(dir)} ELSE p.slugs
      /\ q.conflict = (p.conflict \/ (app /\ Needs(v, i, p)))
  BY <1>1 DEF Pending, Needs
<1>6. requests' = [requests EXCEPT ![r] = q] /\ UNCHANGED <<web, manifests, written>>
  BY DEF LoadApp
<1> HIDE DEF q
<1>7. OneVault(q)
  BY <1>1, <1>5 DEF Knows, OneVault
<1>8. ASSUME NEW w \in Vault \ q.touched, NEW j \in DOMAIN Dirs[w], <<w, j>> \in q.dirs, NEW slug \in q.slugs
      PROVE  \E k \in 1..j - 1 : /\ <<w, k>> \notin q.dirs
                                 /\ Loads(Dirs[w][k], q.before.servers) /\ SlugOf(Dirs[w][k]) = slug
  <2>1. w = v /\ <<v, j>> \in p.dirs
    BY <1>1, <1>5, <1>8 DEF Knows, OneVault
  <2>2. i \in 1..j - 1 /\ <<v, i>> \notin q.dirs
    <3>1. i \in Nat /\ j \in Nat /\ i \in DOMAIN Dirs[v] /\ DOMAIN Dirs[v] = 1..Len(Dirs[v])
      BY <2>1, DirsOfVault DEF Sound, Apart
    <3>2. i <= j /\ i # j
      BY <1>2, <1>5, <1>8, <2>1
    <3>3. QED
      BY <1>5, <3>1, <3>2
  <2>3. CASE slug \in p.slugs
    <3>1. PICK k \in 1..j - 1 : <<v, k>> \notin p.dirs /\ Loads(Dirs[v][k], p.before.servers) /\ SlugOf(Dirs[v][k]) = slug
      <4>1. SlugsTaken(p) /\ v \in Vault \ p.touched /\ j \in DOMAIN Dirs[v]
        BY <1>1, <1>5, <1>8, <2>1 DEF Knows
      <4>2. QED
        BY <2>1, <2>3, <4>1 DEF SlugsTaken
    <3>2. QED
      BY <1>5, <2>1, <3>1
  <2>4. CASE slug \notin p.slugs
    <3>1. app /\ slug = SlugOf(dir)
      BY <1>5, <1>8, <2>4
    <3>2. QED
      BY <1>5, <2>1, <2>2, <3>1
  <2>5. QED
    BY <2>3, <2>4
<1>9. ASSUME NEW w \in Vault \ (q.vaults \cup q.touched), NEW j \in DOMAIN Dirs[w],
             <<w, j>> \notin q.dirs, Dirs[w][j] \notin q.hidden, Wins(w, j, q.before.servers), Needs(w, j, q)
      PROVE  q.conflict
  <2>1. /\ Wins(w, j, p.before.servers) /\ Needs(w, j, p) /\ w \in Vault \ (p.vaults \cup p.touched)
        /\ Dirs[w][j] \notin p.hidden
    BY <1>5, <1>9 DEF Needs
  <2>2. CASE <<w, j>> \notin p.dirs
    BY <1>1, <1>5, <2>1, <2>2 DEF Knows, Noticed
  <2>3. CASE <<w, j>> \in p.dirs
    <3>1. w = v /\ j = i
      BY <1>5, <1>9, <2>3
    <3>2. SlugOf(dir) \notin p.slugs
      <4>1. SUFFICES ASSUME SlugOf(dir) \in p.slugs
                     PROVE  FALSE
        OBVIOUS
      <4>2. PICK k \in 1..i - 1 : Loads(Dirs[v][k], p.before.servers) /\ SlugOf(Dirs[v][k]) = SlugOf(dir)
        <5>1. SlugsTaken(p) /\ v \in Vault \ p.touched
          BY <1>1, <2>1, <3>1 DEF Knows
        <5>2. \A slug \in p.slugs : \E k \in 1..i - 1 : Loads(Dirs[v][k], p.before.servers) /\ SlugOf(Dirs[v][k]) = slug
          <6> HIDE DEF p
          <6>1. QED
            BY <1>1, <5>1, ZenonT(60) DEF SlugsTaken
        <5>3. QED
          BY <4>1, <5>2
      <4>3. QED
        BY <2>1, <3>1, <4>2 DEF Wins
    <3>3. app
      BY <2>1, <3>1, <3>2 DEF Wins
    <3>4. QED
      BY <1>5, <2>1, <3>1, <3>3
  <2>4. QED
    BY <2>2, <2>3
<1>10. Knows(q)
  BY <1>1, <1>5, <1>7, <1>8, <1>9 DEF Knows, SlugsTaken, Noticed
<1>11. QED
  BY <1>4, <1>10, <1>6, OneRequest DEF Inv, TypeOK

\* What a tool's error hides is no app to be noticed; the rest is known as before.
LEMMA ToolErrorInv ==
    ASSUME Inv, NEW r \in Request,
           NoVaults(r) \/ (\E v \in Vault : ListFails(r, v))
               \/ (\E v \in Vault : \E i \in DOMAIN Dirs[v] : LoadFails(r, v, i))
    PROVE  Inv'
<1> DEFINE p == requests[r]
<1>1. p \in Pending /\ p.at = "check" /\ Knows(p) /\ UNCHANGED <<web, manifests, written>>
  BY UnderWay DEF NoVaults, ListFails, LoadFails, Inv, RequestsInv, Under
<1>2. CASE NoVaults(r)
  <2> DEFINE q == [p EXCEPT !.vaults = {}, !.hidden = Dir]
  <2>1. q \in Pending
    BY <1>1 DEF Pending
  <2>2. /\ q.at = "check" /\ q.before = p.before /\ q.after = p.after /\ q.removed = p.removed
        /\ q.vaults = {} /\ q.dirs = {} /\ q.hidden = Dir
    BY <1>1, <1>2 DEF Pending, NoVaults
  <2>3. requests' = [requests EXCEPT ![r] = q]
    BY <1>2 DEF NoVaults
  <2> HIDE DEF q
  <2>4. \A v \in Vault : \A i \in DOMAIN Dirs[v] : Dirs[v][i] \in Dir
    BY DEF Dir
  <2>5. Knows(q)
    BY <1>1, <2>2, <2>4 DEF Knows, OneVault, SlugsTaken, Noticed
  <2>6. QED
    BY <1>1, <2>1, <2>3, <2>5, OneRequest DEF Inv, TypeOK
<1>3. ASSUME NEW v \in Vault, ListFails(r, v) PROVE Inv'
  <2> DEFINE gone == {Dirs[v][i] : i \in DOMAIN Dirs[v]}
             q == [p EXCEPT !.vaults = @ \ {v}, !.slugs = {}, !.hidden = @ \cup gone]
  <2>1. gone \subseteq Dir
    BY DEF Dir
  <2>2. q \in Pending
    BY <1>1, <2>1 DEF Pending
  <2>3. /\ q.at = "check" /\ q.before = p.before /\ q.after = p.after /\ q.removed = p.removed
        /\ q.vaults = p.vaults \ {v} /\ q.dirs = {} /\ p.dirs = {} /\ q.hidden = p.hidden \cup gone
        /\ q.touched = p.touched /\ q.conflict = p.conflict
    BY <1>1, <1>3 DEF Pending, ListFails
  <2>4. requests' = [requests EXCEPT ![r] = q]
    BY <1>3 DEF ListFails
  <2>5. \A i \in DOMAIN Dirs[v] : Dirs[v][i] \in gone
    OBVIOUS
  <2> HIDE DEF q, gone
  <2>6. Noticed(q)
    BY <1>1, <2>3, <2>5 DEF Knows, Noticed, Needs
  <2>7. OneVault(q) /\ SlugsTaken(q)
    BY <2>3 DEF OneVault, SlugsTaken
  <2>8. Knows(q)
    BY <1>1, <2>3, <2>6, <2>7 DEF Knows
  <2>9. QED
    BY <1>1, <2>2, <2>4, <2>8, OneRequest DEF Inv, TypeOK
<1>4. ASSUME NEW v \in Vault, NEW i \in DOMAIN Dirs[v], LoadFails(r, v, i) PROVE Inv'
  <2> DEFINE q == [p EXCEPT !.dirs = @ \ {<<v, i>>}, !.hidden = @ \cup {Dirs[v][i]}]
  <2>1. Dirs[v][i] \in Dir
    BY DEF Dir
  <2>2. q \in Pending
    BY <1>1, <2>1 DEF Pending
  <2>3. /\ q.at = "check" /\ q.before = p.before /\ q.after = p.after /\ q.removed = p.removed
        /\ q.vaults = p.vaults /\ q.dirs = p.dirs \ {<<v, i>>} /\ q.hidden = p.hidden \cup {Dirs[v][i]}
        /\ q.touched = p.touched /\ q.conflict = p.conflict /\ q.slugs = p.slugs
    BY <1>1 DEF Pending
  <2>4. requests' = [requests EXCEPT ![r] = q]
    BY <1>4 DEF LoadFails
  <2> HIDE DEF q, p
  <2>5. OneVault(q) /\ SlugsTaken(q)
    <3>1. OneVault(p) /\ SlugsTaken(p)
      BY <1>1 DEF Knows
    <3>2. \A x : x \in q.dirs => x \in p.dirs
      BY <2>3
    <3>3. \A x : x \notin p.dirs => x \notin q.dirs
      BY <2>3
    <3>4. OneVault(q)
      BY <2>3, <3>1, <3>2 DEF OneVault
    <3>5. SlugsTaken(q)
      <4>1. SUFFICES ASSUME NEW w \in Vault \ q.touched, NEW j \in DOMAIN Dirs[w], <<w, j>> \in q.dirs,
                            NEW slug \in q.slugs
                     PROVE  \E k \in 1..j - 1 : /\ <<w, k>> \notin q.dirs
                                                /\ Loads(Dirs[w][k], q.before.servers) /\ SlugOf(Dirs[w][k]) = slug
        BY DEF SlugsTaken
      <4>2. PICK k \in 1..j - 1 : /\ <<w, k>> \notin p.dirs
                                  /\ Loads(Dirs[w][k], p.before.servers) /\ SlugOf(Dirs[w][k]) = slug
        BY <2>3, <3>1, <3>2, <4>1 DEF SlugsTaken
      <4>3. QED
        BY <2>3, <3>3, <4>2
    <3>6. QED
      BY <3>4, <3>5
  <2>6. \A w \in Vault : \A j \in DOMAIN Dirs[w] :
          <<w, j>> \notin q.dirs /\ Dirs[w][j] \notin q.hidden => <<w, j>> \notin p.dirs /\ Dirs[w][j] \notin p.hidden
    BY <2>3
  <2>7. Noticed(q)
    BY <1>1, <2>3, <2>6 DEF Knows, Noticed, Needs
  <2>8. QED
    BY <1>1, <2>2, <2>3, <2>4, <2>5, <2>7, OneRequest DEF Inv, TypeOK, Knows
<1>5. QED
  BY <1>2, <1>3, <1>4

\* With no vault and no directory left, a request without a conflict may write.
LEMMA AllAskedInv ==
    ASSUME Inv, NEW r \in Request, AllAsked(r)
    PROVE  Inv'
<1> DEFINE p == requests[r]
           q == [p EXCEPT !.at = "write"]
<1>1. p \in Pending /\ p.at = "check" /\ p.dirs = {} /\ p.vaults = {} /\ Knows(p)
  BY UnderWay DEF AllAsked, Inv, RequestsInv, Under
<1>2. CASE p.conflict
  BY <1>2, EndInv DEF AllAsked, Inv, TypeOK
<1>3. CASE ~p.conflict
  <2>1. q \in Pending
    BY <1>1 DEF Pending
  <2>2. /\ q.before = p.before /\ q.after = p.after /\ q.removed = p.removed
        /\ q.vaults = p.vaults /\ q.dirs = p.dirs /\ q.slugs = p.slugs
        /\ q.conflict = p.conflict /\ q.touched = p.touched /\ q.hidden = p.hidden
    BY <1>1 DEF Pending
  <2>3. requests' = [requests EXCEPT ![r] = q] /\ UNCHANGED <<web, manifests, written>>
    BY <1>3 DEF AllAsked
  <2> HIDE DEF q
  <2>4. Knows(q)
    BY <1>1, <1>3, <2>2 DEF Knows, OneVault, SlugsTaken, Noticed, Needs
  <2>5. QED
    BY <2>1, <2>3, <2>4, OneRequest DEF Inv, TypeOK
<1>4. QED
  BY <1>2, <1>3

\* What is written is valid.
LEMMA WriteInv ==
    ASSUME Inv, NEW r \in Request, Write(r)
    PROVE  Inv'
<1>1. requests[r] \in Pending /\ Knows(requests[r])
  BY UnderWay DEF Write, Inv, RequestsInv, Under
<1>2. web' \in Document /\ Valid(web')
  BY <1>1 DEF Write, Pending, Knows
<1>3. QED
  BY <1>2, EndInv DEF Write

\* A manifest that changes tells on what the requests know of its vault alone.
LEMMA ChangeManifestInv ==
    ASSUME Sound, Inv, NEW v \in Vault, NEW dir \in Dir, NEW m \in Manifests, ChangeManifest(v, dir, m)
    PROVE  Inv'
<1>1. /\ web' = web /\ written' \in 0..MaxManifest /\ manifests' = [manifests EXCEPT ![dir] = m]
  BY DEF ChangeManifest, Inv, TypeOK, Sound
<1>2. ASSUME NEW r \in Request
      PROVE  requests'[r] \in [at : {"idle", "refused", "ok"}] \cup Pending
  <2>1. CASE requests[r].at \in Under
    <3>1. requests[r] \in Pending /\ requests'[r] = [requests[r] EXCEPT !.touched = @ \cup {v}]
      BY <2>1, UnderWay DEF Inv, ChangeManifest, Under
    <3>2. QED
      BY <3>1 DEF Pending
  <2>2. CASE requests[r].at \notin Under
    BY <2>2 DEF ChangeManifest, Inv, TypeOK, Under
  <2>3. QED
    BY <2>1, <2>2
<1>3. TypeOK'
  <2>1. requests' = [r \in Request |-> requests'[r]]
    BY DEF ChangeManifest
  <2>2. manifests' \in [Dir -> Manifests]
    BY <1>1 DEF Inv, TypeOK
  <2>3. Valid(web)'
    BY <1>1 DEF Inv, TypeOK, Valid, Same
  <2>4. QED
    BY <1>1, <1>2, <2>1, <2>2, <2>3 DEF Inv, TypeOK
<1>4. \A w \in Vault \ {v} : \A i \in DOMAIN Dirs[w] : manifests'[Dirs[w][i]] = manifests[Dirs[w][i]]
  <2>1. PICK j \in DOMAIN Dirs[v] : dir = Dirs[v][j]
    BY DEF ChangeManifest
  <2>2. \A w \in Vault \ {v} : \A i \in DOMAIN Dirs[w] : Dirs[w][i] # dir
    BY <2>1 DEF Sound, Apart
  <2>3. QED
    BY <1>1, <2>2, DirsOfVault DEF Inv, TypeOK
<1>5. ASSUME NEW r \in Request, requests'[r].at \in Under
      PROVE  Knows(requests[r])'
  <2> DEFINE p == requests[r]
  <2>1. p.at \in Under
    BY <1>5 DEF ChangeManifest, Under
  <2>2. p \in Pending /\ Knows(p) /\ requests'[r] = [p EXCEPT !.touched = @ \cup {v}]
    BY <2>1, UnderWay DEF Inv, RequestsInv, ChangeManifest, Under
  <2>3. /\ p'.at = p.at /\ p'.before = p.before /\ p'.after = p.after /\ p'.removed = p.removed
        /\ p'.vaults = p.vaults /\ p'.dirs = p.dirs /\ p'.slugs = p.slugs
        /\ p'.conflict = p.conflict /\ p'.touched = p.touched \cup {v} /\ p'.hidden = p.hidden
    BY <2>2 DEF Pending
  <2> HIDE DEF p
  <2>4. Valid(p.after)' /\ OneVault(p)'
    BY <2>2, <2>3 DEF Knows, Valid, Same, OneVault
  <2>5. SlugsTaken(p)'
    <3>1. SUFFICES ASSUME NEW w \in Vault \ p'.touched, NEW i \in DOMAIN Dirs[w], <<w, i>> \in p'.dirs,
                          NEW slug \in p'.slugs
                   PROVE  \E k \in 1..i - 1 : /\ <<w, k>> \notin p'.dirs
                                              /\ Loads(Dirs[w][k], p.before.servers)' /\ SlugOf(Dirs[w][k])' = slug
      BY DEF SlugsTaken
    <3>2. PICK k \in 1..i - 1 : <<w, k>> \notin p.dirs /\ Loads(Dirs[w][k], p.before.servers) /\ SlugOf(Dirs[w][k]) = slug
      BY <2>2, <2>3, <3>1 DEF Knows, SlugsTaken
    <3>3. manifests'[Dirs[w][k]] = manifests[Dirs[w][k]]
      BY <1>4, <2>3, <3>1, DirsOfVault
    <3>4. QED
      BY <2>3, <3>2, <3>3 DEF Loads, SlugOf
  <2>6. Noticed(p)'
    <3>1. SUFFICES ASSUME NEW w \in Vault \ (p'.vaults \cup p'.touched), NEW i \in DOMAIN Dirs[w],
                          <<w, i>> \notin p'.dirs, Dirs[w][i] \notin p'.hidden, Wins(w, i, p.before.servers)',
                          Needs(w, i, p)'
                   PROVE  p'.conflict
      BY DEF Noticed
    <3>2. Wins(w, i, p.before.servers)
      <4>1. PICK known : known = p.before.servers
        OBVIOUS
      <4>2. Wins(w, i, known)'
        BY <2>3, <3>1, <4>1 DEF Wins, Loads, SlugOf
      <4>3. QED
        BY <1>4, <2>3, <3>1, <4>1, <4>2, SameVault
    <3>3. Needs(w, i, p)
      BY <1>4, <2>3, <3>1 DEF Needs
    <3>4. QED
      BY <2>2, <2>3, <3>1, <3>2, <3>3 DEF Knows, Noticed
  <2>7. QED
    BY <2>2, <2>3, <2>4, <2>5, <2>6 DEF Knows, Removed, p
<1>6. QED
  BY <1>3, <1>5 DEF Inv, RequestsInv

-----------------------------------------------------------------------------

\* Every step keeps types and what requests know.
LEMMA NextInv ==
    ASSUME Sound, Inv, [Next]_vars
    PROVE  Inv'
<1>1. ASSUME NEW r \in Request, NEW edit \in Edits, Begin(r, edit)
      PROVE  Inv'
  BY <1>1, BeginInv
<1>2. ASSUME NEW r \in Request, NEW edit \in Edits, BeginRefused(r, edit)
      PROVE  Inv'
  BY <1>2, EndInv DEF BeginRefused, Inv, TypeOK
<1>3. ASSUME NEW r \in Request, NEW v \in Vault, ListApps(r, v)
      PROVE  Inv'
  BY <1>3, ListAppsInv
<1>4. ASSUME NEW r \in Request, NEW v \in Vault, NEW i \in DOMAIN Dirs[v], LoadApp(r, v, i)
      PROVE  Inv'
  BY <1>4, LoadAppInv
<1>5. ASSUME NEW r \in Request, AllAsked(r) \/ Write(r)
      PROVE  Inv'
  BY <1>5, AllAskedInv, WriteInv
<1>6. ASSUME NEW r \in Request, Unreachable(r) \/ WriteFails(r)
      PROVE  Inv'
  BY <1>6, EndInv DEF Unreachable, WriteFails, Inv, TypeOK
<1>7. ASSUME NEW v \in Vault, NEW dir \in Dir, NEW m \in Manifests, ChangeManifest(v, dir, m)
      PROVE  Inv'
  BY <1>7, ChangeManifestInv
<1>8. ASSUME NEW r \in Request,
              NoVaults(r) \/ (\E v \in Vault : ListFails(r, v))
                  \/ (\E v \in Vault : \E i \in DOMAIN Dirs[v] : LoadFails(r, v, i))
       PROVE  Inv'
  BY <1>8, ToolErrorInv
<1>9. CASE UNCHANGED vars
  <2>1. TypeOK'
    BY <1>9 DEF vars, Inv, TypeOK, Valid, Same
  <2>2. RequestsInv'
    BY <1>9, SameKnowledge DEF vars, Inv, RequestsInv
  <2>3. QED
    BY <2>1, <2>2 DEF Inv
<1>10. QED
  BY <1>1, <1>2, <1>3, <1>4, <1>5, <1>6, <1>7, <1>9, <1>8 DEF Next

\* A request is answered by its own steps, and well only by its write.
LEMMA AnswerIsWrite ==
    ASSUME Inv, Next, NEW r \in Request, requests[r].at = "write", requests'[r].at = "ok"
    PROVE  Write(r)
<1>1. \A s \in Request, answer \in {"refused", "ok"} :
          End(s, answer) => requests'[r].at = IF s = r THEN answer ELSE "write"
  BY DEF End, Inv, TypeOK
<1>2. ASSUME NEW s \in Request, NEW edit \in Edits, Begin(s, edit) \/ BeginRefused(s, edit)
      PROVE  FALSE
  <2>1. s # r
    BY <1>2 DEF Begin, BeginRefused, Idle
  <2>2. requests'[r] = requests[r]
    BY <1>2, <2>1 DEF Begin, BeginRefused, End, Inv, TypeOK
  <2>3. QED
    BY <2>2
<1>3. ASSUME NEW s \in Request, requests[s].at = "check", \A t \in Request \ {s} : requests'[t] = requests[t]
      PROVE  FALSE
  BY <1>3
<1>4. ASSUME NEW s \in Request, NEW v \in Vault, 
                 \/ ListApps(s, v) \/ ListFails(s, v)
                 \/ \E i \in DOMAIN Dirs[v] : LoadApp(s, v, i) \/ LoadFails(s, v, i)
      PROVE  FALSE
  <2>1. requests[s].at = "check" /\ \A t \in Request \ {s} : requests'[t] = requests[t]
    BY <1>4 DEF ListApps, ListFails, LoadApp, LoadFails, Inv, TypeOK
  <2>2. QED
    BY <1>3, <2>1
<1>5. ASSUME NEW s \in Request, NoVaults(s) \/ AllAsked(s) \/ Unreachable(s)
      PROVE  FALSE
  <2>1. requests[s].at = "check" /\ \A t \in Request \ {s} : requests'[t] = requests[t]
    BY <1>5 DEF NoVaults, AllAsked, Unreachable, End, Inv, TypeOK
  <2>2. QED
    BY <1>3, <2>1
<1>6. ~ \E s \in Request : WriteFails(s)
  BY <1>1 DEF WriteFails
<1>7. \A s \in Request : Write(s) => s = r
  BY <1>1 DEF Write
<1>8. ASSUME NEW v \in Vault, NEW dir \in Dir, NEW m \in Manifests, ChangeManifest(v, dir, m)
      PROVE  FALSE
  <2>1. requests[r] \in Pending
    BY UnderWay DEF Inv, Under
  <2>2. requests'[r] = [requests[r] EXCEPT !.touched = @ \cup {v}]
    BY <1>8 DEF ChangeManifest
  <2>3. QED
    BY <2>1, <2>2 DEF Pending
<1>9. QED
  BY <1>2, <1>4, <1>5, <1>6, <1>7, <1>8 DEF Next

\* The write takes only names that were to go, and no app needs one of those.
LEMMA WriteSpares ==
    ASSUME Inv, NEW r \in Request, Write(r),
           NEW name \in Removed(web, web') \cap requests[r].before.servers,
           NEW v \in Vault \ requests[r].touched,
           NEW dir \in Registered(v, requests[r].before.servers) \ requests[r].hidden
    PROVE  name \notin manifests[dir][1].needs
<1> DEFINE q == requests[r]
<1>1. q \in Pending /\ Knows(q) /\ q.at = "write"
  BY UnderWay DEF Write, Inv, RequestsInv, Under
<1>2. name \in q.removed
  BY <1>1 DEF Write, Removed, Knows
<1>3. ~q.conflict /\ q.dirs = {} /\ q.vaults = {}
  BY <1>1, <1>2 DEF Knows
<1>4. PICK i \in DOMAIN Dirs[v] : dir = Dirs[v][i] /\ Wins(v, i, q.before.servers)
  BY DEF Registered
<1>5. ~Needs(v, i, q)
  BY <1>1, <1>3, <1>4 DEF Knows, Noticed
<1>6. QED
  BY <1>2, <1>4, <1>5 DEF Needs

\* Types and requests are as they should be in every reachable state.
LEMMA InvAlways ==
    ASSUME Sound
    PROVE  Spec => []Inv
<1>1. Init => Inv
  BY InitInv
<1>2. Inv /\ [Next]_vars => Inv'
  BY NextInv
<1>3. QED
  BY <1>1, <1>2, PTL DEF Spec

\* The variables keep their types, and no edit of the settings page makes web.toml
\* one that contextos-web would not start with (config_writer.rs, validate_or_rollback).
THEOREM SettingsTypes ==
    ASSUME Sound
    PROVE  Spec => []TypeOK
<1>1. Inv => TypeOK
  BY DEF Inv
<1>2. QED
  BY <1>1, InvAlways, PTL

\* A write of web.toml takes from no registered app a server it needs, for any number
\* of requests, vaults and apps; but the server was added by another request since this
\* one read the file, a manifest of the vault changed meanwhile, or a tool's error hid
\* the app (settings.rs, mutate and dependent_apps; apps.rs, discover_apps).
THEOREM AppsKeepTheirServers ==
    ASSUME Sound
    PROVE  Spec => NoAppLosesItsServer
<1>1. Inv /\ [Next]_vars =>
          [\A r \in Request : requests[r].at = "write" /\ requests'[r].at = "ok" =>
               \A name \in Removed(web, web') \cap requests[r].before.servers, v \in Vault \ requests[r].touched :
                   \A dir \in Registered(v, requests[r].before.servers) \ requests[r].hidden :
                       name \notin manifests[dir][1].needs]_vars
  BY AnswerIsWrite, WriteSpares
<1>2. QED
  BY <1>1, InvAlways, PTL DEF Spec, NoAppLosesItsServer

=============================================================================
