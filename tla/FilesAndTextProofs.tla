------------------------- MODULE FilesAndTextProofs -------------------------
(***************************************************************************)
(* Proofs about FileMutations, for any calls, notes and contents: the      *)
(* variables keep their types, a tool replaces and removes only what it    *)
(* has looked at, and a deletion takes no note along that it was not       *)
(* asked for.  And about the run in which it stands beside text sync,      *)
(* settings and registration: each part's steps are those of its           *)
(* specification, so that what is proved of the parts holds of the run.    *)
(***************************************************************************)
EXTENDS MCFilesAndText, FiniteSetTheorems, SequenceTheorems, TLAPS

\* The steps a request can be made of: notes are written and moved.
Sound ==
    {s \in Step : /\ s.op \in {"write", "move"} => s.at \in Note
                  /\ s.op = "move" => s.to \in Note
                  /\ s.op = "write" => s.text \in Text}

\* The steps of each kind of call; a restore deletes what is the server's own.
Allowed(kind, own) ==
    {s \in Sound : /\ kind \in {"write", "edit"} => s.op = "write"
                   /\ kind = "restore" => \/ s.op = "write"
                                          \/ s.op \in {"hard", "recursive"} /\ s.at \in own}

Call == [pc : Phases, kind : Kinds, steps : Seq(Sound), seen : Tree \cup {Nil}, touched : SUBSET Note]

CallOk(k, own) ==
    /\ k \in Call /\ k.steps \in Seq(Allowed(k.kind, own))
    /\ k.pc \in {"apply", "clear"} => k.steps # << >>
    /\ k.pc \in {"waiting", "plan"} /\ k.kind = "edit" => k.steps # << >>

Called == call \in [Caller -> Call] /\ \A c \in Caller : CallOk(call[c], mine)

TypeInv == TypeOK /\ Called

\* A call that is past its wait holds the lock.
LockInv == \A c \in Caller : call[c].pc \notin {"idle", "waiting"} => lock = c

\* What a mutation that is about to act has looked at is still there, but for what
\* the other program touched, and allowed it.
LookedAt(c) ==
    call[c].pc = "apply" =>
        LET s == Head(call[c].steps) IN
        /\ call[c].seen \in Tree
        /\ \A n \in Note \ call[c].touched : file[n] = call[c].seen[n]
        /\ s.op = "write" => \/ s.force \/ s.expect = call[c].seen[s.at]
                             \/ s.expect = Nil /\ call[c].seen[s.at] = Absent
        /\ s.op \in {"trash", "hard"} /\ s.at = Folder => \A n \in Inside : call[c].seen[n] = Absent

Inv == TypeInv /\ LockInv /\ \A c \in Caller : LookedAt(c)

-----------------------------------------------------------------------------
(* Sequences of steps.                                                      *)

\* A sequence that is not empty has a head and a tail.
LEMMA HeadAndTail ==
    ASSUME NEW S, NEW q \in Seq(S), q # << >>
    PROVE  Head(q) = q[1] /\ Head(q) \in S /\ Tail(q) \in Seq(S) /\ 1 \in DOMAIN q
  BY HeadTailProperties, EmptySeq, LenProperties

\* A finite set in some order is a sequence of its elements.
LEMMA OrderOfSet ==
    ASSUME NEW S, IsFiniteSet(S)
    PROVE  SetToSeq(S) \in Seq(S)
<1>1. PICK f \in [1..Cardinality(S) -> S] : IsInjective(f)
  BY FS_CardinalityType DEF ExistsBijection, Bijection, Injection, IsInjective
<1>2. SetToSeq(S) \in [1..Cardinality(S) -> S]
  BY <1>1 DEF SetToSeq
<1>3. Cardinality(S) \in Nat
  BY FS_CardinalityType
<1>4. QED
  BY <1>2, <1>3, SeqDef

\* Finitely many steps, each made from a note, in some order.
LEMMA OrderOfSteps ==
    ASSUME NEW N, IsFiniteSet(N), NEW T, NEW f \in [N -> T]
    PROVE  SetToSeq({f[n] : n \in N}) \in Seq(T)
<1> DEFINE made == {f[n] : n \in N}
<1>1. f \in Surjection(N, made)
  BY DEF Surjection
<1>2. SetToSeq(made) \in Seq(made)
  BY <1>1, FS_Surjection, OrderOfSet
<1>3. made \subseteq T
  OBVIOUS
<1>4. QED
  BY <1>2, <1>3, SeqMonotonic

\* One step is a sequence.
LEMMA OneStep ==
    ASSUME NEW S, NEW s \in S
    PROVE  <<s>> \in Seq(S) /\ <<s>> # << >>
  OBVIOUS

\* Every allowed step is a sound one, and stays allowed as the server owns more.
LEMMA AllowedSteps ==
    ASSUME NEW kind, NEW own, NEW more, own \subseteq more
    PROVE  Allowed(kind, own) \subseteq Sound /\ Allowed(kind, own) \subseteq Allowed(kind, more)
  BY DEF Allowed

-----------------------------------------------------------------------------
(* Types.                                                                   *)

\* A step with one of its fields filled in is a step that differs there alone.
Differs(s, w, field) ==
    /\ w.op = s.op /\ w.at = s.at
    /\ field # "to" => w.to = s.to
    /\ field # "text" => w.text = s.text
    /\ field # "expect" => w.expect = s.expect
    /\ field # "force" => w.force = s.force

\* Each field of a step can be filled in, and the others stay.
LEMMA FilledSteps ==
    ASSUME NEW s \in Step
    PROVE  /\ \A n \in Note : LET w == [s EXCEPT !.to = n] IN w \in Step /\ w.to = n /\ Differs(s, w, "to")
           /\ \A t \in Text : LET w == [s EXCEPT !.text = t] IN w \in Step /\ w.text = t /\ Differs(s, w, "text")
           /\ \A e \in Text \cup {Absent, Nil} :
                LET w == [s EXCEPT !.expect = e] IN w \in Step /\ w.expect = e /\ Differs(s, w, "expect")
           /\ \A f \in BOOLEAN : LET w == [s EXCEPT !.force = f] IN w \in Step /\ w.force = f /\ Differs(s, w, "force")
  BY DEF Step, Differs

\* A step that takes nothing along is a step of its operation at its path.
LEMMA PlainSteps ==
    \A op \in {"write", "create", "move", "trash", "hard", "recursive"}, p \in Note \cup {Folder} :
        Do(op, p) \in Step /\ Do(op, p).op = op /\ Do(op, p).at = p
  BY DEF Do, Step

\* The requests a call begins with are sound, and a batch is a sequence.
LEMMA SoundRequests ==
    ASSUME VaultAssumption, TypeInv
    PROVE  /\ Writes \subseteq {s \in Sound : s.op = "write"}
           /\ Moves \subseteq Sound /\ Deletes \subseteq Sound /\ Do("create", Folder) \in Sound
           /\ Matched \in Seq(Sound)
<1>1. Writes \subseteq {s \in Sound : s.op = "write"}
  BY DEF Writes, Sound, Step
<1>2. Moves \subseteq Sound
  BY DEF Moves, Sound, Step
<1>3. Deletes \subseteq Sound /\ Do("create", Folder) \in Sound
  BY PlainSteps DEF Deletes, Sound
<1>4. Matched \in Seq(Sound)
  <2> DEFINE found == {n \in Inside : file[n] # Absent}
             trash == [n \in found |-> Do("trash", n)]
  <2>1. IsFiniteSet(found)
    BY FS_Subset DEF VaultAssumption
  <2>2. trash \in [found -> Sound]
    BY PlainSteps DEF VaultAssumption, Sound
  <2>3. SetToSeq({trash[n] : n \in found}) \in Seq(Sound)
    BY <2>1, <2>2, OrderOfSteps
  <2>4. {trash[n] : n \in found} = {Do("trash", n) : n \in found}
    OBVIOUS
  <2>5. QED
    BY <2>3, <2>4, EmptySeq DEF Matched
<1>5. QED
  BY <1>1, <1>2, <1>3, <1>4

\* When one call moves, it is enough that it moves to a right place.
LEMMA OneCallMoves ==
    ASSUME TypeInv, mine \subseteq mine', NEW c \in Caller, NEW k, CallOk(k, mine'), call' = [call EXCEPT ![c] = k]
    PROVE  Called'
<1>1. ASSUME NEW d \in Caller
      PROVE  CallOk(call[d], mine')
  <2>1. CallOk(call[d], mine)
    BY DEF TypeInv, Called
  <2>2. call[d].steps \in Seq(Allowed(call[d].kind, mine'))
    BY <2>1, AllowedSteps, SeqMonotonic DEF CallOk
  <2>3. QED
    BY <2>1, <2>2 DEF CallOk
<1>2. QED
  BY <1>1 DEF TypeInv, CallOk, Called

\* A request of any kind makes a call of that kind, with steps allowed to it.
LEMMA BeginTypes ==
    ASSUME VaultAssumption, TypeInv, NEW c \in Caller, Begin(c)
    PROVE  Called'
<1>1. PICK r \in Requests : Goes(c, "waiting", r.kind, r.steps)
  BY DEF Begin
<1>2. r.kind \in Kinds /\ r.steps \in Seq(Allowed(r.kind, mine)) /\ (r.kind = "edit" => r.steps # << >>)
  <2>1. CASE r \in [kind : {"write", "edit"}, steps : {<<s>> : s \in Writes}]
    <3>1. PICK s \in Writes : r.steps = <<s>>
      BY <2>1
    <3>2. s \in Allowed(r.kind, mine)
      BY <2>1, SoundRequests DEF Allowed
    <3>3. QED
      BY <2>1, <3>1, <3>2, OneStep DEF Kinds
  <2>2. CASE r \in [kind : {"create"}, steps : {<<Do("create", Folder)>>}]
    <3>1. Do("create", Folder) \in Allowed(r.kind, mine)
      BY <2>2, SoundRequests DEF Allowed
    <3>2. QED
      BY <2>2, <3>1, OneStep DEF Kinds
  <2>3. CASE r \in [kind : {"move"}, steps : {<<s>> : s \in Moves}]
    <3>1. PICK s \in Moves : r.steps = <<s>>
      BY <2>3
    <3>2. s \in Allowed(r.kind, mine)
      BY <2>3, SoundRequests DEF Allowed
    <3>3. QED
      BY <2>3, <3>1, <3>2, OneStep DEF Kinds
  <2>4. CASE r \in [kind : {"delete"}, steps : {<<s>> : s \in Deletes}]
    <3>1. PICK s \in Deletes : r.steps = <<s>>
      BY <2>4
    <3>2. s \in Allowed(r.kind, mine)
      BY <2>4, SoundRequests DEF Allowed
    <3>3. QED
      BY <2>4, <3>1, <3>2, OneStep DEF Kinds
  <2>5. CASE r \in [kind : {"batch"}, steps : {Matched}]
    <3>1. Sound \subseteq Allowed(r.kind, mine)
      BY <2>5 DEF Allowed
    <3>2. QED
      BY <2>5, <3>1, SoundRequests, SeqMonotonic DEF Kinds
  <2>6. CASE r \in [kind : {"restore"}, steps : {<< >>}]
    BY <2>6, EmptySeq DEF Kinds
  <2>7. QED
    BY <2>1, <2>2, <2>3, <2>4, <2>5, <2>6 DEF Requests
<1> DEFINE k == [pc |-> "waiting", kind |-> r.kind, steps |-> r.steps, seen |-> Nil, touched |-> {}]
<1>3. CallOk(k, mine')
  <2>1. mine' = mine
    BY DEF Begin
  <2>2. r.steps \in Seq(Sound)
    BY <1>2, AllowedSteps, SeqMonotonic
  <2>3. QED
    BY <1>2, <2>1, <2>2 DEF CallOk, Call, Phases
<1>4. QED
  BY <1>1, <1>3, OneCallMoves DEF Goes, Called, Begin

\* A call that turns to its next phase with allowed steps.
LEMMA TurnTypes ==
    ASSUME TypeInv, NEW c \in Caller, NEW pc \in Phases, NEW steps \in Seq(Allowed(call[c].kind, mine)),
           mine \subseteq mine', pc \notin {"waiting", "plan"}, pc \in {"apply", "clear"} => steps # << >>,
           Turns(c, pc, steps)
    PROVE  Called'
<1>1. call[c].kind \in Kinds
  BY DEF TypeInv, Call, Called
<1>2. steps \in Seq(Sound) /\ steps \in Seq(Allowed(call[c].kind, mine'))
  BY AllowedSteps, SeqMonotonic
<1>3. CallOk([pc |-> pc, kind |-> call[c].kind, steps |-> steps, seen |-> Nil, touched |-> {}], mine')
  BY <1>1, <1>2 DEF CallOk, Call
<1>4. QED
  BY <1>3, OneCallMoves DEF Turns, Goes, Called

\* What a call has left after a failure is allowed.
LEMMA RestIsAllowed ==
    ASSUME TypeInv, NEW c \in Caller, call[c].steps # << >>
    PROVE  /\ Rest(c) \in Seq(Allowed(call[c].kind, mine))
           /\ Tail(call[c].steps) \in Seq(Allowed(call[c].kind, mine))
           /\ Head(call[c].steps) \in Allowed(call[c].kind, mine)
           /\ call[c].steps \in Seq(Allowed(call[c].kind, mine))
  BY HeadAndTail, EmptySeq DEF Rest, TypeInv, CallOk, Called

\* Acquiring the lock changes the phase of a call alone.
LEMMA AcquireTypes ==
    ASSUME TypeInv, NEW c \in Caller, Acquire(c)
    PROVE  Called'
<1> DEFINE pc == IF call[c].kind \in {"edit", "restore"} THEN "plan" ELSE "check"
           k == [pc |-> pc, kind |-> call[c].kind, steps |-> call[c].steps, seen |-> Nil, touched |-> {}]
<1>1. CallOk(k, mine')
  BY DEF Acquire, TypeInv, CallOk, Call, Phases, Called
<1>2. QED
  BY <1>1, OneCallMoves DEF Acquire, Turns, Goes, Called

\* A call that returns is idle.
LEMMA ReturnTypes ==
    ASSUME TypeInv, NEW c \in Caller, Return(c)
    PROVE  Called'
<1>1. CallOk(Idle, mine')
  BY EmptySeq DEF CallOk, Call, Idle, Phases, Kinds
<1>2. QED
  BY <1>1, OneCallMoves DEF Return, Called

\* The clearing of an index leaves a call its steps, or what a failure leaves.
LEMMA ClearTypes ==
    ASSUME TypeInv, NEW c \in Caller, ClearIndex(c)
    PROVE  Called'
<1>1. call[c].steps # << >> /\ mine' = mine
  BY DEF ClearIndex, TypeInv, CallOk, Called
<1>2. QED
  BY <1>1, RestIsAllowed, TurnTypes DEF ClearIndex, Phases

\* A mutation takes the first step of a call away.
LEMMA ApplyTypes ==
    ASSUME TypeInv, NEW c \in Caller, Apply(c)
    PROVE  Called'
<1>1. call[c].steps # << >> /\ mine \subseteq mine'
  BY DEF Apply, ApplyWrite, ApplyCreate, ApplyMove, ApplyDelete, ApplyFails, Proceed, TypeInv, CallOk, Called
<1>2. Turns(c, "check", Rest(c)) \/ Turns(c, "check", Tail(call[c].steps))
  BY DEF Apply, ApplyWrite, ApplyCreate, ApplyMove, ApplyDelete, ApplyFails, Proceed
<1>3. QED
  BY <1>1, <1>2, RestIsAllowed, TurnTypes DEF Phases

\* What an edit has planned: to write what it has read.
LEMMA PlanEditTypes ==
    ASSUME VaultAssumption, TypeInv, NEW c \in Caller, PlanEdit(c)
    PROVE  Called'
<1>1. call[c].steps # << >> /\ mine' = mine
  BY DEF PlanEdit, TypeInv, CallOk, Called
<1> DEFINE s == Head(call[c].steps)
<1>2. s \in Sound /\ s.op = "write"
  BY <1>1, RestIsAllowed DEF Allowed, PlanEdit
<1>3. file[s.at] \in Text \cup {Absent}
  BY <1>2 DEF TypeInv, TypeOK, Tree, Sound, Called
<1>4. CASE Turns(c, "check", << >>)
  BY <1>1, <1>4, EmptySeq, TurnTypes DEF Phases
<1>5. CASE Turns(c, "check", <<[s EXCEPT !.expect = IF @ = Nil THEN file[s.at] ELSE @]>>)
  <2> DEFINE e == IF s.expect = Nil THEN file[s.at] ELSE s.expect
             w == [s EXCEPT !.expect = e]
  <2>1. s \in Step /\ e \in Text \cup {Absent, Nil}
    BY <1>2, <1>3 DEF Sound, Step
  <2>2. w \in Step /\ Differs(s, w, "expect")
    <3> HIDE DEF s, e
    <3> QED
      BY <2>1, FilledSteps
  <2>3. w \in Allowed("edit", mine)
    BY <1>2, <2>2 DEF Allowed, Sound, Differs
  <2>4. <<w>> \in Seq(Allowed(call[c].kind, mine))
    <3> HIDE DEF w
    <3> QED
      BY <2>3, OneStep DEF PlanEdit
  <2>5. Turns(c, "check", <<w>>)
    BY <1>5
  <2>6. QED
    <3> HIDE DEF w
    <3> QED
      BY <1>1, <2>4, <2>5, TurnTypes DEF Phases
<1>6. QED
  BY <1>4, <1>5 DEF PlanEdit

\* What a restore has planned: to write what the commit has, and to delete what
\* tools have made.
LEMMA PlanRestoreTypes ==
    ASSUME VaultAssumption, TypeInv, NEW c \in Caller, PlanRestore(c)
    PROVE  Called'
<1> DEFINE Plan == Allowed("restore", mine)
           differ(scope) == {n \in Note \cap scope : Old[n] # Absent /\ file[n] # Old[n]}
           gone(scope) == OwnedDeletions \cap scope
           writes(scope) == {[Do("write", n) EXCEPT !.text = Old[n]] : n \in differ(scope)}
           deletes(scope) == {Do("hard", n) : n \in gone(scope) \cap Note}
           last(scope) == IF Folder \in gone(scope) THEN <<Do("recursive", Folder)>> ELSE << >>
<1>1. mine' = mine /\ call[c].kind = "restore"
  BY DEF PlanRestore
<1>2. ASSUME NEW scope
      PROVE  SetToSeq(writes(scope)) \in Seq(Plan)
  <2> DEFINE W == [n \in differ(scope) |-> [Do("write", n) EXCEPT !.text = Old[n]]]
  <2>1. IsFiniteSet(differ(scope))
    BY FS_Subset DEF VaultAssumption
  <2>2. ASSUME NEW n \in differ(scope)
        PROVE  [Do("write", n) EXCEPT !.text = Old[n]] \in Plan
    <3> DEFINE s == Do("write", n)
               w == [s EXCEPT !.text = Old[n]]
    <3>1. Old[n] \in Text
      BY DEF VaultAssumption, Tree
    <3>2. s \in Step /\ s.op = "write" /\ s.at = n
      BY PlainSteps
    <3>3. w \in Step /\ w.text = Old[n] /\ Differs(s, w, "text")
      <4> HIDE DEF s
      <4> QED
        BY <3>1, <3>2, FilledSteps
    <3>4. w \in Plan
      <4> HIDE DEF w, s
      <4> QED
        BY <3>1, <3>2, <3>3 DEF Allowed, Sound, Differs
    <3>5. QED
      BY <3>4
  <2>3. W \in [differ(scope) -> Plan]
    BY <2>2
  <2>4. SetToSeq({W[n] : n \in differ(scope)}) \in Seq(Plan)
    <3> HIDE DEF W, differ, Plan
    <3> QED
      BY <2>1, <2>3, OrderOfSteps
  <2>5. {W[n] : n \in differ(scope)} = writes(scope)
    OBVIOUS
  <2>6. QED
    BY <2>4, <2>5
<1>3. OwnedDeletions \subseteq mine
  BY DEF OwnedDeletions, TypeInv, TypeOK, Called
<1>4. ASSUME NEW scope
      PROVE  SetToSeq(deletes(scope)) \in Seq(Plan)
  <2> DEFINE N == gone(scope) \cap Note
             D == [n \in N |-> Do("hard", n)]
  <2>1. IsFiniteSet(N)
    BY FS_Subset DEF VaultAssumption
  <2>2. D \in [N -> Plan]
    BY <1>3, PlainSteps DEF Allowed, Sound
  <2>3. SetToSeq({D[n] : n \in N}) \in Seq(Plan)
    <3> HIDE DEF D, N, Plan
    <3> QED
      BY <2>1, <2>2, OrderOfSteps
  <2>4. {D[n] : n \in N} = deletes(scope)
    OBVIOUS
  <2>5. QED
    BY <2>3, <2>4
<1>5. ASSUME NEW scope
      PROVE  last(scope) \in Seq(Plan)
  <2>1. CASE Folder \in gone(scope)
    <3>1. Do("recursive", Folder) \in Plan
      BY <1>3, <2>1, PlainSteps DEF Allowed, Sound
    <3>2. QED
      BY <2>1, <3>1, OneStep
  <2>2. CASE Folder \notin gone(scope)
    BY <2>2, EmptySeq
  <2>3. QED
    BY <2>1, <2>2
<1>6. PICK scope \in Scopes, dry_run \in BOOLEAN :
        Turns(c, "check", IF dry_run \/ (gone(scope) # {} /\ ~Destructive) THEN << >>
                          ELSE SetToSeq(writes(scope)) \o SetToSeq(deletes(scope)) \o last(scope))
  BY DEF PlanRestore
<1> HIDE DEF writes, deletes, last, gone, Plan
<1> DEFINE order == IF dry_run \/ (gone(scope) # {} /\ ~Destructive) THEN << >>
                    ELSE SetToSeq(writes(scope)) \o SetToSeq(deletes(scope)) \o last(scope)
<1>7. order \in Seq(Plan)
  BY <1>2, <1>4, <1>5, ConcatProperties, EmptySeq
<1>8. Turns(c, "check", order)
  BY <1>6
<1>9. order \in Seq(Allowed(call[c].kind, mine))
  BY <1>1, <1>7 DEF Plan
<1>10. QED
  <2> HIDE DEF order
  <2> QED
    BY <1>1, <1>8, <1>9, TurnTypes DEF Phases

\* The steps of a call that has looked, with the hash it expects filled in.
LEMMA LookTypes ==
    ASSUME VaultAssumption, TypeInv, NEW c \in Caller, Look(c)
    PROVE  Called'
<1>1. call[c].steps # << >> /\ mine' = mine
  BY DEF Look
<1> DEFINE s == Head(call[c].steps)
           w == [s EXCEPT !.expect = Expected(c, s)]
           steps == <<w>> \o Tail(call[c].steps)
           k == [pc |-> "apply", kind |-> call[c].kind, steps |-> steps, seen |-> file, touched |-> {}]
<1>2. s \in Allowed(call[c].kind, mine) /\ s \in Sound /\ s \in Step
  BY <1>1, RestIsAllowed DEF Allowed, Sound
<1>3. Expected(c, s) \in Text \cup {Absent, Nil}
  BY <1>2 DEF Expected, Sound, Step, TypeInv, TypeOK, Tree, Called
<1>4. w \in Step /\ Differs(s, w, "expect")
  <2> DEFINE e == Expected(c, s)
  <2> HIDE DEF s, e
  <2> QED
    BY <1>2, <1>3, FilledSteps DEF e
<1>5. w \in Allowed(call[c].kind, mine)
  <2> HIDE DEF w
  <2> QED
    BY <1>2, <1>4 DEF Allowed, Sound, Differs
<1>6. steps \in Seq(Allowed(call[c].kind, mine)) /\ steps # << >>
  <2> DEFINE A == Allowed(call[c].kind, mine)
  <2>1. <<w>> \in Seq(A) /\ Len(<<w>>) = 1 /\ Tail(call[c].steps) \in Seq(A)
    <3> HIDE DEF w
    <3> QED
      BY <1>1, <1>5, RestIsAllowed, OneStep
  <2>2. QED
    <3> HIDE DEF w, A
    <3>1. steps \in Seq(A) /\ Len(steps) = 1 + Len(Tail(call[c].steps))
      BY <2>1, ConcatProperties
    <3>2. Len(Tail(call[c].steps)) \in Nat
      BY <2>1, LenProperties
    <3>3. Len(steps) # 0
      BY <3>1, <3>2
    <3>4. steps # << >>
      <4> HIDE DEF steps
      <4> QED
        BY <3>1, <3>3
    <3>5. QED
      BY <3>1, <3>4 DEF A
<1>7. CASE call' = [call EXCEPT ![c] = k]
  <2> HIDE DEF steps
  <2>1. steps \in Seq(Sound)
    BY <1>6, AllowedSteps, SeqMonotonic
  <2>2. CallOk(k, mine')
    BY <1>1, <1>6, <2>1 DEF CallOk, Call, Phases, TypeInv, TypeOK, Called
  <2>3. QED
    <3> HIDE DEF k
    <3> QED
      BY <1>1, <1>7, <2>2, OneCallMoves DEF Called
<1>8. CASE Turns(c, "clear", call[c].steps)
  BY <1>1, <1>8, RestIsAllowed, TurnTypes DEF Phases
<1>9. CASE Turns(c, "check", Rest(c))
  BY <1>1, <1>9, RestIsAllowed, TurnTypes DEF Phases
<1>10. QED
  BY <1>7, <1>8, <1>9 DEF Look

\* What the other program touches is noted, and calls are where they were.
LEMMA OtherEditsKeeps ==
    ASSUME TypeInv, OtherEdits
    PROVE  \E n \in Note :
             /\ \A m \in Note : m # n => file'[m] = file[m]
             /\ \A d \in Caller :
                  /\ call'[d] \in Call /\ call'[d].pc = call[d].pc /\ call'[d].kind = call[d].kind
                  /\ call'[d].steps = call[d].steps /\ call'[d].seen = call[d].seen
                  /\ call'[d].touched = IF call[d].pc = "apply" THEN call[d].touched \cup {n}
                                        ELSE call[d].touched
<1>1. PICK n \in Note, t \in Text \cup {Absent} :
        /\ file' = [file EXCEPT ![n] = t]
        /\ call' = [c \in Caller |-> [call[c] EXCEPT !.touched =
                      IF call[c].pc = "apply" THEN @ \cup {n} ELSE @]]
  BY DEF OtherEdits
<1>2. \A m \in Note : m # n => file'[m] = file[m]
  BY <1>1 DEF TypeInv, TypeOK, Tree
<1>3. ASSUME NEW d \in Caller
      PROVE  /\ call'[d] \in Call /\ call'[d].pc = call[d].pc /\ call'[d].kind = call[d].kind
             /\ call'[d].steps = call[d].steps /\ call'[d].seen = call[d].seen
             /\ call'[d].touched = IF call[d].pc = "apply" THEN call[d].touched \cup {n}
                                   ELSE call[d].touched
  BY <1>1 DEF TypeInv, Called, Call
<1>4. QED
  BY <1>2, <1>3

\* The other program's edits leave the calls well typed.
LEMMA OtherEditsTypes ==
    ASSUME TypeInv, OtherEdits
    PROVE  Called'
<1>1. mine' = mine /\ DOMAIN call' = Caller
  BY DEF OtherEdits
<1>2. \A d \in Caller : CallOk(call'[d], mine')
  BY <1>1, OtherEditsKeeps DEF TypeInv, Called, CallOk
<1>3. call' \in [Caller -> Call]
  <2>1. call' = [d \in Caller |-> call'[d]]
    BY DEF OtherEdits
  <2>2. QED
    BY <1>2, <2>1 DEF CallOk
<1>4. QED
  BY <1>2, <1>3 DEF Called

-----------------------------------------------------------------------------
(* The type invariant.                                                      *)

\* What the type invariant says of each variable but the calls.
Scalars ==
    /\ file \in Tree /\ folder \in BOOLEAN /\ index \in BOOLEAN
    /\ lock \in Caller \cup {Nil}
    /\ mine \in SUBSET (Note \cup {Folder}) /\ owned \in SUBSET mine
    /\ calls \in 0..MaxCall /\ edits \in 0..MaxEdit
    /\ index => folder
    /\ \A n \in Inside : file[n] # Absent => folder

\* The calls' own types say all that TypeOK says of them.
LEMMA TypeParts == Scalars /\ Called => TypeInv
<1> SUFFICES ASSUME Scalars, Called PROVE TypeInv
  OBVIOUS
<1>1. ASSUME NEW c \in Caller
      PROVE  call[c].steps \in Seq(Step)
  <2>1. call[c].steps \in Seq(Sound) /\ Sound \subseteq Step
    BY DEF Called, CallOk, Call, Sound
  <2>2. QED
    BY <2>1, SeqMonotonic
<1>2. QED
  BY <1>1 DEF TypeInv, TypeOK, Scalars, Called, Call

\* The initial states are well typed.
LEMMA TypeInit ==
    ASSUME VaultAssumption, Init
    PROVE  TypeInv
<1>1. Scalars
  BY DEF Scalars, Init, VaultAssumption, Tree
<1>2. CallOk(Idle, mine)
  BY EmptySeq DEF CallOk, Call, Idle, Phases, Kinds
<1>3. Called
  BY <1>2 DEF Init, Called, CallOk
<1>4. QED
  BY <1>1, <1>3, TypeParts

\* A mutation leaves the vault's own variables well typed.
LEMMA ApplyScalars ==
    ASSUME VaultAssumption, TypeInv, NEW c \in Caller, Apply(c)
    PROVE  Scalars'
<1> DEFINE s == Head(call[c].steps)
<1>1. call[c].pc = "apply" /\ Scalars
  BY DEF Apply, ApplyWrite, ApplyCreate, ApplyMove, ApplyDelete, ApplyFails, TypeInv, TypeOK, Scalars, Called
<1>2. s \in Sound /\ s.at \in Note \cup {Folder}
  BY <1>1, RestIsAllowed DEF TypeInv, CallOk, Allowed, Sound, Step, Called
<1>3. CASE ApplyWrite(c)
  BY <1>1, <1>2, <1>3 DEF ApplyWrite, Proceed, Reconciled, Scalars, Sound, Tree, VaultAssumption
<1>4. CASE ApplyCreate(c)
  BY <1>1, <1>2, <1>4 DEF ApplyCreate, Proceed, Reconciled, Scalars
<1>5. CASE ApplyMove(c)
  BY <1>1, <1>2, <1>5 DEF ApplyMove, Proceed, Reconciled, Scalars, Sound, Tree, VaultAssumption
<1>6. CASE ApplyDelete(c)
  BY <1>1, <1>2, <1>6 DEF ApplyDelete, Proceed, Reconciled, Scalars, UnderPath, Tree, VaultAssumption
<1>7. CASE ApplyFails(c)
  BY <1>1, <1>2, <1>7 DEF ApplyFails, Scalars
<1>8. QED
  BY <1>3, <1>4, <1>5, <1>6, <1>7 DEF Apply

\* Every step keeps the types.
LEMMA TypeStep ==
    ASSUME VaultAssumption, TypeInv, [Next]_vars
    PROVE  TypeInv'
<1>1. Scalars
  BY DEF TypeInv, TypeOK, Scalars, Called
<1>2. ASSUME NEW c \in Caller, Begin(c)
      PROVE  Scalars' /\ Called'
  BY <1>1, <1>2, BeginTypes DEF Begin, Scalars, VaultAssumption
<1>3. ASSUME NEW c \in Caller, Acquire(c)
      PROVE  Scalars' /\ Called'
  BY <1>1, <1>3, AcquireTypes DEF Acquire, Scalars
<1>4. ASSUME NEW c \in Caller, PlanEdit(c)
      PROVE  Scalars' /\ Called'
  BY <1>1, <1>4, PlanEditTypes DEF PlanEdit, Scalars
<1>5. ASSUME NEW c \in Caller, PlanRestore(c)
      PROVE  Scalars' /\ Called'
  BY <1>1, <1>5, PlanRestoreTypes DEF PlanRestore, Scalars
<1>6. ASSUME NEW c \in Caller, Look(c)
      PROVE  Scalars' /\ Called'
  BY <1>1, <1>6, LookTypes DEF Look, Scalars
<1>7. ASSUME NEW c \in Caller, ClearIndex(c)
      PROVE  Scalars' /\ Called'
  <2>1. index' = FALSE \/ index' = index
    BY <1>7 DEF ClearIndex
  <2>2. UNCHANGED <<file, folder, lock, owned, mine, calls, edits>>
    BY <1>7 DEF ClearIndex
  <2>3. CASE index' = FALSE
    BY <1>1, <1>7, <2>2, <2>3, ClearTypes DEF Scalars
  <2>4. CASE index' = index
    BY <1>1, <1>7, <2>2, <2>4, ClearTypes DEF Scalars
  <2>5. QED
    BY <2>1, <2>3, <2>4
<1>8. ASSUME NEW c \in Caller, Apply(c)
      PROVE  Scalars' /\ Called'
  BY <1>8, ApplyScalars, ApplyTypes
<1>9. ASSUME NEW c \in Caller, Return(c)
      PROVE  Scalars' /\ Called'
  BY <1>1, <1>9, ReturnTypes DEF Return, Scalars
<1>10. ASSUME OtherEdits
       PROVE  Scalars' /\ Called'
  <2>1. PICK n \in Note, t \in Text \cup {Absent} :
          file' = [file EXCEPT ![n] = t] /\ folder' = (folder \/ n \in Inside)
    BY <1>10 DEF OtherEdits
  <2>2. edits' \in 0..MaxEdit
    BY <1>1, <1>10 DEF OtherEdits, Scalars, VaultAssumption
  <2>3. file' \in Tree /\ folder' \in BOOLEAN /\ \A m \in Inside : file'[m] # Absent => folder'
    BY <1>1, <2>1 DEF Scalars, Tree, VaultAssumption
  <2>4. index' => folder'
    BY <1>1, <1>10, <2>1 DEF OtherEdits, Scalars
  <2>5. Scalars'
    BY <1>1, <1>10, <2>2, <2>3, <2>4 DEF OtherEdits, Scalars
  <2>6. QED
    BY <1>10, <2>5, OtherEditsTypes
<1>11. ASSUME Commit
       PROVE  Scalars' /\ Called'
  BY <1>1, <1>11 DEF Commit, Scalars, TypeInv, Called
<1>12. ASSUME UNCHANGED vars
       PROVE  Scalars' /\ Called'
  BY <1>1, <1>12 DEF vars, Scalars, TypeInv, Called
<1>13. Scalars' /\ Called'
  BY <1>2, <1>3, <1>4, <1>5, <1>6, <1>7, <1>8, <1>9, <1>10, <1>11, <1>12 DEF Next
<1>14. QED
  BY <1>13, TypeParts, PTL

-----------------------------------------------------------------------------
(* The root lock.                                                           *)

\* A call acquires the lock when it is free, holds it in every phase after its
\* wait, and gives it back when it returns.
LEMMA LockStep ==
    ASSUME TypeInv, LockInv, VaultAssumption, [Next]_vars
    PROVE  LockInv'
<1>1. call \in [Caller -> Call]
  BY DEF TypeInv, Called
<1>2. ASSUME NEW c \in Caller, Begin(c)
      PROVE  LockInv'
  BY <1>1, <1>2 DEF Begin, Goes, LockInv
<1>3. ASSUME NEW c \in Caller, Acquire(c)
      PROVE  LockInv'
  <2>1. \A d \in Caller : call[d].pc \in {"idle", "waiting"}
    BY <1>3 DEF Acquire, Free, LockInv, VaultAssumption
  <2>2. \A d \in Caller : d # c => call'[d] = call[d]
    BY <1>1, <1>3 DEF Acquire, Turns, Goes
  <2>3. QED
    BY <1>3, <2>1, <2>2 DEF Acquire, LockInv
<1>4. ASSUME NEW c \in Caller, PlanEdit(c) \/ PlanRestore(c) \/ Look(c) \/ ClearIndex(c) \/ Apply(c)
      PROVE  LockInv'
  <2>1. call[c].pc \notin {"idle", "waiting"} /\ lock' = lock
    BY <1>4 DEF PlanEdit, PlanRestore, Look, ClearIndex, Apply, ApplyWrite, ApplyCreate, ApplyMove,
                ApplyDelete, ApplyFails
  <2>2. \A d \in Caller : d # c => call'[d] = call[d]
    BY <1>1, <1>4 DEF PlanEdit, PlanRestore, Look, ClearIndex, Apply, ApplyWrite, ApplyCreate, ApplyMove,
                      ApplyDelete, ApplyFails, Proceed, Turns, Goes
  <2>3. QED
    BY <2>1, <2>2 DEF LockInv
<1>5. ASSUME NEW c \in Caller, Return(c)
      PROVE  LockInv'
  <2>1. \A d \in Caller : d # c => call'[d] = call[d] /\ call[d].pc \in {"idle", "waiting"}
    BY <1>1, <1>5 DEF Return, LockInv
  <2>2. call'[c].pc = "idle"
    BY <1>1, <1>5 DEF Return, Idle
  <2>3. QED
    BY <2>1, <2>2 DEF LockInv
<1>6. ASSUME OtherEdits
      PROVE  LockInv'
  <2>1. lock' = lock
    BY <1>6 DEF OtherEdits
  <2>2. \A d \in Caller : call'[d].pc = call[d].pc
    BY <1>6, OtherEditsKeeps
  <2>3. QED
    BY <2>1, <2>2 DEF LockInv
<1>7. ASSUME Commit \/ UNCHANGED vars
      PROVE  LockInv'
  BY <1>7 DEF Commit, vars, LockInv
<1>8. QED
  BY <1>2, <1>3, <1>4, <1>5, <1>6, <1>7 DEF Next

-----------------------------------------------------------------------------
(* What a mutation has seen.                                                *)

\* A call that has just looked has looked at what is there.
LEMMA LooksNow ==
    ASSUME VaultAssumption, TypeInv, NEW c \in Caller, Look(c), call'[c].pc = "apply"
    PROVE  LookedAt(c)'
<1>1. call[c].steps # << >> /\ call \in [Caller -> Call] /\ file' = file /\ file \in Tree
  BY DEF Look, TypeInv, TypeOK, Called
<1> DEFINE s == Head(call[c].steps)
           w == [s EXCEPT !.expect = Expected(c, s)]
           steps == <<w>> \o Tail(call[c].steps)
           k == [pc |-> "apply", kind |-> call[c].kind, steps |-> steps, seen |-> file, touched |-> {}]
<1>2. s \in Sound /\ s \in Step
  BY <1>1, RestIsAllowed DEF Allowed, Sound
<1>3. Expected(c, s) \in Text \cup {Absent, Nil}
  BY <1>2 DEF Expected, Sound, Step, TypeInv, TypeOK, Tree
<1>4. w \in Step /\ w.expect = Expected(c, s) /\ Differs(s, w, "expect")
  <2> DEFINE e == Expected(c, s)
  <2> HIDE DEF s, e
  <2> QED
    BY <1>2, <1>3, FilledSteps DEF e
<1>5. Head(steps) = w
  <2> HIDE DEF w
  <2>1. Tail(call[c].steps) \in Seq(Sound)
    BY <1>1, HeadAndTail DEF Call
  <2>2. QED
    BY <2>1
<1>6. May(c, s) /\ call' = [call EXCEPT ![c] = k]
  BY <1>1 DEF Look, Turns, Goes
<1>7. call'[c].steps = steps /\ call'[c].seen = file /\ call'[c].touched = {}
  <2> HIDE DEF steps
  <2> QED
    BY <1>1, <1>6
<1>8. s.op = "write" => w.force \/ w.expect = file[w.at] \/ (w.expect = Nil /\ file[w.at] = Absent)
  <2> HIDE DEF w, s
  <2> QED
    BY <1>4, <1>6 DEF May, HashOk, Differs
<1>9. s.op \in {"trash", "hard"} /\ s.at = Folder => \A n \in Inside : file[n] = Absent
  <2> HIDE DEF s
  <2> QED
    BY <1>6 DEF May, Empty
<1>10. QED
  <2> HIDE DEF w, s, steps, k
  <2> QED
    BY <1>1, <1>4, <1>5, <1>7, <1>8, <1>9 DEF LookedAt, Differs

\* What the other program changes is touched: the rest is as it was looked at.
LEMMA LookedAtOther ==
    ASSUME TypeInv, OtherEdits, NEW c \in Caller, LookedAt(c)
    PROVE  LookedAt(c)'
<1>1. PICK n \in Note :
         /\ \A m \in Note : m # n => file'[m] = file[m]
         /\ \A d \in Caller :
              /\ call'[d] \in Call /\ call'[d].pc = call[d].pc /\ call'[d].kind = call[d].kind
              /\ call'[d].steps = call[d].steps /\ call'[d].seen = call[d].seen
              /\ call'[d].touched = IF call[d].pc = "apply" THEN call[d].touched \cup {n}
                                    ELSE call[d].touched
  BY OtherEditsKeeps
<1>2. QED
  BY <1>1 DEF LookedAt

\* No other call acts on the vault while one has looked and not acted yet.
LEMMA LookedAtStep ==
    ASSUME VaultAssumption, TypeInv, LockInv, [Next]_vars, NEW c \in Caller, LookedAt(c)
    PROVE  LookedAt(c)'
<1>1. call \in [Caller -> Call]
  BY DEF TypeInv, Called
<1>2. ASSUME call'[c] = call[c], file' = file
      PROVE  LookedAt(c)'
  BY <1>2 DEF LookedAt
<1>3. ASSUME call'[c].pc # "apply"
      PROVE  LookedAt(c)'
  BY <1>3 DEF LookedAt
<1>4. ASSUME NEW d \in Caller, Begin(d) \/ Acquire(d) \/ PlanEdit(d) \/ PlanRestore(d) \/ ClearIndex(d)
                               \/ Return(d)
      PROVE  LookedAt(c)'
  <2>1. file' = file
    BY <1>4 DEF Begin, Acquire, PlanEdit, PlanRestore, ClearIndex, Return
  <2>2. c # d => call'[c] = call[c]
    BY <1>1, <1>4 DEF Begin, Acquire, PlanEdit, PlanRestore, ClearIndex, Return, Turns, Goes
  <2>3. call'[d].pc # "apply"
    <3>1. CASE Begin(d)
      BY <1>1, <3>1 DEF Begin, Goes
    <3>2. CASE Acquire(d) \/ PlanEdit(d)
      BY <1>1, <3>2 DEF Acquire, PlanEdit, Turns, Goes
    <3>3. CASE PlanRestore(d)
      BY <1>1, <3>3 DEF PlanRestore, Turns, Goes
    <3>4. CASE ClearIndex(d) \/ Return(d)
      BY <1>1, <3>4 DEF ClearIndex, Return, Idle, Turns, Goes
    <3>5. QED
      BY <1>4, <3>1, <3>2, <3>3, <3>4
  <2>4. QED
    BY <1>2, <1>3, <2>1, <2>2, <2>3
<1>5. ASSUME NEW d \in Caller, Look(d)
      PROVE  LookedAt(c)'
  <2>1. c # d => call'[c] = call[c] /\ file' = file
    BY <1>1, <1>5 DEF Look, Turns, Goes
  <2>2. QED
    BY <1>2, <1>3, <1>5, <2>1, LooksNow
<1>6. ASSUME NEW d \in Caller, Apply(d)
      PROVE  LookedAt(c)'
  <2>1. call[d].pc = "apply"
    BY <1>6 DEF Apply, ApplyWrite, ApplyCreate, ApplyMove, ApplyDelete, ApplyFails
  <2>2. call'[d].pc = "check" /\ (c # d => call'[c] = call[c])
    <3>1. Turns(d, "check", Rest(d)) \/ Turns(d, "check", Tail(call[d].steps))
      BY <1>6 DEF Apply, ApplyWrite, ApplyCreate, ApplyMove, ApplyDelete, ApplyFails, Proceed
    <3>2. QED
      BY <1>1, <3>1 DEF Turns, Goes
  <2>3. c # d => call[c].pc # "apply"
    BY <2>1 DEF LockInv
  <2>4. QED
    BY <1>3, <2>2, <2>3
<1>7. CASE OtherEdits
  BY <1>7, LookedAtOther
<1>8. CASE Commit \/ UNCHANGED vars
  BY <1>2, <1>8 DEF Commit, vars
<1>9. QED
  BY <1>4, <1>5, <1>6, <1>7, <1>8 DEF Next

-----------------------------------------------------------------------------
(* What a mutation does.                                                    *)

\* Only a call's own mutation takes it from its act to its next look.
LEMMA OwnAct ==
    ASSUME VaultAssumption, TypeInv, LockInv, [Next]_vars, NEW c \in Caller, Acts(c)
    PROVE  Apply(c)
<1>1. call \in [Caller -> Call] /\ call[c].pc = "apply" /\ call'[c].pc = "check"
  BY DEF TypeInv, Called, Acts
<1>2. ASSUME NEW d \in Caller, Begin(d) \/ Acquire(d) \/ PlanEdit(d) \/ PlanRestore(d) \/ Look(d)
                               \/ ClearIndex(d) \/ Return(d)
      PROVE  FALSE
  <2>1. call[d].pc # "apply"
    BY <1>2 DEF Begin, Acquire, PlanEdit, PlanRestore, Look, ClearIndex, Return
  <2>2. c # d => call'[c] = call[c]
    BY <1>1, <1>2 DEF Begin, Acquire, PlanEdit, PlanRestore, Look, ClearIndex, Return, Turns, Goes
  <2>3. QED
    BY <1>1, <2>1, <2>2
<1>3. ASSUME NEW d \in Caller, Apply(d)
      PROVE  d = c
  <2>1. call[d].pc = "apply"
    BY <1>3 DEF Apply, ApplyWrite, ApplyCreate, ApplyMove, ApplyDelete, ApplyFails
  <2>2. QED
    BY <1>1, <2>1 DEF LockInv
<1>4. ~OtherEdits
  BY <1>1, OtherEditsKeeps
<1>5. ~(Commit \/ UNCHANGED vars)
  BY <1>1 DEF Commit, vars
<1>6. QED
  BY <1>2, <1>3, <1>4, <1>5 DEF Next

\* The notes each mutation can remove or replace.
LEMMA LostBy ==
    ASSUME TypeInv, NEW c \in Caller, Apply(c), NEW n \in Lost
    PROVE  LET s == Head(call[c].steps)
           IN  \/ s.op = "write" /\ n = s.at
               \/ s.op = "move"
               \/ s.op \in {"trash", "hard", "recursive"} /\ n \in UnderPath(s.at)
<1>1. file \in Tree /\ file'[n] # file[n] /\ n \in Note
  BY DEF TypeInv, TypeOK, Lost
<1>2. CASE ApplyWrite(c)
  BY <1>1, <1>2 DEF ApplyWrite, Tree
<1>3. CASE ApplyMove(c)
  BY <1>3 DEF ApplyMove
<1>4. CASE ApplyDelete(c)
  BY <1>1, <1>4 DEF ApplyDelete
<1>5. CASE ApplyCreate(c) \/ ApplyFails(c)
  BY <1>1, <1>5 DEF ApplyCreate, ApplyFails
<1>6. QED
  BY <1>2, <1>3, <1>4, <1>5 DEF Apply

\* The invariant is inductive.
LEMMA InvInductive ==
    ASSUME VaultAssumption
    PROVE  /\ Init => Inv
           /\ Inv /\ [Next]_vars => Inv'
<1>1. Init => Inv
  <2> SUFFICES ASSUME Init PROVE Inv
    OBVIOUS
  <2>1. \A c \in Caller : call[c].pc = "idle"
    BY DEF Init, Idle
  <2>2. QED
    BY <2>1, TypeInit DEF Inv, LockInv, LookedAt
<1>2. Inv /\ [Next]_vars => Inv'
  BY TypeStep, LockStep, LookedAtStep DEF Inv
<1>3. QED
  BY <1>1, <1>2

\* Every step a mutation takes replaces only what its call has looked at.
LEMMA ActsOnWhatItSaw ==
    ASSUME VaultAssumption, Inv, [Next]_vars, NEW c \in Caller, Acts(c),
           NEW n \in Lost \ call[c].touched
    PROVE  LET s == Head(call[c].steps)
           IN  file[n] = call[c].seen[n] /\ (s.op = "write" /\ ~s.force => s.expect = file[n])
<1>1. Apply(c) /\ LookedAt(c) /\ call[c].pc = "apply"
  BY OwnAct DEF Inv, Acts
<1>2. n \in Note /\ file[n] # Absent
  BY DEF Lost
<1>3. file[n] = call[c].seen[n]
  BY <1>1, <1>2 DEF LookedAt
<1>4. Head(call[c].steps).op = "write" => n = Head(call[c].steps).at
  BY <1>1, LostBy DEF Inv
<1>5. QED
  BY <1>1, <1>2, <1>3, <1>4 DEF LookedAt

\* A deletion of a folder loses only what the other program put there meanwhile,
\* and a deletion by a restore only what is the server's own.
LEMMA ActsOnItsTarget ==
    ASSUME VaultAssumption, Inv, [Next]_vars, NEW c \in Caller, Acts(c), NEW n \in Lost
    PROVE  LET s == Head(call[c].steps)
           IN  /\ s.at = Folder /\ s.op # "recursive" => n \in call[c].touched
               /\ call[c].kind = "restore" /\ s.op # "write" => n \in mine \/ (n \in Inside /\ Folder \in mine)
<1> DEFINE s == Head(call[c].steps)
<1>1. Apply(c) /\ LookedAt(c) /\ call[c].pc = "apply" /\ TypeInv
  BY OwnAct DEF Inv, Acts
<1>2. n \in Note /\ file[n] # Absent
  BY DEF Lost
<1>3. s \in Allowed(call[c].kind, mine)
  BY <1>1, RestIsAllowed DEF TypeInv, Called, CallOk
<1>4. \/ s.op = "write" /\ n = s.at
      \/ s.op = "move"
      \/ s.op \in {"trash", "hard", "recursive"} /\ n \in UnderPath(s.at)
  BY <1>1, LostBy
<1>5. s.at = Folder /\ s.op # "recursive" => n \in call[c].touched
  <2> SUFFICES ASSUME s.at = Folder, s.op # "recursive", n \notin call[c].touched PROVE FALSE
    OBVIOUS
  <2>1. s.op \in {"trash", "hard"} /\ n \in Inside
    BY <1>3, <1>4 DEF Allowed, Sound, UnderPath, VaultAssumption
  <2>2. QED
    BY <1>1, <1>2, <2>1 DEF LookedAt
<1>6. call[c].kind = "restore" /\ s.op # "write" => n \in mine \/ (n \in Inside /\ Folder \in mine)
  BY <1>3, <1>4 DEF Allowed, UnderPath
<1>7. QED
  BY <1>5, <1>6

-----------------------------------------------------------------------------
(* Theorems.                                                                *)

\* The variables keep their types: what is still owned by the pending batch is
\* something a tool has changed, an index.md has a folder, and so has a note.
THEOREM FileTypeCorrect == Spec => []TypeOK
<1>1. Init => Inv
  BY InvInductive, VaultAssumption
<1>2. Inv /\ [Next]_vars => Inv'
  BY InvInductive, VaultAssumption
<1>3. Inv => TypeOK
  BY DEF Inv, TypeInv
<1>4. QED
  BY <1>1, <1>2, <1>3, PTL DEF Spec

\* Conflict protection, whatever the calls and the edits of the other program: a
\* tool's mutation replaces or removes only content its call has looked at under
\* the root lock, and a write only what its caller expects or forces.
THEOREM ToolsReplaceWhatTheySaw == Spec => ConflictSafe
<1>1. Init => Inv
  BY InvInductive, VaultAssumption
<1>2. Inv /\ [Next]_vars => Inv'
  BY InvInductive, VaultAssumption
<1> DEFINE Safe == \A c \in Caller : Acts(c) =>
                     LET s == Head(call[c].steps) IN
                     \A n \in Lost \ call[c].touched :
                         /\ file[n] = call[c].seen[n]
                         /\ s.op = "write" /\ ~s.force => s.expect = file[n]
<1>3. Inv /\ [Next]_vars => [Safe]_vars
  BY ActsOnWhatItSaw, VaultAssumption
<1>4. QED
  BY <1>1, <1>2, <1>3, PTL DEF Spec, ConflictSafe

\* Deletions keep to their targets: a folder's deletion takes along no note that
\* was there when it was looked at, and a restore deletes only what tools made.
THEOREM DeletionsAreScoped == Spec => DeletionsSpareNotes
<1>1. Init => Inv
  BY InvInductive, VaultAssumption
<1>2. Inv /\ [Next]_vars => Inv'
  BY InvInductive, VaultAssumption
<1> DEFINE Scoped == \A c \in Caller : Acts(c) =>
                       LET s == Head(call[c].steps) IN
                       /\ s.at = Folder /\ s.op # "recursive" => Lost \subseteq call[c].touched
                       /\ call[c].kind = "restore" /\ s.op # "write" =>
                            \A n \in Lost : n \in mine \/ (n \in Inside /\ Folder \in mine)
<1>3. Inv /\ [Next]_vars => [Scoped]_vars
  BY ActsOnItsTarget, VaultAssumption
<1>4. QED
  BY <1>1, <1>2, <1>3, PTL DEF Spec, DeletionsSpareNotes

-----------------------------------------------------------------------------
(* The parts side by side.                                                  *)

\* Each part takes its own steps, or none.
LEMMA PartsRun == MCSpec => Spec /\ Texts!Spec /\ Settings!Spec /\ Registration!Spec
<1>1. MCInit => Init /\ Texts!Init /\ Settings!Init /\ Registration!Init
  BY DEF MCInit, Beside
<1> DEFINE Step1 == [MCNext]_<<part, vars, textVars, webVars, hostVars>>
<1>2. Step1 => [Next]_vars
  BY DEF MCNext
<1>3. Step1 => [Texts!Next]_(Texts!vars)
  BY DEF MCNext, textVars, Texts!vars
<1>4. Step1 => [Settings!Next]_(Settings!vars)
  BY DEF MCNext, webVars, Settings!vars
<1>5. Step1 => [Registration!Next]_(Registration!vars)
  BY DEF MCNext, hostVars, Registration!vars
<1>6. QED
  BY <1>1, <1>2, <1>3, <1>4, <1>5, PTL DEF MCSpec, Spec, Texts!Spec, Settings!Spec, Registration!Spec

\* What the parts' theorems ask of their constants.
LEMMA PartsAreSound == Texts!Bounded /\ Settings!Sound /\ Registration!Bounded
<1>1. Texts!Bounded
  BY BoundsAssumption DEF Texts!Bounded
<1>2. Registration!Bounded
  BY BoundsAssumption DEF Registration!Bounded
<1>3. Settings!Sound
  <2> DEFINE D == [v \in {"v", "w"} |-> IF v = "v" THEN <<"d", "e">> ELSE <<"f">>]
  <2>1. D["v"] = <<"d", "e">> /\ D["w"] = <<"f">> /\ DOMAIN D = {"v", "w"}
    OBVIOUS
  <2>2. DOMAIN D["v"] = {1, 2} /\ DOMAIN D["w"] = {1}
    BY <2>1
  <2>3. D["v"][1] = "d" /\ D["v"][2] = "e" /\ D["w"][1] = "f"
    BY <2>1
  <2> HIDE DEF D
  <2> DEFINE Names == UNION {{D[v][i] : i \in DOMAIN D[v]} : v \in DOMAIN D}
  <2>4. {"d", "e", "f"} \subseteq Names
    BY <2>1, <2>2, <2>3
  <2> HIDE DEF Names
  <2>5. \A v \in DOMAIN D : D[v] \in Seq(Names)
    <3>1. <<"d", "e">> \in Seq(Names)
      BY <2>4
    <3>2. <<"f">> \in Seq(Names)
      BY <2>4
    <3>3. QED
      BY <2>1, <3>1, <3>2
  <2>6. \A v, w \in DOMAIN D : \A i \in DOMAIN D[v], j \in DOMAIN D[w] : D[v][i] = D[w][j] => v = w
    BY <2>1, <2>2, <2>3
  <2>7. Settings!Apart
    BY <2>5, <2>6 DEF Settings!Apart, Settings!Vault, Settings!Dir, D, Names
  <2>8. QED
    BY <2>7, BoundsAssumption DEF Settings!Sound
<1>4. QED
  BY <1>1, <1>2, <1>3

\* Side by side, the variables of all four parts keep their types.
THEOREM PartsTypes == MCSpec => []TypesOK
<1>1. Spec => []TypeOK
  BY FileTypeCorrect
<1>2. Texts!Spec => []Texts!TypeOK
  BY PartsAreSound, Texts!TextTypeCorrect
<1>3. Settings!Spec => []Settings!TypeOK
  BY PartsAreSound, Settings!SettingsTypes
<1>4. Registration!Spec => []Registration!TypeOK
  BY PartsAreSound, Registration!RegistrationTypes
<1>5. TypeOK /\ Texts!TypeOK /\ Settings!TypeOK /\ Registration!TypeOK => TypesOK
  BY DEF TypesOK
<1>6. QED
  BY <1>1, <1>2, <1>3, <1>4, <1>5, PartsRun, PTL

\* A query answers from the files as they are (contextos-search, text.rs): QueriesAreFresh
\* of TextSyncProofs, for the processes and notes of the run.
THEOREM AnswersAreFresh == MCSpec => []QueryFresh
<1>1. Texts!Spec => []Texts!QueryFresh
  BY PartsAreSound, Texts!QueriesAreFresh
<1>2. Texts!QueryFresh => QueryFresh
  BY DEF QueryFresh
<1>3. QED
  BY <1>1, <1>2, PartsRun, PTL

\* What a registration replaces is in its backup (host_registration.rs): UndoFromBackup of
\* HostRegistrationProofs, beside the other parts.
THEOREM RegistrationsCanBeUndone == MCSpec => []EditsCanBeUndone
<1>1. Registration!Spec => []Registration!EditsCanBeUndone
  BY PartsAreSound, Registration!UndoFromBackup
<1>2. Registration!EditsCanBeUndone => EditsCanBeUndone
  BY DEF EditsCanBeUndone
<1>3. QED
  BY <1>1, <1>2, PartsRun, PTL

\* No write of web.toml takes from an app a server it needs (settings.rs, mutate):
\* AppsKeepTheirServers of WebSettingsProofs, for the vaults of the run.
THEOREM RunningAppsKeepTheirServers == MCSpec => NoAppLosesItsServer
<1>1. Settings!Spec => Settings!NoAppLosesItsServer
  BY PartsAreSound, Settings!AppsKeepTheirServers
<1>2. QED
  BY <1>1, PartsRun, PTL DEF NoAppLosesItsServer

=============================================================================
