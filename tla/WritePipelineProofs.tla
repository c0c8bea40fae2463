------------------------ MODULE WritePipelineProofs ------------------------
(***************************************************************************)
(* Proofs about WritePipeline, for any number of vaults and calls and any  *)
(* bounds: its variables keep their types, calls never wait for one        *)
(* another in a circle, a vault's log keeps the order of the operations    *)
(* through failed and repeated appends, an operation stays on record, a    *)
(* route that met no failure leaves nothing untold, and calls have their   *)
(* vaults in turn (VaultTurns).                                            *)
(***************************************************************************)
EXTENDS WritePipeline, TLAPS, SequenceTheorems, WellFoundedInduction

Routing == {"index", "log", "git", "search", "internal"}

\* What a call holds in each of its phases.  A waiting call holds the lowest of
\* the vaults it asked for; a routed event names only vaults the call holds.
HoldOf(c) ==
    /\ call[c].pc = "idle" => \A r \in Root : lock[r] # c
    /\ call[c].pc = "waiting" =>
        /\ call[c].ask \in Request
        /\ \A r \in Root : lock[r] = c => r \in Elements(call[c].ask)
        /\ \E q \in Elements(call[c].ask) : lock[q] # c
        /\ \A r, q \in Elements(call[c].ask) : lock[r] = c /\ lock[q] # c => r < q
    /\ call[c].pc \notin {"idle", "waiting"} => \E r \in Root : lock[r] = c
    /\ call[c].pc \in Routing => \A r \in RootsOf(call[c].event) : lock[r] = c
    /\ call[c].pc \in {"index", "log"} =>
        /\ call[c].todo # {} /\ call[c].todo \subseteq RootsOf(call[c].event)
        /\ call[c].op \in 1..ops

HoldInv == \A c \in Caller : HoldOf(c)

TypeInv == TypeOK /\ HoldInv

\* The records of a vault that are in its log or wait for it.
Known(r) == Elements(log[r]) \cup Elements(pending[r])

\* The vaults where the operation of a call still has to be logged.
Unlogged(c) == IF call[c].pc = "index" THEN RootsOf(call[c].event) ELSE call[c].todo

\* None of them has a record newer than that operation.
NewestOf(c) ==
    call[c].pc \in {"index", "log"} =>
        \A r \in Unlogged(c) : \A op \in Known(r) : op <= call[c].op

OrderInv == LogInOrder /\ \A c \in Caller : NewestOf(c)

\* Vaults of the event that the log step has been to know the operation.
LoggedOf(c) ==
    call[c].pc = "log" =>
        \A r \in RootsOf(call[c].event) \ call[c].todo : call[c].op \in Known(r)

RecordInv == OnRecord /\ \A c \in Caller : LoggedOf(c)

-----------------------------------------------------------------------------
(* Least elements, requests and sequences.                                  *)

\* A set of naturals has a least element.
LEMMA LeastIsMember ==
    ASSUME NEW S, S \subseteq Nat, S # {}
    PROVE  Least(S) \in S /\ \A q \in S : Least(S) <= q
<1> DEFINE R == OpToRel(<, Nat)
<1>1. IsWellFoundedOn(R, Nat)
  BY NatLessThanWellFounded
<1>2. PICK r \in S : \A q \in S : ~(<<q, r>> \in R)
  <2> HIDE DEF R
  <2> QED BY <1>1, WFMin
<1>3. \A q \in S : r <= q
  <2>1. SUFFICES ASSUME NEW q \in S PROVE r <= q
    OBVIOUS
  <2>2. r \in Nat /\ q \in Nat
    BY <1>2, <2>1
  <2>3. ~(q < r)
    BY <1>2, <2>1, <2>2 DEF OpToRel
  <2>4. QED
    BY <2>2, <2>3
<1>4. QED
  BY <1>2, <1>3 DEF Least

\* Vaults are naturals.
LEMMA RootsAreNat == Root \subseteq Nat
BY BoundAssumption DEF Root

\* A request names vaults, at least one.
LEMMA RequestNames ==
    ASSUME NEW ask \in Request
    PROVE  Elements(ask) \subseteq Root /\ Elements(ask) # {}
<1>1. PICK n \in 1..MaxPaths : ask \in [1..n -> Root]
  BY DEF Request
<1>2. n \in Nat /\ 1 \in 1..n
  BY BoundAssumption
<1>3. Len(ask) = n
  BY <1>1, <1>2
<1>4. QED
  BY <1>1, <1>2, <1>3 DEF Elements

\* The vaults of an event over files.
LEMMA RootsOfFiles ==
    ASSUME NEW fs \in SUBSET (Root \X File)
    PROVE  RootsOf(fs) \subseteq Root
BY DEF RootsOf

\* The vaults of one file in each of some vaults are these vaults.
LEMMA RootsOfProduct ==
    ASSUME NEW rs, NEW x
    PROVE  RootsOf(rs \X {x}) = rs
<1>1. ASSUME NEW r \in rs PROVE r \in RootsOf(rs \X {x})
  <2>1. <<r, x>> \in rs \X {x} /\ <<r, x>>[1] = r
    OBVIOUS
  <2>2. QED
    BY <2>1 DEF RootsOf
<1>2. ASSUME NEW r \in RootsOf(rs \X {x}) PROVE r \in rs
  <2>1. PICK f \in rs \X {x} : r = f[1]
    BY DEF RootsOf
  <2>2. QED
    BY <2>1
<1>3. QED
  BY <1>1, <1>2

Sorted(s) == \A i, j \in 1..Len(s) : i < j => s[i] <= s[j]

\* Concatenation of two sequences of records.
LEMMA ConcatNat ==
    ASSUME NEW s \in Seq(Nat), NEW t \in Seq(Nat)
    PROVE  /\ s \o t \in Seq(Nat) /\ Len(s \o t) = Len(s) + Len(t)
           /\ \A i \in 1..(Len(s) + Len(t)) :
                 (s \o t)[i] = IF i <= Len(s) THEN s[i] ELSE t[i - Len(s)]
BY ConcatProperties

\* What sorted means, for positions that may be equal.
LEMMA SortedAt ==
    ASSUME NEW s \in Seq(Nat), Sorted(s), NEW p \in 1..Len(s), NEW q \in 1..Len(s), p <= q
    PROVE  s[p] <= s[q]
<1>1. s[p] \in Nat /\ s[q] \in Nat /\ p \in Nat /\ q \in Nat
  OBVIOUS
<1>2. p = q \/ p < q
  BY <1>1
<1>3. CASE p = q
  BY <1>1, <1>3
<1>4. CASE p < q
  BY <1>4 DEF Sorted
<1>5. QED
  BY <1>2, <1>3, <1>4

\* What an append of the first m of the records ps, n of them popped, leaves.
LEMMA FlushedSequences ==
    ASSUME NEW lg \in Seq(Nat), NEW ps \in Seq(Nat), NEW n \in 0..Len(ps),
           NEW m \in {n, n + 1}, m <= Len(ps),
           NEW k \in 1..(Len(lg) + m + Len(ps) - n)
    PROVE  ((lg \o SubSeq(ps, 1, m)) \o SubSeq(ps, n + 1, Len(ps)))[k] =
             (lg \o ps)[IF k <= Len(lg) + m THEN k ELSE k - m + n]
<1> DEFINE a == SubSeq(ps, 1, m)
           b == SubSeq(ps, n + 1, Len(ps))
<1>1. /\ Len(lg) \in Nat /\ Len(ps) \in Nat /\ n \in Nat /\ m \in Nat /\ k \in Nat
      /\ n <= Len(ps) /\ (m = n \/ m = n + 1)
  OBVIOUS
<1>2. /\ a \in Seq(Nat) /\ Len(a) = m /\ \A i \in 1..m : a[i] = ps[i]
  BY <1>1, SubSeqProperties, m <= Len(ps)
<1>2a. /\ b \in Seq(Nat) /\ Len(b) = Len(ps) - n
      /\ \A i \in 1..(Len(ps) - n) : b[i] = ps[n + i]
  BY <1>1, SubSeqProperties
<1>3. \A i \in 1..Len(lg) : lg[i] \in Nat
  OBVIOUS
<1> HIDE DEF a, b
<1>4. /\ lg \o a \in Seq(Nat) /\ Len(lg \o a) = Len(lg) + m
      /\ \A i \in 1..(Len(lg) + m) :
            (lg \o a)[i] = IF i <= Len(lg) THEN lg[i] ELSE a[i - Len(lg)]
  <2>1. a \in Seq(Nat) /\ Len(a) = m
    BY <1>2
  <2>2. /\ lg \o a \in Seq(Nat) /\ Len(lg \o a) = Len(lg) + Len(a)
        /\ \A i \in 1..(Len(lg) + Len(a)) :
              (lg \o a)[i] = IF i <= Len(lg) THEN lg[i] ELSE a[i - Len(lg)]
    BY <2>1, ConcatNat
  <2>3. QED
    BY <2>1, <2>2
<1>5. ((lg \o a) \o b)[k] = IF k <= Len(lg) + m THEN (lg \o a)[k]
                                               ELSE b[k - (Len(lg) + m)]
  <2> DEFINE g == lg \o a
  <2>1. g \in Seq(Nat) /\ Len(g) = Len(lg) + m
    BY <1>4
  <2> HIDE DEF g
  <2>2. \A i \in 1..(Len(g) + Len(b)) :
          (g \o b)[i] = IF i <= Len(g) THEN g[i] ELSE b[i - Len(g)]
    BY <2>1, <1>2a, ConcatProperties
  <2>3. k \in 1..(Len(g) + Len(b))
    BY <2>1, <1>1, <1>2a
  <2>4. QED
    BY <2>1, <2>2, <2>3 DEF g
<1>6. \A i \in 1..(Len(lg) + Len(ps)) :
        (lg \o ps)[i] = IF i <= Len(lg) THEN lg[i] ELSE ps[i - Len(lg)]
  BY <1>1, ConcatProperties
<1>7. CASE k <= Len(lg) + m
  <2>1. k \in 1..(Len(lg) + m) /\ k \in 1..(Len(lg) + Len(ps))
    BY <1>1, <1>7
  <2>2. CASE k <= Len(lg)
    BY <2>1, <2>2, <1>4, <1>5, <1>6, <1>7 DEF a, b
  <2>3. CASE ~(k <= Len(lg))
    <3>1. k - Len(lg) \in 1..m
      BY <2>1, <2>3, <1>1
    <3>2. QED
      BY <3>1, <2>1, <2>3, <1>2, <1>4, <1>5, <1>6, <1>7 DEF a, b
  <2>4. QED
    BY <2>2, <2>3
<1>8. CASE ~(k <= Len(lg) + m)
  <2>1. /\ k - (Len(lg) + m) \in 1..(Len(ps) - n)
        /\ k - m + n \in 1..(Len(lg) + Len(ps)) /\ ~(k - m + n <= Len(lg))
        /\ (k - m + n) - Len(lg) = n + (k - (Len(lg) + m))
    BY <1>1, <1>8
  <2>2. b[k - (Len(lg) + m)] = ps[n + (k - (Len(lg) + m))]
    BY <1>2a, <2>1
  <2>3. (lg \o ps)[k - m + n] = ps[(k - m + n) - Len(lg)]
    BY <1>6, <2>1
  <2>4. QED
    BY <1>5, <1>8, <2>1, <2>2, <2>3 DEF a, b
<1>9. QED
  BY <1>7, <1>8 DEF a, b

\* The same for the whole: what is in log and buffer, and that it is sorted.
LEMMA FlushedElements ==
    ASSUME NEW lg \in Seq(Nat), NEW ps \in Seq(Nat), NEW n \in 0..Len(ps),
           NEW m \in {n, n + 1}, m <= Len(ps)
    PROVE  LET a == lg \o SubSeq(ps, 1, m)
               b == SubSeq(ps, n + 1, Len(ps))
           IN  /\ Elements(a) \cup Elements(b) = Elements(lg) \cup Elements(ps)
               /\ Sorted(lg \o ps) => Sorted(a \o b)
<1> DEFINE h == SubSeq(ps, 1, m)
           a == lg \o h
           b == SubSeq(ps, n + 1, Len(ps))
<1>1. /\ Len(lg) \in Nat /\ Len(ps) \in Nat /\ n \in Nat /\ m \in Nat
      /\ n <= Len(ps) /\ (m = n \/ m = n + 1)
  OBVIOUS
<1>2. /\ h \in Seq(Nat) /\ Len(h) = m /\ \A i \in 1..m : h[i] = ps[i]
  BY <1>1, SubSeqProperties, m <= Len(ps)
<1>3. /\ b \in Seq(Nat) /\ Len(b) = Len(ps) - n
      /\ \A i \in 1..(Len(ps) - n) : b[i] = ps[n + i]
  BY <1>1, SubSeqProperties
<1> HIDE DEF h, b
<1>4. /\ a \in Seq(Nat) /\ Len(a) = Len(lg) + m
      /\ \A i \in 1..(Len(lg) + m) :
            a[i] = IF i <= Len(lg) THEN lg[i] ELSE h[i - Len(lg)]
  BY <1>1, <1>2, ConcatProperties
<1> HIDE DEF a
<1>5. Len(a \o b) = Len(lg) + m + Len(ps) - n
  <2>1. Len(a \o b) = Len(a) + Len(b)
    BY <1>3, <1>4, ConcatProperties
  <2>2. QED
    BY <2>1, <1>1, <1>3, <1>4
<1>6. Len(lg \o ps) = Len(lg) + Len(ps)
  BY ConcatProperties
<1>7. ASSUME NEW x \in Elements(a) \cup Elements(b)
      PROVE  x \in Elements(lg) \cup Elements(ps)
  <2>1. CASE x \in Elements(a)
    <3>1. PICK i \in 1..(Len(lg) + m) : x = a[i]
      BY <2>1, <1>4 DEF Elements
    <3>2. CASE i <= Len(lg)
      <4>1. i \in 1..Len(lg)
        BY <3>1, <3>2, <1>1
      <4>2. x = lg[i]
        BY <3>1, <3>2, <1>4
      <4>3. QED
        BY <4>1, <4>2 DEF Elements
    <3>3. CASE ~(i <= Len(lg))
      <4>1. i - Len(lg) \in 1..m /\ i - Len(lg) \in 1..Len(ps)
        BY <3>1, <3>3, <1>1, m <= Len(ps)
      <4>2. x = ps[i - Len(lg)]
        BY <3>1, <3>3, <4>1, <1>2, <1>4
      <4>3. QED
        BY <4>1, <4>2 DEF Elements
    <3>4. QED
      BY <3>2, <3>3
  <2>2. CASE x \in Elements(b)
    <3>1. PICK i \in 1..(Len(ps) - n) : x = b[i]
      BY <2>2, <1>3 DEF Elements
    <3>2. n + i \in 1..Len(ps)
      BY <3>1, <1>1
    <3>3. x = ps[n + i]
      BY <3>1, <1>3
    <3>4. QED
      BY <3>2, <3>3 DEF Elements
  <2>3. QED
    BY <2>1, <2>2
<1>8. ASSUME NEW x \in Elements(lg) \cup Elements(ps)
      PROVE  x \in Elements(a) \cup Elements(b)
  <2>1. CASE x \in Elements(lg)
    <3>1. PICK i \in 1..Len(lg) : x = lg[i]
      BY <2>1 DEF Elements
    <3>2. i \in 1..(Len(lg) + m) /\ i <= Len(lg)
      BY <3>1, <1>1
    <3>3. x = a[i]
      BY <3>1, <3>2, <1>4
    <3>4. QED
      BY <3>2, <3>3, <1>4 DEF Elements
  <2>2. CASE x \in Elements(ps)
    <3>1. PICK i \in 1..Len(ps) : x = ps[i]
      BY <2>2 DEF Elements
    <3>2. CASE i <= m
      <4>1. /\ Len(lg) + i \in 1..(Len(lg) + m) /\ ~(Len(lg) + i <= Len(lg))
            /\ (Len(lg) + i) - Len(lg) = i /\ i \in 1..m
        BY <3>1, <3>2, <1>1
      <4>2. x = a[Len(lg) + i]
        BY <4>1, <3>1, <1>2, <1>4
      <4>3. QED
        BY <4>1, <4>2, <1>4 DEF Elements
    <3>3. CASE ~(i <= m)
      <4>1. i - n \in 1..(Len(ps) - n) /\ n + (i - n) = i
        BY <3>1, <3>3, <1>1
      <4>2. x = b[i - n]
        BY <4>1, <3>1, <1>3
      <4>3. QED
        BY <4>1, <4>2, <1>3 DEF Elements
    <3>4. QED
      BY <3>2, <3>3
  <2>3. QED
    BY <2>1, <2>2
<1>9. ASSUME Sorted(lg \o ps), NEW i \in 1..Len(a \o b), NEW j \in 1..Len(a \o b), i < j
      PROVE  (a \o b)[i] <= (a \o b)[j]
  <2> DEFINE f(k) == IF k <= Len(lg) + m THEN k ELSE k - m + n
  <2>1. \A k \in 1..(Len(lg) + m + Len(ps) - n) : (a \o b)[k] = (lg \o ps)[f(k)]
    <3>1. n \in 0..Len(ps) /\ m \in {n, n + 1} /\ m <= Len(ps)
      OBVIOUS
    <3>2. QED
      BY <3>1, FlushedSequences DEF a, b, h
  <2>2. i \in 1..(Len(lg) + m + Len(ps) - n) /\ j \in 1..(Len(lg) + m + Len(ps) - n)
    BY <1>1, <1>5
  <2>3. f(i) \in 1..Len(lg \o ps) /\ f(j) \in 1..Len(lg \o ps) /\ f(i) <= f(j)
    <3>1. f(i) \in 1..(Len(lg) + Len(ps)) /\ f(j) \in 1..(Len(lg) + Len(ps))
      <4>1. ASSUME NEW k \in 1..(Len(lg) + m + Len(ps) - n)
            PROVE  f(k) \in 1..(Len(lg) + Len(ps))
        <5>1. CASE k <= Len(lg) + m
          BY <5>1, <1>1, m <= Len(ps)
        <5>2. CASE ~(k <= Len(lg) + m)
          BY <5>2, <1>1, m <= Len(ps)
        <5>3. QED
          BY <5>1, <5>2
      <4>2. QED
        BY <2>2, <4>1
    <3>2. f(i) <= f(j)
      BY <2>2, <1>1, i < j
    <3>3. QED
      BY <3>1, <3>2, <1>6
  <2>4. (lg \o ps)[f(i)] <= (lg \o ps)[f(j)]
    <3> HIDE DEF f
    <3>1. lg \o ps \in Seq(Nat)
      BY ConcatProperties
    <3>2. QED
      BY <3>1, <2>3, <1>9, SortedAt
  <2>5. QED
    BY <2>1, <2>2, <2>4
<1>10. QED
  BY <1>7, <1>8, <1>9 DEF Sorted, a, b, h

-----------------------------------------------------------------------------
(* What one outcome and one flush leave.                                    *)

\* More operations: a sequence of them stays one.
LEMMA SeqGrows ==
    ASSUME NEW low \in Nat, NEW high \in Nat, low <= high, NEW s \in Seq(1..low)
    PROVE  s \in Seq(1..high)
<1>1. 1..low \subseteq 1..high
  OBVIOUS
<1>2. \A i \in 1..Len(s) : s[i] \in 1..high
  BY <1>1, ElementOfSeq
<1>3. QED
  BY <1>1, <1>2

\* An outcome changes the call's record to next, and no other call.
LEMMA OutcomeFacts ==
    ASSUME TypeOK, NEW c \in Caller, NEW failed \in BOOLEAN, NEW next \in CallType,
           Outcome(c, failed, next)
    PROVE  /\ call' \in [Caller -> CallType]
           /\ faults' \in 0..MaxFaults
           /\ \A d \in Caller \ {c} : call'[d] = call[d]
           /\ call'[c].pc = next.pc /\ call'[c].kind = next.kind
           /\ call'[c].ask = next.ask /\ call'[c].event = next.event
           /\ call'[c].todo = next.todo /\ call'[c].op = next.op
<1> DEFINE new == [next EXCEPT !.clean = @ /\ ~failed]
<1>1. /\ new \in CallType /\ new.pc = next.pc /\ new.kind = next.kind
      /\ new.ask = next.ask /\ new.event = next.event
      /\ new.todo = next.todo /\ new.op = next.op
  BY DEF CallType
<1>2. call' = [call EXCEPT ![c] = new]
  BY DEF Outcome
<1> HIDE DEF new
<1>3. call \in [Caller -> CallType] /\ faults \in 0..MaxFaults
  BY DEF TypeOK
<1>4. faults' \in 0..MaxFaults
  BY <1>3, BoundAssumption DEF Outcome
<1>5. call' \in [Caller -> CallType] /\ call'[c] = new
      /\ \A d \in Caller \ {c} : call'[d] = call[d]
  BY <1>1, <1>2, <1>3
<1>6. QED
  BY <1>1, <1>4, <1>5

\* Writing files keeps the type of dirty.
LEMMA DirtiedType ==
    ASSUME TypeOK, NEW fs \in SUBSET (Root \X File)
    PROVE  Dirtied(fs) \in [Sink -> SUBSET (Root \X File)]
BY DEF TypeOK, Dirtied

\* Flushing the records ps of vault r: types, the other vaults, the records
\* there are, and their order.
LEMMA FlushFacts ==
    ASSUME TypeOK, NEW r \in Root, NEW top \in Nat, ops <= top,
           NEW ps \in Seq(1..top), NEW n \in 0..Len(ps), NEW landed \in BOOLEAN,
           FlushTo(r, ps, n, landed)
    PROVE  /\ log' \in [Root -> Seq(1..top)]
           /\ pending' \in [Root -> Seq(1..top)]
           /\ dirty' \in [Sink -> SUBSET (Root \X File)]
           /\ \A q \in Root \ {r} : log'[q] = log[q] /\ pending'[q] = pending[q]
           /\ Elements(log'[r]) \cup Elements(pending'[r])
                = Elements(log[r]) \cup Elements(ps)
           /\ Sorted(log[r] \o ps) => Sorted(log'[r] \o pending'[r])
<1> DEFINE m == IF landed THEN n + 1 ELSE n
           a == log[r] \o SubSeq(ps, 1, m)
           b == SubSeq(ps, n + 1, Len(ps))
<1>1. n \in Nat /\ Len(ps) \in Nat /\ m \in {n, n + 1} /\ m <= Len(ps) /\ m \in Nat
  BY DEF FlushTo
<1>2. ops \in Nat /\ \A q \in Root : log[q] \in Seq(1..top) /\ pending[q] \in Seq(1..top)
  <2>1. ops \in Nat /\ \A q \in Root : log[q] \in Seq(1..ops) /\ pending[q] \in Seq(1..ops)
    BY BoundAssumption DEF TypeOK
  <2>2. QED
    BY <2>1, SeqGrows
<1>3. a \in Seq(1..top) /\ b \in Seq(1..top)
  <2>1. \A i \in 1..Len(ps) : ps[i] \in 1..top
    BY ElementOfSeq
  <2>2. SubSeq(ps, 1, m) \in Seq(1..top)
    BY <2>1, <1>1, SubSeqProperties
  <2>3. b \in Seq(1..top)
    BY <2>1, <1>1, SubSeqProperties
  <2>4. QED
    BY <2>2, <2>3, <1>2, ConcatProperties
<1>4. /\ log' = [log EXCEPT ![r] = a]
      /\ pending' = [pending EXCEPT ![r] = b]
      /\ dirty' = dirty \/ dirty' = Dirtied({<<r, "log">>})
  BY DEF FlushTo, Kept
<1>5. ps \in Seq(Nat) /\ log[r] \in Seq(Nat)
  <2>1. 1..top \subseteq Nat
    OBVIOUS
  <2>2. QED
    BY <2>1, <1>2
<1>6. /\ Elements(a) \cup Elements(b) = Elements(log[r]) \cup Elements(ps)
      /\ Sorted(log[r] \o ps) => Sorted(a \o b)
  <2> HIDE DEF m
  <2> QED BY <1>1, <1>5, FlushedElements
<1> HIDE DEF a, b
<1>7. log \in [Root -> Seq(1..ops)] /\ pending \in [Root -> Seq(1..ops)]
  BY DEF TypeOK
<1>8. /\ log' \in [Root -> Seq(1..top)] /\ pending' \in [Root -> Seq(1..top)]
      /\ log'[r] = a /\ pending'[r] = b
      /\ \A q \in Root \ {r} : log'[q] = log[q] /\ pending'[q] = pending[q]
  <2>1. DOMAIN log = Root /\ DOMAIN pending = Root
    BY <1>7
  <2>2. log \in [Root -> Seq(1..top)] /\ pending \in [Root -> Seq(1..top)]
    BY <1>2, <1>7
  <2>3. QED
    BY <1>3, <1>4, <2>2
<1>9. dirty' \in [Sink -> SUBSET (Root \X File)]
  <2>1. {<<r, "log">>} \in SUBSET (Root \X File)
    BY DEF File
  <2>2. dirty \in [Sink -> SUBSET (Root \X File)]
    BY DEF TypeOK
  <2>3. QED
    BY <1>4, <2>1, <2>2, DirtiedType
<1>10. QED
  BY <1>6, <1>8, <1>9

\* A step of call c that touches no other call and no lock of another.
LEMMA HoldKept ==
    ASSUME TypeOK, HoldInv, NEW c \in Caller, ops \in Nat, ops' \in Nat, ops <= ops',
           \A d \in Caller \ {c} : call'[d] = call[d],
           \A d \in Caller \ {c} : \A r \in Root : (lock'[r] = d) <=> (lock[r] = d),
           HoldOf(c)'
    PROVE  HoldInv'
<1>1. SUFFICES ASSUME NEW d \in Caller \ {c} PROVE HoldOf(d)'
  BY DEF HoldInv
<1>2. HoldOf(d)
  BY DEF HoldInv
<1>3. call'[d] = call[d] /\ \A r \in Root : (lock'[r] = d) <=> (lock[r] = d)
  OBVIOUS
<1>4. CASE call[d].pc = "idle"
  BY <1>2, <1>3, <1>4 DEF HoldOf, Routing
<1>5. CASE call[d].pc = "waiting"
  BY <1>2, <1>3, <1>5, RequestNames DEF HoldOf, Routing
<1>6. CASE call[d].pc \notin {"idle", "waiting"}
  <2>1. \E r \in Root : lock'[r] = d
    BY <1>2, <1>3, <1>6 DEF HoldOf
  <2>2. call'[d].pc \in Routing => \A r \in RootsOf(call'[d].event) : lock'[r] = d
    <3>1. RootsOf(call[d].event) \subseteq Root
      BY RootsOfFiles DEF TypeOK, CallType
    <3>2. QED
      BY <1>2, <1>3, <1>6, <3>1 DEF HoldOf
  <2>3. call'[d].pc \in {"index", "log"} =>
          /\ call'[d].todo # {} /\ call'[d].todo \subseteq RootsOf(call'[d].event)
          /\ call'[d].op \in 1..ops'
    BY <1>2, <1>3, <1>6 DEF HoldOf
  <2>4. QED
    BY <2>1, <2>2, <2>3, <1>3, <1>6 DEF HoldOf
<1>7. QED
  BY <1>4, <1>5, <1>6

-----------------------------------------------------------------------------
(* The types and the locks, action by action.                               *)

\* A server without calls is well typed and holds no lock.
LEMMA InitType == Init => TypeInv
<1> SUFFICES ASSUME Init PROVE TypeInv
  OBVIOUS
<1>1. Idle \in CallType /\ Idle.pc = "idle"
  BY DEF Idle, CallType, Phases, Kinds
<1>2. << >> \in Seq(1..ops)
  BY EmptySeq
<1>3. TypeOK
  <2>1. 0 \in 0..(RootCount + 1) /\ 0 \in 0..MaxOps /\ 0 \in 0..MaxFaults
    BY BoundAssumption
  <2>2. QED
    BY <1>1, <1>2, <2>1 DEF Init, TypeOK
<1>4. HoldInv
  <2>1. \A c \in Caller : call[c].pc = "idle" /\ \A r \in Root : lock[r] # c
    BY <1>1, NilAssumption DEF Init
  <2>2. QED
    BY <2>1 DEF HoldInv, HoldOf, Routing
<1>5. QED
  BY <1>3, <1>4 DEF TypeInv

\* A call that waits takes the lowest vault it lacks; idle calls hold nothing.
LEMMA LockingType ==
    ASSUME TypeInv, NEW c \in Caller, Begin(c) \/ Lock(c) \/ Finish(c) \/ Dropped(c)
    PROVE  TypeInv'
<1>1. Idle \in CallType /\ Idle.pc = "idle"
  BY DEF Idle, CallType, Phases, Kinds
<1>2. /\ TypeOK /\ HoldInv /\ HoldOf(c) /\ ops \in Nat
      /\ call \in [Caller -> CallType] /\ lock \in [Root -> Caller \cup {Nil}]
  BY BoundAssumption DEF TypeInv, TypeOK, HoldInv
<1>3. CASE Begin(c)
  <2>1. PICK ask \in Request, kind \in Kinds :
          call' = [call EXCEPT ![c] = [Idle EXCEPT !.pc = "waiting",
                                                   !.kind = kind, !.ask = ask]]
    BY <1>3 DEF Begin
  <2>2. /\ call[c].pc = "idle" /\ lock' = lock /\ ops' = ops
        /\ UNCHANGED <<stale, log, pending, dirty, owed, flushAt, faults>>
    BY <1>3 DEF Begin, vault
  <2>3. /\ [Idle EXCEPT !.pc = "waiting", !.kind = kind, !.ask = ask] \in CallType
        /\ [Idle EXCEPT !.pc = "waiting", !.kind = kind, !.ask = ask].pc = "waiting"
        /\ [Idle EXCEPT !.pc = "waiting", !.kind = kind, !.ask = ask].ask = ask
    BY DEF Idle, CallType, Phases, Kinds
  <2>4. /\ call' \in [Caller -> CallType] /\ \A d \in Caller \ {c} : call'[d] = call[d]
        /\ call'[c].pc = "waiting" /\ call'[c].ask = ask
    BY <1>2, <2>1, <2>3
  <2>5. TypeOK'
    BY <1>2, <2>2, <2>4 DEF TypeOK
  <2>6. HoldOf(c)'
    <3>1. \A r \in Root : lock[r] # c
      BY <1>2, <2>2 DEF HoldOf
    <3>2. Elements(ask) \subseteq Root /\ Elements(ask) # {}
      BY RequestNames
    <3>3. QED
      BY <2>2, <2>4, <3>1, <3>2 DEF HoldOf, Routing
  <2>7. HoldInv'
    BY <1>2, <2>2, <2>4, <2>6, HoldKept
  <2>8. QED
    BY <2>5, <2>7 DEF TypeInv
<1>4. CASE Lock(c)
  <2> DEFINE ask == call[c].ask
             r == NextRoot(ask, Held(c))
             S == Elements(ask) \ Held(c)
  <2>1. /\ call[c].pc = "waiting" /\ lock[r] = Nil /\ lock' = [lock EXCEPT ![r] = c]
        /\ call' = IF Elements(ask) \subseteq Held(c) \cup {r}
                   THEN [call EXCEPT ![c].pc = "locked", ![c].ask = << >>] ELSE call
        /\ ops' = ops /\ UNCHANGED <<stale, log, pending, dirty, owed, flushAt, faults>>
    BY <1>4 DEF Lock, vault, Free
  <2>2. /\ ask \in Request /\ Elements(ask) \subseteq Root /\ Held(c) \subseteq Elements(ask)
        /\ S # {} /\ S \subseteq Nat
    <3>1. ask \in Request
      BY <1>2, <2>1 DEF HoldOf
    <3>2. Elements(ask) \subseteq Root
      BY <3>1, RequestNames
    <3>3. S # {} /\ Held(c) \subseteq Elements(ask)
      BY <1>2, <2>1, <3>2 DEF HoldOf, Held
    <3>4. QED
      BY <3>1, <3>2, <3>3, RootsAreNat
  <2>3. r \in S /\ \A q \in S : r <= q
    <3> HIDE DEF S
    <3>1. r = Least(S)
      BY DEF NextRoot, S
    <3>2. QED
      BY <2>2, <3>1, LeastIsMember
  <2>4. r \in Root /\ \A q \in Root : lock'[q] = IF q = r THEN c ELSE lock[q]
    BY <1>2, <2>1, <2>2, <2>3
  <2>5. \A d \in Caller \ {c} : \A q \in Root : (lock'[q] = d) <=> (lock[q] = d)
    BY <2>1, <2>4, NilAssumption
  <2> HIDE DEF ask, r
  <2>6. CASE Elements(ask) \subseteq Held(c) \cup {r}
    <3>1. call' = [call EXCEPT ![c] = [call[c] EXCEPT !.pc = "locked", !.ask = << >>]]
      BY <1>2, <2>1, <2>6 DEF ask
    <3>2. /\ [call[c] EXCEPT !.pc = "locked", !.ask = << >>] \in CallType
          /\ [call[c] EXCEPT !.pc = "locked", !.ask = << >>].pc = "locked"
      <4>1. call[c] \in CallType
        BY <1>2
      <4>2. QED
        BY <4>1 DEF CallType, Phases
    <3> DEFINE new == [call[c] EXCEPT !.pc = "locked", !.ask = << >>]
    <3>3. /\ call' \in [Caller -> CallType] /\ \A d \in Caller \ {c} : call'[d] = call[d]
          /\ call'[c].pc = "locked"
      <4>1. call' = [call EXCEPT ![c] = new] /\ new \in CallType /\ new.pc = "locked"
        BY <3>1, <3>2
      <4>2. call \in [Caller -> CallType]
        BY <1>2
      <4> HIDE DEF new
      <4>3. QED
        BY <4>1, <4>2
    <3>4. TypeOK'
      BY <1>2, <2>1, <2>4, <3>3 DEF TypeOK
    <3>5. HoldOf(c)'
      BY <2>4, <3>3 DEF HoldOf, Routing
    <3>6. HoldInv'
      BY <1>2, <2>1, <2>5, <3>3, <3>5, HoldKept
    <3>7. QED
      BY <3>4, <3>6 DEF TypeInv
  <2>7. CASE ~(Elements(ask) \subseteq Held(c) \cup {r})
    <3>1. call' = call
      BY <2>1, <2>7
    <3>2. TypeOK'
      BY <1>2, <2>1, <2>4, <3>1 DEF TypeOK
    <3>3. HoldOf(c)'
      <4>1. call'[c].pc = "waiting" /\ call'[c].ask = ask /\ ask \in Request
        BY <2>1, <2>2, <3>1 DEF ask
      <4>2. \A q \in Root : lock'[q] = c => q \in Elements(ask)
        BY <2>2, <2>3, <2>4 DEF Held
      <4>3. \E q \in Elements(ask) : lock'[q] # c
        BY <2>2, <2>4, <2>7 DEF Held
      <4>4. ASSUME NEW p \in Elements(ask), NEW q \in Elements(ask),
                   lock'[p] = c, lock'[q] # c
            PROVE  p < q
        <5>1. p \in Root /\ q \in Root /\ p \in Nat /\ q \in Nat
          BY <2>2, RootsAreNat
        <5>2. lock[q] # c /\ q # r
          BY <2>4, <4>4, <5>1
        <5>3. CASE p = r
          <6>1. q \in S
            BY <5>1, <5>2 DEF Held
          <6>2. QED
            BY <2>3, <5>1, <5>2, <5>3, <6>1
        <5>4. CASE p # r
          <6>1. lock[p] = c
            BY <2>4, <4>4, <5>1, <5>4
          <6>2. QED
            BY <1>2, <2>1, <5>2, <6>1 DEF HoldOf, ask
        <5>5. QED
          BY <5>3, <5>4
      <4>5. QED
        BY <4>1, <4>2, <4>3, <4>4 DEF HoldOf, Routing
    <3>4. HoldInv'
      BY <1>2, <2>1, <2>5, <3>1, <3>3, HoldKept
    <3>5. QED
      BY <3>2, <3>4 DEF TypeInv
  <2>8. QED
    BY <2>6, <2>7
<1>5. CASE Finish(c) \/ Dropped(c)
  <2>1. /\ call' = [call EXCEPT ![c] = Idle] /\ lock' = Unlocked(c) /\ ops' = ops
        /\ UNCHANGED <<stale, log, pending, dirty, owed, flushAt, faults>>
    BY <1>5 DEF Finish, Dropped, vault
  <2>2. \A q \in Root : lock'[q] = IF lock[q] = c THEN Nil ELSE lock[q]
    BY <2>1 DEF Unlocked
  <2>3. /\ call' \in [Caller -> CallType] /\ call'[c] = Idle
        /\ \A d \in Caller \ {c} : call'[d] = call[d]
    BY <1>1, <1>2, <2>1
  <2>4. lock' \in [Root -> Caller \cup {Nil}]
    BY <1>2, <2>1 DEF Unlocked
  <2>5. TypeOK'
    BY <1>2, <2>1, <2>3, <2>4 DEF TypeOK
  <2>6. HoldOf(c)'
    BY <1>1, <2>2, <2>3, NilAssumption DEF HoldOf, Routing
  <2>7. \A d \in Caller \ {c} : \A q \in Root : (lock'[q] = d) <=> (lock[q] = d)
    BY <2>2, NilAssumption
  <2>8. HoldInv'
    BY <1>2, <2>1, <2>3, <2>6, <2>7, HoldKept
  <2>9. QED
    BY <2>5, <2>8 DEF TypeInv
<1>6. QED
  BY <1>3, <1>4, <1>5

\* An outcome of a step that keeps the locks and the event of its call.
LEMMA OutcomeHold ==
    ASSUME TypeInv, NEW c \in Caller, NEW failed \in BOOLEAN, NEW next \in CallType,
           Outcome(c, failed, next), lock' = lock, ops' \in Nat, ops <= ops',
           call[c].pc \notin {"idle", "waiting"}, next.pc \notin {"idle", "waiting"},
           next.pc \in Routing => call[c].pc \in Routing /\ next.event = call[c].event,
           next.pc \in {"index", "log"} =>
             /\ next.todo # {} /\ next.todo \subseteq RootsOf(next.event)
             /\ next.op \in 1..ops'
    PROVE  /\ call' \in [Caller -> CallType]
           /\ faults' \in 0..MaxFaults
           /\ HoldInv'
<1>1. /\ TypeOK /\ HoldInv /\ HoldOf(c) /\ ops \in Nat
  BY BoundAssumption DEF TypeInv, TypeOK, HoldInv
<1>2. /\ call' \in [Caller -> CallType] /\ faults' \in 0..MaxFaults
      /\ \A d \in Caller \ {c} : call'[d] = call[d]
      /\ call'[c].pc = next.pc /\ call'[c].event = next.event
      /\ call'[c].todo = next.todo /\ call'[c].op = next.op
  BY <1>1, OutcomeFacts
<1>3. HoldOf(c)'
  <2>1. \E r \in Root : lock'[r] = c
    BY <1>1 DEF HoldOf
  <2>2. next.pc \in Routing => \A r \in RootsOf(next.event) : lock'[r] = c
    BY <1>1 DEF HoldOf
  <2>3. QED
    BY <1>2, <2>1, <2>2 DEF HoldOf
<1>4. HoldInv'
  BY <1>1, <1>2, <1>3, HoldKept
<1>5. QED
  BY <1>2, <1>4

\* The record of a call after a mutation, and after the removal of an index.
Mutated(k, event, todo, op) ==
    [k EXCEPT !.pc = "index", !.event = event, !.todo = todo, !.op = op, !.clean = TRUE]
Cleared(k, event) ==
    [k EXCEPT !.pc = "git", !.event = event, !.op = 0, !.clean = TRUE]

\* They are records of calls, with these fields.
LEMMA MutatedRecord ==
    ASSUME NEW k \in CallType, NEW event \in SUBSET (Root \X File),
           NEW todo \in SUBSET Root, NEW op \in OpId
    PROVE  /\ Mutated(k, event, todo, op) \in CallType
           /\ Mutated(k, event, todo, op).pc = "index"
           /\ Mutated(k, event, todo, op).event = event
           /\ Mutated(k, event, todo, op).todo = todo
           /\ Mutated(k, event, todo, op).op = op
<1> DEFINE Files == SUBSET (Root \X File)
<1>1. /\ CallType = [pc : Phases, kind : Kinds, ask : Request \cup {<< >>},
                     event : Files, todo : SUBSET Root, found : Files,
                     derived : Files, op : OpId \cup {0}, clean : BOOLEAN]
      /\ event \in Files
  BY DEF CallType
<1>2. "index" \in Phases /\ "git" \in Phases
  BY DEF Phases
<1> HIDE DEF Files
<1>3. QED
  BY <1>1, <1>2 DEF Mutated

\* The same for the removal of an index, which has no operation.
LEMMA ClearedRecord ==
    ASSUME NEW k \in CallType, NEW event \in SUBSET (Root \X File)
    PROVE  /\ Cleared(k, event) \in CallType
           /\ Cleared(k, event).pc = "git"
           /\ Cleared(k, event).event = event
<1> DEFINE Files == SUBSET (Root \X File)
<1>1. /\ CallType = [pc : Phases, kind : Kinds, ask : Request \cup {<< >>},
                     event : Files, todo : SUBSET Root, found : Files,
                     derived : Files, op : OpId \cup {0}, clean : BOOLEAN]
      /\ event \in Files
  BY DEF CallType
<1>2. "index" \in Phases /\ "git" \in Phases
  BY DEF Phases
<1> HIDE DEF Files
<1>3. QED
  BY <1>1, <1>2 DEF Cleared

\* A mutation or an index removal: a new event over vaults the call holds.
LEMMA MutationType ==
    ASSUME TypeInv, NEW c \in Caller, Mutate(c) \/ ClearIndex(c)
    PROVE  TypeInv'
<1>1. /\ TypeOK /\ HoldInv /\ HoldOf(c) /\ ops \in Nat /\ ops < MaxOps /\ ops' = ops + 1
      /\ call \in [Caller -> CallType] /\ call[c].pc = "locked" /\ lock' = lock
      /\ UNCHANGED <<log, pending, owed, flushAt, faults>>
  <2>1. TypeOK /\ HoldInv /\ HoldOf(c)
    BY DEF TypeInv, HoldInv
  <2>2. ops \in Nat /\ call \in [Caller -> CallType]
    BY <2>1, BoundAssumption DEF TypeOK
  <2>3. /\ ops < MaxOps /\ ops' = ops + 1 /\ call[c].pc = "locked" /\ lock' = lock
        /\ UNCHANGED <<log, pending, owed, flushAt, faults>>
    BY DEF Mutate, ClearIndex
  <2>4. QED
    BY <2>1, <2>2, <2>3
<1>2. /\ log' \in [Root -> Seq(1..ops')] /\ pending' \in [Root -> Seq(1..ops')]
      /\ owed' \in [Root -> SUBSET (1..ops')] /\ ops' \in 0..MaxOps
  <2>1. \A r \in Root : log[r] \in Seq(1..ops') /\ pending[r] \in Seq(1..ops')
    BY <1>1, SeqGrows DEF TypeOK
  <2>2. 1..ops \subseteq 1..ops'
    BY <1>1
  <2>3. ops' \in 0..MaxOps
    BY <1>1, BoundAssumption
  <2>4. QED
    BY <1>1, <2>1, <2>2, <2>3 DEF TypeOK
<1>3. \E r \in Root : lock[r] = c
  BY <1>1 DEF HoldOf
<1>4. CASE Mutate(c)
  <2>1. PICK rs \in (SUBSET Held(c)) \ {{}} :
          /\ \E change \in [rs -> Changes] :
                stale' = stale \cup {f \in rs \X Dir : f[2] \in change[f[1]]}
          /\ dirty' = Dirtied(rs \X {"note"})
          /\ call' = [call EXCEPT ![c].pc = "index", ![c].event = rs \X {"note"},
                                  ![c].todo = rs, ![c].op = NextOp, ![c].clean = TRUE]
    BY <1>4 DEF Mutate
  <2> DEFINE new == Mutated(call[c], rs \X {"note"}, rs, NextOp)
  <2>2. rs \subseteq Root /\ rs # {} /\ \A r \in rs : lock[r] = c
    BY <2>1 DEF Held
  <2>3. rs \X {"note"} \in SUBSET (Root \X File) /\ NextOp \in OpId /\ NextOp \in 1..ops'
    <3>1. NextOp \in OpId /\ NextOp \in 1..ops'
      BY <1>1, BoundAssumption DEF NextOp, OpId
    <3>2. QED
      BY <2>2, <3>1 DEF File
  <2>4. /\ new \in CallType /\ new.pc = "index" /\ new.event = rs \X {"note"}
        /\ new.todo = rs /\ new.op = NextOp
    <3>1. call[c] \in CallType /\ rs \in SUBSET Root
      BY <1>1, <2>2
    <3>2. QED
      BY <2>3, <3>1, MutatedRecord
  <2>5. call' = [call EXCEPT ![c] = new]
    BY <1>1, <2>1 DEF Mutated
  <2> HIDE DEF new
  <2>6. /\ call' \in [Caller -> CallType] /\ call'[c] = new
        /\ \A d \in Caller \ {c} : call'[d] = call[d]
    BY <1>1, <2>4, <2>5
  <2>7. stale' \in SUBSET (Root \X Dir) /\ dirty' \in [Sink -> SUBSET (Root \X File)]
    <3>1. dirty' \in [Sink -> SUBSET (Root \X File)]
      BY <1>1, <2>1, <2>3, DirtiedType
    <3>2. stale \in SUBSET (Root \X Dir)
      BY <1>1 DEF TypeOK
    <3>3. QED
      BY <2>1, <2>2, <3>1, <3>2
  <2>8. TypeOK'
    BY <1>1, <1>2, <2>6, <2>7 DEF TypeOK
  <2>9. HoldOf(c)'
    <3>1. RootsOf(call'[c].event) = rs
      <4>1. call'[c].event = rs \X {"note"}
        BY <2>4, <2>6
      <4>2. QED
        BY <4>1, RootsOfProduct
    <3>2. call'[c].pc = "index" /\ call'[c].todo = rs /\ call'[c].op \in 1..ops'
      BY <2>3, <2>4, <2>6
    <3>3. QED
      BY <1>1, <1>3, <2>2, <3>1, <3>2 DEF HoldOf
  <2>10. HoldInv'
    BY <1>1, <2>6, <2>9, HoldKept
  <2>11. QED
    BY <2>8, <2>10 DEF TypeInv
<1>5. CASE ClearIndex(c)
  <2>1. PICK r \in Held(c) :
          /\ stale' = stale \cup {<<r, "folder">>}
          /\ dirty' = Dirtied({<<r, "folder">>})
          /\ call' = [call EXCEPT ![c].pc = "git", ![c].event = {<<r, "folder">>},
                                  ![c].op = 0, ![c].clean = TRUE]
    BY <1>5 DEF ClearIndex
  <2> DEFINE new == Cleared(call[c], {<<r, "folder">>})
  <2>2. r \in Root /\ lock[r] = c /\ {<<r, "folder">>} \in SUBSET (Root \X File)
    BY <2>1 DEF Held, File, Dir
  <2>3. new \in CallType /\ new.pc = "git" /\ new.event = {<<r, "folder">>}
    <3>1. call[c] \in CallType
      BY <1>1
    <3>2. QED
      BY <2>2, <3>1, ClearedRecord
  <2>4. call' = [call EXCEPT ![c] = new]
    BY <1>1, <2>1 DEF Cleared
  <2> HIDE DEF new
  <2>5. /\ call' \in [Caller -> CallType] /\ call'[c] = new
        /\ \A d \in Caller \ {c} : call'[d] = call[d]
    BY <1>1, <2>3, <2>4
  <2>6. stale' \in SUBSET (Root \X Dir) /\ dirty' \in [Sink -> SUBSET (Root \X File)]
    <3>1. dirty' \in [Sink -> SUBSET (Root \X File)]
      BY <1>1, <2>1, <2>2, DirtiedType
    <3>2. stale \in SUBSET (Root \X Dir) /\ <<r, "folder">> \in Root \X Dir
      BY <1>1, <2>2 DEF TypeOK, Dir
    <3>3. QED
      BY <2>1, <3>1, <3>2
  <2>7. TypeOK'
    BY <1>1, <1>2, <2>5, <2>6 DEF TypeOK
  <2>8. HoldOf(c)'
    <3>1. \A q \in RootsOf({<<r, "folder">>}) : q = r
      BY DEF RootsOf
    <3>2. QED
      BY <1>1, <1>3, <2>2, <2>3, <2>5, <3>1 DEF HoldOf
  <2>9. HoldInv'
    BY <1>1, <2>5, <2>8, HoldKept
  <2>10. QED
    BY <2>7, <2>9 DEF TypeInv
<1>6. QED
  BY <1>4, <1>5

\* The records of a call on its way through index and log.
LEMMA RouteRecord ==
    ASSUME NEW k \in CallType, NEW p \in Phases, NEW t \in SUBSET Root,
           NEW fs \in SUBSET (Root \X File)
    PROVE  /\ [k EXCEPT !.pc = p] \in CallType
           /\ [k EXCEPT !.todo = t, !.found = fs] \in CallType
           /\ [k EXCEPT !.pc = p, !.found = {}, !.todo = t] \in CallType
           /\ [k EXCEPT !.pc = p, !.found = {}, !.derived = fs, !.todo = t] \in CallType
           /\ [k EXCEPT !.pc = p, !.found = {}, !.todo = t, !.derived = @ \cup fs]
                \in CallType
           /\ [k EXCEPT !.derived = @ \ fs] \in CallType
<1> DEFINE Files == SUBSET (Root \X File)
<1>1. /\ CallType = [pc : Phases, kind : Kinds, ask : Request \cup {<< >>},
                     event : Files, todo : SUBSET Root, found : Files,
                     derived : Files, op : OpId \cup {0}, clean : BOOLEAN]
      /\ fs \in Files
  BY DEF CallType
<1>2. {} \in Files /\ \A a, b \in Files : a \cup b \in Files /\ a \ b \in Files
  OBVIOUS
<1> HIDE DEF Files
<1>3. k.derived \cup fs \in Files /\ k.derived \ fs \in Files
  BY <1>1, <1>2
<1>4. QED
  BY <1>1, <1>2, <1>3

\* The index step of a route.
LEMMA ReconcileType ==
    ASSUME TypeInv, NEW c \in Caller, Reconcile(c)
    PROVE  TypeInv'
<1>1. /\ TypeOK /\ HoldInv /\ HoldOf(c) /\ ops \in Nat
      /\ call[c] \in CallType /\ call[c].pc = "index" /\ lock' = lock /\ ops' = ops
      /\ UNCHANGED <<log, pending, owed, flushAt>>
  <2>1. TypeOK /\ HoldInv /\ HoldOf(c)
    BY DEF TypeInv, HoldInv
  <2>2. ops \in Nat /\ call[c] \in CallType
    BY <2>1, BoundAssumption DEF TypeOK
  <2>3. QED
    BY <2>1, <2>2 DEF Reconcile
<1> DEFINE k == call[c]
           r == Least(k.todo)
           rest == k.todo \ {r}
           roots == RootsOf(k.event)
<1>2. /\ k.todo # {} /\ k.todo \subseteq roots /\ roots \subseteq Root
      /\ k.op \in 1..ops /\ k.event \in SUBSET (Root \X File) /\ k.found \in SUBSET (Root \X File)
  <2>1. k.event \in SUBSET (Root \X File) /\ k.found \in SUBSET (Root \X File)
    BY <1>1 DEF CallType
  <2>2. roots \subseteq Root
    BY <2>1, RootsOfFiles
  <2>3. QED
    BY <1>1, <2>1, <2>2 DEF HoldOf
<1>3. r \in k.todo
  <2>1. k.todo \subseteq Nat
    BY <1>2, RootsAreNat
  <2>2. QED
    BY <1>2, <2>1, LeastIsMember
<1>4. PICK ds \in Reconciled :
        LET written == stale \cap ({r} \X ds)
            found == k.found \cup written
        IN  /\ stale' = stale \ written
            /\ dirty' = Dirtied(written)
            /\ Outcome(c, ds # Dir,
                IF ds # Dir
                THEN [k EXCEPT !.pc = "log", !.found = {}, !.todo = roots]
                ELSE IF rest # {}
                THEN [k EXCEPT !.todo = rest, !.found = found]
                ELSE [k EXCEPT !.pc = "log", !.found = {}, !.derived = found,
                               !.todo = roots])
  BY DEF Reconcile
<1> DEFINE written == stale \cap ({r} \X ds)
           found == k.found \cup written
           next == IF ds # Dir
                   THEN [k EXCEPT !.pc = "log", !.found = {}, !.todo = roots]
                   ELSE IF rest # {}
                   THEN [k EXCEPT !.todo = rest, !.found = found]
                   ELSE [k EXCEPT !.pc = "log", !.found = {}, !.derived = found,
                                  !.todo = roots]
<1>5. written \in SUBSET (Root \X File) /\ stale' \in SUBSET (Root \X Dir)
  BY <1>1, <1>4 DEF TypeOK, File
<1>6. found \in SUBSET (Root \X File) /\ rest \in SUBSET Root /\ roots \in SUBSET Root
  BY <1>2, <1>5
<1>7. dirty' \in [Sink -> SUBSET (Root \X File)]
  BY <1>1, <1>4, <1>5, DirtiedType
<1> HIDE DEF found, written, rest, roots, r
<1>8. next \in CallType
  <2>1. "log" \in Phases
    BY DEF Phases
  <2>2. /\ [k EXCEPT !.pc = "log", !.found = {}, !.todo = roots] \in CallType
        /\ [k EXCEPT !.todo = rest, !.found = found] \in CallType
        /\ [k EXCEPT !.pc = "log", !.found = {}, !.derived = found,
                     !.todo = roots] \in CallType
    BY <1>1, <1>6, <2>1, RouteRecord
  <2>3. QED
    BY <2>2
<1>9. /\ next.pc \in {"index", "log"} /\ next.event = k.event /\ next.op = k.op
      /\ next.todo = roots \/ (next.todo = rest /\ rest # {})
  BY <1>1 DEF CallType
<1> HIDE DEF next, k
<1>10. next.todo # {} /\ next.todo \subseteq RootsOf(next.event) /\ next.op \in 1..ops'
  BY <1>1, <1>2, <1>9 DEF rest, roots
<1>11. Outcome(c, ds # Dir, next)
  BY <1>4 DEF next, k, found, written, rest, roots, r
<1>12. /\ call' \in [Caller -> CallType] /\ faults' \in 0..MaxFaults /\ HoldInv'
  <2>1. PICK failed \in BOOLEAN : failed = (ds # Dir)
    OBVIOUS
  <2>1a. Outcome(c, failed, next)
    BY <1>11, <2>1
  <2>2. next.pc \in Routing => call[c].pc \in Routing /\ next.event = call[c].event
    BY <1>1, <1>9 DEF Routing, k
  <2>3. /\ lock' = lock /\ ops' \in Nat /\ ops <= ops'
        /\ call[c].pc \notin {"idle", "waiting"} /\ next.pc \notin {"idle", "waiting"}
    BY <1>1, <1>9
  <2>4. QED
    BY <1>8, <1>10, <2>1a, <2>2, <2>3, OutcomeHold
<1>13. QED
  BY <1>1, <1>5, <1>7, <1>12 DEF TypeInv, TypeOK

\* The second half of a route, and a rebuild: only stale and dirty change.
LEMMA TellType ==
    ASSUME TypeInv, NEW c \in Caller,
           \/ StageEvent(c) \/ UpdateSearch(c) \/ TellInternal(c)
           \/ Routed(c) \/ RebuildIndexes(c)
    PROVE  TypeInv'
<1>1. /\ TypeOK /\ HoldInv /\ HoldOf(c) /\ ops \in Nat /\ call \in [Caller -> CallType]
      /\ call[c] \in CallType /\ call[c].pc \notin {"idle", "waiting"}
      /\ stale \in SUBSET (Root \X Dir) /\ dirty \in [Sink -> SUBSET (Root \X File)]
  <2>1. TypeOK /\ HoldInv /\ HoldOf(c)
    BY DEF TypeInv, HoldInv
  <2>2. /\ ops \in Nat /\ call \in [Caller -> CallType] /\ call[c] \in CallType
        /\ stale \in SUBSET (Root \X Dir) /\ dirty \in [Sink -> SUBSET (Root \X File)]
    BY <2>1, BoundAssumption DEF TypeOK
  <2>3. call[c].pc \notin {"idle", "waiting"}
    BY DEF StageEvent, UpdateSearch, TellInternal, Routed, RebuildIndexes
  <2>4. QED
    BY <2>1, <2>2, <2>3
<1>2. lock' = lock /\ ops' = ops /\ UNCHANGED <<log, pending, owed, flushAt>>
  BY DEF StageEvent, UpdateSearch, TellInternal, Routed, RebuildIndexes, vault
<1>3. SUFFICES /\ call' \in [Caller -> CallType] /\ faults' \in 0..MaxFaults
               /\ stale' \in SUBSET (Root \X Dir)
               /\ dirty' \in [Sink -> SUBSET (Root \X File)]
               /\ HoldInv'
  BY <1>1, <1>2 DEF TypeInv, TypeOK
<1>4. ASSUME NEW failed \in BOOLEAN, NEW next \in CallType, Outcome(c, failed, next),
             next.pc \in {"locked", "git", "search", "internal", "ending"},
             next.pc \in Routing => call[c].pc \in Routing /\ next.event = call[c].event
      PROVE  call' \in [Caller -> CallType] /\ faults' \in 0..MaxFaults /\ HoldInv'
  <2>1. /\ next.pc \notin {"idle", "waiting"} /\ next.pc \notin {"index", "log"}
        /\ ops' \in Nat /\ ops <= ops' /\ TypeInv
    BY <1>1, <1>2, <1>4
  <2>2. QED
    BY <1>1, <1>2, <1>4, <2>1, OutcomeHold
<1>5. ASSUME NEW s \in Sink, NEW p \in {"search", "internal"}, Tell(c, s, p),
             call[c].pc \in Routing
      PROVE  /\ call' \in [Caller -> CallType] /\ faults' \in 0..MaxFaults /\ HoldInv'
             /\ dirty' \in [Sink -> SUBSET (Root \X File)]
  <2>1. PICK b \in 1..(RootCount + 1) :
          LET told == {f \in call[c].event : f[1] < b}
          IN  /\ dirty' = [dirty EXCEPT ![s] = @ \ told]
              /\ Outcome(c, told # call[c].event, [call[c] EXCEPT !.pc = p])
    BY <1>5 DEF Tell
  <2> DEFINE told == {f \in call[c].event : f[1] < b}
             next == [call[c] EXCEPT !.pc = p]
  <2>2. PICK failed \in BOOLEAN : failed = (told # call[c].event)
    OBVIOUS
  <2>3. Outcome(c, failed, next) /\ dirty' = [dirty EXCEPT ![s] = @ \ told]
    BY <2>1, <2>2
  <2>4. next \in CallType /\ next.pc = p /\ next.event = call[c].event
    <3>1. p \in Phases
      BY DEF Phases
    <3>2. next \in CallType
      BY <1>1, <3>1, RouteRecord
    <3>3. QED
      BY <1>1, <3>2 DEF CallType
  <2> HIDE DEF told, next
  <2>5. call' \in [Caller -> CallType] /\ faults' \in 0..MaxFaults /\ HoldInv'
    BY <1>4, <1>5, <2>3, <2>4
  <2>6. dirty' \in [Sink -> SUBSET (Root \X File)]
    BY <1>1, <2>3
  <2>7. QED
    BY <2>5, <2>6
<1>6. CASE StageEvent(c)
  <2>1. "git" \in Sink /\ Tell(c, "git", "search") /\ call[c].pc \in Routing /\ stale' = stale
    BY <1>6 DEF StageEvent, Routing, Sink
  <2>2. QED
    BY <1>1, <1>5, <2>1
<1>7. CASE UpdateSearch(c)
  <2>1. /\ "search" \in Sink /\ Tell(c, "search", "internal")
        /\ call[c].pc \in Routing /\ stale' = stale
    BY <1>7 DEF UpdateSearch, Routing, Sink
  <2>2. QED
    BY <1>1, <1>5, <2>1
<1>8. CASE TellInternal(c)
  <2> DEFINE f == CHOOSE g \in call[c].derived : TRUE
             next == [call[c] EXCEPT !.derived = @ \ {f}]
  <2>1. PICK told \in SUBSET Sink :
          /\ dirty' = [s \in Sink |-> IF s \in told THEN dirty[s] \ {f} ELSE dirty[s]]
          /\ Outcome(c, told # Sink, next)
    BY <1>8 DEF TellInternal
  <2>2. call[c].pc = "internal" /\ stale' = stale /\ f \in Root \X File
    <3>1. call[c].pc = "internal" /\ stale' = stale /\ call[c].derived # {}
      BY <1>8 DEF TellInternal
    <3>2. call[c].derived \in SUBSET (Root \X File)
      BY <1>1 DEF CallType
    <3>3. QED
      BY <3>1, <3>2
  <2> HIDE DEF f
  <2>3. next \in CallType /\ next.pc = "internal" /\ next.event = call[c].event
    <3>1. {f} \in SUBSET (Root \X File) /\ "internal" \in Phases
      BY <2>2 DEF Phases
    <3>2. next \in CallType
      BY <1>1, <3>1, RouteRecord
    <3>3. QED
      BY <1>1, <2>2, <3>2 DEF CallType
  <2> HIDE DEF next
  <2>4. PICK failed \in BOOLEAN : failed = (told # Sink)
    OBVIOUS
  <2>5. Outcome(c, failed, next) /\ call[c].pc \in Routing
    BY <2>1, <2>2, <2>4 DEF Routing
  <2>6. call' \in [Caller -> CallType] /\ faults' \in 0..MaxFaults /\ HoldInv'
    BY <1>4, <2>3, <2>5
  <2>7. dirty' \in [Sink -> SUBSET (Root \X File)]
    BY <1>1, <2>1
  <2>8. QED
    BY <1>1, <2>2, <2>6, <2>7
<1>9. CASE Routed(c)
  <2>1. /\ call' = [call EXCEPT ![c] = [Idle EXCEPT !.pc = "locked"]]
        /\ UNCHANGED <<stale, dirty, faults>>
    BY <1>9 DEF Routed, vault
  <2>2. /\ [Idle EXCEPT !.pc = "locked"] \in CallType
        /\ [Idle EXCEPT !.pc = "locked"].pc = "locked"
    BY DEF Idle, CallType, Phases, Kinds
  <2>3. /\ call' \in [Caller -> CallType] /\ call'[c].pc = "locked"
        /\ \A d \in Caller \ {c} : call'[d] = call[d]
    BY <1>1, <2>1, <2>2
  <2>4. HoldOf(c)'
    BY <1>1, <1>2, <2>3 DEF HoldOf, Routing
  <2>5. HoldInv'
    BY <1>1, <1>2, <2>3, <2>4, HoldKept
  <2>6. QED
    BY <1>1, <2>1, <2>3, <2>5 DEF TypeOK
<1>10. CASE RebuildIndexes(c)
  <2> DEFINE next == [call[c] EXCEPT !.pc = "ending"]
  <2>1. PICK ds \in Rebuilt :
          LET written == stale \cap (Held(c) \X ds)
          IN  /\ stale' = stale \ written
              /\ dirty' = Dirtied(written)
              /\ Outcome(c, ds # Dir, next)
    BY <1>10 DEF RebuildIndexes
  <2> DEFINE written == stale \cap (Held(c) \X ds)
  <2>2. written \in SUBSET (Root \X File) /\ stale' \in SUBSET (Root \X Dir)
    BY <1>1, <2>1 DEF File
  <2>3. dirty' \in [Sink -> SUBSET (Root \X File)]
    BY <1>1, <2>1, <2>2, DirtiedType
  <2>4. next \in CallType /\ next.pc = "ending"
    <3>1. "ending" \in Phases
      BY DEF Phases
    <3>2. next \in CallType
      BY <1>1, <3>1, RouteRecord
    <3>3. QED
      BY <1>1, <3>2 DEF CallType
  <2>5. PICK failed \in BOOLEAN : failed = (ds # Dir)
    OBVIOUS
  <2>6. Outcome(c, failed, next)
    BY <2>1, <2>5
  <2> HIDE DEF next
  <2>7. call' \in [Caller -> CallType] /\ faults' \in 0..MaxFaults /\ HoldInv'
    BY <1>4, <2>4, <2>6 DEF Routing
  <2>8. QED
    BY <2>2, <2>3, <2>7
<1>11. QED
  BY <1>6, <1>7, <1>8, <1>9, <1>10

\* A record is added to a buffer.
LEMMA BufferedType ==
    ASSUME NEW top \in Nat, NEW r \in Root, NEW op \in 1..top,
           pending[r] \in Seq(1..top)
    PROVE  Buffered(r, op) \in Seq(1..top)
BY DEF Buffered

\* The log step of a route, vault r, whose buffer is ps with the new record.
LEMMA AppendEventFacts ==
    ASSUME TypeInv, NEW c \in Caller, AppendEvent(c)
    PROVE  LET r == Least(call[c].todo)
               ps == Buffered(r, call[c].op)
               roots == RootsOf(call[c].event)
           IN  /\ r \in call[c].todo /\ call[c].todo \subseteq roots /\ roots \subseteq Root
               /\ \A q \in call[c].todo : r <= q
               /\ call[c].op \in 1..ops /\ ps \in Seq(1..ops)
               /\ \E n \in 0..Len(ps), landed \in BOOLEAN : FlushTo(r, ps, n, landed)
               /\ \A d \in Caller \ {c} : call'[d] = call[d]
               /\ \/ /\ call'[c].pc = "log" /\ call'[c].todo = call[c].todo \ {r}
                     /\ call'[c].op = call[c].op /\ call'[c].event = call[c].event
                     /\ owed' = owed
                  \/ /\ call'[c].pc = "git"
                     /\ \A q \in Root : owed'[q] = IF q \in roots
                                                  THEN owed[q] \cup {call[c].op}
                                                  ELSE owed[q]
               /\ call[c].pc = "log" /\ ops' = ops /\ TypeInv'
<1>1. /\ TypeOK /\ HoldInv /\ HoldOf(c) /\ ops \in Nat
      /\ call[c] \in CallType /\ call[c].pc = "log" /\ lock' = lock /\ ops' = ops
      /\ stale' = stale /\ flushAt' = flushAt
  <2>1. TypeOK /\ HoldInv /\ HoldOf(c)
    BY DEF TypeInv, HoldInv
  <2>2. ops \in Nat /\ call[c] \in CallType
    BY <2>1, BoundAssumption DEF TypeOK
  <2>3. QED
    BY <2>1, <2>2 DEF AppendEvent
<1> DEFINE k == call[c]
           r == Least(k.todo)
           rest == k.todo \ {r}
           roots == RootsOf(k.event)
           ps == Buffered(r, k.op)
           found == k.found \cup FlushEvents(r)
<1>2. /\ k.todo # {} /\ k.todo \subseteq roots /\ roots \subseteq Root
      /\ k.op \in 1..ops /\ k.found \in SUBSET (Root \X File)
  <2>1. k.event \in SUBSET (Root \X File) /\ k.found \in SUBSET (Root \X File)
    BY <1>1 DEF CallType
  <2>2. roots \subseteq Root
    BY <2>1, RootsOfFiles
  <2>3. QED
    BY <1>1, <2>1, <2>2 DEF HoldOf
<1>3. r \in k.todo /\ r \in Root /\ \A q \in k.todo : r <= q
  <2>1. k.todo \subseteq Nat
    BY <1>2, RootsAreNat
  <2>2. QED
    BY <1>2, <2>1, LeastIsMember
<1>4. PICK n \in 0..Len(ps), landed \in BOOLEAN :
        /\ FlushTo(r, ps, n, landed)
        /\ Outcome(c, n # Len(ps),
            IF n # Len(ps)
            THEN [k EXCEPT !.pc = "git", !.found = {}, !.todo = {}]
            ELSE IF rest # {}
            THEN [k EXCEPT !.todo = rest, !.found = found]
            ELSE [k EXCEPT !.pc = "git", !.found = {}, !.todo = {},
                           !.derived = @ \cup found])
        /\ owed' = IF n = Len(ps) /\ rest # {} THEN owed
                   ELSE [q \in Root |-> IF q \in roots THEN owed[q] \cup {k.op}
                                        ELSE owed[q]]
  BY DEF AppendEvent
<1> DEFINE next == IF n # Len(ps)
                   THEN [k EXCEPT !.pc = "git", !.found = {}, !.todo = {}]
                   ELSE IF rest # {}
                   THEN [k EXCEPT !.todo = rest, !.found = found]
                   ELSE [k EXCEPT !.pc = "git", !.found = {}, !.todo = {},
                                  !.derived = @ \cup found]
<1>5. ps \in Seq(1..ops)
  <2>1. pending[r] \in Seq(1..ops)
    BY <1>1, <1>3 DEF TypeOK
  <2>2. QED
    BY <1>1, <1>2, <1>3, <2>1, BufferedType
<1>6. found \in SUBSET (Root \X File) /\ rest \in SUBSET Root /\ {} \in SUBSET Root
  BY <1>2, <1>3 DEF FlushEvents, File
<1> HIDE DEF found, rest, roots, ps, r
<1>7. /\ log' \in [Root -> Seq(1..ops)] /\ pending' \in [Root -> Seq(1..ops)]
      /\ dirty' \in [Sink -> SUBSET (Root \X File)]
  BY <1>1, <1>3, <1>4, <1>5, FlushFacts
<1>8. owed' \in [Root -> SUBSET (1..ops)]
  <2>1. owed \in [Root -> SUBSET (1..ops)]
    BY <1>1 DEF TypeOK
  <2>2. QED
    BY <1>2, <1>4, <2>1
<1>9. next \in CallType
  <2>1. "git" \in Phases
    BY DEF Phases
  <2>2. /\ [k EXCEPT !.pc = "git", !.found = {}, !.todo = {}] \in CallType
        /\ [k EXCEPT !.todo = rest, !.found = found] \in CallType
        /\ [k EXCEPT !.pc = "git", !.found = {}, !.todo = {}, !.derived = @ \cup found]
             \in CallType
    BY <1>1, <1>6, <2>1, RouteRecord
  <2>3. QED
    BY <2>2
<1>10. /\ next.event = k.event /\ next.op = k.op
       /\ next.pc = "git" \/ (next.pc = "log" /\ next.todo = rest /\ rest # {})
  BY <1>1 DEF CallType
<1> HIDE DEF next, k
<1>11. /\ next.pc \in {"index", "log"} =>
            /\ next.todo # {} /\ next.todo \subseteq RootsOf(next.event)
            /\ next.op \in 1..ops'
       /\ next.pc \notin {"idle", "waiting"} /\ call[c].pc \notin {"idle", "waiting"}
       /\ next.pc \in Routing => call[c].pc \in Routing /\ next.event = call[c].event
  BY <1>1, <1>2, <1>10 DEF rest, roots, Routing, k
<1>12. PICK failed \in BOOLEAN : failed = (n # Len(ps))
  OBVIOUS
<1>13. Outcome(c, failed, next)
  BY <1>4, <1>12 DEF next
<1>14. call' \in [Caller -> CallType] /\ faults' \in 0..MaxFaults /\ HoldInv'
  BY <1>1, <1>9, <1>11, <1>13, OutcomeHold
<1>15. TypeInv'
  BY <1>1, <1>7, <1>8, <1>14 DEF TypeInv, TypeOK
<1>16. /\ \A d \in Caller \ {c} : call'[d] = call[d]
       /\ call'[c].pc = next.pc /\ call'[c].todo = next.todo
       /\ call'[c].op = next.op /\ call'[c].event = next.event
  BY <1>1, <1>9, <1>13, OutcomeFacts
<1>17. \/ /\ next.pc = "log" /\ next.todo = rest /\ owed' = owed
       \/ /\ next.pc = "git"
          /\ \A q \in Root : owed'[q] = IF q \in roots THEN owed[q] \cup {k.op} ELSE owed[q]
  <2>1. k \in CallType /\ k.pc = "log"
    BY <1>1 DEF k
  <2>2. CASE n = Len(ps) /\ rest # {}
    <3>1. next = [k EXCEPT !.todo = rest, !.found = found]
      BY <2>2 DEF next
    <3>2. QED
      BY <1>4, <2>1, <2>2, <3>1 DEF CallType
  <2>3. CASE ~(n = Len(ps) /\ rest # {})
    <3>1. next.pc = "git"
      BY <2>1, <2>3 DEF next, CallType
    <3>2. owed' = [q \in Root |-> IF q \in roots THEN owed[q] \cup {k.op} ELSE owed[q]]
      BY <1>4, <2>3
    <3>3. QED
      BY <3>1, <3>2
  <2>4. QED
    BY <2>2, <2>3
<1>18. \/ /\ call'[c].pc = "log" /\ call'[c].todo = rest
          /\ call'[c].op = k.op /\ call'[c].event = k.event /\ owed' = owed
       \/ /\ call'[c].pc = "git"
          /\ \A q \in Root : owed'[q] = IF q \in roots THEN owed[q] \cup {k.op} ELSE owed[q]
  BY <1>10, <1>16, <1>17
<1>19. QED
  BY <1>1, <1>2, <1>3, <1>4, <1>5, <1>15, <1>16, <1>18 DEF k, ps, rest, roots, r

\* A manual entry in the one vault of its call.
LEMMA AppendManualFacts ==
    ASSUME TypeInv, NEW c \in Caller, AppendManual(c)
    PROVE  LET r == Least(Held(c))
               ps == Buffered(r, NextOp)
           IN  /\ r \in Root /\ lock[r] = c /\ NextOp = ops + 1 /\ ops' = ops + 1
               /\ NextOp \in 1..ops' /\ ops' \in Nat /\ ps \in Seq(1..ops')
               /\ \E n \in 0..Len(ps), landed \in BOOLEAN : FlushTo(r, ps, n, landed)
               /\ call'[c].pc = "ending" /\ \A d \in Caller \ {c} : call'[d] = call[d]
               /\ \A q \in Root : owed'[q] = IF q = r THEN owed[q] \cup {NextOp} ELSE owed[q]
               /\ TypeInv'
<1>1. /\ TypeOK /\ HoldInv /\ HoldOf(c) /\ ops \in Nat /\ ops < MaxOps /\ MaxOps \in Nat
      /\ call[c] \in CallType /\ call[c].pc = "locked" /\ lock' = lock /\ ops' = ops + 1
      /\ stale' = stale /\ flushAt' = flushAt
  <2>1. TypeOK /\ HoldInv /\ HoldOf(c)
    BY DEF TypeInv, HoldInv
  <2>2. ops \in Nat /\ MaxOps \in Nat /\ call[c] \in CallType
    BY <2>1, BoundAssumption DEF TypeOK
  <2>3. QED
    BY <2>1, <2>2 DEF AppendManual
<1> DEFINE r == Least(Held(c))
           ps == Buffered(r, NextOp)
           next == [call[c] EXCEPT !.pc = "ending"]
<1>2. r \in Root /\ lock[r] = c
  <2>1. Held(c) # {} /\ Held(c) \subseteq Nat
    BY <1>1, RootsAreNat DEF HoldOf, Held
  <2>2. r \in Held(c)
    BY <2>1, LeastIsMember
  <2>3. QED
    BY <2>2 DEF Held
<1>3. NextOp = ops + 1 /\ NextOp \in 1..ops' /\ ops' \in 0..MaxOps /\ ops' \in Nat /\ ops <= ops'
  BY <1>1 DEF NextOp
<1>4. PICK n \in 0..Len(ps), landed \in BOOLEAN :
        /\ FlushTo(r, ps, n, landed)
        /\ Outcome(c, n # Len(ps), next)
        /\ owed' = [owed EXCEPT ![r] = @ \cup {NextOp}]
  BY DEF AppendManual
<1>5. ps \in Seq(1..ops')
  <2>1. pending[r] \in Seq(1..ops')
    BY <1>1, <1>2, <1>3, SeqGrows DEF TypeOK
  <2>2. QED
    BY <1>2, <1>3, <2>1, BufferedType
<1> HIDE DEF r, ps
<1>6. /\ log' \in [Root -> Seq(1..ops')] /\ pending' \in [Root -> Seq(1..ops')]
      /\ dirty' \in [Sink -> SUBSET (Root \X File)]
  BY <1>1, <1>2, <1>3, <1>4, <1>5, FlushFacts
<1>7. owed' \in [Root -> SUBSET (1..ops')]
  <2>1. owed \in [Root -> SUBSET (1..ops)] /\ 1..ops \subseteq 1..ops'
    BY <1>1, <1>3 DEF TypeOK
  <2>2. QED
    BY <1>3, <1>4, <2>1
<1>8. next \in CallType /\ next.pc = "ending"
  <2>1. "ending" \in Phases
    BY DEF Phases
  <2>2. next \in CallType
    BY <1>1, <2>1, RouteRecord
  <2>3. QED
    BY <1>1, <2>2 DEF CallType
<1> HIDE DEF next
<1>9. PICK failed \in BOOLEAN : failed = (n # Len(ps))
  OBVIOUS
<1>10. Outcome(c, failed, next)
  BY <1>4, <1>9
<1>11. call' \in [Caller -> CallType] /\ faults' \in 0..MaxFaults /\ HoldInv'
  BY <1>1, <1>3, <1>8, <1>10, OutcomeHold DEF Routing
<1>12. call'[c].pc = "ending" /\ \A d \in Caller \ {c} : call'[d] = call[d]
  BY <1>1, <1>8, <1>10, OutcomeFacts
<1>13. TypeInv'
  BY <1>1, <1>3, <1>6, <1>7, <1>11 DEF TypeInv, TypeOK
<1>14. \A q \in Root : owed'[q] = IF q = r THEN owed[q] \cup {NextOp} ELSE owed[q]
  BY <1>1, <1>2, <1>4 DEF TypeOK
<1>15. QED
  BY <1>1, <1>2, <1>3, <1>4, <1>5, <1>12, <1>13, <1>14 DEF r, ps

\* The last flush of one vault.
LEMMA FlushLogFacts ==
    ASSUME TypeInv, FlushLog
    PROVE  /\ flushAt \in Root /\ pending[flushAt] \in Seq(1..ops) /\ ops \in Nat
           /\ \E n \in 0..Len(pending[flushAt]), landed \in BOOLEAN :
                FlushTo(flushAt, pending[flushAt], n, landed)
           /\ UNCHANGED <<lock, call, stale, owed, ops>>
           /\ TypeInv'
<1>1. /\ TypeOK /\ HoldInv /\ flushAt \in Root /\ UNCHANGED <<lock, call, stale, owed, ops>>
      /\ flushAt' = flushAt + 1
  BY DEF TypeInv, FlushLog
<1>2. ops \in Nat /\ pending[flushAt] \in Seq(1..ops)
  BY <1>1, BoundAssumption DEF TypeOK
<1>3. PICK n \in 0..Len(pending[flushAt]), landed \in BOOLEAN :
        /\ FlushTo(flushAt, pending[flushAt], n, landed)
        /\ n # Len(pending[flushAt]) => faults < MaxFaults
        /\ faults' = IF n # Len(pending[flushAt]) THEN faults + 1 ELSE faults
  BY DEF FlushLog
<1>4. /\ log' \in [Root -> Seq(1..ops)] /\ pending' \in [Root -> Seq(1..ops)]
      /\ dirty' \in [Sink -> SUBSET (Root \X File)]
  BY <1>1, <1>2, <1>3, FlushFacts
<1>5. faults' \in 0..MaxFaults /\ flushAt' \in 0..(RootCount + 1)
  <2>1. faults \in 0..MaxFaults
    BY <1>1 DEF TypeOK
  <2>2. QED
    BY <1>1, <1>3, <2>1, BoundAssumption DEF Root
<1>6. HoldInv'
  BY <1>1 DEF HoldInv, HoldOf
<1>7. TypeInv'
  BY <1>1, <1>4, <1>5, <1>6 DEF TypeInv, TypeOK
<1>8. QED
  BY <1>1, <1>2, <1>3, <1>7

\* No new calls: nothing else changes.
LEMMA ShutdownType ==
    ASSUME TypeInv, Shutdown
    PROVE  TypeInv'
<1>1. /\ TypeOK /\ HoldInv /\ flushAt' = 1
      /\ UNCHANGED <<lock, call, stale, log, pending, dirty, owed, ops, faults>>
  BY DEF TypeInv, Shutdown, vault
<1>2. flushAt' \in 0..(RootCount + 1)
  BY <1>1, BoundAssumption
<1>3. QED
  BY <1>1, <1>2 DEF TypeInv, TypeOK, HoldInv, HoldOf

\* Every step keeps types and locks.
LEMMA NextType == TypeInv /\ [Next]_vars => TypeInv'
<1> SUFFICES ASSUME TypeInv, [Next]_vars PROVE TypeInv'
  OBVIOUS
<1>1. ASSUME NEW c \in Caller, Step(c) PROVE TypeInv'
  <2>1. CASE Begin(c) \/ Lock(c) \/ Finish(c) \/ Dropped(c)
    BY <2>1, LockingType
  <2>2. CASE Mutate(c) \/ ClearIndex(c)
    BY <2>2, MutationType
  <2>3. CASE Reconcile(c)
    BY <2>3, ReconcileType
  <2>4. CASE \/ StageEvent(c) \/ UpdateSearch(c) \/ TellInternal(c)
             \/ Routed(c) \/ RebuildIndexes(c)
    BY <2>4, TellType
  <2>5. CASE AppendEvent(c)
    BY <2>5, AppendEventFacts
  <2>6. CASE AppendManual(c)
    BY <2>6, AppendManualFacts
  <2>7. QED
    BY <1>1, <2>1, <2>2, <2>3, <2>4, <2>5, <2>6 DEF Step
<1>2. CASE Shutdown
  BY <1>2, ShutdownType
<1>3. CASE FlushLog
  BY <1>3, FlushLogFacts
<1>4. CASE UNCHANGED vars
  BY <1>4 DEF vars, TypeInv, TypeOK, HoldInv, HoldOf
<1>5. QED
  BY <1>1, <1>2, <1>3, <1>4 DEF Next

\* Types and locks are as they should be in every reachable state.
LEMMA TypeInvHolds == Spec => []TypeInv
BY InitType, NextType, PTL DEF Spec

\* The variables of the pipeline keep their types, for any number of vaults and
\* calls and any bounds.
THEOREM WriteTypeCorrect == Spec => []TypeOK
<1>1. TypeInv => TypeOK
  BY DEF TypeInv
<1>2. QED
  BY <1>1, TypeInvHolds, PTL

-----------------------------------------------------------------------------
(* Nobody is stuck: a call that waits for another holds only vaults below   *)
(* the one it needs, so the call that needs the highest can go on.          *)

\* The vault a waiting call needs next is above all those it holds.
LEMMA Wanted ==
    ASSUME TypeInv, NEW c \in Caller, call[c].pc = "waiting"
    PROVE  LET r == NextRoot(call[c].ask, Held(c))
           IN  /\ r \in Root /\ lock[r] # c
               /\ \A q \in Root : lock[q] = c => q < r
<1> DEFINE ask == call[c].ask
           S == Elements(ask) \ Held(c)
<1>1. /\ ask \in Request /\ \A q \in Root : lock[q] = c => q \in Elements(ask)
      /\ \E q \in Elements(ask) : lock[q] # c
      /\ \A p, q \in Elements(ask) : lock[p] = c /\ lock[q] # c => p < q
  BY DEF TypeInv, HoldInv, HoldOf
<1>2. Elements(ask) \subseteq Root /\ S # {} /\ S \subseteq Nat
  <2>1. Elements(ask) \subseteq Root
    BY <1>1, RequestNames
  <2>2. QED
    BY <1>1, <2>1, RootsAreNat DEF Held
<1>3. Least(S) \in S
  <2> HIDE DEF S
  <2> QED BY <1>2, LeastIsMember
<1>4. QED
  BY <1>1, <1>2, <1>3 DEF NextRoot, Held

\* Of all calls that wait, the one that wants the highest vault finds it free.
LEMMA StuckNobody == TypeInv => NobodyIsStuck
<1> SUFFICES ASSUME TypeInv, NEW c0 \in Caller, call[c0].pc # "idle"
             PROVE  \E c \in Caller :
                      \/ call[c].pc \notin {"idle", "waiting"}
                      \/ call[c].pc = "waiting" /\ Free(NextRoot(call[c].ask, Held(c)))
  BY DEF NobodyIsStuck
<1> DEFINE W == {c \in Caller : call[c].pc = "waiting"}
           N(c) == NextRoot(call[c].ask, Held(c))
           D == {RootCount - N(c) : c \in W}
<1>1. CASE \E c \in Caller : call[c].pc \notin {"idle", "waiting"}
  BY <1>1
<1>2. CASE \A c \in Caller : call[c].pc \in {"idle", "waiting"}
  <2>1. /\ W # {}
        /\ \A c \in W : /\ N(c) \in Root /\ lock[N(c)] # c
                        /\ \A q \in Root : lock[q] = c => q < N(c)
    BY <1>2, Wanted
  <2> HIDE DEF N
  <2>2. D # {} /\ D \subseteq Nat
    BY <2>1, BoundAssumption DEF Root
  <2>3. PICK c \in W : RootCount - N(c) = Least(D)
    <3> HIDE DEF D, W
    <3>1. Least(D) \in D
      BY <2>2, LeastIsMember
    <3>2. QED
      BY <3>1 DEF D
  <2>4. \A d \in W : N(d) <= N(c)
    <3>1. SUFFICES ASSUME NEW d \in W PROVE N(d) <= N(c)
      OBVIOUS
    <3>2. RootCount - N(d) \in D
      OBVIOUS
    <3>3. Least(D) <= RootCount - N(d)
      <4> HIDE DEF D, W
      <4>1. QED
        BY <2>2, <3>2, LeastIsMember
    <3>4. QED
      BY <2>1, <2>3, <3>3, BoundAssumption DEF Root
  <2>5. lock[N(c)] = Nil
    <3>1. SUFFICES ASSUME lock[N(c)] # Nil PROVE FALSE
      OBVIOUS
    <3>2. PICK d \in Caller : lock[N(c)] = d
      BY <2>1, <3>1 DEF TypeInv, TypeOK
    <3>3. call[d].pc # "idle"
      BY <2>1, <3>2 DEF TypeInv, HoldInv, HoldOf
    <3>4. d \in W
      BY <1>2, <3>3
    <3>5. N(c) < N(d) /\ N(d) <= N(c) /\ N(c) \in Nat /\ N(d) \in Nat
      BY <2>1, <2>4, <3>2, <3>4, RootsAreNat
    <3>6. QED
      BY <3>5
  <2>6. QED
    BY <2>5 DEF N, Free
<1>3. QED
  BY <1>1, <1>2

\* However many calls wait for however many vaults, one of them can go on: the
\* sorted order of lock_roots rules a deadlock out.
THEOREM WritersNeverDeadlock == Spec => []NobodyIsStuck
BY StuckNobody, TypeInvHolds, PTL

-----------------------------------------------------------------------------
(* The order of a vault's log.                                              *)

\* A record not older than any there is added at the end.
LEMMA SortedAppend ==
    ASSUME NEW lg \in Seq(Nat), NEW ps \in Seq(Nat), NEW op \in Nat,
           Sorted(lg \o ps), \A k \in Elements(lg) \cup Elements(ps) : k <= op
    PROVE  Sorted(lg \o Append(ps, op))
<1> DEFINE s == lg \o ps
           t == lg \o Append(ps, op)
<1>1. /\ s \in Seq(Nat) /\ Len(s) = Len(lg) + Len(ps) /\ Len(lg) \in Nat /\ Len(ps) \in Nat
      /\ \A i \in 1..(Len(lg) + Len(ps)) :
            s[i] = IF i <= Len(lg) THEN lg[i] ELSE ps[i - Len(lg)]
  BY ConcatProperties
<1>2. /\ Append(ps, op) \in Seq(Nat) /\ Len(Append(ps, op)) = Len(ps) + 1
      /\ \A i \in 1..Len(ps) : Append(ps, op)[i] = ps[i]
      /\ Append(ps, op)[Len(ps) + 1] = op
  OBVIOUS
<1>3. /\ Len(t) = Len(lg) + Len(ps) + 1
      /\ \A i \in 1..(Len(lg) + Len(ps) + 1) :
            t[i] = IF i <= Len(lg) THEN lg[i] ELSE Append(ps, op)[i - Len(lg)]
  <2> DEFINE u == Append(ps, op)
  <2>1. u \in Seq(Nat) /\ Len(u) = Len(ps) + 1
    BY <1>2
  <2> HIDE DEF u
  <2>2. /\ Len(lg \o u) = Len(lg) + Len(u)
        /\ \A i \in 1..(Len(lg) + Len(u)) :
              (lg \o u)[i] = IF i <= Len(lg) THEN lg[i] ELSE u[i - Len(lg)]
    BY <2>1, ConcatProperties
  <2>3. Len(lg) + Len(u) = Len(lg) + Len(ps) + 1
    BY <1>1, <2>1
  <2>4. QED
    BY <2>2, <2>3 DEF u
<1> HIDE DEF s, t
<1>4. \A i \in 1..Len(s) : t[i] = s[i] /\ s[i] <= op
  <2>1. SUFFICES ASSUME NEW i \in 1..Len(s) PROVE t[i] = s[i] /\ s[i] <= op
    OBVIOUS
  <2>2. CASE i <= Len(lg)
    <3>1. i \in 1..Len(lg) /\ s[i] = lg[i] /\ t[i] = lg[i]
      BY <2>1, <2>2, <1>1, <1>3
    <3>2. lg[i] \in Elements(lg)
      BY <3>1 DEF Elements
    <3>3. QED
      BY <3>1, <3>2
  <2>3. CASE ~(i <= Len(lg))
    <3>1. i - Len(lg) \in 1..Len(ps)
      BY <2>1, <2>3, <1>1
    <3>2. s[i] = ps[i - Len(lg)] /\ t[i] = Append(ps, op)[i - Len(lg)]
      BY <2>1, <2>3, <1>1, <1>3
    <3>3. ps[i - Len(lg)] \in Elements(ps)
      BY <3>1 DEF Elements
    <3>4. QED
      BY <3>1, <3>2, <3>3, <1>2
  <2>4. QED
    BY <2>2, <2>3
<1>5. t[Len(s) + 1] = op /\ Len(t) = Len(s) + 1 /\ Len(s) \in Nat
  <2>1. /\ Len(s) + 1 \in 1..(Len(lg) + Len(ps) + 1) /\ ~(Len(s) + 1 <= Len(lg))
        /\ (Len(s) + 1) - Len(lg) = Len(ps) + 1
    BY <1>1
  <2>2. t[Len(s) + 1] = Append(ps, op)[Len(ps) + 1]
    BY <2>1, <1>3
  <2>3. t[Len(s) + 1] = op
    BY <2>2, <1>2
  <2>4. Len(t) = Len(s) + 1 /\ Len(s) \in Nat
    BY <1>1, <1>3
  <2>5. QED
    BY <2>3, <2>4
<1>6. ASSUME NEW i \in 1..Len(t), NEW j \in 1..Len(t), i < j PROVE t[i] <= t[j]
  <2>1. i \in 1..Len(s)
    BY <1>5, <1>6
  <2>2. CASE j \in 1..Len(s)
    BY <1>4, <1>6, <2>1, <2>2 DEF Sorted, s
  <2>3. CASE j \notin 1..Len(s)
    <3>1. j = Len(s) + 1
      BY <1>5, <2>3
    <3>2. QED
      BY <1>4, <1>5, <2>1, <3>1
  <2>4. QED
    BY <2>2, <2>3
<1>7. QED
  BY <1>6 DEF Sorted, t

\* The records of a buffer and one more.
LEMMA AppendElements ==
    ASSUME NEW ps \in Seq(Nat), NEW op \in Nat
    PROVE  Elements(Append(ps, op)) = Elements(ps) \cup {op}
<1> DEFINE u == Append(ps, op)
<1>1. /\ Len(u) = Len(ps) + 1 /\ Len(ps) \in Nat /\ u[Len(ps) + 1] = op
      /\ \A i \in 1..Len(ps) : u[i] = ps[i]
  OBVIOUS
<1> HIDE DEF u
<1>2. \A i \in 1..Len(u) : i \in 1..Len(ps) \/ i = Len(ps) + 1
  BY <1>1
<1>3. ASSUME NEW x \in Elements(u) PROVE x \in Elements(ps) \cup {op}
  BY <1>1, <1>2 DEF Elements
<1>4. ASSUME NEW x \in Elements(ps) PROVE x \in Elements(u)
  <2>1. PICK i \in 1..Len(ps) : x = ps[i]
    BY <1>4 DEF Elements
  <2>2. i \in 1..Len(u) /\ x = u[i]
    BY <1>1, <2>1
  <2>3. QED
    BY <2>2 DEF Elements
<1>5. op \in Elements(u)
  <2>1. Len(ps) + 1 \in 1..Len(u)
    BY <1>1
  <2>2. QED
    BY <1>1, <2>1 DEF Elements
<1>6. QED
  BY <1>3, <1>4, <1>5 DEF u

\* Steps that leave log and buffers alone.
LEMMA QuietStep ==
    ASSUME TypeInv, NEW c \in Caller, Step(c), ~AppendEvent(c), ~AppendManual(c)
    PROVE  /\ UNCHANGED <<log, pending, owed>>
           /\ \A d \in Caller \ {c} : call'[d] = call[d]
           /\ \/ call'[c].pc \notin {"index", "log"}
              \/ /\ call'[c].pc = "index" /\ call'[c].op = ops + 1
              \/ /\ call'[c].pc \in {"index", "log"} /\ call[c].pc = "index"
                 /\ call'[c].event = call[c].event /\ call'[c].op = call[c].op
                 /\ call'[c].pc = "log" => call'[c].todo = RootsOf(call[c].event)
<1>1. call \in [Caller -> CallType]
  BY DEF TypeInv, TypeOK
<1>2. UNCHANGED <<log, pending, owed>>
  BY DEF Step, Begin, Lock, Finish, Dropped, Mutate, ClearIndex, RebuildIndexes, Reconcile,
         StageEvent, UpdateSearch, TellInternal, Routed, vault
<1>3. ASSUME NEW new, call' = [call EXCEPT ![c] = new]
      PROVE  call'[c] = new /\ \A d \in Caller \ {c} : call'[d] = call[d]
  BY <1>1, <1>3
<1>4. CASE Begin(c) \/ Finish(c) \/ Dropped(c) \/ Routed(c)
  <2>1. PICK new : call' = [call EXCEPT ![c] = new] /\ new.pc \notin {"index", "log"}
    <3>1. CASE Begin(c)
      <4>1. PICK ask, kind :
              call' = [call EXCEPT ![c] = [Idle EXCEPT !.pc = "waiting",
                                                       !.kind = kind, !.ask = ask]]
        BY <3>1 DEF Begin
      <4>2. [Idle EXCEPT !.pc = "waiting", !.kind = kind, !.ask = ask].pc = "waiting"
        BY DEF Idle
      <4>3. QED
        BY <4>1, <4>2
    <3>2. CASE Routed(c)
      <4>1. [Idle EXCEPT !.pc = "locked"].pc = "locked"
        BY DEF Idle
      <4>2. QED
        BY <3>2, <4>1 DEF Routed
    <3>3. CASE Finish(c) \/ Dropped(c)
      <4>1. call' = [call EXCEPT ![c] = Idle] /\ Idle.pc = "idle"
        BY <3>3 DEF Finish, Dropped, Idle
      <4>2. QED
        BY <4>1
    <3>4. QED
      BY <1>4, <3>1, <3>2, <3>3
  <2>2. QED
    BY <1>2, <1>3, <2>1
<1>5. CASE Lock(c)
  <2>1. CASE call' = call
    <3>1. call[c].pc = "waiting"
      BY <1>5 DEF Lock
    <3>2. QED
      BY <1>2, <2>1, <3>1
  <2>2. CASE call' # call
    <3>1. call' = [call EXCEPT ![c] = [call[c] EXCEPT !.pc = "locked", !.ask = << >>]]
      BY <1>1, <1>5, <2>2 DEF Lock
    <3>2. [call[c] EXCEPT !.pc = "locked", !.ask = << >>].pc = "locked"
      BY <1>1 DEF CallType
    <3>3. QED
      BY <1>2, <1>3, <3>1, <3>2
  <2>3. QED
    BY <2>1, <2>2
<1>6. CASE Mutate(c)
  <2>1. PICK rs : call' = [call EXCEPT ![c] = Mutated(call[c], rs \X {"note"}, rs, NextOp)]
    <3>1. PICK rs : call' = [call EXCEPT ![c].pc = "index", ![c].event = rs \X {"note"},
                                         ![c].todo = rs, ![c].op = NextOp, ![c].clean = TRUE]
      BY <1>6 DEF Mutate
    <3>2. call' = [call EXCEPT ![c] = Mutated(call[c], rs \X {"note"}, rs, NextOp)]
      BY <1>1, <3>1 DEF Mutated
    <3>3. QED
      BY <3>2
  <2>2. /\ Mutated(call[c], rs \X {"note"}, rs, NextOp).pc = "index"
        /\ Mutated(call[c], rs \X {"note"}, rs, NextOp).op = ops + 1
    <3>1. call[c] \in CallType
      BY <1>1
    <3>2. QED
      BY <3>1 DEF Mutated, CallType, NextOp
  <2>3. QED
    BY <1>2, <1>3, <2>1, <2>2
<1>7. CASE ClearIndex(c)
  <2>1. PICK fs : call' = [call EXCEPT ![c] = Cleared(call[c], fs)]
    <3>1. PICK fs : call' = [call EXCEPT ![c].pc = "git", ![c].event = fs,
                                         ![c].op = 0, ![c].clean = TRUE]
      BY <1>7 DEF ClearIndex
    <3>2. call' = [call EXCEPT ![c] = Cleared(call[c], fs)]
      BY <1>1, <3>1 DEF Cleared
    <3>3. QED
      BY <3>2
  <2>2. Cleared(call[c], fs).pc = "git"
    <3>1. call[c] \in CallType
      BY <1>1
    <3>2. QED
      BY <3>1 DEF Cleared, CallType
  <2>3. QED
    BY <1>2, <1>3, <2>1, <2>2
<1>8. ASSUME NEW failed, NEW next, Outcome(c, failed, next), next.pc \in Phases,
             DOMAIN next = DOMAIN call[c]
      PROVE  /\ call'[c].pc = next.pc /\ call'[c].event = next.event
             /\ call'[c].op = next.op /\ call'[c].todo = next.todo
             /\ \A d \in Caller \ {c} : call'[d] = call[d]
  <2> DEFINE new == [next EXCEPT !.clean = @ /\ ~failed]
  <2>1. /\ new.pc = next.pc /\ new.event = next.event
        /\ new.op = next.op /\ new.todo = next.todo
    BY <1>1, <1>8 DEF CallType
  <2>2. call' = [call EXCEPT ![c] = new]
    BY <1>8 DEF Outcome
  <2> HIDE DEF new
  <2>3. QED
    BY <1>3, <2>1, <2>2
<1>9. CASE Reconcile(c)
  <2> DEFINE k == call[c]
             roots == RootsOf(k.event)
  <2>1. PICK failed, fs, t :
          \/ Outcome(c, failed, [k EXCEPT !.pc = "log", !.found = {}, !.todo = roots])
          \/ Outcome(c, failed, [k EXCEPT !.todo = t, !.found = fs])
          \/ Outcome(c, failed, [k EXCEPT !.pc = "log", !.found = {}, !.derived = fs,
                                          !.todo = roots])
    BY <1>9 DEF Reconcile
  <2>2. k \in CallType /\ k.pc = "index"
    BY <1>1, <1>9 DEF Reconcile
  <2>3. ASSUME NEW next, Outcome(c, failed, next), DOMAIN next = DOMAIN k,
               next.event = k.event, next.op = k.op,
               next.pc = "index" \/ (next.pc = "log" /\ next.todo = roots)
        PROVE  /\ call'[c].pc \in {"index", "log"} /\ call'[c].event = k.event
               /\ call'[c].op = k.op /\ (call'[c].pc = "log" => call'[c].todo = roots)
               /\ \A d \in Caller \ {c} : call'[d] = call[d]
    BY <1>8, <2>3 DEF Phases
  <2>4. PICK next :
          /\ Outcome(c, failed, next) /\ DOMAIN next = DOMAIN k
          /\ next.event = k.event /\ next.op = k.op
          /\ next.pc = "index" \/ (next.pc = "log" /\ next.todo = roots)
    <3> DEFINE n1 == [k EXCEPT !.pc = "log", !.found = {}, !.todo = roots]
               n2 == [k EXCEPT !.todo = t, !.found = fs]
               n3 == [k EXCEPT !.pc = "log", !.found = {}, !.derived = fs, !.todo = roots]
    <3>1. /\ DOMAIN n1 = DOMAIN k /\ DOMAIN n2 = DOMAIN k /\ DOMAIN n3 = DOMAIN k
          /\ n1.event = k.event /\ n2.event = k.event /\ n3.event = k.event
          /\ n1.op = k.op /\ n2.op = k.op /\ n3.op = k.op
          /\ n1.pc = "log" /\ n2.pc = "index" /\ n3.pc = "log"
          /\ n1.todo = roots /\ n3.todo = roots
      BY <2>2 DEF CallType
    <3>2. Outcome(c, failed, n1) \/ Outcome(c, failed, n2) \/ Outcome(c, failed, n3)
      BY <2>1
    <3> HIDE DEF n1, n2, n3
    <3>3. QED
      BY <3>1, <3>2
  <2>5. QED
    BY <1>2, <2>2, <2>3, <2>4
<1>10. CASE RebuildIndexes(c) \/ StageEvent(c) \/ UpdateSearch(c) \/ TellInternal(c)
  <2>1. PICK failed, next :
          /\ Outcome(c, failed, next) /\ DOMAIN next = DOMAIN call[c]
          /\ next.pc \in {"ending", "search", "internal"}
    <3>1. call[c] \in CallType
      BY <1>1
    <3>2. CASE RebuildIndexes(c)
      <4>1. \E failed : Outcome(c, failed, [call[c] EXCEPT !.pc = "ending"])
        BY <3>2 DEF RebuildIndexes
      <4>2. QED
        BY <3>1, <4>1 DEF CallType
    <3>3. CASE StageEvent(c)
      <4>1. \E failed : Outcome(c, failed, [call[c] EXCEPT !.pc = "search"])
        BY <3>3 DEF StageEvent, Tell
      <4>2. QED
        BY <3>1, <4>1 DEF CallType
    <3>4. CASE UpdateSearch(c)
      <4>1. \E failed : Outcome(c, failed, [call[c] EXCEPT !.pc = "internal"])
        BY <3>4 DEF UpdateSearch, Tell
      <4>2. QED
        BY <3>1, <4>1 DEF CallType
    <3>5. CASE TellInternal(c)
      <4>1. /\ call[c].pc = "internal"
            /\ \E failed, f : Outcome(c, failed, [call[c] EXCEPT !.derived = @ \ {f}])
        BY <3>5 DEF TellInternal
      <4>2. QED
        BY <3>1, <4>1 DEF CallType
    <3>6. QED
      BY <1>10, <3>2, <3>3, <3>4, <3>5
  <2>2. QED
    BY <1>2, <1>8, <2>1 DEF Phases
<1>11. QED
  BY <1>4, <1>5, <1>6, <1>7, <1>9, <1>10 DEF Step

\* Operations known for a vault are among those so far; their order is that of
\* log and buffer together.
LEMMA KnownFacts ==
    ASSUME TypeInv, NEW r \in Root
    PROVE  /\ ops \in Nat /\ log[r] \in Seq(Nat) /\ pending[r] \in Seq(Nat)
           /\ \A op \in Known(r) : op \in 1..ops
<1>1. ops \in Nat /\ log[r] \in Seq(1..ops) /\ pending[r] \in Seq(1..ops)
  BY BoundAssumption DEF TypeInv, TypeOK
<1>2. 1..ops \subseteq Nat
  OBVIOUS
<1>3. \A i \in 1..Len(log[r]) : log[r][i] \in 1..ops
  BY <1>1, ElementOfSeq
<1>4. \A i \in 1..Len(pending[r]) : pending[r][i] \in 1..ops
  BY <1>1, ElementOfSeq
<1>5. QED
  BY <1>1, <1>2, <1>3, <1>4 DEF Known, Elements

\* A routed event's vaults are locked by its call.
LEMMA RoutedVaults ==
    ASSUME TypeInv, NEW c \in Caller, call[c].pc \in {"index", "log"}
    PROVE  /\ RootsOf(call[c].event) \subseteq Root
           /\ \A r \in RootsOf(call[c].event) : lock[r] = c
           /\ Unlogged(c) \subseteq RootsOf(call[c].event)
           /\ call[c].op \in 1..ops
<1>1. RootsOf(call[c].event) \subseteq Root
  BY RootsOfFiles DEF TypeInv, TypeOK, CallType
<1>2. HoldOf(c)
  BY DEF TypeInv, HoldInv
<1>3. QED
  BY <1>1, <1>2 DEF HoldOf, Routing, Unlogged

\* A flush of vault r after which its known operations are new: order and
\* records of the other calls and vaults.
LEMMA FlushKeeps ==
    ASSUME TypeInv, OrderInv, RecordInv, NEW r \in Root, NEW top \in Nat, ops <= top,
           NEW ps \in Seq(1..top), NEW n \in 0..Len(ps), NEW landed \in BOOLEAN,
           FlushTo(r, ps, n, landed), Sorted(log[r] \o ps),
           Elements(pending[r]) \subseteq Elements(ps)
    PROVE  /\ LogInOrder'
           /\ \A q \in Root : Known(q) \subseteq Known(q)'
           /\ \A q \in Root \ {r} : Known(q)' = Known(q)
           /\ Known(r)' = Elements(log[r]) \cup Elements(ps)
<1>1. TypeOK
  BY DEF TypeInv
<1>2. /\ \A q \in Root \ {r} : log'[q] = log[q] /\ pending'[q] = pending[q]
      /\ Elements(log'[r]) \cup Elements(pending'[r]) = Elements(log[r]) \cup Elements(ps)
      /\ Sorted(log'[r] \o pending'[r])
  BY <1>1, FlushFacts
<1>3. /\ \A q \in Root \ {r} : Known(q)' = Known(q)
      /\ Known(r)' = Elements(log[r]) \cup Elements(ps)
  BY <1>2 DEF Known
<1>4. \A q \in Root : Known(q) \subseteq Known(q)'
  BY <1>3 DEF Known
<1>5. \A q \in Root : Sorted(log'[q] \o pending'[q])
  BY <1>2 DEF OrderInv, LogInOrder, Sorted
<1>6. LogInOrder'
  BY <1>5 DEF LogInOrder, Sorted
<1>7. QED
  BY <1>3, <1>4, <1>6

LogInv == OrderInv /\ RecordInv

\* Empty logs and buffers are in order and owe nothing.
LEMMA InitLog == Init => LogInv
<1> SUFFICES ASSUME Init PROVE LogInv
  OBVIOUS
<1>1. \A c \in Caller : call[c].pc = "idle"
  BY DEF Init, Idle
<1>2. \A r \in Root : Len(log[r] \o pending[r]) = 0 /\ owed[r] = {}
  BY DEF Init
<1>3. LogInOrder
  <2>1. \A r \in Root : \A i, j \in 1..Len(log[r] \o pending[r]) : FALSE
    <3>1. SUFFICES ASSUME NEW r \in Root, NEW i \in 1..Len(log[r] \o pending[r]) PROVE FALSE
      OBVIOUS
    <3>2. Len(log[r] \o pending[r]) = 0
      BY <1>2
    <3>3. i \in 1..0
      BY <3>2, Zenon
    <3>4. QED
      BY <3>3
  <2>2. QED
    BY <2>1 DEF LogInOrder
<1>4. QED
  BY <1>1, <1>2, <1>3 DEF LogInv, OrderInv, RecordInv, NewestOf, LoggedOf, OnRecord

\* A step that leaves log and buffers alone.
LEMMA QuietLog ==
    ASSUME TypeInv, LogInv, NEW c \in Caller, Step(c), ~AppendEvent(c), ~AppendManual(c)
    PROVE  LogInv'
<1>1. /\ UNCHANGED <<log, pending, owed>>
      /\ \A d \in Caller \ {c} : call'[d] = call[d]
      /\ \/ call'[c].pc \notin {"index", "log"}
         \/ /\ call'[c].pc = "index" /\ call'[c].op = ops + 1
         \/ /\ call'[c].pc \in {"index", "log"} /\ call[c].pc = "index"
            /\ call'[c].event = call[c].event /\ call'[c].op = call[c].op
            /\ (call'[c].pc = "log" => call'[c].todo = RootsOf(call[c].event))
  BY QuietStep
<1>2. \A r \in Root : Known(r)' = Known(r)
  BY <1>1 DEF Known
<1>3. TypeInv'
  BY NextType DEF Next
<1>4. \A d \in Caller \ {c} : NewestOf(d)' /\ LoggedOf(d)'
  <2>1. SUFFICES ASSUME NEW d \in Caller \ {c} PROVE NewestOf(d)' /\ LoggedOf(d)'
    OBVIOUS
  <2>2. NewestOf(d) /\ LoggedOf(d)
    BY DEF LogInv, OrderInv, RecordInv
  <2>3. QED
    BY <1>1, <2>2 DEF NewestOf, LoggedOf, Unlogged, Known
<1>5. NewestOf(c)'
  <2>1. SUFFICES ASSUME call'[c].pc \in {"index", "log"}, NEW r \in Unlogged(c)',
                        NEW op \in Known(r)'
                 PROVE  op <= call'[c].op
    BY DEF NewestOf
  <2>2. /\ RootsOf(call'[c].event) \subseteq Root
        /\ Unlogged(c)' \subseteq RootsOf(call'[c].event)
    <3>1. call'[c] \in CallType /\ HoldOf(c)'
      BY <1>3 DEF TypeInv, TypeOK, HoldInv
    <3>2. RootsOf(call'[c].event) \subseteq Root
      BY <3>1, RootsOfFiles DEF CallType
    <3>3. QED
      BY <2>1, <3>1, <3>2 DEF HoldOf, Unlogged
  <2>3. r \in Root /\ op \in Known(r)
    BY <1>2, <2>1, <2>2
  <2>4. op \in 1..ops /\ ops \in Nat
    BY <2>3, KnownFacts
  <2>5. CASE call'[c].pc = "index" /\ call'[c].op = ops + 1
    BY <2>4, <2>5
  <2>6. CASE /\ call[c].pc = "index" /\ call'[c].event = call[c].event
             /\ call'[c].op = call[c].op
    <3>1. r \in Unlogged(c)
      BY <2>1, <2>2, <2>6 DEF Unlogged
    <3>2. QED
      BY <2>3, <2>6, <3>1 DEF LogInv, OrderInv, NewestOf
  <2>7. QED
    BY <1>1, <2>1, <2>5, <2>6
<1>6. LoggedOf(c)'
  BY <1>1 DEF LoggedOf
<1>7. LogInOrder' /\ OnRecord'
  <2>1. LogInOrder /\ OnRecord /\ log' = log /\ pending' = pending /\ owed' = owed
    BY <1>1 DEF LogInv, OrderInv, RecordInv
  <2>2. LogInOrder'
    BY <2>1 DEF LogInOrder
  <2>3. OnRecord'
    BY <2>1 DEF OnRecord, Recorded
  <2>4. QED
    BY <2>2, <2>3
<1>8. QED
  BY <1>4, <1>5, <1>6, <1>7 DEF LogInv, OrderInv, RecordInv

\* The other calls, after a flush of a vault they do not hold.
LEMMA OthersLog ==
    ASSUME TypeInv, LogInv, NEW d \in Caller, NEW r \in Root, lock[r] # d,
           call'[d] = call[d], \A q \in Root \ {r} : Known(q)' = Known(q)
    PROVE  NewestOf(d)' /\ LoggedOf(d)'
<1>1. NewestOf(d) /\ LoggedOf(d)
  BY DEF LogInv, OrderInv, RecordInv
<1>2. CASE call[d].pc \in {"index", "log"}
  <2>1. /\ RootsOf(call[d].event) \subseteq Root /\ Unlogged(d) \subseteq RootsOf(call[d].event)
        /\ r \notin RootsOf(call[d].event)
    BY <1>2, RoutedVaults
  <2>2. \A q \in RootsOf(call[d].event) : Known(q)' = Known(q)
    BY <2>1
  <2>3. Unlogged(d)' = Unlogged(d)
    BY DEF Unlogged
  <2>4. QED
    BY <1>1, <2>1, <2>2, <2>3 DEF NewestOf, LoggedOf
<1>3. CASE call[d].pc \notin {"index", "log"}
  BY <1>3 DEF NewestOf, LoggedOf
<1>4. QED
  BY <1>2, <1>3

\* The log step of a route: all records there are older, and the new one is kept.
LEMMA AppendEventLog ==
    ASSUME TypeInv, LogInv, NEW c \in Caller, AppendEvent(c)
    PROVE  LogInv'
<1>a. PICK r \in Root : r = Least(call[c].todo)
  BY AppendEventFacts
<1>b. PICK op \in 1..ops : op = call[c].op
  BY AppendEventFacts
<1>c. PICK roots \in SUBSET Root : roots = RootsOf(call[c].event)
  BY AppendEventFacts
<1>d. PICK ps \in Seq(1..ops) : ps = Buffered(r, op)
  BY AppendEventFacts, <1>a, <1>b
<1>1. /\ op = call[c].op /\ roots = RootsOf(call[c].event) /\ ps = Append(pending[r], op)
      /\ r \in call[c].todo /\ call[c].todo \subseteq roots
      /\ \A q \in call[c].todo : r <= q
      /\ \A d \in Caller \ {c} : call'[d] = call[d]
      /\ \/ /\ call'[c].pc = "log" /\ call'[c].todo = call[c].todo \ {r}
            /\ call'[c].op = op /\ call'[c].event = call[c].event
            /\ owed' = owed
         \/ /\ call'[c].pc = "git"
            /\ \A q \in Root : owed'[q] = IF q \in roots THEN owed[q] \cup {op} ELSE owed[q]
      /\ call[c].pc = "log"
  <2>1. ps = Append(pending[r], op)
    BY <1>d DEF Buffered
  <2>2. /\ r \in call[c].todo /\ call[c].todo \subseteq roots /\ \A q \in call[c].todo : r <= q
        /\ \A d \in Caller \ {c} : call'[d] = call[d]
        /\ call[c].pc = "log"
    BY AppendEventFacts, <1>a, <1>b, <1>c
  <2>3. \/ /\ call'[c].pc = "log" /\ call'[c].todo = call[c].todo \ {r}
           /\ call'[c].op = op /\ call'[c].event = call[c].event
           /\ owed' = owed
        \/ /\ call'[c].pc = "git"
           /\ \A q \in Root : owed'[q] = IF q \in roots THEN owed[q] \cup {op} ELSE owed[q]
    BY AppendEventFacts, <1>a, <1>b, <1>c
  <2>4. QED
    BY <1>b, <1>c, <2>1, <2>2, <2>3
<1>2. PICK n \in 0..Len(ps), landed \in BOOLEAN : FlushTo(r, ps, n, landed)
  BY AppendEventFacts, <1>a, <1>b, <1>d
<1>3. ops \in Nat /\ op \in Nat /\ log[r] \in Seq(Nat) /\ pending[r] \in Seq(Nat)
  BY KnownFacts
<1>4. \A k \in Known(r) : k <= op
  BY <1>1 DEF LogInv, OrderInv, NewestOf, Unlogged
<1>5. Sorted(log[r] \o ps) /\ Elements(ps) = Elements(pending[r]) \cup {op}
  <2>1. Sorted(log[r] \o pending[r])
    BY <1>3 DEF LogInv, OrderInv, LogInOrder, Sorted
  <2>2. QED
    BY <1>1, <1>3, <1>4, <2>1, SortedAppend, AppendElements DEF Known
<1>6. /\ LogInOrder' /\ \A q \in Root : Known(q) \subseteq Known(q)'
      /\ \A q \in Root \ {r} : Known(q)' = Known(q)
      /\ Known(r)' = Known(r) \cup {op}
  <2>1. Elements(pending[r]) \subseteq Elements(ps) /\ ops <= ops /\ OrderInv /\ RecordInv
    BY <1>3, <1>5 DEF LogInv
  <2>2. /\ LogInOrder' /\ \A q \in Root : Known(q) \subseteq Known(q)'
        /\ \A q \in Root \ {r} : Known(q)' = Known(q)
        /\ Known(r)' = Elements(log[r]) \cup Elements(ps)
    BY <1>2, <1>3, <1>5, <2>1, FlushKeeps
  <2>3. QED
    BY <1>5, <2>2 DEF Known
<1>7. ASSUME NEW d \in Caller \ {c} PROVE NewestOf(d)' /\ LoggedOf(d)'
  <2>1. lock[r] = c
    BY <1>1, RoutedVaults
  <2>2. QED
    BY <1>1, <1>6, <2>1, OthersLog
<1>8. NewestOf(c)' /\ LoggedOf(c)'
  <2>1. CASE call'[c].pc = "git"
    BY <2>1 DEF NewestOf, LoggedOf
  <2>2. CASE /\ call'[c].pc = "log" /\ call'[c].todo = call[c].todo \ {r}
             /\ call'[c].op = op /\ call'[c].event = call[c].event
    <3>1. \A q \in call[c].todo \ {r} : \A k \in Known(q)' : k <= op
      <4>1. \A q \in call[c].todo \ {r} : Known(q)' = Known(q)
        BY <1>1, <1>6
      <4>2. \A q \in call[c].todo \ {r} : \A k \in Known(q) : k <= op
        BY <1>1 DEF LogInv, OrderInv, NewestOf, Unlogged
      <4>3. QED
        BY <4>1, <4>2
    <3>2. NewestOf(c)'
      BY <2>2, <3>1 DEF NewestOf, Unlogged
    <3>3. \A q \in roots \ (call[c].todo \ {r}) : op \in Known(q)'
      <4>1. \A q \in roots \ call[c].todo : op \in Known(q)
        BY <1>1 DEF LogInv, RecordInv, LoggedOf
      <4>2. QED
        BY <1>1, <1>6, <4>1
    <3>4. LoggedOf(c)'
      BY <1>1, <2>2, <3>3 DEF LoggedOf
    <3>5. QED
      BY <3>2, <3>4
  <2>3. QED
    BY <1>1, <2>1, <2>2
<1>9. OnRecord'
  <2>1. SUFFICES ASSUME NEW q \in Root, NEW k \in owed'[q]
                 PROVE  k \in Known(q)' \/ \E p \in 1..(q - 1) : k \in owed'[p]
    BY DEF OnRecord, Recorded, Known
  <2>2. /\ \A p \in Root : owed[p] \subseteq owed'[p]
        /\ k \in owed[q] \/ (k = op /\ q \in roots /\ call'[c].pc = "git"
                               /\ \A p \in roots : op \in owed'[p])
    <3>1. \/ owed' = owed
          \/ /\ call'[c].pc = "git"
             /\ \A p \in Root : owed'[p] = IF p \in roots THEN owed[p] \cup {op} ELSE owed[p]
      BY <1>1
    <3>2. CASE owed' = owed
      BY <2>1, <3>2
    <3>3. CASE /\ call'[c].pc = "git"
               /\ \A p \in Root : owed'[p] = IF p \in roots THEN owed[p] \cup {op} ELSE owed[p]
      BY <2>1, <3>3
    <3>4. QED
      BY <3>1, <3>2, <3>3
  <2>3. CASE k \in owed[q]
    <3>1. k \in Known(q) \/ \E p \in 1..(q - 1) : k \in owed[p]
      BY <2>3 DEF LogInv, RecordInv, OnRecord, Recorded, Known
    <3>2. 1..(q - 1) \subseteq Root
      BY BoundAssumption DEF Root
    <3>3. QED
      BY <1>6, <2>2, <3>1, <3>2
  <2>4. CASE k = op /\ q \in roots /\ \A p \in roots : op \in owed'[p]
    <3>1. CASE q \notin call[c].todo
      <4>1. op \in Known(q)
        BY <1>1, <2>4, <3>1 DEF LogInv, RecordInv, LoggedOf
      <4>2. QED
        BY <1>6, <2>4, <4>1
    <3>2. CASE q = r
      BY <1>6, <2>4, <3>2
    <3>3. CASE q \in call[c].todo /\ q # r
      <4>1. r \in 1..(q - 1)
        BY <1>1, <1>3, <3>3, BoundAssumption DEF Root
      <4>2. op \in owed'[r]
        BY <1>1, <2>4
      <4>3. QED
        BY <2>4, <4>1, <4>2
    <3>4. QED
      BY <3>1, <3>2, <3>3
  <2>5. QED
    BY <2>2, <2>3, <2>4
<1>10. QED
  BY <1>6, <1>7, <1>8, <1>9 DEF LogInv, OrderInv, RecordInv

\* A manual entry is newer than every record there is.
LEMMA AppendManualLog ==
    ASSUME TypeInv, LogInv, NEW c \in Caller, AppendManual(c)
    PROVE  LogInv'
<1>1. PICK r \in Root : r = Least(Held(c))
  BY AppendManualFacts
<1>2. PICK op \in Nat : op = NextOp
  BY AppendManualFacts
<1>3. PICK top \in Nat : top = ops'
  BY AppendManualFacts
<1>4. PICK ps \in Seq(1..top) : ps = Buffered(r, op)
  BY AppendManualFacts, <1>1, <1>2, <1>3
<1>5. /\ lock[r] = c /\ op = ops + 1 /\ top = ops + 1 /\ ps = Append(pending[r], op)
      /\ call'[c].pc = "ending" /\ \A d \in Caller \ {c} : call'[d] = call[d]
      /\ \A q \in Root : owed'[q] = IF q = r THEN owed[q] \cup {op} ELSE owed[q]
  <2>1. ps = Append(pending[r], op)
    BY <1>4 DEF Buffered
  <2>2. QED
    BY AppendManualFacts, <1>1, <1>2, <1>3, <2>1
<1>6. PICK n \in 0..Len(ps), landed \in BOOLEAN : FlushTo(r, ps, n, landed)
  BY AppendManualFacts, <1>1, <1>2, <1>4
<1>7. /\ ops \in Nat /\ ops <= top /\ log[r] \in Seq(Nat) /\ pending[r] \in Seq(Nat)
      /\ \A k \in Known(r) : k <= op
  BY <1>5, KnownFacts
<1>8. Sorted(log[r] \o ps) /\ Elements(ps) = Elements(pending[r]) \cup {op}
  <2>1. Sorted(log[r] \o pending[r])
    BY DEF LogInv, OrderInv, LogInOrder, Sorted
  <2>2. QED
    BY <1>5, <1>7, <2>1, SortedAppend, AppendElements DEF Known
<1>9. /\ LogInOrder' /\ \A q \in Root : Known(q) \subseteq Known(q)'
      /\ \A q \in Root \ {r} : Known(q)' = Known(q)
      /\ op \in Known(r)'
  <2>1. Elements(pending[r]) \subseteq Elements(ps) /\ OrderInv /\ RecordInv
    BY <1>8 DEF LogInv
  <2>2. /\ LogInOrder' /\ \A q \in Root : Known(q) \subseteq Known(q)'
        /\ \A q \in Root \ {r} : Known(q)' = Known(q)
        /\ Known(r)' = Elements(log[r]) \cup Elements(ps)
    BY <1>6, <1>7, <1>8, <2>1, FlushKeeps
  <2>3. QED
    BY <1>8, <2>2
<1>10. \A d \in Caller : NewestOf(d)' /\ LoggedOf(d)'
  <2>1. \A d \in Caller \ {c} : NewestOf(d)' /\ LoggedOf(d)'
    BY <1>5, <1>9, OthersLog
  <2>2. NewestOf(c)' /\ LoggedOf(c)'
    BY <1>5 DEF NewestOf, LoggedOf
  <2>3. QED
    BY <2>1, <2>2
<1>11. OnRecord'
  <2>1. SUFFICES ASSUME NEW q \in Root, NEW k \in owed'[q]
                 PROVE  k \in Known(q)' \/ \E p \in 1..(q - 1) : k \in owed'[p]
    BY DEF OnRecord, Recorded, Known
  <2>2. CASE k \in owed[q]
    <3>1. k \in Known(q) \/ \E p \in 1..(q - 1) : k \in owed[p]
      BY <2>2 DEF LogInv, RecordInv, OnRecord, Recorded, Known
    <3>2. 1..(q - 1) \subseteq Root
      BY BoundAssumption DEF Root
    <3>3. QED
      BY <1>5, <1>9, <3>1, <3>2
  <2>3. CASE q = r /\ k = op
    BY <1>9, <2>3
  <2>4. QED
    BY <1>5, <2>1, <2>2, <2>3
<1>12. QED
  BY <1>9, <1>10, <1>11 DEF LogInv, OrderInv, RecordInv

\* The last flush of a vault adds no record.
LEMMA FlushLogLog ==
    ASSUME TypeInv, LogInv, FlushLog
    PROVE  LogInv'
<1>1. PICK r \in Root : r = flushAt
  BY FlushLogFacts
<1>2. PICK ps \in Seq(1..ops) : ps = pending[r]
  BY FlushLogFacts, <1>1
<1>3. ops \in Nat /\ UNCHANGED <<call, owed>>
  BY FlushLogFacts
<1>4. PICK n \in 0..Len(ps), landed \in BOOLEAN : FlushTo(r, ps, n, landed)
  BY FlushLogFacts, <1>1, <1>2
<1>5. LogInOrder' /\ \A q \in Root : Known(q)' = Known(q)
  <2>1. /\ Sorted(log[r] \o ps) /\ Elements(pending[r]) \subseteq Elements(ps)
        /\ OrderInv /\ RecordInv /\ ops <= ops
    <3>1. Sorted(log[r] \o pending[r])
      BY DEF LogInv, OrderInv, LogInOrder, Sorted
    <3>2. OrderInv /\ RecordInv /\ ops <= ops
      BY <1>3 DEF LogInv
    <3>3. QED
      BY <1>2, <3>1, <3>2
  <2>2. /\ LogInOrder' /\ \A q \in Root \ {r} : Known(q)' = Known(q)
        /\ Known(r)' = Elements(log[r]) \cup Elements(ps)
    BY <1>3, <1>4, <2>1, FlushKeeps
  <2>3. QED
    BY <1>2, <2>2 DEF Known
<1>6. ASSUME NEW d \in Caller PROVE NewestOf(d)' /\ LoggedOf(d)'
  <2>1. NewestOf(d) /\ LoggedOf(d) /\ call'[d] = call[d] /\ Unlogged(d)' = Unlogged(d)
    BY <1>3 DEF LogInv, OrderInv, RecordInv, Unlogged
  <2>2. CASE call[d].pc \in {"index", "log"}
    <3>1. RootsOf(call[d].event) \subseteq Root /\ Unlogged(d) \subseteq RootsOf(call[d].event)
      BY <2>2, RoutedVaults
    <3>2. QED
      BY <1>5, <2>1, <3>1 DEF NewestOf, LoggedOf
  <2>3. CASE call[d].pc \notin {"index", "log"}
    BY <2>1, <2>3 DEF NewestOf, LoggedOf
  <2>4. QED
    BY <2>2, <2>3
<1>7. OnRecord'
  BY <1>3, <1>5 DEF LogInv, RecordInv, OnRecord, Recorded, Known
<1>8. QED
  BY <1>5, <1>6, <1>7 DEF LogInv, OrderInv, RecordInv

\* Every step keeps the order of the records and the records themselves.
LEMMA NextLog == TypeInv /\ LogInv /\ [Next]_vars => LogInv'
<1> SUFFICES ASSUME TypeInv, LogInv, [Next]_vars PROVE LogInv'
  OBVIOUS
<1>1. ASSUME NEW c \in Caller, Step(c) PROVE LogInv'
  BY <1>1, QuietLog, AppendEventLog, AppendManualLog
<1>2. CASE FlushLog
  BY <1>2, FlushLogLog
<1>3. CASE Shutdown \/ UNCHANGED vars
  <2>1. UNCHANGED <<call, log, pending, owed>>
    BY <1>3 DEF Shutdown, vars, vault
  <2>2. \A d \in Caller : NewestOf(d)' /\ LoggedOf(d)'
    BY <2>1 DEF LogInv, OrderInv, RecordInv, NewestOf, LoggedOf, Unlogged, Known
  <2>3. LogInOrder'
    BY <2>1 DEF LogInv, OrderInv, LogInOrder
  <2>4. OnRecord'
    BY <2>1 DEF LogInv, RecordInv, OnRecord, Recorded
  <2>5. QED
    BY <2>2, <2>3, <2>4 DEF LogInv, OrderInv, RecordInv
<1>4. QED
  BY <1>1, <1>2, <1>3 DEF Next

\* Order and record of operations hold in every reachable state.
LEMMA LogInvHolds == Spec => []LogInv
BY TypeInvHolds, InitLog, NextLog, PTL DEF Spec

\* The log of a vault and its retry buffer keep the order of the operations,
\* whatever appends fail, half-fail or repeat and whatever other calls do.
THEOREM LogKeepsOrder == Spec => []LogInOrder
<1>1. LogInv => LogInOrder
  BY DEF LogInv, OrderInv
<1>2. QED
  BY <1>1, LogInvHolds, PTL

\* What an operation's log step has finished with stays on record: in the log or
\* the buffer of its first vault.
THEOREM OperationsStayOnRecord == Spec => []OnRecord
<1>1. LogInv => OnRecord
  BY DEF LogInv, RecordInv
<1>2. QED
  BY <1>1, LogInvHolds, PTL

-----------------------------------------------------------------------------
(* A route without a warning leaves nothing behind: what its call has got   *)
(* done so far, and that nobody else's step undoes it.                      *)

\* The directories of these vaults show their entries.
IndexesShown(rs) == \A r \in rs : \A d \in Dir : <<r, d>> \notin stale

\* Nothing waits to be appended in the vaults of a call's event, and the call has
\* the writes of their logs that are still untold.
LogTold(c) ==
    \A r \in RootsOf(call[c].event) :
        /\ pending[r] = << >>
        /\ \A s \in Sink : <<r, "log">> \in dirty[s] => <<r, "log">> \in call[c].derived

\* What a route without a warning has got done in each of its phases.
SeenOf(c) ==
    LET k == call[c]
        rs == RootsOf(k.event)
    IN  /\ k.pc \in Routing => \A r \in rs : <<r, "log">> \notin k.event
        /\ k.clean =>
            /\ k.pc = "index" => IndexesShown(rs \ k.todo)
            /\ k.pc \in Routing \ {"index"} /\ k.op # 0 => IndexesShown(rs)
            /\ k.pc = "log" =>
                \A r \in rs \ k.todo : pending[r] = << >> /\ <<r, "log">> \in k.found
            /\ k.pc \in {"git", "search", "internal"} /\ k.op # 0 => LogTold(c)
            /\ k.pc \in {"search", "internal"} => k.event \cap dirty["git"] = {}
            /\ k.pc = "internal" => k.event \cap dirty["search"] = {}

SeenInv == \A c \in Caller : SeenOf(c)

\* A step that makes nothing of vault r stale or untold: but for its log while
\* records wait.
Undisturbed(r) ==
    /\ \A d \in Dir : <<r, d>> \in stale' => <<r, d>> \in stale
    /\ pending[r] = << >> => pending'[r] = << >>
    /\ \A s \in Sink : \A x \in File :
        <<r, x>> \in dirty'[s] => <<r, x>> \in dirty[s] \/ (x = "log" /\ pending[r] # << >>)

\* The vaults of an event a call routes are vaults, and locked by it.
LEMMA EventVaults ==
    ASSUME TypeInv, NEW c \in Caller
    PROVE  /\ call[c] \in CallType /\ HoldOf(c)
           /\ call[c].event \in SUBSET (Root \X File)
           /\ \A f \in call[c].event : /\ f[1] \in RootsOf(call[c].event) /\ f[2] \in File
                                       /\ f = <<f[1], f[2]>>
           /\ RootsOf(call[c].event) \subseteq Root
           /\ call[c].pc \in Routing => \A r \in RootsOf(call[c].event) : lock[r] = c
<1>1. call[c] \in CallType /\ HoldOf(c)
  BY DEF TypeInv, TypeOK, HoldInv
<1>2. call[c].event \in SUBSET (Root \X File)
  BY <1>1 DEF CallType
<1>3. RootsOf(call[c].event) \subseteq Root
  BY <1>2, RootsOfFiles
<1>4. \A f \in call[c].event : /\ f[1] \in RootsOf(call[c].event) /\ f[2] \in File
                               /\ f = <<f[1], f[2]>>
  BY <1>2 DEF RootsOf
<1>5. QED
  BY <1>1, <1>2, <1>3, <1>4 DEF HoldOf

\* A call keeps what it has got done while nothing disturbs its vaults.
LEMMA SeenKept ==
    ASSUME TypeInv, NEW d \in Caller, SeenOf(d), call'[d] = call[d],
           \A r \in RootsOf(call[d].event) : Undisturbed(r)
    PROVE  SeenOf(d)'
<1> DEFINE k == call[d]
           rs == RootsOf(k.event)
<1>1. /\ \A f \in k.event : f[1] \in rs /\ f[2] \in File /\ f = <<f[1], f[2]>>
      /\ rs \subseteq Root
  BY EventVaults
<1>2. /\ k.pc \in Routing => \A r \in rs : <<r, "log">> \notin k.event
      /\ k.clean =>
            /\ k.pc = "index" => IndexesShown(rs \ k.todo)
            /\ k.pc \in Routing \ {"index"} /\ k.op # 0 => IndexesShown(rs)
            /\ k.pc = "log" =>
                \A r \in rs \ k.todo : pending[r] = << >> /\ <<r, "log">> \in k.found
            /\ k.pc \in {"git", "search", "internal"} /\ k.op # 0 => LogTold(d)
            /\ k.pc \in {"search", "internal"} => k.event \cap dirty["git"] = {}
            /\ k.pc = "internal" => k.event \cap dirty["search"] = {}
  BY DEF SeenOf
<1>3. ASSUME NEW qs \in SUBSET rs, IndexesShown(qs)
      PROVE  \A r \in qs : \A e \in Dir : <<r, e>> \notin stale'
  BY <1>3 DEF IndexesShown, Undisturbed
<1>4. ASSUME LogTold(d) PROVE LogTold(d)'
  <2>1. "log" \in File
    BY DEF File
  <2>2. QED
    BY <2>1, <1>4 DEF LogTold, Undisturbed
<1>5. ASSUME NEW s \in Sink, k.pc \in Routing, k.event \cap dirty[s] = {}
      PROVE  k.event \cap dirty'[s] = {}
  <2>1. SUFFICES ASSUME NEW f \in k.event, f \in dirty'[s] PROVE FALSE
    OBVIOUS
  <2>2. f[1] \in rs /\ f[2] \in File /\ f = <<f[1], f[2]>>
    BY <1>1
  <2>3. f[2] # "log"
    BY <1>2, <1>5, <2>2
  <2>4. f \in dirty[s]
    BY <2>1, <2>2, <2>3 DEF Undisturbed
  <2>5. QED
    BY <1>5, <2>4
<1>6. \A r \in rs \ k.todo : pending[r] = << >> => pending'[r] = << >>
  BY DEF Undisturbed
<1>7. "git" \in Sink /\ "search" \in Sink /\ "search" \in Routing /\ "internal" \in Routing
  BY DEF Sink, Routing
<1>8. rs \ k.todo \in SUBSET rs /\ rs \in SUBSET rs
  OBVIOUS
<1> HIDE DEF rs, k
<1>9. /\ k.pc \in Routing => \A r \in rs : <<r, "log">> \notin k.event
      /\ k.clean =>
            /\ k.pc = "index" =>
                \A r \in rs \ k.todo : \A e \in Dir : <<r, e>> \notin stale'
            /\ k.pc \in Routing \ {"index"} /\ k.op # 0 =>
                \A r \in rs : \A e \in Dir : <<r, e>> \notin stale'
            /\ k.pc = "log" =>
                \A r \in rs \ k.todo : pending'[r] = << >> /\ <<r, "log">> \in k.found
            /\ k.pc \in {"git", "search", "internal"} /\ k.op # 0 => LogTold(d)'
            /\ k.pc \in {"search", "internal"} => k.event \cap dirty'["git"] = {}
            /\ k.pc = "internal" => k.event \cap dirty'["search"] = {}
  <2>1. k.clean /\ k.pc = "index" =>
          \A r \in rs \ k.todo : \A e \in Dir : <<r, e>> \notin stale'
    BY <1>2, <1>3, <1>8
  <2>2. k.clean /\ k.pc \in Routing \ {"index"} /\ k.op # 0 =>
          \A r \in rs : \A e \in Dir : <<r, e>> \notin stale'
    BY <1>2, <1>3, <1>8
  <2>3. k.clean /\ k.pc \in {"git", "search", "internal"} /\ k.op # 0 => LogTold(d)'
    BY <1>2, <1>4
  <2>4. k.clean /\ k.pc \in {"search", "internal"} => k.event \cap dirty'["git"] = {}
    BY <1>2, <1>5, <1>7
  <2>5. k.clean /\ k.pc = "internal" => k.event \cap dirty'["search"] = {}
    BY <1>2, <1>5, <1>7
  <2>6. k.clean /\ k.pc = "log" =>
          \A r \in rs \ k.todo : pending'[r] = << >> /\ <<r, "log">> \in k.found
    BY <1>2, <1>6
  <2>7. QED
    BY <1>2, <2>1, <2>2, <2>3, <2>4, <2>5, <2>6
<1>10. QED
  BY <1>9 DEF SeenOf, k, rs, IndexesShown

\* An outcome writes the record of its call, but for whether it is clean.
LEMMA OutcomeRecord ==
    ASSUME TypeOK, NEW c \in Caller, NEW failed \in BOOLEAN, NEW next \in CallType,
           Outcome(c, failed, next)
    PROVE  /\ call'[c].pc = next.pc /\ call'[c].event = next.event
           /\ call'[c].todo = next.todo /\ call'[c].op = next.op
           /\ call'[c].found = next.found /\ call'[c].derived = next.derived
           /\ call'[c].clean = (next.clean /\ ~failed)
<1> DEFINE new == [next EXCEPT !.clean = @ /\ ~failed]
<1>1. /\ new.pc = next.pc /\ new.event = next.event /\ new.todo = next.todo
      /\ new.op = next.op /\ new.found = next.found /\ new.derived = next.derived
      /\ new.clean = (next.clean /\ ~failed)
  BY DEF CallType
<1>2. call' = [call EXCEPT ![c] = new] /\ call \in [Caller -> CallType]
  BY DEF Outcome, TypeOK
<1> HIDE DEF new
<1>3. QED
  BY <1>1, <1>2

\* What a flush of vault r disturbs: no other vault; r only while records wait.
LEMMA FlushDisturbs ==
    ASSUME TypeOK, NEW r \in Root, NEW top \in Nat, NEW ps \in Seq(1..top),
           NEW n \in 0..Len(ps), NEW landed \in BOOLEAN,
           FlushTo(r, ps, n, landed), stale' = stale
    PROVE  /\ \A q \in Root \ {r} : Undisturbed(q)
           /\ ps = pending[r] => Undisturbed(r)
           /\ n = Len(ps) => pending'[r] = << >>
<1>1. /\ pending \in [Root -> Seq(1..ops)] /\ dirty \in [Sink -> SUBSET (Root \X File)]
      /\ n \in Nat /\ Len(ps) \in Nat /\ n <= Len(ps)
  BY DEF TypeOK
<1>2. /\ pending' = [pending EXCEPT ![r] = SubSeq(ps, n + 1, Len(ps))]
      /\ dirty' = IF n > 0 \/ landed THEN Dirtied({<<r, "log">>}) ELSE dirty
      /\ n = Len(ps) => ~landed
  BY DEF FlushTo, Kept
<1>3. \A q \in Root \ {r} : Undisturbed(q)
  <2>1. SUFFICES ASSUME NEW q \in Root \ {r} PROVE Undisturbed(q)
    OBVIOUS
  <2>2. pending'[q] = pending[q]
    BY <1>1, <1>2
  <2>3. \A s \in Sink : \A x \in File : <<q, x>> \in dirty'[s] => <<q, x>> \in dirty[s]
    BY <1>1, <1>2 DEF Dirtied
  <2>4. QED
    BY <2>2, <2>3 DEF Undisturbed
<1>4. n = Len(ps) => pending'[r] = << >>
  <2>1. n = Len(ps) => SubSeq(ps, n + 1, Len(ps)) = << >>
    BY <1>1, SubSeqProperties
  <2>2. QED
    BY <1>1, <1>2, <2>1
<1>5. ASSUME ps = pending[r] PROVE Undisturbed(r)
  <2>1. CASE ps = << >>
    <3>1. Len(ps) = 0 /\ n = 0 /\ ~landed
      BY <1>1, <1>2, <2>1
    <3>2. dirty' = dirty /\ pending'[r] = << >>
      BY <1>2, <1>4, <3>1
    <3>3. QED
      BY <3>2 DEF Undisturbed
  <2>2. CASE ps # << >>
    <3>1. \A s \in Sink : \A x \in File :
            <<r, x>> \in dirty'[s] => <<r, x>> \in dirty[s] \/ x = "log"
      BY <1>1, <1>2 DEF Dirtied
    <3>2. QED
      BY <1>5, <2>2, <3>1 DEF Undisturbed
  <2>3. QED
    BY <2>1, <2>2
<1>6. QED
  BY <1>3, <1>4, <1>5

\* A step of a call disturbs only vaults the call has locked.
LEMMA StepDisturbs ==
    ASSUME TypeInv, NEW c \in Caller, Step(c), NEW q \in Root, lock[q] # c
    PROVE  Undisturbed(q)
<1>1. /\ TypeOK /\ HoldOf(c) /\ dirty \in [Sink -> SUBSET (Root \X File)]
  BY DEF TypeInv, TypeOK, HoldInv
<1>2. CASE Begin(c) \/ Lock(c) \/ Finish(c) \/ Dropped(c) \/ Routed(c)
  <2>1. UNCHANGED <<stale, pending, dirty>>
    BY <1>2 DEF Begin, Lock, Finish, Dropped, Routed, vault
  <2>2. QED
    BY <2>1 DEF Undisturbed
<1>3. CASE Mutate(c)
  <2>1. PICK rs \in (SUBSET Held(c)) \ {{}} :
          /\ stale' \subseteq stale \cup (rs \X Dir)
          /\ dirty' = Dirtied(rs \X {"note"})
    BY <1>3 DEF Mutate
  <2>2. q \notin rs /\ pending' = pending
    BY <1>3 DEF Held, Mutate
  <2>3. \A s \in Sink : \A x : <<q, x>> \in dirty'[s] => <<q, x>> \in dirty[s]
    BY <2>1, <2>2 DEF Dirtied
  <2>4. \A d \in Dir : <<q, d>> \in stale' => <<q, d>> \in stale
    BY <2>1, <2>2
  <2>5. QED
    BY <2>2, <2>3, <2>4 DEF Undisturbed
<1>4. CASE ClearIndex(c)
  <2>1. PICK r \in Held(c) : /\ stale' = stale \cup {<<r, "folder">>}
                             /\ dirty' = Dirtied({<<r, "folder">>})
    BY <1>4 DEF ClearIndex
  <2>2. q # r /\ pending' = pending
    BY <1>4 DEF Held, ClearIndex
  <2>3. QED
    BY <2>1, <2>2 DEF Undisturbed, Dirtied
<1>5. CASE Reconcile(c)
  <2>1. Least(call[c].todo) # q
    <3>1. call[c].pc = "index" /\ call[c].todo # {}
          /\ call[c].todo \subseteq RootsOf(call[c].event)
      BY <1>1, <1>5 DEF Reconcile, HoldOf
    <3>2. RootsOf(call[c].event) \subseteq Root
          /\ \A r \in RootsOf(call[c].event) : lock[r] = c
      BY <3>1, EventVaults DEF Routing
    <3>3. Least(call[c].todo) \in call[c].todo
      BY <3>1, <3>2, RootsAreNat, LeastIsMember
    <3>4. QED
      BY <3>1, <3>2, <3>3
  <2>2. PICK ds : LET written == stale \cap ({Least(call[c].todo)} \X ds)
                  IN  stale' = stale \ written /\ dirty' = Dirtied(written)
    BY <1>5 DEF Reconcile
  <2>3. pending' = pending
    BY <1>5 DEF Reconcile
  <2>4. QED
    BY <2>1, <2>2, <2>3 DEF Undisturbed, Dirtied
<1>6. CASE RebuildIndexes(c)
  <2>1. PICK ds : LET written == stale \cap (Held(c) \X ds)
                  IN  stale' = stale \ written /\ dirty' = Dirtied(written)
    BY <1>6 DEF RebuildIndexes
  <2>2. pending' = pending /\ q \notin Held(c)
    BY <1>6 DEF RebuildIndexes, Held
  <2>3. QED
    BY <2>1, <2>2 DEF Undisturbed, Dirtied
<1>7. CASE AppendEvent(c)
  <2> DEFINE r == Least(call[c].todo)
             ps == Buffered(r, call[c].op)
  <2>1. /\ r \in Root /\ lock[r] = c /\ ps \in Seq(1..ops) /\ ops \in Nat
        /\ \E n \in 0..Len(ps), landed \in BOOLEAN : FlushTo(r, ps, n, landed)
    <3>1. /\ r \in call[c].todo /\ call[c].todo \subseteq RootsOf(call[c].event)
          /\ RootsOf(call[c].event) \subseteq Root /\ ps \in Seq(1..ops) /\ call[c].pc = "log"
          /\ \E n \in 0..Len(ps), landed \in BOOLEAN : FlushTo(r, ps, n, landed)
      BY <1>7, AppendEventFacts
    <3>2. ops \in Nat
      BY <1>1, BoundAssumption DEF TypeOK
    <3> HIDE DEF r, ps
    <3>3. QED
      BY <3>1, <3>2, EventVaults DEF Routing
  <2> HIDE DEF r, ps
  <2>2. q \in Root \ {r} /\ stale' = stale
    BY <1>7, <2>1 DEF AppendEvent
  <2>3. QED
    BY <1>1, <2>1, <2>2, FlushDisturbs
<1>8. CASE AppendManual(c)
  <2> DEFINE r == Least(Held(c))
             ps == Buffered(r, NextOp)
  <2>1. /\ r \in Root /\ lock[r] = c /\ ps \in Seq(1..ops') /\ ops' \in Nat
        /\ \E n \in 0..Len(ps), landed \in BOOLEAN : FlushTo(r, ps, n, landed)
    BY <1>8, AppendManualFacts
  <2> HIDE DEF r, ps
  <2>2. q \in Root \ {r} /\ stale' = stale
    BY <1>8, <2>1 DEF AppendManual
  <2>3. QED
    BY <1>1, <2>1, <2>2, FlushDisturbs
<1>9. CASE StageEvent(c) \/ UpdateSearch(c)
  <2>1. PICK s \in Sink : \E told : dirty' = [dirty EXCEPT ![s] = @ \ told]
    BY <1>9 DEF StageEvent, UpdateSearch, Tell, Sink
  <2>2. stale' = stale /\ pending' = pending
    BY <1>9 DEF StageEvent, UpdateSearch
  <2>3. QED
    BY <1>1, <2>1, <2>2 DEF Undisturbed
<1>10. CASE TellInternal(c)
  <2> DEFINE f == CHOOSE g \in call[c].derived : TRUE
  <2>1. PICK told \in SUBSET Sink :
          dirty' = [s \in Sink |-> IF s \in told THEN dirty[s] \ {f} ELSE dirty[s]]
    BY <1>10 DEF TellInternal
  <2> HIDE DEF f
  <2>2. stale' = stale /\ pending' = pending
    BY <1>10 DEF TellInternal
  <2>3. QED
    BY <2>1, <2>2 DEF Undisturbed
<1>11. QED
  BY <1>2, <1>3, <1>4, <1>5, <1>6, <1>7, <1>8, <1>9, <1>10 DEF Step

\* Nothing is claimed of a call that routes no event.
LEMMA NotRouting ==
    ASSUME NEW c \in Caller, call'[c].pc \notin Routing
    PROVE  SeenOf(c)'
BY DEF SeenOf, Routing

\* A step of the call that starts, ends or has nothing to route.
LEMMA UnroutedSeen ==
    ASSUME TypeInv, NEW c \in Caller,
           \/ Begin(c) \/ Lock(c) \/ Finish(c) \/ Dropped(c) \/ Routed(c)
           \/ AppendManual(c) \/ RebuildIndexes(c)
    PROVE  SeenOf(c)'
<1>1. /\ TypeOK /\ call \in [Caller -> CallType] /\ call[c] \in CallType
  BY DEF TypeInv, TypeOK
<1>2. ASSUME NEW new, call' = [call EXCEPT ![c] = new], new.pc \notin Routing
      PROVE  SeenOf(c)'
  BY <1>1, <1>2, NotRouting
<1>3. CASE Begin(c)
  <2>1. PICK ask, kind :
          call' = [call EXCEPT ![c] = [Idle EXCEPT !.pc = "waiting",
                                                   !.kind = kind, !.ask = ask]]
    BY <1>3 DEF Begin
  <2>2. [Idle EXCEPT !.pc = "waiting", !.kind = kind, !.ask = ask].pc = "waiting"
    BY DEF Idle
  <2>3. QED
    BY <1>2, <2>1, <2>2 DEF Routing
<1>4. CASE Lock(c)
  <2>1. call[c].pc = "waiting" /\ (call' = call \/
          call' = [call EXCEPT ![c].pc = "locked", ![c].ask = << >>])
    BY <1>4 DEF Lock
  <2>2. [call[c] EXCEPT !.pc = "locked", !.ask = << >>].pc = "locked"
    BY <1>1 DEF CallType
  <2>3. CASE call' = call
    BY <2>1, <2>3, NotRouting DEF Routing
  <2>4. CASE call' = [call EXCEPT ![c].pc = "locked", ![c].ask = << >>]
    <3>1. call' = [call EXCEPT ![c] = [call[c] EXCEPT !.pc = "locked", !.ask = << >>]]
      BY <1>1, <2>4
    <3>2. QED
      BY <1>2, <2>2, <3>1 DEF Routing
  <2>5. QED
    BY <2>1, <2>3, <2>4
<1>5. CASE Finish(c) \/ Dropped(c) \/ Routed(c)
  <2>1. Idle.pc = "idle" /\ [Idle EXCEPT !.pc = "locked"].pc = "locked"
    BY DEF Idle
  <2>2. \/ call' = [call EXCEPT ![c] = Idle]
        \/ call' = [call EXCEPT ![c] = [Idle EXCEPT !.pc = "locked"]]
    BY <1>5 DEF Finish, Dropped, Routed
  <2>3. QED
    BY <1>2, <2>1, <2>2 DEF Routing
<1>6. CASE AppendManual(c)
  <2>1. call'[c].pc = "ending"
    BY <1>6, AppendManualFacts
  <2>2. QED
    BY <2>1, NotRouting DEF Routing
<1>7. CASE RebuildIndexes(c)
  <2> DEFINE next == [call[c] EXCEPT !.pc = "ending"]
  <2>1. PICK failed \in BOOLEAN : Outcome(c, failed, next)
    BY <1>7 DEF RebuildIndexes
  <2>2. next \in CallType /\ next.pc = "ending"
    <3>1. "ending" \in Phases
      BY DEF Phases
    <3>2. next \in CallType
      BY <1>1, <3>1, RouteRecord
    <3>3. QED
      BY <1>1, <3>2 DEF CallType
  <2> HIDE DEF next
  <2>3. QED
    BY <1>1, <2>1, <2>2, OutcomeRecord, NotRouting DEF Routing
<1>8. QED
  BY <1>3, <1>4, <1>5, <1>6, <1>7

\* A new event: nothing of it is done yet, and it is not about a log.
LEMMA MutationSeen ==
    ASSUME TypeInv, NEW c \in Caller, Mutate(c) \/ ClearIndex(c)
    PROVE  SeenOf(c)'
<1>1. /\ call \in [Caller -> CallType] /\ call[c] \in CallType
  BY DEF TypeInv, TypeOK
<1>2. CASE Mutate(c)
  <2>1. PICK rs \in (SUBSET Held(c)) \ {{}} :
          call' = [call EXCEPT ![c].pc = "index", ![c].event = rs \X {"note"},
                               ![c].todo = rs, ![c].op = NextOp, ![c].clean = TRUE]
    BY <1>2 DEF Mutate
  <2> DEFINE new == Mutated(call[c], rs \X {"note"}, rs, NextOp)
  <2>2. call' = [call EXCEPT ![c] = new]
    BY <1>1, <2>1 DEF Mutated
  <2>3. new.pc = "index" /\ new.event = rs \X {"note"} /\ new.todo = rs
    BY <1>1 DEF Mutated, CallType
  <2> HIDE DEF new
  <2>4. /\ call'[c].pc = "index" /\ call'[c].event = rs \X {"note"} /\ call'[c].todo = rs
    BY <1>1, <2>2, <2>3
  <2>5. RootsOf(call'[c].event) = rs
    BY <2>4, RootsOfProduct
  <2>6. \A r \in rs : <<r, "log">> \notin call'[c].event
    BY <2>4
  <2>7. QED
    BY <2>4, <2>5, <2>6 DEF SeenOf, IndexesShown
<1>3. CASE ClearIndex(c)
  <2>1. PICK r \in Held(c) :
          call' = [call EXCEPT ![c].pc = "git", ![c].event = {<<r, "folder">>},
                               ![c].op = 0, ![c].clean = TRUE]
    BY <1>3 DEF ClearIndex
  <2> DEFINE new == Cleared(call[c], {<<r, "folder">>})
  <2>2. call' = [call EXCEPT ![c] = new]
    BY <1>1, <2>1 DEF Cleared
  <2>3. new.pc = "git" /\ new.event = {<<r, "folder">>} /\ new.op = 0
    BY <1>1 DEF Cleared, CallType
  <2> HIDE DEF new
  <2>4. /\ call'[c].pc = "git" /\ call'[c].event = {<<r, "folder">>} /\ call'[c].op = 0
    BY <1>1, <2>2, <2>3
  <2>5. QED
    BY <2>4 DEF SeenOf
<1>4. QED
  BY <1>2, <1>3

\* The index step: the directories of one more vault show their entries.
LEMMA ReconcileSeen ==
    ASSUME TypeInv, NEW c \in Caller, SeenOf(c), Reconcile(c)
    PROVE  SeenOf(c)'
<1> DEFINE k == call[c]
           r == Least(k.todo)
           rest == k.todo \ {r}
           roots == RootsOf(k.event)
<1>1. /\ TypeOK /\ k \in CallType /\ k.pc = "index" /\ k.todo # {} /\ k.todo \subseteq roots
      /\ roots \subseteq Root /\ k.found \in SUBSET (Root \X File)
  <2>1. TypeOK /\ k \in CallType /\ k.pc = "index" /\ HoldOf(c)
    BY DEF TypeInv, TypeOK, HoldInv, Reconcile
  <2>2. roots \subseteq Root
    BY EventVaults
  <2>3. QED
    BY <2>1, <2>2 DEF HoldOf, CallType
<1>2. r \in k.todo
  BY <1>1, RootsAreNat, LeastIsMember
<1>3. PICK ds \in Reconciled :
        LET written == stale \cap ({r} \X ds)
            found == k.found \cup written
        IN  /\ stale' = stale \ written
            /\ Outcome(c, ds # Dir,
                IF ds # Dir
                THEN [k EXCEPT !.pc = "log", !.found = {}, !.todo = roots]
                ELSE IF rest # {}
                THEN [k EXCEPT !.todo = rest, !.found = found]
                ELSE [k EXCEPT !.pc = "log", !.found = {}, !.derived = found,
                               !.todo = roots])
  BY DEF Reconcile
<1> DEFINE written == stale \cap ({r} \X ds)
           found == k.found \cup written
           next == IF ds # Dir
                   THEN [k EXCEPT !.pc = "log", !.found = {}, !.todo = roots]
                   ELSE IF rest # {}
                   THEN [k EXCEPT !.todo = rest, !.found = found]
                   ELSE [k EXCEPT !.pc = "log", !.found = {}, !.derived = found,
                                  !.todo = roots]
<1>4. written \in SUBSET (Root \X File) /\ found \in SUBSET (Root \X File)
  BY <1>1 DEF TypeInv, TypeOK, File
<1>5. k.clean => \A q \in roots \ k.todo : \A d \in Dir : <<q, d>> \notin stale
  BY <1>1 DEF SeenOf, IndexesShown
<1>6. ds = Dir /\ k.clean => \A q \in roots \ rest : \A d \in Dir : <<q, d>> \notin stale'
  BY <1>3, <1>5
<1>7. \A q \in roots : <<q, "log">> \notin k.event
  BY <1>1 DEF SeenOf, Routing
<1> HIDE DEF written, found, rest, roots, r
<1>8. next \in CallType
  <2>1. "log" \in Phases /\ roots \in SUBSET Root /\ rest \in SUBSET Root
    BY <1>1 DEF Phases, rest
  <2>2. /\ [k EXCEPT !.pc = "log", !.found = {}, !.todo = roots] \in CallType
        /\ [k EXCEPT !.todo = rest, !.found = found] \in CallType
        /\ [k EXCEPT !.pc = "log", !.found = {}, !.derived = found,
                     !.todo = roots] \in CallType
    BY <1>1, <1>4, <2>1, RouteRecord
  <2>3. QED
    BY <2>2
<1>9. /\ next.event = k.event
      /\ \/ ds # Dir /\ next.pc = "log"
         \/ ds = Dir /\ next.pc = "index" /\ next.todo = rest
         \/ ds = Dir /\ rest = {} /\ next.pc = "log" /\ next.todo = roots
      /\ next.clean = k.clean
  BY <1>1 DEF CallType
<1>10. PICK failed \in BOOLEAN : failed = (ds # Dir)
  OBVIOUS
<1>11. Outcome(c, failed, next)
  BY <1>3, <1>10 DEF found, written, rest, roots, r
<1>12. /\ call'[c].pc = next.pc /\ call'[c].event = k.event /\ call'[c].todo = next.todo
       /\ call'[c].clean = (k.clean /\ ~failed)
  <2> HIDE DEF next
  <2> QED BY <1>1, <1>8, <1>9, <1>11, OutcomeRecord
<1>13. RootsOf(call'[c].event) = roots
  BY <1>12 DEF roots
<1> HIDE DEF next, k
<1>14. CASE ds # Dir
  BY <1>7, <1>9, <1>10, <1>12, <1>13, <1>14 DEF SeenOf
<1>15. CASE ds = Dir /\ next.pc = "index" /\ next.todo = rest
  <2>1. call'[c].clean => \A q \in roots \ rest : \A d \in Dir : <<q, d>> \notin stale'
    BY <1>6, <1>12, <1>15
  <2>2. QED
    BY <1>7, <1>12, <1>13, <1>15, <2>1 DEF SeenOf, IndexesShown
<1>16. CASE ds = Dir /\ rest = {} /\ next.pc = "log" /\ next.todo = roots
  <2>1. call'[c].clean => \A q \in roots : \A d \in Dir : <<q, d>> \notin stale'
    BY <1>6, <1>12, <1>16
  <2>2. QED
    BY <1>7, <1>12, <1>13, <1>16, <2>1 DEF SeenOf, IndexesShown
<1>17. QED
  BY <1>9, <1>14, <1>15, <1>16

\* The log step: the buffer of one more vault is empty, its log's write is found.
LEMMA AppendEventSeen ==
    ASSUME TypeInv, NEW c \in Caller, SeenOf(c), AppendEvent(c)
    PROVE  SeenOf(c)'
<1> DEFINE k == call[c]
           r == Least(k.todo)
           rest == k.todo \ {r}
           roots == RootsOf(k.event)
           ps == Buffered(r, k.op)
           found == k.found \cup FlushEvents(r)
<1>1. /\ TypeOK /\ k \in CallType /\ k.pc = "log" /\ ops \in Nat
      /\ k.found \in SUBSET (Root \X File) /\ stale' = stale
      /\ pending \in [Root -> Seq(1..ops)]
  <2>1. TypeOK /\ k.pc = "log" /\ stale' = stale
    BY DEF TypeInv, AppendEvent
  <2>2. k \in CallType /\ ops \in Nat /\ pending \in [Root -> Seq(1..ops)]
    BY <2>1, BoundAssumption DEF TypeOK
  <2>3. k.found \in SUBSET (Root \X File)
    BY <2>2 DEF CallType
  <2>4. QED
    BY <2>1, <2>2, <2>3
<1>2. /\ r \in k.todo /\ k.todo \subseteq roots /\ roots \subseteq Root
      /\ k.op \in 1..ops /\ ps \in Seq(1..ops)
  BY AppendEventFacts
<1>3. PICK n \in 0..Len(ps), landed \in BOOLEAN :
        /\ FlushTo(r, ps, n, landed)
        /\ Outcome(c, n # Len(ps),
            IF n # Len(ps)
            THEN [k EXCEPT !.pc = "git", !.found = {}, !.todo = {}]
            ELSE IF rest # {}
            THEN [k EXCEPT !.todo = rest, !.found = found]
            ELSE [k EXCEPT !.pc = "git", !.found = {}, !.todo = {},
                           !.derived = @ \cup found])
  BY DEF AppendEvent
<1> DEFINE next == IF n # Len(ps)
                   THEN [k EXCEPT !.pc = "git", !.found = {}, !.todo = {}]
                   ELSE IF rest # {}
                   THEN [k EXCEPT !.todo = rest, !.found = found]
                   ELSE [k EXCEPT !.pc = "git", !.found = {}, !.todo = {},
                                  !.derived = @ \cup found]
<1>4. /\ found \in SUBSET (Root \X File) /\ rest \in SUBSET Root /\ {} \in SUBSET Root
      /\ <<r, "log">> \in found /\ k.found \subseteq found
  BY <1>1, <1>2 DEF FlushEvents, File
<1>5. k.clean => \A q \in roots \ k.todo : pending[q] = << >> /\ <<q, "log">> \in k.found
  BY <1>1 DEF SeenOf
<1>6. k.clean => \A q \in roots : \A d \in Dir : <<q, d>> \notin stale'
  <2>1. k.op # 0
    BY <1>1, <1>2
  <2>2. k.clean => IndexesShown(roots)
    BY <1>1, <2>1 DEF SeenOf, Routing
  <2>3. QED
    BY <1>1, <2>2 DEF IndexesShown
<1>7. \A q \in roots : <<q, "log">> \notin k.event
  BY <1>1 DEF SeenOf, Routing
<1> HIDE DEF found, ps, r
<1>8. /\ \A q \in Root \ {r} : pending[q] = << >> => pending'[q] = << >>
      /\ n = Len(ps) => pending'[r] = << >>
  BY <1>1, <1>2, <1>3, FlushDisturbs DEF Undisturbed
<1>9. n = Len(ps) /\ k.clean =>
        \A q \in roots \ rest : pending'[q] = << >> /\ <<q, "log">> \in found
  BY <1>2, <1>4, <1>5, <1>8
<1> HIDE DEF rest, roots
<1>10. next \in CallType
  <2>1. "git" \in Phases
    BY DEF Phases
  <2>2. /\ [k EXCEPT !.pc = "git", !.found = {}, !.todo = {}] \in CallType
        /\ [k EXCEPT !.todo = rest, !.found = found] \in CallType
        /\ [k EXCEPT !.pc = "git", !.found = {}, !.todo = {}, !.derived = @ \cup found]
             \in CallType
    BY <1>1, <1>4, <2>1, RouteRecord
  <2>3. QED
    BY <2>2
<1>11. /\ next.event = k.event /\ next.clean = k.clean
       /\ \/ n # Len(ps) /\ next.pc = "git"
          \/ n = Len(ps) /\ next.pc = "log" /\ next.todo = rest /\ next.found = found
          \/ /\ n = Len(ps) /\ rest = {} /\ next.pc = "git"
             /\ next.derived = k.derived \cup found
  BY <1>1 DEF CallType
<1>12. PICK failed \in BOOLEAN : failed = (n # Len(ps))
  OBVIOUS
<1>13. Outcome(c, failed, next)
  BY <1>3, <1>12
<1>14. /\ call'[c].pc = next.pc /\ call'[c].event = k.event /\ call'[c].todo = next.todo
       /\ call'[c].found = next.found /\ call'[c].derived = next.derived
       /\ call'[c].clean = (k.clean /\ ~failed)
  <2> HIDE DEF next
  <2> QED BY <1>1, <1>10, <1>11, <1>13, OutcomeRecord
<1>15. RootsOf(call'[c].event) = roots
  BY <1>14 DEF roots
<1> HIDE DEF next, k
<1>16. CASE n # Len(ps)
  BY <1>7, <1>11, <1>12, <1>14, <1>15, <1>16 DEF SeenOf
<1>17. CASE n = Len(ps) /\ next.pc = "log" /\ next.todo = rest /\ next.found = found
  <2>1. call'[c].clean =>
          \A q \in roots \ rest : pending'[q] = << >> /\ <<q, "log">> \in found
    BY <1>9, <1>14, <1>17
  <2>2. call'[c].clean => \A q \in roots : \A d \in Dir : <<q, d>> \notin stale'
    BY <1>6, <1>14
  <2>3. QED
    BY <1>7, <1>14, <1>15, <1>17, <2>1, <2>2 DEF SeenOf, IndexesShown
<1>18. CASE /\ n = Len(ps) /\ rest = {} /\ next.pc = "git"
            /\ next.derived = k.derived \cup found
  <2>1. call'[c].clean =>
          \A q \in roots : pending'[q] = << >> /\ <<q, "log">> \in call'[c].derived
    BY <1>9, <1>14, <1>18
  <2>2. call'[c].clean => \A q \in roots : \A d \in Dir : <<q, d>> \notin stale'
    BY <1>6, <1>14
  <2>3. QED
    BY <1>7, <1>14, <1>15, <1>18, <2>1, <2>2 DEF SeenOf, IndexesShown, LogTold
<1>19. QED
  BY <1>11, <1>16, <1>17, <1>18

\* Git and then search are told the event, and both the writes on the way.
LEMMA ToldSeen ==
    ASSUME TypeInv, NEW c \in Caller, SeenOf(c),
           StageEvent(c) \/ UpdateSearch(c) \/ TellInternal(c)
    PROVE  SeenOf(c)'
<1> DEFINE k == call[c]
           roots == RootsOf(k.event)
<1>1. /\ TypeOK /\ k \in CallType /\ k.pc \in {"git", "search", "internal"}
      /\ stale' = stale /\ pending' = pending /\ dirty \in [Sink -> SUBSET (Root \X File)]
      /\ k.derived \in SUBSET (Root \X File)
  BY DEF TypeInv, TypeOK, StageEvent, UpdateSearch, TellInternal, CallType
<1>2. /\ \A q \in roots : <<q, "log">> \notin k.event
      /\ k.clean /\ k.op # 0 => \A q \in roots : \A d \in Dir : <<q, d>> \notin stale'
      /\ k.clean /\ k.op # 0 =>
            \A q \in roots :
                /\ pending'[q] = << >>
                /\ \A s \in Sink : <<q, "log">> \in dirty[s] => <<q, "log">> \in k.derived
  BY <1>1 DEF SeenOf, IndexesShown, LogTold, Routing
<1>3. /\ k.pc \in {"search", "internal"} /\ k.clean => k.event \cap dirty["git"] = {}
      /\ k.pc = "internal" /\ k.clean => k.event \cap dirty["search"] = {}
  BY DEF SeenOf
<1>4. ASSUME NEW failed \in BOOLEAN, NEW next \in CallType, Outcome(c, failed, next),
             next.pc \in {"search", "internal"}, next.event = k.event,
             next.op = k.op, next.clean = k.clean,
             \A s \in Sink : dirty'[s] \subseteq dirty[s],
             k.clean /\ ~failed => \A s \in Sink : \A q \in roots :
                <<q, "log">> \in dirty'[s] /\ <<q, "log">> \in k.derived
                    => <<q, "log">> \in next.derived,
             k.clean /\ ~failed => k.event \cap dirty'["git"] = {},
             k.clean /\ ~failed /\ next.pc = "internal" => k.event \cap dirty'["search"] = {}
      PROVE  SeenOf(c)'
  <2>1. /\ call'[c].pc = next.pc /\ call'[c].event = k.event /\ call'[c].op = k.op
        /\ call'[c].derived = next.derived /\ call'[c].clean = (k.clean /\ ~failed)
    BY <1>1, <1>4, OutcomeRecord
  <2>2. RootsOf(call'[c].event) = roots
    BY <2>1
  <2> HIDE DEF k, roots
  <2>3. call'[c].clean /\ call'[c].op # 0 =>
          \A q \in roots :
            /\ pending'[q] = << >>
            /\ \A s \in Sink : <<q, "log">> \in dirty'[s] => <<q, "log">> \in call'[c].derived
    BY <1>2, <1>4, <2>1
  <2>4. call'[c].clean /\ call'[c].op # 0 => LogTold(c)'
    BY <2>2, <2>3 DEF LogTold
  <2>5. call'[c].clean /\ call'[c].op # 0 => \A q \in roots : \A d \in Dir : <<q, d>> \notin stale'
    BY <1>2, <2>1
  <2>6. QED
    BY <1>2, <1>4, <2>1, <2>2, <2>4, <2>5 DEF SeenOf, IndexesShown
<1>5. ASSUME NEW s \in Sink, NEW p \in {"search", "internal"}, Tell(c, s, p),
             \/ s = "git" /\ p = "search"
             \/ s = "search" /\ p = "internal" /\ k.pc = "search"
      PROVE  SeenOf(c)'
  <2>1. PICK b \in 1..(RootCount + 1) :
          LET told == {f \in k.event : f[1] < b}
          IN  /\ dirty' = [dirty EXCEPT ![s] = @ \ told]
              /\ Outcome(c, told # k.event, [k EXCEPT !.pc = p])
    BY <1>5 DEF Tell
  <2> DEFINE told == {f \in k.event : f[1] < b}
             next == [k EXCEPT !.pc = p]
  <2>2. \A x \in Sink : dirty'[x] = IF x = s THEN dirty[x] \ told ELSE dirty[x]
    BY <1>1, <2>1
  <2>3. next \in CallType /\ next.pc = p /\ next.event = k.event /\ next.op = k.op
        /\ next.clean = k.clean /\ next.derived = k.derived
    <3>1. p \in Phases
      BY DEF Phases
    <3>2. next \in CallType
      BY <1>1, <3>1, RouteRecord
    <3>3. QED
      BY <1>1, <3>2 DEF CallType
  <2>4. PICK failed \in BOOLEAN : failed = (told # k.event)
    OBVIOUS
  <2>5. Outcome(c, failed, next)
    BY <2>1, <2>4
  <2> HIDE DEF told, next
  <2>6. "git" \in Sink /\ "search" \in Sink
    BY DEF Sink
  <2>7. /\ k.clean /\ ~failed => k.event \cap dirty'["git"] = {}
        /\ k.clean /\ ~failed /\ p = "internal" => k.event \cap dirty'["search"] = {}
    BY <1>3, <1>5, <2>2, <2>4, <2>6
  <2>8. QED
    BY <1>4, <2>2, <2>3, <2>5, <2>7
<1>6. CASE StageEvent(c)
  <2>1. Tell(c, "git", "search") /\ "git" \in Sink
    BY <1>6 DEF StageEvent, Sink
  <2>2. QED
    BY <1>5, <2>1
<1>7. CASE UpdateSearch(c)
  <2>1. Tell(c, "search", "internal") /\ "search" \in Sink /\ k.pc = "search"
    BY <1>7 DEF UpdateSearch, Sink
  <2>2. QED
    BY <1>5, <2>1
<1>8. CASE TellInternal(c)
  <2> DEFINE f == CHOOSE g \in k.derived : TRUE
             next == [k EXCEPT !.derived = @ \ {f}]
  <2>1. PICK told \in SUBSET Sink :
          /\ dirty' = [s \in Sink |-> IF s \in told THEN dirty[s] \ {f} ELSE dirty[s]]
          /\ Outcome(c, told # Sink, next)
    BY <1>8 DEF TellInternal
  <2>2. k.pc = "internal" /\ f \in k.derived
    BY <1>8 DEF TellInternal
  <2>3. next \in CallType /\ next.pc = "internal" /\ next.event = k.event /\ next.op = k.op
        /\ next.clean = k.clean /\ next.derived = k.derived \ {f}
    <3>1. {f} \in SUBSET (Root \X File)
      BY <1>1, <2>2
    <3> HIDE DEF f
    <3>2. next \in CallType
      BY <1>1, <3>1, RouteRecord DEF Phases
    <3>3. QED
      BY <1>1, <2>2, <3>2 DEF CallType
  <2>4. PICK failed \in BOOLEAN : failed = (told # Sink)
    OBVIOUS
  <2>5. Outcome(c, failed, next)
    BY <2>1, <2>4
  <2> HIDE DEF f, next
  <2>6. /\ \A s \in Sink : dirty'[s] \subseteq dirty[s]
        /\ ~failed => \A s \in Sink : f \notin dirty'[s]
    BY <2>1, <2>4
  <2>7. "git" \in Sink /\ "search" \in Sink
    BY DEF Sink
  <2>8. /\ k.clean /\ ~failed => k.event \cap dirty'["git"] = {}
        /\ k.clean /\ ~failed => k.event \cap dirty'["search"] = {}
    BY <1>3, <2>2, <2>6, <2>7
  <2>9. k.clean /\ ~failed => \A s \in Sink : \A q \in roots :
          <<q, "log">> \in dirty'[s] /\ <<q, "log">> \in k.derived
              => <<q, "log">> \in next.derived
    BY <2>3, <2>6
  <2>10. QED
    BY <1>4, <2>3, <2>5, <2>6, <2>8, <2>9
<1>9. QED
  BY <1>6, <1>7, <1>8

\* Every step keeps what clean routes have got done: the step of a call, in the
\* vaults it holds; the last flush, in vaults where records wait.
LEMMA NextSeen == TypeInv /\ SeenInv /\ [Next]_vars => SeenInv'
<1> SUFFICES ASSUME TypeInv, SeenInv, [Next]_vars PROVE SeenInv'
  OBVIOUS
<1>1. ASSUME NEW c \in Caller, Step(c) PROVE SeenInv'
  <2>1. SeenOf(c)'
    <3>1. SeenOf(c)
      BY DEF SeenInv
    <3>2. QED
      BY <1>1, <3>1, UnroutedSeen, MutationSeen, ReconcileSeen, AppendEventSeen, ToldSeen
         DEF Step
  <2>2. ASSUME NEW d \in Caller \ {c} PROVE SeenOf(d)'
    <3>1. call'[d] = call[d]
      BY <1>1, QuietStep, AppendEventFacts, AppendManualFacts
    <3>2. CASE call[d].pc \in Routing
      <4>1. \A r \in RootsOf(call[d].event) : r \in Root /\ lock[r] # c
        BY <3>2, EventVaults
      <4>2. \A r \in RootsOf(call[d].event) : Undisturbed(r)
        BY <1>1, <4>1, StepDisturbs
      <4>3. QED
        BY <3>1, <4>2, SeenKept DEF SeenInv
    <3>3. CASE call[d].pc \notin Routing
      BY <3>1, <3>3, NotRouting
    <3>4. QED
      BY <3>2, <3>3
  <2>3. QED
    BY <2>1, <2>2 DEF SeenInv
<1>2. CASE FlushLog
  <2>1. /\ TypeOK /\ flushAt \in Root /\ pending[flushAt] \in Seq(1..ops) /\ ops \in Nat
        /\ \E n \in 0..Len(pending[flushAt]), landed \in BOOLEAN :
             FlushTo(flushAt, pending[flushAt], n, landed)
        /\ stale' = stale /\ call' = call
    BY <1>2, FlushLogFacts DEF TypeInv
  <2>2. \A r \in Root : Undisturbed(r)
    BY <2>1, FlushDisturbs
  <2>3. \A d \in Caller : \A r \in RootsOf(call[d].event) : Undisturbed(r)
    BY <2>2, EventVaults
  <2>4. QED
    BY <2>1, <2>3, SeenKept DEF SeenInv
<1>3. CASE Shutdown \/ UNCHANGED vars
  <2>1. UNCHANGED <<call, stale, pending, dirty>>
    BY <1>3 DEF Shutdown, vars, vault
  <2>2. \A r : Undisturbed(r)
    BY <2>1 DEF Undisturbed
  <2>3. QED
    BY <2>1, <2>2, SeenKept DEF SeenInv
<1>4. QED
  BY <1>1, <1>2, <1>3 DEF Next

\* What clean routes have got done holds in every reachable state.
LEMMA SeenInvHolds == Spec => []SeenInv
<1>1. Init => SeenInv
  BY DEF Init, Idle, SeenInv, SeenOf, Routing
<1>2. QED
  BY <1>1, TypeInvHolds, NextSeen, PTL DEF Spec

\* A call whose route has met no failure ends it with git and search told of
\* the event and of the logs of its vaults, and with their indexes up to date,
\* whatever other calls and the last flush do in between.
THEOREM CleanRoutesAreSeen == Spec => CleanRouteIsSeen
<1>1. ASSUME TypeInv, SeenInv, NEW c \in Caller, NEW s \in Sink, Routed(c), call[c].clean
      PROVE  /\ call[c].event \cap dirty'[s] = {}
             /\ call[c].op # 0 =>
                 LET roots == RootsOf(call[c].event)
                 IN  /\ (roots \X {"log"}) \cap dirty'[s] = {}
                     /\ (roots \X Dir) \cap stale' = {}
  <2>1. /\ call[c].pc = "internal" /\ call[c].derived = {}
        /\ stale' = stale /\ dirty' = dirty
    BY <1>1 DEF Routed, vault
  <2>2. /\ call[c].event \cap dirty["git"] = {} /\ call[c].event \cap dirty["search"] = {}
        /\ call[c].op # 0 => IndexesShown(RootsOf(call[c].event)) /\ LogTold(c)
    BY <1>1, <2>1 DEF SeenInv, SeenOf, Routing
  <2>3. s = "git" \/ s = "search"
    BY DEF Sink
  <2>4. call[c].event \cap dirty'[s] = {}
    BY <2>1, <2>2, <2>3
  <2>5. ASSUME call[c].op # 0
        PROVE  /\ (RootsOf(call[c].event) \X {"log"}) \cap dirty'[s] = {}
               /\ (RootsOf(call[c].event) \X Dir) \cap stale' = {}
    BY <2>1, <2>2, <2>5 DEF IndexesShown, LogTold
  <2>6. QED
    BY <2>4, <2>5
<1>2. TypeInv /\ SeenInv /\ [Next]_vars =>
        [\A c \in Caller, s \in Sink :
            Routed(c) /\ call[c].clean =>
                /\ call[c].event \cap dirty'[s] = {}
                /\ call[c].op # 0 =>
                    LET roots == RootsOf(call[c].event)
                    IN  /\ (roots \X {"log"}) \cap dirty'[s] = {}
                        /\ (roots \X Dir) \cap stale' = {}]_vars
  BY <1>1
<1>3. QED
  BY <1>2, TypeInvHolds, SeenInvHolds, PTL DEF Spec, CleanRouteIsSeen

-----------------------------------------------------------------------------
(* Calls take turns with their vaults: the steps of VaultTurns.              *)

\* The writes of indexes and logs that a call still has to tell of are in
\* vaults it has locked.
EventsHeld(c) == \A f \in call[c].found \cup call[c].derived : lock[f[1]] = c

EventsInv == \A c \in Caller : EventsHeld(c)

\* A step of a call leaves the other calls and what they hold.
LEMMA OthersKeep ==
    ASSUME TypeInv, NEW c \in Caller, Step(c), NEW d \in Caller \ {c}
    PROVE  /\ call'[d] = call[d]
           /\ \A r \in Root : (lock'[r] = d) <=> (lock[r] = d)
<1>1. call'[d] = call[d]
  BY QuietStep, AppendEventFacts, AppendManualFacts
<1>2. CASE Lock(c)
  <2>1. PICK r : lock[r] = Nil /\ lock' = [lock EXCEPT ![r] = c]
    BY <1>2 DEF Lock, Free
  <2>2. lock \in [Root -> Caller \cup {Nil}]
    BY DEF TypeInv, TypeOK
  <2>3. QED
    BY <1>1, <2>1, <2>2, NilAssumption
<1>3. CASE Finish(c) \/ Dropped(c)
  <2>1. lock' = [r \in Root |-> IF lock[r] = c THEN Nil ELSE lock[r]]
    BY <1>3 DEF Finish, Dropped, Unlocked
  <2>2. QED
    BY <1>1, <2>1, NilAssumption
<1>4. CASE ~Lock(c) /\ ~Finish(c) /\ ~Dropped(c)
  <2>1. lock' = lock
    BY <1>4 DEF Step, Begin, Mutate, ClearIndex, AppendManual, RebuildIndexes, Reconcile,
                AppendEvent, StageEvent, UpdateSearch, TellInternal, Routed
  <2>2. QED
    BY <1>1, <2>1
<1>5. QED
  BY <1>2, <1>3, <1>4

\* Steps that find nothing to tell of.
LEMMA QuietEvents ==
    ASSUME TypeInv, NEW c \in Caller, EventsHeld(c),
           \/ Begin(c) \/ Lock(c) \/ Finish(c) \/ Dropped(c) \/ Routed(c)
           \/ Mutate(c) \/ ClearIndex(c) \/ AppendManual(c) \/ RebuildIndexes(c)
           \/ StageEvent(c) \/ UpdateSearch(c) \/ TellInternal(c)
    PROVE  EventsHeld(c)'
<1>1. /\ TypeOK /\ call \in [Caller -> CallType] /\ call[c] \in CallType
      /\ lock \in [Root -> Caller \cup {Nil}]
  BY DEF TypeInv, TypeOK
<1>2. ASSUME NEW new, call' = [call EXCEPT ![c] = new], lock' = lock,
             \/ new.found = {} /\ new.derived = {}
             \/ new.found = call[c].found /\ new.derived = call[c].derived
      PROVE  EventsHeld(c)'
  BY <1>1, <1>2 DEF EventsHeld
<1>3. CASE Begin(c)
  <2>1. PICK ask, kind :
          call' = [call EXCEPT ![c] = [Idle EXCEPT !.pc = "waiting",
                                                   !.kind = kind, !.ask = ask]]
    BY <1>3 DEF Begin
  <2> DEFINE new == [Idle EXCEPT !.pc = "waiting", !.kind = kind, !.ask = ask]
  <2>2. new.found = {} /\ new.derived = {} /\ lock' = lock
    BY <1>3 DEF Idle, Begin
  <2> HIDE DEF new
  <2>3. QED
    BY <1>2, <2>1, <2>2 DEF new
<1>4. CASE Lock(c)
  <2>1. PICK r : lock[r] = Nil /\ lock' = [lock EXCEPT ![r] = c]
    BY <1>4 DEF Lock, Free
  <2>2. call'[c].found = call[c].found /\ call'[c].derived = call[c].derived
    <3>1. call' = call \/ call' = [call EXCEPT ![c].pc = "locked", ![c].ask = << >>]
      BY <1>4 DEF Lock
    <3>2. QED
      BY <1>1, <3>1 DEF CallType
  <2>3. QED
    BY <1>1, <2>1, <2>2, NilAssumption DEF EventsHeld
<1>5. CASE Finish(c) \/ Dropped(c)
  <2>1. call'[c] = Idle
    BY <1>1, <1>5 DEF Finish, Dropped
  <2>2. QED
    BY <2>1 DEF Idle, EventsHeld
<1>6. CASE Routed(c)
  <2>1. [Idle EXCEPT !.pc = "locked"].found = {} /\ [Idle EXCEPT !.pc = "locked"].derived = {}
    BY DEF Idle
  <2>2. QED
    BY <1>2, <1>6, <2>1 DEF Routed
<1>7. CASE Mutate(c)
  <2>1. PICK rs \in (SUBSET Held(c)) \ {{}} :
          call' = [call EXCEPT ![c].pc = "index", ![c].event = rs \X {"note"},
                               ![c].todo = rs, ![c].op = NextOp, ![c].clean = TRUE]
    BY <1>7 DEF Mutate
  <2> DEFINE new == Mutated(call[c], rs \X {"note"}, rs, NextOp)
  <2>2. call' = [call EXCEPT ![c] = new] /\ lock' = lock
    BY <1>1, <1>7, <2>1 DEF Mutated, Mutate
  <2>3. new.found = call[c].found /\ new.derived = call[c].derived
    BY <1>1 DEF Mutated, CallType
  <2> HIDE DEF new
  <2>4. QED
    BY <1>2, <2>2, <2>3
<1>8. CASE ClearIndex(c)
  <2>1. PICK r \in Held(c) :
          call' = [call EXCEPT ![c].pc = "git", ![c].event = {<<r, "folder">>},
                               ![c].op = 0, ![c].clean = TRUE]
    BY <1>8 DEF ClearIndex
  <2> DEFINE new == Cleared(call[c], {<<r, "folder">>})
  <2>2. call' = [call EXCEPT ![c] = new] /\ lock' = lock
    BY <1>1, <1>8, <2>1 DEF Cleared, ClearIndex
  <2>3. new.found = call[c].found /\ new.derived = call[c].derived
    BY <1>1 DEF Cleared, CallType
  <2> HIDE DEF new
  <2>4. QED
    BY <1>2, <2>2, <2>3
<1>9. ASSUME NEW p \in Phases, NEW failed \in BOOLEAN,
             Outcome(c, failed, [call[c] EXCEPT !.pc = p]), lock' = lock
      PROVE  EventsHeld(c)'
  <2> DEFINE next == [call[c] EXCEPT !.pc = p]
  <2>1. next \in CallType /\ next.found = call[c].found /\ next.derived = call[c].derived
    <3>1. next \in CallType
      BY <1>1, RouteRecord
    <3>2. QED
      BY <1>1, <3>1 DEF CallType
  <2> HIDE DEF next
  <2>2. call'[c].found = call[c].found /\ call'[c].derived = call[c].derived
    BY <1>1, <1>9, <2>1, OutcomeRecord DEF next
  <2>3. QED
    BY <1>9, <2>2 DEF EventsHeld
<1>10. CASE AppendManual(c) \/ RebuildIndexes(c)
  <2>1. \E failed \in BOOLEAN : Outcome(c, failed, [call[c] EXCEPT !.pc = "ending"])
    BY <1>10 DEF AppendManual, RebuildIndexes
  <2>2. "ending" \in Phases /\ lock' = lock
    BY <1>10 DEF AppendManual, RebuildIndexes, Phases
  <2>3. QED
    BY <1>9, <2>1, <2>2
<1>11. CASE StageEvent(c) \/ UpdateSearch(c)
  <2>1. PICK p \in {"search", "internal"} :
          \E failed \in BOOLEAN : Outcome(c, failed, [call[c] EXCEPT !.pc = p])
    BY <1>11 DEF StageEvent, UpdateSearch, Tell
  <2>2. p \in Phases /\ lock' = lock
    BY <1>11 DEF StageEvent, UpdateSearch, Phases
  <2>3. QED
    BY <1>9, <2>1, <2>2
<1>12. CASE TellInternal(c)
  <2> DEFINE f == CHOOSE g \in call[c].derived : TRUE
             next == [call[c] EXCEPT !.derived = @ \ {f}]
  <2>1. f \in call[c].derived /\ lock' = lock
        /\ \E failed \in BOOLEAN : Outcome(c, failed, next)
    BY <1>12 DEF TellInternal
  <2>2. next \in CallType /\ next.found = call[c].found
        /\ next.derived = call[c].derived \ {f}
    <3>1. {f} \in SUBSET (Root \X File)
      BY <1>1, <2>1 DEF CallType
    <3> HIDE DEF f
    <3>2. next \in CallType
      BY <1>1, <3>1, RouteRecord DEF Phases
    <3>3. QED
      BY <1>1, <3>2 DEF CallType
  <2> HIDE DEF f, next
  <2>3. call'[c].found = call[c].found /\ call'[c].derived = call[c].derived \ {f}
    BY <1>1, <2>1, <2>2, OutcomeRecord
  <2>4. QED
    BY <2>1, <2>3 DEF EventsHeld
<1>13. QED
  BY <1>3, <1>4, <1>5, <1>6, <1>7, <1>8, <1>10, <1>11, <1>12

\* The index step finds writes in the vault it is at, and goes on to the log.
LEMMA ReconcileEvents ==
    ASSUME TypeInv, NEW c \in Caller, EventsHeld(c), Reconcile(c)
    PROVE  EventsHeld(c)' /\ call'[c].pc \in {"index", "log"}
<1> DEFINE k == call[c]
           r == Least(k.todo)
           rest == k.todo \ {r}
           roots == RootsOf(k.event)
<1>1. /\ TypeOK /\ k \in CallType /\ k.pc = "index" /\ lock' = lock
      /\ k.todo # {} /\ k.todo \subseteq roots /\ roots \subseteq Root
      /\ k.found \in SUBSET (Root \X File) /\ \A q \in roots : lock[q] = c
  <2>1. TypeOK /\ k \in CallType /\ k.pc = "index" /\ HoldOf(c) /\ lock' = lock
    BY DEF TypeInv, TypeOK, HoldInv, Reconcile
  <2>2. roots \subseteq Root /\ \A q \in roots : lock[q] = c
    BY <2>1, EventVaults DEF Routing
  <2>3. QED
    BY <2>1, <2>2 DEF HoldOf, CallType
<1>2. r \in k.todo /\ lock[r] = c
  BY <1>1, RootsAreNat, LeastIsMember
<1>3. PICK ds \in Reconciled :
        LET found == k.found \cup (stale \cap ({r} \X ds))
        IN  Outcome(c, ds # Dir,
                IF ds # Dir
                THEN [k EXCEPT !.pc = "log", !.found = {}, !.todo = roots]
                ELSE IF rest # {}
                THEN [k EXCEPT !.todo = rest, !.found = found]
                ELSE [k EXCEPT !.pc = "log", !.found = {}, !.derived = found,
                               !.todo = roots])
  BY DEF Reconcile
<1> DEFINE written == stale \cap ({r} \X ds)
           found == k.found \cup written
           next == IF ds # Dir
                   THEN [k EXCEPT !.pc = "log", !.found = {}, !.todo = roots]
                   ELSE IF rest # {}
                   THEN [k EXCEPT !.todo = rest, !.found = found]
                   ELSE [k EXCEPT !.pc = "log", !.found = {}, !.derived = found,
                                  !.todo = roots]
<1>4. /\ found \in SUBSET (Root \X File) /\ \A f \in written : lock[f[1]] = c
  BY <1>1, <1>2 DEF TypeInv, TypeOK, File
<1> HIDE DEF written, rest, roots, r
<1>5. /\ next \in CallType
      /\ next.found \subseteq found /\ next.derived \subseteq k.derived \cup found
      /\ next.pc \in {"index", "log"}
  <2>1. "log" \in Phases /\ roots \in SUBSET Root /\ rest \in SUBSET Root
    BY <1>1 DEF Phases, rest
  <2> HIDE DEF found
  <2>2. next \in CallType
    BY <1>1, <1>4, <2>1, RouteRecord
  <2>3. k.found \subseteq found
    BY DEF found
  <2>4. QED
    BY <1>1, <2>2, <2>3 DEF CallType
<1>6. PICK failed \in BOOLEAN : Outcome(c, failed, next)
  BY <1>3 DEF written
<1> HIDE DEF next
<1>7. call'[c].found = next.found /\ call'[c].derived = next.derived /\ call'[c].pc = next.pc
  BY <1>1, <1>5, <1>6, OutcomeRecord
<1>8. QED
  BY <1>1, <1>4, <1>5, <1>7 DEF EventsHeld

\* The log step finds the write of the log it is at.
LEMMA AppendEvents ==
    ASSUME TypeInv, NEW c \in Caller, EventsHeld(c), AppendEvent(c)
    PROVE  EventsHeld(c)'
<1> DEFINE k == call[c]
           r == Least(k.todo)
           rest == k.todo \ {r}
           roots == RootsOf(k.event)
           ps == Buffered(r, k.op)
           found == k.found \cup FlushEvents(r)
<1>1. /\ TypeOK /\ k \in CallType /\ k.pc = "log" /\ lock' = lock
      /\ k.found \in SUBSET (Root \X File) /\ \A q \in roots : lock[q] = c
  <2>1. TypeOK /\ k \in CallType /\ k.pc = "log" /\ lock' = lock
    BY DEF TypeInv, TypeOK, AppendEvent
  <2>2. \A q \in roots : lock[q] = c
    BY <2>1, EventVaults DEF Routing
  <2>3. QED
    BY <2>1, <2>2 DEF CallType
<1>2. r \in k.todo /\ k.todo \subseteq roots /\ roots \subseteq Root
  BY AppendEventFacts
<1>3. PICK n \in 0..Len(ps), landed \in BOOLEAN :
          Outcome(c, n # Len(ps),
            IF n # Len(ps)
            THEN [k EXCEPT !.pc = "git", !.found = {}, !.todo = {}]
            ELSE IF rest # {}
            THEN [k EXCEPT !.todo = rest, !.found = found]
            ELSE [k EXCEPT !.pc = "git", !.found = {}, !.todo = {},
                           !.derived = @ \cup found])
  BY DEF AppendEvent
<1> DEFINE next == IF n # Len(ps)
                   THEN [k EXCEPT !.pc = "git", !.found = {}, !.todo = {}]
                   ELSE IF rest # {}
                   THEN [k EXCEPT !.todo = rest, !.found = found]
                   ELSE [k EXCEPT !.pc = "git", !.found = {}, !.todo = {},
                                  !.derived = @ \cup found]
<1>4. /\ found \in SUBSET (Root \X File) /\ \A f \in FlushEvents(r) : lock[f[1]] = c
      /\ rest \in SUBSET Root /\ {} \in SUBSET Root
  BY <1>1, <1>2 DEF FlushEvents, File
<1> HIDE DEF rest, roots, r, ps
<1>5. /\ next \in CallType
      /\ next.found \subseteq found /\ next.derived \subseteq k.derived \cup found
  <2>1. "git" \in Phases
    BY DEF Phases
  <2>2. k.found \subseteq found
    OBVIOUS
  <2> HIDE DEF found
  <2>3. next \in CallType
    BY <1>1, <1>4, <2>1, RouteRecord
  <2>4. QED
    BY <1>1, <2>2, <2>3 DEF CallType
<1>6. PICK failed \in BOOLEAN : Outcome(c, failed, next)
  BY <1>3
<1> HIDE DEF next
<1>7. call'[c].found = next.found /\ call'[c].derived = next.derived
  BY <1>1, <1>5, <1>6, OutcomeRecord
<1>8. QED
  BY <1>1, <1>4, <1>5, <1>7 DEF EventsHeld

LEMMA NextEvents == TypeInv /\ EventsInv /\ [Next]_vars => EventsInv'
<1> SUFFICES ASSUME TypeInv, EventsInv, [Next]_vars PROVE EventsInv'
  OBVIOUS
<1>1. ASSUME NEW c \in Caller, Step(c) PROVE EventsInv'
  <2>1. EventsHeld(c)'
    <3>1. EventsHeld(c)
      BY DEF EventsInv
    <3>2. QED
      BY <1>1, <3>1, QuietEvents, ReconcileEvents, AppendEvents DEF Step
  <2>2. ASSUME NEW d \in Caller \ {c} PROVE EventsHeld(d)'
    <3>1. call'[d] = call[d] /\ \A r \in Root : (lock'[r] = d) <=> (lock[r] = d)
      BY <1>1, OthersKeep
    <3>2. \A f \in call[d].found \cup call[d].derived : f[1] \in Root
      <4>1. call[d] \in CallType
        BY DEF TypeInv, TypeOK
      <4>2. QED
        BY <4>1 DEF CallType
    <3>3. QED
      BY <3>1, <3>2 DEF EventsInv, EventsHeld
  <2>3. QED
    BY <2>1, <2>2 DEF EventsInv
<1>2. CASE FlushLog \/ Shutdown \/ UNCHANGED vars
  BY <1>2 DEF FlushLog, Shutdown, vars, EventsInv, EventsHeld
<1>3. QED
  BY <1>1, <1>2 DEF Next

LEMMA EventsInvHolds == Spec => []EventsInv
<1>1. Init => EventsInv
  BY DEF Init, Idle, EventsInv, EventsHeld
<1>2. QED
  BY <1>1, TypeInvHolds, NextEvents, PTL DEF Spec

\* A step that changes nothing of vault q.
Steady(q) ==
    /\ \A d \in Dir : <<q, d>> \in stale' <=> <<q, d>> \in stale
    /\ \A s \in Sink : \A x \in File : <<q, x>> \in dirty'[s] <=> <<q, x>> \in dirty[s]
    /\ log'[q] = log[q] /\ pending'[q] = pending[q]

LEMMA SteadyIsUntouched ==
    ASSUME NEW q \in Root, Steady(q)
    PROVE  Turns!Untouched(q)
<1>1. Outdated[q] = {d \in Dir : <<q, d>> \in stale}
      /\ Outdated'[q] = {d \in Dir : <<q, d>> \in stale'}
  BY DEF Outdated
<1>2. Untold[q] = {u \in Sink \X File : <<q, u[2]>> \in dirty[u[1]]}
      /\ Untold'[q] = {u \in Sink \X File : <<q, u[2]>> \in dirty'[u[1]]}
  BY DEF Untold
<1>3. Outdated'[q] = Outdated[q]
  BY <1>1 DEF Steady
<1>4. Untold'[q] = Untold[q]
  <2>1. \A u \in Sink \X File : u[1] \in Sink /\ u[2] \in File
    OBVIOUS
  <2>2. QED
    BY <1>2, <2>1 DEF Steady
<1>5. QED
  BY <1>3, <1>4 DEF Steady, Turns!Untouched

\* The lines and records of a vault as elements of sequences.
LEMMA RecordsAreElements ==
    ASSUME NEW lines, NEW buffer
    PROVE  Turns!Records(lines, buffer) = Elements(lines) \cup Elements(buffer)
BY DEF Turns!Records, Elements

\* A flush of vault r leaves the other vaults, adds lines and keeps the records.
LEMMA FlushTurn ==
    ASSUME TypeOK, NEW r \in Root, NEW top \in Nat, ops <= top,
           NEW ps \in Seq(1..top), NEW n \in 0..Len(ps), NEW landed \in BOOLEAN,
           FlushTo(r, ps, n, landed), stale' = stale,
           Elements(pending[r]) \subseteq Elements(ps)
    PROVE  /\ \A q \in Root \ {r} : Steady(q)
           /\ \A q \in Root : /\ Turns!LinesStay(q)
                              /\ Turns!Records(log[q], pending[q])
                                   \subseteq Turns!Records(log'[q], pending'[q])
           /\ Elements(log'[r]) \cup Elements(pending'[r]) = Elements(log[r]) \cup Elements(ps)
<1>1. /\ \A q \in Root \ {r} : log'[q] = log[q] /\ pending'[q] = pending[q]
      /\ Elements(log'[r]) \cup Elements(pending'[r]) = Elements(log[r]) \cup Elements(ps)
  BY FlushFacts
<1>2. ASSUME NEW q \in Root \ {r} PROVE Steady(q)
  <2>1. \A s \in Sink : \A x \in File : <<q, x>> \in dirty'[s] <=> <<q, x>> \in dirty[s]
    BY DEF FlushTo, Dirtied
  <2>2. QED
    BY <1>1, <2>1 DEF Steady
<1>3. ops \in Nat /\ \A q \in Root : log[q] \in Seq(1..ops)
  BY BoundAssumption DEF TypeOK
<1>4. Turns!LinesStay(r)
  <2> DEFINE m == IF landed THEN n + 1 ELSE n
             h == SubSeq(ps, 1, m)
  <2>1. n \in Nat /\ Len(ps) \in Nat /\ m \in Nat /\ m <= Len(ps)
    BY DEF FlushTo
  <2>2. log'[r] = log[r] \o h
    BY DEF FlushTo, TypeOK
  <2>3. h \in Seq(1..top)
    <3>1. \A i \in 1..Len(ps) : ps[i] \in 1..top
      BY ElementOfSeq
    <3>2. QED
      BY <2>1, <3>1, SubSeqProperties
  <2> HIDE DEF h
  <2>4. log[r] \in Seq(Nat) /\ h \in Seq(Nat)
    <3>1. 1..ops \subseteq Nat /\ 1..top \subseteq Nat
      BY <1>3
    <3>2. log[r] \in Seq(1..top)
      BY <1>3, SeqGrows
    <3>3. log[r] \in Seq(Nat)
      BY <3>1, <3>2
    <3>4. QED
      BY <2>3, <3>1, <3>3
  <2>5. /\ Len(log[r] \o h) = Len(log[r]) + Len(h) /\ Len(log[r]) \in Nat /\ Len(h) \in Nat
        /\ \A i \in 1..Len(log[r]) : (log[r] \o h)[i] = log[r][i]
    BY <2>4, ConcatProperties
  <2>6. QED
    BY <2>2, <2>5 DEF Turns!LinesStay
<1>5. ASSUME NEW q \in Root
      PROVE  /\ Turns!LinesStay(q)
             /\ Turns!Records(log[q], pending[q]) \subseteq Turns!Records(log'[q], pending'[q])
  <2>1. CASE q = r
    BY <1>1, <1>4, <2>1, RecordsAreElements
  <2>2. CASE q # r
    <3>1. log'[q] = log[q] /\ pending'[q] = pending[q] /\ Len(log[q]) \in Nat
      BY <1>1, <1>3, <2>2
    <3>2. QED
      BY <3>1 DEF Turns!LinesStay
  <2>3. QED
    BY <2>1, <2>2
<1>6. QED
  BY <1>1, <1>2, <1>5

\* A record is buffered after those that wait.
LEMMA BufferedElements ==
    ASSUME TypeInv, NEW r \in Root, NEW op \in Nat
    PROVE  Elements(pending[r]) \subseteq Elements(Buffered(r, op))
BY KnownFacts, AppendElements DEF Buffered

\* A step of a call changes nothing of a vault that the call has not locked.
LEMMA StepSteady ==
    ASSUME TypeInv, EventsInv, NEW c \in Caller, Step(c), NEW q \in Root, lock[q] # c
    PROVE  Steady(q)
<1>1. /\ TypeOK /\ HoldOf(c) /\ dirty \in [Sink -> SUBSET (Root \X File)]
  BY DEF TypeInv, TypeOK, HoldInv
<1>2. CASE Begin(c) \/ Lock(c) \/ Finish(c) \/ Dropped(c) \/ Routed(c)
  <2>1. UNCHANGED <<stale, pending, dirty, log>>
    BY <1>2 DEF Begin, Lock, Finish, Dropped, Routed, vault
  <2>2. QED
    BY <2>1 DEF Steady
<1>3. CASE Mutate(c)
  <2>1. PICK rs \in (SUBSET Held(c)) \ {{}} :
          /\ \E change \in [rs -> Changes] :
                stale' = stale \cup {f \in rs \X Dir : f[2] \in change[f[1]]}
          /\ dirty' = Dirtied(rs \X {"note"})
    BY <1>3 DEF Mutate
  <2>2. q \notin rs /\ pending' = pending /\ log' = log
    BY <1>3 DEF Held, Mutate
  <2>3. \A s \in Sink : \A x : <<q, x>> \in dirty'[s] <=> <<q, x>> \in dirty[s]
    BY <2>1, <2>2 DEF Dirtied
  <2>4. \A d \in Dir : <<q, d>> \in stale' <=> <<q, d>> \in stale
    BY <2>1, <2>2
  <2>5. QED
    BY <2>2, <2>3, <2>4 DEF Steady
<1>4. CASE ClearIndex(c)
  <2>1. PICK r \in Held(c) : /\ stale' = stale \cup {<<r, "folder">>}
                             /\ dirty' = Dirtied({<<r, "folder">>})
    BY <1>4 DEF ClearIndex
  <2>2. q # r /\ pending' = pending /\ log' = log
    BY <1>4 DEF Held, ClearIndex
  <2>3. QED
    BY <2>1, <2>2 DEF Steady, Dirtied
<1>5. CASE Reconcile(c)
  <2>1. Least(call[c].todo) # q
    <3>1. call[c].pc = "index" /\ call[c].todo # {}
          /\ call[c].todo \subseteq RootsOf(call[c].event)
      BY <1>1, <1>5 DEF Reconcile, HoldOf
    <3>2. RootsOf(call[c].event) \subseteq Root
          /\ \A r \in RootsOf(call[c].event) : lock[r] = c
      BY <3>1, EventVaults DEF Routing
    <3>3. Least(call[c].todo) \in call[c].todo
      BY <3>1, <3>2, RootsAreNat, LeastIsMember
    <3>4. QED
      BY <3>1, <3>2, <3>3
  <2>2. PICK ds : LET written == stale \cap ({Least(call[c].todo)} \X ds)
                  IN  stale' = stale \ written /\ dirty' = Dirtied(written)
    BY <1>5 DEF Reconcile
  <2>3. pending' = pending /\ log' = log
    BY <1>5 DEF Reconcile
  <2>4. QED
    BY <2>1, <2>2, <2>3 DEF Steady, Dirtied
<1>6. CASE RebuildIndexes(c)
  <2>1. PICK ds : LET written == stale \cap (Held(c) \X ds)
                  IN  stale' = stale \ written /\ dirty' = Dirtied(written)
    BY <1>6 DEF RebuildIndexes
  <2>2. pending' = pending /\ log' = log /\ q \notin Held(c)
    BY <1>6 DEF RebuildIndexes, Held
  <2>3. QED
    BY <2>1, <2>2 DEF Steady, Dirtied
<1>7. CASE StageEvent(c) \/ UpdateSearch(c)
  <2>1. PICK s \in Sink : \E told \in SUBSET call[c].event : dirty' = [dirty EXCEPT ![s] = @ \ told]
    <3>1. \A b : {f \in call[c].event : f[1] < b} \in SUBSET call[c].event
      OBVIOUS
    <3>2. "git" \in Sink /\ "search" \in Sink
      BY DEF Sink
    <3>3. QED
      BY <1>7, <3>1, <3>2 DEF StageEvent, UpdateSearch, Tell
  <2>2. stale' = stale /\ pending' = pending /\ log' = log /\ call[c].pc \in Routing
    BY <1>7 DEF StageEvent, UpdateSearch, Routing
  <2>3. \A x : <<q, x>> \notin call[c].event
    BY <2>2, EventVaults
  <2>4. QED
    BY <1>1, <2>1, <2>2, <2>3 DEF Steady
<1>8. CASE TellInternal(c)
  <2> DEFINE f == CHOOSE g \in call[c].derived : TRUE
  <2>1. f[1] # q
    BY <1>8 DEF TellInternal, EventsInv, EventsHeld
  <2>2. PICK told \in SUBSET Sink :
          dirty' = [s \in Sink |-> IF s \in told THEN dirty[s] \ {f} ELSE dirty[s]]
    BY <1>8 DEF TellInternal
  <2> HIDE DEF f
  <2>3. stale' = stale /\ pending' = pending /\ log' = log
    BY <1>8 DEF TellInternal
  <2>4. QED
    BY <2>1, <2>2, <2>3 DEF Steady
<1>9. CASE AppendEvent(c)
  <2> DEFINE r == Least(call[c].todo)
             ps == Buffered(r, call[c].op)
  <2>1. /\ r \in Root /\ lock[r] = c /\ ps \in Seq(1..ops) /\ ops \in Nat
        /\ call[c].op \in Nat
        /\ \E n \in 0..Len(ps), landed \in BOOLEAN : FlushTo(r, ps, n, landed)
    <3>1. /\ r \in call[c].todo /\ call[c].todo \subseteq RootsOf(call[c].event)
          /\ RootsOf(call[c].event) \subseteq Root /\ ps \in Seq(1..ops) /\ call[c].pc = "log"
          /\ call[c].op \in 1..ops
          /\ \E n \in 0..Len(ps), landed \in BOOLEAN : FlushTo(r, ps, n, landed)
      BY <1>9, AppendEventFacts
    <3>2. ops \in Nat
      BY <1>1, BoundAssumption DEF TypeOK
    <3> HIDE DEF r, ps
    <3>3. QED
      BY <3>1, <3>2, EventVaults DEF Routing
  <2>2. Elements(pending[r]) \subseteq Elements(ps)
    BY <2>1, BufferedElements
  <2> HIDE DEF r, ps
  <2>3. q \in Root \ {r} /\ stale' = stale
    BY <1>9, <2>1 DEF AppendEvent
  <2>4. QED
    BY <1>1, <2>1, <2>2, <2>3, FlushTurn
<1>10. CASE AppendManual(c)
  <2> DEFINE r == Least(Held(c))
             ps == Buffered(r, NextOp)
  <2>1. /\ r \in Root /\ lock[r] = c /\ ps \in Seq(1..ops') /\ ops' \in Nat
        /\ NextOp \in Nat /\ ops <= ops'
        /\ \E n \in 0..Len(ps), landed \in BOOLEAN : FlushTo(r, ps, n, landed)
    <3>1. ops \in Nat
      BY <1>1, BoundAssumption DEF TypeOK
    <3>2. QED
      BY <1>10, <3>1, AppendManualFacts
  <2>2. Elements(pending[r]) \subseteq Elements(ps)
    BY <2>1, BufferedElements
  <2> HIDE DEF r, ps
  <2>3. q \in Root \ {r} /\ stale' = stale
    BY <1>10, <2>1 DEF AppendManual
  <2>4. QED
    BY <1>1, <2>1, <2>2, <2>3, FlushTurn
<1>11. QED
  BY <1>2, <1>3, <1>4, <1>5, <1>6, <1>7, <1>8, <1>9, <1>10 DEF Step

\* A step of a call adds lines to logs and keeps every record.
LEMMA StepKeepsRecords ==
    ASSUME TypeInv, NEW c \in Caller, Step(c), NEW q \in Root
    PROVE  /\ Turns!LinesStay(q)
           /\ Turns!Records(log[q], pending[q]) \subseteq Turns!Records(log'[q], pending'[q])
<1>1. TypeOK /\ ops \in Nat /\ log[q] \in Seq(1..ops)
  BY BoundAssumption DEF TypeInv, TypeOK
<1>2. CASE ~AppendEvent(c) /\ ~AppendManual(c)
  <2>1. log' = log /\ pending' = pending
    BY <1>2, QuietStep
  <2>2. QED
    BY <1>1, <2>1 DEF Turns!LinesStay
<1>3. ASSUME NEW r \in Root, NEW top \in Nat, ops <= top, NEW op \in Nat,
             Buffered(r, op) \in Seq(1..top), stale' = stale,
             \E n \in 0..Len(Buffered(r, op)), landed \in BOOLEAN :
                FlushTo(r, Buffered(r, op), n, landed)
      PROVE  /\ Turns!LinesStay(q)
             /\ Turns!Records(log[q], pending[q]) \subseteq Turns!Records(log'[q], pending'[q])
  <2> DEFINE ps == Buffered(r, op)
  <2>1. Elements(pending[r]) \subseteq Elements(ps)
    BY BufferedElements
  <2>2. /\ ps \in Seq(1..top)
        /\ \E n \in 0..Len(ps), landed \in BOOLEAN : FlushTo(r, ps, n, landed)
    BY <1>3
  <2> HIDE DEF ps
  <2>3. QED
    BY <1>1, <1>3, <2>1, <2>2, FlushTurn
<1>4. CASE AppendEvent(c)
  <2>1. /\ Least(call[c].todo) \in Root /\ call[c].op \in Nat
        /\ Buffered(Least(call[c].todo), call[c].op) \in Seq(1..ops)
        /\ \E n \in 0..Len(Buffered(Least(call[c].todo), call[c].op)), landed \in BOOLEAN :
             FlushTo(Least(call[c].todo), Buffered(Least(call[c].todo), call[c].op), n, landed)
    BY <1>4, AppendEventFacts
  <2>2. stale' = stale /\ ops <= ops
    BY <1>1, <1>4 DEF AppendEvent
  <2>3. QED
    BY <1>1, <1>3, <2>1, <2>2
<1>5. CASE AppendManual(c)
  <2>1. /\ Least(Held(c)) \in Root /\ NextOp \in Nat /\ ops' \in Nat /\ ops <= ops'
        /\ Buffered(Least(Held(c)), NextOp) \in Seq(1..ops')
        /\ \E n \in 0..Len(Buffered(Least(Held(c)), NextOp)), landed \in BOOLEAN :
             FlushTo(Least(Held(c)), Buffered(Least(Held(c)), NextOp), n, landed)
    BY <1>1, <1>5, AppendManualFacts
  <2>2. stale' = stale
    BY <1>5 DEF AppendManual
  <2>3. QED
    BY <1>3, <2>1, <2>2
<1>6. QED
  BY <1>2, <1>4, <1>5

\* A step that is no start, lock or end of a call leaves it with its vaults.
LEMMA WorkGoesOn ==
    ASSUME TypeInv, EventsInv, NEW c \in Caller,
           \/ Mutate(c) \/ ClearIndex(c) \/ AppendManual(c) \/ RebuildIndexes(c)
           \/ Reconcile(c) \/ AppendEvent(c)
           \/ StageEvent(c) \/ UpdateSearch(c) \/ TellInternal(c) \/ Routed(c)
    PROVE  /\ call[c].pc # "waiting" /\ call'[c].pc # "waiting"
           /\ lock' = lock /\ flushAt' = flushAt
<1>1. TypeOK /\ call \in [Caller -> CallType] /\ call[c] \in CallType
  BY DEF TypeInv, TypeOK
<1>2. call[c].pc # "waiting" /\ lock' = lock /\ flushAt' = flushAt
  BY DEF Mutate, ClearIndex, AppendManual, RebuildIndexes, Reconcile, AppendEvent,
         StageEvent, UpdateSearch, TellInternal, Routed, vault
<1>3. CASE Mutate(c) \/ ClearIndex(c)
  <2>1. CASE Mutate(c)
    <3>1. PICK event, todo :
            call' = [call EXCEPT ![c].pc = "index", ![c].event = event, ![c].todo = todo,
                                 ![c].op = NextOp, ![c].clean = TRUE]
      BY <2>1 DEF Mutate
    <3>2. call'[c] = Mutated(call[c], event, todo, NextOp)
      BY <1>1, <3>1 DEF Mutated
    <3>3. Mutated(call[c], event, todo, NextOp).pc = "index"
      BY <1>1 DEF Mutated, CallType
    <3>4. QED
      BY <1>2, <3>2, <3>3
  <2>2. CASE ClearIndex(c)
    <3>1. PICK event :
            call' = [call EXCEPT ![c].pc = "git", ![c].event = event,
                                 ![c].op = 0, ![c].clean = TRUE]
      BY <2>2 DEF ClearIndex
    <3>2. call'[c] = Cleared(call[c], event)
      BY <1>1, <3>1 DEF Cleared
    <3>3. Cleared(call[c], event).pc = "git"
      BY <1>1 DEF Cleared, CallType
    <3>4. QED
      BY <1>2, <3>2, <3>3
  <2>3. QED
    BY <1>3, <2>1, <2>2
<1>4. ASSUME NEW p \in Phases \ {"waiting"}, NEW failed \in BOOLEAN,
             Outcome(c, failed, [call[c] EXCEPT !.pc = p])
      PROVE  call'[c].pc # "waiting"
  <2> DEFINE next == [call[c] EXCEPT !.pc = p]
  <2>1. next \in CallType /\ next.pc = p
    <3>1. next \in CallType
      BY <1>1, RouteRecord
    <3>2. QED
      BY <1>1, <3>1 DEF CallType
  <2> HIDE DEF next
  <2>2. QED
    BY <1>1, <1>4, <2>1, OutcomeRecord DEF next
<1>5. CASE RebuildIndexes(c) \/ StageEvent(c) \/ UpdateSearch(c)
  <2>1. \E p \in {"ending", "search", "internal"}, failed \in BOOLEAN :
            Outcome(c, failed, [call[c] EXCEPT !.pc = p])
    BY <1>5 DEF RebuildIndexes, StageEvent, UpdateSearch, Tell
  <2>2. {"ending", "search", "internal"} \subseteq Phases \ {"waiting"}
    BY DEF Phases
  <2>3. QED
    BY <1>2, <1>4, <2>1, <2>2
<1>6. CASE TellInternal(c)
  <2> DEFINE f == CHOOSE g \in call[c].derived : TRUE
             next == [call[c] EXCEPT !.derived = @ \ {f}]
  <2>1. f \in call[c].derived /\ call[c].pc = "internal"
        /\ \E failed \in BOOLEAN : Outcome(c, failed, next)
    BY <1>6 DEF TellInternal
  <2>2. next \in CallType /\ next.pc = "internal"
    <3>1. {f} \in SUBSET (Root \X File)
      BY <1>1, <2>1 DEF CallType
    <3> HIDE DEF f
    <3>2. next \in CallType
      BY <1>1, <3>1, RouteRecord DEF Phases
    <3>3. QED
      BY <1>1, <2>1, <3>2 DEF CallType
  <2> HIDE DEF f, next
  <2>3. QED
    BY <1>1, <1>2, <2>1, <2>2, OutcomeRecord
<1>7. CASE Routed(c)
  <2>1. call'[c] = [Idle EXCEPT !.pc = "locked"]
    BY <1>1, <1>7 DEF Routed
  <2>2. QED
    BY <1>2, <2>1 DEF Idle
<1>8. CASE Reconcile(c) \/ AppendEvent(c) \/ AppendManual(c)
  <2>1. EventsHeld(c)
    BY DEF EventsInv
  <2>2. QED
    BY <1>2, <1>8, <2>1, ReconcileEvents, AppendEventFacts, AppendManualFacts
<1>9. QED
  BY <1>3, <1>5, <1>6, <1>7, <1>8

-----------------------------------------------------------------------------
(* Which step of VaultTurns each step is.                                    *)

\* A call owns a vault when it has locked it and waits for no more.
LEMMA OwnerFacts ==
    ASSUME TypeInv, NEW r \in Root
    PROVE  /\ Owner[r] \in Caller \cup {Nil}
           /\ \A c \in Caller : Owner[r] = c <=> lock[r] = c /\ call[c].pc # "waiting"
<1>1. lock[r] \in Caller \cup {Nil}
  BY DEF TypeInv, TypeOK
<1>2. Owner[r] = IF lock[r] # Nil /\ call[lock[r]].pc # "waiting" THEN lock[r] ELSE Nil
  BY DEF Owner
<1>3. QED
  BY <1>1, <1>2, NilAssumption

\* Two states in which each call owns the same.
LEMMA SameOwner ==
    ASSUME TypeInv, TypeInv', \A c \in Caller, r \in Root : Owner'[r] = c <=> Owner[r] = c
    PROVE  Owner' = Owner
<1>1. Owner = [r \in Root |-> Owner[r]] /\ Owner' = [r \in Root |-> Owner'[r]]
  BY DEF Owner
<1>2. ASSUME NEW r \in Root PROVE Owner'[r] = Owner[r]
  <2>1. Owner[r] \in Caller \cup {Nil}
    BY OwnerFacts
  <2>2. Owner'[r] \in Caller \cup {Nil}
    <3>1. lock'[r] \in Caller \cup {Nil}
      BY DEF TypeInv, TypeOK
    <3>2. QED
      BY <3>1 DEF Owner
  <2>3. QED
    BY <2>1, <2>2
<1>3. QED
  BY <1>1, <1>2

\* OwnerFacts after a step.
LEMMA OwnerFactsNext ==
    ASSUME TypeInv', NEW r \in Root
    PROVE  \A c \in Caller : Owner'[r] = c <=> lock'[r] = c /\ call'[c].pc # "waiting"
<1>1. lock'[r] \in Caller \cup {Nil}
  BY DEF TypeInv, TypeOK
<1>2. Owner'[r] = IF lock'[r] # Nil /\ call'[lock'[r]].pc # "waiting" THEN lock'[r] ELSE Nil
  BY DEF Owner
<1>3. QED
  BY <1>1, <1>2, NilAssumption

\* Steps that start, lock or end a call change no vault.
LEMMA SameVaults ==
    ASSUME UNCHANGED <<stale, dirty, log, pending>>
    PROVE  UNCHANGED Turns!vault
<1>1. Outdated' = Outdated /\ Untold' = Untold
  BY DEF Outdated, Untold
<1>2. QED
  BY <1>1 DEF Turns!vault

\* A call that starts, or is dropped while it waits, owns nothing.
LEMMA OutsideIsStutter ==
    ASSUME TypeInv, TypeInv', NEW c \in Caller, Begin(c) \/ Dropped(c)
    PROVE  UNCHANGED Turns!vars
<1>1. Step(c) /\ HoldOf(c) /\ call \in [Caller -> CallType] /\ flushAt' = flushAt
      /\ UNCHANGED <<stale, dirty, log, pending>>
  BY DEF Step, TypeInv, HoldInv, TypeOK, Begin, Dropped, vault
<1>2. \A r \in Root : Owner[r] # c
  <2>1. call[c].pc = "waiting" \/ \A r \in Root : lock[r] # c
    BY <1>1 DEF Begin, Dropped, HoldOf
  <2>2. QED
    BY <2>1, OwnerFacts
<1>3. \A r \in Root : Owner'[r] # c
  <2>1. CASE Begin(c)
    <3>1. lock' = lock /\ \A r \in Root : lock[r] # c
      BY <1>1, <2>1 DEF Begin, HoldOf
    <3>2. QED
      BY <3>1, OwnerFactsNext
  <2>2. CASE Dropped(c)
    <3>1. \A r \in Root : lock'[r] # c
      BY <2>2, NilAssumption DEF Dropped, Unlocked
    <3>2. QED
      BY <3>1, OwnerFactsNext
  <2>3. QED
    BY <2>1, <2>2
<1>4. ASSUME NEW d \in Caller, NEW r \in Root PROVE Owner'[r] = d <=> Owner[r] = d
  <2>1. CASE d = c
    BY <1>2, <1>3, <2>1
  <2>2. CASE d # c
    BY <1>1, <2>2, OthersKeep, OwnerFacts, OwnerFactsNext
  <2>3. QED
    BY <2>1, <2>2
<1>5. Owner' = Owner
  BY <1>4, SameOwner
<1>6. QED
  BY <1>1, <1>5, SameVaults DEF Turns!vars, Turns!vault

\* The last lock gives a call its vaults; the locks before it give it nothing.
LEMMA LockIsAcquire ==
    ASSUME TypeInv, TypeInv', NEW c \in Caller, Lock(c)
    PROVE  \/ \E rs \in SUBSET Root : Turns!Acquire(c, rs)
           \/ UNCHANGED Turns!vars
<1>1. /\ Step(c) /\ HoldOf(c) /\ call \in [Caller -> CallType] /\ flushAt' = flushAt
      /\ UNCHANGED <<stale, dirty, log, pending>> /\ call[c].pc = "waiting"
  BY DEF Step, TypeInv, HoldInv, TypeOK, Lock, vault
<1>2. PICK r : lock[r] = Nil /\ lock' = [lock EXCEPT ![r] = c]
  BY DEF Lock, Free
<1>3. \A q \in Root : Owner[q] # c
  BY <1>1, OwnerFacts
<1>4. UNCHANGED Turns!vault
  BY <1>1, SameVaults
<1>5. CASE call' = call
  <2>1. \A q \in Root : Owner'[q] # c
    BY <1>1, <1>5, OwnerFactsNext
  <2>2. ASSUME NEW d \in Caller, NEW q \in Root PROVE Owner'[q] = d <=> Owner[q] = d
    <3>1. CASE d = c
      BY <1>3, <2>1, <3>1
    <3>2. CASE d # c
      BY <1>1, <3>2, OthersKeep, OwnerFacts, OwnerFactsNext
    <3>3. QED
      BY <3>1, <3>2
  <2>3. Owner' = Owner
    BY <2>2, SameOwner
  <2>4. QED
    BY <1>1, <1>4, <2>3 DEF Turns!vars, Turns!vault
<1>6. CASE call' = [call EXCEPT ![c].pc = "locked", ![c].ask = << >>]
  <2> DEFINE rs == {q \in Root : lock'[q] = c}
  <2>1. call'[c].pc = "locked"
    BY <1>1, <1>6 DEF CallType
  <2>2. \A q \in Root : Owner'[q] = c <=> q \in rs
    BY <2>1, OwnerFactsNext
  <2>3. rs # {}
    <3>1. HoldOf(c)'
      BY DEF TypeInv, HoldInv
    <3>2. QED
      BY <2>1, <3>1 DEF HoldOf
  <2>4. ASSUME NEW q \in rs PROVE Owner[q] = Nil
    <3>1. lock[q] = c \/ lock[q] = Nil
      BY <1>2 DEF TypeInv, TypeOK
    <3>2. \A d \in Caller : Owner[q] # d
      BY <1>3, <3>1, OwnerFacts, NilAssumption
    <3>3. QED
      BY <3>2, OwnerFacts
  <2>5. ASSUME NEW q \in Root, q \notin rs PROVE Owner'[q] = Owner[q]
    <3>1. \A d \in Caller : Owner'[q] = d <=> Owner[q] = d
      <4>1. Owner'[q] # c /\ Owner[q] # c
        BY <1>3, <2>2, <2>5
      <4>2. QED
        BY <1>1, <4>1, OthersKeep, OwnerFacts, OwnerFactsNext
    <3>2. Owner[q] \in Caller \cup {Nil} /\ Owner'[q] \in Caller \cup {Nil}
      <4>1. lock'[q] \in Caller \cup {Nil}
        BY DEF TypeInv, TypeOK
      <4>2. QED
        BY <4>1, OwnerFacts DEF Owner
    <3>3. QED
      BY <3>1, <3>2
  <2>6. Owner' = [q \in Root |-> IF q \in rs THEN c ELSE Owner[q]]
    <3>1. Owner' = [q \in Root |-> Owner'[q]]
      BY DEF Owner
    <3> HIDE DEF rs
    <3>2. QED
      BY <2>2, <2>5, <3>1
  <2> HIDE DEF rs
  <2>7. Turns!Acquire(c, rs)
    BY <1>1, <1>3, <1>4, <2>3, <2>4, <2>6 DEF Turns!Acquire, Turns!Root, Turns!vault, Root
  <2>8. QED
    BY <2>7 DEF rs
<1>7. QED
  BY <1>5, <1>6 DEF Lock

\* A call that returns gives back all it has.
LEMMA FinishIsRelease ==
    ASSUME TypeInv, TypeInv', NEW c \in Caller, Finish(c)
    PROVE  Turns!Release(c)
<1>1. /\ Step(c) /\ HoldOf(c) /\ call \in [Caller -> CallType] /\ flushAt' = flushAt
      /\ UNCHANGED <<stale, dirty, log, pending>> /\ call[c].pc \in {"locked", "ending"}
      /\ lock' = Unlocked(c)
  BY DEF Step, TypeInv, HoldInv, TypeOK, Finish, vault
<1>2. \E r \in Root : Owner[r] = c
  BY <1>1, OwnerFacts DEF HoldOf
<1>3. \A r \in Root : lock'[r] # c
  BY <1>1, NilAssumption DEF Unlocked
<1>4. ASSUME NEW r \in Root PROVE Owner'[r] = IF Owner[r] = c THEN Nil ELSE Owner[r]
  <2>1. Owner[r] \in Caller \cup {Nil} /\ Owner'[r] \in Caller \cup {Nil}
    <3>1. lock'[r] \in Caller \cup {Nil}
      BY DEF TypeInv, TypeOK
    <3>2. QED
      BY <3>1, OwnerFacts DEF Owner
  <2>2. \A d \in Caller \ {c} : Owner'[r] = d <=> Owner[r] = d
    BY <1>1, OthersKeep, OwnerFacts, OwnerFactsNext
  <2>3. Owner'[r] # c
    BY <1>3, OwnerFactsNext
  <2>4. QED
    BY <2>1, <2>2, <2>3, NilAssumption
<1>5. Owner' = [r \in Root |-> IF Owner[r] = c THEN Nil ELSE Owner[r]]
  <2>1. Owner' = [r \in Root |-> Owner'[r]]
    BY DEF Owner
  <2>2. QED
    BY <1>4, <2>1
<1>6. UNCHANGED Turns!vault
  BY <1>1, SameVaults
<1>7. QED
  BY <1>1, <1>2, <1>5, <1>6 DEF Turns!Release, Turns!Root, Root

\* Whatever a call does between is work in the vaults it owns.
LEMMA RestIsWork ==
    ASSUME TypeInv, EventsInv, TypeInv', NEW c \in Caller,
           \/ Mutate(c) \/ ClearIndex(c) \/ AppendManual(c) \/ RebuildIndexes(c)
           \/ Reconcile(c) \/ AppendEvent(c)
           \/ StageEvent(c) \/ UpdateSearch(c) \/ TellInternal(c) \/ Routed(c)
    PROVE  Turns!Work(c)
<1>1. Step(c)
  BY DEF Step
<1>2. /\ call[c].pc # "waiting" /\ call'[c].pc # "waiting"
      /\ lock' = lock /\ flushAt' = flushAt
  BY WorkGoesOn
<1>3. Owner' = Owner
  <2>1. ASSUME NEW d \in Caller, NEW r \in Root PROVE Owner'[r] = d <=> Owner[r] = d
    <3>1. CASE d = c
      BY <1>2, <3>1, OwnerFacts, OwnerFactsNext
    <3>2. CASE d # c
      BY <1>1, <3>2, OthersKeep, OwnerFacts, OwnerFactsNext
    <3>3. QED
      BY <3>1, <3>2
  <2>2. QED
    BY <2>1, SameOwner
<1>4. ASSUME NEW r \in Root
      PROVE  /\ Owner[r] # c => Turns!Untouched(r)
             /\ Turns!LinesStay(r)
             /\ Turns!Records(log[r], pending[r]) \subseteq Turns!Records(log'[r], pending'[r])
  <2>1. ASSUME Owner[r] # c PROVE Turns!Untouched(r)
    <3>1. lock[r] # c
      BY <1>2, <2>1, OwnerFacts
    <3>2. QED
      BY <1>1, <3>1, StepSteady, SteadyIsUntouched
  <2>2. QED
    BY <1>1, <2>1, StepKeepsRecords
<1>5. QED
  BY <1>2, <1>3, <1>4 DEF Turns!Work, Turns!Root, Root

\* The last flush logs, and changes nothing else.
LEMMA FlushIsFlush ==
    ASSUME TypeInv, FlushLog
    PROVE  Turns!Flush
<1>1. /\ TypeOK /\ flushAt \in Root /\ pending[flushAt] \in Seq(1..ops) /\ ops \in Nat
      /\ \E n \in 0..Len(pending[flushAt]), landed \in BOOLEAN :
           FlushTo(flushAt, pending[flushAt], n, landed)
      /\ UNCHANGED <<lock, call, stale>> /\ flushAt' = flushAt + 1
  BY FlushLogFacts DEF TypeInv, FlushLog
<1>2. /\ \A q \in Root \ {flushAt} : Steady(q)
      /\ Turns!LinesStay(flushAt)
      /\ Elements(log'[flushAt]) \cup Elements(pending'[flushAt])
           = Elements(log[flushAt]) \cup Elements(pending[flushAt])
  <2>1. ops <= ops
    BY <1>1
  <2>2. QED
    BY <1>1, <2>1, FlushTurn
<1>3. \A q \in Root \ {flushAt} : Turns!Untouched(q)
  BY <1>2, SteadyIsUntouched
<1>4. Turns!Records(log'[flushAt], pending'[flushAt]) = Turns!Records(log[flushAt], pending[flushAt])
  BY <1>2, RecordsAreElements
<1>5. Owner' = Owner /\ Outdated' = Outdated
  BY <1>1 DEF Owner, Outdated
<1>6. QED
  BY <1>1, <1>2, <1>3, <1>4, <1>5 DEF Turns!Flush, Turns!Root, Root

LEMMA ShutdownIsShutdown ==
    ASSUME Shutdown
    PROVE  Turns!Shutdown
<1>1. /\ flushAt = 0 /\ flushAt' = 1 /\ UNCHANGED <<lock, call, stale, dirty, log, pending>>
  BY DEF Shutdown, vault
<1>2. Owner' = Owner
  BY <1>1 DEF Owner
<1>3. QED
  BY <1>1, <1>2, SameVaults DEF Turns!Shutdown

\* Calls take turns: with all the steps between its last lock and its return, a
\* call is alone with its vaults and touches no others, logs only grow and no
\* record is lost, for any number of vaults and calls, whatever fails.
THEOREM CallsTakeTurns == Spec => ImplementsVaultTurns
<1>1. Init => Turns!Init
  BY DEF Init, Turns!Init, Turns!Root, Root, Owner, Outdated, Untold
<1>2. TypeInv /\ EventsInv /\ TypeInv' /\ [Next]_vars => [Turns!Next]_(Turns!vars)
  <2> SUFFICES ASSUME TypeInv, EventsInv, TypeInv', [Next]_vars
               PROVE  Turns!Next \/ UNCHANGED Turns!vars
    OBVIOUS
  <2>1. ASSUME NEW c \in Caller, Step(c) PROVE Turns!Next \/ UNCHANGED Turns!vars
    <3>1. CASE Begin(c) \/ Dropped(c)
      BY <3>1, OutsideIsStutter
    <3>2. CASE Lock(c)
      <4>1. (\E rs \in SUBSET Root : Turns!Acquire(c, rs)) \/ UNCHANGED Turns!vars
        BY <3>2, LockIsAcquire
      <4>2. QED
        BY <4>1 DEF Turns!Next, Turns!Root, Root
    <3>3. CASE Finish(c)
      BY <3>3, FinishIsRelease DEF Turns!Next
    <3>4. CASE \/ Mutate(c) \/ ClearIndex(c) \/ AppendManual(c) \/ RebuildIndexes(c)
               \/ Reconcile(c) \/ AppendEvent(c)
               \/ StageEvent(c) \/ UpdateSearch(c) \/ TellInternal(c) \/ Routed(c)
      BY <3>4, RestIsWork DEF Turns!Next
    <3>5. QED
      BY <2>1, <3>1, <3>2, <3>3, <3>4 DEF Step
  <2>2. CASE Shutdown
    BY <2>2, ShutdownIsShutdown DEF Turns!Next
  <2>3. CASE FlushLog
    BY <2>3, FlushIsFlush DEF Turns!Next
  <2>4. CASE UNCHANGED vars
    BY <2>4 DEF vars, Turns!vars, Owner, Outdated, Untold
  <2>5. QED
    BY <2>1, <2>2, <2>3, <2>4 DEF Next
<1>3. QED
  BY <1>1, <1>2, TypeInvHolds, EventsInvHolds, PTL DEF Spec, ImplementsVaultTurns, Turns!Spec

-----------------------------------------------------------------------------
(* Every write is routed, but for those of the two tools that bypass it.     *)

\* The writes a call in progress has still to tell sink s of.
Owes(c, s) ==
    {f \in call[c].found \cup call[c].derived \cup call[c].event :
        /\ call[c].pc \in Routing
        /\ \/ f \in call[c].found \cup call[c].derived
           \/ call[c].pc \in {"index", "log", "git"}
           \/ call[c].pc = "search" /\ s = "search"}

\* Writes are collected by the index step, then by the log step.
CollectsInOrder(c) ==
    /\ call[c].pc \notin Routing => call[c].found = {} /\ call[c].derived = {}
    /\ call[c].pc = "index" => call[c].derived = {}
    /\ call[c].pc \in {"git", "search", "internal"} => call[c].found = {}

\* No record waits to be appended.
Unbuffered == \A r \in Root : pending[r] = << >>

\* As long as nothing has failed nothing is buffered, and whatever a sink does
\* not know yet is a write that some call will tell it of.
RoutedInv ==
    faults = 0 =>
        /\ Unbuffered
        /\ \A c \in Caller : CollectsInOrder(c)
        /\ \A s \in Sink : \A f \in dirty[s] : \E c \in Caller : f \in Owes(c, s)

\* What a step of call c does to a sink: what it makes the sink miss it owes it,
\* and what it owed and owes no more it has told.
Pays(c) ==
    /\ Unbuffered'
    /\ CollectsInOrder(c)'
    /\ \A s \in Sink : \A f \in dirty'[s] :
        f \in Owes(c, s)' \/ (f \in dirty[s] /\ f \notin Owes(c, s))

RoutedTools == \A c \in Caller : call[c].kind = "tool"

\* Steps outside the route, and its end.
LEMMA UnroutedPays ==
    ASSUME TypeInv, NEW c \in Caller, CollectsInOrder(c), Unbuffered,
           Begin(c) \/ Lock(c) \/ Finish(c) \/ Dropped(c) \/ Routed(c)
    PROVE  Pays(c)
<1>1. call \in [Caller -> CallType] /\ call[c] \in CallType
  BY DEF TypeInv, TypeOK
<1>2. dirty' = dirty /\ pending' = pending
  BY DEF Begin, Lock, Finish, Dropped, Routed, vault
<1>3. call[c].pc \notin Routing \/ (call[c].pc = "internal" /\ call[c].derived = {})
  BY DEF Begin, Lock, Finish, Dropped, Routed, Routing
<1>4. \A s \in Sink : Owes(c, s) = {}
  BY <1>3 DEF Owes, CollectsInOrder, Routing
<1>5. CollectsInOrder(c)'
  <2>1. CASE Begin(c)
    <3>1. PICK ask, kind :
            call' = [call EXCEPT ![c] = [Idle EXCEPT !.pc = "waiting",
                                                     !.kind = kind, !.ask = ask]]
      BY <2>1 DEF Begin
    <3> DEFINE new == [Idle EXCEPT !.pc = "waiting", !.kind = kind, !.ask = ask]
    <3>2. new.pc = "waiting" /\ new.found = {} /\ new.derived = {}
      BY DEF Idle
    <3> HIDE DEF new
    <3>3. call'[c] = new
      BY <1>1, <3>1 DEF new
    <3>4. QED
      BY <3>2, <3>3 DEF CollectsInOrder
  <2>2. CASE Lock(c)
    <3>1. call' = call \/ call' = [call EXCEPT ![c].pc = "locked", ![c].ask = << >>]
      BY <2>2 DEF Lock
    <3>2. /\ call'[c].found = call[c].found /\ call'[c].derived = call[c].derived
          /\ call'[c].pc \in {"waiting", "locked"} /\ call[c].pc = "waiting"
      BY <1>1, <2>2, <3>1 DEF CallType, Lock
    <3>3. QED
      BY <3>2 DEF CollectsInOrder, Routing
  <2>3. CASE Finish(c) \/ Dropped(c)
    <3>1. call'[c] = Idle
      BY <1>1, <2>3 DEF Finish, Dropped
    <3>2. QED
      BY <3>1 DEF Idle, CollectsInOrder
  <2>4. CASE Routed(c)
    <3>1. call'[c] = [Idle EXCEPT !.pc = "locked"]
      BY <1>1, <2>4 DEF Routed
    <3>2. call'[c].pc = "locked" /\ call'[c].found = {} /\ call'[c].derived = {}
      BY <3>1 DEF Idle
    <3>3. QED
      BY <3>2 DEF CollectsInOrder
  <2>5. QED
    BY <2>1, <2>2, <2>3, <2>4
<1>6. QED
  BY <1>2, <1>4, <1>5 DEF Pays, Unbuffered

\* A mutation owes both sinks the files it wrote.
LEMMA MutationPays ==
    ASSUME TypeInv, NEW c \in Caller, CollectsInOrder(c), Unbuffered,
           Mutate(c) \/ ClearIndex(c)
    PROVE  Pays(c)
<1>1. call \in [Caller -> CallType] /\ call[c] \in CallType /\ dirty \in [Sink -> SUBSET (Root \X File)]
  BY DEF TypeInv, TypeOK
<1>2. pending' = pending /\ call[c].pc = "locked"
  BY DEF Mutate, ClearIndex
<1>3. call[c].found = {} /\ call[c].derived = {} /\ \A s \in Sink : Owes(c, s) = {}
  BY <1>2 DEF CollectsInOrder, Owes, Routing
<1>4. \E fs :
        /\ dirty' = Dirtied(fs) /\ call'[c].event = fs /\ call'[c].pc \in {"index", "git"}
        /\ call'[c].found = call[c].found /\ call'[c].derived = call[c].derived
  <2>1. CASE Mutate(c)
    <3>1. PICK rs \in (SUBSET Held(c)) \ {{}} :
            /\ dirty' = Dirtied(rs \X {"note"})
            /\ call' = [call EXCEPT ![c].pc = "index", ![c].event = rs \X {"note"},
                                    ![c].todo = rs, ![c].op = NextOp, ![c].clean = TRUE]
      BY <2>1 DEF Mutate
    <3> DEFINE fs == rs \X {"note"}
    <3>2. call' = [call EXCEPT ![c] = Mutated(call[c], fs, rs, NextOp)]
      BY <1>1, <3>1 DEF Mutated
    <3> HIDE DEF fs
    <3>3. call'[c] = Mutated(call[c], fs, rs, NextOp)
      BY <1>1, <3>2
    <3>4. /\ call'[c].event = fs /\ call'[c].pc = "index"
          /\ call'[c].found = call[c].found /\ call'[c].derived = call[c].derived
      BY <1>1, <3>3 DEF Mutated, CallType
    <3>5. QED
      BY <3>1, <3>4 DEF fs
  <2>2. CASE ClearIndex(c)
    <3>1. PICK r \in Held(c) :
            /\ dirty' = Dirtied({<<r, "folder">>})
            /\ call' = [call EXCEPT ![c].pc = "git", ![c].event = {<<r, "folder">>},
                                    ![c].op = 0, ![c].clean = TRUE]
      BY <2>2 DEF ClearIndex
    <3> DEFINE fs == {<<r, "folder">>}
    <3>2. call' = [call EXCEPT ![c] = Cleared(call[c], fs)]
      BY <1>1, <3>1 DEF Cleared
    <3> HIDE DEF fs
    <3>3. call'[c] = Cleared(call[c], fs)
      BY <1>1, <3>2
    <3>4. /\ call'[c].event = fs /\ call'[c].pc = "git"
          /\ call'[c].found = call[c].found /\ call'[c].derived = call[c].derived
      BY <1>1, <3>3 DEF Cleared, CallType
    <3>5. QED
      BY <3>1, <3>4 DEF fs
  <2>3. QED
    BY <2>1, <2>2
<1>5. CollectsInOrder(c)'
  BY <1>3, <1>4 DEF CollectsInOrder
<1>6. ASSUME NEW s \in Sink, NEW f \in dirty'[s]
      PROVE  f \in Owes(c, s)' \/ f \in dirty[s]
  BY <1>4 DEF Dirtied, Owes, Routing
<1>7. QED
  BY <1>2, <1>3, <1>5, <1>6 DEF Pays, Unbuffered

\* The outcome of a step that did not fail.
LEMMA SuccessRecord ==
    ASSUME TypeOK, NEW c \in Caller, NEW failed \in BOOLEAN, NEW next \in CallType,
           Outcome(c, failed, next), faults' = 0
    PROVE  /\ ~failed
           /\ call'[c].pc = next.pc /\ call'[c].event = next.event
           /\ call'[c].found = next.found /\ call'[c].derived = next.derived
<1>1. ~failed
  BY BoundAssumption DEF Outcome, TypeOK
<1>2. QED
  BY <1>1, OutcomeRecord

\* What the index step writes it owes: as found, then as derived.
LEMMA ReconcilePays ==
    ASSUME TypeInv, NEW c \in Caller, CollectsInOrder(c), Unbuffered, faults' = 0,
           Reconcile(c)
    PROVE  Pays(c)
<1> DEFINE k == call[c]
           r == Least(k.todo)
           rest == k.todo \ {r}
           roots == RootsOf(k.event)
<1>1. /\ TypeOK /\ k \in CallType /\ k.pc = "index" /\ k.derived = {} /\ pending' = pending
      /\ k.todo \in SUBSET Root /\ roots \in SUBSET Root
      /\ k.found \in SUBSET (Root \X File)
  <2>1. TypeOK /\ k \in CallType /\ k.pc = "index" /\ pending' = pending
    BY DEF TypeInv, TypeOK, Reconcile
  <2>2. roots \subseteq Root
    BY EventVaults
  <2>3. QED
    BY <2>1, <2>2 DEF CallType, CollectsInOrder
<1>2. PICK ds \in Reconciled :
        LET written == stale \cap ({r} \X ds)
            found == k.found \cup written
        IN  /\ dirty' = Dirtied(written)
            /\ Outcome(c, ds # Dir,
                IF ds # Dir
                THEN [k EXCEPT !.pc = "log", !.found = {}, !.todo = roots]
                ELSE IF rest # {}
                THEN [k EXCEPT !.todo = rest, !.found = found]
                ELSE [k EXCEPT !.pc = "log", !.found = {}, !.derived = found,
                               !.todo = roots])
  BY DEF Reconcile
<1> DEFINE written == stale \cap ({r} \X ds)
           found == k.found \cup written
           next == IF ds # Dir
                   THEN [k EXCEPT !.pc = "log", !.found = {}, !.todo = roots]
                   ELSE IF rest # {}
                   THEN [k EXCEPT !.todo = rest, !.found = found]
                   ELSE [k EXCEPT !.pc = "log", !.found = {}, !.derived = found,
                                  !.todo = roots]
<1>3. found \in SUBSET (Root \X File)
  BY <1>1 DEF TypeInv, TypeOK, File
<1>4. dirty' = Dirtied(written)
  BY <1>2
<1>5. (ds # Dir) \in BOOLEAN /\ Outcome(c, ds # Dir, next)
  BY <1>2
<1>6. rest \in SUBSET Root /\ "log" \in Phases
  BY <1>1 DEF Phases
<1> HIDE DEF r, rest, roots, written
<1>7. /\ next \in CallType
      /\ ds = Dir =>
           /\ next.event = k.event
           /\ \/ next.pc = "index" /\ next.found = found /\ next.derived = {}
              \/ next.pc = "log" /\ next.found = {} /\ next.derived = found
  <2> HIDE DEF found
  <2>1. next \in CallType
    BY <1>1, <1>3, <1>6, RouteRecord
  <2>2. QED
    BY <1>1, <2>1 DEF CallType
<1> HIDE DEF next
<1>8. /\ call'[c].event = k.event
      /\ \/ call'[c].pc = "index" /\ call'[c].found = found /\ call'[c].derived = {}
         \/ call'[c].pc = "log" /\ call'[c].found = {} /\ call'[c].derived = found
  <2>1. /\ ds = Dir /\ call'[c].pc = next.pc /\ call'[c].event = next.event
        /\ call'[c].found = next.found /\ call'[c].derived = next.derived
    BY <1>1, <1>5, <1>7, SuccessRecord
  <2>2. QED
    BY <1>7, <2>1
<1>9. CollectsInOrder(c)'
  BY <1>8 DEF CollectsInOrder, Routing
<1>10. ASSUME NEW s \in Sink, NEW f \in dirty'[s], f \notin Owes(c, s)'
       PROVE  f \in dirty[s] /\ f \notin Owes(c, s)
  <2>1. f \notin k.event /\ f \notin found
    BY <1>8, <1>10 DEF Owes, Routing
  <2>2. f \in dirty[s]
    BY <1>4, <2>1 DEF Dirtied
  <2>3. QED
    BY <1>1, <2>1, <2>2 DEF Owes
<1>11. QED
  BY <1>1, <1>9, <1>10 DEF Pays, Unbuffered

\* What the log step writes it owes, and without a failure it empties the buffer.
LEMMA AppendPays ==
    ASSUME TypeInv, NEW c \in Caller, CollectsInOrder(c), Unbuffered, faults' = 0,
           AppendEvent(c)
    PROVE  Pays(c)
<1> DEFINE k == call[c]
           r == Least(k.todo)
           rest == k.todo \ {r}
           roots == RootsOf(k.event)
           ps == Buffered(r, k.op)
           found == k.found \cup FlushEvents(r)
<1>1. /\ TypeOK /\ k \in CallType /\ k.pc = "log" /\ k.event \in SUBSET (Root \X File)
      /\ k.found \in SUBSET (Root \X File) /\ k.derived \in SUBSET (Root \X File)
      /\ pending \in [Root -> Seq(1..ops)]
  BY DEF TypeInv, TypeOK, CallType, AppendEvent
<1>2. r \in k.todo /\ k.todo \subseteq roots /\ roots \subseteq Root /\ ps \in Seq(1..ops)
  BY AppendEventFacts
<1>3. PICK n \in 0..Len(ps), landed \in BOOLEAN :
        /\ FlushTo(r, ps, n, landed)
        /\ Outcome(c, n # Len(ps),
            IF n # Len(ps)
            THEN [k EXCEPT !.pc = "git", !.found = {}, !.todo = {}]
            ELSE IF rest # {}
            THEN [k EXCEPT !.todo = rest, !.found = found]
            ELSE [k EXCEPT !.pc = "git", !.found = {}, !.todo = {},
                           !.derived = @ \cup found])
  BY DEF AppendEvent
<1> DEFINE next == IF n # Len(ps)
                   THEN [k EXCEPT !.pc = "git", !.found = {}, !.todo = {}]
                   ELSE IF rest # {}
                   THEN [k EXCEPT !.todo = rest, !.found = found]
                   ELSE [k EXCEPT !.pc = "git", !.found = {}, !.todo = {},
                                  !.derived = @ \cup found]
<1>4. found \in SUBSET (Root \X File) /\ rest \in SUBSET Root /\ {} \in SUBSET Root
  BY <1>1, <1>2 DEF FlushEvents, File
<1>5. (n # Len(ps)) \in BOOLEAN /\ Outcome(c, n # Len(ps), next)
  BY <1>3
<1>6. /\ pending' = [pending EXCEPT ![r] = SubSeq(ps, n + 1, Len(ps))]
      /\ dirty' = dirty \/ dirty' = Dirtied({<<r, "log">>})
      /\ <<r, "log">> \in found
  BY <1>3 DEF FlushTo, Kept, FlushEvents
<1> HIDE DEF r, rest, roots, ps, found
<1>7. /\ next \in CallType
      /\ n = Len(ps) =>
           /\ next.event = k.event
           /\ \/ next.pc = "log" /\ next.found = found /\ next.derived = k.derived
              \/ next.pc = "git" /\ next.found = {} /\ next.derived = k.derived \cup found
  <2>1. "git" \in Phases
    BY DEF Phases
  <2>2. next \in CallType
    BY <1>1, <1>4, <2>1, RouteRecord
  <2>3. QED
    BY <1>1, <2>2 DEF CallType
<1> HIDE DEF next
<1>8. /\ n = Len(ps) /\ call'[c].event = k.event
      /\ \/ call'[c].pc = "log" /\ call'[c].found = found /\ call'[c].derived = k.derived
         \/ call'[c].pc = "git" /\ call'[c].found = {} /\ call'[c].derived = k.derived \cup found
  <2>1. /\ n = Len(ps) /\ call'[c].pc = next.pc /\ call'[c].event = next.event
        /\ call'[c].found = next.found /\ call'[c].derived = next.derived
    BY <1>1, <1>5, <1>7, SuccessRecord
  <2>2. QED
    BY <1>7, <2>1
<1>9. Unbuffered'
  <2>1. SubSeq(ps, n + 1, Len(ps)) = << >>
    <3>1. Len(ps) \in Nat /\ n = Len(ps)
      BY <1>2, <1>8, LenProperties
    <3>2. QED
      BY <1>2, <3>1, SubSeqProperties, EmptySeq
  <2>2. QED
    BY <1>1, <1>6, <2>1 DEF Unbuffered
<1>10. CollectsInOrder(c)'
  BY <1>8 DEF CollectsInOrder, Routing
<1>11. ASSUME NEW s \in Sink, NEW f \in dirty'[s], f \notin Owes(c, s)'
       PROVE  f \in dirty[s] /\ f \notin Owes(c, s)
  <2>1. f \notin k.event /\ f \notin found /\ f \notin k.derived
    BY <1>8, <1>11 DEF Owes, Routing
  <2>2. f \in dirty[s]
    BY <1>6, <2>1 DEF Dirtied
  <2>3. f \notin k.found
    BY <2>1 DEF found
  <2>4. QED
    BY <2>1, <2>2, <2>3 DEF Owes
<1>12. QED
  BY <1>9, <1>10, <1>11 DEF Pays

\* What a sink is told it is not owed any more.
LEMMA TellingPays ==
    ASSUME TypeInv, NEW c \in Caller, CollectsInOrder(c), Unbuffered, faults' = 0,
           StageEvent(c) \/ UpdateSearch(c) \/ TellInternal(c)
    PROVE  Pays(c)
<1> DEFINE k == call[c]
<1>1. /\ TypeOK /\ k \in CallType /\ dirty \in [Sink -> SUBSET (Root \X File)]
      /\ k.pc \in {"git", "search", "internal"} /\ k.found = {} /\ pending' = pending
  BY DEF TypeInv, TypeOK, CollectsInOrder, StageEvent, UpdateSearch, TellInternal
<1>2. ASSUME NEW s \in Sink, NEW p \in {"search", "internal"}, Tell(c, s, p),
             \/ k.pc = "git" /\ s = "git" /\ p = "search"
             \/ k.pc = "search" /\ s = "search" /\ p = "internal"
      PROVE  Pays(c)
  <2> DEFINE next == [k EXCEPT !.pc = p]
  <2>1. next \in CallType /\ next.pc = p /\ next.event = k.event
        /\ next.found = k.found /\ next.derived = k.derived
    <3>1. p \in Phases
      BY DEF Phases
    <3>2. next \in CallType
      BY <1>1, <3>1, RouteRecord
    <3>3. QED
      BY <1>1, <3>2 DEF CallType
  <2>2. PICK b \in 1..(RootCount + 1) :
          LET told == {f \in k.event : f[1] < b}
          IN  /\ dirty' = [dirty EXCEPT ![s] = @ \ told]
              /\ Outcome(c, told # k.event, next)
    BY <1>2 DEF Tell
  <2> DEFINE told == {f \in k.event : f[1] < b}
  <2>3. dirty' = [dirty EXCEPT ![s] = @ \ told] /\ (told # k.event) \in BOOLEAN
        /\ Outcome(c, told # k.event, next)
    BY <2>2
  <2> HIDE DEF next, told
  <2>4. /\ told = k.event /\ call'[c].pc = p /\ call'[c].event = k.event
        /\ call'[c].found = {} /\ call'[c].derived = k.derived
    BY <1>1, <2>1, <2>3, SuccessRecord
  <2>5. CollectsInOrder(c)'
    BY <2>4 DEF CollectsInOrder, Routing
  <2>6. ASSUME NEW z \in Sink, NEW f \in dirty'[z], f \notin Owes(c, z)'
        PROVE  f \in dirty[z] /\ f \notin Owes(c, z)
    <3>1. f \in dirty[z] /\ (z = s => f \notin k.event)
      BY <1>1, <2>3, <2>4, <2>6
    <3>2. f \notin k.derived
      BY <2>4, <2>6 DEF Owes, Routing
    <3>3. f \in k.event => ~(k.pc = "git" \/ (k.pc = "search" /\ z = "search"))
      BY <1>2, <2>4, <2>6, <3>1 DEF Owes, Routing, Sink
    <3>4. QED
      BY <1>1, <3>1, <3>2, <3>3 DEF Owes
  <2>7. QED
    BY <1>1, <2>5, <2>6 DEF Pays, Unbuffered
<1>3. CASE StageEvent(c) \/ UpdateSearch(c)
  BY <1>2, <1>3 DEF StageEvent, UpdateSearch, Sink
<1>4. CASE TellInternal(c)
  <2> DEFINE f == CHOOSE g \in k.derived : TRUE
             next == [k EXCEPT !.derived = @ \ {f}]
  <2>1. PICK told \in SUBSET Sink :
          /\ dirty' = [s \in Sink |-> IF s \in told THEN dirty[s] \ {f} ELSE dirty[s]]
          /\ Outcome(c, told # Sink, next)
    BY <1>4 DEF TellInternal
  <2>2. f \in k.derived /\ k.pc = "internal"
    BY <1>4 DEF TellInternal
  <2>3. next \in CallType /\ next.pc = k.pc /\ next.event = k.event
        /\ next.found = k.found /\ next.derived = k.derived \ {f}
    <3>1. {f} \in SUBSET (Root \X File)
      BY <1>1, <2>2 DEF CallType
    <3> HIDE DEF f
    <3>2. next \in CallType
      BY <1>1, <3>1, RouteRecord DEF Phases
    <3>3. QED
      BY <1>1, <3>2 DEF CallType
  <2> HIDE DEF f, next
  <2>4. /\ told = Sink /\ call'[c].pc = "internal" /\ call'[c].event = k.event
        /\ call'[c].found = {} /\ call'[c].derived = k.derived \ {f}
    <3>1. (told # Sink) \in BOOLEAN /\ Outcome(c, told # Sink, next)
      BY <2>1
    <3>2. QED
      BY <1>1, <2>2, <2>3, <3>1, SuccessRecord
  <2>5. CollectsInOrder(c)'
    BY <2>4 DEF CollectsInOrder, Routing
  <2>6. ASSUME NEW z \in Sink, NEW g \in dirty'[z], g \notin Owes(c, z)'
        PROVE  g \in dirty[z] /\ g \notin Owes(c, z)
    <3>1. g \in dirty[z] /\ g # f
      BY <2>1, <2>4, <2>6
    <3>2. g \notin k.derived
      BY <2>4, <2>6, <3>1 DEF Owes, Routing
    <3>3. QED
      BY <1>1, <2>2, <3>1, <3>2 DEF Owes
  <2>7. QED
    BY <1>1, <2>5, <2>6 DEF Pays, Unbuffered
<1>5. QED
  BY <1>3, <1>4

\* Failures are only counted up.
LEMMA FaultsStay ==
    ASSUME TypeInv, [Next]_vars, faults' = 0
    PROVE  faults = 0
<1>1. faults \in Nat
  BY BoundAssumption DEF TypeInv, TypeOK
<1>2. ASSUME NEW c \in Caller, Step(c) PROVE faults = 0
  <2>1. \/ faults' = faults
        \/ \E failed, next : Outcome(c, failed, next)
    BY <1>2 DEF Step, Begin, Lock, Finish, Dropped, Mutate, ClearIndex, AppendManual,
                RebuildIndexes, Reconcile, AppendEvent, StageEvent, UpdateSearch, Tell,
                TellInternal, Routed
  <2>2. QED
    BY <1>1, <2>1 DEF Outcome
<1>3. CASE FlushLog
  BY <1>1, <1>3 DEF FlushLog
<1>4. CASE Shutdown \/ UNCHANGED vars
  BY <1>4 DEF Shutdown, vars
<1>5. QED
  BY <1>2, <1>3, <1>4 DEF Next

LEMMA NextRouted == TypeInv /\ RoutedTools /\ RoutedInv /\ [Next]_vars => RoutedInv'
<1> SUFFICES ASSUME TypeInv, RoutedTools, RoutedInv, [Next]_vars, faults' = 0
             PROVE  /\ Unbuffered'
                    /\ \A c \in Caller : CollectsInOrder(c)'
                    /\ \A s \in Sink : \A f \in dirty'[s] : \E c \in Caller : f \in Owes(c, s)'
  BY DEF RoutedInv
<1>1. /\ Unbuffered /\ \A c \in Caller : CollectsInOrder(c)
      /\ \A s \in Sink : \A f \in dirty[s] : \E c \in Caller : f \in Owes(c, s)
  BY FaultsStay DEF RoutedInv
<1>2. ASSUME NEW c \in Caller, Step(c)
      PROVE  /\ Unbuffered'
             /\ \A d \in Caller : CollectsInOrder(d)'
             /\ \A s \in Sink : \A f \in dirty'[s] : \E d \in Caller : f \in Owes(d, s)'
  <2>1. ~AppendManual(c) /\ ~RebuildIndexes(c)
    BY DEF RoutedTools, AppendManual, RebuildIndexes
  <2>2. Pays(c)
    BY <1>1, <1>2, <2>1, UnroutedPays, MutationPays, ReconcilePays, AppendPays, TellingPays
       DEF Step
  <2>3. \A d \in Caller \ {c} : call'[d] = call[d]
    BY <1>2, OthersKeep
  <2>4. \A d \in Caller : CollectsInOrder(d)'
    BY <1>1, <2>2, <2>3 DEF Pays, CollectsInOrder
  <2>5. ASSUME NEW s \in Sink, NEW f \in dirty'[s]
        PROVE  \E d \in Caller : f \in Owes(d, s)'
    <3>1. CASE f \in dirty[s] /\ f \notin Owes(c, s)
      <4>1. PICK d \in Caller : f \in Owes(d, s)
        BY <1>1, <3>1
      <4>2. f \in Owes(d, s)'
        BY <2>3, <3>1, <4>1 DEF Owes
      <4>3. QED
        BY <4>2
    <3>2. QED
      BY <2>2, <2>5, <3>1 DEF Pays
  <2>6. QED
    BY <2>2, <2>4, <2>5 DEF Pays
<1>3. CASE FlushLog
  <2>1. /\ flushAt \in Root /\ pending \in [Root -> Seq(1..ops)] /\ faults \in Nat
        /\ call' = call
    BY <1>3, BoundAssumption DEF TypeInv, TypeOK, FlushLog
  <2>2. PICK n \in 0..Len(pending[flushAt]), landed \in BOOLEAN :
          /\ FlushTo(flushAt, pending[flushAt], n, landed)
          /\ faults' = IF n # Len(pending[flushAt]) THEN faults + 1 ELSE faults
    BY <1>3 DEF FlushLog
  <2>3. pending[flushAt] = << >>
    BY <1>1, <2>1 DEF Unbuffered
  <2>4. Len(pending[flushAt]) = 0 /\ n = 0
    <3>1. Len(pending[flushAt]) = 0
      BY <2>1, <2>3, EmptySeq
    <3>2. QED
      BY <2>2, <3>1
  <2>5. dirty' = dirty /\ pending' = [pending EXCEPT ![flushAt] = SubSeq(<< >>, 1, 0)]
    BY <2>2, <2>3, <2>4 DEF FlushTo, Kept
  <2>6. SubSeq(<< >>, 1, 0) = << >>
    BY <2>3, <2>1, SubSeqProperties, EmptySeq
  <2>7. Unbuffered'
    BY <1>1, <2>1, <2>5, <2>6 DEF Unbuffered
  <2>8. QED
    BY <1>1, <2>1, <2>5, <2>7 DEF Owes, CollectsInOrder
<1>4. CASE Shutdown \/ UNCHANGED vars
  <2>1. UNCHANGED <<call, dirty, pending>>
    BY <1>4 DEF Shutdown, vars, vault
  <2>2. QED
    BY <1>1, <2>1 DEF Owes, CollectsInOrder, Unbuffered
<1>5. QED
  BY <1>2, <1>3, <1>4 DEF Next

\* vault_log_append and vault_index_rebuild are all that escapes the route: as
\* long as calls are of the other tools and nothing fails, git and search have
\* been told of every write once no call is in progress, those of indexes, of logs
\* and of the flush at shutdown included, for any number of vaults and calls.
THEOREM OnlyTwoToolsEscape == Spec /\ []RoutedTools => []EveryWriteIsRouted
<1>1. Init => RoutedInv
  BY DEF Init, RoutedInv, Unbuffered, CollectsInOrder, Idle
<1>2. RoutedInv => EveryWriteIsRouted
  BY DEF RoutedInv, EveryWriteIsRouted, Owes, Routing
<1>3. QED
  BY <1>1, <1>2, TypeInvHolds, NextRouted, PTL DEF Spec
=============================================================================
