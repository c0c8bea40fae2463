------------------------ MODULE EmbeddingQueueProofs ------------------------
(***************************************************************************)
(* Proofs about EmbeddingQueue, for any notes, contents, drainers and      *)
(* bounds: its variables keep their types, and, when the passes of two     *)
(* drainers never overlap, a note nobody is about to index has the rows of *)
(* its content unless its last change has no signal left, and the queue    *)
(* implements FreshIndex.                                                  *)
(***************************************************************************)
EXTENDS EmbeddingQueue, TLAPS

\* The queue loses its head, and only that, when a path is taken.
LEMMA TakeHead ==
    ASSUME NEW S, NEW s \in Seq(S), s # << >>
    PROVE  /\ Head(s) \in S /\ Head(s) \in Range(s) /\ Tail(s) \in Seq(S)
           /\ Range(s) = Range(Tail(s)) \cup {Head(s)}
           /\ IsInjective(s) => IsInjective(Tail(s))
<1>1. /\ Len(s) \in Nat /\ Len(s) > 0 /\ DOMAIN s = 1..Len(s)
      /\ Head(s) = s[1] /\ Tail(s) \in Seq(S)
      /\ DOMAIN Tail(s) = 1..(Len(s) - 1)
      /\ \A i \in 1..(Len(s) - 1) : Tail(s)[i] = s[i + 1]
  OBVIOUS
<1>2. Range(Tail(s)) \subseteq Range(s)
  BY <1>1 DEF Range
<1>3. ASSUME NEW i \in DOMAIN s, i # 1 PROVE s[i] \in Range(Tail(s))
  <2>1. i - 1 \in DOMAIN Tail(s) /\ Tail(s)[i - 1] = s[i]
    BY <1>1, <1>3
  <2>2. QED
    BY <2>1 DEF Range
<1>4. Range(s) = Range(Tail(s)) \cup {Head(s)}
  BY <1>1, <1>2, <1>3 DEF Range
<1>5. IsInjective(s) => IsInjective(Tail(s))
  BY <1>1 DEF IsInjective
<1>6. Head(s) \in S
  OBVIOUS
<1>7. QED
  BY <1>1, <1>4, <1>5, <1>6

\* Queueing a path adds it, and only it.
LEMMA AddLast ==
    ASSUME NEW S, NEW s \in Seq(S), NEW x \in S
    PROVE  /\ Append(s, x) \in Seq(S)
           /\ Range(Append(s, x)) = Range(s) \cup {x}
           /\ IsInjective(s) /\ x \notin Range(s) => IsInjective(Append(s, x))
<1>1. /\ Len(s) \in Nat /\ DOMAIN s = 1..Len(s)
      /\ Append(s, x) \in Seq(S)
      /\ DOMAIN Append(s, x) = 1..(Len(s) + 1)
      /\ Append(s, x)[Len(s) + 1] = x
      /\ \A i \in 1..Len(s) : Append(s, x)[i] = s[i]
  OBVIOUS
<1>2. Range(Append(s, x)) = Range(s) \cup {x}
  <2>1. ASSUME NEW y \in Range(Append(s, x)) PROVE y \in Range(s) \cup {x}
    BY <1>1 DEF Range
  <2>2. Range(s) \subseteq Range(Append(s, x))
    BY <1>1 DEF Range
  <2>3. x \in Range(Append(s, x))
    BY <1>1 DEF Range
  <2>4. QED
    BY <2>1, <2>2, <2>3
<1>3. IsInjective(s) /\ x \notin Range(s) => IsInjective(Append(s, x))
  BY <1>1 DEF IsInjective, Range
<1>4. QED
  BY <1>1, <1>2, <1>3

\* Both callers of enqueue: the path is queued afterwards, and no other is new.
LEMMA QueuedAdds ==
    ASSUME queue \in Seq(File), IsInjective(queue), NEW f \in File
    PROVE  /\ Queued(f) \in Seq(File) /\ IsInjective(Queued(f))
           /\ Range(Queued(f)) = Range(queue) \cup {f}
<1>1. CASE Admits(f)
  BY <1>1, AddLast DEF Queued, Admits
<1>2. CASE ~Admits(f)
  BY <1>2 DEF Queued, Admits
<1>3. QED
  BY <1>1, <1>2

\* What the assumption on contents says of one of them.
LEMMA ContentFits ==
    ASSUME NEW c \in Content
    PROVE  /\ Len(c) \in Nat /\ DOMAIN c = 1..Len(c) /\ DOMAIN c \subseteq Ordinals
           /\ \A i \in DOMAIN c : c[i] \in Hash
           /\ c # Absent
<1>1. /\ c \in Seq(Hash) /\ Len(c) <= MaxChunks /\ MaxChunks \in Nat
      /\ c # Absent
  BY DrainAssumption DEF Hash
<1>2. Len(c) \in Nat /\ DOMAIN c = 1..Len(c) /\ \A i \in DOMAIN c : c[i] \in Hash
  BY <1>1
<1>3. DOMAIN c \subseteq Ordinals
  BY <1>1, <1>2 DEF Ordinals
<1>4. QED
  BY <1>1, <1>2, <1>3

\* What becomes of a vault whose directories are moved or deleted is a vault.
LEMMA DirectoryChanges ==
    ASSUME vault \in [File -> Content \cup {Absent}], NEW m \in Moves,
           MoveDirectory(m) \/ RestoreDeletes(m)
    PROVE  \E v \in [File -> Content \cup {Absent}] : WithDirectory(v)
<1>1. DOMAIN m \in SUBSET File
  BY DrainAssumption
<1>2. CASE MoveDirectory(m)
  <2> DEFINE v == [f \in File |->
         IF f \in DOMAIN m THEN Absent
         ELSE IF \E g \in DOMAIN m : m[g] = f THEN vault[CHOOSE g \in DOMAIN m : m[g] = f]
         ELSE vault[f]]
  <2>1. ASSUME NEW f \in File, \E g \in DOMAIN m : m[g] = f
        PROVE  vault[CHOOSE g \in DOMAIN m : m[g] = f] \in Content \cup {Absent}
    <3>1. (CHOOSE g \in DOMAIN m : m[g] = f) \in File
      BY <1>1, <2>1
    <3>2. QED
      BY <3>1
  <2>2. v \in [File -> Content \cup {Absent}]
    BY <2>1
  <2>3. WithDirectory(v)
    BY <1>2 DEF MoveDirectory
  <2>4. QED
    BY <2>2, <2>3
<1>3. CASE RestoreDeletes(m)
  <2> DEFINE v == [f \in File |-> IF f \in DOMAIN m THEN Absent ELSE vault[f]]
  <2>1. v \in [File -> Content \cup {Absent}]
    OBVIOUS
  <2>2. WithDirectory(v)
    BY <1>3 DEF RestoreDeletes
  <2>3. QED
    BY <2>1, <2>2
<1>4. QED
  BY <1>2, <1>3

-----------------------------------------------------------------------------
(* Types.  The rows keep theirs because a drainer that embeds has read a    *)
(* note that existed and misses only ordinals of it.                        *)

PassState ==
    \A d \in Drainer :
      /\ pc[d] \in {"hash", "embed", "prune"} => text[d] \in Content
      /\ pc[d] = "delete" => text[d] = Absent
      /\ pc[d] = "embed" => missing[d] \subseteq DOMAIN text[d]

TypeInv == TypeOK /\ PassState

\* An empty queue over idle drainers is well typed.
LEMMA TypeInit == Init => TypeInv
<1>1. SUFFICES ASSUME Init PROVE TypeInv
  OBVIOUS
<1>2. IsInjective(queue)
  BY <1>1 DEF Init, IsInjective
<1>3. TypeOK
  BY <1>1, <1>2, LimitAssumption
     DEF Init, TypeOK, NoRows, Phases
<1>4. PassState
  BY <1>1 DEF Init, PassState
<1>5. QED
  BY <1>3, <1>4 DEF TypeInv

\* Every operation of queue, drainers and tools keeps the types.
LEMMA TypeStep == TypeInv /\ [Next]_vars => TypeInv'
<1> SUFFICES ASSUME TypeInv, [Next]_vars PROVE TypeInv'
  OBVIOUS
<1> USE DEF TypeInv
<1>1. ASSUME NEW f \in File, NEW c \in Content \cup {Absent}, Edit(f, c) PROVE TypeInv'
  BY <1>1, LimitAssumption DEF Edit, Changed, TypeOK, PassState, IsInjective
<1>2. ASSUME NEW f \in File, NEW g \in File, Move(f, g) PROVE TypeInv'
  <2>1. vault' \in [File -> Content \cup {Absent}]
    BY <1>2 DEF Move, Changed, TypeOK
  <2>2. QED
    BY <1>2, <2>1, LimitAssumption DEF Move, Changed, TypeOK, PassState, IsInjective
<1>3. ASSUME NEW f \in File, Enqueue(f) PROVE TypeInv'
  <2>1. queue' \in Seq(File) /\ IsInjective(queue')
    BY <1>3, QueuedAdds DEF Enqueue, TypeOK
  <2>2. QED
    BY <1>3, <2>1 DEF Enqueue, TypeOK, PassState, IsInjective, counts
<1>4. ASSUME NEW d \in Drainer, Dequeue(d) PROVE TypeInv'
  <2>1. Head(queue) \in File /\ Head(queue) # Nil
        /\ queue' \in Seq(File) /\ IsInjective(queue')
    BY <1>4, TakeHead, LimitAssumption DEF Dequeue, TypeOK
  <2>2. QED
    BY <1>4, <2>1 DEF Dequeue, TypeOK, PassState, IsInjective, counts, Phases
<1>5. ASSUME NEW d \in Drainer, EndPass(d) PROVE TypeInv'
  BY <1>5 DEF EndPass, TypeOK, PassState, IsInjective, counts, Phases
<1>6. ASSUME NEW d \in Drainer, Rebuild(d) PROVE TypeInv'
  BY <1>6, LimitAssumption
     DEF Rebuild, Present, TypeOK, PassState, IsInjective, Phases
<1>7. ASSUME NEW d \in Drainer, WalkFile(d) PROVE TypeInv'
  <2>1. PICK f \in walk[d] :
          /\ walk' = [walk EXCEPT ![d] = @ \ {f}]
          /\ queue' = Queued(f) /\ dropped' = dropped \ {f}
    BY <1>7 DEF WalkFile
  <2>2. f \in File
    BY <2>1 DEF TypeOK
  <2>3. queue' \in Seq(File) /\ IsInjective(queue')
    BY <2>1, <2>2, QueuedAdds DEF TypeOK
  <2>4. QED
    BY <1>7, <2>1, <2>3 DEF WalkFile, TypeOK, PassState, IsInjective, counts
<1>8. ASSUME NEW d \in Drainer, WalkEnds(d) PROVE TypeInv'
  BY <1>8 DEF WalkEnds, TypeOK, PassState, IsInjective, counts, Phases
<1>9. ASSUME NEW d \in Drainer, ProcessFails(d) PROVE TypeInv'
  <2>1. job[d] \in File
    BY <1>9 DEF ProcessFails, TypeOK
  <2>2. QED
    BY <1>9, <2>1, LimitAssumption
       DEF ProcessFails, Outcome, TypeOK, PassState, IsInjective, Phases
<1>10. ASSUME NEW d \in Drainer, ReadContent(d) PROVE TypeInv'
  <2>1. job[d] \in File /\ vault[job[d]] \in Content \cup {Absent}
    BY <1>10 DEF ReadContent, TypeOK
  <2>2. QED
    BY <1>10, <2>1 DEF ReadContent, TypeOK, PassState, IsInjective, counts, Phases
<1>11. ASSUME NEW d \in Drainer, DeleteRows(d) PROVE TypeInv'
  <2>1. rows' \in [File -> [Ordinals -> Hash \cup {Nil}]]
    BY <1>11 DEF DeleteRows, TypeOK, NoRows
  <2>2. QED
    BY <1>11, <2>1 DEF DeleteRows, Outcome, TypeOK, PassState, IsInjective, counts, Phases
<1>12. ASSUME NEW d \in Drainer, CompareHashes(d) PROVE TypeInv'
  <2> DEFINE changed == {i \in DOMAIN text[d] : rows[job[d]][i] # text[d][i]}
  <2>1. text[d] \in Content
    BY <1>12 DEF CompareHashes, PassState
  <2>2. changed \subseteq Ordinals /\ changed \subseteq DOMAIN text[d]
    BY <2>1, ContentFits
  <2> HIDE DEF changed
  <2>3. /\ missing' = [missing EXCEPT ![d] = changed]
        /\ pc' = [pc EXCEPT ![d] = IF changed = {} THEN "prune" ELSE "embed"]
        /\ UNCHANGED <<vault, due, queue, rows, job, text, walk, dropped, counts>>
        /\ pc[d] = "hash"
    BY <1>12 DEF CompareHashes, changed
  <2>4. QED
    BY <2>1, <2>2, <2>3 DEF TypeOK, PassState, IsInjective, counts, Phases
<1>13. ASSUME NEW d \in Drainer, UpsertRows(d) PROVE TypeInv'
  <2>1. text[d] \in Content /\ missing[d] \subseteq DOMAIN text[d] /\ job[d] \in File
    BY <1>13 DEF UpsertRows, PassState, TypeOK
  <2>2. \A i \in missing[d] : text[d][i] \in Hash
    BY <2>1, ContentFits
  <2>3. rows' \in [File -> [Ordinals -> Hash \cup {Nil}]]
    BY <1>13, <2>1, <2>2 DEF UpsertRows, TypeOK
  <2>4. QED
    BY <1>13, <2>1, <2>3 DEF UpsertRows, TypeOK, PassState, IsInjective, counts, Phases
<1>14. ASSUME NEW d \in Drainer, PruneRows(d) PROVE TypeInv'
  <2>1. job[d] \in File
    BY <1>14 DEF PruneRows, TypeOK
  <2>2. rows' \in [File -> [Ordinals -> Hash \cup {Nil}]]
    BY <1>14, <2>1 DEF PruneRows, TypeOK, Pruned
  <2>3. QED
    BY <1>14, <2>1, <2>2
       DEF PruneRows, Outcome, TypeOK, PassState, IsInjective, counts, Phases
<1>15. ASSUME Stop PROVE TypeInv'
  <2>1. queue' \in Seq(File) /\ IsInjective(queue')
    BY <1>15 DEF Stop, IsInjective
  <2>2. QED
    BY <1>15, <2>1, LimitAssumption
       DEF Stop, TypeOK, PassState, IsInjective, Phases
<1>16. ASSUME NEW v \in [File -> Content \cup {Absent}], WithDirectory(v) PROVE TypeInv'
  BY <1>16, LimitAssumption DEF WithDirectory, TypeOK, PassState, IsInjective
<1>17. ASSUME NEW m \in Moves, MoveDirectory(m) \/ RestoreDeletes(m) PROVE TypeInv'
  BY <1>16, <1>17, DirectoryChanges DEF TypeOK
<1>18. CASE UNCHANGED vars
  BY <1>18 DEF vars, TypeOK, PassState, IsInjective
<1>19. QED
  BY <1>1, <1>3, <1>4, <1>5, <1>6, <1>9, <1>10, <1>11, <1>12, <1>13, <1>14, <1>15, <1>18,
     <1>2, <1>7, <1>8, <1>17
     DEF Next, Drain

\* The variables keep their types and the queue holds no path twice.
THEOREM EmbeddingTypeCorrect == Spec => []TypeOK
<1>1. TypeInv => TypeOK
  BY DEF TypeInv
<1>2. QED
  BY <1>1, TypeInit, TypeStep, PTL DEF Spec

-----------------------------------------------------------------------------
(* Freshness.  With one pass at a time, what the drainer read is the note's *)
(* content, or the note has been signalled since, or has changed with its   *)
(* directory; and from phase to phase more of the rows agree with what it   *)
(* read.                                                                    *)

Signalled(f) == f \in due \cup Range(queue)

OnePass == \A d, e \in Drainer : pc[d] # "idle" /\ pc[e] # "idle" => d = e

ReadIsCurrent ==
    \A d \in Drainer : pc[d] \in {"delete", "hash", "embed", "prune"} =>
        Signalled(job[d]) \/ job[d] \in dropped \/ text[d] = vault[job[d]]

RowsFollowText ==
    \A d \in Drainer :
      /\ pc[d] = "embed" =>
           \A i \in DOMAIN text[d] \ missing[d] : rows[job[d]][i] = text[d][i]
      /\ pc[d] = "prune" =>
           \A i \in DOMAIN text[d] : rows[job[d]][i] = text[d][i]

FreshInv == TypeInv /\ OnePass /\ ReadIsCurrent /\ RowsFollowText /\ UnqueuedIsFresh

\* A fresh index misses nothing.
LEMMA FreshInit == Init => FreshInv
<1> SUFFICES ASSUME Init PROVE FreshInv
  OBVIOUS
<1>1. TypeInv
  BY TypeInit
<1>2. OnePass /\ ReadIsCurrent /\ RowsFollowText
  BY DEF Init, OnePass, ReadIsCurrent, RowsFollowText
<1>3. UnqueuedIsFresh
  BY DEF Init, UnqueuedIsFresh, RowsOf, NoRows
<1>4. QED
  BY <1>1, <1>2, <1>3 DEF FreshInv

\* Pruning what does not belong to the text leaves exactly the text's rows.
LEMMA PrunedIsExact ==
    ASSUME NEW c \in Content, NEW r \in [Ordinals -> Hash \cup {Nil}],
           \A i \in DOMAIN c : r[i] = c[i]
    PROVE  Pruned(r, c) = RowsOf(c)
<1>1. Len(c) \in Nat /\ DOMAIN c = 1..Len(c) /\ c # Absent
  BY ContentFits
<1>2. ASSUME NEW i \in Ordinals
      PROVE  (IF i > Len(c) THEN Nil ELSE r[i])
                = (IF c # Absent /\ i <= Len(c) THEN c[i] ELSE Nil)
  BY <1>1 DEF Ordinals
<1>3. QED
  BY <1>2 DEF Pruned, RowsOf

\* With one pass at a time no step loses a signal or leaves a stale row.
LEMMA FreshStep == Alone /\ FreshInv /\ [Next]_vars => FreshInv'
<1> SUFFICES ASSUME Alone, FreshInv, [Next]_vars PROVE FreshInv'
  OBVIOUS
<1>0. TypeInv' /\ TypeOK /\ PassState
  BY TypeStep DEF FreshInv, TypeInv
<1>1. ASSUME NEW f \in File, NEW c \in Content \cup {Absent}, Edit(f, c) PROVE FreshInv'
  <2>1. OnePass' /\ RowsFollowText'
    BY <1>1 DEF Edit, Changed, FreshInv, OnePass, RowsFollowText
  <2>2. ReadIsCurrent'
    BY <1>0, <1>1 DEF Edit, Changed, FreshInv, ReadIsCurrent, Signalled, TypeOK
  <2>3. UnqueuedIsFresh'
    BY <1>0, <1>1 DEF Edit, Changed, FreshInv, UnqueuedIsFresh, Waiting, Busy, TypeOK
  <2>4. QED
    BY <1>0, <2>1, <2>2, <2>3 DEF FreshInv
<1>2. ASSUME NEW f \in File, NEW g \in File, Move(f, g) PROVE FreshInv'
  <2>1. OnePass' /\ RowsFollowText'
    BY <1>2 DEF Move, Changed, FreshInv, OnePass, RowsFollowText
  <2>2. due = {} /\ due' = {f, g} /\ \A h \in File \ {f, g} : vault'[h] = vault[h]
    BY <1>0, <1>2 DEF Move, Changed, TypeOK
  <2>3. ReadIsCurrent'
    BY <1>0, <1>2, <2>2 DEF Move, Changed, FreshInv, ReadIsCurrent, Signalled, TypeOK
  <2>4. UnqueuedIsFresh'
    BY <1>2, <2>2 DEF Move, Changed, FreshInv, UnqueuedIsFresh, Waiting, Busy
  <2>5. QED
    BY <1>0, <2>1, <2>3, <2>4 DEF FreshInv
<1>3. ASSUME NEW f \in File, Enqueue(f) PROVE FreshInv'
  <2>1. Range(queue') = Range(queue) \cup {f}
    BY <1>0, <1>3, QueuedAdds DEF Enqueue, TypeOK
  <2>2. due' \cup Range(queue') = due \cup Range(queue)
    BY <1>3, <2>1 DEF Enqueue
  <2>3. OnePass' /\ RowsFollowText'
    BY <1>3 DEF Enqueue, FreshInv, OnePass, RowsFollowText
  <2>4. ReadIsCurrent'
    BY <1>3, <2>1, <2>2 DEF Enqueue, FreshInv, ReadIsCurrent, Signalled
  <2>5. UnqueuedIsFresh'
    BY <1>3, <2>1, <2>2 DEF Enqueue, FreshInv, UnqueuedIsFresh, Waiting, Busy
  <2>6. QED
    BY <1>0, <2>3, <2>4, <2>5 DEF FreshInv
<1>4. ASSUME NEW d \in Drainer, Dequeue(d) PROVE FreshInv'
  <2>1. /\ Head(queue) \in File /\ Head(queue) # Nil
        /\ Range(queue) = Range(queue') \cup {Head(queue)}
    BY <1>0, <1>4, TakeHead, LimitAssumption DEF Dequeue, TypeOK
  <2>2. \A e \in Drainer \ {d} : pc[e] = "idle"
    BY <1>4 DEF Dequeue, MayStart, FreshInv, OnePass
  <2>3. pc' = [pc EXCEPT ![d] = "read"] /\ pc \in [Drainer -> Phases]
    BY <1>0, <1>4 DEF Dequeue, TypeOK
  <2>4. OnePass' /\ RowsFollowText' /\ ReadIsCurrent'
    BY <2>2, <2>3 DEF OnePass, RowsFollowText, ReadIsCurrent
  <2>5. \A f \in File : Waiting(f) => Waiting(f)'
    <3> SUFFICES ASSUME NEW f \in File, Waiting(f) PROVE Waiting(f)'
      OBVIOUS
    <3>1. CASE f \in due
      BY <1>4, <3>1 DEF Dequeue, Waiting
    <3>2. job'[d] = Head(queue) /\ job' \in [Drainer -> File \cup {Nil}]
      BY <1>0, <1>4, <2>1 DEF Dequeue, TypeOK
    <3>3. CASE f \in Range(queue)
      <4>1. f \in Range(queue') \/ f = job'[d]
        BY <2>1, <3>2, <3>3
      <4>2. QED
        BY <2>1, <3>2, <4>1 DEF Waiting, Busy
    <3>4. CASE f \in Busy
      <4>1. PICK e \in Drainer : job[e] # Nil /\ f = job[e]
        BY <3>4 DEF Busy
      <4>2. e # d
        BY <1>0, <1>4, <4>1 DEF Dequeue, TypeOK
      <4>3. job'[e] = f /\ job'[e] # Nil
        BY <1>0, <1>4, <4>1, <4>2 DEF Dequeue, TypeOK
      <4>4. QED
        BY <4>3 DEF Waiting, Busy
    <3>5. QED
      BY <3>1, <3>3, <3>4 DEF Waiting
  <2>6. UnqueuedIsFresh'
    BY <1>4, <2>5 DEF Dequeue, FreshInv, UnqueuedIsFresh
  <2>7. QED
    BY <1>0, <2>4, <2>6 DEF FreshInv
<1>5. ASSUME NEW d \in Drainer, EndPass(d) PROVE FreshInv'
  <2>1. OnePass' /\ RowsFollowText' /\ ReadIsCurrent'
    BY <1>0, <1>5 DEF EndPass, FreshInv, OnePass, RowsFollowText, ReadIsCurrent,
                      Signalled, TypeOK, Phases
  <2>2. UnqueuedIsFresh'
    BY <1>5 DEF EndPass, FreshInv, UnqueuedIsFresh, Waiting, Busy
  <2>3. QED
    BY <1>0, <2>1, <2>2 DEF FreshInv
<1>6. ASSUME NEW d \in Drainer, Rebuild(d) PROVE FreshInv'
  <2>1. pc[d] = "idle" /\ \A e \in Drainer \ {d} : pc[e] = "idle"
    BY <1>6 DEF Rebuild, MayStart
  <2>2. pc' = [pc EXCEPT ![d] = "walk"] /\ pc \in [Drainer -> Phases]
    BY <1>0, <1>6 DEF Rebuild, TypeOK
  <2>3. OnePass' /\ RowsFollowText' /\ ReadIsCurrent'
    BY <2>1, <2>2 DEF OnePass, RowsFollowText, ReadIsCurrent
  <2>4. UnqueuedIsFresh'
    BY <1>6 DEF Rebuild, FreshInv, UnqueuedIsFresh, Waiting, Busy
  <2>5. QED
    BY <1>0, <2>3, <2>4 DEF FreshInv
<1>7. ASSUME NEW d \in Drainer, WalkFile(d) PROVE FreshInv'
  <2>1. PICK f \in walk[d] :
          /\ walk' = [walk EXCEPT ![d] = @ \ {f}]
          /\ queue' = Queued(f) /\ dropped' = dropped \ {f}
    BY <1>7 DEF WalkFile
  <2>2. Range(queue') = Range(queue) \cup {f}
    <3>1. f \in File
      BY <1>0, <2>1 DEF TypeOK
    <3>2. QED
      BY <1>0, <2>1, <3>1, QueuedAdds DEF TypeOK
  <2>3. OnePass' /\ RowsFollowText'
    BY <1>7 DEF WalkFile, FreshInv, OnePass, RowsFollowText
  <2>4. ReadIsCurrent'
    BY <1>7, <2>1, <2>2 DEF WalkFile, FreshInv, ReadIsCurrent, Signalled
  <2>5. UnqueuedIsFresh'
    BY <1>7, <2>1, <2>2 DEF WalkFile, FreshInv, UnqueuedIsFresh, Waiting, Busy
  <2>6. QED
    BY <1>0, <2>3, <2>4, <2>5 DEF FreshInv
<1>8. ASSUME NEW d \in Drainer, WalkEnds(d) PROVE FreshInv'
  <2>1. OnePass' /\ RowsFollowText' /\ ReadIsCurrent'
    BY <1>0, <1>8 DEF WalkEnds, FreshInv, OnePass, RowsFollowText, ReadIsCurrent,
                       Signalled, TypeOK, Phases
  <2>2. UnqueuedIsFresh'
    BY <1>8 DEF WalkEnds, FreshInv, UnqueuedIsFresh, Waiting, Busy
  <2>3. QED
    BY <1>0, <2>1, <2>2 DEF FreshInv
<1>9. ASSUME NEW d \in Drainer, ProcessFails(d) PROVE FreshInv'
  <2>1. \A e \in Drainer \ {d} : pc[e] = "idle"
    BY <1>9 DEF ProcessFails, FreshInv, OnePass
  <2>2. /\ \A e \in Drainer \ {d} : pc'[e] = pc[e]
        /\ pc'[d] \in {"next", "idle"}
    BY <1>0, <1>9 DEF ProcessFails, Outcome, TypeOK
  <2>3. OnePass' /\ RowsFollowText' /\ ReadIsCurrent'
    BY <2>1, <2>2 DEF OnePass, RowsFollowText, ReadIsCurrent
  <2>4. UnqueuedIsFresh'
    <3> SUFFICES ASSUME NEW f \in File, ~Waiting(f)', f \notin dropped'
                 PROVE  rows'[f] = RowsOf(vault'[f])
      BY DEF UnqueuedIsFresh, RowsOf
    <3>1. f \notin due /\ f \notin Range(queue) /\ f # job[d] /\ f \notin dropped
      BY <1>9 DEF ProcessFails, Waiting
    <3>2. ASSUME NEW e \in Drainer, job[e] # Nil PROVE job[e] # f
      BY <1>0, <1>9, <3>1, <3>2 DEF ProcessFails, Outcome, TypeOK, Waiting, Busy
    <3>3. ~Waiting(f)
      BY <3>1, <3>2 DEF Waiting, Busy
    <3>4. QED
      BY <1>9, <3>1, <3>3 DEF ProcessFails, FreshInv, UnqueuedIsFresh
  <2>5. QED
    BY <1>0, <2>3, <2>4 DEF FreshInv
<1>10. ASSUME NEW d \in Drainer, ReadContent(d) PROVE FreshInv'
  <2>1. \A e \in Drainer \ {d} : pc[e] = "idle"
    BY <1>10 DEF ReadContent, FreshInv, OnePass
  <2>2. /\ \A e \in Drainer \ {d} : pc'[e] = "idle"
        /\ pc'[d] \in {"delete", "hash"} /\ text'[d] = vault[job[d]]
    BY <1>0, <1>10, <2>1 DEF ReadContent, TypeOK
  <2>3. OnePass' /\ RowsFollowText' /\ ReadIsCurrent'
    BY <1>10, <2>2 DEF ReadContent, OnePass, RowsFollowText, ReadIsCurrent
  <2>4. UnqueuedIsFresh'
    BY <1>10 DEF ReadContent, FreshInv, UnqueuedIsFresh, Waiting, Busy
  <2>5. QED
    BY <1>0, <2>3, <2>4 DEF FreshInv
<1>11. ASSUME NEW d \in Drainer, DeleteRows(d) PROVE FreshInv'
  <2>1. \A e \in Drainer \ {d} : pc[e] = "idle"
    BY <1>11 DEF DeleteRows, FreshInv, OnePass
  <2>2. /\ \A e \in Drainer \ {d} : pc'[e] = "idle"
        /\ pc'[d] \in {"next", "idle"}
    BY <1>0, <1>11, <2>1 DEF DeleteRows, Outcome, TypeOK
  <2>3. OnePass' /\ RowsFollowText' /\ ReadIsCurrent'
    BY <2>2 DEF OnePass, RowsFollowText, ReadIsCurrent
  <2>4. UnqueuedIsFresh'
    <3> SUFFICES ASSUME NEW f \in File, ~Waiting(f)', f \notin dropped'
                 PROVE  rows'[f] = RowsOf(vault'[f])
      BY DEF UnqueuedIsFresh, RowsOf
    <3>1. f \notin due /\ f \notin Range(queue) /\ f \notin dropped
      BY <1>11 DEF DeleteRows, Waiting
    <3>2. CASE f = job[d]
      <4>1. vault[f] = Absent
        BY <1>0, <1>11, <3>1, <3>2
           DEF DeleteRows, FreshInv, ReadIsCurrent, Signalled, PassState
      <4>2. rows'[f] = NoRows /\ vault' = vault
        BY <1>0, <1>11, <3>2 DEF DeleteRows, TypeOK
      <4>3. QED
        BY <4>1, <4>2 DEF RowsOf, NoRows
    <3>3. CASE f # job[d]
      <4>1. ASSUME NEW e \in Drainer, job[e] # Nil PROVE job[e] # f
        BY <1>0, <1>11, <3>3, <2>1, <4>1 DEF TypeOK
      <4>2. ~Waiting(f)
        BY <3>1, <4>1 DEF Waiting, Busy
      <4>3. rows'[f] = rows[f] /\ vault' = vault
        BY <1>0, <1>11, <3>3 DEF DeleteRows, TypeOK
      <4>4. QED
        BY <3>1, <4>2, <4>3 DEF FreshInv, UnqueuedIsFresh
    <3>4. QED
      BY <3>2, <3>3
  <2>5. QED
    BY <1>0, <2>3, <2>4 DEF FreshInv
<1>12. ASSUME NEW d \in Drainer, CompareHashes(d) PROVE FreshInv'
  <2> DEFINE changed == {i \in DOMAIN text[d] : rows[job[d]][i] # text[d][i]}
  <2>1. \A i \in DOMAIN text[d] \ changed : rows[job[d]][i] = text[d][i]
    OBVIOUS
  <2>2. changed = {} => \A i \in DOMAIN text[d] : rows[job[d]][i] = text[d][i]
    OBVIOUS
  <2> HIDE DEF changed
  <2>3. /\ missing' = [missing EXCEPT ![d] = changed]
        /\ pc' = [pc EXCEPT ![d] = IF changed = {} THEN "prune" ELSE "embed"]
        /\ UNCHANGED <<vault, due, queue, rows, job, text, dropped>>
        /\ pc[d] = "hash"
    BY <1>12 DEF CompareHashes, changed
  <2>4. \A e \in Drainer \ {d} : pc[e] = "idle"
    BY <2>3 DEF FreshInv, OnePass
  <2>5. /\ \A e \in Drainer \ {d} : pc'[e] = "idle"
        /\ pc'[d] = (IF changed = {} THEN "prune" ELSE "embed")
        /\ missing'[d] = changed
    BY <1>0, <2>3, <2>4 DEF TypeOK
  <2>6. OnePass' /\ RowsFollowText'
    BY <2>1, <2>2, <2>3, <2>5 DEF OnePass, RowsFollowText
  <2>7. ReadIsCurrent'
    BY <2>3, <2>5 DEF FreshInv, ReadIsCurrent, Signalled
  <2>8. UnqueuedIsFresh'
    BY <2>3 DEF FreshInv, UnqueuedIsFresh, Waiting, Busy
  <2>9. QED
    BY <1>0, <2>6, <2>7, <2>8 DEF FreshInv
<1>13. ASSUME NEW d \in Drainer, UpsertRows(d) PROVE FreshInv'
  <2>1. \A e \in Drainer \ {d} : pc[e] = "idle"
    BY <1>13 DEF UpsertRows, FreshInv, OnePass
  <2>2. \A e \in Drainer \ {d} : pc'[e] = "idle"
    BY <1>0, <1>13, <2>1 DEF UpsertRows, TypeOK
  <2>3. pc[d] = "embed" /\ pc'[d] = "prune" /\ text[d] \in Content /\ job[d] \in File
    BY <1>0, <1>13 DEF UpsertRows, TypeOK, PassState
  <2>4. DOMAIN text[d] \subseteq Ordinals
    BY <2>3, ContentFits
  <2>5. rows'[job[d]] = [i \in Ordinals |-> IF i \in missing[d] THEN text[d][i]
                                            ELSE rows[job[d]][i]]
    BY <1>0, <1>13, <2>3 DEF UpsertRows, TypeOK
  <2>6. \A i \in DOMAIN text[d] : rows'[job[d]][i] = text[d][i]
    BY <2>3, <2>4, <2>5 DEF FreshInv, RowsFollowText
  <2>7. OnePass' /\ RowsFollowText'
    BY <1>13, <2>2, <2>3, <2>6 DEF UpsertRows, OnePass, RowsFollowText
  <2>8. ReadIsCurrent'
    BY <1>13, <2>2, <2>3 DEF UpsertRows, FreshInv, ReadIsCurrent, Signalled
  <2>9. UnqueuedIsFresh'
    <3> SUFFICES ASSUME NEW f \in File, ~Waiting(f)', f \notin dropped'
                 PROVE  rows'[f] = RowsOf(vault'[f])
      BY DEF UnqueuedIsFresh, RowsOf
    <3>1. ~Waiting(f) /\ f # job[d]
      BY <1>13, <2>3, LimitAssumption DEF UpsertRows, Waiting, Busy
    <3>2. QED
      BY <1>0, <1>13, <3>1 DEF UpsertRows, FreshInv, UnqueuedIsFresh, TypeOK
  <2>10. QED
    BY <1>0, <2>7, <2>8, <2>9 DEF FreshInv
<1>14. ASSUME NEW d \in Drainer, PruneRows(d) PROVE FreshInv'
  <2>1. \A e \in Drainer \ {d} : pc[e] = "idle"
    BY <1>14 DEF PruneRows, FreshInv, OnePass
  <2>2. /\ \A e \in Drainer \ {d} : pc'[e] = "idle"
        /\ pc'[d] \in {"next", "idle"}
    BY <1>0, <1>14, <2>1 DEF PruneRows, Outcome, TypeOK
  <2>3. OnePass' /\ RowsFollowText' /\ ReadIsCurrent'
    BY <2>2 DEF OnePass, RowsFollowText, ReadIsCurrent
  <2>4. UnqueuedIsFresh'
    <3> SUFFICES ASSUME NEW f \in File, ~Waiting(f)', f \notin dropped'
                 PROVE  rows'[f] = RowsOf(vault'[f])
      BY DEF UnqueuedIsFresh, RowsOf
    <3>1. f \notin due /\ f \notin Range(queue) /\ f \notin dropped /\ vault' = vault
      BY <1>14 DEF PruneRows, Waiting
    <3>2. CASE f = job[d]
      <4>1. text[d] \in Content /\ text[d] = vault[f]
        BY <1>0, <1>14, <3>1, <3>2
           DEF PruneRows, FreshInv, ReadIsCurrent, Signalled, PassState
      <4>2. rows'[f] = Pruned(rows[f], text[d])
        BY <1>0, <1>14, <3>2 DEF PruneRows, TypeOK
      <4>3. /\ rows[f] \in [Ordinals -> Hash \cup {Nil}]
            /\ \A i \in DOMAIN text[d] : rows[f][i] = text[d][i]
        BY <1>0, <1>14, <3>2 DEF PruneRows, FreshInv, RowsFollowText, TypeOK
      <4>4. QED
        BY <3>1, <4>1, <4>2, <4>3, PrunedIsExact
    <3>3. CASE f # job[d]
      <4>1. ASSUME NEW e \in Drainer, job[e] # Nil PROVE job[e] # f
        BY <1>0, <1>14, <3>3, <2>1, <4>1 DEF TypeOK
      <4>2. ~Waiting(f)
        BY <3>1, <4>1 DEF Waiting, Busy
      <4>3. rows'[f] = rows[f]
        BY <1>0, <1>14, <3>3 DEF PruneRows, TypeOK
      <4>4. QED
        BY <3>1, <4>2, <4>3 DEF FreshInv, UnqueuedIsFresh
    <3>4. QED
      BY <3>2, <3>3
  <2>5. QED
    BY <1>0, <2>3, <2>4 DEF FreshInv
<1>15. ASSUME Stop PROVE FreshInv'
  <2>1. \A d \in Drainer : pc'[d] = "idle"
    BY <1>15 DEF Stop
  <2>2. OnePass' /\ RowsFollowText' /\ ReadIsCurrent'
    BY <2>1 DEF OnePass, RowsFollowText, ReadIsCurrent
  <2>3. UnqueuedIsFresh'
    BY <1>15 DEF Stop, FreshInv, UnqueuedIsFresh
  <2>4. QED
    BY <1>0, <2>2, <2>3 DEF FreshInv
<1>16. ASSUME NEW v \in [File -> Content \cup {Absent}], WithDirectory(v) PROVE FreshInv'
  <2> DEFINE fs == {f \in File : v[f] # vault[f]}
  <2>1. /\ vault' = v /\ dropped' = dropped \cup (fs \ (Range(queue) \cup Unread))
        /\ UNCHANGED <<due, queue, rows, pc, job, text, missing>>
    BY <1>16 DEF WithDirectory
  <2>2. \A f \in File : f \in fs \/ vault'[f] = vault[f]
    BY <2>1
  <2> HIDE DEF fs
  <2>3. OnePass' /\ RowsFollowText'
    BY <2>1 DEF FreshInv, OnePass, RowsFollowText
  <2>4. ReadIsCurrent'
    <3> SUFFICES ASSUME NEW d \in Drainer, pc[d] \in {"delete", "hash", "embed", "prune"}
                 PROVE  Signalled(job[d]) \/ job[d] \in dropped' \/ text[d] = vault'[job[d]]
      BY <2>1 DEF ReadIsCurrent, Signalled
    <3>1. job[d] \in File /\ job[d] # Nil
      BY <1>0, LimitAssumption DEF TypeOK
    <3>2. job[d] \notin Unread
      <4>1. \A e \in Drainer : pc[e] = "read" => e = d
        BY DEF FreshInv, OnePass
      <4>2. QED
        BY <4>1 DEF Unread
    <3>3. CASE job[d] \in fs
      BY <2>1, <3>2, <3>3 DEF Signalled
    <3>4. CASE vault'[job[d]] = vault[job[d]]
      BY <2>1, <3>4 DEF FreshInv, ReadIsCurrent
    <3>5. QED
      BY <2>2, <3>1, <3>3, <3>4
  <2>5. UnqueuedIsFresh'
    <3> SUFFICES ASSUME NEW f \in File, ~Waiting(f), f \notin dropped'
                 PROVE  rows[f] = RowsOf(vault'[f])
      BY <2>1 DEF UnqueuedIsFresh, Waiting, Busy, RowsOf
    <3>1. f \notin Range(queue) \cup Unread
      <4>1. \A e \in Drainer : pc[e] = "read" => job[e] # Nil
        BY <1>0 DEF TypeOK
      <4>2. QED
        BY <4>1 DEF Waiting, Busy, Unread
    <3>2. f \notin dropped /\ vault'[f] = vault[f]
      BY <2>1, <2>2, <3>1
    <3>3. QED
      BY <3>2 DEF FreshInv, UnqueuedIsFresh
  <2>6. QED
    BY <1>0, <2>3, <2>4, <2>5 DEF FreshInv
<1>17. ASSUME NEW m \in Moves, MoveDirectory(m) \/ RestoreDeletes(m) PROVE FreshInv'
  BY <1>0, <1>16, <1>17, DirectoryChanges DEF TypeOK
<1>18. CASE UNCHANGED vars
  <2>1. OnePass' /\ RowsFollowText' /\ ReadIsCurrent'
    BY <1>18 DEF vars, FreshInv, OnePass, RowsFollowText, ReadIsCurrent, Signalled
  <2>2. UnqueuedIsFresh'
    BY <1>18 DEF vars, FreshInv, UnqueuedIsFresh, Waiting, Busy
  <2>3. QED
    BY <1>0, <2>1, <2>2 DEF FreshInv
<1>19. QED
  BY <1>1, <1>3, <1>4, <1>5, <1>6, <1>9, <1>10, <1>11, <1>12, <1>13, <1>14, <1>15, <1>18,
     <1>2, <1>7, <1>8, <1>17
     DEF Next, Drain

\* When the passes of two drainers never overlap, a note nobody is about to
\* index has exactly the rows of its content, however its changes interleave
\* with the passes, and whatever fails or stops, unless its last change has no
\* signal left.
THEOREM NothingIsMissed == Alone => (Spec => []UnqueuedIsFresh)
<1>1. FreshInv => UnqueuedIsFresh
  BY DEF FreshInv
<1>2. SUFFICES ASSUME Alone PROVE Spec => []UnqueuedIsFresh
  OBVIOUS
<1>3. FreshInv /\ [Next]_vars => FreshInv'
  BY <1>2, FreshStep
<1>4. QED
  BY <1>1, <1>3, FreshInit, PTL DEF Spec

-----------------------------------------------------------------------------
(* EmbeddingQueue implements FreshIndex, as far as safety goes: when passes *)
(* do not overlap, each step is one of the abstract steps, or none.         *)

\* The abstract variables.
Awaited == {f \in File : Waiting(f)}
Lost == {f \in dropped : ~Waiting(f)}

\* A note whose last change has no signal left is not read before it is signalled
\* again.
NoWorkForLost == \A f \in dropped : f \in Range(queue) \cup Unread => f \in due

RefineInv == FreshInv /\ NoWorkForLost

\* Only the drainer whose pass it is has a path.
LEMMA OneJob ==
    ASSUME FreshInv, NEW d \in Drainer, pc[d] # "idle"
    PROVE  Busy = {job[d]} \ {Nil}
<1>1. \A e \in Drainer \ {d} : job[e] = Nil
  BY DEF FreshInv, OnePass, TypeInv, TypeOK
<1>2. QED
  BY <1>1 DEF Busy

\* Taking a path off the queue leaves it as awaited as it was.
LEMMA DequeueKeepsAwaited ==
    ASSUME Alone, FreshInv, NEW d \in Drainer, Dequeue(d)
    PROVE  /\ Range(queue') \cup Busy' = Range(queue) \cup Busy
           /\ Range(queue') \cup Unread' \subseteq Range(queue)
<1>1. TypeOK
  BY DEF FreshInv, TypeInv
<1>2. /\ Head(queue) \in File /\ Head(queue) # Nil
      /\ Range(queue) = Range(queue') \cup {Head(queue)}
  BY <1>1, TakeHead, LimitAssumption DEF Dequeue, TypeOK
<1>3. \A e \in Drainer \ {d} : pc[e] = "idle"
  BY DEF Dequeue, MayStart, FreshInv, OnePass
<1>4. \A e \in Drainer : job[e] = Nil
  BY <1>1, <1>3 DEF Dequeue, TypeOK
<1>5. job'[d] = Head(queue) /\ \A e \in Drainer \ {d} : job'[e] = Nil
  BY <1>1, <1>4 DEF Dequeue, TypeOK
<1>6. Busy = {} /\ Busy' = {Head(queue)}
  BY <1>2, <1>4, <1>5 DEF Busy
<1>7. Unread' = {Head(queue)}
  <2>1. pc'[d] = "read" /\ \A e \in Drainer \ {d} : pc'[e] = "idle"
    BY <1>1, <1>3 DEF Dequeue, TypeOK
  <2>2. QED
    BY <1>5, <2>1 DEF Unread
<1>8. QED
  BY <1>2, <1>6, <1>7

-----------------------------------------------------------------------------
(* The invariant.                                                           *)

\* Nothing is lost at first.
LEMMA RefineInit == Init => RefineInv
<1>1. Init => NoWorkForLost
  BY DEF Init, NoWorkForLost
<1>2. QED
  BY <1>1, FreshInit DEF RefineInv

\* A note becomes lost when the work on it ends, and stops being lost before it
\* is queued.
LEMMA RefineStep == Alone /\ RefineInv /\ [Next]_vars => RefineInv'
<1> SUFFICES ASSUME Alone, RefineInv, [Next]_vars PROVE RefineInv'
  OBVIOUS
<1>0. FreshInv /\ FreshInv' /\ NoWorkForLost /\ TypeOK
  BY FreshStep DEF RefineInv, FreshInv, TypeInv
<1>1. ASSUME NEW f \in File, NEW c \in Content \cup {Absent}, Edit(f, c) PROVE NoWorkForLost'
  BY <1>0, <1>1 DEF Edit, Changed, NoWorkForLost, Unread
<1>2. ASSUME NEW f \in File, NEW g \in File, Move(f, g) PROVE NoWorkForLost'
  BY <1>0, <1>2 DEF Move, Changed, NoWorkForLost, Unread
<1>3. ASSUME NEW f \in File, Enqueue(f) PROVE NoWorkForLost'
  <2>1. Range(queue') = Range(queue) \cup {f}
    BY <1>0, <1>3, QueuedAdds DEF Enqueue, TypeOK
  <2>2. QED
    BY <1>0, <1>3, <2>1 DEF Enqueue, NoWorkForLost, Unread
<1>4. ASSUME NEW d \in Drainer, Dequeue(d) PROVE NoWorkForLost'
  <2>1. Range(queue') \cup Unread' \subseteq Range(queue)
    BY <1>0, <1>4, DequeueKeepsAwaited
  <2>2. dropped' = dropped /\ due' = due
    BY <1>4 DEF Dequeue
  <2>3. QED
    BY <1>0, <2>1, <2>2 DEF NoWorkForLost
<1>5. ASSUME UNCHANGED <<due, queue, dropped, job>>,
             \A d \in Drainer : pc'[d] = "read" => pc[d] = "read"
      PROVE  NoWorkForLost'
  <2>1. Unread' \subseteq Unread
    BY <1>5 DEF Unread
  <2>2. QED
    BY <1>0, <1>5, <2>1 DEF NoWorkForLost
<1>6. ASSUME NEW d \in Drainer, WalkFile(d) PROVE NoWorkForLost'
  <2>1. PICK f \in walk[d] : queue' = Queued(f) /\ dropped' = dropped \ {f}
    BY <1>6 DEF WalkFile
  <2>2. Range(queue') = Range(queue) \cup {f}
    BY <1>0, <2>1, QueuedAdds DEF TypeOK
  <2>3. QED
    BY <1>0, <1>6, <2>1, <2>2 DEF WalkFile, NoWorkForLost, Unread
<1>7. ASSUME NEW d \in Drainer, pc[d] # "idle", Outcome(d), UNCHANGED <<due, queue>>,
             dropped' = dropped \/ dropped' = dropped \cup ({job[d]} \ (due \cup Range(queue)))
      PROVE  NoWorkForLost'
  <2>1. \A e \in Drainer : pc'[e] # "read"
    BY <1>0, <1>7 DEF FreshInv, OnePass, Outcome, TypeOK
  <2>2. Unread' = {}
    BY <2>1 DEF Unread
  <2>3. QED
    BY <1>0, <1>7, <2>2 DEF NoWorkForLost
<1>8. ASSUME Stop PROVE NoWorkForLost'
  <2>1. Range(queue') = {} /\ Unread' = {}
    BY <1>8 DEF Stop, Range, Unread
  <2>2. QED
    BY <2>1 DEF NoWorkForLost
<1>9. ASSUME NEW d \in Drainer, Drain(d) \/ Rebuild(d) PROVE NoWorkForLost'
  <2>1. CASE EndPass(d) \/ WalkEnds(d) \/ Rebuild(d)
    BY <1>0, <1>5, <2>1 DEF EndPass, WalkEnds, Rebuild, TypeOK
  <2>2. CASE ReadContent(d) \/ CompareHashes(d) \/ UpsertRows(d)
    BY <1>0, <1>5, <2>2 DEF ReadContent, CompareHashes, UpsertRows, TypeOK
  <2>3. CASE ProcessFails(d)
    BY <1>7, <2>3 DEF ProcessFails
  <2>4. CASE DeleteRows(d) \/ PruneRows(d)
    BY <1>7, <2>4 DEF DeleteRows, PruneRows
  <2>5. QED
    BY <1>4, <1>6, <1>9, <2>1, <2>2, <2>3, <2>4 DEF Drain
<1>10. ASSUME NEW m \in Moves, MoveDirectory(m) \/ RestoreDeletes(m) PROVE NoWorkForLost'
  <2>1. PICK v \in [File -> Content \cup {Absent}] : WithDirectory(v)
    BY <1>0, <1>10, DirectoryChanges DEF TypeOK
  <2>2. QED
    BY <1>0, <2>1 DEF WithDirectory, NoWorkForLost, Unread
<1>11. NoWorkForLost'
  BY <1>1, <1>2, <1>3, <1>5, <1>8, <1>9, <1>10 DEF Next, vars
<1>12. QED
  BY <1>0, <1>11 DEF RefineInv

-----------------------------------------------------------------------------
(* The steps.                                                               *)

\* A step that changes neither vault nor rows nor who is awaited or lost.
LEMMA Stutters ==
    ASSUME UNCHANGED <<vault, rows, Awaited, Lost>>
    PROVE  UNCHANGED Index!vars
BY DEF Index!vars, Awaited, Lost

\* The empty vault is the abstract one.
LEMMA InitRefines == Init => Index!Init
<1> SUFFICES ASSUME Init PROVE Index!Init
  OBVIOUS
<1>1. Awaited = {} /\ Lost = {}
  BY DEF Init, Awaited, Lost, Waiting, Busy, Range
<1>2. RowsOf(Absent) = NoRows
  BY DEF RowsOf, NoRows
<1>3. QED
  BY <1>1, <1>2 DEF Init, Index!Init, Awaited, Lost

\* The end of the work on a note that nobody has signalled again, with the rows
\* of its content, is the abstract Finish; on a signalled one it is Work, and on
\* one that has changed with its directory it is Lose.
LEMMA EndRefines ==
    ASSUME RefineInv, NEW d \in Drainer, pc[d] \in {"delete", "prune"}, Outcome(d),
           UNCHANGED <<vault, due, queue, dropped>>,
           NEW r \in [Ordinals -> Hash \cup {Nil}], rows' = [rows EXCEPT ![job[d]] = r],
           ~Signalled(job[d]) /\ job[d] \notin dropped => r = RowsOf(vault[job[d]])
    PROVE  Index!Next
<1>0. TypeOK /\ FreshInv /\ NoWorkForLost
  BY DEF RefineInv, FreshInv, TypeInv
<1>1. job[d] \in File /\ job[d] # Nil
  BY <1>0, LimitAssumption DEF TypeOK
<1>2. Busy = {job[d]}
  BY <1>0, <1>1, OneJob
<1>3. \A e \in Drainer : job'[e] = Nil
  BY <1>0 DEF FreshInv, OnePass, Outcome, TypeOK
<1>4. Busy' = {}
  BY <1>3 DEF Busy
<1>5. job[d] \in Awaited
  BY <1>1, <1>2 DEF Awaited, Waiting
<1>6. CASE Signalled(job[d])
  <2>1. Awaited' = Awaited /\ Lost' = Lost
    BY <1>2, <1>4, <1>6 DEF Awaited, Lost, Waiting, Signalled
  <2>2. Index!Work(job[d])
    BY <1>5, <2>1 DEF Index!Work, Awaited, Lost
  <2>3. QED
    BY <1>1, <2>2 DEF Index!Next
<1>7. CASE ~Signalled(job[d])
  <2>1. Awaited' = Awaited \ {job[d]}
    BY <1>2, <1>4, <1>7 DEF Awaited, Waiting, Signalled
  <2>2. CASE job[d] \in dropped
    <3>1. Lost' = Lost \cup {job[d]}
      BY <1>1, <1>2, <1>4, <1>7, <2>2 DEF Lost, Waiting, Signalled
    <3>2. rows' \in [File -> [Ordinals -> Hash \cup {Nil}]]
      BY <1>0 DEF TypeOK
    <3>3. Index!Lose({job[d]})
      BY <1>0, <1>5, <2>1, <3>1, <3>2 DEF Index!Lose, Awaited, Lost, TypeOK
    <3>4. QED
      BY <1>1, <3>3 DEF Index!Next
  <2>3. CASE job[d] \notin dropped
    <3>1. Lost' = Lost
      BY <1>2, <1>4, <1>7, <2>3 DEF Lost, Waiting, Signalled
    <3>2. vault[job[d]] \in Content \cup {Absent}
      BY <1>0, <1>1 DEF TypeOK
    <3>3. Index!Finish(job[d])
      BY <1>5, <1>7, <2>1, <2>3, <3>1, <3>2 DEF Index!Finish, Awaited, Lost
    <3>4. QED
      BY <1>1, <3>3 DEF Index!Next
  <2>4. QED
    BY <2>2, <2>3
<1>8. QED
  BY <1>6, <1>7

\* Every step of the queue is an abstract step, or none.
LEMMA StepRefines == Alone /\ RefineInv /\ [Next]_vars => [Index!Next]_(Index!vars)
<1> SUFFICES ASSUME Alone, RefineInv, [Next]_vars PROVE [Index!Next]_(Index!vars)
  OBVIOUS
<1>0. FreshInv /\ FreshInv' /\ NoWorkForLost /\ TypeOK /\ TypeOK' /\ PassState
  BY FreshStep DEF RefineInv, FreshInv, TypeInv
<1>1. ASSUME NEW fs \in SUBSET File, NEW v \in [File -> Content \cup {Absent}],
             \A f \in File \ fs : v[f] = vault[f], Changed(v, fs)
      PROVE  Index!Change
  <2>1. Awaited' = Awaited \cup fs /\ Lost' = Lost \ fs
    BY <1>1 DEF Changed, Awaited, Lost, Waiting, Busy
  <2>2. vault' = v /\ rows' = rows
    BY <1>1 DEF Changed
  <2>3. QED
    BY <1>1, <2>1, <2>2 DEF Index!Change, Awaited, Lost
<1>2. ASSUME NEW f \in File, NEW c \in Content \cup {Absent}, Edit(f, c) PROVE Index!Next
  <2>1. /\ [vault EXCEPT ![f] = c] \in [File -> Content \cup {Absent}]
        /\ \A h \in File \ {f} : [vault EXCEPT ![f] = c][h] = vault[h]
    BY <1>0 DEF TypeOK
  <2>2. QED
    BY <1>1, <1>2, <2>1 DEF Edit, Index!Next
<1>3. ASSUME NEW f \in File, NEW g \in File, Move(f, g) PROVE Index!Next
  <2> DEFINE v == [vault EXCEPT ![f] = Absent, ![g] = vault[f]]
  <2>1. v \in [File -> Content \cup {Absent}] /\ \A h \in File \ {f, g} : v[h] = vault[h]
    BY <1>0 DEF TypeOK
  <2>2. Changed(v, {f, g})
    BY <1>3 DEF Move
  <2> HIDE DEF v
  <2>3. QED
    BY <1>1, <2>1, <2>2 DEF Index!Next
<1>4. ASSUME NEW f \in File, Enqueue(f) PROVE UNCHANGED Index!vars
  <2>1. Range(queue') = Range(queue) \cup {f}
    BY <1>0, <1>4, QueuedAdds DEF Enqueue, TypeOK
  <2>2. Awaited' = Awaited
    BY <1>4, <2>1 DEF Enqueue, Awaited, Waiting, Busy
  <2>3. Lost' = Lost
    BY <1>4, <2>1 DEF Enqueue, Lost, Waiting, Busy
  <2>4. QED
    BY <1>4, <2>2, <2>3, Stutters DEF Enqueue, counts
<1>5. ASSUME NEW d \in Drainer, Dequeue(d) PROVE UNCHANGED Index!vars
  <2>1. Range(queue') \cup Busy' = Range(queue) \cup Busy
    BY <1>0, <1>5, DequeueKeepsAwaited
  <2>2. UNCHANGED <<vault, rows, due, dropped>>
    BY <1>5 DEF Dequeue
  <2>3. Awaited' = Awaited /\ Lost' = Lost
    BY <2>1, <2>2 DEF Awaited, Lost, Waiting
  <2>4. QED
    BY <2>2, <2>3, Stutters
<1>6. ASSUME UNCHANGED <<vault, rows, due, queue, job, dropped>> PROVE UNCHANGED Index!vars
  <2>1. Awaited' = Awaited /\ Lost' = Lost
    BY <1>6 DEF Awaited, Lost, Waiting, Busy
  <2>2. QED
    BY <1>6, <2>1, Stutters
<1>7. ASSUME NEW d \in Drainer, WalkFile(d) PROVE Index!Next
  <2>1. PICK f \in walk[d] : queue' = Queued(f) /\ dropped' = dropped \ {f}
    BY <1>7 DEF WalkFile
  <2>2. f \in File /\ Range(queue') = Range(queue) \cup {f}
    BY <1>0, <2>1, QueuedAdds DEF TypeOK
  <2>3. Awaited' = Awaited \cup {f} /\ Lost' = Lost \ {f}
    BY <1>7, <2>1, <2>2 DEF WalkFile, Awaited, Lost, Waiting, Busy
  <2>4. Index!Request(f)
    BY <1>7, <2>3 DEF WalkFile, Index!Request, Awaited, Lost
  <2>5. QED
    BY <2>2, <2>4 DEF Index!Next
<1>8. ASSUME NEW d \in Drainer, ProcessFails(d) PROVE [Index!Next]_(Index!vars)
  <2>1. job[d] \in File /\ job[d] # Nil /\ pc[d] # "idle"
    BY <1>0, <1>8, LimitAssumption DEF ProcessFails, TypeOK
  <2>2. Busy = {job[d]}
    BY <1>0, <2>1, OneJob
  <2>3. \A e \in Drainer : job'[e] = Nil
    BY <1>0, <1>8, <2>1 DEF ProcessFails, FreshInv, OnePass, Outcome, TypeOK
  <2>4. Busy' = {}
    BY <2>3 DEF Busy
  <2>5. UNCHANGED <<vault, rows, due, queue>>
    BY <1>8 DEF ProcessFails
  <2>6. CASE Signalled(job[d])
    <3>1. dropped' = dropped
      BY <1>8, <2>6 DEF ProcessFails, Signalled
    <3>2. Awaited' = Awaited /\ Lost' = Lost
      BY <2>2, <2>4, <2>5, <2>6, <3>1 DEF Awaited, Lost, Waiting, Signalled
    <3>3. QED
      BY <2>5, <3>2, Stutters
  <2>7. CASE ~Signalled(job[d])
    <3>1. dropped' = dropped \cup {job[d]}
      BY <1>8, <2>7 DEF ProcessFails, Signalled
    <3>2. Awaited' = Awaited \ {job[d]} /\ job[d] \in Awaited
      BY <2>1, <2>2, <2>4, <2>5, <2>7 DEF Awaited, Waiting, Signalled
    <3>3. Lost' = Lost \cup {job[d]}
      BY <2>2, <2>4, <2>5, <2>7, <3>1 DEF Lost, Waiting, Signalled
    <3>4. Index!Lose({job[d]})
      BY <1>0, <2>5, <3>2, <3>3 DEF Index!Lose, Awaited, Lost, TypeOK
    <3>5. QED
      BY <2>1, <3>4 DEF Index!Next
  <2>8. QED
    BY <2>6, <2>7
<1>9. ASSUME NEW d \in Drainer, DeleteRows(d) PROVE Index!Next
  <2>1. text[d] = Absent
    BY <1>0, <1>9 DEF DeleteRows, PassState
  <2>2. ~Signalled(job[d]) /\ job[d] \notin dropped => NoRows = RowsOf(vault[job[d]])
    BY <1>0, <1>9, <2>1 DEF DeleteRows, FreshInv, ReadIsCurrent, RowsOf, NoRows
  <2>3. NoRows \in [Ordinals -> Hash \cup {Nil}]
    BY DEF NoRows
  <2>4. QED
    BY <1>9, <2>2, <2>3, EndRefines DEF DeleteRows
<1>10. ASSUME NEW d \in Drainer, UpsertRows(d) PROVE Index!Next
  <2>1. job[d] \in File /\ job[d] # Nil
    BY <1>0, <1>10, LimitAssumption DEF UpsertRows, TypeOK
  <2>2. UNCHANGED <<vault, due, queue, job, dropped>>
    BY <1>10 DEF UpsertRows, counts
  <2>3. Awaited' = Awaited /\ Lost' = Lost
    BY <2>2 DEF Awaited, Lost, Waiting, Busy
  <2>4. job[d] \in Awaited
    BY <2>1 DEF Awaited, Waiting, Busy
  <2>5. rows' = [rows EXCEPT ![job[d]] = rows'[job[d]]] /\ rows'[job[d]] \in [Ordinals -> Hash \cup {Nil}]
    BY <1>0, <1>10, <2>1 DEF UpsertRows, TypeOK
  <2>6. Index!Work(job[d])
    BY <2>2, <2>3, <2>4, <2>5 DEF Index!Work, Awaited, Lost
  <2>7. QED
    BY <2>1, <2>6 DEF Index!Next
<1>11. ASSUME NEW d \in Drainer, PruneRows(d) PROVE Index!Next
  <2> DEFINE r == Pruned(rows[job[d]], text[d])
  <2>1. text[d] \in Content /\ job[d] \in File
    BY <1>0, <1>11 DEF PruneRows, PassState, TypeOK
  <2>2. /\ rows[job[d]] \in [Ordinals -> Hash \cup {Nil}]
        /\ \A i \in DOMAIN text[d] : rows[job[d]][i] = text[d][i]
    BY <1>0, <1>11, <2>1 DEF PruneRows, FreshInv, RowsFollowText, TypeOK
  <2>3. r = RowsOf(text[d])
    BY <2>1, <2>2, PrunedIsExact
  <2>4. ~Signalled(job[d]) /\ job[d] \notin dropped => r = RowsOf(vault[job[d]])
    BY <1>0, <1>11, <2>3 DEF PruneRows, FreshInv, ReadIsCurrent
  <2>5. r \in [Ordinals -> Hash \cup {Nil}]
    BY <2>2 DEF Pruned
  <2>6. rows' = [rows EXCEPT ![job[d]] = r]
    BY <1>0, <1>11, <2>1 DEF PruneRows, TypeOK
  <2> HIDE DEF r
  <2>7. QED
    BY <1>11, <2>4, <2>5, <2>6, EndRefines DEF PruneRows
<1>12. ASSUME Stop PROVE Index!Next
  <2>1. Range(queue') = {} /\ Busy' = {} /\ due' = {}
    BY <1>12 DEF Stop, Range, Busy
  <2>2. Awaited' = {} /\ Lost' = dropped'
    BY <2>1 DEF Awaited, Lost, Waiting
  <2>3. dropped' = Lost \cup Awaited
    BY <1>0, <1>12 DEF Stop, Lost, Awaited, TypeOK
  <2>4. Index!Lose(Awaited)
    BY <1>0, <1>12, <2>2, <2>3 DEF Stop, Index!Lose, Awaited, Lost, TypeOK
  <2>5. Awaited \subseteq File
    BY DEF Awaited
  <2>6. QED
    BY <2>4, <2>5 DEF Index!Next
<1>13. ASSUME NEW d \in Drainer, Drain(d) \/ Rebuild(d) PROVE [Index!Next]_(Index!vars)
  <2>1. CASE EndPass(d) \/ WalkEnds(d) \/ Rebuild(d)
    BY <1>6, <2>1 DEF EndPass, WalkEnds, Rebuild
  <2>2. CASE ReadContent(d) \/ CompareHashes(d)
    BY <1>6, <2>2 DEF ReadContent, CompareHashes
  <2>3. QED
    BY <1>5, <1>7, <1>8, <1>9, <1>10, <1>11, <1>13, <2>1, <2>2 DEF Drain
<1>14. ASSUME NEW m \in Moves, MoveDirectory(m) \/ RestoreDeletes(m) PROVE Index!Next
  <2>1. PICK v \in [File -> Content \cup {Absent}] : WithDirectory(v)
    BY <1>0, <1>14, DirectoryChanges DEF TypeOK
  <2> DEFINE fs == {f \in File : v[f] # vault[f]}
  <2>2. /\ vault' = v /\ dropped' = dropped \cup (fs \ (Range(queue) \cup Unread))
        /\ UNCHANGED <<due, queue, rows, job>>
    BY <2>1 DEF WithDirectory
  <2>3. fs \in SUBSET File /\ \A f \in File \ fs : v[f] = vault[f]
    OBVIOUS
  <2> HIDE DEF fs
  <2>4. Range(queue) \cup Unread \subseteq Range(queue) \cup Busy
    <3>1. \A e \in Drainer : pc[e] = "read" => job[e] # Nil
      BY <1>0 DEF TypeOK
    <3>2. QED
      BY <3>1 DEF Unread, Busy
  <2>5. Awaited' = Awaited
    BY <2>2 DEF Awaited, Waiting, Busy
  <2>6. Lost' = Lost \cup (fs \ Awaited)
    BY <2>2, <2>3, <2>4 DEF Lost, Awaited, Waiting, Busy
  <2>7. Index!Unnoticed
    BY <2>2, <2>3, <2>5, <2>6 DEF Index!Unnoticed, Awaited, Lost
  <2>8. QED
    BY <2>7 DEF Index!Next
<1>15. CASE UNCHANGED vars
  BY <1>6, <1>15 DEF vars
<1>16. QED
  BY <1>2, <1>3, <1>4, <1>12, <1>13, <1>15, <1>14 DEF Next

\* When passes do not overlap, the queue with its drainers, failures and stops
\* does nothing that FreshIndex does not allow.
THEOREM QueueImplementsFreshIndex == Alone => (Spec => Index!SafeSpec)
<1>1. SUFFICES ASSUME Alone PROVE Spec => Index!SafeSpec
  OBVIOUS
<1>2. RefineInv /\ [Next]_vars => RefineInv'
  BY <1>1, RefineStep
<1>3. RefineInv /\ [Next]_vars => [Index!Next]_(Index!vars)
  BY <1>1, StepRefines
<1>4. QED
  BY <1>2, <1>3, RefineInit, InitRefines, PTL DEF Spec, Index!SafeSpec

=============================================================================
