--------------------------- MODULE BlogSyncProofs ---------------------------
(***************************************************************************)
(* Proofs about BlogSync, for any set of workers, blogs and posts, any     *)
(* length of a series and any number of faults.                            *)
(***************************************************************************)
EXTENDS BlogSync, SequenceTheorems, FiniteSetTheorems, TLAPS

(* Where a pass is determines what its local variables hold.               *)
LocalsOK ==
    \A w \in Workers :
        /\ pc[w] \notin {"idle", "feed"} => runs[w] # <<>>
        /\ pc[w] \in {"mark", "draft", "create", "rollback", "save"}
              => cur[w] \in Urls
        /\ pc[w] \notin {"create", "rollback", "save"} => refs[w] = <<>>
        /\ pc[w] = "create" => Len(refs[w]) < NumCells
        /\ pc[w] = "save" => Len(refs[w]) = NumCells

TypeInv == TypeOK /\ LocalsOK

LEMMA TypeInit == Init => TypeInv
<1> SUFFICES ASSUME Init PROVE TypeInv
  OBVIOUS
<1> USE RunsAssumption, CellsAssumption, FaultAssumption, NoUrlAssumption
<1>1. TypeOK
  BY DEF Init, TypeOK, Steps, Cells
<1>2. LocalsOK
  BY DEF Init, LocalsOK
<1> QED
  BY <1>1, <1>2 DEF TypeInv

(* A running pass is at one of its configured feeds.                       *)
LEMMA BlogType ==
    ASSUME TypeInv, NEW w \in Workers, pc[w] \notin {"idle", "feed"}
    PROVE  /\ runs[w] # <<>>
           /\ Blog(w) \in Blogs
           /\ Tail(runs[w]) \in Seq(Blogs)
<1>1. runs[w] \in Seq(Blogs) /\ runs[w] # <<>>
  BY DEF TypeInv, TypeOK, LocalsOK
<1> QED
  BY <1>1, HeadTailProperties DEF Blog

(* The row that a running pass inserts is a row.                           *)
LEMMA InsertPostType ==
    ASSUME TypeInv, NEW w \in Workers, NEW s \in BOOLEAN,
           pc[w] \in {"mark", "save"}
    PROVE  InsertPost(cur[w], Blog(w), s) \in SUBSET PostRow
<1>1. cur[w] \in Urls /\ Blog(w) \in Blogs
  BY BlogType DEF TypeInv, LocalsOK
<1>2. posts \in SUBSET PostRow
  BY DEF TypeInv, TypeOK
<1> QED
  BY <1>1, <1>2 DEF InsertPost, PostRow

LEMMA TypeNext == TypeInv /\ [Next]_vars => TypeInv'
<1> SUFFICES ASSUME TypeOK, LocalsOK, [Next]_vars PROVE TypeInv'
  BY DEF TypeInv
<1> USE RunsAssumption, CellsAssumption, FaultAssumption, NoUrlAssumption
<1> USE DEF TypeInv, TypeOK, LocalsOK, Steps, Cells, PostRow, TaskRow,
            TodoistTask, world, db, locals, hist, Blog, GoTo, Fault
<1>1. ASSUME NEW w \in Workers, StartPass(w) PROVE TypeInv'
  BY <1>1 DEF StartPass
<1>2. ASSUME NEW w \in Workers, EndPass(w) PROVE TypeInv'
  BY <1>2 DEF EndPass
<1>3. ASSUME NEW w \in Workers, ListFeed(w) PROVE TypeInv'
  BY <1>3 DEF ListFeed
<1>4. ASSUME NEW w \in Workers, ReadCount(w) PROVE TypeInv'
  BY <1>4 DEF ReadCount
<1>5. ASSUME NEW w \in Workers, AbortSync(w) PROVE TypeInv'
  BY <1>5 DEF AbortSync, EndSync
<1>6. ASSUME NEW w \in Workers, LookUpEntry(w) PROVE TypeInv'
  <2>1. PICK u \in pending[w] :
           \/ /\ pending' = [pending EXCEPT ![w] = @ \ {u}]
              /\ UNCHANGED <<pc, cur>>
           \/ /\ cur' = [cur EXCEPT ![w] = u]
              /\ GoTo(w, IF firstRun[w] THEN "mark" ELSE "draft")
              /\ UNCHANGED pending
    BY <1>6 DEF LookUpEntry
  <2>2. /\ pc[w] = "entry"
        /\ UNCHANGED <<world, db, hist, runs, firstRun, resolved, refs>>
    BY <1>6 DEF LookUpEntry
  <2>3. u \in Urls
    BY <2>1
  <2>4. CASE pending' = [pending EXCEPT ![w] = @ \ {u}]
             /\ UNCHANGED <<pc, cur>>
    <3>1. TypeOK'
      BY <2>2, <2>4
    <3>2. LocalsOK'
      BY <2>2, <2>4
    <3> QED
      BY <3>1, <3>2
  <2>5. CASE cur' = [cur EXCEPT ![w] = u] /\ UNCHANGED pending
    <3>1. PICK step \in {"mark", "draft"} : pc' = [pc EXCEPT ![w] = step]
      BY <2>1, <2>2, <2>5
    <3>2. TypeOK'
      BY <2>2, <2>3, <2>5, <3>1
    <3>3. LocalsOK'
      BY <2>2, <2>3, <2>5, <3>1
    <3> QED
      BY <3>2, <3>3
  <2> QED
    BY <2>1, <2>4, <2>5
<1>7. ASSUME NEW w \in Workers, LookUpFails(w) PROVE TypeInv'
  BY <1>7 DEF LookUpFails
<1>8. ASSUME NEW w \in Workers, FinishSync(w) PROVE TypeInv'
  <2>1. runs[w] # <<>> /\ Tail(runs[w]) \in Seq(Blogs)
    BY <1>8, BlogType DEF FinishSync
  <2>2. TypeOK'
    BY <1>8, <2>1 DEF FinishSync, EndSync
  <2>3. LocalsOK'
    BY <1>8, <2>1 DEF FinishSync, EndSync
  <2> QED
    BY <2>2, <2>3
<1>9. ASSUME NEW w \in Workers, MarkSeenOnly(w) PROVE TypeInv'
  <2>1. InsertPost(cur[w], Blog(w), FALSE) \in SUBSET PostRow
    BY <1>9, InsertPostType DEF MarkSeenOnly
  <2>2. TypeOK'
    BY <1>9, <2>1 DEF MarkSeenOnly, NextEntry
  <2>3. LocalsOK'
    BY <1>9 DEF MarkSeenOnly, NextEntry
  <2> QED
    BY <2>2, <2>3
<1>10. ASSUME NEW w \in Workers, EntryFails(w) PROVE TypeInv'
  BY <1>10 DEF EntryFails, NextEntry
<1>11. ASSUME NEW w \in Workers, Draft(w) PROVE TypeInv'
  BY <1>11 DEF Draft
<1>12. ASSUME NEW w \in Workers, CreateTask(w) PROVE TypeInv'
  BY <1>12 DEF CreateTask, NewTask
<1>13. ASSUME NEW w \in Workers, CreateTaskFails(w) PROVE TypeInv'
  BY <1>13 DEF CreateTaskFails, NewTask
<1>14. ASSUME NEW w \in Workers, RollbackOne(w) PROVE TypeInv'
  <2>1. /\ Head(refs[w]) \in Nat
        /\ Tail(refs[w]) \in Seq(Nat)
        /\ Len(Tail(refs[w])) = Len(refs[w]) - 1
    BY <1>14, HeadTailProperties DEF RollbackOne
  <2>2. TypeOK'
    <3>1. deleted' = deleted \/ deleted' = deleted \cup {Head(refs[w])}
      BY <1>14 DEF RollbackOne
    <3>2. deleted' \in SUBSET Nat
      BY <2>1, <3>1
    <3>3. faults' \in 0 .. MaxFaults
      BY <1>14 DEF RollbackOne
    <3>4. /\ refs' \in [Workers -> Seq(Nat)]
          /\ \A v \in Workers : Len(refs'[v]) <= NumCells
      BY <1>14, <2>1 DEF RollbackOne
    <3> QED
      BY <1>14, <3>2, <3>3, <3>4 DEF RollbackOne
  <2>3. LocalsOK'
    BY <1>14, <2>1 DEF RollbackOne
  <2> QED
    BY <2>2, <2>3
<1>15. ASSUME NEW w \in Workers, RollbackDone(w) PROVE TypeInv'
  BY <1>15 DEF RollbackDone, NextEntry
<1>16. ASSUME NEW w \in Workers, SaveTasks(w) PROVE TypeInv'
  <2>1. InsertPost(cur[w], Blog(w), TRUE) \in SUBSET PostRow
    BY <1>16, InsertPostType DEF SaveTasks
  <2>2. TaskRowsFor(cur[w], refs[w]) \in SUBSET TaskRow
    BY <1>16 DEF SaveTasks, TaskRowsFor
  <2>3. TypeOK'
    <3>1. posts' \in SUBSET PostRow /\ taskRows' \in SUBSET TaskRow
      BY <1>16, <2>1, <2>2 DEF SaveTasks
    <3>2. faults' \in 0 .. MaxFaults
      BY <1>16 DEF SaveTasks
    <3>3. NextEntry(w)
      BY <1>16 DEF SaveTasks, AfterFailedSave
    <3>4. /\ refs' \in [Workers -> Seq(Nat)]
          /\ \A v \in Workers : Len(refs'[v]) <= NumCells
      BY <3>3 DEF NextEntry
    <3> QED
      BY <1>16, <3>1, <3>2, <3>3, <3>4 DEF SaveTasks, NextEntry
  <2>4. LocalsOK'
    BY <1>16 DEF SaveTasks, NextEntry, AfterFailedSave
  <2> QED
    BY <2>3, <2>4
<1>17. ASSUME NEW w \in Workers, SaveTasksFails(w) PROVE TypeInv'
  BY <1>17 DEF SaveTasksFails, NextEntry, AfterFailedSave
<1>18. ASSUME NEW w \in Workers, Crash(w) PROVE TypeInv'
  BY <1>18 DEF Crash
<1>19. ASSUME NEW b \in Blogs, NEW u \in Urls, PostAppears(b, u)
       PROVE  TypeInv'
  BY <1>19 DEF PostAppears
<1>20. CASE UNCHANGED vars
  BY <1>20 DEF vars
<1> QED
  BY <1>1, <1>2, <1>3, <1>4, <1>5, <1>6, <1>7, <1>8, <1>9, <1>10, <1>11,
     <1>12, <1>13, <1>14, <1>15, <1>16, <1>17, <1>18, <1>19, <1>20
     DEF Next, Step, Failure

(* BlogSync's variables keep their types, however many passes interleave   *)
(* and however calls fail.                                                 *)
THEOREM TypeCorrect == Spec => []TypeOK
<1>1. Spec => []TypeInv
  BY TypeInit, TypeNext, PTL DEF Spec
<1>2. TypeInv => TypeOK
  BY DEF TypeInv
<1> QED
  BY <1>1, <1>2, PTL

-----------------------------------------------------------------------------
(* The inductive invariant behind the three safety properties: the tasks a *)
(* pass holds are its own, not yet recorded, and deleted only by its own   *)
(* rollback.                                                               *)

Held(w) == 1 .. Len(refs[w])

IdsHandedOut ==
    /\ \A w \in Workers : \A i \in Held(w) : refs[w][i] < nextId
    /\ \A r \in taskRows : r.id < nextId
    /\ \A d \in deleted : d < nextId

HeldByOne ==
    \A w, v \in Workers : \A i \in Held(w), j \in Held(v) :
        refs[w][i] = refs[v][j] => w = v /\ i = j

HeldUnrecorded ==
    \A w \in Workers : \A i \in Held(w) : \A r \in taskRows :
        r.id # refs[w][i]

HeldAlive ==
    \A w \in Workers : pc[w] # "rollback" =>
        \A i \in Held(w) : refs[w][i] \notin deleted

RecordedAlive == \A r \in taskRows : r.id \notin deleted

SafeInv ==
    /\ IdsHandedOut /\ HeldByOne /\ HeldUnrecorded /\ HeldAlive
    /\ RecordedAlive /\ SeriesComplete /\ OneTaskPerCell

LEMMA SafeInit == Init => SafeInv
  BY DEF Init, SafeInv, Held, IdsHandedOut, HeldByOne, HeldUnrecorded,
         HeldAlive, RecordedAlive, SeriesComplete, OneTaskPerCell

(* A step that neither records, deletes nor collects a task can at most    *)
(* let go of the tasks its pass holds.                                     *)
LEMMA QuietStep ==
    ASSUME TypeInv, TypeInv', SafeInv,
           UNCHANGED <<taskRows, deleted>>,
           nextId' >= nextId,
           \A v \in Workers : refs'[v] = refs[v] \/ refs'[v] = <<>>,
           \A v \in Workers :
              pc[v] = "rollback" /\ pc'[v] # "rollback" => refs'[v] = <<>>
    PROVE  SafeInv'
<1> USE DEF Held
<1>1. \A v \in Workers : \A i \in Held(v)' :
          i \in Held(v) /\ refs'[v][i] = refs[v][i] /\ refs'[v] # <<>>
  OBVIOUS
<1>2. IdsHandedOut'
  BY <1>1 DEF SafeInv, IdsHandedOut, TypeInv, TypeOK, TaskRow
<1>3. HeldByOne'
  BY <1>1 DEF SafeInv, HeldByOne
<1>4. HeldUnrecorded'
  BY <1>1 DEF SafeInv, HeldUnrecorded
<1>5. HeldAlive'
  BY <1>1 DEF SafeInv, HeldAlive
<1>6. RecordedAlive' /\ SeriesComplete' /\ OneTaskPerCell'
  BY DEF SafeInv, RecordedAlive, SeriesComplete, OneTaskPerCell
<1> QED
  BY <1>2, <1>3, <1>4, <1>5, <1>6 DEF SafeInv

(* A new task gets a fresh id, which nobody holds and no row carries.      *)
LEMMA CreateStep ==
    ASSUME TypeInv, TypeInv', SafeInv, NEW w \in Workers, CreateTask(w)
    PROVE  SafeInv'
<1>1. /\ refs' = [refs EXCEPT ![w] = Append(refs[w], nextId)]
      /\ nextId' = nextId + 1
      /\ pc[w] = "create"
      /\ \A v \in Workers : pc'[v] # "rollback" <=> pc[v] # "rollback"
      /\ UNCHANGED <<deleted, taskRows>>
  BY DEF CreateTask, db, TypeInv, TypeOK, GoTo
<1>2. nextId \in Nat /\ refs \in [Workers -> Seq(Nat)]
      /\ taskRows \subseteq TaskRow /\ deleted \subseteq Nat
  BY DEF TypeInv, TypeOK
<1>3. \A v \in Workers : \A i \in Held(v)' :
         \/ i \in Held(v) /\ refs'[v][i] = refs[v][i]
         \/ v = w /\ i = Len(refs[w]) + 1 /\ refs'[v][i] = nextId
  <2> SUFFICES ASSUME NEW v \in Workers, NEW i \in Held(v)'
               PROVE  \/ i \in Held(v) /\ refs'[v][i] = refs[v][i]
                      \/ /\ v = w /\ i = Len(refs[w]) + 1
                         /\ refs'[v][i] = nextId
    OBVIOUS
  <2>1. CASE v # w
    BY <1>1, <1>2, <2>1 DEF Held
  <2>2. CASE v = w
    BY <1>1, <1>2, <2>2, AppendProperties DEF Held
  <2> QED
    BY <2>1, <2>2
<1>4. \A v \in Workers : \A i \in Held(v) : refs[v][i] < nextId
  BY DEF SafeInv, IdsHandedOut
<1>5. IdsHandedOut'
  <2>1. \A v \in Workers : \A i \in Held(v) : refs[v][i] \in Nat
    BY <1>2, ElementOfSeq DEF Held
  <2>2. \A v \in Workers : \A i \in Held(v)' : refs'[v][i] < nextId'
    BY <1>1, <1>2, <1>3, <1>4, <2>1 DEF Held
  <2>3. \A r \in taskRows' : r.id < nextId'
    BY <1>1, <1>2 DEF SafeInv, IdsHandedOut, TaskRow
  <2>4. \A d \in deleted' : d < nextId'
    BY <1>1, <1>2 DEF SafeInv, IdsHandedOut
  <2> QED
    BY <2>2, <2>3, <2>4 DEF IdsHandedOut
<1>6. HeldByOne'
  <2> SUFFICES ASSUME NEW x \in Workers, NEW v \in Workers,
                      NEW i \in Held(x)', NEW j \in Held(v)',
                      refs'[x][i] = refs'[v][j]
               PROVE  x = v /\ i = j
    BY DEF HeldByOne
  <2>1. CASE i \in Held(x) /\ refs'[x][i] = refs[x][i]
             /\ j \in Held(v) /\ refs'[v][j] = refs[v][j]
    <3>1. refs[x][i] = refs[v][j]
      BY <2>1
    <3> QED
      BY <2>1, <3>1 DEF SafeInv, HeldByOne
  <2>2. ~(i \in Held(x) /\ refs[x][i] = nextId)
    BY <1>2, <1>4
  <2>3. ~(j \in Held(v) /\ refs[v][j] = nextId)
    BY <1>2, <1>4
  <2> QED
    BY <1>3, <2>1, <2>2, <2>3
<1>7. HeldUnrecorded'
  BY <1>1, <1>2, <1>3 DEF SafeInv, HeldUnrecorded, IdsHandedOut, Held
<1>8. HeldAlive'
  BY <1>1, <1>2, <1>3 DEF SafeInv, HeldAlive, IdsHandedOut, Held
<1>9. RecordedAlive' /\ SeriesComplete' /\ OneTaskPerCell'
  BY <1>1 DEF SafeInv, RecordedAlive, SeriesComplete, OneTaskPerCell
<1> QED
  BY <1>5, <1>6, <1>7, <1>8, <1>9 DEF SafeInv

(* A rollback deletes a task that it holds and forgets it.                 *)
LEMMA RollbackStep ==
    ASSUME TypeInv, TypeInv', SafeInv, NEW w \in Workers, RollbackOne(w)
    PROVE  SafeInv'
<1>1. /\ refs[w] # <<>>
      /\ pc[w] = "rollback"
      /\ refs' = [refs EXCEPT ![w] = Tail(refs[w])]
      /\ deleted' = deleted \/ deleted' = deleted \cup {refs[w][1]}
      /\ UNCHANGED <<nextId, taskRows, pc>>
  BY DEF RollbackOne, db
<1>2. nextId \in Nat /\ refs \in [Workers -> Seq(Nat)]
  BY DEF TypeInv, TypeOK
<1>3. 1 \in Held(w)
  BY <1>1, <1>2, EmptySeq DEF Held
<1>4. \A i \in Held(w)' : i + 1 \in Held(w) /\ refs'[w][i] = refs[w][i + 1]
  BY <1>1, <1>2, HeadTailProperties DEF Held
<1>5. \A v \in Workers \ {w} : Held(v)' = Held(v) /\ refs'[v] = refs[v]
  BY <1>1, <1>2 DEF Held
<1>6. \A i \in Held(w)' : i \in Nat
  BY DEF Held
<1>7. IdsHandedOut'
  BY <1>1, <1>3, <1>4, <1>5 DEF SafeInv, IdsHandedOut, Held
<1>8. HeldByOne'
  <2> SUFFICES ASSUME NEW x \in Workers, NEW v \in Workers,
                      NEW i \in Held(x)', NEW j \in Held(v)',
                      refs'[x][i] = refs'[v][j]
               PROVE  x = v /\ i = j
    BY DEF HeldByOne
  <2>1. i \in Nat /\ j \in Nat
    BY DEF Held
  <2>2. CASE x = w /\ v = w
    BY <1>4, <2>1, <2>2 DEF SafeInv, HeldByOne
  <2>3. CASE x = w /\ v # w
    BY <1>4, <1>5, <2>3 DEF SafeInv, HeldByOne
  <2>4. CASE x # w /\ v = w
    BY <1>4, <1>5, <2>4 DEF SafeInv, HeldByOne
  <2>5. CASE x # w /\ v # w
    BY <1>5, <2>5 DEF SafeInv, HeldByOne
  <2> QED
    BY <2>2, <2>3, <2>4, <2>5
<1>9. HeldUnrecorded'
  BY <1>1, <1>4, <1>5 DEF SafeInv, HeldUnrecorded, Held
<1>10. HeldAlive'
  <2> SUFFICES ASSUME NEW v \in Workers, pc'[v] # "rollback",
                      NEW i \in Held(v)'
               PROVE  refs'[v][i] \notin deleted'
    BY DEF HeldAlive
  <2>1. v # w /\ i \in Held(v) /\ refs'[v][i] = refs[v][i]
    BY <1>1, <1>5
  <2>2. refs[v][i] \notin deleted
    BY <1>1, <2>1 DEF SafeInv, HeldAlive
  <2>3. refs[v][i] # refs[w][1]
    BY <1>3, <2>1 DEF SafeInv, HeldByOne
  <2> QED
    BY <1>1, <2>1, <2>2, <2>3
<1>11. RecordedAlive'
  BY <1>1, <1>3 DEF SafeInv, RecordedAlive, HeldUnrecorded
<1>12. SeriesComplete' /\ OneTaskPerCell'
  BY <1>1 DEF SafeInv, SeriesComplete, OneTaskPerCell
<1> QED
  BY <1>7, <1>8, <1>9, <1>10, <1>11, <1>12 DEF SafeInv

(* SaveTasks records exactly the tasks that its pass holds, one per cell,  *)
(* and lets go of them.                                                    *)
LEMMA SaveStep ==
    ASSUME TypeInv, TypeInv', SafeInv, NEW w \in Workers, SaveTasks(w)
    PROVE  SafeInv'
<1> DEFINE new == TaskRowsFor(cur[w], refs[w])
<1>1. NextEntry(w) /\ pc[w] = "save"
  BY DEF SaveTasks, AfterFailedSave
<1>2. /\ refs' = [refs EXCEPT ![w] = <<>>]
      /\ pc' = [pc EXCEPT ![w] = "entry"]
      /\ taskRows' = taskRows \cup new
      /\ UNCHANGED <<deleted, nextId>>
      /\ ~TaskConflict(cur[w], refs[w])
  BY <1>1 DEF SaveTasks, NextEntry, GoTo, world
<1>3. /\ refs \in [Workers -> Seq(Nat)] /\ pc \in [Workers -> Steps]
      /\ Len(refs[w]) = NumCells
  BY <1>1 DEF TypeInv, TypeOK, LocalsOK
<1>4. Held(w)' = {} /\ \A v \in Workers \ {w} :
         Held(v)' = Held(v) /\ refs'[v] = refs[v] /\ pc'[v] = pc[v]
  BY <1>2, <1>3 DEF Held
<1>5. \A r \in new : r.cell \in Held(w) /\ r.url = cur[w]
                     /\ r.id = refs[w][r.cell]
                     /\ r = [url |-> cur[w], cell |-> r.cell,
                             id |-> refs[w][r.cell]]
  BY DEF TaskRowsFor, Held
<1>6. \A r \in taskRows : r.url # cur[w]
  <2>1. \A r \in taskRows : r.cell \in 1 .. Len(refs[w])
    BY <1>3 DEF TypeInv, TypeOK, TaskRow, Cells
  <2> QED
    BY <1>2, <2>1 DEF TaskConflict
<1>7. IdsHandedOut'
  BY <1>2, <1>4, <1>5 DEF SafeInv, IdsHandedOut
<1>8. HeldByOne'
  BY <1>4 DEF SafeInv, HeldByOne
<1>9. HeldUnrecorded'
  <2> SUFFICES ASSUME NEW v \in Workers, NEW i \in Held(v)',
                      NEW r \in taskRows'
               PROVE  r.id # refs'[v][i]
    BY DEF HeldUnrecorded
  <2>1. v # w /\ i \in Held(v) /\ refs'[v][i] = refs[v][i]
    BY <1>4
  <2>2. CASE r \in taskRows
    BY <2>1, <2>2 DEF SafeInv, HeldUnrecorded
  <2>3. CASE r \in new
    BY <1>5, <2>1, <2>3 DEF SafeInv, HeldByOne
  <2> QED
    BY <1>2, <2>2, <2>3
<1>10. HeldAlive'
  BY <1>2, <1>4 DEF SafeInv, HeldAlive
<1>11. RecordedAlive'
  BY <1>1, <1>2, <1>5 DEF SafeInv, RecordedAlive, HeldAlive
<1>12. SeriesComplete'
  <2>1. \A c \in Cells : [url |-> cur[w], cell |-> c, id |-> refs[w][c]]
                            \in new
    BY <1>3 DEF TaskRowsFor, Cells
  <2>2. \A r \in new : \A c \in Cells :
           \E q \in new : q.url = r.url /\ q.cell = c
    BY <1>5, <2>1
  <2> QED
    BY <1>2, <2>2 DEF SafeInv, SeriesComplete
<1>13. OneTaskPerCell'
  <2> SUFFICES ASSUME NEW r \in taskRows', NEW q \in taskRows',
                      r.id = q.id \/ (r.url = q.url /\ r.cell = q.cell)
               PROVE  r = q
    BY DEF OneTaskPerCell
  <2>1. CASE r \in taskRows /\ q \in taskRows
    BY <2>1 DEF SafeInv, OneTaskPerCell
  <2>2. CASE r \in new /\ q \in new
    BY <1>5, <2>2 DEF SafeInv, HeldByOne
  <2>3. \A x \in taskRows, y \in new : x.id # y.id /\ x.url # y.url
    BY <1>5, <1>6 DEF SafeInv, HeldUnrecorded
  <2> QED
    BY <1>2, <2>1, <2>2, <2>3
<1> QED
  BY <1>7, <1>8, <1>9, <1>10, <1>11, <1>12, <1>13 DEF SafeInv

LEMMA SafeNext == TypeInv /\ SafeInv /\ [Next]_vars => SafeInv'
<1> SUFFICES ASSUME TypeInv, SafeInv, [Next]_vars PROVE SafeInv'
  OBVIOUS
<1>1. TypeInv'
  BY TypeNext
<1>2. nextId \in Nat /\ refs \in [Workers -> Seq(Nat)]
      /\ pc \in [Workers -> Steps]
  BY DEF TypeInv, TypeOK
<1> USE DEF world, db, locals, hist, GoTo
<1>3. ASSUME NEW w \in Workers, CreateTask(w) PROVE SafeInv'
  BY <1>1, <1>3, CreateStep
<1>4. ASSUME NEW w \in Workers, RollbackOne(w) PROVE SafeInv'
  BY <1>1, <1>4, RollbackStep
<1>5. ASSUME NEW w \in Workers, SaveTasks(w) PROVE SafeInv'
  BY <1>1, <1>5, SaveStep
<1>6. ASSUME NEW w \in Workers,
             \/ StartPass(w) \/ EndPass(w) \/ ListFeed(w) \/ ReadCount(w)
             \/ LookUpFails(w) \/ Draft(w)
      PROVE  SafeInv'
  BY <1>1, <1>2, <1>6, QuietStep
     DEF StartPass, EndPass, ListFeed, ReadCount, LookUpFails, Draft
<1>7. ASSUME NEW w \in Workers, LookUpEntry(w) PROVE SafeInv'
  <2>1. UNCHANGED <<taskRows, deleted, nextId, refs>> /\ pc[w] = "entry"
    BY <1>7 DEF LookUpEntry
  <2>2. \A v \in Workers : pc[v] = "rollback" => pc'[v] = "rollback"
    BY <1>2, <1>7 DEF LookUpEntry
  <2> QED
    BY <1>1, <1>2, <2>1, <2>2, QuietStep
<1>8. ASSUME NEW w \in Workers, AbortSync(w) \/ FinishSync(w) PROVE SafeInv'
  BY <1>1, <1>2, <1>8, QuietStep DEF AbortSync, FinishSync, EndSync
<1>9. ASSUME NEW w \in Workers,
             \/ MarkSeenOnly(w) \/ EntryFails(w) \/ RollbackDone(w)
             \/ SaveTasksFails(w)
      PROVE  SafeInv'
  <2>1. UNCHANGED <<taskRows, deleted, nextId>> /\ NextEntry(w)
    BY <1>9 DEF MarkSeenOnly, EntryFails, RollbackDone, SaveTasksFails,
                AfterFailedSave
  <2> QED
    BY <1>1, <1>2, <2>1, QuietStep DEF NextEntry
<1>10. ASSUME NEW w \in Workers, CreateTaskFails(w) PROVE SafeInv'
  BY <1>1, <1>2, <1>10, QuietStep DEF CreateTaskFails
<1>11. ASSUME NEW w \in Workers, Crash(w) PROVE SafeInv'
  BY <1>1, <1>2, <1>11, QuietStep DEF Crash
<1>12. ASSUME NEW b \in Blogs, NEW u \in Urls, PostAppears(b, u)
       PROVE  SafeInv'
  BY <1>1, <1>2, <1>12, QuietStep DEF PostAppears
<1>13. CASE UNCHANGED vars
  BY <1>1, <1>2, <1>13, QuietStep DEF vars
<1> QED
  BY <1>3, <1>4, <1>5, <1>6, <1>7, <1>8, <1>9, <1>10, <1>11, <1>12, <1>13
     DEF Next, Step, Failure

LEMMA SafeAlways == Spec => []SafeInv
<1>1. Spec => []TypeInv
  BY TypeInit, TypeNext, PTL DEF Spec
<1> QED
  BY <1>1, SafeInit, SafeNext, PTL DEF Spec

(* A campaign is recorded whole or not at all, whatever fails and whoever  *)
(* races it.                                                               *)
THEOREM SeriesAlwaysComplete == Spec => []SeriesComplete
<1>1. SafeInv => SeriesComplete
  BY DEF SafeInv
<1> QED
  BY <1>1, SafeAlways, PTL

(* The database never records two tasks for a cell nor a task twice.       *)
THEOREM CellsAndTasksMatch == Spec => []OneTaskPerCell
<1>1. SafeInv => OneTaskPerCell
  BY DEF SafeInv
<1> QED
  BY <1>1, SafeAlways, PTL

(* No rollback, of whichever pass, deletes a task that is recorded.        *)
THEOREM RollbackSafe == Spec => []RollbackSparesSaved
<1>1. SafeInv => RollbackSparesSaved
  BY DEF SafeInv, RecordedAlive, RollbackSparesSaved, TaskIds
<1> QED
  BY <1>1, SafeAlways, PTL

-----------------------------------------------------------------------------
(* One pass at a time.  What it drafts, creates, rolls back or saves is    *)
(* the series of a post that is not recorded.                              *)
CurIsNew ==
    \A w \in Workers : pc[w] \in {"draft", "create", "rollback", "save"}
        => ~IsScheduled(cur[w])

(* Until the first fault, each post of a back catalogue is recorded, or    *)
(* the first poll of its blog is under way and has it still to do.         *)
Polls(w, b) ==
    /\ Blog(w) = b
    /\ \/ pc[w] = "count" /\ \A p \in posts : p.blog # b
       \/ pc[w] \in {"entry", "mark"} /\ firstRun[w]

CatalogInv ==
    /\ \A w \in Workers : pc[w] \notin {"idle", "feed"} => Blog(w) \in polled
    /\ \A p \in posts : p.blog \in polled
    /\ \A e \in catalog : e[1] \in polled
    /\ faults = 0 => \A e \in catalog :
          \/ IsScheduled(e[2])
          \/ \E w \in Workers : Polls(w, e[1]) /\ e[2] \in pending[w]

SoloInv == CurIsNew /\ CatalogInv /\ FirstRunSafeUnlessFault

LEMMA SoloInit == Init => SoloInv
  BY DEF Init, SoloInv, CurIsNew, CatalogInv, FirstRunSafeUnlessFault,
         FirstRunSafety

(* A step that records nothing and polls no feed: the pass goes on with    *)
(* the entries it has, or a call failed.                                   *)
LEMMA SoloQuiet ==
    ASSUME TypeInv, SoloInv, UNCHANGED <<posts, catalog, polled>>,
           faults' \in Nat, faults' = 0 => faults = 0,
           CurIsNew',
           \A w \in Workers : pc'[w] \notin {"idle", "feed"}
                => pc[w] \notin {"idle", "feed"} /\ runs'[w] = runs[w],
           faults' = 0 => \A w \in Workers, e \in catalog :
                Polls(w, e[1]) /\ e[2] \in pending[w]
                => \/ IsScheduled(e[2])
                   \/ Polls(w, e[1])' /\ e[2] \in pending'[w]
    PROVE  SoloInv'
<1>1. \A w \in Workers : pc'[w] \notin {"idle", "feed"} => Blog(w)' \in polled
  BY DEF SoloInv, CatalogInv, Blog
<1>2. \A u : IsScheduled(u)' <=> IsScheduled(u)
  BY DEF IsScheduled
<1>3. CatalogInv'
  BY <1>1, <1>2 DEF SoloInv, CatalogInv
<1>4. FirstRunSafeUnlessFault'
  BY DEF SoloInv, FirstRunSafeUnlessFault, FirstRunSafety
<1> QED
  BY <1>3, <1>4 DEF SoloInv

(* The row a pass inserts.                                                 *)
LEMMA Inserted ==
    ASSUME NEW u, NEW b, NEW s, posts' = InsertPost(u, b, s)
    PROVE  /\ \A v : IsScheduled(v)' <=> IsScheduled(v) \/ v = u
           /\ \A p \in posts' : \/ p \in posts
                                \/ /\ p = [url |-> u, blog |-> b, scheduled |-> s]
                                   /\ ~IsScheduled(u)
<1> DEFINE row == [url |-> u, blog |-> b, scheduled |-> s]
<1>1. CASE IsScheduled(u)
  <2>1. posts' = posts
    BY <1>1 DEF InsertPost
  <2> QED BY <1>1, <2>1 DEF IsScheduled
<1>2. CASE ~IsScheduled(u)
  <2>1. posts' = posts \cup {row} /\ row.url = u
    BY <1>2 DEF InsertPost
  <2> HIDE DEF row
  <2>2. \A v : IsScheduled(v)' <=> IsScheduled(v) \/ v = u
    BY <2>1 DEF IsScheduled
  <2> QED BY <1>2, <2>1, <2>2 DEF row
<1> QED BY <1>1, <1>2

LEMMA SoloListFeed ==
    ASSUME TypeInv, SoloInv, NEW w \in Workers, \A v \in Workers : v = w,
           ListFeed(w)
    PROVE  SoloInv'
<1>0. PICK b : b = Blog(w)
  OBVIOUS
<1>1. /\ pc[w] = "feed" /\ pc'[w] = "count"
      /\ Blog(w)' = b /\ pending'[w] = feed[b]
      /\ polled' = polled \cup {b}
      /\ catalog' = IF b \in polled THEN catalog ELSE catalog \cup ({b} \X feed[b])
      /\ UNCHANGED <<posts, faults>>
  BY <1>0 DEF ListFeed, GoTo, Blog, db, TypeInv, TypeOK
<1>2. \A u : IsScheduled(u)' <=> IsScheduled(u)
  BY <1>1 DEF IsScheduled
<1>3. CurIsNew'
  BY <1>1 DEF CurIsNew
<1>4. faults = 0 => \A e \in catalog : IsScheduled(e[2])
  BY <1>1 DEF SoloInv, CatalogInv, Polls
<1>5. CatalogInv'
  <2>1. CASE b \in polled
    BY <1>1, <1>2, <1>4, <2>1 DEF SoloInv, CatalogInv
  <2>2. CASE b \notin polled
    <3>1. \A p \in posts : p.blog # b
      BY <2>2 DEF SoloInv, CatalogInv
    <3>2. Polls(w, b)'
      BY <1>1, <3>1 DEF Polls
    <3>3. \A e \in catalog' : e \in catalog \/ (e[1] = b /\ e[2] \in feed[b])
      BY <1>1
    <3> QED BY <1>1, <1>2, <1>4, <3>2, <3>3 DEF SoloInv, CatalogInv
  <2> QED BY <2>1, <2>2
<1>6. FirstRunSafeUnlessFault'
  <2>1. \A p \in posts : p.blog = b => b \in polled
    BY DEF SoloInv, CatalogInv
  <2> QED BY <1>1, <2>1 DEF SoloInv, FirstRunSafeUnlessFault, FirstRunSafety
<1> QED
  BY <1>3, <1>5, <1>6 DEF SoloInv

(* What the first poll marks is recorded without a campaign.               *)
LEMMA SoloMark ==
    ASSUME TypeInv, SoloInv, NEW w \in Workers, \A v \in Workers : v = w,
           MarkSeenOnly(w)
    PROVE  SoloInv'
<1>1. /\ pc[w] = "mark" /\ pc'[w] = "entry"
      /\ Blog(w)' = Blog(w) /\ pending'[w] = pending[w] \ {cur[w]}
      /\ firstRun'[w] = firstRun[w]
      /\ UNCHANGED <<polled, catalog, faults>>
      /\ posts' = InsertPost(cur[w], Blog(w), FALSE)
  BY DEF MarkSeenOnly, NextEntry, GoTo, Blog, hist, TypeInv, TypeOK
<1>2. CurIsNew'
  BY <1>1 DEF CurIsNew
<1>3. Blog(w) \in polled
  BY <1>1 DEF SoloInv, CatalogInv
<1>4. /\ \A v : IsScheduled(v)' <=> IsScheduled(v) \/ v = cur[w]
      /\ \A p \in posts' : p \in posts \/ (p.blog = Blog(w) /\ ~p.scheduled)
  <2>1. \A p \in posts' : p \in posts
           \/ p = [url |-> cur[w], blog |-> Blog(w), scheduled |-> FALSE]
    BY <1>1, Inserted
  <2>2. \A v : IsScheduled(v)' <=> IsScheduled(v) \/ v = cur[w]
    BY <1>1, Inserted
  <2> QED BY <2>1, <2>2
<1>5. \A b : Polls(w, b) => Polls(w, b)'
  BY <1>1 DEF Polls
<1>6. CatalogInv'
  BY <1>1, <1>3, <1>4, <1>5 DEF SoloInv, CatalogInv
<1>7. FirstRunSafeUnlessFault'
  BY <1>1, <1>4 DEF SoloInv, FirstRunSafeUnlessFault, FirstRunSafety
<1> QED
  BY <1>2, <1>6, <1>7 DEF SoloInv

(* What gets a campaign is not of a back catalogue: that is recorded.      *)
LEMMA SoloSave ==
    ASSUME TypeInv, SoloInv, NEW w \in Workers, \A v \in Workers : v = w,
           SaveTasks(w)
    PROVE  SoloInv'
<1>1. NextEntry(w)
  BY DEF SaveTasks, AfterFailedSave
<1>2. /\ pc[w] = "save" /\ pc'[w] = "entry" /\ Blog(w)' = Blog(w)
      /\ faults \in Nat /\ (faults' = 0 => faults = 0)
      /\ UNCHANGED <<polled, catalog>>
      /\ posts' = InsertPost(cur[w], Blog(w), TRUE)
  BY <1>1 DEF SaveTasks, NextEntry, GoTo, Blog, Fault, TypeInv, TypeOK
<1>3. CurIsNew'
  BY <1>2 DEF CurIsNew
<1>4. Blog(w) \in polled /\ ~IsScheduled(cur[w])
  BY <1>2 DEF SoloInv, CatalogInv, CurIsNew
<1>5. /\ \A v : IsScheduled(v)' <=> IsScheduled(v) \/ v = cur[w]
      /\ \A p \in posts' : p \in posts \/ (p.blog = Blog(w) /\ p.url = cur[w])
  <2>1. \A p \in posts' : p \in posts
           \/ p = [url |-> cur[w], blog |-> Blog(w), scheduled |-> TRUE]
    BY <1>2, Inserted
  <2>2. \A v : IsScheduled(v)' <=> IsScheduled(v) \/ v = cur[w]
    BY <1>2, Inserted
  <2> QED BY <2>1, <2>2
<1>6. faults = 0 => \A e \in catalog : IsScheduled(e[2])
  BY <1>2 DEF SoloInv, CatalogInv, Polls
<1>7. CatalogInv'
  BY <1>2, <1>4, <1>5, <1>6 DEF SoloInv, CatalogInv
<1>8. FirstRunSafeUnlessFault'
  <2>1. faults = 0 => <<Blog(w), cur[w]>> \notin catalog
    BY <1>4, <1>6
  <2> QED
    BY <1>2, <1>5, <2>1 DEF SoloInv, FirstRunSafeUnlessFault, FirstRunSafety
<1> QED
  BY <1>3, <1>7, <1>8 DEF SoloInv

LEMMA SoloNext ==
    ASSUME \A v, w \in Workers : v = w
    PROVE  TypeInv /\ SoloInv /\ [Next]_vars => SoloInv'
<1> SUFFICES ASSUME TypeInv, SoloInv, [Next]_vars PROVE SoloInv'
  OBVIOUS
<1> USE DEF world, db, locals, hist, GoTo, Fault
<1>1. /\ pc \in [Workers -> Steps] /\ runs \in [Workers -> Seq(Blogs)]
      /\ firstRun \in [Workers -> BOOLEAN] /\ pending \in [Workers -> SUBSET Urls]
      /\ cur \in [Workers -> Urls \cup {NoUrl}]
      /\ faults \in Nat
  BY DEF TypeInv, TypeOK
<1>2. ASSUME NEW w \in Workers, ListFeed(w) PROVE SoloInv'
  BY <1>2, SoloListFeed
<1>3. ASSUME NEW w \in Workers, MarkSeenOnly(w) PROVE SoloInv'
  BY <1>3, SoloMark
<1>4. ASSUME NEW w \in Workers, SaveTasks(w) PROVE SoloInv'
  BY <1>4, SoloSave
(* Actions after which nothing is polled any more.                         *)
<1>5. ASSUME NEW w \in Workers,
             \/ StartPass(w) \/ EndPass(w) \/ FinishSync(w)
             \/ AbortSync(w) \/ Crash(w)
      PROVE  SoloInv'
  <2>1. UNCHANGED <<posts, catalog, polled>> /\ pc'[w] \in {"idle", "feed"}
    BY <1>1, <1>5 DEF StartPass, EndPass, FinishSync, AbortSync, Crash, EndSync
  <2>2. CurIsNew'
    BY <2>1 DEF CurIsNew
  <2>3. /\ faults' \in Nat /\ (faults' = 0 => faults = 0)
        /\ faults' = 0 => pc[w] \in {"idle", "feed"} \/ pending[w] = {}
    BY <1>1, <1>5 DEF StartPass, EndPass, FinishSync, AbortSync, Crash
  <2> QED
    BY <2>1, <2>2, <2>3, SoloQuiet DEF Polls
<1>6. ASSUME NEW w \in Workers, ReadCount(w) PROVE SoloInv'
  <2>1. /\ pc[w] = "count" /\ pc'[w] = "entry"
        /\ firstRun'[w] = (Count(Blog(w)) = 0)
        /\ UNCHANGED <<posts, catalog, polled, faults, runs, pending>>
    BY <1>1, <1>6 DEF ReadCount
  <2>2. CurIsNew'
    BY <2>1 DEF CurIsNew
  <2>3. (\A p \in posts : p.blog # Blog(w)) => Count(Blog(w)) = 0
    <3> SUFFICES ASSUME \A p \in posts : p.blog # Blog(w)
                 PROVE  Count(Blog(w)) = 0
      OBVIOUS
    <3>1. {r \in posts : r.blog = Blog(w)} = {}
      OBVIOUS
    <3> QED BY <3>1, FS_EmptySet DEF Count
  <2>4. \A b : Polls(w, b) => Polls(w, b)'
    BY <2>1, <2>3 DEF Polls, Blog
  <2> QED
    BY <1>1, <2>1, <2>2, <2>4, SoloQuiet
<1>7. ASSUME NEW w \in Workers, LookUpEntry(w) PROVE SoloInv'
  <2>1. PICK u \in pending[w] :
           \/ /\ IsScheduled(u)
              /\ pending' = [pending EXCEPT ![w] = @ \ {u}]
              /\ UNCHANGED <<pc, cur>>
           \/ /\ ~IsScheduled(u)
              /\ cur' = [cur EXCEPT ![w] = u]
              /\ GoTo(w, IF firstRun[w] THEN "mark" ELSE "draft")
              /\ UNCHANGED pending
    BY <1>7 DEF LookUpEntry
  <2>2. /\ pc[w] = "entry"
        /\ UNCHANGED <<posts, catalog, polled, faults, runs, firstRun>>
    BY <1>7 DEF LookUpEntry
  <2>3. \A v : IsScheduled(v)' <=> IsScheduled(v)
    BY <2>2 DEF IsScheduled
  <2>4. CASE /\ IsScheduled(u)
             /\ pending' = [pending EXCEPT ![w] = @ \ {u}]
             /\ UNCHANGED <<pc, cur>>
    <3>1. CurIsNew'
      BY <2>3, <2>4 DEF SoloInv, CurIsNew
    <3>2. \A b : Polls(w, b) => Polls(w, b)'
      BY <2>2, <2>4 DEF Polls, Blog
    <3> QED
      BY <1>1, <2>2, <2>4, <3>1, <3>2, SoloQuiet
  <2>5. CASE /\ ~IsScheduled(u)
             /\ cur' = [cur EXCEPT ![w] = u]
             /\ GoTo(w, IF firstRun[w] THEN "mark" ELSE "draft")
             /\ UNCHANGED pending
    <3>1. CurIsNew'
      BY <1>1, <2>3, <2>5 DEF CurIsNew
    <3>2. \A b : Polls(w, b) => Polls(w, b)'
      BY <1>1, <2>2, <2>5 DEF Polls, Blog
    <3>3. pc'[w] \in {"mark", "draft"}
      BY <1>1, <2>5
    <3> QED
      BY <1>1, <2>2, <2>5, <3>1, <3>2, <3>3, SoloQuiet
  <2> QED
    BY <2>1, <2>4, <2>5
(* Failed calls before anything is created.                                *)
<1>8. ASSUME NEW w \in Workers, LookUpFails(w) \/ EntryFails(w) PROVE SoloInv'
  <2>1. /\ pc[w] \in {"entry", "mark", "draft"} /\ pc'[w] = "entry"
        /\ faults' \in Nat /\ faults' > 0
        /\ UNCHANGED <<posts, catalog, polled, runs>>
    BY <1>1, <1>8 DEF LookUpFails, EntryFails, NextEntry
  <2>2. CurIsNew'
    BY <2>1 DEF CurIsNew
  <2> QED
    BY <2>1, <2>2, SoloQuiet
(* The series of a post that gets a campaign.                              *)
<1>9. ASSUME NEW w \in Workers,
             \/ Draft(w) \/ CreateTask(w) \/ CreateTaskFails(w)
             \/ RollbackOne(w) \/ RollbackDone(w) \/ SaveTasksFails(w)
      PROVE  SoloInv'
  <2>1. /\ pc[w] \in {"draft", "create", "rollback", "save"}
        /\ \/ pc'[w] \in {"draft", "create", "rollback", "save"} /\ cur' = cur
           \/ pc'[w] = "entry"
        /\ UNCHANGED <<posts, catalog, polled, runs>>
    BY <1>1, <1>9 DEF Draft, CreateTask, CreateTaskFails, RollbackOne,
                      RollbackDone, SaveTasksFails, AfterFailedSave, NextEntry
  <2>2. faults' \in Nat /\ (faults' = 0 => faults = 0)
    BY <1>1, <1>9 DEF Draft, CreateTask, CreateTaskFails, RollbackOne,
                      RollbackDone, SaveTasksFails
  <2>3. CurIsNew'
    BY <2>1 DEF SoloInv, CurIsNew, IsScheduled
  <2> QED
    BY <2>1, <2>2, <2>3, SoloQuiet DEF Polls
<1>10. ASSUME NEW b \in Blogs, NEW u \in Urls, PostAppears(b, u)
       PROVE  SoloInv'
  BY <1>10 DEF PostAppears, SoloInv, CurIsNew, CatalogInv, Polls, Blog,
               IsScheduled, FirstRunSafeUnlessFault, FirstRunSafety
<1>11. CASE UNCHANGED vars
  BY <1>11 DEF vars, SoloInv, CurIsNew, CatalogInv, Polls, Blog,
               IsScheduled, FirstRunSafeUnlessFault, FirstRunSafety
<1> QED
  BY <1>2, <1>3, <1>4, <1>5, <1>6, <1>7, <1>8, <1>9, <1>10, <1>11
     DEF Next, Step, Failure

(* The posts a blog had when it was first polled get no campaign, for any  *)
(* number of blogs, polled in any order and any number of times, as long   *)
(* as one pass runs at a time and no call fails.                           *)
THEOREM FirstRunIsSafe ==
    ASSUME \A v, w \in Workers : v = w PROVE Spec => []FirstRunSafeUnlessFault
<1>1. SoloInv => FirstRunSafeUnlessFault
  BY DEF SoloInv
<1> QED
  BY <1>1, TypeInit, TypeNext, SoloInit, SoloNext, PTL DEF Spec

(* One pass at a time creates no task for a post that is recorded,         *)
(* whatever failed in the polls before.                                    *)
THEOREM NoSecondSeries ==
    ASSUME \A v, w \in Workers : v = w PROVE Spec => NoTaskForRecordedPost
<1>1. TypeInv /\ SoloInv /\ [Next]_vars
        => [\A t \in created' \ created : \A p \in posts : p.url # t.url]_vars
  <2> SUFFICES ASSUME SoloInv, Next, NEW t \in created' \ created
               PROVE  \A p \in posts : p.url # t.url
    OBVIOUS
  <2>1. PICK w \in Workers : pc[w] = "create" /\ t = NewTask(w)
    BY DEF Next, Step, Failure, ListFeed, ReadCount, LookUpEntry, FinishSync,
           MarkSeenOnly, Draft, CreateTask, RollbackOne, RollbackDone,
           SaveTasks, EndPass, StartPass, SaveTasksFails, AbortSync,
           LookUpFails, EntryFails, CreateTaskFails, Crash, PostAppears, world
  <2> QED
    BY <2>1 DEF SoloInv, CurIsNew, IsScheduled, NewTask
<1> QED
  BY <1>1, TypeInit, TypeNext, SoloInit, SoloNext, PTL
     DEF Spec, NoTaskForRecordedPost
-----------------------------------------------------------------------------
(* Orphans.  Until the first fault each task of one pass at a time is      *)
(* recorded or in the hands of the pass, which records all of them: none   *)
(* conflicts with a recorded one, since its post is not recorded.          *)
RowsOfPosts == \A r \in taskRows : IsScheduled(r.url)

HeldOrSaved(t) ==
    \/ t.id \in TaskIds
    \/ \E w \in Workers : \E i \in Held(w) : refs[w][i] = t.id

KeptInv ==
    /\ RowsOfPosts
    /\ faults = 0 => /\ \A w \in Workers : pc[w] # "rollback"
                     /\ \A t \in created : HeldOrSaved(t)

LEMMA KeptInit == Init => KeptInv
  BY DEF Init, KeptInv, RowsOfPosts

(* A step that neither creates nor records, and lets go of no task unless  *)
(* it is a fault.                                                          *)
LEMMA KeptQuiet ==
    ASSUME KeptInv, UNCHANGED taskRows, \A u : IsScheduled(u) => IsScheduled(u)',
           faults' = 0 => /\ faults = 0
                          /\ created' = created /\ refs' = refs
                          /\ \A w \in Workers : pc'[w] = "rollback"
                                                => pc[w] = "rollback"
    PROVE  KeptInv'
<1>1. RowsOfPosts'
  BY DEF KeptInv, RowsOfPosts
<1>2. ASSUME faults' = 0
      PROVE  /\ \A w \in Workers : pc'[w] # "rollback"
             /\ \A t \in created' : HeldOrSaved(t)'
  BY <1>2 DEF KeptInv, HeldOrSaved, TaskIds, Held
<1> QED
  BY <1>1, <1>2 DEF KeptInv

LEMMA KeptCreate ==
    ASSUME TypeInv, KeptInv, NEW w \in Workers, CreateTask(w)
    PROVE  KeptInv'
<1>1. /\ pc[w] = "create" /\ refs[w] \in Seq(Nat) /\ nextId \in Nat
      /\ refs' = [refs EXCEPT ![w] = Append(refs[w], nextId)]
      /\ refs \in [Workers -> Seq(Nat)] /\ pc \in [Workers -> Steps]
      /\ \A t \in created' : t \in created \/ t.id = nextId
      /\ pc'[w] # "rollback" /\ \A v \in Workers \ {w} : pc'[v] = pc[v]
      /\ UNCHANGED <<posts, taskRows, faults>>
  BY DEF CreateTask, NewTask, GoTo, db, hist, TypeInv, TypeOK
<1>2. RowsOfPosts'
  BY <1>1 DEF KeptInv, RowsOfPosts, IsScheduled
<1>3. \A v \in Workers : \A i \in Held(v) : i \in Held(v)' /\ refs'[v][i] = refs[v][i]
  BY <1>1, AppendProperties DEF Held
<1>4. Len(refs[w]) + 1 \in Held(w)' /\ refs'[w][Len(refs[w]) + 1] = nextId
  BY <1>1, AppendProperties DEF Held
<1>5. ASSUME faults' = 0, NEW t \in created' PROVE HeldOrSaved(t)'
  <2>1. CASE t.id = nextId
    BY <1>4, <2>1 DEF HeldOrSaved
  <2>2. CASE t \in created
    <3>1. HeldOrSaved(t)
      BY <1>1, <1>5, <2>2 DEF KeptInv
    <3>2. UNCHANGED TaskIds
      BY <1>1 DEF TaskIds
    <3> QED
      BY <1>3, <3>1, <3>2 DEF HeldOrSaved
  <2> QED
    BY <1>1, <2>1, <2>2
<1> QED
  BY <1>1, <1>2, <1>5 DEF KeptInv

LEMMA KeptSave ==
    ASSUME TypeInv, KeptInv, NEW w \in Workers, \A v \in Workers : v = w,
           SaveTasks(w)
    PROVE  KeptInv'
<1>1. /\ posts' = InsertPost(cur[w], Blog(w), TRUE)
      /\ taskRows' = taskRows \cup TaskRowsFor(cur[w], refs[w])
      /\ UNCHANGED created
      /\ faults \in Nat /\ (faults' = 0 => faults = 0)
      /\ pc'[w] = "entry"
  BY DEF SaveTasks, AfterFailedSave, NextEntry, GoTo, Fault, world, TypeInv,
         TypeOK
<1>2. RowsOfPosts'
  <2>1. \A v : IsScheduled(v)' <=> IsScheduled(v) \/ v = cur[w]
    BY <1>1, Inserted
  <2>2. \A r \in taskRows' : r \in taskRows \/ r.url = cur[w]
    BY <1>1 DEF TaskRowsFor
  <2> QED
    BY <2>1, <2>2 DEF KeptInv, RowsOfPosts
<1>3. \A i \in Held(w) : refs[w][i] \in TaskIds'
  <2> SUFFICES ASSUME NEW i \in Held(w) PROVE refs[w][i] \in TaskIds'
    OBVIOUS
  <2>1. [url |-> cur[w], cell |-> i, id |-> refs[w][i]] \in taskRows'
    BY <1>1 DEF TaskRowsFor, Held
  <2> QED
    BY <2>1 DEF TaskIds
<1>4. \A d \in TaskIds : d \in TaskIds'
  BY <1>1 DEF TaskIds
<1> QED
  BY <1>1, <1>2, <1>3, <1>4 DEF KeptInv, HeldOrSaved

(* The series of a post that is not recorded, under ids that are not, is   *)
(* refused by neither key.                                                 *)
LEMMA NoConflict ==
    ASSUME TypeInv, SafeInv, CurIsNew, KeptInv, NEW w \in Workers,
           pc[w] = "save"
    PROVE  ~TaskConflict(cur[w], refs[w])
<1>1. \A r \in taskRows : r.url # cur[w]
  BY DEF CurIsNew, KeptInv, RowsOfPosts
<1>2. \A i \in 1 .. Len(refs[w]) : refs[w][i] \notin TaskIds
  BY DEF SafeInv, HeldUnrecorded, Held, TaskIds
<1> QED
  BY <1>1, <1>2 DEF TaskConflict

LEMMA KeptNext ==
    ASSUME \A v, w \in Workers : v = w
    PROVE  TypeInv /\ SafeInv /\ SoloInv /\ KeptInv /\ [Next]_vars => KeptInv'
<1> SUFFICES ASSUME TypeInv, SafeInv, SoloInv, KeptInv, [Next]_vars
             PROVE  KeptInv'
  OBVIOUS
<1> USE DEF world, db, locals, hist, GoTo, Fault
<1>1. /\ pc \in [Workers -> Steps] /\ faults \in Nat
      /\ refs \in [Workers -> Seq(Nat)]
  BY DEF TypeInv, TypeOK
<1>2. UNCHANGED posts => \A u : IsScheduled(u) => IsScheduled(u)'
  BY DEF IsScheduled
<1>3. ASSUME NEW w \in Workers, CreateTask(w) PROVE KeptInv'
  BY <1>3, KeptCreate
<1>4. ASSUME NEW w \in Workers, SaveTasks(w) PROVE KeptInv'
  BY <1>4, KeptSave
<1>5. ASSUME NEW w \in Workers, SaveTasksFails(w) PROVE KeptInv'
  <2>1. ~TaskConflict(cur[w], refs[w])
    BY <1>5, NoConflict DEF SaveTasksFails, SoloInv
  <2>2. UNCHANGED <<posts, taskRows>> /\ faults' # 0
    BY <1>1, <1>5, <2>1 DEF SaveTasksFails
  <2> QED
    BY <1>2, <2>2, KeptQuiet
<1>6. ASSUME NEW w \in Workers, MarkSeenOnly(w) PROVE KeptInv'
  <2>1. refs[w] = <<>>
    BY <1>6 DEF MarkSeenOnly, TypeInv, LocalsOK
  <2>2. refs' = refs /\ pc'[w] = "entry" /\ UNCHANGED <<taskRows, created, faults>>
    BY <1>1, <1>6, <2>1 DEF MarkSeenOnly, NextEntry
  <2>3. \A u : IsScheduled(u) => IsScheduled(u)'
    BY <1>6, Inserted DEF MarkSeenOnly
  <2> QED
    BY <2>2, <2>3, KeptQuiet
(* Failed calls and crashes.                                               *)
<1>7. ASSUME NEW w \in Workers, Failure(w) PROVE KeptInv'
  <2>1. UNCHANGED <<posts, taskRows>> /\ faults' # 0
    BY <1>1, <1>7 DEF Failure, AbortSync, LookUpFails, EntryFails,
       CreateTaskFails, Crash
  <2> QED
    BY <1>2, <2>1, KeptQuiet
<1>8. ASSUME NEW w \in Workers, RollbackOne(w) \/ RollbackDone(w)
      PROVE  KeptInv'
  <2>1. /\ UNCHANGED <<posts, taskRows>> /\ pc[w] = "rollback"
        /\ faults' = 0 => faults = 0
    BY <1>1, <1>8 DEF RollbackOne, RollbackDone
  <2>2. faults' # 0
    BY <2>1 DEF KeptInv
  <2> QED
    BY <1>2, <2>1, <2>2, KeptQuiet
<1>9. ASSUME NEW w \in Workers,
             \/ StartPass(w) \/ EndPass(w) \/ ListFeed(w) \/ ReadCount(w)
             \/ LookUpEntry(w) \/ FinishSync(w) \/ Draft(w)
      PROVE  KeptInv'
  <2>1. /\ UNCHANGED <<posts, taskRows, created, refs, faults>>
        /\ pc'[w] = "rollback" => pc[w] = "rollback"
    BY <1>1, <1>9 DEF StartPass, EndPass, ListFeed, ReadCount, LookUpEntry,
       FinishSync, EndSync, Draft
  <2> QED
    BY <1>2, <2>1, KeptQuiet
<1>10. ASSUME NEW b \in Blogs, NEW u \in Urls, PostAppears(b, u)
       PROVE  KeptInv'
  BY <1>2, <1>10, KeptQuiet DEF PostAppears
<1>11. CASE UNCHANGED vars
  BY <1>2, <1>11, KeptQuiet DEF vars
<1> QED
  BY <1>3, <1>4, <1>5, <1>6, <1>7, <1>8, <1>9, <1>10, <1>11
     DEF Next, Step

(* Darek leaves tasks in Todoist that it knows nothing of only if two      *)
(* passes meet or a call fails: one pass at a time, without faults,        *)
(* records all it creates.                                                 *)
THEOREM OrphansNeedFault ==
    ASSUME \A v, w \in Workers : v = w
    PROVE  Spec => [](faults = 0 => NoOrphans)
<1>1. TypeInv /\ KeptInv => (faults = 0 => NoOrphans)
  <2> SUFFICES ASSUME TypeInv, KeptInv, faults = 0,
                      \A w \in Workers : pc[w] = "idle", NEW t \in created
               PROVE  t.id \in TaskIds
    BY DEF NoOrphans, Orphans
  <2>1. \A w \in Workers : Held(w) = {}
    BY DEF TypeInv, LocalsOK, Held
  <2> QED
    BY <2>1 DEF KeptInv, HeldOrSaved
<1>2. TypeInv /\ SafeInv /\ SoloInv /\ KeptInv /\ [Next]_vars => KeptInv'
  BY KeptNext
<1>3. TypeInv /\ SoloInv /\ [Next]_vars => SoloInv'
  BY SoloNext
<1> QED
  BY <1>1, <1>2, <1>3, TypeInit, TypeNext, KeptInit, SoloInit, SafeAlways, PTL
     DEF Spec
=============================================================================
