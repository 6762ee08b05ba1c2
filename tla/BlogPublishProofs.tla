------------------------- MODULE BlogPublishProofs -------------------------
(***************************************************************************)
(* Proofs about BlogPublish, for any set of passes, tasks and projects,    *)
(* any page size, any clock and any number of faults.                      *)
(***************************************************************************)
EXTENDS BlogPublish, SequenceTheorems, TLAPS

AtTask == {"publish", "mark", "link", "complete", "draft", "update"}

(* Where a pass is determines what its local variables hold.               *)
LocalsOK ==
    /\ \A p \in Procs : pc[p] \in AtTask =>
          cur[p] \in Listed /\ cur[p].id \in Ours
    /\ \A p \in Posters : pc[p] \notin {"draft", "update"}
    /\ \A r \in Regens : pc[r] \in {"idle", "task", "draft", "update"}
    /\ \A r \in Regens : pc[r] = "update" => draft[r] \in Drafts

TypeInv == TypeOK /\ LocalsOK

(* A listing is made of listed tasks.                                      *)
LEMMA ListingType ==
    ASSUME TypeOK, NEW S \in SUBSET Tasks
    PROVE  Listing(S) \in SUBSET Listed
<1> SUFFICES ASSUME NEW t \in Tasks
             PROVE  [id |-> t, text |-> text[t], labels |-> labels[t],
                     linked |-> t \in linked] \in Listed
  BY DEF Listing, FirstPage
<1>1. text[t] \in Drafts /\ labels[t] \in SUBSET Labels
  BY DEF TypeOK
<1>2. (t \in linked) \in BOOLEAN
  OBVIOUS
<1> QED
  BY <1>1, <1>2 DEF Listed

LEMMA TypeInit == Init => TypeInv
<1> SUFFICES ASSUME Init PROVE TypeInv
  OBVIOUS
<1> USE ProjectAssumption, BoundAssumption, ProcAssumption, LabelAssumption
<1>1. TypeOK
  BY EmptySeq DEF Init, TypeOK, Steps, Procs
<1>2. LocalsOK
  BY DEF Init, LocalsOK, AtTask, Procs
<1> QED
  BY <1>1, <1>2 DEF TypeInv

(* Publishing appends at most one draft.                                   *)
LEMMA TootType ==
    ASSUME TypeOK, NEW t \in Tasks, NEW d \in Drafts, Toot(t, d)
    PROVE  toots' \in [Tasks -> Seq(Drafts)] /\ keys' \in SUBSET Tasks
<1>1. Append(toots[t], d) \in Seq(Drafts)
  BY AppendProperties DEF TypeOK
<1> QED
  BY <1>1 DEF Toot, TypeOK

LEMMA TypeNext == TypeInv /\ [Next]_vars => TypeInv'
<1> SUFFICES ASSUME TypeOK, LocalsOK, [Next]_vars PROVE TypeInv'
  BY DEF TypeInv
<1> USE ProjectAssumption, BoundAssumption, ProcAssumption, LabelAssumption,
        TaskAssumption
<1> USE DEF TypeInv, TypeOK, LocalsOK, Steps, Procs, AtTask, todoist,
            mastodon, locals, rest, GoTo, Fault
<1>1. ASSUME NEW p \in Posters, StartPublish(p) PROVE TypeInv'
  BY <1>1 DEF StartPublish
<1>2. ASSUME NEW p \in Posters, ListProject(p) PROVE TypeInv'
  <2>1. page' \in [Procs -> SUBSET Listed]
    BY <1>2, ListingType DEF ListProject
  <2>2. TypeOK'
    BY <1>2, <2>1 DEF ListProject
  <2>3. LocalsOK'
    BY <1>2 DEF ListProject
  <2> QED
    BY <2>2, <2>3
<1>3. ASSUME NEW p \in Posters, EndPublish(p) PROVE TypeInv'
  BY <1>3 DEF EndPublish
<1>4. ASSUME NEW p \in Posters, ListProjectFails(p) PROVE TypeInv'
  BY <1>4 DEF ListProjectFails
<1>5. ASSUME NEW p \in Posters, ReadTaskState(p) PROVE TypeInv'
  <2>1. PICK r \in page[p] :
           \/ r.id \notin Ours /\ Skip(p, r)
           \/ r.id \in posted /\ Take(p, r, "complete")
           \/ r.id \in Ours \ posted /\ ~Publishable(p, r.id) /\ Skip(p, r)
           \/ r.id \in Ours \ posted /\ Publishable(p, r.id)
                 /\ Take(p, r, "publish")
    BY <1>5 DEF ReadTaskState
  <2>2. r \in Listed
    OBVIOUS
  <2>3. CASE Skip(p, r)
    BY <1>5, <2>3 DEF ReadTaskState, Skip
  <2>4. CASE \E step \in {"complete", "publish"} :
                r.id \in Ours /\ Take(p, r, step)
    BY <1>5, <2>2, <2>4 DEF ReadTaskState, Take
  <2> QED
    BY <2>1, <2>3, <2>4
<1>6. ASSUME NEW p \in Posters, EndProject(p) PROVE TypeInv'
  BY <1>6 DEF EndProject
<1>7. ASSUME NEW p \in Posters, PublishTask(p) PROVE TypeInv'
  BY <1>7, TootType DEF PublishTask, Listed
<1>8. ASSUME NEW p \in Posters, PublishTaskFails(p) PROVE TypeInv'
  BY <1>8, TootType DEF PublishTaskFails, Listed, NextTask
<1>9. ASSUME NEW p \in Posters, MarkPosted(p) PROVE TypeInv'
  BY <1>9 DEF MarkPosted
<1>10. ASSUME NEW p \in Posters, MarkPostedFails(p) PROVE TypeInv'
  <2>1. TypeOK'
    BY <1>10 DEF MarkPostedFails, NextTask, Listed
  <2>2. LocalsOK'
    BY <1>10 DEF MarkPostedFails, NextTask
  <2> QED
    BY <2>1, <2>2
<1>11. ASSUME NEW p \in Posters, LinkBack(p) PROVE TypeInv'
  <2>1. TypeOK'
    BY <1>11 DEF LinkBack, Listed
  <2>2. LocalsOK'
    BY <1>11 DEF LinkBack
  <2> QED
    BY <2>1, <2>2
<1>12. ASSUME NEW p \in Posters, CompleteTask(p) PROVE TypeInv'
  BY <1>12 DEF CompleteTask, Close, NextTask
<1>13. ASSUME NEW p \in Posters, CompleteTaskFails(p) PROVE TypeInv'
  <2>1. TypeOK'
    BY <1>13 DEF CompleteTaskFails, Close, NextTask, Listed
  <2>2. LocalsOK'
    BY <1>13 DEF CompleteTaskFails, Close, NextTask
  <2> QED
    BY <2>1, <2>2
<1>14. ASSUME NEW r \in Regens, StartRegenerate(r) PROVE TypeInv'
  BY <1>14, ListingType DEF StartRegenerate
<1>15. ASSUME NEW r \in Regens, ReadEntry(r) PROVE TypeInv'
  <2>1. PICK q \in page[r] :
           (q.id \in Ours /\ Take(r, q, "draft")) \/ Skip(r, q)
    BY <1>15 DEF ReadEntry
  <2>2. CASE Skip(r, q)
    BY <1>15, <2>2 DEF ReadEntry, Skip
  <2>3. CASE q.id \in Ours /\ Take(r, q, "draft")
    BY <1>15, <2>3 DEF ReadEntry, Take
  <2> QED
    BY <2>1, <2>2, <2>3
<1>16. ASSUME NEW r \in Regens, EndRegenerate(r) PROVE TypeInv'
  BY <1>16 DEF EndRegenerate
<1>17. ASSUME NEW r \in Regens, Redraft(r) PROVE TypeInv'
  BY <1>17 DEF Redraft
<1>18. ASSUME NEW r \in Regens, UpdateTask(r) PROVE TypeInv'
  BY <1>18 DEF UpdateTask, Rewrite, LabelsSent, NextTask, Listed
<1>19. ASSUME NEW r \in Regens, UpdateTaskFails(r) PROVE TypeInv'
  <2>1. /\ text' \in [Tasks -> Drafts]
        /\ labels' \in [Tasks -> SUBSET Labels]
    <3>1. /\ cur[r].id \in Tasks /\ draft[r] \in Drafts
          /\ cur[r].labels \ {Regenerate} \in SUBSET Labels
      BY <1>19 DEF UpdateTaskFails, Listed
    <3>2. CASE Rewrite(r)
      BY <3>1, <3>2 DEF Rewrite, LabelsSent
    <3>3. CASE UNCHANGED <<text, labels>>
      BY <3>3
    <3> QED
      BY <1>19, <3>2, <3>3 DEF UpdateTaskFails
  <2>2. TypeOK'
    BY <1>19, <2>1 DEF UpdateTaskFails, NextTask
  <2>3. LocalsOK'
    BY <1>19 DEF UpdateTaskFails, NextTask
  <2> QED
    BY <2>2, <2>3
<1>20. ASSUME NEW r \in Regens, RedraftFails(r) PROVE TypeInv'
  BY <1>20 DEF RedraftFails, NextTask
<1>21. ASSUME NEW p \in Procs, ReadFails(p) PROVE TypeInv'
  BY <1>21 DEF ReadFails, Skip
<1>22. ASSUME NEW p \in Procs, Crash(p) PROVE TypeInv'
  BY <1>22 DEF Crash
<1>23. ASSUME User PROVE TypeInv'
  <2>1. PICK t \in open : UserRelabels(t) \/ UserRewrites(t) \/ UserCloses(t)
    BY <1>23 DEF User
  <2>2. /\ open' \in SUBSET Tasks
        /\ text' \in [Tasks -> Drafts]
        /\ labels' \in [Tasks -> SUBSET Labels]
        /\ linked' \in SUBSET Tasks
        /\ edits' \in 0 .. MaxEdits
    <3>1. CASE UserRelabels(t)
      <4>1. PICK l \in UserLabels :
               labels' = [labels EXCEPT ![t] = IF l \in @ THEN @ \ {l}
                                               ELSE @ \cup {l}]
        BY <3>1 DEF UserRelabels
      <4> QED
        BY <3>1, <4>1 DEF UserRelabels, Edit
    <3>2. CASE UserRewrites(t)
      BY <3>2 DEF UserRewrites, Edit
    <3>3. CASE UserCloses(t)
      BY <3>3 DEF UserCloses, Edit
    <3> QED
      BY <2>1, <3>1, <3>2, <3>3
  <2> QED
    BY <1>23, <2>2 DEF User
<1>24. ASSUME Tick PROVE TypeInv'
  BY <1>24 DEF Tick
<1>25. ASSUME ForgetKey PROVE TypeInv'
  BY <1>25 DEF ForgetKey
<1>26. ASSUME UNCHANGED vars PROVE TypeInv'
  BY <1>26 DEF vars
<1> QED
  BY <1>1, <1>2, <1>3, <1>4, <1>5, <1>6, <1>7, <1>8, <1>9, <1>10, <1>11,
     <1>12, <1>13, <1>14, <1>15, <1>16, <1>17, <1>18, <1>19, <1>20, <1>21,
     <1>22, <1>23, <1>24, <1>25, <1>26
     DEF Next, PosterStep, PosterFails, RegenStep, RegenFails

(* Every reachable state is well typed.                                    *)
THEOREM TypeCorrect == Spec => []TypeOK
<1>1. TypeInv => TypeOK
  BY DEF TypeInv
<1> QED
  BY <1>1, TypeInit, TypeNext, PTL DEF Spec

-----------------------------------------------------------------------------
(* What is not ours: a pass rewrites, links and completes only the task it *)
(* is at, and it is only ever at a task with a row in blog_post_tasks.     *)
OthersSame ==
    \A t \in Tasks \ Ours :
        /\ text'[t] = text[t] /\ labels'[t] = labels[t]
        /\ (t \in open' <=> t \in open)
        /\ (t \in linked' <=> t \in linked)

LEMMA OthersSameNext ==
    ASSUME TypeInv, [Next]_vars, edits' = edits PROVE OthersSame
<1> USE DEF OthersSame, todoist, rest
<1>1. UNCHANGED todoist => OthersSame
  OBVIOUS
<1>2. ASSUME NEW p \in Procs, pc[p] \in AtTask
      PROVE  cur[p].id \in Ours
  BY <1>2 DEF TypeInv, LocalsOK
<1>3. ASSUME NEW p \in Posters, LinkBack(p) PROVE OthersSame
  BY <1>2, <1>3 DEF LinkBack, AtTask, Procs
<1>4. ASSUME NEW p \in Posters, CompleteTask(p) \/ CompleteTaskFails(p)
      PROVE  OthersSame
  BY <1>2, <1>4 DEF CompleteTask, CompleteTaskFails, Close, AtTask, Procs
<1>5. ASSUME NEW p \in Posters, PosterStep(p) \/ PosterFails(p)
      PROVE  OthersSame
  BY <1>1, <1>3, <1>4, <1>5 DEF PosterStep, PosterFails, StartPublish,
     ListProject, EndPublish, ReadTaskState, EndProject, PublishTask,
     MarkPosted, ListProjectFails, PublishTaskFails, MarkPostedFails
<1>6. ASSUME NEW r \in Regens, UpdateTask(r) \/ UpdateTaskFails(r)
      PROVE  OthersSame
  <2>1. cur[r].id \in Ours
    BY <1>2, <1>6 DEF UpdateTask, UpdateTaskFails, AtTask, Procs
  <2>2. /\ Rewrite(r) \/ UNCHANGED <<text, labels>>
        /\ UNCHANGED <<open, linked>>
    BY <1>6 DEF UpdateTask, UpdateTaskFails
  <2> QED
    BY <2>1, <2>2 DEF Rewrite, TypeInv, TypeOK
<1>7. ASSUME NEW r \in Regens, RegenStep(r) \/ RegenFails(r)
      PROVE  OthersSame
  BY <1>1, <1>6, <1>7 DEF RegenStep, RegenFails, StartRegenerate, ReadEntry,
     EndRegenerate, Redraft, RedraftFails
<1>8. ASSUME NEW p \in Procs, ReadFails(p) \/ Crash(p) PROVE OthersSame
  BY <1>1, <1>8 DEF ReadFails, Crash
<1>9. ~User
  <2> SUFFICES ASSUME User PROVE FALSE
    OBVIOUS
  <2>1. edits' = edits + 1
    BY DEF User, UserRelabels, UserRewrites, UserCloses, Edit
  <2>2. edits \in Nat
    BY BoundAssumption DEF TypeInv, TypeOK
  <2> QED
    BY <2>1, <2>2
<1>10. ASSUME Tick \/ ForgetKey \/ UNCHANGED vars PROVE OthersSame
  BY <1>1, <1>10 DEF Tick, ForgetKey, vars
<1> QED
  BY <1>5, <1>7, <1>8, <1>9, <1>10 DEF Next

(* Darek changes no task but its own: a task of somebody else, labelled or *)
(* due as it may be, changes only by its user.                             *)
THEOREM OthersStayAlone == Spec => OthersLeftAlone
<1>1. TypeInv /\ [Next]_vars
        => [edits' = edits =>
              \A t \in Tasks \ Ours :
                  /\ text'[t] = text[t] /\ labels'[t] = labels[t]
                  /\ (t \in open' <=> t \in open)
                  /\ (t \in linked' <=> t \in linked)]_vars
  BY OthersSameNext DEF OthersSame
<1> QED
  BY <1>1, TypeInit, TypeNext, PTL DEF Spec, OthersLeftAlone

-----------------------------------------------------------------------------
(* The inductive invariant.  A pass that is about to record a post has     *)
(* seen it published, one that is about to close a task has seen its post  *)
(* recorded, and one that is about to publish a task found it due.         *)
MarkIsPosted ==
    \A p \in Posters : pc[p] = "mark" => toots[cur[p].id] # <<>>
ClosingIsRecorded ==
    \A p \in Posters : pc[p] \in {"link", "complete"} => cur[p].id \in posted
PublishIsDue ==
    \A p \in Posters :
        /\ now[p] <= clock
        /\ pc[p] = "publish" =>
              cur[p].id \in AutoPost /\ DueAt[cur[p].id] \in 0 .. now[p]
KeysArePosted == \A t \in keys : toots[t] # <<>>
PostedIsDue ==
    \A t \in Tasks : toots[t] # <<>> =>
        t \in AutoPost /\ DueAt[t] \in 0 .. clock

PostInv ==
    /\ MarkIsPosted /\ ClosingIsRecorded /\ PublishIsDue /\ KeysArePosted
    /\ PostedIsDue /\ RecordedIsPosted /\ ClosedIsRecorded

Posting == {"publish", "mark", "link", "complete"}

LEMMA PostInit == Init => PostInv
BY DEF Init, PostInv, MarkIsPosted, ClosingIsRecorded, PublishIsDue,
       KeysArePosted, PostedIsDue, RecordedIsPosted, ClosedIsRecorded, Procs

(* A step that publishes, records and closes nothing, and that takes no    *)
(* poster to a new task.                                                   *)
Quiet ==
    /\ UNCHANGED <<posted, toots, closedByUs>>
    /\ keys' \subseteq keys
    /\ clock' >= clock
    /\ \A p \in Posters :
          /\ now'[p] <= clock'
          /\ \/ pc'[p] = pc[p] /\ cur'[p] = cur[p] /\ now'[p] = now[p]
             \/ pc'[p] \notin Posting

LEMMA QuietKeepsPostInv ==
    ASSUME TypeInv, TypeInv', PostInv, Quiet PROVE PostInv'
<1>1. /\ UNCHANGED <<posted, toots, closedByUs>>
      /\ keys' \subseteq keys /\ clock' >= clock
      /\ clock \in Nat
  BY DEF Quiet, TypeInv, TypeOK
<1>2. MarkIsPosted' /\ ClosingIsRecorded'
  BY <1>1 DEF PostInv, MarkIsPosted, ClosingIsRecorded, Quiet, Posting
<1>3. PublishIsDue'
  BY <1>1 DEF PostInv, PublishIsDue, Quiet, Posting
<1>4. KeysArePosted' /\ RecordedIsPosted' /\ ClosedIsRecorded'
  BY <1>1 DEF PostInv, KeysArePosted, RecordedIsPosted, ClosedIsRecorded
<1>5. PostedIsDue'
  <2> SUFFICES ASSUME NEW t \in Tasks, toots'[t] # <<>>
               PROVE  t \in AutoPost /\ DueAt[t] \in 0 .. clock'
    BY DEF PostedIsDue
  <2>1. t \in AutoPost /\ DueAt[t] \in 0 .. clock
    BY <1>1 DEF PostInv, PostedIsDue
  <2>2. clock' \in Int
    BY DEF TypeInv, TypeOK
  <2>3. \A d \in 0 .. clock : d \in 0 .. clock'
    BY <1>1, <2>2
  <2> QED
    BY <2>1, <2>3
<1> QED
  BY <1>2, <1>3, <1>4, <1>5 DEF PostInv

LEMMA QuietSteps ==
    ASSUME TypeInv, PublishIsDue, [Next]_vars,
           \A p \in Posters :
               /\ ~PublishTask(p) /\ ~PublishTaskFails(p) /\ ~MarkPosted(p)
               /\ ~MarkPostedFails(p) /\ ~CompleteTask(p)
               /\ ~CompleteTaskFails(p) /\ ~ReadTaskState(p) /\ ~LinkBack(p)
    PROVE  Quiet
<1>0. /\ pc \in [Procs -> Steps] /\ now \in [Posters -> Nat]
      /\ \A p \in Posters : now[p] <= clock
      /\ clock \in Nat /\ DOMAIN cur = Procs
  <2>1. /\ pc \in [Procs -> Steps] /\ clock \in Nat /\ DOMAIN cur = Procs
        /\ now \in [Posters -> 0 .. MaxTime]
    BY BoundAssumption DEF TypeInv, TypeOK
  <2>2. \A p \in Posters : now[p] \in Nat
    BY <2>1, BoundAssumption
  <2>3. \A p \in Posters : now[p] <= clock
    BY DEF PublishIsDue
  <2> QED
    BY <2>1, <2>2, <2>3
<1> USE <1>0, ProcAssumption DEF Quiet, Procs, Posting, todoist, mastodon,
        locals, rest, GoTo, Fault
<1>1. ASSUME NEW p \in Posters, StartPublish(p) PROVE Quiet
  BY <1>1 DEF StartPublish
<1>2. ASSUME NEW p \in Posters, ListProject(p) PROVE Quiet
  BY <1>2 DEF ListProject
<1>3. ASSUME NEW p \in Posters, EndPublish(p) PROVE Quiet
  BY <1>3 DEF EndPublish
<1>4. ASSUME NEW p \in Posters, ListProjectFails(p) PROVE Quiet
  BY <1>4 DEF ListProjectFails
<1>6. ASSUME NEW p \in Posters, EndProject(p) PROVE Quiet
  BY <1>6 DEF EndProject
<1>14. ASSUME NEW r \in Regens, StartRegenerate(r) PROVE Quiet
  BY <1>14 DEF StartRegenerate
<1>15. ASSUME NEW r \in Regens, ReadEntry(r) PROVE Quiet
  BY <1>15 DEF ReadEntry, Take, Skip
<1>16. ASSUME NEW r \in Regens, EndRegenerate(r) PROVE Quiet
  BY <1>16 DEF EndRegenerate
<1>17. ASSUME NEW r \in Regens, Redraft(r) PROVE Quiet
  BY <1>17 DEF Redraft
<1>18. ASSUME NEW r \in Regens, UpdateTask(r) PROVE Quiet
  BY <1>18 DEF UpdateTask, NextTask
<1>19. ASSUME NEW r \in Regens, UpdateTaskFails(r) PROVE Quiet
  BY <1>19 DEF UpdateTaskFails, NextTask
<1>20. ASSUME NEW r \in Regens, RedraftFails(r) PROVE Quiet
  BY <1>20 DEF RedraftFails, NextTask
<1>21. ASSUME NEW p \in Procs, ReadFails(p) PROVE Quiet
  BY <1>21 DEF ReadFails, Skip
<1>22. ASSUME NEW p \in Procs, Crash(p) PROVE Quiet
  BY <1>22 DEF Crash
<1>23. ASSUME User PROVE Quiet
  BY <1>23 DEF User
<1>24. ASSUME Tick PROVE Quiet
  BY <1>24 DEF Tick
<1>25. ASSUME ForgetKey PROVE Quiet
  BY <1>25 DEF ForgetKey
<1>26. ASSUME UNCHANGED vars PROVE Quiet
  BY <1>26 DEF vars
<1> QED
  BY <1>1, <1>2, <1>3, <1>4, <1>6, <1>14, <1>15, <1>16, <1>17, <1>18, <1>19,
     <1>20, <1>21, <1>22, <1>23, <1>24, <1>25, <1>26
     DEF Next, PosterStep, PosterFails, RegenStep, RegenFails

(* Publishing only adds posts, and leaves the key of the task behind.      *)
LEMMA TootAdds ==
    ASSUME TypeInv, KeysArePosted, NEW t \in Tasks, NEW d \in Drafts,
           Toot(t, d)
    PROVE  /\ KeysArePosted'
           /\ toots'[t] # <<>>
           /\ \A u \in Tasks \ {t} : toots'[u] = toots[u]
<1>1. toots \in [Tasks -> Seq(Drafts)] /\ keys \in SUBSET Tasks
  BY DEF TypeInv, TypeOK
<1>2. Append(toots[t], d) # <<>>
  BY <1>1, AppendProperties
<1>3. toots'[t] # <<>> /\ \A u \in Tasks \ {t} : toots'[u] = toots[u]
  BY <1>1, <1>2 DEF Toot, KeysArePosted
<1> QED
  BY <1>1, <1>3 DEF Toot, KeysArePosted

LEMMA PublishKeepsPostInv ==
    ASSUME TypeInv, TypeInv', PostInv, NEW p \in Posters,
           pc[p] = "publish", Toot(cur[p].id, cur[p].text),
           UNCHANGED <<posted, closedByUs, now, clock>>,
           \/ GoTo(p, "mark") /\ cur' = cur
           \/ NextTask(p)
    PROVE  PostInv'
<1> DEFINE t == cur[p].id
<1>1. /\ t \in Tasks /\ cur[p].text \in Drafts
      /\ t \in AutoPost /\ DueAt[t] \in 0 .. now[p] /\ now[p] <= clock
      /\ now[p] \in Int /\ clock \in Int
  <2>1. cur[p] \in Listed
    BY DEF TypeInv, LocalsOK, AtTask, Procs
  <2>2. t \in Tasks /\ cur[p].text \in Drafts
    BY <2>1 DEF Listed
  <2>3. t \in AutoPost /\ DueAt[t] \in 0 .. now[p] /\ now[p] <= clock
    BY DEF PostInv, PublishIsDue
  <2>4. now[p] \in Int /\ clock \in Int
    BY DEF TypeInv, TypeOK
  <2> QED
    BY <2>2, <2>3, <2>4
<1>2. /\ KeysArePosted' /\ toots'[t] # <<>>
      /\ \A u \in Tasks \ {t} : toots'[u] = toots[u]
  BY <1>1, TootAdds DEF PostInv
<1>3. \A q \in Posters \ {p} : pc'[q] = pc[q] /\ cur'[q] = cur[q]
  BY DEF GoTo, NextTask, TypeInv, TypeOK, Procs
<1>4. \/ pc'[p] = "mark" /\ cur'[p] = cur[p]
      \/ pc'[p] = "task"
  BY DEF GoTo, NextTask, TypeInv, TypeOK, Procs
<1>5. \A q \in Posters : pc[q] \in Posting => cur[q].id \in Tasks
  BY TaskAssumption DEF TypeInv, LocalsOK, AtTask, Procs, Posting
<1>6. MarkIsPosted'
  BY <1>2, <1>3, <1>4, <1>5 DEF PostInv, MarkIsPosted, Posting
<1>7. ClosingIsRecorded' /\ PublishIsDue'
  BY <1>3, <1>4 DEF PostInv, ClosingIsRecorded, PublishIsDue
<1>8. PostedIsDue'
  <2>1. \A d \in 0 .. now[p] : d \in 0 .. clock
    BY <1>1
  <2> QED
    BY <1>1, <1>2, <2>1 DEF PostInv, PostedIsDue
<1>9. RecordedIsPosted' /\ ClosedIsRecorded'
  BY <1>2, TaskAssumption
     DEF PostInv, RecordedIsPosted, ClosedIsRecorded, TypeInv, TypeOK
<1> QED
  BY <1>2, <1>6, <1>7, <1>8, <1>9 DEF PostInv

(* Any other step of a poster: it moves on to a known next step, and what  *)
(* that step needs is there.                                               *)
LEMMA PosterKeepsPostInv ==
    ASSUME TypeInv, PostInv, NEW p \in Posters,
           UNCHANGED <<toots, keys, now, clock>>,
           posted \subseteq posted', closedByUs' \subseteq posted',
           \A t \in posted' : toots[t] # <<>>,
           \A q \in Posters \ {p} : pc'[q] = pc[q] /\ cur'[q] = cur[q],
           \/ pc'[p] = "task"
           \/ pc'[p] \in {"link", "complete"} /\ cur'[p].id \in posted'
           \/ /\ pc'[p] = "publish"
              /\ cur'[p].id \in AutoPost /\ DueAt[cur'[p].id] \in 0 .. now[p]
    PROVE  PostInv'
<1>1. MarkIsPosted' /\ ClosingIsRecorded'
  BY DEF PostInv, MarkIsPosted, ClosingIsRecorded
<1>2. PublishIsDue'
  BY DEF PostInv, PublishIsDue
<1>3. KeysArePosted' /\ PostedIsDue' /\ RecordedIsPosted' /\ ClosedIsRecorded'
  BY DEF PostInv, KeysArePosted, PostedIsDue, RecordedIsPosted,
         ClosedIsRecorded
<1> QED
  BY <1>1, <1>2, <1>3 DEF PostInv

LEMMA PostNext ==
    ASSUME TypeInv, TypeInv', PostInv, [Next]_vars PROVE PostInv'
<1> USE DEF Procs, GoTo, todoist, mastodon, rest
<1>0. pc \in [Procs -> Steps] /\ DOMAIN cur = Procs
  BY DEF TypeInv, TypeOK
<1>1. ASSUME NEW p \in Posters, PublishTask(p) PROVE PostInv'
  BY <1>1, PublishKeepsPostInv DEF PublishTask
<1>2. ASSUME NEW p \in Posters, PublishTaskFails(p) PROVE PostInv'
  <2>1. CASE Toot(cur[p].id, cur[p].text)
    BY <1>2, <2>1, PublishKeepsPostInv DEF PublishTaskFails
  <2>2. CASE UNCHANGED mastodon
    BY <1>0, <1>2, <2>2, PosterKeepsPostInv
       DEF PublishTaskFails, NextTask, PostInv, RecordedIsPosted,
           ClosedIsRecorded
  <2> QED
    BY <1>2, <2>1, <2>2 DEF PublishTaskFails
<1>3. ASSUME NEW p \in Posters, MarkPosted(p) PROVE PostInv'
  BY <1>0, <1>3, PosterKeepsPostInv
     DEF MarkPosted, PostInv, MarkIsPosted, RecordedIsPosted,
         ClosedIsRecorded
<1>4. ASSUME NEW p \in Posters, MarkPostedFails(p) PROVE PostInv'
  BY <1>0, <1>4, PosterKeepsPostInv
     DEF MarkPostedFails, NextTask, PostInv, MarkIsPosted, RecordedIsPosted,
         ClosedIsRecorded
<1>5. ASSUME NEW p \in Posters, CompleteTask(p) PROVE PostInv'
  BY <1>0, <1>5, PosterKeepsPostInv
     DEF CompleteTask, Close, NextTask, PostInv, ClosingIsRecorded,
         RecordedIsPosted, ClosedIsRecorded
<1>6. ASSUME NEW p \in Posters, CompleteTaskFails(p) PROVE PostInv'
  BY <1>0, <1>6, PosterKeepsPostInv
     DEF CompleteTaskFails, Close, NextTask, PostInv, ClosingIsRecorded,
         RecordedIsPosted, ClosedIsRecorded
<1>7. ASSUME NEW p \in Posters, LinkBack(p) PROVE PostInv'
  BY <1>0, <1>7, PosterKeepsPostInv
     DEF LinkBack, PostInv, ClosingIsRecorded, RecordedIsPosted,
         ClosedIsRecorded
<1>8. ASSUME NEW p \in Posters, ReadTaskState(p) PROVE PostInv'
  <2>1. PICK r \in page[p] :
           \/ r.id \notin Ours /\ Skip(p, r)
           \/ r.id \in posted /\ Take(p, r, "complete")
           \/ r.id \in Ours \ posted /\ ~Publishable(p, r.id) /\ Skip(p, r)
           \/ r.id \in Ours \ posted /\ Publishable(p, r.id)
                 /\ Take(p, r, "publish")
    BY <1>8 DEF ReadTaskState
  <2>2. /\ UNCHANGED <<toots, keys, now, clock, posted, closedByUs>>
        /\ closedByUs \subseteq posted /\ \A t \in posted : toots[t] # <<>>
        /\ pc[p] = "task"
    BY <1>8 DEF ReadTaskState, PostInv, RecordedIsPosted, ClosedIsRecorded
  <2>3. CASE Skip(p, r)
    BY <2>2, <2>3, PosterKeepsPostInv DEF Skip
  <2>4. CASE r.id \in posted /\ Take(p, r, "complete")
    BY <1>0, <2>2, <2>4, PosterKeepsPostInv DEF Take
  <2>5. CASE r.id \in Ours /\ Publishable(p, r.id) /\ Take(p, r, "publish")
    <3>1. r.id \in AutoPost /\ DueAt[r.id] \in 0 .. now[p]
      <4>1. now[p] \in Nat
        BY BoundAssumption DEF TypeInv, TypeOK
      <4>2. DueAt[r.id] \in Nat /\ DueAt[r.id] <= now[p]
        BY <2>5, DueAssumption, TaskAssumption DEF Publishable, IsDue
      <4> QED
        BY <2>5, <4>1, <4>2 DEF Publishable
    <3> QED
      BY <1>0, <2>2, <2>5, <3>1, PosterKeepsPostInv DEF Take
  <2> QED
    BY <2>1, <2>3, <2>4, <2>5
<1>9. CASE \A p \in Posters :
               /\ ~PublishTask(p) /\ ~PublishTaskFails(p) /\ ~MarkPosted(p)
               /\ ~MarkPostedFails(p) /\ ~CompleteTask(p)
               /\ ~CompleteTaskFails(p) /\ ~ReadTaskState(p) /\ ~LinkBack(p)
  BY <1>9, QuietSteps, QuietKeepsPostInv DEF PostInv
<1> QED
  BY <1>1, <1>2, <1>3, <1>4, <1>5, <1>6, <1>7, <1>8, <1>9

LEMMA PostAlways == Spec => [](TypeInv /\ PostInv)
<1>1. Init => TypeInv /\ PostInv
  BY TypeInit, PostInit
<1>2. (TypeInv /\ PostInv) /\ [Next]_vars => (TypeInv /\ PostInv)'
  BY TypeNext, PostNext
<1> QED
  BY <1>1, <1>2, PTL DEF Spec

(* A task is recorded as posted only if it is on Mastodon, and only closed *)
(* by darek once it is recorded: with any number of overlapping passes,    *)
(* failures and crashes.                                                   *)
THEOREM RecordsAreTrue == Spec => [](RecordedIsPosted /\ ClosedIsRecorded)
<1>1. PostInv => RecordedIsPosted /\ ClosedIsRecorded
  BY DEF PostInv
<1> QED
  BY <1>1, PostAlways, PTL

(* Only tasks that are due and have a publisher are ever posted.           *)
THEOREM OnlyDuePosted == Spec => []OnlyDueTasksPosted
<1>1. TypeInv /\ PostInv => OnlyDueTasksPosted
  <2> SUFFICES ASSUME PostedIsDue, clock \in Int, NEW t \in Tasks,
                      toots[t] # <<>>
               PROVE  t \in AutoPost /\ DueAt[t] <= clock
    BY BoundAssumption DEF OnlyDueTasksPosted, PostInv, TypeInv, TypeOK
  <2>1. t \in AutoPost /\ DueAt[t] \in 0 .. clock
    BY DEF PostedIsDue
  <2> QED
    BY <2>1
<1> QED
  BY <1>1, PostAlways, PTL

-----------------------------------------------------------------------------
(* As long as Mastodon forgets no key, a task that was posted has its key  *)
(* there, and is not posted again.                                         *)
KeyInv == PostedOnce /\ \A t \in Tasks : toots[t] # <<>> => t \in keys

(* The step of the promise that a step of a pass takes.                    *)
Posts == [t \in Tasks |-> Len(toots[t])]
PromiseStep == [Promise!Next]_(Promise!vars)

LEMMA KeyInit == Init => KeyInv
<1>1. Len(<<>>) <= 1
  OBVIOUS
<1> QED
  BY <1>1 DEF Init, KeyInv, PostedOnce

LEMMA TootKeepsPromise ==
    ASSUME TypeInv, PostInv, KeyInv, NEW t \in Tasks, NEW d \in Drafts,
           Toot(t, d), UNCHANGED <<posted, closedByUs>>
    PROVE  KeyInv' /\ PromiseStep
<1>1. toots \in [Tasks -> Seq(Drafts)]
  BY DEF TypeInv, TypeOK
<1>2. CASE t \in keys
  BY <1>2 DEF Toot, KeyInv, PostedOnce, PromiseStep, Promise!vars
<1>3. CASE t \notin keys
  <2>1. toots[t] = <<>> /\ Len(toots[t]) = 0
    BY <1>1, <1>3 DEF KeyInv
  <2>2. /\ toots' = [toots EXCEPT ![t] = Append(@, d)]
        /\ keys' = keys \cup {t}
    BY <1>3 DEF Toot
  <2>3. Len(Append(toots[t], d)) = 1
    BY <1>1, <2>1, AppendProperties
  <2>4. KeyInv'
    BY <1>1, <2>2, <2>3 DEF KeyInv, PostedOnce
  <2>5. Promise!Post(t)
    BY <1>1, <2>1, <2>2, <2>3 DEF Promise!Post
  <2> QED
    BY <2>4, <2>5 DEF PromiseStep, Promise!Next
<1> QED
  BY <1>2, <1>3

(* Every step keeps the promise: it is Post, Record or Complete, or no     *)
(* step at all, of PostOnce.                                               *)
LEMMA PromiseNext ==
    ASSUME ~KeyWindowEnds, TypeInv, PostInv, KeyInv, [Next]_vars
    PROVE  KeyInv' /\ PromiseStep
<1> USE DEF todoist, mastodon, rest
<1>1. ASSUME NEW p \in Posters, pc[p] \in AtTask
      PROVE  cur[p].id \in Tasks /\ cur[p].text \in Drafts
  BY <1>1 DEF TypeInv, LocalsOK, Procs, Listed
<1>2. ASSUME NEW p \in Posters, PublishTask(p) PROVE KeyInv' /\ PromiseStep
  BY <1>1, <1>2, TootKeepsPromise DEF PublishTask, AtTask
<1>3. ASSUME UNCHANGED mastodon, UNCHANGED <<posted, closedByUs>>
      PROVE  KeyInv' /\ PromiseStep
  BY <1>3 DEF KeyInv, PostedOnce, PromiseStep, Promise!vars
<1>4. ASSUME NEW p \in Posters, PublishTaskFails(p)
      PROVE  KeyInv' /\ PromiseStep
  BY <1>1, <1>3, <1>4, TootKeepsPromise DEF PublishTaskFails, AtTask
<1>5. ASSUME NEW p \in Posters, pc[p] = "mark", UNCHANGED mastodon,
             posted' = posted \cup {cur[p].id}, UNCHANGED closedByUs
      PROVE  KeyInv' /\ PromiseStep
  <2>1. cur[p].id \in Tasks /\ toots[cur[p].id] # <<>>
    BY <1>1, <1>5 DEF PostInv, MarkIsPosted, AtTask
  <2>2. Len(toots[cur[p].id]) = 1
    <3>1. toots[cur[p].id] \in Seq(Drafts)
      BY <2>1 DEF TypeInv, TypeOK
    <3>2. Len(toots[cur[p].id]) \in Nat /\ Len(toots[cur[p].id]) # 0
      BY <2>1, <3>1, EmptySeq
    <3>3. Len(toots[cur[p].id]) <= 1
      BY <2>1 DEF KeyInv, PostedOnce
    <3>4. \A n \in Nat : n # 0 /\ n <= 1 => n = 1
      OBVIOUS
    <3> QED
      BY <3>2, <3>3, <3>4, Zenon
  <2>3. Promise!Record(cur[p].id)
    BY <1>5, <2>1, <2>2 DEF Promise!Record
  <2> QED
    BY <1>5, <2>1, <2>3 DEF PromiseStep, Promise!Next, KeyInv, PostedOnce
<1>6. ASSUME NEW p \in Posters, pc[p] = "complete", Close(cur[p].id),
             UNCHANGED mastodon, UNCHANGED posted
      PROVE  KeyInv' /\ PromiseStep
  <2>1. cur[p].id \in Tasks /\ cur[p].id \in posted
    BY <1>1, <1>6 DEF PostInv, ClosingIsRecorded, AtTask
  <2>2. Promise!Complete(cur[p].id)
    BY <1>6, <2>1 DEF Promise!Complete, Close
  <2> QED
    BY <1>6, <2>1, <2>2 DEF PromiseStep, Promise!Next, KeyInv, PostedOnce
<1>7. ASSUME NEW p \in Posters, PosterStep(p) \/ PosterFails(p)
      PROVE  KeyInv' /\ PromiseStep
  <2>1. CASE MarkPosted(p) \/ MarkPostedFails(p)
    BY <1>3, <1>5, <2>1 DEF MarkPosted, MarkPostedFails
  <2>2. CASE CompleteTask(p) \/ CompleteTaskFails(p)
    BY <1>3, <1>6, <2>2 DEF CompleteTask, CompleteTaskFails
  <2>3. CASE \/ StartPublish(p) \/ ListProject(p) \/ EndPublish(p)
             \/ ReadTaskState(p) \/ EndProject(p) \/ LinkBack(p)
             \/ ListProjectFails(p)
    BY <1>3, <2>3 DEF StartPublish, ListProject, EndPublish, ReadTaskState,
       EndProject, LinkBack, ListProjectFails
  <2> QED
    BY <1>2, <1>4, <1>7, <2>1, <2>2, <2>3 DEF PosterStep, PosterFails
<1>8. ASSUME NEW r \in Regens, RegenStep(r) \/ RegenFails(r)
      PROVE  KeyInv' /\ PromiseStep
  BY <1>3, <1>8 DEF RegenStep, RegenFails, StartRegenerate, ReadEntry,
     EndRegenerate, Redraft, UpdateTask, UpdateTaskFails, RedraftFails
<1>9. ASSUME NEW p \in Procs, ReadFails(p) \/ Crash(p)
      PROVE  KeyInv' /\ PromiseStep
  BY <1>3, <1>9 DEF ReadFails, Crash
<1>10. ASSUME User \/ Tick \/ ForgetKey \/ UNCHANGED vars
       PROVE  KeyInv' /\ PromiseStep
  BY <1>3, <1>10 DEF User, Tick, ForgetKey, vars
<1> QED
  BY <1>7, <1>8, <1>9, <1>10 DEF Next

LEMMA PromiseInit == Init => Promise!Init
BY DEF Init, Promise!Init

(* While Mastodon remembers the keys, no task is posted twice, however     *)
(* many passes overlap and wherever they fail or crash.                    *)
THEOREM AtMostOnePost ==
    ASSUME ~KeyWindowEnds PROVE Spec => []PostedOnce
<1>1. KeyInv => PostedOnce
  BY DEF KeyInv
<1>2. (TypeInv /\ PostInv) /\ KeyInv /\ [Next]_vars => KeyInv'
  BY PromiseNext
<1> QED
  BY <1>1, <1>2, KeyInit, PostAlways, PTL DEF Spec

(* Under the same condition BlogPublish implements PostOnce.               *)
THEOREM ImplementsPostOnce ==
    ASSUME ~KeyWindowEnds PROVE Spec => KeepsPromise
<1>1. (TypeInv /\ PostInv) /\ KeyInv /\ [Next]_vars => KeyInv' /\ PromiseStep
  BY PromiseNext
<1>2. PromiseStep => [Promise!Next]_(Promise!vars)
  BY DEF PromiseStep
<1> QED
  BY <1>1, <1>2, KeyInit, PromiseInit, PostAlways, PTL
     DEF Spec, KeepsPromise, Promise!Spec

-----------------------------------------------------------------------------
(* A pass that is alone publishes only what is not recorded.               *)
PublishIsNew ==
    \A p \in Posters : pc[p] = "publish" => cur[p].id \notin posted

LEMMA NewNext ==
    ASSUME \A p, q \in Posters : p = q, TypeInv, PublishIsNew, [Next]_vars
    PROVE  PublishIsNew'
<1> SUFFICES ASSUME NEW p \in Posters, pc'[p] = "publish"
             PROVE  cur'[p].id \notin posted'
  BY DEF PublishIsNew
<1> USE ProcAssumption DEF Procs, GoTo, todoist, mastodon, locals, rest
<1>0. pc \in [Procs -> Steps] /\ DOMAIN cur = Procs
  BY DEF TypeInv, TypeOK
<1>1. CASE ReadTaskState(p)
  BY <1>0, <1>1 DEF ReadTaskState, Take, Skip
<1>2. ASSUME pc'[p] = pc[p], cur'[p] = cur[p], UNCHANGED posted
      PROVE  cur'[p].id \notin posted'
  BY <1>2 DEF PublishIsNew
<1>3. CASE PosterStep(p) \/ PosterFails(p)
  <2>1. CASE \/ StartPublish(p) \/ ListProject(p) \/ EndPublish(p)
             \/ EndProject(p) \/ LinkBack(p) \/ ListProjectFails(p)
    BY <1>0, <2>1 DEF StartPublish, ListProject, EndPublish, EndProject,
       LinkBack, ListProjectFails
  <2>2. CASE \/ PublishTask(p) \/ MarkPosted(p) \/ CompleteTask(p)
             \/ PublishTaskFails(p) \/ MarkPostedFails(p)
             \/ CompleteTaskFails(p)
    BY <1>0, <2>2 DEF PublishTask, MarkPosted, CompleteTask,
       PublishTaskFails, MarkPostedFails, CompleteTaskFails, NextTask
  <2> QED
    BY <1>1, <1>3, <2>1, <2>2 DEF PosterStep, PosterFails
<1>4. ASSUME NEW r \in Regens, RegenStep(r) \/ RegenFails(r)
      PROVE  cur'[p].id \notin posted'
  <2>1. r # p /\ UNCHANGED posted /\ pc'[p] = pc[p] /\ cur'[p] = cur[p]
    BY <1>0, <1>4 DEF RegenStep, RegenFails, StartRegenerate, ReadEntry,
       EndRegenerate, Redraft, UpdateTask, UpdateTaskFails, RedraftFails,
       Take, Skip, NextTask
  <2> QED
    BY <1>2, <2>1
<1>5. ASSUME NEW q \in Procs, ReadFails(q) \/ Crash(q)
      PROVE  cur'[p].id \notin posted'
  <2>1. UNCHANGED posted /\ (pc'[p] = "publish" => pc[p] = "publish"
                                                 /\ cur'[p] = cur[p])
    BY <1>0, <1>5 DEF ReadFails, Skip, Crash
  <2> QED
    BY <2>1 DEF PublishIsNew
<1>6. CASE User \/ Tick \/ ForgetKey \/ UNCHANGED vars
  BY <1>6 DEF PublishIsNew, User, Tick, ForgetKey, vars
<1> QED
  BY <1>3, <1>4, <1>5, <1>6 DEF Next

LEMMA PostedStays ==
    ASSUME TypeInv, PublishIsNew, [Next]_vars
    PROVE  \A t \in posted : toots'[t] = toots[t]
<1> USE DEF todoist, mastodon, rest
<1>1. ASSUME NEW p \in Posters, pc[p] = "publish",
             Toot(cur[p].id, cur[p].text)
      PROVE  \A t \in posted : toots'[t] = toots[t]
  BY <1>1 DEF Toot, PublishIsNew, TypeInv, TypeOK
<1>2. ASSUME NEW p \in Posters, PosterStep(p) \/ PosterFails(p)
      PROVE  \A t \in posted : toots'[t] = toots[t]
  BY <1>1, <1>2 DEF PosterStep, PosterFails, StartPublish, ListProject,
     EndPublish, ReadTaskState, EndProject, PublishTask, MarkPosted,
     LinkBack, CompleteTask, ListProjectFails, PublishTaskFails,
     MarkPostedFails, CompleteTaskFails
<1>3. ASSUME NEW r \in Regens, RegenStep(r) \/ RegenFails(r)
      PROVE  UNCHANGED toots
  BY <1>3 DEF RegenStep, RegenFails, StartRegenerate, ReadEntry,
     EndRegenerate, Redraft, UpdateTask, UpdateTaskFails, RedraftFails
<1>4. CASE \/ \E p \in Procs : ReadFails(p) \/ Crash(p)
           \/ User \/ Tick \/ ForgetKey \/ UNCHANGED vars
  BY <1>4 DEF ReadFails, Crash, User, Tick, ForgetKey, vars
<1> QED
  BY <1>2, <1>3, <1>4 DEF Next

(* When passes do not overlap, a recorded task is never posted again, even *)
(* after Mastodon has forgotten its key.                                   *)
THEOREM RecordedNeverRepublished ==
    ASSUME \A p, q \in Posters : p = q PROVE Spec => NeverRepublished
<1>1. Init => PublishIsNew
  BY DEF Init, PublishIsNew, Procs
<1>2. TypeInv /\ PublishIsNew /\ [Next]_vars => PublishIsNew'
  BY NewNext
<1>3. TypeInv /\ PublishIsNew /\ [Next]_vars
        => [\A t \in posted : toots'[t] = toots[t]]_vars
  BY PostedStays
<1> QED
  BY <1>1, <1>2, <1>3, PostAlways, PTL DEF Spec, NeverRepublished
-----------------------------------------------------------------------------
(* A pass that is alone and does not fail records each post before it      *)
(* publishes another one.                                                  *)
PostedOrMark ==
    faults = 0 => \A t \in Tasks :
        /\ Len(toots[t]) <= 1
        /\ toots[t] # <<>> =>
              \/ t \in posted
              \/ \E p \in Posters : pc[p] = "mark" /\ cur[p].id = t

LEMMA OnceInit == Init => PostedOrMark
<1>1. Len(<<>>) <= 1
  OBVIOUS
<1> QED
  BY <1>1 DEF Init, PostedOrMark

LEMMA OnceQuiet ==
    ASSUME PostedOrMark, UNCHANGED toots, posted \subseteq posted',
           faults' = 0 =>
              /\ faults = 0
              /\ \A p \in Posters : pc[p] = "mark" =>
                    \/ pc'[p] = "mark" /\ cur'[p] = cur[p]
                    \/ cur[p].id \in posted'
    PROVE  PostedOrMark'
BY DEF PostedOrMark

LEMMA OncePublish ==
    ASSUME \A p, q \in Posters : p = q, TypeInv, PublishIsNew, PostedOrMark,
           NEW p \in Posters, PublishTask(p)
    PROVE  PostedOrMark'
<1> DEFINE t == cur[p].id
<1>1. /\ pc[p] = "publish" /\ pc'[p] = "mark" /\ cur' = cur
      /\ UNCHANGED <<posted, faults>> /\ Toot(t, cur[p].text)
      /\ toots \in [Tasks -> Seq(Drafts)]
  BY DEF PublishTask, GoTo, rest, TypeInv, TypeOK, Procs
<1>2. t \in Tasks /\ cur[p].text \in Drafts
  <2>1. cur[p] \in Listed
    BY <1>1 DEF TypeInv, LocalsOK, AtTask, Procs
  <2> QED
    BY <2>1 DEF Listed
<1> SUFFICES ASSUME faults' = 0, NEW u \in Tasks
             PROVE  /\ Len(toots'[u]) <= 1
                    /\ toots'[u] # <<>> =>
                          \/ u \in posted'
                          \/ \E q \in Posters : pc'[q] = "mark" /\ cur'[q].id = u
  BY DEF PostedOrMark
<1>3. t \notin posted /\ \A q \in Posters : pc[q] # "mark"
  BY <1>1 DEF PublishIsNew
<1>4. /\ toots[t] = <<>>
      /\ Len(toots[u]) <= 1 /\ (toots[u] # <<>> => u \in posted)
  BY <1>1, <1>2, <1>3 DEF PostedOrMark
<1>5. CASE u = t
  <2>1. Len(Append(toots[t], cur[p].text)) = 1
    BY <1>1, <1>2, <1>4, AppendProperties
  <2> QED
    BY <1>1, <1>2, <1>4, <1>5, <2>1 DEF Toot
<1>6. CASE u # t
  BY <1>1, <1>2, <1>4, <1>6 DEF Toot
<1> QED
  BY <1>5, <1>6

LEMMA OnceNext ==
    ASSUME \A p, q \in Posters : p = q, TypeInv, PublishIsNew, PostedOrMark,
           [Next]_vars
    PROVE  PostedOrMark'
<1> USE ProcAssumption DEF Procs, GoTo, todoist, mastodon, locals, rest, Fault
<1>0. pc \in [Procs -> Steps] /\ DOMAIN cur = Procs /\ faults \in Nat
  BY BoundAssumption DEF TypeInv, TypeOK
<1>1. ASSUME NEW p \in Posters, PublishTask(p) PROVE PostedOrMark'
  BY <1>1, OncePublish
<1>2. ASSUME NEW p \in Posters, MarkPosted(p) PROVE PostedOrMark'
  BY <1>0, <1>2, OnceQuiet DEF MarkPosted
<1>3. ASSUME NEW p \in Posters,
             \/ StartPublish(p) \/ ListProject(p) \/ EndPublish(p)
             \/ ReadTaskState(p) \/ EndProject(p) \/ LinkBack(p)
             \/ CompleteTask(p)
      PROVE  PostedOrMark'
  <2>1. /\ UNCHANGED <<toots, posted>> /\ pc[p] # "mark"
        /\ faults' = 0 => faults = 0
    BY <1>0, <1>3 DEF StartPublish, ListProject, EndPublish, ReadTaskState,
       EndProject, LinkBack, CompleteTask
  <2> QED
    BY <2>1, OnceQuiet
<1>4. ASSUME NEW p \in Posters, PosterFails(p) PROVE PostedOrMark'
  <2>1. faults' # 0
    BY <1>0, <1>4 DEF PosterFails, ListProjectFails, PublishTaskFails,
       MarkPostedFails, CompleteTaskFails
  <2> QED
    BY <2>1 DEF PostedOrMark
<1>5. ASSUME NEW p \in Procs, ReadFails(p) \/ Crash(p) PROVE PostedOrMark'
  <2>1. faults' # 0
    BY <1>0, <1>5 DEF ReadFails, Crash
  <2> QED
    BY <2>1 DEF PostedOrMark
<1>6. ASSUME NEW r \in Regens, RegenStep(r) \/ RegenFails(r)
      PROVE  PostedOrMark'
  <2>1. /\ UNCHANGED <<toots, posted>> /\ (faults' = 0 => faults = 0)
        /\ \A p \in Posters : pc'[p] = pc[p] /\ cur'[p] = cur[p]
    BY <1>0, <1>6 DEF RegenStep, RegenFails, StartRegenerate, ReadEntry,
       EndRegenerate, Redraft, UpdateTask, UpdateTaskFails, RedraftFails,
       Take, Skip, NextTask
  <2> QED
    BY <2>1, OnceQuiet
<1>7. CASE User \/ Tick \/ ForgetKey \/ UNCHANGED vars
  BY <1>7, OnceQuiet DEF User, Tick, ForgetKey, vars
<1> QED
  BY <1>1, <1>2, <1>3, <1>4, <1>5, <1>6, <1>7 DEF Next, PosterStep

(* Without keys to rely on, it still takes a fault or a second pass to     *)
(* post a task twice.                                                      *)
THEOREM DoublePostNeedsFault ==
    ASSUME \A p, q \in Posters : p = q
    PROVE  Spec => [](faults = 0 => PostedOnce)
<1>1. PostedOrMark => (faults = 0 => PostedOnce)
  BY DEF PostedOrMark, PostedOnce
<1>2. Init => PublishIsNew
  BY DEF Init, PublishIsNew, Procs
<1>3. TypeInv /\ PublishIsNew /\ [Next]_vars => PublishIsNew'
  BY NewNext
<1>4. TypeInv /\ PublishIsNew /\ PostedOrMark /\ [Next]_vars => PostedOrMark'
  BY OnceNext
<1> QED
  BY <1>1, <1>2, <1>3, <1>4, TypeInit, TypeNext, OnceInit, PTL DEF Spec
=============================================================================
