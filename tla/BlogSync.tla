------------------------------ MODULE BlogSync ------------------------------
(***************************************************************************)
(* The blog-marketing scheduler of darek: blogmarketing/sync.go over       *)
(* blogmarketing/store.go.  A pass (SyncAll) polls every configured feed   *)
(* in turn.  The first poll of a blog only records its back catalogue; a   *)
(* later post gets a series of NumCells Todoist tasks, one per             *)
(* (platform, cadence) cell, and then one database transaction that        *)
(* records the post and its tasks.                                         *)
(*                                                                         *)
(* The passes run in the `darek serve` loop and, in other processes, as    *)
(* the cron-friendly `darek blog sync`: nothing serialises them, and every *)
(* remote call may fail, lose its answer, or be cut short by a crash.      *)
(*                                                                         *)
(* An entry is its canonical URL; entries whose URL has no canonical form  *)
(* are skipped before any effect (sync.go:111) and are left out.  Draft    *)
(* texts and due dates belong to module BlogPublish.                       *)
(***************************************************************************)
EXTENDS Naturals, Sequences, FiniteSets

CONSTANTS
    Workers,    \* the processes that may run a pass: serve, cron, ...
    Blogs,      \* configured blog_ids
    Runs,       \* the FeedRuns in the order SyncAll visits them
    Urls,       \* canonical URLs of posts
    NumCells,   \* length of a series: AllPlatforms x AllCadences
    MaxFaults,  \* bound on failed calls, lost answers and crashes
    NoUrl

ASSUME RunsAssumption  == Runs \in Seq(Blogs)
ASSUME CellsAssumption == NumCells \in Nat \ {0}
ASSUME FaultAssumption == MaxFaults \in Nat
ASSUME NoUrlAssumption == NoUrl \notin Urls

Cells == 1 .. NumCells

VARIABLES
    (* The world: the feeds as served over HTTP and the Todoist account. *)
    feed,       \* feed[b]: entries currently in blog b's feed
    created,    \* every Todoist task a pass has created
    deleted,    \* ids of the tasks a rollback has deleted
    nextId,     \* Todoist hands out fresh ids
    (* Postgres *)
    posts,      \* blog_posts_scheduled
    taskRows,   \* blog_post_tasks
    (* Process-local state of each pass *)
    pc, runs, firstRun, resolved, pending, cur, refs,
    (* History and fault budget, read by no guard but the budget's *)
    catalog,    \* <<b, u>>: u was in b's feed when b was first polled
    polled,     \* blogs whose feed was listed at least once
    faults

world  == <<feed, created, deleted, nextId>>
db     == <<posts, taskRows>>
locals == <<pc, runs, firstRun, resolved, pending, cur, refs>>
hist   == <<catalog, polled, faults>>
vars   == <<world, db, locals, hist>>

PostRow    == [url : Urls, blog : Blogs, scheduled : BOOLEAN]
TaskRow    == [url : Urls, cell : Cells, id : Nat]
TodoistTask == [id : Nat, url : Urls, cell : Cells]
Steps      == {"idle", "feed", "count", "entry", "mark", "draft", "create",
               "rollback", "save"}

TypeOK ==
    /\ feed \in [Blogs -> SUBSET Urls]
    /\ created \in SUBSET TodoistTask
    /\ deleted \in SUBSET Nat
    /\ nextId \in Nat
    /\ posts \in SUBSET PostRow
    /\ taskRows \in SUBSET TaskRow
    /\ pc \in [Workers -> Steps]
    /\ runs \in [Workers -> Seq(Blogs)]
    /\ firstRun \in [Workers -> BOOLEAN]
    /\ resolved \in [Workers -> BOOLEAN]
    /\ pending \in [Workers -> SUBSET Urls]
    /\ cur \in [Workers -> Urls \cup {NoUrl}]
    /\ refs \in [Workers -> Seq(Nat)]
    /\ \A w \in Workers : Len(refs[w]) <= NumCells
    /\ catalog \in SUBSET (Blogs \X Urls)
    /\ polled \in SUBSET Blogs
    /\ faults \in 0 .. MaxFaults

Init ==
    /\ feed \in [Blogs -> SUBSET Urls]
    /\ created = {} /\ deleted = {} /\ nextId = 1
    /\ posts = {} /\ taskRows = {}
    /\ pc = [w \in Workers |-> "idle"]
    /\ runs = [w \in Workers |-> <<>>]
    /\ firstRun = [w \in Workers |-> FALSE]
    /\ resolved = [w \in Workers |-> FALSE]
    /\ pending = [w \in Workers |-> {}]
    /\ cur = [w \in Workers |-> NoUrl]
    /\ refs = [w \in Workers |-> <<>>]
    /\ catalog = {} /\ polled = {} /\ faults = 0

-----------------------------------------------------------------------------
(* The store's queries. *)

(* Mutant: only rows with a scheduled_at count. *)
IsScheduledNotSeen(u) == \E r \in posts : r.url = u /\ r.scheduled
IsScheduled(u) == \E r \in posts : r.url = u
(* Mutant: the count forgets its WHERE blog_id clause. *)
CountEveryBlog(b) == Cardinality(posts)
Count(b)       == Cardinality({r \in posts : r.blog = b})
TaskIds        == {r.id : r \in taskRows}

(* INSERT ... ON CONFLICT (canonical_url) DO NOTHING *)
InsertPost(u, b, sched) ==
    IF IsScheduled(u) THEN posts
    ELSE posts \cup {[url |-> u, blog |-> b, scheduled |-> sched]}

(* Mutant: the primary key is missing, only todoist_id is unique. *)
TaskIdConflict(u, ids) == \E i \in 1 .. Len(ids) : ids[i] \in TaskIds

(* The primary key (canonical_url, platform, cadence) and the unique index *)
(* on todoist_id: a row that repeats either aborts the transaction.        *)
TaskConflict(u, ids) ==
    \/ \E r \in taskRows : r.url = u /\ r.cell \in 1 .. Len(ids)
    \/ \E i \in 1 .. Len(ids) : ids[i] \in TaskIds

TaskRowsFor(u, ids) ==
    {[url |-> u, cell |-> i, id |-> ids[i]] : i \in 1 .. Len(ids)}

-----------------------------------------------------------------------------
(* Control flow shared by the steps. *)

Blog(w) == Head(runs[w])

Fault == faults < MaxFaults /\ faults' = faults + 1

GoTo(w, step) == pc' = [pc EXCEPT ![w] = step]

(* `continue`: drop the current entry and look at the next one. *)
NextEntry(w) ==
    /\ GoTo(w, "entry")
    /\ pending' = [pending EXCEPT ![w] = @ \ {cur[w]}]
    /\ cur' = [cur EXCEPT ![w] = NoUrl]
    /\ refs' = [refs EXCEPT ![w] = <<>>]
    /\ UNCHANGED <<runs, firstRun>>

(* Return from Sync: SyncAll goes on with the next feed. *)
EndSync(w) ==
    /\ GoTo(w, "feed")
    /\ runs' = [runs EXCEPT ![w] = Tail(@)]
    /\ firstRun' = [firstRun EXCEPT ![w] = FALSE]
    /\ resolved' = [resolved EXCEPT ![w] = FALSE]
    /\ pending' = [pending EXCEPT ![w] = {}]
    /\ cur' = [cur EXCEPT ![w] = NoUrl]
    /\ UNCHANGED refs

-----------------------------------------------------------------------------
(* One action per step of a pass. *)

(* Mutant: the loop stops at the first error instead of waiting a tick. *)
StartPassUntilError(w) ==
    /\ pc[w] = "idle" /\ faults = 0
    /\ GoTo(w, "feed")
    /\ runs' = [runs EXCEPT ![w] = Runs]
    /\ UNCHANGED <<world, db, hist, firstRun, resolved, pending, cur, refs>>

StartPass(w) ==
    /\ pc[w] = "idle"
    /\ GoTo(w, "feed")
    /\ runs' = [runs EXCEPT ![w] = Runs]
    /\ UNCHANGED <<world, db, hist, firstRun, resolved, pending, cur, refs>>

EndPass(w) ==
    /\ pc[w] = "feed" /\ runs[w] = <<>>
    /\ GoTo(w, "idle")
    /\ UNCHANGED <<world, db, hist, runs, firstRun, resolved, pending, cur,
                   refs>>

ListFeed(w) ==
    /\ pc[w] = "feed" /\ runs[w] # <<>>
    /\ GoTo(w, "count")
    /\ pending' = [pending EXCEPT ![w] = feed[Blog(w)]]
    /\ polled' = polled \cup {Blog(w)}
    /\ catalog' = IF Blog(w) \in polled THEN catalog
                  ELSE catalog \cup ({Blog(w)} \X feed[Blog(w)])
    /\ UNCHANGED <<world, db, faults, runs, firstRun, resolved, cur, refs>>

ReadCount(w) ==
    /\ pc[w] = "count"
    /\ firstRun' = [firstRun EXCEPT ![w] = Count(Blog(w)) = 0]
    /\ GoTo(w, "entry")
    /\ UNCHANGED <<world, db, hist, runs, resolved, pending, cur, refs>>

(* The feed, the count or the project lookup fails: Sync returns early and *)
(* the entries it had not reached wait for the next poll.                  *)
AbortSync(w) ==
    /\ \/ pc[w] = "feed" /\ runs[w] # <<>>
       \/ pc[w] = "count"
       \/ pc[w] = "draft" /\ ~resolved[w]
    /\ Fault
    /\ EndSync(w)
    /\ UNCHANGED <<world, db, catalog, polled>>

LookUpEntry(w) ==
    /\ pc[w] = "entry"
    /\ \E u \in pending[w] :
          \/ /\ IsScheduled(u)
             /\ pending' = [pending EXCEPT ![w] = @ \ {u}]
             /\ UNCHANGED <<pc, cur>>
          \/ /\ ~IsScheduled(u)
             /\ cur' = [cur EXCEPT ![w] = u]
             /\ GoTo(w, IF firstRun[w] THEN "mark" ELSE "draft")
             /\ UNCHANGED pending
    /\ UNCHANGED <<world, db, hist, runs, firstRun, resolved, refs>>

LookUpFails(w) ==
    /\ pc[w] = "entry"
    /\ Fault
    /\ \E u \in pending[w] : pending' = [pending EXCEPT ![w] = @ \ {u}]
    /\ UNCHANGED <<world, db, catalog, polled, pc, runs, firstRun, resolved,
                   cur, refs>>

FinishSync(w) ==
    /\ pc[w] = "entry" /\ pending[w] = {}
    /\ EndSync(w)
    /\ UNCHANGED <<world, db, hist>>

MarkSeenOnly(w) ==
    /\ pc[w] = "mark"
    /\ posts' = InsertPost(cur[w], Blog(w), FALSE)
    /\ NextEntry(w)
    /\ UNCHANGED <<world, taskRows, hist, resolved>>

(* MarkSeenOnly or the drafter fails: the entry is retried by a later poll *)
(* but the project stays resolved.                                         *)
EntryFails(w) ==
    /\ pc[w] \in {"mark", "draft"}
    /\ Fault
    /\ resolved' = IF pc[w] = "draft" THEN [resolved EXCEPT ![w] = TRUE]
                   ELSE resolved
    /\ NextEntry(w)
    /\ UNCHANGED <<world, db, catalog, polled>>

(* The project is resolved (once per Sync) and all cells are drafted. *)
Draft(w) ==
    /\ pc[w] = "draft"
    /\ resolved' = [resolved EXCEPT ![w] = TRUE]
    /\ GoTo(w, "create")
    /\ UNCHANGED <<world, db, hist, runs, firstRun, pending, cur, refs>>

(* Mutant: cells are numbered from the wrong end of the append. *)
NewTaskOffByOne(w) ==
    [id |-> nextId, url |-> cur[w], cell |-> Len(refs[w]) + 2]

NewTask(w) == [id |-> nextId, url |-> cur[w], cell |-> Len(refs[w]) + 1]

CreateTask(w) ==
    /\ pc[w] = "create"
    /\ created' = created \cup {NewTask(w)}
    /\ nextId' = nextId + 1
    /\ refs' = [refs EXCEPT ![w] = Append(@, nextId)]
    /\ GoTo(w, IF Len(refs[w]) + 1 = NumCells THEN "save" ELSE "create")
    /\ UNCHANGED <<feed, deleted, db, hist, runs, firstRun, resolved,
                   pending, cur>>

(* Mutant: the error of createSeries is dropped. *)
CreateTaskErrorDropped(w) ==
    /\ pc[w] = "create"
    /\ Fault
    /\ GoTo(w, "save")
    /\ UNCHANGED <<world, db, catalog, polled, runs, firstRun, resolved,
                   pending, cur, refs>>

(* CreateTask returns an error.  Todoist may have created the task all the *)
(* same (a timeout, an answer that does not decode): its id is then lost.  *)
CreateTaskFails(w) ==
    /\ pc[w] = "create"
    /\ Fault
    /\ \/ UNCHANGED <<created, nextId>>
       \/ created' = created \cup {NewTask(w)} /\ nextId' = nextId + 1
    /\ GoTo(w, "rollback")
    /\ UNCHANGED <<feed, deleted, db, catalog, polled, runs, firstRun,
                   resolved, pending, cur, refs>>

(* rollback deletes the tasks one by one, best effort: a delete that fails *)
(* leaves its task in Todoist and the loop goes on.                        *)
RollbackOne(w) ==
    /\ pc[w] = "rollback" /\ refs[w] # <<>>
    /\ \/ deleted' = deleted \cup {Head(refs[w])} /\ UNCHANGED faults
       \/ Fault /\ UNCHANGED deleted
    /\ refs' = [refs EXCEPT ![w] = Tail(@)]
    /\ UNCHANGED <<feed, created, nextId, db, catalog, polled, pc, runs,
                   firstRun, resolved, pending, cur>>

RollbackDone(w) ==
    /\ pc[w] = "rollback" /\ refs[w] = <<>>
    /\ NextEntry(w)
    /\ UNCHANGED <<world, db, hist, resolved>>

(* Mutant: a failed save is rolled back like a failed series. *)
RollBackFailedSave(w) ==
    /\ GoTo(w, "rollback")
    /\ UNCHANGED <<runs, firstRun, pending, cur, refs>>

(* What Sync does when SaveTasks returns an error: nothing is rolled back, *)
(* because the transaction may have been applied.                          *)
AfterFailedSave(w) == NextEntry(w)

(* SaveTasks is one transaction: the parent row unless it exists, then all *)
(* task rows, a conflicting one aborting the whole.                        *)
SaveTasks(w) ==
    /\ pc[w] = "save"
    /\ ~TaskConflict(cur[w], refs[w])
    /\ posts' = InsertPost(cur[w], Blog(w), TRUE)
    /\ taskRows' = taskRows \cup TaskRowsFor(cur[w], refs[w])
    /\ \/ NextEntry(w) /\ UNCHANGED faults
       \/ Fault /\ AfterFailedSave(w)    \* committed, acknowledgement lost
    /\ UNCHANGED <<world, catalog, polled, resolved>>

SaveTasksFails(w) ==
    /\ pc[w] = "save"
    /\ IF TaskConflict(cur[w], refs[w]) THEN UNCHANGED faults ELSE Fault
    /\ AfterFailedSave(w)
    /\ UNCHANGED <<world, db, catalog, polled, resolved>>

(* The process dies; whatever it had in memory is gone. *)
Crash(w) ==
    /\ pc[w] # "idle"
    /\ Fault
    /\ GoTo(w, "idle")
    /\ runs' = [runs EXCEPT ![w] = <<>>]
    /\ firstRun' = [firstRun EXCEPT ![w] = FALSE]
    /\ resolved' = [resolved EXCEPT ![w] = FALSE]
    /\ pending' = [pending EXCEPT ![w] = {}]
    /\ cur' = [cur EXCEPT ![w] = NoUrl]
    /\ refs' = [refs EXCEPT ![w] = <<>>]
    /\ UNCHANGED <<world, db, catalog, polled>>

(* The author publishes a post. *)
PostAppears(b, u) ==
    /\ u \notin feed[b]
    /\ feed' = [feed EXCEPT ![b] = @ \cup {u}]
    /\ UNCHANGED <<created, deleted, nextId, db, locals, hist>>

Step(w) ==
    \/ ListFeed(w) \/ ReadCount(w) \/ LookUpEntry(w) \/ FinishSync(w)
    \/ MarkSeenOnly(w) \/ Draft(w) \/ CreateTask(w) \/ RollbackOne(w)
    \/ RollbackDone(w) \/ SaveTasks(w) \/ EndPass(w) \/ StartPass(w)
    \/ SaveTasksFails(w)

Failure(w) ==
    \/ AbortSync(w) \/ LookUpFails(w) \/ EntryFails(w) \/ CreateTaskFails(w)
    \/ Crash(w)

Next ==
    \/ \E w \in Workers : Step(w) \/ Failure(w)
    \/ \E b \in Blogs, u \in Urls : PostAppears(b, u)

Spec == Init /\ [][Next]_vars

(* runSyncLoop calls SyncAll again at every tick and a pass never waits for *)
(* another one, so every step that stays possible is eventually taken.     *)
FairSpec == Spec /\ \A w \in Workers : WF_vars(Step(w))

-----------------------------------------------------------------------------
(* A recorded series is whole: SaveTasks writes all cells of a post or     *)
(* none, whatever failed and whoever raced it (sync.go:155-168).           *)
SeriesComplete ==
    \A r \in taskRows : \A c \in Cells :
        \E q \in taskRows : q.url = r.url /\ q.cell = c

(* One Todoist task per cell and one cell per task, even when two passes   *)
(* schedule the same post at once (store.go:85-90, the two keys of         *)
(* blog_post_tasks).                                                       *)
OneTaskPerCell ==
    \A r, q \in taskRows :
        (r.id = q.id \/ (r.url = q.url /\ r.cell = q.cell)) => r = q

(* A rollback never deletes a task that the database records: the reason   *)
(* why Sync does not roll back after SaveTasks reports an error            *)
(* (sync.go:161-168), the commit may have gone through.                    *)
RollbackSparesSaved == TaskIds \cap deleted = {}

(* README.md:234: the posts a blog had when it was first polled never get  *)
(* a campaign, whatever other blogs have been polled before.               *)
FirstRunSafety ==
    \A p \in posts : p.scheduled => <<p.blog, p.url>> \notin catalog

(* The same as long as nothing fails: a first poll that runs to its end    *)
(* leaves nothing of the back catalogue to a later one.  Holds for one     *)
(* pass at a time.                                                         *)
FirstRunSafeUnlessFault == faults = 0 => FirstRunSafety

(* When no pass is under way every task that darek created and did not     *)
(* delete is recorded: store.go:85-90 calls the race of two passes         *)
(* "harmless".                                                             *)
Orphans == {t \in created : t.id \notin TaskIds \cup deleted}
NoOrphans == (\A w \in Workers : pc[w] = "idle") => Orphans = {}

(* No Todoist task is created for a post that is already recorded, however *)
(* earlier polls failed or crashed.  Holds for one pass at a time.         *)
NoTaskForRecordedPost ==
    [][\A t \in created' \ created : \A p \in posts : p.url # t.url]_vars

(* Every post of a feed is eventually recorded, as seen or as scheduled:   *)
(* a failed poll is made up for by a later one.                            *)
EveryPostRecorded ==
    \A b \in Blogs, u \in Urls : u \in feed[b] ~> \E p \in posts : p.url = u
=============================================================================
