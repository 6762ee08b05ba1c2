---------------------------- MODULE BlogPublish ----------------------------
(***************************************************************************)
(* The life of a scheduled task once module BlogSync has recorded it: the  *)
(* auto-poster (blogmarketing/publish.go), the draft re-roll               *)
(* (blogmarketing/regenerate.go) and the user, all acting on the same      *)
(* Todoist tasks, on the posted_at column of blog_post_tasks and on a      *)
(* Mastodon account.                                                       *)
(*                                                                         *)
(* Each pass lists tasks once and then acts, task by task, on what it      *)
(* listed.  Passes run in `darek serve` and, in other processes, as        *)
(* `darek blog publish` and `darek blog regenerate`.  A call that fails    *)
(* may or may not have taken effect.  Due dates are fixed; a task that is  *)
(* deleted behaves like one that is closed.                                *)
(***************************************************************************)
EXTENDS Naturals, Sequences, FiniteSets

CONSTANTS
    Posters, Regens,  \* the processes that run Publish and Regenerate
    Tasks,            \* Todoist ids; Todoist lists lower ids first
    Ours,             \* tasks with a row in blog_post_tasks
    AutoPost,             \* those whose (blog, platform) has a Publisher
    Projects,         \* projectIDs, in the order Publish scans them
    ProjectOf,        \* ProjectOf[t]: the project of task t
    DueAt,            \* DueAt[t]: a time or Never
    PageSize,         \* length of the first page of a Todoist listing
    Drafts,           \* texts a task may have
    Labels,           \* labels a task may have
    UserLabels,       \* those that the user adds and removes
    Regenerate,       \* RegenerateLabel
    KeyWindowEnds,    \* whether Mastodon forgets idempotency keys
    MaxTime, MaxEdits, MaxFaults,  \* bounds: clock, user actions, faults
    Never, NoTask

Procs == Posters \cup Regens

ASSUME TaskAssumption    == AutoPost \subseteq Ours /\ Ours \subseteq Tasks
ASSUME IdAssumption      == Tasks \subseteq Nat
ASSUME ProcAssumption    == Posters \cap Regens = {}
ASSUME ProjectAssumption == Len(Projects) \in Nat /\ DOMAIN ProjectOf = Tasks
ASSUME DueAssumption     == DueAt \in [Tasks -> Nat \cup {Never}]
                            /\ Never \notin Nat
ASSUME LabelAssumption   == UserLabels \subseteq Labels
                            /\ Regenerate \in Labels
ASSUME BoundAssumption   == MaxTime \in Nat /\ MaxEdits \in Nat
                            /\ MaxFaults \in Nat
                            /\ KeyWindowEnds \in BOOLEAN

VARIABLES
    (* Todoist *)
    open,       \* tasks that are not completed
    text,       \* text[t]: the content of t
    labels,     \* labels[t]
    linked,     \* tasks whose description ends in "Posted: <url>"
    (* Postgres *)
    posted,     \* tasks whose posted_at is set
    (* Mastodon *)
    toots,      \* toots[t]: the statuses published for t
    keys,       \* tasks whose idempotency key Mastodon remembers
    (* Process-local state of each pass *)
    pc,
    left,       \* projects a Publish pass has still to list
    now,        \* when a Publish pass started
    page,       \* listed tasks not yet dealt with
    cur,        \* the one being dealt with
    draft,      \* text the drafter returned
    (* The clock, the user's and the fault budget, and a history variable *)
    clock, edits, faults,
    closedByUs  \* tasks that a Publish pass has completed

todoist == <<open, text, labels, linked>>
mastodon == <<toots, keys>>
locals  == <<pc, left, now, page, cur, draft>>
rest    == <<clock, edits, faults, closedByUs>>
vars    == <<todoist, posted, mastodon, locals, rest>>

(* What a pass keeps of a listed task. *)
Listed == [id : Tasks, text : Drafts, labels : SUBSET Labels, linked : BOOLEAN]
Steps  == {"idle", "project", "task", "publish", "mark", "link", "complete",
           "draft", "update"}

TypeOK ==
    /\ open \in SUBSET Tasks
    /\ text \in [Tasks -> Drafts]
    /\ labels \in [Tasks -> SUBSET Labels]
    /\ linked \in SUBSET Tasks
    /\ posted \in SUBSET Ours
    /\ toots \in [Tasks -> Seq(Drafts)]
    /\ keys \in SUBSET Tasks
    /\ pc \in [Procs -> Steps]
    /\ left \in [Posters -> 0 .. Len(Projects)]
    /\ now \in [Posters -> 0 .. MaxTime]
    /\ page \in [Procs -> SUBSET Listed]
    /\ cur \in [Procs -> Listed \cup {NoTask}]
    /\ draft \in [Regens -> Drafts \cup {NoTask}]
    /\ clock \in 0 .. MaxTime
    /\ edits \in 0 .. MaxEdits
    /\ faults \in 0 .. MaxFaults
    /\ closedByUs \in SUBSET Tasks

Init ==
    /\ open = Tasks
    /\ text \in [Tasks -> Drafts]
    /\ labels \in [Tasks -> {Labels \ {Regenerate}}]
    /\ linked = {} /\ posted = {}
    /\ toots = [t \in Tasks |-> <<>>] /\ keys = {}
    /\ pc = [p \in Procs |-> "idle"]
    /\ left = [p \in Posters |-> 0]
    /\ now = [p \in Posters |-> 0]
    /\ page = [p \in Procs |-> {}]
    /\ cur = [p \in Procs |-> NoTask]
    /\ draft = [r \in Regens |-> NoTask]
    /\ clock = 0 /\ edits = 0 /\ faults = 0 /\ closedByUs = {}

-----------------------------------------------------------------------------
(* The Todoist client. *)

(* ListTasks asks for one page and never follows next_cursor. *)
FirstPage(S) == {t \in S : Cardinality({u \in S : u < t}) < PageSize}

Listing(S) ==
    {[id |-> t, text |-> text[t], labels |-> labels[t],
      linked |-> t \in linked] : t \in FirstPage(S)}

(* UpdateRequest marshals labels with omitempty: an empty list is not sent *)
(* and leaves the labels of the task alone.                                *)
LabelsSent(t, ls) == IF ls = {} THEN labels[t] ELSE ls

-----------------------------------------------------------------------------
(* Mastodon: a status whose idempotency key is remembered is not published *)
(* again, the first one is returned instead.                               *)
TootUnkeyed(t, content) ==   \* mutant: no Idempotency-Key is sent
    /\ keys' = keys \cup {t}
    /\ toots' = [toots EXCEPT ![t] = Append(@, content)]

Toot(t, content) ==
    /\ keys' = keys \cup {t}
    /\ toots' = IF t \in keys THEN toots
                ELSE [toots EXCEPT ![t] = Append(@, content)]

-----------------------------------------------------------------------------
(* Control flow shared by the steps. *)

Fault == faults < MaxFaults /\ faults' = faults + 1

GoTo(p, step) == pc' = [pc EXCEPT ![p] = step]

(* The task whose turn it is: passes walk the listing in order. *)
IsNext(p, r) == r \in page[p] /\ \A q \in page[p] : r.id <= q.id

(* `continue`: done with the current task. *)
NextTask(p) ==
    /\ GoTo(p, "task")
    /\ page' = [page EXCEPT ![p] = @ \ {cur[p]}]
    /\ cur' = [cur EXCEPT ![p] = NoTask]

Skip(p, r) ==
    /\ page' = [page EXCEPT ![p] = @ \ {r}]
    /\ UNCHANGED <<pc, cur>>

Take(p, r, step) ==
    /\ GoTo(p, step)
    /\ cur' = [cur EXCEPT ![p] = r]
    /\ UNCHANGED page

-----------------------------------------------------------------------------
(* Publish. *)

(* Mutant: `now` is read once, when the server starts. *)
StartPublishNoClock(p) ==
    /\ pc[p] = "idle"
    /\ GoTo(p, "project")
    /\ left' = [left EXCEPT ![p] = Len(Projects)]
    /\ UNCHANGED <<todoist, posted, mastodon, now, page, cur, draft, rest>>

StartPublish(p) ==
    /\ pc[p] = "idle"
    /\ GoTo(p, "project")
    /\ left' = [left EXCEPT ![p] = Len(Projects)]
    /\ now' = [now EXCEPT ![p] = clock]
    /\ UNCHANGED <<todoist, posted, mastodon, page, cur, draft, rest>>

Project(p) == Projects[Len(Projects) - left[p] + 1]

ListProject(p) ==
    /\ pc[p] = "project" /\ left[p] > 0
    /\ GoTo(p, "task")
    /\ page' = [page EXCEPT ![p] =
                  Listing({t \in open : ProjectOf[t] = Project(p)})]
    /\ left' = [left EXCEPT ![p] = @ - 1]
    /\ UNCHANGED <<todoist, posted, mastodon, now, cur, draft, rest>>

EndPublish(p) ==
    /\ pc[p] = "project" /\ left[p] = 0
    /\ GoTo(p, "idle")
    /\ now' = [now EXCEPT ![p] = 0]
    /\ UNCHANGED <<todoist, posted, mastodon, left, page, cur, draft, rest>>

(* A listing that fails ends the pass, whatever projects are left. *)
ListProjectFails(p) ==
    /\ pc[p] = "project" /\ left[p] > 0
    /\ Fault
    /\ GoTo(p, "idle")
    /\ left' = [left EXCEPT ![p] = 0]
    /\ now' = [now EXCEPT ![p] = 0]
    /\ UNCHANGED <<todoist, posted, mastodon, page, cur, draft, clock, edits,
                   closedByUs>>

(* isDue compares with the time at which the pass started. *)
IsDueAhead(p, t) ==   \* mutant: the comparison is off by one
    DueAt[t] # Never /\ DueAt[t] <= now[p] + 1

IsDue(p, t) == DueAt[t] # Never /\ DueAt[t] <= now[p]

Publishable(p, t) == IsDue(p, t) /\ t \in AutoPost

(* Mutant: posted_at is not consulted. *)
ReadTaskStateRepost(p) ==
    /\ pc[p] = "task"
    /\ \E r \in page[p] :
          /\ IsNext(p, r)
          /\ IF r.id \in Ours /\ Publishable(p, r.id)
             THEN Take(p, r, "publish") ELSE Skip(p, r)
    /\ UNCHANGED <<todoist, posted, mastodon, left, now, draft, rest>>

(* Mutant: a task that is already posted is skipped, not completed. *)
ReadTaskStateSkipPosted(p) ==
    /\ pc[p] = "task"
    /\ \E r \in page[p] :
          /\ IsNext(p, r)
          /\ IF r.id \in Ours \ posted /\ Publishable(p, r.id)
             THEN Take(p, r, "publish") ELSE Skip(p, r)
    /\ UNCHANGED <<todoist, posted, mastodon, left, now, draft, rest>>

(* GetTaskState: not ours, already posted, or perhaps to be posted. *)
ReadTaskState(p) ==
    /\ pc[p] = "task"
    /\ \E r \in page[p] :
          /\ IsNext(p, r)
          /\ \/ r.id \notin Ours /\ Skip(p, r)
             \/ r.id \in posted /\ Take(p, r, "complete")
             \/ r.id \in Ours \ posted /\ ~Publishable(p, r.id) /\ Skip(p, r)
             \/ r.id \in Ours \ posted /\ Publishable(p, r.id)
                   /\ Take(p, r, "publish")
    /\ UNCHANGED <<todoist, posted, mastodon, left, now, draft, rest>>

EndProject(p) ==
    /\ pc[p] = "task" /\ page[p] = {}
    /\ GoTo(p, "project")
    /\ UNCHANGED <<todoist, posted, mastodon, left, now, page, cur, draft,
                   rest>>

(* The listed text goes out, under the idempotency key of the task. *)
PublishTask(p) ==
    /\ pc[p] = "publish"
    /\ Toot(cur[p].id, cur[p].text)
    /\ GoTo(p, "mark")
    /\ UNCHANGED <<todoist, posted, left, now, page, cur, draft, rest>>

(* Mutant: the publisher's error is dropped. *)
PublishTaskErrorDropped(p) ==
    /\ pc[p] = "publish"
    /\ Fault
    /\ GoTo(p, "mark")
    /\ UNCHANGED <<todoist, posted, mastodon, left, now, page, cur, draft,
                   clock, edits, closedByUs>>

PublishTaskFails(p) ==
    /\ pc[p] = "publish"
    /\ Fault
    /\ Toot(cur[p].id, cur[p].text) \/ UNCHANGED mastodon
    /\ NextTask(p)
    /\ UNCHANGED <<todoist, posted, left, now, draft, clock, edits,
                   closedByUs>>

MarkPosted(p) ==
    /\ pc[p] = "mark"
    /\ posted' = posted \cup {cur[p].id}
    /\ GoTo(p, "link")
    /\ UNCHANGED <<todoist, mastodon, left, now, page, cur, draft, rest>>

(* Mutant: the task is completed although MarkPosted failed. *)
MarkPostedErrorDropped(p) ==
    /\ pc[p] = "mark"
    /\ Fault
    /\ GoTo(p, "complete")
    /\ UNCHANGED <<todoist, posted, mastodon, left, now, page, cur, draft,
                   clock, edits, closedByUs>>

MarkPostedFails(p) ==
    /\ pc[p] = "mark"
    /\ Fault
    /\ posted' = posted \cup {cur[p].id} \/ UNCHANGED posted
    /\ NextTask(p)
    /\ UNCHANGED <<todoist, mastodon, left, now, draft, clock, edits,
                   closedByUs>>

(* The linkback is cosmetic: its failure is ignored. *)
LinkBack(p) ==
    /\ pc[p] = "link"
    /\ \/ cur[p].linked /\ UNCHANGED <<linked, faults>>
       \/ ~cur[p].linked /\ linked' = linked \cup {cur[p].id}
             /\ UNCHANGED faults
       \/ ~cur[p].linked /\ Fault /\ UNCHANGED linked
    /\ GoTo(p, "complete")
    /\ UNCHANGED <<open, text, labels, posted, mastodon, left, now, page, cur,
                   draft, clock, edits, closedByUs>>

Close(t) ==
    /\ open' = open \ {t}
    /\ closedByUs' = closedByUs \cup {t}

CompleteTask(p) ==
    /\ pc[p] = "complete"
    /\ Close(cur[p].id)
    /\ NextTask(p)
    /\ UNCHANGED <<text, labels, linked, posted, mastodon, left, now, draft,
                   clock, edits, faults>>

CompleteTaskFails(p) ==
    /\ pc[p] = "complete"
    /\ Fault
    /\ Close(cur[p].id) \/ UNCHANGED <<open, closedByUs>>
    /\ NextTask(p)
    /\ UNCHANGED <<text, labels, linked, posted, mastodon, left, now, draft,
                   clock, edits>>

-----------------------------------------------------------------------------
(* Regenerate. *)

StartRegenerate(r) ==
    /\ pc[r] = "idle"
    /\ GoTo(r, "task")
    /\ page' = [page EXCEPT ![r] =
                  Listing({t \in open : Regenerate \in labels[t]})]
    /\ UNCHANGED <<todoist, posted, mastodon, left, now, cur, draft, rest>>

(* Mutant: any task with the label is re-rolled. *)
ReadEntryOfAnyTask(r) ==
    /\ pc[r] = "task"
    /\ \E q \in page[r] : IsNext(r, q) /\ Take(r, q, "draft")
    /\ UNCHANGED <<todoist, posted, mastodon, left, now, draft, rest>>

(* GetTaskState and GetEntry: the task is ours and its entry is known. *)
ReadEntry(r) ==
    /\ pc[r] = "task"
    /\ \E q \in page[r] :
          /\ IsNext(r, q)
          /\ IF q.id \in Ours THEN Take(r, q, "draft") ELSE Skip(r, q)
    /\ UNCHANGED <<todoist, posted, mastodon, left, now, draft, rest>>

EndRegenerate(r) ==
    /\ pc[r] = "task" /\ page[r] = {}
    /\ GoTo(r, "idle")
    /\ UNCHANGED <<todoist, posted, mastodon, left, now, page, cur, draft,
                   rest>>

(* Mutant: a cell that the drafter left empty is accepted. *)
RedraftEmptyCell(r) ==
    /\ pc[r] = "draft"
    /\ \E d \in Drafts \cup {NoTask} : draft' = [draft EXCEPT ![r] = d]
    /\ GoTo(r, "update")
    /\ UNCHANGED <<todoist, posted, mastodon, left, now, page, cur, rest>>

(* The LLM call: it takes long and may return any text. *)
Redraft(r) ==
    /\ pc[r] = "draft"
    /\ \E d \in Drafts : draft' = [draft EXCEPT ![r] = d]
    /\ GoTo(r, "update")
    /\ UNCHANGED <<todoist, posted, mastodon, left, now, page, cur, rest>>

(* Mutant: only the text is updated. *)
RewriteText(r) ==
    /\ text' = [text EXCEPT ![cur[r].id] = draft[r]]
    /\ UNCHANGED labels

(* One PATCH: the new text, and the labels as listed minus `regenerate`. *)
Rewrite(r) ==
    LET t == cur[r].id IN
    /\ text' = [text EXCEPT ![t] = draft[r]]
    /\ labels' = [labels EXCEPT ![t] =
                    LabelsSent(t, cur[r].labels \ {Regenerate})]

UpdateTask(r) ==
    /\ pc[r] = "update"
    /\ Rewrite(r)
    /\ draft' = [draft EXCEPT ![r] = NoTask]
    /\ NextTask(r)
    /\ UNCHANGED <<open, linked, posted, mastodon, left, now, rest>>

UpdateTaskFails(r) ==
    /\ pc[r] = "update"
    /\ Fault
    /\ Rewrite(r) \/ UNCHANGED <<text, labels>>
    /\ draft' = [draft EXCEPT ![r] = NoTask]
    /\ NextTask(r)
    /\ UNCHANGED <<open, linked, posted, mastodon, left, now, clock, edits,
                   closedByUs>>

(* The drafter fails, or returns no text for the cell of the task. *)
RedraftFails(r) ==
    /\ pc[r] = "draft"
    /\ Fault
    /\ NextTask(r)
    /\ UNCHANGED <<todoist, posted, mastodon, left, now, draft, clock, edits,
                   closedByUs>>

-----------------------------------------------------------------------------
(* GetTaskState or GetEntry fails: the task waits for the next pass. *)
ReadFails(p) ==
    /\ pc[p] = "task"
    /\ Fault
    /\ \E r \in page[p] : IsNext(p, r) /\ Skip(p, r)
    /\ UNCHANGED <<todoist, posted, mastodon, left, now, draft, clock, edits,
                   closedByUs>>

(* The process dies; whatever it had in memory is gone. *)
Crash(p) ==
    /\ pc[p] # "idle"
    /\ Fault
    /\ GoTo(p, "idle")
    /\ page' = [page EXCEPT ![p] = {}]
    /\ cur' = [cur EXCEPT ![p] = NoTask]
    /\ left' = [q \in Posters |-> IF q = p THEN 0 ELSE left[q]]
    /\ now' = [q \in Posters |-> IF q = p THEN 0 ELSE now[q]]
    /\ draft' = [q \in Regens |-> IF q = p THEN NoTask ELSE draft[q]]
    /\ UNCHANGED <<todoist, posted, mastodon, clock, edits, closedByUs>>

-----------------------------------------------------------------------------
(* The environment: the user in Todoist, the clock, and Mastodon's window. *)

Edit == edits < MaxEdits /\ edits' = edits + 1

UserRelabels(t) ==
    /\ Edit
    /\ \E l \in UserLabels :
          labels' = [labels EXCEPT ![t] = IF l \in @ THEN @ \ {l}
                                          ELSE @ \cup {l}]
    /\ UNCHANGED <<open, text, linked>>

UserRewrites(t) ==
    /\ Edit
    /\ \E d \in Drafts : text' = [text EXCEPT ![t] = d]
    /\ UNCHANGED <<open, labels, linked>>

UserCloses(t) ==
    /\ Edit
    /\ open' = open \ {t}
    /\ UNCHANGED <<text, labels, linked>>

User ==
    /\ \E t \in open : UserRelabels(t) \/ UserRewrites(t) \/ UserCloses(t)
    /\ UNCHANGED <<posted, mastodon, locals, clock, faults, closedByUs>>

Tick ==
    /\ clock < MaxTime
    /\ clock' = clock + 1
    /\ UNCHANGED <<todoist, posted, mastodon, locals, edits, faults,
                   closedByUs>>

ForgetKey ==
    /\ KeyWindowEnds
    /\ \E t \in keys : keys' = keys \ {t}
    /\ UNCHANGED <<todoist, posted, toots, locals, rest>>

-----------------------------------------------------------------------------
PosterStep(p) ==
    \/ StartPublish(p) \/ ListProject(p) \/ EndPublish(p) \/ ReadTaskState(p)
    \/ EndProject(p) \/ PublishTask(p) \/ MarkPosted(p) \/ LinkBack(p)
    \/ CompleteTask(p)

PosterFails(p) ==
    \/ ListProjectFails(p) \/ PublishTaskFails(p) \/ MarkPostedFails(p)
    \/ CompleteTaskFails(p)

RegenStep(r) ==
    \/ StartRegenerate(r) \/ ReadEntry(r) \/ EndRegenerate(r) \/ Redraft(r)
    \/ UpdateTask(r)

RegenFails(r) == UpdateTaskFails(r) \/ RedraftFails(r)

Next ==
    \/ \E p \in Posters : PosterStep(p) \/ PosterFails(p)
    \/ \E r \in Regens : RegenStep(r) \/ RegenFails(r)
    \/ \E p \in Procs : ReadFails(p) \/ Crash(p)
    \/ User \/ Tick \/ ForgetKey

Spec == Init /\ [][Next]_vars

(* The tickers of runSyncLoop start a pass again and again, a pass waits   *)
(* for nobody, and time passes.  The user owes nothing.                    *)
FairSpec ==
    /\ Spec
    /\ \A p \in Posters : WF_vars(PosterStep(p))
    /\ \A r \in Regens : WF_vars(RegenStep(r))
    /\ WF_vars(Tick)

-----------------------------------------------------------------------------
(* The promise of module PostOnce, kept by any number of posters as long   *)
(* as Mastodon remembers the keys.                                         *)
Promise == INSTANCE PostOnce WITH
    posts <- [t \in Tasks |-> Len(toots[t])],
    recorded <- posted,
    done <- closedByUs
KeepsPromise == Promise!Spec

(* A task is posted at most once, however passes overlap, fail or crash    *)
(* (README.md:270): the idempotency key is what makes it so.               *)
PostedOnce == \A t \in Tasks : Len(toots[t]) <= 1

(* posted_at is only ever set for a task that is on Mastodon, so that a    *)
(* failed or uncertain publish is retried (publish.go:187-200).            *)
RecordedIsPosted == \A t \in posted : toots[t] # <<>>

(* The poster completes no task whose post is not recorded: MarkPosted     *)
(* comes before CompleteTask (publish.go:195-216).                         *)
ClosedIsRecorded == closedByUs \subseteq posted

(* Once recorded a task is never posted again, even when Mastodon has      *)
(* forgotten its key (publish.go:163-172).  Holds for one poster at a time.*)
NeverRepublished == [][\A t \in posted : toots'[t] = toots[t]]_vars

(* Tasks that darek did not create, or that are not due or have no         *)
(* publisher, are never posted (publish.go:154-185).                       *)
OnlyDueTasksPosted ==
    \A t \in Tasks : toots[t] # <<>> => t \in AutoPost /\ DueAt[t] <= clock

(* Tasks that darek did not create are left alone, labelled or not: only   *)
(* the user changes or closes them (publish.go:154-157,                    *)
(* regenerate.go:96-100).                                                  *)
OthersLeftAlone ==
    [][edits' = edits =>
         \A t \in Tasks \ Ours :
             /\ text'[t] = text[t] /\ labels'[t] = labels[t]
             /\ (t \in open' <=> t \in open)
             /\ (t \in linked' <=> t \in linked)]_vars

(* A task that was posted is eventually closed: the next tick retries      *)
(* CompleteTask (publish.go:163-172).                                      *)
PostedIsClosed == \A t \in Tasks : t \in posted ~> t \notin open

(* README.md:247: when the due time of a task with a publisher passes, the *)
(* task is published, unless the user closes it first.                     *)
DueIsPosted ==
    \A t \in AutoPost :
        (DueAt[t] # Never /\ DueAt[t] <= clock)
            ~> (t \in posted \/ t \notin open)

(* README.md:274: the regenerate label of one of our open tasks is         *)
(* eventually stripped.                                                    *)
LabelIsStripped ==
    \A t \in Ours :
        Regenerate \in labels[t]
            ~> (Regenerate \notin labels[t] \/ t \notin open)
=============================================================================
