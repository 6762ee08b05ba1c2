----------------------------- MODULE LinkLibrary -----------------------------
(***************************************************************************)
(* The link library of darek and everything that writes to it: the two     *)
(* importers (todoistimport/sync.go, freshrssimport/sync.go), the web      *)
(* handlers and the chat tool links.save, through links/ingest.go and      *)
(* links/store.go.                                                         *)
(*                                                                         *)
(* An importer lists the open items of its source, and a pool of workers   *)
(* takes each through: look up its canonical URL, Save (a SELECT and then  *)
(* an INSERT or UPDATE in one transaction), merge the labels, close the    *)
(* item at its source, and analyse it if it is a new video.  The loops of  *)
(* serve, the sync button and cron run the same code with nothing between  *)
(* them but the database.  A web or chat request goes through the same     *)
(* steps for one item of its own.                                          *)
(*                                                                         *)
(* Abstracted: an item stands for its canonical URL and labels; titles,    *)
(* feeds and summaries are left out.  Nothing ever deletes a row: no code  *)
(* calls Store.Delete.  FreshRSS listings of more than 1000 articles and   *)
(* Todoist inboxes of more than one page are left out.                     *)
(***************************************************************************)
EXTENDS Naturals, FiniteSets

CONSTANTS
    Passes,      \* importer passes that may overlap, and the web and chat
    SourceOfPass,
    Items,       \* inbox tasks, unread articles, and requests of the user
    SourceOf,    \* "todoist", "freshrss", "form" or "tool", for each item
    Urls,        \* canonical URLs
    UrlOf,       \* the URL of each item, NoUrl if it has none
    NoUrl,
    Video,       \* URLs the classifier calls a video
    Tags,
    Labels,      \* labels of each item, or tags of a request
    AiTags,      \* tags the model may suggest
    Concurrency, \* workers of a pass
    MaxStars,    \* ratings are 1 .. MaxStars; 5 in the code
    Limit,       \* links on a page; 100 in the code
    MaxEdits,    \* bound on edits of the user
    MaxFaults    \* bound on failed calls, expired sessions and crashes

Imported == {"todoist", "freshrss"}
Requests == {"form", "tool"}
Sources  == Imported \cup Requests

ASSUME SourceAssumption ==
    /\ SourceOf \in [Items -> Sources]
    /\ SourceOfPass \in [Passes -> Imported \cup {"user"}]
ASSUME ItemAssumption ==
    /\ NoUrl \notin Urls
    /\ UrlOf \in [Items -> Urls \cup {NoUrl}]
    /\ \A i \in Items : SourceOf[i] \in Requests => UrlOf[i] # NoUrl
    /\ Labels \in [Items -> SUBSET Tags]
    /\ \A i \in Items : SourceOf[i] = "freshrss" => Labels[i] = {}
    /\ Video \subseteq Urls /\ AiTags \subseteq Tags
ASSUME BoundAssumption ==
    /\ Concurrency \in Nat \ {0} /\ MaxStars \in Nat /\ Limit \in Nat
    /\ MaxEdits \in Nat /\ MaxFaults \in Nat

VARIABLES
    (* Postgres: the table links *)
    rows,      \* URLs that have a row
    source,    \* who inserted the row
    rating,    \* 0 is NULL
    tags, notes,
    kindBy,    \* who set the kind last
    analyzed,  \* rows whose analyzed_at is set
    (* Todoist and FreshRSS *)
    open,      \* tasks and articles not closed, requests not yet made
    sid,       \* the session id the FreshRSS client has cached
    (* Process-local state of the passes and of their workers *)
    running, todo,
    at, isNew, found,
    (* Requests in flight *)
    click,     \* a click on a star: <<url, star, rating read>>
    analyses,  \* rows being analysed on request
    (* History and budgets, read by no guard but those of the budgets *)
    handed,    \* items whose row has had their labels
    closed,    \* items darek has closed
    edits, faults

db     == <<rows, source, rating, tags, notes, kindBy, analyzed>>
remote == <<open, sid>>
pool   == <<running, todo>>
work   == <<at, isNew, found>>
web    == <<click, analyses>>
hist   == <<handed, closed>>
budget == <<edits, faults>>
vars   == <<db, remote, pool, work, web, hist, budget>>

Steps == {"none", "lookup", "select", "write", "labels", "resave", "token",
          "close", "analyze", "apply"}
NoClick == <<NoUrl, 0, 0>>
Ratings == 0 .. MaxStars

Serves(p, i) == IF SourceOfPass[p] = "user" THEN SourceOf[i] \in Requests
                ELSE SourceOf[i] = SourceOfPass[p]
Work    == {w \in Passes \X Items : Serves(w[1], w[2])}
Item(w) == w[2]
Url(w)  == UrlOf[w[2]]
Busy(p) == {w \in Work : w[1] = p /\ at[w] # "none"}

TypeOK ==
    /\ rows \in SUBSET Urls
    /\ source \in [Urls -> Sources \cup {"none"}]
    /\ rating \in [Urls -> Ratings]
    /\ tags \in [Urls -> SUBSET Tags]
    /\ notes \in [Urls -> BOOLEAN]
    /\ kindBy \in [Urls -> {"classifier", "user"}]
    /\ analyzed \in SUBSET rows
    /\ open \in SUBSET Items
    /\ sid \in {"none", "valid", "expired"}
    /\ running \in SUBSET Passes
    /\ todo \in [Passes -> SUBSET Items]
    /\ at \in [Work -> Steps]
    /\ isNew \in [Work -> BOOLEAN]
    /\ found \in [Work -> BOOLEAN]
    /\ click \in (Urls \cup {NoUrl}) \X Ratings \X Ratings
    /\ analyses \in SUBSET rows
    /\ handed \in SUBSET Items /\ closed \in SUBSET Items
    /\ edits \in 0 .. MaxEdits /\ faults \in 0 .. MaxFaults

Init ==
    /\ rows = {} /\ analyzed = {}
    /\ source = [u \in Urls |-> "none"]
    /\ rating = [u \in Urls |-> 0]
    /\ tags = [u \in Urls |-> {}]
    /\ notes = [u \in Urls |-> FALSE]
    /\ kindBy = [u \in Urls |-> "classifier"]
    /\ open = Items /\ sid = "none"
    /\ running = {} /\ todo = [p \in Passes |-> {}]
    /\ at = [w \in Work |-> "none"]
    /\ isNew = [w \in Work |-> FALSE]
    /\ found = [w \in Work |-> FALSE]
    /\ click = NoClick /\ analyses = {}
    /\ handed = {} /\ closed = {}
    /\ edits = 0 /\ faults = 0

-----------------------------------------------------------------------------
(* Statements on one row. *)

Has(i) == UrlOf[i] \in rows /\ Labels[i] \subseteq tags[UrlOf[i]]

(* The items whose row has their labels after a write are handed over. *)
Observe == handed' = handed \cup {i \in Items : Has(i)'}

MergeTags(u, ts) == tags' = [tags EXCEPT ![u] = @ \cup ts]

(* Save, the INSERT: no rating, notes or tags come from IngestOne. *)
Insert(u, s) ==
    /\ rows' = rows \cup {u}
    /\ source' = [source EXCEPT ![u] = s]
    /\ UNCHANGED <<rating, tags, notes, kindBy, analyzed>>

(* Mutant: the UPDATE writes every column. *)
UpdateAll(u) ==
    /\ kindBy' = [kindBy EXCEPT ![u] = "classifier"]
    /\ rating' = [rating EXCEPT ![u] = 0]
    /\ UNCHANGED <<rows, source, tags, notes, analyzed>>

(* Save, the UPDATE: empty fields leave the row alone, but IngestOne always *)
(* passes a kind, which replaces one the user has chosen.                   *)
Update(u) ==
    /\ kindBy' = [kindBy EXCEPT ![u] = "classifier"]
    /\ UNCHANGED <<rows, source, rating, tags, notes, analyzed>>

-----------------------------------------------------------------------------
(* One importer pass. *)

GoTo(w, step) == at' = [at EXCEPT ![w] = step]

(* The locals of a worker go out of scope. *)
Leave(w) ==
    /\ GoTo(w, "none")
    /\ isNew' = [isNew EXCEPT ![w] = FALSE]
    /\ found' = [found EXCEPT ![w] = FALSE]

(* Mutant: a request that is refused is retried with the old session. *)
AuthedStale == IF sid = "none" THEN "valid" ELSE sid

(* authedDo: log in when there is no session, and once more when the       *)
(* server refuses it.                                                      *)
Authed == "valid"

(* Client.List with the filter for what is unread, and ListInboxTasks.     *)
Listed(s) == {i \in open : SourceOf[i] = s}

(* Both importers list what is open at the start of a pass.  A pass over   *)
(* an empty list has no effect and is left out.                            *)
StartPass(p) ==
    LET s == SourceOfPass[p] IN
    /\ p \notin running /\ s \in Imported /\ Listed(s) # {}
    /\ running' = running \cup {p}
    /\ todo' = [todo EXCEPT ![p] = Listed(s)]
    /\ sid' = IF s = "freshrss" THEN Authed ELSE sid
    /\ UNCHANGED <<db, open, work, web, hist, budget>>

(* errgroup with SetLimit: an item starts when a worker is free; an item   *)
(* without a URL is skipped.                                               *)
TakeItem(w) ==
    /\ w[1] \in running /\ Item(w) \in todo[w[1]]
    /\ Cardinality(Busy(w[1])) < Concurrency
    /\ todo' = [todo EXCEPT ![w[1]] = @ \ {Item(w)}]
    /\ at' = IF Url(w) = NoUrl THEN at ELSE [at EXCEPT ![w] = "lookup"]
    /\ UNCHANGED <<db, remote, running, isNew, found, web, hist, budget>>

(* g.Wait returns once the last worker is done. *)
EndPass(p) ==
    /\ p \in running /\ todo[p] = {} /\ Busy(p) = {}
    /\ running' = running \ {p}
    /\ UNCHANGED <<db, remote, todo, work, web, hist, budget>>

(* A web or chat request begins. *)
Request(w) ==
    /\ SourceOf[Item(w)] \in Requests /\ Item(w) \in open
    /\ open' = open \ {Item(w)}
    /\ GoTo(w, "lookup")
    /\ UNCHANGED <<db, sid, pool, isNew, found, web, hist, budget>>

-----------------------------------------------------------------------------
(* The steps of a worker. *)

(* Mutant: the existence check comes after the row was saved. *)
LookUpTooLate(w) ==
    /\ at[w] = "lookup"
    /\ GoTo(w, "select")
    /\ UNCHANGED <<db, remote, pool, isNew, found, web, hist, budget>>

(* IngestOne: is there a row for the canonical URL? *)
LookUp(w) ==
    /\ at[w] = "lookup"
    /\ isNew' = [isNew EXCEPT ![w] = Url(w) \notin rows]
    /\ GoTo(w, "select")
    /\ UNCHANGED <<db, remote, pool, found, web, hist, budget>>

(* Save begins a transaction and asks again. *)
SaveSelect(w) ==
    /\ at[w] = "select"
    /\ found' = [found EXCEPT ![w] = Url(w) \in rows]
    /\ GoTo(w, "write")
    /\ UNCHANGED <<db, remote, pool, isNew, web, hist, budget>>

AfterSave(w) == CASE SourceOf[Item(w)] = "freshrss" -> "token"
                  [] SourceOf[Item(w)] = "tool"     -> "resave"
                  [] OTHER                          -> "labels"

(* Save writes and commits.  An INSERT that meets a row committed since    *)
(* violates the unique index on url: the item fails and stays open.        *)
SaveWrite(w) ==
    /\ at[w] = "write"
    /\ \/ /\ found[w] \/ Url(w) \notin rows
          /\ IF found[w] THEN Update(Url(w))
             ELSE Insert(Url(w), SourceOf[Item(w)])
          /\ GoTo(w, AfterSave(w))
          /\ found' = [found EXCEPT ![w] = FALSE]
          /\ UNCHANGED isNew
       \/ /\ ~found[w] /\ Url(w) \in rows
          /\ Leave(w)
          /\ UNCHANGED db
    /\ UNCHANGED <<remote, pool, web, closed, budget>>
    /\ Observe

(* processTask and handleNew: merge the labels, if there are any; the form *)
(* may bring notes with it.                                                *)
MergeLabels(w) ==
    /\ at[w] = "labels"
    /\ MergeTags(Url(w), Labels[Item(w)])
    /\ IF SourceOf[Item(w)] = "todoist"
       THEN /\ GoTo(w, "close")
            /\ UNCHANGED <<notes, isNew, found>>
       ELSE /\ Leave(w)
            /\ \E given \in BOOLEAN :
                  notes' = [notes EXCEPT ![Url(w)] = @ \/ given]
    /\ UNCHANGED <<rows, source, rating, kindBy, analyzed, remote, pool, web,
                   closed, budget>>
    /\ Observe

(* SaveTool saves a second time, with what the model gives it: a rating    *)
(* and notes, or neither, and tags to merge or to replace the others.  The *)
(* row is there, so this is the UPDATE.                                    *)
ResaveTool(w) ==
    /\ at[w] = "resave"
    /\ Leave(w)
    /\ \/ UNCHANGED <<rating, notes>>
       \/ /\ \E stars \in 1 .. MaxStars :
                rating' = [rating EXCEPT ![Url(w)] = stars]
          /\ notes' = [notes EXCEPT ![Url(w)] = TRUE]
    /\ \E replace \in BOOLEAN : tags' =
          IF replace /\ Labels[Item(w)] # {}
          THEN [tags EXCEPT ![Url(w)] = Labels[Item(w)]]
          ELSE [tags EXCEPT ![Url(w)] = @ \cup Labels[Item(w)]]
    /\ UNCHANGED <<rows, source, kindBy, analyzed, remote, pool, web, closed,
                   budget>>
    /\ Observe

(* freshrss.Client.Mark asks for an edit token first. *)
EditToken(w) ==
    /\ at[w] = "token"
    /\ GoTo(w, "close") /\ sid' = Authed
    /\ UNCHANGED <<db, open, pool, isNew, found, web, hist, budget>>

(* What follows the attempt to close the item, successful or not. *)
AfterClose(w) ==
    IF isNew[w] /\ Url(w) \in Video
    THEN GoTo(w, "analyze") /\ UNCHANGED <<isNew, found>>
    ELSE Leave(w)

(* CompleteTask, or Mark read.  A POST that FreshRSS refuses because the   *)
(* session has expired is repeated without its body and fails.             *)
Close(w) ==
    /\ at[w] = "close"
    /\ AfterClose(w)
    /\ IF SourceOf[Item(w)] = "freshrss" /\ sid # "valid"
       THEN sid' = Authed /\ UNCHANGED <<open, closed>>
       ELSE /\ open' = open \ {Item(w)}
            /\ closed' = closed \cup {Item(w)}
            /\ UNCHANGED sid
    /\ UNCHANGED <<db, handed, pool, web, budget>>

(* buildVideoAutoAnalyze: transcript and model, then ApplyAnalysis. *)
Analyze(w) ==
    /\ at[w] = "analyze"
    /\ GoTo(w, "apply")
    /\ UNCHANGED <<db, remote, pool, isNew, found, web, hist, budget>>

ApplyAnalysis(u) ==
    /\ analyzed' = analyzed \cup {u}
    /\ \E ts \in SUBSET AiTags : MergeTags(u, ts)
    /\ UNCHANGED <<rows, source, rating, notes, kindBy>>

Apply(w) ==
    /\ at[w] = "apply"
    /\ ApplyAnalysis(Url(w))
    /\ Leave(w)
    /\ UNCHANGED <<remote, pool, web, closed, budget>>
    /\ Observe

Advance(w) == LookUp(w) \/ SaveSelect(w) \/ SaveWrite(w) \/ MergeLabels(w)
              \/ ResaveTool(w) \/ EditToken(w) \/ Close(w) \/ Analyze(w)
              \/ Apply(w)

-----------------------------------------------------------------------------
(* Failures. *)

Fault == faults < MaxFaults /\ faults' = faults + 1 /\ UNCHANGED edits

(* Mutant: an item whose ingestion failed is closed nevertheless. *)
ItemFailsButCloses(w) ==
    /\ Fault
    /\ at[w] \notin {"none", "token", "close"}
    /\ GoTo(w, "close")
    /\ UNCHANGED <<db, remote, pool, isNew, found, web, hist>>

(* A call of the ingestion or of the analysis fails: the worker is done    *)
(* with the item.                                                          *)
ItemFails(w) ==
    /\ Fault
    /\ at[w] \notin {"none", "token", "close"}
    /\ Leave(w)
    /\ UNCHANGED <<db, remote, pool, web, hist>>

(* Closing fails, after taking effect or not; the worker goes on. *)
CloseFails(w) ==
    /\ Fault
    /\ at[w] \in {"token", "close"}
    /\ AfterClose(w)
    /\ \/ UNCHANGED <<open, closed>>
       \/ /\ at[w] = "close"
          /\ open' = open \ {Item(w)} /\ closed' = closed \cup {Item(w)}
    /\ UNCHANGED <<db, handed, sid, pool, web>>

(* The process of a pass dies, or the request of the sync button is        *)
(* cancelled.                                                              *)
Crash(p) ==
    /\ Fault
    /\ p \in running
    /\ running' = running \ {p}
    /\ todo' = [todo EXCEPT ![p] = {}]
    /\ at' = [w \in Work |-> IF w[1] = p THEN "none" ELSE at[w]]
    /\ isNew' = [w \in Work |-> w[1] # p /\ isNew[w]]
    /\ found' = [w \in Work |-> w[1] # p /\ found[w]]
    /\ UNCHANGED <<db, remote, web, hist>>

ExpireSession ==
    /\ Fault
    /\ sid = "valid" /\ sid' = "expired"
    /\ UNCHANGED <<db, open, pool, work, web, hist>>

-----------------------------------------------------------------------------
(* The user in the web UI. *)

Edit == edits < MaxEdits /\ edits' = edits + 1 /\ UNCHANGED faults

(* handleRating reads the row ... *)
ClickStar(u, star) ==
    /\ Edit
    /\ u \in rows /\ click = NoClick
    /\ click' = <<u, star, rating[u]>>
    /\ UNCHANGED <<db, remote, pool, work, analyses, hist>>

(* Mutant: stars are counted from 0. *)
SetRatingFromZero ==
    /\ click # NoClick
    /\ rating' = [rating EXCEPT ![click[1]] =
                     IF click[2] = click[3] THEN 0 ELSE click[2] + 1]
    /\ click' = NoClick
    /\ UNCHANGED <<rows, source, tags, notes, kindBy, analyzed, remote, pool,
                   work, analyses, hist, budget>>

(* ... and sets the rating, or clears it if it was the one read. *)
SetRating ==
    /\ click # NoClick
    /\ rating' = [rating EXCEPT ![click[1]] =
                     IF click[2] = click[3] THEN 0 ELSE click[2]]
    /\ click' = NoClick
    /\ UNCHANGED <<rows, source, tags, notes, kindBy, analyzed, remote, pool,
                   work, analyses, hist, budget>>

(* handleTags: add or remove. *)
EditTags(u, t) ==
    /\ Edit
    /\ u \in rows
    /\ \E ts \in {tags[u] \cup {t}, tags[u] \ {t}} :
          tags' = [tags EXCEPT ![u] = ts]
    /\ UNCHANGED <<rows, source, rating, notes, kindBy, analyzed, remote,
                   pool, work, web, closed>>
    /\ Observe

(* handleNotes: set or clear. *)
EditNotes(u) ==
    /\ Edit
    /\ u \in rows
    /\ notes' = [notes EXCEPT ![u] = ~@]
    /\ UNCHANGED <<rows, source, rating, tags, kindBy, analyzed, remote, pool,
                   work, web, hist>>

(* handleKind. *)
ChooseKind(u) ==
    /\ Edit
    /\ u \in rows
    /\ kindBy' = [kindBy EXCEPT ![u] = "user"]
    /\ UNCHANGED <<rows, source, rating, tags, notes, analyzed, remote, pool,
                   work, web, hist>>

(* handleAnalyze reads the row and asks the model ... *)
AskAnalysis(u) ==
    /\ Edit
    /\ u \in rows \ analyses
    /\ analyses' = analyses \cup {u}
    /\ UNCHANGED <<db, remote, pool, work, click, hist>>

(* ... which answers, or fails. *)
AnalysisAnswered(u) ==
    /\ u \in analyses
    /\ analyses' = analyses \ {u}
    /\ \/ ApplyAnalysis(u)
       \/ UNCHANGED db
    /\ UNCHANGED <<remote, pool, work, click, closed, budget>>
    /\ Observe

(* freshrss.mark in the chat, with a session of its own: the user may have *)
(* an article marked read before it is imported, or unread after that.     *)
MarkArticle(i) ==
    /\ Edit
    /\ SourceOf[i] = "freshrss"
    /\ open' \in {open \ {i}, open \cup {i}}
    /\ UNCHANGED <<db, sid, pool, work, web, hist>>

(* todoist.complete_task in the chat. *)
CompleteTask(i) ==
    /\ Edit
    /\ SourceOf[i] = "todoist"
    /\ open' = open \ {i}
    /\ UNCHANGED <<db, sid, pool, work, web, hist>>

User == \/ \E i \in Items : MarkArticle(i) \/ CompleteTask(i)
        \/ \E u \in Urls : \/ \E star \in 1 .. MaxStars : ClickStar(u, star)
                           \/ \E t \in Tags : EditTags(u, t)
                           \/ EditNotes(u) \/ ChooseKind(u)
                           \/ AskAnalysis(u) \/ AnalysisAnswered(u)
        \/ SetRating
        \/ \E w \in Work : Request(w)

Importer == \/ \E p \in Passes : StartPass(p) \/ EndPass(p)
            \/ \E w \in Work : TakeItem(w) \/ Advance(w)

Failure == \/ \E w \in Work : ItemFails(w) \/ CloseFails(w)
           \/ \E p \in Passes : Crash(p)
           \/ ExpireSession

Next == Importer \/ Failure \/ User

Spec == Init /\ [][Next]_vars

(* runSyncLoop repeats every importer for ever, and no step of a worker    *)
(* waits for another process.                                              *)
FairSpec ==
    /\ Spec
    /\ \A p \in Passes : /\ WF_vars(StartPass(p))
                         /\ WF_vars(EndPass(p))
    /\ \A w \in Work : /\ WF_vars(TakeItem(w))
                       /\ WF_vars(Advance(w))

-----------------------------------------------------------------------------
(* Properties. *)

(* An item darek has closed at its source was in the library with all its  *)
(* labels before: Sync's promise that a task is completed, an article      *)
(* marked read, only after it was ingested, whichever calls fail and       *)
(* however passes overlap.                                                 *)
H == INSTANCE Handoff WITH arrived <- handed, released <- closed
NothingLost == H!Spec

Automatic == \/ \E w \in Work : /\ SourceOf[Item(w)] \in Imported
                               /\ at'[w] # at[w]
             \/ \E u \in Urls : u \in analyses /\ u \notin analyses'

(* The save of a link that has a row: an import of a known URL. *)
SavedAgain(u) == \E w \in Work : /\ Url(w) = u /\ found[w]
                                 /\ at[w] = "write" /\ at'[w] # "write"

(* No step of an importer or of an analysis touches what the user has      *)
(* rated or noted, takes a tag away or removes a row, although all of them *)
(* write the same rows as the user does.  The kind the user has chosen is  *)
(* left alone too, except by an import of the same URL: see KindSurvives.  *)
EditsButKindSurvive ==
    [][Automatic => /\ rating' = rating /\ notes' = notes
                    /\ rows \subseteq rows'
                    /\ \A u \in Urls : /\ tags[u] \subseteq tags'[u]
                                       /\ \/ kindBy'[u] = kindBy[u]
                                          \/ SavedAgain(u)]_vars

(* The kind is "set by classifier at import, user-overridable in UI"       *)
(* (docs/specs/2026-04-29-rss-inbox-design.md:45): what the user has       *)
(* chosen stays.  It does not: every IngestOne passes the classifier's     *)
(* kind to Save (ingest.go:90), which writes it.                           *)
KindSurvives ==
    [][Automatic => \A u \in Urls : kindBy[u] = "user" => kindBy'[u] = "user"]_vars

(* Every task and article with a URL is closed in the end: a failure, a    *)
(* lost race for the unique index or an expired FreshRSS session costs a   *)
(* pass, never the item.                                                   *)
ItemsDrain ==
    \A i \in Items : SourceOf[i] \in Imported /\ UrlOf[i] # NoUrl =>
        (i \in open ~> i \notin open)

(* A video an importer brought in is analysed, unless something fails:     *)
(* whoever wins the race to insert the row has also seen that it is new.   *)
NewVideoAnalyzed ==
    \A u \in Video :
        source[u] \in Imported ~> (u \in analyzed \/ faults > 0)

(* What the queue page may show: the best Limit rows of Search, unrated    *)
(* rows last (equal ratings are ordered by age, left open here); handleList *)
(* then leaves out the rated ones.                                         *)
Pages == {S \in SUBSET rows :
             /\ \/ Cardinality(S) = Limit
                \/ Cardinality(S) < Limit /\ S = rows
             /\ \A u \in S, v \in rows \ S : rating[u] >= rating[v]}
Queue(S) == {u \in S : rating[u] = 0}

(* The queue is the unrated links: as long as there are any, it is not     *)
(* empty.                                                                  *)
QueueShowsUnrated ==
    \A S \in Pages : Queue(rows) # {} => Queue(S) # {}
=============================================================================
