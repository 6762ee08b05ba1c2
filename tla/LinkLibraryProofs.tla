-------------------------- MODULE LinkLibraryProofs --------------------------
(***************************************************************************)
(* Proofs about LinkLibrary, for any passes, workers, items, URLs, labels  *)
(* and any number of edits and faults; and about the key of a link, for    *)
(* all URLs.                                                               *)
(***************************************************************************)
EXTENDS LinkLibrary, LinkKey, TLAPS

(* What the step a worker has reached says about its item.                 *)
WorkOK ==
    \A w \in Work :
        /\ at[w] # "none" => Url(w) \in Urls
        /\ at[w] \in {"labels", "resave", "token", "close", "analyze", "apply"}
              => Url(w) \in rows
        /\ at[w] = "write" /\ found[w] => Url(w) \in rows
        /\ at[w] = "labels" => SourceOf[Item(w)] \in {"todoist", "form"}
        /\ at[w] = "resave" => SourceOf[Item(w)] = "tool"

TypeInv == TypeOK /\ WorkOK

LEMMA WorkType ==
    ASSUME NEW w \in Work
    PROVE  /\ w[1] \in Passes /\ w[2] \in Items
           /\ Item(w) \in Items /\ Url(w) \in Urls \cup {NoUrl}
           /\ Labels[Item(w)] \in SUBSET Tags
           /\ SourceOf[Item(w)] \in Sources
BY ItemAssumption, SourceAssumption DEF Work, Item, Url

LEMMA TypeInit == Init => TypeInv
BY BoundAssumption, ItemAssumption
   DEF Init, TypeInv, TypeOK, WorkOK, Ratings, NoClick, Steps, Sources

(* A step of one worker leaves the others where they are, and no step      *)
(* removes a row.                                                          *)
LEMMA StepOfOneWorker ==
    ASSUME TypeInv, NEW w \in Work, NEW step,
           at' = [at EXCEPT ![w] = step], rows \subseteq rows',
           \A v \in Work \ {w} : found'[v] = found[v],
           step # "none" => Url(w) \in Urls,
           step \in {"labels", "resave", "token", "close", "analyze", "apply"}
               => Url(w) \in rows',
           step = "write" /\ found'[w] => Url(w) \in rows',
           step = "labels" => SourceOf[Item(w)] \in {"todoist", "form"},
           step = "resave" => SourceOf[Item(w)] = "tool"
    PROVE  WorkOK'
<1>1. at'[w] = step
  BY DEF TypeInv, TypeOK
<1>2. \A v \in Work \ {w} : at'[v] = at[v] /\ found'[v] = found[v]
  BY DEF TypeInv, TypeOK
<1> QED
  BY <1>1, <1>2 DEF TypeInv, WorkOK, Url, Item

(* After the attempt to close, a worker analyses the link or is done.      *)
LEMMA AfterCloseStep ==
    ASSUME TypeInv, NEW w \in Work, AfterClose(w)
    PROVE  /\ \E step \in {"analyze", "none"} : at' = [at EXCEPT ![w] = step]
           /\ isNew' \in [Work -> BOOLEAN] /\ found' \in [Work -> BOOLEAN]
           /\ \A v \in Work \ {w} : found'[v] = found[v]
BY DEF TypeInv, TypeOK, AfterClose, GoTo, Leave

LEMMA TypeNext == TypeInv /\ [Next]_vars => TypeInv'
<1> SUFFICES ASSUME TypeInv, [Next]_vars PROVE TypeInv'
  OBVIOUS
<1> USE BoundAssumption, WorkType
<1> USE DEF TypeInv, TypeOK, WorkOK, db, remote, pool, work, web, hist, budget,
            GoTo, Leave, Steps
<1>1. ASSUME NEW p \in Passes, StartPass(p) PROVE TypeInv'
  BY <1>1 DEF StartPass, Listed, Authed
<1>2. ASSUME NEW p \in Passes, EndPass(p) PROVE TypeInv'
  BY <1>2 DEF EndPass
<1>3. ASSUME NEW w \in Work, TakeItem(w) PROVE TypeInv'
  BY <1>3 DEF TakeItem
<1>4. ASSUME NEW w \in Work, LookUp(w) PROVE TypeInv'
  BY <1>4 DEF LookUp
<1>5. ASSUME NEW w \in Work, SaveSelect(w) PROVE TypeInv'
  <2>1. TypeOK'
    BY <1>5 DEF SaveSelect
  <2>2. WorkOK'
    BY <1>5, StepOfOneWorker DEF SaveSelect
  <2> QED
    BY <2>1, <2>2
<1>6. ASSUME NEW w \in Work, SaveWrite(w) PROVE TypeInv'
  <2>1. Url(w) \in Urls
    BY <1>6 DEF SaveWrite
  <2>2. handed' \in SUBSET Items
    BY <1>6 DEF SaveWrite, Observe
  <2>3. CASE Leave(w) /\ UNCHANGED db
    <3>1. TypeOK'
      BY <1>6, <2>2, <2>3 DEF SaveWrite
    <3>2. WorkOK'
      BY <2>3, StepOfOneWorker
    <3> QED
      BY <3>1, <3>2
  <2>4. CASE /\ found[w] \/ Url(w) \notin rows
             /\ IF found[w] THEN Update(Url(w))
                ELSE Insert(Url(w), SourceOf[Item(w)])
             /\ GoTo(w, AfterSave(w))
             /\ found' = [found EXCEPT ![w] = FALSE]
             /\ UNCHANGED isNew
    <3>1. /\ Url(w) \in rows' /\ rows \subseteq rows' /\ rows' \in SUBSET Urls
          /\ source' \in [Urls -> Sources \cup {"none"}]
          /\ kindBy' \in [Urls -> {"classifier", "user"}]
          /\ UNCHANGED <<rating, tags, notes, analyzed>>
      BY <1>6, <2>1, <2>4 DEF SaveWrite, Update, Insert
    <3>2. PICK step \in {"token", "resave", "labels"} :
              /\ at' = [at EXCEPT ![w] = step]
              /\ step = "labels" => SourceOf[Item(w)] \in {"todoist", "form"}
              /\ step = "resave" => SourceOf[Item(w)] = "tool"
      BY <2>4 DEF AfterSave, Sources, Imported, Requests
    <3>3. TypeOK'
      BY <1>6, <2>2, <2>4, <3>1, <3>2 DEF SaveWrite
    <3>4. WorkOK'
      BY <2>1, <2>4, <3>1, <3>2, StepOfOneWorker
    <3> QED
      BY <3>3, <3>4
  <2> QED
    BY <1>6, <2>3, <2>4 DEF SaveWrite
<1>7. ASSUME NEW w \in Work, MergeLabels(w) PROVE TypeInv'
  <2>1. /\ Url(w) \in rows /\ Url(w) \in Urls
        /\ handed' \in SUBSET Items
        /\ tags' \in [Urls -> SUBSET Tags]
        /\ notes' \in [Urls -> BOOLEAN]
    BY <1>7 DEF MergeLabels, MergeTags, Observe
  <2>2. PICK step \in {"close", "none"} : at' = [at EXCEPT ![w] = step]
    BY <1>7 DEF MergeLabels
  <2>3. /\ isNew' \in [Work -> BOOLEAN] /\ found' \in [Work -> BOOLEAN]
        /\ \A v \in Work \ {w} : found'[v] = found[v]
    BY <1>7 DEF MergeLabels
  <2>4. TypeOK'
    BY <1>7, <2>1, <2>2, <2>3 DEF MergeLabels
  <2>5. WorkOK'
    BY <1>7, <2>1, <2>2, <2>3, StepOfOneWorker DEF MergeLabels
  <2> QED
    BY <2>4, <2>5
<1>8. ASSUME NEW w \in Work, ResaveTool(w) PROVE TypeInv'
  <2>1. /\ handed' \in SUBSET Items
        /\ rating' \in [Urls -> Ratings]
    BY <1>8 DEF ResaveTool, Observe, Ratings
  <2>2. tags' \in [Urls -> SUBSET Tags] /\ notes' \in [Urls -> BOOLEAN]
    <3>1. Labels[Item(w)] \in SUBSET Tags
      OBVIOUS
    <3>2. PICK replace \in BOOLEAN : tags' =
              IF replace /\ Labels[Item(w)] # {}
              THEN [tags EXCEPT ![Url(w)] = Labels[Item(w)]]
              ELSE [tags EXCEPT ![Url(w)] = @ \cup Labels[Item(w)]]
      BY <1>8 DEF ResaveTool
    <3>3. tags' \in [Urls -> SUBSET Tags]
      BY <3>1, <3>2
    <3>4. notes' \in [Urls -> BOOLEAN]
      BY <1>8 DEF ResaveTool
    <3> QED
      BY <3>3, <3>4
  <2>3. TypeOK'
    BY <1>8, <2>1, <2>2 DEF ResaveTool
  <2>4. WorkOK'
    BY <1>8, StepOfOneWorker DEF ResaveTool
  <2> QED
    BY <2>3, <2>4
<1>9. ASSUME NEW w \in Work, EditToken(w) PROVE TypeInv'
  BY <1>9 DEF EditToken, Authed
<1>10. ASSUME NEW w \in Work, Close(w) PROVE TypeInv'
  <2>1. AfterClose(w)
    BY <1>10 DEF Close
  <2>2. PICK step \in {"analyze", "none"} : at' = [at EXCEPT ![w] = step]
    BY <2>1, AfterCloseStep
  <2>3. Url(w) \in rows /\ Url(w) \in Urls
    BY <1>10 DEF Close
  <2>4. /\ UNCHANGED <<rows, source, rating, tags, notes, kindBy, analyzed>>
        /\ UNCHANGED <<running, todo, click, analyses, handed, edits>>
        /\ open' \in SUBSET Items /\ closed' \in SUBSET Items
        /\ sid' \in {"none", "valid", "expired"}
        /\ faults' \in 0 .. MaxFaults
    BY <1>10 DEF Close, Authed
  <2>5. TypeOK'
    BY <2>1, <2>2, <2>4, AfterCloseStep
  <2>6. WorkOK'
    BY <2>1, <2>2, <2>3, <2>4, AfterCloseStep, StepOfOneWorker
  <2> QED
    BY <2>5, <2>6
<1>11. ASSUME NEW w \in Work, Analyze(w) PROVE TypeInv'
  BY <1>11 DEF Analyze
<1>12. ASSUME NEW w \in Work, Apply(w) PROVE TypeInv'
  BY <1>12, ItemAssumption DEF Apply, ApplyAnalysis, MergeTags, Observe
<1>13. ASSUME NEW w \in Work, ItemFails(w) PROVE TypeInv'
  BY <1>13 DEF ItemFails, Fault
<1>14. ASSUME NEW w \in Work, CloseFails(w) PROVE TypeInv'
  <2>1. AfterClose(w)
    BY <1>14 DEF CloseFails
  <2>2. PICK step \in {"analyze", "none"} : at' = [at EXCEPT ![w] = step]
    BY <2>1, AfterCloseStep
  <2>3. Url(w) \in rows /\ Url(w) \in Urls
    BY <1>14 DEF CloseFails
  <2>4. /\ UNCHANGED <<rows, source, rating, tags, notes, kindBy, analyzed>>
        /\ UNCHANGED <<running, todo, click, analyses, handed, edits>>
        /\ open' \in SUBSET Items /\ closed' \in SUBSET Items
        /\ sid' \in {"none", "valid", "expired"}
        /\ faults' \in 0 .. MaxFaults
    BY <1>14 DEF CloseFails, Fault
  <2>5. TypeOK'
    BY <2>1, <2>2, <2>4, AfterCloseStep
  <2>6. WorkOK'
    BY <2>1, <2>2, <2>3, <2>4, AfterCloseStep, StepOfOneWorker
  <2> QED
    BY <2>5, <2>6
<1>15. ASSUME NEW p \in Passes, Crash(p) PROVE TypeInv'
  BY <1>15 DEF Crash, Fault
<1>16. CASE ExpireSession
  BY <1>16 DEF ExpireSession, Fault
<1>17. ASSUME NEW u \in Urls, NEW star \in 1 .. MaxStars, ClickStar(u, star)
       PROVE TypeInv'
  BY <1>17 DEF ClickStar, Edit, Ratings
<1>18. CASE SetRating
  <2>1. PICK stars \in Ratings : rating' = [rating EXCEPT ![click[1]] = stars]
    <3>1. click[2] \in Ratings /\ 0 \in Ratings
      BY DEF Ratings
    <3> QED
      BY <1>18, <3>1 DEF SetRating
  <2>2. rating' \in [Urls -> Ratings]
    BY <2>1
  <2>3. click' \in (Urls \cup {NoUrl}) \X Ratings \X Ratings
    BY <1>18 DEF SetRating, NoClick, Ratings
  <2> QED
    BY <1>18, <2>2, <2>3 DEF SetRating
<1>19. ASSUME NEW u \in Urls, NEW t \in Tags, EditTags(u, t) PROVE TypeInv'
  BY <1>19 DEF EditTags, Edit, Observe
<1>20. ASSUME NEW u \in Urls, EditNotes(u) PROVE TypeInv'
  BY <1>20 DEF EditNotes, Edit
<1>21. ASSUME NEW u \in Urls, ChooseKind(u) PROVE TypeInv'
  BY <1>21 DEF ChooseKind, Edit
<1>22. ASSUME NEW u \in Urls, AskAnalysis(u) PROVE TypeInv'
  BY <1>22 DEF AskAnalysis, Edit
<1>23. ASSUME NEW u \in Urls, AnalysisAnswered(u) PROVE TypeInv'
  BY <1>23, ItemAssumption DEF AnalysisAnswered, ApplyAnalysis, MergeTags, Observe
<1>24. ASSUME NEW w \in Work, Request(w) PROVE TypeInv'
  BY <1>24, ItemAssumption DEF Request, Item, Url
<1>25. ASSUME NEW i \in Items, MarkArticle(i) PROVE TypeInv'
  BY <1>25 DEF MarkArticle, Edit
<1>26. ASSUME NEW i \in Items, CompleteTask(i) PROVE TypeInv'
  BY <1>26 DEF CompleteTask, Edit
<1>27. CASE UNCHANGED vars
  BY <1>27 DEF vars
<1> QED
  BY <1>1, <1>2, <1>3, <1>4, <1>5, <1>6, <1>7, <1>8, <1>9, <1>10, <1>11,
     <1>12, <1>13, <1>14, <1>15, <1>16, <1>17, <1>18, <1>19, <1>20, <1>21,
     <1>22, <1>23, <1>24, <1>25, <1>26, <1>27
     DEF Next, Importer, Advance, Failure, User

(* LinkLibrary's variables keep their types, whatever the bounds.          *)
THEOREM TypeCorrect == Spec => []TypeOK
<1>1. Spec => []TypeInv
  BY TypeInit, TypeNext, PTL DEF Spec
<1> QED
  BY <1>1, PTL DEF TypeInv

-----------------------------------------------------------------------------
(* NothingLost is not inductive: between the statement that completes an   *)
(* item's row and the call that closes the item lie steps of others.  What *)
(* keeps it is where the worker is.                                        *)

HandedFirst ==
    /\ closed \subseteq handed
    /\ \A w \in Work : at[w] \in {"token", "close"} => Item(w) \in handed

HandoffInv == TypeInv /\ HandedFirst

LEMMA HandedInit == Init => HandedFirst
BY DEF Init, HandedFirst

(* A step after which each worker that may close its item had it handed    *)
(* over, and that closes only such items, keeps the invariant.             *)
LEMMA HandedKeeps ==
    ASSUME HandoffInv, handed \subseteq handed', closed' = closed,
           \A w \in Work : at'[w] \in {"token", "close"}
               => at[w] \in {"token", "close"} \/ Item(w) \in handed'
    PROVE  HandedFirst'
BY DEF HandoffInv, HandedFirst, Item

(* A worker that goes to another step, and is not to close its item.       *)
LEMMA HandedElsewhere ==
    ASSUME HandoffInv, handed \subseteq handed', closed' = closed,
           NEW w \in Work, NEW step, step \notin {"token", "close"},
           at' = [at EXCEPT ![w] = step]
    PROVE  HandedFirst'
BY HandedKeeps DEF HandoffInv, TypeInv, TypeOK

(* A write that leaves the row of an item with its labels hands it over.   *)
LEMMA ObservedIsHanded ==
    ASSUME Observe, NEW i \in Items, UrlOf[i] \in rows',
           Labels[i] \subseteq tags'[UrlOf[i]]
    PROVE  i \in handed'
BY DEF Observe, Has

LEMMA ObserveGrows ==
    ASSUME HandoffInv, Observe
    PROVE  handed \subseteq handed' /\ handed' \in SUBSET Items
BY DEF Observe, HandoffInv, TypeInv, TypeOK

(* What closing does to the items that darek has closed.                   *)
LEMMA CloseKeeps ==
    ASSUME HandoffInv, NEW w \in Work, Close(w) \/ CloseFails(w)
    PROVE  HandedFirst' /\ closed' \in {closed, closed \cup {Item(w)}}
           /\ Item(w) \in handed /\ handed' = handed
<1>1. at[w] \in {"token", "close"} /\ Item(w) \in handed /\ handed' = handed
  BY DEF Close, CloseFails, HandoffInv, HandedFirst, hist
<1>2. closed' \in {closed, closed \cup {Item(w)}}
  BY DEF Close, CloseFails
<1>3. AfterClose(w)
  BY DEF Close, CloseFails
<1>4. PICK step \in {"analyze", "none"} : at' = [at EXCEPT ![w] = step]
  BY <1>3, AfterCloseStep DEF HandoffInv
<1>5. closed' \subseteq handed'
  BY <1>1, <1>2 DEF HandoffInv, HandedFirst
<1>6. ASSUME NEW v \in Work, at'[v] \in {"token", "close"}
      PROVE  Item(v) \in handed'
  BY <1>1, <1>4, <1>6 DEF HandoffInv, HandedFirst, TypeInv, TypeOK
<1>7. HandedFirst'
  BY <1>5, <1>6 DEF HandedFirst, Item
<1> QED
  BY <1>1, <1>2, <1>7

LEMMA SaveWriteHands ==
    ASSUME HandoffInv, NEW w \in Work, SaveWrite(w)
    PROVE  HandedFirst'
<1>1. /\ handed \subseteq handed' /\ closed' = closed /\ Observe
      /\ Url(w) \in Urls
  BY ObserveGrows DEF SaveWrite, HandoffInv, TypeInv, WorkOK
<1>2. CASE Leave(w)
  BY <1>1, <1>2, HandedElsewhere DEF Leave, GoTo
<1>3. CASE SourceOf[Item(w)] # "freshrss" /\ GoTo(w, AfterSave(w))
  <2>1. AfterSave(w) \notin {"token", "close"}
    BY <1>3, WorkType DEF AfterSave, Sources, Imported, Requests
  <2> QED
    BY <1>1, <1>3, <2>1, HandedElsewhere DEF GoTo
<1>4. CASE SourceOf[Item(w)] = "freshrss" /\ ~Leave(w)
  <2>1. Url(w) \in rows'
    BY <1>1, <1>4 DEF SaveWrite, Update, Insert, HandoffInv, TypeInv, WorkOK
  <2>2. Labels[Item(w)] = {} /\ Item(w) \in Items
    BY <1>4, ItemAssumption, WorkType
  <2>3. Item(w) \in handed'
    BY <1>1, <2>1, <2>2, ObservedIsHanded DEF Url, Item
  <2>4. GoTo(w, AfterSave(w))
    BY <1>4 DEF SaveWrite
  <2> QED
    BY <1>1, <2>3, <2>4, HandedKeeps DEF GoTo, HandoffInv, TypeInv, TypeOK
<1> QED
  BY <1>2, <1>3, <1>4 DEF SaveWrite

LEMMA MergeLabelsHands ==
    ASSUME HandoffInv, NEW w \in Work, MergeLabels(w)
    PROVE  HandedFirst'
<1>1. /\ handed \subseteq handed' /\ closed' = closed /\ Observe
      /\ Url(w) \in Urls /\ Url(w) \in rows' /\ Item(w) \in Items
  BY ObserveGrows, WorkType
     DEF MergeLabels, HandoffInv, TypeInv, WorkOK
<1>2. Labels[Item(w)] \subseteq tags'[Url(w)]
  BY <1>1 DEF MergeLabels, MergeTags, HandoffInv, TypeInv, TypeOK
<1>3. Item(w) \in handed'
  BY <1>1, <1>2, ObservedIsHanded DEF Url, Item
<1>4. PICK step : at' = [at EXCEPT ![w] = step]
  BY DEF MergeLabels, GoTo, Leave
<1> QED
  BY <1>1, <1>3, <1>4, HandedKeeps DEF HandoffInv, TypeInv, TypeOK

LEMMA HandedNext == HandoffInv /\ [Next]_vars => HandedFirst'
<1> SUFFICES ASSUME HandoffInv, [Next]_vars PROVE HandedFirst'
  OBVIOUS
<1> USE DEF db, remote, pool, work, web, hist, budget, GoTo, Leave
<1>1. ASSUME NEW w \in Work,
             \/ TakeItem(w) \/ LookUp(w) \/ SaveSelect(w) \/ Analyze(w)
             \/ Request(w) \/ ItemFails(w)
      PROVE  HandedFirst'
  <2>1. handed' = handed /\ closed' = closed
    BY <1>1 DEF TakeItem, LookUp, SaveSelect, Analyze, Request, ItemFails
  <2>2. \/ at' = at
        \/ \E step \in {"none", "lookup", "select", "write", "apply"} :
              at' = [at EXCEPT ![w] = step]
    BY <1>1 DEF TakeItem, LookUp, SaveSelect, Analyze, Request, ItemFails
  <2> QED
    BY <2>1, <2>2, HandedKeeps, HandedElsewhere
<1>2. ASSUME NEW w \in Work, SaveWrite(w) PROVE HandedFirst'
  BY <1>2, SaveWriteHands
<1>3. ASSUME NEW w \in Work, MergeLabels(w) PROVE HandedFirst'
  BY <1>3, MergeLabelsHands
<1>4. ASSUME NEW w \in Work, ResaveTool(w) \/ Apply(w) PROVE HandedFirst'
  <2>1. Observe /\ closed' = closed /\ at' = [at EXCEPT ![w] = "none"]
    BY <1>4 DEF ResaveTool, Apply
  <2> QED
    BY <2>1, ObserveGrows, HandedElsewhere
<1>5. ASSUME NEW w \in Work, EditToken(w) PROVE HandedFirst'
  BY <1>5, HandedKeeps DEF EditToken, HandoffInv, TypeInv, TypeOK
<1>6. ASSUME NEW w \in Work, Close(w) \/ CloseFails(w) PROVE HandedFirst'
  BY <1>6, CloseKeeps
<1>7. ASSUME NEW p \in Passes, Crash(p) PROVE HandedFirst'
  <2>1. at' = [w \in Work |-> IF w[1] = p THEN "none" ELSE at[w]]
    BY <1>7 DEF Crash
  <2> QED
    BY <1>7, <2>1, HandedKeeps DEF Crash
<1>8. ASSUME NEW u \in Urls, NEW t \in Tags, EditTags(u, t) PROVE HandedFirst'
  BY <1>8, ObserveGrows, HandedKeeps DEF EditTags
<1>9. ASSUME NEW u \in Urls, AnalysisAnswered(u) PROVE HandedFirst'
  BY <1>9, ObserveGrows, HandedKeeps DEF AnalysisAnswered
<1>10. ASSUME at' = at, UNCHANGED hist PROVE HandedFirst'
  BY <1>10, HandedKeeps
<1>11. ASSUME NEW p \in Passes, StartPass(p) \/ EndPass(p) PROVE HandedFirst'
  BY <1>10, <1>11 DEF StartPass, EndPass
<1>12. ASSUME NEW u \in Urls,
              \/ EditNotes(u) \/ ChooseKind(u) \/ AskAnalysis(u)
              \/ \E star \in 1 .. MaxStars : ClickStar(u, star)
       PROVE  HandedFirst'
  BY <1>10, <1>12 DEF EditNotes, ChooseKind, AskAnalysis, ClickStar
<1>13. CASE SetRating \/ ExpireSession
  BY <1>10, <1>13 DEF SetRating, ExpireSession
<1>14. ASSUME NEW i \in Items, MarkArticle(i) \/ CompleteTask(i)
       PROVE  HandedFirst'
  BY <1>10, <1>14 DEF MarkArticle, CompleteTask
<1>15. CASE UNCHANGED vars
  BY <1>10, <1>15 DEF vars
<1> QED
  BY <1>1, <1>2, <1>3, <1>4, <1>5, <1>6, <1>7, <1>8, <1>9, <1>11, <1>12,
     <1>13, <1>14, <1>15 DEF Next, Importer, Advance, Failure, User

LEMMA HandoffInvariant == Spec => []HandoffInv
<1>1. Init => HandoffInv
  BY TypeInit, HandedInit DEF HandoffInv
<1>2. HandoffInv /\ [Next]_vars => HandoffInv'
  BY TypeNext, HandedNext DEF HandoffInv
<1> QED
  BY <1>1, <1>2, PTL DEF Spec

(* Every step is a step of Handoff or leaves its variables alone: items    *)
(* arrive, or one that has arrived is released.                            *)
LEMMA StepIsHandoffStep ==
    HandoffInv /\ [Next]_vars => [H!Next]_(H!vars)
<1> SUFFICES ASSUME HandoffInv, [Next]_vars PROVE [H!Next]_(H!vars)
  OBVIOUS
<1> USE DEF hist
<1>1. ASSUME Observe, closed' = closed PROVE H!Next
  BY <1>1, ObserveGrows DEF H!Next, H!Arrive, HandoffInv, TypeInv, TypeOK
<1>2. ASSUME UNCHANGED hist PROVE UNCHANGED H!vars
  BY <1>2 DEF H!vars
<1>3. ASSUME NEW w \in Work, Close(w) \/ CloseFails(w) PROVE H!Next
  <2>1. /\ closed' \in {closed, closed \cup {Item(w)}}
        /\ Item(w) \in handed
    BY <1>3, CloseKeeps
  <2>2. \E done \in {{}, {Item(w)}} : closed' = closed \cup done
    BY <2>1
  <2> QED
    BY <1>3, <2>1, <2>2, CloseKeeps DEF H!Next, H!Release
<1>4. ASSUME NEW w \in Work, SaveWrite(w) \/ MergeLabels(w) \/ ResaveTool(w) \/ Apply(w)
      PROVE  H!Next
  BY <1>1, <1>4 DEF SaveWrite, MergeLabels, ResaveTool, Apply
<1>5. ASSUME NEW u \in Urls,
             AnalysisAnswered(u) \/ \E t \in Tags : EditTags(u, t)
      PROVE  H!Next
  BY <1>1, <1>5 DEF AnalysisAnswered, EditTags
<1>6. ASSUME NEW w \in Work,
             \/ TakeItem(w) \/ LookUp(w) \/ SaveSelect(w) \/ EditToken(w)
             \/ Analyze(w) \/ ItemFails(w) \/ Request(w)
      PROVE  UNCHANGED hist
  BY <1>6 DEF TakeItem, LookUp, SaveSelect, EditToken, Analyze, ItemFails,
              Request
<1>7. ASSUME NEW p \in Passes, StartPass(p) \/ EndPass(p) \/ Crash(p)
      PROVE  UNCHANGED hist
  BY <1>7 DEF StartPass, EndPass, Crash
<1>8. ASSUME NEW u \in Urls,
             \/ EditNotes(u) \/ ChooseKind(u) \/ AskAnalysis(u)
             \/ \E star \in 1 .. MaxStars : ClickStar(u, star)
      PROVE  UNCHANGED hist
  BY <1>8 DEF EditNotes, ChooseKind, AskAnalysis, ClickStar
<1>9. ASSUME NEW i \in Items, MarkArticle(i) \/ CompleteTask(i)
      PROVE  UNCHANGED hist
  BY <1>9 DEF MarkArticle, CompleteTask
<1>10. ASSUME SetRating \/ ExpireSession PROVE UNCHANGED hist
  BY <1>10 DEF SetRating, ExpireSession
<1>11. CASE UNCHANGED vars
  BY <1>2, <1>11 DEF vars
<1> QED
  BY <1>2, <1>3, <1>4, <1>5, <1>6, <1>7, <1>8, <1>9, <1>10, <1>11
     DEF Next, Importer, Advance, Failure, User

(* An item darek closes was in the library with its labels before, for any *)
(* number of overlapping passes, workers, requests, edits and failures:    *)
(* the library implements Handoff.                                         *)
THEOREM ItemsHandedOver == Spec => NothingLost
<1>1. Init => H!Init
  BY DEF Init, H!Init
<1> QED
  BY <1>1, HandoffInvariant, StepIsHandoffStep, PTL
     DEF Spec, NothingLost, H!Spec

-----------------------------------------------------------------------------
(* What steps of importers and analyses leave of the user's edits.  Only   *)
(* the worker that moves can be the one Automatic speaks of.               *)

NothingUndone ==
    /\ rating' = rating /\ notes' = notes /\ rows \subseteq rows'
    /\ \A u \in Urls : /\ tags[u] \subseteq tags'[u]
                       /\ kindBy'[u] = kindBy[u] \/ SavedAgain(u)

LEMMA SameRowsUndoNothing ==
    ASSUME UNCHANGED db
    PROVE  NothingUndone
BY DEF db, NothingUndone

LEMMA MergeUndoesNothing ==
    ASSUME TypeOK, NEW u \in Urls, NEW ts \in SUBSET Tags, MergeTags(u, ts),
           UNCHANGED <<rating, notes, rows, kindBy>>
    PROVE  NothingUndone
BY DEF MergeTags, NothingUndone, TypeOK

(* Workers that serve requests are none of the importers'. *)
LEMMA OnlyTheWorkerMoves ==
    ASSUME TypeOK, NEW w \in Work, NEW step, at' = [at EXCEPT ![w] = step],
           SourceOf[Item(w)] \notin Imported, UNCHANGED analyses
    PROVE  ~Automatic
BY DEF Automatic, TypeOK

LEMMA StepUndoesNothing ==
    TypeInv /\ [Next]_vars => (Automatic => NothingUndone) \/ UNCHANGED vars
<1> SUFFICES ASSUME TypeInv, Next, Automatic PROVE NothingUndone
  OBVIOUS
<1> USE DEF remote, pool, work, web, hist, budget
<1>1. ASSUME NEW w \in Work, SaveWrite(w) PROVE NothingUndone
  <2>1. /\ rating' = rating /\ notes' = notes /\ rows \subseteq rows'
        /\ tags' = tags
    BY <1>1 DEF SaveWrite, Update, Insert, db
  <2>2. CASE found[w] /\ Update(Url(w)) /\ GoTo(w, AfterSave(w))
    <3>1. SavedAgain(Url(w))
      BY <1>1, <2>2 DEF SaveWrite, SavedAgain, GoTo, AfterSave, TypeInv, TypeOK
    <3>2. \A u \in Urls : kindBy'[u] = kindBy[u] \/ SavedAgain(u)
      BY <2>2, <3>1 DEF Update, TypeInv, TypeOK
    <3> QED
      BY <2>1, <3>2 DEF NothingUndone
  <2>3. CASE kindBy' = kindBy
    BY <2>1, <2>3 DEF NothingUndone
  <2> QED
    BY <1>1, <2>2, <2>3 DEF SaveWrite, Insert, db
<1>2. ASSUME NEW w \in Work, MergeLabels(w) PROVE NothingUndone
  <2>1. Url(w) \in Urls /\ Labels[Item(w)] \in SUBSET Tags
    BY <1>2, WorkType DEF MergeLabels, TypeInv, WorkOK
  <2>2. CASE SourceOf[Item(w)] = "todoist"
    BY <1>2, <2>1, <2>2, MergeUndoesNothing DEF MergeLabels, TypeInv
  <2>3. CASE SourceOf[Item(w)] # "todoist"
    <3>1. SourceOf[Item(w)] \notin Imported
      BY <1>2, <2>3 DEF MergeLabels, TypeInv, WorkOK, Imported
    <3>2. ~Automatic
      BY <1>2, <2>3, <3>1, OnlyTheWorkerMoves
         DEF MergeLabels, Leave, GoTo, TypeInv
    <3> QED
      BY <3>2
  <2> QED
    BY <2>2, <2>3
<1>3. ASSUME NEW w \in Work, ResaveTool(w) PROVE NothingUndone
  <2>1. SourceOf[Item(w)] \notin Imported
    BY <1>3 DEF ResaveTool, TypeInv, WorkOK, Imported
  <2>2. ~Automatic
    BY <1>3, <2>1, OnlyTheWorkerMoves DEF ResaveTool, Leave, GoTo, TypeInv
  <2> QED
    BY <2>2
<1>4. ASSUME NEW u \in Urls, ApplyAnalysis(u) PROVE NothingUndone
  BY <1>4, ItemAssumption, MergeUndoesNothing DEF ApplyAnalysis, TypeInv
<1>5. ASSUME NEW w \in Work, Apply(w) PROVE NothingUndone
  BY <1>4, <1>5 DEF Apply, TypeInv, WorkOK
<1>6. ASSUME NEW u \in Urls, AnalysisAnswered(u) PROVE NothingUndone
  BY <1>4, <1>6, SameRowsUndoNothing DEF AnalysisAnswered
<1>7. ASSUME NEW w \in Work,
             \/ TakeItem(w) \/ LookUp(w) \/ SaveSelect(w) \/ EditToken(w)
             \/ Close(w) \/ Analyze(w) \/ ItemFails(w) \/ CloseFails(w)
             \/ Request(w)
      PROVE  UNCHANGED db
  BY <1>7 DEF TakeItem, LookUp, SaveSelect, EditToken, Close, Analyze,
              ItemFails, CloseFails, Request
<1>8. ASSUME NEW p \in Passes, StartPass(p) \/ EndPass(p) \/ Crash(p)
      PROVE  UNCHANGED db
  BY <1>8 DEF StartPass, EndPass, Crash
<1>9. ASSUME NEW u \in Urls,
             \/ EditNotes(u) \/ ChooseKind(u) \/ AskAnalysis(u)
             \/ \E star \in 1 .. MaxStars : ClickStar(u, star)
             \/ \E t \in Tags : EditTags(u, t)
      PROVE  ~Automatic
  BY <1>9 DEF EditNotes, ChooseKind, AskAnalysis, ClickStar, EditTags, Automatic
<1>10. SetRating => ~Automatic
  BY DEF SetRating, Automatic
<1>11. ASSUME NEW i \in Items, MarkArticle(i) \/ CompleteTask(i)
       PROVE  UNCHANGED db
  BY <1>11 DEF MarkArticle, CompleteTask
<1>12. ExpireSession => UNCHANGED db
  BY DEF ExpireSession
<1> QED
  BY <1>1, <1>2, <1>3, <1>5, <1>6, <1>7, <1>8, <1>9, <1>10, <1>11, <1>12,
     SameRowsUndoNothing DEF Next, Importer, Advance, Failure, User

(* Ratings, notes and tags of the user survive whatever importers and      *)
(* analyses do, in any order and however often they fail; the kind the     *)
(* user chose does until the URL is imported again.                        *)
THEOREM UserEditsButKindSurvive == Spec => EditsButKindSurvive
<1>1. Spec => []TypeInv
  BY TypeInit, TypeNext, PTL DEF Spec
<1>2. TypeInv /\ [Next]_vars => [Automatic => NothingUndone]_vars
  BY StepUndoesNothing
<1>3. [Automatic => NothingUndone]_vars
      => [Automatic => /\ rating' = rating /\ notes' = notes
                       /\ rows \subseteq rows'
                       /\ \A u \in Urls : /\ tags[u] \subseteq tags'[u]
                                          /\ \/ kindBy'[u] = kindBy[u]
                                             \/ SavedAgain(u)]_vars
  BY DEF NothingUndone
<1> QED
  BY <1>1, <1>2, <1>3, PTL DEF Spec, EditsButKindSurvive

-----------------------------------------------------------------------------
(* The key of a link (LinkKey).                                            *)

(* One prefix at most leaves none. *)
LEMMA OnePrefix ==
    ASSUME NEW u \in URL, u.www <= 1
    PROVE  Www(u) = 0
<1>1. u.www \in Nat
  BY DEF URL
<1> QED BY <1>1 DEF Www, OneOff

(* Saving the key of a link again finds the link.  It would not with two   *)
(* "www.", of which each import takes one off.                             *)
THEOREM KeyIsStable ==
    ASSUME NEW u \in URL, u.www <= 1
    PROVE  Canonicalize(Canonicalize(u)) = Canonicalize(u)
<1> DEFINE v == Canonicalize(u)
<1>1. Www(u) = 0
  BY OnePrefix
<1>2. /\ v.www = 0 /\ v.host = u.host /\ v.path = u.path
      /\ v.slashes = IF u.path = "" /\ u.slashes = 1 THEN 1 ELSE 0
      /\ v.query = [p \in Params |-> IF p \in Dropped(u) THEN "none" ELSE u.query[p]]
      /\ v.fragment = IF HostIn(u, FragmentHosts) THEN u.fragment ELSE "none"
  BY <1>1 DEF Canonicalize
<1> HIDE DEF v
<1>3. /\ Www(v) = 0 /\ Dropped(v) = Dropped(u)
      /\ HostIn(v, FragmentHosts) <=> HostIn(u, FragmentHosts)
  <2>1. Www(v) = 0
    <3>1. v.www = 0
      BY <1>2
    <3>2. OneOff(0) = 0
      BY DEF OneOff
    <3> QED BY <3>1, <3>2, Zenon DEF Www
  <2>2. ASSUME NEW hosts PROVE HostIn(v, hosts) <=> HostIn(u, hosts)
    BY <1>1, <1>2, <2>1 DEF HostIn
  <2>3. /\ HostIn(v, VideoHosts) <=> HostIn(u, VideoHosts)
        /\ HostIn(v, FragmentHosts) <=> HostIn(u, FragmentHosts)
    BY <2>2
  <2> QED BY <2>1, <2>3, Zenon DEF Dropped
<1>4. /\ Www(v) = Www(u) /\ v.host = u.host /\ v.path = u.path
      /\ (IF v.path = "" /\ v.slashes = 1 THEN 1 ELSE 0)
            = (IF u.path = "" /\ u.slashes = 1 THEN 1 ELSE 0)
      /\ [p \in Params |-> IF p \in Dropped(v) THEN "none" ELSE v.query[p]]
            = [p \in Params |-> IF p \in Dropped(u) THEN "none" ELSE u.query[p]]
      /\ (IF HostIn(v, FragmentHosts) THEN v.fragment ELSE "none")
            = (IF HostIn(u, FragmentHosts) THEN u.fragment ELSE "none")
  BY <1>1, <1>2, <1>3
<1>5. Canonicalize(v) = Canonicalize(u)
  BY <1>4 DEF Canonicalize
<1> QED BY <1>5 DEF v

(* The same page reached in another way is the same link: another prefix,  *)
(* slashes at the end, tracking parameters and fragments do not count.     *)
THEOREM SamePageSameKey ==
    ASSUME NEW u \in URL, NEW v \in URL,
           u.www <= 1, v.www <= 1, u.host = v.host, u.path = v.path, u.path # "",
           \A p \in Params \ TrackingParams : u.query[p] = v.query[p],
           u.fragment = v.fragment \/ u.host \notin FragmentHosts
    PROVE  Canonicalize(u) = Canonicalize(v)
<1>1. Www(u) = 0 /\ Www(v) = 0
  BY OnePrefix
<1>2. /\ Dropped(u) = Dropped(v)
      /\ HostIn(u, FragmentHosts) <=> HostIn(v, FragmentHosts)
  BY <1>1 DEF Dropped, HostIn
<1>3. [p \in Params |-> IF p \in Dropped(u) THEN "none" ELSE u.query[p]]
        = [p \in Params |-> IF p \in Dropped(v) THEN "none" ELSE v.query[p]]
  <2>1. TrackingParams \subseteq Dropped(u)
    BY DEF Dropped
  <2> QED BY <1>2, <2>1
<1>4. (IF HostIn(u, FragmentHosts) THEN u.fragment ELSE "none")
        = (IF HostIn(v, FragmentHosts) THEN v.fragment ELSE "none")
  BY <1>2 DEF HostIn
<1> QED BY <1>1, <1>3, <1>4 DEF Canonicalize
=============================================================================
