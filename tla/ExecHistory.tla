---------------------------- MODULE ExecHistory -----------------------------
(***************************************************************************)
(* The execution history: a span processor that buffers the ended steps of *)
(* a trace and writes them with the execution they belong to when that     *)
(* ends (exechistory/recorder.go and mapping.go), the rows it writes       *)
(* (store.go), the job that deletes old ones (cleanup.go), and the pages   *)
(* that show them (cmd/darek/serve/executions.go).                         *)
(*                                                                         *)
(* A span is a root, which MarkExecution marked as an execution; a step,   *)
(* any other span of a tracer named darek/...; or foreign, a span of the   *)
(* HTTP or database instrumentation.  Spans of one trace run in parallel,  *)
(* but a function ends its span only after all that it started: the passes *)
(* join their workers.  A command runs its passes one after the other      *)
(* (blogmarketing/sync.go:266, SyncAll).  Processes come one after the     *)
(* other; several at a time would share nothing but the two tables.  What  *)
(* the waterfall and its ticks look like is in Waterfall.                  *)
(***************************************************************************)
EXTENDS Naturals, FiniteSets

CONSTANTS
    Spans,
    Parent,       \* the span that started a span, or "none"
    Kind,         \* "root", "step" or "foreign"
    DefaultLimit, \* rows of a page that asks for no number; 50 in the code
    MaxLimit,     \* the most a page may ask for; 200 in the code
    Limits,       \* numbers that pages ask for
    MaxFaults     \* bound on writes that fail and processes that are killed

Roots == {s \in Spans : Kind[s] = "root"}
Steps == {s \in Spans : Kind[s] = "step"}

(* The first span of the trace, which stands for its id, and the execution *)
(* that a span is part of.                                                 *)
trace[s \in Spans] == IF Parent[s] = "none" THEN s ELSE trace[Parent[s]]
enclosing[s \in Spans] ==
    IF Parent[s] = "none" THEN "none"
    ELSE IF Parent[s] \in Roots THEN Parent[s] ELSE enclosing[Parent[s]]

(* Spans that started one another come to a first one. *)
ASSUME SpanAssumption ==
    /\ "none" \notin Spans /\ IsFiniteSet(Spans)
    /\ Parent \in [Spans -> Spans \cup {"none"}]
    /\ \A S \in SUBSET Spans : S # {} => \E s \in S : Parent[s] \notin S
    /\ Kind \in [Spans -> {"root", "step", "foreign"}]
ASSUME LimitAssumption ==
    /\ DefaultLimit \in 1 .. MaxLimit /\ MaxLimit \in Nat
    /\ Limits \subseteq 1 .. MaxLimit /\ MaxFaults \in Nat
VARIABLES
    life,       \* "new", "running", "flushing", "ended" or "lost"
    start,      \* when an execution started; 0 before
    (* The process *)
    running,
    poolOpen,   \* the connections to Postgres
    recording,  \* the recorder has not been shut down
    pending,    \* steps that ended, by trace
    batch,      \* steps a root took from there
    (* Postgres *)
    executions,
    steps,      \* rows of execution_steps, by execution
    (* A user walking through the list, and one looking at an execution *)
    walking,
    before,     \* the cursor of the next page; 0 for none
    due,        \* rows there since the walk began
    shown,      \* rows shown since
    view,       \* the execution read, or "none"
    viewed,     \* its steps, once read
    faults

process == <<running, poolOpen, recording, pending, batch>>
tables  == <<executions, steps>>
walk    == <<walking, before, due, shown>>
detail  == <<view, viewed>>
vars    == <<life, start, process, tables, walk, detail, faults>>

NotRead == {"none"}

TypeOK ==
    /\ life \in [Spans -> {"new", "running", "flushing", "ended", "lost"}]
    /\ start \in [Roots -> 0 .. Cardinality(Roots)]
    /\ running \in BOOLEAN /\ poolOpen \in BOOLEAN /\ recording \in BOOLEAN
    /\ pending \in [Spans -> SUBSET Steps]
    /\ batch \in [Roots -> SUBSET Steps]
    /\ executions \in SUBSET Roots
    /\ steps \in [Roots -> SUBSET Steps]
    /\ walking \in BOOLEAN /\ before \in 0 .. Cardinality(Roots)
    /\ due \in SUBSET executions /\ shown \in SUBSET Roots
    /\ view \in Roots \cup {"none"} /\ viewed \in (SUBSET Steps) \cup {NotRead}
    /\ faults \in 0 .. MaxFaults

Init ==
    /\ life = [s \in Spans |-> "new"] /\ start = [r \in Roots |-> 0]
    /\ running = TRUE /\ poolOpen = TRUE /\ recording = TRUE
    /\ pending = [s \in Spans |-> {}] /\ batch = [r \in Roots |-> {}]
    /\ executions = {} /\ steps = [r \in Roots |-> {}]
    /\ walking = FALSE /\ before = 0 /\ due = {} /\ shown = {}
    /\ view = "none" /\ viewed = NotRead
    /\ faults = 0

Fault == faults < MaxFaults /\ faults' = faults + 1

-----------------------------------------------------------------------------
(* Spans, and what the recorder does when one ends. *)

Active(s) == life[s] \in {"running", "flushing"}

(* A pass begins when the one before it in its trace is over. *)
Begin(s) ==
    /\ running /\ life[s] = "new"
    /\ Parent[s] # "none" => life[Parent[s]] = "running"
    /\ s \in Roots => \A q \in Roots \ {enclosing[s]} :
                         trace[q] = trace[s] => ~Active(q)
    /\ life' = [life EXCEPT ![s] = "running"]
    /\ start' = IF s \in Roots
                THEN [start EXCEPT ![s] = Cardinality({r \in Roots : start[r] > 0}) + 1]
                ELSE start
    /\ UNCHANGED <<process, tables, walk, detail, faults>>

Ends(s) ==
    /\ running /\ life[s] = "running"
    /\ \A t \in Spans : Parent[t] = s => ~Active(t)

(* Mutation: the name of the tracer is not looked at. *)
EndForeignBuffered(s) ==
    /\ Kind[s] = "foreign" /\ Ends(s)
    /\ life' = [life EXCEPT ![s] = "ended"]
    /\ pending' = [pending EXCEPT ![trace[s]] = @ \cup {s}]
    /\ UNCHANGED <<start, running, poolOpen, recording, batch>>
    /\ UNCHANGED <<tables, walk, detail, faults>>

EndForeign(s) ==
    /\ Kind[s] = "foreign" /\ Ends(s)
    /\ life' = [life EXCEPT ![s] = "ended"]
    /\ UNCHANGED <<start, process, tables, walk, detail, faults>>

(* bufferStep; after Shutdown the step is dropped. *)
BufferStep(s) ==
    /\ s \in Steps /\ Ends(s)
    /\ life' = [life EXCEPT ![s] = "ended"]
    /\ pending' = IF recording THEN [pending EXCEPT ![trace[s]] = @ \cup {s}]
                  ELSE pending
    /\ UNCHANGED <<start, running, poolOpen, recording, batch>>
    /\ UNCHANGED <<tables, walk, detail, faults>>

(* flushExecution up to the unlock.  The span ends when it has returned.   *)
TakeSteps(r) ==
    /\ r \in Roots /\ Ends(r)
    /\ life' = [life EXCEPT ![r] = "flushing"]
    /\ batch' = [batch EXCEPT ![r] = pending[trace[r]]]
    /\ pending' = [pending EXCEPT ![trace[r]] = {}]
    /\ UNCHANGED <<start, running, poolOpen, recording>>
    /\ UNCHANGED <<tables, walk, detail, faults>>

(* writeAll: one transaction, or nothing. *)
WriteAll(r) ==
    /\ running /\ life[r] = "flushing"
    /\ life' = [life EXCEPT ![r] = "ended"]
    /\ batch' = [batch EXCEPT ![r] = {}]
    /\ \/ /\ poolOpen
          /\ executions' = executions \cup {r}
          /\ steps' = [steps EXCEPT ![r] = batch[r]]
          /\ UNCHANGED faults
       \/ ~poolOpen /\ UNCHANGED <<tables, faults>>
       \/ poolOpen /\ Fault /\ UNCHANGED tables
    /\ UNCHANGED <<start, running, poolOpen, recording, pending, walk, detail>>

-----------------------------------------------------------------------------
(* The process: the deferred calls of a command run in reverse, so the     *)
(* pool is closed before the recorder is shut down.  The goroutines of the *)
(* sync loops are not waited for and may end spans until the process does. *)

ClosePool ==
    /\ running /\ poolOpen
    /\ poolOpen' = FALSE
    /\ UNCHANGED <<life, start, running, recording, pending, batch>>
    /\ UNCHANGED <<tables, walk, detail, faults>>

(* Mutation: the deferred calls in the other order. *)
ShutdownFirst ==
    /\ running /\ recording
    /\ recording' = FALSE /\ pending' = [s \in Spans |-> {}]
    /\ UNCHANGED <<life, start, running, poolOpen, batch>>
    /\ UNCHANGED <<tables, walk, detail, faults>>

Shutdown ==
    /\ running /\ ~poolOpen /\ recording
    /\ recording' = FALSE /\ pending' = [s \in Spans |-> {}]
    /\ UNCHANGED <<life, start, running, poolOpen, batch>>
    /\ UNCHANGED <<tables, walk, detail, faults>>

(* The end of the process, which may be killed at any time. *)
Exit ==
    /\ running
    /\ \/ ~recording /\ UNCHANGED faults
       \/ Fault
    /\ running' = FALSE /\ poolOpen' = FALSE /\ recording' = FALSE
    /\ life' = [s \in Spans |-> IF Active(s) THEN "lost" ELSE life[s]]
    /\ pending' = [s \in Spans |-> {}] /\ batch' = [r \in Roots |-> {}]
    /\ UNCHANGED <<start, tables, walk, detail>>

Restart ==
    /\ ~running
    /\ running' = TRUE /\ poolOpen' = TRUE /\ recording' = TRUE
    /\ UNCHANGED <<life, start, pending, batch, tables, walk, detail, faults>>

(* runCleanupOnce: what started before some time goes, the steps with it.  *)
Cleanup ==
    /\ \E r \in executions :
          LET gone == {q \in executions : start[q] <= start[r]} IN
          /\ executions' = executions \ gone
          /\ steps' = [q \in Roots |-> IF q \in gone THEN {} ELSE steps[q]]
          /\ due' = due \ gone
    /\ UNCHANGED <<life, start, process, walking, before, shown, detail, faults>>

-----------------------------------------------------------------------------
(* The pages. *)

(* Store.List: the latest rows before the cursor. *)
List(cursor, limit) ==
    LET n    == IF limit \in 1 .. MaxLimit THEN limit ELSE DefaultLimit
        rows == {r \in executions : cursor # 0 => start[r] < cursor}
    IN {r \in rows : Cardinality({q \in rows : start[q] > start[r]}) < n}

Oldest(rows) == CHOOSE r \in rows : \A q \in rows : start[r] <= start[q]

(* Mutation: the handler compares with its own default. *)
NextBeforeDefault(rows, limit) ==
    IF Cardinality(rows) = DefaultLimit THEN start[Oldest(rows)] ELSE 0

(* The link to older rows, there when the page is full. *)
NextBefore(rows, limit) ==
    IF Cardinality(rows) = limit THEN start[Oldest(rows)] ELSE 0

(* handleExecutionsList: the first page of a walk, or the next one. *)
ShowPage(limit) ==
    LET cursor == IF walking THEN before ELSE 0
        rows   == List(cursor, limit)
    IN /\ due' = IF walking THEN due ELSE executions
       /\ shown' = rows \cup IF walking THEN shown ELSE {}
       /\ before' = NextBefore(rows, limit)
       /\ walking' = (before' # 0)
       /\ UNCHANGED <<life, start, process, tables, detail, faults>>

(* handleExecutionDetail: Get reads the row and then its steps; a page     *)
(* that was shown can be left.                                             *)
ReadExecution(r) ==
    /\ r \in executions /\ view = "none"
    /\ view' = r
    /\ UNCHANGED <<life, start, process, tables, walk, viewed, faults>>

ReadSteps ==
    /\ view # "none" /\ viewed = NotRead
    /\ viewed' = steps[view]
    /\ UNCHANGED <<life, start, process, tables, walk, view, faults>>

LeavePage ==
    /\ viewed # NotRead
    /\ view' = "none" /\ viewed' = NotRead
    /\ UNCHANGED <<life, start, process, tables, walk, faults>>

-----------------------------------------------------------------------------
Next ==
    \/ \E s \in Spans : Begin(s) \/ EndForeign(s) \/ BufferStep(s)
    \/ \E r \in Roots : TakeSteps(r) \/ WriteAll(r)
    \/ ClosePool \/ Shutdown \/ Exit \/ Restart \/ Cleanup
    \/ \E l \in Limits : ShowPage(l)
    \/ \E r \in Roots : ReadExecution(r)
    \/ ReadSteps \/ LeavePage

Spec == Init /\ [][Next]_vars

-----------------------------------------------------------------------------
(* Properties. *)

(* In a plain trace every step is in an execution, and an execution around *)
(* others has no steps of its own: it is a command that only wraps passes. *)
(* `darek blog publish` is the one command whose trace is not plain.       *)
Plain(t) ==
    /\ \A s \in Steps : trace[s] = t => enclosing[s] # "none"
    /\ \A r \in Roots : trace[r] = t /\ enclosing[r] # "none" =>
           /\ enclosing[enclosing[r]] = "none"
           /\ \A s \in Steps : enclosing[s] # enclosing[r]

(* "by design, we never surface a partial execution" (recorder.go:22-23):  *)
(* a saved execution of a plain trace has all the steps that ended in it   *)
(* and none of another one, whatever order spans end in and however the    *)
(* process stops; and so does a page that shows it, unless it was deleted  *)
(* while it was read.  In any trace a step is saved with one execution at  *)
(* most, of its own trace.                                                 *)
StepsOf(r) == {s \in Steps : enclosing[s] = r /\ life[s] = "ended"}
PlainAreWhole ==
    /\ \A r \in executions : Plain(trace[r]) => steps[r] = StepsOf(r)
    /\ viewed # NotRead /\ view \in executions /\ Plain(trace[view])
           => viewed = StepsOf(view)
SavedOnce ==
    \A r \in executions :
        /\ \A s \in steps[r] : trace[s] = trace[r] /\ life[s] = "ended"
        /\ \A q \in executions \ {r} : steps[q] \cap steps[r] = {}
WholeExecutions == PlainAreWhole /\ SavedOnce

(* The same claim for every trace, as the code words it.  The steps that   *)
(* `darek blog publish` takes before it starts the pass are saved with the *)
(* pass, and the command is saved without them.                            *)
EveryExecutionWhole == \A r \in executions : steps[r] = StepsOf(r)

(* Who follows the links to older rows to their end has seen every         *)
(* execution that was there all the time, although others are added and    *)
(* deleted in between.                                                     *)
PagingComplete == ~walking => due \subseteq shown
=============================================================================
