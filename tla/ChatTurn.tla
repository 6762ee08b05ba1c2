------------------------------ MODULE ChatTurn ------------------------------
(***************************************************************************)
(* One turn of the chat command: the model is asked, the tools it calls    *)
(* are executed one after the other, it is asked again with their answers, *)
(* at most maxIters times (agent/agent.go, tools/registry.go, cmd/darek/   *)
(* chat.go).  The tools here are mail.send, which asks the user first      *)
(* (tools/mail/send.go and confirm.go), and the tools that change a        *)
(* calendar (tools/calendar) or the tasks (tools/todoist).  Another tool   *)
(* only reads, or does not exist, or changes what LinkLibrary and          *)
(* DailyDigest describe: links, articles and memories.                     *)
(*                                                                         *)
(* A call is named by its position in the conversation; it stands for its  *)
(* arguments.  The time limit of a tool is not an action: it makes calls   *)
(* to servers fail, which they may at any time, and does not reach the     *)
(* question to the user or the SMTP dialogue, which ignore the context.    *)
(***************************************************************************)
EXTENDS Naturals, Sequences

CONSTANTS
    MaxIters,  \* requests to the model
    MaxCalls,  \* bound on the calls in one answer of the model
    Inputs,    \* what standard input may hold: lines, or Terminal
    MaxFaults  \* bound on failing requests to servers

Ids  == 1 .. MaxIters * MaxCalls
Tools == {"send", "create_event", "update_event", "delete_event",
          "create_task", "update_task", "complete_task", "other"}
Calendars == {"writable", "readonly", "unknown"}
Lines == {"yes", "no", "eof"}

(* What the model is told of a call. *)
Payloads == {"sent", "sent, no copy", "declined", "ok", "error"}

Terminal == <<"terminal">>

ASSUME IterAssumption == MaxIters \in Nat /\ MaxCalls \in Nat \ {0}
ASSUME InputAssumption ==
    /\ Inputs \subseteq Seq({"yes", "no"}) \cup {Terminal}
    /\ MaxFaults \in Nat

VARIABLES
    pc,        \* "chat", "tools", "confirm", "smtp", "append" or "ended"
    iters,
    asked,     \* calls the model has made
    calls,     \* those of its last answer that are left, with their tools
    history,   \* the tool messages: a call and its answer
    outcome,   \* of the turn
    stdin,     \* lines that are left, or Terminal
    (* The world *)
    approved,  \* calls whose preview the user answered with yes
    delivered, \* copies of a call's mail that were delivered
    copied,    \* calls whose mail is in the Sent folder
    things,    \* the event or task that a call created
    faults

turn  == <<pc, iters, asked, calls, history, outcome>>
world == <<delivered, copied, things>>
vars  == <<turn, stdin, approved, world, faults>>

Calls == [id : Ids, tool : Tools]
TypeOK ==
    /\ pc \in {"chat", "tools", "confirm", "smtp", "append", "ended"}
    /\ iters \in 0 .. MaxIters /\ asked \in 0 .. MaxIters * MaxCalls
    /\ calls \in Seq(Calls)
    /\ pc \in {"tools", "confirm", "smtp", "append"} <=> calls # <<>>
    /\ history \in Seq([call : Ids, tool : Tools, answer : Payloads])
    /\ outcome \in {"none", "ok", "error"}
    /\ stdin \in Seq({"yes", "no"}) \cup {Terminal}
    /\ approved \in SUBSET Ids /\ delivered \in [Ids -> Nat]
    /\ copied \in SUBSET Ids
    /\ things \in [Ids -> {"none", "event", "task", "gone"}]
    /\ faults \in 0 .. MaxFaults

Init ==
    /\ pc = "chat" /\ iters = 0 /\ asked = 0 /\ calls = <<>> /\ history = <<>>
    /\ outcome = "none" /\ stdin \in Inputs
    /\ approved = {} /\ delivered = [i \in Ids |-> 0] /\ copied = {}
    /\ things = [i \in Ids |-> "none"] /\ faults = 0

Fault == faults < MaxFaults /\ faults' = faults + 1

-----------------------------------------------------------------------------
(* The loop. *)

End(result) ==
    /\ pc' = "ended" /\ outcome' = result
    /\ UNCHANGED <<iters, asked, calls, history>>

(* Mutation: the last answer is looked at once more. *)
CallToolsLate ==
    /\ pc = "chat" /\ iters <= MaxIters
    /\ \E n \in 1 .. MaxCalls : \E tools \in [1 .. n -> Tools] :
          /\ calls' = [i \in 1 .. n |-> [id |-> asked + i, tool |-> tools[i]]]
          /\ asked' = asked + n
    /\ pc' = "tools"
    /\ UNCHANGED <<iters, history, outcome, stdin, approved, world, faults>>

(* The model calls tools, some of which need not exist. *)
CallTools ==
    /\ pc = "chat" /\ iters < MaxIters
    /\ \E n \in 1 .. MaxCalls : \E tools \in [1 .. n -> Tools] :
          /\ calls' = [i \in 1 .. n |-> [id |-> asked + i, tool |-> tools[i]]]
          /\ asked' = asked + n
    /\ pc' = "tools"
    /\ UNCHANGED <<iters, history, outcome, stdin, approved, world, faults>>

AnswerUser ==
    /\ pc = "chat" /\ iters < MaxIters /\ End("ok")
    /\ UNCHANGED <<stdin, approved, world, faults>>

(* An error, or an answer without a choice (agent.go:99): a panic, which   *)
(* ends the command as well.                                               *)
ChatFails ==
    /\ pc = "chat" /\ iters < MaxIters /\ Fault /\ End("error")
    /\ UNCHANGED <<stdin, approved, world>>

(* "hit max iterations": what the tools did stays done. *)
GiveUp ==
    /\ pc = "chat" /\ iters = MaxIters /\ End("error")
    /\ UNCHANGED <<stdin, approved, world, faults>>

(* Mutation: an error goes to the log and not to the model.                *)
AnswerUnlessError(payload) ==
    /\ history' = IF payload = "error" THEN history
                  ELSE Append(history, [call |-> Head(calls).id,
                                        tool |-> Head(calls).tool,
                                        answer |-> payload])
    /\ calls' = Tail(calls)
    /\ IF Len(calls) = 1 THEN pc' = "chat" /\ iters' = iters + 1
                         ELSE pc' = "tools" /\ UNCHANGED iters
    /\ UNCHANGED <<asked, outcome>>

(* The tool message for the call at hand, an error included. *)
Answer(payload) ==
    /\ history' = Append(history, [call |-> Head(calls).id,
                                   tool |-> Head(calls).tool,
                                   answer |-> payload])
    /\ calls' = Tail(calls)
    /\ IF Len(calls) = 1 THEN pc' = "chat" /\ iters' = iters + 1
                         ELSE pc' = "tools" /\ UNCHANGED iters
    /\ UNCHANGED <<asked, outcome>>

Executing(tool) == pc = "tools" /\ Head(calls).tool = tool

(* Tools that change nothing here, and names that are not registered. *)
ExecuteOther ==
    /\ Executing("other")
    /\ \E payload \in {"ok", "error"} : Answer(payload)
    /\ UNCHANGED <<stdin, approved, world, faults>>

-----------------------------------------------------------------------------
(* mail.send *)

(* Arguments are missing, the account does not exist or cannot send, the   *)
(* message replied to is unknown, or an attachment cannot be read.         *)
RefuseMail ==
    /\ Executing("send") /\ Answer("error")
    /\ UNCHANGED <<stdin, approved, world, faults>>

ShowPreview ==
    /\ Executing("send") /\ pc' = "confirm"
    /\ UNCHANGED <<iters, asked, calls, history, outcome>>
    /\ UNCHANGED <<stdin, approved, world, faults>>

(* Mutation: only a no is a no. *)
AgreesUnlessNo(line) == line # "no"

Agrees(line) == line = "yes"

(* Each question reads through a buffer of its own, which takes what a     *)
(* pipe holds, at most all of it, and is thrown away after the first line. *)
ReadLine(line) ==
    \/ stdin = Terminal /\ UNCHANGED stdin
    \/ stdin = <<>> /\ line = "eof" /\ UNCHANGED stdin
    \/ /\ stdin \notin {Terminal, <<>>} /\ line = Head(stdin)
       /\ \E n \in 1 .. Len(stdin) : stdin' = SubSeq(stdin, n + 1, Len(stdin))

Confirm ==
    /\ pc = "confirm"
    /\ \E line \in Lines :
          /\ ReadLine(line)
          /\ approved' = IF line = "yes" THEN approved \cup {Head(calls).id}
                         ELSE approved
          /\ IF Agrees(line)
             THEN pc' = "smtp" /\ UNCHANGED <<iters, asked, calls, history, outcome>>
             ELSE Answer("declined")
    /\ UNCHANGED <<world, faults>>

ReadFails ==
    /\ pc = "confirm" /\ Fault /\ Answer("error")
    /\ UNCHANGED <<stdin, approved, world>>

Deliver == delivered' = [delivered EXCEPT ![Head(calls).id] = @ + 1]

(* Mutation: the tool looks for a copy to store before it looks for errors. *)
SmtpSendUnchecked ==
    /\ pc = "smtp"
    /\ \/ Deliver /\ UNCHANGED faults
       \/ Fault /\ (Deliver \/ UNCHANGED delivered)
    /\ pc' = "append" /\ UNCHANGED <<iters, asked, calls, history, outcome>>
    /\ UNCHANGED <<stdin, approved, copied, things>>

(* The server takes the mail; or the dialogue breaks off, perhaps when it  *)
(* had taken it already.  A recipient it does not want ends the dialogue.  *)
SmtpSend ==
    /\ pc = "smtp"
    /\ \/ /\ Deliver /\ pc' = "append"
          /\ UNCHANGED <<iters, asked, calls, history, outcome, faults>>
       \/ /\ Fault /\ (Deliver \/ UNCHANGED delivered)
          /\ Answer("error")
    /\ UNCHANGED <<stdin, approved, copied, things>>

(* The copy for the Sent folder, without which the mail is sent all the    *)
(* same.                                                                   *)
AppendCopy ==
    /\ pc = "append"
    /\ \/ /\ copied' = copied \cup {Head(calls).id} /\ Answer("sent")
          /\ UNCHANGED faults
       \/ /\ Fault /\ Answer("sent, no copy")
          /\ copied' \in {copied, copied \cup {Head(calls).id}}
    /\ UNCHANGED <<stdin, approved, delivered, things>>

-----------------------------------------------------------------------------
(* Calendars and tasks. *)

(* Bad arguments, an end before its start, an unknown calendar, or one     *)
(* that cannot be written.                                                 *)
RefuseEvent ==
    /\ pc = "tools"
    /\ Head(calls).tool \in {"create_event", "update_event", "delete_event"}
    /\ Answer("error")
    /\ UNCHANGED <<stdin, approved, world, faults>>

(* Bad arguments, or no id or content. *)
RefuseTask ==
    /\ pc = "tools"
    /\ Head(calls).tool \in {"create_task", "update_task", "complete_task"}
    /\ Answer("error")
    /\ UNCHANGED <<stdin, approved, world, faults>>

(* The change a server makes; the answer to it may be lost. *)
Change(new) ==
    /\ \/ things' = new /\ Answer("ok") /\ UNCHANGED faults
       \/ Fault /\ things' \in {things, new} /\ Answer("error")
    /\ UNCHANGED <<stdin, approved, delivered, copied>>

(* What is removed was created by a call, or was there before. *)
Removals(kind) ==
    {things} \cup
    {[things EXCEPT ![id] = "gone"] : id \in {i \in Ids : things[i] = kind}}

(* The model picks a calendar by nickname; a feed is read-only. *)
Writable(calendar) == calendar = "writable"

CreateEvent ==
    /\ Executing("create_event")
    /\ \E calendar \in Calendars :
          /\ Writable(calendar)
          /\ Change([things EXCEPT ![Head(calls).id] = "event"])

UpdateEvent ==
    /\ Executing("update_event")
    /\ \E calendar \in Calendars : Writable(calendar) /\ Change(things)

DeleteEvent ==
    /\ Executing("delete_event")
    /\ \E calendar \in Calendars, new \in Removals("event") :
          Writable(calendar) /\ Change(new)

CreateTask ==
    /\ Executing("create_task")
    /\ Change([things EXCEPT ![Head(calls).id] = "task"])

UpdateTask ==
    /\ Executing("update_task")
    /\ Change(things)

CompleteTask ==
    /\ Executing("complete_task")
    /\ \E new \in Removals("task") : Change(new)

-----------------------------------------------------------------------------
Next ==
    \/ CallTools \/ AnswerUser \/ ChatFails \/ GiveUp
    \/ ExecuteOther
    \/ RefuseMail \/ ShowPreview \/ Confirm \/ ReadFails \/ SmtpSend \/ AppendCopy
    \/ RefuseEvent \/ CreateEvent \/ UpdateEvent \/ DeleteEvent
    \/ RefuseTask \/ CreateTask \/ UpdateTask \/ CompleteTask

Spec == Init /\ [][Next]_vars

-----------------------------------------------------------------------------
(* Properties. *)

(* A mail goes out once for a yes to its own preview, and never otherwise, *)
(* be it for a question that nobody can answer.                            *)
ConfirmedOnly ==
    /\ \A id \in Ids : delivered[id] > 0 => id \in approved /\ delivered[id] = 1
    /\ copied \subseteq {id \in Ids : delivered[id] = 1}

(* What the model is told, and tells the user, is what happened: a mail it *)
(* takes for sent was, one it takes for declined was not, and an event or  *)
(* a task it takes for created is there or was removed since.              *)
ToldTheTruth ==
    \A i \in DOMAIN history : LET m == history[i] IN
        /\ m.answer \in {"sent", "sent, no copy"} => delivered[m.call] = 1
        /\ m.answer = "sent" => m.call \in copied
        /\ m.answer = "declined" => delivered[m.call] = 0
        /\ m.tool \in {"create_event", "create_task"} /\ m.answer = "ok"
               => things[m.call] # "none"

MailAsAgreed == ConfirmedOnly /\ ToldTheTruth

(* The model is asked again only when each of its calls has one answer, in *)
(* the order of the calls: without that the API refuses the conversation.  *)
AnsweredInOrder ==
    pc = "chat" => /\ Len(history) = asked
                   /\ \A i \in 1 .. asked : history[i].call = i
=============================================================================
