----------------------------- MODULE DailyDigest -----------------------------
(***************************************************************************)
(* From a WhatsApp group to the daily mail: the event handler stores the   *)
(* messages of groups the user opted in (tools/whatsapp/manager.go and     *)
(* store.go), and `darek calendar daily-digest`, which cron starts once a  *)
(* day, sums up what is new, extracts memories from it, sends one mail and *)
(* marks what it sent (cmd/darek/daily_digest.go, whatsapp/summary.go and  *)
(* memory/orchestrate.go).                                                 *)
(*                                                                         *)
(* A digest reads each table when it gets there; between its reads and its *)
(* marks lie calls to a model and to the mail server, while the handler,   *)
(* the user and another digest started by hand go on.                      *)
(*                                                                         *)
(* Messages are numbered in the order they were sent.  The table memories  *)
(* stands for the messages whose memories it holds; what a memory says is  *)
(* left out.  Groups are numbers in the order of their names.  The agenda  *)
(* that fills the rest of the mail is in Agenda.                           *)
(***************************************************************************)
EXTENDS Naturals, FiniteSets

CONSTANTS
    Digests,     \* runs of the command that may overlap
    Groups,
    OptedIn,     \* groups the user opted in before; the others are unknown
    GroupOf,     \* the group of each message: a sequence
    Calendars,
    TranscriptMax, \* messages that fit into what a model is sent;
                   \* 6000 characters in the code
    FallbackMax, \* messages shown when a summary fails; 10 in the code
    MaxToggles,  \* bound on clicks of the user
    MaxFaults    \* bound on failed calls other than the model's, and crashes

Msgs == DOMAIN GroupOf

ASSUME GroupAssumption ==
    /\ Groups \subseteq Nat /\ OptedIn \subseteq Groups
    /\ Msgs \subseteq Nat \ {0} /\ GroupOf \in [Msgs -> Groups]
ASSUME BoundAssumption ==
    /\ TranscriptMax \in Nat /\ FallbackMax \in Nat
    /\ MaxToggles \in Nat /\ MaxFaults \in Nat

VARIABLES
    (* Postgres *)
    group,      \* "unknown", "off" or "on" (ingest_enabled)
    stored,     \* whatsapp_messages
    summarized, \* rows whose summarized_at is set
    extracted,  \* rows whose memories_extracted_at is set
    learned,    \* messages whose memories have been saved
    old,        \* messages up to this one are older than LookbackDays
    (* The mailbox of the user *)
    mailed,     \* messages told of in a mail that arrived
    (* Process-local state of each digest *)
    pc,
    todo,       \* groups left in the current loop
    ids,        \* messages to be marked once the mail is sent
    shown,      \* messages the sections tell of
    batch,      \* messages being extracted
    toggles, faults

tables  == <<group, stored, summarized, extracted, learned, old>>
locals  == <<pc, todo, ids, shown, batch>>
budgets == <<toggles, faults>>
vars    == <<tables, mailed, locals, budgets>>

Pcs == {"idle", "groups", "summary", "memgroups", "memory", "save", "extracted",
        "send", "mark"}

TypeOK ==
    /\ group \in [Groups -> {"unknown", "off", "on"}]
    /\ stored \in SUBSET Msgs
    /\ summarized \in SUBSET stored /\ extracted \in SUBSET stored
    /\ learned \in SUBSET stored /\ old \in Msgs \cup {0}
    /\ mailed \in SUBSET stored
    /\ pc \in [Digests -> Pcs]
    /\ todo \in [Digests -> SUBSET Groups]
    /\ ids \in [Digests -> SUBSET stored]
    /\ shown \in [Digests -> SUBSET stored]
    /\ \A d \in Digests : shown[d] \subseteq ids[d]
    /\ batch \in [Digests -> SUBSET stored]
    /\ toggles \in 0 .. MaxToggles /\ faults \in 0 .. MaxFaults

Init ==
    /\ group = [g \in Groups |-> IF g \in OptedIn THEN "on" ELSE "unknown"]
    /\ stored = {} /\ summarized = {} /\ extracted = {} /\ learned = {}
    /\ old = 0 /\ mailed = {}
    /\ pc = [d \in Digests |-> "idle"]
    /\ todo = [d \in Digests |-> {}]
    /\ ids = [d \in Digests |-> {}]
    /\ shown = [d \in Digests |-> {}]
    /\ batch = [d \in Digests |-> {}]
    /\ toggles = 0 /\ faults = 0

Fault == faults < MaxFaults /\ faults' = faults + 1

-----------------------------------------------------------------------------
(* The queries. *)

First(gs) == CHOOSE g \in gs : \A h \in gs : g <= h
OptedInGroups == {g \in Groups : group[g] = "on"}
Recent(g) == {m \in stored : GroupOf[m] = g /\ m > old}
UnsummarizedMessages(g) == Recent(g) \ summarized
UnextractedMessages(g)  == Recent(g) \ extracted

(* What a model is sent, to be summed up or to extract memories from, and  *)
(* what is shown when a summary fails: both the most recent messages only. *)
Newest(msgs, most) ==
    {m \in msgs : Cardinality({n \in msgs : n > m}) < most}
Transcript(msgs) == Newest(msgs, TranscriptMax)
Fallback(msgs)   == Newest(msgs, FallbackMax)

(* Sources.ListEvents: what the calendars answer, and whether it is an     *)
(* error.  If one fails it matters whether another has events.             *)
Answers == [Calendars -> {"events", "none", "failed"}]
Failed(answer) == \E c \in Calendars : answer[c] = "failed"
AllFailed(answer) == Failed(answer) /\ \A c \in Calendars : answer[c] # "events"

-----------------------------------------------------------------------------
(* The handler, the web pages and the passing of time. *)

(* A message, perhaps not for the first time: one of an unknown group only *)
(* makes the group known, and inserting it again changes nothing.          *)
IngestMessage(m) ==
    LET g == GroupOf[m] IN
    /\ m > old
    /\ \/ /\ group[g] = "unknown"
          /\ group' = [group EXCEPT ![g] = "off"] /\ UNCHANGED <<stored, faults>>
       \/ /\ group[g] = "on" /\ m \notin stored
          /\ stored' = stored \cup {m} /\ UNCHANGED <<group, faults>>
       \/ group[g] = "on" /\ m \notin stored /\ Fault /\ UNCHANGED <<group, stored>>
    /\ UNCHANGED <<summarized, extracted, learned, old, mailed, locals, toggles>>

(* Groups that are known keep their flag. *)
RefreshGroups ==
    /\ \E g \in Groups : group[g] = "unknown"
    /\ group' = [g \in Groups |-> IF group[g] = "unknown" THEN "off" ELSE group[g]]
    /\ UNCHANGED <<stored, summarized, extracted, learned, old, mailed, locals, budgets>>

SetIngestEnabled(g) ==
    /\ group[g] # "unknown" /\ toggles < MaxToggles
    /\ group' = [group EXCEPT ![g] = IF @ = "on" THEN "off" ELSE "on"]
    /\ toggles' = toggles + 1
    /\ UNCHANGED <<stored, summarized, extracted, learned, old, mailed, locals, faults>>

Age ==
    /\ \E m \in Msgs : m > old /\ old' = m
    /\ UNCHANGED <<group, stored, summarized, extracted, learned, mailed, locals, budgets>>

-----------------------------------------------------------------------------
(* One digest. *)

Goto(d, step) == pc' = [pc EXCEPT ![d] = step]

(* The command ends, and its process with it. *)
Exit(d) ==
    /\ Goto(d, "idle")
    /\ todo' = [todo EXCEPT ![d] = {}] /\ ids' = [ids EXCEPT ![d] = {}]
    /\ shown' = [shown EXCEPT ![d] = {}] /\ batch' = [batch EXCEPT ![d] = {}]

(* The calendars are listed first; if that fails the command ends at once. *)
ListEvents(d) ==
    /\ pc[d] = "idle"
    /\ \E answer \in Answers :
          /\ IF AllFailed(answer) THEN UNCHANGED pc ELSE Goto(d, "groups")
          /\ IF Failed(answer) THEN Fault ELSE UNCHANGED faults
    /\ UNCHANGED <<tables, mailed, todo, ids, shown, batch, toggles>>

(* BuildSummary; an error leaves the mail without its section. *)
SummaryFails(d) ==
    /\ Fault /\ Goto(d, "memgroups")
    /\ todo' = [todo EXCEPT ![d] = {}] /\ ids' = [ids EXCEPT ![d] = {}]
    /\ shown' = [shown EXCEPT ![d] = {}]

StartSummary(d) ==
    /\ pc[d] = "groups"
    /\ \/ /\ Goto(d, "summary") /\ todo' = [todo EXCEPT ![d] = OptedInGroups]
          /\ UNCHANGED <<ids, shown, faults>>
       \/ SummaryFails(d)
    /\ UNCHANGED <<tables, mailed, batch, toggles>>

(* Mutation: a group whose summary fails is left for tomorrow. *)
SectionSkipsFailure(d, g) ==
    LET msgs == UnsummarizedMessages(g) IN
    \/ /\ ids' = [ids EXCEPT ![d] = @ \cup msgs]
       /\ shown' = [shown EXCEPT ![d] = @ \cup msgs]
    \/ UNCHANGED <<ids, shown>>

(* Mutation: a group whose summary fails is shown and not marked.  *)
SectionShowsOnly(d, g) ==
    LET msgs == UnsummarizedMessages(g) IN
    /\ shown' = [shown EXCEPT ![d] = @ \cup msgs]
    /\ \/ ids' = [ids EXCEPT ![d] = @ \cup msgs]
       \/ UNCHANGED ids

(* The section of a group: all its messages are to be marked.  A summary   *)
(* tells of its transcript.  The model may fail any number of times.       *)
Section(d, g) ==
    LET msgs == UnsummarizedMessages(g) IN
    /\ ids' = [ids EXCEPT ![d] = @ \cup msgs]
    /\ \/ shown' = [shown EXCEPT ![d] = @ \cup Transcript(msgs)]
       \/ shown' = [shown EXCEPT ![d] = @ \cup Fallback(msgs)]

SummarizeGroup(d) ==
    /\ pc[d] = "summary" /\ todo[d] # {}
    /\ \/ /\ Section(d, First(todo[d]))
          /\ todo' = [todo EXCEPT ![d] = @ \ {First(@)}]
          /\ UNCHANGED <<pc, faults>>
       \/ SummaryFails(d)
    /\ UNCHANGED <<tables, mailed, batch, toggles>>

(* BuildMemories; a failure costs the memories of one group at most, and   *)
(* never the mail.                                                         *)
StartMemories(d) ==
    /\ \/ pc[d] = "summary" /\ todo[d] = {}
       \/ pc[d] = "memgroups"
    /\ \/ /\ Goto(d, "memory") /\ todo' = [todo EXCEPT ![d] = OptedInGroups]
          /\ UNCHANGED faults
       \/ Fault /\ Goto(d, "send") /\ todo' = [todo EXCEPT ![d] = {}]
    /\ UNCHANGED <<tables, mailed, ids, shown, batch, toggles>>

Extract(d) ==
    /\ pc[d] = "memory" /\ todo[d] # {}
    /\ LET msgs == UnextractedMessages(First(todo[d])) IN
       \/ msgs # {} /\ batch' = [batch EXCEPT ![d] = msgs] /\ Goto(d, "save")
       \/ UNCHANGED <<pc, batch>>
    /\ todo' = [todo EXCEPT ![d] = @ \ {First(@)}]
    /\ UNCHANGED <<tables, mailed, ids, shown, budgets>>

SaveMemories(d) ==
    /\ pc[d] = "save"
    /\ \/ /\ learned' = learned \cup Transcript(batch[d]) /\ Goto(d, "extracted")
          /\ UNCHANGED <<batch, faults>>
       \/ /\ Fault /\ Goto(d, "memory") /\ batch' = [batch EXCEPT ![d] = {}]
          /\ UNCHANGED learned
    /\ UNCHANGED <<group, stored, summarized, extracted, old, mailed>>
    /\ UNCHANGED <<todo, ids, shown, toggles>>

MarkMemoriesExtracted(d) ==
    /\ pc[d] = "extracted"
    /\ \/ extracted' = extracted \cup batch[d] /\ UNCHANGED faults
       \/ Fault /\ UNCHANGED extracted
    /\ Goto(d, "memory") /\ batch' = [batch EXCEPT ![d] = {}]
    /\ UNCHANGED <<group, stored, summarized, learned, old, mailed>>
    /\ UNCHANGED <<todo, ids, shown, toggles>>

Compose(d) ==
    /\ pc[d] = "memory" /\ todo[d] = {}
    /\ Goto(d, "send")
    /\ UNCHANGED <<tables, mailed, todo, ids, shown, batch, budgets>>

(* Mutation: an error of the mail server does not end the command. *)
SendAnyway(d) ==
    /\ pc[d] = "send"
    /\ Goto(d, "mark")
    /\ \/ mailed' = mailed \cup shown[d] /\ UNCHANGED faults
       \/ Fault /\ UNCHANGED mailed
    /\ UNCHANGED <<tables, todo, ids, shown, batch, toggles>>

(* The mail server may take the mail, refuse it, or take it and then fail  *)
(* to say so; the last two end the command with nothing marked.            *)
Send(d) ==
    /\ pc[d] = "send"
    /\ \/ /\ mailed' = mailed \cup shown[d] /\ Goto(d, "mark")
          /\ UNCHANGED <<todo, ids, shown, batch, faults>>
       \/ Fault /\ Exit(d) /\ mailed' \in {mailed, mailed \cup shown[d]}
    /\ UNCHANGED <<tables, toggles>>

MarkSummarized(d) ==
    /\ pc[d] = "mark"
    /\ \/ summarized' = summarized \cup ids[d] /\ UNCHANGED faults
       \/ Fault /\ UNCHANGED summarized
    /\ Exit(d)
    /\ UNCHANGED <<group, stored, extracted, learned, old, mailed, toggles>>

Crash(d) ==
    /\ pc[d] # "idle" /\ Fault /\ Exit(d)
    /\ UNCHANGED <<tables, mailed, toggles>>

Digest(d) ==
    \/ ListEvents(d) \/ StartSummary(d) \/ SummarizeGroup(d)
    \/ StartMemories(d) \/ Extract(d) \/ SaveMemories(d)
    \/ MarkMemoriesExtracted(d) \/ Compose(d) \/ Send(d) \/ MarkSummarized(d)

Next ==
    \/ \E m \in Msgs : IngestMessage(m)
    \/ RefreshGroups \/ \E g \in Groups : SetIngestEnabled(g)
    \/ Age
    \/ \E d \in Digests : Digest(d) \/ Crash(d)

Spec == Init /\ [][Next]_vars

(* Cron starts the command again and again, and a command that runs goes   *)
(* on.  Nobody has to write, click or grow old.                            *)
FairSpec == Spec /\ \A d \in Digests : WF_vars(Digest(d))

-----------------------------------------------------------------------------
(* Properties. *)

(* Messages with at least `room` newer ones in their group. *)
PushedOut(room) ==
    {m \in stored :
        Cardinality({n \in stored : GroupOf[n] = GroupOf[m] /\ n > m}) >= room}
Room == IF FallbackMax < TranscriptMax THEN FallbackMax ELSE TranscriptMax

(* A message is marked as summarised only once a mail that tells of it has *)
(* arrived, and as extracted only once its memories are saved, whatever    *)
(* fails or crashes in between and however digests overlap: both are       *)
(* handed over at least once.  The only ones that may be missed are those  *)
(* with more newer messages in their group than the mail, or the model,    *)
(* has room for: they were cut off.                                        *)
Mail   == INSTANCE Handoff WITH Items <- Msgs, released <- summarized,
                                arrived <- mailed \cup PushedOut(Room)
Memory == INSTANCE Handoff WITH Items <- Msgs, released <- extracted,
                                arrived <- learned \cup PushedOut(TranscriptMax)
NothingLost == Mail!Spec /\ Memory!Spec

(* What the code says of itself: "we won't lose any messages from the      *)
(* user's view" (daily_digest.go:236-237), and a group whose summary fails *)
(* is not marked (summary.go:205-207).  Messages that are cut off are      *)
(* marked all the same.                                                    *)
View == INSTANCE Handoff WITH Items <- Msgs, released <- summarized,
                              arrived <- mailed
NothingLostFromView == View!Spec

(* A stored message is told of in a mail in the end, even if the model     *)
(* never answers, unless it is cut off, or is first more than LookbackDays *)
(* old, or its group is no longer opted in.                                *)
EventuallyMailed ==
    \A m \in Msgs :
        m \in stored ~> \/ m \in mailed \cup PushedOut(Room)
                       \/ m <= old \/ group[GroupOf[m]] # "on"
=============================================================================
