------------------------------ MODULE MailSync ------------------------------
(***************************************************************************)
(* The mail index of darek: tools/mail/sync.go over tools/mail/store.go    *)
(* and the IMAP client of tools/mail/imap.  `darek mail sync` goes through *)
(* the folders of every configured account in order, asks the server for   *)
(* the envelopes after the folder's last_uid, indexes them one transaction *)
(* at a time and then stores the new last_uid.  When the UIDVALIDITY of a  *)
(* folder has changed, its index is cleared and fetched again.             *)
(*                                                                         *)
(* Several invocations may overlap (cron, the user), every call may fail,  *)
(* and the first failure or a crash ends the whole pass.  A message is its *)
(* UID under the UIDVALIDITY of its folder; headers, flags and attachment  *)
(* metadata are left out.  uint32 UIDs do not wrap within MaxUid.          *)
(***************************************************************************)
EXTENDS Naturals, Sequences, FiniteSets

CONSTANTS
    Workers,     \* invocations of `darek mail sync` that may overlap
    Folders,     \* the folders of all accounts
    Plan,        \* the folders in the order a pass visits them
    MaxUid,      \* bound on the UIDs the server hands out
    MaxRenumber, \* bound on UIDVALIDITY changes
    MaxFaults    \* bound on failed calls and crashes

ASSUME PlanAssumption  == Plan \in Seq(Folders)
ASSUME BoundAssumption == MaxUid \in Nat /\ MaxRenumber \in Nat
                          /\ MaxFaults \in Nat

VARIABLES
    (* The IMAP server *)
    uv,       \* UIDVALIDITY of each folder
    msgs,     \* UIDs in each folder
    uidNext,
    (* Postgres: mail_folders and mail_messages *)
    uidvalidity, lastUid,
    rows,     \* <<uid, uv>>: the row of uid, and the UIDVALIDITY under
              \* which its envelope was fetched
    (* Process-local state of each pass *)
    pc, todo, lastUv, newLast, envs, currentUv,
    (* History and fault budget, read by no guard but the budget's *)
    renumbered, \* UIDVALIDITY changes of each folder
    mixed,    \* folders in which two passes have met, or whose interrupted
              \* first pass was taken up under another UIDVALIDITY
    faults

server == <<uv, msgs, uidNext>>
db     == <<uidvalidity, lastUid, rows>>
locals == <<pc, todo, lastUv, newLast, envs, currentUv>>
hist   == <<renumbered, mixed, faults>>
vars   == <<server, db, locals, hist>>

Uids  == 1 .. MaxUid
Steps == {"idle", "folder", "fetch", "clear", "stamp", "refetch", "insert"}

TypeOK ==
    /\ uv \in [Folders -> Nat \ {0}]
    /\ msgs \in [Folders -> SUBSET Uids]
    /\ uidNext \in [Folders -> 1 .. MaxUid + 1]
    /\ uidvalidity \in [Folders -> Nat]
    /\ lastUid \in [Folders -> 0 .. MaxUid]
    /\ rows \in [Folders -> SUBSET (Uids \X Nat)]
    /\ pc \in [Workers -> Steps]
    /\ todo \in [Workers -> Seq(Folders)]
    /\ lastUv \in [Workers -> Nat]
    /\ newLast \in [Workers -> 0 .. MaxUid]
    /\ envs \in [Workers -> SUBSET Uids]
    /\ currentUv \in [Workers -> Nat]
    /\ renumbered \in [Folders -> 0 .. MaxRenumber]
    /\ mixed \in SUBSET Folders
    /\ faults \in 0 .. MaxFaults
    /\ \A w \in Workers : envs[w] # {} => pc[w] = "insert"

Init ==
    /\ uv = [f \in Folders |-> 1]
    /\ msgs = [f \in Folders |-> {}]
    /\ uidNext = [f \in Folders |-> 1]
    /\ uidvalidity = [f \in Folders |-> 0]
    /\ lastUid = [f \in Folders |-> 0]
    /\ rows = [f \in Folders |-> {}]
    /\ pc = [w \in Workers |-> "idle"]
    /\ todo = [w \in Workers |-> <<>>]
    /\ lastUv = [w \in Workers |-> 0]
    /\ newLast = [w \in Workers |-> 0]
    /\ envs = [w \in Workers |-> {}]
    /\ currentUv = [w \in Workers |-> 0]
    /\ renumbered = [f \in Folders |-> 0]
    /\ mixed = {} /\ faults = 0

-----------------------------------------------------------------------------
(* What the server and the store answer. *)

Newest(f)  == {u \in msgs[f] : \A v \in msgs[f] : v <= u}

(* Mutant: the client drops what it did not ask for from the answer. *)
FetchedStrict(f, since) == {u \in msgs[f] : u > since}
(* Mutant: the range starts one UID too high. *)
FetchedOffByOne(f, since) == {u \in msgs[f] : u > since + 1} \cup Newest(f)

(* UID FETCH since+1:* .  "*" is the largest UID in the folder, and a range *)
(* means the same in either direction: the newest message is always in it. *)
Fetched(f, since) == {u \in msgs[f] : u > since} \cup Newest(f)

Indexed(f) == {r[1] : r \in rows[f]}

(* INSERT ... ON CONFLICT (folder_id, imap_uid) DO UPDATE SET flags: the   *)
(* envelope of a row that exists is kept.                                  *)
Upserted(f, u, v) ==
    IF u \in Indexed(f) THEN rows[f] ELSE rows[f] \cup {<<u, v>>}

-----------------------------------------------------------------------------
(* One action per step of a pass. *)

Folder(w) == Head(todo[w])
InFolder(w, f) ==
    pc[w] \notin {"idle", "folder"} /\ todo[w] # <<>> /\ Folder(w) = f

GoTo(w, step) == pc' = [pc EXCEPT ![w] = step]

(* The locals of a folder go out of scope. *)
LeaveFolder(w, step, rest) ==
    /\ GoTo(w, step)
    /\ todo' = [todo EXCEPT ![w] = rest]
    /\ lastUv' = [lastUv EXCEPT ![w] = 0]
    /\ newLast' = [newLast EXCEPT ![w] = 0]
    /\ envs' = [envs EXCEPT ![w] = {}]
    /\ currentUv' = [currentUv EXCEPT ![w] = 0]

StartSync(w) ==
    /\ pc[w] = "idle"
    /\ GoTo(w, "folder")
    /\ todo' = [todo EXCEPT ![w] = Plan]
    /\ UNCHANGED <<server, db, hist, lastUv, newLast, envs, currentUv>>

EndSync(w) ==
    /\ pc[w] = "folder" /\ todo[w] = <<>>
    /\ GoTo(w, "idle")
    /\ UNCHANGED <<server, db, hist, todo, lastUv, newLast, envs, currentUv>>

(* EnsureFolder: the row is created on first sight; its state is read. *)
EnsureFolder(w) ==
    /\ pc[w] = "folder" /\ todo[w] # <<>>
    /\ GoTo(w, "fetch")
    /\ lastUv' = [lastUv EXCEPT ![w] = uidvalidity[Folder(w)]]
    /\ newLast' = [newLast EXCEPT ![w] = lastUid[Folder(w)]]
    /\ mixed' = IF \E x \in Workers : InFolder(x, Folder(w))
                THEN mixed \cup {Folder(w)} ELSE mixed
    /\ UNCHANGED <<server, db, renumbered, faults, todo, envs, currentUv>>

(* SyncFolder(last_uid); a changed UIDVALIDITY throws the answer away. *)
FetchNew(w) ==
    LET f == Folder(w) IN
    /\ pc[w] = "fetch"
    /\ currentUv' = [currentUv EXCEPT ![w] = uv[f]]
    /\ lastUv' = [lastUv EXCEPT ![w] = 0]    \* not used again
    /\ \/ /\ lastUv[w] # 0 /\ uv[f] # lastUv[w]
          /\ GoTo(w, "clear")
          /\ UNCHANGED <<envs, mixed>>
       \/ /\ lastUv[w] = 0 \/ uv[f] = lastUv[w]
          /\ GoTo(w, "insert")
          /\ envs' = [envs EXCEPT ![w] = Fetched(f, newLast[w])]
          /\ mixed' = IF lastUv[w] = 0 /\ \E r \in rows[f] : r[2] # uv[f]
                      THEN mixed \cup {f} ELSE mixed
    /\ UNCHANGED <<server, db, renumbered, faults, todo, newLast>>

(* Mutant: only the folder row is reset. *)
KeepMessages(w) ==
    /\ pc[w] = "clear"
    /\ GoTo(w, "stamp")
    /\ UNCHANGED <<server, db, hist, todo, lastUv, newLast, envs, currentUv>>

(* ResetFolderState, first statement: DELETE FROM mail_messages. *)
ClearMessages(w) ==
    /\ pc[w] = "clear"
    /\ rows' = [rows EXCEPT ![Folder(w)] = {}]
    /\ GoTo(w, "stamp")
    /\ UNCHANGED <<server, uidvalidity, lastUid, hist, todo, lastUv, newLast,
                   envs, currentUv>>

(* ResetFolderState, second statement: UPDATE mail_folders. *)
StampFolder(w) ==
    /\ pc[w] = "stamp"
    /\ uidvalidity' = [uidvalidity EXCEPT ![Folder(w)] = currentUv[w]]
    /\ lastUid' = [lastUid EXCEPT ![Folder(w)] = 0]
    /\ GoTo(w, "refetch")
    /\ UNCHANGED <<server, rows, hist, todo, lastUv, newLast, envs,
                   currentUv>>

(* SyncFolder(0); newLast keeps the last_uid of before the reset. *)
Refetch(w) ==
    /\ pc[w] = "refetch"
    /\ currentUv' = [currentUv EXCEPT ![w] = uv[Folder(w)]]
    /\ envs' = [envs EXCEPT ![w] = Fetched(Folder(w), 0)]
    /\ GoTo(w, "insert")
    /\ UNCHANGED <<server, db, hist, todo, lastUv, newLast>>

(* One envelope, one transaction; the server answers in any order. *)
InsertEnvelope(w) ==
    /\ pc[w] = "insert"
    /\ \E u \in envs[w] :
          /\ rows' = [rows EXCEPT ![Folder(w)] =
                         Upserted(Folder(w), u, currentUv[w])]
          /\ envs' = [envs EXCEPT ![w] = @ \ {u}]
          /\ newLast' = [newLast EXCEPT ![w] = IF u > @ THEN u ELSE @]
    /\ UNCHANGED <<server, uidvalidity, lastUid, hist, pc, todo, lastUv,
                   currentUv>>

(* Mutant: the mark is stored as the next UID to ask for. *)
StoreNextUid(w) ==
    /\ pc[w] = "insert" /\ envs[w] = {}
    /\ uidvalidity' = [uidvalidity EXCEPT ![Folder(w)] = currentUv[w]]
    /\ lastUid' = [lastUid EXCEPT ![Folder(w)] = newLast[w] + 1]
    /\ LeaveFolder(w, "folder", Tail(todo[w]))
    /\ UNCHANGED <<server, rows, hist>>

(* All envelopes are in: store the folder's state and go on. *)
UpdateFolderState(w) ==
    /\ pc[w] = "insert" /\ envs[w] = {}
    /\ uidvalidity' = [uidvalidity EXCEPT ![Folder(w)] = currentUv[w]]
    /\ lastUid' = [lastUid EXCEPT ![Folder(w)] = newLast[w]]
    /\ LeaveFolder(w, "folder", Tail(todo[w]))
    /\ UNCHANGED <<server, rows, hist>>

(* Mutant: an envelope that cannot be inserted is skipped. *)
SkipEnvelope(w) ==
    /\ pc[w] = "insert" /\ faults < MaxFaults
    /\ faults' = faults + 1
    /\ \E u \in envs[w] : envs' = [envs EXCEPT ![w] = @ \ {u}]
    /\ UNCHANGED <<server, db, renumbered, mixed, pc, todo, lastUv, newLast,
                   currentUv>>

(* A call fails, before or after it took effect, or the process dies: the  *)
(* pass ends here, for the folders and accounts after this one too.        *)
Abort(w) ==
    /\ pc[w] # "idle" /\ faults < MaxFaults
    /\ faults' = faults + 1
    /\ LeaveFolder(w, "idle", <<>>)
    /\ UNCHANGED <<server, db, renumbered, mixed>>

-----------------------------------------------------------------------------
(* The mail server. *)

Deliver(f) ==
    /\ uidNext[f] <= MaxUid
    /\ msgs' = [msgs EXCEPT ![f] = @ \cup {uidNext[f]}]
    /\ uidNext' = [uidNext EXCEPT ![f] = @ + 1]
    /\ UNCHANGED <<uv, db, locals, hist>>

Expunge(f) ==
    /\ \E u \in msgs[f] : msgs' = [msgs EXCEPT ![f] = @ \ {u}]
    /\ UNCHANGED <<uv, uidNext, db, locals, hist>>

(* The folder is recreated: the messages that remain get new UIDs. *)
Renumber(f) ==
    /\ renumbered[f] < MaxRenumber
    /\ renumbered' = [renumbered EXCEPT ![f] = @ + 1]
    /\ uv' = [uv EXCEPT ![f] = @ + 1]
    /\ msgs' = [msgs EXCEPT ![f] = 1 .. Cardinality(@)]
    /\ uidNext' = [uidNext EXCEPT ![f] = Cardinality(msgs[f]) + 1]
    /\ UNCHANGED <<db, locals, mixed, faults>>

Step(w) ==
    \/ StartSync(w) \/ EnsureFolder(w) \/ FetchNew(w) \/ ClearMessages(w)
    \/ StampFolder(w) \/ Refetch(w) \/ InsertEnvelope(w)
    \/ UpdateFolderState(w) \/ EndSync(w)

Next ==
    \/ \E w \in Workers : Step(w) \/ Abort(w)
    \/ \E f \in Folders : Deliver(f) \/ Expunge(f) \/ Renumber(f)

Spec == Init /\ [][Next]_vars

(* Cron runs the command again and again, and no step of a pass waits for  *)
(* another pass.                                                           *)
FairSpec == Spec /\ \A w \in Workers : WF_vars(Step(w))

-----------------------------------------------------------------------------
(* The high-water mark never runs ahead of the index: while a folder keeps *)
(* its UIDVALIDITY, every message on the server up to last_uid is indexed, *)
(* however passes overlapped, failed or crashed (sync.go:44-56).           *)
NoGap ==
    \A f \in Folders : renumbered[f] = 0 =>
        \A u \in msgs[f] : u <= lastUid[f] => u \in Indexed(f)

(* A folder's index never holds envelopes of two UIDVALIDITYs side by      *)
(* side, nor of another one than the pass that is inserting, unless passes *)
(* have met in the folder or its interrupted first pass was taken up after *)
(* a change: the reset leaves nothing of the old state behind, wherever a  *)
(* failure cuts it (sync.go:34-43, store.go:77-85).                        *)
OneValidity ==
    \A f \in Folders \ mixed :
        /\ \A r, q \in rows[f] : r[2] = q[2]
        /\ \A w \in Workers : InFolder(w, f) /\ pc[w] = "insert" =>
              \A r \in rows[f] : r[2] = currentUv[w]

Gone(f, u) == u \notin msgs[f]

(* While a folder keeps its UIDVALIDITY, every message is eventually       *)
(* indexed unless it is expunged first, after any finite number of failed  *)
(* passes.                                                                 *)
MessageIndexed ==
    \A f \in Folders, u \in Uids :
        (u \in msgs[f] /\ renumbered[f] = 0)
            ~> (u \in Indexed(f) \/ Gone(f, u) \/ renumbered[f] > 0)

(* Also after UIDVALIDITY changes, the newest message of a folder is       *)
(* eventually indexed, unless it is expunged, a newer one arrives or the   *)
(* folder is renumbered again: the range since+1:* always holds it         *)
(* (imap.go:107).  What is indexed is the message itself, except in a      *)
(* folder that is `mixed` (see OneValidity), for ever after: there a row   *)
(* of the old UIDVALIDITY may hold its UID, and ON CONFLICT keeps the old  *)
(* envelope (store.go:124).                                                *)
NewestIndexed ==
    \A f \in Folders, u \in Uids, v \in 1 .. MaxRenumber + 1 :
        (u \in Newest(f) /\ uv[f] = v)
            ~> (\/ u \in Indexed(f) /\ (f \in mixed \/ <<u, v>> \in rows[f])
                \/ u \notin Newest(f) \/ uv[f] # v)

(* sync.go:20-21: a UIDVALIDITY change is handled "by full-resyncing", so  *)
(* that indexing goes on as before: every message is eventually indexed.   *)
ResyncedMessageIndexed ==
    \A f \in Folders, u \in Uids, v \in 1 .. MaxRenumber + 1 :
        (u \in msgs[f] /\ uv[f] = v)
            ~> (u \in Indexed(f) \/ Gone(f, u) \/ uv[f] # v \/ f \in mixed)
=============================================================================
