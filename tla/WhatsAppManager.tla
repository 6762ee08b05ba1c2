--------------------------- MODULE WhatsAppManager ---------------------------
(***************************************************************************)
(* The WhatsApp connection of `darek serve` (tools/whatsapp/manager.go and *)
(* pairing.go): the loop Run, which pairs the device by a QR code, connects *)
(* and sleeps until the connection drops; the event handler, which whatsmeow *)
(* calls on its own goroutines; and the Unpair button.  They share the     *)
(* client, the pairing snapshot that the web pages read, and the channel   *)
(* drop, which holds one token.                                            *)
(*                                                                         *)
(* whatsmeow and WhatsApp are external.  Its events are handed over on     *)
(* goroutines of their own, so pending events are handled in any order.  A *)
(* Disconnect or a Logout that darek asks for raises no event, and neither *)
(* does the stream that a logout from the phone closes beyond its own.     *)
(*                                                                         *)
(* The session store is the one in Postgres.  Texts of codes, device names *)
(* and the times of the snapshot are left out; group messages, which the   *)
(* handler stores, are in DailyDigest.                                     *)
(***************************************************************************)
EXTENDS Naturals, Sequences

CONSTANTS
    MaxDrops,    \* bound on connections the server drops
    MaxLogouts,  \* bound on logouts from the phone
    MaxFaults,   \* bound on failed calls
    MaxUnpairs,  \* bound on clicks on Unpair
    MaxRestarts  \* bound on restarts of the process

ASSUME BoundAssumption ==
    /\ MaxDrops \in Nat /\ MaxLogouts \in Nat /\ MaxFaults \in Nat
    /\ MaxUnpairs \in Nat /\ MaxRestarts \in Nat

VARIABLES
    (* WhatsApp and the session store *)
    linked,   \* the phone lists the stored device
    stored,   \* the store holds a session
    (* The client and its QR channel *)
    cl,       \* its session: "none", "fresh" (ID nil), "paired", "deleted"
    up,       \* it is connected
    qr,       \* [open, sent: a code was sent, queue: not read yet]
    (* Shared by Run, the handler and the web *)
    st,       \* the snapshot: [paired, connected, qr]
    drop,     \* the channel holds its token
    pending,  \* events raised and not handled, by kind
    (* Control *)
    pc,       \* Run
    device,   \* what GetFirstDevice gave Run
    upc,      \* Unpair
    unpaired, \* history: Unpair was clicked since the last restart
    budget    \* what is left of each bound

remote == <<linked, stored>>
client == <<cl, up, qr>>
shared == <<st, drop, pending>>
vars   == <<remote, client, shared, pc, device, upc, unpaired, budget>>

Clients == {"none", "fresh", "paired", "deleted"}
Events  == {"Connected", "Disconnected", "LoggedOut"}
Budgets == {"drops", "logouts", "faults", "unpairs", "restarts"}
Bounds  == [b \in Budgets |-> CASE b = "drops"    -> MaxDrops
                               [] b = "logouts"  -> MaxLogouts
                               [] b = "faults"   -> MaxFaults
                               [] b = "unpairs"  -> MaxUnpairs
                               [] b = "restarts" -> MaxRestarts]
Pcs  == {"top", "client", "check", "pair", "open", "codes", "wait", "paired",
         "connect", "asleep", "stopped"}
Upcs == {"idle", "logout", "reset", "delete"}

QREvents   == {"code", "success", "failed"}
QRChannels == [open: BOOLEAN, sent: BOOLEAN, queue: Seq(QREvents)]
Snapshots  == [paired: BOOLEAN, connected: BOOLEAN, qr: BOOLEAN]

TypeOK ==
    /\ linked \in BOOLEAN /\ stored \in BOOLEAN
    /\ cl \in Clients /\ up \in BOOLEAN
    /\ qr \in QRChannels /\ st \in Snapshots
    /\ drop \in BOOLEAN
    /\ pending \in [Events -> Nat]
    /\ pc \in Pcs /\ device \in {"fresh", "paired"} /\ upc \in Upcs
    /\ unpaired \in BOOLEAN
    /\ budget \in [Budgets -> Nat]

NoState == [paired |-> FALSE, connected |-> FALSE, qr |-> FALSE]
NoQR    == [open |-> FALSE, sent |-> FALSE, queue |-> <<>>]

Init ==
    /\ linked \in BOOLEAN /\ stored \in BOOLEAN /\ (linked => stored)
    /\ cl = "none" /\ up = FALSE /\ qr = NoQR
    /\ st = NoState /\ drop = FALSE /\ pending = [e \in Events |-> 0]
    /\ pc = "top" /\ device = "fresh" /\ upc = "idle" /\ unpaired = FALSE
    /\ budget = Bounds

Spend(b) == budget[b] > 0 /\ budget' = [budget EXCEPT ![b] = @ - 1]

-----------------------------------------------------------------------------
(* The snapshot and the drop channel. *)

SetPaired    == [st EXCEPT !.paired = TRUE, !.qr = FALSE]
SetQR        == [st EXCEPT !.qr = TRUE]
SetConnected(on) == [st EXCEPT !.connected = on]
Reset        == NoState

(* Mutation: a channel without a buffer takes nothing unless Run sleeps. *)
SignalDropUnbuffered == drop' = (drop \/ pc = "asleep")

(* The channel has room for one token: a second one is dropped. *)
SignalDrop == drop' = TRUE

Raise(e) == pending' = [pending EXCEPT ![e] = @ + 1]

-----------------------------------------------------------------------------
(* The loop. *)

(* Mutation: without a stored session GetFirstDevice gives nil. *)
GetFirstDeviceNil ==
    /\ pc = "top"
    /\ device' = IF stored THEN "paired" ELSE "none"
    /\ pc' = "client"
    /\ UNCHANGED <<remote, client, shared, upc, unpaired, budget>>

GetFirstDevice ==
    /\ pc = "top"
    /\ \/ /\ device' = IF stored THEN "paired" ELSE "fresh"
          /\ pc' = "client" /\ UNCHANGED budget
       \/ Spend("faults") /\ pc' = "stopped" /\ UNCHANGED device
    /\ UNCHANGED <<remote, client, shared, upc, unpaired>>

(* A client without a live session is replaced by one for the device read. *)
MakeClient ==
    /\ pc = "client"
    /\ IF cl = "paired" THEN UNCHANGED client
       ELSE cl' = device /\ up' = FALSE /\ qr' = NoQR
    /\ pc' = "check"
    /\ UNCHANGED <<remote, shared, device, upc, unpaired, budget>>

CheckPaired ==
    /\ pc = "check"
    /\ pc' = IF cl = "paired" THEN "paired" ELSE "pair"
    /\ UNCHANGED <<remote, client, shared, device, upc, unpaired, budget>>

(* Mutation: pairing starts with the snapshot left as it is. *)
StartPairingNoReset ==
    /\ pc = "pair"
    /\ pc' = "open"
    /\ UNCHANGED <<remote, client, shared, device, upc, unpaired, budget>>

StartPairing ==
    /\ pc = "pair"
    /\ st' = Reset /\ pc' = "open"
    /\ UNCHANGED <<remote, client, drop, pending, device, upc, unpaired, budget>>

(* GetQRChannel and Connect. *)
OpenQR ==
    /\ pc = "open"
    /\ \/ /\ up' = TRUE /\ qr' = [NoQR EXCEPT !.open = TRUE]
          /\ pc' = "codes" /\ UNCHANGED budget
       \/ Spend("faults") /\ pc' = "wait" /\ UNCHANGED <<up, qr>>
    /\ UNCHANGED <<remote, cl, shared, device, upc, unpaired>>

(* Mutation: a pairing that fails does not end the loop over the codes. *)
ReadQROnlySuccess ==
    /\ pc = "codes" /\ qr.queue # <<>>
    /\ qr' = [qr EXCEPT !.queue = Tail(@)]
    /\ \/ Head(qr.queue) = "code"    /\ st' = SetQR     /\ UNCHANGED pc
       \/ Head(qr.queue) = "success" /\ st' = SetPaired /\ pc' = "top"
       \/ Head(qr.queue) = "failed"  /\ UNCHANGED <<st, pc>>
    /\ UNCHANGED <<remote, cl, up, drop, pending, device, upc, unpaired, budget>>

(* The loop over the QR channel: a code is shown, success ends it, and so  *)
(* does any failure, with an error.                                        *)
ReadQR ==
    /\ pc = "codes" /\ qr.queue # <<>>
    /\ qr' = [qr EXCEPT !.queue = Tail(@)]
    /\ \/ Head(qr.queue) = "code"    /\ st' = SetQR     /\ UNCHANGED pc
       \/ Head(qr.queue) = "success" /\ st' = SetPaired /\ pc' = "top"
       \/ Head(qr.queue) = "failed"  /\ UNCHANGED st    /\ pc' = "wait"
    /\ UNCHANGED <<remote, cl, up, drop, pending, device, upc, unpaired, budget>>

Retry ==
    /\ pc = "wait" /\ pc' = "top"
    /\ UNCHANGED <<remote, client, shared, device, upc, unpaired, budget>>

ShowPaired ==
    /\ pc = "paired"
    /\ st' = SetPaired /\ pc' = "connect"
    /\ UNCHANGED <<remote, client, drop, pending, device, upc, unpaired, budget>>

(* What becomes of a new connection: WhatsApp greets a linked device, and  *)
(* logs out one the phone has removed, which deletes its session.  One     *)
(* without a session is accepted, to be paired.                            *)
Connects ==
    \/ /\ cl = "paired" /\ linked
       /\ up' = TRUE /\ Raise("Connected") /\ UNCHANGED <<cl, stored>>
    \/ /\ cl = "paired" /\ ~linked
       /\ cl' = "deleted" /\ stored' = FALSE /\ Raise("LoggedOut") /\ UNCHANGED up
    \/ cl # "paired" /\ up' = TRUE /\ UNCHANGED <<cl, stored, pending>>

Connect ==
    /\ pc = "connect"
    /\ \/ up /\ pc' = "asleep" /\ UNCHANGED <<cl, up, stored, pending, budget>>
       \/ ~up /\ Connects /\ pc' = "asleep" /\ UNCHANGED budget
       \/ /\ ~up /\ Spend("faults")
          /\ pc' = "wait" /\ UNCHANGED <<cl, up, stored, pending>>
    /\ UNCHANGED <<linked, qr, st, drop, device, upc, unpaired>>

WakeUp ==
    /\ pc = "asleep" /\ drop
    /\ drop' = FALSE /\ pc' = "top"
    /\ UNCHANGED <<remote, client, st, pending, device, upc, unpaired, budget>>

Run == GetFirstDevice \/ MakeClient \/ CheckPaired \/ StartPairing \/ OpenQR
       \/ ReadQR \/ Retry \/ ShowPaired \/ Connect \/ WakeUp

-----------------------------------------------------------------------------
(* The event handler: any pending event may be next. *)

HandleEvent(e) ==
    /\ pending[e] > 0
    /\ pending' = [pending EXCEPT ![e] = @ - 1]
    /\ \/ e = "Connected" /\ st' = SetConnected(TRUE) /\ UNCHANGED drop
       \/ e = "Disconnected" /\ st' = SetConnected(FALSE) /\ SignalDrop
       \/ e = "LoggedOut" /\ st' = Reset /\ SignalDrop
    /\ UNCHANGED <<remote, client, pc, device, upc, unpaired, budget>>

-----------------------------------------------------------------------------
(* The Unpair button: the client is read once; a logout that fails is      *)
(* ignored, the snapshot is reset, and what is stored is deleted.          *)

StartUnpair ==
    /\ upc = "idle" /\ Spend("unpairs")
    /\ upc' = (IF cl = "none" THEN "reset" ELSE "logout") /\ unpaired' = TRUE
    /\ UNCHANGED <<remote, client, shared, pc, device>>

Logout ==
    /\ upc = "logout"
    /\ \/ /\ up /\ cl = "paired"
          /\ linked' = FALSE /\ stored' = FALSE /\ cl' = "deleted"
          /\ UNCHANGED budget
       \/ up /\ cl = "paired" /\ Spend("faults") /\ UNCHANGED <<remote, cl>>
       \/ ~(up /\ cl = "paired") /\ UNCHANGED <<remote, cl, budget>>
    /\ up' = FALSE /\ upc' = "reset"
    /\ UNCHANGED <<qr, shared, pc, device, unpaired>>

UnpairReset ==
    /\ upc = "reset"
    /\ st' = Reset /\ upc' = "delete"
    /\ UNCHANGED <<remote, client, drop, pending, pc, device, unpaired, budget>>

DeleteDevice ==
    /\ upc = "delete"
    /\ \/ stored' = FALSE /\ UNCHANGED budget
       \/ Spend("faults") /\ UNCHANGED stored
    /\ upc' = "idle"
    /\ UNCHANGED <<linked, client, shared, pc, device, unpaired>>

Unpair == StartUnpair \/ Logout \/ UnpairReset \/ DeleteDevice

-----------------------------------------------------------------------------
(* whatsmeow, the phone and the process. *)

Push(e) == [qr EXCEPT !.open = (e = "code"), !.sent = TRUE,
                      !.queue = Append(@, e)]

SendCode ==
    /\ qr.open /\ qr.queue = <<>>
    /\ qr' = Push("code")
    /\ UNCHANGED <<remote, cl, up, shared, pc, device, upc, unpaired, budget>>

(* The codes are used up, or pairing fails: whatsmeow disconnects. *)
EndQR ==
    /\ qr.open
    /\ \/ qr.sent /\ UNCHANGED budget
       \/ ~qr.sent /\ Spend("faults")
    /\ qr' = Push("failed") /\ up' = FALSE
    /\ UNCHANGED <<remote, cl, shared, pc, device, upc, unpaired>>

(* The phone scans the code on the page. *)
Scan ==
    /\ qr.open /\ up /\ st.qr /\ cl = "fresh"
    /\ cl' = "paired" /\ stored' = TRUE /\ linked' = TRUE
    /\ qr' = Push("success") /\ Raise("Connected")
    /\ UNCHANGED <<up, st, drop, pc, device, upc, unpaired, budget>>

(* The connection drops; one that waits in vain to be paired always does.  *)
ServerDrops ==
    /\ up /\ ~qr.open
    /\ \/ cl = "paired" /\ Spend("drops")
       \/ cl # "paired" /\ UNCHANGED budget
    /\ up' = FALSE /\ Raise("Disconnected")
    /\ UNCHANGED <<remote, cl, qr, st, drop, pc, device, upc, unpaired>>

(* The phone removes the device, which may be offline. *)
PhoneLogsOut ==
    /\ linked /\ Spend("logouts")
    /\ linked' = FALSE
    /\ \/ /\ up /\ cl = "paired"
          /\ cl' = "deleted" /\ stored' = FALSE /\ up' = FALSE
          /\ Raise("LoggedOut")
       \/ ~(up /\ cl = "paired") /\ UNCHANGED <<cl, stored, up, pending>>
    /\ UNCHANGED <<qr, st, drop, pc, device, upc, unpaired>>

(* Nothing but the session survives a restart. *)
Restart ==
    /\ Spend("restarts")
    /\ cl' = "none" /\ up' = FALSE /\ qr' = NoQR
    /\ st' = NoState /\ drop' = FALSE /\ pending' = [e \in Events |-> 0]
    /\ pc' = "top" /\ upc' = "idle" /\ unpaired' = FALSE
    /\ UNCHANGED <<remote, device>>

Next ==
    \/ Run
    \/ \E e \in Events : HandleEvent(e)
    \/ Unpair
    \/ SendCode \/ EndQR \/ Scan \/ ServerDrops \/ PhoneLogsOut \/ Restart

Spec == Init /\ [][Next]_vars

(* The loop and the handlers run, a request goes on once it has started,   *)
(* and WhatsApp sends a first code and closes idle connections.  Nobody    *)
(* has to scan, log out, click or restart.                                 *)
FairSpec ==
    /\ Spec
    /\ WF_vars(Run)
    /\ \A e \in Events : WF_vars(HandleEvent(e))
    /\ WF_vars(Logout \/ UnpairReset \/ DeleteDevice)
    /\ WF_vars(SendCode /\ ~qr.sent) /\ WF_vars(EndQR /\ qr.sent)
    /\ WF_vars(ServerDrops /\ cl # "paired")

-----------------------------------------------------------------------------
(* Properties. *)

(* The page offers a code only while it says that no device is paired      *)
(* (handlers serve the code and the redirect from the same snapshot), even *)
(* when a logout is handled between two steps of the loop.                 *)
QRMeansUnpaired == st.qr => ~st.paired

(* No wake-up is lost.  When the loop sleeps, the channel is empty and no  *)
(* event is on its way, the client is connected with a live session and    *)
(* the page shows it as paired: a connection that drops, or a logout,      *)
(* between the check and the sleep cannot leave the loop asleep.           *)
Asleep == pc = "asleep" /\ ~drop /\ \A e \in Events : pending[e] = 0
AsleepMeansConnected ==
    Asleep /\ ~unpaired => up /\ cl = "paired" /\ st.paired

(* Run stays connected while the session lives and pairs anew when it does *)
(* not, unless a database error has ended it: a device that is stored and  *)
(* linked is connected again after drops and failed connects, and one that *)
(* is not, after a fresh install or a logout from the phone, is offered a  *)
(* code.                                                                   *)
Excused == unpaired \/ pc = "stopped"
Recovers ==
    /\ stored /\ linked ~> (up /\ st.paired) \/ ~linked \/ Excused
    /\ ~stored ~> st.qr \/ stored \/ Excused

(* The comment on Run says that after an explicit logout, too, it drives   *)
(* the pairing flow.                                                       *)
UnpairOffersQR ==
    unpaired /\ upc = "idle" /\ ~stored ~> st.qr \/ stored \/ pc = "stopped"
                                              \/ ~unpaired

=============================================================================
