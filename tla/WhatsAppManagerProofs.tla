------------------------ MODULE WhatsAppManagerProofs ------------------------
(***************************************************************************)
(* Proofs about WhatsAppManager, for any number of drops, logouts, failed  *)
(* calls, clicks on Unpair and restarts.                                   *)
(***************************************************************************)
EXTENDS WhatsAppManager, SequenceTheorems, TLAPS

(* The values that steps give the QR channel and the snapshot.             *)
LEMMA ChannelTypes ==
    ASSUME TypeOK
    PROVE  /\ NoQR \in QRChannels
           /\ [NoQR EXCEPT !.open = TRUE] \in QRChannels
           /\ \A e \in QREvents : Push(e) \in QRChannels
           /\ qr.queue # <<>> => [qr EXCEPT !.queue = Tail(@)] \in QRChannels
<1> USE DEF TypeOK, QRChannels
<1>1. NoQR \in QRChannels
  BY DEF NoQR
<1>2. [NoQR EXCEPT !.open = TRUE] \in QRChannels
  BY <1>1
<1>3. ASSUME NEW e \in QREvents PROVE Push(e) \in QRChannels
  <2>1. Append(qr.queue, e) \in Seq(QREvents) /\ (e = "code") \in BOOLEAN
    OBVIOUS
  <2>2. ASSUME NEW open \in BOOLEAN, NEW queue \in Seq(QREvents)
        PROVE  [qr EXCEPT !.open = open, !.sent = TRUE, !.queue = queue]
                   \in QRChannels
    OBVIOUS
  <2>3. Push(e) = [qr EXCEPT !.open = (e = "code"), !.sent = TRUE,
                             !.queue = Append(qr.queue, e)]
    BY DEF Push
  <2> QED
    BY <2>1, <2>2, <2>3, Zenon
<1>4. ASSUME qr.queue # <<>> PROVE [qr EXCEPT !.queue = Tail(@)] \in QRChannels
  <2>1. Tail(qr.queue) \in Seq(QREvents)
    BY <1>4, HeadTailProperties
  <2> QED
    BY <2>1
<1> QED
  BY <1>1, <1>2, <1>3, <1>4

LEMMA SnapshotTypes ==
    ASSUME st \in Snapshots
    PROVE  /\ NoState \in Snapshots
           /\ SetPaired \in Snapshots /\ SetQR \in Snapshots
           /\ \A on \in BOOLEAN : SetConnected(on) \in Snapshots
BY DEF Snapshots, NoState, SetPaired, SetQR, SetConnected

LEMMA TypeInit == Init => TypeOK
<1> SUFFICES ASSUME Init PROVE TypeOK
  OBVIOUS
<1>1. Bounds \in [Budgets -> Nat]
  BY BoundAssumption DEF Bounds, Budgets
<1>2. NoQR \in QRChannels
  BY DEF NoQR, QRChannels
<1>3. NoState \in Snapshots
  BY DEF NoState, Snapshots
<1> QED
  BY <1>1, <1>2, <1>3 DEF Init, TypeOK, Clients, Pcs, Upcs

LEMMA SpendType ==
    ASSUME TypeOK, NEW b \in Budgets, Spend(b)
    PROVE  budget' \in [Budgets -> Nat]
BY DEF TypeOK, Spend

LEMMA RaiseType ==
    ASSUME TypeOK, NEW e \in Events, Raise(e)
    PROVE  pending' \in [Events -> Nat]
BY DEF TypeOK, Raise

LEMMA TypeNext == TypeOK /\ [Next]_vars => TypeOK'
<1> SUFFICES ASSUME TypeOK, [Next]_vars PROVE TypeOK'
  OBVIOUS
<1> USE SpendType, ChannelTypes, SnapshotTypes
<1> USE DEF TypeOK, Budgets, Clients, Pcs, Upcs, remote, client, shared
<1>1. CASE GetFirstDevice
  BY <1>1 DEF GetFirstDevice
<1>2. CASE MakeClient
  BY <1>2 DEF MakeClient
<1>3. CASE CheckPaired
  BY <1>3 DEF CheckPaired
<1>4. CASE StartPairing
  BY <1>4 DEF StartPairing, Reset
<1>5. CASE OpenQR
  <2>1. budget' \in [Budgets -> Nat]
    BY <1>5 DEF OpenQR
  <2>2. qr' \in QRChannels /\ st' \in Snapshots
    BY <1>5 DEF OpenQR
  <2>3. pending' \in [Events -> Nat]
    BY <1>5, RaiseType DEF OpenQR, Events
  <2>4. /\ linked' \in BOOLEAN /\ stored' \in BOOLEAN /\ up' \in BOOLEAN
        /\ drop' \in BOOLEAN /\ unpaired' \in BOOLEAN
    BY <1>5 DEF OpenQR
  <2>5. cl' \in Clients /\ pc' \in Pcs /\ device' \in {"fresh", "paired"}
        /\ upc' \in Upcs
    BY <1>5 DEF OpenQR
  <2> QED
    BY <2>1, <2>2, <2>3, <2>4, <2>5
<1>6. CASE ReadQR
  BY <1>6 DEF ReadQR
<1>7. CASE Retry
  BY <1>7 DEF Retry
<1>8. CASE ShowPaired
  BY <1>8 DEF ShowPaired
<1>9. CASE Connect
  <2>1. budget' \in [Budgets -> Nat]
    BY <1>9 DEF Connect
  <2>2. qr' \in QRChannels /\ st' \in Snapshots
    BY <1>9 DEF Connect
  <2>3. pending' \in [Events -> Nat]
    BY <1>9, RaiseType DEF Connect, Events, Connects
  <2>4. /\ linked' \in BOOLEAN /\ stored' \in BOOLEAN /\ up' \in BOOLEAN
        /\ drop' \in BOOLEAN /\ unpaired' \in BOOLEAN
    BY <1>9 DEF Connect, Connects
  <2>5. cl' \in Clients /\ pc' \in Pcs /\ device' \in {"fresh", "paired"}
        /\ upc' \in Upcs
    BY <1>9 DEF Connect, Connects
  <2> QED
    BY <2>1, <2>2, <2>3, <2>4, <2>5
<1>10. CASE WakeUp
  BY <1>10 DEF WakeUp
<1>11. ASSUME NEW e \in Events, HandleEvent(e) PROVE TypeOK'
  <2>1. budget' \in [Budgets -> Nat]
    BY <1>11 DEF HandleEvent
  <2>2. qr' \in QRChannels /\ st' \in Snapshots
    BY <1>11 DEF HandleEvent, Reset
  <2>3. pending' \in [Events -> Nat]
    BY <1>11, RaiseType DEF HandleEvent, Events
  <2>4. /\ linked' \in BOOLEAN /\ stored' \in BOOLEAN /\ up' \in BOOLEAN
        /\ drop' \in BOOLEAN /\ unpaired' \in BOOLEAN
    BY <1>11 DEF HandleEvent, SignalDrop
  <2>5. cl' \in Clients /\ pc' \in Pcs /\ device' \in {"fresh", "paired"}
        /\ upc' \in Upcs
    BY <1>11 DEF HandleEvent
  <2> QED
    BY <2>1, <2>2, <2>3, <2>4, <2>5
<1>12. CASE StartUnpair
  BY <1>12 DEF StartUnpair
<1>13. CASE Logout
  <2>1. budget' \in [Budgets -> Nat]
    BY <1>13 DEF Logout
  <2>2. qr' \in QRChannels /\ st' \in Snapshots
    BY <1>13 DEF Logout
  <2>3. pending' \in [Events -> Nat]
    BY <1>13, RaiseType DEF Logout, Events
  <2>4. /\ linked' \in BOOLEAN /\ stored' \in BOOLEAN /\ up' \in BOOLEAN
        /\ drop' \in BOOLEAN /\ unpaired' \in BOOLEAN
    BY <1>13 DEF Logout
  <2>5. cl' \in Clients /\ pc' \in Pcs /\ device' \in {"fresh", "paired"}
        /\ upc' \in Upcs
    BY <1>13 DEF Logout
  <2> QED
    BY <2>1, <2>2, <2>3, <2>4, <2>5
<1>14. CASE UnpairReset
  BY <1>14 DEF UnpairReset, Reset
<1>15. CASE DeleteDevice
  <2>1. budget' \in [Budgets -> Nat]
    BY <1>15 DEF DeleteDevice
  <2>2. qr' \in QRChannels /\ st' \in Snapshots
    BY <1>15 DEF DeleteDevice
  <2>3. pending' \in [Events -> Nat]
    BY <1>15, RaiseType DEF DeleteDevice, Events
  <2>4. /\ linked' \in BOOLEAN /\ stored' \in BOOLEAN /\ up' \in BOOLEAN
        /\ drop' \in BOOLEAN /\ unpaired' \in BOOLEAN
    BY <1>15 DEF DeleteDevice
  <2>5. cl' \in Clients /\ pc' \in Pcs /\ device' \in {"fresh", "paired"}
        /\ upc' \in Upcs
    BY <1>15 DEF DeleteDevice
  <2> QED
    BY <2>1, <2>2, <2>3, <2>4, <2>5
<1>16. CASE SendCode
  BY <1>16 DEF SendCode, QREvents
<1>17. CASE EndQR
  <2>1. budget' \in [Budgets -> Nat]
    BY <1>17 DEF EndQR
  <2>2. qr' \in QRChannels /\ st' \in Snapshots
    BY <1>17 DEF EndQR, QREvents
  <2>3. pending' \in [Events -> Nat]
    BY <1>17, RaiseType DEF EndQR, Events
  <2>4. /\ linked' \in BOOLEAN /\ stored' \in BOOLEAN /\ up' \in BOOLEAN
        /\ drop' \in BOOLEAN /\ unpaired' \in BOOLEAN
    BY <1>17 DEF EndQR
  <2>5. cl' \in Clients /\ pc' \in Pcs /\ device' \in {"fresh", "paired"}
        /\ upc' \in Upcs
    BY <1>17 DEF EndQR
  <2> QED
    BY <2>1, <2>2, <2>3, <2>4, <2>5
<1>18. CASE Scan
  BY <1>18, RaiseType DEF Scan, Events, QREvents
<1>19. CASE ServerDrops
  <2>1. budget' \in [Budgets -> Nat]
    BY <1>19 DEF ServerDrops
  <2>2. qr' \in QRChannels /\ st' \in Snapshots
    BY <1>19 DEF ServerDrops
  <2>3. pending' \in [Events -> Nat]
    BY <1>19, RaiseType DEF ServerDrops, Events
  <2>4. /\ linked' \in BOOLEAN /\ stored' \in BOOLEAN /\ up' \in BOOLEAN
        /\ drop' \in BOOLEAN /\ unpaired' \in BOOLEAN
    BY <1>19 DEF ServerDrops
  <2>5. cl' \in Clients /\ pc' \in Pcs /\ device' \in {"fresh", "paired"}
        /\ upc' \in Upcs
    BY <1>19 DEF ServerDrops
  <2> QED
    BY <2>1, <2>2, <2>3, <2>4, <2>5
<1>20. CASE PhoneLogsOut
  <2>1. budget' \in [Budgets -> Nat]
    BY <1>20 DEF PhoneLogsOut
  <2>2. qr' \in QRChannels /\ st' \in Snapshots
    BY <1>20 DEF PhoneLogsOut
  <2>3. pending' \in [Events -> Nat]
    BY <1>20, RaiseType DEF PhoneLogsOut, Events
  <2>4. /\ linked' \in BOOLEAN /\ stored' \in BOOLEAN /\ up' \in BOOLEAN
        /\ drop' \in BOOLEAN /\ unpaired' \in BOOLEAN
    BY <1>20 DEF PhoneLogsOut
  <2>5. cl' \in Clients /\ pc' \in Pcs /\ device' \in {"fresh", "paired"}
        /\ upc' \in Upcs
    BY <1>20 DEF PhoneLogsOut
  <2> QED
    BY <2>1, <2>2, <2>3, <2>4, <2>5
<1>21. CASE Restart
  BY <1>21 DEF Restart
<1>22. CASE UNCHANGED vars
  BY <1>22 DEF vars
<1> QED
  BY <1>1, <1>2, <1>3, <1>4, <1>5, <1>6, <1>7, <1>8, <1>9, <1>10, <1>11,
     <1>12, <1>13, <1>14, <1>15, <1>16, <1>17, <1>18, <1>19, <1>20, <1>21,
     <1>22 DEF Next, Run, Unpair

(* The manager's variables keep their types.                               *)
THEOREM TypeCorrect == Spec => []TypeOK
BY TypeInit, TypeNext, PTL DEF Spec

-----------------------------------------------------------------------------
(* Neither property is inductive.  A code is shown only by a pairing that  *)
(* has reset the snapshot, and nothing else sets paired until it ends.     *)
(* And from the check on, the client has a live session or there is a sign *)
(* of its end that Run has still to see: an event to be handled, or the    *)
(* token, which only Run takes.                                            *)

Signalled == drop \/ pending["Disconnected"] > 0 \/ pending["LoggedOut"] > 0

PairingInv ==
    /\ st.qr => ~st.paired
    /\ pc \in {"open", "codes"} => ~st.paired
    /\ qr.open => cl # "paired"
    /\ pc \in {"check", "pair", "open"} => ~qr.open
    /\ pc \in {"pair", "open"} => cl # "paired"

SleepInv ==
    /\ pc \in {"paired", "connect"} => cl = "paired" \/ Signalled
    /\ pc = "asleep" => (cl = "paired" /\ up) \/ Signalled
    /\ pc \in {"connect", "asleep"} => st.paired \/ drop

ManagerInv ==
    /\ TypeOK /\ PairingInv
    /\ upc # "idle" => unpaired
    /\ ~unpaired => SleepInv

LEMMA ManagerInit == Init => ManagerInv
BY TypeInit
   DEF Init, ManagerInv, PairingInv, SleepInv, NoState, NoQR

(* A sign does not disappear before Run has taken the token. *)
LEMMA SignStays ==
    ASSUME TypeOK, Signalled, NEW e \in Events, HandleEvent(e)
    PROVE  Signalled'
<1>1. CASE e = "Connected"
  <2>1. /\ drop' = drop /\ pending'["Disconnected"] = pending["Disconnected"]
        /\ pending'["LoggedOut"] = pending["LoggedOut"]
    BY <1>1 DEF TypeOK, HandleEvent, Events
  <2> QED
    BY <2>1 DEF Signalled
<1>2. CASE e # "Connected"
  BY <1>2 DEF Signalled, HandleEvent, SignalDrop
<1> QED
  BY <1>1, <1>2

LEMMA RaisedIsSign ==
    ASSUME TypeOK, NEW e \in {"Disconnected", "LoggedOut"}, Raise(e)
    PROVE  Signalled'
BY DEF TypeOK, Signalled, Raise, Events

LEMMA RaiseKeepsSign ==
    ASSUME TypeOK, NEW e \in Events, Raise(e), UNCHANGED drop, Signalled
    PROVE  Signalled'
BY DEF TypeOK, Signalled, Raise, Events

LEMMA PairingNext == ManagerInv /\ [Next]_vars => PairingInv'
<1> SUFFICES ASSUME ManagerInv, [Next]_vars PROVE PairingInv'
  OBVIOUS
<1> USE DEF ManagerInv, TypeOK, PairingInv, remote, client, shared
<1>1. CASE GetFirstDevice
  BY <1>1 DEF GetFirstDevice
<1>2. CASE MakeClient
  BY <1>2 DEF MakeClient, NoQR
<1>3. CASE CheckPaired
  BY <1>3 DEF CheckPaired
<1>4. CASE StartPairing
  BY <1>4 DEF StartPairing, Reset, NoState
<1>5. CASE OpenQR
  BY <1>5 DEF OpenQR, NoQR
<1>6. CASE ReadQR
  <2>1. /\ pc = "codes" /\ ~st.paired /\ cl' = cl
        /\ qr' = [qr EXCEPT !.queue = Tail(@)]
        /\ \/ st' = SetQR /\ pc' = "codes"
           \/ st' = SetPaired /\ pc' = "top"
           \/ st' = st /\ pc' = "wait"
    BY <1>6 DEF ReadQR
  <2>2. qr'.open = qr.open
    BY <2>1 DEF QRChannels
  <2>3. SetQR.paired = st.paired /\ ~SetPaired.qr
    BY DEF SetQR, SetPaired, Snapshots
  <2> QED
    BY <2>1, <2>2, <2>3
<1>7. CASE Retry
  BY <1>7 DEF Retry
<1>8. CASE ShowPaired
  BY <1>8 DEF ShowPaired, SetPaired
<1>9. CASE Connect
  BY <1>9 DEF Connect, Connects
<1>10. CASE WakeUp
  BY <1>10 DEF WakeUp
<1>11. ASSUME NEW e \in Events, HandleEvent(e) PROVE PairingInv'
  <2>1. \/ \E on \in BOOLEAN : st' = SetConnected(on)
        \/ st' = NoState
    BY <1>11 DEF HandleEvent, Reset
  <2>2. UNCHANGED <<cl, qr, pc>>
    BY <1>11 DEF HandleEvent
  <2>3. (st'.qr => ~st'.paired) /\ (pc' \in {"open", "codes"} => ~st'.paired)
    <3>1. CASE st' = NoState
      BY <3>1 DEF NoState
    <3>2. CASE \E on \in BOOLEAN : st' = SetConnected(on)
      <4>1. st'.qr = st.qr /\ st'.paired = st.paired
        BY <3>2 DEF SetConnected, Snapshots
      <4> QED
        BY <2>2, <4>1
    <3> QED
      BY <2>1, <3>1, <3>2
  <2> QED
    BY <2>2, <2>3
<1>12. CASE StartUnpair
  BY <1>12 DEF StartUnpair
<1>13. CASE Logout
  BY <1>13 DEF Logout
<1>14. CASE UnpairReset
  BY <1>14 DEF UnpairReset, Reset, NoState
<1>15. CASE DeleteDevice
  BY <1>15 DEF DeleteDevice
<1>16. CASE SendCode
  BY <1>16 DEF SendCode, Push
<1>17. CASE EndQR
  BY <1>17 DEF EndQR, Push
<1>18. CASE Scan
  <2>1. /\ qr.open /\ UNCHANGED <<st, pc>>
        /\ qr' = [qr EXCEPT !.open = ("success" = "code"), !.sent = TRUE,
                            !.queue = Append(@, "success")]
    BY <1>18 DEF Scan, Push
  <2>2. ~qr'.open
    BY <2>1 DEF QRChannels
  <2> QED
    BY <2>1, <2>2
<1>19. CASE ServerDrops
  BY <1>19 DEF ServerDrops
<1>20. CASE PhoneLogsOut
  BY <1>20 DEF PhoneLogsOut
<1>21. CASE Restart
  BY <1>21 DEF Restart, NoState, NoQR
<1>22. CASE UNCHANGED vars
  BY <1>22 DEF vars
<1> QED
  BY <1>1, <1>2, <1>3, <1>4, <1>5, <1>6, <1>7, <1>8, <1>9, <1>10, <1>11,
     <1>12, <1>13, <1>14, <1>15, <1>16, <1>17, <1>18, <1>19, <1>20, <1>21,
     <1>22 DEF Next, Run, Unpair

LEMMA SleepNext ==
    ManagerInv /\ [Next]_vars /\ ~unpaired' => (~unpaired /\ SleepInv') \/ pc' = "top"
<1> SUFFICES ASSUME ManagerInv, [Next]_vars, ~unpaired', pc' # "top"
             PROVE  ~unpaired /\ SleepInv'
  OBVIOUS
<1> USE DEF ManagerInv, SleepInv, remote, client, shared
<1>1. ~unpaired /\ ~Unpair
  BY DEF Next, Run, Unpair, GetFirstDevice, MakeClient, CheckPaired,
         StartPairing, OpenQR, ReadQR, Retry, ShowPaired, Connect, WakeUp,
         HandleEvent, StartUnpair, Logout, UnpairReset, DeleteDevice, SendCode,
         EndQR, Scan, ServerDrops, PhoneLogsOut, Restart, vars
<1>2. CASE GetFirstDevice \/ MakeClient \/ StartPairing \/ OpenQR \/ ReadQR
           \/ Retry \/ WakeUp \/ Restart
  BY <1>2 DEF GetFirstDevice, MakeClient, StartPairing, OpenQR, ReadQR, Retry,
              WakeUp, Restart
<1>3. CASE CheckPaired
  BY <1>3 DEF CheckPaired
<1>4. CASE ShowPaired
  BY <1>1, <1>4 DEF ShowPaired, SetPaired, Signalled, TypeOK
<1>5. CASE Connect
  <2>1. UNCHANGED <<st, drop>> /\ pc = "connect" /\ pc' \in {"asleep", "wait"}
    BY <1>5 DEF Connect
  <2>2. CASE pc' = "wait"
    BY <1>1, <2>2
  <2>3. CASE up /\ UNCHANGED <<cl, up, pending>>
    BY <1>1, <2>1, <2>3 DEF Signalled
  <2>4. CASE Connects
    <3>1. CASE cl = "paired" /\ linked
      BY <1>1, <2>1, <2>4, <3>1 DEF Connects
    <3>2. CASE cl = "paired" /\ ~linked
      BY <1>1, <2>1, <2>4, <3>2, RaisedIsSign DEF Connects
    <3>3. CASE cl # "paired"
      BY <1>1, <2>1, <2>4, <3>3 DEF Connects, Signalled
    <3> QED
      BY <3>1, <3>2, <3>3
  <2> QED
    BY <1>5, <2>1, <2>2, <2>3, <2>4 DEF Connect
<1>6. ASSUME NEW e \in Events, HandleEvent(e) PROVE SleepInv'
  <2>1. UNCHANGED <<cl, up, pc>>
    BY <1>6 DEF HandleEvent
  <2>2. st.paired \/ drop => st'.paired \/ drop'
    <3>1. CASE e = "Connected"
      BY <1>6, <3>1 DEF HandleEvent, SetConnected, TypeOK, Snapshots
    <3>2. CASE e # "Connected"
      BY <1>6, <3>2 DEF HandleEvent, SignalDrop
    <3> QED
      BY <3>1, <3>2
  <2>3. Signalled => Signalled'
    BY <1>6, SignStays
  <2> QED
    BY <1>1, <2>1, <2>2, <2>3
<1>7. CASE SendCode
  BY <1>1, <1>7 DEF SendCode, Signalled
<1>8. CASE EndQR
  BY <1>1, <1>8 DEF EndQR, Signalled, PairingInv
<1>9. CASE Scan
  BY <1>1, <1>9, RaiseKeepsSign DEF Scan, Events
<1>10. CASE ServerDrops
  BY <1>1, <1>10, RaisedIsSign DEF ServerDrops
<1>11. CASE PhoneLogsOut
  <2>1. UNCHANGED <<st, drop, pc>>
    BY <1>11 DEF PhoneLogsOut
  <2>2. CASE Raise("LoggedOut")
    BY <1>1, <2>1, <2>2, RaisedIsSign
  <2>3. CASE UNCHANGED <<cl, up, pending>>
    BY <1>1, <2>1, <2>3 DEF Signalled
  <2> QED
    BY <1>11, <2>2, <2>3 DEF PhoneLogsOut
<1>12. CASE UNCHANGED vars
  BY <1>1, <1>12 DEF vars, Signalled
<1> QED
  BY <1>1, <1>2, <1>3, <1>4, <1>5, <1>6, <1>7, <1>8, <1>9, <1>10, <1>11,
     <1>12 DEF Next, Run

LEMMA ManagerNext == ManagerInv /\ [Next]_vars => ManagerInv'
<1> SUFFICES ASSUME ManagerInv, [Next]_vars PROVE ManagerInv'
  OBVIOUS
<1>1. TypeOK' /\ PairingInv'
  BY TypeNext, PairingNext DEF ManagerInv
<1>2. upc' # "idle" => unpaired'
  BY DEF ManagerInv, Next, Run, Unpair, GetFirstDevice, MakeClient, CheckPaired,
         StartPairing, OpenQR, ReadQR, Retry, ShowPaired, Connect, WakeUp,
         HandleEvent, StartUnpair, Logout, UnpairReset, DeleteDevice, SendCode,
         EndQR, Scan, ServerDrops, PhoneLogsOut, Restart, vars
<1>3. ~unpaired' => SleepInv'
  BY SleepNext DEF SleepInv
<1> QED
  BY <1>1, <1>2, <1>3 DEF ManagerInv

LEMMA ManagerInvariant == Spec => []ManagerInv
BY ManagerInit, ManagerNext, PTL DEF Spec

(* The page never offers a code next to a paired device. *)
THEOREM NoCodeWhilePaired == Spec => []QRMeansUnpaired
<1>1. ManagerInv => QRMeansUnpaired
  BY DEF ManagerInv, PairingInv, QRMeansUnpaired
<1> QED
  BY <1>1, ManagerInvariant, PTL

(* No interleaving of Run, the handlers, WhatsApp and the phone leaves Run *)
(* asleep over a connection or a session that has ended.                   *)
THEOREM NoLostWakeUp == Spec => []AsleepMeansConnected
<1>1. ManagerInv => AsleepMeansConnected
  BY DEF ManagerInv, SleepInv, Signalled, AsleepMeansConnected, Asleep, TypeOK,
         Events
<1> QED
  BY <1>1, ManagerInvariant, PTL
=============================================================================
