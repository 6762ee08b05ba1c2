--------------------------- MODULE MailSyncProofs ---------------------------
(***************************************************************************)
(* Proofs about MailSync, for any set of overlapping passes, any folders   *)
(* in any order, any bound on UIDs, renumberings and failures.             *)
(***************************************************************************)
EXTENDS MailSync, SequenceTheorems, FiniteSetTheorems, TLAPS

(* A pass that is past "folder" is at one of its folders.                  *)
AtFolder == \A w \in Workers : pc[w] \notin {"idle", "folder"} => todo[w] # <<>>

TypeInv == TypeOK /\ AtFolder

(* A folder of n messages is renumbered within the bound.                  *)
LEMMA RenumberedUids ==
    ASSUME NEW S \in SUBSET Uids
    PROVE  Cardinality(S) \in 0 .. MaxUid
<1>1. IsFiniteSet(1 .. MaxUid) /\ Cardinality(1 .. MaxUid) = MaxUid
  BY BoundAssumption, FS_Interval
<1>2. IsFiniteSet(S) /\ Cardinality(S) <= Cardinality(1 .. MaxUid)
  BY <1>1, FS_Subset DEF Uids
<1> QED
  BY <1>1, <1>2, FS_CardinalityType, BoundAssumption

(* The folder of a running pass, and what is left to do after it.          *)
LEMMA FolderType ==
    ASSUME TypeInv, NEW w \in Workers, todo[w] # <<>>
    PROVE  Folder(w) \in Folders /\ Tail(todo[w]) \in Seq(Folders)
<1>1. todo[w] \in Seq(Folders)
  BY DEF TypeInv, TypeOK
<1> QED
  BY <1>1, HeadTailProperties DEF Folder

(* The server's answer consists of messages in the folder.                 *)
LEMMA FetchedType ==
    ASSUME TypeInv, NEW f \in Folders, NEW n \in Nat
    PROVE  Fetched(f, n) \subseteq msgs[f] /\ Fetched(f, n) \subseteq Uids
BY DEF TypeInv, TypeOK, Fetched, Newest

LEMMA TypeInit == Init => TypeInv
BY PlanAssumption, BoundAssumption
   DEF Init, TypeInv, TypeOK, AtFolder, Steps, Uids

LEMMA TypeNext == TypeInv /\ [Next]_vars => TypeInv'
<1> SUFFICES ASSUME TypeInv, [Next]_vars PROVE TypeInv'
  OBVIOUS
<1> USE PlanAssumption, BoundAssumption
<1> USE DEF TypeInv, TypeOK, AtFolder, Steps, Uids, server, db, locals, hist,
            GoTo, LeaveFolder
<1>1. ASSUME NEW w \in Workers, StartSync(w) PROVE TypeInv'
  BY <1>1 DEF StartSync
<1>2. ASSUME NEW w \in Workers, EndSync(w) PROVE TypeInv'
  BY <1>2 DEF EndSync
<1>3. ASSUME NEW w \in Workers, EnsureFolder(w) PROVE TypeInv'
  <2>1. Folder(w) \in Folders
    BY <1>3, FolderType DEF EnsureFolder
  <2> QED
    BY <1>3, <2>1 DEF EnsureFolder
<1>4. ASSUME NEW w \in Workers, FetchNew(w) PROVE TypeInv'
  <2>1. Folder(w) \in Folders
    BY <1>4, FolderType DEF FetchNew
  <2>2. newLast[w] \in Nat
    OBVIOUS
  <2>3. Fetched(Folder(w), newLast[w]) \subseteq Uids
    BY <2>1, <2>2, FetchedType
  <2>4. /\ pc[w] = "fetch"
        /\ currentUv' = [currentUv EXCEPT ![w] = uv[Folder(w)]]
        /\ lastUv' = [lastUv EXCEPT ![w] = 0]
        /\ UNCHANGED <<server, db, renumbered, faults, todo, newLast>>
    BY <1>4 DEF FetchNew
  <2>5. CASE GoTo(w, "clear") /\ UNCHANGED <<envs, mixed>>
    BY <2>1, <2>4, <2>5
  <2>6. CASE /\ GoTo(w, "insert")
             /\ envs' = [envs EXCEPT ![w] = Fetched(Folder(w), newLast[w])]
             /\ mixed' \in {mixed, mixed \cup {Folder(w)}}
    <3>1. mixed' \in SUBSET Folders
      BY <2>1, <2>6
    <3>2. envs' \in [Workers -> SUBSET Uids]
      BY <2>3, <2>6
    <3>3. AtFolder'
      BY <2>4, <2>6
    <3> QED
      BY <2>1, <2>4, <2>6, <3>1, <3>2, <3>3
  <2> QED
    BY <1>4, <2>5, <2>6 DEF FetchNew
<1>5. ASSUME NEW w \in Workers, ClearMessages(w) PROVE TypeInv'
  BY <1>5 DEF ClearMessages
<1>6. ASSUME NEW w \in Workers, StampFolder(w) PROVE TypeInv'
  <2>1. /\ uidvalidity' \in [Folders -> Nat]
        /\ pc' \in [Workers -> Steps]
    BY <1>6 DEF StampFolder
  <2>4. lastUid' \in [Folders -> 0 .. MaxUid]
    <3>1. lastUid' = [lastUid EXCEPT ![Folder(w)] = 0] /\ 0 \in 0 .. MaxUid
      BY <1>6 DEF StampFolder
    <3> QED
      BY <3>1
  <2>2. \A x \in Workers : envs'[x] # {} => pc'[x] = "insert"
    BY <1>6 DEF StampFolder
  <2>3. AtFolder'
    BY <1>6 DEF StampFolder
  <2> QED
    BY <1>6, <2>1, <2>2, <2>3, <2>4 DEF StampFolder
<1>7. ASSUME NEW w \in Workers, Refetch(w) PROVE TypeInv'
  <2>1. Folder(w) \in Folders
    BY <1>7, FolderType DEF Refetch
  <2>2. Fetched(Folder(w), 0) \subseteq Uids
    BY <2>1, FetchedType
  <2> QED
    BY <1>7, <2>1, <2>2 DEF Refetch
<1>8. ASSUME NEW w \in Workers, InsertEnvelope(w) PROVE TypeInv'
  <2>1. Folder(w) \in Folders
    BY <1>8, FolderType DEF InsertEnvelope
  <2>2. PICK u \in envs[w] :
           /\ rows' = [rows EXCEPT ![Folder(w)] =
                          Upserted(Folder(w), u, currentUv[w])]
           /\ envs' = [envs EXCEPT ![w] = @ \ {u}]
           /\ newLast' = [newLast EXCEPT ![w] = IF u > @ THEN u ELSE @]
    BY <1>8 DEF InsertEnvelope
  <2>3. Upserted(Folder(w), u, currentUv[w]) \in SUBSET (Uids \X Nat)
    BY <2>1, <2>2 DEF Upserted
  <2>4. /\ pc[w] = "insert"
        /\ UNCHANGED <<server, uidvalidity, lastUid, hist, pc, todo, lastUv,
                       currentUv>>
    BY <1>8 DEF InsertEnvelope
  <2>5. rows' \in [Folders -> SUBSET (Uids \X Nat)]
    BY <2>2, <2>3
  <2>6. envs' \in [Workers -> SUBSET Uids]
    BY <2>2
  <2>7. newLast' \in [Workers -> 0 .. MaxUid]
    <3>1. u \in 0 .. MaxUid
      BY <2>2
    <3> DEFINE m == IF u > newLast[w] THEN u ELSE newLast[w]
    <3>2. m \in 0 .. MaxUid
      BY <3>1
    <3>3. newLast' = [newLast EXCEPT ![w] = m]
      BY <2>2
    <3> QED
      BY <3>2, <3>3
  <2>8. \A x \in Workers : envs'[x] # {} => pc'[x] = "insert"
    BY <2>2, <2>4
  <2> QED
    BY <2>4, <2>5, <2>6, <2>7, <2>8
<1>9. ASSUME NEW w \in Workers, UpdateFolderState(w) PROVE TypeInv'
  <2>1. Tail(todo[w]) \in Seq(Folders)
    BY <1>9, FolderType DEF UpdateFolderState
  <2>2. TypeOK'
    <3>1. newLast[w] \in 0 .. MaxUid /\ 0 \in 0 .. MaxUid
      OBVIOUS
    <3>2. lastUid' \in [Folders -> 0 .. MaxUid]
      BY <1>9, <3>1 DEF UpdateFolderState
    <3>3. newLast' \in [Workers -> 0 .. MaxUid]
      BY <1>9, <3>1 DEF UpdateFolderState
    <3>4. todo' \in [Workers -> Seq(Folders)]
      BY <1>9, <2>1 DEF UpdateFolderState
    <3>5. uidvalidity' \in [Folders -> Nat]
      BY <1>9 DEF UpdateFolderState
    <3> QED
      BY <1>9, <3>2, <3>3, <3>4, <3>5 DEF UpdateFolderState
  <2>3. AtFolder'
    BY <1>9 DEF UpdateFolderState
  <2> QED
    BY <2>2, <2>3
<1>10. ASSUME NEW w \in Workers, Abort(w) PROVE TypeInv'
  <2>1. <<>> \in Seq(Folders)
    OBVIOUS
  <2>2. TypeOK'
    <3>1. /\ todo' \in [Workers -> Seq(Folders)] /\ pc' \in [Workers -> Steps]
          /\ lastUv' \in [Workers -> Nat] /\ currentUv' \in [Workers -> Nat]
      BY <1>10, <2>1 DEF Abort
    <3>2. 0 \in 0 .. MaxUid /\ newLast' = [newLast EXCEPT ![w] = 0]
      BY <1>10 DEF Abort
    <3>3. newLast' \in [Workers -> 0 .. MaxUid]
      BY <3>2
    <3>4. envs' \in [Workers -> SUBSET Uids]
          /\ \A x \in Workers : envs'[x] # {} => pc'[x] = "insert"
      BY <1>10 DEF Abort
    <3>5. faults' \in 0 .. MaxFaults
      BY <1>10 DEF Abort
    <3> QED BY <1>10, <3>1, <3>3, <3>4, <3>5 DEF Abort
  <2>3. AtFolder'
    BY <1>10 DEF Abort
  <2> QED
    BY <2>2, <2>3
<1>11. ASSUME NEW f \in Folders, Deliver(f) PROVE TypeInv'
  BY <1>11 DEF Deliver
<1>12. ASSUME NEW f \in Folders, Expunge(f) PROVE TypeInv'
  BY <1>12 DEF Expunge
<1>13. ASSUME NEW f \in Folders, Renumber(f) PROVE TypeInv'
  <2>1. Cardinality(msgs[f]) \in 0 .. MaxUid
    BY RenumberedUids
  <2> DEFINE n == Cardinality(msgs[f])
  <2>2. 1 .. n \subseteq Uids /\ n + 1 \in 1 .. MaxUid + 1
    BY <2>1
  <2> HIDE DEF n
  <2>3. msgs' = [msgs EXCEPT ![f] = 1 .. n]
        /\ uidNext' = [uidNext EXCEPT ![f] = n + 1]
    BY <1>13 DEF Renumber, n
  <2>4. /\ UNCHANGED <<db, locals, mixed, faults>>
        /\ uv' = [uv EXCEPT ![f] = @ + 1]
        /\ renumbered' = [renumbered EXCEPT ![f] = @ + 1]
        /\ renumbered[f] < MaxRenumber
    BY <1>13 DEF Renumber
  <2>5. msgs' \in [Folders -> SUBSET Uids]
    BY <2>2, <2>3
  <2>6. uidNext' \in [Folders -> 1 .. MaxUid + 1]
    BY <2>2, <2>3
  <2>7. renumbered' \in [Folders -> 0 .. MaxRenumber]
    BY <2>4
  <2>8. uv' \in [Folders -> Nat \ {0}]
    BY <2>4
  <2> QED
    BY <2>4, <2>5, <2>6, <2>7, <2>8
<1>14. CASE UNCHANGED vars
  BY <1>14 DEF vars
<1> QED
  BY <1>1, <1>2, <1>3, <1>4, <1>5, <1>6, <1>7, <1>8, <1>9, <1>10, <1>11,
     <1>12, <1>13, <1>14 DEF Next, Step

LEMMA TypeInvariant == Spec => []TypeInv
BY TypeInit, TypeNext, PTL DEF Spec

(* Every reachable state is well typed, whatever the bounds.               *)
THEOREM TypeCorrect == Spec => []TypeOK
BY TypeInvariant, PTL DEF TypeInv

-----------------------------------------------------------------------------
(* NoGap is not inductive: what a pass holds in memory decides what the    *)
(* mark it is about to store is worth.  The strengthening says it of every *)
(* folder that still has its first UIDVALIDITY.                            *)

Stable(f) == renumbered[f] = 0

(* The server hands out UIDs above every UID that has been seen. *)
ServerInv(f) == uv[f] = 1 /\ \A u \in msgs[f] : u < uidNext[f]

MarkInv(f) ==
    /\ uidvalidity[f] \in {0, 1}
    /\ lastUid[f] < uidNext[f]
    /\ \A u \in msgs[f] : u <= lastUid[f] => u \in Indexed(f)

(* A pass in the folder sees no reason to reset it, and what it has passed *)
(* over is indexed or still in its hands.                                  *)
Passed(w, u) == u <= newLast[w] \/ \E e \in envs[w] : u <= e

PassInv(w, f) ==
    /\ lastUv[w] \in {0, 1} /\ pc[w] \in {"fetch", "insert"}
    /\ pc[w] = "insert" => currentUv[w] = 1
    /\ newLast[w] < uidNext[f]
    /\ \A e \in envs[w] : e < uidNext[f]
    /\ \A u \in msgs[f] : Passed(w, u) => u \in Indexed(f) \/ u \in envs[w]

GapInv ==
    \A f \in Folders : Stable(f) =>
        /\ ServerInv(f) /\ MarkInv(f)
        /\ \A w \in Workers : InFolder(w, f) => PassInv(w, f)

LEMMA GapInit == Init => GapInv
BY DEF Init, GapInv, ServerInv, MarkInv, Stable, InFolder

LEMMA GapInvImpliesNoGap == GapInv => NoGap
BY DEF GapInv, MarkInv, NoGap, Stable

SameLocals(x) ==
    /\ pc'[x] = pc[x] /\ todo'[x] = todo[x] /\ lastUv'[x] = lastUv[x]
    /\ newLast'[x] = newLast[x] /\ envs'[x] = envs[x]
    /\ currentUv'[x] = currentUv[x]

(* The index only grows, so a pass is not disturbed by the steps of others: *)
(* what a step of w has to show is about w and the stored mark.            *)
LEMMA StepOfOnePass ==
    ASSUME GapInv, NEW w \in Workers,
           UNCHANGED <<server, renumbered>>,
           \A x \in Workers \ {w} : SameLocals(x),
           \A f \in Folders : Stable(f) => Indexed(f) \subseteq Indexed(f)',
           \A f \in Folders : Stable(f) => MarkInv(f)',
           \A f \in Folders : Stable(f) /\ InFolder(w, f)' => PassInv(w, f)'
    PROVE  GapInv'
<1> SUFFICES ASSUME NEW f \in Folders, Stable(f)'
             PROVE  /\ ServerInv(f)' /\ MarkInv(f)'
                    /\ \A x \in Workers : InFolder(x, f)' => PassInv(x, f)'
  BY DEF GapInv
<1>1. Stable(f)
  BY DEF Stable
<1>2. ServerInv(f)'
  BY <1>1 DEF GapInv, ServerInv, server
<1>3. ASSUME NEW x \in Workers \ {w}, InFolder(x, f)' PROVE PassInv(x, f)'
  <2>1. SameLocals(x)
    OBVIOUS
  <2>2. InFolder(x, f)
    BY <1>3, <2>1 DEF InFolder, SameLocals, Folder
  <2>3. PassInv(x, f)
    BY <1>1, <2>2 DEF GapInv
  <2> QED
    BY <1>1, <2>1, <2>3 DEF PassInv, Passed, SameLocals, server
<1> QED
  BY <1>1, <1>2, <1>3

(* A step that leaves the database alone keeps the marks.                  *)
LEMMA SameMarks ==
    ASSUME GapInv, UNCHANGED <<server, db>>
    PROVE  /\ \A f \in Folders : Indexed(f) \subseteq Indexed(f)'
           /\ \A f \in Folders : Stable(f) => MarkInv(f)'
BY DEF GapInv, MarkInv, Indexed, server, db

(* Outside every folder a pass promises nothing.                           *)
LEMMA PassOutside ==
    ASSUME TypeInv, GapInv, NEW w \in Workers,
           StartSync(w) \/ EndSync(w) \/ Abort(w)
    PROVE  GapInv'
<1>1. /\ UNCHANGED <<server, db, renumbered>>
      /\ pc'[w] \in {"idle", "folder"}
      /\ \A x \in Workers \ {w} : SameLocals(x)
  BY DEF StartSync, EndSync, Abort, LeaveFolder, GoTo, SameLocals, hist,
         TypeInv, TypeOK
<1>2. \A f \in Folders : ~InFolder(w, f)'
  BY <1>1 DEF InFolder
<1> QED
  BY <1>1, <1>2, StepOfOnePass, SameMarks

(* A pass that enters a folder takes over a mark that MarkInv vouches for. *)
LEMMA EnsureFolderKeeps ==
    ASSUME TypeInv, GapInv, NEW w \in Workers, EnsureFolder(w)
    PROVE  GapInv'
<1> DEFINE f == Folder(w)
<1>1. /\ UNCHANGED <<server, db, renumbered>>
      /\ envs[w] = {} /\ UNCHANGED envs /\ todo' = todo
      /\ pc'[w] = "fetch" /\ lastUv'[w] = uidvalidity[f]
      /\ newLast'[w] = lastUid[f]
      /\ \A x \in Workers \ {w} : SameLocals(x)
  BY DEF EnsureFolder, GoTo, SameLocals, TypeInv, TypeOK
<1>2. ASSUME NEW g \in Folders, Stable(g), InFolder(w, g)'
      PROVE  PassInv(w, g)'
  <2>1. g = f
    BY <1>1, <1>2 DEF InFolder, Folder
  <2>2. MarkInv(g)
    BY <1>2 DEF GapInv
  <2> QED
    BY <1>1, <2>1, <2>2 DEF PassInv, Passed, MarkInv, Indexed, server, db
<1> QED
  BY <1>1, <1>2, StepOfOnePass, SameMarks

(* The answer of the server holds every message above the mark.            *)
LEMMA FetchNewKeeps ==
    ASSUME TypeInv, GapInv, NEW w \in Workers, FetchNew(w)
    PROVE  GapInv'
<1> DEFINE f == Folder(w)
<1>1. /\ UNCHANGED <<server, db, renumbered>>
      /\ pc[w] = "fetch" /\ todo' = todo /\ newLast' = newLast
      /\ envs[w] = {} /\ lastUv'[w] = 0 /\ currentUv'[w] = uv[f]
      /\ \A x \in Workers \ {w} : SameLocals(x)
  BY DEF FetchNew, GoTo, SameLocals, TypeInv, TypeOK
<1>2. ASSUME NEW g \in Folders, Stable(g), InFolder(w, g)'
      PROVE  PassInv(w, g)'
  <2>1. g = f /\ InFolder(w, g)
    BY <1>1, <1>2 DEF InFolder, Folder
  <2>2. PassInv(w, g) /\ ServerInv(g)
    BY <1>2, <2>1 DEF GapInv
  <2>3. pc'[w] = "insert" /\ envs'[w] = Fetched(g, newLast[w])
    BY <2>1, <2>2 DEF FetchNew, PassInv, ServerInv, GoTo, TypeInv, TypeOK
  <2>4. /\ Fetched(g, newLast[w]) \subseteq msgs[g]
        /\ \A u \in msgs[g] : u > newLast[w] => u \in envs'[w]
    BY <2>3 DEF Fetched, Newest
  <2>5. \A e \in envs'[w] : e < uidNext[g]
    BY <2>2, <2>3, <2>4 DEF ServerInv
  <2>6. ASSUME NEW u \in msgs[g] PROVE u \in Indexed(g) \/ u \in envs'[w]
    <3>1. u \in Nat /\ newLast[w] \in Nat
      BY DEF TypeInv, TypeOK, Uids
    <3>2. u <= newLast[w] => u \in Indexed(g)
      BY <1>1, <2>2 DEF PassInv, Passed
    <3> QED
      BY <2>4, <3>1, <3>2
  <2> QED
    BY <1>1, <2>1, <2>2, <2>3, <2>5, <2>6
       DEF PassInv, ServerInv, Indexed, server, db
<1> QED
  BY <1>1, <1>2, StepOfOnePass, SameMarks

(* No pass resets a folder that was never renumbered.                      *)
LEMMA ResetKeeps ==
    ASSUME TypeInv, GapInv, NEW w \in Workers,
           ClearMessages(w) \/ StampFolder(w) \/ Refetch(w)
    PROVE  GapInv'
<1> DEFINE f == Folder(w)
<1>1. /\ pc[w] \in {"clear", "stamp", "refetch"} /\ todo[w] # <<>>
      /\ UNCHANGED <<server, renumbered, todo>>
      /\ \A x \in Workers \ {w} : SameLocals(x)
      /\ \A g \in Folders \ {f} :
            /\ rows'[g] = rows[g] /\ uidvalidity'[g] = uidvalidity[g]
            /\ lastUid'[g] = lastUid[g]
  BY DEF ClearMessages, StampFolder, Refetch, GoTo, SameLocals, hist, db,
         TypeInv, TypeOK, AtFolder
<1>2. ASSUME NEW g \in Folders, Stable(g) PROVE g # f
  <2> SUFFICES ASSUME g = f PROVE FALSE
    OBVIOUS
  <2>1. InFolder(w, g)
    BY <1>1 DEF InFolder
  <2>2. PassInv(w, g)
    BY <1>2, <2>1 DEF GapInv
  <2> QED
    BY <1>1, <2>2 DEF PassInv
<1>3. \A g \in Folders : Stable(g) => Indexed(g) \subseteq Indexed(g)'
  BY <1>1, <1>2 DEF Indexed
<1>4. \A g \in Folders : Stable(g) => MarkInv(g)'
  BY <1>1, <1>2 DEF GapInv, MarkInv, Indexed, server
<1>5. \A g \in Folders : Stable(g) => ~InFolder(w, g)'
  BY <1>1, <1>2 DEF InFolder, Folder
<1> QED
  BY <1>1, <1>3, <1>4, <1>5, StepOfOnePass

(* The inserted message moves from the pass's hands into the index.        *)
LEMMA InsertEnvelopeKeeps ==
    ASSUME TypeInv, GapInv, NEW w \in Workers, InsertEnvelope(w)
    PROVE  GapInv'
<1> DEFINE f == Folder(w)
<1>1. PICK u \in envs[w] :
         /\ rows' = [rows EXCEPT ![f] = Upserted(f, u, currentUv[w])]
         /\ envs' = [envs EXCEPT ![w] = @ \ {u}]
         /\ newLast' = [newLast EXCEPT ![w] = IF u > @ THEN u ELSE @]
  BY DEF InsertEnvelope
<1>2. /\ pc[w] = "insert" /\ todo[w] # <<>>
      /\ UNCHANGED <<server, uidvalidity, lastUid, renumbered, pc, todo,
                     lastUv, currentUv>>
      /\ \A x \in Workers \ {w} : SameLocals(x)
  BY <1>1 DEF InsertEnvelope, SameLocals, hist, TypeInv, TypeOK, AtFolder
<1>3. f \in Folders
  BY <1>2, FolderType
<1>4. /\ \A g \in Folders : Indexed(g) \subseteq Indexed(g)'
      /\ \A g \in Folders : g = f => u \in Indexed(g)'
  <2>1. \A g \in Folders \ {f} : rows'[g] = rows[g]
    BY <1>1 DEF TypeInv, TypeOK
  <2>2. rows'[f] = Upserted(f, u, currentUv[w])
    BY <1>1, <1>3 DEF TypeInv, TypeOK
  <2>3. \A g \in Folders : rows[g] \subseteq rows'[g]
    BY <2>1, <2>2 DEF Upserted
  <2>4. \E r \in rows'[f] : r[1] = u
    <3>1. CASE u \in Indexed(f)
      BY <2>2, <3>1 DEF Upserted, Indexed
    <3>2. CASE u \notin Indexed(f)
      <4>1. <<u, currentUv[w]>> \in rows'[f]
        BY <2>2, <3>2 DEF Upserted
      <4> QED
        BY <4>1
    <3> QED
      BY <3>1, <3>2
  <2> HIDE DEF f
  <2> QED
    BY <2>3, <2>4 DEF Indexed
<1>5. \A g \in Folders : Stable(g) => MarkInv(g)'
  BY <1>2, <1>4 DEF GapInv, MarkInv, server
<1>6. ASSUME NEW g \in Folders, Stable(g), InFolder(w, g)'
      PROVE  PassInv(w, g)'
  <2>1. g = f /\ InFolder(w, g)
    BY <1>2, <1>6 DEF InFolder, Folder
  <2>2. PassInv(w, g)
    BY <1>6, <2>1 DEF GapInv
  <2>3. newLast'[w] \in {newLast[w], u} /\ envs'[w] = envs[w] \ {u}
    BY <1>1 DEF TypeInv, TypeOK
  <2>4. newLast'[w] < uidNext[g]
    BY <2>2, <2>3 DEF PassInv
  <2>5. ASSUME NEW v \in msgs[g], Passed(w, v)'
        PROVE  v \in Indexed(g)' \/ v \in envs'[w]
    <3>1. Passed(w, v)
      BY <2>3, <2>5 DEF Passed
    <3> QED
      BY <1>4, <2>1, <2>2, <2>3, <3>1 DEF PassInv
  <2> QED
    BY <1>2, <2>2, <2>3, <2>4, <2>5 DEF PassInv, server
<1> QED
  BY <1>2, <1>4, <1>5, <1>6, StepOfOnePass

(* With nothing left in its hands, all that a pass has passed is indexed.  *)
LEMMA UpdateFolderStateKeeps ==
    ASSUME TypeInv, GapInv, NEW w \in Workers, UpdateFolderState(w)
    PROVE  GapInv'
<1> DEFINE f == Folder(w)
<1>1. /\ pc[w] = "insert" /\ envs[w] = {} /\ todo[w] # <<>>
      /\ uidvalidity' = [uidvalidity EXCEPT ![f] = currentUv[w]]
      /\ lastUid' = [lastUid EXCEPT ![f] = newLast[w]]
      /\ UNCHANGED <<server, rows, renumbered>>
      /\ pc'[w] = "folder"
      /\ \A x \in Workers \ {w} : SameLocals(x)
  BY DEF UpdateFolderState, LeaveFolder, GoTo, SameLocals, hist, TypeInv,
         TypeOK, AtFolder
<1>2. \A g \in Folders : Indexed(g)' = Indexed(g)
  BY <1>1 DEF Indexed
<1>3. ASSUME NEW g \in Folders, Stable(g) PROVE MarkInv(g)'
  <2>1. MarkInv(g)
    BY <1>3 DEF GapInv
  <2>2. CASE g # f
    BY <1>1, <1>2, <2>1, <2>2 DEF MarkInv, server, TypeInv, TypeOK
  <2>3. CASE g = f
    <3>1. InFolder(w, g)
      BY <1>1, <2>3 DEF InFolder
    <3>2. PassInv(w, g)
      BY <1>3, <3>1 DEF GapInv
    <3>3. uidvalidity'[g] = 1 /\ lastUid'[g] = newLast[w]
      BY <1>1, <2>3, <3>2 DEF PassInv, TypeInv, TypeOK
    <3> QED
      BY <1>1, <1>2, <3>2, <3>3 DEF MarkInv, PassInv, Passed, server
  <2> QED
    BY <2>2, <2>3
<1>4. \A g \in Folders : ~InFolder(w, g)'
  BY <1>1 DEF InFolder
<1> QED
  BY <1>1, <1>2, <1>3, <1>4, StepOfOnePass

(* A new message has a UID above every mark and every fetched one.         *)
LEMMA DeliverKeeps ==
    ASSUME TypeInv, GapInv, NEW d \in Folders, Deliver(d)
    PROVE  GapInv'
<1>1. /\ UNCHANGED <<uv, db, locals, renumbered>>
      /\ msgs' = [msgs EXCEPT ![d] = @ \cup {uidNext[d]}]
      /\ uidNext' = [uidNext EXCEPT ![d] = @ + 1]
  BY DEF Deliver, hist
<1>2. /\ \A f \in Folders : Indexed(f)' = Indexed(f)
      /\ \A f \in Folders, w \in Workers : InFolder(w, f)' = InFolder(w, f)
      /\ \A w \in Workers : \A u : Passed(w, u)' = Passed(w, u)
  BY <1>1 DEF Indexed, InFolder, Folder, Passed, db, locals
<1> SUFFICES ASSUME NEW f \in Folders, Stable(f)
             PROVE  /\ ServerInv(f)' /\ MarkInv(f)'
                    /\ \A w \in Workers : InFolder(w, f) => PassInv(w, f)'
  BY <1>1, <1>2 DEF GapInv, Stable
<1>3. ServerInv(f) /\ MarkInv(f)
  BY DEF GapInv
<1>4. /\ uidNext[f] \in Nat /\ lastUid[f] \in Nat /\ msgs[f] \subseteq Nat
      /\ uidNext'[f] \in {uidNext[f], uidNext[f] + 1}
      /\ msgs'[f] \in {msgs[f], msgs[f] \cup {uidNext[f]}}
      /\ uidNext'[f] = uidNext[f] => msgs'[f] = msgs[f]
  BY <1>1 DEF TypeInv, TypeOK, Uids
<1>5. ServerInv(f)'
  BY <1>1, <1>3, <1>4 DEF ServerInv
<1>6. MarkInv(f)'
  BY <1>1, <1>2, <1>3, <1>4 DEF MarkInv, db
<1>7. ASSUME NEW w \in Workers, InFolder(w, f) PROVE PassInv(w, f)'
  <2>1. PassInv(w, f)
    BY <1>7 DEF GapInv
  <2>2. newLast[w] \in Nat /\ envs[w] \subseteq Nat
    BY DEF TypeInv, TypeOK, Uids
  <2>3. ~Passed(w, uidNext[f])
    BY <1>4, <2>1, <2>2 DEF PassInv, Passed
  <2>4. ASSUME NEW u \in msgs'[f], Passed(w, u)
        PROVE  u \in Indexed(f) \/ u \in envs[w]
    <3>1. u \in msgs[f]
      BY <1>4, <2>3, <2>4
    <3> QED
      BY <2>1, <2>4, <3>1 DEF PassInv
  <2>5. newLast[w] < uidNext'[f] /\ \A e \in envs[w] : e < uidNext'[f]
    BY <1>4, <2>1, <2>2 DEF PassInv
  <2> QED
    BY <1>1, <1>2, <2>1, <2>4, <2>5 DEF PassInv, locals
<1> QED
  BY <1>5, <1>6, <1>7

(* Messages that disappear, and folders that stop being stable, only make  *)
(* the invariant weaker.                                                   *)
LEMMA ExpungeRenumberKeeps ==
    ASSUME TypeInv, GapInv, NEW d \in Folders, Expunge(d) \/ Renumber(d)
    PROVE  GapInv'
<1>1. UNCHANGED <<db, locals>>
  BY DEF Expunge, Renumber
<1>2. /\ \A f \in Folders : Indexed(f)' = Indexed(f)
      /\ \A f \in Folders, w \in Workers : InFolder(w, f)' = InFolder(w, f)
  BY <1>1 DEF Indexed, InFolder, Folder, db, locals
<1>3. ASSUME NEW f \in Folders, Stable(f)'
      PROVE  /\ Stable(f) /\ msgs'[f] \subseteq msgs[f]
             /\ uv'[f] = uv[f] /\ uidNext'[f] = uidNext[f]
  <2>1. CASE Expunge(d)
    BY <1>3, <2>1 DEF Expunge, Stable, hist, TypeInv, TypeOK
  <2>2. CASE Renumber(d)
    <3>1. renumbered[d] \in Nat
          /\ renumbered' = [renumbered EXCEPT ![d] = renumbered[d] + 1]
      BY <2>2 DEF Renumber, TypeInv, TypeOK
    <3>2. f # d
      BY <1>3, <3>1 DEF Stable, TypeInv, TypeOK
    <3> QED
      BY <1>3, <2>2, <3>2 DEF Renumber, Stable, TypeInv, TypeOK
  <2> QED
    BY <2>1, <2>2
<1>4. ASSUME NEW f \in Folders, Stable(f)'
      PROVE  /\ ServerInv(f)' /\ MarkInv(f)'
             /\ \A w \in Workers : InFolder(w, f)' => PassInv(w, f)'
  <2>1. Stable(f) /\ ServerInv(f) /\ MarkInv(f)
    BY <1>3, <1>4 DEF GapInv
  <2>2. ServerInv(f)'
    BY <1>3, <1>4, <2>1 DEF ServerInv
  <2>3. MarkInv(f)'
    BY <1>1, <1>2, <1>3, <1>4, <2>1 DEF MarkInv, db
  <2>4. ASSUME NEW w \in Workers, InFolder(w, f)' PROVE PassInv(w, f)'
    <3>1. PassInv(w, f)
      BY <1>2, <2>1, <2>4 DEF GapInv
    <3> QED
      BY <1>1, <1>2, <1>3, <1>4, <3>1 DEF PassInv, Passed, locals
  <2> QED
    BY <2>2, <2>3, <2>4
<1> QED
  BY <1>4 DEF GapInv

LEMMA GapNext == TypeInv /\ GapInv /\ [Next]_vars => GapInv'
<1> SUFFICES ASSUME TypeInv, GapInv, [Next]_vars PROVE GapInv'
  OBVIOUS
<1>1. ASSUME NEW w \in Workers, Step(w) \/ Abort(w) PROVE GapInv'
  BY <1>1, PassOutside, EnsureFolderKeeps, FetchNewKeeps, ResetKeeps,
     InsertEnvelopeKeeps, UpdateFolderStateKeeps DEF Step
<1>2. ASSUME NEW f \in Folders, Deliver(f) \/ Expunge(f) \/ Renumber(f)
      PROVE  GapInv'
  BY <1>2, DeliverKeeps, ExpungeRenumberKeeps
<1>3. CASE UNCHANGED vars
  BY <1>3 DEF vars, server, db, locals, hist, GapInv, ServerInv, MarkInv,
              PassInv, Passed, Indexed, Stable, InFolder, Folder
<1> QED
  BY <1>1, <1>2, <1>3 DEF Next

(* However many passes overlap, fail or crash: while a folder keeps its    *)
(* UIDVALIDITY, last_uid never runs ahead of the index.                    *)
THEOREM MarkNeverAhead == Spec => []NoGap
<1>1. Spec => []GapInv
  BY TypeInvariant, GapInit, GapNext, PTL DEF Spec
<1> QED
  BY <1>1, GapInvImpliesNoGap, PTL

-----------------------------------------------------------------------------
(* OneValidity.  Where passes have not met, a pass has the folder to       *)
(* itself: the reset it is in the middle of is its own, and what an        *)
(* interrupted one left is either of the UIDVALIDITY that is stored or     *)
(* bound to be cleared, because the stored one is behind the server's.     *)

Alone(f) == \A x, y \in Workers : InFolder(x, f) /\ InFolder(y, f) => x = y

RowsInv(f) ==
    /\ \A r, q \in rows[f] : r[2] = q[2]
    /\ uidvalidity[f] <= uv[f]
    /\ uidvalidity[f] = uv[f] => \A r \in rows[f] : r[2] = uv[f]

ResetInv(w, f) ==
    /\ pc[w] = "fetch" => lastUv[w] = uidvalidity[f]
    /\ pc[w] # "fetch" => currentUv[w] <= uv[f]
    /\ pc[w] \in {"stamp", "refetch"} => rows[f] = {}
    /\ pc[w] = "insert" =>
          /\ \A r \in rows[f] : r[2] = currentUv[w]
          /\ uidvalidity[f] = uv[f] => currentUv[w] = uv[f]

ValidInv ==
    \A f \in Folders \ mixed :
        /\ Alone(f) /\ RowsInv(f)
        /\ \A w \in Workers : InFolder(w, f) => ResetInv(w, f)

LEMMA ValidInit == Init => ValidInv
BY DEF Init, ValidInv, Alone, RowsInv, ResetInv, InFolder

LEMMA ValidImpliesOne == ValidInv => OneValidity
BY DEF ValidInv, RowsInv, ResetInv, OneValidity

(* A step of a pass that has its folder to itself is about that folder and *)
(* that pass only.                                                         *)
LEMMA StepAlone ==
    ASSUME ValidInv, NEW w \in Workers, mixed \subseteq mixed', UNCHANGED uv,
           \A x \in Workers \ {w} : SameLocals(x),
           \A f \in Folders : ~InFolder(w, f) =>
              rows'[f] = rows[f] /\ uidvalidity'[f] = uidvalidity[f],
           \A f \in Folders \ mixed' : InFolder(w, f)' /\ ~InFolder(w, f) =>
              \A x \in Workers \ {w} : ~InFolder(x, f),
           \A f \in Folders \ mixed' : InFolder(w, f) => RowsInv(f)',
           \A f \in Folders \ mixed' : InFolder(w, f)' => ResetInv(w, f)'
    PROVE  ValidInv'
<1> SUFFICES ASSUME NEW f \in Folders, f \notin mixed'
             PROVE  /\ Alone(f)' /\ RowsInv(f)'
                    /\ \A x \in Workers : InFolder(x, f)' => ResetInv(x, f)'
  BY DEF ValidInv
<1>1. /\ Alone(f) /\ RowsInv(f)
      /\ \A x \in Workers : InFolder(x, f) => ResetInv(x, f)
  BY DEF ValidInv
<1>2. \A x \in Workers \ {w} : InFolder(x, f)' <=> InFolder(x, f)
  BY DEF SameLocals, InFolder, Folder
<1>3. \A x \in Workers \ {w} :
         InFolder(x, f) => ~InFolder(w, f) /\ ~InFolder(w, f)'
  BY <1>1 DEF Alone
<1>4. Alone(f)'
  BY <1>1, <1>2, <1>3 DEF Alone
<1>5. RowsInv(f)'
  BY <1>1 DEF RowsInv
<1>6. ASSUME NEW x \in Workers, InFolder(x, f)' PROVE ResetInv(x, f)'
  <2>1. CASE x = w
    BY <1>6, <2>1
  <2>2. CASE x # w
    <3>1. /\ ResetInv(x, f) /\ SameLocals(x)
          /\ rows'[f] = rows[f] /\ uidvalidity'[f] = uidvalidity[f]
      BY <1>1, <1>2, <1>3, <1>6, <2>2
    <3> QED BY <3>1 DEF ResetInv, SameLocals
  <2> QED BY <2>1, <2>2
<1> QED BY <1>4, <1>5, <1>6

(* A pass that is in no folder, or was and leaves it as it is.             *)
LEMMA OutsideStaysValid ==
    ASSUME TypeInv, ValidInv, NEW w \in Workers,
           StartSync(w) \/ EndSync(w) \/ Abort(w)
    PROVE  ValidInv'
<1>1. /\ UNCHANGED <<server, db, mixed>>
      /\ pc'[w] \in {"idle", "folder"}
      /\ \A x \in Workers \ {w} : SameLocals(x)
  BY DEF StartSync, EndSync, Abort, LeaveFolder, GoTo, SameLocals, hist,
         TypeInv, TypeOK
<1>2. \A f \in Folders : ~InFolder(w, f)'
  BY <1>1 DEF InFolder
<1>3. \A f \in Folders \ mixed' : RowsInv(f)'
  BY <1>1 DEF ValidInv, RowsInv, server, db
<1> QED BY <1>1, <1>2, <1>3, StepAlone DEF server, db

(* Who enters a folder where another pass is marks it as mixed.            *)
LEMMA EnterStaysValid ==
    ASSUME TypeInv, ValidInv, NEW w \in Workers, EnsureFolder(w)
    PROVE  ValidInv'
<1>1. /\ UNCHANGED <<server, db>> /\ pc[w] = "folder" /\ pc'[w] = "fetch"
      /\ todo' = todo
      /\ lastUv'[w] = uidvalidity[Folder(w)]
      /\ mixed \subseteq mixed'
      /\ \A x \in Workers : InFolder(x, Folder(w)) => Folder(w) \in mixed'
      /\ \A x \in Workers \ {w} : SameLocals(x)
  BY DEF EnsureFolder, GoTo, SameLocals, TypeInv, TypeOK
<1>2. \A f \in Folders : ~InFolder(w, f) /\ (InFolder(w, f)' => f = Folder(w))
  BY <1>1 DEF InFolder, Folder
<1>3. \A f \in Folders : InFolder(w, f)' => ResetInv(w, f)'
  BY <1>1, <1>2 DEF ResetInv, db
<1> QED BY <1>1, <1>2, <1>3, StepAlone DEF server, db

(* A pass that does not reset the folder agrees with the stored            *)
(* UIDVALIDITY, or finds what it indexes to be of the current one.         *)
LEMMA FetchStaysValid ==
    ASSUME TypeInv, ValidInv, NEW w \in Workers, FetchNew(w)
    PROVE  ValidInv'
<1>1. /\ UNCHANGED <<server, db, todo>> /\ pc[w] = "fetch"
      /\ pc'[w] \in {"clear", "insert"}
      /\ currentUv'[w] = uv[Folder(w)]
      /\ pc'[w] = "insert" => lastUv[w] = 0 \/ uv[Folder(w)] = lastUv[w]
      /\ pc'[w] = "insert" /\ lastUv[w] = 0 /\ Folder(w) \notin mixed' =>
            \A r \in rows[Folder(w)] : r[2] = uv[Folder(w)]
      /\ mixed \subseteq mixed'
      /\ \A x \in Workers \ {w} : SameLocals(x)
  BY DEF FetchNew, GoTo, SameLocals, TypeInv, TypeOK
<1>2. \A f \in Folders : InFolder(w, f)' => InFolder(w, f) /\ f = Folder(w)
  BY <1>1 DEF InFolder, Folder
<1>3. \A f \in Folders \ mixed' : RowsInv(f)'
  BY <1>1 DEF ValidInv, RowsInv, server, db
<1>4. ASSUME NEW f \in Folders, f \notin mixed', InFolder(w, f)'
      PROVE  ResetInv(w, f)'
  <2>1. /\ f = Folder(w) /\ RowsInv(f) /\ lastUv[w] = uidvalidity[f]
        /\ uv[f] \in Nat
    BY <1>1, <1>2, <1>4 DEF ValidInv, ResetInv, TypeInv, TypeOK
  <2>2. pc'[w] = "insert" => \A r \in rows[f] : r[2] = uv[f]
    BY <1>1, <1>4, <2>1 DEF RowsInv
  <2> QED BY <1>1, <2>1, <2>2 DEF ResetInv, server, db
<1> QED BY <1>1, <1>2, <1>3, <1>4, StepAlone DEF server, db

(* A reset: between its statements the index is empty.                     *)
LEMMA ResetStaysValid ==
    ASSUME TypeInv, ValidInv, NEW w \in Workers,
           ClearMessages(w) \/ StampFolder(w) \/ Refetch(w)
    PROVE  ValidInv'
<1> DEFINE f == Folder(w)
<1>1. /\ pc[w] \in {"clear", "stamp", "refetch"} /\ todo[w] # <<>>
      /\ UNCHANGED <<server, mixed, todo>> /\ f \in Folders
      /\ \A x \in Workers \ {w} : SameLocals(x)
      /\ \A g \in Folders \ {f} :
            rows'[g] = rows[g] /\ uidvalidity'[g] = uidvalidity[g]
  BY FolderType DEF ClearMessages, StampFolder, Refetch, GoTo, SameLocals, hist,
         db, TypeInv, TypeOK, AtFolder
<1>2. /\ InFolder(w, f) /\ \A g \in Folders : InFolder(w, g) => g = f
      /\ \A g \in Folders : InFolder(w, g)' => g = f
  BY <1>1 DEF InFolder, Folder
<1>3. uv[f] \in Nat \ {0} /\ uv' = uv
  BY <1>1 DEF TypeInv, TypeOK, server
<1>4. f \notin mixed' => RowsInv(f) /\ ResetInv(w, f)
  BY <1>1, <1>2 DEF ValidInv
<1>5. ASSUME f \notin mixed'
      PROVE  /\ RowsInv(f)'
             /\ \A g \in Folders : g = f => ResetInv(w, g)'
  <2>1. CASE ClearMessages(w)
    <3>1. /\ rows'[f] = {} /\ pc'[w] = "stamp"
          /\ UNCHANGED <<uidvalidity, currentUv>> /\ f' = f
      BY <1>1, <2>1 DEF ClearMessages, GoTo, TypeInv, TypeOK, Folder
    <3> QED BY <1>3, <1>4, <1>5, <2>1, <3>1 DEF RowsInv, ResetInv, ClearMessages
  <2>2. CASE StampFolder(w)
    <3>1. /\ rows'[f] = {} /\ pc'[w] = "refetch" /\ currentUv[w] <= uv[f]
          /\ uidvalidity'[f] = currentUv[w] /\ UNCHANGED currentUv /\ f' = f
      BY <1>1, <1>4, <1>5, <2>2
         DEF StampFolder, ResetInv, GoTo, TypeInv, TypeOK, Folder
    <3> QED BY <1>3, <1>4, <1>5, <3>1 DEF RowsInv, ResetInv
  <2>3. CASE Refetch(w)
    <3>1. /\ rows' = rows /\ rows[f] = {} /\ pc'[w] = "insert"
          /\ currentUv'[w] = uv[f] /\ UNCHANGED uidvalidity /\ f' = f
      BY <1>1, <1>4, <1>5, <2>3
         DEF Refetch, ResetInv, GoTo, TypeInv, TypeOK, Folder, db
    <3> QED BY <1>3, <1>4, <1>5, <3>1 DEF RowsInv, ResetInv
  <2> QED BY <2>1, <2>2, <2>3
<1>6. \A g \in Folders \ mixed' : InFolder(w, g) => RowsInv(g)'
  <2>1. f' = f
    BY <1>1 DEF Folder
  <2> QED BY <1>2, <1>5, <2>1
<1>7. \A g \in Folders \ mixed' : InFolder(w, g)' => ResetInv(w, g)'
  BY <1>2, <1>5
<1> QED BY <1>1, <1>2, <1>3, <1>6, <1>7, StepAlone

(* An envelope is of the same UIDVALIDITY as those before it.              *)
LEMMA InsertStaysValid ==
    ASSUME TypeInv, ValidInv, NEW w \in Workers,
           InsertEnvelope(w) \/ UpdateFolderState(w)
    PROVE  ValidInv'
<1>0. PICK f : f = Folder(w)
  OBVIOUS
<1>1. /\ pc[w] = "insert" /\ todo[w] # <<>> /\ f \in Folders
      /\ UNCHANGED <<server, mixed>>
      /\ \A x \in Workers \ {w} : SameLocals(x)
      /\ \A g \in Folders \ {f} :
            rows'[g] = rows[g] /\ uidvalidity'[g] = uidvalidity[g]
  <2>1. pc[w] = "insert" /\ todo[w] # <<>> /\ f \in Folders
    BY <1>0, FolderType DEF InsertEnvelope, UpdateFolderState, TypeInv, AtFolder
  <2>2. CASE InsertEnvelope(w)
    BY <1>0, <2>1, <2>2 DEF InsertEnvelope, SameLocals, hist, TypeInv, TypeOK
  <2>3. CASE UpdateFolderState(w)
    BY <1>0, <2>1, <2>3
       DEF UpdateFolderState, LeaveFolder, GoTo, SameLocals, hist, TypeInv, TypeOK
  <2> QED BY <2>1, <2>2, <2>3
<1>2. InFolder(w, f) /\ \A g \in Folders : InFolder(w, g) => g = f
  BY <1>0, <1>1 DEF InFolder
<1>3. uv' = uv
  BY <1>1 DEF server
<1>4. f \notin mixed => RowsInv(f) /\ ResetInv(w, f)
  BY <1>1, <1>2 DEF ValidInv
<1>5. CASE InsertEnvelope(w)
  <2>1. /\ UNCHANGED <<uidvalidity, pc, todo, lastUv, currentUv>>
        /\ \A r \in rows'[f] : r \in rows[f] \/ r[2] = currentUv[w]
    BY <1>0, <1>1, <1>5 DEF InsertEnvelope, Upserted, TypeInv, TypeOK
  <2>2. \A g \in Folders : InFolder(w, g)' <=> InFolder(w, g)
    BY <2>1 DEF InFolder, Folder
  <2>3. f \notin mixed => RowsInv(f)' /\ ResetInv(w, f)'
    BY <1>1, <1>3, <1>4, <2>1 DEF RowsInv, ResetInv
  <2> QED BY <1>1, <1>2, <1>3, <2>2, <2>3, StepAlone
<1>6. CASE UpdateFolderState(w)
  <2>1. /\ uidvalidity'[f] = currentUv[w] /\ UNCHANGED rows /\ pc'[w] = "folder"
    BY <1>0, <1>1, <1>6
       DEF UpdateFolderState, LeaveFolder, GoTo, TypeInv, TypeOK
  <2>2. \A g \in Folders : ~InFolder(w, g)'
    BY <2>1 DEF InFolder
  <2>3. f \notin mixed => RowsInv(f)'
    BY <1>1, <1>3, <1>4, <2>1 DEF RowsInv, ResetInv
  <2> QED BY <1>1, <1>2, <1>3, <2>2, <2>3, StepAlone
<1> QED BY <1>5, <1>6

(* The server's UIDVALIDITY only grows, which leaves the stored one behind.*)
LEMMA ServerStaysValid ==
    ASSUME TypeInv, ValidInv,
           \/ \E f \in Folders : Deliver(f) \/ Expunge(f) \/ Renumber(f)
           \/ UNCHANGED vars
    PROVE  ValidInv'
<1>1. /\ UNCHANGED <<db, locals, mixed>>
      /\ \A f \in Folders : uv'[f] \in {uv[f], uv[f] + 1}
  BY DEF Deliver, Expunge, Renumber, hist, vars, server, TypeInv, TypeOK
<1>2. \A w \in Workers : SameLocals(w)
  BY <1>1 DEF SameLocals, locals
<1>3. ASSUME NEW f \in Folders \ mixed
      PROVE  /\ Alone(f)' /\ RowsInv(f)'
             /\ \A w \in Workers : InFolder(w, f)' => ResetInv(w, f)'
  <2>1. /\ Alone(f) /\ RowsInv(f)
        /\ \A w \in Workers : InFolder(w, f) => ResetInv(w, f)
    BY DEF ValidInv
  <2>2. \A w \in Workers : InFolder(w, f)' <=> InFolder(w, f)
    BY <1>2 DEF SameLocals, InFolder, Folder
  <2>3. /\ uv[f] \in Nat /\ uidvalidity[f] \in Nat
        /\ \A w \in Workers : currentUv[w] \in Nat
    BY DEF TypeInv, TypeOK
  <2>4. RowsInv(f)'
    BY <1>1, <2>1, <2>3 DEF RowsInv, db
  <2>5. \A w \in Workers : InFolder(w, f) => ResetInv(w, f)'
    BY <1>1, <1>2, <2>1, <2>3 DEF RowsInv, ResetInv, SameLocals, db
  <2> QED BY <2>1, <2>2, <2>4, <2>5 DEF Alone
<1> QED BY <1>1, <1>3 DEF ValidInv

LEMMA ValidNext == TypeInv /\ ValidInv /\ [Next]_vars => ValidInv'
<1> SUFFICES ASSUME TypeInv, ValidInv, [Next]_vars PROVE ValidInv'
  OBVIOUS
<1>1. ASSUME NEW w \in Workers, Step(w) \/ Abort(w) PROVE ValidInv'
  BY <1>1, OutsideStaysValid, EnterStaysValid, FetchStaysValid,
     ResetStaysValid, InsertStaysValid DEF Step
<1>2. CASE \/ \E f \in Folders : Deliver(f) \/ Expunge(f) \/ Renumber(f)
           \/ UNCHANGED vars
  BY <1>2, ServerStaysValid
<1> QED BY <1>1, <1>2 DEF Next

(* Wherever a failure cuts a reset and however often the folder is         *)
(* renumbered meanwhile: unless passes have met in a folder, or taken up   *)
(* its first pass under another UIDVALIDITY, its index never holds         *)
(* envelopes of two of them.                                               *)
THEOREM ResetLeavesNothing == Spec => []OneValidity
<1>1. Spec => []ValidInv
  BY TypeInvariant, ValidInit, ValidNext, PTL DEF Spec
<1> QED
  BY <1>1, ValidImpliesOne, PTL
=============================================================================
