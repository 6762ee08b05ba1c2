-------------------------- MODULE DailyDigestProofs --------------------------
(***************************************************************************)
(* Proofs about DailyDigest, for any groups and messages, any number of    *)
(* overlapping digests, clicks, failures and crashes; and about the agenda *)
(* and the times of the calendar tools, for all times.                     *)
(***************************************************************************)
EXTENDS DailyDigest, Agenda, FiniteSetTheorems, TLAPS

LEMMA NewestIsSome ==
    ASSUME NEW msgs, NEW most
    PROVE  Newest(msgs, most) \subseteq msgs
BY DEF Newest

LEMMA MessagesOfGroup ==
    ASSUME TypeOK, NEW g
    PROVE  /\ UnsummarizedMessages(g) \in SUBSET stored
           /\ UnextractedMessages(g) \in SUBSET stored
BY DEF UnsummarizedMessages, UnextractedMessages, Recent, TypeOK

(* Nobody deletes a row, so what a digest holds stays stored.              *)
LEMMA StoredGrows ==
    ASSUME TypeOK, stored \subseteq stored',
           UNCHANGED <<summarized, extracted, learned, mailed, locals>>
    PROVE  /\ summarized' \in SUBSET stored' /\ extracted' \in SUBSET stored'
           /\ learned' \in SUBSET stored' /\ mailed' \in SUBSET stored'
           /\ pc' \in [Digests -> Pcs] /\ todo' \in [Digests -> SUBSET Groups]
           /\ ids' \in [Digests -> SUBSET stored']
           /\ shown' \in [Digests -> SUBSET stored']
           /\ \A d \in Digests : shown'[d] \subseteq ids'[d]
           /\ batch' \in [Digests -> SUBSET stored']
BY DEF TypeOK, locals

LEMMA TypeInit == Init => TypeOK
BY BoundAssumption, GroupAssumption DEF Init, TypeOK, Pcs

LEMMA SectionType ==
    ASSUME TypeOK, NEW d \in Digests, NEW g, Section(d, g)
    PROVE  /\ ids' \in [Digests -> SUBSET stored]
           /\ shown' \in [Digests -> SUBSET stored]
           /\ \A x \in Digests : shown'[x] \subseteq ids'[x]
<1> DEFINE msgs == UnsummarizedMessages(g)
<1>1. msgs \in SUBSET stored
  BY MessagesOfGroup
<1>2. PICK told \in SUBSET msgs : shown' = [shown EXCEPT ![d] = @ \cup told]
  BY NewestIsSome DEF Section, Transcript, Fallback
<1>3. ids' = [ids EXCEPT ![d] = @ \cup msgs]
  BY DEF Section
<1> HIDE DEF msgs
<1> QED
  BY <1>1, <1>2, <1>3 DEF TypeOK

LEMMA ExitType ==
    ASSUME TypeOK, NEW d \in Digests, Exit(d)
    PROVE  /\ pc' \in [Digests -> Pcs] /\ todo' \in [Digests -> SUBSET Groups]
           /\ ids' \in [Digests -> SUBSET stored]
           /\ shown' \in [Digests -> SUBSET stored]
           /\ \A x \in Digests : shown'[x] \subseteq ids'[x]
           /\ batch' \in [Digests -> SUBSET stored]
BY DEF Exit, Goto, Pcs, TypeOK

LEMMA TypeNext == TypeOK /\ [Next]_vars => TypeOK'
<1> SUFFICES ASSUME TypeOK, [Next]_vars PROVE TypeOK'
  OBVIOUS
<1> USE BoundAssumption, GroupAssumption
<1> USE DEF tables, locals, budgets, Goto, Fault, Pcs
<1>1. ASSUME NEW m \in Msgs, IngestMessage(m) PROVE TypeOK'
  <2>1. stored \subseteq stored' /\ stored' \in SUBSET Msgs
    BY <1>1 DEF IngestMessage, TypeOK
  <2>2. group' \in [Groups -> {"unknown", "off", "on"}]
    BY <1>1 DEF IngestMessage, TypeOK
  <2>3. UNCHANGED <<summarized, extracted, learned, old, mailed, locals, toggles>>
        /\ faults' \in 0 .. MaxFaults
    BY <1>1 DEF IngestMessage, TypeOK
  <2> QED
    BY <2>1, <2>2, <2>3, StoredGrows DEF TypeOK
<1>2. CASE RefreshGroups
  BY <1>2 DEF RefreshGroups, TypeOK
<1>3. ASSUME NEW g \in Groups, SetIngestEnabled(g) PROVE TypeOK'
  BY <1>3 DEF SetIngestEnabled, TypeOK
<1>4. CASE Age
  BY <1>4 DEF Age, TypeOK
<1>5. ASSUME NEW d \in Digests, ListEvents(d) PROVE TypeOK'
  BY <1>5 DEF ListEvents, TypeOK
<1>6. ASSUME NEW d \in Digests, StartSummary(d) PROVE TypeOK'
  <2>1. OptedInGroups \in SUBSET Groups
    BY DEF OptedInGroups
  <2>2. CASE SummaryFails(d)
    BY <1>6, <2>2 DEF StartSummary, SummaryFails, TypeOK
  <2>3. CASE /\ Goto(d, "summary") /\ todo' = [todo EXCEPT ![d] = OptedInGroups]
             /\ UNCHANGED <<ids, shown, faults>>
    <3>1. todo' \in [Digests -> SUBSET Groups] /\ pc' \in [Digests -> Pcs]
      BY <2>1, <2>3 DEF TypeOK
    <3> QED
      BY <1>6, <2>3, <3>1 DEF StartSummary, TypeOK
  <2> QED
    BY <1>6, <2>2, <2>3 DEF StartSummary
<1>7. ASSUME NEW d \in Digests, SummarizeGroup(d) PROVE TypeOK'
  <2>1. CASE SummaryFails(d)
    BY <1>7, <2>1 DEF SummarizeGroup, SummaryFails, TypeOK
  <2>2. CASE Section(d, First(todo[d])) /\ UNCHANGED <<pc, faults>>
             /\ todo' = [todo EXCEPT ![d] = @ \ {First(@)}]
    BY <1>7, <2>2, SectionType DEF SummarizeGroup, TypeOK
  <2> QED
    BY <1>7, <2>1, <2>2 DEF SummarizeGroup
<1>8. ASSUME NEW d \in Digests, StartMemories(d) PROVE TypeOK'
  <2>1. OptedInGroups \in SUBSET Groups
    BY DEF OptedInGroups
  <2>2. PICK gs \in {{}, OptedInGroups} : todo' = [todo EXCEPT ![d] = gs]
    BY <1>8 DEF StartMemories
  <2>3. todo' \in [Digests -> SUBSET Groups]
    BY <2>1, <2>2 DEF TypeOK
  <2>4. pc' \in [Digests -> Pcs] /\ faults' \in 0 .. MaxFaults
    BY <1>8 DEF StartMemories, TypeOK
  <2> QED
    BY <1>8, <2>3, <2>4 DEF StartMemories, TypeOK
<1>9. ASSUME NEW d \in Digests, Extract(d) PROVE TypeOK'
  <2>1. UnextractedMessages(First(todo[d])) \in SUBSET stored
    BY MessagesOfGroup
  <2>2. todo' \in [Digests -> SUBSET Groups]
    BY <1>9 DEF Extract, TypeOK
  <2>3. batch' \in [Digests -> SUBSET stored] /\ pc' \in [Digests -> Pcs]
    BY <1>9, <2>1 DEF Extract, TypeOK
  <2> QED
    BY <1>9, <2>2, <2>3 DEF Extract, TypeOK
<1>10. ASSUME NEW d \in Digests, SaveMemories(d) PROVE TypeOK'
  <2>1. Transcript(batch[d]) \in SUBSET stored
    BY NewestIsSome DEF Transcript, TypeOK
  <2>2. pc' \in [Digests -> Pcs] /\ faults' \in 0 .. MaxFaults
    BY <1>10 DEF SaveMemories, TypeOK
  <2>3. learned' \in SUBSET stored /\ batch' \in [Digests -> SUBSET stored]
    BY <1>10, <2>1 DEF SaveMemories, TypeOK
  <2> QED
    BY <1>10, <2>2, <2>3 DEF SaveMemories, TypeOK
<1>11. ASSUME NEW d \in Digests, MarkMemoriesExtracted(d) PROVE TypeOK'
  <2>1. pc' \in [Digests -> Pcs] /\ faults' \in 0 .. MaxFaults
    BY <1>11 DEF MarkMemoriesExtracted, TypeOK
  <2>2. extracted' \in SUBSET stored /\ batch' \in [Digests -> SUBSET stored]
    BY <1>11 DEF MarkMemoriesExtracted, TypeOK
  <2> QED
    BY <1>11, <2>1, <2>2 DEF MarkMemoriesExtracted, TypeOK
<1>12. ASSUME NEW d \in Digests, Compose(d) PROVE TypeOK'
  BY <1>12 DEF Compose, TypeOK
<1>13. ASSUME NEW d \in Digests, Send(d) PROVE TypeOK'
  <2>1. faults' \in {faults, faults + 1} /\ (faults' = faults \/ faults < MaxFaults)
    BY <1>13 DEF Send
  <2>2. mailed' \in {mailed, mailed \cup shown[d]} /\ UNCHANGED <<tables, toggles>>
    BY <1>13 DEF Send
  <2>3. /\ mailed' \in SUBSET stored /\ faults' \in 0 .. MaxFaults
        /\ UNCHANGED <<tables, toggles>>
    BY <2>1, <2>2 DEF TypeOK
  <2>4. CASE Exit(d)
    BY <2>3, <2>4, ExitType DEF TypeOK
  <2>5. CASE Goto(d, "mark") /\ UNCHANGED <<todo, ids, shown, batch>>
    BY <2>3, <2>5 DEF TypeOK
  <2> QED
    BY <1>13, <2>4, <2>5 DEF Send
<1>14. ASSUME NEW d \in Digests, MarkSummarized(d) PROVE TypeOK'
  <2>1. UNCHANGED <<group, stored, extracted, learned, old, mailed, toggles>>
    BY <1>14 DEF MarkSummarized
  <2>2. faults' \in {faults, faults + 1} /\ (faults' = faults \/ faults < MaxFaults)
    BY <1>14 DEF MarkSummarized
  <2>3. faults' \in 0 .. MaxFaults
    BY <2>2 DEF TypeOK
  <2>4. summarized' \in {summarized, summarized \cup ids[d]}
    BY <1>14 DEF MarkSummarized
  <2>5. summarized' \in SUBSET stored
    BY <2>4 DEF TypeOK
  <2>6. Exit(d)
    BY <1>14 DEF MarkSummarized
  <2> QED
    BY <2>1, <2>3, <2>5, <2>6, ExitType DEF TypeOK
<1>15. ASSUME NEW d \in Digests, Crash(d) PROVE TypeOK'
  BY <1>15, ExitType DEF Crash, TypeOK
<1>16. CASE UNCHANGED vars
  BY <1>16 DEF vars, TypeOK
<1> QED
  BY <1>1, <1>2, <1>3, <1>4, <1>5, <1>6, <1>7, <1>8, <1>9, <1>10, <1>11,
     <1>12, <1>13, <1>14, <1>15, <1>16 DEF Next, Digest

(* The digest's variables keep their types; in particular no message is    *)
(* told of that is not marked in the end.                                  *)
THEOREM TypeCorrect == Spec => []TypeOK
BY TypeInit, TypeNext, PTL DEF Spec

-----------------------------------------------------------------------------
(* Nothing is lost but what is cut off: a message that a transcript or a   *)
(* fallback leaves out has newer ones in its group that fill it.           *)

LEMMA RoomType == Room \in Nat /\ Room <= TranscriptMax /\ Room <= FallbackMax
BY BoundAssumption DEF Room

LEMMA LessRoom ==
    ASSUME TypeOK, IsFiniteSet(stored), NEW most \in Nat, Room <= most
    PROVE  PushedOut(most) \subseteq PushedOut(Room)
<1> SUFFICES ASSUME NEW m \in PushedOut(most) PROVE m \in PushedOut(Room)
  OBVIOUS
<1> DEFINE newer == {n \in stored : GroupOf[n] = GroupOf[m] /\ n > m}
<1>1. m \in stored /\ Cardinality(newer) >= most
  BY DEF PushedOut
<1>2. IsFiniteSet(newer)
  <2>1. newer \in SUBSET stored
    OBVIOUS
  <2> QED BY <2>1, FS_Subset
<1>3. Cardinality(newer) \in Nat
  BY <1>2, FS_CardinalityType
<1> HIDE DEF newer
<1>4. Cardinality(newer) >= Room
  BY <1>1, <1>3, RoomType
<1> QED BY <1>1, <1>4 DEF PushedOut, newer

(* Newer messages are not deleted. *)
LEMMA PushedOutStays ==
    ASSUME NEW most \in Nat, stored \subseteq stored', IsFiniteSet(stored')
    PROVE  PushedOut(most) \subseteq PushedOut(most)'
<1> SUFFICES ASSUME NEW m \in PushedOut(most) PROVE m \in PushedOut(most)'
  OBVIOUS
<1> DEFINE newer(msgs) == {n \in msgs : GroupOf[n] = GroupOf[m] /\ n > m}
<1>1. m \in stored /\ Cardinality(newer(stored)) >= most
  BY DEF PushedOut
<1>2. newer(stored') \in SUBSET stored' /\ newer(stored) \in SUBSET newer(stored')
  OBVIOUS
<1>3. IsFiniteSet(newer(stored'))
  BY <1>2, FS_Subset
<1>4. IsFiniteSet(newer(stored))
      /\ Cardinality(newer(stored)) <= Cardinality(newer(stored'))
  BY <1>2, <1>3, FS_Subset
<1>5. Cardinality(newer(stored)) \in Nat /\ Cardinality(newer(stored')) \in Nat
  BY <1>3, <1>4, FS_CardinalityType
<1>6. Cardinality(newer(stored')) >= most
  BY <1>1, <1>4, <1>5
<1> QED BY <1>1, <1>6 DEF PushedOut

LEMMA CutOffIsPushedOut ==
    ASSUME TypeOK, IsFiniteSet(stored), NEW most \in Nat,
           NEW msgs \in SUBSET stored,
           \A m, n \in msgs : GroupOf[m] = GroupOf[n]
    PROVE  msgs \subseteq Newest(msgs, most) \cup PushedOut(most)
<1> SUFFICES ASSUME NEW m \in msgs, m \notin Newest(msgs, most)
             PROVE  m \in PushedOut(most)
  OBVIOUS
<1> DEFINE shorter == {n \in msgs : n > m}
           newer   == {n \in stored : GroupOf[n] = GroupOf[m] /\ n > m}
<1>1. ~(Cardinality(shorter) < most)
  BY DEF Newest
<1>2. newer \in SUBSET stored /\ shorter \in SUBSET newer
  OBVIOUS
<1>3. IsFiniteSet(newer)
  BY <1>2, FS_Subset
<1>4. IsFiniteSet(shorter) /\ Cardinality(shorter) <= Cardinality(newer)
  BY <1>2, <1>3, FS_Subset
<1>5. Cardinality(shorter) \in Nat /\ Cardinality(newer) \in Nat
  BY <1>3, <1>4, FS_CardinalityType
<1> HIDE DEF shorter
<1>6. Cardinality(newer) >= most
  BY <1>1, <1>4, <1>5
<1> QED BY <1>6 DEF PushedOut

(* What a digest holds decides what its marks will be worth: the messages  *)
(* it is about to mark were told of, those it marks as extracted were      *)
(* saved, or they are cut off by now.                                      *)
DigestInv ==
    /\ IsFiniteSet(stored)
    /\ summarized \subseteq mailed \cup PushedOut(Room)
    /\ extracted \subseteq learned \cup PushedOut(TranscriptMax)
    /\ \A d \in Digests :
          /\ ids[d] \subseteq shown[d] \cup PushedOut(Room)
          /\ pc[d] = "mark" => ids[d] \subseteq mailed \cup PushedOut(Room)
          /\ \A m, n \in batch[d] : GroupOf[m] = GroupOf[n]
          /\ pc[d] = "extracted" =>
                batch[d] \subseteq learned \cup PushedOut(TranscriptMax)

LEMMA DigestInit == Init => DigestInv
BY FS_EmptySet DEF Init, DigestInv

LEMMA SectionTellsAll ==
    ASSUME TypeOK, DigestInv, NEW d \in Digests, NEW g, Section(d, g)
    PROVE  \A x \in Digests : /\ ids'[x] \subseteq shown'[x] \cup PushedOut(Room)
                              /\ x # d => ids'[x] = ids[x]
<1> DEFINE msgs == UnsummarizedMessages(g)
<1>1. msgs \in SUBSET stored /\ \A m, n \in msgs : GroupOf[m] = GroupOf[n]
  BY MessagesOfGroup DEF UnsummarizedMessages, Recent
<1>2. /\ msgs \subseteq Transcript(msgs) \cup PushedOut(TranscriptMax)
      /\ msgs \subseteq Fallback(msgs) \cup PushedOut(FallbackMax)
  <2> HIDE DEF msgs
  <2> QED
    BY <1>1, CutOffIsPushedOut, BoundAssumption DEF Transcript, Fallback, DigestInv
<1>3. /\ PushedOut(TranscriptMax) \subseteq PushedOut(Room)
      /\ PushedOut(FallbackMax) \subseteq PushedOut(Room)
  BY LessRoom, RoomType, BoundAssumption DEF DigestInv
<1>4. PICK told \in {Transcript(msgs), Fallback(msgs)} :
         /\ ids' = [ids EXCEPT ![d] = @ \cup msgs]
         /\ shown' = [shown EXCEPT ![d] = @ \cup told]
  BY DEF Section
<1>5. msgs \subseteq told \cup PushedOut(Room)
  BY <1>2, <1>3
<1> HIDE DEF msgs
<1>6. /\ ids'[d] = ids[d] \cup msgs /\ shown'[d] = shown[d] \cup told
      /\ \A x \in Digests \ {d} : ids'[x] = ids[x] /\ shown'[x] = shown[x]
  BY <1>4 DEF TypeOK
<1> QED
  BY <1>5, <1>6 DEF DigestInv

LEMMA SameStored ==
    ASSUME UNCHANGED stored
    PROVE  /\ PushedOut(Room)' = PushedOut(Room)
           /\ PushedOut(TranscriptMax)' = PushedOut(TranscriptMax)
BY DEF PushedOut, Room

LEMMA DigestNext ==
    ASSUME TypeOK, DigestInv, [Next]_vars
    PROVE  DigestInv'
<1> USE DEF tables, locals, budgets, Goto, Fault, TypeOK, DigestInv
<1>1. ASSUME NEW m \in Msgs, IngestMessage(m) PROVE DigestInv'
  <2>1. stored' \in {stored, stored \cup {m}}
    BY <1>1 DEF IngestMessage
  <2>2. IsFiniteSet(stored') /\ stored \subseteq stored'
    BY <2>1, FS_AddElement
  <2>3. /\ PushedOut(Room) \subseteq PushedOut(Room)'
        /\ PushedOut(TranscriptMax) \subseteq PushedOut(TranscriptMax)'
    BY <2>2, PushedOutStays, RoomType, BoundAssumption DEF Room
  <2>4. UNCHANGED <<summarized, extracted, learned, mailed, locals>>
    BY <1>1 DEF IngestMessage
  <2> QED
    BY <2>2, <2>3, <2>4
<1>2. ASSUME RefreshGroups \/ Age \/ \E g \in Groups : SetIngestEnabled(g)
      PROVE  DigestInv'
  BY <1>2, SameStored DEF RefreshGroups, Age, SetIngestEnabled
<1>3. ASSUME NEW d \in Digests, ListEvents(d) \/ StartMemories(d) \/ Compose(d)
      PROVE  DigestInv'
  <2>1. /\ UNCHANGED <<tables, mailed, ids, shown, batch>>
        /\ \A x \in Digests : pc'[x] \in {"mark", "extracted"} => pc'[x] = pc[x]
    BY <1>3 DEF ListEvents, StartMemories, Compose
  <2> QED
    BY <2>1, SameStored
<1>4. ASSUME NEW d \in Digests, SummaryFails(d), UNCHANGED <<tables, mailed, batch>>
      PROVE  DigestInv'
  <2>1. \A x \in Digests : /\ pc'[x] \in {"mark", "extracted"} => pc'[x] = pc[x]
                           /\ ids'[x] \in {{}, ids[x]}
                           /\ ids'[x] = {} \/ shown'[x] = shown[x]
    BY <1>4 DEF SummaryFails
  <2> QED
    BY <1>4, <2>1, SameStored
<1>5. ASSUME NEW d \in Digests, StartSummary(d) PROVE DigestInv'
  <2>1. CASE SummaryFails(d)
    BY <1>4, <1>5, <2>1 DEF StartSummary
  <2>2. CASE Goto(d, "summary") /\ UNCHANGED <<ids, shown>>
    BY <1>5, <2>2, SameStored DEF StartSummary
  <2> QED
    BY <1>5, <2>1, <2>2 DEF StartSummary
<1>6. ASSUME NEW d \in Digests, SummarizeGroup(d) PROVE DigestInv'
  <2>1. CASE SummaryFails(d)
    BY <1>4, <1>6, <2>1 DEF SummarizeGroup
  <2>2. CASE Section(d, First(todo[d])) /\ UNCHANGED pc
    <3>1. \A x \in Digests : /\ ids'[x] \subseteq shown'[x] \cup PushedOut(Room)
                             /\ x # d => ids'[x] = ids[x]
      BY <2>2, SectionTellsAll
    <3>2. pc[d] = "summary" /\ UNCHANGED <<tables, mailed, batch, pc>>
      BY <1>6, <2>2 DEF SummarizeGroup
    <3> QED
      BY <3>1, <3>2, SameStored
  <2> QED
    BY <1>6, <2>1, <2>2 DEF SummarizeGroup
<1>7. ASSUME NEW d \in Digests, Extract(d) PROVE DigestInv'
  <2> DEFINE msgs == UnextractedMessages(First(todo[d]))
  <2>1. \A m, n \in msgs : GroupOf[m] = GroupOf[n]
    BY DEF UnextractedMessages, Recent
  <2>2. batch' \in {batch, [batch EXCEPT ![d] = msgs]}
    BY <1>7 DEF Extract
  <2> HIDE DEF msgs
  <2>3. \A x \in Digests : batch'[x] \in {batch[x], msgs}
    BY <2>2
  <2>4. \A x \in Digests : /\ pc'[x] \in {"mark", "extracted"} => pc'[x] = pc[x]
                           /\ pc'[x] = "extracted" => batch'[x] = batch[x]
    BY <1>7, <2>2 DEF Extract
  <2>5. UNCHANGED <<tables, mailed, ids, shown>>
    BY <1>7 DEF Extract
  <2>6. \A x \in Digests : \A m, n \in batch'[x] : GroupOf[m] = GroupOf[n]
    BY <2>1, <2>3
  <2> QED
    BY <2>4, <2>5, <2>6, SameStored
<1>8. ASSUME NEW d \in Digests, SaveMemories(d) PROVE DigestInv'
  <2>1. batch[d] \subseteq Transcript(batch[d]) \cup PushedOut(TranscriptMax)
    BY CutOffIsPushedOut, BoundAssumption DEF Transcript
  <2>2. UNCHANGED <<stored, summarized, extracted, mailed, ids, shown>>
    BY <1>8 DEF SaveMemories
  <2>3. CASE /\ learned' = learned \cup Transcript(batch[d]) /\ Goto(d, "extracted")
             /\ UNCHANGED batch
    BY <2>1, <2>2, <2>3, SameStored
  <2>4. CASE /\ Goto(d, "memory") /\ batch' = [batch EXCEPT ![d] = {}]
             /\ UNCHANGED learned
    BY <2>2, <2>4, SameStored
  <2> QED
    BY <1>8, <2>3, <2>4 DEF SaveMemories
<1>9. ASSUME NEW d \in Digests, MarkMemoriesExtracted(d) PROVE DigestInv'
  <2>1. /\ UNCHANGED <<stored, summarized, learned, mailed, ids, shown>>
        /\ extracted' \in {extracted, extracted \cup batch[d]}
        /\ batch[d] \subseteq learned \cup PushedOut(TranscriptMax)
    BY <1>9 DEF MarkMemoriesExtracted
  <2>2. Goto(d, "memory") /\ batch' = [batch EXCEPT ![d] = {}]
    BY <1>9 DEF MarkMemoriesExtracted
  <2> QED
    BY <2>1, <2>2, SameStored
<1>10. ASSUME NEW d \in Digests, Exit(d),
              UNCHANGED <<stored, extracted, learned>>, mailed \subseteq mailed',
              \/ summarized' = summarized
              \/ pc[d] = "mark" /\ summarized' = summarized \cup ids[d]
       PROVE  DigestInv'
  <2>1. \A x \in Digests :
           /\ pc'[x] \in {"mark", "extracted"} => pc'[x] = pc[x]
           /\ \/ ids'[x] = {} /\ batch'[x] = {}
              \/ ids'[x] = ids[x] /\ shown'[x] = shown[x] /\ batch'[x] = batch[x]
    BY <1>10 DEF Exit
  <2>2. summarized' \subseteq mailed' \cup PushedOut(Room)
    BY <1>10
  <2> QED
    BY <1>10, <2>1, <2>2, SameStored
<1>11. ASSUME NEW d \in Digests, Send(d) PROVE DigestInv'
  <2>1. CASE Exit(d) /\ mailed' \in {mailed, mailed \cup shown[d]}
    BY <1>10, <1>11, <2>1 DEF Send
  <2>2. CASE /\ mailed' = mailed \cup shown[d] /\ Goto(d, "mark")
             /\ UNCHANGED <<todo, ids, shown, batch, faults>>
    BY <1>11, <2>2, SameStored DEF Send
  <2> QED
    BY <1>11, <2>1, <2>2 DEF Send
<1>12. ASSUME NEW d \in Digests, MarkSummarized(d) \/ Crash(d) PROVE DigestInv'
  BY <1>10, <1>12 DEF MarkSummarized, Crash
<1>13. CASE UNCHANGED vars
  BY <1>13, SameStored DEF vars
<1> QED
  BY <1>1, <1>2, <1>3, <1>5, <1>6, <1>7, <1>8, <1>9, <1>11, <1>12, <1>13
     DEF Next, Digest

(* Each step is one of both promises, or leaves their variables alone.     *)
LEMMA StepIsHandoffStep ==
    ASSUME TypeOK, TypeOK', DigestInv, DigestInv', [Next]_vars
    PROVE  [Mail!Next]_(Mail!vars) /\ [Memory!Next]_(Memory!vars)
<1> USE DEF tables, locals, budgets
<1>1. ASSUME UNCHANGED <<stored, mailed, summarized>> PROVE UNCHANGED Mail!vars
  BY <1>1, SameStored DEF Mail!vars
<1>2. ASSUME UNCHANGED <<stored, learned, extracted>> PROVE UNCHANGED Memory!vars
  BY <1>2, SameStored DEF Memory!vars
<1>3. ASSUME stored \subseteq stored',
             UNCHANGED <<mailed, summarized, learned, extracted>>
      PROVE  Mail!Next /\ Memory!Next
  <2>1. /\ PushedOut(Room) \subseteq PushedOut(Room)'
        /\ PushedOut(TranscriptMax) \subseteq PushedOut(TranscriptMax)'
    BY <1>3, PushedOutStays, RoomType, BoundAssumption DEF Room, DigestInv
  <2>2. PushedOut(Room)' \in SUBSET Msgs /\ PushedOut(TranscriptMax)' \in SUBSET Msgs
    BY DEF PushedOut, TypeOK
  <2>3. /\ (mailed \cup PushedOut(Room))'
              = (mailed \cup PushedOut(Room)) \cup PushedOut(Room)'
        /\ (learned \cup PushedOut(TranscriptMax))'
              = (learned \cup PushedOut(TranscriptMax)) \cup PushedOut(TranscriptMax)'
    BY <1>3, <2>1
  <2> QED
    BY <1>3, <2>2, <2>3 DEF Mail!Next, Mail!Arrive, Memory!Next, Memory!Arrive
<1>4. ASSUME NEW d \in Digests, Send(d)
      PROVE  Mail!Next /\ UNCHANGED Memory!vars
  <2>1. UNCHANGED <<stored, summarized, learned, extracted>>
    BY <1>4 DEF Send
  <2>2. \E new \in SUBSET Msgs :
           (mailed \cup PushedOut(Room))' = (mailed \cup PushedOut(Room)) \cup new
    <3>1. PICK new \in SUBSET Msgs : mailed' = mailed \cup new
      BY <1>4 DEF Send, TypeOK
    <3> QED BY <2>1, <3>1, SameStored
  <2> QED
    BY <1>2, <2>1, <2>2 DEF Mail!Next, Mail!Arrive
<1>5. ASSUME NEW d \in Digests, MarkSummarized(d)
      PROVE  Mail!Next /\ UNCHANGED Memory!vars
  <2>1. PICK done \in {{}, ids[d]} : summarized' = summarized \cup done
    BY <1>5 DEF MarkSummarized
  <2>2. UNCHANGED <<stored, mailed, learned, extracted>>
    BY <1>5 DEF MarkSummarized
  <2>3. done \subseteq mailed \cup PushedOut(Room)
    BY <1>5 DEF MarkSummarized, DigestInv
  <2>4. (mailed \cup PushedOut(Room))' = mailed \cup PushedOut(Room)
    BY <2>2, SameStored
  <2> QED
    BY <1>2, <2>1, <2>2, <2>3, <2>4 DEF Mail!Next, Mail!Release
<1>6. ASSUME NEW d \in Digests, SaveMemories(d)
      PROVE  Memory!Next /\ UNCHANGED Mail!vars
  <2>1. UNCHANGED <<stored, mailed, summarized, extracted>>
    BY <1>6 DEF SaveMemories
  <2>2. \E new \in SUBSET Msgs :
           (learned \cup PushedOut(TranscriptMax))'
              = (learned \cup PushedOut(TranscriptMax)) \cup new
    <3>1. learned \in SUBSET Msgs /\ learned' \in SUBSET Msgs /\ learned \subseteq learned'
      BY <1>6 DEF SaveMemories, TypeOK
    <3> QED BY <2>1, <3>1, SameStored
  <2> QED
    BY <1>1, <2>1, <2>2 DEF Memory!Next, Memory!Arrive
<1>7. ASSUME NEW d \in Digests, MarkMemoriesExtracted(d)
      PROVE  Memory!Next /\ UNCHANGED Mail!vars
  <2>1. PICK done \in {{}, batch[d]} : extracted' = extracted \cup done
    BY <1>7 DEF MarkMemoriesExtracted
  <2>2. UNCHANGED <<stored, mailed, summarized, learned>>
    BY <1>7 DEF MarkMemoriesExtracted
  <2>3. done \subseteq learned \cup PushedOut(TranscriptMax)
    BY <1>7 DEF MarkMemoriesExtracted, DigestInv
  <2>4. (learned \cup PushedOut(TranscriptMax))' = learned \cup PushedOut(TranscriptMax)
    BY <2>2, SameStored
  <2> QED
    BY <1>1, <2>1, <2>2, <2>3, <2>4 DEF Memory!Next, Memory!Release
<1>8. ASSUME NEW d \in Digests,
             \/ ListEvents(d) \/ StartSummary(d) \/ SummarizeGroup(d)
             \/ StartMemories(d) \/ Extract(d) \/ Compose(d) \/ Crash(d)
      PROVE  UNCHANGED <<stored, mailed, summarized, learned, extracted>>
  BY <1>8 DEF ListEvents, StartSummary, SummarizeGroup, StartMemories, Extract,
              Compose, Crash
<1>9. ASSUME NEW m \in Msgs, IngestMessage(m)
      PROVE  /\ stored \subseteq stored'
             /\ UNCHANGED <<mailed, summarized, learned, extracted>>
  BY <1>9 DEF IngestMessage
<1>10. ASSUME \/ RefreshGroups \/ Age \/ \E g \in Groups : SetIngestEnabled(g)
              \/ UNCHANGED vars
       PROVE  UNCHANGED <<stored, mailed, summarized, learned, extracted>>
  BY <1>10 DEF RefreshGroups, Age, SetIngestEnabled, vars
<1> QED
  BY <1>1, <1>2, <1>3, <1>4, <1>5, <1>6, <1>7, <1>8, <1>9, <1>10 DEF Next, Digest

(* No message is marked before a mail told of it, nor counted as extracted *)
(* before its memories were saved, unless newer messages of its group cut  *)
(* it off; whatever the room of transcripts and fallbacks is.              *)
THEOREM MessagesHandedOver == Spec => NothingLost
<1>1. Init => Mail!Init /\ Memory!Init
  BY DEF Init, Mail!Init, Memory!Init, PushedOut
<1>2. TypeOK /\ DigestInv /\ [Next]_vars => TypeOK' /\ DigestInv'
  BY TypeNext, DigestNext
<1>3. /\ TypeOK /\ TypeOK' /\ DigestInv /\ DigestInv' /\ [Next]_vars
      => [Mail!Next]_(Mail!vars) /\ [Memory!Next]_(Memory!vars)
  BY StepIsHandoffStep
<1> QED
  BY <1>1, <1>2, <1>3, TypeInit, DigestInit, PTL
     DEF Spec, NothingLost, Mail!Spec, Memory!Spec

-----------------------------------------------------------------------------
(* The agenda and the calendar tools (Agenda).                             *)

(* An event that takes any time in the window is on the agenda.            *)
THEOREM EventIsShown ==
    ASSUME NEW midnight, Window(midnight), NEW events, NEW e \in events,
           e \in Event, e.start < e.end,
           e.start < midnight[3], e.end > midnight[0]
    PROVE  \E i \in Days : e \in Bucket(events, midnight, i)
<1> DEFINE Shown(i) == e \in Bucket(events, midnight, i)
<1>1. /\ midnight[0] \in Int /\ midnight[1] \in Int
      /\ midnight[2] \in Int /\ midnight[3] \in Int
      /\ midnight[0] < midnight[1] /\ midnight[1] < midnight[2]
      /\ midnight[2] < midnight[3]
  BY DEF Window, Days
<1>2. e.start \in Int /\ e.end \in Int
  BY DEF Event
<1>3. CASE e.end > midnight[2]
  <2>1. e \in Bucket(events, midnight, 2)
    BY <1>1, <1>2, <1>3 DEF Bucket, Overlaps
  <2> QED BY <2>1 DEF Days
<1>4. CASE e.end <= midnight[2] /\ e.end > midnight[1]
  <2>1. e \in Bucket(events, midnight, 1)
    BY <1>1, <1>2, <1>4 DEF Bucket, Overlaps
  <2> QED BY <2>1 DEF Days
<1>5. CASE e.end <= midnight[1]
  <2>1. e \in Bucket(events, midnight, 0)
    BY <1>1, <1>2, <1>5 DEF Bucket, Overlaps
  <2> QED BY <2>1 DEF Days
<1> QED BY <1>1, <1>2, <1>3, <1>4, <1>5

(* An event without duration is on the agenda too, unless it is at         *)
(* midnight: then it is on no day at all.                                  *)
THEOREM MidnightIsLost ==
    ASSUME NEW midnight, Window(midnight), NEW events, NEW e \in events,
           e \in Event, e.start = e.end, NEW i \in Days
    PROVE  e \in Bucket(events, midnight, i)
           <=> midnight[i] < e.start /\ e.start < midnight[i + 1]
<1>1. midnight[i] \in Int /\ midnight[i + 1] \in Int
  BY DEF Window, Days
<1> QED BY <1>1 DEF Bucket, Overlaps, Event

(* Nothing is on a day it does not touch; in particular what ends at       *)
(* midnight is not on the next day.                                        *)
THEOREM OnlyItsDays ==
    ASSUME NEW midnight, Window(midnight), NEW events, NEW i \in Days,
           NEW e \in Bucket(events, midnight, i), e \in Event
    PROVE  e.end > midnight[i] /\ e.start < midnight[i + 1]
BY DEF Bucket, Overlaps

(* sort.SliceStable needs a strict weak order: Precedes is one.            *)
THEOREM PrecedesIsAWeakOrder ==
    ASSUME NEW e \in Event, NEW f \in Event, NEW g \in Event
    PROVE  /\ ~Precedes(e, e)
           /\ Precedes(e, f) /\ Precedes(f, g) => Precedes(e, g)
           /\ Precedes(e, f) => Precedes(e, g) \/ Precedes(g, f)
<1>1. /\ e.start \in Int /\ f.start \in Int /\ g.start \in Int
      /\ e.allDay \in BOOLEAN /\ f.allDay \in BOOLEAN /\ g.allDay \in BOOLEAN
  BY DEF Event
<1> QED BY <1>1 DEF Precedes

(* What the chat creates without an end is shown in the next digest, if it *)
(* falls into its window: the two parts agree on when an event is empty.   *)
THEOREM CreatedIsShown ==
    ASSUME NEW midnight, Window(midnight), NEW start \in Int, NEW end \in Int,
           NEW allDay \in BOOLEAN, NEW e \in Created(start, FALSE, end, allDay),
           start < midnight[3], start >= midnight[0]
    PROVE  \E i \in Days : e \in Bucket({e}, midnight, i)
<1>1. /\ e \in Event /\ e.start < e.end
      /\ e.start = start
  BY DEF Created, EndOf, Event, Hour, Day
<1>2. midnight[0] \in Int /\ midnight[3] \in Int
  BY DEF Window
<1>3. e.start < midnight[3] /\ e.end > midnight[0]
  BY <1>1, <1>2 DEF Event
<1> QED BY <1>1, <1>3, EventIsShown

(* What the chat creates does not end before it starts.  Nor does what it  *)
(* updates, if the patch has both ends or none; a patch with one of them   *)
(* is compared with nothing (tool.go:315), so the event then ends before   *)
(* it starts exactly if the new end passes the old one, and for every      *)
(* event there is a patch that does this.                                  *)
THEOREM OnlyOneEndInverts ==
    /\ \A start, end \in Int, given, allDay \in BOOLEAN :
          \A e \in Created(start, given, end, allDay) :
              e \in Event /\ e.start <= e.end
    /\ \A e \in Event, D \in SUBSET {"start", "end", "other"} :
          \A patch \in [D -> Int] : e.start <= e.end /\ Accepts(patch) =>
              (Patched(e, patch).end < Patched(e, patch).start <=>
                  \/ D \cap {"start", "end"} = {"start"} /\ e.end < patch["start"]
                  \/ D \cap {"start", "end"} = {"end"} /\ patch["end"] < e.start)
    /\ \A e \in Event : \E patch \in [{"start"} -> Int] :
          Accepts(patch) /\ Patched(e, patch).end < Patched(e, patch).start
<1>1. ASSUME NEW start \in Int, NEW end \in Int, NEW given \in BOOLEAN,
             NEW allDay \in BOOLEAN, NEW e \in Created(start, given, end, allDay)
      PROVE  e \in Event /\ e.start <= e.end
  <2>1. EndOf(start, given, end, allDay) \in Int
    BY DEF EndOf, Hour, Day
  <2> QED BY <2>1 DEF Created, Event
<1>2. ASSUME NEW e \in Event, NEW D \in SUBSET {"start", "end", "other"},
             NEW patch \in [D -> Int]
      PROVE  /\ Patched(e, patch).start
                    = IF "start" \in D THEN patch["start"] ELSE e.start
             /\ Patched(e, patch).end
                    = IF "end" \in D THEN patch["end"] ELSE e.end
  BY DEF Patched, Event
<1>3. ASSUME NEW e \in Event, NEW D \in SUBSET {"start", "end", "other"},
             NEW patch \in [D -> Int], e.start <= e.end, Accepts(patch)
      PROVE  Patched(e, patch).end < Patched(e, patch).start <=>
                \/ D \cap {"start", "end"} = {"start"} /\ e.end < patch["start"]
                \/ D \cap {"start", "end"} = {"end"} /\ patch["end"] < e.start
  <2>1. e.start \in Int /\ e.end \in Int
    BY DEF Event
  <2>2. CASE "start" \in D /\ "end" \in D
    BY <1>2, <1>3, <2>1, <2>2 DEF Accepts
  <2>3. CASE "start" \in D /\ "end" \notin D
    BY <1>2, <1>3, <2>1, <2>3
  <2>4. CASE "start" \notin D /\ "end" \in D
    BY <1>2, <1>3, <2>1, <2>4
  <2>5. CASE "start" \notin D /\ "end" \notin D
    BY <1>2, <1>3, <2>1, <2>5
  <2> QED BY <2>2, <2>3, <2>4, <2>5
<1>4. ASSUME NEW e \in Event
      PROVE  \E patch \in [{"start"} -> Int] :
                Accepts(patch) /\ Patched(e, patch).end < Patched(e, patch).start
  <2> DEFINE patch == [f \in {"start"} |-> e.end + 1]
  <2>1. e.end \in Int
    BY DEF Event
  <2>2. patch \in [{"start"} -> Int] /\ DOMAIN patch = {"start"}
        /\ patch["start"] = e.end + 1
    BY <2>1
  <2> HIDE DEF patch
  <2>3. Accepts(patch)
    BY <2>2 DEF Accepts
  <2>4. Patched(e, patch).end < Patched(e, patch).start
    BY <1>2, <2>1, <2>2
  <2> QED BY <2>2, <2>3, <2>4
<1> QED BY <1>1, <1>3, <1>4
=============================================================================
