---------------------------- MODULE ChatTurnProofs ----------------------------
(***************************************************************************)
(* Proofs about ChatTurn, for any number of requests and calls, whatever   *)
(* the model calls and whatever standard input holds.                      *)
(***************************************************************************)
EXTENDS ChatTurn, SequenceTheorems, TLAPS

Active == {"tools", "confirm", "smtp", "append"}

(* The position of the call at hand. *)
Here == Len(history) + 1

Creates(tool) == tool \in {"create_event", "create_task"}

(* What a tool message says is true. *)
IsTrue(m) ==
    /\ m.answer \in {"sent", "sent, no copy"} => delivered[m.call] = 1
    /\ m.answer = "sent" => m.call \in copied
    /\ m.answer = "declined" => delivered[m.call] = 0
    /\ Creates(m.tool) /\ m.answer = "ok" => things[m.call] # "none"

(* Calls are executed in the order in which the model made them, each of   *)
(* them once; a request still to be made has room for MaxCalls calls.      *)
CallInv ==
    /\ Len(history) + Len(calls) = asked
    /\ \A i \in 1 .. Len(calls) : calls[i].id = Len(history) + i
    /\ \A i \in 1 .. Len(history) : history[i].call = i
    /\ pc = "chat" => calls = <<>> /\ asked <= iters * MaxCalls
    /\ pc \in Active => iters < MaxIters /\ asked <= (iters + 1) * MaxCalls

(* Nothing is sent for a call before its turn, and a mail is on its way    *)
(* only for an answer of yes.                                              *)
MailInv ==
    /\ MailAsAgreed
    /\ \A id \in Ids : id > Here => delivered[id] = 0
    /\ Here \in Ids => delivered[Here] = IF pc = "append" THEN 1 ELSE 0
    /\ pc \in {"smtp", "append"} => Here \in approved

TurnType ==
    /\ pc \in Active \cup {"chat", "ended"}
    /\ iters \in 0 .. MaxIters /\ asked \in 0 .. MaxIters * MaxCalls
    /\ calls \in Seq(Calls)
    /\ pc \in Active <=> calls # <<>>
    /\ history \in Seq([call : Ids, tool : Tools, answer : Payloads])
    /\ outcome \in {"none", "ok", "error"}

WorldType ==
    /\ stdin \in Seq({"yes", "no"}) \cup {Terminal}
    /\ approved \in SUBSET Ids /\ delivered \in [Ids -> Nat]
    /\ copied \in SUBSET Ids
    /\ things \in [Ids -> {"none", "event", "task", "gone"}]
    /\ faults \in 0 .. MaxFaults

LEMMA TypeParts == TypeOK <=> TurnType /\ WorldType
BY DEF TypeOK, TurnType, WorldType, Active

-----------------------------------------------------------------------------
(* Room for the calls of one more answer. *)

LEMMA Room ==
    ASSUME NEW n \in Nat, NEW i \in Nat, i < MaxIters, n <= (i + 1) * MaxCalls
    PROVE  n <= MaxIters * MaxCalls
<1> USE IterAssumption
<1>1. PICK k \in Nat : MaxIters = (i + 1) + k
  <2>1. MaxIters - (i + 1) \in Nat /\ MaxIters = (i + 1) + (MaxIters - (i + 1))
    OBVIOUS
  <2> QED
    BY <2>1
<1>2. MaxIters * MaxCalls = (i + 1) * MaxCalls + k * MaxCalls
  BY <1>1
<1>3. k * MaxCalls \in Nat /\ (i + 1) * MaxCalls \in Nat /\ MaxIters * MaxCalls \in Nat
  OBVIOUS
<1> DEFINE all == MaxIters * MaxCalls
           now == (i + 1) * MaxCalls
           rest == k * MaxCalls
<1>4. all = now + rest /\ rest \in Nat /\ now \in Nat /\ all \in Nat /\ n <= now
  BY <1>2, <1>3
<1> HIDE DEF all, now, rest
<1>5. n <= all
  BY <1>4
<1> QED
  BY <1>5 DEF all

LEMMA NextRound ==
    ASSUME NEW a \in Nat, NEW i \in Nat, a <= i * MaxCalls, NEW n \in 1 .. MaxCalls
    PROVE  a + n <= (i + 1) * MaxCalls
<1> DEFINE done == i * MaxCalls
<1>1. done \in Nat /\ (i + 1) * MaxCalls = done + MaxCalls
  BY IterAssumption
<1>2. a <= done
  OBVIOUS
<1> HIDE DEF done
<1> QED
  BY <1>1, <1>2, IterAssumption

-----------------------------------------------------------------------------
(* The call at hand. *)

LEMMA HeadIsHere ==
    ASSUME TurnType, CallInv, pc \in Active
    PROVE  /\ calls # <<>> /\ Head(calls) = calls[1] /\ Head(calls) \in Calls
           /\ Head(calls).id = Here /\ Here \in Ids /\ Head(calls).tool \in Tools
<1>1. calls # <<>> /\ calls \in Seq(Calls)
  BY DEF TurnType
<1>2. Len(calls) \in Nat /\ Len(calls) >= 1 /\ Head(calls) = calls[1] /\ calls[1] \in Calls
  BY <1>1
<1>3. calls[1].id = Here
  BY <1>2 DEF CallInv, Here
<1> QED
  BY <1>1, <1>2, <1>3 DEF Calls

(* One more answer in the conversation. *)
LEMMA AnswerTurn ==
    ASSUME TurnType, CallInv, pc \in Active, NEW payload \in Payloads, Answer(payload)
    PROVE  /\ TurnType' /\ CallInv' /\ pc' \in {"chat", "tools"}
           /\ Len(history') = Here
           /\ \A i \in 1 .. Len(history) : history'[i] = history[i]
           /\ history'[Here] = [call |-> Here, tool |-> Head(calls).tool,
                                answer |-> payload]
<1> DEFINE m == [call |-> Here, tool |-> Head(calls).tool, answer |-> payload]
           Messages == [call : Ids, tool : Tools, answer : Payloads]
<1>1. calls # <<>> /\ Head(calls).id = Here /\ m \in Messages
  BY HeadIsHere
<1>2. history \in Seq(Messages) /\ calls \in Seq(Calls) /\ asked \in Nat
      /\ iters \in Nat /\ MaxIters \in Nat /\ iters < MaxIters
  BY IterAssumption DEF TurnType, CallInv
<1>3. history' = Append(history, m) /\ calls' = Tail(calls)
      /\ UNCHANGED <<asked, outcome>>
  BY <1>1 DEF Answer
<1>4. IF Len(calls) = 1 THEN pc' = "chat" /\ iters' = iters + 1
                        ELSE pc' = "tools" /\ UNCHANGED iters
  BY DEF Answer
<1> HIDE DEF m
<1>5. /\ history' \in Seq(Messages) /\ Len(history') = Len(history) + 1
      /\ \A i \in 1 .. Len(history) : history'[i] = history[i]
      /\ history'[Len(history) + 1] = m
  BY <1>1, <1>2, <1>3
<1>6. /\ calls' \in Seq(Calls) /\ Len(calls') = Len(calls) - 1
      /\ \A i \in 1 .. Len(calls') : calls'[i] = calls[i + 1]
      /\ calls' = <<>> <=> Len(calls) = 1
      /\ Len(calls) \in Nat \ {0} /\ Len(history) \in Nat
  <2>1. /\ calls' \in Seq(Calls) /\ Len(calls') = Len(calls) - 1
        /\ \A i \in 1 .. Len(calls') : calls'[i] = calls[i + 1]
        /\ Len(calls) \in Nat \ {0} /\ Len(history) \in Nat
    BY <1>1, <1>2, <1>3, EmptySeq
  <2>2. calls' = <<>> <=> Len(calls') = 0
    BY <2>1, EmptySeq
  <2> QED
    BY <2>1, <2>2
<1>7. TurnType'
  BY <1>2, <1>3, <1>4, <1>5, <1>6 DEF TurnType, Active
<1>8. /\ Len(history') + Len(calls') = asked'
      /\ \A i \in 1 .. Len(calls') : calls'[i].id = Len(history') + i
  <2>1. Len(history) + Len(calls) = asked
    BY DEF CallInv
  <2>2. ASSUME NEW i \in 1 .. Len(calls') PROVE calls'[i].id = Len(history') + i
    <3>1. i + 1 \in 1 .. Len(calls) /\ calls'[i] = calls[i + 1]
      BY <1>6
    <3>2. calls[i + 1].id = Len(history) + (i + 1)
      BY <3>1 DEF CallInv
    <3> QED
      BY <1>5, <1>6, <3>1, <3>2
  <2> QED
    BY <1>3, <1>5, <1>6, <2>1, <2>2
<1>9. \A i \in 1 .. Len(history') : history'[i].call = i
  <2> SUFFICES ASSUME NEW i \in 1 .. Len(history') PROVE history'[i].call = i
    OBVIOUS
  <2>1. CASE i \in 1 .. Len(history)
    BY <1>5, <2>1 DEF CallInv
  <2>2. CASE i = Len(history) + 1
    BY <1>5, <2>2 DEF Here, m
  <2> QED
    BY <1>5, <1>6, <2>1, <2>2
<1>10. /\ pc' = "chat" => calls' = <<>> /\ asked' <= iters' * MaxCalls
       /\ pc' \in Active => iters' < MaxIters /\ asked' <= (iters' + 1) * MaxCalls
  <2>1. iters < MaxIters /\ asked <= (iters + 1) * MaxCalls
    BY DEF CallInv
  <2>2. CASE Len(calls) = 1
    BY <1>3, <1>4, <1>6, <2>1, <2>2 DEF Active
  <2>3. CASE Len(calls) # 1
    BY <1>3, <1>4, <2>1, <2>3
  <2> QED
    BY <2>2, <2>3
<1> QED
  BY <1>4, <1>5, <1>7, <1>8, <1>9, <1>10 DEF CallInv, Here, m

(* A step between two answers. *)
LEMMA SameCalls ==
    ASSUME TurnType, CallInv, pc \in Active, pc' \in Active,
           UNCHANGED <<iters, asked, calls, history, outcome>>
    PROVE  TurnType' /\ CallInv' /\ Here' = Here
BY DEF TurnType, CallInv, Here, Active

LEMMA EndTurn ==
    ASSUME TurnType, CallInv, pc = "chat", NEW result \in {"ok", "error"}, End(result)
    PROVE  TurnType' /\ CallInv' /\ Here' = Here /\ pc' = "ended"
BY DEF TurnType, CallInv, Here, Active, End

LEMMA CallToolsTurn ==
    ASSUME TurnType, CallInv, CallTools
    PROVE  TurnType' /\ CallInv' /\ Here' = Here /\ pc' = "tools"
<1>0. PICK n \in 1 .. MaxCalls : \E tools \in [1 .. n -> Tools] :
          /\ calls' = [i \in 1 .. n |-> [id |-> asked + i, tool |-> tools[i]]]
          /\ asked' = asked + n
  BY DEF CallTools
<1>1. PICK tools \in [1 .. n -> Tools] :
          /\ calls' = [i \in 1 .. n |-> [id |-> asked + i, tool |-> tools[i]]]
          /\ asked' = asked + n
  BY <1>0
<1>2. /\ pc = "chat" /\ iters < MaxIters /\ pc' = "tools"
      /\ UNCHANGED <<iters, history, outcome>>
  BY DEF CallTools
<1>3. n \in Nat /\ n >= 1 /\ asked \in Nat /\ iters \in Nat /\ MaxCalls \in Nat
  BY IterAssumption DEF TurnType
<1>4. calls = <<>> /\ Len(calls) = 0 /\ asked <= iters * MaxCalls
      /\ Len(history) + Len(calls) = asked /\ Len(history) \in Nat
  BY <1>2 DEF CallInv, TurnType
<1>5. Len(history) = asked
  BY <1>4
<1>6. asked + n <= (iters + 1) * MaxCalls
  BY <1>3, <1>4, NextRound
<1>7. asked + n <= MaxIters * MaxCalls
  BY <1>2, <1>3, <1>6, Room
<1>8. MaxIters * MaxCalls \in Nat
  BY IterAssumption
<1>9. ASSUME NEW i \in 1 .. n PROVE [id |-> asked + i, tool |-> tools[i]] \in Calls
  <2>1. asked + i \in Ids
    BY <1>3, <1>7, <1>8 DEF Ids
  <2> QED
    BY <2>1 DEF Calls
<1>10. calls' \in Seq(Calls) /\ Len(calls') = n
       /\ \A i \in 1 .. n : calls'[i].id = asked + i
  BY <1>1, <1>3, <1>9
<1>11. calls' # <<>>
  BY <1>3, <1>10, EmptySeq
<1>12. asked' \in 0 .. MaxIters * MaxCalls
  BY <1>1, <1>3, <1>7, <1>8
<1>13. TurnType'
  BY <1>2, <1>10, <1>11, <1>12 DEF TurnType, Active
<1> QED
  BY <1>1, <1>2, <1>5, <1>6, <1>10, <1>13 DEF CallInv, Here, Active

-----------------------------------------------------------------------------
(* The world. *)

(* What a call may do before its answer. *)
OneCall ==
    /\ approved \subseteq approved'
    /\ \A id \in Ids : things[id] # "none" => things'[id] # "none"
    /\ \A id \in Ids \ {Here} : delivered'[id] = delivered[id]
    /\ delivered'[Here] \in {0, 1}
    /\ delivered'[Here] = 1 => Here \in approved'
    /\ copied' \in {copied, copied \cup {Here}}
    /\ Here \in copied' => delivered'[Here] = 1

(* What its answer may say then. *)
TrueAnswer(payload) ==
    /\ payload \in {"sent", "sent, no copy"} => delivered'[Here] = 1
    /\ payload = "sent" => Here \in copied'
    /\ payload = "declined" => delivered'[Here] = 0
    /\ Creates(Head(calls).tool) /\ payload = "ok" => things'[Here] # "none"

LEMMA AnswerWorld ==
    ASSUME TurnType, WorldType, WorldType', CallInv, MailInv, pc \in Active,
           NEW payload \in Payloads, Answer(payload), OneCall, TrueAnswer(payload)
    PROVE  TypeOK' /\ CallInv' /\ MailInv'
<1>1. /\ TurnType' /\ CallInv' /\ pc' \in {"chat", "tools"}
      /\ Len(history') = Here
      /\ \A i \in 1 .. Len(history) : history'[i] = history[i]
      /\ history'[Here] = [call |-> Here, tool |-> Head(calls).tool,
                           answer |-> payload]
  BY AnswerTurn
<1>2. Here \in Ids /\ Len(history) \in Nat /\ Here = Len(history) + 1 /\ Ids \subseteq Nat
  BY HeadIsHere, IterAssumption DEF TurnType, Here, Ids
<1>3. \A i \in 1 .. Len(history) : history[i].call = i /\ i \in Ids /\ i # Here
  <2>1. TAKE i \in 1 .. Len(history)
  <2>2. history[i].call = i
    BY DEF CallInv
  <2>3. i \in Ids /\ i # Here
    BY <1>2, IterAssumption DEF Ids
  <2> QED
    BY <2>2, <2>3
<1>4. ConfirmedOnly'
  <2> SUFFICES ASSUME NEW id \in Ids, delivered'[id] > 0
               PROVE  id \in approved' /\ delivered'[id] = 1
    <3>1. copied' \subseteq {id \in Ids : delivered'[id] = 1}
      BY <1>2 DEF OneCall, TrueAnswer, MailInv, MailAsAgreed, ConfirmedOnly, WorldType
    <3> QED
      BY <3>1 DEF ConfirmedOnly
  <2>1. CASE id = Here
    <3>1. delivered'[id] \in {0, 1} /\ (delivered'[id] = 1 => id \in approved')
      BY <2>1 DEF OneCall
    <3> QED
      BY <3>1
  <2>2. CASE id # Here
    <3>1. delivered'[id] = delivered[id] /\ approved \subseteq approved'
      BY <2>2 DEF OneCall, TrueAnswer
    <3>2. id \in approved /\ delivered[id] = 1
      BY <3>1 DEF MailInv, MailAsAgreed, ConfirmedOnly
    <3> QED
      BY <3>1, <3>2
  <2> QED
    BY <2>1, <2>2
<1>5. ToldTheTruth'
  <2>1. ASSUME NEW m, m.call \in Ids \ {Here}, IsTrue(m) PROVE IsTrue(m)'
    BY <2>1 DEF OneCall, TrueAnswer, IsTrue
  <2>2. ASSUME NEW i \in 1 .. Len(history), NEW m, m = history'[i]
        PROVE  IsTrue(m)'
    <3>1. m = history[i] /\ m.call \in Ids \ {Here}
      BY <1>1, <1>3, <2>2
    <3>2. IsTrue(m)
      <4>1. i \in DOMAIN history
        BY DEF TurnType
      <4> QED
        BY <3>1, <4>1 DEF MailInv, MailAsAgreed, ToldTheTruth, IsTrue, Creates
    <3> QED
      BY <2>1, <3>1, <3>2
  <2>3. ASSUME NEW m, m = history'[Here] PROVE IsTrue(m)'
    <3>1. m.call = Here /\ m.tool = Head(calls).tool /\ m.answer = payload
      BY <1>1, <2>3
    <3> QED
      BY <3>1 DEF OneCall, TrueAnswer, IsTrue
  <2>4. \A i \in 1 .. Len(history') : i \in 1 .. Len(history) \/ i = Here
    BY <1>1, <1>2
  <2>5. DOMAIN history' = 1 .. Len(history')
    BY <1>1 DEF TurnType
  <2>6. ASSUME NEW i \in DOMAIN history', NEW m, m = history'[i] PROVE IsTrue(m)'
    BY <2>2, <2>3, <2>4, <2>5, <2>6
  <2> QED
    BY <2>6 DEF ToldTheTruth, IsTrue, Creates
<1>6. Here' = Here + 1 /\ \A id \in Ids : id >= Here' => delivered'[id] = 0
  <2>1. Here' = Here + 1
    BY <1>1 DEF Here
  <2>2. ASSUME NEW id \in Ids, id >= Here + 1 PROVE delivered'[id] = 0
    <3>1. id # Here /\ id > Here
      BY <1>2, <2>2
    <3> QED
      BY <3>1 DEF OneCall, TrueAnswer, MailInv
  <2> QED
    BY <2>1, <2>2
<1>7. MailInv'
  <2>1. \A id \in Ids : id > Here' => delivered'[id] = 0
    BY <1>2, <1>6
  <2>2. Here' \in Ids => delivered'[Here'] = 0
    BY <1>2, <1>6
  <2>3. pc' # "append" /\ pc' # "smtp"
    BY <1>1
  <2> QED
    BY <1>4, <1>5, <2>1, <2>2, <2>3 DEF MailInv, MailAsAgreed
<1>8. TypeOK'
  BY <1>1, TypeParts, PTL
<1> QED
  BY <1>1, <1>7, <1>8

LEMMA HeadDelivered ==
    ASSUME TurnType, CallInv, MailInv, pc \in Active
    PROVE  /\ Here \in Ids /\ Head(calls).id = Here
           /\ delivered[Here] = IF pc = "append" THEN 1 ELSE 0
           /\ pc # "append" => Here \notin copied
BY HeadIsHere DEF MailInv, MailAsAgreed, ConfirmedOnly

(* An answer of a call that sent nothing and was not declined. *)
LEMMA QuietAnswer ==
    ASSUME TypeOK, CallInv, MailInv, WorldType', pc \in {"tools", "confirm"},
           NEW payload \in {"ok", "error"}, Answer(payload),
           UNCHANGED <<stdin, approved, delivered, copied>>,
           \A id \in Ids : things[id] # "none" => things'[id] # "none",
           Creates(Head(calls).tool) /\ payload = "ok" => things'[Here] # "none"
    PROVE  TypeOK' /\ CallInv' /\ MailInv'
<1>1. TurnType /\ WorldType /\ pc \in Active /\ payload \in Payloads
  BY TypeParts DEF Active, Payloads
<1>2. Here \in Ids /\ delivered[Here] = 0 /\ Here \notin copied
  BY <1>1, HeadDelivered
<1>3. OneCall
  BY <1>2 DEF OneCall
<1>4. TrueAnswer(payload)
  BY DEF TrueAnswer
<1> QED
  BY <1>1, <1>3, <1>4, AnswerWorld

(* A change of an event or a task. *)
LEMMA ChangeWorld ==
    ASSUME TypeOK, CallInv, MailInv, pc = "tools",
           NEW new \in [Ids -> {"none", "event", "task", "gone"}], Change(new),
           \A id \in Ids : things[id] # "none" => new[id] # "none",
           Creates(Head(calls).tool) => new[Here] # "none"
    PROVE  TypeOK' /\ CallInv' /\ MailInv'
<1>1. /\ things' \in {things, new} /\ UNCHANGED <<stdin, approved, delivered, copied>>
      /\ faults' \in {faults, faults + 1} /\ (faults' = faults \/ faults < MaxFaults)
  BY DEF Change, Fault
<1>2. faults' \in 0 .. MaxFaults
  BY <1>1, InputAssumption DEF TypeOK
<1>3. WorldType'
  BY <1>1, <1>2 DEF TypeOK, WorldType
<1>4. PICK payload \in {"ok", "error"} :
          Answer(payload) /\ (payload = "ok" => things' = new)
  BY DEF Change
<1> QED
  BY <1>1, <1>3, <1>4, QuietAnswer

(* A step without an answer. *)
LEMMA NoAnswer ==
    ASSUME TurnType, WorldType, WorldType', CallInv, MailInv, pc # "append",
           UNCHANGED <<history, things, copied>>, approved \subseteq approved',
           \A id \in Ids \ {Here} : delivered'[id] = delivered[id],
           Here \in Ids => delivered'[Here] = IF pc' = "append" THEN 1 ELSE 0,
           pc' \in {"smtp", "append"} => Here \in approved'
    PROVE  MailInv'
<1>1. Here' = Here /\ Len(history) \in Nat /\ Here = Len(history) + 1 /\ Ids \subseteq Nat
  BY DEF TurnType, Here, Ids
<1>2. ConfirmedOnly'
  <2>1. ASSUME NEW id \in Ids, delivered'[id] > 0
        PROVE  id \in approved' /\ delivered'[id] = 1
    <3>1. CASE id = Here
      <4>1. delivered'[id] = 1 /\ pc' = "append"
        BY <2>1, <3>1
      <4> QED
        BY <3>1, <4>1
    <3>2. CASE id # Here
      <4>1. delivered'[id] = delivered[id] /\ delivered[id] > 0
        BY <2>1, <3>2
      <4> QED
        BY <4>1 DEF MailInv, MailAsAgreed, ConfirmedOnly
    <3> QED
      BY <3>1, <3>2
  <2>2. ASSUME NEW id \in copied PROVE id \in Ids /\ delivered'[id] = 1
    <3>1. id \in Ids /\ delivered[id] = 1
      BY DEF MailInv, MailAsAgreed, ConfirmedOnly
    <3>2. id # Here
      BY <3>1 DEF MailInv
    <3> QED
      BY <3>1, <3>2
  <2>3. copied' \subseteq {id \in Ids : delivered'[id] = 1}
    BY <2>2
  <2> QED
    BY <2>1, <2>3 DEF ConfirmedOnly
<1>3. ToldTheTruth'
  <2>1. ASSUME NEW i \in DOMAIN history, NEW m, m = history[i] PROVE IsTrue(m)'
    <3>1. IsTrue(m)
      <4>1. ToldTheTruth
        BY DEF MailInv, MailAsAgreed
      <4>2. IsTrue(history[i])
        BY <4>1 DEF ToldTheTruth, IsTrue, Creates
      <4> QED
        BY <2>1, <4>2
    <3>2. i \in 1 .. Len(history) /\ m.call = i
      BY <2>1 DEF TurnType, CallInv
    <3>3. m.call \in Ids
      <4> DEFINE Messages == [call : Ids, tool : Tools, answer : Payloads]
      <4>1. history \in Seq(Messages)
        BY DEF TurnType
      <4>2. \A x \in Messages : x.call \in Ids
        OBVIOUS
      <4> HIDE DEF Messages
      <4> QED
        BY <2>1, <3>2, <4>1, <4>2
    <3>4. m.call \in Ids \ {Here}
      BY <1>1, <3>2, <3>3
    <3>5. delivered'[m.call] = delivered[m.call]
      BY <3>4
    <3> QED
      BY <3>1, <3>5 DEF IsTrue
  <2> QED
    BY <2>1 DEF ToldTheTruth, IsTrue, Creates
<1>4. \A id \in Ids : id > Here' => delivered'[id] = 0
  <2>1. ASSUME NEW id \in Ids, id > Here PROVE delivered'[id] = 0
    <3>1. id # Here
      BY <1>1, <2>1
    <3> QED
      BY <2>1, <3>1 DEF MailInv
  <2> QED
    BY <1>1, <2>1
<1> QED
  BY <1>1, <1>2, <1>3, <1>4 DEF MailInv, MailAsAgreed

-----------------------------------------------------------------------------
Inv == TypeOK /\ CallInv /\ MailInv

LEMMA InvInit == Init => Inv
<1> SUFFICES ASSUME Init PROVE Inv
  OBVIOUS
<1>1. Len(<<>>) = 0 /\ \A S : <<>> \in Seq(S)
  BY EmptySeq
<1>2. history = <<>> /\ calls = <<>> /\ pc = "chat" /\ iters = 0 /\ asked = 0
  BY DEF Init
<1>3. MaxIters * MaxCalls \in Nat /\ 0 * MaxCalls = 0 /\ MaxIters \in Nat
  BY IterAssumption
<1>4. TurnType
  BY <1>1, <1>2, <1>3 DEF Init, TurnType, Active
<1>5. WorldType
  BY InputAssumption DEF Init, WorldType
<1>6. CallInv
  BY <1>1, <1>2, <1>3 DEF CallInv, Active
<1>7. MailInv
  <2>1. DOMAIN history = 1 .. 0
    BY <1>1, <1>2
  <2>2. ToldTheTruth
    <3>1. \A i : i \notin DOMAIN history
      BY <2>1
    <3> QED
      BY <3>1, Zenon DEF ToldTheTruth
  <2>3. ConfirmedOnly
    BY DEF Init, ConfirmedOnly
  <2>4. \A id \in Ids : delivered[id] = 0
    BY DEF Init
  <2> QED
    BY <1>2, <2>2, <2>3, <2>4 DEF MailInv, MailAsAgreed
<1> QED
  BY <1>4, <1>5, <1>6, <1>7, TypeParts DEF Inv

LEMMA TurnOnly ==
    ASSUME Inv, TurnType', CallInv', pc # "append",
           pc' \notin {"smtp", "append"},
           UNCHANGED <<history, approved, stdin, world>>,
           faults' \in 0 .. MaxFaults
    PROVE  Inv'
<1>1. TurnType /\ WorldType /\ CallInv /\ MailInv
  BY TypeParts DEF Inv
<1>2. WorldType'
  BY <1>1 DEF WorldType, world
<1>3. Here \in Ids => delivered[Here] = 0
  BY <1>1 DEF MailInv
<1>4. MailInv'
  BY <1>1, <1>2, <1>3, NoAnswer DEF world
<1>5. TypeOK'
  BY <1>2, TypeParts, PTL
<1> QED
  BY <1>4, <1>5 DEF Inv

LEMMA InvNext == Inv /\ [Next]_vars => Inv'
<1> SUFFICES ASSUME Inv, [Next]_vars PROVE Inv'
  OBVIOUS
<1>0. /\ TypeOK /\ TurnType /\ WorldType /\ CallInv /\ MailInv
      /\ faults \in 0 .. MaxFaults /\ MaxFaults \in Nat
  BY TypeParts, InputAssumption DEF Inv, WorldType
<1>1. CASE CallTools
  <2>1. UNCHANGED <<history, approved, stdin, world, faults>> /\ pc = "chat"
    BY <1>1 DEF CallTools
  <2> QED
    BY <1>0, <1>1, <2>1, CallToolsTurn, TurnOnly
<1>2. CASE AnswerUser \/ ChatFails \/ GiveUp
  <2>1. PICK result \in {"ok", "error"} : End(result)
    BY <1>2 DEF AnswerUser, ChatFails, GiveUp
  <2>2. UNCHANGED <<approved, stdin, world>> /\ pc = "chat"
    BY <1>2 DEF AnswerUser, ChatFails, GiveUp
  <2>3. faults' \in {faults, faults + 1} /\ (faults' = faults \/ faults < MaxFaults)
    BY <1>2 DEF AnswerUser, ChatFails, GiveUp, Fault
  <2>4. faults' \in 0 .. MaxFaults /\ history' = history
    BY <1>0, <2>1, <2>3 DEF End
  <2> QED
    BY <1>0, <2>1, <2>2, <2>4, EndTurn, TurnOnly
<1>3. CASE ExecuteOther \/ RefuseMail \/ RefuseEvent \/ RefuseTask
  <2>1. PICK payload \in {"ok", "error"} : Answer(payload) /\ (payload = "ok" => Head(calls).tool = "other")
    BY <1>3 DEF ExecuteOther, RefuseMail, RefuseEvent, RefuseTask, Executing
  <2>2. UNCHANGED <<stdin, approved, world, faults>> /\ pc = "tools"
    BY <1>3 DEF ExecuteOther, RefuseMail, RefuseEvent, RefuseTask, Executing
  <2>3. WorldType'
    BY <1>0, <2>2 DEF WorldType, world
  <2>4. Creates(Head(calls).tool) /\ payload = "ok" => things'[Here] # "none"
    BY <2>1 DEF Creates
  <2> QED
    BY <1>0, <2>1, <2>2, <2>3, <2>4, QuietAnswer DEF Inv, world
<1>4. CASE ShowPreview
  <2>1. /\ pc = "tools" /\ pc' = "confirm"
        /\ UNCHANGED <<iters, asked, calls, history, outcome>>
        /\ UNCHANGED <<stdin, approved, world, faults>>
    BY <1>4 DEF ShowPreview, Executing
  <2>2. TurnType' /\ CallInv'
    BY <1>0, <2>1, SameCalls DEF Active
  <2> QED
    BY <1>0, <2>1, <2>2, TurnOnly
<1>5. CASE Confirm
  <2>1. PICK line \in Lines :
          /\ ReadLine(line)
          /\ approved' = IF line = "yes" THEN approved \cup {Head(calls).id}
                         ELSE approved
          /\ IF Agrees(line)
             THEN pc' = "smtp" /\ UNCHANGED <<iters, asked, calls, history, outcome>>
             ELSE Answer("declined")
    BY <1>5 DEF Confirm
  <2>2. pc = "confirm" /\ UNCHANGED <<world, faults>>
    BY <1>5 DEF Confirm
  <2>3. /\ Here \in Ids /\ Head(calls).id = Here /\ delivered[Here] = 0
        /\ Here \notin copied
    BY <1>0, <2>2, HeadDelivered DEF Active
  <2>4. stdin' \in Seq({"yes", "no"}) \cup {Terminal}
    <3>1. stdin \in Seq({"yes", "no"}) \cup {Terminal}
      BY <1>0 DEF WorldType
    <3>2. CASE stdin' = stdin
      BY <3>1, <3>2
    <3>3. CASE stdin \notin {Terminal, <<>>}
      <4>1. PICK n \in 1 .. Len(stdin) :
              stdin' = SubSeq(stdin, n + 1, Len(stdin))
        BY <2>1, <3>3 DEF ReadLine
      <4>2. stdin \in Seq({"yes", "no"}) /\ Len(stdin) \in Nat
        BY <3>1, <3>3
      <4>3. SubSeq(stdin, n + 1, Len(stdin)) \in Seq({"yes", "no"})
        BY <4>2, SubSeqProperties
      <4> QED
        BY <4>1, <4>3
    <3> QED
      BY <2>1, <3>2, <3>3 DEF ReadLine
  <2>5. approved' \in SUBSET Ids /\ approved \subseteq approved'
    BY <1>0, <2>1, <2>3 DEF WorldType
  <2>6. WorldType'
    BY <1>0, <2>2, <2>4, <2>5 DEF WorldType, world
  <2>7. CASE line = "yes"
    <3>1. /\ pc' = "smtp" /\ UNCHANGED <<iters, asked, calls, history, outcome>>
          /\ Here \in approved'
      BY <2>1, <2>3, <2>7 DEF Agrees
    <3>2. TurnType' /\ CallInv'
      BY <1>0, <2>2, <3>1, SameCalls DEF Active
    <3>3. MailInv'
      BY <1>0, <2>2, <2>3, <2>5, <2>6, <3>1, NoAnswer DEF world
    <3>4. TypeOK'
      BY <2>6, <3>2, TypeParts, PTL
    <3> QED
      BY <3>2, <3>3, <3>4 DEF Inv
  <2>8. CASE line # "yes"
    <3>1. Answer("declined") /\ "declined" \in Payloads
      BY <2>1, <2>8 DEF Agrees, Payloads
    <3>2. OneCall
      BY <2>2, <2>3, <2>5 DEF OneCall, world
    <3>3. TrueAnswer("declined")
      BY <2>2, <2>3 DEF TrueAnswer, world
    <3> QED
      BY <1>0, <2>2, <2>6, <3>1, <3>2, <3>3, AnswerWorld DEF Inv, Active
  <2> QED
    BY <2>7, <2>8
<1>6. CASE ReadFails
  <2>1. /\ pc = "confirm" /\ faults < MaxFaults /\ faults' = faults + 1
        /\ Answer("error") /\ UNCHANGED <<stdin, approved, world>>
    BY <1>6 DEF ReadFails, Fault
  <2>2. WorldType'
    BY <1>0, <2>1 DEF WorldType, world
  <2> QED
    BY <1>0, <2>1, <2>2, QuietAnswer DEF Inv, world
<1>7. CASE SmtpSend
  <2>1. pc = "smtp" /\ UNCHANGED <<stdin, approved, copied, things>>
    BY <1>7 DEF SmtpSend
  <2>2. /\ Here \in Ids /\ Head(calls).id = Here /\ delivered[Here] = 0
        /\ Here \notin copied /\ Here \in approved
    BY <1>0, <2>1, HeadDelivered DEF Active, MailInv
  <2>3. /\ faults' \in {faults, faults + 1} /\ (faults' = faults \/ faults < MaxFaults)
        /\ delivered' \in {delivered, [delivered EXCEPT ![Here] = @ + 1]}
    BY <1>7, <2>2 DEF SmtpSend, Fault, Deliver
  <2>4. /\ delivered' \in [Ids -> Nat] /\ delivered'[Here] \in {0, 1}
        /\ \A id \in Ids \ {Here} : delivered'[id] = delivered[id]
    BY <1>0, <2>2, <2>3 DEF WorldType
  <2>5. faults' \in 0 .. MaxFaults
    BY <1>0, <2>3
  <2>6. WorldType'
    BY <1>0, <2>1, <2>4, <2>5 DEF WorldType
  <2>7. CASE /\ Deliver /\ pc' = "append"
             /\ UNCHANGED <<iters, asked, calls, history, outcome, faults>>
    <3>1. delivered'[Here] = 1
      BY <1>0, <2>2, <2>7 DEF Deliver, WorldType
    <3>2. TurnType' /\ CallInv'
      BY <1>0, <2>1, <2>7, SameCalls DEF Active
    <3>3. MailInv'
      BY <1>0, <2>1, <2>2, <2>4, <2>6, <2>7, <3>1, NoAnswer
    <3>4. TypeOK'
      BY <2>6, <3>2, TypeParts, PTL
    <3> QED
      BY <3>2, <3>3, <3>4 DEF Inv
  <2>8. CASE Answer("error")
    <3>1. OneCall
      BY <2>1, <2>2, <2>4 DEF OneCall
    <3>2. TrueAnswer("error") /\ "error" \in Payloads
      BY DEF TrueAnswer, Payloads
    <3> QED
      BY <1>0, <2>1, <2>6, <2>8, <3>1, <3>2, AnswerWorld DEF Inv, Active
  <2> QED
    BY <1>7, <2>7, <2>8 DEF SmtpSend
<1>8. CASE AppendCopy
  <2>1. pc = "append" /\ UNCHANGED <<stdin, approved, delivered, things>>
    BY <1>8 DEF AppendCopy
  <2>2. /\ Here \in Ids /\ Head(calls).id = Here /\ delivered[Here] = 1
        /\ Here \in approved
    BY <1>0, <2>1, HeadDelivered DEF Active, MailInv
  <2>3. /\ faults' \in {faults, faults + 1} /\ (faults' = faults \/ faults < MaxFaults)
        /\ copied' \in {copied, copied \cup {Here}}
    BY <1>8, <2>2 DEF AppendCopy, Fault
  <2>4. faults' \in 0 .. MaxFaults
    BY <1>0, <2>3
  <2>5. WorldType'
    BY <1>0, <2>1, <2>2, <2>3, <2>4 DEF WorldType
  <2>6. OneCall
    BY <2>1, <2>2, <2>3 DEF OneCall
  <2>7. PICK payload \in {"sent", "sent, no copy"} :
            Answer(payload) /\ (payload = "sent" => copied' = copied \cup {Here})
    BY <1>8, <2>2 DEF AppendCopy
  <2>8. TrueAnswer(payload) /\ payload \in Payloads
    BY <2>1, <2>2, <2>7 DEF TrueAnswer, Payloads
  <2> QED
    BY <1>0, <2>1, <2>5, <2>6, <2>7, <2>8, AnswerWorld DEF Inv, Active
<1>9. CASE CreateEvent \/ CreateTask
  <2>1. PICK kind \in {"event", "task"} : Change([things EXCEPT ![Head(calls).id] = kind])
    BY <1>9 DEF CreateEvent, CreateTask
  <2>2. pc = "tools" /\ Here \in Ids /\ Head(calls).id = Here
    BY <1>0, <1>9, HeadDelivered DEF CreateEvent, CreateTask, Executing, Active
  <2> DEFINE new == [things EXCEPT ![Here] = kind]
  <2>3. /\ new \in [Ids -> {"none", "event", "task", "gone"}] /\ new[Here] # "none"
        /\ \A id \in Ids : things[id] # "none" => new[id] # "none"
    BY <1>0, <2>2 DEF WorldType
  <2>4. Change(new)
    BY <2>1, <2>2
  <2> HIDE DEF new
  <2> QED
    BY <1>0, <2>2, <2>3, <2>4, ChangeWorld DEF Inv
<1>10. CASE UpdateEvent \/ DeleteEvent \/ UpdateTask \/ CompleteTask
  <2>1. /\ pc = "tools" /\ ~ Creates(Head(calls).tool)
    BY <1>10 DEF UpdateEvent, DeleteEvent, UpdateTask, CompleteTask, Executing, Creates
  <2>2. PICK new \in Removals("event") \cup Removals("task") : Change(new)
    BY <1>10 DEF UpdateEvent, DeleteEvent, UpdateTask, CompleteTask, Removals
  <2>3. /\ new \in [Ids -> {"none", "event", "task", "gone"}]
        /\ \A id \in Ids : things[id] # "none" => new[id] # "none"
    BY <1>0, <2>2 DEF Removals, WorldType
  <2> QED
    BY <1>0, <2>1, <2>2, <2>3, ChangeWorld DEF Inv
<1>11. CASE UNCHANGED vars
  BY <1>0, <1>11 DEF vars, turn, world, Inv, TypeOK, CallInv, MailInv, Here,
                     MailAsAgreed, ConfirmedOnly, ToldTheTruth
<1> QED
  BY <1>1, <1>2, <1>3, <1>4, <1>5, <1>6, <1>7, <1>8, <1>9, <1>10, <1>11 DEF Next

LEMMA InvCorrect == Spec => []Inv
BY InvInit, InvNext, PTL DEF Spec

(* The turn's variables keep their types; in particular there is room for  *)
(* every call that the model makes.                                        *)
THEOREM TypeCorrect == Spec => []TypeOK
<1>1. Inv => TypeOK
  BY DEF Inv
<1> QED
  BY <1>1, InvCorrect, PTL

(* A mail goes out once, for a yes to its preview, and what the model is   *)
(* told of mails, events and tasks is what happened.                       *)
THEOREM OnlyWithConsent == Spec => []MailAsAgreed
<1>1. Inv => MailAsAgreed
  BY DEF Inv, MailInv
<1> QED
  BY <1>1, InvCorrect, PTL

(* Before the model is asked again, each of its calls has one answer, and  *)
(* the answers stand in the order of the calls.                            *)
THEOREM OneAnswerPerCall == Spec => []AnsweredInOrder
<1>1. Inv => AnsweredInOrder
  <2> SUFFICES ASSUME Inv, pc = "chat"
               PROVE  Len(history) = asked /\ \A i \in 1 .. asked : history[i].call = i
    BY DEF AnsweredInOrder
  <2>1. calls = <<>> /\ Len(calls) = 0 /\ Len(history) + Len(calls) = asked
        /\ \A i \in 1 .. Len(history) : history[i].call = i
    BY EmptySeq DEF Inv, CallInv
  <2>2. Len(history) \in Nat
    BY TypeParts DEF Inv, TurnType
  <2> QED
    BY <2>1, <2>2
<1> QED
  BY <1>1, InvCorrect, PTL
=============================================================================
