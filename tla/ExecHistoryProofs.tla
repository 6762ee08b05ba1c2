-------------------------- MODULE ExecHistoryProofs ---------------------------
(***************************************************************************)
(* Theorems about ExecHistory: its types, WholeExecutions and              *)
(* PagingComplete, for any forest of spans.                                *)
(***************************************************************************)
EXTENDS ExecHistory, Waterfall, TLAPS, FiniteSetTheorems, WellFoundedInduction

-----------------------------------------------------------------------------
(* The tree of spans.  Above(stop, s) is s and the spans above it up to    *)
(* the first one in stop; the recursions of ExecHistory follow that path.  *)

Above(stop, s) ==
    {t \in Spans : \A C \in SUBSET Spans :
        s \in C /\ (\A u \in C : u \in stop \/ Parent[u] \in C) => t \in C}

Stops(stop) ==
    stop \in SUBSET Spans /\ \A s \in Spans : Parent[s] = "none" => s \in stop

(* The path from a span is the span and the path from its parent.          *)
LEMMA AboveUnfolds ==
    ASSUME NEW stop, Stops(stop), NEW s \in Spans
    PROVE  Above(stop, s)
             = {s} \cup IF s \in stop THEN {} ELSE Above(stop, Parent[s])
<1> DEFINE Closed(C) == \A u \in C : u \in stop \/ Parent[u] \in C
<1>1. Parent[s] \in Spans \cup {"none"}
  BY SpanAssumption
<1>2. s \in Above(stop, s)
  BY DEF Above
<1>3. CASE s \in stop
  <2>1. {s} \in SUBSET Spans /\ Closed({s})
    BY <1>3
  <2>2. Above(stop, s) \subseteq {s}
    BY <2>1 DEF Above
  <2> QED BY <1>2, <1>3, <2>2
<1>4. CASE s \notin stop
  <2> DEFINE p == Parent[s]
  <2>1. p \in Spans
    BY <1>1, <1>4 DEF Stops
  <2>2. ASSUME NEW t \in Above(stop, p) PROVE t \in Above(stop, s)
    <3> SUFFICES ASSUME NEW C \in SUBSET Spans, s \in C, Closed(C)
                 PROVE  t \in C
      BY <2>2 DEF Above
    <3>1. p \in C
      BY <1>4
    <3> QED BY <3>1, <2>2 DEF Above
  <2>3. ASSUME NEW t \in Above(stop, s), t # s PROVE t \in Above(stop, p)
    <3> SUFFICES ASSUME NEW C \in SUBSET Spans, p \in C, Closed(C)
                 PROVE  t \in C
      BY <2>3 DEF Above
    <3>1. C \cup {s} \in SUBSET Spans /\ Closed(C \cup {s}) /\ s \in C \cup {s}
      OBVIOUS
    <3>2. t \in C \cup {s}
      BY <3>1, <2>3 DEF Above
    <3> QED BY <3>2, <2>3
  <2> QED BY <1>2, <1>4, <2>1, <2>2, <2>3
<1> QED BY <1>3, <1>4

(* There is one span in stop on the path of each span: the recursion that  *)
(* looks for it is well defined.                                           *)
LEMMA RecursionDefines ==
    ASSUME NEW stop, Stops(stop), NEW base
    PROVE  \E f : f = [s \in Spans |->
                          IF s \in stop THEN base[s] ELSE f[Parent[s]]]
<1> DEFINE Hit(s) == Above(stop, s) \cap stop
<1>0. \A s \in Spans : s \in stop \/ Parent[s] \in Spans
  BY SpanAssumption DEF Stops
<1>1. \A s \in Spans : Hit(s) = IF s \in stop THEN {s} ELSE Hit(Parent[s])
  BY <1>0, AboveUnfolds
<1>2. \A s \in Spans : \E t : Hit(s) = {t}
  <2> DEFINE Bad == {s \in Spans : ~ \E t : Hit(s) = {t}}
  <2> HIDE DEF Hit
  <2> SUFFICES ASSUME Bad # {} PROVE FALSE
    OBVIOUS
  <2>1. PICK s \in Bad : Parent[s] \notin Bad
    BY SpanAssumption
  <2> QED BY <1>0, <1>1, <2>1
<1> HIDE DEF Hit
<1> DEFINE h == [s \in Spans |-> CHOOSE t : Hit(s) = {t}]
<1>3. \A s \in Spans : Hit(s) = {h[s]}
  BY <1>2
<1> HIDE DEF h
<1>4. \A s \in Spans : /\ s \in stop => h[s] = s
                       /\ s \notin stop => h[s] = h[Parent[s]]
  BY <1>0, <1>1, <1>3
<1> DEFINE f == [s \in Spans |-> base[h[s]]]
<1>5. f = [s \in Spans |-> IF s \in stop THEN base[s] ELSE f[Parent[s]]]
  BY <1>0, <1>4
<1> QED BY <1>5

LEMMA TraceUnfolds ==
    \A s \in Spans : trace[s] = IF Parent[s] = "none" THEN s ELSE trace[Parent[s]]
<1> DEFINE stop == {s \in Spans : Parent[s] = "none"}
           base == [s \in Spans |-> s]
<1>1. Stops(stop)
  BY DEF Stops
<1>2. /\ \A s \in Spans : base[s] = s
      /\ \A s \in Spans : s \in stop <=> Parent[s] = "none"
  OBVIOUS
<1> HIDE DEF stop, base
<1>3. PICK f : f = [s \in Spans |-> IF s \in stop THEN base[s] ELSE f[Parent[s]]]
  BY <1>1, RecursionDefines
<1>4. f = [s \in Spans |-> IF Parent[s] = "none" THEN s ELSE f[Parent[s]]]
  BY <1>2, <1>3
<1>5. trace = [s \in Spans |-> IF Parent[s] = "none" THEN s ELSE trace[Parent[s]]]
  BY <1>4, Zenon DEF trace
<1> QED BY <1>5

LEMMA EnclosingUnfolds ==
    \A s \in Spans :
        enclosing[s] = IF Parent[s] = "none" THEN "none"
                       ELSE IF Parent[s] \in Roots THEN Parent[s]
                       ELSE enclosing[Parent[s]]
<1> DEFINE stop == {s \in Spans : Parent[s] = "none" \/ Parent[s] \in Roots}
           base == [s \in Spans |-> Parent[s]]
<1>1. Stops(stop)
  BY DEF Stops
<1>2. /\ \A s \in Spans : base[s] = Parent[s]
      /\ \A s \in Spans : s \in stop <=> Parent[s] = "none" \/ Parent[s] \in Roots
  OBVIOUS
<1> HIDE DEF stop, base
<1>3. PICK f : f = [s \in Spans |-> IF s \in stop THEN base[s] ELSE f[Parent[s]]]
  BY <1>1, RecursionDefines
<1>4. f = [s \in Spans |-> IF Parent[s] = "none" THEN "none"
                           ELSE IF Parent[s] \in Roots THEN Parent[s]
                           ELSE f[Parent[s]]]
  BY <1>2, <1>3
<1>5. enclosing = [s \in Spans |-> IF Parent[s] = "none" THEN "none"
                                   ELSE IF Parent[s] \in Roots THEN Parent[s]
                                   ELSE enclosing[Parent[s]]]
  BY <1>4, Zenon DEF enclosing
<1> QED BY <1>5

(* What the execution around a span is, and that they share their trace.   *)
LEMMA TreeTypes ==
    /\ \A s \in Spans : /\ trace[s] \in Spans
                        /\ enclosing[s] \in Roots \cup {"none"}
                        /\ enclosing[s] # "none" => trace[enclosing[s]] = trace[s]
    /\ Roots \subseteq Spans /\ Steps \subseteq Spans /\ Roots \cap Steps = {}
    /\ "none" \notin Roots /\ "none" \notin Steps
<1> DEFINE Good(s) == /\ trace[s] \in Spans
                      /\ enclosing[s] \in Roots \cup {"none"}
                      /\ enclosing[s] # "none" => trace[enclosing[s]] = trace[s]
           Bad == {s \in Spans : ~Good(s)}
<1>1. /\ Roots \subseteq Spans /\ Steps \subseteq Spans /\ Roots \cap Steps = {}
      /\ "none" \notin Roots /\ "none" \notin Steps
  BY SpanAssumption DEF Roots, Steps
<1>2. \A s \in Spans : Good(s)
  <2> SUFFICES ASSUME Bad # {} PROVE FALSE
    OBVIOUS
  <2>1. PICK s \in Bad : Parent[s] \notin Bad
    BY SpanAssumption
  <2>2. Parent[s] = "none" \/ Parent[s] \in Spans
    BY SpanAssumption
  <2>3. CASE Parent[s] = "none"
    BY <2>1, <2>3, TraceUnfolds, EnclosingUnfolds
  <2>4. CASE Parent[s] # "none"
    <3>1. Good(Parent[s]) /\ trace[s] = trace[Parent[s]]
      BY <2>1, <2>2, <2>4, TraceUnfolds
    <3>2. enclosing[s] = IF Parent[s] \in Roots THEN Parent[s]
                         ELSE enclosing[Parent[s]]
      BY <2>4, EnclosingUnfolds
    <3> QED BY <2>1, <3>1, <3>2
  <2> QED BY <2>3, <2>4
<1> QED BY <1>1, <1>2

-----------------------------------------------------------------------------
(* Numbers. *)

LEMMA LeastNat ==
    ASSUME NEW S \in SUBSET Nat, S # {}
    PROVE  \E m \in S : \A n \in S : m <= n
<1> DEFINE R == OpToRel(<, Nat)
<1>1. IsWellFoundedOn(R, Nat)
  BY NatLessThanWellFounded, Zenon
<1>2. \A i, j \in Nat : i < j => <<i, j>> \in R
  BY DEF OpToRel
<1> HIDE DEF R
<1>3. PICK m \in S : \A n \in S : <<n, m>> \notin R
  BY <1>1, WFMin
<1>4. m \in Nat /\ \A n \in S : n \in Nat /\ ~(n < m)
  BY <1>2, <1>3
<1> QED BY <1>4

LEMMA LeastElement ==
    ASSUME NEW A, A # {}, NEW f, \A a \in A : f[a] \in Nat
    PROVE  \E a \in A : \A b \in A : f[a] <= f[b]
<1> DEFINE S == {f[a] : a \in A}
<1>1. S \in SUBSET Nat /\ S # {}
  OBVIOUS
<1> HIDE DEF S
<1>2. PICK m \in S : \A n \in S : m <= n
  BY <1>1, LeastNat
<1> QED BY <1>2 DEF S

(* The first n rows of a table that is sorted by a key: each is above      *)
(* those left out, and if any are left out, there are n.                   *)
Greater(A, f, r) == {q \in A : f[q] > f[r]}
First(A, f, n) == {r \in A : Cardinality(Greater(A, f, r)) < n}

LEMMA FirstRows ==
    ASSUME NEW A, IsFiniteSet(A), NEW f, \A a \in A : f[a] \in Nat,
           \A a, b \in A : f[a] = f[b] => a = b, NEW n \in Nat \ {0}
    PROVE  /\ \A t \in First(A, f, n), r \in A \ First(A, f, n) : f[r] < f[t]
           /\ First(A, f, n) # A => Cardinality(First(A, f, n)) = n
<1> DEFINE T == First(A, f, n)
           rank == [r \in A |-> Cardinality(Greater(A, f, r))]
<1>1. \A r \in A : /\ IsFiniteSet(Greater(A, f, r))
                   /\ rank[r] = Cardinality(Greater(A, f, r))
                   /\ rank[r] \in Nat
                   /\ r \in T <=> rank[r] < n
  <2> TAKE r \in A
  <2>1. Greater(A, f, r) \in SUBSET A
    BY DEF Greater
  <2>2. IsFiniteSet(Greater(A, f, r))
    BY <2>1, FS_Subset
  <2> QED BY <2>2, FS_CardinalityType DEF First
<1> HIDE DEF rank
<1>2. T \in SUBSET A /\ IsFiniteSet(T)
  BY FS_Subset DEF First
<1> HIDE DEF T
<1>3. ASSUME NEW q \in A, NEW r \in A, f[q] > f[r]
      PROVE  rank[q] < rank[r]
  <2>1. /\ Greater(A, f, q) \in SUBSET Greater(A, f, r)
        /\ q \in Greater(A, f, r) /\ q \notin Greater(A, f, q)
    BY <1>3 DEF Greater
  <2> QED BY <1>1, <2>1, FS_Subset
<1>4. ASSUME NEW t \in T, NEW r \in A \ T PROVE f[r] < f[t]
  <2>1. t \in A /\ rank[t] < n /\ ~(rank[r] < n) /\ t # r
    BY <1>1, <1>2
  <2>2. ~(f[r] > f[t])
    BY <1>1, <1>3, <2>1
  <2> QED BY <2>1, <2>2
<1>5. ASSUME T # A PROVE Cardinality(T) = n
  <2>1. PICK r \in A \ T : \A q \in A \ T : rank[r] <= rank[q]
    BY <1>1, <1>2, <1>5, LeastElement
  <2>2. T = Greater(A, f, r)
    <3>1. ASSUME NEW q \in A, f[q] > f[r] PROVE q \in T
      BY <1>1, <1>3, <2>1, <3>1
    <3> QED BY <1>2, <1>4, <2>1, <3>1 DEF Greater
  <2>3. Cardinality(T) \in Nat /\ ~(Cardinality(T) < n)
    BY <1>1, <2>1, <2>2
  <2>4. T # {}
    BY <2>3, FS_EmptySet
  <2>5. PICK o \in T : \A t \in T : f[o] <= f[t]
    BY <1>2, <2>4, LeastElement
  <2>6. T \ {o} \in SUBSET Greater(A, f, o)
    BY <1>2, <2>5 DEF Greater
  <2>7. Cardinality(T) - 1 = Cardinality(T \ {o})
    BY <1>2, FS_RemoveElement
  <2>8. Cardinality(T \ {o}) <= Cardinality(Greater(A, f, o))
    BY <1>1, <1>2, <2>6, FS_Subset
  <2>9. rank[o] \in Nat /\ rank[o] = Cardinality(Greater(A, f, o)) /\ rank[o] < n
    BY <1>1, <1>2
  <2> QED BY <2>3, <2>7, <2>8, <2>9
<1> QED BY <1>4, <1>5 DEF T

-----------------------------------------------------------------------------
(* Types, and the order in which executions start. *)

Started == {r \in Roots : start[r] > 0}

(* Executions are numbered as they start. *)
StartInv ==
    /\ \A r \in Roots : /\ start[r] = 0 <=> life[r] = "new"
                        /\ start[r] <= Cardinality(Started)
    /\ \A q, r \in Roots : start[q] = start[r] /\ start[q] > 0 => q = r

(* Nothing but what ended is stored. *)
EndedInv == \A r \in executions : life[r] = "ended"

(* A page is the rows First defines: its next link, if any, is the start   *)
(* of its oldest row, and without one it is the last page.                 *)
LEMMA PageFacts ==
    ASSUME TypeOK, StartInv, EndedInv, NEW cursor \in Nat, NEW limit \in Limits
    PROVE  LET rows == List(cursor, limit)
               all  == {r \in executions : cursor # 0 => start[r] < cursor}
               next == NextBefore(rows, limit)
           IN  /\ rows \in SUBSET all
               /\ next \in 0 .. Cardinality(Roots)
               /\ next = 0 => rows = all
               /\ next # 0 => \A r \in all \ rows : start[r] < next
<1> DEFINE rows == List(cursor, limit)
           all  == {r \in executions : cursor # 0 => start[r] < cursor}
<1>1. /\ IsFiniteSet(Roots) /\ Cardinality(Roots) \in Nat
      /\ all \in SUBSET Roots /\ IsFiniteSet(all)
  <2>1. IsFiniteSet(Roots)
    BY TreeTypes, SpanAssumption, FS_Subset
  <2>2. all \in SUBSET Roots
    BY DEF TypeOK
  <2> QED BY <2>1, <2>2, FS_Subset, FS_CardinalityType
<1>2. \A r \in all : start[r] \in Nat \ {0} /\ start[r] <= Cardinality(Roots)
  <2> SUFFICES ASSUME NEW r \in all
               PROVE  start[r] \in Nat \ {0} /\ start[r] <= Cardinality(Roots)
    OBVIOUS
  <2>1. r \in Roots /\ life[r] = "ended"
    BY <1>1 DEF EndedInv
  <2>2. start[r] \in 0 .. Cardinality(Roots) /\ start[r] # 0
    BY <2>1 DEF StartInv, TypeOK
  <2> QED BY <1>1, <2>2
<1>3. \A q, r \in all : start[q] = start[r] => q = r
  BY <1>1, <1>2 DEF StartInv
<1>4. limit \in Nat \ {0} /\ limit \in 1 .. MaxLimit
  BY LimitAssumption
<1>5. rows = First(all, start, limit)
  BY <1>4 DEF List, First, Greater
<1>6. rows \in SUBSET all
  BY <1>5 DEF First
<1> HIDE DEF all, rows
<1>7. /\ \A t \in rows, r \in all \ rows : start[r] < start[t]
      /\ rows # all => Cardinality(rows) = limit
  BY <1>1, <1>2, <1>3, <1>4, <1>5, FirstRows
<1>8. CASE Cardinality(rows) = limit
  <2>1. rows # {}
    BY <1>4, <1>8, FS_EmptySet
  <2>2. \E o \in rows : \A q \in rows : start[o] <= start[q]
    BY <1>2, <1>6, <2>1, LeastElement
  <2>3. Oldest(rows) \in rows
    BY <2>2 DEF Oldest
  <2>4. NextBefore(rows, limit) = start[Oldest(rows)]
    BY <1>8 DEF NextBefore
  <2>5. /\ NextBefore(rows, limit) \in Nat \ {0}
        /\ NextBefore(rows, limit) <= Cardinality(Roots)
    BY <1>2, <1>6, <2>3, <2>4
  <2> QED BY <1>1, <1>6, <1>7, <2>3, <2>4, <2>5 DEF rows, all
<1>9. CASE Cardinality(rows) # limit
  <2>1. NextBefore(rows, limit) = 0 /\ rows = all
    BY <1>7, <1>9 DEF NextBefore
  <2> QED BY <1>1, <1>6, <2>1 DEF rows, all
<1> QED BY <1>8, <1>9

TypeInv == TypeOK /\ StartInv /\ EndedInv

LEMMA TypeInit == Init => TypeInv
<1> SUFFICES ASSUME Init PROVE TypeInv
  OBVIOUS
<1>1. IsFiniteSet(Roots) /\ Cardinality(Roots) \in Nat
  BY TreeTypes, SpanAssumption, FS_Subset, FS_CardinalityType
<1>2. Started = {}
  BY DEF Init, Started
<1>3. TypeOK
  <2>1. 0 \in 0 .. Cardinality(Roots) /\ 0 \in 0 .. MaxFaults
    BY <1>1, LimitAssumption
  <2>2. /\ life \in [Spans -> {"new", "running", "flushing", "ended", "lost"}]
        /\ start \in [Roots -> 0 .. Cardinality(Roots)]
        /\ pending \in [Spans -> SUBSET Steps] /\ batch \in [Roots -> SUBSET Steps]
        /\ steps \in [Roots -> SUBSET Steps]
    BY <2>1 DEF Init
  <2>3. viewed \in (SUBSET Steps) \cup {NotRead} /\ view \in Roots \cup {"none"}
    BY DEF Init
  <2> QED BY <2>1, <2>2, <2>3 DEF Init, TypeOK
<1>4. StartInv
  BY <1>2, TreeTypes, FS_EmptySet DEF Init, StartInv
<1> QED BY <1>3, <1>4 DEF TypeInv, EndedInv, Init

(* An execution that begins gets a number above all others.                *)
LEMMA BeginNumbers ==
    ASSUME TypeInv, NEW r \in Roots, Begin(r)
    PROVE  start' \in [Roots -> 0 .. Cardinality(Roots)] /\ StartInv'
<1> DEFINE n == Cardinality(Started)
<1>1. IsFiniteSet(Roots) /\ Cardinality(Roots) \in Nat
  BY TreeTypes, SpanAssumption, FS_Subset, FS_CardinalityType
<1>2. Started \in SUBSET (Roots \ {r}) /\ start[r] = 0 /\ life[r] = "new"
  BY DEF Started, Begin, TypeInv, StartInv
<1>3. IsFiniteSet(Started) /\ n \in Nat
  BY <1>1, <1>2, FS_Subset, FS_CardinalityType
<1>4. n + 1 <= Cardinality(Roots)
  <2>1. IsFiniteSet(Roots \ {r}) /\ Cardinality(Roots \ {r}) = Cardinality(Roots) - 1
    BY <1>1, FS_RemoveElement
  <2>2. n <= Cardinality(Roots \ {r})
    BY <1>2, <2>1, FS_Subset
  <2> QED BY <1>1, <1>3, <2>1, <2>2
<1>5. start' = [start EXCEPT ![r] = n + 1] /\ life' = [life EXCEPT ![r] = "running"]
  BY DEF Begin, Started
<1>6. start \in [Roots -> 0 .. Cardinality(Roots)]
      /\ life \in [Spans -> {"new", "running", "flushing", "ended", "lost"}]
  BY DEF TypeInv, TypeOK
<1>7. start' \in [Roots -> 0 .. Cardinality(Roots)]
  BY <1>1, <1>3, <1>4, <1>5, <1>6
<1>8. Cardinality(Started') = n + 1
  <2>1. Started' = Started \cup {r}
    BY <1>1, <1>3, <1>5, <1>6 DEF Started
  <2> QED BY <1>2, <1>3, <2>1, FS_AddElement
<1> HIDE DEF n
<1>9. ASSUME NEW q \in Roots
      PROVE  /\ start[q] \in Nat /\ start[q] <= n
             /\ start'[q] = IF q = r THEN n + 1 ELSE start[q]
             /\ life'[q] = IF q = r THEN "running" ELSE life[q]
  BY <1>1, <1>3, <1>5, <1>6, TreeTypes DEF TypeInv, StartInv, n
<1>10. \A q \in Roots : /\ start'[q] = 0 <=> life'[q] = "new"
                        /\ start'[q] <= n + 1
  BY <1>3, <1>9 DEF TypeInv, StartInv
<1>11. \A p, q \in Roots : start'[p] = start'[q] /\ start'[p] > 0 => p = q
  BY <1>3, <1>9 DEF TypeInv, StartInv
<1> QED BY <1>7, <1>8, <1>10, <1>11 DEF StartInv

(* Other actions start no execution.                                       *)
LEMMA SameStarts ==
    ASSUME TypeInv, UNCHANGED start,
           \A r \in Roots : life'[r] = "new" <=> life[r] = "new"
    PROVE  StartInv'
BY DEF TypeInv, StartInv, Started

LEMMA TypeStep == TypeInv /\ [Next]_vars => TypeInv'
<1> SUFFICES ASSUME TypeInv, [Next]_vars PROVE TypeInv'
  OBVIOUS
<1> USE TreeTypes DEF TypeInv, TypeOK, EndedInv
<1>1. ASSUME NEW s \in Spans, Begin(s) PROVE TypeInv'
  <2>1. CASE s \in Roots
    BY <1>1, <2>1, BeginNumbers DEF Begin, process, tables, walk, detail
  <2>2. CASE s \notin Roots
    <3>1. StartInv'
      BY <1>1, <2>2, SameStarts DEF Begin
    <3> QED BY <1>1, <2>2, <3>1 DEF Begin, process, tables, walk, detail
  <2> QED BY <2>1, <2>2
<1>2. ASSUME NEW s \in Spans, EndForeign(s) PROVE TypeInv'
  <2>1. StartInv'
    BY <1>2, SameStarts DEF EndForeign, Ends
  <2> QED BY <1>2, <2>1 DEF EndForeign, process, tables, walk, detail
<1>3. ASSUME NEW s \in Spans, BufferStep(s) PROVE TypeInv'
  <2>1. StartInv'
    BY <1>3, SameStarts DEF BufferStep, Ends
  <2> QED BY <1>3, <2>1 DEF BufferStep, tables, walk, detail
<1>4. ASSUME NEW r \in Roots, TakeSteps(r) PROVE TypeInv'
  <2>1. StartInv'
    BY <1>4, SameStarts DEF TakeSteps, Ends
  <2>2. \A q \in executions : q # r
    BY <1>4 DEF TakeSteps, Ends
  <2> QED BY <1>4, <2>1, <2>2 DEF TakeSteps, tables, walk, detail
<1>5. ASSUME NEW r \in Roots, WriteAll(r) PROVE TypeInv'
  <2>1. StartInv'
    BY <1>5, SameStarts DEF WriteAll
  <2>2. faults' \in 0 .. MaxFaults
    BY <1>5, LimitAssumption DEF WriteAll, Fault
  <2>3. executions' \in SUBSET (executions \cup {r}) /\ executions \subseteq executions'
    BY <1>5 DEF WriteAll, tables
  <2>4. steps' \in [Roots -> SUBSET Steps]
    BY <1>5 DEF WriteAll, tables
  <2>5. /\ life' \in [Spans -> {"new", "running", "flushing", "ended", "lost"}]
        /\ batch' \in [Roots -> SUBSET Steps] /\ pending' = pending
        /\ \A q \in executions' : life'[q] = "ended"
    BY <1>5, <2>3 DEF WriteAll
  <2>6. /\ start' = start /\ running' = running /\ poolOpen' = poolOpen
        /\ recording' = recording /\ UNCHANGED walk /\ UNCHANGED detail
    BY <1>5 DEF WriteAll
  <2> QED BY <2>1, <2>2, <2>3, <2>4, <2>5, <2>6 DEF walk, detail
<1>6. CASE ClosePool
  BY <1>6, SameStarts DEF ClosePool, tables, walk, detail
<1>7. CASE Shutdown
  BY <1>7, SameStarts DEF Shutdown, tables, walk, detail
<1>8. CASE Exit
  <2>1. StartInv'
    BY <1>8, SameStarts DEF Exit, Active
  <2>2. faults' \in 0 .. MaxFaults
    BY <1>8, LimitAssumption DEF Exit, Fault
  <2>3. life' \in [Spans -> {"new", "running", "flushing", "ended", "lost"}]
    BY <1>8 DEF Exit
  <2>4. \A r \in executions : life'[r] = "ended"
    BY <1>8 DEF Exit, Active
  <2>5. pending' \in [Spans -> SUBSET Steps] /\ batch' \in [Roots -> SUBSET Steps]
    BY <1>8 DEF Exit
  <2> QED BY <1>8, <2>1, <2>2, <2>3, <2>4, <2>5 DEF Exit, tables, walk, detail
<1>9. CASE Restart
  BY <1>9, SameStarts DEF Restart, tables, walk, detail
<1>10. CASE Cleanup
  <2>1. StartInv'
    BY <1>10, SameStarts DEF Cleanup
  <2> QED BY <1>10, <2>1 DEF Cleanup, process, detail
<1>11. ASSUME NEW l \in Limits, ShowPage(l) PROVE TypeInv'
  <2>1. (IF walking THEN before ELSE 0) \in Nat
    OBVIOUS
  <2>2. /\ before' \in 0 .. Cardinality(Roots)
        /\ List(IF walking THEN before ELSE 0, l) \in SUBSET executions
    BY <1>11, <2>1, PageFacts DEF ShowPage
  <2>3. due' \in SUBSET executions' /\ shown' \in SUBSET Roots
    BY <1>11, <2>2 DEF ShowPage, tables
  <2>4. StartInv'
    BY <1>11, SameStarts DEF ShowPage
  <2> QED BY <1>11, <2>2, <2>3, <2>4 DEF ShowPage, process, tables, detail
<1>12. ASSUME NEW r \in Roots, ReadExecution(r) PROVE TypeInv'
  BY <1>12, SameStarts DEF ReadExecution, process, tables, walk
<1>13. CASE ReadSteps
  BY <1>13, SameStarts DEF ReadSteps, process, tables, walk
<1>14. CASE LeavePage
  <2>1. StartInv'
    BY <1>14, SameStarts DEF LeavePage, process, tables, walk
  <2>2. view' = "none" /\ viewed' \in (SUBSET Steps) \cup {NotRead}
    BY <1>14 DEF LeavePage
  <2> QED BY <1>14, <2>1, <2>2 DEF LeavePage, process, tables, walk
<1>15. CASE UNCHANGED vars
  BY <1>15, SameStarts DEF vars, process, tables, walk, detail
<1> QED BY <1>1, <1>2, <1>3, <1>4, <1>5, <1>6, <1>7, <1>8, <1>9, <1>10, <1>11,
           <1>12, <1>13, <1>14, <1>15 DEF Next

(* The types of the recorder, its tables and its pages, for every tree of  *)
(* spans.                                                                  *)
THEOREM TypeCorrect == Spec => []TypeOK
<1>1. TypeInv => TypeOK
  BY DEF TypeInv
<1> QED BY <1>1, TypeInit, TypeStep, PTL DEF Spec

-----------------------------------------------------------------------------
(* The inductive invariant for WholeExecutions. *)

(* Spans that are open are open inside one another, executions in turn.    *)
SpansNest ==
    /\ \A s \in Spans : Active(s) /\ Parent[s] # "none" => life[Parent[s]] = "running"
    /\ \A s \in Spans : life[s] = "flushing" => s \in Roots
    /\ \A s \in Spans : enclosing[s] # "none" /\ life[s] # "new"
                            => life[enclosing[s]] # "new"
    /\ \A q, r \in Roots : Active(q) /\ Active(r) /\ trace[q] = trace[r]
                            => q = r \/ enclosing[q] = r \/ enclosing[r] = q

(* Rows are written while the recorder works.                              *)
ProcessInv ==
    /\ poolOpen => running /\ recording
    /\ ~running => \A s \in Spans : ~Active(s)

(* What is pending in a plain trace is all that ended in what runs.        *)
PendingInv ==
    /\ \A t \in Spans : \A s \in pending[t] : trace[s] = t
    /\ \A s \in Steps : enclosing[s] # "none" /\ Plain(trace[s]) =>
          (s \in pending[trace[s]] <=> /\ recording /\ life[s] = "ended"
                                       /\ life[enclosing[s]] = "running")

(* What is about to be written, stored and shown of it is whole.           *)
BatchInv == \A r \in Roots : life[r] = "flushing" /\ Plain(trace[r])
                => ~poolOpen \/ batch[r] = StepsOf(r)
RowsInv  == \A r \in executions : Plain(trace[r]) => steps[r] = StepsOf(r)
ViewInv  ==
    /\ view # "none" => life[view] = "ended"
    /\ viewed # NotRead => view # "none"
    /\ viewed # NotRead /\ view \in executions /\ Plain(trace[view])
           => viewed = StepsOf(view)

(* In any trace, what ended is in one place at most.                       *)
Kept(r) == batch[r] \cup steps[r]
KeptInv ==
    /\ \A t \in Spans : \A s \in pending[t] : trace[s] = t /\ life[s] = "ended"
    /\ \A r \in Roots : \A s \in Kept(r) :
          trace[s] = trace[r] /\ life[s] = "ended" /\ s \notin pending[trace[r]]
    /\ \A q, r \in Roots : q # r => Kept(q) \cap Kept(r) = {}

WholeInv == SpansNest /\ ProcessInv /\ PendingInv /\ BatchInv /\ RowsInv /\ ViewInv

(* Who is on a page has seen what started after its last row.              *)
PagingInv ==
    /\ ~walking => due \subseteq shown
    /\ walking => before # 0 /\ \A r \in due \ shown : start[r] < before

(* The execution around an open span is running.                           *)
LEMMA RunningAround ==
    ASSUME SpansNest, NEW s \in Spans, Active(s), enclosing[s] # "none"
    PROVE  life[enclosing[s]] = "running"
<1> DEFINE Bad == {t \in Spans : /\ Active(t) /\ enclosing[t] # "none"
                                /\ life[enclosing[t]] # "running"}
<1> SUFFICES ASSUME Bad # {} PROVE FALSE
  OBVIOUS
<1>1. PICK t \in Bad : Parent[t] \notin Bad
  BY SpanAssumption
<1>2. Parent[t] \in Spans /\ life[Parent[t]] = "running"
  BY <1>1, EnclosingUnfolds, SpanAssumption DEF SpansNest
<1>3. enclosing[t] = IF Parent[t] \in Roots THEN Parent[t] ELSE enclosing[Parent[t]]
  BY <1>1, <1>2, EnclosingUnfolds, SpanAssumption
<1> QED BY <1>1, <1>2, <1>3 DEF Active

(* Nothing is open in an execution that is about to end.                   *)
LEMMA NothingInside ==
    ASSUME SpansNest, NEW r \in Roots, NEW s \in Spans, enclosing[s] = r,
           \A t \in Spans : Parent[t] = r => ~Active(t)
    PROVE  ~Active(s)
<1> DEFINE Bad == {t \in Spans : Active(t) /\ enclosing[t] = r}
<1> SUFFICES ASSUME Bad # {} PROVE FALSE
  OBVIOUS
<1>1. PICK t \in Bad : Parent[t] \notin Bad
  BY SpanAssumption
<1>2. Parent[t] \in Spans /\ life[Parent[t]] = "running"
  BY <1>1, EnclosingUnfolds, TreeTypes, SpanAssumption DEF SpansNest
<1>3. enclosing[t] = IF Parent[t] \in Roots THEN Parent[t] ELSE enclosing[Parent[t]]
  BY <1>1, <1>2, EnclosingUnfolds, SpanAssumption
<1> QED BY <1>1, <1>2, <1>3 DEF Active

(* What a root takes from the pending steps of a plain trace are the steps *)
(* that ended in it, and they leave no others behind.                      *)
LEMMA TakesItsOwn ==
    ASSUME TypeOK, WholeInv, NEW r \in Roots, TakeSteps(r),
           Plain(trace[r])
    PROVE  /\ recording => pending[trace[r]] = StepsOf(r)
           /\ \A s \in Steps : /\ enclosing[s] # "none" /\ trace[s] = trace[r]
                               /\ life[enclosing[s]] = "running"
                               => enclosing[s] = r
<1> USE TreeTypes
<1>1. life[r] = "running" /\ \A t \in Spans : Parent[t] = r => ~Active(t)
  BY DEF TakeSteps, Ends
<1>2. ASSUME NEW s \in Steps, enclosing[s] # "none", trace[s] = trace[r],
             life[enclosing[s]] = "running"
      PROVE  enclosing[s] = r
  <2> DEFINE q == enclosing[s]
  <2>1. q \in Roots /\ trace[q] = trace[r]
    BY <1>2
  <2>2. q = r \/ enclosing[q] = r \/ enclosing[r] = q
    BY <1>1, <1>2, <2>1 DEF WholeInv, SpansNest, Active
  <2>3. enclosing[q] # r
    BY <1>1, <1>2, <2>1, NothingInside DEF Active, WholeInv
  <2>4. enclosing[r] # q
    BY <1>2, <2>1 DEF Plain
  <2> QED BY <2>2, <2>3, <2>4
<1>3. ASSUME recording PROVE pending[trace[r]] = StepsOf(r)
  <2>1. pending[trace[r]] \subseteq Steps
    BY DEF TypeOK
  <2>2. ASSUME NEW s \in pending[trace[r]] PROVE s \in StepsOf(r)
    <3>1. s \in Steps /\ trace[s] = trace[r]
      BY <2>1 DEF WholeInv, PendingInv
    <3>2. enclosing[s] # "none"
      BY <3>1 DEF Plain
    <3>3. life[s] = "ended" /\ life[enclosing[s]] = "running"
      BY <3>1, <3>2 DEF WholeInv, PendingInv
    <3> QED BY <1>2, <3>1, <3>2, <3>3 DEF StepsOf
  <2>3. ASSUME NEW s \in StepsOf(r) PROVE s \in pending[trace[r]]
    <3>1. s \in Steps /\ enclosing[s] = r /\ life[s] = "ended" /\ enclosing[s] # "none"
      BY DEF StepsOf
    <3>2. trace[s] = trace[r]
      BY <3>1
    <3> QED BY <1>1, <1>3, <3>1, <3>2 DEF WholeInv, PendingInv
  <2> QED BY <2>2, <2>3
<1> QED BY <1>2, <1>3

(* The steps of an execution change only when one of them ends.            *)
LEMMA SameSteps ==
    ASSUME NEW r, \A s \in Steps : enclosing[s] = r =>
                      (life'[s] = "ended" <=> life[s] = "ended")
    PROVE  StepsOf(r)' = StepsOf(r)
BY DEF StepsOf

LEMMA WholeInit == Init => WholeInv
<1> SUFFICES ASSUME Init PROVE WholeInv
  OBVIOUS
<1>1. /\ \A s \in Spans : life[s] = "new" /\ pending[s] = {}
      /\ running /\ poolOpen /\ recording /\ executions = {}
      /\ view = "none" /\ viewed = NotRead
  BY DEF Init
<1> QED BY <1>1, TreeTypes
      DEF WholeInv, SpansNest, ProcessInv, PendingInv, BatchInv, RowsInv, ViewInv, Active

(* A span that begins is inside what is open, and nothing has ended in it. *)
LEMMA WholeBegin ==
    ASSUME TypeInv, WholeInv, NEW s \in Spans, Begin(s)
    PROVE  WholeInv'
<1> USE TreeTypes
<1>1. /\ life[s] = "new" /\ running
      /\ Parent[s] # "none" => life[Parent[s]] = "running"
      /\ \A t \in Spans : life'[t] = IF t = s THEN "running" ELSE life[t]
      /\ UNCHANGED <<process, tables, detail>>
  BY DEF Begin, TypeInv, TypeOK
<1>2. enclosing[s] # "none" => life[enclosing[s]] = "running"
  <2>1. CASE Parent[s] # "none" /\ Parent[s] \notin Roots
    BY <1>1, <2>1, EnclosingUnfolds, SpanAssumption, RunningAround
       DEF WholeInv, Active
  <2>2. CASE Parent[s] = "none" \/ Parent[s] \in Roots
    BY <1>1, <2>2, EnclosingUnfolds
  <2> QED BY <2>1, <2>2
<1>3. SpansNest'
  <2>1. \A t \in Spans : Active(t)' /\ Parent[t] # "none" => life'[Parent[t]] = "running"
    BY <1>1, SpanAssumption DEF WholeInv, SpansNest, Active
  <2>2. \A t \in Spans : life'[t] = "flushing" => t \in Roots
    BY <1>1 DEF WholeInv, SpansNest
  <2>3. \A t \in Spans : enclosing[t] # "none" /\ life'[t] # "new"
                            => life'[enclosing[t]] # "new"
    BY <1>1, <1>2 DEF WholeInv, SpansNest
  <2>4. \A q, r \in Roots : Active(q)' /\ Active(r)' /\ trace[q] = trace[r]
                            => q = r \/ enclosing[q] = r \/ enclosing[r] = q
    BY <1>1 DEF Begin, WholeInv, SpansNest, Active
  <2> QED BY <2>1, <2>2, <2>3, <2>4 DEF SpansNest
<1>4. \A r : StepsOf(r)' = StepsOf(r)
  BY <1>1, SameSteps
<1>5. PendingInv'
  <2>1. \A t \in Steps : enclosing[t] = s => life[t] = "new"
    BY <1>1, SpanAssumption DEF WholeInv, SpansNest
  <2>2. ASSUME NEW t \in Steps, enclosing[t] # "none"
        PROVE  (life'[t] = "ended" /\ life'[enclosing[t]] = "running")
               <=> (life[t] = "ended" /\ life[enclosing[t]] = "running")
    BY <1>1, <2>1, <2>2
  <2> QED BY <1>1, <2>2 DEF WholeInv, PendingInv, process
<1>6. ProcessInv' /\ BatchInv' /\ RowsInv' /\ ViewInv'
  BY <1>1, <1>4 DEF WholeInv, ProcessInv, BatchInv, RowsInv, ViewInv, process, tables, detail, TypeInv, TypeOK
<1> QED BY <1>3, <1>5, <1>6 DEF WholeInv

(* A span can end when nothing in it is open: the others stay as nested as *)
(* they were.                                                              *)
LEMMA SpansNestEnds ==
    ASSUME TypeOK, WholeInv, NEW s \in Spans, NEW to \in {"flushing", "ended"},
           Active(s), \A t \in Spans : Parent[t] = s => ~Active(t),
           to = "flushing" => s \in Roots /\ life[s] = "running",
           life' = [life EXCEPT ![s] = to]
    PROVE  SpansNest'
<1>1. \A t \in Spans : life'[t] = IF t = s THEN to ELSE life[t]
  BY DEF TypeOK
<1>2. \A t \in Spans : Active(t)' => Active(t)
  BY <1>1 DEF Active
<1>3. \A t \in Spans : Active(t)' /\ Parent[t] # "none" => life'[Parent[t]] = "running"
  BY <1>1, <1>2, SpanAssumption DEF WholeInv, SpansNest
<1>4. \A t \in Spans : life'[t] = "flushing" => t \in Roots
  BY <1>1 DEF WholeInv, SpansNest
<1>5. \A t \in Spans : enclosing[t] # "none" /\ life'[t] # "new"
                          => life'[enclosing[t]] # "new"
  BY <1>1, TreeTypes DEF WholeInv, SpansNest, Active
<1>6. \A q, r \in Roots : Active(q)' /\ Active(r)' /\ trace[q] = trace[r]
                          => q = r \/ enclosing[q] = r \/ enclosing[r] = q
  BY <1>2, TreeTypes DEF WholeInv, SpansNest
<1> QED BY <1>3, <1>4, <1>5, <1>6 DEF SpansNest

LEMMA WholeEndForeign ==
    ASSUME TypeOK, WholeInv, NEW s \in Spans, EndForeign(s)
    PROVE  WholeInv'
<1> USE TreeTypes
<1>1. /\ s \notin Roots /\ s \notin Steps /\ life[s] = "running" /\ running
      /\ life' = [life EXCEPT ![s] = "ended"]
      /\ \A t \in Spans : life'[t] = IF t = s THEN "ended" ELSE life[t]
      /\ UNCHANGED <<process, tables, detail>>
  BY DEF EndForeign, Ends, Roots, Steps, TypeOK
<1>2. SpansNest'
  BY <1>1, SpansNestEnds DEF EndForeign, Ends, Active
<1>3. \A r : StepsOf(r)' = StepsOf(r)
  BY <1>1, SameSteps
<1>4. PendingInv'
  BY <1>1 DEF WholeInv, PendingInv, process
<1>5. ProcessInv' /\ BatchInv' /\ RowsInv' /\ ViewInv'
  BY <1>1, <1>3 DEF WholeInv, ProcessInv, BatchInv, RowsInv, ViewInv, process, tables, detail, TypeOK
<1> QED BY <1>2, <1>4, <1>5 DEF WholeInv

(* A step ends in an execution that is running: none that is about to be   *)
(* written, stored or shown.                                               *)
LEMMA WholeBufferStep ==
    ASSUME TypeInv, WholeInv, NEW s \in Spans, BufferStep(s)
    PROVE  WholeInv'
<1> USE TreeTypes
<1>1. /\ s \notin Roots /\ s \in Steps /\ life[s] = "running" /\ running
      /\ life' = [life EXCEPT ![s] = "ended"]
      /\ \A t \in Spans : life'[t] = IF t = s THEN "ended" ELSE life[t]
      /\ UNCHANGED <<start, running, poolOpen, recording, batch>>
      /\ UNCHANGED <<tables, detail>>
  BY DEF BufferStep, Ends, TypeInv, TypeOK
<1>2. SpansNest'
  BY <1>1, SpansNestEnds DEF BufferStep, Ends, Active, TypeInv
<1>3. enclosing[s] # "none" => life[enclosing[s]] = "running"
  BY <1>1, RunningAround DEF WholeInv, Active
<1>4. \A r \in Roots : life[r] # "running" => StepsOf(r)' = StepsOf(r)
  BY <1>1, <1>3, SameSteps
<1>5. \A t \in Spans, u \in Steps :
          u \in pending'[t] <=> u \in pending[t] \/ (recording /\ t = trace[s] /\ u = s)
  BY <1>1 DEF BufferStep, TypeInv, TypeOK
<1>5a. \A t \in Spans : pending'[t] \subseteq Steps
  BY <1>1 DEF BufferStep, TypeInv, TypeOK
<1>6. PendingInv'
  <2>1. \A t \in Spans : \A u \in pending'[t] : trace[u] = t
    BY <1>5, <1>5a DEF WholeInv, PendingInv
  <2>2. ASSUME NEW u \in Steps, enclosing[u] # "none", Plain(trace[u])
        PROVE  u \in pending'[trace[u]] <=>
                  recording' /\ life'[u] = "ended" /\ life'[enclosing[u]] = "running"
    <3>1. CASE u = s
      BY <1>1, <1>3, <1>5, <2>2, <3>1 DEF WholeInv, PendingInv
    <3>2. CASE u # s
      <4>1. u \in pending'[trace[u]] <=> u \in pending[trace[u]]
        BY <1>5, <3>2
      <4>2. enclosing[u] # s
        BY <1>1, <2>2
      <4> QED BY <1>1, <2>2, <3>2, <4>1, <4>2 DEF WholeInv, PendingInv
    <3> QED BY <3>1, <3>2
  <2> QED BY <2>1, <2>2 DEF PendingInv
<1>7. ProcessInv'
  BY <1>1 DEF WholeInv, ProcessInv
<1>8. BatchInv' /\ RowsInv'
  BY <1>1, <1>4 DEF WholeInv, BatchInv, RowsInv, tables, TypeInv, TypeOK, EndedInv
<1>9. ViewInv'
  BY <1>1, <1>4 DEF WholeInv, ViewInv, tables, detail, TypeInv, TypeOK
<1> QED BY <1>2, <1>6, <1>7, <1>8, <1>9 DEF WholeInv

(* A root takes its own steps, and leaves none behind.                     *)
LEMMA WholeTakeSteps ==
    ASSUME TypeOK, WholeInv, NEW r \in Roots, TakeSteps(r)
    PROVE  WholeInv'
<1> USE TreeTypes
<1>1. /\ life[r] = "running" /\ running
      /\ life' = [life EXCEPT ![r] = "flushing"]
      /\ \A t \in Spans : life'[t] = IF t = r THEN "flushing" ELSE life[t]
      /\ \A t \in Spans : pending'[t] = IF t = trace[r] THEN {} ELSE pending[t]
      /\ \A q \in Roots : batch'[q] = IF q = r THEN pending[trace[r]] ELSE batch[q]
      /\ UNCHANGED <<running, poolOpen, recording>>
      /\ UNCHANGED <<tables, detail>>
  BY DEF TakeSteps, Ends, TypeOK
<1>2. SpansNest'
  BY <1>1, SpansNestEnds DEF TakeSteps, Ends, Active
<1>3. \A q : StepsOf(q)' = StepsOf(q)
  BY <1>1, SameSteps
<1>4. PendingInv'
  <2>1. \A t \in Spans : \A u \in pending'[t] : trace[u] = t
    BY <1>1 DEF WholeInv, PendingInv
  <2>2. ASSUME NEW u \in Steps, enclosing[u] # "none", Plain(trace[u])
        PROVE  u \in pending'[trace[u]] <=>
                  recording' /\ life'[u] = "ended" /\ life'[enclosing[u]] = "running"
    <3>1. CASE trace[u] = trace[r]
      <4>1. life'[enclosing[u]] # "running"
        BY <1>1, <2>2, <3>1, TakesItsOwn
      <4> QED BY <1>1, <3>1, <4>1
    <3>2. CASE trace[u] # trace[r]
      <4>1. enclosing[u] # r
        BY <2>2, <3>2
      <4>2. pending'[trace[u]] = pending[trace[u]]
        BY <1>1, <3>2
      <4> QED BY <1>1, <2>2, <4>1, <4>2 DEF WholeInv, PendingInv
    <3> QED BY <3>1, <3>2
  <2> QED BY <2>1, <2>2 DEF PendingInv
<1>5. ProcessInv'
  BY <1>1 DEF WholeInv, ProcessInv
<1>6. BatchInv'
  <2>1. Plain(trace[r]) => ~poolOpen \/ batch'[r] = StepsOf(r)
    BY <1>1, TakesItsOwn DEF WholeInv, ProcessInv
  <2> QED BY <1>1, <1>3, <2>1 DEF WholeInv, BatchInv
<1>7. RowsInv' /\ ViewInv'
  BY <1>1, <1>3 DEF WholeInv, RowsInv, ViewInv, tables, detail, TypeOK
<1> QED BY <1>2, <1>4, <1>5, <1>6, <1>7 DEF WholeInv

LEMMA WholeWriteAll ==
    ASSUME TypeOK, WholeInv, NEW r \in Roots, WriteAll(r)
    PROVE  WholeInv'
<1> USE TreeTypes
<1>1. /\ life[r] = "flushing" /\ running
      /\ life' = [life EXCEPT ![r] = "ended"]
      /\ \A t \in Spans : life'[t] = IF t = r THEN "ended" ELSE life[t]
      /\ \A q \in Roots : q # r => batch'[q] = batch[q]
      /\ UNCHANGED <<running, poolOpen, recording, pending, detail>>
  BY DEF WriteAll, TypeOK
<1>2. SpansNest'
  <2>1. \A t \in Spans : Parent[t] = r => ~Active(t)
    BY <1>1, SpanAssumption DEF WholeInv, SpansNest
  <2> QED BY <1>1, <2>1, SpansNestEnds DEF Active
<1>3. \A q : StepsOf(q)' = StepsOf(q)
  BY <1>1, SameSteps
<1>4. PendingInv'
  <2>1. ASSUME NEW u \in Steps, enclosing[u] # "none"
        PROVE  (life'[u] = "ended" /\ life'[enclosing[u]] = "running")
               <=> (life[u] = "ended" /\ life[enclosing[u]] = "running")
    BY <1>1, <2>1
  <2> QED BY <1>1, <2>1 DEF WholeInv, PendingInv
<1>5. ProcessInv' /\ BatchInv'
  BY <1>1, <1>3 DEF WholeInv, ProcessInv, BatchInv, Active
<1>6. RowsInv'
  <2>1. CASE UNCHANGED tables
    BY <1>3, <2>1 DEF WholeInv, RowsInv, tables
  <2>2. CASE /\ poolOpen /\ executions' = executions \cup {r}
             /\ steps' = [steps EXCEPT ![r] = batch[r]]
    <3>1. Plain(trace[r]) => batch[r] = StepsOf(r)
      BY <1>1, <2>2 DEF WholeInv, BatchInv
    <3>2. \A q \in Roots : steps'[q] = IF q = r THEN batch[r] ELSE steps[q]
      BY <2>2 DEF TypeOK
    <3> QED BY <1>3, <2>2, <3>1, <3>2 DEF WholeInv, RowsInv, TypeOK
  <2> QED BY <2>1, <2>2 DEF WriteAll, tables
<1>7. ViewInv'
  <2>1. view # "none" => view # r /\ view \in Roots /\ life[view] = "ended"
    BY <1>1 DEF WholeInv, ViewInv, TypeOK
  <2>2. view \in executions' => view \in executions \/ view = r
    BY DEF WriteAll, tables
  <2> QED BY <1>1, <1>3, <2>1, <2>2 DEF WholeInv, ViewInv, detail, TypeOK
<1> QED BY <1>2, <1>4, <1>5, <1>6, <1>7 DEF WholeInv

(* Nothing that is written outlives its process.                           *)
LEMMA WholeExit ==
    ASSUME TypeOK, WholeInv, Exit
    PROVE  WholeInv'
<1> USE TreeTypes
<1>1. /\ \A t \in Spans : life'[t] = IF Active(t) THEN "lost" ELSE life[t]
      /\ \A t \in Spans : pending'[t] = {}
      /\ running' = FALSE /\ poolOpen' = FALSE /\ recording' = FALSE
      /\ UNCHANGED <<tables, detail>>
  BY DEF Exit
<1>2. \A t \in Spans : ~Active(t)'
  BY <1>1 DEF Active
<1>3. \A t \in Spans : (life'[t] = "ended" <=> life[t] = "ended")
                       /\ (life'[t] = "new" <=> life[t] = "new")
  BY <1>1 DEF Active
<1>4. \A q : StepsOf(q)' = StepsOf(q)
  BY <1>3, SameSteps
<1>5. SpansNest'
  BY <1>2, <1>3 DEF WholeInv, SpansNest, Active
<1>6. PendingInv' /\ ProcessInv' /\ BatchInv'
  BY <1>1, <1>2 DEF PendingInv, ProcessInv, BatchInv, Active
<1>7. RowsInv' /\ ViewInv'
  BY <1>1, <1>3, <1>4 DEF WholeInv, RowsInv, ViewInv, tables, detail, TypeOK
<1> QED BY <1>5, <1>6, <1>7 DEF WholeInv

(* The rest leaves the spans alone.                                        *)
LEMMA WholeQuiet ==
    ASSUME WholeInv, UNCHANGED life
    PROVE  SpansNest' /\ \A r : StepsOf(r)' = StepsOf(r)
BY SameSteps DEF WholeInv, SpansNest, Active

(* The deferred calls: without a pool nothing is written any more, and the *)
(* recorder forgets what is pending only then.                             *)
LEMMA WholeProcess ==
    ASSUME TypeOK, WholeInv, ClosePool \/ Shutdown \/ Restart
    PROVE  WholeInv'
<1> USE TreeTypes
<1>1. UNCHANGED life /\ UNCHANGED batch /\ UNCHANGED tables /\ UNCHANGED detail
  BY DEF ClosePool, Shutdown, Restart
<1>2. SpansNest' /\ \A r : StepsOf(r)' = StepsOf(r)
  BY <1>1, WholeQuiet
<1>3. ProcessInv'
  BY <1>1 DEF WholeInv, ProcessInv, ClosePool, Shutdown, Restart, Active
<1>4. PendingInv'
  <2>1. CASE ClosePool
    BY <1>1, <2>1 DEF WholeInv, PendingInv, ClosePool
  <2>2. CASE Shutdown
    BY <1>1, <2>2 DEF WholeInv, PendingInv, Shutdown
  <2>3. CASE Restart
    <3>1. \A s \in Spans : ~Active(s)
      BY <2>3 DEF WholeInv, ProcessInv, Restart
    <3>2. \A s \in Steps : enclosing[s] # "none" => life[enclosing[s]] # "running"
      BY <3>1 DEF Active
    <3> QED BY <1>1, <2>3, <3>2 DEF WholeInv, PendingInv, Restart
  <2> QED BY <2>1, <2>2, <2>3
<1>5. BatchInv'
  <2>1. CASE poolOpen' => poolOpen
    BY <1>1, <1>2, <2>1 DEF WholeInv, BatchInv
  <2>2. CASE Restart
    <3>1. \A r \in Roots : life[r] # "flushing"
      BY <2>2 DEF WholeInv, ProcessInv, Restart, Active
    <3> QED BY <1>1, <3>1 DEF BatchInv
  <2> QED BY <2>1, <2>2 DEF ClosePool, Shutdown
<1>6. RowsInv' /\ ViewInv'
  BY <1>1, <1>2 DEF WholeInv, RowsInv, ViewInv, tables, detail, TypeOK
<1> QED BY <1>2, <1>3, <1>4, <1>5, <1>6 DEF WholeInv

(* The cleanup takes the steps of what it deletes, and of nothing else.    *)
LEMMA WholeCleanup ==
    ASSUME TypeOK, WholeInv, Cleanup
    PROVE  WholeInv'
<1> USE TreeTypes
<1>1. UNCHANGED life /\ UNCHANGED process /\ UNCHANGED detail
  BY DEF Cleanup
<1>2. SpansNest' /\ \A r : StepsOf(r)' = StepsOf(r)
  BY <1>1, WholeQuiet
<1>3. /\ executions' \in SUBSET executions
      /\ \A r \in executions' : steps'[r] = steps[r]
  BY DEF Cleanup, TypeOK
<1>4. ProcessInv' /\ PendingInv' /\ BatchInv'
  BY <1>1, <1>2 DEF WholeInv, ProcessInv, PendingInv, BatchInv, process, Active
<1>5. RowsInv' /\ ViewInv'
  BY <1>1, <1>2, <1>3 DEF WholeInv, RowsInv, ViewInv, detail, TypeOK
<1> QED BY <1>2, <1>4, <1>5 DEF WholeInv

(* A page that reads the row and then the steps reads them whole: what has *)
(* ended gets no more steps.                                               *)
LEMMA WholePages ==
    ASSUME TypeInv, WholeInv,
           \/ \E l \in Limits : ShowPage(l)
           \/ \E r \in Roots : ReadExecution(r)
           \/ ReadSteps \/ LeavePage \/ UNCHANGED vars
    PROVE  WholeInv'
<1> USE TreeTypes
<1>1. UNCHANGED life /\ UNCHANGED process /\ UNCHANGED tables
  BY DEF ShowPage, ReadExecution, ReadSteps, LeavePage, vars
<1>2. SpansNest' /\ \A r : StepsOf(r)' = StepsOf(r)
  BY <1>1, WholeQuiet
<1>3. ProcessInv' /\ PendingInv' /\ BatchInv' /\ RowsInv'
  BY <1>1, <1>2
     DEF WholeInv, ProcessInv, PendingInv, BatchInv, RowsInv, process, tables, Active
<1>4. ViewInv'
  <2>1. CASE UNCHANGED detail
    BY <1>1, <1>2, <2>1 DEF WholeInv, ViewInv, tables, detail
  <2>2. ASSUME NEW r \in Roots, ReadExecution(r) PROVE ViewInv'
    <3>1. view = "none" /\ view' = r /\ viewed' = viewed /\ life'[r] = "ended"
      BY <1>1, <2>2 DEF ReadExecution, TypeInv, EndedInv
    <3> QED BY <3>1 DEF WholeInv, ViewInv
  <2>3. CASE ReadSteps
    <3>1. view # "none" /\ view' = view /\ viewed' = steps[view]
      BY <2>3 DEF ReadSteps
    <3>2. view \in executions /\ Plain(trace[view]) => steps[view] = StepsOf(view)
      BY DEF WholeInv, RowsInv
    <3> QED BY <1>1, <1>2, <3>1, <3>2 DEF WholeInv, ViewInv, tables
  <2>4. CASE LeavePage
    BY <2>4 DEF LeavePage, ViewInv
  <2> QED BY <2>1, <2>2, <2>3, <2>4 DEF ShowPage, vars
<1> QED BY <1>2, <1>3, <1>4 DEF WholeInv

LEMMA WholeStep == TypeInv /\ WholeInv /\ [Next]_vars => WholeInv'
<1> SUFFICES ASSUME TypeInv, WholeInv, [Next]_vars PROVE WholeInv'
  OBVIOUS
<1>1. TypeOK
  BY DEF TypeInv
<1>2. CASE \E s \in Spans : Begin(s) \/ EndForeign(s) \/ BufferStep(s)
  BY <1>1, <1>2, WholeBegin, WholeEndForeign, WholeBufferStep
<1>3. CASE \E r \in Roots : TakeSteps(r) \/ WriteAll(r)
  BY <1>1, <1>3, WholeTakeSteps, WholeWriteAll
<1>4. CASE ClosePool \/ Shutdown \/ Restart
  BY <1>1, <1>4, WholeProcess
<1>5. CASE Exit
  BY <1>1, <1>5, WholeExit
<1>6. CASE Cleanup
  BY <1>1, <1>6, WholeCleanup
<1>7. CASE \/ \E l \in Limits : ShowPage(l)
           \/ \E r \in Roots : ReadExecution(r)
           \/ ReadSteps \/ LeavePage \/ UNCHANGED vars
  BY <1>7, WholePages
<1> QED BY <1>2, <1>3, <1>4, <1>5, <1>6, <1>7 DEF Next

(* A step goes from the recorder to a batch, and from there to a row.      *)
LEMMA KeptStep == TypeOK /\ KeptInv /\ [Next]_vars => KeptInv'
<1> SUFFICES ASSUME TypeOK, KeptInv, [Next]_vars PROVE KeptInv'
  OBVIOUS
<1> USE TreeTypes
<1>0. TypeOK /\ KeptInv
  OBVIOUS
<1>1. ASSUME NEW s \in Spans, BufferStep(s) PROVE KeptInv'
  <2>1. /\ s \in Steps /\ life[s] = "running"
        /\ \A t \in Spans : life'[t] = IF t = s THEN "ended" ELSE life[t]
        /\ \A t \in Spans : pending'[t] \in
              {pending[t], IF t = trace[s] THEN pending[t] \cup {s} ELSE pending[t]}
        /\ \A r \in Roots : Kept(r)' = Kept(r)
    BY <1>1 DEF BufferStep, Ends, Kept, tables, TypeOK
  <2>2. \A t \in Spans : \A u \in pending[t] : life'[u] = "ended" /\ u # s
    BY <2>1 DEF KeptInv, TypeOK
  <2>3. \A r \in Roots : \A u \in Kept(r) : u # s /\ u \in Spans /\ life'[u] = "ended"
    BY <2>1 DEF KeptInv, Kept, TypeOK
  <2> QED BY <2>1, <2>2, <2>3 DEF KeptInv
<1>2. ASSUME NEW r \in Roots, TakeSteps(r) PROVE KeptInv'
  <2>1. /\ \A u \in Spans : life[u] = "ended" => life'[u] = "ended"
        /\ \A t \in Spans : pending'[t] = IF t = trace[r] THEN {} ELSE pending[t]
        /\ \A q \in Roots : Kept(q)' = IF q = r THEN pending[trace[r]] \cup steps[r]
                                        ELSE Kept(q)
    BY <1>2 DEF TakeSteps, Ends, Kept, tables, TypeOK
  <2>2. \A q \in Roots : Kept(q) \subseteq Spans
    BY DEF Kept, TypeOK
  <2>3. \A t \in Spans : pending[t] \subseteq Spans
    BY DEF TypeOK
  <2>4. \A q \in Roots \ {r} : pending[trace[r]] \cap Kept(q) = {}
    <3> SUFFICES ASSUME NEW q \in Roots \ {r}, NEW u \in pending[trace[r]], u \in Kept(q)
                 PROVE  FALSE
      OBVIOUS
    <3> QED BY DEF KeptInv
  <2>5. steps[r] \subseteq Kept(r)
    BY DEF Kept
  <2>6. \A t \in Spans : \A u \in pending'[t] : trace[u] = t /\ life'[u] = "ended"
    BY <2>1, <2>3 DEF KeptInv
  <2>7. \A q \in Roots : \A u \in Kept(q)' :
           trace[u] = trace[q] /\ life'[u] = "ended" /\ u \notin pending'[trace[q]]
    BY <2>1, <2>2, <2>3, <2>5 DEF KeptInv
  <2>8. \A p, q \in Roots : p # q => Kept(p)' \cap Kept(q)' = {}
    BY <2>1, <2>4, <2>5 DEF KeptInv
  <2> QED BY <2>6, <2>7, <2>8 DEF KeptInv
<1>3. ASSUME \A u \in Spans : life[u] = "ended" => life'[u] = "ended",
             \A t \in Spans : pending'[t] \subseteq pending[t],
             \A r \in Roots : Kept(r)' \subseteq Kept(r)
      PROVE  KeptInv'
  <2>1. \A t \in Spans : pending[t] \subseteq Spans
    BY DEF TypeOK
  <2>2. \A r \in Roots : Kept(r) \subseteq Spans
    BY DEF Kept, TypeOK
  <2>3. \A t \in Spans : \A s \in pending'[t] : trace[s] = t /\ life'[s] = "ended"
    BY <1>3, <2>1 DEF KeptInv
  <2>4. \A r \in Roots : \A s \in Kept(r)' :
           trace[s] = trace[r] /\ life'[s] = "ended" /\ s \notin pending'[trace[r]]
    BY <1>3, <2>2 DEF KeptInv
  <2>5. \A q, r \in Roots : q # r => Kept(q)' \cap Kept(r)' = {}
    BY <1>3 DEF KeptInv
  <2> QED BY <2>3, <2>4, <2>5 DEF KeptInv
<1>4. ASSUME NEW s \in Spans, Begin(s) \/ EndForeign(s) PROVE KeptInv'
  BY <1>3, <1>4 DEF Begin, EndForeign, Ends, Kept, process, tables, TypeOK
<1>5. ASSUME NEW r \in Roots, WriteAll(r) PROVE KeptInv'
  <2>1. /\ \A u \in Spans : life[u] = "ended" => life'[u] = "ended"
        /\ pending' = pending
        /\ batch' = [batch EXCEPT ![r] = {}]
        /\ steps' \in {steps, [steps EXCEPT ![r] = batch[r]]}
    BY <1>5 DEF WriteAll, tables, TypeOK
  <2>2. \A q \in Roots : Kept(q)' \subseteq Kept(q)
    BY <2>1 DEF Kept, TypeOK
  <2> QED BY <1>3, <2>1, <2>2
<1>6. CASE ClosePool \/ Shutdown \/ Restart
  BY <1>3, <1>6 DEF ClosePool, Shutdown, Restart, Kept, tables
<1>7. CASE Exit
  <2>1. \A u \in Spans : life[u] = "ended" => life'[u] = "ended"
    BY <1>7 DEF Exit, Active
  <2>2. \A t \in Spans : pending'[t] = {}
    BY <1>7 DEF Exit
  <2>3. \A r \in Roots : Kept(r)' \subseteq Kept(r)
    BY <1>7 DEF Exit, Kept, tables
  <2> QED BY <1>3, <2>1, <2>2, <2>3
<1>8. CASE Cleanup
  <2>1. \A r \in Roots : steps'[r] \subseteq steps[r]
    BY <1>8 DEF Cleanup
  <2>2. \A r \in Roots : Kept(r)' \subseteq Kept(r)
    BY <1>8, <2>1 DEF Cleanup, Kept, process
  <2> QED BY <1>3, <1>8, <2>2 DEF Cleanup, process
<1>9. CASE \/ \E l \in Limits : ShowPage(l)
           \/ \E r \in Roots : ReadExecution(r)
           \/ ReadSteps \/ LeavePage \/ UNCHANGED vars
  <2>1. UNCHANGED life /\ UNCHANGED process /\ UNCHANGED tables
    BY <1>9 DEF ShowPage, ReadExecution, ReadSteps, LeavePage, vars
  <2> QED BY <1>3, <2>1 DEF Kept, process, tables
<1> QED BY <1>1, <1>2, <1>4, <1>5, <1>6, <1>7, <1>8, <1>9 DEF Next

(* "we never surface a partial execution", where it holds: in every plain  *)
(* trace, whatever order its spans end in, however the process stops, and  *)
(* whatever the cleanup takes from under a page that is being read.  In    *)
(* the other traces, that of `darek blog publish`, the executions still    *)
(* share no step and have none of another trace.                           *)
THEOREM ExecutionsAreWhole == Spec => []WholeExecutions
<1>1. Init => KeptInv
  BY TreeTypes DEF Init, KeptInv, Kept
<1>2. TypeInv /\ WholeInv => PlainAreWhole
  BY DEF WholeInv, RowsInv, ViewInv, PlainAreWhole
<1>3. TypeInv /\ KeptInv => SavedOnce
  <2> SUFFICES ASSUME TypeOK, KeptInv PROVE SavedOnce
    BY DEF TypeInv
  <2>1. \A r \in Roots : steps[r] \subseteq Kept(r)
    BY DEF Kept
  <2>2. executions \subseteq Roots
    BY DEF TypeOK
  <2> QED BY <2>1, <2>2 DEF KeptInv, SavedOnce
<1>4. TypeInv => TypeOK
  BY DEF TypeInv
<1> QED
  BY <1>1, <1>2, <1>3, <1>4, TypeInit, TypeStep, WholeInit, WholeStep, KeptStep, PTL
     DEF Spec, WholeExecutions

-----------------------------------------------------------------------------
(* Paging. *)

(* A page leaves out of what its link leads past nothing but what started  *)
(* before the link, and the last page leaves out nothing.                  *)
LEMMA PagingShowPage ==
    ASSUME TypeInv, PagingInv, NEW l \in Limits, ShowPage(l)
    PROVE  PagingInv'
<1> DEFINE cursor == IF walking THEN before ELSE 0
           rows   == List(cursor, l)
           all    == {r \in executions : cursor # 0 => start[r] < cursor}
           next   == NextBefore(rows, l)
<1>1. cursor \in Nat
  BY DEF TypeInv, TypeOK
<1>2. /\ rows \in SUBSET all
      /\ next \in 0 .. Cardinality(Roots)
      /\ next = 0 => rows = all
      /\ next # 0 => \A r \in all \ rows : start[r] < next
  BY <1>1, PageFacts DEF TypeInv
<1>3. /\ due' = IF walking THEN due ELSE executions
      /\ shown' = rows \cup IF walking THEN shown ELSE {}
      /\ before' = next /\ walking' = (next # 0) /\ start' = start
  BY DEF ShowPage
<1> HIDE DEF rows, next
<1>4. \A r \in due' \ shown' : r \in all \ rows
  <2> SUFFICES ASSUME NEW r \in due', r \notin shown' PROVE r \in all /\ r \notin rows
    OBVIOUS
  <2>1. r \in executions /\ r \notin rows
    BY <1>3 DEF TypeInv, TypeOK
  <2>2. walking => start[r] < before
    BY <1>3 DEF PagingInv
  <2> QED BY <2>1, <2>2
<1> HIDE DEF all
<1> QED BY <1>2, <1>3, <1>4 DEF PagingInv

LEMMA PagingStep == TypeInv /\ PagingInv /\ [Next]_vars => PagingInv'
<1> SUFFICES ASSUME TypeInv, PagingInv, [Next]_vars PROVE PagingInv'
  OBVIOUS
<1>1. ASSUME NEW s \in Spans, Begin(s) PROVE PagingInv'
  <2>1. \A r \in due : r \in Roots /\ life[r] = "ended"
    BY DEF TypeInv, TypeOK, EndedInv
  <2>2. life[s] = "new" /\ UNCHANGED walk
    BY <1>1 DEF Begin
  <2>3. \A r \in due : start'[r] = start[r]
    BY <1>1, <2>1, <2>2 DEF Begin, TypeInv, TypeOK
  <2> QED BY <2>2, <2>3 DEF PagingInv, walk
<1>2. CASE Cleanup
  BY <1>2 DEF Cleanup, PagingInv
<1>3. ASSUME NEW l \in Limits, ShowPage(l) PROVE PagingInv'
  BY <1>3, PagingShowPage
<1>4. CASE UNCHANGED walk /\ UNCHANGED start
  BY <1>4 DEF walk, PagingInv
<1>5. \/ \E s \in Spans : Begin(s)
      \/ Cleanup
      \/ \E l \in Limits : ShowPage(l)
      \/ UNCHANGED walk /\ UNCHANGED start
  BY DEF Next, EndForeign, BufferStep, TakeSteps, WriteAll, ClosePool, Shutdown,
         Exit, Restart, ReadExecution, ReadSteps, LeavePage, vars
<1> QED BY <1>1, <1>2, <1>3, <1>4, <1>5

(* Who follows the links to older rows to their end has seen what was      *)
(* there all the time, although other executions start and are deleted     *)
(* between the pages.                                                      *)
THEOREM NoPageSkips == Spec => []PagingComplete
<1>1. Init => PagingInv
  BY DEF Init, PagingInv
<1>2. PagingInv => PagingComplete
  BY DEF PagingInv, PagingComplete
<1> QED BY <1>1, <1>2, TypeInit, TypeStep, PagingStep, PTL DEF Spec

-----------------------------------------------------------------------------
(* The waterfall.                                                          *)

(* What integer division by a positive number gives.                       *)
LEMMA Division ==
    ASSUME NEW a \in Int, NEW b \in Int, b > 0
    PROVE  /\ a \div b \in Int
           /\ b * (a \div b) <= a /\ a < b * (a \div b) + b
OBVIOUS

(* Every bar lies on the scale, whatever the clocks say.                   *)
THEOREM BarsOnScale ==
    ASSUME NEW offsetMS \in Int, NEW durationMS \in Int, NEW totalMS \in Int
    PROVE  LET offset == OffsetPct(offsetMS, totalMS)
               width  == WidthPct(offsetMS, durationMS, totalMS)
           IN  /\ offset \in 0 .. 1000 /\ width \in 0 .. 1000
               /\ offset + width <= 1000
<1> DEFINE from == AtLeast(offsetMS, 0) * 1000
           at   == from \div totalMS
           size == (durationMS * 1000) \div totalMS
<1>1. CASE totalMS > 0
  <2>1. from \in Int /\ from >= 0
    BY DEF AtLeast
  <2>2. at \in Int /\ from < totalMS * at + totalMS
    BY <1>1, <2>1, Division
  <2>3. at >= 0
    <3>1. SUFFICES ASSUME at <= -1 PROVE FALSE
      BY <2>2
    <3>2. totalMS * at <= -totalMS
      BY <1>1, <2>2, <3>1
    <3> QED BY <2>1, <2>2, <3>2
  <2>4. size \in Int
    BY <1>1, Division
  <2> HIDE DEF from, at, size
  <2>5. OffsetPct(offsetMS, totalMS) = AtMost(at, 1000)
    BY <1>1 DEF OffsetPct, at, from
  <2>6. WidthPct(offsetMS, durationMS, totalMS)
          = AtLeast(AtMost(size, 1000 - AtMost(at, 1000)), 0)
    BY <1>1, <2>5 DEF WidthPct, size
  <2> QED BY <2>3, <2>2, <2>4, <2>5, <2>6 DEF AtMost, AtLeast
<1>2. CASE ~(totalMS > 0)
  BY <1>2 DEF OffsetPct, WidthPct
<1> QED BY <1>1, <1>2

(* The bars of the list lie on the scale of its longest row.               *)
THEOREM RowsOnScale ==
    ASSUME NEW durationMS \in Nat, NEW max \in Nat, durationMS <= max
    PROVE  RowPct(durationMS, max) \in 0 .. 1000
<1> DEFINE q == (durationMS * 1000) \div max
<1>1. CASE max > 0
  <2>1. /\ q \in Int /\ max * q <= durationMS * 1000
        /\ durationMS * 1000 < max * q + max
    BY <1>1, Division
  <2>2. q >= 0
    <3>1. SUFFICES ASSUME q <= -1 PROVE FALSE
      BY <2>1
    <3>2. max * q <= -max
      BY <1>1, <2>1, <3>1
    <3> QED BY <2>1, <3>2
  <2>3. q <= 1000
    <3>1. SUFFICES ASSUME q >= 1001 PROVE FALSE
      BY <2>1
    <3>2. max * q >= max * 1001
      BY <1>1, <2>1, <3>1
    <3> QED BY <1>1, <2>1, <3>2
  <2> QED BY <1>1, <2>1, <2>2, <2>3 DEF RowPct
<1>2. CASE max = 0
  BY <1>2 DEF RowPct
<1> QED BY <1>1, <1>2
=============================================================================
