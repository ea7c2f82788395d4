------------------------ MODULE MissionTimeline_proofs ------------------------
(***************************************************************************)
(* Theorems about MissionTimeline, for any missions, any number of rows    *)
(* and of broken connections, any heartbeat interval and any wire.         *)
(***************************************************************************)
EXTENDS MissionTimeline, SequenceTheorems, WellFoundedInduction, TLAPS

(***************************************************************************)
(* A set of natural numbers that is not empty has a least member: what     *)
(* inductions below use, on the set of counterexamples.                    *)
(***************************************************************************)
LEMMA LeastNumber ==
  ASSUME NEW T, T \subseteq Nat, T # {}
  PROVE  \E x \in T : \A y \in T : x <= y
<1>1. \E x \in T : \A y \in T : ~ (<<y, x>> \in OpToRel(<, Nat))
  BY NatLessThanWellFounded, WFMin, Zenon
<1>2. \A x, y \in T : ~ (<<y, x>> \in OpToRel(<, Nat)) => x <= y
  BY DEF OpToRel
<1> QED BY <1>1, <1>2

(***************************************************************************)
(* InTableOrder: the recursive function it is read from exists, and lists  *)
(* at each n the members of S up to n, each once, in order.                *)
(***************************************************************************)
Lists(g, S, k) ==
  g = [n \in 0..k |->
         IF n = 0 THEN <<>>
         ELSE IF n \in S THEN Append(g[n - 1], n)
         ELSE g[n - 1]]

LEMMA ListExists ==
  ASSUME NEW S, NEW k \in Nat
  PROVE  \E g : Lists(g, S, k)
<1> DEFINE Bad == {n \in Nat : ~ \E g : Lists(g, S, n)}
<1>1. ASSUME Bad # {} PROVE FALSE
  <2>1. PICK b \in Bad : \A n \in Bad : b <= n
    <3> HIDE DEF Bad
    <3>1. Bad \subseteq Nat BY DEF Bad
    <3> QED BY <1>1, <3>1, LeastNumber
  <2>2. CASE b = 0
    <3> DEFINE g == [n \in 0..0 |-> <<>>]
    <3>1. Lists(g, S, 0)
      BY DEF Lists
    <3> QED BY <2>2, <3>1
  <2>3. CASE b # 0
    <3>1. b - 1 \in Nat /\ b - 1 \notin Bad
      BY <2>1, <2>3
    <3>2. PICK g : Lists(g, S, b - 1)
      BY <3>1
    <3> DEFINE last == IF b \in S THEN Append(g[b - 1], b) ELSE g[b - 1]
               h == [n \in 0..b |-> IF n = b THEN last ELSE g[n]]
    <3>3. \A n \in 0..b : n # b => n \in 0..(b - 1)
      BY <3>1
    <3>4. \A n \in 0..b : n # 0 => n - 1 \in 0..(b - 1) /\ h[n - 1] = g[n - 1]
      BY <3>1
    <3>5. \A n \in 0..(b - 1) :
            g[n] = IF n = 0 THEN <<>> ELSE IF n \in S THEN Append(g[n - 1], n) ELSE g[n - 1]
      BY <3>2, <3>1 DEF Lists
    <3>6. \A n \in 0..b :
            h[n] = IF n = 0 THEN <<>> ELSE IF n \in S THEN Append(h[n - 1], n) ELSE h[n - 1]
      BY <3>3, <3>4, <3>5, <2>3
    <3>7. Lists(h, S, b)
      <4> HIDE DEF last
      <4>1. h = [n \in 0..b |-> h[n]]
        OBVIOUS
      <4> HIDE DEF h
      <4> QED BY <4>1, <3>6 DEF Lists
    <3> QED BY <3>7, <2>1
  <2> QED BY <2>2, <2>3
<1> QED BY <1>1

Increasing(s) == \A a, b \in 1..Len(s) : a < b => s[a] < s[b]

ListsMembers(s, S, n) ==
  /\ s \in Seq(S \cap (1..n))
  /\ \A x \in S \cap (1..n) : \E j \in 1..Len(s) : s[j] = x
  /\ Increasing(s)

LEMMA AppendListsMembers ==
  ASSUME NEW S, NEW b \in Nat \ {0}, NEW s, ListsMembers(s, S, b - 1), b \in S
  PROVE  ListsMembers(Append(s, b), S, b)
<1> DEFINE T == S \cap (1..b)
           t == Append(s, b)
<1>1. S \cap (1..(b - 1)) \subseteq T /\ b \in T /\ T = (S \cap (1..(b - 1))) \cup {b}
  OBVIOUS
<1>2. s \in Seq(T)
  <2>1. \A A, B : A \subseteq B => Seq(A) \subseteq Seq(B)
    BY SeqDef
  <2> HIDE DEF T
  <2> QED BY <1>1, <2>1 DEF ListsMembers
<1>3. \A j \in 1..Len(s) : s[j] \in 1..(b - 1)
  BY DEF ListsMembers
<1>4. /\ t \in Seq(T) /\ Len(s) \in Nat /\ Len(t) = Len(s) + 1 /\ t[Len(s) + 1] = b
      /\ \A j \in 1..Len(s) : t[j] = s[j]
  <2> HIDE DEF T
  <2> QED BY <1>1, <1>2
<1> HIDE DEF t
<1>5. \A x \in T : \E j \in 1..Len(t) : t[j] = x
  <2>1. ASSUME NEW x \in S \cap (1..(b - 1)) PROVE \E j \in 1..Len(t) : t[j] = x
    <3>1. PICK j \in 1..Len(s) : s[j] = x
      BY DEF ListsMembers
    <3> QED BY <3>1, <1>4
  <2>2. Len(s) + 1 \in 1..Len(t)
    BY <1>4
  <2> HIDE DEF T
  <2> QED BY <1>1, <1>4, <2>1, <2>2
<1>6. Increasing(t)
  <2>1. SUFFICES ASSUME NEW i \in 1..Len(t), NEW j \in 1..Len(t), i < j PROVE t[i] < t[j]
    BY DEF Increasing
  <2>2. i \in 1..Len(s) /\ t[i] = s[i]
    BY <1>4, <2>1
  <2>3. CASE j \in 1..Len(s)
    BY <1>4, <2>1, <2>2, <2>3 DEF ListsMembers, Increasing
  <2>4. CASE j = Len(s) + 1
    BY <1>3, <1>4, <2>2, <2>4
  <2> QED BY <1>4, <2>3, <2>4
<1> QED BY <1>4, <1>5, <1>6 DEF ListsMembers, t

LEMMA ListIsInOrder ==
  ASSUME NEW S, NEW k \in Nat, NEW g, Lists(g, S, k), NEW n \in 0..k
  PROVE  ListsMembers(g[n], S, n)
<1> DEFINE Bad == {m \in 0..k : ~ ListsMembers(g[m], S, m)}
<1>1. \A m \in 0..k :
        g[m] = IF m = 0 THEN <<>> ELSE IF m \in S THEN Append(g[m - 1], m) ELSE g[m - 1]
  BY DEF Lists
<1>2. ASSUME Bad # {} PROVE FALSE
  <2>1. PICK b \in Bad : \A m \in Bad : b <= m
    <3>1. Bad \subseteq Nat OBVIOUS
    <3> HIDE DEF Bad
    <3> QED BY <1>2, <3>1, LeastNumber
  <2>2. CASE b = 0
    <3>1. g[0] = <<>>
      BY <1>1
    <3>2. ListsMembers(<<>>, S, 0)
      BY DEF ListsMembers, Increasing
    <3> QED BY <2>1, <2>2, <3>1, <3>2
  <2>3. CASE b # 0
    <3>1. b \in Nat \ {0} /\ b - 1 \in 0..k /\ b - 1 \notin Bad
      BY <2>1, <2>3
    <3>2. ListsMembers(g[b - 1], S, b - 1)
      BY <3>1
    <3>3. g[b] = IF b \in S THEN Append(g[b - 1], b) ELSE g[b - 1]
      BY <1>1, <2>1, <2>3
    <3>4. CASE b \in S
      BY <2>1, <3>1, <3>2, <3>3, <3>4, AppendListsMembers
    <3>5. CASE b \notin S
      <4>1. S \cap (1..b) = S \cap (1..(b - 1))
        BY <3>1, <3>5
      <4> QED BY <2>1, <3>2, <3>3, <3>5, <4>1 DEF ListsMembers
    <3> QED BY <3>4, <3>5
  <2> QED BY <2>2, <2>3
<1> QED BY <1>2

LEMMA InTableOrderLists ==
  ASSUME log \in Seq(Missions), NEW S, S \subseteq Rows
  PROVE  /\ InTableOrder(S) \in Seq(S)
         /\ \A x \in S : \E j \in 1..Len(InTableOrder(S)) : InTableOrder(S)[j] = x
         /\ Increasing(InTableOrder(S))
<1> DEFINE k == Len(log)
           upTo == CHOOSE g : Lists(g, S, k)
<1>1. k \in Nat
  OBVIOUS
<1>2. InTableOrder(S) = upTo[k]
  BY DEF InTableOrder, Lists
<1>3. Lists(upTo, S, k)
  BY <1>1, ListExists
<1> HIDE DEF upTo
<1>4. ListsMembers(upTo[k], S, k)
  <2>1. k \in 0..k
    BY <1>1
  <2> HIDE DEF k
  <2> QED BY <1>1, <1>3, <2>1, ListIsInOrder
<1>5. S \cap (1..k) = S
  BY DEF Rows
<1> QED BY <1>2, <1>4, <1>5 DEF ListsMembers

(***************************************************************************)
(* What a poll reads after a cursor: the rows of the mission beyond it,    *)
(* each once, in order; and where that moves the cursor.                   *)
(***************************************************************************)
LEMMA RowsAfterReads ==
  ASSUME log \in Seq(Missions), NEW c \in Rows \cup {0}
  PROVE  /\ RowsAfter(c) \in Seq({i \in Rows : log[i] = Watched /\ i > c})
         /\ \A i \in Rows : log[i] = Watched /\ i > c =>
              \E j \in 1..Len(RowsAfter(c)) : RowsAfter(c)[j] = i
         /\ Increasing(RowsAfter(c))
<1> DEFINE S == {i \in Rows : log[i] = Watched /\ i > c}
<1>1. S \subseteq Rows /\ RowsAfter(c) = InTableOrder(S)
  BY DEF RowsAfter
<1>2. \A i \in Rows : log[i] = Watched /\ i > c <=> i \in S
  OBVIOUS
<1> HIDE DEF S
<1>3. /\ InTableOrder(S) \in Seq(S)
      /\ \A x \in S : \E j \in 1..Len(InTableOrder(S)) : InTableOrder(S)[j] = x
      /\ Increasing(InTableOrder(S))
  BY <1>1, InTableOrderLists
<1>4. RowsAfter(c) \in Seq(S)
  BY <1>1, <1>3
<1> QED BY <1>1, <1>2, <1>3, <1>4 DEF S

LEMMA DeliverEventsMoves ==
  ASSUME log \in Seq(Missions), NEW c \in Rows \cup {0}
  PROVE  /\ DeliverEvents(c) \in Rows \cup {0}
         /\ c <= DeliverEvents(c)
         /\ \A j \in 1..Len(RowsAfter(c)) : RowsAfter(c)[j] <= DeliverEvents(c)
         /\ \A i \in Rows : log[i] = Watched /\ i > c => i <= DeliverEvents(c)
<1> DEFINE e == RowsAfter(c)
           S == {i \in Rows : log[i] = Watched /\ i > c}
<1>0. c \in Int /\ Rows \subseteq Int
  BY DEF Rows
<1>1. e \in Seq(S) /\ \A i \in S : \E j \in 1..Len(e) : e[j] = i
  BY RowsAfterReads
<1>2. \A a, b \in 1..Len(e) : a < b => e[a] < e[b]
  BY RowsAfterReads DEF Increasing
<1>3. DeliverEvents(c) = IF e = <<>> THEN c ELSE e[Len(e)]
  BY DEF DeliverEvents
<1>4. \A x \in S : x \in Rows /\ x \in Int /\ x > c
  BY <1>0
<1>5. \A i \in Rows : log[i] = Watched /\ i > c => i \in S
  OBVIOUS
<1> HIDE DEF e, S
<1>6. CASE e = <<>>
  <2>1. DeliverEvents(c) = c /\ Len(e) = 0 /\ S = {}
    BY <1>1, <1>3, <1>6
  <2>2. \A j \in 1..Len(e) : FALSE
    BY <2>1
  <2> QED BY <1>0, <1>5, <2>1, <2>2 DEF e
<1>7. CASE e # <<>>
  <2>1. Len(e) \in 1..Len(e) /\ DeliverEvents(c) = e[Len(e)]
    BY <1>1, <1>3, <1>7
  <2>2. \A j \in 1..Len(e) : e[j] \in S
    BY <1>1
  <2>3. \A j \in 1..Len(e) : e[j] <= e[Len(e)]
    <3>1. ASSUME NEW j \in 1..Len(e) PROVE e[j] <= e[Len(e)]
      <4>0. Len(e) \in Nat
        BY <1>1
      <4>1. e[j] \in Int /\ (j = Len(e) \/ j < Len(e))
        BY <1>4, <2>2, <4>0
      <4> QED BY <1>2, <1>4, <2>1, <2>2, <4>1
    <3> QED BY <3>1
  <2>4. \A i \in S : i <= e[Len(e)]
    BY <1>1, <2>3
  <2>5. e[Len(e)] \in Rows /\ e[Len(e)] > c /\ e[Len(e)] \in Int
    BY <1>4, <2>1, <2>2
  <2> QED BY <1>0, <1>5, <2>1, <2>3, <2>4, <2>5 DEF e
<1> QED BY <1>6, <1>7
-----------------------------------------------------------------------------
(***************************************************************************)
(* The inductive invariant.  EachRowOnceInOrder says nothing of the last   *)
(* id when no row is on the wire, and NothingSkipped nothing of what a     *)
(* dispatch will acknowledge: the id a browser holds is never beyond the   *)
(* cursor, and what its buffer holds was received.  A closed connection    *)
(* has nothing on the wire.                                                *)
(***************************************************************************)
ClosedIsEmpty == stream = "closed" => wire = <<>>

IdWithinCursor == stream = "open" => idBuffer <= cursor

BufferWasReceived == \A j \in 1..Len(dataBuffer) : dataBuffer[j] \in received

TimelineInv ==
  /\ TypeOK
  /\ NothingSkipped
  /\ EachRowOnceInOrder
  /\ ClosedIsEmpty
  /\ IdWithinCursor
  /\ BufferWasReceived

LEMMA TimelineInit == Init => TimelineInv
<1> SUFFICES ASSUME Init PROVE TimelineInv
  OBVIOUS
<1>1. Rows = {} /\ Len(log) = 0
  BY DEF Init, Rows
<1>2. TypeOK
  BY <1>1, MissionTimelineAssumption DEF Init, TypeOK
<1> QED BY <1>1, <1>2 DEF Init, TimelineInv, NothingSkipped, EachRowOnceInOrder, ClosedIsEmpty,
                          IdWithinCursor, BufferWasReceived

(***************************************************************************)
(* Chunks: a blank line or the lines of a row, and what a wire holds after *)
(* a batch was written to it.                                              *)
(***************************************************************************)
Chunks == {LinesOf(i) : i \in Rows} \cup {Blank}

LEMMA ChunkIs ==
  /\ \A i : LinesOf(i) # Blank /\ LinesOf(i).row = i
  /\ \A x \in Chunks : x # Blank => x.row \in Rows /\ x = LinesOf(x.row)
BY DEF Chunks, LinesOf, Blank

BatchFollows(v, w, c) ==
  /\ v \in Seq(Chunks) /\ Len(w) \in Nat /\ Len(v) \in Nat /\ Len(w) <= Len(v)
  /\ \A j \in 1..Len(w) : v[j] = w[j]
  /\ \A j \in 1..Len(v) : j > Len(w) =>
       /\ v[j] # Blank
       /\ v[j].row \in Rows /\ log[v[j].row] = Watched
       /\ c < v[j].row /\ v[j].row <= DeliverEvents(c)
  /\ \A a, b \in 1..Len(v) : Len(w) < a /\ a < b => v[a].row < v[b].row
  /\ \A i \in Rows : log[i] = Watched /\ c < i =>
       \E j \in 1..Len(v) : v[j] = LinesOf(i)

LEMMA BatchWritten ==
  ASSUME log \in Seq(Missions), NEW c \in Rows \cup {0}, NEW w \in Seq(Chunks),
         NEW v, v = w \o Batch(RowsAfter(c))
  PROVE  BatchFollows(v, w, c)
<1> DEFINE e == RowsAfter(c)
           S == {i \in Rows : log[i] = Watched /\ i > c}
<1>1. e \in Seq(S) /\ (\A i \in S : \E j \in 1..Len(e) : e[j] = i) /\ Increasing(e)
  BY RowsAfterReads
<1>2. \A j \in 1..Len(e) : e[j] <= DeliverEvents(c)
  BY DeliverEventsMoves
<1>3. \A x \in S : x \in Rows /\ log[x] = Watched /\ c < x
  BY DEF Rows
<1>4. \A i \in Rows : log[i] = Watched /\ c < i => i \in S
  BY DEF Rows
<1>5. v = w \o Batch(e)
  OBVIOUS
<1> HIDE DEF e, S
<1>6. /\ Len(e) \in Nat /\ Len(w) \in Nat /\ Batch(e) \in Seq(Chunks) /\ Len(Batch(e)) = Len(e)
      /\ \A j \in 1..Len(e) : Batch(e)[j] = LinesOf(e[j]) /\ e[j] \in S
  <2>1. Len(e) \in Nat /\ Len(w) \in Nat /\ \A j \in 1..Len(e) : e[j] \in S
    BY <1>1
  <2>2. \A j \in 1..Len(e) : LinesOf(e[j]) \in Chunks
    BY <1>3, <2>1 DEF Chunks
  <2>3. Batch(e) = [j \in 1..Len(e) |-> LinesOf(e[j])]
    BY DEF Batch
  <2> QED BY <2>1, <2>2, <2>3
<1> DEFINE d == Batch(e)
<1>b. /\ d \in Seq(Chunks) /\ Len(d) = Len(e) /\ v = w \o d
      /\ \A j \in 1..Len(e) : d[j] = LinesOf(e[j])
  BY <1>5, <1>6
<1> HIDE DEF d
<1>7. /\ v \in Seq(Chunks) /\ Len(v) = Len(w) + Len(e)
      /\ \A j \in 1..Len(w) : v[j] = w[j]
      /\ \A j \in 1..Len(v) : j > Len(w) => v[j] = d[j - Len(w)]
  <2> HIDE DEF e
  <2>1. v \in Seq(Chunks) /\ Len(v) = Len(w) + Len(d)
    BY <1>b, ConcatProperties
  <2>2. \A j \in 1..(Len(w) + Len(d)) : v[j] = IF j <= Len(w) THEN w[j] ELSE d[j - Len(w)]
    BY <1>b, ConcatProperties
  <2> QED BY <1>6, <1>b, <2>1, <2>2
<1>8. \A j \in 1..Len(v) : j > Len(w) =>
        j - Len(w) \in 1..Len(e) /\ v[j] = LinesOf(e[j - Len(w)]) /\ v[j].row = e[j - Len(w)]
  <2>1. SUFFICES ASSUME NEW j \in 1..Len(v), j > Len(w)
                 PROVE  /\ j - Len(w) \in 1..Len(e) /\ v[j] = LinesOf(e[j - Len(w)])
                        /\ v[j].row = e[j - Len(w)]
    OBVIOUS
  <2>2. j - Len(w) \in 1..Len(e)
    BY <1>6, <1>7, <2>1
  <2>3. v[j] = LinesOf(e[j - Len(w)])
    BY <1>7, <1>b, <2>1, <2>2
  <2> QED BY <2>2, <2>3, ChunkIs
<1>9. ASSUME NEW i \in S PROVE \E j \in 1..Len(v) : v[j] = LinesOf(i)
  <2>1. PICK k \in 1..Len(e) : e[k] = i
    BY <1>1
  <2>2. k + Len(w) \in 1..Len(v) /\ k + Len(w) > Len(w) /\ (k + Len(w)) - Len(w) = k
    BY <1>6, <1>7
  <2> QED BY <1>8, <2>1, <2>2
<1>10. \A a, b \in 1..Len(v) : Len(w) < a /\ a < b => v[a].row < v[b].row
  <2>1. SUFFICES ASSUME NEW a \in 1..Len(v), NEW b \in 1..Len(v), Len(w) < a, a < b
                 PROVE  v[a].row < v[b].row
    OBVIOUS
  <2>2. b > Len(w) /\ a - Len(w) < b - Len(w)
    BY <1>6, <1>7, <2>1
  <2>3. /\ a - Len(w) \in 1..Len(e) /\ b - Len(w) \in 1..Len(e)
        /\ v[a].row = e[a - Len(w)] /\ v[b].row = e[b - Len(w)]
    BY <1>8, <2>1, <2>2
  <2> QED BY <1>1, <2>2, <2>3 DEF Increasing
<1>11. \A j \in 1..Len(v) : j > Len(w) =>
         /\ v[j] # Blank
         /\ v[j].row \in Rows /\ log[v[j].row] = Watched
         /\ c < v[j].row /\ v[j].row <= DeliverEvents(c)
  BY <1>2, <1>3, <1>6, <1>8, ChunkIs
<1>12. Len(v) \in Nat /\ Len(w) <= Len(v)
  BY <1>6, <1>7
<1> QED BY <1>4, <1>6, <1>7, <1>9, <1>10, <1>11, <1>12 DEF BatchFollows
-----------------------------------------------------------------------------
(***************************************************************************)
(* Each action keeps the invariant.                                        *)
(***************************************************************************)
LEMMA WireHolds ==
  ASSUME TypeOK
  PROVE  /\ wire \in Seq(Chunks) /\ Len(wire) \in Nat
         /\ \A j \in 1..Len(wire) :
              wire[j] # Blank => wire[j].row \in RowsOnWire /\ wire[j] = LinesOf(wire[j].row)
         /\ \A i \in RowsOnWire : \E j \in 1..Len(wire) : wire[j] = LinesOf(i)
<1>1. wire \in Seq(Chunks)
  BY DEF TypeOK, Chunks
<1>2. Len(wire) \in Nat /\ \A j \in 1..Len(wire) : wire[j] \in Chunks
  BY <1>1
<1>3. \A j \in 1..Len(wire) :
        wire[j] # Blank => wire[j].row \in Rows /\ wire[j] = LinesOf(wire[j].row)
  BY <1>2, ChunkIs
<1> QED BY <1>1, <1>2, <1>3 DEF RowsOnWire

LEMMA RecordKeeps ==
  ASSUME TimelineInv, NEW m \in Missions, RecordMissionTimelineEvent(m)
  PROVE  TimelineInv'
<1>1. /\ log \in Seq(Missions) /\ log' = Append(log, m)
      /\ UNCHANGED <<stream, cursor, quiet, wire, client, breaks>>
  BY DEF TimelineInv, TypeOK, RecordMissionTimelineEvent
<1>2. /\ Len(log) \in Nat /\ log' \in Seq(Missions)
      /\ Rows \subseteq Rows' /\ Rows' = Rows \cup {Len(log) + 1}
      /\ \A i \in Rows : log'[i] = log[i] /\ i < Len(log) + 1
  BY <1>1 DEF Rows
<1>3. TypeOK'
  <2>1. Chunks \subseteq Chunks' /\ wire \in Seq(Chunks)
    BY <1>2, WireHolds DEF Chunks, TimelineInv, LinesOf, Blank
  <2>2. \A A, B : A \subseteq B => Seq(A) \subseteq Seq(B)
    BY SeqDef
  <2>3. wire' \in Seq(Chunks') /\ dataBuffer' \in Seq(Rows')
    BY <1>1, <1>2, <2>1, <2>2 DEF TimelineInv, TypeOK, client
  <2> QED BY <1>1, <1>2, <2>3 DEF TimelineInv, TypeOK, client, Chunks, LinesOf, Blank
<1>4. RowsOnWire' = RowsOnWire
  <2>1. \A j \in 1..Len(wire), i \in Rows' : wire[j] = LinesOf(i) => i \in RowsOnWire
    BY WireHolds, ChunkIs DEF TimelineInv
  <2> QED BY <1>1, <1>2, <2>1 DEF RowsOnWire, LinesOf
<1>5. NothingSkipped'
  <2>1. cursor <= Len(log) /\ lastEventId <= Len(log)
    BY <1>2 DEF TimelineInv, TypeOK, Rows
  <2>2. ~ (Len(log) + 1 <= cursor) /\ ~ (Len(log) + 1 <= lastEventId)
    BY <1>2, <2>1 DEF TimelineInv, TypeOK, Rows
  <2> QED BY <1>1, <1>2, <1>4, <2>2 DEF TimelineInv, NothingSkipped, client
<1>6. EachRowOnceInOrder'
  <2>1. RowsOnWire \subseteq Rows
    BY DEF RowsOnWire
  <2> QED BY <1>1, <1>2, <1>4, <2>1 DEF TimelineInv, EachRowOnceInOrder, client, Blank
<1> QED BY <1>1, <1>3, <1>5, <1>6
        DEF TimelineInv, ClosedIsEmpty, IdWithinCursor, BufferWasReceived, client

(***************************************************************************)
(* What a write leaves on the wire, w being what stood there before: the   *)
(* rows after c join what is there, and c moves past them.                 *)
(***************************************************************************)
RowsBetween(w, id, c) ==
  \A j \in 1..Len(w) :
    w[j] # Blank => log[w[j].row] = Watched /\ id < w[j].row /\ w[j].row <= c

Ascending(w) ==
  \A a, b \in 1..Len(w) : a < b /\ w[a] # Blank /\ w[b] # Blank => w[a].row < w[b].row

Accounted(w, c) ==
  \A i \in Rows : log[i] = Watched =>
    /\ i <= c => i \in received \/ \E j \in 1..Len(w) : w[j] = LinesOf(i)
    /\ i <= lastEventId => i \in received

LEMMA WriteKeeps ==
  ASSUME TypeOK, NEW c \in Rows \cup {0}, NEW w \in Seq(Chunks),
         BatchFollows(wire', w, c), cursor' = DeliverEvents(c), log' = log,
         lastEventId' = lastEventId, received' = received,
         idBuffer' \in Rows \cup {0}, idBuffer' <= c,
         RowsBetween(w, idBuffer', c), Ascending(w), Accounted(w, c)
  PROVE  /\ wire' \in Seq(Chunks) /\ cursor' \in Rows \cup {0}
         /\ NothingSkipped' /\ EachRowOnceInOrder' /\ IdWithinCursor'
<1>0. log \in Seq(Missions) /\ c \in Int /\ idBuffer' \in Int /\ Rows \subseteq Int /\ Rows' = Rows
  BY DEF TypeOK, Rows
<1>v. PICK v : BatchFollows(v, w, c) /\ wire' = v
  OBVIOUS
<1>1. /\ v \in Seq(Chunks) /\ Len(w) \in Nat /\ Len(v) \in Nat /\ Len(w) <= Len(v)
      /\ \A j \in 1..Len(w) : v[j] = w[j]
  BY <1>v DEF BatchFollows
<1>2. \A j \in 1..Len(v) : j > Len(w) =>
        /\ v[j] # Blank
        /\ v[j].row \in Rows /\ log[v[j].row] = Watched
        /\ c < v[j].row /\ v[j].row <= DeliverEvents(c)
  BY <1>v DEF BatchFollows
<1>3. \A a, b \in 1..Len(v) : Len(w) < a /\ a < b => v[a].row < v[b].row
  BY <1>v DEF BatchFollows
<1>4. \A i \in Rows : log[i] = Watched /\ c < i => \E j \in 1..Len(v) : v[j] = LinesOf(i)
  BY <1>v DEF BatchFollows
<1>5. DeliverEvents(c) \in Rows \cup {0} /\ c <= DeliverEvents(c)
  BY <1>0, DeliverEventsMoves
<1>i. DeliverEvents(c) \in Int
  <2>1. \A x \in Rows \cup {0} : x \in Int
    BY <1>0
  <2> QED BY <1>5, <2>1, Zenon
<1>6. cursor' = DeliverEvents(c) /\ cursor' \in Int
  BY <1>i
<1>7. RowsOnWire' = {i \in Rows : \E j \in 1..Len(v) : v[j] = LinesOf(i)}
  BY <1>0, <1>v DEF RowsOnWire, LinesOf
<1>8. \A j \in 1..Len(w) : w[j] # Blank => w[j].row \in Rows /\ w[j].row \in Int
  <2>1. \A j \in 1..Len(w) : w[j] \in Chunks
    OBVIOUS
  <2> QED BY <2>1, <1>0, ChunkIs
<1>9. ASSUME NEW i \in Rows, log[i] = Watched
      PROVE  /\ i <= cursor' => i \in received \cup RowsOnWire'
             /\ i <= lastEventId => i \in received
  <2>1. i <= lastEventId => i \in received
    BY <1>9 DEF Accounted
  <2>2. CASE c < i
    BY <1>4, <1>7, <1>9, <2>1, <2>2
  <2>3. CASE i <= c
    <3>1. i \in received \/ \E j \in 1..Len(w) : w[j] = LinesOf(i)
      BY <1>9, <2>3 DEF Accounted
    <3>2. \A j \in 1..Len(w) : j \in 1..Len(v)
      BY <1>1
    <3> QED BY <1>1, <1>7, <2>1, <3>1, <3>2
  <2> QED BY <1>0, <2>2, <2>3
<1>10. NothingSkipped'
  BY <1>0, <1>9 DEF NothingSkipped
<1>11. ASSUME NEW r \in RowsOnWire' PROVE log[r] = Watched /\ idBuffer' < r /\ r <= cursor'
  <2>1. PICK j \in 1..Len(v) : v[j] = LinesOf(r)
    BY <1>7
  <2>2. v[j] # Blank /\ v[j].row = r /\ r \in Rows
    BY <1>7, <2>1, ChunkIs
  <2>3. CASE j > Len(w)
    <3>1. log[r] = Watched /\ c < r /\ r <= DeliverEvents(c)
      BY <1>2, <2>2, <2>3
    <3>2. r \in Int
      BY <1>0, <2>2
    <3> QED BY <1>0, <1>6, <3>1, <3>2
  <2>4. CASE j <= Len(w)
    <3>1. j \in 1..Len(w) /\ w[j] # Blank /\ w[j].row = r
      BY <1>1, <2>2, <2>4
    <3>2. log[r] = Watched /\ idBuffer' < r /\ r <= c
      BY <3>1 DEF RowsBetween
    <3>3. r \in Int /\ DeliverEvents(c) \in Int
      BY <1>0, <1>6, <2>2
    <3> QED BY <1>0, <1>5, <1>6, <3>2, <3>3
  <2> QED BY <1>1, <2>3, <2>4
<1>12. ASSUME NEW a \in 1..Len(v), NEW b \in 1..Len(v), a < b, v[a] # Blank, v[b] # Blank
       PROVE  v[a].row < v[b].row
  <2>1. CASE a > Len(w)
    BY <1>3, <1>12, <2>1
  <2>2. CASE a <= Len(w) /\ b > Len(w)
    <3>1. a \in 1..Len(w) /\ v[a] = w[a]
      BY <1>1, <2>2
    <3>2. w[a].row <= c /\ w[a].row \in Int
      BY <1>8, <1>12, <3>1 DEF RowsBetween
    <3>3. c < v[b].row /\ v[b].row \in Int
      BY <1>0, <1>2, <2>2
    <3> QED BY <1>0, <3>1, <3>2, <3>3
  <2>3. CASE b <= Len(w)
    <3>1. a \in 1..Len(w) /\ b \in 1..Len(w) /\ v[a] = w[a] /\ v[b] = w[b]
      BY <1>1, <1>12, <2>3
    <3> QED BY <1>12, <3>1 DEF Ascending
  <2> QED BY <1>1, <2>1, <2>2, <2>3
<1>13. EachRowOnceInOrder'
  <2>1. \A r \in RowsOnWire' : log'[r] = Watched /\ idBuffer' < r /\ r <= cursor'
    BY <1>11
  <2>2. \A i, j \in 1..Len(wire') :
          i < j /\ wire'[i] # Blank /\ wire'[j] # Blank => wire'[i].row < wire'[j].row
    BY <1>v, <1>12
  <2> QED BY <2>1, <2>2 DEF EachRowOnceInOrder, Blank
<1>14. IdWithinCursor'
  BY <1>0, <1>5, <1>6 DEF IdWithinCursor
<1> QED BY <1>v, <1>1, <1>5, <1>6, <1>10, <1>13, <1>14

LEMMA ConnectKeeps ==
  ASSUME TimelineInv, Connect
  PROVE  TimelineInv'
<1> DEFINE w == <<Blank>>
<1>1. /\ TypeOK /\ stream' = "open" /\ cursor' = DeliverEvents(lastEventId)
      /\ wire' = w \o Batch(RowsAfter(lastEventId)) /\ idBuffer' \in {0, lastEventId}
      /\ dataBuffer' = <<>> /\ quiet' = 0
      /\ UNCHANGED <<log, lastEventId, received, shown, breaks>>
  BY DEF TimelineInv, Connect
<1>2. lastEventId \in Rows \cup {0} /\ lastEventId \in Nat /\ Rows' = Rows
  BY <1>1 DEF TypeOK, Rows
<1>3. w \in Seq(Chunks) /\ Len(w) = 1 /\ w[1] = Blank
  BY DEF Chunks
<1> HIDE DEF w
<1>4. /\ \A j \in 1..Len(w) : w[j] = Blank
      /\ idBuffer' \in Rows \cup {0} /\ idBuffer' <= lastEventId
  BY <1>1, <1>2, <1>3
<1>5. RowsBetween(w, idBuffer', lastEventId) /\ Ascending(w) /\ Accounted(w, lastEventId)
  BY <1>4 DEF TimelineInv, NothingSkipped, RowsBetween, Ascending, Accounted
<1>b. BatchFollows(wire', w, lastEventId)
  BY <1>1, <1>2, <1>3, BatchWritten DEF TypeOK
<1>6. /\ wire' \in Seq(Chunks) /\ cursor' \in Rows \cup {0}
      /\ NothingSkipped' /\ EachRowOnceInOrder' /\ IdWithinCursor'
  BY <1>1, <1>2, <1>3, <1>4, <1>5, <1>b, WriteKeeps
<1>7. TypeOK'
  BY <1>1, <1>2, <1>4, <1>6, MissionTimelineAssumption DEF TypeOK, Chunks, LinesOf, Blank
<1>8. ClosedIsEmpty' /\ BufferWasReceived'
  BY <1>1 DEF ClosedIsEmpty, BufferWasReceived
<1> QED BY <1>6, <1>7, <1>8 DEF TimelineInv

LEMMA TickKeeps ==
  ASSUME TimelineInv, Tick
  PROVE  TimelineInv'
<1>1. /\ TypeOK /\ stream = "open" /\ stream' = "open" /\ cursor' = DeliverEvents(cursor)
      /\ UNCHANGED <<log, idBuffer, dataBuffer, lastEventId, received, shown, breaks>>
      /\ log \in Seq(Missions) /\ cursor \in Rows \cup {0} /\ cursor \in Nat /\ Rows' = Rows
  BY DEF TimelineInv, Tick, TypeOK, Rows, client
<1>2. quiet' \in 0..HeartbeatTicks
  BY MissionTimelineAssumption DEF TimelineInv, Tick, TypeOK
<1>3. /\ wire \in Seq(Chunks) /\ Len(wire) \in Nat
      /\ \A j \in 1..Len(wire) :
           wire[j] # Blank => wire[j].row \in RowsOnWire /\ wire[j] = LinesOf(wire[j].row)
      /\ \A i \in RowsOnWire : \E j \in 1..Len(wire) : wire[j] = LinesOf(i)
  BY <1>1, WireHolds
<1>4. PICK w \in {wire, wire \o <<Blank>>} : wire' = w \o Batch(RowsAfter(cursor))
  <2>1. CASE RowsAfter(cursor) # <<>>
    BY <2>1 DEF Tick
  <2>2. CASE RowsAfter(cursor) = <<>>
    <3>1. Batch(RowsAfter(cursor)) = <<>>
      BY <2>2 DEF Batch
    <3>2. wire' \in {wire, wire \o <<Blank>>}
      BY <2>2 DEF Tick, Heartbeat
    <3>3. wire' \in Seq(Chunks)
      <4>1. <<Blank>> \in Seq(Chunks)
        BY DEF Chunks
      <4> QED BY <1>3, <3>2, <4>1, ConcatProperties
    <3>4. wire' \o Batch(RowsAfter(cursor)) = wire'
      BY <3>1, <3>3, ConcatEmptySeq
    <3> QED BY <3>2, <3>4
  <2> QED BY <2>1, <2>2
<1>5. /\ w \in Seq(Chunks) /\ Len(w) \in Nat /\ Len(wire) <= Len(w)
      /\ \A j \in 1..Len(wire) : w[j] = wire[j]
      /\ \A j \in 1..Len(w) : w[j] # Blank => j \in 1..Len(wire)
  <2>1. CASE w = wire
    BY <1>3, <2>1
  <2>2. CASE w = wire \o <<Blank>>
    <3> DEFINE h == <<Blank>>
    <3>1. h \in Seq(Chunks) /\ Len(h) = 1 /\ h[1] = Blank
      BY DEF Chunks
    <3> HIDE DEF h
    <3>2. /\ w \in Seq(Chunks) /\ Len(w) = Len(wire) + 1
          /\ \A j \in 1..(Len(wire) + 1) : w[j] = IF j <= Len(wire) THEN wire[j] ELSE h[j - Len(wire)]
      BY <1>3, <2>2, <3>1, ConcatProperties DEF h
    <3>3. w[Len(wire) + 1] = Blank
      BY <1>3, <3>1, <3>2
    <3> QED BY <1>3, <3>2, <3>3
  <2> QED BY <1>4, <2>1, <2>2
<1>6. /\ idBuffer' \in Rows \cup {0} /\ idBuffer' <= cursor
      /\ RowsBetween(w, idBuffer', cursor)
  <2>1. ASSUME NEW j \in 1..Len(w), w[j] # Blank
        PROVE  log[w[j].row] = Watched /\ idBuffer < w[j].row /\ w[j].row <= cursor
    <3>1. w[j] = wire[j] /\ wire[j].row \in RowsOnWire
      BY <1>3, <1>5, <2>1
    <3> QED BY <1>1, <3>1 DEF TimelineInv, EachRowOnceInOrder
  <2> QED BY <1>1, <2>1 DEF TimelineInv, TypeOK, IdWithinCursor, RowsBetween
<1>7. Ascending(w)
  <2>1. Ascending(wire)
    BY <1>1 DEF TimelineInv, EachRowOnceInOrder, Ascending
  <2> QED BY <1>5, <2>1 DEF Ascending
<1>8. Accounted(w, cursor)
  <2>1. \A i \in RowsOnWire : \E j \in 1..Len(w) : w[j] = LinesOf(i)
    BY <1>3, <1>5
  <2> QED BY <1>1, <2>1 DEF TimelineInv, NothingSkipped, Accounted
<1>b. BatchFollows(wire', w, cursor)
  BY <1>1, <1>4, <1>5, BatchWritten
<1>9. /\ wire' \in Seq(Chunks) /\ cursor' \in Rows \cup {0}
      /\ NothingSkipped' /\ EachRowOnceInOrder' /\ IdWithinCursor'
  BY <1>1, <1>5, <1>6, <1>7, <1>8, <1>b, WriteKeeps
<1>10. TypeOK'
  BY <1>1, <1>2, <1>9 DEF TypeOK, Chunks, LinesOf, Blank
<1>11. ClosedIsEmpty' /\ BufferWasReceived'
  BY <1>1 DEF TimelineInv, ClosedIsEmpty, BufferWasReceived
<1> QED BY <1>9, <1>10, <1>11 DEF TimelineInv

LEMMA BreakKeeps ==
  ASSUME TimelineInv, Break
  PROVE  TimelineInv'
<1>1. /\ TypeOK /\ stream' = "closed" /\ wire' = <<>> /\ breaks' = breaks + 1 /\ breaks < MaxBreaks
      /\ UNCHANGED <<log, cursor, quiet, idBuffer, dataBuffer, lastEventId, received, shown>>
  BY DEF TimelineInv, Break, client
<1>2. Rows' = Rows /\ RowsOnWire' = {}
  BY <1>1 DEF Rows, RowsOnWire
<1>3. TypeOK'
  BY <1>1, <1>2, MissionTimelineAssumption DEF TypeOK
<1>4. NothingSkipped'
  BY <1>1, <1>2 DEF TimelineInv, NothingSkipped
<1> QED BY <1>1, <1>3, <1>4 DEF TimelineInv, EachRowOnceInOrder, ClosedIsEmpty, IdWithinCursor,
                                BufferWasReceived

(***************************************************************************)
(* What is left of the wire once its first chunk was received.             *)
(***************************************************************************)
LEMMA TailOfWire ==
  ASSUME TypeOK, wire # <<>>, wire' = Tail(wire), log' = log
  PROVE  /\ wire' \in Seq(Chunks) /\ Len(wire) \in Nat /\ Len(wire') = Len(wire) - 1
         /\ 1 \in 1..Len(wire) /\ wire[1] \in Chunks
         /\ \A j \in 1..Len(wire') : j + 1 \in 1..Len(wire) /\ wire'[j] = wire[j + 1]
         /\ RowsOnWire' \subseteq RowsOnWire
         /\ \A i \in RowsOnWire : wire[1] = LinesOf(i) \/ i \in RowsOnWire'
<1>1. wire \in Seq(Chunks)
  BY DEF TypeOK, Chunks
<1>2. /\ wire' \in Seq(Chunks) /\ Len(wire) \in Nat /\ Len(wire') = Len(wire) - 1
      /\ 1 \in 1..Len(wire) /\ wire[1] \in Chunks
  BY <1>1
<1>3. \A j \in 1..Len(wire') : j + 1 \in 1..Len(wire) /\ wire'[j] = wire[j + 1]
  BY <1>1, <1>2
<1>4. Rows' = Rows
  BY DEF Rows
<1>5. RowsOnWire' = {i \in Rows : \E j \in 1..Len(wire') : wire'[j] = LinesOf(i)}
  BY <1>4 DEF RowsOnWire, LinesOf
<1>6. RowsOnWire' \subseteq RowsOnWire
  BY <1>3, <1>5 DEF RowsOnWire
<1>7. ASSUME NEW i \in RowsOnWire, wire[1] # LinesOf(i) PROVE i \in RowsOnWire'
  <2>1. PICK j \in 1..Len(wire) : wire[j] = LinesOf(i)
    BY DEF RowsOnWire
  <2>2. j - 1 \in 1..Len(wire') /\ (j - 1) + 1 = j
    BY <1>2, <1>7, <2>1
  <2>3. wire'[j - 1] = LinesOf(i)
    BY <1>3, <2>1, <2>2
  <2> QED BY <1>5, <2>2, <2>3 DEF RowsOnWire
<1> QED BY <1>2, <1>3, <1>6, <1>7

LEMMA ReceiveRowKeeps ==
  ASSUME TimelineInv, ReceiveRow
  PROVE  TimelineInv'
<1> DEFINE r == wire[1].row
<1>1. /\ TypeOK /\ wire # <<>> /\ wire[1] # Blank /\ wire' = Tail(wire)
      /\ idBuffer' = r /\ dataBuffer' = Append(dataBuffer, r) /\ received' = received \cup {r}
      /\ UNCHANGED <<log, stream, cursor, quiet, lastEventId, shown, breaks>>
  BY DEF TimelineInv, ReceiveRow, server
<1>2. /\ wire' \in Seq(Chunks) /\ Len(wire) \in Nat /\ Len(wire') = Len(wire) - 1
      /\ 1 \in 1..Len(wire) /\ wire[1] \in Chunks
      /\ \A j \in 1..Len(wire') : j + 1 \in 1..Len(wire) /\ wire'[j] = wire[j + 1]
      /\ RowsOnWire' \subseteq RowsOnWire
      /\ \A i \in RowsOnWire : wire[1] = LinesOf(i) \/ i \in RowsOnWire'
  BY <1>1, TailOfWire
<1>3. r \in Rows /\ wire[1] = LinesOf(r) /\ r \in RowsOnWire
  <2>1. r \in Rows /\ wire[1] = LinesOf(r)
    BY <1>1, <1>2, ChunkIs
  <2> QED BY <1>2, <2>1 DEF RowsOnWire
<1>4. \A i : wire[1] = LinesOf(i) => i = r
  BY ChunkIs
<1> HIDE DEF r
<1>5. Rows' = Rows /\ r \in Int
  BY <1>1, <1>3 DEF Rows
<1>6. stream = "open"
  BY <1>1 DEF TimelineInv, ClosedIsEmpty, TypeOK
<1>7. TypeOK'
  <2>1. wire' \in Seq({LinesOf(i) : i \in Rows} \cup {Blank})
    BY <1>2 DEF Chunks
  <2>2. dataBuffer' \in Seq(Rows)
    BY <1>1, <1>3 DEF TypeOK
  <2> QED BY <1>1, <1>3, <1>5, <2>1, <2>2 DEF TypeOK, LinesOf, Blank
<1>8. NothingSkipped'
  <2>1. \A i \in RowsOnWire : i \in received' \cup RowsOnWire'
    BY <1>1, <1>2, <1>4
  <2> QED BY <1>1, <1>5, <1>6, <2>1 DEF TimelineInv, NothingSkipped
<1>9. ASSUME NEW q \in RowsOnWire' PROVE r < q
  <2>1. PICK j \in 1..Len(wire') : wire'[j] = LinesOf(q)
    BY DEF RowsOnWire, LinesOf
  <2>2. j + 1 \in 1..Len(wire) /\ wire[j + 1] # Blank /\ wire[j + 1].row = q /\ 1 < j + 1
    BY <1>2, <2>1, ChunkIs
  <2> QED BY <1>1, <1>2, <1>3, <1>6, <2>2, ChunkIs DEF TimelineInv, EachRowOnceInOrder
<1>10. EachRowOnceInOrder'
  <2>1. \A q \in RowsOnWire' : log[q] = Watched /\ q <= cursor
    BY <1>2, <1>6 DEF TimelineInv, EachRowOnceInOrder
  <2>2. ASSUME NEW i \in 1..Len(wire'), NEW j \in 1..Len(wire'), i < j,
               wire'[i] # Blank, wire'[j] # Blank
        PROVE  wire'[i].row < wire'[j].row
    <3>1. /\ i + 1 \in 1..Len(wire) /\ j + 1 \in 1..Len(wire) /\ i + 1 < j + 1
          /\ wire'[i] = wire[i + 1] /\ wire'[j] = wire[j + 1]
      BY <1>2, <2>2
    <3> QED BY <1>6, <2>2, <3>1 DEF TimelineInv, EachRowOnceInOrder
  <2> QED BY <1>1, <1>9, <2>1, <2>2 DEF EachRowOnceInOrder, Blank
<1>11. IdWithinCursor'
  BY <1>1, <1>3, <1>6 DEF TimelineInv, EachRowOnceInOrder, IdWithinCursor
<1>12. BufferWasReceived'
  <2>1. dataBuffer \in Seq(Rows)
    BY <1>1 DEF TypeOK
  <2> QED BY <1>1, <1>3, <2>1 DEF TimelineInv, BufferWasReceived
<1> QED BY <1>1, <1>6, <1>7, <1>8, <1>10, <1>11, <1>12 DEF TimelineInv, ClosedIsEmpty

LEMMA DispatchKeeps ==
  ASSUME TimelineInv, Dispatch
  PROVE  TimelineInv'
<1>1. /\ TypeOK /\ wire # <<>> /\ wire[1] = Blank /\ wire' = Tail(wire)
      /\ lastEventId' = idBuffer /\ shown' = shown \cup Merged(dataBuffer) /\ dataBuffer' = <<>>
      /\ UNCHANGED <<log, stream, cursor, quiet, idBuffer, received, breaks>>
  BY DEF TimelineInv, Dispatch, server
<1>2. /\ wire' \in Seq(Chunks) /\ Len(wire) \in Nat /\ Len(wire') = Len(wire) - 1
      /\ \A j \in 1..Len(wire') : j + 1 \in 1..Len(wire) /\ wire'[j] = wire[j + 1]
      /\ RowsOnWire' \subseteq RowsOnWire
      /\ \A i \in RowsOnWire : wire[1] = LinesOf(i) \/ i \in RowsOnWire'
  BY <1>1, TailOfWire
<1>3. RowsOnWire' = RowsOnWire
  BY <1>1, <1>2, ChunkIs
<1>4. Rows' = Rows /\ Rows \subseteq Int /\ idBuffer \in Int /\ cursor \in Int
  BY <1>1 DEF TypeOK, Rows
<1>5. stream = "open"
  BY <1>1 DEF TimelineInv, ClosedIsEmpty, TypeOK
<1>6. TypeOK'
  <2>1. wire' \in Seq({LinesOf(i) : i \in Rows} \cup {Blank})
    BY <1>2 DEF Chunks
  <2>2. Merged(dataBuffer) \subseteq received
    BY <1>1 DEF TimelineInv, BufferWasReceived, Merged
  <2>3. shown' \in SUBSET received' /\ received' \in SUBSET Rows
    BY <1>1, <2>2 DEF TypeOK
  <2>4. dataBuffer' \in Seq(Rows)
    BY <1>1
  <2>5. lastEventId' \in Rows \cup {0}
    BY <1>1 DEF TypeOK
  <2> QED BY <1>1, <1>4, <2>1, <2>3, <2>4, <2>5 DEF TypeOK, LinesOf, Blank
<1>7. NothingSkipped'
  <2>1. ASSUME NEW i \in Rows, log[i] = Watched, i <= idBuffer PROVE i \in received
    <3>1. i <= cursor /\ ~ (idBuffer < i)
      BY <1>4, <1>5, <2>1 DEF TimelineInv, IdWithinCursor
    <3>2. i \in received \cup RowsOnWire /\ i \notin RowsOnWire
      BY <1>5, <2>1, <3>1 DEF TimelineInv, NothingSkipped, EachRowOnceInOrder
    <3> QED BY <3>2
  <2> QED BY <1>1, <1>3, <1>4, <2>1 DEF TimelineInv, NothingSkipped
<1>8. EachRowOnceInOrder'
  <2>1. ASSUME NEW i \in 1..Len(wire'), NEW j \in 1..Len(wire'), i < j,
               wire'[i] # Blank, wire'[j] # Blank
        PROVE  wire'[i].row < wire'[j].row
    <3>1. /\ i + 1 \in 1..Len(wire) /\ j + 1 \in 1..Len(wire) /\ i + 1 < j + 1
          /\ wire'[i] = wire[i + 1] /\ wire'[j] = wire[j + 1]
      BY <1>2, <2>1
    <3> QED BY <1>5, <2>1, <3>1 DEF TimelineInv, EachRowOnceInOrder
  <2> QED BY <1>1, <1>3, <1>5, <2>1 DEF TimelineInv, EachRowOnceInOrder, Blank
<1> QED BY <1>1, <1>5, <1>6, <1>7, <1>8
        DEF TimelineInv, ClosedIsEmpty, IdWithinCursor, BufferWasReceived

LEMMA TimelineStep == TimelineInv /\ [Next]_vars => TimelineInv'
<1> SUFFICES ASSUME TimelineInv, [Next]_vars PROVE TimelineInv'
  OBVIOUS
<1>1. ASSUME UNCHANGED vars PROVE TimelineInv'
  BY <1>1 DEF vars, server, client, TimelineInv, TypeOK, NothingSkipped, EachRowOnceInOrder,
              ClosedIsEmpty, IdWithinCursor, BufferWasReceived, Rows, RowsOnWire, LinesOf, Blank
<1> QED BY <1>1, RecordKeeps, ConnectKeeps, TickKeeps, BreakKeeps, ReceiveRowKeeps, DispatchKeeps
        DEF Next

LEMMA TimelineInvariant == Spec => []TimelineInv
BY TimelineInit, TimelineStep, PTL DEF Spec
-----------------------------------------------------------------------------
(***************************************************************************)
(* Every variable of the stream and of the browser keeps its type: cursors *)
(* and ids name rows of the table, and only received rows are shown.       *)
(***************************************************************************)
THEOREM TimelineTypeCorrect == Spec => []TypeOK
<1>1. TimelineInv => TypeOK
  BY DEF TimelineInv
<1> QED BY <1>1, TimelineInvariant, PTL

(***************************************************************************)
(* No row of the mission is passed over, however often the connection      *)
(* breaks and from whatever id the browser resumes: up to the cursor of    *)
(* the stream each was received or is on the wire, and up to the id the    *)
(* browser will send each was received.                                    *)
(***************************************************************************)
THEOREM TimelineSkipsNothing == Spec => []NothingSkipped
<1>1. TimelineInv => NothingSkipped
  BY DEF TimelineInv
<1> QED BY <1>1, TimelineInvariant, PTL

(***************************************************************************)
(* A connection carries rows of the mission alone, in the order of the     *)
(* table, each once.                                                       *)
(***************************************************************************)
THEOREM TimelineIsOrdered == Spec => []EachRowOnceInOrder
<1>1. TimelineInv => EachRowOnceInOrder
  BY DEF TimelineInv
<1> QED BY <1>1, TimelineInvariant, PTL
=============================================================================
