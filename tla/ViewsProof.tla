----------------------------- MODULE ViewsProof ------------------------------
(***************************************************************************)
(* Proofs about Views for every number of views, items, columns and        *)
(* workers, and for every gap and resolution of the positions and of the   *)
(* floats they are computed in.                                            *)
(***************************************************************************)
EXTENDS Views, FiniteSetTheorems, TLAPS

(* The initial state has the declared shape.                               *)
LEMMA TypeInit == Init => TypeOK
<1> SUFFICES ASSUME Init PROVE TypeOK
  OBVIOUS
<1>1. Idle \in Jobs /\ Idle.pc = "idle"
  BY DEF Idle, Jobs, PCs
<1>2. JobsOK
  BY <1>1 DEF Init, JobsOK
<1> QED
  BY <1>2 DEF Init, TypeOK

(* What the helpers do to the requests.                                    *)
LEMMA FinishEffect ==
  ASSUME JobsOK, NEW w \in Workers, Finish(w)
  PROVE  /\ JobsOK' /\ job'[w] = Idle
         /\ \A x \in Workers \ {w} : job'[x] = job[x]
  BY DEF JobsOK, Jobs, PCs, Finish, Idle

LEMMA FinishBeforeEffect ==
  ASSUME JobsOK, NEW w \in Workers, NEW S, FinishBefore(w, S)
  PROVE  /\ JobsOK' /\ job'[w] = Idle
         /\ \A x \in Workers \ {w} :
                IF x \in S THEN ~job'[x].fresh ELSE job'[x] = job[x]
<1>1. \A x \in Workers : job'[x] =
         IF x = w THEN Idle ELSE IF x \in S THEN Stale(job[x]) ELSE job[x]
  BY DEF FinishBefore
<1>2. Idle \in Jobs
  BY DEF Idle, Jobs, PCs
<1>3. ASSUME NEW j \in Jobs
      PROVE  /\ Stale(j) \in Jobs /\ Stale(j).fresh = FALSE
             /\ Stale(j).pc = j.pc /\ Stale(j).view = j.view /\ Stale(j).item = j.item
  BY DEF Stale, Jobs
<1>4. job' \in [Workers -> Jobs]
  <2>1. \A x \in Workers : job'[x] \in Jobs
    BY <1>1, <1>2, <1>3 DEF JobsOK
  <2> QED
    BY <2>1 DEF FinishBefore
<1>5. JobsOK'
  <2>1. \A x \in Workers :
            \/ job'[x].pc = "idle"
            \/ /\ job'[x].pc = job[x].pc
               /\ job'[x].view = job[x].view /\ job'[x].item = job[x].item
    <3> SUFFICES ASSUME NEW x \in Workers
                 PROVE  \/ job'[x].pc = "idle"
                        \/ /\ job'[x].pc = job[x].pc
                           /\ job'[x].view = job[x].view /\ job'[x].item = job[x].item
      OBVIOUS
    <3>1. job[x] \in Jobs
      BY DEF JobsOK
    <3>2. Idle.pc = "idle"
      BY DEF Idle
    <3>3. job'[x] \in {Idle, Stale(job[x]), job[x]}
      BY <1>1
    <3> QED
      BY <1>3, <3>1, <3>2, <3>3
  <2> QED
    BY <1>4, <2>1 DEF JobsOK
<1> QED
  BY <1>1, <1>3, <1>5 DEF JobsOK

LEMMA StartEffect ==
  ASSUME JobsOK, NEW w \in Workers, NEW j \in Jobs, Start(w, j), j.view \in Views,
         j.pc \in {"insertRow", "updateRow"} => j.item \in Items,
         j.pc = "insertCell" => j.item \in Columns
  PROVE  /\ JobsOK' /\ job[w].pc = "idle" /\ job'[w] = j
         /\ \A x \in Workers \ {w} : job'[x] = job[x]
  BY DEF JobsOK, Start, At

LEMMA CrashEffect ==
  ASSUME Crash
  PROVE  JobsOK' /\ \A w \in Workers : job'[w] = Idle
  BY DEF JobsOK, Jobs, PCs, Crash, Idle

(* The next position lies behind every item, although it loses its decimals*)
LEMMA Truncated ==
  ASSUME NEW x \in Nat, NEW u \in Nat \ {0}
  PROVE  (x \div u) * u \in Nat /\ x - u < (x \div u) * u
  OBVIOUS

LEMMA NextBehind ==
  ASSUME TypeOK, NEW v \in Views, NEW p \in NextPosition(v)
  PROVE  p \in Nat /\ \A i \in In(v) : row[i].position < p
<1> DEFINE Last == {i \in In(v) : \A j \in In(v) : row[j].position <= row[i].position}
<1>1. \A i \in In(v) : row[i] \in Rows
  BY ViewsAssumption DEF TypeOK, In, Never, Gone, Row
<1>2. CASE In(v) = {}
  <2>1. p = Gap
    BY <1>2 DEF NextPosition
  <2> QED
    BY <1>2, <2>1, ViewsAssumption
<1>3. CASE In(v) # {}
  <2>0. PICK i \in Last : p \in Whole(row[i].position + Gap)
    BY <1>3 DEF NextPosition
  <2>2. row[i].position \in Nat
    BY <1>1 DEF Rows
  <2>1. PICK x \in row[i].position + Gap .. row[i].position + Gap + Miss(2 * (row[i].position + Gap)) :
            p = (x \div Unit) * Unit
    BY <2>0 DEF Whole
  <2>3. x \in Nat /\ row[i].position + Gap <= x
    BY <2>2, ViewsAssumption
  <2>4. p \in Nat /\ row[i].position + Gap - Unit < p
    <3>1. Unit \in Nat \ {0}
      BY ViewsAssumption
    <3>2. p \in Nat /\ x - Unit < p
      BY <2>1, <2>3, <3>1, Truncated
    <3> QED
      BY <2>2, <2>3, <3>1, <3>2, ViewsAssumption
  <2>5. row[i].position < p
    BY <2>2, <2>4, ViewsAssumption
  <2> QED
    BY <1>1, <2>4, <2>5 DEF Rows
<1> QED
  BY <1>2, <1>3

(* With enough room, what a float makes of a mean lies between the two, of *)
(* a half before the whole, and of a position behind another behind it.    *)
LEMMA NearBetween ==
  ASSUME NEW a \in Nat, NEW b \in Nat, NEW q \in Near(a + b), b >= a + Room(a + b)
  PROVE  a < q /\ q < b
<1>1. PICK m \in Nat : m = Miss(a + b)
  BY ViewsAssumption DEF Miss
<1>2. /\ q \in ((a + b) \div 2) - m .. ((a + b + 1) \div 2) + m
      /\ b >= a + 2 * m + 2
  BY <1>1 DEF Near, Room
<1> QED
  BY <1>2

LEMMA NearHalf ==
  ASSUME NEW x \in Nat, NEW q \in Near(x)
  PROVE  q \in Nat /\ (x >= Room(x) => q < x)
<1>1. PICK m \in Nat : m = Miss(x)
  BY ViewsAssumption DEF Miss
<1>2. q \in (x \div 2) - m .. ((x + 1) \div 2) + m /\ q >= 0 /\ Room(x) = 2 * m + 2
  BY <1>1 DEF Near, Room
<1> QED
  BY <1>2

LEMMA NearBehind ==
  ASSUME NEW x \in Nat, NEW q \in Near(2 * (x + Behind))
  PROVE  q \in Nat /\ x < q
<1>1. PICK m \in Nat : m = Miss(2 * (x + Behind)) /\ m < Behind
  BY ViewsAssumption DEF Miss
<1>2. PICK y \in Nat : y = x + Behind
  BY ViewsAssumption
<1>3. q \in ((2 * y) \div 2) - m .. ((2 * y + 1) \div 2) + m /\ q >= 0
  BY <1>1, <1>2 DEF Near
<1> QED
  BY <1>1, <1>2, <1>3, ViewsAssumption

(* The computed position is a position, and when the neighbours still are  *)
(* neighbours it lies between them and on no other item.                   *)
LEMMA AverageBetween ==
  ASSUME TypeOK, NEW v \in Views, NEW prev \in Items \cup {None},
         NEW next \in Items \cup {None}, NEW i \in In(v), prev # next,
         i \notin {prev, next}, NEW p \in Average(v, prev, next)
  PROVE  /\ p \in Nat
         /\ Neighbours(v, i, prev, next) =>
             /\ prev \in In(v) => row[prev].position < p
             /\ next \in In(v) => p < row[next].position
             /\ \A j \in In(v) \ {i} : row[j].position # p
<1> DEFINE S == {prev, next} \cap In(v)
<1>1. \A j \in In(v) : row[j] \in Rows
  BY ViewsAssumption DEF TypeOK, In, Never, Gone, Row
<1>2. \A j \in In(v) : row[j].position \in Nat
  BY <1>1 DEF Rows
<1>3. None \notin In(v)
  BY ViewsAssumption DEF In
<1>4. CASE prev = None
  <2>1. PICK j \in S : p \in Near(row[j].position)
    BY <1>4 DEF Average
  <2>2. j = next /\ next \in In(v)
    BY <1>3, <1>4, <2>1
  <2>3. p \in Nat /\ (row[next].position >= Room(row[next].position) => p < row[next].position)
    BY <1>2, <2>1, <2>2, NearHalf
  <2>4. ASSUME Neighbours(v, i, prev, next)
        PROVE  /\ row[next].position >= Room(row[next].position)
               /\ \A k \in In(v) \ {i} : row[k].position >= row[next].position
    BY <1>4, <2>2, <2>4 DEF Neighbours
  <2> QED
    BY <1>2, <1>3, <1>4, <2>2, <2>3, <2>4
<1>5. CASE prev # None /\ next = None
  <2>1. PICK j \in S : p \in Near(2 * (row[j].position + Behind))
    BY <1>5 DEF Average
  <2>2. j = prev /\ prev \in In(v)
    BY <1>3, <1>5, <2>1
  <2>3. p \in Nat /\ row[prev].position < p
    BY <1>2, <2>1, <2>2, NearBehind
  <2>4. ASSUME Neighbours(v, i, prev, next)
        PROVE  \A k \in In(v) \ {i} : row[k].position <= row[prev].position
    BY <1>5, <2>2, <2>4 DEF Neighbours
  <2> QED
    BY <1>2, <1>3, <1>5, <2>2, <2>3, <2>4
<1>6. CASE prev # None /\ next # None
  <2>1. PICK q \in Both(S) : p \in Near(row[q[1]].position + row[q[2]].position)
    BY <1>6 DEF Average
  <2>2. q[1] \in S /\ q[2] \in S /\ {q[1], q[2]} = S
    BY <2>1 DEF Both
  <2>3. p \in Nat
    BY DEF Average, Near
  <2>4. ASSUME Neighbours(v, i, prev, next)
        PROVE  /\ prev \in In(v) /\ next \in In(v)
               /\ row[next].position >=
                    row[prev].position + Room(row[prev].position + row[next].position)
               /\ \A k \in In(v) \ {i} : \/ row[k].position <= row[prev].position
                                          \/ row[k].position >= row[next].position
    BY <1>6, <2>4 DEF Neighbours
  <2>5. ASSUME Neighbours(v, i, prev, next)
        PROVE  p \in Near(row[prev].position + row[next].position)
    <3>1. \/ q[1] = prev /\ q[2] = next
          \/ q[1] = next /\ q[2] = prev
      BY <2>2, <2>4, <2>5
    <3>2. row[prev].position + row[next].position = row[next].position + row[prev].position
      BY <1>2, <2>4, <2>5
    <3> QED
      BY <2>1, <3>1, <3>2
  <2>6. ASSUME Neighbours(v, i, prev, next)
        PROVE  row[prev].position < p /\ p < row[next].position
    BY <1>2, <2>4, <2>5, <2>6, NearBetween
  <2> QED
    BY <1>2, <2>3, <2>4, <2>6
<1> QED
  BY <1>4, <1>5, <1>6

(* What the start of a move leaves the worker with.                        *)
LEMMA MoveEffect ==
  ASSUME TypeOK, NEW w \in Workers, NEW v \in Views, NEW prev \in Items \cup {None},
         NEW next \in Items \cup {None}, NEW i \in In(v),
         NEW p \in Average(v, prev, next), CalculateNewPosition(w, v, i, prev, next, p)
  PROVE  /\ JobsOK' /\ job[w].pc = "idle"
         /\ \A x \in Workers \ {w} : job'[x] = job[x]
         /\ job'[w].pc = "updateRow"
         /\ job'[w].fresh =>
             /\ job'[w].view = v /\ job'[w].item = i /\ job'[w].position = p
             /\ job'[w].prev \in In(v) => row[job'[w].prev].position < p
             /\ job'[w].next \in In(v) => p < row[job'[w].next].position
             /\ \A j \in In(v) \ {i} : row[j].position # p
<1> DEFINE j == [Idle EXCEPT !.pc = "updateRow", !.view = v, !.item = i,
                             !.position = p, !.prev = prev, !.next = next, !.fresh = TRUE]
           N == Neighbours(v, i, prev, next)
<1>1. prev # next /\ i \notin {prev, next} /\ i \in Items
  BY DEF CalculateNewPosition, In
<1>2. p \in Nat
  BY <1>1, AverageBetween
<1>3. j \in Jobs /\ j.pc = "updateRow" /\ j.view = v /\ j.item = i /\ j.position = p
      /\ j.prev = prev /\ j.next = next
  BY <1>1, <1>2 DEF Idle, Jobs, PCs
<1>4. /\ Stale(j) \in Jobs /\ Stale(j).pc = "updateRow" /\ Stale(j).view = v
      /\ Stale(j).item = i /\ ~Stale(j).fresh
  BY <1>3 DEF Stale, Jobs
<1>5. Start(w, IF N THEN j ELSE Stale(j))
  BY DEF CalculateNewPosition
<1>6. JobsOK
  BY DEF TypeOK
<1> HIDE DEF j, N
<1>7. CASE N
  <2>1. /\ JobsOK' /\ job[w].pc = "idle" /\ job'[w] = j
        /\ \A x \in Workers \ {w} : job'[x] = job[x]
    BY <1>1, <1>3, <1>5, <1>6, <1>7, StartEffect
  <2> QED
    BY <1>1, <1>3, <1>7, <2>1, AverageBetween DEF N
<1>8. CASE ~N
  <2>1. /\ JobsOK' /\ job[w].pc = "idle" /\ job'[w] = Stale(j)
        /\ \A x \in Workers \ {w} : job'[x] = job[x]
    BY <1>1, <1>4, <1>5, <1>6, <1>8, StartEffect
  <2> QED
    BY <1>4, <2>1
<1> QED
  BY <1>7, <1>8

(* Only a row that is listed belongs to a view.                            *)
LEMMA RowFacts ==
  ASSUME TypeOK
  PROVE  /\ \A v \in Views : In(v) \subseteq Items
         /\ \A v \in Views : \A i \in In(v) :
                row[i] \in Rows /\ row[i].view = v /\ row[i].position \in 0..Top
         /\ \A i \in Items : row[i] \in Rows => row[i].view \in Views
         /\ Gone \notin Rows /\ Never \notin Rows
         /\ Gone.view = None /\ Never.view = None
  BY ViewsAssumption DEF TypeOK, In, Never, Gone, Row, Rows

(* A request that ends without an effect, or has only begun.               *)
LEMMA TypeUnchanged ==
  ASSUME TypeOK, JobsOK', UNCHANGED <<view, row, cells, tied, raced, unseen>>
  PROVE  TypeOK'
  BY DEF TypeOK

-----------------------------------------------------------------------------
(* What InsertRow and UpdateRow do when they write: the row stands in its  *)
(* view at the position computed before, a tie it makes is known unless    *)
(* the request was fresh, and no other request on the view is fresh now.   *)
Placed(w) ==
    LET i == job[w].item
        v == job[w].view
        p == job[w].position
    IN  /\ i \in Items /\ v \in Views /\ p \in 0..Top
        /\ row[i] = Never \/ row[i].view = v
        /\ row' = [row EXCEPT ![i] = Row(v, p)]
        /\ job[w].pc \in {"insertRow", "updateRow"}
        /\ tied' \subseteq SUBSET Items
        /\ \A t \in tied : i \notin t => t \in tied'
        /\ ~job[w].fresh => Ties(i, v, p) \subseteq tied'
        /\ FinishBefore(w, {x \in Workers : job[x].pc \in {"insertRow", "updateRow"}
                                             /\ job[x].view = v})
        /\ UNCHANGED <<view, cells, raced, unseen>>

LEMMA TiesTyped ==
  ASSUME TypeOK, NEW i \in Items, NEW v \in Views, NEW p
  PROVE  Ties(i, v, p) \subseteq SUBSET Items
  BY DEF Ties, In

LEMMA InsertPlaces ==
  ASSUME TypeOK, NEW w \in Workers, InsertRow(w)
  PROVE  Placed(w) \/ (Finish(w) /\ UNCHANGED <<view, row, cells, tied, raced, unseen>>)
<1>1. /\ job[w] \in Jobs /\ job[w].pc = "insertRow"
      /\ job[w].view \in Views /\ job[w].item \in Items
  BY DEF InsertRow, At, TypeOK, JobsOK
<1>2. job[w].position \in Nat
  BY <1>1 DEF Jobs
<1>3. CASE job[w].view \in Listed /\ row[job[w].item] = Never
  <2>1. /\ job[w].position <= Top
        /\ row' = [row EXCEPT ![job[w].item] = Row(job[w].view, job[w].position)]
        /\ tied' = IF job[w].fresh THEN tied
                   ELSE tied \cup Ties(job[w].item, job[w].view, job[w].position)
        /\ FinishBefore(w, {x \in Workers : job[x].pc \in {"insertRow", "updateRow"}
                                             /\ job[x].view = job[w].view})
        /\ UNCHANGED <<view, cells, raced, unseen>>
    BY <1>3 DEF InsertRow
  <2>2. job[w].position \in 0..Top
    BY <1>2, <2>1, ViewsAssumption
  <2>3. Ties(job[w].item, job[w].view, job[w].position) \subseteq SUBSET Items
    BY <1>1, TiesTyped
  <2>4. tied \subseteq SUBSET Items
    BY DEF TypeOK
  <2> QED
    BY <1>1, <1>3, <2>1, <2>2, <2>3, <2>4 DEF Placed
<1>4. CASE ~(job[w].view \in Listed /\ row[job[w].item] = Never)
  BY <1>4 DEF InsertRow
<1> QED
  BY <1>3, <1>4

LEMMA UpdatePlaces ==
  ASSUME TypeOK, NEW w \in Workers, UpdateRow(w)
  PROVE  Placed(w) \/ (Finish(w) /\ UNCHANGED <<view, row, cells, tied, raced, unseen>>)
<1>1. /\ job[w] \in Jobs /\ job[w].pc = "updateRow"
      /\ job[w].view \in Views /\ job[w].item \in Items
  BY DEF UpdateRow, At, TypeOK, JobsOK
<1>2. job[w].position \in Nat
  BY <1>1 DEF Jobs
<1> DEFINE i == job[w].item
           v == job[w].view
           p == job[w].position
<1>3. CASE i \in In(v)
  <2>1. /\ p <= Top
        /\ row' = [row EXCEPT ![i].position = p]
        /\ tied' = TiesWithout(i) \cup IF job[w].fresh THEN {} ELSE Ties(i, v, p)
        /\ FinishBefore(w, {x \in Workers : job[x].pc \in {"insertRow", "updateRow"}
                                             /\ job[x].view = v})
        /\ UNCHANGED <<view, cells, raced, unseen>>
    BY <1>3 DEF UpdateRow
  <2>2. p \in 0..Top
    BY <1>2, <2>1, ViewsAssumption
  <2>3. Ties(i, v, p) \subseteq SUBSET Items
    BY <1>1, TiesTyped
  <2>4. TiesWithout(i) \subseteq SUBSET Items /\ \A t \in tied : i \notin t => t \in TiesWithout(i)
    BY DEF TypeOK, TiesWithout
  <2>5. row[i] \in Rows /\ row[i].view = v
    BY <1>1, <1>3, RowFacts
  <2>6. [row[i] EXCEPT !.position = p] = Row(v, p)
    BY <2>5 DEF Rows, Row
  <2>7. row' = [row EXCEPT ![i] = Row(v, p)]
    BY <2>1, <2>6
  <2> QED
    BY <1>1, <2>1, <2>2, <2>3, <2>4, <2>5, <2>7 DEF Placed
<1>4. CASE i \notin In(v)
  BY <1>4 DEF UpdateRow
<1> QED
  BY <1>3, <1>4

LEMMA PlacedType ==
  ASSUME TypeOK, NEW w \in Workers, Placed(w)
  PROVE  TypeOK'
<1>1. JobsOK'
  BY FinishBeforeEffect DEF Placed, TypeOK
<1>2. Row(job[w].view, job[w].position) \in Rows
  BY DEF Placed, Row, Rows
<1>3. row' \in [Items -> {Never, Gone} \cup Rows]
  BY <1>2 DEF Placed, TypeOK
<1> QED
  BY <1>1, <1>3 DEF Placed, TypeOK

(* Every step keeps the shape.                                             *)
LEMMA TypeStep == TypeOK /\ [Next]_vars => TypeOK'
<1> SUFFICES ASSUME TypeOK, [Next]_vars PROVE TypeOK'
  OBVIOUS
<1> USE DEF history
<1>0. JobsOK
  BY DEF TypeOK
<1>1. ASSUME NEW w \in Workers, Arrange(w) \/ Show(w) \/ Drop(w) \/ Refuse(w)
      PROVE  TypeOK'
  <2>1. ASSUME NEW i \in Items, NEW p \in NextPosition(Of[i]),
               GetNextPosition(w, Of[i], i, p)
        PROVE  TypeOK'
    <3> DEFINE j == [Idle EXCEPT !.pc = "insertRow", !.view = Of[i], !.item = i,
                                 !.position = p, !.fresh = TRUE]
    <3>1. Of[i] \in Views
      BY ViewsAssumption
    <3>2. p \in Nat
      BY <3>1, NextBehind
    <3>3. j \in Jobs /\ j.pc = "insertRow" /\ j.view = Of[i] /\ j.item = i
      BY <3>1, <3>2 DEF Idle, Jobs, PCs
    <3>4. Start(w, j)
      BY <2>1 DEF GetNextPosition
    <3> HIDE DEF j
    <3>5. JobsOK'
      BY <1>0, <3>1, <3>3, <3>4, StartEffect
    <3> QED
      BY <2>1, <3>5, TypeUnchanged DEF GetNextPosition
  <2>2. CASE InsertRow(w)
    BY <1>0, <2>2, InsertPlaces, PlacedType, FinishEffect, TypeUnchanged
  <2>3. ASSUME NEW v \in Views, NEW prev \in Items \cup {None}, NEW next \in Items \cup {None},
               NEW i \in In(v), NEW p \in Average(v, prev, next),
               CalculateNewPosition(w, v, i, prev, next, p)
        PROVE  TypeOK'
    BY <2>3, MoveEffect, TypeUnchanged DEF CalculateNewPosition
  <2>4. CASE UpdateRow(w)
    BY <1>0, <2>4, UpdatePlaces, PlacedType, FinishEffect, TypeUnchanged
  <2>5. ASSUME NEW v \in Listed, NEW c \in Columns, UpdateCell(w, v, c) PROVE TypeOK'
    <3> DEFINE j == [Idle EXCEPT !.pc = "insertCell", !.view = v, !.item = c,
                                 !.fresh = cells[v][c] = 0]
    <3>1. v \in Views
      BY DEF Listed
    <3>2. j \in Jobs /\ j.pc = "insertCell" /\ j.view = v /\ j.item = c
      BY <3>1 DEF Idle, Jobs, PCs
    <3>3. Start(w, j)
      BY <2>5 DEF UpdateCell
    <3> HIDE DEF j
    <3>4. JobsOK'
      BY <1>0, <3>1, <3>2, <3>3, StartEffect
    <3> QED
      BY <2>5, <3>4, TypeUnchanged DEF UpdateCell
  <2>6. CASE InsertCell(w)
    <3>1. job[w].view \in Views /\ job[w].item \in Columns
      BY <1>0, <2>6 DEF InsertCell, At, JobsOK
    <3>2. JobsOK'
      BY <1>0, <2>6, FinishEffect, FinishBeforeEffect DEF InsertCell
    <3>3. cells' \in [Views -> [Columns -> Nat]]
      <4>1. CASE cells' = cells
        BY <4>1 DEF TypeOK
      <4>2. CASE cells' = [cells EXCEPT ![job[w].view][job[w].item] = @ + 1]
        <5>1. cells[job[w].view][job[w].item] + 1 \in Nat
          BY <3>1 DEF TypeOK
        <5> QED
          BY <4>2, <5>1, <3>1 DEF TypeOK
      <4> QED
        BY <2>6, <4>1, <4>2 DEF InsertCell
    <3>4. unseen' \subseteq Views \X Columns
      BY <2>6, <3>1 DEF InsertCell, TypeOK
    <3> QED
      BY <2>6, <3>2, <3>3, <3>4 DEF InsertCell, TypeOK
  <2>7. ASSUME NEW v \in Views, CountViewsByTable(w, v) PROVE TypeOK'
    <3> DEFINE j == [Idle EXCEPT !.pc = "deleteView", !.view = v, !.fresh = TRUE]
    <3>1. j \in Jobs /\ j.pc = "deleteView" /\ j.view = v
      BY DEF Idle, Jobs, PCs
    <3>2. Start(w, j)
      BY <2>7 DEF CountViewsByTable
    <3> HIDE DEF j
    <3>3. JobsOK'
      BY <1>0, <3>1, <3>2, StartEffect
    <3> QED
      BY <2>7, <3>3, TypeUnchanged DEF CountViewsByTable
  <2>8. CASE DeleteView(w)
    <3>1. job[w].view \in Views
      BY <1>0, <2>8 DEF DeleteView, At, JobsOK
    <3>2. JobsOK'
      BY <1>0, <2>8, FinishBeforeEffect DEF DeleteView
    <3>3. /\ view' \in [Views -> {"never", "listed", "gone"}]
          /\ row' \in [Items -> {Never, Gone} \cup Rows]
          /\ cells' \in [Views -> [Columns -> Nat]]
      BY <2>8, <3>1 DEF DeleteView, TypeOK
    <3>4. raced' \in BOOLEAN
      BY <2>8 DEF DeleteView, TypeOK
    <3> QED
      BY <2>8, <3>2, <3>3, <3>4 DEF DeleteView, TypeOK
  <2>9. CASE Refuse(w)
    BY <1>0, <2>9, FinishEffect, TypeUnchanged DEF Refuse
  <2> QED
    BY <1>1, <2>1, <2>2, <2>3, <2>4, <2>5, <2>6, <2>7, <2>8, <2>9
       DEF Arrange, Show, Drop
<1>2. ASSUME NEW i \in Items, DeleteRow(i) PROVE TypeOK'
  <2>1. row' \in [Items -> {Never, Gone} \cup Rows]
    BY <1>2 DEF DeleteRow, TypeOK
  <2>2. JobsOK'
    BY <1>0, <1>2 DEF DeleteRow, JobsOK
  <2> QED
    BY <1>2, <2>1, <2>2 DEF DeleteRow, TypeOK
<1>3. ASSUME NEW v \in Views, InsertView(v) PROVE TypeOK'
  <2>1. view' \in [Views -> {"never", "listed", "gone"}]
    BY <1>3 DEF InsertView, TypeOK
  <2>2. JobsOK'
    BY <1>0, <1>3 DEF InsertView, JobsOK
  <2> QED
    BY <1>3, <2>1, <2>2 DEF InsertView, TypeOK
<1>4. CASE Crash
  BY <1>4, CrashEffect, TypeUnchanged DEF Crash
<1>5. CASE UNCHANGED vars
  <2>1. JobsOK'
    BY <1>0, <1>5 DEF JobsOK, vars
  <2> QED
    BY <1>5, <2>1, TypeUnchanged DEF vars
<1> QED
  BY <1>1, <1>2, <1>3, <1>4, <1>5 DEF Next

(* Views, items, cells and requests keep their shape; a position never     *)
(* exceeds what its column holds.                                          *)
THEOREM TypeCorrect == Spec => []TypeOK
  BY TypeInit, TypeStep, PTL DEF Spec

-----------------------------------------------------------------------------
(* What FreshApart and FreshBetween say of one request.                    *)
Apart(j) ==
    j.fresh /\ j.pc \in {"insertRow", "updateRow"} =>
        \A i \in In(j.view) \ {j.item} : row[i].position # j.position
Between(j) ==
    j.fresh /\ j.pc = "updateRow" =>
        /\ j.prev \in In(j.view) => row[j.prev].position < j.position
        /\ j.next \in In(j.view) => j.position < row[j.next].position

(* The order of the items, which these parts keep together.                *)
Order == NoSilentTie /\ FreshApart /\ FreshBetween

(* A step that only takes rows away, and after which a request remembers   *)
(* what it did before, nothing fresh, or what holds now.                   *)
LEMMA ShrinkKeeps ==
  ASSUME TypeOK, TypeOK', Order, tied' = tied,
         \A i \in Items : row'[i] = row[i] \/ row'[i] = Gone,
         \A x \in Workers : \/ job'[x] = job[x] \/ ~job'[x].fresh
                            \/ (Apart(job'[x]) /\ Between(job'[x]))
  PROVE  Order'
<1>1. \A v \in Views : \A i \in In(v)' : i \in In(v) /\ row'[i] = row[i]
  BY RowFacts, ViewsAssumption DEF In
<1>2. NoSilentTie'
  BY RowFacts DEF NoSilentTie, Order
<1>3. \A x \in Workers : ~job'[x].fresh \/ (Apart(job'[x]) /\ Between(job'[x]))
  BY DEF Order, FreshApart, FreshBetween, Apart, Between
<1>4. \A x \in Workers : job'[x].pc # "idle" => job'[x].view \in Views
  BY DEF TypeOK, JobsOK
<1>5. FreshApart'
  BY <1>1, <1>3, <1>4 DEF FreshApart, Apart
<1>6. FreshBetween'
  BY <1>1, <1>3, <1>4 DEF FreshBetween, Between
<1> QED
  BY <1>2, <1>5, <1>6 DEF Order

(* A step that writes a row.                                               *)
LEMMA PlacedKeeps ==
  ASSUME TypeOK, TypeOK', Order, NEW w \in Workers, Placed(w)
  PROVE  Order'
<1> DEFINE i == job[w].item
           v == job[w].view
           p == job[w].position
<1>1. /\ i \in Items /\ v \in Views /\ p \in 0..Top
      /\ row[i] = Never \/ row[i].view = v
      /\ row' = [row EXCEPT ![i] = Row(v, p)]
      /\ job[w].pc \in {"insertRow", "updateRow"}
      /\ \A t \in tied : i \notin t => t \in tied'
      /\ ~job[w].fresh => Ties(i, v, p) \subseteq tied'
  BY DEF Placed
<1>2. row'[i] = Row(v, p) /\ \A k \in Items \ {i} : row'[k] = row[k]
  BY <1>1 DEF TypeOK
<1>3. Row(v, p).view = v /\ Row(v, p).position = p
  BY DEF Row
<1>4. job[w].fresh => \A k \in In(v) \ {i} : row[k].position # p
  BY <1>1 DEF Order, FreshApart
<1>5. \A k \in Items \ {i} : row[k] = Row(v, p) => {i, k} \in tied'
  <2> SUFFICES ASSUME NEW k \in Items \ {i}, row[k] = Row(v, p)
               PROVE  {i, k} \in tied'
    OBVIOUS
  <2>1. k \in In(v) \ {i} /\ row[k].position = p
    BY <1>3 DEF In
  <2>2. ~job[w].fresh
    BY <1>4, <2>1
  <2>3. {i, k} \in Ties(i, v, p)
    BY <2>1 DEF Ties
  <2> QED
    BY <1>1, <2>2, <2>3
<1>6. NoSilentTie'
  <2> SUFFICES ASSUME NEW a \in Items, NEW b \in Items, a # b,
                      row'[a] \in Rows, row'[b] = row'[a]
               PROVE  {a, b} \in tied'
    BY DEF NoSilentTie, Rows
  <2>1. CASE a = i
    BY <1>2, <1>5, <2>1
  <2>2. CASE b = i
    <3>1. {b, a} \in tied'
      BY <1>2, <1>5, <2>2
    <3> QED
      BY <3>1
  <2>3. CASE a # i /\ b # i
    <3>1. {a, b} \in tied
      BY <1>2, <2>3 DEF NoSilentTie, Order
    <3> QED
      BY <1>1, <2>3, <3>1
  <2> QED
    BY <2>1, <2>2, <2>3
<1>7. ASSUME NEW x \in Workers, job'[x].fresh, job'[x].pc \in {"insertRow", "updateRow"}
      PROVE  job'[x] = job[x] /\ job[x].view \in Views /\ job[x].view # v
  <2>1. JobsOK
    BY DEF TypeOK
  <2>2. /\ job'[w] = Idle
        /\ \A y \in Workers \ {w} :
              IF y \in {z \in Workers : job[z].pc \in {"insertRow", "updateRow"}
                                         /\ job[z].view = v}
              THEN ~job'[y].fresh ELSE job'[y] = job[y]
    BY <2>1, FinishBeforeEffect DEF Placed
  <2>3. x # w
    BY <1>7, <2>2 DEF Idle
  <2>4. job'[x] = job[x]
    BY <1>7, <2>2, <2>3
  <2>5. job[x].view \in Views
    BY <1>7, <2>1, <2>4 DEF JobsOK
  <2> QED
    BY <1>7, <2>2, <2>3, <2>4, <2>5
<1>8. \A u \in Views \ {v} : \A k \in In(u)' : k \in In(u) /\ row'[k] = row[k]
  BY <1>2, <1>3 DEF In
<1>9. FreshApart'
  BY <1>7, <1>8 DEF FreshApart, Order
<1>10. FreshBetween'
  BY <1>7, <1>8 DEF FreshBetween, Order
<1> QED
  BY <1>6, <1>9, <1>10 DEF Order

(* A request that ends remembers nothing fresh, and makes nobody's memory  *)
(* fresh.                                                                  *)
LEMMA EndKeeps ==
  ASSUME TypeOK, NEW w \in Workers, NEW S, Finish(w) \/ FinishBefore(w, S) \/ Crash
  PROVE  \A x \in Workers : job'[x] = job[x] \/ ~job'[x].fresh
<1>1. JobsOK /\ Idle.fresh = FALSE
  BY DEF TypeOK, Idle
<1>2. CASE Finish(w)
  BY <1>1, <1>2, FinishEffect
<1>3. CASE FinishBefore(w, S)
  BY <1>1, <1>3, FinishBeforeEffect
<1>4. CASE Crash
  BY <1>1, <1>4, CrashEffect
<1> QED
  BY <1>2, <1>3, <1>4

LEMMA OrderStep ==
  ASSUME TypeOK, TypeOK', Order, [Next]_vars
  PROVE  Order'
<1> USE DEF history
<1>0. JobsOK
  BY DEF TypeOK
<1>1. ASSUME NEW w \in Workers, Arrange(w) \/ Show(w) \/ Drop(w) \/ Refuse(w)
      PROVE  Order'
  <2>1. ASSUME NEW i \in Items, NEW p \in NextPosition(Of[i]),
               GetNextPosition(w, Of[i], i, p)
        PROVE  Order'
    <3> DEFINE j == [Idle EXCEPT !.pc = "insertRow", !.view = Of[i], !.item = i,
                                 !.position = p, !.fresh = TRUE]
    <3>1. Of[i] \in Views
      BY ViewsAssumption
    <3>2. p \in Nat /\ \A k \in In(Of[i]) : row[k].position < p
      BY <3>1, NextBehind
    <3>3. j.pc = "insertRow" /\ j.view = Of[i] /\ j.item = i /\ j.position = p
      BY DEF Idle
    <3>4. job' = [job EXCEPT ![w] = j]
      BY <2>1 DEF GetNextPosition, Start
    <3> HIDE DEF j
    <3>5. \A k \in In(Of[i]) : row[k].position # p
      BY <3>1, <3>2, RowFacts
    <3>6. job'[w] = j /\ \A x \in Workers \ {w} : job'[x] = job[x]
      BY <1>0, <3>4 DEF JobsOK
    <3>7. Apart(job'[w]) /\ Between(job'[w])
      BY <3>3, <3>5, <3>6 DEF Apart, Between
    <3> QED
      BY <2>1, <3>6, <3>7, ShrinkKeeps DEF GetNextPosition
  <2>2. CASE InsertRow(w)
    BY <2>2, InsertPlaces, PlacedKeeps, EndKeeps, ShrinkKeeps
  <2>3. ASSUME NEW v \in Views, NEW prev \in Items \cup {None}, NEW next \in Items \cup {None},
               NEW i \in In(v), NEW p \in Average(v, prev, next),
               CalculateNewPosition(w, v, i, prev, next, p)
        PROVE  Order'
    <3>1. /\ \A x \in Workers \ {w} : job'[x] = job[x]
          /\ job'[w].pc = "updateRow"
          /\ job'[w].fresh =>
              /\ job'[w].view = v /\ job'[w].item = i /\ job'[w].position = p
              /\ job'[w].prev \in In(v) => row[job'[w].prev].position < p
              /\ job'[w].next \in In(v) => p < row[job'[w].next].position
              /\ \A j \in In(v) \ {i} : row[j].position # p
      BY <2>3, MoveEffect
    <3>2. ~job'[w].fresh \/ (Apart(job'[w]) /\ Between(job'[w]))
      BY <3>1 DEF Apart, Between
    <3> QED
      BY <2>3, <3>1, <3>2, ShrinkKeeps DEF CalculateNewPosition
  <2>4. CASE UpdateRow(w)
    BY <2>4, UpdatePlaces, PlacedKeeps, EndKeeps, ShrinkKeeps
  <2>5. ASSUME NEW v \in Listed, NEW c \in Columns, UpdateCell(w, v, c) PROVE Order'
    <3>1. /\ job'[w].pc = "insertCell"
          /\ \A x \in Workers \ {w} : job'[x] = job[x]
      BY <1>0, <2>5 DEF UpdateCell, Start, Idle, JobsOK
    <3>2. Apart(job'[w]) /\ Between(job'[w])
      BY <3>1 DEF Apart, Between
    <3> QED
      BY <2>5, <3>1, <3>2, ShrinkKeeps DEF UpdateCell
  <2>6. CASE InsertCell(w)
    <3>1. \A x \in Workers : job'[x] = job[x] \/ ~job'[x].fresh
      BY <2>6, EndKeeps DEF InsertCell
    <3> QED
      BY <2>6, <3>1, ShrinkKeeps DEF InsertCell
  <2>7. ASSUME NEW v \in Views, CountViewsByTable(w, v) PROVE Order'
    <3>1. /\ job'[w].pc = "deleteView"
          /\ \A x \in Workers \ {w} : job'[x] = job[x]
      BY <1>0, <2>7 DEF CountViewsByTable, Start, Idle, JobsOK
    <3>2. Apart(job'[w]) /\ Between(job'[w])
      BY <3>1 DEF Apart, Between
    <3> QED
      BY <2>7, <3>1, <3>2, ShrinkKeeps DEF CountViewsByTable
  <2>8. CASE DeleteView(w)
    <3>1. \A x \in Workers : job'[x] = job[x] \/ ~job'[x].fresh
      BY <2>8, EndKeeps DEF DeleteView
    <3>2. \A i \in Items : row'[i] = row[i] \/ row'[i] = Gone
      BY <2>8 DEF DeleteView
    <3> QED
      BY <2>8, <3>1, <3>2, ShrinkKeeps DEF DeleteView
  <2>9. CASE Refuse(w)
    BY <2>9, EndKeeps, ShrinkKeeps DEF Refuse
  <2> QED
    BY <1>1, <2>1, <2>2, <2>3, <2>4, <2>5, <2>6, <2>7, <2>8, <2>9
       DEF Arrange, Show, Drop
<1>2. ASSUME NEW i \in Items, DeleteRow(i) PROVE Order'
  <2>1. \A k \in Items : row'[k] = row[k] \/ row'[k] = Gone
    BY <1>2 DEF DeleteRow, TypeOK
  <2> QED
    BY <1>2, <2>1, ShrinkKeeps DEF DeleteRow
<1>3. ASSUME NEW v \in Views, InsertView(v) PROVE Order'
  BY <1>3, ShrinkKeeps DEF InsertView
<1>4. CASE Crash
  <2>1. \A x \in Workers : ~job'[x].fresh
    BY <1>4, CrashEffect DEF Idle
  <2> QED
    BY <1>4, <2>1, ShrinkKeeps DEF Crash
<1>5. CASE UNCHANGED vars
  BY <1>5, ShrinkKeeps DEF vars
<1> QED
  BY <1>1, <1>2, <1>3, <1>4, <1>5 DEF Next

-----------------------------------------------------------------------------
(* What a request on a column's place or visibility rests on.              *)
Cells == OneCell /\ NothingUnseen /\ FreshEmpty

(* A step that inserts no row for a column, and after which no request     *)
(* takes for missing a row that is there.                                  *)
LEMMA CellsKept ==
  ASSUME TypeOK, TypeOK', Cells, unseen' = unseen,
         \A v \in Views, c \in Columns : cells'[v][c] = cells[v][c] \/ cells'[v][c] = 0,
         \A x \in Workers : \/ job'[x] = job[x] \/ ~job'[x].fresh
                            \/ job'[x].pc # "insertCell"
                            \/ cells[job'[x].view][job'[x].item] = 0
  PROVE  Cells'
<1>1. OneCell' /\ NothingUnseen'
  BY DEF Cells, OneCell, NothingUnseen
<1>2. \A x \in Workers : job'[x].fresh /\ job'[x].pc = "insertCell" =>
          /\ cells[job'[x].view][job'[x].item] = 0
          /\ job'[x].view \in Views /\ job'[x].item \in Columns
  BY DEF Cells, FreshEmpty, TypeOK, JobsOK
<1>3. FreshEmpty'
  BY <1>2 DEF FreshEmpty
<1> QED
  BY <1>1, <1>3 DEF Cells

LEMMA CellsStep ==
  ASSUME TypeOK, TypeOK', Cells, [Next]_vars
  PROVE  Cells'
<1> USE DEF history
<1>0. JobsOK
  BY DEF TypeOK
<1>1. ASSUME NEW w \in Workers, Arrange(w) \/ Show(w) \/ Drop(w) \/ Refuse(w)
      PROVE  Cells'
  <2>1. ASSUME NEW i \in Items, NEW p \in NextPosition(Of[i]),
               GetNextPosition(w, Of[i], i, p)
        PROVE  Cells'
    <3>1. job'[w].pc = "insertRow" /\ \A x \in Workers \ {w} : job'[x] = job[x]
      BY <1>0, <2>1 DEF GetNextPosition, Start, Idle, JobsOK
    <3> QED
      BY <2>1, <3>1, CellsKept DEF GetNextPosition
  <2>2. CASE InsertRow(w)
    BY <2>2, InsertPlaces, EndKeeps, CellsKept DEF Placed
  <2>3. ASSUME NEW v \in Views, NEW prev \in Items \cup {None}, NEW next \in Items \cup {None},
               NEW i \in In(v), NEW p \in Average(v, prev, next),
               CalculateNewPosition(w, v, i, prev, next, p)
        PROVE  Cells'
    <3>1. job'[w].pc = "updateRow" /\ \A x \in Workers \ {w} : job'[x] = job[x]
      BY <2>3, MoveEffect
    <3> QED
      BY <2>3, <3>1, CellsKept DEF CalculateNewPosition
  <2>4. CASE UpdateRow(w)
    BY <2>4, UpdatePlaces, EndKeeps, CellsKept DEF Placed
  <2>5. ASSUME NEW v \in Listed, NEW c \in Columns, UpdateCell(w, v, c) PROVE Cells'
    <3>1. /\ job'[w].view = v /\ job'[w].item = c
          /\ job'[w].fresh = (cells[v][c] = 0)
          /\ \A x \in Workers \ {w} : job'[x] = job[x]
      BY <1>0, <2>5 DEF UpdateCell, Start, Idle, JobsOK
    <3> QED
      BY <2>5, <3>1, CellsKept DEF UpdateCell
  <2>6. CASE InsertCell(w)
    <3> DEFINE v == job[w].view
               c == job[w].item
    <3>1. v \in Views /\ c \in Columns /\ job[w].pc = "insertCell"
      BY <1>0, <2>6 DEF InsertCell, At, JobsOK
    <3>2. CASE cells[v][c] = 0
      <4> DEFINE S == {x \in Workers : job[x].pc = "insertCell"
                                        /\ job[x].view = v /\ job[x].item = c}
      <4>1. cells' = [cells EXCEPT ![v][c] = @ + 1] /\ unseen' = unseen /\ FinishBefore(w, S)
        BY <2>6, <3>2 DEF InsertCell
      <4>2. cells'[v][c] = 1
        BY <3>1, <3>2, <4>1 DEF TypeOK
      <4>3. \A y \in Views, d \in Columns :
                <<y, d>> # <<v, c>> => cells'[y][d] = cells[y][d]
        BY <4>1 DEF TypeOK
      <4>4. OneCell' /\ NothingUnseen'
        BY <4>1, <4>2, <4>3 DEF Cells, OneCell, NothingUnseen
      <4>5. /\ job'[w] = Idle
            /\ \A x \in Workers \ {w} :
                  IF x \in S THEN ~job'[x].fresh ELSE job'[x] = job[x]
        BY <1>0, <4>1, FinishBeforeEffect
      <4>6. ASSUME NEW x \in Workers, job'[x].fresh, job'[x].pc = "insertCell"
            PROVE  cells'[job'[x].view][job'[x].item] = 0
        <5>1. x # w /\ x \notin S /\ job'[x] = job[x]
          BY <4>5, <4>6 DEF Idle
        <5>2. job[x].view \in Views /\ job[x].item \in Columns
          BY <1>0, <4>6, <5>1 DEF JobsOK
        <5>3. cells[job[x].view][job[x].item] = 0
          BY <4>6, <5>1 DEF Cells, FreshEmpty
        <5>4. <<job[x].view, job[x].item>> # <<v, c>>
          BY <4>6, <5>1
        <5> QED
          BY <4>3, <5>1, <5>2, <5>3, <5>4
      <4>7. FreshEmpty'
        BY <4>6 DEF FreshEmpty
      <4> QED
        BY <4>4, <4>7 DEF Cells
    <3>3. CASE cells[v][c] # 0
      <4>1. ~job[w].fresh
        BY <3>1, <3>3 DEF Cells, FreshEmpty
      <4>2. unseen' = unseen /\ cells' = cells /\ Finish(w)
        BY <2>6, <3>3, <4>1 DEF InsertCell
      <4> QED
        BY <4>2, EndKeeps, CellsKept
    <3> QED
      BY <3>2, <3>3
  <2>7. ASSUME NEW v \in Views, CountViewsByTable(w, v) PROVE Cells'
    <3>1. job'[w].pc = "deleteView" /\ \A x \in Workers \ {w} : job'[x] = job[x]
      BY <1>0, <2>7 DEF CountViewsByTable, Start, Idle, JobsOK
    <3> QED
      BY <2>7, <3>1, CellsKept DEF CountViewsByTable
  <2>8. CASE DeleteView(w)
    <3>1. \A x \in Workers : job'[x] = job[x] \/ ~job'[x].fresh
      BY <2>8, EndKeeps DEF DeleteView
    <3>2. \A v \in Views, c \in Columns : cells'[v][c] = cells[v][c] \/ cells'[v][c] = 0
      BY <2>8 DEF DeleteView, TypeOK
    <3> QED
      BY <2>8, <3>1, <3>2, CellsKept DEF DeleteView
  <2>9. CASE Refuse(w)
    BY <2>9, EndKeeps, CellsKept DEF Refuse
  <2> QED
    BY <1>1, <2>1, <2>2, <2>3, <2>4, <2>5, <2>6, <2>7, <2>8, <2>9
       DEF Arrange, Show, Drop
<1>2. ASSUME NEW i \in Items, DeleteRow(i) PROVE Cells'
  BY <1>2, CellsKept DEF DeleteRow
<1>3. ASSUME NEW v \in Views, InsertView(v) PROVE Cells'
  BY <1>3, CellsKept DEF InsertView
<1>4. CASE Crash
  <2>1. \A x \in Workers : ~job'[x].fresh
    BY <1>4, CrashEffect DEF Idle
  <2> QED
    BY <1>4, <2>1, CellsKept DEF Crash
<1>5. CASE UNCHANGED vars
  BY <1>5, CellsKept DEF vars
<1> QED
  BY <1>1, <1>2, <1>3, <1>4, <1>5 DEF Next

-----------------------------------------------------------------------------
(* What the deletion of a view rests on.                                   *)
Lists == ViewKept /\ FreshOther

(* A step that removes no view, and after which whoever is about to delete *)
(* one knows of another.                                                   *)
LEMMA ListsKept ==
  ASSUME Lists, Listed \subseteq Listed', raced' = raced,
         \A x \in Workers : \/ job'[x] = job[x] \/ ~job'[x].fresh
                            \/ job'[x].pc # "deleteView"
                            \/ \E u \in Listed : u # job'[x].view
  PROVE  Lists'
<1>1. ViewKept'
  BY DEF Lists, ViewKept
<1>2. FreshOther'
  BY DEF Lists, FreshOther
<1> QED
  BY <1>1, <1>2 DEF Lists

LEMMA ListsStep ==
  ASSUME TypeOK, TypeOK', Lists, [Next]_vars
  PROVE  Lists'
<1> USE DEF history
<1>0. JobsOK
  BY DEF TypeOK
<1>9. view' = view => Listed' = Listed
  BY DEF Listed
<1>1. ASSUME NEW w \in Workers, Arrange(w) \/ Show(w) \/ Drop(w) \/ Refuse(w)
      PROVE  Lists'
  <2>1. ASSUME NEW i \in Items, NEW p \in NextPosition(Of[i]),
               GetNextPosition(w, Of[i], i, p)
        PROVE  Lists'
    <3>1. job'[w].pc = "insertRow" /\ \A x \in Workers \ {w} : job'[x] = job[x]
      BY <1>0, <2>1 DEF GetNextPosition, Start, Idle, JobsOK
    <3> QED
      BY <1>9, <2>1, <3>1, ListsKept DEF GetNextPosition
  <2>2. CASE InsertRow(w)
    BY <1>9, <2>2, InsertPlaces, EndKeeps, ListsKept DEF Placed
  <2>3. ASSUME NEW v \in Views, NEW prev \in Items \cup {None}, NEW next \in Items \cup {None},
               NEW i \in In(v), NEW p \in Average(v, prev, next),
               CalculateNewPosition(w, v, i, prev, next, p)
        PROVE  Lists'
    <3>1. job'[w].pc = "updateRow" /\ \A x \in Workers \ {w} : job'[x] = job[x]
      BY <2>3, MoveEffect
    <3> QED
      BY <1>9, <2>3, <3>1, ListsKept DEF CalculateNewPosition
  <2>4. CASE UpdateRow(w)
    BY <1>9, <2>4, UpdatePlaces, EndKeeps, ListsKept DEF Placed
  <2>5. ASSUME NEW v \in Listed, NEW c \in Columns, UpdateCell(w, v, c) PROVE Lists'
    <3>1. job'[w].pc = "insertCell" /\ \A x \in Workers \ {w} : job'[x] = job[x]
      BY <1>0, <2>5 DEF UpdateCell, Start, Idle, JobsOK
    <3> QED
      BY <1>9, <2>5, <3>1, ListsKept DEF UpdateCell
  <2>6. CASE InsertCell(w)
    <3>1. \A x \in Workers : job'[x] = job[x] \/ ~job'[x].fresh
      BY <2>6, EndKeeps DEF InsertCell
    <3> QED
      BY <1>9, <2>6, <3>1, ListsKept DEF InsertCell
  <2>7. ASSUME NEW v \in Views, CountViewsByTable(w, v) PROVE Lists'
    <3>1. /\ job'[w].view = v
          /\ \A x \in Workers \ {w} : job'[x] = job[x]
      BY <1>0, <2>7 DEF CountViewsByTable, Start, Idle, JobsOK
    <3>2. v \in Listed /\ Cardinality(Listed) > 1
      BY <2>7 DEF CountViewsByTable, AnotherView
    <3>3. \E u \in Listed : u # v
      <4> SUFFICES ASSUME \A u \in Listed : u = v PROVE FALSE
        OBVIOUS
      <4>1. Listed = {v}
        BY <3>2
      <4>2. Cardinality(Listed) = 1
        BY <4>1, FS_Singleton
      <4> QED
        BY <3>2, <4>2
    <3> QED
      BY <1>9, <2>7, <3>1, <3>3, ListsKept DEF CountViewsByTable
  <2>8. CASE DeleteView(w)
    <3> DEFINE v == job[w].view
               S == {x \in Workers : job[x].pc = "deleteView"}
    <3>1. /\ v \in Views /\ job[w].pc = "deleteView"
          /\ view' = [view EXCEPT ![v] = "gone"]
          /\ raced' = (raced \/ ~job[w].fresh)
          /\ FinishBefore(w, S)
      BY <1>0, <2>8 DEF DeleteView, At, JobsOK
    <3>2. Listed \ {v} \subseteq Listed'
      BY <3>1 DEF Listed, TypeOK
    <3>3. job[w].fresh => Listed \ {v} # {}
      BY <3>1 DEF Lists, FreshOther
    <3>4. ViewKept'
      BY <3>1, <3>2, <3>3 DEF ViewKept
    <3>5. /\ job'[w] = Idle
          /\ \A x \in Workers \ {w} :
                IF x \in S THEN ~job'[x].fresh ELSE job'[x] = job[x]
      BY <1>0, <3>1, FinishBeforeEffect
    <3>6. \A x \in Workers : ~(job'[x].fresh /\ job'[x].pc = "deleteView")
      BY <3>5 DEF Idle
    <3>7. FreshOther'
      BY <3>6 DEF FreshOther
    <3> QED
      BY <3>4, <3>7 DEF Lists
  <2>9. CASE Refuse(w)
    BY <1>9, <2>9, EndKeeps, ListsKept DEF Refuse
  <2> QED
    BY <1>1, <2>1, <2>2, <2>3, <2>4, <2>5, <2>6, <2>7, <2>8, <2>9
       DEF Arrange, Show, Drop
<1>2. ASSUME NEW i \in Items, DeleteRow(i) PROVE Lists'
  BY <1>2, <1>9, ListsKept DEF DeleteRow
<1>3. ASSUME NEW v \in Views, InsertView(v) PROVE Lists'
  <2>1. Listed \subseteq Listed'
    BY <1>3 DEF InsertView, Listed, TypeOK
  <2> QED
    BY <1>3, <2>1, ListsKept DEF InsertView
<1>4. CASE Crash
  <2>1. \A x \in Workers : ~job'[x].fresh
    BY <1>4, CrashEffect DEF Idle
  <2> QED
    BY <1>4, <1>9, <2>1, ListsKept DEF Crash
<1>5. CASE UNCHANGED vars
  BY <1>5, <1>9, ListsKept DEF vars
<1> QED
  BY <1>1, <1>2, <1>3, <1>4, <1>5 DEF Next

-----------------------------------------------------------------------------
LEMMA InvInit == Init => IInv
<1> SUFFICES ASSUME Init PROVE IInv
  OBVIOUS
<1>1. TypeOK
  BY TypeInit
<1>2. \A w \in Workers : ~job[w].fresh
  BY DEF Init, Idle
<1>3. FreshApart /\ FreshBetween /\ FreshEmpty /\ FreshOther
  BY <1>2 DEF FreshApart, FreshBetween, FreshEmpty, FreshOther
<1>4. NoSilentTie
  BY <1>1, RowFacts DEF Init, NoSilentTie
<1>5. OneCell /\ NothingUnseen
  BY DEF Init, OneCell, NothingUnseen
<1>6. First \in Listed
  BY ViewsAssumption DEF Init, Listed
<1> QED
  BY <1>1, <1>3, <1>4, <1>5, <1>6 DEF IInv, ViewKept

LEMMA InvStep == IInv /\ [Next]_vars => IInv'
<1> SUFFICES ASSUME IInv, [Next]_vars PROVE IInv'
  OBVIOUS
<1>1. TypeOK /\ TypeOK'
  BY TypeStep DEF IInv
<1>2. Order'
  BY <1>1, OrderStep DEF IInv, Order
<1>3. Cells'
  BY <1>1, CellsStep DEF IInv, Cells
<1>4. Lists'
  BY <1>1, ListsStep DEF IInv, Lists
<1> QED
  BY <1>1, <1>2, <1>3, <1>4 DEF IInv, Order, Cells, Lists

(* What a request has read and nobody has written since still holds, in    *)
(* every reachable state.                                                  *)
THEOREM Inductive == Spec => []IInv
  BY InvInit, InvStep, PTL DEF Spec

(* Additions and moves (GetNextFilterPosition, CalculateNewPosition and    *)
(* their siblings for sorts) give two items one position only in a race.   *)
THEOREM TieSafe == Spec => []NoSilentTie
<1>1. IInv => NoSilentTie
  BY DEF IInv
<1> QED
  BY <1>1, Inductive, PTL

(* Columns::ModifyPosition and ModifyVisible store what they answer "OK."  *)
(* to, unless another request inserted the row.                            *)
THEOREM SeenSafe == Spec => []NothingUnseen
<1>1. IInv => NothingUnseen
  BY DEF IInv
<1> QED
  BY <1>1, Inductive, PTL

(* Views::Delete leaves a view, unless two deletions overlap.              *)
THEOREM KeptSafe == Spec => []ViewKept
<1>1. IInv => ViewKept
  BY DEF IInv
<1> QED
  BY <1>1, Inductive, PTL

(* Only the UPDATE itself changes a row and ends the request that moves it.*)
LEMMA MovedStep ==
  ASSUME IInv, [Next]_vars, NEW w \in Workers, job[w].pc = "updateRow",
         job'[w].pc # "updateRow", row' # row
  PROVE  UpdateRow(w)
<1> USE DEF history
<1>0. TypeOK /\ JobsOK
  BY DEF IInv, TypeOK
<1>1. ASSUME NEW x \in Workers, Arrange(x) \/ Show(x) \/ Drop(x) \/ Refuse(x)
      PROVE  UpdateRow(w)
  <2>1. CASE x = w
    BY <1>1, <2>1 DEF Arrange, Show, Drop, Refuse, GetNextPosition, InsertRow,
       CalculateNewPosition, UpdateCell, InsertCell, CountViewsByTable, DeleteView, At, Start
  <2>2. CASE x # w
    <3>1. CASE InsertRow(x) \/ UpdateRow(x)
      <4>1. FinishBefore(x, {z \in Workers : job[z].pc \in {"insertRow", "updateRow"}
                                              /\ job[z].view = job[x].view})
        BY <1>0, <1>1, <3>1, InsertPlaces, UpdatePlaces DEF Placed
      <4>2. job'[w] \in {Stale(job[w]), job[w]}
        BY <2>2, <4>1 DEF FinishBefore
      <4>3. Stale(job[w]).pc = "updateRow"
        BY <1>0 DEF Stale, JobsOK, Jobs
      <4> QED
        BY <4>2, <4>3
    <3>2. CASE DeleteView(x)
      <4>1. job'[w] = job[w]
        BY <2>2, <3>2 DEF DeleteView, FinishBefore
      <4> QED
        BY <4>1
    <3> QED
      BY <1>1, <3>1, <3>2 DEF Arrange, Show, Drop, Refuse, GetNextPosition,
         CalculateNewPosition, UpdateCell, InsertCell, CountViewsByTable
  <2> QED
    BY <2>1, <2>2
<1>2. ASSUME NEW i \in Items, DeleteRow(i) PROVE UpdateRow(w)
  BY <1>2 DEF DeleteRow
<1>3. ASSUME NEW v \in Views, InsertView(v) PROVE UpdateRow(w)
  BY <1>3 DEF InsertView
<1>4. CASE Crash
  BY <1>4 DEF Crash
<1>5. CASE UNCHANGED vars
  BY <1>5 DEF vars
<1> QED
  BY <1>1, <1>2, <1>3, <1>4, <1>5 DEF Next

(* ModifyPosition puts an item between the neighbours the page named, if   *)
(* they still are neighbours when it writes.                               *)
THEOREM BetweenSafe == Spec => MovedBetween
<1> DEFINE Moved == \A w \in Workers :
        At(w, "updateRow") /\ job[w].fresh /\ ~At(w, "updateRow")' /\ row' # row =>
        /\ job[w].prev \in In(job[w].view) =>
            row[job[w].prev].position < row'[job[w].item].position
        /\ job[w].next \in In(job[w].view) =>
            row'[job[w].item].position < row[job[w].next].position
<1>1. IInv /\ [Next]_vars => Moved
  <2> SUFFICES ASSUME IInv, [Next]_vars, NEW w \in Workers, At(w, "updateRow"), job[w].fresh,
                      ~At(w, "updateRow")', row' # row
               PROVE  /\ job[w].prev \in In(job[w].view) =>
                          row[job[w].prev].position < row'[job[w].item].position
                      /\ job[w].next \in In(job[w].view) =>
                          row'[job[w].item].position < row[job[w].next].position
    OBVIOUS
  <2>1. UpdateRow(w)
    BY MovedStep DEF At
  <2>2. Placed(w)
    BY <2>1, UpdatePlaces DEF IInv
  <2>3. row'[job[w].item] = Row(job[w].view, job[w].position)
    BY <2>2 DEF Placed, IInv, TypeOK
  <2>4. row'[job[w].item].position = job[w].position
    BY <2>3 DEF Row
  <2> QED
    BY <2>4 DEF At, IInv, FreshBetween
<1>2. IInv /\ [Next]_vars => [Moved]_vars
  BY <1>1
<1> HIDE DEF Moved
<1>3. Spec => [][Moved]_vars
  BY <1>2, Inductive, PTL DEF Spec
<1> QED
  BY <1>3 DEF MovedBetween, Moved

=============================================================================
