-------------------------------- MODULE Views --------------------------------
(***************************************************************************)
(* The views of a table and what they arrange: their filters and their     *)
(* sorts (controllers/tables/filters.cpp and sorts.cpp, which treat        *)
(* positions alike), the place and visibility they give columns            *)
(* (ModifyPosition and ModifyVisible of columns.cpp), and the views        *)
(* themselves (views.cpp).                                                 *)
(*                                                                         *)
(* Positions are counted in the least decimal their column keeps.  A page  *)
(* names the neighbours between which an item was dropped as it last read  *)
(* them, and the handler computes the position from what they are by now:  *)
(* in a float of 32 bits, which is finer than the column only up to 128.   *)
(***************************************************************************)
EXTENDS Integers, Sequences, FiniteSets

CONSTANTS
    Views,      \* identifiers of views, each generated once
    First,      \* the view the table was created with
    Items,      \* identifiers of filters or sorts, each generated once
    Of,         \* the view an item is added to
    Columns,    \* the table's; deleting one deletes its rows here too
    Workers,    \* threads of the HTTP server
    Gap,        \* distance of an addition from the last item: 10
    Behind,     \* distance of an item dropped behind the last one: 5
    Unit,       \* 1
    Fine,       \* up to where a float tells positions apart: 128
    Coarse,     \* by how much a float misses a position beyond it, at most
    Top,        \* the greatest position the column of the schema can hold
    None

ASSUME ViewsAssumption ==
    /\ First \in Views
    /\ Of \in [Items -> Views]
    /\ Gap \in Nat \ {0} /\ Behind \in Nat \ {0} /\ Unit \in Nat \ {0} /\ Top \in Nat
    /\ Unit <= Gap
    /\ Fine \in Nat /\ Coarse \in Nat /\ Coarse < Behind
    /\ None \notin Views \cup Items \cup Columns

VARIABLES
    view,       \* rows of `views`: never, listed or gone
    row,        \* rows of `views_filters` or `views_sorts`
    cells,      \* how many rows of `views_columns` a view and a column have:
                \* no key is unique
    job,        \* what each worker is doing
    tied,       \* history: pairs of items whose order a race or a lack of room lost
    raced,      \* history: two deletions of views overlapped
    unseen      \* history: what was answered "OK." and not stored, for no reason

vars == <<view, row, cells, job, tied, raced, unseen>>
history == <<tied, raced, unseen>>

Row(v, p) == [view |-> v, position |-> p]
Never == Row(None, 0)
Gone == Row(None, 1)
Rows == [view : Views, position : 0..Top]

PCs == {"idle", "insertRow", "updateRow", "insertCell", "deleteView"}
Idle == [pc |-> "idle", view |-> None, item |-> None, position |-> 0,
         prev |-> None, next |-> None, fresh |-> FALSE]
Jobs == [pc : PCs, view : Views \cup {None}, item : Items \cup Columns \cup {None},
         position : Nat, prev : Items \cup {None}, next : Items \cup {None},
         fresh : BOOLEAN]

JobsOK ==
    /\ job \in [Workers -> Jobs]
    /\ \A w \in Workers :
        /\ job[w].pc # "idle" => job[w].view \in Views
        /\ job[w].pc \in {"insertRow", "updateRow"} => job[w].item \in Items
        /\ job[w].pc = "insertCell" => job[w].item \in Columns

TypeOK ==
    /\ view \in [Views -> {"never", "listed", "gone"}]
    /\ row \in [Items -> {Never, Gone} \cup Rows]
    /\ cells \in [Views -> [Columns -> Nat]]
    /\ JobsOK
    /\ tied \subseteq SUBSET Items
    /\ raced \in BOOLEAN
    /\ unseen \subseteq Views \X Columns

Init ==
    /\ view = [v \in Views |-> IF v = First THEN "listed" ELSE "never"]
    /\ row = [i \in Items |-> Never]
    /\ cells = [v \in Views |-> [c \in Columns |-> 0]]
    /\ job = [w \in Workers |-> Idle]
    /\ tied = {}
    /\ raced = FALSE
    /\ unseen = {}

At(w, pc) == job[w].pc = pc
Start(w, j) == At(w, "idle") /\ job' = [job EXCEPT ![w] = j]
Finish(w) == job' = [job EXCEPT ![w] = Idle]

(* w ends, and what the others of S have read is out of date.              *)
Stale(j) == [j EXCEPT !.fresh = FALSE, !.prev = None, !.next = None]
FinishBefore(w, S) ==
    job' = [x \in Workers |-> IF x = w THEN Idle
                              ELSE IF x \in S THEN Stale(job[x]) ELSE job[x]]

Listed == {v \in Views : view[v] = "listed"}
In(v) == {i \in Items : row[i].view = v}

GapBefore(x) == {x - Gap}      \* a faulty variant of the next but one

(* What half of x is stored as, after it was a float: AVG and MAX come back*)
(* as one.  A half is rounded either way, and beyond Fine it is missed.    *)
Miss(x) == IF x <= 2 * Fine THEN 0 ELSE Coarse
Near(x) == {q \in (x \div 2) - Miss(x) .. ((x + 1) \div 2) + Miss(x) : q >= 0}

(* How far apart items must be for half of x to come between them.         *)
Room(x) == 2 * Miss(x) + 2

(* A position kept as an int; rounding a float passes no whole number.     *)
Whole(p) == {(q \div Unit) * Unit : q \in p .. p + Miss(2 * p)}

(* The two items of S, or its only one twice: AVG is over what it finds.   *)
Both(S) == {p \in S \X S : {p[1], p[2]} = S}

(* Ties of an item at position p: nothing decides its order.               *)
Ties(i, v, p) == {{i, j} : j \in {k \in In(v) \ {i} : row[k].position = p}}
TiesWithout(i) == {t \in tied : i \notin t}

-----------------------------------------------------------------------------
(* Faulty variants of the steps below, none of them part of Spec: what the *)
(* properties are there to catch.                                          *)
PositionByCount(v) == {(Cardinality(In(v)) + 1) * Gap}

AverageSwapped(v, prev, next) ==
    LET S == {prev, next} \cap In(v)
    IN  IF prev = None THEN UNION {Near(2 * (row[i].position + Behind)) : i \in S}
        ELSE IF next = None THEN UNION {Near(row[i].position) : i \in S}
        ELSE UNION {Near(row[p[1]].position + row[p[2]].position) : p \in Both(S)}

InsertCellOncePerColumn(w) ==
    LET j == job[w] IN
    /\ At(w, "insertCell")
    /\ IF \A v \in Views : cells[v][j.item] = 0
       THEN /\ j.view \in Listed
            /\ cells' = [cells EXCEPT ![j.view][j.item] = 1]
            /\ UNCHANGED unseen
       ELSE /\ unseen' = IF j.fresh THEN unseen \cup {<<j.view, j.item>>} ELSE unseen
            /\ UNCHANGED cells
    /\ Finish(w)
    /\ UNCHANGED <<view, row, tied, raced>>

AnyView(v) == v \in Listed

-----------------------------------------------------------------------------
(* Filters::Add and Sorts::Add.  The sum is kept as an int.                *)
NextPosition(v) ==
    LET Last == {i \in In(v) : \A j \in In(v) : row[j].position <= row[i].position}
    IN  IF In(v) = {} THEN {Gap}
        ELSE UNION {Whole(row[i].position + Gap) : i \in Last}

GetNextPosition(w, v, i, p) ==
    /\ row[i] = Never /\ v \in Listed
    /\ Start(w, [Idle EXCEPT !.pc = "insertRow", !.view = v, !.item = i,
                             !.position = p, !.fresh = TRUE])
    /\ UNCHANGED <<view, row, cells, history>>

(* INSERT ... SELECT inserts nothing when the view is gone, and succeeds.  *)
InsertRow(w) ==
    LET j == job[w] IN
    /\ At(w, "insertRow")
    /\ IF j.view \in Listed /\ row[j.item] = Never
       THEN /\ j.position <= Top
            /\ row' = [row EXCEPT ![j.item] = Row(j.view, j.position)]
            /\ tied' = IF j.fresh THEN tied
                       ELSE tied \cup Ties(j.item, j.view, j.position)
            /\ FinishBefore(w, {x \in Workers : job[x].pc \in {"insertRow", "updateRow"}
                                                 /\ job[x].view = j.view})
       ELSE UNCHANGED <<row, tied>> /\ Finish(w)
    /\ UNCHANGED <<view, cells, raced, unseen>>

-----------------------------------------------------------------------------
(* ModifyPosition: the average of the neighbours that are still there, half*)
(* of the next one's when there was no previous one, and Behind behind the   *)
(* previous one's when there was no next one.                              *)
Average(v, prev, next) ==
    LET S == {prev, next} \cap In(v)
    IN  IF prev = None THEN UNION {Near(row[i].position) : i \in S}
        ELSE IF next = None THEN UNION {Near(2 * (row[i].position + Behind)) : i \in S}
        ELSE UNION {Near(row[p[1]].position + row[p[2]].position) : p \in Both(S)}

(* The neighbours are still next to each other, with room for what a float *)
(* makes of the position between them.                                     *)
Neighbours(v, i, prev, next) ==
    LET Before(j) == prev # None => row[j].position <= row[prev].position
        After(j) == next # None => row[j].position >= row[next].position
    IN  /\ prev # None => prev \in In(v)
        /\ next # None => next \in In(v)
        /\ \A j \in In(v) \ {i} :
            \/ prev # None /\ Before(j)
            \/ next # None /\ After(j)
        /\ IF prev = None THEN row[next].position >= Room(row[next].position)
           ELSE next # None => row[next].position >=
                    row[prev].position + Room(row[prev].position + row[next].position)

CalculateNewPosition(w, v, i, prev, next, p) ==
    /\ i \in In(v)
    /\ prev # next /\ i \notin {prev, next}
    /\ LET j == [Idle EXCEPT !.pc = "updateRow", !.view = v, !.item = i,
                             !.position = p, !.prev = prev, !.next = next, !.fresh = TRUE]
       IN  Start(w, IF Neighbours(v, i, prev, next) THEN j ELSE Stale(j))
    /\ UNCHANGED <<view, row, cells, history>>

UpdateRow(w) ==
    LET j == job[w] IN
    /\ At(w, "updateRow")
    /\ IF j.item \in In(j.view)
       THEN /\ j.position <= Top
            /\ row' = [row EXCEPT ![j.item].position = j.position]
            /\ tied' = TiesWithout(j.item) \cup
                        IF j.fresh THEN {} ELSE Ties(j.item, j.view, j.position)
            /\ FinishBefore(w, {x \in Workers : job[x].pc \in {"insertRow", "updateRow"}
                                                 /\ job[x].view = j.view})
       ELSE UNCHANGED <<row, tied>> /\ Finish(w)
    /\ UNCHANGED <<view, cells, raced, unseen>>

DeleteRow(i) ==
    /\ row[i] \in Rows
    /\ row' = [row EXCEPT ![i] = Gone]
    /\ UNCHANGED <<view, cells, job, history>>

-----------------------------------------------------------------------------
(* ModifyPosition and ModifyVisible of columns: change the row of the view *)
(* and the column, whose place or visibility may be NULL, then insert one  *)
(* if there is none.                                                       *)
UpdateCell(w, v, c) ==
    /\ Start(w, [Idle EXCEPT !.pc = "insertCell", !.view = v, !.item = c,
                             !.fresh = cells[v][c] = 0])
    /\ UNCHANGED <<view, row, cells, history>>

InsertCell(w) ==
    LET j == job[w] IN
    /\ At(w, "insertCell")
    /\ IF cells[j.view][j.item] = 0
       THEN /\ j.view \in Listed
            /\ cells' = [cells EXCEPT ![j.view][j.item] = @ + 1]
            /\ FinishBefore(w, {x \in Workers : job[x].pc = "insertCell"
                                   /\ job[x].view = j.view /\ job[x].item = j.item})
            /\ UNCHANGED unseen
       ELSE /\ unseen' = IF j.fresh THEN unseen \cup {<<j.view, j.item>>} ELSE unseen
            /\ Finish(w)
            /\ UNCHANGED cells
    /\ UNCHANGED <<view, row, tied, raced>>

-----------------------------------------------------------------------------
InsertView(v) ==
    /\ view[v] = "never"
    /\ view' = [view EXCEPT ![v] = "listed"]
    /\ UNCHANGED <<row, cells, job, history>>

AnotherView(v) == v \in Listed /\ Cardinality(Listed) > 1

CountViewsByTable(w, v) ==
    /\ AnotherView(v)
    /\ Start(w, [Idle EXCEPT !.pc = "deleteView", !.view = v, !.fresh = TRUE])
    /\ UNCHANGED <<view, row, cells, history>>

(* What the view arranges goes with it: the foreign keys.                  *)
DeleteView(w) ==
    LET v == job[w].view IN
    /\ At(w, "deleteView")
    /\ view' = [view EXCEPT ![v] = "gone"]
    /\ row' = [i \in Items |-> IF i \in In(v) THEN Gone ELSE row[i]]
    /\ cells' = [cells EXCEPT ![v] = [c \in Columns |-> 0]]
    /\ raced' = (raced \/ ~job[w].fresh)
    /\ FinishBefore(w, {x \in Workers : job[x].pc = "deleteView"})
    /\ UNCHANGED <<tied, unseen>>

-----------------------------------------------------------------------------
(* A statement fails, or the process dies: nothing is undone.              *)
Refuse(w) ==
    /\ ~At(w, "idle")
    /\ Finish(w)
    /\ UNCHANGED <<view, row, cells, history>>

Crash ==
    /\ job' = [w \in Workers |-> Idle]
    /\ UNCHANGED <<view, row, cells, history>>

Arrange(w) ==
    \/ /\ At(w, "idle")
       /\ \/ \E i \in Items : \E p \in NextPosition(Of[i]) :
                GetNextPosition(w, Of[i], i, p)
          \/ \E v \in Views, prev, next \in Items \cup {None} :
                \E i \in In(v), p \in Average(v, prev, next) :
                    CalculateNewPosition(w, v, i, prev, next, p)
    \/ InsertRow(w)
    \/ UpdateRow(w)

Show(w) ==
    \/ \E v \in Listed, c \in Columns : UpdateCell(w, v, c)
    \/ InsertCell(w)

Drop(w) ==
    \/ \E v \in Views : CountViewsByTable(w, v)
    \/ DeleteView(w)

Next ==
    \/ \E w \in Workers : Arrange(w) \/ Show(w) \/ Drop(w) \/ Refuse(w)
    \/ \E i \in Items : DeleteRow(i)
    \/ \E v \in Views : InsertView(v)
    \/ Crash

Spec == Init /\ [][Next]_vars

-----------------------------------------------------------------------------
(* Two filters or two sorts of a view have the same position, and no order *)
(* of their own, only when two requests on the view overlapped, a page was *)
(* out of date, or the room between two neighbours was less than the       *)
(* decimals or, from 128 on, the float the position is computed in need.   *)
NoSilentTie ==
    \A i, j \in Items :
        i # j /\ row[i] \in Rows /\ row[j] = row[i] => {i, j} \in tied

(* An item moves to where it was dropped: between the neighbours the page  *)
(* named, if they still are neighbours when it is written and a float has  *)
(* room between them.                                                      *)
MovedBetween ==
    [][\A w \in Workers :
        At(w, "updateRow") /\ job[w].fresh /\ ~At(w, "updateRow")' /\ row' # row =>
        /\ job[w].prev \in In(job[w].view) =>
            row[job[w].prev].position < row'[job[w].item].position
        /\ job[w].next \in In(job[w].view) =>
            row'[job[w].item].position < row[job[w].next].position]_vars

(* A change of a column's place or visibility that is answered "OK." has   *)
(* been stored, unless another request inserted the row in between.        *)
NothingUnseen == unseen = {}

(* A table keeps a view, unless two deletions overlap.                     *)
ViewKept == Listed # {} \/ raced

-----------------------------------------------------------------------------
(* The inductive invariant of the proofs (ViewsProof).                     *)

(* A view has one row for a column, although no key says so.               *)
OneCell == \A v \in Views, c \in Columns : cells[v][c] <= 1

(* What a request has read and nobody has written since still holds.       *)
FreshApart ==
    \A w \in Workers : job[w].fresh /\ job[w].pc \in {"insertRow", "updateRow"} =>
        \A i \in In(job[w].view) \ {job[w].item} : row[i].position # job[w].position

FreshBetween ==
    \A w \in Workers : job[w].fresh /\ job[w].pc = "updateRow" =>
        /\ job[w].prev \in In(job[w].view) =>
            row[job[w].prev].position < job[w].position
        /\ job[w].next \in In(job[w].view) =>
            job[w].position < row[job[w].next].position

FreshEmpty ==
    \A w \in Workers : job[w].fresh /\ job[w].pc = "insertCell" =>
        cells[job[w].view][job[w].item] = 0

FreshOther ==
    \A w \in Workers : job[w].fresh /\ job[w].pc = "deleteView" =>
        \E v \in Listed : v # job[w].view

IInv ==
    /\ TypeOK
    /\ NoSilentTie
    /\ OneCell
    /\ NothingUnseen
    /\ ViewKept
    /\ FreshApart
    /\ FreshBetween
    /\ FreshEmpty
    /\ FreshOther

=============================================================================
