--------------------------- MODULE ColumnTypesProof ---------------------------
(***************************************************************************)
(* Proofs about ColumnTypes for every number of columns, types, operators, *)
(* filters, records and workers.                                           *)
(***************************************************************************)
EXTENDS ColumnTypes, TLAPS

(* What the assumptions about the constants say of one type.               *)
LEMMA TypeFacts ==
  ASSUME NEW t \in Types
  PROVE  SqlType[t] \in SqlTypes /\ Fits[t] \subseteq Ops
  BY TypesAssumption

(* The requests, as TypeOK describes them.                                 *)
JobsOK ==
    /\ job \in [Workers -> Jobs]
    /\ \A w \in Workers :
        /\ job[w].pc # "idle" => job[w].column \in Columns
        /\ job[w].altered => job[w].pc \in Altered
        /\ job[w].pc \in {"readFilters", "deactivate"} => job[w].altered

LEMMA IdleJob ==
  /\ Idle \in Jobs /\ Idle.pc = "idle" /\ Idle.column = None
  /\ Idle.altered = FALSE /\ Idle.fresh = FALSE
  BY TypesAssumption DEF Idle, Jobs, PCs

(* What the helpers do to the requests.                                    *)
LEMMA FinishEffect ==
  ASSUME JobsOK, NEW w \in Workers, Finish(w)
  PROVE  /\ JobsOK' /\ job'[w] = Idle
         /\ \A x \in Workers \ {w} : job'[x] = job[x]
  BY IdleJob DEF JobsOK, Finish

LEMMA WriteEffect ==
  ASSUME JobsOK, NEW w \in Workers, NEW j \in Jobs, Write(w, j),
         j.pc # "idle" => j.column \in Columns,
         j.altered => j.pc \in Altered,
         j.pc \in {"readFilters", "deactivate"} => j.altered
  PROVE  /\ JobsOK' /\ job'[w] = j
         /\ \A x \in Workers \ {w} :
                /\ job'[x].pc = job[x].pc /\ job'[x].column = job[x].column
                /\ job'[x].type = job[x].type /\ job'[x].confirm = job[x].confirm
                /\ job'[x].invalid = job[x].invalid /\ job'[x].altered = job[x].altered
                /\ job'[x].fresh => job[x].fresh /\ job[x].column # job[w].column
<1> DEFINE Old(x) == [job[x] EXCEPT !.fresh = FALSE]
<1>1. /\ job' \in [Workers -> {job'[x] : x \in Workers}]
      /\ job'[w] = j
      /\ \A x \in Workers \ {w} :
            job'[x] = IF job[x].column = job[w].column THEN Old(x) ELSE job[x]
  BY DEF Write
<1>2. \A x \in Workers : /\ job[x] \in Jobs
                         /\ Old(x) \in Jobs /\ Old(x).fresh = FALSE
                         /\ Old(x).pc = job[x].pc /\ Old(x).column = job[x].column
                         /\ Old(x).type = job[x].type /\ Old(x).confirm = job[x].confirm
                         /\ Old(x).invalid = job[x].invalid
                         /\ Old(x).altered = job[x].altered
  BY DEF JobsOK, Jobs
<1> HIDE DEF Old
<1>3. \A x \in Workers \ {w} :
          /\ job'[x] \in Jobs
          /\ job'[x].pc = job[x].pc /\ job'[x].column = job[x].column
          /\ job'[x].type = job[x].type /\ job'[x].confirm = job[x].confirm
          /\ job'[x].invalid = job[x].invalid /\ job'[x].altered = job[x].altered
          /\ job'[x].fresh => job[x].fresh /\ job[x].column # job[w].column
  BY <1>1, <1>2
<1>4. job' \in [Workers -> Jobs]
  BY <1>1, <1>3 DEF Write
<1>5. JobsOK'
  BY <1>1, <1>3, <1>4 DEF JobsOK
<1> QED
  BY <1>1, <1>3, <1>5

(* A request goes on, and everything but what it remembers stays.          *)
LEMMA GotoEffect ==
  ASSUME JobsOK, NEW w \in Workers, NEW pc \in PCs, Goto(w, pc), pc # "idle",
         job[w].pc # "idle", job[w].altered => pc \in Altered,
         pc \in {"readFilters", "deactivate"} => job[w].altered
  PROVE  /\ JobsOK' /\ job'[w] = [job[w] EXCEPT !.pc = pc]
         /\ \A x \in Workers \ {w} : job'[x] = job[x]
  BY DEF JobsOK, Goto, Jobs


(* What each step of a change does to the requests.                        *)
LEMMA StartEffect ==
  ASSUME JobsOK, NEW w \in Workers, NEW c \in Columns, NEW t \in Types,
         NEW d, NEW k, k \in BOOLEAN,
         GetColumnCurrentInfo(w, c, t, d, k)
  PROVE  /\ JobsOK'
         /\ job'[w].column = c /\ job'[w].type = t
         /\ ~job'[w].altered
         /\ job'[w].pc \in {"count", "default", "update"}
         /\ job'[w].pc = "count" \/ t = meta[c]
         /\ \A x \in Workers \ {w} : job'[x] = job[x]
<1> DEFINE pc == IF t # meta[c] THEN "count" ELSE IF d THEN "default" ELSE "update"
           j == [Idle EXCEPT !.pc = pc, !.column = c, !.type = t,
                             !.confirm = k, !.fresh = TRUE]
<1>1. job' = [job EXCEPT ![w] = j]
  BY DEF GetColumnCurrentInfo
<1>2. pc \in {"count", "default", "update"} /\ (pc # "count" => t = meta[c])
  OBVIOUS
<1> HIDE DEF pc
<1>3. /\ j \in Jobs /\ j.pc = pc /\ j.column = c /\ j.type = t /\ j.confirm = k
      /\ j.altered = FALSE
  BY <1>2, TypesAssumption DEF Idle, Jobs, PCs
<1> HIDE DEF j
<1>4. job'[w] = j /\ \A x \in Workers \ {w} : job'[x] = job[x]
  BY <1>1 DEF JobsOK
<1>5. JobsOK'
  BY <1>1, <1>2, <1>3, <1>4 DEF JobsOK
<1> QED
  BY <1>2, <1>3, <1>4, <1>5

LEMMA ChangeEffect ==
  ASSUME JobsOK, NEW w \in Workers, ChangeColumn(w)
  PROVE  /\ JobsOK'
         /\ job'[w] = [job[w] EXCEPT !.pc = "readFilters", !.altered = TRUE, !.fresh = TRUE]
         /\ \A x \in Workers \ {w} :
                /\ job'[x].pc = job[x].pc /\ job'[x].column = job[x].column
                /\ job'[x].type = job[x].type /\ job'[x].confirm = job[x].confirm
                /\ job'[x].invalid = job[x].invalid /\ job'[x].altered = job[x].altered
                /\ job'[x].fresh => job[x].fresh /\ job[x].column # job[w].column
<1> DEFINE j == [job[w] EXCEPT !.pc = "readFilters", !.altered = TRUE, !.fresh = TRUE]
<1>1. Write(w, j) /\ job[w].pc = "alter"
  BY DEF ChangeColumn, At
<1>2. j \in Jobs /\ j.pc = "readFilters" /\ j.altered = TRUE /\ j.column = job[w].column
  BY DEF JobsOK, Jobs, PCs
<1>3. job[w].column \in Columns
  BY <1>1 DEF JobsOK
<1> HIDE DEF j
<1>4. /\ JobsOK' /\ job'[w] = j
      /\ \A x \in Workers \ {w} :
                /\ job'[x].pc = job[x].pc /\ job'[x].column = job[x].column
                /\ job'[x].type = job[x].type /\ job'[x].confirm = job[x].confirm
                /\ job'[x].invalid = job[x].invalid /\ job'[x].altered = job[x].altered
                /\ job'[x].fresh => job[x].fresh /\ job[x].column # job[w].column
  BY <1>1, <1>2, <1>3, WriteEffect DEF Altered
<1> QED
  BY <1>4 DEF j

LEMMA UpdateEffect ==
  ASSUME JobsOK, NEW w \in Workers, UpdateColumnMetadata(w)
  PROVE  /\ JobsOK' /\ job'[w] = Idle
         /\ \A x \in Workers \ {w} :
                /\ job'[x].pc = job[x].pc /\ job'[x].column = job[x].column
                /\ job'[x].type = job[x].type /\ job'[x].confirm = job[x].confirm
                /\ job'[x].invalid = job[x].invalid /\ job'[x].altered = job[x].altered
                /\ job'[x].fresh => job[x].fresh /\ job[x].column # job[w].column
  BY IdleJob, WriteEffect DEF UpdateColumnMetadata

(* The three steps about filters leave the request with its column, its    *)
(* type, its confirmation and what it knows.                               *)
LEMMA FilterStepEffect ==
  ASSUME JobsOK, NEW w \in Workers, ReadFilters(w) \/ DeactivateFilters(w) \/ SkipFilters(w)
  PROVE  /\ JobsOK'
         /\ job[w].pc \in {"readFilters", "deactivate"} /\ job[w].altered
         /\ job[w].column \in Columns
         /\ job'[w] = [job[w] EXCEPT !.pc = job'[w].pc, !.invalid = job'[w].invalid]
         /\ job'[w].pc \in {"deactivate", "update"}
         /\ ReadFilters(w) =>
              /\ job'[w].invalid = {f \in Filters : /\ filter[f].column = job[w].column
                                                    /\ filter[f].op \notin Fits[job[w].type]}
              /\ job'[w].pc = IF job'[w].invalid = {} THEN "update" ELSE "deactivate"
         /\ ~ReadFilters(w) => job'[w].pc = "update"
         /\ \A x \in Workers \ {w} : job'[x] = job[x]
<1> DEFINE bad == {f \in Filters : /\ filter[f].column = job[w].column
                                   /\ filter[f].op \notin Fits[job[w].type]}
<1>1. /\ job[w].pc \in {"readFilters", "deactivate"} /\ job[w].altered
      /\ job[w].column \in Columns /\ job[w] \in Jobs
  BY DEF ReadFilters, DeactivateFilters, SkipFilters, At, JobsOK
<1>2. \E pc \in {"deactivate", "update"}, inv \in SUBSET Filters :
        /\ job' = [job EXCEPT ![w] = [job[w] EXCEPT !.pc = pc, !.invalid = inv]]
        /\ ReadFilters(w) => inv = bad /\ pc = IF inv = {} THEN "update" ELSE "deactivate"
        /\ ~ReadFilters(w) => pc = "update"
  <2>1. CASE ReadFilters(w)
    <3> DEFINE pc == IF bad = {} THEN "update" ELSE "deactivate"
    <3>1. job' = [job EXCEPT ![w].pc = pc, ![w].invalid = bad]
      BY <2>1 DEF ReadFilters
    <3>2. job' = [job EXCEPT ![w] = [job[w] EXCEPT !.pc = pc, !.invalid = bad]]
      BY <3>1, <1>1 DEF JobsOK
    <3>3. bad \in SUBSET Filters /\ pc \in {"deactivate", "update"}
      OBVIOUS
    <3> QED
      BY <2>1, <3>2, <3>3
  <2>2. CASE ~ReadFilters(w)
    <3>1. job' = [job EXCEPT ![w].pc = "update", ![w].invalid = {}]
      BY <2>2 DEF DeactivateFilters, SkipFilters
    <3>2. job' = [job EXCEPT ![w] = [job[w] EXCEPT !.pc = "update", !.invalid = {}]]
      BY <3>1, <1>1 DEF JobsOK
    <3>3. {} \in SUBSET Filters /\ "update" \in {"deactivate", "update"}
      OBVIOUS
    <3> HIDE DEF bad
    <3> QED
      BY <2>2, <3>2, <3>3
  <2> QED
    BY <2>1, <2>2
<1>3. PICK pc \in {"deactivate", "update"}, inv \in SUBSET Filters :
        /\ job' = [job EXCEPT ![w] = [job[w] EXCEPT !.pc = pc, !.invalid = inv]]
        /\ ReadFilters(w) => inv = bad /\ pc = IF inv = {} THEN "update" ELSE "deactivate"
        /\ ~ReadFilters(w) => pc = "update"
  BY <1>2
<1> DEFINE j == [job[w] EXCEPT !.pc = pc, !.invalid = inv]
<1>4. /\ j \in Jobs /\ j.pc = pc /\ j.invalid = inv /\ j.column = job[w].column
      /\ j.altered = job[w].altered
  BY <1>1 DEF Jobs, PCs
<1>5. job'[w] = j /\ \A x \in Workers \ {w} : job'[x] = job[x]
  BY <1>3 DEF JobsOK
<1>6. JobsOK'
  <2> HIDE DEF j
  <2>1. job' \in [Workers -> Jobs]
    BY <1>3, <1>4, <1>5 DEF JobsOK, j
  <2> QED
    BY <2>1, <1>1, <1>4, <1>5 DEF JobsOK, Altered
<1> QED
  BY <1>1, <1>3, <1>4, <1>5, <1>6

(* The rest of the steps of a change.                                      *)
LEMMA OtherEffect ==
  ASSUME JobsOK, NEW w \in Workers, AlterDefault(w) \/ CountRecords(w)
  PROVE  /\ JobsOK'
         /\ \A x \in Workers \ {w} : job'[x] = job[x]
         /\ \/ job'[w] = Idle
            \/ job'[w] = [job[w] EXCEPT !.pc = "update"] /\ job[w].pc = "default"
            \/ /\ job'[w] = [job[w] EXCEPT !.pc = "alter"] /\ job[w].pc = "count"
               /\ rows # {} => job[w].confirm
<1>1. CASE AlterDefault(w)
  <2>1. /\ job[w].pc = "default" /\ Goto(w, "update") /\ "update" \in PCs
        /\ "update" \in Altered
    BY <1>1 DEF AlterDefault, At, PCs, Altered
  <2> QED
    BY <2>1, GotoEffect
<1>2. CASE CountRecords(w) /\ Finish(w)
  BY <1>2, FinishEffect
<1>3. CASE CountRecords(w) /\ ~(rows # {} /\ ~job[w].confirm)
  <2>1. /\ job[w].pc = "count" /\ Goto(w, "alter") /\ "alter" \in PCs
        /\ rows # {} => job[w].confirm
    BY <1>3, Zenon DEF CountRecords, At, PCs
  <2>2. ~job[w].altered /\ job[w].confirm \in BOOLEAN
    BY <2>1 DEF JobsOK, Jobs, Altered
  <2>3. JobsOK' /\ job'[w] = [job[w] EXCEPT !.pc = "alter"]
        /\ \A x \in Workers \ {w} : job'[x] = job[x]
    BY <2>1, <2>2, GotoEffect
  <2> QED
    BY <2>1, <2>3
<1> QED
  BY <1>1, <1>2, <1>3 DEF CountRecords

LEMMA CrashEffect == Crash => JobsOK' /\ \A w \in Workers : job'[w] = Idle
  BY IdleJob DEF Crash, JobsOK

(* Every variable keeps its type.                                          *)
LEMMA TypeInit == Init => TypeOK
<1> SUFFICES ASSUME Init PROVE TypeOK
  OBVIOUS
<1>1. field \in [Columns -> SqlTypes] /\ meta \in [Columns -> Types]
  BY TypesAssumption DEF Init
<1>2. \A w \in Workers : job[w] = Idle
  BY DEF Init
<1>3. job \in [Workers -> Jobs]
  BY IdleJob DEF Init
<1> QED
  BY <1>1, <1>2, <1>3, IdleJob DEF Init, TypeOK

LEMMA TypeStep == TypeOK /\ [Next]_vars => TypeOK'
<1> SUFFICES ASSUME TypeOK, [Next]_vars PROVE TypeOK'
  OBVIOUS
<1>0. JobsOK
  BY DEF TypeOK, JobsOK
<1>1. ASSUME NEW w \in Workers, Modify(w) PROVE TypeOK'
  <2>1. ASSUME NEW c \in Columns, NEW t \in Types, NEW default \in BOOLEAN,
               NEW confirm \in BOOLEAN, GetColumnCurrentInfo(w, c, t, default, confirm)
        PROVE TypeOK'
    <3>1. JobsOK'
      BY <1>0, <2>1, StartEffect
    <3> QED
      BY <2>1, <3>1 DEF GetColumnCurrentInfo, TypeOK, JobsOK
  <2>2. CASE AlterDefault(w) \/ CountRecords(w)
    <3>1. JobsOK'
      BY <1>0, <2>2, OtherEffect
    <3> QED
      BY <2>2, <3>1 DEF AlterDefault, CountRecords, TypeOK, JobsOK
  <2>3. CASE ChangeColumn(w)
    <3>1. JobsOK' /\ job[w].column \in Columns /\ job[w] \in Jobs
      BY <1>0, <2>3, ChangeEffect DEF ChangeColumn, At, JobsOK
    <3>2. SqlType[job[w].type] \in SqlTypes /\ job[w].confirm \in BOOLEAN
      BY <3>1, TypeFacts DEF Jobs
    <3>3. field' \in [Columns -> SqlTypes] /\ converted' \subseteq rows \X Columns \X BOOLEAN
      <4>1. {<<r, job[w].column, job[w].confirm>> : r \in rows}
              \subseteq rows \X Columns \X BOOLEAN
        BY <3>1, <3>2
      <4>2. field' \in [Columns -> SqlTypes]
        BY <2>3, <3>2 DEF ChangeColumn, TypeOK
      <4>3. converted' \subseteq converted \cup {<<r, job[w].column, job[w].confirm>> : r \in rows}
        BY <2>3 DEF ChangeColumn
      <4>4. converted \subseteq rows \X Columns \X BOOLEAN
        BY DEF TypeOK
      <4> QED
        BY <4>1, <4>2, <4>3, <4>4
    <3> QED
      BY <2>3, <3>1, <3>3 DEF ChangeColumn, TypeOK, JobsOK
  <2>4. CASE ReadFilters(w) \/ DeactivateFilters(w) \/ SkipFilters(w)
    <3>1. JobsOK'
      BY <1>0, <2>4, FilterStepEffect
    <3>2. filter' \in [Filters -> FilterRows \cup {NoFilter}] /\ odd' \subseteq Filters
      <4>1. ASSUME NEW f \in Filters
            PROVE  [filter[f] EXCEPT !.active = FALSE] \in FilterRows \cup {NoFilter}
        <5>1. CASE filter[f] \in FilterRows
          BY <5>1 DEF FilterRows
        <5>2. CASE filter[f] = NoFilter
          <6>1. filter[f] \in [column : {None}, op : {None}, active : {FALSE}]
            BY <5>2 DEF NoFilter
          <6>2. [filter[f] EXCEPT !.active = FALSE] = filter[f]
            BY <6>1
          <6> QED
            BY <5>2, <6>2
        <5> QED
          BY <5>1, <5>2 DEF TypeOK
      <4>2. filter \in [Filters -> FilterRows \cup {NoFilter}] /\ odd \subseteq Filters
        BY DEF TypeOK
      <4> QED
        BY <2>4, <4>1, <4>2 DEF ReadFilters, DeactivateFilters, SkipFilters
    <3> QED
      BY <2>4, <3>1, <3>2 DEF ReadFilters, DeactivateFilters, SkipFilters, TypeOK, JobsOK
  <2>5. CASE UpdateColumnMetadata(w)
    <3>1. JobsOK' /\ job[w].column \in Columns /\ job[w].type \in Types
      BY <1>0, <2>5, UpdateEffect DEF UpdateColumnMetadata, At, JobsOK, Jobs
    <3>2. meta' \in [Columns -> Types] /\ torn' \subseteq Columns
      BY <2>5, <3>1 DEF UpdateColumnMetadata, TypeOK
    <3> QED
      BY <2>5, <3>1, <3>2 DEF UpdateColumnMetadata, TypeOK, JobsOK
  <2> QED
    BY <1>1, <2>1, <2>2, <2>3, <2>4, <2>5 DEF Modify
<1>2. ASSUME NEW w \in Workers, Refuse(w) PROVE TypeOK'
  <2>1. JobsOK' /\ job[w].column \in Columns
    BY <1>0, <1>2, FinishEffect DEF Refuse, At, JobsOK
  <2> QED
    BY <1>2, <2>1 DEF Refuse, TypeOK, JobsOK
<1>3. CASE Crash
  BY <1>0, <1>3, CrashEffect DEF Crash, TypeOK, JobsOK
<1>4. ASSUME NEW f \in Filters, NEW c \in Columns, NEW op \in Ops, NEW active \in BOOLEAN,
             WriteFilter(f, c, op, active)
      PROVE TypeOK'
  BY <1>4 DEF WriteFilter, TypeOK, FilterRows
<1>5. ASSUME NEW r \in Records, AddRecord(r) PROVE TypeOK'
  BY <1>5 DEF AddRecord, TypeOK
<1>6. CASE UNCHANGED vars
  BY <1>6 DEF vars, TypeOK
<1> QED
  BY <1>1, <1>2, <1>3, <1>4, <1>5, <1>6 DEF Next

(* Type correctness.                                                       *)
THEOREM TypeCorrect == Spec => []TypeOK
  BY TypeInit, TypeStep, PTL DEF Spec

-----------------------------------------------------------------------------
(* The parts of the inductive invariant besides the types.                 *)
Parts ==
    /\ TypesAgree
    /\ FiltersFit
    /\ NoUnconfirmedLoss
    /\ FreshAgrees
    /\ Fitting
    /\ Counted

LEMMA InvInit == Init => IInv
<1> SUFFICES ASSUME Init PROVE IInv
  OBVIOUS
<1>1. TypeOK
  BY TypeInit
<1>2. \A w \in Workers : job[w].pc = "idle" /\ job[w].altered = FALSE /\ job[w].fresh = FALSE
  BY IdleJob DEF Init
<1>3. TypesAgree
  BY TypesAssumption DEF Init, TypesAgree
<1>4. FiltersFit /\ NoUnconfirmedLoss
  BY DEF Init, FiltersFit, NoUnconfirmedLoss, NoFilter
<1>5. FreshAgrees /\ Fitting /\ Counted
  BY <1>2 DEF FreshAgrees, Fitting, Counted, At
<1> QED
  BY <1>1, <1>3, <1>4, <1>5 DEF IInv

(* The request is read: it knows the row of its column.                    *)
LEMMA StartInv ==
  ASSUME IInv, JobsOK, NEW w \in Workers, NEW c \in Columns, NEW t \in Types,
         NEW d, NEW k, k \in BOOLEAN,
         GetColumnCurrentInfo(w, c, t, d, k)
  PROVE  Parts'
<1>1. /\ JobsOK'
      /\ job'[w].column = c /\ job'[w].type = t
      /\ ~job'[w].altered
      /\ job'[w].pc \in {"count", "default", "update"}
      /\ job'[w].pc = "count" \/ t = meta[c]
      /\ \A x \in Workers \ {w} : job'[x] = job[x]
  BY StartEffect
<1>2. UNCHANGED <<field, meta, filter, rows, converted, torn, odd, late>>
  BY DEF GetColumnCurrentInfo
<1>3. job[w].pc = "idle" /\ ~job[w].altered
  BY DEF GetColumnCurrentInfo, At, JobsOK, Altered, Jobs
<1>4. TypesAgree'
  BY <1>1, <1>2, <1>3 DEF IInv, TypesAgree
<1>5. FiltersFit' /\ NoUnconfirmedLoss'
  BY <1>2 DEF IInv, FiltersFit, NoUnconfirmedLoss
<1>6. FreshAgrees'
  BY <1>1, <1>2 DEF IInv, FreshAgrees
<1>7. Fitting'
  BY <1>1, <1>2 DEF IInv, Fitting, FiltersFit, At
<1>8. Counted'
  BY <1>1, <1>2 DEF IInv, Counted, At
<1> QED
  BY <1>4, <1>5, <1>6, <1>7, <1>8 DEF Parts

(* The statement about the default and the count change nothing but where  *)
(* the request is; it goes on to alter the field without confirmation only *)
(* if the table has no record.                                             *)
LEMMA OtherInv ==
  ASSUME IInv, NEW w \in Workers, AlterDefault(w) \/ CountRecords(w)
  PROVE  Parts'
<1>0. JobsOK
  BY DEF IInv, TypeOK, JobsOK
<1>1. /\ \A x \in Workers \ {w} : job'[x] = job[x]
      /\ \/ job'[w] = Idle
         \/ job'[w] = [job[w] EXCEPT !.pc = "update"] /\ job[w].pc = "default"
         \/ /\ job'[w] = [job[w] EXCEPT !.pc = "alter"] /\ job[w].pc = "count"
            /\ rows # {} => job[w].confirm
  BY <1>0, OtherEffect
<1>2. UNCHANGED <<field, meta, filter, rows, converted, torn, odd, late>>
  BY DEF AlterDefault, CountRecords
<1>3. job[w] \in Jobs /\ ~job[w].altered
  BY <1>0 DEF AlterDefault, CountRecords, At, JobsOK, Altered, Jobs
<1>4. /\ job'[w].altered = FALSE
      /\ job'[w].fresh => job[w].fresh
      /\ \/ job'[w].pc = "idle"
         \/ /\ job'[w].column = job[w].column /\ job'[w].type = job[w].type
            /\ job'[w].confirm = job[w].confirm
      /\ \/ job'[w].pc = "idle"
         \/ job'[w].pc = "update" /\ job[w].pc = "default"
         \/ job'[w].pc = "alter" /\ (rows # {} => job'[w].confirm)
  <2>1. CASE job'[w] = Idle
    BY <2>1, IdleJob
  <2>2. CASE job'[w] = [job[w] EXCEPT !.pc = "update"] /\ job[w].pc = "default"
    BY <2>2, <1>3 DEF Jobs
  <2>3. CASE job'[w] = [job[w] EXCEPT !.pc = "alter"] /\ (rows # {} => job[w].confirm)
    BY <2>3, <1>3 DEF Jobs
  <2> QED
    BY <1>1, <2>1, <2>2, <2>3
<1>5. TypesAgree'
  BY <1>1, <1>2, <1>3 DEF IInv, TypesAgree
<1>6. FiltersFit' /\ NoUnconfirmedLoss'
  BY <1>2 DEF IInv, FiltersFit, NoUnconfirmedLoss
<1>7. FreshAgrees'
  BY <1>1, <1>2, <1>3, <1>4 DEF IInv, FreshAgrees
<1>8. Fitting'
  BY <1>1, <1>2, <1>4 DEF IInv, Fitting, At
<1>9. Counted'
  BY <1>1, <1>2, <1>4 DEF IInv, Counted, At
<1> QED
  BY <1>5, <1>6, <1>7, <1>8, <1>9 DEF Parts

(* The field is altered.                                                   *)
LEMMA ChangeInv ==
  ASSUME IInv, NEW w \in Workers, ChangeColumn(w)
  PROVE  Parts'
<1> DEFINE c == job[w].column
<1>0. JobsOK /\ job[w] \in Jobs /\ c \in Columns /\ job[w].pc = "alter"
  BY DEF IInv, TypeOK, JobsOK, ChangeColumn, At
<1>1. /\ job'[w] = [job[w] EXCEPT !.pc = "readFilters", !.altered = TRUE, !.fresh = TRUE]
      /\ \A x \in Workers \ {w} :
                /\ job'[x].pc = job[x].pc /\ job'[x].column = job[x].column
                /\ job'[x].type = job[x].type /\ job'[x].confirm = job[x].confirm
                /\ job'[x].invalid = job[x].invalid /\ job'[x].altered = job[x].altered
                /\ job'[x].fresh => job[x].fresh /\ job[x].column # c
  BY <1>0, ChangeEffect
<1>2. /\ job'[w].pc = "readFilters" /\ job'[w].altered = TRUE /\ job'[w].column = c
      /\ job'[w].type = job[w].type
  BY <1>0, <1>1 DEF Jobs
<1>3. /\ field' = [field EXCEPT ![c] = SqlType[job[w].type]]
      /\ UNCHANGED <<meta, filter, rows, torn, odd, late>>
  BY DEF ChangeColumn
<1>4. field'[c] = SqlType[job[w].type] /\ \A d \in Columns \ {c} : field'[d] = field[d]
  BY <1>0, <1>3 DEF IInv, TypeOK
<1> HIDE DEF c
<1>5. TypesAgree'
  <2> SUFFICES ASSUME NEW d \in Columns
               PROVE  \/ field'[d] = SqlType[meta[d]]
                      \/ d \in torn
                      \/ \E x \in Workers : job'[x].altered /\ job'[x].column = d
    BY <1>3 DEF TypesAgree
  <2>1. CASE d = c
    BY <2>1, <1>2
  <2>2. CASE d # c
    <3>1. \/ field[d] = SqlType[meta[d]]
          \/ d \in torn
          \/ \E x \in Workers : job[x].altered /\ job[x].column = d
      BY DEF IInv, TypesAgree
    <3>2. ASSUME NEW x \in Workers, job[x].altered, job[x].column = d
          PROVE  job'[x].altered /\ job'[x].column = d
      BY <3>2, <2>2, <1>1, <1>2 DEF c
    <3> QED
      BY <3>1, <3>2, <2>2, <1>4
  <2> QED
    BY <2>1, <2>2
<1>6. FiltersFit'
  BY <1>3 DEF IInv, FiltersFit
<1>7. NoUnconfirmedLoss'
  <2> SUFFICES ASSUME NEW x \in converted' PROVE x[3] \/ x[1] \in late
    BY <1>3 DEF NoUnconfirmedLoss
  <2>1. CASE x \in converted
    BY <2>1 DEF IInv, NoUnconfirmedLoss
  <2>2. CASE x \notin converted
    <3>1. PICK r \in rows : x = <<r, c, job[w].confirm>>
      BY <2>2 DEF ChangeColumn, c
    <3>2. x[1] = r /\ x[3] = job[w].confirm
      BY <3>1
    <3>3. job[w].confirm \/ rows \subseteq late
      BY <1>0 DEF IInv, Counted, At
    <3> QED
      BY <3>2, <3>3
  <2> QED
    BY <2>1, <2>2
<1>8. FreshAgrees'
  <2> SUFFICES ASSUME NEW x \in Workers, job'[x].fresh
               PROVE  /\ job'[x].altered => field'[job'[x].column] = SqlType[job'[x].type]
                      /\ job'[x].pc \in {"default", "update"} /\ ~job'[x].altered =>
                            job'[x].type = meta[job'[x].column]
    BY <1>3 DEF FreshAgrees
  <2>1. CASE x = w
    BY <2>1, <1>2, <1>4
  <2>2. CASE x # w
    <3>1. /\ job'[x].pc = job[x].pc /\ job'[x].column = job[x].column
          /\ job'[x].type = job[x].type /\ job'[x].altered = job[x].altered
          /\ job[x].fresh /\ job[x].column # c
      BY <2>2, <1>1
    <3>2. /\ job[x].altered => field[job[x].column] = SqlType[job[x].type]
          /\ job[x].pc \in {"default", "update"} /\ ~job[x].altered =>
                job[x].type = meta[job[x].column]
      BY <3>1 DEF IInv, FreshAgrees
    <3>3. job[x].altered => job[x].column \in Columns
      BY <1>0 DEF JobsOK, Altered
    <3> QED
      BY <3>1, <3>2, <3>3, <1>4
  <2> QED
    BY <2>1, <2>2
<1>9. Fitting'
  BY <1>1, <1>2, <1>3 DEF IInv, Fitting, At
<1>10. Counted'
  BY <1>1, <1>2, <1>3 DEF IInv, Counted, At
<1> QED
  BY <1>5, <1>6, <1>7, <1>8, <1>9, <1>10 DEF Parts

(* The filters are looked for and deactivated, or not.                     *)
LEMMA FilterStepInv ==
  ASSUME IInv, NEW w \in Workers, ReadFilters(w) \/ DeactivateFilters(w) \/ SkipFilters(w)
  PROVE  Parts'
<1> DEFINE c == job[w].column
           t == job[w].type
           new == job'[w]
<1>0. JobsOK /\ job[w] \in Jobs
  BY DEF IInv, TypeOK, JobsOK
<1>1. /\ job[w].pc \in {"readFilters", "deactivate"} /\ job[w].altered /\ c \in Columns
      /\ new = [job[w] EXCEPT !.pc = new.pc, !.invalid = new.invalid]
      /\ new.pc \in {"deactivate", "update"}
      /\ ReadFilters(w) =>
              /\ new.invalid = {f \in Filters : /\ filter[f].column = c
                                                /\ filter[f].op \notin Fits[t]}
              /\ new.pc = IF new.invalid = {} THEN "update" ELSE "deactivate"
      /\ ~ReadFilters(w) => new.pc = "update"
      /\ \A x \in Workers \ {w} : job'[x] = job[x]
  BY <1>0, FilterStepEffect, Zenon
<1>2. /\ new.column = c /\ new.type = t /\ new.altered = job[w].altered
      /\ new.fresh = job[w].fresh
  <2> HIDE DEF new
  <2>1. PICK pc, inv : new = [job[w] EXCEPT !.pc = pc, !.invalid = inv]
    BY <1>1
  <2> QED
    BY <1>0, <2>1 DEF Jobs
<1>3. UNCHANGED <<field, meta, rows, converted, torn, late>>
  BY DEF ReadFilters, DeactivateFilters, SkipFilters
<1>4. /\ \A f \in Filters : /\ filter'[f].column = filter[f].column
                            /\ filter'[f].op = filter[f].op
                            /\ filter'[f].active => filter[f].active
      /\ odd \subseteq odd'
  <2>1. CASE DeactivateFilters(w)
    <3>1. \A f \in Filters : filter'[f] = IF f \in job[w].invalid
                                          THEN [filter[f] EXCEPT !.active = FALSE]
                                          ELSE filter[f]
      BY <2>1 DEF DeactivateFilters
    <3>2. \A f \in Filters : filter[f] \in FilterRows \/ filter[f] = NoFilter
      BY DEF IInv, TypeOK
    <3> QED
      BY <2>1, <3>1, <3>2 DEF DeactivateFilters, FilterRows, NoFilter
  <2>2. CASE ~DeactivateFilters(w)
    BY <2>2 DEF ReadFilters, SkipFilters
  <2> QED
    BY <2>1, <2>2
<1> HIDE DEF c, t, new
<1>5. TypesAgree'
  <2>1. \A x \in Workers : /\ job'[x].column = job[x].column
                           /\ job'[x].altered = job[x].altered
    BY <1>1, <1>2 DEF new, c
  <2> QED
    BY <1>3, <2>1 DEF IInv, TypesAgree
<1>6. FiltersFit'
  BY <1>3, <1>4 DEF IInv, FiltersFit
<1>7. NoUnconfirmedLoss'
  BY <1>3 DEF IInv, NoUnconfirmedLoss
<1>8. FreshAgrees'
  <2> SUFFICES ASSUME NEW x \in Workers, job'[x].fresh
               PROVE  /\ job'[x].altered => field[job'[x].column] = SqlType[job'[x].type]
                      /\ job'[x].pc \in {"default", "update"} /\ ~job'[x].altered =>
                            job'[x].type = meta[job'[x].column]
    BY <1>3 DEF FreshAgrees
  <2>1. /\ job'[x].column = job[x].column /\ job'[x].type = job[x].type
        /\ job'[x].altered = job[x].altered /\ job[x].fresh
        /\ job'[x].pc = job[x].pc \/ job[x].altered
    BY <1>1, <1>2 DEF new, c, t
  <2> QED
    BY <2>1 DEF IInv, FreshAgrees
<1>9. Fitting'
  <2> SUFFICES ASSUME NEW x \in Workers, NEW f \in Filters,
                      job'[x].pc \in {"default", "deactivate", "update"},
                      filter'[f].column = job'[x].column, filter'[f].active
               PROVE  \/ f \in odd' \/ filter'[f].op \in Fits[job'[x].type]
                      \/ job'[x].pc = "deactivate" /\ f \in job'[x].invalid
    BY DEF Fitting, At
  <2>0. filter[f].column = job'[x].column /\ filter[f].active /\ filter'[f].op = filter[f].op
    BY <1>4
  <2>1. CASE x # w
    <3>1. job'[x] = job[x]
      BY <1>1, <2>1
    <3>2. \/ f \in odd \/ filter[f].op \in Fits[job[x].type]
          \/ job[x].pc = "deactivate" /\ f \in job[x].invalid
      BY <2>0, <3>1 DEF IInv, Fitting, At
    <3> QED
      BY <2>0, <3>1, <3>2, <1>4
  <2>2. CASE x = w /\ ReadFilters(w)
    <3>1. filter[f].op \notin Fits[t] => f \in new.invalid
      BY <1>1, <1>2, <2>0, <2>2 DEF new
    <3>2. f \in new.invalid => new.pc = "deactivate"
      BY <1>1, <2>2
    <3> QED
      BY <2>0, <2>2, <3>1, <3>2, <1>2 DEF new
  <2>3. CASE x = w /\ SkipFilters(w)
    <3>1. f \in odd'
      BY <2>0, <2>3, <1>2 DEF SkipFilters, new, c
    <3> QED
      BY <3>1
  <2>4. CASE x = w /\ DeactivateFilters(w)
    <3>1. job[w].pc = "deactivate" /\ f \notin job[w].invalid
      <4>1. f \in job[w].invalid => filter'[f] = [filter[f] EXCEPT !.active = FALSE]
        BY <2>4 DEF DeactivateFilters
      <4>2. filter[f] \in FilterRows \/ filter[f] = NoFilter
        BY DEF IInv, TypeOK
      <4> QED
        BY <2>4, <4>1, <4>2 DEF DeactivateFilters, At, FilterRows, NoFilter
    <3>2. f \in odd \/ filter[f].op \in Fits[t]
      BY <2>0, <2>4, <3>1, <1>2 DEF IInv, Fitting, At, new, c, t
    <3> QED
      BY <2>0, <2>4, <3>2, <1>2, <1>4 DEF new
  <2> QED
    BY <2>1, <2>2, <2>3, <2>4
<1>10. Counted'
  BY <1>1, <1>3 DEF IInv, Counted, At, new
<1> QED
  BY <1>5, <1>6, <1>7, <1>8, <1>9, <1>10 DEF Parts

(* The row is written: a request that knew no more of the column leaves it *)
(* torn, one that had altered the field made the two agree, and one that   *)
(* had not writes the type that was there.                                 *)
LEMMA UpdateInv ==
  ASSUME IInv, NEW w \in Workers, UpdateColumnMetadata(w)
  PROVE  Parts'
<1> DEFINE c == job[w].column
           t == job[w].type
<1>0. /\ JobsOK /\ job[w] \in Jobs /\ c \in Columns /\ t \in Types /\ job[w].pc = "update"
      /\ job[w].fresh \in BOOLEAN /\ job[w].altered \in BOOLEAN
  BY DEF IInv, TypeOK, JobsOK, Jobs, UpdateColumnMetadata, At
<1>1. /\ job'[w] = Idle
      /\ \A x \in Workers \ {w} :
                /\ job'[x].pc = job[x].pc /\ job'[x].column = job[x].column
                /\ job'[x].type = job[x].type /\ job'[x].confirm = job[x].confirm
                /\ job'[x].invalid = job[x].invalid /\ job'[x].altered = job[x].altered
                /\ job'[x].fresh => job[x].fresh /\ job[x].column # c
  BY <1>0, UpdateEffect
<1>2. /\ meta' = [meta EXCEPT ![c] = t]
      /\ torn' = IF ~job[w].fresh THEN torn \cup {c}
                 ELSE IF job[w].altered THEN torn \ {c} ELSE torn
      /\ UNCHANGED <<field, filter, rows, converted, odd, late>>
  BY DEF UpdateColumnMetadata
<1>3. meta'[c] = t /\ \A d \in Columns \ {c} : meta'[d] = meta[d]
  BY <1>0, <1>2 DEF IInv, TypeOK
<1>4. \A d \in Columns \ {c} : d \in torn => d \in torn'
  BY <1>2
<1> HIDE DEF c, t
<1>5. TypesAgree'
  <2> SUFFICES ASSUME NEW d \in Columns
               PROVE  \/ field[d] = SqlType[meta'[d]]
                      \/ d \in torn'
                      \/ \E x \in Workers : job'[x].altered /\ job'[x].column = d
    BY <1>2 DEF TypesAgree
  <2>1. \/ field[d] = SqlType[meta[d]]
        \/ d \in torn
        \/ \E x \in Workers : job[x].altered /\ job[x].column = d
    BY DEF IInv, TypesAgree
  <2>2. CASE d # c
    <3>1. ASSUME NEW x \in Workers, job[x].altered, job[x].column = d
          PROVE  job'[x].altered /\ job'[x].column = d
      BY <3>1, <2>2, <1>1 DEF c
    <3> QED
      BY <2>1, <2>2, <3>1, <1>3, <1>4
  <2>3. CASE d = c /\ ~job[w].fresh
    BY <2>3, <1>2
  <2>4. CASE d = c /\ job[w].fresh /\ job[w].altered
    BY <2>4, <1>3 DEF IInv, FreshAgrees, c, t
  <2>5. CASE d = c /\ job[w].fresh /\ ~job[w].altered
    <3>1. t = meta[c]
      BY <2>5, <1>0 DEF IInv, FreshAgrees, c, t
    <3>2. torn' = torn
      BY <2>5, <1>2
    <3>3. ASSUME NEW x \in Workers, job[x].altered, job[x].column = d
          PROVE  job'[x].altered /\ job'[x].column = d
      BY <3>3, <2>5, <1>1
    <3> QED
      BY <2>1, <2>5, <3>1, <3>2, <3>3, <1>3
  <2> QED
    BY <1>0, <2>2, <2>3, <2>4, <2>5
<1>6. FiltersFit'
  <2> SUFFICES ASSUME NEW f \in Filters, filter[f].active
               PROVE  f \in odd \/ filter[f].op \in Fits[meta'[filter[f].column]]
    BY <1>2 DEF FiltersFit
  <2>1. CASE filter[f].column = c
    BY <2>1, <1>0, <1>3 DEF IInv, Fitting, At, c, t
  <2>2. CASE filter[f].column # c
    <3>1. filter[f] \in FilterRows
      BY DEF IInv, TypeOK, NoFilter
    <3>2. meta'[filter[f].column] = meta[filter[f].column]
      BY <2>2, <3>1, <1>3 DEF FilterRows
    <3> QED
      BY <3>2 DEF IInv, FiltersFit
  <2> QED
    BY <2>1, <2>2
<1>7. NoUnconfirmedLoss'
  BY <1>2 DEF IInv, NoUnconfirmedLoss
<1>8. FreshAgrees'
  <2> SUFFICES ASSUME NEW x \in Workers, job'[x].fresh
               PROVE  /\ job'[x].altered => field[job'[x].column] = SqlType[job'[x].type]
                      /\ job'[x].pc \in {"default", "update"} /\ ~job'[x].altered =>
                            job'[x].type = meta'[job'[x].column]
    BY <1>2 DEF FreshAgrees
  <2>1. x # w
    BY <1>1, IdleJob
  <2>2. /\ job'[x].pc = job[x].pc /\ job'[x].column = job[x].column
        /\ job'[x].type = job[x].type /\ job'[x].altered = job[x].altered
        /\ job[x].fresh /\ job[x].column # c
    BY <2>1, <1>1
  <2>3. job[x].pc \in {"default", "update"} => job[x].column \in Columns
    BY <1>0 DEF JobsOK
  <2> QED
    BY <2>2, <2>3, <1>3 DEF IInv, FreshAgrees
<1>9. Fitting'
  BY <1>1, <1>2, IdleJob DEF IInv, Fitting, At
<1>10. Counted'
  BY <1>1, <1>2, IdleJob DEF IInv, Counted, At
<1> QED
  BY <1>5, <1>6, <1>7, <1>8, <1>9, <1>10 DEF Parts

(* A request ends early: if it had altered the field, its column is torn.  *)
LEMMA RefuseInv ==
  ASSUME IInv, NEW w \in Workers, Refuse(w)
  PROVE  Parts'
<1>0. JobsOK
  BY DEF IInv, TypeOK, JobsOK
<1>1. job'[w] = Idle /\ \A x \in Workers \ {w} : job'[x] = job[x]
  BY <1>0, FinishEffect DEF Refuse
<1>2. UNCHANGED <<field, meta, filter, rows, converted, odd, late>>
  BY DEF Refuse
<1>3. torn \subseteq torn' /\ (job[w].altered => job[w].column \in torn')
  BY DEF Refuse
<1>4. TypesAgree'
  BY <1>1, <1>2, <1>3, IdleJob DEF IInv, TypesAgree
<1>5. FiltersFit' /\ NoUnconfirmedLoss'
  BY <1>2 DEF IInv, FiltersFit, NoUnconfirmedLoss
<1>6. FreshAgrees'
  BY <1>1, <1>2, IdleJob DEF IInv, FreshAgrees
<1>7. Fitting'
  BY <1>1, <1>2, IdleJob DEF IInv, Fitting, At
<1>8. Counted'
  BY <1>1, <1>2, IdleJob DEF IInv, Counted, At
<1> QED
  BY <1>4, <1>5, <1>6, <1>7, <1>8 DEF Parts

(* The process dies: the columns whose field was altered are torn.         *)
LEMMA CrashInv ==
  ASSUME IInv, Crash
  PROVE  Parts'
<1>1. \A w \in Workers : job'[w].pc = "idle" /\ ~job'[w].altered /\ ~job'[w].fresh
  BY IdleJob DEF Crash
<1>2. UNCHANGED <<field, meta, filter, rows, converted, odd, late>>
  BY DEF Crash
<1>3. \A c \in Columns :
        (c \in torn \/ \E w \in Workers : job[w].altered /\ job[w].column = c)
        => c \in torn'
  BY DEF Crash
<1>4. TypesAgree'
  BY <1>2, <1>3 DEF IInv, TypesAgree
<1>5. FiltersFit' /\ NoUnconfirmedLoss'
  BY <1>2 DEF IInv, FiltersFit, NoUnconfirmedLoss
<1>6. FreshAgrees' /\ Fitting' /\ Counted'
  BY <1>1 DEF FreshAgrees, Fitting, Counted, At
<1> QED
  BY <1>4, <1>5, <1>6 DEF Parts

(* A filter is written: it is odd unless its operator fits and no request  *)
(* about its column is past reading the filters.                           *)
LEMMA WriteFilterInv ==
  ASSUME IInv, NEW f \in Filters, NEW c \in Columns, NEW op \in Ops,
         NEW active \in BOOLEAN, WriteFilter(f, c, op, active)
  PROVE  Parts'
<1>1. /\ filter'[f] = [column |-> c, op |-> op, active |-> active]
      /\ \A g \in Filters \ {f} : filter'[g] = filter[g]
      /\ UNCHANGED <<field, meta, rows, converted, job, torn, late>>
  BY DEF IInv, TypeOK, WriteFilter
<1>2. \A g \in Filters \ {f} : g \in odd => g \in odd'
  BY DEF WriteFilter
<1>3. f \notin odd' =>
        /\ op \in Fits[meta[c]]
        /\ \A w \in Workers : job[w].column = c =>
                                job[w].pc \notin {"default", "deactivate", "update"}
  BY DEF WriteFilter
<1>4. filter'[f].column = c /\ filter'[f].op = op
  BY <1>1
<1>5. TypesAgree' /\ NoUnconfirmedLoss' /\ FreshAgrees' /\ Counted'
  BY <1>1 DEF IInv, TypesAgree, NoUnconfirmedLoss, FreshAgrees, Counted, At
<1>6. FiltersFit'
  BY <1>1, <1>2, <1>3, <1>4 DEF IInv, FiltersFit
<1>7. Fitting'
  BY <1>1, <1>2, <1>3, <1>4 DEF IInv, Fitting, At
<1> QED
  BY <1>5, <1>6, <1>7 DEF Parts

(* A record is added: it is late if a request has counted before.          *)
LEMMA AddRecordInv ==
  ASSUME IInv, NEW r \in Records, AddRecord(r)
  PROVE  Parts'
<1>1. /\ rows' = rows \cup {r} /\ late \subseteq late'
      /\ \A w \in Workers : job[w].pc = "alter" => r \in late'
      /\ UNCHANGED <<field, meta, filter, converted, job, torn, odd>>
  BY DEF AddRecord, At
<1>2. TypesAgree' /\ FiltersFit' /\ FreshAgrees' /\ Fitting'
  BY <1>1 DEF IInv, TypesAgree, FiltersFit, FreshAgrees, Fitting, At
<1>3. NoUnconfirmedLoss'
  BY <1>1 DEF IInv, NoUnconfirmedLoss
<1>4. Counted'
  BY <1>1 DEF IInv, Counted, At
<1> QED
  BY <1>2, <1>3, <1>4 DEF Parts

LEMMA InvStep == IInv /\ [Next]_vars => IInv'
<1> SUFFICES ASSUME IInv, [Next]_vars PROVE IInv'
  OBVIOUS
<1>1. TypeOK'
  BY TypeStep DEF IInv
<1>2. Parts'
  <2>0. JobsOK
    BY DEF IInv, TypeOK, JobsOK
  <2>1. ASSUME NEW w \in Workers, Modify(w) PROVE Parts'
    <3>1. ASSUME NEW c \in Columns, NEW t \in Types, NEW d \in BOOLEAN, NEW k \in BOOLEAN,
                 GetColumnCurrentInfo(w, c, t, d, k)
          PROVE Parts'
      BY <2>0, <3>1, StartInv
    <3> QED
      BY <2>1, <3>1, OtherInv, ChangeInv, FilterStepInv, UpdateInv DEF Modify
  <2>2. CASE UNCHANGED vars
    <3>1. UNCHANGED <<field, meta, filter, rows, converted, job, torn, odd, late>>
      BY <2>2 DEF vars
    <3> QED
      BY <3>1 DEF IInv, Parts, TypesAgree, FiltersFit, NoUnconfirmedLoss, FreshAgrees,
                  Fitting, Counted, At
  <2> QED
    BY <2>1, <2>2, RefuseInv, CrashInv, WriteFilterInv, AddRecordInv DEF Next
<1> QED
  BY <1>1, <1>2 DEF IInv, Parts

(* The invariant of all that follows holds in every state.                 *)
THEOREM Inductive == Spec => []IInv
  BY InvInit, InvStep, PTL DEF Spec

(* The field of a column and its row have one type, but for the exceptions *)
(* TypesAgree names, however changes interleave, fail and die.             *)
THEOREM AgreeSafe == Spec => []TypesAgree
<1>1. IInv => TypesAgree
  BY DEF IInv
<1> QED
  BY <1>1, Inductive, PTL

(* An active filter's operator is one of its column's type, but for the    *)
(* exceptions FiltersFit names.                                            *)
THEOREM FitSafe == Spec => []FiltersFit
<1>1. IInv => FiltersFit
  BY DEF IInv
<1> QED
  BY <1>1, Inductive, PTL

(* Values are converted with the user's confirmation, or late.             *)
THEOREM LossSafe == Spec => []NoUnconfirmedLoss
<1>1. IInv => NoUnconfirmedLoss
  BY DEF IInv
<1> QED
  BY <1>1, Inductive, PTL

=============================================================================
