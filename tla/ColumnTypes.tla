----------------------------- MODULE ColumnTypes ------------------------------
(***************************************************************************)
(* Changing a column (Columns::Modify of controllers/tables/columns.cpp):  *)
(* its row is read, the field of the MariaDB table is altered if the type  *)
(* or the default is another, after a warning if records would lose data,  *)
(* the filters whose operator the new type lacks are deactivated, and last *)
(* the row is updated.  Meanwhile others change the same column, add       *)
(* records and write filters (Filters::Add and Filters::Modify).           *)
(***************************************************************************)
EXTENDS Integers, FiniteSets

CONSTANTS
    Columns,
    Types,          \* column types a user sees
    SqlTypes,       \* MariaDB types of fields
    SqlType,        \* ColumnTypeSetup
    First,          \* the type every column begins with
    Ops,            \* operators of filters
    Fits,           \* filters_ops_by_column_type
    Filters,
    Records,
    Workers,
    None

ASSUME TypesAssumption ==
    /\ SqlType \in [Types -> SqlTypes]
    /\ First \in Types
    /\ Fits \in [Types -> SUBSET Ops]
    /\ None \notin Columns

VARIABLES
    field,          \* the MariaDB type of a column's field
    meta,           \* tables_columns.column_type
    filter,         \* rows of views_filters
    rows,           \* records of the table
    converted,      \* records whose value in a column was converted
    job,            \* what each worker is doing
    torn,           \* history: columns whose field and row were pulled apart
    odd,            \* history: filters written or left against the column's type
    late            \* history: records added after a change counted them

vars == <<field, meta, filter, rows, converted, job, torn, odd, late>>

NoFilter == [column |-> None, op |-> None, active |-> FALSE]
FilterRows == [column : Columns, op : Ops, active : BOOLEAN]

Altered == {"readFilters", "deactivate", "update"}
PCs == {"idle", "default", "count", "alter", "readFilters", "deactivate", "update"}
Idle == [pc |-> "idle", column |-> None, type |-> First, confirm |-> FALSE,
         invalid |-> {}, altered |-> FALSE, fresh |-> FALSE]
Jobs == [pc : PCs, column : Columns \cup {None}, type : Types, confirm : BOOLEAN,
         invalid : SUBSET Filters, altered : BOOLEAN, fresh : BOOLEAN]

TypeOK ==
    /\ field \in [Columns -> SqlTypes]
    /\ meta \in [Columns -> Types]
    /\ filter \in [Filters -> FilterRows \cup {NoFilter}]
    /\ rows \subseteq Records
    /\ converted \subseteq rows \X Columns \X BOOLEAN
    /\ job \in [Workers -> Jobs]
    /\ \A w \in Workers :
        /\ job[w].pc # "idle" => job[w].column \in Columns
        /\ job[w].altered => job[w].pc \in Altered
        /\ job[w].pc \in {"readFilters", "deactivate"} => job[w].altered
    /\ torn \subseteq Columns
    /\ odd \subseteq Filters
    /\ late \subseteq Records

Init ==
    /\ field = [c \in Columns |-> SqlType[First]]
    /\ meta = [c \in Columns |-> First]
    /\ filter = [f \in Filters |-> NoFilter]
    /\ rows = {} /\ converted = {}
    /\ job = [w \in Workers |-> Idle]
    /\ torn = {} /\ odd = {} /\ late = {}

At(w, pc) == job[w].pc = pc
Goto(w, pc) == job' = [job EXCEPT ![w].pc = pc]
StopAt(w) == Goto(w, "idle")     \* a faulty variant of the next one
Finish(w) == job' = [job EXCEPT ![w] = Idle]

(* w goes on with j, and what the others know of the column is out of date.*)
Write(w, j) ==
    job' = [x \in Workers |-> IF x = w THEN j
                              ELSE IF job[x].column = job[w].column
                              THEN [job[x] EXCEPT !.fresh = FALSE] ELSE job[x]]

-----------------------------------------------------------------------------
(* Columns::Modify.  The default only matters here by being another one.   *)
GetColumnCurrentInfo(w, c, t, default, confirm) ==
    LET pc == IF t # meta[c] THEN "count" ELSE IF default THEN "default" ELSE "update"
    IN  /\ At(w, "idle")
        /\ job' = [job EXCEPT ![w] = [Idle EXCEPT !.pc = pc, !.column = c, !.type = t,
                                                  !.confirm = confirm, !.fresh = TRUE]]
        /\ UNCHANGED <<field, meta, filter, rows, converted, torn, odd, late>>

AlterDefault(w) ==
    /\ At(w, "default")
    /\ Goto(w, "update")
    /\ UNCHANGED <<field, meta, filter, rows, converted, torn, odd, late>>

CountAfterwards(w) ==       \* a faulty variant of the next one
    /\ At(w, "count")
    /\ Goto(w, "alter")
    /\ UNCHANGED <<field, meta, filter, rows, converted, torn, odd, late>>

CountRecords(w) ==
    /\ At(w, "count")
    /\ IF rows # {} /\ ~job[w].confirm THEN Finish(w) ELSE Goto(w, "alter")
    /\ UNCHANGED <<field, meta, filter, rows, converted, torn, odd, late>>

ChangeColumn(w) ==
    LET c == job[w].column
        t == SqlType[job[w].type]
    IN  /\ At(w, "alter")
        /\ field' = [field EXCEPT ![c] = t]
        /\ converted' = converted \cup
                IF field[c] = t THEN {} ELSE {<<r, c, job[w].confirm>> : r \in rows}
        /\ Write(w, [job[w] EXCEPT !.pc = "readFilters", !.altered = TRUE, !.fresh = TRUE])
        /\ UNCHANGED <<meta, filter, rows, torn, odd, late>>

ReadFiltersOfOldType(w) ==  \* a faulty variant of the next one
    LET invalid == {f \in Filters : /\ filter[f].column = job[w].column
                                    /\ filter[f].op \notin Fits[meta[job[w].column]]}
    IN  /\ At(w, "readFilters")
        /\ job' = [job EXCEPT ![w].pc = IF invalid = {} THEN "update" ELSE "deactivate",
                              ![w].invalid = invalid]
        /\ UNCHANGED <<field, meta, filter, rows, converted, torn, odd, late>>

ReadFilters(w) ==
    LET invalid == {f \in Filters : /\ filter[f].column = job[w].column
                                    /\ filter[f].op \notin Fits[job[w].type]}
    IN  /\ At(w, "readFilters")
        /\ job' = [job EXCEPT ![w].pc = IF invalid = {} THEN "update" ELSE "deactivate",
                              ![w].invalid = invalid]
        /\ UNCHANGED <<field, meta, filter, rows, converted, torn, odd, late>>

DeactivateFilters(w) ==
    /\ At(w, "deactivate")
    /\ filter' = [f \in Filters |-> IF f \in job[w].invalid
                                    THEN [filter[f] EXCEPT !.active = FALSE] ELSE filter[f]]
    /\ job' = [job EXCEPT ![w].pc = "update", ![w].invalid = {}]
    /\ UNCHANGED <<field, meta, rows, converted, torn, odd, late>>

(* Neither of the two statements about filters is allowed to fail the      *)
(* request.                                                                *)
SkipFilters(w) ==
    /\ job[w].pc \in {"readFilters", "deactivate"}
    /\ odd' = odd \cup {f \in Filters : filter[f].column = job[w].column}
    /\ job' = [job EXCEPT ![w].pc = "update", ![w].invalid = {}]
    /\ UNCHANGED <<field, meta, filter, rows, converted, torn, late>>

UpdateKeepingType(w) ==     \* a faulty variant of the next one
    LET j == job[w] IN
    /\ At(w, "update")
    /\ torn' = IF ~j.fresh THEN torn \cup {j.column}
               ELSE IF j.altered THEN torn \ {j.column} ELSE torn
    /\ Write(w, Idle)
    /\ UNCHANGED <<field, meta, filter, rows, converted, odd, late>>

(* A change that altered the field, and whose column nobody wrote since,   *)
(* brings the two together again.                                          *)
UpdateColumnMetadata(w) ==
    LET j == job[w] IN
    /\ At(w, "update")
    /\ meta' = [meta EXCEPT ![j.column] = j.type]
    /\ torn' = IF ~j.fresh THEN torn \cup {j.column}
               ELSE IF j.altered THEN torn \ {j.column} ELSE torn
    /\ Write(w, Idle)
    /\ UNCHANGED <<field, filter, rows, converted, odd, late>>

-----------------------------------------------------------------------------
(* A statement of a request fails and the request with it, or the process  *)
(* dies: nothing is undone.                                                *)
Refuse(w) ==
    /\ ~At(w, "idle")
    /\ torn' = IF job[w].altered THEN torn \cup {job[w].column} ELSE torn
    /\ Finish(w)
    /\ UNCHANGED <<field, meta, filter, rows, converted, odd, late>>

Crash ==
    /\ torn' = torn \cup {c \in Columns : \E w \in Workers : job[w].altered /\ job[w].column = c}
    /\ job' = [w \in Workers |-> Idle]
    /\ UNCHANGED <<field, meta, filter, rows, converted, odd, late>>

(* InsertFilter and UpdateFilter take every operator there is.             *)
WriteFilter(f, c, op, active) ==
    /\ filter' = [filter EXCEPT ![f] = [column |-> c, op |-> op, active |-> active]]
    /\ odd' = IF \/ op \notin Fits[meta[c]]
                 \/ \E w \in Workers : /\ job[w].column = c
                                       /\ job[w].pc \in {"default", "deactivate", "update"}
              THEN odd \cup {f} ELSE odd \ {f}
    /\ UNCHANGED <<field, meta, rows, converted, job, torn, late>>

AddRecord(r) ==
    /\ r \notin rows
    /\ rows' = rows \cup {r}
    /\ late' = IF \E w \in Workers : At(w, "alter") THEN late \cup {r} ELSE late
    /\ UNCHANGED <<field, meta, filter, converted, job, torn, odd>>

Modify(w) ==
    \/ \E c \in Columns, t \in Types, default, confirm \in BOOLEAN :
        GetColumnCurrentInfo(w, c, t, default, confirm)
    \/ AlterDefault(w)
    \/ CountRecords(w)
    \/ ChangeColumn(w)
    \/ ReadFilters(w)
    \/ DeactivateFilters(w)
    \/ SkipFilters(w)
    \/ UpdateColumnMetadata(w)

Next ==
    \/ \E w \in Workers : Modify(w) \/ Refuse(w)
    \/ Crash
    \/ \E f \in Filters, c \in Columns, op \in Ops, active \in BOOLEAN :
        WriteFilter(f, c, op, active)
    \/ \E r \in Records : AddRecord(r)

Spec == Init /\ [][Next]_vars

-----------------------------------------------------------------------------
(* The field of a column has the type its row says, except while a change  *)
(* is between the two, or after one that failed or died there or that      *)
(* overlapped another; and the next change of the type mends it.           *)
TypesAgree ==
    \A c \in Columns :
        \/ field[c] = SqlType[meta[c]]
        \/ c \in torn
        \/ \E w \in Workers : job[w].altered /\ job[w].column = c

(* An active filter has an operator its column's type knows, unless it was *)
(* written with another, or while a change was past reading the filters, or*)
(* the change could not deactivate it.                                     *)
FiltersFit ==
    \A f \in Filters :
        filter[f].active => f \in odd \/ filter[f].op \in Fits[meta[filter[f].column]]

(* A record's value is converted without the user's confirmation only if   *)
(* the record was added after the change had counted the records.          *)
NoUnconfirmedLoss ==
    \A x \in converted : x[3] \/ x[1] \in late

-----------------------------------------------------------------------------
(* The inductive invariant of the proofs (ColumnTypesProof).               *)

(* What a request knows of a column nobody else has written since: the     *)
(* field is what it made it, or else the row still is as it was read.      *)
FreshAgrees ==
    \A w \in Workers : job[w].fresh =>
        /\ job[w].altered => field[job[w].column] = SqlType[job[w].type]
        /\ job[w].pc \in {"default", "update"} /\ ~job[w].altered =>
            job[w].type = meta[job[w].column]

(* A request that is past reading the filters leaves none active that the  *)
(* type it is about to write does not know.                                *)
Fitting ==
    \A w \in Workers, f \in Filters :
        /\ job[w].pc \in {"default", "deactivate", "update"}
        /\ filter[f].column = job[w].column /\ filter[f].active
        => \/ f \in odd \/ filter[f].op \in Fits[job[w].type]
           \/ At(w, "deactivate") /\ f \in job[w].invalid

(* Past the count, every record is a late one unless the user confirmed.   *)
Counted ==
    \A w \in Workers : At(w, "alter") /\ ~job[w].confirm => rows \subseteq late

IInv ==
    /\ TypeOK
    /\ TypesAgree
    /\ FiltersFit
    /\ NoUnconfirmedLoss
    /\ FreshAgrees
    /\ Fitting
    /\ Counted

=============================================================================
