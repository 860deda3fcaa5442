------------------------------ MODULE Records -------------------------------
(***************************************************************************)
(* One table of records with an image or file column, its directory of     *)
(* uploaded files and its row policies: Data::Add, Modify and Delete of    *)
(* controllers/tables/data.cpp, with ParameterConfiguration,               *)
(* FileProcessing and RowPolicyEvaluator, FileManager, and the handlers of *)
(* row_policy.cpp.                                                         *)
(*                                                                         *)
(* One step of a worker is one SQL statement, which commits on its own, or *)
(* one operation on the file system: a handler changes files first and     *)
(* writes the row afterwards, and nothing ties the two together.           *)
(***************************************************************************)
EXTENDS Integers, FiniteSets

CONSTANTS
    Users,        \* users of the database
    Rows,         \* identifiers of records
    Files,        \* names of uploaded files
    Columns,      \* columns of the table that policies filter on
    LookedUp,     \* those whose filter takes a query: paths, users, selections
    Matches,      \* triples of a user, a row and a column: what filters select
    Targets,      \* whom a row policy may concern: everybody, a user, a group
    Policies,     \* identifiers of rows of `tables_row_policies`
    Workers,      \* threads of the HTTP server
    NoFile,       \* NULL in the file column
    None          \* no user, row or column

Ops == {"add", "modify", "delete"}

ASSUME RecordsAssumption ==
    /\ LookedUp \subseteq Columns
    /\ Matches \subseteq Users \X Rows \X Columns
    /\ Targets \subseteq SUBSET Users
    /\ NoFile \notin Files
    /\ None \notin Users \cup Rows \cup Columns

VARIABLES
    row,        \* the records: never added, deleted, or with their file
    disk,       \* files in the directory of the table
    policy,     \* rows of `tables_row_policies` that are active
    columns,    \* the columns of Columns that `tables_columns` lists
    job,        \* what each worker is doing
    lost        \* history: rows a request left without their file

vars == <<row, disk, policy, columns, job, lost>>
settings == <<policy, columns>>

Never == [state |-> "never", file |-> NoFile]
Gone == [state |-> "gone", file |-> NoFile]
Record(f) == [state |-> "live", file |-> f]
Records == {Record(f) : f \in Files \cup {NoFile}}
Live(r) == row[r].state = "live"

Policy(target, action, c) ==
    [target |-> target, action |-> action, column |-> c]
NoPolicy == Policy({}, "none", None)
Filter(target, c) == Policy(target, "filter", c)
Bypass(target) == Policy(target, "bypass", None)
ActivePolicies ==
    {Filter(target, c) : target \in Targets, c \in Columns}
        \cup {Bypass(target) : target \in Targets}

PCs == {"idle", "path", "check", "remove", "save", "policies", "write"}

Job(pc, op, u, r, cols) ==
    [pc |-> pc, op |-> op, user |-> u, row |-> r, columns |-> cols,
     cond |-> {}, old |-> NoFile, file |-> NoFile, removed |-> FALSE,
     excused |-> FALSE]
Idle == Job("idle", "none", None, None, {})

Jobs == [pc : PCs, op : Ops \cup {"none"}, user : Users \cup {None},
         row : Rows \cup {None}, columns : SUBSET Columns,
         cond : SUBSET Columns, old : Files \cup {NoFile},
         file : Files \cup {NoFile}, removed : BOOLEAN,
         excused : BOOLEAN]

TypeOK ==
    /\ row \in [Rows -> {Never, Gone} \cup Records]
    /\ disk \subseteq Files
    /\ policy \in [Policies -> {NoPolicy} \cup ActivePolicies]
    /\ columns \subseteq Columns
    /\ job \in [Workers -> Jobs]
    /\ lost \subseteq Rows

Init ==
    /\ row = [r \in Rows |-> Never]
    /\ disk = {}
    /\ policy \in [Policies -> {NoPolicy} \cup ActivePolicies]
    /\ columns \in SUBSET Columns
    /\ job = [w \in Workers |-> Idle]
    /\ lost = {}

At(w, pc) == job[w].pc = pc

-----------------------------------------------------------------------------
(* Faulty variants of the definitions below, none of them part of Spec:    *)
(* what the properties are there to catch.                                 *)
UnusedOnDisk(f) == f \notin disk
NameAsSent(f) == f \in Files
BypassForAll(u) == \E p \in Policies : policy[p].action = "bypass"

-----------------------------------------------------------------------------
MatchPolicyTarget(p, u) == u \in policy[p].target

HasBypass(u) ==
    \E p \in Policies : policy[p].action = "bypass" /\ MatchPolicyTarget(p, u)

(* What BuildCondition adds to the statement: the filters of the policies  *)
(* that concern the user.  A policy on a column the table did not have     *)
(* when the request read its columns is skipped.  Some filters take a      *)
(* query, and when it fails they stay unresolved: a path is skipped, and a *)
(* user or a selection is compared with the name the policy gives instead  *)
(* of the identifier.  Such a filter may let any record through (!=, NOT   *)
(* IN), or none at all (=): the statement then does what Refuse does.      *)
Filters(u, cols) ==
    {c \in cols : \E p \in Policies :
        /\ policy[p].action = "filter"
        /\ policy[p].column = c
        /\ MatchPolicyTarget(p, u)}
BuildCondition(u, cols, unresolved) ==
    IF HasBypass(u) THEN {} ELSE Filters(u, cols) \ unresolved

Selects(cond, u, r) == \A c \in cond : <<u, r, c>> \in Matches

(* A name GenerateName_ may draw: not on disk, and nobody refers to it.    *)
Unused(f) ==
    /\ f \notin disk
    /\ \A r \in Rows : row[r].file # f
    /\ \A w \in Workers : job[w].file # f /\ job[w].old # f

(* A column is added under an identifier nothing speaks of yet.            *)
NewColumn(c) ==
    /\ c \notin columns
    /\ \A p \in Policies : policy[p].column # c
    /\ \A w \in Workers : c \notin job[w].columns \cup job[w].cond

Goto(w, pc) == job' = [job EXCEPT ![w].pc = pc]

(* A record points to a file that is not in the directory.                 *)
Dangling(r) == row[r].file # NoFile /\ row[r].file \notin disk

(* The records that requests which end now leave without their file: they  *)
(* had removed it, and gave the record no other.                           *)
LeftBy(W) ==
    {r \in Rows : Dangling(r) /\ \E w \in W : job[w].removed /\ job[w].row = r}
End(w) ==
    /\ job' = [job EXCEPT ![w] = Idle]
    /\ lost' = lost \cup LeftBy({w})

(* Another faulty variant, of DeleteRecord.                                *)
DeleteRecordLightly(w) ==
    /\ At(w, "write")
    /\ job[w].op = "delete"
    /\ row' = IF Live(job[w].row)
              THEN [row EXCEPT ![job[w].row].state = "gone"] ELSE row
    /\ End(w)
    /\ UNCHANGED <<disk, settings>>

-----------------------------------------------------------------------------
(* A request of a user whom the permissions of the table allow it (module  *)
(* Databases).  It reads the columns of the table first and relies on them *)
(* to the end; an addition has no use for those of policies.  A            *)
(* modification that carries no file changes nothing the model keeps.      *)
StartAdd(w, r, upload) ==
    /\ At(w, "idle")
    /\ row[r] = Never
    /\ \A v \in Workers : job[v].row # r
    /\ job' = [job EXCEPT
        ![w] = Job(IF upload THEN "save" ELSE "write", "add", None, r, {})]
    /\ UNCHANGED <<row, disk, settings, lost>>

StartChange(w, u, op, r) ==
    /\ At(w, "idle")
    /\ Live(r)
    /\ job' = [job EXCEPT ![w] = Job("path", op, u, r, columns)]
    /\ UNCHANGED <<row, disk, settings, lost>>

(* The file the record has now; NULL when there is no such record.         *)
GetFilePath(w) ==
    /\ At(w, "path")
    /\ LET old == row[job[w].row].file
           next == IF old # NoFile THEN "check"
                   ELSE IF job[w].op = "modify" THEN "save" ELSE "policies"
       IN job' = [job EXCEPT ![w].old = old, ![w].pc = next]
    /\ UNCHANGED <<row, disk, settings, lost>>

(* FileProcessing::Delete, in two calls: the file is there, and it is      *)
(* removed.  A missing file is skipped by a deletion and is the end of a   *)
(* modification: Setup gives up before it adds the parameter of the column *)
(* and the UPDATE, short of a value, cannot execute.                       *)
CheckOldFile(w) ==
    /\ At(w, "check")
    /\ \/ job[w].old \in disk /\ Goto(w, "remove") /\ UNCHANGED lost
       \/ /\ job[w].old \notin disk
          /\ job[w].op = "delete"
          /\ job' = [job EXCEPT ![w].old = NoFile, ![w].pc = "policies"]
          /\ UNCHANGED lost
       \/ job[w].old \notin disk /\ job[w].op = "modify" /\ End(w)
    /\ UNCHANGED <<row, disk, settings>>

(* Removing a file that is no longer there throws, which ends the request. *)
RemoveOldFile(w) ==
    /\ At(w, "remove")
    /\ \/ /\ job[w].old \in disk
          /\ disk' = disk \ {job[w].old}
          /\ job' = [job EXCEPT ![w].removed = TRUE, ![w].old = NoFile,
                                ![w].pc = IF job[w].op = "modify" THEN "save"
                                          ELSE "policies"]
          /\ UNCHANGED lost
       \/ job[w].old \notin disk /\ End(w) /\ UNCHANGED disk
    /\ UNCHANGED <<row, settings>>

(* FileProcessing::Save: the upload moves to the directory under a new     *)
(* name.                                                                   *)
SaveFile(w) ==
    /\ At(w, "save")
    /\ \E f \in Files :
        /\ Unused(f)
        /\ disk' = disk \cup {f}
        /\ job' = [job EXCEPT ![w].file = f,
                              ![w].pc = IF job[w].op = "add" THEN "write"
                                        ELSE "policies"]
    /\ UNCHANGED <<row, settings, lost>>

(* The policies are read long after the columns: a filter on a column      *)
(* added in between is skipped like one on a column that never was.        *)
Skipped(w) == Filters(job[w].user, columns) \ Filters(job[w].user, job[w].columns)

LoadPolicies(w) ==
    /\ At(w, "policies")
    /\ \E unresolved \in SUBSET (LookedUp \cap Filters(job[w].user, job[w].columns)) :
        job' = [job EXCEPT
            ![w].cond = BuildCondition(job[w].user, job[w].columns, unresolved),
            ![w].excused = unresolved \cup Skipped(w) # {},
            ![w].columns = {},
            ![w].pc = "write"]
    /\ UNCHANGED <<row, disk, settings, lost>>

(* After its statement a handler answers; the row of `changes` it inserts  *)
(* then is ChangeFeed's subject.  The query for the last inserted          *)
(* identifier may fail as well, and Work_ reports a failure of what was    *)
(* done: the row is written all the same.                                  *)
Written(w) ==
    /\ job' = [job EXCEPT ![w] = Idle]
    /\ lost' = (lost \cup LeftBy({w})) \cap {r \in Rows : row'[r] = row[r]}
    /\ UNCHANGED <<disk, settings>>

InsertRecord(w) ==
    /\ At(w, "write")
    /\ job[w].op = "add"
    /\ row' = [row EXCEPT ![job[w].row] = Record(job[w].file)]
    /\ Written(w)

(* A statement does nothing to a record its condition excludes.  It names  *)
(* the columns of its condition: one that is no longer listed has a field  *)
(* until the ALTER that follows, and makes the statement fail after it     *)
(* (Refuse).                                                               *)
Hit(w) == Live(job[w].row) /\ Selects(job[w].cond, job[w].user, job[w].row)

UpdateRecord(w) ==
    /\ At(w, "write")
    /\ job[w].op = "modify"
    /\ row' = IF Hit(w) THEN [row EXCEPT ![job[w].row].file = job[w].file] ELSE row
    /\ Written(w)

DeleteRecord(w) ==
    /\ At(w, "write")
    /\ job[w].op = "delete"
    /\ row' = IF Hit(w) THEN [row EXCEPT ![job[w].row] = Gone] ELSE row
    /\ Written(w)

(* A statement fails, a parameter does not meet its condition, an upload   *)
(* is not of a supported type or cannot be moved: the request ends there.  *)
Refuse(w) ==
    /\ ~At(w, "idle")
    /\ End(w)
    /\ UNCHANGED <<row, disk, settings>>

(* The process dies, and every request with it.                            *)
Crash ==
    /\ job' = [w \in Workers |-> Idle]
    /\ lost' = lost \cup LeftBy(Workers)
    /\ UNCHANGED <<row, disk, settings>>

(* The statements of the handlers of row_policy.cpp, each a request of its *)
(* own.                                                                    *)
SetPolicy(p, new) ==
    /\ policy' = [policy EXCEPT ![p] = new]
    /\ job' = [w \in Workers |-> IF At(w, "write") /\ job[w].op # "add"
                                 THEN [job[w] EXCEPT !.excused = TRUE]
                                 ELSE job[w]]
    /\ UNCHANGED <<row, disk, columns, lost>>

InsertPolicy(p, new) == policy[p] = NoPolicy /\ SetPolicy(p, new)
UpdatePolicy(p, new) == policy[p] # NoPolicy /\ SetPolicy(p, new)
DeletePolicy(p) == policy[p] # NoPolicy /\ SetPolicy(p, NoPolicy)

(* Columns::Add and Columns::Delete insert and delete the row of a column, *)
(* and its field follows; policies on a deleted column stay.               *)
AddColumn(c) ==
    /\ NewColumn(c)
    /\ columns' = columns \cup {c}
    /\ UNCHANGED <<row, disk, policy, job, lost>>

DropColumn(c) ==
    /\ c \in columns
    /\ columns' = columns \ {c}
    /\ UNCHANGED <<row, disk, policy, job, lost>>

Step(w) ==
    \/ GetFilePath(w) \/ CheckOldFile(w) \/ RemoveOldFile(w)
    \/ SaveFile(w) \/ LoadPolicies(w)
    \/ InsertRecord(w) \/ UpdateRecord(w) \/ DeleteRecord(w)

Administer ==
    \/ \E p \in Policies, new \in ActivePolicies :
        InsertPolicy(p, new) \/ UpdatePolicy(p, new)
    \/ \E p \in Policies : DeletePolicy(p)
    \/ \E c \in Columns : AddColumn(c) \/ DropColumn(c)

Next ==
    \/ \E w \in Workers, r \in Rows, upload \in BOOLEAN : StartAdd(w, r, upload)
    \/ \E w \in Workers, u \in Users, op \in {"modify", "delete"}, r \in Rows :
        StartChange(w, u, op, r)
    \/ \E w \in Workers : Step(w) \/ Refuse(w)
    \/ Administer
    \/ Crash

Spec == Init /\ [][Next]_vars

-----------------------------------------------------------------------------
(* The only way a record loses its file: a request removed it, and ended   *)
(* without giving the record another one or deleting it.  Requests on the  *)
(* same record that run at the same time lose no file by themselves.       *)
NoOtherLoss ==
    \A r \in Rows : Dangling(r) =>
        r \in lost \/ \E w \in Workers : job[w].removed /\ job[w].row = r

(* No two records share a file, so that removing the file of one record    *)
(* never takes it from another (the name is drawn anew for every upload).  *)
FilesApart ==
    \A r, s \in Rows : r # s /\ row[r].file # NoFile => row[r].file # row[s].file

(* What row policies promise: a record is hidden from a user when a filter *)
(* that concerns him, on a column of the table, excludes it, unless a      *)
(* policy lets him bypass them all.                                        *)
Hides(p, u, r) ==
    /\ policy[p].action = "filter" /\ u \in policy[p].target
    /\ policy[p].column \in columns /\ <<u, r, policy[p].column>> \notin Matches
Hidden(u, r) ==
    /\ \E p \in Policies : Hides(p, u, r)
    /\ \A p \in Policies : u \in policy[p].target => policy[p].action # "bypass"

(* A row policy holds for the statement itself: a request changes no       *)
(* record that the policies of the table hide from its user, unless they   *)
(* changed after the request had loaded them, they filter on a column      *)
(* added after it had read the columns, or a query for one of them failed. *)
HiddenRowsKept ==
    [][\A r \in Rows : Live(r) /\ row'[r] # row[r] =>
        \E w \in Workers :
            /\ job[w].row = r
            /\ ~Hidden(job[w].user, r) \/ job[w].excused]_vars

-----------------------------------------------------------------------------
(* The inductive invariant of the proofs (RecordsProof).                   *)

(* A file that a request has saved and not yet given to its record is on   *)
(* disk, and nobody else's.                                                *)
HeldFiles ==
    \A w \in Workers : job[w].file # NoFile =>
        /\ job[w].file \in disk
        /\ \A r \in Rows : row[r].file # job[w].file
        /\ \A v \in Workers :
            job[v].old # job[w].file /\ (v # w => job[v].file # job[w].file)

(* The file a request is about to remove is nobody's but its own record's. *)
OldFiles ==
    \A w \in Workers, r \in Rows :
        job[w].old # NoFile /\ row[r].file = job[w].old => r = job[w].row

(* A worker at rest has removed nothing.                                   *)
AtRest == \A w \in Workers : At(w, "idle") => ~job[w].removed

(* A record being added is nobody else's yet.                              *)
NewRows ==
    \A w \in Workers : job[w].op = "add" =>
        /\ job[w].row \in Rows /\ row[job[w].row] = Never
        /\ \A v \in Workers : v # w /\ job[v].op = "add" => job[v].row # job[w].row

(* A change that is about to be written has the filters of the policies    *)
(* there are, or is one of the exceptions of HiddenRowsKept.               *)
PoliciesLoaded ==
    \A w \in Workers :
        job[w].op \in {"modify", "delete"} /\ At(w, "write") /\ ~job[w].excused =>
            BuildCondition(job[w].user, columns, {}) \subseteq job[w].cond

IInv ==
    /\ TypeOK
    /\ FilesApart
    /\ NoOtherLoss
    /\ HeldFiles
    /\ OldFiles
    /\ AtRest
    /\ NewRows
    /\ PoliciesLoaded

=============================================================================
