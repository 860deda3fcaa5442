---------------------------- MODULE RecordsProof ----------------------------
(***************************************************************************)
(* Proofs about Records for every number of users, records, files,         *)
(* columns, policies and workers.                                          *)
(***************************************************************************)
EXTENDS Records, TLAPS

(* The initial state has the declared shape.                               *)
LEMMA TypeInit == Init => TypeOK
  BY DEF Init, TypeOK, Never, Idle, Job, Jobs, PCs

(* What LoadPolicies does, but for the condition it builds.                *)
LoadEffect(w) ==
    /\ job[w].pc = "policies" /\ job'[w].pc = "write"
    /\ job' \in [Workers -> Jobs]
    /\ \A v \in Workers : v # w => job'[v] = job[v]
    /\ job'[w].op = job[w].op /\ job'[w].user = job[w].user
    /\ job'[w].row = job[w].row /\ job'[w].old = job[w].old
    /\ job'[w].file = job[w].file /\ job'[w].removed = job[w].removed
    /\ UNCHANGED <<row, disk, policy, columns, lost>>

LEMMA LoadChanges ==
  ASSUME TypeOK, NEW w \in Workers, LoadPolicies(w)
  PROVE  LoadEffect(w)
<1>1. PICK unresolved \in SUBSET (LookedUp \cap Filters(job[w].user, job[w].columns)) :
        job' = [job EXCEPT
            ![w].cond = BuildCondition(job[w].user, job[w].columns, unresolved),
            ![w].excused = unresolved \cup Skipped(w) # {},
            ![w].columns = {},
            ![w].pc = "write"]
  BY DEF LoadPolicies
<1>2. BuildCondition(job[w].user, job[w].columns, unresolved) \in SUBSET Columns
  BY DEF BuildCondition, Filters, TypeOK, Jobs
<1>3. (unresolved \cup Skipped(w) # {}) \in BOOLEAN
  OBVIOUS
<1> DEFINE cond == BuildCondition(job[w].user, job[w].columns, unresolved)
           open == unresolved \cup Skipped(w) # {}
<1>4. job' = [job EXCEPT ![w].cond = cond, ![w].excused = open,
                         ![w].columns = {}, ![w].pc = "write"]
  BY <1>1
<1> HIDE DEF cond, open
<1>5. cond \in SUBSET Columns /\ open \in BOOLEAN
  BY <1>2, <1>3 DEF cond, open
<1>6. [job[w] EXCEPT !.cond = cond, !.excused = open, !.columns = {},
                     !.pc = "write"] \in Jobs
  <2>1. job[w] \in Jobs
    BY DEF TypeOK
  <2> QED
    BY <2>1, <1>5 DEF Jobs, PCs
<1>7. job' = [job EXCEPT ![w] =
        [job[w] EXCEPT !.cond = cond, !.excused = open, !.columns = {},
                       !.pc = "write"]]
  BY <1>4, Zenon DEF TypeOK
<1>8. job' \in [Workers -> Jobs]
  BY <1>6, <1>7 DEF TypeOK
<1> QED
  BY <1>4, <1>8 DEF LoadEffect, LoadPolicies, At, settings, TypeOK, Jobs

(* Every step of a request, of a policy and of a column keeps the shape.   *)
LEMMA TypeStep == TypeOK /\ [Next]_vars => TypeOK'
<1> SUFFICES ASSUME TypeOK, [Next]_vars PROVE TypeOK'
  OBVIOUS
<1> USE RecordsAssumption
    DEF TypeOK, Jobs, PCs, Ops, Records, Record, Never, Gone, Live, At, Goto, End, LeftBy, Written, settings, Job, Idle
<1>1. ASSUME NEW w \in Workers, NEW r \in Rows, NEW up \in BOOLEAN,
             StartAdd(w, r, up) PROVE TypeOK'
  BY <1>1 DEF StartAdd
<1>2. ASSUME NEW w \in Workers, NEW u \in Users, NEW op \in {"modify", "delete"},
             NEW r \in Rows, StartChange(w, u, op, r) PROVE TypeOK'
  BY <1>2 DEF StartChange
<1>3. ASSUME NEW w \in Workers, Step(w) PROVE TypeOK'
  <2>1. CASE GetFilePath(w)
    BY <2>1 DEF GetFilePath
  <2>2. CASE CheckOldFile(w)
    <3>1. CASE Goto(w, "remove") /\ UNCHANGED lost
      BY <2>2, <3>1 DEF CheckOldFile
    <3>2. CASE /\ job' = [job EXCEPT ![w].old = NoFile, ![w].pc = "policies"]
               /\ UNCHANGED lost
      BY <2>2, <3>2 DEF CheckOldFile
    <3>3. CASE End(w)
      BY <2>2, <3>3 DEF CheckOldFile
    <3> QED
      BY <2>2, <3>1, <3>2, <3>3 DEF CheckOldFile
  <2>3. CASE RemoveOldFile(w)
    <3>1. CASE job[w].old \in disk
      <4>1. disk' \subseteq Files /\ UNCHANGED <<row, policy, columns, lost>>
        BY <2>3, <3>1 DEF RemoveOldFile
      <4>2. job' \in [Workers -> Jobs]
        BY <2>3, <3>1 DEF RemoveOldFile
      <4> QED
        BY <4>1, <4>2
    <3>2. CASE job[w].old \notin disk
      <4>1. End(w) /\ UNCHANGED <<row, disk, policy, columns>>
        BY <2>3, <3>2 DEF RemoveOldFile
      <4> QED
        BY <4>1
    <3> QED
      BY <3>1, <3>2
  <2>4. CASE SaveFile(w)
    BY <2>4 DEF SaveFile
  <2>5. CASE LoadPolicies(w)
    BY <2>5, LoadChanges DEF LoadEffect
  <2>6. CASE InsertRecord(w)
    BY <2>6 DEF InsertRecord
  <2>7. CASE UpdateRecord(w)
    <3>1. job[w].row \in Rows /\ Hit(w) =>
            [row[job[w].row] EXCEPT !.file = job[w].file] \in Records
      BY DEF Hit
    <3>2. row' \in [Rows -> {Never, Gone} \cup Records]
      BY <2>7, <3>1 DEF UpdateRecord
    <3> QED
      BY <2>7, <3>2 DEF UpdateRecord
  <2>8. CASE DeleteRecord(w)
    BY <2>8 DEF DeleteRecord
  <2> QED
    BY <1>3, <2>1, <2>2, <2>3, <2>4, <2>5, <2>6, <2>7, <2>8 DEF Step
<1>4. ASSUME NEW w \in Workers, Refuse(w) PROVE TypeOK'
  BY <1>4 DEF Refuse
<1>5. ASSUME NEW p \in Policies, NEW new \in {NoPolicy} \cup ActivePolicies,
             SetPolicy(p, new) PROVE TypeOK'
  <2>1. policy' \in [Policies -> {NoPolicy} \cup ActivePolicies]
    BY <1>5 DEF SetPolicy
  <2>2. job' \in [Workers -> Jobs]
    <3>1. ASSUME NEW w \in Workers PROVE [job[w] EXCEPT !.excused = TRUE] \in Jobs
      <4>1. job[w] \in Jobs
        OBVIOUS
      <4> QED
        BY <4>1
    <3> QED
      BY <1>5, <3>1 DEF SetPolicy
  <2> QED
    BY <1>5, <2>1, <2>2 DEF SetPolicy
<1>6. ASSUME NEW c \in Columns, AddColumn(c) \/ DropColumn(c) PROVE TypeOK'
  BY <1>6 DEF AddColumn, DropColumn
<1>7. CASE Crash
  BY <1>7 DEF Crash
<1>8. CASE UNCHANGED vars
  BY <1>8 DEF vars
<1> QED
  BY <1>1, <1>2, <1>3, <1>4, <1>5, <1>6, <1>7, <1>8
     DEF Next, Administer, InsertPolicy, UpdatePolicy, DeletePolicy

(* Records, files, policies and requests keep their shape.                 *)
THEOREM TypeCorrect == Spec => []TypeOK
  BY TypeInit, TypeStep, PTL DEF Spec

-----------------------------------------------------------------------------
(* Identifiers of records are drawn once: no request shares a new record.  *)
LEMMA NewStep == TypeOK /\ NewRows /\ [Next]_vars => NewRows'
<1> SUFFICES ASSUME TypeOK, NewRows, [Next]_vars PROVE NewRows'
  OBVIOUS
<1> USE RecordsAssumption
    DEF TypeOK, Jobs, NewRows, Never, Live, At, Goto, End, LeftBy, Written, settings, Job, Idle
<1>1. ASSUME NEW w \in Workers, NEW r \in Rows, NEW up \in BOOLEAN,
             StartAdd(w, r, up) PROVE NewRows'
  BY <1>1 DEF StartAdd
<1>2. ASSUME NEW w \in Workers, NEW u \in Users, NEW op \in {"modify", "delete"},
             NEW r \in Rows, StartChange(w, u, op, r) PROVE NewRows'
  BY <1>2 DEF StartChange
<1>3. ASSUME NEW w \in Workers, Step(w) PROVE NewRows'
  <2>1. CASE GetFilePath(w)
    BY <2>1 DEF GetFilePath
  <2>2. CASE CheckOldFile(w)
    BY <2>2 DEF CheckOldFile
  <2>3. CASE RemoveOldFile(w)
    BY <2>3 DEF RemoveOldFile
  <2>4. CASE SaveFile(w)
    BY <2>4 DEF SaveFile
  <2>5. CASE LoadPolicies(w)
    BY <2>5, LoadChanges DEF LoadEffect
  <2>6. CASE InsertRecord(w)
    BY <2>6 DEF InsertRecord
  <2>7. CASE UpdateRecord(w)
    <3>1. \A r \in Rows : row[r] = Never => row'[r] = Never
      BY <2>7 DEF UpdateRecord, Hit
    <3> QED
      BY <2>7, <3>1 DEF UpdateRecord
  <2>8. CASE DeleteRecord(w)
    <3>1. \A r \in Rows : row[r] = Never => row'[r] = Never
      BY <2>8 DEF DeleteRecord, Hit
    <3> QED
      BY <2>8, <3>1 DEF DeleteRecord
  <2> QED
    BY <1>3, <2>1, <2>2, <2>3, <2>4, <2>5, <2>6, <2>7, <2>8 DEF Step
<1>4. ASSUME NEW w \in Workers, Refuse(w) PROVE NewRows'
  BY <1>4 DEF Refuse
<1>5. ASSUME NEW p \in Policies, NEW new \in {NoPolicy} \cup ActivePolicies,
             SetPolicy(p, new) PROVE NewRows'
  BY <1>5 DEF SetPolicy
<1>6. ASSUME NEW c \in Columns, AddColumn(c) \/ DropColumn(c) PROVE NewRows'
  BY <1>6 DEF AddColumn, DropColumn
<1>7. CASE Crash
  BY <1>7 DEF Crash
<1>8. CASE UNCHANGED vars
  BY <1>8 DEF vars
<1> QED
  BY <1>1, <1>2, <1>3, <1>4, <1>5, <1>6, <1>7, <1>8
     DEF Next, Administer, InsertPolicy, UpdatePolicy, DeletePolicy

(* A new name is nobody's, and is given to one record only.                *)
LEMMA HeldStep == TypeOK /\ NewRows /\ HeldFiles /\ [Next]_vars => HeldFiles'
<1> SUFFICES ASSUME TypeOK, NewRows, HeldFiles, [Next]_vars PROVE HeldFiles'
  OBVIOUS
<1> USE RecordsAssumption
    DEF TypeOK, Jobs, HeldFiles, Unused, Never, Record, Gone, At, Goto, End, LeftBy, Written, settings, Job, Idle
<1>1. ASSUME NEW w \in Workers, NEW r \in Rows, NEW up \in BOOLEAN,
             StartAdd(w, r, up) PROVE HeldFiles'
  BY <1>1 DEF StartAdd
<1>2. ASSUME NEW w \in Workers, NEW u \in Users, NEW op \in {"modify", "delete"},
             NEW r \in Rows, StartChange(w, u, op, r) PROVE HeldFiles'
  BY <1>2 DEF StartChange
<1>3. ASSUME NEW w \in Workers, Step(w) PROVE HeldFiles'
  <2>1. CASE GetFilePath(w)
    BY <2>1 DEF GetFilePath
  <2>2. CASE CheckOldFile(w)
    BY <2>2 DEF CheckOldFile
  <2>3. CASE RemoveOldFile(w)
    BY <2>3 DEF RemoveOldFile
  <2>4. CASE SaveFile(w)
    BY <2>4 DEF SaveFile
  <2>5. CASE LoadPolicies(w)
    BY <2>5, LoadChanges DEF LoadEffect
  <2>6. CASE InsertRecord(w)
    BY <2>6 DEF InsertRecord
  <2>7. CASE UpdateRecord(w)
    BY <2>7 DEF UpdateRecord
  <2>8. CASE DeleteRecord(w)
    BY <2>8 DEF DeleteRecord
  <2> QED
    BY <1>3, <2>1, <2>2, <2>3, <2>4, <2>5, <2>6, <2>7, <2>8 DEF Step
<1>4. ASSUME NEW w \in Workers, Refuse(w) PROVE HeldFiles'
  BY <1>4 DEF Refuse
<1>5. ASSUME NEW p \in Policies, NEW new \in {NoPolicy} \cup ActivePolicies,
             SetPolicy(p, new) PROVE HeldFiles'
  BY <1>5 DEF SetPolicy
<1>6. ASSUME NEW c \in Columns, AddColumn(c) \/ DropColumn(c) PROVE HeldFiles'
  BY <1>6 DEF AddColumn, DropColumn
<1>7. CASE Crash
  BY <1>7 DEF Crash
<1>8. CASE UNCHANGED vars
  BY <1>8 DEF vars
<1> QED
  BY <1>1, <1>2, <1>3, <1>4, <1>5, <1>6, <1>7, <1>8
     DEF Next, Administer, InsertPolicy, UpdatePolicy, DeletePolicy

(* A record receives the file its own request has saved.                   *)
LEMMA ApartStep == TypeOK /\ HeldFiles /\ FilesApart /\ [Next]_vars => FilesApart'
<1> SUFFICES ASSUME TypeOK, HeldFiles, FilesApart, [Next]_vars PROVE FilesApart'
  OBVIOUS
<1> USE RecordsAssumption
    DEF TypeOK, Jobs, HeldFiles, FilesApart, Record, Gone, At, Goto, End, LeftBy, Written, settings, Job, Idle
<1>1. ASSUME NEW w \in Workers, NEW r \in Rows, NEW up \in BOOLEAN,
             StartAdd(w, r, up) PROVE FilesApart'
  BY <1>1 DEF StartAdd
<1>2. ASSUME NEW w \in Workers, NEW u \in Users, NEW op \in {"modify", "delete"},
             NEW r \in Rows, StartChange(w, u, op, r) PROVE FilesApart'
  BY <1>2 DEF StartChange
<1>3. ASSUME NEW w \in Workers, Step(w) PROVE FilesApart'
  <2>1. CASE GetFilePath(w)
    BY <2>1 DEF GetFilePath
  <2>2. CASE CheckOldFile(w)
    BY <2>2 DEF CheckOldFile
  <2>3. CASE RemoveOldFile(w)
    BY <2>3 DEF RemoveOldFile
  <2>4. CASE SaveFile(w)
    BY <2>4 DEF SaveFile
  <2>5. CASE LoadPolicies(w)
    BY <2>5 DEF LoadPolicies
  <2>6. CASE InsertRecord(w)
    BY <2>6 DEF InsertRecord
  <2>7. CASE UpdateRecord(w)
    BY <2>7 DEF UpdateRecord
  <2>8. CASE DeleteRecord(w)
    BY <2>8 DEF DeleteRecord
  <2> QED
    BY <1>3, <2>1, <2>2, <2>3, <2>4, <2>5, <2>6, <2>7, <2>8 DEF Step
<1>4. ASSUME NEW w \in Workers, Refuse(w) PROVE FilesApart'
  BY <1>4 DEF Refuse
<1>5. ASSUME NEW p \in Policies, NEW new \in {NoPolicy} \cup ActivePolicies,
             SetPolicy(p, new) PROVE FilesApart'
  BY <1>5 DEF SetPolicy
<1>6. ASSUME NEW c \in Columns, AddColumn(c) \/ DropColumn(c) PROVE FilesApart'
  BY <1>6 DEF AddColumn, DropColumn
<1>7. CASE Crash
  BY <1>7 DEF Crash
<1>8. CASE UNCHANGED vars
  BY <1>8 DEF vars
<1> QED
  BY <1>1, <1>2, <1>3, <1>4, <1>5, <1>6, <1>7, <1>8
     DEF Next, Administer, InsertPolicy, UpdatePolicy, DeletePolicy

(* The file read from a record stays with this record as long as it is     *)
(* there.                                                                  *)
LEMMA OldStep == TypeOK /\ HeldFiles /\ FilesApart /\ OldFiles /\ [Next]_vars => OldFiles'
<1> SUFFICES ASSUME TypeOK, HeldFiles, FilesApart, OldFiles, [Next]_vars PROVE OldFiles'
  OBVIOUS
<1> USE RecordsAssumption
    DEF TypeOK, Jobs, HeldFiles, FilesApart, OldFiles, Unused, Record, Gone, At, Goto, End, LeftBy, Written, settings, Job, Idle
<1>1. ASSUME NEW w \in Workers, NEW r \in Rows, NEW up \in BOOLEAN,
             StartAdd(w, r, up) PROVE OldFiles'
  BY <1>1 DEF StartAdd
<1>2. ASSUME NEW w \in Workers, NEW u \in Users, NEW op \in {"modify", "delete"},
             NEW r \in Rows, StartChange(w, u, op, r) PROVE OldFiles'
  BY <1>2 DEF StartChange
<1>3. ASSUME NEW w \in Workers, Step(w) PROVE OldFiles'
  <2>1. CASE GetFilePath(w)
    BY <2>1 DEF GetFilePath
  <2>2. CASE CheckOldFile(w)
    BY <2>2 DEF CheckOldFile
  <2>3. CASE RemoveOldFile(w)
    BY <2>3 DEF RemoveOldFile
  <2>4. CASE SaveFile(w)
    BY <2>4 DEF SaveFile
  <2>5. CASE LoadPolicies(w)
    BY <2>5, LoadChanges DEF LoadEffect
  <2>6. CASE InsertRecord(w)
    BY <2>6 DEF InsertRecord
  <2>7. CASE UpdateRecord(w)
    BY <2>7 DEF UpdateRecord
  <2>8. CASE DeleteRecord(w)
    BY <2>8 DEF DeleteRecord
  <2> QED
    BY <1>3, <2>1, <2>2, <2>3, <2>4, <2>5, <2>6, <2>7, <2>8 DEF Step
<1>4. ASSUME NEW w \in Workers, Refuse(w) PROVE OldFiles'
  BY <1>4 DEF Refuse
<1>5. ASSUME NEW p \in Policies, NEW new \in {NoPolicy} \cup ActivePolicies,
             SetPolicy(p, new) PROVE OldFiles'
  BY <1>5 DEF SetPolicy
<1>6. ASSUME NEW c \in Columns, AddColumn(c) \/ DropColumn(c) PROVE OldFiles'
  BY <1>6 DEF AddColumn, DropColumn
<1>7. CASE Crash
  BY <1>7 DEF Crash
<1>8. CASE UNCHANGED vars
  BY <1>8 DEF vars
<1> QED
  BY <1>1, <1>2, <1>3, <1>4, <1>5, <1>6, <1>7, <1>8
     DEF Next, Administer, InsertPolicy, UpdatePolicy, DeletePolicy

(* Whoever ends forgets what it has removed.                               *)
LEMMA RestStep == TypeOK /\ AtRest /\ [Next]_vars => AtRest'
<1> SUFFICES ASSUME TypeOK, AtRest, [Next]_vars PROVE AtRest'
  OBVIOUS
<1> USE RecordsAssumption
    DEF TypeOK, Jobs, AtRest, At, Goto, End, LeftBy, Written, settings, Job, Idle
<1>1. ASSUME NEW w \in Workers, NEW r \in Rows, NEW up \in BOOLEAN,
             StartAdd(w, r, up) PROVE AtRest'
  BY <1>1 DEF StartAdd
<1>2. ASSUME NEW w \in Workers, NEW u \in Users, NEW op \in {"modify", "delete"},
             NEW r \in Rows, StartChange(w, u, op, r) PROVE AtRest'
  BY <1>2 DEF StartChange
<1>3. ASSUME NEW w \in Workers, Step(w) PROVE AtRest'
  <2>1. CASE GetFilePath(w)
    BY <2>1 DEF GetFilePath
  <2>2. CASE CheckOldFile(w)
    BY <2>2 DEF CheckOldFile
  <2>3. CASE RemoveOldFile(w)
    BY <2>3 DEF RemoveOldFile
  <2>4. CASE SaveFile(w)
    BY <2>4 DEF SaveFile
  <2>5. CASE LoadPolicies(w)
    BY <2>5, LoadChanges DEF LoadEffect
  <2>6. CASE InsertRecord(w)
    BY <2>6 DEF InsertRecord
  <2>7. CASE UpdateRecord(w)
    BY <2>7 DEF UpdateRecord
  <2>8. CASE DeleteRecord(w)
    BY <2>8 DEF DeleteRecord
  <2> QED
    BY <1>3, <2>1, <2>2, <2>3, <2>4, <2>5, <2>6, <2>7, <2>8 DEF Step
<1>4. ASSUME NEW w \in Workers, Refuse(w) PROVE AtRest'
  BY <1>4 DEF Refuse
<1>5. ASSUME NEW p \in Policies, NEW new \in {NoPolicy} \cup ActivePolicies,
             SetPolicy(p, new) PROVE AtRest'
  BY <1>5 DEF SetPolicy
<1>6. ASSUME NEW c \in Columns, AddColumn(c) \/ DropColumn(c) PROVE AtRest'
  BY <1>6 DEF AddColumn, DropColumn
<1>7. CASE Crash
  BY <1>7 DEF Crash
<1>8. CASE UNCHANGED vars
  BY <1>8 DEF vars
<1> QED
  BY <1>1, <1>2, <1>3, <1>4, <1>5, <1>6, <1>7, <1>8
     DEF Next, Administer, InsertPolicy, UpdatePolicy, DeletePolicy

(* A file goes only by the request of its own record, which is remembered  *)
(* until the record has another file or is gone.                           *)
LEMMA LossStep == TypeOK /\ HeldFiles /\ OldFiles /\ AtRest /\ NoOtherLoss /\ [Next]_vars => NoOtherLoss'
<1> SUFFICES ASSUME TypeOK, HeldFiles, OldFiles, AtRest, NoOtherLoss, [Next]_vars PROVE NoOtherLoss'
  OBVIOUS
<1> USE RecordsAssumption
    DEF TypeOK, Jobs, HeldFiles, OldFiles, AtRest, NoOtherLoss, Dangling, Record, Gone, At, Goto, End, LeftBy, Written, settings, Job, Idle
<1>1. ASSUME NEW w \in Workers, NEW r \in Rows, NEW up \in BOOLEAN,
             StartAdd(w, r, up) PROVE NoOtherLoss'
  BY <1>1 DEF StartAdd
<1>2. ASSUME NEW w \in Workers, NEW u \in Users, NEW op \in {"modify", "delete"},
             NEW r \in Rows, StartChange(w, u, op, r) PROVE NoOtherLoss'
  BY <1>2 DEF StartChange
<1>3. ASSUME NEW w \in Workers, Step(w) PROVE NoOtherLoss'
  <2>1. CASE GetFilePath(w)
    BY <2>1 DEF GetFilePath
  <2>2. CASE CheckOldFile(w)
    BY <2>2 DEF CheckOldFile
  <2>3. CASE RemoveOldFile(w)
    <3>1. CASE job[w].old \in disk
      <4>1. /\ disk' = disk \ {job[w].old} /\ UNCHANGED <<row, lost>>
            /\ job'[w].removed /\ job'[w].row = job[w].row
            /\ \A v \in Workers \ {w} : job'[v] = job[v]
        BY <2>3, <3>1 DEF RemoveOldFile
      <4> QED
        BY <3>1, <4>1
    <3>2. CASE job[w].old \notin disk
      BY <2>3, <3>2 DEF RemoveOldFile
    <3> QED
      BY <3>1, <3>2
  <2>4. CASE SaveFile(w)
    BY <2>4 DEF SaveFile
  <2>5. CASE LoadPolicies(w)
    BY <2>5, LoadChanges DEF LoadEffect
  <2>6. CASE InsertRecord(w)
    BY <2>6 DEF InsertRecord
  <2>7. CASE UpdateRecord(w)
    BY <2>7 DEF UpdateRecord
  <2>8. CASE DeleteRecord(w)
    BY <2>8 DEF DeleteRecord
  <2> QED
    BY <1>3, <2>1, <2>2, <2>3, <2>4, <2>5, <2>6, <2>7, <2>8 DEF Step
<1>4. ASSUME NEW w \in Workers, Refuse(w) PROVE NoOtherLoss'
  BY <1>4 DEF Refuse
<1>5. ASSUME NEW p \in Policies, NEW new \in {NoPolicy} \cup ActivePolicies,
             SetPolicy(p, new) PROVE NoOtherLoss'
  BY <1>5 DEF SetPolicy
<1>6. ASSUME NEW c \in Columns, AddColumn(c) \/ DropColumn(c) PROVE NoOtherLoss'
  BY <1>6 DEF AddColumn, DropColumn
<1>7. CASE Crash
  BY <1>7 DEF Crash
<1>8. CASE UNCHANGED vars
  BY <1>8 DEF vars
<1> QED
  BY <1>1, <1>2, <1>3, <1>4, <1>5, <1>6, <1>7, <1>8
     DEF Next, Administer, InsertPolicy, UpdatePolicy, DeletePolicy

(* The filters a change has loaded are still those of its user.            *)
LEMMA LoadedStep == TypeOK /\ PoliciesLoaded /\ [Next]_vars => PoliciesLoaded'
<1> SUFFICES ASSUME TypeOK, PoliciesLoaded, [Next]_vars PROVE PoliciesLoaded'
  OBVIOUS
<1> USE RecordsAssumption
    DEF TypeOK, Jobs, PoliciesLoaded, BuildCondition, Filters, HasBypass,
        MatchPolicyTarget, At, Goto, End, LeftBy, Written, settings, Job, Idle
<1>1. ASSUME NEW w \in Workers, NEW r \in Rows, NEW up \in BOOLEAN,
             StartAdd(w, r, up) PROVE PoliciesLoaded'
  BY <1>1 DEF StartAdd
<1>2. ASSUME NEW w \in Workers, NEW u \in Users, NEW op \in {"modify", "delete"},
             NEW r \in Rows, StartChange(w, u, op, r) PROVE PoliciesLoaded'
  BY <1>2 DEF StartChange
<1>3. ASSUME NEW w \in Workers, Step(w) PROVE PoliciesLoaded'
  <2>1. CASE GetFilePath(w)
    BY <2>1 DEF GetFilePath
  <2>2. CASE CheckOldFile(w)
    BY <2>2 DEF CheckOldFile
  <2>3. CASE RemoveOldFile(w)
    <3>1. /\ \A v \in Workers \ {w} : job'[v] = job[v]
          /\ \/ job'[w].op = "none"
             \/ /\ job'[w].op = job[w].op /\ job'[w].columns = job[w].columns
                /\ job[w].pc # "write" /\ job'[w].pc # "write"
          /\ UNCHANGED <<policy, columns>>
      BY <2>3 DEF RemoveOldFile
    <3> QED
      BY <3>1
  <2>4. CASE SaveFile(w)
    BY <2>4 DEF SaveFile
  <2>5. CASE LoadPolicies(w)
    <3>1. PICK unresolved \in SUBSET (LookedUp \cap Filters(job[w].user, job[w].columns)) :
            job' = [job EXCEPT
                ![w].cond = BuildCondition(job[w].user, job[w].columns, unresolved),
                ![w].excused = unresolved \cup Skipped(w) # {},
                ![w].columns = {},
                ![w].pc = "write"]
      BY <2>5 DEF LoadPolicies
    <3>2. /\ job'[w].pc = "write" /\ job'[w].op = job[w].op
          /\ job'[w].user = job[w].user
          /\ job'[w].cond = BuildCondition(job[w].user, job[w].columns, unresolved)
          /\ job'[w].excused <=> unresolved \cup Skipped(w) # {}
          /\ \A v \in Workers \ {w} : job'[v] = job[v]
          /\ UNCHANGED <<policy, columns>>
      <4> DEFINE cond == BuildCondition(job[w].user, job[w].columns, unresolved)
                 open == unresolved \cup Skipped(w) # {}
      <4>1. job' = [job EXCEPT ![w].cond = cond, ![w].excused = open,
                               ![w].columns = {}, ![w].pc = "write"]
        BY <3>1
      <4>2. UNCHANGED <<policy, columns>>
        BY <2>5 DEF LoadPolicies
      <4>3. (cond = BuildCondition(job[w].user, job[w].columns, unresolved))
            /\ (open <=> unresolved \cup Skipped(w) # {})
        OBVIOUS
      <4> HIDE DEF cond, open
      <4> QED
        <5>1. /\ job'[w].pc = "write" /\ job'[w].op = job[w].op
              /\ job'[w].user = job[w].user /\ job'[w].cond = cond
              /\ job'[w].excused = open
              /\ \A v \in Workers \ {w} : job'[v] = job[v]
          BY <4>1
        <5> QED
          BY <5>1, <4>2, <4>3, Zenon
    <3>3. unresolved \cup Skipped(w) = {} =>
            BuildCondition(job[w].user, columns, {})
                \subseteq BuildCondition(job[w].user, job[w].columns, unresolved)
      BY DEF Skipped
    <3> QED
      BY <3>2, <3>3
  <2>6. CASE InsertRecord(w)
    BY <2>6 DEF InsertRecord
  <2>7. CASE UpdateRecord(w)
    BY <2>7 DEF UpdateRecord
  <2>8. CASE DeleteRecord(w)
    BY <2>8 DEF DeleteRecord
  <2> QED
    BY <1>3, <2>1, <2>2, <2>3, <2>4, <2>5, <2>6, <2>7, <2>8 DEF Step
<1>4. ASSUME NEW w \in Workers, Refuse(w) PROVE PoliciesLoaded'
  BY <1>4 DEF Refuse
<1>5. ASSUME NEW p \in Policies, NEW new \in {NoPolicy} \cup ActivePolicies,
             SetPolicy(p, new) PROVE PoliciesLoaded'
  BY <1>5 DEF SetPolicy
<1>6. ASSUME NEW c \in Columns, AddColumn(c) \/ DropColumn(c) PROVE PoliciesLoaded'
  <2>1. UNCHANGED <<policy, job>>
    BY <1>6 DEF AddColumn, DropColumn
  <2>2. \A u \in Users \cup {None} : Filters(u, columns') \subseteq Filters(u, columns)
    BY <1>6 DEF AddColumn, DropColumn, NewColumn
  <2> QED
    BY <2>1, <2>2
<1>7. CASE Crash
  BY <1>7 DEF Crash
<1>8. CASE UNCHANGED vars
  BY <1>8 DEF vars
<1> HIDE DEF TypeOK, Jobs, PoliciesLoaded, BuildCondition, Filters, HasBypass,
             MatchPolicyTarget, At, Goto, End, LeftBy, Written, settings, Job, Idle
<1> QED
  BY <1>1, <1>2, <1>3, <1>4, <1>5, <1>6, <1>7, <1>8
     DEF Next, Administer, InsertPolicy, UpdatePolicy, DeletePolicy

-----------------------------------------------------------------------------
(* The invariant holds at the start.                                       *)
LEMMA InvInit == Init => IInv
  BY TypeInit, RecordsAssumption
     DEF Init, IInv, FilesApart, NoOtherLoss, Dangling, HeldFiles, OldFiles,
         AtRest, NewRows, PoliciesLoaded, Never, Idle, Job

(* No statement, file operation, failure or crash breaks it.               *)
LEMMA InvStep == IInv /\ [Next]_vars => IInv'
  BY TypeStep, NewStep, HeldStep, ApartStep, OldStep, RestStep, LossStep,
     LoadedStep DEF IInv

(* What requests hold, remember and have loaded stays consistent with what *)
(* is on disk and in the tables.                                           *)
THEOREM Inductive == Spec => []IInv
  BY InvInit, InvStep, PTL DEF Spec

(* Modify and Delete take a file from the record of their own request      *)
(* only, whatever else runs at the same time and wherever it ends.         *)
THEOREM LossSafe == Spec => []NoOtherLoss
<1>1. IInv => NoOtherLoss
  BY DEF IInv
<1> QED
  BY <1>1, Inductive, PTL

(* The names Save draws keep the files of records apart.                   *)
THEOREM ApartSafe == Spec => []FilesApart
<1>1. IInv => FilesApart
  BY DEF IInv
<1> QED
  BY <1>1, Inductive, PTL

(* Filters loaded for a change decide of every record that policies hide.  *)
LEMMA LoadedFilters ==
  ASSUME IInv, NEW w \in Workers, job[w].op \in {"modify", "delete"},
         At(w, "write"), ~job[w].excused, Hit(w)
  PROVE  ~Hidden(job[w].user, job[w].row)
<1>1. BuildCondition(job[w].user, columns, {}) \subseteq job[w].cond
  BY DEF IInv, PoliciesLoaded
<1>2. SUFFICES ASSUME NEW p \in Policies, Hides(p, job[w].user, job[w].row),
                      \A q \in Policies : job[w].user \in policy[q].target
                                           => policy[q].action # "bypass"
               PROVE  FALSE
  BY DEF Hidden
<1>3. ~HasBypass(job[w].user)
  BY <1>2 DEF HasBypass, MatchPolicyTarget
<1>4. policy[p].column \in Filters(job[w].user, columns)
  BY <1>2 DEF Hides, Filters, MatchPolicyTarget
<1>5. policy[p].column \in job[w].cond
  BY <1>1, <1>3, <1>4 DEF BuildCondition
<1> QED
  BY <1>2, <1>5 DEF Hides, Hit, Selects

(* The UPDATE and the DELETE spare the records row policies hide.          *)
THEOREM HiddenSafe == Spec => HiddenRowsKept
<1> DEFINE Kept ==
        \A r \in Rows : Live(r) /\ row'[r] # row[r] =>
            \E w \in Workers :
                /\ job[w].row = r
                /\ ~Hidden(job[w].user, r) \/ job[w].excused
<1>1. IInv /\ [Next]_vars => [Kept]_vars
  <2> SUFFICES ASSUME IInv, Next, NEW r \in Rows, Live(r), row'[r] # row[r]
               PROVE  \E w \in Workers :
                          /\ job[w].row = r
                          /\ ~Hidden(job[w].user, r) \/ job[w].excused
    BY DEF vars
  <2>1. PICK w \in Workers : InsertRecord(w) \/ UpdateRecord(w) \/ DeleteRecord(w)
    <3>1. \A w \in Workers : ~Refuse(w)
      BY DEF Refuse
    <3>2. ~Crash /\ ~Administer
      BY DEF Crash, Administer, InsertPolicy, UpdatePolicy, DeletePolicy,
             SetPolicy, AddColumn, DropColumn
    <3>3. \A w \in Workers : \A s \in Rows : \A up \in BOOLEAN : ~StartAdd(w, s, up)
      BY DEF StartAdd
    <3>4. \A w \in Workers : \A u \in Users : \A op \in {"modify", "delete"} :
            \A s \in Rows : ~StartChange(w, u, op, s)
      BY DEF StartChange
    <3>5. PICK w \in Workers : Step(w)
      BY <3>1, <3>2, <3>3, <3>4 DEF Next
    <3>6. ~GetFilePath(w) /\ ~CheckOldFile(w) /\ ~RemoveOldFile(w)
          /\ ~SaveFile(w) /\ ~LoadPolicies(w)
      BY DEF GetFilePath, CheckOldFile, RemoveOldFile, SaveFile, LoadPolicies
    <3> QED
      BY <3>5, <3>6 DEF Step
  <2>2. CASE InsertRecord(w)
    <3>1. row[job[w].row] = Never
      BY <2>2 DEF InsertRecord, IInv, NewRows
    <3> QED
      BY <2>2, <3>1 DEF InsertRecord, IInv, TypeOK, Live, Never
  <2>3. CASE UpdateRecord(w)
    <3>1. job[w].row = r /\ Hit(w)
      BY <2>3 DEF UpdateRecord, IInv, TypeOK
    <3> QED
      BY <2>3, <3>1, LoadedFilters DEF UpdateRecord
  <2>4. CASE DeleteRecord(w)
    <3>1. job[w].row = r /\ Hit(w)
      BY <2>4 DEF DeleteRecord, IInv, TypeOK
    <3> QED
      BY <2>4, <3>1, LoadedFilters DEF DeleteRecord
  <2> QED
    BY <2>1, <2>2, <2>3, <2>4
<1>2. Spec => [][Kept]_vars
  BY <1>1, Inductive, PTL DEF Spec
<1> QED
  BY <1>2 DEF HiddenRowsKept

=============================================================================
