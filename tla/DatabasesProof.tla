--------------------------- MODULE DatabasesProof ---------------------------
(***************************************************************************)
(* Proofs about Databases for every number of users, databases, tables,    *)
(* rights and workers.                                                     *)
(***************************************************************************)
EXTENDS Databases, TLAPS

(* The initial state has the declared shape.                               *)
LEMMA TypeInit == Init => TypeOK
  BY DatabasesAssumption
     DEF Init, TypeOK, JobsOK, Idle, Job, Jobs, PCs, AddPCs, DeletePCs

(* What the helpers do to the requests.                                    *)
LEMMA GotoEffect ==
  ASSUME JobsOK, NEW w \in Workers, job[w].pc # "idle",
         NEW pc \in PCs \ {"idle", "grant"}, Goto(w, pc)
  PROVE  /\ JobsOK'
         /\ \A v \in Workers \ {w} : job'[v] = job[v]
         /\ job'[w].pc = pc /\ job'[w].user = job[w].user
         /\ job'[w].database = job[w].database
  BY DEF JobsOK, Jobs, Goto

LEMMA FinishEffect ==
  ASSUME JobsOK, NEW w \in Workers, Finish(w)
  PROVE  /\ JobsOK'
         /\ \A v \in Workers \ {w} : job'[v] = job[v]
         /\ job'[w].pc = "idle"
  BY DEF JobsOK, Jobs, PCs, Finish, Idle, Job

LEMMA StartEffect ==
  ASSUME JobsOK, NEW w \in Workers, NEW u \in Users, NEW d \in Databases,
         NEW t \in Tables \cup {None}, NEW pc \in PCs \ {"idle"},
         pc = "grant" => t \in Tables, Start(w, pc, u, d, t)
  PROVE  /\ JobsOK' /\ job[w].pc = "idle"
         /\ \A v \in Workers \ {w} : job'[v] = job[v]
         /\ job'[w].pc = pc /\ job'[w].user = u /\ job'[w].database = d
  BY DEF JobsOK, Jobs, Start, Job, At

LEMMA CrashEffect ==
  ASSUME JobsOK, Crash
  PROVE  JobsOK' /\ \A w \in Workers : job'[w].pc = "idle"
  BY DEF JobsOK, Jobs, PCs, Crash, Idle, Job

(* Requests keep their shape.                                              *)
LEMMA JobsStep == JobsOK /\ [Next]_vars => JobsOK'
<1> SUFFICES ASSUME JobsOK, [Next]_vars PROVE JobsOK'
  OBVIOUS
<1> USE DatabasesAssumption
    DEF PCs, AddPCs, DeletePCs, At
<1>1. ASSUME NEW w \in Workers,
             Add(w) \/ Read(w) \/ Delete(w) \/ Remove(w) \/ AddTable(w) \/ Refuse(w)
      PROVE  JobsOK'
  <2>1. ASSUME NEW a \in Admins, NEW d \in Databases, InsertDatabase(w, a, d) PROVE JobsOK'
    BY <2>1, StartEffect DEF InsertDatabase
  <2>2. CASE InsertDatabaseUser(w)
    BY <2>2, GotoEffect, FinishEffect DEF InsertDatabaseUser
  <2>3. CASE CreateSchema(w)
    BY <2>3, GotoEffect DEF CreateSchema
  <2>4. CASE CheckDirectory(w)
    BY <2>4, GotoEffect, FinishEffect DEF CheckDirectory
  <2>5. CASE MakeDirectory(w)
    BY <2>5, GotoEffect, FinishEffect DEF MakeDirectory
  <2>6. CASE UndoDatabase(w)
    BY <2>6, FinishEffect DEF UndoDatabase
  <2>7. ASSUME NEW a \in Admins, NEW d \in Databases, StartRead(w, a, d) PROVE JobsOK'
    BY <2>7, StartEffect DEF StartRead
  <2>8. CASE EnsureDirectory(w)
    BY <2>8, FinishEffect DEF EnsureDirectory
  <2>9. ASSUME NEW a \in Admins, NEW d \in Databases, StartDelete(w, a, d) PROVE JobsOK'
    BY <2>9, StartEffect DEF StartDelete
  <2>10. CASE CountUserDatabases(w)
    BY <2>10, GotoEffect, FinishEffect DEF CountUserDatabases
  <2>11. CASE VerifyUserDatabaseOwnership(w)
    BY <2>11, GotoEffect, FinishEffect DEF VerifyUserDatabaseOwnership
  <2>12. CASE MarkDatabaseDeleted(w)
    BY <2>12, GotoEffect DEF MarkDatabaseDeleted
  <2>13. CASE DeleteDatabaseUsers(w)
    BY <2>13, FinishEffect DEF DeleteDatabaseUsers
  <2>14. ASSUME NEW u \in Users, NEW d \in Databases, RemoveUserFromDatabase(w, u, d) PROVE JobsOK'
    BY <2>14, StartEffect DEF RemoveUserFromDatabase
  <2>15. CASE CleanupUserTablePermissions(w)
    BY <2>15, FinishEffect DEF CleanupUserTablePermissions
  <2>16. ASSUME NEW a \in Admins, NEW t \in Tables, InsertTable(w, a, t) PROVE JobsOK'
    BY <2>16, StartEffect DEF InsertTable
  <2>17. CASE GrantCreatorFullPermissions(w)
    BY <2>17, FinishEffect DEF GrantCreatorFullPermissions
  <2>18. CASE Refuse(w)
    BY <2>18, FinishEffect DEF Refuse
  <2> QED
    BY <1>1, <2>1, <2>2, <2>3, <2>4, <2>5, <2>6, <2>7, <2>8, <2>9,
       <2>10, <2>11, <2>12, <2>13, <2>14, <2>15, <2>16, <2>17, <2>18
       DEF Add, Read, Delete, Remove, AddTable
<1>2. ASSUME NEW u \in Users, NEW d \in Databases, AddUserToDatabase(u, d) PROVE JobsOK'
  BY <1>2 DEF AddUserToDatabase, JobsOK
<1>3. ASSUME NEW a \in Admins, NEW d \in Databases, SetDatabaseCookie(a, d) PROVE JobsOK'
  BY <1>3 DEF SetDatabaseCookie, JobsOK
<1>4. ASSUME NEW t \in Tables, DeleteTable(t) PROVE JobsOK'
  BY <1>4 DEF DeleteTable, JobsOK
<1>5. ASSUME NEW a \in Admins, NEW u \in Users, NEW t \in Tables,
             NEW rights \in SUBSET Rights, InsertTablePermission(a, u, t, rights) PROVE JobsOK'
  BY <1>5 DEF InsertTablePermission, JobsOK
<1>6. ASSUME NEW e \in Entries, NEW rights \in SUBSET Rights,
             ModifyTablePermission(e, rights) PROVE JobsOK'
  BY <1>6 DEF ModifyTablePermission, JobsOK
<1>7. ASSUME NEW e \in Entries, DeleteTablePermission(e) PROVE JobsOK'
  BY <1>7 DEF DeleteTablePermission, JobsOK
<1>8. CASE Crash
  BY <1>8, CrashEffect DEF Crash
<1>9. CASE UNCHANGED vars
  BY <1>9 DEF vars, JobsOK
<1> QED
  BY <1>1, <1>2, <1>3, <1>4, <1>5, <1>6, <1>7, <1>8, <1>9 DEF Next, Request

(* Every step keeps the shape.                                             *)
LEMMA TypeStep == TypeOK /\ JobsOK' /\ [Next]_vars => TypeOK'
<1> SUFFICES ASSUME TypeOK, JobsOK', [Next]_vars PROVE TypeOK'
  OBVIOUS
<1> USE DatabasesAssumption
    DEF TypeOK, EntryRows, Entry, NoEntry, AddMember, Grant, DeleteDatabase,
        DeleteTables, Granted, Unclean, HalfMade, Present, At, files, tables, history
<1>1. ASSUME NEW w \in Workers,
             Add(w) \/ Read(w) \/ Delete(w) \/ Remove(w) \/ AddTable(w) \/ Refuse(w)
      PROVE  TypeOK'
  <2>1. ASSUME NEW a \in Admins, NEW d \in Databases, InsertDatabase(w, a, d) PROVE TypeOK'
    BY <2>1 DEF InsertDatabase, JobsOK
  <2>2. CASE InsertDatabaseUser(w)
    BY <2>2 DEF InsertDatabaseUser, JobsOK
  <2>3. CASE CreateSchema(w)
    BY <2>3 DEF CreateSchema, JobsOK
  <2>4. CASE CheckDirectory(w)
    BY <2>4 DEF CheckDirectory, JobsOK
  <2>5. CASE MakeDirectory(w)
    BY <2>5 DEF MakeDirectory, JobsOK
  <2>6. CASE UndoDatabase(w)
    BY <2>6 DEF UndoDatabase, JobsOK
  <2>7. ASSUME NEW a \in Admins, NEW d \in Databases, StartRead(w, a, d) PROVE TypeOK'
    BY <2>7 DEF StartRead, JobsOK
  <2>8. CASE EnsureDirectory(w)
    BY <2>8 DEF EnsureDirectory, JobsOK
  <2>9. ASSUME NEW a \in Admins, NEW d \in Databases, StartDelete(w, a, d) PROVE TypeOK'
    BY <2>9 DEF StartDelete, JobsOK
  <2>10. CASE CountUserDatabases(w)
    BY <2>10 DEF CountUserDatabases, JobsOK
  <2>11. CASE VerifyUserDatabaseOwnership(w)
    BY <2>11 DEF VerifyUserDatabaseOwnership, JobsOK
  <2>12. CASE MarkDatabaseDeleted(w)
    BY <2>12 DEF MarkDatabaseDeleted, JobsOK
  <2>13. CASE DeleteDatabaseUsers(w)
    BY <2>13 DEF DeleteDatabaseUsers, JobsOK
  <2>14. ASSUME NEW u \in Users, NEW d \in Databases, RemoveUserFromDatabase(w, u, d) PROVE TypeOK'
    BY <2>14 DEF RemoveUserFromDatabase, JobsOK
  <2>15. CASE CleanupUserTablePermissions(w)
    BY <2>15 DEF CleanupUserTablePermissions, JobsOK
  <2>16. ASSUME NEW a \in Admins, NEW t \in Tables, InsertTable(w, a, t) PROVE TypeOK'
    BY <2>16 DEF InsertTable, JobsOK
  <2>17. CASE GrantCreatorFullPermissions(w)
    BY <2>17 DEF GrantCreatorFullPermissions, JobsOK
  <2>18. CASE Refuse(w)
    BY <2>18 DEF Refuse, JobsOK
  <2> QED
    BY <1>1, <2>1, <2>2, <2>3, <2>4, <2>5, <2>6, <2>7, <2>8, <2>9,
       <2>10, <2>11, <2>12, <2>13, <2>14, <2>15, <2>16, <2>17, <2>18
       DEF Add, Read, Delete, Remove, AddTable
<1>2. ASSUME NEW u \in Users, NEW d \in Databases, AddUserToDatabase(u, d) PROVE TypeOK'
  BY <1>2 DEF AddUserToDatabase
<1>3. ASSUME NEW a \in Admins, NEW d \in Databases, SetDatabaseCookie(a, d) PROVE TypeOK'
  BY <1>3 DEF SetDatabaseCookie
<1>4. ASSUME NEW t \in Tables, DeleteTable(t) PROVE TypeOK'
  BY <1>4 DEF DeleteTable
<1>5. ASSUME NEW a \in Admins, NEW u \in Users, NEW t \in Tables,
             NEW rights \in SUBSET Rights, InsertTablePermission(a, u, t, rights) PROVE TypeOK'
  BY <1>5 DEF InsertTablePermission
<1>6. ASSUME NEW e \in Entries, NEW rights \in SUBSET Rights,
             ModifyTablePermission(e, rights) PROVE TypeOK'
  BY <1>6 DEF ModifyTablePermission
<1>7. ASSUME NEW e \in Entries, DeleteTablePermission(e) PROVE TypeOK'
  BY <1>7 DEF DeleteTablePermission
<1>8. CASE Crash
  BY <1>8 DEF Crash
<1>9. CASE UNCHANGED vars
  BY <1>9 DEF vars
<1> QED
  BY <1>1, <1>2, <1>3, <1>4, <1>5, <1>6, <1>7, <1>8, <1>9 DEF Next, Request

(* Databases, tables, rights and requests keep their shape, and no user has*)
(* fewer rows than none.                                                   *)
THEOREM TypeCorrect == Spec => []TypeOK
<1>1. TypeOK /\ [Next]_vars => TypeOK'
  BY JobsStep, TypeStep DEF TypeOK
<1> QED
  BY TypeInit, <1>1, PTL DEF Spec

-----------------------------------------------------------------------------
(* A step that gives nobody a row and no row another table, keeps tables,  *)
(* and accounts for the rights of those it takes from a database and for   *)
(* those of a removal it ends.                                             *)
Quiet ==
    /\ \A u \in Users, t \in Tables : Holds(u, t)' => Holds(u, t)
    /\ \A t \in Tables : table[t] = "listed" => table'[t] = "listed"
    /\ stray \subseteq stray'
    /\ \A u \in Users, d \in Databases : Member(u, d) =>
        \/ Member(u, d)'
        \/ \E w \in Workers : At(w, "cleanup")' /\ job'[w].user = u /\ job'[w].database = d
        \/ Granted(d) \subseteq stray'
    /\ \A w \in Workers : At(w, "cleanup") => job'[w] = job[w] \/ Unclean(w) \subseteq stray'

LEMMA QuietStep ==
  ASSUME EntriesKnown, Quiet
  PROVE  EntriesKnown'
<1> SUFFICES ASSUME NEW u \in Users, NEW t \in Tables, Holds(u, t)'
             PROVE  table'[t] = "listed" /\ Known(u, t)'
  BY DEF EntriesKnown
<1>1. Holds(u, t) /\ table[t] = "listed" /\ Home[t] \in Databases /\ Known(u, t)
  BY DatabasesAssumption DEF EntriesKnown, Quiet
<1>2. <<u, t>> \in Granted(Home[t])
  BY <1>1 DEF Granted
<1>3. CASE Member(u, Home[t])
  BY <1>1, <1>2, <1>3 DEF Quiet, Known
<1>4. CASE <<u, t>> \in stray
  BY <1>1, <1>4 DEF Quiet, Known
<1>5. ASSUME NEW w \in Workers, At(w, "cleanup"), job[w].user = u,
             job[w].database = Home[t]
      PROVE  table'[t] = "listed" /\ Known(u, t)'
  <2>1. CASE job'[w] = job[w]
    BY <1>1, <1>5, <2>1 DEF Known, At, Quiet
  <2>2. CASE Unclean(w) \subseteq stray'
    <3>1. <<u, t>> \in Unclean(w)
      BY <1>2, <1>5 DEF Unclean
    <3> QED
      BY <1>1, <2>2, <3>1 DEF Known, Quiet
  <2> QED
    BY <1>5, <2>1, <2>2 DEF Quiet
<1> QED
  BY <1>1, <1>3, <1>4, <1>5 DEF Known

(* The rows that the writers of `tables_permissions` leave.                *)
LEMMA GrantEffect ==
  ASSUME TypeOK, NEW u \in Users, NEW t \in Tables, NEW rights, NEW astray,
         Grant(u, t, rights, astray)
  PROVE  /\ table[t] = "listed" /\ UNCHANGED <<table, members>>
         /\ stray \subseteq stray' /\ (astray => <<u, t>> \in stray')
         /\ \A v \in Users, s \in Tables :
                Holds(v, s)' => Holds(v, s) \/ (v = u /\ s = t)
<1>1. PICK e \in Entries : entry' = [entry EXCEPT ![e] = Entry(u, t, rights)]
  BY DEF Grant
<1>2. Entry(u, t, rights).user = u /\ Entry(u, t, rights).table = t
  BY DEF Entry
<1>3. entry'[e] = Entry(u, t, rights) /\ \A f \in Entries \ {e} : entry'[f] = entry[f]
  BY <1>1 DEF TypeOK
<1>4. \A v \in Users, s \in Tables : Holds(v, s)' => Holds(v, s) \/ (v = u /\ s = t)
  <2> SUFFICES ASSUME NEW v \in Users, NEW s \in Tables, Holds(v, s)', ~Holds(v, s)
               PROVE  v = u /\ s = t
    OBVIOUS
  <2>1. PICK f \in Entries : entry'[f].user = v /\ entry'[f].table = s
    BY DEF Holds
  <2> QED
    BY <1>2, <1>3, <2>1 DEF Holds
<1>5. table[t] = "listed" /\ UNCHANGED <<table, members>>
  BY DEF Grant
<1>6. stray' = IF astray THEN stray \cup {<<u, t>>} ELSE stray
  BY DEF Grant
<1>7. stray \subseteq stray' /\ (astray => <<u, t>> \in stray')
  BY <1>6
<1> QED
  BY <1>4, <1>5, <1>7

LEMMA ModifyEffect ==
  ASSUME TypeOK, NEW e \in Entries, NEW rights, ModifyTablePermission(e, rights)
  PROVE  \A u \in Users, t \in Tables : Holds(u, t)' => Holds(u, t)
<1>1. entry[e] \in EntryRows
  BY DEF TypeOK, ModifyTablePermission
<1>2. /\ entry'[e].user = entry[e].user /\ entry'[e].table = entry[e].table
      /\ \A f \in Entries \ {e} : entry'[f] = entry[f]
  BY <1>1 DEF ModifyTablePermission, TypeOK, EntryRows
<1> QED
  BY <1>2 DEF Holds

LEMMA RemoveEffect ==
  ASSUME \A e \in Entries : entry'[e] = entry[e] \/ entry'[e] = NoEntry
  PROVE  \A u \in Users, t \in Tables : Holds(u, t)' => Holds(u, t)
<1> SUFFICES ASSUME NEW u \in Users, NEW t \in Tables, Holds(u, t)'
             PROVE  Holds(u, t)
  OBVIOUS
<1>1. PICK e \in Entries : entry'[e].user = u /\ entry'[e].table = t
  BY DEF Holds
<1>2. NoEntry.user # u
  BY DatabasesAssumption DEF NoEntry, Entry
<1> QED
  BY <1>1, <1>2 DEF Holds

(* A row that is granted does not disturb the others.                      *)
LEMMA GrantKnown ==
  ASSUME TypeOK, EntriesKnown, NEW u \in Users, NEW t \in Tables, NEW rights,
         NEW astray, Grant(u, t, rights, astray), astray \/ Member(u, Home[t]),
         \A w \in Workers : At(w, "cleanup") => job'[w] = job[w]
  PROVE  EntriesKnown'
<1>1. Known(u, t)'
  BY GrantEffect DEF Known, Member
<1>2. ASSUME NEW v \in Users, NEW s \in Tables, Holds(v, s)
      PROVE  table'[s] = "listed" /\ Known(v, s)'
  <2>1. table[s] = "listed" /\ Known(v, s)
    BY <1>2 DEF EntriesKnown
  <2> QED
    BY <2>1, GrantEffect DEF Known, Member, At
<1> QED
  BY <1>1, <1>2, GrantEffect DEF EntriesKnown

(* Rights go after the membership they rest on: a grant in between finds   *)
(* none, unless it looks at another database.                              *)
LEMMA KnownStep == TypeOK /\ JobsOK /\ EntriesKnown /\ [Next]_vars => EntriesKnown'
<1> SUFFICES ASSUME TypeOK, JobsOK, EntriesKnown, [Next]_vars PROVE EntriesKnown'
  OBVIOUS
<1> USE DatabasesAssumption
    DEF AddPCs, DeletePCs, PCs, AddMember, DeleteDatabase, DeleteTables, Member, At, files, tables, history
<1>1. ASSUME NEW w \in Workers,
             Add(w) \/ Read(w) \/ Delete(w) \/ Remove(w) \/ AddTable(w) \/ Refuse(w)
      PROVE  EntriesKnown'
  <2>1. ASSUME NEW a \in Admins, NEW d \in Databases, InsertDatabase(w, a, d) PROVE EntriesKnown'
    <3>1. Quiet
      BY <2>1, StartEffect DEF Quiet, InsertDatabase, Holds
    <3> QED
      BY <3>1, QuietStep
  <2>2. CASE InsertDatabaseUser(w)
    <3>1. Quiet
      BY <2>2, GotoEffect, FinishEffect DEF Quiet, InsertDatabaseUser, Holds, TypeOK
    <3> QED
      BY <3>1, QuietStep
  <2>3. CASE CreateSchema(w)
    <3>1. Quiet
      BY <2>3, GotoEffect DEF Quiet, CreateSchema, Holds
    <3> QED
      BY <3>1, QuietStep
  <2>4. CASE CheckDirectory(w)
    <3>1. Quiet
      BY <2>4, GotoEffect, FinishEffect DEF Quiet, CheckDirectory, Holds
    <3> QED
      BY <3>1, QuietStep
  <2>5. CASE MakeDirectory(w)
    <3>1. Quiet
      BY <2>5, GotoEffect, FinishEffect DEF Quiet, MakeDirectory, Holds
    <3> QED
      BY <3>1, QuietStep
  <2>6. CASE UndoDatabase(w)
    <3>1. \A e \in Entries : 
            \/ entry'[e] = NoEntry
            \/ /\ entry'[e] = entry[e]
               /\ entry[e].table \notin {t \in Tables : Home[t] = job[w].database}
      BY <2>6 DEF UndoDatabase
    <3>2. \A u \in Users, d \in Databases \ {job[w].database} : Member(u, d) => Member(u, d)'
      BY <2>6 DEF UndoDatabase, TypeOK
    <3>3. \A v \in Workers : At(v, "cleanup") => job'[v] = job[v]
      BY <2>6, FinishEffect DEF UndoDatabase
    <3> SUFFICES ASSUME NEW u \in Users, NEW t \in Tables, Holds(u, t)'
                 PROVE  table'[t] = "listed" /\ Known(u, t)'
      BY DEF EntriesKnown
    <3>4. PICK e \in Entries : entry'[e].user = u /\ entry'[e].table = t
      BY DEF Holds
    <3>5. entry'[e] = entry[e] /\ Home[t] # job[w].database
      BY <3>1, <3>4 DEF NoEntry, Entry
    <3>6. table[t] = "listed" /\ Known(u, t)
      BY <3>4, <3>5 DEF EntriesKnown, Holds
    <3>7. table'[t] = "listed"
      BY <2>6, <3>5, <3>6 DEF UndoDatabase, TypeOK
    <3>8. UNCHANGED stray
      BY <2>6 DEF UndoDatabase
    <3> QED
      BY <3>2, <3>3, <3>5, <3>6, <3>7, <3>8 DEF Known
  <2>7. ASSUME NEW a \in Admins, NEW d \in Databases, StartRead(w, a, d) PROVE EntriesKnown'
    <3>1. Quiet
      BY <2>7, StartEffect DEF Quiet, StartRead, Holds
    <3> QED
      BY <3>1, QuietStep
  <2>8. CASE EnsureDirectory(w)
    <3>1. Quiet
      BY <2>8, FinishEffect DEF Quiet, EnsureDirectory, Holds
    <3> QED
      BY <3>1, QuietStep
  <2>9. ASSUME NEW a \in Admins, NEW d \in Databases, StartDelete(w, a, d) PROVE EntriesKnown'
    <3>1. Quiet
      BY <2>9, StartEffect DEF Quiet, StartDelete, Holds
    <3> QED
      BY <3>1, QuietStep
  <2>10. CASE CountUserDatabases(w)
    <3>1. Quiet
      BY <2>10, GotoEffect, FinishEffect DEF Quiet, CountUserDatabases, Holds
    <3> QED
      BY <3>1, QuietStep
  <2>11. CASE VerifyUserDatabaseOwnership(w)
    <3>1. Quiet
      BY <2>11, GotoEffect, FinishEffect DEF Quiet, VerifyUserDatabaseOwnership, Holds
    <3> QED
      BY <3>1, QuietStep
  <2>12. CASE MarkDatabaseDeleted(w)
    <3>1. Quiet
      BY <2>12, GotoEffect DEF Quiet, MarkDatabaseDeleted, Holds
    <3> QED
      BY <3>1, QuietStep
  <2>13. CASE DeleteDatabaseUsers(w)
    <3>1. Quiet
      BY <2>13, FinishEffect DEF Quiet, DeleteDatabaseUsers, Holds
    <3> QED
      BY <3>1, QuietStep
  <2>14. ASSUME NEW u \in Users, NEW d \in Databases, RemoveUserFromDatabase(w, u, d) PROVE EntriesKnown'
    <3>1. Quiet
      BY <2>14, StartEffect DEF Quiet, RemoveUserFromDatabase, Holds
    <3> QED
      BY <3>1, QuietStep
  <2>15. CASE CleanupUserTablePermissions(w)
    <3>1. \A e \in Entries : 
            \/ entry'[e] = NoEntry
            \/ entry'[e] = entry[e] /\ ~ (/\ entry[e].user = job[w].user
                                          /\ \E t \in Tables : entry[e].table = t /\ Home[t] = job[w].database)
      BY <2>15 DEF CleanupUserTablePermissions
    <3>2. \A v \in Workers \ {w} : job'[v] = job[v]
      BY <2>15, FinishEffect DEF CleanupUserTablePermissions
    <3>3. UNCHANGED <<members, stray, table>>
      BY <2>15 DEF CleanupUserTablePermissions
    <3> SUFFICES ASSUME NEW u \in Users, NEW t \in Tables, Holds(u, t)'
                 PROVE  table'[t] = "listed" /\ Known(u, t)'
      BY DEF EntriesKnown
    <3>4. PICK e \in Entries : entry'[e].user = u /\ entry'[e].table = t
      BY DEF Holds
    <3>5. entry'[e] = entry[e] /\ ~ (job[w].user = u /\ job[w].database = Home[t])
      BY <3>1, <3>4 DEF NoEntry, Entry
    <3>6. table[t] = "listed" /\ Known(u, t)
      BY <3>4, <3>5 DEF EntriesKnown, Holds
    <3> QED
      BY <3>2, <3>3, <3>5, <3>6 DEF Known
  <2>16. ASSUME NEW a \in Admins, NEW t \in Tables, InsertTable(w, a, t) PROVE EntriesKnown'
    <3>1. Quiet
      BY <2>16, StartEffect DEF Quiet, InsertTable, Holds
    <3> QED
      BY <3>1, QuietStep
  <2>17. CASE GrantCreatorFullPermissions(w)
    <3>1. job[w].user \in Users /\ job[w].table \in Tables
      BY <2>17 DEF GrantCreatorFullPermissions, JobsOK
    <3>2. Grant(job[w].user, job[w].table, Rights,
                ~(members[Home[job[w].table]][job[w].user] > 0))
      BY <2>17 DEF GrantCreatorFullPermissions
    <3>3. \A v \in Workers : At(v, "cleanup") => job'[v] = job[v]
      BY <2>17, FinishEffect DEF GrantCreatorFullPermissions
    <3> QED
      BY <3>1, <3>2, <3>3, GrantKnown
  <2>18. CASE Refuse(w)
    <3>1. Quiet
      BY <2>18, FinishEffect DEF Quiet, Refuse, Holds
    <3> QED
      BY <3>1, QuietStep
  <2> QED
    BY <1>1, <2>1, <2>2, <2>3, <2>4, <2>5, <2>6, <2>7, <2>8, <2>9,
       <2>10, <2>11, <2>12, <2>13, <2>14, <2>15, <2>16, <2>17, <2>18
       DEF Add, Read, Delete, Remove, AddTable
<1>2. ASSUME NEW u \in Users, NEW d \in Databases, AddUserToDatabase(u, d) PROVE EntriesKnown'
  <2>1. Quiet
    BY <1>2 DEF Quiet, AddUserToDatabase, Holds, TypeOK
  <2> QED
    BY <2>1, QuietStep
<1>3. ASSUME NEW a \in Admins, NEW d \in Databases, SetDatabaseCookie(a, d) PROVE EntriesKnown'
  <2>1. Quiet
    BY <1>3 DEF Quiet, SetDatabaseCookie, Holds
  <2> QED
    BY <2>1, QuietStep
<1>4. ASSUME NEW t \in Tables, DeleteTable(t) PROVE EntriesKnown'
  <2>1. \A e \in Entries : 
            \/ entry'[e] = NoEntry
            \/ entry'[e] = entry[e] /\ entry[e].table # t
    BY <1>4 DEF DeleteTable
  <2>2. UNCHANGED <<members, stray, job>>
    BY <1>4 DEF DeleteTable
  <2> SUFFICES ASSUME NEW u \in Users, NEW s \in Tables, Holds(u, s)'
               PROVE  table'[s] = "listed" /\ Known(u, s)'
    BY DEF EntriesKnown
  <2>3. PICK e \in Entries : entry'[e].user = u /\ entry'[e].table = s
    BY DEF Holds
  <2>4. entry'[e] = entry[e] /\ s # t
    BY <2>1, <2>3 DEF NoEntry, Entry
  <2>5. table[s] = "listed" /\ Known(u, s)
    BY <2>3, <2>4 DEF EntriesKnown, Holds
  <2>6. table'[s] = "listed"
    BY <1>4, <2>4, <2>5 DEF DeleteTable, TypeOK
  <2> QED
    BY <2>2, <2>5, <2>6 DEF Known
<1>5. ASSUME NEW a \in Admins, NEW u \in Users, NEW t \in Tables,
             NEW rights \in SUBSET Rights, InsertTablePermission(a, u, t, rights) PROVE EntriesKnown'
  <2>1. PICK d \in Databases :
          members[d][u] = 1 /\ Grant(u, t, rights, d # Home[t])
    BY <1>5 DEF InsertTablePermission, TypeOK
  <2>2. \A v \in Workers : At(v, "cleanup") => job'[v] = job[v]
    BY <1>5 DEF InsertTablePermission
  <2>3. (d # Home[t]) \/ Member(u, Home[t])
    BY <2>1
  <2> QED
    BY <2>1, <2>2, <2>3, GrantKnown
<1>6. ASSUME NEW e \in Entries, NEW rights \in SUBSET Rights,
             ModifyTablePermission(e, rights) PROVE EntriesKnown'
  <2>1. Quiet
    BY <1>6, ModifyEffect DEF Quiet, ModifyTablePermission
  <2> QED
    BY <2>1, QuietStep
<1>7. ASSUME NEW e \in Entries, DeleteTablePermission(e) PROVE EntriesKnown'
  <2>1. \A f \in Entries : entry'[f] = entry[f] \/ entry'[f] = NoEntry
    BY <1>7 DEF DeleteTablePermission, TypeOK
  <2>2. Quiet
    BY <1>7, <2>1, RemoveEffect DEF Quiet, DeleteTablePermission
  <2> QED
    BY <2>2, QuietStep
<1>8. CASE Crash
  <2>1. Quiet
    BY <1>8, CrashEffect DEF Quiet, Crash, Holds
  <2> QED
    BY <2>1, QuietStep
<1>9. CASE UNCHANGED vars
  <2>1. Quiet
    BY <1>9 DEF Quiet, vars, Holds
  <2> QED
    BY <2>1, QuietStep
<1> QED
  BY <1>1, <1>2, <1>3, <1>4, <1>5, <1>6, <1>7, <1>8, <1>9 DEF Next, Request

(* Removing a database takes its users with it.                            *)
LEMMA MembersStep == TypeOK /\ MembersPresent /\ [Next]_vars => MembersPresent'
<1> SUFFICES ASSUME TypeOK, MembersPresent, [Next]_vars PROVE MembersPresent'
  OBVIOUS
<1> USE DatabasesAssumption
    DEF TypeOK, MembersPresent,
        Member, Present, AddMember, DeleteDatabase, Grant, At, files, tables, history
<1>1. ASSUME NEW w \in Workers,
             Add(w) \/ Read(w) \/ Delete(w) \/ Remove(w) \/ AddTable(w) \/ Refuse(w)
      PROVE  MembersPresent'
  <2>1. ASSUME NEW a \in Admins, NEW d \in Databases, InsertDatabase(w, a, d) PROVE MembersPresent'
    BY <2>1 DEF InsertDatabase
  <2>2. CASE InsertDatabaseUser(w)
    BY <2>2 DEF InsertDatabaseUser
  <2>3. CASE CreateSchema(w)
    BY <2>3 DEF CreateSchema
  <2>4. CASE CheckDirectory(w)
    BY <2>4 DEF CheckDirectory
  <2>5. CASE MakeDirectory(w)
    BY <2>5 DEF MakeDirectory
  <2>6. CASE UndoDatabase(w)
    BY <2>6 DEF UndoDatabase
  <2>7. ASSUME NEW a \in Admins, NEW d \in Databases, StartRead(w, a, d) PROVE MembersPresent'
    BY <2>7 DEF StartRead
  <2>8. CASE EnsureDirectory(w)
    BY <2>8 DEF EnsureDirectory
  <2>9. ASSUME NEW a \in Admins, NEW d \in Databases, StartDelete(w, a, d) PROVE MembersPresent'
    BY <2>9 DEF StartDelete
  <2>10. CASE CountUserDatabases(w)
    BY <2>10 DEF CountUserDatabases
  <2>11. CASE VerifyUserDatabaseOwnership(w)
    BY <2>11 DEF VerifyUserDatabaseOwnership
  <2>12. CASE MarkDatabaseDeleted(w)
    BY <2>12 DEF MarkDatabaseDeleted
  <2>13. CASE DeleteDatabaseUsers(w)
    BY <2>13 DEF DeleteDatabaseUsers
  <2>14. ASSUME NEW u \in Users, NEW d \in Databases, RemoveUserFromDatabase(w, u, d) PROVE MembersPresent'
    BY <2>14 DEF RemoveUserFromDatabase
  <2>15. CASE CleanupUserTablePermissions(w)
    BY <2>15 DEF CleanupUserTablePermissions
  <2>16. ASSUME NEW a \in Admins, NEW t \in Tables, InsertTable(w, a, t) PROVE MembersPresent'
    BY <2>16 DEF InsertTable
  <2>17. CASE GrantCreatorFullPermissions(w)
    BY <2>17 DEF GrantCreatorFullPermissions
  <2>18. CASE Refuse(w)
    BY <2>18 DEF Refuse
  <2> QED
    BY <1>1, <2>1, <2>2, <2>3, <2>4, <2>5, <2>6, <2>7, <2>8, <2>9,
       <2>10, <2>11, <2>12, <2>13, <2>14, <2>15, <2>16, <2>17, <2>18
       DEF Add, Read, Delete, Remove, AddTable
<1>2. ASSUME NEW u \in Users, NEW d \in Databases, AddUserToDatabase(u, d) PROVE MembersPresent'
  BY <1>2 DEF AddUserToDatabase
<1>3. ASSUME NEW a \in Admins, NEW d \in Databases, SetDatabaseCookie(a, d) PROVE MembersPresent'
  BY <1>3 DEF SetDatabaseCookie
<1>4. ASSUME NEW t \in Tables, DeleteTable(t) PROVE MembersPresent'
  BY <1>4 DEF DeleteTable
<1>5. ASSUME NEW a \in Admins, NEW u \in Users, NEW t \in Tables,
             NEW rights \in SUBSET Rights, InsertTablePermission(a, u, t, rights) PROVE MembersPresent'
  BY <1>5 DEF InsertTablePermission
<1>6. ASSUME NEW e \in Entries, NEW rights \in SUBSET Rights,
             ModifyTablePermission(e, rights) PROVE MembersPresent'
  BY <1>6 DEF ModifyTablePermission
<1>7. ASSUME NEW e \in Entries, DeleteTablePermission(e) PROVE MembersPresent'
  BY <1>7 DEF DeleteTablePermission
<1>8. CASE Crash
  BY <1>8 DEF Crash
<1>9. CASE UNCHANGED vars
  BY <1>9 DEF vars
<1> QED
  BY <1>1, <1>2, <1>3, <1>4, <1>5, <1>6, <1>7, <1>8, <1>9 DEF Next, Request

(* Schemas stay.                                                           *)
LEMMA SchemaStep == JobsOK /\ SchemaFirst /\ [Next]_vars => SchemaFirst'
<1> SUFFICES ASSUME JobsOK, SchemaFirst, [Next]_vars PROVE SchemaFirst'
  OBVIOUS
<1> USE DatabasesAssumption
    DEF PCs, AddPCs, DeletePCs, SchemaFirst, Grant, At, files, tables, history
<1>1. ASSUME NEW w \in Workers,
             Add(w) \/ Read(w) \/ Delete(w) \/ Remove(w) \/ AddTable(w) \/ Refuse(w)
      PROVE  SchemaFirst'
  <2>1. ASSUME NEW a \in Admins, NEW d \in Databases, InsertDatabase(w, a, d) PROVE SchemaFirst'
    BY <2>1, StartEffect DEF InsertDatabase
  <2>2. CASE InsertDatabaseUser(w)
    BY <2>2, GotoEffect, FinishEffect DEF InsertDatabaseUser
  <2>3. CASE CreateSchema(w)
    BY <2>3, GotoEffect DEF CreateSchema
  <2>4. CASE CheckDirectory(w)
    BY <2>4, GotoEffect, FinishEffect DEF CheckDirectory
  <2>5. CASE MakeDirectory(w)
    BY <2>5, GotoEffect, FinishEffect DEF MakeDirectory
  <2>6. CASE UndoDatabase(w)
    BY <2>6, FinishEffect DEF UndoDatabase
  <2>7. ASSUME NEW a \in Admins, NEW d \in Databases, StartRead(w, a, d) PROVE SchemaFirst'
    BY <2>7, StartEffect DEF StartRead
  <2>8. CASE EnsureDirectory(w)
    BY <2>8, FinishEffect DEF EnsureDirectory
  <2>9. ASSUME NEW a \in Admins, NEW d \in Databases, StartDelete(w, a, d) PROVE SchemaFirst'
    BY <2>9, StartEffect DEF StartDelete
  <2>10. CASE CountUserDatabases(w)
    BY <2>10, GotoEffect, FinishEffect DEF CountUserDatabases
  <2>11. CASE VerifyUserDatabaseOwnership(w)
    BY <2>11, GotoEffect, FinishEffect DEF VerifyUserDatabaseOwnership
  <2>12. CASE MarkDatabaseDeleted(w)
    BY <2>12, GotoEffect DEF MarkDatabaseDeleted
  <2>13. CASE DeleteDatabaseUsers(w)
    BY <2>13, FinishEffect DEF DeleteDatabaseUsers
  <2>14. ASSUME NEW u \in Users, NEW d \in Databases, RemoveUserFromDatabase(w, u, d) PROVE SchemaFirst'
    BY <2>14, StartEffect DEF RemoveUserFromDatabase
  <2>15. CASE CleanupUserTablePermissions(w)
    BY <2>15, FinishEffect DEF CleanupUserTablePermissions
  <2>16. ASSUME NEW a \in Admins, NEW t \in Tables, InsertTable(w, a, t) PROVE SchemaFirst'
    BY <2>16, StartEffect DEF InsertTable
  <2>17. CASE GrantCreatorFullPermissions(w)
    BY <2>17, FinishEffect DEF GrantCreatorFullPermissions
  <2>18. CASE Refuse(w)
    BY <2>18, FinishEffect DEF Refuse
  <2> QED
    BY <1>1, <2>1, <2>2, <2>3, <2>4, <2>5, <2>6, <2>7, <2>8, <2>9,
       <2>10, <2>11, <2>12, <2>13, <2>14, <2>15, <2>16, <2>17, <2>18
       DEF Add, Read, Delete, Remove, AddTable
<1>2. ASSUME NEW u \in Users, NEW d \in Databases, AddUserToDatabase(u, d) PROVE SchemaFirst'
  BY <1>2 DEF AddUserToDatabase
<1>3. ASSUME NEW a \in Admins, NEW d \in Databases, SetDatabaseCookie(a, d) PROVE SchemaFirst'
  BY <1>3 DEF SetDatabaseCookie
<1>4. ASSUME NEW t \in Tables, DeleteTable(t) PROVE SchemaFirst'
  BY <1>4 DEF DeleteTable
<1>5. ASSUME NEW a \in Admins, NEW u \in Users, NEW t \in Tables,
             NEW rights \in SUBSET Rights, InsertTablePermission(a, u, t, rights) PROVE SchemaFirst'
  BY <1>5 DEF InsertTablePermission
<1>6. ASSUME NEW e \in Entries, NEW rights \in SUBSET Rights,
             ModifyTablePermission(e, rights) PROVE SchemaFirst'
  BY <1>6 DEF ModifyTablePermission
<1>7. ASSUME NEW e \in Entries, DeleteTablePermission(e) PROVE SchemaFirst'
  BY <1>7 DEF DeleteTablePermission
<1>8. CASE Crash
  BY <1>8, CrashEffect DEF Crash
<1>9. CASE UNCHANGED vars
  BY <1>9 DEF vars
<1> QED
  BY <1>1, <1>2, <1>3, <1>4, <1>5, <1>6, <1>7, <1>8, <1>9 DEF Next, Request

(* A creator leaves a database only complete, undone, or by a failure.     *)
LEMMA CompleteStep == TypeOK /\ JobsOK /\ MembersPresent /\ SchemaFirst /\ CompleteOrAbandoned /\ [Next]_vars => CompleteOrAbandoned'
<1> SUFFICES ASSUME TypeOK, JobsOK, MembersPresent, SchemaFirst, CompleteOrAbandoned, [Next]_vars PROVE CompleteOrAbandoned'
  OBVIOUS
<1> USE DatabasesAssumption
    DEF PCs, AddPCs, DeletePCs, MembersPresent, SchemaFirst, CompleteOrAbandoned,
        Member, Present, HalfMade, AddMember, DeleteDatabase, Grant, At, files, tables, history
<1>1. ASSUME NEW w \in Workers,
             Add(w) \/ Read(w) \/ Delete(w) \/ Remove(w) \/ AddTable(w) \/ Refuse(w)
      PROVE  CompleteOrAbandoned'
  <2>1. ASSUME NEW a \in Admins, NEW d \in Databases, InsertDatabase(w, a, d) PROVE CompleteOrAbandoned'
    BY <2>1, StartEffect DEF InsertDatabase
  <2>2. CASE InsertDatabaseUser(w)
    BY <2>2, GotoEffect, FinishEffect DEF InsertDatabaseUser
  <2>3. CASE CreateSchema(w)
    BY <2>3, GotoEffect DEF CreateSchema
  <2>4. CASE CheckDirectory(w)
    BY <2>4, GotoEffect, FinishEffect DEF CheckDirectory
  <2>5. CASE MakeDirectory(w)
    BY <2>5, GotoEffect, FinishEffect DEF MakeDirectory
  <2>6. CASE UndoDatabase(w)
    <3>1. job[w].pc = "undo" /\ job[w].database \in Databases
      BY <2>6 DEF UndoDatabase, JobsOK
    <3>2. \A v \in Workers \ {w} : job'[v] = job[v]
      BY <2>6, <3>1, FinishEffect DEF UndoDatabase
    <3>3. state' = [state EXCEPT ![job[w].database] = "gone"]
      BY <2>6 DEF UndoDatabase
    <3>4. /\ state'[job[w].database] = "gone"
          /\ \A d \in Databases \ {job[w].database} : state'[d] = state[d]
      BY ONLY TypeOK, <3>1, <3>3 DEF TypeOK
    <3>5. UNCHANGED <<schemas, dirs, abandoned>>
      BY <2>6 DEF UndoDatabase
    <3> SUFFICES ASSUME NEW d \in Databases, Present(d)', d \notin (schemas \cap dirs)',
                        d \notin abandoned'
                 PROVE  \E v \in Workers : HalfMade(v)' /\ job'[v].database = d
      OBVIOUS
    <3>6. d # job[w].database /\ Present(d)
      BY <3>4
    <3>7. PICK v \in Workers : HalfMade(v) /\ job[v].database = d
      BY <3>5, <3>6
    <3>8. job'[v] = job[v]
      BY <3>2, <3>6, <3>7
    <3> QED
      BY <3>7, <3>8
  <2>7. ASSUME NEW a \in Admins, NEW d \in Databases, StartRead(w, a, d) PROVE CompleteOrAbandoned'
    BY <2>7, StartEffect DEF StartRead
  <2>8. CASE EnsureDirectory(w)
    BY <2>8, FinishEffect DEF EnsureDirectory
  <2>9. ASSUME NEW a \in Admins, NEW d \in Databases, StartDelete(w, a, d) PROVE CompleteOrAbandoned'
    BY <2>9, StartEffect DEF StartDelete
  <2>10. CASE CountUserDatabases(w)
    BY <2>10, GotoEffect, FinishEffect DEF CountUserDatabases
  <2>11. CASE VerifyUserDatabaseOwnership(w)
    BY <2>11, GotoEffect, FinishEffect DEF VerifyUserDatabaseOwnership
  <2>12. CASE MarkDatabaseDeleted(w)
    <3>1. /\ job[w].pc = "mark" /\ job[w].database \in Databases
          /\ job[w].user \in Users
      BY <2>12 DEF MarkDatabaseDeleted, JobsOK
    <3>2. \A v \in Workers \ {w} : job'[v] = job[v]
      BY <2>12, <3>1, GotoEffect DEF MarkDatabaseDeleted
    <3>3. \A d \in Databases : Present(d)' => Present(d)
      BY <2>12, <3>1 DEF MarkDatabaseDeleted, TypeOK
    <3>4. UNCHANGED <<schemas, dirs, abandoned>>
      BY <2>12 DEF MarkDatabaseDeleted
    <3> QED
      BY <3>1, <3>2, <3>3, <3>4
  <2>13. CASE DeleteDatabaseUsers(w)
    BY <2>13, FinishEffect DEF DeleteDatabaseUsers
  <2>14. ASSUME NEW u \in Users, NEW d \in Databases, RemoveUserFromDatabase(w, u, d) PROVE CompleteOrAbandoned'
    BY <2>14, StartEffect DEF RemoveUserFromDatabase
  <2>15. CASE CleanupUserTablePermissions(w)
    BY <2>15, FinishEffect DEF CleanupUserTablePermissions
  <2>16. ASSUME NEW a \in Admins, NEW t \in Tables, InsertTable(w, a, t) PROVE CompleteOrAbandoned'
    BY <2>16, StartEffect DEF InsertTable
  <2>17. CASE GrantCreatorFullPermissions(w)
    BY <2>17, FinishEffect DEF GrantCreatorFullPermissions
  <2>18. CASE Refuse(w)
    BY <2>18, FinishEffect DEF Refuse
  <2> QED
    BY <1>1, <2>1, <2>2, <2>3, <2>4, <2>5, <2>6, <2>7, <2>8, <2>9,
       <2>10, <2>11, <2>12, <2>13, <2>14, <2>15, <2>16, <2>17, <2>18
       DEF Add, Read, Delete, Remove, AddTable
<1>2. ASSUME NEW u \in Users, NEW d \in Databases, AddUserToDatabase(u, d) PROVE CompleteOrAbandoned'
  BY <1>2 DEF AddUserToDatabase
<1>3. ASSUME NEW a \in Admins, NEW d \in Databases, SetDatabaseCookie(a, d) PROVE CompleteOrAbandoned'
  BY <1>3 DEF SetDatabaseCookie
<1>4. ASSUME NEW t \in Tables, DeleteTable(t) PROVE CompleteOrAbandoned'
  BY <1>4 DEF DeleteTable
<1>5. ASSUME NEW a \in Admins, NEW u \in Users, NEW t \in Tables,
             NEW rights \in SUBSET Rights, InsertTablePermission(a, u, t, rights) PROVE CompleteOrAbandoned'
  BY <1>5 DEF InsertTablePermission
<1>6. ASSUME NEW e \in Entries, NEW rights \in SUBSET Rights,
             ModifyTablePermission(e, rights) PROVE CompleteOrAbandoned'
  BY <1>6 DEF ModifyTablePermission
<1>7. ASSUME NEW e \in Entries, DeleteTablePermission(e) PROVE CompleteOrAbandoned'
  BY <1>7 DEF DeleteTablePermission
<1>8. CASE Crash
  BY <1>8, CrashEffect DEF Crash
<1>9. CASE UNCHANGED vars
  BY <1>9 DEF vars
<1> QED
  BY <1>1, <1>2, <1>3, <1>4, <1>5, <1>6, <1>7, <1>8, <1>9 DEF Next, Request

-----------------------------------------------------------------------------
(* Whoever is admitted holds a row, and holders are known.                 *)
LEMMA HoldersKnown == EntriesKnown => RightsOfMembers
  BY DEF EntriesKnown, RightsOfMembers, Admits, Holds, CheckPermission,
         CheckReadViaLinkPermission

LEMMA IInvInit == Init => IInv
<1> SUFFICES ASSUME Init PROVE IInv
  OBVIOUS
<1>1. TypeOK
  BY TypeInit
<1>2. \A w \in Workers : job[w].pc = "idle"
  BY DEF Init, Idle, Job
<1>3. EntriesKnown
  BY DatabasesAssumption DEF Init, EntriesKnown, Holds, NoEntry, Entry
<1>4. MembersPresent /\ CompleteOrAbandoned
  BY DatabasesAssumption DEF Init, MembersPresent, CompleteOrAbandoned, Member, Present
<1>5. SchemaFirst
  BY <1>2 DEF SchemaFirst
<1> QED
  BY <1>1, <1>3, <1>4, <1>5, HoldersKnown DEF IInv

LEMMA IInvStep == IInv /\ [Next]_vars => IInv'
<1> SUFFICES ASSUME IInv, [Next]_vars PROVE IInv'
  OBVIOUS
<1>1. TypeOK /\ JobsOK
  BY DEF IInv, TypeOK
<1>2. TypeOK'
  BY <1>1, JobsStep, TypeStep
<1>3. EntriesKnown'
  BY <1>1, KnownStep DEF IInv
<1>4. MembersPresent'
  BY <1>1, MembersStep DEF IInv
<1>5. SchemaFirst'
  BY <1>1, SchemaStep DEF IInv
<1>6. CompleteOrAbandoned'
  BY <1>1, CompleteStep DEF IInv
<1>7. RightsOfMembers'
  BY <1>3, HoldersKnown, PTL
<1> QED
  BY <1>2, <1>3, <1>4, <1>5, <1>6, <1>7 DEF IInv

(* Every reachable state satisfies the inductive invariant.                *)
THEOREM Inductive == Spec => []IInv
  BY IInvInit, IInvStep, PTL DEF Spec

(* Whoever the checks of data.cpp admit to a table belongs to its database,*)
(* or is one of the strangers a failed or unordered handler left.          *)
THEOREM RightsSafe == Spec => []RightsOfMembers
<1>1. IInv => RightsOfMembers
  BY DEF IInv
<1> QED
  BY <1>1, Inductive, PTL

(* A listed database is complete, being made, or was abandoned.            *)
THEOREM CompleteSafe == Spec => []CompleteOrAbandoned
<1>1. IInv => CompleteOrAbandoned
  BY DEF IInv
<1> QED
  BY <1>1, Inductive, PTL

=============================================================================
