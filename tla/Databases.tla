----------------------------- MODULE Databases ------------------------------
(***************************************************************************)
(* The databases, their users and what these may do with tables: the       *)
(* handlers of controllers/databases/databases.cpp and users.cpp, those of *)
(* controllers/tables/permissions.cpp, the part of Tables::Add that grants *)
(* the creator, the checks of data.cpp before every request on records,    *)
(* and the database cookie (backend_handler.cpp).                          *)
(*                                                                         *)
(* `tables_permissions` says nothing of databases: whether those who may   *)
(* use a table are users of its database rests on the order in which the   *)
(* handlers write the two, one statement at a time.                        *)
(***************************************************************************)
EXTENDS Integers, FiniteSets

CONSTANTS
    Users,
    Admins,       \* those of them who manage databases, tables and permissions
    Founder,      \* the one the first databases belong to
    Databases,    \* identifiers of databases, each generated once
    Initial,      \* the databases there are to begin with
    Tables,       \* identifiers of tables, each generated once
    Home,         \* the database a table is created in
    Linked,       \* tables that a column links to
    Rights,       \* what a row of `tables_permissions` may allow
    Entries,      \* identifiers of rows of `tables_permissions`
    Workers,      \* threads of the HTTP server
    MaxRows,      \* bound: rows of `databases_users` a user has in a database
    None

ASSUME DatabasesAssumption ==
    /\ Admins \subseteq Users
    /\ Founder \in Admins
    /\ Initial \subseteq Databases
    /\ Home \in [Tables -> Databases]
    /\ Linked \subseteq Tables
    /\ MaxRows \in [Users -> Nat \ {0}]
    /\ None \notin Users \cup Databases \cup Tables

VARIABLES
    state,        \* rows of `databases`: never, active, deleted or gone
    members,      \* rows of `databases_users`, counted: no key is unique
    schemas,      \* MariaDB schemas
    dirs,         \* directories for uploaded files
    table,        \* rows of `tables`: never, listed or gone
    entry,        \* rows of `tables_permissions`
    cookies,      \* databases the cookie of a request may name, by user
    job,          \* what each worker is doing
    abandoned,    \* history: databases left half way through their creation
    stray         \* history: rights that handlers have left to strangers

vars == <<state, members, schemas, dirs, table, entry, cookies, job, abandoned,
          stray>>
files == <<schemas, dirs>>
tables == <<table, entry>>
history == <<abandoned, stray>>

Entry(u, t, rights) == [user |-> u, table |-> t, rights |-> rights]
EntryRows == [user : Users, table : Tables, rights : SUBSET Rights]
NoEntry == Entry(None, None, {})

AddPCs == {"owner", "schema", "exists", "mkdir", "undo"}
DeletePCs == {"count", "verify", "mark", "unlink"}
PCs == {"idle", "list", "cleanup", "grant"} \cup AddPCs \cup DeletePCs

Job(pc, u, d, t) == [pc |-> pc, user |-> u, database |-> d, table |-> t]
Jobs == [pc : PCs, user : Users \cup {None},
         database : Databases \cup {None}, table : Tables \cup {None}]
Idle == Job("idle", None, None, None)

JobsOK ==
    /\ job \in [Workers -> Jobs]
    /\ \A w \in Workers : job[w].pc # "idle" =>
        job[w].user \in Users /\ job[w].database \in Databases
    /\ \A w \in Workers : job[w].pc = "grant" => job[w].table \in Tables

TypeOK ==
    /\ state \in [Databases -> {"never", "active", "deleted", "gone"}]
    /\ members \in [Databases -> [Users -> Nat]]
    /\ \A d \in Databases, u \in Users : members[d][u] <= MaxRows[u]
    /\ schemas \subseteq Databases
    /\ dirs \subseteq Databases
    /\ table \in [Tables -> {"never", "listed", "gone"}]
    /\ entry \in [Entries -> {NoEntry} \cup EntryRows]
    /\ cookies \in [Admins -> SUBSET Databases]
    /\ JobsOK
    /\ abandoned \subseteq Databases
    /\ stray \subseteq Users \X Tables

(* As SchemaInitializer leaves the first database; the server restarts with*)
(* whatever there is.                                                      *)
Init ==
    /\ state = [d \in Databases |-> IF d \in Initial THEN "active" ELSE "never"]
    /\ members = [d \in Databases |-> [u \in Users |->
                      IF d \in Initial /\ u = Founder THEN 1 ELSE 0]]
    /\ schemas = Initial
    /\ dirs = Initial
    /\ table = [t \in Tables |-> "never"]
    /\ entry = [e \in Entries |-> NoEntry]
    /\ cookies = [a \in Admins |-> {}]
    /\ job = [w \in Workers |-> Idle]
    /\ abandoned = {}
    /\ stray = {}

At(w, pc) == job[w].pc = pc
Goto(w, pc) == job' = [job EXCEPT ![w].pc = pc]
Finish(w) == job' = [job EXCEPT ![w] = Idle]
Start(w, pc, u, d, t) ==
    /\ At(w, "idle")
    /\ job' = [job EXCEPT ![w] = Job(pc, u, d, t)]

Present(d) == state[d] \in {"active", "deleted"}
Member(u, d) == members[d][u] > 0

(* A row of `databases_users` refers to a row of `databases`.              *)
AddMember(u, d) ==
    /\ Present(d)
    /\ members[d][u] < MaxRows[u]
    /\ members' = [members EXCEPT ![d][u] = @ + 1]

(* A user has a row for a table, whatever it allows; the rights of users in*)
(* a database are those pairs.                                             *)
Holds(u, t) == \E e \in Entries : entry[e].user = u /\ entry[e].table = t
Granted(d) == {p \in Users \X Tables : Home[p[2]] = d /\ Holds(p[1], p[2])}

(* Deleting a row of `tables` deletes its permissions, and deleting one of *)
(* `databases` its tables and its users: the foreign keys.                 *)
DeleteTables(T) ==
    /\ table' = [t \in Tables |-> IF t \in T /\ table[t] = "listed"
                                  THEN "gone" ELSE table[t]]
    /\ entry' = [e \in Entries |-> IF entry[e].table \in T THEN NoEntry ELSE entry[e]]
DeleteDatabase(d) ==
    /\ state' = [state EXCEPT ![d] = "gone"]
    /\ members' = [members EXCEPT ![d] = [u \in Users |-> 0]]
    /\ DeleteTables({t \in Tables : Home[t] = d})

-----------------------------------------------------------------------------
(* Faulty variants of the steps below, none of them part of Spec: what the *)
(* properties are there to catch.                                          *)
CreateSchemaWithoutUndo(w) ==
    /\ At(w, "schema")
    /\ \/ schemas' = schemas \cup {job[w].database} /\ Goto(w, "exists")
       \/ UNCHANGED schemas /\ Finish(w)
    /\ UNCHANGED <<state, members, dirs, tables, cookies, history>>

RemoveOneRow(w, u, d) ==
    /\ members' = [members EXCEPT ![d][u] = @ - 1]
    /\ Start(w, "cleanup", u, d, None)
    /\ UNCHANGED <<state, files, tables, cookies, history>>

-----------------------------------------------------------------------------
(* Databases::Add.  The identifier is a random one; VerifyIdentifierUnique-*)
(* ness finds it unused.  A statement may take effect and be reported      *)
(* failed, when the query of Action::GetLastInsertID_ that follows it      *)
(* fails: what InsertDatabase, RemoveUserFromDatabase, MarkDatabaseDeleted *)
(* and InsertTable leave then is what they leave when the next statement   *)
(* is not run (Refuse); the two below have a branch for it.                *)
InsertDatabase(w, a, d) ==
    /\ state[d] = "never"
    /\ state' = [state EXCEPT ![d] = "active"]
    /\ Start(w, "owner", a, d, None)
    /\ UNCHANGED <<members, files, tables, cookies, history>>

InsertDatabaseUser(w) ==
    /\ At(w, "owner")
    /\ AddMember(job[w].user, job[w].database)
    /\ \/ Goto(w, "schema") /\ UNCHANGED abandoned
       \/ Finish(w) /\ abandoned' = abandoned \cup {job[w].database}
    /\ UNCHANGED <<state, files, tables, cookies, stray>>

CreateSchema(w) ==
    /\ At(w, "schema")
    /\ \/ schemas' = schemas \cup {job[w].database} /\ (Goto(w, "exists") \/ Goto(w, "undo"))
       \/ UNCHANGED schemas /\ Goto(w, "undo")
    /\ UNCHANGED <<state, members, dirs, tables, cookies, history>>

CheckDirectory(w) ==
    /\ At(w, "exists")
    /\ \/ job[w].database \in dirs /\ Finish(w)
       \/ job[w].database \notin dirs /\ Goto(w, "mkdir")
       \/ Goto(w, "undo")
    /\ UNCHANGED <<state, members, files, tables, cookies, history>>

(* createDirectory() answers false when the directory is there by now.     *)
MakeDirectory(w) ==
    /\ At(w, "mkdir")
    /\ \/ /\ job[w].database \notin dirs
          /\ dirs' = dirs \cup {job[w].database}
          /\ Finish(w)
       \/ Goto(w, "undo") /\ UNCHANGED dirs
    /\ UNCHANGED <<state, members, schemas, tables, cookies, history>>

(* delete_database: the metadata only, whatever comes of it.               *)
UndoDatabase(w) ==
    /\ At(w, "undo")
    /\ DeleteDatabase(job[w].database)
    /\ Finish(w)
    /\ UNCHANGED <<files, cookies, history>>

-----------------------------------------------------------------------------
(* Databases::Read lists the databases of a user, deleted ones too, and    *)
(* makes the directory of each that has none.                              *)
StartRead(w, a, d) ==
    /\ Member(a, d)
    /\ d \notin dirs
    /\ Start(w, "list", a, d, None)
    /\ UNCHANGED <<state, members, files, tables, cookies, history>>

EnsureDirectory(w) ==
    /\ At(w, "list")
    /\ dirs' = dirs \cup {job[w].database}
    /\ Finish(w)
    /\ UNCHANGED <<state, members, schemas, tables, cookies, history>>

(* Databases::Change, and the first request without a cookie: the cookie   *)
(* names one of the user's databases now, and nothing takes it back.       *)
SetDatabaseCookie(a, d) ==
    /\ Member(a, d)
    /\ cookies' = [cookies EXCEPT ![a] = @ \cup {d}]
    /\ UNCHANGED <<state, members, files, tables, job, history>>

-----------------------------------------------------------------------------
(* Databases::Delete, asked for from a page that lists the database.       *)
StartDelete(w, a, d) ==
    /\ Member(a, d)
    /\ Start(w, "count", a, d, None)
    /\ UNCHANGED <<state, members, files, tables, cookies, history>>

CountUserDatabases(w) ==
    /\ At(w, "count")
    /\ IF Cardinality({p \in Databases \X (1..MaxRows[job[w].user]) :
                          p[2] <= members[p[1]][job[w].user]}) > 1
       THEN Goto(w, "verify") ELSE Finish(w)
    /\ UNCHANGED <<state, members, files, tables, cookies, history>>

(* The query does not name the database.                                   *)
VerifyUserDatabaseOwnership(w) ==
    /\ At(w, "verify")
    /\ IF \E d \in Databases : Member(job[w].user, d)
       THEN Goto(w, "mark") ELSE Finish(w)
    /\ UNCHANGED <<state, members, files, tables, cookies, history>>

(* Without a row of the user the UPDATE changes nothing, and succeeds.     *)
MarkDatabaseDeleted(w) ==
    /\ At(w, "mark")
    /\ state' = IF Member(job[w].user, job[w].database)
                THEN [state EXCEPT ![job[w].database] = "deleted"] ELSE state
    /\ Goto(w, "unlink")
    /\ UNCHANGED <<members, files, tables, cookies, history>>

(* The rights in the tables of the database stay.                          *)
DeleteDatabaseUsers(w) ==
    /\ At(w, "unlink")
    /\ members' = [members EXCEPT ![job[w].database] = [u \in Users |-> 0]]
    /\ stray' = stray \cup Granted(job[w].database)
    /\ Finish(w)
    /\ UNCHANGED <<state, files, tables, cookies, abandoned>>

-----------------------------------------------------------------------------
(* Users::Add: nothing forbids a second row.                               *)
AddUserToDatabase(u, d) ==
    /\ AddMember(u, d)
    /\ UNCHANGED <<state, files, tables, cookies, job, history>>

(* Users::Delete.                                                          *)
RemoveUserFromDatabase(w, u, d) ==
    /\ members' = [members EXCEPT ![d][u] = 0]
    /\ Start(w, "cleanup", u, d, None)
    /\ UNCHANGED <<state, files, tables, cookies, history>>

CleanupUserTablePermissions(w) ==
    /\ At(w, "cleanup")
    /\ entry' = [e \in Entries |->
            IF /\ entry[e].user = job[w].user
               /\ \E t \in Tables : entry[e].table = t /\ Home[t] = job[w].database
            THEN NoEntry ELSE entry[e]]
    /\ Finish(w)
    /\ UNCHANGED <<state, members, files, table, cookies, history>>

-----------------------------------------------------------------------------
(* Tables::Add and Tables::Delete, as far as they write `tables_permissions`*)
(* (the rest is Catalog's): the database is the one the cookie names, and  *)
(* nobody asks whether the user still belongs to it.                       *)
InsertTable(w, a, t) ==
    /\ table[t] = "never"
    /\ Home[t] \in cookies[a]
    /\ Present(Home[t])
    /\ table' = [table EXCEPT ![t] = "listed"]
    /\ Start(w, "grant", a, Home[t], t)
    /\ UNCHANGED <<state, members, files, entry, cookies, history>>

(* A row of `tables_permissions` must refer to a table there is.           *)
Grant(u, t, rights, astray) ==
    /\ table[t] = "listed"
    /\ \E e \in Entries :
        /\ entry[e] = NoEntry
        /\ entry' = [entry EXCEPT ![e] = Entry(u, t, rights)]
    /\ stray' = IF astray THEN stray \cup {<<u, t>>} ELSE stray
    /\ UNCHANGED <<state, members, files, table, cookies, abandoned>>

GrantCreatorFullPermissions(w) ==
    LET u == job[w].user
        t == job[w].table
    IN
    /\ At(w, "grant")
    /\ Grant(u, t, Rights, ~Member(u, Home[t]))
    /\ Finish(w)

DeleteTable(t) ==
    /\ table[t] = "listed"
    /\ DeleteTables({t})
    /\ UNCHANGED <<state, members, files, cookies, job, history>>

-----------------------------------------------------------------------------
PermitAnybody(a, u, t, rights) ==      \* a faulty variant of the next one
    /\ \E d \in cookies[a] : Grant(u, t, rights, d # Home[t])
    /\ UNCHANGED job

(* Permissions::Add: the user must be one of the database of the cookie,    *)
(* whatever the table.  The subselect must return one row: without any it  *)
(* is NULL, and two are an error.                                          *)
InsertTablePermission(a, u, t, rights) ==
    /\ \E d \in cookies[a] :
        members[d][u] = 1 /\ Grant(u, t, rights, d # Home[t])
    /\ UNCHANGED job

ModifyTablePermission(e, rights) ==
    /\ entry[e] # NoEntry
    /\ entry' = [entry EXCEPT ![e].rights = rights]
    /\ UNCHANGED <<state, members, files, table, cookies, job, history>>

DeleteTablePermission(e) ==
    /\ entry[e] # NoEntry
    /\ entry' = [entry EXCEPT ![e] = NoEntry]
    /\ UNCHANGED <<state, members, files, table, cookies, job, history>>

-----------------------------------------------------------------------------
(* A statement fails, or a parameter does not meet its condition, or the   *)
(* statement before it took effect and was reported failed.  Only CREATE   *)
(* DATABASE and what follows it are undone, by steps above.                *)
HalfMade(w) == job[w].pc \in AddPCs
Unclean(w) == IF At(w, "cleanup")
              THEN {p \in Granted(job[w].database) : p[1] = job[w].user} ELSE {}

Refuse(w) ==
    /\ job[w].pc \notin {"idle", "schema", "exists", "mkdir"}
    /\ Finish(w)
    /\ abandoned' = IF HalfMade(w) THEN abandoned \cup {job[w].database} ELSE abandoned
    /\ stray' = stray \cup Unclean(w)
    /\ UNCHANGED <<state, members, files, tables, cookies>>

(* The process dies, and every request with it.                            *)
Crash ==
    /\ job' = [w \in Workers |-> Idle]
    /\ abandoned' = abandoned \cup
            {d \in Databases : \E w \in Workers : HalfMade(w) /\ job[w].database = d}
    /\ stray' = stray \cup UNION {Unclean(w) : w \in Workers}
    /\ UNCHANGED <<state, members, files, tables, cookies>>

Add(w) ==
    \/ \E a \in Admins, d \in Databases : InsertDatabase(w, a, d)
    \/ InsertDatabaseUser(w) \/ CreateSchema(w) \/ CheckDirectory(w)
    \/ MakeDirectory(w) \/ UndoDatabase(w)

Read(w) ==
    \/ \E a \in Admins, d \in Databases : StartRead(w, a, d)
    \/ EnsureDirectory(w)

Delete(w) ==
    \/ \E a \in Admins, d \in Databases : StartDelete(w, a, d)
    \/ CountUserDatabases(w) \/ VerifyUserDatabaseOwnership(w)
    \/ MarkDatabaseDeleted(w) \/ DeleteDatabaseUsers(w)

Remove(w) ==
    \/ \E u \in Users, d \in Databases : RemoveUserFromDatabase(w, u, d)
    \/ CleanupUserTablePermissions(w)

AddTable(w) ==
    \/ \E a \in Admins, t \in Tables : InsertTable(w, a, t)
    \/ GrantCreatorFullPermissions(w)

(* Requests of one statement.                                              *)
Request ==
    \/ \E u \in Users, d \in Databases : AddUserToDatabase(u, d)
    \/ \E a \in Admins, d \in Databases : SetDatabaseCookie(a, d)
    \/ \E t \in Tables : DeleteTable(t)
    \/ \E a \in Admins, u \in Users, t \in Tables, rights \in SUBSET Rights :
        InsertTablePermission(a, u, t, rights)
    \/ \E e \in Entries, rights \in SUBSET Rights : ModifyTablePermission(e, rights)
    \/ \E e \in Entries : DeleteTablePermission(e)

Next ==
    \/ \E w \in Workers :
        Add(w) \/ Read(w) \/ Delete(w) \/ Remove(w) \/ AddTable(w) \/ Refuse(w)
    \/ Request
    \/ Crash

Spec == Init /\ [][Next]_vars

-----------------------------------------------------------------------------
(* What data.cpp asks before a request on the records of a table.          *)
CheckPermission(u, t, right) ==
    \E e \in Entries : entry[e].user = u /\ entry[e].table = t /\ right \in entry[e].rights
CheckReadViaLinkPermission(u, t) == t \in Linked /\ Holds(u, t)
Admits(u, t) ==
    table[t] = "listed" /\ (CheckReadViaLinkPermission(u, t)
                             \/ \E right \in Rights : CheckPermission(u, t, right))

Known(u, t) ==
    \/ Member(u, Home[t])
    \/ <<u, t>> \in stray
    \/ \E w \in Workers :
        At(w, "cleanup") /\ job[w].user = u /\ job[w].database = Home[t]

(* Only users of its database are admitted to a table, although the checks *)
(* do not look at `databases_users`: a user who is removed loses his rights*)
(* before the answer, whatever is granted meanwhile, unless a failure kept *)
(* them, the database was deleted as a whole, or they were granted under   *)
(* the cookie of another database or to a creator who had been removed.    *)
RightsOfMembers ==
    \A u \in Users, t \in Tables : Admits(u, t) => Known(u, t)

(* A database that is listed has its schema and its directory, unless its  *)
(* creation is under way or was left half way by a failure that the handler*)
(* does not undo.  Readers that make the missing directory at the same time*)
(* make the creator undo, and never leave half a database.                 *)
CompleteOrAbandoned ==
    \A d \in Databases : Present(d) =>
        \/ d \in schemas \cap dirs
        \/ d \in abandoned
        \/ \E w \in Workers : HalfMade(w) /\ job[w].database = d

-----------------------------------------------------------------------------
(* The inductive invariant of the proofs (DatabasesProof).                 *)

(* A right belongs to a table there is, and to a known user, even when it  *)
(* allows nothing: Permissions::Modify may change that.                    *)
EntriesKnown ==
    \A u \in Users, t \in Tables :
        Holds(u, t) => table[t] = "listed" /\ Known(u, t)

(* Users belong to databases that are listed.                              *)
MembersPresent == \A d \in Databases, u \in Users : Member(u, d) => Present(d)

(* The directory is made after the schema.                                 *)
SchemaFirst ==
    \A w \in Workers : job[w].pc \in {"exists", "mkdir"} => job[w].database \in schemas

IInv ==
    /\ TypeOK
    /\ RightsOfMembers
    /\ CompleteOrAbandoned
    /\ EntriesKnown
    /\ MembersPresent
    /\ SchemaFirst

=============================================================================
