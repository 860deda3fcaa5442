------------------------------- MODULE Access -------------------------------
(***************************************************************************)
(* Who may do what: the tables `users`, `groups` and `permissions` as the  *)
(* handlers of /api/general change them, and the list                      *)
(* PermissionsManager keeps of them in memory, which every request is      *)
(* checked against (BackendHandler::Process_).                             *)
(*                                                                         *)
(* One step of a worker is one SQL statement, which commits on its own, or *)
(* one stage of LoadPermissions_.  Action::Work_ asks for the last         *)
(* identifier after every statement; when that fails the handler is told   *)
(* that the statement failed, although it took effect.  The list is rebuilt under a mutex and   *)
(* read without it: a check that races with the rebuilding may miss an     *)
(* entry, and the process dying of that race is one of the causes of       *)
(* Crash.  Users of type admin and system pass every check and endpoints   *)
(* that are open to all need none: neither is part of the state.           *)
(***************************************************************************)
EXTENDS FiniteSets, Integers

CONSTANTS
    Users,         \* users.identifier, of type default
    Groups,        \* groups.identifier
    Endpoints,     \* rows of `endpoints`
    Workers,       \* threads of the HTTP server
    None           \* no user, no group, no endpoint, no worker

ASSUME NoneAssumption == None \notin Users \cup Groups \cup Endpoints \cup Workers

VARIABLES
    users,       \* rows of `users`
    groupOf,     \* users.id_group
    groups,      \* rows of `groups`
    granted,     \* rows of `permissions`: id_group and endpoint
    cache,       \* PermissionsManager::permissions_: id_user and endpoint
    holder,      \* the worker that holds PermissionsManager::mutex_
    rows,        \* query results LoadPermissions_ has still to add
    job,         \* what each worker is doing
    touched,     \* history: pairs a worker was last to change, not yet loaded
    silent,      \* history: pairs last changed by a handler that does not reload
    blind        \* history: the last load failed

vars == <<users, groupOf, groups, granted, cache, holder, rows, job, touched,
          silent, blind>>
tables == <<users, groupOf, groups, granted>>
list == <<cache, holder, rows>>
history == <<touched, silent, blind>>

Pairs == Users \X Endpoints

(* The join of LoadPermissions_: what the tables say a user may call.      *)
Granted == {p \in Pairs : <<groupOf[p[1]], p[2]>> \in granted}

PCs == {"idle", "insertGroup", "grantAll", "deleteGroup", "insertPermission",
        "removePermission", "insertUser", "updateUser", "deleteUser",
        "lock", "clear", "query", "fill", "check", "serve"}
Loading == {"clear", "query", "fill"}

(* Pairs whose last change no load has seen: a handler has still to reload *)
(* the list, or its handler never will: it is one of groups, or it was told *)
(* that its statement had failed although it took effect.                  *)
Reloading == {w \in Workers : job[w].pc \in {"lock", "clear", "query"}}
Unloaded == silent \cup UNION {touched[w] : w \in Reloading}

Job(pc, u, g, e) == [pc |-> pc, user |-> u, group |-> g, endpoint |-> e]
Idle == Job("idle", None, None, None)

TypeOK ==
    /\ users \subseteq Users
    /\ groupOf \in [Users -> groups \cup {None}]
    /\ groups \subseteq Groups
    /\ granted \subseteq groups \X Endpoints
    /\ cache \subseteq Pairs
    /\ holder \in Workers \cup {None}
    /\ rows \subseteq Pairs
    /\ job \in [Workers -> [pc : PCs, user : Users \cup {None},
                            group : Groups \cup {None},
                            endpoint : Endpoints \cup {None}]]
    /\ touched \in [Workers -> SUBSET Pairs]
    /\ silent \subseteq Pairs
    /\ blind \in BOOLEAN

(* A new installation: the administrator, and nobody else.                 *)
Init ==
    /\ users = {}
    /\ groupOf = [u \in Users |-> None]
    /\ groups = {}
    /\ granted = {}
    /\ cache = {}
    /\ holder = None
    /\ rows = {}
    /\ job = [w \in Workers |-> Idle]
    /\ touched = [w \in Workers |-> {}]
    /\ silent = {}
    /\ blind = FALSE

At(w, pc) == job[w].pc = pc
Begin(w, next) == job[w].pc = "idle" /\ job' = [job EXCEPT ![w] = next]
Goto(w, pc) == job' = [job EXCEPT ![w].pc = pc]
ToReload(w) == job' = [job EXCEPT ![w] = Job("lock", None, None, None)]
Finish(w) == job' = [job EXCEPT ![w] = Idle]

(* What a statement changed, for the handlers that reload and for those    *)
(* that do not.                                                            *)
Changed == (Granted \ Granted') \cup (Granted' \ Granted)
ChangedBy(w) ==
    /\ touched' = [v \in Workers |-> IF v = w THEN touched[v] \cup Changed
                                     ELSE touched[v] \ Changed]
    /\ silent' = silent \ Changed
    /\ UNCHANGED blind
ChangedSilently ==
    /\ touched' = [v \in Workers |-> touched[v] \ Changed]
    /\ silent' = silent \cup Changed
    /\ UNCHANGED blind

(* A statement took effect: the handler goes on to reload the list, or is  *)
(* told that it failed, or sees no identifier of the new row, and answers  *)
(* an error.                                                               *)
Reported(w) ==
    \/ ChangedBy(w) /\ ToReload(w)
    \/ ChangedSilently /\ Finish(w)

-----------------------------------------------------------------------------
(* Faulty variants of the steps below, none of them part of Spec: what the *)
(* properties are there to catch.                                          *)
DeleteGroupAlone(w) ==
    /\ At(w, "deleteGroup")
    /\ groups' = groups \ {job[w].group}
    /\ granted' = {r \in granted : r[1] # job[w].group}
    /\ Finish(w)
    /\ UNCHANGED <<users, groupOf, list, history>>

InsertUserWithoutReload(w) ==
    /\ At(w, "insertUser")
    /\ job[w].group \in groups
    /\ users' = users \cup {job[w].user}
    /\ groupOf' = [groupOf EXCEPT ![job[w].user] = job[w].group]
    /\ UNCHANGED <<groups, granted, list>>
    /\ ChangedBy(w)
    /\ Finish(w)

LockAnyway(w) ==
    /\ At(w, "lock")
    /\ holder' = w
    /\ Goto(w, "clear")
    /\ UNCHANGED <<tables, cache, rows, history>>

FoundForAnyone(w) == \E u \in Users : <<u, job[w].endpoint>> \in cache

-----------------------------------------------------------------------------
(* POST /api/general/groups/add.  The name must be free; the new group is  *)
(* given every endpoint.                                                   *)
VerifyGroupNameNotTaken(w, g) ==
    /\ g \notin groups
    /\ Begin(w, Job("insertGroup", None, g, None))
    /\ UNCHANGED <<tables, list, history>>

(* Refused by the unique key on the name when another request was faster;  *)
(* reported failed, the group stays with no permissions.                   *)
InsertGroup(w) ==
    /\ At(w, "insertGroup")
    /\ \/ /\ job[w].group \notin groups
          /\ groups' = groups \cup {job[w].group}
          /\ Goto(w, "grantAll") \/ Finish(w)
       \/ Finish(w) /\ UNCHANGED groups
    /\ UNCHANGED <<users, groupOf, granted, list, history>>

(* Refused by the foreign key when the group is gone.  When it fails the   *)
(* group stays, with no permissions.  The list is not reloaded.            *)
GrantAll(w) ==
    /\ At(w, "grantAll")
    /\ \/ /\ job[w].group \in groups
          /\ granted' = granted \cup ({job[w].group} \X Endpoints)
          /\ UNCHANGED <<users, groupOf, groups>>
          /\ ChangedSilently
       \/ UNCHANGED <<tables, history>>
    /\ Finish(w)
    /\ UNCHANGED list

(* DELETE /api/general/groups/delete: one group at least must remain.      *)
CountGroups(w, g) ==
    /\ Cardinality(groups) > 1
    /\ Begin(w, Job("deleteGroup", None, g, None))
    /\ UNCHANGED <<tables, list, history>>

(* The foreign keys delete the group's permissions and leave its users     *)
(* without a group.  The list is not reloaded.                             *)
DeleteGroup(w) ==
    LET g == job[w].group IN
    /\ At(w, "deleteGroup")
    /\ \/ /\ groups' = groups \ {g}
          /\ granted' = {r \in granted : r[1] # g}
          /\ groupOf' = [u \in Users |-> IF groupOf[u] = g THEN None
                                         ELSE groupOf[u]]
          /\ UNCHANGED users
          /\ ChangedSilently
       \/ UNCHANGED <<tables, history>>
    /\ Finish(w)
    /\ UNCHANGED list

-----------------------------------------------------------------------------
(* POST /api/general/permissions/add.                                      *)
VerifyPermissionNotDuplicate(w, g, e) ==
    /\ <<g, e>> \notin granted
    /\ Begin(w, Job("insertPermission", None, g, e))
    /\ UNCHANGED <<tables, list, history>>

(* Nothing stops a duplicate row; a missing group does (foreign key).      *)
InsertPermission(w) ==
    /\ At(w, "insertPermission")
    /\ \/ /\ job[w].group \in groups
          /\ granted' = granted \cup {<<job[w].group, job[w].endpoint>>}
          /\ UNCHANGED <<users, groupOf, groups>>
          /\ Reported(w)
       \/ Finish(w) /\ UNCHANGED <<tables, history>>
    /\ UNCHANGED list

(* DELETE /api/general/permissions/delete.                                 *)
VerifyPermissionExists(w, g, e) ==
    /\ <<g, e>> \in granted
    /\ Begin(w, Job("removePermission", None, g, e))
    /\ UNCHANGED <<tables, list, history>>

RemovePermission(w) ==
    /\ At(w, "removePermission")
    /\ \/ /\ granted' = granted \ {<<job[w].group, job[w].endpoint>>}
          /\ UNCHANGED <<users, groupOf, groups>>
          /\ Reported(w)
       \/ Finish(w) /\ UNCHANGED <<tables, history>>
    /\ UNCHANGED list

-----------------------------------------------------------------------------
(* POST /api/general/users/add.                                            *)
VerifyUsernameUniqueness(w, u, g) ==
    /\ u \notin users
    /\ Begin(w, Job("insertUser", u, g, None))
    /\ UNCHANGED <<tables, list, history>>

(* Refused by the unique key on the name and the foreign key on id_group.  *)
InsertUser(w) ==
    LET u == job[w].user IN
    /\ At(w, "insertUser")
    /\ \/ /\ u \notin users
          /\ job[w].group \in groups
          /\ users' = users \cup {u}
          /\ groupOf' = [groupOf EXCEPT ![u] = job[w].group]
          /\ UNCHANGED <<groups, granted>>
          /\ Reported(w)
       \/ Finish(w) /\ UNCHANGED <<tables, history>>
    /\ UNCHANGED list

(* PUT /api/general/users/modify, of the user's group: the update of a     *)
(* user that is gone matches no row and still succeeds.                    *)
VerifyUserUsernameNotTaken(w, u, g) ==
    /\ u \in users
    /\ Begin(w, Job("updateUser", u, g, None))
    /\ UNCHANGED <<tables, list, history>>

UpdateUser(w) ==
    LET u == job[w].user IN
    /\ At(w, "updateUser")
    /\ \/ /\ u \in users => job[w].group \in groups
          /\ groupOf' = IF u \in users
                        THEN [groupOf EXCEPT ![u] = job[w].group]
                        ELSE groupOf
          /\ UNCHANGED <<users, groups, granted>>
          /\ Reported(w)
       \/ Finish(w) /\ UNCHANGED <<tables, history>>
    /\ UNCHANGED list

(* DELETE /api/general/users/delete: one user of type default at least     *)
(* must remain, and nobody deletes himself.                                *)
CountUsers(w, caller, u) ==
    /\ Cardinality(users) > 1
    /\ caller # u
    /\ Begin(w, Job("deleteUser", u, None, None))
    /\ UNCHANGED <<tables, list, history>>

DeleteUser(w) ==
    LET u == job[w].user IN
    /\ At(w, "deleteUser")
    /\ \/ /\ users' = users \ {u}
          /\ groupOf' = [groupOf EXCEPT ![u] = None]
          /\ UNCHANGED <<groups, granted>>
          /\ Reported(w)
       \/ Finish(w) /\ UNCHANGED <<tables, history>>
    /\ UNCHANGED list

(* The handlers that reload the list and change nothing it is made of: a   *)
(* user's own name or password, the temporary user of a form.              *)
ChangeOwnName(w) ==
    /\ Begin(w, Job("lock", None, None, None))
    /\ UNCHANGED <<tables, list, history>>

-----------------------------------------------------------------------------
(* LoadPermissions_.                                                       *)
Lock(w) ==
    /\ At(w, "lock")
    /\ holder = None
    /\ holder' = w
    /\ Goto(w, "clear")
    /\ UNCHANGED <<tables, cache, rows, history>>

ClearPermissions(w) ==
    /\ At(w, "clear")
    /\ cache' = {}
    /\ Goto(w, "query")
    /\ UNCHANGED <<tables, holder, rows, history>>

(* When the query fails the list stays empty and the caller, which is told *)
(* nothing, answers "OK." all the same.                                    *)
QueryPermissions(w) ==
    /\ At(w, "query")
    /\ touched' = [touched EXCEPT ![w] = {}]
    /\ \/ /\ rows' = Granted
          /\ silent' = {}
          /\ blind' = FALSE
          /\ Goto(w, "fill")
          /\ UNCHANGED holder
       \/ /\ blind' = TRUE
          /\ holder' = None
          /\ Finish(w)
          /\ UNCHANGED <<rows, silent>>
    /\ UNCHANGED <<tables, cache>>

PushPermission(w) ==
    /\ At(w, "fill")
    /\ \E p \in rows :
        /\ cache' = cache \cup {p}
        /\ rows' = rows \ {p}
    /\ UNCHANGED <<tables, holder, job, history>>

Unlock(w) ==
    /\ At(w, "fill")
    /\ rows = {}
    /\ holder' = None
    /\ Finish(w)
    /\ UNCHANGED <<tables, cache, rows, history>>

-----------------------------------------------------------------------------
(* A request of u for e: VerifySession_ reads the user's row, the list is  *)
(* searched later.  A user that is not active is refused after that.       *)
VerifySession(w, u, e) ==
    /\ u \in users
    /\ Begin(w, Job("check", u, None, e))
    /\ UNCHANGED <<tables, list, history>>

(* FindPermission_, which does not take the mutex.                         *)
Found(w) == <<job[w].user, job[w].endpoint>> \in cache

VerifyPermissions(w) ==
    /\ At(w, "check")
    /\ \/ Found(w) /\ Goto(w, "serve")
       \/ (~Found(w) \/ holder # None) /\ Finish(w)
    /\ UNCHANGED <<tables, list, history>>

(* ProcessActions_, or the refusal of VerifyActiveUser_.                   *)
ServeRequest(w) ==
    /\ At(w, "serve")
    /\ Finish(w)
    /\ UNCHANGED <<tables, list, history>>

-----------------------------------------------------------------------------
(* The process dies and starts again; the list is loaded before the server *)
(* listens.                                                                *)
CrashAndRestart ==
    /\ job' = [w \in Workers |-> Idle]
    /\ holder' = None
    /\ rows' = {}
    /\ touched' = [w \in Workers |-> {}]
    /\ \/ cache' = Granted /\ silent' = {} /\ blind' = FALSE
       \/ cache' = {} /\ blind' = TRUE /\ UNCHANGED silent
    /\ UNCHANGED tables

Manage(w) ==
    \/ \E g \in Groups : VerifyGroupNameNotTaken(w, g)
    \/ InsertGroup(w)
    \/ GrantAll(w)
    \/ \E g \in Groups : CountGroups(w, g)
    \/ DeleteGroup(w)
    \/ \E g \in Groups, e \in Endpoints : VerifyPermissionNotDuplicate(w, g, e)
    \/ InsertPermission(w)
    \/ \E g \in Groups, e \in Endpoints : VerifyPermissionExists(w, g, e)
    \/ RemovePermission(w)
    \/ \E u \in Users, g \in Groups : VerifyUsernameUniqueness(w, u, g)
    \/ InsertUser(w)
    \/ \E u \in Users, g \in Groups : VerifyUserUsernameNotTaken(w, u, g)
    \/ UpdateUser(w)
    \/ \E c \in Users \cup {None}, u \in Users : CountUsers(w, c, u)
    \/ DeleteUser(w)
    \/ ChangeOwnName(w)

Load(w) ==
    \/ Lock(w)
    \/ ClearPermissions(w)
    \/ QueryPermissions(w)
    \/ PushPermission(w)
    \/ Unlock(w)

Request(w) ==
    \/ \E u \in Users, e \in Endpoints : VerifySession(w, u, e)
    \/ VerifyPermissions(w)
    \/ ServeRequest(w)

Next ==
    \/ \E w \in Workers : Manage(w) \/ Load(w) \/ Request(w)
    \/ CrashAndRestart

Spec == Init /\ [][Next]_vars

-----------------------------------------------------------------------------
(* A right that was taken away is in the list only while the handler that  *)
(* took it has still to reload: once its client is answered, no load that  *)
(* was already running, and none that comes after, brings the right back.  *)
(* The exceptions are the handlers of groups, which never reload, and a    *)
(* removal that took effect and was answered with an error.                *)
NoStaleGrant == (cache \cup rows) \ Granted \subseteq Unloaded

(* A right whose grant was answered is in the list whenever no load is     *)
(* under way, unless the last load failed.  Again a grant of the handlers  *)
(* of groups, or one answered with an error, is not.                       *)
GrantTaken == holder = None /\ ~blind => Granted \ cache \subseteq Unloaded

(* No request is served that the tables forbid, except for a change its    *)
(* handler has not reloaded yet or never will, and which no other handler  *)
(* has loaded since.                                                       *)
Admitted ==
    [][\A w \in Workers :
         job[w].pc = "check" /\ job'[w].pc = "serve"
           => <<job[w].user, job[w].endpoint>> \in Granted \cup Unloaded]_vars

(* The inductive invariant behind the three: one loader at a time, the     *)
(* list is empty when it queries, and list and results together hold what  *)
(* the tables held then.                                                   *)
OneLoader ==
    /\ \A w \in Workers : job[w].pc \in Loading <=> holder = w
    /\ \A w \in Workers : job[w].pc = "query" => cache = {}
    /\ rows # {} => \E w \in Workers : job[w].pc = "fill"

LoadComplete ==
    ~blind /\ (\A w \in Workers : job[w].pc \notin {"clear", "query"})
        => Granted \ (cache \cup rows) \subseteq Unloaded

JobTyped ==
    \A w \in Workers :
        /\ job[w].pc \in {"check", "serve"} =>
            job[w].user \in Users /\ job[w].endpoint \in Endpoints
        /\ job[w].pc \in {"insertUser", "updateUser", "deleteUser"} =>
            job[w].user \in Users
        /\ job[w].pc \in {"insertGroup", "grantAll", "insertPermission",
                          "removePermission"} => job[w].group \in Groups
        /\ job[w].pc \in {"insertPermission", "removePermission"} =>
            job[w].endpoint \in Endpoints

IInv ==
    /\ TypeOK
    /\ JobTyped
    /\ OneLoader
    /\ NoStaleGrant
    /\ LoadComplete
    /\ GrantTaken

=============================================================================
