------------------------------ MODULE Sessions ------------------------------
(***************************************************************************)
(* SessionsManager, LoginHandler and RootHandler::VerifySession_: the      *)
(* session map the server keeps in memory and the `sessions` table it      *)
(* writes behind it, under concurrent requests, statements that fail,      *)
(* crashes and restarts.                                                   *)
(*                                                                         *)
(* Every request is served by a worker thread; one step of a worker is one *)
(* access to the map or one SQL statement (each statement runs on a        *)
(* connection of its own and commits on its own).  sessions_ is a std::map *)
(* read and written without a lock: its accesses are taken as atomic, and  *)
(* the process dying of that race is one of the causes of Crash.           *)
(***************************************************************************)
CONSTANTS
    Users,         \* users.identifier
    SIDs,          \* session identifiers
    Workers,       \* threads of the HTTP server
    None,          \* no session, no user, no row
    UniqueDraws    \* TRUE: GenerateNewSessionID_ never repeats an identifier

ASSUME NoneAssumption == None \notin Users \cup SIDs
ASSUME SwitchAssumption == UniqueDraws \in BOOLEAN

VARIABLES
    users,      \* rows of `users`
    mem,        \* SessionsManager::sessions_
    db,         \* rows of `sessions`: identifier -> id_user
    expired,    \* sessions older than their max_age
    up,         \* the process is running
    job,        \* what each worker is doing
    drawn,      \* history: identifiers generated so far
    issued,     \* history: users a login answered with this cookie
    answered,   \* history: sessions a client was told "Client logout." for
    closed,     \* history: sessions whose row a logout has deleted
    lost        \* history: sessions a failed statement did not save or load

vars == <<users, mem, db, expired, up, job, drawn, issued, answered, closed, lost>>
logouts == <<answered, closed>>

PCs == {"idle", "auth", "draw", "emplace", "insert", "answer",
        "erase", "delete", "reload", "serve"}

Idle == [pc |-> "idle", user |-> None, sid |-> None]
NoSessions == [s \in SIDs |-> None]

TypeOK ==
    /\ users \subseteq Users
    /\ mem \in [SIDs -> Users \cup {None}]
    /\ db \in [SIDs -> Users \cup {None}]
    /\ expired \subseteq SIDs
    /\ up \in BOOLEAN
    /\ job \in [Workers -> [pc : PCs, user : Users \cup {None},
                            sid : SIDs \cup {None}]]
    /\ drawn \subseteq SIDs
    /\ issued \in [SIDs -> SUBSET Users]
    /\ answered \subseteq SIDs
    /\ closed \subseteq SIDs
    /\ lost \subseteq SIDs

Init ==
    /\ users = Users
    /\ mem = NoSessions
    /\ db = NoSessions
    /\ expired = {}
    /\ up = TRUE
    /\ job = [w \in Workers |-> Idle]
    /\ drawn = {}
    /\ issued = [s \in SIDs |-> {}]
    /\ answered = {}
    /\ closed = {}
    /\ lost = {}

At(w, pc) == up /\ job[w].pc = pc
Goto(w, pc) == job' = [job EXCEPT ![w].pc = pc]
Finish(w) == job' = [job EXCEPT ![w] = Idle]

-----------------------------------------------------------------------------
(* Faulty variants of the steps below, none of them part of Spec: what the *)
(* properties are there to catch.                                          *)
DrawReusesExpired(w) ==
    /\ At(w, "draw")
    /\ \E s \in SIDs :
        /\ s \in expired \/ s \notin drawn
        /\ job' = [job EXCEPT ![w] =
                     [pc |-> "emplace", user |-> job[w].user, sid |-> s]]
        /\ drawn' = drawn \cup {s}
    /\ UNCHANGED <<users, mem, db, expired, up, issued, logouts, lost>>

EmplaceWithoutSaving(w) ==
    /\ At(w, "emplace")
    /\ mem' = [mem EXCEPT ![job[w].sid] = job[w].user]
    /\ Goto(w, "answer")
    /\ UNCHANGED <<users, db, expired, up, drawn, issued, logouts, lost>>

EraseNothing(w) ==
    /\ At(w, "erase")
    /\ Goto(w, "delete")
    /\ UNCHANGED <<users, mem, db, expired, up, drawn, issued, logouts, lost>>

-----------------------------------------------------------------------------
(* POST /api/auth/login.  A request whose cookie names a live session is   *)
(* answered at once and changes nothing; any other goes on to authenticate.*)
StartLogin(w, u) ==
    /\ At(w, "idle")
    /\ job' = [job EXCEPT ![w] = [pc |-> "auth", user |-> u, sid |-> None]]
    /\ UNCHANGED <<users, mem, db, expired, up, drawn, issued, logouts, lost>>

(* AuthenticateUser_: the status column is selected but not looked at; a   *)
(* failed query leaves no rows and answers as a wrong password does.       *)
AuthenticateUser(w) ==
    /\ At(w, "auth")
    /\ \/ job[w].user \in users /\ Goto(w, "draw")
       \/ Finish(w)
    /\ UNCHANGED <<users, mem, db, expired, up, drawn, issued, logouts, lost>>

(* The loop of CreateSession_: identifiers are generated until one is not  *)
(* in the map (the table is not consulted).                                *)
DrawID(w) ==
    /\ At(w, "draw")
    /\ \E s \in SIDs :
        /\ mem[s] = None
        /\ UniqueDraws => s \notin drawn
        /\ job' = [job EXCEPT ![w] =
                     [pc |-> "emplace", user |-> job[w].user, sid |-> s]]
        /\ drawn' = drawn \cup {s}
    /\ UNCHANGED <<users, mem, db, expired, up, issued, logouts, lost>>

(* sessions_.emplace keeps the entry that is already there.                *)
EmplaceSession(w) ==
    /\ At(w, "emplace")
    /\ mem' = IF mem[job[w].sid] = None
              THEN [mem EXCEPT ![job[w].sid] = job[w].user]
              ELSE mem
    /\ Goto(w, "insert")
    /\ UNCHANGED <<users, db, expired, up, drawn, issued, logouts, lost>>

(* INSERT INTO sessions: refused by the unique key on identifier and by    *)
(* the foreign key on id_user; what Work_ returns is ignored.              *)
InsertRow(w) ==
    LET s == job[w].sid
        u == job[w].user
        Accepted == db[s] = None /\ u \in users
    IN
    /\ At(w, "insert")
    /\ \/ /\ Accepted
          /\ db' = [db EXCEPT ![s] = u]
          /\ expired' = expired \ {s}
          /\ UNCHANGED lost
       \/ /\ lost' = lost \cup {s}
          /\ UNCHANGED <<db, expired>>
    /\ Goto(w, "answer")
    /\ UNCHANGED <<users, mem, up, drawn, issued, logouts>>

(* sessions_.at(id) and the cookie; at() throws when the entry is gone and *)
(* the client gets an error instead.                                       *)
AnswerLogin(w) ==
    LET s == job[w].sid IN
    /\ At(w, "answer")
    /\ issued' = IF mem[s] = None THEN issued
                 ELSE [issued EXCEPT ![s] = @ \cup {job[w].user}]
    /\ Finish(w)
    /\ UNCHANGED <<users, mem, db, expired, up, drawn, logouts, lost>>

-----------------------------------------------------------------------------
(* POST /api/auth/logout with a cookie some login handed out, perhaps one  *)
(* that is no longer in the map.                                           *)
StartLogout(w, s) ==
    /\ At(w, "idle")
    /\ issued[s] # {}
    /\ IF mem[s] = None
       THEN answered' = answered \cup {s} /\ UNCHANGED job
       ELSE /\ job' = [job EXCEPT ![w] =
                         [pc |-> "erase", user |-> None, sid |-> s]]
            /\ UNCHANGED answered
    /\ UNCHANGED <<users, mem, db, expired, up, drawn, issued, closed, lost>>

(* DeleteSession_, the map: nothing more is done when the entry has gone.  *)
EraseSession(w) ==
    LET s == job[w].sid IN
    /\ At(w, "erase")
    /\ IF mem[s] = None
       THEN answered' = answered \cup {s} /\ Finish(w) /\ UNCHANGED mem
       ELSE /\ mem' = [mem EXCEPT ![s] = None]
            /\ Goto(w, "delete")
            /\ UNCHANGED answered
    /\ UNCHANGED <<users, db, expired, up, drawn, issued, closed, lost>>

(* DeleteSession_, the table: an error is logged and not reported.         *)
DeleteRow(w) ==
    LET s == job[w].sid IN
    /\ At(w, "delete")
    /\ \/ db' = [db EXCEPT ![s] = None] /\ closed' = closed \cup {s}
       \/ UNCHANGED <<db, closed>>
    /\ answered' = answered \cup {s}
    /\ Finish(w)
    /\ UNCHANGED <<users, mem, expired, up, drawn, issued, lost>>

-----------------------------------------------------------------------------
(* VerifySession_ on a request with a cookie: the session's user is read   *)
(* from a copy of the map, then reloaded from the table.  Without a row    *)
(* the current user stays empty and no permission matches it.              *)
StartRequest(w, s) ==
    /\ At(w, "idle")
    /\ issued[s] # {}
    /\ mem[s] # None
    /\ job' = [job EXCEPT ![w] = [pc |-> "reload", user |-> mem[s], sid |-> s]]
    /\ UNCHANGED <<users, mem, db, expired, up, drawn, issued, logouts, lost>>

ReloadCurrentUser(w) ==
    /\ At(w, "reload")
    /\ \/ job[w].user \in users /\ Goto(w, "serve")
       \/ Finish(w)
    /\ UNCHANGED <<users, mem, db, expired, up, drawn, issued, logouts, lost>>

ServeRequest(w) ==
    /\ At(w, "serve")
    /\ Finish(w)
    /\ UNCHANGED <<users, mem, db, expired, up, drawn, issued, logouts, lost>>

-----------------------------------------------------------------------------
(* DELETE FROM users: the foreign key deletes the user's sessions from the *)
(* table; nothing removes them from the map.                               *)
DeleteUser(u) ==
    /\ up
    /\ u \in users
    /\ users' = users \ {u}
    /\ db' = [s \in SIDs |-> IF db[s] = u THEN None ELSE db[s]]
    /\ UNCHANGED <<mem, expired, up, job, drawn, issued, logouts, lost>>

(* max_age seconds have passed since the row's created_at.                 *)
Expire(s) ==
    /\ db[s] # None
    /\ s \notin expired
    /\ expired' = expired \cup {s}
    /\ UNCHANGED <<users, mem, db, up, job, drawn, issued, logouts, lost>>

Crash ==
    /\ up
    /\ up' = FALSE
    /\ mem' = NoSessions
    /\ job' = [w \in Workers |-> Idle]
    /\ UNCHANGED <<users, db, expired, drawn, issued, logouts, lost>>

(* ReadSessions_, before the server listens: the rows that have not        *)
(* expired, or nothing when the query fails.                               *)
Restart ==
    /\ ~up
    /\ up' = TRUE
    /\ \/ /\ mem' = [s \in SIDs |-> IF s \in expired THEN None ELSE db[s]]
          /\ lost' = {s \in lost : db[s] = None}
       \/ UNCHANGED mem /\ lost' = lost \cup {s \in SIDs : db[s] # None}
    /\ UNCHANGED <<users, db, expired, job, drawn, issued, logouts>>

-----------------------------------------------------------------------------
Work(w) ==
    \/ \E u \in Users : StartLogin(w, u)
    \/ AuthenticateUser(w)
    \/ DrawID(w)
    \/ EmplaceSession(w)
    \/ InsertRow(w)
    \/ AnswerLogin(w)
    \/ \E s \in SIDs : StartLogout(w, s)
    \/ EraseSession(w)
    \/ DeleteRow(w)
    \/ \E s \in SIDs : StartRequest(w, s)
    \/ ReloadCurrentUser(w)
    \/ ServeRequest(w)

Environment ==
    \/ \E u \in Users : DeleteUser(u)
    \/ \E s \in SIDs : Expire(s)
    \/ Crash
    \/ Restart

Next == (\E w \in Workers : Work(w)) \/ Environment

Spec == Init /\ [][Next]_vars

-----------------------------------------------------------------------------
(* A cookie opens one account only: whatever a login answered with the     *)
(* cookie s, the map, the table and any request served under s name that   *)
(* same user, through concurrent logins, deleted users, crashes and        *)
(* reloads.                                                                *)
SessionOwner ==
    /\ \A s \in SIDs : \A u \in issued[s] :
        /\ issued[s] = {u}
        /\ mem[s] \in {None, u}
        /\ db[s] \in {None, u}
    /\ \A w \in Workers :
        job[w].pc \in {"reload", "serve"} => job[w].user \in issued[job[w].sid]

(* Once the DELETE of a logout has run, the session never returns, neither *)
(* to the map nor to the table: no login in flight inserts the row late and*)
(* no restart finds it.                                                    *)
LogoutFinal == \A s \in closed : mem[s] = None /\ db[s] = None

(* A client that was told it is logged in stays so, across any number of   *)
(* crashes and restarts, until the session expires, its user is deleted,   *)
(* somebody logs out with it or the statement that saves or loads it fails.*)
LoginDurable ==
    \A s \in SIDs : \A u \in issued[s] :
        up /\ u \in users /\ s \notin expired \cup answered \cup lost
            => \/ mem[s] = u
               \/ \E w \in Workers : job[w].pc = "delete" /\ job[w].sid = s

(* The map and the table implement SessionStore: whatever they do, seen as *)
(* whom each cookie admits, is one of its steps.  A cookie counts from its *)
(* login's answer on.                                                      *)
Owner == [s \in SIDs |-> IF issued[s] = {} THEN None ELSE CHOOSE u \in Users : u \in issued[s]]
Admits == [s \in SIDs |-> IF issued[s] = {} THEN None ELSE mem[s]]
Closing(s) == \E w \in Workers : job[w].pc = "delete" /\ job[w].sid = s
Excused == {s \in SIDs : /\ issued[s] # {}
                         /\ \/ s \in expired \cup lost \cup answered
                            \/ Owner[s] \notin users
                            \/ Closing(s)}

Store == INSTANCE SessionStore WITH owner <- Owner, admits <- Admits, excused <- Excused

ImplementsStore == Store!Spec

-----------------------------------------------------------------------------
(* The inductive invariant behind the three, for identifiers that never  *)
(* repeat.  Its parts say which stores each step of a login or a logout    *)
(* has already written.                                                    *)
Creating(w) == job[w].pc \in {"emplace", "insert", "answer"}

JobTyped ==
    \A w \in Workers :
        /\ job[w].pc \notin {"idle", "erase", "delete"} => job[w].user \in Users
        /\ job[w].pc \notin {"idle", "auth", "draw"} => job[w].sid \in SIDs

FreshIDs ==
    /\ \A s \in SIDs : s \notin drawn =>
        mem[s] = None /\ db[s] = None /\ issued[s] = {} /\ s \notin closed
    /\ \A w \in Workers : Creating(w) =>
        /\ job[w].sid \in drawn
        /\ issued[job[w].sid] = {}
        /\ job[w].sid \notin closed
        /\ \A v \in Workers : Creating(v) /\ job[v].sid = job[w].sid => v = w

LoginProgress ==
    \A w \in Workers :
        /\ job[w].pc = "emplace" =>
            mem[job[w].sid] = None /\ db[job[w].sid] = None
        /\ job[w].pc = "insert" =>
            mem[job[w].sid] = job[w].user /\ db[job[w].sid] = None
        /\ job[w].pc = "answer" =>
            /\ mem[job[w].sid] = job[w].user
            /\ db[job[w].sid] \in {None, job[w].user}

LogoutProgress ==
    /\ \A w \in Workers :
        /\ job[w].pc \in {"erase", "delete"} => issued[job[w].sid] # {}
        /\ job[w].pc = "delete" => mem[job[w].sid] = None
    /\ \A s \in closed : issued[s] # {}

Down == ~up => mem = NoSessions /\ \A w \in Workers : job[w] = Idle

RowsKept ==
    /\ \A w \in Workers :
        job[w].pc = "answer" /\ job[w].user \in users /\ job[w].sid \notin lost
            => db[job[w].sid] = job[w].user
    /\ \A s \in SIDs : \A u \in issued[s] :
        u \in users /\ s \notin closed \cup lost => db[s] = u
    /\ closed \subseteq answered

IInv ==
    /\ TypeOK
    /\ JobTyped
    /\ FreshIDs
    /\ LoginProgress
    /\ LogoutProgress
    /\ RowsKept
    /\ Down
    /\ SessionOwner
    /\ LogoutFinal
    /\ LoginDurable

=============================================================================
