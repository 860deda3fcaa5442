------------------------------ MODULE FormProxy ------------------------------
(***************************************************************************)
(* Public forms (controllers/forms/forms.cpp): each of the five endpoints  *)
(* creates a temporary system user and session, sends a request of its own *)
(* to this same server, forwards the answer and deletes the user.  The     *)
(* inner request needs a second thread of the pool that serves the outer   *)
(* one, so that a burst of forms can leave every thread waiting for the    *)
(* queue behind it.                                                        *)
(***************************************************************************)
EXTENDS Integers, Sequences, FiniteSets

CONSTANTS
    Requests,     \* slots of public form requests
    MaxThreads,   \* setting max_threads
    MaxQueued     \* setting max_queued

ASSUME PoolAssumption == {MaxThreads, MaxQueued} \subseteq Nat \ {0}

VARIABLES
    public,     \* tables.public_form of the form's table
    queue,      \* accepted connections that wait for a thread
    outer,      \* where the handler of each form request is
    inner,      \* where the handler of the request it makes is
    users,      \* rows of `users` with type system, by form request
    leftover,   \* the same: rows nobody deletes any more, because they
                \* were inserted and reported failed, the statement that
                \* should delete them failed or the process died
    sessions,   \* requests whose user has an entry in sessions_ (it stays
                \* when the request is over and the next one takes the slot)
    effect,     \* the inner request has been carried out
    answer      \* what the client of the form request received

formsVars == <<public, queue, outer, inner, users, leftover, sessions, effect, answer>>

OuterPCs == {"done", "queued", "verify", "createUser", "createSession",
             "connect", "waiting", "deleteUser"}
Answers == {"succeeded", "failed", "refused"}
InnerPCs == {"none", "queued", "session", "run"} \cup Answers
Connection == {"outer", "inner"} \X Requests

FormsTypeOK ==
    /\ public \in BOOLEAN
    /\ queue \in Seq(Connection)
    /\ outer \in [Requests -> OuterPCs]
    /\ inner \in [Requests -> InnerPCs]
    /\ users \subseteq Requests
    /\ leftover \subseteq Requests
    /\ sessions \subseteq Requests
    /\ effect \subseteq Requests
    /\ answer \in [Requests -> {"none", "error"} \cup Answers]

FormsInit ==
    /\ public \in BOOLEAN
    /\ queue = << >>
    /\ outer = [r \in Requests |-> "done"]
    /\ inner = [r \in Requests |-> "none"]
    /\ users = {}
    /\ leftover = {}
    /\ sessions = {}
    /\ effect = {}
    /\ answer = [r \in Requests |-> "none"]

OuterThreads == {r \in Requests : outer[r] \notin {"done", "queued"}}
InnerThreads == {r \in Requests : inner[r] \in {"session", "run"} \cup Answers}
BusyThreads == Cardinality(OuterThreads) + Cardinality(InnerThreads)
QueueHasRoom == Len(queue) < MaxQueued

OuterGoto(r, pc) == outer' = [outer EXCEPT ![r] = pc]
InnerGoto(r, pc) == inner' = [inner EXCEPT ![r] = pc]

-----------------------------------------------------------------------------
(* Faulty variants of the steps below, none of them in the spec: what the  *)
(* properties are there to catch.                                          *)
ArriveUntagged(r) ==
    /\ outer[r] = "done" /\ inner[r] = "none"
    /\ QueueHasRoom
    /\ queue' = Append(queue, r)
    /\ OuterGoto(r, "queued")
    /\ answer' = [answer EXCEPT ![r] = "none"]
    /\ effect' = effect \ {r}
    /\ UNCHANGED <<public, inner, users, leftover, sessions>>

ConnectOrReturn(r) ==
    /\ outer[r] = "connect"
    /\ IF QueueHasRoom
       THEN /\ queue' = Append(queue, <<"inner", r>>)
            /\ InnerGoto(r, "queued")
            /\ OuterGoto(r, "waiting")
       ELSE OuterGoto(r, "done") /\ UNCHANGED <<queue, inner>>
    /\ UNCHANGED <<public, users, leftover, sessions, effect, answer>>

CreateSessionAfterDelete(r) ==
    /\ outer[r] = "createSession"
    /\ sessions' = sessions \cup {r}
    /\ users' = users \ {r}
    /\ OuterGoto(r, "connect")
    /\ UNCHANGED <<public, queue, inner, leftover, effect, answer>>

TimeoutOnceServed(r) ==
    /\ outer[r] = "waiting"
    /\ inner[r] \in {"session", "run"}
    /\ OuterGoto(r, "deleteUser")
    /\ UNCHANGED <<public, queue, inner, users, leftover, sessions, effect, answer>>

-----------------------------------------------------------------------------
(* The pool: a connection that finds the queue full is closed; a free      *)
(* thread takes the oldest one.  An inner connection whose client has given*)
(* up is closed when its turn comes: its TLS handshake cannot complete.    *)
Arrive(r) ==
    /\ outer[r] = "done" /\ inner[r] = "none"
    /\ QueueHasRoom
    /\ queue' = Append(queue, <<"outer", r>>)
    /\ OuterGoto(r, "queued")
    /\ answer' = [answer EXCEPT ![r] = "none"]
    /\ effect' = effect \ {r}
    /\ UNCHANGED <<public, inner, users, leftover, sessions>>

Dispatch ==
    /\ queue # << >>
    /\ BusyThreads < MaxThreads
    /\ queue' = Tail(queue)
    /\ LET r == Head(queue)[2] IN
        IF Head(queue)[1] = "outer"
        THEN OuterGoto(r, "verify") /\ UNCHANGED inner
        ELSE /\ InnerGoto(r, IF outer[r] = "waiting" THEN "session" ELSE "none")
             /\ UNCHANGED outer
    /\ UNCHANGED <<public, users, leftover, sessions, effect, answer>>

-----------------------------------------------------------------------------
(* The outer handler.                                                      *)
VerifyPublicFormEnabled(r) ==
    /\ outer[r] = "verify"
    /\ IF public
       THEN OuterGoto(r, "createUser") /\ UNCHANGED answer
       ELSE OuterGoto(r, "done") /\ answer' = [answer EXCEPT ![r] = "error"]
    /\ UNCHANGED <<public, queue, inner, users, leftover, sessions, effect>>

(* When Work_ reports a failure after the INSERT took effect, nobody       *)
(* deletes the user.  (The return for want of the table's identifier,      *)
(* after the user was created, cannot be taken: VerifyPublicFormEnabled    *)
(* found the form by that identifier.)                                     *)
CreateSystemUser(r) ==
    /\ outer[r] = "createUser"
    /\ \/ /\ users' = users \cup {r}
          /\ OuterGoto(r, "createSession")
          /\ UNCHANGED <<leftover, answer>>
       \/ /\ leftover' = leftover \cup {r} \/ UNCHANGED leftover
          /\ OuterGoto(r, "done")
          /\ answer' = [answer EXCEPT ![r] = "error"]
          /\ UNCHANGED users
    /\ UNCHANGED <<public, queue, inner, sessions, effect>>

CreateSession(r) ==
    /\ outer[r] = "createSession"
    /\ sessions' = sessions \cup {r}
    /\ OuterGoto(r, "connect")
    /\ UNCHANGED <<public, queue, inner, users, leftover, effect, answer>>

(* A connection that is refused is an exception SendHTTPSRequest_ logs.    *)
Connect(r) ==
    /\ outer[r] = "connect"
    /\ IF QueueHasRoom
       THEN /\ queue' = Append(queue, <<"inner", r>>)
            /\ InnerGoto(r, "queued")
            /\ OuterGoto(r, "waiting")
       ELSE OuterGoto(r, "deleteUser") /\ UNCHANGED <<queue, inner>>
    /\ UNCHANGED <<public, users, leftover, sessions, effect, answer>>

(* Whatever the answer says, the body is sent on with status 200.          *)
ForwardAnswer(r) ==
    /\ outer[r] = "waiting"
    /\ inner[r] \in Answers
    /\ answer' = [answer EXCEPT ![r] = inner[r]]
    /\ OuterGoto(r, "deleteUser")
    /\ UNCHANGED <<public, queue, inner, users, leftover, sessions, effect>>

(* The client's receive timeout: no answer is sent on.                     *)
Timeout(r) ==
    /\ outer[r] = "waiting"
    /\ inner[r] \notin Answers
    /\ OuterGoto(r, "deleteUser")
    /\ UNCHANGED <<public, queue, inner, users, leftover, sessions, effect, answer>>

(* A failure is logged; the session stays in the map either way.           *)
DeleteSystemUser(r) ==
    /\ outer[r] = "deleteUser"
    /\ users' = users \ {r}
    /\ UNCHANGED leftover \/ leftover' = leftover \cup {r}
    /\ OuterGoto(r, "done")
    /\ UNCHANGED <<public, queue, inner, sessions, effect, answer>>

-----------------------------------------------------------------------------
(* The inner handler: VerifySession_ and the permission check let a system *)
(* user do everything; without his session or his row, or when the query   *)
(* for the row fails, the request is answered with an error.               *)
VerifySession(r) ==
    /\ inner[r] = "session"
    /\ \/ r \in sessions \cap users /\ InnerGoto(r, "run")
       \/ r \notin sessions \cap users /\ InnerGoto(r, "refused")
       \/ InnerGoto(r, "failed")
    /\ UNCHANGED <<public, queue, outer, users, leftover, sessions, effect, answer>>

(* The handler of the endpoint: it does what it was asked, or refuses it or *)
(* fails, and may report as failed what took effect.                       *)
RunInner(r) ==
    /\ inner[r] = "run"
    /\ \/ effect' = effect \cup {r} /\ InnerGoto(r, "succeeded")
       \/ InnerGoto(r, "failed") /\ effect' \in {effect, effect \cup {r}}
    /\ UNCHANGED <<public, queue, outer, users, leftover, sessions, answer>>

(* The thread is free again once the client has closed the connection.     *)
CloseInner(r) ==
    /\ inner[r] \in Answers
    /\ outer[r] # "waiting"
    /\ InnerGoto(r, "none")
    /\ UNCHANGED <<public, queue, outer, users, leftover, sessions, effect, answer>>

-----------------------------------------------------------------------------
TogglePublic ==
    /\ public' = ~public
    /\ UNCHANGED <<queue, outer, inner, users, leftover, sessions, effect, answer>>

Crash ==
    /\ queue' = << >>
    /\ outer' = [r \in Requests |-> "done"]
    /\ inner' = [r \in Requests |-> "none"]
    /\ sessions' = {}
    /\ users' = {}
    /\ leftover' = leftover \cup users
    /\ UNCHANGED <<public, effect, answer>>

Serve(r) ==
    \/ VerifyPublicFormEnabled(r)
    \/ CreateSystemUser(r)
    \/ CreateSession(r)
    \/ Connect(r)
    \/ ForwardAnswer(r)
    \/ Timeout(r)
    \/ DeleteSystemUser(r)

ServeInner(r) == VerifySession(r) \/ RunInner(r) \/ CloseInner(r)

FormsNext ==
    \/ \E r \in Requests : Arrive(r) \/ Serve(r) \/ ServeInner(r)
    \/ Dispatch
    \/ TogglePublic
    \/ Crash

FormsSpec == FormsInit /\ [][FormsNext]_formsVars

(* A thread that can run does, and a receive timeout expires.              *)
FormsFairness ==
    /\ WF_formsVars(Dispatch)
    /\ \A r \in Requests : WF_formsVars(Serve(r)) /\ WF_formsVars(ServeInner(r))

FormsFairSpec == FormsSpec /\ FormsFairness

-----------------------------------------------------------------------------
(* A form request that was accepted comes to an end, however the pool is   *)
(* exhausted by other forms: every thread may wait for an inner request    *)
(* that is still queued, until the timeouts release them.                  *)
EveryFormEnds == \A r \in Requests : outer[r] = "queued" ~> outer[r] = "done"

(* The temporary user, who may do everything, exists only while the request*)
(* that created it is being served: every way out of the handler deletes   *)
(* it.  Only an INSERT or DELETE reported failed or a crash leaves one.    *)
TemporaryUser ==
    \A r \in users :
        outer[r] \in {"createSession", "connect", "waiting", "deleteUser"}

(* The answer the client of a form gets is about his own request: success  *)
(* is forwarded only for a request that was carried out, and no form is    *)
(* refused because its user or session was missing: the inner request      *)
(* never finds them gone while the form waits for it.                      *)
ForwardedWasDone ==
    \A r \in Requests :
        /\ answer[r] = "succeeded" => r \in effect
        /\ answer[r] # "refused"
        /\ outer[r] = "waiting" =>
            /\ inner[r] = "succeeded" => r \in effect
            /\ inner[r] # "refused"

-----------------------------------------------------------------------------
(* The inductive invariant of the proofs (ServerProof).                 *)

(* A connection waits in the queue once, and whoever made it knows.        *)
QueuedOnce ==
    /\ \A i \in 1..Len(queue) :
        IF queue[i][1] = "outer" THEN outer[queue[i][2]] = "queued"
                                 ELSE inner[queue[i][2]] = "queued"
    /\ \A i, j \in 1..Len(queue) : i # j => queue[i] # queue[j]

(* A form that talks to the server has its user and its session, and the   *)
(* request it made is none of an earlier form.                             *)
Prepared ==
    \A r \in Requests :
        /\ outer[r] \in {"createSession", "connect", "waiting"} => r \in users
        /\ outer[r] \in {"connect", "waiting"} => r \in sessions
        /\ outer[r] \in {"queued", "verify", "createUser", "createSession", "connect"} =>
            inner[r] = "none"

FormsInv ==
    /\ FormsTypeOK
    /\ QueuedOnce
    /\ Prepared
    /\ TemporaryUser
    /\ ForwardedWasDone

=============================================================================
