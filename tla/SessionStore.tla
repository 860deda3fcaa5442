---------------------------- MODULE SessionStore -----------------------------
(***************************************************************************)
(* What the sessions of the server promise, whatever keeps them: a cookie  *)
(* is handed to one user, admits that user or nobody, admits nobody again  *)
(* once its session has been closed, and comes back after a restart unless *)
(* there is an excuse.  Sessions implements it with a map in memory and a  *)
(* table.                                                                  *)
(***************************************************************************)
CONSTANTS Users, SIDs, None

VARIABLES
    owner,      \* the user a cookie was handed to
    admits,     \* the user it admits now
    closed,     \* cookies whose session was closed for good
    excused,    \* cookies that may admit nobody although they are not closed
    up          \* the server answers

vars == <<owner, admits, closed, excused, up>>

Nobody == [s \in SIDs |-> None]
HandedOut == {s \in SIDs : owner[s] # None}

Init ==
    /\ owner = Nobody /\ admits = Nobody
    /\ closed = {} /\ excused = {}
    /\ up = TRUE

(* A cookie is handed out, once.                                           *)
Open(s, u) ==
    /\ up
    /\ owner[s] = None /\ s \notin closed
    /\ owner' = [owner EXCEPT ![s] = u]
    /\ admits' = [admits EXCEPT ![s] = u]
    /\ excused' \subseteq excused \cup {s} /\ excused \subseteq excused'
    /\ UNCHANGED <<closed, up>>

(* A cookie stops admitting its user while it is being closed.             *)
Suspend(s) ==
    /\ up
    /\ s \in HandedOut
    /\ admits' = [admits EXCEPT ![s] = None]
    /\ excused' = excused \cup {s}
    /\ UNCHANGED <<owner, closed, up>>

Close(s) ==
    /\ up
    /\ s \in HandedOut /\ admits[s] = None
    /\ closed' = closed \cup {s}
    /\ excused' = excused \cup {s}
    /\ UNCHANGED <<owner, admits, up>>

(* A session expires, its user is deleted, or a statement about it fails.  *)
Excuse(S) ==
    /\ S \subseteq HandedOut
    /\ excused' = excused \cup S
    /\ UNCHANGED <<owner, admits, closed, up>>

Crash ==
    /\ up /\ up' = FALSE
    /\ admits' = Nobody
    /\ excused' \subseteq excused
    /\ UNCHANGED <<owner, closed>>

(* What a restart brings back: every cookie that is neither closed nor     *)
(* excused, and perhaps others that are not closed.                        *)
Restart ==
    /\ ~up /\ up' = TRUE
    /\ excused' \subseteq HandedOut
    /\ admits' \in [SIDs -> Users \cup {None}]
    /\ \A s \in SIDs :
        /\ admits'[s] \in {None, owner[s]}
        /\ s \in closed => admits'[s] = None
        /\ s \in HandedOut \ (closed \cup excused') => admits'[s] = owner[s]
    /\ UNCHANGED <<owner, closed>>

Next ==
    \/ \E s \in SIDs : Suspend(s) \/ Close(s) \/ \E u \in Users : Open(s, u)
    \/ \E S \in SUBSET SIDs : Excuse(S)
    \/ Crash
    \/ Restart

Spec == Init /\ [][Next]_vars

=============================================================================
