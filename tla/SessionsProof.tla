--------------------------- MODULE SessionsProof ---------------------------
(***************************************************************************)
(* Proofs about Sessions for every number of users, identifiers and        *)
(* workers.                                                                *)
(***************************************************************************)
EXTENDS Sessions, TLAPS

TypeInv == TypeOK /\ JobTyped

(* The initial state is typed.                                             *)
LEMMA TypeInit == Init => TypeInv
  BY DEF Init, TypeInv, TypeOK, JobTyped, NoSessions, Idle, PCs

(* Every step of a worker, a crash and a restart keep the state typed: a   *)
(* worker that has a user or a session has one that exists.                *)
LEMMA TypeStep == TypeInv /\ [Next]_vars => TypeInv'
<1> SUFFICES ASSUME TypeInv, [Next]_vars PROVE TypeInv'
  OBVIOUS
<1> USE DEF TypeInv, TypeOK, JobTyped, At, Goto, Finish, Idle, PCs, NoSessions,
       logouts
<1>1. ASSUME NEW w \in Workers, Work(w) PROVE TypeInv'
  <2>1. ASSUME NEW u \in Users, StartLogin(w, u) PROVE TypeInv'
    BY <2>1 DEF StartLogin
  <2>2. CASE AuthenticateUser(w)
    BY <2>2 DEF AuthenticateUser
  <2>3. CASE DrawID(w)
    BY <2>3 DEF DrawID
  <2>4. CASE EmplaceSession(w)
    BY <2>4 DEF EmplaceSession
  <2>5. CASE InsertRow(w)
    BY <2>5 DEF InsertRow
  <2>6. CASE AnswerLogin(w)
    BY <2>6 DEF AnswerLogin
  <2>7. ASSUME NEW s \in SIDs, StartLogout(w, s) PROVE TypeInv'
    BY <2>7 DEF StartLogout
  <2>8. CASE EraseSession(w)
    BY <2>8 DEF EraseSession
  <2>9. CASE DeleteRow(w)
    BY <2>9 DEF DeleteRow
  <2>10. ASSUME NEW s \in SIDs, StartRequest(w, s) PROVE TypeInv'
    BY <2>10 DEF StartRequest
  <2>11. CASE ReloadCurrentUser(w)
    BY <2>11 DEF ReloadCurrentUser
  <2>12. CASE ServeRequest(w)
    BY <2>12 DEF ServeRequest
  <2> QED
    BY <1>1, <2>1, <2>2, <2>3, <2>4, <2>5, <2>6, <2>7, <2>8, <2>9, <2>10,
       <2>11, <2>12 DEF Work
<1>2. CASE Environment
  <2>1. ASSUME NEW u \in Users, DeleteUser(u) PROVE TypeInv'
    BY <2>1 DEF DeleteUser
  <2>2. ASSUME NEW s \in SIDs, Expire(s) PROVE TypeInv'
    BY <2>2 DEF Expire
  <2>3. CASE Crash
    BY <2>3 DEF Crash
  <2>4. CASE Restart
    BY <2>4 DEF Restart
  <2> QED
    BY <1>2, <2>1, <2>2, <2>3, <2>4 DEF Environment
<1>3. CASE UNCHANGED vars
  BY <1>3 DEF vars, logouts
<1> QED
  BY <1>1, <1>2, <1>3 DEF Next

(* The state stays of the declared shape, whatever fails.                  *)
THEOREM TypeCorrect == Spec => []TypeOK
<1>1. TypeInv => TypeOK
  BY DEF TypeInv
<1> QED
  BY <1>1, TypeInit, TypeStep, PTL DEF Spec

-----------------------------------------------------------------------------
(* The server starts with no session: the invariant holds.                 *)
LEMMA InvInit == Init => IInv
  BY TypeInit, NoneAssumption
     DEF TypeInv, Init, IInv, FreshIDs, LoginProgress, LogoutProgress, RowsKept,
         Down, SessionOwner, LogoutFinal, LoginDurable, Creating, NoSessions, Idle

(* No step of a login, a logout or a request, and neither crash nor reload,*)
(* breaks the invariant, for identifiers that never repeat.                *)
LEMMA InvStep == ASSUME UniqueDraws PROVE IInv /\ [Next]_vars => IInv'
<1> SUFFICES ASSUME IInv, [Next]_vars PROVE IInv'
  OBVIOUS
<1> USE UniqueDraws, NoneAssumption
    DEF At, Goto, Finish, Idle, NoSessions, Creating, logouts, IInv, TypeInv, TypeOK,
        JobTyped, FreshIDs, LoginProgress, LogoutProgress, RowsKept, Down,
        SessionOwner, LogoutFinal, LoginDurable
<1>0. TypeInv /\ TypeInv'
  BY TypeStep
<1>1. ASSUME NEW w \in Workers, Work(w) PROVE IInv'
  <2>1. ASSUME NEW u \in Users, StartLogin(w, u) PROVE IInv'
    BY <1>0, <2>1 DEF StartLogin
  <2>2. CASE AuthenticateUser(w)
    <3>1. (/\ FreshIDs /\ LoginProgress /\ LogoutProgress
           /\ Down /\ SessionOwner /\ LogoutFinal)'
      BY <1>0, <2>2 DEF AuthenticateUser
    <3>2. RowsKept'
      BY <1>0, <2>2 DEF AuthenticateUser
    <3>3. LoginDurable'
      BY <1>0, <2>2 DEF AuthenticateUser
    <3> QED
      BY <1>0, <3>1, <3>2, <3>3
  <2>3. CASE DrawID(w)
    BY <1>0, <2>3 DEF DrawID
  <2>4. CASE EmplaceSession(w)
    BY <1>0, <2>4 DEF EmplaceSession
  <2>5. CASE InsertRow(w)
    BY <1>0, <2>5 DEF InsertRow
  <2>6. CASE AnswerLogin(w)
    BY <1>0, <2>6 DEF AnswerLogin
  <2>7. ASSUME NEW s \in SIDs, StartLogout(w, s) PROVE IInv'
    BY <1>0, <2>7 DEF StartLogout
  <2>8. CASE EraseSession(w)
    <3>1. (/\ FreshIDs /\ LoginProgress /\ LogoutProgress
           /\ Down /\ SessionOwner /\ LogoutFinal)'
      BY <1>0, <2>8 DEF EraseSession
    <3>2. RowsKept'
      BY <1>0, <2>8 DEF EraseSession
    <3>3. LoginDurable'
      BY <1>0, <2>8 DEF EraseSession
    <3> QED
      BY <1>0, <3>1, <3>2, <3>3
  <2>9. CASE DeleteRow(w)
    BY <1>0, <2>9 DEF DeleteRow
  <2>10. ASSUME NEW s \in SIDs, StartRequest(w, s) PROVE IInv'
    BY <1>0, <2>10 DEF StartRequest
  <2>11. CASE ReloadCurrentUser(w)
    <3>1. (/\ FreshIDs /\ LoginProgress /\ LogoutProgress
           /\ Down /\ SessionOwner /\ LogoutFinal)'
      BY <1>0, <2>11 DEF ReloadCurrentUser
    <3>2. RowsKept'
      BY <1>0, <2>11 DEF ReloadCurrentUser
    <3>3. LoginDurable'
      BY <1>0, <2>11 DEF ReloadCurrentUser
    <3> QED
      BY <1>0, <3>1, <3>2, <3>3
  <2>12. CASE ServeRequest(w)
    BY <1>0, <2>12 DEF ServeRequest
  <2> QED
    BY <1>1, <2>1, <2>2, <2>3, <2>4, <2>5, <2>6, <2>7, <2>8, <2>9, <2>10,
       <2>11, <2>12 DEF Work
<1>2. CASE Environment
  <2>1. ASSUME NEW u \in Users, DeleteUser(u) PROVE IInv'
    BY <1>0, <2>1 DEF DeleteUser
  <2>2. ASSUME NEW s \in SIDs, Expire(s) PROVE IInv'
    BY <1>0, <2>2 DEF Expire
  <2>3. CASE Crash
    BY <1>0, <2>3 DEF Crash
  <2>4. CASE Restart
    BY <1>0, <2>4 DEF Restart
  <2> QED
    BY <1>2, <2>1, <2>2, <2>3, <2>4 DEF Environment
<1>3. CASE UNCHANGED vars
  BY <1>0, <1>3 DEF vars
<1> QED
  BY <1>1, <1>2, <1>3 DEF Next

(* Hence the invariant holds always.                                       *)
LEMMA InvHolds == ASSUME UniqueDraws PROVE Spec => []IInv
  BY InvInit, InvStep, PTL DEF Spec

(* A session cookie never opens the account of another user (VerifySession_*)
(* with CreateSession_ and ReadSessions_), whatever statements fail.       *)
THEOREM OwnerSafe == ASSUME UniqueDraws PROVE Spec => []SessionOwner
<1>1. IInv => SessionOwner
  BY DEF IInv
<1> QED
  BY <1>1, InvHolds, PTL

(* A session whose row DeleteSession_ has removed never comes back.        *)
THEOREM LogoutSafe == ASSUME UniqueDraws PROVE Spec => []LogoutFinal
<1>1. IInv => LogoutFinal
  BY DEF IInv
<1> QED
  BY <1>1, InvHolds, PTL

(* ReadSessions_ restores every session a login was answered for, unless   *)
(* the statement that saved or loads it fails: a crash logs nobody out.    *)
THEOREM DurableSafe == ASSUME UniqueDraws PROVE Spec => []LoginDurable
<1>1. IInv => LoginDurable
  BY DEF IInv
<1> QED
  BY <1>1, InvHolds, PTL

-----------------------------------------------------------------------------
(* Whom a cookie was handed to.                                            *)
LEMMA OwnerOf ==
  ASSUME IInv, NEW s \in SIDs
  PROVE  /\ issued[s] = {} => Owner[s] = None
         /\ issued[s] # {} => Owner[s] \in Users /\ issued[s] = {Owner[s]}
<1>1. CASE issued[s] # {}
  <2>1. PICK u \in Users : u \in issued[s]
    BY <1>1 DEF IInv, TypeOK
  <2>2. issued[s] = {u}
    BY <2>1 DEF IInv, SessionOwner
  <2>3. Owner[s] \in Users /\ Owner[s] \in issued[s]
    BY <1>1, <2>1 DEF Owner
  <2> QED
    BY <1>1, <2>2, <2>3
<1> QED
  BY <1>1 DEF Owner

(* A state in which nobody was handed a cookie, none is closed and the     *)
(* server is up is where SessionStore begins.                              *)
LEMMA StoreInit == Init => Store!Init
  BY DEF Init, NoSessions, Idle, Store!Init, Store!Nobody, Owner, Admits, Excused, Closing

(* Each step is a step of SessionStore, or none that it can see.           *)
LEMMA StoreStep ==
  ASSUME IInv, IInv', [Next]_vars
  PROVE  Store!Next \/ UNCHANGED Store!vars
<1> USE NoneAssumption DEF At, Goto, Finish, Idle, logouts
<1>1. \A s \in SIDs : Owner[s] = None <=> issued[s] = {}
  BY OwnerOf
<1>2. ASSUME UNCHANGED issued PROVE UNCHANGED Owner
  BY <1>2 DEF Owner
<1>3. ASSUME NEW S \in SUBSET Store!HandedOut, UNCHANGED <<issued, mem, closed, up>>,
             Excused' = Excused \cup S
      PROVE  Store!Next
  <2>1. UNCHANGED <<Owner, Admits>>
    BY <1>2, <1>3 DEF Admits
  <2>2. S \in SUBSET SIDs
    BY DEF Store!HandedOut
  <2> QED
    BY <1>3, <2>1, <2>2 DEF Store!Next, Store!Excuse
<1>4. ASSUME NEW w \in Workers, Work(w)
      PROVE  Store!Next \/ UNCHANGED Store!vars
  <2>1. ASSUME UNCHANGED <<issued, mem, closed, up, expired, lost, answered, users>>,
               \A s \in SIDs : Closing(s)' <=> Closing(s)
        PROVE  UNCHANGED Store!vars
    BY <1>2, <2>1 DEF Store!vars, Admits, Excused
  <2>2. ASSUME UNCHANGED issued, NEW pc, job' = [job EXCEPT ![w].pc = pc],
               pc # "delete", job[w].pc # "delete"
        PROVE  \A s \in SIDs : Closing(s)' <=> Closing(s)
    BY <2>2 DEF Closing, IInv, TypeOK
  <2>3. ASSUME NEW j, job' = [job EXCEPT ![w] = j], j.pc # "delete", job[w].pc # "delete"
        PROVE  \A s \in SIDs : Closing(s)' <=> Closing(s)
    BY <2>3 DEF Closing, IInv, TypeOK
  <2>a. ASSUME job[w].pc # "delete", job'[w].pc # "delete",
               \A v \in Workers \ {w} : job'[v] = job[v]
        PROVE  \A s \in SIDs : Closing(s)' <=> Closing(s)
    BY <2>a DEF Closing
  <2>4. ASSUME NEW u \in Users, StartLogin(w, u) PROVE UNCHANGED Store!vars
    <3>1. /\ job[w].pc # "delete" /\ job'[w].pc # "delete"
          /\ \A v \in Workers \ {w} : job'[v] = job[v]
      BY <2>4 DEF StartLogin, IInv, TypeOK
    <3> QED
      BY <2>1, <2>a, <2>4, <3>1 DEF StartLogin
  <2>5. CASE AuthenticateUser(w)
    BY <2>1, <2>2, <2>3, <2>5 DEF AuthenticateUser
  <2>6. CASE DrawID(w)
    BY <2>1, <2>3, <2>6 DEF DrawID
  <2>7. CASE EmplaceSession(w)
    <3>1. issued[job[w].sid] = {} /\ job[w].sid \in SIDs
      BY <2>7 DEF EmplaceSession, IInv, FreshIDs, Creating, JobTyped
    <3>2. UNCHANGED <<issued, closed, up, expired, lost, answered, users>>
      BY <2>7 DEF EmplaceSession
    <3>3. UNCHANGED Admits
      BY <2>7, <3>1, <3>2 DEF EmplaceSession, Admits, IInv, TypeOK
    <3>4. \A s \in SIDs : Closing(s)' <=> Closing(s)
      BY <2>2, <2>7 DEF EmplaceSession
    <3> QED
      BY <1>2, <3>2, <3>3, <3>4 DEF Store!vars, Excused
  <2>8. CASE InsertRow(w)
    <3>1. issued[job[w].sid] = {} /\ job[w].sid \in SIDs
      BY <2>8 DEF InsertRow, IInv, FreshIDs, Creating, JobTyped
    <3>2. UNCHANGED <<issued, mem, closed, up, answered, users>>
      BY <2>8 DEF InsertRow
    <3>3. \A s \in SIDs : Closing(s)' <=> Closing(s)
      BY <2>2, <2>8 DEF InsertRow
    <3>4. \A s \in SIDs : s # job[w].sid =>
              /\ s \in expired' <=> s \in expired
              /\ s \in lost' <=> s \in lost
      BY <2>8 DEF InsertRow
    <3>5. UNCHANGED Excused
      BY <1>2, <3>1, <3>2, <3>3, <3>4 DEF Excused
    <3> QED
      BY <1>2, <3>2, <3>5 DEF Store!vars, Admits
  <2>9. CASE AnswerLogin(w)
    <3> DEFINE s == job[w].sid
               u == job[w].user
    <3>1. /\ issued[s] = {} /\ s \in SIDs /\ u \in Users /\ mem[s] = u /\ s \notin closed
          /\ up
      BY <2>9 DEF AnswerLogin, IInv, FreshIDs, Creating, JobTyped, LoginProgress
    <3>2. /\ issued' = [issued EXCEPT ![s] = {u}]
          /\ UNCHANGED <<mem, closed, up, expired, lost, answered, users>>
      BY <2>9, <3>1 DEF AnswerLogin, IInv, TypeOK
    <3>a. /\ job[w].pc # "delete" /\ job'[w].pc # "delete"
          /\ \A v \in Workers \ {w} : job'[v] = job[v]
      BY <2>9 DEF AnswerLogin, IInv, TypeOK
    <3>3. \A r \in SIDs : Closing(r)' <=> Closing(r)
      BY <2>a, <3>a
    <3>b. issued'[s] = {u} /\ \A r \in SIDs : r # s => issued'[r] = issued[r]
      BY <3>1, <3>2 DEF IInv, TypeOK
    <3>c. Owner'[s] = u
      BY <3>1, <3>b DEF Owner
    <3>d. ASSUME NEW r \in SIDs, r # s PROVE Owner'[r] = Owner[r]
      <4>1. issued'[r] = issued[r]
        BY <3>b, <3>d
      <4>2. Owner'[r] = IF issued'[r] = {} THEN None ELSE CHOOSE x \in Users : x \in issued'[r]
        BY DEF Owner
      <4>3. Owner[r] = IF issued[r] = {} THEN None ELSE CHOOSE x \in Users : x \in issued[r]
        BY DEF Owner
      <4> QED
        BY <4>1, <4>2, <4>3, Zenon
    <3>e. Owner = [r \in SIDs |-> Owner[r]] /\ Owner' = [r \in SIDs |-> Owner'[r]]
      BY DEF Owner
    <3>4. Owner[s] = None /\ Owner' = [Owner EXCEPT ![s] = u]
      <4>1. Owner[s] = None
        BY <3>1 DEF Owner
      <4> HIDE DEF s, u
      <4> QED
        BY <4>1, <3>1, <3>c, <3>d, <3>e
    <3>5. Admits' = [Admits EXCEPT ![s] = u]
      BY <3>1, <3>2 DEF Admits, IInv, TypeOK
    <3>6. \A r \in SIDs : r # s => (r \in Excused' <=> r \in Excused)
      BY <3>1, <3>2, <3>3, <3>4 DEF Excused, Owner, IInv, TypeOK
    <3>7. s \notin Excused
      BY <3>1 DEF Excused
    <3>8. Excused' \subseteq Excused \cup {s} /\ Excused \subseteq Excused'
      BY <3>6, <3>7 DEF Excused
    <3>9. Store!Open(s, u)
      BY <3>1, <3>2, <3>4, <3>5, <3>8 DEF Store!Open
    <3> QED
      BY <3>1, <3>9 DEF Store!Next
  <2>10. ASSUME NEW s \in SIDs, StartLogout(w, s)
         PROVE  Store!Next \/ UNCHANGED Store!vars
    <3>1. CASE mem[s] # None
      BY <2>1, <2>3, <2>10, <3>1 DEF StartLogout
    <3>2. CASE mem[s] = None
      <4>1. issued[s] # {} /\ answered' = answered \cup {s}
            /\ UNCHANGED <<job, issued, mem, closed, up, expired, lost, users>>
        BY <2>10, <3>2 DEF StartLogout
      <4>2. Excused' = Excused \cup {s}
        BY <1>2, <4>1 DEF Excused, Closing
      <4>3. s \in Store!HandedOut
        BY <1>1, <4>1 DEF Store!HandedOut
      <4> QED
        BY <1>3, <4>1, <4>2, <4>3
    <3> QED
      BY <3>1, <3>2
  <2>11. CASE EraseSession(w)
    <3> DEFINE s == job[w].sid
    <3>1. issued[s] # {} /\ s \in SIDs /\ s \in Store!HandedOut /\ up
      BY <1>1, <2>11 DEF EraseSession, IInv, LogoutProgress, JobTyped, Store!HandedOut
    <3>2. CASE mem[s] = None
      <4>1. /\ answered' = answered \cup {s}
            /\ UNCHANGED <<issued, mem, closed, up, expired, lost, users>>
        BY <2>11, <3>2 DEF EraseSession
      <4>2. \A r \in SIDs : Closing(r)' <=> Closing(r)
        BY <2>3, <2>11, <3>2 DEF EraseSession
      <4>3. Excused' = Excused \cup {s}
        BY <1>2, <3>1, <4>1, <4>2 DEF Excused
      <4> QED
        BY <1>3, <3>1, <4>1, <4>3
    <3>3. CASE mem[s] # None
      <4>1. /\ mem' = [mem EXCEPT ![s] = None] /\ job' = [job EXCEPT ![w].pc = "delete"]
            /\ UNCHANGED <<issued, closed, up, expired, lost, users, answered>>
        BY <2>11, <3>3 DEF EraseSession
      <4>2. \A r \in SIDs : Closing(r)' <=> Closing(r) \/ r = s
        BY <2>11, <4>1 DEF Closing, EraseSession, IInv, TypeOK
      <4>3. Excused' = Excused \cup {s}
        BY <1>2, <3>1, <4>1, <4>2 DEF Excused
      <4>4. Admits' = [Admits EXCEPT ![s] = None]
        BY <3>1, <4>1 DEF Admits, IInv, TypeOK
      <4> QED
        BY <1>2, <3>1, <4>1, <4>3, <4>4 DEF Store!Next, Store!Suspend
    <3> QED
      BY <3>2, <3>3
  <2>12. CASE DeleteRow(w)
    <3> DEFINE s == job[w].sid
    <3>1. issued[s] # {} /\ s \in SIDs /\ s \in Store!HandedOut /\ mem[s] = None /\ up
      BY <1>1, <2>12 DEF DeleteRow, IInv, LogoutProgress, JobTyped, Store!HandedOut
    <3>2. /\ answered' = answered \cup {s}
          /\ closed' = closed \cup {s} \/ closed' = closed
          /\ UNCHANGED <<issued, mem, up, expired, lost, users>>
      BY <2>12 DEF DeleteRow
    <3>3. \A r \in SIDs : r # s => (Closing(r)' <=> Closing(r))
      BY <2>12 DEF Closing, DeleteRow, IInv, TypeOK
    <3>4. Excused' = Excused \cup {s}
      BY <1>2, <3>1, <3>2, <3>3 DEF Excused
    <3>5. UNCHANGED <<Owner, Admits>>
      BY <1>2, <3>2 DEF Admits
    <3>6. Admits[s] = None
      BY <3>1 DEF Admits
    <3>7. CASE closed' = closed
      BY <1>3, <3>1, <3>2, <3>4, <3>7
    <3>8. CASE closed' = closed \cup {s}
      BY <3>1, <3>2, <3>4, <3>5, <3>6, <3>8 DEF Store!Next, Store!Close
    <3> QED
      BY <3>2, <3>7, <3>8
  <2>13. ASSUME NEW s \in SIDs, StartRequest(w, s) PROVE UNCHANGED Store!vars
    <3>1. /\ job[w].pc # "delete" /\ job'[w].pc # "delete"
          /\ \A v \in Workers \ {w} : job'[v] = job[v]
      BY <2>13 DEF StartRequest, IInv, TypeOK
    <3> QED
      BY <2>1, <2>a, <2>13, <3>1 DEF StartRequest
  <2>14. CASE ReloadCurrentUser(w)
    BY <2>1, <2>2, <2>3, <2>14 DEF ReloadCurrentUser
  <2>15. CASE ServeRequest(w)
    <3>1. /\ job[w].pc # "delete" /\ job'[w].pc # "delete"
          /\ \A v \in Workers \ {w} : job'[v] = job[v]
      BY <2>15 DEF ServeRequest, IInv, TypeOK
    <3> QED
      BY <2>1, <2>a, <2>15, <3>1 DEF ServeRequest
  <2> QED
    BY <1>4, <2>4, <2>5, <2>6, <2>7, <2>8, <2>9, <2>10, <2>11, <2>12, <2>13, <2>14, <2>15
       DEF Work
<1>5. ASSUME NEW u \in Users, DeleteUser(u) PROVE Store!Next
  <2>1. /\ users' = users \ {u}
        /\ UNCHANGED <<issued, mem, closed, up, expired, lost, answered, job>>
    BY <1>5 DEF DeleteUser
  <2>2. DEFINE S == {s \in SIDs : issued[s] # {} /\ Owner[s] = u}
  <2>3. S \in SUBSET Store!HandedOut
    BY <1>1 DEF Store!HandedOut
  <2>4. Excused' = Excused \cup S
    BY <1>2, <2>1 DEF Excused, Closing
  <2> QED
    BY <1>3, <2>1, <2>3, <2>4
<1>6. ASSUME NEW s \in SIDs, Expire(s) PROVE Store!Next
  <2>1. /\ expired' = expired \cup {s}
        /\ UNCHANGED <<issued, mem, closed, up, users, lost, answered, job>>
    BY <1>6 DEF Expire
  <2>2. DEFINE S == {r \in {s} : issued[r] # {}}
  <2>3. S \in SUBSET Store!HandedOut
    BY <1>1 DEF Store!HandedOut
  <2>4. Excused' = Excused \cup S
    BY <1>2, <2>1 DEF Excused, Closing
  <2> QED
    BY <1>3, <2>1, <2>3, <2>4
<1>7. CASE Crash
  <2>1. /\ up /\ up' = FALSE /\ mem' = NoSessions
        /\ UNCHANGED <<issued, closed, users, expired, lost, answered>>
    BY <1>7 DEF Crash
  <2>2. Admits' = Store!Nobody
    BY <2>1 DEF Admits, NoSessions, Store!Nobody
  <2>3. \A s \in SIDs : ~Closing(s)'
    BY <1>7 DEF Crash, Closing
  <2>4. Excused' \subseteq Excused
    BY <1>2, <2>1, <2>3 DEF Excused
  <2> QED
    BY <1>2, <2>1, <2>2, <2>4 DEF Store!Next, Store!Crash
<1>8. CASE Restart
  <2>1. /\ ~up /\ up' = TRUE
        /\ UNCHANGED <<issued, closed, users, expired, answered, job>>
    BY <1>8 DEF Restart
  <2>2. UNCHANGED Owner
    BY <1>2, <2>1
  <2>3. Excused' \subseteq Store!HandedOut
    BY <1>1, <2>1 DEF Excused, Store!HandedOut
  <2>4. mem' \in [SIDs -> Users \cup {None}]
    BY DEF IInv, TypeOK
  <2>5. Admits' \in [SIDs -> Users \cup {None}]
    BY <2>4 DEF Admits
  <2>6. ASSUME NEW s \in SIDs
        PROVE  /\ Admits'[s] \in {None, Owner[s]}
               /\ s \in closed => Admits'[s] = None
               /\ s \in Store!HandedOut \ (closed \cup Excused') => Admits'[s] = Owner[s]
    <3>1. CASE issued[s] = {}
      BY <1>1, <2>1, <3>1 DEF Admits, Store!HandedOut
    <3>2. CASE issued[s] # {}
      <4>1. Owner[s] \in Users /\ issued[s] = {Owner[s]}
        BY <3>2, OwnerOf
      <4>2. Admits'[s] = mem'[s]
        BY <2>1, <3>2 DEF Admits
      <4>3. mem'[s] \in {None, Owner[s]} /\ (s \in closed => mem'[s] = None)
        BY <2>1, <4>1 DEF IInv, SessionOwner, LogoutFinal
      <4>4. ASSUME s \notin closed, s \notin Excused' PROVE mem'[s] = Owner[s]
        <5>1. s \notin expired /\ s \notin lost' /\ Owner[s] \in users
          BY <2>1, <2>2, <3>2, <4>4 DEF Excused
        <5>2. s \notin lost => db[s] = Owner[s]
          BY <4>1, <4>4, <5>1 DEF IInv, RowsKept
        <5>3. db[s] \in {None, Owner[s]}
          BY <4>1 DEF IInv, SessionOwner
        <5>4. CASE /\ mem' = [r \in SIDs |-> IF r \in expired THEN None ELSE db[r]]
                   /\ lost' = {r \in lost : db[r] = None}
          BY <5>1, <5>2, <5>3, <5>4
        <5>5. CASE lost' = lost \cup {r \in SIDs : db[r] # None}
          BY <4>1, <5>1, <5>2, <5>5
        <5> QED
          BY <1>8, <5>4, <5>5 DEF Restart
      <4> QED
        BY <4>2, <4>3, <4>4
    <3> QED
      BY <3>1, <3>2
  <2> QED
    BY <2>1, <2>2, <2>3, <2>5, <2>6 DEF Store!Next, Store!Restart
<1>9. CASE UNCHANGED vars
  BY <1>2, <1>9 DEF vars, Store!vars, Admits, Excused, Closing
<1> QED
  BY <1>4, <1>5, <1>6, <1>7, <1>8, <1>9 DEF Next, Environment

(* The map and the table keep the promise of SessionStore for every number *)
(* of users, identifiers and workers, for identifiers that never repeat.   *)
THEOREM StoreImplemented == ASSUME UniqueDraws PROVE Spec => ImplementsStore
<1>1. IInv /\ IInv' /\ [Next]_vars => [Store!Next]_(Store!vars)
  BY StoreStep
<1> QED
  BY <1>1, StoreInit, InvHolds, PTL DEF Spec, ImplementsStore, Store!Spec

=============================================================================
