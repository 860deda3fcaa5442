---------------------------- MODULE AccessProof ----------------------------
(***************************************************************************)
(* Proofs about Access for every number of users, groups, endpoints and    *)
(* workers.                                                                *)
(***************************************************************************)
EXTENDS Access, TLAPS

TypeInv == TypeOK /\ JobTyped

(* What the tables grant, and what a statement changes of it, are pairs of *)
(* a user and an endpoint.                                                 *)
LEMMA GrantedPairs == Granted \subseteq Pairs /\ Granted' \subseteq Pairs /\ Changed \subseteq Pairs
  BY DEF Granted, Changed

(* The initial state is typed.                                             *)
LEMMA TypeInit == Init => TypeInv
<1> SUFFICES ASSUME Init PROVE TypeInv
  OBVIOUS
<1> USE DEF Init, Idle, Job, PCs
<1>1. groupOf \in [Users -> groups \cup {None}]
  OBVIOUS
<1>2. touched \in [Workers -> SUBSET Pairs]
  OBVIOUS
<1>3. job \in [Workers -> [pc : PCs, user : Users \cup {None},
                          group : Groups \cup {None},
                          endpoint : Endpoints \cup {None}]]
  OBVIOUS
<1>4. JobTyped
  BY DEF JobTyped
<1> QED
  BY <1>1, <1>2, <1>3, <1>4 DEF TypeInv, TypeOK

(* Every handler, every stage of a load, a request and a restart keep the  *)
(* state typed: no user is in a group that is gone, no permission is of    *)
(* one.                                                                    *)
LEMMA TypeStep == TypeInv /\ [Next]_vars => TypeInv'
<1> SUFFICES ASSUME TypeInv, [Next]_vars PROVE TypeInv'
  OBVIOUS
<1> USE GrantedPairs, NoneAssumption
    DEF TypeInv, TypeOK, JobTyped, At, Begin, Goto, ToReload, Finish, Idle, Job,
        PCs, tables, list, history, Reported, ChangedBy, ChangedSilently
<1>1. ASSUME NEW w \in Workers, Manage(w) \/ Load(w) \/ Request(w) PROVE TypeInv'
  <2>1. ASSUME NEW g \in Groups, VerifyGroupNameNotTaken(w, g) PROVE TypeInv'
    BY <2>1 DEF VerifyGroupNameNotTaken
  <2>2. CASE InsertGroup(w)
    BY <2>2 DEF InsertGroup
  <2>3. CASE GrantAll(w)
    BY <2>3 DEF GrantAll
  <2>4. ASSUME NEW g \in Groups, CountGroups(w, g) PROVE TypeInv'
    BY <2>4 DEF CountGroups
  <2>5. CASE DeleteGroup(w)
    BY <2>5 DEF DeleteGroup
  <2>6. ASSUME NEW g \in Groups, NEW e \in Endpoints, VerifyPermissionNotDuplicate(w, g, e) PROVE TypeInv'
    BY <2>6 DEF VerifyPermissionNotDuplicate
  <2>7. CASE InsertPermission(w)
    BY <2>7 DEF InsertPermission
  <2>8. ASSUME NEW g \in Groups, NEW e \in Endpoints, VerifyPermissionExists(w, g, e) PROVE TypeInv'
    BY <2>8 DEF VerifyPermissionExists
  <2>9. CASE RemovePermission(w)
    BY <2>9 DEF RemovePermission
  <2>10. ASSUME NEW u \in Users, NEW g \in Groups, VerifyUsernameUniqueness(w, u, g) PROVE TypeInv'
    BY <2>10 DEF VerifyUsernameUniqueness
  <2>11. CASE InsertUser(w)
    BY <2>11 DEF InsertUser
  <2>12. ASSUME NEW u \in Users, NEW g \in Groups, VerifyUserUsernameNotTaken(w, u, g) PROVE TypeInv'
    BY <2>12 DEF VerifyUserUsernameNotTaken
  <2>13. CASE UpdateUser(w)
    BY <2>13 DEF UpdateUser
  <2>14. ASSUME NEW c \in Users \cup {None}, NEW u \in Users, CountUsers(w, c, u) PROVE TypeInv'
    BY <2>14 DEF CountUsers
  <2>15. CASE DeleteUser(w)
    BY <2>15 DEF DeleteUser
  <2>16. CASE ChangeOwnName(w)
    BY <2>16 DEF ChangeOwnName
  <2>17. CASE Lock(w)
    BY <2>17 DEF Lock
  <2>18. CASE ClearPermissions(w)
    BY <2>18 DEF ClearPermissions
  <2>19. CASE QueryPermissions(w)
    <3>1. touched' \in [Workers -> SUBSET Pairs]
      BY <2>19 DEF QueryPermissions
    <3>2. rows' \subseteq Pairs /\ silent' \subseteq Pairs /\ blind' \in BOOLEAN
      BY <2>19 DEF QueryPermissions
    <3>3. job' \in [Workers -> [pc : PCs, user : Users \cup {None},
                               group : Groups \cup {None},
                               endpoint : Endpoints \cup {None}]]
      BY <2>19 DEF QueryPermissions
    <3>4. JobTyped'
      BY <2>19 DEF QueryPermissions
    <3> QED
      BY <2>19, <3>1, <3>2, <3>3, <3>4 DEF QueryPermissions
  <2>20. CASE PushPermission(w)
    BY <2>20 DEF PushPermission
  <2>21. CASE Unlock(w)
    BY <2>21 DEF Unlock
  <2>22. ASSUME NEW u \in Users, NEW e \in Endpoints, VerifySession(w, u, e) PROVE TypeInv'
    BY <2>22 DEF VerifySession
  <2>23. CASE VerifyPermissions(w)
    BY <2>23 DEF VerifyPermissions, Found
  <2>24. CASE ServeRequest(w)
    BY <2>24 DEF ServeRequest
  <2> QED
    BY <1>1, <2>1, <2>2, <2>3, <2>4, <2>5, <2>6, <2>7, <2>8, <2>9, <2>10,
       <2>11, <2>12, <2>13, <2>14, <2>15, <2>16, <2>17, <2>18, <2>19, <2>20,
       <2>21, <2>22, <2>23, <2>24 DEF Manage, Load, Request
<1>2. CASE CrashAndRestart
  BY <1>2 DEF CrashAndRestart
<1>3. CASE UNCHANGED vars
  BY <1>3 DEF vars
<1> QED
  BY <1>1, <1>2, <1>3 DEF Next

(* The tables, the list and the jobs stay of the declared shape.           *)
THEOREM TypeCorrect == Spec => []TypeOK
<1>1. TypeInv => TypeOK
  BY DEF TypeInv
<1> QED
  BY <1>1, TypeInit, TypeStep, PTL DEF Spec

-----------------------------------------------------------------------------
(* What is left to load, read as a set of workers that have still to read  *)
(* the tables.                                                             *)
LEMMA UnloadedMember ==
  \A p : p \in Unloaded <=>
      \/ p \in silent
      \/ \E w \in Workers : /\ job[w].pc \in {"lock", "clear", "query"}
                            /\ p \in touched[w]
  BY DEF Unloaded, Reloading

LEMMA UnloadedMemberNext ==
  \A p : p \in Unloaded' <=>
      \/ p \in silent'
      \/ \E w \in Workers : /\ job'[w].pc \in {"lock", "clear", "query"}
                            /\ p \in touched'[w]
  BY DEF Unloaded, Reloading

(* Rights depend on users.id_group and `permissions` alone.                *)
LEMMA GrantedKept == UNCHANGED <<groupOf, granted>> => Granted' = Granted
  BY DEF Granted

(* How far the list may be from the tables, during a load and after it.    *)
Lagging == NoStaleGrant /\ LoadComplete /\ GrantTaken

(* A step that leaves the list, the results and the mutex alone keeps      *)
(* Lagging, if every pair it changes is still to be loaded and it neither  *)
(* enters nor leaves the stages in which the list is empty.                *)
LEMMA LagKept ==
  ASSUME Lagging, UNCHANGED list, UNCHANGED blind,
         Unloaded \cup Changed \subseteq Unloaded',
         \A w \in Workers : job'[w].pc \in {"clear", "query"}
                              <=> job[w].pc \in {"clear", "query"}
  PROVE  Lagging'
<1>1. NoStaleGrant'
  BY DEF Lagging, NoStaleGrant, Changed, list
<1>2. LoadComplete'
  BY DEF Lagging, LoadComplete, Changed, list
<1>3. GrantTaken'
  BY DEF Lagging, GrantTaken, Changed, list
<1> QED
  BY <1>1, <1>2, <1>3 DEF Lagging

(* A statement of a handler that reloads: its worker answers for what it   *)
(* changed.                                                                *)
LEMMA LagOfChange ==
  ASSUME TypeOK, Lagging, NEW w \in Workers,
         job[w].pc \notin {"lock", "clear", "query"},
         UNCHANGED list, ChangedBy(w), ToReload(w)
  PROVE  Lagging'
<1>1. /\ job'[w].pc = "lock"
      /\ \A v \in Workers \ {w} : job'[v] = job[v]
  BY DEF TypeOK, ToReload, Job
<1>2. Unloaded \cup Changed \subseteq Unloaded'
  BY <1>1, UnloadedMember, UnloadedMemberNext DEF ChangedBy
<1>3. \A v \in Workers : job'[v].pc \in {"clear", "query"}
                           <=> job[v].pc \in {"clear", "query"}
  BY <1>1
<1> QED
  BY <1>2, <1>3, LagKept DEF ChangedBy

(* A statement of a handler of groups: the next load answers for it.       *)
LEMMA LagOfSilentChange ==
  ASSUME TypeOK, Lagging, NEW w \in Workers,
         job[w].pc \notin {"lock", "clear", "query"},
         UNCHANGED list, ChangedSilently, Finish(w)
  PROVE  Lagging'
<1>1. /\ job'[w].pc = "idle"
      /\ \A v \in Workers \ {w} : job'[v] = job[v]
  BY DEF TypeOK, Finish, Idle, Job
<1>2. Unloaded \cup Changed \subseteq Unloaded'
  BY <1>1, UnloadedMember, UnloadedMemberNext DEF ChangedSilently
<1>3. \A v \in Workers : job'[v].pc \in {"clear", "query"}
                           <=> job[v].pc \in {"clear", "query"}
  BY <1>1
<1> QED
  BY <1>2, <1>3, LagKept DEF ChangedSilently

(* A statement that took effect, whatever its handler was told of it.      *)
LEMMA LagOfReported ==
  ASSUME TypeOK, Lagging, NEW w \in Workers,
         job[w].pc \notin {"lock", "clear", "query"},
         UNCHANGED list, Reported(w)
  PROVE  Lagging'
<1>1. CASE ChangedBy(w) /\ ToReload(w)
  BY <1>1, LagOfChange
<1>2. CASE ChangedSilently /\ Finish(w)
  BY <1>2, LagOfSilentChange
<1> QED
  BY <1>1, <1>2 DEF Reported

(* A step that changes no right and does not take the mutex.               *)
LEMMA LagOfNoChange ==
  ASSUME Lagging, NEW w \in Workers,
         job[w].pc \notin {"lock", "clear", "query"},
         job'[w].pc \notin {"clear", "query"},
         \A v \in Workers \ {w} : job'[v] = job[v],
         UNCHANGED list, UNCHANGED history, Granted' = Granted
  PROVE  Lagging'
<1>1. Unloaded \cup Changed \subseteq Unloaded'
  BY UnloadedMember, UnloadedMemberNext DEF Changed, history
<1> QED
  BY <1>1, LagKept DEF history

(* One worker loads at a time: the others wait for the mutex.              *)
LEMMA LoaderStep == TypeInv /\ OneLoader /\ [Next]_vars => OneLoader'
<1> SUFFICES ASSUME TypeInv, OneLoader, [Next]_vars PROVE OneLoader'
  OBVIOUS
<1> USE NoneAssumption
    DEF TypeInv, TypeOK, OneLoader, At, Begin, Goto, ToReload, Finish, Idle, Job,
        PCs, Loading, list, Reported
<1>1. ASSUME NEW w \in Workers, Manage(w) \/ Load(w) \/ Request(w) PROVE OneLoader'
  <2>1. ASSUME NEW g \in Groups, VerifyGroupNameNotTaken(w, g) PROVE OneLoader'
    BY <2>1 DEF VerifyGroupNameNotTaken
  <2>2. CASE InsertGroup(w)
    BY <2>2 DEF InsertGroup
  <2>3. CASE GrantAll(w)
    BY <2>3 DEF GrantAll
  <2>4. ASSUME NEW g \in Groups, CountGroups(w, g) PROVE OneLoader'
    BY <2>4 DEF CountGroups
  <2>5. CASE DeleteGroup(w)
    BY <2>5 DEF DeleteGroup
  <2>6. ASSUME NEW g \in Groups, NEW e \in Endpoints, VerifyPermissionNotDuplicate(w, g, e) PROVE OneLoader'
    BY <2>6 DEF VerifyPermissionNotDuplicate
  <2>7. CASE InsertPermission(w)
    BY <2>7 DEF InsertPermission
  <2>8. ASSUME NEW g \in Groups, NEW e \in Endpoints, VerifyPermissionExists(w, g, e) PROVE OneLoader'
    BY <2>8 DEF VerifyPermissionExists
  <2>9. CASE RemovePermission(w)
    BY <2>9 DEF RemovePermission
  <2>10. ASSUME NEW u \in Users, NEW g \in Groups, VerifyUsernameUniqueness(w, u, g) PROVE OneLoader'
    BY <2>10 DEF VerifyUsernameUniqueness
  <2>11. CASE InsertUser(w)
    BY <2>11 DEF InsertUser
  <2>12. ASSUME NEW u \in Users, NEW g \in Groups, VerifyUserUsernameNotTaken(w, u, g) PROVE OneLoader'
    BY <2>12 DEF VerifyUserUsernameNotTaken
  <2>13. CASE UpdateUser(w)
    BY <2>13 DEF UpdateUser
  <2>14. ASSUME NEW c \in Users \cup {None}, NEW u \in Users, CountUsers(w, c, u) PROVE OneLoader'
    BY <2>14 DEF CountUsers
  <2>15. CASE DeleteUser(w)
    BY <2>15 DEF DeleteUser
  <2>16. CASE ChangeOwnName(w)
    BY <2>16 DEF ChangeOwnName
  <2>17. CASE Lock(w)
    BY <2>17 DEF Lock
  <2>18. CASE ClearPermissions(w)
    BY <2>18 DEF ClearPermissions
  <2>19. CASE QueryPermissions(w)
    BY <2>19 DEF QueryPermissions
  <2>20. CASE PushPermission(w)
    BY <2>20 DEF PushPermission
  <2>21. CASE Unlock(w)
    BY <2>21 DEF Unlock
  <2>22. ASSUME NEW u \in Users, NEW e \in Endpoints, VerifySession(w, u, e) PROVE OneLoader'
    BY <2>22 DEF VerifySession
  <2>23. CASE VerifyPermissions(w)
    BY <2>23 DEF VerifyPermissions
  <2>24. CASE ServeRequest(w)
    BY <2>24 DEF ServeRequest
  <2> QED
    BY <1>1, <2>1, <2>2, <2>3, <2>4, <2>5, <2>6, <2>7, <2>8, <2>9, <2>10,
       <2>11, <2>12, <2>13, <2>14, <2>15, <2>16, <2>17, <2>18, <2>19, <2>20,
       <2>21, <2>22, <2>23, <2>24 DEF Manage, Load, Request
<1>2. CASE CrashAndRestart
  BY <1>2 DEF CrashAndRestart
<1>3. CASE UNCHANGED vars
  BY <1>3 DEF vars
<1> QED
  BY <1>1, <1>2, <1>3 DEF Next

(* Every step keeps the list within what the tables say and what is still  *)
(* to be loaded.                                                           *)
LEMMA LagStep == TypeInv /\ OneLoader /\ Lagging /\ [Next]_vars => Lagging'
<1> SUFFICES ASSUME TypeInv, OneLoader, Lagging, [Next]_vars PROVE Lagging'
  OBVIOUS
<1>0. TypeOK /\ TypeOK'
  BY TypeStep DEF TypeInv
<1>1. ASSUME NEW w \in Workers, Manage(w) \/ Load(w) \/ Request(w) PROVE Lagging'
  <2>1. ASSUME NEW g \in Groups, VerifyGroupNameNotTaken(w, g) PROVE Lagging'
    BY <1>0, <2>1, LagOfNoChange, GrantedKept
       DEF VerifyGroupNameNotTaken, At, Begin, Goto, Finish, Idle, Job, tables, TypeOK
  <2>2. CASE InsertGroup(w)
    BY <1>0, <2>2, LagOfNoChange, GrantedKept
       DEF InsertGroup, At, Goto, Finish, Idle, Job, TypeOK
  <2>3. CASE GrantAll(w)
    <3>1. CASE UNCHANGED <<tables, history>>
      BY <1>0, <2>3, <3>1, LagOfNoChange, GrantedKept
         DEF GrantAll, At, Finish, Idle, Job, tables, TypeOK
    <3>2. CASE ChangedSilently
      BY <1>0, <2>3, <3>2, LagOfSilentChange DEF GrantAll, At
    <3> QED
      BY <2>3, <3>1, <3>2 DEF GrantAll
  <2>4. ASSUME NEW g \in Groups, CountGroups(w, g) PROVE Lagging'
    BY <1>0, <2>4, LagOfNoChange, GrantedKept
       DEF CountGroups, At, Begin, Goto, Finish, Idle, Job, tables, TypeOK
  <2>5. CASE DeleteGroup(w)
    <3>1. CASE UNCHANGED <<tables, history>>
      BY <1>0, <2>5, <3>1, LagOfNoChange, GrantedKept
         DEF DeleteGroup, At, Finish, Idle, Job, tables, TypeOK
    <3>2. CASE ChangedSilently
      BY <1>0, <2>5, <3>2, LagOfSilentChange DEF DeleteGroup, At
    <3> QED
      BY <2>5, <3>1, <3>2 DEF DeleteGroup
  <2>6. ASSUME NEW g \in Groups, NEW e \in Endpoints, VerifyPermissionNotDuplicate(w, g, e) PROVE Lagging'
    BY <1>0, <2>6, LagOfNoChange, GrantedKept
       DEF VerifyPermissionNotDuplicate, At, Begin, Goto, Finish, Idle, Job, tables, TypeOK
  <2>7. CASE InsertPermission(w)
    <3>1. CASE Finish(w) /\ UNCHANGED <<tables, history>>
      BY <1>0, <2>7, <3>1, LagOfNoChange, GrantedKept
         DEF InsertPermission, At, Finish, Idle, Job, tables, TypeOK
    <3>2. CASE Reported(w)
      BY <1>0, <2>7, <3>2, LagOfReported DEF InsertPermission, At
    <3> QED
      BY <2>7, <3>1, <3>2 DEF InsertPermission
  <2>8. ASSUME NEW g \in Groups, NEW e \in Endpoints, VerifyPermissionExists(w, g, e) PROVE Lagging'
    BY <1>0, <2>8, LagOfNoChange, GrantedKept
       DEF VerifyPermissionExists, At, Begin, Goto, Finish, Idle, Job, tables, TypeOK
  <2>9. CASE RemovePermission(w)
    <3>1. CASE Finish(w) /\ UNCHANGED <<tables, history>>
      BY <1>0, <2>9, <3>1, LagOfNoChange, GrantedKept
         DEF RemovePermission, At, Finish, Idle, Job, tables, TypeOK
    <3>2. CASE Reported(w)
      BY <1>0, <2>9, <3>2, LagOfReported DEF RemovePermission, At
    <3> QED
      BY <2>9, <3>1, <3>2 DEF RemovePermission
  <2>10. ASSUME NEW u \in Users, NEW g \in Groups, VerifyUsernameUniqueness(w, u, g) PROVE Lagging'
    BY <1>0, <2>10, LagOfNoChange, GrantedKept
       DEF VerifyUsernameUniqueness, At, Begin, Goto, Finish, Idle, Job, tables, TypeOK
  <2>11. CASE InsertUser(w)
    <3>1. CASE Finish(w) /\ UNCHANGED <<tables, history>>
      BY <1>0, <2>11, <3>1, LagOfNoChange, GrantedKept
         DEF InsertUser, At, Finish, Idle, Job, tables, TypeOK
    <3>2. CASE Reported(w)
      BY <1>0, <2>11, <3>2, LagOfReported DEF InsertUser, At
    <3> QED
      BY <2>11, <3>1, <3>2 DEF InsertUser
  <2>12. ASSUME NEW u \in Users, NEW g \in Groups, VerifyUserUsernameNotTaken(w, u, g) PROVE Lagging'
    BY <1>0, <2>12, LagOfNoChange, GrantedKept
       DEF VerifyUserUsernameNotTaken, At, Begin, Goto, Finish, Idle, Job, tables, TypeOK
  <2>13. CASE UpdateUser(w)
    <3>1. CASE Finish(w) /\ UNCHANGED <<tables, history>>
      BY <1>0, <2>13, <3>1, LagOfNoChange, GrantedKept
         DEF UpdateUser, At, Finish, Idle, Job, tables, TypeOK
    <3>2. CASE Reported(w)
      BY <1>0, <2>13, <3>2, LagOfReported DEF UpdateUser, At
    <3> QED
      BY <2>13, <3>1, <3>2 DEF UpdateUser
  <2>14. ASSUME NEW c \in Users \cup {None}, NEW u \in Users, CountUsers(w, c, u) PROVE Lagging'
    BY <1>0, <2>14, LagOfNoChange, GrantedKept
       DEF CountUsers, At, Begin, Goto, Finish, Idle, Job, tables, TypeOK
  <2>15. CASE DeleteUser(w)
    <3>1. CASE Finish(w) /\ UNCHANGED <<tables, history>>
      BY <1>0, <2>15, <3>1, LagOfNoChange, GrantedKept
         DEF DeleteUser, At, Finish, Idle, Job, tables, TypeOK
    <3>2. CASE Reported(w)
      BY <1>0, <2>15, <3>2, LagOfReported DEF DeleteUser, At
    <3> QED
      BY <2>15, <3>1, <3>2 DEF DeleteUser
  <2>16. CASE ChangeOwnName(w)
    BY <1>0, <2>16, LagOfNoChange, GrantedKept
       DEF ChangeOwnName, At, Begin, Goto, Finish, Idle, Job, tables, TypeOK
  <2>17. CASE Lock(w)
    BY <1>0, <2>17, NoneAssumption, GrantedKept, UnloadedMember, UnloadedMemberNext
       DEF Lock, OneLoader, Loading, Lagging, NoStaleGrant, LoadComplete,
           GrantTaken, At, Goto, Finish, Idle, Job, tables, history, TypeOK
  <2>18. CASE ClearPermissions(w)
    BY <1>0, <2>18, NoneAssumption, GrantedKept, UnloadedMember, UnloadedMemberNext
       DEF ClearPermissions, OneLoader, Loading, Lagging, NoStaleGrant, LoadComplete,
           GrantTaken, At, Goto, Finish, Idle, Job, tables, history, TypeOK
  <2>19. CASE QueryPermissions(w)
    <3>1. /\ cache = {} /\ cache' = {} /\ holder = w /\ Granted' = Granted
          /\ \A v \in Workers \ {w} : job'[v] = job[v] /\ touched'[v] = touched[v]
          /\ \A v \in Workers \ {w} : job[v].pc \notin Loading
      BY <1>0, <2>19, GrantedKept
         DEF QueryPermissions, OneLoader, Loading, At, Goto, Finish, tables, TypeOK
    <3>2. CASE rows' = Granted /\ silent' = {} /\ Goto(w, "fill") /\ holder' = holder
      <4>1. holder' # None
        BY <3>1, <3>2, NoneAssumption
      <4> QED
        BY <3>1, <3>2, <4>1 DEF Lagging, NoStaleGrant, LoadComplete, GrantTaken
    <3>3. CASE blind' /\ rows' = rows /\ silent' = silent /\ Finish(w)
      <4>1. rows = {}
        BY <2>19, <3>1 DEF QueryPermissions, At, OneLoader, Loading
      <4> QED
        BY <3>1, <3>3, <4>1 DEF Lagging, NoStaleGrant, LoadComplete, GrantTaken
    <3> QED
      BY <2>19, <3>2, <3>3 DEF QueryPermissions
  <2>20. CASE PushPermission(w)
    BY <1>0, <2>20, NoneAssumption, GrantedKept, UnloadedMember, UnloadedMemberNext
       DEF PushPermission, OneLoader, Loading, Lagging, NoStaleGrant, LoadComplete,
           GrantTaken, At, Goto, Finish, Idle, Job, tables, history, TypeOK
  <2>21. CASE Unlock(w)
    BY <1>0, <2>21, NoneAssumption, GrantedKept, UnloadedMember, UnloadedMemberNext
       DEF Unlock, OneLoader, Loading, Lagging, NoStaleGrant, LoadComplete,
           GrantTaken, At, Goto, Finish, Idle, Job, tables, history, TypeOK
  <2>22. ASSUME NEW u \in Users, NEW e \in Endpoints, VerifySession(w, u, e) PROVE Lagging'
    BY <1>0, <2>22, LagOfNoChange, GrantedKept
       DEF VerifySession, At, Begin, Goto, Finish, Idle, Job, tables, TypeOK
  <2>23. CASE VerifyPermissions(w)
    BY <1>0, <2>23, LagOfNoChange, GrantedKept
       DEF VerifyPermissions, At, Begin, Goto, Finish, Idle, Job, tables, TypeOK
  <2>24. CASE ServeRequest(w)
    BY <1>0, <2>24, LagOfNoChange, GrantedKept
       DEF ServeRequest, At, Begin, Goto, Finish, Idle, Job, tables, TypeOK
  <2> QED
    BY <1>1, <2>1, <2>2, <2>3, <2>4, <2>5, <2>6, <2>7, <2>8, <2>9, <2>10,
       <2>11, <2>12, <2>13, <2>14, <2>15, <2>16, <2>17, <2>18, <2>19, <2>20,
       <2>21, <2>22, <2>23, <2>24 DEF Manage, Load, Request
<1>2. CASE CrashAndRestart
  BY <1>0, <1>2, GrantedPairs, GrantedKept, UnloadedMemberNext
     DEF CrashAndRestart, tables, Lagging, NoStaleGrant, LoadComplete, GrantTaken
<1>3. CASE UNCHANGED vars
  BY <1>3, LagKept, GrantedKept, UnloadedMember, UnloadedMemberNext
     DEF vars, list, Changed
<1> QED
  BY <1>1, <1>2, <1>3 DEF Next

(* Hence the invariant holds always.                                       *)
LEMMA InvHolds == Spec => []IInv
<1>1. Init => IInv
  BY TypeInit, NoneAssumption
     DEF TypeInv, Init, IInv, OneLoader, NoStaleGrant, LoadComplete, GrantTaken,
         Granted, Loading, Idle, Job
<1>2. IInv /\ [Next]_vars => IInv'
  BY TypeStep, LoaderStep, LagStep DEF TypeInv, Lagging, IInv
<1> QED
  BY <1>1, <1>2, PTL DEF Spec

(* A right that was taken away is in the permissions list only until the   *)
(* handler that took it has reloaded (LoadPermissions_ and its mutex).     *)
THEOREM StaleSafe == Spec => []NoStaleGrant
<1>1. IInv => NoStaleGrant
  BY DEF IInv
<1> QED
  BY <1>1, InvHolds, PTL

(* A right that was granted and reloaded is in the list.                   *)
THEOREM TakenSafe == Spec => []GrantTaken
<1>1. IInv => GrantTaken
  BY DEF IInv
<1> QED
  BY <1>1, InvHolds, PTL

(* VerifyPermissions_ lets no request through that the tables forbid, but  *)
(* for a change that has still to be loaded, or that no handler loads.     *)
THEOREM AdmittedSafe == Spec => Admitted
<1>1. IInv /\ [Next]_vars
        => [\A w \in Workers :
              job[w].pc = "check" /\ job'[w].pc = "serve"
                => <<job[w].user, job[w].endpoint>> \in Granted \cup Unloaded]_vars
  <2> SUFFICES ASSUME IInv, [Next]_vars, NEW w \in Workers, vars' # vars,
                      job[w].pc = "check", job'[w].pc = "serve"
               PROVE  <<job[w].user, job[w].endpoint>> \in Granted \cup Unloaded
    OBVIOUS
  <2>1. Found(w)
    <3>1. ASSUME NEW v \in Workers, Manage(v) \/ Load(v) \/ Request(v) PROVE Found(w)
      <4> USE DEF IInv, TypeOK, At, Begin, Goto, ToReload, Finish, Idle, Job
      <4>1. CASE Manage(v)
        <5>1. job'[v].pc # "serve" /\ \A x \in Workers \ {v} : job'[x] = job[x]
          BY <4>1 DEF Manage,
             VerifyGroupNameNotTaken, InsertGroup, GrantAll, CountGroups, DeleteGroup,
             VerifyPermissionNotDuplicate, InsertPermission, VerifyPermissionExists,
             RemovePermission, VerifyUsernameUniqueness, InsertUser,
             VerifyUserUsernameNotTaken, UpdateUser, CountUsers, DeleteUser,
             ChangeOwnName, Reported
        <5> QED
          BY <5>1
      <4>2. CASE Load(v)
        BY <4>2 DEF Load, Lock, ClearPermissions, QueryPermissions, PushPermission,
           Unlock
      <4>3. CASE Request(v)
        BY <4>3 DEF Request, VerifySession, VerifyPermissions, ServeRequest
      <4> QED
        BY <3>1, <4>1, <4>2, <4>3
    <3>2. ~CrashAndRestart
      BY DEF CrashAndRestart, Idle, Job
    <3> QED
      BY <3>1, <3>2 DEF Next
  <2> QED
    BY <2>1 DEF IInv, NoStaleGrant, Found
<1> QED
  BY <1>1, InvHolds, PTL DEF Spec, Admitted

=============================================================================
