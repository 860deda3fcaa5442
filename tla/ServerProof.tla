---------------------------- MODULE ServerProof ----------------------------
(***************************************************************************)
(* Proofs about three of the parts that the handlers of every table share. *)
(*   Schema: --db-init and --db-update, for every number of processes and  *)
(*     any tables, groups, memberships and patches.                        *)
(*   ChangeFeed: the log of changes and the page that follows it, for any  *)
(*     records, threads and polls, and any number of changes.              *)
(*   FormProxy: public forms, for every number of form requests, every     *)
(*     size of the pool and every length of its queue.                     *)
(***************************************************************************)
EXTENDS FormProxy, ChangeFeed, Schema, FiniteSetTheorems, SequenceTheorems, TLAPS

-----------------------------------------------------------------------------
(***************************************************************************)
(* Schema: initialisation and updates.                                     *)
(***************************************************************************)
(* What a step of a process does to the processes.                         *)
Others(r) == \A q \in Runs \ {r} : run'[q] = run[q]

LEMMA RunsFacts ==
  ASSUME SchemaTypeOK, NEW r \in Runs
  PROVE  /\ run[r] \in Running
         /\ run[r].pc \in PCs /\ run[r].at \in Nat \ {0} /\ run[r].id \in Ids \cup {Null}
         /\ run[r].applied \in SUBSET PatchSet /\ run[r].clean \in BOOLEAN
  BY DEF SchemaTypeOK, Running

LEMMA IdleFacts ==
  /\ Idle \in Running /\ Idle.pc = "idle"
  /\ [Idle EXCEPT !.pc = "read"] \in Running /\ [Idle EXCEPT !.pc = "read"].pc = "read"
<1>1. Idle \in Running
  BY DEF Idle, Running, PCs
<1>2. Idle.pc = "idle"
  BY DEF Idle
<1>3. [Idle EXCEPT !.pc = "read"] \in Running
  BY <1>1 DEF Running, PCs
<1>4. [Idle EXCEPT !.pc = "read"].pc = "read"
  BY <1>1 DEF Running
<1> QED
  BY <1>1, <1>2, <1>3, <1>4

LEMMA GotoFacts ==
  ASSUME SchemaTypeOK, NEW r \in Runs, NEW pc \in PCs, Goto(r, pc)
  PROVE  /\ run' \in [Runs -> Running] /\ Others(r)
         /\ run'[r].pc = pc /\ run'[r].at = run[r].at /\ run'[r].id = run[r].id
         /\ run'[r].applied = run[r].applied /\ run'[r].clean = run[r].clean
  BY DEF SchemaTypeOK, Running, Goto, Others

LEMMA EndFacts ==
  ASSUME SchemaTypeOK, NEW r \in Runs, End(r) \/ ToPatches(r)
  PROVE  /\ run' \in [Runs -> Running] /\ Others(r)
         /\ run'[r].pc \in {"idle", "read"}
<1>1. PICK x \in Running : x.pc \in {"idle", "read"} /\ run' = [run EXCEPT ![r] = x]
  BY IdleFacts DEF End, ToPatches
<1> QED
  BY <1>1 DEF SchemaTypeOK, Others

LEMMA NextStatementFacts ==
  ASSUME SchemaTypeOK, NEW r \in Runs, At(r, "ddl"), NEW ok \in BOOLEAN, NextStatement(r, ok)
  PROVE  /\ run' \in [Runs -> Running] /\ Others(r)
         /\ run'[r].at = run[r].at + 1
         /\ run'[r].clean => run[r].clean /\ ok
         /\ IF run[r].at < Len(Statements) THEN run'[r].pc = "ddl"
            ELSE run'[r].pc = "count" /\ run[r].at = Len(Statements)
<1>1. Len(Statements) \in Nat /\ DOMAIN Statements = 1 .. Len(Statements)
  BY SchemaAssumption
<1>2. run[r].at \in 1 .. Len(Statements)
  BY <1>1 DEF SchemaTypeOK, At
<1>3. PICK pc \in PCs : IF run[r].at < Len(Statements) THEN pc = "ddl" ELSE pc = "count"
  BY DEF PCs
<1>4. PICK x : x = [run[r] EXCEPT !.pc = pc, !.at = @ + 1, !.clean = @ /\ ok]
  OBVIOUS
<1>5. run[r] \in Running
  BY DEF SchemaTypeOK
<1>6. run' = [run EXCEPT ![r] = x]
  BY <1>3, <1>4, <1>5 DEF NextStatement, SchemaTypeOK, Running
<1>7. /\ x.pc = pc /\ x.at = run[r].at + 1 /\ x.id = run[r].id
      /\ x.applied = run[r].applied
  BY <1>4, <1>5 DEF Running
<1>8. x.clean = (run[r].clean /\ ok)
  BY <1>4, <1>5, Zenon DEF Running
<1>9. x.clean \in BOOLEAN
  BY <1>8, Zenon
<1>10. x = [pc |-> x.pc, at |-> x.at, id |-> x.id, applied |-> x.applied, clean |-> x.clean]
  BY <1>4, <1>5 DEF Running
<1>11. x \in Running
  BY <1>5, <1>7, <1>9, <1>10 DEF Running
<1>12. run' \in [Runs -> Running] /\ Others(r) /\ run'[r] = x
  BY <1>6, <1>11 DEF SchemaTypeOK, Others
<1>13. run'[r].clean => run[r].clean /\ ok
  BY <1>8, <1>12, Zenon
<1> QED
  BY <1>1, <1>2, <1>3, <1>7, <1>12, <1>13

LEMMA NextPatchFacts ==
  ASSUME SchemaTypeOK, NEW r \in Runs, Patching(r), NextPatch(r)
  PROVE  /\ run' \in [Runs -> Running] /\ Others(r)
         /\ \/ run'[r].pc = "idle"
            \/ /\ run'[r].pc = "apply" /\ run'[r].at = run[r].at + 1
               /\ run'[r].at \in DOMAIN Patches /\ run'[r].applied = run[r].applied
<1>1. Len(Patches) \in Nat /\ DOMAIN Patches = 1 .. Len(Patches)
  BY SchemaAssumption
<1>2. run[r].at \in 1 .. Len(Patches)
  BY <1>1 DEF SchemaTypeOK, Patching
<1>3. CASE run[r].at < Len(Patches)
  <2>1. PICK x : x = [run[r] EXCEPT !.pc = "apply", !.at = run[r].at + 1]
    OBVIOUS
  <2>2. run[r] \in Running
    BY DEF SchemaTypeOK
  <2>3. run' = [run EXCEPT ![r] = x]
    BY <1>3, <2>1, <2>2 DEF NextPatch, SchemaTypeOK, Running
  <2>4. /\ x.pc = "apply" /\ x.at = run[r].at + 1 /\ x.id = run[r].id
        /\ x.applied = run[r].applied /\ x.clean = run[r].clean
    BY <2>1, <2>2 DEF Running
  <2>5. x = [pc |-> x.pc, at |-> x.at, id |-> x.id, applied |-> x.applied, clean |-> x.clean]
    BY <2>1, <2>2 DEF Running
  <2>6. x \in Running
    BY <2>2, <2>4, <2>5 DEF Running, PCs
  <2> QED
    BY <1>1, <1>2, <1>3, <2>3, <2>4, <2>6 DEF SchemaTypeOK, Others
<1>4. CASE ~(run[r].at < Len(Patches))
  <2>1. run' = [run EXCEPT ![r] = Idle]
    BY <1>4 DEF NextPatch, End
  <2> QED
    BY <2>1, IdleFacts DEF SchemaTypeOK, Others
<1> QED
  BY <1>3, <1>4
LEMMA SeedCountFacts ==
  ASSUME SchemaTypeOK, NEW r \in Runs, NEW i \in Ids,
         run' = [run EXCEPT ![r].pc = "schema", ![r].id = i]
  PROVE  /\ run' \in [Runs -> Running] /\ Others(r)
         /\ run'[r].pc = "schema" /\ run'[r].id = i /\ run'[r].clean = run[r].clean
<1>1. PICK x : x = [run[r] EXCEPT !.pc = "schema", !.id = i]
  OBVIOUS
<1>2. run[r] \in Running
  BY DEF SchemaTypeOK
<1>3. run' = [run EXCEPT ![r] = x]
  BY <1>1, <1>2 DEF SchemaTypeOK, Running
<1>4. /\ x.pc = "schema" /\ x.at = run[r].at /\ x.id = i
      /\ x.applied = run[r].applied /\ x.clean = run[r].clean
  BY <1>1, <1>2 DEF Running
<1>5. x = [pc |-> x.pc, at |-> x.at, id |-> x.id, applied |-> x.applied, clean |-> x.clean]
  BY <1>1, <1>2 DEF Running
<1>6. x \in Running
  BY <1>2, <1>4, <1>5 DEF Running, PCs, SeedPCs
<1> QED
  BY <1>3, <1>4, <1>6 DEF SchemaTypeOK, Others

LEMMA ReadPatchesFacts ==
  ASSUME SchemaTypeOK, NEW r \in Runs,
         run' = [run EXCEPT ![r].pc = "apply", ![r].at = 1, ![r].applied = recorded]
  PROVE  /\ run' \in [Runs -> Running] /\ Others(r)
         /\ run'[r].pc = "apply" /\ run'[r].at = 1 /\ run'[r].applied = recorded
<1>1. PICK x : x = [run[r] EXCEPT !.pc = "apply", !.at = 1, !.applied = recorded]
  OBVIOUS
<1>2. run[r] \in Running /\ recorded \in SUBSET PatchSet
  BY DEF SchemaTypeOK
<1>3. run' = [run EXCEPT ![r] = x]
  BY <1>1, <1>2 DEF SchemaTypeOK, Running
<1>4. /\ x.pc = "apply" /\ x.at = 1 /\ x.id = run[r].id
      /\ x.applied = recorded /\ x.clean = run[r].clean
  BY <1>1, <1>2 DEF Running
<1>5. x = [pc |-> x.pc, at |-> x.at, id |-> x.id, applied |-> x.applied, clean |-> x.clean]
  BY <1>1, <1>2 DEF Running
<1>6. x \in Running
  BY <1>2, <1>4, <1>5 DEF Running, PCs
<1> QED
  BY <1>3, <1>4, <1>6 DEF SchemaTypeOK, Others

(* A statement passed over sends its process where the next one is.        *)
LEMMA SkipCases ==
  ASSUME SchemaTypeOK, NEW r \in Runs, Skip(r)
  PROVE  \/ /\ At(r, "ddl") /\ NextStatement(r, FALSE) /\ UNCHANGED torn
            /\ skipped' = skipped \cup {Statements[run[r].at]}
         \/ \E pc \in SeedPCs : /\ run[r].pc \in SeedPCs /\ Goto(r, pc)
                                /\ skipped' = skipped \cup {run[r].pc} /\ UNCHANGED torn
         \/ /\ (ToPatches(r) \/ End(r)) /\ UNCHANGED torn
            /\ skipped' \in {skipped, skipped \cup {run[r].pc}}
         \/ /\ Patching(r) /\ NextPatch(r) /\ UNCHANGED skipped
            /\ torn' \in {torn, torn \cup {Patches[run[r].at]}}
            /\ At(r, "record") => torn' = torn \cup {Patches[run[r].at]}
<1> DEFINE Then == [schema |-> "database", database |-> "user", user |-> "member"]
<1>1. ASSUME run[r].pc \in DOMAIN Then, Goto(r, Then[run[r].pc])
      PROVE  \E pc \in SeedPCs : run[r].pc \in SeedPCs /\ Goto(r, pc)
  <2>1. run[r].pc \in SeedPCs /\ Then[run[r].pc] \in SeedPCs
    BY <1>1 DEF SeedPCs
  <2> QED
    BY <1>1, <2>1
<1> QED
  BY <1>1 DEF Skip, At, Patching

(* A process whose place makes sense keeps the type of `run`.              *)
PlaceOK(x, ids) ==
    /\ x.pc \in SeedPCs => x.id \in ids
    /\ x.pc = "ddl" => x.at \in DOMAIN Statements
    /\ x.pc \in {"apply", "record"} => x.at \in DOMAIN Patches

LEMMA PlacesKept ==
  ASSUME SchemaTypeOK, NEW r \in Runs, run' \in [Runs -> Running], Others(r),
         drawn \subseteq drawn', PlaceOK(run'[r], drawn')
  PROVE  \A q \in Runs : PlaceOK(run'[q], drawn')
  BY DEF SchemaTypeOK, PlaceOK, Others

LEMMA SchemaTypeInit == SchemaInit => SchemaTypeOK
<1> SUFFICES ASSUME SchemaInit PROVE SchemaTypeOK
  OBVIOUS
<1>1. \A r \in Runs : run[r] = Idle /\ Idle \in Running /\ Idle.pc = "idle"
  BY IdleFacts DEF SchemaInit
<1>2. run \in [Runs -> Running]
  BY <1>1 DEF SchemaInit
<1> QED
  BY <1>1, <1>2 DEF SchemaInit, SchemaTypeOK, SeedPCs
(* Every variable keeps its type.                                          *)
LEMMA SchemaTypeStep == SchemaTypeOK /\ [SchemaNext]_schemaVars => SchemaTypeOK'
<1> SUFFICES ASSUME SchemaTypeOK, [SchemaNext]_schemaVars PROVE SchemaTypeOK'
  OBVIOUS
<1> USE DEF seeds, patching
<1>0. /\ there \subseteq Objects /\ drawn \subseteq Ids
      /\ schemas \subseteq drawn /\ databases \subseteq drawn /\ members \subseteq drawn
      /\ account \in [Ids -> Names \cup {Null}] /\ times \in [PatchSet -> Nat]
      /\ recorded \subseteq PatchSet /\ torn \subseteq PatchSet
      /\ skipped \subseteq Objects \cup PCs
      /\ run \in [Runs -> Running]
  BY DEF SchemaTypeOK
<1>R. ASSUME NEW r \in Runs, run' \in [Runs -> Running], Others(r),
             drawn \subseteq drawn', drawn' \subseteq Ids, PlaceOK(run'[r], drawn'),
             there' \subseteq Objects,
             schemas' \subseteq drawn', databases' \subseteq drawn', members' \subseteq drawn',
             account' \in [Ids -> Names \cup {Null}], times' \in [PatchSet -> Nat],
             recorded' \subseteq PatchSet, torn' \subseteq PatchSet,
             skipped' \subseteq Objects \cup PCs
      PROVE  SchemaTypeOK'
  BY <1>R, PlacesKept DEF SchemaTypeOK, PlaceOK
<1>1. Len(Statements) \in Nat \ {0} /\ DOMAIN Statements = 1 .. Len(Statements)
  BY SchemaAssumption DEF Objects
<1>2. \A r \in Runs : At(r, "ddl") => Statements[run[r].at] \in Objects
  BY DEF SchemaTypeOK, At, Objects
<1>3. \A r \in Runs : Patching(r) => Patches[run[r].at] \in PatchSet
  BY DEF SchemaTypeOK, Patching, PatchSet
<1>S. ASSUME NEW r \in Runs, At(r, "ddl"), NEW ok \in BOOLEAN, NextStatement(r, ok),
             UNCHANGED drawn
      PROVE  run' \in [Runs -> Running] /\ Others(r) /\ PlaceOK(run'[r], drawn')
  <2>1. /\ run' \in [Runs -> Running] /\ Others(r)
        /\ run'[r].at = run[r].at + 1
        /\ IF run[r].at < Len(Statements) THEN run'[r].pc = "ddl" ELSE run'[r].pc = "count"
    BY <1>S, NextStatementFacts
  <2> QED
    BY <1>1, <2>1, RunsFacts DEF PlaceOK, SeedPCs
<1>G. ASSUME NEW r \in Runs, NEW pc \in SeedPCs \cup {"record"}, Goto(r, pc), UNCHANGED drawn,
             IF pc \in SeedPCs THEN run[r].id \in drawn ELSE run[r].at \in DOMAIN Patches
      PROVE  run' \in [Runs -> Running] /\ Others(r) /\ PlaceOK(run'[r], drawn')
  BY <1>G, GotoFacts DEF PlaceOK, SeedPCs, PCs
<1>E. ASSUME NEW r \in Runs, End(r) \/ ToPatches(r)
      PROVE  run' \in [Runs -> Running] /\ Others(r) /\ PlaceOK(run'[r], drawn')
  BY <1>E, EndFacts DEF PlaceOK, SeedPCs
<1>N. ASSUME NEW r \in Runs, Patching(r), NextPatch(r)
      PROVE  run' \in [Runs -> Running] /\ Others(r) /\ PlaceOK(run'[r], drawn')
  BY <1>N, NextPatchFacts DEF PlaceOK, SeedPCs
<1>4. ASSUME NEW r \in Runs, StartInit(r) \/ StartUpdate(r) PROVE SchemaTypeOK'
  <2>1. PICK pc \in {"ddl", "patchesTable"} : run' = [run EXCEPT ![r] = [Idle EXCEPT !.pc = pc]]
    BY <1>4 DEF StartInit, StartUpdate
  <2>2. PICK x : x = [Idle EXCEPT !.pc = pc]
    OBVIOUS
  <2>3. x \in Running /\ x.pc = pc /\ x.at = 1
    BY <2>2, IdleFacts DEF Idle, Running, PCs
  <2>4. PlaceOK(x, drawn)
    BY <2>3, <1>1 DEF PlaceOK, SeedPCs
  <2>5. run' \in [Runs -> Running] /\ Others(r) /\ run'[r] = x
    BY <1>0, <2>1, <2>2, <2>3 DEF Others
  <2> QED
    BY <1>0, <1>4, <1>R, <2>4, <2>5 DEF StartInit, StartUpdate
<1>5. ASSUME NEW r \in Runs, Execute(r) PROVE SchemaTypeOK'
  <2>1. At(r, "ddl") /\ NextStatement(r, TRUE) /\ TRUE \in BOOLEAN /\ UNCHANGED drawn
    BY <1>5 DEF Execute
  <2>2. run' \in [Runs -> Running] /\ Others(r) /\ PlaceOK(run'[r], drawn')
    BY <1>S, <2>1
  <2> QED
    BY <1>0, <1>2, <1>5, <1>R, <2>1, <2>2 DEF Execute
<1>6. ASSUME NEW r \in Runs, CreatePatchesTable(r) PROVE SchemaTypeOK'
  BY <1>0, <1>6, <1>E, <1>R, SchemaAssumption DEF CreatePatchesTable
<1>7. ASSUME NEW r \in Runs, NEW i \in Ids, SeedCount(r, i) PROVE SchemaTypeOK'
  <2>1. CASE ToPatches(r) /\ UNCHANGED drawn
    BY <1>0, <1>7, <1>E, <1>R, <2>1 DEF SeedCount
  <2>2. CASE /\ drawn' = drawn \cup {i}
             /\ run' = [run EXCEPT ![r].pc = "schema", ![r].id = i]
    <3>1. /\ run' \in [Runs -> Running] /\ Others(r)
          /\ run'[r].pc = "schema" /\ run'[r].id = i
      BY <2>2, SeedCountFacts
    <3>2. PlaceOK(run'[r], drawn')
      BY <2>2, <3>1 DEF PlaceOK, SeedPCs
    <3> QED
      BY <1>0, <1>7, <1>R, <2>2, <3>1, <3>2 DEF SeedCount
  <2> QED
    BY <1>7, <2>1, <2>2 DEF SeedCount
<1>8. ASSUME NEW r \in Runs, SeedSchema(r) \/ SeedDatabase(r) \/ SeedUser(r)
      PROVE  SchemaTypeOK'
  <2>1. PICK pc \in SeedPCs : Goto(r, pc)
    BY <1>8 DEF SeedSchema, SeedDatabase, SeedUser, SeedPCs
  <2>2. run[r].pc \in SeedPCs /\ UNCHANGED drawn
    BY <1>8 DEF SeedSchema, SeedDatabase, SeedUser, At, SeedPCs
  <2>3. run[r].id \in drawn
    BY <2>2 DEF SchemaTypeOK
  <2>4. run' \in [Runs -> Running] /\ Others(r) /\ PlaceOK(run'[r], drawn')
    BY <1>G, <2>1, <2>2, <2>3
  <2> QED
    BY <1>0, <1>8, <1>R, <2>2, <2>3, <2>4 DEF SeedSchema, SeedDatabase, SeedUser, Names
<1>9. ASSUME NEW r \in Runs, SeedMember(r) PROVE SchemaTypeOK'
  <2>1. run[r].id \in drawn
    BY <1>9 DEF SchemaTypeOK, SeedMember, At, SeedPCs
  <2>2. run' \in [Runs -> Running] /\ Others(r) /\ PlaceOK(run'[r], drawn')
    BY <1>9, <1>E DEF SeedMember
  <2> QED
    BY <1>0, <1>9, <1>R, <2>1, <2>2 DEF SeedMember
<1>10. ASSUME NEW r \in Runs, ReadPatches(r) PROVE SchemaTypeOK'
  <2>1. CASE End(r)
    BY <1>0, <1>10, <1>E, <1>R, <2>1 DEF ReadPatches
  <2>2. CASE /\ Patches # << >>
             /\ run' = [run EXCEPT ![r].pc = "apply", ![r].at = 1, ![r].applied = recorded]
    <3>1. /\ run' \in [Runs -> Running] /\ Others(r)
          /\ run'[r].pc = "apply" /\ run'[r].at = 1
      BY <2>2, ReadPatchesFacts
    <3>2. 1 \in DOMAIN Patches
      BY <2>2, SchemaAssumption
    <3>3. PlaceOK(run'[r], drawn')
      BY <3>1, <3>2 DEF PlaceOK, SeedPCs
    <3> QED
      BY <1>0, <1>10, <1>R, <3>1, <3>3 DEF ReadPatches
  <2> QED
    BY <1>10, <2>1, <2>2 DEF ReadPatches
<1>11. ASSUME NEW r \in Runs, ApplyPatch(r) \/ RecordPatch(r) PROVE SchemaTypeOK'
  <2>1. Patching(r) /\ UNCHANGED <<there, seeds, skipped>>
    BY <1>11 DEF ApplyPatch, RecordPatch, At, Patching
  <2>2. Patches[run[r].at] \in PatchSet /\ run[r].at \in DOMAIN Patches
    BY <1>3, <2>1 DEF SchemaTypeOK, Patching
  <2>3. NextPatch(r) \/ Goto(r, "record")
    BY <1>11 DEF ApplyPatch, RecordPatch
  <2>4. run' \in [Runs -> Running] /\ Others(r) /\ PlaceOK(run'[r], drawn')
    <3>1. CASE NextPatch(r)
      BY <1>N, <2>1, <3>1
    <3>2. CASE Goto(r, "record")
      BY <1>G, <2>1, <2>2, <3>2 DEF SeedPCs
    <3> QED
      BY <2>3, <3>1, <3>2
  <2>5. times' \in [PatchSet -> Nat] /\ recorded' \subseteq PatchSet /\ torn' \subseteq PatchSet
    BY <1>0, <1>11, <2>2 DEF ApplyPatch, RecordPatch, Tear
  <2> QED
    BY <1>0, <1>R, <2>1, <2>4, <2>5
<1>12. ASSUME NEW r \in Runs, Skip(r) PROVE SchemaTypeOK'
  <2>1. UNCHANGED <<there, seeds, times, recorded>>
    BY <1>12 DEF Skip
  <2>2. /\ run' \in [Runs -> Running] /\ Others(r) /\ PlaceOK(run'[r], drawn')
        /\ skipped' \subseteq Objects \cup PCs /\ torn' \subseteq PatchSet
    <3>1. CASE At(r, "ddl") /\ NextStatement(r, FALSE) /\ UNCHANGED torn
               /\ skipped' = skipped \cup {Statements[run[r].at]}
      BY <1>0, <1>2, <1>S, <2>1, <3>1
    <3>2. CASE \E pc \in SeedPCs : /\ run[r].pc \in SeedPCs /\ Goto(r, pc)
                                   /\ skipped' = skipped \cup {run[r].pc} /\ UNCHANGED torn
      <4>1. run[r].id \in drawn
        BY <3>2 DEF SchemaTypeOK
      <4> QED
        BY <1>0, <1>G, <2>1, <3>2, <4>1, RunsFacts
    <3>3. CASE /\ (ToPatches(r) \/ End(r)) /\ UNCHANGED torn
               /\ skipped' \in {skipped, skipped \cup {run[r].pc}}
      BY <1>0, <1>E, <2>1, <3>3, RunsFacts
    <3>4. CASE /\ Patching(r) /\ NextPatch(r) /\ UNCHANGED skipped
               /\ torn' \in {torn, torn \cup {Patches[run[r].at]}}
      BY <1>0, <1>3, <1>N, <2>1, <3>4
    <3> QED
      BY <1>12, <3>1, <3>2, <3>3, <3>4, SkipCases
  <2> QED
    BY <1>0, <1>R, <2>1, <2>2
<1>13. ASSUME NEW r \in Runs, Kill(r) PROVE SchemaTypeOK'
  <2>1. torn' \subseteq PatchSet
    BY <1>0, <1>3, <1>13 DEF Kill, At, Patching
  <2> QED
    BY <1>0, <1>13, <1>E, <1>R, <2>1 DEF Kill
<1>14. ASSUME NEW i \in Ids, NEW n \in Names, Rename(i, n) PROVE SchemaTypeOK'
  BY <1>14 DEF Rename, SchemaTypeOK
<1>15. CASE UNCHANGED schemaVars
  BY <1>15 DEF schemaVars, SchemaTypeOK
<1> QED
  BY <1>4, <1>5, <1>6, <1>7, <1>8, <1>9, <1>10, <1>11, <1>12, <1>13, <1>14, <1>15
     DEF SchemaNext, Seed, Patch

(* Every variable of Schema keeps its type.                                *)
THEOREM SchemaTypeCorrect == SchemaSpec => []SchemaTypeOK
  BY SchemaTypeInit, SchemaTypeStep, PTL DEF SchemaSpec
-----------------------------------------------------------------------------
(* What has been inserted, recorded or noted stays.                        *)
LEMMA SchemaGrows ==
  ASSUME [SchemaNext]_schemaVars
  PROVE  /\ there \subseteq there' /\ drawn \subseteq drawn' /\ members \subseteq members'
         /\ recorded \subseteq recorded' /\ torn \subseteq torn' /\ skipped \subseteq skipped'
<1> USE DEF seeds, patching
<1>1. ASSUME NEW r \in Runs,
             StartInit(r) \/ StartUpdate(r) \/ Execute(r) \/ CreatePatchesTable(r)
      PROVE  there \subseteq there' /\ UNCHANGED <<drawn, members, recorded, torn, skipped>>
  BY <1>1 DEF StartInit, StartUpdate, Execute, CreatePatchesTable
<1>2. ASSUME NEW r \in Runs, Seed(r)
      PROVE  /\ drawn \subseteq drawn' /\ members \subseteq members'
             /\ UNCHANGED <<there, recorded, torn, skipped>>
  BY <1>2 DEF Seed, SeedCount, SeedSchema, SeedDatabase, SeedUser, SeedMember
<1>3. ASSUME NEW r \in Runs, ReadPatches(r) \/ ApplyPatch(r) \/ RecordPatch(r)
      PROVE  /\ recorded \subseteq recorded' /\ torn \subseteq torn'
             /\ UNCHANGED <<there, drawn, members, skipped>>
  BY <1>3 DEF ReadPatches, ApplyPatch, RecordPatch, Tear
<1>4. ASSUME NEW r \in Runs, Skip(r) \/ Kill(r)
      PROVE  /\ skipped \subseteq skipped' /\ torn \subseteq torn'
             /\ UNCHANGED <<there, drawn, members, recorded>>
  BY <1>4 DEF Skip, Kill
<1>5. ASSUME NEW i \in Ids, NEW n \in Names, Rename(i, n)
      PROVE  UNCHANGED <<there, drawn, members, recorded, torn, skipped>>
  BY <1>5 DEF Rename
<1>6. CASE UNCHANGED schemaVars
  BY <1>6 DEF schemaVars
<1> QED
  BY <1>1, <1>2, <1>3, <1>4, <1>5, <1>6 DEF SchemaNext, Patch

(* A step of a process changes nothing of the others.                      *)
Step(r) == \/ StartInit(r) \/ StartUpdate(r) \/ Execute(r)
           \/ Seed(r) \/ Patch(r) \/ Skip(r) \/ Kill(r)

LEMMA OneProcess ==
  ASSUME SchemaTypeOK, NEW r \in Runs, Step(r)
  PROVE  Others(r)
<1>1. ASSUME NEW x, run' = [run EXCEPT ![r] = x] PROVE Others(r)
  BY <1>1 DEF SchemaTypeOK, Others
<1>2. ASSUME End(r) \/ ToPatches(r) PROVE Others(r)
  BY <1>1, <1>2 DEF End, ToPatches
<1>3. ASSUME NEW pc, Goto(r, pc) PROVE Others(r)
  BY <1>3 DEF SchemaTypeOK, Others, Goto
<1>4. ASSUME At(r, "ddl"), NEW ok \in BOOLEAN, NextStatement(r, ok) PROVE Others(r)
  BY <1>4, NextStatementFacts
<1>5. ASSUME Patching(r), NextPatch(r) PROVE Others(r)
  BY <1>5, NextPatchFacts
<1>6. CASE StartInit(r) \/ StartUpdate(r)
  BY <1>1, <1>6 DEF StartInit, StartUpdate
<1>7. CASE Execute(r)
  BY <1>4, <1>7 DEF Execute
<1>8. CASE Seed(r)
  <2>1. ASSUME NEW i \in Ids, SeedCount(r, i) PROVE Others(r)
    BY <1>2, <2>1, SeedCountFacts DEF SeedCount
  <2> QED
    BY <1>2, <1>3, <1>8, <2>1 DEF Seed, SeedSchema, SeedDatabase, SeedUser, SeedMember
<1>9. CASE Patch(r)
  <2>1. CASE CreatePatchesTable(r) \/ ReadPatches(r)
    BY <1>2, <2>1, ReadPatchesFacts DEF CreatePatchesTable, ReadPatches
  <2>2. CASE ApplyPatch(r) \/ RecordPatch(r)
    BY <1>3, <1>5, <2>2 DEF ApplyPatch, RecordPatch, At, Patching
  <2> QED
    BY <1>9, <2>1, <2>2 DEF Patch
<1>10. CASE Skip(r)
  BY <1>2, <1>3, <1>4, <1>5, <1>10, SkipCases
<1>11. CASE Kill(r)
  BY <1>2, <1>11 DEF Kill
<1> QED
  BY <1>6, <1>7, <1>8, <1>9, <1>10, <1>11 DEF Step

(* A process comes past a statement by executing it, or by skipping it,    *)
(* and is clean no longer in the second case.                              *)
LEMMA BehindStep ==
  ASSUME SchemaTypeOK, [SchemaNext]_schemaVars,
         NEW q \in Runs, NEW k \in Behind(q)'
  PROVE  /\ k \in DOMAIN Statements
         /\ \/ k \in Behind(q) /\ (run'[q].clean => run[q].clean)
            \/ At(q, "ddl") /\ k = run[q].at /\ Execute(q) /\ (run'[q].clean => run[q].clean)
            \/ At(q, "ddl") /\ k = run[q].at /\ Skip(q) /\ ~run'[q].clean
<1>0. Len(Statements) \in Nat /\ DOMAIN Statements = 1 .. Len(Statements)
  BY SchemaAssumption
<1>1. /\ SchemaTypeOK' /\ run \in [Runs -> Running] /\ run' \in [Runs -> Running]
  BY SchemaTypeStep DEF SchemaTypeOK
<1>2. k \in DOMAIN Statements
  <2>1. CASE At(q, "ddl")'
    <3>1. run'[q].at \in 1 .. Len(Statements)
      BY <1>0, <1>1, <2>1 DEF SchemaTypeOK, At
    <3> QED
      BY <1>0, <2>1, <3>1 DEF Behind
  <2> QED
    BY <2>1 DEF Behind
<1>K. ASSUME run'[q] = run[q]
      PROVE  k \in Behind(q) /\ (run'[q].clean => run[q].clean)
  BY <1>K DEF Behind, At
<1>O. ASSUME NEW r \in Runs, r # q, Others(r)
      PROVE  k \in Behind(q) /\ (run'[q].clean => run[q].clean)
  <2>1. run'[q] = run[q]
    BY <1>O DEF Others
  <2> QED
    BY <1>K, <2>1
<1>E. ASSUME run'[q].pc \in {"idle", "read", "apply", "record", "patchesTable"} PROVE FALSE
  BY <1>E DEF Behind, At, SeedPCs
<1>G. ASSUME NEW pc \in SeedPCs, Goto(q, pc), run[q].pc \in SeedPCs \cup {"count"}
      PROVE  k \in Behind(q) /\ (run'[q].clean => run[q].clean)
  BY <1>G, <1>2, GotoFacts DEF Behind, At, SeedPCs, PCs
<1>S. ASSUME At(q, "ddl"), NEW ok \in BOOLEAN, NextStatement(q, ok)
      PROVE  k \in Behind(q) \/ k = run[q].at
  <2>1. run[q].at \in 1 .. Len(Statements)
    BY <1>0, <1>S DEF SchemaTypeOK, At
  <2>2. /\ run'[q].at = run[q].at + 1
        /\ IF run[q].at < Len(Statements) THEN run'[q].pc = "ddl"
           ELSE run'[q].pc = "count" /\ run[q].at = Len(Statements)
    BY <1>S, NextStatementFacts
  <2>3. CASE run[q].at < Len(Statements)
    BY <1>0, <1>S, <2>1, <2>2, <2>3 DEF Behind, At
  <2>4. CASE ~(run[q].at < Len(Statements))
    BY <1>0, <1>S, <1>2, <2>1, <2>2, <2>4 DEF Behind, At
  <2> QED
    BY <2>3, <2>4
<1>3. ASSUME NEW r \in Runs, Step(r), r # q
      PROVE  k \in Behind(q) /\ (run'[q].clean => run[q].clean)
  BY <1>3, <1>O, OneProcess
<1>4. CASE StartInit(q)
  <2>1. run'[q] = [Idle EXCEPT !.pc = "ddl"]
    BY <1>1, <1>4 DEF StartInit
  <2>2. run'[q].pc = "ddl" /\ run'[q].at = 1
    BY <2>1 DEF Idle
  <2> QED
    BY <2>2 DEF Behind, At
<1>5. CASE StartUpdate(q)
  <2>1. run'[q] = [Idle EXCEPT !.pc = "patchesTable"]
    BY <1>1, <1>5 DEF StartUpdate
  <2>2. run'[q].pc = "patchesTable"
    BY <2>1 DEF Idle
  <2> QED
    BY <1>E, <2>2
<1>6. CASE Execute(q)
  <2>1. At(q, "ddl") /\ NextStatement(q, TRUE) /\ TRUE \in BOOLEAN
    BY <1>6 DEF Execute
  <2> QED
    BY <1>2, <1>6, <1>S, <2>1, NextStatementFacts
<1>7. CASE Seed(q)
  <2>1. ASSUME NEW i \in Ids, SeedCount(q, i)
        PROVE  k \in Behind(q) /\ (run'[q].clean => run[q].clean)
    <3>1. CASE ToPatches(q)
      BY <1>E, <3>1, EndFacts
    <3>2. CASE run' = [run EXCEPT ![q].pc = "schema", ![q].id = i]
      <4>1. run[q].pc = "count" /\ run'[q].pc = "schema" /\ run'[q].clean = run[q].clean
        BY <2>1, <3>2, SeedCountFacts DEF SeedCount, At
      <4> QED
        BY <1>2, <4>1 DEF Behind, At
    <3> QED
      BY <2>1, <3>1, <3>2 DEF SeedCount
  <2>2. CASE SeedSchema(q) \/ SeedDatabase(q) \/ SeedUser(q)
    <3>1. PICK pc \in SeedPCs : Goto(q, pc)
      BY <2>2 DEF SeedSchema, SeedDatabase, SeedUser, SeedPCs
    <3>2. run[q].pc \in SeedPCs
      BY <2>2 DEF SeedSchema, SeedDatabase, SeedUser, At, SeedPCs
    <3> QED
      BY <1>2, <1>G, <3>1, <3>2
  <2>3. CASE SeedMember(q)
    BY <1>E, <2>3, EndFacts DEF SeedMember
  <2> QED
    BY <1>2, <1>7, <2>1, <2>2, <2>3 DEF Seed
<1>8. CASE Patch(q)
  <2>1. CASE CreatePatchesTable(q)
    BY <1>E, <2>1, EndFacts DEF CreatePatchesTable
  <2>2. CASE ReadPatches(q)
    BY <1>E, <2>2, EndFacts, ReadPatchesFacts DEF ReadPatches
  <2>3. CASE ApplyPatch(q) \/ RecordPatch(q)
    <3>1. Patching(q) /\ (NextPatch(q) \/ (Goto(q, "record") /\ "record" \in PCs))
      BY <2>3 DEF ApplyPatch, RecordPatch, At, Patching, PCs
    <3> QED
      BY <1>E, <3>1, NextPatchFacts, GotoFacts
  <2> QED
    BY <1>8, <2>1, <2>2, <2>3 DEF Patch
<1>9. CASE Skip(q)
  <2>1. CASE At(q, "ddl") /\ NextStatement(q, FALSE)
    <3>1. ~run'[q].clean
      BY <2>1, NextStatementFacts
    <3> QED
      BY <1>2, <1>9, <1>S, <2>1, <3>1
  <2>2. CASE \E pc \in SeedPCs : run[q].pc \in SeedPCs /\ Goto(q, pc)
    BY <1>2, <1>G, <2>2
  <2>3. CASE ToPatches(q) \/ End(q)
    BY <1>E, <2>3, EndFacts
  <2>4. CASE Patching(q) /\ NextPatch(q)
    BY <1>E, <2>4, NextPatchFacts
  <2> QED
    BY <1>9, <2>1, <2>2, <2>3, <2>4, SkipCases
<1>10. CASE Kill(q)
  BY <1>E, <1>10, EndFacts DEF Kill
<1>11. ASSUME NEW i \in Ids, NEW n \in Names, Rename(i, n)
       PROVE  k \in Behind(q) /\ (run'[q].clean => run[q].clean)
  BY <1>K, <1>11 DEF Rename
<1>12. CASE UNCHANGED schemaVars
  BY <1>2, <1>K, <1>12 DEF schemaVars
<1> QED
  <2>1. CASE \E r \in Runs : Step(r)
    <3>1. CASE \E r \in Runs : Step(r) /\ r # q
      BY <1>2, <1>3, <3>1
    <3>2. CASE Step(q)
      BY <3>2, <1>4, <1>5, <1>6, <1>7, <1>8, <1>9, <1>10 DEF Step
    <3> QED
      BY <2>1, <3>1, <3>2
  <2> QED
    BY <1>2, <1>11, <1>12, <2>1 DEF SchemaNext, Step
-----------------------------------------------------------------------------
(* What a key of databases_users refers to are tables before it in the     *)
(* lists.                                                                  *)
LEMMA KeyTables ==
  ASSUME NEW key \in Keys, NEW o \in Needs[key]
  PROVE  /\ o \in Objects /\ Needs[o] = {} /\ o \notin Malformed
         /\ key \in Objects /\ key \notin Malformed
<1>1. PICK k \in DOMAIN Statements : Statements[k] = key
  BY SchemaAssumption DEF Objects
<1>2. o \in {Statements[n] : n \in {l \in DOMAIN Statements :
                                        l < k /\ Needs[Statements[l]] = {}}}
  BY <1>1, SchemaAssumption
<1>3. o \in Objects /\ Needs[o] = {}
  BY <1>2 DEF Objects
<1> QED
  BY <1>3, SchemaAssumption

(* The first two tables a statement needs come before it.                  *)
LEMMA NeededBefore ==
  ASSUME NEW k \in DOMAIN Statements, NEW o \in Needs[Statements[k]]
  PROVE  \E n \in DOMAIN Statements : n < k /\ Statements[n] = o /\ Needs[o] = {}
<1>1. o \in {Statements[n] : n \in {l \in DOMAIN Statements :
                                        l < k /\ Needs[Statements[l]] = {}}}
  BY SchemaAssumption
<1> QED
  BY <1>1

(* A row of databases_users without its user or its database stays, and no *)
(* step makes possible what was not.                                       *)
LEMMA DanglingStays ==
  ASSUME SchemaTypeOK, SeedsApart, [SchemaNext]_schemaVars, NEW key \in Keys
  PROVE  Dangling(key) \subseteq Dangling(key)'
<1> SUFFICES ASSUME NEW i \in Dangling(key) PROVE i \in Dangling(key)'
  OBVIOUS
<1> USE DEF seeds, patching
<1>1. i \in members /\ i \in members' /\ ~Refers(key, i) /\ i \in Ids
  BY SchemaGrows DEF Dangling, SchemaTypeOK
<1>D. ASSUME i \notin databases PROVE i \notin databases'
  <2>1. ASSUME NEW r \in Runs, SeedDatabase(r) PROVE i \notin databases'
    <3>1. run[r].id # i
      BY <1>1, <2>1 DEF SeedsApart, Seeding, SeedDatabase, At, SeedPCs
    <3> QED
      BY <1>D, <2>1, <3>1 DEF SeedDatabase
  <2>2. ASSUME NEW r \in Runs, Step(r), ~SeedDatabase(r) PROVE UNCHANGED databases
    BY <2>2 DEF Step, Seed, Patch, StartInit, StartUpdate, Execute, CreatePatchesTable,
                SeedCount, SeedSchema, SeedUser, SeedMember, ReadPatches, ApplyPatch,
                RecordPatch, Skip, Kill
  <2>3. ASSUME NEW j \in Ids, NEW n \in Names, Rename(j, n) PROVE UNCHANGED databases
    BY <2>3 DEF Rename
  <2> QED
    BY <1>D, <2>1, <2>2, <2>3 DEF SchemaNext, Step, schemaVars
<1>2. ASSUME NEW r \in Runs, SeedUser(r) PROVE account'[i] = account[i]
  <2>1. run[r].id # i
    BY <1>1, <1>2 DEF SeedsApart, Seeding, SeedUser, At, SeedPCs
  <2> QED
    BY <1>1, <1>2, <2>1 DEF SeedUser, SchemaTypeOK
<1>3. ASSUME account[i] = Null, NEW j \in Ids, NEW n \in Names, Rename(j, n)
      PROVE  account'[i] = account[i]
  BY <1>1, <1>3 DEF Rename, SchemaTypeOK
<1>4. ASSUME NEW r \in Runs, Step(r), ~SeedUser(r) PROVE UNCHANGED account
  BY <1>4 DEF Step, Seed, Patch, StartInit, StartUpdate, Execute, CreatePatchesTable,
              SeedCount, SeedSchema, SeedDatabase, SeedMember, ReadPatches, ApplyPatch,
              RecordPatch, Skip, Kill
<1>5. ASSUME account[i] = Null PROVE account'[i] = account[i]
  BY <1>2, <1>3, <1>4, <1>5 DEF SchemaNext, Step, schemaVars
<1> QED
  BY <1>1, <1>5, <1>D DEF Dangling, Refers

LEMMA PossibleBefore ==
  ASSUME SchemaTypeOK, SeedsApart, [SchemaNext]_schemaVars, NEW o, Possible(o)'
  PROVE  Possible(o)
<1>1. ASSUME o \in Keys PROVE Dangling(o) = {}
  <2>1. Dangling(o)' = {}
    BY <1>1 DEF Possible
  <2> QED
    BY <1>1, <2>1, DanglingStays
<1> QED
  BY <1>1 DEF Possible

(* A run that skips nothing finds there what it needs.                     *)
LEMMA BehindThereStep ==
  ASSUME SchemaTypeOK, SeedsApart, BehindIsThere, [SchemaNext]_schemaVars
  PROVE  BehindIsThere'
<1> SUFFICES ASSUME NEW r \in Runs, NEW k \in Behind(r)', run'[r].clean,
                    Possible(Statements[k])'
             PROVE  Statements[k] \in there'
  BY DEF BehindIsThere
<1>1. Possible(Statements[k]) /\ k \in DOMAIN Statements
  BY BehindStep, PossibleBefore
<1>2. CASE k \in Behind(r) /\ run[r].clean
  BY <1>1, <1>2, SchemaGrows DEF BehindIsThere
<1>3. CASE At(r, "ddl") /\ k = run[r].at /\ Execute(r) /\ run[r].clean
  <2>1. ASSUME NEW o \in Needs[Statements[k]] PROVE o \in there
    <3>1. PICK n \in DOMAIN Statements : n < k /\ Statements[n] = o /\ Needs[o] = {}
      BY <1>1, NeededBefore
    <3>2. n \in Behind(r)
      BY <1>3, <3>1, SchemaAssumption, RunsFacts DEF Behind
    <3>3. Possible(o)
      <4>1. o \notin Malformed
        BY <1>1, <2>1 DEF Possible
      <4>2. o \notin Keys
        BY <3>1, SchemaAssumption DEF Keys
      <4> QED
        BY <3>1, <4>1, <4>2 DEF Possible
    <3> QED
      BY <1>3, <3>1, <3>2, <3>3 DEF BehindIsThere
  <2>2. Accepted(Statements[k])
    BY <1>1, <2>1 DEF Accepted, Possible
  <2> QED
    BY <1>3, <2>2 DEF Execute
<1> QED
  BY <1>2, <1>3, BehindStep

LEMMA KeyBehindStep ==
  ASSUME SchemaTypeOK, KeyBehindIsThere, DanglingOnlyAfterFailure, [SchemaNext]_schemaVars
  PROVE  KeyBehindIsThere'
<1> SUFFICES ASSUME NEW r \in Runs, NEW key \in Keys, NEW k \in Behind(r)',
                    Statements[k] \in {key} \cup Needs[key]
             PROVE  Statements[k] \in there' \/ KeySkipped(key)'
  BY DEF KeyBehindIsThere
<1>1. there \subseteq there' /\ skipped \subseteq skipped' /\ k \in DOMAIN Statements
  BY SchemaGrows, BehindStep
<1>2. CASE k \in Behind(r)
  BY <1>1, <1>2 DEF KeyBehindIsThere, KeySkipped
<1>3. CASE At(r, "ddl") /\ k = run[r].at /\ Execute(r)
  <2> SUFFICES ASSUME ~KeySkipped(key)
               PROVE  Statements[k] \in there'
    BY <1>1 DEF KeySkipped
  <2>1. ASSUME Statements[k] \in Keys PROVE Dangling(Statements[k]) = {}
    <3>1. Statements[k] = key
      BY <2>1, KeyTables, SchemaAssumption DEF Keys
    <3> QED
      BY <3>1 DEF DanglingOnlyAfterFailure
  <2>2. ASSUME NEW o \in Needs[Statements[k]] PROVE o \in there
    <3>1. PICK n \in DOMAIN Statements : n < k /\ Statements[n] = o
      BY <1>1, <2>2, NeededBefore
    <3>2. n \in Behind(r)
      BY <1>3, <3>1, SchemaAssumption, RunsFacts DEF Behind
    <3>3. o \in Needs[key]
      BY <2>2, KeyTables
    <3> QED
      BY <3>1, <3>2, <3>3 DEF KeyBehindIsThere
  <2>3. Statements[k] \notin Malformed
    BY KeyTables, SchemaAssumption
  <2>4. Accepted(Statements[k])
    BY <2>1, <2>2, <2>3 DEF Accepted
  <2> QED
    BY <1>3, <2>4 DEF Execute
<1>4. CASE At(r, "ddl") /\ k = run[r].at /\ Skip(r)
  <2>1. skipped' = skipped \cup {Statements[k]}
    BY <1>4 DEF Skip, At, NextStatement, SeedPCs
  <2> QED
    BY <2>1 DEF KeySkipped
<1> QED
  BY <1>2, <1>3, <1>4, BehindStep

(* A membership is inserted without its user or its database only while    *)
(* the key is not there, which the run has behind it.                      *)
LEMMA DanglingStep ==
  ASSUME SchemaTypeOK, KeyBehindIsThere, DanglingOnlyAfterFailure, [SchemaNext]_schemaVars
  PROVE  DanglingOnlyAfterFailure'
<1> SUFFICES ASSUME NEW key \in Keys, Dangling(key)' # {}
             PROVE  KeySkipped(key)
  BY SchemaGrows DEF DanglingOnlyAfterFailure, KeySkipped
<1> USE DEF seeds, patching
<1>1. CASE Dangling(key) # {}
  BY <1>1 DEF DanglingOnlyAfterFailure
<1>2. CASE Dangling(key) = {}
  <2>0. ASSUME members' = members, databases \subseteq databases',
               \A i \in Ids : account'[i] = Null => account[i] = Null
        PROVE  FALSE
    <3>1. PICK i \in members : ~Refers(key, i)'
      BY <2>0 DEF Dangling
    <3>2. ~Refers(key, i) /\ i \in Ids
      BY <2>0, <3>1 DEF Refers, SchemaTypeOK
    <3> QED
      BY <1>2, <3>2 DEF Dangling
  <2>1. ASSUME NEW r \in Runs, SeedUser(r) PROVE FALSE
    BY <2>0, <2>1, SchemaAssumption DEF SeedUser, SchemaTypeOK, Names
  <2>2. ASSUME NEW i \in Ids, NEW n \in Names, Rename(i, n) PROVE FALSE
    BY <2>0, <2>2, SchemaAssumption DEF Rename, SchemaTypeOK
  <2>3. ASSUME NEW r \in Runs, Step(r), ~SeedUser(r), ~SeedMember(r) PROVE FALSE
    <3>1. UNCHANGED <<account, members>> /\ databases \subseteq databases'
      BY <2>3 DEF Step, Seed, Patch, StartInit, StartUpdate, Execute, CreatePatchesTable,
                  SeedCount, SeedSchema, SeedDatabase, ReadPatches, ApplyPatch,
                  RecordPatch, Skip, Kill
    <3> QED
      BY <2>0, <3>1
  <2>4. ASSUME NEW r \in Runs, SeedMember(r)
        PROVE  KeySkipped(key)
    <3>1. key \notin there
      <4>1. PICK i \in members' : ~Refers(key, i)'
        BY DEF Dangling
      <4>2. ~Refers(key, i)
        BY <2>4, <4>1 DEF SeedMember, Refers
      <4>3. i = run[r].id /\ i \notin members
        BY <1>2, <2>4, <4>1, <4>2 DEF SeedMember, Dangling
      <4> QED
        BY <2>4, <4>1, <4>2, <4>3 DEF SeedMember
    <3>2. PICK k \in DOMAIN Statements : Statements[k] = key
      BY SchemaAssumption DEF Objects
    <3>3. k \in Behind(r)
      BY <2>4, <3>2 DEF SeedMember, At, Behind, SeedPCs
    <3> QED
      BY <3>1, <3>2, <3>3 DEF KeyBehindIsThere
  <2>5. CASE UNCHANGED schemaVars
    BY <2>0, <2>5 DEF schemaVars
  <2> QED
    BY <2>1, <2>2, <2>3, <2>4, <2>5 DEF SchemaNext, Step
<1> QED
  BY <1>1, <1>2
(* A seed draws an identifier no other has.                                *)
LEMMA SeedsApartStep ==
  ASSUME SchemaTypeOK, SeedsApart, [SchemaNext]_schemaVars
  PROVE  SeedsApart'
<1> USE DEF seeds, patching
<1>0. /\ members \subseteq drawn
      /\ \A q \in Runs : Seeding(q) => run[q].id \in drawn
  BY DEF SchemaTypeOK, Seeding
<1>1. ASSUME NEW r \in Runs, Others(r), UNCHANGED members,
             Seeding(r)' => Seeding(r) /\ run'[r].id = run[r].id
      PROVE  SeedsApart'
  BY <1>1 DEF SeedsApart, Seeding, Others
<1>2. ASSUME NEW r \in Runs, run'[r].pc \notin SeedPCs, Others(r), UNCHANGED members
      PROVE  SeedsApart'
  BY <1>1, <1>2 DEF Seeding
<1>3. ASSUME NEW r \in Runs, Goto(r, "database") \/ Goto(r, "user") \/ Goto(r, "member"),
             Seeding(r), UNCHANGED members
      PROVE  SeedsApart'
  BY <1>1, <1>3, GotoFacts DEF PCs, SeedPCs
<1>4. ASSUME NEW r \in Runs, Seed(r) PROVE SeedsApart'
  <2>1. ASSUME NEW i \in Ids, SeedCount(r, i) PROVE SeedsApart'
    <3>1. CASE ToPatches(r)
      BY <1>2, <2>1, <3>1, EndFacts DEF SeedCount, SeedPCs
    <3>2. CASE i \notin drawn /\ run' = [run EXCEPT ![r].pc = "schema", ![r].id = i]
      <4>1. Others(r) /\ run'[r].id = i
        BY <3>2, SeedCountFacts
      <4>2. UNCHANGED members
        BY <2>1 DEF SeedCount
      <4>3. \A q \in Runs \ {r} : /\ Seeding(q)' <=> Seeding(q)
                                  /\ run'[q].id = run[q].id
                                  /\ Seeding(q) => run[q].id # i
        BY <1>0, <3>2, <4>1 DEF Seeding, Others
      <4>4. i \notin members
        BY <1>0, <3>2
      <4> HIDE DEF Seeding
      <4> QED
        BY <4>1, <4>2, <4>3, <4>4 DEF SeedsApart
    <3> QED
      BY <2>1, <3>1, <3>2 DEF SeedCount
  <2>2. CASE SeedSchema(r) \/ SeedDatabase(r) \/ SeedUser(r)
    BY <1>3, <2>2 DEF SeedSchema, SeedDatabase, SeedUser, At, Seeding, SeedPCs
  <2>3. CASE SeedMember(r)
    <3>1. Seeding(r) /\ members' \subseteq members \cup {run[r].id}
      BY <2>3 DEF SeedMember, At, Seeding, SeedPCs
    <3>2. Others(r) /\ run'[r].pc \in {"idle", "read"}
      BY <2>3, EndFacts DEF SeedMember
    <3> QED
      BY <3>1, <3>2 DEF SeedsApart, Seeding, SeedPCs, Others
  <2> QED
    BY <1>4, <2>1, <2>2, <2>3 DEF Seed
<1>5. ASSUME NEW r \in Runs, Patch(r) PROVE SeedsApart'
  <2>1. UNCHANGED members
    BY <1>5 DEF Patch, CreatePatchesTable, ReadPatches, ApplyPatch, RecordPatch
  <2>2. CASE CreatePatchesTable(r)
    BY <1>2, <2>1, <2>2, EndFacts DEF CreatePatchesTable, SeedPCs
  <2>3. CASE ReadPatches(r)
    BY <1>2, <2>1, <2>3, EndFacts, ReadPatchesFacts DEF ReadPatches, SeedPCs
  <2>4. CASE ApplyPatch(r) \/ RecordPatch(r)
    <3>1. Patching(r) /\ (NextPatch(r) \/ (Goto(r, "record") /\ "record" \in PCs))
      BY <2>4 DEF ApplyPatch, RecordPatch, At, Patching, PCs
    <3> QED
      BY <1>2, <2>1, <3>1, NextPatchFacts, GotoFacts DEF SeedPCs
  <2> QED
    BY <1>5, <2>2, <2>3, <2>4 DEF Patch
<1>6. ASSUME NEW r \in Runs, StartInit(r) \/ StartUpdate(r) \/ Execute(r) PROVE SeedsApart'
  <2>1. UNCHANGED members
    BY <1>6 DEF StartInit, StartUpdate, Execute
  <2>2. PICK pc \in {"ddl", "patchesTable", "count"} : run'[r].pc = pc
    <3>1. CASE StartInit(r) \/ StartUpdate(r)
      <4>1. PICK pc \in {"ddl", "patchesTable"} : run'[r] = [Idle EXCEPT !.pc = pc]
        BY <3>1 DEF StartInit, StartUpdate, SchemaTypeOK
      <4> QED
        BY <4>1 DEF Idle
    <3>2. CASE Execute(r)
      BY <3>2, NextStatementFacts DEF Execute
    <3> QED
      BY <1>6, <3>1, <3>2
  <2> QED
    BY <1>2, <1>6, <2>1, <2>2, OneProcess DEF Step, SeedPCs
<1>7. ASSUME NEW r \in Runs, Skip(r) \/ Kill(r) PROVE SeedsApart'
  <2>1. UNCHANGED members
    BY <1>7 DEF Skip, Kill
  <2>2. CASE Kill(r)
    BY <1>2, <2>1, <2>2, EndFacts DEF Kill, SeedPCs
  <2>3. CASE Skip(r)
    <3>1. CASE At(r, "ddl") /\ NextStatement(r, FALSE)
      BY <1>2, <2>1, <3>1, NextStatementFacts DEF SeedPCs
    <3>2. ASSUME NEW pc \in SeedPCs, run[r].pc \in SeedPCs, Goto(r, pc) PROVE SeedsApart'
      BY <1>1, <2>1, <3>2, GotoFacts DEF PCs, Seeding
    <3>3. CASE ToPatches(r) \/ End(r)
      BY <1>2, <2>1, <3>3, EndFacts DEF SeedPCs
    <3>4. CASE Patching(r) /\ NextPatch(r)
      BY <1>2, <2>1, <3>4, NextPatchFacts DEF SeedPCs
    <3> QED
      BY <2>3, <3>1, <3>2, <3>3, <3>4, SkipCases
  <2> QED
    BY <1>7, <2>2, <2>3
<1>8. ASSUME NEW i \in Ids, NEW n \in Names, Rename(i, n) PROVE SeedsApart'
  BY <1>8 DEF Rename, SeedsApart, Seeding
<1>9. CASE UNCHANGED schemaVars
  BY <1>9 DEF schemaVars, SeedsApart, Seeding
<1> QED
  BY <1>4, <1>5, <1>6, <1>7, <1>8, <1>9 DEF SchemaNext
-----------------------------------------------------------------------------
(* The patches.                                                            *)
PatchInv == ReadIsRecorded /\ RecordedIsRead /\ PatchedOnce

LEMMA PatchesDistinct ==
  /\ DOMAIN Patches \subseteq Nat
  /\ \A j, k \in DOMAIN Patches : Patches[j] = Patches[k] => j = k
  /\ \A k \in DOMAIN Patches : Patches[k] \in PatchSet
  BY SchemaAssumption DEF PatchSet

LEMMA PatchPlace ==
  ASSUME SchemaTypeOK, NEW r \in Runs, Patching(r)
  PROVE  /\ run[r].at \in DOMAIN Patches /\ Patches[run[r].at] \in PatchSet
         /\ run[r].at \in Nat
  BY PatchesDistinct DEF SchemaTypeOK, Patching

(* A process that does not patch changes nothing about it.                 *)
LEMMA NotPatching ==
  ASSUME PatchInv, NEW r \in Runs, Others(r), UNCHANGED patching,
         ~At(r, "record"), run'[r].pc \notin {"apply", "record"}
  PROVE  PatchInv'
<1>1. \A q \in Runs : /\ Patching(q)' => run'[q] = run[q] /\ Patching(q)
                      /\ At(q, "record") => run'[q] = run[q] /\ At(q, "record")'
                      /\ At(q, "record")' => run'[q] = run[q] /\ At(q, "record")
  BY DEF Others, Patching, At
<1>2. ReadIsRecorded' /\ RecordedIsRead'
  BY <1>1 DEF PatchInv, ReadIsRecorded, RecordedIsRead, patching
<1>3. PatchedOnce'
  BY <1>1 DEF PatchInv, PatchedOnce, patching
<1> QED
  BY <1>2, <1>3 DEF PatchInv

(* A process that goes on to its next patch, or ends, without recording    *)
(* this one.                                                               *)
LEMMA PassedOver ==
  ASSUME SchemaTypeOK, PatchInv, NEW r \in Runs, Patching(r), Others(r),
         UNCHANGED <<times, recorded>>, torn \subseteq torn',
         At(r, "record") => Patches[run[r].at] \in torn',
         \/ run'[r].pc \in {"idle", "read"}
         \/ /\ run'[r].pc = "apply" /\ run'[r].at = run[r].at + 1
            /\ run'[r].applied = run[r].applied
  PROVE  PatchInv'
<1>1. \A q \in Runs \ {r} : run'[q] = run[q]
  BY DEF Others
<1>2. ReadIsRecorded'
  BY <1>1 DEF PatchInv, ReadIsRecorded, Patching, At
<1>3. RecordedIsRead'
  <2> SUFFICES ASSUME NEW q \in Runs, Patching(q)', NEW k \in DOMAIN Patches,
                      k >= run'[q].at, Patches[k] \in recorded' \ torn'
               PROVE  Patches[k] \in run'[q].applied
    BY DEF RecordedIsRead
  <2>1. Patches[k] \in recorded \ torn
    OBVIOUS
  <2>2. Patching(q) /\ run'[q].applied = run[q].applied
    BY <1>1 DEF Patching
  <2>3. k >= run[q].at
    BY <1>1, PatchPlace, PatchesDistinct DEF Patching
  <2> QED
    BY <2>1, <2>2, <2>3 DEF PatchInv, RecordedIsRead
<1>4. PatchedOnce'
  <2>1. \A q \in Runs : At(q, "record") => \/ q = r
                                           \/ At(q, "record")' /\ run'[q] = run[q]
    BY <1>1 DEF At
  <2> QED
    BY <2>1 DEF PatchInv, PatchedOnce
<1> QED
  BY <1>2, <1>3, <1>4 DEF PatchInv

(* The list of what has been applied is read anew.                         *)
LEMMA ListRead ==
  ASSUME PatchInv, NEW r \in Runs, ~At(r, "record"), Others(r), UNCHANGED patching,
         run'[r].pc = "apply", run'[r].applied = recorded
  PROVE  PatchInv'
<1>1. \A q \in Runs \ {r} : run'[q] = run[q]
  BY DEF Others
<1>2. ReadIsRecorded'
  BY <1>1 DEF PatchInv, ReadIsRecorded, Patching, At, patching
<1>3. RecordedIsRead'
  BY <1>1 DEF PatchInv, RecordedIsRead, Patching, patching
<1>4. PatchedOnce'
  BY <1>1 DEF PatchInv, PatchedOnce, At, patching
<1> QED
  BY <1>2, <1>3, <1>4 DEF PatchInv

(* The SQL of a patch is executed: for the first time, or the patch is     *)
(* torn.                                                                   *)
LEMMA Executed ==
  ASSUME SchemaTypeOK, PatchInv, NEW r \in Runs, At(r, "apply"),
         Patches[run[r].at] \notin run[r].applied,
         times' = [times EXCEPT ![Patches[run[r].at]] = @ + 1],
         Tear(r, Patches[run[r].at]), Goto(r, "record"), UNCHANGED recorded
  PROVE  PatchInv'
<1> DEFINE p == Patches[run[r].at]
<1>0. /\ Patching(r) /\ p \in PatchSet /\ run[r].at \in DOMAIN Patches
      /\ torn \subseteq torn' /\ times \in [PatchSet -> Nat]
  BY PatchPlace DEF At, Patching, Tear, SchemaTypeOK
<1>1. /\ Others(r) /\ run'[r].pc = "record" /\ run'[r].at = run[r].at
      /\ run'[r].applied = run[r].applied
  BY GotoFacts DEF PCs
<1>2. \A q \in Runs \ {r} : run'[q] = run[q]
  BY <1>1 DEF Others
<1>3. times'[p] = times[p] + 1 /\ \A x \in PatchSet \ {p} : times'[x] = times[x]
  BY <1>0
<1>4. \A x \in PatchSet : times[x] > 0 => times'[x] > 0
  BY <1>0, <1>3
<1>5. ReadIsRecorded'
  <2>1. \A q \in Runs : At(q, "record") => /\ times[Patches[run[q].at]] > 0
                                           /\ Patches[run[q].at] \in PatchSet
    BY PatchPlace DEF PatchInv, ReadIsRecorded, At, Patching
  <2>2. \A q \in Runs : Patching(q)' => run'[q].applied \subseteq recorded'
    BY <1>0, <1>1, <1>2 DEF PatchInv, ReadIsRecorded, Patching
  <2>3. ASSUME NEW q \in Runs, At(q, "record")'
        PROVE  /\ times'[Patches[run'[q].at]] > 0
               /\ Patches[run'[q].at] \notin run'[q].applied
    <3>1. CASE q = r
      BY <1>0, <1>1, <1>3, <3>1
    <3>2. CASE q # r
      <4>1. At(q, "record") /\ run'[q] = run[q]
        BY <1>2, <2>3, <3>2 DEF At
      <4> QED
        BY <1>4, <2>1, <4>1 DEF PatchInv, ReadIsRecorded
    <3> QED
      BY <3>1, <3>2
  <2> QED
    BY <2>2, <2>3 DEF ReadIsRecorded
<1>6. RecordedIsRead'
  BY <1>0, <1>1, <1>2 DEF PatchInv, RecordedIsRead, Patching
<1>7. times[p] > 0 => p \in torn'
  <2> SUFFICES ASSUME times[p] > 0, p \notin torn PROVE p \in torn'
    BY <1>0
  <2>1. p \notin recorded
    BY <1>0, PatchesDistinct DEF PatchInv, RecordedIsRead
  <2>2. PICK q \in Runs : At(q, "record") /\ Patches[run[q].at] = p
    BY <1>0, <2>1 DEF PatchInv, PatchedOnce
  <2>3. q # r /\ p \notin run[q].applied /\ Patching(q)
    BY <2>2 DEF PatchInv, ReadIsRecorded, At, Patching
  <2>4. run[q].at \in DOMAIN Patches /\ run[q].at >= run[q].at
    BY <2>3, PatchPlace
  <2>5. Overlapped(r, p)
    BY <2>2, <2>3, <2>4 DEF Overlapped, Patching
  <2> QED
    BY <2>5 DEF Tear
<1>8. PatchedOnce'
  <2> SUFFICES ASSUME NEW x \in PatchSet
               PROVE  /\ x \in recorded' => times'[x] > 0
                      /\ times'[x] > 1 => x \in torn'
                      /\ times'[x] > 0 /\ x \notin recorded' \cup torn' =>
                            \E q \in Runs : At(q, "record")' /\ Patches[run'[q].at] = x
    BY DEF PatchedOnce
  <2>1. x \in recorded' => times'[x] > 0
    BY <1>4 DEF PatchInv, PatchedOnce
  <2>2. times'[x] > 1 => x \in torn'
    BY <1>0, <1>3, <1>7 DEF PatchInv, PatchedOnce
  <2>3. CASE x = p
    BY <1>1, <2>1, <2>2, <2>3 DEF At
  <2>4. CASE x # p
    <3>1. ASSUME times'[x] > 0, x \notin recorded' \cup torn'
          PROVE  \E q \in Runs : At(q, "record")' /\ Patches[run'[q].at] = x
      <4>1. PICK q \in Runs : At(q, "record") /\ Patches[run[q].at] = x
        BY <1>0, <1>3, <2>4, <3>1 DEF PatchInv, PatchedOnce
      <4>2. q # r
        BY <4>1 DEF At
      <4> QED
        BY <1>2, <4>1, <4>2 DEF At
    <3> QED
      BY <2>1, <2>2, <3>1
  <2> QED
    BY <2>3, <2>4
<1> QED
  BY <1>5, <1>6, <1>8 DEF PatchInv
(* A patch is recorded: whoever read the list without it and has it ahead  *)
(* makes it a torn one.                                                    *)
LEMMA Recorded ==
  ASSUME SchemaTypeOK, PatchInv, NEW r \in Runs, RecordPatch(r)
  PROVE  PatchInv'
<1> DEFINE p == Patches[run[r].at]
<1>0. /\ Patching(r) /\ At(r, "record") /\ p \in PatchSet /\ run[r].at \in DOMAIN Patches
      /\ torn \subseteq torn' /\ recorded' = recorded \cup {p} /\ UNCHANGED times
      /\ Tear(r, p) /\ run[r].at \in Nat
  BY PatchPlace DEF RecordPatch, At, Patching, Tear
<1>1. /\ \A q \in Runs \ {r} : run'[q] = run[q]
      /\ \/ run'[r].pc = "idle"
         \/ /\ run'[r].pc = "apply" /\ run'[r].at = run[r].at + 1
            /\ run'[r].applied = run[r].applied
  BY <1>0, NextPatchFacts DEF RecordPatch, Others
<1>2. ReadIsRecorded'
  BY <1>0, <1>1 DEF PatchInv, ReadIsRecorded, Patching, At
<1>3. RecordedIsRead'
  <2> SUFFICES ASSUME NEW q \in Runs, Patching(q)', NEW k \in DOMAIN Patches,
                      k >= run'[q].at, Patches[k] \in recorded' \ torn'
               PROVE  Patches[k] \in run'[q].applied
    BY DEF RecordedIsRead
  <2>1. Patching(q) /\ run'[q].applied = run[q].applied
    BY <1>0, <1>1 DEF Patching
  <2>2. k \in Nat /\ run[q].at \in Nat
    BY <2>1, PatchPlace, PatchesDistinct
  <2>3. k >= run[q].at /\ (q = r => k # run[r].at)
    BY <1>0, <1>1, <2>2 DEF Patching
  <2>4. CASE Patches[k] \in recorded
    BY <1>0, <2>1, <2>3, <2>4 DEF PatchInv, RecordedIsRead
  <2>5. CASE Patches[k] = p
    <3>1. q # r
      BY <1>0, <2>3, <2>5, PatchesDistinct
    <3>2. p \notin run[q].applied => Overlapped(r, p)
      BY <2>1, <2>3, <2>5, <3>1 DEF Overlapped, Patching
    <3> QED
      BY <1>0, <2>1, <2>5, <3>2 DEF Tear
  <2> QED
    BY <1>0, <2>4, <2>5
<1>4. PatchedOnce'
  <2>1. times[p] > 0
    BY <1>0 DEF PatchInv, ReadIsRecorded
  <2>2. \A q \in Runs : At(q, "record") => \/ q = r
                                           \/ At(q, "record")' /\ run'[q] = run[q]
    BY <1>1 DEF At
  <2> QED
    BY <1>0, <2>1, <2>2 DEF PatchInv, PatchedOnce
<1> QED
  BY <1>2, <1>3, <1>4 DEF PatchInv

LEMMA PatchStep ==
  ASSUME SchemaTypeOK, PatchInv, [SchemaNext]_schemaVars
  PROVE  PatchInv'
<1> USE DEF seeds
<1>1. ASSUME NEW r \in Runs, StartInit(r) \/ StartUpdate(r) PROVE PatchInv'
  <2>1. PICK pc \in {"ddl", "patchesTable"} : run'[r] = [Idle EXCEPT !.pc = pc]
    BY <1>1 DEF StartInit, StartUpdate, SchemaTypeOK
  <2>2. run'[r].pc \in {"ddl", "patchesTable"}
    BY <2>1 DEF Idle
  <2>3. ~At(r, "record") /\ UNCHANGED patching
    BY <1>1 DEF StartInit, StartUpdate, At
  <2>4. Others(r)
    BY <1>1, OneProcess DEF Step
  <2> QED
    BY <2>2, <2>3, <2>4, NotPatching
<1>2. ASSUME NEW r \in Runs, Execute(r) PROVE PatchInv'
  <2>1. /\ At(r, "ddl") /\ NextStatement(r, TRUE) /\ TRUE \in BOOLEAN
        /\ ~At(r, "record") /\ UNCHANGED patching
    BY <1>2 DEF Execute, At
  <2>2. Others(r) /\ run'[r].pc \in {"ddl", "count"}
    BY <2>1, NextStatementFacts
  <2> QED
    BY <2>1, <2>2, NotPatching
<1>3. ASSUME NEW r \in Runs, Seed(r) PROVE PatchInv'
  <2>1. ~At(r, "record") /\ UNCHANGED patching
    BY <1>3 DEF Seed, SeedCount, SeedSchema, SeedDatabase, SeedUser, SeedMember, At
  <2>2. Others(r)
    BY <1>3, OneProcess DEF Step
  <2>3. run'[r].pc \notin {"apply", "record"}
    <3>1. ASSUME NEW i \in Ids, SeedCount(r, i) PROVE run'[r].pc \in {"idle", "read", "schema"}
      BY <3>1, EndFacts, SeedCountFacts DEF SeedCount
    <3>2. CASE SeedSchema(r) \/ SeedDatabase(r) \/ SeedUser(r)
      <4>1. PICK pc \in {"database", "user", "member"} : Goto(r, pc)
        BY <3>2 DEF SeedSchema, SeedDatabase, SeedUser
      <4> QED
        BY <4>1, GotoFacts DEF PCs, SeedPCs
    <3>3. CASE SeedMember(r)
      BY <3>3, EndFacts DEF SeedMember
    <3> QED
      BY <1>3, <3>1, <3>2, <3>3 DEF Seed
  <2> QED
    BY <2>1, <2>2, <2>3, NotPatching
<1>4. ASSUME NEW r \in Runs, CreatePatchesTable(r) \/ ReadPatches(r) PROVE PatchInv'
  <2>1. ~At(r, "record") /\ UNCHANGED patching
    BY <1>4 DEF CreatePatchesTable, ReadPatches, At
  <2>2. CASE ToPatches(r) \/ End(r)
    <3>1. Others(r) /\ run'[r].pc \notin {"apply", "record"}
      BY <2>2, EndFacts
    <3> QED
      BY <2>1, <3>1, NotPatching
  <2>3. CASE run' = [run EXCEPT ![r].pc = "apply", ![r].at = 1, ![r].applied = recorded]
    BY <2>1, <2>3, ReadPatchesFacts, ListRead
  <2> QED
    BY <1>4, <2>2, <2>3 DEF CreatePatchesTable, ReadPatches
<1>5. ASSUME NEW r \in Runs, Patching(r), NextPatch(r), UNCHANGED <<times, recorded>>,
             torn \subseteq torn', At(r, "record") => Patches[run[r].at] \in torn'
      PROVE  PatchInv'
  BY <1>5, NextPatchFacts, PassedOver
<1>6. ASSUME NEW r \in Runs, ApplyPatch(r) PROVE PatchInv'
  <2>1. At(r, "apply") /\ Patching(r) /\ ~At(r, "record") /\ UNCHANGED recorded
    BY <1>6 DEF ApplyPatch, At, Patching
  <2>2. CASE NextPatch(r) /\ UNCHANGED <<times, torn>>
    BY <1>5, <2>1, <2>2
  <2>3. CASE ~(NextPatch(r) /\ UNCHANGED <<times, torn>>)
    BY <1>6, <2>1, <2>3, Executed DEF ApplyPatch
  <2> QED
    BY <2>2, <2>3
<1>7. ASSUME NEW r \in Runs, RecordPatch(r) PROVE PatchInv'
  BY <1>7, Recorded
<1>8. ASSUME NEW r \in Runs, Skip(r) PROVE PatchInv'
  <2>1. UNCHANGED <<times, recorded>>
    BY <1>8 DEF Skip
  <2>2. CASE At(r, "ddl") /\ NextStatement(r, FALSE) /\ UNCHANGED torn
    <3>1. FALSE \in BOOLEAN /\ ~At(r, "record")
      BY <2>2 DEF At
    <3>2. Others(r) /\ run'[r].pc \in {"ddl", "count"}
      BY <2>2, <3>1, NextStatementFacts
    <3> QED
      BY <2>1, <2>2, <3>1, <3>2, NotPatching DEF patching
  <2>3. ASSUME NEW pc \in SeedPCs, run[r].pc \in SeedPCs, Goto(r, pc), UNCHANGED torn
        PROVE  PatchInv'
    <3>1. ~At(r, "record") /\ pc \notin {"apply", "record"} /\ pc \in PCs
      BY <2>3 DEF At, SeedPCs, PCs
    <3> QED
      BY <2>1, <2>3, <3>1, GotoFacts, NotPatching DEF patching
  <2>4. CASE Patching(r) /\ NextPatch(r)
    <3>1. torn \subseteq torn' /\ (At(r, "record") => Patches[run[r].at] \in torn')
      BY <1>8, <2>4 DEF Skip, At, Patching
    <3> QED
      BY <1>5, <2>1, <2>4, <3>1
  <2>5. CASE (ToPatches(r) \/ End(r)) /\ UNCHANGED torn
    <3>1. CASE Patching(r)
      <4>1. At(r, "apply") \/ (At(r, "record") /\ Patches[run[r].at] \in torn')
        BY <1>8, <3>1 DEF Skip, At, Patching
      <4>2. ~At(r, "record") \/ Patches[run[r].at] \in torn'
        BY <4>1 DEF At
      <4> QED
        BY <2>1, <2>5, <3>1, <4>2, EndFacts, PassedOver
    <3>2. CASE ~Patching(r)
      <4>1. ~At(r, "record")
        BY <3>2 DEF Patching, At
      <4> QED
        BY <2>1, <2>5, <4>1, EndFacts, NotPatching DEF patching
    <3> QED
      BY <3>1, <3>2
  <2> QED
    BY <1>8, <2>2, <2>3, <2>4, <2>5, SkipCases
<1>9. ASSUME NEW r \in Runs, Kill(r) PROVE PatchInv'
  <2>1. End(r) /\ UNCHANGED <<times, recorded>>
    BY <1>9 DEF Kill
  <2>2. torn \subseteq torn' /\ (At(r, "record") => Patches[run[r].at] \in torn')
        /\ (~At(r, "record") => UNCHANGED torn)
    BY <1>9 DEF Kill
  <2>3. Others(r) /\ run'[r].pc \in {"idle", "read"}
    BY <2>1, EndFacts
  <2>4. CASE Patching(r)
    BY <2>1, <2>2, <2>3, <2>4, PassedOver
  <2>5. CASE ~Patching(r)
    <3>1. ~At(r, "record")
      BY <2>5 DEF Patching, At
    <3> QED
      BY <2>1, <2>2, <2>3, <3>1, NotPatching DEF patching
  <2> QED
    BY <2>4, <2>5
<1>10. CASE UNCHANGED <<run, patching>>
  <2>1. ReadIsRecorded' /\ RecordedIsRead'
    BY <1>10 DEF PatchInv, ReadIsRecorded, RecordedIsRead, Patching, At, patching
  <2>2. PatchedOnce'
    BY <1>10 DEF PatchInv, PatchedOnce, At, patching
  <2> QED
    BY <2>1, <2>2 DEF PatchInv
<1>11. ASSUME NEW i \in Ids, NEW n \in Names, Rename(i, n) PROVE UNCHANGED <<run, patching>>
  BY <1>11 DEF Rename
<1>12. CASE UNCHANGED schemaVars
  BY <1>10, <1>12 DEF schemaVars, patching
<1> QED
  BY <1>1, <1>2, <1>3, <1>4, <1>6, <1>7, <1>8, <1>9, <1>10, <1>11, <1>12
     DEF SchemaNext, Patch

LEMMA SchemaInvInit == SchemaInit => SchemaInv
<1> SUFFICES ASSUME SchemaInit PROVE SchemaInv
  OBVIOUS
<1>1. SchemaTypeOK
  BY SchemaTypeInit
<1>2. \A r \in Runs : run[r].pc = "idle"
  BY IdleFacts DEF SchemaInit
<1>3. BehindIsThere /\ KeyBehindIsThere /\ SeedsApart
  BY <1>2 DEF BehindIsThere, KeyBehindIsThere, SeedsApart, Seeding, Behind, At, SeedPCs
<1>4. ReadIsRecorded /\ RecordedIsRead
  BY <1>2 DEF ReadIsRecorded, RecordedIsRead, Patching, At
<1>5. DanglingOnlyAfterFailure /\ PatchedOnce
  BY DEF SchemaInit, DanglingOnlyAfterFailure, Dangling, PatchedOnce
<1> QED
  BY <1>1, <1>3, <1>4, <1>5 DEF SchemaInv

(* The invariant of all that follows holds in every state of Schema.       *)
THEOREM SchemaInductive == SchemaSpec => []SchemaInv
<1>1. SchemaInv /\ [SchemaNext]_schemaVars => SchemaInv'
  BY SchemaTypeStep, BehindThereStep, KeyBehindStep, SeedsApartStep, DanglingStep,
     PatchStep DEF SchemaInv, PatchInv
<1> QED
  BY <1>1, SchemaInvInit, PTL DEF SchemaSpec

(* One run of --db-init in which no statement fails for a reason of its    *)
(* own creates all that is possible.                                       *)
THEOREM InitSuffices == SchemaSpec => []OneRunSuffices
<1>1. SchemaInv => OneRunSuffices
  BY DEF SchemaInv, BehindIsThere, OneRunSuffices, Behind, At, SeedPCs
<1> QED
  BY <1>1, SchemaInductive, PTL

(* A membership without its user is the mark of a statement passed over.   *)
THEOREM DanglingExplained == SchemaSpec => []DanglingOnlyAfterFailure
<1>1. SchemaInv => DanglingOnlyAfterFailure
  BY DEF SchemaInv
<1> QED
  BY <1>1, SchemaInductive, PTL

(* A patch is applied once and recorded, unless its two statements were    *)
(* torn apart.                                                             *)
THEOREM PatchesOnce == SchemaSpec => []PatchedOnce
<1>1. SchemaInv => PatchedOnce
  BY DEF SchemaInv
<1> QED
  BY <1>1, SchemaInductive, PTL

-----------------------------------------------------------------------------
(***************************************************************************)
(* ChangeFeed: the log of changes and an open page.                        *)
(***************************************************************************)
(* A set of identifiers has a last one.                                    *)
LEMMA LastFacts ==
  ASSUME NEW N \in Nat, NEW S \in SUBSET (0 .. N), S # {}
  PROVE  Max(S) \in S /\ \A x \in S : x <= Max(S)
<1> DEFINE T == {n \in Nat : N - n \in S}
<1>1. PICK s \in S : s \in 0 .. N
  OBVIOUS
<1>2. N - s \in T
  BY <1>1
<1>3. PICK n \in T : \A m \in T : ~(<<m, n>> \in OpToRel(<, Nat))
  BY <1>2, WFMin, NatLessThanWellFounded
<1>4. n \in Nat /\ N - n \in S /\ \A m \in T : m \in Nat /\ ~(m < n)
  BY <1>3 DEF OpToRel
<1>5. ASSUME NEW x \in S PROVE N - n >= x
  <2>1. N - x \in T
    BY <1>5
  <2>2. ~(N - x < n)
    BY <1>4, <2>1, Zenon
  <2> QED
    BY <1>4, <1>5, <2>2
<1>6. \E x \in S : \A y \in S : x >= y
  BY <1>4, <1>5
<1>7. Max(S) \in S /\ \A y \in S : Max(S) >= y
  BY <1>6, Zenon DEF Max
<1> QED
  BY <1>7

(* A finite set listed as a sequence.                                      *)
LEMMA ListFacts ==
  ASSUME NEW S, IsFiniteSet(S)
  PROVE  /\ SetToSeq(S) \in Seq(S)
         /\ \A x \in S : \E i \in 1 .. Len(SetToSeq(S)) : SetToSeq(S)[i] = x
<1> DEFINE n == Cardinality(S)
           f == SetToSeq(S)
<1>1. n \in Nat /\ Bijection(1 .. n, S) # {}
  BY FS_CardinalityType DEF ExistsBijection
<1>2. \E g \in [1 .. n -> S] : IsInjective(g)
  BY <1>1 DEF Bijection, Injection
<1>3. f \in [1 .. n -> S] /\ IsInjective(f)
  BY <1>2, Zenon DEF SetToSeq
<1> HIDE DEF f
<1>4. f \in Injection(1 .. n, S)
  BY <1>3 DEF Injection
<1>5. IsFiniteSet(1 .. n) /\ Cardinality(1 .. n) = n
  BY <1>1, FS_Interval
<1>6. f \in Surjection(1 .. n, S)
  BY <1>4, <1>5, FS_Injection
<1>7. f \in Seq(S) /\ Len(f) = n
  BY <1>1, <1>3
<1>8. \A x \in S : \E i \in 1 .. Len(f) : f[i] = x
  BY <1>6, <1>7 DEF Surjection
<1> QED
  BY <1>7, <1>8 DEF f

LEMMA RemoveAtFacts ==
  ASSUME NEW T, NEW s \in Seq(T), NEW i \in 1 .. Len(s)
  PROVE  /\ RemoveAt(s, i) \in Seq(T)
         /\ Len(RemoveAt(s, i)) = Len(s) - 1
         /\ \A j \in 1 .. Len(s) - 1 : RemoveAt(s, i)[j] = IF j < i THEN s[j] ELSE s[j + 1]
<1> DEFINE a == SubSeq(s, 1, i - 1)
           b == SubSeq(s, i + 1, Len(s))
<1>1. /\ a \in Seq(T) /\ Len(a) = i - 1 /\ \A j \in 1 .. i - 1 : a[j] = s[j]
      /\ b \in Seq(T) /\ Len(b) = Len(s) - i /\ \A j \in 1 .. Len(s) - i : b[j] = s[i + j]
  OBVIOUS
<1> HIDE DEF a, b
<1>2. /\ a \o b \in Seq(T) /\ Len(a \o b) = Len(s) - 1
      /\ \A j \in 1 .. Len(s) - 1 : (a \o b)[j] = IF j < i THEN a[j] ELSE b[j - (i - 1)]
  <2>1. /\ a \o b \in Seq(T) /\ Len(a \o b) = Len(a) + Len(b)
        /\ \A j \in 1 .. Len(a) + Len(b) :
              (a \o b)[j] = IF j <= Len(a) THEN a[j] ELSE b[j - Len(a)]
    BY <1>1, ConcatProperties
  <2> QED
    BY <1>1, <2>1
<1>3. ASSUME NEW j \in 1 .. Len(s) - 1
      PROVE  (a \o b)[j] = IF j < i THEN s[j] ELSE s[j + 1]
  BY <1>1, <1>2
<1> QED
  BY <1>2, <1>3 DEF RemoveAt, a, b

-----------------------------------------------------------------------------
(* What the steps of a thread, of a poll and of a refresh do.              *)
Task == [pc : {"idle", "import", "log", "commit"}, operation : Operations,
         row : Records \cup {None}, version : Versions, id : 0 .. MaxID]
Request(changes) == [pc : {"idle", "sent", "answered"}, cursor : 0 .. MaxID,
                     rows : SUBSET changes]
Fetched == [row : Records, version : Versions \cup {Pending}]

LEMMA BoundFacts ==
  /\ MaxVersion \in Nat /\ MaxVersion > 0 /\ MaxID \in Nat /\ MaxID > 0
  /\ Earlier \in 0 .. MaxID
  /\ Versions \subseteq Nat /\ 0 \in Versions /\ 1 \in Versions /\ None \notin Records
  /\ Pending \notin Versions /\ Pending \in Int /\ Pending < 0
  BY BoundAssumption, NoneAssumption DEF Versions, Pending

LEMMA WriterFacts ==
  ASSUME FeedTypeOK, NEW w \in Writers
  PROVE  /\ writer[w] \in Task /\ writer \in [Writers -> Task]
         /\ writer[w].pc \in {"idle", "import", "log", "commit"}
         /\ writer[w].operation \in Operations /\ writer[w].row \in Records \cup {None}
         /\ writer[w].version \in Versions /\ writer[w].id \in 0 .. MaxID
         /\ WriterIdle \in Task
  BY BoundFacts DEF FeedTypeOK, Task, WriterIdle, Operations

LEMMA PollFacts ==
  ASSUME FeedTypeOK, NEW p \in Polls
  PROVE  /\ poll[p] \in Request(log) /\ poll \in [Polls -> Request(log)]
         /\ poll[p].pc \in {"idle", "sent", "answered"}
         /\ poll[p].cursor \in 0 .. MaxID /\ poll[p].rows \subseteq log
         /\ PollIdle \in Request(log)
  BY BoundFacts DEF FeedTypeOK, Request, PollIdle

LEMMA FetchFacts ==
  ASSUME FeedTypeOK, NEW i \in 1 .. Len(fetches)
  PROVE  /\ fetches \in Seq(Fetched) /\ Len(fetches) \in Nat /\ fetches[i] \in Fetched
         /\ fetches[i].row \in Records /\ fetches[i].version \in Versions \cup {Pending}
<1>1. fetches \in Seq(Fetched)
  BY DEF FeedTypeOK, Fetched
<1>2. fetches[i] \in Fetched /\ Len(fetches) \in Nat
  BY <1>1
<1> QED
  BY <1>1, <1>2 DEF Fetched

LEMMA LogFacts ==
  ASSUME FeedTypeOK, NEW c \in log
  PROVE  /\ c \in Change /\ c.id \in 1 .. MaxID /\ c.operation \in Operations
         /\ c.row \in Records \cup {None} /\ c.version \in Versions
  BY DEF FeedTypeOK, Change

(* A thread takes up a task, or goes on with it.                           *)
LEMMA SetWriterFacts ==
  ASSUME FeedTypeOK, NEW w \in Writers, NEW pc \in {"import", "log"}, NEW op \in Operations,
         NEW r \in Records \cup {None}, NEW v \in Versions, SetWriter(w, pc, op, r, v)
  PROVE  /\ writer' \in [Writers -> Task]
         /\ \A u \in Writers \ {w} : writer'[u] = writer[u]
         /\ writer'[w].pc = pc /\ writer'[w].operation = op /\ writer'[w].row = r
         /\ writer'[w].version = v
<1> DEFINE x == [pc |-> pc, operation |-> op, row |-> r, version |-> v, id |-> 0]
<1>1. x \in Task /\ writer \in [Writers -> Task]
  BY BoundFacts, WriterFacts DEF Task
<1>2. writer' = [writer EXCEPT ![w] = x]
  BY DEF SetWriter
<1>3. x.pc = pc /\ x.operation = op /\ x.row = r /\ x.version = v
  OBVIOUS
<1> HIDE DEF x
<1> QED
  BY <1>1, <1>2, <1>3

LEMMA NextWriterFacts ==
  ASSUME FeedTypeOK, NEW w \in Writers, NEW pc \in {"log", "commit"}, NEW n \in 0 .. MaxID,
         \/ writer' = [writer EXCEPT ![w].pc = pc] /\ n = writer[w].id
         \/ writer' = [writer EXCEPT ![w].pc = pc, ![w].id = n]
  PROVE  /\ writer' \in [Writers -> Task]
         /\ \A u \in Writers \ {w} : writer'[u] = writer[u]
         /\ writer'[w].pc = pc /\ writer'[w].id = n
         /\ writer'[w].operation = writer[w].operation /\ writer'[w].row = writer[w].row
         /\ writer'[w].version = writer[w].version
<1>1. writer[w] \in Task /\ writer \in [Writers -> Task]
  BY WriterFacts
<1>2. PICK x : x = [writer[w] EXCEPT !.pc = pc, !.id = n]
  OBVIOUS
<1>3. /\ x.pc = pc /\ x.id = n /\ x.operation = writer[w].operation
      /\ x.row = writer[w].row /\ x.version = writer[w].version
  BY <1>1, <1>2 DEF Task
<1>4. x = [pc |-> x.pc, operation |-> x.operation, row |-> x.row, version |-> x.version,
           id |-> x.id]
  BY <1>1, <1>2 DEF Task
<1>5. x \in Task
  BY <1>1, <1>3, <1>4 DEF Task
<1>6. writer' = [writer EXCEPT ![w] = x]
  <2>1. CASE writer' = [writer EXCEPT ![w].pc = pc, ![w].id = n]
    BY <1>1, <1>2, <2>1 DEF Task
  <2>2. CASE writer' = [writer EXCEPT ![w].pc = pc] /\ n = writer[w].id
    <3>1. PICK y : y = [writer[w] EXCEPT !.pc = pc]
      OBVIOUS
    <3>2. y = [pc |-> pc, operation |-> writer[w].operation, row |-> writer[w].row,
               version |-> writer[w].version, id |-> n]
      BY <1>1, <2>2, <3>1 DEF Task
    <3>3. y = x
      BY <1>3, <1>4, <3>2
    <3> QED
      BY <2>2, <3>1, <3>3
  <2> QED
    BY <2>1, <2>2
<1> QED
  BY <1>1, <1>3, <1>5, <1>6

(* A request on the log is sent or answered.                               *)
LEMMA SetPollFacts ==
  ASSUME FeedTypeOK, NEW p \in Polls,
         \/ poll' = [poll EXCEPT ![p] = [pc |-> "sent", cursor |-> cursor, rows |-> {}]]
         \/ poll' = [poll EXCEPT ![p] = PollIdle]
  PROVE  /\ poll' \in [Polls -> Request(log)]
         /\ \A q \in Polls \ {p} : poll'[q] = poll[q]
         /\ poll'[p].rows = {} /\ poll'[p].cursor \in {0, cursor}
         /\ poll'[p].pc = "idle" \/ poll'[p].cursor = cursor
<1>1. PICK x : /\ poll' = [poll EXCEPT ![p] = x]
               /\ \/ x = [pc |-> "sent", cursor |-> cursor, rows |-> {}]
                  \/ x = PollIdle
  OBVIOUS
<1>2. cursor \in 0 .. MaxID /\ poll \in [Polls -> Request(log)]
  BY PollFacts DEF FeedTypeOK
<1>3. x \in Request(log)
  BY <1>1, <1>2, PollFacts DEF Request
<1>4. x.rows = {} /\ x.cursor \in {0, cursor} /\ (x.pc = "idle" \/ x.cursor = cursor)
  BY <1>1 DEF PollIdle
<1> QED
  BY <1>1, <1>2, <1>3, <1>4

LEMMA AnswerPollFacts ==
  ASSUME FeedTypeOK, NEW p \in Polls, poll[p].pc = "sent", AnswerPoll(p) \/ FailPoll(p)
  PROVE  /\ poll' \in [Polls -> Request(log)]
         /\ \A q \in Polls \ {p} : poll'[q] = poll[q]
         /\ poll'[p].pc = "answered" /\ poll'[p].cursor = poll[p].cursor
         /\ poll'[p].rows \in {poll[p].rows, {c \in log : c.id > poll[p].cursor}}
<1>1. poll[p] \in Request(log) /\ poll \in [Polls -> Request(log)]
  BY PollFacts
<1>2. PICK rows \in {poll[p].rows, {c \in log : c.id > poll[p].cursor}} :
        \/ poll' = [poll EXCEPT ![p].pc = "answered", ![p].rows = rows]
        \/ poll' = [poll EXCEPT ![p].pc = "answered"] /\ rows = poll[p].rows
  BY DEF AnswerPoll, FailPoll
<1>3. rows \subseteq log
  BY <1>1, <1>2 DEF Request
<1>4. [pc |-> "answered", cursor |-> poll[p].cursor, rows |-> rows] \in Request(log)
  BY <1>1, <1>3 DEF Request
<1>5. CASE poll' = [poll EXCEPT ![p].pc = "answered", ![p].rows = rows]
  <2>1. PICK x : x = [poll[p] EXCEPT !.pc = "answered", !.rows = rows]
    OBVIOUS
  <2>2. x = [pc |-> "answered", cursor |-> poll[p].cursor, rows |-> rows]
    BY <1>1, <2>1 DEF Request
  <2>3. poll' = [poll EXCEPT ![p] = x]
    BY <1>1, <1>5, <2>1 DEF Request
  <2> QED
    BY <1>1, <1>2, <1>4, <2>2, <2>3
<1>6. CASE poll' = [poll EXCEPT ![p].pc = "answered"] /\ rows = poll[p].rows
  <2>1. PICK x : x = [poll[p] EXCEPT !.pc = "answered"]
    OBVIOUS
  <2>2. x = [pc |-> "answered", cursor |-> poll[p].cursor, rows |-> rows]
    BY <1>1, <1>6, <2>1 DEF Request
  <2>3. poll' = [poll EXCEPT ![p] = x]
    BY <1>1, <1>6, <2>1 DEF Request
  <2> QED
    BY <1>1, <1>2, <1>4, <2>2, <2>3
<1> QED
  BY <1>2, <1>5, <1>6

(* There are finitely many changes, which have identifiers of their own.   *)
LEMMA LogFinite ==
  ASSUME FeedTypeOK, IDsApart, NEW S \in SUBSET log
  PROVE  IsFiniteSet(S)
<1> DEFINE f == [c \in S |-> c.id]
<1>1. IsFiniteSet(1 .. MaxID)
  BY BoundFacts, FS_Interval
<1>2. f \in [S -> 1 .. MaxID]
  BY LogFacts
<1>3. f \in Injection(S, 1 .. MaxID)
  BY <1>2 DEF Injection, IsInjective, IDsApart
<1> QED
  BY <1>1, <1>3, FS_Injection

(* The last identifier of an answer.                                       *)
LEMMA LastIDFacts ==
  ASSUME FeedTypeOK, NEW rows \in SUBSET log, rows # {}
  PROVE  /\ LastID(rows) \in IDs(rows) /\ LastID(rows) \in 1 .. MaxID
         /\ \A c \in rows : c.id <= LastID(rows)
<1>1. IDs(rows) \subseteq 1 .. MaxID /\ IDs(rows) # {}
  BY LogFacts DEF IDs
<1>2. IDs(rows) \in SUBSET (0 .. MaxID) /\ MaxID \in Nat
  BY <1>1, BoundFacts
<1>3. LastID(rows) \in IDs(rows) /\ \A x \in IDs(rows) : x <= LastID(rows)
  BY <1>1, <1>2, LastFacts DEF LastID
<1> QED
  BY <1>1, <1>3 DEF IDs

(* The records an answer makes the page ask for.                           *)
LEMMA FetchRowsFacts ==
  ASSUME NEW S, IsFiniteSet(S), \A c \in S : c.row \in Records
  PROVE  /\ FetchRows(SetToSeq(S)) \in Seq(Fetched)
         /\ \A i \in 1 .. Len(FetchRows(SetToSeq(S))) :
               /\ FetchRows(SetToSeq(S))[i].version = Pending
               /\ \E c \in S : FetchRows(SetToSeq(S))[i].row = c.row
         /\ \A c \in S : \E i \in 1 .. Len(FetchRows(SetToSeq(S))) :
               FetchRows(SetToSeq(S))[i].row = c.row
<1> DEFINE s == SetToSeq(S)
           n == Len(s)
           f == FetchRows(s)
<1>1. s \in Seq(S) /\ n \in Nat /\ \A x \in S : \E i \in 1 .. n : s[i] = x
  BY ListFacts
<1>2. \A i \in 1 .. n : s[i] \in S
  BY <1>1
<1> HIDE DEF s
<1>3. f = [i \in 1 .. n |-> [row |-> s[i].row, version |-> Pending]]
  BY DEF FetchRows
<1>4. \A i \in 1 .. n : f[i] \in Fetched /\ f[i].row = s[i].row /\ f[i].version = Pending
  BY <1>2, <1>3 DEF Fetched
<1>5. f \in [1 .. n -> Fetched]
  BY <1>3, <1>4
<1>6. f \in Seq(Fetched) /\ Len(f) = n
  BY <1>1, <1>5
<1> HIDE DEF f
<1>7. \A c \in S : \E i \in 1 .. n : f[i].row = c.row
  BY <1>1, <1>4
<1> QED
  BY <1>2, <1>4, <1>6, <1>7 DEF f, s

(* A record is written.                                                    *)
LEMMA StoreFacts ==
  ASSUME FeedTypeOK, NEW r \in Records, NEW v \in Versions, Store(r, v)
  PROVE  /\ version' \in [Records -> Versions] /\ stored' \in [Records -> Versions]
         /\ version'[r] = version[r] + 1 /\ stored'[r] = v
         /\ \A x \in Records \ {r} : version'[x] = version[x] /\ stored'[x] = stored[x]
<1>1. /\ version \in [Records -> Versions] /\ stored \in [Records -> Versions]
      /\ version[r] < MaxVersion /\ version[r] + 1 \in Versions
  BY BoundFacts DEF FeedTypeOK, Store, Versions
<1> QED
  BY <1>1 DEF Store

(* The first step of the handlers that write one record.                   *)
LEMMA BeginFacts ==
  ASSUME FeedTypeOK, NEW w \in Writers, NEW r \in Records,
         Add(w, r) \/ Modify(w, r) \/ Delete(w, r)
  PROVE  \E op \in {"insert", "update", "delete"} :
         /\ Writing(w, "idle")
         /\ UNCHANGED <<log, nextID, page, opened, passed, handled, late, missed>>
         /\ writer' \in [Writers -> Task]
         /\ \A u \in Writers \ {w} : writer'[u] = writer[u]
         /\ writer'[w].pc = "log" /\ writer'[w].operation = op /\ writer'[w].row = r
         /\ writer'[w].version = version'[r]
         /\ version' \in [Records -> Versions] /\ stored' \in [Records -> Versions]
         /\ \A x \in Records \ {r} : version'[x] = version[x] /\ stored'[x] = stored[x]
         /\ version'[r] > 0 /\ version'[r] >= version[r]
         /\ stored'[r] \in {0, version'[r]} \/ UNCHANGED <<version, stored>>
         /\ misled \subseteq misled' /\ misled' \subseteq Records
         /\ op = "insert" => version[r] = 0 /\ stored'[r] = 1
         /\ op = "update" => /\ version[r] > 0
                             /\ \/ stored'[r] = stored[r]
                                \/ stored[r] # 0 /\ stored'[r] # 0
         /\ op = "delete" => /\ version[r] > 0
                             /\ stored'[r] = 0 \/ (r \in misled' /\ stored'[r] = stored[r])
<1> USE DEF told, history
<1>0. /\ version \in [Records -> Versions] /\ stored \in [Records -> Versions]
      /\ version[r] \in Nat /\ misled \subseteq Records
      /\ Operations = {"insert", "update", "delete", "import"}
  BY BoundFacts DEF FeedTypeOK, Operations
<1>1. CASE Add(w, r)
  <2>1. /\ 1 \in Versions /\ Store(r, 1) /\ SetWriter(w, "log", "insert", r, 1)
        /\ version[r] = 0 /\ Writing(w, "idle")
        /\ UNCHANGED <<log, nextID, page, history>>
    BY <1>1, BoundFacts DEF Add
  <2>2. /\ version' \in [Records -> Versions] /\ stored' \in [Records -> Versions]
        /\ version'[r] = 1 /\ stored'[r] = 1
        /\ \A x \in Records \ {r} : version'[x] = version[x] /\ stored'[x] = stored[x]
    BY <2>1, StoreFacts
  <2>3. /\ writer' \in [Writers -> Task]
        /\ \A u \in Writers \ {w} : writer'[u] = writer[u]
        /\ writer'[w].pc = "log" /\ writer'[w].operation = "insert" /\ writer'[w].row = r
        /\ writer'[w].version = 1
    BY <1>0, <2>1, SetWriterFacts
  <2> QED
    BY <1>0, <2>1, <2>2, <2>3
<1>2. CASE Modify(w, r)
  <2>1. /\ SetWriter(w, "log", "update", r, version'[r])
        /\ version[r] > 0 /\ Writing(w, "idle")
        /\ UNCHANGED <<log, nextID, page, history>>
        /\ \/ stored[r] # 0 /\ Store(r, version[r] + 1)
           \/ UNCHANGED <<version, stored>>
    BY <1>2 DEF Modify
  <2>2. /\ version' \in [Records -> Versions] /\ stored' \in [Records -> Versions]
        /\ version'[r] >= version[r]
        /\ \A x \in Records \ {r} : version'[x] = version[x] /\ stored'[x] = stored[x]
        /\ stored'[r] = stored[r] \/ (stored[r] # 0 /\ stored'[r] # 0)
        /\ stored'[r] \in {0, version'[r]} \/ UNCHANGED <<version, stored>>
    <3>1. CASE stored[r] # 0 /\ Store(r, version[r] + 1)
      <4>1. version[r] + 1 \in Versions
        BY <1>0, <3>1, BoundFacts DEF Store, Versions
      <4>2. /\ version' \in [Records -> Versions] /\ stored' \in [Records -> Versions]
            /\ version'[r] = version[r] + 1 /\ stored'[r] = version[r] + 1
            /\ \A x \in Records \ {r} : version'[x] = version[x] /\ stored'[x] = stored[x]
        BY <3>1, <4>1, StoreFacts
      <4> QED
        BY <1>0, <3>1, <4>2
    <3>2. CASE UNCHANGED <<version, stored>>
      BY <1>0, <3>2
    <3> QED
      BY <2>1, <3>1, <3>2
  <2>3. /\ writer' \in [Writers -> Task]
        /\ \A u \in Writers \ {w} : writer'[u] = writer[u]
        /\ writer'[w].pc = "log" /\ writer'[w].operation = "update" /\ writer'[w].row = r
        /\ writer'[w].version = version'[r]
    <3>1. version'[r] \in Versions
      BY <2>2
    <3> QED
      BY <1>0, <2>1, <3>1, SetWriterFacts
  <2>4. version'[r] > 0
    <3>1. version'[r] \in Nat
      BY <2>2, BoundFacts
    <3> QED
      BY <1>0, <2>1, <2>2, <3>1
  <2> QED
    BY <1>0, <2>1, <2>2, <2>3, <2>4
<1>3. CASE Delete(w, r)
  <2>1. /\ SetWriter(w, "log", "delete", r, version'[r])
        /\ version[r] > 0 /\ Writing(w, "idle")
        /\ UNCHANGED <<log, nextID, page, opened, passed, handled, late, missed>>
        /\ \/ stored[r] # 0 /\ Store(r, 0) /\ UNCHANGED misled
           \/ /\ misled' = IF stored[r] = 0 THEN misled ELSE misled \cup {r}
              /\ UNCHANGED <<version, stored>>
    BY <1>3 DEF Delete
  <2>2. /\ version' \in [Records -> Versions] /\ stored' \in [Records -> Versions]
        /\ version'[r] >= version[r]
        /\ \A x \in Records \ {r} : version'[x] = version[x] /\ stored'[x] = stored[x]
        /\ misled \subseteq misled' /\ misled' \subseteq Records
        /\ stored'[r] = 0 \/ (r \in misled' /\ stored'[r] = stored[r])
        /\ stored'[r] \in {0, version'[r]} \/ UNCHANGED <<version, stored>>
    <3>1. CASE Store(r, 0) /\ UNCHANGED misled
      BY <1>0, <3>1, BoundFacts, StoreFacts
    <3>2. CASE /\ misled' = IF stored[r] = 0 THEN misled ELSE misled \cup {r}
               /\ UNCHANGED <<version, stored>>
      BY <1>0, <3>2
    <3> QED
      BY <2>1, <3>1, <3>2
  <2>3. /\ writer' \in [Writers -> Task]
        /\ \A u \in Writers \ {w} : writer'[u] = writer[u]
        /\ writer'[w].pc = "log" /\ writer'[w].operation = "delete" /\ writer'[w].row = r
        /\ writer'[w].version = version'[r]
    <3>1. version'[r] \in Versions
      BY <2>2
    <3> QED
      BY <1>0, <2>1, <3>1, SetWriterFacts
  <2>4. version'[r] > 0
    <3>1. version'[r] \in Nat
      BY <2>2, BoundFacts
    <3> QED
      BY <1>0, <2>1, <2>2, <3>1
  <2> QED
    BY <1>0, <2>1, <2>2, <2>3, <2>4
<1> QED
  BY <1>1, <1>2, <1>3

(* The import, and the change at the end of a handler.                     *)
LEMMA StartImportFacts ==
  ASSUME FeedTypeOK, NEW w \in Writers, StartImport(w)
  PROVE  /\ Writing(w, "idle") /\ UNCHANGED <<version, stored, log, nextID, page, history>>
         /\ writer' \in [Writers -> Task]
         /\ \A u \in Writers \ {w} : writer'[u] = writer[u]
         /\ writer'[w].pc = "import" /\ writer'[w].operation = "import"
         /\ writer'[w].row = None
<1>1. "import" \in Operations /\ 0 \in Versions
  BY BoundFacts DEF Operations
<1> QED
  BY <1>1, SetWriterFacts DEF StartImport

LEMMA ImportRecordFacts ==
  ASSUME FeedTypeOK, NEW w \in Writers, NEW r \in Records, ImportRecord(w, r)
  PROVE  /\ Writing(w, "import") /\ version[r] = 0
         /\ UNCHANGED <<log, nextID, writer, page, history>>
         /\ version' \in [Records -> Versions] /\ stored' \in [Records -> Versions]
         /\ version'[r] = 1 /\ stored'[r] = 1
         /\ \A x \in Records \ {r} : version'[x] = version[x] /\ stored'[x] = stored[x]
  BY BoundFacts, StoreFacts DEF ImportRecord

LEMMA LinkRecordFacts ==
  ASSUME FeedTypeOK, NEW w \in Writers, NEW r \in Records, LinkRecord(w, r)
  PROVE  /\ version[r] = 0
         /\ UNCHANGED <<log, nextID, writer, page, opened, passed, handled, late, missed>>
         /\ misled' = misled \cup {r}
         /\ version' \in [Records -> Versions] /\ stored' \in [Records -> Versions]
         /\ version'[r] = 1 /\ stored'[r] = 1
         /\ \A x \in Records \ {r} : version'[x] = version[x] /\ stored'[x] = stored[x]
  BY BoundFacts, StoreFacts DEF LinkRecord

LEMMA EndImportFacts ==
  ASSUME FeedTypeOK, NEW w \in Writers, EndImport(w)
  PROVE  /\ Writing(w, "import") /\ UNCHANGED <<version, stored, log, nextID, page, history>>
         /\ writer' \in [Writers -> Task]
         /\ \A u \in Writers \ {w} : writer'[u] = writer[u]
         /\ writer'[w].pc = "log" /\ writer'[w].operation = writer[w].operation
         /\ writer'[w].row = writer[w].row /\ writer'[w].version = writer[w].version
  BY WriterFacts, NextWriterFacts DEF EndImport

LEMMA MisledFacts ==
  ASSUME FeedTypeOK, NEW w \in Writers
  PROVE  /\ misled \subseteq Misled(w) /\ Misled(w) \subseteq Records
         /\ IF writer[w].row = None THEN Misled(w) = Records ELSE writer[w].row \in Misled(w)
  BY WriterFacts DEF Misled, FeedTypeOK

LEMMA TakeIDFacts ==
  ASSUME FeedTypeOK, NEW w \in Writers, TakeID(w)
  PROVE  /\ Writing(w, "log")
         /\ UNCHANGED <<version, stored, log, page, opened, passed, handled, late, missed>>
         /\ writer' \in [Writers -> Task]
         /\ \A u \in Writers \ {w} : writer'[u] = writer[u]
         /\ \/ /\ nextID \in 1 .. MaxID /\ nextID' = nextID + 1 /\ UNCHANGED misled
               /\ writer'[w].pc = "commit" /\ writer'[w].id = nextID
               /\ writer'[w].operation = writer[w].operation
               /\ writer'[w].row = writer[w].row /\ writer'[w].version = writer[w].version
            \/ /\ writer'[w] = WriterIdle /\ UNCHANGED nextID
               /\ misled \subseteq misled' /\ misled' \subseteq Records
               /\ IF writer[w].row = None THEN misled' = Records ELSE writer[w].row \in misled'
<1>0. /\ misled \subseteq Misled(w) /\ Misled(w) \subseteq Records
      /\ IF writer[w].row = None THEN Misled(w) = Records ELSE writer[w].row \in Misled(w)
  BY MisledFacts
<1>1. CASE /\ nextID <= MaxID
           /\ writer' = [writer EXCEPT ![w].pc = "commit", ![w].id = nextID]
           /\ nextID' = nextID + 1 /\ UNCHANGED misled
  <2>1. nextID \in 1 .. MaxID /\ nextID \in 0 .. MaxID
    BY <1>1, BoundFacts DEF FeedTypeOK
  <2> QED
    BY <1>1, <2>1, NextWriterFacts DEF TakeID
<1>2. CASE /\ writer' = [writer EXCEPT ![w] = WriterIdle] /\ UNCHANGED nextID
           /\ misled' = Misled(w)
  BY <1>0, <1>2, WriterFacts DEF TakeID
<1> QED
  BY <1>1, <1>2 DEF TakeID

LEMMA CommitFacts ==
  ASSUME FeedTypeOK, IDsApart, NEW w \in Writers, CommitChange(w)
  PROVE  /\ Writing(w, "commit")
         /\ UNCHANGED <<version, stored, nextID, page, opened, passed, handled, missed>>
         /\ misled \subseteq misled' /\ misled' \subseteq Records
         /\ writer[w].id \in 1 .. MaxID
         /\ late \subseteq late' /\ late' \subseteq late \cup {writer[w].id}
         /\ writer[w].id \in late' \/ ~Overtaken(writer[w].id)
         /\ writer[w].id \in late' \ late =>
              IF writer[w].row = None THEN misled' = Records ELSE writer[w].row \in misled'
         /\ writer' \in [Writers -> Task]
         /\ \A u \in Writers \ {w} : writer'[u] = writer[u]
         /\ writer'[w] = WriterIdle
         /\ \E c \in Change :
              /\ log' = log \cup {c}
              /\ c.id = writer[w].id /\ c.operation = writer[w].operation
              /\ c.row = writer[w].row /\ c.version = writer[w].version
<1>1. Writing(w, "commit") /\ nextID \in 1 .. MaxID + 1
  BY DEF CommitChange, FeedTypeOK
<1>2. writer[w].id \in 1 .. MaxID
  BY <1>1, WriterFacts, BoundFacts DEF IDsApart
<1> DEFINE c == [id |-> writer[w].id, operation |-> writer[w].operation,
                 row |-> writer[w].row, version |-> writer[w].version]
<1>3. c \in Change
  BY <1>2, WriterFacts DEF Change
<1>4. log' = log \cup {c}
  BY DEF CommitChange
<1>5. /\ c.id = writer[w].id /\ c.operation = writer[w].operation
      /\ c.row = writer[w].row /\ c.version = writer[w].version
  OBVIOUS
<1>6. /\ misled \subseteq misled' /\ misled' \subseteq Records
      /\ late \subseteq late' /\ late' \subseteq late \cup {writer[w].id}
      /\ writer[w].id \in late' \/ ~Overtaken(writer[w].id)
      /\ writer[w].id \in late' \ late =>
           IF writer[w].row = None THEN misled' = Records ELSE writer[w].row \in misled'
  <2>1. /\ misled \subseteq Misled(w) /\ Misled(w) \subseteq Records /\ misled \subseteq Records
        /\ IF writer[w].row = None THEN Misled(w) = Records ELSE writer[w].row \in Misled(w)
    BY MisledFacts DEF FeedTypeOK
  <2>2. IF Overtaken(writer[w].id)
        THEN late' = late \cup {writer[w].id} /\ misled' = Misled(w)
        ELSE UNCHANGED <<late, misled>>
    BY DEF CommitChange
  <2> QED
    BY <2>1, <2>2
<1> HIDE DEF c
<1> QED
  BY <1>1, <1>2, <1>3, <1>4, <1>5, <1>6, WriterFacts DEF CommitChange

(* What the page does with an answer.                                      *)
Zeros == [r \in Records |-> 0]

LEMMA ReloadFacts ==
  ASSUME FeedTypeOK, Reload
  PROVE  \/ /\ reading.pc = "none" /\ reading'.pc = "sent" /\ reading'.rows = Zeros
            /\ reading' = [pc |-> "sent", rows |-> Zeros] /\ shown' = Zeros
         \/ reading.pc # "none" /\ UNCHANGED <<reading, shown>>
<1>1. [NoRead EXCEPT !.pc = "sent"] = [pc |-> "sent", rows |-> Zeros] /\ NoRead.rows = Zeros
  BY DEF NoRead, Zeros
<1> QED
  BY <1>1 DEF Reload

LEMMA RefreshFacts ==
  ASSUME FeedTypeOK, Written, IDsApart, NEW rows \in SUBSET log, Refresh(rows)
  PROVE  \/ Reload /\ UNCHANGED fetches
         \/ /\ \A c \in rows : c.operation \notin {"insert", "import"}
            /\ UNCHANGED reading
            /\ shown' = [r \in Records |->
                            IF \E c \in rows : c.operation = "delete" /\ c.row = r
                            THEN 0 ELSE shown[r]]
            /\ \E new \in Seq(Fetched) :
                 /\ fetches' = fetches \o new
                 /\ \A i \in 1 .. Len(new) :
                      /\ new[i].version = Pending
                      /\ \E c \in rows : c.operation = "update" /\ new[i].row = c.row
                 /\ \A c \in rows : c.operation = "update" =>
                      \E i \in 1 .. Len(new) : new[i].row = c.row
<1> DEFINE Of(op) == {c \in rows : c.operation = op}
           new == FetchRows(SetToSeq(Of("update")))
<1>1. CASE Reload /\ UNCHANGED fetches
  BY <1>1
<1>2. CASE /\ ~(Of("insert") \cup Of("import") # {})
           /\ shown' = [r \in Records |->
                            IF \E c \in Of("delete") : c.row = r THEN 0 ELSE shown[r]]
           /\ fetches' = fetches \o new
           /\ UNCHANGED reading
  <2>1. \A c \in Of("update") : c.row \in Records
    BY LogFacts DEF Written
  <2>2. IsFiniteSet(Of("update"))
    BY LogFinite
  <2>3. /\ new \in Seq(Fetched)
        /\ \A i \in 1 .. Len(new) : /\ new[i].version = Pending
                                    /\ \E c \in Of("update") : new[i].row = c.row
        /\ \A c \in Of("update") : \E i \in 1 .. Len(new) : new[i].row = c.row
    BY <2>1, <2>2, FetchRowsFacts
  <2> HIDE DEF new
  <2> QED
    BY <1>2, <2>3
<1> QED
  BY <1>1, <1>2 DEF Refresh

(* An answer to the page's poll moves the cursor to its end, and either    *)
(* nothing else, or the page is refreshed.                                 *)
LEMMA HandleFacts ==
  ASSUME FeedTypeOK, NEW p \in Polls, HandlePoll(p)
  PROVE  /\ poll[p].pc = "answered" /\ UNCHANGED <<server, filtered, opened, late, misled>>
         /\ missed \subseteq missed' /\ missed' \subseteq missed \cup Records
         /\ poll' \in [Polls -> Request(log)]
         /\ \A q \in Polls \ {p} : poll'[q] = poll[q]
         /\ poll'[p].pc = "idle" /\ poll'[p].rows = {} /\ poll'[p].cursor = 0
         /\ \/ /\ poll[p].rows = {}
               /\ UNCHANGED <<cursor, init, reading, fetches, shown, passed, handled>>
            \/ /\ poll[p].rows # {} /\ cursor' = LastID(poll[p].rows) /\ init' = TRUE
               /\ \/ /\ Refresh(poll[p].rows) /\ ReadBefore(poll[p].rows) \subseteq missed'
                     /\ handled' = handled \cup IDs(poll[p].rows) /\ UNCHANGED passed
                  \/ /\ passed' = passed \cup IDs(poll[p].rows)
                     /\ UNCHANGED <<reading, fetches, shown, handled>>
<1>1. poll' = [poll EXCEPT ![p] = PollIdle] /\ poll \in [Polls -> Request(log)]
  BY PollFacts DEF HandlePoll
<1>2. PollIdle.pc = "idle" /\ PollIdle.rows = {} /\ PollIdle.cursor = 0
  BY DEF PollIdle
<1>3. /\ poll' \in [Polls -> Request(log)]
      /\ \A q \in Polls \ {p} : poll'[q] = poll[q]
      /\ poll'[p] = PollIdle
  BY <1>1, PollFacts
<1>4. ReadBefore(poll[p].rows) \subseteq Records
  BY DEF ReadBefore
<1> QED
  BY <1>2, <1>3, <1>4 DEF HandlePoll

(* An answer to updateRow, and what the page does with it.                 *)
LEMMA AnswerFetchFacts ==
  ASSUME FeedTypeOK, NEW i \in 1 .. Len(fetches), AnswerFetch(i)
  PROVE  /\ UNCHANGED <<server, filtered, cursor, init, poll, reading, shown, history>>
         /\ fetches' \in Seq(Fetched) /\ Len(fetches') = Len(fetches)
         /\ fetches[i].version = Pending /\ fetches'[i].row = fetches[i].row
         /\ fetches'[i].version = stored[fetches[i].row]
         /\ \A j \in 1 .. Len(fetches) : j # i => fetches'[j] = fetches[j]
<1>1. /\ fetches \in Seq(Fetched) /\ fetches[i] \in Fetched /\ Len(fetches) \in Nat
      /\ stored \in [Records -> Versions] /\ fetches[i].row \in Records
  BY FetchFacts DEF FeedTypeOK
<1>2. PICK x : x = [fetches[i] EXCEPT !.version = stored[fetches[i].row]]
  OBVIOUS
<1>3. x.row = fetches[i].row /\ x.version = stored[fetches[i].row]
  BY <1>1, <1>2 DEF Fetched
<1>4. x \in Fetched
  <2>1. x = [row |-> x.row, version |-> x.version]
    BY <1>1, <1>2 DEF Fetched
  <2> QED
    BY <1>1, <1>3, <2>1 DEF Fetched
<1>5. fetches' = [fetches EXCEPT ![i] = x]
  BY <1>1, <1>2 DEF AnswerFetch, Fetched
<1> QED
  BY <1>1, <1>3, <1>4, <1>5 DEF AnswerFetch

LEMMA FailFetchFacts ==
  ASSUME FeedTypeOK, NEW i \in 1 .. Len(fetches), FailFetch(i)
  PROVE  /\ UNCHANGED <<server, filtered, cursor, init, poll, reading, shown, told>>
         /\ fetches' \in Seq(Fetched) /\ Len(fetches') = Len(fetches)
         /\ fetches[i].version = Pending /\ fetches'[i].row = fetches[i].row
         /\ fetches'[i].version = 0 /\ fetches[i].row \in Records
         /\ \A j \in 1 .. Len(fetches) : j # i => fetches'[j] = fetches[j]
         /\ missed' = missed \cup {fetches[i].row}
<1>1. /\ fetches \in Seq(Fetched) /\ fetches[i] \in Fetched /\ Len(fetches) \in Nat
      /\ 0 \in Versions /\ fetches[i].row \in Records
  BY FetchFacts, BoundFacts
<1>2. PICK x : x = [fetches[i] EXCEPT !.version = 0]
  OBVIOUS
<1>3. x.row = fetches[i].row /\ x.version = 0
  BY <1>1, <1>2 DEF Fetched
<1>4. x \in Fetched
  <2>1. x = [row |-> x.row, version |-> x.version]
    BY <1>1, <1>2 DEF Fetched
  <2> QED
    BY <1>1, <1>3, <2>1 DEF Fetched
<1>5. fetches' = [fetches EXCEPT ![i] = x]
  BY <1>1, <1>2 DEF FailFetch, Fetched
<1> QED
  BY <1>1, <1>3, <1>4, <1>5 DEF FailFetch

LEMMA ShowFetchFacts ==
  ASSUME FeedTypeOK, NEW i \in 1 .. Len(fetches), ShowFetch(i)
  PROVE  /\ UNCHANGED <<server, filtered, cursor, init, poll, reading, told>>
         /\ missed' = IF fetches[i].version # 0 /\ fetches[i].version < shown[fetches[i].row]
                      THEN missed \cup {fetches[i].row}
                      ELSE missed
         /\ fetches[i].row \in Records /\ fetches[i].version \in Versions
         /\ fetches' \in Seq(Fetched) /\ Len(fetches') \in Nat
         /\ \A j \in 1 .. Len(fetches') : \E k \in 1 .. Len(fetches) : fetches'[j] = fetches[k]
         /\ \A k \in 1 .. Len(fetches) : k # i =>
               \E j \in 1 .. Len(fetches') : fetches'[j] = fetches[k]
         /\ shown' = IF fetches[i].version # 0 /\ shown[fetches[i].row] # 0
                     THEN [shown EXCEPT ![fetches[i].row] = fetches[i].version]
                     ELSE shown
<1>1. /\ fetches \in Seq(Fetched) /\ Len(fetches) \in Nat /\ i \in Nat
      /\ fetches[i].row \in Records /\ fetches[i].version \in Versions \cup {Pending}
  BY FetchFacts
<1>2. /\ fetches' \in Seq(Fetched) /\ Len(fetches') = Len(fetches) - 1
      /\ \A j \in 1 .. Len(fetches) - 1 :
            fetches'[j] = IF j < i THEN fetches[j] ELSE fetches[j + 1]
  BY <1>1, RemoveAtFacts DEF ShowFetch
<1>3. ASSUME NEW j \in 1 .. Len(fetches')
      PROVE  \E k \in 1 .. Len(fetches) : fetches'[j] = fetches[k]
  <2>1. j \in 1 .. Len(fetches) /\ j + 1 \in 1 .. Len(fetches)
    BY <1>1, <1>2
  <2> QED
    BY <1>1, <1>2, <2>1
<1>4. ASSUME NEW k \in 1 .. Len(fetches), k # i
      PROVE  \E j \in 1 .. Len(fetches') : fetches'[j] = fetches[k]
  <2>1. CASE k < i
    <3>1. k \in 1 .. Len(fetches')
      BY <1>1, <1>2, <2>1
    <3> QED
      BY <1>2, <2>1, <3>1
  <2>2. CASE k > i
    <3>1. k - 1 \in 1 .. Len(fetches') /\ ~(k - 1 < i) /\ (k - 1) + 1 = k
      BY <1>1, <1>2, <2>2
    <3>2. fetches'[k - 1] = fetches[k]
      BY <1>2, <3>1
    <3> QED
      BY <3>1, <3>2
  <2> QED
    BY <1>1, <1>4, <2>1, <2>2
<1>5. Len(fetches') \in Nat
  BY <1>2
<1> QED
  BY <1>1, <1>2, <1>3, <1>4, <1>5 DEF ShowFetch

-----------------------------------------------------------------------------
(* Types and identifiers.                                                  *)
LEMMA FirstChanges ==
  ASSUME FeedInit
  PROVE  /\ log \subseteq Change
         /\ \A c \in log : /\ c.id \in 1 .. Earlier /\ c.operation = "import"
                            /\ c.row = None /\ c.version = 0
         /\ \A c, d \in log : c.id = d.id => c = d
<1>1. log = [id : 1 .. Earlier, operation : {"import"}, row : {None}, version : {0}]
  BY DEF FeedInit
<1>2. 1 .. Earlier \subseteq 1 .. MaxID /\ 0 \in Versions
  BY BoundFacts
<1> QED
  BY <1>1, <1>2 DEF Change, Operations

LEMMA FeedTypeInit == FeedInit => FeedTypeOK /\ Written /\ IDsApart
<1> SUFFICES ASSUME FeedInit PROVE FeedTypeOK /\ Written /\ IDsApart
  OBVIOUS
<1>1. /\ log \subseteq Change
      /\ \A c \in log : c.id \in 1 .. Earlier /\ c.operation = "import" /\ c.row = None
      /\ \A c, d \in log : c.id = d.id => c = d
  BY FirstChanges
<1>3. nextID \in 1 .. MaxID + 1 /\ \A c \in log : c.id < nextID
  BY <1>1, BoundFacts DEF FeedInit
<1>4. log \subseteq Change /\ opened \subseteq 1 .. MaxID
  BY <1>1, BoundFacts DEF FeedInit, IDs
<1>5. /\ version \in [Records -> Versions] /\ stored \in [Records -> Versions]
      /\ shown \in [Records -> Versions]
  BY BoundFacts DEF FeedInit
<1>6. writer \in [Writers -> Task] /\ \A w \in Writers : writer[w].pc = "idle"
  <2>1. WriterIdle \in Task /\ WriterIdle.pc = "idle"
    BY BoundFacts DEF WriterIdle, Task, Operations
  <2> QED
    BY <2>1 DEF FeedInit
<1>7. poll \in [Polls -> Request(log)]
  <2>1. PollIdle \in Request(log)
    BY BoundFacts DEF PollIdle, Request
  <2> QED
    BY <2>1 DEF FeedInit
<1>8. /\ reading = [pc |-> "sent", rows |-> Zeros]
      /\ reading \in [pc : {"none", "sent", "answered"}, rows : [Records -> Versions]]
  BY BoundFacts DEF FeedInit, NoRead, Zeros
<1>9. fetches = << >> /\ cursor = 0 /\ init = FALSE /\ filtered \in BOOLEAN
      /\ passed = {} /\ handled = {} /\ misled = {} /\ late = {} /\ missed = {}
  BY DEF FeedInit
<1>10. FeedTypeOK
  <2>1. cursor \in 0 .. MaxID
    BY <1>9, BoundFacts
  <2>3. init \in BOOLEAN
    BY <1>9, Zenon
  <2>2. fetches \in Seq(Fetched)
    BY <1>9
  <2> QED
    BY <1>3, <1>4, <1>5, <1>6, <1>7, <1>8, <1>9, <2>1, <2>2, <2>3
    DEF FeedTypeOK, Task, Request, Fetched
<1>11. Written
  <2>1. \A r \in Records : shown[r] = 0 /\ reading.rows[r] = 0
    BY <1>8 DEF FeedInit, Zeros
  <2>2. \A r \in Records : stored[r] = version[r] /\ (stored[r] # 0 => version[r] > 0)
    BY <1>5 DEF FeedInit
  <2>3. \A c \in log : c.operation = "import" /\ c.row = None
    BY <1>1
  <2> QED
    BY <1>6, <1>9, <2>1, <2>2, <2>3, BoundFacts DEF Written, Writing, Tells
<1>12. IDsApart
  BY <1>1, <1>3, <1>6, <1>9 DEF IDsApart, Writing, Reached, FeedInit
<1> QED
  BY <1>10, <1>11, <1>12

LEMMA FeedTypeStep ==
  ASSUME FeedTypeOK, Written, IDsApart, [FeedNext]_feedVars
  PROVE  FeedTypeOK' /\ log \subseteq log'
<1> USE DEF server, page, told, history
<1>0. /\ version \in [Records -> Versions] /\ stored \in [Records -> Versions]
      /\ log \subseteq Change /\ nextID \in 1 .. MaxID + 1
      /\ writer \in [Writers -> Task] /\ filtered \in BOOLEAN
      /\ cursor \in 0 .. MaxID /\ init \in BOOLEAN
      /\ poll \in [Polls -> Request(log)]
      /\ reading \in [pc : {"none", "sent", "answered"}, rows : [Records -> Versions]]
      /\ fetches \in Seq(Fetched) /\ shown \in [Records -> Versions]
      /\ opened \subseteq 1 .. MaxID /\ passed \subseteq 1 .. MaxID
      /\ handled \subseteq 1 .. MaxID /\ misled \subseteq Records
      /\ late \subseteq 1 .. MaxID /\ missed \subseteq Records
  BY DEF FeedTypeOK, Task, Request, Fetched
<1> SUFFICES
      /\ version' \in [Records -> Versions] /\ stored' \in [Records -> Versions]
      /\ log' \subseteq Change /\ nextID' \in 1 .. MaxID + 1 /\ log \subseteq log'
      /\ writer' \in [Writers -> Task] /\ filtered' \in BOOLEAN
      /\ cursor' \in 0 .. MaxID /\ init' \in BOOLEAN
      /\ poll' \in [Polls -> Request(log')]
      /\ reading' \in [pc : {"none", "sent", "answered"}, rows : [Records -> Versions]]
      /\ fetches' \in Seq(Fetched) /\ shown' \in [Records -> Versions]
      /\ opened' \subseteq 1 .. MaxID /\ passed' \subseteq 1 .. MaxID
      /\ handled' \subseteq 1 .. MaxID /\ misled' \subseteq Records
      /\ late' \subseteq 1 .. MaxID /\ missed' \subseteq Records
  BY DEF FeedTypeOK, Task, Request, Fetched
<1>z. Zeros \in [Records -> Versions]
  BY BoundFacts DEF Zeros
<1>1. CASE UNCHANGED feedVars
  BY <1>0, <1>1 DEF feedVars
<1>2. ASSUME NEW w \in Writers, NEW r \in Records, Add(w, r) \/ Modify(w, r) \/ Delete(w, r)
      PROVE  /\ UNCHANGED <<log, nextID, page, opened, passed, handled, late, missed>>
             /\ writer' \in [Writers -> Task] /\ misled' \subseteq Records
             /\ version' \in [Records -> Versions] /\ stored' \in [Records -> Versions]
  BY <1>2, BeginFacts
<1>3. ASSUME NEW w \in Writers, StartImport(w) \/ EndImport(w)
      PROVE  UNCHANGED <<version, stored, log, nextID, page, history>> /\ writer' \in [Writers -> Task]
  BY <1>3, StartImportFacts, EndImportFacts
<1>4. ASSUME NEW w \in Writers, NEW r \in Records, ImportRecord(w, r)
      PROVE  /\ UNCHANGED <<log, nextID, writer, page, history>>
             /\ version' \in [Records -> Versions] /\ stored' \in [Records -> Versions]
  BY <1>4, ImportRecordFacts
<1>5. ASSUME NEW w \in Writers, TakeID(w)
      PROVE  /\ UNCHANGED <<version, stored, log, page, opened, passed, handled, late, missed>>
             /\ writer' \in [Writers -> Task] /\ nextID' \in 1 .. MaxID + 1
             /\ misled' \subseteq Records
  <2>1. /\ UNCHANGED <<version, stored, log, page, opened, passed, handled, late, missed>>
        /\ writer' \in [Writers -> Task]
        /\ \/ nextID \in 1 .. MaxID /\ nextID' = nextID + 1 /\ UNCHANGED misled
           \/ UNCHANGED nextID /\ misled' \subseteq Records
    BY <1>5, TakeIDFacts
  <2> QED
    BY <1>0, <2>1, BoundFacts
<1>6. ASSUME NEW w \in Writers, CommitChange(w)
      PROVE  /\ UNCHANGED <<version, stored, nextID, page, opened, passed, handled, missed>>
             /\ writer' \in [Writers -> Task] /\ log' \subseteq Change /\ log \subseteq log'
             /\ misled' \subseteq Records /\ late' \subseteq 1 .. MaxID
  BY <1>0, <1>6, CommitFacts
<1>l. ASSUME NEW w \in Writers, NEW r \in Records, LinkRecord(w, r)
      PROVE  /\ UNCHANGED <<log, nextID, writer, page, opened, passed, handled, late, missed>>
             /\ version' \in [Records -> Versions] /\ stored' \in [Records -> Versions]
             /\ misled' \subseteq Records
  BY <1>0, <1>l, LinkRecordFacts
<1>7. CASE \E w \in Writers : Write(w)
  BY <1>0, <1>2, <1>3, <1>4, <1>5, <1>6, <1>7, <1>l DEF Write, Request
<1>8. CASE ReloadButton
  BY <1>0, <1>8, <1>z, ReloadFacts DEF ReloadButton
<1>9. CASE AnswerRead \/ FailRead
  <2>1. [NoRead EXCEPT !.pc = "answered"] = [pc |-> "answered", rows |-> Zeros]
    BY DEF NoRead, Zeros
  <2>2. CASE AnswerRead
    BY <1>0, <2>2 DEF AnswerRead
  <2>3. CASE FailRead
    BY <1>0, <1>z, <2>1, <2>3 DEF FailRead
  <2> QED
    BY <1>9, <2>2, <2>3
<1>10. CASE ShowRead
  <2>1. NoRead = [pc |-> "none", rows |-> Zeros]
    BY DEF NoRead, Zeros
  <2> QED
    BY <1>0, <1>10, <1>z, <2>1 DEF ShowRead
<1>11. CASE Fetch
  <2>1. ASSUME NEW i \in 1 .. Len(fetches), AnswerFetch(i)
        PROVE  /\ UNCHANGED <<server, filtered, cursor, init, poll, reading, shown, history>>
               /\ fetches' \in Seq(Fetched)
    BY <2>1, AnswerFetchFacts
  <2>2. ASSUME NEW i \in 1 .. Len(fetches), ShowFetch(i)
        PROVE  /\ UNCHANGED <<server, filtered, cursor, init, poll, reading, told>>
               /\ fetches' \in Seq(Fetched) /\ shown' \in [Records -> Versions]
               /\ missed' \subseteq Records
    <3>1. fetches[i].row \in Records /\ missed' \in {missed, missed \cup {fetches[i].row}}
      BY <2>2, ShowFetchFacts
    <3> QED
      BY <1>0, <2>2, <3>1, ShowFetchFacts
  <2>3. ASSUME NEW i \in 1 .. Len(fetches), FailFetch(i)
        PROVE  /\ UNCHANGED <<server, filtered, cursor, init, poll, reading, shown, told>>
               /\ fetches' \in Seq(Fetched) /\ missed' \subseteq Records
    BY <1>0, <2>3, FailFetchFacts
  <2> QED
    BY <1>0, <1>11, <2>1, <2>2, <2>3 DEF Fetch
<1>12. ASSUME NEW p \in Polls, Follow(p)
       PROVE  /\ UNCHANGED server /\ UNCHANGED <<filtered, opened, late, misled>>
              /\ missed' \subseteq Records
              /\ cursor' \in 0 .. MaxID /\ init' \in BOOLEAN
              /\ poll' \in [Polls -> Request(log)]
              /\ reading' \in [pc : {"none", "sent", "answered"}, rows : [Records -> Versions]]
              /\ fetches' \in Seq(Fetched) /\ shown' \in [Records -> Versions]
              /\ passed' \subseteq 1 .. MaxID /\ handled' \subseteq 1 .. MaxID
  <2>1. CASE SendPoll(p)
    BY <1>0, <2>1, SetPollFacts DEF SendPoll
  <2>2. CASE AnswerPoll(p) \/ FailPoll(p)
    BY <1>0, <2>2, AnswerPollFacts DEF AnswerPoll, FailPoll
  <2>3. CASE HandlePoll(p)
    <3> DEFINE rows == poll[p].rows
    <3>1. rows \in SUBSET log /\ IDs(rows) \subseteq 1 .. MaxID
      BY PollFacts, LogFacts DEF IDs
    <3> HIDE DEF rows
    <3>2. /\ UNCHANGED <<server, filtered, opened, late, misled>> /\ missed' \subseteq Records
          /\ poll' \in [Polls -> Request(log)]
          /\ \/ UNCHANGED <<cursor, init, reading, fetches, shown, passed, handled>>
             \/ /\ rows # {} /\ cursor' = LastID(rows) /\ init' = TRUE
                /\ \/ /\ Refresh(rows)
                      /\ handled' = handled \cup IDs(rows) /\ UNCHANGED passed
                   \/ /\ passed' = passed \cup IDs(rows)
                      /\ UNCHANGED <<reading, fetches, shown, handled>>
      BY <1>0, <2>3, HandleFacts DEF rows
    <3>3. rows # {} => LastID(rows) \in 0 .. MaxID
      BY <3>1, LastIDFacts
    <3>4. ASSUME Refresh(rows)
          PROVE  /\ reading' \in [pc : {"none", "sent", "answered"}, rows : [Records -> Versions]]
                 /\ fetches' \in Seq(Fetched) /\ shown' \in [Records -> Versions]
      <4>1. CASE Reload /\ UNCHANGED fetches
        BY <1>0, <1>z, <4>1, ReloadFacts
      <4>2. CASE /\ UNCHANGED reading
                 /\ shown' = [r \in Records |->
                                 IF \E c \in rows : c.operation = "delete" /\ c.row = r
                                 THEN 0 ELSE shown[r]]
                 /\ \E new \in Seq(Fetched) : fetches' = fetches \o new
        <5>1. fetches' \in Seq(Fetched)
          BY <1>0, <4>2
        <5> QED
          BY <1>0, <4>2, <5>1, BoundFacts
      <4> QED
        BY <3>1, <3>4, <4>1, <4>2, RefreshFacts
    <3> QED
      BY <1>0, <3>1, <3>2, <3>3, <3>4
  <2> QED
    BY <1>12, <2>1, <2>2, <2>3 DEF Follow
<1>13. CASE \E p \in Polls : Follow(p)
  BY <1>0, <1>12, <1>13
<1>14. FeedNext \/ UNCHANGED feedVars
  OBVIOUS
<1> QED
  BY <1>1, <1>7, <1>8, <1>9, <1>10, <1>11, <1>13, <1>14, Zenon DEF FeedNext

-----------------------------------------------------------------------------
(* What is announced has been written.                                     *)
TaskWritten(t) ==
  /\ t.pc # "idle" => (t.operation = "import" <=> t.row = None)
  /\ t.pc = "import" => t.operation = "import"
  /\ t.pc \in {"log", "commit"} /\ t.row # None =>
        /\ t.version <= version[t.row]
        /\ t.operation # "insert" => version[t.row] > 0

ChangeWritten(c) ==
  /\ (c.operation = "import" <=> c.row = None)
  /\ c.row # None => /\ c.version <= version[c.row]
                     /\ c.operation # "insert" => version[c.row] > 0

FetchWritten(f) ==
  /\ version[f.row] > 0
  /\ f.version <= version[f.row]

LEMMA WrittenParts ==
  Written <=> /\ \A w \in Writers : TaskWritten(writer[w])
              /\ \A c \in log : ChangeWritten(c)
              /\ \A r \in Records :
                    /\ stored[r] \in {0, version[r]}
                    /\ {stored[r], shown[r], reading.rows[r]} # {0} => version[r] > 0
              /\ \A i \in 1 .. Len(fetches) : FetchWritten(fetches[i])
  BY DEF Written, TaskWritten, ChangeWritten, FetchWritten, Writing, Tells

LEMMA NextWrittenParts ==
  Written' <=> /\ \A w \in Writers : TaskWritten(writer[w])'
               /\ \A c \in log' : ChangeWritten(c)'
               /\ \A r \in Records :
                     /\ stored'[r] \in {0, version'[r]}
                     /\ {stored[r], shown[r], reading.rows[r]}' # {0} => version'[r] > 0
               /\ \A i \in 1 .. Len(fetches') : FetchWritten(fetches[i])'
  BY DEF Written, TaskWritten, ChangeWritten, FetchWritten, Writing, Tells

LEMMA VersionGrows ==
  ASSUME FeedTypeOK, FeedTypeOK', Written, IDsApart, [FeedNext]_feedVars, NEW r \in Records
  PROVE  version[r] \in Nat /\ version'[r] \in Nat /\ version[r] <= version'[r]
<1> USE DEF server, page, told, history
<1>0. version[r] \in Nat /\ version'[r] \in Nat
  BY BoundFacts DEF FeedTypeOK
<1>1. ASSUME NEW w \in Writers, Write(w) PROVE version[r] <= version'[r]
  <2>1. ASSUME NEW x \in Records, Add(w, x) \/ Modify(w, x) \/ Delete(w, x)
        PROVE  version[r] <= version'[r]
    <3>1. version'[x] >= version[x] /\ (r # x => version'[r] = version[r])
      BY <2>1, BeginFacts
    <3> QED
      BY <1>0, <3>1
  <2>2. ASSUME NEW x \in Records, ImportRecord(w, x)
        PROVE  version[r] <= version'[r]
    <3>1. version'[x] = 1 /\ version[x] = 0 /\ (r # x => version'[r] = version[r])
      BY <2>2, ImportRecordFacts
    <3> QED
      BY <1>0, <3>1
  <2>4. ASSUME NEW x \in Records, LinkRecord(w, x)
        PROVE  version[r] <= version'[r]
    <3>1. version'[x] = 1 /\ version[x] = 0 /\ (r # x => version'[r] = version[r])
      BY <2>4, LinkRecordFacts
    <3> QED
      BY <1>0, <3>1
  <2>3. CASE StartImport(w) \/ EndImport(w) \/ TakeID(w) \/ CommitChange(w)
    BY <1>0, <2>3 DEF StartImport, EndImport, TakeID, CommitChange
  <2> QED
    BY <1>1, <2>1, <2>2, <2>3, <2>4 DEF Write
<1>2. CASE UNCHANGED feedVars \/ ReloadButton \/ AnswerRead \/ FailRead \/ ShowRead
           \/ Fetch \/ \E p \in Polls : Follow(p)
  <2>1. UNCHANGED version
    BY <1>2 DEF feedVars, ReloadButton, AnswerRead, FailRead, ShowRead, Fetch, AnswerFetch,
       FailFetch, ShowFetch, Follow, SendPoll, AnswerPoll, FailPoll, HandlePoll
  <2> QED
    BY <1>0, <2>1
<1>3. FeedNext \/ UNCHANGED feedVars
  OBVIOUS
<1> QED
  BY <1>1, <1>0, <1>2, <1>3, Zenon DEF FeedNext

LEMMA WrittenStep ==
  ASSUME FeedTypeOK, FeedTypeOK', Written, IDsApart, [FeedNext]_feedVars
  PROVE  Written'
<1> USE DEF server, page, told, history
<1>g. \A r \in Records : version[r] \in Nat /\ version'[r] \in Nat /\ version[r] <= version'[r]
  BY VersionGrows
<1>0. /\ \A w \in Writers : TaskWritten(writer[w])
      /\ \A c \in log : ChangeWritten(c)
      /\ \A r \in Records :
            /\ stored[r] \in {0, version[r]}
            /\ {stored[r], shown[r], reading.rows[r]} # {0} => version[r] > 0
      /\ \A i \in 1 .. Len(fetches) : FetchWritten(fetches[i])
  BY WrittenParts
<1>a. ASSUME NEW w \in Writers, writer'[w] = writer[w] PROVE TaskWritten(writer[w])'
  <2>1. writer[w].row \in Records \cup {None} /\ writer[w].version \in Nat
    BY WriterFacts, BoundFacts
  <2>2. TaskWritten(writer[w])
    BY <1>0
  <2> QED
    BY <1>a, <1>g, <2>1, <2>2 DEF TaskWritten
<1>b. ASSUME NEW c \in log PROVE ChangeWritten(c)'
  <2>1. c.row \in Records \cup {None} /\ c.version \in Nat
    BY LogFacts, BoundFacts
  <2>2. ChangeWritten(c)
    BY <1>0
  <2> QED
    BY <1>g, <2>1, <2>2 DEF ChangeWritten
<1>c. ASSUME UNCHANGED <<shown, reading>>,
             NEW x \in Records, version'[x] > 0,
             stored'[x] \in {0, version'[x]} \/ UNCHANGED <<version, stored>>,
             \A y \in Records \ {x} : version'[y] = version[y] /\ stored'[y] = stored[y]
      PROVE  \A r \in Records :
                /\ stored'[r] \in {0, version'[r]}
                /\ {stored[r], shown[r], reading.rows[r]}' # {0} => version'[r] > 0
  <2> SUFFICES ASSUME NEW r \in Records
               PROVE  /\ stored'[r] \in {0, version'[r]}
                      /\ {stored'[r], shown'[r], reading'.rows[r]} # {0} => version'[r] > 0
    OBVIOUS
  <2>1. CASE r = x
    BY <1>0, <1>c, <2>1
  <2>2. CASE r # x
    BY <1>0, <1>c, <2>2
  <2> QED
    BY <2>1, <2>2
<1>d. ASSUME UNCHANGED fetches
      PROVE  \A i \in 1 .. Len(fetches') : FetchWritten(fetches[i])'
  <2> SUFFICES ASSUME NEW i \in 1 .. Len(fetches)
               PROVE  /\ version'[fetches[i].row] > 0
                      /\ fetches[i].version <= version'[fetches[i].row]
    BY <1>d DEF FetchWritten
  <2>1. /\ fetches[i].row \in Records /\ FetchWritten(fetches[i])
        /\ fetches[i].version \in Int
    <3>1. /\ fetches[i].row \in Records /\ fetches[i].version \in Versions \cup {Pending}
      BY FetchFacts
    <3>2. fetches[i].version \in Int
      <4>1. Versions \cup {Pending} \subseteq Int
        BY BoundFacts
      <4> QED
        BY <3>1, <4>1, Zenon
    <3> QED
      BY <1>0, <3>1, <3>2
  <2> QED
    BY <1>g, <2>1 DEF FetchWritten
<1>e. ASSUME UNCHANGED <<version, stored>>,
             {stored', shown', reading'.rows} \subseteq {stored, shown, reading.rows, Zeros}
      PROVE  \A r \in Records :
                /\ stored'[r] \in {0, version'[r]}
                /\ {stored[r], shown[r], reading.rows[r]}' # {0} => version'[r] > 0
  <2> SUFFICES ASSUME NEW r \in Records, {stored'[r], shown'[r], reading'.rows[r]} # {0}
               PROVE  version[r] > 0
    BY <1>0, <1>e
  <2>1. {stored'[r], shown'[r], reading'.rows[r]} \subseteq {stored[r], shown[r], reading.rows[r], 0}
    BY <1>e DEF Zeros
  <2>2. {stored[r], shown[r], reading.rows[r]} # {0}
    BY <2>1
  <2> QED
    BY <1>0, <2>2
<1>1. ASSUME NEW w \in Writers, NEW x \in Records, Add(w, x) \/ Modify(w, x) \/ Delete(w, x)
      PROVE  Written'
  <2>1. /\ UNCHANGED <<log, shown, reading, fetches>>
        /\ \A u \in Writers \ {w} : writer'[u] = writer[u]
        /\ writer'[w].pc = "log" /\ writer'[w].row = x
        /\ writer'[w].operation \in {"insert", "update", "delete"}
        /\ writer'[w].version = version'[x] /\ version'[x] > 0
        /\ stored'[x] \in {0, version'[x]} \/ UNCHANGED <<version, stored>>
        /\ \A y \in Records \ {x} : version'[y] = version[y] /\ stored'[y] = stored[y]
    BY <1>1, BeginFacts
  <2>2. TaskWritten(writer[w])'
    BY <1>g, <2>1, BoundFacts DEF TaskWritten
  <2>3. \A r \in Records :
          /\ stored'[r] \in {0, version'[r]}
          /\ {stored[r], shown[r], reading.rows[r]}' # {0} => version'[r] > 0
    BY <1>c, <2>1
  <2> QED
    BY <1>a, <1>b, <1>d, <2>1, <2>2, <2>3, NextWrittenParts
<1>2. ASSUME NEW w \in Writers, StartImport(w) \/ EndImport(w)
      PROVE  Written'
  <2>1. CASE StartImport(w)
    <3>1. /\ UNCHANGED <<version, stored, log, shown, reading, fetches>>
          /\ \A u \in Writers \ {w} : writer'[u] = writer[u]
          /\ writer'[w].operation = "import" /\ writer'[w].row = None
      BY <2>1, StartImportFacts
    <3>2. TaskWritten(writer[w])'
      BY <3>1 DEF TaskWritten
    <3> QED
      BY <1>a, <1>b, <1>d, <1>e, <3>1, <3>2, NextWrittenParts
  <2>2. CASE EndImport(w)
    <3>1. /\ UNCHANGED <<version, stored, log, shown, reading, fetches>>
          /\ \A u \in Writers \ {w} : writer'[u] = writer[u]
          /\ writer'[w].operation = writer[w].operation
          /\ writer'[w].row = writer[w].row /\ writer[w].pc = "import"
      BY <2>2, EndImportFacts DEF Writing
    <3>2. writer[w].operation = "import" <=> writer[w].row = None
      BY <1>0, <3>1 DEF TaskWritten
    <3>3. TaskWritten(writer[w])'
      <4>1. writer[w].operation = "import"
        BY <1>0, <3>1 DEF TaskWritten
      <4> QED
        BY <3>1, <3>2, <4>1 DEF TaskWritten
    <3> QED
      BY <1>a, <1>b, <1>d, <1>e, <3>1, <3>3, NextWrittenParts
  <2> QED
    BY <1>2, <2>1, <2>2
<1>3. ASSUME NEW w \in Writers, NEW x \in Records, ImportRecord(w, x) \/ LinkRecord(w, x)
      PROVE  Written'
  <2>1. /\ UNCHANGED <<writer, log, shown, reading, fetches>>
        /\ version'[x] = 1 /\ stored'[x] = 1
        /\ \A y \in Records \ {x} : version'[y] = version[y] /\ stored'[y] = stored[y]
    BY <1>3, ImportRecordFacts, LinkRecordFacts
  <2>2. \A r \in Records :
          /\ stored'[r] \in {0, version'[r]}
          /\ {stored[r], shown[r], reading.rows[r]}' # {0} => version'[r] > 0
    BY <1>c, <2>1
  <2> QED
    BY <1>a, <1>b, <1>d, <2>1, <2>2, NextWrittenParts
<1>4. ASSUME NEW w \in Writers, TakeID(w)
      PROVE  Written'
  <2>1. /\ UNCHANGED <<version, stored, log, shown, reading, fetches>>
        /\ \A u \in Writers \ {w} : writer'[u] = writer[u]
        /\ writer[w].pc = "log"
        /\ \/ /\ writer'[w].pc = "commit"
              /\ writer'[w].operation = writer[w].operation
              /\ writer'[w].row = writer[w].row /\ writer'[w].version = writer[w].version
           \/ writer'[w] = WriterIdle
    BY <1>4, TakeIDFacts DEF Writing
  <2>2. TaskWritten(writer[w])
    BY <1>0
  <2>3. TaskWritten(writer[w])'
    BY <2>1, <2>2 DEF TaskWritten, WriterIdle
  <2> QED
    BY <1>a, <1>b, <1>d, <1>e, <2>1, <2>3, NextWrittenParts
<1>5. ASSUME NEW w \in Writers, CommitChange(w)
      PROVE  Written'
  <2>1. /\ UNCHANGED <<version, stored, shown, reading, fetches>>
        /\ \A u \in Writers \ {w} : writer'[u] = writer[u]
        /\ writer[w].pc = "commit" /\ writer'[w] = WriterIdle
    BY <1>5, CommitFacts DEF Writing
  <2>2. PICK c \in Change :
          /\ log' = log \cup {c}
          /\ c.operation = writer[w].operation
          /\ c.row = writer[w].row /\ c.version = writer[w].version
    BY <1>5, CommitFacts
  <2>3. TaskWritten(writer[w])
    BY <1>0
  <2>4. ChangeWritten(c)'
    BY <2>1, <2>2, <2>3 DEF ChangeWritten, TaskWritten
  <2>5. TaskWritten(writer[w])'
    BY <2>1 DEF TaskWritten, WriterIdle
  <2>6. \A d \in log' : ChangeWritten(d)'
    BY <1>b, <2>2, <2>4
  <2> QED
    BY <1>a, <1>d, <1>e, <2>1, <2>5, <2>6, NextWrittenParts
<1>6. CASE UNCHANGED feedVars \/ ReloadButton \/ AnswerRead \/ FailRead \/ ShowRead
  <2>1. UNCHANGED <<version, stored, writer, log, fetches>>
    BY <1>6 DEF feedVars, ReloadButton, AnswerRead, FailRead, ShowRead
  <2>2. {stored', shown', reading'.rows} \subseteq {stored, shown, reading.rows, Zeros}
    <3>1. CASE FailRead
      BY <3>1 DEF FailRead, NoRead, Zeros
    <3> QED
      BY <1>6, <3>1, ReloadFacts DEF feedVars, ReloadButton, AnswerRead, ShowRead, NoRead, Zeros
  <2> QED
    BY <1>a, <1>b, <1>d, <1>e, <2>1, <2>2, NextWrittenParts
<1>7. ASSUME NEW i \in 1 .. Len(fetches), AnswerFetch(i) \/ FailFetch(i)
      PROVE  Written'
  <2>1. /\ UNCHANGED <<version, stored, writer, log, shown, reading>>
        /\ Len(fetches') = Len(fetches)
        /\ \A j \in 1 .. Len(fetches) : j # i => fetches'[j] = fetches[j]
        /\ fetches'[i].row = fetches[i].row
        /\ fetches'[i].version \in {0, stored[fetches[i].row]}
    BY <1>7, AnswerFetchFacts, FailFetchFacts
  <2>2. FetchWritten(fetches[i])'
    <3>1. fetches[i].row \in Records /\ FetchWritten(fetches[i])
      BY <1>0, FetchFacts
    <3>2. stored[fetches[i].row] \in {0, version[fetches[i].row]} /\ version[fetches[i].row] \in Nat
      BY <1>0, <1>g, <3>1
    <3> QED
      BY <2>1, <3>1, <3>2 DEF FetchWritten
  <2>3. ASSUME NEW j \in 1 .. Len(fetches') PROVE FetchWritten(fetches[j])'
    <3>1. CASE j = i
      BY <2>2, <3>1
    <3>2. CASE j # i
      <4>1. FetchWritten(fetches[j])
        BY <1>0, <2>1
      <4> QED
        BY <2>1, <3>2, <4>1 DEF FetchWritten
    <3> QED
      BY <3>1, <3>2
  <2> QED
    BY <1>a, <1>b, <1>e, <2>1, <2>3, NextWrittenParts
<1>8. ASSUME NEW i \in 1 .. Len(fetches), ShowFetch(i)
      PROVE  Written'
  <2>1. /\ UNCHANGED <<version, stored, writer, log, reading>>
        /\ \A j \in 1 .. Len(fetches') : \E k \in 1 .. Len(fetches) : fetches'[j] = fetches[k]
        /\ fetches[i].row \in Records
        /\ \/ shown' = [shown EXCEPT ![fetches[i].row] = fetches[i].version]
           \/ shown' = shown
    BY <1>8, ShowFetchFacts
  <2>2. version[fetches[i].row] > 0 /\ shown \in [Records -> Versions]
    BY <1>0 DEF FeedTypeOK, FetchWritten
  <2>3. \A r \in Records : shown'[r] = shown[r] \/ version[r] > 0
    BY <2>1, <2>2
  <2>4. ASSUME NEW r \in Records
        PROVE  /\ stored'[r] \in {0, version'[r]}
               /\ {stored'[r], shown'[r], reading'.rows[r]} # {0} => version'[r] > 0
    BY <1>0, <2>1, <2>3, <2>4
  <2>5. ASSUME NEW j \in 1 .. Len(fetches') PROVE FetchWritten(fetches[j])'
    <3>1. PICK k \in 1 .. Len(fetches) : fetches'[j] = fetches[k]
      BY <2>1
    <3>2. FetchWritten(fetches[k])
      BY <1>0
    <3> QED
      BY <2>1, <3>1, <3>2 DEF FetchWritten
  <2> QED
    BY <1>a, <1>b, <2>1, <2>4, <2>5, NextWrittenParts
<1>9. ASSUME NEW p \in Polls, SendPoll(p) \/ AnswerPoll(p) \/ FailPoll(p)
      PROVE  Written'
  <2>1. UNCHANGED <<version, stored, writer, log, shown, reading, fetches>>
    BY <1>9 DEF SendPoll, AnswerPoll, FailPoll
  <2> QED
    BY <1>a, <1>b, <1>d, <1>e, <2>1, NextWrittenParts
<1>10. ASSUME NEW p \in Polls, HandlePoll(p)
       PROVE  Written'
  <2> DEFINE rows == poll[p].rows
  <2>1. rows \in SUBSET log
    BY PollFacts
  <2> HIDE DEF rows
  <2>2. /\ UNCHANGED <<version, stored, writer, log>>
        /\ UNCHANGED <<shown, reading, fetches>> \/ Refresh(rows)
    BY <1>10, HandleFacts DEF rows
  <2>3. CASE UNCHANGED <<shown, reading, fetches>> \/ (Reload /\ UNCHANGED fetches)
    <3>1. {stored', shown', reading'.rows} \subseteq {stored, shown, reading.rows, Zeros}
      BY <2>2, <2>3, ReloadFacts
    <3>2. UNCHANGED fetches
      BY <2>3
    <3> QED
      BY <1>a, <1>b, <1>d, <1>e, <2>2, <3>1, <3>2, NextWrittenParts
  <2>4. CASE Refresh(rows) /\ ~(Reload /\ UNCHANGED fetches)
    <3>1. PICK new \in Seq(Fetched) :
            /\ UNCHANGED reading /\ fetches' = fetches \o new
            /\ shown' = [r \in Records |->
                            IF \E c \in rows : c.operation = "delete" /\ c.row = r
                            THEN 0 ELSE shown[r]]
            /\ \A i \in 1 .. Len(new) :
                  /\ new[i].version = Pending
                  /\ \E c \in rows : c.operation = "update" /\ new[i].row = c.row
      BY <2>1, <2>4, RefreshFacts
    <3>2. ASSUME NEW r \in Records
          PROVE  /\ stored'[r] \in {0, version'[r]}
                 /\ {stored'[r], shown'[r], reading'.rows[r]} # {0} => version'[r] > 0
      BY <1>0, <2>2, <3>1, <3>2
    <3>3. fetches \in Seq(Fetched)
      BY DEF FeedTypeOK, Fetched
    <3>4. ASSUME NEW i \in 1 .. Len(new)
          PROVE  version[new[i].row] > 0 /\ new[i].version = Pending
      <4>1. PICK c \in rows : c.operation = "update" /\ new[i].row = c.row
        BY <3>1
      <4>2. ChangeWritten(c)
        BY <1>0, <2>1
      <4> QED
        BY <3>1, <4>1, <4>2 DEF ChangeWritten
    <3>5. \A i \in 1 .. Len(fetches') :
            \/ i \in 1 .. Len(fetches) /\ fetches'[i] = fetches[i]
            \/ i - Len(fetches) \in 1 .. Len(new) /\ fetches'[i] = new[i - Len(fetches)]
      <4>1. /\ Len(fetches') = Len(fetches) + Len(new)
            /\ Len(fetches) \in Nat /\ Len(new) \in Nat
            /\ \A i \in 1 .. Len(fetches) + Len(new) : fetches'[i] =
                  IF i <= Len(fetches) THEN fetches[i] ELSE new[i - Len(fetches)]
        BY <3>1, <3>3, ConcatProperties, LenProperties
      <4> QED
        BY <4>1
    <3>6. ASSUME NEW i \in 1 .. Len(fetches') PROVE FetchWritten(fetches[i])'
      <4>1. CASE i \in 1 .. Len(fetches) /\ fetches'[i] = fetches[i]
        <5>1. FetchWritten(fetches[i])
          BY <1>0, <4>1
        <5> QED
          BY <2>2, <4>1, <5>1 DEF FetchWritten
      <4>2. CASE i - Len(fetches) \in 1 .. Len(new) /\ fetches'[i] = new[i - Len(fetches)]
        <5>1. PICK j \in 1 .. Len(new) : fetches'[i] = new[j]
          BY <4>2
        <5>2. new[j].row \in Records
          <6>1. new[j] \in Fetched
            BY <3>1
          <6> QED
            BY <6>1 DEF Fetched
        <5>3. version[new[j].row] \in Nat
          BY <1>g, <5>2
        <5> QED
          BY <2>2, <3>4, <5>1, <5>3, BoundFacts DEF FetchWritten
      <4> QED
        BY <3>5, <4>1, <4>2
    <3> QED
      BY <1>a, <1>b, <2>2, <3>2, <3>6, NextWrittenParts
  <2> QED
    BY <2>2, <2>3, <2>4
<1>11. CASE \E w \in Writers : Write(w)
  BY <1>1, <1>2, <1>3, <1>4, <1>5, <1>11 DEF Write
<1>12. CASE Fetch
  BY <1>7, <1>8, <1>12 DEF Fetch
<1>13. CASE \E p \in Polls : Follow(p)
  BY <1>9, <1>10, <1>13 DEF Follow
<1>14. FeedNext \/ UNCHANGED feedVars
  OBVIOUS
<1> QED
  BY <1>6, <1>11, <1>12, <1>13, <1>14, Zenon DEF FeedNext

-----------------------------------------------------------------------------
(* Identifiers are given out once.                                         *)
LEMMA IDsApartStep ==
  ASSUME FeedTypeOK, Written, IDsApart, [FeedNext]_feedVars
  PROVE  IDsApart'
<1> USE DEF server, page, told, history
<1>0. /\ nextID \in 1 .. MaxID + 1 /\ \A w \in Writers : writer[w].id \in 0 .. MaxID
      /\ \A c \in log : c.id \in 1 .. MaxID
  BY WriterFacts, LogFacts DEF FeedTypeOK
<1>1. ASSUME UNCHANGED <<log, nextID, opened, passed, handled, late>>, NEW w \in Writers,
             \A u \in Writers \ {w} : writer'[u] = writer[u], writer'[w].pc # "commit"
      PROVE  IDsApart'
  BY <1>1 DEF IDsApart, IDs, Writing, Reached
<1>2. ASSUME UNCHANGED <<writer, log, nextID>>,
             Reached' \cup opened' \cup late' \subseteq IDs(log)
      PROVE  IDsApart'
  BY <1>2 DEF IDsApart, IDs, Writing
<1>3. ASSUME NEW w \in Writers, NEW r \in Records, Add(w, r) \/ Modify(w, r) \/ Delete(w, r)
      PROVE  IDsApart'
  <2>1. /\ UNCHANGED <<log, nextID, opened, passed, handled, late>>
        /\ \A u \in Writers \ {w} : writer'[u] = writer[u]
        /\ writer'[w].pc = "log"
    BY <1>3, BeginFacts
  <2> QED
    BY <1>1, <2>1
<1>4. ASSUME NEW w \in Writers, StartImport(w) \/ EndImport(w)
      PROVE  IDsApart'
  <2>1. /\ UNCHANGED <<log, nextID, opened, passed, handled, late>>
        /\ \A u \in Writers \ {w} : writer'[u] = writer[u]
        /\ writer'[w].pc \in {"log", "import"}
    BY <1>4, StartImportFacts, EndImportFacts
  <2> QED
    BY <1>1, <2>1
<1>5. ASSUME NEW w \in Writers, NEW r \in Records, ImportRecord(w, r) \/ LinkRecord(w, r)
      PROVE  IDsApart'
  BY <1>2, <1>5 DEF ImportRecord, LinkRecord, IDsApart, Reached
<1>6. ASSUME NEW w \in Writers, TakeID(w)
      PROVE  IDsApart'
  <2>1. /\ UNCHANGED <<log, opened, passed, handled, late>>
        /\ \A u \in Writers \ {w} : writer'[u] = writer[u]
        /\ \/ /\ nextID' = nextID + 1 /\ writer'[w].pc = "commit" /\ writer'[w].id = nextID
           \/ UNCHANGED nextID /\ writer'[w] = WriterIdle
    BY <1>6, TakeIDFacts
  <2>2. CASE UNCHANGED nextID /\ writer'[w] = WriterIdle
    BY <1>1, <2>1, <2>2 DEF WriterIdle
  <2>3. CASE nextID' = nextID + 1 /\ writer'[w].pc = "commit" /\ writer'[w].id = nextID
    <3>1. \A c \in log' : c.id < nextID'
      BY <1>0, <2>1, <2>3 DEF IDsApart
    <3>2. \A c, d \in log' : c.id = d.id => c = d
      BY <2>1 DEF IDsApart
    <3>3. \A u \in Writers \ {w} : writer[u].pc = "commit" =>
            /\ writer[u].id \in 1 .. nextID - 1 /\ writer[u].id \notin IDs(log)
            /\ \A v \in Writers \ {u} : writer[v].pc = "commit" => writer[v].id # writer[u].id
      BY DEF IDsApart, Writing
    <3>4. nextID \notin IDs(log) /\ nextID \in 1 .. nextID' - 1
      BY <1>0, <2>3 DEF IDsApart, IDs
    <3>5. ASSUME NEW u \in Writers, writer'[u].pc = "commit"
          PROVE  /\ writer'[u].id \in 1 .. nextID' - 1 /\ writer'[u].id \notin IDs(log')
                 /\ \A v \in Writers \ {u} : writer'[v].pc = "commit" => writer'[v].id # writer'[u].id
      <4>1. \A v \in Writers \ {w} : writer'[v].pc = "commit" => writer'[v].id # nextID
        BY <1>0, <2>1, <3>3
      <4>2. CASE u = w
        BY <2>1, <2>3, <3>4, <4>1, <4>2
      <4>3. CASE u # w
        <5>1. writer'[u] = writer[u] /\ writer'[u].id \in 1 .. nextID - 1
              /\ writer'[u].id \notin IDs(log)
          BY <2>1, <3>3, <3>5, <4>3
        <5>2. writer'[u].id \in 1 .. nextID' - 1 /\ writer'[u].id # nextID
          BY <1>0, <2>3, <5>1
        <5>3. ASSUME NEW v \in Writers \ {u}, writer'[v].pc = "commit"
              PROVE  writer'[v].id # writer'[u].id
          BY <2>1, <2>3, <3>3, <3>5, <4>3, <5>1, <5>2, <5>3
        <5> QED
          BY <2>1, <5>1, <5>2, <5>3
      <4> QED
        BY <4>2, <4>3
    <3>6. Reached' \cup opened' \cup late' \subseteq IDs(log')
      BY <2>1 DEF IDsApart, Reached
    <3> QED
      BY <3>1, <3>2, <3>5, <3>6 DEF IDsApart, Writing, IDs
  <2> QED
    BY <2>1, <2>2, <2>3
<1>7. ASSUME NEW w \in Writers, CommitChange(w)
      PROVE  IDsApart'
  <2>1. /\ UNCHANGED <<nextID, opened, passed, handled>>
        /\ late' \subseteq late \cup {writer[w].id}
        /\ \A u \in Writers \ {w} : writer'[u] = writer[u]
        /\ writer[w].pc = "commit" /\ writer'[w] = WriterIdle
    BY <1>7, CommitFacts DEF Writing
  <2>2. PICK c \in Change :
          /\ log' = log \cup {c}
          /\ c.id = writer[w].id /\ c.operation = writer[w].operation
          /\ c.row = writer[w].row /\ c.version = writer[w].version
    BY <1>7, CommitFacts
  <2>3. /\ writer[w].id \in 1 .. nextID - 1 /\ \A d \in log : d.id # writer[w].id
        /\ \A u \in Writers \ {w} : writer[u].pc = "commit" => writer[u].id # writer[w].id
    BY <2>1 DEF IDsApart, Writing, IDs
  <2>4. \A d \in log' : d.id < nextID'
    BY <1>0, <2>1, <2>2, <2>3 DEF IDsApart
  <2>5. \A d, e \in log' : d.id = e.id => d = e
    BY <2>2, <2>3 DEF IDsApart
  <2>6. ASSUME NEW u \in Writers, writer'[u].pc = "commit"
        PROVE  /\ writer'[u].id \in 1 .. nextID' - 1 /\ \A d \in log' : d.id # writer'[u].id
               /\ \A v \in Writers \ {u} : writer'[v].pc = "commit" => writer'[v].id # writer'[u].id
    <3>1. u # w /\ writer'[u] = writer[u]
      BY <2>1, <2>6 DEF WriterIdle
    <3>2. /\ writer[u].id \in 1 .. nextID - 1 /\ \A d \in log : d.id # writer[u].id
          /\ \A v \in Writers \ {u} : writer[v].pc = "commit" => writer[v].id # writer[u].id
      BY <2>6, <3>1 DEF IDsApart, Writing, IDs
    <3>3. \A v \in Writers \ {u} : writer'[v].pc = "commit" => writer'[v] = writer[v]
      BY <2>1 DEF WriterIdle
    <3> QED
      BY <2>1, <2>2, <2>3, <2>6, <3>1, <3>2, <3>3
  <2>7. Reached' \cup opened' \cup late' \subseteq IDs(log')
    BY <2>1, <2>2 DEF IDsApart, Reached, IDs
  <2> QED
    BY <2>4, <2>5, <2>6, <2>7 DEF IDsApart, Writing, IDs
<1>8. CASE UNCHANGED feedVars \/ ReloadButton \/ AnswerRead \/ FailRead \/ ShowRead \/ Fetch
  BY <1>2, <1>8 DEF feedVars, ReloadButton, AnswerRead, FailRead, ShowRead, Fetch,
     AnswerFetch, FailFetch, ShowFetch, IDsApart, Reached
<1>9. ASSUME NEW p \in Polls, Follow(p)
      PROVE  IDsApart'
  <2>1. CASE SendPoll(p) \/ AnswerPoll(p) \/ FailPoll(p)
    BY <1>2, <2>1 DEF SendPoll, AnswerPoll, FailPoll, IDsApart, Reached
  <2>2. CASE HandlePoll(p)
    <3>1. IDs(poll[p].rows) \subseteq IDs(log)
      BY PollFacts DEF IDs
    <3>2. /\ UNCHANGED <<writer, log, nextID, opened, late>>
          /\ passed' \in {passed, passed \cup IDs(poll[p].rows)}
          /\ handled' \in {handled, handled \cup IDs(poll[p].rows)}
      BY <2>2, HandleFacts
    <3>3. Reached' \cup opened' \cup late' \subseteq IDs(log)
      BY <3>1, <3>2 DEF IDsApart, Reached
    <3> QED
      BY <1>2, <3>2, <3>3
  <2> QED
    BY <1>9, <2>1, <2>2 DEF Follow
<1>10. CASE \E w \in Writers : Write(w)
  BY <1>3, <1>4, <1>5, <1>6, <1>7, <1>10 DEF Write
<1>11. FeedNext \/ UNCHANGED feedVars
  OBVIOUS
<1> QED
  BY <1>8, <1>9, <1>10, <1>11, Zenon DEF FeedNext

-----------------------------------------------------------------------------
(* None is skipped but one that came late.                                 *)
LEMMA LateInit == FeedInit => AnswersWhole /\ NoChangeSkipped /\ LateMisleads
<1> SUFFICES ASSUME FeedInit PROVE AnswersWhole /\ NoChangeSkipped /\ LateMisleads
  OBVIOUS
<1>1. \A c \in log : c.id \in 1 .. Earlier
  BY FirstChanges
<1>2. /\ cursor = 0 /\ late = {}
      /\ \A p \in Polls : poll[p].pc = "idle" /\ poll[p].cursor = 0 /\ poll[p].rows = {}
  BY DEF FeedInit, PollIdle
<1> QED
  BY <1>1, <1>2, BoundFacts DEF AnswersWhole, NoChangeSkipped, LateMisleads

LEMMA LateStep ==
  ASSUME FeedTypeOK, IDsApart, AnswersWhole, NoChangeSkipped, LateMisleads,
         [FeedNext]_feedVars, Written
  PROVE  AnswersWhole' /\ NoChangeSkipped' /\ LateMisleads'
<1> USE DEF server, page, told, history
<1>0. /\ \A c \in log : c.id \in 1 .. MaxID /\ c.row \in Records \cup {None}
      /\ cursor \in 0 .. MaxID /\ misled \subseteq Records
      /\ \A p \in Polls : poll[p].cursor \in 0 .. MaxID /\ poll[p].rows \subseteq log
  BY LogFacts, PollFacts DEF FeedTypeOK
<1>1. ASSUME UNCHANGED <<log, cursor, poll, passed, handled, late>>,
             misled \subseteq misled', misled' \subseteq Records
      PROVE  AnswersWhole' /\ NoChangeSkipped' /\ LateMisleads'
  <2>1. AnswersWhole'
    BY <1>1 DEF AnswersWhole, IDs
  <2>2. NoChangeSkipped'
    BY <1>1 DEF NoChangeSkipped, Reached
  <2>3. LateMisleads'
    BY <1>1 DEF LateMisleads
  <2> QED
    BY <2>1, <2>2, <2>3
<1>2. ASSUME NEW w \in Writers, Write(w), ~CommitChange(w)
      PROVE  AnswersWhole' /\ NoChangeSkipped' /\ LateMisleads'
  <2>1. ASSUME NEW r \in Records, Add(w, r) \/ Modify(w, r) \/ Delete(w, r)
        PROVE  /\ UNCHANGED <<log, cursor, poll, passed, handled, late>>
               /\ misled \subseteq misled' /\ misled' \subseteq Records
    BY <2>1, BeginFacts
  <2>2. ASSUME NEW r \in Records, ImportRecord(w, r) \/ LinkRecord(w, r)
        PROVE  /\ UNCHANGED <<log, cursor, poll, passed, handled, late>>
               /\ misled \subseteq misled' /\ misled' \subseteq Records
    BY <1>0, <2>2 DEF ImportRecord, LinkRecord
  <2>3. ASSUME StartImport(w) \/ EndImport(w)
        PROVE  UNCHANGED <<log, cursor, poll, passed, handled, late, misled>>
    BY <2>3 DEF StartImport, EndImport
  <2>4. ASSUME TakeID(w)
        PROVE  /\ UNCHANGED <<log, cursor, poll, passed, handled, late>>
               /\ misled \subseteq misled' /\ misled' \subseteq Records
    BY <1>0, <2>4, TakeIDFacts
  <2>5. /\ UNCHANGED <<log, cursor, poll, passed, handled, late>>
        /\ misled \subseteq misled' /\ misled' \subseteq Records
    BY <1>0, <1>2, <2>1, <2>2, <2>3, <2>4 DEF Write
  <2> QED
    BY <1>1, <2>5
<1>3. ASSUME NEW w \in Writers, CommitChange(w)
      PROVE  AnswersWhole' /\ NoChangeSkipped' /\ LateMisleads'
  <2>1. /\ UNCHANGED <<cursor, poll, passed, handled>> /\ writer[w].pc = "commit"
        /\ misled \subseteq misled' /\ misled' \subseteq Records
        /\ late \subseteq late' /\ late' \subseteq late \cup {writer[w].id}
        /\ writer[w].id \in late' \/ ~Overtaken(writer[w].id)
        /\ writer[w].id \in late' \ late =>
             IF writer[w].row = None THEN misled' = Records ELSE writer[w].row \in misled'
    BY <1>3, CommitFacts DEF Writing
  <2>2. PICK c \in Change :
          /\ log' = log \cup {c}
          /\ c.id = writer[w].id /\ c.operation = writer[w].operation
          /\ c.row = writer[w].row /\ c.version = writer[w].version
    BY <1>3, CommitFacts
  <2>3. c.id \in 1 .. MaxID /\ c.id \notin IDs(log) /\ c.row \in Records \cup {None}
    BY <2>1, <2>2 DEF IDsApart, Writing, Change
  <2>4. c.id \notin late' =>
          /\ cursor < c.id
          /\ \A p \in Polls : poll[p].cursor < c.id /\ \A d \in poll[p].rows : d.id < c.id
    <3> SUFFICES ASSUME c.id \notin late'
                 PROVE  /\ cursor < c.id
                        /\ \A p \in Polls : /\ poll[p].cursor < c.id
                                            /\ \A d \in poll[p].rows : d.id < c.id
      OBVIOUS
    <3>1. ~Overtaken(c.id)
      BY <2>1, <2>2
    <3>2. cursor # c.id /\ \A p \in Polls : poll[p].cursor # c.id
      BY <2>3, <1>0 DEF AnswersWhole
    <3>3. \A p \in Polls : \A d \in poll[p].rows : d.id \in 1 .. MaxID /\ d.id # c.id
      BY <1>0, <2>3 DEF IDs
    <3> QED
      BY <1>0, <2>3, <3>1, <3>2, <3>3 DEF Overtaken
  <2>5. AnswersWhole'
    <3>1. cursor' \in {0} \cup IDs(log') /\ \A p \in Polls : poll'[p].cursor \in {0} \cup IDs(log')
      BY <2>1, <2>2 DEF AnswersWhole, IDs
    <3>2. ASSUME NEW p \in Polls, NEW e \in log', NEW d \in poll'[p].rows,
                 poll'[p].cursor < e.id, e.id < d.id
          PROVE  e \in poll'[p].rows \/ e.id \in late'
      <4>1. d \in log /\ poll'[p] = poll[p] /\ d.id \in 1 .. MaxID
        BY <1>0, <2>1, <3>2
      <4>2. CASE e = c
        BY <2>3, <2>4, <3>2, <4>1, <4>2
      <4>3. CASE e # c
        BY <2>1, <2>2, <3>2, <4>1, <4>3 DEF AnswersWhole
      <4> QED
        BY <4>2, <4>3
    <3> QED
      BY <3>1, <3>2 DEF AnswersWhole
  <2>6. NoChangeSkipped'
    <3>1. Reached' = Reached
      BY <2>1 DEF Reached
    <3>2. ASSUME NEW e \in log', e.id \notin late'
          PROVE  /\ e.id <= cursor' => e.id \in Reached'
                 /\ \A p \in Polls : poll'[p].pc # "idle" /\ e.id <= poll'[p].cursor
                                        => e.id \in Reached'
      <4>1. CASE e = c
        BY <1>0, <2>1, <2>3, <2>4, <3>2, <4>1
      <4>2. CASE e \in log
        BY <2>1, <3>1, <3>2, <4>2 DEF NoChangeSkipped
      <4> QED
        BY <2>2, <4>1, <4>2
    <3> QED
      BY <3>2 DEF NoChangeSkipped
  <2>7. LateMisleads'
    <3>1. ASSUME NEW e \in log', e.id \in late'
          PROVE  IF e.row = None THEN misled' = Records ELSE e.row \in misled'
      <4>1. CASE e.id \in late
        <5>1. CASE e \in log
          BY <2>1, <4>1, <5>1 DEF LateMisleads
        <5>2. CASE e = c
          <6>1. c.id \notin late
            BY <2>3 DEF IDsApart
          <6> QED
            BY <4>1, <5>2, <6>1
        <5> QED
          BY <2>2, <5>1, <5>2
      <4>2. CASE e.id \notin late
        <5>1. e.id = c.id
          BY <2>1, <2>2, <3>1, <4>2
        <5>2. e = c
          BY <2>2, <2>3, <5>1 DEF IDs
        <5> QED
          BY <2>1, <2>2, <3>1, <4>2, <5>2
      <4> QED
        BY <4>1, <4>2
    <3> QED
      BY <3>1 DEF LateMisleads
  <2> QED
    BY <2>5, <2>6, <2>7
<1>7. CASE UNCHANGED feedVars \/ ReloadButton \/ AnswerRead \/ FailRead \/ ShowRead \/ Fetch
  <2>1. UNCHANGED <<log, cursor, poll, passed, handled, late, misled>>
    BY <1>7 DEF feedVars, ReloadButton, AnswerRead, FailRead, ShowRead, Fetch, AnswerFetch,
       FailFetch, ShowFetch
  <2> QED
    BY <1>0, <1>1, <2>1
<1>8. ASSUME NEW p \in Polls, SendPoll(p)
      PROVE  AnswersWhole' /\ NoChangeSkipped' /\ LateMisleads'
  <2>1. /\ UNCHANGED <<log, cursor, passed, handled, late, misled>>
        /\ \A q \in Polls \ {p} : poll'[q] = poll[q]
        /\ poll'[p].rows = {} /\ poll'[p].cursor \in {0, cursor}
        /\ poll'[p].pc = "idle" \/ poll'[p].cursor = cursor
    BY <1>8, SetPollFacts DEF SendPoll
  <2>2. AnswersWhole'
    BY <2>1 DEF AnswersWhole, IDs
  <2>3. NoChangeSkipped'
    BY <2>1 DEF NoChangeSkipped, Reached
  <2> QED
    BY <2>1, <2>2, <2>3 DEF LateMisleads
<1>9. ASSUME NEW p \in Polls, AnswerPoll(p) \/ FailPoll(p)
      PROVE  AnswersWhole' /\ NoChangeSkipped' /\ LateMisleads'
  <2>0. poll[p].pc = "sent"
    BY <1>9 DEF AnswerPoll, FailPoll
  <2>1. /\ UNCHANGED <<log, cursor, passed, handled, late, misled>>
        /\ \A q \in Polls \ {p} : poll'[q] = poll[q]
        /\ poll'[p].cursor = poll[p].cursor
        /\ poll'[p].rows \in {poll[p].rows, {c \in log : c.id > poll[p].cursor}}
    BY <1>9, <2>0, AnswerPollFacts DEF AnswerPoll, FailPoll
  <2>2. AnswersWhole'
    <3>1. ASSUME NEW c \in log, NEW d \in poll'[p].rows, poll'[p].cursor < c.id, c.id < d.id
          PROVE  c \in poll'[p].rows \/ c.id \in late
      BY <1>0, <2>1, <3>1 DEF AnswersWhole
    <3> QED
      BY <2>1, <3>1 DEF AnswersWhole, IDs
  <2>3. NoChangeSkipped'
    BY <2>0, <2>1 DEF NoChangeSkipped, Reached
  <2> QED
    BY <2>1, <2>2, <2>3 DEF LateMisleads
<1>10. ASSUME NEW p \in Polls, HandlePoll(p)
       PROVE  AnswersWhole' /\ NoChangeSkipped' /\ LateMisleads'
  <2> DEFINE rows == poll[p].rows
  <2>1. rows \in SUBSET log
    BY <1>0
  <2>2. /\ UNCHANGED <<log, late, misled>> /\ poll[p].pc = "answered"
        /\ \A q \in Polls \ {p} : poll'[q] = poll[q]
        /\ poll'[p].pc = "idle" /\ poll'[p].rows = {} /\ poll'[p].cursor = 0
        /\ \/ UNCHANGED <<cursor, passed, handled>>
           \/ /\ rows # {} /\ cursor' = LastID(rows)
              /\ Reached' = Reached \cup IDs(rows)
    BY <1>10, HandleFacts DEF Reached
  <2>3. Reached \subseteq Reached' /\ (UNCHANGED <<passed, handled>> => Reached' = Reached)
    BY <2>2 DEF Reached
  <2>4. /\ cursor' \in {0} \cup IDs(log)
        /\ \A c \in log : c.id \notin late /\ c.id <= cursor' => c.id \in Reached'
    <3>1. CASE UNCHANGED <<cursor, passed, handled>>
      BY <2>3, <3>1 DEF AnswersWhole, NoChangeSkipped
    <3>2. CASE /\ rows # {} /\ cursor' = LastID(rows)
               /\ Reached' = Reached \cup IDs(rows)
      <4>1. PICK d \in rows : cursor' = d.id
        BY <2>1, <3>2, LastIDFacts DEF IDs
      <4>2. d \in log
        BY <2>1, <4>1
      <4>3. ASSUME NEW c \in log, c.id \notin late, c.id <= cursor', c.id > poll[p].cursor
            PROVE  c \in rows
        <5>1. CASE c.id < d.id
          BY <1>0, <4>1, <4>3, <5>1 DEF AnswersWhole
        <5>2. CASE c.id = d.id
          BY <4>1, <4>2, <5>2 DEF IDsApart
        <5> QED
          BY <1>0, <4>1, <4>2, <4>3, <5>1, <5>2
      <4>4. ASSUME NEW c \in log, c.id \notin late, c.id <= cursor'
            PROVE  c.id \in Reached'
        <5>1. CASE c.id <= poll[p].cursor
          BY <2>2, <3>2, <4>4, <5>1 DEF NoChangeSkipped
        <5>2. CASE c.id > poll[p].cursor
          <6>1. c \in rows
            BY <4>3, <4>4, <5>2
          <6> QED
            BY <3>2, <6>1 DEF IDs
        <5> QED
          BY <1>0, <5>1, <5>2
      <4> QED
        BY <4>1, <4>2, <4>4 DEF IDs
    <3> QED
      BY <2>2, <3>1, <3>2
  <2> HIDE DEF rows
  <2>5. AnswersWhole'
    BY <2>2, <2>4 DEF AnswersWhole, IDs
  <2>6. NoChangeSkipped'
    <3>1. ASSUME NEW c \in log, c.id \notin late, NEW q \in Polls,
                 poll'[q].pc # "idle", c.id <= poll'[q].cursor
          PROVE  c.id \in Reached'
      <4>1. q # p /\ poll'[q] = poll[q]
        BY <2>2, <3>1
      <4> QED
        BY <2>3, <3>1, <4>1 DEF NoChangeSkipped
    <3> QED
      BY <2>2, <2>4, <3>1 DEF NoChangeSkipped
  <2> QED
    BY <2>2, <2>5, <2>6 DEF LateMisleads
<1>11. CASE \E w \in Writers : Write(w)
  BY <1>2, <1>3, <1>11
<1>12. CASE \E p \in Polls : Follow(p)
  BY <1>8, <1>9, <1>10, <1>12 DEF Follow
<1>13. FeedNext \/ UNCHANGED feedVars
  OBVIOUS
<1> QED
  BY <1>7, <1>11, <1>12, <1>13, Zenon DEF FeedNext

-----------------------------------------------------------------------------
(* What the page does not know, it will be told.                           *)

(* A step writes a record once: a new one, of an insertion to be told; one *)
(* that is there, of an update or of a deletion to be told; or a new one   *)
(* about which the log is wrong.                                           *)
LEMMA EffectFacts ==
  ASSUME FeedTypeOK, Written, IDsApart, [FeedNext]_feedVars, NEW r \in Records
  PROVE  \/ stored'[r] = stored[r]
         \/ version[r] = 0 /\ stored'[r] # 0 /\ WillInsert(r)'
         \/ stored[r] # 0 /\ stored'[r] # 0 /\ WillTell("update", r)'
         \/ stored'[r] = 0 /\ WillTell("delete", r)'
         \/ version[r] = 0 /\ r \in misled'
<1> USE DEF server, page, told, history
<1>1. ASSUME NEW w \in Writers, NEW x \in Records, Add(w, x) \/ Modify(w, x) \/ Delete(w, x)
      PROVE  \/ stored'[r] = stored[r]
             \/ version[r] = 0 /\ stored'[r] # 0 /\ WillInsert(r)'
             \/ stored[r] # 0 /\ stored'[r] # 0 /\ WillTell("update", r)'
             \/ stored'[r] = 0 /\ WillTell("delete", r)'
  <2>1. PICK op \in {"insert", "update", "delete"} :
          /\ writer'[w].pc = "log" /\ writer'[w].operation = op /\ writer'[w].row = x
          /\ \A y \in Records \ {x} : stored'[y] = stored[y]
          /\ op = "insert" => version[x] = 0 /\ stored'[x] = 1
          /\ op = "update" => \/ stored'[x] = stored[x]
                              \/ stored[x] # 0 /\ stored'[x] # 0
          /\ op = "delete" => stored'[x] = 0 \/ stored'[x] = stored[x]
    BY <1>1, BeginFacts
  <2>2. CASE r # x
    BY <2>1, <2>2
  <2>3. CASE r = x
    <3>1. op = "insert" => WillInsert(r)'
      BY <2>1, <2>3 DEF WillInsert, Writing
    <3>2. op # "insert" => WillTell(op, r)'
      BY <2>1, <2>3 DEF WillTell, Writing
    <3> QED
      BY <2>1, <2>3, <3>1, <3>2
  <2> QED
    BY <2>2, <2>3
<1>2. ASSUME NEW w \in Writers, NEW x \in Records, ImportRecord(w, x)
      PROVE  \/ stored'[r] = stored[r]
             \/ version[r] = 0 /\ stored'[r] # 0 /\ WillInsert(r)'
  <2>1. /\ UNCHANGED writer /\ writer[w].pc = "import" /\ version[x] = 0 /\ stored'[x] = 1
        /\ \A y \in Records \ {x} : stored'[y] = stored[y]
    BY <1>2, ImportRecordFacts DEF Writing
  <2>2. writer[w].operation = "import"
    BY <2>1 DEF Written, Writing
  <2>3. WillInsert(r)'
    BY <2>1, <2>2 DEF WillInsert, Writing
  <2> QED
    BY <2>1, <2>3
<1>3. ASSUME NEW w \in Writers,
             StartImport(w) \/ EndImport(w) \/ TakeID(w) \/ CommitChange(w)
      PROVE  UNCHANGED stored
  BY <1>3 DEF StartImport, EndImport, TakeID, CommitChange
<1>l. ASSUME NEW w \in Writers, NEW x \in Records, LinkRecord(w, x)
      PROVE  stored'[r] = stored[r] \/ (version[r] = 0 /\ r \in misled')
  BY <1>l, LinkRecordFacts
<1>4. CASE UNCHANGED feedVars \/ ReloadButton \/ AnswerRead \/ FailRead \/ ShowRead
           \/ Fetch \/ \E p \in Polls : Follow(p)
  <2>1. UNCHANGED stored
    BY <1>4 DEF feedVars, ReloadButton, AnswerRead, FailRead, ShowRead, Fetch, AnswerFetch,
       FailFetch, ShowFetch, Follow, SendPoll, AnswerPoll, FailPoll, HandlePoll
  <2> QED
    BY <2>1
<1>5. CASE \E w \in Writers : Write(w)
  BY <1>1, <1>2, <1>3, <1>l, <1>5 DEF Write
<1>6. FeedNext \/ UNCHANGED feedVars
  OBVIOUS
<1> QED
  BY <1>4, <1>5, <1>6, Zenon DEF FeedNext

(* What is to be told stays so while threads write and log.                *)
LEMMA ToldKept ==
  ASSUME FeedTypeOK, Written, IDsApart, NEW w \in Writers, Write(w),
         NEW r \in Records, r \notin misled'
  PROVE  /\ WillInsert(r) => WillInsert(r)'
         /\ \A op \in {"update", "delete"} : WillTell(op, r) => WillTell(op, r)'
<1> USE DEF server, page, told, history
<1> DEFINE Tell(t, op) == /\ t.pc # "idle" /\ t.operation = op
                          /\ op = "import" \/ t.row = r
           Told(c, op) == /\ c.operation = op
                          /\ op = "import" \/ c.row = r
<1>1. SUFFICES \A op \in Operations :
                 (\E u \in Writers : Tell(writer[u], op)) \/ (\E c \in log : Untold(c) /\ Told(c, op))
                 => \/ \E u \in Writers : Tell(writer'[u], op)
                    \/ \E c \in log' : Untold(c)' /\ Told(c, op)
  <2>1. \A op \in {"update", "delete"} :
          /\ WillTell(op, r) <=> \/ \E u \in Writers : Tell(writer[u], op)
                                 \/ \E c \in log : Untold(c) /\ Told(c, op)
          /\ WillTell(op, r)' <=> \/ \E u \in Writers : Tell(writer'[u], op)
                                  \/ \E c \in log' : Untold(c)' /\ Told(c, op)
    BY DEF WillTell, Writing
  <2>2. /\ WillInsert(r) <=>
             \E op \in {"insert", "import"} :
                \/ \E u \in Writers : Tell(writer[u], op)
                \/ \E c \in log : Untold(c) /\ Told(c, op)
        /\ WillInsert(r)' <=>
             \E op \in {"insert", "import"} :
                \/ \E u \in Writers : Tell(writer'[u], op)
                \/ \E c \in log' : Untold(c)' /\ Told(c, op)
    BY DEF WillInsert, Writing
  <2> QED
    BY <1>1, <2>1, <2>2 DEF Operations
<1>2. SUFFICES ASSUME NEW op \in Operations
               PROVE  /\ \A u \in Writers : Tell(writer[u], op) =>
                            \/ \E v \in Writers : Tell(writer'[v], op)
                            \/ \E c \in log' : Untold(c)' /\ Told(c, op)
                      /\ \A c \in log : Untold(c) => c \in log' /\ Untold(c)'
  BY <1>2
<1> HIDE DEF Told
<1>3. ASSUME UNCHANGED <<log, handled, opened>>,
             \A u \in Writers \ {w} : writer'[u] = writer[u],
             Tell(writer[w], op) => Tell(writer'[w], op)
      PROVE  /\ \A u \in Writers : Tell(writer[u], op) =>
                            \/ \E v \in Writers : Tell(writer'[v], op)
                            \/ \E c \in log' : Untold(c)' /\ Told(c, op)
             /\ \A c \in log : Untold(c) => c \in log' /\ Untold(c)'
  BY <1>3 DEF Untold
<1>4. ASSUME NEW x \in Records, Add(w, x) \/ Modify(w, x) \/ Delete(w, x)
      PROVE  /\ UNCHANGED <<log, handled, opened>>
             /\ \A u \in Writers \ {w} : writer'[u] = writer[u]
             /\ writer[w].pc = "idle"
  BY <1>4, BeginFacts DEF Writing
<1>5. ASSUME StartImport(w)
      PROVE  /\ UNCHANGED <<log, handled, opened>>
             /\ \A u \in Writers \ {w} : writer'[u] = writer[u]
             /\ writer[w].pc = "idle"
  BY <1>5, StartImportFacts DEF Writing
<1>6. ASSUME NEW x \in Records, ImportRecord(w, x) \/ LinkRecord(w, x)
      PROVE  UNCHANGED <<log, handled, opened, writer>>
  BY <1>6 DEF ImportRecord, LinkRecord
<1>7. ASSUME EndImport(w)
      PROVE  /\ UNCHANGED <<log, handled, opened>>
             /\ \A u \in Writers \ {w} : writer'[u] = writer[u]
             /\ Tell(writer[w], op) => Tell(writer'[w], op)
  BY <1>7, EndImportFacts
<1>8. ASSUME TakeID(w)
      PROVE  /\ UNCHANGED <<log, handled, opened>>
             /\ \A u \in Writers \ {w} : writer'[u] = writer[u]
             /\ Tell(writer[w], op) => Tell(writer'[w], op)
  <2>1. /\ UNCHANGED <<log, opened, handled>>
        /\ \A u \in Writers \ {w} : writer'[u] = writer[u]
        /\ \/ /\ writer'[w].pc = "commit"
              /\ writer'[w].operation = writer[w].operation /\ writer'[w].row = writer[w].row
           \/ IF writer[w].row = None THEN misled' = Records ELSE writer[w].row \in misled'
    BY <1>8, TakeIDFacts
  <2>2. writer[w].pc = "log" /\ (writer[w].operation = "import" <=> writer[w].row = None)
    BY <1>8, TakeIDFacts DEF Written, Writing
  <2>3. r # None
    BY BoundFacts
  <2> QED
    BY <2>1, <2>2, <2>3
<1>9. ASSUME CommitChange(w)
      PROVE  /\ \A u \in Writers : Tell(writer[u], op) =>
                            \/ \E v \in Writers : Tell(writer'[v], op)
                            \/ \E c \in log' : Untold(c)' /\ Told(c, op)
             /\ \A c \in log : Untold(c) => c \in log' /\ Untold(c)'
  <2>1. /\ UNCHANGED <<opened, handled>>
        /\ \A u \in Writers \ {w} : writer'[u] = writer[u]
        /\ writer[w].pc = "commit"
    BY <1>9, CommitFacts DEF Writing
  <2>2. PICK c \in Change :
          /\ log' = log \cup {c} /\ c.id = writer[w].id
          /\ c.operation = writer[w].operation /\ c.row = writer[w].row
    BY <1>9, CommitFacts
  <2>3. Untold(c)'
    BY <2>1, <2>2 DEF Untold, IDsApart, Writing, Reached
  <2>4. Tell(writer[w], op) => Told(c, op)
    BY <2>2 DEF Told
  <2> QED
    BY <2>1, <2>2, <2>3, <2>4 DEF Untold
<1> QED
  BY <1>3, <1>4, <1>5, <1>6, <1>7, <1>8, <1>9 DEF Write

(* A page's view of a record stays right, or to be told, as threads write. *)
LEMMA ViewKept ==
  ASSUME FeedTypeOK, Written, IDsApart, [FeedNext]_feedVars, NEW w \in Writers, Write(w),
         NEW r \in Records, r \notin misled', NEW v, v # 0 => version[r] > 0
  PROVE  /\ RightOrTold(r, v) => RightOrTold(r, v)'
         /\ LatestOrTold(r, v) => LatestOrTold(r, v)'
<1>1. /\ WillInsert(r) => WillInsert(r)'
      /\ WillTell("update", r) => WillTell("update", r)'
      /\ WillTell("delete", r) => WillTell("delete", r)'
  BY ToldKept
<1>2. \/ stored'[r] = stored[r]
      \/ version[r] = 0 /\ stored'[r] # 0 /\ WillInsert(r)'
      \/ stored[r] # 0 /\ stored'[r] # 0 /\ WillTell("update", r)'
      \/ stored'[r] = 0 /\ WillTell("delete", r)'
  BY EffectFacts
<1>3. version[r] = 0 => v = 0
  BY BoundFacts DEF FeedTypeOK
<1> QED
  BY <1>1, <1>2, <1>3 DEF RightOrTold, LatestOrTold

(* A record that is gone stays so.                                         *)
LEMMA GoneStays ==
  ASSUME FeedTypeOK, Written, IDsApart, [FeedNext]_feedVars, NEW r \in Records,
         stored[r] = 0, version[r] > 0
  PROVE  stored'[r] = 0
<1>1. version[r] # 0
  BY BoundFacts DEF FeedTypeOK
<1> QED
  BY <1>1, EffectFacts

LEMMA ToldInit == FeedInit => PageIsTold
<1> SUFFICES ASSUME FeedInit PROVE PageIsTold
  OBVIOUS
<1>1. \A w \in Writers : writer[w].pc = "idle"
  BY DEF FeedInit, WriterIdle
<1>2. \A c \in log : c.operation = "import"
  BY DEF FeedInit
<1>3. reading.pc = "sent" /\ Len(fetches) = 0
  BY DEF FeedInit, NoRead
<1> QED
  BY <1>1, <1>2, <1>3 DEF PageIsTold, DeletedIsGone, Writing

(* The parts of PageIsTold.                                                *)
RecordTold(r) ==
  /\ reading.pc = "none" =>
        RightOrTold(r, shown[r]) /\ (LatestOrTold(r, shown[r]) \/ Coming(r))
  /\ reading.pc = "answered" =>
        RightOrTold(r, reading.rows[r]) /\ LatestOrTold(r, reading.rows[r])

LEMMA ToldParts ==
  PageIsTold <=> /\ \A w \in Writers : writer[w].pc # "idle" => DeletedIsGone(writer[w])
                 /\ \A c \in log : DeletedIsGone(c)
                 /\ \A r \in Records \ (misled \cup missed) : RecordTold(r)
  BY DEF PageIsTold, RecordTold, Writing

LEMMA NextToldParts ==
  PageIsTold' <=> /\ \A w \in Writers : writer'[w].pc # "idle" => DeletedIsGone(writer[w])'
                  /\ \A c \in log' : DeletedIsGone(c)'
                  /\ \A r \in Records \ (misled' \cup missed') : RecordTold(r)'
  BY DEF PageIsTold, RecordTold, Writing

(* A thread writes or logs.                                                *)
LEMMA ToldWrite ==
  ASSUME FeedTypeOK, Written, IDsApart, PageIsTold, [FeedNext]_feedVars,
         NEW w \in Writers, Write(w)
  PROVE  PageIsTold'
<1> USE DEF server, page, told, history
<1>0. /\ \A u \in Writers : writer[u].pc # "idle" => DeletedIsGone(writer[u])
      /\ \A c \in log : DeletedIsGone(c)
      /\ \A r \in Records \ (misled \cup missed) : RecordTold(r)
  BY ToldParts
<1>1. UNCHANGED <<reading, shown, fetches, missed>>
  <2>1. \A r \in Records : Add(w, r) \/ Modify(w, r) \/ Delete(w, r)
           => UNCHANGED <<reading, shown, fetches, missed>>
    BY DEF Add, Modify, Delete
  <2>2. \A r \in Records : ImportRecord(w, r) \/ LinkRecord(w, r)
           => UNCHANGED <<reading, shown, fetches, missed>>
    BY DEF ImportRecord, LinkRecord
  <2>3. StartImport(w) \/ EndImport(w) \/ TakeID(w) \/ CommitChange(w)
           => UNCHANGED <<reading, shown, fetches, missed>>
    BY DEF StartImport, EndImport, TakeID, CommitChange
  <2> QED
    BY <2>1, <2>2, <2>3 DEF Write
<1>2. misled \subseteq misled'
  <2>1. \A r \in Records : Add(w, r) \/ Modify(w, r) \/ Delete(w, r) => misled \subseteq misled'
    BY BeginFacts
  <2>2. \A r \in Records : ImportRecord(w, r) \/ LinkRecord(w, r) => misled \subseteq misled'
    BY DEF ImportRecord, LinkRecord
  <2>3. StartImport(w) \/ EndImport(w) => UNCHANGED misled
    BY DEF StartImport, EndImport
  <2>4. TakeID(w) \/ CommitChange(w) => misled \subseteq misled'
    BY TakeIDFacts, CommitFacts
  <2> QED
    BY <2>1, <2>2, <2>3, <2>4 DEF Write
<1>3. ASSUME NEW c, c.row \in Records \cup {None}, c.operation = "import" <=> c.row = None,
             c.row # None /\ c.operation # "insert" => version[c.row] > 0,
             DeletedIsGone(c)
      PROVE  DeletedIsGone(c)'
  BY <1>2, <1>3, GoneStays DEF DeletedIsGone
<1>4. ASSUME NEW c \in log PROVE DeletedIsGone(c)'
  <2>1. /\ c.row \in Records \cup {None} /\ (c.operation = "import" <=> c.row = None)
        /\ c.row # None /\ c.operation # "insert" => version[c.row] > 0
    BY LogFacts DEF Written
  <2> QED
    BY <1>0, <1>3, <2>1
<1>5. ASSUME NEW u \in Writers, writer[u].pc # "idle",
             writer[u].operation = "delete", writer[u].row \notin misled'
      PROVE  stored'[writer[u].row] = 0
  <2>1. /\ writer[u].row \in Records /\ version[writer[u].row] > 0
        /\ stored[writer[u].row] = 0
    <3>1. writer[u].pc \in {"log", "commit"} /\ writer[u].row \in Records
      BY <1>5, WriterFacts DEF Written, Writing
    <3> QED
      BY <1>0, <1>2, <1>5, <3>1, BoundFacts DEF Written, Tells, DeletedIsGone
  <2> QED
    BY <2>1, GoneStays
<1>6. ASSUME NEW r \in Records \ misled', Coming(r) PROVE Coming(r)'
  <2>1. PICK i \in 1 .. Len(fetches) :
          /\ fetches[i].row = r
          /\ \/ fetches[i].version = Pending
             \/ fetches[i].version # 0 /\ LatestOrTold(r, fetches[i].version)
    BY <1>6 DEF Coming
  <2>2. version[r] > 0
    BY <2>1 DEF Written
  <2>3. LatestOrTold(r, fetches[i].version) => LatestOrTold(r, fetches[i].version)'
    BY <1>1, <1>6, <2>2, ViewKept
  <2> QED
    BY <1>1, <2>1, <2>3 DEF Coming
<1>7. ASSUME NEW r \in Records \ (misled' \cup missed') PROVE RecordTold(r)'
  <2>1. RecordTold(r)
    BY <1>0, <1>1, <1>2
  <2>2. (shown[r] # 0 => version[r] > 0) /\ (reading.rows[r] # 0 => version[r] > 0)
    BY DEF Written
  <2>3. /\ RightOrTold(r, shown[r]) => RightOrTold(r, shown[r])'
        /\ LatestOrTold(r, shown[r]) => LatestOrTold(r, shown[r])'
    BY <1>1, <2>2, ViewKept
  <2>4. /\ RightOrTold(r, reading.rows[r]) => RightOrTold(r, reading.rows[r])'
        /\ LatestOrTold(r, reading.rows[r]) => LatestOrTold(r, reading.rows[r])'
    BY <1>1, <2>2, ViewKept
  <2> QED
    BY <1>1, <1>6, <2>1, <2>3, <2>4 DEF RecordTold
<1>8. ASSUME NEW u \in Writers, writer'[u].pc # "idle",
             \/ writer'[u] = writer[u]
             \/ /\ writer[u].pc # "idle"
                /\ writer'[u].operation = writer[u].operation /\ writer'[u].row = writer[u].row
             \/ writer'[u].operation # "delete"
             \/ stored'[writer'[u].row] = 0 \/ writer'[u].row \in misled'
      PROVE  DeletedIsGone(writer[u])'
  BY <1>5, <1>8 DEF DeletedIsGone
<1>9. ASSUME UNCHANGED log,
             \A u \in Writers \ {w} : writer'[u] = writer[u],
             writer'[w].pc # "idle" => DeletedIsGone(writer[w])'
      PROVE  PageIsTold'
  <2>1. \A u \in Writers : writer'[u].pc # "idle" => DeletedIsGone(writer[u])'
    BY <1>8, <1>9
  <2> QED
    BY <1>4, <1>7, <1>9, <2>1, NextToldParts
<1>10. ASSUME NEW x \in Records, Add(w, x) \/ Modify(w, x) \/ Delete(w, x)
       PROVE  PageIsTold'
  <2>1. /\ UNCHANGED log /\ \A u \in Writers \ {w} : writer'[u] = writer[u]
        /\ writer'[w].row = x
        /\ writer'[w].operation = "delete" => stored'[x] = 0 \/ x \in misled'
    BY <1>10, BeginFacts
  <2> QED
    BY <1>8, <1>9, <2>1
<1>11. ASSUME StartImport(w) \/ EndImport(w)
       PROVE  PageIsTold'
  <2>1. /\ UNCHANGED log /\ \A u \in Writers \ {w} : writer'[u] = writer[u]
        /\ \/ writer'[w].operation = "import"
           \/ /\ writer[w].pc = "import"
              /\ writer'[w].operation = writer[w].operation /\ writer'[w].row = writer[w].row
    BY <1>11, StartImportFacts, EndImportFacts DEF Writing
  <2> QED
    BY <1>8, <1>9, <2>1
<1>12. ASSUME NEW x \in Records, ImportRecord(w, x) \/ LinkRecord(w, x)
       PROVE  PageIsTold'
  BY <1>8, <1>9, <1>12 DEF ImportRecord, LinkRecord
<1>13. ASSUME TakeID(w)
       PROVE  PageIsTold'
  <2>1. /\ UNCHANGED log /\ \A u \in Writers \ {w} : writer'[u] = writer[u]
        /\ writer[w].pc = "log"
        /\ \/ /\ writer'[w].operation = writer[w].operation /\ writer'[w].row = writer[w].row
           \/ writer'[w] = WriterIdle
    BY <1>13, TakeIDFacts DEF Writing
  <2> QED
    BY <1>8, <1>9, <2>1 DEF WriterIdle
<1>14. ASSUME CommitChange(w)
       PROVE  PageIsTold'
  <2>1. /\ UNCHANGED stored /\ \A u \in Writers \ {w} : writer'[u] = writer[u]
        /\ writer[w].pc = "commit" /\ writer'[w] = WriterIdle
    BY <1>14, CommitFacts DEF Writing
  <2>2. PICK c \in Change :
          /\ log' = log \cup {c}
          /\ c.operation = writer[w].operation /\ c.row = writer[w].row
    BY <1>14, CommitFacts
  <2>3. DeletedIsGone(c)'
    <3>1. ASSUME c.operation = "delete", c.row \notin misled' PROVE stored'[c.row] = 0
      BY <1>5, <2>1, <2>2, <3>1
    <3> QED
      BY <3>1 DEF DeletedIsGone
  <2>4. \A d \in log' : DeletedIsGone(d)'
    BY <1>4, <2>2, <2>3
  <2>5. \A u \in Writers : writer'[u].pc # "idle" => DeletedIsGone(writer[u])'
    BY <1>8, <2>1 DEF WriterIdle
  <2> QED
    BY <1>7, <2>4, <2>5, NextToldParts
<1> QED
  BY <1>10, <1>11, <1>12, <1>13, <1>14 DEF Write

(* The page reads, and takes what it is answered.                          *)
LEMMA ToldPage ==
  ASSUME FeedTypeOK, Written, IDsApart, PageIsTold, UNCHANGED <<server, told>>,
         \A r \in Records \ (misled \cup missed') : RecordTold(r)'
  PROVE  PageIsTold'
<1>1. /\ \A w \in Writers : writer[w].pc # "idle" => DeletedIsGone(writer[w])
      /\ \A c \in log : DeletedIsGone(c)
  BY ToldParts
<1>2. /\ \A w \in Writers : writer'[w].pc # "idle" => DeletedIsGone(writer[w])'
      /\ \A c \in log' : DeletedIsGone(c)'
  BY <1>1 DEF DeletedIsGone, server, told
<1> QED
  BY <1>2, NextToldParts DEF told

LEMMA ToldRead ==
  ASSUME FeedTypeOK, Written, IDsApart, PageIsTold,
         \/ UNCHANGED feedVars \/ ReloadButton \/ AnswerRead \/ FailRead \/ ShowRead
         \/ \E p \in Polls : SendPoll(p) \/ AnswerPoll(p) \/ FailPoll(p)
  PROVE  PageIsTold'
<1> USE DEF server, page, told, history
<1>0. \A r \in Records \ (misled \cup missed) : RecordTold(r)
  BY ToldParts
<1>1. UNCHANGED <<server, told, fetches>>
  BY DEF feedVars, ReloadButton, AnswerRead, FailRead, ShowRead, SendPoll, AnswerPoll, FailPoll
<1>2. ASSUME NEW r, NEW v
      PROVE  /\ RightOrTold(r, v)' <=> RightOrTold(r, v)
             /\ LatestOrTold(r, v)' <=> LatestOrTold(r, v)
  BY <1>1 DEF RightOrTold, LatestOrTold, WillInsert, WillTell, Untold, Writing
<1>3. ASSUME NEW r PROVE Coming(r)' <=> Coming(r)
  BY <1>1, <1>2 DEF Coming
<1>4. ASSUME NEW r \in Records \ (misled \cup missed') PROVE RecordTold(r)'
  <2>1. CASE UNCHANGED <<reading, shown, missed>>
    <3>1. RecordTold(r)
      BY <1>0, <2>1, <1>4
    <3> QED
      BY <1>1, <1>2, <1>3, <2>1, <3>1 DEF RecordTold
  <2>3. CASE ReloadButton
    <3>1. reading'.pc = "sent"
      BY <2>3, ReloadFacts DEF ReloadButton
    <3> QED
      BY <3>1 DEF RecordTold
  <2>4. CASE AnswerRead
    <3>1. reading'.pc = "answered" /\ reading'.rows = stored
      BY <2>4 DEF AnswerRead
    <3>2. RightOrTold(r, stored[r]) /\ LatestOrTold(r, stored[r])
      BY DEF RightOrTold, LatestOrTold
    <3> QED
      BY <1>1, <1>2, <3>1, <3>2 DEF RecordTold
  <2>5. CASE ShowRead
    <3>1. /\ reading.pc = "answered" /\ shown' = reading.rows /\ reading'.pc = "none"
          /\ UNCHANGED missed
      BY <2>5 DEF ShowRead, NoRead
    <3>2. RecordTold(r)
      BY <1>0, <1>4, <3>1
    <3> QED
      BY <1>1, <1>2, <3>1, <3>2 DEF RecordTold
  <2>6. CASE FailRead
    BY <1>4, <2>6 DEF FailRead
  <2> QED
    BY <2>1, <2>3, <2>4, <2>5, <2>6 DEF feedVars, SendPoll, AnswerPoll, FailPoll
<1> QED
  BY <1>1, <1>4, ToldPage

LEMMA ToldFetch ==
  ASSUME FeedTypeOK, Written, IDsApart, PageIsTold, Fetch
  PROVE  PageIsTold'
<1> USE DEF server, page, told, history
<1>0. /\ \A r \in Records \ (misled \cup missed) : RecordTold(r)
      /\ shown \in [Records -> Versions] /\ version \in [Records -> Versions]
  BY ToldParts DEF FeedTypeOK
<1>1. UNCHANGED <<server, told, reading>>
  BY DEF Fetch, AnswerFetch, FailFetch, ShowFetch
<1>2. ASSUME NEW r, NEW v
      PROVE  /\ RightOrTold(r, v)' <=> RightOrTold(r, v)
             /\ LatestOrTold(r, v)' <=> LatestOrTold(r, v)
  BY <1>1 DEF RightOrTold, LatestOrTold, WillInsert, WillTell, Untold, Writing
<1>3. ASSUME NEW r, NEW k \in 1 .. Len(fetches), NEW j \in 1 .. Len(fetches'),
             fetches'[j] = fetches[k], fetches[k].row = r,
             \/ fetches[k].version = Pending
             \/ fetches[k].version # 0 /\ LatestOrTold(r, fetches[k].version)
      PROVE  Coming(r)'
  BY <1>2, <1>3 DEF Coming
<1>4. ASSUME NEW i \in 1 .. Len(fetches), AnswerFetch(i) \/ FailFetch(i) PROVE PageIsTold'
  <2>1. /\ Len(fetches') = Len(fetches) /\ UNCHANGED shown
        /\ fetches'[i].row = fetches[i].row
        /\ \A j \in 1 .. Len(fetches) : j # i => fetches'[j] = fetches[j]
        /\ missed \subseteq missed'
        /\ \/ fetches[i].row \in missed'
           \/ fetches'[i].version = stored[fetches[i].row]
    <3>1. CASE AnswerFetch(i)
      BY <3>1, AnswerFetchFacts
    <3>2. CASE FailFetch(i)
      BY <3>2, FailFetchFacts
    <3> QED
      BY <1>4, <3>1, <3>2
  <2>2. ASSUME NEW r \in Records \ (misled \cup missed') PROVE RecordTold(r)'
    <3>1. RecordTold(r)
      BY <1>0, <2>1, <2>2
    <3>2. CASE reading.pc # "none"
      BY <1>1, <1>2, <3>1, <3>2 DEF RecordTold
    <3>3. CASE reading.pc = "none"
      <4>1. RightOrTold(r, shown[r])'
        BY <1>2, <2>1, <3>1, <3>3 DEF RecordTold
      <4>2. CASE LatestOrTold(r, shown[r])
        BY <1>1, <1>2, <2>1, <4>1, <4>2, <3>3 DEF RecordTold
      <4>3. CASE ~LatestOrTold(r, shown[r])
        <5>1. PICK k \in 1 .. Len(fetches) :
                /\ fetches[k].row = r
                /\ \/ fetches[k].version = Pending
                   \/ fetches[k].version # 0 /\ LatestOrTold(r, fetches[k].version)
          BY <3>1, <3>3, <4>3 DEF RecordTold, Coming
        <5>2. CASE k # i
          <6>1. Coming(r)'
            BY <1>3, <2>1, <5>1, <5>2
          <6> QED
            BY <1>1, <3>3, <4>1, <6>1 DEF RecordTold
        <5>3. CASE k = i
          <6>1. fetches'[i].row = r /\ fetches'[i].version = stored[r]
            BY <2>1, <2>2, <5>1, <5>3
          <6>2. stored[r] # 0
            BY <4>3 DEF LatestOrTold
          <6>3. LatestOrTold(r, stored[r])'
            BY <1>1 DEF LatestOrTold
          <6>4. Coming(r)'
            BY <1>1, <2>1, <6>1, <6>2, <6>3 DEF Coming
          <6> QED
            BY <1>1, <3>3, <4>1, <6>4 DEF RecordTold
        <5> QED
          BY <5>2, <5>3
      <4> QED
        BY <4>2, <4>3
    <3> QED
      BY <3>2, <3>3
  <2> QED
    BY <1>1, <2>2, ToldPage
<1>5. ASSUME NEW i \in 1 .. Len(fetches), ShowFetch(i) PROVE PageIsTold'
  <2> DEFINE f == fetches[i]
  <2>1. /\ f.row \in Records /\ f.version \in Versions
        /\ \A k \in 1 .. Len(fetches) : k # i =>
              \E j \in 1 .. Len(fetches') : fetches'[j] = fetches[k]
        /\ shown' = IF f.version # 0 /\ shown[f.row] # 0
                    THEN [shown EXCEPT ![f.row] = f.version]
                    ELSE shown
        /\ missed' = IF f.version # 0 /\ f.version < shown[f.row]
                     THEN missed \cup {f.row} ELSE missed
    BY <1>5, ShowFetchFacts
  <2>3. f.version # Pending /\ f.version \in Nat /\ f.version <= version[f.row]
    BY <2>1, BoundFacts DEF Written
  <2>4. ASSUME NEW r \in Records \ (misled \cup missed') PROVE RecordTold(r)'
    <3>1. RecordTold(r)
      BY <1>0, <2>1, <2>4
    <3>2. CASE reading.pc # "none"
      BY <1>1, <1>2, <3>1, <3>2 DEF RecordTold
    <3>3. CASE reading.pc = "none"
      <4>0. /\ RightOrTold(r, shown[r])
            /\ \/ LatestOrTold(r, shown[r])
               \/ \E k \in 1 .. Len(fetches) :
                    /\ fetches[k].row = r
                    /\ \/ fetches[k].version = Pending
                       \/ fetches[k].version # 0 /\ LatestOrTold(r, fetches[k].version)
        BY <3>1, <3>3 DEF RecordTold, Coming
      <4>1. \/ LatestOrTold(r, shown[r])
            \/ Coming(r)'
            \/ f.row = r /\ f.version # 0 /\ LatestOrTold(r, f.version)
        <5>1. ASSUME NEW k \in 1 .. Len(fetches), fetches[k].row = r,
                     \/ fetches[k].version = Pending
                     \/ fetches[k].version # 0 /\ LatestOrTold(r, fetches[k].version)
              PROVE  Coming(r)' \/ k = i
          <6>1. CASE k # i
            <7>1. PICK j \in 1 .. Len(fetches') : fetches'[j] = fetches[k]
              BY <2>1, <6>1
            <7> QED
              BY <1>3, <5>1, <7>1
          <6> QED
            BY <6>1
        <5> QED
          BY <2>3, <4>0, <5>1
      <4> HIDE DEF f
      <4>2. CASE r = f.row /\ f.version # 0 /\ shown[r] # 0
        <5>1. shown'[r] = f.version
          BY <1>0, <2>1, <4>2
        <5>2. RightOrTold(r, f.version)
          BY <4>0, <4>2 DEF RightOrTold
        <5>3. ~(f.version < shown[r])
          BY <2>1, <2>4, <4>2
        <5>4. ASSUME LatestOrTold(r, shown[r]) PROVE LatestOrTold(r, f.version)
          <6>1. CASE WillTell("update", r) \/ stored[r] = 0
            BY <6>1 DEF LatestOrTold
          <6>2. CASE ~WillTell("update", r) /\ stored[r] # 0
            <7>1. stored[r] = shown[r]
              BY <4>2, <5>4, <6>2 DEF LatestOrTold
            <7>2. stored[r] = version[r]
              BY <6>2 DEF Written
            <7>3. shown[r] \in Nat
              BY <1>0, BoundFacts
            <7>4. f.version = stored[r]
              BY <2>3, <4>2, <5>3, <7>1, <7>2, <7>3
            <7> QED
              BY <7>4 DEF LatestOrTold
          <6> QED
            BY <6>1, <6>2
        <5>5. LatestOrTold(r, f.version) \/ Coming(r)'
          BY <4>1, <5>4
        <5>6. RightOrTold(r, shown[r])' /\ (LatestOrTold(r, shown[r])' \/ Coming(r)')
          BY <1>2, <5>1, <5>2, <5>5
        <5> QED
          BY <1>1, <3>3, <5>6 DEF RecordTold
      <4>3. CASE ~(r = f.row /\ f.version # 0 /\ shown[r] # 0)
        <5>1. shown'[r] = shown[r]
          BY <1>0, <2>1, <4>3
        <5>2. LatestOrTold(r, shown[r]) \/ Coming(r)'
          BY <4>1, <4>3 DEF LatestOrTold
        <5>3. RightOrTold(r, shown[r])' /\ (LatestOrTold(r, shown[r])' \/ Coming(r)')
          BY <1>2, <4>0, <5>1, <5>2
        <5> QED
          BY <1>1, <3>3, <5>3 DEF RecordTold
      <4> QED
        BY <4>2, <4>3
    <3> QED
      BY <3>2, <3>3
  <2> QED
    BY <1>1, <2>4, ToldPage
<1> QED
  BY <1>4, <1>5 DEF Fetch

(* An answer to the poll: what it tells is reloaded, removed or asked for, *)
(* or shown already by the read that is on its way.                        *)
LEMMA ToldHandle ==
  ASSUME FeedTypeOK, Written, IDsApart, PageIsTold, NEW p \in Polls, HandlePoll(p)
  PROVE  PageIsTold'
<1> USE DEF server, page, told
<1> DEFINE rows == poll[p].rows
<1>0. /\ \A w \in Writers : writer[w].pc # "idle" => DeletedIsGone(writer[w])
      /\ \A c \in log : DeletedIsGone(c)
      /\ \A r \in Records \ (misled \cup missed) : RecordTold(r)
  BY ToldParts
<1>1. rows \in SUBSET log
  BY PollFacts
<1>2. /\ UNCHANGED <<server, opened, misled>> /\ missed \subseteq missed'
      /\ \/ UNCHANGED <<reading, fetches, shown, handled>>
         \/ /\ Refresh(rows) /\ handled' = handled \cup IDs(rows)
            /\ ReadBefore(rows) \subseteq missed'
  BY HandleFacts
<1> HIDE DEF rows
<1>3. /\ \A w \in Writers : writer'[w].pc # "idle" => DeletedIsGone(writer[w])'
      /\ \A c \in log' : DeletedIsGone(c)'
  BY <1>0, <1>2 DEF DeletedIsGone
<1>4. CASE UNCHANGED <<reading, fetches, shown, handled>>
  <2>1. ASSUME NEW r, NEW v
        PROVE  /\ RightOrTold(r, v)' <=> RightOrTold(r, v)
               /\ LatestOrTold(r, v)' <=> LatestOrTold(r, v)
    BY <1>2, <1>4 DEF RightOrTold, LatestOrTold, WillInsert, WillTell, Untold, Writing
  <2>2. ASSUME NEW r PROVE Coming(r)' <=> Coming(r)
    BY <1>4, <2>1 DEF Coming
  <2>3. \A r \in Records \ (misled \cup missed') : RecordTold(r)'
    BY <1>0, <1>2, <1>4, <2>1, <2>2 DEF RecordTold
  <2> QED
    BY <1>2, <1>3, <2>3, NextToldParts
<1>5. CASE /\ Refresh(rows) /\ handled' = handled \cup IDs(rows)
           /\ ReadBefore(rows) \subseteq missed'
  <2>1. \A c \in log : Untold(c) => c \in rows \/ Untold(c)'
    BY <1>1, <1>2, <1>5 DEF Untold, IDs, IDsApart
  <2>2. ASSUME NEW r \in Records
        PROVE  /\ WillInsert(r) => \/ WillInsert(r)'
                                  \/ \E c \in rows : /\ c.operation \in {"insert", "import"}
                                                     /\ c.row \in {r, None}
               /\ \A op \in {"update", "delete"} : WillTell(op, r) =>
                     WillTell(op, r)' \/ \E c \in rows : c.operation = op /\ c.row = r
    <3>1. \A c \in log : c.operation = "import" => c.row = None
      BY DEF Written
    <3> QED
      BY <1>2, <2>1, <3>1 DEF WillInsert, WillTell, Writing
  <2>3. ASSUME NEW r \in Records \ (misled \cup missed'), UNCHANGED reading,
               reading.pc = "answered"
        PROVE  RecordTold(r)'
    <3>1. RightOrTold(r, reading.rows[r]) /\ LatestOrTold(r, reading.rows[r])
      BY <1>0, <1>2, <2>3 DEF RecordTold
    <3>2. CASE reading.rows[r] = stored[r]
      BY <1>2, <2>3, <3>2 DEF RecordTold, RightOrTold, LatestOrTold
    <3>3. CASE ~\E c \in rows : c.row \in {r, None}
      <4>1. /\ WillInsert(r) => WillInsert(r)'
            /\ WillTell("update", r) => WillTell("update", r)'
            /\ WillTell("delete", r) => WillTell("delete", r)'
        BY <2>2, <3>3
      <4>2. RightOrTold(r, reading.rows[r])' /\ LatestOrTold(r, reading.rows[r])'
        BY <1>2, <2>3, <3>1, <4>1 DEF RightOrTold, LatestOrTold
      <4> QED
        BY <2>3, <4>2 DEF RecordTold
    <3>4. r \notin ReadBefore(rows)
      BY <1>5
    <3> QED
      BY <2>3, <3>2, <3>3, <3>4 DEF ReadBefore
  <2>4. CASE Reload /\ UNCHANGED fetches
    <3>1. reading'.pc = "sent" \/ (reading.pc \in {"sent", "answered"} /\ UNCHANGED reading)
      BY <2>4, ReloadFacts DEF FeedTypeOK
    <3>2. ASSUME NEW r \in Records \ (misled \cup missed') PROVE RecordTold(r)'
      <4>1. CASE reading'.pc = "sent"
        BY <4>1 DEF RecordTold
      <4> QED
        BY <2>3, <3>1, <4>1
    <3> QED
      BY <1>2, <1>3, <3>2, NextToldParts
  <2>5. CASE ~(Reload /\ UNCHANGED fetches)
    <3>1. PICK new \in Seq(Fetched) :
            /\ \A c \in rows : c.operation \notin {"insert", "import"}
            /\ UNCHANGED reading /\ fetches' = fetches \o new
            /\ shown' = [r \in Records |->
                            IF \E c \in rows : c.operation = "delete" /\ c.row = r
                            THEN 0 ELSE shown[r]]
            /\ \A i \in 1 .. Len(new) :
                  /\ new[i].version = Pending
                  /\ \E c \in rows : c.operation = "update" /\ new[i].row = c.row
            /\ \A c \in rows : c.operation = "update" =>
                  \E i \in 1 .. Len(new) : new[i].row = c.row
      BY <1>1, <1>5, <2>5, RefreshFacts
    <3>2. /\ fetches \in Seq(Fetched) /\ Len(fetches) \in Nat /\ Len(new) \in Nat
          /\ Len(fetches') = Len(fetches) + Len(new)
          /\ \A i \in 1 .. Len(fetches) + Len(new) : fetches'[i] =
                IF i <= Len(fetches) THEN fetches[i] ELSE new[i - Len(fetches)]
      <4>1. fetches \in Seq(Fetched)
        BY DEF FeedTypeOK, Fetched
      <4> QED
        BY <3>1, <4>1, ConcatProperties, LenProperties
    <3>3. \A k \in 1 .. Len(fetches) : k \in 1 .. Len(fetches') /\ fetches'[k] = fetches[k]
      BY <3>2
    <3>4. ASSUME NEW r \in Records, NEW c \in rows, c.operation = "update", c.row = r
          PROVE  Coming(r)'
      <4>1. PICK i \in 1 .. Len(new) : new[i].row = r /\ new[i].version = Pending
        BY <3>1, <3>4
      <4>2. /\ Len(fetches) + i \in 1 .. Len(fetches')
            /\ fetches'[Len(fetches) + i] = new[i]
        BY <3>2
      <4> QED
        BY <4>1, <4>2 DEF Coming
    <3>5. ASSUME NEW r \in Records, NEW v, LatestOrTold(r, v)
          PROVE  LatestOrTold(r, v)' \/ Coming(r)'
      BY <1>2, <2>2, <3>4, <3>5 DEF LatestOrTold
    <3>6. ASSUME NEW r \in Records, Coming(r)
          PROVE  Coming(r)'
      <4>1. PICK k \in 1 .. Len(fetches) :
              /\ fetches[k].row = r
              /\ \/ fetches[k].version = Pending
                 \/ fetches[k].version # 0 /\ LatestOrTold(r, fetches[k].version)
        BY <3>6 DEF Coming
      <4>2. CASE fetches[k].version = Pending
        BY <3>3, <4>1, <4>2 DEF Coming
      <4>3. CASE fetches[k].version # 0 /\ LatestOrTold(r, fetches[k].version)
        <5>1. LatestOrTold(r, fetches[k].version)' \/ Coming(r)'
          <6>1. \A v : LatestOrTold(r, v) => (LatestOrTold(r, v)' \/ Coming(r)')
            BY <3>5
          <6> QED
            BY <3>3, <4>3, <6>1 DEF LatestOrTold
        <5> QED
          BY <3>3, <4>1, <4>3, <5>1 DEF Coming
      <4> QED
        BY <4>1, <4>2, <4>3
    <3>7. ASSUME NEW r \in Records \ (misled \cup missed'), reading.pc = "none"
          PROVE  RecordTold(r)'
      <4>1. RightOrTold(r, shown[r]) /\ (LatestOrTold(r, shown[r]) \/ Coming(r))
        BY <1>0, <1>2, <3>7 DEF RecordTold
      <4>2. CASE \E c \in rows : c.operation = "delete" /\ c.row = r
        <5>1. shown'[r] = 0 /\ stored'[r] = 0
          BY <1>0, <1>1, <1>2, <3>1, <4>2 DEF DeletedIsGone
        <5> QED
          BY <3>1, <3>7, <5>1 DEF RecordTold, RightOrTold, LatestOrTold
      <4>3. CASE ~\E c \in rows : c.operation = "delete" /\ c.row = r
        <5>1. shown'[r] = shown[r] /\ stored'[r] = stored[r]
          BY <1>2, <3>1, <4>3
        <5>2. RightOrTold(r, shown[r])'
          BY <2>2, <3>1, <4>1, <4>3, <5>1 DEF RightOrTold
        <5>3. LatestOrTold(r, shown[r])' \/ Coming(r)'
          BY <2>2, <3>4, <3>6, <4>1, <5>1 DEF LatestOrTold
        <5> QED
          BY <3>1, <3>7, <5>2, <5>3 DEF RecordTold
      <4> QED
        BY <4>2, <4>3
    <3>8. ASSUME NEW r \in Records \ (misled \cup missed') PROVE RecordTold(r)'
      <4>1. CASE reading.pc = "sent"
        BY <3>1, <4>1 DEF RecordTold
      <4>2. reading.pc \in {"none", "sent", "answered"}
        BY DEF FeedTypeOK
      <4> QED
        BY <2>3, <3>1, <3>7, <4>1, <4>2
    <3> QED
      BY <1>2, <1>3, <3>8, NextToldParts
  <2> QED
    BY <2>4, <2>5
<1> QED
  BY <1>2, <1>4, <1>5

LEMMA ToldStep ==
  ASSUME FeedTypeOK, Written, IDsApart, PageIsTold, [FeedNext]_feedVars
  PROVE  PageIsTold'
<1>1. CASE \E w \in Writers : Write(w)
  BY <1>1, ToldWrite
<1>2. CASE UNCHANGED feedVars \/ ReloadButton \/ AnswerRead \/ FailRead \/ ShowRead
           \/ \E p \in Polls : SendPoll(p) \/ AnswerPoll(p) \/ FailPoll(p)
  BY <1>2, ToldRead
<1>3. CASE Fetch
  BY <1>3, ToldFetch
<1>4. CASE \E p \in Polls : HandlePoll(p)
  BY <1>4, ToldHandle
<1>5. FeedNext \/ UNCHANGED feedVars
  OBVIOUS
<1> QED
  BY <1>1, <1>2, <1>3, <1>4, <1>5 DEF FeedNext, Follow

-----------------------------------------------------------------------------
(* The type invariant: a thread's task, the log and its identifiers, the   *)
(* requests of the page and their answers (data.cpp, data_controller.js).  *)
THEOREM FeedTypeCorrect == FeedSpec => []FeedTypeOK
<1> DEFINE I == FeedTypeOK /\ Written /\ IDsApart
<1>1. FeedInit => I
  BY FeedTypeInit
<1>2. I /\ [FeedNext]_feedVars => I'
  BY FeedTypeStep, WrittenStep, IDsApartStep
<1>3. I => FeedTypeOK
  OBVIOUS
<1> HIDE DEF I
<1> QED
  BY <1>1, <1>2, <1>3, PTL DEF FeedSpec

(* The inductive invariant: what is announced has been written, identifiers*)
(* are given out once, no change is skipped but one that commits behind the*)
(* page, and the page is told of all it does not know, but of the records  *)
(* whose reads failed or were overtaken.                                   *)
THEOREM FeedInductive == FeedSpec => []FeedInv
<1>1. FeedInit => FeedInv
  BY FeedTypeInit, LateInit, ToldInit DEF FeedInv
<1>2. FeedInv /\ [FeedNext]_feedVars => FeedInv'
  <2> SUFFICES ASSUME FeedInv, [FeedNext]_feedVars PROVE FeedInv'
    OBVIOUS
  <2>1. /\ FeedTypeOK /\ Written /\ IDsApart
        /\ AnswersWhole /\ NoChangeSkipped /\ LateMisleads /\ PageIsTold
    BY DEF FeedInv
  <2>2. FeedTypeOK' /\ Written' /\ IDsApart'
    BY <2>1, FeedTypeStep, WrittenStep, IDsApartStep
  <2>3. AnswersWhole' /\ NoChangeSkipped' /\ LateMisleads'
    BY <2>1, LateStep
  <2>4. PageIsTold'
    BY <2>1, ToldStep
  <2> QED
    BY <2>2, <2>3, <2>4 DEF FeedInv
<1> QED
  BY <1>1, <1>2, PTL DEF FeedSpec

(* A change is logged after the write it announces: ChangeInt::Change runs *)
(* at the end of the handlers of data.cpp.                                 *)
THEOREM LogSafe == FeedSpec => []LoggedIsWritten
<1>1. FeedInv => LoggedIsWritten
  BY DEF FeedInv, Written, LoggedIsWritten
<1> QED
  BY <1>1, FeedInductive, PTL

(* The page's cursor, which answers move back and forth, never runs past a *)
(* change that no answer has brought (changeIntVerification), but for one  *)
(* that appears in the log when the page is past it.                       *)
THEOREM NothingSkipped == FeedSpec => []NoChangeSkipped
<1>1. FeedInv => NoChangeSkipped
  BY DEF FeedInv
<1> QED
  BY <1>1, FeedInductive, PTL

(* A page at rest at the end of the log that has been told of every change *)
(* shows every record in its last version, except those the log is wrong   *)
(* about, and those of which a read failed or was overtaken since the last *)
(* read of the whole table.                                                *)
THEOREM Converges == FeedSpec => []PageConverges
<1>1. FeedInv => PageConverges
  <2> SUFFICES ASSUME FeedInv, Quiet, passed \subseteq opened,
                      NEW r \in Records \ (misled \cup missed)
               PROVE  shown[r] = stored[r]
    BY DEF PageConverges
  <2>1. /\ NoChangeSkipped /\ LateMisleads /\ PageIsTold
        /\ \A w \in Writers : Writing(w, "idle")
        /\ \A c \in log : c.id <= cursor
        /\ reading.pc = "none" /\ Len(fetches) = 0
    BY DEF FeedInv, Quiet
  <2>2. \A c \in log : c.id \in late \/ ~Untold(c)
    BY <2>1 DEF NoChangeSkipped, Reached, Untold
  <2>3. \A c \in log : c.id \in late => c.row # None /\ c.row # r
    BY <2>1 DEF LateMisleads
  <2>4. \A c \in log : c.operation = "import" => c.row = None
    BY DEF FeedInv, Written
  <2>5. ~WillInsert(r) /\ ~WillTell("update", r) /\ ~WillTell("delete", r)
    BY <2>1, <2>2, <2>3, <2>4 DEF WillInsert, WillTell
  <2>6. ~Coming(r)
    BY <2>1 DEF Coming
  <2>7. RightOrTold(r, shown[r]) /\ LatestOrTold(r, shown[r])
    BY <2>1, <2>6 DEF PageIsTold
  <2> QED
    BY <2>5, <2>7 DEF RightOrTold, LatestOrTold
<1> QED
  BY <1>1, FeedInductive, PTL

-----------------------------------------------------------------------------
(***************************************************************************)
(* FormProxy: public forms on the bounded pool.                            *)
(***************************************************************************)
(* What joining and leaving the queue do to the places in it.              *)
LEMMA AppendFacts ==
  ASSUME NEW q \in Seq(Connection), NEW x \in Connection
  PROVE  /\ Append(q, x) \in Seq(Connection)
         /\ Len(Append(q, x)) = Len(q) + 1
         /\ \A i \in 1..Len(q) : Append(q, x)[i] = q[i]
         /\ Append(q, x)[Len(q) + 1] = x
  OBVIOUS

LEMMA TailFacts ==
  ASSUME NEW q \in Seq(Connection), q # << >>
  PROVE  /\ Tail(q) \in Seq(Connection) /\ Len(q) \in Nat \ {0}
         /\ Len(Tail(q)) = Len(q) - 1
         /\ \A i \in 1..Len(q) - 1 : Tail(q)[i] = q[i + 1]
         /\ Head(q) = q[1] /\ Head(q) \in Connection
  OBVIOUS

(* A connection is of one of the two kinds, and knows its form request.    *)
LEMMA ConnectionFacts ==
  ASSUME NEW x \in Connection
  PROVE  x[1] \in {"outer", "inner"} /\ x[2] \in Requests /\ x = <<x[1], x[2]>>
  BY DEF Connection

(* Every variable keeps its type.                                          *)
LEMMA FormsTypeInit == FormsInit => FormsTypeOK
  BY DEF FormsInit, FormsTypeOK, OuterPCs, InnerPCs, Answers

LEMMA FormsTypeStep == FormsTypeOK /\ [FormsNext]_formsVars => FormsTypeOK'
<1> SUFFICES ASSUME FormsTypeOK, [FormsNext]_formsVars PROVE FormsTypeOK'
  OBVIOUS
<1> USE DEF OuterPCs, InnerPCs, Answers, OuterGoto, InnerGoto
<1>1. ASSUME NEW r \in Requests, Arrive(r) PROVE FormsTypeOK'
  <2>1. <<"outer", r>> \in Connection
    BY DEF Connection
  <2>2. queue' \in Seq(Connection)
    BY <1>1, <2>1, AppendFacts DEF Arrive, FormsTypeOK
  <2> QED
    BY <1>1, <2>2 DEF Arrive, FormsTypeOK
<1>2. ASSUME NEW r \in Requests, Serve(r) PROVE FormsTypeOK'
  <2>1. CASE Connect(r)
    <3>1. <<"inner", r>> \in Connection
      BY DEF Connection
    <3>2. queue' \in Seq(Connection)
      <4>1. queue' = Append(queue, <<"inner", r>>) \/ queue' = queue
        BY <2>1 DEF Connect
      <4>2. queue \in Seq(Connection)
        BY DEF FormsTypeOK
      <4>3. Append(queue, <<"inner", r>>) \in Seq(Connection)
        BY <3>1, <4>2, AppendFacts
      <4> QED
        BY <4>1, <4>2, <4>3
    <3> QED
      BY <2>1, <3>2 DEF Connect, FormsTypeOK
  <2>2. CASE VerifyPublicFormEnabled(r) \/ CreateSystemUser(r) \/ CreateSession(r)
    BY <2>2 DEF VerifyPublicFormEnabled, CreateSystemUser, CreateSession, FormsTypeOK
  <2>3. CASE ForwardAnswer(r) \/ Timeout(r) \/ DeleteSystemUser(r)
    BY <2>3 DEF ForwardAnswer, Timeout, DeleteSystemUser, FormsTypeOK
  <2> QED
    BY <1>2, <2>1, <2>2, <2>3 DEF Serve
<1>3. ASSUME NEW r \in Requests, ServeInner(r) PROVE FormsTypeOK'
  <2>1. CASE VerifySession(r)
    BY <2>1 DEF VerifySession, FormsTypeOK
  <2>2. CASE RunInner(r)
    <3>1. effect' \subseteq Requests
      BY <2>2 DEF RunInner, FormsTypeOK
    <3>2. inner' \in [Requests -> InnerPCs]
      BY <2>2 DEF RunInner, FormsTypeOK
    <3> QED
      BY <2>2, <3>1, <3>2 DEF RunInner, FormsTypeOK
  <2>3. CASE CloseInner(r)
    BY <2>3 DEF CloseInner, FormsTypeOK
  <2> QED
    BY <1>3, <2>1, <2>2, <2>3 DEF ServeInner
<1>4. CASE Dispatch
  <2>1. queue' \in Seq(Connection) /\ Head(queue)[2] \in Requests
    BY <1>4, TailFacts, ConnectionFacts DEF Dispatch, FormsTypeOK
  <2> QED
    BY <1>4, <2>1 DEF Dispatch, FormsTypeOK
<1>5. CASE TogglePublic
  BY <1>5 DEF TogglePublic, FormsTypeOK
<1>7. CASE Crash
  <2>1. queue' \in Seq(Connection)
    BY <1>7 DEF Crash
  <2> QED
    BY <1>7, <2>1 DEF Crash, FormsTypeOK
<1>6. CASE UNCHANGED formsVars
  BY <1>6 DEF formsVars, FormsTypeOK
<1> QED
  BY <1>1, <1>2, <1>3, <1>4, <1>5, <1>6, <1>7 DEF FormsNext

(* Type correctness.                                                       *)
THEOREM FormsTypeCorrect == FormsSpec => []FormsTypeOK
  BY FormsTypeInit, FormsTypeStep, PTL DEF FormsSpec

-----------------------------------------------------------------------------
(* The steps that leave the queue as it is, and so every form request and  *)
(* every request of a form that waits in it.                               *)
LEMMA QueueKept ==
  ASSUME FormsTypeOK, QueuedOnce, UNCHANGED queue,
         \A r \in Requests : outer[r] = "queued" => outer'[r] = "queued",
         \A r \in Requests : inner[r] = "queued" => inner'[r] = "queued"
  PROVE  QueuedOnce'
<1>1. \A i \in 1..Len(queue) : queue[i][2] \in Requests
  BY ConnectionFacts DEF FormsTypeOK
<1> QED
  BY <1>1 DEF QueuedOnce

(* A new connection joins the queue: its maker was not in it.              *)
LEMMA QueueJoined ==
  ASSUME FormsTypeOK, QueuedOnce, NEW x \in Connection, queue' = Append(queue, x),
         \A r \in Requests : outer[r] = "queued" => outer'[r] = "queued",
         \A r \in Requests : inner[r] = "queued" => inner'[r] = "queued",
         IF x[1] = "outer" THEN outer[x[2]] # "queued" /\ outer'[x[2]] = "queued"
                           ELSE inner[x[2]] # "queued" /\ inner'[x[2]] = "queued"
  PROVE  QueuedOnce'
<1>0. queue \in Seq(Connection) /\ Len(queue) \in Nat
  BY DEF FormsTypeOK
<1>1. \A i \in 1..Len(queue) : queue[i] # x /\ queue[i][2] \in Requests
  BY <1>0, ConnectionFacts DEF QueuedOnce
<1>2. /\ Len(queue') = Len(queue) + 1
      /\ \A i \in 1..Len(queue) : queue'[i] = queue[i]
      /\ queue'[Len(queue) + 1] = x
  BY <1>0, AppendFacts
<1>3. ASSUME NEW i \in 1..Len(queue')
      PROVE  IF queue'[i][1] = "outer" THEN outer'[queue'[i][2]] = "queued"
                                       ELSE inner'[queue'[i][2]] = "queued"
  <2>1. CASE i = Len(queue) + 1
    BY <2>1, <1>2
  <2>2. CASE i \in 1..Len(queue)
    BY <2>2, <1>1, <1>2 DEF QueuedOnce
  <2> QED
    BY <1>0, <1>2, <2>1, <2>2
<1>4. ASSUME NEW i \in 1..Len(queue'), NEW j \in 1..Len(queue'), i # j
      PROVE  queue'[i] # queue'[j]
  <2>1. CASE i \in 1..Len(queue) /\ j \in 1..Len(queue)
    BY <2>1, <1>2, <1>4 DEF QueuedOnce
  <2>2. CASE i = Len(queue) + 1 /\ j \in 1..Len(queue)
    BY <2>2, <1>1, <1>2
  <2>3. CASE j = Len(queue) + 1 /\ i \in 1..Len(queue)
    BY <2>3, <1>1, <1>2
  <2> QED
    BY <1>0, <1>2, <1>4, <2>1, <2>2, <2>3
<1> QED
  BY <1>3, <1>4 DEF QueuedOnce

(* The oldest connection leaves the queue: no other is the same.           *)
LEMMA QueueLeft ==
  ASSUME FormsTypeOK, QueuedOnce, Dispatch
  PROVE  QueuedOnce'
<1> DEFINE h == Head(queue)
<1>0. /\ queue' \in Seq(Connection) /\ Len(queue) \in Nat \ {0}
      /\ Len(queue') = Len(queue) - 1
      /\ \A i \in 1..Len(queue') : queue'[i] = queue[i + 1] /\ i + 1 \in 1..Len(queue)
      /\ h = queue[1] /\ h \in Connection
  BY TailFacts DEF Dispatch, FormsTypeOK
<1>1. \A i \in 1..Len(queue') : queue'[i] \in Connection /\ queue'[i] # h
  BY <1>0 DEF QueuedOnce
<1>2. h[1] \in {"outer", "inner"} /\ h[2] \in Requests /\ h = <<h[1], h[2]>>
  BY <1>0, ConnectionFacts
<1>3. /\ \A r \in Requests : h # <<"outer", r>> => outer'[r] = outer[r]
      /\ \A r \in Requests : h # <<"inner", r>> => inner'[r] = inner[r]
  BY <1>2 DEF Dispatch, OuterGoto, InnerGoto, FormsTypeOK
<1> HIDE DEF h
<1>4. ASSUME NEW i \in 1..Len(queue')
      PROVE  IF queue'[i][1] = "outer" THEN outer'[queue'[i][2]] = "queued"
                                       ELSE inner'[queue'[i][2]] = "queued"
  <2>1. /\ queue'[i][1] \in {"outer", "inner"} /\ queue'[i][2] \in Requests
        /\ queue'[i] = <<queue'[i][1], queue'[i][2]>>
    BY <1>1, ConnectionFacts
  <2>2. IF queue'[i][1] = "outer" THEN outer[queue'[i][2]] = "queued"
                                  ELSE inner[queue'[i][2]] = "queued"
    BY <1>0 DEF QueuedOnce
  <2> QED
    BY <1>1, <1>3, <2>1, <2>2
<1>5. \A i, j \in 1..Len(queue') : i # j => queue'[i] # queue'[j]
  BY <1>0 DEF QueuedOnce
<1> QED
  BY <1>4, <1>5 DEF QueuedOnce

LEMMA QueueStep == FormsInv /\ [FormsNext]_formsVars => QueuedOnce'
<1> SUFFICES ASSUME FormsInv, [FormsNext]_formsVars PROVE QueuedOnce'
  OBVIOUS
<1> USE DEF OuterGoto, InnerGoto
<1>0. FormsTypeOK /\ QueuedOnce /\ Prepared
  BY DEF FormsInv
<1>1. ASSUME NEW r \in Requests, Arrive(r) PROVE QueuedOnce'
  <2>1. /\ <<"outer", r>> \in Connection
        /\ <<"outer", r>>[1] = "outer" /\ <<"outer", r>>[2] = r
        /\ queue' = Append(queue, <<"outer", r>>)
        /\ outer[r] # "queued" /\ outer'[r] = "queued"
        /\ \A x \in Requests : outer[x] = "queued" => outer'[x] = "queued"
        /\ UNCHANGED inner
    BY <1>0, <1>1 DEF Arrive, Connection, FormsTypeOK
  <2> QED
    BY <1>0, <2>1, QueueJoined
<1>2. ASSUME NEW r \in Requests, Connect(r) PROVE QueuedOnce'
  <2>1. /\ outer[r] = "connect"
        /\ \A x \in Requests : outer[x] = "queued" => outer'[x] = "queued"
    BY <1>0, <1>2 DEF Connect, FormsTypeOK
  <2>2. CASE QueueHasRoom
    <3>1. /\ <<"inner", r>> \in Connection
          /\ <<"inner", r>>[1] = "inner" /\ <<"inner", r>>[2] = r
          /\ queue' = Append(queue, <<"inner", r>>)
          /\ inner[r] = "none" /\ inner'[r] = "queued"
          /\ \A x \in Requests : inner[x] = "queued" => inner'[x] = "queued"
      BY <1>0, <1>2, <2>1, <2>2 DEF Connect, Connection, FormsTypeOK, Prepared
    <3> QED
      BY <1>0, <2>1, <3>1, QueueJoined
  <2>3. CASE ~QueueHasRoom
    BY <1>0, <1>2, <2>1, <2>3, QueueKept DEF Connect
  <2> QED
    BY <2>2, <2>3
<1>3. ASSUME NEW r \in Requests, Serve(r), ~Connect(r) PROVE QueuedOnce'
  <2>1. /\ UNCHANGED <<queue, inner>>
        /\ \A x \in Requests : outer[x] = "queued" => outer'[x] = "queued"
    BY <1>0, <1>3 DEF Serve, VerifyPublicFormEnabled, CreateSystemUser, CreateSession,
                      ForwardAnswer, Timeout, DeleteSystemUser, FormsTypeOK
  <2> QED
    BY <1>0, <2>1, QueueKept
<1>4. ASSUME NEW r \in Requests, ServeInner(r) PROVE QueuedOnce'
  <2>1. /\ UNCHANGED <<queue, outer>>
        /\ \A x \in Requests : inner[x] = "queued" => inner'[x] = "queued"
    <3>1. CASE VerifySession(r) \/ CloseInner(r)
      BY <1>0, <3>1 DEF VerifySession, CloseInner, FormsTypeOK, Answers
    <3>2. CASE RunInner(r)
      BY <1>0, <3>2 DEF RunInner, FormsTypeOK
    <3> QED
      BY <1>4, <3>1, <3>2 DEF ServeInner
  <2> QED
    BY <1>0, <2>1, QueueKept
<1>5. CASE Dispatch
  BY <1>0, <1>5, QueueLeft
<1>6. CASE TogglePublic
  BY <1>0, <1>6, QueueKept DEF TogglePublic
<1>7. CASE Crash
  BY <1>7 DEF Crash, QueuedOnce
<1>8. CASE UNCHANGED formsVars
  BY <1>0, <1>8, QueueKept DEF formsVars
<1> QED
  BY <1>1, <1>2, <1>3, <1>4, <1>5, <1>6, <1>7, <1>8 DEF FormsNext

(* Whom Dispatch takes out of the queue.                                   *)
LEMMA DispatchFacts ==
  ASSUME FormsTypeOK, QueuedOnce, Dispatch
  PROVE  \E r \in Requests :
            \/ /\ outer[r] = "queued" /\ outer' = [outer EXCEPT ![r] = "verify"]
               /\ UNCHANGED inner
            \/ /\ inner[r] = "queued" /\ UNCHANGED outer
               /\ inner' = [inner EXCEPT ![r] = IF outer[r] = "waiting"
                                                THEN "session" ELSE "none"]
<1>1. /\ Head(queue) = queue[1] /\ 1 \in 1..Len(queue) /\ Head(queue) \in Connection
  BY TailFacts DEF Dispatch, FormsTypeOK
<1>2. Head(queue)[1] \in {"outer", "inner"} /\ Head(queue)[2] \in Requests
  BY <1>1, ConnectionFacts
<1>3. IF Head(queue)[1] = "outer" THEN outer[Head(queue)[2]] = "queued"
                                  ELSE inner[Head(queue)[2]] = "queued"
  BY <1>1 DEF QueuedOnce
<1> QED
  BY <1>2, <1>3 DEF Dispatch, OuterGoto, InnerGoto

(* A form has its user and its session while it talks to the server.       *)
LEMMA PreparedStep == FormsInv /\ [FormsNext]_formsVars => Prepared'
<1> SUFFICES ASSUME FormsInv, [FormsNext]_formsVars PROVE Prepared'
  OBVIOUS
<1> USE DEF OuterGoto, InnerGoto
<1>0. FormsTypeOK /\ QueuedOnce /\ Prepared
  BY DEF FormsInv
<1>1. ASSUME NEW r \in Requests, Arrive(r) PROVE Prepared'
  BY <1>0, <1>1 DEF Arrive, FormsTypeOK, Prepared
<1>2. ASSUME NEW r \in Requests, Serve(r) PROVE Prepared'
  <2>1. CASE VerifyPublicFormEnabled(r)
    BY <1>0, <2>1 DEF VerifyPublicFormEnabled, FormsTypeOK, Prepared
  <2>2. CASE CreateSystemUser(r)
    BY <1>0, <2>2 DEF CreateSystemUser, FormsTypeOK, Prepared
  <2>3. CASE CreateSession(r)
    BY <1>0, <2>3 DEF CreateSession, FormsTypeOK, Prepared
  <2>4. CASE Connect(r)
    BY <1>0, <2>4 DEF Connect, FormsTypeOK, Prepared
  <2>5. CASE ForwardAnswer(r) \/ Timeout(r)
    BY <1>0, <2>5 DEF ForwardAnswer, Timeout, FormsTypeOK, Prepared
  <2>6. CASE DeleteSystemUser(r)
    BY <1>0, <2>6 DEF DeleteSystemUser, FormsTypeOK, Prepared
  <2> QED
    BY <1>2, <2>1, <2>2, <2>3, <2>4, <2>5, <2>6 DEF Serve
<1>3. ASSUME NEW r \in Requests, ServeInner(r) PROVE Prepared'
  BY <1>0, <1>3 DEF ServeInner, VerifySession, RunInner, CloseInner, FormsTypeOK, Prepared
<1>4. CASE Dispatch
  <2>1. PICK r \in Requests :
            \/ /\ outer[r] = "queued" /\ outer' = [outer EXCEPT ![r] = "verify"]
               /\ UNCHANGED inner
            \/ /\ inner[r] = "queued" /\ UNCHANGED outer
               /\ inner' = [inner EXCEPT ![r] = IF outer[r] = "waiting"
                                                THEN "session" ELSE "none"]
    BY <1>0, <1>4, DispatchFacts
  <2> QED
    BY <1>0, <1>4, <2>1 DEF Dispatch, FormsTypeOK, Prepared
<1>5. CASE TogglePublic \/ Crash
  BY <1>0, <1>5 DEF TogglePublic, Crash, Prepared
<1>6. CASE UNCHANGED formsVars
  BY <1>0, <1>6 DEF formsVars, Prepared
<1> QED
  BY <1>1, <1>2, <1>3, <1>4, <1>5, <1>6 DEF FormsNext

(* The temporary user is there only while its form is served.              *)
LEMMA UserStep == FormsInv /\ [FormsNext]_formsVars => TemporaryUser'
<1> SUFFICES ASSUME FormsInv, [FormsNext]_formsVars PROVE TemporaryUser'
  OBVIOUS
<1> USE DEF OuterGoto, InnerGoto
<1>0. FormsTypeOK /\ QueuedOnce /\ TemporaryUser
  BY DEF FormsInv
<1>1. ASSUME NEW r \in Requests, Arrive(r) PROVE TemporaryUser'
  BY <1>0, <1>1 DEF Arrive, FormsTypeOK, TemporaryUser
<1>2. ASSUME NEW r \in Requests, Serve(r) PROVE TemporaryUser'
  <2>1. CASE VerifyPublicFormEnabled(r) \/ CreateSystemUser(r)
    BY <1>0, <2>1 DEF VerifyPublicFormEnabled, CreateSystemUser, FormsTypeOK, TemporaryUser
  <2>2. CASE CreateSession(r) \/ Connect(r)
    BY <1>0, <2>2 DEF CreateSession, Connect, FormsTypeOK, TemporaryUser
  <2>3. CASE ForwardAnswer(r) \/ Timeout(r) \/ DeleteSystemUser(r)
    BY <1>0, <2>3 DEF ForwardAnswer, Timeout, DeleteSystemUser, FormsTypeOK, TemporaryUser
  <2> QED
    BY <1>2, <2>1, <2>2, <2>3 DEF Serve
<1>3. ASSUME NEW r \in Requests, ServeInner(r) PROVE TemporaryUser'
  BY <1>0, <1>3 DEF ServeInner, VerifySession, RunInner, CloseInner, TemporaryUser
<1>4. CASE Dispatch
  <2>1. \A r \in Requests : outer'[r] = outer[r] \/ outer[r] = "queued"
    BY <1>0, <1>4, DispatchFacts DEF FormsTypeOK
  <2> QED
    BY <1>0, <1>4, <2>1 DEF Dispatch, FormsTypeOK, TemporaryUser
<1>5. CASE TogglePublic \/ Crash
  BY <1>0, <1>5 DEF TogglePublic, Crash, TemporaryUser
<1>6. CASE UNCHANGED formsVars
  BY <1>0, <1>6 DEF formsVars, TemporaryUser
<1> QED
  BY <1>1, <1>2, <1>3, <1>4, <1>5, <1>6 DEF FormsNext

(* The request a waiting form made finds its user and its session.         *)
LEMMA DoneStep == FormsInv /\ [FormsNext]_formsVars => ForwardedWasDone'
<1> SUFFICES ASSUME FormsInv, [FormsNext]_formsVars PROVE ForwardedWasDone'
  OBVIOUS
<1> USE DEF OuterGoto, InnerGoto
<1>0. FormsTypeOK /\ QueuedOnce /\ Prepared /\ ForwardedWasDone
  BY DEF FormsInv
<1>1. ASSUME NEW r \in Requests, Arrive(r) PROVE ForwardedWasDone'
  BY <1>0, <1>1 DEF Arrive, FormsTypeOK, ForwardedWasDone
<1>2. ASSUME NEW r \in Requests, Serve(r) PROVE ForwardedWasDone'
  <2>1. CASE VerifyPublicFormEnabled(r) \/ CreateSystemUser(r)
    BY <1>0, <2>1 DEF VerifyPublicFormEnabled, CreateSystemUser, FormsTypeOK, ForwardedWasDone
  <2>2. CASE CreateSession(r) \/ Connect(r)
    BY <1>0, <2>2 DEF CreateSession, Connect, FormsTypeOK, ForwardedWasDone
  <2>3. CASE ForwardAnswer(r) \/ Timeout(r) \/ DeleteSystemUser(r)
    BY <1>0, <2>3 DEF ForwardAnswer, Timeout, DeleteSystemUser, FormsTypeOK, Answers,
                      ForwardedWasDone
  <2> QED
    BY <1>2, <2>1, <2>2, <2>3 DEF Serve
<1>3. ASSUME NEW r \in Requests, ServeInner(r) PROVE ForwardedWasDone'
  <2>1. CASE VerifySession(r)
    BY <1>0, <2>1 DEF VerifySession, FormsTypeOK, Prepared, ForwardedWasDone
  <2>2. CASE RunInner(r)
    BY <1>0, <2>2 DEF RunInner, FormsTypeOK, ForwardedWasDone
  <2>3. CASE CloseInner(r)
    BY <1>0, <2>3 DEF CloseInner, FormsTypeOK, ForwardedWasDone
  <2> QED
    BY <1>3, <2>1, <2>2, <2>3 DEF ServeInner
<1>4. CASE Dispatch
  <2>1. \A r \in Requests : outer'[r] = "waiting" /\ inner'[r] \in Answers =>
                            outer[r] = "waiting" /\ inner[r] = inner'[r]
    BY <1>0, <1>4, DispatchFacts DEF FormsTypeOK, Answers
  <2> QED
    BY <1>0, <1>4, <2>1 DEF Dispatch, ForwardedWasDone, Answers
<1>5. CASE TogglePublic \/ Crash
  BY <1>0, <1>5 DEF TogglePublic, Crash, ForwardedWasDone
<1>6. CASE UNCHANGED formsVars
  BY <1>0, <1>6 DEF formsVars, ForwardedWasDone
<1> QED
  BY <1>1, <1>2, <1>3, <1>4, <1>5, <1>6 DEF FormsNext

LEMMA FormsInvInit == FormsInit => FormsInv
<1> SUFFICES ASSUME FormsInit PROVE FormsInv
  OBVIOUS
<1>1. FormsTypeOK
  BY FormsTypeInit
<1>2. QueuedOnce /\ Prepared /\ TemporaryUser /\ ForwardedWasDone
  BY DEF FormsInit, QueuedOnce, Prepared, TemporaryUser, ForwardedWasDone
<1> QED
  BY <1>1, <1>2 DEF FormsInv

(* The invariant of all that follows holds in every state.                 *)
THEOREM FormsInductive == FormsSpec => []FormsInv
<1>1. FormsInv /\ [FormsNext]_formsVars => FormsInv'
  BY FormsTypeStep, QueueStep, PreparedStep, UserStep, DoneStep DEF FormsInv
<1> QED
  BY <1>1, FormsInvInit, PTL DEF FormsSpec

(* The temporary user of a form exists only while the form is served.      *)
THEOREM UserSafe == FormsSpec => []TemporaryUser
<1>1. FormsInv => TemporaryUser
  BY DEF FormsInv
<1> QED
  BY <1>1, FormsInductive, PTL

(* Success is forwarded only for a request that was carried out, and no    *)
(* form is refused for want of its user.                                   *)
THEOREM DoneSafe == FormsSpec => []ForwardedWasDone
<1>1. FormsInv => ForwardedWasDone
  BY DEF FormsInv
<1> QED
  BY <1>1, FormsInductive, PTL

=============================================================================
