------------------------------- MODULE Schema --------------------------------
(***************************************************************************)
(* What `structbx-server --db-init` and `--db-update` do to the database   *)
(* of the installation (query/schema_initializer.cpp): create the tables,  *)
(* indexes and keys, seed them, and apply the patches of kPatches.  No     *)
(* transaction holds these statements together, every failure is logged as *)
(* a warning and passed over, and a process may be killed and the command  *)
(* given again, even while another one runs.                               *)
(***************************************************************************)
EXTENDS Integers, Sequences, FiniteSets

CONSTANTS
    Runs,           \* processes given one of the two options
    Statements,     \* kCreateTables, kCreateIndexes, kCreateForeignKeys
    Needs,          \* the tables a statement refers to
    Malformed,      \* statements the server does not accept: `tables` lacks
                    \* a comma between its two constraints
    UsersTable, DatabasesTable, MembersTable, PatchesTable,
    UserKey,        \* the keys of databases_users, to users and to
    DatabaseKey,    \* databases
    Ids,            \* pairs of identifiers a seed draws
    Patches,        \* kPatches, empty at this commit
    Repeatable,     \* those whose SQL succeeds a second time
    Most,           \* bound: how often it is applied at most
    Failures,       \* bound: how many statements fail in passing at most
    Null

Objects == {Statements[k] : k \in DOMAIN Statements}
PatchSet == {Patches[k] : k \in DOMAIN Patches}
Names == {"admin@admin", "admin", "other"}
Keys == {UserKey, DatabaseKey}

(* Tables come before what refers to them, and databases_users has one key *)
(* to users and one to databases, accepted once both tables are there.  A  *)
(* patch has an identifier of its own: the column of schema_patches that   *)
(* holds it is UNIQUE.                                                     *)
ASSUME SchemaAssumption ==
    /\ Statements \in Seq(Objects) /\ Patches \in Seq(PatchSet)
    /\ Needs \in [Objects -> SUBSET Objects]
    /\ \A k \in DOMAIN Statements : Needs[Statements[k]] \subseteq
            {Statements[n] : n \in {l \in DOMAIN Statements : l < k /\ Needs[Statements[l]] = {}}}
    /\ PatchesTable \in Objects
    /\ Keys \subseteq Objects \ Malformed
    /\ UserKey # DatabaseKey
    /\ Needs[UserKey] = {MembersTable, UsersTable}
    /\ Needs[DatabaseKey] = {MembersTable, DatabasesTable}
    /\ \A key \in Keys : Needs[key] \cap Malformed = {}
    /\ Repeatable \subseteq PatchSet
    /\ \A j, k \in DOMAIN Patches : Patches[j] = Patches[k] => j = k
    /\ Null \notin Ids \cup Names

VARIABLES
    there,      \* tables, indexes and keys that exist
    drawn,      \* identifiers the seeds have drawn
    schemas,    \* databases of the server a seed created
    databases,  \* rows of `databases`
    account,    \* rows of `users` a seed inserted: their name
    members,    \* rows of `databases_users`, by the identifier of their seed
    times,      \* how often the SQL of a patch has taken effect
    recorded,   \* rows of `schema_patches`
    run,        \* what each process is doing
    skipped,    \* history: statements that failed for a passing reason
    torn        \* history: patches whose two statements were pulled apart

schemaVars == <<there, drawn, schemas, databases, account, members, times, recorded,
                run, skipped, torn>>
seeds == <<drawn, schemas, databases, account, members>>
patching == <<times, recorded, torn>>

SeedPCs == {"schema", "database", "user", "member"}
PCs == {"idle", "ddl", "count", "patchesTable", "read", "apply", "record"} \cup SeedPCs

Idle == [pc |-> "idle", at |-> 1, id |-> Null, applied |-> {}, clean |-> TRUE]
Running == [pc : PCs, at : Nat \ {0}, id : Ids \cup {Null}, applied : SUBSET PatchSet,
            clean : BOOLEAN]

SchemaTypeOK ==
    /\ there \subseteq Objects
    /\ drawn \subseteq Ids
    /\ schemas \subseteq drawn /\ databases \subseteq drawn /\ members \subseteq drawn
    /\ account \in [Ids -> Names \cup {Null}]
    /\ times \in [PatchSet -> Nat]
    /\ recorded \subseteq PatchSet
    /\ run \in [Runs -> Running]
    /\ \A r \in Runs :
        /\ run[r].pc \in SeedPCs => run[r].id \in drawn
        /\ run[r].pc = "ddl" => run[r].at \in DOMAIN Statements
        /\ run[r].pc \in {"apply", "record"} => run[r].at \in DOMAIN Patches
    /\ skipped \subseteq Objects \cup PCs
    /\ torn \subseteq PatchSet

SchemaInit ==
    /\ there = {} /\ drawn = {} /\ schemas = {} /\ databases = {} /\ members = {}
    /\ account = [i \in Ids |-> Null]
    /\ times = [p \in PatchSet |-> 0]
    /\ recorded = {}
    /\ run = [r \in Runs |-> Idle]
    /\ skipped = {} /\ torn = {}

At(r, pc) == run[r].pc = pc
Goto(r, pc) == run' = [run EXCEPT ![r].pc = pc]
End(r) == run' = [run EXCEPT ![r] = Idle]
ToPatches(r) == run' = [run EXCEPT ![r] = [Idle EXCEPT !.pc = "read"]]

(* The next statement of the lists, or the seed.                           *)
NextStatementToo(r, ok) ==      \* a faulty variant of the next one
    run' = [run EXCEPT ![r].pc = IF run[r].at <= Len(Statements) THEN "ddl" ELSE "count",
                       ![r].at = @ + 1,
                       ![r].clean = @ /\ ok]

NextStatement(r, ok) ==
    run' = [run EXCEPT ![r].pc = IF run[r].at < Len(Statements) THEN "ddl" ELSE "count",
                       ![r].at = @ + 1,
                       ![r].clean = @ /\ ok]

Admin == {i \in Ids : account[i] = "admin@admin"}

(* The membership of seed i has the row that a key of databases_users asks *)
(* for, and those that have not.                                           *)
Refers(key, i) ==
    \/ key = UserKey /\ account[i] # Null
    \/ key = DatabaseKey /\ i \in databases
Dangling(key) == {i \in members : ~Refers(key, i)}

-----------------------------------------------------------------------------
(* Initialize_ and Update_.                                                *)
StartInit(r) ==
    /\ At(r, "idle")
    /\ run' = [run EXCEPT ![r] = [Idle EXCEPT !.pc = "ddl"]]
    /\ UNCHANGED <<there, seeds, patching, skipped>>

StartUpdate(r) ==
    /\ At(r, "idle")
    /\ run' = [run EXCEPT ![r] = [Idle EXCEPT !.pc = "patchesTable"]]
    /\ UNCHANGED <<there, seeds, patching, skipped>>

(* A table is created unless it exists; creating an index or a key a second*)
(* time is an error that is passed over, and a key is refused while a row  *)
(* contradicts it.                                                         *)
Accepted(o) ==
    /\ o \notin Malformed
    /\ Needs[o] \subseteq there
    /\ o \in Keys => Dangling(o) = {}

ExecuteUntilError(r) ==         \* a faulty variant of the next one
    LET o == Statements[run[r].at] IN
    /\ At(r, "ddl")
    /\ IF Accepted(o)
       THEN there' = there \cup {o} /\ NextStatement(r, TRUE)
       ELSE UNCHANGED there /\ Goto(r, "count")
    /\ UNCHANGED <<seeds, patching, skipped>>

Execute(r) ==
    LET o == Statements[run[r].at] IN
    /\ At(r, "ddl")
    /\ there' = IF Accepted(o) THEN there \cup {o} ELSE there
    /\ NextStatement(r, TRUE)
    /\ UNCHANGED <<seeds, patching, skipped>>

CreatePatchesTable(r) ==
    /\ At(r, "patchesTable")
    /\ there' = there \cup {PatchesTable}
    /\ ToPatches(r)
    /\ UNCHANGED <<seeds, patching, skipped>>

-----------------------------------------------------------------------------
(* InsertSeedData_.                                                        *)
SeedCount(r, i) ==
    /\ At(r, "count")
    /\ IF UsersTable \in there /\ \A u \in Ids : account[u] # "admin"
       THEN /\ i \notin drawn
            /\ drawn' = drawn \cup {i}
            /\ run' = [run EXCEPT ![r].pc = "schema", ![r].id = i]
       ELSE UNCHANGED drawn /\ ToPatches(r)
    /\ UNCHANGED <<there, schemas, databases, account, members, patching, skipped>>

SeedSchema(r) ==
    /\ At(r, "schema")
    /\ schemas' = schemas \cup {run[r].id}
    /\ Goto(r, "database")
    /\ UNCHANGED <<there, drawn, databases, account, members, patching, skipped>>

SeedDatabase(r) ==
    /\ At(r, "database")
    /\ databases' = IF DatabasesTable \in there THEN databases \cup {run[r].id} ELSE databases
    /\ Goto(r, "user")
    /\ UNCHANGED <<there, drawn, schemas, account, members, patching, skipped>>

(* INSERT IGNORE: nothing, if the name is taken.                           *)
SeedUser(r) ==
    /\ At(r, "user")
    /\ account' = IF UsersTable \in there /\ Admin = {}
                  THEN [account EXCEPT ![run[r].id] = "admin@admin"]
                  ELSE account
    /\ Goto(r, "member")
    /\ UNCHANGED <<there, drawn, schemas, databases, members, patching, skipped>>

SeedMemberUnchecked(r) ==       \* a faulty variant of the next one
    /\ At(r, "member")
    /\ members' = IF MembersTable \in there THEN members \cup {run[r].id} ELSE members
    /\ ToPatches(r)
    /\ UNCHANGED <<there, drawn, schemas, databases, account, patching, skipped>>

(* INSERT IGNORE: nothing, if a key of the table says so.  The endpoints   *)
(* and settings that follow are ignored likewise when they are there.      *)
SeedMember(r) ==
    LET i == run[r].id
        Allowed == /\ MembersTable \in there
                   /\ \A key \in Keys \cap there : Refers(key, i)
    IN  /\ At(r, "member")
        /\ members' = IF Allowed THEN members \cup {i} ELSE members
        /\ ToPatches(r)
        /\ UNCHANGED <<there, drawn, schemas, databases, account, patching, skipped>>

-----------------------------------------------------------------------------
(* ApplyPatches_.  A patch that fails is left for the next time, and the   *)
(* ones behind it are applied all the same.                                *)
ReadPatches(r) ==
    /\ At(r, "read")
    /\ IF PatchesTable \in there /\ Patches # <<>>
       THEN run' = [run EXCEPT ![r].pc = "apply", ![r].at = 1, ![r].applied = recorded]
       ELSE End(r)
    /\ UNCHANGED <<there, seeds, patching, skipped>>

NextPatch(r) ==
    IF run[r].at < Len(Patches)
    THEN run' = [run EXCEPT ![r].pc = "apply", ![r].at = run[r].at + 1]
    ELSE End(r)

(* Another process has read the list without p, and is not past p.         *)
Overlapped(r, p) ==
    \E q \in Runs \ {r} :
        /\ run[q].pc \in {"apply", "record"} /\ p \notin run[q].applied
        /\ \E k \in DOMAIN Patches : k >= run[q].at /\ Patches[k] = p

Tear(r, p) == torn' = IF Overlapped(r, p) THEN torn \cup {p} ELSE torn

ApplyAnyway(r) ==               \* a faulty variant of the next one
    LET p == Patches[run[r].at] IN
    /\ At(r, "apply")
    /\ IF times[p] = 0 \/ p \in Repeatable
       THEN /\ times[p] < Most
            /\ times' = [times EXCEPT ![p] = @ + 1]
            /\ Tear(r, p)
            /\ Goto(r, "record")
       ELSE /\ NextPatch(r)
            /\ UNCHANGED <<times, torn>>
    /\ UNCHANGED <<there, seeds, recorded, skipped>>

ApplyPatch(r) ==
    LET p == Patches[run[r].at] IN
    /\ At(r, "apply")
    /\ IF p \notin run[r].applied /\ (times[p] = 0 \/ p \in Repeatable)
       THEN /\ times[p] < Most
            /\ times' = [times EXCEPT ![p] = @ + 1]
            /\ Tear(r, p)
            /\ Goto(r, "record")
       ELSE /\ NextPatch(r)
            /\ UNCHANGED <<times, torn>>
    /\ UNCHANGED <<there, seeds, recorded, skipped>>

RecordPatch(r) ==
    /\ At(r, "record")
    /\ recorded' = recorded \cup {Patches[run[r].at]}
    /\ Tear(r, Patches[run[r].at])
    /\ NextPatch(r)
    /\ UNCHANGED <<there, seeds, times, skipped>>

-----------------------------------------------------------------------------
(* A statement fails for a reason that passes, and is passed over: the     *)
(* seed's check and the reading of the patches end their function with it. *)
Skip(r) ==
    LET Then == [schema |-> "database", database |-> "user", user |-> "member"]
    IN  /\ Cardinality(skipped) < Failures
        /\ \/ /\ At(r, "ddl")
              /\ skipped' = skipped \cup {Statements[run[r].at]}
              /\ NextStatement(r, FALSE)
              /\ UNCHANGED torn
           \/ /\ run[r].pc \in DOMAIN Then
              /\ skipped' = skipped \cup {run[r].pc}
              /\ Goto(r, Then[run[r].pc])
              /\ UNCHANGED torn
           \/ /\ run[r].pc \in {"count", "member", "patchesTable"}
              /\ skipped' = skipped \cup {run[r].pc}
              /\ ToPatches(r)
              /\ UNCHANGED torn
           \/ At(r, "read") /\ End(r) /\ UNCHANGED <<skipped, torn>>
           \/ At(r, "apply") /\ NextPatch(r) /\ UNCHANGED <<skipped, torn>>
           \/ /\ At(r, "record")
              /\ torn' = torn \cup {Patches[run[r].at]}
              /\ NextPatch(r)
              /\ UNCHANGED skipped
        /\ UNCHANGED <<there, seeds, times, recorded>>

Kill(r) ==
    /\ ~At(r, "idle")
    /\ End(r)
    /\ torn' = IF At(r, "record") THEN torn \cup {Patches[run[r].at]} ELSE torn
    /\ UNCHANGED <<there, seeds, times, recorded, skipped>>

(* ModifyCurrentUsername: the seeded administrator takes another name.     *)
Rename(i, n) ==
    /\ account[i] # Null
    /\ \A j \in Ids : account[j] # n
    /\ account' = [account EXCEPT ![i] = n]
    /\ UNCHANGED <<there, drawn, schemas, databases, members, patching, run, skipped>>

Seed(r) ==
    \/ \E i \in Ids : SeedCount(r, i)
    \/ SeedSchema(r) \/ SeedDatabase(r) \/ SeedUser(r) \/ SeedMember(r)

Patch(r) == CreatePatchesTable(r) \/ ReadPatches(r) \/ ApplyPatch(r) \/ RecordPatch(r)

SchemaNext ==
    \/ \E r \in Runs : \/ StartInit(r) \/ StartUpdate(r) \/ Execute(r)
                       \/ Seed(r) \/ Patch(r) \/ Skip(r) \/ Kill(r)
    \/ \E i \in Ids, n \in Names : Rename(i, n)

SchemaSpec == SchemaInit /\ [][SchemaNext]_schemaVars

-----------------------------------------------------------------------------
(* What the server can accept: statements well formed and about tables that*)
(* are, while no row contradicts them.                                     *)
Possible(o) ==
    /\ o \notin Malformed
    /\ Needs[o] \cap Malformed = {}
    /\ o \in Keys => Dangling(o) = {}

(* One run of --db-init is enough: it orders its statements so that each   *)
(* finds what it needs, and when none fails for a reason of its own, all   *)
(* that is possible exists once it comes to the seed, whatever earlier runs*)
(* left half done.                                                         *)
OneRunSuffices ==
    \A r \in Runs : run[r].clean /\ run[r].pc \in {"count"} \cup SeedPCs =>
        \A k \in DOMAIN Statements : Possible(Statements[k]) => Statements[k] \in there

(* The seed leaves a membership whose user or database is not there, which *)
(* no later run removes and which keeps the key out for good, only if the  *)
(* key or a table it needs was passed over before.                         *)
KeySkipped(key) == skipped \cap ({key} \cup Needs[key]) # {}

DanglingOnlyAfterFailure ==
    \A key \in Keys : Dangling(key) # {} => KeySkipped(key)

(* A patch that is recorded has been applied; its SQL is applied again, or *)
(* left applied and never recorded, only if its two statements were torn   *)
(* apart by a failure, a kill or another run.                              *)
PatchedOnce ==
    \A p \in PatchSet :
        /\ p \in recorded => times[p] > 0
        /\ times[p] > 1 => p \in torn
        /\ times[p] > 0 /\ p \notin recorded \cup torn =>
            \E r \in Runs : At(r, "record") /\ Patches[run[r].at] = p

-----------------------------------------------------------------------------
(* The inductive invariant of the proofs (ServerProof).                    *)

(* The statements a run of --db-init has behind it, until it ends.         *)
Behind(r) ==
    IF At(r, "ddl") THEN 1 .. run[r].at - 1
    ELSE IF run[r].pc \in {"count"} \cup SeedPCs THEN DOMAIN Statements
    ELSE {}

(* What a run has behind it is there if it is possible, or if no statement *)
(* about a key of databases_users was passed over.                         *)
BehindIsThere ==
    \A r \in Runs : \A k \in Behind(r) :
        run[r].clean /\ Possible(Statements[k]) => Statements[k] \in there

KeyBehindIsThere ==
    \A r \in Runs, key \in Keys : \A k \in Behind(r) :
        Statements[k] \in {key} \cup Needs[key] =>
            Statements[k] \in there \/ KeySkipped(key)

(* Two seeds have nothing in common, and a seed inserts its membership     *)
(* last.                                                                   *)
Seeding(r) == run[r].pc \in SeedPCs

SeedsApart ==
    \A r \in Runs : Seeding(r) =>
        /\ run[r].id \notin members
        /\ \A q \in Runs \ {r} : Seeding(q) => run[q].id # run[r].id

(* What a run has read of the patches: recorded, and up to date with those *)
(* ahead of it unless they were torn.                                      *)
Patching(r) == run[r].pc \in {"apply", "record"}

ReadIsRecorded ==
    \A r \in Runs :
        /\ Patching(r) => run[r].applied \subseteq recorded
        /\ At(r, "record") => /\ times[Patches[run[r].at]] > 0
                              /\ Patches[run[r].at] \notin run[r].applied

RecordedIsRead ==
    \A r \in Runs : Patching(r) =>
        \A k \in DOMAIN Patches :
            k >= run[r].at /\ Patches[k] \in recorded \ torn => Patches[k] \in run[r].applied

SchemaInv ==
    /\ SchemaTypeOK
    /\ BehindIsThere /\ KeyBehindIsThere
    /\ SeedsApart
    /\ ReadIsRecorded /\ RecordedIsRead
    /\ DanglingOnlyAfterFailure
    /\ PatchedOnce

=============================================================================
