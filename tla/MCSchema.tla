------------------------------ MODULE MCSchema -------------------------------
(* A small instance of Schema: the tables the seed and the patches need and*)
(* the malformed one; the keys of databases_users; a patch that can be     *)
(* repeated and one that cannot.                                           *)
EXTENDS Schema, TLC

CONSTANTS users, databasesTable, databasesUsers, schemaPatches, tables,
          userKey, databaseKey, p1, p2

StatementList == <<databasesTable, tables, databasesUsers, users, schemaPatches,
                   userKey, databaseKey>>
PatchList == <<p1, p2>>
NeedsOf ==
    [o \in {StatementList[k] : k \in DOMAIN StatementList} |->
        CASE o = userKey -> {databasesUsers, users}
          [] o = databaseKey -> {databasesUsers, databasesTable}
          [] OTHER -> {}]
Symmetry == Permutations(Runs) \cup Permutations(Ids)

=============================================================================
