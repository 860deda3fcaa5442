------------------------------- MODULE Catalog -------------------------------
(***************************************************************************)
(* The tables of one database: what controllers/tables/tables.cpp and      *)
(* columns.cpp keep about them in the metadata schema (`tables`,           *)
(* `tables_columns`, `views`, `tables_permissions`), the MariaDB tables    *)
(* they stand for, and the upload directories.                             *)
(*                                                                         *)
(* A handler runs its statements one by one, each on a connection of its   *)
(* own and without a transaction, so the statements of several requests    *)
(* interleave and a handler that stops early leaves what it has done.  It  *)
(* may stop although its statement took effect: Action::Work_ asks for the *)
(* last identifier afterwards, and reports a failure when that one fails.  *)
(* Changing a column's type is another module's subject.                   *)
(***************************************************************************)
EXTENDS Integers, FiniteSets

CONSTANTS
    Tables,             \* identifiers of tables, each generated once
    Columns,            \* identifiers of columns, each generated once
    Names,              \* names a client gives a table
    Workers,            \* threads of the HTTP server
    None,
    NumericIdentifier   \* TRUE: the database identifier, read as a number,
                        \* equals the row number of the database

ASSUME NoneAssumption == None \notin Tables \cup Columns \cup Names
ASSUME SwitchAssumption == NumericIdentifier \in BOOLEAN

VARIABLES
    rows,       \* rows of `tables`
    name,       \* their name
    display,    \* their id_column_display
    columns,    \* rows of `tables_columns`, by table
    views,      \* tables with a default view
    granted,    \* tables whose creator has a row in `tables_permissions`
    physical,   \* MariaDB tables of the database
    fields,     \* their columns
    dirs,       \* upload directories
    job,        \* what each worker is doing
    drawn,      \* history: identifiers generated so far
    created,    \* history: tables whose creation was answered "Ok."
    deleted,    \* history: tables whose deletion has begun
    abandoned   \* history: tables and columns left as they were half way
                \* through their creation or deletion

vars == <<rows, name, display, columns, views, granted, physical, fields,
          dirs, job, drawn, created, deleted, abandoned>>
meta == <<rows, name, display, columns, views, granted>>
data == <<physical, fields, dirs>>
answers == <<created, deleted>>
history == <<drawn, answers, abandoned>>

AddTablePCs == {"insertTable", "grant", "view", "column", "display",
                "createTable", "createDirectory", "undoTable"}
DeleteTablePCs == {"dropTable", "deleteTable", "removeDirectory"}
DeleteColumnPCs == {"exists", "checkDisplay", "deleteColumn", "dropField"}
ColumnSetup == {"addField", "undoColumn"}
ChangesTable == (AddTablePCs \ {"insertTable", "createDirectory"})
                    \cup {"deleteTable"}
PCs == {"idle", "updateTable"} \cup AddTablePCs \cup DeleteTablePCs
          \cup {"insertColumn"} \cup ColumnSetup \cup DeleteColumnPCs

Job(pc, t, c, n) == [pc |-> pc, table |-> t, column |-> c, name |-> n]
Idle == Job("idle", None, None, None)

TypeOK ==
    /\ rows \subseteq Tables
    /\ name \in [Tables -> Names \cup {None}]
    /\ display \in [Tables -> Columns \cup {None}]
    /\ columns \in [Tables -> SUBSET Columns]
    /\ views \subseteq Tables
    /\ granted \subseteq Tables
    /\ physical \subseteq Tables
    /\ fields \in [Tables -> SUBSET Columns]
    /\ dirs \subseteq Tables
    /\ job \in [Workers -> [pc : PCs, table : Tables \cup {None},
                            column : Columns \cup {None},
                            name : Names \cup {None}]]
    /\ drawn \subseteq Tables \cup Columns
    /\ created \subseteq Tables
    /\ deleted \subseteq Tables
    /\ abandoned \subseteq Tables \cup Columns

Init ==
    /\ rows = {}
    /\ name = [t \in Tables |-> None]
    /\ display = [t \in Tables |-> None]
    /\ columns = [t \in Tables |-> {}]
    /\ views = {}
    /\ granted = {}
    /\ physical = {}
    /\ fields = [t \in Tables |-> {}]
    /\ dirs = {}
    /\ job = [w \in Workers |-> Idle]
    /\ drawn = {}
    /\ created = {}
    /\ deleted = {}
    /\ abandoned = {}

At(w, pc) == job[w].pc = pc
Goto(w, pc) == job' = [job EXCEPT ![w].pc = pc]
Finish(w) == job' = [job EXCEPT ![w] = Idle]
Abandon(x) == abandoned' = abandoned \cup {x}
Kept == UNCHANGED abandoned

(* DELETE FROM tables: the foreign keys delete its columns, views and      *)
(* permissions, and with the columns every id_column_display naming them.  *)
RemoveRow(t) ==
    /\ rows' = rows \ {t}
    /\ display' = [o \in Tables |-> IF o = t \/ display[o] \in columns[t]
                                    THEN None ELSE display[o]]
    /\ columns' = [columns EXCEPT ![t] = {}]
    /\ views' = views \ {t}
    /\ granted' = granted \ {t}
    /\ UNCHANGED name

(* DELETE FROM tables_columns: the foreign key on id_column_display sets it*)
(* to NULL wherever it named the column.                                   *)
RemoveColumn(c) ==
    /\ columns' = [t \in Tables |-> columns[t] \ {c}]
    /\ display' = [t \in Tables |-> IF display[t] = c THEN None ELSE display[t]]
    /\ UNCHANGED <<rows, name, views, granted>>

-----------------------------------------------------------------------------
(* Faulty variants of the steps below, none of them part of Spec: what the *)
(* properties are there to catch.                                          *)
CreateTableWithoutUndo(w) ==
    LET t == job[w].table IN
    /\ At(w, "createTable")
    /\ \/ /\ physical' = physical \cup {t}
          /\ fields' = [fields EXCEPT ![t] = {job[w].column}]
          /\ Goto(w, "createDirectory")
       \/ /\ Finish(w)
          /\ UNCHANGED <<physical, fields>>
    /\ UNCHANGED <<meta, dirs, history>>

CreateTableUnchecked(w) ==
    LET t == job[w].table IN
    /\ At(w, "createTable")
    /\ \/ /\ physical' = physical \cup {t}
          /\ fields' = [fields EXCEPT ![t] = {job[w].column}]
       \/ UNCHANGED <<physical, fields>>
    /\ Goto(w, "createDirectory")
    /\ UNCHANGED <<meta, dirs, history>>

AddFieldWithoutUndo(w) ==
    LET t == job[w].table IN
    /\ At(w, "addField")
    /\ \/ /\ t \in physical
          /\ fields' = [fields EXCEPT ![t] = @ \cup {job[w].column}]
       \/ UNCHANGED fields
    /\ Finish(w)
    /\ UNCHANGED <<meta, physical, dirs, history>>

-----------------------------------------------------------------------------
(* Tables::Add.  VerifyTableNameNotTaken compares id_database, a string,   *)
(* with the number of the database's row.                                  *)
VerifyTableNameNotTaken(n) ==
    NumericIdentifier => \A t \in rows : name[t] # n

StartAddTable(w, t, n) ==
    /\ At(w, "idle")
    /\ t \notin drawn
    /\ VerifyTableNameNotTaken(n)
    /\ job' = [job EXCEPT ![w] = Job("insertTable", t, None, n)]
    /\ drawn' = drawn \cup {t}
    /\ UNCHANGED <<meta, data, answers, abandoned>>

(* A statement of Tables::Add that is not undone went well, or the handler *)
(* is told that it did not and answers.                                    *)
GoOnOrAbandon(w, next) ==
    \/ job' = [job EXCEPT ![w] = next] /\ Kept
    \/ Finish(w) /\ Abandon(job[w].table)

InsertTableMetadata(w) ==
    LET t == job[w].table IN
    /\ At(w, "insertTable")
    /\ \/ /\ rows' = rows \cup {t}
          /\ name' = [name EXCEPT ![t] = job[w].name]
          /\ GoOnOrAbandon(w, Job("grant", t, None, None))
       \/ Finish(w) /\ Kept /\ UNCHANGED <<rows, name>>
    /\ UNCHANGED <<display, columns, views, granted, data, drawn, answers>>

(* The next three reference the row of the table, and like any statement may*)
(* fail: the client is answered and the row stays.                         *)
GrantCreatorFullPermissions(w) ==
    LET t == job[w].table IN
    /\ At(w, "grant")
    /\ \/ /\ t \in rows
          /\ granted' = granted \cup {t}
          /\ GoOnOrAbandon(w, Job("view", t, None, None))
       \/ Finish(w) /\ Abandon(t) /\ UNCHANGED granted
    /\ UNCHANGED <<rows, name, display, columns, views, data, drawn, answers>>

AddView(w) ==
    LET t == job[w].table IN
    /\ At(w, "view")
    /\ \/ /\ t \in rows
          /\ views' = views \cup {t}
          /\ GoOnOrAbandon(w, Job("column", t, None, None))
       \/ Finish(w) /\ Abandon(t) /\ UNCHANGED views
    /\ UNCHANGED <<rows, name, display, columns, granted, data, drawn, answers>>

AddDefaultColumn(w) ==
    LET t == job[w].table IN
    /\ At(w, "column")
    /\ \/ \E c \in Columns \ drawn :
            /\ t \in rows
            /\ columns' = [columns EXCEPT ![t] = @ \cup {c}]
            /\ drawn' = drawn \cup {c}
            /\ GoOnOrAbandon(w, Job("display", t, c, None))
       \/ Finish(w) /\ Abandon(t) /\ UNCHANGED <<columns, drawn>>
    /\ UNCHANGED <<rows, name, display, views, granted, data, answers>>

(* An UPDATE: without a row it succeeds and changes nothing.               *)
SetDefaultColumnDisplay(w) ==
    LET t == job[w].table
        c == job[w].column
    IN
    /\ At(w, "display")
    /\ \/ /\ t \in rows => c \in columns[t]
          /\ display' = IF t \in rows THEN [display EXCEPT ![t] = c] ELSE display
          /\ Goto(w, "createTable") \/ Goto(w, "undoTable")
       \/ Goto(w, "undoTable") /\ UNCHANGED display
    /\ UNCHANGED <<rows, name, columns, views, granted, data, history>>

CreateTable(w) ==
    LET t == job[w].table IN
    /\ At(w, "createTable")
    /\ \/ /\ physical' = physical \cup {t}
          /\ fields' = [fields EXCEPT ![t] = {job[w].column}]
          /\ Goto(w, "createDirectory") \/ Goto(w, "undoTable")
       \/ Goto(w, "undoTable") /\ UNCHANGED <<physical, fields>>
    /\ UNCHANGED <<meta, dirs, history>>

CreateDirectory(w) ==
    LET t == job[w].table IN
    /\ At(w, "createDirectory")
    /\ \/ /\ dirs' = dirs \cup {t}
          /\ created' = created \cup {t}
          /\ Finish(w)
       \/ Goto(w, "undoTable") /\ UNCHANGED <<dirs, created>>
    /\ UNCHANGED <<meta, physical, fields, drawn, deleted, abandoned>>

(* delete_table: the metadata only.                                        *)
UndoTable(w) ==
    /\ At(w, "undoTable")
    /\ \/ RemoveRow(job[w].table) /\ Kept
       \/ Abandon(job[w].table) /\ UNCHANGED meta
    /\ Finish(w)
    /\ UNCHANGED <<data, drawn, answers>>

-----------------------------------------------------------------------------
VerifyTableExists(t) == t \in rows

(* Tables::Modify: name and display column; the name is compared with those*)
(* of the same database.  The foreign key accepts a column of any table.   *)
StartModifyTable(w, t, n, c) ==
    /\ At(w, "idle")
    /\ VerifyTableExists(t)
    /\ \A o \in rows \ {t} : name[o] # n
    /\ job' = [job EXCEPT ![w] = Job("updateTable", t, c, n)]
    /\ UNCHANGED <<meta, data, history>>

UpdateTableMetadata(w) ==
    LET t == job[w].table
        c == job[w].column
    IN
    /\ At(w, "updateTable")
    /\ \/ /\ t \in rows
          /\ c = None \/ \E o \in Tables : c \in columns[o]
          /\ name' = [name EXCEPT ![t] = job[w].name]
          /\ display' = [display EXCEPT ![t] = c]
       \/ UNCHANGED <<name, display>>
    /\ Finish(w)
    /\ UNCHANGED <<rows, columns, views, granted, data, history>>

-----------------------------------------------------------------------------
(* Tables::Delete.                                                         *)
StartDeleteTable(w, t) ==
    /\ At(w, "idle")
    /\ VerifyTableExists(t)
    /\ job' = [job EXCEPT ![w] = Job("dropTable", t, None, None)]
    /\ deleted' = deleted \cup {t}
    /\ UNCHANGED <<meta, data, drawn, created, abandoned>>

(* The client is told that there are references to the table, whatever the *)
(* reason of the failure; the row stays.                                   *)
DropTable(w) ==
    LET t == job[w].table IN
    /\ At(w, "dropTable")
    /\ \/ /\ physical' = physical \ {t}
          /\ fields' = [fields EXCEPT ![t] = {}]
          /\ GoOnOrAbandon(w, Job("deleteTable", t, None, None))
       \/ Finish(w) /\ Kept /\ UNCHANGED <<physical, fields>>
    /\ UNCHANGED <<meta, dirs, drawn, answers>>

DeleteTableMetadata(w) ==
    /\ At(w, "deleteTable")
    /\ \/ /\ RemoveRow(job[w].table)
          /\ Goto(w, "removeDirectory") \/ Finish(w)
          /\ Kept
       \/ Abandon(job[w].table) /\ Finish(w) /\ UNCHANGED meta
    /\ UNCHANGED <<data, drawn, answers>>

(* The test on exists() answers "Ok." for a directory that is there; remove*)
(* is only called, and throws, when there is none.                         *)
RemoveDirectory(w) ==
    /\ At(w, "removeDirectory")
    /\ Finish(w)
    /\ UNCHANGED <<meta, data, history>>

-----------------------------------------------------------------------------
(* Columns::Add.  The new row is SELECTed from the table's other columns:  *)
(* without any it cannot be inserted.  ColumnSetup then may refuse what the*)
(* client asked for, and the column is undone.                             *)
StartAddColumn(w, t) ==
    /\ At(w, "idle")
    /\ VerifyTableExists(t)
    /\ job' = [job EXCEPT ![w] = Job("insertColumn", t, None, None)]
    /\ UNCHANGED <<meta, data, history>>

InsertColumnMetadata(w) ==
    LET t == job[w].table IN
    /\ At(w, "insertColumn")
    /\ \/ \E c \in Columns \ drawn, pc \in ColumnSetup :
            /\ columns[t] # {}
            /\ columns' = [columns EXCEPT ![t] = @ \cup {c}]
            /\ drawn' = drawn \cup {c}
            /\ \/ job' = [job EXCEPT ![w] = Job(pc, t, c, None)] /\ Kept
               \/ Finish(w) /\ Abandon(c)
       \/ Finish(w) /\ Kept /\ UNCHANGED <<columns, drawn>>
    /\ UNCHANGED <<rows, name, display, views, granted, data, answers>>

AddField(w) ==
    LET t == job[w].table IN
    /\ At(w, "addField")
    /\ \/ /\ t \in physical
          /\ fields' = [fields EXCEPT ![t] = @ \cup {job[w].column}]
          /\ Finish(w) \/ Goto(w, "undoColumn")
       \/ Goto(w, "undoColumn") /\ UNCHANGED fields
    /\ UNCHANGED <<meta, physical, dirs, history>>

(* delete_column_table: the metadata only.                                 *)
UndoColumn(w) ==
    /\ At(w, "undoColumn")
    /\ \/ RemoveColumn(job[w].column) /\ Kept
       \/ Abandon(job[w].column) /\ UNCHANGED meta
    /\ Finish(w)
    /\ UNCHANGED <<data, drawn, answers>>

-----------------------------------------------------------------------------
(* Columns::Delete: count, existence, display column, metadata, field.     *)
CountColumnsByTable(t) == Cardinality(columns[t])

StartDeleteColumn(w, t, c) ==
    /\ At(w, "idle")
    /\ CountColumnsByTable(t) > 1
    /\ job' = [job EXCEPT ![w] = Job("exists", t, c, None)]
    /\ UNCHANGED <<meta, data, history>>

VerifyColumnExists(w) ==
    /\ At(w, "exists")
    /\ IF job[w].column \in columns[job[w].table]
       THEN Goto(w, "checkDisplay")
       ELSE Finish(w)
    /\ UNCHANGED <<meta, data, history>>

(* A query that fails does not stop the deletion.                          *)
CheckDisplay(w) ==
    /\ At(w, "checkDisplay")
    /\ \/ display[job[w].table] = job[w].column /\ Finish(w)
       \/ Goto(w, "deleteColumn")
    /\ UNCHANGED <<meta, data, history>>

DeleteColumnMetadata(w) ==
    /\ At(w, "deleteColumn")
    /\ \/ /\ RemoveColumn(job[w].column)
          /\ Goto(w, "dropField") \/ Finish(w)
       \/ Finish(w) /\ UNCHANGED meta
    /\ UNCHANGED <<data, history>>

DropField(w) ==
    LET t == job[w].table IN
    /\ At(w, "dropField")
    /\ \/ fields' = [fields EXCEPT ![t] = @ \ {job[w].column}]
       \/ UNCHANGED fields
    /\ Finish(w)
    /\ UNCHANGED <<meta, physical, dirs, history>>

-----------------------------------------------------------------------------
Crash ==
    /\ job' = [w \in Workers |-> Idle]
    /\ abandoned' = abandoned \cup {job[w].table : w \in {v \in Workers :
                                        job[v].pc \in ChangesTable}}
                              \cup {job[w].column : w \in {v \in Workers :
                                        job[v].pc \in ColumnSetup}}
    /\ UNCHANGED <<meta, data, drawn, answers>>

Work(w) ==
    \/ \E t \in Tables, n \in Names : StartAddTable(w, t, n)
    \/ InsertTableMetadata(w)
    \/ GrantCreatorFullPermissions(w)
    \/ AddView(w)
    \/ AddDefaultColumn(w)
    \/ SetDefaultColumnDisplay(w)
    \/ CreateTable(w)
    \/ CreateDirectory(w)
    \/ UndoTable(w)
    \/ \E t \in Tables, n \in Names, c \in Columns \cup {None} :
        StartModifyTable(w, t, n, c)
    \/ UpdateTableMetadata(w)
    \/ \E t \in Tables : StartDeleteTable(w, t)
    \/ DropTable(w)
    \/ DeleteTableMetadata(w)
    \/ RemoveDirectory(w)
    \/ \E t \in Tables : StartAddColumn(w, t)
    \/ InsertColumnMetadata(w)
    \/ AddField(w)
    \/ UndoColumn(w)
    \/ \E t \in Tables, c \in Columns : StartDeleteColumn(w, t, c)
    \/ VerifyColumnExists(w)
    \/ CheckDisplay(w)
    \/ DeleteColumnMetadata(w)
    \/ DropField(w)

Next == (\E w \in Workers : Work(w)) \/ Crash

Spec == Init /\ [][Next]_vars

-----------------------------------------------------------------------------
(* Tables::Add answers "Ok." only for a table that is complete, and it     *)
(* stays complete until somebody asks to delete it: its row, view, creator *)
(* permission, MariaDB table and directory are all there, whatever columns *)
(* and tables other requests add and delete meanwhile.                     *)
CreatedComplete ==
    \A t \in created \ deleted :
        /\ t \in rows \cap views \cap granted
        /\ t \in physical \cap dirs

(* Tables::Read counts the records of every listed table and fails as a    *)
(* whole when one of them has no MariaDB table.                            *)
CanBeCounted(t) == t \in physical

BusyWith(t) ==
    \E w \in Workers : job[w].table = t /\ job[w].pc \in ChangesTable

SettingUp(t, c) ==
    \E w \in Workers :
        job[w].table = t /\ job[w].column = c /\ job[w].pc \in ColumnSetup

(* A table whose creation failed does not stay in the list, where it would *)
(* make the whole list unreadable; the exceptions are the tables a handler *)
(* abandons: a statement up to the first column was reported failed after  *)
(* the row was there, the undo failed, the table was dropped and its row   *)
(* stayed, or the process died.                                            *)
ListedTablesExist ==
    \A t \in rows : CanBeCounted(t) \/ BusyWith(t) \/ t \in abandoned

(* Every column the metadata lists is a field of the MariaDB table, or the *)
(* request that is adding it has not ended: queries name no missing field, *)
(* unless its row was inserted and reported failed, the undo of a column   *)
(* failed or the process died before it.                                   *)
ColumnsBacked ==
    \A t \in rows \cap physical : \A c \in columns[t] :
        c \in fields[t] \cup abandoned \/ SettingUp(t, c)

(* "A table with this name already exists in this database."               *)
UniqueNames == \A s, t \in rows : name[s] = name[t] => s = t

-----------------------------------------------------------------------------
(* The inductive invariant behind CreatedComplete, ListedTablesExist and   *)
(* ColumnsBacked.  A table is one creating handler's own until it is       *)
(* answered, a column has been drawn before it is anywhere and belongs to  *)
(* one table, and each step of a creation finds what the steps before it   *)
(* left, unless a deletion has begun.                                      *)
JobTyped ==
    \A w \in Workers :
        /\ job[w].pc # "idle" => job[w].table \in Tables
        /\ job[w].pc \in {"insertTable", "updateTable"} => job[w].name \in Names
        /\ job[w].pc \in {"display", "createTable"} \cup ColumnSetup
                             \cup DeleteColumnPCs => job[w].column \in Columns

NewTables ==
    /\ created \cup deleted \cup rows \cup physical \subseteq drawn
    /\ \A t \in Tables \ drawn : columns[t] = {}
    /\ \A w \in Workers : job[w].pc \in DeleteTablePCs => job[w].table \in deleted
    /\ \A w \in Workers : job[w].pc \in AddTablePCs =>
        /\ job[w].table \in drawn \ created
        /\ \A v \in Workers : job[v].pc \in AddTablePCs
                                /\ job[v].table = job[w].table => v = w

AddTableProgress ==
    \A w \in Workers :
        LET t == job[w].table
            Past(pcs) == job[w].pc \in AddTablePCs \ (pcs \cup {"undoTable"})
        IN  t \notin deleted =>
              /\ Past({"insertTable"}) => t \in rows
              /\ Past({"insertTable", "grant"}) => t \in granted
              /\ Past({"insertTable", "grant", "view"}) => t \in views
              /\ job[w].pc = "createDirectory" => t \in physical

NewColumns ==
    /\ \A t \in Tables : columns[t] \subseteq drawn
    /\ \A s, t \in Tables : s # t => columns[s] \cap columns[t] = {}
    /\ \A w \in Workers : job[w].pc \in DeleteColumnPCs \ {"exists"} =>
        job[w].column \in drawn
    /\ \A w \in Workers : job[w].pc = "dropField" =>
        \A t \in Tables : job[w].column \notin columns[t]
    /\ \A w \in Workers : job[w].pc \in ColumnSetup =>
        /\ job[w].column \in drawn
        /\ \A t \in Tables : job[w].column \in columns[t] => t = job[w].table

FirstColumn ==
    \A w \in Workers :
        LET t == job[w].table IN
        /\ job[w].pc \in {"insertTable", "grant", "view", "column"}
               => columns[t] = {}
        /\ job[w].pc \in AddTablePCs \ {"createDirectory", "undoTable"}
               => t \notin physical
        /\ job[w].pc \in {"display", "createTable"} =>
            \A c \in columns[t] :
                c = job[w].column \/ c \in abandoned \/ SettingUp(t, c)

IInv ==
    /\ TypeOK
    /\ JobTyped
    /\ NewTables
    /\ AddTableProgress
    /\ NewColumns
    /\ FirstColumn
    /\ CreatedComplete
    /\ ListedTablesExist
    /\ ColumnsBacked

=============================================================================
