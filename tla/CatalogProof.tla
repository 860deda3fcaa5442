----------------------------- MODULE CatalogProof -----------------------------
(***************************************************************************)
(* Proofs about Catalog for every number of tables, columns, names and     *)
(* workers.                                                                *)
(***************************************************************************)
EXTENDS Catalog, TLAPS

TypeInv == TypeOK /\ JobTyped

(* The database starts without tables.                                     *)
LEMMA TypeInit == Init => TypeInv
  BY DEF Init, TypeInv, TypeOK, JobTyped, Idle, Job, PCs, AddTablePCs,
         DeleteTablePCs, ColumnSetup, DeleteColumnPCs

(* Every statement of every handler keeps the state typed.                 *)
LEMMA TypeStep == TypeInv /\ [Next]_vars => TypeInv'
<1> SUFFICES ASSUME TypeInv, [Next]_vars PROVE TypeInv'
  OBVIOUS
<1> USE DEF TypeInv, TypeOK, JobTyped, At, GoOnOrAbandon, Goto, Finish, Idle, Job, Abandon,
            Kept, PCs, AddTablePCs, DeleteTablePCs, ColumnSetup,
            DeleteColumnPCs, meta, data, answers, history
<1>1. ASSUME NEW w \in Workers, Work(w) PROVE TypeInv'
  <2>1. ASSUME NEW t \in Tables, NEW n \in Names, StartAddTable(w, t, n) PROVE TypeInv'
    BY <2>1 DEF StartAddTable
  <2>2. ASSUME NEW t \in Tables, NEW n \in Names,
              NEW c \in Columns \cup {None}, StartModifyTable(w, t, n, c) PROVE TypeInv'
    BY <2>2 DEF StartModifyTable
  <2>3. ASSUME NEW t \in Tables, StartDeleteTable(w, t) PROVE TypeInv'
    BY <2>3 DEF StartDeleteTable
  <2>4. ASSUME NEW t \in Tables, StartAddColumn(w, t) PROVE TypeInv'
    BY <2>4 DEF StartAddColumn
  <2>5. ASSUME NEW t \in Tables, NEW c \in Columns, StartDeleteColumn(w, t, c) PROVE TypeInv'
    BY <2>5 DEF StartDeleteColumn
  <2>6. CASE InsertTableMetadata(w)
    BY <2>6 DEF InsertTableMetadata
  <2>7. CASE GrantCreatorFullPermissions(w)
    BY <2>7 DEF GrantCreatorFullPermissions
  <2>8. CASE AddView(w)
    BY <2>8 DEF AddView
  <2>9. CASE AddDefaultColumn(w)
    BY <2>9 DEF AddDefaultColumn
  <2>10. CASE SetDefaultColumnDisplay(w)
    <3>1. job[w].table \in Tables /\ job[w].column \in Columns
      BY <2>10 DEF SetDefaultColumnDisplay
    <3>2. display' \in [Tables -> Columns \cup {None}]
      BY <2>10, <3>1 DEF SetDefaultColumnDisplay
    <3>3. JobTyped' /\ job' \in [Workers -> [pc : PCs, table : Tables \cup {None},
                                            column : Columns \cup {None},
                                            name : Names \cup {None}]]
      BY <2>10 DEF SetDefaultColumnDisplay
    <3> QED
      BY <2>10, <3>2, <3>3 DEF SetDefaultColumnDisplay
  <2>11. CASE CreateTable(w)
    BY <2>11 DEF CreateTable
  <2>12. CASE CreateDirectory(w)
    BY <2>12 DEF CreateDirectory
  <2>13. CASE UndoTable(w)
    BY <2>13 DEF UndoTable, RemoveRow
  <2>14. CASE UpdateTableMetadata(w)
    BY <2>14 DEF UpdateTableMetadata
  <2>15. CASE DropTable(w)
    BY <2>15 DEF DropTable
  <2>16. CASE DeleteTableMetadata(w)
    BY <2>16 DEF DeleteTableMetadata, RemoveRow
  <2>17. CASE RemoveDirectory(w)
    BY <2>17 DEF RemoveDirectory
  <2>18. CASE InsertColumnMetadata(w)
    BY <2>18 DEF InsertColumnMetadata
  <2>19. CASE AddField(w)
    BY <2>19 DEF AddField
  <2>20. CASE UndoColumn(w)
    BY <2>20 DEF UndoColumn, RemoveColumn
  <2>21. CASE VerifyColumnExists(w)
    BY <2>21 DEF VerifyColumnExists
  <2>22. CASE CheckDisplay(w)
    BY <2>22 DEF CheckDisplay
  <2>23. CASE DeleteColumnMetadata(w)
    BY <2>23 DEF DeleteColumnMetadata, RemoveColumn
  <2>24. CASE DropField(w)
    BY <2>24 DEF DropField
  <2> QED
    BY <1>1, <2>1, <2>2, <2>3, <2>4, <2>5, <2>6, <2>7, <2>8, <2>9, <2>10,
       <2>11, <2>12, <2>13, <2>14, <2>15, <2>16, <2>17, <2>18, <2>19, <2>20,
       <2>21, <2>22, <2>23, <2>24 DEF Work
<1>2. CASE Crash
  <2>1. abandoned' \subseteq Tables \cup Columns
    BY <1>2 DEF Crash, ChangesTable
  <2> QED
    BY <1>2, <2>1 DEF Crash
<1>3. CASE UNCHANGED vars
  BY <1>3 DEF vars
<1> QED
  BY <1>1, <1>2, <1>3 DEF Next

(* The state stays of the declared shape, whatever fails.                  *)
THEOREM TypeCorrect == Spec => []TypeOK
<1>1. TypeInv => TypeOK
  BY DEF TypeInv
<1> QED
  BY <1>1, TypeInit, TypeStep, PTL DEF Spec

-----------------------------------------------------------------------------
(* The invariant holds of a database without tables.                       *)
LEMMA InvInit == Init => IInv
  BY TypeInit DEF TypeInv, Init, IInv, NewTables, AddTableProgress, NewColumns,
     FirstColumn, CreatedComplete, ListedTablesExist, ColumnsBacked, Idle, Job,
     AddTablePCs, DeleteTablePCs, ColumnSetup, DeleteColumnPCs

(* A table being created is its handler's own, and what a handler has      *)
(* written of it stays until a deletion begins.                            *)
LEMMA CreatedStep ==
    ASSUME TypeInv, NewTables, AddTableProgress, CreatedComplete,
           [Next]_vars
    PROVE  NewTables' /\ AddTableProgress' /\ CreatedComplete'
<1> USE DEF TypeInv, TypeOK, JobTyped, At, GoOnOrAbandon, Goto, Finish, Idle, Job, Abandon,
            Kept, meta, data, answers, history, AddTablePCs, DeleteTablePCs,
            ColumnSetup, DeleteColumnPCs, NewTables,
            AddTableProgress, CreatedComplete
<1>1. ASSUME NEW w \in Workers, Work(w) PROVE NewTables' /\ AddTableProgress' /\ CreatedComplete'
  <2>1. ASSUME NEW t \in Tables, NEW n \in Names, StartAddTable(w, t, n) PROVE NewTables' /\ AddTableProgress' /\ CreatedComplete'
    BY <2>1 DEF StartAddTable
  <2>2. ASSUME NEW t \in Tables, NEW n \in Names,
              NEW c \in Columns \cup {None}, StartModifyTable(w, t, n, c) PROVE NewTables' /\ AddTableProgress' /\ CreatedComplete'
    BY <2>2 DEF StartModifyTable, VerifyTableExists
  <2>3. ASSUME NEW t \in Tables, StartDeleteTable(w, t) PROVE NewTables' /\ AddTableProgress' /\ CreatedComplete'
    BY <2>3 DEF StartDeleteTable, VerifyTableExists
  <2>4. ASSUME NEW t \in Tables, StartAddColumn(w, t) PROVE NewTables' /\ AddTableProgress' /\ CreatedComplete'
    BY <2>4 DEF StartAddColumn, VerifyTableExists
  <2>5. ASSUME NEW t \in Tables, NEW c \in Columns, StartDeleteColumn(w, t, c) PROVE NewTables' /\ AddTableProgress' /\ CreatedComplete'
    BY <2>5 DEF StartDeleteColumn
  <2>6. CASE InsertTableMetadata(w)
    <3>1. /\ UNCHANGED <<columns, views, granted, physical, dirs, created, deleted, drawn>>
          /\ rows \subseteq rows' /\ rows' \subseteq rows \cup {job[w].table}
          /\ job[w].pc = "insertTable"
          /\ \A v \in Workers : v # w => job'[v] = job[v]
          /\ \/ job'[w] = Idle
             \/ /\ job'[w] = Job("grant", job[w].table, None, None)
                /\ job[w].table \in rows'
      BY <2>6 DEF InsertTableMetadata
    <3> QED
      BY <3>1
  <2>7. CASE GrantCreatorFullPermissions(w)
    BY <2>7 DEF GrantCreatorFullPermissions
  <2>8. CASE AddView(w)
    BY <2>8 DEF AddView
  <2>9. CASE AddDefaultColumn(w)
    BY <2>9 DEF AddDefaultColumn
  <2>10. CASE SetDefaultColumnDisplay(w)
    BY <2>10 DEF SetDefaultColumnDisplay
  <2>11. CASE CreateTable(w)
    BY <2>11 DEF CreateTable
  <2>12. CASE CreateDirectory(w)
    BY <2>12 DEF CreateDirectory
  <2>13. CASE UndoTable(w)
    BY <2>13 DEF UndoTable, RemoveRow
  <2>14. CASE UpdateTableMetadata(w)
    BY <2>14 DEF UpdateTableMetadata
  <2>15. CASE DropTable(w)
    BY <2>15 DEF DropTable
  <2>16. CASE DeleteTableMetadata(w)
    <3>1. /\ UNCHANGED <<physical, dirs, created, deleted, drawn>>
          /\ job[w].pc = "deleteTable"
          /\ \A t \in Tables : columns'[t] \subseteq columns[t]
          /\ rows \ {job[w].table} \subseteq rows' /\ rows' \subseteq rows
          /\ views \ {job[w].table} \subseteq views' /\ views' \subseteq views
          /\ granted \ {job[w].table} \subseteq granted' /\ granted' \subseteq granted
          /\ \A v \in Workers : v # w => job'[v] = job[v]
          /\ job'[w] = Idle \/ job'[w] = [job[w] EXCEPT !.pc = "removeDirectory"]
      BY <2>16 DEF DeleteTableMetadata, RemoveRow
    <3> QED
      BY <3>1
  <2>17. CASE RemoveDirectory(w)
    BY <2>17 DEF RemoveDirectory
  <2>18. CASE InsertColumnMetadata(w)
    <3>1. /\ UNCHANGED <<rows, views, granted, physical, dirs, created, deleted>>
          /\ drawn \subseteq drawn'
          /\ \A v \in Workers : v # w => job'[v] = job[v]
          /\ job'[w].pc \notin AddTablePCs \cup DeleteTablePCs
      BY <2>18 DEF InsertColumnMetadata
    <3>2. \A t \in Tables \ drawn' : columns'[t] = {}
      BY <2>18 DEF InsertColumnMetadata
    <3> QED
      BY <3>1, <3>2
  <2>19. CASE AddField(w)
    <3>1. /\ UNCHANGED <<rows, views, granted, physical, dirs, created, deleted>>
          /\ drawn \subseteq drawn'
          /\ \A v \in Workers : v # w => job'[v] = job[v]
          /\ job'[w].pc \notin AddTablePCs \cup DeleteTablePCs
      BY <2>19 DEF AddField
    <3>2. \A t \in Tables \ drawn' : columns'[t] = {}
      BY <2>19 DEF AddField
    <3> QED
      BY <3>1, <3>2
  <2>20. CASE UndoColumn(w)
    BY <2>20 DEF UndoColumn, RemoveColumn
  <2>21. CASE VerifyColumnExists(w)
    BY <2>21 DEF VerifyColumnExists
  <2>22. CASE CheckDisplay(w)
    BY <2>22 DEF CheckDisplay
  <2>23. CASE DeleteColumnMetadata(w)
    BY <2>23 DEF DeleteColumnMetadata, RemoveColumn
  <2>24. CASE DropField(w)
    BY <2>24 DEF DropField
  <2> QED
    BY <1>1, <2>1, <2>2, <2>3, <2>4, <2>5, <2>6, <2>7, <2>8, <2>9, <2>10,
       <2>11, <2>12, <2>13, <2>14, <2>15, <2>16, <2>17, <2>18, <2>19, <2>20,
       <2>21, <2>22, <2>23, <2>24 DEF Work
<1>2. CASE Crash
  BY <1>2 DEF Crash
<1>3. CASE UNCHANGED vars
  BY <1>3 DEF vars
<1> QED
  BY <1>1, <1>2, <1>3 DEF Next

(* A listed table is backed, worked on or abandoned.                       *)
LEMMA ListedStep ==
    ASSUME TypeInv, ListedTablesExist, [Next]_vars
    PROVE  ListedTablesExist'
<1> USE DEF TypeInv, TypeOK, JobTyped, At, GoOnOrAbandon, Goto, Finish, Idle, Job, Abandon,
            Kept, meta, data, answers, history, AddTablePCs, DeleteTablePCs,
            ColumnSetup, DeleteColumnPCs, ListedTablesExist,
            CanBeCounted, BusyWith, ChangesTable
<1>1. ASSUME NEW w \in Workers, Work(w) PROVE ListedTablesExist'
  <2>1. ASSUME NEW t \in Tables, NEW n \in Names, StartAddTable(w, t, n) PROVE ListedTablesExist'
    BY <2>1 DEF StartAddTable
  <2>2. ASSUME NEW t \in Tables, NEW n \in Names,
              NEW c \in Columns \cup {None}, StartModifyTable(w, t, n, c) PROVE ListedTablesExist'
    BY <2>2 DEF StartModifyTable, VerifyTableExists
  <2>3. ASSUME NEW t \in Tables, StartDeleteTable(w, t) PROVE ListedTablesExist'
    BY <2>3 DEF StartDeleteTable, VerifyTableExists
  <2>4. ASSUME NEW t \in Tables, StartAddColumn(w, t) PROVE ListedTablesExist'
    BY <2>4 DEF StartAddColumn, VerifyTableExists
  <2>5. ASSUME NEW t \in Tables, NEW c \in Columns, StartDeleteColumn(w, t, c) PROVE ListedTablesExist'
    BY <2>5 DEF StartDeleteColumn
  <2>6. CASE InsertTableMetadata(w)
    BY <2>6 DEF InsertTableMetadata
  <2>7. CASE GrantCreatorFullPermissions(w)
    BY <2>7 DEF GrantCreatorFullPermissions
  <2>8. CASE AddView(w)
    BY <2>8 DEF AddView
  <2>9. CASE AddDefaultColumn(w)
    BY <2>9 DEF AddDefaultColumn
  <2>10. CASE SetDefaultColumnDisplay(w)
    BY <2>10 DEF SetDefaultColumnDisplay
  <2>11. CASE CreateTable(w)
    BY <2>11 DEF CreateTable
  <2>12. CASE CreateDirectory(w)
    BY <2>12 DEF CreateDirectory
  <2>13. CASE UndoTable(w)
    BY <2>13 DEF UndoTable, RemoveRow
  <2>14. CASE UpdateTableMetadata(w)
    BY <2>14 DEF UpdateTableMetadata
  <2>15. CASE DropTable(w)
    BY <2>15 DEF DropTable
  <2>16. CASE DeleteTableMetadata(w)
    BY <2>16 DEF DeleteTableMetadata, RemoveRow
  <2>17. CASE RemoveDirectory(w)
    BY <2>17 DEF RemoveDirectory
  <2>18. CASE InsertColumnMetadata(w)
    BY <2>18 DEF InsertColumnMetadata
  <2>19. CASE AddField(w)
    BY <2>19 DEF AddField
  <2>20. CASE UndoColumn(w)
    BY <2>20 DEF UndoColumn, RemoveColumn
  <2>21. CASE VerifyColumnExists(w)
    BY <2>21 DEF VerifyColumnExists
  <2>22. CASE CheckDisplay(w)
    BY <2>22 DEF CheckDisplay
  <2>23. CASE DeleteColumnMetadata(w)
    BY <2>23 DEF DeleteColumnMetadata, RemoveColumn
  <2>24. CASE DropField(w)
    BY <2>24 DEF DropField
  <2> QED
    BY <1>1, <2>1, <2>2, <2>3, <2>4, <2>5, <2>6, <2>7, <2>8, <2>9, <2>10,
       <2>11, <2>12, <2>13, <2>14, <2>15, <2>16, <2>17, <2>18, <2>19, <2>20,
       <2>21, <2>22, <2>23, <2>24 DEF Work
<1>2. CASE Crash
  BY <1>2 DEF Crash
<1>3. CASE UNCHANGED vars
  BY <1>3 DEF vars
<1> QED
  BY <1>1, <1>2, <1>3 DEF Next

(* The INSERT of a column adds it to a table that has one already.         *)
LEMMA ColumnRowEffect ==
    ASSUME TypeInv, NEW w \in Workers, InsertColumnMetadata(w)
    PROVE  /\ job[w].pc = "insertColumn"
           /\ physical' = physical /\ abandoned \subseteq abandoned'
           /\ \A v \in Workers : v # w => job'[v] = job[v]
           /\ \/ columns' = columns /\ drawn' = drawn /\ job'[w].pc = "idle"
              \/ \E c \in Columns \ drawn :
                    /\ drawn' = drawn \cup {c}
                    /\ columns[job[w].table] # {}
                    /\ columns' = [columns EXCEPT ![job[w].table] = @ \cup {c}]
                    /\ \/ c \in abandoned' /\ job'[w].pc = "idle"
                       \/ /\ job'[w].table = job[w].table /\ job'[w].column = c
                          /\ job'[w].pc \in ColumnSetup
<1>1. job \in [Workers -> [pc : PCs, table : Tables \cup {None},
                          column : Columns \cup {None}, name : Names \cup {None}]]
  BY DEF TypeInv, TypeOK
<1>2. /\ job[w].pc = "insertColumn" /\ physical' = physical
      /\ abandoned \subseteq abandoned'
  BY DEF InsertColumnMetadata, At, data, Kept, Abandon
<1>3. \A v \in Workers : v # w => job'[v] = job[v]
  BY <1>1 DEF InsertColumnMetadata, Finish
<1>4. CASE Finish(w) /\ Kept /\ UNCHANGED <<columns, drawn>>
  BY <1>1, <1>2, <1>3, <1>4 DEF Finish, Idle, Job
<1>5. ASSUME NEW c \in Columns \ drawn, NEW pc \in ColumnSetup,
             columns[job[w].table] # {},
             columns' = [columns EXCEPT ![job[w].table] = @ \cup {c}],
             \/ job' = [job EXCEPT ![w] = Job(pc, job[w].table, c, None)]
             \/ Finish(w) /\ Abandon(c)
      PROVE  \/ c \in abandoned' /\ job'[w].pc = "idle"
             \/ /\ job'[w].table = job[w].table /\ job'[w].column = c
                /\ job'[w].pc \in ColumnSetup
  BY <1>1, <1>5 DEF Finish, Abandon, Idle, Job
<1> QED
  BY <1>2, <1>3, <1>4, <1>5 DEF InsertColumnMetadata

(* It keeps the columns of tables apart.                                   *)
LEMMA NewColumnsOfRow ==
    ASSUME TypeInv, NewColumns, NEW w \in Workers, InsertColumnMetadata(w)
    PROVE  NewColumns'
<1>1. /\ job[w].pc = "insertColumn"
      /\ \A v \in Workers : v # w => job'[v] = job[v]
      /\ job'[w].pc \in {"idle"} \cup ColumnSetup
  BY ColumnRowEffect
<1>2. job[w].table \in Tables /\ columns \in [Tables -> SUBSET Columns]
  BY <1>1 DEF TypeInv, TypeOK, JobTyped
<1>3. CASE columns' = columns /\ drawn' = drawn /\ job'[w].pc = "idle"
  BY <1>1, <1>3 DEF NewColumns, DeleteColumnPCs, ColumnSetup
<1>4. ASSUME NEW c \in Columns \ drawn,
             drawn' = drawn \cup {c},
             columns' = [columns EXCEPT ![job[w].table] = @ \cup {c}],
             \/ job'[w].pc = "idle"
             \/ /\ job'[w].table = job[w].table /\ job'[w].column = c
                /\ job'[w].pc \in ColumnSetup
      PROVE  NewColumns'
  <2>1. /\ columns'[job[w].table] = columns[job[w].table] \cup {c}
        /\ \A t \in Tables \ {job[w].table} : columns'[t] = columns[t]
    BY <1>2, <1>4
  <2>2. \A t \in Tables : c \notin columns[t] /\ columns[t] \subseteq drawn
    BY <1>4 DEF NewColumns
  <2>3. /\ \A t \in Tables : columns'[t] \subseteq drawn'
        /\ \A s, t \in Tables : s # t => columns'[s] \cap columns'[t] = {}
    BY <1>2, <1>4, <2>1, <2>2 DEF NewColumns
  <2>4. ASSUME NEW v \in Workers, v # w
        PROVE  /\ job'[v].pc \in DeleteColumnPCs \ {"exists"} => job'[v].column \in drawn'
               /\ job'[v].pc = "dropField" =>
                    \A t \in Tables : job'[v].column \notin columns'[t]
               /\ job'[v].pc \in ColumnSetup =>
                    /\ job'[v].column \in drawn'
                    /\ \A t \in Tables :
                        job'[v].column \in columns'[t] => t = job'[v].table
    <3>1. job'[v] = job[v] /\ drawn' = drawn \cup {c}
      BY <1>1, <1>4, <2>4
    <3>2. \A t \in Tables, d \in drawn : d \in columns'[t] => d \in columns[t]
      BY <1>4, <2>1
    <3>3. job[v].pc = "dropField" => job[v].pc \in DeleteColumnPCs \ {"exists"}
      BY DEF DeleteColumnPCs
    <3> QED
      BY <3>1, <3>2, <3>3 DEF NewColumns
  <2>5. /\ job'[w].pc \notin DeleteColumnPCs
        /\ job'[w].pc # "dropField"
        /\ job'[w].pc \in ColumnSetup =>
            /\ job'[w].column \in drawn'
            /\ \A t \in Tables : job'[w].column \in columns'[t] => t = job'[w].table
    BY <1>4, <2>1, <2>2 DEF DeleteColumnPCs, ColumnSetup
  <2> QED
    BY <2>3, <2>4, <2>5 DEF NewColumns
<1> QED
  BY <1>3, <1>4, ColumnRowEffect

(* A column belongs to one table, and is no longer listed when its field is*)
(* dropped.                                                                *)
LEMMA NewColumnsStep ==
    ASSUME TypeInv, NewTables, NewColumns, FirstColumn, [Next]_vars
    PROVE  NewColumns'
<1> USE DEF TypeInv, TypeOK, JobTyped, At, GoOnOrAbandon, Goto, Finish, Idle, Job, Abandon,
            Kept, meta, data, answers, history, AddTablePCs, DeleteTablePCs,
            ColumnSetup, DeleteColumnPCs, NewTables,
            NewColumns, FirstColumn
<1>1. ASSUME NEW w \in Workers, Work(w) PROVE NewColumns'
  <2>1. ASSUME NEW t \in Tables, NEW n \in Names, StartAddTable(w, t, n) PROVE NewColumns'
    BY <2>1 DEF StartAddTable
  <2>2. ASSUME NEW t \in Tables, NEW n \in Names,
              NEW c \in Columns \cup {None}, StartModifyTable(w, t, n, c) PROVE NewColumns'
    BY <2>2 DEF StartModifyTable, VerifyTableExists
  <2>3. ASSUME NEW t \in Tables, StartDeleteTable(w, t) PROVE NewColumns'
    BY <2>3 DEF StartDeleteTable, VerifyTableExists
  <2>4. ASSUME NEW t \in Tables, StartAddColumn(w, t) PROVE NewColumns'
    BY <2>4 DEF StartAddColumn, VerifyTableExists
  <2>5. ASSUME NEW t \in Tables, NEW c \in Columns, StartDeleteColumn(w, t, c) PROVE NewColumns'
    BY <2>5 DEF StartDeleteColumn
  <2>6. CASE InsertTableMetadata(w)
    <3>1. /\ \A t \in Tables : columns'[t] \subseteq columns[t]
          /\ drawn' = drawn
          /\ \A v \in Workers : v # w => job'[v] = job[v]
          /\ job'[w].pc \in {"grant", "idle"}
      BY <2>6 DEF InsertTableMetadata
    <3> QED
      BY <3>1
  <2>7. CASE GrantCreatorFullPermissions(w)
    BY <2>7 DEF GrantCreatorFullPermissions
  <2>8. CASE AddView(w)
    <3>1. /\ \A t \in Tables : columns'[t] \subseteq columns[t]
          /\ drawn' = drawn
          /\ \A v \in Workers : v # w => job'[v] = job[v]
          /\ job'[w].pc \in {"column", "idle"}
      BY <2>8 DEF AddView
    <3> QED
      BY <3>1
  <2>9. CASE AddDefaultColumn(w)
    BY <2>9 DEF AddDefaultColumn
  <2>10. CASE SetDefaultColumnDisplay(w)
    <3>1. /\ \A t \in Tables : columns'[t] \subseteq columns[t]
          /\ drawn' = drawn
          /\ \A v \in Workers : v # w => job'[v] = job[v]
          /\ job'[w].pc \in {"createTable", "undoTable"}
      BY <2>10 DEF SetDefaultColumnDisplay
    <3> QED
      BY <3>1
  <2>11. CASE CreateTable(w)
    <3>1. /\ \A t \in Tables : columns'[t] \subseteq columns[t]
          /\ drawn' = drawn
          /\ \A v \in Workers : v # w => job'[v] = job[v]
          /\ job'[w].pc \in {"createDirectory", "undoTable"}
      BY <2>11 DEF CreateTable
    <3> QED
      BY <3>1
  <2>12. CASE CreateDirectory(w)
    <3>1. /\ \A t \in Tables : columns'[t] \subseteq columns[t]
          /\ drawn' = drawn
          /\ \A v \in Workers : v # w => job'[v] = job[v]
          /\ job'[w].pc \in {"idle", "undoTable"}
      BY <2>12 DEF CreateDirectory
    <3> QED
      BY <3>1
  <2>13. CASE UndoTable(w)
    <3>1. /\ \A t \in Tables : columns'[t] \subseteq columns[t]
          /\ drawn' = drawn
          /\ \A v \in Workers : v # w => job'[v] = job[v]
          /\ job'[w].pc \in {"idle"}
      BY <2>13 DEF UndoTable, RemoveRow
    <3> QED
      BY <3>1
  <2>14. CASE UpdateTableMetadata(w)
    BY <2>14 DEF UpdateTableMetadata
  <2>15. CASE DropTable(w)
    <3>1. /\ \A t \in Tables : columns'[t] \subseteq columns[t]
          /\ drawn' = drawn
          /\ \A v \in Workers : v # w => job'[v] = job[v]
          /\ job'[w].pc \in {"idle", "deleteTable"}
      BY <2>15 DEF DropTable
    <3> QED
      BY <3>1
  <2>16. CASE DeleteTableMetadata(w)
    <3>1. /\ \A t \in Tables : columns'[t] \subseteq columns[t]
          /\ drawn' = drawn
          /\ \A v \in Workers : v # w => job'[v] = job[v]
          /\ job'[w].pc \in {"idle", "removeDirectory"}
      BY <2>16 DEF DeleteTableMetadata, RemoveRow
    <3> QED
      BY <3>1
  <2>17. CASE RemoveDirectory(w)
    BY <2>17 DEF RemoveDirectory
  <2>18. CASE InsertColumnMetadata(w)
    BY <2>18, NewColumnsOfRow
  <2>19. CASE AddField(w)
    <3>1. /\ columns' = columns
          /\ drawn' = drawn
          /\ job[w].pc = "addField"
          /\ \A v \in Workers : v # w => job'[v] = job[v]
          /\ \/ job'[w].pc = "idle"
             \/ job'[w] = [job[w] EXCEPT !.pc = "undoColumn"]
      BY <2>19 DEF AddField
    <3> QED
      BY <3>1
  <2>20. CASE UndoColumn(w)
    <3>1. /\ \A t \in Tables : columns'[t] \subseteq columns[t]
          /\ drawn' = drawn
          /\ \A v \in Workers : v # w => job'[v] = job[v]
          /\ job'[w].pc = "idle"
      BY <2>20 DEF UndoColumn, RemoveColumn
    <3> QED
      BY <3>1
  <2>21. CASE VerifyColumnExists(w)
    <3>1. /\ columns' = columns /\ drawn' = drawn
          /\ job[w].pc = "exists" /\ job[w].table \in Tables
          /\ \A v \in Workers : v # w => job'[v] = job[v]
          /\ \/ job'[w].pc = "idle"
             \/ /\ job[w].column \in columns[job[w].table]
                /\ job'[w] = [job[w] EXCEPT !.pc = "checkDisplay"]
      BY <2>21 DEF VerifyColumnExists
    <3> QED
      BY <3>1
  <2>22. CASE CheckDisplay(w)
    <3>1. /\ columns' = columns
          /\ drawn' = drawn
          /\ job[w].pc = "checkDisplay"
          /\ \A v \in Workers : v # w => job'[v] = job[v]
          /\ job'[w] = Idle \/ job'[w] = [job[w] EXCEPT !.pc = "deleteColumn"]
      BY <2>22 DEF CheckDisplay
    <3> QED
      BY <3>1
  <2>23. CASE DeleteColumnMetadata(w)
    <3>1. /\ \A t \in Tables : columns'[t] \subseteq columns[t]
          /\ drawn' = drawn
          /\ job[w].pc = "deleteColumn"
          /\ \A v \in Workers : v # w => job'[v] = job[v]
          /\ job[w].column \in drawn
          /\ \/ job'[w].pc = "idle"
             \/ /\ job'[w].pc = "dropField"
                /\ job'[w].column = job[w].column
                /\ \A t \in Tables : job[w].column \notin columns'[t]
      BY <2>23 DEF DeleteColumnMetadata, RemoveColumn
    <3> QED
      BY <3>1
  <2>24. CASE DropField(w)
    BY <2>24 DEF DropField
  <2> QED
    BY <1>1, <2>1, <2>2, <2>3, <2>4, <2>5, <2>6, <2>7, <2>8, <2>9, <2>10,
       <2>11, <2>12, <2>13, <2>14, <2>15, <2>16, <2>17, <2>18, <2>19, <2>20,
       <2>21, <2>22, <2>23, <2>24 DEF Work
<1>2. CASE Crash
  BY <1>2 DEF Crash
<1>3. CASE UNCHANGED vars
  BY <1>3 DEF vars
<1> QED
  BY <1>1, <1>2, <1>3 DEF Next

(* What the statement that chooses the display column leaves to others.    *)
LEMMA DisplayEffect ==
    ASSUME TypeInv, NEW w \in Workers, SetDefaultColumnDisplay(w)
    PROVE  /\ columns' = columns /\ physical' = physical /\ abandoned' = abandoned
           /\ job[w].pc = "display"
           /\ \A v \in Workers : v # w => job'[v] = job[v]
           /\ \/ job'[w].pc = "undoTable"
              \/ job'[w] = [job[w] EXCEPT !.pc = "createTable"]
<1>1. job \in [Workers -> [pc : PCs, table : Tables \cup {None},
                          column : Columns \cup {None}, name : Names \cup {None}]]
  BY DEF TypeInv, TypeOK
<1>2. /\ At(w, "display")
      /\ Goto(w, "createTable") \/ Goto(w, "undoTable")
      /\ columns' = columns /\ physical' = physical /\ abandoned' = abandoned
  BY DEF SetDefaultColumnDisplay, data, history
<1> QED
  BY <1>1, <1>2 DEF At, Goto

(* It leaves a table that is being created as it should be: such a table is*)
(* somebody else's, and a column it gets is being set up or abandoned.     *)
LEMMA FirstColumnOfRow ==
    ASSUME TypeInv, FirstColumn, NEW w \in Workers, InsertColumnMetadata(w)
    PROVE  FirstColumn'
<1>1. /\ job[w].pc = "insertColumn"
      /\ physical' = physical /\ abandoned \subseteq abandoned'
      /\ \A v \in Workers : v # w => job'[v] = job[v]
  BY ColumnRowEffect
<1>2. job'[w].pc \in {"idle"} \cup ColumnSetup
  BY ColumnRowEffect
<1>3. SUFFICES ASSUME NEW v \in Workers, job'[v].pc \in AddTablePCs
      PROVE  /\ job'[v].pc \in {"insertTable", "grant", "view", "column"}
                    => columns'[job'[v].table] = {}
             /\ job'[v].pc \in AddTablePCs \ {"createDirectory", "undoTable"}
                    => job'[v].table \notin physical'
             /\ job'[v].pc \in {"display", "createTable"} =>
                    \A c \in columns'[job'[v].table] :
                        \/ c = job'[v].column \/ c \in abandoned'
                        \/ \E x \in Workers : /\ job'[x].table = job'[v].table
                                              /\ job'[x].column = c
                                              /\ job'[x].pc \in ColumnSetup
  BY <1>3 DEF FirstColumn, SettingUp, AddTablePCs
<1>4. v # w /\ job'[v] = job[v]
  BY <1>1, <1>2, <1>3 DEF AddTablePCs, ColumnSetup
<1>5. job[v].table \in Tables /\ columns \in [Tables -> SUBSET Columns]
  BY <1>3, <1>4 DEF TypeInv, TypeOK, JobTyped, AddTablePCs
<1>6. job[v].pc \in {"insertTable", "grant", "view", "column"} => columns[job[v].table] = {}
  BY DEF FirstColumn
<1>7. job[v].pc \in AddTablePCs \ {"createDirectory", "undoTable"}
            => job[v].table \notin physical
  BY DEF FirstColumn
<1>8. ASSUME job[v].pc \in {"display", "createTable"}, NEW c \in columns[job[v].table]
      PROVE  \/ c = job[v].column \/ c \in abandoned
             \/ \E x \in Workers : /\ job'[x].table = job[v].table
                                   /\ job'[x].column = c /\ job'[x].pc \in ColumnSetup
  <2>1. c = job[v].column \/ c \in abandoned \/ SettingUp(job[v].table, c)
    BY <1>8 DEF FirstColumn
  <2> QED
    BY <1>1, <2>1 DEF SettingUp, ColumnSetup
<1>9. CASE columns' = columns
  BY <1>1, <1>4, <1>6, <1>7, <1>8, <1>9
<1>10. ASSUME NEW c \in Columns,
              columns[job[w].table] # {},
              columns' = [columns EXCEPT ![job[w].table] = @ \cup {c}],
              \/ c \in abandoned' /\ job'[w].pc = "idle"
              \/ /\ job'[w].table = job[w].table /\ job'[w].column = c
                 /\ job'[w].pc \in ColumnSetup
       PROVE  /\ job'[v].pc \in {"insertTable", "grant", "view", "column"}
                    => columns'[job'[v].table] = {}
              /\ job'[v].pc \in {"display", "createTable"} =>
                    \A d \in columns'[job'[v].table] :
                        \/ d = job'[v].column \/ d \in abandoned'
                        \/ \E x \in Workers : /\ job'[x].table = job'[v].table
                                              /\ job'[x].column = d
                                              /\ job'[x].pc \in ColumnSetup
  <2>1. CASE job[v].table # job[w].table
    <3>1. columns'[job[v].table] = columns[job[v].table]
      BY <1>5, <1>10, <2>1
    <3> QED
      BY <1>1, <1>4, <1>6, <1>8, <3>1
  <2>2. CASE job[v].table = job[w].table
    <3>1. columns'[job[v].table] = columns[job[v].table] \cup {c}
      BY <1>5, <1>10, <2>2
    <3>2. \/ c \in abandoned'
          \/ \E x \in Workers : /\ job'[x].table = job[v].table
                                /\ job'[x].column = c /\ job'[x].pc \in ColumnSetup
      BY <1>10, <2>2
    <3> QED
      BY <1>1, <1>4, <1>6, <1>8, <1>10, <2>2, <3>1, <3>2
  <2> QED
    BY <2>1, <2>2
<1> QED
  BY <1>1, <1>4, <1>7, <1>9, <1>10, ColumnRowEffect

(* A table that is being created has no columns but its first, those being *)
(* set up and the abandoned.                                               *)
LEMMA FirstColumnStep ==
    ASSUME TypeInv, NewTables, NewColumns, FirstColumn, [Next]_vars
    PROVE  FirstColumn'
<1> USE DEF TypeInv, TypeOK, JobTyped, At, GoOnOrAbandon, Goto, Finish, Idle, Job, Abandon,
            Kept, meta, data, answers, history, AddTablePCs, DeleteTablePCs,
            ColumnSetup, DeleteColumnPCs, NewTables,
            NewColumns, FirstColumn, SettingUp
<1>1. ASSUME NEW w \in Workers, Work(w) PROVE FirstColumn'
  <2>1. ASSUME NEW t \in Tables, NEW n \in Names, StartAddTable(w, t, n) PROVE FirstColumn'
    BY <2>1 DEF StartAddTable
  <2>2. ASSUME NEW t \in Tables, NEW n \in Names,
              NEW c \in Columns \cup {None}, StartModifyTable(w, t, n, c) PROVE FirstColumn'
    BY <2>2 DEF StartModifyTable, VerifyTableExists
  <2>3. ASSUME NEW t \in Tables, StartDeleteTable(w, t) PROVE FirstColumn'
    BY <2>3 DEF StartDeleteTable, VerifyTableExists
  <2>4. ASSUME NEW t \in Tables, StartAddColumn(w, t) PROVE FirstColumn'
    BY <2>4 DEF StartAddColumn, VerifyTableExists
  <2>5. ASSUME NEW t \in Tables, NEW c \in Columns, StartDeleteColumn(w, t, c) PROVE FirstColumn'
    BY <2>5 DEF StartDeleteColumn
  <2>6. CASE InsertTableMetadata(w)
    <3>1. /\ columns' = columns
          /\ physical' \subseteq physical
          /\ abandoned \subseteq abandoned'
          /\ job[w].pc = "insertTable"
          /\ \A v \in Workers : v # w => job'[v] = job[v]
          /\ \/ job'[w].pc \in {"idle", "undoTable"}
             \/ job'[w] = Job("grant", job[w].table, None, None)
      BY <2>6 DEF InsertTableMetadata
    <3>2. \A t \in Tables, c \in Columns : SettingUp(t, c) => SettingUp(t, c)'
      BY <3>1
    <3> QED
      BY <3>1, <3>2
  <2>7. CASE GrantCreatorFullPermissions(w)
    BY <2>7 DEF GrantCreatorFullPermissions
  <2>8. CASE AddView(w)
    <3>1. /\ columns' = columns
          /\ physical' \subseteq physical
          /\ abandoned \subseteq abandoned'
          /\ job[w].pc = "view"
          /\ \A v \in Workers : v # w => job'[v] = job[v]
          /\ \/ job'[w].pc \in {"idle", "undoTable"}
             \/ job'[w] = Job("column", job[w].table, None, None)
      BY <2>8 DEF AddView
    <3>2. \A t \in Tables, c \in Columns : SettingUp(t, c) => SettingUp(t, c)'
      BY <3>1
    <3> QED
      BY <3>1, <3>2
  <2>9. CASE AddDefaultColumn(w)
    <3>1. /\ physical' \subseteq physical
          /\ abandoned \subseteq abandoned'
          /\ job[w].pc = "column"
          /\ \A v \in Workers : v # w => job'[v] = job[v]
          /\ \/ columns' = columns /\ job'[w].pc = "idle"
             \/ /\ job'[w].pc = "idle"
                /\ \A t \in Tables \ {job[w].table} : columns'[t] = columns[t]
             \/ /\ job'[w].pc = "display" /\ job'[w].table = job[w].table
                /\ columns' = [columns EXCEPT ![job[w].table] = @ \cup {job'[w].column}]
      BY <2>9 DEF AddDefaultColumn
    <3>2. \A t \in Tables, c \in Columns : SettingUp(t, c) => SettingUp(t, c)'
      BY <3>1
    <3> QED
      BY <3>1, <3>2
  <2>10. CASE SetDefaultColumnDisplay(w)
    <3>1. /\ columns' = columns /\ physical' = physical /\ abandoned' = abandoned
          /\ job[w].pc = "display"
          /\ \A v \in Workers : v # w => job'[v] = job[v]
          /\ \/ job'[w].pc = "undoTable"
             \/ job'[w] = [job[w] EXCEPT !.pc = "createTable"]
      BY <2>10, DisplayEffect
    <3>2. \A t \in Tables, c \in Columns : SettingUp(t, c) => SettingUp(t, c)'
      BY <3>1
    <3> QED
      BY <3>1, <3>2
  <2>11. CASE CreateTable(w)
    <3>1. /\ columns' = columns
          /\ physical' \subseteq physical \cup {job[w].table}
          /\ abandoned' = abandoned
          /\ job[w].pc = "createTable"
          /\ \A v \in Workers : v # w => job'[v] = job[v]
          /\ job'[w].pc \in {"createDirectory", "undoTable"}
      BY <2>11 DEF CreateTable
    <3>2. \A t \in Tables, c \in Columns : SettingUp(t, c) => SettingUp(t, c)'
      BY <3>1
    <3> QED
      BY <3>1, <3>2
  <2>12. CASE CreateDirectory(w)
    <3>1. /\ \A t \in Tables : columns'[t] \subseteq columns[t]
          /\ physical' \subseteq physical
          /\ abandoned \subseteq abandoned'
          /\ \A v \in Workers : v # w => job'[v] = job[v]
          /\ job[w].pc \notin ColumnSetup
          /\ job'[w].pc \notin AddTablePCs \ {"undoTable"}
      BY <2>12 DEF CreateDirectory
    <3>2. \A t \in Tables, c \in Columns : SettingUp(t, c) => SettingUp(t, c)'
      BY <3>1
    <3> QED
      BY <3>1, <3>2
  <2>13. CASE UndoTable(w)
    BY <2>13 DEF UndoTable, RemoveRow
  <2>14. CASE UpdateTableMetadata(w)
    BY <2>14 DEF UpdateTableMetadata
  <2>15. CASE DropTable(w)
    <3>1. /\ \A t \in Tables : columns'[t] \subseteq columns[t]
          /\ physical' \subseteq physical
          /\ abandoned \subseteq abandoned'
          /\ \A v \in Workers : v # w => job'[v] = job[v]
          /\ job[w].pc \notin ColumnSetup
          /\ job'[w].pc \notin AddTablePCs \ {"undoTable"}
      BY <2>15 DEF DropTable
    <3>2. \A t \in Tables, c \in Columns : SettingUp(t, c) => SettingUp(t, c)'
      BY <3>1
    <3> QED
      BY <3>1, <3>2
  <2>16. CASE DeleteTableMetadata(w)
    <3>1. /\ \A t \in Tables : columns'[t] \subseteq columns[t]
          /\ physical' \subseteq physical
          /\ abandoned \subseteq abandoned'
          /\ \A v \in Workers : v # w => job'[v] = job[v]
          /\ job[w].pc \notin ColumnSetup
          /\ job'[w].pc \notin AddTablePCs \ {"undoTable"}
      BY <2>16 DEF DeleteTableMetadata, RemoveRow
    <3>2. \A t \in Tables, c \in Columns : SettingUp(t, c) => SettingUp(t, c)'
      BY <3>1
    <3> QED
      BY <3>1, <3>2
  <2>17. CASE RemoveDirectory(w)
    BY <2>17 DEF RemoveDirectory
  <2>18. CASE InsertColumnMetadata(w)
    BY <2>18, FirstColumnOfRow
  <2>19. CASE AddField(w)
    <3>1. /\ columns' = columns
          /\ physical' = physical
          /\ abandoned' = abandoned
          /\ job[w].pc = "addField"
          /\ \A v \in Workers : v # w => job'[v] = job[v]
          /\ \/ job[w].table \in physical /\ job'[w].pc = "idle"
             \/ job'[w] = [job[w] EXCEPT !.pc = "undoColumn"]
      BY <2>19 DEF AddField
    <3>2. \A t \in Tables \ physical, c \in Columns : SettingUp(t, c) => SettingUp(t, c)'
      BY <3>1
    <3> QED
      BY <3>1, <3>2
  <2>20. CASE UndoColumn(w)
    BY <2>20 DEF UndoColumn, RemoveColumn
  <2>21. CASE VerifyColumnExists(w)
    <3>1. /\ \A t \in Tables : columns'[t] \subseteq columns[t]
          /\ physical' \subseteq physical
          /\ abandoned \subseteq abandoned'
          /\ \A v \in Workers : v # w => job'[v] = job[v]
          /\ job[w].pc \notin ColumnSetup
          /\ job'[w].pc \notin AddTablePCs \ {"undoTable"}
      BY <2>21 DEF VerifyColumnExists
    <3>2. \A t \in Tables, c \in Columns : SettingUp(t, c) => SettingUp(t, c)'
      BY <3>1
    <3> QED
      BY <3>1, <3>2
  <2>22. CASE CheckDisplay(w)
    BY <2>22 DEF CheckDisplay
  <2>23. CASE DeleteColumnMetadata(w)
    <3>1. /\ \A t \in Tables : columns'[t] \subseteq columns[t]
          /\ physical' \subseteq physical
          /\ abandoned \subseteq abandoned'
          /\ \A v \in Workers : v # w => job'[v] = job[v]
          /\ job[w].pc \notin ColumnSetup
          /\ job'[w].pc \notin AddTablePCs \ {"undoTable"}
      BY <2>23 DEF DeleteColumnMetadata, RemoveColumn
    <3>2. \A t \in Tables, c \in Columns : SettingUp(t, c) => SettingUp(t, c)'
      BY <3>1
    <3> QED
      BY <3>1, <3>2
  <2>24. CASE DropField(w)
    BY <2>24 DEF DropField
  <2> QED
    BY <1>1, <2>1, <2>2, <2>3, <2>4, <2>5, <2>6, <2>7, <2>8, <2>9, <2>10,
       <2>11, <2>12, <2>13, <2>14, <2>15, <2>16, <2>17, <2>18, <2>19, <2>20,
       <2>21, <2>22, <2>23, <2>24 DEF Work
<1>2. CASE Crash
  BY <1>2 DEF Crash
<1>3. CASE UNCHANGED vars
  BY <1>3 DEF vars
<1> QED
  BY <1>1, <1>2, <1>3 DEF Next

(* A listed column is a field, being set up or abandoned.                  *)
LEMMA ColumnsStep ==
    ASSUME TypeInv, NewTables, NewColumns, FirstColumn, ColumnsBacked,
           [Next]_vars
    PROVE  ColumnsBacked'
<1> USE DEF TypeInv, TypeOK, JobTyped, At, GoOnOrAbandon, Goto, Finish, Idle, Job, Abandon,
            Kept, meta, data, answers, history, AddTablePCs, DeleteTablePCs,
            ColumnSetup, DeleteColumnPCs, NewTables,
            NewColumns, FirstColumn, ColumnsBacked, SettingUp
<1>1. ASSUME NEW w \in Workers, Work(w) PROVE ColumnsBacked'
  <2>1. ASSUME NEW t \in Tables, NEW n \in Names, StartAddTable(w, t, n) PROVE ColumnsBacked'
    BY <2>1 DEF StartAddTable
  <2>2. ASSUME NEW t \in Tables, NEW n \in Names,
              NEW c \in Columns \cup {None}, StartModifyTable(w, t, n, c) PROVE ColumnsBacked'
    BY <2>2 DEF StartModifyTable, VerifyTableExists
  <2>3. ASSUME NEW t \in Tables, StartDeleteTable(w, t) PROVE ColumnsBacked'
    BY <2>3 DEF StartDeleteTable, VerifyTableExists
  <2>4. ASSUME NEW t \in Tables, StartAddColumn(w, t) PROVE ColumnsBacked'
    BY <2>4 DEF StartAddColumn, VerifyTableExists
  <2>5. ASSUME NEW t \in Tables, NEW c \in Columns, StartDeleteColumn(w, t, c) PROVE ColumnsBacked'
    BY <2>5 DEF StartDeleteColumn
  <2>6. CASE InsertTableMetadata(w)
    BY <2>6 DEF InsertTableMetadata
  <2>7. CASE GrantCreatorFullPermissions(w)
    BY <2>7 DEF GrantCreatorFullPermissions
  <2>8. CASE AddView(w)
    BY <2>8 DEF AddView
  <2>9. CASE AddDefaultColumn(w)
    BY <2>9 DEF AddDefaultColumn
  <2>10. CASE SetDefaultColumnDisplay(w)
    BY <2>10 DEF SetDefaultColumnDisplay
  <2>11. CASE CreateTable(w)
    <3>1. /\ UNCHANGED <<rows, columns, abandoned>>
          /\ \A v \in Workers : v # w => job'[v] = job[v]
          /\ job[w].pc = "createTable"
          /\ \/ UNCHANGED <<physical, fields>>
             \/ /\ physical' = physical \cup {job[w].table}
                /\ fields' = [fields EXCEPT ![job[w].table] = {job[w].column}]
      BY <2>11 DEF CreateTable
    <3>2. \A t \in Tables, c \in Columns : SettingUp(t, c) => SettingUp(t, c)'
      BY <3>1
    <3> QED
      BY <3>1, <3>2
  <2>12. CASE CreateDirectory(w)
    BY <2>12 DEF CreateDirectory
  <2>13. CASE UndoTable(w)
    BY <2>13 DEF UndoTable, RemoveRow
  <2>14. CASE UpdateTableMetadata(w)
    BY <2>14 DEF UpdateTableMetadata
  <2>15. CASE DropTable(w)
    <3>1. /\ UNCHANGED <<rows, columns>>
          /\ abandoned \subseteq abandoned'
          /\ \A v \in Workers : v # w => job'[v] = job[v]
          /\ job[w].pc \notin ColumnSetup
          /\ physical' \subseteq physical
          /\ \A t \in physical' : fields'[t] = fields[t]
      BY <2>15 DEF DropTable
    <3>2. \A t \in Tables, c \in Columns : SettingUp(t, c) => SettingUp(t, c)'
      BY <3>1
    <3> QED
      BY <3>1, <3>2
  <2>16. CASE DeleteTableMetadata(w)
    <3>1. /\ rows' \subseteq rows
          /\ \A t \in Tables : columns'[t] \subseteq columns[t]
          /\ UNCHANGED <<physical, fields>>
          /\ abandoned \subseteq abandoned'
          /\ \A v \in Workers : v # w => job'[v] = job[v]
          /\ job[w].pc \notin ColumnSetup
      BY <2>16 DEF DeleteTableMetadata, RemoveRow
    <3>2. \A t \in Tables, c \in Columns : SettingUp(t, c) => SettingUp(t, c)'
      BY <3>1
    <3> QED
      BY <3>1, <3>2
  <2>17. CASE RemoveDirectory(w)
    BY <2>17 DEF RemoveDirectory
  <2>18. CASE InsertColumnMetadata(w)
    <3>1. /\ UNCHANGED <<rows, physical, fields>>
          /\ abandoned \subseteq abandoned'
          /\ \A v \in Workers : v # w => job'[v] = job[v]
          /\ job[w].pc \notin ColumnSetup
          /\ \/ columns' = columns
             \/ /\ job'[w].pc \in ColumnSetup /\ job'[w].table = job[w].table
                /\ columns' = [columns EXCEPT ![job[w].table] = @ \cup {job'[w].column}]
             \/ \E c \in Columns :
                  /\ c \in abandoned'
                  /\ columns' = [columns EXCEPT ![job[w].table] = @ \cup {c}]
      BY <2>18 DEF InsertColumnMetadata
    <3>2. \A t \in Tables, c \in Columns : SettingUp(t, c) => SettingUp(t, c)'
      BY <3>1
    <3> QED
      BY <3>1, <3>2
  <2>19. CASE AddField(w)
    <3>1. /\ UNCHANGED <<rows, columns, physical, abandoned>>
          /\ job[w].pc = "addField"
          /\ \A v \in Workers : v # w => job'[v] = job[v]
          /\ \/ /\ job[w].table \in physical
                /\ fields' = [fields EXCEPT ![job[w].table] = @ \cup {job[w].column}]
             \/ fields' = fields /\ job'[w] = [job[w] EXCEPT !.pc = "undoColumn"]
      BY <2>19 DEF AddField
    <3>2. \A t \in Tables, c \in Columns :
             SettingUp(t, c) => SettingUp(t, c)' \/ c \in fields'[t]
      BY <3>1
    <3> QED
      BY <3>1, <3>2
  <2>20. CASE UndoColumn(w)
    BY <2>20 DEF UndoColumn, RemoveColumn
  <2>21. CASE VerifyColumnExists(w)
    BY <2>21 DEF VerifyColumnExists
  <2>22. CASE CheckDisplay(w)
    <3>1. /\ UNCHANGED <<rows, physical, fields, columns, abandoned>>
          /\ \A v \in Workers : v # w => job'[v] = job[v]
          /\ job[w].pc \notin ColumnSetup
      BY <2>22 DEF CheckDisplay
    <3>2. \A t \in Tables, c \in Columns : SettingUp(t, c) => SettingUp(t, c)'
      BY <3>1
    <3> QED
      BY <3>1, <3>2
  <2>23. CASE DeleteColumnMetadata(w)
    BY <2>23 DEF DeleteColumnMetadata, RemoveColumn
  <2>24. CASE DropField(w)
    BY <2>24 DEF DropField
  <2> QED
    BY <1>1, <2>1, <2>2, <2>3, <2>4, <2>5, <2>6, <2>7, <2>8, <2>9, <2>10,
       <2>11, <2>12, <2>13, <2>14, <2>15, <2>16, <2>17, <2>18, <2>19, <2>20,
       <2>21, <2>22, <2>23, <2>24 DEF Work
<1>2. CASE Crash
  BY <1>2 DEF Crash
<1>3. CASE UNCHANGED vars
  BY <1>3 DEF vars
<1> QED
  BY <1>1, <1>2, <1>3 DEF Next

-----------------------------------------------------------------------------
(* Together: every statement keeps the invariant.                          *)
LEMMA InvStep == IInv /\ [Next]_vars => IInv'
<1> SUFFICES ASSUME IInv, [Next]_vars PROVE IInv'
  OBVIOUS
<1>1. TypeInv /\ TypeInv'
  BY TypeStep DEF IInv, TypeInv
<1>2. NewTables' /\ AddTableProgress' /\ CreatedComplete'
  BY <1>1, CreatedStep DEF IInv
<1>3. ListedTablesExist'
  BY <1>1, ListedStep DEF IInv
<1>4. NewColumns' /\ FirstColumn'
  BY <1>1, NewColumnsStep, FirstColumnStep DEF IInv
<1>5. ColumnsBacked'
  BY <1>1, ColumnsStep DEF IInv
<1> QED
  BY <1>1, <1>2, <1>3, <1>4, <1>5 DEF IInv, TypeInv

(* Hence the invariant holds always.                                       *)
LEMMA InvHolds == Spec => []IInv
  BY InvInit, InvStep, PTL DEF Spec

(* Tables::Add answers "Ok." only for a complete table, and nothing but a  *)
(* request to delete it takes any part of it away, whatever statements fail*)
(* and wherever the process dies.                                          *)
THEOREM CreatedSafe == Spec => []CreatedComplete
<1>1. IInv => CreatedComplete
  BY DEF IInv
<1> QED
  BY <1>1, InvHolds, PTL

(* Tables::Read finds the MariaDB table of every listed table that no      *)
(* handler has abandoned or is still working on.                           *)
THEOREM ListedSafe == Spec => []ListedTablesExist
<1>1. IInv => ListedTablesExist
  BY DEF IInv
<1> QED
  BY <1>1, InvHolds, PTL

(* Queries built from tables_columns name only fields that exist, columns  *)
(* being set up and abandoned ones excepted.                               *)
THEOREM ColumnsSafe == Spec => []ColumnsBacked
<1>1. IInv => ColumnsBacked
  BY DEF IInv
<1> QED
  BY <1>1, InvHolds, PTL

=============================================================================
