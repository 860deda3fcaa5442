# A TLA+ specification of StructBX

StructBX is a multi-user database application: a C++17 HTTP server (Poco) over MariaDB, with a
JavaScript front end. One metadata schema describes databases, tables, columns, views, users and
permissions. Each "database" a user creates is a MariaDB schema of its own, each of its "tables" a
MariaDB table whose columns are named by identifiers, with a directory for uploaded files beside it.

Paths below are relative to the repository; `controllers/` stands for `src/controllers/`. Source
paths in `PROJECT.json` carry a further `src/` in front, the directory the repository is checked out
in.

## The system

`main` (`src/structbx-server.cpp:142`) reads the settings, connects to MariaDB, optionally initialises
or updates the schema, loads the permissions, reads the sessions and then serves. A bounded pool of
threads takes connections from a bounded queue; each request is handled by one thread, from the
cookie to the answer.

One fact shapes everything: `Action::Work_` runs **one SQL statement on a connection of its own**, and
there are no transactions. A handler is therefore a sequence of statements that other handlers'
statements come between, any of which may fail, and after any of which the process may die. Every
model here takes one statement, or one access to shared memory, as one step.

| Component | State | Operations | Talks to | What is hard | What makes it correct |
|---|---|---|---|---|---|
| Sessions and login (`sessions/`, `handlers/login_handler.cpp`, `security/users_manager.cpp`) | `sessions_` map in memory, table `sessions` | log in, log out, verify a cookie, reload at start | every request; users | two stores written one after the other; an unlocked map; crash between writes; failed writes that are only logged | a cookie opens one account; a closed session stays closed; an answered login survives restarts |
| Request authentication and dispatch (`handlers/backend_handler.cpp`) | none beyond the request | cookie or API key, route, permission, active user, then the handler | sessions, permissions cache | values read early and used late | nobody runs a handler without the permission |
| Permissions cache (`security/permissions_manager.cpp`) | the list in memory, table `permissions` | load, find | request dispatch; group and permission handlers | cleared before it is reloaded, read without the lock, not reloaded by group handlers | the cache agrees with the table when nothing is being changed |
| Users, groups and permissions (`controllers/general/`) | `users`, `groups`, `permissions` | add, modify, delete | cache, sessions | counted and deleted in two statements | the last administrator, the last group stay |
| Databases (`controllers/databases/`) | `databases`, `databases_users`, MariaDB schemas | add, modify, delete, add and remove users | tables | many steps, some of them undone | a listed database exists and has an owner |
| Tables and columns (`controllers/tables/tables.cpp`, `columns.cpp`) | `tables`, `tables_columns`, default view, creator permission, MariaDB tables and fields, directories | add, modify, delete a table; add, modify, delete a column | every data request | seven statements and a directory per creation, partly undone; checks and deletions in separate statements | listed tables and columns exist; what was answered as created is complete |
| Views, filters and sorts (`controllers/tables/views.cpp`, `filters.cpp`, `sorts.cpp`) | `views`, `filters`, `sorts` with decimal positions | add, modify, delete, move | reading records | read the maximum, then insert; averages that run out of digits; last view counted, then deleted | positions differ; one view stays |
| Records and change log (`controllers/tables/data.cpp`) | MariaDB rows, table `changes` | add, modify, delete, import, read, long poll | open pages | a record and its log row are two statements; ids and commits; row policies | a change in the log follows its write |
| Record files (`files/`) | upload directories | save, delete, read | records | files change before the statement that refers to them | a record's file exists |
| Table permissions and row policies (`controllers/tables/permissions.cpp`, `row_policy.cpp`) | `tables_permissions`, `row_policies` | grant, revoke, policies | record statements | a statement that silently matches no row | no record outside the policy is changed |
| Public forms (`controllers/forms/forms.cpp`, `http/client.cpp`) | temporary `users` rows, their sessions | five endpoints, each proxied | the pool, sessions, the server itself | a handler waits for another handler of the same pool; timeouts; clean-up | the temporary user dies with its request; no pool stays stuck |
| HTTP server and pool (`core/server.cpp`) | threads, queue | accept, dispatch | all handlers | both bounded | accepted requests end |
| Table page (`web/assets/js/submodules/data_controller.js`) | cursor, `read_mutex`, shown records | poll, handle changes, reload, read one record | change log | answers in any order, dropped reloads | no change is skipped; the page shows the records there are |
| Action and Function engine (`functions/`, `query/`) | per request | identify parameters, run, check | all handlers | conditions before and after a statement | a condition that fails stops the handler |
| Schema initialisation (`query/schema_initializer.cpp`) | the metadata schema | create, seed, update | start-up | interrupted start, second start | running it twice is running it once |
| Messages, bodies, tools, other pages | none that outlives a request | parsing, formatting, conversion | | | |

## Modules

| Module | Models | Run (in `MC<module>`) | Proofs |
|---|---|---|---|
| `Sessions` | session map and table, login, logout, requests, deleted users, expiry, crash and restart | `sessions` | `SessionsProof` |
| `SessionStore` | what sessions promise, whatever keeps them; `Sessions` implements it | `sessions` | `SessionsProof` |
| `Catalog` | tables and columns of one database, in the metadata and in MariaDB | `catalog`, `catalog_names` | `CatalogProof` |
| `Access` | users, groups, permissions, the list of permissions in memory, and the check of every request against it | `access` | `AccessProof` |
| `Databases` | databases with their users, schemas and directories, the rights in tables, the database cookie | `databases` | `DatabasesProof` |
| `Records` | records with files, written under row policies | `records` | `RecordsProof` |
| `ChangeFeed` | writers, change log, long polls and one open page | `feed`, `feed_cursor` | `ServerProof` |
| `Views` | views, positions of filters and sorts, place and visibility of columns | `views` | `ViewsProof` |
| `ColumnTypes` | a change of a column's type, with its records and filters | `types` | `ColumnTypesProof` |
| `Schema` | `--db-init` and `--db-update` | `schema` | `ServerProof` |
| `FormProxy` | public forms on the bounded pool | `forms` | `ServerProof` |

They divide the system along the state that is shared. `Databases` decides who may use a table, `Records` takes
such a user and decides what his statement touches, `ChangeFeed` what open pages learn of it. `Catalog`
creates and removes the tables and columns whose types `ColumnTypes` changes and whose arrangement
`Views` keeps. `Access` stands before every handler and `Sessions` before `Access`; `FormProxy` goes through both
with a user of its own.

Each module ends its handlers' steps with the properties it is about, and holds a section of faulty
variants of its steps; none of them is part of the specification. `PROJECT.json` names, for every
property, the variant that breaks it: so each property is known to notice a plausible mistake.

A failed statement may happen at every statement of every module, without a switch. A statement may also
take effect and be reported failed: `Action::Work_` runs it in autocommit and then asks for the identifier of
the last row with a second query, whose failure the handler cannot tell from the statement's
(`action.cpp:135`, `:472`). Wherever that leaves something behind, the step has an alternative of its own for it
(`Reported` in `Access`, `GoOnOrAbandon` in `Catalog`, and in the other modules a disjunct beside success and
failure) or is followed by a step that may end the request there (`Refuse`, `TakeID`).

Where the code gives no guarantee after a failure or an overlap, a history variable records what was lost (`lost`,
`abandoned`, `leftover`, `silent`, `blind`, `misled`, `missed`, `late`, `stray`, `torn`, `odd`, `tied`, `raced`,
`skipped`, and `excused` in the jobs of `Records`), and the property speaks about everything else. The history variables are what the
reader of a property has to look at: each is set only by the step that meets the failure or the overlap,
and the sections below say by which.

### Sessions

`mem` is `SessionsManager::sessions_`, `db` the rows of `sessions`, `users` the rows of `users`; `job`
is where each worker thread is. Login is `StartLogin`, `AuthenticateUser`, `DrawID` (the loop that looks
for an identifier not in the map), `EmplaceSession`, `InsertRow`, `AnswerLogin`; logout is `StartLogout`,
`EraseSession`, `DeleteRow`; a request is `StartRequest`, `ReloadCurrentUser`, `ServeRequest`. `Restart`
is `ReadSessions_`, which skips expired rows; nothing looks at `max_age` while the server runs, so neither
does the model. `DeleteUser` deletes the user's rows through the foreign key and leaves the map alone.

The map is used without a lock, which is undefined behaviour in C++. Its accesses are atomic here, and
its worst outcome is covered only as far as `Crash` covers it.

`UniqueDraws` says that the random generator never repeats an identifier. The code does not guarantee it
(the generator is seeded from the clock, and the table is not consulted before drawing), so it is a
stated assumption: with `UniqueDraws = FALSE` an identifier that expired or was lost may be drawn again.

- `SessionOwner`: map, table, requests in progress and answered logins agree on the one user of a cookie.
- `LogoutFinal`: once the DELETE of a logout has run, the session is in neither store, for ever.
- `LoginDurable`: an answered login is valid until it expires, its user is deleted, somebody logs out
  with it, or the statement that saves or loads it fails (`lost`).
- `ImplementsStore`: `Sessions` implements `SessionStore`, an abstract store that knows only which user a
  cookie was handed to (`owner`), which it admits now (`admits`), which cookies are closed for good, and which
  have an excuse for admitting nobody. The refinement mapping takes `owner` from the logins handed out, `admits`
  from the map while the process is up, and `excused` from expired sessions, deleted users, failed statements and
  logouts under way. A login opens its cookie when it enters the map; a logout suspends it
  when it leaves the map and closes it when its row goes; a restart brings back exactly what is neither closed
  nor excused, and perhaps more that is not closed.

One more promise of the code fails, and no property could state it otherwise than the code does:
`DeleteSession_` only logs an error of its DELETE (`sessions_manager.cpp:141`), so a logout answered "Client logout."
comes back when the server restarts. In `SessionStore` it is a cookie suspended and never closed.

### Catalog

`rows`, `name`, `display`, `columns`, `views`, `granted` are the metadata, with the foreign keys' cascades
in `RemoveRow` and `RemoveColumn`; `physical` and `fields` are MariaDB's own tables, `dirs` the directories.
`Tables::Add` is the chain from `StartAddTable` to `CreateDirectory`, with `UndoTable` for `delete_table`;
`Tables::Modify`, `Tables::Delete`, `Columns::Add` and `Columns::Delete` likewise. The many checks of
`ColumnSetup` only decide whether a new column proceeds or is undone, which is a free choice.

`NumericIdentifier` is the accident that would make the duplicate-name check work: the database's
random identifier, read as a number, equals the number of its row. The runs leave it FALSE.

- `CreatedComplete`: a table answered "Ok." has row, view, permission, MariaDB table and directory until
  somebody asks to delete it, without exception.
- `ListedTablesExist`: a listed table has its MariaDB table (the table list fails as a whole otherwise),
  or a request is between its row and its table, or it is `abandoned`.
- `ColumnsBacked`: the same of columns and fields.
- `UniqueNames` (violated): see Findings.

A handler abandons a table when its row was written and reported failed, when its permission, view or default column
is reported failed, written or not, when its undo fails, or when a deletion dropped the MariaDB table and was
told that it had not, or then failed to delete the row. It abandons a column when its row was inserted and reported
failed, or when the undo of the column fails; a crash abandons what was in progress.

### Access

`users`, `groupOf`, `groups` and `granted` are the tables, with the foreign keys in `DeleteGroup` (the group's
permissions go, its users stay without a group) and as refusals in `GrantAll`, `InsertPermission`,
`InsertUser` and `UpdateUser`. `cache` is the list `PermissionsManager` keeps, `holder` its mutex, `rows`
the query results not yet added. Every handler is a check, a statement and, but for those of groups,
`LoadPermissions_`: `Lock`, `ClearPermissions`, `QueryPermissions`, `PushPermission`, `Unlock`. A request
is `VerifySession`, `VerifyPermissions`, `ServeRequest`.

The list is searched without the mutex. While a load is under way the search may miss an entry that is there
(`VerifyPermissions` may refuse whenever `holder # None`); that the process dies is part of
`CrashAndRestart`. That the search finds an entry nobody ever granted is not considered.

Users of type admin and system pass every check, so the administrator is not a member of `Users`; an
administrator who deletes a user is the caller `None`. Whether a user is active is read with his
row and can only refuse a request later. Names, passwords, status and API keys decide only whether a
statement is accepted.

Two history variables say what the list cannot know yet: `touched[w]` holds the pairs of user
and endpoint the handler of `w` was the last to change and has not reloaded, `silent` those whose last change
is followed by no reload: by a handler of groups, or by one whose statement took effect and was reported failed, which
answers an error at once (`Reported`; for a new user also because the identifier asked for is below 1, `users.cpp:348`).
Whoever changes a pair later takes it over, and the query of the next load empties `silent`, so the exceptions
below end with the reload that follows the last change.

- `NoStaleGrant`: a right in the list, or about to be added, is in the tables, or the handler that took
  it away has still to reload, or changed it silently: once a handler that was told of its success has answered, no load that was
  running brings the right back.
- `GrantTaken`: with no load under way, a right in the tables is in the list or has still to be loaded,
  unless the last load failed (`blind`).
- `Admitted`: a request passes the check only with a right the tables hold or the list is about to lose.

### FormProxy

`outer` is the handler of each form request, `inner` the handler of the request it sends to its own server,
`queue` the connections waiting for a thread. `BusyThreads < MaxThreads` guards `Dispatch`, a full queue
refuses a connection. `TogglePublic` lets the form be closed at any moment. The pool is Poco's and is
modelled from how `core/server.cpp` configures it.

The inner request is a full request: `VerifySession` refuses it when session or user are gone and fails when a lookup does,
`RunInner` carries it out or fails, before or after its effect. The form forwards whatever it is answered.

- `TemporaryUser`: a system user exists only while its request is served; `leftover` holds those whose INSERT was done and
  reported failed (the handler returns, `forms.cpp:113`), whose DELETE failed, or who were there at a crash.
- `ForwardedWasDone`: success is forwarded only for an inner request that was carried out, errors are forwarded as they come, and none
  of them is a refusal: while a form waits, its request finds user and session.
- `EveryFormEnds`: every accepted form comes to an end, although all threads may wait for inner requests
  that sit in the queue behind them.

### ChangeFeed

The server half: `Add`, `Modify`, `Delete` and `Import` write `stored` and then `log`; `TakeID` and
`CommitChange` split the INSERT into `changes`, because the id is taken when it starts and the row is seen
when it ends; two threads may end in the other order. `LinkRecord` is the import into another table that adds a record
here for a value it names (`data.cpp:2705`). The page half: `SendPoll`, `AnswerPoll` or `FailPoll`, `HandlePoll` follow the log;
`Reload`, `AnswerRead` or `FailRead`, `ShowRead` are `read(true)` with its `read_mutex`; `FetchRows`, `AnswerFetch` or `FailFetch`,
`ShowFetch` are `updateRow`. A record is its version number. Polls wait for no read, reads for no poll, and any of them may fail;
a read may also never be answered, and then holds `read_mutex` for good.

Three history variables name what the protocol cannot tell the page:

- `late` holds changes that appeared in the log when the page, a poll or an answer was past them (`Overtaken`);
- `misled` holds the records the log is wrong about: a write that was not logged because the INSERT into `changes` or the
  handler before it failed, one that was logged late, a record added for a link, and a deletion that a row policy prevented and that was logged all the same;
- `missed` holds the records of which, since the last read of the whole table that was answered, a read failed, an answer was overtaken by a
  newer one, or a change was handled while an older answer was on its way: the reload the change asks for is dropped.

The properties are:

- `PageConverges`: once nothing is in progress and the cursor is at the end, a page that was told of every change since it was opened shows
  every record as it is stored, except for `misled` and `missed` ones.
- `LoggedIsWritten`: a logged change is never older than the write it announces.
- `NoChangeSkipped`: neither the cursor nor a poll in flight is past a change the page has not taken, unless the change is `late`.
- `EveryChangeReached`: every logged change is eventually taken, or came late.

The first change after a table without changes was opened is not shown: the first answer with rows only moves the
cursor (`data_controller.js:815`). `PageConverges` counts it among the changes the page was not told of.

### Records

`row` holds the records with the name of their file, `disk` the directory, `policy` the row policies, `columns` the
columns policies may filter on (`AddColumn`, `DropColumn`), `job` what a request has read: a request reads the columns
when it starts and the policies much later. `LookedUp` are the columns whose filter takes a query of its own: paths,
and users and selections whose text has to be looked up. `Data::Add` is `StartAdd`, `SaveFile`,
`InsertRecord`; `Modify` is `StartChange`, `GetFilePath`, `CheckOldFile`, `RemoveOldFile`, `SaveFile`, `LoadPolicies`,
`UpdateRecord`; `Delete` the same without saving. The order is the code's: files first, policies next, the row last.
`Matches` says which records a filter selects for a user, the only thing the properties ask of filters.

- `NoOtherLoss`: a record whose file is gone lost it to a request that removed it and ended early (`lost`), or
  that still is at work. Two requests on the same record lose no file by themselves.
- `FilesApart`: no two records refer to one file.
- `HiddenRowsKept`: no request changes a record that the row policies hide from its user, unless (`excused`) they changed after it
  had loaded them, one filters on a column added after the request had read the columns, or a query for one failed.

Met on the way, and built into the model: a policy whose path query fails is silently skipped
(`BuildCondition`), and one on a user or selection whose lookup fails compares the text itself, which no record equals, so
that a negative operator selects them all; policies on dropped columns, and on columns added since the request began, are skipped; the files of a record go before the policy decides,
so a record hidden from a user loses its file to him and keeps its row; a modification a policy excludes answers
"Ok.", logs a change and leaves its new file orphaned; a record that has lost its file refuses every later upload,
because `FileProcessing::Delete` fails first.

### Databases

`state`, `members`, `table` and `entry` are `databases`, `databases_users`, `tables` and `tables_permissions`, with the
foreign keys in `DeleteTables` and `DeleteDatabase`; `schemas` and `dirs` are what MariaDB and the file system
hold; `cookies` the databases each administrator's cookie may still name. `Databases::Add` is the chain from
`InsertDatabase` to `MakeDirectory` with `UndoDatabase` for `delete_database`; `Read`, `Change`, `Delete`, `Users::Add`,
`Users::Delete`, the handlers of table permissions and the statement of `Tables::Add` that grants the creator follow.

- `RightsOfMembers`: whoever the checks of `data.cpp` admit to a table is a user of its database, is being
  removed, or is in `stray`. The checks look only at `tables_permissions`, so this rests on the order of writes.
- `CompleteOrAbandoned`: a listed database has its schema and directory, is being made, or was left by a failure
  nobody undoes (`abandoned`): an undo that failed, a crash, or an owner who was inserted and reported failed, after
  which the handler returns (`databases.cpp:236`).

Met on the way: `databases_users` has no unique key, so a user may have two rows, and then `Permissions::Add` fails
on its subselect and the count of databases counts him twice; `Permissions::Add` asks for membership of the
database of the cookie, not of the table's; rights survive `Databases::Delete`, which leaves schema and directory as
well; the query for ownership does not name the database; the undo leaves an orphaned schema; `Databases::Read` makes
missing directories, which makes a creation under way undo itself; it lists deleted databases too; nothing
takes a cookie back.

### Views

`row` holds the filters or the sorts of all views (both handlers treat positions alike), `cells` the number of
rows `views_columns` has for a view and a column. A position is an integer, counted in the least decimal the column of
the schema keeps; `Unit` is one, `Gap` the ten an addition adds, `Behind` the five of a drop behind the last item. An average is computed by MariaDB, comes back through
`std::stof` and `std::to_string` (`dvalue.cpp:278`, `:337`) and is rounded again when it is stored: up to 128 (`Fine`) the 32-bit float is finer
than the column, beyond it the result is missed by up to `Coarse`. `Near` is what half a sum may be stored as, `Room` how far apart two
items have to be for the result to come between them, and `Whole` the same of additions, whose position is kept as an int.
Reading a position and writing it are two steps; the page that moves an item names neighbours which may be out of date.

- `NoSilentTie`: two items of a view share a position only if requests overlapped, a page was out of date, or the room between two
  neighbours was less than the decimals of the column or the float need (`tied`).
- `MovedBetween`: an item moves between the neighbours it was dropped between, if they still are and have that room.
- `NothingUnseen`: a place or visibility answered "OK." was stored, unless another request inserted in between.
- `ViewKept`: a table keeps a view, unless two deletions overlap (`raced`).

Met on the way: the switch of a filter updates a column `visible` that `views_filters` lacks and so always fails;
an addition to a view that has gone inserts nothing and answers "Ok."; the last column of a table is not safe
either (`columns.cpp:1030`), since `Columns::Delete` counts and deletes in two statements as well.

### ColumnTypes

`field` is the type of the MariaDB field, `meta` the type in `tables_columns`, `filter` the filters of views, `rows` and
`converted` the records and those whose value an ALTER converted. `Columns::Modify` is `GetColumnCurrentInfo`,
`AlterDefault` or `CountRecords`, `ChangeColumn`, `ReadFilters`, `DeactivateFilters`, `UpdateColumnMetadata`.

- `TypesAgree`: field and row agree, or a change is between the two or was interrupted or overlapped there (`torn`).
- `FiltersFit`: an active filter has an operator the column's type knows, unless it was written against it (`odd`).
- `NoUnconfirmedLoss`: a record is converted without the user's confirmation only if it was added after the count.

A change of the name or default alone also writes the type it has read: overlapping a change of type it writes
the old type back. `required` never reaches the field. Failures to deactivate filters are ignored.

### Schema

`there` is what exists of `kCreateTables`, `kCreateIndexes` and `kCreateForeignKeys` (`Statements`, with what each refers
to in `Needs`), the seeds are rows by the identifier their run drew, `times` and `recorded` say how often a patch took
effect and whether `schema_patches` names it. Failures are warnings and passed over (`Skip`), a process may be killed
anywhere, and two may run. `kPatches` is empty at this commit; the runs give it two patches, one of which may be
repeated.

- `OneRunSuffices`: a run none of whose statements failed in passing creates all that can be created, whatever
  earlier runs left.
  What is possible depends on the rows: MariaDB refuses a foreign key while a row contradicts it.
- `DanglingOnlyAfterFailure`: the seed leaves a membership whose user or database is not there, which keeps one of the two keys of `databases_users`
  out for good, only if that key or a table it needs was passed over before.
- `PatchedOnce`: a recorded patch took effect; it took effect twice, or once and unrecorded, only if its two
  statements were torn apart.

Met on the way: the statement that creates `tables` lacks a comma (between lines 123 and 124) and is not accepted, nor
are the keys that refer to it, and the run ends with "completed successfully"; the seed counts users named
'admin' and inserts 'admin@admin', so every `--db-init` seeds again, with a second administrator once the first one
has changed his name; patches behind one that failed are applied all the same.

## Runs and bounds

| Run | Instance | Why it is enough |
|---|---|---|
| `sessions` | 2 users, 3 identifiers, 2 workers, 1.5 million states | two workers give every pair of overlapping requests; two users are needed to mix accounts up; the third identifier leaves one for a login after two are closed |
| `catalog` | 2 tables, 3 columns, 1 name, 2 workers, 3.7 million states | two requests on the same or on different tables; with three columns a table has its default column and one or two more |
| `catalog_names` | 2 tables, 2 columns, 1 worker | the least the counterexample needs |
| `access` | 2 users, 2 groups, 1 endpoint, 3 workers, 1.7 million states | two workers load one after the other while the third changes the tables or sends a request; two groups let a user move and a group go; rights on different endpoints do not depend on each other but through a load, which takes two users' entries one by one |
| `forms` | 3 requests, 2 threads, queue of 2, 700 thousand states | two forms fill the threads, a third and the inner requests fill the queue: every refusal, wait and timeout happens |
| `feed` | 1 record with 2 writes, 2 writers, 3 log rows of which 1 is older than the page, 1 poll, 2.6 million states | one log row is older than the page, which may swallow it and handle the others; two writers race for ids and commits, and a commit may come late; reads of the record fail and overtake each other |
| `feed_cursor` | no record, 2 writers, 3 log rows, 2 polls, 180 thousand states | two polls are what makes answers overtake each other, and three rows what makes one of two writers late; the cursor does not look at records, so every change is an import; no symmetry, since liveness is checked |
| `records` | 2 users, 2 records, 2 files, 1 column, 2 policies, 2 workers, 4.1 million states | two requests meet on one record or on two, with a file to lose and one to take; one policy filters while another lets bypass; the column may be added and dropped, and its filter takes a query that may fail |
| `databases` | 2 users (one administrator), 2 databases, 1 table, 1 right, 2 workers, 3.7 million states | a removal meets a grant, a creation a reader; the second row of a user is what breaks the subselect |
| `views` | 2 views, 3 items, 1 column, 2 workers, positions up to 4 with a gap of 2, exact up to 1 and missed by 1 beyond, 1.3 million states | three items give two neighbours and one to move; so few positions exhaust the decimals, the float and the top |
| `schema` | 2 processes, 7 statements, 2 patches, 2 seeds, 1 passing failure, 3.4 million states | one process runs over what another has left or is doing; one failure at every statement |
| `types` | 1 column, 3 types over 2 MariaDB types, 2 operators, 1 filter, 2 records, 2 workers, 1.5 million states | two changes overlap each other, an addition and a filter; the pairs of types are those with and without an ALTER, with and without the operator |

`MaxRows` bounds the rows a user has in a database, `Most` how often a patch takes effect, `Failures` the statements that
fail in passing, `Top` is the largest position the column of the schema holds.
`MaxVersion` bounds the writes of one record and `MaxID` the rows of the log, `Earlier` of which are there when the page is opened; a writer that finds the log
full stops there, and a state in which it waits is not `Quiet`. `Catalog` switches TLC's deadlock check off
because identifiers are drawn once: when all are used and all tables deleted, nothing is left to do.

## Fairness

- `FormProxy`: a free thread takes a waiting connection, a handler that can go on does, and the receive
  timeout of Poco's HTTP client expires (it is never switched off). Nothing forces forms to arrive,
  statements to succeed or fail, or the process to die.
- `ChangeFeed`: the server answers polls (`ReadChangeInt` gives up after 25 s at the latest), and the
  page takes their answers and polls again (`longPoll` reschedules itself). Strong fairness of `AnswerPoll` says
  that the query on the log does not fail for ever. Reads are under no obligation, nor are writers.

The other modules claim safety only and assume no fairness.

## Proofs

`SessionsProof` proves, for any number of users, identifiers and workers, and with statements failing
and the process dying at will:

- `TypeCorrect`: `TypeOK` holds always. It needs `JobTyped` beside it, since `InsertRow` and others store
  what a worker remembers.
- `OwnerSafe`, `LogoutSafe`, `DurableSafe`: `SessionOwner`, `LogoutFinal` and `LoginDurable` hold always,
  assuming `UniqueDraws`.

The three follow from one inductive invariant, `IInv`. None of the
three is inductive alone, since the danger lies in logins half done. `FreshIDs` says that an
identifier never drawn is in no store, and that one being given out belongs to a single worker and was neither
answered nor closed before: this is what the assumption buys. `LoginProgress` and `LogoutProgress`
say which of the two stores each step has already written, so that a late INSERT cannot bring
a closed session back. `RowsKept` says that the row of an answered session is there unless something named
took it away, so that `Restart` finds it. `Down` says that a dead process has neither map nor workers. The
proof has one step per action and combines them with the temporal rule. `None` is assumed to be no
user and no identifier.

- `StoreImplemented`: `ImplementsStore` holds, under the same assumption: the initial state maps to one of
  `SessionStore`, and every step maps to one of its steps or leaves the mapped variables as they are. The
  lemma `OwnerOf` says what the mapped owner is after a step; the invariant excludes that a late INSERT
  or a restart would admit a closed cookie.

`CatalogProof` proves, for any number of tables, columns, names and workers, and again with statements
failing and the process dying at will:

- `TypeCorrect`: `TypeOK`, with `JobTyped` beside it.
- `CreatedSafe`, `ListedSafe`, `ColumnsSafe`: `CreatedComplete`, `ListedTablesExist` and `ColumnsBacked` hold
  always. No assumption is made about `NumericIdentifier` or the constants.

Their inductive invariant is `IInv` of `Catalog`. `ListedTablesExist` is
inductive alone. `CreatedComplete` needs `NewTables`, which says that a table being created belongs to one
handler and has not been answered, so that nobody else's undo removes it, and that whoever deletes has announced
it in `deleted`; and `AddTableProgress`, what the statements so far have left. `ColumnsBacked` needs
`NewColumns` (a column is drawn before it is listed, is listed in one table, and is listed nowhere when its
field is dropped) and `FirstColumn` (a table not yet in MariaDB has its first column, columns being set
up, and abandoned ones, since CREATE TABLE makes only the first). The lemmas take one of these parts each, one
step per statement; where a step is large it first says what the statement did to the few variables
the part reads, and concludes from that.

`AccessProof` proves, for any number of users, groups, endpoints and workers:

- `TypeCorrect`: `TypeOK`, which includes that users and permissions refer to groups that exist.
- `StaleSafe`, `TakenSafe`, `AdmittedSafe`: `NoStaleGrant` and `GrantTaken` hold always, and every step
  satisfies `Admitted`.

The inductive invariant is `IInv` of `Access`. It adds `OneLoader` (the worker
in `LoadPermissions_` is the one that holds the mutex, and the list is empty when it queries) and
`LoadComplete` (`GrantTaken` for a load half done, where list and results together stand for the list). The argument
is the lemma `LagKept`: a step that leaves the list alone keeps it close to the tables if every right it changes
is still to be loaded or silent. Each handler satisfies it through `LagOfReported`, which joins `LagOfChange` and `LagOfSilentChange`, or
through the latter alone; only the five steps of a load are proved apart.

`RecordsProof` proves, for any number of users, records, files, columns, policies and workers:

- `TypeCorrect`; `LossSafe`, `ApartSafe`: `NoOtherLoss` and `FilesApart` hold always; `HiddenSafe`: every step satisfies
  `HiddenRowsKept`.

The inductive invariant adds `HeldFiles` (a file saved and not yet given away is on disk and nobody else's),
`OldFiles` (a file about to be removed belongs to no other record), `NewRows`, `AtRest` and `PoliciesLoaded` (the
condition of a statement that is not `excused` contains the filters of the policies there are on the columns there are; a column that
comes or goes while the statement waits is one of the steps it survives). The model takes a drawn name to be
one nobody uses: the handler checks the directory, and the time to the millisecond and a random number in the name have to
keep it apart from those that other requests hold.

`DatabasesProof` proves, for any number of users, databases, tables, rows of rights and workers:

- `TypeCorrect`; `RightsSafe`: `RightsOfMembers`; `CompleteSafe`: `CompleteOrAbandoned`.

`EntriesKnown` strengthens the first to rows that allow nothing yet, `MembersPresent` says that members belong to listed
databases, and `SchemaFirst` orders schema and directory. `CompleteOrAbandoned` is kept by an owner inserted and reported failed
because that step abandons the database.

`ViewsProof` proves, for any number of views, items, columns and workers and any step and precision of positions and of the float, as long
as the float misses by less than the distance of a drop behind the last item:

- `TypeCorrect`; `TieSafe`: `NoSilentTie`; `BetweenSafe`: `MovedBetween`; `SeenSafe`: `NothingUnseen`; `KeptSafe`: `ViewKept`.

The strengthening says what a request may rely on between its SELECT and its UPDATE: `FreshApart` and `FreshBetween` that
the position it computed differs from its neighbours' and lies between them, `FreshEmpty` and `FreshOther` that the row or the other view it
looked for is as it found it, all as long as nobody else has written; `OneCell` says that a column has one row in a view. A
position that is written is a new place (`Placed`) either way: `PlacedKeeps` shows that
the others' knowledge survives or is withdrawn; `NearBetween`, `NearHalf` and `NearBehind` bound what a position becomes on its way through the float,
and `AverageBetween` concludes that with room between its neighbours it stays apart from both.

`ColumnTypesProof` proves, for any number of columns, types, operators, filters, records and workers:

- `TypeCorrect`; `AgreeSafe`: `TypesAgree`; `FitSafe`: `FiltersFit`; `LossSafe`: `NoUnconfirmedLoss`.

`FreshAgrees` is the heart of it: a request whose column nobody else wrote since either made the field what it is or
found the row as it still is, so that writing the row restores the agreement or changes nothing. `Fitting` carries the
filters from their check to the update of the row, `Counted` the count of records to the ALTER.

`ServerProof` holds the proofs of three modules that share nothing; their types, initial states and steps are named
`SchemaInit`, `FeedInit`, `FormsInit` and so on, so that one module can extend all three.

Of `Schema`, for any number of processes and any statements, seeds and patches:

- `SchemaTypeCorrect`: `SchemaTypeOK`; `InitSuffices`: `OneRunSuffices`; `DanglingExplained`: `DanglingOnlyAfterFailure`;
  `PatchesOnce`: `PatchedOnce`.

Their inductive invariant is `SchemaInv`. `BehindIsThere` is `OneRunSuffices` for a run half done: of the statements behind it,
those that are possible have their object. What is possible changes only when a seed leaves a
membership without its user or its database, which makes one of the keys of `databases_users` impossible, and no step makes it possible again
(`DanglingStays`). `KeyBehindIsThere` says the same of the two keys alone, and of runs that are not clean: it is what a seed has behind it
when it inserts a membership, so that a key refuses one without its user or database. `SeedsApart` keeps two seeds
from sharing identifiers. `ReadIsRecorded` and `RecordedIsRead` compare the patches a run
has read with those recorded by now: they differ only in patches that another run, a failure or a kill has torn.
`SchemaAssumption` says what the code's lists satisfy: statements refer to tables created before them, the keys of
`databases_users` to that table and to `users` or `databases`, and a patch has an identifier of its own, as the UNIQUE column
of `schema_patches` wants. Nothing is assumed about which statements are malformed, other than the two keys and their tables.

Of `ChangeFeed`, for any number of records, threads, polls, changes and writes:

- `FeedTypeCorrect`: `FeedTypeOK`; `LogSafe`: `LoggedIsWritten`; `NothingSkipped`: `NoChangeSkipped`; `Converges`: `PageConverges`.

Nothing is assumed of the order of commits, of reads or of polls; what these can spoil is in `late`, `misled` and `missed`. The
inductive invariant is `FeedInv`. `Written` follows a version
from the write into the thread that will log it and into the log. `IDsApart` says that an identifier is
given out once. `AnswersWhole` says that every cursor is at a change that is there, and that an answer holds all there is between its poll's
cursor and its end but for what is late; so an answer that moves
the cursor back or forth moves it to a place up to which everything has been taken. `LateMisleads` says of whose records a late change leaves the log wrong.
`PageIsTold` is the argument for convergence. A page's view of
a record that is neither misled nor missed is never just wrong: if it lacks a record that is stored, an insertion or an import is still to be told, by a thread
that has not logged it or by a change that has not been handled; if it shows one that is gone, a deletion is; if it shows an old version, an
update is, or a read is in flight that will put it right (`Coming`). `EffectFacts` and `ViewKept` show that writers keep this up (`ToldWrite`),
`ToldRead` and `ToldFetch` that reads do, `ToldHandle` that handling an answer reloads, removes or asks for exactly what it no longer has to
tell, or that the record is missed because an older read is still to be shown. At rest nothing is left to be told.

Of `FormProxy`, for any number of forms, threads and places in the queue:

- `FormsTypeCorrect`: `FormsTypeOK`; `UserSafe`: `TemporaryUser`; `DoneSafe`: `ForwardedWasDone`.

`QueuedOnce` says that a connection waits once and its maker knows it, so that `Dispatch` never sends a form back to
its beginning; `Prepared`, that a form which talks to the server has its user and its session, so that its request is not refused for want of them.

Every invariant and action property of the runs, and the refinement of `SessionStore`, is thus proved. What stays with TLC is
`EveryFormEnds` and `EveryChangeReached`, since the proof system does not treat fairness, and `UniqueNames`, which is
false. The inductive invariants were checked by TLC on the instances above while they were written; the
proofs have taken their place in the runs.

## Findings

`catalog_names` ends with a counterexample: the duplicate-name check of `Tables::Add` compares a database
identifier with a row number (`tables.cpp:314`), so two tables get one name. `Tables::Modify` compares correctly.

Three more were met with TLC and follow from the code at once: two deletions count two columns each and leave none
(`columns.cpp:1030`); the condition before removing a table's directory is inverted (`tables.cpp:620`), so it stays; and
the failed DELETE of a logout (`sessions_manager.cpp:141`) and the swallowed first change
(`data_controller.js:815`) described above.

The exceptions built into the other properties were each met as a counterexample before they were named:

- the display column may be chosen between the check and the deletion of a column (`columns.cpp:934`);
- a table whose permission, view or first column fails stays listed (`tables.cpp:208`);
- a crash leaves temporary system users, which nothing removes (`forms.cpp:118`);
- a reload is dropped while an older read is in progress (`data_controller.js:622`), although the comment
  at line 842 wants a full reload to keep the view consistent, and a read that fails leaves the page empty or as it was
  (`data_controller.js:655`, `:735`): hence `missed`;
- a change whose INSERT takes its identifier first and ends last appears behind the cursor, and no poll asks for it again
  (`data.cpp:1337`): hence `late`;
- an import adds records to the tables its values name and logs nothing there (`data.cpp:1761`, `:2705`): hence `misled`;
- a deletion that a row policy prevented is logged and leaves open pages without the record
  (`data.cpp:2147`): hence `misled`;
- a deleted group's users keep its rights until some other handler reloads the list, and a new group's rights are not
  loaded (`groups.cpp:280`, `:113`); and a right changed by a statement that is reported failed after it took effect is not loaded
  either (`action.cpp:472`): hence `silent`;
- the same leaves a table listed after it was dropped (`tables.cpp:600`), a column without a field (`columns.cpp:155`), a database with an owner
  and no schema (`databases.cpp:236`): hence `abandoned`; and a temporary user who may do everything (`forms.cpp:113`): hence `leftover`;
- a column that gets a policy after a request has read the columns is not filtered for that request (`data.cpp:1880`, `:1943`): hence `excused`;
- from position 128 on, averages pass through a float coarser than the column and may land on a neighbour although there is room between
  (`dvalue.cpp:337`): hence `tied`;
- a load whose query fails leaves every user of type default without rights, and its handler
  answers "OK." (`permissions_manager.cpp:69`): hence `blind`;
- with `max_threads` 1 no public form is ever answered.

## Not modelled

`PROJECT.json` lists every component with its status. Parsing and formatting of messages, settings,
logging, conversions and DOM work keep no state that a property speaks about. Of the rest:

- `Action` and `Function` (`functions/`): their objects live for one request and belong to one thread, and they have no model of their own. Three of
  their traits shape the steps of the models: each statement commits on its own; `Work_` may report a failure although the statement
  took effect (see Modules for where that has a branch); a failing condition ends the handler without undo.
- `Databases::Modify`, the texts and switches of filters and sorts, widths and descriptions of columns: statements that
  change one row nobody else reads in the meantime.
- the SELECT that reads records: linked tables, the resolution of display columns, pages and aggregates are one
  long conversion to SQL whose meaning MariaDB gives.
- API keys and routing; endpoints and settings of the seed.
- the pool of `FormProxy` has no long polls, each of which holds a thread for up to 25 s (`data.cpp:1363`).
