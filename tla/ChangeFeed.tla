----------------------------- MODULE ChangeFeed -----------------------------
(***************************************************************************)
(* Realtime updates of an open table: the handlers of                      *)
(* controllers/tables/data.cpp that write a record and then a row of the   *)
(* `changes` log, the long poll on that log, and the page                  *)
(* (data_controller.js) that follows it with a cursor and reloads records. *)
(*                                                                         *)
(* One table and one open page.  The page is single-threaded, but its      *)
(* requests are asynchronous: several polls, one read of the whole table   *)
(* and any number of reads of one record are in flight at once, and their  *)
(* answers arrive in any order.  All records fit on one page of results.   *)
(***************************************************************************)
EXTENDS Integers, FiniteSets, SequencesExt

CONSTANTS
    Records,         \* identifiers of records, each generated once
    Writers,         \* server threads that write
    Polls,           \* the long poll, and those the page sends after a write
    None,
    Earlier,         \* rows of `changes` when the page is opened
    MaxVersion,      \* bound: writes of one record
    MaxID            \* bound: rows of `changes`

ASSUME NoneAssumption == None \notin Records
ASSUME BoundAssumption ==
    {MaxVersion, MaxID} \subseteq Nat \ {0} /\ Earlier \in 0 .. MaxID

VARIABLES
    version,    \* history: writes of each record so far
    stored,     \* its version in the MariaDB table, 0: no such row
    log,        \* rows of `changes`
    nextID,     \* their AUTO_INCREMENT
    writer,     \* what each server thread is doing
    filtered,   \* the view has filters or sorts
    cursor,     \* changeInt
    init,       \* changeIntInit
    poll,       \* requests on the log and their answers
    reading,    \* the read that holds read_mutex
    fetches,    \* updateRow requests and their answers
    shown,      \* the version of each record on the page, 0: not there
    opened,     \* history: changes logged before the page was opened
    passed,     \* history: changes that only moved the cursor
    handled,    \* history: changes that refreshed records
    late,       \* history: changes that appeared in the log behind the page
    misled,     \* history: records the log is wrong about: a write that is
                \* not in it or comes late, a deletion that did not happen
    missed      \* history: records whose reads failed or were overtaken, since
                \* the last read of the whole table

server == <<version, stored, log, nextID, writer>>
page == <<filtered, cursor, init, poll, reading, fetches, shown>>
told == <<opened, passed, handled, late, misled>>
history == <<told, missed>>
feedVars == <<server, page, history>>

Versions == 0 .. MaxVersion
Operations == {"insert", "update", "delete", "import"}
Change == [id : 1 .. MaxID, operation : Operations,
           row : Records \cup {None}, version : Versions]

NoRead == [pc |-> "none", rows |-> [r \in Records |-> 0]]
Pending == -1

WriterIdle == [pc |-> "idle", operation |-> "insert", row |-> None,
               version |-> 0, id |-> 0]

FeedTypeOK ==
    /\ version \in [Records -> Versions]
    /\ stored \in [Records -> Versions]
    /\ log \subseteq Change
    /\ nextID \in 1 .. MaxID + 1
    /\ writer \in [Writers ->
            [pc : {"idle", "import", "log", "commit"}, operation : Operations,
             row : Records \cup {None}, version : Versions, id : 0 .. MaxID]]
    /\ filtered \in BOOLEAN
    /\ cursor \in 0 .. MaxID
    /\ init \in BOOLEAN
    /\ poll \in [Polls -> [pc : {"idle", "sent", "answered"},
                           cursor : 0 .. MaxID, rows : SUBSET log]]
    /\ reading \in [pc : {"none", "sent", "answered"},
                    rows : [Records -> Versions]]
    /\ fetches \in Seq([row : Records, version : Versions \cup {Pending}])
    /\ shown \in [Records -> Versions]
    /\ \A s \in {opened, passed, handled, late} : s \subseteq 1 .. MaxID
    /\ misled \subseteq Records /\ missed \subseteq Records

PollIdle == [pc |-> "idle", cursor |-> 0, rows |-> {}]
IDs(rows) == {c.id : c \in rows}

(* A table with records written earlier, or none, whose page has just asked*)
(* for its records.                                                        *)
FeedInit ==
    /\ stored \in [Records -> {0, 1}]
    /\ version = stored
    /\ log = [id : 1 .. Earlier, operation : {"import"}, row : {None},
              version : {0}]
    /\ nextID = Earlier + 1
    /\ writer = [w \in Writers |-> WriterIdle]
    /\ filtered \in BOOLEAN
    /\ cursor = 0
    /\ init = FALSE
    /\ poll = [p \in Polls |-> PollIdle]
    /\ reading = [NoRead EXCEPT !.pc = "sent"]
    /\ fetches = << >>
    /\ shown = [r \in Records |-> 0]
    /\ opened = IDs(log)
    /\ passed = {}
    /\ handled = {}
    /\ late = {}
    /\ misled = {}
    /\ missed = {}

Writing(w, pc) == writer[w].pc = pc
SetWriter(w, pc, op, r, v) ==
    writer' = [writer EXCEPT ![w] = [pc |-> pc, operation |-> op, row |-> r,
                                     version |-> v, id |-> 0]]

-----------------------------------------------------------------------------
(* Faulty variants of steps and helpers below, none of them in the spec:   *)
(* what the properties are there to catch.                                 *)
ModifyUnchecked(w, r) ==
    /\ Writing(w, "idle")
    /\ version[r] \in 1 .. MaxVersion - 1
    /\ SetWriter(w, "log", "update", r, version[r] + 1)
    /\ UNCHANGED <<version, stored, log, nextID, page, history>>

PollUntilInitialised(p) ==
    /\ poll[p].pc = "idle"
    /\ ~init
    /\ poll' = [poll EXCEPT ![p] = [pc |-> "sent", cursor |-> cursor, rows |-> {}]]
    /\ UNCHANGED <<server, filtered, cursor, init, reading, fetches, shown, history>>

IDAfterLast(rows) == Max(IDs(rows)) + 1

-----------------------------------------------------------------------------
(* The handlers that write.  Each ends with a row of `changes`, unless its *)
(* statement on the record failed; one that is reported failed although it *)
(* was done (GetLastInsertID_) is not logged either, like one whose row of *)
(* `changes` is refused (TakeID).                                          *)
Store(r, v) ==
    /\ version[r] < MaxVersion
    /\ version' = [version EXCEPT ![r] = @ + 1]
    /\ stored' = [stored EXCEPT ![r] = v]

Add(w, r) ==
    /\ Writing(w, "idle")
    /\ version[r] = 0
    /\ Store(r, 1)
    /\ SetWriter(w, "log", "insert", r, 1)
    /\ UNCHANGED <<log, nextID, page, history>>

(* UPDATE: a row that has gone, or that a policy excludes, is no error; the*)
(* change is logged and answered "Ok." all the same.                       *)
Modify(w, r) ==
    /\ Writing(w, "idle")
    /\ version[r] > 0
    /\ \/ /\ stored[r] # 0
          /\ Store(r, version[r] + 1)
       \/ UNCHANGED <<version, stored>>
    /\ SetWriter(w, "log", "update", r, version'[r])
    /\ UNCHANGED <<log, nextID, page, history>>

Delete(w, r) ==
    /\ Writing(w, "idle")
    /\ version[r] > 0
    /\ \/ /\ stored[r] # 0
          /\ Store(r, 0)
          /\ UNCHANGED misled
       \/ /\ misled' = IF stored[r] = 0 THEN misled ELSE misled \cup {r}
          /\ UNCHANGED <<version, stored>>
    /\ SetWriter(w, "log", "delete", r, version'[r])
    /\ UNCHANGED <<log, nextID, page, opened, passed, handled, late, missed>>

(* Import inserts record by record and logs one change at the end.         *)
StartImport(w) ==
    /\ Writing(w, "idle")
    /\ SetWriter(w, "import", "import", None, 0)
    /\ UNCHANGED <<version, stored, log, nextID, page, history>>

ImportRecord(w, r) ==
    /\ Writing(w, "import")
    /\ version[r] = 0
    /\ Store(r, 1)
    /\ UNCHANGED <<log, nextID, writer, page, history>>

(* An import into a table that links to this one adds the record a value   *)
(* names (CreateSelectionValue), and logs nothing of it.                   *)
LinkRecord(w, r) ==
    /\ Writing(w, "idle")
    /\ version[r] = 0
    /\ Store(r, 1)
    /\ misled' = misled \cup {r}
    /\ UNCHANGED <<log, nextID, writer, page, opened, passed, handled, late, missed>>

EndImport(w) ==
    /\ Writing(w, "import")
    /\ writer' = [writer EXCEPT ![w].pc = "log"]
    /\ UNCHANGED <<version, stored, log, nextID, page, history>>

(* ChangeInt::Change: the INSERT takes its id when it starts and is seen   *)
(* when it commits; whether it failed is not looked at.  Two threads may   *)
(* commit in the other order: a change is late when the page, a poll or an *)
(* answer is past it by then.                                              *)
Misled(w) == IF writer[w].row = None THEN Records ELSE misled \cup {writer[w].row}

Overtaken(n) ==
    \/ cursor > n
    \/ \E p \in Polls : poll[p].cursor > n \/ \E c \in poll[p].rows : c.id > n

TakeID(w) ==
    /\ Writing(w, "log")
    /\ \/ /\ nextID <= MaxID
          /\ writer' = [writer EXCEPT ![w].pc = "commit", ![w].id = nextID]
          /\ nextID' = nextID + 1
          /\ UNCHANGED misled
       \/ /\ writer' = [writer EXCEPT ![w] = WriterIdle]
          /\ misled' = Misled(w)
          /\ UNCHANGED nextID
    /\ UNCHANGED <<version, stored, log, page, opened, passed, handled, late, missed>>

CommitChange(w) ==
    LET c == writer[w] IN
    /\ Writing(w, "commit")
    /\ log' = log \cup {[id |-> c.id, operation |-> c.operation,
                         row |-> c.row, version |-> c.version]}
    /\ writer' = [writer EXCEPT ![w] = WriterIdle]
    /\ IF Overtaken(c.id)
       THEN late' = late \cup {c.id} /\ misled' = Misled(w)
       ELSE UNCHANGED <<late, misled>>
    /\ UNCHANGED <<version, stored, nextID, page, opened, passed, handled, missed>>

-----------------------------------------------------------------------------
(* The page's reads.  read(true) empties the page and does nothing at all  *)
(* while another read holds read_mutex, which one that is never answered   *)
(* holds for good.                                                         *)
Reload ==
    IF reading.pc = "none"
    THEN /\ reading' = [NoRead EXCEPT !.pc = "sent"]
         /\ shown' = NoRead.rows
    ELSE UNCHANGED <<reading, shown>>

(* The reload button, and every change of filters, sorts or columns.       *)
ReloadButton ==
    /\ reading.pc = "none"
    /\ Reload
    /\ UNCHANGED <<server, filtered, cursor, init, poll, fetches, history>>

AnswerRead ==
    /\ reading.pc = "sent"
    /\ reading' = [pc |-> "answered", rows |-> stored]
    /\ missed' = {}
    /\ UNCHANGED <<server, filtered, cursor, init, poll, fetches, shown, told>>

(* An error leaves the page empty.                                         *)
FailRead ==
    /\ reading.pc = "sent"
    /\ reading' = [NoRead EXCEPT !.pc = "answered"]
    /\ missed' = Records
    /\ UNCHANGED <<server, filtered, cursor, init, poll, fetches, shown, told>>

ShowRead ==
    /\ reading.pc = "answered"
    /\ shown' = reading.rows
    /\ reading' = NoRead
    /\ UNCHANGED <<server, filtered, cursor, init, poll, fetches, history>>

(* updateRow: an answer without the record, an error or a record no longer *)
(* on the page changes nothing; an answer that an answer with a later      *)
(* version has overtaken puts the older version back.                      *)
AnswerFetch(i) ==
    /\ fetches[i].version = Pending
    /\ fetches' = [fetches EXCEPT ![i].version = stored[fetches[i].row]]
    /\ UNCHANGED <<server, filtered, cursor, init, poll, reading, shown, history>>

FailFetch(i) ==
    /\ fetches[i].version = Pending
    /\ fetches' = [fetches EXCEPT ![i].version = 0]
    /\ missed' = missed \cup {fetches[i].row}
    /\ UNCHANGED <<server, filtered, cursor, init, poll, reading, shown, told>>

ShowFetch(i) ==
    LET f == fetches[i] IN
    /\ f.version # Pending
    /\ shown' = IF f.version # 0 /\ shown[f.row] # 0
                THEN [shown EXCEPT ![f.row] = f.version]
                ELSE shown
    /\ fetches' = RemoveAt(fetches, i)
    /\ missed' = IF f.version # 0 /\ f.version < shown[f.row]
                 THEN missed \cup {f.row}
                 ELSE missed
    /\ UNCHANGED <<server, filtered, cursor, init, poll, reading, told>>

-----------------------------------------------------------------------------
(* changeIntVerification.                                                  *)
SendPoll(p) ==
    /\ poll[p].pc = "idle"
    /\ poll' = [poll EXCEPT ![p] = [pc |-> "sent", cursor |-> cursor, rows |-> {}]]
    /\ UNCHANGED <<server, filtered, cursor, init, reading, fetches, shown, history>>

(* The server looks every 1.5 s for rows past the cursor and gives up after*)
(* 25 s, with none.                                                        *)
AnswerPoll(p) ==
    /\ poll[p].pc = "sent"
    /\ poll' = [poll EXCEPT ![p].pc = "answered",
                            ![p].rows = {c \in log : c.id > poll[p].cursor}]
    /\ UNCHANGED <<server, filtered, cursor, init, reading, fetches, shown, history>>

(* A query that fails is answered without rows.                            *)
FailPoll(p) ==
    /\ poll[p].pc = "sent"
    /\ poll' = [poll EXCEPT ![p].pc = "answered"]
    /\ UNCHANGED <<server, filtered, cursor, init, reading, fetches, shown, history>>

LastID(rows) == Max(IDs(rows))

FetchRows(updates) ==
    [i \in 1 .. Len(updates) |-> [row |-> updates[i].row, version |-> Pending]]

RefreshWithoutImports(rows) ==
    LET Of(op) == {c \in rows : c.operation = op} IN
    IF Of("insert") # {} \/ (Of("update") # {} /\ filtered)
    THEN Reload /\ UNCHANGED fetches
    ELSE /\ shown' = [r \in Records |->
                        IF \E c \in Of("delete") : c.row = r THEN 0 ELSE shown[r]]
         /\ fetches' = fetches \o FetchRows(SetToSeq(Of("update")))
         /\ UNCHANGED reading

Refresh(rows) ==
    LET Of(op) == {c \in rows : c.operation = op}
        mustReload == \/ Of("insert") \cup Of("import") # {}
                      \/ Of("update") # {} /\ filtered
    IN
    IF mustReload
    THEN Reload /\ UNCHANGED fetches
    ELSE /\ shown' = [r \in Records |->
                        IF \E c \in Of("delete") : c.row = r THEN 0 ELSE shown[r]]
         /\ fetches' = fetches \o FetchRows(SetToSeq(Of("update")))
         /\ UNCHANGED reading

HandleUnlessReading(p) ==
    LET rows == poll[p].rows IN
    /\ poll[p].pc = "answered"
    /\ poll' = [poll EXCEPT ![p] = PollIdle]
    /\ IF rows = {}
       THEN UNCHANGED <<cursor, init, reading, fetches, shown, passed, handled, missed>>
       ELSE /\ cursor' = LastID(rows)
            /\ init' = TRUE
            /\ UNCHANGED missed
            /\ IF ~init
               THEN /\ passed' = passed \cup IDs(rows)
                    /\ UNCHANGED <<reading, fetches, shown, handled>>
               ELSE IF reading.pc = "none"
               THEN /\ Refresh(rows)
                    /\ handled' = handled \cup IDs(rows)
                    /\ UNCHANGED passed
               ELSE UNCHANGED <<reading, fetches, shown, passed, handled>>
    /\ UNCHANGED <<server, filtered, opened, late, misled>>

(* The records an answer tells of while an older answer with them is on    *)
(* its way, which the page will show after all.                            *)
ReadBefore(rows) ==
    {r \in Records :
        /\ reading.pc = "answered" /\ reading.rows[r] # stored[r]
        /\ \E c \in rows : c.row \in {r, None}}

(* The first answer with rows only moves the cursor; the next ones refresh.*)
HandlePoll(p) ==
    LET rows == poll[p].rows IN
    /\ poll[p].pc = "answered"
    /\ poll' = [poll EXCEPT ![p] = PollIdle]
    /\ IF rows = {}
       THEN UNCHANGED <<cursor, init, reading, fetches, shown, passed, handled, missed>>
       ELSE /\ cursor' = LastID(rows)
            /\ init' = TRUE
            /\ IF init
               THEN /\ Refresh(rows)
                    /\ handled' = handled \cup IDs(rows)
                    /\ missed' = missed \cup ReadBefore(rows)
                    /\ UNCHANGED passed
               ELSE /\ passed' = passed \cup IDs(rows)
                    /\ UNCHANGED <<reading, fetches, shown, handled, missed>>
    /\ UNCHANGED <<server, filtered, opened, late, misled>>

-----------------------------------------------------------------------------
Write(w) ==
    \/ \E r \in Records : Add(w, r) \/ Modify(w, r) \/ Delete(w, r)
    \/ StartImport(w)
    \/ \E r \in Records : ImportRecord(w, r) \/ LinkRecord(w, r)
    \/ EndImport(w)
    \/ TakeID(w)
    \/ CommitChange(w)

Fetch ==
    \E i \in 1 .. Len(fetches) : AnswerFetch(i) \/ FailFetch(i) \/ ShowFetch(i)

Follow(p) == SendPoll(p) \/ AnswerPoll(p) \/ FailPoll(p) \/ HandlePoll(p)

FeedNext ==
    \/ \E w \in Writers : Write(w)
    \/ ReloadButton
    \/ AnswerRead \/ FailRead
    \/ ShowRead
    \/ Fetch
    \/ \E p \in Polls : Follow(p)

FeedSpec == FeedInit /\ [][FeedNext]_feedVars

(* The server answers polls, the query on the log does not fail for ever,  *)
(* and the page takes what it is answered and polls again.                 *)
FeedFairness ==
    \A p \in Polls : WF_feedVars(Follow(p)) /\ SF_feedVars(AnswerPoll(p))

FeedFairSpec == FeedSpec /\ FeedFairness

-----------------------------------------------------------------------------
(* The cursor never runs past a change, but for one that appears in the log*)
(* when it is past: every other change up to it, and up to the cursor of   *)
(* any poll in flight, has been taken from some answer, even though answers*)
(* overtake each other and move the cursor backwards.                      *)
Reached == passed \cup handled

NoChangeSkipped ==
    \A c \in log : c.id \notin late =>
        /\ c.id <= cursor => c.id \in Reached
        /\ \A p \in Polls : poll[p].pc # "idle" /\ c.id <= poll[p].cursor
                                => c.id \in Reached

(* A change is logged after the write it announces: a page that is told of *)
(* it and asks for the record never gets an older one.                     *)
LoggedIsWritten ==
    \A c \in log : c.row # None => c.version <= version[c.row]

(* Every logged change reaches the page, but for one that came late.       *)
EveryChangeReached ==
    \A n \in 1 .. MaxID : n \in IDs(log) ~> n \in Reached \cup late

(* Nothing is being written, polled or read, and the cursor is at the end  *)
(* of the log.                                                             *)
Quiet ==
    /\ \A w \in Writers : Writing(w, "idle")
    /\ \A c \in log : c.id <= cursor
    /\ reading.pc = "none" /\ fetches = << >>

(* Once all is quiet, a page that has been told of every change since it   *)
(* was opened shows the records there are, each in its last version, except*)
(* those the log is wrong about, and those of which, since the last read of*)
(* the whole table, a read failed or was overtaken.                        *)
PageConverges ==
    Quiet /\ passed \subseteq opened
        => \A r \in Records \ (misled \cup missed) : shown[r] = stored[r]

-----------------------------------------------------------------------------
(* The inductive invariant of the proofs (ServerProof).                    *)

(* A change tells of a record unless it is an import, and carries no later *)
(* version than the record has; a record that is there, shown or asked for *)
(* has been written, and one that was deleted is not written again.        *)
Tells(w) == writer[w].pc \in {"log", "commit"}

Written ==
    /\ \A w \in Writers :
        /\ ~Writing(w, "idle") => (writer[w].operation = "import" <=> writer[w].row = None)
        /\ Writing(w, "import") => writer[w].operation = "import"
        /\ Tells(w) /\ writer[w].row # None =>
            /\ writer[w].version <= version[writer[w].row]
            /\ writer[w].operation # "insert" => version[writer[w].row] > 0
    /\ \A c \in log :
        /\ (c.operation = "import" <=> c.row = None)
        /\ c.row # None => /\ c.version <= version[c.row]
                           /\ c.operation # "insert" => version[c.row] > 0
    /\ \A r \in Records :
        /\ stored[r] \in {0, version[r]}
        /\ {stored[r], shown[r], reading.rows[r]} # {0} => version[r] > 0
    /\ \A i \in 1 .. Len(fetches) :
        /\ version[fetches[i].row] > 0
        /\ fetches[i].version <= version[fetches[i].row]

(* Identifiers of changes are given out once.                              *)
IDsApart ==
    /\ \A c \in log : c.id < nextID
    /\ \A c, d \in log : c.id = d.id => c = d
    /\ \A w \in Writers : Writing(w, "commit") =>
        /\ writer[w].id \in 1 .. nextID - 1 /\ writer[w].id \notin IDs(log)
        /\ \A v \in Writers \ {w} : Writing(v, "commit") => writer[v].id # writer[w].id
    /\ Reached \cup opened \cup late \subseteq IDs(log)

(* Every cursor is at a change; an answer holds every change between its   *)
(* poll's cursor and its end, but those that came late, of whose records   *)
(* the log is wrong.                                                       *)
AnswersWhole ==
    /\ cursor \in {0} \cup IDs(log)
    /\ \A p \in Polls :
        /\ poll[p].cursor \in {0} \cup IDs(log)
        /\ \A c \in log, d \in poll[p].rows :
            poll[p].cursor < c.id /\ c.id < d.id
                => c \in poll[p].rows \/ c.id \in late

LateMisleads ==
    \A c \in log : c.id \in late =>
        IF c.row = None THEN misled = Records ELSE c.row \in misled

(* What is told of record r and has not reached the page: by a thread that *)
(* will log it, or in the log.                                             *)
Untold(c) == c.id \notin handled \cup opened

WillInsert(r) ==
    \/ \E w \in Writers : /\ ~Writing(w, "idle")
                          /\ \/ writer[w].operation = "import"
                             \/ writer[w].operation = "insert" /\ writer[w].row = r
    \/ \E c \in log : /\ Untold(c)
                      /\ c.operation = "import" \/ (c.operation = "insert" /\ c.row = r)

WillTell(op, r) ==
    \/ \E w \in Writers : /\ ~Writing(w, "idle")
                          /\ writer[w].operation = op /\ writer[w].row = r
    \/ \E c \in log : Untold(c) /\ c.operation = op /\ c.row = r

(* A page that holds version v of r is right about whether r exists, and   *)
(* about its version, or will be told.                                     *)
RightOrTold(r, v) ==
    /\ v = 0 /\ stored[r] # 0 => WillInsert(r)
    /\ v # 0 /\ stored[r] = 0 => WillTell("delete", r)

LatestOrTold(r, v) == v # 0 /\ stored[r] \notin {0, v} => WillTell("update", r)

DeletedIsGone(c) == c.operation = "delete" /\ c.row \notin misled => stored[c.row] = 0

(* A read of the record is in flight that will put it right.               *)
Coming(r) ==
    \E i \in 1 .. Len(fetches) :
        /\ fetches[i].row = r
        /\ \/ fetches[i].version = Pending
           \/ fetches[i].version # 0 /\ LatestOrTold(r, fetches[i].version)

PageIsTold ==
    /\ \A w \in Writers : ~Writing(w, "idle") => DeletedIsGone(writer[w])
    /\ \A c \in log : DeletedIsGone(c)
    /\ \A r \in Records \ (misled \cup missed) :
        /\ reading.pc = "none" =>
            RightOrTold(r, shown[r]) /\ (LatestOrTold(r, shown[r]) \/ Coming(r))
        /\ reading.pc = "answered" =>
            RightOrTold(r, reading.rows[r]) /\ LatestOrTold(r, reading.rows[r])

FeedInv ==
    /\ FeedTypeOK
    /\ Written
    /\ IDsApart
    /\ AnswersWhole
    /\ NoChangeSkipped
    /\ LateMisleads
    /\ PageIsTold

=============================================================================
