SPECIFICATION SchemaSpec
CONSTANTS
    users = users
    databasesTable = databasesTable
    databasesUsers = databasesUsers
    schemaPatches = schemaPatches
    tables = tables
    userKey = userKey
    databaseKey = databaseKey
    p1 = p1
    p2 = p2
    Runs = {r1, r2}
    Statements <- StatementList
    Needs <- NeedsOf
    Malformed = {tables}
    UsersTable = users
    DatabasesTable = databasesTable
    MembersTable = databasesUsers
    PatchesTable = schemaPatches
    UserKey = userKey
    DatabaseKey = databaseKey
    Ids = {i1, i2}
    Patches <- PatchList
    Repeatable = {p1}
    Most = 2
    Failures = 1
    Null = Null
SYMMETRY Symmetry
INVARIANTS
    SchemaTypeOK
    OneRunSuffices
    DanglingOnlyAfterFailure
    PatchedOnce
