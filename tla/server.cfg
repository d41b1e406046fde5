\* One key is made and used, two requests use the seeded one; one connection.
CONSTANTS
    admin = admin
    make = make
    ask = ask
    show = show
    look = look
    Requests = {make, ask, show, look}
    InitialKeys = {admin}
    Admins = {admin}
    Kind <- MCKind
    Key <- MCKey
    MaxConns = 1
    Grace = 1

SPECIFICATION FairSpec
INVARIANTS TypeOK OnlyLiveKeysAct KeysHonoured DrainedAnswered
PROPERTIES PoolServes LogGoroutinesEnd ShutdownCompletes
CHECK_DEADLOCK FALSE
