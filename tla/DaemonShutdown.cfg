SPECIFICATION FairSpec
CONSTANTS
    Requests = {r1, r2}
    Daemon = Daemon
    MaxSignals = 3
INVARIANTS
    TypeOK
    AnsweredIsLogged
    NothingAfterShutdown
    GracefulCutsNobody
PROPERTIES
    TermObeyed
    HangupServed
CHECK_DEADLOCK FALSE
