\* Three messages, one of them unsupported and one a read; two jobs, each a
\* delivery or a command over Redis; a foreign transaction.
SPECIFICATION SqsSpec
CONSTANTS
    Job = {j1, j2}
    Wallet = {w1}
    NonceBound = 1
    Message = {m1, m2, m3}
    Unsupported = {m2}
    View = {m3}
    None = None
INVARIANTS SqsTypeOK DeletedWasExecuted
PROPERTIES DeletedIsFinal ConsumerMovesOn CallEnds
