\* Three concurrent calls of one wallet and a foreign transaction.
SPECIFICATION Spec
CONSTANTS
    Job = {j1, j2, j3}
    Wallet = {w1}
    NonceBound = 1
SYMMETRY Symmetry
INVARIANTS TypeOK WriteAhead ProcessedIsMined AnswerIsTrue OneWinnerPerNonce
PROPERTIES NoSecondThoughts KeepsPromise
