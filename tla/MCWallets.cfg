\* Two wallets, for production or test, and a transaction of a client.
SPECIFICATION Spec
CONSTANTS
    Create = {c1, c2}
    Send = {s1}
    PayloadNonce = {0, 1, 2}
    None = None
INVARIANTS WalletsTypeOK AnsweredWalletIsUsable ProductionKeysAreOwn OneTransferPerNonce
PROPERTIES WalletCallEnds
