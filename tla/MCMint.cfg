\* Two commands of one or two tokens, two wallets, one token of a stranger.
SPECIFICATION MintSpec
CONSTANTS
    Job = {j1, j2}
    Wallet = {w1, w2}
    NonceBound = 0
    MaxQty = 2
    SupplyBound = 1
SYMMETRY Symmetry
INVARIANTS MintTypeOK MetadataFollowsMint IdsAreMinted LookupIsRight
