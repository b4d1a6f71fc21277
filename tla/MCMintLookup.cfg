\* Two commands of one token, from one wallet or two.
SPECIFICATION MintSpec
CONSTANTS
    Job = {j1, j2}
    Wallet = {w1, w2}
    NonceBound = 0
    MaxQty = 1
    SupplyBound = 0
SYMMETRY Symmetry
INVARIANTS TokenServedItsOwn
