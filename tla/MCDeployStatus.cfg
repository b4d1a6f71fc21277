\* One deployment whose row's status clients write.
SPECIFICATION DeploySpec
CONSTANTS
    Job = {j1}
    Wallet = {w1}
    NonceBound = 0
PROPERTIES StatusByReceipt
