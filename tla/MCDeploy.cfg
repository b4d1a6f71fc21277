\* Two deployments from one wallet, each with or without metadata.
SPECIFICATION DeploySpec
CONSTANTS
    Job = {j1, j2}
    Wallet = {w1}
    NonceBound = 0
SYMMETRY Symmetry
INVARIANTS DeployTypeOK UnreportedStatusIsTrue AddressIsOfReceipt MetadataIsOfDeployed SuccessIsComplete
