SPECIFICATION PairSpec
CONSTANTS
    Agents = {"relayer", "apiserver"}
    NumMessages = 2
    Requested = 9
    PairIsms <- MCIsms
    VerifyGas <- MCVerifyGas
    Offchain = {}
    Whitelist <- MCWhite
    Blacklist <- MCList
    PairPolicies <- MCPolicies
    Paid <- MCPaid
    TxGas = 2
    PairGasLimit = 2
    NoContract = {}
    Synced = 1
    MaxRequests = 1
    MaxPairFaults = 1
INVARIANTS
    AgentsSound
PROPERTIES
    AgentsCommit
CHECK_DEADLOCK FALSE
