SPECIFICATION ComponentsSpec
CONSTANTS
    w1 = w1
    i1 = i1
    v1 = v1
    f1 = f1
    Domains <- MCDomains
    Wallets = {w1}
    Programs = {p1}
    Isms = {i1, i2}
    Validators = {v1, f1}
    Faulty = {f1}
    UniqueKeys = {u1, u2}
    Bodies = {1}
    BodyBytes <- MCBodyBytes
    MaxBodyBytes = 2
    Configs <- MCConfigs
    MaxDispatched <- MCMaxDispatched
    MaxAdmin = 3
    Deployed = {1}
    Deployer = w1
    DeployedIsm = i1
    DeployedConfig <- MCDeployedConfig
    None = None
    Nobody = Nobody
    IgpDomains = {1}
    Destinations = {2, 3}
    Igps = {a1}
    OverheadIgps = {o1}
    Payers = {y1, y2}
    PaymentKeys = {k1, k2}
    GasAmounts = {9}
    Oracles <- MCOracles
    Overheads = {6}
    Scale = 2
    SolDecimals = 0
    MaxU64 = 10
    Rent <- MCRent
    NoAccount = NoAccount
    Announcers = {n1, n2}
    Locations = {"s3", "local"}
    MaxMoves = 4
    Applications <- MCApplications
    Payer = "payer"
    DefaultIgp = "overhead"
    FundingAmount = 1
    GasDefault <- MCGasDefault
    MaxRuns = 3
    LocalDomain = 1
    RemoteDomains = {2, 3}
    OracleFiles <- MCOracleFiles
    OverheadFiles <- MCOverheadFiles
    DefaultOracle = 0
    IsmFiles <- MCIsmFiles
    Contexts = {"default", "rc"}
    MaxKeys = 6
    MaxCommands = 3
    Nodes = {a, b}
    AdapterHeight = 3
    AdapterLag = 1
    CountAt <- MCCountAt
    AdapterOps <- MCAdapterOps
    ChainTxs <- MCChainTxs
    PaginationLimit = 2
    RequestAttempts = 2
    TREE_DEPTH = 3
    LeafValues <- MCLeafValues
    MaxIngests = 10
    RawConfigs <- MCRawConfigs
    ConfigMessages <- MCConfigMessages
    v2 = v2
    Honest = {v1, v2}
    FaultyValidators = {f1}
    MaxLeaves = 2
    ValidatorSet <- MCValidatorSet
    Threshold = 2
    Announcements <- MCAnnouncements
    AllowLocal = FALSE
    MessageIndex = 0
    Roots = {"mr", "ag", "cc"}
    Lookups = {"noRevert", "noData", "badData", "urls"}
    CcipAnswers <- MCAnswers
    Ism <- MCIsm
    MaxDepth = 3
    Gas <- MCGas
    ProviderCount = 2
    RpcCallers = {a, b}
    FailingCallers = {a}
    ProviderMaxHeight = 1
    MaxRequests = 2
INVARIANTS
    RecordsExact
    NoForgedDelivery
    IgpSolvent
    DeployConverges
    CoreSound
    AccountsAccepted
    AdaptersSound
    IncrementalTreeSound
    LogsSound
    AccumulatorsAgree
    SettingsSound
    MetadataSound
    FallbackSound
CHECK_DEADLOCK FALSE
