SPECIFICATION SystemSpec
CONSTANTS
    v1 = v1
    w1 = w1
    w2 = w2
    warp = warp
    hello1 = hello1
    a1 = a1
    o1 = o1
    Domains <- MCDomains
    Wallets = {w1, w2}
    Programs = {warp, hello1}
    Isms = {i1, i2}
    i2 = i2
    Admins = {w1}
    Strangers = {w2}
    ForgedAmount = 20
    RouteIsms <- MCRouteIsms
    Validators = {v1}
    Faulty = {}
    UniqueKeys = {u1, u2}
    Bodies <- MCBodies
    BodyBytes <- MCBodyBytes
    MaxBodyBytes = 2
    Configs <- MCConfigs
    Deployed = {1, 2}
    Deployer = w1
    DeployedIsm = i1
    DeployedConfig <- MCDeployedConfig
    MaxDispatched <- MCMaxDispatched
    MaxAdmin = 1
    None = None
    Nobody = Nobody
    IgpDomains = {1}
    Destinations <- MCDomains
    Igps = {a1}
    OverheadIgps = {o1}
    Payers = {w1}
    PaymentKeys = {}
    GasAmounts = {}
    Oracles = {}
    Overheads = {}
    Scale = 2
    SolDecimals = 0
    MaxU64 = 1000
    Rent <- MCRent
    NoAccount = NoAccount
    Gas = {10}
    Token = warp
    Decimals <- MCDecimals
    RemoteDecimals = 1
    Amounts <- MCAmounts
    RentMin = 1
    AtaRent = 1
    MaxAtaPayer = 2
    Hello = hello1
    HandleGasAmount = 1
    RouteHome = 1
    RouteHomes <- MCRouteHomes
    HomePaymaster <- MCHomePaymaster
    HelloHome = 2
    RouteIgps <- MCRouteIgps
    PluginChoices <- MCPluginChoices
    Endowment <- MCEndowment
    HomeIgp <- MCHomeIgp
    HomeOverhead <- MCHomeOverhead
    Greeting = "hello"
    ChainLogs <- MCChainLogs
    ChainHeight = 3
    ScrapeFrom = 1
    ScrapeChunk = 1
    MaxScraperStops = 1
    MaxOmissions = 1
SYMMETRY MCSymmetry
INVARIANTS
    ScraperSound
    Backing
    RouteAccounts
PROPERTIES
    PaidWithDispatch
CHECK_DEADLOCK FALSE
