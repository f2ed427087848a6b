\* Two requests at a time, wherever requests overlap; two provider keys.
SPECIFICATION SuiteSpec
CONSTANTS
    k1 = k1
    Keys = {k1, k2}
    NoKey = NoKey
    Deployed = k2
    Unknown = Unknown
    Models = {"m1", "m2"}
    Catalog = {"m1"}
    Reach <- MayBeEmpty
    Ops = {r1, r2}
    MaxManifest = 1
    Handlers = {r1, r2}
    MaxFailures = 1
    MaxChanges = 1
    Users = {"u", "v"}
    Admins = {"v"}
    Scopes = {"top"}
    Urls = {"i"}
    Issues = {"i"}
    Legacy <- Held
    MaxId = 3
    MaxRestarts = 1
    ClientIds = {"k"}
    Pairs <- Pair
    Forms <- Form
    Configs <- Config
    Lifetime = 3
    Margin = 2
    MaxClock = 3
    Targets = {"c1", "c2"}
    Readable <- Alike
    Entries <- Entry
    Vocabulary = {"x", "unknown"}
    Others = {"old"}
    Threshold = 1
    MaxTicks = 1
    Names <- TwoTests
    Items = {"i1", "i3"}
    Nameless = {"i3"}
    Exact <- Equal
    Suffix <- Ending
    Classes = {"PRODUCT BUG", "UNKNOWN"}
    MaxPuts = 1
CHECK_DEADLOCK FALSE
SYMMETRY Symmetry
INVARIANTS
    TypesOK
    ListingIsTheKeys
    OutsideIsTrue
    
