SPECIFICATION Spec
CONSTANTS
    U64 = 5
    U128 = 64
    MICROS = 2
    TERA = 2
    GIGABYTE_MONTH = 2
    GIGABYTE = 2
    u1 = u1
    p1 = p1
    p2 = p2
    r1 = r1
    s1 = s1
    s2 = s2
    User = {u1}
    Provider = {p1, p2}
    Region = {r1}
    Stack = {s1, s2}
    Signer = {k1}
    Authorizer = {a1}
    Seed = {1, 2}
    ProviderOf <- MCProviderOf
    UserOf <- MCUserOf
    RegionOf <- MCRegionOf
    Rates <- MCRates
    Usage <- MCUsage
    NoReport = NoReport
    MaxTokens = 3
    MaxDeposit = 1
    MaxRevision = 2
INVARIANTS
    ServedByAuthorizedProviders
    EscrowBooksBalance
CHECK_DEADLOCK FALSE
