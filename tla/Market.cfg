SPECIFICATION MarketSpec
CONSTANTS
    Parts = {"escrow", "book", "ledger", "token_escrow", "buying", "providing", "negotiation", "budget", "chain", "proofs", "values"}
    job1 = job1
    job2 = job2
    alice = alice
    bob = bob
    carol = carol
    o1 = o1
    f1 = f1
    f2 = f2
    h100 = h100
    a100 = a100
    n1 = n1
    n2 = n2
    v1 = v1
    v2 = v2
    c1 = c1
    c2 = c2
    c3 = c3
    d1 = d1
    d2 = d2
    t1 = t1
    t2 = t2
    e1 = e1
    e2 = e2
    Escrows <- MCEscrows
    Parties <- MCParties
    Buyer <- MCBuyer
    Provider <- MCProvider
    SharedWallet = FALSE
    OrderIds = {o1}
    OfferIds = {f1, f2}
    Models = {h100, a100}
    GpuCounts = {1, 2}
    Hours = {1, 2}
    Prices = {1, 10, 20}
    MaxPrices = {10, 20}
    Reputations = {1, 3}
    SECONDS_PER_HOUR = 3
    U64 = 32
    U32 = 2
    Nodes = {}
    Node = n1
    Validity = {}
    Limits <- NoLimits
    MaxEntries = 0
    Nonces = {c1, c2, c3}
    Verifiers = {v1, v2}
    Verifier = v1
    MaxAge = 1
    MaxSize = 2
    MaxAccepted = 5
    Data = {d1, d2}
    MaxCheckpoints = 2
    MaxAttestTime = 2
    Timeouts = {0, 1}
    MaxTime = 2
INVARIANTS
    SettledInFull
    ChoicesUndominated
    ReadsBack
    AttestationHolds
    BooksBalance
PROPERTIES
    EscrowsPayOnce
    FundsComeOut
    StepsLegal
CHECK_DEADLOCK FALSE
