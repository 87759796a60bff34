SPECIFICATION OperatorSpec
CONSTANTS
    w1 = w1
    w2 = w2
    aPlan = aPlan
    otherPlan = otherPlan
    sa = sa
    aRole = aRole
    cm = cm
    d1 = d1
    d2 = d2
    s1 = s1
    s2 = s2
    t1 = t1
    t2 = t2
    None = None
    Workers <- MCWorkers
    Plans <- MCEnginePlans
    Identities <- MCIdentities
    Digests <- MCDigests
    Stamps <- MCStamps
    Times <- MCTimes
    Resources <- MCResources
    WaveCount <- MCWaveCount
    Verifiers = {v1, v2}
    Cases <- MCCases
    Names <- MCNames
    Refresh <- MCRefresh
    When <- MCWhen
    minimumTrustSequence = 2
    Missing = Missing
    NoValue = NoValue
    PlansGiven <- MCPlans
    Baseline = 2
INVARIANTS
    ReceiptNamesItsRelease
    QuietVerdictExact
    AcceptedIsSound
    StoreResumable
    LiveIsKnown
    OutcomesAgree
PROPERTIES
    ImplementsLedger
    Converges
CHECK_DEADLOCK FALSE
