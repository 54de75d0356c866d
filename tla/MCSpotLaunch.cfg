SPECIFICATION FairSpec
CONSTANTS
    i1 = i1
    i2 = i2
    Invocations <- MCInvocations
    Pools = 2
    ForceOnDemand = FALSE
CHECK_DEADLOCK FALSE
INVARIANTS
    OneBoxPerKey
    OneBoxPerDelivery
    ReplayIsTruthful
    OnDemandIsLastResort
PROPERTY
    Answers
