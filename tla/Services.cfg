\* Two relays whose passes may outlive their leases, the oldest row a poison
\* one; two sign-ins, two pods, two restarts; three filings polled by two jobs.
SPECIFICATION FairServices
CONSTANTS
    Events = {1, 2, 3}
    Relays = {r1, r2}
    Subscribers = 2
    BatchLimit = 2
    LeaseTicks = 1
    Poison = {1}
    MaxFaults = 1
    MaxLogins = 2
    StateTTL = 1
    LastTick = 2
    Deployments = {api, mcp}
    MaxRestarts = 2
    Filings = 3
    Limit = 2
    Jobs = {j1, j2}
    MaxBackfills = 1
    MaxAborts = 1
INVARIANTS
    ServicesTypeOK
    AtLeastOnce
    FirstDeliveryAlone
    OneHolder
    OnlyFaultsRepeat
    RolledPodHasToken
    EventIffStored
    AnnouncedOnce
PROPERTIES
    ImplementsLog
    PassesEnd
    AcceptedOnceInTime
    SignedOutPodRecovers
    EveryFilingStored
CHECK_DEADLOCK FALSE
