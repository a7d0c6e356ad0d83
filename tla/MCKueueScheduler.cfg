SPECIFICATION FairSpec
CONSTANTS
    ClusterQueues = {"dev", "prod"}
    Flavors <- MCFlavors
    Resources = {"cpu", "gpu"}
    Quota <- MCQuota
    Workloads = {"big", "ml", "ml2", "small", "web"}
    Request <- MCRequest
    PodCount <- MCPodCount
    Priority <- MCPriority
    Name <- MCName
    RouteOf <- MCRouteOf
    Passes = {"p1"}
    FinishOnce = TRUE
INVARIANTS TypeOK QuotaRespected UsedIsGranted InOnePlace
PROPERTIES AdmitInOrder PassIsMaximal PassEnds ImplementsLedger
