SPECIFICATION RaceSpec
CONSTANTS
    ClusterQueues = {"dev", "prod"}
    Flavors <- MCFlavors
    Resources = {"cpu", "gpu"}
    Quota <- MCQuota
    Workloads = {"ml", "ml2"}
    Request <- MCRequest
    PodCount <- MCPodCount
    Priority <- MCPriority
    Name <- MCName
    RouteOf <- MCRouteOf
    Passes = {"p1", "p2"}
    FinishOnce = TRUE
INVARIANT RaceRespectsQuota
