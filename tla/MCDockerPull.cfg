\* One docker pull, of an image without layers.
SPECIFICATION Spec
CONSTANTS
    n1 = n1
    n2 = n2
    n3 = n3
    la = la
    lb = lb
    k1 = k1
    k2 = k2
    m1 = m1
    m2 = m2
    m3 = m3
    m4 = m4
    Names = {n1, n2, n3}
    Layers = {la, lb}
    Configs = {k1, k2}
    Manifests = {m1, m2, m3, m4}
    Index = {m3}
    ConfigOf <- MCConfigOf
    LayersOf <- MCLayersOf
    Served <- MCServed
    Guarded = {n3}
    Pullers = {p1}
    Asked <- MCDockerAsked
    Updaters = {}
    None = None
INVARIANTS
    DockerPullStores
CHECK_DEADLOCK FALSE
