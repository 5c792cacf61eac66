SPECIFICATION CatalogSpec
CONSTANTS
    p1 = p1
    p2 = p2
    m1 = m1
    m2 = m2
    f1 = f1
    t1 = t1
    t2 = t2
    size = size
    name = name
    Projects = {p1, p2}
    Missions = {m1, m2}
    Names = {name}
    Types = {size}
    Files = {f1}
    Triggers = {t1, t2}
    Direct = {t2}
    Versions = {1, 2}
    None = None
    Requests = {r1, r2}
    MaxRequests = 3
    Catalogs <- MCCatalogs
    TriggerConfigs <- MCConfigs
    TPM = 3
    MaxClock = 6
    Dates = {3}
SYMMETRY MCSymmetry
INVARIANTS
    CatalogTypeOK
    HierarchyIntact
    FiresOnce
    DueDatesFire
PROPERTIES
    RequiredKept
CHECK_DEADLOCK FALSE
