SPECIFICATION Spec
CONSTANTS
    alpha = alpha
    beta = beta
    g1 = g1
    g2 = g2
    t1 = t1
    t2 = t2
    Names = {alpha, beta}
    Ports = {3081, 3082}
    BasePort = 3081
    Gates = {g1}
    GatePorts = {3090, 3091}
    Tabs = {t1, t2}
    None = None
    Mishaps = {}
SYMMETRY MCSymmetry
INVARIANTS
    RefusedOnlyWithout
PROPERTIES
    OwnInstance
    UpgradesFindTheirWay
