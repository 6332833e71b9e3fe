CONSTANTS
    Workers = {w1}
    Monitor = mon
    None = none
    MaxStarts = 2
    MaxEpoch = 2
    StopFaults = FALSE
    PluginID = "p"
    Static <- MCStatic
    Refresh <- MCRefresh
SPECIFICATION Spec
PROPERTY
    PriorBundlesStayInvalid
