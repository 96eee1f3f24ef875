CONSTANTS
    d1 = d1
    d2 = d2
    d3 = d3
    Devs <- MCDevs
SPECIFICATION Spec
INVARIANT OneRelayPerDevice
