CONSTANTS
    BlockMax = 4
    MaskBits = 16
    ByteVals = {0, 1, 2}
    MaxLen = 6
    JunkVals = {0}
SPECIFICATION Spec
INVARIANTS
    CobsRoundTrip
    CobsNoZeroBytes
    MessageRoundTrip
    DeviceWriteLayout
    DeviceWriteFitsAlloc
