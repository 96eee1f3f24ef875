CONSTANTS
    BlockMax = 255
    MaskBits = 16
    ByteVals = {0, 1, 2}
    MaxLen = 3
    JunkVals = {0, 1}
SPECIFICATION Spec
INVARIANT WireRoundTrip
