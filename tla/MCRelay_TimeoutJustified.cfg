CONSTANTS
    NumInterfaces = 3
    DeviceTimeout = 2
    HbReqFreq = 1
    Epoch = 2
    MaxTime = 1
    MaxMsgs = 2
SPECIFICATION Spec
INVARIANT TimeoutJustified
