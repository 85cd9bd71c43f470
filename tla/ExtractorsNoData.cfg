SPECIFICATION Spec
CONSTANTS
    Packets <- NoData
    Anything <- Noise
INVARIANT OpcOfData
