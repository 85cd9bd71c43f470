SPECIFICATION Spec
CONSTANTS
    Packets <- AllPackets
    Anything <- Noise
INVARIANTS
    InStep
    OpcOfData
    TcapIsData
    WalkIsParameters
PROPERTIES
    Returns
