SPECIFICATION Spec
CONSTANTS
    Packets <- Padded
    Anything <- Noise
INVARIANT InStep
