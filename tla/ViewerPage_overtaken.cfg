SPECIFICATION Spec
CONSTANTS
    MaxCaptures = 3
    MaxInFlight = 2
    HasToolbar = TRUE
PROPERTY
    LoadedCapturesRemain
