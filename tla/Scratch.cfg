SPECIFICATION Spec
CONSTANTS
    ALIGNMENT = 4
    SIZE_MAX = 31
    Header = 8
    MaxFrames = 3
    MaxCheckpoints = 2
    MaxObjects = 4
INVARIANTS
    FramesSound
    MaxAllocationHonoured
