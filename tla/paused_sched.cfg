SPECIFICATION Spec
CONSTANTS
    NPROC = 3
    HZ = 2
    Seconds <- MCSeconds
    Width = 16
    MaxTicks = 2
    MaxPid = 3
    Nobody = Nobody
PROPERTIES ChoiceIsRight NobodyIsForgotten
