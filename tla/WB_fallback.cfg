SPECIFICATION FairSpec
CONSTANTS
    Buttons = {b1}
    Bridges = {"refuses"}
    MaxClicks = 1
CHECK_DEADLOCK FALSE
PROPERTIES
    FallsBack
