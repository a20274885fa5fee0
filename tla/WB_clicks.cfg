SPECIFICATION FairSpec
CONSTANTS
    Buttons = {b1, b2}
    Bridges = {"speaks", "refuses", "silent"}
    MaxClicks = 4
CHECK_DEADLOCK FALSE
INVARIANTS
    TypeOK
    AnswersFindTheirClick
    HandshakeFirst
    ControlsAreReal
PROPERTIES
    EveryClickEnds
