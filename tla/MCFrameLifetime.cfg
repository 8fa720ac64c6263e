\* Two breaks with stacks of up to two frames, two mirrors kept across them.
CONSTANTS
    Fields = {receiver, func}
    DetailValues = {v1, v2}
    MaxDepth = 2
    MaxBreaks = 2
    MaxMirrors = 2
    None = None
    Thrown = Thrown

SPECIFICATION Spec

INVARIANT TypeOK
PROPERTY FrameDataCurrent

\* After the last bounded break the VM runs on and nothing more happens.
CHECK_DEADLOCK FALSE
