\* stop() while the node is started: the PoS join waits on a loop that does
\* not test m_state_pos.
CONSTANTS
    MineCpu = TRUE
    MaxHeight = 1
    MaxExtraNonce = 2
SPECIFICATION Spec
PROPERTY
    PosStopReturns
