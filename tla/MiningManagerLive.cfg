\* Both modes mined on a fixed tip: whether the threads leave loop() on
\* shutdown does not depend on the tip moving, and a fixed tip keeps the
\* fair-cycle search small.
CONSTANTS
    MineCpu = TRUE
    MaxHeight = 0
    MaxExtraNonce = 1
SPECIFICATION Spec
PROPERTIES
    StopCompletesOnNodeStop
