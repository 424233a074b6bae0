\* Two extra nonces let a loop increment without the reset it is owed.
CONSTANTS
    MineCpu = TRUE
    MaxHeight = 1
    MaxExtraNonce = 2
SPECIFICATION Spec
PROPERTY
    ExtraNonceResetOnNewParent
