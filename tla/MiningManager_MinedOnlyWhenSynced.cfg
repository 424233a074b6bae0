\* The node stops while a loop is in the sync back-off.
CONSTANTS
    MineCpu = TRUE
    MaxHeight = 1
    MaxExtraNonce = 2
SPECIFICATION Spec
PROPERTY
    MinedOnlyWhenSynced
