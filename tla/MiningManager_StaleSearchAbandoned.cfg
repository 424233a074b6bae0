\* One block past genesis lets the tip move between create_new and the
\* read of the best index.
CONSTANTS
    MineCpu = TRUE
    MaxHeight = 1
    MaxExtraNonce = 2
SPECIFICATION Spec
PROPERTY
    StaleSearchAbandoned
