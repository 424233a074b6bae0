\* Proof-of-Work and Proof-of-Stake both mined; one block past genesis lets
\* the tip move under a build, a search and a submission.
CONSTANTS
    MineCpu = TRUE
    MaxHeight = 1
    MaxExtraNonce = 1
SPECIFICATION Spec
INVARIANTS
    HashRateZeroWhenStopped
PROPERTIES
    MiningLifecycleSpec
