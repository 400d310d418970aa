SPECIFICATION FairSpec
CONSTANTS
    r1 = r1
    r2 = r2
    r3 = r3
    Request = {r1, r2, r3}
    Scalar = Scalar
    Inputs <- PairedInputs
    FixedRows = 0
    MaxBatchSize = 2
    MaxStarts = 2
INVARIANTS TypeOK AnswersAreOwn NobodyStranded
PROPERTIES EveryCallReturns ContractSpec
