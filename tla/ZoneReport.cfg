\* Every kind of name and resolver, two answers lost.
SPECIFICATION Spec
CONSTANTS
    RecordSets <- MCRecordSets
    MaxLost = 2
INVARIANTS
    StateSound
    AnswersDecide
    KindSound
    OkMeansHeard
    RegistryTold
