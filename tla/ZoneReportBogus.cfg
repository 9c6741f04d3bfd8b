\* An unsigned zone, its DS lookup lost and another one failed.
SPECIFICATION Spec
CONSTANTS
    RecordSets <- MCRecordSets
    MaxLost = 2
INVARIANT NeverBogusWithoutDS
