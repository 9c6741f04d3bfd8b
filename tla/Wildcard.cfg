\* Three random names, every kind of zone, any lookup lost.
SPECIFICATION WildSpec
CONSTANTS
    First = n1
    Rest = {n2, n3}
INVARIANTS
    VerdictSound
    AnswersDecide
    WWWViaWildcardSound
