SPECIFICATION ArnSpec
CONSTANTS
    Tasks = {t1, t2, t3}
    AuthMethods = {"social", "idc", "external_idp"}
    Arns = {"east", "west"}
SYMMETRY TaskSymmetry
INVARIANTS
    UnsavedArnIsOwed
    ProbeFlagHasTask
