CONSTANTS
    MaxRows = 4
    MaxPages = 3
    Budgets = {1, 2, 3}
    Tops = {1, 2, 4}
SPECIFICATION Spec
INVARIANTS
    CappedIsExact
    AnswerIsPrefix
PROPERTY
    WalkIsOneRead
