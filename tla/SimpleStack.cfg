CONSTANTS
    MaxWords = 24
SPECIFICATION Spec
INVARIANTS
    WordsInOrder
    VacanciesTellTheTruth
PROPERTIES
    ImplementsPopStack
CHECK_DEADLOCK FALSE
