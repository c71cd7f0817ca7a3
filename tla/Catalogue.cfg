CONSTANTS
    SearchIndex <- MCSearchIndex
    ModelAnswers <- MCModelAnswers
    Original <- MCOriginal
    Menus <- MCMenus
    MaxChanges = 1
    MaxEdits = 2
    MaxRequests = 3

SPECIFICATION Spec
INVARIANTS RunsExact AnswersExact AdmittedChain
CHECK_DEADLOCK FALSE
