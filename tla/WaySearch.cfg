\* Five ways: every mask of a five-way domain, every request from -1 to 7.
CONSTANTS
    NumWays = 5
    MaxRequest = 7
SPECIFICATION Spec
INVARIANTS
    TypeOK
    AnswersFirstFit
PROPERTY Terminates
\* The search stops when it has answered.
CHECK_DEADLOCK FALSE
