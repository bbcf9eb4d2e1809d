SPECIFICATION Spec
CONSTANTS
    Letters = {"c", "s", "M", "g", "D", "k"}
    MaxCommands = 3
    MaxRetries = 2
    MaxBad = 1
INVARIANTS
    AnswersMatch
PROPERTIES
    Answered
\* The session ends with the last command, when the guest is killed or let go.
CHECK_DEADLOCK FALSE
