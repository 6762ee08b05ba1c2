SPECIFICATION Spec
CONSTANTS
    MaxIters = 2
    MaxCalls = 2
    Inputs <- MCInputs
    MaxFaults = 1
INVARIANTS
    TypeOK
    MailAsAgreed
    AnsweredInOrder
\* A turn ends, and the command with it.
CHECK_DEADLOCK FALSE
