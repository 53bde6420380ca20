SPECIFICATION ClientSpec
CONSTANTS
    MaxSessions = 2
    MaxBody = 2
INVARIANTS
    TokenOfThisSession
    AnswerReadWhole
CHECK_DEADLOCK FALSE
