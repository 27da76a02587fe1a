SPECIFICATION ResponseSpec
INVARIANT AnswerIsKept
CHECK_DEADLOCK FALSE
