\* Up to four lines, sent ahead or one by one; both ways to stop.
SPECIFICATION FairSpec
CONSTANT MaxLines = 4
INVARIANTS AnsweredInOrder NothingLeftUnanswered
PROPERTIES EndOfInputReturns
CHECK_DEADLOCK FALSE
