SPECIFICATION NetworkSpec
CONSTANTS
  MaxLookups = 2
  MaxAnswers = 2
  NotFoundLimit = 2
INVARIANT ApOnlyWhenDisconnected
