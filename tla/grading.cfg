SPECIFICATION FairSpec
CONSTANTS
  quiz = quiz
  Exams = {quiz}
  None = None
  Numbers = {1}
  Attempts = 2
  Files = 1
  Keys = 1
  Sets = 1
  MaxImages <- MCImages
  MaxKeys <- MCKeys
  MaxSets <- MCSets
  MaxJobs = 1
INVARIANTS
  TypeOK
  NoSheetForgotten
PROPERTIES
  GradingEnds
  SpinnerEnds
