SPECIFICATION Spec
CONSTANTS
  quiz = quiz
  Exams = {quiz}
  None = None
  Numbers = {1}
  Attempts = 2
  Files = 1
  Keys = 2
  Sets = 0
  MaxImages <- MCImages
  MaxKeys <- MCKeys
  MaxSets <- MCSets
  MaxJobs = 1
INVARIANTS
  GradingIsCurrent
