CONSTANTS
  MaximumIter = 2
  Limit = 0
  MaxSolveTime = 1
  NumRows = 3
  MaxMove = 1
  MaxRegTime = 1
  Scores = {1, 2}
  MaxRounds = 2
  Threads = {t1, t2}
  NumPoints = 2
SPECIFICATION RegSpec
INVARIANTS CovarianceOfPosterior SolveTimeBounded LastScores OneRowPerMatch CountsOfTheCall
CHECK_DEADLOCK FALSE
