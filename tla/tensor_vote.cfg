CONSTANTS
  Batches <- TwoThreeThree
  Position <- Places
  BinOf <- OneFarBin
  Radius <- TwoRadii
  MinNeighbours = 1
  MaxNeighbours = 3
  NumThreads = 2
  MayFail = {1}
SPECIFICATION Spec
INVARIANTS RowsOfThisRound VotesRecorded TensorOfItsVotes
PROPERTY ListsStayBounded
CHECK_DEADLOCK FALSE
