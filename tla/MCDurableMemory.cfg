SPECIFICATION Spec
CONSTANTS
  Port = {p1, p2}
  Nobody = Nobody
  Project = {"a", "b"}
  Tool = {"t", "wide_tool"}
  Note = {"blank", "short", "long"}
  Blank = "blank"
  Length <- MCLength
  Overhead <- MCOverhead
  Query = {"words", "none"}
  Hits <- MCHits
  Wordless = {"none"}
  Answers = {"short", NoAnswer}
  NoAnswer = NoAnswer
  Observations <- MCObservations
  Budget = {2, 5, 12}
  Window = 3
  MaxRuns = 2
  MaxObservations = 3
SYMMETRY MCSymmetry
INVARIANTS
  RunsAreWhole
  RecallIsEarned
  RecallIsRanked
CHECK_DEADLOCK FALSE
