\* Four threads of the deployment controller, both policies with a history.
SPECIFICATION FairSpec
CONSTANTS
  Poses = {p1}
  Unset = unset
  Buttons <- Chords
  Controllers = {"wtw", "ts"}
  Duration = 1
  FrameStack = 1
INVARIANTS
  TypeOK PublishedWhole StiffFromMeasured StopWins HistoryOfThisRun
PROPERTIES
  TargetsFollow StopTakesEffect
