\* Two nodes, with crashes, new versions, new builds and a local chain that is
\* started afresh; the tool is started again after it failed.
SPECIFICATION FairSpec
CONSTANTS
  Pulsar3 = Pulsar3
  LocalSecret = LocalSecret
  NoFile = NoFile
  CutShort = CutShort
  SnakeCaseIsRead = TRUE
  Nodes = {Pulsar3, LocalSecret}
  LocalNodes = {LocalSecret}
  MaxEdits = 2
  MaxInterruptions = 1
  MaxResets = 1
INVARIANTS
  RecordsAreTrue
  UploadsAccountedFor
  UnreadableOnlyAfterCrash
PROPERTY DeploymentCompletes
