\* One contract that is given a new version without being compiled again.
SPECIFICATION Spec
CONSTANTS
  Pulsar3 = Pulsar3
  LocalSecret = LocalSecret
  NoFile = NoFile
  CutShort = CutShort
  SnakeCaseIsRead = TRUE
  Nodes = {Pulsar3}
  LocalNodes = {}
  MaxEdits = 1
  MaxInterruptions = 0
  MaxResets = 0
INVARIANT StoresTheVersionItNames
