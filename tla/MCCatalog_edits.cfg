SPECIFICATION Spec
CONSTANTS
  Channel = {a, b, c}
  Topic = {t1, t2, t3}
  Name = {x, y, z}
  NoName = NoName
  MaxChannels = 2
  MaxTopics = 2
  MaxCrashes = 1
  MaxErrors = 1
SYMMETRY Symmetry
INVARIANTS TypeOK QuotasRespected OrphansExplained ScreensLive
PROPERTIES OnlyOrphansUntracked
