SPECIFICATION FairSpec
CONSTANTS
  Message = {1, 2, 3}
  Inserter = {w1, w2}
  Limit = 1
  MaxSeq = 4
  MaxChanges = 2
  Source = {"a", "b"}
  SourceOf <- ChannelOf
INVARIANTS TypeOK NoneSkipped OnlyNew BrowseComplete
PROPERTIES EveryMessagePulled PagesDisjoint ImplementsSubscription
CHECK_DEADLOCK FALSE
