\* Either adapter, with two messages and an echo, and a channel that is full at once.
SPECIFICATION FairSpec
CONSTANTS
  Kinds = {"discord", "wechat"}
  NMessages = 3
  Echoes = {1}
  Capacity = 1
  MaxGateway = 2
  MaxLogins = 2
INVARIANTS
  EndIsShown
  ReplyTokenKnown
PROPERTIES
  ChannelEnds
CHECK_DEADLOCK FALSE
