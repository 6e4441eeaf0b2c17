SPECIFICATION QueueSpec
CONSTANTS
  Ids = {a, b, c}
  NoTrack = NoTrack
  MaxLength = 3
PROPERTIES
  RemoveKeepsOrder
  PeekIsNext
