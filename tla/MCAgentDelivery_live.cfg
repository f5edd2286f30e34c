SPECIFICATION FairSpec
CONSTANTS
  Source = {s1, s2}
  MaxEvents = 2
  MaxId = 2
  BatchMax = 1
PROPERTIES
  EventuallyDelivered
  ClaimsInOrder
