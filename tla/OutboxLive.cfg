CONSTANTS
  Person = {ann, ben}
  Space = {forum}
  SourceKey = {}
  Publisher = press
  Owners = {}
  Nobody = nobody
  Switchers = {}
  MaxTopics = 1
  MaxLikes = 0
  MaxPosts = 1
  Configured = {"mail", "webhook"}
  Batch = 1
  MaxAttempts = 3
  MaxFaults = 2
  MaxPresses = 1
SPECIFICATION FairSpec
INVARIANT AtMostOneRepeatPerCut
PROPERTIES
  EveryRowSettles
