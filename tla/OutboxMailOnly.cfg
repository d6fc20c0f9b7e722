CONSTANTS
  Person = {ann, ben}
  Space = {forum}
  SourceKey = {}
  Publisher = press
  Owners = {}
  Nobody = nobody
  Switchers = {}
  MaxTopics = 1
  MaxLikes = 0
  MaxPosts = 2
  Configured = {"mail"}
  Batch = 1
  MaxAttempts = 1
  MaxFaults = 0
  MaxPresses = 0
SPECIFICATION FairSpec
PROPERTY EveryMailSettles
