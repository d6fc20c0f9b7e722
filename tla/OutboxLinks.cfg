CONSTANTS
  Person = {ann, ben}
  Space = {forum}
  SourceKey = {}
  Publisher = press
  Owners = {}
  Nobody = nobody
  Switchers = {}
  MaxTopics = 1
  MaxLikes = 0
  MaxPosts = 2
  Configured = {"mail", "webhook"}
  Batch = 2
  MaxAttempts = 1
  MaxFaults = 0
  MaxPresses = 1
SPECIFICATION Spec
PROPERTY LinkStopsItsOwn
