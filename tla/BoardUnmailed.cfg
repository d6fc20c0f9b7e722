CONSTANTS
  Person = {ann, ben}
  Space = {forum}
  SourceKey = {file}
  Publisher = press
  Owners = {ann}
  Nobody = nobody
  Switchers = {ben}
  MaxTopics = 1
  MaxLikes = 9
  MaxPosts = 2
SPECIFICATION BoardSpec
PROPERTY EveryFollowerIsMailed
