CONSTANTS
  Person = {ann, ben, cay}
  Space = {forum}
  SourceKey = {file}
  Publisher = press
  Owners = {ann, ben}
  Nobody = nobody
  Switchers = {ann, ben, cay}
  MaxTopics = 1
  MaxLikes = 9
  MaxPosts = 1
SPECIFICATION BoardSpec
INVARIANTS
  LikeEntryTrue
PROPERTIES
  EntriesKeep
SYMMETRY Symmetry
