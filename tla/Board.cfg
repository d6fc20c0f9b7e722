CONSTANTS
  Person = {ann, ben}
  Space = {forum}
  SourceKey = {file}
  Publisher = press
  Owners = {ann}
  Nobody = nobody
  Switchers = {}
  MaxTopics = 1
  MaxLikes = 1
  MaxPosts = 3
SPECIFICATION BoardSpec
INVARIANTS
  TypeOK
  BellAndMailAgree
  OwedOnce
  NotAboutOneself
  BadgeIsList
PROPERTIES
  OthersWordsStay
  EveryFollowerHears
  ReadStaysRead
