SPECIFICATION DeskSpec
CONSTANTS
  p1 = p1
  p2 = p2
  a = a
  b = b
  news = news
  talk = talk
  old = old
  all = all
  few = few
  Person = {p1, p2}
  Space = {a, b}
  SourceKey = {k1}
  Publisher = Publisher
  Owners = {}
  Nobody = Nobody
  Switchers = {}
  MaxTopics = 2
  MaxLikes = 0
  MaxPosts = 3
  Readers <- MCReaders
  Order <- MCOrder
  Slot = {r1}
  Callers = {p1}
  MaxFiles = 1
  Groups <- MCGroups
  Read <- MCRead
  Sections <- MCSections
  Post <- MCPost
  Answer <- MCAnswer
  Filed <- MCFiled
  Timelines = {b}
  HasWord <- MCHasWord
  PageSize = 2
  Recent = 1
INVARIANTS
  RowsNameTheirPost
  FilesComeFirst
  ArticlesAreOnDisk
  MarkIsOnTheBell
  ButtonsWork
  ListsAgree
PROPERTIES
  HandlersKeepTheBoard
  PageReadsItsTopic
