SPECIFICATION DirSpec
CONSTANTS
  Subject = {s1, s2}
  s1 = s1
  u1 = u1
  h1 = h1
  UserName = {u1}
  Handle = {h1}
  Folds <- MCFolds
  Name = {n1, n2}
  GroupId = {g1}
  Nobody = Nobody
  Untouched = Untouched
  Slot = {r1}
  SignsIn = {s1}
  Tokens <- MCTokens
  MaxChanges = 1
  MaxLogins = 2
SYMMETRY Symmetry
INVARIANTS
  DirTypeOK
  HandlesUnique
PROPERTIES
  DirectoryDecides
  SessionsFollowDirectory
  OnlyNewestSignIn
  MembersGoByName
