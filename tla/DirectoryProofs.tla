--------------------------- MODULE DirectoryProofs ---------------------------
(***************************************************************************)
(* What holds of the directory for any number of people, groups, requests  *)
(* and sign-ins.                                                           *)
(***************************************************************************)
EXTENDS Directory, FiniteSetTheorems, TLAPS

\* The SCIM requests: each carries what its handler read before its next statement.
Removal == [op: {"remove_user"}, step: {"found", "off", "out"}, who: Subject, name: UserName]
GroupPut == [op: {"put_group"}, step: {"looked"}, id: GroupId, name: Name, given: Lists]
GroupPatch == [op: {"patch_group"}, step: {"add", "remove"}, id: GroupId,
               add: SUBSET Subject, remove: SUBSET Subject]
Request == {Idle} \cup Removal \cup GroupPut \cup GroupPatch

\* The sign-ins, before and after the token is known.
LoginRow == [step: {"out", "done"}]
              \cup [step: {"known", "written"}, who: Subject,
                    handle: Handle \cup {Nobody}, groups: SUBSET Name]

\* Requests and sign-ins are what their handlers make of them.
Underway ==
  /\ requests \in [Slot -> Request]
  /\ logins \in [DOMAIN logins -> LoginRow]

\* An account is never deleted, so whom a handler has met is still there: the person
\* of a removal, of a sign-in that has written the row, and of a session.
MetIsThere ==
  /\ \A r \in Slot : requests[r].op = "remove_user" => requests[r].who \in DOMAIN accounts
  /\ \A n \in DOMAIN logins : logins[n].step = "written" => logins[n].who \in DOMAIN accounts
  /\ \A n \in DOMAIN sessions : sessions[n].who \in DOMAIN accounts

\* Sign-ins are counted, and the browser's cookie is of the newest.
Counted ==
  /\ \E k \in Nat : DOMAIN logins = 1 .. k
  /\ pending # 0 => \A n \in DOMAIN logins : n <= pending

\* The inductive invariant.
DirInv == DirTypeOK /\ Underway /\ MetIsThere /\ Counted /\ HandlesUnique
-----------------------------------------------------------------------------
(* The rows.                                                               *)

\* The part of the invariant that is about the tables alone.
TablesOK ==
  /\ DOMAIN accounts \subseteq Subject /\ accounts \in [DOMAIN accounts -> AccountRow]
  /\ DOMAIN groups \subseteq GroupId /\ groups \in [DOMAIN groups -> Name]
  /\ members \subseteq (DOMAIN groups) \X Subject
  /\ HandlesUnique

\* What a transaction of the directory leaves of the rows.
RowsFollow == \A y \in DOMAIN accounts' : GroupsFollow(y) /\ ContactFollows(y)

\* Nobody switched off is switched on.
NobodyLetIn == \A y \in DOMAIN accounts : accounts'[y].active => accounts[y].active

\* Tables left alone follow.
LEMMA NothingFollows ==
  ASSUME UNCHANGED tables
  PROVE  RowsFollow /\ NobodyLetIn
  <1>1. accounts' = accounts /\ groups' = groups /\ members' = members
    BY DEF tables
  <1>2. ASSUME NEW y \in DOMAIN accounts' PROVE GroupsFollow(y)
    BY <1>1 DEF GroupsFollow, GroupsDue
  <1>3. ASSUME NEW y \in DOMAIN accounts' PROVE ContactFollows(y)
    BY <1>1 DEF ContactFollows
  <1> QED BY <1>1, <1>2, <1>3 DEF RowsFollow, NobodyLetIn

\* The names somebody is entitled to are names of groups.
LEMMA EntitledAreNames ==
  ASSUME NEW grps, NEW mem, NEW x, grps \in [DOMAIN grps -> Name]
  PROVE  Entitled(grps, mem, x) \subseteq Name
  BY DEF Entitled

\* A recomputation writes the groups of the people it is for, and nothing else.
LEMMA RecomputeWritesGroups ==
  ASSUME NEW rows, NEW grps, NEW mem, NEW people,
         rows \in [DOMAIN rows -> AccountRow], grps \in [DOMAIN grps -> Name],
         NEW after, after = Recompute(rows, grps, mem, people)
  PROVE  /\ after \in [DOMAIN rows -> AccountRow] /\ DOMAIN after = DOMAIN rows
         /\ \A x \in DOMAIN rows :
              /\ after[x].handle = rows[x].handle /\ after[x].mail = rows[x].mail
              /\ after[x].active = rows[x].active /\ after[x].known = rows[x].known
              /\ after[x].groups =
                   IF x \in people
                   THEN IF rows[x].active THEN Entitled(grps, mem, x) ELSE {}
                   ELSE rows[x].groups
  <1>1. DOMAIN after = DOMAIN rows
    BY DEF Recompute
  <1>2. ASSUME NEW x \in DOMAIN rows
        PROVE  /\ after[x] \in AccountRow
               /\ after[x].handle = rows[x].handle /\ after[x].mail = rows[x].mail
               /\ after[x].active = rows[x].active /\ after[x].known = rows[x].known
               /\ after[x].groups =
                    IF x \in people
                    THEN IF rows[x].active THEN Entitled(grps, mem, x) ELSE {}
                    ELSE rows[x].groups
    <2>1. rows[x] \in AccountRow
      OBVIOUS
    <2>2. Entitled(grps, mem, x) \in SUBSET Name
      BY EntitledAreNames
    <2>3. after[x] = IF x \in people
                     THEN [rows[x] EXCEPT !.groups = IF rows[x].active
                                                     THEN Entitled(grps, mem, x) ELSE {}]
                     ELSE rows[x]
      BY DEF Recompute
    <2> QED BY <2>1, <2>2, <2>3 DEF AccountRow
  <1>3. after \in [DOMAIN rows -> AccountRow]
    BY <1>2 DEF Recompute
  <1> QED BY <1>1, <1>2, <1>3

\* A handle is given only when nobody else has it.
LEMMA HandleForIsFree ==
  ASSUME NEW x, NEW h
  PROVE  /\ HandleFor(x, h) \in {h, Nobody}
         /\ HandleFor(x, h) # Nobody =>
              \A y \in DOMAIN accounts \ {x} : accounts[y].handle # HandleFor(x, h)
  BY DEF HandleFor

\* Whose handles are as they were, but for one row with a free one, are unique.
LEMMA HandlesStayUnique ==
  ASSUME HandlesUnique, NEW x, DOMAIN accounts' = DOMAIN accounts \cup {x},
         \A y \in DOMAIN accounts \ {x} : accounts'[y].handle = accounts[y].handle,
         accounts'[x].handle # Nobody =>
           \A y \in DOMAIN accounts \ {x} : accounts[y].handle # accounts'[x].handle
  PROVE  HandlesUnique'
  BY DEF HandlesUnique

\* Whoever is in the same groups of the same names is entitled to the same.
LEMMA EntitledStays ==
  ASSUME NEW x, NEW grps, NEW mem, NEW grps2, NEW mem2,
         \A g \in DOMAIN grps :
           <<g, x>> \in mem => g \in DOMAIN grps2 /\ <<g, x>> \in mem2 /\ grps2[g] = grps[g],
         \A g \in DOMAIN grps2 :
           <<g, x>> \in mem2 => g \in DOMAIN grps /\ <<g, x>> \in mem
  PROVE  Entitled(grps2, mem2, x) = Entitled(grps, mem, x)
  BY DEF Entitled

-----------------------------------------------------------------------------
(* The transactions keep the tables.                                       *)

\* put_user: the row is the directory's again, whatever was written before.
LEMMA PutUserKeeps ==
  ASSUME TablesOK, NEW x \in Subject, NEW name \in UserName, NEW active \in BOOLEAN,
         PutUser(x, name, active)
  PROVE  /\ TablesOK' /\ DOMAIN accounts' = DOMAIN accounts \cup {x}
         /\ RowsFollow
         /\ ~active => NobodyLetIn
  <1> DEFINE row == [handle |-> IF active THEN HandleFor(x, Folds[name]) ELSE Nobody,
                     mail |-> active, groups |-> {}, active |-> active, known |-> name]
             rows == Upsert(x, row)
  <1>1. row \in AccountRow
    BY FoldsAssumption, HandleForIsFree DEF AccountRow
  <1>2. /\ rows \in [DOMAIN accounts \cup {x} -> AccountRow]
        /\ DOMAIN rows = DOMAIN accounts \cup {x}
        /\ rows[x] = row
        /\ \A y \in DOMAIN accounts \ {x} : rows[y] = accounts[y]
    BY <1>1 DEF TablesOK, Upsert
  <1>3. accounts' = Recompute(rows, groups, members, {x})
    BY DEF PutUser
  <1>4. UNCHANGED <<groups, members>>
    BY DEF PutUser
  <1>5. row.active = active /\ row.mail = active
        /\ row.handle = IF active THEN HandleFor(x, Folds[name]) ELSE Nobody
    OBVIOUS
  <1> HIDE DEF rows, row
  <1>6. /\ accounts' \in [DOMAIN accounts \cup {x} -> AccountRow]
        /\ DOMAIN accounts' = DOMAIN accounts \cup {x}
        /\ accounts'[x].active = active /\ accounts'[x].mail = active
        /\ accounts'[x].handle = IF active THEN HandleFor(x, Folds[name]) ELSE Nobody
        /\ accounts'[x].groups = IF active THEN Entitled(groups, members, x) ELSE {}
        /\ \A y \in DOMAIN accounts \ {x} :
             /\ accounts'[y].handle = accounts[y].handle /\ accounts'[y].mail = accounts[y].mail
             /\ accounts'[y].active = accounts[y].active
             /\ accounts'[y].groups = accounts[y].groups
    BY <1>2, <1>3, <1>5, RecomputeWritesGroups DEF TablesOK
  <1>7. HandlesUnique'
    BY <1>6, HandleForIsFree, HandlesStayUnique DEF TablesOK
  <1>8. ASSUME NEW y \in DOMAIN accounts' PROVE GroupsFollow(y)
    <2>1. CASE y = x
      <3>1. GroupsDue(x)' = IF active THEN Entitled(groups, members, x) ELSE {}
        BY <1>4, <1>6 DEF GroupsDue
      <3> QED BY <1>6, <2>1, <3>1 DEF GroupsFollow
    <2>2. CASE y # x
      <3>1. y \in DOMAIN accounts \ {x}
        BY <1>6, <1>8, <2>2
      <3>2. GroupsDue(y)' = GroupsDue(y)
        BY <1>4, <1>6, <3>1 DEF GroupsDue
      <3> QED BY <1>6, <3>1, <3>2 DEF GroupsFollow
    <2> QED BY <2>1, <2>2
  <1>9. ASSUME NEW y \in DOMAIN accounts' PROVE ContactFollows(y)
    <2>1. CASE y = x
      BY <1>6, <2>1 DEF ContactFollows
    <2>2. CASE y # x
      <3>1. y \in DOMAIN accounts \ {x}
        BY <1>6, <1>9, <2>2
      <3> QED BY <1>6, <3>1 DEF ContactFollows
    <2> QED BY <2>1, <2>2
  <1>10. ~active => NobodyLetIn
    BY <1>6 DEF NobodyLetIn
  <1> QED BY <1>4, <1>6, <1>7, <1>8, <1>9, <1>10 DEF TablesOK, RowsFollow

\* A change of groups and memberships that recomputes everybody it touches, and
\* perhaps others, keeps the tables and leaves rows that follow.
LEMMA RecomputedKeeps ==
  ASSUME TablesOK, NEW touched,
         DOMAIN groups' \subseteq GroupId, groups' \in [DOMAIN groups' -> Name],
         members' \subseteq (DOMAIN groups') \X Subject,
         \A x \in DOMAIN accounts \ touched :
           Entitled(groups', members', x) = Entitled(groups, members, x),
         accounts' = Recompute(accounts, groups', members', touched)
  PROVE  TablesOK' /\ DOMAIN accounts' = DOMAIN accounts /\ RowsFollow /\ NobodyLetIn
  <1>1. /\ accounts' \in [DOMAIN accounts -> AccountRow] /\ DOMAIN accounts' = DOMAIN accounts
        /\ \A x \in DOMAIN accounts :
             /\ accounts'[x].handle = accounts[x].handle /\ accounts'[x].mail = accounts[x].mail
             /\ accounts'[x].active = accounts[x].active /\ accounts'[x].known = accounts[x].known
             /\ accounts'[x].groups =
                  IF x \in touched
                  THEN IF accounts[x].active THEN Entitled(groups', members', x) ELSE {}
                  ELSE accounts[x].groups
    BY RecomputeWritesGroups DEF TablesOK
  <1>2. HandlesUnique'
    BY <1>1 DEF TablesOK, HandlesUnique
  <1>3. ASSUME NEW y \in DOMAIN accounts PROVE GroupsFollow(y)
    <2>1. CASE y \in touched
      <3>1. GroupsDue(y)' = IF accounts[y].active THEN Entitled(groups', members', y) ELSE {}
        BY <1>1 DEF GroupsDue
      <3> QED BY <1>1, <2>1, <3>1 DEF GroupsFollow
    <2>2. CASE y \notin touched
      <3>1. Entitled(groups', members', y) = Entitled(groups, members, y)
        BY <2>2
      <3>2. GroupsDue(y)' = GroupsDue(y)
        BY <1>1, <3>1 DEF GroupsDue
      <3> QED BY <1>1, <2>2, <3>2 DEF GroupsFollow
    <2> QED BY <2>1, <2>2
  <1>4. ASSUME NEW y \in DOMAIN accounts PROVE ContactFollows(y)
    BY <1>1 DEF ContactFollows
  <1>5. NobodyLetIn
    BY <1>1 DEF NobodyLetIn
  <1> QED BY <1>1, <1>2, <1>3, <1>4, <1>5 DEF TablesOK, RowsFollow

\* put_group: whoever was in the group or is in it now is recomputed.
LEMMA PutGroupKeeps ==
  ASSUME TablesOK, NEW g \in GroupId, NEW name \in Name, NEW given \in Lists,
         PutGroup(g, name, given)
  PROVE  TablesOK' /\ DOMAIN accounts' = DOMAIN accounts /\ RowsFollow /\ NobodyLetIn
  <1> DEFINE touched == MembersOf(members, g) \cup MembersOf(members', g)
  <1>1. /\ groups' = [h \in DOMAIN groups \cup {g} |-> IF h = g THEN name ELSE groups[h]]
        /\ members' = IF given = Untouched THEN members
                      ELSE {m \in members : m[1] # g} \cup {g} \X given
        /\ accounts' = Recompute(accounts, groups', members', touched)
    BY DEF PutGroup
  <1>2. DOMAIN groups' \subseteq GroupId /\ groups' \in [DOMAIN groups' -> Name]
    BY <1>1 DEF TablesOK
  <1>3. members' \subseteq (DOMAIN groups') \X Subject
    <2>1. CASE given = Untouched
      BY <1>1, <2>1 DEF TablesOK
    <2>2. CASE given # Untouched
      <3>1. given \subseteq Subject
        BY <2>2 DEF Lists
      <3> QED BY <1>1, <2>2, <3>1 DEF TablesOK
    <2> QED BY <2>1, <2>2
  <1>4. ASSUME NEW x \in DOMAIN accounts \ touched
        PROVE  Entitled(groups', members', x) = Entitled(groups, members, x)
    <2>1. <<g, x>> \notin members /\ <<g, x>> \notin members'
      BY <1>4 DEF TablesOK, MembersOf
    <2>2. \A h \in DOMAIN groups \ {g} :
            /\ h \in DOMAIN groups' /\ groups'[h] = groups[h]
            /\ <<h, x>> \in members' <=> <<h, x>> \in members
      BY <1>1
    <2>3. DOMAIN groups' = DOMAIN groups \cup {g}
      BY <1>1
    <2>4. /\ \A h \in DOMAIN groups : <<h, x>> \in members =>
               h \in DOMAIN groups' /\ <<h, x>> \in members' /\ groups'[h] = groups[h]
          /\ \A h \in DOMAIN groups' : <<h, x>> \in members' =>
               h \in DOMAIN groups /\ <<h, x>> \in members
      BY <2>1, <2>2, <2>3
    <2> QED BY <2>4, EntitledStays
  <1> HIDE DEF touched
  <1> QED BY <1>1, <1>2, <1>3, <1>4, RecomputedKeeps

\* add_members and remove_members: the people named are recomputed.
LEMMA ChangeMembersKeeps ==
  ASSUME TablesOK, NEW mem, NEW people \in SUBSET Subject, ChangeMembers(mem, people),
         mem \subseteq (DOMAIN groups) \X Subject,
         \A x \in Subject \ people : \A g \in DOMAIN groups :
           <<g, x>> \in mem <=> <<g, x>> \in members
  PROVE  TablesOK' /\ DOMAIN accounts' = DOMAIN accounts /\ RowsFollow /\ NobodyLetIn
  <1>1. /\ members' = mem /\ groups' = groups
        /\ accounts' = Recompute(accounts, groups', members', people)
    BY DEF ChangeMembers
  <1>2. ASSUME NEW x \in DOMAIN accounts \ people
        PROVE  Entitled(groups', members', x) = Entitled(groups, members, x)
    <2>1. x \in Subject \ people
      BY DEF TablesOK
    <2>2. \A g \in DOMAIN groups : <<g, x>> \in members' <=> <<g, x>> \in members
      BY <1>1, <2>1
    <2> QED BY <1>1, <2>2 DEF Entitled
  <1> QED BY <1>1, <1>2, RecomputedKeeps DEF TablesOK

\* delete_group: the memberships go with the group, and its members are recomputed.
LEMMA DeleteGroupKeeps ==
  ASSUME TablesOK, NEW g \in GroupId, DeleteGroup(g)
  PROVE  TablesOK' /\ DOMAIN accounts' = DOMAIN accounts /\ RowsFollow /\ NobodyLetIn
  <1>1. /\ groups' = Restrict(groups, DOMAIN groups \ {g})
        /\ members' = {m \in members : m[1] # g}
        /\ accounts' = Recompute(accounts, groups', members', MembersOf(members, g))
    BY DEF DeleteGroup
  <1>2. /\ DOMAIN groups' = DOMAIN groups \ {g}
        /\ \A h \in DOMAIN groups' : groups'[h] = groups[h]
        /\ groups' \in [DOMAIN groups' -> Name]
    BY <1>1 DEF TablesOK, Restrict
  <1>3. members' \subseteq (DOMAIN groups') \X Subject
    BY <1>1, <1>2 DEF TablesOK
  <1>4. ASSUME NEW x \in DOMAIN accounts \ MembersOf(members, g)
        PROVE  Entitled(groups', members', x) = Entitled(groups, members, x)
    <2>1. <<g, x>> \notin members
      BY <1>4 DEF TablesOK, MembersOf
    <2>2. /\ \A h \in DOMAIN groups : <<h, x>> \in members =>
               h \in DOMAIN groups' /\ <<h, x>> \in members' /\ groups'[h] = groups[h]
          /\ \A h \in DOMAIN groups' : <<h, x>> \in members' =>
               h \in DOMAIN groups /\ <<h, x>> \in members
      BY <1>1, <1>2, <2>1
    <2> QED BY <2>2, EntitledStays
  <1> QED BY <1>1, <1>2, <1>3, <1>4, RecomputedKeeps DEF TablesOK

-----------------------------------------------------------------------------
(* The requests.                                                           *)

\* What a request carries is told by what it is.
LEMMA RequestIsTold ==
  ASSUME Underway, NEW r \in Slot
  PROVE  /\ requests[r].op = "remove_user" => requests[r] \in Removal
         /\ requests[r].op = "put_group" => requests[r] \in GroupPut
         /\ requests[r].op = "patch_group" => requests[r] \in GroupPatch
  BY DEF Underway, Request, Idle, Removal, GroupPut, GroupPatch

\* A step of one request leaves the others alone.
LEMMA RequestGoes ==
  ASSUME Underway, NEW r \in Slot, NEW step, Goes(r, step),
         \/ requests[r] \in Removal /\ step \in {"off", "out"}
         \/ requests[r] \in GroupPatch /\ step = "remove"
  PROVE  /\ requests' \in [Slot -> Request]
         /\ requests'[r].op = requests[r].op
         /\ requests[r] \in Removal => requests'[r].who = requests[r].who
         /\ \A s \in Slot \ {r} : requests'[s] = requests[s]
  <1>1. requests' = [requests EXCEPT ![r] = [requests[r] EXCEPT !.step = step]]
    BY DEF Goes
  <1>2. CASE requests[r] \in Removal /\ step \in {"off", "out"}
    <2>1. [requests[r] EXCEPT !.step = step] \in Removal
      BY <1>2 DEF Removal
    <2> QED BY <1>1, <1>2, <2>1 DEF Underway, Request, Removal
  <1>3. CASE requests[r] \in GroupPatch /\ step = "remove"
    <2>1. [requests[r] EXCEPT !.step = step] \in GroupPatch
      BY <1>3 DEF GroupPatch
    <2>2. requests[r] \notin Removal
      BY <1>3 DEF GroupPatch, Removal
    <2> QED BY <1>1, <1>3, <2>1, <2>2 DEF Underway, Request, GroupPatch
  <1> QED BY <1>2, <1>3

\* A step of the provider's door keeps the invariant when it keeps the tables, deletes
\* no account, and leaves requests that know whom they are about.
LEMMA ScimKeeps ==
  ASSUME DirInv, TablesOK', DOMAIN accounts \subseteq DOMAIN accounts', UNCHANGED signIn,
         requests' \in [Slot -> Request],
         \A r \in Slot : requests'[r].op = "remove_user" => requests'[r].who \in DOMAIN accounts'
  PROVE  DirInv'
  BY DEF DirInv, DirTypeOK, TablesOK, Underway, MetIsThere, Counted, signIn

\* The same when one request goes on or ends.
LEMMA GoingKeeps ==
  ASSUME DirInv, TablesOK', DOMAIN accounts \subseteq DOMAIN accounts', UNCHANGED signIn,
         NEW r \in Slot, NEW step, requests[r] # Idle,
         \/ Ends(r)
         \/ requests[r] \in Removal /\ step \in {"off", "out"} /\ Goes(r, step)
         \/ requests[r] \in GroupPatch /\ step = "remove" /\ Goes(r, step)
  PROVE  DirInv'
  <1>1. Underway /\ MetIsThere
    BY DEF DirInv
  <1>2. CASE Ends(r)
    <2>1. requests' \in [Slot -> Request]
      BY <1>1, <1>2 DEF Underway, Ends, Request
    <2>2. requests'[r].op # "remove_user" /\ \A s \in Slot \ {r} : requests'[s] = requests[s]
      BY <1>1, <1>2 DEF Underway, Ends, Idle
    <2> QED BY <1>1, <2>1, <2>2, ScimKeeps DEF MetIsThere
  <1>3. CASE \/ requests[r] \in Removal /\ step \in {"off", "out"} /\ Goes(r, step)
             \/ requests[r] \in GroupPatch /\ step = "remove" /\ Goes(r, step)
    <2>1. /\ requests' \in [Slot -> Request]
          /\ requests'[r].op = requests[r].op
          /\ requests[r] \in Removal => requests'[r].who = requests[r].who
          /\ \A s \in Slot \ {r} : requests'[s] = requests[s]
      BY <1>1, <1>3, RequestGoes
    <2>2. requests[r].op = "remove_user" => requests[r] \in Removal
      BY <1>1, RequestIsTold
    <2> QED BY <1>1, <2>1, <2>2, ScimKeeps DEF MetIsThere
  <1> QED BY <1>2, <1>3

\* And when one begins, having met whom it is about.
LEMMA BeginningKeeps ==
  ASSUME DirInv, UNCHANGED <<tables, signIn>>, NEW r \in Slot, NEW request \in Request,
         Begins(r, request), request.op = "remove_user" => request.who \in DOMAIN accounts
  PROVE  DirInv'
  <1>1. TablesOK'
    BY DEF DirInv, DirTypeOK, TablesOK, HandlesUnique, tables
  <1>2. /\ requests' \in [Slot -> Request] /\ requests'[r] = request
        /\ \A s \in Slot \ {r} : requests'[s] = requests[s]
    BY DEF DirInv, Underway, Begins
  <1>3. DOMAIN accounts = DOMAIN accounts'
    BY DEF tables
  <1> QED BY <1>1, <1>2, <1>3, ScimKeeps DEF DirInv, MetIsThere

\* The last two statements of remove_user.  The memberships go without a recomputation,
\* which shows only where another request has switched the row on again.
LEMMA RemovalKeepsTables ==
  ASSUME DirInv, NEW r \in Slot, DropMemberships(r) \/ ForgetUser(r)
  PROVE  /\ TablesOK' /\ DOMAIN accounts' = DOMAIN accounts /\ NobodyLetIn
         /\ \A y \in DOMAIN accounts' :
              /\ GroupsFollow(y) \/ RemovalMeetsActive(y)
              /\ ContactFollows(y)
  <1>0. TablesOK /\ Underway /\ MetIsThere
    BY DEF DirInv, DirTypeOK, TablesOK
  <1> DEFINE who == requests[r].who
  <1>1. who \in DOMAIN accounts
    BY <1>0 DEF DropMemberships, ForgetUser, At, MetIsThere
  <1>2. CASE DropMemberships(r)
    <2>1. members' = {m \in members : m[2] # who} /\ accounts' = accounts /\ groups' = groups
      BY <1>2 DEF DropMemberships
    <2>2. TablesOK' /\ NobodyLetIn
      BY <1>0, <2>1 DEF TablesOK, HandlesUnique, NobodyLetIn
    <2>3. ASSUME NEW y \in DOMAIN accounts PROVE GroupsFollow(y) \/ RemovalMeetsActive(y)
      <3>1. CASE y # who
        <4>1. Entitled(groups', members', y) = Entitled(groups, members, y)
          BY <2>1, <3>1 DEF Entitled
        <4>2. GroupsDue(y)' = GroupsDue(y)
          BY <2>1, <4>1 DEF GroupsDue
        <4> QED BY <2>1, <4>2 DEF GroupsFollow
      <3>2. CASE y = who /\ accounts[who].active
        BY <1>2, <3>2 DEF DropMemberships, RemovalMeetsActive
      <3>3. CASE y = who /\ ~accounts[who].active
        <4>1. GroupsDue(y)' = GroupsDue(y)
          BY <2>1, <3>3 DEF GroupsDue
        <4> QED BY <2>1, <4>1 DEF GroupsFollow
      <3> QED BY <3>1, <3>2, <3>3
    <2>4. ASSUME NEW y \in DOMAIN accounts PROVE ContactFollows(y)
      BY <2>1 DEF ContactFollows
    <2> QED BY <2>1, <2>2, <2>3, <2>4
  <1>3. CASE ForgetUser(r)
    <2>1. accounts' = [accounts EXCEPT ![who] = [accounts[who] EXCEPT !.known = Nobody]]
          /\ groups' = groups /\ members' = members
      BY <1>3 DEF ForgetUser
    <2>2. [accounts[who] EXCEPT !.known = Nobody] \in AccountRow
      BY <1>0, <1>1 DEF TablesOK, AccountRow
    <2>3. /\ accounts' \in [DOMAIN accounts -> AccountRow] /\ DOMAIN accounts' = DOMAIN accounts
          /\ \A x \in DOMAIN accounts :
               /\ accounts'[x].handle = accounts[x].handle /\ accounts'[x].mail = accounts[x].mail
               /\ accounts'[x].active = accounts[x].active
               /\ accounts'[x].groups = accounts[x].groups
      BY <1>0, <1>1, <2>1, <2>2 DEF TablesOK, AccountRow
    <2>4. HandlesUnique' /\ NobodyLetIn
      BY <1>0, <2>3 DEF TablesOK, HandlesUnique, NobodyLetIn
    <2>5. ASSUME NEW y \in DOMAIN accounts PROVE GroupsFollow(y)
      <3>1. GroupsDue(y)' = GroupsDue(y)
        BY <2>1, <2>3 DEF GroupsDue
      <3> QED BY <2>3, <3>1 DEF GroupsFollow
    <2>6. ASSUME NEW y \in DOMAIN accounts PROVE ContactFollows(y)
      BY <2>3 DEF ContactFollows
    <2> QED BY <1>0, <2>1, <2>3, <2>4, <2>5, <2>6 DEF TablesOK
  <1> QED BY <1>2, <1>3

-----------------------------------------------------------------------------
(* The sign-in.                                                            *)

\* A step of the other door keeps the invariant when it keeps the tables and the
\* requests, deletes no account, and leaves sign-ins and sessions that know whose they are.
LEMMA SignInKeeps ==
  ASSUME DirInv, TablesOK', DOMAIN accounts \subseteq DOMAIN accounts', UNCHANGED requests,
         logins' \in [DOMAIN logins' -> LoginRow], DOMAIN logins \subseteq DOMAIN logins',
         \A n \in DOMAIN logins' :
           logins'[n].step = "written" => logins'[n].who \in DOMAIN accounts',
         DOMAIN sessions' \subseteq DOMAIN logins', sessions' \in [DOMAIN sessions' -> SessionRow],
         \A n \in DOMAIN sessions' : sessions'[n].who \in DOMAIN accounts',
         pending' \in {0} \cup DOMAIN logins', Counted'
  PROVE  DirInv'
  BY DEF DirInv, DirTypeOK, TablesOK, Underway, MetIsThere

\* The same when the tables stay and one sign-in goes on.
LEMMA LoginGoesKeeps ==
  ASSUME DirInv, UNCHANGED <<tables, requests>>, NEW n \in DOMAIN logins, NEW record \in LoginRow,
         LoginGoes(n, record), record.step # "written",
         \/ UNCHANGED sessions
         \/ sessions' \in [DOMAIN sessions \cup {n} -> SessionRow]
              /\ \A m \in DOMAIN sessions' : sessions'[m].who \in DOMAIN accounts,
         pending' \in {pending, 0}
  PROVE  DirInv'
  <1>1. TablesOK'
    BY DEF DirInv, DirTypeOK, TablesOK, HandlesUnique, tables
  <1>2. /\ logins' \in [DOMAIN logins' -> LoginRow] /\ DOMAIN logins' = DOMAIN logins
        /\ logins'[n] = record /\ \A m \in DOMAIN logins \ {n} : logins'[m] = logins[m]
    BY DEF DirInv, Underway, LoginGoes
  <1>3. accounts' = accounts
    BY DEF tables
  <1>4. \A m \in DOMAIN logins' : logins'[m].step = "written" => logins'[m].who \in DOMAIN accounts'
    BY <1>2, <1>3 DEF DirInv, MetIsThere
  <1>5. /\ DOMAIN sessions' \subseteq DOMAIN logins' /\ sessions' \in [DOMAIN sessions' -> SessionRow]
        /\ \A m \in DOMAIN sessions' : sessions'[m].who \in DOMAIN accounts'
    BY <1>2, <1>3 DEF DirInv, DirTypeOK, MetIsThere
  <1>6. pending' \in {0} \cup DOMAIN logins' /\ Counted'
    BY <1>2 DEF DirInv, DirTypeOK, Counted
  <1> QED BY <1>1, <1>2, <1>3, <1>4, <1>5, <1>6, SignInKeeps

\* Or when sessions end, or run out.
LEMMA FewerSessionsKeep ==
  ASSUME DirInv, UNCHANGED <<tables, requests, logins, pending>>,
         DOMAIN sessions' \subseteq DOMAIN sessions, sessions' \in [DOMAIN sessions' -> SessionRow],
         \A n \in DOMAIN sessions' : sessions'[n].who = sessions[n].who
  PROVE  DirInv'
  <1>1. TablesOK'
    BY DEF DirInv, DirTypeOK, TablesOK, HandlesUnique, tables
  <1>2. accounts' = accounts
    BY DEF tables
  <1>3. Counted'
    BY DEF DirInv, Counted
  <1> QED BY <1>1, <1>2, <1>3, SignInKeeps DEF DirInv, DirTypeOK, Underway, MetIsThere

\* A new sign-in is the newest, and so is its cookie.
LEMMA LoginIsNewest ==
  ASSUME DirInv, Login
  PROVE  /\ Counted'
         /\ DOMAIN logins' = DOMAIN logins \cup {pending'}
         /\ pending' \notin DOMAIN logins
         /\ \A m \in DOMAIN logins : logins'[m] = logins[m]
         /\ logins'[pending'] = [step |-> "out"]
  <1>1. PICK k \in Nat : DOMAIN logins = 1 .. k
    BY DEF DirInv, Counted
  <1>2. Cardinality(DOMAIN logins) = k
    <2>1. Cardinality(1 .. k) = IF 1 > k THEN 0 ELSE k - 1 + 1
      BY FS_Interval
    <2> QED BY <1>1, <2>1
  <1>3. /\ pending' = k + 1
        /\ logins' = [m \in (1 .. k) \cup {k + 1} |->
                        IF m = k + 1 THEN [step |-> "out"] ELSE logins[m]]
    BY <1>1, <1>2 DEF Login
  <1>4. DOMAIN logins' = 1 .. (k + 1) /\ k + 1 \in Nat
    BY <1>3
  <1> QED BY <1>1, <1>3, <1>4 DEF Counted

\* A sign-in writes one row past the directory, and keeps it on or off.
LEMMA WriteAccountKeepsTables ==
  ASSUME DirInv, NEW n \in DOMAIN logins, WriteAccount(n)
  PROVE  /\ TablesOK' /\ DOMAIN accounts' = DOMAIN accounts \cup {logins[n].who}
         /\ NobodyLetIn
         /\ \A y \in DOMAIN accounts' : SignsInAs(y) \/ (GroupsFollow(y) /\ ContactFollows(y))
  <1> DEFINE x == logins[n].who
             old == IF x \in DOMAIN accounts THEN accounts[x]
                    ELSE [active |-> TRUE, known |-> Nobody]
             row == [handle |-> HandleFor(x, logins[n].handle), mail |-> TRUE,
                     groups |-> logins[n].groups, active |-> old.active, known |-> old.known]
  <1>0. TablesOK
    BY DEF DirInv, DirTypeOK, TablesOK
  <1>1. /\ x \in Subject /\ logins[n].handle \in Handle \cup {Nobody}
        /\ logins[n].groups \in SUBSET Name
    BY DEF DirInv, Underway, LoginRow, WriteAccount
  <1>2. old.active \in BOOLEAN /\ old.known \in UserName \cup {Nobody}
    BY <1>0 DEF TablesOK, AccountRow
  <1>3. row \in AccountRow
    BY <1>1, <1>2, HandleForIsFree DEF AccountRow
  <1>4. accounts' = Upsert(x, row)
    BY DEF WriteAccount
  <1>5. UNCHANGED <<groups, members>>
    BY DEF WriteAccount
  <1>6. /\ row.handle = HandleFor(x, logins[n].handle)
        /\ x \in DOMAIN accounts => row.active = accounts[x].active
    OBVIOUS
  <1> HIDE DEF row
  <1>7. /\ accounts' \in [DOMAIN accounts \cup {x} -> AccountRow]
        /\ DOMAIN accounts' = DOMAIN accounts \cup {x} /\ accounts'[x] = row
        /\ \A y \in DOMAIN accounts \ {x} : accounts'[y] = accounts[y]
    BY <1>0, <1>3, <1>4 DEF TablesOK, Upsert
  <1>8. HandlesUnique'
    BY <1>0, <1>6, <1>7, HandleForIsFree, HandlesStayUnique DEF TablesOK
  <1>9. NobodyLetIn
    BY <1>6, <1>7 DEF NobodyLetIn
  <1>10. SignsInAs(x)
    BY DEF WriteAccount, SignsInAs
  <1>11. ASSUME NEW y \in DOMAIN accounts', y # x PROVE GroupsFollow(y) /\ ContactFollows(y)
    <2>1. y \in DOMAIN accounts /\ accounts'[y] = accounts[y]
      BY <1>7, <1>11
    <2>2. GroupsDue(y)' = GroupsDue(y)
      BY <1>5, <2>1 DEF GroupsDue
    <2> QED BY <2>1, <2>2 DEF GroupsFollow, ContactFollows
  <1>12. TablesOK'
    BY <1>0, <1>1, <1>5, <1>7, <1>8 DEF TablesOK
  <1> QED BY <1>7, <1>9, <1>10, <1>11, <1>12

-----------------------------------------------------------------------------
(* Every step keeps the invariant.                                         *)

\* The provider's door.
LEMMA ScimStepKeeps ==
  ASSUME DirInv, NEW r \in Slot, ScimStep(r)
  PROVE  DirInv'
  <1>0. TablesOK /\ Underway /\ MetIsThere
    BY DEF DirInv, DirTypeOK, TablesOK
  <1>1. CASE \E x \in Subject : FindUser(r, x)
    <2>1. PICK x \in Subject : FindUser(r, x)
      BY <1>1
    <2> DEFINE request == [op |-> "remove_user", step |-> "found", who |-> x,
                           name |-> accounts[x].known]
    <2>2. request \in Removal /\ request.who = x
      BY <1>0, <2>1 DEF FindUser, TablesOK, AccountRow, Removal
    <2>3. Begins(r, request) /\ x \in DOMAIN accounts /\ UNCHANGED <<tables, signIn>>
      BY <2>1 DEF FindUser
    <2> HIDE DEF request
    <2> QED BY <2>2, <2>3, BeginningKeeps DEF Request
  <1>2. CASE \E g \in GroupId, n \in Name, given \in Lists :
               LookUpToCreate(r, g, n, given) \/ LookUpToWrite(r, g, n, given)
    <2>1. PICK g \in GroupId, n \in Name, given \in Lists :
               LookUpToCreate(r, g, n, given) \/ LookUpToWrite(r, g, n, given)
      BY <1>2
    <2>2. HolderOf(n) \subseteq GroupId
      BY <1>0 DEF TablesOK, HolderOf
    <2>3. PICK id \in GroupId :
            Begins(r, [op |-> "put_group", step |-> "looked", id |-> id, name |-> n,
                       given |-> given])
      BY <2>1, <2>2 DEF LookUpToCreate, LookUpToWrite
    <2> DEFINE request == [op |-> "put_group", step |-> "looked", id |-> id, name |-> n,
                           given |-> given]
    <2>4. request \in GroupPut /\ request.op = "put_group"
      BY DEF GroupPut
    <2>5. Begins(r, request) /\ UNCHANGED <<tables, signIn>>
      BY <2>1, <2>3 DEF LookUpToCreate, LookUpToWrite
    <2> HIDE DEF request
    <2> QED BY <2>4, <2>5, BeginningKeeps DEF Request
  <1>3. CASE \E g \in GroupId, add, remove \in SUBSET Subject : CheckPatch(r, g, add, remove)
    <2>1. PICK g \in GroupId, add \in SUBSET Subject, remove \in SUBSET Subject :
            CheckPatch(r, g, add, remove)
      BY <1>3
    <2> DEFINE request == [op |-> "patch_group", step |-> IF add = {} THEN "remove" ELSE "add",
                           id |-> g, add |-> add, remove |-> remove]
    <2>2. request \in GroupPatch /\ request.op = "patch_group"
      BY DEF GroupPatch
    <2>3. Begins(r, request) /\ UNCHANGED <<tables, signIn>>
      BY <2>1 DEF CheckPatch
    <2> HIDE DEF request
    <2> QED BY <2>2, <2>3, BeginningKeeps DEF Request
  <1>4. CASE SwitchOff(r)
    <2>1. requests[r] \in Removal /\ requests[r] # Idle
      BY <1>0, <1>4, RequestIsTold DEF SwitchOff, At, Idle, Removal
    <2>2. requests[r].who \in Subject /\ requests[r].name \in UserName
      BY <2>1 DEF Removal
    <2>3. TablesOK' /\ DOMAIN accounts \subseteq DOMAIN accounts'
      BY <1>0, <1>4, <2>2, PutUserKeeps DEF SwitchOff
    <2>4. Goes(r, "off") /\ UNCHANGED signIn
      BY <1>4 DEF SwitchOff
    <2> QED BY <2>1, <2>3, <2>4, GoingKeeps
  <1>5. CASE DropMemberships(r)
    <2>1. requests[r] \in Removal /\ requests[r] # Idle
      BY <1>0, <1>5, RequestIsTold DEF DropMemberships, At, Idle, Removal
    <2>2. Goes(r, "out") /\ UNCHANGED signIn
      BY <1>5 DEF DropMemberships
    <2> QED BY <1>5, <2>1, <2>2, RemovalKeepsTables, GoingKeeps
  <1>6. CASE ForgetUser(r)
    <2>1. requests[r] # Idle /\ Ends(r) /\ UNCHANGED signIn
      BY <1>6 DEF ForgetUser, At, Idle
    <2> QED BY <1>6, <2>1, RemovalKeepsTables, GoingKeeps
  <1>7. CASE StoreGroup(r)
    <2>1. requests[r] \in GroupPut /\ requests[r] # Idle
      BY <1>0, <1>7, RequestIsTold DEF StoreGroup, At, Idle, GroupPut
    <2>2. requests[r].id \in GroupId /\ requests[r].name \in Name /\ requests[r].given \in Lists
      BY <2>1 DEF GroupPut
    <2>3. TablesOK' /\ DOMAIN accounts' = DOMAIN accounts
      BY <1>0, <1>7, <2>2, PutGroupKeeps DEF StoreGroup
    <2>4. Ends(r) /\ UNCHANGED signIn
      BY <1>7 DEF StoreGroup
    <2> QED BY <2>1, <2>3, <2>4, GoingKeeps
  <1>8. CASE AddMembers(r)
    <2> DEFINE mem == members \cup {requests[r].id} \X requests[r].add
    <2>1. requests[r] \in GroupPatch /\ requests[r] # Idle
      BY <1>0, <1>8, RequestIsTold DEF AddMembers, At, Idle, GroupPatch
    <2>2. requests[r].id \in DOMAIN groups /\ requests[r].add \in SUBSET Subject
      BY <1>8, <2>1 DEF AddMembers, GroupPatch
    <2>3. ChangeMembers(mem, requests[r].add)
      BY <1>8 DEF AddMembers
    <2>4. /\ mem \subseteq (DOMAIN groups) \X Subject
          /\ \A x \in Subject \ requests[r].add : \A g \in DOMAIN groups :
               <<g, x>> \in mem <=> <<g, x>> \in members
      BY <1>0, <2>2 DEF TablesOK
    <2> HIDE DEF mem
    <2>5. TablesOK' /\ DOMAIN accounts' = DOMAIN accounts
      BY <1>0, <2>2, <2>3, <2>4, ChangeMembersKeeps
    <2>6. (Ends(r) \/ Goes(r, "remove")) /\ UNCHANGED signIn
      BY <1>8 DEF AddMembers
    <2> QED BY <2>1, <2>5, <2>6, GoingKeeps
  <1>9. CASE RemoveMembers(r)
    <2> DEFINE mem == members \ ({requests[r].id} \X requests[r].remove)
    <2>1. requests[r] \in GroupPatch /\ requests[r] # Idle
      BY <1>0, <1>9, RequestIsTold DEF RemoveMembers, At, Idle, GroupPatch
    <2>2. requests[r].remove \in SUBSET Subject
      BY <2>1 DEF GroupPatch
    <2>3. ChangeMembers(mem, requests[r].remove)
      BY <1>9 DEF RemoveMembers
    <2>4. /\ mem \subseteq (DOMAIN groups) \X Subject
          /\ \A x \in Subject \ requests[r].remove : \A g \in DOMAIN groups :
               <<g, x>> \in mem <=> <<g, x>> \in members
      BY <1>0, <2>2 DEF TablesOK
    <2> HIDE DEF mem
    <2>5. TablesOK' /\ DOMAIN accounts' = DOMAIN accounts
      BY <1>0, <2>2, <2>3, <2>4, ChangeMembersKeeps
    <2>6. Ends(r) /\ UNCHANGED signIn
      BY <1>9 DEF RemoveMembers
    <2> QED BY <2>1, <2>5, <2>6, GoingKeeps
  <1>10. CASE Breaks(r)
    <2>1. TablesOK' /\ DOMAIN accounts' = DOMAIN accounts
      BY <1>0, <1>10 DEF Breaks, TablesOK, HandlesUnique, tables
    <2> QED BY <1>10, <2>1, GoingKeeps DEF Breaks
  <1> QED BY <1>1, <1>2, <1>3, <1>4, <1>5, <1>6, <1>7, <1>8, <1>9, <1>10 DEF ScimStep

\* The sign-in's door, and its sessions.
LEMMA SignInStepKeeps ==
  ASSUME DirInv, NEW n \in DOMAIN logins, SignInStep(n)
  PROVE  DirInv'
  <1>1. CASE Callback(n)
    <2>1. PICK x \in SignsIn, token \in Tokens :
            LoginGoes(n, [step |-> "known", who |-> x, handle |-> token.handle,
                          groups |-> token.groups])
      BY <1>1 DEF Callback
    <2> DEFINE record == [step |-> "known", who |-> x, handle |-> token.handle,
                          groups |-> token.groups]
    <2>2. record \in LoginRow /\ record.step = "known"
      BY SignsInAssumption, TokenAssumption DEF LoginRow
    <2>3. LoginGoes(n, record) /\ UNCHANGED <<tables, requests, pending, sessions>>
      BY <1>1, <2>1 DEF Callback
    <2> HIDE DEF record
    <2> QED BY <2>2, <2>3, LoginGoesKeeps
  <1>2. CASE WriteAccount(n)
    <2>1. TablesOK' /\ DOMAIN accounts' = DOMAIN accounts \cup {logins[n].who}
      BY <1>2, WriteAccountKeepsTables
    <2>2. /\ logins[n] \in LoginRow /\ logins[n].step = "known"
          /\ LoginGoes(n, [logins[n] EXCEPT !.step = "written"])
          /\ UNCHANGED <<requests, pending, sessions>>
      BY <1>2 DEF WriteAccount, DirInv, Underway
    <2> DEFINE record == [logins[n] EXCEPT !.step = "written"]
    <2>3. record \in LoginRow /\ record.who = logins[n].who
      BY <2>2 DEF LoginRow
    <2> HIDE DEF record
    <2>4. /\ logins' \in [DOMAIN logins' -> LoginRow] /\ DOMAIN logins' = DOMAIN logins
          /\ logins'[n] = record
          /\ \A m \in DOMAIN logins \ {n} : logins'[m] = logins[m]
      BY <2>2, <2>3 DEF DirInv, Underway, LoginGoes, record
    <2>5. \A m \in DOMAIN logins' :
            logins'[m].step = "written" => logins'[m].who \in DOMAIN accounts'
      BY <2>1, <2>3, <2>4 DEF DirInv, MetIsThere
    <2>6. /\ DOMAIN sessions' \subseteq DOMAIN logins'
          /\ sessions' \in [DOMAIN sessions' -> SessionRow]
          /\ \A m \in DOMAIN sessions' : sessions'[m].who \in DOMAIN accounts'
          /\ pending' \in {0} \cup DOMAIN logins'
      BY <2>1, <2>2, <2>4 DEF DirInv, DirTypeOK, MetIsThere
    <2>7. Counted'
      BY <2>2, <2>4 DEF DirInv, Counted
    <2> QED BY <2>1, <2>2, <2>4, <2>5, <2>6, <2>7, SignInKeeps
  <1>3. CASE OpenSession(n)
    <2> DEFINE row == [who |-> logins[n].who, groups |-> logins[n].groups, over |-> FALSE]
               done == [step |-> "done"]
    <2>1. /\ logins[n] \in LoginRow /\ logins[n].step = "written"
          /\ logins[n].who \in DOMAIN accounts
      BY <1>3 DEF OpenSession, DirInv, Underway, MetIsThere
    <2>2. row \in SessionRow /\ row.who = logins[n].who
      BY <2>1 DEF LoginRow, SessionRow
    <2>3. sessions' = [m \in DOMAIN sessions \cup {n} |-> IF m = n THEN row ELSE sessions[m]]
      BY <1>3 DEF OpenSession
    <2> HIDE DEF row
    <2>4. /\ sessions' \in [DOMAIN sessions \cup {n} -> SessionRow]
          /\ \A m \in DOMAIN sessions' : sessions'[m].who \in DOMAIN accounts
      BY <2>1, <2>2, <2>3 DEF DirInv, DirTypeOK, MetIsThere
    <2>5. done \in LoginRow /\ done.step = "done"
      BY DEF LoginRow
    <2>6. LoginGoes(n, done) /\ UNCHANGED <<tables, requests>> /\ pending' = 0
      BY <1>3 DEF OpenSession
    <2> HIDE DEF done
    <2> QED BY <2>4, <2>5, <2>6, LoginGoesKeeps
  <1>4. CASE LoginFails(n)
    <2> DEFINE done == [step |-> "done"]
    <2>1. done \in LoginRow /\ done.step = "done"
      BY DEF LoginRow
    <2>2. LoginGoes(n, done) /\ UNCHANGED <<tables, requests, pending, sessions>>
      BY <1>4 DEF LoginFails
    <2> HIDE DEF done
    <2> QED BY <2>1, <2>2, LoginGoesKeeps
  <1>5. CASE Expire(n)
    <2>1. /\ sessions' = [sessions EXCEPT ![n] = [sessions[n] EXCEPT !.over = TRUE]]
          /\ n \in DOMAIN sessions
          /\ UNCHANGED <<tables, requests, logins, pending>>
      BY <1>5 DEF Expire
    <2>2. /\ [sessions[n] EXCEPT !.over = TRUE] \in SessionRow
          /\ [sessions[n] EXCEPT !.over = TRUE].who = sessions[n].who
      BY <2>1 DEF DirInv, DirTypeOK, SessionRow
    <2>3. /\ DOMAIN sessions' = DOMAIN sessions /\ sessions' \in [DOMAIN sessions' -> SessionRow]
          /\ \A m \in DOMAIN sessions' : sessions'[m].who = sessions[m].who
      BY <2>1, <2>2 DEF DirInv, DirTypeOK
    <2> QED BY <2>1, <2>3, FewerSessionsKeep
  <1>6. CASE Logout(n)
    <2>1. /\ DOMAIN sessions' = DOMAIN sessions \ {n}
          /\ \A m \in DOMAIN sessions' : sessions'[m] = sessions[m]
          /\ sessions' \in [DOMAIN sessions' -> SessionRow]
      BY <1>6 DEF Logout, Restrict, DirInv, DirTypeOK
    <2> QED BY <1>6, <2>1, FewerSessionsKeep DEF Logout
  <1> QED BY <1>1, <1>2, <1>3, <1>4, <1>5, <1>6 DEF SignInStep

\* The invariant holds in every state.
THEOREM DirectoryIsSound == DirSpec => []DirInv
  <1>1. DirInit => DirInv
    <2> SUFFICES ASSUME DirInit PROVE DirInv
      OBVIOUS
    <2>1. DirTypeOK /\ HandlesUnique
      BY DEF DirInit, DirTypeOK, HandlesUnique
    <2>2. Underway /\ MetIsThere
      BY DEF DirInit, Underway, MetIsThere, Request, Idle
    <2>3. DOMAIN logins = 1 .. 0
      BY DEF DirInit
    <2>4. Counted
      BY <2>3 DEF DirInit, Counted
    <2> QED BY <2>1, <2>2, <2>4 DEF DirInv
  <1>2. DirInv /\ [DirNext]_dirVars => DirInv'
    <2> SUFFICES ASSUME DirInv, [DirNext]_dirVars PROVE DirInv'
      OBVIOUS
    <2>0. TablesOK
      BY DEF DirInv, DirTypeOK, TablesOK
    <2>1. CASE \E r \in Slot : ScimStep(r)
      BY <2>1, ScimStepKeeps
    <2>2. CASE \E x \in Subject, n \in UserName, active \in BOOLEAN : WriteUser(x, n, active)
      <3>1. TablesOK' /\ DOMAIN accounts \subseteq DOMAIN accounts' /\ UNCHANGED <<requests, signIn>>
        BY <2>0, <2>2, PutUserKeeps DEF WriteUser
      <3> QED BY <3>1, ScimKeeps DEF DirInv, Underway, MetIsThere
    <2>3. CASE \E g \in GroupId : RemoveGroup(g)
      <3>1. TablesOK' /\ DOMAIN accounts = DOMAIN accounts' /\ UNCHANGED <<requests, signIn>>
        BY <2>0, <2>3, DeleteGroupKeeps DEF RemoveGroup
      <3> QED BY <3>1, ScimKeeps DEF DirInv, Underway, MetIsThere
    <2>4. CASE Login
      <3>1. /\ Counted'
            /\ DOMAIN logins' = DOMAIN logins \cup {pending'}
            /\ pending' \notin DOMAIN logins
            /\ \A m \in DOMAIN logins : logins'[m] = logins[m]
            /\ logins'[pending'] = [step |-> "out"]
        BY <2>4, LoginIsNewest
      <3>2. UNCHANGED <<tables, requests, sessions>>
        BY <2>4 DEF Login
      <3>3. TablesOK' /\ accounts' = accounts
        BY <2>0, <3>2 DEF TablesOK, HandlesUnique, tables
      <3>4. [step |-> "out"] \in LoginRow /\ [step |-> "out"].step # "written"
        BY DEF LoginRow
      <3>5. logins' \in [DOMAIN logins' -> LoginRow]
        <4>1. logins' = [m \in DOMAIN logins' |-> logins'[m]]
          BY <2>4 DEF Login
        <4> QED BY <3>1, <3>4, <4>1 DEF DirInv, Underway
      <3>6. \A m \in DOMAIN logins' :
              logins'[m].step = "written" => logins'[m].who \in DOMAIN accounts'
        BY <3>1, <3>3, <3>4 DEF DirInv, MetIsThere
      <3>7. /\ DOMAIN sessions' \subseteq DOMAIN logins'
            /\ sessions' \in [DOMAIN sessions' -> SessionRow]
            /\ \A m \in DOMAIN sessions' : sessions'[m].who \in DOMAIN accounts'
        BY <3>1, <3>2, <3>3 DEF DirInv, DirTypeOK, MetIsThere
      <3> QED BY <3>1, <3>2, <3>3, <3>5, <3>6, <3>7, SignInKeeps
    <2>5. CASE \E n \in DOMAIN logins : SignInStep(n)
      BY <2>5, SignInStepKeeps
    <2>6. CASE Purge
      <3>1. /\ sessions' = Restrict(sessions, {n \in DOMAIN sessions : ~sessions[n].over})
            /\ UNCHANGED <<tables, requests, logins, pending>>
        BY <2>6 DEF Purge
      <3>2. /\ DOMAIN sessions' \subseteq DOMAIN sessions
            /\ \A m \in DOMAIN sessions' : sessions'[m] = sessions[m]
            /\ sessions' \in [DOMAIN sessions' -> SessionRow]
        BY <3>1 DEF Restrict, DirInv, DirTypeOK
      <3> QED BY <3>1, <3>2, FewerSessionsKeep
    <2>7. CASE UNCHANGED dirVars
      BY <2>7 DEF dirVars, tables, signIn, DirInv, DirTypeOK, Underway, MetIsThere, Counted,
         HandlesUnique
    <2> QED BY <2>1, <2>2, <2>3, <2>4, <2>5, <2>6, <2>7 DEF DirNext
  <1> QED BY <1>1, <1>2, PTL DEF DirSpec

-----------------------------------------------------------------------------
(* What follows.                                                           *)

\* Rows, memberships, requests and cookies are of their kinds, a membership is of a group
\* that exists and a session of a sign-in that was begun (db/directory.rs, auth/mod.rs).
THEOREM DirTypeCorrect == DirSpec => []DirTypeOK
  <1>1. DirInv => DirTypeOK
    BY DEF DirInv
  <1> QED BY <1>1, DirectoryIsSound, PTL

\* Neither door ever fails at the unique index on handles (auth/mod.rs, directory.rs: put_user).
THEOREM NoHandleTwice == DirSpec => []HandlesUnique
  <1>1. DirInv => HandlesUnique
    BY DEF DirInv
  <1> QED BY <1>1, DirectoryIsSound, PTL

\* A step leaves every row as the directory has it, or as it was while the directory says
\* the same of them, but for the two steps that do otherwise; and lets nobody in again
\* unless the directory does.
LEMMA StepFollows ==
  ASSUME DirInv, DirNext
  PROVE  /\ \A x \in DOMAIN accounts' :
              /\ GroupsFollow(x) \/ SignsInAs(x) \/ RemovalMeetsActive(x)
              /\ ContactFollows(x) \/ SignsInAs(x)
         /\ NobodyLetIn \/ UNCHANGED signIn
  <1>0. TablesOK /\ Underway
    BY DEF DirInv, DirTypeOK, TablesOK
  <1> DEFINE Claim == /\ \A x \in DOMAIN accounts' :
                           /\ GroupsFollow(x) \/ SignsInAs(x) \/ RemovalMeetsActive(x)
                           /\ ContactFollows(x) \/ SignsInAs(x)
                      /\ NobodyLetIn \/ UNCHANGED signIn
  <1>1. RowsFollow /\ (NobodyLetIn \/ UNCHANGED signIn) => Claim
    BY DEF RowsFollow
  <1>2. ASSUME UNCHANGED tables PROVE Claim
    BY <1>1, <1>2, NothingFollows
  <1>3. ASSUME NEW r \in Slot, ScimStep(r) PROVE Claim
    <2>1. CASE SwitchOff(r)
      <3>1. requests[r] \in Removal
        BY <1>0, <2>1, RequestIsTold DEF SwitchOff, At
      <3>2. requests[r].who \in Subject /\ requests[r].name \in UserName
        BY <3>1 DEF Removal
      <3> QED BY <1>0, <1>1, <2>1, <3>2, PutUserKeeps DEF SwitchOff
    <2>2. CASE DropMemberships(r) \/ ForgetUser(r)
      BY <2>2, RemovalKeepsTables
    <2>3. CASE StoreGroup(r)
      <3>1. requests[r] \in GroupPut
        BY <1>0, <2>3, RequestIsTold DEF StoreGroup, At
      <3>2. requests[r].id \in GroupId /\ requests[r].name \in Name /\ requests[r].given \in Lists
        BY <3>1 DEF GroupPut
      <3> QED BY <1>0, <1>1, <2>3, <3>2, PutGroupKeeps DEF StoreGroup
    <2>4. CASE AddMembers(r)
      <3> DEFINE mem == members \cup {requests[r].id} \X requests[r].add
      <3>1. requests[r] \in GroupPatch
        BY <1>0, <2>4, RequestIsTold DEF AddMembers, At
      <3>2. requests[r].id \in DOMAIN groups /\ requests[r].add \in SUBSET Subject
        BY <2>4, <3>1 DEF AddMembers, GroupPatch
      <3>3. ChangeMembers(mem, requests[r].add)
        BY <2>4 DEF AddMembers
      <3>4. /\ mem \subseteq (DOMAIN groups) \X Subject
            /\ \A x \in Subject \ requests[r].add : \A g \in DOMAIN groups :
                 <<g, x>> \in mem <=> <<g, x>> \in members
        BY <1>0, <3>2 DEF TablesOK
      <3> HIDE DEF mem
      <3> QED BY <1>0, <1>1, <3>2, <3>3, <3>4, ChangeMembersKeeps
    <2>5. CASE RemoveMembers(r)
      <3> DEFINE mem == members \ ({requests[r].id} \X requests[r].remove)
      <3>1. requests[r] \in GroupPatch
        BY <1>0, <2>5, RequestIsTold DEF RemoveMembers, At
      <3>2. requests[r].remove \in SUBSET Subject
        BY <3>1 DEF GroupPatch
      <3>3. ChangeMembers(mem, requests[r].remove)
        BY <2>5 DEF RemoveMembers
      <3>4. /\ mem \subseteq (DOMAIN groups) \X Subject
            /\ \A x \in Subject \ requests[r].remove : \A g \in DOMAIN groups :
                 <<g, x>> \in mem <=> <<g, x>> \in members
        BY <1>0 DEF TablesOK
      <3> HIDE DEF mem
      <3> QED BY <1>0, <1>1, <3>2, <3>3, <3>4, ChangeMembersKeeps
    <2> QED
      BY <1>2, <1>3, <2>1, <2>2, <2>3, <2>4, <2>5
      DEF ScimStep, FindUser, LookUpToCreate, LookUpToWrite, CheckPatch, Breaks
  <1>4. ASSUME NEW x \in Subject, NEW name \in UserName, NEW active \in BOOLEAN,
               WriteUser(x, name, active)
        PROVE  Claim
    BY <1>0, <1>1, <1>4, PutUserKeeps DEF WriteUser
  <1>5. ASSUME NEW g \in GroupId, RemoveGroup(g) PROVE Claim
    BY <1>0, <1>1, <1>5, DeleteGroupKeeps DEF RemoveGroup
  <1>6. ASSUME NEW n \in DOMAIN logins, SignInStep(n) PROVE Claim
    <2>1. CASE WriteAccount(n)
      BY <2>1, WriteAccountKeepsTables
    <2> QED
      BY <1>2, <1>6, <2>1 DEF SignInStep, Callback, OpenSession, LoginFails, Expire, Logout
  <1> HIDE DEF Claim
  <1>7. Claim
    BY <1>2, <1>3, <1>4, <1>5, <1>6 DEF DirNext, Login, Purge
  <1> QED BY <1>7 DEF Claim

\* Whatever is interleaved with it or cuts it off, a step that changes what the directory
\* says of somebody changes their row with it; a row says otherwise only from one of two
\* steps, named in the property (directory.rs: recompute, put_user, put_group, delete_user).
THEOREM TheDirectoryDecides == DirSpec => DirectoryDecides
  <1> DEFINE Follows == \A x \in DOMAIN accounts' :
                          /\ GroupsFollow(x) \/ SignsInAs(x) \/ RemovalMeetsActive(x)
                          /\ ContactFollows(x) \/ SignsInAs(x)
  <1>1. DirInv /\ [DirNext]_dirVars => [Follows]_dirVars
    BY StepFollows
  <1> QED BY <1>1, DirectoryIsSound, PTL DEF DirSpec, DirectoryDecides

\* Every cookie has or loses what the directory gives or takes in the step that gives or
\* takes it, and none is worth something again but by the directory
\* (auth/mod.rs: Sessions::load, Sessions::create).
THEOREM CookiesFollow == DirSpec => SessionsFollowDirectory
  <1> DEFINE Shows(shown, x) ==
               /\ \/ shown.groups = Entitled(groups, members, x)'
                  \/ /\ x \in DOMAIN accounts /\ shown.groups = accounts[x].groups
                     /\ Entitled(groups, members, x)' = Entitled(groups, members, x)
                  \/ SignsInAs(x) \/ RemovalMeetsActive(x)
               /\ x \in DOMAIN accounts /\ ~accounts[x].active => UNCHANGED signIn
             Follow == \A n \in DOMAIN sessions' : \A shown \in Load(n)' :
                         LET x == shown.who IN Shows(shown, x)
  <1>1. DirInv /\ DirInv' /\ [DirNext]_dirVars => [Follow]_dirVars
    <2> SUFFICES ASSUME DirInv, DirInv', DirNext,
                        NEW n \in DOMAIN sessions', NEW shown \in Load(n)', NEW x, x = shown.who
                 PROVE  Shows(shown, x)
      OBVIOUS
    <2>1. /\ x = sessions'[n].who /\ accounts'[x].active
          /\ shown.groups = accounts'[x].groups
      BY DEF Load
    <2>2. x \in DOMAIN accounts'
      BY <2>1 DEF DirInv, MetIsThere
    <2>3. GroupsFollow(x) \/ SignsInAs(x) \/ RemovalMeetsActive(x)
      BY <2>2, StepFollows
    <2>4. NobodyLetIn \/ UNCHANGED signIn
      BY StepFollows
    <2>5. x \in DOMAIN accounts /\ ~accounts[x].active => UNCHANGED signIn
      BY <2>1, <2>4 DEF NobodyLetIn
    <2>6. GroupsDue(x)' = Entitled(groups, members, x)'
      BY <2>1 DEF GroupsDue
    <2>7. ASSUME GroupsFollow(x)
          PROVE  \/ shown.groups = Entitled(groups, members, x)'
                 \/ /\ x \in DOMAIN accounts /\ shown.groups = accounts[x].groups
                    /\ Entitled(groups, members, x)' = Entitled(groups, members, x)
      <3>1. CASE accounts'[x].groups = GroupsDue(x)'
        BY <2>1, <2>6, <3>1
      <3>2. CASE /\ x \in DOMAIN accounts /\ accounts'[x].groups = accounts[x].groups
                 /\ accounts'[x].active = accounts[x].active
                 /\ GroupsDue(x)' = GroupsDue(x)
        BY <2>1, <2>6, <3>2 DEF GroupsDue
      <3> QED BY <2>7, <3>1, <3>2 DEF GroupsFollow
    <2> QED BY <2>3, <2>5, <2>7
  <1> QED BY <1>1, DirectoryIsSound, PTL DEF DirSpec, SessionsFollowDirectory

\* Only the newest sign-in of the browser goes through (web: callback; oidc.rs: states_match).
THEOREM NewestSignInOnly == DirSpec => OnlyNewestSignIn
  <1> DEFINE Newest == \A n \in DOMAIN logins :
                         logins[n].step = "out" /\ logins'[n].step = "known" =>
                           \A m \in DOMAIN logins : m <= n
  <1>1. DirInv /\ [DirNext]_dirVars => [Newest]_dirVars
    <2> SUFFICES ASSUME DirInv, DirNext PROVE Newest
      OBVIOUS
    <2> SUFFICES ASSUME NEW n \in DOMAIN logins,
                        logins[n].step = "out", logins'[n].step = "known"
                 PROVE  \A m \in DOMAIN logins : m <= n
      OBVIOUS
    <2>1. ASSUME Login PROVE FALSE
      BY <2>1, LoginIsNewest
    <2>2. ASSUME NEW k \in DOMAIN logins, NEW record, LoginGoes(k, record)
          PROVE  n = k
      BY <2>2 DEF LoginGoes, DirInv, Underway
    <2>3. ASSUME NEW k \in DOMAIN logins, SignInStep(k)
          PROVE  k = n /\ Callback(n)
      <3>1. CASE Callback(k)
        BY <2>2, <3>1 DEF Callback
      <3>2. CASE WriteAccount(k) \/ OpenSession(k) \/ LoginFails(k)
        BY <2>2, <3>2 DEF WriteAccount, OpenSession, LoginFails
      <3>3. CASE Expire(k) \/ Logout(k)
        BY <3>3 DEF Expire, Logout
      <3> QED BY <2>3, <3>1, <3>2, <3>3 DEF SignInStep
    <2>4. ASSUME UNCHANGED logins PROVE FALSE
      BY <2>4
    <2>5. ASSUME NEW r \in Slot, ScimStep(r) PROVE UNCHANGED logins
      BY <2>5 DEF ScimStep, FindUser, LookUpToCreate, LookUpToWrite, CheckPatch, SwitchOff,
         DropMemberships, ForgetUser, StoreGroup, AddMembers, RemoveMembers, Breaks, signIn
    <2>6. Callback(n)
      BY <2>1, <2>3, <2>4, <2>5 DEF DirNext, WriteUser, RemoveGroup, Purge, signIn
    <2> QED BY <2>6 DEF Callback, StatesMatch, DirInv, Counted
  <1> QED BY <1>1, DirectoryIsSound, PTL DEF DirSpec, OnlyNewestSignIn

\* Nobody loses a membership to a request that does not say so (scim.rs: checked_members).
THEOREM MembersLeaveByName == DirSpec => MembersGoByName
  <1> DEFINE ByName ==
        \A m \in members \ members' :
          \/ m[1] \notin DOMAIN groups'
          \/ \E r \in Slot :
               \/ At(r, "remove_user", "off") /\ requests[r].who = m[2]
               \/ At(r, "patch_group", "remove") /\ requests[r].id = m[1]
                    /\ m[2] \in requests[r].remove
               \/ /\ At(r, "put_group", "looked") /\ requests[r].id = m[1]
                  /\ requests[r].given # Untouched /\ m[2] \notin requests[r].given
  <1>1. DirInv /\ [DirNext]_dirVars => [ByName]_dirVars
    <2> SUFFICES ASSUME DirInv, DirNext PROVE ByName
      OBVIOUS
    <2> SUFFICES ASSUME NEW m \in members \ members', m[1] \in DOMAIN groups'
                 PROVE  \E r \in Slot :
                          \/ At(r, "remove_user", "off") /\ requests[r].who = m[2]
                          \/ At(r, "patch_group", "remove") /\ requests[r].id = m[1]
                               /\ m[2] \in requests[r].remove
                          \/ /\ At(r, "put_group", "looked") /\ requests[r].id = m[1]
                             /\ requests[r].given # Untouched /\ m[2] \notin requests[r].given
      OBVIOUS
    <2>0. m = <<m[1], m[2]>> /\ m[2] \in Subject
      BY DEF DirInv, DirTypeOK
    <2>1. ASSUME UNCHANGED members PROVE FALSE
      BY <2>1
    <2>2. ASSUME NEW g \in GroupId, RemoveGroup(g) PROVE FALSE
      BY <2>0, <2>2 DEF RemoveGroup, DeleteGroup, Restrict
    <2>3. ASSUME NEW r \in Slot, ScimStep(r)
          PROVE  \/ DropMemberships(r) \/ StoreGroup(r) \/ RemoveMembers(r)
      <3>1. CASE AddMembers(r)
        BY <3>1 DEF AddMembers, ChangeMembers
      <3> QED
        BY <2>1, <2>3, <3>1 DEF ScimStep, FindUser, LookUpToCreate, LookUpToWrite, CheckPatch,
           SwitchOff, PutUser, ForgetUser, Breaks, tables
    <2>4. PICK r \in Slot : DropMemberships(r) \/ StoreGroup(r) \/ RemoveMembers(r)
      <3>1. ASSUME NEW n \in DOMAIN logins, SignInStep(n) PROVE UNCHANGED members
        BY <3>1 DEF SignInStep, Callback, WriteAccount, OpenSession, LoginFails, Expire, Logout,
           tables
      <3> QED
        BY <2>1, <2>2, <2>3, <3>1 DEF DirNext, WriteUser, PutUser, Login, Purge, tables
    <2>5. CASE DropMemberships(r)
      BY <2>5 DEF DropMemberships
    <2>6. CASE StoreGroup(r)
      <3>1. /\ requests[r].given # Untouched
            /\ m \notin {requests[r].id} \X requests[r].given
            /\ m[1] = requests[r].id
        BY <2>6 DEF StoreGroup, PutGroup
      <3>2. m[2] \notin requests[r].given
        BY <2>0, <3>1
      <3> QED BY <2>6, <3>1, <3>2 DEF StoreGroup
    <2>7. CASE RemoveMembers(r)
      <3>1. m \in {requests[r].id} \X requests[r].remove
        BY <2>7 DEF RemoveMembers, ChangeMembers
      <3>2. m[1] = requests[r].id /\ m[2] \in requests[r].remove
        BY <3>1
      <3> QED BY <2>7, <3>2 DEF RemoveMembers
    <2> QED BY <2>4, <2>5, <2>6, <2>7
  <1> QED BY <1>1, DirectoryIsSound, PTL DEF DirSpec, MembersGoByName
==============================================================================
