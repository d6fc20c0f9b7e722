------------------------------ MODULE Directory ------------------------------
(***************************************************************************)
(* Who exists and what they may read.  Two doors write the accounts: the   *)
(* identity provider pushes people and groups over SCIM (web/scim.rs and   *)
(* db/directory.rs), and a sign-in writes what its token says              *)
(* (web: login, callback; auth: Sessions::create).  Sessions are loaded    *)
(* through the account row, so both doors decide what a cookie is worth.   *)
(*                                                                         *)
(* A statement, or a transaction, is one action; a handler of several is   *)
(* several, and may end after any of them (the database refuses one, the   *)
(* client hangs up, the program stops).  A sign-in is told apart by its    *)
(* `state', counted in the order sign-ins begin, and its session by the    *)
(* same number: both are random and never drawn twice.                     *)
(*                                                                         *)
(* Abstracted: display names; both doors send an address, and whether the  *)
(* row keeps it is what matters; a user name is a value and Folds what     *)
(* checked_handle makes of it; whether a session is over is a fact that    *)
(* turns true.                                                             *)
(***************************************************************************)
EXTENDS Integers, FiniteSets, Functions

CONSTANTS
  Subject,      \* the people's ids
  UserName,     \* user names the provider sends
  Handle,       \* handles treff accepts
  Folds,        \* user name -> its handle, or Nobody when it is none
  Name,         \* names of groups
  GroupId,      \* ids of groups
  Nobody,
  Untouched,    \* in place of a list: a group sent without `members'
  Slot,         \* bound: SCIM requests of several steps under way at a time
  SignsIn,      \* bound: the people who sign in
  Tokens,       \* bound: what tokens say of a person, [handle, groups]
  MaxChanges,   \* bound: members one patch names
  MaxLogins     \* bound: sign-ins ever begun

ASSUME FoldsAssumption == Folds \in [UserName -> Handle \cup {Nobody}]
ASSUME NobodyAssumption == Nobody \notin UserName \cup Handle
ASSUME UntouchedAssumption == \A list \in SUBSET Subject : Untouched # list
ASSUME TokenAssumption ==
  Tokens \subseteq [handle: Handle \cup {Nobody}, groups: SUBSET Name]
ASSUME SignsInAssumption == SignsIn \subseteq Subject
ASSUME DirBoundsAssumption == {MaxChanges, MaxLogins} \subseteq Nat

VARIABLES
  accounts,     \* subject -> [handle, mail, groups, active, known]
  groups,       \* scim_groups: id -> name
  members,      \* scim_members: <<group id, subject>>
  requests,     \* slot -> the SCIM request it is working on
  logins,       \* state -> the sign-in it belongs to
  pending,      \* the state in the browser's pending cookie, 0 without one
  sessions      \* session -> [who, groups, over]

tables == <<accounts, groups, members>>
signIn == <<logins, pending, sessions>>
dirVars == <<tables, requests, signIn>>

Idle == [op |-> "none"]

-----------------------------------------------------------------------------
(* The rows.                                                               *)

\* Mutant: a handle is taken over.
HandleTaken(x, h) == h

\* The handle only if nobody else holds it.
HandleFor(x, h) ==
  IF \E y \in DOMAIN accounts \ {x} : accounts[y].handle = h THEN Nobody ELSE h

\* accounts with one row written.
Upsert(x, row) == [y \in DOMAIN accounts \cup {x} |-> IF y = x THEN row ELSE accounts[y]]

\* The names of the groups somebody is in.
Entitled(grps, mem, x) == {grps[g] : g \in {h \in DOMAIN grps : <<h, x>> \in mem}}

Recompute(rows, grps, mem, people) ==
  [x \in DOMAIN rows |->
     IF x \in people
     THEN [rows[x] EXCEPT !.groups = IF rows[x].active THEN Entitled(grps, mem, x) ELSE {}]
     ELSE rows[x]]

MembersOf(mem, g) == {x \in Subject : <<g, x>> \in mem}

-----------------------------------------------------------------------------
(* db/directory.rs                                                         *)

\* Creates or replaces a person; an inactive one has no handle and no address.
PutUser(x, name, active) ==
  /\ accounts' = Recompute(Upsert(x, [handle |-> IF active THEN HandleFor(x, Folds[name]) ELSE Nobody,
                                      mail |-> active, groups |-> {}, active |-> active,
                                      known |-> name]),
                           groups, members, {x})
  /\ UNCHANGED <<groups, members>>

\* Mutants: a list that is left out is an empty list; only who is in it now is touched.
PutGroupEmptied(g, name, given) ==
  /\ groups' = [h \in DOMAIN groups \cup {g} |-> IF h = g THEN name ELSE groups[h]]
  /\ members' = {m \in members : m[1] # g} \cup {g} \X (IF given = Untouched THEN {} ELSE given)
  /\ accounts' = Recompute(accounts, groups', members',
                           MembersOf(members, g) \cup MembersOf(members', g))

PutGroupNewcomers(g, name, given) ==
  /\ groups' = [h \in DOMAIN groups \cup {g} |-> IF h = g THEN name ELSE groups[h]]
  /\ members' = IF given = Untouched THEN members
                ELSE {m \in members : m[1] # g} \cup {g} \X given
  /\ accounts' = Recompute(accounts, groups', members', MembersOf(members', g))

\* Creates or renames a group; everybody in it before and after is recomputed.
PutGroup(g, name, given) ==
  /\ groups' = [h \in DOMAIN groups \cup {g} |-> IF h = g THEN name ELSE groups[h]]
  /\ members' = IF given = Untouched THEN members
                ELSE {m \in members : m[1] # g} \cup {g} \X given
  /\ accounts' = Recompute(accounts, groups', members',
                           MembersOf(members, g) \cup MembersOf(members', g))

ChangeMembers(mem, people) ==
  /\ members' = mem
  /\ accounts' = Recompute(accounts, groups, mem, people)
  /\ UNCHANGED groups

\* Mutant: the memberships outlive their group.
DeleteGroupAlone(g) ==
  /\ groups' = Restrict(groups, DOMAIN groups \ {g})
  /\ accounts' = Recompute(accounts, groups', members, {})
  /\ UNCHANGED members

\* The memberships go with the group (ON DELETE CASCADE).
DeleteGroup(g) ==
  /\ groups' = Restrict(groups, DOMAIN groups \ {g})
  /\ members' = {m \in members : m[1] # g}
  /\ accounts' = Recompute(accounts, groups', members', MembersOf(members, g))

\* The group that holds a name: none or one, the column is UNIQUE.
HolderOf(name) == {g \in DOMAIN groups : groups[g] = name}

-----------------------------------------------------------------------------
(* web/scim.rs.  A request that was refused or not found changes nothing.  *)

Begins(r, request) == requests[r] = Idle /\ requests' = [requests EXCEPT ![r] = request]
Ends(r) == requests' = [requests EXCEPT ![r] = Idle]
Goes(r, step) == requests' = [requests EXCEPT ![r].step = step]
At(r, op, step) == requests[r].op = op /\ requests[r].step = step

\* create_user and write_user: a second POST is the sync running again.
WriteUser(x, name, active) ==
  /\ PutUser(x, name, active)
  /\ UNCHANGED <<requests, signIn>>

RemoveGroup(g) ==
  /\ g \in DOMAIN groups
  /\ DeleteGroup(g)
  /\ UNCHANGED <<requests, signIn>>

\* remove_user: found, then switched off, out of every group, out of the directory.
FindUser(r, x) ==
  /\ x \in DOMAIN accounts /\ accounts[x].known # Nobody
  /\ Begins(r, [op |-> "remove_user", step |-> "found", who |-> x, name |-> accounts[x].known])
  /\ UNCHANGED <<tables, signIn>>

SwitchOff(r) ==
  /\ At(r, "remove_user", "found")
  /\ PutUser(requests[r].who, requests[r].name, FALSE)
  /\ Goes(r, "off")
  /\ UNCHANGED signIn

\* Nothing is recomputed here: the row was emptied a statement ago, and another request
\* may have filled it since.
DropMemberships(r) ==
  /\ At(r, "remove_user", "off")
  /\ members' = {m \in members : m[2] # requests[r].who}
  /\ Goes(r, "out")
  /\ UNCHANGED <<accounts, groups, signIn>>

ForgetUser(r) ==
  /\ At(r, "remove_user", "out")
  /\ accounts' = [accounts EXCEPT ![requests[r].who].known = Nobody]
  /\ Ends(r)
  /\ UNCHANGED <<groups, members, signIn>>

\* create_group: upsert by name - the holder's id wins over the one sent.
LookUpToCreate(r, g, name, given) ==
  /\ \E id \in IF HolderOf(name) = {} THEN {g} ELSE HolderOf(name) :
       Begins(r, [op |-> "put_group", step |-> "looked", id |-> id, name |-> name, given |-> given])
  /\ UNCHANGED <<tables, signIn>>

\* write_group: another group of this name is a conflict.
LookUpToWrite(r, g, name, given) ==
  /\ HolderOf(name) \subseteq {g}
  /\ Begins(r, [op |-> "put_group", step |-> "looked", id |-> g, name |-> name, given |-> given])
  /\ UNCHANGED <<tables, signIn>>

\* The name may be somebody else's by now: then the constraint refuses it.
StoreGroup(r) ==
  /\ At(r, "put_group", "looked")
  /\ HolderOf(requests[r].name) \subseteq {requests[r].id}
  /\ PutGroup(requests[r].id, requests[r].name, requests[r].given)
  /\ Ends(r)
  /\ UNCHANGED signIn

\* patch_group: understood and found; then all it adds, then all it removes.
CheckPatch(r, g, add, remove) ==
  /\ g \in DOMAIN groups
  /\ Cardinality(add) + Cardinality(remove) \in 1 .. MaxChanges
  /\ Begins(r, [op |-> "patch_group", step |-> IF add = {} THEN "remove" ELSE "add",
                id |-> g, add |-> add, remove |-> remove])
  /\ UNCHANGED <<tables, signIn>>

\* A member of a group that is gone breaks the foreign key.
AddMembers(r) ==
  /\ At(r, "patch_group", "add")
  /\ requests[r].id \in DOMAIN groups
  /\ ChangeMembers(members \cup {requests[r].id} \X requests[r].add, requests[r].add)
  /\ IF requests[r].remove = {} THEN Ends(r) ELSE Goes(r, "remove")
  /\ UNCHANGED signIn

RemoveMembers(r) ==
  /\ At(r, "patch_group", "remove")
  /\ ChangeMembers(members \ ({requests[r].id} \X requests[r].remove), requests[r].remove)
  /\ Ends(r)
  /\ UNCHANGED signIn

\* A statement fails, or the client has hung up and the handler is dropped.
Breaks(r) ==
  /\ requests[r] # Idle
  /\ Ends(r)
  /\ UNCHANGED <<tables, signIn>>

Lists == (SUBSET Subject) \cup {Untouched}

ScimStep(r) ==
  \/ \E x \in Subject : FindUser(r, x)
  \/ \E g \in GroupId, n \in Name, given \in Lists :
       LookUpToCreate(r, g, n, given) \/ LookUpToWrite(r, g, n, given)
  \/ \E g \in GroupId, add, remove \in SUBSET Subject : CheckPatch(r, g, add, remove)
  \/ SwitchOff(r) \/ DropMemberships(r) \/ ForgetUser(r)
  \/ StoreGroup(r) \/ AddMembers(r) \/ RemoveMembers(r)
  \/ Breaks(r)

-----------------------------------------------------------------------------
(* The sign-in (web: login, callback; auth/oidc.rs) and its session.       *)

\* Mutant: a callback that finds no cookie is welcome.
AnyStateMatches(stored, returned) == stored \in {0, returned}

\* An empty stored state is no wildcard.
StatesMatch(stored, returned) == stored # 0 /\ stored = returned

\* A redirect to the provider; the cookie of an earlier one is overwritten.
Login ==
  /\ Cardinality(DOMAIN logins) < MaxLogins
  /\ LET n == Cardinality(DOMAIN logins) + 1 IN
     /\ logins' = [m \in DOMAIN logins \cup {n} |->
                     IF m = n THEN [step |-> "out"] ELSE logins[m]]
     /\ pending' = n
  /\ UNCHANGED <<tables, requests, sessions>>

LoginGoes(n, record) == logins' = [logins EXCEPT ![n] = record]

\* The provider sends the browser back, and takes the code once: what its verified
\* token says of the person.
Callback(n) ==
  /\ logins[n].step = "out"
  /\ StatesMatch(pending, n)
  /\ \E x \in SignsIn, token \in Tokens :
       LoginGoes(n, [step |-> "known", who |-> x, handle |-> token.handle, groups |-> token.groups])
  /\ UNCHANGED <<tables, requests, pending, sessions>>

\* The account row, as the token has it; `active' and the SCIM name are not asked.
WriteAccount(n) ==
  /\ logins[n].step = "known"
  /\ LET x == logins[n].who
         old == IF x \in DOMAIN accounts THEN accounts[x]
                ELSE [active |-> TRUE, known |-> Nobody]
     IN  accounts' = Upsert(x, [handle |-> HandleFor(x, logins[n].handle), mail |-> TRUE,
                                groups |-> logins[n].groups,
                                active |-> old.active, known |-> old.known])
  /\ LoginGoes(n, [logins[n] EXCEPT !.step = "written"])
  /\ UNCHANGED <<groups, members, requests, pending, sessions>>

\* The session row; the answer carries its cookie and spends the pending one.
OpenSession(n) ==
  /\ logins[n].step = "written"
  /\ sessions' = [m \in DOMAIN sessions \cup {n} |->
                    IF m = n THEN [who |-> logins[n].who, groups |-> logins[n].groups, over |-> FALSE]
                    ELSE sessions[m]]
  /\ pending' = 0
  /\ LoginGoes(n, [step |-> "done"])
  /\ UNCHANGED <<tables, requests>>

\* A statement fails or the browser goes away (a token that is refused changes nothing).
LoginFails(n) ==
  /\ logins[n].step \in {"known", "written"}
  /\ LoginGoes(n, [step |-> "done"])
  /\ UNCHANGED <<tables, requests, pending, sessions>>

Expire(n) ==
  /\ n \in DOMAIN sessions /\ ~sessions[n].over
  /\ sessions' = [sessions EXCEPT ![n].over = TRUE]
  /\ UNCHANGED <<tables, requests, logins, pending>>

Logout(n) ==
  /\ n \in DOMAIN sessions
  /\ sessions' = Restrict(sessions, DOMAIN sessions \ {n})
  /\ UNCHANGED <<tables, requests, logins, pending>>

\* Every hour the rows that are over go.
Purge ==
  /\ \E n \in DOMAIN sessions : sessions[n].over
  /\ sessions' = Restrict(sessions, {n \in DOMAIN sessions : ~sessions[n].over})
  /\ UNCHANGED <<tables, requests, logins, pending>>

SignInStep(n) ==
  \/ Callback(n) \/ WriteAccount(n) \/ OpenSession(n) \/ LoginFails(n)
  \/ Expire(n) \/ Logout(n)

\* Mutant: the session keeps the groups of its sign-in (before audit 3, B93).
LoadKept(n) ==
  {[who |-> sessions[m].who, groups |-> sessions[m].groups] :
     m \in {k \in DOMAIN sessions : k = n /\ ~sessions[k].over}}

\* Sessions::load, behind every page: the person of a session, or nothing.
Load(n) ==
  {[who |-> sessions[m].who, groups |-> accounts[sessions[m].who].groups] :
     m \in {k \in DOMAIN sessions : /\ k = n /\ ~sessions[k].over
                                    /\ accounts[sessions[k].who].active}}

-----------------------------------------------------------------------------
DirInit ==
  /\ accounts = <<>> /\ groups = <<>> /\ members = {}
  /\ requests = [r \in Slot |-> Idle]
  /\ logins = <<>> /\ pending = 0 /\ sessions = <<>>

DirNext ==
  \/ \E r \in Slot : ScimStep(r)
  \/ \E x \in Subject, n \in UserName, active \in BOOLEAN : WriteUser(x, n, active)
  \/ \E g \in GroupId : RemoveGroup(g)
  \/ Login
  \/ \E n \in DOMAIN logins : SignInStep(n)
  \/ Purge

DirSpec == DirInit /\ [][DirNext]_dirVars
-----------------------------------------------------------------------------
(* Properties.                                                             *)

AccountRow == [handle: Handle \cup {Nobody}, mail: BOOLEAN, groups: SUBSET Name,
               active: BOOLEAN, known: UserName \cup {Nobody}]
SessionRow == [who: Subject, groups: SUBSET Name, over: BOOLEAN]

DirTypeOK ==
  /\ DOMAIN accounts \subseteq Subject /\ accounts \in [DOMAIN accounts -> AccountRow]
  /\ DOMAIN groups \subseteq GroupId /\ groups \in [DOMAIN groups -> Name]
  /\ members \subseteq (DOMAIN groups) \X Subject
  /\ DOMAIN requests = Slot
  /\ DOMAIN sessions \subseteq DOMAIN logins /\ sessions \in [DOMAIN sessions -> SessionRow]
  /\ pending \in {0} \cup DOMAIN logins

\* No two people answer to one handle, so that neither a sign-in nor a sync ever
\* fails at the unique index (auth/mod.rs: "a sign-in must not fail over a
\* nickname"; directory.rs: put_user follows the same rule).
HandlesUnique ==
  \A x, y \in DOMAIN accounts :
    x # y /\ accounts[x].handle # Nobody => accounts[x].handle # accounts[y].handle

\* What the directory makes of somebody's groups.
GroupsDue(x) == IF accounts[x].active THEN Entitled(groups, members, x) ELSE {}

\* A step leaves a row as the directory has it, or has nothing to do with it.
GroupsFollow(x) ==
  \/ accounts'[x].groups = GroupsDue(x)'
  \/ /\ x \in DOMAIN accounts
     /\ accounts'[x].groups = accounts[x].groups
     /\ accounts'[x].active = accounts[x].active
     /\ GroupsDue(x)' = GroupsDue(x)

ContactFollows(x) ==
  \/ accounts'[x].active
  \/ accounts'[x].handle = Nobody /\ ~accounts'[x].mail
  \/ /\ x \in DOMAIN accounts /\ ~accounts[x].active
     /\ accounts'[x].handle = accounts[x].handle /\ accounts'[x].mail = accounts[x].mail

\* The two steps that do otherwise: a sign-in writes what its token says, and a
\* removal drops the memberships of somebody another request has switched on again.
SignsInAs(x) ==
  \E n \in DOMAIN logins :
    /\ logins[n].step = "known" /\ logins[n].who = x
    /\ LoginGoes(n, [logins[n] EXCEPT !.step = "written"])

RemovalMeetsActive(x) ==
  \E r \in Slot :
    /\ At(r, "remove_user", "off") /\ requests[r].who = x
    /\ accounts[x].active
    /\ Goes(r, "out")

\* Whatever a request changes of what the directory says of somebody - the person,
\* a group's name, a membership, a whole group - their row says in the same step:
\* the groups are the memberships, and somebody switched off has no groups, no
\* handle and no address, whichever requests ran in between or were cut off.  A row
\* stops saying so in two steps only, each in its own transaction: when a sign-in
\* writes it, and when a removal meets a row switched on again; the groups then
\* stay wrong until a request next touches them (directory.rs: recompute, put_user,
\* put_group, delete_user; auth/mod.rs: Sessions::create).
DirectoryDecides ==
  [][\A x \in DOMAIN accounts' :
       /\ GroupsFollow(x) \/ SignsInAs(x) \/ RemovalMeetsActive(x)
       /\ ContactFollows(x) \/ SignsInAs(x)]_dirVars

\* What the directory gives or takes away, every cookie of that person has or loses
\* in the same step, whatever the token of its sign-in said; in the two steps above
\* it shows the row instead.  And somebody switched off is let in again by the
\* directory only: no sign-in, finished or under way, gives a cookie its worth
\* back (auth/mod.rs: Sessions::load, Sessions::create).
SessionsFollowDirectory ==
  [][\A n \in DOMAIN sessions' : \A shown \in Load(n)' :
       LET x == shown.who IN
       /\ \/ shown.groups = Entitled(groups, members, x)'
          \/ /\ x \in DOMAIN accounts /\ shown.groups = accounts[x].groups
             /\ Entitled(groups, members, x)' = Entitled(groups, members, x)
          \/ SignsInAs(x) \/ RemovalMeetsActive(x)
       /\ x \in DOMAIN accounts /\ ~accounts[x].active => UNCHANGED signIn]_dirVars

\* A sign-in is finished only from the newest one the browser began, and not
\* after another was finished there: what an older tab brings back is refused
\* (web: callback; oidc.rs: states_match).
OnlyNewestSignIn ==
  [][\A n \in DOMAIN logins :
       logins[n].step = "out" /\ logins'[n].step = "known" =>
         \A m \in DOMAIN logins : m <= n]_dirVars

\* A membership goes only with a request that says so: the group's or the
\* person's removal, a list without them, a patch that names them.  A group sent
\* without a list loses nobody (scim.rs: checked_members; put_group).
MembersGoByName ==
  [][\A m \in members \ members' :
       \/ m[1] \notin DOMAIN groups'
       \/ \E r \in Slot :
            \/ At(r, "remove_user", "off") /\ requests[r].who = m[2]
            \/ At(r, "patch_group", "remove") /\ requests[r].id = m[1] /\ m[2] \in requests[r].remove
            \/ /\ At(r, "put_group", "looked") /\ requests[r].id = m[1]
               /\ requests[r].given # Untouched /\ m[2] \notin requests[r].given]_dirVars
=============================================================================
