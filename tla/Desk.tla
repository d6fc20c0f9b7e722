-------------------------------- MODULE Desk --------------------------------
(***************************************************************************)
(* The web handlers that look first and write later (web/mod.rs), on the   *)
(* tables of module Board, and the start of the program, which brings the  *)
(* articles' directories into them before anybody is served (main.rs:      *)
(* mirror_articles; articles.rs: mirror).                                  *)
(*                                                                         *)
(* A handler loads a topic through its space and keeps the number; by the  *)
(* time it writes, the topic may be gone and its number another topic's.   *)
(* A handler may end after any step.  One request is followed step by      *)
(* step per slot; the others commit between its steps.  An upload is a     *)
(* file, a reply that shows it and a row that says whose it is.            *)
(***************************************************************************)
EXTENDS Board, Sequences

CONSTANTS
  Readers,      \* space -> the people who may read it (authz.rs)
  Order,        \* the spaces as configured
  Slot,         \* bound: requests followed step by step
  Callers,      \* bound: people whose requests are
  MaxFiles      \* bound: uploads ever written

ASSUME ReadersAssumption == Readers \in [Space -> SUBSET Person]
ASSUME OrderAssumption == Order \in Seq(Space) /\ MaxFiles \in Nat

VARIABLES
  requests,     \* slot -> the request under way
  files,        \* attachments/: the files written
  pictures,     \* <<born of a post, file>>: its text shows it
  attachments,  \* file -> the post its row names
  dirs,         \* space -> the files in its article directory
  start         \* how far the start has come: [at, left]

uploads == <<files, pictures, attachments>>
deskVars == <<boardVars, requests, uploads, dirs, start>>

Idle == [op |-> "idle"]
Serving == start.at > Len(Order)

\* Rows of attachments go with their post (ON DELETE CASCADE).
Cascade ==
  attachments' = Restrict(attachments, {f \in DOMAIN attachments : attachments[f] \in DOMAIN posts'})

Becomes(r, request) == requests' = [requests EXCEPT ![r] = request]
Unwritten == UNCHANGED <<boardVars, uploads>>
Served == Serving /\ UNCHANGED <<dirs, start>>

\* load_topic through the space of the page, then the rights; no file and no post yet.
Loads(r, who, s, t, op) ==
  /\ requests[r] = Idle
  /\ who \in Readers[s] /\ Visible(s, t)
  /\ Becomes(r, [op |-> op, who |-> who, space |-> s, topic |-> t, born |-> clock,
                 file |-> 0, post |-> 0])

-----------------------------------------------------------------------------
(* topic_page.                                                             *)

LoadPage(r, who, s, t) == Loads(r, who, s, t, "page") /\ Unwritten /\ Served

\* Mutant: opening a topic reads everything.
MarkAllLoaded(r) ==
  /\ requests[r].op = "page"
  /\ MarkRead({k \in DOMAIN inbox : k[1] = requests[r].who})
  /\ Becomes(r, Idle)
  /\ UNCHANGED <<topics, posts, follows, likes, outbox, optedOut, clock, uploads>>
  /\ Served

\* mark_topic_read, by the topic's number, after the posts were loaded.
MarkLoaded(r) ==
  /\ requests[r].op = "page"
  /\ MarkRead({k \in DOMAIN inbox : k[1] = requests[r].who /\ posts[k[2]].topic = requests[r].topic})
  /\ Becomes(r, Idle)
  /\ UNCHANGED <<topics, posts, follows, likes, outbox, optedOut, clock, uploads>>
  /\ Served

-----------------------------------------------------------------------------
(* reply, follow, unfollow.                                                *)

LoadToReply(r, who, s, t)  == Loads(r, who, s, t, "reply") /\ Unwritten /\ Served
LoadToFollow(r, who, s, t) == Loads(r, who, s, t, "follow") /\ Unwritten /\ Served

\* Mutant: the writer may be told.
ToldAnybody(who, s) == SUBSET Readers[s]

\* mentions::to_tell: readers of the space the request came through, not the writer.
ToTell(who, s) == SUBSET (Readers[s] \ {who})

\* A topic that is gone breaks the foreign key.
AddLoaded(r) ==
  LET t == requests[r].topic IN
  /\ requests[r].op = "reply"
  /\ t \in DOMAIN topics
  /\ \E m \in ToTell(requests[r].who, requests[r].space) :
       AddReply(requests[r].who, topics[t].space, t, m)
  /\ Becomes(r, Idle)
  /\ UNCHANGED uploads /\ Served

FollowLoaded(r) ==
  LET t == requests[r].topic IN
  /\ requests[r].op = "follow"
  /\ t \in DOMAIN topics
  /\ \/ Follow(requests[r].who, topics[t].space, t)
     \/ Unfollow(requests[r].who, topics[t].space, t)
  /\ Becomes(r, Idle)
  /\ UNCHANGED uploads /\ Served

-----------------------------------------------------------------------------
(* attach and serve_attachment.                                            *)

LoadToAttach(r, who, s, t) == Loads(r, who, s, t, "attach") /\ Unwritten /\ Served

\* Mutant: the file is written after the reply, if at all.
StoreLater(r) ==
  /\ requests[r].op = "attach"
  /\ Becomes(r, [requests[r] EXCEPT !.op = "stored", !.file = Cardinality(files) + 1])
  /\ UNCHANGED <<boardVars, uploads>> /\ Served

\* The bytes, stripped, under a name nobody has had.
StoreFile(r) ==
  /\ requests[r].op = "attach"
  /\ Cardinality(files) < MaxFiles
  /\ LET f == Cardinality(files) + 1 IN
     /\ files' = files \cup {f}
     /\ Becomes(r, [requests[r] EXCEPT !.op = "stored", !.file = f])
  /\ UNCHANGED <<boardVars, pictures, attachments>> /\ Served

\* An upload mentions nobody.
AddPicture(r) ==
  LET t == requests[r].topic IN
  /\ requests[r].op = "stored"
  /\ t \in DOMAIN topics
  /\ AddReply(requests[r].who, topics[t].space, t, {})
  /\ pictures' = pictures \cup {<<clock, requests[r].file>>}
  /\ \E p \in DOMAIN posts' \ DOMAIN posts :
       Becomes(r, [requests[r] EXCEPT !.op = "added", !.post = p])
  /\ UNCHANGED <<files, attachments>> /\ Served

\* Mutant: the row names the newest post.
RecordNewest(r) ==
  /\ requests[r].op = "added"
  /\ \E p \in DOMAIN posts :
       /\ \A q \in DOMAIN posts : q <= p
       /\ attachments' = [f \in DOMAIN attachments \cup {requests[r].file} |->
                            IF f = requests[r].file THEN p ELSE attachments[f]]
  /\ Becomes(r, Idle)
  /\ UNCHANGED <<boardVars, files, pictures>> /\ Served

\* attachments::record; a post that is gone breaks the foreign key.
Record(r) ==
  /\ requests[r].op = "added"
  /\ requests[r].post \in DOMAIN posts
  /\ attachments' = [f \in DOMAIN attachments \cup {requests[r].file} |->
                       IF f = requests[r].file THEN requests[r].post ELSE attachments[f]]
  /\ Becomes(r, Idle)
  /\ UNCHANGED <<boardVars, files, pictures>> /\ Served

\* A statement fails, or the client hangs up and the handler is dropped.
Breaks(r) ==
  /\ requests[r] # Idle
  /\ Becomes(r, Idle)
  /\ Unwritten /\ Served

\* What serve_attachment finds in a space: attachments::load, then the file.
Serves(s) == {f \in DOMAIN attachments : VisiblePost(s, attachments[f])}

-----------------------------------------------------------------------------
(* Handlers whose write asks again what they looked at, so that nothing    *)
(* comes between: one step each, and a reply nobody interrupts.  They      *)
(* mention nobody here; module Board has their mentions.                   *)

Whole(who, s) ==
  /\ who \in Readers[s]
  /\ Cascade
  /\ UNCHANGED <<requests, files, pictures>> /\ Served

OpenTopic(who, s) == CreateTopic(who, s, {}) /\ Whole(who, s)

Reply(who, s, t) == who \notin Callers /\ AddReply(who, s, t, {}) /\ Whole(who, s)

\* update_post_mentioning finds nothing when the post is not this person's, here.
EditPost(who, s, p) == who \notin Callers /\ UpdatePost(who, s, p, {}) /\ Whole(who, s)

DeletePost(who, s, p) == (DeleteReply(who, s, p) \/ DeleteTopic(who, s, p)) /\ Whole(who, s)

Others(who, s) ==
  \/ OpenTopic(who, s)
  \/ \E t \in DOMAIN topics : Reply(who, s, t)
  \/ \E p \in DOMAIN posts : EditPost(who, s, p) \/ DeletePost(who, s, p)

-----------------------------------------------------------------------------
(* The start.                                                              *)

\* The program stops, files come and go, and it starts again.
Restart ==
  /\ dirs' \in [Space -> SUBSET SourceKey]
  /\ start' = [at |-> 1, left |-> dirs'[Order[1]]]
  /\ requests' = [r \in Slot |-> Idle]
  /\ UNCHANGED <<boardVars, uploads>>

Here == Order[start.at]

Mirrors ==
  /\ ~Serving
  /\ \E key \in start.left :
       /\ MirrorNew(key, Here) \/ MirrorAgain(key, Here)
       /\ start' = [start EXCEPT !.left = @ \ {key}]
  /\ UNCHANGED <<requests, uploads, dirs>>

Missing == {key \in SourceKey \ dirs[Here] : \E t \in SourceTopics(key) : Visible(Here, t)}

Hides ==
  /\ ~Serving /\ start.left = {}
  /\ \E key \in SourceKey \ dirs[Here] : HideMissing(key, Here)
  /\ UNCHANGED <<requests, uploads, dirs, start>>

NextSpace ==
  /\ ~Serving /\ start.left = {} /\ Missing = {}
  /\ start' = [at |-> start.at + 1,
               left |-> IF start.at < Len(Order) THEN dirs[Order[start.at + 1]] ELSE {}]
  /\ UNCHANGED <<boardVars, requests, uploads, dirs>>

-----------------------------------------------------------------------------
DeskInit ==
  /\ BoardInit
  /\ requests = [r \in Slot |-> Idle]
  /\ files = {} /\ pictures = {} /\ attachments = <<>>
  /\ dirs = [s \in Space |-> {}]
  /\ start = [at |-> 1, left |-> {}]

RequestStep(r) ==
  \/ \E who \in Callers, s \in Space, t \in DOMAIN topics :
       \/ LoadPage(r, who, s, t) \/ LoadToReply(r, who, s, t)
       \/ LoadToFollow(r, who, s, t) \/ LoadToAttach(r, who, s, t)
  \/ MarkLoaded(r) \/ AddLoaded(r) \/ FollowLoaded(r)
  \/ StoreFile(r) \/ AddPicture(r) \/ Record(r) \/ Breaks(r)

DeskNext ==
  \/ \E r \in Slot : RequestStep(r)
  \/ \E who \in Person, s \in Space : Others(who, s)
  \/ Restart \/ Mirrors \/ Hides \/ NextSpace

DeskSpec == DeskInit /\ [][DeskNext]_deskVars

-----------------------------------------------------------------------------
(* What lists show (topics.rs: listed).                                    *)

ListedTopics(s) == {t \in DOMAIN topics : Visible(s, t)}

\* Mutant: anybody's entry counts.
UnreadMarkOfAll(x, t) == \E k \in DOMAIN inbox : inbox[k].unread /\ posts[k[2]].topic = t

UnreadMark(x, t) == \E k \in DOMAIN inbox : k[1] = x /\ inbox[k].unread /\ posts[k[2]].topic = t

-----------------------------------------------------------------------------
(* Properties.                                                             *)

\* Whatever a handler looked at before, what it commits is one of the board's
\* transactions, with everything that belongs to it: what is proved of the board
\* holds of the handlers (web/mod.rs; topics.rs).
HandlersKeepTheBoard == BoardSpec

\* A row of attachments names the post that shows the file - or that post was
\* taken back between the reply and its row, and another has its number
\* (web: attach).
RowsNameTheirPost ==
  \A f \in DOMAIN attachments :
    \/ <<posts[attachments[f]].born, f>> \in pictures
    \/ \A p \in DOMAIN posts : <<posts[p].born, f>> \notin pictures

\* Nothing is offered that is not there: whatever a post shows, and whatever a row
\* names, has its file, wherever an upload broke off (web: attach, serve_attachment).
FilesComeFirst ==
  /\ \A picture \in pictures : picture[2] \in files
  /\ \A s \in Space : Serves(s) \subseteq files

\* Opening a page makes an entry read only for a post of the topic that was
\* opened, or one written since the page was loaded (web: topic_page).
PageReadsItsTopic ==
  [][\A k \in DOMAIN inbox \cap DOMAIN inbox' : inbox[k].unread /\ ~inbox'[k].unread =>
       \E r \in Slot :
         /\ requests[r].op = "page" /\ requests[r].who = k[1]
         /\ \/ posts[k[2]].topic = requests[r].topic /\ topics[requests[r].topic].born < requests[r].born
            \/ posts[k[2]].born >= requests[r].born]_deskVars

\* Once the program serves, an article is shown exactly when a directory has its
\* file, and in the last space whose directory has it - also when files moved
\* between spaces, and when an earlier start was cut off (articles.rs: mirror).
ArticlesAreOnDisk ==
  Serving => \A key \in SourceKey :
    LET having == {i \in 1 .. Len(Order) : key \in dirs[Order[i]]} IN
    IF having = {} THEN \A t \in SourceTopics(key) : topics[t].hidden
    ELSE \E t \in SourceTopics(key), i \in having :
           (\A j \in having : j <= i) /\ Visible(Order[i], t)

\* Once it serves, a topic the list marks as unread is on the bell, too, unless the entry was
\* written while the topic was an article of another space (topics.rs: listed;
\* inbox.rs: unread_count).
MarkIsOnTheBell ==
  Serving => \A x \in Person, s \in Space : \A t \in ListedTopics(s) :
    x \in Readers[s] /\ UnreadMark(x, t) =>
      \/ \E line \in UnreadLines(x, {z \in Space : x \in Readers[z]}) :
           line = <<"replies", t>> \/ \E p \in PostsOf(t) : line[1] # "replies" /\ line[2] = p
      \/ \E k \in DOMAIN inbox : k[1] = x /\ posts[k[2]].topic = t /\ inbox[k].space # topics[t].space
=============================================================================
