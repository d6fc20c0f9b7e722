----------------------------- MODULE DeskProofs -----------------------------
(***************************************************************************)
(* What holds of the handlers and of the start for any number of people,   *)
(* spaces, requests, articles and uploads: their steps are the board's,    *)
(* so the board's theorems carry over, and what they add to it is right.   *)
(***************************************************************************)
EXTENDS Desk, BoardProofs, FiniteSetTheorems

\* Posts are told apart by when they were written, and none is older than its topic.
BornInOrder ==
  /\ \A p, q \in DOMAIN posts : posts[p].born = posts[q].born => p = q
  /\ \A p \in DOMAIN posts : posts[p].born < clock /\ topics[posts[p].topic].born <= posts[p].born

\* A request under way; `file' and `post' are 0 until it has them.
Request == [op: {"page", "reply", "follow", "attach", "stored", "added"},
            who: Person, space: Space, topic: Id, born: Nat, file: Nat, post: Nat]

\* A request is under way only while the program serves, and its number is never a
\* withdrawn article's: those are withdrawn before anybody is served.
Attended ==
  /\ requests \in [Slot -> {Idle} \cup Request]
  /\ \A r \in Slot : requests[r] # Idle =>
       Serving /\ (requests[r].topic \in DOMAIN topics => ~topics[requests[r].topic].hidden)

Carries(r) == requests[r].op \in {"stored", "added"}

\* The post of this number shows the file, or whichever did is gone.
Shows(p, f) ==
  \E b \in Nat :
    /\ <<b, f>> \in pictures
    /\ (p \in DOMAIN posts /\ posts[p].born = b) \/ \A q \in DOMAIN posts : posts[q].born # b

\* A file is carried by one request or named by one row, and shown by one post ever.
Uploaded ==
  /\ \E n \in Nat : files = 1 .. n
  /\ pictures \subseteq Nat \X files
  /\ \A x, y \in pictures : x[2] = y[2] => x = y
  /\ \A x \in pictures : x[1] < clock
  /\ DOMAIN attachments \subseteq files /\ attachments \in [DOMAIN attachments -> DOMAIN posts]
  /\ \A f \in DOMAIN attachments : Shows(attachments[f], f)
  /\ \A r \in Slot : Carries(r) =>
       /\ requests[r].file \in files \ DOMAIN attachments
       /\ \A q \in Slot \ {r} : Carries(q) => requests[q].file # requests[r].file
  /\ \A r \in Slot : requests[r].op = "stored" =>
       \A x \in pictures : x[2] # requests[r].file
  /\ \A r \in Slot : requests[r].op = "added" => Shows(requests[r].post, requests[r].file)

Spaces == {Order[i] : i \in 1 .. Len(Order)}

\* The directories whose file of this name the start has brought in.
Seen(key) ==
  {j \in 1 .. Len(Order) : /\ key \in dirs[Order[j]]
                           /\ j < start.at \/ (j = start.at /\ key \notin start.left)}

\* As far as the start has come, an article is where the last directory with its file
\* is, and one that no directory had is shown in none of their spaces.
BroughtIn ==
  /\ dirs \in [Space -> SUBSET SourceKey]
  /\ start.at \in Nat \ {0} /\ start = [at |-> start.at, left |-> start.left]
  /\ ~Serving => start.left \subseteq dirs[Order[start.at]]
  /\ \A t, u \in DOMAIN topics : Mirrored(t) /\ topics[t].source = topics[u].source => t = u
  /\ \A t \in DOMAIN topics : Mirrored(t) => topics[t].space \in Spaces
  /\ \A key \in SourceKey :
       \/ \E i \in Seen(key), t \in SourceTopics(key) :
            (\A j \in Seen(key) : j <= i) /\ Visible(Order[i], t)
       \/ /\ Seen(key) = {}
          /\ \A j \in 1 .. Len(Order), t \in SourceTopics(key) :
               j < start.at => ~Visible(Order[j], t)

\* The inductive invariant.
DeskInv == BoardInv /\ BornInOrder /\ Attended /\ Uploaded /\ BroughtIn
-----------------------------------------------------------------------------
(* What a transaction of the board does to topics and posts.               *)

\* No post is written.
Kept ==
  /\ clock' = clock
  /\ DOMAIN posts' \subseteq DOMAIN posts /\ \A p \in DOMAIN posts' : posts'[p] = posts[p]
  /\ DOMAIN topics' \subseteq DOMAIN topics
  /\ \A t \in DOMAIN topics' : topics'[t].born = topics[t].born

\* One post is written, perhaps with its topic.
Grown(p) ==
  /\ clock' = clock + 1
  /\ p \notin DOMAIN posts /\ DOMAIN posts' = DOMAIN posts \cup {p} /\ posts'[p].born = clock
  /\ \A q \in DOMAIN posts : posts'[q] = posts[q]
  /\ DOMAIN topics \subseteq DOMAIN topics'
  /\ \A t \in DOMAIN topics' :
       IF t \in DOMAIN topics THEN topics'[t].born = topics[t].born ELSE topics'[t].born = clock

\* No article comes, goes, moves or changes between shown and withdrawn.
ArticlesStay ==
  /\ \A t \in DOMAIN topics' :
       topics'[t].source # Nobody \/ topics'[t].hidden =>
         t \in DOMAIN topics /\ topics'[t] = topics[t]
  /\ \A t \in DOMAIN topics :
       topics[t].source # Nobody => t \in DOMAIN topics' /\ topics'[t] = topics[t]

\* topics.rs: create_topic_mentioning.
LEMMA CreateTopicShape ==
  ASSUME BoardInv, NEW who, NEW s, NEW m, CreateTopic(who, s, m)
  PROVE  (\E p \in Id : Grown(p)) /\ ArticlesStay
  <1>0. DOMAIN topics \in SUBSET Id /\ DOMAIN posts \in SUBSET Id
    BY DEF BoardInv, Core, IsTable
  <1> DEFINE topic == [space |-> s, source |-> Nobody, hidden |-> FALSE, born |-> clock]
  <1>1. PICK t \in NextId(DOMAIN topics), p \in NextId(DOMAIN posts) :
          /\ topics' = With(topics, Row(t, topic))
          /\ posts' = With(posts, Row(p, [topic |-> t, author |-> who, born |-> clock]))
    BY DEF CreateTopic
  <1>2. clock' = clock + 1
    BY DEF CreateTopic
  <1>3. /\ t \notin DOMAIN topics /\ DOMAIN topics' = DOMAIN topics \cup {t} /\ topics'[t] = topic
        /\ \A u \in DOMAIN topics : topics'[u] = topics[u]
    <2>1. topics' = With(topics, Row(t, topic))
      BY <1>1
    <2>2. t \in Id /\ t \notin DOMAIN topics
      BY <1>0, NextIdIsFresh
    <2> HIDE DEF topic
    <2> QED BY <2>1, <2>2 DEF With, Row
  <1> DEFINE post == [topic |-> t, author |-> who, born |-> clock]
  <1>4. /\ p \notin DOMAIN posts /\ p \in Id /\ DOMAIN posts' = DOMAIN posts \cup {p}
        /\ posts'[p] = post
        /\ \A q \in DOMAIN posts : posts'[q] = posts[q]
    <2>1. posts' = With(posts, Row(p, post))
      BY <1>1
    <2>2. p \in Id /\ p \notin DOMAIN posts
      BY <1>0, NextIdIsFresh
    <2> HIDE DEF post
    <2> QED BY <2>1, <2>2 DEF With, Row
  <1>5. Grown(p)
    BY <1>2, <1>3, <1>4 DEF Grown
  <1>6. ArticlesStay
    BY <1>3 DEF ArticlesStay
  <1> QED BY <1>4, <1>5, <1>6

\* topics.rs: add_reply_mentioning.
LEMMA AddReplyShape ==
  ASSUME BoardInv, NEW who, NEW s, NEW t, NEW m, AddReply(who, s, t, m)
  PROVE  /\ \E p \in Id : Grown(p) /\ posts'[p].topic = t
         /\ ArticlesStay
  <1>0. DOMAIN posts \in SUBSET Id
    BY DEF BoardInv, Core, IsTable
  <1>1. PICK p \in NextId(DOMAIN posts) :
          posts' = With(posts, Row(p, [topic |-> t, author |-> who, born |-> clock]))
    BY DEF AddReply
  <1>2. clock' = clock + 1 /\ topics' = topics
    BY DEF AddReply
  <1> DEFINE post == [topic |-> t, author |-> who, born |-> clock]
  <1>3. /\ p \notin DOMAIN posts /\ p \in Id /\ DOMAIN posts' = DOMAIN posts \cup {p}
        /\ posts'[p] = post
        /\ \A q \in DOMAIN posts : posts'[q] = posts[q]
    <2>1. posts' = With(posts, Row(p, post))
      BY <1>1
    <2>2. p \in Id /\ p \notin DOMAIN posts
      BY <1>0, NextIdIsFresh
    <2> HIDE DEF post
    <2> QED BY <2>1, <2>2 DEF With, Row
  <1>4. Grown(p) /\ posts'[p].topic = t
    BY <1>2, <1>3 DEF Grown
  <1> QED BY <1>2, <1>3, <1>4 DEF ArticlesStay

\* topics.rs: delete_post, both ways: an article's opening post is the publisher's.
LEMMA DeletePostShape ==
  ASSUME BoardInv, NEW who \in Person, NEW s \in Space, NEW p \in DOMAIN posts,
         DeleteReply(who, s, p) \/ DeleteTopic(who, s, p)
  PROVE  Kept /\ ArticlesStay
  <1>1. ASSUME NEW f, NEW S PROVE DOMAIN Restrict(f, S) = S /\ \A x \in S : Restrict(f, S)[x] = f[x]
    BY DEF Restrict
  <1>2. PICK gone : posts' = Restrict(posts, DOMAIN posts \ gone)
    BY DEF DeleteReply, DeleteTopic, WithoutPosts
  <1>3. DOMAIN posts' \subseteq DOMAIN posts /\ \A q \in DOMAIN posts' : posts'[q] = posts[q]
    BY <1>1, <1>2
  <1>4. CASE DeleteReply(who, s, p)
    BY <1>3, <1>4 DEF DeleteReply, Kept, ArticlesStay
  <1>5. CASE DeleteTopic(who, s, p)
    <2>1. /\ topics' = Restrict(topics, DOMAIN topics \ {posts[p].topic}) /\ clock' = clock
          /\ posts[p].author = who /\ Opens(p)
      BY <1>5 DEF DeleteTopic
    <2>2. ~Mirrored(posts[p].topic)
      BY <2>1, PublisherAssumption DEF BoardInv, Core
    <2>3. /\ DOMAIN topics' = DOMAIN topics \ {posts[p].topic}
          /\ \A t \in DOMAIN topics' : topics'[t] = topics[t]
      BY <1>1, <2>1
    <2> QED BY <1>3, <2>1, <2>2, <2>3 DEF Kept, ArticlesStay, Mirrored
  <1> QED BY <1>4, <1>5

\* Whatever a person's request commits writes at most one post and leaves articles alone.
LEMMA PersonStepShape ==
  ASSUME BoardInv, NEW who \in Person, NEW s \in Space, PersonStep(who, s)
  PROVE  (Kept \/ \E p \in Id : Grown(p)) /\ ArticlesStay
  <1>1. ASSUME UNCHANGED <<topics, posts, clock>> PROVE Kept /\ ArticlesStay
    BY <1>1 DEF Kept, ArticlesStay
  <1>2. CASE \E m \in SUBSET (Person \ {who}) : CreateTopic(who, s, m)
    BY <1>2, CreateTopicShape
  <1>3. CASE \E t \in DOMAIN topics, m \in SUBSET (Person \ {who}) : AddReply(who, s, t, m)
    BY <1>3, AddReplyShape
  <1>4. CASE \E p \in DOMAIN posts : DeleteReply(who, s, p) \/ DeleteTopic(who, s, p)
    BY <1>4, DeletePostShape
  <1>5. CASE \/ \E p \in DOMAIN posts, m \in SUBSET (Person \ {who}) : UpdatePost(who, s, p, m)
             \/ \E t \in DOMAIN topics : Follow(who, s, t) \/ Unfollow(who, s, t)
             \/ \E p \in DOMAIN posts : Like(who, s, p) \/ Unlike(who, s, p)
             \/ \E t \in DOMAIN topics : MarkTopicRead(who, s, t)
    BY <1>1, <1>5 DEF UpdatePost, Follow, Unfollow, Like, Unlike, MarkTopicRead
  <1> QED BY <1>2, <1>3, <1>4, <1>5 DEF PersonStep

\* The article of this file is the only topic that changes, or it is new.
OnlyArticle(t, key) ==
  /\ DOMAIN topics' = DOMAIN topics \cup {t} /\ topics'[t].source = key
  /\ \A u \in DOMAIN topics \ {t} : topics'[u] = topics[u]
  /\ t \in DOMAIN topics => topics[t].source = key

\* articles.rs: a new article is a new topic with a new post.
LEMMA MirrorNewShape ==
  ASSUME BoardInv, NEW key \in SourceKey, NEW s, MirrorNew(key, s)
  PROVE  /\ \E p \in Id : Grown(p)
         /\ \E t \in Id : /\ OnlyArticle(t, key) /\ t \notin DOMAIN topics
                          /\ topics'[t].space = s /\ ~topics'[t].hidden
  <1>0. DOMAIN topics \in SUBSET Id /\ DOMAIN posts \in SUBSET Id
    BY DEF BoardInv, Core, IsTable
  <1> DEFINE topic == [space |-> s, source |-> key, hidden |-> FALSE, born |-> clock]
  <1>1. PICK t \in NextId(DOMAIN topics), p \in NextId(DOMAIN posts) :
          /\ topics' = With(topics, Row(t, topic))
          /\ posts' = With(posts, Row(p, [topic |-> t, author |-> Publisher, born |-> clock]))
    BY DEF MirrorNew
  <1>2. clock' = clock + 1
    BY DEF MirrorNew
  <1>3. /\ t \notin DOMAIN topics /\ t \in Id
        /\ DOMAIN topics' = DOMAIN topics \cup {t} /\ topics'[t] = topic
        /\ \A u \in DOMAIN topics : topics'[u] = topics[u]
    <2>1. topics' = With(topics, Row(t, topic))
      BY <1>1
    <2>2. t \in Id /\ t \notin DOMAIN topics
      BY <1>0, NextIdIsFresh
    <2> HIDE DEF topic
    <2> QED BY <2>1, <2>2 DEF With, Row
  <1> DEFINE post == [topic |-> t, author |-> Publisher, born |-> clock]
  <1>4. /\ p \notin DOMAIN posts /\ p \in Id /\ DOMAIN posts' = DOMAIN posts \cup {p}
        /\ posts'[p] = post
        /\ \A q \in DOMAIN posts : posts'[q] = posts[q]
    <2>1. posts' = With(posts, Row(p, post))
      BY <1>1
    <2>2. p \in Id /\ p \notin DOMAIN posts
      BY <1>0, NextIdIsFresh
    <2> HIDE DEF post
    <2> QED BY <2>1, <2>2 DEF With, Row
  <1>5. Grown(p)
    BY <1>2, <1>3, <1>4 DEF Grown
  <1>6. OnlyArticle(t, key) /\ topics'[t].space = s /\ ~topics'[t].hidden
    BY <1>3 DEF OnlyArticle
  <1> QED BY <1>3, <1>4, <1>5, <1>6

\* articles.rs: a known article, brought in again.
LEMMA MirrorAgainShape ==
  ASSUME BoardInv, NEW key, NEW s, MirrorAgain(key, s)
  PROVE  /\ Kept /\ UNCHANGED posts
         /\ \E t \in SourceTopics(key) :
              OnlyArticle(t, key) /\ topics'[t].space = s /\ ~topics'[t].hidden
  <1>1. PICK t \in SourceTopics(key) :
          topics' = [topics EXCEPT ![t] = [topics[t] EXCEPT !.space = s, !.hidden = FALSE]]
    BY DEF MirrorAgain
  <1>2. t \in DOMAIN topics /\ topics[t].source = key /\ topics[t] \in TopicRow
    BY <1>1 DEF SourceTopics, IsTable, BoardInv, Core
  <1>3. topics'[t] = [topics[t] EXCEPT !.space = s, !.hidden = FALSE]
    BY <1>1, <1>2
  <1>4. /\ topics'[t].source = key /\ topics'[t].space = s /\ ~topics'[t].hidden
        /\ topics'[t].born = topics[t].born
    BY <1>2, <1>3 DEF TopicRow
  <1>5. DOMAIN topics' = DOMAIN topics /\ \A u \in DOMAIN topics \ {t} : topics'[u] = topics[u]
    BY <1>1
  <1>6. UNCHANGED <<posts, clock>>
    BY DEF MirrorAgain
  <1>7. Kept
    BY <1>4, <1>5, <1>6 DEF Kept
  <1> QED BY <1>2, <1>4, <1>5, <1>6, <1>7 DEF OnlyArticle

\* articles.rs: a known article, withdrawn where it is shown.
LEMMA HideMissingShape ==
  ASSUME BoardInv, NEW key, NEW s, HideMissing(key, s)
  PROVE  /\ Kept /\ UNCHANGED posts
         /\ \E t \in SourceTopics(key) :
              /\ OnlyArticle(t, key) /\ Visible(s, t)
              /\ topics'[t].space = s /\ topics'[t].hidden
  <1>1. PICK t \in SourceTopics(key) :
          /\ Visible(s, t)
          /\ topics' = [topics EXCEPT ![t] = [topics[t] EXCEPT !.hidden = TRUE]]
    BY DEF HideMissing
  <1>2. t \in DOMAIN topics /\ topics[t].source = key /\ topics[t] \in TopicRow
        /\ topics[t].space = s
    BY <1>1 DEF SourceTopics, IsTable, Visible, BoardInv, Core
  <1>3. topics'[t] = [topics[t] EXCEPT !.hidden = TRUE]
    BY <1>1, <1>2
  <1>4. /\ topics'[t].source = key /\ topics'[t].space = s /\ topics'[t].hidden
        /\ topics'[t].born = topics[t].born
    BY <1>2, <1>3 DEF TopicRow
  <1>5. DOMAIN topics' = DOMAIN topics /\ \A u \in DOMAIN topics \ {t} : topics'[u] = topics[u]
    BY <1>1
  <1>6. UNCHANGED <<posts, clock>>
    BY DEF HideMissing
  <1>7. Kept
    BY <1>4, <1>5, <1>6 DEF Kept
  <1> QED BY <1>1, <1>2, <1>4, <1>5, <1>6, <1>7 DEF OnlyArticle

\* Posts stay in order.
LEMMA BornStays ==
  ASSUME BoardInv, BoardInv', BornInOrder, Kept \/ \E p \in Id : Grown(p)
  PROVE  BornInOrder'
  <1>0. /\ clock \in Nat
        /\ \A p \in DOMAIN posts : posts[p].born \in Nat /\ posts[p].topic \in DOMAIN topics
        /\ \A t \in DOMAIN topics : topics[t].born \in Nat
        /\ \A t \in DOMAIN topics : \E p \in DOMAIN posts : posts[p].topic = t
    BY DEF BoardInv, Core, IsTable, PostRow, TopicRow
  <1>1. \A p \in DOMAIN posts' : posts'[p].topic \in DOMAIN topics'
    BY DEF BoardInv, Core
  <1>2. CASE Kept
    BY <1>0, <1>1, <1>2 DEF BornInOrder, Kept
  <1>3. ASSUME NEW p \in Id, Grown(p) PROVE BornInOrder'
    <2>1. \A t \in DOMAIN topics : topics[t].born < clock
      BY <1>0 DEF BornInOrder
    <2>2. \A q \in DOMAIN posts' : q = p \/ q \in DOMAIN posts
      BY <1>3 DEF Grown
    <2>3. \A q \in DOMAIN posts : posts'[q] = posts[q] /\ posts[q].born < clock
      BY <1>3 DEF Grown, BornInOrder
    <2>4. posts'[p].born = clock /\ clock' = clock + 1
      BY <1>3 DEF Grown
    <2>5. \A q, r \in DOMAIN posts' : posts'[q].born = posts'[r].born => q = r
      BY <1>0, <2>2, <2>3, <2>4 DEF BornInOrder
    <2>6. ASSUME NEW q \in DOMAIN posts'
          PROVE  posts'[q].born < clock' /\ topics'[posts'[q].topic].born <= posts'[q].born
      <3>1. CASE q = p
        BY <1>0, <1>1, <1>3, <2>1, <2>4, <3>1 DEF Grown
      <3>2. CASE q \in DOMAIN posts
        <4>1. topics'[posts[q].topic].born = topics[posts[q].topic].born
          BY <1>0, <1>3, <3>2 DEF Grown
        <4> QED BY <1>0, <2>3, <2>4, <3>2, <4>1 DEF BornInOrder
      <3> QED BY <2>2, <3>1, <3>2
    <2> QED BY <2>5, <2>6 DEF BornInOrder
  <1> QED BY <1>2, <1>3

-----------------------------------------------------------------------------
(* The requests' steps are the board's.                                    *)

\* A request that is not idle is one under way.
LEMMA RequestIsOne ==
  ASSUME Attended, NEW r \in Slot, requests[r].op # "idle"
  PROVE  requests[r] \in Request /\ requests[r] # Idle
  BY DEF Attended, Idle

\* A request whose file is written, and one whose reply is.
Stored(q, f) == [q EXCEPT !.op = "stored", !.file = f]
Added(q, p)  == [q EXCEPT !.op = "added", !.post = p]

\* A request goes on: what it was about stays, and it is one under way.
LEMMA RequestGoesOn ==
  ASSUME NEW q \in Request, NEW n \in Nat
  PROVE  /\ Stored(q, n) \in Request /\ Stored(q, n).op = "stored"
         /\ Stored(q, n).topic = q.topic /\ Stored(q, n).file = n
         /\ Added(q, n) \in Request /\ Added(q, n).op = "added"
         /\ Added(q, n).topic = q.topic /\ Added(q, n).file = q.file /\ Added(q, n).post = n
  <1> DEFINE stored == [q EXCEPT !.op = "stored"]
             added == [q EXCEPT !.op = "added"]
  <1>1. Stored(q, n) = [stored EXCEPT !.file = n] /\ Added(q, n) = [added EXCEPT !.post = n]
    BY DEF Request, Stored, Added
  <1>2. /\ stored \in Request /\ stored.op = "stored" /\ stored.topic = q.topic
        /\ added \in Request /\ added.op = "added" /\ added.topic = q.topic /\ added.file = q.file
    BY DEF Request
  <1> HIDE DEF stored, added
  <1> QED BY <1>1, <1>2 DEF Request

\* Nothing written.
LEMMA NothingWritten ==
  ASSUME UNCHANGED boardVars
  PROVE  [BoardNext]_boardVars /\ Kept /\ ArticlesStay
  BY DEF boardVars, Kept, ArticlesStay

\* web: topic_page.  The number it kept may be gone, and then nothing is marked; a
\* topic of that number is shown, whichever it is, and marking it is the board's step.
LEMMA MarkLoadedIsReading ==
  ASSUME DeskInv, NEW r \in Slot, MarkLoaded(r)
  PROVE  [BoardNext]_boardVars /\ Kept /\ ArticlesStay
  <1> DEFINE t == requests[r].topic
             who == requests[r].who
             keys == {k \in DOMAIN inbox : k[1] = who /\ posts[k[2]].topic = t}
  <1>1. requests[r].op = "page" /\ MarkRead(keys)
        /\ UNCHANGED <<topics, posts, follows, likes, outbox, optedOut, clock>>
    BY DEF MarkLoaded
  <1>2. requests[r] \in Request /\ requests[r] # Idle
    BY <1>1, RequestIsOne DEF DeskInv
  <1>3. Kept /\ ArticlesStay
    BY <1>1 DEF Kept, ArticlesStay
  <1>4. /\ IsTable(inbox, Person \X Id, BellRow)
        /\ \A k \in DOMAIN inbox : k[2] \in DOMAIN posts
    BY DEF DeskInv, BoardInv, TypeOK, Rooted
  <1>5. CASE t \in DOMAIN topics
    <2> DEFINE s == topics[t].space
    <2>1. s \in Space /\ who \in Person
      BY <1>2, <1>5 DEF DeskInv, BoardInv, Core, IsTable, TopicRow, Request
    <2>2. Visible(s, t)
      BY <1>2, <1>5 DEF DeskInv, Attended, Visible
    <2>3. \A k \in DOMAIN inbox : k \in keys <=> k \in {who} \X PostsOf(t)
      BY <1>4 DEF PostsOf, IsTable
    <2>4. MarkRead({who} \X PostsOf(t))
      BY <1>1, <2>3 DEF MarkRead
    <2>5. MarkTopicRead(who, s, t)
      BY <1>1, <2>2, <2>4 DEF MarkTopicRead
    <2>6. BoardNext
      BY <1>5, <2>1, <2>5 DEF BoardNext, PersonStep
    <2> QED BY <1>3, <2>6
  <1>6. CASE t \notin DOMAIN topics
    <2>1. keys = {}
      BY <1>4, <1>6 DEF DeskInv, BoardInv, Core
    <2>2. inbox' = [k \in DOMAIN inbox |-> inbox[k]]
      BY <1>1, <2>1 DEF MarkRead
    <2>3. inbox' = inbox
      BY <1>4, <2>2 DEF IsTable
    <2> QED BY <1>1, <1>3, <2>3 DEF boardVars
  <1> QED BY <1>5, <1>6

\* A reply through a topic that was loaded: the topic of that number is in some space,
\* and whom it tells may not be the writer.
LEMMA ReplyIsReplying ==
  ASSUME DeskInv, NEW r \in Slot, requests[r].op # "idle",
         NEW t, t = requests[r].topic, t \in DOMAIN topics,
         NEW m \in SUBSET (Person \ {requests[r].who}),
         AddReply(requests[r].who, topics[t].space, t, m)
  PROVE  [BoardNext]_boardVars /\ ArticlesStay /\ \E p \in Id : Grown(p) /\ posts'[p].topic = t
  <1>1. requests[r].who \in Person
    BY RequestIsOne DEF DeskInv, Request
  <1>2. topics[t].space \in Space
    BY DEF DeskInv, BoardInv, Core, IsTable, TopicRow
  <1>3. BoardNext
    BY <1>1, <1>2 DEF BoardNext, PersonStep
  <1> QED BY <1>3, AddReplyShape DEF DeskInv

\* web: reply.
LEMMA AddLoadedIsReplying ==
  ASSUME DeskInv, NEW r \in Slot, AddLoaded(r)
  PROVE  [BoardNext]_boardVars /\ ArticlesStay /\ \E p \in Id : Grown(p)
  <1> DEFINE t == requests[r].topic
  <1>1. requests[r].op = "reply" /\ t \in DOMAIN topics
    BY DEF AddLoaded
  <1>2. requests[r].space \in Space
    BY <1>1, RequestIsOne DEF DeskInv, Request
  <1>3. PICK m \in ToTell(requests[r].who, requests[r].space) :
          AddReply(requests[r].who, topics[t].space, t, m)
    BY DEF AddLoaded
  <1>4. m \in SUBSET (Person \ {requests[r].who})
    BY <1>2, ReadersAssumption DEF ToTell
  <1> HIDE DEF t
  <1> QED BY <1>1, <1>3, <1>4, ReplyIsReplying DEF t

\* web: change_subscription.
LEMMA FollowLoadedIsFollowing ==
  ASSUME DeskInv, NEW r \in Slot, FollowLoaded(r)
  PROVE  [BoardNext]_boardVars /\ Kept /\ ArticlesStay
  <1> DEFINE t == requests[r].topic
             who == requests[r].who
             s == topics[t].space
  <1>1. /\ requests[r].op = "follow" /\ t \in DOMAIN topics
        /\ Follow(who, s, t) \/ Unfollow(who, s, t)
    BY DEF FollowLoaded
  <1>2. who \in Person
    BY <1>1, RequestIsOne DEF DeskInv, Request
  <1>3. s \in Space
    BY <1>1 DEF DeskInv, BoardInv, Core, IsTable, TopicRow
  <1> HIDE DEF s, who, t
  <1>4. PersonStep(who, s)
    BY <1>1 DEF PersonStep
  <1>5. BoardNext
    BY <1>2, <1>3, <1>4 DEF BoardNext
  <1>6. UNCHANGED <<topics, posts, clock>>
    BY <1>1 DEF Follow, Unfollow
  <1> QED BY <1>5, <1>6 DEF Kept, ArticlesStay

\* web: attach, its reply: the post it has added is the one that is new.
LEMMA AddPictureIsReplying ==
  ASSUME DeskInv, NEW r \in Slot, AddPicture(r)
  PROVE  /\ [BoardNext]_boardVars /\ ArticlesStay
         /\ \E p \in Id : Grown(p)
              /\ requests' = [requests EXCEPT ![r] =
                                [requests[r] EXCEPT !.op = "added", !.post = p]]
  <1> DEFINE t == requests[r].topic
  <1>1. requests[r].op = "stored" /\ t \in DOMAIN topics
        /\ AddReply(requests[r].who, topics[t].space, t, {})
    BY DEF AddPicture
  <1>2. /\ [BoardNext]_boardVars /\ ArticlesStay
        /\ \E p \in Id : Grown(p) /\ posts'[p].topic = t
    BY <1>1, ReplyIsReplying
  <1>3. PICK p \in Id : Grown(p)
    BY <1>2
  <1>4. PICK q \in DOMAIN posts' \ DOMAIN posts :
          requests' = [requests EXCEPT ![r] = [requests[r] EXCEPT !.op = "added", !.post = q]]
    BY DEF AddPicture, Becomes
  <1>5. p = q
    BY <1>3, <1>4 DEF Grown
  <1> QED BY <1>2, <1>3, <1>4, <1>5

\* The handlers nobody interrupts.
LEMMA OthersAreTheBoards ==
  ASSUME DeskInv, NEW who \in Person, NEW s \in Space, Others(who, s)
  PROVE  [BoardNext]_boardVars /\ (Kept \/ \E p \in Id : Grown(p)) /\ ArticlesStay
  <1>1. \/ CreateTopic(who, s, {})
        \/ \E t \in DOMAIN topics : AddReply(who, s, t, {})
        \/ \E p \in DOMAIN posts : UpdatePost(who, s, p, {})
        \/ \E p \in DOMAIN posts : DeleteReply(who, s, p) \/ DeleteTopic(who, s, p)
    BY DEF Others, OpenTopic, Reply, EditPost, DeletePost
  <1>2. {} \in SUBSET (Person \ {who})
    OBVIOUS
  <1>3. PersonStep(who, s)
    BY <1>1, <1>2 DEF PersonStep
  <1> QED BY <1>3, PersonStepShape DEF BoardNext, DeskInv

-----------------------------------------------------------------------------
(* What a step keeps, part by part.                                        *)

\* Which post shows a file is settled when it is written: a post that is gone does
\* not come back, and one that is written shows nothing yet.
LEMMA ShowsStays ==
  ASSUME BoardInv, BornInOrder, NEW p, NEW f, Shows(p, f), pictures \subseteq pictures',
         \A x \in pictures : x[1] < clock,
         Kept \/ \E q \in Id : Grown(q)
  PROVE  Shows(p, f)'
  <1>1. PICK b \in Nat :
          /\ <<b, f>> \in pictures
          /\ (p \in DOMAIN posts /\ posts[p].born = b) \/ \A q \in DOMAIN posts : posts[q].born # b
    BY DEF Shows
  <1>2. b < clock /\ clock \in Nat
    BY <1>1 DEF BoardInv, Core
  <1>3. CASE Kept
    BY <1>1, <1>3 DEF Kept, Shows, BornInOrder
  <1>4. CASE \E q \in Id : Grown(q)
    BY <1>1, <1>2, <1>4 DEF Grown, Shows
  <1> QED BY <1>3, <1>4

\* Uploads that nothing touches, but for the rows whose post goes.
LEMMA UploadedStays ==
  ASSUME BoardInv, BornInOrder, Uploaded, UNCHANGED <<files, pictures>>,
         Kept \/ \E p \in Id : Grown(p),
         DOMAIN attachments' \subseteq DOMAIN attachments,
         attachments' \in [DOMAIN attachments' -> DOMAIN posts'],
         \A f \in DOMAIN attachments' : attachments'[f] = attachments[f],
         \A r \in Slot : requests'[r] = requests[r] \/ requests'[r].op \notin {"stored", "added"}
  PROVE  Uploaded'
  <1>1. ASSUME NEW p, NEW f, Shows(p, f) PROVE Shows(p, f)'
    BY <1>1, ShowsStays DEF Uploaded
  <1>2. \A x \in pictures' : x[1] < clock'
    <2>1. clock' \in {clock, clock + 1} /\ clock \in Nat
      BY DEF Kept, Grown, BoardInv, Core
    <2> QED BY <2>1 DEF Uploaded
  <1>3. \A f \in DOMAIN attachments' : Shows(attachments[f], f)'
    BY <1>1 DEF Uploaded
  <1>5. ASSUME NEW r \in Slot, Carries(r)'
        PROVE  Carries(r) /\ requests'[r] = requests[r]
    BY <1>5 DEF Carries
  <1>6. ASSUME NEW r \in Slot, Carries(r)'
        PROVE  /\ requests'[r].file \in files' \ DOMAIN attachments'
               /\ \A q \in Slot \ {r} : Carries(q)' => requests'[q].file # requests'[r].file
    BY <1>5, <1>6 DEF Uploaded
  <1>7. ASSUME NEW r \in Slot, requests'[r].op = "stored"
        PROVE  \A x \in pictures' : x[2] # requests'[r].file
    BY <1>7 DEF Uploaded
  <1>8. ASSUME NEW r \in Slot, requests'[r].op = "added"
        PROVE  Shows(requests[r].post, requests[r].file)'
    BY <1>1, <1>8 DEF Uploaded
  <1> QED BY <1>2, <1>3, <1>6, <1>7, <1>8 DEF Uploaded

\* Requests that end, stay or go on with their topic.
LEMMA AttendedStays ==
  ASSUME Attended, Serving, UNCHANGED start, ArticlesStay,
         requests' \in [Slot -> {Idle} \cup Request],
         \A r \in Slot : requests'[r] # Idle =>
           \/ requests[r] # Idle /\ requests'[r].topic = requests[r].topic
           \/ requests'[r].topic \in DOMAIN topics /\ ~topics[requests'[r].topic].hidden
  PROVE  Attended'
  BY DEF Attended, ArticlesStay, Serving

\* The articles are as the start has left them.
LEMMA BroughtInStays ==
  ASSUME BoardInv, BoardInv', BroughtIn, ArticlesStay, UNCHANGED <<dirs, start>>
  PROVE  BroughtIn'
  <1>1. ASSUME NEW key PROVE Seen(key)' = Seen(key)
    BY DEF Seen
  <1>2. ASSUME NEW key \in SourceKey
        PROVE  /\ SourceTopics(key)' = SourceTopics(key)
               /\ \A t \in SourceTopics(key) : \A s : Visible(s, t)' <=> Visible(s, t)
    BY SourceKeyAssumption DEF ArticlesStay, SourceTopics, Visible
  <1>3. ASSUME NEW key \in SourceKey
        PROVE  \/ \E i \in Seen(key)', t \in SourceTopics(key)' :
                    (\A j \in Seen(key)' : j <= i) /\ Visible(Order[i], t)'
               \/ /\ Seen(key)' = {}
                  /\ \A j \in 1 .. Len(Order), t \in SourceTopics(key)' :
                       j < start'.at => ~Visible(Order[j], t)'
    BY <1>1, <1>2 DEF BroughtIn
  <1>4. /\ dirs' \in [Space -> SUBSET SourceKey]
        /\ start'.at \in Nat \ {0} /\ start' = [at |-> start'.at, left |-> start'.left]
        /\ ~Serving' => start'.left \subseteq dirs'[Order[start'.at]]
    BY DEF BroughtIn, Serving
  <1>5. ASSUME NEW t \in DOMAIN topics', Mirrored(t)'
        PROVE  t \in DOMAIN topics /\ Mirrored(t) /\ topics'[t] = topics[t]
    BY <1>5 DEF ArticlesStay, Mirrored
  <1>6. \A t, u \in DOMAIN topics' :
          Mirrored(t)' /\ topics'[t].source = topics'[u].source => t = u
    <2> SUFFICES ASSUME NEW t \in DOMAIN topics', NEW u \in DOMAIN topics', Mirrored(t)',
                        topics'[t].source = topics'[u].source
                 PROVE  t = u
      OBVIOUS
    <2>1. Mirrored(u)'
      BY DEF Mirrored
    <2> QED BY <1>5, <2>1 DEF BroughtIn
  <1>7. \A t \in DOMAIN topics' : Mirrored(t)' => topics'[t].space \in Spaces
    BY <1>5 DEF BroughtIn
  <1> QED BY <1>3, <1>4, <1>6, <1>7 DEF BroughtIn, Spaces

-----------------------------------------------------------------------------
(* The steps while the program serves.                                     *)

\* A step of the board, with requests and uploads that are in order after it.
LEMMA ServedKeeps ==
  ASSUME DeskInv, [BoardNext]_boardVars, Kept \/ \E p \in Id : Grown(p), ArticlesStay, Served,
         Uploaded',
         requests' \in [Slot -> {Idle} \cup Request],
         \A r \in Slot : requests'[r] # Idle =>
           \/ requests[r] # Idle /\ requests'[r].topic = requests[r].topic
           \/ requests'[r].topic \in DOMAIN topics /\ ~topics[requests'[r].topic].hidden
  PROVE  DeskInv'
  <1>1. BoardInv'
    BY StepKeeps DEF DeskInv
  <1>2. BornInOrder'
    BY <1>1, BornStays DEF DeskInv
  <1>3. Attended'
    BY AttendedStays DEF DeskInv, Served
  <1>4. BroughtIn'
    BY <1>1, BroughtInStays DEF DeskInv, Served
  <1> QED BY <1>1, <1>2, <1>3, <1>4 DEF DeskInv

\* What becomes of one request.
LEMMA BecomesOne ==
  ASSUME DeskInv, NEW r \in Slot, NEW request \in {Idle} \cup Request, Becomes(r, request)
  PROVE  /\ requests' \in [Slot -> {Idle} \cup Request]
         /\ requests'[r] = request /\ \A q \in Slot \ {r} : requests'[q] = requests[q]
  BY DEF DeskInv, Attended, Becomes

\* A request that begins carries nothing.
LEMMA LoadsKeeps ==
  ASSUME DeskInv, NEW r \in Slot, NEW who, NEW s \in Space, NEW t \in DOMAIN topics,
         NEW op \in {"page", "reply", "follow", "attach"},
         Loads(r, who, s, t, op), Unwritten, Served
  PROVE  [BoardNext]_boardVars /\ DeskInv'
  <1> DEFINE request == [op |-> op, who |-> who, space |-> s, topic |-> t, born |-> clock,
                         file |-> 0, post |-> 0]
  <1>1. who \in Person /\ t \in Id /\ clock \in Nat
    BY ReadersAssumption DEF Loads, DeskInv, BoardInv, Core, IsTable
  <1>2. request \in Request /\ request.topic = t /\ request.op = op
    BY <1>1 DEF Request
  <1>3. Becomes(r, request) /\ ~topics[t].hidden
    BY DEF Loads, Visible
  <1> HIDE DEF request
  <1>4. /\ requests' \in [Slot -> {Idle} \cup Request]
        /\ requests'[r] = request /\ \A q \in Slot \ {r} : requests'[q] = requests[q]
    BY <1>2, <1>3, BecomesOne
  <1>5. [BoardNext]_boardVars /\ Kept /\ ArticlesStay
    BY NothingWritten DEF Unwritten
  <1>6. Uploaded'
    <2>1. UNCHANGED <<files, pictures, attachments, posts>>
      BY DEF Unwritten, uploads, boardVars
    <2> QED BY <1>2, <1>4, <1>5, <2>1, UploadedStays DEF DeskInv, Uploaded
  <1> QED BY <1>2, <1>3, <1>4, <1>5, <1>6, ServedKeeps

\* A request that ends, whatever it wrote to the board before.
LEMMA EndsKeeps ==
  ASSUME DeskInv, NEW r \in Slot, Becomes(r, Idle), UNCHANGED uploads, Served,
         [BoardNext]_boardVars, ArticlesStay, DOMAIN posts \subseteq DOMAIN posts',
         Kept \/ \E p \in Id : Grown(p)
  PROVE  DeskInv'
  <1>1. /\ requests' \in [Slot -> {Idle} \cup Request]
        /\ requests'[r] = Idle /\ \A q \in Slot \ {r} : requests'[q] = requests[q]
    BY BecomesOne
  <1>2. Uploaded'
    <2>1. UNCHANGED <<files, pictures, attachments>>
      BY DEF uploads
    <2> QED BY <1>1, <2>1, UploadedStays DEF DeskInv, Uploaded, Idle
  <1> QED BY <1>1, <1>2, ServedKeeps

\* web: attach, the file: its name is new.
LEMMA StoreFileKeeps ==
  ASSUME DeskInv, NEW r \in Slot, StoreFile(r)
  PROVE  [BoardNext]_boardVars /\ DeskInv'
  <1>1. PICK n \in Nat : files = 1 .. n
    BY DEF DeskInv, Uploaded
  <1>2. Cardinality(files) = n
    <2>1. Cardinality(1 .. n) = IF 1 > n THEN 0 ELSE n - 1 + 1
      BY FS_Interval
    <2> QED BY <1>1, <2>1
  <1> DEFINE f == n + 1
             request == Stored(requests[r], f)
  <1>3. requests[r] \in Request /\ requests[r] # Idle
    BY RequestIsOne DEF DeskInv, StoreFile
  <1>4. /\ request \in Request /\ request.topic = requests[r].topic /\ request.file = f
        /\ request.op = "stored"
    <2>1. f \in Nat
      OBVIOUS
    <2> HIDE DEF f
    <2> QED BY <1>3, <2>1, RequestGoesOn
  <1>5. /\ files' = files \cup {f} /\ Becomes(r, request) /\ Served
        /\ UNCHANGED <<boardVars, pictures, attachments>>
    BY <1>2 DEF StoreFile, Stored
  <1> HIDE DEF request
  <1>6. /\ requests' \in [Slot -> {Idle} \cup Request]
        /\ requests'[r] = request /\ \A q \in Slot \ {r} : requests'[q] = requests[q]
    BY <1>4, <1>5, BecomesOne
  <1>7. [BoardNext]_boardVars /\ Kept /\ ArticlesStay
    BY <1>5, NothingWritten
  <1>8. Uploaded'
    <2>1. f \notin files /\ files' = 1 .. (n + 1) /\ n + 1 \in Nat
      BY <1>1, <1>5
    <2>2. UNCHANGED <<posts, clock, pictures, attachments>>
      BY <1>5 DEF boardVars
    <2>3. ASSUME NEW p, NEW g, Shows(p, g) PROVE Shows(p, g)'
      BY <2>2, <2>3 DEF Shows
    <2>4. \A g \in DOMAIN attachments' : Shows(attachments[g], g)'
      BY <2>2, <2>3 DEF DeskInv, Uploaded
    <2>5. ASSUME NEW q \in Slot, Carries(q)'
          PROVE  /\ requests'[q].file \in files' \ DOMAIN attachments'
                 /\ \A v \in Slot \ {q} : Carries(v)' => requests'[v].file # requests'[q].file
      BY <1>4, <1>5, <1>6, <2>1, <2>2, <2>5 DEF Carries, DeskInv, Uploaded
    <2>6. ASSUME NEW q \in Slot, requests'[q].op = "stored"
          PROVE  \A x \in pictures' : x[2] # requests'[q].file
      BY <1>4, <1>6, <2>1, <2>2, <2>6 DEF DeskInv, Uploaded
    <2>7. ASSUME NEW q \in Slot, requests'[q].op = "added"
          PROVE  Shows(requests[q].post, requests[q].file)'
      <3>1. q # r /\ requests'[q] = requests[q]
        BY <1>4, <1>6, <2>7
      <3> QED BY <2>3, <2>7, <3>1 DEF DeskInv, Uploaded
    <2>8. pictures' \subseteq Nat \X files' /\ DOMAIN attachments' \subseteq files'
      BY <1>5, <2>2 DEF DeskInv, Uploaded
    <2> QED BY <2>1, <2>2, <2>4, <2>5, <2>6, <2>7, <2>8 DEF DeskInv, Uploaded
  <1> QED BY <1>3, <1>4, <1>5, <1>6, <1>7, <1>8, ServedKeeps

\* web: attach, the reply: it is the only post that ever shows the file.
LEMMA AddPictureKeeps ==
  ASSUME DeskInv, NEW r \in Slot, AddPicture(r)
  PROVE  [BoardNext]_boardVars /\ DeskInv'
  <1>1. /\ [BoardNext]_boardVars /\ ArticlesStay
        /\ \E p \in Id : Grown(p)
             /\ requests' = [requests EXCEPT ![r] =
                               [requests[r] EXCEPT !.op = "added", !.post = p]]
    BY AddPictureIsReplying
  <1>2. PICK p \in Id : Grown(p) /\ Becomes(r, [requests[r] EXCEPT !.op = "added", !.post = p])
    BY <1>1 DEF Becomes
  <1> PICK f : f = requests[r].file
    OBVIOUS
  <1> DEFINE request == Added(requests[r], p)
  <1>3. requests[r].op = "stored" /\ requests[r] \in Request /\ requests[r] # Idle
    BY RequestIsOne DEF DeskInv, AddPicture
  <1>4. /\ request \in Request /\ request.topic = requests[r].topic /\ request.file = f
        /\ request.post = p /\ request.op = "added"
    <2>1. p \in Nat
      BY DEF Id
    <2> QED BY <1>3, <2>1, RequestGoesOn
  <1>5. pictures' = pictures \cup {<<clock, f>>} /\ UNCHANGED <<files, attachments>> /\ Served
    BY DEF AddPicture
  <1>6. Becomes(r, request)
    BY <1>2 DEF Added
  <1> HIDE DEF request
  <1>7. /\ requests' \in [Slot -> {Idle} \cup Request]
        /\ requests'[r] = request /\ \A q \in Slot \ {r} : requests'[q] = requests[q]
    BY <1>4, <1>6, BecomesOne
  <1>8. clock \in Nat /\ clock' = clock + 1 /\ posts'[p].born = clock /\ p \in DOMAIN posts'
    BY <1>2 DEF Grown, DeskInv, BoardInv, Core
  <1>9. f \in files \ DOMAIN attachments /\ \A x \in pictures : x[2] # f
    BY <1>3 DEF DeskInv, Uploaded, Carries
  <1>10. ASSUME NEW q, NEW g, Shows(q, g) PROVE Shows(q, g)'
    BY <1>2, <1>5, <1>10, ShowsStays DEF DeskInv, Uploaded
  <1>11. Shows(p, f)'
    BY <1>5, <1>8 DEF Shows
  <1>12. Uploaded'
    <2>1. pictures' \subseteq Nat \X files' /\ \A x \in pictures' : x[1] < clock'
      BY <1>5, <1>8, <1>9 DEF DeskInv, Uploaded
    <2>2. \A x, y \in pictures' : x[2] = y[2] => x = y
      BY <1>5, <1>9 DEF DeskInv, Uploaded
    <2>3. attachments' \in [DOMAIN attachments' -> DOMAIN posts']
      BY <1>2, <1>5 DEF DeskInv, Uploaded, Grown
    <2>4. \A g \in DOMAIN attachments' : Shows(attachments[g], g)'
      BY <1>5, <1>10 DEF DeskInv, Uploaded
    <2>5. ASSUME NEW q \in Slot, Carries(q)'
          PROVE  Carries(q) /\ requests'[q].file = requests[q].file
      BY <1>3, <1>4, <1>7, <2>5 DEF Carries
    <2>6. ASSUME NEW q \in Slot, Carries(q)'
          PROVE  /\ requests'[q].file \in files' \ DOMAIN attachments'
                 /\ \A v \in Slot \ {q} : Carries(v)' => requests'[v].file # requests'[q].file
      BY <1>5, <2>5, <2>6 DEF DeskInv, Uploaded
    <2>7. ASSUME NEW q \in Slot, requests'[q].op = "stored"
          PROVE  \A x \in pictures' : x[2] # requests'[q].file
      <3>1. q # r /\ requests'[q] = requests[q]
        BY <1>4, <1>7, <2>7
      <3>2. requests[q].file # f
        BY <1>3, <2>7, <3>1 DEF DeskInv, Uploaded, Carries
      <3> QED BY <1>5, <2>7, <3>1, <3>2 DEF DeskInv, Uploaded
    <2>8. ASSUME NEW q \in Slot, requests'[q].op = "added"
          PROVE  Shows(requests[q].post, requests[q].file)'
      <3>1. CASE q = r
        BY <1>4, <1>7, <1>11, <3>1
      <3>2. CASE q # r
        <4>1. requests'[q] = requests[q]
          BY <1>7, <3>2
        <4> QED BY <1>10, <2>8, <4>1 DEF DeskInv, Uploaded
      <3> QED BY <3>1, <3>2
    <2> QED BY <1>5, <2>1, <2>2, <2>3, <2>4, <2>6, <2>7, <2>8 DEF DeskInv, Uploaded
  <1> QED BY <1>1, <1>2, <1>3, <1>4, <1>5, <1>7, <1>12, ServedKeeps

\* web: attach, the row.
LEMMA RecordKeeps ==
  ASSUME DeskInv, NEW r \in Slot, Record(r)
  PROVE  [BoardNext]_boardVars /\ DeskInv'
  <1> DEFINE f == requests[r].file
             p == requests[r].post
  <1>1. /\ requests[r].op = "added" /\ p \in DOMAIN posts
        /\ attachments' = [g \in DOMAIN attachments \cup {f} |-> IF g = f THEN p ELSE attachments[g]]
        /\ Becomes(r, Idle)
        /\ UNCHANGED <<boardVars, files, pictures>> /\ Served
    BY DEF Record
  <1>2. /\ requests' \in [Slot -> {Idle} \cup Request]
        /\ requests'[r] = Idle /\ \A q \in Slot \ {r} : requests'[q] = requests[q]
    BY <1>1, BecomesOne
  <1>3. [BoardNext]_boardVars /\ Kept /\ ArticlesStay
    BY <1>1, NothingWritten
  <1>4. Carries(r) /\ f \in files \ DOMAIN attachments /\ Shows(p, f)
    BY <1>1 DEF DeskInv, Uploaded, Carries
  <1>5. /\ DOMAIN attachments' = DOMAIN attachments \cup {f} /\ attachments'[f] = p
        /\ \A g \in DOMAIN attachments : attachments'[g] = attachments[g]
    BY <1>1, <1>4
  <1>6. UNCHANGED <<posts, clock, files, pictures>>
    BY <1>1 DEF boardVars
  <1>7. ASSUME NEW q, NEW g, Shows(q, g) PROVE Shows(q, g)'
    BY <1>6, <1>7 DEF Shows
  <1>8. Uploaded'
    <2>1. attachments' \in [DOMAIN attachments' -> DOMAIN posts'] /\ DOMAIN attachments' \subseteq files'
      BY <1>1, <1>4, <1>5, <1>6 DEF DeskInv, Uploaded
    <2>2. ASSUME NEW g \in DOMAIN attachments' PROVE Shows(attachments[g], g)'
      <3>1. CASE g = f
        BY <1>4, <1>5, <1>7, <3>1
      <3>2. CASE g \in DOMAIN attachments
        BY <1>5, <1>7, <3>2 DEF DeskInv, Uploaded
      <3> QED BY <1>5, <3>1, <3>2
    <2>3. ASSUME NEW q \in Slot, Carries(q)'
          PROVE  q # r /\ requests'[q] = requests[q] /\ Carries(q)
      BY <1>2, <2>3 DEF Carries, Idle
    <2>4. ASSUME NEW q \in Slot, Carries(q)'
          PROVE  /\ requests'[q].file \in files' \ DOMAIN attachments'
                 /\ \A v \in Slot \ {q} : Carries(v)' => requests'[v].file # requests'[q].file
      BY <1>4, <1>5, <1>6, <2>3, <2>4 DEF DeskInv, Uploaded
    <2>5. ASSUME NEW q \in Slot, requests'[q].op = "stored"
          PROVE  \A x \in pictures' : x[2] # requests'[q].file
      BY <1>6, <2>3, <2>5 DEF DeskInv, Uploaded, Carries
    <2>6. ASSUME NEW q \in Slot, requests'[q].op = "added"
          PROVE  Shows(requests[q].post, requests[q].file)'
      BY <1>7, <2>3, <2>6 DEF DeskInv, Uploaded, Carries
    <2> QED BY <1>6, <2>1, <2>2, <2>4, <2>5, <2>6 DEF DeskInv, Uploaded
  <1> QED BY <1>1, <1>2, <1>3, <1>8, ServedKeeps

\* A step of a request.
LEMMA RequestStepKeeps ==
  ASSUME DeskInv, NEW r \in Slot, RequestStep(r)
  PROVE  [BoardNext]_boardVars /\ DeskInv'
  <1>1. ASSUME NEW who \in Callers, NEW s \in Space, NEW t \in DOMAIN topics,
               \/ LoadPage(r, who, s, t) \/ LoadToReply(r, who, s, t)
               \/ LoadToFollow(r, who, s, t) \/ LoadToAttach(r, who, s, t)
        PROVE  [BoardNext]_boardVars /\ DeskInv'
    <2>1. PICK op \in {"page", "reply", "follow", "attach"} :
            Loads(r, who, s, t, op) /\ Unwritten /\ Served
      BY <1>1 DEF LoadPage, LoadToReply, LoadToFollow, LoadToAttach
    <2> QED BY <2>1, LoadsKeeps
  <1>2. CASE MarkLoaded(r) \/ FollowLoaded(r)
    <2>1. [BoardNext]_boardVars /\ Kept /\ ArticlesStay
      BY <1>2, MarkLoadedIsReading, FollowLoadedIsFollowing
    <2>2. Becomes(r, Idle) /\ UNCHANGED <<uploads, posts>> /\ Served
      BY <1>2 DEF MarkLoaded, FollowLoaded, Follow, Unfollow, uploads
    <2> QED BY <2>1, <2>2, EndsKeeps
  <1>3. CASE AddLoaded(r)
    <2>1. [BoardNext]_boardVars /\ ArticlesStay /\ \E p \in Id : Grown(p)
      BY <1>3, AddLoadedIsReplying
    <2>2. Becomes(r, Idle) /\ UNCHANGED uploads /\ Served
      BY <1>3 DEF AddLoaded
    <2>3. DOMAIN posts \subseteq DOMAIN posts'
      BY <2>1 DEF Grown
    <2> QED BY <2>1, <2>2, <2>3, EndsKeeps
  <1>4. CASE Breaks(r)
    <2>1. Becomes(r, Idle) /\ UNCHANGED <<boardVars, uploads>> /\ Served
      BY <1>4 DEF Breaks, Unwritten
    <2>2. DOMAIN posts \subseteq DOMAIN posts'
      BY <2>1 DEF boardVars
    <2> QED BY <2>1, <2>2, NothingWritten, EndsKeeps
  <1> QED BY <1>1, <1>2, <1>3, <1>4, StoreFileKeeps, AddPictureKeeps, RecordKeeps DEF RequestStep

\* A handler nobody interrupts: the rows of attachments go with their posts.
LEMMA OthersKeep ==
  ASSUME DeskInv, NEW who \in Person, NEW s \in Space, Others(who, s)
  PROVE  [BoardNext]_boardVars /\ DeskInv'
  <1>1. [BoardNext]_boardVars /\ (Kept \/ \E p \in Id : Grown(p)) /\ ArticlesStay
    BY OthersAreTheBoards
  <1>2. Cascade /\ UNCHANGED <<requests, files, pictures>> /\ Served
    BY DEF Others, OpenTopic, Reply, EditPost, DeletePost, Whole
  <1>3. /\ DOMAIN attachments' \subseteq DOMAIN attachments
        /\ attachments' \in [DOMAIN attachments' -> DOMAIN posts']
        /\ \A f \in DOMAIN attachments' : attachments'[f] = attachments[f]
    BY <1>2 DEF Cascade, Restrict
  <1>4. Uploaded'
    BY <1>1, <1>2, <1>3, UploadedStays DEF DeskInv
  <1>5. requests' \in [Slot -> {Idle} \cup Request]
    BY <1>2 DEF DeskInv, Attended
  <1> QED BY <1>1, <1>2, <1>4, <1>5, ServedKeeps

-----------------------------------------------------------------------------
(* The start.                                                              *)

\* A step of the start, when nobody is served.
LEMMA StartKeeps ==
  ASSUME DeskInv, [BoardNext]_boardVars, Kept \/ \E p \in Id : Grown(p),
         DOMAIN posts \subseteq DOMAIN posts', UNCHANGED uploads,
         requests' = [r \in Slot |-> Idle], BroughtIn'
  PROVE  DeskInv'
  <1>1. BoardInv'
    BY StepKeeps DEF DeskInv
  <1>2. BornInOrder'
    BY <1>1, BornStays DEF DeskInv
  <1>3. Attended'
    BY DEF Attended
  <1>4. Uploaded'
    <2>1. UNCHANGED <<files, pictures, attachments>>
      BY DEF uploads
    <2>2. \A r \in Slot : requests'[r].op \notin {"stored", "added"}
      BY DEF Idle
    <2> QED BY <2>1, <2>2, UploadedStays DEF DeskInv, Uploaded
  <1> QED BY <1>1, <1>2, <1>3, <1>4 DEF DeskInv

\* While the articles are brought in, no request is under way and Here is a space.
LEMMA NobodyIsServed ==
  ASSUME DeskInv, ~Serving
  PROVE  /\ requests = [r \in Slot |-> Idle]
         /\ start.at \in 1 .. Len(Order) /\ Here \in Space /\ Here \in Spaces
         /\ start.left \subseteq dirs[Here] /\ dirs[Here] \subseteq SourceKey
  <1>1. Len(Order) \in Nat /\ \A i \in 1 .. Len(Order) : Order[i] \in Space
    BY OrderAssumption
  <1>2. start.at \in 1 .. Len(Order)
    BY <1>1 DEF DeskInv, BroughtIn, Serving
  <1>3. Here \in Space /\ Here \in Spaces
    BY <1>1, <1>2 DEF Here, Spaces
  <1>4. start.left \subseteq dirs[Here] /\ dirs[Here] \subseteq SourceKey
    BY <1>3 DEF DeskInv, BroughtIn, Here
  <1>5. \A r \in Slot : requests[r] = Idle
    BY DEF DeskInv, Attended
  <1>6. requests = [r \in Slot |-> requests[r]]
    BY DEF DeskInv, Attended
  <1> QED BY <1>2, <1>3, <1>4, <1>5, <1>6

\* main.rs: the program starts again.
LEMMA RestartKeeps ==
  ASSUME DeskInv, Restart
  PROVE  [BoardNext]_boardVars /\ DeskInv'
  <1>1. /\ dirs' \in [Space -> SUBSET SourceKey]
        /\ start' = [at |-> start'.at, left |-> start'.left]
        /\ start'.at = 1 /\ start'.left = dirs'[Order[1]]
        /\ requests' = [r \in Slot |-> Idle]
        /\ UNCHANGED <<boardVars, uploads>>
    BY DEF Restart
  <1>2. [BoardNext]_boardVars /\ Kept /\ DOMAIN posts \subseteq DOMAIN posts' /\ UNCHANGED topics
    BY <1>1, NothingWritten DEF boardVars
  <1>3. ASSUME NEW key PROVE Seen(key)' = {}
    BY <1>1 DEF Seen
  <1>4. BroughtIn'
    <2>1. ASSUME NEW key \in SourceKey
          PROVE  \A j \in 1 .. Len(Order), t \in SourceTopics(key)' :
                   j < start'.at => ~Visible(Order[j], t)'
      BY <1>1
    <2>2. /\ \A t, u \in DOMAIN topics' :
               Mirrored(t)' /\ topics'[t].source = topics'[u].source => t = u
          /\ \A t \in DOMAIN topics' : Mirrored(t)' => topics'[t].space \in Spaces
      BY <1>2 DEF DeskInv, BroughtIn, Mirrored
    <2> QED BY <1>1, <1>3, <2>1, <2>2 DEF BroughtIn, Spaces
  <1> QED BY <1>1, <1>2, <1>4, StartKeeps

\* The topics of a file are its one article, and other files' articles are as they were.
LEMMA OneArticle ==
  ASSUME DeskInv, NEW key \in SourceKey, NEW t, OnlyArticle(t, key),
         t \in DOMAIN topics \/ SourceTopics(key) = {}
  PROVE  /\ SourceTopics(key)' = {t}
         /\ \A k \in SourceKey \ {key} :
              /\ SourceTopics(k)' = SourceTopics(k)
              /\ \A u \in SourceTopics(k) : \A s : Visible(s, u)' <=> Visible(s, u)
         /\ \A u, v \in DOMAIN topics' :
              Mirrored(u)' /\ topics'[u].source = topics'[v].source => u = v
         /\ topics'[t].space \in Spaces =>
              \A u \in DOMAIN topics' : Mirrored(u)' => topics'[u].space \in Spaces
  <1>1. \A u \in DOMAIN topics \ {t} : topics[u].source # key
    BY SourceKeyAssumption DEF OnlyArticle, SourceTopics, DeskInv, BroughtIn, Mirrored
  <1>2. SourceTopics(key)' = {t}
    BY <1>1 DEF OnlyArticle, SourceTopics
  <1>3. \A k \in SourceKey \ {key} :
          /\ SourceTopics(k)' = SourceTopics(k)
          /\ \A u \in SourceTopics(k) : \A s : Visible(s, u)' <=> Visible(s, u)
    BY DEF OnlyArticle, SourceTopics, Visible
  <1>4. \A u, v \in DOMAIN topics' :
          Mirrored(u)' /\ topics'[u].source = topics'[v].source => u = v
    BY <1>1 DEF OnlyArticle, Mirrored, DeskInv, BroughtIn
  <1>5. topics'[t].space \in Spaces =>
          \A u \in DOMAIN topics' : Mirrored(u)' => topics'[u].space \in Spaces
    BY DEF OnlyArticle, Mirrored, DeskInv, BroughtIn
  <1> QED BY <1>2, <1>3, <1>4, <1>5

\* articles.rs: mirror, one file of the directory.
LEMMA MirrorsKeep ==
  ASSUME DeskInv, Mirrors
  PROVE  [BoardNext]_boardVars /\ DeskInv'
  <1>1. /\ requests = [r \in Slot |-> Idle] /\ ~Serving
        /\ start.at \in 1 .. Len(Order) /\ Here \in Space /\ Here \in Spaces
        /\ start.left \subseteq dirs[Here] /\ dirs[Here] \subseteq SourceKey
    BY NobodyIsServed DEF Mirrors
  <1>2. PICK key \in start.left :
          /\ MirrorNew(key, Here) \/ MirrorAgain(key, Here)
          /\ start' = [start EXCEPT !.left = @ \ {key}]
    BY DEF Mirrors
  <1>3. /\ start' = [at |-> start'.at, left |-> start'.left]
        /\ start'.at = start.at /\ start'.left = start.left \ {key}
    <2>1. start = [at |-> start.at, left |-> start.left]
      BY DEF DeskInv, BroughtIn
    <2> QED BY <1>2, <2>1
  <1>4. UNCHANGED <<requests, uploads, dirs>> /\ key \in SourceKey /\ key \in dirs[Here]
    BY <1>1 DEF Mirrors
  <1>5. BoardNext
    BY <1>1, <1>2, <1>4 DEF BoardNext, MirrorStep
  <1>6. /\ Kept \/ \E p \in Id : Grown(p)
        /\ DOMAIN posts \subseteq DOMAIN posts'
        /\ \E t : /\ OnlyArticle(t, key) /\ (t \in DOMAIN topics \/ SourceTopics(key) = {})
                  /\ topics'[t].space = Here /\ ~topics'[t].hidden
    <2>1. CASE MirrorNew(key, Here)
      BY <1>4, <2>1, MirrorNewShape DEF DeskInv, Grown, MirrorNew
    <2>2. CASE MirrorAgain(key, Here)
      BY <2>2, MirrorAgainShape DEF DeskInv, SourceTopics
    <2> QED BY <1>2, <2>1, <2>2
  <1>7. PICK t : /\ OnlyArticle(t, key) /\ (t \in DOMAIN topics \/ SourceTopics(key) = {})
                 /\ topics'[t].space = Here /\ ~topics'[t].hidden
    BY <1>6
  <1>8. Visible(Here, t)' /\ Here' = Here
    BY <1>3, <1>7 DEF Visible, OnlyArticle, Here
  <1>9. BroughtIn'
    <2>1. ASSUME NEW k \in SourceKey \ {key} PROVE Seen(k)' = Seen(k)
      BY <1>3, <1>4 DEF Seen
    <2>2. start.at \in Seen(key)' /\ \A j \in Seen(key)' : j <= start.at
      BY <1>1, <1>3, <1>4 DEF Seen, Here
    <2>3. \E i \in Seen(key)', u \in SourceTopics(key)' :
            (\A j \in Seen(key)' : j <= i) /\ Visible(Order[i], u)'
      BY <1>4, <1>7, <1>8, <2>2, OneArticle DEF Here
    <2>4. ASSUME NEW k \in SourceKey \ {key}
          PROVE  \/ \E i \in Seen(k)', u \in SourceTopics(k)' :
                      (\A j \in Seen(k)' : j <= i) /\ Visible(Order[i], u)'
                 \/ /\ Seen(k)' = {}
                    /\ \A j \in 1 .. Len(Order), u \in SourceTopics(k)' :
                         j < start'.at => ~Visible(Order[j], u)'
      BY <1>3, <1>4, <1>7, <2>1, OneArticle DEF DeskInv, BroughtIn
    <2>5. /\ dirs' \in [Space -> SUBSET SourceKey]
          /\ start'.at \in Nat \ {0} /\ start'.left \subseteq dirs'[Order[start'.at]]
      BY <1>1, <1>3, <1>4 DEF DeskInv, BroughtIn, Here
    <2>6. /\ \A u, v \in DOMAIN topics' :
               Mirrored(u)' /\ topics'[u].source = topics'[v].source => u = v
          /\ \A u \in DOMAIN topics' : Mirrored(u)' => topics'[u].space \in Spaces
      BY <1>1, <1>4, <1>7, OneArticle
    <2> QED BY <1>3, <2>3, <2>4, <2>5, <2>6 DEF BroughtIn, Spaces
  <1> QED BY <1>1, <1>4, <1>5, <1>6, <1>9, StartKeeps

\* articles.rs: hide_missing: an article of this space without its file.
LEMMA HidesKeep ==
  ASSUME DeskInv, Hides
  PROVE  [BoardNext]_boardVars /\ DeskInv'
  <1>1. /\ requests = [r \in Slot |-> Idle] /\ ~Serving
        /\ start.at \in 1 .. Len(Order) /\ Here \in Space /\ Here \in Spaces
    BY NobodyIsServed DEF Hides
  <1>2. PICK key \in SourceKey \ dirs[Here] : HideMissing(key, Here)
    BY DEF Hides
  <1>3. UNCHANGED <<requests, uploads, dirs, start>>
    BY DEF Hides
  <1>4. BoardNext
    BY <1>1, <1>2 DEF BoardNext, MirrorStep
  <1>5. PICK t \in SourceTopics(key) :
          /\ OnlyArticle(t, key) /\ Visible(Here, t)
          /\ topics'[t].space = Here /\ topics'[t].hidden
    BY <1>2, HideMissingShape DEF DeskInv
  <1>6. Kept /\ DOMAIN posts \subseteq DOMAIN posts'
    BY <1>2, HideMissingShape DEF DeskInv
  <1>7. t \in DOMAIN topics /\ topics[t].space = Here /\ topics[t].source = key
        /\ Mirrored(t)
    BY <1>5, SourceKeyAssumption DEF SourceTopics, Visible, Mirrored
  <1>8. BroughtIn'
    <2>1. ASSUME NEW k PROVE Seen(k)' = Seen(k)
      BY <1>3 DEF Seen
    <2>2. Seen(key) = {}
      <3>1. ASSUME NEW i \in Seen(key), NEW u \in SourceTopics(key), Visible(Order[i], u)
            PROVE  FALSE
        <4>1. u = t
          BY <1>7, <3>1 DEF SourceTopics, DeskInv, BroughtIn
        <4>2. Order[i] = Here
          BY <1>7, <3>1, <4>1 DEF Visible
        <4> QED BY <1>2, <3>1, <4>2 DEF Seen
      <3> QED BY <3>1 DEF DeskInv, BroughtIn
    <2>3. \A j \in 1 .. Len(Order), u \in SourceTopics(key)' : ~Visible(Order[j], u)'
      BY <1>5, <1>7, OneArticle DEF Visible
    <2>4. ASSUME NEW k \in SourceKey \ {key}
          PROVE  \/ \E i \in Seen(k)', u \in SourceTopics(k)' :
                      (\A j \in Seen(k)' : j <= i) /\ Visible(Order[i], u)'
                 \/ /\ Seen(k)' = {}
                    /\ \A j \in 1 .. Len(Order), u \in SourceTopics(k)' :
                         j < start'.at => ~Visible(Order[j], u)'
      BY <1>3, <1>5, <1>7, <2>1, OneArticle DEF DeskInv, BroughtIn
    <2>5. /\ dirs' \in [Space -> SUBSET SourceKey]
          /\ start'.at \in Nat \ {0} /\ start' = [at |-> start'.at, left |-> start'.left]
          /\ ~Serving' => start'.left \subseteq dirs'[Order[start'.at]]
      BY <1>3 DEF DeskInv, BroughtIn, Serving
    <2>6. /\ \A u, v \in DOMAIN topics' :
               Mirrored(u)' /\ topics'[u].source = topics'[v].source => u = v
          /\ \A u \in DOMAIN topics' : Mirrored(u)' => topics'[u].space \in Spaces
      BY <1>1, <1>5, <1>7, OneArticle
    <2> QED BY <1>3, <2>1, <2>2, <2>3, <2>4, <2>5, <2>6 DEF BroughtIn, Spaces
  <1> QED BY <1>1, <1>3, <1>4, <1>6, <1>8, StartKeeps

\* main.rs: mirror_articles goes on to the next space.
LEMMA NextSpaceKeeps ==
  ASSUME DeskInv, NextSpace
  PROVE  [BoardNext]_boardVars /\ DeskInv'
  <1>1. /\ requests = [r \in Slot |-> Idle] /\ ~Serving
        /\ start.at \in 1 .. Len(Order) /\ Here \in Space
    BY NobodyIsServed DEF NextSpace
  <1>2. /\ start.left = {} /\ Missing = {}
        /\ start' = [at |-> start'.at, left |-> start'.left]
        /\ start'.at = start.at + 1
        /\ start.at < Len(Order) => start'.left = dirs[Order[start.at + 1]]
        /\ UNCHANGED <<boardVars, requests, uploads, dirs>>
    BY DEF NextSpace
  <1>3. [BoardNext]_boardVars /\ Kept /\ DOMAIN posts \subseteq DOMAIN posts' /\ UNCHANGED topics
    BY <1>2, NothingWritten DEF boardVars
  <1>4. Len(Order) \in Nat
    BY OrderAssumption
  <1>5. BroughtIn'
    <2>1. ASSUME NEW key PROVE Seen(key)' = Seen(key)
      <3>1. ASSUME NEW j \in 1 .. Len(Order) PROVE j \in Seen(key)' <=> j \in Seen(key)
        <4>1. CASE j <= start.at
          BY <1>1, <1>2, <1>4, <4>1 DEF Seen
        <4>2. CASE j = start.at + 1
          BY <1>1, <1>2, <1>4, <4>2 DEF Seen
        <4>3. CASE j > start.at + 1
          BY <1>1, <1>2, <1>4, <4>3 DEF Seen
        <4> QED BY <1>1, <1>4, <4>1, <4>2, <4>3
      <3> QED BY <3>1 DEF Seen
    <2>2. ASSUME NEW key
          PROVE  /\ SourceTopics(key)' = SourceTopics(key)
                 /\ \A t \in SourceTopics(key) : \A s : Visible(s, t)' <=> Visible(s, t)
      BY <1>3 DEF SourceTopics, Visible
    <2>3. ASSUME NEW key \in SourceKey, Seen(key) = {},
                 \A j \in 1 .. Len(Order), t \in SourceTopics(key) :
                   j < start.at => ~Visible(Order[j], t)
          PROVE  \A j \in 1 .. Len(Order), t \in SourceTopics(key) :
                   j < start.at + 1 => ~Visible(Order[j], t)
      <3>1. key \notin dirs[Here]
        BY <1>1, <1>2, <2>3 DEF Seen, Here
      <3>2. \A t \in SourceTopics(key) : ~Visible(Here, t)
        BY <1>2, <3>1 DEF Missing
      <3> QED BY <1>1, <1>4, <2>3, <3>2 DEF Here
    <2>4. ASSUME NEW key \in SourceKey
          PROVE  \/ \E i \in Seen(key)', t \in SourceTopics(key)' :
                      (\A j \in Seen(key)' : j <= i) /\ Visible(Order[i], t)'
                 \/ /\ Seen(key)' = {}
                    /\ \A j \in 1 .. Len(Order), t \in SourceTopics(key)' :
                         j < start'.at => ~Visible(Order[j], t)'
      BY <1>2, <2>1, <2>2, <2>3 DEF DeskInv, BroughtIn
    <2>5. /\ dirs' \in [Space -> SUBSET SourceKey]
          /\ start'.at \in Nat \ {0}
          /\ ~Serving' => start'.left \subseteq dirs'[Order[start'.at]]
      BY <1>1, <1>2, <1>4 DEF DeskInv, BroughtIn, Serving
    <2>6. /\ \A u, v \in DOMAIN topics' :
               Mirrored(u)' /\ topics'[u].source = topics'[v].source => u = v
          /\ \A u \in DOMAIN topics' : Mirrored(u)' => topics'[u].space \in Spaces
      BY <1>3 DEF DeskInv, BroughtIn, Mirrored
    <2> QED BY <1>2, <2>4, <2>5, <2>6 DEF BroughtIn, Spaces
  <1> QED BY <1>1, <1>2, <1>3, <1>5, StartKeeps

-----------------------------------------------------------------------------
(* The theorems.                                                           *)

LEMMA DeskInitIsFine == DeskInit => DeskInv
  <1> SUFFICES ASSUME DeskInit PROVE DeskInv
    OBVIOUS
  <1>1. /\ BoardInit
        /\ requests = [r \in Slot |-> Idle]
        /\ files = {} /\ pictures = {} /\ attachments = <<>>
        /\ dirs = [s \in Space |-> {}]
        /\ start = [at |-> 1, left |-> {}]
    BY DEF DeskInit
  <1>2. BoardInv /\ DOMAIN topics = {} /\ DOMAIN posts = {}
    BY <1>1, InitIsFine DEF BoardInit
  <1>3. BornInOrder
    BY <1>2 DEF BornInOrder
  <1>4. Attended
    BY <1>1 DEF Attended
  <1>5. Uploaded
    <2>1. files = 1 .. 0
      BY <1>1
    <2>2. \A r \in Slot : requests[r].op = "idle"
      BY <1>1 DEF Idle
    <2>3. DOMAIN attachments = {} /\ attachments \in [{} -> DOMAIN posts]
      BY <1>1
    <2> QED BY <1>1, <2>1, <2>2, <2>3 DEF Uploaded, Carries
  <1>6. BroughtIn
    <2>1. start.at = 1 /\ start.left = {}
      BY <1>1
    <2>2. \A key \in SourceKey : Seen(key) = {}
      BY <1>1, <2>1, OrderAssumption DEF Seen
    <2>3. \A key \in SourceKey : SourceTopics(key) = {}
      BY <1>2 DEF SourceTopics
    <2> QED BY <1>1, <1>2, <2>1, <2>2, <2>3 DEF BroughtIn
  <1> QED BY <1>2, <1>3, <1>4, <1>5, <1>6 DEF DeskInv

LEMMA DeskStepKeeps == DeskInv /\ [DeskNext]_deskVars => [BoardNext]_boardVars /\ DeskInv'
  <1> SUFFICES ASSUME DeskInv, [DeskNext]_deskVars
               PROVE  [BoardNext]_boardVars /\ DeskInv'
    OBVIOUS
  <1>1. CASE \E r \in Slot : RequestStep(r)
    BY <1>1, RequestStepKeeps
  <1>2. CASE \E who \in Person, s \in Space : Others(who, s)
    BY <1>2, OthersKeep
  <1>3. CASE Restart \/ Mirrors \/ Hides \/ NextSpace
    BY <1>3, RestartKeeps, MirrorsKeep, HidesKeep, NextSpaceKeeps
  <1>4. CASE UNCHANGED deskVars
    <2>1. UNCHANGED <<boardVars, requests, uploads, dirs, start>>
      BY <1>4 DEF deskVars
    <2>2. [BoardNext]_boardVars /\ Kept /\ ArticlesStay
      BY <2>1, NothingWritten
    <2>3. BoardInv' /\ BornInOrder'
      BY <2>2, StepKeeps, BornStays DEF DeskInv
    <2>4. UNCHANGED topics
      BY <2>1 DEF boardVars
    <2>5. Attended'
      BY <2>1, <2>4 DEF DeskInv, Attended, Serving
    <2>6. Uploaded'
      <3>1. UNCHANGED <<files, pictures, attachments, posts>>
        BY <2>1 DEF uploads, boardVars
      <3> QED BY <2>1, <2>2, <3>1, UploadedStays DEF DeskInv, Uploaded
    <2>7. BroughtIn'
      BY <2>1, <2>2, <2>3, BroughtInStays DEF DeskInv
    <2> QED BY <2>2, <2>3, <2>5, <2>6, <2>7 DEF DeskInv
  <1> QED BY <1>1, <1>2, <1>3, <1>4 DEF DeskNext

\* Requests, uploads and the start are in order in every state, whatever handlers,
\* other people and restarts do between their steps (web/mod.rs; articles.rs).
THEOREM DeskIsSound == DeskSpec => []DeskInv
  BY DeskInitIsFine, DeskStepKeeps, PTL DEF DeskSpec

\* Every step of a handler and of the start is one of the board's transactions, or
\* leaves the board alone: what is proved of the board holds of the handlers
\* (web/mod.rs; topics.rs).
THEOREM HandlersDoKeepTheBoard == DeskSpec => HandlersKeepTheBoard
  <1>1. DeskInit => BoardInit
    BY DEF DeskInit
  <1> QED BY <1>1, DeskInitIsFine, DeskStepKeeps, PTL
          DEF DeskSpec, HandlersKeepTheBoard, BoardSpec

\* A row of attachments never names a post that does not show its file while
\* another does (web: attach).
THEOREM RowsNameTheirs == DeskSpec => []RowsNameTheirPost
  <1>1. ASSUME DeskInv, NEW f \in DOMAIN attachments
        PROVE  \/ <<posts[attachments[f]].born, f>> \in pictures
               \/ \A p \in DOMAIN posts : <<posts[p].born, f>> \notin pictures
    <2>1. PICK b \in Nat :
            /\ <<b, f>> \in pictures
            /\ posts[attachments[f]].born = b \/ \A q \in DOMAIN posts : posts[q].born # b
      BY <1>1 DEF DeskInv, Uploaded, Shows
    <2>2. \A c : <<c, f>> \in pictures => c = b
      BY <1>1, <2>1 DEF DeskInv, Uploaded
    <2> QED BY <2>1, <2>2
  <1>2. DeskInv => RowsNameTheirPost
    BY <1>1 DEF RowsNameTheirPost
  <1> QED BY <1>2, DeskIsSound, PTL

\* Whatever a post shows and a row names is on disk (web: attach, serve_attachment).
THEOREM FilesAreThere == DeskSpec => []FilesComeFirst
  <1>1. DeskInv => FilesComeFirst
    BY DEF DeskInv, Uploaded, FilesComeFirst, Serves
  <1> QED BY <1>1, DeskIsSound, PTL

\* Served articles are those of the directories, each in the last space that has its
\* file (articles.rs: mirror).
THEOREM ArticlesAreThere == DeskSpec => []ArticlesAreOnDisk
  <1>1. ASSUME DeskInv, Serving, NEW key \in SourceKey
        PROVE  LET having == {i \in 1 .. Len(Order) : key \in dirs[Order[i]]} IN
               IF having = {} THEN \A t \in SourceTopics(key) : topics[t].hidden
               ELSE \E t \in SourceTopics(key), i \in having :
                      (\A j \in having : j <= i) /\ Visible(Order[i], t)
    <2> DEFINE having == {i \in 1 .. Len(Order) : key \in dirs[Order[i]]}
    <2>1. Len(Order) \in Nat /\ start.at \in Nat /\ start.at > Len(Order)
      BY <1>1, OrderAssumption DEF Serving, DeskInv, BroughtIn
    <2>2. Seen(key) = having
      BY <2>1 DEF Seen
    <2>3. CASE \E i \in Seen(key), t \in SourceTopics(key) :
                 (\A j \in Seen(key) : j <= i) /\ Visible(Order[i], t)
      BY <2>2, <2>3
    <2>4. CASE /\ Seen(key) = {}
               /\ \A j \in 1 .. Len(Order), t \in SourceTopics(key) :
                    j < start.at => ~Visible(Order[j], t)
      <3>1. ASSUME NEW t \in SourceTopics(key) PROVE topics[t].hidden
        <4>1. t \in DOMAIN topics /\ Mirrored(t)
          BY SourceKeyAssumption DEF SourceTopics, Mirrored
        <4>2. PICK j \in 1 .. Len(Order) : topics[t].space = Order[j]
          BY <1>1, <4>1 DEF DeskInv, BroughtIn, Spaces
        <4>3. ~Visible(Order[j], t)
          BY <2>1, <2>4
        <4> QED BY <4>1, <4>2, <4>3 DEF Visible
      <3> QED BY <2>2, <2>4, <3>1
    <2> QED BY <1>1, <2>3, <2>4 DEF DeskInv, BroughtIn
  <1>2. DeskInv => ArticlesAreOnDisk
    BY <1>1 DEF ArticlesAreOnDisk
  <1> QED BY <1>2, DeskIsSound, PTL

\* A topic the list marks as unread is on the bell as well (topics.rs: listed;
\* inbox.rs: unread_count).
THEOREM MarksAreOnTheBell == DeskSpec => []MarkIsOnTheBell
  <1>1. ASSUME DeskInv, NEW x \in Person, NEW s \in Space, NEW t \in ListedTopics(s),
               x \in Readers[s], UnreadMark(x, t),
               \A k \in DOMAIN inbox :
                 k[1] = x /\ posts[k[2]].topic = t => inbox[k].space = topics[t].space
        PROVE  \E line \in UnreadLines(x, {z \in Space : x \in Readers[z]}) :
                 line = <<"replies", t>> \/ \E p \in PostsOf(t) : line[1] # "replies" /\ line[2] = p
    <2> DEFINE spaces == {z \in Space : x \in Readers[z]}
    <2>1. t \in DOMAIN topics /\ topics[t].space = s /\ ~topics[t].hidden
      BY DEF ListedTopics, Visible
    <2>2. PICK k \in DOMAIN inbox : k[1] = x /\ inbox[k].unread /\ posts[k[2]].topic = t
      BY <1>1 DEF UnreadMark
    <2>3. inbox[k].space \in spaces /\ ~topics[posts[k[2]].topic].hidden
      BY <1>1, <2>1, <2>2
    <2>4. inbox[k].reason \in {"reply", "mention", "like"}
      BY <1>1 DEF DeskInv, BoardInv, TypeOK, IsTable, BellRow
    <2>5. k[2] \in PostsOf(t)
      BY <1>1, <2>2 DEF DeskInv, BoardInv, Rooted, PostsOf
    <2>6. k \in Unread(Listed(x, spaces, inbox[k].reason))
      BY <2>2, <2>3 DEF Unread, Listed
    <2> HIDE DEF spaces
    <2>7. CASE inbox[k].reason = "reply"
      <3>1. <<"replies", posts[k[2]].topic>> \in UnreadLines(x, spaces)
        BY <2>6, <2>7 DEF UnreadLines
      <3> QED BY <2>2, <3>1 DEF spaces
    <2>8. CASE inbox[k].reason = "mention"
      <3>1. <<"mention", k[2]>> \in UnreadLines(x, spaces)
        BY <2>6, <2>8 DEF UnreadLines
      <3> QED BY <2>5, <3>1 DEF spaces
    <2>9. CASE inbox[k].reason = "like"
      <3>1. \E l \in likes : l[1] = k[2]
        BY <1>1, <2>9 DEF DeskInv, BoardInv, LikeEntryTrue
      <3>2. <<"likes", k[2]>> \in UnreadLines(x, spaces)
        BY <2>6, <2>9, <3>1 DEF UnreadLines
      <3> QED BY <2>5, <3>2 DEF spaces
    <2> QED BY <2>4, <2>7, <2>8, <2>9
  <1>2. DeskInv => MarkIsOnTheBell
    BY <1>1 DEF MarkIsOnTheBell
  <1> QED BY <1>2, DeskIsSound, PTL

\* Writing, editing and taking back leave the entries there are as they are.
LEMMA WritingReadsNothing ==
  ASSUME NEW who, NEW s, NEW m,
         \/ CreateTopic(who, s, m)
         \/ \E t : AddReply(who, s, t, m)
         \/ \E p : UpdatePost(who, s, p, m) \/ DeleteReply(who, s, p) \/ DeleteTopic(who, s, p)
  PROVE  \A k \in DOMAIN inbox \cap DOMAIN inbox' : inbox'[k] = inbox[k]
  <1>1. ASSUME NEW bell, NEW rows, NEW k \in DOMAIN bell
        PROVE  k \in DOMAIN With(bell, rows) /\ With(bell, rows)[k] = bell[k]
    BY DEF With
  <1>2. CASE CreateTopic(who, s, m) \/ \E p : UpdatePost(who, s, p, m)
    <2>1. PICK rows : inbox' = With(inbox, rows)
      BY <1>2 DEF CreateTopic, UpdatePost, Noted
    <2> QED BY <1>1, <2>1
  <1>3. ASSUME NEW t, AddReply(who, s, t, m)
        PROVE  \A k \in DOMAIN inbox : inbox'[k] = inbox[k]
    <2>1. PICK rows, more : inbox' = With(With(inbox, rows), more)
      BY <1>3 DEF AddReply, ReplyBell, Noted
    <2> QED BY <1>1, <2>1
  <1>4. CASE \E p : DeleteReply(who, s, p) \/ DeleteTopic(who, s, p)
    <2>1. PICK S \in SUBSET DOMAIN inbox : inbox' = Restrict(inbox, S)
      BY <1>4 DEF DeleteReply, DeleteTopic, WithoutPosts
    <2> QED BY <2>1 DEF Restrict
  <1> QED BY <1>2, <1>3, <1>4

\* Nothing but a page that was opened makes an entry read.
LEMMA OnlyPagesRead ==
  ASSUME [DeskNext]_deskVars, ~\E r \in Slot : MarkLoaded(r)
  PROVE  \A k \in DOMAIN inbox \cap DOMAIN inbox' : inbox'[k] = inbox[k]
  <1>1. CASE \E r \in Slot : RequestStep(r)
    <2>1. PICK r \in Slot : RequestStep(r)
      BY <1>1
    <2>2. CASE AddLoaded(r) \/ AddPicture(r)
      BY <2>2, WritingReadsNothing DEF AddLoaded, AddPicture
    <2>3. CASE FollowLoaded(r)
      BY <2>3 DEF FollowLoaded, Follow, Unfollow
    <2>4. CASE \/ StoreFile(r) \/ Record(r) \/ Breaks(r)
               \/ \E who \in Callers, s \in Space, t \in DOMAIN topics :
                    \/ LoadPage(r, who, s, t) \/ LoadToReply(r, who, s, t)
                    \/ LoadToFollow(r, who, s, t) \/ LoadToAttach(r, who, s, t)
      <3>1. UNCHANGED boardVars
        BY <2>4 DEF StoreFile, Record, Breaks, LoadPage, LoadToReply, LoadToFollow,
                    LoadToAttach, Unwritten
      <3> QED BY <3>1 DEF boardVars
    <2> QED BY <2>1, <2>2, <2>3, <2>4 DEF RequestStep
  <1>2. CASE \E who \in Person, s \in Space : Others(who, s)
    BY <1>2, WritingReadsNothing DEF Others, OpenTopic, Reply, EditPost, DeletePost
  <1>3. CASE Mirrors \/ Hides
    BY <1>3 DEF Mirrors, Hides, MirrorNew, MirrorAgain, HideMissing
  <1>4. CASE Restart \/ NextSpace \/ UNCHANGED deskVars
    <2>1. UNCHANGED boardVars
      BY <1>4 DEF Restart, NextSpace, deskVars
    <2> QED BY <2>1 DEF boardVars
  <1> QED BY <1>1, <1>2, <1>3, <1>4 DEF DeskNext

\* What a page reads.
LEMMA WhatAPageReads ==
  ASSUME DeskInv, NEW r \in Slot, MarkLoaded(r),
         NEW k \in DOMAIN inbox, inbox[k].unread, ~inbox'[k].unread
  PROVE  /\ requests[r].op = "page" /\ requests[r].who = k[1]
         /\ \/ posts[k[2]].topic = requests[r].topic /\ topics[requests[r].topic].born < requests[r].born
            \/ posts[k[2]].born >= requests[r].born
  <1>1. requests[r].op = "page" /\ requests[r].who = k[1] /\ posts[k[2]].topic = requests[r].topic
    BY DEF MarkLoaded, MarkRead
  <1>2. requests[r].born \in Nat
    BY <1>1, RequestIsOne DEF DeskInv, Request
  <1>3. k[2] \in DOMAIN posts
    BY DEF DeskInv, BoardInv, Rooted
  <1>4. /\ posts[k[2]].born \in Nat /\ topics[posts[k[2]].topic].born \in Nat
        /\ topics[posts[k[2]].topic].born <= posts[k[2]].born
    BY <1>3 DEF DeskInv, BornInOrder, BoardInv, Core, IsTable, PostRow, TopicRow
  <1> QED BY <1>1, <1>2, <1>4

\* An entry is read by a page of its own topic, or it is newer than the page
\* (web: topic_page).
THEOREM PagesReadTheirs == DeskSpec => PageReadsItsTopic
  <1>1. DeskInv /\ [DeskNext]_deskVars =>
          [\A k \in DOMAIN inbox \cap DOMAIN inbox' : inbox[k].unread /\ ~inbox'[k].unread =>
             \E r \in Slot :
               /\ requests[r].op = "page" /\ requests[r].who = k[1]
               /\ \/ posts[k[2]].topic = requests[r].topic /\ topics[requests[r].topic].born < requests[r].born
                  \/ posts[k[2]].born >= requests[r].born]_deskVars
    <2> SUFFICES ASSUME DeskInv, [DeskNext]_deskVars,
                        NEW k \in DOMAIN inbox \cap DOMAIN inbox', inbox[k].unread, ~inbox'[k].unread
                 PROVE  \E r \in Slot :
                          /\ requests[r].op = "page" /\ requests[r].who = k[1]
                          /\ \/ /\ posts[k[2]].topic = requests[r].topic
                                /\ topics[requests[r].topic].born < requests[r].born
                             \/ posts[k[2]].born >= requests[r].born
      OBVIOUS
    <2>1. PICK r \in Slot : MarkLoaded(r)
      BY OnlyPagesRead
    <2> QED BY <2>1, WhatAPageReads
  <1> QED BY <1>1, DeskIsSound, PTL DEF DeskSpec, PageReadsItsTopic

=============================================================================
