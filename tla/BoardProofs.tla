---------------------------- MODULE BoardProofs ----------------------------
(***************************************************************************)
(* What holds of the board for any number of people, spaces, topics and    *)
(* posts: its tables, what becomes of an entry, the badge, and what is     *)
(* owed to whom.                                                           *)
(***************************************************************************)
EXTENDS Board, TLAPS, FiniteSetTheorems

-----------------------------------------------------------------------------
(* Tables.                                                                 *)

\* An insert keeps a table a table.
LEMMA WithIsTable ==
  ASSUME NEW K, NEW R, NEW f, NEW g, IsTable(f, K, R), IsTable(g, K, R)
  PROVE  IsTable(With(f, g), K, R)
  BY DEF IsTable, With

\* So does a delete.
LEMMA RestrictIsTable ==
  ASSUME NEW K, NEW R, NEW f, NEW S, IsTable(f, K, R), S \subseteq DOMAIN f
  PROVE  IsTable(Restrict(f, S), K, R)
  BY DEF IsTable, Restrict

\* A single row is a table.
LEMMA RowIsTable ==
  ASSUME NEW K, NEW R, NEW id \in K, NEW r \in R
  PROVE  IsTable(Row(id, r), K, R)
  BY DEF IsTable, Row

\* The next id is positive, new, and larger than every id in use.
LEMMA NextIdIsFresh ==
  ASSUME NEW ids \in SUBSET Id, NEW n \in NextId(ids)
  PROVE  n \in Id /\ n \notin ids /\ \A i \in ids : i < n
  BY DEF Id, NextId

\* A listing is a table of the rows it lists, each under one id, no id smaller
\* than its first.
LEMMA ListingIsTable ==
  ASSUME NEW rows, NEW first \in Id, NEW at \in Listings(rows, first), NEW R, rows \subseteq R
  PROVE  /\ IsTable(at, Id, R)
         /\ \A i \in DOMAIN at : first <= i /\ at[i] \in rows
         /\ \A i, j \in DOMAIN at : at[i] = at[j] => i = j
         /\ \A r \in rows : \E i \in DOMAIN at : at[i] = r
  BY DEF IsTable, Id, Listings, Bijection, Injection, IsInjective, Surjection

\* Queued rows follow the old ones: those stay, and the others are the new rows,
\* each under one id.
LEMMA QueueAppends ==
  ASSUME IsTable(outbox, Id, OwedRow), NEW rows \in SUBSET OwedRow, Queue(rows)
  PROVE  /\ IsTable(outbox', Id, OwedRow)
         /\ DOMAIN outbox \subseteq DOMAIN outbox'
         /\ \A i \in DOMAIN outbox : outbox'[i] = outbox[i]
         /\ \A i \in DOMAIN outbox' \ DOMAIN outbox : outbox'[i] \in rows
         /\ \A i, j \in DOMAIN outbox' \ DOMAIN outbox : outbox'[i] = outbox'[j] => i = j
         /\ \A r \in rows : \E i \in DOMAIN outbox' \ DOMAIN outbox : outbox'[i] = r
  <1>1. PICK first \in NextId(DOMAIN outbox) :
          \E at \in Listings(rows, first) : outbox' = With(outbox, at)
    BY DEF Queue
  <1>2. PICK at \in Listings(rows, first) : outbox' = With(outbox, at)
    BY <1>1
  <1>3. first \in Id /\ \A i \in DOMAIN outbox : i < first
    BY NextIdIsFresh DEF IsTable
  <1>4. /\ IsTable(at, Id, OwedRow)
        /\ \A i \in DOMAIN at : first <= i /\ at[i] \in rows
        /\ \A i, j \in DOMAIN at : at[i] = at[j] => i = j
        /\ \A r \in rows : \E i \in DOMAIN at : at[i] = r
    BY <1>3, ListingIsTable
  <1>5. IsTable(outbox', Id, OwedRow)
    BY <1>2, <1>4, WithIsTable
  <1>6. \A i \in DOMAIN at : i \notin DOMAIN outbox
    BY <1>3, <1>4 DEF IsTable, Id
  <1>7. /\ DOMAIN outbox' = DOMAIN outbox \cup DOMAIN at
        /\ \A i \in DOMAIN outbox : outbox'[i] = outbox[i]
        /\ \A i \in DOMAIN at : outbox'[i] = at[i]
    BY <1>2, <1>6 DEF With
  <1> QED
    BY <1>4, <1>5, <1>6, <1>7
-----------------------------------------------------------------------------
(* Topics and posts.                                                       *)

\* Every post is in a topic, every topic has a post, and an article's opening
\* post - and no other - is the publisher's.
Core ==
  /\ IsTable(topics, Id, TopicRow)
  /\ IsTable(posts, Id, PostRow)
  /\ clock \in Nat
  /\ \A p \in DOMAIN posts : posts[p].topic \in DOMAIN topics
  /\ \A t \in DOMAIN topics : \E p \in DOMAIN posts : posts[p].topic = t
  /\ \A p \in DOMAIN posts :
       posts[p].author = Publisher <=> Mirrored(posts[p].topic) /\ Opens(p)

\* A new topic and its opening post.
LEMMA CoreNewTopic ==
  ASSUME Core,
         NEW t \in NextId(DOMAIN topics), NEW p \in NextId(DOMAIN posts), NEW s \in Space,
         NEW source \in SourceKey \cup {Nobody}, NEW author \in Person \cup {Publisher},
         author = Publisher <=> source # Nobody,
         topics' = With(topics, Row(t, [space |-> s, source |-> source,
                                        hidden |-> FALSE, born |-> clock])),
         posts' = With(posts, Row(p, [topic |-> t, author |-> author, born |-> clock])),
         clock' = clock + 1
  PROVE  Core'
  <1>1. /\ t \in Id /\ t \notin DOMAIN topics
        /\ p \in Id /\ p \notin DOMAIN posts
    BY NextIdIsFresh DEF Core, IsTable
  <1>2. IsTable(topics', Id, TopicRow)
    <2>1. [space |-> s, source |-> source, hidden |-> FALSE, born |-> clock] \in TopicRow
      BY DEF TopicRow, Core
    <2> QED BY <1>1, <2>1, RowIsTable, WithIsTable DEF Core
  <1>3. IsTable(posts', Id, PostRow)
    <2>1. [topic |-> t, author |-> author, born |-> clock] \in PostRow
      BY <1>1 DEF PostRow, Core
    <2> QED BY <1>1, <2>1, RowIsTable, WithIsTable DEF Core
  <1>4. /\ DOMAIN topics' = DOMAIN topics \cup {t}
        /\ topics'[t].source = source
        /\ \A u \in DOMAIN topics : topics'[u] = topics[u]
    BY <1>1 DEF With, Row
  <1>5. /\ DOMAIN posts' = DOMAIN posts \cup {p}
        /\ posts'[p].topic = t /\ posts'[p].author = author
        /\ \A q \in DOMAIN posts : posts'[q] = posts[q]
    BY <1>1 DEF With, Row
  <1>6. \A q \in DOMAIN posts' : posts'[q].topic \in DOMAIN topics'
    BY <1>4, <1>5 DEF Core
  <1>7. \A u \in DOMAIN topics' : \E q \in DOMAIN posts' : posts'[q].topic = u
    BY <1>4, <1>5 DEF Core
  <1>8. PostsOf(t)' = {p}
    BY <1>1, <1>5 DEF Core, PostsOf
  <1>9. \A q \in DOMAIN posts : Opens(q)' <=> Opens(q)
    BY <1>1, <1>5 DEF Core, Opens, PostsOf
  <1>10. Opens(p)'
    BY <1>1, <1>5, <1>8 DEF Opens, Id
  <1>11. \A q \in DOMAIN posts' :
           (posts[q].author = Publisher <=> Mirrored(posts[q].topic) /\ Opens(q))'
    <2>1. (posts[p].author = Publisher <=> Mirrored(posts[p].topic) /\ Opens(p))'
      BY <1>4, <1>5, <1>10 DEF Mirrored
    <2>2. ASSUME NEW q \in DOMAIN posts
          PROVE  (posts[q].author = Publisher <=> Mirrored(posts[q].topic) /\ Opens(q))'
      <3>1. posts[q].author = Publisher <=> Mirrored(posts[q].topic) /\ Opens(q)
        BY DEF Core
      <3>2. topics'[posts'[q].topic] = topics[posts[q].topic]
        BY <1>4, <1>5 DEF Core
      <3> QED BY <1>5, <1>9, <3>1, <3>2 DEF Mirrored
    <2> QED BY <1>5, <2>1, <2>2
  <1>12. clock' \in Nat
    BY DEF Core
  <1> QED BY <1>2, <1>3, <1>6, <1>7, <1>11, <1>12 DEF Core

\* A reply.
LEMMA CoreReply ==
  ASSUME Core, NEW t \in DOMAIN topics, NEW p \in NextId(DOMAIN posts), NEW author \in Person,
         posts' = With(posts, Row(p, [topic |-> t, author |-> author, born |-> clock])),
         topics' = topics, clock' = clock + 1
  PROVE  Core'
  <1>1. p \in Id /\ p \notin DOMAIN posts /\ \A q \in DOMAIN posts : q < p
    BY NextIdIsFresh DEF Core, IsTable
  <1>2. IsTable(posts', Id, PostRow)
    <2>1. [topic |-> t, author |-> author, born |-> clock] \in PostRow
      BY DEF PostRow, Core, IsTable
    <2> QED BY <1>1, <2>1, RowIsTable, WithIsTable DEF Core
  <1>3. /\ DOMAIN posts' = DOMAIN posts \cup {p}
        /\ posts'[p].topic = t /\ posts'[p].author = author
        /\ \A q \in DOMAIN posts : posts'[q] = posts[q]
    BY <1>1 DEF With, Row
  <1>4. \A q \in DOMAIN posts : Opens(q)' <=> Opens(q)
    BY <1>1, <1>3 DEF Core, IsTable, Opens, PostsOf, Id
  <1>5. ~Opens(p)'
    BY <1>1, <1>3 DEF Core, IsTable, Opens, PostsOf, Id
  <1>6. author # Publisher
    BY PublisherAssumption
  <1>7. clock' \in Nat
    BY DEF Core
  <1> QED BY <1>2, <1>3, <1>4, <1>5, <1>6, <1>7 DEF Core, Mirrored

\* Posts taken away, none of them opening a topic that stays, and the topics of
\* those that do.
LEMMA CoreDelete ==
  ASSUME Core, NEW gone \in SUBSET DOMAIN posts, NEW dead \in SUBSET DOMAIN topics,
         posts' = Restrict(posts, DOMAIN posts \ gone),
         topics' = Restrict(topics, DOMAIN topics \ dead),
         \A t \in dead : PostsOf(t) \subseteq gone,
         \A p \in gone : posts[p].topic \in dead \/ ~\E q \in gone : q # p,
         \A p \in gone : posts[p].topic \in dead \/ ~Opens(p),
         clock' = clock
  PROVE  Core'
  <1>1. IsTable(topics', Id, TopicRow) /\ IsTable(posts', Id, PostRow)
    BY RestrictIsTable DEF Core
  <1>2. /\ DOMAIN posts' = DOMAIN posts \ gone
        /\ \A p \in DOMAIN posts' : posts'[p] = posts[p]
    BY DEF Restrict
  <1>3. /\ DOMAIN topics' = DOMAIN topics \ dead
        /\ \A t \in DOMAIN topics' : topics'[t] = topics[t]
    BY DEF Restrict
  <1>4. \A p \in DOMAIN posts' : posts'[p].topic \in DOMAIN topics'
    BY <1>2, <1>3 DEF Core, PostsOf
  <1>5. \A p \in DOMAIN posts : p \in Int
    BY DEF Core, IsTable, Id
  <1>6. ASSUME NEW p \in gone, posts[p].topic \notin dead
        PROVE  \E q \in DOMAIN posts' : posts[q].topic = posts[p].topic /\ q < p
    <2>1. PICK q \in PostsOf(posts[p].topic) : ~(p <= q)
      BY <1>6 DEF Opens
    <2>2. q \in DOMAIN posts /\ posts[q].topic = posts[p].topic
      BY DEF PostsOf
    <2>3. q < p
      BY <1>5, <2>1, <2>2
    <2>4. q \notin gone
      BY <1>5, <1>6, <2>3
    <2> QED BY <1>2, <2>2, <2>3, <2>4
  <1>7. \A t \in DOMAIN topics' : \E p \in DOMAIN posts' : posts'[p].topic = t
    <2> SUFFICES ASSUME NEW t \in DOMAIN topics' PROVE \E p \in DOMAIN posts' : posts'[p].topic = t
      OBVIOUS
    <2>1. PICK p \in DOMAIN posts : posts[p].topic = t
      BY <1>3 DEF Core
    <2>2. CASE p \in gone
      <3>1. posts[p].topic \notin dead
        BY <1>3, <2>1
      <3>2. PICK q \in DOMAIN posts' : posts[q].topic = posts[p].topic /\ q < p
        BY <1>6, <2>2, <3>1
      <3> QED BY <1>2, <2>1, <3>2
    <2>3. CASE p \notin gone
      BY <1>2, <2>1, <2>3
    <2> QED BY <2>2, <2>3
  <1>8. \A p \in DOMAIN posts' : Opens(p)' <=> Opens(p)
    <2> SUFFICES ASSUME NEW p \in DOMAIN posts' PROVE Opens(p)' <=> Opens(p)
      OBVIOUS
    <2>1. Opens(p) => Opens(p)'
      BY <1>2 DEF Opens, PostsOf
    <2>2. ASSUME Opens(p)', NEW r \in PostsOf(posts[p].topic) PROVE p <= r
      <3>1. r \in DOMAIN posts /\ posts[r].topic = posts[p].topic
        BY DEF PostsOf
      <3>2. CASE r \in gone
        <4>1. posts[r].topic \notin dead
          BY <1>2, <1>3, <1>4, <3>1
        <4>2. PICK q \in DOMAIN posts' : posts[q].topic = posts[r].topic /\ q < r
          BY <1>6, <3>2, <4>1
        <4>3. p <= q
          BY <1>2, <2>2, <3>1, <4>2 DEF Opens, PostsOf
        <4> QED BY <1>2, <1>5, <3>1, <4>2, <4>3
      <3>3. CASE r \notin gone
        BY <1>2, <2>2, <3>1, <3>3 DEF Opens, PostsOf
      <3> QED BY <3>2, <3>3
    <2> QED BY <2>1, <2>2 DEF Opens
  <1>9. \A p \in DOMAIN posts' :
          (posts[p].author = Publisher <=> Mirrored(posts[p].topic) /\ Opens(p))'
    <2> SUFFICES ASSUME NEW p \in DOMAIN posts'
                 PROVE  (posts[p].author = Publisher <=> Mirrored(posts[p].topic) /\ Opens(p))'
      OBVIOUS
    <2>1. posts[p].author = Publisher <=> Mirrored(posts[p].topic) /\ Opens(p)
      BY <1>2 DEF Core
    <2>2. topics'[posts'[p].topic] = topics[posts[p].topic]
      BY <1>2, <1>3, <1>4
    <2> QED BY <1>2, <1>8, <2>1, <2>2 DEF Mirrored
  <1> QED BY <1>1, <1>4, <1>7, <1>9 DEF Core
-----------------------------------------------------------------------------
(* The inductive invariant.                                                *)

\* No row is about a topic or a post that is gone.
Rooted ==
  /\ \A f \in follows : f[2] \in DOMAIN topics
  /\ \A k \in DOMAIN inbox : k[2] \in DOMAIN posts
  /\ \A l \in likes : l[1] \in DOMAIN posts
  /\ \A i \in DOMAIN outbox : outbox[i].post \in DOMAIN posts

BoardInv == Core /\ TypeOK /\ Rooted /\ NotAboutOneself /\ LikeEntryTrue

\* `new' is the bell with entries of this reason, for these subjects, under this post.
Adds(new, bell, subjects, p, why) ==
  /\ IsTable(new, Person \X Id, BellRow)
  /\ DOMAIN new = DOMAIN bell \cup (subjects \X {p})
  /\ \A k \in DOMAIN bell : new[k] = bell[k]
  /\ \A k \in DOMAIN new \ DOMAIN bell :
       k[1] \in subjects /\ k[2] = p /\ new[k].reason = why /\ new[k].unread

\* Noting adds entries, and changes none.
LEMMA NotedAdds ==
  ASSUME NEW bell, IsTable(bell, Person \X Id, BellRow), NEW s \in Space, NEW p \in Id,
         NEW subjects, subjects \subseteq Person, NEW why \in {"reply", "mention", "like"},
         NEW new, new = Noted(bell, s, p, subjects, why)
  PROVE  Adds(new, bell, subjects, p, why)
  <1> DEFINE rows == [k \in subjects \X {p} |-> [space |-> s, reason |-> why, unread |-> TRUE]]
  <1>1. IsTable(rows, Person \X Id, BellRow)
    BY DEF IsTable, BellRow
  <1>2. new = With(bell, rows)
    BY DEF Noted
  <1>3. IsTable(new, Person \X Id, BellRow)
    BY <1>1, <1>2, WithIsTable
  <1> QED BY <1>2, <1>3 DEF With, Adds

\* What is owed to a person about a post is a row of the outbox.
LEMMA OwedIsRow ==
  ASSUME NEW x \in Person, NEW s \in Space, NEW p \in Id,
         NEW channel \in {"mail", "webhook"}, NEW why \in {"reply", "mention"}
  PROVE  /\ Owed(x, s, p, channel, why) \in OwedRow
         /\ Owed(x, s, p, channel, why).post = p
         /\ Owed(x, s, p, channel, why).subject = x
         /\ Owed(x, s, p, channel, why).kanal = channel
  BY DEF Owed, OwedRow

\* A row about post p that is no mail for its writer.
Proper(r, p, who) == r \in OwedRow /\ r.post = p /\ (r.kanal = "mail" => r.subject # who)

\* What a post owes is about that post, and its mails are not for its writer.
LEMMA OwedIsProper ==
  ASSUME NEW s \in Space, NEW p \in Id, NEW who \in Person,
         NEW told \in SUBSET (Person \ {who}), NEW bell, NEW t
  PROVE  /\ \A r \in MentionMails(s, p, told) : Proper(r, p, who)
         /\ \A r \in FollowerMails(bell, s, t, p, who) : Proper(r, p, who)
         /\ Proper(Webhook(s, p, who), p, who)
  <1>1. \A r \in MentionMails(s, p, told) : Proper(r, p, who)
    <2>1. \A x \in told : x \in Person /\ x # who
      OBVIOUS
    <2> QED BY <2>1, OwedIsRow DEF MentionMails, Proper
  <1>2. \A r \in FollowerMails(bell, s, t, p, who) : Proper(r, p, who)
    <2> SUFFICES ASSUME NEW r \in FollowerMails(bell, s, t, p, who) PROVE Proper(r, p, who)
      OBVIOUS
    <2>1. PICK x \in Followers(t) \ {who} : r = Owed(x, s, p, "mail", "reply")
      BY DEF FollowerMails
    <2>2. x \in Person /\ x # who
      BY DEF Followers
    <2> QED BY <2>1, <2>2, OwedIsRow DEF Proper
  <1>3. Proper(Webhook(s, p, who), p, who)
    BY OwedIsRow DEF Webhook, Proper
  <1> QED BY <1>1, <1>2, <1>3

\* The invariant survives a step that queues rows about a post p of `who', adds
\* entries about it for others, and changes no other post.
LEMMA WritingKeeps ==
  ASSUME BoardInv, Core', NEW who \in Person, NEW p \in DOMAIN posts',
         posts'[p].author = who,
         DOMAIN posts \subseteq DOMAIN posts',
         \A q \in DOMAIN posts : posts'[q] = posts[q],
         DOMAIN topics \subseteq DOMAIN topics',
         follows' \subseteq Person \X DOMAIN topics',
         likes' = likes, optedOut' = optedOut,
         IsTable(inbox', Person \X Id, BellRow),
         DOMAIN inbox \subseteq DOMAIN inbox',
         \A k \in DOMAIN inbox : inbox'[k] = inbox[k],
         \A k \in DOMAIN inbox' \ DOMAIN inbox :
           k[1] # who /\ k[2] = p /\ inbox'[k].reason # "like",
         NEW rows, Queue(rows), \A r \in rows : Proper(r, p, who)
  PROVE  BoardInv'
  <1>0. rows \in SUBSET OwedRow /\ \A r \in rows : r.post = p /\ (r.kanal = "mail" => r.subject # who)
    BY DEF Proper
  <1>1. /\ IsTable(outbox', Id, OwedRow)
        /\ DOMAIN outbox \subseteq DOMAIN outbox'
        /\ \A i \in DOMAIN outbox : outbox'[i] = outbox[i]
        /\ \A i \in DOMAIN outbox' \ DOMAIN outbox : outbox'[i] \in rows
    BY <1>0, QueueAppends DEF BoardInv, TypeOK
  <1>2. TypeOK'
    <2>1. follows' \subseteq Person \X Id
      BY DEF Core, IsTable
    <2> QED BY <1>1, <2>1 DEF BoardInv, TypeOK, Core
  <1>3. Rooted'
    <2>1. \A f \in follows' : f[2] \in DOMAIN topics'
      OBVIOUS
    <2>2. \A k \in DOMAIN inbox' : k[2] \in DOMAIN posts'
      BY DEF BoardInv, Rooted
    <2>3. \A l \in likes' : l[1] \in DOMAIN posts'
      BY DEF BoardInv, Rooted
    <2>4. \A i \in DOMAIN outbox' : outbox'[i].post \in DOMAIN posts'
      BY <1>0, <1>1 DEF BoardInv, Rooted
    <2> QED BY <2>1, <2>2, <2>3, <2>4 DEF Rooted
  <1>4. NotAboutOneself'
    <2>1. ASSUME NEW k \in DOMAIN inbox', inbox'[k].reason # "like"
          PROVE  posts'[k[2]].author # k[1]
      BY <2>1 DEF BoardInv, Rooted, NotAboutOneself
    <2>2. ASSUME NEW i \in DOMAIN outbox', outbox'[i].kanal = "mail"
          PROVE  posts'[outbox'[i].post].author # outbox'[i].subject
      BY <1>0, <1>1, <2>2 DEF BoardInv, Rooted, NotAboutOneself
    <2> QED BY <2>1, <2>2 DEF NotAboutOneself
  <1>5. LikeEntryTrue'
    <2>1. ASSUME NEW k \in DOMAIN inbox', inbox'[k].reason = "like"
          PROVE  /\ \E l \in likes' : l[1] = k[2]
                 /\ Rightful(k[1], posts'[k[2]].author)
      BY <2>1 DEF BoardInv, Rooted, LikeEntryTrue
    <2>2. ASSUME NEW l \in likes', posts'[l[1]].author \in Person
          PROVE  LET k == <<posts'[l[1]].author, l[1]>> IN
                 k \in DOMAIN inbox' /\ inbox'[k].reason = "like"
      BY <2>2 DEF BoardInv, Rooted, LikeEntryTrue
    <2> QED BY <2>1, <2>2 DEF LikeEntryTrue
  <1> QED BY <1>2, <1>3, <1>4, <1>5 DEF BoardInv
-----------------------------------------------------------------------------
(* One lemma per kind of step.                                             *)

\* The empty database.
LEMMA InitIsFine == BoardInit => BoardInv
  BY DEF BoardInit, BoardInv, Core, TypeOK, Rooted, NotAboutOneself, LikeEntryTrue, IsTable

\* topics.rs: create_topic_mentioning.
LEMMA CreateTopicKeeps ==
  ASSUME BoardInv, NEW who \in Person, NEW s \in Space, NEW mentioned \in SUBSET (Person \ {who}),
         CreateTopic(who, s, mentioned)
  PROVE  BoardInv'
  <1>1. PICK t \in NextId(DOMAIN topics), p \in NextId(DOMAIN posts) :
          /\ topics' = With(topics, Row(t, [space |-> s, source |-> Nobody,
                                            hidden |-> FALSE, born |-> clock]))
          /\ posts' = With(posts, Row(p, [topic |-> t, author |-> who, born |-> clock]))
          /\ follows' = follows \cup {<<who, t>>}
          /\ inbox' = Noted(inbox, s, p, mentioned, "mention")
          /\ Queue(MentionMails(s, p, NewlyTold(inbox, p, mentioned)) \cup {Webhook(s, p, who)})
    BY DEF CreateTopic
  <1>2. clock' = clock + 1 /\ likes' = likes /\ optedOut' = optedOut
    BY DEF CreateTopic
  <1>3. Core'
    BY <1>1, <1>2, CoreNewTopic, PublisherAssumption DEF BoardInv
  <1>4. t \in Id /\ p \in Id /\ t \notin DOMAIN topics /\ p \notin DOMAIN posts
    BY NextIdIsFresh DEF BoardInv, Core, IsTable
  <1>5. /\ DOMAIN posts' = DOMAIN posts \cup {p}
        /\ posts'[p].author = who
        /\ \A q \in DOMAIN posts : posts'[q] = posts[q]
        /\ DOMAIN topics' = DOMAIN topics \cup {t}
    BY <1>1, <1>4 DEF With, Row
  <1>6. follows' \subseteq Person \X DOMAIN topics'
    BY <1>1, <1>5 DEF BoardInv, TypeOK, Rooted
  <1>7. /\ IsTable(inbox', Person \X Id, BellRow)
        /\ DOMAIN inbox \subseteq DOMAIN inbox'
        /\ \A k \in DOMAIN inbox : inbox'[k] = inbox[k]
        /\ \A k \in DOMAIN inbox' \ DOMAIN inbox :
             k[1] # who /\ k[2] = p /\ inbox'[k].reason # "like"
    <2>1. mentioned \subseteq Person /\ who \notin mentioned
      OBVIOUS
    <2>2. IsTable(inbox, Person \X Id, BellRow) /\ inbox' = Noted(inbox, s, p, mentioned, "mention")
      BY <1>1 DEF BoardInv, TypeOK
    <2>3. Adds(inbox', inbox, mentioned, p, "mention")
      BY <1>4, <2>1, <2>2, NotedAdds
    <2> QED BY <2>1, <2>3 DEF Adds
  <1> DEFINE told == NewlyTold(inbox, p, mentioned)
             rows == MentionMails(s, p, told) \cup {Webhook(s, p, who)}
  <1>8. told \in SUBSET (Person \ {who})
    BY DEF NewlyTold
  <1>9. \A r \in rows : Proper(r, p, who)
    BY <1>4, <1>8, OwedIsProper
  <1>10. Queue(rows)
    BY <1>1
  <1> HIDE DEF told, rows
  <1> QED BY <1>2, <1>3, <1>5, <1>6, <1>7, <1>9, <1>10, WritingKeeps

\* topics.rs: add_reply_mentioning.
LEMMA AddReplyKeeps ==
  ASSUME BoardInv, NEW who \in Person, NEW s \in Space, NEW t \in DOMAIN topics,
         NEW mentioned \in SUBSET (Person \ {who}), AddReply(who, s, t, mentioned)
  PROVE  BoardInv'
  <1>1. PICK p \in NextId(DOMAIN posts) :
          LET told == NewlyTold(inbox, p, mentioned)
              bell == Noted(inbox, s, p, mentioned, "mention") IN
          /\ posts' = With(posts, Row(p, [topic |-> t, author |-> who, born |-> clock]))
          /\ follows' = follows \cup {<<who, t>>}
          /\ Queue(MentionMails(s, p, told) \cup FollowerMails(bell, s, t, p, who)
                     \cup {Webhook(s, p, who)})
          /\ inbox' = ReplyBell(bell, s, t, p, who)
    BY DEF AddReply
  <1>2. clock' = clock + 1 /\ topics' = topics /\ likes' = likes /\ optedOut' = optedOut
    BY DEF AddReply
  <1>3. Core'
    BY <1>1, <1>2, CoreReply DEF BoardInv
  <1>4. p \in Id /\ p \notin DOMAIN posts
    BY NextIdIsFresh DEF BoardInv, Core, IsTable
  <1>5. /\ DOMAIN posts' = DOMAIN posts \cup {p}
        /\ posts'[p].author = who
        /\ \A q \in DOMAIN posts : posts'[q] = posts[q]
    BY <1>1, <1>4 DEF With, Row
  <1>6. follows' \subseteq Person \X DOMAIN topics'
    BY <1>1, <1>2 DEF BoardInv, TypeOK, Rooted
  <1> DEFINE told == NewlyTold(inbox, p, mentioned)
             bell == Noted(inbox, s, p, mentioned, "mention")
             rows == MentionMails(s, p, told) \cup FollowerMails(bell, s, t, p, who)
                       \cup {Webhook(s, p, who)}
  <1>7. /\ IsTable(bell, Person \X Id, BellRow)
        /\ DOMAIN inbox \subseteq DOMAIN bell
        /\ \A k \in DOMAIN inbox : bell[k] = inbox[k]
        /\ \A k \in DOMAIN bell \ DOMAIN inbox :
             k[1] # who /\ k[2] = p /\ bell[k].reason # "like"
    <2>1. mentioned \subseteq Person /\ who \notin mentioned
      OBVIOUS
    <2>2. IsTable(inbox, Person \X Id, BellRow) /\ bell = Noted(inbox, s, p, mentioned, "mention")
      BY DEF BoardInv, TypeOK
    <2>3. Adds(bell, inbox, mentioned, p, "mention")
      BY <1>4, <2>1, <2>2, NotedAdds
    <2> QED BY <2>1, <2>3 DEF Adds
  <1>8. Followers(t) \ {who} \in SUBSET Person /\ who \notin Followers(t) \ {who}
    BY DEF Followers
  <1> HIDE DEF bell
  <1>9. /\ IsTable(inbox', Person \X Id, BellRow)
        /\ DOMAIN bell \subseteq DOMAIN inbox'
        /\ \A k \in DOMAIN bell : inbox'[k] = bell[k]
        /\ \A k \in DOMAIN inbox' \ DOMAIN bell :
             k[1] # who /\ k[2] = p /\ inbox'[k].reason # "like"
    <2>1. (Followers(t) \ {who}) \subseteq Person /\ who \notin (Followers(t) \ {who})
      BY <1>8
    <2>2. IsTable(bell, Person \X Id, BellRow) /\ inbox' = Noted(bell, s, p, (Followers(t) \ {who}), "reply")
      BY <1>1, <1>7 DEF ReplyBell, bell
    <2>3. Adds(inbox', bell, (Followers(t) \ {who}), p, "reply")
      BY <1>4, <2>1, <2>2, NotedAdds
    <2> QED BY <2>1, <2>3 DEF Adds
  <1>10. /\ DOMAIN inbox \subseteq DOMAIN inbox'
         /\ \A k \in DOMAIN inbox : inbox'[k] = inbox[k]
         /\ \A k \in DOMAIN inbox' \ DOMAIN inbox :
              k[1] # who /\ k[2] = p /\ inbox'[k].reason # "like"
    BY <1>7, <1>9
  <1>11. told \in SUBSET (Person \ {who})
    BY DEF NewlyTold
  <1>12. \A r \in rows : Proper(r, p, who)
    BY <1>4, <1>11, OwedIsProper
  <1>13. Queue(rows)
    BY <1>1 DEF bell
  <1> HIDE DEF told, rows
  <1> QED BY <1>2, <1>3, <1>5, <1>6, <1>9, <1>10, <1>12, <1>13, WritingKeeps

\* topics.rs: update_post, which may write new mentions.
LEMMA UpdatePostKeeps ==
  ASSUME BoardInv, NEW who \in Person, NEW s \in Space, NEW p \in DOMAIN posts,
         NEW mentioned \in SUBSET (Person \ {who}), UpdatePost(who, s, p, mentioned)
  PROVE  BoardInv'
  <1>1. /\ posts[p].author = who
        /\ inbox' = Noted(inbox, s, p, mentioned, "mention")
        /\ Queue(MentionMails(s, p, NewlyTold(inbox, p, mentioned)))
        /\ topics' = topics /\ posts' = posts /\ follows' = follows
        /\ likes' = likes /\ optedOut' = optedOut /\ clock' = clock
    BY DEF UpdatePost
  <1>2. Core'
    BY <1>1 DEF BoardInv, Core, Mirrored, Opens, PostsOf
  <1>3. p \in Id
    BY DEF BoardInv, Core, IsTable
  <1>4. follows' \subseteq Person \X DOMAIN topics'
    BY <1>1 DEF BoardInv, TypeOK, Rooted
  <1>5. /\ IsTable(inbox', Person \X Id, BellRow)
        /\ DOMAIN inbox \subseteq DOMAIN inbox'
        /\ \A k \in DOMAIN inbox : inbox'[k] = inbox[k]
        /\ \A k \in DOMAIN inbox' \ DOMAIN inbox :
             k[1] # who /\ k[2] = p /\ inbox'[k].reason # "like"
    <2>1. mentioned \subseteq Person /\ who \notin mentioned
      OBVIOUS
    <2>2. IsTable(inbox, Person \X Id, BellRow) /\ inbox' = Noted(inbox, s, p, mentioned, "mention")
      BY <1>1 DEF BoardInv, TypeOK
    <2>3. Adds(inbox', inbox, mentioned, p, "mention")
      BY <1>3, <2>1, <2>2, NotedAdds
    <2> QED BY <2>1, <2>3 DEF Adds
  <1> DEFINE told == NewlyTold(inbox, p, mentioned)
             rows == MentionMails(s, p, told)
  <1>6. told \in SUBSET (Person \ {who})
    BY DEF NewlyTold
  <1>7. \A r \in rows : Proper(r, p, who)
    BY <1>3, <1>6, OwedIsProper
  <1>8. Queue(rows)
    BY <1>1
  <1> HIDE DEF told, rows
  <1> QED BY <1>1, <1>2, <1>4, <1>5, <1>7, <1>8, WritingKeeps

\* A cascade keeps the rows of the posts that stay, and their topics.
LEMMA WithoutPostsKeeps ==
  ASSUME BoardInv, Core', NEW gone \in SUBSET DOMAIN posts, WithoutPosts(gone),
         DOMAIN topics' \subseteq DOMAIN topics,
         follows' = {f \in follows : f[2] \in DOMAIN topics'},
         optedOut' = optedOut
  PROVE  BoardInv'
  <1>1. /\ DOMAIN posts' = DOMAIN posts \ gone
        /\ \A p \in DOMAIN posts' : posts'[p] = posts[p]
    BY DEF WithoutPosts, Restrict
  <1>2. /\ IsTable(inbox', Person \X Id, BellRow)
        /\ DOMAIN inbox' = {k \in DOMAIN inbox : k[2] \notin gone}
        /\ \A k \in DOMAIN inbox' : inbox'[k] = inbox[k]
    <2>1. inbox' = Restrict(inbox, {k \in DOMAIN inbox : k[2] \notin gone})
      BY DEF WithoutPosts
    <2>2. IsTable(inbox, Person \X Id, BellRow)
      BY DEF BoardInv, TypeOK
    <2> QED BY <2>1, <2>2, RestrictIsTable DEF Restrict
  <1>3. /\ IsTable(outbox', Id, OwedRow)
        /\ DOMAIN outbox' = {i \in DOMAIN outbox : outbox[i].post \notin gone}
        /\ \A i \in DOMAIN outbox' : outbox'[i] = outbox[i]
    <2>1. outbox' = Restrict(outbox, {i \in DOMAIN outbox : outbox[i].post \notin gone})
      BY DEF WithoutPosts
    <2>2. IsTable(outbox, Id, OwedRow)
      BY DEF BoardInv, TypeOK
    <2> QED BY <2>1, <2>2, RestrictIsTable DEF Restrict
  <1>4. likes' = {l \in likes : l[1] \notin gone}
    BY DEF WithoutPosts
  <1>5. TypeOK'
    BY <1>2, <1>3, <1>4 DEF BoardInv, TypeOK, Core
  <1>6. Rooted'
    BY <1>1, <1>2, <1>3, <1>4 DEF BoardInv, Rooted
  <1>7. NotAboutOneself'
    BY <1>1, <1>2, <1>3, <1>6 DEF BoardInv, Rooted, NotAboutOneself
  <1>8. LikeEntryTrue'
    <2>1. ASSUME NEW k \in DOMAIN inbox', inbox'[k].reason = "like"
          PROVE  /\ \E l \in likes' : l[1] = k[2]
                 /\ Rightful(k[1], posts'[k[2]].author)
      BY <1>1, <1>2, <1>4, <1>6, <2>1 DEF BoardInv, Rooted, LikeEntryTrue
    <2>2. ASSUME NEW l \in likes', posts'[l[1]].author \in Person
          PROVE  LET k == <<posts'[l[1]].author, l[1]>> IN
                 k \in DOMAIN inbox' /\ inbox'[k].reason = "like"
      BY <1>1, <1>2, <1>4, <1>6, <2>2 DEF BoardInv, Rooted, LikeEntryTrue
    <2> QED BY <2>1, <2>2 DEF LikeEntryTrue
  <1> QED BY <1>5, <1>6, <1>7, <1>8 DEF BoardInv

\* topics.rs: delete_post, of a reply.
LEMMA DeleteReplyKeeps ==
  ASSUME BoardInv, NEW who \in Person, NEW s \in Space, NEW p \in DOMAIN posts,
         DeleteReply(who, s, p)
  PROVE  BoardInv'
  <1>1. /\ ~Opens(p) /\ WithoutPosts({p})
        /\ topics' = topics /\ follows' = follows /\ optedOut' = optedOut /\ clock' = clock
    BY DEF DeleteReply
  <1>2. Core'
    <2>1. posts' = Restrict(posts, DOMAIN posts \ {p})
      BY <1>1 DEF WithoutPosts
    <2>2. topics' = Restrict(topics, DOMAIN topics \ {})
      BY <1>1 DEF Restrict, BoardInv, Core, IsTable
    <2> DEFINE dead == {}
               gone == {p}
    <2>3. /\ dead \in SUBSET DOMAIN topics /\ gone \in SUBSET DOMAIN posts
          /\ \A t \in dead : PostsOf(t) \subseteq gone
          /\ \A q \in gone : ~\E r \in gone : r # q
          /\ \A q \in gone : ~Opens(q)
      BY <1>1
    <2>4. /\ posts' = Restrict(posts, DOMAIN posts \ gone)
          /\ topics' = Restrict(topics, DOMAIN topics \ dead)
      BY <2>1, <2>2
    <2> HIDE DEF dead, gone
    <2> QED BY <1>1, <2>3, <2>4, CoreDelete DEF BoardInv
  <1>3. follows' = {f \in follows : f[2] \in DOMAIN topics'}
    BY <1>1 DEF BoardInv, Rooted
  <1> QED BY <1>1, <1>2, <1>3, WithoutPostsKeeps

\* topics.rs: delete_post, of an opening post: the topic goes along.
LEMMA DeleteTopicKeeps ==
  ASSUME BoardInv, NEW who \in Person, NEW s \in Space, NEW p \in DOMAIN posts,
         DeleteTopic(who, s, p)
  PROVE  BoardInv'
  <1> DEFINE t == posts[p].topic
  <1>1. /\ WithoutPosts(PostsOf(t))
        /\ topics' = Restrict(topics, DOMAIN topics \ {t})
        /\ follows' = {f \in follows : f[2] # t}
        /\ optedOut' = optedOut /\ clock' = clock
    BY DEF DeleteTopic
  <1>2. PostsOf(t) \in SUBSET DOMAIN posts /\ \A q \in PostsOf(t) : posts[q].topic = t
    BY DEF PostsOf
  <1>3. t \in DOMAIN topics
    BY DEF BoardInv, Core
  <1> HIDE DEF t
  <1>4. Core'
    <2>1. posts' = Restrict(posts, DOMAIN posts \ PostsOf(t))
      BY <1>1 DEF WithoutPosts
    <2> DEFINE dead == {t}
    <2>2. dead \in SUBSET DOMAIN topics /\ \A u \in dead : PostsOf(u) \subseteq PostsOf(t)
      BY <1>3
    <2>3. \A q \in PostsOf(t) : posts[q].topic \in dead
      BY <1>2
    <2> QED BY <1>1, <1>2, <2>1, <2>2, <2>3, CoreDelete DEF BoardInv
  <1>5. follows' = {f \in follows : f[2] \in DOMAIN topics'}
    BY <1>1 DEF BoardInv, Rooted, Restrict
  <1>6. DOMAIN topics' \subseteq DOMAIN topics
    BY <1>1 DEF Restrict
  <1> QED BY <1>1, <1>2, <1>4, <1>5, <1>6, WithoutPostsKeeps

\* subscriptions.rs: follow and unfollow.
LEMMA SubscribingKeeps ==
  ASSUME BoardInv, NEW who \in Person, NEW s \in Space, NEW t \in DOMAIN topics,
         Follow(who, s, t) \/ Unfollow(who, s, t)
  PROVE  BoardInv'
  <1>1. /\ follows' \subseteq follows \cup {<<who, t>>}
        /\ UNCHANGED <<topics, posts, inbox, likes, outbox, optedOut, clock>>
    BY DEF Follow, Unfollow
  <1>2. Core' /\ NotAboutOneself' /\ LikeEntryTrue'
    BY <1>1 DEF BoardInv, Core, Mirrored, Opens, PostsOf, NotAboutOneself, LikeEntryTrue
  <1>3. TypeOK'
    BY <1>1 DEF BoardInv, TypeOK, Core, IsTable
  <1>4. Rooted'
    BY <1>1 DEF BoardInv, Rooted
  <1> QED BY <1>2, <1>3, <1>4 DEF BoardInv

\* Reading changes no entry but its mark.
LEMMA ReadingKeeps ==
  ASSUME BoardInv, NEW keys, MarkRead(keys),
         UNCHANGED <<topics, posts, follows, likes, outbox, optedOut, clock>>
  PROVE  BoardInv'
  <1>1. /\ DOMAIN inbox' = DOMAIN inbox
        /\ \A k \in DOMAIN inbox : inbox'[k] \in BellRow /\ inbox'[k].reason = inbox[k].reason
        /\ IsTable(inbox', Person \X Id, BellRow)
    BY DEF MarkRead, BoardInv, TypeOK, IsTable, BellRow
  <1>2. Core'
    BY DEF BoardInv, Core, Mirrored, Opens, PostsOf
  <1>3. TypeOK' /\ Rooted'
    BY <1>1 DEF BoardInv, TypeOK, Rooted
  <1>4. NotAboutOneself' /\ LikeEntryTrue'
    BY <1>1 DEF BoardInv, NotAboutOneself, LikeEntryTrue
  <1> QED BY <1>2, <1>3, <1>4 DEF BoardInv

\* likes.rs: toggle_telling, when the like was not there.
LEMMA LikeKeeps ==
  ASSUME BoardInv, NEW who \in Person, NEW s \in Space, NEW p \in DOMAIN posts, Like(who, s, p)
  PROVE  BoardInv'
  <1>1. /\ posts[p].author # who
        /\ likes' = likes \cup {<<p, who>>}
        /\ UNCHANGED <<topics, posts, follows, outbox, optedOut, clock>>
    BY DEF Like, MayLike
  <1>0. PICK owner \in Owners \cup {Nobody} : inbox' = RungBell(s, p, Rings(who, p, owner))
    BY DEF Like
  <1>2. p \in Id /\ posts[p].author \in Person \cup {Publisher}
    BY DEF BoardInv, Core, IsTable, PostRow
  <1>3. \A x \in Rings(who, p, owner) : x \in Person /\ Rightful(x, posts[p].author)
    <2>1. CASE Mirrored(posts[p].topic) /\ Opens(p)
      <3>1. posts[p].author = Publisher
        BY <2>1 DEF BoardInv, Core
      <3>2. \A x \in Rings(who, p, owner) : x \in Owners
        BY <2>1 DEF Rings
      <3> QED BY <3>1, <3>2, OwnersAssumption DEF Rightful
    <2>2. CASE ~(Mirrored(posts[p].topic) /\ Opens(p))
      <3>1. posts[p].author # Publisher
        BY <2>2 DEF BoardInv, Core
      <3>2. posts[p].author \in Person
        BY <1>2, <3>1
      <3>3. Rings(who, p, owner) = {posts[p].author}
        BY <2>2 DEF Rings
      <3> QED BY <3>2, <3>3 DEF Rightful
    <2> QED BY <2>1, <2>2
  <1>4. posts[p].author \in Person => posts[p].author \in Rings(who, p, owner)
    <2> SUFFICES ASSUME posts[p].author \in Person PROVE posts[p].author \in Rings(who, p, owner)
      OBVIOUS
    <2>1. ~(Mirrored(posts[p].topic) /\ Opens(p))
      BY PublisherAssumption DEF BoardInv, Core
    <2> QED BY <2>1 DEF Rings
  <1> DEFINE told == Rings(who, p, owner)
             old == [k \in DOMAIN inbox |->
                       IF k \in told \X {p} /\ inbox[k].reason = "like"
                       THEN [inbox[k] EXCEPT !.unread = TRUE] ELSE inbox[k]]
             new == [k \in told \X {p} |-> [space |-> s, reason |-> "like", unread |-> TRUE]]
  <1>5. inbox' = With(old, new)
    BY <1>0 DEF RungBell
  <1>6. /\ IsTable(old, Person \X Id, BellRow) /\ DOMAIN old = DOMAIN inbox
        /\ \A k \in DOMAIN inbox : old[k].reason = inbox[k].reason
    <2>1. DOMAIN inbox \subseteq Person \X Id /\ \A k \in DOMAIN inbox : inbox[k] \in BellRow
      BY DEF BoardInv, TypeOK, IsTable
    <2>2. \A k \in DOMAIN inbox : old[k] \in BellRow /\ old[k].reason = inbox[k].reason
      BY <2>1 DEF BellRow
    <2> QED BY <2>1, <2>2 DEF IsTable
  <1>7. /\ IsTable(new, Person \X Id, BellRow) /\ DOMAIN new = told \X {p}
        /\ \A k \in DOMAIN new : new[k].reason = "like"
    BY <1>2, <1>3 DEF IsTable, BellRow
  <1> HIDE DEF old, new
  <1>8. IsTable(inbox', Person \X Id, BellRow)
    BY <1>5, <1>6, <1>7, WithIsTable
  <1>9. /\ DOMAIN inbox' = DOMAIN inbox \cup (told \X {p})
        /\ \A k \in DOMAIN inbox : inbox'[k].reason = inbox[k].reason
        /\ \A k \in DOMAIN inbox' \ DOMAIN inbox : inbox'[k].reason = "like"
    BY <1>5, <1>6, <1>7 DEF With
  <1>10. Core'
    BY <1>1 DEF BoardInv, Core, Mirrored, Opens, PostsOf
  <1>11. TypeOK' /\ Rooted'
    BY <1>1, <1>2, <1>8, <1>9 DEF BoardInv, TypeOK, Rooted
  <1>12. NotAboutOneself'
    BY <1>1, <1>9 DEF BoardInv, NotAboutOneself
  <1>13. LikeEntryTrue'
    <2>1. ASSUME NEW k \in DOMAIN inbox', inbox'[k].reason = "like"
          PROVE  /\ \E l \in likes' : l[1] = k[2]
                 /\ Rightful(k[1], posts'[k[2]].author)
      <3>1. CASE k \in DOMAIN inbox
        BY <1>1, <1>9, <2>1, <3>1 DEF BoardInv, LikeEntryTrue
      <3>2. CASE k \in told \X {p}
        <4>1. k[2] = p /\ Rightful(k[1], posts[p].author)
          BY <1>3, <3>2
        <4>2. <<p, who>> \in likes' /\ <<p, who>>[1] = k[2]
          BY <1>1, <4>1
        <4> QED BY <1>1, <4>1, <4>2
      <3> QED BY <1>9, <3>1, <3>2
    <2>2. ASSUME NEW l \in likes', posts'[l[1]].author \in Person
          PROVE  LET k == <<posts'[l[1]].author, l[1]>> IN
                 k \in DOMAIN inbox' /\ inbox'[k].reason = "like"
      <3>1. CASE l \in likes
        BY <1>1, <1>9, <2>2, <3>1 DEF BoardInv, LikeEntryTrue
      <3>2. CASE l = <<p, who>>
        <4> DEFINE k == <<posts[p].author, p>>
        <4>1. k \in DOMAIN inbox'
          BY <1>1, <1>4, <1>9, <2>2, <3>2
        <4>2. k \in DOMAIN inbox => inbox[k].reason = "like"
          BY DEF BoardInv, NotAboutOneself
        <4>3. inbox'[k].reason = "like"
          BY <1>9, <4>1, <4>2
        <4> QED BY <1>1, <3>2, <4>1, <4>3
      <3> QED BY <1>1, <3>1, <3>2
    <2> QED BY <2>1, <2>2 DEF LikeEntryTrue
  <1> QED BY <1>10, <1>11, <1>12, <1>13 DEF BoardInv

\* likes.rs: toggle_telling, when it was.
LEMMA UnlikeKeeps ==
  ASSUME BoardInv, NEW who \in Person, NEW s \in Space, NEW p \in DOMAIN posts, Unlike(who, s, p)
  PROVE  BoardInv'
  <1>1. /\ likes' = likes \ {<<p, who>>}
        /\ inbox' = BellAfterUnlike(p, likes')
        /\ UNCHANGED <<topics, posts, follows, outbox, optedOut, clock>>
    BY DEF Unlike
  <1>2. Core'
    BY <1>1 DEF BoardInv, Core, Mirrored, Opens, PostsOf
  <1>3. CASE \E l \in likes' : l[1] = p
    <2>1. inbox' = inbox
      BY <1>1, <1>3 DEF BellAfterUnlike
    <2>2. TypeOK' /\ Rooted' /\ NotAboutOneself'
      BY <1>1, <2>1 DEF BoardInv, TypeOK, Rooted, NotAboutOneself
    <2>3. \A q : (\E l \in likes : l[1] = q) => \E l \in likes' : l[1] = q
      BY <1>1, <1>3
    <2>4. LikeEntryTrue'
      BY <1>1, <2>1, <2>3 DEF BoardInv, LikeEntryTrue
    <2> QED BY <1>2, <2>2, <2>4 DEF BoardInv
  <1>4. CASE ~\E l \in likes' : l[1] = p
    <2> DEFINE kept == {k \in DOMAIN inbox : ~(k[2] = p /\ inbox[k].reason = "like")}
    <2>1. inbox' = Restrict(inbox, kept)
      BY <1>1, <1>4 DEF BellAfterUnlike
    <2>2. /\ IsTable(inbox', Person \X Id, BellRow)
          /\ DOMAIN inbox' = kept
          /\ \A k \in kept : inbox'[k] = inbox[k]
      BY <2>1, RestrictIsTable DEF Restrict, BoardInv, TypeOK
    <2>3. TypeOK' /\ Rooted' /\ NotAboutOneself'
      BY <1>1, <2>2 DEF BoardInv, TypeOK, Rooted, NotAboutOneself
    <2>4. \A l \in likes : l[1] # p => l \in likes'
      BY <1>1
    <2>5. LikeEntryTrue'
      <3>1. ASSUME NEW k \in DOMAIN inbox', inbox'[k].reason = "like"
            PROVE  /\ \E l \in likes' : l[1] = k[2]
                   /\ Rightful(k[1], posts'[k[2]].author)
        BY <1>1, <2>2, <2>4, <3>1 DEF BoardInv, LikeEntryTrue
      <3>2. ASSUME NEW l \in likes', posts'[l[1]].author \in Person
            PROVE  LET k == <<posts'[l[1]].author, l[1]>> IN
                   k \in DOMAIN inbox' /\ inbox'[k].reason = "like"
        BY <1>1, <1>4, <2>2, <3>2 DEF BoardInv, LikeEntryTrue
      <3> QED BY <3>1, <3>2 DEF LikeEntryTrue
    <2> QED BY <1>2, <2>3, <2>5 DEF BoardInv
  <1> QED BY <1>3, <1>4

\* articles.rs: mirror, for one file.
LEMMA MirrorKeeps ==
  ASSUME BoardInv, NEW key \in SourceKey, NEW s \in Space, MirrorStep(key, s)
  PROVE  BoardInv'
  <1>1. CASE MirrorNew(key, s)
    <2>1. PICK t \in NextId(DOMAIN topics), p \in NextId(DOMAIN posts) :
            /\ topics' = With(topics, Row(t, [space |-> s, source |-> key,
                                              hidden |-> FALSE, born |-> clock]))
            /\ posts' = With(posts, Row(p, [topic |-> t, author |-> Publisher, born |-> clock]))
      BY <1>1 DEF MirrorNew
    <2>2. clock' = clock + 1 /\ UNCHANGED <<follows, inbox, likes, outbox, optedOut>>
      BY <1>1 DEF MirrorNew
    <2>3. Core'
      <3>1. key # Nobody
        BY SourceKeyAssumption
      <3> QED BY <2>1, <2>2, <3>1, CoreNewTopic DEF BoardInv
    <2>4. /\ DOMAIN topics \subseteq DOMAIN topics'
          /\ DOMAIN posts \subseteq DOMAIN posts'
          /\ \A q \in DOMAIN posts : posts'[q] = posts[q]
      BY <2>1 DEF With
    <2>5. TypeOK'
      BY <2>2, <2>3 DEF BoardInv, TypeOK, Core
    <2>6. Rooted' /\ NotAboutOneself' /\ LikeEntryTrue'
      BY <2>2, <2>4 DEF BoardInv, Rooted, NotAboutOneself, LikeEntryTrue
    <2> QED BY <2>3, <2>5, <2>6 DEF BoardInv
  <1>2. CASE MirrorAgain(key, s) \/ HideMissing(key, s)
    <2>1. /\ IsTable(topics', Id, TopicRow) /\ DOMAIN topics' = DOMAIN topics
          /\ \A t \in DOMAIN topics : topics'[t].source = topics[t].source
      <3>1. PICK t \in DOMAIN topics :
              \/ topics' = [topics EXCEPT ![t].space = s, ![t].hidden = FALSE]
              \/ topics' = [topics EXCEPT ![t].hidden = TRUE]
        BY <1>2 DEF MirrorAgain, HideMissing, SourceTopics
      <3>2. /\ DOMAIN topics \subseteq Id
            /\ topics \in [DOMAIN topics -> TopicRow]
        BY DEF BoardInv, Core, IsTable
      <3>3. topics[t] \in TopicRow
        BY <3>1, <3>2
      <3>4. PICK r \in TopicRow : topics' = [topics EXCEPT ![t] = r] /\ r.source = topics[t].source
        <4>1. CASE topics' = [topics EXCEPT ![t].space = s, ![t].hidden = FALSE]
          <5> DEFINE r == [topics[t] EXCEPT !.space = s, !.hidden = FALSE]
          <5>1. r \in TopicRow /\ r.source = topics[t].source
            BY <3>3 DEF TopicRow
          <5>2. topics' = [topics EXCEPT ![t] = r]
            BY <4>1, <3>1, <3>2, <3>3 DEF TopicRow
          <5> QED BY <5>1, <5>2
        <4>2. CASE topics' = [topics EXCEPT ![t].hidden = TRUE]
          <5> DEFINE r == [topics[t] EXCEPT !.hidden = TRUE]
          <5>1. r \in TopicRow /\ r.source = topics[t].source
            BY <3>3 DEF TopicRow
          <5>2. topics' = [topics EXCEPT ![t] = r]
            BY <4>2
          <5> QED BY <5>1, <5>2
        <4> QED BY <3>1, <4>1, <4>2
      <3> QED BY <3>1, <3>2, <3>4 DEF IsTable
    <2>2. UNCHANGED <<posts, follows, inbox, likes, outbox, optedOut, clock>>
      BY <1>2 DEF MirrorAgain, HideMissing
    <2>3. Core'
      <3>1. \A p \in DOMAIN posts : Opens(p)' <=> Opens(p)
        BY <2>2 DEF Opens, PostsOf
      <3>2. \A p \in DOMAIN posts : Mirrored(posts[p].topic)' <=> Mirrored(posts[p].topic)
        <4>1. \A p \in DOMAIN posts : posts[p].topic \in DOMAIN topics
          BY DEF BoardInv, Core
        <4> QED BY <2>1, <2>2, <4>1 DEF Mirrored
      <3> QED BY <2>1, <2>2, <3>1, <3>2 DEF BoardInv, Core
    <2>4. TypeOK' /\ Rooted' /\ NotAboutOneself' /\ LikeEntryTrue'
      BY <2>1, <2>2 DEF BoardInv, TypeOK, Rooted, NotAboutOneself, LikeEntryTrue
    <2> QED BY <2>3, <2>4 DEF BoardInv
  <1> QED BY <1>1, <1>2 DEF MirrorStep

\* The mention mail switch (accounts.rs) touches nothing else, and neither does stuttering.
LEMMA StutterKeeps ==
  ASSUME BoardInv, UNCHANGED <<topics, posts, follows, inbox, likes, outbox, clock>>,
         optedOut' \subseteq Person
  PROVE  BoardInv'
  BY DEF BoardInv, Core, Mirrored, Opens, PostsOf, TypeOK, Rooted, NotAboutOneself, LikeEntryTrue

\* Every transaction keeps the invariant.
LEMMA StepKeeps == BoardInv /\ [BoardNext]_boardVars => BoardInv'
  <1> SUFFICES ASSUME BoardInv, [BoardNext]_boardVars PROVE BoardInv'
    OBVIOUS
  <1>1. ASSUME NEW who \in Person, NEW s \in Space, PersonStep(who, s)
        PROVE  BoardInv'
    <2>1. ASSUME NEW m \in SUBSET (Person \ {who}), CreateTopic(who, s, m) PROVE BoardInv'
      BY <2>1, CreateTopicKeeps
    <2>2. ASSUME NEW t \in DOMAIN topics, NEW m \in SUBSET (Person \ {who}), AddReply(who, s, t, m)
          PROVE  BoardInv'
      BY <2>2, AddReplyKeeps
    <2>3. ASSUME NEW p \in DOMAIN posts, NEW m \in SUBSET (Person \ {who}), UpdatePost(who, s, p, m)
          PROVE  BoardInv'
      BY <2>3, UpdatePostKeeps
    <2>4. ASSUME NEW p \in DOMAIN posts, DeleteReply(who, s, p) PROVE BoardInv'
      BY <2>4, DeleteReplyKeeps
    <2>5. ASSUME NEW p \in DOMAIN posts, DeleteTopic(who, s, p) PROVE BoardInv'
      BY <2>5, DeleteTopicKeeps
    <2>6. ASSUME NEW t \in DOMAIN topics, Follow(who, s, t) \/ Unfollow(who, s, t) PROVE BoardInv'
      BY <2>6, SubscribingKeeps
    <2>7. ASSUME NEW p \in DOMAIN posts, Like(who, s, p) PROVE BoardInv'
      BY <2>7, LikeKeeps
    <2>8. ASSUME NEW p \in DOMAIN posts, Unlike(who, s, p) PROVE BoardInv'
      BY <2>8, UnlikeKeeps
    <2>9. ASSUME NEW t \in DOMAIN topics, MarkTopicRead(who, s, t) PROVE BoardInv'
      BY <2>9, ReadingKeeps DEF MarkTopicRead
    <2> QED BY <1>1, <2>1, <2>2, <2>3, <2>4, <2>5, <2>6, <2>7, <2>8, <2>9 DEF PersonStep
  <1>2. ASSUME NEW who \in Person, NEW spaces \in SUBSET Space, MarkAllRead(who, spaces)
        PROVE  BoardInv'
    BY <1>2, ReadingKeeps DEF MarkAllRead
  <1>3. ASSUME NEW who \in Switchers, NEW on \in BOOLEAN, SetMentionMail(who, on)
        PROVE  BoardInv'
    <2>1. optedOut' \subseteq Person
      BY <1>3, SwitchersAssumption DEF SetMentionMail, BoardInv, TypeOK
    <2> QED BY <1>3, <2>1, StutterKeeps DEF SetMentionMail
  <1>4. ASSUME NEW key \in SourceKey, NEW s \in Space, MirrorStep(key, s) PROVE BoardInv'
    BY <1>4, MirrorKeeps
  <1>5. CASE UNCHANGED boardVars
    <2>1. optedOut' \subseteq Person
      BY <1>5 DEF boardVars, BoardInv, TypeOK
    <2> QED BY <1>5, <2>1, StutterKeeps DEF boardVars
  <1> QED BY <1>1, <1>2, <1>3, <1>4, <1>5 DEF BoardNext

-----------------------------------------------------------------------------
(* The theorems.                                                           *)

\* The invariant holds in every reachable state, however many people, topics
\* and posts there are and whoever owns the articles.
THEOREM BoardIsSound == BoardSpec => []BoardInv
  <1> QED BY InitIsFine, StepKeeps, PTL DEF BoardSpec

\* The tables hold what their columns say; in particular no bell entry is ever
\* written for the name articles are stored under (likes.rs: toggle_telling).
THEOREM TypeCorrect == BoardSpec => []TypeOK
  <1>1. BoardInv => TypeOK
    BY DEF BoardInv
  <1> QED BY <1>1, BoardIsSound, PTL

\* Nobody is ever told about their own post (subscriptions.rs, inbox.rs).
THEOREM NobodyIsToldOfThemselves == BoardSpec => []NotAboutOneself
  <1>1. BoardInv => NotAboutOneself
    BY DEF BoardInv
  <1> QED BY <1>1, BoardIsSound, PTL

\* The like entries agree with the likes (likes.rs: toggle_telling).
THEOREM LikeEntriesAreTrue == BoardSpec => []LikeEntryTrue
  <1>1. BoardInv => LikeEntryTrue
    BY DEF BoardInv
  <1> QED BY <1>1, BoardIsSound, PTL

\* A step that takes no post away, or only posts of one person.
LEMMA WhoseWordsGo ==
  ASSUME BoardInv, BoardNext
  PROVE  \A p, q \in DOMAIN posts \ DOMAIN posts' :
           posts[p].author \in Person /\ posts[q].author = posts[p].author
  <1>1. ASSUME NEW f, NEW g PROVE DOMAIN f \subseteq DOMAIN With(f, g)
    BY DEF With
  <1>2. ASSUME NEW who \in Person, NEW s \in Space, NEW p \in DOMAIN posts, DeleteReply(who, s, p)
        PROVE  \A q \in DOMAIN posts \ DOMAIN posts' : posts[q].author = who
    BY <1>2 DEF DeleteReply, WithoutPosts, Restrict
  <1>3. ASSUME NEW who \in Person, NEW s \in Space, NEW p \in DOMAIN posts, DeleteTopic(who, s, p)
        PROVE  \A q \in DOMAIN posts \ DOMAIN posts' : posts[q].author = who
    BY <1>3 DEF DeleteTopic, AloneIn, WithoutPosts, Restrict
  <1>4. CASE \E who \in Person, s \in Space, p \in DOMAIN posts : DeleteReply(who, s, p) \/ DeleteTopic(who, s, p)
    BY <1>2, <1>3, <1>4
  <1>5. CASE ~\E who \in Person, s \in Space, p \in DOMAIN posts : DeleteReply(who, s, p) \/ DeleteTopic(who, s, p)
    <2>1. DOMAIN posts \subseteq DOMAIN posts'
      <3>1. ASSUME NEW who \in Person, NEW s \in Space, PersonStep(who, s)
            PROVE  DOMAIN posts \subseteq DOMAIN posts'
        BY <1>1, <1>5, <3>1 DEF PersonStep, CreateTopic, AddReply, UpdatePost, Follow, Unfollow,
             Like, Unlike, MarkTopicRead
      <3>2. ASSUME NEW key \in SourceKey, NEW s \in Space, MirrorStep(key, s)
            PROVE  DOMAIN posts \subseteq DOMAIN posts'
        BY <1>1, <3>2 DEF MirrorStep, MirrorNew, MirrorAgain, HideMissing
      <3> QED BY <3>1, <3>2 DEF BoardNext, MarkAllRead, SetMentionMail
    <2> QED BY <2>1
  <1> QED BY <1>4, <1>5

\* Nobody's words go with somebody else's step (topics.rs: delete_post).
THEOREM WordsStay == BoardSpec => OthersWordsStay
  <1>1. BoardInv /\ [BoardNext]_boardVars =>
          [\A p, q \in DOMAIN posts \ DOMAIN posts' :
             posts[p].author \in Person /\ posts[q].author = posts[p].author]_boardVars
    BY WhoseWordsGo
  <1> QED BY <1>1, BoardIsSound, PTL DEF BoardSpec, OthersWordsStay

\* In a step that writes a post, whoever follows its topic has an unread entry
\* about it afterwards, but for the writer.
LEMMA WhoHears ==
  ASSUME BoardInv, BoardNext, NEW p \in DOMAIN posts' \ DOMAIN posts,
         NEW x \in Followers(posts'[p].topic) \ {posts'[p].author}
  PROVE  <<x, p>> \in DOMAIN inbox' /\ inbox'[<<x, p>>].unread
  <1>1. \A t : t \notin DOMAIN topics => Followers(t) = {}
    BY DEF BoardInv, Rooted, Followers
  <1>2. ASSUME NEW q, NEW r, posts' = With(posts, Row(q, r))
        PROVE  p = q /\ posts'[p] = r
    BY <1>2 DEF With, Row
  <1>3. ASSUME NEW who \in Person, NEW s \in Space, NEW m \in SUBSET (Person \ {who}), CreateTopic(who, s, m)
        PROVE  FALSE
    <2>1. PICK t \in NextId(DOMAIN topics), q \in NextId(DOMAIN posts) :
            posts' = With(posts, Row(q, [topic |-> t, author |-> who, born |-> clock]))
      BY <1>3 DEF CreateTopic
    <2>2. posts'[p].topic = t
      BY <1>2, <2>1
    <2>3. t \notin DOMAIN topics
      BY NextIdIsFresh DEF BoardInv, Core, IsTable
    <2> QED BY <1>1, <2>2, <2>3
  <1>4. ASSUME NEW who \in Person, NEW s \in Space, NEW t \in DOMAIN topics,
               NEW m \in SUBSET (Person \ {who}), AddReply(who, s, t, m)
        PROVE  <<x, p>> \in DOMAIN inbox' /\ inbox'[<<x, p>>].unread
    <2>1. PICK q \in NextId(DOMAIN posts) :
            /\ posts' = With(posts, Row(q, [topic |-> t, author |-> who, born |-> clock]))
            /\ inbox' = ReplyBell(Noted(inbox, s, q, m, "mention"), s, t, q, who)
      BY <1>4 DEF AddReply
    <2>2. p = q /\ posts'[p].topic = t /\ posts'[p].author = who
      BY <1>2, <2>1
    <2>3. p \in Id /\ p \notin DOMAIN posts
      BY <2>2, NextIdIsFresh DEF BoardInv, Core, IsTable
    <2> DEFINE bell == Noted(inbox, s, p, m, "mention")
               others == Followers(t) \ {who}
    <2>4. IsTable(inbox, Person \X Id, BellRow) /\ m \subseteq Person /\ others \subseteq Person
      BY DEF BoardInv, TypeOK, Followers
    <2>5. Adds(bell, inbox, m, p, "mention")
      BY <2>3, <2>4, NotedAdds
    <2>6. inbox' = Noted(bell, s, p, others, "reply")
      BY <2>1, <2>2 DEF ReplyBell
    <2>7. IsTable(bell, Person \X Id, BellRow)
      BY <2>5 DEF Adds
    <2> HIDE DEF bell, others
    <2>8. Adds(inbox', bell, others, p, "reply")
      BY <2>3, <2>4, <2>6, <2>7, NotedAdds
    <2>9. <<x, p>> \notin DOMAIN inbox
      BY <2>3 DEF BoardInv, Rooted
    <2>10. x \in others
      BY <2>2 DEF others
    <2> QED BY <2>5, <2>8, <2>9, <2>10 DEF Adds
  <1>5. ASSUME NEW key \in SourceKey, NEW s \in Space, MirrorNew(key, s)
        PROVE  FALSE
    <2>1. PICK t \in NextId(DOMAIN topics), q \in NextId(DOMAIN posts) :
            posts' = With(posts, Row(q, [topic |-> t, author |-> Publisher, born |-> clock]))
      BY <1>5 DEF MirrorNew
    <2>2. posts'[p].topic = t
      BY <1>2, <2>1
    <2>3. t \notin DOMAIN topics
      BY NextIdIsFresh DEF BoardInv, Core, IsTable
    <2> QED BY <1>1, <2>2, <2>3
  <1>6. ASSUME NEW f, NEW S PROVE DOMAIN Restrict(f, S) = S
    BY DEF Restrict
  <1>7. ASSUME DOMAIN posts' \subseteq DOMAIN posts PROVE FALSE
    BY <1>7
  <1>8. ASSUME NEW who \in Person, NEW s \in Space, PersonStep(who, s)
        PROVE  <<x, p>> \in DOMAIN inbox' /\ inbox'[<<x, p>>].unread
    <2>1. CASE \E m \in SUBSET (Person \ {who}) : CreateTopic(who, s, m)
      BY <1>3, <2>1
    <2>2. CASE \E t \in DOMAIN topics, m \in SUBSET (Person \ {who}) : AddReply(who, s, t, m)
      BY <1>4, <2>2
    <2>3. ASSUME NEW q, DeleteReply(who, s, q) \/ DeleteTopic(who, s, q) PROVE FALSE
      <3>1. PICK gone : posts' = Restrict(posts, DOMAIN posts \ gone)
        BY <2>3 DEF DeleteReply, DeleteTopic, WithoutPosts
      <3> QED BY <1>6, <1>7, <3>1
    <2>4. CASE \/ \E q \in DOMAIN posts, m \in SUBSET (Person \ {who}) : UpdatePost(who, s, q, m)
               \/ \E t \in DOMAIN topics : Follow(who, s, t) \/ Unfollow(who, s, t)
               \/ \E q \in DOMAIN posts : Like(who, s, q) \/ Unlike(who, s, q)
               \/ \E t \in DOMAIN topics : MarkTopicRead(who, s, t)
      BY <1>7, <2>4 DEF UpdatePost, Follow, Unfollow, Like, Unlike, MarkTopicRead
    <2> QED BY <1>8, <2>1, <2>2, <2>3, <2>4 DEF PersonStep
  <1> QED BY <1>5, <1>7, <1>8 DEF BoardNext, MarkAllRead, SetMentionMail, MirrorStep, MirrorAgain,
            HideMissing

\* A reply rings the bell of everybody who follows its topic, unread, although
\* its number may have been another post's before (inbox.rs: note_replies_in).
THEOREM FollowersHear == BoardSpec => EveryFollowerHears
  <1>1. BoardInv /\ [BoardNext]_boardVars =>
          [\A p \in DOMAIN posts' \ DOMAIN posts :
             \A x \in Followers(posts'[p].topic) \ {posts'[p].author} :
               <<x, p>> \in DOMAIN inbox' /\ inbox'[<<x, p>>].unread]_boardVars
    BY WhoHears
  <1> QED BY <1>1, BoardIsSound, PTL DEF BoardSpec, EveryFollowerHears

-----------------------------------------------------------------------------
(* What may become of an entry in somebody's bell.                         *)

\* The five fates of an entry in one step: untouched, read, rung again by a new
\* like, gone with its post, or gone with the last like.
Fate(k) ==
  \/ k \in DOMAIN inbox' /\ inbox'[k] = inbox[k]
  \/ k \in DOMAIN inbox' /\ inbox'[k].reason = inbox[k].reason /\ inbox'[k].unread = FALSE
  \/ /\ k \in DOMAIN inbox' /\ inbox'[k].reason = inbox[k].reason
     /\ inbox[k].reason = "like" /\ \E l \in likes' \ likes : l[1] = k[2]
  \/ k \notin DOMAIN inbox' /\ k[2] \notin DOMAIN posts'
  \/ k \notin DOMAIN inbox' /\ inbox[k].reason = "like" /\ \A l \in likes' : l[1] # k[2]

\* Insertions leave the rows that were there.
LEMMA WithKeeps ==
  ASSUME NEW f, NEW g, NEW k \in DOMAIN f
  PROVE  k \in DOMAIN With(f, g) /\ With(f, g)[k] = f[k]
  BY DEF With

\* topics.rs: what is written adds entries and changes none.
LEMMA FateWhenWritten ==
  ASSUME NEW who \in Person, NEW s \in Space,
         \/ \E m \in SUBSET (Person \ {who}) : CreateTopic(who, s, m)
         \/ \E t \in DOMAIN topics, m \in SUBSET (Person \ {who}) : AddReply(who, s, t, m)
         \/ \E p \in DOMAIN posts, m \in SUBSET (Person \ {who}) : UpdatePost(who, s, p, m)
  PROVE  \A k \in DOMAIN inbox : Fate(k)
  <1>1. ASSUME NEW m, CreateTopic(who, s, m) PROVE \A k \in DOMAIN inbox : Fate(k)
    <2>1. PICK p : inbox' = Noted(inbox, s, p, m, "mention")
      BY <1>1 DEF CreateTopic
    <2> QED BY <2>1, WithKeeps DEF Noted, Fate
  <1>2. ASSUME NEW t, NEW m, AddReply(who, s, t, m) PROVE \A k \in DOMAIN inbox : Fate(k)
    <2>1. PICK p : inbox' = ReplyBell(Noted(inbox, s, p, m, "mention"), s, t, p, who)
      BY <1>2 DEF AddReply
    <2> DEFINE bell == Noted(inbox, s, p, m, "mention")
    <2>2. \A k \in DOMAIN inbox : k \in DOMAIN bell /\ bell[k] = inbox[k]
      BY WithKeeps DEF Noted
    <2> HIDE DEF bell
    <2>3. \A k \in DOMAIN bell : k \in DOMAIN inbox' /\ inbox'[k] = bell[k]
      BY <2>1, WithKeeps DEF ReplyBell, Noted, bell
    <2> QED BY <2>2, <2>3 DEF Fate
  <1>3. ASSUME NEW p, NEW m, UpdatePost(who, s, p, m) PROVE \A k \in DOMAIN inbox : Fate(k)
    BY <1>3, WithKeeps DEF UpdatePost, Noted, Fate
  <1> QED BY <1>1, <1>2, <1>3

\* topics.rs: delete_post takes the entries of the posts it takes.
LEMMA FateWhenDeleted ==
  ASSUME NEW gone, WithoutPosts(gone)
  PROVE  \A k \in DOMAIN inbox : Fate(k)
  BY DEF WithoutPosts, Restrict, Fate

\* inbox.rs: reading changes no entry but its mark.
LEMMA FateWhenRead ==
  ASSUME BoardInv, NEW keys, MarkRead(keys)
  PROVE  \A k \in DOMAIN inbox : Fate(k)
  <1>1. \A k \in DOMAIN inbox : inbox[k] \in BellRow
    BY DEF BoardInv, TypeOK, IsTable
  <1> QED BY <1>1 DEF MarkRead, BellRow, Fate

\* likes.rs: toggle_telling touches like entries of the post only.
LEMMA FateWhenLiked ==
  ASSUME BoardInv, NEW who \in Person, NEW s \in Space, NEW p \in DOMAIN posts,
         Like(who, s, p) \/ Unlike(who, s, p)
  PROVE  \A k \in DOMAIN inbox : Fate(k)
  <1>1. CASE Like(who, s, p)
    <2>0. PICK owner \in Owners \cup {Nobody} : inbox' = RungBell(s, p, Rings(who, p, owner))
      BY <1>1 DEF Like
    <2>1. <<p, who>> \in likes' \ likes
      BY <1>1 DEF Like
    <2>2. \A k \in DOMAIN inbox : inbox[k] \in BellRow
      BY DEF BoardInv, TypeOK, IsTable
    <2>3. ASSUME NEW k \in DOMAIN inbox PROVE Fate(k)
      <3>1. CASE k \in Rings(who, p, owner) \X {p} /\ inbox[k].reason = "like"
        <4>1. k \in DOMAIN inbox' /\ inbox'[k] = [inbox[k] EXCEPT !.unread = TRUE]
          BY <2>0, <3>1 DEF RungBell, With
        <4>2. inbox'[k].reason = inbox[k].reason
          BY <2>2, <4>1 DEF BellRow
        <4>3. <<p, who>>[1] = k[2]
          BY <3>1
        <4>4. \E l \in likes' \ likes : l[1] = k[2]
          BY <2>1, <4>3
        <4> QED BY <3>1, <4>1, <4>2, <4>4 DEF Fate
      <3>2. CASE ~(k \in Rings(who, p, owner) \X {p} /\ inbox[k].reason = "like")
        BY <2>0, <3>2 DEF RungBell, With, Fate
      <3> QED BY <3>1, <3>2
    <2> QED BY <2>3
  <1>2. CASE Unlike(who, s, p)
    <2>1. inbox' = BellAfterUnlike(p, likes')
      BY <1>2 DEF Unlike
    <2> QED BY <2>1 DEF BellAfterUnlike, Restrict, Fate
  <1> QED BY <1>1, <1>2

\* Every transaction.
LEMMA StepFate ==
  ASSUME BoardInv, BoardNext
  PROVE  \A k \in DOMAIN inbox : Fate(k)
  <1>0. ASSUME inbox' = inbox PROVE \A k \in DOMAIN inbox : Fate(k)
    BY <1>0 DEF Fate
  <1>1. ASSUME NEW who \in Person, NEW s \in Space, PersonStep(who, s)
        PROVE  \A k \in DOMAIN inbox : Fate(k)
    <2>1. CASE \/ \E m \in SUBSET (Person \ {who}) : CreateTopic(who, s, m)
               \/ \E t \in DOMAIN topics, m \in SUBSET (Person \ {who}) : AddReply(who, s, t, m)
               \/ \E p \in DOMAIN posts, m \in SUBSET (Person \ {who}) : UpdatePost(who, s, p, m)
      BY <2>1, FateWhenWritten
    <2>2. CASE \E p \in DOMAIN posts : DeleteReply(who, s, p) \/ DeleteTopic(who, s, p)
      BY <2>2, FateWhenDeleted DEF DeleteReply, DeleteTopic
    <2>3. CASE \E t \in DOMAIN topics : Follow(who, s, t) \/ Unfollow(who, s, t)
      BY <1>0, <2>3 DEF Follow, Unfollow
    <2>4. CASE \E p \in DOMAIN posts : Like(who, s, p) \/ Unlike(who, s, p)
      BY <2>4, FateWhenLiked
    <2>5. CASE \E t \in DOMAIN topics : MarkTopicRead(who, s, t)
      BY <2>5, FateWhenRead DEF MarkTopicRead
    <2> QED BY <1>1, <2>1, <2>2, <2>3, <2>4, <2>5 DEF PersonStep
  <1>2. ASSUME NEW who, NEW spaces, MarkAllRead(who, spaces)
        PROVE  \A k \in DOMAIN inbox : Fate(k)
    BY <1>2, FateWhenRead DEF MarkAllRead
  <1>3. ASSUME NEW who, NEW on, SetMentionMail(who, on)
        PROVE  \A k \in DOMAIN inbox : Fate(k)
    BY <1>0, <1>3 DEF SetMentionMail
  <1>4. ASSUME NEW key, NEW s, MirrorStep(key, s)
        PROVE  \A k \in DOMAIN inbox : Fate(k)
    BY <1>0, <1>4 DEF MirrorStep, MirrorNew, MirrorAgain, HideMissing
  <1> QED BY <1>1, <1>2, <1>3, <1>4 DEF BoardNext

\* What was read is news again only through a new like of that very post, however
\* often the post is edited (inbox.rs: note_mentions_in; likes.rs: toggle_telling).
THEOREM ReadIsRead == BoardSpec => ReadStaysRead
  <1>1. BoardInv /\ [BoardNext]_boardVars =>
          [\A k \in DOMAIN inbox \cap DOMAIN inbox' :
             ~inbox[k].unread /\ inbox'[k].unread =>
               inbox[k].reason = "like" /\ \E l \in likes' \ likes : l[1] = k[2]]_boardVars
    BY StepFate DEF Fate
  <1> QED BY <1>1, BoardIsSound, PTL DEF BoardSpec, ReadStaysRead

\* An entry keeps its reason, and goes only with its post or the last like
\* (inbox.rs, likes.rs).
THEOREM EntriesStay == BoardSpec => EntriesKeep
  <1>1. BoardInv /\ [BoardNext]_boardVars =>
          [\A k \in DOMAIN inbox :
             \/ k \in DOMAIN inbox' /\ inbox'[k].reason = inbox[k].reason
             \/ k[2] \notin DOMAIN posts'
             \/ inbox[k].reason = "like" /\ \A l \in likes' : l[1] # k[2]]_boardVars
    BY StepFate DEF Fate
  <1> QED BY <1>1, BoardIsSound, PTL DEF BoardSpec, EntriesKeep

-----------------------------------------------------------------------------
(* The number on the bell.                                                 *)

\* There are never more than finitely many posts.
PostsAreFew == IsFiniteSet(DOMAIN posts)

\* A transaction inserts one post at most.
LEMMA OnePostAtMost ==
  ASSUME BoardNext
  PROVE  \E p : DOMAIN posts' \subseteq DOMAIN posts \cup {p}
  <1>1. ASSUME NEW p, NEW r, posts' = With(posts, Row(p, r)) PROVE DOMAIN posts' \subseteq DOMAIN posts \cup {p}
    BY <1>1 DEF With, Row
  <1>2. ASSUME NEW gone, WithoutPosts(gone) PROVE DOMAIN posts' \subseteq DOMAIN posts
    BY <1>2 DEF WithoutPosts, Restrict
  <1>3. ASSUME posts' = posts PROVE DOMAIN posts' \subseteq DOMAIN posts
    BY <1>3
  <1>4. ASSUME NEW who \in Person, NEW s \in Space, PersonStep(who, s)
        PROVE  \E p : DOMAIN posts' \subseteq DOMAIN posts \cup {p}
    <2>1. CASE \E m \in SUBSET (Person \ {who}) : CreateTopic(who, s, m)
      <3>1. \E p, r : posts' = With(posts, Row(p, r))
        BY <2>1 DEF CreateTopic
      <3> QED BY <1>1, <3>1
    <2>2. CASE \E t \in DOMAIN topics, m \in SUBSET (Person \ {who}) : AddReply(who, s, t, m)
      <3>1. \E p, r : posts' = With(posts, Row(p, r))
        BY <2>2 DEF AddReply
      <3> QED BY <1>1, <3>1
    <2>3. CASE \E p \in DOMAIN posts : DeleteReply(who, s, p) \/ DeleteTopic(who, s, p)
      BY <1>2, <2>3 DEF DeleteReply, DeleteTopic
    <2>4. CASE \/ \E p \in DOMAIN posts, m \in SUBSET (Person \ {who}) : UpdatePost(who, s, p, m)
               \/ \E t \in DOMAIN topics : Follow(who, s, t) \/ Unfollow(who, s, t) \/ MarkTopicRead(who, s, t)
               \/ \E p \in DOMAIN posts : Like(who, s, p) \/ Unlike(who, s, p)
      <3>1. posts' = posts
        BY <2>4 DEF UpdatePost, Follow, Unfollow, MarkTopicRead, Like, Unlike
      <3> QED BY <1>3, <3>1
    <2> QED BY <1>4, <2>1, <2>2, <2>3, <2>4 DEF PersonStep
  <1>5. ASSUME NEW key \in SourceKey, NEW s \in Space, MirrorStep(key, s)
        PROVE  \E p : DOMAIN posts' \subseteq DOMAIN posts \cup {p}
    <2>1. CASE MirrorNew(key, s)
      <3>1. \E p, r : posts' = With(posts, Row(p, r))
        BY <2>1 DEF MirrorNew
      <3> QED BY <1>1, <3>1
    <2>2. CASE MirrorAgain(key, s) \/ HideMissing(key, s)
      BY <1>3, <2>2 DEF MirrorAgain, HideMissing
    <2> QED BY <1>5, <2>1, <2>2 DEF MirrorStep
  <1>6. ASSUME NEW who, NEW spaces, MarkAllRead(who, spaces) PROVE posts' = posts
    BY <1>6 DEF MarkAllRead
  <1>7. ASSUME NEW who, NEW on, SetMentionMail(who, on) PROVE posts' = posts
    BY <1>7 DEF SetMentionMail
  <1> QED BY <1>3, <1>4, <1>5, <1>6, <1>7 DEF BoardNext

LEMMA PostsStayFew == PostsAreFew /\ [BoardNext]_boardVars => PostsAreFew'
  <1> SUFFICES ASSUME PostsAreFew, [BoardNext]_boardVars PROVE PostsAreFew'
    OBVIOUS
  <1>1. CASE BoardNext
    <2>1. PICK p : DOMAIN posts' \subseteq DOMAIN posts \cup {p}
      BY <1>1, OnePostAtMost
    <2>2. IsFiniteSet(DOMAIN posts \cup {p})
      BY FS_AddElement DEF PostsAreFew
    <2> QED BY <2>1, <2>2, FS_Subset DEF PostsAreFew
  <1>2. CASE UNCHANGED boardVars
    BY <1>2 DEF boardVars, PostsAreFew
  <1> QED BY <1>1, <1>2

\* A set whose members are named one to one has as many names.
LEMMA NamesAreAsMany ==
  ASSUME NEW S, IsFiniteSet(S), NEW T, NEW name \in Bijection(S, T)
  PROVE  IsFiniteSet(T) /\ Cardinality(T) = Cardinality(S)
  <1>1. ExistsBijection(S, T)
    BY DEF ExistsBijection
  <1> QED BY <1>1, FS_Bijection

\* The entries of one person are finitely many, one per post.
LEMMA EntriesAreFew ==
  ASSUME BoardInv, PostsAreFew, NEW x, NEW keys,
         \A k \in keys : k \in DOMAIN inbox /\ k[1] = x
  PROVE  /\ IsFiniteSet(keys)
         /\ \A j, k \in keys : j[2] = k[2] => j = k
  <1>1. \A k \in keys : k \in Person \X Id /\ k[2] \in DOMAIN posts
    BY DEF BoardInv, TypeOK, IsTable, Rooted
  <1>2. \A k \in keys : k = <<x, k[2]>>
    BY <1>1
  <1> DEFINE post == [k \in keys |-> k[2]]
  <1>3. post \in Injection(keys, DOMAIN posts)
    BY <1>1, <1>2 DEF Injection, IsInjective
  <1>4. IsFiniteSet(keys)
    BY <1>3, FS_Injection DEF PostsAreFew
  <1> QED BY <1>2, <1>4

\* The badge counts the lines, whoever reads and whatever spaces they may read.
LEMMA BadgeCounts ==
  ASSUME BoardInv, PostsAreFew, NEW x \in Person, NEW spaces \in SUBSET Space
  PROVE  UnreadCount(x, spaces) = Cardinality(UnreadLines(x, spaces))
  <1> DEFINE replies  == Unread(Listed(x, spaces, "reply"))
             mentions == Unread(Listed(x, spaces, "mention"))
             liked    == Unread(Listed(x, spaces, "like"))
             topicsOf == {posts[k[2]].topic : k \in replies}
             lines1   == {<<"replies", posts[k[2]].topic>> : k \in replies}
             lines2   == {<<"mention", k[2]>> : k \in mentions}
             lines3   == {<<"likes", k[2]>> : k \in liked}
  <1>1. /\ \A k \in replies : k \in DOMAIN inbox /\ k[1] = x
        /\ \A k \in mentions : k \in DOMAIN inbox /\ k[1] = x
        /\ \A k \in liked : k \in DOMAIN inbox /\ k[1] = x /\ inbox[k].reason = "like"
    BY DEF Unread, Listed
  <1>2. {k \in liked : \E l \in likes : l[1] = k[2]} = liked
    BY <1>1 DEF BoardInv, LikeEntryTrue
  <1>3. UnreadLines(x, spaces) = (lines1 \cup lines2) \cup lines3
    <2>1. {k \in Unread(Listed(x, spaces, "like")) : \E l \in likes : l[1] = k[2]} = liked
      BY <1>2
    <2> QED BY <2>1 DEF UnreadLines
  <1>4. UnreadCount(x, spaces) = Cardinality(topicsOf) + Cardinality(mentions) + Cardinality(liked)
    BY DEF UnreadCount
  <1> HIDE DEF replies, mentions, liked
  <1>5. IsFiniteSet(topicsOf) /\ IsFiniteSet(lines1) /\ Cardinality(lines1) = Cardinality(topicsOf)
    <2>1. IsFiniteSet(replies)
      BY <1>1, EntriesAreFew
    <2> DEFINE topicOf == [k \in replies |-> posts[k[2]].topic]
               line == [t \in topicsOf |-> <<"replies", t>>]
    <2>2. topicOf \in Surjection(replies, topicsOf)
      BY DEF Surjection
    <2>3. IsFiniteSet(topicsOf)
      BY <2>1, <2>2, FS_Surjection
    <2>4. line \in Bijection(topicsOf, lines1)
      BY DEF Bijection, Injection, IsInjective, Surjection
    <2> HIDE DEF topicsOf, lines1, line
    <2> QED BY <2>3, <2>4, NamesAreAsMany
  <1>6. IsFiniteSet(lines2) /\ Cardinality(lines2) = Cardinality(mentions)
    <2>1. IsFiniteSet(mentions) /\ \A j, k \in mentions : j[2] = k[2] => j = k
      BY <1>1, EntriesAreFew
    <2> DEFINE line == [k \in mentions |-> <<"mention", k[2]>>]
    <2>2. line \in Bijection(mentions, lines2)
      BY <2>1 DEF Bijection, Injection, IsInjective, Surjection
    <2> HIDE DEF lines2, line
    <2> QED BY <2>1, <2>2, NamesAreAsMany
  <1>7. IsFiniteSet(lines3) /\ Cardinality(lines3) = Cardinality(liked)
    <2>1. IsFiniteSet(liked) /\ \A j, k \in liked : j[2] = k[2] => j = k
      BY <1>1, EntriesAreFew
    <2> DEFINE line == [k \in liked |-> <<"likes", k[2]>>]
    <2>2. line \in Bijection(liked, lines3)
      BY <2>1 DEF Bijection, Injection, IsInjective, Surjection
    <2> HIDE DEF lines3, line
    <2> QED BY <2>1, <2>2, NamesAreAsMany
  <1>8. lines1 \cap lines2 = {} /\ (lines1 \cup lines2) \cap lines3 = {}
    OBVIOUS
  <1> HIDE DEF topicsOf, lines1, lines2, lines3
  <1>9. /\ IsFiniteSet(lines1 \cup lines2)
        /\ Cardinality(lines1 \cup lines2) = Cardinality(lines1) + Cardinality(lines2) - Cardinality({})
    BY <1>5, <1>6, <1>8, FS_Union
  <1>10. Cardinality((lines1 \cup lines2) \cup lines3)
           = Cardinality(lines1 \cup lines2) + Cardinality(lines3) - Cardinality({})
    BY <1>7, <1>8, <1>9, FS_Union
  <1>11. /\ Cardinality(lines1) \in Nat /\ Cardinality(lines2) \in Nat /\ Cardinality(lines3) \in Nat
         /\ Cardinality({}) = 0
    BY <1>5, <1>6, <1>7, FS_CardinalityType, FS_EmptySet
  <1> QED BY <1>3, <1>4, <1>5, <1>6, <1>7, <1>9, <1>10, <1>11

\* The number on the bell is the number of unread lines behind it, for any number
\* of entries and whatever spaces are readable (inbox.rs: unread_count, entries).
THEOREM BadgeTellsTheList == BoardSpec => []BadgeIsList
  <1>1. BoardInit => PostsAreFew
    BY FS_EmptySet DEF BoardInit, PostsAreFew
  <1>2. BoardInv /\ PostsAreFew => BadgeIsList
    BY BadgeCounts DEF BadgeIsList
  <1> QED BY <1>1, <1>2, PostsStayFew, BoardIsSound, PTL DEF BoardSpec

-----------------------------------------------------------------------------
(* What is owed: the bell and the mails agree, and nothing is owed twice.  *)

EntryOf(i) == <<outbox[i].subject, outbox[i].post>>

\* Every mail owed has its entry, with the reason it is owed for.
MailTold ==
  \A i \in DOMAIN outbox : outbox[i].kanal = "mail" =>
    EntryOf(i) \in DOMAIN inbox /\ inbox[EntryOf(i)].reason = outbox[i].reason

\* Every reply entry has its mail.
EntryMailed ==
  \A k \in DOMAIN inbox : inbox[k].reason = "reply" =>
    \E i \in DOMAIN outbox : IsMail(i, k[1], k[2]) /\ outbox[i].reason = "reply"

\* A webhook row is kept under the name of the post's writer.
HookIsWriters ==
  \A i \in DOMAIN outbox : outbox[i].kanal = "webhook" =>
    outbox[i].subject = posts[outbox[i].post].author

OwingInv == MailTold /\ EntryMailed /\ HookIsWriters /\ OwedOnce

-----------------------------------------------------------------------------
(* The three ways a step can touch what is owed.                           *)

\* It owes nothing, and leaves every reply and mention entry and its reason alone.
LEMMA QuietKeeps ==
  ASSUME BoardInv, OwingInv, outbox' = outbox,
         DOMAIN posts \subseteq DOMAIN posts',
         \A p \in DOMAIN posts : posts'[p] = posts[p],
         \A p \in DOMAIN posts' \ DOMAIN posts : posts'[p].author \notin Person,
         \A k \in DOMAIN inbox : inbox[k].reason # "like" =>
           k \in DOMAIN inbox' /\ inbox'[k].reason = inbox[k].reason,
         \A k \in DOMAIN inbox' : inbox'[k].reason = "reply" =>
           k \in DOMAIN inbox /\ inbox[k].reason = "reply"
  PROVE  OwingInv'
  <1>1. \A i \in DOMAIN outbox : outbox[i].reason # "like" /\ outbox[i].post \in DOMAIN posts
    BY DEF BoardInv, TypeOK, Rooted, IsTable, OwedRow
  <1>2. MailTold'
    BY <1>1 DEF OwingInv, MailTold, EntryOf
  <1>3. EntryMailed'
    BY DEF OwingInv, EntryMailed, IsMail
  <1>4. HookIsWriters'
    BY <1>1 DEF OwingInv, HookIsWriters
  <1>5. OwedOnce'
    BY DEF OwingInv, OwedOnce
  <1> QED BY <1>2, <1>3, <1>4, <1>5 DEF OwingInv

\* It deletes posts, and the cascade takes their entries and rows along.
LEMMA CascadeKeeps ==
  ASSUME BoardInv, OwingInv, NEW gone, WithoutPosts(gone)
  PROVE  OwingInv'
  <1>1. /\ DOMAIN posts' = DOMAIN posts \ gone
        /\ \A p \in DOMAIN posts' : posts'[p] = posts[p]
        /\ DOMAIN inbox' = {k \in DOMAIN inbox : k[2] \notin gone}
        /\ \A k \in DOMAIN inbox' : inbox'[k] = inbox[k]
        /\ DOMAIN outbox' = {i \in DOMAIN outbox : outbox[i].post \notin gone}
        /\ \A i \in DOMAIN outbox' : outbox'[i] = outbox[i]
    BY DEF WithoutPosts, Restrict
  <1>2. MailTold'
    BY <1>1 DEF OwingInv, MailTold, EntryOf
  <1>3. EntryMailed'
    BY <1>1 DEF OwingInv, EntryMailed, IsMail
  <1>4. HookIsWriters'
    BY <1>1 DEF OwingInv, HookIsWriters, BoardInv, Rooted
  <1>5. OwedOnce'
    <2>1. ASSUME NEW i \in DOMAIN outbox', NEW j \in DOMAIN outbox',
                 outbox'[i].subject = outbox'[j].subject,
                 outbox'[i].post = outbox'[j].post,
                 outbox'[i].kanal = outbox'[j].kanal
          PROVE  i = j
      BY <1>1, <2>1 DEF OwingInv, OwedOnce
    <2>2. ASSUME NEW p \in DOMAIN posts', posts'[p].author \in Person
          PROVE  \E i \in DOMAIN outbox' : outbox'[i].post = p /\ outbox'[i].kanal = "webhook"
      BY <1>1, <2>2 DEF OwingInv, OwedOnce
    <2> QED BY <2>1, <2>2 DEF OwedOnce
  <1> QED BY <1>2, <1>3, <1>4, <1>5 DEF OwingInv

\* What a step that writes or edits post p of `who' may queue: mails for people
\* the step itself gives an entry with the same reason, one each, a mail for each
\* new reply entry, and a webhook exactly if the post is new.
Settles(rows, p, who) ==
  /\ \A r \in rows : r \in OwedRow /\ r.post = p
  /\ \A r \in rows : r.kanal = "mail" =>
       /\ <<r.subject, p>> \in DOMAIN inbox' \ DOMAIN inbox
       /\ inbox'[<<r.subject, p>>].reason = r.reason
  /\ \A k \in DOMAIN inbox' \ DOMAIN inbox : inbox'[k].reason = "reply" =>
       \E r \in rows : r.kanal = "mail" /\ r.subject = k[1] /\ r.reason = "reply"
  /\ \A r \in rows : r.kanal = "webhook" => r.subject = who /\ p \notin DOMAIN posts
  /\ p \notin DOMAIN posts => \E r \in rows : r.kanal = "webhook"
  /\ \A q, r \in rows : q.subject = r.subject /\ q.kanal = r.kanal => q = r

\* It writes or edits post p.
LEMMA OwingKeeps ==
  ASSUME BoardInv, OwingInv, NEW who \in Person, NEW p, NEW rows,
         DOMAIN posts' = DOMAIN posts \cup {p},
         \A q \in DOMAIN posts : posts'[q] = posts[q],
         posts'[p].author = who,
         DOMAIN inbox \subseteq DOMAIN inbox',
         \A k \in DOMAIN inbox : inbox'[k] = inbox[k],
         \A k \in DOMAIN inbox' \ DOMAIN inbox : k[2] = p,
         Queue(rows), Settles(rows, p, who)
  PROVE  OwingInv'
  <1>1. rows \in SUBSET OwedRow
    BY DEF Settles
  <1>2. /\ DOMAIN outbox \subseteq DOMAIN outbox'
        /\ \A i \in DOMAIN outbox : outbox'[i] = outbox[i]
        /\ \A i \in DOMAIN outbox' \ DOMAIN outbox : outbox'[i] \in rows
        /\ \A i, j \in DOMAIN outbox' \ DOMAIN outbox : outbox'[i] = outbox'[j] => i = j
        /\ \A r \in rows : \E i \in DOMAIN outbox' \ DOMAIN outbox : outbox'[i] = r
    BY <1>1, QueueAppends DEF BoardInv, TypeOK
  <1>3. \A i \in DOMAIN outbox : outbox[i].post \in DOMAIN posts
    BY DEF BoardInv, Rooted
  <1>4. MailTold'
    <2>1. ASSUME NEW i \in DOMAIN outbox', outbox'[i].kanal = "mail"
          PROVE  EntryOf(i)' \in DOMAIN inbox' /\ inbox'[EntryOf(i)'].reason = outbox'[i].reason
      <3>1. CASE i \in DOMAIN outbox
        BY <1>2, <2>1, <3>1 DEF OwingInv, MailTold, EntryOf
      <3>2. CASE i \notin DOMAIN outbox
        BY <1>2, <2>1, <3>2 DEF Settles, EntryOf
      <3> QED BY <3>1, <3>2
    <2> QED BY <2>1 DEF MailTold
  <1>5. EntryMailed'
    <2>1. ASSUME NEW k \in DOMAIN inbox', inbox'[k].reason = "reply"
          PROVE  \E i \in DOMAIN outbox' : /\ outbox'[i].kanal = "mail" /\ outbox'[i].reason = "reply"
                                           /\ outbox'[i].subject = k[1] /\ outbox'[i].post = k[2]
      <3>1. CASE k \in DOMAIN inbox
        BY <1>2, <2>1, <3>1 DEF OwingInv, EntryMailed, IsMail
      <3>2. CASE k \notin DOMAIN inbox
        <4>1. PICK r \in rows : r.kanal = "mail" /\ r.subject = k[1] /\ r.reason = "reply" /\ r.post = p
          BY <2>1, <3>2 DEF Settles
        <4> QED BY <1>2, <3>2, <4>1
      <3> QED BY <3>1, <3>2
    <2> QED BY <2>1 DEF EntryMailed, IsMail
  <1>6. HookIsWriters'
    BY <1>2, <1>3 DEF OwingInv, HookIsWriters, Settles
  <1>7. OwedOnce'
    <2>1. ASSUME NEW i \in DOMAIN outbox, NEW j \in DOMAIN outbox' \ DOMAIN outbox
          PROVE  ~(/\ outbox'[i].subject = outbox'[j].subject
                   /\ outbox'[i].post = outbox'[j].post
                   /\ outbox'[i].kanal = outbox'[j].kanal)
      <3>1. outbox'[i] = outbox[i] /\ outbox'[j] \in rows /\ outbox'[j].post = p
        BY <1>2 DEF Settles
      <3>2. CASE outbox'[j].kanal = "mail"
        BY <3>1, <3>2 DEF OwingInv, MailTold, EntryOf, Settles
      <3>3. CASE outbox'[j].kanal = "webhook"
        BY <1>3, <3>1, <3>3 DEF Settles
      <3>4. outbox'[j].kanal \in {"mail", "webhook"}
        BY <1>1, <3>1 DEF OwedRow
      <3> QED BY <3>2, <3>3, <3>4
    <2>2. ASSUME NEW i \in DOMAIN outbox', NEW j \in DOMAIN outbox',
                 outbox'[i].subject = outbox'[j].subject,
                 outbox'[i].post = outbox'[j].post,
                 outbox'[i].kanal = outbox'[j].kanal
          PROVE  i = j
      <3>1. CASE i \in DOMAIN outbox /\ j \in DOMAIN outbox
        BY <1>2, <2>2, <3>1 DEF OwingInv, OwedOnce
      <3>2. CASE i \notin DOMAIN outbox /\ j \notin DOMAIN outbox
        BY <1>2, <2>2, <3>2 DEF Settles
      <3> QED BY <2>1, <2>2, <3>1, <3>2
    <2>3. ASSUME NEW q \in DOMAIN posts', posts'[q].author \in Person
          PROVE  \E i \in DOMAIN outbox' : outbox'[i].post = q /\ outbox'[i].kanal = "webhook"
      <3>1. CASE q \in DOMAIN posts
        BY <1>2, <2>3, <3>1 DEF OwingInv, OwedOnce
      <3>2. CASE q \notin DOMAIN posts
        <4>1. PICK r \in rows : r.kanal = "webhook" /\ r.post = q
          BY <3>2 DEF Settles
        <4> QED BY <1>2, <4>1
      <3> QED BY <3>1, <3>2
    <2> QED BY <2>2, <2>3 DEF OwedOnce
  <1> QED BY <1>4, <1>5, <1>6, <1>7 DEF OwingInv

-----------------------------------------------------------------------------
(* The three writers.                                                      *)

\* A number nobody's post has is in nobody's bell.
LEMMA FreshIsUnheard ==
  ASSUME BoardInv, NEW p, p \notin DOMAIN posts
  PROVE  \A x : <<x, p>> \notin DOMAIN inbox
  BY DEF BoardInv, Rooted

\* What the fields of an owed row are.
LEMMA OwedFields ==
  ASSUME NEW x, NEW s, NEW p, NEW channel, NEW why
  PROVE  /\ Owed(x, s, p, channel, why).subject = x
         /\ Owed(x, s, p, channel, why).post = p
         /\ Owed(x, s, p, channel, why).kanal = channel
         /\ Owed(x, s, p, channel, why).reason = why
  BY DEF Owed

\* The mention mails are for those whose entry is new, one each.
LEMMA MentionMailsAre ==
  ASSUME NEW s \in Space, NEW p \in Id, NEW told \in SUBSET Person
  PROVE  /\ \A r \in MentionMails(s, p, told) :
              /\ r \in OwedRow /\ r.post = p /\ r.kanal = "mail" /\ r.reason = "mention"
              /\ r.subject \in told
         /\ \A q, r \in MentionMails(s, p, told) : q.subject = r.subject => q = r
  <1>1. \A r \in MentionMails(s, p, told) : \E x \in told : r = Owed(x, s, p, "mail", "mention")
    BY DEF MentionMails
  <1> QED BY <1>1, OwedFields, OwedIsRow

\* The follower mails are for the followers but the writer and the mentioned, one each.
LEMMA FollowerMailsAre ==
  ASSUME NEW bell, NEW s \in Space, NEW t, NEW p \in Id, NEW who
  PROVE  /\ \A r \in FollowerMails(bell, s, t, p, who) :
              /\ r \in OwedRow /\ r.post = p /\ r.kanal = "mail" /\ r.reason = "reply"
              /\ r.subject \in Followers(t) \ {who}
              /\ ~(<<r.subject, p>> \in DOMAIN bell /\ bell[<<r.subject, p>>].reason = "mention")
         /\ \A q, r \in FollowerMails(bell, s, t, p, who) : q.subject = r.subject => q = r
         /\ \A x \in Followers(t) \ {who} : <<x, p>> \notin DOMAIN bell =>
              \E r \in FollowerMails(bell, s, t, p, who) : r.subject = x
  <1> DEFINE unmentioned == {y \in Followers(t) \ {who} :
                ~(<<y, p>> \in DOMAIN bell /\ bell[<<y, p>>].reason = "mention")}
  <1>1. FollowerMails(bell, s, t, p, who) = {Owed(x, s, p, "mail", "reply") : x \in unmentioned}
    BY DEF FollowerMails
  <1>2. unmentioned \subseteq Person
    BY DEF Followers
  <1>3. \A r \in FollowerMails(bell, s, t, p, who) :
          \E x \in unmentioned : r = Owed(x, s, p, "mail", "reply")
    BY <1>1
  <1>4. \A x \in unmentioned : Owed(x, s, p, "mail", "reply") \in FollowerMails(bell, s, t, p, who)
    BY <1>1
  <1>5. \A x \in unmentioned :
          /\ Owed(x, s, p, "mail", "reply") \in OwedRow
          /\ Owed(x, s, p, "mail", "reply").post = p
          /\ Owed(x, s, p, "mail", "reply").subject = x
          /\ Owed(x, s, p, "mail", "reply").kanal = "mail"
          /\ Owed(x, s, p, "mail", "reply").reason = "reply"
    BY <1>2, OwedFields, OwedIsRow
  <1>6. \A x : x \in unmentioned <=>
          /\ x \in Followers(t) \ {who}
          /\ ~(<<x, p>> \in DOMAIN bell /\ bell[<<x, p>>].reason = "mention")
    OBVIOUS
  <1> DEFINE mails == FollowerMails(bell, s, t, p, who)
  <1> HIDE DEF unmentioned, mails
  <1>7. \A r \in mails :
          /\ r \in OwedRow /\ r.post = p /\ r.kanal = "mail" /\ r.reason = "reply"
          /\ r.subject \in unmentioned
    BY <1>3, <1>5 DEF mails
  <1>8. \A q, r \in mails : q.subject = r.subject => q = r
    BY <1>3, <1>5 DEF mails
  <1>9. \A x \in unmentioned : \E r \in mails : r.subject = x
    BY <1>4, <1>5 DEF mails
  <1> QED BY <1>6, <1>7, <1>8, <1>9 DEF mails

\* The webhook is kept under the writer's name.
LEMMA WebhookIs ==
  ASSUME NEW s \in Space, NEW p \in Id, NEW who \in Person
  PROVE  /\ Webhook(s, p, who) \in OwedRow
         /\ Webhook(s, p, who).post = p
         /\ Webhook(s, p, who).kanal = "webhook"
         /\ Webhook(s, p, who).subject = who
  BY OwedFields, OwedIsRow DEF Webhook

\* topics.rs: create_topic_mentioning.
LEMMA CreateTopicOwes ==
  ASSUME BoardInv, OwingInv, NEW who \in Person, NEW s \in Space,
         NEW mentioned \in SUBSET (Person \ {who}), CreateTopic(who, s, mentioned)
  PROVE  OwingInv'
  <1>1. PICK t \in NextId(DOMAIN topics), p \in NextId(DOMAIN posts) :
          /\ posts' = With(posts, Row(p, [topic |-> t, author |-> who, born |-> clock]))
          /\ inbox' = Noted(inbox, s, p, mentioned, "mention")
          /\ Queue(MentionMails(s, p, NewlyTold(inbox, p, mentioned)) \cup {Webhook(s, p, who)})
    BY DEF CreateTopic
  <1>2. p \in Id /\ p \notin DOMAIN posts
    BY NextIdIsFresh DEF BoardInv, Core, IsTable
  <1>3. /\ DOMAIN posts' = DOMAIN posts \cup {p}
        /\ \A q \in DOMAIN posts : posts'[q] = posts[q]
        /\ posts'[p].author = who
    BY <1>1, <1>2 DEF With, Row
  <1>4. Adds(inbox', inbox, mentioned, p, "mention")
    <2>1. mentioned \subseteq Person /\ IsTable(inbox, Person \X Id, BellRow)
      BY DEF BoardInv, TypeOK
    <2> QED BY <1>1, <1>2, <2>1, NotedAdds
  <1> DEFINE told == NewlyTold(inbox, p, mentioned)
             mails == MentionMails(s, p, told)
             hook == Webhook(s, p, who)
             rows == mails \cup {hook}
  <1>5. told \in SUBSET Person /\ \A x \in told : x \in mentioned /\ <<x, p>> \notin DOMAIN inbox
    BY DEF NewlyTold
  <1>6. Queue(rows)
    BY <1>1
  <1> HIDE DEF told
  <1>7. /\ \A r \in mails : /\ r \in OwedRow /\ r.post = p /\ r.kanal = "mail"
                            /\ r.reason = "mention" /\ r.subject \in told
        /\ \A q, r \in mails : q.subject = r.subject => q = r
    BY <1>2, <1>5, MentionMailsAre
  <1>8. hook \in OwedRow /\ hook.post = p /\ hook.kanal = "webhook" /\ hook.subject = who
    BY <1>2, WebhookIs
  <1> HIDE DEF mails, hook
  <1>9. \A x \in told : /\ <<x, p>> \in DOMAIN inbox' \ DOMAIN inbox
                        /\ inbox'[<<x, p>>].reason = "mention"
    BY <1>4, <1>5 DEF Adds
  <1>10. \A k \in DOMAIN inbox' \ DOMAIN inbox : k[2] = p /\ inbox'[k].reason = "mention"
    BY <1>4 DEF Adds
  <1>11. Settles(rows, p, who)
    <2>1. \A r \in rows : r \in mails \/ r = hook
      OBVIOUS
    <2>2. \A r \in rows : r \in OwedRow /\ r.post = p
      BY <1>7, <1>8, <2>1
    <2>3. \A r \in rows : r.kanal = "mail" => r \in mails
      BY <1>8, <2>1
    <2>4. \A r \in rows : r.kanal = "webhook" => r = hook
      BY <1>7, <2>1
    <2>5. \A q, r \in rows : q.subject = r.subject /\ q.kanal = r.kanal => q = r
      BY <1>7, <1>8, <2>1
    <2>6. \A r \in rows : r.kanal = "mail" =>
            /\ <<r.subject, p>> \in DOMAIN inbox' \ DOMAIN inbox
            /\ inbox'[<<r.subject, p>>].reason = r.reason
      BY <1>7, <1>9, <2>3
    <2> QED BY <1>2, <1>8, <1>10, <2>2, <2>4, <2>5, <2>6 DEF Settles
  <1>12. DOMAIN inbox \subseteq DOMAIN inbox' /\ \A k \in DOMAIN inbox : inbox'[k] = inbox[k]
    BY <1>4 DEF Adds
  <1> HIDE DEF rows
  <1> QED BY <1>3, <1>6, <1>10, <1>11, <1>12, OwingKeeps

\* topics.rs: update_post_mentioning.
LEMMA UpdatePostOwes ==
  ASSUME BoardInv, OwingInv, NEW who \in Person, NEW s \in Space, NEW p \in DOMAIN posts,
         NEW mentioned \in SUBSET (Person \ {who}), UpdatePost(who, s, p, mentioned)
  PROVE  OwingInv'
  <1>1. /\ posts[p].author = who /\ posts' = posts
        /\ inbox' = Noted(inbox, s, p, mentioned, "mention")
        /\ Queue(MentionMails(s, p, NewlyTold(inbox, p, mentioned)))
    BY DEF UpdatePost
  <1>2. p \in Id
    BY DEF BoardInv, Core, IsTable
  <1>3. Adds(inbox', inbox, mentioned, p, "mention")
    <2>1. mentioned \subseteq Person /\ IsTable(inbox, Person \X Id, BellRow)
      BY DEF BoardInv, TypeOK
    <2> QED BY <1>1, <1>2, <2>1, NotedAdds
  <1> DEFINE told == NewlyTold(inbox, p, mentioned)
             rows == MentionMails(s, p, told)
  <1>4. told \in SUBSET Person /\ \A x \in told : x \in mentioned /\ <<x, p>> \notin DOMAIN inbox
    BY DEF NewlyTold
  <1>5. Queue(rows)
    BY <1>1
  <1> HIDE DEF told
  <1>6. /\ \A r \in rows : /\ r \in OwedRow /\ r.post = p /\ r.kanal = "mail"
                           /\ r.reason = "mention" /\ r.subject \in told
        /\ \A q, r \in rows : q.subject = r.subject => q = r
    BY <1>2, <1>4, MentionMailsAre
  <1> HIDE DEF rows
  <1>7. \A x \in told : /\ <<x, p>> \in DOMAIN inbox' \ DOMAIN inbox
                        /\ inbox'[<<x, p>>].reason = "mention"
    BY <1>3, <1>4 DEF Adds
  <1>8. \A k \in DOMAIN inbox' \ DOMAIN inbox : k[2] = p /\ inbox'[k].reason = "mention"
    BY <1>3 DEF Adds
  <1>9. Settles(rows, p, who)
    BY <1>6, <1>7, <1>8 DEF Settles
  <1>10. DOMAIN inbox \subseteq DOMAIN inbox' /\ \A k \in DOMAIN inbox : inbox'[k] = inbox[k]
    BY <1>3 DEF Adds
  <1> QED BY <1>1, <1>5, <1>8, <1>9, <1>10, OwingKeeps

\* topics.rs: add_reply_mentioning.
LEMMA AddReplyOwes ==
  ASSUME BoardInv, OwingInv, NEW who \in Person, NEW s \in Space, NEW t \in DOMAIN topics,
         NEW mentioned \in SUBSET (Person \ {who}), AddReply(who, s, t, mentioned)
  PROVE  OwingInv'
  <1>1. PICK p \in NextId(DOMAIN posts) :
          LET told == NewlyTold(inbox, p, mentioned)
              bell == Noted(inbox, s, p, mentioned, "mention") IN
          /\ posts' = With(posts, Row(p, [topic |-> t, author |-> who, born |-> clock]))
          /\ Queue(MentionMails(s, p, told) \cup FollowerMails(bell, s, t, p, who)
                     \cup {Webhook(s, p, who)})
          /\ inbox' = ReplyBell(bell, s, t, p, who)
    BY DEF AddReply
  <1>2. p \in Id /\ p \notin DOMAIN posts
    BY NextIdIsFresh DEF BoardInv, Core, IsTable
  <1>3. /\ DOMAIN posts' = DOMAIN posts \cup {p}
        /\ \A q \in DOMAIN posts : posts'[q] = posts[q]
        /\ posts'[p].author = who
    BY <1>1, <1>2 DEF With, Row
  <1> DEFINE told == NewlyTold(inbox, p, mentioned)
             bell == Noted(inbox, s, p, mentioned, "mention")
             others == Followers(t) \ {who}
             mentionMails == MentionMails(s, p, told)
             followerMails == FollowerMails(bell, s, t, p, who)
             hook == Webhook(s, p, who)
             rows == mentionMails \cup followerMails \cup {hook}
  <1>4. Queue(rows)
    BY <1>1
  <1>5. \A x : <<x, p>> \notin DOMAIN inbox
    BY <1>2, FreshIsUnheard
  <1>6. told \in SUBSET Person /\ told \subseteq mentioned
    BY DEF NewlyTold
  <1>7. Adds(bell, inbox, mentioned, p, "mention")
    <2>1. mentioned \subseteq Person /\ IsTable(inbox, Person \X Id, BellRow)
      BY DEF BoardInv, TypeOK
    <2> QED BY <1>2, <2>1, NotedAdds
  <1>8. inbox' = Noted(bell, s, p, others, "reply")
    BY <1>1 DEF ReplyBell
  <1> HIDE DEF told, bell
  <1>9. Adds(inbox', bell, others, p, "reply")
    <2>1. others \subseteq Person /\ IsTable(bell, Person \X Id, BellRow)
      BY <1>7 DEF Adds, Followers
    <2> HIDE DEF others
    <2> QED BY <1>2, <1>8, <2>1, NotedAdds
  <1>10. /\ \A r \in mentionMails : /\ r \in OwedRow /\ r.post = p /\ r.kanal = "mail"
                                    /\ r.reason = "mention" /\ r.subject \in told
         /\ \A q, r \in mentionMails : q.subject = r.subject => q = r
    BY <1>2, <1>6, MentionMailsAre
  <1>11. /\ \A r \in followerMails :
              /\ r \in OwedRow /\ r.post = p /\ r.kanal = "mail" /\ r.reason = "reply"
              /\ r.subject \in others
              /\ ~(<<r.subject, p>> \in DOMAIN bell /\ bell[<<r.subject, p>>].reason = "mention")
         /\ \A q, r \in followerMails : q.subject = r.subject => q = r
         /\ \A x \in others : <<x, p>> \notin DOMAIN bell =>
              \E r \in followerMails : r.subject = x
    <2>1. others = Followers(t) \ {who}
      OBVIOUS
    <2> HIDE DEF others
    <2> QED BY <1>2, <2>1, FollowerMailsAre
  <1>12. hook \in OwedRow /\ hook.post = p /\ hook.kanal = "webhook" /\ hook.subject = who
    BY <1>2, WebhookIs
  <1> HIDE DEF mentionMails, followerMails, hook, others
  \* The bell after the mentions: entries under p for the mentioned, and no others.
  <1>13. \A x : <<x, p>> \in DOMAIN bell =>
           x \in mentioned /\ bell[<<x, p>>].reason = "mention"
    BY <1>5, <1>7 DEF Adds
  <1>14. \A x \in mentioned : <<x, p>> \in DOMAIN bell
    BY <1>7 DEF Adds
  <1>15. \A x \in mentioned :
           <<x, p>> \in DOMAIN inbox' /\ inbox'[<<x, p>>].reason = "mention"
    BY <1>9, <1>13, <1>14 DEF Adds
  <1>16. \A x \in others : <<x, p>> \notin DOMAIN bell =>
           <<x, p>> \in DOMAIN inbox' /\ inbox'[<<x, p>>].reason = "reply"
    BY <1>9 DEF Adds
  <1>17. /\ DOMAIN inbox \subseteq DOMAIN inbox'
         /\ \A k \in DOMAIN inbox : inbox'[k] = inbox[k]
         /\ \A k \in DOMAIN inbox' \ DOMAIN inbox : k[2] = p
    BY <1>7, <1>9 DEF Adds
  <1>18. \A k \in DOMAIN inbox' \ DOMAIN inbox : inbox'[k].reason = "reply" =>
           \E r \in followerMails : r.subject = k[1]
    <2> SUFFICES ASSUME NEW k \in DOMAIN inbox' \ DOMAIN inbox, inbox'[k].reason = "reply"
                 PROVE  \E r \in followerMails : r.subject = k[1]
      OBVIOUS
    <2>1. k \notin DOMAIN bell
      BY <1>7, <1>9 DEF Adds
    <2>2. k[1] \in others /\ k[2] = p /\ k \in Person \X Id
      BY <1>9, <2>1 DEF Adds, IsTable
    <2>3. k = <<k[1], p>>
      BY <2>2
    <2> QED BY <1>11, <2>1, <2>2, <2>3
  <1>19. Settles(rows, p, who)
    <2>1. \A r \in rows : r \in mentionMails \/ r \in followerMails \/ r = hook
      OBVIOUS
    <2>2. \A r \in rows : r \in OwedRow /\ r.post = p
      BY <1>10, <1>11, <1>12, <2>1
    <2>3. ASSUME NEW r \in rows, r.kanal = "mail"
          PROVE  /\ <<r.subject, p>> \in DOMAIN inbox' \ DOMAIN inbox
                 /\ inbox'[<<r.subject, p>>].reason = r.reason
      <3>1. CASE r \in mentionMails
        BY <1>5, <1>6, <1>10, <1>15, <3>1
      <3>2. CASE r \in followerMails
        BY <1>5, <1>11, <1>13, <1>16, <3>2
      <3> QED BY <1>12, <2>1, <2>3, <3>1, <3>2
    <2>4. \A r \in rows : r.kanal = "webhook" => r = hook
      BY <1>10, <1>11, <2>1
    <2>5. \A q \in mentionMails, r \in followerMails : q.subject # r.subject
      <3>1. \A q \in mentionMails :
              <<q.subject, p>> \in DOMAIN bell /\ bell[<<q.subject, p>>].reason = "mention"
        BY <1>6, <1>10, <1>13, <1>14
      <3>2. \A r \in followerMails :
              ~(<<r.subject, p>> \in DOMAIN bell /\ bell[<<r.subject, p>>].reason = "mention")
        BY <1>11
      <3> QED BY <3>1, <3>2
    <2>6. \A q, r \in rows : q.subject = r.subject /\ q.kanal = r.kanal => q = r
      <3>1. \A q \in rows : q.kanal = "mail" => q \in mentionMails \/ q \in followerMails
        BY <1>12, <2>1
      <3>2. \A q \in rows : q.kanal # "mail" => q = hook
        BY <1>10, <1>11, <2>1
      <3>3. \A q, r \in mentionMails : q.subject = r.subject => q = r
        BY <1>10
      <3>4. \A q, r \in followerMails : q.subject = r.subject => q = r
        BY <1>11
      <3> HIDE DEF rows
      <3> QED BY <2>5, <3>1, <3>2, <3>3, <3>4
    <2>7. \A k \in DOMAIN inbox' \ DOMAIN inbox : inbox'[k].reason = "reply" =>
            \E r \in rows : r.kanal = "mail" /\ r.subject = k[1] /\ r.reason = "reply"
      BY <1>11, <1>18
    <2>8. hook \in rows
      OBVIOUS
    <2> HIDE DEF rows
    <2> QED BY <1>2, <1>12, <2>2, <2>3, <2>4, <2>6, <2>7, <2>8 DEF Settles
  <1> HIDE DEF rows
  <1> QED BY <1>3, <1>4, <1>17, <1>19, OwingKeeps

-----------------------------------------------------------------------------
(* The steps that owe nothing.                                             *)

\* likes.rs: toggle_telling writes like entries only, and takes away no others.
LEMMA LikeOwes ==
  ASSUME BoardInv, OwingInv, NEW who \in Person, NEW s \in Space, NEW p \in DOMAIN posts,
         Like(who, s, p) \/ Unlike(who, s, p)
  PROVE  OwingInv'
  <1>1. outbox' = outbox /\ posts' = posts
    BY DEF Like, Unlike
  <1>2. CASE Like(who, s, p)
    <2>1. PICK owner \in Owners \cup {Nobody} : inbox' = RungBell(s, p, Rings(who, p, owner))
      BY <1>2 DEF Like
    <2>2. \A k \in DOMAIN inbox : inbox[k] \in BellRow
      BY DEF BoardInv, TypeOK, IsTable
    <2>3. /\ \A k \in DOMAIN inbox : k \in DOMAIN inbox' /\ inbox'[k].reason = inbox[k].reason
          /\ \A k \in DOMAIN inbox' \ DOMAIN inbox : inbox'[k].reason = "like"
      BY <2>1, <2>2 DEF RungBell, With, BellRow
    <2>4. \A k \in DOMAIN inbox' : inbox'[k].reason = "reply" =>
            k \in DOMAIN inbox /\ inbox[k].reason = "reply"
      BY <2>3
    <2> QED BY <1>1, <2>3, <2>4, QuietKeeps
  <1>3. CASE Unlike(who, s, p)
    <2>1. inbox' = BellAfterUnlike(p, likes')
      BY <1>3 DEF Unlike
    <2>2. /\ \A k \in DOMAIN inbox : inbox[k].reason # "like" =>
               k \in DOMAIN inbox' /\ inbox'[k].reason = inbox[k].reason
          /\ \A k \in DOMAIN inbox' : k \in DOMAIN inbox /\ inbox'[k] = inbox[k]
      BY <2>1 DEF BellAfterUnlike, Restrict
    <2> QED BY <1>1, <2>2, QuietKeeps
  <1> QED BY <1>2, <1>3

\* inbox.rs: reading changes no entry but its mark.
LEMMA ReadingOwes ==
  ASSUME BoardInv, OwingInv, NEW keys, MarkRead(keys), outbox' = outbox, posts' = posts
  PROVE  OwingInv'
  <1>1. \A k \in DOMAIN inbox : inbox[k] \in BellRow
    BY DEF BoardInv, TypeOK, IsTable
  <1>2. /\ DOMAIN inbox' = DOMAIN inbox
        /\ \A k \in DOMAIN inbox : inbox'[k].reason = inbox[k].reason
    BY <1>1 DEF MarkRead, BellRow
  <1> QED BY <1>2, QuietKeeps

\* articles.rs: mirror owes nobody anything, and writes for nobody who signs in.
LEMMA MirrorOwes ==
  ASSUME BoardInv, OwingInv, NEW key \in SourceKey, NEW s \in Space, MirrorStep(key, s)
  PROVE  OwingInv'
  <1>1. outbox' = outbox /\ inbox' = inbox
    BY DEF MirrorStep, MirrorNew, MirrorAgain, HideMissing
  <1>2. CASE MirrorNew(key, s)
    <2>1. PICK t \in NextId(DOMAIN topics), p \in NextId(DOMAIN posts) :
            posts' = With(posts, Row(p, [topic |-> t, author |-> Publisher, born |-> clock]))
      BY <1>2 DEF MirrorNew
    <2>2. /\ DOMAIN posts \subseteq DOMAIN posts'
          /\ \A q \in DOMAIN posts : posts'[q] = posts[q]
          /\ \A q \in DOMAIN posts' \ DOMAIN posts : posts'[q].author \notin Person
      BY <2>1, PublisherAssumption DEF With, Row
    <2> QED BY <1>1, <2>2, QuietKeeps
  <1>3. CASE MirrorAgain(key, s) \/ HideMissing(key, s)
    <2>1. posts' = posts
      BY <1>3 DEF MirrorAgain, HideMissing
    <2> QED BY <1>1, <2>1, QuietKeeps
  <1> QED BY <1>2, <1>3 DEF MirrorStep

-----------------------------------------------------------------------------
(* The theorems.                                                           *)

\* Every transaction keeps the account of what is owed.
LEMMA StepOwes == BoardInv /\ OwingInv /\ [BoardNext]_boardVars => OwingInv'
  <1> SUFFICES ASSUME BoardInv, OwingInv, [BoardNext]_boardVars PROVE OwingInv'
    OBVIOUS
  <1>0. ASSUME UNCHANGED <<posts, inbox, outbox>> PROVE OwingInv'
    BY <1>0, QuietKeeps
  <1>1. ASSUME NEW who \in Person, NEW s \in Space, PersonStep(who, s)
        PROVE  OwingInv'
    <2>1. ASSUME NEW m \in SUBSET (Person \ {who}), CreateTopic(who, s, m) PROVE OwingInv'
      BY <2>1, CreateTopicOwes
    <2>2. ASSUME NEW t \in DOMAIN topics, NEW m \in SUBSET (Person \ {who}), AddReply(who, s, t, m)
          PROVE  OwingInv'
      BY <2>2, AddReplyOwes
    <2>3. ASSUME NEW p \in DOMAIN posts, NEW m \in SUBSET (Person \ {who}), UpdatePost(who, s, p, m)
          PROVE  OwingInv'
      BY <2>3, UpdatePostOwes
    <2>4. ASSUME NEW p \in DOMAIN posts, DeleteReply(who, s, p) PROVE OwingInv'
      BY <2>4, CascadeKeeps DEF DeleteReply
    <2>5. ASSUME NEW p \in DOMAIN posts, DeleteTopic(who, s, p) PROVE OwingInv'
      BY <2>5, CascadeKeeps DEF DeleteTopic
    <2>6. ASSUME NEW t \in DOMAIN topics, Follow(who, s, t) \/ Unfollow(who, s, t) PROVE OwingInv'
      BY <1>0, <2>6 DEF Follow, Unfollow
    <2>7. ASSUME NEW p \in DOMAIN posts, Like(who, s, p) \/ Unlike(who, s, p) PROVE OwingInv'
      BY <2>7, LikeOwes
    <2>8. ASSUME NEW t \in DOMAIN topics, MarkTopicRead(who, s, t) PROVE OwingInv'
      BY <2>8, ReadingOwes DEF MarkTopicRead
    <2> QED BY <1>1, <2>1, <2>2, <2>3, <2>4, <2>5, <2>6, <2>7, <2>8 DEF PersonStep
  <1>2. ASSUME NEW who \in Person, NEW spaces \in SUBSET Space, MarkAllRead(who, spaces)
        PROVE  OwingInv'
    BY <1>2, ReadingOwes DEF MarkAllRead
  <1>3. ASSUME NEW who \in Switchers, NEW on \in BOOLEAN, SetMentionMail(who, on)
        PROVE  OwingInv'
    BY <1>0, <1>3 DEF SetMentionMail
  <1>4. ASSUME NEW key \in SourceKey, NEW s \in Space, MirrorStep(key, s) PROVE OwingInv'
    BY <1>4, MirrorOwes
  <1>5. CASE UNCHANGED boardVars
    BY <1>0, <1>5 DEF boardVars
  <1> QED BY <1>1, <1>2, <1>3, <1>4, <1>5 DEF BoardNext

\* What is owed is on record everywhere it has to be, in every reachable state.
THEOREM OwingIsSound == BoardSpec => []OwingInv
  <1>1. BoardInit => OwingInv
    BY DEF BoardInit, OwingInv, MailTold, EntryMailed, HookIsWriters, OwedOnce
  <1> QED BY <1>1, StepOwes, BoardIsSound, PTL DEF BoardSpec

\* The account of what is owed is that agreement.
LEMMA OwingAgrees == OwingInv => BellAndMailAgree
  <1> SUFFICES ASSUME OwingInv, NEW x \in Person, NEW p \in DOMAIN posts
               PROVE  (\E i \in DOMAIN outbox : IsMail(i, x, p) /\ outbox[i].reason = "reply")
                        <=> (<<x, p>> \in DOMAIN inbox /\ inbox[<<x, p>>].reason = "reply")
    BY DEF BellAndMailAgree
  <1>1. ASSUME NEW i \in DOMAIN outbox, IsMail(i, x, p), outbox[i].reason = "reply"
        PROVE  <<x, p>> \in DOMAIN inbox /\ inbox[<<x, p>>].reason = "reply"
    BY <1>1 DEF OwingInv, MailTold, EntryOf, IsMail
  <1>2. ASSUME <<x, p>> \in DOMAIN inbox, inbox[<<x, p>>].reason = "reply"
        PROVE  \E i \in DOMAIN outbox : IsMail(i, x, p) /\ outbox[i].reason = "reply"
    <2>1. PICK i \in DOMAIN outbox :
            IsMail(i, <<x, p>>[1], <<x, p>>[2]) /\ outbox[i].reason = "reply"
      BY <1>2 DEF OwingInv, EntryMailed
    <2> QED BY <2>1
  <1> QED BY <1>1, <1>2

\* Somebody is owed a mail about a reply exactly if their bell has an entry about
\* it, after any edits, deletes and reused numbers (topics.rs: add_reply_mentioning).
THEOREM BellAndMailsAgree == BoardSpec => []BellAndMailAgree
  BY OwingAgrees, OwingIsSound, PTL

\* Nobody is owed two mails about one post, and every post somebody wrote has its
\* one webhook (outbox.rs: queue_for_followers, queue_mentions_in, queue_webhook).
THEOREM NothingIsOwedTwice == BoardSpec => []OwedOnce
  <1>1. OwingInv => OwedOnce
    BY DEF OwingInv
  <1> QED BY <1>1, OwingIsSound, PTL
=============================================================================
