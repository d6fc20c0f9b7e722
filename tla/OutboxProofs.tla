---------------------------- MODULE OutboxProofs ----------------------------
(***************************************************************************)
(* What the sender promises about the outbox, for any number of people,    *)
(* rows, restarts, refused marks and lost answers.                         *)
(***************************************************************************)
EXTENDS Outbox, BoardProofs, FiniteSetTheorems

\* No two posts were ever written at the same moment.
BornApart ==
  /\ \A p \in DOMAIN posts : posts[p].born < clock
  /\ \A p, q \in DOMAIN posts : posts[p].born = posts[q].born => p = q

Owes(r) == Matter(r.subject, r.born, r.kanal)
About(l) == Matter(l.to, l.born, l.kanal)

\* What a loop holds are rows of its channel as they were, no two with the same
\* number or about the same thing owed.
Batched ==
  \A c \in Channel :
    /\ \A r \in batch[c] : r.kanal = c /\ r.attempts < MaxAttempts /\ r.born < clock
    /\ \A q, r \in batch[c] : q.id = r.id \/ Owes(q) = Owes(r) => q = r

\* While the post of a row that is held is there, so is the row, under its number.
Aimed ==
  \A c \in Channel : \A r \in batch[c], p \in DOMAIN posts : posts[p].born = r.born =>
    /\ r.id \in DOMAIN outbox
    /\ outbox[r.id].post = p /\ outbox[r.id].subject = r.subject /\ outbox[r.id].kanal = c

\* Under the number of a row that is held stands that row, and nobody has marked
\* it, unless another took the number.
Untouched ==
  \A c \in Channel : \A r \in batch[c] : r.id \in DOMAIN outbox \ overtaken =>
    /\ posts[outbox[r.id].post].born = r.born
    /\ ~outbox[r.id].sent /\ outbox[r.id].attempts = r.attempts

\* A letter about a post that is still there has its row.
Rowed ==
  \A l \in letters :
    /\ l.born < clock
    /\ \A p \in DOMAIN posts : posts[p].born = l.born =>
         \E i \in DOMAIN outbox : /\ outbox[i].post = p
                                  /\ outbox[i].subject = l.to /\ outbox[i].kanal = l.kanal

\* A loop that is about to tick its row off has answered it.
Earned ==
  \A c \in Channel : pc[c] = "sent" => \A r \in Oldest(batch[c]) : Owes(r) \in Answered

\* The writer of a held mail's post is not its addressee.
NotItsWriter ==
  \A r \in batch["mail"], p \in DOMAIN posts :
    posts[p].born = r.born => posts[p].author # r.subject

\* What was delivered on a channel and may be delivered again: its row is not
\* marked or a loop holds it, and it is not the one about to be ticked off.
Waits(m, c) ==
  \/ \E i \in DOMAIN outbox : ~outbox[i].sent /\ MatterOf(i) = m
  \/ \E r \in batch[c] : Owes(r) = m

TickedNext(m, c) == pc[c] = "sent" /\ \E r \in Oldest(batch[c]) : Owes(r) = m

AtRisk(c) ==
  {m \in {About(l) : l \in letters} : m[3] = c /\ Waits(m, c) /\ ~TickedNext(m, c)}

\* Each cut puts one thing at risk, and a repeat uses one up.
Within(c) == IsFiniteSet(AtRisk(c)) /\ repeats[c] + Cardinality(AtRisk(c)) <= cuts[c]
Counted == \A c \in Channel : Within(c)

Tables == BoardInv /\ OwingInv /\ BornApart
Loops == Batched /\ Aimed /\ Untouched /\ Rowed /\ Earned /\ NotItsWriter /\ Counted
Promises == SentMeansAnswered /\ NoLetterToItsWriter
SenderInv == Tables /\ SenderTypeOK /\ Loops /\ Promises

-----------------------------------------------------------------------------
(* The tables.                                                             *)

\* The rows are the same but for their marks.
SameRows ==
  /\ DOMAIN outbox' = DOMAIN outbox
  /\ \A i \in DOMAIN outbox :
       /\ outbox'[i].subject = outbox[i].subject /\ outbox'[i].post = outbox[i].post
       /\ outbox'[i].kanal = outbox[i].kanal /\ outbox'[i].reason = outbox[i].reason

\* Marking rows, or pressing an unsubscribe link, breaks nothing the board keeps.
LEMMA MarkingKeeps ==
  ASSUME Tables, UNCHANGED <<topics, posts, inbox, likes, clock>>, SameRows,
         IsTable(outbox', Id, OwedRow), follows' \subseteq follows, optedOut' \subseteq Person
  PROVE  Tables'
  <1>1. Core'
    BY DEF Tables, BoardInv, Core, Mirrored, Opens, PostsOf
  <1>2. TypeOK'
    BY DEF Tables, BoardInv, TypeOK
  <1>3. Rooted'
    BY DEF Tables, BoardInv, Rooted, SameRows
  <1>4. NotAboutOneself'
    BY DEF Tables, BoardInv, NotAboutOneself, SameRows
  <1>5. LikeEntryTrue'
    BY DEF Tables, BoardInv, LikeEntryTrue
  <1>6. MailTold'
    BY DEF Tables, OwingInv, MailTold, EntryOf, SameRows
  <1>7. EntryMailed'
    BY DEF Tables, OwingInv, EntryMailed, IsMail, SameRows
  <1>8. HookIsWriters'
    BY <1>3 DEF Tables, OwingInv, HookIsWriters, SameRows
  <1>9. OwedOnce'
    BY DEF Tables, OwingInv, OwedOnce, SameRows
  <1>10. BornApart'
    BY DEF Tables, BornApart
  <1> QED BY <1>1, <1>2, <1>3, <1>4, <1>5, <1>6, <1>7, <1>8, <1>9, <1>10
          DEF Tables, BoardInv, OwingInv

\* At most one post is added, and every new row is about it.
AddsOne ==
  \E p \in DOMAIN posts' :
    /\ DOMAIN posts' = DOMAIN posts \cup {p}
    /\ clock' = IF p \in DOMAIN posts THEN clock ELSE clock + 1
    /\ \A i \in DOMAIN outbox' \ DOMAIN outbox : outbox'[i].post = p

\* Posts and rows go.
Withdraws ==
  /\ DOMAIN posts' \subseteq DOMAIN posts /\ DOMAIN outbox' \subseteq DOMAIN outbox
  /\ clock' = clock

\* What a person's transaction does to posts and rows: it changes none, adds at
\* most one post, the youngest, and the rows it adds are not marked.
Written ==
  /\ clock' \in {clock, clock + 1}
  /\ \A p \in DOMAIN posts \cap DOMAIN posts' : posts'[p] = posts[p]
  /\ \A p \in DOMAIN posts' \ DOMAIN posts : posts'[p].born = clock /\ clock' = clock + 1
  /\ \A p, q \in DOMAIN posts' \ DOMAIN posts : p = q
  /\ \A i \in DOMAIN outbox : outbox[i].post \in DOMAIN posts' <=> i \in DOMAIN outbox'
  /\ \A i \in DOMAIN outbox \cap DOMAIN outbox' : outbox'[i] = outbox[i]
  /\ \A i \in DOMAIN outbox' \ DOMAIN outbox : ~outbox'[i].sent /\ outbox'[i].attempts = 0
  /\ AddsOne \/ Withdraws

\* A row as it is queued.
Fresh(r, p) == ~r.sent /\ r.attempts = 0 /\ r.post = p

\* Rows are queued unmarked, about their post.
LEMMA QueuedUnmarked ==
  ASSUME NEW s, NEW p, NEW who, NEW told, NEW bell, NEW t
  PROVE  /\ \A r \in MentionMails(s, p, told) : Fresh(r, p)
         /\ \A r \in FollowerMails(bell, s, t, p, who) : Fresh(r, p)
         /\ Fresh(Webhook(s, p, who), p)
  <1>1. \A x, channel, why : Fresh(Owed(x, s, p, channel, why), p)
    BY DEF Owed, Fresh
  <1>2. \A r \in MentionMails(s, p, told) : \E x : r = Owed(x, s, p, "mail", "mention")
    BY DEF MentionMails
  <1>3. \A r \in FollowerMails(bell, s, t, p, who) : \E x : r = Owed(x, s, p, "mail", "reply")
    BY DEF FollowerMails
  <1> QED BY <1>1, <1>2, <1>3 DEF Webhook

\* A step that adds post p and queues unmarked rows about it.
LEMMA AddingWrites ==
  ASSUME BoardInv, NEW p, p \notin DOMAIN posts, NEW row, row.born = clock,
         posts' = With(posts, Row(p, row)), clock' = clock + 1,
         NEW rows \in SUBSET OwedRow, \A r \in rows : Fresh(r, p), Queue(rows)
  PROVE  Written
  <1>1. /\ DOMAIN posts' = DOMAIN posts \cup {p}
        /\ \A q \in DOMAIN posts : posts'[q] = posts[q]
        /\ posts'[p] = row
    BY DEF With, Row
  <1>2. /\ DOMAIN outbox \subseteq DOMAIN outbox'
        /\ \A i \in DOMAIN outbox : outbox'[i] = outbox[i]
        /\ \A i \in DOMAIN outbox' \ DOMAIN outbox : outbox'[i] \in rows
    BY QueueAppends DEF BoardInv, TypeOK
  <1>3. \A i \in DOMAIN outbox : outbox[i].post \in DOMAIN posts'
    BY <1>1 DEF BoardInv, Rooted
  <1>4. AddsOne
    BY <1>1, <1>2 DEF AddsOne, Fresh
  <1> QED BY <1>1, <1>2, <1>3, <1>4 DEF Written, Fresh

\* A step that deletes posts.
LEMMA DeletingWrites ==
  ASSUME NEW gone, WithoutPosts(gone), clock' = clock, BoardInv
  PROVE  Written
  <1>1. /\ DOMAIN posts' = DOMAIN posts \ gone
        /\ \A p \in DOMAIN posts' : posts'[p] = posts[p]
        /\ DOMAIN outbox' = {i \in DOMAIN outbox : outbox[i].post \notin gone}
        /\ \A i \in DOMAIN outbox' : outbox'[i] = outbox[i]
    BY DEF WithoutPosts, Restrict
  <1>2. \A i \in DOMAIN outbox : outbox[i].post \in DOMAIN posts
    BY DEF BoardInv, Rooted
  <1>3. Withdraws
    BY <1>1 DEF Withdraws
  <1> QED BY <1>1, <1>2, <1>3 DEF Written

\* Each transaction that inserts or cascades outbox rows is such a step.
LEMMA WritesAreWritten ==
  ASSUME BoardInv, NEW who \in Person, NEW s \in Space, Writes(who, s)
  PROVE  Written
  <1>0. IsTable(posts, Id, PostRow) /\ clock \in Nat
    BY DEF BoardInv, Core
  <1>1. ASSUME NEW m \in SUBSET (Person \ {who}), CreateTopic(who, s, m)
        PROVE  Written
    <2>1. PICK t \in NextId(DOMAIN topics), p \in NextId(DOMAIN posts) :
            /\ posts' = With(posts, Row(p, [topic |-> t, author |-> who, born |-> clock]))
            /\ Queue(MentionMails(s, p, NewlyTold(inbox, p, m)) \cup {Webhook(s, p, who)})
      BY <1>1 DEF CreateTopic
    <2>2. p \in Id /\ p \notin DOMAIN posts
      BY <1>0, NextIdIsFresh DEF IsTable
    <2> DEFINE told == NewlyTold(inbox, p, m)
               rows == MentionMails(s, p, told) \cup {Webhook(s, p, who)}
    <2>3. told \in SUBSET (Person \ {who})
      BY DEF NewlyTold
    <2>4. Queue(rows)
      BY <2>1
    <2> HIDE DEF told
    <2>5. /\ \A r \in MentionMails(s, p, told) : r \in OwedRow
          /\ Webhook(s, p, who) \in OwedRow
      BY <2>2, <2>3, OwedIsProper DEF Proper
    <2>6. /\ \A r \in MentionMails(s, p, told) : Fresh(r, p)
          /\ Fresh(Webhook(s, p, who), p)
      BY QueuedUnmarked
    <2>7. rows \in SUBSET OwedRow /\ \A r \in rows : Fresh(r, p)
      BY <2>5, <2>6
    <2>8. clock' = clock + 1
      BY <1>1 DEF CreateTopic
    <2> HIDE DEF rows
    <2> QED BY <2>1, <2>2, <2>4, <2>7, <2>8, AddingWrites
  <1>2. ASSUME NEW t \in DOMAIN topics, NEW m \in SUBSET (Person \ {who}), AddReply(who, s, t, m)
        PROVE  Written
    <2>1. PICK p \in NextId(DOMAIN posts) :
            /\ posts' = With(posts, Row(p, [topic |-> t, author |-> who, born |-> clock]))
            /\ Queue(MentionMails(s, p, NewlyTold(inbox, p, m))
                       \cup FollowerMails(Noted(inbox, s, p, m, "mention"), s, t, p, who)
                       \cup {Webhook(s, p, who)})
      BY <1>2 DEF AddReply
    <2>2. p \in Id /\ p \notin DOMAIN posts
      BY <1>0, NextIdIsFresh DEF IsTable
    <2> DEFINE told == NewlyTold(inbox, p, m)
               bell == Noted(inbox, s, p, m, "mention")
               rows == MentionMails(s, p, told) \cup FollowerMails(bell, s, t, p, who)
                         \cup {Webhook(s, p, who)}
    <2>3. told \in SUBSET (Person \ {who})
      BY DEF NewlyTold
    <2>4. Queue(rows)
      BY <2>1
    <2> HIDE DEF told, bell
    <2>5. /\ \A r \in MentionMails(s, p, told) : r \in OwedRow
          /\ \A r \in FollowerMails(bell, s, t, p, who) : r \in OwedRow
          /\ Webhook(s, p, who) \in OwedRow
      BY <2>2, <2>3, OwedIsProper DEF Proper
    <2>6. /\ \A r \in MentionMails(s, p, told) : Fresh(r, p)
          /\ \A r \in FollowerMails(bell, s, t, p, who) : Fresh(r, p)
          /\ Fresh(Webhook(s, p, who), p)
      BY QueuedUnmarked
    <2>7. rows \in SUBSET OwedRow /\ \A r \in rows : Fresh(r, p)
      BY <2>5, <2>6
    <2>8. clock' = clock + 1
      BY <1>2 DEF AddReply
    <2> HIDE DEF rows
    <2> QED BY <2>1, <2>2, <2>4, <2>7, <2>8, AddingWrites
  <1>3. ASSUME NEW p \in DOMAIN posts, NEW m \in SUBSET (Person \ {who}), UpdatePost(who, s, p, m)
        PROVE  Written
    <2> DEFINE told == NewlyTold(inbox, p, m)
               rows == MentionMails(s, p, told)
    <2>1. Queue(rows) /\ posts' = posts /\ clock' = clock
      BY <1>3 DEF UpdatePost
    <2>2. p \in Id /\ told \in SUBSET (Person \ {who})
      BY <1>0 DEF NewlyTold, IsTable
    <2> HIDE DEF told
    <2>3. \A r \in rows : r \in OwedRow
      BY <2>2, OwedIsProper DEF Proper
    <2>4. \A r \in rows : Fresh(r, p)
      BY QueuedUnmarked
    <2> HIDE DEF rows
    <2>5. /\ DOMAIN outbox \subseteq DOMAIN outbox'
          /\ \A i \in DOMAIN outbox : outbox'[i] = outbox[i]
          /\ \A i \in DOMAIN outbox' \ DOMAIN outbox : outbox'[i] \in rows
      BY <2>1, <2>3, QueueAppends DEF BoardInv, TypeOK
    <2>6. AddsOne
      BY <2>1, <2>4, <2>5 DEF AddsOne, Fresh
    <2> QED BY <2>1, <2>4, <2>5, <2>6 DEF Written, BoardInv, Rooted, Fresh
  <1>4. ASSUME NEW p \in DOMAIN posts, DeleteReply(who, s, p) PROVE Written
    BY <1>4, DeletingWrites DEF DeleteReply
  <1>5. ASSUME NEW p \in DOMAIN posts, DeleteTopic(who, s, p) PROVE Written
    BY <1>5, DeletingWrites DEF DeleteTopic
  <1> QED BY <1>1, <1>2, <1>3, <1>4, <1>5 DEF Writes

\* The youngest post is apart from the others.
LEMMA WritingKeepsApart ==
  ASSUME BoardInv, BoardInv', BornApart, Written
  PROVE  BornApart'
  <1>1. /\ clock \in Nat /\ clock' \in Nat
        /\ \A p \in DOMAIN posts : posts[p].born \in Nat
        /\ \A p \in DOMAIN posts' : posts'[p].born \in Nat
    BY DEF BoardInv, Core, IsTable, PostRow
  <1>2. ASSUME NEW p \in DOMAIN posts' PROVE posts'[p].born < clock'
    BY <1>1 DEF BornApart, Written
  <1>3. ASSUME NEW p \in DOMAIN posts', NEW q \in DOMAIN posts', posts'[p].born = posts'[q].born
        PROVE  p = q
    <2>1. CASE p \in DOMAIN posts /\ q \in DOMAIN posts
      BY <1>3, <2>1 DEF BornApart, Written
    <2>2. CASE p \notin DOMAIN posts /\ q \in DOMAIN posts
      BY <1>1, <1>3, <2>2 DEF BornApart, Written
    <2>3. CASE p \in DOMAIN posts /\ q \notin DOMAIN posts
      BY <1>1, <1>3, <2>3 DEF BornApart, Written
    <2>4. CASE p \notin DOMAIN posts /\ q \notin DOMAIN posts
      BY <2>4 DEF Written
    <2> QED BY <2>1, <2>2, <2>3, <2>4
  <1> QED BY <1>2, <1>3 DEF BornApart

LEMMA WritingKeepsTables ==
  ASSUME Tables, NEW who \in Person, NEW s \in Space, Writes(who, s)
  PROVE  Tables' /\ Written
  <1>1. BoardNext
    BY DEF Writes, BoardNext, PersonStep
  <1>2. BoardInv' /\ OwingInv'
    BY <1>1, StepKeeps, StepOwes DEF Tables
  <1>3. Written
    BY WritesAreWritten DEF Tables
  <1>4. BornApart'
    BY <1>2, <1>3, WritingKeepsApart DEF Tables
  <1> QED BY <1>2, <1>3, <1>4 DEF Tables

\* With the tables untouched nothing they keep changes.
LEMMA TablesRest ==
  ASSUME Tables, UNCHANGED boardVars
  PROVE  Tables' /\ SameRows
  <1>1. BoardInv' /\ OwingInv'
    BY StepKeeps, StepOwes DEF Tables
  <1>2. BornApart'
    BY DEF Tables, BornApart, boardVars
  <1> QED BY <1>1, <1>2 DEF Tables, SameRows, boardVars

-----------------------------------------------------------------------------
(* Types.                                                                  *)

\* A row as it was read.
LEMMA SnapshotIs ==
  ASSUME BoardInv, NEW i \in DOMAIN outbox
  PROVE  /\ Snapshot(i) \in SnapshotRow
         /\ Snapshot(i).id = i /\ Snapshot(i).subject = outbox[i].subject
         /\ Snapshot(i).post = outbox[i].post /\ Snapshot(i).kanal = outbox[i].kanal
         /\ Snapshot(i).attempts = outbox[i].attempts
         /\ Snapshot(i).born = posts[outbox[i].post].born
         /\ Owes(Snapshot(i)) = MatterOf(i)
  <1> DEFINE row == outbox[i]
             post == posts[row.post]
  <1>1. i \in Id /\ row \in OwedRow
    BY DEF BoardInv, TypeOK, IsTable
  <1>2. post \in PostRow /\ post.topic \in DOMAIN topics
    BY DEF BoardInv, Core, Rooted, IsTable
  <1>3. topics[post.topic] \in TopicRow /\ post.topic \in Id
    BY <1>2 DEF BoardInv, Core, IsTable
  <1>4. Snapshot(i) = [id |-> i, subject |-> row.subject, space |-> row.space, post |-> row.post,
                       topic |-> post.topic, kanal |-> row.kanal, reason |-> row.reason,
                       attempts |-> row.attempts, born |-> post.born,
                       topicBorn |-> topics[post.topic].born]
    BY DEF Snapshot
  <1>5. Snapshot(i) \in SnapshotRow
    <2> HIDE DEF row, post
    <2>1. /\ row.subject \in Person /\ row.space \in Space /\ row.post \in Id
          /\ row.kanal \in Channel /\ row.reason \in {"reply", "mention"} /\ row.attempts \in Nat
      BY <1>1 DEF OwedRow, Channel
    <2>2. post.born \in Nat /\ topics[post.topic].born \in Nat
      BY <1>2, <1>3 DEF PostRow, TopicRow
    <2> QED BY <1>1, <1>3, <1>4, <2>1, <2>2 DEF SnapshotRow
  <1> QED BY <1>4, <1>5 DEF Owes, MatterOf

\* The rows of a batch are numbered, so the oldest is one.
LEMMA OldestIsOne ==
  ASSUME SenderTypeOK, Batched, NEW c \in Channel,
         NEW q \in Oldest(batch[c]), NEW r \in Oldest(batch[c])
  PROVE  q = r /\ r \in batch[c]
  <1>1. q \in batch[c] /\ r \in batch[c] /\ q.id <= r.id /\ r.id <= q.id
    BY DEF Oldest
  <1>2. q.id \in Nat /\ r.id \in Nat
    BY <1>1 DEF SenderTypeOK, SnapshotRow, Id
  <1> QED BY <1>1, <1>2 DEF Batched

LEMMA LoopTypes ==
  ASSUME Tables, TypeOK', SenderTypeOK, NEW c \in Channel, Loop(c)
  PROVE  SenderTypeOK'
  <1> USE DEF SenderTypeOK
  <1>1. CASE Fetch(c)
    <2> DEFINE mine == {Snapshot(i) : i \in {j \in Due : outbox[j].kanal = c}}
    <2>1. \A j \in Due : j \in DOMAIN outbox
      BY DEF Due
    <2>2. mine \in SUBSET SnapshotRow
      BY <2>1, SnapshotIs DEF Tables
    <2>3. batch' = [batch EXCEPT ![c] = mine]
      BY <1>1 DEF Fetch
    <2> HIDE DEF mine
    <2>4. batch' \in [Channel -> SUBSET SnapshotRow]
      BY <2>2, <2>3
    <2>5. pc' \in [Channel -> {"asleep", "compose", "deliver", "sent", "failed"}]
      BY <1>1 DEF Fetch
    <2> QED BY <1>1, <2>4, <2>5 DEF Fetch, historyVars
  <1>2. CASE ComposeNothing(c)
    <2>1. PICK r \in Oldest(batch[c]) : nothing' = nothing \cup {Matter(r.subject, r.born, c)}
      BY <1>2 DEF ComposeNothing
    <2>2. r \in SnapshotRow
      BY DEF Oldest
    <2>3. Matter(r.subject, r.born, c) \in Person \X Nat \X Channel
      BY <2>2 DEF Matter, SnapshotRow
    <2> QED BY <1>2, <2>1, <2>3 DEF ComposeNothing
  <1>3. CASE ComposeMessage(c)
    <2>1. PICK r \in Oldest(batch[c]) :
            /\ Shows(r)
            /\ shown' = [shown EXCEPT ![c] = [born |-> posts[r.post].born,
                                              author |-> posts[r.post].author]]
      BY <1>3 DEF ComposeMessage
    <2>2. posts[r.post] \in PostRow
      BY <2>1 DEF Shows, Tables, BoardInv, Core, IsTable
    <2>3. [born |-> posts[r.post].born, author |-> posts[r.post].author] \in Shown
      BY <2>2 DEF PostRow, Shown
    <2>4. shown' \in [Channel -> Shown]
      BY <2>1, <2>3
    <2>5. pc' \in [Channel -> {"asleep", "compose", "deliver", "sent", "failed"}]
      BY <1>3 DEF ComposeMessage
    <2> QED BY <1>3, <2>4, <2>5 DEF ComposeMessage, historyVars
  <1>4. CASE ComposeFails(c)
    BY <1>4 DEF ComposeFails, historyVars
  <1>5. NoPost \in Shown
    BY DEF NoPost, Shown
  <1>6. CASE Deliver(c) \/ DeliverUnanswered(c)
    <2>1. PICK r \in Oldest(batch[c]) : HandOver(c, r)
      BY <1>6 DEF Deliver, DeliverUnanswered
    <2>2. r \in SnapshotRow
      BY DEF Oldest
    <2>3. Letter(r) \in [link: Id, to: Person, kanal: Channel, reason: {"reply", "mention"},
                         born: Nat, topicBorn: Nat]
      BY <2>2 DEF Letter, SnapshotRow
    <2>4. repeats' \in [Channel -> Nat]
      BY <2>1 DEF HandOver
    <2>5. shown' \in [Channel -> Shown]
      BY <1>5, <1>6 DEF Deliver, DeliverUnanswered
    <2>6. /\ pc' \in [Channel -> {"asleep", "compose", "deliver", "sent", "failed"}]
          /\ cuts' \in [Channel -> Nat] /\ faults' \in Nat
      BY <1>6 DEF Deliver, DeliverUnanswered
    <2>7. UNCHANGED <<batch, nothing, overtaken, presses>>
      BY <1>6 DEF Deliver, DeliverUnanswered
    <2> QED BY <2>1, <2>3, <2>4, <2>5, <2>6, <2>7 DEF HandOver
  <1>7. CASE DeliverFails(c)
    BY <1>5, <1>7 DEF DeliverFails, historyVars
  <1>8. CASE TickSent(c) \/ TickFailed(c)
    <2>1. PICK r \in Oldest(batch[c]) : Advance(c, r)
      BY <1>8 DEF TickSent, TickFailed
    <2>2. batch' \in [Channel -> SUBSET SnapshotRow]
      BY <2>1 DEF Advance
    <2>3. pc' \in [Channel -> {"asleep", "compose", "deliver", "sent", "failed"}]
      BY <2>1 DEF Advance
    <2> QED BY <1>8, <2>2, <2>3 DEF TickSent, TickFailed, historyVars
  <1>9. CASE TickRefused(c)
    BY <1>9 DEF TickRefused
  <1> QED BY <1>1, <1>2, <1>3, <1>4, <1>6, <1>7, <1>8, <1>9 DEF Loop

LEMMA StepTypes ==
  ASSUME Tables, TypeOK', SenderTypeOK, [Next]_vars
  PROVE  SenderTypeOK'
  <1>1. ASSUME NEW c \in Configured, Loop(c) PROVE SenderTypeOK'
    BY <1>1, LoopTypes, ConfiguredAssumption
  <1>2. ASSUME NEW id \in DOMAIN outbox, ComesDue(id) PROVE SenderTypeOK'
    BY <1>2 DEF ComesDue, SenderTypeOK, loopVars, historyVars
  <1>3. ASSUME NEW who \in Person, NEW s \in Space, WriteStep(who, s) PROVE SenderTypeOK'
    <2>1. DOMAIN outbox' \subseteq Id
      BY DEF TypeOK, IsTable
    <2>2. overtaken' \subseteq Id
      BY <1>3, <2>1 DEF WriteStep
    <2> QED BY <1>3, <2>2 DEF WriteStep, SenderTypeOK, loopVars
  <1>4. ASSUME NEW l \in letters, Unsubscribe(l) PROVE SenderTypeOK'
    BY <1>4 DEF Unsubscribe, SenderTypeOK, loopVars, historyVars
  <1>5. CASE Restart
    <2>1. NoPost \in Shown
      BY DEF NoPost, Shown
    <2> QED BY <1>5, <2>1 DEF Restart, SenderTypeOK
  <1>6. CASE UNCHANGED vars
    BY <1>6 DEF vars, loopVars, historyVars, SenderTypeOK
  <1> QED BY <1>1, <1>2, <1>3, <1>4, <1>5, <1>6 DEF Next

-----------------------------------------------------------------------------
(* What a step that leaves most alone keeps.                               *)

\* Nobody reads anew, no post changes, and no row that stays held is marked.
LEMMA HeldKeep ==
  ASSUME Batched, Aimed, Untouched, NotItsWriter, UNCHANGED <<posts, clock, overtaken>>, SameRows,
         \A c \in Channel : batch'[c] \subseteq batch[c],
         \A c \in Channel : \A r \in batch'[c] : r.id \in DOMAIN outbox \ overtaken =>
           /\ outbox'[r.id].sent = outbox[r.id].sent
           /\ outbox'[r.id].attempts = outbox[r.id].attempts
  PROVE  Batched' /\ Aimed' /\ Untouched' /\ NotItsWriter'
  <1>1. Batched'
    BY DEF Batched, Owes, Matter
  <1>2. Aimed'
    BY DEF Aimed, SameRows
  <1>3. Untouched'
    <2> SUFFICES ASSUME NEW c \in Channel, NEW r \in batch'[c],
                        r.id \in DOMAIN outbox' \ overtaken'
                 PROVE  /\ posts'[outbox'[r.id].post].born = r.born
                        /\ ~outbox'[r.id].sent /\ outbox'[r.id].attempts = r.attempts
      BY DEF Untouched
    <2>1. r \in batch[c] /\ r.id \in DOMAIN outbox \ overtaken
      BY DEF SameRows
    <2> QED BY <2>1 DEF Untouched, SameRows
  <1>4. NotItsWriter'
    BY DEF NotItsWriter, Channel
  <1> QED BY <1>1, <1>2, <1>3, <1>4

\* No letter is written.
LEMMA RowedKeeps ==
  ASSUME Rowed, UNCHANGED <<posts, clock, letters>>, SameRows
  PROVE  Rowed'
  BY DEF Rowed, SameRows

\* What was answered stays answered.
LEMMA AnsweredStays ==
  ASSUME letters \subseteq letters', nothing \subseteq nothing'
  PROVE  \A m : m \in Answered => m \in Answered'
  <1> SUFFICES ASSUME NEW m, m \in Answered PROVE m \in Answered'
    OBVIOUS
  <1>1. CASE m \in nothing
    BY <1>1 DEF Answered
  <1>2. CASE m \notin nothing
    <2>1. PICK l \in letters : m = Matter(l.to, l.born, l.kanal)
      BY <1>2 DEF Answered
    <2> QED BY <2>1 DEF Answered
  <1> QED BY <1>1, <1>2

\* Nobody marks a row sent.
LEMMA SentKeeps ==
  ASSUME SentMeansAnswered, UNCHANGED <<posts, overtaken>>, SameRows,
         \A i \in DOMAIN outbox : outbox'[i].sent => outbox[i].sent,
         letters \subseteq letters', nothing \subseteq nothing'
  PROVE  SentMeansAnswered'
  <1> SUFFICES ASSUME NEW i \in DOMAIN outbox' \ overtaken', outbox'[i].sent
               PROVE  MatterOf(i)' \in Answered'
    BY DEF SentMeansAnswered
  <1>1. i \in DOMAIN outbox \ overtaken /\ outbox[i].sent
    BY DEF SameRows
  <1>2. MatterOf(i)' = MatterOf(i)
    BY <1>1 DEF MatterOf, SameRows
  <1> QED BY <1>1, <1>2, AnsweredStays DEF SentMeansAnswered

\* Nothing more is at risk on channel c when no row of it is added, unmarked or
\* read, no letter of it is written, and it does not give up what it answered.
LEMMA RiskShrinks ==
  ASSUME NEW c \in Channel, UNCHANGED posts, SameRows,
         \A i \in DOMAIN outbox : outbox[i].sent => outbox'[i].sent,
         \A l \in letters' \ letters : l.kanal # c,
         batch'[c] \subseteq batch[c],
         pc[c] = "sent" => pc'[c] = "sent" /\ batch'[c] = batch[c]
  PROVE  AtRisk(c)' \subseteq AtRisk(c)
  <1> SUFFICES ASSUME NEW m \in AtRisk(c)' PROVE m \in AtRisk(c)
    OBVIOUS
  <1>1. m[3] = c /\ Waits(m, c)' /\ ~TickedNext(m, c)' /\ \E l \in letters' : m = About(l)
    BY DEF AtRisk, About
  <1>2. PICK l \in letters' : m = About(l)
    BY <1>1
  <1>3. l \in letters
    BY <1>1, <1>2 DEF About, Matter
  <1>4. Waits(m, c)
    <2>1. CASE \E i \in DOMAIN outbox' : ~outbox'[i].sent /\ MatterOf(i)' = m
      <3>1. PICK i \in DOMAIN outbox' : ~outbox'[i].sent /\ MatterOf(i)' = m
        BY <2>1
      <3>2. i \in DOMAIN outbox /\ ~outbox[i].sent /\ MatterOf(i) = m
        BY <3>1 DEF SameRows, MatterOf
      <3> QED BY <3>2 DEF Waits
    <2>2. CASE \E r \in batch'[c] : Owes(r) = m
      BY <2>2 DEF Waits
    <2> QED BY <1>1, <2>1, <2>2 DEF Waits, Owes
  <1>5. ~TickedNext(m, c)
    BY <1>1 DEF TickedNext, Oldest, Owes
  <1> QED BY <1>1, <1>2, <1>3, <1>4, <1>5 DEF AtRisk

\* The account when nothing more is at risk.
LEMMA WithinKeeps ==
  ASSUME SenderTypeOK, SenderTypeOK', NEW c \in Channel, Within(c), AtRisk(c)' \subseteq AtRisk(c),
         repeats'[c] = repeats[c], cuts[c] <= cuts'[c]
  PROVE  Within(c)'
  <1> DEFINE before == AtRisk(c)
             after == AtRisk(c)'
  <1>1. IsFiniteSet(before) /\ after \subseteq before
    BY DEF Within
  <1>2. repeats[c] \in Nat /\ cuts[c] \in Nat /\ cuts'[c] \in Nat
    BY DEF SenderTypeOK
  <1>3. repeats[c] + Cardinality(before) <= cuts[c]
    BY DEF Within
  <1> HIDE DEF before, after
  <1>4. IsFiniteSet(after) /\ Cardinality(after) <= Cardinality(before)
    BY <1>1, FS_Subset
  <1>5. Cardinality(after) \in Nat /\ Cardinality(before) \in Nat
    BY <1>1, <1>4, FS_CardinalityType
  <1>6. repeats'[c] + Cardinality(after) <= cuts'[c]
    BY <1>2, <1>3, <1>4, <1>5
  <1> QED BY <1>4, <1>6 DEF Within, after

\* The account when a cut puts one thing more at risk.
LEMMA WithinCut ==
  ASSUME SenderTypeOK, SenderTypeOK', NEW c \in Channel, Within(c), NEW m,
         AtRisk(c)' \subseteq AtRisk(c) \cup {m},
         repeats'[c] = repeats[c], cuts'[c] = cuts[c] + 1
  PROVE  Within(c)'
  <1> DEFINE before == AtRisk(c)
             after == AtRisk(c)'
             more == before \cup {m}
  <1>1. IsFiniteSet(before) /\ after \subseteq more
    BY DEF Within
  <1>2. repeats[c] \in Nat /\ cuts[c] \in Nat
    BY DEF SenderTypeOK
  <1>3. repeats[c] + Cardinality(before) <= cuts[c]
    BY DEF Within
  <1>4. IsFiniteSet(more) /\ Cardinality(more) <= Cardinality(before) + 1
    <2> HIDE DEF before
    <2>1. Cardinality(before) \in Nat
      BY <1>1, FS_CardinalityType
    <2>2. /\ IsFiniteSet(before \cup {m})
          /\ Cardinality(before \cup {m})
               = IF m \in before THEN Cardinality(before) ELSE Cardinality(before) + 1
      BY <1>1, FS_AddElement
    <2> QED BY <2>1, <2>2
  <1> HIDE DEF before, after, more
  <1>5. IsFiniteSet(after) /\ Cardinality(after) <= Cardinality(more)
    BY <1>1, <1>4, FS_Subset
  <1>6. Cardinality(after) \in Nat /\ Cardinality(before) \in Nat /\ Cardinality(more) \in Nat
    BY <1>1, <1>4, <1>5, FS_CardinalityType
  <1>7. repeats'[c] + Cardinality(after) <= cuts'[c]
    BY <1>2, <1>3, <1>4, <1>5, <1>6
  <1> QED BY <1>5, <1>7 DEF Within, after

\* The account when a repeat uses up something at risk.
LEMMA WithinRepeat ==
  ASSUME SenderTypeOK, SenderTypeOK', NEW c \in Channel, Within(c), NEW m \in AtRisk(c),
         AtRisk(c)' \subseteq AtRisk(c) \ {m},
         repeats'[c] = repeats[c] + 1, cuts'[c] = cuts[c]
  PROVE  Within(c)'
  <1> DEFINE before == AtRisk(c)
             after == AtRisk(c)'
             less == before \ {m}
  <1>1. IsFiniteSet(before) /\ after \subseteq less /\ m \in before
    BY DEF Within
  <1>2. repeats[c] \in Nat /\ cuts[c] \in Nat
    BY DEF SenderTypeOK
  <1>3. repeats[c] + Cardinality(before) <= cuts[c]
    BY DEF Within
  <1>4. IsFiniteSet(less) /\ Cardinality(less) = Cardinality(before) - 1
    <2> HIDE DEF before
    <2> QED BY <1>1, FS_RemoveElement
  <1> HIDE DEF before, after, less
  <1>5. IsFiniteSet(after) /\ Cardinality(after) <= Cardinality(less)
    BY <1>1, <1>4, FS_Subset
  <1>6. Cardinality(after) \in Nat /\ Cardinality(before) \in Nat
    BY <1>1, <1>5, FS_CardinalityType
  <1>7. repeats'[c] + Cardinality(after) <= cuts'[c]
    BY <1>2, <1>3, <1>4, <1>5, <1>6
  <1> QED BY <1>5, <1>7 DEF Within, after

\* The account when a repeat loses its answer as well: one more on either side.
LEMMA WithinPaid ==
  ASSUME SenderTypeOK, SenderTypeOK', NEW c \in Channel, Within(c), AtRisk(c)' \subseteq AtRisk(c),
         repeats'[c] = repeats[c] + 1, cuts'[c] = cuts[c] + 1
  PROVE  Within(c)'
  <1> DEFINE before == AtRisk(c)
             after == AtRisk(c)'
  <1>1. IsFiniteSet(before) /\ after \subseteq before
    BY DEF Within
  <1>2. repeats[c] \in Nat /\ cuts[c] \in Nat
    BY DEF SenderTypeOK
  <1>3. repeats[c] + Cardinality(before) <= cuts[c]
    BY DEF Within
  <1> HIDE DEF before, after
  <1>4. IsFiniteSet(after) /\ Cardinality(after) <= Cardinality(before)
    BY <1>1, FS_Subset
  <1>5. Cardinality(after) \in Nat /\ Cardinality(before) \in Nat
    BY <1>1, <1>4, FS_CardinalityType
  <1>6. repeats'[c] + Cardinality(after) <= cuts'[c]
    BY <1>2, <1>3, <1>4, <1>5
  <1> QED BY <1>4, <1>6 DEF Within, after

-----------------------------------------------------------------------------
(* The steps of one loop.                                                  *)

\* A step that writes no letter, reads no row and marks none sent.
LEMMA QuietStep ==
  ASSUME SenderInv, UNCHANGED <<posts, clock, overtaken, letters>>, SameRows,
         \A i \in DOMAIN outbox : outbox'[i].sent = outbox[i].sent,
         \A c \in Channel : batch'[c] \subseteq batch[c],
         \A c \in Channel : \A r \in batch'[c] : r.id \in DOMAIN outbox \ overtaken =>
           outbox'[r.id].attempts = outbox[r.id].attempts,
         nothing \subseteq nothing',
         Earned', NoLetterToItsWriter', Counted'
  PROVE  Loops' /\ Promises'
  <1>1. Batched' /\ Aimed' /\ Untouched' /\ NotItsWriter'
    BY HeldKeep DEF SenderInv, Loops
  <1>2. Rowed'
    BY RowedKeeps DEF SenderInv, Loops
  <1>3. SentMeansAnswered'
    BY SentKeeps DEF SenderInv, Promises
  <1> QED BY <1>1, <1>2, <1>3 DEF Loops, Promises

\* What a loop has answered stays answered while it stays where it is.
LEMMA EarnedKeeps ==
  ASSUME SenderInv, NEW d \in Channel, pc'[d] = "sent", pc[d] = "sent", batch'[d] = batch[d],
         letters \subseteq letters', nothing \subseteq nothing'
  PROVE  \A r \in Oldest(batch'[d]) : Owes(r) \in Answered'
  <1> SUFFICES ASSUME NEW r \in Oldest(batch'[d]) PROVE Owes(r) \in Answered'
    OBVIOUS
  <1>1. r \in Oldest(batch[d])
    BY DEF Oldest
  <1> QED BY <1>1, AnsweredStays DEF SenderInv, Loops, Earned

\* drain_channel: `due'.
LEMMA FetchKeeps ==
  ASSUME SenderInv, SenderTypeOK', NEW c \in Channel, Fetch(c), SameRows
  PROVE  Loops' /\ Promises'
  <1> USE DEF SenderInv
  <1> DEFINE mine == {Snapshot(i) : i \in {j \in Due : outbox[j].kanal = c}}
  <1>1. /\ batch' = [batch EXCEPT ![c] = mine]
        /\ UNCHANGED <<topics, posts, outbox, clock, overtaken, letters, nothing, repeats, cuts, shown>>
        /\ \E at : pc' = [pc EXCEPT ![c] = at] /\ at \in {"asleep", "compose"}
        /\ pc[c] = "asleep"
    BY DEF Fetch, boardVars, historyVars
  <1>2. \A r \in mine : \E i \in DOMAIN outbox :
          /\ r = Snapshot(i) /\ outbox[i].kanal = c
          /\ ~outbox[i].sent /\ outbox[i].attempts < MaxAttempts
    BY DEF Due, Pending
  <1>3. ASSUME NEW r \in mine
        PROVE  /\ r.id \in DOMAIN outbox /\ outbox[r.id].post \in DOMAIN posts
               /\ r.subject = outbox[r.id].subject /\ r.post = outbox[r.id].post
               /\ r.kanal = c /\ outbox[r.id].kanal = c
               /\ r.attempts = outbox[r.id].attempts /\ r.attempts < MaxAttempts
               /\ r.born = posts[outbox[r.id].post].born /\ ~outbox[r.id].sent
               /\ r = Snapshot(r.id)
    <2>1. PICK i \in DOMAIN outbox :
            /\ r = Snapshot(i) /\ outbox[i].kanal = c
            /\ ~outbox[i].sent /\ outbox[i].attempts < MaxAttempts
      BY <1>2
    <2>2. outbox[i].post \in DOMAIN posts
      BY DEF Tables, BoardInv, Rooted
    <2> QED BY <2>1, <2>2, SnapshotIs DEF Tables
  <1> HIDE DEF mine
  <1>4. /\ batch'[c] = mine /\ pc'[c] \in {"asleep", "compose"}
        /\ \A d \in Channel \ {c} : batch'[d] = batch[d] /\ pc'[d] = pc[d]
    BY <1>1 DEF SenderTypeOK
  <1>5. Batched'
    <2>1. ASSUME NEW r \in mine PROVE r.kanal = c /\ r.attempts < MaxAttempts /\ r.born < clock
      BY <1>3 DEF Tables, BornApart
    <2>2. ASSUME NEW q \in mine, NEW r \in mine, q.id = r.id \/ Owes(q) = Owes(r) PROVE q = r
      <3>1. CASE q.id = r.id
        BY <1>3, <3>1
      <3>2. CASE Owes(q) = Owes(r)
        <4>1. q.subject = r.subject /\ q.born = r.born
          BY <3>2 DEF Owes, Matter
        <4>2. outbox[q.id].post = outbox[r.id].post
          BY <1>3, <4>1 DEF Tables, BornApart
        <4>3. q.id = r.id
          BY <1>3, <4>1, <4>2 DEF Tables, OwingInv, OwedOnce
        <4> QED BY <1>3, <4>3
      <3> QED BY <2>2, <3>1, <3>2
    <2>3. ASSUME NEW d \in Channel
          PROVE  /\ \A r \in batch'[d] : r.kanal = d /\ r.attempts < MaxAttempts /\ r.born < clock'
                 /\ \A q, r \in batch'[d] : q.id = r.id \/ Owes(q) = Owes(r) => q = r
      BY <1>1, <1>4, <2>1, <2>2 DEF Loops, Batched
    <2> QED BY <2>3 DEF Batched, Owes, Matter
  <1>6. Aimed'
    <2>1. ASSUME NEW r \in mine, NEW p \in DOMAIN posts, posts[p].born = r.born
          PROVE  /\ r.id \in DOMAIN outbox /\ outbox[r.id].post = p
                 /\ outbox[r.id].subject = r.subject /\ outbox[r.id].kanal = c
      BY <1>3, <2>1 DEF Tables, BornApart
    <2> QED BY <1>1, <1>4, <2>1 DEF Loops, Aimed
  <1>7. Untouched'
    <2>1. ASSUME NEW d \in Channel, NEW r \in batch'[d], r.id \in DOMAIN outbox \ overtaken
          PROVE  /\ posts[outbox[r.id].post].born = r.born
                 /\ ~outbox[r.id].sent /\ outbox[r.id].attempts = r.attempts
      BY <1>3, <1>4, <2>1 DEF Loops, Untouched
    <2> QED BY <1>1, <2>1 DEF Untouched
  <1>8. Rowed'
    BY <1>1, RowedKeeps DEF Loops
  <1>9. Earned'
    BY <1>1, <1>4, EarnedKeeps DEF Earned
  <1>10. NotItsWriter'
    <2>1. ASSUME NEW r \in mine, c = "mail", NEW p \in DOMAIN posts, posts[p].born = r.born
          PROVE  posts[p].author # r.subject
      <3>1. p = outbox[r.id].post
        BY <1>3, <2>1 DEF Tables, BornApart
      <3> QED BY <1>3, <2>1, <3>1 DEF Tables, BoardInv, NotAboutOneself
    <2> QED BY <1>1, <1>4, <2>1 DEF Loops, NotItsWriter, Channel
  <1>11. ASSUME NEW d \in Channel PROVE Within(d)'
    <2>1. CASE d = c
      <3>1. ASSUME NEW m \in AtRisk(c)' PROVE m \in AtRisk(c)
        <4>1. m[3] = c /\ Waits(m, c)' /\ \E l \in letters : m = About(l)
          BY <1>1, <3>1 DEF AtRisk, About
        <4>2. Waits(m, c)
          <5>1. CASE \E i \in DOMAIN outbox : ~outbox[i].sent /\ MatterOf(i)' = m
            BY <1>1, <5>1 DEF Waits, MatterOf
          <5>2. CASE \E r \in mine : Owes(r) = m
            <6>1. PICK r \in mine : Owes(r) = m
              BY <5>2
            <6>2. MatterOf(r.id) = m
              BY <1>3, <6>1, SnapshotIs DEF Tables
            <6> QED BY <1>3, <6>1, <6>2 DEF Waits
          <5> QED BY <1>1, <1>4, <4>1, <5>1, <5>2 DEF Waits, Owes
        <4>3. ~TickedNext(m, c)
          BY <1>1 DEF TickedNext
        <4> QED BY <4>1, <4>2, <4>3 DEF AtRisk
      <3>2. cuts[c] <= cuts'[c]
        BY <1>1 DEF SenderTypeOK
      <3> QED BY <1>1, <2>1, <3>1, <3>2, WithinKeeps DEF Loops, Counted
    <2>2. CASE d # c
      <3>1. AtRisk(d)' \subseteq AtRisk(d)
        BY <1>1, <1>4, <2>2, RiskShrinks
      <3>2. cuts[d] <= cuts'[d]
        BY <1>1 DEF SenderTypeOK
      <3> QED BY <1>1, <3>1, <3>2, WithinKeeps DEF Loops, Counted
    <2> QED BY <2>1, <2>2
  <1>12. SentMeansAnswered'
    BY <1>1, SentKeeps DEF Promises
  <1>13. NoLetterToItsWriter'
    BY <1>1, <1>4 DEF Promises, NoLetterToItsWriter, Channel, Oldest
  <1> QED BY <1>5, <1>6, <1>7, <1>8, <1>9, <1>10, <1>11, <1>12, <1>13 DEF Loops, Promises, Counted

\* A channel the step does not reach has no more at risk.
LEMMA OthersWithin ==
  ASSUME SenderInv, SenderTypeOK', NEW d \in Channel, UNCHANGED posts, SameRows,
         \A i \in DOMAIN outbox : outbox[i].sent => outbox'[i].sent,
         \A l \in letters' \ letters : l.kanal # d,
         batch'[d] = batch[d], pc[d] = "sent" => pc'[d] = "sent",
         repeats'[d] = repeats[d], cuts'[d] = cuts[d]
  PROVE  Within(d)'
  <1>1. AtRisk(d)' \subseteq AtRisk(d)
    BY RiskShrinks
  <1>2. cuts[d] <= cuts'[d]
    BY DEF SenderTypeOK
  <1> QED BY <1>1, <1>2, WithinKeeps DEF SenderInv, Loops, Counted

\* compose: nobody to send it to, or the post is gone.
LEMMA ComposeNothingKeeps ==
  ASSUME SenderInv, SenderTypeOK', NEW c \in Channel, ComposeNothing(c), SameRows
  PROVE  Loops' /\ Promises'
  <1> USE DEF SenderInv
  <1>1. PICK r \in Oldest(batch[c]) : nothing' = nothing \cup {Matter(r.subject, r.born, c)}
    BY DEF ComposeNothing
  <1>2. /\ UNCHANGED <<topics, posts, outbox, clock, batch, shown, letters, overtaken, repeats, cuts>>
        /\ pc' = [pc EXCEPT ![c] = "sent"] /\ pc[c] = "compose"
    BY DEF ComposeNothing, boardVars
  <1>3. pc'[c] = "sent" /\ \A d \in Channel \ {c} : pc'[d] = pc[d]
    BY <1>2 DEF SenderTypeOK
  <1>4. Earned'
    <2>1. ASSUME NEW d \in Channel, pc'[d] = "sent", NEW q \in Oldest(batch'[d])
          PROVE  Owes(q) \in Answered'
      <3>1. CASE d = c
        <4>1. q = r /\ r \in batch[c]
          BY <1>1, <1>2, <2>1, <3>1, OldestIsOne DEF Loops
        <4>2. r.kanal = c
          BY <4>1 DEF Loops, Batched
        <4> QED BY <1>1, <4>1, <4>2 DEF Owes, Answered
      <3>2. CASE d # c
        BY <1>1, <1>2, <1>3, <2>1, <3>2, EarnedKeeps
      <3> QED BY <3>1, <3>2
    <2> QED BY <2>1 DEF Earned, Owes, Matter
  <1>5. Counted'
    BY <1>2, <1>3, OthersWithin DEF Counted
  <1>6. NoLetterToItsWriter'
    BY <1>2, <1>3 DEF Promises, NoLetterToItsWriter, Channel, Oldest
  <1>7. nothing \subseteq nothing'
    BY <1>1
  <1> QED BY <1>2, <1>4, <1>5, <1>6, <1>7, QuietStep

\* compose: the message as the post is now.
LEMMA ComposeMessageKeeps ==
  ASSUME SenderInv, SenderTypeOK', NEW c \in Channel, ComposeMessage(c), SameRows
  PROVE  Loops' /\ Promises'
  <1> USE DEF SenderInv
  <1>1. PICK r \in Oldest(batch[c]) :
          /\ Shows(r)
          /\ shown' = [shown EXCEPT ![c] = [born |-> posts[r.post].born,
                                            author |-> posts[r.post].author]]
    BY DEF ComposeMessage
  <1>2. /\ UNCHANGED <<topics, posts, outbox, clock, batch, letters, nothing, overtaken, repeats, cuts>>
        /\ pc' = [pc EXCEPT ![c] = "deliver"] /\ pc[c] = "compose"
    BY DEF ComposeMessage, boardVars, historyVars
  <1>3. /\ pc'[c] = "deliver" /\ \A d \in Channel \ {c} : pc'[d] = pc[d] /\ shown'[d] = shown[d]
        /\ shown'[c].born = posts[r.post].born /\ shown'[c].author = posts[r.post].author
    BY <1>1, <1>2 DEF SenderTypeOK
  <1>4. Earned'
    BY <1>2, <1>3, EarnedKeeps DEF Earned
  <1>5. Counted'
    BY <1>2, <1>3, OthersWithin DEF Counted
  <1>6. NoLetterToItsWriter'
    <2>1. ASSUME c = "mail", NEW q \in Oldest(batch["mail"]), shown'["mail"].born = q.born
          PROVE  shown'["mail"].author # q.subject
      <3>1. q = r /\ r \in batch["mail"]
        BY <1>1, <2>1, OldestIsOne DEF Loops, Channel
      <3>2. r.post \in DOMAIN posts
        BY <1>1 DEF Shows
      <3> QED BY <1>3, <2>1, <3>1, <3>2 DEF Loops, NotItsWriter
    <2> QED BY <1>2, <1>3, <2>1 DEF Promises, NoLetterToItsWriter, Channel, Oldest
  <1> QED BY <1>2, <1>4, <1>5, <1>6, QuietStep

\* compose or the transport fails.
LEMMA FailingKeeps ==
  ASSUME SenderInv, SenderTypeOK', NEW c \in Channel, ComposeFails(c) \/ DeliverFails(c), SameRows
  PROVE  Loops' /\ Promises'
  <1> USE DEF SenderInv
  <1>1. /\ UNCHANGED <<topics, posts, outbox, clock, batch, letters, nothing, overtaken, repeats, cuts>>
        /\ pc' = [pc EXCEPT ![c] = "failed"] /\ pc[c] \in {"compose", "deliver"}
        /\ shown' = shown \/ shown' = [shown EXCEPT ![c] = NoPost]
    BY DEF ComposeFails, DeliverFails, boardVars, historyVars
  <1>2. pc'[c] = "failed" /\ \A d \in Channel \ {c} : pc'[d] = pc[d] /\ shown'[d] = shown[d]
    BY <1>1 DEF SenderTypeOK
  <1>3. Earned'
    BY <1>1, <1>2, EarnedKeeps DEF Earned
  <1>4. Counted'
    BY <1>1, <1>2, OthersWithin DEF Counted
  <1>5. NoLetterToItsWriter'
    BY <1>1, <1>2 DEF Promises, NoLetterToItsWriter, Channel, Oldest
  <1> QED BY <1>1, <1>3, <1>4, <1>5, QuietStep

\* What holds of a message the other side has, whatever the loop hears of it.
LEMMA HandedOver ==
  ASSUME SenderInv, NEW c \in Channel, NEW r \in Oldest(batch[c]), HandOver(c, r),
         UNCHANGED <<posts, outbox, clock, batch, nothing, overtaken>>, SameRows
  PROVE  /\ r \in batch[c] /\ r.kanal = c /\ \A q \in Oldest(batch[c]) : q = r
         /\ letters' = letters \cup {Letter(r)}
         /\ About(Letter(r)) = Owes(r) /\ Letter(r).kanal = c
         /\ Batched' /\ Aimed' /\ Untouched' /\ NotItsWriter' /\ Rowed' /\ SentMeansAnswered'
  <1> USE DEF SenderInv
  <1>1. letters' = letters \cup {Letter(r)}
    BY DEF HandOver
  <1>2. /\ r \in batch[c] /\ r.kanal = c /\ r.born < clock
        /\ \A q \in Oldest(batch[c]) : q = r
    BY OldestIsOne DEF Loops, Batched
  <1>3. /\ About(Letter(r)) = Owes(r) /\ Letter(r).kanal = c
        /\ Letter(r).born = r.born /\ Letter(r).to = r.subject
    BY <1>2 DEF About, Letter, Owes
  <1>4. Batched' /\ Aimed' /\ Untouched' /\ NotItsWriter'
    BY HeldKeep DEF Loops
  <1>5. Rowed'
    <2>1. ASSUME NEW p \in DOMAIN posts, posts[p].born = r.born
          PROVE  \E i \in DOMAIN outbox : /\ outbox[i].post = p
                                          /\ outbox[i].subject = r.subject /\ outbox[i].kanal = c
      BY <1>2, <2>1 DEF Loops, Aimed
    <2>2. ASSUME NEW l \in letters'
          PROVE  /\ l.born < clock
                 /\ \A p \in DOMAIN posts : posts[p].born = l.born =>
                      \E i \in DOMAIN outbox : /\ outbox[i].post = p
                                               /\ outbox[i].subject = l.to /\ outbox[i].kanal = l.kanal
      <3>1. CASE l \in letters
        BY <3>1 DEF Loops, Rowed
      <3>2. CASE l = Letter(r)
        BY <1>2, <1>3, <2>1, <3>2
      <3> QED BY <1>1, <2>2, <3>1, <3>2
    <2> QED BY <2>2 DEF Rowed
  <1>6. letters \subseteq letters'
    BY <1>1
  <1>7. SentMeansAnswered'
    BY <1>6, SentKeeps DEF Promises
  <1> QED BY <1>1, <1>2, <1>3, <1>4, <1>5, <1>7

\* What it puts at risk, and what a copy of it was before.
LEMMA HandedOverRisks ==
  ASSUME SenderInv, NEW c \in Channel, NEW r \in Oldest(batch[c]), HandOver(c, r),
         UNCHANGED <<posts, outbox, clock, batch, nothing, overtaken>>, SameRows,
         pc[c] = "deliver"
  PROVE  /\ AtRisk(c)' \subseteq AtRisk(c) \cup {Owes(r)}
         /\ pc'[c] = "sent" => AtRisk(c)' \subseteq AtRisk(c) \ {Owes(r)}
         /\ Copies(r) # {} => Owes(r) \in AtRisk(c)
  <1>1. /\ r \in batch[c] /\ r.kanal = c /\ letters' = letters \cup {Letter(r)}
        /\ About(Letter(r)) = Owes(r)
    BY HandedOver
  <1>2. ASSUME NEW m \in AtRisk(c)'
        PROVE  (m = Owes(r) /\ pc'[c] # "sent") \/ m \in AtRisk(c) \ {Owes(r)}
    <2>1. m[3] = c /\ Waits(m, c)' /\ ~TickedNext(m, c)' /\ \E l \in letters' : m = About(l)
      BY <1>2 DEF AtRisk, About
    <2>2. CASE m = Owes(r)
      BY <1>1, <2>1, <2>2 DEF TickedNext, Oldest, Owes
    <2>3. CASE m # Owes(r)
      <3>1. \E l \in letters : m = About(l)
        BY <1>1, <2>1, <2>3
      <3>2. Waits(m, c) /\ ~TickedNext(m, c)
        BY <2>1 DEF Waits, MatterOf, Owes, TickedNext
      <3> QED BY <2>1, <2>3, <3>1, <3>2 DEF AtRisk
    <2> QED BY <2>2, <2>3
  <1>3. ASSUME Copies(r) # {} PROVE Owes(r) \in AtRisk(c)
    <2>1. \E l \in letters : About(l) = Owes(r)
      BY <1>3 DEF Copies, About, Owes
    <2>2. Owes(r)[3] = c
      BY <1>1 DEF Owes, Matter
    <2>3. Waits(Owes(r), c)
      BY <1>1 DEF Waits
    <2>4. ~TickedNext(Owes(r), c)
      BY DEF TickedNext
    <2> QED BY <2>1, <2>2, <2>3, <2>4 DEF AtRisk
  <1> QED BY <1>2, <1>3

\* The transport takes the message and says so.
LEMMA DeliverKeeps ==
  ASSUME SenderInv, SenderTypeOK', NEW c \in Channel, Deliver(c), SameRows
  PROVE  Loops' /\ Promises'
  <1> USE DEF SenderInv
  <1>1. PICK r \in Oldest(batch[c]) : HandOver(c, r)
    BY DEF Deliver
  <1>2. /\ UNCHANGED <<topics, posts, outbox, clock, batch, nothing, overtaken, cuts>>
        /\ pc' = [pc EXCEPT ![c] = "sent"] /\ pc[c] = "deliver"
        /\ shown' = [shown EXCEPT ![c] = NoPost]
    BY DEF Deliver, boardVars
  <1>3. pc'[c] = "sent" /\ \A d \in Channel \ {c} : pc'[d] = pc[d] /\ shown'[d] = shown[d]
    BY <1>2 DEF SenderTypeOK
  <1>4. /\ r \in batch[c] /\ r.kanal = c /\ \A q \in Oldest(batch[c]) : q = r
        /\ letters' = letters \cup {Letter(r)}
        /\ About(Letter(r)) = Owes(r) /\ Letter(r).kanal = c
        /\ Batched' /\ Aimed' /\ Untouched' /\ NotItsWriter' /\ Rowed' /\ SentMeansAnswered'
    BY <1>1, <1>2, HandedOver
  <1>5. repeats' = IF Copies(r) = {} THEN repeats ELSE [repeats EXCEPT ![c] = @ + 1]
    BY <1>1 DEF HandOver
  <1>6. Earned'
    <2>1. ASSUME NEW d \in Channel, pc'[d] = "sent", NEW q \in Oldest(batch'[d])
          PROVE  Owes(q) \in Answered'
      <3>1. CASE d = c
        <4>1. q = r
          BY <1>2, <1>4, <2>1, <3>1
        <4> QED BY <1>4, <4>1 DEF Answered, About
      <3>2. CASE d # c
        BY <1>2, <1>3, <1>4, <2>1, <3>2, EarnedKeeps
      <3> QED BY <3>1, <3>2
    <2> QED BY <2>1 DEF Earned, Owes, Matter
  <1>7. ASSUME NEW d \in Channel PROVE Within(d)'
    <2>1. CASE d # c
      <3>1. \A l \in letters' \ letters : l.kanal # d
        BY <1>4, <2>1
      <3>2. repeats'[d] = repeats[d]
        BY <1>5, <2>1 DEF SenderTypeOK
      <3> QED BY <1>2, <1>3, <2>1, <3>1, <3>2, OthersWithin
    <2>2. CASE d = c
      \* What was at risk stays so, but the thing just delivered, which is ticked next.
      <3>1. /\ AtRisk(c)' \subseteq AtRisk(c) \ {Owes(r)}
            /\ Copies(r) # {} => Owes(r) \in AtRisk(c)
        BY <1>1, <1>2, <1>3, HandedOverRisks
      <3>2. CASE Copies(r) = {}
        <4>1. repeats' = repeats /\ cuts[c] <= cuts'[c]
          BY <1>2, <1>5, <3>2 DEF SenderTypeOK
        <4> QED BY <2>2, <3>1, <4>1, WithinKeeps DEF Loops, Counted
      <3>3. CASE Copies(r) # {}
        <4>1. repeats'[c] = repeats[c] + 1 /\ cuts'[c] = cuts[c]
          BY <1>2, <1>5, <3>3 DEF SenderTypeOK
        <4> QED BY <2>2, <3>1, <3>3, <4>1, WithinRepeat DEF Loops, Counted
      <3> QED BY <3>2, <3>3
    <2> QED BY <2>1, <2>2
  <1>8. NoLetterToItsWriter'
    BY <1>2, <1>3 DEF Promises, NoLetterToItsWriter, Channel, Oldest
  <1> QED BY <1>4, <1>6, <1>7, <1>8 DEF Loops, Promises, Counted

\* The transport takes the message and its answer is lost.
LEMMA DeliverUnansweredKeeps ==
  ASSUME SenderInv, SenderTypeOK', NEW c \in Channel, DeliverUnanswered(c), SameRows
  PROVE  Loops' /\ Promises'
  <1> USE DEF SenderInv
  <1>1. PICK r \in Oldest(batch[c]) : HandOver(c, r)
    BY DEF DeliverUnanswered
  <1>2. /\ UNCHANGED <<topics, posts, outbox, clock, batch, nothing, overtaken>>
        /\ pc' = [pc EXCEPT ![c] = "failed"] /\ pc[c] = "deliver"
        /\ shown' = [shown EXCEPT ![c] = NoPost]
        /\ cuts' = [cuts EXCEPT ![c] = @ + 1]
    BY DEF DeliverUnanswered, boardVars
  <1>3. /\ pc'[c] = "failed" /\ cuts'[c] = cuts[c] + 1
        /\ \A d \in Channel \ {c} : /\ pc'[d] = pc[d] /\ shown'[d] = shown[d]
                                    /\ cuts'[d] = cuts[d]
    BY <1>2 DEF SenderTypeOK
  <1>4. /\ r \in batch[c] /\ r.kanal = c /\ \A q \in Oldest(batch[c]) : q = r
        /\ letters' = letters \cup {Letter(r)}
        /\ About(Letter(r)) = Owes(r) /\ Letter(r).kanal = c
        /\ Batched' /\ Aimed' /\ Untouched' /\ NotItsWriter' /\ Rowed' /\ SentMeansAnswered'
    BY <1>1, <1>2, HandedOver
  <1>5. repeats' = IF Copies(r) = {} THEN repeats ELSE [repeats EXCEPT ![c] = @ + 1]
    BY <1>1 DEF HandOver
  <1>6. Earned'
    <2>1. ASSUME NEW d \in Channel, pc'[d] = "sent", NEW q \in Oldest(batch'[d])
          PROVE  Owes(q) \in Answered'
      BY <1>2, <1>3, <1>4, <2>1, EarnedKeeps
    <2> QED BY <2>1 DEF Earned, Owes, Matter
  <1>7. ASSUME NEW d \in Channel PROVE Within(d)'
    <2>1. CASE d # c
      <3>1. \A l \in letters' \ letters : l.kanal # d
        BY <1>4, <2>1
      <3>2. repeats'[d] = repeats[d]
        BY <1>5, <2>1 DEF SenderTypeOK
      <3> QED BY <1>2, <1>3, <2>1, <3>1, <3>2, OthersWithin
    <2>2. CASE d = c
      \* The row will be tried again, and the other side has the message.
      <3>1. /\ AtRisk(c)' \subseteq AtRisk(c) \cup {Owes(r)}
            /\ Copies(r) # {} => Owes(r) \in AtRisk(c)
        BY <1>1, <1>2, HandedOverRisks
      <3>2. CASE Copies(r) = {}
        <4>1. repeats'[c] = repeats[c]
          BY <1>5, <3>2
        <4> QED BY <1>3, <2>2, <3>1, <4>1, WithinCut DEF Loops, Counted
      <3>3. CASE Copies(r) # {}
        <4>1. repeats'[c] = repeats[c] + 1
          BY <1>5, <3>3 DEF SenderTypeOK
        <4>2. AtRisk(c)' \subseteq AtRisk(c)
          BY <3>1, <3>3
        <4> QED BY <1>3, <2>2, <4>1, <4>2, WithinPaid DEF Loops, Counted
      <3> QED BY <3>2, <3>3
    <2> QED BY <2>1, <2>2
  <1>8. NoLetterToItsWriter'
    BY <1>2, <1>3 DEF Promises, NoLetterToItsWriter, Channel, Oldest
  <1> QED BY <1>4, <1>6, <1>7, <1>8 DEF Loops, Promises, Counted

\* outbox.rs: mark_sent.
LEMMA MarkSentIs ==
  ASSUME TypeOK, NEW id, MarkSent(id)
  PROVE  /\ SameRows /\ IsTable(outbox', Id, OwedRow)
         /\ \A i \in DOMAIN outbox : outbox'[i].attempts = outbox[i].attempts
         /\ \A i \in DOMAIN outbox : outbox'[i].sent <=> (outbox[i].sent \/ i = id)
         /\ \A i \in DOMAIN outbox : i # id => outbox'[i] = outbox[i]
  <1> DEFINE ticked(i) == [outbox[i] EXCEPT !.sent = TRUE]
  <1>1. \A i \in DOMAIN outbox : i \in Id /\ outbox[i] \in OwedRow
    BY DEF TypeOK, IsTable
  <1>2. \A i \in DOMAIN outbox :
          /\ ticked(i) \in OwedRow /\ ticked(i).sent
          /\ ticked(i).subject = outbox[i].subject /\ ticked(i).post = outbox[i].post
          /\ ticked(i).kanal = outbox[i].kanal /\ ticked(i).reason = outbox[i].reason
          /\ ticked(i).attempts = outbox[i].attempts
    BY <1>1 DEF OwedRow
  <1>3. outbox' = [i \in DOMAIN outbox |-> IF i = id THEN ticked(i) ELSE outbox[i]]
    BY DEF MarkSent
  <1> HIDE DEF ticked
  <1> QED BY <1>1, <1>2, <1>3 DEF SameRows, IsTable

\* outbox.rs: mark_failed.
LEMMA MarkFailedIs ==
  ASSUME TypeOK, NEW id, NEW attempts \in Nat, MarkFailed(id, attempts)
  PROVE  /\ SameRows /\ IsTable(outbox', Id, OwedRow)
         /\ \A i \in DOMAIN outbox : outbox'[i].sent = outbox[i].sent
         /\ \A i \in DOMAIN outbox : i = id => outbox'[i].attempts = attempts + 1
         /\ \A i \in DOMAIN outbox : i # id => outbox'[i] = outbox[i]
  <1> DEFINE counted(i) == [outbox[i] EXCEPT !.attempts = attempts + 1]
             failed(i) == [counted(i) EXCEPT !.due = FALSE]
  <1>1. \A i \in DOMAIN outbox : i \in Id /\ outbox[i] \in OwedRow
    BY DEF TypeOK, IsTable
  <1>2. \A i \in DOMAIN outbox :
          /\ counted(i) \in OwedRow /\ counted(i).sent = outbox[i].sent
          /\ counted(i).subject = outbox[i].subject /\ counted(i).post = outbox[i].post
          /\ counted(i).kanal = outbox[i].kanal /\ counted(i).reason = outbox[i].reason
          /\ counted(i).attempts = attempts + 1
    BY <1>1 DEF OwedRow
  <1>3. \A i \in DOMAIN outbox :
          failed(i) = [outbox[i] EXCEPT !.attempts = attempts + 1, !.due = FALSE]
    OBVIOUS
  <1> HIDE DEF counted
  <1>4. \A i \in DOMAIN outbox :
          /\ failed(i) \in OwedRow /\ failed(i).sent = outbox[i].sent
          /\ failed(i).subject = outbox[i].subject /\ failed(i).post = outbox[i].post
          /\ failed(i).kanal = outbox[i].kanal /\ failed(i).reason = outbox[i].reason
          /\ failed(i).attempts = attempts + 1
    BY <1>2 DEF OwedRow
  <1>5. outbox' = [i \in DOMAIN outbox |-> IF i = id THEN failed(i) ELSE outbox[i]]
    BY <1>3 DEF MarkFailed
  <1> HIDE DEF failed
  <1> QED BY <1>1, <1>4, <1>5 DEF SameRows, IsTable

\* What a tick leaves in the batch, and that no row still held is the one it marked.
LEMMA AdvanceIs ==
  ASSUME SenderInv, NEW c \in Channel, NEW r \in Oldest(batch[c]), Advance(c, r)
  PROVE  /\ r \in batch[c] /\ batch'[c] = batch[c] \ {r} /\ pc'[c] \in {"asleep", "compose"}
         /\ \A d \in Channel \ {c} : batch'[d] = batch[d] /\ pc'[d] = pc[d]
         /\ \A d \in Channel : batch'[d] \subseteq batch[d]
         /\ r.id \in DOMAIN outbox \ overtaken =>
              /\ outbox[r.id].kanal = c /\ MatterOf(r.id) = Owes(r)
              /\ ~outbox[r.id].sent /\ outbox[r.id].attempts = r.attempts
              /\ r.attempts < MaxAttempts
         /\ \A d \in Channel : \A q \in batch'[d] :
              q.id \in DOMAIN outbox \ overtaken => q.id # r.id
  <1> USE DEF SenderInv
  <1>1. /\ r \in batch[c] /\ batch'[c] = batch[c] \ {r} /\ pc'[c] \in {"asleep", "compose"}
        /\ \A d \in Channel \ {c} : batch'[d] = batch[d] /\ pc'[d] = pc[d]
    BY DEF Advance, Oldest, SenderTypeOK
  <1>2. ASSUME NEW d \in Channel, NEW q \in batch[d], q.id \in DOMAIN outbox \ overtaken
        PROVE  /\ outbox[q.id].kanal = d /\ MatterOf(q.id) = Owes(q) /\ q.kanal = d
               /\ ~outbox[q.id].sent /\ outbox[q.id].attempts = q.attempts
               /\ q.attempts < MaxAttempts
    <2>1. outbox[q.id].post \in DOMAIN posts /\ posts[outbox[q.id].post].born = q.born
      BY <1>2 DEF Loops, Untouched, Tables, BoardInv, Rooted
    <2>2. outbox[q.id].subject = q.subject /\ outbox[q.id].kanal = d /\ q.kanal = d
      BY <1>2, <2>1 DEF Loops, Aimed, Batched
    <2> QED BY <1>2, <2>1, <2>2 DEF Loops, Untouched, Batched, MatterOf, Owes
  <1>3. ASSUME NEW d \in Channel, NEW q \in batch'[d],
               q.id \in DOMAIN outbox \ overtaken, q.id = r.id
        PROVE  FALSE
    <2>1. q \in batch[d]
      BY <1>1, <1>3
    <2>2. d = c
      BY <1>1, <1>2, <1>3, <2>1
    <2> QED BY <1>1, <1>3, <2>1, <2>2 DEF Loops, Batched
  <1> QED BY <1>1, <1>2, <1>3

\* drain_channel: the row is marked sent.
LEMMA TickSentKeeps ==
  ASSUME SenderInv, SenderTypeOK', NEW c \in Channel, TickSent(c)
  PROVE  Loops' /\ Promises'
  <1> USE DEF SenderInv
  <1>1. PICK r \in Oldest(batch[c]) : MarkSent(r.id) /\ Advance(c, r)
    BY DEF TickSent
  <1>2. /\ UNCHANGED <<topics, posts, clock, shown, letters, nothing, overtaken, repeats, cuts>>
        /\ pc[c] = "sent"
    BY DEF TickSent, historyVars
  <1>3. /\ SameRows
        /\ \A i \in DOMAIN outbox : outbox'[i].attempts = outbox[i].attempts
        /\ \A i \in DOMAIN outbox : outbox'[i].sent <=> (outbox[i].sent \/ i = r.id)
        /\ \A i \in DOMAIN outbox : i # r.id => outbox'[i] = outbox[i]
    BY <1>1, MarkSentIs DEF Tables, BoardInv
  <1>4. /\ r \in batch[c] /\ batch'[c] = batch[c] \ {r} /\ pc'[c] \in {"asleep", "compose"}
        /\ \A d \in Channel \ {c} : batch'[d] = batch[d] /\ pc'[d] = pc[d]
        /\ \A d \in Channel : batch'[d] \subseteq batch[d]
        /\ r.id \in DOMAIN outbox \ overtaken => MatterOf(r.id) = Owes(r)
        /\ \A d \in Channel : \A q \in batch'[d] :
             q.id \in DOMAIN outbox \ overtaken => q.id # r.id
    BY <1>1, AdvanceIs
  <1>5. Batched' /\ Aimed' /\ Untouched' /\ NotItsWriter'
    BY <1>2, <1>3, <1>4, HeldKeep DEF Loops
  <1>6. Rowed'
    BY <1>2, <1>3, RowedKeeps DEF Loops
  <1>7. Earned'
    <2>1. ASSUME NEW d \in Channel, pc'[d] = "sent"
          PROVE  \A q \in Oldest(batch'[d]) : Owes(q) \in Answered'
      BY <1>2, <1>4, <2>1, EarnedKeeps
    <2> QED BY <2>1 DEF Earned, Owes, Matter
  <1>8. ASSUME NEW d \in Channel PROVE Within(d)'
    <2>1. CASE d # c
      BY <1>2, <1>3, <1>4, <2>1, OthersWithin
    <2>2. CASE d = c
      <3>1. ASSUME NEW m \in AtRisk(c)' PROVE m \in AtRisk(c)
        <4>1. m[3] = c /\ Waits(m, c)' /\ \E l \in letters : m = About(l)
          BY <1>2, <3>1 DEF AtRisk, About
        \* Neither a row nor a held row is about what was just ticked off.
        <4>2. m # Owes(r)
          <5>1. ASSUME NEW q \in batch'[c], Owes(q) = Owes(r) PROVE FALSE
            BY <1>4, <5>1 DEF Loops, Batched
          <5>2. ASSUME NEW i \in DOMAIN outbox', ~outbox'[i].sent, MatterOf(i)' = Owes(r)
                PROVE  FALSE
            <6>1. /\ i \in DOMAIN outbox /\ i # r.id /\ outbox[i].post \in DOMAIN posts
                  /\ MatterOf(i) = Owes(r)
              BY <1>2, <1>3, <5>2 DEF SameRows, MatterOf, Tables, BoardInv, Rooted
            <6>2. /\ outbox[i].subject = r.subject /\ posts[outbox[i].post].born = r.born
                  /\ outbox[i].kanal = r.kanal /\ r.kanal = c
              BY <1>4, <6>1 DEF MatterOf, Owes, Matter, Loops, Batched
            <6>3. /\ r.id \in DOMAIN outbox /\ outbox[r.id].post = outbox[i].post
                  /\ outbox[r.id].subject = r.subject /\ outbox[r.id].kanal = c
              BY <1>4, <6>1, <6>2 DEF Loops, Aimed
            <6> QED BY <6>1, <6>2, <6>3 DEF Tables, OwingInv, OwedOnce
          <5> QED BY <4>1, <5>1, <5>2 DEF Waits, Owes
        <4>3. Waits(m, c)
          <5>1. CASE \E i \in DOMAIN outbox' : ~outbox'[i].sent /\ MatterOf(i)' = m
            <6>1. PICK i \in DOMAIN outbox' : ~outbox'[i].sent /\ MatterOf(i)' = m
              BY <5>1
            <6>2. i \in DOMAIN outbox /\ ~outbox[i].sent /\ MatterOf(i) = m
              BY <1>2, <1>3, <6>1 DEF SameRows, MatterOf
            <6> QED BY <6>2 DEF Waits
          <5>2. CASE \E q \in batch'[c] : Owes(q) = m
            BY <1>4, <5>2 DEF Waits
          <5> QED BY <4>1, <5>1, <5>2 DEF Waits, Owes
        <4>4. ~TickedNext(m, c)
          BY <1>1, <4>2, OldestIsOne DEF TickedNext, Loops
        <4> QED BY <4>1, <4>3, <4>4 DEF AtRisk
      <3>2. cuts[c] <= cuts'[c]
        BY <1>2 DEF SenderTypeOK
      <3> QED BY <1>2, <2>2, <3>1, <3>2, WithinKeeps DEF Loops, Counted
    <2> QED BY <2>1, <2>2
  <1>9. SentMeansAnswered'
    <2>1. ASSUME NEW i \in DOMAIN outbox \ overtaken, outbox'[i].sent
          PROVE  MatterOf(i) \in Answered
      <3>1. CASE i = r.id
        BY <1>1, <1>2, <1>4, <2>1, <3>1 DEF Loops, Earned
      <3>2. CASE i # r.id
        BY <1>3, <2>1, <3>2 DEF Promises, SentMeansAnswered
      <3> QED BY <3>1, <3>2
    <2>2. \A i \in DOMAIN outbox : MatterOf(i)' = MatterOf(i)
      BY <1>2, <1>3 DEF MatterOf, SameRows
    <2>3. Answered' = Answered
      BY <1>2 DEF Answered
    <2> QED BY <1>2, <1>3, <2>1, <2>2, <2>3 DEF SentMeansAnswered, SameRows
  <1>10. NoLetterToItsWriter'
    BY <1>2, <1>4 DEF Promises, NoLetterToItsWriter, Channel, Oldest
  <1> QED BY <1>5, <1>6, <1>7, <1>8, <1>9, <1>10 DEF Loops, Promises, Counted

\* drain_channel: the row is marked failed.
LEMMA TickFailedKeeps ==
  ASSUME SenderInv, SenderTypeOK', NEW c \in Channel, TickFailed(c)
  PROVE  Loops' /\ Promises'
  <1> USE DEF SenderInv
  <1>1. PICK r \in Oldest(batch[c]) : MarkFailed(r.id, r.attempts) /\ Advance(c, r)
    BY DEF TickFailed
  <1>2. /\ UNCHANGED <<topics, posts, clock, shown, letters, nothing, overtaken, repeats, cuts>>
        /\ pc[c] = "failed"
    BY DEF TickFailed, historyVars
  <1>3. r.attempts \in Nat
    BY DEF SenderTypeOK, Oldest, SnapshotRow
  <1>4. /\ SameRows
        /\ \A i \in DOMAIN outbox : outbox'[i].sent = outbox[i].sent
        /\ \A i \in DOMAIN outbox : i # r.id => outbox'[i] = outbox[i]
    BY <1>1, <1>3, MarkFailedIs DEF Tables, BoardInv
  <1>5. /\ batch'[c] \subseteq batch[c] /\ pc'[c] \in {"asleep", "compose"}
        /\ \A d \in Channel \ {c} : batch'[d] = batch[d] /\ pc'[d] = pc[d]
        /\ \A d \in Channel : batch'[d] \subseteq batch[d]
        /\ \A d \in Channel : \A q \in batch'[d] :
             q.id \in DOMAIN outbox \ overtaken => q.id # r.id
    BY <1>1, AdvanceIs
  <1>6. Earned'
    <2>1. ASSUME NEW d \in Channel, pc'[d] = "sent"
          PROVE  \A q \in Oldest(batch'[d]) : Owes(q) \in Answered'
      BY <1>2, <1>5, <2>1, EarnedKeeps
    <2> QED BY <2>1 DEF Earned, Owes, Matter
  <1>7. ASSUME NEW d \in Channel PROVE Within(d)'
    <2>1. AtRisk(d)' \subseteq AtRisk(d)
      BY <1>2, <1>4, <1>5, RiskShrinks
    <2>2. cuts[d] <= cuts'[d]
      BY <1>2 DEF SenderTypeOK
    <2> QED BY <1>2, <2>1, <2>2, WithinKeeps DEF Loops, Counted
  <1>8. NoLetterToItsWriter'
    BY <1>2, <1>5 DEF Promises, NoLetterToItsWriter, Channel, Oldest
  <1>9. \A d \in Channel : \A q \in batch'[d] : q.id \in DOMAIN outbox \ overtaken =>
          outbox'[q.id].attempts = outbox[q.id].attempts
    BY <1>4, <1>5
  <1> QED BY <1>2, <1>4, <1>5, <1>6, <1>7, <1>8, <1>9, QuietStep DEF Counted

-----------------------------------------------------------------------------
(* Cuts, and what others do.                                               *)

\* The account of a loop that is cut off: at most what it was about to tick off
\* is at risk now.
LEMMA CutWithin ==
  ASSUME SenderInv, SenderTypeOK', NEW d \in Channel, UNCHANGED <<posts, outbox, letters>>,
         batch'[d] = {}, pc'[d] = "asleep",
         repeats'[d] = repeats[d], cuts'[d] = cuts[d] + 1
  PROVE  Within(d)'
  <1> USE DEF SenderInv
  <1>1. ASSUME NEW m \in AtRisk(d)'
        PROVE  /\ m[3] = d /\ Waits(m, d) /\ \E l \in letters : m = About(l)
    <2>1. m[3] = d /\ Waits(m, d)' /\ \E l \in letters : m = About(l)
      BY <1>1 DEF AtRisk, About
    <2> QED BY <2>1 DEF Waits, MatterOf
  <1>2. \E m : AtRisk(d)' \subseteq AtRisk(d) \cup {m}
    <2>1. CASE \E r \in Oldest(batch[d]) : TRUE
      <3>1. PICK r \in Oldest(batch[d]) : TRUE
        BY <2>1
      <3>2. \A m : TickedNext(m, d) => m = Owes(r)
        BY <3>1, OldestIsOne DEF TickedNext, Loops
      <3>3. AtRisk(d)' \subseteq AtRisk(d) \cup {Owes(r)}
        BY <1>1, <3>2 DEF AtRisk
      <3> QED BY <3>3
    <2>2. CASE ~\E r \in Oldest(batch[d]) : TRUE
      <3>1. \A m : ~TickedNext(m, d)
        BY <2>2 DEF TickedNext
      <3>2. AtRisk(d)' \subseteq AtRisk(d)
        BY <1>1, <3>1 DEF AtRisk
      <3> QED BY <3>2
    <2> QED BY <2>1, <2>2
  <1> QED BY <1>2, WithinCut DEF Loops, Counted

\* The mark is refused, or the program stops.
LEMMA CutKeeps ==
  ASSUME SenderInv, SenderTypeOK', SameRows, Restart \/ \E c \in Channel : TickRefused(c)
  PROVE  Loops' /\ Promises'
  <1> USE DEF SenderInv
  <1>1. UNCHANGED <<topics, posts, outbox, clock, letters, nothing, overtaken, repeats>>
    BY DEF Restart, TickRefused, boardVars
  <1>2. ASSUME NEW d \in Channel
        PROVE  \/ /\ batch'[d] = {} /\ pc'[d] = "asleep" /\ cuts'[d] = cuts[d] + 1
               \/ /\ batch'[d] = batch[d] /\ pc'[d] = pc[d] /\ cuts'[d] = cuts[d]
                  /\ shown'[d] = shown[d]
    <2>1. CASE Restart
      BY <2>1 DEF Restart
    <2>2. ASSUME NEW c \in Channel, TickRefused(c)
          PROVE  \/ /\ batch'[d] = {} /\ pc'[d] = "asleep" /\ cuts'[d] = cuts[d] + 1
                 \/ /\ batch'[d] = batch[d] /\ pc'[d] = pc[d] /\ cuts'[d] = cuts[d]
                    /\ shown'[d] = shown[d]
      BY <2>2 DEF TickRefused, SenderTypeOK
    <2> QED BY <2>1, <2>2
  <1>3. Earned'
    <2>1. ASSUME NEW d \in Channel, pc'[d] = "sent"
          PROVE  \A q \in Oldest(batch'[d]) : Owes(q) \in Answered'
      BY <1>1, <1>2, <2>1, EarnedKeeps
    <2> QED BY <2>1 DEF Earned, Owes, Matter
  <1>4. ASSUME NEW d \in Channel PROVE Within(d)'
    <2>1. CASE batch'[d] = {} /\ pc'[d] = "asleep" /\ cuts'[d] = cuts[d] + 1
      BY <1>1, <2>1, CutWithin
    <2>2. CASE batch'[d] = batch[d] /\ pc'[d] = pc[d] /\ cuts'[d] = cuts[d]
      BY <1>1, <2>2, OthersWithin
    <2> QED BY <1>2, <2>1, <2>2
  <1>5. NoLetterToItsWriter'
    BY <1>1, <1>2 DEF Promises, NoLetterToItsWriter, Channel, Oldest
  <1>6. \A d \in Channel : batch'[d] \subseteq batch[d]
    BY <1>2
  <1> QED BY <1>1, <1>3, <1>4, <1>5, <1>6, QuietStep DEF Counted

\* A row's backoff is over.
LEMMA ComesDueIs ==
  ASSUME TypeOK, NEW id \in DOMAIN outbox, ComesDue(id)
  PROVE  /\ SameRows /\ IsTable(outbox', Id, OwedRow)
         /\ \A i \in DOMAIN outbox : outbox'[i].sent = outbox[i].sent
         /\ \A i \in DOMAIN outbox : outbox'[i].attempts = outbox[i].attempts
         /\ \A i \in DOMAIN outbox : i # id => outbox'[i] = outbox[i]
         /\ ~outbox[id].due
  <1> DEFINE ready == [outbox[id] EXCEPT !.due = TRUE]
  <1>1. \A i \in DOMAIN outbox : i \in Id /\ outbox[i] \in OwedRow
    BY DEF TypeOK, IsTable
  <1>2. /\ ready \in OwedRow /\ ready.sent = outbox[id].sent
        /\ ready.subject = outbox[id].subject /\ ready.post = outbox[id].post
        /\ ready.kanal = outbox[id].kanal /\ ready.reason = outbox[id].reason
        /\ ready.attempts = outbox[id].attempts
    BY <1>1 DEF OwedRow
  <1>3. outbox' = [outbox EXCEPT ![id] = ready]
    BY DEF ComesDue
  <1>4. ~outbox[id].due
    BY DEF ComesDue
  <1>5. outbox = [i \in DOMAIN outbox |-> outbox[i]]
    BY DEF TypeOK, IsTable
  <1> HIDE DEF ready
  <1> QED BY <1>1, <1>2, <1>3, <1>4, <1>5 DEF SameRows, IsTable

\* The loops and what they were told stay.
LEMMA BystanderKeeps ==
  ASSUME SenderInv, SenderTypeOK', SameRows, UNCHANGED <<posts, clock, loopVars, historyVars>>,
         \A i \in DOMAIN outbox : outbox'[i].sent = outbox[i].sent,
         \A i \in DOMAIN outbox : outbox'[i].attempts = outbox[i].attempts
  PROVE  Loops' /\ Promises'
  <1> USE DEF SenderInv
  <1>1. /\ UNCHANGED <<pc, batch, shown, letters, nothing, overtaken, repeats, cuts>>
    BY DEF loopVars, historyVars
  <1>2. Earned'
    BY <1>1, EarnedKeeps DEF Earned
  <1>3. Counted'
    BY <1>1, OthersWithin DEF Counted
  <1>4. NoLetterToItsWriter'
    BY <1>1 DEF Promises, NoLetterToItsWriter, Oldest
  <1> QED BY <1>1, <1>2, <1>3, <1>4, QuietStep

\* What a person's transaction writes while the loops work from their lists.
LEMMA WriteStepKeeps ==
  ASSUME SenderInv, Tables', SenderTypeOK', Written,
         NEW who \in Person, NEW s \in Space, WriteStep(who, s)
  PROVE  Loops' /\ Promises'
  <1> USE DEF SenderInv
  <1>1. /\ UNCHANGED <<pc, batch, shown, letters, nothing, repeats, cuts>>
        /\ overtaken' = (overtaken \cap DOMAIN outbox')
                           \cup ((DOMAIN outbox' \ DOMAIN outbox) \cap Held)
    BY DEF WriteStep, loopVars
  <1>2. /\ clock \in Nat /\ clock' \in Nat /\ clock <= clock'
        /\ \A p \in DOMAIN posts' : p \notin DOMAIN posts => posts'[p].born = clock
        /\ \A p \in DOMAIN posts' : p \in DOMAIN posts => posts'[p] = posts[p]
    BY DEF Tables, BoardInv, Core, Written
  <1>3. /\ \A c \in Channel : \A r \in batch[c] : r.born \in Nat /\ r.born < clock
        /\ \A l \in letters : l.born \in Nat /\ l.born < clock
    BY DEF SenderTypeOK, SnapshotRow, Loops, Batched, Rowed
  \* What was written before is not what is written now.
  <1>4. /\ \A c \in Channel : \A r \in batch[c] : \A p \in DOMAIN posts' :
             posts'[p].born = r.born => p \in DOMAIN posts
        /\ \A l \in letters : \A p \in DOMAIN posts' :
             posts'[p].born = l.born => p \in DOMAIN posts
    BY <1>2, <1>3
  <1>5. \A i \in DOMAIN outbox : outbox[i].post \in DOMAIN posts
    BY DEF Tables, BoardInv, Rooted
  <1>6. Batched'
    BY <1>1, <1>2, <1>3 DEF Loops, Batched, Owes, Matter
  <1>7. Aimed'
    <2> SUFFICES ASSUME NEW c \in Channel, NEW r \in batch[c], NEW p \in DOMAIN posts',
                        posts'[p].born = r.born
                 PROVE  /\ r.id \in DOMAIN outbox'
                        /\ outbox'[r.id].post = p /\ outbox'[r.id].subject = r.subject
                        /\ outbox'[r.id].kanal = c
      BY <1>1 DEF Aimed
    <2>1. p \in DOMAIN posts /\ posts[p].born = r.born
      BY <1>2, <1>4
    <2>2. /\ r.id \in DOMAIN outbox /\ outbox[r.id].post = p
          /\ outbox[r.id].subject = r.subject /\ outbox[r.id].kanal = c
      BY <2>1 DEF Loops, Aimed
    <2> QED BY <2>2 DEF Written
  <1>8. Untouched'
    <2> SUFFICES ASSUME NEW c \in Channel, NEW r \in batch[c],
                        r.id \in DOMAIN outbox' \ overtaken'
                 PROVE  /\ posts'[outbox'[r.id].post].born = r.born
                        /\ ~outbox'[r.id].sent /\ outbox'[r.id].attempts = r.attempts
      BY <1>1 DEF Untouched
    <2>1. r.id \in Held
      BY DEF Held
    <2>2. r.id \in DOMAIN outbox \ overtaken
      BY <1>1, <2>1
    <2>3. outbox'[r.id] = outbox[r.id] /\ outbox[r.id].post \in DOMAIN posts'
      BY <2>2 DEF Written
    <2> QED BY <1>2, <1>5, <2>2, <2>3 DEF Loops, Untouched
  <1>9. Rowed'
    <2>1. ASSUME NEW l \in letters, NEW p \in DOMAIN posts', posts'[p].born = l.born
          PROVE  \E i \in DOMAIN outbox' : /\ outbox'[i].post = p
                                           /\ outbox'[i].subject = l.to /\ outbox'[i].kanal = l.kanal
      <3>1. p \in DOMAIN posts /\ posts[p].born = l.born
        BY <1>2, <1>4, <2>1
      <3>2. PICK i \in DOMAIN outbox : /\ outbox[i].post = p
                                       /\ outbox[i].subject = l.to /\ outbox[i].kanal = l.kanal
        BY <3>1 DEF Loops, Rowed
      <3> QED BY <3>2 DEF Written
    <2> QED BY <1>1, <1>2, <1>3, <2>1 DEF Rowed
  <1>10. Earned'
    BY <1>1, EarnedKeeps DEF Earned
  <1>11. NotItsWriter'
    BY <1>1, <1>2, <1>4 DEF Loops, NotItsWriter, Channel
  <1>12. \A i \in DOMAIN outbox' : i \in DOMAIN outbox =>
           outbox'[i] = outbox[i] /\ MatterOf(i)' = MatterOf(i)
    BY <1>2, <1>5 DEF Written, MatterOf
  <1>13. ASSUME NEW c \in Channel PROVE AtRisk(c)' \subseteq AtRisk(c)
    <2> SUFFICES ASSUME NEW m \in AtRisk(c)' PROVE m \in AtRisk(c)
      OBVIOUS
    <2>1. m[3] = c /\ Waits(m, c)' /\ ~TickedNext(m, c)' /\ \E l \in letters : m = About(l)
      BY <1>1 DEF AtRisk, About
    <2>2. PICK l \in letters : m = About(l)
      BY <2>1
    \* No row is added about what a letter was about.
    <2>3. ASSUME NEW i \in DOMAIN outbox', i \notin DOMAIN outbox, MatterOf(i)' = m PROVE FALSE
      <3>1. /\ outbox'[i].subject = l.to /\ outbox'[i].kanal = l.kanal
            /\ posts'[outbox'[i].post].born = l.born
        BY <2>2, <2>3 DEF MatterOf, About, Matter
      <3>2. outbox'[i].post \in DOMAIN posts'
        BY DEF Tables, BoardInv, Rooted
      <3>3. PICK j \in DOMAIN outbox : /\ outbox[j].post = outbox'[i].post
                                       /\ outbox[j].subject = l.to /\ outbox[j].kanal = l.kanal
        BY <1>2, <1>4, <3>1, <3>2 DEF Loops, Rowed
      <3>4. j \in DOMAIN outbox' /\ outbox'[j] = outbox[j]
        BY <3>2, <3>3 DEF Written
      <3>5. OwedOnce'
        BY DEF Tables, OwingInv
      <3> QED BY <2>3, <3>1, <3>3, <3>4, <3>5 DEF OwedOnce
    <2>4. Waits(m, c)
      <3>1. CASE \E i \in DOMAIN outbox' : ~outbox'[i].sent /\ MatterOf(i)' = m
        <4>1. PICK i \in DOMAIN outbox' : ~outbox'[i].sent /\ MatterOf(i)' = m
          BY <3>1
        <4>2. i \in DOMAIN outbox
          BY <2>3, <4>1
        <4> QED BY <1>12, <4>1, <4>2 DEF Waits
      <3>2. CASE \E r \in batch[c] : Owes(r) = m
        BY <3>2 DEF Waits
      <3> QED BY <1>1, <2>1, <3>1, <3>2 DEF Waits, Owes
    <2>5. ~TickedNext(m, c)
      BY <1>1, <2>1 DEF TickedNext, Oldest, Owes
    <2> QED BY <2>1, <2>4, <2>5 DEF AtRisk
  <1>14. Counted'
    <2>1. \A c \in Channel : cuts[c] <= cuts'[c] /\ repeats'[c] = repeats[c]
      BY <1>1 DEF SenderTypeOK
    <2> QED BY <1>13, <2>1, WithinKeeps DEF Loops, Counted
  <1>15. SentMeansAnswered'
    <2> SUFFICES ASSUME NEW i \in DOMAIN outbox' \ overtaken', outbox'[i].sent
                 PROVE  MatterOf(i)' \in Answered'
      BY DEF SentMeansAnswered
    <2>1. i \in DOMAIN outbox \ overtaken
      BY <1>1 DEF Written
    <2>2. Answered' = Answered
      BY <1>1 DEF Answered
    <2> QED BY <1>12, <2>1, <2>2 DEF Promises, SentMeansAnswered
  <1>16. NoLetterToItsWriter'
    BY <1>1 DEF Promises, NoLetterToItsWriter, Oldest
  <1> QED BY <1>6, <1>7, <1>8, <1>9, <1>10, <1>11, <1>14, <1>15, <1>16 DEF Loops, Promises

-----------------------------------------------------------------------------
(* Every step.                                                             *)

LEMMA SenderInitIsFine == Init => SenderInv
  <1> SUFFICES ASSUME Init PROVE SenderInv
    OBVIOUS
  <1> USE DEF Init, SenderInit
  <1>1. BoardInv
    BY InitIsFine
  <1>2. OwingInv
    BY DEF BoardInit, OwingInv, MailTold, EntryMailed, HookIsWriters, OwedOnce
  <1>3. BornApart
    BY DEF BoardInit, BornApart
  <1>4. SenderTypeOK
    <2>1. NoPost \in Shown
      BY DEF NoPost, Shown
    <2> QED BY <1>1, <2>1 DEF SenderTypeOK, BoardInv
  <1>5. Batched /\ Aimed /\ Untouched /\ Rowed /\ Earned /\ NotItsWriter
    BY DEF Batched, Aimed, Untouched, Rowed, Earned, NotItsWriter, Channel
  <1>6. Counted
    <2>1. \A c \in Channel : AtRisk(c) = {}
      BY DEF AtRisk
    <2> QED BY <2>1, FS_EmptySet DEF Counted, Within
  <1>7. SentMeansAnswered /\ NoLetterToItsWriter
    BY DEF BoardInit, SentMeansAnswered, NoLetterToItsWriter, Channel
  <1> QED BY <1>1, <1>2, <1>3, <1>4, <1>5, <1>6, <1>7 DEF SenderInv, Tables, Loops, Promises

LEMMA LoopKeeps ==
  ASSUME SenderInv, NEW c \in Channel, Loop(c)
  PROVE  SenderInv'
  <1>1. TypeOK
    BY DEF SenderInv, Tables, BoardInv
  <1>2. Tables' /\ (UNCHANGED boardVars => SameRows)
    <2>1. CASE UNCHANGED boardVars
      BY <2>1, TablesRest DEF SenderInv
    <2>2. CASE TickSent(c) \/ TickFailed(c)
      <3>1. PICK r \in Oldest(batch[c]) : MarkSent(r.id) \/ MarkFailed(r.id, r.attempts)
        BY <2>2 DEF TickSent, TickFailed
      <3>2. r.attempts \in Nat
        BY DEF SenderInv, SenderTypeOK, Oldest, SnapshotRow
      <3>3. SameRows /\ IsTable(outbox', Id, OwedRow)
        BY <1>1, <3>1, <3>2, MarkSentIs, MarkFailedIs
      <3>4. UNCHANGED <<topics, posts, inbox, likes, clock, follows, optedOut>>
        BY <2>2 DEF TickSent, TickFailed
      <3>5. follows' \subseteq follows /\ optedOut' \subseteq Person
        BY <1>1, <3>4 DEF TypeOK
      <3> QED BY <3>3, <3>4, <3>5, MarkingKeeps DEF SenderInv
    <2>3. UNCHANGED boardVars \/ TickSent(c) \/ TickFailed(c)
      BY DEF Loop, Fetch, ComposeNothing, ComposeMessage, ComposeFails, Deliver, DeliverFails,
             DeliverUnanswered, TickRefused
    <2> QED BY <2>1, <2>2, <2>3
  <1>3. SenderTypeOK'
    BY <1>2, LoopTypes DEF SenderInv, Tables, BoardInv
  <1>4. Loops' /\ Promises'
    <2>1. CASE Fetch(c)
      BY <1>2, <1>3, <2>1, FetchKeeps DEF Fetch
    <2>2. CASE ComposeNothing(c)
      BY <1>2, <1>3, <2>2, ComposeNothingKeeps DEF ComposeNothing
    <2>3. CASE ComposeMessage(c)
      BY <1>2, <1>3, <2>3, ComposeMessageKeeps DEF ComposeMessage
    <2>4. CASE ComposeFails(c) \/ DeliverFails(c)
      BY <1>2, <1>3, <2>4, FailingKeeps DEF ComposeFails, DeliverFails
    <2>5. CASE Deliver(c)
      BY <1>2, <1>3, <2>5, DeliverKeeps DEF Deliver
    <2>6. CASE DeliverUnanswered(c)
      BY <1>2, <1>3, <2>6, DeliverUnansweredKeeps DEF DeliverUnanswered
    <2>7. CASE TickSent(c)
      BY <1>3, <2>7, TickSentKeeps
    <2>8. CASE TickFailed(c)
      BY <1>3, <2>8, TickFailedKeeps
    <2>9. CASE TickRefused(c)
      BY <1>2, <1>3, <2>9, CutKeeps DEF TickRefused
    <2> QED BY <2>1, <2>2, <2>3, <2>4, <2>5, <2>6, <2>7, <2>8, <2>9 DEF Loop
  <1> QED BY <1>2, <1>3, <1>4 DEF SenderInv

\* A pressed link touches follows and the mention switch.
LEMMA UnsubscribeIs ==
  ASSUME TypeOK, NEW l, Unsubscribe(l)
  PROVE  /\ UNCHANGED <<topics, posts, inbox, likes, outbox, clock, loopVars, historyVars>>
         /\ follows' \subseteq follows /\ optedOut' \subseteq Person
  <1>1. outbox[l.link] \in OwedRow
    BY DEF Unsubscribe, TypeOK, IsTable
  <1>2. \/ optedOut' = optedOut \cup {outbox[l.link].subject} /\ follows' = follows
        \/ /\ follows' = follows \ {<<outbox[l.link].subject, posts[outbox[l.link].post].topic>>}
           /\ optedOut' = optedOut
    BY DEF Unsubscribe
  <1> QED BY <1>1, <1>2 DEF Unsubscribe, TypeOK, OwedRow

LEMMA SenderStepKeeps == SenderInv /\ [Next]_vars => SenderInv'
  <1> SUFFICES ASSUME SenderInv, [Next]_vars PROVE SenderInv'
    OBVIOUS
  <1>0. TypeOK
    BY DEF SenderInv, Tables, BoardInv
  <1>1. ASSUME Tables' PROVE SenderTypeOK'
    BY <1>1, StepTypes DEF SenderInv, Tables, BoardInv
  <1>2. ASSUME NEW c \in Configured, Loop(c) PROVE SenderInv'
    BY <1>2, LoopKeeps, ConfiguredAssumption
  <1>3. ASSUME NEW id \in DOMAIN outbox, ComesDue(id) PROVE SenderInv'
    <2>1. /\ SameRows /\ IsTable(outbox', Id, OwedRow)
          /\ \A i \in DOMAIN outbox : outbox'[i].sent = outbox[i].sent
          /\ \A i \in DOMAIN outbox : outbox'[i].attempts = outbox[i].attempts
      BY <1>0, <1>3, ComesDueIs
    <2>2. UNCHANGED <<topics, posts, inbox, likes, clock, follows, optedOut, loopVars, historyVars>>
      BY <1>3 DEF ComesDue
    <2>3. follows' \subseteq follows /\ optedOut' \subseteq Person
      BY <1>0, <2>2 DEF TypeOK
    <2>4. Tables'
      BY <2>1, <2>2, <2>3, MarkingKeeps DEF SenderInv
    <2>5. Loops' /\ Promises'
      BY <1>1, <2>1, <2>2, <2>4, BystanderKeeps
    <2> QED BY <1>1, <2>4, <2>5 DEF SenderInv
  <1>4. ASSUME NEW who \in Person, NEW s \in Space, WriteStep(who, s) PROVE SenderInv'
    <2>1. Tables' /\ Written
      BY <1>4, WritingKeepsTables DEF WriteStep, SenderInv
    <2>2. Loops' /\ Promises'
      BY <1>1, <1>4, <2>1, WriteStepKeeps
    <2> QED BY <1>1, <2>1, <2>2 DEF SenderInv
  <1>5. ASSUME NEW l \in letters, Unsubscribe(l) PROVE SenderInv'
    <2>1. /\ UNCHANGED <<topics, posts, inbox, likes, outbox, clock, loopVars, historyVars>>
          /\ follows' \subseteq follows /\ optedOut' \subseteq Person
      BY <1>0, <1>5, UnsubscribeIs
    <2>2. SameRows /\ IsTable(outbox', Id, OwedRow)
      BY <1>0, <2>1 DEF SameRows, TypeOK
    <2>3. Tables'
      BY <2>1, <2>2, MarkingKeeps DEF SenderInv
    <2>4. Loops' /\ Promises'
      BY <1>1, <2>1, <2>2, <2>3, BystanderKeeps
    <2> QED BY <1>1, <2>3, <2>4 DEF SenderInv
  <1>6. CASE Restart
    <2>1. Tables' /\ SameRows
      BY <1>6, TablesRest DEF Restart, SenderInv
    <2>2. Loops' /\ Promises'
      BY <1>1, <1>6, <2>1, CutKeeps
    <2> QED BY <1>1, <2>1, <2>2 DEF SenderInv
  <1>7. CASE UNCHANGED vars
    <2>1. Tables' /\ SameRows
      BY <1>7, TablesRest DEF vars, SenderInv
    <2>2. Loops' /\ Promises'
      BY <1>1, <1>7, <2>1, BystanderKeeps DEF vars, boardVars
    <2> QED BY <1>1, <2>1, <2>2 DEF SenderInv
  <1> QED BY <1>2, <1>3, <1>4, <1>5, <1>6, <1>7 DEF Next

-----------------------------------------------------------------------------
(* The theorems.                                                           *)

\* The sender and the tables it works on are sound in every reachable state.
THEOREM SenderIsSound == Spec => []SenderInv
  BY SenderInitIsFine, SenderStepKeeps, PTL DEF Spec

\* Every variable of the sender has its type.
THEOREM SenderTypeCorrect == Spec => []SenderTypeOK
  <1>1. SenderInv => SenderTypeOK
    BY DEF SenderInv
  <1> QED BY <1>1, SenderIsSound, PTL

\* A row is ticked off only when what it owes was answered, unless it took a
\* number a loop was holding (notify/mod.rs: drain_channel).
THEOREM TickedIsAnswered == Spec => []SentMeansAnswered
  <1>1. SenderInv => SentMeansAnswered
    BY DEF SenderInv, Promises
  <1> QED BY <1>1, SenderIsSound, PTL

\* A channel repeats a delivery at most once per restart, refused mark or lost answer
\* (0005_outbox.sql; notify/mod.rs: drain_channel, Err of deliver).
THEOREM RepeatsNeedCuts == Spec => []AtMostOneRepeatPerCut
  <1>1. SenderInv => AtMostOneRepeatPerCut
    <2> SUFFICES ASSUME SenderInv, NEW c \in Channel PROVE repeats[c] <= cuts[c]
      BY DEF AtMostOneRepeatPerCut
    <2>1. IsFiniteSet(AtRisk(c)) /\ repeats[c] + Cardinality(AtRisk(c)) <= cuts[c]
      BY DEF SenderInv, Loops, Counted, Within
    <2>2. Cardinality(AtRisk(c)) \in Nat
      BY <2>1, FS_CardinalityType
    <2>3. repeats[c] \in Nat /\ cuts[c] \in Nat
      BY DEF SenderInv, SenderTypeOK
    <2> QED BY <2>1, <2>2, <2>3
  <1> QED BY <1>1, SenderIsSound, PTL

\* No mail shows its addressee their own words, unless the post was replaced
\* under its number (subscriptions.rs, notify/mod.rs: compose).
THEOREM NobodyGetsTheirOwnWords == Spec => []NoLetterToItsWriter
  <1>1. SenderInv => NoLetterToItsWriter
    BY DEF SenderInv, Promises
  <1> QED BY <1>1, SenderIsSound, PTL

\* However the loops mark rows and links are pressed meanwhile, nobody is told about
\* their own post, the bell and the mails agree and nothing is owed twice
\* (topics.rs: add_reply_mentioning; outbox.rs: queue_for_followers, queue_webhook).
THEOREM TheTablesStaySound == Spec => [](NotAboutOneself /\ BellAndMailAgree /\ OwedOnce)
  <1>1. SenderInv => NotAboutOneself /\ BellAndMailAgree /\ OwedOnce
    BY OwingAgrees DEF SenderInv, Tables, BoardInv, OwingInv
  <1> QED BY <1>1, SenderIsSound, PTL

\* What one step does to a row that stays.
LEMMA RowsStayInLane ==
  ASSUME SenderInv, [Next]_vars,
         NEW i \in (DOMAIN outbox \cap DOMAIN outbox') \ overtaken, outbox'[i] # outbox[i]
  PROVE  \/ /\ outbox'[i].attempts = outbox[i].attempts
            /\ ~outbox[i].due
         \/ /\ pc[outbox[i].kanal] = "sent" /\ outbox'[i].sent
            /\ outbox'[i].attempts = outbox[i].attempts
         \/ /\ pc[outbox[i].kanal] = "failed" /\ ~outbox'[i].sent
            /\ outbox'[i].attempts = outbox[i].attempts + 1
            /\ outbox'[i].attempts <= MaxAttempts
  <1> USE DEF SenderInv
  <1>0. TypeOK
    BY DEF Tables, BoardInv
  <1>1. ASSUME NEW c \in Configured, TickSent(c)
        PROVE  /\ pc[outbox[i].kanal] = "sent" /\ outbox'[i].sent
               /\ outbox'[i].attempts = outbox[i].attempts
    <2>1. PICK r \in Oldest(batch[c]) : MarkSent(r.id) /\ Advance(c, r)
      BY <1>1 DEF TickSent
    <2>2. /\ i = r.id /\ outbox'[i].sent /\ outbox'[i].attempts = outbox[i].attempts
      BY <1>0, <2>1, MarkSentIs
    <2>3. outbox[i].kanal = c
      BY <2>1, <2>2, AdvanceIs, ConfiguredAssumption
    <2> QED BY <1>1, <2>2, <2>3 DEF TickSent
  <1>2. ASSUME NEW c \in Configured, TickFailed(c)
        PROVE  /\ pc[outbox[i].kanal] = "failed" /\ ~outbox'[i].sent
               /\ outbox'[i].attempts = outbox[i].attempts + 1
               /\ outbox'[i].attempts <= MaxAttempts
    <2>1. PICK r \in Oldest(batch[c]) : MarkFailed(r.id, r.attempts) /\ Advance(c, r)
      BY <1>2 DEF TickFailed
    <2>2. r.attempts \in Nat
      BY <2>1, ConfiguredAssumption DEF SenderTypeOK, Oldest, SnapshotRow
    <2>3. /\ i = r.id /\ outbox'[i].sent = outbox[i].sent
          /\ outbox'[i].attempts = r.attempts + 1
      BY <1>0, <2>1, <2>2, MarkFailedIs
    <2>4. /\ outbox[i].kanal = c /\ ~outbox[i].sent /\ outbox[i].attempts = r.attempts
          /\ r.attempts < MaxAttempts
      BY <2>1, <2>3, AdvanceIs, ConfiguredAssumption
    <2>5. MaxAttempts \in Nat
      BY SenderAssumption
    <2> QED BY <1>2, <2>2, <2>3, <2>4, <2>5 DEF TickFailed
  <1>3. ASSUME NEW id \in DOMAIN outbox, ComesDue(id)
        PROVE  outbox'[i].attempts = outbox[i].attempts /\ ~outbox[i].due
    BY <1>0, <1>3, ComesDueIs
  <1>4. ASSUME NEW who \in Person, NEW s \in Space, WriteStep(who, s) PROVE FALSE
    BY <1>4, WritingKeepsTables DEF WriteStep, Written
  <1>5. ASSUME NEW c \in Configured, Loop(c), ~TickSent(c), ~TickFailed(c) PROVE FALSE
    BY <1>5 DEF Loop, Fetch, ComposeNothing, ComposeMessage, ComposeFails, Deliver, DeliverFails,
                DeliverUnanswered, TickRefused, boardVars
  <1>6. ASSUME UNCHANGED outbox PROVE FALSE
    BY <1>6
  <1> QED BY <1>1, <1>2, <1>3, <1>4, <1>5, <1>6
          DEF Next, Restart, Unsubscribe, vars, boardVars

\* Neither loop touches a row of the other, and attempts grow by one and never
\* after MaxAttempts (notify/mod.rs: drain_channel; db/outbox.rs).
THEOREM LoopsStayInLane == Spec => MarksStayInLane
  <1>1. SenderInv /\ [Next]_vars =>
          [\A i \in (DOMAIN outbox \cap DOMAIN outbox') \ overtaken : outbox'[i] # outbox[i] =>
             \/ /\ outbox'[i].attempts = outbox[i].attempts
                /\ ~outbox[i].due
             \/ /\ pc[outbox[i].kanal] = "sent" /\ outbox'[i].sent
                /\ outbox'[i].attempts = outbox[i].attempts
             \/ /\ pc[outbox[i].kanal] = "failed" /\ ~outbox'[i].sent
                /\ outbox'[i].attempts = outbox[i].attempts + 1
                /\ outbox'[i].attempts <= MaxAttempts]_vars
    BY RowsStayInLane
  <1> QED BY <1>1, SenderIsSound, PTL DEF MarksStayInLane, Spec

-----------------------------------------------------------------------------
(* The table as a mailing.                                                 *)

\* A post that is still there has a row for what was found to have nothing to send.
NothingRowed ==
  \A m \in nothing :
    /\ m[2] < clock
    /\ \A p \in DOMAIN posts : posts[p].born = m[2] =>
         \E i \in DOMAIN outbox : /\ outbox[i].post = p
                                  /\ outbox[i].subject = m[1] /\ outbox[i].kanal = m[3]

MailingInv == SenderInv /\ NothingRowed /\ overtaken \subseteq DOMAIN outbox

\* What the mailing sees of the tables and the loops.
Alive == {posts[p].born : p \in DOMAIN posts}
Entry(i) == <<MatterOf(i), MarkOf(i)>>
Ledger == {Entry(i) : i \in DOMAIN outbox}
InHand == {Owes(r) : r \in HeldRows}

\* What was answered about a post that is still there has its row.
LEMMA AnsweredRowed ==
  ASSUME SenderInv, NothingRowed, NEW m \in Answered, NEW p \in DOMAIN posts,
         posts[p].born = m[2]
  PROVE  \E i \in DOMAIN outbox : MatterOf(i) = m
  <1>1. \E i \in DOMAIN outbox : /\ outbox[i].post = p
                                 /\ outbox[i].subject = m[1] /\ outbox[i].kanal = m[3]
    <2>1. CASE m \in nothing
      BY <2>1 DEF NothingRowed
    <2>2. CASE m \notin nothing
      <3>1. PICK l \in letters : m = Matter(l.to, l.born, l.kanal)
        BY <2>2 DEF Answered
      <3>2. m[1] = l.to /\ m[2] = l.born /\ m[3] = l.kanal
        BY <3>1 DEF Matter
      <3> QED BY <3>2 DEF SenderInv, Loops, Rowed
    <2> QED BY <2>1, <2>2
  <1>2. m = <<m[1], m[2], m[3]>>
    <2>1. CASE m \in nothing
      BY <2>1 DEF SenderInv, SenderTypeOK
    <2>2. CASE m \notin nothing
      BY <2>2 DEF Answered, Matter
    <2> QED BY <2>1, <2>2
  <1> QED BY <1>1, <1>2 DEF MatterOf, Matter

\* No two rows are about the same matter.
LEMMA MattersDiffer ==
  ASSUME SenderInv, NEW i \in DOMAIN outbox, NEW j \in DOMAIN outbox, MatterOf(i) = MatterOf(j)
  PROVE  i = j
  <1>1. outbox[i].post \in DOMAIN posts /\ outbox[j].post \in DOMAIN posts
    BY DEF SenderInv, Tables, BoardInv, Rooted
  <1>2. /\ outbox[i].subject = outbox[j].subject /\ outbox[i].kanal = outbox[j].kanal
        /\ posts[outbox[i].post].born = posts[outbox[j].post].born
    BY DEF MatterOf, Matter
  <1>3. outbox[i].post = outbox[j].post
    BY <1>1, <1>2 DEF SenderInv, Tables, BornApart
  <1> QED BY <1>2, <1>3 DEF SenderInv, Tables, OwingInv, OwedOnce

\* Where the rows keep their numbers, and what they are about.
LEMMA MattersStay ==
  ASSUME SameRows, UNCHANGED posts, NEW i \in DOMAIN outbox
  PROVE  MatterOf(i)' = MatterOf(i)
  BY DEF SameRows, MatterOf, Matter

\* A mark follows from what is sent and how often it was tried.
LEMMA MarksStay ==
  ASSUME SameRows, UNCHANGED <<posts, overtaken>>, NEW i \in DOMAIN outbox,
         outbox'[i].sent = outbox[i].sent, outbox'[i].attempts = outbox[i].attempts
  PROVE  Entry(i)' = Entry(i)
  BY MattersStay DEF SameRows, Entry, MarkOf, Pending

LEMMA LedgerStays ==
  ASSUME SameRows, UNCHANGED <<posts, overtaken>>,
         \A i \in DOMAIN outbox : /\ outbox'[i].sent = outbox[i].sent
                                  /\ outbox'[i].attempts = outbox[i].attempts
  PROVE  Ledger' = Ledger
  <1>1. \A i \in DOMAIN outbox : Entry(i)' = Entry(i)
    BY MarksStay
  <1> QED BY <1>1 DEF Ledger, SameRows

\* A tick that leaves the rows' marks alone, or marks the one it works on.
LEMMA HandOpens ==
  ASSUME SenderInv, NEW c \in Channel, NEW r \in Oldest(batch[c]), Advance(c, r)
  PROVE  InHand' = InHand \ {Owes(r)} /\ Owes(r) \in InHand
  <1>1. /\ r \in batch[c] /\ batch'[c] = batch[c] \ {r}
        /\ \A d \in Channel \ {c} : batch'[d] = batch[d]
    BY AdvanceIs
  <1>2. ASSUME NEW d \in Channel, NEW q \in batch[d], Owes(q) = Owes(r)
        PROVE  d = c /\ q = r
    <2>1. q.kanal = d /\ r.kanal = c
      BY <1>1 DEF SenderInv, Loops, Batched
    <2>2. d = c
      BY <1>2, <2>1 DEF Owes, Matter
    <2> QED BY <1>1, <1>2, <2>2 DEF SenderInv, Loops, Batched
  <1>3. ASSUME NEW m \in InHand' PROVE m \in InHand /\ m # Owes(r)
    <2>1. PICK d \in Channel : \E q \in batch'[d] : m = Owes(q)
      BY DEF InHand, HeldRows
    <2>2. PICK q \in batch'[d] : m = Owes(q)
      BY <2>1
    <2>3. q \in batch[d] /\ ~(d = c /\ q = r)
      BY <1>1
    <2> QED BY <1>2, <2>2, <2>3 DEF InHand, HeldRows
  <1>4. ASSUME NEW m \in InHand, m # Owes(r) PROVE m \in InHand'
    <2>1. PICK d \in Channel : \E q \in batch[d] : m = Owes(q)
      BY DEF InHand, HeldRows
    <2>2. PICK q \in batch[d] : m = Owes(q)
      BY <2>1
    <2>3. q \in batch'[d]
      BY <1>1, <1>4, <2>2
    <2> QED BY <2>2, <2>3 DEF InHand, HeldRows
  <1>5. Owes(r) \in InHand
    BY <1>1 DEF InHand, HeldRows
  <1> QED BY <1>3, <1>4, <1>5

\* Marking the row of a held matter marks that matter, if it is owed, and no other.
LEMMA MarkingMarks ==
  ASSUME SenderInv, NEW c \in Channel, NEW r \in Oldest(batch[c]), Advance(c, r),
         SameRows, UNCHANGED <<posts, overtaken>>, NEW mark,
         \A i \in DOMAIN outbox : i # r.id => outbox'[i] = outbox[i],
         r.id \in DOMAIN outbox \ overtaken => MarkOf(r.id)' = mark
  PROVE  Ledger' = {IF e = <<Owes(r), "owed">> THEN <<Owes(r), mark>> ELSE e : e \in Ledger}
  <1> DEFINE marked(e) == IF e = <<Owes(r), "owed">> THEN <<Owes(r), mark>> ELSE e
  <1>1. r \in batch[c]
    BY AdvanceIs
  <1>2. ASSUME NEW i \in DOMAIN outbox PROVE Entry(i)' = marked(Entry(i))
    <2>0. MatterOf(i)' = MatterOf(i)
      BY MattersStay
    <2>1. CASE i # r.id
      <3>1. Entry(i)' = Entry(i)
        BY <2>1, MarksStay
      <3>2. MatterOf(i) # Owes(r)
        <4> SUFFICES ASSUME MatterOf(i) = Owes(r) PROVE FALSE
          OBVIOUS
        <4>1. posts[outbox[i].post].born = r.born /\ outbox[i].post \in DOMAIN posts
          BY DEF MatterOf, Owes, Matter, SenderInv, Tables, BoardInv, Rooted
        <4>2. /\ r.id \in DOMAIN outbox /\ outbox[r.id].post = outbox[i].post
              /\ outbox[r.id].subject = r.subject /\ outbox[r.id].kanal = c /\ r.kanal = c
          BY <1>1, <4>1 DEF SenderInv, Loops, Aimed, Batched
        <4>3. MatterOf(r.id) = MatterOf(i)
          BY <4>1, <4>2 DEF MatterOf, Owes
        <4> QED BY <2>1, <4>2, <4>3, MattersDiffer
      <3> QED BY <3>1, <3>2 DEF Entry
    <2>2. CASE i = r.id /\ i \in overtaken
      <3>1. MarkOf(i) = "astray" /\ MarkOf(i)' = "astray"
        BY <2>2 DEF MarkOf
      <3> QED BY <2>0, <3>1 DEF Entry
    <2>3. CASE i = r.id /\ i \notin overtaken
      <3>1. /\ MatterOf(i) = Owes(r) /\ ~outbox[i].sent
            /\ outbox[i].attempts = r.attempts /\ r.attempts < MaxAttempts
        BY <2>3, AdvanceIs
      <3>2. MarkOf(i) = "owed"
        BY <2>3, <3>1 DEF MarkOf, Pending
      <3>3. MarkOf(i)' = mark
        BY <2>3
      <3> QED BY <2>0, <3>1, <3>2, <3>3 DEF Entry
    <2> QED BY <2>1, <2>2, <2>3
  <1>3. DOMAIN outbox' = DOMAIN outbox
    BY DEF SameRows
  <1> HIDE DEF marked
  <1>4. Ledger' = {marked(e) : e \in Ledger}
    BY <1>2, <1>3 DEF Ledger
  <1> QED BY <1>4 DEF marked

\* What is asked for waits.
LEMMA FetchTakes ==
  ASSUME SenderInv, NEW c \in Channel, Fetch(c)
  PROVE  \A m \in InHand' \ InHand : \E i \in DOMAIN outbox :
           MatterOf(i) = m /\ MarkOf(i) \in {"owed", "astray"}
  <1> SUFFICES ASSUME NEW m \in InHand', m \notin InHand
               PROVE  \E i \in DOMAIN outbox :
                        MatterOf(i) = m /\ MarkOf(i) \in {"owed", "astray"}
    OBVIOUS
  <1>1. PICK d \in Channel : \E q \in batch'[d] : m = Owes(q)
    BY DEF InHand, HeldRows
  <1>2. PICK q \in batch'[d] : m = Owes(q)
    BY <1>1
  <1>3. q \notin batch[d]
    BY <1>2 DEF InHand, HeldRows
  <1>4. d = c /\ \E i \in Due : q = Snapshot(i)
    BY <1>2, <1>3 DEF Fetch, SenderInv, SenderTypeOK
  <1>5. PICK i \in Due : q = Snapshot(i)
    BY <1>4
  <1>6. i \in DOMAIN outbox /\ Pending(i)
    BY DEF Due
  <1>7. MatterOf(i) = m
    BY <1>2, <1>5, <1>6, SnapshotIs DEF SenderInv, Tables
  <1>8. MarkOf(i) \in {"owed", "astray"}
    BY <1>6 DEF MarkOf, Pending
  <1> QED BY <1>6, <1>7, <1>8

\* A row that a write leaves is what it was.
LEMMA WritesLeave ==
  ASSUME MailingInv, Written, NEW i \in DOMAIN outbox, i \in DOMAIN outbox',
         i \in overtaken <=> i \in overtaken'
  PROVE  Entry(i)' = Entry(i)
  <1>1. outbox'[i] = outbox[i] /\ outbox[i].post \in DOMAIN posts
    BY DEF Written, MailingInv, SenderInv, Tables, BoardInv, Rooted
  <1>2. posts'[outbox[i].post] = posts[outbox[i].post]
    BY <1>1 DEF Written
  <1> QED BY <1>1, <1>2 DEF Entry, MatterOf, MarkOf, Pending

\* A write that adds.
LEMMA AddingOwes ==
  ASSUME MailingInv, Tables', Written, AddsOne, UNCHANGED <<loopVars, letters, nothing>>,
         overtaken' = (overtaken \cap DOMAIN outbox')
                        \cup ((DOMAIN outbox' \ DOMAIN outbox) \cap Held)
  PROVE  \E born \in Alive \cup {clock} :
           /\ clock' = IF born = clock THEN clock + 1 ELSE clock
           /\ Alive' = Alive \cup {born}
           /\ Ledger \subseteq Ledger'
           /\ \A e \in Ledger' \ Ledger :
                /\ e[1][2] = born
                /\ \A i \in DOMAIN outbox : MatterOf(i) # e[1]
                /\ e[1] \notin Answered
                /\ e[2] \in {"owed", "astray"}
                /\ e[2] = "astray" => \E m \in InHand : m[2] \notin Alive
  <1> USE DEF MailingInv
  <1>1. PICK p \in DOMAIN posts' :
          /\ DOMAIN posts' = DOMAIN posts \cup {p}
          /\ clock' = IF p \in DOMAIN posts THEN clock ELSE clock + 1
          /\ \A i \in DOMAIN outbox' \ DOMAIN outbox : outbox'[i].post = p
    BY DEF AddsOne
  <1> DEFINE born == posts'[p].born
  <1>2. /\ \A q \in DOMAIN posts : posts'[q] = posts[q] /\ posts[q].born < clock
        /\ clock \in Nat
        /\ \A q \in DOMAIN posts : posts[q].born \in Nat
    BY <1>1 DEF Written, SenderInv, Tables, BornApart, BoardInv, Core, IsTable, PostRow
  <1>3. IF p \in DOMAIN posts THEN born = posts[p].born /\ born # clock ELSE born = clock
    BY <1>1, <1>2 DEF Written
  <1>4. clock' = IF born = clock THEN clock + 1 ELSE clock
    BY <1>1, <1>3
  <1>5. Alive' = Alive \cup {born}
    BY <1>1, <1>2 DEF Alive
  <1>6. born \in Alive \cup {clock}
    BY <1>3 DEF Alive
  <1>7. \A i \in DOMAIN outbox : i \in DOMAIN outbox' /\ (i \in overtaken <=> i \in overtaken')
    BY <1>1 DEF Written, SenderInv, Tables, BoardInv, Rooted
  <1>8. \A i \in DOMAIN outbox : Entry(i)' = Entry(i)
    BY <1>7, WritesLeave
  <1>9. Ledger \subseteq Ledger'
    BY <1>7, <1>8 DEF Ledger
  <1>10. ASSUME NEW e \in Ledger', e \notin Ledger
         PROVE  /\ e[1][2] = born
                /\ \A i \in DOMAIN outbox : MatterOf(i) # e[1]
                /\ e[1] \notin Answered
                /\ e[2] \in {"owed", "astray"}
                /\ e[2] = "astray" => \E m \in InHand : m[2] \notin Alive
    <2>1. PICK i \in DOMAIN outbox' : e = Entry(i)'
      BY DEF Ledger
    <2>2. i \notin DOMAIN outbox
      BY <1>8, <1>10, <2>1 DEF Ledger
    <2>3. /\ outbox'[i].post = p /\ ~outbox'[i].sent
          /\ e[1] = <<outbox'[i].subject, born, outbox'[i].kanal>>
          /\ e[2] = MarkOf(i)'
      BY <1>1, <2>1, <2>2 DEF Written, Entry, MatterOf, Matter
    <2>4. ASSUME NEW j \in DOMAIN outbox, MatterOf(j) = e[1] PROVE FALSE
      <3>1. /\ outbox[j].post \in DOMAIN posts /\ posts[outbox[j].post].born = born
            /\ outbox[j].subject = outbox'[i].subject /\ outbox[j].kanal = outbox'[i].kanal
        BY <2>3, <2>4 DEF MatterOf, Matter, SenderInv, Tables, BoardInv, Rooted
      <3>2. p \in DOMAIN posts /\ outbox[j].post = p
        BY <1>2, <1>3, <3>1 DEF SenderInv, Tables, BornApart
      <3>3. j \in DOMAIN outbox' /\ outbox'[j] = outbox[j]
        BY <1>7 DEF Written
      <3>4. i = j
        BY <2>3, <3>1, <3>2, <3>3 DEF Tables, OwingInv, OwedOnce
      <3> QED BY <2>2, <3>4
    <2>5. e[1] \notin Answered
      <3> SUFFICES ASSUME e[1] \in Answered PROVE FALSE
        OBVIOUS
      <3>1. e[1][2] = born
        BY <2>3
      <3>2. CASE p \in DOMAIN posts
        BY <1>3, <2>4, <3>1, <3>2, AnsweredRowed
      <3>3. CASE p \notin DOMAIN posts
        <4>1. born = clock
          BY <1>3, <3>3
        <4>2. CASE e[1] \in nothing
          BY <1>2, <3>1, <4>1, <4>2 DEF NothingRowed
        <4>3. CASE e[1] \notin nothing
          <5>1. PICK l \in letters : e[1] = Matter(l.to, l.born, l.kanal)
            BY <4>3 DEF Answered
          <5>2. l.born = clock /\ l.born < clock
            BY <3>1, <4>1, <5>1 DEF Matter, SenderInv, Loops, Rowed
          <5> QED BY <1>2, <5>2
        <4> QED BY <4>2, <4>3
      <3> QED BY <3>2, <3>3
    <2>6. outbox'[i].attempts = 0 /\ 0 < MaxAttempts
      BY <2>2, SenderAssumption DEF Written
    <2>7. e[2] \in {"owed", "astray"}
      BY <2>3, <2>6 DEF MarkOf, Pending
    <2>8. ASSUME e[2] = "astray" PROVE \E m \in InHand : m[2] \notin Alive
      <3>1. i \in overtaken'
        BY <2>3, <2>8 DEF MarkOf
      <3>2. i \in Held
        BY <2>2, <3>1
      <3>3. PICK c \in Channel : \E r \in batch[c] : r.id = i
        BY <3>2 DEF Held
      <3>4. PICK r \in batch[c] : r.id = i
        BY <3>3
      <3>5. \A q \in DOMAIN posts : posts[q].born # r.born
        BY <2>2, <3>4 DEF SenderInv, Loops, Aimed
      <3>6. Owes(r) \in InHand /\ Owes(r)[2] = r.born
        BY DEF InHand, HeldRows, Owes, Matter
      <3> QED BY <3>5, <3>6 DEF Alive
    <2> QED BY <2>3, <2>4, <2>5, <2>7, <2>8
  <1> QED BY <1>4, <1>5, <1>6, <1>9, <1>10

\* A write that deletes.
LEMMA DeletingWithdraws ==
  ASSUME MailingInv, Written, Withdraws, overtaken' \cap DOMAIN outbox' = overtaken \cap DOMAIN outbox'
  PROVE  /\ clock' = clock /\ Alive' \subseteq Alive
         /\ Ledger' = {e \in Ledger : e[1][2] \in Alive'}
  <1> USE DEF MailingInv
  <1>1. /\ DOMAIN posts' \subseteq DOMAIN posts /\ \A p \in DOMAIN posts' : posts'[p] = posts[p]
        /\ DOMAIN outbox' \subseteq DOMAIN outbox
        /\ \A i \in DOMAIN outbox : outbox[i].post \in DOMAIN posts' <=> i \in DOMAIN outbox'
    BY DEF Written, Withdraws
  <1>2. Alive' \subseteq Alive
    BY <1>1 DEF Alive
  <1>3. \A i \in DOMAIN outbox' : Entry(i)' = Entry(i)
    BY <1>1, WritesLeave
  <1>4. ASSUME NEW i \in DOMAIN outbox
        PROVE  Entry(i)[1][2] \in Alive' <=> i \in DOMAIN outbox'
    <2>1. /\ outbox[i].post \in DOMAIN posts
          /\ Entry(i)[1][2] = posts[outbox[i].post].born
      BY DEF SenderInv, Tables, BoardInv, Rooted, Entry, MatterOf, Matter
    <2>2. posts[outbox[i].post].born \in Alive' => outbox[i].post \in DOMAIN posts'
      BY <1>1, <2>1 DEF Alive, SenderInv, Tables, BornApart
    <2>3. outbox[i].post \in DOMAIN posts' => posts[outbox[i].post].born \in Alive'
      BY <1>1 DEF Alive
    <2> QED BY <1>1, <2>1, <2>2, <2>3
  <1>5. Ledger' = {e \in Ledger : e[1][2] \in Alive'}
    <2>1. ASSUME NEW e \in Ledger' PROVE e \in Ledger /\ e[1][2] \in Alive'
      BY <1>1, <1>3, <1>4 DEF Ledger
    <2>2. ASSUME NEW e \in Ledger, e[1][2] \in Alive' PROVE e \in Ledger'
      BY <1>3, <1>4, <2>2 DEF Ledger
    <2> QED BY <2>1, <2>2
  <1> QED BY <1>2, <1>5 DEF Withdraws

LEMMA MailingKeeps == MailingInv /\ [Next]_vars => MailingInv'
  <1> SUFFICES ASSUME MailingInv, [Next]_vars PROVE MailingInv'
    OBVIOUS
  <1> USE DEF MailingInv
  <1>1. SenderInv'
    BY SenderStepKeeps
  <1>2. TypeOK
    BY DEF SenderInv, Tables, BoardInv
  <1>3. ASSUME SameRows, UNCHANGED <<posts, clock, nothing, overtaken>> PROVE MailingInv'
    <2>1. NothingRowed'
      BY <1>3 DEF NothingRowed, SameRows
    <2> QED BY <1>1, <1>3, <2>1 DEF SameRows
  <1>4. ASSUME NEW c \in Configured, Loop(c) PROVE MailingInv'
    <2>1. CASE ComposeNothing(c)
      <3>1. /\ UNCHANGED <<posts, clock, outbox, overtaken>>
            /\ \E r \in Oldest(batch[c]) : nothing' = nothing \cup {Matter(r.subject, r.born, c)}
        BY <2>1 DEF ComposeNothing, boardVars
      <3>2. PICK r \in batch[c] : nothing' = nothing \cup {Matter(r.subject, r.born, c)}
        BY <3>1 DEF Oldest
      <3>3. c \in Channel
        BY ConfiguredAssumption
      <3>4. /\ r.born < clock
            /\ \A p \in DOMAIN posts : posts[p].born = r.born =>
                 /\ r.id \in DOMAIN outbox
                 /\ outbox[r.id].post = p
                 /\ outbox[r.id].subject = r.subject /\ outbox[r.id].kanal = c
        BY <3>3 DEF SenderInv, Loops, Batched, Aimed
      <3> DEFINE m == Matter(r.subject, r.born, c)
      <3>5. m[1] = r.subject /\ m[2] = r.born /\ m[3] = c
        BY DEF Matter
      <3> HIDE DEF m
      <3>6. NothingRowed'
        BY <3>1, <3>2, <3>4, <3>5 DEF NothingRowed, m
      <3> QED BY <1>1, <3>1, <3>6
    <2>2. CASE TickSent(c) \/ TickFailed(c)
      <3>1. PICK r \in Oldest(batch[c]) : MarkSent(r.id) \/ MarkFailed(r.id, r.attempts)
        BY <2>2 DEF TickSent, TickFailed
      <3>2. r.attempts \in Nat
        BY ConfiguredAssumption DEF SenderInv, SenderTypeOK, Oldest, SnapshotRow
      <3>3. SameRows
        BY <1>2, <3>1, <3>2, MarkSentIs, MarkFailedIs
      <3> QED BY <1>3, <2>2, <3>3 DEF TickSent, TickFailed, historyVars
    <2>3. CASE ~ComposeNothing(c) /\ ~TickSent(c) /\ ~TickFailed(c)
      <3>1. UNCHANGED <<boardVars, nothing, overtaken>>
        BY <1>4, <2>3 DEF Loop, Fetch, ComposeMessage, ComposeFails, Deliver, DeliverFails,
                          DeliverUnanswered, TickRefused, historyVars
      <3> QED BY <1>3, <3>1 DEF SameRows, boardVars
    <2> QED BY <2>1, <2>2, <2>3
  <1>5. ASSUME NEW id \in DOMAIN outbox, ComesDue(id) PROVE MailingInv'
    BY <1>2, <1>3, <1>5, ComesDueIs DEF ComesDue, historyVars
  <1>6. ASSUME NEW who \in Person, NEW s \in Space, WriteStep(who, s) PROVE MailingInv'
    <2>1. Written
      BY <1>6, WritingKeepsTables DEF WriteStep, SenderInv
    <2>2. overtaken' \subseteq DOMAIN outbox' /\ nothing' = nothing
      BY <1>6 DEF WriteStep
    <2>3. clock \in Nat /\ \A m \in nothing : m[2] \in Nat
      BY DEF SenderInv, SenderTypeOK, TypeOK, Tables, BoardInv, Core
    <2>4. ASSUME NEW m \in nothing PROVE m[2] < clock'
      BY <2>1, <2>3 DEF NothingRowed, Written
    <2>5. ASSUME NEW m \in nothing, NEW p \in DOMAIN posts', posts'[p].born = m[2]
          PROVE  \E i \in DOMAIN outbox' : /\ outbox'[i].post = p
                                           /\ outbox'[i].subject = m[1] /\ outbox'[i].kanal = m[3]
      <3>1. m[2] < clock
        BY DEF NothingRowed
      <3>2. p \in DOMAIN posts /\ posts'[p] = posts[p]
        BY <2>1, <2>3, <2>5, <3>1 DEF Written
      <3>3. PICK i \in DOMAIN outbox : /\ outbox[i].post = p
                                       /\ outbox[i].subject = m[1] /\ outbox[i].kanal = m[3]
        BY <2>5, <3>2 DEF NothingRowed
      <3>4. i \in DOMAIN outbox' /\ outbox'[i] = outbox[i]
        BY <2>1, <3>3 DEF Written
      <3> QED BY <3>3, <3>4
    <2>6. NothingRowed'
      BY <2>2, <2>4, <2>5 DEF NothingRowed
    <2> QED BY <1>1, <2>2, <2>6
  <1>7. ASSUME NEW l \in letters, Unsubscribe(l) PROVE MailingInv'
    BY <1>2, <1>3, <1>7, UnsubscribeIs DEF SameRows, historyVars
  <1>8. CASE Restart
    BY <1>3, <1>8 DEF Restart, SameRows, boardVars
  <1>9. CASE UNCHANGED vars
    BY <1>3, <1>9 DEF vars, SameRows, boardVars, historyVars
  <1> QED BY <1>4, <1>5, <1>6, <1>7, <1>8, <1>9 DEF Next

\* The actions of module Mailing, of the tables and the loops.
LEMMA HoldIs ==
  ASSUME UNCHANGED <<clock, Alive, Ledger, Answered>>,
         \A m \in InHand' \ InHand : \E i \in DOMAIN outbox :
           MatterOf(i) = m /\ MarkOf(i) \in {"owed", "astray"}
  PROVE  Mail!MailNext
  <1>1. InHand' \ InHand \subseteq
          {e[1] : e \in {f \in Ledger : f[2] \in {"owed", "astray"}}}
    <2> SUFFICES ASSUME NEW m \in InHand' \ InHand
                 PROVE  \E e \in Ledger : e[2] \in {"owed", "astray"} /\ m = e[1]
      OBVIOUS
    <2>1. PICK i \in DOMAIN outbox : MatterOf(i) = m /\ MarkOf(i) \in {"owed", "astray"}
      OBVIOUS
    <2>2. Entry(i) \in Ledger /\ Entry(i)[1] = m /\ Entry(i)[2] \in {"owed", "astray"}
      BY <2>1 DEF Ledger, Entry
    <2> QED BY <2>2
  <1>2. Mail!Hold
    BY <1>1 DEF Mail!Hold, Mail!Waiting, InHand, Ledger, Entry, Owes
  <1> QED BY <1>2 DEF Mail!MailNext, Alive, Ledger, Entry

LEMMA AnswerIs ==
  ASSUME UNCHANGED <<clock, Alive, Ledger, InHand>>,
         NEW m \in InHand, Answered' = Answered \cup {m}
  PROVE  Mail!MailNext
  <1>1. Mail!Answer
    BY DEF Mail!Answer, InHand, Owes
  <1> QED BY <1>1 DEF Mail!MailNext, Alive, Ledger, Entry

LEMMA MarkIs ==
  ASSUME UNCHANGED <<clock, Alive, Answered>>, NEW m \in InHand, NEW mark,
         InHand' = InHand \ {m},
         Ledger' = {IF e = <<m, "owed">> THEN <<m, mark>> ELSE e : e \in Ledger},
         mark = "hopeless" \/ (mark = "settled" /\ m \in Answered)
  PROVE  Mail!MailNext
  <1>1. Mail!Mark(m, mark)
    BY DEF Mail!Mark, Alive, Ledger, Entry, InHand, Owes
  <1> QED BY <1>1 DEF Mail!MailNext, InHand, Owes

LEMMA WithdrawIs ==
  ASSUME UNCHANGED <<clock, InHand, Answered>>, Alive' \subseteq Alive,
         Ledger' = {e \in Ledger : e[1][2] \in Alive'}
  PROVE  Mail!MailNext
  <1>1. Mail!Withdraw
    BY DEF Mail!Withdraw, Alive, Ledger, Entry, InHand, Owes
  <1> QED BY <1>1 DEF Mail!MailNext

LEMMA OweIs ==
  ASSUME UNCHANGED <<InHand, Answered>>, NEW born \in Alive \cup {clock},
         clock' = IF born = clock THEN clock + 1 ELSE clock,
         Alive' = Alive \cup {born}, Ledger \subseteq Ledger',
         \A e \in Ledger' \ Ledger :
           /\ e[1][2] = born
           /\ \A i \in DOMAIN outbox : MatterOf(i) # e[1]
           /\ e[1] \notin Answered
           /\ e[2] \in {"owed", "astray"}
           /\ e[2] = "astray" => \E m \in InHand : m[2] \notin Alive
  PROVE  Mail!MailNext
  <1>1. ASSUME NEW e \in Ledger' \ Ledger PROVE e[1] \notin {f[1] : f \in Ledger} \cup Answered
    <2>1. ASSUME NEW f \in Ledger, e[1] = f[1] PROVE FALSE
      BY <2>1 DEF Ledger, Entry
    <2> QED BY <2>1
  <1>2. Mail!Owe(born)
    BY <1>1 DEF Mail!Owe, Mail!Entered, Alive, Ledger, Entry, InHand, Owes
  <1> QED BY <1>2 DEF Mail!MailNext, Alive

\* Handing over, and finding nothing to hand over, answers the matter of the row.
LEMMA DeliverAnswers ==
  ASSUME MailingInv, NEW c \in Channel, ComposeNothing(c) \/ Deliver(c) \/ DeliverUnanswered(c)
  PROVE  \E m \in InHand : Answered' = Answered \cup {m}
  <1>1. CASE ComposeNothing(c)
    <2>1. PICK r \in batch[c] : nothing' = nothing \cup {Matter(r.subject, r.born, c)}
      BY <1>1 DEF ComposeNothing, Oldest
    <2>2. r.kanal = c
      BY DEF MailingInv, SenderInv, Loops, Batched
    <2>3. letters' = letters
      BY <1>1 DEF ComposeNothing
    <2>4. Answered' = Answered \cup {Owes(r)}
      BY <2>1, <2>2, <2>3 DEF Answered, Owes
    <2> QED BY <2>4 DEF InHand, HeldRows
  <1>2. CASE Deliver(c) \/ DeliverUnanswered(c)
    <2>1. PICK r \in batch[c] : letters' = letters \cup {Letter(r)}
      BY <1>2 DEF Deliver, DeliverUnanswered, HandOver, Oldest
    <2>2. nothing' = nothing
      BY <1>2 DEF Deliver, DeliverUnanswered
    <2>3. Matter(Letter(r).to, Letter(r).born, Letter(r).kanal) = Owes(r)
      BY DEF Letter, Owes
    <2>4. Answered' = Answered \cup {Owes(r)}
      BY <2>1, <2>2, <2>3 DEF Answered
    <2> QED BY <2>4 DEF InHand, HeldRows
  <1> QED BY <1>1, <1>2

\* A tick settles its matter, gives it up, or puts it back.
LEMMA TickMails ==
  ASSUME MailingInv, NEW c \in Channel, TickSent(c) \/ TickFailed(c)
  PROVE  Mail!MailNext
  <1> USE DEF MailingInv
  <1>1. PICK r \in Oldest(batch[c]) :
          Advance(c, r) /\ IF pc[c] = "sent" THEN MarkSent(r.id) ELSE MarkFailed(r.id, r.attempts)
    BY DEF TickSent, TickFailed
  <1>2. UNCHANGED <<posts, clock, letters, nothing, overtaken>>
    BY DEF TickSent, TickFailed, historyVars
  <1>3. TypeOK /\ r.attempts \in Nat
    BY DEF SenderInv, SenderTypeOK, Tables, BoardInv, Oldest, SnapshotRow
  <1>4. UNCHANGED <<clock, Alive, Answered>>
    BY <1>2 DEF Alive, Answered
  <1>5. InHand' = InHand \ {Owes(r)} /\ Owes(r) \in InHand
    BY <1>1, HandOpens
  <1>6. r.id \in DOMAIN outbox \ overtaken =>
          ~outbox[r.id].sent /\ outbox[r.id].attempts = r.attempts /\ r.attempts < MaxAttempts
    BY <1>1, AdvanceIs
  <1>7. CASE pc[c] = "sent"
    <2>1. /\ SameRows
          /\ \A i \in DOMAIN outbox : outbox'[i].sent <=> (outbox[i].sent \/ i = r.id)
          /\ \A i \in DOMAIN outbox : i # r.id => outbox'[i] = outbox[i]
      BY <1>1, <1>3, <1>7, MarkSentIs
    <2>2. r.id \in DOMAIN outbox \ overtaken => MarkOf(r.id)' = "settled"
      BY <1>2, <2>1 DEF MarkOf
    <2>3. Ledger' = {IF e = <<Owes(r), "owed">> THEN <<Owes(r), "settled">> ELSE e : e \in Ledger}
      BY <1>1, <1>2, <2>1, <2>2, MarkingMarks
    <2>4. Owes(r) \in Answered
      BY <1>7 DEF SenderInv, Loops, Earned
    <2> QED BY <1>4, <1>5, <2>3, <2>4, MarkIs
  <1>8. CASE pc[c] # "sent"
    <2>1. /\ SameRows
          /\ \A i \in DOMAIN outbox : outbox'[i].sent = outbox[i].sent
          /\ \A i \in DOMAIN outbox : i = r.id => outbox'[i].attempts = r.attempts + 1
          /\ \A i \in DOMAIN outbox : i # r.id => outbox'[i] = outbox[i]
      BY <1>1, <1>3, <1>8, MarkFailedIs
    <2>2. CASE r.attempts + 1 < MaxAttempts \/ r.id \notin DOMAIN outbox \ overtaken
      <3>1. ASSUME NEW i \in DOMAIN outbox PROVE Entry(i)' = Entry(i)
        <4>1. CASE i # r.id
          BY <1>2, <2>1, <4>1, MarksStay
        <4>2. CASE i = r.id /\ i \in overtaken
          BY <1>2, <2>1, <4>2, MattersStay DEF Entry, MarkOf
        <4>3. CASE i = r.id /\ i \notin overtaken
          <5>1. MarkOf(i) = "owed"
            BY <1>6, <4>3 DEF MarkOf, Pending
          <5>2. i \in DOMAIN outbox' /\ ~outbox'[i].sent /\ outbox'[i].attempts < MaxAttempts
            BY <1>6, <2>1, <2>2, <4>3 DEF SameRows
          <5>3. MarkOf(i)' = "owed"
            BY <1>2, <4>3, <5>2 DEF MarkOf, Pending
          <5> QED BY <1>2, <2>1, <5>1, <5>3, MattersStay DEF Entry
        <4> QED BY <4>1, <4>2, <4>3
      <3>2. Ledger' = Ledger
        BY <2>1, <3>1 DEF Ledger, SameRows
      <3> QED BY <1>4, <1>5, <3>2, HoldIs
    <2>3. CASE ~(r.attempts + 1 < MaxAttempts) /\ r.id \in DOMAIN outbox \ overtaken
      <3>1. r.id \in DOMAIN outbox' /\ ~outbox'[r.id].sent /\ ~(outbox'[r.id].attempts < MaxAttempts)
        BY <1>6, <2>1, <2>3 DEF SameRows
      <3>2. MarkOf(r.id)' = "hopeless"
        BY <1>2, <2>3, <3>1 DEF MarkOf, Pending
      <3>3. Ledger' = {IF e = <<Owes(r), "owed">> THEN <<Owes(r), "hopeless">> ELSE e : e \in Ledger}
        BY <1>1, <1>2, <2>1, <3>2, MarkingMarks
      <3> QED BY <1>4, <1>5, <3>3, MarkIs
    <2> QED BY <2>2, <2>3
  <1> QED BY <1>7, <1>8

\* What is left of a batch is put back.
LEMMA PuttingBack ==
  ASSUME \A c \in Channel : batch'[c] \subseteq batch[c]
  PROVE  InHand' \subseteq InHand
  BY DEF InHand, HeldRows

LEMMA LoopMails ==
  ASSUME MailingInv, NEW c \in Channel, Loop(c)
  PROVE  Mail!MailNext
  <1> USE DEF MailingInv
  <1>1. CASE TickSent(c) \/ TickFailed(c)
    BY <1>1, TickMails
  <1>2. ASSUME ~TickSent(c), ~TickFailed(c)
        PROVE  UNCHANGED boardVars /\ overtaken' = overtaken
    BY <1>2 DEF Loop, Fetch, ComposeNothing, ComposeMessage, ComposeFails, Deliver, DeliverFails,
                DeliverUnanswered, TickRefused, historyVars
  <1>3. ASSUME UNCHANGED boardVars, overtaken' = overtaken
        PROVE  UNCHANGED <<clock, Alive, Ledger>>
    <2>1. SameRows /\ UNCHANGED <<posts, clock, outbox>>
      BY <1>3 DEF SameRows, boardVars
    <2> QED BY <1>3, <2>1, LedgerStays DEF Alive
  <1>4. CASE ComposeNothing(c) \/ Deliver(c) \/ DeliverUnanswered(c)
    <2>1. UNCHANGED <<boardVars, batch, overtaken>>
      BY <1>4 DEF ComposeNothing, Deliver, DeliverUnanswered
    <2>2. UNCHANGED <<clock, Alive, Ledger>>
      BY <1>3, <2>1
    <2>3. InHand' = InHand
      BY <2>1 DEF InHand, HeldRows
    <2>4. PICK m \in InHand : Answered' = Answered \cup {m}
      BY <1>4, DeliverAnswers
    <2> QED BY <2>2, <2>3, <2>4, AnswerIs
  <1>5. CASE Fetch(c)
    <2>1. UNCHANGED <<boardVars, letters, nothing, overtaken>>
      BY <1>5 DEF Fetch, historyVars
    <2>2. UNCHANGED <<clock, Alive, Ledger, Answered>>
      BY <1>3, <2>1 DEF Answered
    <2> QED BY <1>5, <2>2, FetchTakes, HoldIs
  <1>6. CASE ComposeMessage(c) \/ ComposeFails(c) \/ DeliverFails(c) \/ TickRefused(c)
    <2>1. UNCHANGED <<boardVars, letters, nothing, overtaken>>
      BY <1>6 DEF ComposeMessage, ComposeFails, DeliverFails, TickRefused, historyVars
    <2>2. UNCHANGED <<clock, Alive, Ledger, Answered>>
      BY <1>3, <2>1 DEF Answered
    <2>3. \A d \in Channel : batch'[d] \subseteq batch[d]
      BY <1>6 DEF ComposeMessage, ComposeFails, DeliverFails, TickRefused, SenderInv, SenderTypeOK
    <2> QED BY <2>2, <2>3, PuttingBack, HoldIs
  <1> QED BY <1>1, <1>4, <1>5, <1>6 DEF Loop

\* Every step of the sender is a step of the mailing.
LEMMA StepMails == MailingInv /\ [Next]_vars => [Mail!MailNext]_(Mail!mailVars)
  <1> SUFFICES ASSUME MailingInv, [Next]_vars PROVE Mail!MailNext
    OBVIOUS
  <1> USE DEF MailingInv
  <1>1. TypeOK
    BY DEF SenderInv, Tables, BoardInv
  <1>2. ASSUME SameRows, UNCHANGED <<posts, clock, letters, nothing, overtaken>>,
               \A c \in Channel : batch'[c] \subseteq batch[c],
               \A i \in DOMAIN outbox : /\ outbox'[i].sent = outbox[i].sent
                                        /\ outbox'[i].attempts = outbox[i].attempts
        PROVE  Mail!MailNext
    <2>1. UNCHANGED <<clock, Alive, Ledger, Answered>>
      BY <1>2, LedgerStays DEF Alive, Answered
    <2> QED BY <1>2, <2>1, PuttingBack, HoldIs
  <1>3. ASSUME NEW c \in Configured, Loop(c) PROVE Mail!MailNext
    BY <1>3, LoopMails, ConfiguredAssumption
  <1>4. ASSUME NEW id \in DOMAIN outbox, ComesDue(id) PROVE Mail!MailNext
    BY <1>1, <1>2, <1>4, ComesDueIs DEF ComesDue, historyVars, loopVars
  <1>5. ASSUME NEW who \in Person, NEW s \in Space, WriteStep(who, s) PROVE Mail!MailNext
    <2>1. Tables' /\ Written
      BY <1>5, WritingKeepsTables DEF WriteStep, SenderInv
    <2>2. /\ UNCHANGED <<loopVars, letters, nothing>>
          /\ overtaken' = (overtaken \cap DOMAIN outbox')
                            \cup ((DOMAIN outbox' \ DOMAIN outbox) \cap Held)
      BY <1>5 DEF WriteStep
    <2>3. UNCHANGED <<InHand, Answered>>
      BY <2>2 DEF InHand, HeldRows, Answered, loopVars
    <2>4. CASE AddsOne
      BY <2>1, <2>2, <2>3, <2>4, AddingOwes, OweIs
    <2>5. CASE Withdraws
      <3>1. overtaken' \cap DOMAIN outbox' = overtaken \cap DOMAIN outbox'
        BY <2>2, <2>5 DEF Withdraws
      <3> QED BY <2>1, <2>3, <2>5, <3>1, DeletingWithdraws, WithdrawIs
    <2> QED BY <2>1, <2>4, <2>5 DEF Written
  <1>6. ASSUME NEW l \in letters, Unsubscribe(l) PROVE Mail!MailNext
    BY <1>1, <1>2, <1>6, UnsubscribeIs DEF SameRows, historyVars, loopVars
  <1>7. CASE Restart
    BY <1>2, <1>7 DEF Restart, SameRows, boardVars
  <1>8. CASE UNCHANGED vars
    BY <1>2, <1>8 DEF vars, SameRows, boardVars, historyVars, loopVars
  <1> QED BY <1>3, <1>4, <1>5, <1>6, <1>7, <1>8 DEF Next

\* The outbox is a mailing: whatever is written, deleted, marked and cut off meanwhile,
\* each matter is entered once, taken only while it waits, settled only once it was
\* answered, and leaves only with its post; and a row is beyond promise only if it took
\* a number that a loop was holding for a withdrawn one (0005_outbox.sql; db/outbox.rs;
\* notify/mod.rs: drain_channel).
THEOREM OutboxMails == Spec => OutboxIsAMailing
  <1>1. Init => Mail!MailInit
    BY DEF Init, BoardInit, SenderInit, Mail!MailInit, Answered, HeldRows
  <1>2. Init => MailingInv
    BY SenderInitIsFine DEF Init, BoardInit, SenderInit, MailingInv, NothingRowed
  <1> QED BY <1>1, <1>2, MailingKeeps, StepMails, PTL DEF Spec, OutboxIsAMailing, Mail!MailSpec
=============================================================================
