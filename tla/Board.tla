------------------------------- MODULE Board -------------------------------
(***************************************************************************)
(* The tables people write to, and every transaction on them: topics,      *)
(* posts, subscriptions, the bell's entries (inbox), likes, and the mails  *)
(* and webhooks owed (outbox).  A table is a function from its key to its  *)
(* row; a transaction is one action, because SQLite gives a transaction    *)
(* atomicity and serial order (db/mod.rs opens one WAL database).          *)
(*                                                                         *)
(* Row ids follow SQLite: INTEGER PRIMARY KEY without AUTOINCREMENT is one *)
(* more than the largest id in the table, so an id is used again once the  *)
(* newest row is gone.  Whether a row is still THE row an earlier reader   *)
(* saw is therefore told by `born', the number of topics and posts ever    *)
(* written when it was inserted; it stands for the created_at column.      *)
(*                                                                         *)
(* Abstracted: texts, titles, names, categories and list orders.  The      *)
(* rights (authz.rs) are those of the configuration, so Person holds the   *)
(* people a request got past them for.                                     *)
(***************************************************************************)
EXTENDS Integers, FiniteSets, Functions

CONSTANTS
  Person,       \* subjects that have signed in
  Space,        \* hosts
  SourceKey,    \* file names of mirrored articles
  Publisher,    \* the name articles are stored under: nobody signs in as it
  Owners,       \* who at some time holds the handle a space names as articles_owner
  Nobody,
  Switchers,    \* bound: people who turn mention mails on and off
  MaxTopics,    \* bound: topics at a time
  MaxLikes,     \* bound: likes at a time
  MaxPosts      \* bound: posts ever written

ASSUME PublisherAssumption == Publisher \notin Person /\ Nobody \notin Person
ASSUME OwnersAssumption == Owners \subseteq Person
ASSUME SwitchersAssumption == Switchers \subseteq Person
ASSUME SourceKeyAssumption == Nobody \notin SourceKey
ASSUME BoundsAssumption == {MaxTopics, MaxLikes, MaxPosts} \subseteq Nat

VARIABLES
  topics,       \* topic id -> [space, source, hidden, born]
  posts,        \* post id -> [topic, author, born]
  follows,      \* subscriptions: <<subject, topic id>>
  inbox,        \* <<subject, post id>> -> [space, reason, unread]
  likes,        \* <<post id, subject>>
  outbox,       \* row id -> [subject, space, post, kanal, reason, attempts, due, sent]
  optedOut,     \* accounts with mention_mail = 0
  clock         \* posts ever written

boardVars == <<topics, posts, follows, inbox, likes, outbox, optedOut, clock>>

Id == Nat \ {0}

TopicRow == [space: Space, source: SourceKey \cup {Nobody}, hidden: BOOLEAN, born: Nat]
PostRow  == [topic: Id, author: Person \cup {Publisher}, born: Nat]
BellRow  == [space: Space, reason: {"reply", "mention", "like"}, unread: BOOLEAN]
OwedRow  == [subject: Person, space: Space, post: Id, kanal: {"mail", "webhook"},
             reason: {"reply", "mention"}, attempts: Nat, due: BOOLEAN, sent: BOOLEAN]

\* A table keyed by some of K with rows in R.
IsTable(f, K, R) == DOMAIN f \subseteq K /\ f \in [DOMAIN f -> R]

-----------------------------------------------------------------------------
(* Keys, joins and cascades.                                               *)

\* Mutant: an empty table starts at zero.
NextIdFromZero(ids) == {n \in {0} \cup {i + 1 : i \in ids} : \A i \in ids : i < n}

\* The one id the next insert gets.
NextId(ids) == {n \in {1} \cup {i + 1 : i \in ids} : \A i \in ids : i < n}

With(table, rows) ==
  [i \in DOMAIN table \cup DOMAIN rows |-> IF i \in DOMAIN table THEN table[i] ELSE rows[i]]

Row(id, r) == [i \in {id} |-> r]

PostsOf(t)   == {p \in DOMAIN posts : posts[p].topic = t}
Followers(t) == {x \in Person : <<x, t>> \in follows}
Opens(p)     == \A q \in PostsOf(posts[p].topic) : p <= q
\* Mutant: only the opening post is asked who wrote it.
OpenedBy(who, t) == \E q \in PostsOf(t) : Opens(q) /\ posts[q].author = who

\* Nobody else has written in the topic.
AloneIn(who, t) == \A q \in PostsOf(t) : posts[q].author = who
Mirrored(t)  == topics[t].source # Nobody

\* What a query with `space = ? AND hidden = 0' finds.
Visible(s, t)     == t \in DOMAIN topics /\ topics[t].space = s /\ ~topics[t].hidden
VisiblePost(s, p) == p \in DOMAIN posts /\ Visible(s, posts[p].topic)

\* ON DELETE CASCADE: what the rows of other tables lose with the posts `gone'.
WithoutPosts(gone) ==
  /\ posts' = Restrict(posts, DOMAIN posts \ gone)
  /\ inbox' = Restrict(inbox, {k \in DOMAIN inbox : k[2] \notin gone})
  /\ likes' = {l \in likes : l[1] \notin gone}
  /\ outbox' = Restrict(outbox, {i \in DOMAIN outbox : outbox[i].post \notin gone})

-----------------------------------------------------------------------------
(* The rows a post leaves behind, inside its own transaction.              *)

\* Mutant: ON CONFLICT DO UPDATE.
NotedAnew(bell, s, p, subjects, why) ==
  With([k \in subjects \X {p} |-> [space |-> s, reason |-> why, unread |-> TRUE]], bell)

\* One entry per subject and post; ON CONFLICT DO NOTHING.
Noted(bell, s, p, subjects, why) ==
  With(bell, [k \in subjects \X {p} |-> [space |-> s, reason |-> why, unread |-> TRUE]])

\* Mutant: a follower with an entry in the topic already is not told again.
ReplyBellOnce(bell, s, t, p, writer) ==
  Noted(bell, s, p, {x \in Followers(t) \ {writer} : \A q \in PostsOf(t) : <<x, q>> \notin DOMAIN bell},
        "reply")

ReplyBell(bell, s, t, p, writer) == Noted(bell, s, p, Followers(t) \ {writer}, "reply")

\* Mutant: whoever is mentioned is told, new or not.
AllTold(bell, p, mentioned) == mentioned

\* The subjects an entry is really written for.
NewlyTold(bell, p, mentioned) == {x \in mentioned : <<x, p>> \notin DOMAIN bell}

Owed(x, s, p, channel, why) ==
  [subject |-> x, space |-> s, post |-> p, kanal |-> channel, reason |-> why,
   attempts |-> 0, due |-> TRUE, sent |-> FALSE]

MentionMails(s, p, told) == {Owed(x, s, p, "mail", "mention") : x \in told \ optedOut}

\* Mutant: the mentioned followers get both mails.
FollowerMailsDoubled(bell, s, t, p, writer) ==
  {Owed(x, s, p, "mail", "reply") : x \in Followers(t) \ {writer}}

\* Mutant: the writer follows, too.
FollowerMailsToAll(bell, s, t, p, writer) ==
  {Owed(x, s, p, "mail", "reply") :
     x \in {y \in Followers(t) :
              ~(<<y, p>> \in DOMAIN bell /\ bell[<<y, p>>].reason = "mention")}}

FollowerMails(bell, s, t, p, writer) ==
  {Owed(x, s, p, "mail", "reply") :
     x \in {y \in Followers(t) \ {writer} :
              ~(<<y, p>> \in DOMAIN bell /\ bell[<<y, p>>].reason = "mention")}}

Webhook(s, p, writer) == Owed(writer, s, p, "webhook", "reply")

\* Mentions are queued first, then the followers, then the webhook.
Rank(row) == IF row.kanal = "webhook" THEN 3 ELSE IF row.reason = "reply" THEN 2 ELSE 1

\* The ways SQLite can give consecutive ids to new rows, in queueing order.
Listings(rows, first) ==
  {at \in Bijection(first .. (first + Cardinality(rows) - 1), rows) :
     \A i, j \in DOMAIN at : i < j => Rank(at[i]) <= Rank(at[j])}

Queue(rows) ==
  \E first \in NextId(DOMAIN outbox) :
    \E at \in Listings(rows, first) : outbox' = With(outbox, at)

-----------------------------------------------------------------------------
(* db/topics.rs.  `mentioned' is what mentions::to_tell found before the   *)
(* transaction: people who may read the space, never the writer.           *)

BoardInit ==
  /\ topics = <<>>
  /\ posts = <<>>
  /\ follows = {}
  /\ inbox = <<>>
  /\ likes = {}
  /\ outbox = <<>>
  /\ optedOut = {}
  /\ clock = 0

CreateTopic(who, s, mentioned) ==
  /\ clock < MaxPosts /\ Cardinality(DOMAIN topics) < MaxTopics
  /\ \E t \in NextId(DOMAIN topics), p \in NextId(DOMAIN posts) :
       LET told == NewlyTold(inbox, p, mentioned) IN
       /\ topics' = With(topics, Row(t, [space |-> s, source |-> Nobody,
                                         hidden |-> FALSE, born |-> clock]))
       /\ posts' = With(posts, Row(p, [topic |-> t, author |-> who, born |-> clock]))
       /\ follows' = follows \cup {<<who, t>>}
       /\ inbox' = Noted(inbox, s, p, mentioned, "mention")
       /\ Queue(MentionMails(s, p, told) \cup {Webhook(s, p, who)})
  /\ clock' = clock + 1
  /\ UNCHANGED <<likes, optedOut>>

\* The topic was loaded through its space, and only a restart hides one.
AddReply(who, s, t, mentioned) ==
  /\ clock < MaxPosts
  /\ Visible(s, t)
  /\ \E p \in NextId(DOMAIN posts) :
       LET told == NewlyTold(inbox, p, mentioned)
           bell == Noted(inbox, s, p, mentioned, "mention") IN
       /\ posts' = With(posts, Row(p, [topic |-> t, author |-> who, born |-> clock]))
       /\ follows' = follows \cup {<<who, t>>}
       /\ Queue(MentionMails(s, p, told) \cup FollowerMails(bell, s, t, p, who)
                  \cup {Webhook(s, p, who)})
       /\ inbox' = ReplyBell(bell, s, t, p, who)
  /\ clock' = clock + 1
  /\ UNCHANGED <<topics, likes, optedOut>>

UpdatePost(who, s, p, mentioned) ==
  /\ VisiblePost(s, p) /\ posts[p].author = who
  /\ inbox' = Noted(inbox, s, p, mentioned, "mention")
  /\ Queue(MentionMails(s, p, NewlyTold(inbox, p, mentioned)))
  /\ UNCHANGED <<topics, posts, follows, likes, optedOut, clock>>

\* A reply goes alone.
DeleteReply(who, s, p) ==
  /\ VisiblePost(s, p) /\ posts[p].author = who
  /\ ~Opens(p)
  /\ WithoutPosts({p})
  /\ UNCHANGED <<topics, follows, optedOut, clock>>

\* The opening post takes the topic along, unless others have written in it.
DeleteTopic(who, s, p) ==
  /\ VisiblePost(s, p) /\ posts[p].author = who
  /\ Opens(p)
  /\ AloneIn(who, posts[p].topic)
  /\ topics' = Restrict(topics, DOMAIN topics \ {posts[p].topic})
  /\ follows' = {f \in follows : f[2] # posts[p].topic}
  /\ WithoutPosts(PostsOf(posts[p].topic))
  /\ UNCHANGED <<optedOut, clock>>

-----------------------------------------------------------------------------
(* db/subscriptions.rs, behind web::change_subscription.                   *)

Follow(who, s, t) ==
  /\ Visible(s, t)
  /\ follows' = follows \cup {<<who, t>>}
  /\ UNCHANGED <<topics, posts, inbox, likes, outbox, optedOut, clock>>

Unfollow(who, s, t) ==
  /\ Visible(s, t)
  /\ follows' = follows \ {<<who, t>>}
  /\ UNCHANGED <<topics, posts, inbox, likes, outbox, optedOut, clock>>

-----------------------------------------------------------------------------
(* db/likes.rs: toggle_telling.                                            *)

\* Whose bell rings for a like by `who', where `owner' is behind the articles.
Rings(who, p, owner) ==
  IF Mirrored(posts[p].topic) /\ Opens(p) THEN {owner} \ {who, Nobody} ELSE {posts[p].author}

\* A like makes an old like entry news again, and leaves any other entry alone.
RungBell(s, p, told) ==
  With([k \in DOMAIN inbox |->
          IF k \in told \X {p} /\ inbox[k].reason = "like"
          THEN [inbox[k] EXCEPT !.unread = TRUE] ELSE inbox[k]],
       [k \in told \X {p} |-> [space |-> s, reason |-> "like", unread |-> TRUE]])

MayLike(who, s, p) ==
  /\ p \in DOMAIN posts /\ topics[posts[p].topic].space = s
  /\ posts[p].author # who

\* Whom the handler finds behind the space's articles is asked of another component
\* at each like (web: articles_owner) and answered freely here: a handle moves.
Like(who, s, p) ==
  /\ Cardinality(likes) < MaxLikes
  /\ MayLike(who, s, p)
  /\ <<p, who>> \notin likes
  /\ likes' = likes \cup {<<p, who>>}
  /\ \E owner \in Owners \cup {Nobody} : inbox' = RungBell(s, p, Rings(who, p, owner))
  /\ UNCHANGED <<topics, posts, follows, outbox, optedOut, clock>>

\* Mutants: the entries stay; the entries go with any like taken back.
BellKept(p, left) == inbox
BellSilenced(p, left) ==
  Restrict(inbox, {k \in DOMAIN inbox : ~(k[2] = p /\ inbox[k].reason = "like")})

\* With the last like every like entry of the post goes.
BellAfterUnlike(p, left) ==
  IF \E l \in left : l[1] = p THEN inbox
  ELSE Restrict(inbox, {k \in DOMAIN inbox : ~(k[2] = p /\ inbox[k].reason = "like")})

Unlike(who, s, p) ==
  /\ MayLike(who, s, p)
  /\ <<p, who>> \in likes
  /\ likes' = likes \ {<<p, who>>}
  /\ inbox' = BellAfterUnlike(p, likes')
  /\ UNCHANGED <<topics, posts, follows, outbox, optedOut, clock>>

-----------------------------------------------------------------------------
(* db/inbox.rs and db/accounts.rs: reading, and the mention mail switch.   *)

MarkRead(keys) ==
  inbox' = [k \in DOMAIN inbox |->
              IF k \in keys THEN [inbox[k] EXCEPT !.unread = FALSE] ELSE inbox[k]]

\* web::topic_page: whoever opens a topic has read it.
MarkTopicRead(who, s, t) ==
  /\ Visible(s, t)
  /\ MarkRead({who} \X PostsOf(t))
  /\ UNCHANGED <<topics, posts, follows, likes, outbox, optedOut, clock>>

MarkAllRead(who, spaces) ==
  /\ MarkRead({k \in DOMAIN inbox : k[1] = who /\ inbox[k].space \in spaces})
  /\ UNCHANGED <<topics, posts, follows, likes, outbox, optedOut, clock>>

SetMentionMail(who, on) ==
  /\ optedOut' = IF on THEN optedOut \ {who} ELSE optedOut \cup {who}
  /\ UNCHANGED <<topics, posts, follows, inbox, likes, outbox, clock>>

-----------------------------------------------------------------------------
(* articles.rs: the mirror, one article or one withdrawal per commit.      *)

SourceTopics(key) == {t \in DOMAIN topics : topics[t].source = key}

\* A file seen for the first time.
MirrorNew(key, s) ==
  /\ clock < MaxPosts /\ Cardinality(DOMAIN topics) < MaxTopics
  /\ SourceTopics(key) = {}
  /\ \E t \in NextId(DOMAIN topics), p \in NextId(DOMAIN posts) :
       /\ topics' = With(topics, Row(t, [space |-> s, source |-> key,
                                         hidden |-> FALSE, born |-> clock]))
       /\ posts' = With(posts, Row(p, [topic |-> t, author |-> Publisher, born |-> clock]))
  /\ clock' = clock + 1
  /\ UNCHANGED <<follows, inbox, likes, outbox, optedOut>>

\* A known file: its topic is the file's again, and shown.
MirrorAgain(key, s) ==
  /\ \E t \in SourceTopics(key) :
       topics' = [topics EXCEPT ![t].space = s, ![t].hidden = FALSE]
  /\ UNCHANGED <<posts, follows, inbox, likes, outbox, optedOut, clock>>

\* Mutant: whatever the space's directory lacks is hidden, wherever it is shown.
HideAnywhere(key, s) ==
  /\ \E t \in SourceTopics(key) :
       /\ ~topics[t].hidden
       /\ topics' = [topics EXCEPT ![t].hidden = TRUE]
  /\ UNCHANGED <<posts, follows, inbox, likes, outbox, optedOut, clock>>

\* A file that is gone hides its topic and deletes nothing.
HideMissing(key, s) ==
  /\ \E t \in SourceTopics(key) :
       /\ Visible(s, t)
       /\ topics' = [topics EXCEPT ![t].hidden = TRUE]
  /\ UNCHANGED <<posts, follows, inbox, likes, outbox, optedOut, clock>>

-----------------------------------------------------------------------------
\* Everything a person's request can commit.
PersonStep(who, s) ==
  \/ \E m \in SUBSET (Person \ {who}) : CreateTopic(who, s, m)
  \/ \E t \in DOMAIN topics, m \in SUBSET (Person \ {who}) : AddReply(who, s, t, m)
  \/ \E p \in DOMAIN posts, m \in SUBSET (Person \ {who}) : UpdatePost(who, s, p, m)
  \/ \E p \in DOMAIN posts : DeleteReply(who, s, p)
  \/ \E p \in DOMAIN posts : DeleteTopic(who, s, p)
  \/ \E t \in DOMAIN topics : Follow(who, s, t)
  \/ \E t \in DOMAIN topics : Unfollow(who, s, t)
  \/ \E p \in DOMAIN posts : Like(who, s, p)
  \/ \E p \in DOMAIN posts : Unlike(who, s, p)
  \/ \E t \in DOMAIN topics : MarkTopicRead(who, s, t)

MirrorStep(key, s) == MirrorNew(key, s) \/ MirrorAgain(key, s) \/ HideMissing(key, s)

BoardNext ==
  \/ \E who \in Person, s \in Space : PersonStep(who, s)
  \/ \E who \in Person, spaces \in SUBSET Space : MarkAllRead(who, spaces)
  \/ \E who \in Switchers, on \in BOOLEAN : SetMentionMail(who, on)
  \/ \E key \in SourceKey, s \in Space : MirrorStep(key, s)

BoardSpec == BoardInit /\ [][BoardNext]_boardVars
-----------------------------------------------------------------------------
(* What the bell shows (inbox.rs).                                         *)

Listed(x, spaces, why) ==
  {k \in DOMAIN inbox : /\ k[1] = x /\ inbox[k].space \in spaces
                        /\ inbox[k].reason = why
                        /\ ~topics[posts[k[2]].topic].hidden}

Unread(keys) == {k \in keys : inbox[k].unread}

\* Mutant: a reply counts, not its topic.
UnreadCountPerReply(x, spaces) ==
  Cardinality(Unread(Listed(x, spaces, "reply")) \cup Unread(Listed(x, spaces, "mention"))
                \cup Unread(Listed(x, spaces, "like")))

UnreadCount(x, spaces) ==
  Cardinality({posts[k[2]].topic : k \in Unread(Listed(x, spaces, "reply"))})
    + Cardinality(Unread(Listed(x, spaces, "mention")))
    + Cardinality(Unread(Listed(x, spaces, "like")))

\* The unread lines of the page: a bundle per topic, a line per mention, and a
\* line per liked post that somebody still likes.
UnreadLines(x, spaces) ==
  {<<"replies", posts[k[2]].topic>> : k \in Unread(Listed(x, spaces, "reply"))}
    \cup {<<"mention", k[2]>> : k \in Unread(Listed(x, spaces, "mention"))}
    \cup {<<"likes", k[2]>> : k \in {e \in Unread(Listed(x, spaces, "like")) :
                                        \E l \in likes : l[1] = e[2]}}

-----------------------------------------------------------------------------
(* Properties.                                                             *)

TypeOK ==
  /\ IsTable(topics, Id, TopicRow)
  /\ IsTable(posts, Id, PostRow)
  /\ follows \subseteq Person \X Id
  /\ IsTable(inbox, Person \X Id, BellRow)
  /\ likes \subseteq Id \X Person
  /\ IsTable(outbox, Id, OwedRow)
  /\ optedOut \subseteq Person
  /\ clock \in Nat

IsMail(i, x, p) ==
  outbox[i].kanal = "mail" /\ outbox[i].subject = x /\ outbox[i].post = p

\* The bell and the mail cannot disagree about who was told of a reply, at any
\* later time either (topics.rs: add_reply_mentioning).
BellAndMailAgree ==
  \A x \in Person, p \in DOMAIN posts :
    (\E i \in DOMAIN outbox : IsMail(i, x, p) /\ outbox[i].reason = "reply")
      <=> (<<x, p>> \in DOMAIN inbox /\ inbox[<<x, p>>].reason = "reply")

\* One mail per person and post however often the post is edited, and one
\* webhook per post somebody wrote (outbox.rs: queue_for_followers, queue_webhook).
OwedOnce ==
  /\ \A i, j \in DOMAIN outbox :
       /\ outbox[i].subject = outbox[j].subject
       /\ outbox[i].post = outbox[j].post
       /\ outbox[i].kanal = outbox[j].kanal
       => i = j
  /\ \A p \in DOMAIN posts : posts[p].author \in Person =>
       \E i \in DOMAIN outbox : outbox[i].post = p /\ outbox[i].kanal = "webhook"

\* Nobody is told about their own post, by bell or by mail, also not by an edit,
\* a withdrawn post or a post id that is used again (subscriptions.rs).
NotAboutOneself ==
  /\ \A k \in DOMAIN inbox : inbox[k].reason # "like" => posts[k[2]].author # k[1]
  /\ \A i \in DOMAIN outbox :
       outbox[i].kanal = "mail" => posts[outbox[i].post].author # outbox[i].subject

\* Whose a like entry on a post by `author' may be.
Rightful(x, author) == x = author \/ (author = Publisher /\ x \in Owners)

\* The like entry is as true as the number under the post: an entry means that
\* somebody likes it and belongs to its author or, under an article, to one of those
\* the owner's handle leads to (another at each like, perhaps), and a liked post has
\* rung its author's bell (likes.rs: toggle_telling).
LikeEntryTrue ==
  /\ \A k \in DOMAIN inbox : inbox[k].reason = "like" =>
       /\ \E l \in likes : l[1] = k[2]
       /\ Rightful(k[1], posts[k[2]].author)
  /\ \A l \in likes : posts[l[1]].author \in Person =>
       LET k == <<posts[l[1]].author, l[1]>> IN
       k \in DOMAIN inbox /\ inbox[k].reason = "like"

\* The number on the bell is the number of unread lines behind it
\* (inbox.rs: unread_count and entries, written as separate queries).
BadgeIsList ==
  \A x \in Person, spaces \in SUBSET Space :
    UnreadCount(x, spaces) = Cardinality(UnreadLines(x, spaces))

\* A step takes away the posts of one person only: nobody's words go with
\* somebody else's topic or with an article's file (topics.rs: delete_post;
\* articles.rs: hide_missing).
OthersWordsStay ==
  [][\A p, q \in DOMAIN posts \ DOMAIN posts' :
       posts[p].author \in Person /\ posts[q].author = posts[p].author]_boardVars

\* A new reply rings the bell of everybody who follows the topic at that moment,
\* except its writer, and rings it unread even when its id was used before
\* (inbox.rs: note_replies_in).
EveryFollowerHears ==
  [][\A p \in DOMAIN posts' \ DOMAIN posts :
       \A x \in Followers(posts'[p].topic) \ {posts'[p].author} :
         <<x, p>> \in DOMAIN inbox' /\ inbox'[<<x, p>>].unread]_boardVars

\* What was read is news again only through a new like of that very post
\* (an edit that repeats a mention is silent; inbox.rs: note_mentions_in).
ReadStaysRead ==
  [][\A k \in DOMAIN inbox \cap DOMAIN inbox' :
       ~inbox[k].unread /\ inbox'[k].unread =>
         inbox[k].reason = "like" /\ \E l \in likes' \ likes : l[1] = k[2]]_boardVars

\* An entry keeps its reason, and goes only with its post or, for a like entry,
\* with the last like (inbox.rs, likes.rs).
EntriesKeep ==
  [][\A k \in DOMAIN inbox :
       \/ k \in DOMAIN inbox' /\ inbox'[k].reason = inbox[k].reason
       \/ k[2] \notin DOMAIN posts'
       \/ inbox[k].reason = "like" /\ \A l \in likes' : l[1] # k[2]]_boardVars

\* README: "a reply mails the people who are following - never the person who
\* wrote it".  The code leaves out a follower who is mentioned in the reply and
\* has turned mention mails off.
EveryFollowerIsMailed ==
  [][\A p \in DOMAIN posts' \ DOMAIN posts :
       \A x \in Followers(posts'[p].topic) \ {posts'[p].author} :
         \E i \in DOMAIN outbox' : IsMail(i, x, p)']_boardVars
=============================================================================
