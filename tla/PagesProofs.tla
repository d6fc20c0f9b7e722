---------------------------- MODULE PagesProofs ----------------------------
(***************************************************************************)
(* What holds of the pages for any configuration, and any number of        *)
(* people, topics and posts.                                               *)
(***************************************************************************)
EXTENDS Pages, DeskProofs, WellFoundedInduction

-----------------------------------------------------------------------------
(* Rows of a list.                                                         *)

\* A set of ids has a least one.
LEMMA LeastIsThere ==
  ASSUME NEW S, S \subseteq Nat, S # {}
  PROVE  \E p \in S : \A q \in S : p <= q
  <1>1. PICK p \in S : \A q \in S : ~(<<q, p>> \in OpToRel(<, Nat))
    BY NatLessThanWellFounded, WFMin
  <1>2. \A q \in S : ~(q < p)
    BY <1>1 DEF OpToRel
  <1> QED BY <1>2

\* Finitely many ids have a largest one.
LEMMA LargestIsThere ==
  ASSUME NEW S, S \subseteq Nat, S # {}, IsFiniteSet(S)
  PROVE  \E p \in S : \A q \in S : q <= p
  <1> DEFINE above(p) == {q \in S : p < q}
             counts == {Cardinality(above(p)) : p \in S}
  <1>1. ASSUME NEW p \in S PROVE IsFiniteSet(above(p)) /\ Cardinality(above(p)) \in Nat
    <2>1. above(p) \in SUBSET S
      OBVIOUS
    <2>2. IsFiniteSet(above(p))
      BY <2>1, FS_Subset
    <2> QED BY <2>2, FS_CardinalityType
  <1>2. PICK n \in counts : \A m \in counts : n <= m
    <2>1. counts \subseteq Nat /\ counts # {}
      BY <1>1
    <2> HIDE DEF counts
    <2> QED BY <2>1, LeastIsThere
  <1>3. PICK p \in S : n = Cardinality(above(p))
    BY <1>2
  <1>4. ASSUME NEW q \in S, p < q PROVE FALSE
    <2>1. above(q) \in SUBSET above(p) /\ q \in above(p) /\ q \notin above(q)
      <3>1. p \in Nat /\ q \in Nat
        OBVIOUS
      <3>2. \A r \in S : q < r => p < r
        BY <1>4
      <3>3. ~(q < q)
        BY <3>1
      <3>4. above(q) \subseteq above(p)
        BY <3>2
      <3> QED BY <1>4, <3>3, <3>4
    <2>2. Cardinality(above(q)) <= Cardinality(above(p))
          /\ (Cardinality(above(p)) = Cardinality(above(q)) => above(p) = above(q))
      <3> HIDE DEF above
      <3> QED BY <1>1, <2>1, FS_Subset
    <2>3. Cardinality(above(p)) <= Cardinality(above(q))
      BY <1>2, <1>3
    <2> HIDE DEF above
    <2> QED BY <1>1, <2>1, <2>2, <2>3
  <1> QED BY <1>4

\* A list that is not cut is whole.
LEMMA NothingIsCut ==
  ASSUME NEW rows, IsFiniteSet(rows), NEW n \in Nat, Cardinality(rows) <= n,
         NEW page \in Newest(rows, n)
  PROVE  page = rows
  <1>1. page \in SUBSET rows /\ Cardinality(rows) \in Nat
    BY FS_CardinalityType DEF Newest
  <1>2. Cardinality(page) = Cardinality(rows)
    BY <1>1 DEF Newest
  <1> QED BY <1>1, <1>2, FS_Subset

\* A topic has a first and a last post, and all answers but the first.
LEMMA PostsInOrder ==
  ASSUME BoardInv, PostsAreFew, NEW t \in DOMAIN topics
  PROVE  /\ PostsOf(t) \subseteq Id /\ IsFiniteSet(PostsOf(t))
         /\ FirstPost(t) \in PostsOf(t) /\ \A q \in PostsOf(t) : FirstPost(t) <= q
         /\ LastPost(t) \in PostsOf(t) /\ \A q \in PostsOf(t) : q <= LastPost(t)
         /\ \A p \in PostsOf(t) : Opens(p) <=> p = FirstPost(t)
  <1>1. PostsOf(t) \subseteq Id /\ PostsOf(t) # {} /\ PostsOf(t) \in SUBSET DOMAIN posts
    BY DEF PostsOf, BoardInv, Core, IsTable
  <1>2. PostsOf(t) \subseteq Nat
    BY <1>1 DEF Id
  <1>3. IsFiniteSet(PostsOf(t))
    BY <1>1, FS_Subset DEF PostsAreFew
  <1>4. \E p \in PostsOf(t) : \A q \in PostsOf(t) : p <= q
    BY <1>1, <1>2, LeastIsThere
  <1>5. \E p \in PostsOf(t) : \A q \in PostsOf(t) : q <= p
    BY <1>1, <1>2, <1>3, LargestIsThere
  <1>6. FirstPost(t) \in PostsOf(t) /\ \A q \in PostsOf(t) : FirstPost(t) <= q
    BY <1>4 DEF FirstPost
  <1>7. LastPost(t) \in PostsOf(t) /\ \A q \in PostsOf(t) : q <= LastPost(t)
    BY <1>5 DEF LastPost
  <1>8. ASSUME NEW p \in PostsOf(t) PROVE Opens(p) <=> p = FirstPost(t)
    <2>1. posts[p].topic = t
      BY DEF PostsOf
    <2>2. p \in Nat /\ FirstPost(t) \in Nat
      BY <1>2, <1>6
    <2> QED BY <1>6, <2>1, <2>2 DEF Opens
  <1> QED BY <1>1, <1>3, <1>6, <1>7, <1>8

\* A line of a list says how many answers there are, and who wrote the last.
LEMMA LinesAreTrue ==
  ASSUME BoardInv, PostsAreFew, NEW t \in DOMAIN topics, NEW x
  PROVE  LET row == ListRow(x, t)
             answers == {p \in PostsOf(t) : ~Opens(p)} IN
         /\ row.replies = Cardinality(answers)
         /\ row.opens <=> answers = {}
         /\ answers # {} => \E p \in answers : posts[p].author = row.last /\ \A q \in answers : q <= p
  <1> DEFINE answers == {p \in PostsOf(t) : ~Opens(p)}
             row == ListRow(x, t)
  <1>1. answers = PostsOf(t) \ {FirstPost(t)}
    BY PostsInOrder
  <1>2. Cardinality(answers) = Cardinality(PostsOf(t)) - 1
    <2>1. Cardinality(PostsOf(t) \ {FirstPost(t)}) =
            IF FirstPost(t) \in PostsOf(t) THEN Cardinality(PostsOf(t)) - 1 ELSE Cardinality(PostsOf(t))
      BY PostsInOrder, FS_RemoveElement
    <2> HIDE DEF answers
    <2> QED BY <1>1, <2>1, PostsInOrder
  <1>3. row.replies = Cardinality(PostsOf(t)) - 1 /\ row.opens = (LastPost(t) = FirstPost(t))
        /\ row.last = posts[LastPost(t)].author
    BY DEF ListRow
  <1>4. PostsOf(t) \subseteq Nat
    BY PostsInOrder DEF Id
  <1> HIDE DEF answers, row
  <1>5. LastPost(t) = FirstPost(t) <=> answers = {}
    <2>1. ASSUME LastPost(t) = FirstPost(t), NEW q \in answers PROVE FALSE
      <3>1. q \in PostsOf(t) /\ q # FirstPost(t)
        BY <1>1, <2>1
      <3>2. FirstPost(t) <= q /\ q <= FirstPost(t)
        BY <2>1, <3>1, PostsInOrder
      <3>3. q \in Nat /\ FirstPost(t) \in Nat
        BY <1>4, <3>1, PostsInOrder
      <3> QED BY <3>1, <3>2, <3>3
    <2>2. ASSUME answers = {} PROVE LastPost(t) = FirstPost(t)
      BY <1>1, <2>2, PostsInOrder
    <2> QED BY <2>1, <2>2
  <1>6. ASSUME answers # {}
        PROVE  \E p \in answers : posts[p].author = row.last /\ \A q \in answers : q <= p
    <2>1. LastPost(t) \in answers
      BY <1>1, <1>5, <1>6, PostsInOrder
    <2>2. \A q \in answers : q <= LastPost(t)
      BY <1>1, PostsInOrder
    <2> QED BY <1>3, <2>1, <2>2
  <1> QED BY <1>2, <1>3, <1>5, <1>6 DEF answers, row
-----------------------------------------------------------------------------
(* The search.                                                             *)

\* The listed topics that have the words.
Having(s) ==
  {t \in UNION {InSection(s, c) : c \in Configured(s)} :
     \/ topics[t].born \in HasWord.titles
     \/ \E p \in PostsOf(t) : posts[p].born \in HasWord.posts}

\* Every hit has the words, and those found without a limit are all that do.
LEMMA FoundIsHaving ==
  ASSUME BoardInv, NEW s
  PROVE  {posts[p].topic : p \in Bodies(s)} \cup Titles(s) = Having(s)
  <1>1. ASSUME NEW p \in Bodies(s) PROVE posts[p].topic \in Having(s)
    <2>1. /\ posts[p].topic \in DOMAIN topics /\ Visible(s, posts[p].topic)
          /\ SectionOf(posts[p].topic) \in Configured(s)
          /\ p \in PostsOf(posts[p].topic) /\ posts[p].born \in HasWord.posts
      BY DEF Bodies, VisiblePost, Visible, PostsOf
    <2> QED BY <2>1 DEF Having, InSection, ListedTopics
  <1>2. ASSUME NEW t \in Titles(s) PROVE t \in Having(s)
    BY DEF Titles, Having, InSection, ListedTopics
  <1>3. ASSUME NEW t \in Having(s) PROVE t \in {posts[p].topic : p \in Bodies(s)} \cup Titles(s)
    <2>1. t \in DOMAIN topics /\ Visible(s, t) /\ SectionOf(t) \in Configured(s)
      BY DEF Having, InSection, ListedTopics
    <2>2. CASE topics[t].born \in HasWord.titles
      BY <2>1, <2>2 DEF Titles
    <2>3. ASSUME NEW p \in PostsOf(t), posts[p].born \in HasWord.posts
          PROVE  t \in {posts[q].topic : q \in Bodies(s)}
      <3>1. posts[p].topic = t /\ p \in Bodies(s)
        BY <2>1, <2>3 DEF Bodies, PostsOf, VisiblePost
      <3> QED BY <3>1
    <2> QED BY <2>2, <2>3 DEF Having
  <1> QED BY <1>1, <1>2, <1>3

\* Nothing is found that does not have the words.
LEMMA HitsAreHaving ==
  ASSUME BoardInv, NEW s
  PROVE  Hits(s) \subseteq Having(s)
  <1> SUFFICES ASSUME NEW t \in Hits(s) PROVE t \in Having(s)
    OBVIOUS
  <1> DEFINE found(bodies, titles) == {posts[p].topic : p \in bodies} \cup titles
             cut == {Newest(found(bodies, titles), PageSize) :
                       bodies \in Newest(Bodies(s), PageSize), titles \in Newest(Titles(s), PageSize)}
  <1>0. t \in UNION UNION cut
    BY DEF Hits
  <1>1. PICK bodies \in Newest(Bodies(s), PageSize), titles \in Newest(Titles(s), PageSize) :
          \E page \in Newest(found(bodies, titles), PageSize) : t \in page
    <2>1. PICK pages \in cut : \E page \in pages : t \in page
      <3> HIDE DEF cut
      <3> QED BY <1>0
    <2> HIDE DEF found
    <2> QED BY <2>1
  <1>2. t \in {posts[p].topic : p \in bodies} \cup titles
    BY <1>1 DEF Newest
  <1>3. bodies \subseteq Bodies(s) /\ titles \subseteq Titles(s)
    BY DEF Newest
  <1> QED BY <1>2, <1>3, FoundIsHaving

\* The topics are no more than the posts.
LEMMA TopicsAreFew ==
  ASSUME BoardInv, PostsAreFew
  PROVE  IsFiniteSet(DOMAIN topics)
  <1> DEFINE topicOf == [p \in DOMAIN posts |-> posts[p].topic]
  <1>1. topicOf \in Surjection(DOMAIN posts, DOMAIN topics)
    BY DEF Surjection, BoardInv, Core
  <1> QED BY <1>1, FS_Surjection DEF PostsAreFew

LEMMA SearchIsWhole ==
  ASSUME BoardInv, PostsAreFew, NEW s,
         NEW bodies \in Newest(Bodies(s), PageSize), NEW titles \in Newest(Titles(s), PageSize),
         Cardinality(Bodies(s)) <= PageSize, Cardinality(Titles(s)) <= PageSize
  PROVE  {posts[p].topic : p \in bodies} \cup titles = Having(s)
  <1>1. Bodies(s) \in SUBSET DOMAIN posts /\ Titles(s) \in SUBSET DOMAIN topics
    BY DEF Bodies, Titles
  <1>2. IsFiniteSet(Bodies(s)) /\ IsFiniteSet(Titles(s))
    BY <1>1, TopicsAreFew, FS_Subset DEF PostsAreFew
  <1>3. bodies = Bodies(s) /\ titles = Titles(s)
    BY <1>2, PageAssumption, NothingIsCut
  <1> QED BY <1>3, FoundIsHaving

-----------------------------------------------------------------------------
\* The front page counts what a section lists, a line of a list tells what its
\* topic's page shows, and a search that is not cut finds exactly the listed topics
\* that have the words (topics.rs: listed, category_counts; search.rs: search).
THEOREM ListsTellThePage == DeskSpec => []ListsAgree
  <1>1. ASSUME NEW s \in Space, NEW c PROVE CategoryCount(s, c) = Cardinality(InSection(s, c))
    <2>1. {t \in DOMAIN topics : topics[t].space = s /\ ~topics[t].hidden /\ SectionOf(t) = c}
            = InSection(s, c)
      BY DEF InSection, ListedTopics, Visible
    <2> QED BY <2>1 DEF CategoryCount
  <1>2. ASSUME BoardInv, PostsAreFew PROVE ListsAgree
    <2>1. \A s \in Space : \A t \in ListedTopics(s) : t \in DOMAIN topics
      BY DEF ListedTopics
    <2>2. ASSUME NEW s \in Space, NEW t \in ListedTopics(s), NEW x \in Readers[s]
          PROVE  LET row == ListRow(x, t)
                     answers == {p \in PostsOf(t) : ~Opens(p)} IN
                 /\ row.replies = Cardinality(answers)
                 /\ row.opens <=> answers = {}
                 /\ answers # {} =>
                      \E p \in answers : posts[p].author = row.last /\ \A q \in answers : q <= p
      BY <1>2, <2>1, LinesAreTrue
    <2>3. ASSUME NEW s \in Space
          PROVE  /\ Hits(s) \subseteq Having(s)
                 /\ \A bodies \in Newest(Bodies(s), PageSize), titles \in Newest(Titles(s), PageSize) :
                      Cardinality(Bodies(s)) <= PageSize /\ Cardinality(Titles(s)) <= PageSize =>
                        {posts[p].topic : p \in bodies} \cup titles = Having(s)
      BY <1>2, HitsAreHaving, SearchIsWhole
    <2> QED BY <1>1, <2>2, <2>3 DEF ListsAgree, Having
  <1>3. DeskInit => PostsAreFew
    BY FS_EmptySet DEF DeskInit, BoardInit, PostsAreFew
  <1>4. DeskInv /\ PostsAreFew /\ [DeskNext]_deskVars => PostsAreFew'
    BY DeskStepKeeps, PostsStayFew
  <1>5. DeskInv => BoardInv
    BY DEF DeskInv
  <1> QED BY <1>2, <1>3, <1>4, <1>5, DeskIsSound, PTL DEF DeskSpec

-----------------------------------------------------------------------------
(* The bell leads to where its entries were written.                       *)

\* An entry is of the space its topic is in, but for an article, which may move.
InItsSpace ==
  \A k \in DOMAIN inbox :
    topics[posts[k[2]].topic].space = inbox[k].space \/ Mirrored(posts[k[2]].topic)

\* No topic moves that is no article.
Settled ==
  \A t \in DOMAIN topics \cap DOMAIN topics' :
    /\ topics'[t].source = topics[t].source
    /\ topics[t].source = Nobody => topics'[t].space = topics[t].space

\* Posts stay what they are, or go.
Unwavering == \A p \in DOMAIN posts \cap DOMAIN posts' : posts'[p] = posts[p]

LEMMA SpacesKeep ==
  ASSUME BoardInv, BoardInv', InItsSpace, Settled, Unwavering,
         \A k \in DOMAIN inbox' :
           \/ k \in DOMAIN inbox /\ inbox'[k].space = inbox[k].space
           \/ topics'[posts'[k[2]].topic].space = inbox'[k].space
  PROVE  InItsSpace'
  <1> SUFFICES ASSUME NEW k \in DOMAIN inbox', k \in DOMAIN inbox, inbox'[k].space = inbox[k].space
               PROVE  topics'[posts'[k[2]].topic].space = inbox'[k].space \/ Mirrored(posts[k[2]].topic)'
    BY DEF InItsSpace
  <1>1. k[2] \in DOMAIN posts \cap DOMAIN posts'
    BY DEF BoardInv, Rooted
  <1>2. posts'[k[2]] = posts[k[2]]
    BY <1>1 DEF Unwavering
  <1>3. posts[k[2]].topic \in DOMAIN topics \cap DOMAIN topics'
    BY <1>1, <1>2 DEF BoardInv, Core
  <1> QED BY <1>2, <1>3 DEF InItsSpace, Settled, Mirrored

\* What is noted of a post is noted in one space.
LEMMA NotedInSpace ==
  ASSUME NEW bell, NEW s, NEW p, NEW subjects, NEW why,
         NEW k \in DOMAIN Noted(bell, s, p, subjects, why)
  PROVE  LET new == Noted(bell, s, p, subjects, why) IN
         \/ k \in DOMAIN bell /\ new[k] = bell[k]
         \/ k[2] = p /\ new[k].space = s
  BY DEF Noted, With

LEMMA WritingInItsSpace ==
  ASSUME BoardInv, BoardInv', InItsSpace, NEW who, NEW s, NEW m,
         CreateTopic(who, s, m) \/ (\E t : AddReply(who, s, t, m)) \/ (\E p : UpdatePost(who, s, p, m))
  PROVE  InItsSpace'
  <1>0. DOMAIN topics \in SUBSET Id /\ DOMAIN posts \in SUBSET Id
    BY DEF BoardInv, Core, IsTable
  <1>1. CASE CreateTopic(who, s, m)
    <2> DEFINE topic == [space |-> s, source |-> Nobody, hidden |-> FALSE, born |-> clock]
    <2>1. PICK t \in NextId(DOMAIN topics), p \in NextId(DOMAIN posts) :
            /\ topics' = With(topics, Row(t, topic))
            /\ posts' = With(posts, Row(p, [topic |-> t, author |-> who, born |-> clock]))
            /\ inbox' = Noted(inbox, s, p, m, "mention")
      BY <1>1 DEF CreateTopic
    <2> DEFINE post == [topic |-> t, author |-> who, born |-> clock]
    <2>2. /\ t \notin DOMAIN topics /\ DOMAIN topics' = DOMAIN topics \cup {t} /\ topics'[t] = topic
          /\ \A u \in DOMAIN topics : topics'[u] = topics[u]
      <3>1. topics' = With(topics, Row(t, topic))
        BY <2>1
      <3>2. t \in Id /\ t \notin DOMAIN topics
        BY <1>0, NextIdIsFresh
      <3> HIDE DEF topic
      <3> QED BY <3>1, <3>2 DEF With, Row
    <2>3. /\ p \notin DOMAIN posts /\ p \in Id /\ DOMAIN posts' = DOMAIN posts \cup {p}
          /\ posts'[p] = post
          /\ \A q \in DOMAIN posts : posts'[q] = posts[q]
      <3>1. posts' = With(posts, Row(p, post))
        BY <2>1
      <3>2. p \in Id /\ p \notin DOMAIN posts
        BY <1>0, NextIdIsFresh
      <3> HIDE DEF post, topic
      <3> QED BY <3>1, <3>2 DEF With, Row
    <2>4. ASSUME NEW k \in DOMAIN inbox'
          PROVE  \/ k \in DOMAIN inbox /\ inbox'[k].space = inbox[k].space
                 \/ topics'[posts'[k[2]].topic].space = inbox'[k].space
      <3>1. \/ k \in DOMAIN inbox /\ inbox'[k] = inbox[k]
            \/ k[2] = p /\ inbox'[k].space = s
        BY <2>1, <2>4, NotedInSpace
      <3> QED BY <2>2, <2>3, <3>1
    <2>5. Settled /\ Unwavering
      BY <2>2, <2>3 DEF Settled, Unwavering
    <2> QED BY <2>4, <2>5, SpacesKeep
  <1>2. ASSUME NEW t, AddReply(who, s, t, m) PROVE InItsSpace'
    <2>1. PICK p \in NextId(DOMAIN posts) :
            /\ posts' = With(posts, Row(p, [topic |-> t, author |-> who, born |-> clock]))
            /\ inbox' = ReplyBell(Noted(inbox, s, p, m, "mention"), s, t, p, who)
      BY <1>2 DEF AddReply
    <2> DEFINE post == [topic |-> t, author |-> who, born |-> clock]
               bell == Noted(inbox, s, p, m, "mention")
    <2>2. topics' = topics /\ topics[t].space = s
      BY <1>2 DEF AddReply, Visible
    <2>3. /\ p \notin DOMAIN posts /\ DOMAIN posts' = DOMAIN posts \cup {p} /\ posts'[p] = post
          /\ \A q \in DOMAIN posts : posts'[q] = posts[q]
      <3>1. posts' = With(posts, Row(p, post))
        BY <2>1
      <3>2. p \in Id /\ p \notin DOMAIN posts
        BY <1>0, NextIdIsFresh
      <3> HIDE DEF post
      <3> QED BY <3>1, <3>2 DEF With, Row
    <2>4. ASSUME NEW k \in DOMAIN inbox'
          PROVE  \/ k \in DOMAIN inbox /\ inbox'[k].space = inbox[k].space
                 \/ topics'[posts'[k[2]].topic].space = inbox'[k].space
      <3>1. \/ k \in DOMAIN bell /\ inbox'[k] = bell[k]
            \/ k[2] = p /\ inbox'[k].space = s
        <4> HIDE DEF bell
        <4>1. inbox' = Noted(bell, s, p, Followers(t) \ {who}, "reply")
          BY <2>1 DEF ReplyBell, bell
        <4> QED BY <2>4, <4>1, NotedInSpace
      <3>2. k \in DOMAIN bell =>
              \/ k \in DOMAIN inbox /\ bell[k] = inbox[k]
              \/ k[2] = p /\ bell[k].space = s
        BY NotedInSpace
      <3> HIDE DEF bell
      <3> QED BY <2>2, <2>3, <3>1, <3>2
    <2>5. Settled /\ Unwavering
      BY <2>2, <2>3 DEF Settled, Unwavering
    <2> QED BY <2>4, <2>5, SpacesKeep
  <1>3. ASSUME NEW p, UpdatePost(who, s, p, m) PROVE InItsSpace'
    <2>1. /\ inbox' = Noted(inbox, s, p, m, "mention") /\ topics' = topics /\ posts' = posts
          /\ topics[posts[p].topic].space = s
      BY <1>3 DEF UpdatePost, VisiblePost, Visible
    <2>2. ASSUME NEW k \in DOMAIN inbox'
          PROVE  \/ k \in DOMAIN inbox /\ inbox'[k].space = inbox[k].space
                 \/ topics'[posts'[k[2]].topic].space = inbox'[k].space
      BY <2>1, <2>2, NotedInSpace
    <2>3. Settled /\ Unwavering
      BY <2>1 DEF Settled, Unwavering
    <2> QED BY <2>2, <2>3, SpacesKeep
  <1> QED BY <1>1, <1>2, <1>3

LEMMA ChangingInItsSpace ==
  ASSUME BoardInv, BoardInv', InItsSpace, NEW who, NEW s, NEW p,
         \/ DeleteReply(who, s, p) \/ DeleteTopic(who, s, p)
         \/ Like(who, s, p) \/ Unlike(who, s, p)
  PROVE  InItsSpace'
  <1>1. ASSUME NEW f, NEW S PROVE DOMAIN Restrict(f, S) = S /\ \A x \in S : Restrict(f, S)[x] = f[x]
    BY DEF Restrict
  <1>2. CASE DeleteReply(who, s, p) \/ DeleteTopic(who, s, p)
    <2>1. PICK gone : WithoutPosts(gone)
      BY <1>2 DEF DeleteReply, DeleteTopic
    <2>2. /\ posts' = Restrict(posts, DOMAIN posts \ gone)
          /\ inbox' = Restrict(inbox, {k \in DOMAIN inbox : k[2] \notin gone})
      BY <2>1 DEF WithoutPosts
    <2>3. \A k \in DOMAIN inbox' : k \in DOMAIN inbox /\ inbox'[k] = inbox[k]
      BY <1>1, <2>2
    <2>4. Unwavering
      BY <1>1, <2>2 DEF Unwavering
    <2>5. \/ topics' = topics
          \/ topics' = Restrict(topics, DOMAIN topics \ {posts[p].topic})
      BY <1>2 DEF DeleteReply, DeleteTopic
    <2>6. Settled
      BY <1>1, <2>5 DEF Settled
    <2> QED BY <2>3, <2>4, <2>6, SpacesKeep
  <1>3. CASE Like(who, s, p)
    <2>0. PICK owner \in Owners \cup {Nobody} : inbox' = RungBell(s, p, Rings(who, p, owner))
      BY <1>3 DEF Like
    <2>1. /\ topics' = topics /\ posts' = posts
          /\ topics[posts[p].topic].space = s
      BY <1>3 DEF Like, MayLike
    <2>2. inbox \in [DOMAIN inbox -> BellRow]
      BY DEF BoardInv, TypeOK, IsTable
    <2>3. ASSUME NEW k \in DOMAIN inbox'
          PROVE  \/ k \in DOMAIN inbox /\ inbox'[k].space = inbox[k].space
                 \/ topics'[posts'[k[2]].topic].space = inbox'[k].space
      <3>1. CASE k \in DOMAIN inbox
        <4>1. inbox'[k] = inbox[k] \/ inbox'[k] = [inbox[k] EXCEPT !.unread = TRUE]
          BY <2>0, <3>1 DEF RungBell, With
        <4>2. [inbox[k] EXCEPT !.unread = TRUE].space = inbox[k].space
          BY <2>2, <3>1 DEF BellRow
        <4> QED BY <3>1, <4>1, <4>2
      <3>2. CASE k \notin DOMAIN inbox
        <4>1. k[2] = p /\ inbox'[k].space = s
          BY <2>0, <2>3, <3>2 DEF RungBell, With
        <4> QED BY <2>1, <4>1
      <3> QED BY <3>1, <3>2
    <2>4. Settled /\ Unwavering
      BY <2>1 DEF Settled, Unwavering
    <2> QED BY <2>3, <2>4, SpacesKeep
  <1>4. CASE Unlike(who, s, p)
    <2>1. inbox' = BellAfterUnlike(p, likes') /\ topics' = topics /\ posts' = posts
      BY <1>4 DEF Unlike
    <2>2. \A k \in DOMAIN inbox' : k \in DOMAIN inbox /\ inbox'[k] = inbox[k]
      BY <1>1, <2>1 DEF BellAfterUnlike
    <2>3. Settled /\ Unwavering
      BY <2>1 DEF Settled, Unwavering
    <2> QED BY <2>2, <2>3, SpacesKeep
  <1> QED BY <1>2, <1>3, <1>4

LEMMA ReadingInItsSpace ==
  ASSUME BoardInv, BoardInv', InItsSpace, UNCHANGED <<topics, posts>>,
         UNCHANGED inbox \/ \E keys : MarkRead(keys)
  PROVE  InItsSpace'
  <1>1. inbox \in [DOMAIN inbox -> BellRow]
    BY DEF BoardInv, TypeOK, IsTable
  <1>2. ASSUME NEW k \in DOMAIN inbox' PROVE k \in DOMAIN inbox /\ inbox'[k].space = inbox[k].space
    <2>1. CASE UNCHANGED inbox
      BY <1>2, <2>1
    <2>2. ASSUME NEW keys, MarkRead(keys)
          PROVE  k \in DOMAIN inbox /\ inbox'[k].space = inbox[k].space
      <3>1. k \in DOMAIN inbox
        BY <1>2, <2>2 DEF MarkRead
      <3>2. inbox'[k] = inbox[k] \/ inbox'[k] = [inbox[k] EXCEPT !.unread = FALSE]
        BY <2>2, <3>1 DEF MarkRead
      <3>3. [inbox[k] EXCEPT !.unread = FALSE].space = inbox[k].space
        BY <1>1, <3>1 DEF BellRow
      <3> QED BY <3>1, <3>2, <3>3
    <2> QED BY <2>1, <2>2
  <1>3. Settled /\ Unwavering
    BY DEF Settled, Unwavering
  <1> QED BY <1>2, <1>3, SpacesKeep

LEMMA MirroringInItsSpace ==
  ASSUME BoardInv, BoardInv', InItsSpace, NEW key \in SourceKey, NEW s, MirrorStep(key, s)
  PROVE  InItsSpace'
  <1>1. PICK t : OnlyArticle(t, key)
    BY MirrorNewShape, MirrorAgainShape, HideMissingShape DEF MirrorStep
  <1>2. Settled
    BY <1>1, SourceKeyAssumption DEF OnlyArticle, Settled
  <1>3. (\E p \in Id : Grown(p)) \/ Kept
    BY MirrorNewShape, MirrorAgainShape, HideMissingShape DEF MirrorStep
  <1>4. Unwavering
    BY <1>3 DEF Unwavering, Grown, Kept
  <1>5. inbox' = inbox
    BY DEF MirrorStep, MirrorNew, MirrorAgain, HideMissing
  <1> QED BY <1>2, <1>4, <1>5, SpacesKeep

LEMMA StaysInItsSpace == BoardInv /\ InItsSpace /\ [BoardNext]_boardVars => InItsSpace'
  <1> SUFFICES ASSUME BoardInv, InItsSpace, [BoardNext]_boardVars PROVE InItsSpace'
    OBVIOUS
  <1>0. BoardInv'
    BY StepKeeps
  <1>1. ASSUME NEW who \in Person, NEW s \in Space, PersonStep(who, s) PROVE InItsSpace'
    <2>1. CASE \/ \E m \in SUBSET (Person \ {who}) : CreateTopic(who, s, m)
               \/ \E t \in DOMAIN topics, m \in SUBSET (Person \ {who}) : AddReply(who, s, t, m)
               \/ \E p \in DOMAIN posts, m \in SUBSET (Person \ {who}) : UpdatePost(who, s, p, m)
      BY <1>0, <2>1, WritingInItsSpace
    <2>2. CASE \E p \in DOMAIN posts : \/ DeleteReply(who, s, p) \/ DeleteTopic(who, s, p)
                                       \/ Like(who, s, p) \/ Unlike(who, s, p)
      BY <1>0, <2>2, ChangingInItsSpace
    <2>3. CASE \E t \in DOMAIN topics : Follow(who, s, t) \/ Unfollow(who, s, t) \/ MarkTopicRead(who, s, t)
      BY <1>0, <2>3, ReadingInItsSpace DEF Follow, Unfollow, MarkTopicRead
    <2> QED BY <1>1, <2>1, <2>2, <2>3 DEF PersonStep
  <1>2. ASSUME NEW who, NEW spaces, MarkAllRead(who, spaces) PROVE InItsSpace'
    BY <1>0, <1>2, ReadingInItsSpace DEF MarkAllRead
  <1>3. ASSUME NEW who, NEW on, SetMentionMail(who, on) PROVE InItsSpace'
    BY <1>0, <1>3, ReadingInItsSpace DEF SetMentionMail
  <1>4. ASSUME NEW key \in SourceKey, NEW s \in Space, MirrorStep(key, s) PROVE InItsSpace'
    BY <1>0, <1>4, MirroringInItsSpace
  <1>5. CASE UNCHANGED boardVars
    BY <1>0, <1>5, ReadingInItsSpace DEF boardVars
  <1> QED BY <1>1, <1>2, <1>3, <1>4, <1>5 DEF BoardNext

-----------------------------------------------------------------------------
(* The handlers' answers.                                                  *)

\* What the handlers answer a reader of the space, request by request.
LEMMA ReplyAnswered ==
  ASSUME NEW x, NEW s, MayRead(x, s), NEW of,
         NEW what \in {"reply", "attach"}
  PROVE  HandlerAnswer(x, s, what, of) = ReplyAnswer(x, s, of)
  BY DEF HandlerAnswer

LEMMA NewTopicAnswered ==
  ASSUME NEW x, NEW s, MayRead(x, s), NEW of
  PROVE  HandlerAnswer(x, s, "new", of) = NewTopicAnswer(x, s, of)
  BY DEF HandlerAnswer

LEMMA SectionAnswered ==
  ASSUME NEW x, NEW s, MayRead(x, s), NEW of
  PROVE  HandlerAnswer(x, s, "section", of) = IF of \in Configured(s) THEN "done" ELSE "not found"
  BY DEF HandlerAnswer

LEMMA LikeAnswered ==
  ASSUME NEW x, NEW s, MayRead(x, s), NEW of
  PROVE  HandlerAnswer(x, s, "like", of) = LikeAnswer(x, s, of)
  BY DEF HandlerAnswer

LEMMA EditAnswered ==
  ASSUME NEW x, NEW s, MayRead(x, s), NEW of
  PROVE  HandlerAnswer(x, s, "edit", of) = EditAnswer(x, s, of)
  BY DEF HandlerAnswer

LEMMA QuestionAnswered ==
  ASSUME NEW x, NEW s, MayRead(x, s), NEW of
  PROVE  HandlerAnswer(x, s, "ask", of) = QuestionAnswer(x, s, of)
  BY DEF HandlerAnswer

LEMMA DeleteAnswered ==
  ASSUME NEW x, NEW s, MayRead(x, s), NEW of
  PROVE  HandlerAnswer(x, s, "delete", of) = DeleteAnswer(x, s, of)
  BY DEF HandlerAnswer

LEMMA TopicAnswered ==
  ASSUME NEW x, NEW s, MayRead(x, s), NEW of,
         NEW what \in {"topic", "follow", "unfollow"}
  PROVE  HandlerAnswer(x, s, what, of) = IF Visible(s, of) THEN "done" ELSE "not found"
  BY DEF HandlerAnswer

LEMMA PlainAnswered ==
  ASSUME NEW x, NEW s, MayRead(x, s), NEW of,
         NEW what \in {"search", "notifications", "sign out", "read all", "mails on", "mails off"}
  PROVE  HandlerAnswer(x, s, what, of) = "done"
  BY DEF HandlerAnswer

\* Nobody else gets an answer that is worth having.
LEMMA OthersAreTurnedAway ==
  ASSUME NEW x, NEW s, ~MayRead(x, s), NEW what, NEW of
  PROVE  HandlerAnswer(x, s, what, of) # "done"
  BY DEF HandlerAnswer, ReplyAnswer, NewTopicAnswer

-----------------------------------------------------------------------------
(* What the pages offer.                                                   *)

Done(x, s, request) == HandlerAnswer(x, s, request[1], request[2]) = "done"

\* Done, or the question before deleting, which may end at the answers below the post.
Works(x, s, request) ==
  \/ Done(x, s, request)
  \/ /\ request[1] = "delete" /\ HandlerAnswer(x, s, request[1], request[2]) = "conflict"
     /\ \E q \in PostsOf(posts[request[2]].topic) : posts[q].author # x

\* Links to listed topics and to sections lead somewhere.
LEMMA LinksWork ==
  ASSUME NEW x, NEW s, MayRead(x, s)
  PROVE  /\ \A rows \in SUBSET ListedTopics(s) : \A request \in LinksTo(rows) : Done(x, s, request)
         /\ \A request \in SectionNav(s) : Done(x, s, request)
  <1>1. ASSUME NEW rows \in SUBSET ListedTopics(s), NEW request \in LinksTo(rows)
        PROVE  Done(x, s, request)
    <2>1. PICK t \in rows : request = <<"topic", t>>
      BY DEF LinksTo
    <2>2. Visible(s, t)
      BY DEF ListedTopics
    <2>3. HandlerAnswer(x, s, "topic", t) = "done"
      BY <2>2, TopicAnswered
    <2> QED BY <2>1, <2>3 DEF Done
  <1>2. ASSUME NEW request \in SectionNav(s) PROVE Done(x, s, request)
    <2>1. PICK c \in Configured(s) : request = <<"section", c>>
      BY DEF SectionNav
    <2>2. HandlerAnswer(x, s, "section", c) = "done"
      BY SectionAnswered
    <2> QED BY <2>1, <2>2 DEF Done
  <1> QED BY <1>1, <1>2

\* A heart can be pressed wherever it is a button.
LEMMA HeartsWork ==
  ASSUME NEW x, NEW s, MayRead(x, s), NEW p \in DOMAIN posts, topics[posts[p].topic].space = s,
         NEW request \in LikeControl(x, p)
  PROVE  Done(x, s, request)
  <1>1. request = <<"like", p>> /\ posts[p].author # x
    BY DEF LikeControl
  <1>2. HandlerAnswer(x, s, "like", p) = LikeAnswer(x, s, p)
    BY LikeAnswered
  <1>3. LikeAnswer(x, s, p) = "done"
    BY <1>1 DEF LikeAnswer
  <1> QED BY <1>1, <1>2, <1>3 DEF Done

\* views.rs: space_page, for any section that is configured and any rows of it.
LEMMA SpacePageWorks ==
  ASSUME BoardInv, PostsAreFew, NEW x, NEW s, MayRead(x, s), NEW c \in Configured(s),
         NEW page \in RenderSpace(x, s, c), NEW request \in page
  PROVE  Done(x, s, request)
  <1>1. PICK rows \in Newest(InSection(s, c), PageSize) : page = SpacePage(x, s, c, rows)
    BY DEF RenderSpace
  <1>2. rows \in SUBSET ListedTopics(s)
    BY DEF Newest, InSection
  <1>3. CASE request \in LinksTo(rows) \cup SectionNav(s)
    BY <1>2, <1>3, LinksWork
  <1>4. CASE request \in UNION {LikeControl(x, FirstPost(t)) : t \in rows}
    <2>1. PICK t \in rows : request \in LikeControl(x, FirstPost(t))
      BY <1>4
    <2>2. t \in DOMAIN topics /\ topics[t].space = s
      BY <1>2 DEF ListedTopics, Visible
    <2>3. FirstPost(t) \in DOMAIN posts /\ posts[FirstPost(t)].topic = t
      BY <2>2, PostsInOrder DEF PostsOf
    <2> QED BY <2>1, <2>2, <2>3, HeartsWork
  <1>5. CASE request = <<"new", c>> /\ MayPost(x, c)
    <2>1. HandlerAnswer(x, s, "new", c) = NewTopicAnswer(x, s, c)
      BY NewTopicAnswered
    <2> QED BY <1>5, <2>1 DEF Done, NewTopicAnswer
  <1> QED BY <1>1, <1>3, <1>4, <1>5 DEF SpacePage

\* views.rs: topic_page, for any listed topic.
LEMMA TopicPageWorks ==
  ASSUME NEW x, NEW s, MayRead(x, s), NEW t \in ListedTopics(s), NEW request \in TopicPage(x, s, t)
  PROVE  Done(x, s, request)
  <1>1. t \in DOMAIN topics /\ Visible(s, t) /\ topics[t].space = s
    BY DEF ListedTopics, Visible
  <1>2. CASE request \in {<<"unfollow", t>>, <<"follow", t>>}
    <2>1. HandlerAnswer(x, s, "unfollow", t) = "done" /\ HandlerAnswer(x, s, "follow", t) = "done"
      BY <1>1, TopicAnswered
    <2> QED BY <1>2, <2>1 DEF Done
  <1>3. CASE SectionOf(t) \in Configured(s) /\ request = <<"section", SectionOf(t)>>
    <2>1. HandlerAnswer(x, s, "section", SectionOf(t)) = "done"
      BY <1>3, SectionAnswered
    <2> QED BY <1>3, <2>1 DEF Done
  <1>4. CASE request \in UNION {LikeControl(x, p) \cup OwnControls(x, p) : p \in PostsOf(t)}
    <2>1. PICK p \in PostsOf(t) : request \in LikeControl(x, p) \cup OwnControls(x, p)
      BY <1>4
    <2>2. p \in DOMAIN posts /\ posts[p].topic = t
      BY DEF PostsOf
    <2>3. CASE request \in LikeControl(x, p)
      BY <1>1, <2>2, <2>3, HeartsWork
    <2>4. CASE request \in OwnControls(x, p)
      <3>1. request \in {<<"edit", p>>, <<"ask", p>>} /\ MayModify(x, p)
        BY <2>4 DEF OwnControls
      <3>2. VisiblePost(s, p)
        BY <1>1, <2>2 DEF VisiblePost
      <3>3. /\ HandlerAnswer(x, s, "edit", p) = EditAnswer(x, s, p)
            /\ HandlerAnswer(x, s, "ask", p) = QuestionAnswer(x, s, p)
        BY EditAnswered, QuestionAnswered
      <3>4. EditAnswer(x, s, p) = "done" /\ QuestionAnswer(x, s, p) = "done"
        BY <3>1, <3>2 DEF EditAnswer, QuestionAnswer
      <3> QED BY <3>1, <3>3, <3>4 DEF Done
    <2> QED BY <2>1, <2>3, <2>4
  <1>5. CASE request \in ReplyFold(x, s, t)
    <2>1. /\ request \in {<<"reply", t>>, <<"attach", t>>}
          /\ SectionOf(t) \in Configured(s) /\ MayReply(x, SectionOf(t))
      BY <1>5 DEF ReplyFold
    <2>2. ReplyAnswer(x, s, t) = "done"
      BY <1>1, <2>1 DEF ReplyAnswer
    <2>3. \A what \in {"reply", "attach"} : HandlerAnswer(x, s, what, t) = ReplyAnswer(x, s, t)
      BY ReplyAnswered
    <2> QED BY <2>1, <2>2, <2>3 DEF Done
  <1>6. \/ request \in {<<"unfollow", t>>, <<"follow", t>>}
        \/ SectionOf(t) \in Configured(s) /\ request = <<"section", SectionOf(t)>>
        \/ request \in UNION {LikeControl(x, p) \cup OwnControls(x, p) : p \in PostsOf(t)}
        \/ request \in ReplyFold(x, s, t)
    BY DEF TopicPage
  <1> QED BY <1>2, <1>3, <1>4, <1>5, <1>6

\* views.rs: delete_page; the answer may be that others have written below.
LEMMA QuestionWorks ==
  ASSUME NEW x, NEW s, MayRead(x, s), NEW p \in DOMAIN posts, VisiblePost(s, p), MayModify(x, p),
         NEW request \in DeleteQuestion(p)
  PROVE  Works(x, s, request)
  <1>1. CASE request = <<"topic", posts[p].topic>>
    <2>1. HandlerAnswer(x, s, "topic", posts[p].topic) = "done"
      BY TopicAnswered DEF VisiblePost
    <2> QED BY <1>1, <2>1 DEF Works, Done
  <1>2. CASE request = <<"delete", p>>
    <2>1. HandlerAnswer(x, s, "delete", p) =
            IF Opens(p) /\ ~AloneIn(x, posts[p].topic) THEN "conflict" ELSE "done"
      BY DeleteAnswered DEF DeleteAnswer
    <2> QED BY <1>2, <2>1 DEF Works, Done, AloneIn
  <1> QED BY <1>1, <1>2 DEF DeleteQuestion

\* Whatever a page offers somebody, its handler does.
LEMMA OffersWork ==
  ASSUME BoardInv, PostsAreFew, NEW x, NEW s \in Space, NEW request \in UNION PagesOf(x, s)
  PROVE  MayRead(x, s) /\ Works(x, s, request)
  <1>1. MayRead(x, s)
    BY DEF PagesOf
  <1>2. PICK page \in PagesOf(x, s) : request \in page
    OBVIOUS
  <1>3. CASE \E c \in Configured(s) : page \in RenderSpace(x, s, c)
    BY <1>1, <1>2, <1>3, SpacePageWorks DEF Works
  <1>4. CASE page \in {CategoryIndex(s, rows) : rows \in Newest(ListedTopics(s), Recent)}
    <2>1. PICK rows \in Newest(ListedTopics(s), Recent) : page = CategoryIndex(s, rows)
      BY <1>4
    <2>2. rows \in SUBSET ListedTopics(s)
      BY DEF Newest
    <2> QED BY <1>1, <1>2, <2>1, <2>2, LinksWork DEF CategoryIndex, Works
  <1>5. CASE page \in TopicPages(x, s)
    BY <1>1, <1>2, <1>5, TopicPageWorks DEF TopicPages, Works
  <1>6. CASE page \in Questions(x, s)
    BY <1>1, <1>2, <1>6, QuestionWorks DEF Questions
  <1>7. CASE page = SearchPage(s, Hits(s))
    <2>1. Hits(s) \in SUBSET ListedTopics(s)
      BY HitsAreHaving DEF Having, InSection
    <2> QED BY <1>1, <1>2, <1>7, <2>1, LinksWork DEF SearchPage, Works
  <1>8. CASE page \in {NotificationsPage(x), Header}
    <2> DEFINE always == {"search", "notifications", "sign out", "read all", "mails on", "mails off"}
    <2>1. PICK what \in always : request = <<what, 0>>
      <3>1. CASE page = Header
        BY <1>2, <3>1 DEF Header
      <3>2. CASE page = NotificationsPage(x)
        <4>1. request \in {<<"read all", 0>>} \cup {<<"mails on", 0>>, <<"mails off", 0>>}
          BY <1>2, <3>2 DEF NotificationsPage
        <4> QED BY <4>1
      <3> QED BY <1>8, <3>1, <3>2
    <2>2. HandlerAnswer(x, s, what, 0) = "done"
      BY <1>1, PlainAnswered
    <2> QED BY <1>1, <2>1, <2>2 DEF Works, Done
  <1>9. page \in SpaceIndex(x, s) =>
          \/ \E c \in Configured(s) : page \in RenderSpace(x, s, c)
          \/ page \in {CategoryIndex(s, rows) : rows \in Newest(ListedTopics(s), Recent)}
    <2>1. Sections[s][1] \in Configured(s)
      BY ConfigurationAssumption DEF Configured
    <2> QED BY <2>1 DEF SpaceIndex
  <1>10. page \in SpaceCategory(x, s) => \E c \in Configured(s) : page \in RenderSpace(x, s, c)
    BY DEF SpaceCategory
  <1> QED BY <1>1, <1>2, <1>3, <1>4, <1>5, <1>6, <1>7, <1>8, <1>9, <1>10 DEF PagesOf

-----------------------------------------------------------------------------
(* What the handlers would do is offered.                                  *)

\* A list of finitely many rows has a page.
LEMMA SomePageIsThere ==
  ASSUME NEW rows, IsFiniteSet(rows), NEW n \in Nat
  PROVE  Newest(rows, n) # {}
  <1>1. Cardinality(rows) \in Nat /\ ExistsBijection(1 .. Cardinality(rows), rows)
    BY FS_CardinalityType
  <1>2. CASE Cardinality(rows) < n
    BY <1>2 DEF Newest
  <1>3. CASE ~(Cardinality(rows) < n)
    <2>1. PICK at \in Bijection(1 .. Cardinality(rows), rows) : TRUE
      BY <1>1 DEF ExistsBijection
    <2> DEFINE page == {at[i] : i \in 1 .. n}
               name == [i \in 1 .. n |-> at[i]]
    <2>2. 1 .. n \subseteq 1 .. Cardinality(rows)
      BY <1>1, <1>3
    <2>3. page \subseteq rows /\ name \in Bijection(1 .. n, page)
      BY <2>1, <2>2 DEF Bijection, Injection, IsInjective, Surjection
    <2>4. IsFiniteSet(1 .. n) /\ Cardinality(1 .. n) = n
      BY FS_Interval
    <2> HIDE DEF page, name
    <2>5. Cardinality(page) = n
      BY <2>3, <2>4, NamesAreAsMany
    <2> QED BY <1>3, <2>3, <2>5 DEF Newest
  <1> QED BY <1>2, <1>3

\* What a reader of the space finds on the topics' pages and behind the baskets.
LEMMA TopicsOffer ==
  ASSUME NEW x, NEW s, MayRead(x, s)
  PROVE  /\ \A t \in ListedTopics(s) : \A request \in TopicPage(x, s, t) : request \in UNION PagesOf(x, s)
         /\ \A p \in DOMAIN posts : VisiblePost(s, p) /\ MayModify(x, p) =>
              <<"delete", p>> \in UNION PagesOf(x, s)
  <1>1. ASSUME NEW t \in ListedTopics(s) PROVE TopicPage(x, s, t) \in PagesOf(x, s)
    BY DEF PagesOf, TopicPages
  <1>2. ASSUME NEW p \in DOMAIN posts, VisiblePost(s, p), MayModify(x, p)
        PROVE  DeleteQuestion(p) \in PagesOf(x, s) /\ <<"delete", p>> \in DeleteQuestion(p)
    BY <1>2 DEF PagesOf, Questions, DeleteQuestion
  <1> QED BY <1>1, <1>2

\* What a handler of a topic page would do is offered there, but a withdrawn article's heart.
LEMMA RepliesAreOffered ==
  ASSUME NEW x, NEW s, MayRead(x, s), NEW t, ReplyAnswer(x, s, t) = "done"
  PROVE  <<"reply", t>> \in UNION PagesOf(x, s) /\ <<"attach", t>> \in UNION PagesOf(x, s)
  <1>1. Visible(s, t) /\ SectionOf(t) \in Configured(s) /\ MayReply(x, SectionOf(t))
    BY DEF ReplyAnswer
  <1>2. t \in ListedTopics(s)
    BY <1>1 DEF ListedTopics, Visible
  <1>3. <<"reply", t>> \in ReplyFold(x, s, t) /\ <<"attach", t>> \in ReplyFold(x, s, t)
    BY <1>1 DEF ReplyFold
  <1>4. ReplyFold(x, s, t) \subseteq TopicPage(x, s, t)
    BY DEF TopicPage
  <1> QED BY <1>2, <1>3, <1>4, TopicsOffer

LEMMA HeartsAreOffered ==
  ASSUME BoardInv, NEW x, NEW s, MayRead(x, s), NEW p, LikeAnswer(x, s, p) = "done"
  PROVE  <<"like", p>> \in UNION PagesOf(x, s) \/ topics[posts[p].topic].hidden
  <1>1. p \in DOMAIN posts /\ topics[posts[p].topic].space = s /\ posts[p].author # x
    BY DEF LikeAnswer
  <1> SUFFICES ASSUME ~topics[posts[p].topic].hidden PROVE <<"like", p>> \in UNION PagesOf(x, s)
    OBVIOUS
  <1>2. posts[p].topic \in ListedTopics(s) /\ p \in PostsOf(posts[p].topic)
    BY <1>1 DEF BoardInv, Core, ListedTopics, Visible, PostsOf
  <1>3. <<"like", p>> \in LikeControl(x, p)
    BY <1>1 DEF LikeControl
  <1>4. <<"like", p>> \in TopicPage(x, s, posts[p].topic)
    BY <1>2, <1>3 DEF TopicPage
  <1> QED BY <1>2, <1>4, TopicsOffer

LEMMA PencilsAreOffered ==
  ASSUME NEW x, NEW s, MayRead(x, s), NEW p, EditAnswer(x, s, p) = "done"
  PROVE  <<"edit", p>> \in UNION PagesOf(x, s)
  <1>1. VisiblePost(s, p) /\ MayModify(x, p)
    BY DEF EditAnswer
  <1>2. posts[p].topic \in ListedTopics(s) /\ p \in PostsOf(posts[p].topic)
    BY <1>1 DEF VisiblePost, ListedTopics, Visible, PostsOf
  <1>3. <<"edit", p>> \in OwnControls(x, p)
    BY <1>1 DEF OwnControls
  <1>4. <<"edit", p>> \in TopicPage(x, s, posts[p].topic)
    BY <1>2, <1>3 DEF TopicPage
  <1> QED BY <1>2, <1>4, TopicsOffer

LEMMA BasketsAreOffered ==
  ASSUME NEW x, NEW s, MayRead(x, s), NEW p, DeleteAnswer(x, s, p) = "done"
  PROVE  <<"delete", p>> \in UNION PagesOf(x, s)
  <1>1. p \in DOMAIN posts /\ VisiblePost(s, p) /\ MayModify(x, p)
    BY DEF DeleteAnswer, VisiblePost
  <1> QED BY <1>1, TopicsOffer

\* What is not offered would not be done, but for following and a withdrawn article's heart.
LEMMA NothingIsWithheld ==
  ASSUME BoardInv, NEW x, NEW s, NEW of
  PROVE  /\ \A what \in {"reply", "attach", "edit", "delete"} :
              <<what, of>> \in UNION PagesOf(x, s) \/ HandlerAnswer(x, s, what, of) # "done"
         /\ \/ <<"like", of>> \in UNION PagesOf(x, s)
            \/ HandlerAnswer(x, s, "like", of) # "done"
            \/ topics[posts[of].topic].hidden
  <1>1. CASE ~MayRead(x, s)
    BY <1>1, OthersAreTurnedAway
  <1>2. CASE MayRead(x, s)
    <2>1. \A what \in {"reply", "attach"} :
            <<what, of>> \in UNION PagesOf(x, s) \/ HandlerAnswer(x, s, what, of) # "done"
      <3>1. \A what \in {"reply", "attach"} : HandlerAnswer(x, s, what, of) = ReplyAnswer(x, s, of)
        BY <1>2, ReplyAnswered
      <3> QED BY <1>2, <3>1, RepliesAreOffered
    <2>2. <<"edit", of>> \in UNION PagesOf(x, s) \/ HandlerAnswer(x, s, "edit", of) # "done"
      <3>1. HandlerAnswer(x, s, "edit", of) = EditAnswer(x, s, of)
        BY <1>2, EditAnswered
      <3> QED BY <1>2, <3>1, PencilsAreOffered
    <2>3. <<"delete", of>> \in UNION PagesOf(x, s) \/ HandlerAnswer(x, s, "delete", of) # "done"
      <3>1. HandlerAnswer(x, s, "delete", of) = DeleteAnswer(x, s, of)
        BY <1>2, DeleteAnswered
      <3> QED BY <1>2, <3>1, BasketsAreOffered
    <2>4. \/ <<"like", of>> \in UNION PagesOf(x, s)
          \/ HandlerAnswer(x, s, "like", of) # "done"
          \/ topics[posts[of].topic].hidden
      <3>1. HandlerAnswer(x, s, "like", of) = LikeAnswer(x, s, of)
        BY <1>2, LikeAnswered
      <3> QED BY <1>2, <3>1, HeartsAreOffered
    <2> QED BY <2>1, <2>2, <2>3, <2>4
  <1> QED BY <1>1, <1>2

\* The way to a new topic is on the section's page.
LEMMA NewIsOffered ==
  ASSUME BoardInv, PostsAreFew, NEW x, NEW s, NEW c \in Configured(s),
         HandlerAnswer(x, s, "new", c) = "done"
  PROVE  <<"new", c>> \in UNION PagesOf(x, s)
  <1>1. MayRead(x, s)
    BY OthersAreTurnedAway
  <1>2. MayPost(x, c)
    <2>1. NewTopicAnswer(x, s, c) = "done"
      BY <1>1, NewTopicAnswered
    <2> QED BY <2>1 DEF NewTopicAnswer
  <1>3. PICK rows \in Newest(InSection(s, c), PageSize) : TRUE
    <2>1. InSection(s, c) \in SUBSET DOMAIN topics
      BY DEF InSection, ListedTopics
    <2>2. IsFiniteSet(InSection(s, c))
      BY <2>1, TopicsAreFew, FS_Subset
    <2> QED BY <2>2, PageAssumption, SomePageIsThere
  <1>4. SpacePage(x, s, c, rows) \in PagesOf(x, s)
    BY <1>1, <1>3 DEF PagesOf, SpaceCategory, RenderSpace
  <1>5. <<"new", c>> \in SpacePage(x, s, c, rows)
    BY <1>2 DEF SpacePage
  <1> QED BY <1>4, <1>5

\* A line of the bell leads to a topic of the space it names, but for an article.
LEMMA LinesLead ==
  ASSUME BoardInv, InItsSpace, NEW x, NEW line \in Entries(x)
  PROVE  Visible(line[1], line[2]) \/ Mirrored(line[2])
  <1>1. PICK k \in DOMAIN inbox : /\ line = <<inbox[k].space, posts[k[2]].topic>>
                                 /\ ~topics[posts[k[2]].topic].hidden
    <2> DEFINE spaces == ReadableSpaces(x)
               keys == Listed(x, spaces, "reply") \cup Listed(x, spaces, "mention")
                         \cup {e \in Listed(x, spaces, "like") : \E l \in likes : l[1] = e[2]}
    <2>1. PICK k \in keys : line = <<inbox[k].space, posts[k[2]].topic>>
      BY DEF Entries
    <2>2. k \in DOMAIN inbox /\ ~topics[posts[k[2]].topic].hidden
      BY DEF Listed
    <2> QED BY <2>1, <2>2
  <1>2. posts[k[2]].topic \in DOMAIN topics
    BY DEF BoardInv, Rooted, Core
  <1> QED BY <1>1, <1>2 DEF InItsSpace, Visible

\* Display follows the right: a page offers somebody what its handler does for them,
\* and nothing else, whatever the configuration grants (web/views.rs, web/mod.rs).
THEOREM ControlsWork == DeskSpec => []ButtonsWork
  <1>1. ASSUME BoardInv, PostsAreFew, InItsSpace, NEW x \in Person, NEW s \in Space
        PROVE  LET offered == UNION PagesOf(x, s) IN
               /\ \A request \in offered :
                    \/ HandlerAnswer(x, s, request[1], request[2]) = "done"
                    \/ /\ request[1] = "delete"
                       /\ HandlerAnswer(x, s, request[1], request[2]) = "conflict"
                       /\ \E q \in PostsOf(posts[request[2]].topic) : posts[q].author # x
               /\ \A request \in Requests \ offered :
                    \/ HandlerAnswer(x, s, request[1], request[2]) # "done"
                    \/ request[1] \in {"follow", "unfollow"}
                    \/ request[1] = "like" /\ topics[posts[request[2]].topic].hidden
               /\ \A c \in Configured(s) :
                    <<"new", c>> \in offered <=> HandlerAnswer(x, s, "new", c) = "done"
               /\ \A line \in Entries(x) : Visible(line[1], line[2]) \/ Mirrored(line[2])
    <2> DEFINE offered == UNION PagesOf(x, s)
    <2>1. ASSUME NEW request \in offered PROVE Works(x, s, request)
      BY <1>1, <2>1, OffersWork
    <2>2. ASSUME NEW request \in Requests \ offered,
                 HandlerAnswer(x, s, request[1], request[2]) = "done",
                 request[1] \notin {"follow", "unfollow"}
          PROVE  request[1] = "like" /\ topics[posts[request[2]].topic].hidden
      <3>1. /\ request = <<request[1], request[2]>>
            /\ request[1] \in {"reply", "attach", "like", "edit", "delete"}
        BY <2>2 DEF Requests
      <3> HIDE DEF offered
      <3>2. request \notin UNION PagesOf(x, s)
        BY <2>2 DEF offered
      <3>3. request[1] # "like" => HandlerAnswer(x, s, request[1], request[2]) # "done"
        BY <1>1, <3>1, <3>2, NothingIsWithheld
      <3>4. <<"like", request[2]>> \in UNION PagesOf(x, s)
              \/ HandlerAnswer(x, s, "like", request[2]) # "done"
              \/ topics[posts[request[2]].topic].hidden
        BY <1>1, NothingIsWithheld
      <3>5. request[1] = "like"
        BY <2>2, <3>3
      <3> QED BY <2>2, <3>1, <3>2, <3>4, <3>5
    <2>3. ASSUME NEW c \in Configured(s)
          PROVE  <<"new", c>> \in offered <=> HandlerAnswer(x, s, "new", c) = "done"
      <3>1. ASSUME <<"new", c>> \in offered PROVE HandlerAnswer(x, s, "new", c) = "done"
        <4>1. Works(x, s, <<"new", c>>)
          BY <2>1, <3>1
        <4> QED BY <4>1 DEF Works, Done
      <3> QED BY <1>1, <3>1, NewIsOffered
    <2>4. ASSUME NEW line \in Entries(x) PROVE Visible(line[1], line[2]) \/ Mirrored(line[2])
      BY <1>1, LinesLead
    <2> QED BY <2>1, <2>2, <2>3, <2>4 DEF Works, Done
  <1>2. BoardInv /\ PostsAreFew /\ InItsSpace => ButtonsWork
    BY <1>1 DEF ButtonsWork
  <1>3. DeskInit => PostsAreFew /\ InItsSpace
    BY FS_EmptySet DEF DeskInit, BoardInit, PostsAreFew, InItsSpace
  <1>4. DeskInv => BoardInv
    BY DEF DeskInv
  <1>5. DeskInv /\ PostsAreFew /\ InItsSpace /\ [DeskNext]_deskVars => (PostsAreFew /\ InItsSpace)'
    BY <1>4, DeskStepKeeps, PostsStayFew, StaysInItsSpace
  <1> QED BY <1>2, <1>3, <1>4, <1>5, DeskIsSound, PTL DEF DeskSpec
============================================================================
