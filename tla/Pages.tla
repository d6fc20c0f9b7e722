------------------------------- MODULE Pages -------------------------------
(***************************************************************************)
(* What the pages show and offer (web/views.rs and the handlers that fill  *)
(* them), next to what the handlers behind the controls do (web/mod.rs),   *)
(* on the tables of module Desk.  The two are written apart: a page asks   *)
(* the configuration whether a person gets a control, the handler asks the *)
(* configuration and the tables again when it is pressed.                  *)
(*                                                                         *)
(* A page is the set of requests its controls and links send: <<what, of   *)
(* which number or section>>.  Words, layout and the order of lists are    *)
(* left out: a list cut to its first rows is any rows of that number.      *)
(***************************************************************************)
EXTENDS Desk

CONSTANTS
  Groups,       \* person -> the groups of the last sign-in
  Read,         \* space -> the groups that may read it
  Sections,     \* space -> its categories, as configured, in order
  Post,         \* section -> the groups that may open a topic in it
  Answer,       \* section -> the groups that may reply in it
  Filed,        \* born of a topic -> the section it was opened in
  Timelines,    \* the spaces shown as a timeline
  HasWord,      \* born of the posts, and the topics' titles, that have the words looked for
  PageSize,     \* PAGE_SIZE: rows of a list, and hits of a search
  Recent        \* RECENT: rows of the front page

ASSUME PageAssumption == {PageSize, Recent} \subseteq Nat \ {0}
ASSUME ConfigurationAssumption ==
  \A s \in Space : 1 \in DOMAIN Sections[s] /\ Read[s] # {}

-----------------------------------------------------------------------------
(* Rights: authz.rs, on the configuration.                                 *)

\* An empty list of groups grants nothing.
InAny(x, groups) == Groups[x] \cap groups # {}

MayRead(x, s)   == InAny(x, Read[s])
MayPost(x, c)   == InAny(x, Post[c])
MayReply(x, c)  == InAny(x, Answer[c])
MayModify(x, p) == posts[p].author = x

\* The readers module Desk speaks of are these.
ASSUME RightsAssumption == \A s \in Space : Readers[s] = {x \in Person : MayRead(x, s)}

\* Space::category.
Configured(s) == {Sections[s][i] : i \in DOMAIN Sections[s]}

\* An article is in the first section of its space, whatever moved it there.
SectionOf(t) == IF Mirrored(t) THEN Sections[topics[t].space][1] ELSE Filed[topics[t].born]

-----------------------------------------------------------------------------
(* What the lists find.                                                    *)

\* The first n of the rows, in whatever order they are.
Newest(rows, n) ==
  {page \in SUBSET rows : Cardinality(page) = IF Cardinality(rows) < n THEN Cardinality(rows) ELSE n}

InSection(s, c) == {t \in ListedTopics(s) : SectionOf(t) = c}

FirstPost(t) == CHOOSE p \in PostsOf(t) : \A q \in PostsOf(t) : p <= q
LastPost(t)  == CHOOSE p \in PostsOf(t) : \A q \in PostsOf(t) : q <= p

\* One line of a list: the numbers, the last writer, and whether that post opens
\* the topic; a line that says so names nobody.
ListRow(x, t) ==
  [replies |-> Cardinality(PostsOf(t)) - 1, opens |-> LastPost(t) = FirstPost(t),
   last |-> posts[LastPost(t)].author, unread |-> UnreadMark(x, t)]

\* How many topics the front page says a section has.
CategoryCount(s, c) ==
  Cardinality({t \in DOMAIN topics : topics[t].space = s /\ ~topics[t].hidden /\ SectionOf(t) = c})

\* Mutant: withdrawn articles are found.
BodiesWithdrawn(s) ==
  {p \in DOMAIN posts : /\ posts[p].born \in HasWord.posts
                        /\ topics[posts[p].topic].space = s
                        /\ SectionOf(posts[p].topic) \in Configured(s)}

\* The posts and the topics a query matches, each cut to its limit.
Bodies(s) ==
  {p \in DOMAIN posts : /\ posts[p].born \in HasWord.posts
                        /\ VisiblePost(s, p)
                        /\ SectionOf(posts[p].topic) \in Configured(s)}

Titles(s) ==
  {t \in DOMAIN topics : /\ topics[t].born \in HasWord.titles
                         /\ Visible(s, t)
                         /\ SectionOf(t) \in Configured(s)}

\* A topic found twice is one hit, and the hits are cut once more: the topics that
\* may be among them.
Hits(s) ==
  UNION UNION {Newest({posts[p].topic : p \in bodies} \cup titles, PageSize) :
           bodies \in Newest(Bodies(s), PageSize), titles \in Newest(Titles(s), PageSize)}

-----------------------------------------------------------------------------
(* The pages.                                                              *)

LinksTo(rows) == {<<"topic", t>> : t \in rows}

\* On every page: the search, the bell, signing out.
Header == {<<"search", 0>>, <<"notifications", 0>>, <<"sign out", 0>>}

\* Mutant: a heart for everybody.
LikeControlForAll(x, p) == {<<"like", p>>}

\* The heart is a button on other people's posts only.
LikeControl(x, p) == IF posts[p].author = x THEN {} ELSE {<<"like", p>>}

\* The pencil, and the basket that leads to the question.
OwnControls(x, p) == IF MayModify(x, p) THEN {<<"edit", p>>, <<"ask", p>>} ELSE {}

ReplyFold(x, s, t) ==
  IF SectionOf(t) \in Configured(s) /\ MayReply(x, SectionOf(t))
  THEN {<<"reply", t>>, <<"attach", t>>} ELSE {}

TopicPage(x, s, t) ==
  {IF <<x, t>> \in follows THEN <<"unfollow", t>> ELSE <<"follow", t>>}
    \cup (IF SectionOf(t) \in Configured(s) THEN {<<"section", SectionOf(t)>>} ELSE {})
    \cup (UNION {LikeControl(x, p) \cup OwnControls(x, p) : p \in PostsOf(t)})
    \cup ReplyFold(x, s, t)

SectionNav(s) == {<<"section", c>> : c \in Configured(s)}

SpacePage(x, s, c, rows) ==
  LinksTo(rows)
    \cup (IF s \in Timelines THEN UNION {LikeControl(x, FirstPost(t)) : t \in rows} ELSE SectionNav(s))
    \cup (IF MayPost(x, c) THEN {<<"new", c>>} ELSE {})

\* The front page of a forum; a timeline goes straight to its first section.
CategoryIndex(s, rows) == SectionNav(s) \cup LinksTo(rows)

SearchPage(s, hits) == LinksTo(hits)

DeleteQuestion(p) == {<<"delete", p>>, <<"topic", posts[p].topic>>}

ReadableSpaces(x) == {s \in Space : MayRead(x, s)}

\* Each line leads to its topic, on the host of the entry.
Entries(x) ==
  LET spaces == ReadableSpaces(x) IN
  {<<inbox[k].space, posts[k[2]].topic>> :
     k \in Listed(x, spaces, "reply") \cup Listed(x, spaces, "mention")
             \cup {e \in Listed(x, spaces, "like") : \E l \in likes : l[1] = e[2]}}

Badge(x) == UnreadCount(x, ReadableSpaces(x))

NotificationsPage(x) ==
  (IF Entries(x) # {} /\ Badge(x) > 0 THEN {<<"read all", 0>>} ELSE {})
    \cup {IF x \in optedOut THEN <<"mails on", 0>> ELSE <<"mails off", 0>>}

-----------------------------------------------------------------------------
(* The handlers of the pages, for a reader of the space.                   *)

RenderSpace(x, s, c) == {SpacePage(x, s, c, rows) : rows \in Newest(InSection(s, c), PageSize)}

SpaceCategory(x, s) == UNION {RenderSpace(x, s, c) : c \in Configured(s)}

SpaceIndex(x, s) ==
  IF s \in Timelines THEN RenderSpace(x, s, Sections[s][1])
  ELSE {CategoryIndex(s, rows) : rows \in Newest(ListedTopics(s), Recent)}

TopicPages(x, s) == {TopicPage(x, s, t) : t \in ListedTopics(s)}

Questions(x, s) == {DeleteQuestion(p) : p \in {q \in DOMAIN posts : VisiblePost(s, q) /\ MayModify(x, q)}}

\* Every page this person can be looking at in this space.
PagesOf(x, s) ==
  IF ~MayRead(x, s) THEN {}
  ELSE SpaceIndex(x, s) \cup SpaceCategory(x, s) \cup TopicPages(x, s) \cup Questions(x, s)
         \cup {SearchPage(s, Hits(s)), NotificationsPage(x), Header}

-----------------------------------------------------------------------------
(* What the handlers answer, if nothing fails.  The ones that write do     *)
(* what module Board has under the same name.                              *)

ReplyAnswer(x, s, t) ==
  CASE ~Visible(s, t) -> "not found"
    [] Visible(s, t) /\ SectionOf(t) \notin Configured(s) -> "not found"
    [] OTHER -> IF MayRead(x, s) /\ MayReply(x, SectionOf(t)) THEN "done" ELSE "forbidden"

NewTopicAnswer(x, s, c) ==
  IF c \notin Configured(s) THEN "not found"
  ELSE IF MayRead(x, s) /\ MayPost(x, c) THEN "done" ELSE "forbidden"

LikeAnswer(x, s, p) ==
  IF p \notin DOMAIN posts \/ topics[posts[p].topic].space # s THEN "not found"
  ELSE IF posts[p].author = x THEN "forbidden" ELSE "done"

EditAnswer(x, s, p) == IF VisiblePost(s, p) /\ MayModify(x, p) THEN "done" ELSE "forbidden"

QuestionAnswer(x, s, p) ==
  IF ~VisiblePost(s, p) THEN "not found" ELSE IF MayModify(x, p) THEN "done" ELSE "forbidden"

DeleteAnswer(x, s, p) ==
  IF ~(VisiblePost(s, p) /\ MayModify(x, p)) THEN "forbidden"
  ELSE IF Opens(p) /\ ~AloneIn(x, posts[p].topic) THEN "conflict" ELSE "done"

HandlerAnswer(x, s, what, of) ==
  IF /\ what \notin {"reply", "attach", "new"} /\ ~MayRead(x, s)
     /\ what = "section" => of \in Configured(s)
  THEN "forbidden"
  ELSE CASE what \in {"reply", "attach"} -> ReplyAnswer(x, s, of)
         [] what = "new"     -> NewTopicAnswer(x, s, of)
         [] what = "section" -> IF of \in Configured(s) THEN "done" ELSE "not found"
         [] what = "like"    -> LikeAnswer(x, s, of)
         [] what = "edit"    -> EditAnswer(x, s, of)
         [] what = "ask"     -> QuestionAnswer(x, s, of)
         [] what = "delete"  -> DeleteAnswer(x, s, of)
         [] what \in {"topic", "follow", "unfollow"} -> IF Visible(s, of) THEN "done" ELSE "not found"
         [] OTHER -> "done"

-----------------------------------------------------------------------------
(* Properties.                                                             *)

Numbers == 1 .. MaxPosts

Requests ==
  ({"reply", "attach", "follow", "unfollow"} \X Numbers) \cup ({"like", "edit", "delete"} \X Numbers)

\* Display follows the right (web/mod.rs: delete_question; views.rs: space_page),
\* once the program serves: whatever a page offers somebody, its handler does -
\* only the question before deleting may end at the answers of others below the
\* post.  And what a handler
\* would do for somebody, some page offers - but a heart on a withdrawn article
\* and the half of following that is done already.  A line of the bell
\* leads to its topic, but for an article that has moved to another space.
ButtonsWork ==
  Serving => \A x \in Person, s \in Space :
    LET offered == UNION PagesOf(x, s) IN
    /\ \A request \in offered :
         \/ HandlerAnswer(x, s, request[1], request[2]) = "done"
         \/ /\ request[1] = "delete" /\ HandlerAnswer(x, s, request[1], request[2]) = "conflict"
            /\ \E q \in PostsOf(posts[request[2]].topic) : posts[q].author # x
    /\ \A request \in Requests \ offered :
         \/ HandlerAnswer(x, s, request[1], request[2]) # "done"
         \/ request[1] \in {"follow", "unfollow"}
         \/ request[1] = "like" /\ topics[posts[request[2]].topic].hidden
    /\ \A c \in Configured(s) :
         <<"new", c>> \in offered <=> HandlerAnswer(x, s, "new", c) = "done"
    /\ \A line \in Entries(x) : Visible(line[1], line[2]) \/ Mirrored(line[2])

\* Once it serves, what the lists say of a topic is what its page shows: the front page counts
\* what the section lists, a line counts the answers below the opening post and
\* names the last one's writer, and a search finds every listed topic that has
\* the words, and no other, unless more rows matched than a page has
\* (topics.rs: listed, category_counts; search.rs: search).
ListsAgree ==
  Serving => \A s \in Space :
    /\ \A c \in Configured(s) : CategoryCount(s, c) = Cardinality(InSection(s, c))
    /\ \A t \in ListedTopics(s), x \in Readers[s] :
         LET row == ListRow(x, t)
             answers == {p \in PostsOf(t) : ~Opens(p)} IN
         /\ row.replies = Cardinality(answers)
         /\ row.opens <=> answers = {}
         /\ answers # {} => \E p \in answers : posts[p].author = row.last /\ \A q \in answers : q <= p
    /\ LET having == {t \in UNION {InSection(s, c) : c \in Configured(s)} :
                        \/ topics[t].born \in HasWord.titles
                        \/ \E p \in PostsOf(t) : posts[p].born \in HasWord.posts} IN
       /\ Hits(s) \subseteq having
       /\ \A bodies \in Newest(Bodies(s), PageSize), titles \in Newest(Titles(s), PageSize) :
            Cardinality(Bodies(s)) <= PageSize /\ Cardinality(Titles(s)) <= PageSize =>
              {posts[p].topic : p \in bodies} \cup titles = having
=============================================================================
