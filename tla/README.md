# A verification project for treff

treff is a small forum: one Rust process, one SQLite file, people who sign in
through an OIDC provider, a bell and mails that say what is new. This directory
models it in TLA+, checks the models with TLC on small instances, and proves
theorems about them with TLAPS for every instance. `PROJECT.json` says line by
line which definition models which code.

The short version: a request is a SQLite transaction, so single tables are
rarely wrong. What can be wrong is **between** tables (the bell, the mails, the
likes and the badge are four accounts of the same posts, written by different
statements), **between** transactions (a handler looks and writes later, a mail
loop works from a list it read long ago, a sign-in finishes after the directory
changed its mind, ids are used again, the program restarts), and **between** two
readings of one rule (a page offers what a handler decides again; a name is
highlighted by one function and told by another). The models keep all of that
and leave out texts, layout and formats.

## The parts of the system

For each part: the state it keeps, what changes it, what is hard about it and
what makes it right, and where it is modelled.

| Part (code) | State | Operations | What is hard, and what makes it right | Module |
|---|---|---|---|---|
| Topics and posts (`db/topics.rs`) | `topics`, `posts` | open a topic, reply, edit, delete a reply or a topic | One transaction writes up to six tables; deletes cascade; ids come back. Nobody's words go with somebody else's topic. | `Board` |
| Subscriptions (`db/subscriptions.rs`) | `subscriptions` | follow, unfollow, follow by writing | Who is owed a notice is decided at the moment of the reply, never the writer. | `Board` |
| Inbox (`db/inbox.rs`) | `inbox`, `events` | entries noted, read one topic, read all | Badge and list are separate queries and must agree; what was read stays read; every follower hears. | `Board`, `Live` |
| Likes (`db/likes.rs`) | `likes` | toggle | The entry must be as true as the number, after any sequence of toggles by several people. | `Board` |
| Mirrored articles (`articles.rs`) | rows of `topics`/`posts` with a `source_key` | store, store again, hide, bring back, at each start | Comments hang on the file's topic; file by file it commits, and a start may be cut off; two spaces may have one file name. | `Board`, `Desk` |
| Outbox (`db/outbox.rs`) | `outbox` | queue with the post, list what is due, mark sent or failed | Shared by two loops and every writer. Nothing owed twice, nothing lost. | `Board` (queueing), `Outbox`, `Mailing` |
| Sender (`main.rs: notify_forever`, `notify/mod.rs`) | a batch in memory | fetch, compose, deliver, mark | Works from a stale list across awaits; transports fail; the process restarts; one channel must not hold up the other. | `Outbox` |
| Unsubscribe links (`notify/unsubscribe.rs`, `web/mod.rs`) | none (an HMAC over a row id) | press | The row behind a number may be another one by then. | `Outbox` |
| Transports (`notify/mail.rs`, `notify/webhook.rs`) | none | deliver | Succeeds, fails, or fails although the other side took it: an answer can be lost. | `Outbox` (outcome), `Start` (settings) |
| Accounts, sessions, sign-in (`auth/`, `db/accounts.rs`) | `accounts`, `sessions`, a pending cookie | sign-in round trip, sign-out, expiry | A sign-in is a round trip; the directory may deactivate the account meanwhile, another tab may begin another. | `Directory` |
| Directory (`web/scim.rs`, `db/directory.rs`) | `scim_groups`, members, `accounts.active` | put, patch, delete users and groups | Several statements without a transaction, any of which may be the last. | `Directory` |
| Live bell (`live.rs`, `db.changed`) | a broadcast channel, slots per person | subscribe, announce, lag, recheck | A change between the subscription and the first number must still arrive; places must come back. | `Live`, `Doorbell` |
| Events (`web/internal.rs`, `db/events.rs`) | `events` | announce, open, read | Same key announced again; reading all is two statements; only the right token opens a route. | `Live`, `Front` |
| Web handlers (`web/mod.rs`) | none | all of the above behind rights | Read, then write in another transaction: a topic page marks read what it did not show; a number is another topic's by then. | `Desk` |
| Pages (`web/views.rs`), rights (`authz.rs`), search (`db/search.rs`) | none | render | The page asks the configuration what to offer, the handler asks again. Lists, counts and search are separate queries. | `Pages` |
| Attachments (`db/attachments.rs`, `web/mod.rs: attach`, `media.rs`) | files, `attachments` | store file, add reply, record | Three steps, no transaction over all of them. Metadata must go and the picture must stay. | `Desk`, `Pictures` |
| Start (`main.rs`, `config.rs`, `auth/mod.rs`) | two key files, listeners, loops | read every setting, refuse or go on | A half-set environment must refuse; a restart must not sign people out. | `Start` |
| Internal TLS listener (`web/tls.rs`) | places, a channel | accept, handshake, hand over | A silent caller must not keep others waiting. | `Front` |
| Mentions and markup (`mentions.rs`, `markup.rs`, `db/accounts.rs`) | none | find, tell, highlight, offer, sanitize | Three readings of one text must agree on who is named, and the page asks again what telling asked when the post was stored. | `Texts` |

How they interact: a handler in `web/` checks rights against the configuration,
reads what it needs, and calls one function of `db/`, which runs one
transaction over the pool and then calls `db.changed(space)` (a broadcast the
live bells listen to). The transaction that writes a post also writes the bell
entries and the outbox rows. The sender loops, one per configured channel, are
spawned once at start; each sleeps 30 s, reads what is due, and awaits compose,
delivery and mark of one row after the other. The provider pushes people over the
internal listener, a sign-in writes the same account rows from its token. Which
of all this runs is decided once, at start, from the environment.

## Modules

### `Board.tla` - the tables and their transactions

A table is a function from its key to its row. The variables are the tables'
names in the migrations (`topics`, `posts`, `inbox`, `likes`, `outbox`), with
`follows` for `subscriptions` and `optedOut` for `accounts.mention_mail = 0`.
One action is one transaction with everything it writes:

| Action | Code |
|---|---|
| `CreateTopic`, `AddReply`, `UpdatePost` | `topics.rs: create_topic_mentioning`, `add_reply_mentioning`, `update_post_mentioning`, with `queue_mentions_in`, `queue_for_followers`, `queue_webhook` and the two `note_*_in` in the code's order |
| `DeleteReply`, `DeleteTopic` | the two ways `topics.rs: delete_post` deletes; `WithoutPosts` is the foreign keys' cascade |
| `Follow`, `Unfollow` | `subscriptions.rs` behind `web::change_subscription` |
| `Like`, `Unlike` | `likes.rs: toggle_telling`, by whether the like was there |
| `MarkTopicRead`, `MarkAllRead` | `inbox.rs` |
| `SetMentionMail` | `accounts.rs` |
| `MirrorNew`, `MirrorAgain`, `HideMissing` | `articles.rs: upsert` and `hide_missing`, one file each |

Three choices matter for faithfulness:

* **Ids are used again.** `INTEGER PRIMARY KEY` without `AUTOINCREMENT` is the
  largest id plus one (`NextId`), so deleting the newest row frees its number.
  Identity over time is told by `born`, a count of the posts ever written, which
  stands for `created_at`.
* **Order inside a transaction.** `AddReply` computes the mention entries before
  the follower mails look at them, as the statements do. The ids of several rows
  queued by one statement come in any order (`Listings`): SQLite promises none.
* **The mirror may run at any time.** It runs at start, and a start may come
  between any two requests; file by file it commits.

Whose bell a like of an article rings is asked of the accounts at every like
(`web/mod.rs:1342`, `articles_owner`, per space): a member of `Owners`, or nobody,
and another one each time, because a handle moves.

`UnreadCount` and `UnreadLines` are the two queries behind the badge and the page.

### `Outbox.tla` - the sender

Extends `Board` and adds the loops. Each await is an action of its own, so
everything may happen between two of them: `Fetch` reads the due list of both
channels and keeps its own rows (`drain_channel`), `ComposeNothing`,
`ComposeMessage` and `ComposeFails` are the outcomes of `compose`, `Deliver`,
`DeliverFails` and `DeliverUnanswered` those of the transport (an `Err` may follow a delivery the
other side took: the webhook's ten seconds ran out, an SMTP reply was lost), `TickSent` and `TickFailed` the marks,
`TickRefused` a mark the database refuses (the `?` drops the rest of the batch),
`Restart` a stop at any point. `ComesDue` is the end of a backoff: the seconds
themselves are not modelled, only that a failed row is not due until later.
`Unsubscribe` is a press of a link by somebody who holds its letter.

A batch keeps the rows **as they were read**, and `born` of the post they were
about, so that the properties can say whether a mark or a letter still concerns
the same thing. `letters`, `nothing`, `overtaken`, `repeats` and `cuts` are
history: no action's guard reads them, but for `letters`, which says who holds a link.

### `Mailing.tla` - what the outbox promises

The abstract specification of the outbox, without row numbers, batches, attempts and
loops. A *matter* is what somebody is owed: a person, the moment the post was written, a
channel. `ledger` holds the matters that were entered with their marks, `inHand` those a
loop has taken, `answered` those that were handed over or had nothing to send. A matter is
entered once (`Owe`), taken only while it waits (`Hold`), answered by who took it (`Answer`),
settled only after that (`Mark`), and leaves only with its post (`Withdraw`).

`Outbox` implements it (`OutboxIsAMailing`) under the mapping `Mail`: a row is the matter of
its person, its post's `born` and its channel; its mark is `MarkOf`; what is in hand is what
the batches hold. A row inserted under an id a loop is holding is marked in the other
one's place (the finding `outbox_reused`): the abstract ledger calls it `astray`, and allows it
only while a matter in hand has been withdrawn.

### `Desk.tla` - handlers in their steps

`EXTENDS Board`. A handler loads a topic or post (`Loads`), keeps its number, and
writes later: `AddLoaded`, `FollowLoaded`, `MarkLoaded`. One request is followed
step by step in a `Slot`; every other request commits whole between its steps
(`Whole`), which are the board's own actions. A request may end after any step
(`Breaks`). An upload is three steps: `StoreFile`, `AddPicture`, `Record`.
A `Restart` brings the article directories in again (`Mirrors`, `Hides`,
`NextSpace`), space by space and file by file, and may itself be cut off by
another `Restart`; nobody is served before it is through.

### `Pages.tla` - what pages offer and lists say

`EXTENDS Desk`, and adds no action: operators that give, for every person, space
and state, the set of requests a page's controls send (`SpacePage`, `TopicPage`,
`SearchPage`, `NotificationsPage`, the delete question), and next to them the
answer the handler of each request gives (`HandlerAnswer`), translated from the
handler, not from the page. Likewise the queries of the lists, the section counts
and the search.

### `Directory.tla` - who exists

Two doors write the accounts. The SCIM handlers are in steps, one per statement or
transaction (`FindUser`, `SwitchOff`, `DropMemberships`, `ForgetUser`; `LookUpToCreate`,
`LookUpToWrite`, `StoreGroup`; `CheckPatch`, `AddMembers`, `RemoveMembers`), with
`Breaks` between any two. A sign-in is `Login`, `Callback` (the states match),
`WriteAccount`, `OpenSession`, any of which may not come. There is no history variable: what a
step does to a row and to a session is said of the step (`DirectoryDecides`, `SessionsFollowDirectory`).

### `Live.tla` and `Doorbell.tla` - the bell that rings

`Doorbell` is the abstract promise: a ring reaches every open stream and is never
absorbed by an answer that was already being worked out. `Live` is the code: a
stream opens at the forum's door or the start page's, takes a place (`KeepPlace`,
`GiveBack`, `Ends`), counts and lists in two awaits (`Ask`, `Count`, `List`,
`ReadFails`), and waits for the channel or the clock (`Recv`, `Recheck`); a channel
that overflows skips ahead (`RecvSkipping`). A writer commits in one step (`Post`, `ReadTopic`,
`TakeEvent`, `OpenEvent`, `MarkInbox`, ...) and announces in another (`Says`); its handler may
be dropped between the two (`Vanishes`). `RingsAtEveryDoor` is the refinement: `open`
are the open streams, `rung` those with something in their channel, `asking` those that
do not wait.

### `Start.tla`, `Front.tla`, `Pictures.tla`, `Texts.tla` - around the board

* `Start` is `serve` in `main.rs`, one action per step in its order. What a step
  finds outside is chosen when it reads it. Key files may be cut or unreadable between two
  starts, and a write may stop half way.
* `Front` has two halves: `TlsListener` (`Acquire`, `Accept`, handshakes, `Send`,
  `AxumAccepts`), and the tokens and checks an event must pass.
* `Pictures` is `media.rs` on pictures made of pieces: a length that lies, padding, a start
  of scan, the flags of `VP8X`.
* `Texts` is `mentions.rs` and `markup.rs` on posts made of runs (the siblings in one element) of nodes of
  characters by class. A post is typed, then stored by the accounts of that moment (`WritePost`
  with `to_tell`, `AttachWith` for an upload, whose caption tells nobody), then read while `AccountsChange`.
* `Walks` has the walk along a sequence that both use.

### Proof modules and MC modules

`BoardProofs`, `DirectoryProofs`, `DeskProofs`, `LiveProofs`, `OutboxProofs` and `PagesProofs`
hold the theorems about the module of the same name, `EntranceProofs` those about `Start` and
`Front`, `ContentProofs` those about `Pictures` and `Texts`. `DeskProofs` and `OutboxProofs`
extend `BoardProofs`, `PagesProofs` extends `DeskProofs`: a layer above the board uses the
board's lemmas by name. See "What is proved".

`MCBoard` and `MCOutbox` add the symmetry sets, `MCDirectory`, `MCLive`, `MCDesk` the values of
structured constants. `MCEntrance` puts the four parts around the board, which share
no state, into one instance: a variable `part` says which of them moves.

### What could come next

1. The search index with its triggers, under `ListsAgree`, which reads the posts themselves.
2. The two scripts of the browser that ask again or draw answers in the order they come
   (`like.js`, `bell.js`), as modules beside `Board` and `Live`.

## What TLC checks

| Run | Instance | What it shows |
|---|---|---|
| `board` | 2 people, the mirror, one topic at a time, 3 posts ever, 1 like | `BellAndMailAgree`, `OwedOnce`, `NotAboutOneself`, `BadgeIsList`, `OthersWordsStay`, `EveryFollowerHears`, `ReadStaysRead`, under every order of every transaction |
| `board_likes` | 3 people, all of whom switch mention mails on and off, one post or article, any number of likes | `LikeEntryTrue`, `EntriesKeep` |
| `outbox` | both loops, 2 people, 2 posts ever, batches of 2, one failure gives up, one fault | `SentMeansAnswered`, `NoLetterToItsWriter`, `MarksStayInLane`, and `OutboxIsAMailing`: `Outbox` implements `Mailing` |
| `outbox_live` | both loops, 2 people, 1 post, batches of 1, 3 attempts, 2 faults, one press | `AtMostOneRepeatPerCut`; `EveryRowSettles`, under fairness |
| `directory` | 2 people, one of whom signs in, 2 sign-ins, 2 group names, 1 request of several steps beside the whole ones | `HandlesUnique`, `DirectoryDecides`, `SessionsFollowDirectory`, `OnlyNewestSignIn`, `MembersGoByName` |
| `live` | 1 person, 2 streams at 2 doors, 1 event, 1 writer, 2 commits, 1 fault, channel of 1, 1 place | `SlotsAreStreams`, `QuietMeansCurrent`, `ToldInTheEnd`, `RingsAtEveryDoor` |
| `desk` | 2 people, a forum and a timeline, 1 file name, 3 posts, 1 upload, 1 request in steps | `HandlersKeepTheBoard`, `RowsNameTheirPost`, `FilesComeFirst`, `PageReadsItsTopic`, `ArticlesAreOnDisk`, `MarkIsOnTheBell`, `ButtonsWork`, `ListsAgree` |
| `entrance` | 13 configurations, 6 webhooks and 9 mail servers with every other setting, 2 starts, 4 keys; 4 callers; 9 kinds of event and more links; pictures of 4 pieces; posts of 3 characters in 2 runs, 2 states of the accounts | `StartKeepsItsWord`, `KeysStay`, `CallersAreServed`, `TokenOpensItsDoor`, `PicturesLoseOnlyMetadata`, `NamesAreToldAsShown` |
| `board_unmailed`, `outbox_mail_only`, `outbox_reused`, `outbox_links` | see Findings | the code does not do what its documentation says |

Deadlock is checked in every run but `entrance`: there a last start, a stored picture and a
post of full length really are the end of their part.

**Bounds and why they are enough.** `MaxPosts` counts posts ever written, not
posts at a time. With 3, a topic can be opened, answered, lose its newest post,
and be answered again under the same post id: the shortest history in which
anything left over from the old post could show. With one topic at a time the
topic id too is used again after a delete. Two people are a writer and a
follower, and each is both in turn; a third person adds only another follower,
and the properties speak of one or two people. Likes need a third person (the
owner, a reader and another reader), so they have a run of their own with one
post; they never read the outbox or the subscriptions. In `outbox`, two rows per
batch and two posts let a loop hold a row while its post is deleted and its
number given out again. `MaxAttempts` is 8 in the code (`outbox.rs:14`); what it compares is the
same at 1 (give up at once) and at 3 (`outbox_live`: tried again twice, so a delivery whose answer
was lost is made again; with one attempt it could not be). Batches
are 25 in the code; 1 and 2 are the sizes at which the limit bites with few rows.
`MaxFaults` bounds restarts, refused marks and lost answers together. `MaxPresses` bounds the presses of a
link: one in `outbox_live` and `outbox_links`, none in `outbox`, whose properties are proved for any number of them;
`MaxTopics` and `MaxLikes` the table sizes, `Switchers` who turns mention mails
on and off: everybody in `board_likes`, one person in `board_unmailed`, nobody in the
longer runs, whose mail properties are proved for every `Switchers` (below). `Owners` are two of the three people in `board_likes`, nobody elsewhere. Symmetry over people is used only in runs without liveness
properties, and never over the owners when there are any.

* `directory`: one request in steps (`Slot`) meets every request that is one transaction, and
  every step of a sign-in, at each of its gaps. Two sign-ins (`MaxLogins`) are an older tab
  and a newer one; a group is renamed to and fro, and a token names
  every group, more than the directory gives. The names are symmetric. `MaxChanges` bounds the members one patch names.
* `live`: the handle is somebody's when it begins, and may be lost. A place, a channel of one
  (`Capacity`; 64 in the code) and two streams (`Doors`: one at the forum's door, one at either) make the second
  stream of a person refused and the second change overflow. Each commit may fall before,
  between or after the two reads of an answer. `MaxChanges` counts commits, `MaxFaults`
  failed reads and dropped handlers.
* `desk`: one request in steps against whole ones, for the reason above; three posts reuse numbers,
  and the third is in another section than the first; one section of the second topic's is no longer
  configured. `PageSize` 2 and `Recent` 1 cut a list of three. Likes are left to `board_likes`
  (`MaxLikes` 0); the like control is checked all the same. `Callers` is the one person
  whose replies are followed in steps; anybody opens and deletes topics meanwhile.
* `entrance`: the configurations differ from a good one in one field each, and so do the webhooks and mail
  servers (`HooksTried`, `MailsTried`; the theorem is about all of them); the other
  settings are enumerated in full, and the second start finds the files the first left. 4 draws
  (`MaxDrawn`) are two keys per start. Two places (`HANDSHAKES`; 256 in the code) are
  both filled by the two silent callers, who come back; `MaxBroken` bounds failed accepts.
  Tokens include one that is a part of another and one of another's length. Three
  characters hold a name with something before or behind it, alone or in two nodes or runs; the accounts
  have handles of one and two characters, with and without a mark, and between the two states one handle
  goes to somebody else and one person gets the right to read. Four pieces hold a header, metadata, a lie about a length, and what follows.

**Fairness.** `outbox_live`, `outbox_mail_only`: a configured channel's loop is
an endless loop spawned on the runtime, it is never cancelled, and each of its
awaits returns: the webhook client has a ten second timeout, the mail transport
its library's, sqlx a busy timeout on every connection. Hence weak fairness of fetching, of some
outcome of compose, of some outcome of a delivery, and of a mark - never of
success: a delivery may fail every time, and a refused mark and a restart are
owed nothing. Backoffs end, hence weak fairness of `ComesDue` of each row.
`Writes` are not fair: nobody has to write.
`live`: the runtime goes on with a stream that can go on (`StreamStep`; the recheck is a timer
that fires), and a writer that has committed either announces or is dropped (`Finish`).
Nobody has to open, hang up or write, and a read may fail.
`entrance`: the task that accepts, the handshakes' tasks and axum's loop never stop on
their own, and `HANDSHAKE` ends whatever hangs. Nobody has to connect, leave or break.

### The properties, in words

* `BellAndMailAgree` - somebody is owed a mail for a reply exactly when the bell
  has a reply entry for them, at any later time too. Six statements and every
  cascade must agree for that.
* `OwedOnce` - one mail per person and post over all edits; one webhook per post.
* `NotAboutOneself` - nobody is told of their own post, not after a withdrawn
  post whose number came back either.
* `BadgeIsList` - the number on the bell is the number of unread lines behind it,
  for every set of spaces. Two sets of queries, one of which looks at likes.
* `LikeEntryTrue`, `EntriesKeep` - the like entry lives as long as the likes do.
* `OthersWordsStay` - one step deletes posts of one person, never an article's.
* `EveryFollowerHears`, `ReadStaysRead` - a new reply is unread for every follower;
  what was read is news only through a new like.
* `SentMeansAnswered` - a row is ticked off only if what it owes was handed over or
  had nothing to send; excepted are rows inserted under an id a loop was holding,
  the case of the finding `outbox_reused`.
* `AtMostOneRepeatPerCut` - a channel delivers the same thing again at most once
  per cut: a restart, a refused mark, or an answer that was lost after the other side had taken the
  delivery (`webhook.rs:120`, `mail.rs:134`). The migration's "repeats at most one send" speaks of restarts only.
* `NoLetterToItsWriter` - a composed mail is never for the post's own writer.
* `MarksStayInLane` - the loops touch their own channel's rows only, in the
  right place of their program, and never past the last attempt.
* `OutboxIsAMailing` - `Outbox` implements `Mailing`: whatever the loops do from the lists they read
  before, what is owed is entered once, settled only when answered, and gone only with its post.
* `EveryRowSettles` - a pending row is sent, given up or withdrawn in the end.

* `HandlesUnique` - two accounts never hold one handle, though each writer checks in a
  statement of its own.
* `DirectoryDecides`, `SessionsFollowDirectory` - what a request changes of what the directory says of
  somebody, their row and their cookies say in the same step, whichever requests were cut off or ran in between;
  two steps are excepted by name: the write of a sign-in, and a removal that meets a row switched on again. Nobody who is
  switched off is let in again by anything but the directory.
* `OnlyNewestSignIn` - what an older tab brings back from the provider is refused.
* `MembersGoByName` - a membership goes only with a request that says so.
* `SlotsAreStreams` - a place is taken exactly while its stream is open.
* `QuietMeansCurrent` - a stream with nothing more to hear has sent the bell as it is, number and list.
* `ToldInTheEnd` - again and again every stream shows the bell as it is, announced or not.
* `RingsAtEveryDoor` - `Live` implements `Doorbell`.
* `HandlersKeepTheBoard` - every step of `Desk` is a step of `Board` or leaves it alone, so
  what is proved of the board holds of the handlers.
* `RowsNameTheirPost`, `FilesComeFirst` - an upload that breaks off leaves nothing that is
  offered without a file or filed under a wrong post.
* `PageReadsItsTopic` - opening a page marks read only the topic that was opened.
* `ArticlesAreOnDisk` - once it serves, an article is shown exactly when its file is there, in the
  right space, whatever earlier starts were cut off.
* `MarkIsOnTheBell` - a topic marked unread in the list is on the bell.
* `ButtonsWork` - whatever a page offers, its handler does, and the other way round.
* `ListsAgree` - counts, list lines and search say what the pages show.
* `StartKeepsItsWord` - it acts only when every file that is set holds something and what belongs together
  is complete, and what was set is in force, three settings that are taken as they are excepted (below).
* `KeysStay` - a restart signs nobody out and breaks no link.
* `CallersAreServed` - silent callers keep no TLS caller waiting for ever.
* `TokenOpensItsDoor` - a route opens to its token and to nothing else.
* `PicturesLoseOnlyMetadata` - metadata goes, the picture and its kind stay, and doing it twice
  changes nothing.
* `NamesAreToldAsShown` - whenever the page is read, of everybody who did not change since the post was
  stored, it highlights the name exactly if they were told (the writer's own, and a caption's, apart), and it says what was typed.

Each of them is broken by a small change of the code (`mutants` in
`PROJECT.json`; the changed operators stand before the originals, marked
"Mutant"), so none holds by the shape of the model.

## Findings

1. **`outbox_mail_only`**. `due` cuts its list to a batch over both channels, and
   `drain_channel` filters by channel afterwards. Without a webhook nothing ever
   works on the webhook rows every post leaves, although a comment in `outbox.rs`
   says the sender ticks them off; once a batch full of them is oldest, no mail is
   sent any more.
2. **`outbox_reused`**. `mark_sent` names a row by id. If its post is deleted while
   a loop holds it and the next row gets its id, that one is ticked off unsent.
3. **`outbox_links`**. A link is a row number. After the row is gone and the number
   is used again, pressing the old link cancels another subscription.
4. **`board_unmailed`**. A follower who is mentioned in a reply and has mention mails
   off gets neither the mention mail nor the follower mail.

### Exceptions the properties make, and what else was seen

The properties state what the code does keep; where it keeps a little less than one would
guess, the exception is written into the property or its comment:

* Board: the owner's own like keeps the entry another person's like left alive after that
  like is gone; `LikeEntryTrue` only says that some like is there.
* Desk: `topic_page` reads the posts and then marks the topic, so a reply in between is read
  unseen. A reply or a follow goes to whatever topic has the number by then. The row
  of an upload may name another person's newest post if the reply was withdrawn before. A heart or a follow-up
  on a withdrawn article is not offered, but taken. An article that moved to another space leaves
  its bell entries under the old one. The question before deleting one's own opening post is offered, and the delete
  refused, when others have answered.
* Pages: the search's limit counts posts, not topics; a timeline shows the first fifty.
* Outbox: besides what 0005_outbox.sql says of a restart, a delivery is repeated when it was taken and its answer
  lost. Row numbers that are used again are the findings 2 and 3.
* Directory: a sign-in that finishes after a deactivation fills the row again (`auth/mod.rs:161`); its session is worth
  nothing while the account is off. A session shows the row, so a sign-in's groups show until a request next touches
  the person. `delete_user` is four statements: the memberships it drops under a row that a `put_user` switched on
  in between leave that row's groups behind (`directory.rs:172`). `patch_group` adds in one transaction and
  removes in another. Paging of lists is by offset.
* Live: sign-in and sign-out announce nothing; `mark_all_read` is two updates; a failed read drops a
  wake until the next change or the recheck.
* Start: three settings are only found out by a delivery, or never: a sender that is no address
  (`mail.rs:44` asks whether it is set, `:109` parses it), a webhook URL after its scheme, and a password without
  a user name, which nothing uses (`mail.rs:96`). A key file that is too short or unreadable is replaced; articles are mirrored and
  loops spawned before the later settings are known to be good. An article file that cannot be read is skipped,
  and its article withdrawn.
* Pictures: a WebP with an empty `VP8X` gets the next chunk's tag overwritten; of two, only the
  last is cleared.
* Texts: an upload's caption tells nobody (`web/mod.rs:1603`), yet the page highlights its names (`:1157`), although
  `mentions.rs:3` says that "who is told" and "what is highlighted" are "the SAME answer". They are one rule asked
  at two times; whoever signs in or changes in between may be highlighted untold, or told and not highlighted. Only
  siblings are merged and looked at together, so `**user**@ben` names ben. A handle that ends in a mark is offered, but naming it names nobody, or somebody else.
* The two scripts: a like whose answer is lost is toggled back (`like.js:10`), and answers that
  overtake one another are shown in the order they arrive (`bell.js:163`).

## What is proved

For every set of people, spaces, files, streams, slots, callers and configurations, and
for all bounds (a bound is a conjunct of a guard: the theorems hold whatever it is):

| Module | Theorem | Says |
|---|---|---|
| `BoardProofs` | `BoardIsSound` | `BoardSpec => []BoardInv` |
| | `TypeCorrect` | `BoardSpec => []TypeOK` |
| | `NobodyIsToldOfThemselves` | `BoardSpec => []NotAboutOneself` |
| | `LikeEntriesAreTrue` | `BoardSpec => []LikeEntryTrue` |
| | `BadgeTellsTheList` | `BoardSpec => []BadgeIsList` |
| | `WordsStay` | `BoardSpec => OthersWordsStay` |
| | `FollowersHear` | `BoardSpec => EveryFollowerHears` |
| | `ReadIsRead` | `BoardSpec => ReadStaysRead` |
| | `EntriesStay` | `BoardSpec => EntriesKeep` |
| | `OwingIsSound` | `BoardSpec => []OwingInv` |
| | `BellAndMailsAgree` | `BoardSpec => []BellAndMailAgree` |
| | `NothingIsOwedTwice` | `BoardSpec => []OwedOnce` |
| `OutboxProofs` | `SenderIsSound` | `Spec => []SenderInv` |
| | `SenderTypeCorrect` | `Spec => []SenderTypeOK` |
| | `TickedIsAnswered` | `Spec => []SentMeansAnswered` |
| | `RepeatsNeedCuts` | `Spec => []AtMostOneRepeatPerCut` |
| | `NobodyGetsTheirOwnWords` | `Spec => []NoLetterToItsWriter` |
| | `LoopsStayInLane` | `Spec => MarksStayInLane` |
| | `TheTablesStaySound` | `Spec => [](NotAboutOneself /\ BellAndMailAgree /\ OwedOnce)` |
| | `OutboxMails` | `Spec => OutboxIsAMailing`, that is, `Outbox` implements `Mailing` |
| `DeskProofs` | `DeskIsSound` | `DeskSpec => []DeskInv` |
| | `HandlersDoKeepTheBoard` | `DeskSpec => HandlersKeepTheBoard`, that is, `Desk` implements `Board` |
| | `RowsNameTheirs` | `DeskSpec => []RowsNameTheirPost` |
| | `FilesAreThere` | `DeskSpec => []FilesComeFirst` |
| | `ArticlesAreThere` | `DeskSpec => []ArticlesAreOnDisk` |
| | `MarksAreOnTheBell` | `DeskSpec => []MarkIsOnTheBell` |
| | `PagesReadTheirs` | `DeskSpec => PageReadsItsTopic` |
| `PagesProofs` | `ListsTellThePage` | `DeskSpec => []ListsAgree` |
| | `ControlsWork` | `DeskSpec => []ButtonsWork` |
| `DirectoryProofs` | `DirectoryIsSound` | `DirSpec => []DirInv` |
| | `DirTypeCorrect` | `DirSpec => []DirTypeOK` |
| | `NoHandleTwice` | `DirSpec => []HandlesUnique` |
| | `TheDirectoryDecides` | `DirSpec => DirectoryDecides` |
| | `CookiesFollow` | `DirSpec => SessionsFollowDirectory` |
| | `NewestSignInOnly` | `DirSpec => OnlyNewestSignIn` |
| | `MembersLeaveByName` | `DirSpec => MembersGoByName` |
| `LiveProofs` | `LiveIsSound` | `LiveSpec => []LiveInv` |
| | `PlacesAreStreams` | `LiveSpec => []SlotsAreStreams` |
| | `QuietStreamsAreCurrent` | `LiveSpec => []QuietMeansCurrent` |
| | `LiveIsADoorbell` | `LiveSpec` maps to `Doorbell` but for its fairness |
| `EntranceProofs` | `StartIsSound` | `StartSpec => []StartInv` |
| | `EveryStepFailsClosed` | `StartSpec => []StartKeepsItsWord` |
| | `KeysSurviveRestarts` | `StartSpec => []KeysStay` |
| | `TokensOpenTheirDoors` | `GateSpec => []TokenOpensItsDoor` |
| | `PlacesAreNeverOversold` | `TlsSpec => []PlacesAreKept` |
| `ContentProofs` | `PicturesLoseNothingElse` | `PicturesSpec => []PicturesLoseOnlyMetadata`, for pictures of any length |
| | `NamesToldAreNamesShown` | `TextsSpec => []NamesAreToldAsShown`, for posts of any length |

Every invariant and every action property of the passing runs is a theorem, and so are the refinements,
that of `Doorbell` without its fairness. The inductive invariants `BoardInv` and `OwingInv` were checked by TLC as invariants of the `board`
instance, and those below of the instance of their module, before they were proved.

### Assumptions

They are the `ASSUME`s of the modules, which TLC evaluates on every instance:

* `Board`: the publisher's name and `Nobody` are not people, the owners are people, those who switch mails are people, `Nobody` is no file name, bounds are numbers.
* `Outbox`: what is configured are channels; a batch and the attempts are at least one.
* `Desk`, `Pages`: every space has readers, who are those the configuration's groups let
  read; it is read by at least one group and has a first section (`config.rs:205` and `:208`); `Order` is a
  list of spaces; a page has room for a row.
* `Directory`: folding a user name gives a handle or nothing; `Nobody` is no name and no handle,
  `Untouched` no list of members; a token carries a handle or none, and groups.
* `Live`: folding a name gives a handle; the proxy's names are names; a person has at least one
  place, the channel at least one slot.
* `Start`, `Front`: configurations are texts with these fields, tokens are strings of bytes,
  there is at least one place for a handshake; the webhooks and mail servers tried are settings with these fields.
* `Texts`: a subject is one account; an account has at most one handle, stored as `checked_handle` gives it, and no two have the
  same (`migrations/0009_handles.sql`; that the writers keep it so is `HandlesUnique`).

None says that people, spaces or callers are finitely many. Where a property counts (badge, lists,
places, repeats), finiteness is proved as an invariant: of the posts (`PostsAreFew`), of the open streams (`Placed`),
of the deliveries at risk (`Counted`), of the handshakes (`TlsInv`).

### The board

The inductive invariant is
`BoardInv == Core /\ TypeOK /\ Rooted /\ NotAboutOneself /\ LikeEntryTrue`.

* `TypeOK` is not inductive alone. A like writes an entry for the post's author, and
  an author may be the publisher, who is no person; the code never rings the
  publisher's bell because an article's opening post rings the owner's instead.
  So it must be known that the publisher wrote exactly the opening posts of
  mirrored topics. That is `Core`, and it survives deletes only because an opening
  post never goes without its topic, which is in `Core` too: every post lies in an
  existing topic and every topic has a post.
* `NotAboutOneself` and `LikeEntryTrue` are not inductive without `Rooted`: every
  row that names a post or a topic names a live one. Otherwise the next post could
  get the number of a dead one and inherit its entries. `Rooted` is where the cascades
  and the reuse of ids meet.

The proof has one lemma per transaction (`CreateTopicKeeps` ... `MirrorKeeps`);
those that write share `WritingKeeps`, those that delete `CoreDelete` and
`WithoutPostsKeeps`. Below them are lemmas on tables: what an insert, a delete, the
next id and a queue do (`QueueAppends`: old rows stay, the others are the new rows,
each under one id). `EveryFollowerHears` follows from the same invariant; it needs
`Rooted` because a fresh post id must have no entry yet for `ON CONFLICT DO NOTHING`
to write one.

**What becomes of an entry** is one case distinction (`Fate`) shown for each kind of
step; `ReadIsRead` and `EntriesStay` read it off. **The badge** is a count of entries and the page
a set of lines, so `BadgeTellsTheList` needs a bijection: the entries name the lines one to one, and
there are as many of the one as of the other because the posts are finitely many (`PostsAreFew`).

**What is owed** rests on `OwingInv`. `BellAndMailAgree` speaks of reply mails and
reply entries only, and `OwedOnce` of rows only; neither survives an edit that mentions
somebody without knowing that *every* mail, a mention mail too, has an entry with its
reason (`MailTold`): that entry is what keeps `queue_mentions_in` from queueing a
second mail. That a post has one webhook needs `HookIsWriters`: the row is kept under
its writer. A step touches what is owed in one of three ways, a lemma each: it owes
nothing and leaves reply and mention entries alone (`QuietKeeps`), it deletes
(`CascadeKeeps`), or it writes a post (`OwingKeeps`, whose hypothesis `Settles` says
what a writer may queue; `AddReplyOwes` shows that the order of the code's statements
gives just that).

### The sender

`SenderInv` joins `Tables` (`BoardInv`, `OwingInv`, and that no two posts were born at
one moment), `SenderTypeOK`, `Loops` and the two `Promises`. The loops work on copies of rows that
may be gone, so the invariant has to say what a copy is still worth:

* `Batched`, `Aimed`, `Untouched`, `Rowed` - a loop holds rows of its channel, each once; while the post a copy
  was read for lives, so does its row, under its number and not yet ticked off by anybody else. Here
  `OwedOnce` is used: two rows for one matter would let a delivery of one count as a repeat of the other.
* `Earned` - whoever is about to tick a row off has an answer for it. With it
  `SentMeansAnswered` is inductive.
* `Counted` - `repeats[c] + Cardinality(AtRisk(c)) <= cuts[c]`, where `AtRisk` is what was delivered and may
  be delivered again: its row is unmarked or still held, and is not the one about to be ticked off. A cut puts at most one thing at risk, a repeat takes one
  away; the inequality `repeats <= cuts` alone says nothing about the next delivery. A lost answer puts its own delivery
  at risk and is counted as a cut in the same step (`HandedOverRisks`).
* `NotItsWriter` carries `NotAboutOneself` of the table over to the copies.

`OutboxMails` adds two facts (`MailingInv`): a post that is there still has the row of whatever was found to
have nothing to send (`NothingRowed`), and what went astray is still in the table. The first is what makes `Owe` true:
a matter that is entered must not have been answered before, and an edit that names somebody again
would enter it again if its row could go before its post. There is a lemma for each abstract action that says which
concrete state changes are that action (`HoldIs`, `AnswerIs`, `MarkIs`, `WithdrawIs`, `OweIs`), and one for each kind of
concrete step: `MarkingMarks` (a mark by row number is a mark of the one matter, because a post's row is found under its
number while the post lives), `AddingOwes`, `DeletingWithdraws`, `LoopMails`. `StepMails` puts them together.

### The desk and its pages

`DeskInv == BoardInv /\ BornInOrder /\ Attended /\ Uploaded /\ BroughtIn`. `HandlersDoKeepTheBoard`
comes first: each step of a handler is a step of `BoardNext` or leaves `boardVars` alone, so the board's lemmas apply to it.
`Attended` says what a request carries between its steps. `Uploaded` follows a file from the disk
(`files`) to the post that shows it and the row that names it: shown by one post ever, carried by one
request at most. The post is told by `born`, because its number may have been used again. `BroughtIn` says how far
a start has come: in the directories it has been through, an article is shown exactly in the last one that has its file.
`PagesReadTheirs` reads the birth of a post against that of the topic (`BornInOrder`).

`ListsTellThePage` needs that a set of posts has a least and, being finite, a largest id (the opening post,
the last writer), and that cutting a search at a limit it does not reach leaves it whole. `ControlsWork` goes through the pages one by
one and compares each control with the handler's answer; the bell's links need `InItsSpace`, that an
entry is in the space of its topic unless that is an article. The exceptions of both are those of the properties.

### The directory, the live bell, the entrance

* `DirInv == DirTypeOK /\ Underway /\ MetIsThere /\ Counted /\ HandlesUnique`: `Underway` and
  `MetIsThere` keep what a handler read true until it writes (an account row is never deleted), `Counted` numbers the sign-ins. That a membership
  goes by name only (`MembersLeaveByName`), and what a step does to a row (`StepFollows`), need `Underway`, because the request's list was read a step earlier.
* `LiveInv == Shaped /\ Placed /\ Told`: of each open stream one of three things is true - a ring is in its
  channel, a writer that has committed will ring, or **what it has found out so far** is what is. The third is said
  for each of the places a stream can be in; `QuietMeansCurrent` is its last case. Streams a writer
  dropped on are excepted (`missed`) until they look again. `LiveIsADoorbell` shows for each action which of the doorbell's it is.
* `StartInv == Shaped /\ Configured /\ Settled /\ Filed /\ Keyed`: what was read at an earlier step is still what
  decides (`Configured`, `Settled`); a key in a file was drawn for that purpose alone and is what everything was
  signed with, unless the file was damaged (`Filed`); a key in memory is the file's (`Keyed`). `GateInv` and `TlsInv` are
  the same for the tokens and for the places: at most `HANDSHAKES` of them are taken, whatever accept, handshakes and
  the channel do. This last one is a theorem only, and no property of a run.

### Pictures and texts

What these modules compute are walks over sequences of any length. A walk is a recursive function on `0 .. n`; that
its equation has a solution is `WalkExists`, and that two walks whose steps agree are the same is `WalksAgree`. Induction
is on sets: one that holds 0 and with `i` also `i + 1` holds every number (`NatInduct`). `PickedPlaces` says of
what is picked from a sequence where each element came from, in which order.

* `PicturesInv` says that a picture comes in the pieces its kind has (`ComesInPieces`) and that what is stored is what
  the walk made of it (`StoredAsStripped`). `JpegFine`, `PngFine` and `WebpFine` say for each kind that the stored picture has no
  metadata, all of the rest in its order, and is left alone by a second walk. WebP needs `ClearFlagsIs`, where the
  flags are cleared, and `DamagedOnce`: the one tag that may be overwritten is overwritten once.
* `TextsInv` says that a post is a sequence of runs of comrak's kinds of nodes, and that what was told when it was stored
  is what `to_tell` says of the accounts of then (`Stored`). The work is in what the functions return, run by run:
  `MergedIs` (merging neighbours keeps the text), `SplitIs` (a text, split at its mentions, has each mention in a
  mark of its own and says what was typed; `Fit` and its lemmas go along the parts), `PageIs`, `RunIs`,
  `SanitizeIs` (the marks survive), and `RunMeans`. `ToldAreHighlighted` compares the accounts of then and of now, and
  `OfferedAreTold` what is offered: both need that handles are unique and stored as checked.

### What is only model-checked

* Liveness: `EveryRowSettles`, `ToldInTheEnd`, `CallersAreServed`, and the fairness of `Doorbell` in
  `RingsAtEveryDoor` (its safety half is `LiveIsADoorbell`). The prover has no rule for fairness.

## Not modelled

The scripts in the browser (`like.js`, `bell.js`, `mention.js`): the server's side of each is. Export: one
guarded statement that reads. Translations, dates and their wording. The HMAC of links and cookies and
the checks of a token: who has no key has no link. What comrak, ammonia, FTS5, rustls and sqlx
do inside: modelled from how the code uses them. The bytes inside a picture's pieces, front matter
and dates of articles, the shapes, filters and paging of SCIM documents, static files and headers.

## Running it

`tlc -config Board.cfg MCBoard.tla`; `BoardLikes`, `BoardUnmailed` likewise with `MCBoard`,
`Outbox*.cfg` with `MCOutbox`, and `Directory.cfg`, `Live.cfg`, `Desk.cfg`, `Entrance.cfg` with the `MC` module of the
same name; `tlapm BoardProofs.tla` and likewise for the other modules whose names end in `Proofs`.
The longer runs take one to four minutes each.
