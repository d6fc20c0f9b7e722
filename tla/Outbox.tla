------------------------------- MODULE Outbox -------------------------------
(***************************************************************************)
(* The sender: one loop per configured channel over the one outbox table   *)
(* (main.rs: notify_forever, notify/mod.rs: drain_channel and compose,     *)
(* db/outbox.rs: due, mark_sent, mark_failed), and the unsubscribe links   *)
(* its letters carry (web: unsubscribe_now).                               *)
(*                                                                         *)
(* A loop works from a list it read once.  Between that read and the mark  *)
(* of each row people write and delete, the other loop marks rows, and     *)
(* the program may stop.  Each await of the loop is an action.             *)
(*                                                                         *)
(* Time: a row that failed is not due until its backoff is over; `due' is  *)
(* that fact, and ComesDue the moment it turns true.  Whether an account   *)
(* has an address and may read is asked at compose time of another         *)
(* component and answered freely here.                                     *)
(***************************************************************************)
EXTENDS Board

CONSTANTS
  Configured,   \* the channels that have a loop
  Batch,        \* rows per query (BATCH)
  MaxAttempts,  \* failures after which a row is left alone (MAX_ATTEMPTS)
  MaxFaults,    \* bound: restarts, refused marks and lost answers
  MaxPresses    \* bound: unsubscribe links pressed

Channel == {"mail", "webhook"}

ASSUME ConfiguredAssumption == Configured \subseteq Channel
ASSUME SenderAssumption == /\ {Batch, MaxAttempts} \subseteq Nat \ {0}
                           /\ {MaxFaults, MaxPresses} \subseteq Nat

VARIABLES
  pc,           \* channel -> where its loop is
  batch,        \* channel -> rows still to do, as they were read
  shown,        \* channel -> what the composed message shows, or NoPost
  letters,      \* history: what was handed to a transport
  nothing,      \* history: owed things found to have nothing to send
  overtaken,    \* history: rows inserted under an id a loop was holding
  repeats,      \* history: channel -> deliveries of what was delivered before
  cuts,         \* history: channel -> times its loop was cut off, or lost an answer
  faults,       \* restarts, refused marks and lost answers so far
  presses       \* links pressed so far

loopVars    == <<pc, batch, shown>>
historyVars == <<letters, nothing, overtaken, repeats, cuts>>
vars == <<boardVars, loopVars, historyVars, faults, presses>>

NoPost == [born |-> -1, author |-> Nobody]

\* Two rows are about the same thing owed when these agree.
Matter(subject, born, channel) == <<subject, born, channel>>
MatterOf(i) == Matter(outbox[i].subject, posts[outbox[i].post].born, outbox[i].kanal)

-----------------------------------------------------------------------------
(* db/outbox.rs                                                            *)

\* Mutant: sent rows are asked for again.
PendingForEver(i) == i \in DOMAIN outbox /\ outbox[i].attempts < MaxAttempts

Pending(i) ==
  i \in DOMAIN outbox /\ ~outbox[i].sent /\ outbox[i].attempts < MaxAttempts

\* Oldest first, at most Batch, of BOTH channels.
Due ==
  LET waiting == {i \in DOMAIN outbox : Pending(i) /\ outbox[i].due}
  IN  {i \in waiting : Cardinality({j \in waiting : j < i}) < Batch}

\* A row as a loop remembers it.
Snapshot(i) ==
  LET row == outbox[i] IN
  [id |-> i, subject |-> row.subject, space |-> row.space, post |-> row.post,
   topic |-> posts[row.post].topic, kanal |-> row.kanal, reason |-> row.reason,
   attempts |-> row.attempts, born |-> posts[row.post].born,
   topicBorn |-> topics[posts[row.post].topic].born]

\* Mutant: everything up to this row.
MarkSentUpTo(id) ==
  outbox' = [i \in DOMAIN outbox |->
               IF i <= id THEN [outbox[i] EXCEPT !.sent = TRUE] ELSE outbox[i]]

MarkSent(id) ==
  outbox' = [i \in DOMAIN outbox |->
               IF i = id THEN [outbox[i] EXCEPT !.sent = TRUE] ELSE outbox[i]]

\* Mutants: attempts are not counted, or counted by post.
MarkFailedUncounted(id, attempts) ==
  outbox' = [i \in DOMAIN outbox |->
               IF i = id THEN [outbox[i] EXCEPT !.due = FALSE] ELSE outbox[i]]

MarkFailedOfPost(id, attempts) ==
  outbox' = [i \in DOMAIN outbox |->
               IF id \in DOMAIN outbox /\ outbox[i].post = outbox[id].post
               THEN [outbox[i] EXCEPT !.attempts = attempts + 1, !.due = FALSE]
               ELSE outbox[i]]

MarkFailed(id, attempts) ==
  outbox' = [i \in DOMAIN outbox |->
               IF i = id
               THEN [outbox[i] EXCEPT !.attempts = attempts + 1, !.due = FALSE]
               ELSE outbox[i]]

-----------------------------------------------------------------------------
(* One loop.  The row being worked on is the oldest left in the batch.     *)

Oldest(rows) == {r \in rows : \A q \in rows : r.id <= q.id}

\* What compose finds for a row: the post of that number in the topic of that
\* number, today.
Shows(r) ==
  /\ Visible(r.space, r.topic)
  /\ r.post \in DOMAIN posts /\ posts[r.post].topic = r.topic

SenderInit ==
  /\ pc = [c \in Channel |-> "asleep"]
  /\ batch = [c \in Channel |-> {}]
  /\ shown = [c \in Channel |-> NoPost]
  /\ letters = {} /\ nothing = {} /\ overtaken = {}
  /\ repeats = [c \in Channel |-> 0]
  /\ cuts = [c \in Channel |-> 0]
  /\ faults = 0 /\ presses = 0

\* The loop wakes, asks what is due and keeps its own channel's rows.
Fetch(c) ==
  /\ pc[c] = "asleep"
  /\ batch' = [batch EXCEPT ![c] = {Snapshot(i) : i \in {j \in Due : outbox[j].kanal = c}}]
  /\ pc' = [pc EXCEPT ![c] = IF batch'[c] = {} THEN "asleep" ELSE "compose"]
  /\ UNCHANGED <<boardVars, shown, historyVars, faults, presses>>

\* Nobody to send it to, or the post is gone: that is done.
ComposeNothing(c) ==
  /\ pc[c] = "compose"
  /\ \E r \in Oldest(batch[c]) :
       /\ c = "mail" \/ ~Shows(r)
       /\ nothing' = nothing \cup {Matter(r.subject, r.born, c)}
  /\ pc' = [pc EXCEPT ![c] = "sent"]
  /\ UNCHANGED <<boardVars, batch, shown, letters, overtaken, repeats, cuts, faults, presses>>

ComposeMessage(c) ==
  /\ pc[c] = "compose"
  /\ \E r \in Oldest(batch[c]) :
       /\ Shows(r)
       /\ shown' = [shown EXCEPT ![c] = [born |-> posts[r.post].born,
                                         author |-> posts[r.post].author]]
  /\ pc' = [pc EXCEPT ![c] = "deliver"]
  /\ UNCHANGED <<boardVars, batch, historyVars, faults, presses>>

\* Mutant: a failure passes for nothing to send.
ComposeFailsQuietly(c) ==
  /\ pc[c] = "compose"
  /\ pc' = [pc EXCEPT ![c] = "sent"]
  /\ UNCHANGED <<boardVars, batch, shown, historyVars, faults, presses>>

ComposeFails(c) ==
  /\ pc[c] = "compose"
  /\ pc' = [pc EXCEPT ![c] = "failed"]
  /\ UNCHANGED <<boardVars, batch, shown, historyVars, faults, presses>>

Letter(r) ==
  [link |-> r.id, to |-> r.subject, kanal |-> r.kanal, reason |-> r.reason,
   born |-> r.born, topicBorn |-> r.topicBorn]

\* Letters about the same thing owed.
Copies(r) == {l \in letters : Matter(l.to, l.born, l.kanal) = Matter(r.subject, r.born, r.kanal)}

\* The other side has it.
HandOver(c, r) ==
  /\ letters' = letters \cup {Letter(r)}
  /\ repeats' = IF Copies(r) = {} THEN repeats ELSE [repeats EXCEPT ![c] = @ + 1]

Deliver(c) ==
  /\ pc[c] = "deliver"
  /\ \E r \in Oldest(batch[c]) : HandOver(c, r)
  /\ pc' = [pc EXCEPT ![c] = "sent"]
  /\ shown' = [shown EXCEPT ![c] = NoPost]
  /\ UNCHANGED <<boardVars, batch, nothing, overtaken, cuts, faults, presses>>

\* The error came back before anything was accepted.
DeliverFails(c) ==
  /\ pc[c] = "deliver"
  /\ pc' = [pc EXCEPT ![c] = "failed"]
  /\ shown' = [shown EXCEPT ![c] = NoPost]
  /\ UNCHANGED <<boardVars, batch, historyVars, faults, presses>>

\* What was sent arrived and its answer did not: a request that timed out, an SMTP
\* reply that was lost.  The loop sees an error like any other.
DeliverUnanswered(c) ==
  /\ pc[c] = "deliver"
  /\ faults < MaxFaults
  /\ faults' = faults + 1
  /\ cuts' = [cuts EXCEPT ![c] = @ + 1]
  /\ \E r \in Oldest(batch[c]) : HandOver(c, r)
  /\ pc' = [pc EXCEPT ![c] = "failed"]
  /\ shown' = [shown EXCEPT ![c] = NoPost]
  /\ UNCHANGED <<boardVars, batch, nothing, overtaken, presses>>

\* The row is behind us; an empty batch ends the run.
Advance(c, r) ==
  /\ batch' = [batch EXCEPT ![c] = @ \ {r}]
  /\ pc' = [pc EXCEPT ![c] = IF batch[c] = {r} THEN "asleep" ELSE "compose"]

TickSent(c) ==
  /\ pc[c] = "sent"
  /\ \E r \in Oldest(batch[c]) : MarkSent(r.id) /\ Advance(c, r)
  /\ UNCHANGED <<topics, posts, follows, inbox, likes, optedOut, clock>>
  /\ UNCHANGED <<shown, historyVars, faults, presses>>

TickFailed(c) ==
  /\ pc[c] = "failed"
  /\ \E r \in Oldest(batch[c]) : MarkFailed(r.id, r.attempts) /\ Advance(c, r)
  /\ UNCHANGED <<topics, posts, follows, inbox, likes, optedOut, clock>>
  /\ UNCHANGED <<shown, historyVars, faults, presses>>

\* The database refuses the mark: `?' ends the run with the rest of the batch.
TickRefused(c) ==
  /\ pc[c] \in {"sent", "failed"}
  /\ faults < MaxFaults
  /\ faults' = faults + 1
  /\ cuts' = [cuts EXCEPT ![c] = @ + 1]
  /\ pc' = [pc EXCEPT ![c] = "asleep"]
  /\ batch' = [batch EXCEPT ![c] = {}]
  /\ UNCHANGED <<boardVars, shown, letters, nothing, overtaken, repeats, presses>>

Loop(c) ==
  \/ Fetch(c)
  \/ ComposeNothing(c) \/ ComposeMessage(c) \/ ComposeFails(c)
  \/ Deliver(c) \/ DeliverFails(c) \/ DeliverUnanswered(c)
  \/ TickSent(c) \/ TickFailed(c) \/ TickRefused(c)

\* The program stops and starts again: the table stays, the loops begin anew.
Restart ==
  /\ faults < MaxFaults
  /\ faults' = faults + 1
  /\ cuts' = [c \in Channel |-> cuts[c] + 1]
  /\ pc' = [c \in Channel |-> "asleep"]
  /\ batch' = [c \in Channel |-> {}]
  /\ shown' = [c \in Channel |-> NoPost]
  /\ UNCHANGED <<boardVars, letters, nothing, overtaken, repeats, presses>>

\* A row's backoff is over.
ComesDue(id) ==
  /\ Pending(id) /\ ~outbox[id].due
  /\ outbox' = [outbox EXCEPT ![id].due = TRUE]
  /\ UNCHANGED <<topics, posts, follows, inbox, likes, optedOut, clock>>
  /\ UNCHANGED <<loopVars, historyVars, faults, presses>>

-----------------------------------------------------------------------------
(* What people do meanwhile.                                               *)

\* The transactions that insert or cascade outbox rows.
Writes(who, s) ==
  \/ \E m \in SUBSET (Person \ {who}) : CreateTopic(who, s, m)
  \/ \E t \in DOMAIN topics, m \in SUBSET (Person \ {who}) : AddReply(who, s, t, m)
  \/ \E p \in DOMAIN posts, m \in SUBSET (Person \ {who}) : UpdatePost(who, s, p, m)
  \/ \E p \in DOMAIN posts : DeleteReply(who, s, p)
  \/ \E p \in DOMAIN posts : DeleteTopic(who, s, p)

\* The ids the loops are holding.
Held == {r.id : r \in UNION {batch[c] : c \in Channel}}

WriteStep(who, s) ==
  /\ Writes(who, s)
  /\ overtaken' = (overtaken \cap DOMAIN outbox')
                     \cup ((DOMAIN outbox' \ DOMAIN outbox) \cap Held)
  /\ UNCHANGED <<loopVars, letters, nothing, repeats, cuts, faults, presses>>

\* web::unsubscribe_now: whoever holds the letter presses its link.  The link is
\* the row's number; what it cancels is looked up in the row of that number now.
Unsubscribe(l) ==
  /\ presses < MaxPresses
  /\ presses' = presses + 1
  /\ l.link \in DOMAIN outbox
  /\ LET row == outbox[l.link] IN
     IF row.reason = "mention"
     THEN optedOut' = optedOut \cup {row.subject} /\ follows' = follows
     ELSE follows' = follows \ {<<row.subject, posts[row.post].topic>>}
          /\ optedOut' = optedOut
  /\ UNCHANGED <<topics, posts, inbox, likes, outbox, clock, loopVars, historyVars, faults>>

Next ==
  \/ \E c \in Configured : Loop(c)
  \/ \E id \in DOMAIN outbox : ComesDue(id)
  \/ \E who \in Person, s \in Space : WriteStep(who, s)
  \/ \E l \in letters : l.kanal = "mail" /\ Unsubscribe(l)
  \/ Restart

Init == BoardInit /\ SenderInit

Spec == Init /\ [][Next]_vars

\* A post leaves a webhook and at most a mail for everybody else behind.
RowIds == 1 .. MaxPosts * Cardinality(Person)

\* The loops run for ever (tokio::spawn of an endless loop), and time passes.
Fairness ==
  /\ \A c \in Configured :
       /\ WF_vars(Fetch(c))
       /\ WF_vars(ComposeNothing(c) \/ ComposeMessage(c) \/ ComposeFails(c))
       /\ WF_vars(Deliver(c) \/ DeliverFails(c))
       /\ WF_vars(TickSent(c) \/ TickFailed(c))
  /\ \A id \in RowIds : WF_vars(ComesDue(id))

FairSpec == Spec /\ Fairness
-----------------------------------------------------------------------------
(* Properties.                                                             *)

SnapshotRow == [id: Id, subject: Person, space: Space, post: Id, topic: Id, kanal: Channel,
                reason: {"reply", "mention"}, attempts: Nat, born: Nat, topicBorn: Nat]
Shown == [born: Nat \cup {-1}, author: Person \cup {Publisher, Nobody}]

SenderTypeOK ==
  /\ TypeOK
  /\ pc \in [Channel -> {"asleep", "compose", "deliver", "sent", "failed"}]
  /\ batch \in [Channel -> SUBSET SnapshotRow]
  /\ shown \in [Channel -> Shown]
  /\ letters \subseteq [link: Id, to: Person, kanal: Channel, reason: {"reply", "mention"},
                        born: Nat, topicBorn: Nat]
  /\ nothing \subseteq Person \X Nat \X Channel
  /\ overtaken \subseteq Id
  /\ repeats \in [Channel -> Nat]
  /\ cuts \in [Channel -> Nat]
  /\ faults \in Nat /\ presses \in Nat

Answered == {Matter(l.to, l.born, l.kanal) : l \in letters} \cup nothing

\* A row is ticked off only when what IT owes was handed over or found to have
\* nothing to send, whatever was deleted, rewritten or restarted in between -
\* except a row inserted under an id that a loop was holding at that moment
\* (notify/mod.rs: drain_channel marks by id).
SentMeansAnswered ==
  \A i \in DOMAIN outbox \ overtaken : outbox[i].sent => MatterOf(i) \in Answered

\* 0005_outbox.sql: a restart in the middle of a run "loses none".
NothingIsLost ==
  \A i \in DOMAIN outbox : outbox[i].sent => MatterOf(i) \in Answered

\* A loop that is cut off (a restart, a mark the database refused) repeats at most
\* one send, and so does one that lost the answer to a delivery the other side had
\* accepted; nothing else makes it send anything twice, although its batch was read
\* long before and the other loop works on the same table
\* (0005_outbox.sql: "repeats at most one send", of each channel).
AtMostOneRepeatPerCut == \A c \in Channel : repeats[c] <= cuts[c]

\* A mail about a post is never addressed to its writer, unless the post was
\* replaced under its number since the row was read (subscriptions.rs:
\* "A forum that mails you your own words").
NoLetterToItsWriter ==
  pc["mail"] = "deliver" =>
    \A r \in Oldest(batch["mail"]) :
      shown["mail"].born = r.born => shown["mail"].author # r.subject

\* Neither channel touches a row of the other, and a row that is sent or given
\* up stays so: attempts grow by one and never after MaxAttempts - except a row
\* inserted under an id that a loop was holding (notify/mod.rs: drain_channel).
MarksStayInLane ==
  [][\A i \in (DOMAIN outbox \cap DOMAIN outbox') \ overtaken : outbox'[i] # outbox[i] =>
       \/ /\ outbox'[i].attempts = outbox[i].attempts
          /\ ~outbox[i].due
       \/ /\ pc[outbox[i].kanal] = "sent" /\ outbox'[i].sent
          /\ outbox'[i].attempts = outbox[i].attempts
       \/ /\ pc[outbox[i].kanal] = "failed" /\ ~outbox'[i].sent
          /\ outbox'[i].attempts = outbox[i].attempts + 1
          /\ outbox'[i].attempts <= MaxAttempts]_vars

\* Whatever is owed is sent, given up or withdrawn in the end, on both channels:
\* failures of one row or channel do not hold up another's
\* (notify/mod.rs: "a mail server that is down must not hold up the webhook").
EveryRowSettles == \A id \in RowIds : Pending(id) ~> ~Pending(id)

\* The same of mails alone, where no webhook is configured: then, says outbox.rs,
\* the sender ticks the webhook's rows off as nothing to send.
EveryMailSettles ==
  \A id \in RowIds : (Pending(id) /\ outbox[id].kanal = "mail") ~> ~Pending(id)

\* README: the link's path "carries an HMAC over (account, topic)".  Pressing a
\* link stops mails of its own addressee only, about its own topic only.
LinkStopsItsOwn ==
  [][\A f \in follows \ follows' : f[2] \in DOMAIN topics' =>
       \E l \in letters : l.to = f[1] /\ l.topicBorn = topics[f[2]].born]_vars

\* The sender's table implements the mailing: each row stands for its matter, with
\* the mark the table gives it.
MarkOf(i) ==
  IF i \in overtaken THEN "astray"
  ELSE IF outbox[i].sent THEN "settled"
  ELSE IF Pending(i) THEN "owed" ELSE "hopeless"

HeldRows == UNION {batch[c] : c \in Channel}

Mail == INSTANCE Mailing WITH
  now <- clock,
  alive <- {posts[p].born : p \in DOMAIN posts},
  ledger <- {<<MatterOf(i), MarkOf(i)>> : i \in DOMAIN outbox},
  inHand <- {Matter(r.subject, r.born, r.kanal) : r \in HeldRows},
  answered <- Answered

\* The table promises what module Mailing says, although the loops work from lists
\* they read before, mark rows by number and are cut off (0005_outbox.sql: "a restart
\* in the middle of a run loses none"; db/outbox.rs; notify/mod.rs: drain_channel).
OutboxIsAMailing == Mail!MailSpec
=============================================================================
