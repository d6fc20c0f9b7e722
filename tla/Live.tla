-------------------------------- MODULE Live --------------------------------
(***************************************************************************)
(* The bell of an open page.  A stream (live.rs) asks for its person's     *)
(* bell when it opens, at every change announced through Db::changed, and  *)
(* when it has been quiet for RECHECK; it sends what differs from what it  *)
(* sent last.  Streams are opened at two doors: the forum's, for a session *)
(* (web: notifications_stream), and the start page's, for whoever the      *)
(* proxy names (web/internal.rs: bell_stream).                             *)
(*                                                                         *)
(* Writers commit and announce afterwards; between the two the handler may *)
(* be dropped with its connection.  Some writers never announce.           *)
(*                                                                         *)
(* Abstracted: of somebody's board entries in a space (module Board) only  *)
(* whether there is an unread one; the limits of the lists; the texts.     *)
(***************************************************************************)
EXTENDS Integers, FiniteSets

CONSTANTS
  Person, Handle, Space,
  EventSpace,   \* where events of other programs are shown
  EventKey,     \* (source_key, kind) of an event
  Name,         \* user names; a handle is one
  FoldOf,       \* name -> the handle it folds to
  ProxyName,    \* bound: the names the proxy gives
  StartSpaces,  \* what the groups in the proxy's header may read
  Nobody,
  Stream, Writer,
  Doors,        \* bound: stream -> the doors it is opened at
  PerPerson,    \* STREAMS_PER_PERSON
  Capacity,     \* of the broadcast channel
  MaxChanges,   \* bound: commits
  MaxFaults     \* bound: failed reads and dropped handlers

ASSUME LiveAssumption ==
  /\ EventSpace \in Space /\ StartSpaces \subseteq Space
  /\ Handle \subseteq Name /\ FoldOf \in [Name -> Handle] /\ ProxyName \subseteq Name
  /\ Nobody \notin Person \cup Handle /\ Person \cap Handle = {}
  /\ PerPerson \in Nat \ {0} /\ Capacity \in Nat \ {0}
  /\ {MaxChanges, MaxFaults} \subseteq Nat

VARIABLES
  unread,       \* <<person, space>>: an unread entry of the board
  events,       \* event key -> [handle, read], once it was taken
  reads,        \* person -> the spaces their groups may read
  holder,       \* handle -> whose it is, or Nobody
  known,        \* handle -> the name of its account in the directory, or the handle itself
  writers,      \* writer -> the handler it is in the middle of
  streams,      \* stream -> what it is doing and what it last sent
  slots,        \* <<door, who>> -> places taken
  ended,        \* streams whose session is over
  missed,       \* history: streams that were told nothing of a change since they last asked
  changes, faults

truth == <<unread, events, reads, holder, known>>
liveVars == <<truth, writers, streams, slots, ended, missed, changes, faults>>

Idle == [op |-> "idle"]
Closed == [at |-> "closed"]
Nothing == [num |-> 0, list |-> {}]
NotYet == [num |-> -1, list |-> {}]
Over == [num |-> -2, list |-> {}]

IsOpen(s) == streams[s] # Closed
OpenStreams == {s \in Stream : IsOpen(s)}
Key(r) == <<r.door, r.who>>

-----------------------------------------------------------------------------
(* db/inbox.rs: what the bell of somebody counts and lists.  Somebody is a *)
(* person, or a handle nobody holds.                                       *)

HandlesOf(asker) == IF asker \in Person THEN {h \in Handle : holder[h] = asker} ELSE {asker}

EventsFor(asker, spaces) ==
  {e \in DOMAIN events : EventSpace \in spaces /\ events[e].handle \in HandlesOf(asker)}

UnreadCount(asker, spaces) ==
  Cardinality({s \in spaces : <<asker, s>> \in unread})
    + Cardinality({e \in EventsFor(asker, spaces) : ~events[e].read})

Entries(asker, spaces) ==
  {<<"post", s>> : s \in {x \in spaces : <<asker, x>> \in unread}}
    \cup {<<"event", e, events[e].read>> : e \in EventsFor(asker, spaces)}

\* subject_of_handle
BehindHandle(h) == IF holder[h] = Nobody THEN h ELSE holder[h]

\* web/internal.rs named: byte for byte the name the directory keeps.
Named(name) == known[FoldOf[name]] = name /\ StartSpaces # {}

\* What a stream's question is about now: nobody's any more, a stranger's, or somebody's.
Whose(s) ==
  LET r == streams[s] IN
  IF r.door = "forum"
  THEN IF s \in ended \/ r.home \notin reads[r.who] THEN [kind |-> "gone"]
       ELSE [kind |-> "somebody", asker |-> r.who, spaces |-> reads[r.who]]
  ELSE IF Named(r.who)
       THEN [kind |-> "somebody", asker |-> BehindHandle(FoldOf[r.who]), spaces |-> StartSpaces]
       ELSE [kind |-> "stranger"]

-----------------------------------------------------------------------------
(* The channel (db/mod.rs): each receiver counts what it has not taken,    *)
(* and a receiver that is Capacity + 1 behind has lost something.          *)

Bumped(s) ==
  [streams[s] EXCEPT !.behind = IF @ = Capacity + 1 THEN @ ELSE @ + 1]

\* Mutant: a stream subscribes after its first answer.
AnnounceToListeners ==
  streams' = [s \in Stream |-> IF IsOpen(s) /\ ~streams[s].first THEN Bumped(s) ELSE streams[s]]

Announce == streams' = [s \in Stream |-> IF IsOpen(s) THEN Bumped(s) ELSE streams[s]]

-----------------------------------------------------------------------------
(* Streams (live.rs).                                                      *)

Put(s, record) == streams' = [streams EXCEPT ![s] = record]

Opens(s, door, who, home) ==
  /\ ~IsOpen(s)
  /\ slots[<<door, who>>] < PerPerson
  /\ slots' = [slots EXCEPT ![<<door, who>>] = @ + 1]
  /\ Put(s, [at |-> "ask", door |-> door, who |-> who, home |-> home, first |-> TRUE,
             whose |-> Nothing, num |-> 0, sent |-> NotYet, behind |-> 0])
  /\ ended' = ended \ {s} /\ missed' = missed \ {s}
  /\ UNCHANGED <<truth, writers, changes, faults>>

\* notifications_stream, with a session that may read the page's space.
OpenForum(s, p, home) == "forum" \in Doors[s] /\ home \in reads[p] /\ Opens(s, "forum", p, home)

\* web/internal.rs bell_stream, for whoever the proxy names.
OpenStart(s, name) == "start" \in Doors[s] /\ Opens(s, "start", name, Nobody)

\* Mutant: only a stream the person closes gives its place back.
KeepPlace(s) == UNCHANGED slots

\* Drop of a Slot: the place goes back with the stream, however that ends.
GiveBack(s) == slots' = [slots EXCEPT ![Key(streams[s])] = @ - 1]

Ends(s) ==
  /\ GiveBack(s)
  /\ Put(s, Closed)
  /\ ended' = ended \ {s} /\ missed' = missed \ {s}

\* The page is closed, or its connection is.
HangUp(s) ==
  /\ IsOpen(s)
  /\ slots' = [slots EXCEPT ![Key(streams[s])] = @ - 1]
  /\ Put(s, Closed)
  /\ ended' = ended \ {s} /\ missed' = missed \ {s}
  /\ UNCHANGED <<truth, writers, changes, faults>>

\* Mutant: a list that differs under the same number is not sent.
TellNumber(s, answer) ==
  Put(s, [streams[s] EXCEPT !.at = "wait", !.first = FALSE, !.whose = Nothing, !.num = 0,
                            !.sent = IF @.num = answer.num THEN @ ELSE answer])

\* A frame, unless it says what the last one said.
Tell(s, answer) ==
  Put(s, [streams[s] EXCEPT !.at = "wait", !.first = FALSE, !.whose = Nothing, !.num = 0,
                            !.sent = answer])

\* compute: the session, the rights and the name are asked again each time.
Ask(s) ==
  /\ streams[s].at = "ask"
  /\ \/ Whose(s).kind = "gone" /\ Ends(s)
     \/ /\ Whose(s).kind # "gone"
        /\ Put(s, [streams[s] EXCEPT !.at = IF Whose(s).kind = "stranger" THEN "list" ELSE "count",
                                     !.whose = Whose(s)])
        /\ UNCHANGED <<slots, ended, missed>>
  /\ UNCHANGED <<truth, writers, changes, faults>>

Count(s) ==
  /\ streams[s].at = "count"
  /\ Put(s, [streams[s] EXCEPT !.at = "list",
                               !.num = UnreadCount(streams[s].whose.asker, streams[s].whose.spaces)])
  /\ UNCHANGED <<truth, writers, slots, ended, missed, changes, faults>>

List(s) ==
  /\ streams[s].at = "list"
  /\ Tell(s, IF streams[s].whose.kind = "stranger" THEN Nothing
             ELSE [num |-> streams[s].num,
                   list |-> Entries(streams[s].whose.asker, streams[s].whose.spaces)])
  /\ UNCHANGED <<truth, writers, slots, ended, missed, changes, faults>>

\* One failed read is not the end of the stream; it waits for the next change.
ReadFails(s) ==
  /\ streams[s].at \in {"ask", "count", "list"}
  /\ faults < MaxFaults /\ faults' = faults + 1
  /\ Put(s, [streams[s] EXCEPT !.at = "wait", !.first = FALSE, !.whose = Nothing, !.num = 0])
  /\ missed' = missed \cup {s}
  /\ UNCHANGED <<truth, writers, slots, ended, changes>>

\* Mutant: what a lagging receiver lost is skipped.
RecvSkipping(s) ==
  /\ streams[s].at = "wait" /\ streams[s].behind > 0
  /\ Put(s, IF streams[s].behind > Capacity
            THEN [streams[s] EXCEPT !.behind = 0]
            ELSE [streams[s] EXCEPT !.at = "ask", !.behind = @ - 1])
  /\ missed' = missed \ {s}
  /\ UNCHANGED <<truth, writers, slots, ended, changes, faults>>

\* A change, or Lagged, which leaves the receiver at the oldest one still kept.
Recv(s) ==
  /\ streams[s].at = "wait" /\ streams[s].behind > 0
  /\ Put(s, [streams[s] EXCEPT !.at = "ask", !.behind = @ - 1])
  /\ missed' = missed \ {s}
  /\ UNCHANGED <<truth, writers, slots, ended, changes, faults>>

\* Mutant: a quiet stream is never asked whose it is.
RecheckNever(s) == FALSE

\* The timeout of RECHECK.
Recheck(s) ==
  /\ streams[s].at = "wait" /\ streams[s].behind = 0
  /\ Put(s, [streams[s] EXCEPT !.at = "ask"])
  /\ missed' = missed \ {s}
  /\ UNCHANGED <<truth, writers, slots, ended, changes, faults>>

StreamStep(s) == Ask(s) \/ Count(s) \/ List(s) \/ Recv(s) \/ Recheck(s)

-----------------------------------------------------------------------------
(* Writers.  `said' is the announcement a handler still owes.              *)

Said == [op |-> "announce"]

Commits(w, owes) ==
  /\ writers[w] = Idle
  /\ changes < MaxChanges /\ changes' = changes + 1
  /\ writers' = [writers EXCEPT ![w] = owes]
  /\ UNCHANGED <<streams, slots, ended, missed, faults>>

\* A post, a mention or a like (module Board).
Post(w, p, s) ==
  /\ unread' = unread \cup {<<p, s>>}
  /\ Commits(w, Said)
  /\ UNCHANGED <<events, reads, holder, known>>

\* mark_topic_read
ReadTopic(w, p, s) ==
  /\ <<p, s>> \in unread
  /\ unread' = unread \ {<<p, s>>}
  /\ Commits(w, Said)
  /\ UNCHANGED <<events, reads, holder, known>>

\* events::take; the same event again changes nothing and rings nobody.
TakeEvent(w, e, h) ==
  /\ e \notin DOMAIN events
  /\ events' = [k \in DOMAIN events \cup {e} |->
                  IF k = e THEN [handle |-> h, read |-> FALSE] ELSE events[k]]
  /\ Commits(w, Said)
  /\ UNCHANGED <<unread, reads, holder, known>>

ReadEvents(keys) ==
  events' = [k \in DOMAIN events |-> IF k \in keys THEN [events[k] EXCEPT !.read = TRUE] ELSE events[k]]

\* events::open: only the holder's, and only where it is shown.
OpenEvent(w, p, e) ==
  /\ e \in EventsFor(p, reads[p])
  /\ ReadEvents({e})
  /\ Commits(w, Said)
  /\ UNCHANGED <<unread, reads, holder, known>>

\* mark_all_read, first statement.
MarkInbox(w, p, spaces) ==
  /\ unread' = unread \ ({p} \X spaces)
  /\ Commits(w, [op |-> "mark_events", asker |-> p, spaces |-> spaces])
  /\ UNCHANGED <<events, reads, holder, known>>

\* The second one, or the only one for a handle nobody holds.
MarkEvents(w) ==
  /\ writers[w].op = "mark_events"
  /\ ReadEvents(EventsFor(writers[w].asker, writers[w].spaces))
  /\ writers' = [writers EXCEPT ![w] = Said]
  /\ UNCHANGED <<unread, reads, holder, known, streams, slots, ended, missed, changes, faults>>

ReadAll(w, p) == reads[p] # {} /\ MarkInbox(w, p, reads[p])

\* mark_all_read_for_handle, from the start page.
ReadBell(w, name) ==
  LET asker == BehindHandle(FoldOf[name]) IN
  /\ Named(name)
  /\ \/ asker \in Person /\ MarkInbox(w, asker, StartSpaces)
     \/ /\ asker \notin Person
        /\ ReadEvents(EventsFor(asker, StartSpaces))
        /\ Commits(w, Said)
        /\ UNCHANGED <<unread, reads, holder, known>>

\* The directory (module Directory) changes what somebody may read or is called.
DirectoryWrites(w, p, spaces, h, name) ==
  /\ reads' = [reads EXCEPT ![p] = spaces]
  /\ holder' = [holder EXCEPT ![h] = IF spaces = {} /\ @ = p THEN Nobody ELSE @]
  /\ known' = [known EXCEPT ![h] = name]
  /\ Commits(w, Said)
  /\ UNCHANGED <<unread, events>>

\* db.changed, after the commit.
Says(w) ==
  /\ writers[w] = Said
  /\ Announce
  /\ writers' = [writers EXCEPT ![w] = Idle]
  /\ UNCHANGED <<truth, slots, ended, missed, changes, faults>>

\* A statement fails, or the connection is gone and the handler with it.
Vanishes(w) ==
  /\ writers[w] # Idle
  /\ faults < MaxFaults /\ faults' = faults + 1
  /\ writers' = [writers EXCEPT ![w] = Idle]
  /\ missed' = missed \cup OpenStreams
  /\ UNCHANGED <<truth, streams, slots, ended, changes>>

\* A sign-in writes groups and handle, and a sign-out ends a session: unannounced.
Silently ==
  /\ changes < MaxChanges /\ changes' = changes + 1
  /\ missed' = missed \cup OpenStreams
  /\ UNCHANGED <<unread, events, known, writers, streams, slots, faults>>

SignIn(p, spaces, h) ==
  /\ holder[h] = Nobody
  /\ reads' = [reads EXCEPT ![p] = spaces]
  /\ holder' = [holder EXCEPT ![h] = p]
  /\ Silently /\ UNCHANGED ended

SignOut(s) ==
  /\ IsOpen(s) /\ streams[s].door = "forum" /\ s \notin ended
  /\ ended' = ended \cup {s}
  /\ Silently /\ UNCHANGED <<reads, holder>>

Write(w) ==
  \/ \E p \in Person, s \in Space : Post(w, p, s) \/ ReadTopic(w, p, s)
  \/ \E e \in EventKey, h \in Handle : TakeEvent(w, e, h)
  \/ \E p \in Person, e \in EventKey : OpenEvent(w, p, e)
  \/ \E p \in Person : ReadAll(w, p)
  \/ \E name \in ProxyName : ReadBell(w, name)
  \/ \E p \in Person, spaces \in SUBSET Space, h \in Handle, name \in Name :
       DirectoryWrites(w, p, spaces, h, name)
  \/ Vanishes(w)

Finish(w) == MarkEvents(w) \/ Says(w)

-----------------------------------------------------------------------------
\* The program starts on tables somebody has used: every handle is somebody's.
LiveInit ==
  /\ unread = {} /\ events = <<>>
  /\ reads = [p \in Person |-> Space]
  /\ holder \in [Handle -> Person]
  /\ known = [h \in Handle |-> h]
  /\ writers = [w \in Writer |-> Idle]
  /\ streams = [s \in Stream |-> Closed]
  /\ slots = [k \in ({"forum"} \X Person) \cup ({"start"} \X ProxyName) |-> 0]
  /\ ended = {} /\ missed = {}
  /\ changes = 0 /\ faults = 0

LiveNext ==
  \/ \E s \in Stream, p \in Person, home \in Space : OpenForum(s, p, home)
  \/ \E s \in Stream, name \in ProxyName : OpenStart(s, name)
  \/ \E s \in Stream : StreamStep(s) \/ HangUp(s) \/ ReadFails(s) \/ SignOut(s)
  \/ \E w \in Writer : Write(w) \/ Finish(w)
  \/ \E p \in Person, spaces \in SUBSET Space, h \in Handle : SignIn(p, spaces, h)

\* The runtime polls every stream and every handler; RECHECK is a timer.
LiveSpec ==
  /\ LiveInit /\ [][LiveNext]_liveVars
  /\ \A s \in Stream : WF_liveVars(StreamStep(s))
  /\ \A w \in Writer : WF_liveVars(Finish(w))

-----------------------------------------------------------------------------
(* Properties.                                                             *)

\* A stream's place is taken exactly as long as the stream is open, and nobody
\* holds more than PerPerson at a door (live.rs: try_open, drop of Slot).
SlotsAreStreams ==
  \A k \in DOMAIN slots :
    /\ slots[k] = Cardinality({s \in OpenStreams : Key(streams[s]) = k})
    /\ slots[k] <= PerPerson

\* What the bell of a stream is at this moment.
Current(s) ==
  CASE Whose(s).kind = "gone" -> Over
    [] Whose(s).kind = "stranger" -> Nothing
    [] OTHER -> [num |-> UnreadCount(Whose(s).asker, Whose(s).spaces),
                 list |-> Entries(Whose(s).asker, Whose(s).spaces)]

\* A stream that waits, with nothing in its channel and no writer about to
\* announce, has sent the bell as it is - number and list, also when a change fell between
\* its opening and its first answer, between its number and its list, or out of the channel.  What
\* nobody announced, and a read that failed, are the exceptions (live.rs: bell_stream).
QuietMeansCurrent ==
  \A s \in OpenStreams \ missed :
    streams[s].at = "wait" /\ streams[s].behind = 0 /\ (\A w \in Writer : writers[w] = Idle)
      => streams[s].sent = Current(s)

\* Again and again every stream shows the bell as it is, announced or not, or is
\* closed; one whose session is over can only be closed, and gives its place back.
\* RECHECK covers what was missed (live.rs).
ToldInTheEnd ==
  \A s \in Stream : []<>(IsOpen(s) => streams[s].sent = Current(s))

\* The live bell implements the doorbell.
Door == INSTANCE Doorbell WITH
  open <- OpenStreams,
  rung <- {s \in OpenStreams : streams[s].behind > 0},
  asking <- {s \in OpenStreams : streams[s].at # "wait"}
RingsAtEveryDoor == Door!DoorSpec
=============================================================================
