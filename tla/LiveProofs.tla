----------------------------- MODULE LiveProofs -----------------------------
(***************************************************************************)
(* What holds of the live bell for any number of people, streams, writers, *)
(* events and changes, and any capacity of the channel: its places, what a *)
(* quiet stream has told, and that it is a doorbell (module Doorbell).     *)
(***************************************************************************)
EXTENDS Live, FiniteSetTheorems, TLAPS

Doorways == ({"forum"} \X Person) \cup ({"start"} \X ProxyName)

\* A stream that is open; what it asks about and what it sent are left free.
IsStream(r) ==
  /\ DOMAIN r = {"at", "door", "who", "home", "first", "whose", "num", "sent", "behind"}
  /\ r.at \in {"ask", "count", "list", "wait"}
  /\ Key(r) \in Doorways
  /\ r.behind \in Nat

Shaped ==
  /\ streams = [s \in Stream |-> streams[s]]
  /\ \A s \in Stream : streams[s] = Closed \/ IsStream(streams[s])
  /\ writers = [w \in Writer |-> writers[w]]
  /\ ended \subseteq Stream /\ missed \subseteq Stream

\* The streams that take a place.
At(k) == {s \in OpenStreams : Key(streams[s]) = k}

Placed ==
  /\ slots \in [Doorways -> Nat] /\ IsFiniteSet(OpenStreams)
  /\ \A k \in Doorways : slots[k] = Cardinality(At(k)) /\ slots[k] <= PerPerson

\* A ring has reached the stream, or a writer will ring.
Awaited(s) == streams[s].behind > 0 \/ \E w \in Writer : writers[w] # Idle

\* What the stream has found out so far is what it is.
UpToDate(s) ==
  LET r == streams[s] IN
  /\ r.at = "wait" => r.sent = Current(s)
  /\ r.at \in {"count", "list"} =>
       r.whose = Whose(s) /\ r.whose.kind \in {"somebody", "stranger"}
  /\ r.at = "count" => r.whose.kind = "somebody"
  /\ r.at = "list" /\ r.whose.kind = "somebody" => r.num = UnreadCount(r.whose.asker, r.whose.spaces)

\* A change that a stream has not seen yet will ring, or is one nobody announced.
Told == \A s \in OpenStreams \ missed : Awaited(s) \/ UpToDate(s)

\* The inductive invariant.
LiveInv == Shaped /\ Placed /\ Told

-----------------------------------------------------------------------------
(* What a step does to the streams.                                        *)

LEMMA OnePut ==
  ASSUME Shaped, NEW s \in Stream, NEW record, Put(s, record)
  PROVE  /\ streams' = [q \in Stream |-> streams'[q]]
         /\ streams'[s] = record
         /\ \A q \in Stream \ {s} : streams'[q] = streams[q]
  BY DEF Shaped, Put

\* One stream goes on: whose it is stays, and so does everything but the stream.
GoesOn(s) ==
  /\ streams' = [q \in Stream |-> streams'[q]] /\ IsStream(streams'[s])
  /\ \A q \in Stream \ {s} : streams'[q] = streams[q]
  /\ streams'[s].door = streams[s].door /\ streams'[s].who = streams[s].who
  /\ streams'[s].home = streams[s].home
  /\ UNCHANGED <<truth, writers, slots, ended>>

\* live.rs: compute, its first questions.
LEMMA AskShape ==
  ASSUME Shaped, NEW s \in Stream, Ask(s), Whose(s).kind # "gone"
  PROVE  /\ GoesOn(s) /\ UNCHANGED missed
         /\ streams'[s].at = IF Whose(s).kind = "stranger" THEN "list" ELSE "count"
         /\ streams'[s].whose = Whose(s) /\ streams'[s].behind = streams[s].behind
  <1> DEFINE r == streams[s]
             record == [r EXCEPT !.at = IF Whose(s).kind = "stranger" THEN "list" ELSE "count",
                                 !.whose = Whose(s)]
  <1>1. r.at = "ask" /\ Put(s, record) /\ UNCHANGED <<truth, writers, slots, ended, missed>>
    BY DEF Ask
  <1>2. IsStream(r)
    BY <1>1 DEF Shaped, Closed
  <1>3. /\ IsStream(record) /\ record.at = IF Whose(s).kind = "stranger" THEN "list" ELSE "count"
        /\ record.whose = Whose(s) /\ record.behind = r.behind
        /\ record.door = r.door /\ record.who = r.who /\ record.home = r.home
    BY <1>2 DEF IsStream, Key
  <1> HIDE DEF record
  <1> QED BY <1>1, <1>3, OnePut DEF GoesOn

LEMMA CountShape ==
  ASSUME Shaped, NEW s \in Stream, Count(s)
  PROVE  /\ GoesOn(s) /\ UNCHANGED missed
         /\ streams'[s].at = "list" /\ streams'[s].behind = streams[s].behind
         /\ streams'[s].whose = streams[s].whose
         /\ streams'[s].num = UnreadCount(streams[s].whose.asker, streams[s].whose.spaces)
  <1> DEFINE r == streams[s]
             record == [r EXCEPT !.at = "list", !.num = UnreadCount(r.whose.asker, r.whose.spaces)]
  <1>1. r.at = "count" /\ Put(s, record) /\ UNCHANGED <<truth, writers, slots, ended, missed>>
    BY DEF Count
  <1>2. IsStream(r)
    BY <1>1 DEF Shaped, Closed
  <1>3. /\ IsStream(record) /\ record.at = "list"
        /\ record.whose = r.whose /\ record.behind = r.behind
        /\ record.num = UnreadCount(r.whose.asker, r.whose.spaces)
        /\ record.door = r.door /\ record.who = r.who /\ record.home = r.home
    BY <1>2 DEF IsStream, Key
  <1> HIDE DEF record
  <1> QED BY <1>1, <1>3, OnePut DEF GoesOn

LEMMA ListShape ==
  ASSUME Shaped, NEW s \in Stream, List(s)
  PROVE  /\ GoesOn(s) /\ UNCHANGED missed
         /\ streams'[s].at = "wait" /\ streams'[s].behind = streams[s].behind
         /\ streams'[s].sent =
              IF streams[s].whose.kind = "stranger" THEN Nothing
              ELSE [num |-> streams[s].num,
                    list |-> Entries(streams[s].whose.asker, streams[s].whose.spaces)]
  <1> DEFINE r == streams[s]
             answer == IF r.whose.kind = "stranger" THEN Nothing
                       ELSE [num |-> r.num, list |-> Entries(r.whose.asker, r.whose.spaces)]
             record == [r EXCEPT !.at = "wait", !.first = FALSE, !.whose = Nothing, !.num = 0,
                                 !.sent = answer]
  <1>1. r.at = "list" /\ Put(s, record) /\ UNCHANGED <<truth, writers, slots, ended, missed>>
    BY DEF List, Tell
  <1>2. IsStream(r)
    BY <1>1 DEF Shaped, Closed
  <1> HIDE DEF answer
  <1>3. /\ IsStream(record) /\ record.at = "wait"
        /\ record.sent = answer /\ record.behind = r.behind
        /\ record.door = r.door /\ record.who = r.who /\ record.home = r.home
    BY <1>2 DEF IsStream, Key
  <1> HIDE DEF record
  <1> QED BY <1>1, <1>3, OnePut DEF GoesOn, answer

LEMMA ReadFailsShape ==
  ASSUME Shaped, NEW s \in Stream, ReadFails(s)
  PROVE  /\ GoesOn(s) /\ missed' = missed \cup {s} /\ streams[s].at # "wait" /\ IsOpen(s)
         /\ streams'[s].at = "wait" /\ streams'[s].behind = streams[s].behind
  <1> DEFINE r == streams[s]
             record == [r EXCEPT !.at = "wait", !.first = FALSE, !.whose = Nothing, !.num = 0]
  <1>1. /\ r.at \in {"ask", "count", "list"} /\ Put(s, record)
        /\ UNCHANGED <<truth, writers, slots, ended>> /\ missed' = missed \cup {s}
    BY DEF ReadFails
  <1>2. IsStream(r) /\ IsOpen(s)
    BY <1>1 DEF Shaped, Closed, IsOpen
  <1>3. /\ IsStream(record) /\ record.at = "wait" /\ record.behind = r.behind
        /\ record.door = r.door /\ record.who = r.who /\ record.home = r.home
    BY <1>2 DEF IsStream, Key
  <1> HIDE DEF record
  <1> QED BY <1>1, <1>2, <1>3, OnePut DEF GoesOn

\* Recv and Recheck: the stream asks again.
LEMMA WakesShape ==
  ASSUME Shaped, NEW s \in Stream, Recv(s) \/ Recheck(s)
  PROVE  /\ GoesOn(s) /\ missed' = missed \ {s} /\ streams[s].at = "wait" /\ IsOpen(s)
         /\ streams'[s].at = "ask"
         /\ Recv(s) \/ streams'[s].behind = streams[s].behind
  <1> DEFINE r == streams[s]
  <1>1. /\ r.at = "wait" /\ missed' = missed \ {s}
        /\ UNCHANGED <<truth, writers, slots, ended>>
    BY DEF Recv, Recheck
  <1>2. IsStream(r) /\ IsOpen(s)
    BY <1>1 DEF Shaped, Closed, IsOpen
  <1>3. CASE Recv(s)
    <2> DEFINE record == [r EXCEPT !.at = "ask", !.behind = @ - 1]
    <2>1. Put(s, record) /\ r.behind > 0
      BY <1>3 DEF Recv
    <2>2. /\ IsStream(record) /\ record.at = "ask"
          /\ record.door = r.door /\ record.who = r.who /\ record.home = r.home
      BY <1>2, <2>1 DEF IsStream, Key
    <2> HIDE DEF record
    <2> QED BY <1>1, <1>2, <1>3, <2>1, <2>2, OnePut DEF GoesOn
  <1>4. CASE Recheck(s)
    <2> DEFINE record == [r EXCEPT !.at = "ask"]
    <2>1. Put(s, record)
      BY <1>4 DEF Recheck
    <2>2. /\ IsStream(record) /\ record.at = "ask" /\ record.behind = r.behind
          /\ record.door = r.door /\ record.who = r.who /\ record.home = r.home
      BY <1>2 DEF IsStream, Key
    <2> HIDE DEF record
    <2> QED BY <1>1, <1>2, <1>4, <2>1, <2>2, OnePut DEF GoesOn
  <1> QED BY <1>3, <1>4

\* db/mod.rs: changed: one more in every channel, or full it stays.
LEMMA AnnounceShape ==
  ASSUME Shaped, Announce
  PROVE  /\ streams' = [q \in Stream |-> streams'[q]] /\ OpenStreams' = OpenStreams
         /\ \A s \in Stream \ OpenStreams : streams'[s] = streams[s]
         /\ \A s \in OpenStreams :
              /\ IsStream(streams'[s]) /\ Key(streams'[s]) = Key(streams[s])
              /\ streams'[s].behind > 0 /\ streams'[s].at = streams[s].at
  <1>1. ASSUME NEW s \in OpenStreams
        PROVE  /\ IsStream(Bumped(s)) /\ Key(Bumped(s)) = Key(streams[s])
               /\ Bumped(s).behind > 0 /\ Bumped(s).at = streams[s].at
    <2> DEFINE r == streams[s]
               b == IF r.behind = Capacity + 1 THEN r.behind ELSE r.behind + 1
               record == [r EXCEPT !.behind = b]
    <2>1. IsStream(r)
      BY DEF Shaped, OpenStreams, IsOpen
    <2>2. b \in Nat /\ b > 0
      BY <2>1, LiveAssumption DEF IsStream
    <2>3. Bumped(s) = record
      BY DEF Bumped
    <2> HIDE DEF b
    <2>4. /\ IsStream(record) /\ Key(record) = Key(r) /\ record.behind = b /\ record.at = r.at
      BY <2>1, <2>2 DEF IsStream, Key
    <2> HIDE DEF record
    <2> QED BY <2>2, <2>3, <2>4
  <1>2. /\ streams' = [q \in Stream |-> streams'[q]]
        /\ \A s \in Stream : streams'[s] = IF s \in OpenStreams THEN Bumped(s) ELSE streams[s]
    BY DEF Announce, OpenStreams
  <1>3. ASSUME NEW s \in OpenStreams PROVE streams'[s] # Closed
    <2>1. streams'[s].at # "closed"
      BY <1>1, <1>2 DEF OpenStreams, IsStream
    <2> QED BY <2>1 DEF Closed
  <1>4. OpenStreams' = OpenStreams
    BY <1>2, <1>3 DEF OpenStreams, IsOpen
  <1> QED BY <1>1, <1>2, <1>4 DEF OpenStreams

-----------------------------------------------------------------------------
(* What it does to the places.                                             *)

LEMMA PlacesStay ==
  ASSUME Placed, OpenStreams' = OpenStreams, UNCHANGED slots,
         \A s \in OpenStreams : Key(streams'[s]) = Key(streams[s])
  PROVE  Placed'
  <1>1. ASSUME NEW k PROVE At(k)' = At(k)
    BY DEF At
  <1> QED BY <1>1 DEF Placed

\* live.rs: try_open.
LEMMA OpensShape ==
  ASSUME Shaped, Placed, NEW s \in Stream, NEW door, NEW who, NEW home,
         <<door, who>> \in Doorways, Opens(s, door, who, home)
  PROVE  /\ streams' = [q \in Stream |-> streams'[q]] /\ IsStream(streams'[s])
         /\ \A q \in Stream \ {s} : streams'[q] = streams[q]
         /\ OpenStreams' = OpenStreams \cup {s} /\ s \notin OpenStreams
         /\ streams'[s].at = "ask" /\ streams'[s].behind = 0
         /\ UNCHANGED <<truth, writers>>
         /\ ended' = ended \ {s} /\ missed' = missed \ {s}
         /\ Placed'
  <1> DEFINE record == [at |-> "ask", door |-> door, who |-> who, home |-> home, first |-> TRUE,
                        whose |-> Nothing, num |-> 0, sent |-> NotYet, behind |-> 0]
             k == <<door, who>>
  <1>1. /\ ~IsOpen(s) /\ Put(s, record) /\ slots[k] < PerPerson
        /\ slots' = [slots EXCEPT ![k] = @ + 1]
        /\ ended' = ended \ {s} /\ missed' = missed \ {s} /\ UNCHANGED <<truth, writers>>
    BY DEF Opens
  <1>2. IsStream(record) /\ Key(record) = k /\ record.at = "ask" /\ record.behind = 0
        /\ record # Closed
    BY DEF IsStream, Key, Closed
  <1> HIDE DEF record
  <1>3. /\ streams' = [q \in Stream |-> streams'[q]] /\ streams'[s] = record
        /\ \A q \in Stream \ {s} : streams'[q] = streams[q]
    BY <1>1, OnePut
  <1>4. OpenStreams' = OpenStreams \cup {s} /\ s \notin OpenStreams /\ OpenStreams \subseteq Stream
    BY <1>1, <1>2, <1>3 DEF OpenStreams, IsOpen
  <1>5. k \in Doorways
    OBVIOUS
  <1> HIDE DEF k
  <1>6. Placed'
    <2>1. IsFiniteSet(OpenStreams')
      BY <1>4, FS_AddElement DEF Placed
    <2>2. /\ slots' \in [Doorways -> Nat] /\ slots'[k] = slots[k] + 1 /\ slots'[k] <= PerPerson
          /\ \A j \in Doorways \ {k} : slots'[j] = slots[j]
      BY <1>1, <1>5, LiveAssumption DEF Placed
    <2>3. At(k)' = At(k) \cup {s} /\ s \notin At(k)
      BY <1>2, <1>3, <1>4 DEF At
    <2>4. IsFiniteSet(At(k))
      BY FS_Subset DEF Placed, At
    <2>5. Cardinality(At(k))' = Cardinality(At(k)) + 1
      BY <2>3, <2>4, FS_AddElement
    <2>6. ASSUME NEW j \in Doorways \ {k} PROVE At(j)' = At(j)
      BY <1>2, <1>3, <1>4 DEF At
    <2>7. \A j \in Doorways \ {k} : slots'[j] = Cardinality(At(j))' /\ slots'[j] <= PerPerson
      BY <2>2, <2>6 DEF Placed
    <2>8. slots'[k] = Cardinality(At(k))'
      BY <1>5, <2>2, <2>5 DEF Placed
    <2> QED BY <2>1, <2>2, <2>7, <2>8 DEF Placed
  <1> QED BY <1>1, <1>2, <1>3, <1>4, <1>6

\* live.rs: drop of Slot.
LEMMA EndsShape ==
  ASSUME Shaped, Placed, NEW s \in Stream, IsOpen(s),
         slots' = [slots EXCEPT ![Key(streams[s])] = @ - 1], Put(s, Closed)
  PROVE  /\ streams' = [q \in Stream |-> streams'[q]] /\ streams'[s] = Closed
         /\ \A q \in Stream \ {s} : streams'[q] = streams[q]
         /\ OpenStreams' = OpenStreams \ {s} /\ s \in OpenStreams
         /\ Placed'
  <1>1. /\ streams' = [q \in Stream |-> streams'[q]] /\ streams'[s] = Closed
        /\ \A q \in Stream \ {s} : streams'[q] = streams[q]
    BY OnePut
  <1>2. OpenStreams' = OpenStreams \ {s} /\ s \in OpenStreams /\ OpenStreams \subseteq Stream
    BY <1>1 DEF OpenStreams, IsOpen
  <1>3. PICK k : k = Key(streams[s])
    OBVIOUS
  <1>4. k \in Doorways
    BY <1>3 DEF Shaped, IsOpen, IsStream
  <1>5. Placed'
    <2>1. IsFiniteSet(OpenStreams')
      BY <1>2, FS_RemoveElement DEF Placed
    <2>2. At(k)' = At(k) \ {s} /\ s \in At(k)
      BY <1>1, <1>2, <1>3 DEF At
    <2>3. IsFiniteSet(At(k))
      BY FS_Subset DEF Placed, At
    <2>4. Cardinality(At(k))' = Cardinality(At(k)) - 1
      BY <2>2, <2>3, FS_RemoveElement
    <2>5. slots[k] = Cardinality(At(k)) /\ slots[k] \in Nat /\ slots[k] <= PerPerson
      BY <1>4 DEF Placed
    <2>6. Cardinality(At(k)) # 0
      BY <2>2, <2>3, FS_EmptySet
    <2>7. /\ slots' \in [Doorways -> Nat] /\ slots'[k] = slots[k] - 1
          /\ \A j \in Doorways \ {k} : slots'[j] = slots[j]
      <3>1. slots[k] - 1 \in Nat
        BY <2>5, <2>6
      <3> QED BY <1>3, <1>4, <3>1 DEF Placed
    <2>8. ASSUME NEW j \in Doorways \ {k} PROVE At(j)' = At(j)
      BY <1>1, <1>2, <1>3 DEF At
    <2>9. \A j \in Doorways \ {k} : slots'[j] = Cardinality(At(j))' /\ slots'[j] <= PerPerson
      BY <2>7, <2>8 DEF Placed
    <2>10. slots'[k] = Cardinality(At(k))' /\ slots'[k] <= PerPerson
      BY <2>4, <2>5, <2>7, LiveAssumption
    <2> QED BY <2>1, <2>7, <2>9, <2>10 DEF Placed
  <1> QED BY <1>1, <1>2, <1>5

-----------------------------------------------------------------------------
(* What it does to what the streams know.                                  *)

\* The same question has the same answer.
LEMMA AnswersStay ==
  ASSUME UNCHANGED truth, NEW asker, NEW spaces
  PROVE  /\ UnreadCount(asker, spaces)' = UnreadCount(asker, spaces)
         /\ Entries(asker, spaces)' = Entries(asker, spaces)
  BY DEF truth, UnreadCount, Entries, EventsFor, HandlesOf

LEMMA WhoseStays ==
  ASSUME UNCHANGED truth, NEW s \in Stream, s \in ended' <=> s \in ended,
         streams'[s].door = streams[s].door, streams'[s].who = streams[s].who,
         streams'[s].home = streams[s].home
  PROVE  Whose(s)' = Whose(s) /\ Current(s)' = Current(s)
  <1>1. Whose(s)' = Whose(s)
    BY DEF truth, Whose, Named, BehindHandle
  <1> QED BY <1>1, AnswersStay DEF Current

\* A stream nothing happens to.
LEMMA OthersStayTold ==
  ASSUME Told, UNCHANGED <<truth, writers>>, NEW q \in OpenStreams \ missed,
         streams'[q] = streams[q], q \in ended' <=> q \in ended
  PROVE  (Awaited(q) \/ UpToDate(q))'
  <1>1. Awaited(q) \/ UpToDate(q)
    BY DEF Told
  <1>2. CASE Awaited(q)
    BY <1>2 DEF Awaited
  <1>3. CASE UpToDate(q)
    <2>1. Whose(q)' = Whose(q) /\ Current(q)' = Current(q)
      BY WhoseStays DEF OpenStreams
    <2> QED BY <1>3, <2>1, AnswersStay DEF UpToDate
  <1> QED BY <1>1, <1>2, <1>3

\* A stream that goes on, and knows what it should.
LEMMA GoesOnKeeps ==
  ASSUME LiveInv, NEW s \in Stream, IsOpen(s), GoesOn(s),
         missed' \in {missed, missed \cup {s}, missed \ {s}},
         s \in OpenStreams' \ missed' => (Awaited(s) \/ UpToDate(s))'
  PROVE  LiveInv'
  <1>1. /\ streams' = [q \in Stream |-> streams'[q]] /\ IsStream(streams'[s])
        /\ \A q \in Stream \ {s} : streams'[q] = streams[q]
        /\ streams'[s].door = streams[s].door /\ streams'[s].who = streams[s].who
        /\ UNCHANGED truth /\ UNCHANGED writers /\ UNCHANGED slots /\ UNCHANGED ended
    BY DEF GoesOn
  <1>2. streams'[s] # Closed
    BY <1>1 DEF IsStream, Closed
  <1>3. OpenStreams' = OpenStreams
    BY <1>1, <1>2 DEF OpenStreams, IsOpen
  <1>4. Shaped'
    BY <1>1 DEF LiveInv, Shaped
  <1>5. Placed'
    <2>1. \A q \in OpenStreams : Key(streams'[q]) = Key(streams[q])
      BY <1>1 DEF OpenStreams, Key
    <2> QED BY <1>1, <1>3, <2>1, PlacesStay DEF LiveInv
  <1>6. Told'
    <2>1. ASSUME NEW q \in OpenStreams' \ missed', q # s PROVE (Awaited(q) \/ UpToDate(q))'
      <3>1. q \in OpenStreams \ missed /\ q \in Stream
        BY <1>3, <2>1 DEF OpenStreams
      <3> QED BY <1>1, <2>1, <3>1, OthersStayTold DEF LiveInv
    <2> QED BY <2>1 DEF Told
  <1> QED BY <1>4, <1>5, <1>6 DEF LiveInv

\* A stream that ends, however it does.
LEMMA EndsKeeps ==
  ASSUME LiveInv, NEW s \in Stream, IsOpen(s),
         slots' = [slots EXCEPT ![Key(streams[s])] = @ - 1], Put(s, Closed),
         UNCHANGED truth, UNCHANGED writers,
         ended' = ended \ {s}, missed' = missed \ {s}
  PROVE  LiveInv'
  <1>1. /\ streams' = [q \in Stream |-> streams'[q]] /\ streams'[s] = Closed
        /\ \A q \in Stream \ {s} : streams'[q] = streams[q]
        /\ OpenStreams' = OpenStreams \ {s}
        /\ Placed'
    BY EndsShape DEF LiveInv
  <1>2. Shaped'
    BY <1>1 DEF LiveInv, Shaped
  <1>3. Told'
    <2>1. ASSUME NEW q \in OpenStreams' \ missed' PROVE (Awaited(q) \/ UpToDate(q))'
      <3>1. q \in OpenStreams \ missed /\ q \in Stream \ {s}
        BY <1>1, <2>1 DEF OpenStreams
      <3> QED BY <1>1, <3>1, OthersStayTold DEF LiveInv
    <2> QED BY <2>1 DEF Told
  <1> QED BY <1>1, <1>2, <1>3 DEF LiveInv

\* A stream that begins has not asked yet.
LEMMA OpensKeeps ==
  ASSUME LiveInv, NEW s \in Stream, NEW door, NEW who, NEW home,
         <<door, who>> \in Doorways, Opens(s, door, who, home)
  PROVE  LiveInv'
  <1>1. /\ streams' = [q \in Stream |-> streams'[q]] /\ IsStream(streams'[s])
        /\ \A q \in Stream \ {s} : streams'[q] = streams[q]
        /\ OpenStreams' = OpenStreams \cup {s}
        /\ streams'[s].at = "ask"
        /\ UNCHANGED <<truth, writers>>
        /\ ended' = ended \ {s} /\ missed' = missed \ {s}
        /\ Placed'
    BY OpensShape DEF LiveInv
  <1>2. Shaped'
    BY <1>1 DEF LiveInv, Shaped
  <1>3. Told'
    <2>1. ASSUME NEW q \in OpenStreams' \ missed', q # s PROVE (Awaited(q) \/ UpToDate(q))'
      <3>1. q \in OpenStreams \ missed /\ q \in Stream
        BY <1>1, <2>1 DEF OpenStreams
      <3> QED BY <1>1, <2>1, <3>1, OthersStayTold DEF LiveInv
    <2>2. UpToDate(s)'
      BY <1>1 DEF UpToDate
    <2> QED BY <2>1, <2>2 DEF Told
  <1> QED BY <1>1, <1>2, <1>3 DEF LiveInv

LEMMA AskKeeps ==
  ASSUME LiveInv, NEW s \in Stream, Ask(s)
  PROVE  LiveInv'
  <1>1. IsOpen(s)
    BY DEF Ask, IsOpen, Closed
  <1>2. CASE Whose(s).kind = "gone"
    <2>1. /\ slots' = [slots EXCEPT ![Key(streams[s])] = @ - 1] /\ Put(s, Closed)
          /\ UNCHANGED truth /\ UNCHANGED writers
          /\ ended' = ended \ {s} /\ missed' = missed \ {s}
      BY <1>2 DEF Ask, Ends, GiveBack
    <2> QED BY <1>1, <2>1, EndsKeeps
  <1>3. CASE Whose(s).kind # "gone"
    <2>1. /\ GoesOn(s) /\ UNCHANGED missed
          /\ streams'[s].at = IF Whose(s).kind = "stranger" THEN "list" ELSE "count"
          /\ streams'[s].whose = Whose(s)
      BY <1>3, AskShape DEF LiveInv
    <2>2. Whose(s)' = Whose(s)
      BY <2>1, WhoseStays DEF GoesOn
    <2>3. Whose(s).kind \in {"somebody", "stranger"}
      BY <1>3 DEF Whose
    <2>4. UpToDate(s)'
      BY <2>1, <2>2, <2>3 DEF UpToDate
    <2> QED BY <1>1, <2>1, <2>4, GoesOnKeeps
  <1> QED BY <1>2, <1>3

LEMMA CountKeeps ==
  ASSUME LiveInv, NEW s \in Stream, Count(s)
  PROVE  LiveInv'
  <1>1. IsOpen(s) /\ streams[s].at = "count"
    BY DEF Count, IsOpen, Closed
  <1>2. /\ GoesOn(s) /\ UNCHANGED missed
        /\ streams'[s].at = "list" /\ streams'[s].behind = streams[s].behind
        /\ streams'[s].whose = streams[s].whose
        /\ streams'[s].num = UnreadCount(streams[s].whose.asker, streams[s].whose.spaces)
    BY CountShape DEF LiveInv
  <1>3. ASSUME s \notin missed PROVE (Awaited(s) \/ UpToDate(s))'
    <2>1. CASE Awaited(s)
      BY <1>2, <2>1 DEF Awaited, GoesOn
    <2>2. CASE UpToDate(s)
      <3>1. streams[s].whose = Whose(s) /\ Whose(s).kind = "somebody"
        BY <1>1, <2>2 DEF UpToDate
      <3>2. Whose(s)' = Whose(s)
        BY <1>2, WhoseStays DEF GoesOn
      <3>3. streams'[s].num = UnreadCount(streams[s].whose.asker, streams[s].whose.spaces)'
        BY <1>2, AnswersStay DEF GoesOn
      <3> QED BY <1>2, <3>1, <3>2, <3>3 DEF UpToDate
    <2> QED BY <1>1, <1>3, <2>1, <2>2 DEF LiveInv, Told, OpenStreams
  <1> QED BY <1>1, <1>2, <1>3, GoesOnKeeps

LEMMA ListKeeps ==
  ASSUME LiveInv, NEW s \in Stream, List(s)
  PROVE  LiveInv'
  <1>1. IsOpen(s) /\ streams[s].at = "list"
    BY DEF List, IsOpen, Closed
  <1>2. /\ GoesOn(s) /\ UNCHANGED missed
        /\ streams'[s].at = "wait" /\ streams'[s].behind = streams[s].behind
        /\ streams'[s].sent =
             IF streams[s].whose.kind = "stranger" THEN Nothing
             ELSE [num |-> streams[s].num,
                   list |-> Entries(streams[s].whose.asker, streams[s].whose.spaces)]
    BY ListShape DEF LiveInv
  <1>3. ASSUME s \notin missed PROVE (Awaited(s) \/ UpToDate(s))'
    <2>1. CASE Awaited(s)
      BY <1>2, <2>1 DEF Awaited, GoesOn
    <2>2. CASE UpToDate(s)
      <3>1. streams[s].whose = Whose(s) /\ Whose(s).kind \in {"somebody", "stranger"}
        BY <1>1, <2>2 DEF UpToDate
      <3>2. Whose(s).kind = "somebody" =>
              streams[s].num = UnreadCount(Whose(s).asker, Whose(s).spaces)
        BY <1>1, <2>2, <3>1 DEF UpToDate
      <3>3. streams'[s].sent = Current(s)
        BY <1>2, <3>1, <3>2 DEF Current
      <3>4. Current(s)' = Current(s)
        BY <1>2, WhoseStays DEF GoesOn
      <3> QED BY <1>2, <3>3, <3>4 DEF UpToDate
    <2> QED BY <1>1, <1>3, <2>1, <2>2 DEF LiveInv, Told, OpenStreams
  <1> QED BY <1>1, <1>2, <1>3, GoesOnKeeps

LEMMA ReadFailsKeeps ==
  ASSUME LiveInv, NEW s \in Stream, ReadFails(s)
  PROVE  LiveInv'
  <1>1. GoesOn(s) /\ missed' = missed \cup {s} /\ IsOpen(s)
    BY ReadFailsShape DEF LiveInv
  <1> QED BY <1>1, GoesOnKeeps

LEMMA WakesKeeps ==
  ASSUME LiveInv, NEW s \in Stream, Recv(s) \/ Recheck(s)
  PROVE  LiveInv'
  <1>1. GoesOn(s) /\ missed' = missed \ {s} /\ IsOpen(s) /\ streams'[s].at = "ask"
    BY WakesShape DEF LiveInv
  <1>2. UpToDate(s)'
    BY <1>1 DEF UpToDate
  <1> QED BY <1>1, <1>2, GoesOnKeeps

LEMMA HangUpKeeps ==
  ASSUME LiveInv, NEW s \in Stream, HangUp(s)
  PROVE  LiveInv'
  <1>1. /\ IsOpen(s) /\ slots' = [slots EXCEPT ![Key(streams[s])] = @ - 1] /\ Put(s, Closed)
        /\ UNCHANGED truth /\ UNCHANGED writers
        /\ ended' = ended \ {s} /\ missed' = missed \ {s}
    BY DEF HangUp
  <1> QED BY <1>1, EndsKeeps

-----------------------------------------------------------------------------
(* The writers.                                                            *)

\* A writer that still has to announce.
LEMMA BusyKeeps ==
  ASSUME LiveInv, UNCHANGED <<streams, slots, ended, missed>>,
         NEW w \in Writer, NEW owes, owes # Idle, writers' = [writers EXCEPT ![w] = owes]
  PROVE  LiveInv'
  <1>1. writers' = [v \in Writer |-> writers'[v]] /\ writers'[w] = owes
    BY DEF LiveInv, Shaped
  <1>2. OpenStreams' = OpenStreams
    BY DEF OpenStreams, IsOpen
  <1>3. Shaped'
    BY <1>1 DEF LiveInv, Shaped
  <1>4. Placed'
    BY <1>2, PlacesStay DEF LiveInv
  <1>5. Told'
    BY <1>1 DEF Told, Awaited
  <1> QED BY <1>3, <1>4, <1>5 DEF LiveInv

\* What nobody announces is missed by every open stream.
LEMMA MissedKeeps ==
  ASSUME LiveInv, UNCHANGED <<streams, slots>>, missed' = missed \cup OpenStreams,
         ended' \subseteq Stream, writers' = [v \in Writer |-> writers'[v]]
  PROVE  LiveInv'
  <1>1. OpenStreams' = OpenStreams /\ OpenStreams \subseteq Stream
    BY DEF OpenStreams, IsOpen
  <1>2. Shaped'
    BY <1>1 DEF LiveInv, Shaped
  <1>3. Placed'
    BY <1>1, PlacesStay DEF LiveInv
  <1>4. Told'
    BY <1>1 DEF Told
  <1> QED BY <1>2, <1>3, <1>4 DEF LiveInv

LEMMA WriteKeeps ==
  ASSUME LiveInv, NEW w \in Writer, Write(w)
  PROVE  LiveInv'
  <1>1. ASSUME NEW owes, owes # Idle, Commits(w, owes) PROVE LiveInv'
    BY <1>1, BusyKeeps DEF Commits
  <1>2. Said # Idle
    BY DEF Said, Idle
  <1>3. ASSUME NEW p, NEW spaces, MarkInbox(w, p, spaces) PROVE LiveInv'
    <2> DEFINE owes == [op |-> "mark_events", asker |-> p, spaces |-> spaces]
    <2>1. owes.op # Idle.op
      BY DEF Idle
    <2>2. owes # Idle
      BY <2>1
    <2> QED BY <1>1, <1>3, <2>2 DEF MarkInbox
  <1>4. CASE \/ \E p \in Person, s \in Space : Post(w, p, s) \/ ReadTopic(w, p, s)
             \/ \E e \in EventKey, h \in Handle : TakeEvent(w, e, h)
             \/ \E p \in Person, e \in EventKey : OpenEvent(w, p, e)
             \/ \E p \in Person, spaces \in SUBSET Space, h \in Handle, name \in Name :
                  DirectoryWrites(w, p, spaces, h, name)
    BY <1>1, <1>2, <1>4 DEF Post, ReadTopic, TakeEvent, OpenEvent, DirectoryWrites
  <1>5. CASE \E p \in Person : ReadAll(w, p)
    BY <1>3, <1>5 DEF ReadAll
  <1>6. CASE \E name \in ProxyName : ReadBell(w, name)
    BY <1>1, <1>2, <1>3, <1>6 DEF ReadBell
  <1>7. CASE Vanishes(w)
    <2>1. /\ writers' = [writers EXCEPT ![w] = Idle] /\ missed' = missed \cup OpenStreams
          /\ UNCHANGED <<streams, slots, ended>>
      BY <1>7 DEF Vanishes
    <2>2. writers' = [v \in Writer |-> writers'[v]] /\ ended' \subseteq Stream
      BY <2>1 DEF LiveInv, Shaped
    <2> QED BY <2>1, <2>2, MissedKeeps
  <1> QED BY <1>4, <1>5, <1>6, <1>7 DEF Write

LEMMA FinishKeeps ==
  ASSUME LiveInv, NEW w \in Writer, Finish(w)
  PROVE  LiveInv'
  <1>1. CASE MarkEvents(w)
    <2>1. Said # Idle
      BY DEF Said, Idle
    <2> QED BY <1>1, <2>1, BusyKeeps DEF MarkEvents
  <1>2. CASE Says(w)
    <2>1. /\ writers' = [writers EXCEPT ![w] = Idle] /\ Announce
          /\ UNCHANGED <<slots, ended, missed>>
      BY <1>2 DEF Says
    <2>2. /\ streams' = [q \in Stream |-> streams'[q]] /\ OpenStreams' = OpenStreams
          /\ \A s \in Stream \ OpenStreams : streams'[s] = streams[s]
          /\ \A s \in OpenStreams :
               /\ IsStream(streams'[s]) /\ Key(streams'[s]) = Key(streams[s])
               /\ streams'[s].behind > 0
      BY <2>1, AnnounceShape DEF LiveInv
    <2>3. writers' = [v \in Writer |-> writers'[v]]
      BY <2>1 DEF LiveInv, Shaped
    <2>4. Shaped'
      BY <2>1, <2>2, <2>3 DEF LiveInv, Shaped
    <2>5. Placed'
      BY <2>1, <2>2, PlacesStay DEF LiveInv
    <2>6. Told'
      BY <2>2 DEF Told, Awaited
    <2> QED BY <2>4, <2>5, <2>6 DEF LiveInv
  <1> QED BY <1>1, <1>2 DEF Finish

-----------------------------------------------------------------------------
(* The theorems.                                                           *)

LEMMA LiveInitIsFine == LiveInit => LiveInv
  <1> SUFFICES ASSUME LiveInit PROVE LiveInv
    OBVIOUS
  <1>1. /\ writers = [w \in Writer |-> Idle] /\ streams = [s \in Stream |-> Closed]
        /\ slots = [k \in Doorways |-> 0] /\ ended = {} /\ missed = {}
    BY DEF LiveInit, Doorways
  <1>2. OpenStreams = {}
    BY <1>1 DEF OpenStreams, IsOpen
  <1>3. Shaped
    BY <1>1 DEF Shaped
  <1>4. Placed
    <2>1. IsFiniteSet({}) /\ Cardinality({}) = 0
      BY FS_EmptySet
    <2>2. \A k : At(k) = {}
      BY <1>2 DEF At
    <2> QED BY <1>1, <1>2, <2>1, <2>2, LiveAssumption DEF Placed
  <1>5. Told
    BY <1>2 DEF Told
  <1> QED BY <1>3, <1>4, <1>5 DEF LiveInv

LEMMA LiveStepKeeps == LiveInv /\ [LiveNext]_liveVars => LiveInv'
  <1> SUFFICES ASSUME LiveInv, [LiveNext]_liveVars PROVE LiveInv'
    OBVIOUS
  <1>1. CASE \E s \in Stream, p \in Person, home \in Space : OpenForum(s, p, home)
    <2>1. PICK s \in Stream, p \in Person, home \in Space : Opens(s, "forum", p, home)
      BY <1>1 DEF OpenForum
    <2>2. <<"forum", p>> \in Doorways
      BY DEF Doorways
    <2> QED BY <2>1, <2>2, OpensKeeps
  <1>2. CASE \E s \in Stream, name \in ProxyName : OpenStart(s, name)
    <2>1. PICK s \in Stream, name \in ProxyName : Opens(s, "start", name, Nobody)
      BY <1>2 DEF OpenStart
    <2>2. <<"start", name>> \in Doorways
      BY DEF Doorways
    <2> QED BY <2>1, <2>2, OpensKeeps
  <1>3. CASE \E s \in Stream : StreamStep(s) \/ HangUp(s) \/ ReadFails(s)
    BY <1>3, AskKeeps, CountKeeps, ListKeeps, WakesKeeps, HangUpKeeps, ReadFailsKeeps
       DEF StreamStep
  <1>4. CASE \/ \E s \in Stream : SignOut(s)
             \/ \E p \in Person, spaces \in SUBSET Space, h \in Handle : SignIn(p, spaces, h)
    <2>1. /\ UNCHANGED <<streams, slots, writers>> /\ missed' = missed \cup OpenStreams
          /\ ended' \subseteq Stream
      BY <1>4 DEF SignOut, SignIn, Silently, LiveInv, Shaped
    <2>2. writers' = [v \in Writer |-> writers'[v]]
      BY <2>1 DEF LiveInv, Shaped
    <2> QED BY <2>1, <2>2, MissedKeeps
  <1>5. CASE \E w \in Writer : Write(w) \/ Finish(w)
    BY <1>5, WriteKeeps, FinishKeeps
  <1>6. CASE UNCHANGED liveVars
    <2>1. UNCHANGED truth /\ UNCHANGED <<writers, streams, slots, ended, missed>>
      BY <1>6 DEF liveVars
    <2>2. OpenStreams' = OpenStreams
      BY <2>1 DEF OpenStreams, IsOpen
    <2>3. Shaped'
      BY <2>1 DEF LiveInv, Shaped
    <2>4. Placed'
      BY <2>1, <2>2, PlacesStay DEF LiveInv
    <2>5. Told'
      <3>1. ASSUME NEW q \in OpenStreams \ missed PROVE (Awaited(q) \/ UpToDate(q))'
        BY <2>1, OthersStayTold DEF LiveInv
      <3> QED BY <2>1, <2>2, <3>1 DEF Told
    <2> QED BY <2>3, <2>4, <2>5 DEF LiveInv
  <1> QED BY <1>1, <1>2, <1>3, <1>4, <1>5, <1>6 DEF LiveNext

\* In every state a stream that is open has seen all that was announced, or a ring
\* is in its channel, or a writer is about to announce, or nobody ever will
\* (live.rs; db/mod.rs: changed).
THEOREM LiveIsSound == LiveSpec => []LiveInv
  <1> QED BY LiveInitIsFine, LiveStepKeeps, PTL DEF LiveSpec

\* Places are taken by open streams, each once, and given back once, however a stream
\* ends (live.rs: try_open, drop of Slot).
THEOREM PlacesAreStreams == LiveSpec => []SlotsAreStreams
  <1>1. LiveInv => SlotsAreStreams
    BY DEF LiveInv, Placed, SlotsAreStreams, At
  <1> QED BY <1>1, LiveIsSound, PTL

\* A stream that nothing will wake has sent the bell as it is (live.rs: bell_stream).
THEOREM QuietStreamsAreCurrent == LiveSpec => []QuietMeansCurrent
  <1>1. LiveInv => QuietMeansCurrent
    BY DEF LiveInv, Told, Awaited, UpToDate, QuietMeansCurrent
  <1> QED BY <1>1, LiveIsSound, PTL

-----------------------------------------------------------------------------
(* The doorbell.                                                           *)

Rung == {s \in OpenStreams : streams[s].behind > 0}
Asking == {s \in OpenStreams : streams[s].at # "wait"}

\* A step that leaves the streams' channels and stages alone.
LEMMA DoorStutters ==
  ASSUME OpenStreams' = OpenStreams,
         \A s \in OpenStreams :
           streams'[s].behind = streams[s].behind /\
           (streams'[s].at = "wait" <=> streams[s].at = "wait")
  PROVE  UNCHANGED <<OpenStreams, Rung, Asking>>
  BY DEF Rung, Asking

LEMMA GoesOnIsOpen ==
  ASSUME Shaped, NEW s \in Stream, IsOpen(s), GoesOn(s)
  PROVE  /\ OpenStreams' = OpenStreams /\ s \in OpenStreams
         /\ \A q \in OpenStreams \ {s} : streams'[q] = streams[q]
  <1>1. streams'[s] # Closed
    BY DEF GoesOn, IsStream, Closed
  <1> QED BY <1>1 DEF GoesOn, OpenStreams, IsOpen

LEMMA DoorCloses ==
  ASSUME Shaped, NEW s \in Stream, IsOpen(s), Put(s, Closed)
  PROVE  Door!Close(s)
  <1>1. /\ OpenStreams' = OpenStreams \ {s} /\ s \in OpenStreams
        /\ \A q \in OpenStreams' : streams'[q] = streams[q]
    BY OnePut DEF OpenStreams, IsOpen
  <1>2. Rung' = Rung \ {s} /\ Asking' = Asking \ {s}
    BY <1>1 DEF Rung, Asking
  <1> QED BY <1>1, <1>2 DEF Door!Close, Rung, Asking

\* One stream's step, as the doorbell sees it.
LEMMA DoorSteps ==
  ASSUME Shaped, NEW s \in Stream, StreamStep(s) \/ ReadFails(s) \/ HangUp(s)
  PROVE  \/ UNCHANGED <<OpenStreams, Rung, Asking>>
         \/ Door!Ask(s) \/ Door!Answer(s) \/ Door!Close(s)
  <1>1. CASE HangUp(s) \/ (Ask(s) /\ Whose(s).kind = "gone")
    <2>1. IsOpen(s) /\ Put(s, Closed)
      BY <1>1 DEF HangUp, Ask, Ends, IsOpen, Closed
    <2> QED BY <2>1, DoorCloses
  <1>2. CASE Count(s) \/ (Ask(s) /\ Whose(s).kind # "gone")
    <2>1. IsOpen(s) /\ streams[s].at # "wait"
      BY <1>2 DEF Count, Ask, IsOpen, Closed
    <2>2. /\ GoesOn(s) /\ streams'[s].at # "wait" /\ streams'[s].behind = streams[s].behind
      BY <1>2, AskShape, CountShape
    <2>3. UNCHANGED <<OpenStreams, Rung, Asking>>
      BY <2>1, <2>2, GoesOnIsOpen, DoorStutters
    <2> QED BY <2>3
  <1>3. CASE List(s) \/ ReadFails(s)
    <2>1. IsOpen(s) /\ streams[s].at # "wait"
      BY <1>3 DEF List, ReadFails, IsOpen, Closed
    <2>2. /\ GoesOn(s) /\ streams'[s].at = "wait" /\ streams'[s].behind = streams[s].behind
      BY <1>3, ListShape, ReadFailsShape
    <2>3. /\ OpenStreams' = OpenStreams /\ s \in OpenStreams
          /\ \A q \in OpenStreams \ {s} : streams'[q] = streams[q]
      BY <2>1, <2>2, GoesOnIsOpen
    <2>4. s \in Asking /\ Rung' = Rung /\ Asking' = Asking \ {s}
      BY <2>1, <2>2, <2>3 DEF Rung, Asking
    <2>5. Door!Answer(s)
      BY <2>3, <2>4 DEF Door!Answer, Rung, Asking
    <2> QED BY <2>5
  <1>4. CASE Recv(s) \/ Recheck(s)
    <2>1. /\ GoesOn(s) /\ streams[s].at = "wait" /\ IsOpen(s) /\ streams'[s].at = "ask"
          /\ Recv(s) \/ streams'[s].behind = streams[s].behind
      BY <1>4, WakesShape
    <2>2. /\ OpenStreams' = OpenStreams /\ s \in OpenStreams
          /\ \A q \in OpenStreams \ {s} : streams'[q] = streams[q]
      BY <2>1, GoesOnIsOpen
    <2>3. s \notin Asking /\ Asking' = Asking \cup {s}
      BY <2>1, <2>2 DEF Asking
    <2>4. Rung' \in {Rung, Rung \ {s}}
      <3>1. CASE Recv(s)
        <4>1. s \in Rung
          BY <2>2, <3>1 DEF Recv, Rung
        <4>2. \A q \in OpenStreams \ {s} : q \in Rung' <=> q \in Rung
          BY <2>2 DEF Rung
        <4>3. Rung \subseteq OpenStreams /\ Rung' \subseteq OpenStreams
          BY <2>2 DEF Rung
        <4> QED BY <4>1, <4>2, <4>3
      <3>2. CASE streams'[s].behind = streams[s].behind
        BY <2>2, <3>2 DEF Rung
      <3> QED BY <2>1, <3>1, <3>2
    <2>5. Door!Ask(s)
      BY <2>2, <2>3, <2>4 DEF Door!Ask, Rung, Asking
    <2> QED BY <2>5
  <1> QED BY <1>1, <1>2, <1>3, <1>4 DEF StreamStep

\* A stream that begins works out its first answer at once.
LEMMA DoorOpens ==
  ASSUME Shaped, Placed, NEW s \in Stream, NEW door, NEW who, NEW home,
         <<door, who>> \in Doorways, Opens(s, door, who, home)
  PROVE  Door!Open(s)
  <1>1. /\ \A q \in Stream \ {s} : streams'[q] = streams[q]
        /\ OpenStreams' = OpenStreams \cup {s} /\ s \notin OpenStreams
        /\ OpenStreams \subseteq Stream
        /\ streams'[s].at = "ask" /\ streams'[s].behind = 0
    BY OpensShape DEF OpenStreams
  <1>2. Rung' = Rung /\ Asking' = Asking \cup {s}
    BY <1>1 DEF Rung, Asking
  <1> QED BY <1>1, <1>2 DEF Door!Open, Rung, Asking

\* Whoever announces rings at every open stream.
LEMMA DoorRings ==
  ASSUME Shaped, Announce
  PROVE  Door!Ring
  <1>1. /\ OpenStreams' = OpenStreams
        /\ \A s \in OpenStreams : streams'[s].behind > 0 /\ streams'[s].at = streams[s].at
    BY AnnounceShape
  <1>2. Rung' = OpenStreams /\ Asking' = Asking
    BY <1>1 DEF Rung, Asking
  <1> QED BY <1>1, <1>2 DEF Door!Ring, Rung, Asking

\* Every step of the live bell is one of the doorbell's, or none.
LEMMA StepIsTheDoors ==
  ASSUME LiveInv, [LiveNext]_liveVars
  PROVE  Door!DoorNext \/ UNCHANGED <<OpenStreams, Rung, Asking>>
  <1>1. CASE \E s \in Stream, p \in Person, home \in Space : OpenForum(s, p, home)
    <2>1. PICK s \in Stream, p \in Person, home \in Space : Opens(s, "forum", p, home)
      BY <1>1 DEF OpenForum
    <2>2. <<"forum", p>> \in Doorways
      BY DEF Doorways
    <2>3. Door!Open(s)
      BY <2>1, <2>2, DoorOpens DEF LiveInv
    <2> QED BY <2>3 DEF Door!DoorNext
  <1>2. CASE \E s \in Stream, name \in ProxyName : OpenStart(s, name)
    <2>1. PICK s \in Stream, name \in ProxyName : Opens(s, "start", name, Nobody)
      BY <1>2 DEF OpenStart
    <2>2. <<"start", name>> \in Doorways
      BY DEF Doorways
    <2>3. Door!Open(s)
      BY <2>1, <2>2, DoorOpens DEF LiveInv
    <2> QED BY <2>3 DEF Door!DoorNext
  <1>3. CASE \E s \in Stream : StreamStep(s) \/ HangUp(s) \/ ReadFails(s)
    <2>1. PICK s \in Stream : \/ UNCHANGED <<OpenStreams, Rung, Asking>>
                              \/ Door!Ask(s) \/ Door!Answer(s) \/ Door!Close(s)
      BY <1>3, DoorSteps DEF LiveInv
    <2> QED BY <2>1 DEF Door!DoorNext
  <1>4. CASE \E w \in Writer : Says(w)
    <2>1. Door!Ring
      BY <1>4, DoorRings DEF LiveInv, Says
    <2> QED BY <2>1 DEF Door!DoorNext
  <1>5. CASE \/ \E s \in Stream : SignOut(s)
             \/ \E p \in Person, spaces \in SUBSET Space, h \in Handle : SignIn(p, spaces, h)
             \/ \E w \in Writer : Write(w) \/ MarkEvents(w)
             \/ UNCHANGED liveVars
    <2>1. UNCHANGED streams
      <3>1. CASE \E w \in Writer : Write(w)
        BY <3>1 DEF Write, Post, ReadTopic, TakeEvent, OpenEvent, ReadAll, ReadBell, MarkInbox,
                    DirectoryWrites, Vanishes, Commits
      <3> QED BY <1>5, <3>1 DEF SignOut, SignIn, Silently, MarkEvents, liveVars
    <2> QED BY <2>1 DEF OpenStreams, IsOpen, Rung, Asking
  <1> QED BY <1>1, <1>2, <1>3, <1>4, <1>5 DEF LiveNext, Finish

\* The live bell is a doorbell: its streams open and close, are rung all together, ask
\* and answer as module Doorbell says, for any number of streams and any capacity of
\* the channel (live.rs: bell_stream; db/mod.rs: changed).
THEOREM LiveIsADoorbell == LiveSpec => Door!DoorInit /\ [][Door!DoorNext]_(Door!doorVars)
  <1>1. LiveInit => Door!DoorInit
    BY DEF LiveInit, Door!DoorInit, OpenStreams, IsOpen
  <1>2. LiveInv /\ [LiveNext]_liveVars => [Door!DoorNext]_(Door!doorVars)
    BY StepIsTheDoors DEF Door!doorVars, Rung, Asking
  <1> QED BY <1>1, <1>2, LiveIsSound, PTL DEF LiveSpec

=============================================================================
