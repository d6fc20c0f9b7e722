------------------------------- MODULE Texts -------------------------------
(***************************************************************************)
(* What a post says, whom it names and how it is shown: src/src/markup.rs, *)
(* src/src/mentions.rs and the accounts they ask (src/src/db/accounts.rs). *)
(*                                                                         *)
(* A post is what comrak makes of the Markdown: a sequence of runs, each   *)
(* the siblings that stand next to each other in one element.  A node of a *)
(* run is a piece of prose, a text that is none ("quoted": code, or the    *)
(* text of a link), or the address of a picture.  What is emphasised is a  *)
(* run of its own, and so is what comes before and after it.  A text is a  *)
(* sequence of characters by class: "a" and "A" for letters and digits,    *)
(* "." for the three marks a handle may hold, "%" for what may be in an    *)
(* address but not in a handle, "@" and "space".  In the address of a      *)
(* picture: "/", "\\", "tab" and "x".                                      *)
(***************************************************************************)
EXTENDS Naturals, Sequences, FiniteSets, SequencesExt, Functions, Walks

CONSTANTS
    AccountTables,  \* what the accounts may be: subject, handle (at most one), groups
    Readers,    \* the groups that read the space
    Writer,     \* who writes the post
    MaxChars,   \* bound: characters of a post
    MaxNodes    \* bound: nodes of a post

Letters == {"a", "A"}
HandleBytes == Letters \cup {"."}
AddressChars == HandleBytes \cup {"%"}
TextChars == AddressChars \cup {"@", "space"}
SrcChars == {"/", "\\", "tab", "x"}

VARIABLES
    post,       \* the runs of nodes typed so far
    accounts,   \* the accounts, as the last sign-ins left them
    written     \* how the post was stored, whom that told, and by which accounts

textsVars == <<post, accounts, written>>

Draft == [how |-> "draft", told |-> {}, accounts |-> {}]

----------------------------------------------------------------------------
\* Pieces of prose that are siblings and adjacent become one.
WithNext(merged, n) ==
    IF merged # <<>> /\ n.is = "text" /\ Last(merged).is = "text"
    THEN [merged EXCEPT ![Len(merged)].chars = @ \o n.chars]
    ELSE Append(merged, n)

Merged(nodes) ==
    LET merged[i \in 0 .. Len(nodes)] == IF i = 0 THEN <<>> ELSE WithNext(merged[i - 1], nodes[i])
    IN  merged[Len(nodes)]

TextNodes(nodes) == {n \in Range(Merged(nodes)) : n.is = "text"}

\* Trimmed (of what a handle cannot hold anyway), folded, not empty; 64 is not reached.
CheckedHandle(raw) ==
    IF raw # <<>> /\ Range(raw) \subseteq HandleBytes
    THEN {[i \in DOMAIN raw |-> IF raw[i] = "A" THEN "a" ELSE raw[i]]}
    ELSE {}

\* A subject is one row; a handle is stored as checked, and is one account's (migration 0009).
ASSUME AccountsAssumption == \A db \in AccountTables :
    /\ \A a \in db : \A h \in a.handle :
          h \in Seq(HandleBytes) /\ CheckedHandle(h) = {h} /\ a.handle = {h}
    /\ \A a, b \in db : a.subject = b.subject \/ a.handle \cap b.handle # {} => a = b

\* The first place behind an @ that cannot be in a handle, and the last letter before it.
NameEnd(text, at) ==
    CHOOSE j \in at + 1 .. Len(text) + 1 :
        /\ j = Len(text) + 1 \/ text[j] \notin HandleBytes
        /\ \A k \in at + 1 .. j - 1 : text[k] \in HandleBytes

LastLetter(text, at) ==
    CHOOSE k \in at .. NameEnd(text, at) - 1 :
        /\ k = at \/ text[k] \in Letters
        /\ \A l \in k + 1 .. NameEnd(text, at) - 1 : text[l] \notin Letters

Named(text, at) == CheckedHandle(SubSeq(text, at + 1, LastLetter(text, at)))

\* An @ counts at the start or behind what could not be part of an address.
Counts(text, at) ==
    /\ text[at] = "@"
    /\ at = 1 \/ text[at - 1] \notin AddressChars
    /\ NameEnd(text, at) = Len(text) + 1 \/ text[NameEnd(text, at)] # "@"
    /\ Named(text, at) # {}

\* The mentions in one piece of prose, in order.
MentionSpans(text) ==
    LET places == Picked([i \in DOMAIN text |-> i], {i \in DOMAIN text : Counts(text, i)})
    IN  [i \in DOMAIN places |->
            [from |-> places[i], to |-> LastLetter(text, places[i]),
             handle |-> CHOOSE h \in Named(text, places[i]) : TRUE]]

MentionsIn(run) ==
    UNION {{s.handle : s \in Range(MentionSpans(n.chars))} : n \in TextNodes(run)}

Mentions(body) == UNION {MentionsIn(run) : run \in Range(body)}

----------------------------------------------------------------------------
\* The one rule: who has the handle, and may read the space.
ByHandles(db, handles) == {a \in db : a.handle \cap handles # {}}
MayRead(account) == account.groups \cap Readers # {}
ReadersAmong(db, handles) == {a \in ByHandles(db, handles) : MayRead(a)}

\* Mutant: the rule who may read is asked for the page only.
ToTellAnybody(db, writer, body) == {a.subject : a \in ByHandles(db, Mentions(body))} \ {writer}

ToTell(db, writer, body) == {a.subject : a \in ReadersAmong(db, Mentions(body))} \ {writer}

Highlighted(db, body) == UNION {a.handle : a \in ReadersAmong(db, Mentions(body))}

Offered(db, except) == {a \in db : a.handle # {} /\ a.subject # except /\ MayRead(a)}

----------------------------------------------------------------------------
Prose(text, from, to) ==
    IF from <= to THEN <<[is |-> "text", chars |-> SubSeq(text, from, to)]>> ELSE <<>>

Marked(text, span) == [is |-> "mention", chars |-> SubSeq(text, span.from, span.to)]

\* Text, mention, text, mention, ..., text; a piece without characters is none.
Split(text, spans) ==
    LET at(i) == IF i = 1 THEN 1 ELSE spans[i - 1].to + 1
    IN  FlattenSeq([i \in DOMAIN spans |-> Append(Prose(text, at(i), spans[i].from - 1), Marked(text, spans[i]))])
        \o Prose(text, at(Len(spans) + 1), Len(text))

\* One slash, then anything but a second one, as a browser reads it.
FromThisInstance(src) ==
    LET chars == Picked(src, SrcChars \ {"tab"})
    IN  /\ chars # <<>> /\ chars[1] = "/"
        /\ Len(chars) = 1 \/ chars[2] \notin {"/", "\\"}

\* The sanitizer: what remains of a picture that is not of this instance has no address.
Sanitize(nodes) ==
    [i \in DOMAIN nodes |->
        IF nodes[i].is = "img" /\ ~FromThisInstance(nodes[i].chars)
        THEN [nodes[i] EXCEPT !.chars = <<>>] ELSE nodes[i]]

\* A node without a mentionable handle stays as it is.
SpansFor(text, mentionable) ==
    LET spans == MentionSpans(text)
    IN  Picked(spans, {s \in Range(spans) : s.handle \in mentionable})

MarkedUp(node, mentionable) ==
    IF node.is = "text" /\ SpansFor(node.chars, mentionable) # <<>>
    THEN Split(node.chars, SpansFor(node.chars, mentionable))
    ELSE <<node>>

RunWith(run, mentionable) ==
    LET merged == Merged(run)
    IN  IF mentionable = {} THEN Sanitize(run)
        ELSE Sanitize(FlattenSeq([i \in DOMAIN merged |-> MarkedUp(merged[i], mentionable)]))

RenderWith(body, mentionable) == [r \in DOMAIN body |-> RunWith(body[r], mentionable)]

----------------------------------------------------------------------------
TextsInit ==
    /\ post = <<>>
    /\ accounts \in AccountTables
    /\ written = Draft

Typed(body) == FoldLeft(LAMBDA acc, n : acc + Len(n.chars), 0, FlattenSeq(body))
Complete(body) == \A run \in Range(body) : \A n \in Range(run) : n.chars # <<>>

\* External: the writer types; comrak decides where a node or an element ends.
OpenNode(is, apart) ==
    /\ written = Draft
    /\ Len(FlattenSeq(post)) < MaxNodes /\ Typed(post) < MaxChars /\ Complete(post)
    /\ LET node == [is |-> is, chars |-> <<>>]
       IN  \/ apart /\ post' = Append(post, <<node>>)
           \/ ~apart /\ post # <<>> /\ post' = [post EXCEPT ![Len(post)] = Append(@, node)]
    /\ UNCHANGED <<accounts, written>>

Type(c) ==
    /\ written = Draft
    /\ post # <<>> /\ Typed(post) < MaxChars
    /\ LET run == Last(post)
       IN  /\ c \in IF Last(run).is = "img" THEN SrcChars ELSE TextChars
           /\ post' = [post EXCEPT ![Len(post)] = [run EXCEPT ![Len(run)].chars = Append(@, c)]]
    /\ UNCHANGED <<accounts, written>>

\* A topic, a reply or an edit: who is named is told.
WritePost ==
    /\ written = Draft /\ post # <<>> /\ Complete(post)
    /\ written' = [how |-> "post", told |-> ToTell(accounts, Writer, post), accounts |-> accounts]
    /\ UNCHANGED <<post, accounts>>

\* An upload: the text is a caption, the picture comes after it, and nobody is told.
AttachWith ==
    /\ written = Draft /\ Complete(post)
    /\ written' = [how |-> "caption", told |-> {}, accounts |-> accounts]
    /\ post' = Append(post, <<[is |-> "img", chars |-> <<"/", "x">>]>>)
    /\ UNCHANGED accounts

\* Sign-ins and the directory, at any time before the page is read.
AccountsChange ==
    /\ written # Draft
    /\ accounts' \in AccountTables
    /\ UNCHANGED <<post, written>>

TextsNext ==
    \/ \E is \in {"text", "quoted", "img"}, apart \in BOOLEAN : OpenNode(is, apart)
    \/ \E c \in TextChars \cup SrcChars : Type(c)
    \/ WritePost \/ AttachWith \/ AccountsChange

TextsSpec == TextsInit /\ [][TextsNext]_textsVars

----------------------------------------------------------------------------
\* What a run says, its pictures aside.
Shown(run) == FlattenSeq([i \in DOMAIN run |-> IF run[i].is = "img" THEN <<>> ELSE run[i].chars])

\* How a browser goes where the address of a picture says.
LeavesTheInstance(src) ==
    LET read == Picked(src, SrcChars \ {"tab"})
        slash(c) == c \in {"/", "\\"}
    IN  read # <<>> /\ ~(slash(read[1]) /\ (Len(read) = 1 \/ ~slash(read[2])))

MarkedIn(run) == {n \in Range(run) : n.is = "mention"}

\* Whom the page shows named was told, among the accounts that are as they were.
ToldAs(db, shown) ==
    \A a \in db \cap written.accounts :
        a.subject \in written.told <=> a.subject # Writer /\ a.handle \cap shown # {}

\* A marked name stands by itself in its run, and the run says what was typed.
MarksOnly(run, typed) ==
    /\ Shown(run) = Shown(typed)
    /\ \A i \in DOMAIN run : run[i].is = "mention" =>
          /\ Head(run[i].chars) = "@" /\ Last(run[i].chars) \in Letters
          /\ i > 1 /\ run[i - 1].is = "text" => Last(run[i - 1].chars) \notin AddressChars
          /\ i < Len(run) /\ run[i + 1].is = "text" =>
                Head(run[i + 1].chars) \notin Letters \cup {"@"}

\* Whoever a post names is told when it is stored (to_tell), and marked on the
\* page whenever it is read (highlighted), by two questions asked at two times.
\* The names marked on a page are those that the accounts of now let be shown.
\* Of an account that is as it was when a topic, a reply or an edit was stored,
\* the page marks the name exactly if it was told, the writer's own apart.
\* Not so for an account that changed in between, nor for an upload's caption,
\* whose names are marked and told to nobody.  A marked name stands by itself in
\* its run of prose, not in an address there, in code or in a link (a run next
\* to it, across an emphasis, is not looked at); the page still says what was
\* typed; who is offered while typing would be told when named, unless the
\* handle ends in a mark, which is taken for the sentence's; and no picture is
\* fetched from elsewhere.
NamesAreToldAsShown ==
    LET shown == Highlighted(accounts, post)
        page == RenderWith(post, shown)
    IN  /\ UNION {UNION {CheckedHandle(Tail(n.chars)) : n \in MarkedIn(run)} : run \in Range(page)} = shown
        /\ written.how = "post" => ToldAs(accounts, shown)
        /\ DOMAIN page = DOMAIN post
        /\ \A r \in DOMAIN page : MarksOnly(page[r], post[r])
        /\ \A a \in Offered(accounts, Writer) : \A h \in a.handle : Last(h) \in Letters =>
              a.subject \in ToTell(accounts, Writer, <<<<[is |-> "text", chars |-> <<"@">> \o h]>>>>)
        /\ \A run \in Range(page) : \A n \in Range(run) : n.is = "img" => ~LeavesTheInstance(n.chars)
=============================================================================
