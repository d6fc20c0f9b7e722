----------------------------- MODULE MCEntrance -----------------------------
(* The parts of treff around the board that share no state: the start, the *)
(* internal listener (its handshakes, its tokens), pictures and texts.     *)
(* Each has behaviours of its own here: part says which one moves, and the *)
(* others stay in one initial state.                                       *)
EXTENDS Start, Front, Pictures, Texts

VARIABLE part
entranceVars == <<part, startVars, tlsVars, gateVars, picturesVars, textsVars>>

Host(n, s) == [name |-> n, spelled |-> s]
Forum == [host |-> Host("forum", "plain"), read |-> TRUE, slugs |-> <<<<"a-z">>>>,
          articles |-> FALSE, owner |-> "none"]
Blog == [Forum EXCEPT !.host = Host("blog", "with a port"), !.articles = TRUE, !.owner = "handle"]
Odd == {[Forum EXCEPT !.host = Host("forum", "with a port")],
        [Forum EXCEPT !.host = Host("forum", "LOUD")],
        [Blog EXCEPT !.read = FALSE], [Blog EXCEPT !.slugs = <<>>],
        [Blog EXCEPT !.slugs = <<<<>>>>], [Blog EXCEPT !.slugs = <<<<"a-z", "/">>>>],
        [Blog EXCEPT !.slugs = <<<<"a-z">>, <<"a-z">>>>], [Blog EXCEPT !.articles = FALSE],
        [Blog EXCEPT !.owner = "other"]}
Text(zone, spaces, events) == [timezone |-> zone, spaces |-> spaces, events |-> events]
MCConfigs ==
    {Text("known", <<Forum, Blog>>, {Host("forum", "LOUD")}), Text("none", <<>>, {}),
     Text("unknown", <<Forum>>, {}), Text("none", <<Forum>>, {Host("blog", "plain")})}
    \cup {Text("none", <<Forum, o>>, {}) : o \in Odd}

\* One webhook and one mail server for each way a setting can be odd or missing.
Hook == [url |-> "good", token |-> "unset"]
MCHooks == {NoHook, Hook, [url |-> "only the scheme", token |-> "good"]}
           \cup {[Hook EXCEPT !.url = "other scheme"], [Hook EXCEPT !.token = "blank"],
                 [Hook EXCEPT !.token = "unreadable"]}
Mail == [host |-> TRUE, port |-> TRUE, from |-> "good", username |-> TRUE,
         password |-> "good", starttls |-> TRUE]
MCMails == {NoMail, Mail, [Mail EXCEPT !.password = "unset", !.starttls = FALSE],
            [Mail EXCEPT !.from = "not an address", !.username = FALSE]}
           \cup {[Mail EXCEPT !.port = FALSE], [Mail EXCEPT !.from = "unset"],
                 [Mail EXCEPT !.password = "blank"], [Mail EXCEPT !.password = "unreadable"],
                 [Mail EXCEPT !.starttls = FALSE]}

MCManner == [a |-> "tls", b |-> "silent", c |-> "silent", d |-> "plain"]

MCTokens == {<<>>, <<1>>, <<2>>, <<1, 2>>, <<1, 2, 1>>, <<2, 2>>}
MCSenders == {t \in [Routes -> {{}, {<<1, 2>>}, {<<2, 2>>}}] :
                 t["bell"] # {<<1, 2>>} /\ t["scim"] # {<<2, 2>>}}
Film == [handle |-> "handle", kind |-> "film_available", title |-> "fits", reason |-> "none",
         link |-> {[scheme |-> "https", user |-> FALSE, host |-> "films"]}, source_key |-> "one"]
MCEvents ==
    {Film, [Film EXCEPT !.kind = "film_failed", !.reason = "fits"], [Film EXCEPT !.reason = "blank"],
     [Film EXCEPT !.handle = "other"], [Film EXCEPT !.kind = "other"], [Film EXCEPT !.title = "two lines"],
     [Film EXCEPT !.reason = "too long"], [Film EXCEPT !.source_key = "bad"],
     [Film EXCEPT !.source_key = "two", !.link = {}]}
    \cup {[Film EXCEPT !.link = {l}] :
             l \in [scheme : {"https", "http"}, user : BOOLEAN, host : {"films", "elsewhere"}]}

Account(s, h, g) == [subject |-> s, handle |-> h, groups |-> g]
Base == {Account("ada", {<<"a">>}, {"members"}), Account("ben", {<<"a", ".">>}, {"members"}),
         Account("cy", {<<".", "a">>}, {}), Account("dee", {<<"a", "a">>}, {"members"}),
         Account("eve", {}, {"members"})}
\* Ada's handle went to Eve, and Cy may read now.
Later == {Account("ada", {}, {"members"}), Account("ben", {<<"a", ".">>}, {"members"}),
          Account("cy", {<<".", "a">>}, {"members"}), Account("dee", {<<"a", "a">>}, {"members"}),
          Account("eve", {<<"a">>}, {"members"})}
MCAccountTables == {Base, Later}

EntranceInit ==
    /\ part \in {"start", "tls", "gate", "pictures", "texts"}
    /\ StartInit /\ TlsInit /\ GateInit /\ PicturesInit /\ TextsInit
    /\ part # "gate" => door = [tokens |-> [r \in Routes |-> {}], events |-> FALSE]
    /\ part # "texts" => accounts = Base
    /\ part # "pictures" => upload.head = "GIF"

EntranceNext ==
    /\ UNCHANGED part
    /\ \/ part = "start" /\ StartNext /\ UNCHANGED <<tlsVars, gateVars, picturesVars, textsVars>>
       \/ part = "tls" /\ TlsNext /\ UNCHANGED <<startVars, gateVars, picturesVars, textsVars>>
       \/ part = "gate" /\ GateNext /\ UNCHANGED <<startVars, tlsVars, picturesVars, textsVars>>
       \/ part = "pictures" /\ PicturesNext /\ UNCHANGED <<startVars, tlsVars, gateVars, textsVars>>
       \/ part = "texts" /\ TextsNext /\ UNCHANGED <<startVars, tlsVars, gateVars, picturesVars>>

EntranceSpec == EntranceInit /\ [][EntranceNext]_entranceVars /\ TlsFairness
=============================================================================
