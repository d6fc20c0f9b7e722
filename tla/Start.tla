------------------------------- MODULE Start -------------------------------
(***************************************************************************)
(* treff from its command line to its listeners: serve in src/src/main.rs  *)
(* and the settings it reads on the way.  One action per step of serve, in *)
(* its order.  What a step finds outside (a variable of the environment, a *)
(* file) is chosen when the step reads it, so every environment is a       *)
(* behaviour.  A step goes on or refuses: a refused start ends the process *)
(* and leaves behind what it wrote, which is the two key files.            *)
(*                                                                         *)
(* A key is the number of its draw and the bytes it was read with: the     *)
(* first half of a key file is another key.  Secrets, tokens and           *)
(* certificates are reduced to whether they can be used.                   *)
(***************************************************************************)
EXTENDS Integers, Sequences, FiniteSets, SequencesExt, Functions

CONSTANTS
    Configs,    \* the texts TREFF_CONFIG may name
    HooksTried, \* bound: the webhooks an environment may set
    MailsTried, \* bound: the mail servers it may set
    MaxStarts,  \* bound: how often treff is started
    MaxDrawn    \* bound: how many keys are ever drawn

Kinds == {"cookie", "unsubscribe"}      \* the two key files of the data directory
Routes == {"events", "bell", "scim"}    \* what a token opens on the internal listener
Steps == <<"data", "articles", "identity", "webhook", "mail", "internal",
           "cookie", "unsubscribe", "loops", "inner", "public", "serving">>

\* A file a variable may name, and one of a pair of files in PEM.
File == {"unset", "unreadable", "blank", "good"}
Pem == {"unset", "unreadable", "not PEM", "of another pair", "good"}

VARIABLES
    stage,      \* "down", or the step of serve that comes next
    proc,       \* what this process holds:
                \*   config    the configuration it parsed
                \*   given     what it found set in its environment so far
                \*   internal  the internal listener's settings: tokens and TLS
                \*   key       the keys it works with
                \*   running   the loops it has spawned
                \*   inner     the internal listener: "shut", "plain" or "tls"
                \*   open      the routes on it
                \*   public    whether the public listener is bound
    file,       \* the key files: the draw they hold and how many bytes of it
    drawn,      \* how many keys were ever drawn
    starts,     \* how often treff was started
    signed,     \* which keys signed the cookies and links that are out there
    hurt        \* the key files that were cut or could not be read, ever

startVars == <<stage, proc, file, drawn, starts, signed, hurt>>

----------------------------------------------------------------------------
(* The configuration, as Config::parse takes it.  A host is a name and the *)
(* way it is spelled; a slug is the sequence of its characters' classes.   *)

NoConfig == [timezone |-> "none", spaces |-> <<>>, events |-> {}]

HostTexts == [name : STRING, spelled : STRING]
SpaceTexts == [host : HostTexts, read : BOOLEAN, slugs : Seq(Seq(STRING)),
               articles : BOOLEAN, owner : {"none", "handle", "other"}]

\* What is read of a text that is TOML with these fields.
ASSUME ConfigsAssumption ==
    Configs \subseteq [timezone : {"none", "known", "unknown"}, spaces : Seq(SpaceTexts),
                       events : SUBSET HostTexts]

Normalise(host) == [host EXCEPT !.spelled = "plain"]

SpaceNormalised(space) == [space EXCEPT !.host = Normalise(@)]

Normalised(text) ==
    [text EXCEPT !.events = {Normalise(h) : h \in @},
                 !.spaces = [i \in DOMAIN @ |-> SpaceNormalised(@[i])]]

SlugIsUsable(slug) == slug # <<>> /\ Range(slug) \subseteq {"a-z", "0-9", "-"}

OwnerFits(space) == space.owner # "none" => space.articles /\ space.owner = "handle"

SpaceFits(space) ==
    /\ space.slugs # <<>>
    /\ space.read
    /\ \A i \in DOMAIN space.slugs : SlugIsUsable(space.slugs[i])
    /\ IsInjective(space.slugs)

Hosts(c) == [i \in DOMAIN c.spaces |-> c.spaces[i].host]

Parses(text) ==
    LET c == Normalised(text)
    IN  /\ c.timezone # "unknown"
        /\ \A i \in DOMAIN c.spaces : OwnerFits(c.spaces[i]) /\ SpaceFits(c.spaces[i])
        /\ c.events \subseteq Range(Hosts(c))
        /\ IsInjective(Hosts(c))

\* The spaces a request's Host header may lead to; the code takes the first.
SpacesForHost(host) == {i \in DOMAIN proc.config.spaces : proc.config.spaces[i].host = Normalise(host)}

----------------------------------------------------------------------------
(* The settings.  What nobody reads is left unset: without TREFF_SMTP_HOST *)
(* the other mail settings do not matter.                                  *)

NoIdentity == [secret |-> "unset", issuer |-> FALSE, client |-> FALSE]
Identities == [secret : File, issuer : BOOLEAN, client : BOOLEAN]
IdentityFits(g) == g.secret = "good" /\ g.issuer /\ g.client

\* Of the URL only the scheme is looked at; the rest is parsed at each delivery.
NoHook == [url |-> "unset", token |-> "unset"]
Hooks == {NoHook} \cup [url : {"other scheme", "only the scheme", "good"}, token : File]
HookFits(g) == g.url # "unset" => g.url # "other scheme" /\ g.token \in {"unset", "good"}

NoMail == [host |-> FALSE, port |-> TRUE, from |-> "unset", username |-> FALSE,
           password |-> "unset", starttls |-> TRUE]
Mails == {NoMail} \cup [host : {TRUE}, port : BOOLEAN, from : {"unset", "not an address", "good"},
                        username : BOOLEAN, password : File, starttls : BOOLEAN]

\* The sender only has to be there: it, too, is parsed at each delivery.  An empty
\* user name is none.
MailFits(g) ==
    g.host => /\ g.port
              /\ g.from # "unset"
              /\ g.password \in {"unset", "good"}
              /\ g.starttls \/ g.password = "unset"

\* Mailer::new: a password without a user name, or the other way round, is not used.
SignsOn(g) == g.username /\ g.password # "unset"

ASSUME TriedAssumption == HooksTried \subseteq Hooks /\ MailsTried \subseteq Mails

NoInternal == [listen |-> FALSE, token |-> [r \in Routes |-> "unset"], cert |-> "unset", pair |-> "unset"]
Internals == [listen : BOOLEAN, token : [Routes -> File], cert : Pem \ {"of another pair"}, pair : Pem]

TlsSet(g) == g.cert # "unset" \/ g.pair # "unset"
TlsFits(g) == g.cert = g.pair /\ g.cert \in {"unset", "good"}
TokensSet(g) == {r \in Routes : g.token[r] # "unset"}

\* Mutant: settings of a listener that is not configured are forgotten.
InternalFitsUnasked(g) ==
    g.listen => /\ \A r \in Routes : g.token[r] \in {"unset", "good"}
                /\ TlsFits(g)

InternalFits(g) ==
    /\ \A r \in Routes : g.token[r] \in {"unset", "good"}
    /\ TlsFits(g)
    /\ TokensSet(g) # {} \/ TlsSet(g) => g.listen

----------------------------------------------------------------------------
Unset == [identity |-> NoIdentity, webhook |-> NoHook, mail |-> NoMail, internal |-> NoInternal]
Shut == [tokens |-> {}, tls |-> FALSE, listen |-> FALSE]
NoKey == [draw |-> 0, bytes |-> 0]

Blank == [config |-> NoConfig, given |-> Unset, internal |-> Shut, key |-> [k \in Kinds |-> NoKey],
          running |-> {}, inner |-> "shut", open |-> {}, public |-> FALSE]

StartInit ==
    /\ stage = "down"
    /\ proc = Blank
    /\ file = [k \in Kinds |-> NoKey]
    /\ drawn = 0 /\ starts = 0
    /\ signed = [k \in Kinds |-> {}]
    /\ hurt = {}

\* The process is gone; the disk is not.
Ends == stage' = "down" /\ proc' = Blank

StepOn == stage' = Steps[CHOOSE i \in 2 .. Len(Steps) : Steps[i - 1] = stage]

----------------------------------------------------------------------------
ReadConfig(text) ==
    /\ stage = "down" /\ starts < MaxStarts
    /\ starts' = starts + 1
    /\ IF Parses(text)
       THEN stage' = "data" /\ proc' = [proc EXCEPT !.config = Normalised(text)]
       ELSE UNCHANGED <<stage, proc>>
    /\ UNCHANGED <<file, drawn, signed, hurt>>

\* create_dir_all, Db::open and its migrations.
OpenData == stage = "data" /\ StepOn /\ UNCHANGED <<proc, file, drawn, starts, signed, hurt>>

\* The articles of every space that has some; module Desk models what this stores.
MirrorArticles == stage = "articles" /\ StepOn /\ UNCHANGED <<proc, file, drawn, starts, signed, hurt>>

\* A directory, a database or a port that cannot be had stops the start.
OutsideFails ==
    /\ stage \in {"data", "articles", "inner", "public"}
    /\ stage = "articles" => \E i \in DOMAIN proc.config.spaces : proc.config.spaces[i].articles
    /\ stage = "inner" => proc.internal.listen
    /\ Ends /\ UNCHANGED <<file, drawn, starts, signed, hurt>>

ReadIdentity(g) ==
    /\ stage = "identity"
    /\ IF IdentityFits(g)
       THEN StepOn /\ proc' = [proc EXCEPT !.given.identity = g]
       ELSE Ends
    /\ UNCHANGED <<file, drawn, starts, signed, hurt>>

ReadHook(g) ==
    /\ stage = "webhook"
    /\ IF HookFits(g)
       THEN StepOn /\ proc' = [proc EXCEPT !.given.webhook = g]
       ELSE Ends
    /\ UNCHANGED <<file, drawn, starts, signed, hurt>>

ReadMail(g) ==
    /\ stage = "mail"
    /\ IF MailFits(g)
       THEN StepOn /\ proc' = [proc EXCEPT !.given.mail = g]
       ELSE Ends
    /\ UNCHANGED <<file, drawn, starts, signed, hurt>>

\* Tokens and certificate are read whether or not there is a listener.
ReadInternal(g) ==
    /\ stage = "internal"
    /\ IF InternalFits(g)
       THEN /\ StepOn
            /\ proc' = [proc EXCEPT !.given.internal = g,
                                     !.internal = [tokens |-> TokensSet(g), tls |-> TlsSet(g), listen |-> g.listen]]
       ELSE Ends
    /\ UNCHANGED <<file, drawn, starts, signed, hurt>>

----------------------------------------------------------------------------
(* AppState::new: a space is needed, and each key is the file's if that is *)
(* long enough and a new one, written over it, if not.                     *)

Needed(kind) == IF kind = "cookie" THEN 64 ELSE 32

\* Mutant: what is written is one byte short of what is asked for next time.
Draw63(n) == [draw |-> n, bytes |-> 63]

Draw(n) == [draw |-> n, bytes |-> 64]

LoadKey(kind, readable) ==
    LET found == readable /\ file[kind].bytes >= Needed(kind)
    IN  /\ stage = kind /\ proc.config.spaces # <<>>
        /\ found \/ drawn < MaxDrawn
        /\ drawn' = IF found THEN drawn ELSE drawn + 1
        /\ file' = IF found THEN file ELSE [file EXCEPT ![kind] = Draw(drawn')]
        /\ proc' = [proc EXCEPT !.key[kind] = file'[kind]]
        /\ hurt' = IF readable THEN hurt ELSE hurt \cup {kind}
        /\ StepOn
        /\ UNCHANGED <<starts, signed>>

\* The file cannot be written, or not made private: what is left of it may be
\* what was there, nothing (writing truncates first), or already the new key.
KeyNotWritten(kind, left) ==
    /\ stage = kind /\ proc.config.spaces # <<>>
    /\ drawn' = IF left.draw > drawn THEN left.draw ELSE drawn
    /\ drawn' <= MaxDrawn
    /\ file' = [file EXCEPT ![kind] = left]
    /\ hurt' = IF file[kind] \in {NoKey, left} THEN hurt ELSE hurt \cup {kind}
    /\ Ends /\ UNCHANGED <<starts, signed>>

NoSpaces ==
    /\ stage = "cookie" /\ proc.config.spaces = <<>>
    /\ Ends /\ UNCHANGED <<file, drawn, starts, signed, hurt>>

----------------------------------------------------------------------------
\* Housekeeping always, a loop per transport that is configured.
SpawnLoops ==
    /\ stage = "loops" /\ StepOn
    /\ proc' = [proc EXCEPT !.running = {"purge"}
                     \cup (IF proc.given.mail.host THEN {"mail"} ELSE {})
                     \cup (IF proc.given.webhook.url # "unset" THEN {"webhook"} ELSE {})]
    /\ UNCHANGED <<file, drawn, starts, signed, hurt>>

\* TLS or plain HTTP is decided once, never per connection.
Speaks(settings) == IF settings.tls THEN "tls" ELSE "plain"

\* A route exists only with its token.
BindInner ==
    /\ stage = "inner" /\ StepOn
    /\ proc' = IF proc.internal.listen
               THEN [proc EXCEPT !.inner = Speaks(proc.internal), !.open = proc.internal.tokens]
               ELSE proc
    /\ UNCHANGED <<file, drawn, starts, signed, hurt>>

BindPublic ==
    /\ stage = "public" /\ StepOn
    /\ proc' = [proc EXCEPT !.public = TRUE]
    /\ UNCHANGED <<file, drawn, starts, signed, hurt>>

----------------------------------------------------------------------------
\* A cookie set at a sign-in, a link put into a letter.
Sign(kind) ==
    /\ \/ stage = "serving"
       \/ kind = "unsubscribe" /\ proc.running \cap {"mail", "webhook"} # {}
    /\ signed' = [signed EXCEPT ![kind] = @ \cup {proc.key[kind]}]
    /\ UNCHANGED <<stage, proc, file, drawn, starts, hurt>>

\* A signal, a crash, the end of axum::serve: at any step.
Stop == stage # "down" /\ Ends /\ UNCHANGED <<file, drawn, starts, signed, hurt>>

\* The disk or the operator: a key file loses its end, or all of it.
CutFile(kind) ==
    /\ stage = "down" /\ starts < MaxStarts
    /\ \E n \in {32, 0} :
          /\ n < file[kind].bytes
          /\ file' = [file EXCEPT ![kind] = IF n = 0 THEN NoKey ELSE [@ EXCEPT !.bytes = n]]
    /\ hurt' = hurt \cup {kind}
    /\ UNCHANGED <<stage, proc, drawn, starts, signed>>

StartNext ==
    \/ \E text \in Configs : ReadConfig(text)
    \/ OpenData
    \/ MirrorArticles
    \/ OutsideFails
    \/ \E g \in Identities : ReadIdentity(g)
    \/ \E g \in HooksTried : ReadHook(g)
    \/ \E g \in MailsTried : ReadMail(g)
    \/ \E g \in Internals : ReadInternal(g)
    \/ \E kind \in Kinds, readable \in BOOLEAN : LoadKey(kind, readable)
    \/ \E kind \in Kinds : \E left \in {file[kind], NoKey, Draw(drawn + 1)} : KeyNotWritten(kind, left)
    \/ NoSpaces
    \/ SpawnLoops
    \/ BindInner
    \/ BindPublic
    \/ \E kind \in Kinds : Sign(kind)
    \/ Stop
    \/ \E kind \in Kinds : CutFile(kind)

----------------------------------------------------------------------------
(* What a configuration that runs must be, whatever the parser looks at:   *)
(* no request can be meant for two spaces, nobody is shut out by an empty  *)
(* list, every category has an address of its own, and what is said about  *)
(* events and owners has something to be about.                            *)
ConfigIsClear ==
    /\ \A i \in DOMAIN proc.config.spaces :
          /\ SpacesForHost(proc.config.spaces[i].host) = {i}
          /\ proc.config.spaces[i].read
          /\ proc.config.spaces[i].slugs # <<>>
          /\ Cardinality(Range(proc.config.spaces[i].slugs)) = Len(proc.config.spaces[i].slugs)
          /\ <<>> \notin Range(proc.config.spaces[i].slugs)
          /\ proc.config.spaces[i].owner = "handle" => proc.config.spaces[i].articles
    /\ \A h \in proc.config.events : Cardinality(SpacesForHost(h)) = 1
    /\ proc.config.timezone # "unknown"

\* "Every step here fails closed" (main.rs): treff acts on the outside (a loop
\* runs, a port is bound) only when every file that is set was read and holds
\* something, certificate and key belong together, the identity provider is named,
\* and a mail host has a port and a sender.  Once it serves, what was set is in
\* force: a token that was set opens its route and no other does; with a certificate
\* the internal port speaks TLS and nothing else; a transport that was set has its
\* loop, and none signs on in the clear.  Three settings are taken as they are: a
\* sender that is no address and a webhook's URL after its scheme, which only the
\* deliveries find out (mail.rs:109, webhook.rs:113), and a password without a user
\* name, which nothing uses (mail.rs:96).
StartKeepsItsWord ==
    /\ ConfigIsClear
    /\ proc.running # {} \/ proc.inner # "shut" \/ proc.public =>
          LET identity == proc.given.identity
              hook == proc.given.webhook
              mail == proc.given.mail
              internal == proc.given.internal
          IN  /\ proc.config.spaces # <<>>
              /\ {identity.secret, hook.token, mail.password} \cup Range(internal.token)
                   \subseteq {"unset", "good"}
              /\ identity.secret # "unset" /\ identity.issuer /\ identity.client
              /\ hook.url # "other scheme"
              /\ mail.host => mail.port /\ mail.from # "unset"
              /\ SignsOn(mail) => mail.starttls
              /\ internal.cert = internal.pair /\ internal.cert \in {"unset", "good"}
    /\ stage = "serving" =>
          /\ proc.open = {r \in Routes : proc.given.internal.token[r] # "unset"}
          /\ proc.inner = "tls" <=> proc.given.internal.cert # "unset"
          /\ proc.inner = "tls" <=> proc.given.internal.pair # "unset"
          /\ "mail" \in proc.running <=> proc.given.mail.host
          /\ "webhook" \in proc.running <=> proc.given.webhook.url # "unset"

\* A restart signs nobody out and breaks no link that is already in a mailbox:
\* what was signed with an earlier process's key is accepted by this one, unless
\* the key's file was damaged or could not be read in between.  And the two
\* purposes never share a key (notify/unsubscribe.rs: "two purposes, two keys").
KeysStay ==
    stage = "serving" =>
       /\ \A k \in Kinds \ hurt : signed[k] \subseteq {proc.key[k]}
       /\ proc.key["cookie"].draw # proc.key["unsubscribe"].draw
=============================================================================
