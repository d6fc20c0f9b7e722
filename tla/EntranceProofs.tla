---------------------------- MODULE EntranceProofs ----------------------------
(***************************************************************************)
(* That treff serves only with settings that are all usable, that a        *)
(* restart keeps the keys, and that a token opens its route and no other,  *)
(* for any configurations, tokens, requests and number of starts.          *)
(***************************************************************************)
EXTENDS Start, Front, TLAPS, FiniteSetTheorems

StartSpec == StartInit /\ [][StartNext]_startVars

-----------------------------------------------------------------------------
(* The inductive invariant.                                                *)

\* Where serve is once it has passed a step.
PastInner    == {"public", "serving"}
PastLoops    == {"inner"} \cup PastInner
PastKeys     == {"loops"} \cup PastLoops
PastCookie   == {"unsubscribe"} \cup PastKeys
PastInternal == {"cookie"} \cup PastCookie
PastMail     == {"internal"} \cup PastInternal
PastHook     == {"mail"} \cup PastMail
PastIdentity == {"webhook"} \cup PastHook
Up           == {"data", "articles", "identity"} \cup PastIdentity

Loaded(kind) == IF kind = "cookie" THEN PastCookie ELSE PastKeys

\* The records and functions have their fields.
Shaped ==
  /\ stage \in {"down"} \cup Up
  /\ proc = [config |-> proc.config, given |-> proc.given, internal |-> proc.internal,
             key |-> proc.key, running |-> proc.running, inner |-> proc.inner,
             open |-> proc.open, public |-> proc.public]
  /\ proc.given = [identity |-> proc.given.identity, webhook |-> proc.given.webhook,
                   mail |-> proc.given.mail, internal |-> proc.given.internal]
  /\ proc.key = [k \in Kinds |-> proc.key[k]]
  /\ file = [k \in Kinds |-> file[k]]
  /\ signed = [k \in Kinds |-> signed[k]]
  /\ drawn \in Nat

\* A process that is down holds nothing; one that is up took a text that parses.
Configured ==
  IF stage = "down" THEN proc = Blank
  ELSE \E text \in Configs : Parses(text) /\ proc.config = Normalised(text)

\* What a step has read is usable, and what it decides follows from what it read.
Settled ==
  /\ stage \in PastIdentity => IdentityFits(proc.given.identity)
  /\ stage \in PastHook => proc.given.webhook \in Hooks /\ HookFits(proc.given.webhook)
  /\ stage \in PastMail => proc.given.mail \in Mails /\ MailFits(proc.given.mail)
  /\ stage \in PastInternal =>
       LET g == proc.given.internal IN
       /\ g \in Internals /\ InternalFits(g)
       /\ proc.internal = [tokens |-> TokensSet(g), tls |-> TlsSet(g), listen |-> g.listen]
  /\ stage \in PastCookie => proc.config.spaces # <<>>
  /\ proc.running = IF stage \in PastLoops
                    THEN {"purge"} \cup (IF proc.given.mail.host THEN {"mail"} ELSE {})
                           \cup (IF proc.given.webhook.url # "unset" THEN {"webhook"} ELSE {})
                    ELSE {}
  /\ proc.inner = IF stage \in PastInner /\ proc.internal.listen THEN Speaks(proc.internal) ELSE "shut"
  /\ proc.open = IF stage \in PastInner /\ proc.internal.listen THEN proc.internal.tokens ELSE {}
  /\ proc.public => stage = "serving"

\* A key file is empty or holds a key that was drawn once; one that was never
\* damaged holds it whole, and nothing was signed with another one.
Filed ==
  /\ \A k \in Kinds : file[k] = NoKey
       \/ \E n \in 1 .. drawn, b \in {32, 64} : file[k] = [draw |-> n, bytes |-> b]
  /\ \A j, k \in Kinds : file[j] # NoKey /\ file[j].draw = file[k].draw => j = k
  /\ \A k \in Kinds \ hurt :
       /\ file[k] # NoKey => file[k].bytes = 64
       /\ signed[k] \subseteq {file[k]}
       /\ file[k] = NoKey => signed[k] = {}

\* The keys a process works with are those of the files.
Keyed == \A k \in Kinds : stage \in Loaded(k) => proc.key[k] = file[k] /\ file[k] # NoKey

StartInv == Shaped /\ Configured /\ Settled /\ Filed /\ Keyed

-----------------------------------------------------------------------------
(* The order of the steps.                                                 *)

\* The steps of serve are different ones.
LEMMA StepsDiffer ==
  /\ Len(Steps) = 12
  /\ \A i, j \in 1 .. 12 : Steps[i] = Steps[j] => i = j
  BY DEF Steps

\* serve goes from each step to the next one.
LEMMA StepOnIs ==
  ASSUME StepOn
  PROVE  \A j \in 1 .. 11 : stage = Steps[j] => stage' = Steps[j + 1]
  <1> SUFFICES ASSUME NEW j \in 1 .. 11, stage = Steps[j] PROVE stage' = Steps[j + 1]
    OBVIOUS
  <1> DEFINE next == CHOOSE i \in 2 .. Len(Steps) : Steps[i - 1] = stage
  <1>1. j + 1 \in 2 .. Len(Steps) /\ Steps[(j + 1) - 1] = stage
    BY StepsDiffer
  <1>2. next \in 2 .. Len(Steps) /\ Steps[next - 1] = stage
    <2>1. \E i \in 2 .. Len(Steps) : Steps[i - 1] = stage
      BY <1>1
    <2> QED BY <2>1
  <1>3. stage' = Steps[next]
    BY DEF StepOn
  <1> HIDE DEF next
  <1>4. next - 1 = j
    BY <1>2, StepsDiffer
  <1> QED BY <1>2, <1>3, <1>4, StepsDiffer

LEMMA Onward ==
  ASSUME StepOn
  PROVE  /\ stage = "data" => stage' = "articles"
         /\ stage = "articles" => stage' = "identity"
         /\ stage = "identity" => stage' = "webhook"
         /\ stage = "webhook" => stage' = "mail"
         /\ stage = "mail" => stage' = "internal"
         /\ stage = "internal" => stage' = "cookie"
         /\ stage = "cookie" => stage' = "unsubscribe"
         /\ stage = "unsubscribe" => stage' = "loops"
         /\ stage = "loops" => stage' = "inner"
         /\ stage = "inner" => stage' = "public"
         /\ stage = "public" => stage' = "serving"
  <1>1. \A j \in 1 .. 11 : stage = Steps[j] => stage' = Steps[j + 1]
    BY StepOnIs
  <1>2. /\ Steps[1] = "data" /\ Steps[2] = "articles" /\ Steps[3] = "identity"
        /\ Steps[4] = "webhook" /\ Steps[5] = "mail" /\ Steps[6] = "internal"
        /\ Steps[7] = "cookie" /\ Steps[8] = "unsubscribe" /\ Steps[9] = "loops"
        /\ Steps[10] = "inner" /\ Steps[11] = "public" /\ Steps[12] = "serving"
    BY DEF Steps
  <1> QED BY <1>1, <1>2

-----------------------------------------------------------------------------
(* Each step.                                                              *)

\* The process ends; what it wrote to the key files is another question.
LEMMA EndsKeeps ==
  ASSUME StartInv, Ends, Filed', file' = [k \in Kinds |-> file'[k]],
         UNCHANGED signed, drawn' \in Nat
  PROVE  StartInv'
  <1>1. stage' = "down" /\ proc' = Blank
    BY DEF Ends
  <1>2. Shaped'
    BY <1>1 DEF StartInv, Shaped, Blank, Unset
  <1>3. Configured'
    BY <1>1 DEF Configured
  <1>4. Settled'
    BY <1>1 DEF Settled, Blank, PastInner, PastLoops, PastKeys, PastCookie, PastInternal, PastMail,
                PastHook, PastIdentity
  <1>5. Keyed'
    BY <1>1 DEF Keyed, Loaded, PastInner, PastLoops, PastKeys, PastCookie
  <1> QED BY <1>2, <1>3, <1>4, <1>5 DEF StartInv

\* With the key files as they were.
LEMMA FiledKeeps ==
  ASSUME Filed, UNCHANGED <<file, drawn, signed>>, hurt \subseteq hurt'
  PROVE  Filed'
  BY DEF Filed

LEMMA EndsUnwritten ==
  ASSUME StartInv, Ends, UNCHANGED <<file, drawn, signed>>, hurt \subseteq hurt'
  PROVE  StartInv'
  <1>1. Filed'
    BY FiledKeeps DEF StartInv
  <1>2. file' = [k \in Kinds |-> file'[k]] /\ drawn' \in Nat
    BY DEF StartInv, Shaped
  <1> QED BY <1>1, <1>2, EndsKeeps

\* main.rs: Config::load.
LEMMA ReadConfigKeeps ==
  ASSUME StartInv, NEW text \in Configs, ReadConfig(text)
  PROVE  StartInv'
  <1>1. stage = "down" /\ proc = Blank /\ UNCHANGED <<file, drawn, signed, hurt>>
    BY DEF ReadConfig, StartInv, Configured
  <1>2. Filed'
    BY <1>1, FiledKeeps DEF StartInv
  <1>3. CASE Parses(text)
    <2>1. stage' = "data" /\ proc' = [proc EXCEPT !.config = Normalised(text)]
      BY <1>3 DEF ReadConfig
    <2>2. proc' = [config |-> Normalised(text), given |-> Unset, internal |-> Shut,
                   key |-> [k \in Kinds |-> NoKey],
                   running |-> {}, inner |-> "shut", open |-> {}, public |-> FALSE]
      BY <1>1, <2>1 DEF Blank
    <2>3. Shaped'
      BY <1>1, <2>1, <2>2 DEF StartInv, Shaped, Unset, Up
    <2>4. Configured'
      BY <1>3, <2>1, <2>2 DEF Configured
    <2>5. Settled'
      BY <2>1, <2>2 DEF Settled, PastInner, PastLoops, PastKeys, PastCookie, PastInternal, PastMail,
                        PastHook, PastIdentity
    <2>6. Keyed'
      BY <2>1 DEF Keyed, Loaded, PastInner, PastLoops, PastKeys, PastCookie
    <2> QED BY <1>2, <2>3, <2>4, <2>5, <2>6 DEF StartInv
  <1>4. CASE ~Parses(text)
    <2>1. UNCHANGED <<stage, proc>>
      BY <1>4 DEF ReadConfig
    <2> QED BY <1>1, <1>2, <2>1 DEF StartInv, Shaped, Configured, Settled, Keyed
  <1> QED BY <1>3, <1>4

\* The steps that keep nothing in the process.
LEMMA PlainStepKeeps ==
  ASSUME StartInv, OpenData \/ MirrorArticles
  PROVE  StartInv'
  <1>1. UNCHANGED <<proc, file, drawn, signed, hurt>>
    BY DEF OpenData, MirrorArticles
  <1>2. \/ stage = "data" /\ stage' = "articles"
        \/ stage = "articles" /\ stage' = "identity"
    BY Onward DEF OpenData, MirrorArticles
  <1>3. Filed'
    BY <1>1, FiledKeeps DEF StartInv
  <1> QED BY <1>1, <1>2, <1>3
          DEF StartInv, Shaped, Configured, Settled, Keyed, Loaded, Up, PastInner, PastLoops,
              PastKeys, PastCookie, PastInternal, PastMail, PastHook, PastIdentity

\* auth: the identity provider's settings.
LEMMA ReadIdentityKeeps ==
  ASSUME StartInv, NEW g, ReadIdentity(g)
  PROVE  StartInv'
  <1>1. stage = "identity" /\ UNCHANGED <<file, drawn, signed, hurt>>
    BY DEF ReadIdentity
  <1>2. CASE IdentityFits(g)
    <2>1. stage' = "webhook" /\ proc' = [proc EXCEPT !.given.identity = g]
      BY <1>1, <1>2, Onward DEF ReadIdentity
    <2>2. proc' = [config |-> proc.config,
                   given |-> [identity |-> g, webhook |-> proc.given.webhook,
                              mail |-> proc.given.mail, internal |-> proc.given.internal],
                   internal |-> proc.internal, key |-> proc.key, running |-> proc.running,
                   inner |-> proc.inner, open |-> proc.open, public |-> proc.public]
      BY <2>1 DEF StartInv, Shaped
    <2>3. Shaped'
      BY <1>1, <2>1, <2>2 DEF StartInv, Shaped, Up, PastIdentity
    <2>4. Configured'
      BY <1>1, <2>1, <2>2 DEF StartInv, Configured
    <2>5. Settled'
      BY <1>1, <1>2, <2>1, <2>2
      DEF StartInv, Settled, PastInner, PastLoops, PastKeys, PastCookie, PastInternal, PastMail,
          PastHook, PastIdentity
    <2>6. Keyed'
      BY <2>1 DEF Keyed, Loaded, PastInner, PastLoops, PastKeys, PastCookie
    <2>7. Filed'
      BY <1>1, FiledKeeps DEF StartInv
    <2> QED BY <2>3, <2>4, <2>5, <2>6, <2>7 DEF StartInv
  <1>3. CASE ~IdentityFits(g)
    BY <1>1, <1>3, EndsUnwritten DEF ReadIdentity
  <1> QED BY <1>2, <1>3

\* notify/webhook.rs: the webhook's settings.
LEMMA ReadHookKeeps ==
  ASSUME StartInv, NEW g \in Hooks, ReadHook(g)
  PROVE  StartInv'
  <1>1. stage = "webhook" /\ UNCHANGED <<file, drawn, signed, hurt>>
    BY DEF ReadHook
  <1>2. CASE HookFits(g)
    <2>1. stage' = "mail" /\ proc' = [proc EXCEPT !.given.webhook = g]
      BY <1>1, <1>2, Onward DEF ReadHook
    <2>2. proc' = [config |-> proc.config,
                   given |-> [identity |-> proc.given.identity, webhook |-> g,
                              mail |-> proc.given.mail, internal |-> proc.given.internal],
                   internal |-> proc.internal, key |-> proc.key, running |-> proc.running,
                   inner |-> proc.inner, open |-> proc.open, public |-> proc.public]
      BY <2>1 DEF StartInv, Shaped
    <2>3. Shaped'
      BY <1>1, <2>1, <2>2 DEF StartInv, Shaped, Up, PastIdentity, PastHook, PastMail
    <2>4. Configured'
      BY <1>1, <2>1, <2>2 DEF StartInv, Configured
    <2>5. Settled'
      BY <1>1, <1>2, <2>1, <2>2
      DEF StartInv, Settled, PastInner, PastLoops, PastKeys, PastCookie, PastInternal, PastMail,
          PastHook, PastIdentity
    <2>6. Keyed'
      BY <2>1 DEF Keyed, Loaded, PastInner, PastLoops, PastKeys, PastCookie
    <2>7. Filed'
      BY <1>1, FiledKeeps DEF StartInv
    <2> QED BY <2>3, <2>4, <2>5, <2>6, <2>7 DEF StartInv
  <1>3. CASE ~HookFits(g)
    BY <1>1, <1>3, EndsUnwritten DEF ReadHook
  <1> QED BY <1>2, <1>3

\* notify/mail.rs: the mail settings.
LEMMA ReadMailKeeps ==
  ASSUME StartInv, NEW g \in Mails, ReadMail(g)
  PROVE  StartInv'
  <1>1. stage = "mail" /\ UNCHANGED <<file, drawn, signed, hurt>>
    BY DEF ReadMail
  <1>2. CASE MailFits(g)
    <2>1. stage' = "internal" /\ proc' = [proc EXCEPT !.given.mail = g]
      BY <1>1, <1>2, Onward DEF ReadMail
    <2>2. proc' = [config |-> proc.config,
                   given |-> [identity |-> proc.given.identity, webhook |-> proc.given.webhook,
                              mail |-> g, internal |-> proc.given.internal],
                   internal |-> proc.internal, key |-> proc.key, running |-> proc.running,
                   inner |-> proc.inner, open |-> proc.open, public |-> proc.public]
      BY <2>1 DEF StartInv, Shaped
    <2>3. Shaped'
      BY <1>1, <2>1, <2>2 DEF StartInv, Shaped, Up, PastIdentity, PastHook, PastMail
    <2>4. Configured'
      BY <1>1, <2>1, <2>2 DEF StartInv, Configured
    <2>5. Settled'
      BY <1>1, <1>2, <2>1, <2>2
      DEF StartInv, Settled, PastInner, PastLoops, PastKeys, PastCookie, PastInternal, PastMail,
          PastHook, PastIdentity
    <2>6. Keyed'
      BY <2>1 DEF Keyed, Loaded, PastInner, PastLoops, PastKeys, PastCookie
    <2>7. Filed'
      BY <1>1, FiledKeeps DEF StartInv
    <2> QED BY <2>3, <2>4, <2>5, <2>6, <2>7 DEF StartInv
  <1>3. CASE ~MailFits(g)
    BY <1>1, <1>3, EndsUnwritten DEF ReadMail
  <1> QED BY <1>2, <1>3

\* main.rs: tokens and certificate of the internal listener.
LEMMA ReadInternalKeeps ==
  ASSUME StartInv, NEW g \in Internals, ReadInternal(g)
  PROVE  StartInv'
  <1>1. stage = "internal" /\ UNCHANGED <<file, drawn, signed, hurt>>
    BY DEF ReadInternal
  <1>2. CASE InternalFits(g)
    <2> DEFINE settings == [tokens |-> TokensSet(g), tls |-> TlsSet(g), listen |-> g.listen]
    <2>1. stage' = "cookie" /\ proc' = [proc EXCEPT !.given.internal = g, !.internal = settings]
      BY <1>1, <1>2, Onward DEF ReadInternal
    <2>2. proc' = [config |-> proc.config,
                   given |-> [identity |-> proc.given.identity, webhook |-> proc.given.webhook,
                              mail |-> proc.given.mail, internal |-> g],
                   internal |-> settings, key |-> proc.key, running |-> proc.running,
                   inner |-> proc.inner, open |-> proc.open, public |-> proc.public]
      <3> HIDE DEF settings
      <3> QED BY <2>1 DEF StartInv, Shaped
    <2>3. Shaped'
      BY <1>1, <2>1, <2>2 DEF StartInv, Shaped, Up, PastIdentity, PastHook, PastMail, PastInternal
    <2>4. Configured'
      BY <1>1, <2>1, <2>2 DEF StartInv, Configured
    <2>5. Settled'
      <3>1. /\ IdentityFits(proc.given.identity)
            /\ proc.given.webhook \in Hooks /\ HookFits(proc.given.webhook)
            /\ proc.given.mail \in Mails /\ MailFits(proc.given.mail)
            /\ proc.running = {} /\ proc.inner = "shut" /\ proc.open = {} /\ ~proc.public
        BY <1>1 DEF StartInv, Settled, PastInner, PastLoops, PastKeys, PastCookie, PastInternal,
                    PastMail, PastHook, PastIdentity
      <3>2. /\ proc'.given.identity = proc.given.identity
            /\ proc'.given.webhook = proc.given.webhook /\ proc'.given.mail = proc.given.mail
            /\ proc'.given.internal = g /\ proc'.internal = settings
            /\ proc'.running = {} /\ proc'.inner = "shut" /\ proc'.open = {} /\ ~proc'.public
        BY <2>2, <3>1
      <3> QED BY <1>2, <2>1, <3>1, <3>2 DEF Settled, PastInner, PastLoops, PastKeys, PastCookie
    <2>6. Keyed'
      BY <2>1 DEF Keyed, Loaded, PastInner, PastLoops, PastKeys, PastCookie
    <2>7. Filed'
      BY <1>1, FiledKeeps DEF StartInv
    <2> QED BY <2>3, <2>4, <2>5, <2>6, <2>7 DEF StartInv
  <1>3. CASE ~InternalFits(g)
    BY <1>1, <1>3, EndsUnwritten DEF ReadInternal
  <1> QED BY <1>2, <1>3

\* A key that is drawn now is none that any file holds.
LEMMA DrawnIsNew ==
  ASSUME StartInv, NEW kind \in Kinds, file' = [file EXCEPT ![kind] = Draw(drawn + 1)],
         drawn' = drawn + 1, UNCHANGED signed, hurt \subseteq hurt',
         kind \in hurt' \/ file[kind] = NoKey
  PROVE  Filed'
  <1> USE DEF StartInv
  <1>1. /\ drawn \in Nat
        /\ file'[kind] = Draw(drawn + 1)
        /\ \A k \in Kinds \ {kind} : file'[k] = file[k]
    BY DEF Shaped
  <1>2. ASSUME NEW k \in Kinds, file[k] # NoKey PROVE file[k].draw \in 1 .. drawn
    <2>1. PICK n \in 1 .. drawn, b \in {32, 64} : file[k] = [draw |-> n, bytes |-> b]
      BY <1>2 DEF Filed
    <2> QED BY <2>1
  <1>3. /\ Draw(drawn + 1).draw = drawn + 1 /\ Draw(drawn + 1).bytes = 64
        /\ Draw(drawn + 1) = [draw |-> drawn + 1, bytes |-> 64]
    BY DEF Draw
  <1>4. NoKey.draw = 0
    BY DEF NoKey
  <1>5. ASSUME NEW k \in Kinds
        PROVE  file'[k] = NoKey \/ \E n \in 1 .. drawn', b \in {32, 64} : file'[k] = [draw |-> n, bytes |-> b]
    <2>1. CASE k = kind
      <3>1. drawn + 1 \in 1 .. drawn' /\ file'[k] = [draw |-> drawn + 1, bytes |-> 64]
        BY <1>1, <1>3, <2>1
      <3> QED BY <3>1
    <2>2. CASE k # kind /\ file[k] # NoKey
      <3>1. PICK n \in 1 .. drawn, b \in {32, 64} : file[k] = [draw |-> n, bytes |-> b]
        BY <2>2 DEF Filed
      <3>2. n \in 1 .. drawn'
        BY <1>1
      <3> QED BY <1>1, <2>2, <3>1, <3>2
    <2> QED BY <1>1, <2>1, <2>2
  <1>6. ASSUME NEW j \in Kinds, NEW k \in Kinds, file'[j] # NoKey, file'[j].draw = file'[k].draw
        PROVE  j = k
    <2>1. CASE j # kind /\ k # kind
      BY <1>1, <1>6, <2>1 DEF Filed
    <2>2. CASE j = kind /\ k # kind
      <3>1. file[k] = NoKey \/ file[k].draw \in 1 .. drawn
        BY <1>2
      <3> QED BY <1>1, <1>3, <1>4, <1>6, <2>2, <3>1
    <2>3. CASE j # kind /\ k = kind
      BY <1>1, <1>2, <1>3, <1>6, <2>3
    <2> QED BY <2>1, <2>2, <2>3
  <1>7. ASSUME NEW k \in Kinds \ hurt'
        PROVE  /\ file'[k] # NoKey => file'[k].bytes = 64
               /\ signed'[k] \subseteq {file'[k]}
               /\ file'[k] = NoKey => signed'[k] = {}
    <2>1. CASE k = kind
      BY <1>1, <1>3, <2>1 DEF Filed
    <2>2. CASE k # kind
      BY <1>1, <2>2 DEF Filed
    <2> QED BY <2>1, <2>2
  <1> QED BY <1>5, <1>6, <1>7 DEF Filed

\* AppState::new: a key from its file, or a new one.
LEMMA LoadKeyKeeps ==
  ASSUME StartInv, NEW kind \in Kinds, NEW readable \in BOOLEAN, LoadKey(kind, readable)
  PROVE  StartInv'
  <1> USE DEF StartInv
  <1> DEFINE found == readable /\ file[kind].bytes >= Needed(kind)
  <1>1. /\ stage = kind /\ proc.config.spaces # <<>>
        /\ drawn' = IF found THEN drawn ELSE drawn + 1
        /\ file' = IF found THEN file ELSE [file EXCEPT ![kind] = Draw(drawn')]
        /\ proc' = [proc EXCEPT !.key[kind] = file'[kind]]
        /\ hurt' = IF readable THEN hurt ELSE hurt \cup {kind}
        /\ StepOn
        /\ UNCHANGED <<starts, signed>>
    BY DEF LoadKey
  <1>2. \/ kind = "cookie" /\ stage = "cookie" /\ stage' = "unsubscribe"
        \/ kind = "unsubscribe" /\ stage = "unsubscribe" /\ stage' = "loops"
    BY <1>1, Onward DEF Kinds
  <1> DEFINE keys == [proc.key EXCEPT ![kind] = file'[kind]]
  <1>3. /\ proc' = [config |-> proc.config, given |-> proc.given, internal |-> proc.internal,
                    key |-> keys, running |-> proc.running, inner |-> proc.inner,
                    open |-> proc.open, public |-> proc.public]
        /\ keys[kind] = file'[kind] /\ \A k \in Kinds \ {kind} : keys[k] = proc.key[k]
        /\ keys = [k \in Kinds |-> keys[k]]
    BY <1>1 DEF Shaped
  <1> HIDE DEF keys
  <1>4. Filed'
    <2>1. CASE found
      BY <1>1, <2>1, FiledKeeps
    <2>2. CASE ~found
      <3>1. kind \in hurt' \/ file[kind] = NoKey
        <4>1. CASE ~readable
          BY <1>1, <4>1
        <4>2. CASE readable /\ kind \notin hurt /\ file[kind] # NoKey
          <5>1. file[kind].bytes = 64
            BY <4>2 DEF Filed
          <5> QED BY <2>2, <4>2, <5>1 DEF Needed
        <4> QED BY <1>1, <4>1, <4>2
      <3>2. drawn' = drawn + 1 /\ file' = [file EXCEPT ![kind] = Draw(drawn + 1)]
        BY <1>1, <2>2
      <3> QED BY <1>1, <3>1, <3>2, DrawnIsNew
    <2> QED BY <2>1, <2>2
  <1>5. /\ file' = [k \in Kinds |-> file'[k]] /\ drawn' \in Nat
        /\ file'[kind] # NoKey /\ \A k \in Kinds \ {kind} : file'[k] = file[k]
    <2>1. CASE found
      <3>1. file[kind].bytes >= Needed(kind) /\ Needed(kind) \in {32, 64}
        BY <2>1 DEF Needed
      <3>2. NoKey.bytes = 0
        BY DEF NoKey
      <3>3. file[kind] # NoKey
        BY <3>1, <3>2
      <3> QED BY <1>1, <2>1, <3>3 DEF Shaped
    <2>2. CASE ~found
      <3>1. drawn' = drawn + 1 /\ file' = [file EXCEPT ![kind] = Draw(drawn + 1)]
        BY <1>1, <2>2
      <3>2. Draw(drawn + 1) # NoKey
        BY DEF Draw, NoKey
      <3> QED BY <3>1, <3>2 DEF Shaped
    <2> QED BY <2>1, <2>2
  <1> HIDE DEF found
  <1>6. Shaped'
    BY <1>1, <1>2, <1>3, <1>5 DEF Shaped, Up, PastIdentity, PastHook, PastMail, PastInternal,
                                  PastCookie, PastKeys
  <1>7. Configured'
    BY <1>2, <1>3 DEF Configured
  <1>8. Settled'
    BY <1>1, <1>2, <1>3 DEF Settled, PastInner, PastLoops, PastKeys, PastCookie, PastInternal,
                            PastMail, PastHook, PastIdentity
  <1>9. Keyed'
    <2>1. ASSUME NEW k \in Kinds, stage' \in Loaded(k)' PROVE proc'.key[k] = file'[k] /\ file'[k] # NoKey
      <3>1. CASE k = kind
        BY <1>3, <1>5, <3>1
      <3>2. CASE k # kind
        <4>1. stage \in Loaded(k)
          BY <1>2, <2>1, <3>2 DEF Kinds, Loaded, PastCookie, PastKeys, PastLoops, PastInner
        <4> QED BY <1>3, <1>5, <3>2, <4>1 DEF Keyed
      <3> QED BY <3>1, <3>2
    <2> QED BY <2>1 DEF Keyed
  <1> QED BY <1>4, <1>6, <1>7, <1>8, <1>9

\* What a key file holds was drawn.
LEMMA DrawIsOld ==
  ASSUME Filed, NEW k \in Kinds, file[k] # NoKey
  PROVE  /\ file[k].draw \in 1 .. drawn
         /\ \E n \in 1 .. drawn, b \in {32, 64} : file[k] = [draw |-> n, bytes |-> b]
  <1>1. PICK n \in 1 .. drawn, b \in {32, 64} : file[k] = [draw |-> n, bytes |-> b]
    BY DEF Filed
  <1> QED BY <1>1

\* A key file that is cut, or emptied, counts as damaged.
LEMMA CutKeeps ==
  ASSUME StartInv, NEW kind \in Kinds, NEW left, file' = [file EXCEPT ![kind] = left],
         left = NoKey \/ (file[kind] # NoKey /\ left = [draw |-> file[kind].draw, bytes |-> 32]),
         UNCHANGED <<drawn, signed>>, hurt \subseteq hurt', kind \in hurt'
  PROVE  Filed'
  <1> USE DEF StartInv
  <1>1. /\ drawn \in Nat /\ file'[kind] = left
        /\ \A k \in Kinds \ {kind} : file'[k] = file[k]
    BY DEF Shaped
  <1>2. NoKey.draw = 0
    BY DEF NoKey
  <1>3. ASSUME NEW k \in Kinds, file[k] # NoKey PROVE file[k].draw \in 1 .. drawn
    BY <1>3, DrawIsOld
  <1>4. ASSUME NEW k \in Kinds
        PROVE  file'[k] = NoKey \/ \E n \in 1 .. drawn', b \in {32, 64} : file'[k] = [draw |-> n, bytes |-> b]
    <2>1. CASE k = kind /\ left # NoKey
      <3>1. file[kind].draw \in 1 .. drawn' /\ file'[k] = [draw |-> file[kind].draw, bytes |-> 32]
        BY <1>1, <1>3, <2>1
      <3> QED BY <3>1
    <2>2. CASE k # kind /\ file[k] # NoKey
      <3>1. PICK n \in 1 .. drawn, b \in {32, 64} : file[k] = [draw |-> n, bytes |-> b]
        BY <2>2, DrawIsOld
      <3>2. file'[k] = [draw |-> n, bytes |-> b] /\ n \in 1 .. drawn'
        BY <1>1, <2>2, <3>1
      <3> QED BY <3>2
    <2> QED BY <1>1, <2>1, <2>2
  <1>5. \A k \in Kinds : file'[k] # NoKey => file[k] # NoKey /\ file'[k].draw = file[k].draw
    BY <1>1
  <1>6. ASSUME NEW j \in Kinds, NEW k \in Kinds, file'[j] # NoKey, file'[j].draw = file'[k].draw
        PROVE  j = k
    <2>1. file[j] # NoKey /\ file[j].draw \in 1 .. drawn /\ file'[j].draw = file[j].draw
      BY <1>3, <1>5, <1>6
    <2>2. file'[k] # NoKey
      BY <1>2, <1>6, <2>1
    <2> QED BY <1>5, <1>6, <2>1, <2>2 DEF Filed
  <1>7. ASSUME NEW k \in Kinds \ hurt'
        PROVE  /\ file'[k] # NoKey => file'[k].bytes = 64
               /\ signed'[k] \subseteq {file'[k]}
               /\ file'[k] = NoKey => signed'[k] = {}
    BY <1>1 DEF Filed
  <1> QED BY <1>4, <1>6, <1>7 DEF Filed

\* AppState::new: a key file that could not be written.
LEMMA KeyNotWrittenKeeps ==
  ASSUME StartInv, NEW kind \in Kinds, NEW left \in {file[kind], NoKey, Draw(drawn + 1)},
         KeyNotWritten(kind, left)
  PROVE  StartInv'
  <1> USE DEF StartInv
  <1>1. /\ drawn' = IF left.draw > drawn THEN left.draw ELSE drawn
        /\ file' = [file EXCEPT ![kind] = left]
        /\ hurt' = IF file[kind] \in {NoKey, left} THEN hurt ELSE hurt \cup {kind}
        /\ Ends /\ UNCHANGED signed
    BY DEF KeyNotWritten
  <1>2. drawn \in Nat /\ file' = [k \in Kinds |-> file'[k]] /\ hurt \subseteq hurt'
    BY <1>1 DEF Shaped
  <1>3. NoKey.draw = 0 /\ Draw(drawn + 1).draw = drawn + 1
    BY DEF NoKey, Draw
  <1>4. file[kind] # NoKey => file[kind].draw \in 1 .. drawn
    <2>1. ASSUME file[kind] # NoKey PROVE file[kind].draw \in 1 .. drawn
      <3>1. PICK n \in 1 .. drawn, b \in {32, 64} : file[kind] = [draw |-> n, bytes |-> b]
        BY <2>1 DEF Filed
      <3> QED BY <3>1
    <2> QED BY <2>1
  <1>5. CASE left = file[kind]
    <2>1. drawn' = drawn /\ file' = file
      BY <1>1, <1>2, <1>3, <1>4, <1>5 DEF Shaped
    <2>2. Filed'
      BY <1>1, <1>2, <2>1, FiledKeeps
    <2> QED BY <1>1, <1>2, <2>1, <2>2, EndsKeeps
  <1>6. CASE left = NoKey /\ left # file[kind]
    <2>1. drawn' = drawn /\ kind \in hurt'
      BY <1>1, <1>2, <1>3, <1>6
    <2>2. Filed'
      BY <1>1, <1>2, <1>6, <2>1, CutKeeps
    <2> QED BY <1>1, <1>2, <2>1, <2>2, EndsKeeps
  <1>7. CASE left = Draw(drawn + 1) /\ left # file[kind]
    <2>1. drawn' = drawn + 1 /\ (kind \in hurt' \/ file[kind] = NoKey)
      BY <1>1, <1>2, <1>3, <1>7
    <2>2. file' = [file EXCEPT ![kind] = Draw(drawn + 1)]
      BY <1>1, <1>7
    <2>3. Filed'
      BY <1>1, <1>2, <2>1, <2>2, DrawnIsNew
    <2> QED BY <1>1, <1>2, <2>1, <2>3, EndsKeeps
  <1> QED BY <1>5, <1>6, <1>7

\* The steps that end the process and write nothing.
LEMMA PlainEndKeeps ==
  ASSUME StartInv, OutsideFails \/ NoSpaces \/ Stop
  PROVE  StartInv'
  <1>1. Ends /\ UNCHANGED <<file, drawn, signed, hurt>>
    BY DEF OutsideFails, NoSpaces, Stop
  <1> QED BY <1>1, EndsUnwritten

\* main.rs: the loops are spawned.
LEMMA SpawnLoopsKeeps ==
  ASSUME StartInv, SpawnLoops
  PROVE  StartInv'
  <1> USE DEF StartInv
  <1> DEFINE loops == {"purge"} \cup (IF proc.given.mail.host THEN {"mail"} ELSE {})
                        \cup (IF proc.given.webhook.url # "unset" THEN {"webhook"} ELSE {})
  <1>1. /\ stage = "loops" /\ stage' = "inner"
        /\ proc' = [proc EXCEPT !.running = loops]
        /\ UNCHANGED <<file, drawn, signed, hurt>>
    BY Onward DEF SpawnLoops
  <1>2. proc' = [config |-> proc.config, given |-> proc.given, internal |-> proc.internal,
                 key |-> proc.key, running |-> loops, inner |-> proc.inner,
                 open |-> proc.open, public |-> proc.public]
    <2> HIDE DEF loops
    <2> QED BY <1>1 DEF Shaped
  <1>3. Shaped'
    <2> HIDE DEF loops
    <2> QED BY <1>1, <1>2 DEF Shaped, Up, PastIdentity, PastHook, PastMail, PastInternal,
                          PastCookie, PastKeys, PastLoops
  <1>4. Configured'
    <2> HIDE DEF loops
    <2> QED BY <1>1, <1>2 DEF Configured
  <1>5. Settled'
    <2>1. proc'.given = proc.given /\ proc'.running = loops
      BY <1>2
    <2>2. proc'.running = {"purge"} \cup (IF proc'.given.mail.host THEN {"mail"} ELSE {})
                            \cup (IF proc'.given.webhook.url # "unset" THEN {"webhook"} ELSE {})
      BY <2>1
    <2> HIDE DEF loops
    <2> QED BY <1>1, <1>2, <2>2 DEF Settled, PastInner, PastLoops, PastKeys, PastCookie, PastInternal,
                            PastMail, PastHook, PastIdentity
  <1>6. Keyed'
    <2> HIDE DEF loops
    <2> QED BY <1>1, <1>2 DEF Keyed, Loaded, PastInner, PastLoops, PastKeys, PastCookie
  <1>7. Filed'
    BY <1>1, FiledKeeps
  <1> QED BY <1>3, <1>4, <1>5, <1>6, <1>7

\* main.rs: the internal listener, if there is one, and the public one.
LEMMA BindKeeps ==
  ASSUME StartInv, BindInner \/ BindPublic
  PROVE  StartInv'
  <1> USE DEF StartInv
  <1>1. UNCHANGED <<file, drawn, signed, hurt>>
    BY DEF BindInner, BindPublic
  <1>2. Filed'
    BY <1>1, FiledKeeps
  <1>3. CASE BindInner
    <2> DEFINE inner == IF proc.internal.listen THEN Speaks(proc.internal) ELSE proc.inner
               open == IF proc.internal.listen THEN proc.internal.tokens ELSE proc.open
    <2>1. /\ stage = "inner" /\ stage' = "public"
          /\ proc' = IF proc.internal.listen
                     THEN [proc EXCEPT !.inner = Speaks(proc.internal), !.open = proc.internal.tokens]
                     ELSE proc
      BY <1>3, Onward DEF BindInner
    <2>2. proc' = [config |-> proc.config, given |-> proc.given, internal |-> proc.internal,
                   key |-> proc.key, running |-> proc.running, inner |-> inner,
                   open |-> open, public |-> proc.public]
      BY <2>1 DEF Shaped
    <2>3. proc.inner = "shut" /\ proc.open = {}
      BY <2>1 DEF Settled, PastInner
    <2>4. Shaped'
      <3> HIDE DEF inner, open
      <3> QED BY <1>1, <2>1, <2>2 DEF Shaped, Up, PastIdentity, PastHook, PastMail, PastInternal,
                                  PastCookie, PastKeys, PastLoops, PastInner
    <2>5. Configured'
      <3> HIDE DEF inner, open
      <3> QED BY <2>1, <2>2 DEF Configured
    <2>6. Settled'
      <3>1. /\ proc'.inner = IF proc'.internal.listen THEN Speaks(proc'.internal) ELSE "shut"
            /\ proc'.open = IF proc'.internal.listen THEN proc'.internal.tokens ELSE {}
        BY <2>2, <2>3
      <3> HIDE DEF inner, open
      <3> QED BY <2>1, <2>2, <3>1
              DEF Settled, PastInner, PastLoops, PastKeys, PastCookie, PastInternal,
                  PastMail, PastHook, PastIdentity
    <2>7. Keyed'
      <3> HIDE DEF inner, open
      <3> QED BY <1>1, <2>1, <2>2 DEF Keyed, Loaded, PastInner, PastLoops, PastKeys, PastCookie
    <2> QED BY <1>2, <2>4, <2>5, <2>6, <2>7
  <1>4. CASE BindPublic
    <2>1. stage = "public" /\ stage' = "serving" /\ proc' = [proc EXCEPT !.public = TRUE]
      BY <1>4, Onward DEF BindPublic
    <2>2. proc' = [config |-> proc.config, given |-> proc.given, internal |-> proc.internal,
                   key |-> proc.key, running |-> proc.running, inner |-> proc.inner,
                   open |-> proc.open, public |-> TRUE]
      BY <2>1 DEF Shaped
    <2>3. Shaped'
      BY <1>1, <2>1, <2>2 DEF Shaped, Up, PastIdentity, PastHook, PastMail, PastInternal,
                              PastCookie, PastKeys, PastLoops, PastInner
    <2>4. Configured'
      BY <2>1, <2>2 DEF Configured
    <2>5. Settled'
      BY <2>1, <2>2 DEF Settled, PastInner, PastLoops, PastKeys, PastCookie, PastInternal,
                        PastMail, PastHook, PastIdentity
    <2>6. Keyed'
      BY <1>1, <2>1, <2>2 DEF Keyed, Loaded, PastInner, PastLoops, PastKeys, PastCookie
    <2> QED BY <1>2, <2>3, <2>4, <2>5, <2>6
  <1> QED BY <1>3, <1>4

\* A cookie or a link is signed with the key of its file.
LEMMA SignKeeps ==
  ASSUME StartInv, NEW kind \in Kinds, Sign(kind)
  PROVE  StartInv'
  <1> USE DEF StartInv
  <1>1. /\ signed' = [signed EXCEPT ![kind] = @ \cup {proc.key[kind]}]
        /\ UNCHANGED <<stage, proc, file, drawn, hurt>>
    BY DEF Sign
  <1>2. stage \in PastLoops
    <2>1. stage # "serving" => proc.running # {}
      BY DEF Sign
    <2> QED BY <2>1 DEF Settled, PastLoops, PastInner
  <1>3. proc.key[kind] = file[kind] /\ file[kind] # NoKey
    BY <1>2 DEF Keyed, Loaded, PastCookie, PastKeys
  <1>4. /\ signed' = [k \in Kinds |-> signed'[k]]
        /\ \A k \in Kinds : k # kind => signed'[k] = signed[k]
        /\ signed'[kind] = signed[kind] \cup {file[kind]}
    BY <1>1, <1>3 DEF Shaped
  <1>5. Shaped'
    BY <1>1, <1>4 DEF Shaped
  <1>6. Filed'
    <2>1. ASSUME NEW k \in Kinds \ hurt'
          PROVE  /\ file'[k] # NoKey => file'[k].bytes = 64
                 /\ signed'[k] \subseteq {file'[k]}
                 /\ file'[k] = NoKey => signed'[k] = {}
      BY <1>1, <1>3, <1>4 DEF Filed
    <2>2. /\ \A k \in Kinds : file'[k] = NoKey
               \/ \E n \in 1 .. drawn', b \in {32, 64} : file'[k] = [draw |-> n, bytes |-> b]
          /\ \A j, k \in Kinds : file'[j] # NoKey /\ file'[j].draw = file'[k].draw => j = k
      BY <1>1 DEF Filed
    <2> QED BY <2>1, <2>2 DEF Filed
  <1>7. Configured' /\ Settled' /\ Keyed'
    BY <1>1 DEF Configured, Settled, Keyed
  <1> QED BY <1>5, <1>6, <1>7

\* A key file loses its end while treff is down.
LEMMA CutFileKeeps ==
  ASSUME StartInv, NEW kind \in Kinds, CutFile(kind)
  PROVE  StartInv'
  <1> USE DEF StartInv
  <1>1. PICK n \in {32, 0} :
          /\ n < file[kind].bytes
          /\ file' = [file EXCEPT ![kind] = IF n = 0 THEN NoKey ELSE [@ EXCEPT !.bytes = n]]
    BY DEF CutFile
  <1>2. stage = "down" /\ UNCHANGED <<stage, proc, drawn, signed>> /\ hurt' = hurt \cup {kind}
    BY DEF CutFile
  <1>3. file[kind] # NoKey
    <2>1. NoKey.bytes = 0
      BY DEF NoKey
    <2> QED BY <1>1, <2>1
  <1> DEFINE left == IF n = 0 THEN NoKey ELSE [file[kind] EXCEPT !.bytes = n]
  <1>4. file' = [file EXCEPT ![kind] = left]
    BY <1>1
  <1>5. left = NoKey \/ left = [draw |-> file[kind].draw, bytes |-> 32]
    <2>1. PICK m \in 1 .. drawn, b \in {32, 64} : file[kind] = [draw |-> m, bytes |-> b]
      BY <1>3 DEF Filed
    <2> QED BY <2>1
  <1> HIDE DEF left
  <1>6. Filed'
    BY <1>2, <1>3, <1>4, <1>5, CutKeeps
  <1>7. Shaped'
    BY <1>2, <1>4 DEF Shaped
  <1>8. Configured' /\ Settled'
    BY <1>2 DEF Configured, Settled
  <1>9. Keyed'
    BY <1>2 DEF Keyed, Loaded, PastInner, PastLoops, PastKeys, PastCookie
  <1> QED BY <1>6, <1>7, <1>8, <1>9

-----------------------------------------------------------------------------
(* The theorems.                                                           *)

LEMMA StartBegins == StartInit => StartInv
  <1> SUFFICES ASSUME StartInit PROVE StartInv
    OBVIOUS
  <1> USE DEF StartInit
  <1>1. Shaped
    BY DEF Shaped, Blank, Unset
  <1>2. Configured
    BY DEF Configured
  <1>3. Settled
    BY DEF Settled, Blank, PastInner, PastLoops, PastKeys, PastCookie, PastInternal, PastMail,
           PastHook, PastIdentity
  <1>4. Filed
    BY DEF Filed
  <1>5. Keyed
    BY DEF Keyed, Loaded, PastInner, PastLoops, PastKeys, PastCookie
  <1> QED BY <1>1, <1>2, <1>3, <1>4, <1>5 DEF StartInv

LEMMA StartStepKeeps == StartInv /\ [StartNext]_startVars => StartInv'
  <1> SUFFICES ASSUME StartInv, [StartNext]_startVars PROVE StartInv'
    OBVIOUS
  <1>1. CASE \E text \in Configs : ReadConfig(text)
    BY <1>1, ReadConfigKeeps
  <1>2. CASE OpenData \/ MirrorArticles
    BY <1>2, PlainStepKeeps
  <1>3. CASE OutsideFails \/ NoSpaces \/ Stop
    BY <1>3, PlainEndKeeps
  <1>4. CASE \E g \in Identities : ReadIdentity(g)
    BY <1>4, ReadIdentityKeeps
  <1>5. CASE \E g \in HooksTried : ReadHook(g)
    BY <1>5, ReadHookKeeps, TriedAssumption
  <1>6. CASE \E g \in MailsTried : ReadMail(g)
    BY <1>6, ReadMailKeeps, TriedAssumption
  <1>7. CASE \E g \in Internals : ReadInternal(g)
    BY <1>7, ReadInternalKeeps
  <1>8. CASE \E kind \in Kinds, readable \in BOOLEAN : LoadKey(kind, readable)
    BY <1>8, LoadKeyKeeps
  <1>9. CASE \E kind \in Kinds : \E left \in {file[kind], NoKey, Draw(drawn + 1)} : KeyNotWritten(kind, left)
    BY <1>9, KeyNotWrittenKeeps
  <1>10. CASE SpawnLoops
    BY <1>10, SpawnLoopsKeeps
  <1>11. CASE BindInner \/ BindPublic
    BY <1>11, BindKeeps
  <1>12. CASE \E kind \in Kinds : Sign(kind)
    BY <1>12, SignKeeps
  <1>13. CASE \E kind \in Kinds : CutFile(kind)
    BY <1>13, CutFileKeeps
  <1>14. CASE UNCHANGED startVars
    BY <1>14 DEF startVars, StartInv, Shaped, Configured, Settled, Filed, Keyed
  <1> QED BY <1>1, <1>2, <1>3, <1>4, <1>5, <1>6, <1>7, <1>8, <1>9, <1>10, <1>11, <1>12, <1>13, <1>14
          DEF StartNext

\* At every moment of every start (main.rs, serve; AppState::new) what a step has
\* read is usable, what it decides follows from what it read, and the key files
\* are empty or hold a key that was drawn.
THEOREM StartIsSound == StartSpec => []StartInv
  <1> QED BY StartBegins, StartStepKeeps, PTL DEF StartSpec

\* A restart keeps the keys cookies and links were signed with, unless the key's
\* file was damaged, and the two purposes never share one (AppState::new, load_key).
THEOREM KeysSurviveRestarts == StartSpec => []KeysStay
  <1>1. StartInv => KeysStay
    <2> SUFFICES ASSUME StartInv, stage = "serving"
                 PROVE  /\ \A k \in Kinds \ hurt : signed[k] \subseteq {proc.key[k]}
                        /\ proc.key["cookie"].draw # proc.key["unsubscribe"].draw
      BY DEF KeysStay
    <2>1. \A k \in Kinds : proc.key[k] = file[k] /\ file[k] # NoKey
      BY DEF StartInv, Keyed, Kinds, Loaded, PastInner, PastLoops, PastKeys, PastCookie
    <2>2. {"cookie", "unsubscribe"} \subseteq Kinds
      BY DEF Kinds
    <2> QED BY <2>1, <2>2 DEF StartInv, Filed
  <1> QED BY <1>1, StartIsSound, PTL

-----------------------------------------------------------------------------
(* What Config::parse lets through.                                        *)

\* A slug list without a repetition has as many slugs as places.
LEMMA SlugsCount ==
  ASSUME NEW S, NEW slugs \in Seq(S), IsInjective(slugs)
  PROVE  Cardinality(Range(slugs)) = Len(slugs)
  <1>1. DOMAIN slugs = 1 .. Len(slugs) /\ Len(slugs) \in Nat
    OBVIOUS
  <1>2. slugs \in [1 .. Len(slugs) -> Range(slugs)]
    BY <1>1 DEF Range
  <1>3. slugs \in Injection(1 .. Len(slugs), Range(slugs))
    BY <1>2 DEF Injection
  <1>4. slugs \in Surjection(1 .. Len(slugs), Range(slugs))
    BY <1>1, <1>2 DEF Surjection, Range
  <1>5. /\ IsFiniteSet(1 .. Len(slugs))
        /\ Cardinality(1 .. Len(slugs)) = IF 1 > Len(slugs) THEN 0 ELSE Len(slugs) - 1 + 1
    BY <1>1, FS_Interval
  <1>6. Cardinality(Range(slugs)) = Cardinality(1 .. Len(slugs))
    BY <1>3, <1>4, <1>5, FS_Surjection
  <1> QED BY <1>1, <1>5, <1>6

\* The fields of a normalised text.
LEMMA NormalisedIs ==
  ASSUME NEW text \in Configs
  PROVE  /\ Normalised(text).timezone = text.timezone
         /\ Normalised(text).events = {Normalise(h) : h \in text.events}
         /\ Normalised(text).spaces =
              [i \in DOMAIN text.spaces |-> SpaceNormalised(text.spaces[i])]
  <1>1. text \in [timezone : {"none", "known", "unknown"}, spaces : Seq(SpaceTexts),
                  events : SUBSET HostTexts]
    BY ConfigsAssumption
  <1> DEFINE spaces == [i \in DOMAIN text.spaces |-> SpaceNormalised(text.spaces[i])]
             events == {Normalise(h) : h \in text.events}
  <1>2. Normalised(text) = [text EXCEPT !.events = events, !.spaces = spaces]
    BY DEF Normalised
  <1> HIDE DEF spaces, events
  <1>3. /\ Normalised(text).timezone = text.timezone
        /\ Normalised(text).events = events
        /\ Normalised(text).spaces = spaces
    BY <1>1, <1>2
  <1> QED BY <1>3 DEF spaces, events

\* A host that was normalised once stays as it is.
LEMMA NormalisedOnce ==
  ASSUME NEW h \in HostTexts
  PROVE  /\ Normalise(h) = [name |-> h.name, spelled |-> "plain"]
         /\ Normalise(Normalise(h)) = Normalise(h)
  <1>1. h = [name |-> h.name, spelled |-> h.spelled]
    BY DEF HostTexts
  <1>2. Normalise(h) = [name |-> h.name, spelled |-> "plain"]
    BY <1>1 DEF Normalise
  <1>3. Normalise([name |-> h.name, spelled |-> "plain"]) = [name |-> h.name, spelled |-> "plain"]
    BY DEF Normalise
  <1> QED BY <1>2, <1>3

\* What Config::parse takes is clear (config.rs).
LEMMA ParsedIsClear ==
  ASSUME Configured
  PROVE  ConfigIsClear
  <1>1. CASE stage = "down"
    <2>1. proc.config = [timezone |-> "none", spaces |-> <<>>, events |-> {}]
      BY <1>1 DEF Configured, Blank, NoConfig
    <2>2. DOMAIN proc.config.spaces = {} /\ proc.config.events = {} /\ proc.config.timezone = "none"
      BY <2>1
    <2> QED BY <2>2 DEF ConfigIsClear
  <1>2. CASE stage # "down"
    <2>1. PICK text \in Configs : Parses(text) /\ proc.config = Normalised(text)
      BY <1>2 DEF Configured
    <2> DEFINE c == Normalised(text)
    <2>2. /\ text \in [timezone : {"none", "known", "unknown"}, spaces : Seq(SpaceTexts),
                       events : SUBSET HostTexts]
          /\ DOMAIN c.spaces = DOMAIN text.spaces
          /\ \A i \in DOMAIN c.spaces :
               /\ text.spaces[i] \in SpaceTexts
               /\ c.spaces[i] = SpaceNormalised(text.spaces[i])
      <3>1. text \in [timezone : {"none", "known", "unknown"}, spaces : Seq(SpaceTexts),
                      events : SUBSET HostTexts]
        BY ConfigsAssumption
      <3>2. c.spaces = [i \in DOMAIN text.spaces |-> SpaceNormalised(text.spaces[i])]
        BY NormalisedIs
      <3>3. text.spaces \in Seq(SpaceTexts)
        BY <3>1
      <3> HIDE DEF c
      <3>4. DOMAIN c.spaces = DOMAIN text.spaces
        BY <3>2
      <3>5. \A i \in DOMAIN text.spaces : text.spaces[i] \in SpaceTexts
        BY <3>3
      <3>6. \A i \in DOMAIN text.spaces : c.spaces[i] = SpaceNormalised(text.spaces[i])
        BY <3>2
      <3> QED BY <3>1, <3>4, <3>5, <3>6
    <2>3. ASSUME NEW i \in DOMAIN c.spaces
          PROVE  /\ c.spaces[i].host = Normalise(text.spaces[i].host)
                 /\ Normalise(c.spaces[i].host) = c.spaces[i].host
                 /\ c.spaces[i].slugs \in Seq(Seq(STRING))
      <3>1. text.spaces[i] \in SpaceTexts /\ text.spaces[i].host \in HostTexts
        BY <2>2 DEF SpaceTexts
      <3>2. c.spaces[i].host = Normalise(text.spaces[i].host) /\ c.spaces[i].slugs = text.spaces[i].slugs
        BY <2>2, <3>1 DEF SpaceTexts, SpaceNormalised
      <3> QED BY <3>1, <3>2, NormalisedOnce DEF SpaceTexts
    <2>4. /\ c.timezone # "unknown"
          /\ \A i \in DOMAIN c.spaces : OwnerFits(c.spaces[i]) /\ SpaceFits(c.spaces[i])
          /\ c.events \subseteq Range(Hosts(c))
          /\ IsInjective(Hosts(c))
      BY <2>1 DEF Parses
    <2> HIDE DEF c
    <2>5. ASSUME NEW i \in DOMAIN c.spaces
          PROVE  SpacesForHost(c.spaces[i].host) = {i}
      <3>1. SpacesForHost(c.spaces[i].host) = {j \in DOMAIN c.spaces : c.spaces[j].host = c.spaces[i].host}
        BY <2>1, <2>3 DEF SpacesForHost, c
      <3>2. \A j \in DOMAIN c.spaces : c.spaces[j].host = c.spaces[i].host => j = i
        BY <2>4 DEF IsInjective, Hosts
      <3> QED BY <3>1, <3>2
    <2>6. ASSUME NEW i \in DOMAIN c.spaces
          PROVE  /\ c.spaces[i].read
                 /\ c.spaces[i].slugs # <<>>
                 /\ Cardinality(Range(c.spaces[i].slugs)) = Len(c.spaces[i].slugs)
                 /\ <<>> \notin Range(c.spaces[i].slugs)
                 /\ c.spaces[i].owner = "handle" => c.spaces[i].articles
      <3>1. OwnerFits(c.spaces[i]) /\ SpaceFits(c.spaces[i])
        BY <2>4
      <3>2. c.spaces[i].read /\ c.spaces[i].slugs # <<>> /\ IsInjective(c.spaces[i].slugs)
        BY <3>1 DEF SpaceFits
      <3>3. Cardinality(Range(c.spaces[i].slugs)) = Len(c.spaces[i].slugs)
        BY <2>3, <3>2, SlugsCount
      <3>4. <<>> \notin Range(c.spaces[i].slugs)
        BY <3>1 DEF SpaceFits, SlugIsUsable, Range
      <3>5. c.spaces[i].owner = "handle" => c.spaces[i].articles
        BY <3>1 DEF OwnerFits
      <3> QED BY <3>2, <3>3, <3>4, <3>5
    <2>7. ASSUME NEW h \in c.events
          PROVE  Cardinality(SpacesForHost(h)) = 1
      <3>1. PICK i \in DOMAIN c.spaces : h = c.spaces[i].host
        BY <2>4 DEF Range, Hosts
      <3> QED BY <2>5, <3>1, FS_Singleton
    <2> QED BY <2>1, <2>4, <2>5, <2>6, <2>7 DEF ConfigIsClear, c
  <1> QED BY <1>1, <1>2

\* "Every step here fails closed" (main.rs, serve): whatever is configured, treff
\* runs a loop or binds a port only when every file that is set was read and holds
\* something and nothing that is needed is missing, serves with what was set in force,
\* and takes no configuration that is ambiguous; three settings it takes unexamined are
\* named at the property.
THEOREM EveryStepFailsClosed == StartSpec => []StartKeepsItsWord
  <1>1. StartInv => StartKeepsItsWord
    <2> SUFFICES ASSUME StartInv PROVE StartKeepsItsWord
      OBVIOUS
    <2> USE DEF StartInv
    <2>1. ConfigIsClear
      BY ParsedIsClear
    <2>2. stage \in PastLoops =>
            /\ proc.config.spaces # <<>>
            /\ IdentityFits(proc.given.identity)
            /\ proc.given.webhook \in Hooks /\ HookFits(proc.given.webhook)
            /\ proc.given.mail \in Mails /\ MailFits(proc.given.mail)
            /\ proc.given.internal \in Internals /\ InternalFits(proc.given.internal)
      BY DEF Settled, PastInner, PastLoops, PastKeys, PastCookie, PastInternal, PastMail,
             PastHook, PastIdentity
    <2>3. proc.running # {} \/ proc.inner # "shut" \/ proc.public => stage \in PastLoops
      BY DEF Settled, PastInner, PastLoops
    <2> DEFINE identity == proc.given.identity
               hook == proc.given.webhook
               mail == proc.given.mail
               internal == proc.given.internal
    <2>4. ASSUME stage \in PastLoops
          PROVE  /\ proc.config.spaces # <<>>
                 /\ {identity.secret, hook.token, mail.password} \cup Range(internal.token)
                      \subseteq {"unset", "good"}
                 /\ identity.secret # "unset" /\ identity.issuer /\ identity.client
                 /\ hook.url # "other scheme"
                 /\ mail.host => mail.port /\ mail.from # "unset"
                 /\ SignsOn(mail) => mail.starttls
                 /\ internal.cert = internal.pair /\ internal.cert \in {"unset", "good"}
      <3>1. identity.secret = "good" /\ identity.issuer /\ identity.client
        BY <2>2, <2>4 DEF IdentityFits
      <3>2. hook.token \in {"unset", "good"} /\ hook.url # "other scheme"
        <4>1. CASE hook = NoHook
          BY <4>1 DEF NoHook
        <4>2. CASE hook \in [url : {"other scheme", "only the scheme", "good"}, token : File]
          <5>1. hook.url # "unset"
            BY <4>2
          <5> QED BY <2>2, <2>4, <5>1 DEF HookFits
        <4> QED BY <2>2, <2>4, <4>1, <4>2 DEF Hooks
      <3>3. mail.host => mail.port /\ mail.from # "unset"
        BY <2>2, <2>4 DEF MailFits
      <3>4. mail.password \in {"unset", "good"} /\ (SignsOn(mail) => mail.starttls)
        <4>1. CASE mail = NoMail
          <5>1. mail.password = "unset"
            BY <4>1 DEF NoMail
          <5> QED BY <5>1 DEF SignsOn
        <4>2. CASE mail \in [host : {TRUE}, port : BOOLEAN, from : {"unset", "not an address", "good"},
                             username : BOOLEAN, password : File, starttls : BOOLEAN]
          <5>1. mail.host = TRUE
            BY <4>2
          <5>2. mail.password \in {"unset", "good"} /\ (mail.starttls \/ mail.password = "unset")
            BY <2>2, <2>4, <5>1 DEF MailFits
          <5> QED BY <5>2 DEF SignsOn
        <4> QED BY <2>2, <2>4, <4>1, <4>2 DEF Mails
      <3>5. Range(internal.token) \subseteq {"unset", "good"}
        BY <2>2, <2>4 DEF Internals, InternalFits, Range
      <3>6. internal.cert = internal.pair /\ internal.cert \in {"unset", "good"}
        BY <2>2, <2>4 DEF InternalFits, TlsFits
      <3> HIDE DEF identity, hook, mail, internal
      <3> QED BY <2>2, <2>4, <3>1, <3>2, <3>3, <3>4, <3>5, <3>6
    <2>5. ASSUME stage = "serving"
          PROVE  /\ proc.open = {r \in Routes : proc.given.internal.token[r] # "unset"}
                 /\ proc.inner = "tls" <=> proc.given.internal.cert # "unset"
                 /\ proc.inner = "tls" <=> proc.given.internal.pair # "unset"
                 /\ "mail" \in proc.running <=> proc.given.mail.host
                 /\ "webhook" \in proc.running <=> proc.given.webhook.url # "unset"
      <3> DEFINE g == proc.given.internal
      <3>1. /\ InternalFits(g)
            /\ proc.internal = [tokens |-> TokensSet(g), tls |-> TlsSet(g), listen |-> g.listen]
            /\ proc.inner = IF proc.internal.listen THEN Speaks(proc.internal) ELSE "shut"
            /\ proc.open = IF proc.internal.listen THEN proc.internal.tokens ELSE {}
        BY <2>5 DEF Settled, PastInner, PastLoops, PastKeys, PastCookie, PastInternal
      <3>2. proc.open = {r \in Routes : proc.given.internal.token[r] # "unset"}
        BY <3>1 DEF InternalFits, TokensSet
      <3>3. /\ proc.inner = "tls" <=> proc.given.internal.cert # "unset"
            /\ proc.inner = "tls" <=> proc.given.internal.pair # "unset"
        <4>1. /\ g.cert = g.pair /\ proc.internal.tls = TlsSet(g) /\ proc.internal.listen = g.listen
              /\ TlsSet(g) => g.listen
          BY <3>1 DEF InternalFits, TlsFits
        <4>2. TlsSet(g) <=> g.cert # "unset"
          BY <4>1 DEF TlsSet
        <4>3. proc.inner = "tls" <=> TlsSet(g)
          BY <3>1, <4>1 DEF Speaks
        <4> QED BY <4>1, <4>2, <4>3
      <3>4. proc.running = {"purge"} \cup (IF proc.given.mail.host THEN {"mail"} ELSE {})
                             \cup (IF proc.given.webhook.url # "unset" THEN {"webhook"} ELSE {})
        BY <2>5 DEF Settled, PastInner, PastLoops
      <3> QED BY <3>2, <3>3, <3>4
    <2> QED BY <2>1, <2>3, <2>4, <2>5 DEF StartKeepsItsWord
  <1> QED BY <1>1, StartIsSound, PTL

-----------------------------------------------------------------------------
(* The internal door: module Front's second half.                          *)

GateSpec == GateInit /\ [][GateNext]_gateVars

\* The door is what it was opened as, every answer was given at this door, and
\* what is stored passed the checks, once.
GateInv ==
  /\ door = [tokens |-> door.tokens, events |-> door.events]
  /\ door.tokens \in [{"events", "bell", "scim"} -> SUBSET Seq(0 .. 255)]
  /\ heard.route # "none" =>
       /\ heard.route \in DOMAIN door.tokens
       /\ heard.answer = 404 <=> door.tokens[heard.route] = {}
       /\ heard.answer \notin {401, 404} <=> heard.scheme = "Bearer" /\ heard.bearer \in door.tokens[heard.route]
       /\ heard.logged <=> heard.answer = 401
  /\ taken # {} => door.tokens["events"] # {} /\ door.events
  /\ \A e \in taken : Checked(e)
  /\ \A e, f \in taken : e.source_key = f.source_key /\ e.kind = f.kind => e = f

\* internal.rs, presents: the constant-time comparison is equality.
LEMMA PresentsIsEqual ==
  ASSUME NEW scheme, NEW bearer \in Seq(0 .. 255), NEW token \in Seq(0 .. 255)
  PROVE  Presents(scheme, bearer, token) <=> scheme = "Bearer" /\ bearer = token
  BY DEF Presents

\* A request is refused exactly if its route is not there or its bearer is not the
\* route's token.
LEMMA RefusesIs ==
  ASSUME GateInv, NEW route \in DOMAIN door.tokens, NEW scheme, NEW bearer \in Tokens
  PROVE  /\ Refuses(route, scheme, bearer) \in {0, 401, 404}
         /\ Refuses(route, scheme, bearer) = 404 <=> door.tokens[route] = {}
         /\ Refuses(route, scheme, bearer) = 0 <=> scheme = "Bearer" /\ bearer \in door.tokens[route]
  <1>1. door.tokens[route] \subseteq Seq(0 .. 255) /\ bearer \in Seq(0 .. 255)
    BY TokensAssumption DEF GateInv
  <1>2. (\E t \in door.tokens[route] : Presents(scheme, bearer, t))
           <=> scheme = "Bearer" /\ bearer \in door.tokens[route]
    BY <1>1, PresentsIsEqual
  <1> QED BY <1>2 DEF Refuses

\* What is said about the last answer, from what the answer was.
LEMMA AnswerIs ==
  ASSUME NEW route \in DOMAIN door.tokens, route # "none", NEW scheme, NEW bearer, NEW code,
         Answer(route, scheme, bearer, code), UNCHANGED door,
         code = 404 <=> door.tokens[route] = {},
         code \notin {401, 404} <=> scheme = "Bearer" /\ bearer \in door.tokens[route]
  PROVE  /\ heard'.route \in DOMAIN door'.tokens
         /\ heard'.answer = 404 <=> door'.tokens[heard'.route] = {}
         /\ heard'.answer \notin {401, 404} <=>
              heard'.scheme = "Bearer" /\ heard'.bearer \in door'.tokens[heard'.route]
         /\ heard'.logged <=> heard'.answer = 401
  <1>1. /\ heard'.route = route /\ heard'.answer = code
        /\ heard'.scheme = scheme /\ heard'.bearer = bearer
        /\ heard'.logged <=> code = 401
    BY DEF Answer
  <1> QED BY <1>1

LEMMA GateStepKeeps == GateInv /\ [GateNext]_gateVars => GateInv'
  <1> SUFFICES ASSUME GateInv, [GateNext]_gateVars PROVE GateInv'
    OBVIOUS
  <1>1. DOMAIN door.tokens = {"events", "bell", "scim"}
    BY DEF GateInv
  <1>2. ASSUME NEW scheme, NEW bearer \in Tokens, NEW route \in DOMAIN door.tokens,
               TurnAway(route, scheme, bearer)
        PROVE  GateInv'
    <2>1. /\ Answer(route, scheme, bearer, Refuses(route, scheme, bearer))
          /\ Refuses(route, scheme, bearer) # 0 /\ UNCHANGED <<door, taken>>
      BY <1>2 DEF TurnAway
    <2>2. route # "none"
      BY <1>1
    <2> DEFINE code == Refuses(route, scheme, bearer)
    <2>3. /\ code = 404 <=> door.tokens[route] = {}
          /\ code \notin {401, 404} <=> scheme = "Bearer" /\ bearer \in door.tokens[route]
      BY <2>1, RefusesIs
    <2> HIDE DEF code
    <2>4. Answer(route, scheme, bearer, code)
      BY <2>1 DEF code
    <2> QED BY <2>1, <2>2, <2>3, <2>4, AnswerIs DEF GateInv
  <1>3. ASSUME NEW scheme, NEW bearer \in Tokens, NEW route \in DOMAIN door.tokens,
               LetIn(route, scheme, bearer)
        PROVE  GateInv'
    <2>1. /\ Answer(route, scheme, bearer, 200)
          /\ Refuses(route, scheme, bearer) = 0 /\ UNCHANGED <<door, taken>>
      BY <1>3 DEF LetIn
    <2>2. /\ route # "none" /\ door.tokens[route] # {}
          /\ scheme = "Bearer" /\ bearer \in door.tokens[route]
      BY <1>1, <2>1, RefusesIs
    <2> QED BY <2>1, <2>2, AnswerIs DEF GateInv
  <1>4. ASSUME NEW scheme, NEW bearer \in Tokens, NEW event \in Events, TakeEvent(scheme, bearer, event)
        PROVE  GateInv'
    <2> DEFINE known == \E e \in taken : e.source_key = event.source_key /\ e.kind = event.kind
               code == IF ~door.events THEN 503 ELSE IF ~Checked(event) THEN 400
                       ELSE IF known THEN 200 ELSE 201
    <2>1. /\ Refuses("events", scheme, bearer) = 0
          /\ taken' = IF door.events /\ Checked(event) /\ ~known THEN taken \cup {event} ELSE taken
          /\ Answer("events", scheme, bearer, code)
          /\ UNCHANGED door
      BY <1>4 DEF TakeEvent
    <2>2. code \notin {401, 404}
      OBVIOUS
    <2>3. /\ "events" \in DOMAIN door.tokens /\ door.tokens["events"] # {}
          /\ scheme = "Bearer" /\ bearer \in door.tokens["events"]
      BY <1>1, <2>1, RefusesIs
    <2> HIDE DEF code
    <2>4. /\ heard'.route \in DOMAIN door'.tokens
          /\ heard'.answer = 404 <=> door'.tokens[heard'.route] = {}
          /\ heard'.answer \notin {401, 404} <=>
               heard'.scheme = "Bearer" /\ heard'.bearer \in door'.tokens[heard'.route]
          /\ heard'.logged <=> heard'.answer = 401
      BY <2>1, <2>2, <2>3, AnswerIs
    <2>5. taken' # {} => door'.tokens["events"] # {} /\ door'.events
      BY <2>1, <2>3 DEF GateInv
    <2>6. \A e \in taken' : Checked(e)
      BY <2>1 DEF GateInv
    <2>7. \A e, f \in taken' : e.source_key = f.source_key /\ e.kind = f.kind => e = f
      BY <2>1 DEF GateInv
    <2>8. /\ door' = [tokens |-> door'.tokens, events |-> door'.events]
          /\ door'.tokens \in [{"events", "bell", "scim"} -> SUBSET Seq(0 .. 255)]
      BY <2>1 DEF GateInv
    <2>9. (\A e \in taken : Checked(e))'
      BY <2>6 DEF Checked, CheckedLink, OneLine
    <2> QED BY <2>4, <2>5, <2>7, <2>8, <2>9 DEF GateInv
  <1>5. CASE UNCHANGED gateVars
    BY <1>5 DEF gateVars, GateInv, Checked, CheckedLink, OneLine
  <1> QED BY <1>2, <1>3, <1>4, <1>5 DEF GateNext

\* A token opens its route and no other, whatever tokens are set and sent; a wrong
\* one is logged; and what is stored came through an events door with a space to go
\* to, once, and leads to an allowed host (internal.rs, presents and take_event).
THEOREM TokensOpenTheirDoors == GateSpec => []TokenOpensItsDoor
  <1>1. GateInit => GateInv
    <2> SUFFICES ASSUME GateInit PROVE GateInv
      OBVIOUS
    <2>1. door \in [tokens : Senders, events : BOOLEAN] /\ heard = NoRequest /\ taken = {}
      BY DEF GateInit
    <2>2. heard.route = "none"
      BY <2>1 DEF NoRequest
    <2>3. /\ door = [tokens |-> door.tokens, events |-> door.events]
          /\ door.tokens \in [{"events", "bell", "scim"} -> SUBSET Seq(0 .. 255)]
      BY <2>1, TokensAssumption
    <2> QED BY <2>1, <2>2, <2>3 DEF GateInv
  <1>2. GateInv => TokenOpensItsDoor
    BY DEF GateInv, TokenOpensItsDoor, Checked, CheckedLink
  <1> QED BY <1>1, <1>2, GateStepKeeps, PTL DEF GateSpec

-----------------------------------------------------------------------------
(* The handshakes: module Front's first half.                              *)

TlsSpec == TlsInit /\ [][TlsNext]_tlsVars

\* No more connections than there are places are between accept and the channel,
\* and no more than that are in it.
PlacesAreKept ==
  /\ SlotsTaken <= HANDSHAKES
  /\ Len(ready) <= HANDSHAKES

TlsInv ==
  /\ conn = [c \in Callers |-> conn[c]]
  /\ {kernel, sending, ready} \subseteq Seq(Callers)
  /\ acceptor \in {"acquiring", "accepting", "waiting"}
  /\ IsFiniteSet(Shaking)
  /\ PlacesAreKept

\* What the set of handshakes may become keeps the places, if the rest makes room.
LEMMA ShakingKeeps ==
  ASSUME TlsInv, NEW c, Shaking' \subseteq Shaking \cup {c}
  PROVE  /\ IsFiniteSet(Shaking') /\ Cardinality(Shaking') \in Nat /\ Cardinality(Shaking) \in Nat
         /\ Cardinality(Shaking') <= Cardinality(Shaking) + 1
         /\ Shaking' \subseteq Shaking => Cardinality(Shaking') <= Cardinality(Shaking)
         /\ c \in Shaking /\ Shaking' = Shaking \ {c} => Cardinality(Shaking') = Cardinality(Shaking) - 1
  <1>1. IsFiniteSet(Shaking) /\ Cardinality(Shaking) \in Nat
    BY FS_CardinalityType DEF TlsInv
  <1>2. /\ IsFiniteSet(Shaking \cup {c})
        /\ Cardinality(Shaking \cup {c}) =
             IF c \in Shaking THEN Cardinality(Shaking) ELSE Cardinality(Shaking) + 1
    BY <1>1, FS_AddElement
  <1>3. IsFiniteSet(Shaking') /\ Cardinality(Shaking') <= Cardinality(Shaking \cup {c})
    BY <1>2, FS_Subset
  <1>4. Cardinality(Shaking') \in Nat
    BY <1>3, FS_CardinalityType
  <1>5. Shaking' \subseteq Shaking => Cardinality(Shaking') <= Cardinality(Shaking)
    BY <1>1, FS_Subset
  <1>6. Cardinality(Shaking \ {c}) = IF c \in Shaking THEN Cardinality(Shaking) - 1 ELSE Cardinality(Shaking)
    BY <1>1, FS_RemoveElement
  <1>7. ASSUME c \in Shaking, Shaking' = Shaking \ {c}
        PROVE  Cardinality(Shaking') = Cardinality(Shaking) - 1
    BY <1>6, <1>7
  <1>8. Cardinality(Shaking') <= Cardinality(Shaking) + 1
    BY <1>1, <1>2, <1>3, <1>4
  <1> QED BY <1>1, <1>3, <1>4, <1>5, <1>7, <1>8

LEMMA TlsStepKeeps == TlsInv /\ [TlsNext]_tlsVars => TlsInv'
  <1> SUFFICES ASSUME TlsInv, [TlsNext]_tlsVars PROVE TlsInv'
    OBVIOUS
  <1> USE HandshakesAssumption
  <1> DEFINE busy(a) == IF a = "acquiring" THEN 0 ELSE 1
  <1>1. /\ kernel \in Seq(Callers) /\ sending \in Seq(Callers) /\ ready \in Seq(Callers)
        /\ Len(sending) \in Nat /\ Len(ready) \in Nat /\ Cardinality(Shaking) \in Nat
        /\ Cardinality(Shaking) + Len(sending) + busy(acceptor) <= HANDSHAKES
        /\ Len(ready) <= HANDSHAKES
    BY FS_CardinalityType DEF TlsInv, PlacesAreKept, SlotsTaken
  <1>2. \A c \in Callers : \A v :
          /\ [conn EXCEPT ![c] = v] = [d \in Callers |-> [conn EXCEPT ![c] = v][d]]
          /\ [conn EXCEPT ![c] = v][c] = v
          /\ \A d \in Callers : d # c => [conn EXCEPT ![c] = v][d] = conn[d]
    BY DEF TlsInv
  <1>3. ASSUME conn' = [d \in Callers |-> conn'[d]],
               kernel' \in Seq(Callers), sending' \in Seq(Callers), ready' \in Seq(Callers),
               acceptor' \in {"acquiring", "accepting", "waiting"}, IsFiniteSet(Shaking'),
               Cardinality(Shaking') + Len(sending') + busy(acceptor') <= HANDSHAKES,
               Len(ready') <= HANDSHAKES
        PROVE  TlsInv'
    <2>1. (SlotsTaken <= HANDSHAKES)'
      BY <1>3 DEF SlotsTaken
    <2> QED BY <1>3, <2>1 DEF TlsInv, PlacesAreKept
  <1>4. ASSUME NEW c \in Callers, Connect(c) \/ NoHandshake(c) \/ TimesOut(c) \/ Leaves(c) PROVE TlsInv'
    <2>1. PICK v \in {"queued", "dropped", "away"} :
            /\ conn' = [conn EXCEPT ![c] = v]
            /\ kernel' \in Seq(Callers) /\ UNCHANGED <<acceptor, sending, ready>>
      <3>1. CASE Connect(c)
        <4>1. kernel' = Append(kernel, c) /\ conn' = [conn EXCEPT ![c] = "queued"]
          BY <3>1 DEF Connect
        <4> QED BY <1>1, <3>1, <4>1 DEF Connect
      <3>2. CASE NoHandshake(c) \/ TimesOut(c)
        BY <1>1, <3>2 DEF NoHandshake, TimesOut
      <3>3. CASE Leaves(c)
        BY <1>1, <3>3 DEF Leaves
      <3> QED BY <1>4, <3>1, <3>2, <3>3
    <2>2. Shaking' \subseteq Shaking
      BY <1>2, <2>1 DEF Shaking
    <2>3. IsFiniteSet(Shaking') /\ Cardinality(Shaking') \in Nat /\ Cardinality(Shaking') <= Cardinality(Shaking)
      BY <2>2, ShakingKeeps
    <2>4. conn' = [d \in Callers |-> conn'[d]]
      BY <1>2, <2>1
    <2>5. Cardinality(Shaking') + Len(sending') + busy(acceptor') <= HANDSHAKES
      BY <1>1, <2>1, <2>3
    <2> QED BY <1>1, <1>3, <2>1, <2>3, <2>4, <2>5 DEF TlsInv
  <1>5. ASSUME Acquire \/ AcceptFails \/ WaitedOut PROVE TlsInv'
    <2>1. UNCHANGED <<conn, kernel, sending, ready>>
      BY <1>5 DEF Acquire, AcceptFails, WaitedOut
    <2>2. Shaking' = Shaking
      BY <2>1 DEF Shaking
    <2>3. acceptor' \in {"acquiring", "accepting", "waiting"}
      BY <1>5 DEF Acquire, AcceptFails, WaitedOut
    <2>4. Cardinality(Shaking) + Len(sending) + busy(acceptor') <= HANDSHAKES
      <3>1. CASE Acquire
        BY <1>1, <3>1 DEF Acquire, SlotsTaken
      <3>2. CASE AcceptFails
        BY <1>1, <3>2 DEF AcceptFails
      <3>3. CASE WaitedOut
        BY <1>1, <3>3 DEF WaitedOut
      <3> QED BY <1>5, <3>1, <3>2, <3>3
    <2> QED BY <1>1, <1>3, <2>1, <2>2, <2>3, <2>4 DEF TlsInv
  <1>6. ASSUME Accept \/ AcceptBroken PROVE TlsInv'
    <2>1. /\ acceptor = "accepting" /\ acceptor' = "acquiring" /\ kernel # <<>>
          /\ kernel' = Tail(kernel) /\ UNCHANGED <<sending, ready>>
      BY <1>6 DEF Accept, AcceptBroken
    <2>2. Head(kernel) \in Callers /\ kernel' \in Seq(Callers)
      BY <1>1, <2>1
    <2>3. PICK v : conn' = [conn EXCEPT ![Head(kernel)] = v]
      BY <1>6 DEF Accept, AcceptBroken
    <2>4. Shaking' \subseteq Shaking \cup {Head(kernel)}
      BY <1>2, <2>2, <2>3 DEF Shaking
    <2>5. /\ IsFiniteSet(Shaking') /\ Cardinality(Shaking') \in Nat
          /\ Cardinality(Shaking') <= Cardinality(Shaking) + 1
      BY <2>4, ShakingKeeps
    <2>6. conn' = [d \in Callers |-> conn'[d]]
      BY <1>2, <2>2, <2>3
    <2>7. Cardinality(Shaking') + Len(sending') + busy(acceptor') <= HANDSHAKES
      BY <1>1, <2>1, <2>5
    <2> QED BY <1>1, <1>3, <2>1, <2>2, <2>5, <2>6, <2>7
  <1>7. ASSUME NEW c \in Callers, ShakesHands(c) PROVE TlsInv'
    <2>1. /\ conn[c] = "shaking" /\ conn' = [conn EXCEPT ![c] = "sending"]
          /\ sending' = Append(sending, c) /\ UNCHANGED <<kernel, acceptor, ready>>
      BY <1>7 DEF ShakesHands
    <2>2. c \in Shaking /\ Shaking' = Shaking \ {c}
      BY <1>2, <2>1 DEF Shaking
    <2>3. IsFiniteSet(Shaking') /\ Cardinality(Shaking') = Cardinality(Shaking) - 1
      BY <2>2, ShakingKeeps
    <2>4. sending' \in Seq(Callers) /\ Len(sending') = Len(sending) + 1
      BY <1>1, <2>1
    <2>5. conn' = [d \in Callers |-> conn'[d]]
      BY <1>2, <2>1
    <2>6. Cardinality(Shaking') + Len(sending') + busy(acceptor') <= HANDSHAKES
      BY <1>1, <2>1, <2>3, <2>4
    <2> QED BY <1>1, <1>3, <2>1, <2>3, <2>4, <2>5, <2>6 DEF TlsInv
  <1>8. ASSUME Send \/ AxumAccepts PROVE TlsInv'
    <2>1. PICK c \in Callers, v \in {"ready", "served"} : conn' = [conn EXCEPT ![c] = v]
      <3>1. CASE Send
        <4>1. Head(sending) \in Callers /\ conn' = [conn EXCEPT ![Head(sending)] = "ready"]
          BY <1>1, <3>1 DEF Send
        <4> QED BY <4>1
      <3>2. CASE AxumAccepts
        <4>1. Head(ready) \in Callers /\ conn' = [conn EXCEPT ![Head(ready)] = "served"]
          BY <1>1, <3>2 DEF AxumAccepts
        <4> QED BY <4>1
      <3> QED BY <1>8, <3>1, <3>2
    <2>2. Shaking' \subseteq Shaking
      BY <1>2, <2>1 DEF Shaking
    <2>3. IsFiniteSet(Shaking') /\ Cardinality(Shaking') \in Nat /\ Cardinality(Shaking') <= Cardinality(Shaking)
      BY <2>2, ShakingKeeps
    <2>4. conn' = [d \in Callers |-> conn'[d]]
      BY <1>2, <2>1
    <2>5. /\ UNCHANGED <<kernel, acceptor>>
          /\ sending' \in Seq(Callers) /\ Len(sending') \in Nat /\ Len(sending') <= Len(sending)
          /\ ready' \in Seq(Callers) /\ Len(ready') <= HANDSHAKES
      <3>1. CASE Send
        BY <1>1, <3>1 DEF Send
      <3>2. CASE AxumAccepts
        BY <1>1, <3>2 DEF AxumAccepts
      <3> QED BY <1>8, <3>1, <3>2
    <2>6. Cardinality(Shaking') + Len(sending') + busy(acceptor') <= HANDSHAKES
      BY <1>1, <2>3, <2>5
    <2> QED BY <1>1, <1>3, <2>3, <2>4, <2>5, <2>6 DEF TlsInv
  <1>9. CASE UNCHANGED tlsVars
    BY <1>9 DEF tlsVars, TlsInv, PlacesAreKept, SlotsTaken, Shaking
  <1> QED BY <1>4, <1>5, <1>6, <1>7, <1>8, <1>9 DEF TlsNext

\* However many callers come and however they speak, no more than HANDSHAKES
\* connections are between accept and the channel to axum, and no more in it: no
\* place is taken twice or given away by an accept that fails, a handshake that
\* hangs or a send that waits (web/tls.rs, accept_forever).
THEOREM PlacesAreNeverOversold == TlsSpec => []PlacesAreKept
  <1>1. TlsInit => TlsInv
    <2> SUFFICES ASSUME TlsInit PROVE TlsInv
      OBVIOUS
    <2>1. Shaking = {} /\ IsFiniteSet(Shaking) /\ Cardinality(Shaking) = 0
      <3>1. Shaking = {}
        BY DEF TlsInit, Shaking
      <3> QED BY <3>1, FS_EmptySet
    <2> QED BY <2>1, HandshakesAssumption DEF TlsInit, TlsInv, PlacesAreKept, SlotsTaken
  <1>2. TlsInv => PlacesAreKept
    BY DEF TlsInv
  <1> QED BY <1>1, <1>2, TlsStepKeeps, PTL DEF TlsSpec
===============================================================================
