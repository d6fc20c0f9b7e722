------------------------------- MODULE Mailing -------------------------------
(***************************************************************************)
(* What the outbox promises the board (0005_outbox.sql; db/outbox.rs;      *)
(* notify/mod.rs: drain_channel), without row numbers, batches, attempts   *)
(* and loops.  A matter is what somebody is owed: a person, the moment the *)
(* post was written, a channel.  It is entered once; a loop takes it only  *)
(* while it waits; it is settled only once it was answered, by whoever     *)
(* took it; and it leaves the ledger only with its post.                   *)
(*                                                                         *)
(* One thing the table cannot promise: a row that gets the number of a row *)
(* somebody is still working on is marked in its place.  Its matter is     *)
(* astray, and that happens only while a withdrawn matter is in hand.      *)
(***************************************************************************)
EXTENDS Naturals

VARIABLES
  now,       \* the moment that comes next
  alive,     \* the moments at which the posts that are there were written
  ledger,    \* matter and mark: owed, settled, hopeless or astray
  inHand,    \* the matters a loop has taken and not put back
  answered   \* the matters handed over, or found to have nothing to send

mailVars == <<now, alive, ledger, inHand, answered>>

Entered == {e[1] : e \in ledger}
Waiting == {e[1] : e \in {f \in ledger : f[2] \in {"owed", "astray"}}}

MailInit ==
  now = 0 /\ alive = {} /\ ledger = {} /\ inHand = {} /\ answered = {}

\* A post is written, or somebody new is named in one: what is entered is new,
\* and was never answered before.
Owe(born) ==
  /\ UNCHANGED <<inHand, answered>>
  /\ now' = IF born = now THEN now + 1 ELSE now
  /\ alive' = alive \cup {born}
  /\ ledger \subseteq ledger'
  /\ \A e \in ledger' \ ledger :
       /\ e[1][2] = born /\ e[1] \notin Entered \cup answered
       /\ e[2] \in {"owed", "astray"}
       /\ e[2] = "astray" => \E m \in inHand : m[2] \notin alive

\* Posts go, and what is entered about them.
Withdraw ==
  /\ UNCHANGED <<now, inHand, answered>>
  /\ alive' \subseteq alive
  /\ ledger' = {e \in ledger : e[1][2] \in alive'}

\* A loop takes what waits, and puts back what it has not come to.
Hold ==
  /\ answered' = answered
  /\ inHand' \ inHand \subseteq Waiting

\* Handing over, or finding nothing to hand over, leaves no trace in the ledger.
Answer ==
  /\ inHand' = inHand
  /\ \E m \in inHand : answered' = answered \cup {m}

\* What is owed gets its mark, and is put back.
Mark(m, mark) ==
  /\ UNCHANGED <<now, alive, answered>>
  /\ inHand' = inHand \ {m}
  /\ ledger' = {IF e = <<m, "owed">> THEN <<m, mark>> ELSE e : e \in ledger}

MailNext ==
  \/ UNCHANGED <<now, alive, ledger>> /\ (Hold \/ Answer)
  \/ Withdraw
  \/ \E born \in alive \cup {now} : Owe(born)
  \/ \E m \in inHand : Mark(m, "hopeless")
  \/ \E m \in inHand \cap answered : Mark(m, "settled")

MailSpec == MailInit /\ [][MailNext]_mailVars
=============================================================================
