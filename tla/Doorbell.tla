------------------------------ MODULE Doorbell ------------------------------
(***************************************************************************)
(* What the live bell promises the rest of treff (live.rs: bell_stream;    *)
(* db/mod.rs: changed), without its channel, its timers and its queries:   *)
(* whoever announces a change rings at every open stream, a ring is never  *)
(* absorbed by an answer that was already being worked out, and a stream   *)
(* that is rung, or has been quiet for a while, asks again.                *)
(***************************************************************************)
CONSTANT Stream

VARIABLES
  open,      \* streams somebody watches
  rung,      \* those that have a ring to answer
  asking     \* those that work out an answer

doorVars == <<open, rung, asking>>

\* The first answer is worked out without waiting for a ring.
Open(s) ==
  /\ s \notin open
  /\ open' = open \cup {s} /\ asking' = asking \cup {s}
  /\ UNCHANGED rung

Ring == rung' = open /\ UNCHANGED <<open, asking>>

\* One ring may stand for several, and nobody need have rung.
Ask(s) ==
  /\ s \in open \ asking
  /\ asking' = asking \cup {s}
  /\ rung' \in {rung, rung \ {s}}
  /\ UNCHANGED open

Answer(s) ==
  /\ s \in asking
  /\ asking' = asking \ {s}
  /\ UNCHANGED <<open, rung>>

Close(s) ==
  /\ s \in open
  /\ open' = open \ {s} /\ rung' = rung \ {s} /\ asking' = asking \ {s}

DoorInit == open = {} /\ rung = {} /\ asking = {}

DoorNext == Ring \/ \E s \in Stream : Open(s) \/ Ask(s) \/ Answer(s) \/ Close(s)

DoorSpec ==
  /\ DoorInit /\ [][DoorNext]_doorVars
  /\ \A s \in Stream : WF_doorVars(Ask(s) \/ Answer(s))
=============================================================================
