------------------------------- MODULE MCLive -------------------------------
(* One stream at the forum's door, one at either: a person's second stream *)
(* meets the first, or watches beside it.                                  *)
EXTENDS Live

CONSTANTS h1, s1, s2

MCFoldOf == [n \in Name |-> h1]
MCDoors == [s \in Stream |-> IF s = s1 THEN {"forum"} ELSE {"forum", "start"}]
=============================================================================
