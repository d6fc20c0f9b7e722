------------------------------- MODULE MCDesk -------------------------------
(* Two people and two spaces: a forum both read, with one section one of   *)
(* them may only reply in, and a timeline only p1 reads.  The second topic *)
(* is in a section the configuration no longer has.                        *)
EXTENDS Pages

CONSTANTS p1, p2, a, b, news, talk, old, all, few

MCOrder == <<a, b>>
MCGroups == [x \in Person |-> IF x = p1 THEN {all, few} ELSE {all}]
MCRead == [s \in Space |-> IF s = a THEN {all} ELSE {few}]
MCReaders == [s \in Space |-> {x \in Person : MayRead(x, s)}]
MCSections == [s \in Space |-> IF s = a THEN <<news, talk>> ELSE <<news>>]
MCPost == [c \in {news, talk} |-> IF c = news THEN {few} ELSE {all}]
MCAnswer == [c \in {news, talk} |-> IF c = news THEN {all} ELSE {few}]
MCFiled == [n \in 0 .. MaxPosts |-> CASE n = 0 -> news [] n = 1 -> old [] OTHER -> talk]
MCHasWord == [posts |-> {0, 1, 2}, titles |-> {2}]
=============================================================================
