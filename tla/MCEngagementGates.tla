---------------------------- MODULE MCEngagementGates ------------------------
(***************************************************************************)
(* A small deployment of EngagementGates for TLC.                          *)
(***************************************************************************)
EXTENDS EngagementGates

CONSTANTS p1, c1, g1, g2, u1, q1, q2

\* p1 is the cron process; requests are served by the API process.
ApiAndCron == [a \in {p1, c1} |-> IF a = p1 THEN "cron" ELSE "api"]

\* Each operation on one of two gates; a name is verified where no condition is.
SomeOps == {<<"update", g2>>, <<"delete", g2>>, <<"verify", g2>>, <<"consume", g1>>}

\* Each gate has a post of its own; g2 has conditions until an update drops them
\* and opens it to every mention.
OwnPosts ==
    [g \in {g1, g2} |-> [post |-> IF g = g1 THEN q1 ELSE q2, requires |-> g = g2,
                         verifyOnly |-> FALSE]]
Opened ==
    [g \in {g1, g2} |-> IF g = g1 THEN {}
       ELSE {[post |-> None, requires |-> FALSE, verifyOnly |-> FALSE]}]
=============================================================================
