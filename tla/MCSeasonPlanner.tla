-------------------------- MODULE MCSeasonPlanner --------------------------
EXTENDS SeasonPlanner

(* A test event; a first event that the index does not list, or lists      *)
(* without a number; a second event, over when it is first seen, with a    *)
(* session that is not usable.                                             *)
One(key, start, end) ==
    [key |-> key, usable |-> TRUE, start |-> start, end |-> end]

MCTest == [event |-> "test", numbered |-> TRUE,
           sessions |-> <<One("race", 0, 1)>>]
MCFirst == [event |-> "first", numbered |-> TRUE,
            sessions |-> <<One("race", 0, 1)>>]
MCUnnumbered == [MCFirst EXCEPT !.numbered = FALSE]
MCSecond == [event |-> "second", numbered |-> TRUE,
             sessions |-> <<[One("race", 0, 0) EXCEPT !.usable = FALSE],
                            One("race", -1, 0)>>]

MCMeeting == {MCTest, MCFirst, MCUnnumbered, MCSecond}
MCCalendar == {MCTest, MCSecond}
MCOrder == [e \in {"first", "second"} |-> IF e = "first" THEN 1 ELSE 2]
MCStartAt == [e \in {"first", "second"} |-> IF e = "first" THEN 1 ELSE 0]
=============================================================================
