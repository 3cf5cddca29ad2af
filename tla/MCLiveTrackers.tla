--------------------------- MODULE MCLiveTrackers ---------------------------
(* Two cars, and the two orders of a Subscribe answer that differ for the    *)
(* trackers: the session status before the timing data, and after it.        *)
EXTENDS LiveTrackers

CONSTANTS c1, c2

MCCars == {c1, c2}
MCTopics == <<"TimingStats", "RaceControlMessages">>
MCOrders == {first \o SelectSeq(MCTopics, LAMBDA topic : topic \in some) :
               first \in {<<"SessionStatus", "TimingData">>, <<"TimingData", "SessionStatus">>},
               some \in SUBSET ToSet(MCTopics)}
==============================================================================
