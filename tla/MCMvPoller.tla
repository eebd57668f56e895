------------------------------- MODULE MCMvPoller -------------------------------
(* Two hosts, one of them with race control talking of two cars, and one   *)
(* driver more than there is room for.  Both boards' timing in ticks of two *)
(* seconds; the M4's backoff and the flags' timeout are shortened.          *)
EXTENDS MvPoller, TLC

CONSTANTS h1, h2, d1, d2, reserve, nobody, nowhere, blank, malformed, garbled

MCHosts   == {h1, h2}
MCDrivers == {d1, d2}
MCLineup  == <<reserve, d1, d2>>
MCTrackOf == h1 :> "AllClear" @@ h2 :> "Red"
MCLapsOf  == h1 :> [CurrentLap |-> 3, TotalLaps |-> 9] @@ h2 :> [CurrentLap |-> 7]

MCMessages == h1 :> 2 @@ h2 :> 0

Slow == {"DriverList", "RaceControlMessages"}
S3 == [fastInterval |-> 1, slowInterval |-> 2, backoff |-> 2, keepAlive |-> TRUE,
       fastTopics |-> Topics \ Slow, slowTopics |-> Slow]
M4 == [fastInterval |-> 1, slowInterval |-> 1, backoff |-> 3, keepAlive |-> FALSE,
       fastTopics |-> Topics, slowTopics |-> {}]
MCConfigs == {S3, M4}
================================================================================
