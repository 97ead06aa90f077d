----------------------------- MODULE MCEviction ------------------------------
(* Two nodes of two keys each, three keys and five requests that share them. *)
EXTENDS Eviction

MCRequests == 1..5
MCPrefix   == << <<1, 2>>, <<1, 3>>, <<2>>, <<3, 1>>, <<3>> >>
MCArrival  == <<0, 0, 1, 2, 2>>
MCNodes    == {1, 2}
MCKeys     == {1, 2, 3}
BothModes  == {"LRU", "CENSUS_REGRET"}
Lru        == {"LRU"}
=============================================================================
