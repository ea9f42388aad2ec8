------------------------ MODULE MCRTPSourceStreams ------------------------
(* Instances of RTPSourceStreams for TLC. *)
EXTENDS RTPSourceStreams

OneStream    == {[id |-> 1, ch |-> 2]}
TwoStreams   == OneStream \cup {[id |-> 2, ch |-> 1]}
===========================================================================
