--------------------------- MODULE RTPSourcePairs ---------------------------
(***************************************************************************)
(* ST2022-7 pairs of source streams: RTPSourceStreams, with the pointer    *)
(* m_pAttachedStream of each slot.  A source of NIC 0 sends for the stream *)
(* attached to it too, and a source of NIC 1 with a stream attached does   *)
(* not send.  attached_stream, called when a source is added, is the only  *)
(* place that sets the pointer of a source; nothing clears it, since       *)
(* remove_RTP_stream_ calls detached_stream for sinks only, and neither    *)
(* Destroy nor Create touch it.                                            *)
(***************************************************************************)
EXTENDS RTPSourceStreams

VARIABLES
  Attached,     \* m_pAttachedStream: a slot, or NULL
  removed       \* history: a stream was removed

pairVars == <<vars, Attached, removed>>

PairInit == Init /\ Attached = [s \in Slots |-> NULL] /\ removed = FALSE

\* The first listed stream with the same identifier becomes the pair of slot s.
Twins(s) == {i \in DOMAIN Ordered : Info[Ordered[i]].id = Info[s].id}

\* Mutant: only the new stream is told of its pair.
attached_stream_OneSided(s) ==
  IF Twins(s) = {} THEN Attached
  ELSE [Attached EXCEPT ![s] = Ordered[CHOOSE i \in Twins(s) : \A j \in Twins(s) : i <= j]]

attached_stream(s) ==
  IF Twins(s) = {} THEN Attached
  ELSE LET t == Ordered[CHOOSE i \in Twins(s) : \A j \in Twins(s) : i <= j]
       IN [Attached EXCEPT ![s] = t, ![t] = s]

PairNext ==
  \/ AddInsert /\ Attached' = attached_stream(op.slot) /\ UNCHANGED removed
  \/ OpNext /\ op.pc # "insert" /\ UNCHANGED Attached
     /\ removed' = (removed \/ op'.pc = "release")
  \/ TimerNext /\ UNCHANGED <<Attached, removed>>

PairSpec == PairInit /\ [][PairNext]_pairVars

\* SendRTPAudioPackets sends for slot s itself.
SendsItself(s) == ~(NICId(s) = 1 /\ Attached[s] # NULL)

\* The packets of listed stream s are sent: by itself, or by the stream attached
\* to it.
Sent(s) ==
  \/ SendsItself(s)
  \/ InOrdered(Attached[s]) /\ SendsItself(Attached[s]) /\ Attached[Attached[s]] = s

\* Until a stream is removed or an add fails, the two streams of a pair are
\* attached to each other, in whichever order they were added and wherever they
\* are in the list, and every listed stream is sent.
PairsAttached ==
  ~leaked /\ ~removed /\ op.pc = "idle" =>
    \A i \in DOMAIN Ordered :
      LET s == Ordered[i] IN
      /\ Sent(s)
      /\ {Attached[s]} \ {NULL} = {Ordered[j] : j \in Twins(s)} \ {s}
=============================================================================
