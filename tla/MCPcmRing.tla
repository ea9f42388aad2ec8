---------------------------- MODULE MCPcmRing ----------------------------
EXTENDS PcmRing

(***************************************************************************)
(* Bound: interfaces are named, the priorities of the clocks change, and   *)
(* the frame size is given another maximum, only in behaviours in which    *)
(* the PCM devices followed are not opened.  The other direction is        *)
(* triggered in all of them, and the rate changes the frame size.          *)
(***************************************************************************)
FirstClockOnly ==
  /\ m_Is_NIC_Active = [n \in NICs |-> n = 0] /\ ~renamed
  /\ ~clock[1].started /\ firstIsBetter
  /\ m_MaxFrameSize = Max(MaxFrameSizes) /\ mgr.max \in {0, m_MaxFrameSize}

OneAspect == pcm = [d \in PcmDirs |-> ClosedPcm] \/ FirstClockOnly

OneAspectSpec == PcmInit /\ [][PcmNext /\ OneAspect']_pcmVars /\ PcmFairness
=============================================================================
