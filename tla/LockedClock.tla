---------------------------- MODULE LockedClock ----------------------------
(***************************************************************************)
(* What the manager relies on of a PTP clock (PTP.h: StartAudioFrameTICTi- *)
(* mer, StopAudioFrameTICTimer, GetLockStatus): a clock locks step by step *)
(* while its TIC timer is started, may lose the lock at any time, loses it *)
(* when it is stopped, and never gets nearer to a lock while it is.        *)
(* PTPClock implements this specification (PTPClock!ImplementsClock), and  *)
(* IOControl is built on it.                                               *)
(***************************************************************************)
VARIABLES
  started,      \* the TIC timer is started
  status        \* GetLockStatus

clockVars == <<started, status>>

Init == started = FALSE /\ status = "UNLOCKED"

Start == ~started /\ started' = TRUE /\ UNCHANGED status

Stop == started /\ started' = FALSE /\ status' = "UNLOCKED"

\* One more time stamp: the PTP counter reaches 0 first, then the TIC counter.
Advance ==
  /\ started /\ UNCHANGED started
  /\ \/ status = "UNLOCKED" /\ status' = "LOCKING"
     \/ status = "LOCKING" /\ status' = "LOCKED"

\* The watch dog, an election, a gap in the sequence or a change of rate.
Reset == status' = "UNLOCKED" /\ UNCHANGED started

Next == Start \/ Stop \/ Advance \/ Reset

Spec == Init /\ [][Next]_clockVars
=============================================================================
