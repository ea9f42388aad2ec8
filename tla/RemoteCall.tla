---------------------------- MODULE RemoteCall ----------------------------
(***************************************************************************)
(* What the callers of send_msg_to_user_land count on: calls to a server   *)
(* one at a time, each of which is refused at once or ends after a while,  *)
(* and ends well exactly if the server has answered it.  A call that ended *)
(* badly is never answered afterwards.  NetlinkRPC implements this (see    *)
(* NetlinkRPC!ImplementsRemoteCall) when its daemon answers in time.       *)
(***************************************************************************)
CONSTANT Clients

VARIABLES
  outcome,      \* of the last call of each client
  answered      \* the clients whose last call the server has answered

callVars == <<outcome, answered>>

Init == outcome = [c \in Clients |-> "failed"] /\ answered = {}

Quiet == \A c \in Clients : outcome[c] # "pending"

\* A call begins, or is refused because there is no server.
Call(c) ==
  /\ Quiet
  /\ \E o \in {"pending", "failed"} : outcome' = [outcome EXCEPT ![c] = o]
  /\ answered' = answered \ {c}

Answer(c) ==
  /\ outcome[c] = "pending"
  /\ answered' = answered \cup {c}
  /\ UNCHANGED outcome

Return(c) ==
  /\ outcome[c] = "pending"
  /\ outcome' = [outcome EXCEPT ![c] = IF c \in answered THEN "ok" ELSE "failed"]
  /\ UNCHANGED answered

Next == \E c \in Clients : Call(c) \/ Answer(c) \/ Return(c)

Spec == Init /\ [][Next]_callVars
=============================================================================
