----------------------------- MODULE NetlinkRPC -----------------------------
(***************************************************************************)
(* Requests of the driver to the user-land daemon (Butler) and the         *)
(* daemon's replies, driver/module_netlink.c.  The ALSA callbacks          *)
(* set_sample_rate, notify_master_* and get_master_* and the handlers of   *)
(* the daemon's Hello and Bye call send_msg_to_user_land, which sends one  *)
(* message on nl_k2u_sk and waits up to one second for the reply.  The     *)
(* reply is delivered by recv_reply_from_user_land, in the daemon's own    *)
(* system call, through two globals that no lock protects and that carry   *)
(* no identifier of the request: have_response and the pointer             *)
(* response_from_user_land, into the frame of the call that set it last.   *)
(*                                                                         *)
(* A call is the pair <<sender, number of its calls>>.  The daemon is      *)
(* external: it answers the messages of its socket in order, dies and is   *)
(* started again.  Timely says that it always answers within the second    *)
(* and that no signal interrupts the wait: a call then gives up only if no *)
(* answer can come any more.  Serial says that calls do not overlap.       *)
(***************************************************************************)
EXTENDS Integers, Sequences, SequencesExt

CONSTANTS
  Callers,      \* threads in the ALSA callbacks
  Pids,         \* process ids the daemon may have
  MaxCalls,     \* bound: calls of one sender
  Timely,       \* the daemon answers within the time-out
  Serial        \* at most one call at a time

ASSUME CallersAssumption == "u2k" \notin Callers
ASSUME PidsAssumption == Pids \subseteq Nat \ {0}
ASSUME MaxCallsAssumption == MaxCalls \in Nat \ {0}
ASSUME ModesAssumption == {Timely, Serial} \subseteq BOOLEAN

\* The thread of the daemon inside recv_msg_from_user_land.
U2K == "u2k"
Senders == Callers \cup {U2K}
NULL == <<>>
Calls == Senders \X (1..MaxCalls)

VARIABLES
  daemon_pid_,
  have_response,
  response_from_user_land,   \* NULL or the call whose msgAnswer it points to
  running,      \* external: pid of the living daemon, or 0
  inbox,        \* external: calls whose message waits in the daemon's socket
  replying,     \* recv_reply_from_user_land has written, not yet set the flag
  pc,           \* where each sender is in send_msg_to_user_land
  handling,     \* the message the u2k handler works on, if any
  call,         \* the last call of each sender
  answer,       \* call whose reply is in the sender's msgAnswer, or NULL
  ret,          \* what the last call returned
  replied       \* history: calls the daemon has replied to

daemonVars == <<running, inbox, replying>>
vars == <<daemon_pid_, have_response, response_from_user_land, daemonVars, pc,
          handling, call, answer, ret, replied>>

TypeOK ==
  /\ daemon_pid_ \in Pids \cup {-1}
  /\ have_response \in BOOLEAN
  /\ response_from_user_land \in Calls \cup {NULL}
  /\ running \in Pids \cup {0}
  /\ inbox \in Seq(Calls)
  /\ replying \in BOOLEAN
  /\ pc \in [Senders -> {"idle", "point", "unicast", "wait", "clear"}]
  /\ handling \in {"none", "Hello", "Bye"}
  /\ call \in [Senders -> Calls \cup (Senders \X {0})]
  /\ answer \in [Senders -> Calls \cup {NULL}]
  /\ ret \in [Senders -> {0, -1, -5, -11, -111}]
  /\ replied \subseteq Calls

\* setup_netlink
Init ==
  /\ daemon_pid_ = -1 /\ have_response = FALSE /\ response_from_user_land = NULL
  /\ running = 0 /\ inbox = <<>> /\ replying = FALSE
  /\ pc = [s \in Senders |-> "idle"] /\ handling = "none"
  /\ call = [s \in Senders |-> <<s, 0>>]
  /\ answer = [s \in Senders |-> NULL]
  /\ ret = [s \in Senders |-> -5]
  /\ replied = {}

Busy == {s \in Senders : pc[s] # "idle"}
MayCall(s) == call[s][2] < MaxCalls /\ pc[s] = "idle" /\ (Serial => Busy = {})

(***************************************************************************)
(* send_msg_to_user_land                                                   *)
(***************************************************************************)
\* Entry, with the daemon's pid as the call finds it: without a registered daemon it
\* returns -5, without memory for the message -11.
Enter(s, pid) ==
  /\ call' = [call EXCEPT ![s][2] = @ + 1]
  /\ answer' = [answer EXCEPT ![s] = NULL]
  /\ \/ pid # -1 /\ pc' = [pc EXCEPT ![s] = "point"] /\ UNCHANGED ret
     \/ /\ ret' = [ret EXCEPT ![s] = IF pid = -1 THEN -5 ELSE -11]
        /\ UNCHANGED pc
  /\ UNCHANGED <<have_response, response_from_user_land, daemonVars, replied>>

\* An ALSA callback: set_sample_rate, notify_master_*, get_master_*.
Request(s) ==
  /\ s \in Callers /\ MayCall(s)
  /\ Enter(s, daemon_pid_)
  /\ UNCHANGED <<handling, daemon_pid_>>

\* response_from_user_land = rx_msg; set_sample_rate and the Hello and Bye handlers
\* pass NULL.
PointResponse(s, rx) ==
  /\ pc[s] = "point"
  /\ response_from_user_land' = IF rx THEN call[s] ELSE NULL
  /\ pc' = [pc EXCEPT ![s] = "unicast"]
  /\ UNCHANGED <<daemon_pid_, have_response, daemonVars, handling, call, answer, ret,
                 replied>>

\* Mutant: Bye stores 0 instead of -1, which the guard of the next call misses.
Returned_PidZero(s) ==
  /\ handling' = IF s = U2K THEN "none" ELSE handling
  /\ daemon_pid_' = IF s = U2K /\ handling = "Bye" THEN 0 ELSE daemon_pid_

\* What follows the return: the Hello handler is done, the Bye handler forgets the
\* daemon.
Returned(s) ==
  /\ handling' = IF s = U2K THEN "none" ELSE handling
  /\ daemon_pid_' = IF s = U2K /\ handling = "Bye" THEN -1 ELSE daemon_pid_

\* nlmsg_unicast to daemon_pid_, read a second time, fails (-ECONNREFUSED) if that
\* process has no socket any more.
Unicast(s) ==
  /\ pc[s] = "unicast"
  /\ IF running = daemon_pid_
     THEN /\ inbox' = Append(inbox, call[s])
          /\ pc' = [pc EXCEPT ![s] = "wait"]
          /\ UNCHANGED <<ret, handling, daemon_pid_>>
     ELSE /\ ret' = [ret EXCEPT ![s] = -111]
          /\ pc' = [pc EXCEPT ![s] = "idle"]
          /\ UNCHANGED inbox /\ Returned(s)
  /\ UNCHANGED <<have_response, response_from_user_land, running, replying, call,
                 answer, replied>>

\* No reply to the call can come any more.
Hopeless(s) == call[s] \notin Range(inbox) /\ ~replying /\ ~have_response

\* wait_event_interruptible_timeout returns: the condition holds, the second is over
\* or a signal came.
WaitDone(s) ==
  /\ pc[s] = "wait"
  /\ \/ have_response /\ ret' = [ret EXCEPT ![s] = 0]
     \/ ~have_response /\ (Timely => Hopeless(s)) /\ ret' = [ret EXCEPT ![s] = -1]
  /\ pc' = [pc EXCEPT ![s] = "clear"]
  /\ UNCHANGED <<daemon_pid_, have_response, response_from_user_land, daemonVars,
                 handling, call, answer, replied>>

\* Mutant: the flag of the previous reply is not cleared.
ClearResponse_Missing(s) ==
  /\ pc[s] = "clear"
  /\ pc' = [pc EXCEPT ![s] = "idle"] /\ Returned(s)
  /\ UNCHANGED <<have_response, response_from_user_land, daemonVars, call, answer,
                 ret, replied>>

\* have_response = 0, and the return.
ClearResponse(s) ==
  /\ pc[s] = "clear"
  /\ have_response' = FALSE
  /\ pc' = [pc EXCEPT ![s] = "idle"] /\ Returned(s)
  /\ UNCHANGED <<response_from_user_land, daemonVars, call, answer, ret, replied>>

(***************************************************************************)
(* recv_msg_from_user_land, for the two messages it handles itself: the    *)
(* reply of send_reply_to_user_land goes to the other socket and changes   *)
(* nothing here, the message that follows it is a call of its own.         *)
(***************************************************************************)
Hello ==
  /\ running # 0 /\ MayCall(U2K)
  /\ Enter(U2K, running)
  /\ daemon_pid_' = running
  /\ handling' = IF pc'[U2K] = "idle" THEN "none" ELSE "Hello"

Bye ==
  /\ running # 0 /\ MayCall(U2K)
  /\ Enter(U2K, daemon_pid_)
  /\ IF pc'[U2K] = "idle"
     THEN handling' = "none" /\ daemon_pid_' = -1
     ELSE handling' = "Bye" /\ UNCHANGED daemon_pid_

(***************************************************************************)
(* recv_reply_from_user_land: the reply to the first message of the socket *)
(* is written where response_from_user_land points, then the flag is set   *)
(* and the waiters are woken.  A pointer into the frame of a call that has *)
(* returned is written through all the same; whose memory that is by then, *)
(* is not modelled.  Nor is the data that may follow the header.           *)
(***************************************************************************)
InFrame(c) == pc[c[1]] # "idle" /\ call[c[1]] = c

ReplyWrite ==
  /\ running # 0 /\ inbox # <<>> /\ ~replying
  /\ LET r == response_from_user_land IN
     IF r # NULL /\ InFrame(r)
     THEN answer' = [answer EXCEPT ![r[1]] = Head(inbox)]
     ELSE UNCHANGED answer
  /\ replied' = replied \cup {Head(inbox)}
  /\ inbox' = Tail(inbox)
  /\ replying' = TRUE
  /\ UNCHANGED <<daemon_pid_, have_response, response_from_user_land, running, pc,
                 handling, call, ret>>

ReplyFlag ==
  /\ replying
  /\ have_response' = TRUE
  /\ replying' = FALSE
  /\ UNCHANGED <<daemon_pid_, response_from_user_land, running, inbox, pc, handling,
                 call, answer, ret, replied>>

(***************************************************************************)
(* The daemon process: it may die outside a system call, its socket with   *)
(* it, and a new one is started.                                           *)
(***************************************************************************)
DaemonDies ==
  /\ running # 0 /\ ~replying /\ pc[U2K] = "idle"
  /\ running' = 0 /\ inbox' = <<>>
  /\ UNCHANGED <<daemon_pid_, have_response, response_from_user_land, replying, pc,
                 handling, call, answer, ret, replied>>

DaemonStarts ==
  /\ running = 0
  /\ running' \in Pids
  /\ UNCHANGED <<daemon_pid_, have_response, response_from_user_land, inbox, replying,
                 pc, handling, call, answer, ret, replied>>

Next ==
  \/ \E s \in Callers : Request(s) \/ PointResponse(s, TRUE)
  \/ \E s \in Senders : PointResponse(s, FALSE) \/ Unicast(s) \/ WaitDone(s)
                        \/ ClearResponse(s)
  \/ Hello \/ Bye \/ ReplyWrite \/ ReplyFlag \/ DaemonDies \/ DaemonStarts

Spec == Init /\ [][Next]_vars

-----------------------------------------------------------------------------
\* A call that returned 0 has been answered by the daemon: the success that
\* set_sample_rate and notify_master_* report to ALSA means the daemon knows.
SuccessMeansReplied ==
  \A s \in Senders : pc[s] = "idle" /\ ret[s] = 0 => call[s] \in replied

\* The reply to the last call of a sender that asked for one stands in its msgAnswer.
Delivered(s) == response_from_user_land = call[s] => answer[s] = call[s]

\* The calls as their callers see them: on their way, or over with the value returned.
RC == INSTANCE RemoteCall WITH
  Clients <- Senders,
  outcome <- [s \in Senders |-> IF pc[s] # "idle" THEN "pending"
                                ELSE IF ret[s] = 0 THEN "ok" ELSE "failed"],
  answered <- {s \in Senders : call[s] \in replied /\ Delivered(s)}

\* send_msg_to_user_land is a remote call: it returns 0 exactly if the daemon has
\* replied to this message, with that reply in the caller's msgAnswer if it asked for
\* one, and a message whose call failed is not replied to later, when the reply would
\* be taken for that of the next call.
ImplementsRemoteCall == RC!Spec
=============================================================================
