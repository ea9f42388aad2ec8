-------------------------- MODULE NetlinkRPCProofs --------------------------
(* Proofs about NetlinkRPC: for any sets of callers and process ids and any   *)
(* number of calls.                                                           *)
EXTENDS NetlinkRPC, TLAPS

USE DEF vars, daemonVars

-----------------------------------------------------------------------------
(* Types                                                                      *)

\* A call on its way has been counted, and a sender counts its own calls.
TypeInv ==
  /\ TypeOK
  /\ \A s \in Senders : call[s][1] = s /\ (pc[s] # "idle" => call[s] \in Calls)

\* The next call of a sender.
LEMMA NextCall ==
  ASSUME TypeInv, NEW s \in Senders, call[s][2] < MaxCalls
  PROVE  /\ [call EXCEPT ![s][2] = @ + 1] = [call EXCEPT ![s] = <<s, call[s][2] + 1>>]
         /\ <<s, call[s][2] + 1>> \in Calls
<1>1. call[s] \in Calls \cup (Senders \X {0}) /\ call[s][1] = s
  BY DEF TypeInv, TypeOK
<1>2. PICK n \in 0..MaxCalls : call[s] = <<s, n>>
  BY <1>1, MaxCallsAssumption DEF Calls
<1>3. n + 1 \in 1..MaxCalls
  BY <1>2, MaxCallsAssumption
<1>4. [call[s] EXCEPT ![2] = call[s][2] + 1] = <<s, call[s][2] + 1>>
  BY <1>2
<1>5. [call EXCEPT ![s][2] = @ + 1] = [call EXCEPT ![s] = <<s, call[s][2] + 1>>]
  BY <1>4, Zenon
<1>6. <<s, call[s][2] + 1>> \in Calls
  BY <1>2, <1>3 DEF Calls
<1>7. QED
  BY <1>5, <1>6

\* Entering send_msg_to_user_land keeps the types, whichever of the two the call does.
LEMMA EnterType ==
  ASSUME TypeInv, NEW s \in Senders, NEW pid, MayCall(s), Enter(s, pid),
         handling' \in {"none", "Hello", "Bye"}, daemon_pid_' \in Pids \cup {-1}
  PROVE  TypeInv'
<1> DEFINE n == <<s, call[s][2] + 1>>
<1>1. call' = [call EXCEPT ![s] = n] /\ n \in Calls
  BY NextCall DEF MayCall, Enter
<1>2. n[1] = s
  OBVIOUS
<1> HIDE DEF n
<1>3. /\ call' \in [Senders -> Calls \cup (Senders \X {0})]
      /\ answer' \in [Senders -> Calls \cup {NULL}]
      /\ pc' \in [Senders -> {"idle", "point", "unicast", "wait", "clear"}]
      /\ ret' \in [Senders -> {0, -1, -5, -11, -111}]
  <2>1. call' \in [Senders -> Calls \cup (Senders \X {0})]
    BY <1>1 DEF TypeInv, TypeOK
  <2>2. answer' \in [Senders -> Calls \cup {NULL}]
    BY DEF Enter, TypeInv, TypeOK
  <2>3. pc' \in [Senders -> {"idle", "point", "unicast", "wait", "clear"}]
    BY DEF Enter, TypeInv, TypeOK
  <2>4. ret' \in [Senders -> {0, -1, -5, -11, -111}]
    BY DEF Enter, TypeInv, TypeOK
  <2>5. QED
    BY <2>1, <2>2, <2>3, <2>4
<1>4. \A t \in Senders : call'[t][1] = t /\ (pc'[t] # "idle" => call'[t] \in Calls)
  BY <1>1, <1>2 DEF Enter, TypeInv, TypeOK
<1>5. UNCHANGED <<have_response, response_from_user_land, daemonVars, replied>>
  BY DEF Enter
<1>6. QED
  BY <1>3, <1>4, <1>5, Zenon DEF TypeInv, TypeOK

\* TypeInv is inductive.
LEMMA TypeInvariance == Spec => []TypeInv
<1>1. Init => TypeInv
  <2> SUFFICES ASSUME Init PROVE TypeInv
    OBVIOUS
  <2>1. /\ daemon_pid_ \in Pids \cup {-1} /\ running \in Pids \cup {0}
        /\ pc \in [Senders -> {"idle", "point", "unicast", "wait", "clear"}]
        /\ call \in [Senders -> Calls \cup (Senders \X {0})]
        /\ answer \in [Senders -> Calls \cup {NULL}]
        /\ ret \in [Senders -> {0, -1, -5, -11, -111}]
        /\ inbox \in Seq(Calls)
        /\ \A s \in Senders : call[s][1] = s /\ pc[s] = "idle"
    BY DEF Init
  <2>2. QED
    BY <2>1, Zenon DEF Init, TypeInv, TypeOK
<1>2. TypeInv /\ [Next]_vars => TypeInv'
  <2> SUFFICES ASSUME TypeInv, [Next]_vars PROVE TypeInv'
    OBVIOUS
  <2>1. ASSUME NEW s \in Callers, Request(s) PROVE TypeInv'
    <3>1. /\ s \in Senders /\ MayCall(s) /\ Enter(s, daemon_pid_)
          /\ handling' \in {"none", "Hello", "Bye"} /\ daemon_pid_' \in Pids \cup {-1}
      BY <2>1 DEF Request, Senders, TypeInv, TypeOK
    <3>2. QED
      BY <3>1, EnterType
  <2>2. ASSUME NEW s \in Senders, NEW rx \in BOOLEAN, PointResponse(s, rx) PROVE TypeInv'
    <3>1. /\ pc' \in [Senders -> {"idle", "point", "unicast", "wait", "clear"}]
          /\ response_from_user_land' \in Calls \cup {NULL}
          /\ \A t \in Senders : pc'[t] # "idle" => pc[t] # "idle"
      BY <2>2 DEF PointResponse, TypeInv, TypeOK
    <3>2. QED
      BY <2>2, <3>1, Zenon DEF PointResponse, TypeInv, TypeOK
  <2>3. ASSUME NEW s \in Senders, Unicast(s) PROVE TypeInv'
    <3>1. /\ pc' \in [Senders -> {"idle", "point", "unicast", "wait", "clear"}]
          /\ \A t \in Senders : pc'[t] # "idle" => pc[t] # "idle"
      BY <2>3 DEF Unicast, TypeInv, TypeOK
    <3>2. ret' \in [Senders -> {0, -1, -5, -11, -111}]
      BY <2>3 DEF Unicast, TypeInv, TypeOK
    <3>3. inbox' \in Seq(Calls)
      <4>1. call[s] \in Calls /\ inbox \in Seq(Calls)
        BY <2>3 DEF Unicast, TypeInv, TypeOK
      <4>2. inbox' = inbox \/ inbox' = Append(inbox, call[s])
        BY <2>3 DEF Unicast
      <4>3. QED
        BY <4>1, <4>2
    <3>4. daemon_pid_' \in Pids \cup {-1} /\ handling' \in {"none", "Hello", "Bye"}
      BY <2>3 DEF Unicast, Returned, TypeInv, TypeOK
    <3>5. QED
      BY <2>3, <3>1, <3>2, <3>3, <3>4, Zenon DEF Unicast, TypeInv, TypeOK
  <2>4. ASSUME NEW s \in Senders, WaitDone(s) PROVE TypeInv'
    BY <2>4 DEF WaitDone, TypeInv, TypeOK
  <2>5. ASSUME NEW s \in Senders, ClearResponse(s) PROVE TypeInv'
    BY <2>5 DEF ClearResponse, Returned, TypeInv, TypeOK
  <2>6. CASE Hello
    <3>1. U2K \in Senders /\ running \in Pids
      BY <2>6 DEF Hello, Senders, TypeInv, TypeOK
    <3>2. /\ MayCall(U2K) /\ Enter(U2K, running)
          /\ handling' \in {"none", "Hello", "Bye"} /\ daemon_pid_' \in Pids \cup {-1}
      BY <2>6, <3>1 DEF Hello
    <3>3. QED
      BY <3>1, <3>2, EnterType
  <2>7. CASE Bye
    <3>1. U2K \in Senders
      BY DEF Senders
    <3>2. /\ MayCall(U2K) /\ Enter(U2K, daemon_pid_)
          /\ handling' \in {"none", "Hello", "Bye"} /\ daemon_pid_' \in Pids \cup {-1}
      BY <2>7 DEF Bye, TypeInv, TypeOK
    <3>3. QED
      BY <3>1, <3>2, EnterType
  <2>8. CASE ReplyWrite
    <3>1. Head(inbox) \in Calls /\ inbox' \in Seq(Calls)
      BY <2>8 DEF ReplyWrite, TypeInv, TypeOK
    <3>2. answer' \in [Senders -> Calls \cup {NULL}]
      <4>1. answer' = answer \/ \E s : answer' = [answer EXCEPT ![s] = Head(inbox)]
        BY <2>8, Zenon DEF ReplyWrite
      <4>2. QED
        BY <3>1, <4>1 DEF TypeInv, TypeOK
    <3>3. replying' \in BOOLEAN
      BY <2>8, Zenon DEF ReplyWrite
    <3>5. replied' \subseteq Calls
      BY <2>8, <3>1 DEF ReplyWrite, TypeInv, TypeOK
    <3>4. QED
      BY <2>8, <3>1, <3>2, <3>3, <3>5, Zenon DEF ReplyWrite, TypeInv, TypeOK
  <2>9. CASE ReplyFlag
    BY <2>9, Zenon DEF ReplyFlag, TypeInv, TypeOK
  <2>10. CASE DaemonDies
    <3>1. inbox' \in Seq(Calls)
      BY <2>10 DEF DaemonDies
    <3>2. QED
      BY <2>10, <3>1, Zenon DEF DaemonDies, TypeInv, TypeOK
  <2>11. CASE DaemonStarts
    BY <2>11, Zenon DEF DaemonStarts, TypeInv, TypeOK
  <2>12. CASE UNCHANGED vars
    BY <2>12 DEF TypeInv, TypeOK
  <2>13. QED
    BY <2>1, <2>2, <2>3, <2>4, <2>5, <2>6, <2>7, <2>8, <2>9, <2>10, <2>11, <2>12
       DEF Next, Senders
<1>3. QED
  BY <1>1, <1>2, PTL DEF Spec

\* Every reachable state is well typed, whether or not calls overlap and the daemon is
\* in time.
THEOREM TypeCorrect == Spec => []TypeOK
<1>1. TypeInv => TypeOK
  BY DEF TypeInv
<1>2. QED
  BY <1>1, TypeInvariance, PTL

-----------------------------------------------------------------------------
(* The inductive invariant of calls that do not overlap, with a daemon that   *)
(* answers in time                                                            *)

\* One call is on its way at most.
OneCall == \A s, t \in Senders : pc[s] # "idle" /\ pc[t] # "idle" => s = t

\* The sender s waits for a reply that the daemon has sent.
Replied(s) == call[s] \in replied

\* The message of the call on its way is in one place: in the daemon's socket, in the
\* reply being written, in have_response, or gone with the daemon.
ReplyPending ==
  /\ inbox # <<>> =>
       ~replying /\ ~have_response /\ \E s \in Senders : pc[s] = "wait" /\ inbox = <<call[s]>>
  /\ replying => ~have_response /\ \E s \in Senders : pc[s] = "wait" /\ Replied(s)
  /\ have_response => \E s \in Senders : pc[s] \in {"wait", "clear"} /\ Replied(s)

\* response_from_user_land points into the frame of the call on its way, once that call
\* has set it.
Points ==
  \A s \in Senders :
    pc[s] \in {"unicast", "wait", "clear"} => response_from_user_land \in {NULL, call[s]}

\* A call that was told of a reply got one.
ToldIsReplied == \A s \in Senders : pc[s] \in {"idle", "clear"} /\ ret[s] = 0 => Replied(s)

CallInv == OneCall /\ ReplyPending /\ Points /\ ToldIsReplied

\* The rest of the invariant, for a sender with nothing on its way: it begins a call.
LEMMA EnterInv ==
  ASSUME TypeInv, CallInv, NEW s \in Senders, NEW pid, MayCall(s), Serial, Enter(s, pid)
  PROVE  CallInv'
<1>1. \A t \in Senders : pc[t] = "idle"
  BY DEF MayCall, Busy
<1>2. inbox = <<>> /\ ~replying /\ ~have_response
  BY <1>1, Zenon DEF CallInv, ReplyPending
<1>3. call' = [call EXCEPT ![s] = <<s, call[s][2] + 1>>]
  BY NextCall DEF MayCall, Enter
<1>4. /\ replied' = replied
      /\ \/ pc' = [pc EXCEPT ![s] = "point"] /\ ret' = ret
         \/ pc' = pc /\ \E e \in {-5, -11} : ret' = [ret EXCEPT ![s] = e]
  BY DEF Enter
<1>5. OneCall' /\ Points' /\ ToldIsReplied'
  BY <1>1, <1>3, <1>4 DEF OneCall, Points, CallInv, ToldIsReplied, Replied, TypeInv, TypeOK
<1>6. ReplyPending'
  BY <1>2, Zenon DEF Enter, ReplyPending
<1>7. QED
  BY <1>5, <1>6, Zenon DEF CallInv

\* Of calls that do not overlap, with a daemon that answers in time, CallInv is
\* preserved.
LEMMA NextCallInv ==
  ASSUME Timely, Serial, TypeInv, CallInv, [Next]_vars
  PROVE  CallInv'
<1>1. ASSUME NEW s \in Callers, Request(s) PROVE CallInv'
  BY <1>1, EnterInv DEF Request, Senders
<1>2. ASSUME NEW s \in Senders, NEW rx \in BOOLEAN, PointResponse(s, rx) PROVE CallInv'
  <2>1. OneCall' /\ Points' /\ ToldIsReplied'
    BY <1>2 DEF PointResponse, CallInv, OneCall, Points, ToldIsReplied, Replied, TypeInv, TypeOK
  <2>2. \A t \in Senders : pc[t] \in {"wait", "clear"} => pc'[t] = pc[t]
    BY <1>2 DEF PointResponse, TypeInv, TypeOK
  <2>3. ReplyPending'
    BY <1>2, <2>2 DEF PointResponse, CallInv, ReplyPending, Replied
  <2>4. QED
    BY <2>1, <2>3 DEF CallInv
<1>3. ASSUME NEW s \in Senders, Unicast(s) PROVE CallInv'
  <2>1. inbox = <<>> /\ ~replying /\ ~have_response
    BY <1>3 DEF Unicast, CallInv, ReplyPending, OneCall
  <2>2. CASE running = daemon_pid_
    <3>1. inbox' = <<call[s]>> /\ pc' = [pc EXCEPT ![s] = "wait"]
      BY <1>3, <2>1, <2>2 DEF Unicast
    <3>2. OneCall' /\ Points' /\ ToldIsReplied'
      BY <1>3, <2>2, <3>1 DEF Unicast, CallInv, OneCall, Points, ToldIsReplied, Replied, TypeInv, TypeOK
    <3>3. ReplyPending'
      BY <1>3, <2>1, <3>1 DEF Unicast, ReplyPending, TypeInv, TypeOK
    <3>4. QED
      BY <3>2, <3>3 DEF CallInv
  <2>3. CASE running # daemon_pid_
    <3>1. OneCall' /\ Points' /\ ToldIsReplied'
      BY <1>3, <2>3 DEF Unicast, CallInv, OneCall, Points, ToldIsReplied, Replied, TypeInv, TypeOK
    <3>2. ReplyPending'
      BY <1>3, <2>1, <2>3 DEF Unicast, ReplyPending
    <3>3. QED
      BY <3>1, <3>2 DEF CallInv
  <2>4. QED
    BY <2>2, <2>3
<1>4. ASSUME NEW s \in Senders, WaitDone(s) PROVE CallInv'
  <2>1. inbox = <<>> /\ ~replying
    BY <1>4 DEF WaitDone, Hopeless, CallInv, ReplyPending, OneCall, Range
  <2>2. have_response => Replied(s)
    BY <1>4 DEF WaitDone, CallInv, ReplyPending, OneCall
  <2>3. OneCall' /\ Points' /\ ToldIsReplied'
    BY <1>4, <2>2 DEF WaitDone, CallInv, OneCall, Points, ToldIsReplied, Replied, TypeInv, TypeOK
  <2>4. ReplyPending'
    BY <1>4, <2>1, <2>2 DEF WaitDone, ReplyPending, Replied, TypeInv, TypeOK
  <2>5. QED
    BY <2>3, <2>4 DEF CallInv
<1>5. ASSUME NEW s \in Senders, ClearResponse(s) PROVE CallInv'
  <2>1. inbox = <<>> /\ ~replying
    BY <1>5 DEF ClearResponse, CallInv, ReplyPending, OneCall
  <2>2. OneCall' /\ Points' /\ ToldIsReplied'
    BY <1>5 DEF ClearResponse, CallInv, OneCall, Points, ToldIsReplied, Replied, TypeInv, TypeOK
  <2>3. ReplyPending'
    BY <1>5, <2>1 DEF ClearResponse, ReplyPending
  <2>4. QED
    BY <2>2, <2>3 DEF CallInv
<1>6. CASE Hello
  BY <1>6, EnterInv DEF Hello, Senders
<1>7. CASE Bye
  BY <1>7, EnterInv DEF Bye, Senders
<1>8. CASE ReplyWrite
  <2>1. PICK s \in Senders : pc[s] = "wait" /\ inbox = <<call[s]>>
    BY <1>8 DEF ReplyWrite, CallInv, ReplyPending
  <2>2. Head(inbox) = call[s] /\ inbox' = <<>>
    BY <1>8, <2>1 DEF ReplyWrite
  <2>7. OneCall' /\ Points' /\ ToldIsReplied'
    BY <1>8 DEF ReplyWrite, CallInv, OneCall, Points, ToldIsReplied, Replied
  <2>8. ~have_response
    BY <1>8 DEF ReplyWrite, CallInv, ReplyPending
  <2>9. ReplyPending'
    BY <1>8, <2>1, <2>2, <2>8 DEF ReplyWrite, ReplyPending, Replied
  <2>10. QED
    BY <2>7, <2>9 DEF CallInv
<1>9. CASE ReplyFlag
  <2>1. ReplyPending'
    BY <1>9 DEF ReplyFlag, CallInv, ReplyPending, Replied
  <2>2. QED
    BY <1>9, <2>1 DEF ReplyFlag, CallInv, OneCall, Points, ToldIsReplied, Replied
<1>10. CASE DaemonDies \/ DaemonStarts
  <2>1. ReplyPending'
    BY <1>10 DEF DaemonDies, DaemonStarts, CallInv, ReplyPending, Replied
  <2>2. QED
    BY <1>10, <2>1 DEF DaemonDies, DaemonStarts, CallInv, OneCall, Points, ToldIsReplied,
                       Replied
<1>11. CASE UNCHANGED vars
  BY <1>11 DEF CallInv, OneCall, ReplyPending, Points, ToldIsReplied, Replied
<1>12. QED
  BY <1>1, <1>2, <1>3, <1>4, <1>5, <1>6, <1>7, <1>8, <1>9, <1>10, <1>11 DEF Next, Senders

\* CallInv holds from the start.
LEMMA InitCallInv == Init => CallInv
<1> SUFFICES ASSUME Init PROVE CallInv
  OBVIOUS
<1>1. \A s \in Senders : pc[s] = "idle" /\ ret[s] = -5
  BY DEF Init
<1>2. inbox = <<>> /\ ~replying /\ ~have_response
  BY Zenon DEF Init
<1>3. OneCall /\ Points /\ ToldIsReplied
  BY <1>1 DEF OneCall, Points, ToldIsReplied
<1>4. QED
  BY <1>2, <1>3, Zenon DEF CallInv, ReplyPending

\* CallInv is inductive together with the types.
LEMMA CallInvariance ==
  ASSUME Timely, Serial
  PROVE  Spec => []CallInv
<1>1. Timely /\ Serial
  OBVIOUS
<1>2. TypeInv /\ CallInv /\ [Next]_vars => CallInv'
  BY <1>1, NextCallInv
<1>3. QED
  BY <1>2, InitCallInv, TypeInvariance, PTL DEF Spec

-----------------------------------------------------------------------------
(* What the callers of send_msg_to_user_land rely on                          *)

\* When calls do not overlap and the daemon answers within the second,
\* send_msg_to_user_land returns 0 only for a message the daemon has replied to.
THEOREM SuccessIsReply ==
  ASSUME Timely, Serial
  PROVE  Spec => []SuccessMeansReplied
<1>1. CallInv => SuccessMeansReplied
  BY DEF CallInv, ToldIsReplied, Replied, SuccessMeansReplied
<1>2. Spec => []CallInv
  BY CallInvariance
<1>3. QED
  BY <1>1, <1>2, PTL

-----------------------------------------------------------------------------
(* send_msg_to_user_land is a remote call                                     *)

\* A reply was to a call that was made, and a call that has none so far, or that was
\* told of none, has none.
ReplyInv ==
  /\ \A c \in replied : c[2] <= call[c[1]][2]
  /\ \A s \in Senders :
       \/ pc[s] \in {"point", "unicast"}
       \/ pc[s] = "wait" /\ ~replying /\ ~have_response
       \/ pc[s] = "clear" /\ ret[s] # 0
       => ~Replied(s)

\* The new call of a sender has not been replied to, and the other calls stand as
\* before.
LEMMA NewCall ==
  ASSUME TypeInv, ReplyInv, NEW s \in Senders, call[s][2] < MaxCalls,
         call' = [call EXCEPT ![s] = <<s, call[s][2] + 1>>], replied' = replied
  PROVE  /\ ~Replied(s)' /\ \A t \in Senders \ {s} : Replied(t)' = Replied(t)
         /\ \A c \in replied' : c[2] <= call'[c[1]][2]
<1>1. call[s][2] \in Nat
  BY MaxCallsAssumption DEF TypeInv, TypeOK, Calls
<1>2. \A t \in Senders : call'[t] = IF t = s THEN <<s, call[s][2] + 1>> ELSE call[t]
  BY DEF TypeInv, TypeOK
<1>3. <<s, call[s][2] + 1>> \notin replied
  <2>1. SUFFICES ASSUME <<s, call[s][2] + 1>> \in replied PROVE FALSE
    OBVIOUS
  <2> DEFINE c == <<s, call[s][2] + 1>>
  <2>2. c[2] <= call[c[1]][2]
    BY <2>1, Zenon DEF ReplyInv
  <2>3. c[1] = s /\ c[2] = call[s][2] + 1
    OBVIOUS
  <2>4. QED
    BY <1>1, <2>2, <2>3
<1>4. \A c \in replied : c[2] <= call'[c[1]][2]
  <2> SUFFICES ASSUME NEW c \in replied PROVE c[2] <= call'[c[1]][2]
    OBVIOUS
  <2>1. c \in Calls
    BY DEF TypeInv, TypeOK
  <2>2. c[1] \in Senders /\ c[2] \in Nat /\ c[2] <= call[c[1]][2]
    BY <2>1 DEF Calls, ReplyInv
  <2>3. CASE c[1] = s
    BY <1>1, <1>2, <2>2, <2>3
  <2>4. CASE c[1] # s
    BY <1>2, <2>2, <2>4
  <2>5. QED
    BY <2>3, <2>4
<1>5. QED
  BY <1>2, <1>3, <1>4 DEF Replied

\* ReplyInv is preserved too.
LEMMA NextReplyInv ==
  ASSUME Timely, Serial, TypeInv, CallInv, ReplyInv, [Next]_vars
  PROVE  ReplyInv'
<1>1. ASSUME NEW s \in Senders, NEW pid, MayCall(s), Enter(s, pid) PROVE ReplyInv'
  <2>1. call[s][2] < MaxCalls /\ Busy = {}
    BY <1>1, Zenon DEF MayCall
  <2>2. \A t \in Senders : pc'[t] \in {"idle", "point"} /\ (pc'[t] = "idle" \/ t = s)
    BY <1>1, <2>1 DEF Enter, Busy, TypeInv, TypeOK
  <2>3. call' = [call EXCEPT ![s] = <<s, call[s][2] + 1>>] /\ replied' = replied
    BY <1>1, <2>1, NextCall DEF Enter
  <2>4. ~Replied(s)' /\ \A c \in replied' : c[2] <= call'[c[1]][2]
    BY <2>1, <2>3, NewCall
  <2>5. QED
    BY <2>2, <2>4 DEF ReplyInv
<1>2. CASE \E s \in Callers : Request(s)
  BY <1>1, <1>2 DEF Request, Senders
<1>3. CASE Hello \/ Bye
  BY <1>1, <1>3 DEF Hello, Bye, Senders
<1>4. ASSUME NEW s \in Senders, NEW rx \in BOOLEAN, PointResponse(s, rx) PROVE ReplyInv'
  BY <1>4 DEF PointResponse, ReplyInv, Replied, TypeInv, TypeOK
<1>5. ASSUME NEW s \in Senders, Unicast(s) PROVE ReplyInv'
  BY <1>5 DEF Unicast, ReplyInv, Replied, TypeInv, TypeOK
<1>6. ASSUME NEW s \in Senders, WaitDone(s) PROVE ReplyInv'
  <2>1. have_response \/ (~have_response /\ ~replying)
    BY <1>6 DEF WaitDone, Hopeless
  <2>2. QED
    BY <1>6, <2>1 DEF WaitDone, ReplyInv, Replied, TypeInv, TypeOK
<1>7. ASSUME NEW s \in Senders, ClearResponse(s) PROVE ReplyInv'
  <2>1. \A t \in Senders : pc'[t] = "idle"
    BY <1>7 DEF ClearResponse, CallInv, OneCall, TypeInv, TypeOK
  <2>2. QED
    BY <1>7, <2>1 DEF ClearResponse, ReplyInv
<1>8. CASE ReplyWrite
  <2>1. PICK s \in Senders : pc[s] = "wait" /\ inbox = <<call[s]>>
    BY <1>8 DEF ReplyWrite, CallInv, ReplyPending
  <2>2. replied' = replied \cup {call[s]} /\ replying' /\ pc' = pc /\ call' = call
    BY <1>8, <2>1 DEF ReplyWrite
  <2>3. \A t \in Senders : pc[t] # "idle" => pc[t] = "wait"
    BY <2>1 DEF CallInv, OneCall
  <2>4. call[s][2] <= call[s][2] /\ call[s][1] = s
    BY <2>1, MaxCallsAssumption DEF TypeInv, TypeOK, Calls
  <2>5. QED
    BY <2>2, <2>3, <2>4 DEF ReplyInv
<1>9. CASE ReplyFlag
  <2>1. \A t \in Senders : pc[t] # "idle" => pc[t] = "wait"
    BY <1>9 DEF ReplyFlag, CallInv, ReplyPending, OneCall
  <2>2. QED
    BY <1>9, <2>1 DEF ReplyFlag, ReplyInv, Replied
<1>10. CASE DaemonDies \/ DaemonStarts \/ UNCHANGED vars
  BY <1>10 DEF DaemonDies, DaemonStarts, ReplyInv, Replied
<1>11. QED
  BY <1>2, <1>3, <1>4, <1>5, <1>6, <1>7, <1>8, <1>9, <1>10
     DEF Next, Senders

\* A reply that was asked for is delivered with it.
DeliveredInv == \A s \in Senders : Replied(s) => Delivered(s)

\* DeliveredInv is preserved as well.
LEMMA NextDelivered ==
  ASSUME Timely, Serial, TypeInv, CallInv, ReplyInv, DeliveredInv, [Next]_vars
  PROVE  DeliveredInv'
<1>1. \A s \in Senders : call[s][1] = s
  BY DEF TypeInv
<1>2. ASSUME NEW s \in Senders, NEW pid, MayCall(s), Enter(s, pid) PROVE DeliveredInv'
  <2>1. call' = [call EXCEPT ![s] = <<s, call[s][2] + 1>>] /\ call[s][2] < MaxCalls
    BY <1>2, NextCall DEF Enter, MayCall
  <2>2. ~Replied(s)'
    BY <1>2, <2>1, NewCall DEF Enter
  <2>3. ASSUME NEW t \in Senders, t # s PROVE call'[t] = call[t] /\ answer'[t] = answer[t]
    BY <1>2, <2>1, <2>3 DEF Enter, TypeInv, TypeOK
  <2>4. UNCHANGED <<response_from_user_land, replied>>
    BY <1>2 DEF Enter
  <2>5. QED
    BY <2>2, <2>3, <2>4 DEF DeliveredInv, Delivered, Replied
<1>3. ASSUME NEW s \in Senders, NEW rx \in BOOLEAN, PointResponse(s, rx) PROVE DeliveredInv'
  <2>1. ~Replied(s)
    BY <1>3 DEF PointResponse, ReplyInv
  <2>2. response_from_user_land' \in {NULL, call[s]} /\ UNCHANGED <<call, answer, replied>>
    BY <1>3 DEF PointResponse
  <2>3. ASSUME NEW t \in Senders, t # s PROVE call[t] # call[s] /\ call[t] # NULL
    <3>1. call[t] \in Senders \X Nat
      BY MaxCallsAssumption DEF TypeInv, TypeOK, Calls
    <3>2. QED
      BY <1>1, <2>3, <3>1 DEF NULL
  <2>4. QED
    BY <2>1, <2>2, <2>3 DEF DeliveredInv, Delivered, Replied
<1>4. CASE \E s \in Senders : Unicast(s) \/ WaitDone(s) \/ ClearResponse(s)
  <2>1. UNCHANGED <<response_from_user_land, call, answer, replied>>
    BY <1>4 DEF Unicast, WaitDone, ClearResponse
  <2>2. QED
    BY <2>1 DEF DeliveredInv, Delivered, Replied
<1>5. CASE ReplyWrite
  <2>1. PICK s \in Senders : pc[s] = "wait" /\ inbox = <<call[s]>>
    BY <1>5 DEF ReplyWrite, CallInv, ReplyPending
  <2>2. Head(inbox) = call[s]
    BY <2>1
  <2>3. response_from_user_land \in {NULL, call[s]} /\ call[s][1] = s
    BY <1>1, <2>1 DEF CallInv, Points
  <2>4. response_from_user_land = call[s] => InFrame(response_from_user_land)
    BY <2>1, <2>3 DEF InFrame
  <2>5. \/ answer' = answer /\ response_from_user_land = NULL
        \/ answer' = [answer EXCEPT ![s] = call[s]]
    BY <1>5, <2>2, <2>3, <2>4, Zenon DEF ReplyWrite
  <2>6. /\ replied' = replied \cup {call[s]}
        /\ UNCHANGED <<response_from_user_land, call>>
    BY <1>5, <2>2 DEF ReplyWrite
  <2>7. call[s] # NULL
    <3>1. call[s] \in Senders \X Nat
      BY MaxCallsAssumption DEF TypeInv, TypeOK, Calls
    <3>2. QED
      BY <3>1 DEF NULL
  <2>8. Delivered(s)'
    BY <2>5, <2>6, <2>7 DEF Delivered, TypeInv, TypeOK
  <2>9. ASSUME NEW t \in Senders, t # s PROVE answer'[t] = answer[t] /\ call[t] # call[s]
    BY <1>1, <2>5, <2>9 DEF TypeInv, TypeOK
  <2>10. QED
    BY <2>6, <2>8, <2>9 DEF DeliveredInv, Delivered, Replied
<1>6. CASE ReplyFlag \/ DaemonDies \/ DaemonStarts \/ UNCHANGED vars
  <2>1. UNCHANGED <<response_from_user_land, call, answer, replied>>
    BY <1>6 DEF ReplyFlag, DaemonDies, DaemonStarts
  <2>2. QED
    BY <2>1 DEF DeliveredInv, Delivered, Replied
<1>7. QED
  BY <1>2, <1>3, <1>4, <1>5, <1>6 DEF Next, Request, Hello, Bye, Senders

\* What the callers see of a sender's last call.
Outcome ==
  [s \in Senders |-> IF pc[s] # "idle" THEN "pending" ELSE IF ret[s] = 0 THEN "ok" ELSE "failed"]

Answered == {s \in Senders : call[s] \in replied /\ Delivered(s)}

\* A call the daemon has replied to is answered, before a step and after.
LEMMA AnsweredIsReplied ==
  /\ DeliveredInv => Answered = {s \in Senders : Replied(s)}
  /\ DeliveredInv' => Answered' = {s \in Senders : Replied(s)'}
  BY DEF DeliveredInv, Answered, Replied

\* A new call of the sender s, which is refused or begins, is a call.
LEMMA CallStep ==
  ASSUME TypeInv, ReplyInv, DeliveredInv, DeliveredInv', NEW s \in Senders, NEW pid, Serial,
         MayCall(s), Enter(s, pid)
  PROVE  RC!Call(s)
<1>1. call' = [call EXCEPT ![s] = <<s, call[s][2] + 1>>] /\ replied' = replied
  BY NextCall DEF MayCall, Enter
<1>2. ~Replied(s)' /\ \A t \in Senders \ {s} : Replied(t)' = Replied(t)
  BY <1>1, NewCall DEF MayCall
<1>3. Answered' = Answered \ {s}
  BY <1>2, AnsweredIsReplied
<1>4. \A t \in Senders : pc[t] = "idle"
  BY DEF MayCall, Busy
<1>5. \A t \in Senders : Outcome[t] # "pending"
  BY <1>4 DEF Outcome
<1>6. \E o \in {"pending", "failed"} : Outcome' = [Outcome EXCEPT ![s] = o]
  <2>1. CASE pc' = [pc EXCEPT ![s] = "point"] /\ ret' = ret
    <3>1. Outcome' = [Outcome EXCEPT ![s] = "pending"]
      BY <2>1 DEF Outcome, TypeInv, TypeOK
    <3>2. QED
      BY <3>1
  <2>2. ASSUME NEW e \in {-5, -11}, pc' = pc, ret' = [ret EXCEPT ![s] = e]
        PROVE  \E o \in {"pending", "failed"} : Outcome' = [Outcome EXCEPT ![s] = o]
    <3>1. ret'[s] = e /\ \A t \in Senders \ {s} : ret'[t] = ret[t]
      BY <2>2 DEF TypeInv, TypeOK
    <3>2. ret'[s] # 0
      BY <3>1
    <3>3. Outcome' = [Outcome EXCEPT ![s] = "failed"]
      BY <2>2, <1>4, <3>1, <3>2 DEF Outcome
    <3>4. QED
      BY <3>3
  <2>3. QED
    BY <2>1, <2>2 DEF Enter
<1>7. QED
  BY <1>3, <1>5, <1>6, Zenon DEF RC!Call, RC!Quiet, Outcome, Answered

\* The end of the call of the sender s, with what it returns, is a return.
LEMMA ReturnStep ==
  ASSUME TypeInv, DeliveredInv, DeliveredInv', NEW s \in Senders, pc[s] # "idle",
         call' = call, replied' = replied,
         pc' = [pc EXCEPT ![s] = "idle"], \A t \in Senders \ {s} : ret'[t] = ret[t],
         ret'[s] = 0 <=> Replied(s)
  PROVE  RC!Return(s)
<1>1. Outcome[s] = "pending" /\ Answered' = Answered
  BY AnsweredIsReplied DEF Outcome, Replied
<1>2. s \in Answered <=> Replied(s)
  BY AnsweredIsReplied
<1>3. Outcome' = [Outcome EXCEPT ![s] = IF s \in Answered THEN "ok" ELSE "failed"]
  BY <1>2 DEF Outcome, TypeInv, TypeOK
<1>4. QED
  BY <1>1, <1>3, Zenon DEF RC!Return, Outcome, Answered

\* Every step of the driver and of its daemon is a step of remote calls or none.
LEMMA RemoteCallStep ==
  ASSUME Timely, Serial, TypeInv, CallInv, ReplyInv, DeliveredInv, DeliveredInv', [Next]_vars
  PROVE  [RC!Next]_(RC!callVars)
<1>1. ASSUME UNCHANGED <<call, replied>>, Outcome' = Outcome
      PROVE  UNCHANGED RC!callVars
  <2>1. Answered' = Answered
    BY <1>1, AnsweredIsReplied DEF Replied
  <2>2. QED
    BY <1>1, <2>1, Zenon DEF RC!callVars, Outcome, Answered
<1>2. ASSUME NEW s \in Senders, RC!Call(s) \/ RC!Answer(s) \/ RC!Return(s)
      PROVE  RC!Next
  BY <1>2 DEF RC!Next
<1>3. CASE \E s \in Callers : Request(s)
  BY <1>2, <1>3, CallStep DEF Request, Senders
<1>4. CASE Hello \/ Bye
  BY <1>2, <1>4, CallStep DEF Hello, Bye, Senders
<1>5. ASSUME NEW s \in Senders, NEW rx \in BOOLEAN, PointResponse(s, rx)
      PROVE  UNCHANGED RC!callVars
  <2>1. Outcome' = Outcome
    BY <1>5 DEF PointResponse, Outcome, TypeInv, TypeOK
  <2>2. QED
    BY <1>1, <1>5, <2>1 DEF PointResponse
<1>6. ASSUME NEW s \in Senders, Unicast(s) PROVE UNCHANGED RC!callVars \/ RC!Return(s)
  <2>1. CASE running = daemon_pid_
    <3>1. Outcome' = Outcome
      BY <1>6, <2>1 DEF Unicast, Outcome, TypeInv, TypeOK
    <3>2. QED
      BY <1>1, <1>6, <3>1 DEF Unicast
  <2>2. CASE running # daemon_pid_
    <3>1. pc[s] # "idle" /\ ~Replied(s)
      BY <1>6 DEF Unicast, ReplyInv
    <3>2. ret'[s] # 0 /\ \A t \in Senders \ {s} : ret'[t] = ret[t]
      BY <1>6, <2>2 DEF Unicast, TypeInv, TypeOK
    <3>3. pc' = [pc EXCEPT ![s] = "idle"] /\ call' = call /\ replied' = replied
      BY <1>6, <2>2 DEF Unicast
    <3>4. RC!Return(s)
      BY <3>1, <3>2, <3>3, ReturnStep
    <3>5. QED
      BY <3>4
  <2>3. QED
    BY <2>1, <2>2
<1>7. ASSUME NEW s \in Senders, WaitDone(s) PROVE UNCHANGED RC!callVars
  <2>1. Outcome' = Outcome
    BY <1>7 DEF WaitDone, Outcome, TypeInv, TypeOK
  <2>2. QED
    BY <1>1, <1>7, <2>1 DEF WaitDone
<1>8. ASSUME NEW s \in Senders, ClearResponse(s) PROVE RC!Return(s)
  <2>1. pc[s] = "clear" /\ (ret[s] = 0 <=> Replied(s))
    BY <1>8 DEF ClearResponse, CallInv, ToldIsReplied, ReplyInv
  <2>2. /\ pc' = [pc EXCEPT ![s] = "idle"] /\ call' = call /\ replied' = replied
        /\ ret' = ret
    BY <1>8 DEF ClearResponse
  <2>3. QED
    BY <2>1, <2>2, ReturnStep
<1>9. CASE ReplyWrite
  <2>1. PICK s \in Senders : pc[s] = "wait" /\ inbox = <<call[s]>>
    BY <1>9 DEF ReplyWrite, CallInv, ReplyPending
  <2>2. replied' = replied \cup {call[s]} /\ call' = call /\ pc' = pc /\ ret' = ret
    BY <1>9, <2>1 DEF ReplyWrite
  <2>3. \A t \in Senders : call[t] = call[s] => t = s
    BY DEF TypeInv
  <2>4. Answered' = Answered \cup {s}
    BY <2>2, <2>3, AnsweredIsReplied DEF Replied
  <2>5. Outcome[s] = "pending" /\ Outcome' = Outcome
    BY <2>1, <2>2 DEF Outcome
  <2>6. RC!Answer(s)
    BY <2>4, <2>5, Zenon DEF RC!Answer, Outcome, Answered
  <2>7. QED
    BY <1>2, <2>6
<1>10. CASE ReplyFlag \/ DaemonDies \/ DaemonStarts \/ UNCHANGED vars
  <2>1. Outcome' = Outcome
    BY <1>10 DEF ReplyFlag, DaemonDies, DaemonStarts, Outcome
  <2>2. QED
    BY <1>1, <1>10, <2>1 DEF ReplyFlag, DaemonDies, DaemonStarts
<1>11. QED
  BY <1>2, <1>3, <1>4, <1>5, <1>6, <1>7, <1>8, <1>9, <1>10 DEF Next, Senders

\* When calls do not overlap and the daemon answers within the second,
\* send_msg_to_user_land is a remote call: it returns 0 if and only if the daemon has
\* replied to its message, the reply is where it was asked for, and no message is replied to once its call has failed.
THEOREM RemoteCallImplemented ==
  ASSUME Timely, Serial
  PROVE  Spec => ImplementsRemoteCall
<1>1. Timely /\ Serial
  OBVIOUS
<1>2. Init => ReplyInv /\ DeliveredInv /\ RC!Init
  <2> SUFFICES ASSUME Init PROVE ReplyInv /\ DeliveredInv /\ RC!Init
    OBVIOUS
  <2>1. replied = {} /\ \A s \in Senders : pc[s] = "idle" /\ ret[s] = -5
    BY DEF Init
  <2>2. ReplyInv /\ DeliveredInv
    BY <2>1 DEF ReplyInv, DeliveredInv, Replied
  <2>3. Outcome = [s \in Senders |-> "failed"] /\ Answered = {}
    BY <2>1 DEF Outcome, Answered, Replied
  <2>4. QED
    BY <2>2, <2>3, Zenon DEF RC!Init, Outcome, Answered
<1>3. TypeInv /\ CallInv /\ ReplyInv /\ DeliveredInv /\ [Next]_vars
        => ReplyInv' /\ DeliveredInv' /\ [RC!Next]_(RC!callVars)
  BY <1>1, NextReplyInv, NextDelivered, RemoteCallStep
<1>4. Spec => []CallInv
  BY <1>1, CallInvariance
<1>5. QED
  BY <1>2, <1>3, <1>4, TypeInvariance, PTL DEF Spec, ImplementsRemoteCall, RC!Spec
=============================================================================
