--------------------------- MODULE PeerServerProofs ---------------------------
(***************************************************************************)
(* The safety properties of PeerServer, for any number of sessions, sends   *)
(* and packets and whatever the peers and the network do.                   *)
(*                                                                         *)
(* Two inductive invariants carry the proofs.  SafeInv relates the call      *)
(* queue to the session objects: a queued receive belongs to a session that  *)
(* is live and still listed, the first one of a session is its CONNECT, and  *)
(* nothing of a session follows its DISCONNECT, so that StopSession never    *)
(* meets a session twice.  StopInv adds what StopAll leaves behind: once it  *)
(* has looked, a receiver thread that still reads is one it has yet to join. *)
(***************************************************************************)
EXTENDS PeerServer, QueueFacts, FiniteSetTheorems, TLAPS

(* Call i of the queue is HandleIncomingPackets of session s.               *)
Pulls(i, s) == callq[i].op = "receive" /\ callq[i].s = s

(* The queued CreateSession calls.                                         *)
Requests == {i \in 1 .. Len(callq) : callq[i].op \in {"connect", "accept"}}

(* Every session number taken or still to be taken from m_nSessionIDSeed     *)
(* comes from one InitiateSession or one accepted connection.               *)
Counted ==
    /\ seed + Cardinality(Requests) = used["initiate"] + used["accept"]
    /\ used["initiate"] <= MaxInitiated
    /\ used["accept"] <= MaxAccepted

(* The dispatch thread is between Add and the start of the session's thread, *)
(* or between the removal of session s and its deletion.                    *)
Starting == handler.at \in {"startConnect", "startAccept"}
Joining(s) == handler.at = "join" /\ handler.s = s

(* m_sessions, the session objects and their threads agree: until the server *)
(* is destroyed the live objects are the listed ones and the one being       *)
(* removed, and a thread exists exactly for objects that were started.       *)
Objects ==
    /\ \A s \in Sessions : life[s] = "none" <=> s > seed
    /\ mpc # "gone" =>
        /\ \A i \in 1 .. Len(sessions) : life[sessions[i]] = "live"
        /\ \A i, j \in 1 .. Len(sessions) : sessions[i] = sessions[j] => i = j
        /\ \A s \in Sessions :
              life[s] = "live" <=> Known(s) \/ Joining(s)
        /\ \A s \in Sessions : ~(Known(s) /\ Joining(s))
        /\ Starting => Known(handler.s) /\ rpc[handler.s] = "none"
        /\ \A s \in Sessions : Joining(s) => rpc[s] \in {"ending", "ended"}
        /\ \A s \in Sessions : life[s] = "deleted" => rpc[s] = "ended"
        /\ \A s \in Sessions : rpc[s] # "none" => life[s] # "none"
        /\ \A s \in Sessions : rpc[s] = "none" /\ life[s] # "none" =>
               Starting /\ handler.s = s
        /\ \A i \in 1 .. Len(handler.rest) : life[handler.rest[i]] = "live"
    /\ handler.at = "send" => handler.rest # << >>

(* A receive of session s is queued; its DISCONNECT is queued.               *)
Awaited(s) == \E i \in 1 .. Len(callq) : Pulls(i, s)

Leaving(s) ==
    \E i \in 1 .. Len(callq) : Pulls(i, s) /\ callq[i].packets = "DISCONNECT"

(* What is queued of session s, together with what the application has      *)
(* already seen of it: CONNECT is pulled first, nothing follows DISCONNECT,  *)
(* and a thread that gave up has announced it.                              *)
Talk(s) ==
    /\ Awaited(s) => life[s] = "live" /\ ~Joining(s) /\ rpc[s] # "none"
    /\ \A i \in 1 .. Len(callq) : Pulls(i, s) =>
          ((callq[i].packets = "CONNECT") <=>
              (seen[s] = << >> /\ \A j \in 1 .. i - 1 : ~Pulls(j, s)))
    /\ \A i \in 1 .. Len(callq) :
          Pulls(i, s) /\ callq[i].packets = "DISCONNECT" =>
              /\ rpc[s] \in {"ending", "ended"}
              /\ \A j \in i + 1 .. Len(callq) : ~Pulls(j, s)
    /\ rpc[s] = "none" => seen[s] = << >>
    /\ rpc[s] # "none" => seen[s] # << >> \/ Awaited(s)
    /\ Joining(s) => seen[s] # << >>
    /\ life[s] # "deleted" =>
          \A k \in 1 .. Len(seen[s]) : seen[s][k] # "DISCONNECT"
    /\ rpc[s] \in {"ending", "ended"} =>
          life[s] = "deleted" \/ Joining(s) \/ Leaving(s)

Messages == mpc # "gone" => \A s \in Sessions : Talk(s)

(* The sentinel of WaitForPendingCalls is queued after every Send, and the    *)
(* event it sets is set only while, or after, Stop waits for it.             *)
Flushing ==
    /\ mpc = "joinSession" => stopping # << >>
    /\ mpc \in {"stopped", "gone"} => completed
    /\ completed =>
          /\ mpc \in {"wait", "stopped", "gone"}
          /\ handler.at # "send"
          /\ \A i \in 1 .. Len(callq) : callq[i].op # "send"
    /\ \A i \in 1 .. Len(callq) : callq[i].op = "signal" =>
          /\ mpc \in {"wait", "stopped", "gone"}
          /\ \A j \in i + 1 .. Len(callq) : callq[j].op # "send"

(* A listener whose listen() and accept() never fail by themselves runs      *)
(* until StopListener closes its socket, and is then joined.                *)
Listening ==
    /\ mpc = "down" => lpc = "none"
    /\ mpc = "up" => lsock /\ lpc = "accepting"
    /\ mpc = "joinListener" => ~lsock /\ lquit
    /\ mpc \notin {"up", "joinListener"} => lpc # "accepting"

(* From Stop on, no connection is accepted.                                 *)
Closed == mpc \notin {"down", "up"} => ~lsock

(* If no session was being made when StopAll looked, none ever is again; a    *)
(* receiver that still reads is one that StopAll has yet to join; and the    *)
(* sentinel stays the last call of the queue.                               *)
Stopped ==
    ~late /\ mpc \in {"stopNext", "joinSession", "flush", "wait", "stopped", "gone"} =>
        /\ ~Starting
        /\ \A i \in 1 .. Len(callq) : callq[i].op \notin {"connect", "accept"}
        /\ \A s \in Sessions : rpc[s] \notin {"connect", "connecting"}
        /\ \A s \in Sessions : rpc[s] \in {"receive", "reading"} =>
              /\ mpc \in {"stopNext", "joinSession"}
              /\ \E i \in 1 .. Len(stopping) : stopping[i] = s
        /\ \A i \in 1 .. Len(callq) : callq[i].op = "signal" => i = Len(callq)
        /\ completed => CallsDispatched /\ \A s \in Sessions : Joinable(s)

(* The inductive invariant of the sessions, and that of Stop.               *)
SafeInv == TypeOK /\ Counted /\ Objects /\ Messages /\ Flushing /\ PeerLifecycle
StopInv == SafeInv /\ Closed /\ Stopped

(* The bounds are numbers, and so many sessions there can be.              *)
LEMMA SessionsAre ==
    /\ MaxInitiated \in Nat /\ MaxAccepted \in Nat
    /\ Cardinality(Sessions) = MaxInitiated + MaxAccepted
  <1>1. MaxInitiated \in Nat /\ MaxAccepted \in Nat
    BY BoundsAssumption
  <1> DEFINE n == MaxInitiated + MaxAccepted
  <1>2. n \in Nat /\ n \in Int
    BY <1>1
  <1> HIDE DEF n
  <1>3. Cardinality(1 .. n) = IF 1 > n THEN 0 ELSE n - 1 + 1
    BY <1>2, FS_Interval
  <1>4. Cardinality(1 .. n) = n
    BY <1>2, <1>3
  <1> QED BY <1>1, <1>4 DEF Sessions, n

-----------------------------------------------------------------------------
(* What the fields of a queued call hold, and which calls are queued.      *)
LEMMA CallFields ==
    /\ \A c \in Call :
          /\ c.op \in {"connect", "accept", "signal", "send", "receive"}
          /\ c.op = "receive" => c.s \in Sessions /\ c.packets \in Packets
          /\ c.op = "send" => c.s \in Sessions \cup {Broadcast}
    /\ \A how \in {"connect", "accept"} : NewSession(how) \in Call
    /\ Signal \in Call
    /\ \A s \in Sessions \cup {Broadcast} : Outgoing(s) \in Call
    /\ \A s \in Sessions, packets \in Packets : Incoming(s, packets) \in Call
  BY DEF Call, NewSession, Signal, Outgoing, Incoming

(* What the fields of the dispatch thread's state hold.                    *)
LEMMA HandlerFields ==
    /\ \A h \in Handler :
          /\ h.at \in {"idle", "startConnect", "startAccept", "join", "send"}
          /\ h.at \in {"startConnect", "startAccept", "join"} => h.s \in Sessions
          /\ h.rest \in Seq(Sessions)
          /\ h.at # "send" => h.rest = << >>
    /\ Idle \in Handler
    /\ \A at \in {"startConnect", "startAccept", "join"}, s \in Sessions :
          [at |-> at, s |-> s, rest |-> << >>] \in Handler
    /\ \A rest \in Seq(Sessions) : SendingTo(rest) \in Handler
  <1>1. << >> \in Seq(Sessions)
    OBVIOUS
  <1> QED BY <1>1 DEF Handler, Idle, SendingTo

(* Appended, for callq.                                                    *)
LEMMA EnqueueTyped ==
    ASSUME TypeOK, NEW c \in Call, Enqueue(c)
    PROVE  /\ callq' \in Seq(Call)
           /\ Len(callq) \in Nat
           /\ Len(callq') = Len(callq) + 1
           /\ callq'[Len(callq) + 1] = c
           /\ \A i \in 1 .. Len(callq) : callq'[i] = callq[i]
  BY Appended DEF TypeOK, Enqueue

(* Dequeued, for callq.                                                    *)
LEMMA DequeueTyped ==
    ASSUME TypeOK, callq # << >>, callq' = Tail(callq)
    PROVE  /\ callq' \in Seq(Call)
           /\ Len(callq) \in Nat \ {0}
           /\ Len(callq') = Len(callq) - 1
           /\ Head(callq) = callq[1] /\ callq[1] \in Call
           /\ \A i \in 1 .. Len(callq) - 1 : callq'[i] = callq[i + 1]
  BY Dequeued DEF TypeOK

LEMMA TellTyped ==
    ASSUME TypeOK, NEW s \in Sessions, NEW packets \in Packets, Tell(s, packets)
    PROVE  seen' \in [Sessions -> Seq(Packets)]
  <1>1. Append(seen[s], packets) \in Seq(Packets)
    BY Appended DEF TypeOK
  <1> QED BY <1>1 DEF TypeOK, Tell

-----------------------------------------------------------------------------
LEMMA TypeInit == Init => TypeOK
  <1> HAVE Init
  <1>1. /\ << >> \in Seq(Call) /\ << >> \in Seq(Sessions)
        /\ << >> \in Seq(Packets)
    OBVIOUS
  <1>2. 0 \in 0 .. Cardinality(Sessions) /\ 0 \in 0 .. MaxData
    BY SessionsAre, BoundsAssumption
  <1>3. /\ callq \in Seq(Call) /\ sessions \in Seq(Sessions)
        /\ stopping \in Seq(Sessions)
        /\ seen \in [Sessions -> Seq(Packets)]
        /\ handler \in Handler
        /\ seed \in 0 .. Cardinality(Sessions)
        /\ received \in [Sessions -> 0 .. MaxData]
    BY <1>1, <1>2, HandlerFields DEF Init
  <1>4. /\ life \in [Sessions -> {"none", "live", "deleted"}]
        /\ sock \in [Sessions -> {"invalid", "connecting", "connected"}]
        /\ remote \in [Sessions -> {"up", "closed"}]
        /\ rpc \in [Sessions -> {"none", "connect", "connecting", "receive",
                                 "reading", "ending", "ended"}]
        /\ ready \in [Sessions -> BOOLEAN]
        /\ login \in [Sessions -> BOOLEAN]
        /\ used \in [{"initiate", "accept", "send"} -> Nat]
    BY DEF Init
  <1> QED BY <1>3, <1>4 DEF Init, TypeOK

(* The number of the next session is one of Sessions.                       *)
LEMMA RoomForSession ==
    ASSUME TypeOK, Counted, Requests # {}
    PROVE  seed + 1 \in Sessions /\ seed + 1 \in 0 .. Cardinality(Sessions)
  <1>1. IsFiniteSet(Requests)
    <2>1. Len(callq) \in Nat /\ Len(callq) \in Int /\ 1 \in Int
      BY DEF TypeOK
    <2>2. IsFiniteSet(1 .. Len(callq))
      BY <2>1, FS_Interval
    <2>3. Requests \in SUBSET (1 .. Len(callq))
      BY DEF Requests
    <2> QED BY <2>2, <2>3, FS_Subset
  <1>2. Cardinality(Requests) \in Nat /\ Cardinality(Requests) # 0
    BY <1>1, FS_CardinalityType, FS_EmptySet
  <1>3. seed \in Nat /\ used["initiate"] \in Nat /\ used["accept"] \in Nat
    BY SessionsAre DEF TypeOK
  <1>4. seed + 1 <= MaxInitiated + MaxAccepted
    BY <1>2, <1>3, SessionsAre DEF Counted
  <1> QED BY <1>3, <1>4, SessionsAre DEF Sessions

(* Types are kept: the one hard part is that CreateSession finds a number. *)
LEMMA TypeStep ==
    ASSUME TypeOK, Counted, Objects, Flushing, [Next]_vars
    PROVE  TypeOK'
  <1> USE DEF Use, Disconnect
  <1>1. ASSUME NEW c \in Call, Enqueue(c) PROVE callq' \in Seq(Call)
    BY <1>1, EnqueueTyped
  <1>2. ASSUME NEW op, Calls(op), callq' = Tail(callq)
        PROVE  /\ callq' \in Seq(Call)
               /\ Head(callq) \in Call
               /\ Head(callq).op = op
               /\ callq # << >>
    BY <1>2, DequeueTyped DEF Calls
  <1>3. CASE Start \/ AcceptFails \/ StopListener \/ JoinListener \/ StopNext
             \/ AllStopped \/ StopReturns \/ UNCHANGED vars
    <2> USE DEF sessionVars, socketVars, eventVars, listenerVars, mainVars, TypeOK
    <2>1. CASE Start \/ AcceptFails
      BY <2>1 DEF Start, AcceptFails
    <2>2. CASE StopListener \/ JoinListener
      BY <2>2 DEF StopListener, JoinListener
    <2>3. CASE StopNext
      BY <2>3 DEF StopNext
    <2>4. CASE AllStopped \/ StopReturns
      BY <2>4 DEF AllStopped, StopReturns
    <2>5. CASE UNCHANGED vars
      BY <2>5 DEF vars
    <2> QED BY <1>3, <2>1, <2>2, <2>3, <2>4, <2>5
  <1>31. CASE StopAll
    <2>1. late' \in BOOLEAN
      BY <1>31 DEF StopAll, BeingMade
    <2> QED BY <1>31, <2>1 DEF StopAll, sessionVars, socketVars, eventVars,
                listenerVars, TypeOK
  <1>4. CASE InitiateSession \/ Accept
    BY <1>1, <1>4, CallFields
    DEF InitiateSession, Accept, sessionVars, socketVars, eventVars,
        listenerVars, mainVars, TypeOK
  <1>5. CASE \E s \in {Broadcast} \cup 1 .. seed : Send(s)
    <2>1. PICK s \in {Broadcast} \cup 1 .. seed : Send(s)
      BY <1>5
    <2>2. s \in Sessions \cup {Broadcast}
      BY SessionsAre DEF TypeOK, Sessions
    <2> QED BY <1>1, <2>1, <2>2, CallFields
            DEF Send, sessionVars, socketVars, eventVars, listenerVars,
                mainVars, TypeOK
  <1>6. ASSUME NEW s \in Sessions,
               ConnectBegin(s) \/ ConnectSucceeds(s) \/ ReceiveBegin(s)
                   \/ ReceiverEnds(s) \/ RemoteCloses(s)
        PROVE  TypeOK'
    <2> USE DEF sessionVars, socketVars, eventVars, listenerVars, mainVars, TypeOK
    <2>1. CASE ConnectBegin(s)
      BY <2>1 DEF ConnectBegin
    <2>2. CASE ConnectSucceeds(s)
      BY <2>2 DEF ConnectSucceeds
    <2>3. CASE ReceiveBegin(s)
      BY <2>3 DEF ReceiveBegin
    <2>4. CASE ReceiverEnds(s)
      BY <2>4 DEF ReceiverEnds
    <2>5. CASE RemoteCloses(s)
      BY <2>5 DEF RemoteCloses
    <2> QED BY <1>6, <2>1, <2>2, <2>3, <2>4, <2>5
  <1>7. ASSUME NEW s \in Sessions, ConnectFails(s) \/ ReadError(s) \/ ReadEof(s)
        PROVE  TypeOK'
    <2>1. Incoming(s, "DISCONNECT") \in Call /\ Incoming(s, "EMPTY") \in Call
      BY CallFields DEF Packets
    <2>2. callq' \in Seq(Call)
      BY <1>1, <1>7, <2>1 DEF ConnectFails, ReadError, ReadEof
    <2> USE DEF sessionVars, socketVars, eventVars, listenerVars, mainVars, TypeOK
    <2>3. CASE ConnectFails(s)
      BY <2>2, <2>3 DEF ConnectFails
    <2>4. CASE ReadError(s)
      BY <2>2, <2>4 DEF ReadError
    <2>5. CASE ReadEof(s)
      BY <2>2, <2>5 DEF ReadEof
    <2> QED BY <1>7, <2>3, <2>4, <2>5
  <1>8. ASSUME NEW s \in Sessions, ReadData(s) PROVE TypeOK'
    <2>1. Incoming(s, "DATA") \in Call
      BY CallFields DEF Packets
    <2>2. callq' \in Seq(Call)
      BY <1>1, <1>8, <2>1 DEF ReadData
    <2>3. received' \in [Sessions -> 0 .. MaxData]
      BY <1>8, BoundsAssumption DEF ReadData, TypeOK
    <2> QED BY <1>8, <2>2, <2>3
            DEF ReadData, sessionVars, socketVars, eventVars, listenerVars,
                mainVars, TypeOK
  <1>9. ASSUME NEW how \in {"connect", "accept"}, CreateSession(how) PROVE TypeOK'
    <2>1. callq' \in Seq(Call) /\ Head(callq).op = how /\ callq # << >>
      BY <1>2, <1>9 DEF CreateSession
    <2>2. Len(callq) \in Nat \ {0} /\ Head(callq) = callq[1]
      BY <2>1 DEF TypeOK
    <2>3. 1 \in Requests
      BY <2>1, <2>2 DEF Requests
    <2>4. seed + 1 \in Sessions /\ seed + 1 \in 0 .. Cardinality(Sessions)
      BY <2>3, RoomForSession
    <2>5. handler' \in Handler
      BY <1>9, <2>4, HandlerFields DEF CreateSession, StartAt
    <2>6. sessions' \in Seq(Sessions)
      BY <1>9, <2>4, Appended DEF CreateSession, TypeOK
    <2> QED BY <1>9, <2>1, <2>4, <2>5, <2>6
            DEF CreateSession, eventVars, listenerVars, mainVars, TypeOK
  <1>10. ASSUME NEW how \in {"connect", "accept"}, StartSession(how) PROVE TypeOK'
    <2>1. handler.s \in Sessions
      BY <1>10, HandlerFields DEF StartSession, StartAt, TypeOK
    <2>2. Incoming(handler.s, "CONNECT") \in Call
      BY <2>1, CallFields DEF Packets
    <2>3. callq' \in Seq(Call)
      BY <1>1, <1>10, <2>2 DEF StartSession
    <2> QED BY <1>10, <2>1, <2>3, HandlerFields
            DEF StartSession, StartAs, sessionVars, eventVars, listenerVars,
                mainVars, TypeOK
  <1>11. CASE HandleOutgoingPackets
    <2>1. callq' \in Seq(Call) /\ Head(callq) \in Call /\ Head(callq).op = "send"
      BY <1>2, <1>11 DEF HandleOutgoingPackets
    <2> DEFINE to == Head(callq).s
    <2>2. to \in Sessions \cup {Broadcast}
      BY <2>1, CallFields
    <2>3. Targets(to) \in Seq(Sessions)
      <3>1. CASE to = Broadcast
        BY <3>1 DEF Targets, TypeOK
      <3>2. CASE to # Broadcast
        <4>1. << >> \in Seq(Sessions) /\ <<to>> \in Seq(Sessions)
          BY <2>2, <3>2
        <4> QED BY <3>2, <4>1 DEF Targets
      <3> QED BY <3>1, <3>2
    <2>4. handler' \in Handler
      BY <1>11, <2>3, HandlerFields DEF HandleOutgoingPackets
    <2> QED BY <1>11, <2>1, <2>4
            DEF HandleOutgoingPackets, sessionVars, socketVars, eventVars,
                listenerVars, mainVars, TypeOK
  <1>12. CASE SendToNext
    <2>1. handler.rest \in Seq(Sessions) /\ handler.rest # << >>
      BY <1>12, HandlerFields DEF SendToNext, Objects, TypeOK
    <2>2. Tail(handler.rest) \in Seq(Sessions)
      BY <2>1, Dequeued
    <2>3. handler' \in Handler
      BY <1>12, <2>2, HandlerFields DEF SendToNext
    <2>4. Head(handler.rest) \in Sessions
      BY <2>1, Dequeued
    <2>5. /\ ready' \in [Sessions -> BOOLEAN]
          /\ login' \in [Sessions -> BOOLEAN]
          /\ sock' \in [Sessions -> {"invalid", "connecting", "connected"}]
      BY <1>12, <2>4 DEF SendToNext, TypeOK
    <2> QED BY <1>12, <2>3, <2>5
            DEF SendToNext, sessionVars, listenerVars, mainVars, TypeOK
  <1>13. CASE HandleIncomingPackets
    <2>1. callq' \in Seq(Call) /\ Head(callq) \in Call /\ Head(callq).op = "receive"
      BY <1>2, <1>13 DEF HandleIncomingPackets
    <2>2. Head(callq).s \in Sessions /\ Head(callq).packets \in Packets
      BY <2>1, CallFields
    <2>3. seen' \in [Sessions -> Seq(Packets)]
      BY <1>13, <2>2, TellTyped DEF HandleIncomingPackets
    <2> QED BY <1>13, <2>1, <2>3
            DEF HandleIncomingPackets, sessionVars, socketVars, eventVars,
                listenerVars, mainVars, TypeOK
  <1>14. CASE StopSession
    <2>1. callq' \in Seq(Call) /\ Head(callq) \in Call /\ Head(callq).op = "receive"
      BY <1>2, <1>14 DEF StopSession
    <2>2. Head(callq).s \in Sessions
      BY <2>1, CallFields
    <2>3. sessions' \in Seq(Sessions)
      <3>1. PICK i \in DOMAIN sessions : sessions' = RemoveAt(sessions, i)
        BY <1>14 DEF StopSession
      <3>2. sessions \in Seq(Sessions) /\ i \in 1 .. Len(sessions)
        BY DEF TypeOK
      <3> QED BY <3>1, <3>2, Removed
    <2>4. handler' \in Handler
      BY <1>14, <2>2, HandlerFields DEF StopSession
    <2> QED BY <1>14, <2>1, <2>2, <2>3, <2>4
            DEF StopSession, eventVars, listenerVars, mainVars, TypeOK
  <1>15. CASE DeleteSession
    <2>1. handler.s \in Sessions
      BY <1>15, HandlerFields DEF DeleteSession, TypeOK
    <2>2. seen' \in [Sessions -> Seq(Packets)]
      BY <1>15, <2>1, TellTyped DEF DeleteSession, Packets
    <2> QED BY <1>15, <2>1, <2>2, HandlerFields
            DEF DeleteSession, socketVars, eventVars, listenerVars, mainVars, TypeOK
  <1>16. CASE RunSignal
    BY <1>2, <1>16 DEF RunSignal, sessionVars, socketVars, eventVars,
                       listenerVars, TypeOK
  <1>17. CASE JoinSession
    <2>1. stopping # << >>
      BY <1>17 DEF JoinSession, Flushing
    <2>2. Tail(stopping) \in Seq(Sessions)
      BY <2>1, Dequeued DEF TypeOK
    <2> QED BY <1>17, <2>2 DEF JoinSession, sessionVars, socketVars, eventVars,
                               listenerVars, TypeOK
  <1>18. CASE Flush
    BY <1>1, <1>18, CallFields DEF Flush, sessionVars, socketVars, eventVars,
                                   listenerVars, TypeOK
  <1>19. CASE Destroy
    <2>1. << >> \in Seq(Sessions)
      OBVIOUS
    <2> QED BY <1>19, <2>1 DEF Destroy, socketVars, eventVars, listenerVars, TypeOK
  <1> QED
    BY <1>3, <1>31, <1>4, <1>5, <1>6, <1>7, <1>8, <1>9, <1>10, <1>11, <1>12, <1>13,
       <1>14, <1>15, <1>16, <1>17, <1>18, <1>19
    DEF Next, Dispatch, Receiver, Stop

-----------------------------------------------------------------------------
LEMMA RequestsFinite ==
    ASSUME TypeOK
    PROVE  IsFiniteSet(Requests) /\ Cardinality(Requests) \in Nat
  <1>1. Len(callq) \in Nat /\ Len(callq) \in Int /\ 1 \in Int
    BY DEF TypeOK
  <1>2. IsFiniteSet(1 .. Len(callq))
    BY <1>1, FS_Interval
  <1>3. Requests \in SUBSET (1 .. Len(callq))
    BY DEF Requests
  <1>4. IsFiniteSet(Requests)
    BY <1>2, <1>3, FS_Subset
  <1> QED BY <1>4, FS_CardinalityType

(* A queued CreateSession is one request more ...                          *)
LEMMA RequestsEnqueue ==
    ASSUME TypeOK, NEW c \in Call, Enqueue(c)
    PROVE  Cardinality(Requests') =
               IF c.op \in {"connect", "accept"} THEN Cardinality(Requests) + 1
               ELSE Cardinality(Requests)
  <1> DEFINE n == Len(callq) + 1
  <1>1. /\ Len(callq) \in Nat /\ Len(callq') = n /\ callq'[n] = c
        /\ \A i \in 1 .. Len(callq) : callq'[i] = callq[i]
    BY EnqueueTyped
  <1>2. \A i : i \in 1 .. n <=> i \in 1 .. Len(callq) \/ i = n
    BY <1>1
  <1>3. n \notin Requests
    BY <1>1 DEF Requests
  <1>4. CASE c.op \in {"connect", "accept"}
    <2>1. Requests' = Requests \cup {n}
      BY <1>1, <1>2, <1>4 DEF Requests
    <2> HIDE DEF n
    <2> QED BY <1>3, <1>4, <2>1, RequestsFinite, FS_AddElement
  <1>5. CASE c.op \notin {"connect", "accept"}
    <2>1. Requests' = Requests
      BY <1>1, <1>2, <1>5 DEF Requests
    <2> QED BY <1>5, <2>1
  <1> QED BY <1>4, <1>5

(* ... and one that is taken from the queue is one less.                   *)
LEMMA RequestsDequeue ==
    ASSUME TypeOK, callq # << >>, callq' = Tail(callq)
    PROVE  Cardinality(Requests') =
               IF Head(callq).op \in {"connect", "accept"}
               THEN Cardinality(Requests) - 1
               ELSE Cardinality(Requests)
  <1> DEFINE n == Len(callq)
             R == Requests \ {1}
             f == [i \in Requests' |-> i + 1]
  <1>1. /\ n \in Nat \ {0} /\ Len(callq') = n - 1 /\ Head(callq) = callq[1]
        /\ \A i \in 1 .. n - 1 : callq'[i] = callq[i + 1]
    BY DequeueTyped
  <1>2. \A i \in Requests' : i \in 1 .. n - 1 /\ i + 1 \in R
    BY <1>1 DEF Requests
  <1>3. \A k \in R : k \in Nat /\ k - 1 \in Requests' /\ k - 1 + 1 = k
    <2> SUFFICES ASSUME NEW k \in R
                 PROVE  k \in Nat /\ k - 1 \in Requests' /\ k - 1 + 1 = k
      OBVIOUS
    <2>1. k \in 2 .. n /\ callq[k].op \in {"connect", "accept"}
      BY <1>1 DEF Requests
    <2>2. k - 1 \in 1 .. n - 1 /\ k - 1 + 1 = k /\ k \in Nat
      BY <1>1, <2>1
    <2>3. callq'[k - 1] = callq[k]
      BY <1>1, <2>2
    <2> QED BY <1>1, <2>1, <2>2, <2>3 DEF Requests
  <1>4. f \in Bijection(Requests', R)
    <2>1. f \in [Requests' -> R]
      BY <1>2
    <2>2. \A i, j \in Requests' : f[i] = f[j] => i = j
      BY <1>2
    <2>3. \A k \in R : \E i \in Requests' : f[i] = k
      <3> SUFFICES ASSUME NEW k \in R PROVE \E i \in Requests' : f[i] = k
        OBVIOUS
      <3>1. k - 1 \in Requests' /\ f[k - 1] = k
        BY <1>3
      <3> QED BY <3>1
    <2> HIDE DEF f, R
    <2> QED BY <2>1, <2>2, <2>3 DEF Bijection, Injection, Surjection, IsInjective
  <1>5. IsFiniteSet(Requests) /\ IsFiniteSet(R)
    BY RequestsFinite, FS_RemoveElement
  <1>7. ExistsBijection(Requests', R)
    BY <1>4 DEF ExistsBijection
  <1>8. IsFiniteSet(Requests')
    <2>1. callq' \in Seq(Call)
      BY DequeueTyped
    <2>2. IsFiniteSet(1 .. Len(callq'))
      <3>1. Len(callq') \in Int /\ 1 \in Int
        BY <1>1
      <3> QED BY <3>1, FS_Interval
    <2>3. Requests' \in SUBSET (1 .. Len(callq'))
      BY DEF Requests
    <2> QED BY <2>2, <2>3, FS_Subset
  <1>9. Cardinality(R) = Cardinality(Requests')
    BY <1>7, <1>8, FS_Bijection
  <1>10. Cardinality(R) = IF 1 \in Requests THEN Cardinality(Requests) - 1
                         ELSE Cardinality(Requests)
    BY <1>5, FS_RemoveElement
  <1>11. 1 \in Requests <=> Head(callq).op \in {"connect", "accept"}
    BY <1>1 DEF Requests
  <1> QED BY <1>9, <1>10, <1>11

LEMMA CountedInit == Init => Counted
  <1> HAVE Init
  <1>1. Requests = {}
    BY DEF Init, Requests
  <1> QED BY <1>1, FS_EmptySet, SessionsAre DEF Init, Counted

(* CreateSession trades a request for a number, nothing else uses either.  *)
LEMMA CountedStep ==
    ASSUME TypeOK, Counted, [Next]_vars
    PROVE  Counted'
  <1> USE DEF Use
  <1>1. /\ seed \in Nat /\ used["initiate"] \in Nat /\ used["accept"] \in Nat
        /\ Cardinality(Requests) \in Nat
    BY RequestsFinite, SessionsAre DEF TypeOK
  <1>2. ASSUME UNCHANGED <<callq, seed, used>> PROVE Counted'
    BY <1>2 DEF Counted, Requests
  <1>3. ASSUME NEW c \in Call, Enqueue(c), c.op \notin {"connect", "accept"},
               UNCHANGED seed,
               used'["initiate"] = used["initiate"], used'["accept"] = used["accept"]
        PROVE  Counted'
    <2>1. Cardinality(Requests') = Cardinality(Requests)
      BY <1>3, RequestsEnqueue
    <2> QED BY <1>3, <2>1 DEF Counted
  <1>4. ASSUME NEW op, Calls(op), op \notin {"connect", "accept"},
               callq' = Tail(callq), UNCHANGED <<seed, used>>
        PROVE  Counted'
    <2>1. Cardinality(Requests') = Cardinality(Requests)
      BY <1>4, RequestsDequeue DEF Calls
    <2> QED BY <1>4, <2>1 DEF Counted
  <1>5. CASE InitiateSession \/ Accept
    <2>1. PICK how \in {"connect", "accept"} : Enqueue(NewSession(how))
      BY <1>5 DEF InitiateSession, Accept
    <2>2. NewSession(how) \in Call /\ NewSession(how).op = how
      BY CallFields DEF NewSession
    <2>3. Cardinality(Requests') = Cardinality(Requests) + 1
      BY <2>1, <2>2, RequestsEnqueue
    <2>4. MaxInitiated \in Nat /\ MaxAccepted \in Nat
      BY SessionsAre
    <2>5. UNCHANGED seed
      BY <1>5 DEF InitiateSession, Accept, sessionVars
    <2>6. CASE InitiateSession
      <3>1. /\ used["initiate"] < MaxInitiated
            /\ used'["initiate"] = used["initiate"] + 1
            /\ used'["accept"] = used["accept"]
        BY <2>6 DEF InitiateSession, TypeOK
      <3> QED BY <1>1, <2>3, <2>4, <2>5, <3>1 DEF Counted
    <2>7. CASE Accept
      <3>1. /\ used["accept"] < MaxAccepted
            /\ used'["accept"] = used["accept"] + 1
            /\ used'["initiate"] = used["initiate"]
        BY <2>7 DEF Accept, TypeOK
      <3> QED BY <1>1, <2>3, <2>4, <2>5, <3>1 DEF Counted
    <2> QED BY <1>5, <2>6, <2>7
  <1>6. CASE \E s \in {Broadcast} \cup 1 .. seed : Send(s)
    <2>1. PICK s \in {Broadcast} \cup 1 .. seed : Send(s)
      BY <1>6
    <2>2. s \in Sessions \cup {Broadcast}
      BY SessionsAre DEF TypeOK, Sessions
    <2>3. Outgoing(s) \in Call /\ Outgoing(s).op = "send"
      BY <2>2, CallFields DEF Outgoing
    <2>4. used'["initiate"] = used["initiate"] /\ used'["accept"] = used["accept"]
      BY <2>1 DEF Send, TypeOK
    <2> QED BY <1>3, <2>1, <2>3, <2>4 DEF Send, sessionVars
  <1>7. ASSUME NEW s \in Sessions, Receiver(s) \/ RemoteCloses(s) PROVE Counted'
    <2>1. ASSUME NEW packets \in Packets, Enqueue(Incoming(s, packets)),
                 UNCHANGED <<seed, used>>
          PROVE  Counted'
      BY <1>3, <2>1, CallFields DEF Incoming
    <2>2. CASE ConnectFails(s) \/ ReadData(s) \/ ReadEof(s) \/ ReadError(s)
      BY <2>1, <2>2 DEF ConnectFails, ReadData, ReadEof, ReadError, sessionVars, Packets
    <2> QED BY <1>2, <1>7, <2>2 DEF Receiver, ConnectBegin, ConnectSucceeds, ReceiveBegin,
                ReceiverEnds, RemoteCloses, sessionVars
  <1>8. ASSUME NEW how \in {"connect", "accept"}, CreateSession(how) PROVE Counted'
    <2>1. Cardinality(Requests') = Cardinality(Requests) - 1
      BY <1>8, RequestsDequeue DEF CreateSession, Calls
    <2> QED BY <1>1, <1>8, <2>1 DEF CreateSession, Counted
  <1>9. ASSUME NEW how \in {"connect", "accept"}, StartSession(how) PROVE Counted'
    <2>1. handler.s \in Sessions
      BY <1>9, HandlerFields DEF StartSession, StartAt, TypeOK
    <2> QED BY <1>3, <1>9, <2>1, CallFields
            DEF StartSession, sessionVars, Incoming, Packets
  <1>10. CASE HandleOutgoingPackets \/ HandleIncomingPackets \/ StopSession \/ RunSignal
    BY <1>4, <1>10 DEF HandleOutgoingPackets, HandleIncomingPackets, StopSession,
                       RunSignal, sessionVars
  <1>11. CASE Flush
    BY <1>3, <1>11, CallFields DEF Flush, Signal, sessionVars
  <1>12. CASE SendToNext \/ DeleteSession \/ JoinListener \/ StopAll \/ StopNext
              \/ JoinSession \/ AllStopped \/ StopReturns \/ Destroy
    BY <1>2, <1>12 DEF SendToNext, DeleteSession, JoinListener, StopAll, StopNext,
                       JoinSession, AllStopped, StopReturns, Destroy, sessionVars
  <1>13. CASE Start \/ AcceptFails \/ StopListener \/ UNCHANGED vars
    BY <1>2, <1>13 DEF Start, AcceptFails, StopListener, sessionVars, vars
  <1> QED
    BY <1>5, <1>6, <1>7, <1>8, <1>9, <1>10, <1>11, <1>12, <1>13
    DEF Next, Dispatch, Stop

-----------------------------------------------------------------------------
LEMMA ObjectsInit == Init => Objects
  <1> HAVE Init
  <1>1. sessions = << >> /\ handler = Idle /\ seed = 0
    BY DEF Init
  <1>2. \A s \in Sessions : life[s] = "none" /\ rpc[s] = "none" /\ s > 0
    BY DEF Init, Sessions
  <1> QED BY <1>1, <1>2 DEF Objects, Known, Joining, Starting, Idle

(* The server is not destroyed by this step.                               *)
Alive == mpc' # "gone" => mpc # "gone"

(* What a step can do to session objects and receiver threads.             *)
LEMMA Activity ==
    ASSUME [Next]_vars
    PROVE  \/ UNCHANGED <<life, seed, sessions, handler, rpc>> /\ Alive
           \/ \E s \in Sessions, to \in {"connecting", "receive", "reading", "ending", "ended"} :
                 /\ rpc' = [rpc EXCEPT ![s] = to]
                 /\ rpc[s] \notin {"none", "ended"}
                 /\ rpc[s] = "ending" => to = "ended"
                 /\ UNCHANGED <<life, seed, sessions, handler, mpc>>
           \/ \E how \in {"connect", "accept"} : CreateSession(how) \/ StartSession(how)
           \/ HandleOutgoingPackets \/ SendToNext \/ StopSession \/ DeleteSession \/ Destroy
  <1>1. CASE Start \/ AcceptFails \/ StopListener \/ JoinListener \/ StopNext
             \/ AllStopped \/ StopReturns \/ StopAll \/ JoinSession \/ Flush
    <2> USE DEF sessionVars, socketVars, Alive
    <2>1. CASE Start \/ AcceptFails \/ StopListener
      BY <2>1 DEF Start, AcceptFails, StopListener, mainVars
    <2>2. CASE JoinListener \/ StopAll \/ StopNext
      BY <2>2 DEF JoinListener, StopAll, StopNext
    <2>3. CASE JoinSession \/ AllStopped \/ Flush \/ StopReturns
      BY <2>3 DEF JoinSession, AllStopped, Flush, StopReturns
    <2> QED BY <1>1, <2>1, <2>2, <2>3
  <1>2. CASE \/ InitiateSession \/ Accept \/ HandleIncomingPackets \/ RunSignal
             \/ UNCHANGED vars \/ \E s \in {Broadcast} \cup 1 .. seed : Send(s)
    BY <1>2 DEF InitiateSession, Accept, HandleIncomingPackets, RunSignal, Send,
                vars, sessionVars, socketVars, mainVars, Alive
  <1>3. ASSUME NEW s \in Sessions, ReadData(s) \/ ReadEof(s) \/ RemoteCloses(s)
        PROVE  UNCHANGED <<life, seed, sessions, handler, rpc>> /\ Alive
    BY <1>3 DEF ReadData, ReadEof, RemoteCloses, sessionVars, socketVars, mainVars, Alive
  <1>4. ASSUME NEW s \in Sessions,
               ConnectBegin(s) \/ ConnectSucceeds(s) \/ ConnectFails(s)
                   \/ ReceiveBegin(s) \/ ReadError(s) \/ ReceiverEnds(s)
        PROVE  /\ \E to \in {"connecting", "receive", "reading", "ending", "ended"} :
                    /\ rpc' = [rpc EXCEPT ![s] = to]
                    /\ rpc[s] = "ending" => to = "ended"
               /\ rpc[s] \notin {"none", "ended"}
               /\ UNCHANGED <<life, seed, sessions, handler, mpc>>
    BY <1>4 DEF ConnectBegin, ConnectSucceeds, ConnectFails, ReceiveBegin, ReadError,
                ReceiverEnds, sessionVars, mainVars
  <1> QED BY <1>1, <1>2, <1>3, <1>4 DEF Next, Dispatch, Receiver, Stop

(* Session objects, m_sessions and the receiver threads stay in agreement. *)
LEMMA ObjectsStep ==
    ASSUME TypeOK, TypeOK', Counted, Objects, Messages, Flushing, [Next]_vars
    PROVE  Objects'
  <1>1. CASE UNCHANGED <<life, seed, sessions, handler, rpc>> /\ Alive
    BY <1>1 DEF Objects, Alive, Known, Joining, Starting
  <1>2. ASSUME NEW s \in Sessions,
               NEW to \in {"connecting", "receive", "reading", "ending", "ended"},
               rpc' = [rpc EXCEPT ![s] = to],
               rpc[s] \notin {"none", "ended"},
               rpc[s] = "ending" => to = "ended",
               UNCHANGED <<life, seed, sessions, handler, mpc>>
        PROVE  Objects'
    <2>1. /\ \A x \in Sessions : rpc'[x] = IF x = s THEN to ELSE rpc[x]
          /\ \A x \in Sessions : Joining(x)' = Joining(x) /\ Known(x)' = Known(x)
          /\ Starting' = Starting
      BY <1>2 DEF TypeOK, Known, Joining, Starting
    <2>2. Starting => handler.s \in Sessions
      BY HandlerFields DEF Starting, TypeOK
    <2> QED BY <1>2, <2>1, <2>2 DEF Objects
  <1>3. ASSUME NEW how \in {"connect", "accept"}, CreateSession(how) PROVE Objects'
    <2> DEFINE s == seed + 1
    <2>1. /\ mpc # "gone" /\ handler = Idle /\ callq # << >> /\ Head(callq).op = how
          /\ seed' = s
          /\ life' = [life EXCEPT ![s] = "live"]
          /\ sessions' = Append(sessions, s)
          /\ handler' = [at |-> StartAt(how), s |-> s, rest |-> << >>]
          /\ UNCHANGED <<rpc, mpc>>
      BY <1>3 DEF CreateSession, Calls, mainVars
    <2>2. s \in Sessions /\ seed \in Nat
      <3>1. 1 \in Requests
        BY <2>1, Dequeued DEF Requests, TypeOK
      <3> QED BY <3>1, RoomForSession, SessionsAre DEF TypeOK
    <2> HIDE DEF s
    <2>3. life[s] = "none" /\ rpc[s] = "none"
      <3>1. s > seed
        BY <2>2 DEF s
      <3>2. life[s] = "none"
        BY <2>2, <3>1 DEF Objects
      <3> QED BY <2>1, <2>2, <3>2 DEF Objects
    <2>4. /\ Len(sessions') = Len(sessions) + 1 /\ Len(sessions) \in Nat
          /\ sessions'[Len(sessions) + 1] = s
          /\ \A i \in 1 .. Len(sessions) : sessions'[i] = sessions[i]
          /\ DOMAIN sessions' = 1 .. Len(sessions') /\ DOMAIN sessions = 1 .. Len(sessions)
          /\ \A i \in 1 .. Len(sessions) : sessions[i] \in Sessions
      BY <2>1, <2>2, Appended DEF TypeOK
    <2>5. \A x \in Sessions : Known(x)' <=> Known(x) \/ x = s
      BY <2>4 DEF Known
    <2>6. /\ Starting' /\ ~Starting
          /\ handler'.s = s /\ handler'.rest = << >> /\ handler'.at # "send"
          /\ \A x \in Sessions : ~Joining(x) /\ ~Joining(x)'
      BY <2>1 DEF Starting, Joining, Idle, StartAt
    <2>7. \A x \in Sessions : life'[x] = IF x = s THEN "live" ELSE life[x]
      BY <2>1, <2>2 DEF TypeOK
    <2>8. \A x \in Sessions : life'[x] = "none" <=> x > seed'
      BY <2>1, <2>2, <2>7 DEF Objects, s, Sessions
    <2>9. \A i \in 1 .. Len(sessions') : life'[sessions'[i]] = "live"
      BY <2>1, <2>2, <2>4, <2>7 DEF Objects
    <2>10. \A i, j \in 1 .. Len(sessions') : sessions'[i] = sessions'[j] => i = j
      <3>1. \A i \in 1 .. Len(sessions) : sessions[i] # s
        BY <2>1, <2>3 DEF Objects
      <3> QED BY <2>1, <2>4, <3>1 DEF Objects
    <2> QED BY <2>1, <2>2, <2>3, <2>5, <2>6, <2>7, <2>8, <2>9, <2>10 DEF Objects
  <1>4. ASSUME NEW how \in {"connect", "accept"}, StartSession(how) PROVE Objects'
    <2>1. /\ Starting /\ handler.s \in Sessions /\ handler' = Idle
          /\ rpc' = [rpc EXCEPT ![handler.s] = StartAs(how)]
          /\ StartAs(how) \notin {"none", "ended"}
          /\ UNCHANGED <<life, seed, sessions, mpc>> /\ mpc # "gone"
      BY <1>4, HandlerFields
      DEF StartSession, StartAt, StartAs, Starting, sessionVars, mainVars, TypeOK
    <2>2. /\ \A x \in Sessions : rpc'[x] = IF x = handler.s THEN StartAs(how) ELSE rpc[x]
          /\ \A x \in Sessions : ~Joining(x)' /\ ~Joining(x)
          /\ \A x \in Sessions : Known(x)' = Known(x)
          /\ ~Starting' /\ handler'.rest = << >> /\ handler'.at # "send"
      BY <2>1 DEF Joining, Starting, Idle, Known, TypeOK
    <2> QED BY <2>1, <2>2 DEF Objects
  <1>5. CASE HandleOutgoingPackets \/ SendToNext
    <2>1. /\ UNCHANGED <<life, seed, sessions, rpc, mpc>> /\ mpc # "gone"
          /\ handler.at \in {"idle", "send"}
      BY <1>5 DEF HandleOutgoingPackets, SendToNext, Calls, Idle, sessionVars,
                  socketVars, mainVars
    <2>2. PICK rest \in Seq(Sessions) :
              /\ handler' = SendingTo(rest)
              /\ \A i \in 1 .. Len(rest) : life[rest[i]] = "live"
      <3>1. CASE HandleOutgoingPackets
        <4> DEFINE to == Head(callq).s
        <4>1. to \in Sessions \cup {Broadcast}
          BY <3>1, CallFields, Dequeued DEF HandleOutgoingPackets, Calls, TypeOK
        <4>2. CASE to = Broadcast
          BY <2>1, <3>1, <4>2 DEF HandleOutgoingPackets, Targets, TypeOK, Objects
        <4>3. CASE to # Broadcast /\ Known(to)
          <5>1. <<to>> \in Seq(Sessions) /\ handler' = SendingTo(<<to>>)
            BY <3>1, <4>1, <4>3 DEF HandleOutgoingPackets, Targets
          <5>2. life[to] = "live"
            BY <2>1, <4>1, <4>3 DEF Objects, Broadcast
          <5>3. \A i \in 1 .. Len(<<to>>) : life[<<to>>[i]] = "live"
            BY <5>2
          <5> QED BY <5>1, <5>3
        <4>4. CASE to # Broadcast /\ ~Known(to)
          <5> DEFINE none == << >>
          <5>1. none \in Seq(Sessions) /\ Len(none) = 0
            OBVIOUS
          <5>2. handler' = SendingTo(none)
            BY <3>1, <4>4 DEF HandleOutgoingPackets, Targets
          <5> HIDE DEF none
          <5>3. \A i \in 1 .. Len(none) : life[none[i]] = "live"
            BY <5>1
          <5> QED BY <5>1, <5>2, <5>3
        <4> QED BY <4>2, <4>3, <4>4
      <3>2. CASE SendToNext
        <4>1. handler.rest \in Seq(Sessions) /\ handler.rest # << >>
          BY <3>2, HandlerFields DEF SendToNext, Objects, TypeOK
        <4>2. /\ Tail(handler.rest) \in Seq(Sessions)
              /\ \A i \in 1 .. Len(Tail(handler.rest)) :
                    i + 1 \in 1 .. Len(handler.rest)
                        /\ Tail(handler.rest)[i] = handler.rest[i + 1]
          BY <4>1, Dequeued
        <4>3. handler' = SendingTo(Tail(handler.rest))
          BY <3>2 DEF SendToNext
        <4>4. \A i \in 1 .. Len(handler.rest) : life[handler.rest[i]] = "live"
          BY <2>1 DEF Objects
        <4>5. \A i \in 1 .. Len(Tail(handler.rest)) :
                 life[Tail(handler.rest)[i]] = "live"
          BY <4>2, <4>4
        <4> QED BY <4>2, <4>3, <4>5
      <3> QED BY <1>5, <3>1, <3>2
    <2>3. /\ handler'.at \in {"idle", "send"}
          /\ handler'.at = "send" => handler'.rest # << >>
          /\ \A i \in 1 .. Len(handler'.rest) : life[handler'.rest[i]] = "live"
      BY <2>2 DEF SendingTo, Idle
    <2>4. /\ \A x \in Sessions : ~Joining(x)' /\ ~Joining(x) /\ Known(x)' = Known(x)
          /\ ~Starting' /\ ~Starting
      BY <2>1, <2>3 DEF Joining, Starting, Known
    <2> QED BY <2>1, <2>3, <2>4 DEF Objects
  <1>6. CASE StopSession
    <2> DEFINE s == Head(callq).s
    <2>1. /\ mpc # "gone" /\ handler = Idle
          /\ handler' = [at |-> "join", s |-> s, rest |-> << >>]
          /\ \E i \in DOMAIN sessions : sessions[i] = s /\ sessions' = RemoveAt(sessions, i)
          /\ UNCHANGED <<life, seed, rpc, mpc>>
      BY <1>6 DEF StopSession, Calls, mainVars
    <2>2. /\ s \in Sessions /\ life[s] = "live" /\ rpc[s] \in {"ending", "ended"}
      <3>1. /\ Head(callq) = callq[1] /\ callq[1] \in Call /\ 1 \in 1 .. Len(callq)
            /\ callq[1].op = "receive" /\ callq[1].packets = "DISCONNECT"
        BY <1>6, Dequeued DEF StopSession, Calls, TypeOK
      <3>2. s \in Sessions /\ Pulls(1, s) /\ Awaited(s)
        BY <3>1, CallFields DEF Pulls, Awaited
      <3>3. Talk(s)
        BY <2>1, <3>2 DEF Messages
      <3> QED BY <3>1, <3>2, <3>3 DEF Talk
    <2> HIDE DEF s
    <2>3. PICK i \in 1 .. Len(sessions) : sessions[i] = s /\ sessions' = RemoveAt(sessions, i)
      BY <2>1 DEF TypeOK
    <2>4. /\ Len(sessions) \in Nat /\ Len(sessions') = Len(sessions) - 1
          /\ \A j \in 1 .. Len(sessions) - 1 :
                sessions'[j] = sessions[IF j < i THEN j ELSE j + 1]
      <3>1. sessions \in Seq(Sessions)
        BY DEF TypeOK
      <3> QED BY <2>3, <3>1, Removed
    <2>5. \A j, k \in 1 .. Len(sessions) : sessions[j] = sessions[k] => j = k
      BY <2>1 DEF Objects
    <2>6. DOMAIN sessions' = 1 .. Len(sessions') /\ DOMAIN sessions = 1 .. Len(sessions)
      BY DEF TypeOK
    <2>7. \A x \in Sessions : Known(x)' <=> Known(x) /\ x # s
      <3> SUFFICES ASSUME NEW x \in Sessions PROVE Known(x)' <=> Known(x) /\ x # s
        OBVIOUS
      <3>1. ASSUME NEW j \in 1 .. Len(sessions'), sessions'[j] = x PROVE Known(x) /\ x # s
        <4>1. PICK k \in 1 .. Len(sessions) : k # i /\ sessions[k] = x
          <5>1. (IF j < i THEN j ELSE j + 1) \in 1 .. Len(sessions) /\ (IF j < i THEN j ELSE j + 1) # i
            BY <2>4, <3>1
          <5> QED BY <2>4, <3>1, <5>1
        <4> QED BY <2>3, <2>5, <2>6, <4>1 DEF Known
      <3>2. ASSUME NEW k \in 1 .. Len(sessions), sessions[k] = x, x # s PROVE Known(x)'
        <4>1. k # i
          BY <2>3, <3>2
        <4>2. PICK j \in 1 .. Len(sessions) - 1 : k = IF j < i THEN j ELSE j + 1
          <5>1. CASE k < i
            <6>1. k \in 1 .. Len(sessions) - 1 /\ k = IF k < i THEN k ELSE k + 1
              BY <2>4, <5>1
            <6> QED BY <6>1
          <5>2. CASE k > i
            <6>1. k - 1 \in 1 .. Len(sessions) - 1 /\ ~(k - 1 < i) /\ k = k - 1 + 1
              BY <2>4, <5>2
            <6> QED BY <6>1
          <5> QED BY <2>4, <4>1, <5>1, <5>2
        <4> QED BY <2>4, <2>6, <3>2, <4>2 DEF Known
      <3> QED BY <2>6, <3>1, <3>2 DEF Known
    <2>8. \A j \in 1 .. Len(sessions') :
             /\ (IF j < i THEN j ELSE j + 1) \in 1 .. Len(sessions)
             /\ sessions'[j] = sessions[IF j < i THEN j ELSE j + 1]
      BY <2>4
    <2>9. /\ \A j \in 1 .. Len(sessions') : life[sessions'[j]] = "live"
          /\ \A j, k \in 1 .. Len(sessions') : sessions'[j] = sessions'[k] => j = k
      <3>1. \A j \in 1 .. Len(sessions') : life[sessions'[j]] = "live"
        <4>1. \A j \in 1 .. Len(sessions) : life[sessions[j]] = "live"
          BY <2>1 DEF Objects
        <4> QED BY <2>8, <4>1
      <3>2. ASSUME NEW j \in 1 .. Len(sessions'), NEW k \in 1 .. Len(sessions'),
                   sessions'[j] = sessions'[k]
            PROVE  j = k
        <4>1. (IF j < i THEN j ELSE j + 1) = (IF k < i THEN k ELSE k + 1)
          BY <2>5, <2>8, <3>2
        <4> QED BY <2>4, <4>1
      <3> QED BY <3>1, <3>2
    <2>10. Known(s)
      BY <2>3, <2>6 DEF Known
    <2>11. /\ \A x \in Sessions : ~Joining(x) /\ (Joining(x)' <=> x = s)
           /\ ~Starting' /\ ~Starting
           /\ handler'.rest = << >> /\ handler'.at # "send"
      BY <2>1 DEF Joining, Starting, Idle
    <2> QED BY <2>1, <2>2, <2>7, <2>9, <2>10, <2>11 DEF Objects
  <1>7. CASE DeleteSession
    <2> DEFINE s == handler.s
    <2>1. /\ mpc # "gone" /\ handler.at = "join" /\ Joinable(s) /\ handler' = Idle
          /\ life' = [life EXCEPT ![s] = "deleted"]
          /\ UNCHANGED <<sessions, seed, rpc, mpc>>
      BY <1>7 DEF DeleteSession, socketVars, mainVars
    <2>2. s \in Sessions
      BY <2>1, HandlerFields DEF TypeOK
    <2>3. /\ \A x \in Sessions : Joining(x) <=> x = s
          /\ \A x \in Sessions : ~Joining(x)'
          /\ ~Starting' /\ ~Starting
          /\ handler'.rest = << >> /\ handler'.at # "send"
          /\ \A x \in Sessions : Known(x)' = Known(x)
      BY <2>1 DEF Joining, Starting, Idle, Known
    <2> HIDE DEF s
    <2>4. \A x \in Sessions : life'[x] = IF x = s THEN "deleted" ELSE life[x]
      BY <2>1 DEF TypeOK
    <2>5. /\ rpc[s] = "ended" /\ life[s] = "live" /\ ~Known(s)
      BY <2>1, <2>2, <2>3 DEF Objects, Joinable
    <2>6. \A i \in 1 .. Len(sessions) : sessions[i] \in Sessions /\ sessions[i] # s
      <3>1. sessions \in Seq(Sessions)
        BY DEF TypeOK
      <3>2. DOMAIN sessions = 1 .. Len(sessions)
        BY <3>1
      <3>3. \A i \in 1 .. Len(sessions) : sessions[i] \in Sessions
        BY <3>1
      <3> QED BY <2>5, <3>2, <3>3 DEF Known
    <2>7. \A i \in 1 .. Len(sessions') : life'[sessions'[i]] = "live"
      BY <2>1, <2>4, <2>6 DEF Objects
    <2>8. \A x \in Sessions : (life'[x] = "none") = (life[x] = "none")
      BY <2>4, <2>5
    <2>9. \A x \in Sessions : life'[x] = "live" <=> life[x] = "live" /\ x # s
      BY <2>4, <2>5
    <2> QED BY <2>1, <2>2, <2>3, <2>4, <2>5, <2>7, <2>8, <2>9 DEF Objects
  <1>8. CASE Destroy
    <2>1. /\ mpc' = "gone" /\ mpc # "gone" /\ UNCHANGED <<seed, handler>>
          /\ life' = [s \in Sessions |-> IF Known(s) THEN "deleted" ELSE life[s]]
      BY <1>8 DEF Destroy
    <2>2. \A s \in Sessions : Known(s) => life[s] = "live"
      BY <2>1 DEF Objects
    <2> QED BY <2>1, <2>2 DEF Objects
  <1> QED BY <1>1, <1>2, <1>3, <1>4, <1>5, <1>6, <1>7, <1>8, Activity

-----------------------------------------------------------------------------
(* The receives of a session after a call is appended ...                  *)
LEMMA PullsEnqueue ==
    ASSUME TypeOK, NEW c \in Call, Enqueue(c), NEW x \in Sessions,
           NEW n, n = Len(callq)
    PROVE  /\ n \in Nat /\ Len(callq') = n + 1
           /\ \A i \in 1 .. n :
                 (Pulls(i, x)' <=> Pulls(i, x)) /\ callq'[i].packets = callq[i].packets
           /\ Pulls(n + 1, x)' <=> c.op = "receive" /\ c.s = x
           /\ callq'[n + 1].packets = c.packets
  <1>1. /\ n \in Nat /\ Len(callq') = n + 1 /\ callq'[n + 1] = c
        /\ \A i \in 1 .. n : callq'[i] = callq[i]
    BY EnqueueTyped
  <1>2. \A i \in 1 .. n : Pulls(i, x)' <=> Pulls(i, x)
    BY <1>1 DEF Pulls
  <1>3. Pulls(n + 1, x)' <=> c.op = "receive" /\ c.s = x
    BY <1>1 DEF Pulls
  <1> QED BY <1>1, <1>2, <1>3

(* ... and after the first call is taken.                                  *)
LEMMA PullsDequeue ==
    ASSUME TypeOK, callq # << >>, callq' = Tail(callq), NEW x \in Sessions
    PROVE  /\ Len(callq) \in Nat \ {0} /\ Len(callq') = Len(callq) - 1
           /\ \A i \in 1 .. Len(callq) - 1 :
                 (Pulls(i, x)' <=> Pulls(i + 1, x)) /\ callq'[i].packets = callq[i + 1].packets
           /\ Pulls(1, x) <=> Head(callq).op = "receive" /\ Head(callq).s = x
           /\ callq[1].packets = Head(callq).packets
  BY DequeueTyped DEF Pulls

(* What matters to Talk(x) of the receiver thread.                          *)
Phase(x) == CASE rpc[x] = "none" -> "none"
              [] rpc[x] \in {"ending", "ended"} -> "over"
              [] OTHER -> "on"

(* A call that is no receive of session x does not disturb Talk(x) ...     *)
LEMMA TalkEnqueueOther ==
    ASSUME TypeOK, NEW c \in Call, Enqueue(c), NEW x \in Sessions,
           ~(c.op = "receive" /\ c.s = x),
           life'[x] = life[x], seen'[x] = seen[x], Joining(x)' <=> Joining(x),
           Phase(x)' = Phase(x), Talk(x)
    PROVE  Talk(x)'
  <1>0. PICK n : n = Len(callq)
    OBVIOUS
  <1>1. /\ n \in Nat /\ Len(callq') = n + 1
        /\ \A i \in 1 .. n :
              (Pulls(i, x)' <=> Pulls(i, x)) /\ callq'[i].packets = callq[i].packets
        /\ ~Pulls(n + 1, x)'
    BY <1>0, PullsEnqueue
  <1>10. \A i \in 1 .. n + 1 : i \in 1 .. n \/ i = n + 1
    BY <1>0, <1>1
  <1>11. \A i \in 1 .. n : i \in 1 .. n + 1
    BY <1>0, <1>1
  <1>2. /\ rpc'[x] = "none" <=> rpc[x] = "none"
        /\ rpc'[x] \in {"ending", "ended"} <=> rpc[x] \in {"ending", "ended"}
    BY DEF Phase
  <1>3. Awaited(x)' <=> Awaited(x)
    BY <1>0, <1>1, <1>10, <1>11 DEF Awaited
  <1>4. Leaving(x)' <=> Leaving(x)
    BY <1>0, <1>1, <1>10, <1>11 DEF Leaving
  <1>5. \A i \in 1 .. n + 1 : Pulls(i, x)' =>
          ((callq'[i].packets = "CONNECT") <=>
              (seen'[x] = << >> /\ \A j \in 1 .. i - 1 : ~Pulls(j, x)'))
    <2> SUFFICES ASSUME NEW i \in 1 .. n + 1, Pulls(i, x)'
                 PROVE (callq'[i].packets = "CONNECT") <=>
                         (seen'[x] = << >> /\ \A j \in 1 .. i - 1 : ~Pulls(j, x)')
      OBVIOUS
    <2>1. i \in 1 .. n
      BY <1>0, <1>1, <1>10
    <2>2. \A j \in 1 .. i - 1 : Pulls(j, x)' <=> Pulls(j, x)
      BY <1>0, <1>1, <2>1
    <2>3. (callq[i].packets = "CONNECT") <=>
             (seen[x] = << >> /\ \A j \in 1 .. i - 1 : ~Pulls(j, x))
      BY <1>0, <1>1, <2>1 DEF Talk
    <2> QED BY <1>0, <1>1, <2>1, <2>2, <2>3
  <1>6. \A i \in 1 .. n + 1 :
          Pulls(i, x)' /\ callq'[i].packets = "DISCONNECT" =>
              /\ rpc'[x] \in {"ending", "ended"}
              /\ \A j \in i + 1 .. n + 1 : ~Pulls(j, x)'
    <2> SUFFICES ASSUME NEW i \in 1 .. n + 1, Pulls(i, x)',
                        callq'[i].packets = "DISCONNECT"
                 PROVE  /\ rpc'[x] \in {"ending", "ended"}
                        /\ \A j \in i + 1 .. n + 1 : ~Pulls(j, x)'
      OBVIOUS
    <2>1. i \in 1 .. n
      BY <1>0, <1>1, <1>10
    <2>2. /\ rpc[x] \in {"ending", "ended"}
          /\ \A j \in i + 1 .. n : ~Pulls(j, x)
      BY <1>0, <1>1, <2>1 DEF Talk
    <2>3. \A j \in i + 1 .. n + 1 : j \in 1 .. n \/ j = n + 1
      BY <1>0, <1>1
    <2> QED BY <1>0, <1>1, <1>2, <2>2, <2>3
  <1> QED BY <1>0, <1>1, <1>2, <1>3, <1>4, <1>5, <1>6 DEF Talk

(* ... neither when it is appended nor when it is taken,                   *)
LEMMA TalkDequeueOther ==
    ASSUME TypeOK, callq # << >>, callq' = Tail(callq), NEW x \in Sessions,
           ~(Head(callq).op = "receive" /\ Head(callq).s = x),
           life'[x] = life[x], seen'[x] = seen[x], Joining(x)' <=> Joining(x),
           Phase(x)' = Phase(x), Talk(x)
    PROVE  Talk(x)'
  <1> DEFINE n == Len(callq)
  <1>1. /\ n \in Nat \ {0} /\ Len(callq') = n - 1
        /\ \A i \in 1 .. n - 1 :
              (Pulls(i, x)' <=> Pulls(i + 1, x)) /\ callq'[i].packets = callq[i + 1].packets
        /\ ~Pulls(1, x)
    BY PullsDequeue
  <1> HIDE DEF n
  <1>2. /\ rpc'[x] = "none" <=> rpc[x] = "none"
        /\ rpc'[x] \in {"ending", "ended"} <=> rpc[x] \in {"ending", "ended"}
    BY DEF Phase
  <1>10. \A i \in 1 .. n : Pulls(i, x) => i - 1 \in 1 .. n - 1 /\ i - 1 + 1 = i
    BY <1>1
  <1>3. Awaited(x)' <=> Awaited(x)
    <2>1. ASSUME NEW i \in 1 .. n, Pulls(i, x) PROVE Pulls(i - 1, x)'
      BY <1>1, <1>10, <2>1
    <2>2. ASSUME NEW i \in 1 .. n - 1, Pulls(i, x)' PROVE i + 1 \in 1 .. n /\ Pulls(i + 1, x)
      BY <1>1, <2>2
    <2> QED BY <1>1, <1>10, <2>1, <2>2 DEF Awaited, n
  <1>4. Leaving(x)' <=> Leaving(x)
    <2>1. ASSUME NEW i \in 1 .. n, Pulls(i, x)
          PROVE Pulls(i - 1, x)' /\ callq'[i - 1].packets = callq[i].packets
      BY <1>1, <1>10, <2>1
    <2>2. ASSUME NEW i \in 1 .. n - 1, Pulls(i, x)' PROVE i + 1 \in 1 .. n /\ Pulls(i + 1, x)
      BY <1>1, <2>2
    <2> QED BY <1>1, <1>10, <2>1, <2>2 DEF Leaving, n
  <1>5. \A i \in 1 .. n - 1 : Pulls(i, x)' =>
          ((callq'[i].packets = "CONNECT") <=>
              (seen'[x] = << >> /\ \A j \in 1 .. i - 1 : ~Pulls(j, x)'))
    <2> SUFFICES ASSUME NEW i \in 1 .. n - 1, Pulls(i, x)'
                 PROVE (callq'[i].packets = "CONNECT") <=>
                         (seen'[x] = << >> /\ \A j \in 1 .. i - 1 : ~Pulls(j, x)')
      OBVIOUS
    <2>1. i + 1 \in 1 .. n /\ Pulls(i + 1, x)
      BY <1>1
    <2>2. (callq[i + 1].packets = "CONNECT") <=>
             (seen[x] = << >> /\ \A j \in 1 .. i + 1 - 1 : ~Pulls(j, x))
      BY <2>1 DEF Talk, n
    <2>3. (\A j \in 1 .. i + 1 - 1 : ~Pulls(j, x)) <=> (\A j \in 1 .. i - 1 : ~Pulls(j, x)')
      <3>1. ASSUME NEW j \in 1 .. i - 1 PROVE j + 1 \in 1 .. i + 1 - 1 /\ (Pulls(j, x)' <=> Pulls(j + 1, x))
        BY <1>1, <3>1
      <3>2. ASSUME NEW j \in 1 .. i + 1 - 1, Pulls(j, x)
            PROVE  j - 1 \in 1 .. i - 1 /\ Pulls(j - 1, x)'
        <4>1. j \in 1 .. n
          BY <1>1, <3>2
        <4>2. j - 1 \in 1 .. n - 1 /\ j - 1 + 1 = j
          BY <1>10, <3>2, <4>1
        <4>3. Pulls(j - 1, x)'
          BY <1>1, <3>2, <4>2
        <4> QED BY <4>2, <4>3
      <3> QED BY <3>1, <3>2
    <2> QED BY <1>1, <2>1, <2>2, <2>3
  <1>6. \A i \in 1 .. n - 1 :
          Pulls(i, x)' /\ callq'[i].packets = "DISCONNECT" =>
              /\ rpc'[x] \in {"ending", "ended"}
              /\ \A j \in i + 1 .. n - 1 : ~Pulls(j, x)'
    <2> SUFFICES ASSUME NEW i \in 1 .. n - 1, Pulls(i, x)',
                        callq'[i].packets = "DISCONNECT"
                 PROVE  /\ rpc'[x] \in {"ending", "ended"}
                        /\ \A j \in i + 1 .. n - 1 : ~Pulls(j, x)'
      OBVIOUS
    <2>1. i + 1 \in 1 .. n /\ Pulls(i + 1, x) /\ callq[i + 1].packets = "DISCONNECT"
      BY <1>1
    <2>2. /\ rpc[x] \in {"ending", "ended"}
          /\ \A j \in i + 1 + 1 .. n : ~Pulls(j, x)
      BY <2>1 DEF Talk, n
    <2>3. \A j \in i + 1 .. n - 1 : j + 1 \in i + 1 + 1 .. n /\ j \in 1 .. n - 1
      BY <1>1
    <2> QED BY <1>1, <1>2, <2>2, <2>3
  <1> QED BY <1>1, <1>2, <1>3, <1>4, <1>5, <1>6 DEF Talk, n

(* nor does a step that leaves the queue alone.                            *)
LEMMA TalkUndisturbed ==
    ASSUME NEW x \in Sessions, callq' = callq,
           life'[x] = life[x], seen'[x] = seen[x], Joining(x)' <=> Joining(x),
           Phase(x)' = Phase(x), Talk(x)
    PROVE  Talk(x)'
  <1>1. /\ rpc'[x] = "none" <=> rpc[x] = "none"
        /\ rpc'[x] \in {"ending", "ended"} <=> rpc[x] \in {"ending", "ended"}
    BY DEF Phase
  <1>2. Awaited(x)' = Awaited(x) /\ Leaving(x)' = Leaving(x)
    BY DEF Awaited, Leaving, Pulls
  <1>3. \A i : Pulls(i, x)' <=> Pulls(i, x)
    BY DEF Pulls
  <1> QED BY <1>1, <1>2, <1>3 DEF Talk

(* The receiver thread of x queues what it received, or DISCONNECT.        *)
LEMMA TalkReceives ==
    ASSUME TypeOK, TypeOK', Objects, mpc # "gone",
           NEW x \in Sessions, NEW packets \in {"DATA", "EMPTY", "DISCONNECT"},
           Enqueue(Incoming(x, packets)), Phase(x) = "on",
           Phase(x)' = (IF packets = "DISCONNECT" THEN "over" ELSE "on"),
           UNCHANGED <<life, seen, handler>>, Talk(x)
    PROVE  Talk(x)'
  <1> DEFINE c == Incoming(x, packets)
  <1>0. PICK n : n = Len(callq)
    OBVIOUS
  <1>1. c \in Call /\ c.op = "receive" /\ c.s = x /\ c.packets = packets
    BY CallFields DEF Incoming, Packets
  <1> HIDE DEF c
  <1>2. /\ n \in Nat /\ Len(callq') = n + 1
        /\ \A i \in 1 .. n :
              (Pulls(i, x)' <=> Pulls(i, x)) /\ callq'[i].packets = callq[i].packets
        /\ Pulls(n + 1, x)' /\ callq'[n + 1].packets = packets
    <2>1. Enqueue(c)
      BY DEF c
    <2> QED BY <1>0, <1>1, <2>1, PullsEnqueue
  <1>3. \A i \in 1 .. n + 1 : i \in 1 .. n \/ i = n + 1
    BY <1>2
  <1>4. n + 1 \in 1 .. n + 1 /\ \A j \in 1 .. n : j \in 1 .. n + 1 - 1
    BY <1>2
  <1>5. rpc[x] \notin {"none", "ending", "ended"} /\ rpc'[x] # "none"
    BY DEF Phase
  <1>6. /\ rpc'[x] \in {"ending", "ended"} => packets = "DISCONNECT"
        /\ packets = "DISCONNECT" => rpc'[x] \in {"ending", "ended"}
    BY DEF Phase
  <1>7. life[x] = "live" /\ ~Joining(x) /\ ~Joining(x)'
    <2>1. life[x] \in {"none", "live", "deleted"}
      BY DEF TypeOK
    <2> QED BY <1>5, <2>1 DEF Objects, Joining
  <1>8. Awaited(x)'
    BY <1>2, <1>4 DEF Awaited
  <1>9. seen[x] # << >> \/ \E j \in 1 .. n : Pulls(j, x)
    BY <1>0, <1>5 DEF Talk, Awaited
  <1>10. \A i \in 1 .. n + 1 : Pulls(i, x)' =>
          ((callq'[i].packets = "CONNECT") <=>
              (seen'[x] = << >> /\ \A j \in 1 .. i - 1 : ~Pulls(j, x)'))
    <2>1. ASSUME NEW i \in 1 .. n, Pulls(i, x)'
          PROVE  (callq'[i].packets = "CONNECT") <=>
                    (seen'[x] = << >> /\ \A j \in 1 .. i - 1 : ~Pulls(j, x)')
      <3>1. \A j \in 1 .. i - 1 : Pulls(j, x)' <=> Pulls(j, x)
        BY <1>2
      <3>2. (callq[i].packets = "CONNECT") <=>
               (seen[x] = << >> /\ \A j \in 1 .. i - 1 : ~Pulls(j, x))
        BY <1>0, <1>2, <2>1 DEF Talk
      <3> QED BY <1>2, <3>1, <3>2
    <2>2. ~(seen'[x] = << >> /\ \A j \in 1 .. n + 1 - 1 : ~Pulls(j, x)')
      BY <1>2, <1>4, <1>9
    <2>3. callq'[n + 1].packets # "CONNECT"
      BY <1>2
    <2>4. ASSUME NEW i \in 1 .. n + 1, i = n + 1
          PROVE  (callq'[i].packets = "CONNECT") <=>
                    (seen'[x] = << >> /\ \A j \in 1 .. i - 1 : ~Pulls(j, x)')
      <3>1. callq'[i].packets # "CONNECT"
        BY <2>3, <2>4
      <3>2. 1 .. i - 1 = 1 .. n + 1 - 1
        BY <1>2, <2>4
      <3>3. ~(seen'[x] = << >> /\ \A j \in 1 .. i - 1 : ~Pulls(j, x)')
        BY <2>2, <3>2, Zenon
      <3> QED BY <3>1, <3>3
    <2> QED BY <1>3, <2>1, <2>4
  <1>11. \A i \in 1 .. n + 1 :
          Pulls(i, x)' /\ callq'[i].packets = "DISCONNECT" =>
              /\ rpc'[x] \in {"ending", "ended"}
              /\ \A j \in i + 1 .. n + 1 : ~Pulls(j, x)'
    <2>1. ASSUME NEW i \in 1 .. n, Pulls(i, x)' PROVE callq'[i].packets # "DISCONNECT"
      BY <1>0, <1>2, <1>5, <2>1 DEF Talk
    <2>2. \A j \in n + 1 + 1 .. n + 1 : FALSE
      BY <1>2
    <2> QED BY <1>2, <1>3, <1>6, <2>1, <2>2
  <1>12. packets = "DISCONNECT" => Leaving(x)'
    BY <1>2, <1>4 DEF Leaving
  <1>13. \A k \in 1 .. Len(seen[x]) : seen[x][k] # "DISCONNECT"
    BY <1>7 DEF Talk
  <1> QED BY <1>2, <1>5, <1>6, <1>7, <1>8, <1>10, <1>11, <1>12, <1>13 DEF Talk

(* StartSession queues CONNECT for a session nobody has heard of.          *)
LEMMA TalkStarts ==
    ASSUME TypeOK, TypeOK', Objects, mpc # "gone",
           NEW how \in {"connect", "accept"}, StartSession(how),
           NEW x \in Sessions, Talk(x), x = handler.s
    PROVE  Talk(x)'
  <1> DEFINE c == Incoming(x, "CONNECT")
  <1>0. PICK n : n = Len(callq)
    OBVIOUS
  <1>1. c \in Call /\ c.op = "receive" /\ c.s = x /\ c.packets = "CONNECT"
    BY CallFields DEF Incoming, Packets
  <1>2. /\ n \in Nat /\ Len(callq') = n + 1
        /\ \A i \in 1 .. n :
              (Pulls(i, x)' <=> Pulls(i, x)) /\ callq'[i].packets = callq[i].packets
        /\ Pulls(n + 1, x)' /\ callq'[n + 1].packets = "CONNECT"
    <2>1. Enqueue(c)
      BY DEF StartSession
    <2> HIDE DEF c
    <2> QED BY <1>0, <1>1, <2>1, PullsEnqueue
  <1> HIDE DEF c
  <1>3. \A i \in 1 .. n + 1 : i \in 1 .. n \/ i = n + 1
    BY <1>2
  <1>4. n + 1 \in 1 .. n + 1 /\ \A j \in 1 .. n + 1 - 1 : j \in 1 .. n
    BY <1>2
  <1>5. Starting /\ rpc[x] = "none" /\ life[x] = "live"
    BY DEF StartSession, StartAt, Starting, Objects
  <1>6. /\ rpc'[x] \notin {"none", "ending", "ended"}
        /\ UNCHANGED <<life, seen>> /\ ~Joining(x)'
    BY DEF StartSession, StartAs, TypeOK, sessionVars, Joining, Idle
  <1>7. /\ seen[x] = << >> /\ \A i \in 1 .. n : ~Pulls(i, x)
        /\ \A k \in 1 .. Len(seen[x]) : seen[x][k] # "DISCONNECT"
    BY <1>0, <1>5 DEF Talk, Awaited
  <1>8. Awaited(x)'
    BY <1>2, <1>4 DEF Awaited
  <1>9. \A i \in 1 .. n + 1 : Pulls(i, x)' => i = n + 1
    BY <1>2, <1>3, <1>7
  <1>10. \A j \in 1 .. n + 1 - 1 : ~Pulls(j, x)'
    BY <1>2, <1>4, <1>7
  <1>11. /\ \A i \in 1 .. n + 1 : Pulls(i, x)' =>
              ((callq'[i].packets = "CONNECT") <=>
                  (seen'[x] = << >> /\ \A j \in 1 .. i - 1 : ~Pulls(j, x)'))
         /\ \A i \in 1 .. n + 1 : Pulls(i, x)' => callq'[i].packets # "DISCONNECT"
    BY <1>2, <1>6, <1>7, <1>9, <1>10
  <1> QED BY <1>2, <1>5, <1>6, <1>7, <1>8, <1>11 DEF Talk

(* HandleIncomingPackets of x; it never meets a DISCONNECT here.           *)
LEMMA TalkHears ==
    ASSUME TypeOK, TypeOK', Objects, mpc # "gone", HandleIncomingPackets,
           NEW x \in Sessions, Talk(x), x = Head(callq).s
    PROVE  Talk(x)'
  <1> DEFINE packets == Head(callq).packets
  <1>0. PICK n : n = Len(callq)
    OBVIOUS
  <1>1. /\ callq # << >> /\ callq' = Tail(callq) /\ Head(callq).op = "receive"
        /\ packets = "DISCONNECT" => ~Known(x)
        /\ Tell(x, packets) /\ handler = Idle
        /\ UNCHANGED <<handler, life, rpc>>
    BY DEF HandleIncomingPackets, Calls, sessionVars, socketVars
  <1>2. /\ n \in Nat \ {0} /\ Len(callq') = n - 1
        /\ \A i \in 1 .. n - 1 :
              (Pulls(i, x)' <=> Pulls(i + 1, x)) /\ callq'[i].packets = callq[i + 1].packets
        /\ Pulls(1, x) /\ callq[1].packets = packets
    BY <1>0, <1>1, PullsDequeue
  <1>3. packets \in Packets
    <2>1. Head(callq) \in Call
      BY <1>1, DequeueTyped
    <2> QED BY <1>1, <2>1, CallFields
  <1> HIDE DEF packets
  <1>4. 1 \in 1 .. n /\ \A j \in 1 .. 1 - 1 : FALSE
    BY <1>2
  <1>5. life[x] = "live" /\ rpc[x] # "none"
    BY <1>0, <1>2, <1>4 DEF Talk, Awaited
  <1>6. ~Joining(x) /\ ~Joining(x)' /\ packets # "DISCONNECT"
    BY <1>1, <1>5 DEF Joining, Idle, Objects
  <1>7. packets = "CONNECT" <=> seen[x] = << >>
    BY <1>0, <1>2, <1>4 DEF Talk
  <1>8. seen'[x] = IF packets = "EMPTY" THEN seen[x] ELSE Append(seen[x], packets)
    BY <1>1 DEF Tell, TypeOK
  <1>9. /\ seen'[x] # << >>
        /\ \A k \in 1 .. Len(seen'[x]) : seen'[x][k] # "DISCONNECT"
    <2>1. seen[x] \in Seq(Packets)
      BY DEF TypeOK
    <2>2. \A k \in 1 .. Len(seen[x]) : seen[x][k] # "DISCONNECT"
      BY <1>5 DEF Talk
    <2>3. CASE packets = "EMPTY"
      BY <1>7, <1>8, <2>2, <2>3
    <2>4. CASE packets # "EMPTY"
      <3> DEFINE m == Len(seen[x])
      <3>1. /\ Len(seen'[x]) = m + 1 /\ m \in Nat /\ seen'[x] \in Seq(Packets)
            /\ seen'[x][m + 1] = packets
            /\ \A k \in 1 .. m : seen'[x][k] = seen[x][k]
        BY <1>3, <1>8, <2>1, <2>4, Appended
      <3>2. \A k \in 1 .. m : seen[x][k] # "DISCONNECT"
        BY <2>2
      <3> HIDE DEF m
      <3>3. \A k \in 1 .. m + 1 : k \in 1 .. m \/ k = m + 1
        BY <3>1
      <3> QED BY <1>6, <3>1, <3>2, <3>3
    <2> QED BY <2>3, <2>4
  <1>10. \A i \in 1 .. n - 1 :
            /\ i + 1 \in 1 .. n /\ 1 \in 1 .. i + 1 - 1
            /\ Pulls(i, x)' => Pulls(i + 1, x)
    BY <1>2
  <1>11. Awaited(x)' => life'[x] = "live" /\ ~Joining(x)' /\ rpc'[x] # "none"
    BY <1>1, <1>5, <1>6
  <1>12. \A i \in 1 .. n - 1 : Pulls(i, x)' => callq'[i].packets # "CONNECT"
    BY <1>0, <1>2, <1>10 DEF Talk
  <1>13. \A i \in 1 .. n - 1 :
          Pulls(i, x)' /\ callq'[i].packets = "DISCONNECT" =>
              /\ rpc'[x] \in {"ending", "ended"}
              /\ \A j \in i + 1 .. n - 1 : ~Pulls(j, x)'
    <2> SUFFICES ASSUME NEW i \in 1 .. n - 1, Pulls(i, x)',
                        callq'[i].packets = "DISCONNECT"
                 PROVE  /\ rpc'[x] \in {"ending", "ended"}
                        /\ \A j \in i + 1 .. n - 1 : ~Pulls(j, x)'
      OBVIOUS
    <2>1. i + 1 \in 1 .. n /\ Pulls(i + 1, x) /\ callq[i + 1].packets = "DISCONNECT"
      BY <1>2, <1>10
    <2>2. /\ rpc[x] \in {"ending", "ended"}
          /\ \A j \in i + 1 + 1 .. n : ~Pulls(j, x)
      BY <1>0, <2>1 DEF Talk
    <2>3. \A j \in i + 1 .. n - 1 : j + 1 \in i + 1 + 1 .. n /\ j \in 1 .. n - 1
      BY <1>2
    <2> QED BY <1>1, <1>2, <2>2, <2>3
  <1>14. rpc[x] \in {"ending", "ended"} => Leaving(x)'
    <2> SUFFICES ASSUME rpc[x] \in {"ending", "ended"} PROVE Leaving(x)'
      OBVIOUS
    <2>1. PICK i \in 1 .. n : Pulls(i, x) /\ callq[i].packets = "DISCONNECT"
      BY <1>0, <1>5, <1>6 DEF Talk, Leaving
    <2>2. i # 1
      BY <1>2, <1>6, <2>1
    <2>3. i - 1 \in 1 .. n - 1 /\ i - 1 + 1 = i
      BY <1>2, <2>2
    <2>4. Pulls(i - 1, x)' /\ callq'[i - 1].packets = "DISCONNECT"
      BY <1>2, <2>1, <2>3
    <2>5. \E k \in 1 .. n - 1 : Pulls(k, x)' /\ callq'[k].packets = "DISCONNECT"
      BY <2>3, <2>4
    <2> QED BY <1>2, <2>5 DEF Leaving
  <1> QED BY <1>1, <1>2, <1>5, <1>6, <1>9, <1>11, <1>12, <1>13, <1>14 DEF Talk

(* StopSession takes the last receive of x.                                *)
LEMMA TalkStops ==
    ASSUME TypeOK, TypeOK', Objects, mpc # "gone", StopSession,
           NEW x \in Sessions, Talk(x), x = Head(callq).s
    PROVE  Talk(x)'
  <1>0. PICK n : n = Len(callq)
    OBVIOUS
  <1>1. /\ callq # << >> /\ callq' = Tail(callq) /\ Head(callq).op = "receive"
        /\ Head(callq).packets = "DISCONNECT"
        /\ handler' = [at |-> "join", s |-> x, rest |-> << >>]
        /\ UNCHANGED <<life, rpc, seen>>
    BY DEF StopSession, Calls
  <1>2. /\ n \in Nat \ {0} /\ Len(callq') = n - 1
        /\ \A i \in 1 .. n - 1 : Pulls(i, x)' <=> Pulls(i + 1, x)
        /\ Pulls(1, x) /\ callq[1].packets = "DISCONNECT"
    BY <1>0, <1>1, PullsDequeue
  <1>3. 1 \in 1 .. n /\ (\A j \in 1 .. 1 - 1 : FALSE)
        /\ \A i \in 1 .. n - 1 : i + 1 \in 1 + 1 .. n
    BY <1>2
  <1>4. /\ rpc[x] \in {"ending", "ended"} /\ rpc[x] # "none" /\ life[x] = "live"
        /\ \A j \in 1 + 1 .. n : ~Pulls(j, x)
        /\ ~(seen[x] = << >> /\ \A j \in 1 .. 1 - 1 : ~Pulls(j, x))
    BY <1>0, <1>2, <1>3 DEF Talk, Awaited
  <1>5. seen[x] # << >> /\ \A k \in 1 .. Len(seen[x]) : seen[x][k] # "DISCONNECT"
    BY <1>3, <1>4 DEF Talk
  <1>6. Joining(x)'
    BY <1>1 DEF Joining
  <1>7. \A i \in 1 .. n - 1 : ~Pulls(i, x)'
    BY <1>2, <1>3, <1>4
  <1>8. ~Awaited(x)'
    BY <1>2, <1>7 DEF Awaited
  <1> QED BY <1>1, <1>2, <1>4, <1>5, <1>6, <1>7, <1>8 DEF Talk

(* DeleteSession of x.                                                     *)
LEMMA TalkEnds ==
    ASSUME TypeOK, TypeOK', Objects, mpc # "gone", DeleteSession,
           NEW x \in Sessions, Talk(x), x = handler.s
    PROVE  Talk(x)'
  <1>1. /\ handler.at = "join" /\ handler' = Idle /\ UNCHANGED <<callq, rpc>>
        /\ life' = [life EXCEPT ![x] = "deleted"]
        /\ Tell(x, "DISCONNECT")
    BY DEF DeleteSession, socketVars
  <1>2. Joining(x) /\ ~Joining(x)'
    BY <1>1 DEF Joining, Idle
  <1>3. life'[x] = "deleted"
    BY <1>1 DEF TypeOK
  <1>4. rpc'[x] # "none"
    BY <1>1, <1>2 DEF Objects
  <1>5. seen'[x] = Append(seen[x], "DISCONNECT") /\ seen[x] \in Seq(Packets)
    BY <1>1 DEF Tell, TypeOK
  <1>6. seen'[x] # << >>
    <2>1. Len(seen'[x]) = Len(seen[x]) + 1 /\ Len(seen[x]) \in Nat
      BY <1>5, Appended DEF Packets
    <2> QED BY <2>1
  <1>7. \A i \in 1 .. Len(callq) : ~Pulls(i, x)
    BY <1>2 DEF Talk, Awaited
  <1>8. \A i : Pulls(i, x)' <=> Pulls(i, x)
    BY <1>1 DEF Pulls
  <1>9. ~Awaited(x)'
    BY <1>1, <1>7, <1>8 DEF Awaited
  <1> QED BY <1>1, <1>2, <1>3, <1>4, <1>6, <1>7, <1>8, <1>9 DEF Talk

LEMMA MessagesInit == Init => Messages
  <1> SUFFICES ASSUME Init, NEW x \in Sessions PROVE Talk(x)
    BY DEF Messages
  <1>1. Len(callq) = 0 /\ seen[x] = << >> /\ rpc[x] = "none" /\ Len(seen[x]) = 0
    BY DEF Init
  <1>2. ~Joining(x)
    BY DEF Init, Idle, Joining
  <1> QED BY <1>1, <1>2 DEF Talk, Awaited

(* Every step keeps what is queued and seen of every session in order.     *)
LEMMA MessagesStep ==
    ASSUME TypeOK, TypeOK', Objects, Messages, Counted, [Next]_vars
    PROVE  Messages'
  <1> SUFFICES ASSUME mpc' # "gone", NEW x \in Sessions PROVE Talk(x)'
    BY DEF Messages
  <1>1. mpc # "gone"
    BY DEF Next, Start, InitiateSession, Send, StopListener, Stop, JoinListener,
           StopAll, StopNext, JoinSession, AllStopped, Flush, StopReturns, Destroy,
           Accept, AcceptFails, Dispatch, CreateSession, StartSession,
           HandleOutgoingPackets, SendToNext, HandleIncomingPackets, StopSession,
           DeleteSession, RunSignal, Receiver, ConnectBegin, ConnectSucceeds,
           ConnectFails, ReceiveBegin, ReadData, ReadEof, ReadError, ReceiverEnds,
           RemoteCloses, mainVars, vars
  <1>2. Talk(x)
    BY <1>1 DEF Messages
  <1>3. CASE Start \/ AcceptFails \/ StopListener \/ JoinListener \/ StopNext
             \/ AllStopped \/ StopReturns \/ StopAll \/ JoinSession \/ UNCHANGED vars
    <2>1. UNCHANGED <<callq, life, seen, handler, rpc>>
      <3> USE DEF sessionVars, socketVars
      <3>1. CASE Start \/ AcceptFails \/ StopListener \/ JoinListener
        BY <3>1 DEF Start, AcceptFails, StopListener, JoinListener
      <3>2. CASE StopNext \/ AllStopped \/ StopReturns \/ StopAll \/ JoinSession
        BY <3>2 DEF StopNext, AllStopped, StopReturns, StopAll, JoinSession
      <3>3. CASE UNCHANGED vars
        BY <3>3 DEF vars
      <3> QED BY <1>3, <3>1, <3>2, <3>3
    <2> QED BY <1>2, <2>1, TalkUndisturbed DEF Joining, Phase
  <1>4. CASE \/ InitiateSession \/ Accept \/ Flush
             \/ \E s \in {Broadcast} \cup 1 .. seed : Send(s)
    <2>1. UNCHANGED <<life, seen, handler, rpc>>
      BY <1>4 DEF InitiateSession, Accept, Send, Flush, sessionVars, socketVars
    <2>2. PICK c \in Call : Enqueue(c) /\ c.op # "receive"
      <3>1. CASE InitiateSession \/ Accept \/ Flush
        BY <3>1, CallFields DEF InitiateSession, Accept, Flush, NewSession, Signal
      <3>2. CASE \E s \in {Broadcast} \cup 1 .. seed : Send(s)
        <4>1. PICK s \in {Broadcast} \cup 1 .. seed : Send(s)
          BY <3>2
        <4>2. s \in Sessions \cup {Broadcast}
          BY SessionsAre DEF TypeOK, Sessions
        <4>3. Outgoing(s) \in Call /\ Outgoing(s).op = "send"
          BY <4>2, CallFields DEF Outgoing
        <4> QED BY <4>1, <4>3 DEF Send
      <3> QED BY <1>4, <3>1, <3>2
    <2> QED BY <1>2, <2>1, <2>2, TalkEnqueueOther DEF Joining, Phase
  <1>5. ASSUME NEW s \in Sessions,
               ConnectBegin(s) \/ ConnectSucceeds(s) \/ ReceiveBegin(s)
                   \/ ReceiverEnds(s) \/ RemoteCloses(s)
        PROVE  Talk(x)'
    <2>1. UNCHANGED <<callq, life, seen, handler>> /\ Phase(x)' = Phase(x)
      <3>1. CASE ConnectBegin(s)
        BY <3>1 DEF ConnectBegin, sessionVars, Phase, TypeOK
      <3>2. CASE ConnectSucceeds(s)
        BY <3>2 DEF ConnectSucceeds, sessionVars, Phase, TypeOK
      <3>3. CASE ReceiveBegin(s)
        BY <3>3 DEF ReceiveBegin, sessionVars, Phase, TypeOK
      <3>4. CASE ReceiverEnds(s)
        BY <3>4 DEF ReceiverEnds, sessionVars, Phase, TypeOK
      <3>5. CASE RemoteCloses(s)
        BY <3>5 DEF RemoteCloses, sessionVars, Phase, TypeOK
      <3> QED BY <1>5, <3>1, <3>2, <3>3, <3>4, <3>5
    <2> QED BY <1>2, <2>1, TalkUndisturbed DEF Joining
  <1>6. ASSUME NEW s \in Sessions,
               ConnectFails(s) \/ ReadError(s) \/ ReadData(s) \/ ReadEof(s)
        PROVE  Talk(x)'
    <2>1. ASSUME NEW packets \in {"DATA", "EMPTY", "DISCONNECT"},
                 Enqueue(Incoming(s, packets)), Phase(s) = "on",
                 \A y \in Sessions : Phase(y)' =
                     IF y = s /\ packets = "DISCONNECT" THEN "over" ELSE Phase(y),
                 UNCHANGED <<life, seen, handler>>
          PROVE  Talk(x)'
      <3>1. CASE s = x
        BY <1>1, <1>2, <2>1, <3>1, TalkReceives
      <3>2. CASE s # x
        <4> DEFINE c == Incoming(s, packets)
        <4>1. c \in Call /\ c.s = s
          BY CallFields DEF Incoming, Packets
        <4>2. Enqueue(c)
          BY <2>1
        <4>3. Phase(x)' = Phase(x) /\ (Joining(x)' <=> Joining(x))
          BY <2>1, <3>2 DEF Joining
        <4> HIDE DEF c
        <4> QED BY <1>2, <2>1, <3>2, <4>1, <4>2, <4>3, TalkEnqueueOther
      <3> QED BY <3>1, <3>2
    <2>2. CASE ConnectFails(s)
      <3>1. /\ Phase(s) = "on"
            /\ \A y \in Sessions : Phase(y)' = IF y = s THEN "over" ELSE Phase(y)
        BY <2>2 DEF ConnectFails, Phase, TypeOK
      <3> QED BY <2>1, <2>2, <3>1 DEF ConnectFails, sessionVars
    <2>3. CASE ReadError(s)
      <3>1. /\ Phase(s) = "on"
            /\ \A y \in Sessions : Phase(y)' = IF y = s THEN "over" ELSE Phase(y)
        BY <2>3 DEF ReadError, Phase, TypeOK
      <3> QED BY <2>1, <2>3, <3>1 DEF ReadError, sessionVars
    <2>4. CASE ReadData(s)
      <3>1. Phase(s) = "on" /\ \A y \in Sessions : Phase(y)' = Phase(y)
        BY <2>4 DEF ReadData, socketVars, Phase
      <3> QED BY <2>1, <2>4, <3>1 DEF ReadData, sessionVars
    <2>5. CASE ReadEof(s)
      <3>1. Phase(s) = "on" /\ \A y \in Sessions : Phase(y)' = Phase(y)
        BY <2>5 DEF ReadEof, socketVars, Phase
      <3> QED BY <2>1, <2>5, <3>1 DEF ReadEof, sessionVars
    <2> QED BY <1>6, <2>2, <2>3, <2>4, <2>5
  <1>7. ASSUME NEW how \in {"connect", "accept"}, CreateSession(how) PROVE Talk(x)'
    <2>1. /\ callq # << >> /\ callq' = Tail(callq) /\ Head(callq).op # "receive"
          /\ seen' = seen /\ rpc' = rpc
          /\ life' = [life EXCEPT ![seed + 1] = "live"]
          /\ ~Joining(x) /\ ~Joining(x)'
      BY <1>7 DEF CreateSession, Calls, Joining, Idle, StartAt
    <2>2. CASE x # seed + 1
      <3>1. life'[x] = life[x]
        BY <2>1, <2>2 DEF TypeOK
      <3> QED BY <1>2, <2>1, <3>1, TalkDequeueOther DEF Phase
    <2>3. CASE x = seed + 1
      <3>1. life[x] = "none"
        BY <2>3, SessionsAre DEF Objects, TypeOK
      <3>2. life'[x] = "live"
        BY <2>1, <2>3 DEF TypeOK
      <3>3. rpc[x] = "none"
        BY <1>1, <3>1 DEF Objects
      <3>4. seen[x] = << >> /\ \A i \in 1 .. Len(callq) : ~Pulls(i, x)
        BY <1>2, <3>3 DEF Talk, Awaited
      <3>5. Len(seen[x]) = 0
        BY <3>4
      <3>6. \A i \in 1 .. Len(callq') : ~Pulls(i, x)'
        <4>1. PICK n : n = Len(callq)
          OBVIOUS
        <4>2. /\ n \in Nat \ {0} /\ Len(callq') = n - 1
              /\ \A i \in 1 .. n - 1 : Pulls(i, x)' <=> Pulls(i + 1, x)
          BY <2>1, <4>1, PullsDequeue
        <4>3. \A i \in 1 .. n - 1 : i + 1 \in 1 .. n
          BY <4>2
        <4> QED BY <3>4, <4>1, <4>2, <4>3
      <3> QED BY <2>1, <3>2, <3>3, <3>4, <3>5, <3>6 DEF Talk, Awaited
    <2> QED BY <2>2, <2>3
  <1>8. ASSUME NEW how \in {"connect", "accept"}, StartSession(how) PROVE Talk(x)'
    <2>1. CASE x = handler.s
      BY <1>1, <1>2, <1>8, <2>1, TalkStarts
    <2>2. CASE x # handler.s
      <3> DEFINE c == Incoming(handler.s, "CONNECT")
      <3>1. handler.s \in Sessions
        BY <1>8, HandlerFields DEF StartSession, StartAt, TypeOK
      <3>2. c \in Call /\ c.s = handler.s /\ Enqueue(c)
        BY <1>8, <3>1, CallFields DEF Incoming, Packets, StartSession
      <3>3. /\ ~Joining(x) /\ ~Joining(x)' /\ UNCHANGED <<life, seen>>
            /\ Phase(x)' = Phase(x)
        BY <1>8, <2>2, <3>1 DEF StartSession, StartAt, Joining, Idle, sessionVars,
           Phase, TypeOK
      <3> HIDE DEF c
      <3> QED BY <1>2, <2>2, <3>2, <3>3, TalkEnqueueOther
    <2> QED BY <2>1, <2>2
  <1>9. CASE HandleOutgoingPackets \/ RunSignal
    <2>1. /\ callq # << >> /\ callq' = Tail(callq) /\ Head(callq).op # "receive"
          /\ UNCHANGED <<life, seen, rpc>> /\ ~Joining(x) /\ ~Joining(x)'
      BY <1>9 DEF HandleOutgoingPackets, RunSignal, Calls, Joining, Idle, SendingTo,
                  sessionVars, socketVars
    <2> QED BY <1>2, <2>1, TalkDequeueOther DEF Phase
  <1>10. CASE SendToNext
    <2>1. /\ UNCHANGED <<callq, life, seen, rpc>> /\ ~Joining(x) /\ ~Joining(x)'
      BY <1>10 DEF SendToNext, Joining, Idle, SendingTo, sessionVars
    <2> QED BY <1>2, <2>1, TalkUndisturbed DEF Phase
  <1>11. CASE HandleIncomingPackets \/ StopSession
    <2>1. CASE x = Head(callq).s
      BY <1>1, <1>2, <1>11, <2>1, TalkHears, TalkStops
    <2>2. CASE x # Head(callq).s
      <3>1. /\ callq # << >> /\ callq' = Tail(callq) /\ UNCHANGED <<life, rpc>>
            /\ handler = Idle
        BY <1>11 DEF HandleIncomingPackets, StopSession, Calls, sessionVars, socketVars
      <3>2. seen'[x] = seen[x]
        BY <1>11, <2>2 DEF HandleIncomingPackets, StopSession, Tell, TypeOK
      <3>3. ~Joining(x) /\ ~Joining(x)'
        BY <1>11, <2>2, <3>1 DEF HandleIncomingPackets, StopSession, Joining, Idle
      <3> QED BY <1>2, <2>2, <3>1, <3>2, <3>3, TalkDequeueOther DEF Phase
    <2> QED BY <2>1, <2>2
  <1>12. CASE DeleteSession
    <2>1. CASE x = handler.s
      BY <1>1, <1>2, <1>12, <2>1, TalkEnds
    <2>2. CASE x # handler.s
      <3>1. /\ UNCHANGED <<callq, rpc>> /\ life'[x] = life[x] /\ seen'[x] = seen[x]
            /\ ~Joining(x) /\ ~Joining(x)'
        BY <1>12, <2>2 DEF DeleteSession, Tell, Joining, Idle, socketVars, TypeOK
      <3> QED BY <1>2, <3>1, TalkUndisturbed DEF Phase
    <2> QED BY <2>1, <2>2
  <1>13. ~Destroy
    BY DEF Destroy
  <1> QED BY <1>3, <1>4, <1>5, <1>6, <1>7, <1>8, <1>9, <1>10, <1>11, <1>12, <1>13
          DEF Next, Dispatch, Receiver, Stop

-----------------------------------------------------------------------------
LEMMA FlushingInit == Init => Flushing
  BY DEF Init, Flushing

(* A call is appended, by a step of Stop only if it is the sentinel.       *)
LEMMA FlushingEnqueue ==
    ASSUME TypeOK, Flushing, NEW c \in Call, Enqueue(c),
           c.op = "send" => mpc \notin {"wait", "stopped", "gone"},
           c.op = "signal" => mpc' = "wait",
           UNCHANGED <<stopping, completed>>,
           mpc' \in {mpc, "wait"},
           handler'.at = "send" => handler.at = "send"
    PROVE  Flushing'
  <1>0. PICK n : n = Len(callq)
    OBVIOUS
  <1>1. /\ n \in Nat /\ Len(callq') = n + 1 /\ callq'[n + 1] = c
        /\ \A i \in 1 .. n : callq'[i] = callq[i]
    BY <1>0, EnqueueTyped
  <1>2. \A i \in 1 .. n + 1 : i \in 1 .. n \/ i = n + 1
    BY <1>1
  <1>3. /\ mpc' = "joinSession" => stopping' # << >>
        /\ mpc' \in {"stopped", "gone"} => completed'
    BY DEF Flushing
  <1>4. completed' =>
          /\ mpc' \in {"wait", "stopped", "gone"}
          /\ handler'.at # "send"
          /\ \A i \in 1 .. n + 1 : callq'[i].op # "send"
    <2> SUFFICES ASSUME completed
                 PROVE  /\ mpc' \in {"wait", "stopped", "gone"}
                        /\ handler'.at # "send"
                        /\ \A i \in 1 .. n + 1 : callq'[i].op # "send"
      OBVIOUS
    <2>1. /\ mpc \in {"wait", "stopped", "gone"} /\ handler.at # "send"
          /\ \A i \in 1 .. n : callq[i].op # "send"
      BY <1>0 DEF Flushing
    <2>2. c.op # "send"
      BY <2>1
    <2> QED BY <1>1, <1>2, <2>1, <2>2
  <1>5. ASSUME NEW i \in 1 .. n + 1, callq'[i].op = "signal"
        PROVE  /\ mpc' \in {"wait", "stopped", "gone"}
               /\ \A j \in i + 1 .. n + 1 : callq'[j].op # "send"
    <2>1. CASE i = n + 1
      BY <1>1, <1>5, <2>1
    <2>2. CASE i \in 1 .. n
      <3>1. /\ mpc \in {"wait", "stopped", "gone"}
            /\ \A j \in i + 1 .. n : callq[j].op # "send"
        BY <1>0, <1>1, <1>5, <2>2 DEF Flushing
      <3>2. c.op # "send"
        BY <3>1
      <3>3. \A j \in i + 1 .. n + 1 : (j \in 1 .. n /\ j \in i + 1 .. n) \/ j = n + 1
        BY <1>1
      <3> QED BY <1>1, <3>1, <3>2, <3>3
    <2> QED BY <1>2, <2>1, <2>2
  <1> QED BY <1>1, <1>3, <1>4, <1>5 DEF Flushing

(* A call is taken; the sentinel sets the event.                           *)
LEMMA FlushingDequeue ==
    ASSUME TypeOK, Flushing, callq # << >>, callq' = Tail(callq),
           UNCHANGED <<stopping, mpc>>,
           handler'.at = "send" => handler.at = "send" \/ Head(callq).op = "send",
           completed' = (completed \/ Head(callq).op = "signal"),
           Head(callq).op = "signal" => handler'.at # "send"
    PROVE  Flushing'
  <1>0. PICK n : n = Len(callq)
    OBVIOUS
  <1>1. /\ n \in Nat \ {0} /\ Len(callq') = n - 1 /\ Head(callq) = callq[1]
        /\ \A i \in 1 .. n - 1 : callq'[i] = callq[i + 1]
    BY <1>0, DequeueTyped
  <1>2. 1 \in 1 .. n /\ \A i \in 1 .. n - 1 : i + 1 \in 1 .. n /\ i + 1 \in 1 + 1 .. n
    BY <1>1
  <1>3. /\ mpc' = "joinSession" => stopping' # << >>
        /\ mpc' \in {"stopped", "gone"} => completed'
    BY DEF Flushing
  <1>4. CASE completed
    <2>1. /\ mpc \in {"wait", "stopped", "gone"} /\ handler.at # "send"
          /\ \A i \in 1 .. n : callq[i].op # "send"
      BY <1>0, <1>4 DEF Flushing
    <2>2. handler'.at # "send" /\ \A i \in 1 .. n - 1 : callq'[i].op # "send"
      BY <1>1, <1>2, <2>1
    <2>3. \A i \in 1 .. n - 1 : \A j \in i + 1 .. n - 1 : j \in 1 .. n - 1
      BY <1>1
    <2> QED BY <1>1, <1>3, <2>1, <2>2, <2>3 DEF Flushing
  <1>5. CASE ~completed /\ Head(callq).op = "signal"
    <2>1. /\ mpc \in {"wait", "stopped", "gone"}
          /\ \A j \in 1 + 1 .. n : callq[j].op # "send"
      BY <1>0, <1>1, <1>2, <1>5 DEF Flushing
    <2>2. \A i \in 1 .. n - 1 : callq'[i].op # "send"
      BY <1>1, <1>2, <2>1
    <2>3. \A i \in 1 .. n - 1 : \A j \in i + 1 .. n - 1 : j \in 1 .. n - 1
      BY <1>1
    <2> QED BY <1>1, <1>3, <1>5, <2>1, <2>2, <2>3 DEF Flushing
  <1>6. CASE ~completed /\ Head(callq).op # "signal"
    <2>1. ASSUME NEW i \in 1 .. n - 1, callq'[i].op = "signal"
          PROVE  /\ mpc' \in {"wait", "stopped", "gone"}
                 /\ \A j \in i + 1 .. n - 1 : callq'[j].op # "send"
      <3>1. i + 1 \in 1 .. n /\ callq[i + 1].op = "signal"
        BY <1>1, <1>2, <2>1
      <3>2. /\ mpc \in {"wait", "stopped", "gone"}
            /\ \A j \in i + 1 + 1 .. n : callq[j].op # "send"
        BY <1>0, <3>1 DEF Flushing
      <3>3. \A j \in i + 1 .. n - 1 : j \in 1 .. n - 1 /\ j + 1 \in i + 1 + 1 .. n
        BY <1>1
      <3> QED BY <1>1, <3>2, <3>3
    <2>2. completed' = FALSE
      BY <1>6 DEF TypeOK
    <2> QED BY <1>1, <1>3, <2>1, <2>2 DEF Flushing
  <1> QED BY <1>4, <1>5, <1>6

LEMMA FlushingStep ==
    ASSUME TypeOK, Flushing, [Next]_vars
    PROVE  Flushing'
  <1>1. CASE UNCHANGED <<callq, handler, completed>> /\ UNCHANGED <<mpc, stopping>>
    BY <1>1 DEF Flushing
  <1>2. CASE Start \/ StopListener \/ JoinListener \/ StopAll \/ StopNext
             \/ JoinSession \/ AllStopped
    <2>1. /\ UNCHANGED <<callq, handler, completed>>
          /\ mpc \notin {"wait", "stopped", "gone"}
          /\ mpc' \notin {"wait", "stopped", "gone"}
          /\ mpc' = "joinSession" => stopping' # << >>
      <3>1. CASE Start \/ StopListener \/ JoinListener
        BY <3>1 DEF Start, StopListener, JoinListener
      <3>2. CASE StopAll \/ StopNext \/ JoinSession \/ AllStopped
        BY <3>2 DEF StopAll, StopNext, JoinSession, AllStopped
      <3> QED BY <1>2, <3>1, <3>2
    <2> QED BY <2>1 DEF Flushing
  <1>3. CASE StopReturns \/ Destroy
    <2>1. /\ UNCHANGED <<callq, handler, completed>>
          /\ mpc \in {"wait", "stopped"} /\ mpc' \in {"stopped", "gone"} /\ completed
      BY <1>3 DEF StopReturns, Destroy, Flushing
    <2> QED BY <2>1 DEF Flushing
  <1>4. CASE InitiateSession \/ Accept
    <2>1. PICK c \in Call : Enqueue(c) /\ c.op \in {"connect", "accept"}
      BY <1>4, CallFields DEF InitiateSession, Accept, NewSession
    <2>2. UNCHANGED <<stopping, completed, mpc, handler>>
      BY <1>4 DEF InitiateSession, Accept, mainVars
    <2>3. /\ c.op # "send" /\ c.op # "signal" /\ mpc' = mpc
          /\ handler'.at = "send" => handler.at = "send"
      BY <2>1, <2>2
    <2> QED BY <2>1, <2>2, <2>3, FlushingEnqueue
  <1>5. CASE \E s \in {Broadcast} \cup 1 .. seed : Send(s)
    <2>1. PICK s \in {Broadcast} \cup 1 .. seed : Send(s)
      BY <1>5
    <2>2. s \in Sessions \cup {Broadcast}
      BY SessionsAre DEF TypeOK, Sessions
    <2>3. Outgoing(s) \in Call /\ Outgoing(s).op = "send"
      BY <2>2, CallFields DEF Outgoing
    <2>4. /\ UNCHANGED <<stopping, completed, mpc, handler>> /\ mpc = "up"
          /\ Enqueue(Outgoing(s))
      BY <2>1 DEF Send, mainVars
    <2> QED BY <2>3, <2>4, FlushingEnqueue
  <1>6. CASE Flush
    <2>1. Signal \in Call /\ Signal.op = "signal"
      BY CallFields DEF Signal
    <2> QED BY <1>6, <2>1, FlushingEnqueue DEF Flush
  <1>7. ASSUME NEW s \in Sessions, Receiver(s) \/ RemoteCloses(s) PROVE Flushing'
    <2>1. ASSUME NEW packets \in Packets, Enqueue(Incoming(s, packets)),
                 UNCHANGED <<stopping, completed, mpc, handler>>
          PROVE  Flushing'
      <3>1. Incoming(s, packets) \in Call /\ Incoming(s, packets).op = "receive"
        BY CallFields DEF Incoming
      <3> DEFINE c == Incoming(s, packets)
      <3>2. c \in Call /\ c.op = "receive" /\ Enqueue(c)
        BY <2>1, <3>1
      <3> HIDE DEF c
      <3> QED BY <2>1, <3>2, FlushingEnqueue
    <2>2. CASE ConnectFails(s) \/ ReadData(s) \/ ReadEof(s) \/ ReadError(s)
      BY <2>1, <2>2 DEF ConnectFails, ReadData, ReadEof, ReadError, mainVars, Packets
    <2> QED BY <1>1, <1>7, <2>2 DEF Receiver, ConnectBegin, ConnectSucceeds, ReceiveBegin,
                ReceiverEnds, RemoteCloses, mainVars
  <1>8. ASSUME NEW how \in {"connect", "accept"}, CreateSession(how) PROVE Flushing'
    <2>1. /\ callq # << >> /\ callq' = Tail(callq) /\ Head(callq).op = how
          /\ UNCHANGED <<stopping, completed, mpc>> /\ handler'.at # "send"
          /\ completed \in BOOLEAN
      BY <1>8 DEF CreateSession, Calls, StartAt, mainVars, TypeOK
    <2> QED BY <2>1, FlushingDequeue
  <1>9. ASSUME NEW how \in {"connect", "accept"}, StartSession(how) PROVE Flushing'
    <2> DEFINE c == Incoming(handler.s, "CONNECT")
    <2>1. handler.s \in Sessions
      BY <1>9, HandlerFields DEF StartSession, StartAt, TypeOK
    <2>2. /\ c \in Call /\ c.op = "receive" /\ Enqueue(c) /\ handler'.at # "send"
          /\ UNCHANGED <<stopping, completed, mpc>>
      BY <1>9, <2>1, CallFields DEF StartSession, Incoming, Packets, Idle, mainVars
    <2> HIDE DEF c
    <2>3. UNCHANGED <<stopping, completed, mpc>> /\ handler'.at # "send"
      BY <2>2
    <2> QED BY <2>2, <2>3, FlushingEnqueue
  <1>10. CASE HandleOutgoingPackets \/ HandleIncomingPackets \/ StopSession
    <2>1. /\ callq # << >> /\ callq' = Tail(callq) /\ Head(callq).op \in {"send", "receive"}
          /\ UNCHANGED <<stopping, completed, mpc>>
          /\ handler'.at = "send" => Head(callq).op = "send" \/ handler.at = "send"
          /\ completed \in BOOLEAN
      BY <1>10 DEF HandleOutgoingPackets, HandleIncomingPackets, StopSession, Calls,
                   mainVars, TypeOK
    <2> QED BY <2>1, FlushingDequeue
  <1>11. CASE RunSignal
    <2>1. /\ callq # << >> /\ callq' = Tail(callq) /\ Head(callq).op = "signal"
          /\ UNCHANGED <<stopping, mpc>> /\ completed' = TRUE
          /\ handler'.at = "idle"
      BY <1>11 DEF RunSignal, Calls, Idle
    <2> QED BY <2>1, FlushingDequeue
  <1>12. CASE SendToNext \/ DeleteSession
    <2>1. /\ UNCHANGED <<callq, completed, mpc, stopping>>
          /\ handler'.at = "send" => handler.at = "send"
      BY <1>12 DEF SendToNext, DeleteSession, Idle, mainVars
    <2> QED BY <2>1 DEF Flushing
  <1>13. CASE AcceptFails \/ UNCHANGED vars
    BY <1>1, <1>13 DEF AcceptFails, vars, mainVars
  <1> QED BY <1>2, <1>3, <1>4, <1>5, <1>6, <1>7, <1>8, <1>9, <1>10, <1>11, <1>12, <1>13
          DEF Next, Dispatch, Stop

-----------------------------------------------------------------------------
(* What is told to the application extends what it was told properly.      *)
LEMMA LifecycleStep ==
    ASSUME TypeOK, TypeOK', Objects, Messages, PeerLifecycle, [Next]_vars
    PROVE  PeerLifecycle'
  <1>1. CASE UNCHANGED seen
    BY <1>1 DEF PeerLifecycle
  <1>2. ASSUME NEW s \in Sessions, NEW packets \in Packets, Tell(s, packets),
               packets = "CONNECT" <=> seen[s] = << >>,
               \A k \in 1 .. Len(seen[s]) : seen[s][k] # "DISCONNECT"
        PROVE  PeerLifecycle'
    <2> SUFFICES ASSUME NEW x \in Sessions, NEW i \in DOMAIN seen'[x]
                 PROVE  /\ (seen'[x][i] = "CONNECT") = (i = 1)
                        /\ seen'[x][i] = "DISCONNECT" => i = Len(seen'[x])
      BY DEF PeerLifecycle
    <2>1. CASE x # s \/ packets = "EMPTY"
      <3>1. seen'[x] = seen[x]
        BY <1>2, <2>1 DEF Tell, TypeOK
      <3> QED BY <3>1 DEF PeerLifecycle
    <2>2. CASE x = s /\ packets # "EMPTY"
      <3>0. PICK n : n = Len(seen[s])
        OBVIOUS
      <3>1. seen[s] \in Seq(Packets) /\ seen'[s] = Append(seen[s], packets)
        BY <1>2, <2>2 DEF Tell, TypeOK
      <3>2. /\ n \in Nat /\ Len(seen'[s]) = n + 1 /\ seen'[s][n + 1] = packets
            /\ \A k \in 1 .. n : seen'[s][k] = seen[s][k]
        BY <3>0, <3>1, Appended
      <3>3. DOMAIN seen[s] = 1 .. n /\ i \in 1 .. n + 1 /\ (n = 0 <=> seen[s] = << >>)
        <4>1. seen'[s] \in Seq(Packets)
          BY DEF TypeOK
        <4> QED BY <2>2, <3>0, <3>1, <3>2, <4>1
      <3>4. CASE i \in 1 .. n
        <4>1. /\ (seen[s][i] = "CONNECT") = (i = 1) /\ seen[s][i] # "DISCONNECT"
          BY <1>2, <3>0, <3>3, <3>4 DEF PeerLifecycle
        <4> QED BY <2>2, <3>2, <3>4, <4>1
      <3>5. CASE i = n + 1
        <4>1. packets = "CONNECT" <=> i = 1
          BY <1>2, <3>2, <3>3, <3>5
        <4> QED BY <2>2, <3>2, <3>5, <4>1
      <3> QED BY <3>2, <3>3, <3>4, <3>5
    <2> QED BY <2>1, <2>2
  <1>3. CASE HandleIncomingPackets
    <2> DEFINE s == Head(callq).s
               packets == Head(callq).packets
    <2>1. /\ callq # << >> /\ Head(callq).op = "receive" /\ mpc # "gone"
          /\ Tell(s, packets)
      BY <1>3 DEF HandleIncomingPackets, Calls
    <2>2. /\ Head(callq) = callq[1] /\ callq[1] \in Call /\ 1 \in 1 .. Len(callq)
      BY <2>1, Dequeued DEF TypeOK
    <2>3. s \in Sessions /\ packets \in Packets
      BY <2>1, <2>2, CallFields
    <2>4. Pulls(1, s) /\ Awaited(s) /\ Talk(s)
      BY <2>1, <2>2, <2>3 DEF Pulls, Awaited, Messages
    <2>5. packets = "CONNECT" <=> seen[s] = << >>
      <3>1. (callq[1].packets = "CONNECT") <=>
              (seen[s] = << >> /\ \A j \in 1 .. 1 - 1 : ~Pulls(j, s))
        BY <2>2, <2>4 DEF Talk
      <3>2. \A j \in 1 .. 1 - 1 : FALSE
        OBVIOUS
      <3> QED BY <2>2, <3>1, <3>2
    <2>6. \A k \in 1 .. Len(seen[s]) : seen[s][k] # "DISCONNECT"
      BY <2>4 DEF Talk
    <2> HIDE DEF s, packets
    <2> QED BY <1>2, <2>1, <2>3, <2>5, <2>6
  <1>4. CASE DeleteSession
    <2> DEFINE s == handler.s
    <2>1. /\ handler.at = "join" /\ mpc # "gone" /\ Tell(s, "DISCONNECT")
      BY <1>4 DEF DeleteSession
    <2>2. s \in Sessions /\ Joining(s)
      BY <2>1, HandlerFields DEF Joining, TypeOK
    <2>3. Talk(s) /\ life[s] = "live"
      BY <2>1, <2>2 DEF Messages, Objects
    <2>4. seen[s] # << >> /\ \A k \in 1 .. Len(seen[s]) : seen[s][k] # "DISCONNECT"
      BY <2>2, <2>3 DEF Talk
    <2>5. "DISCONNECT" \in Packets
      BY DEF Packets
    <2> HIDE DEF s
    <2> QED BY <1>2, <2>1, <2>2, <2>4, <2>5
  <1>5. CASE [Next]_vars /\ ~HandleIncomingPackets /\ ~DeleteSession
    <2> SUFFICES UNCHANGED seen
      BY <1>1
    <2>1. CASE Start \/ AcceptFails \/ StopListener \/ JoinListener \/ StopNext
               \/ AllStopped \/ StopReturns \/ StopAll \/ JoinSession
      BY <2>1 DEF Start, AcceptFails, StopListener, JoinListener, StopNext,
                  AllStopped, StopReturns, StopAll, JoinSession
    <2>2. CASE InitiateSession \/ Accept \/ Flush \/ Destroy \/ UNCHANGED vars
               \/ \E s \in {Broadcast} \cup 1 .. seed : Send(s)
      BY <2>2 DEF InitiateSession, Accept, Flush, Destroy, vars, Send
    <2>3. ASSUME NEW s \in Sessions, Receiver(s) \/ RemoteCloses(s) PROVE UNCHANGED seen
      BY <2>3 DEF Receiver, ConnectBegin, ConnectSucceeds, ConnectFails, ReceiveBegin,
                  ReadData, ReadEof, ReadError, ReceiverEnds, RemoteCloses
    <2>4. ASSUME NEW how \in {"connect", "accept"}, CreateSession(how) \/ StartSession(how)
          PROVE UNCHANGED seen
      BY <2>4 DEF CreateSession, StartSession
    <2>5. CASE HandleOutgoingPackets \/ SendToNext \/ StopSession \/ RunSignal
      BY <2>5 DEF HandleOutgoingPackets, SendToNext, StopSession, RunSignal
    <2> QED BY <1>5, <2>1, <2>2, <2>3, <2>4, <2>5 DEF Next, Dispatch, Stop
  <1> QED BY <1>3, <1>4, <1>5

LEMMA SafeInit == Init => SafeInv
  <1> HAVE Init
  <1>1. PeerLifecycle
    BY DEF Init, PeerLifecycle
  <1> QED BY <1>1, TypeInit, CountedInit, ObjectsInit, MessagesInit, FlushingInit
          DEF SafeInv

LEMMA SafeStep == SafeInv /\ [Next]_vars => SafeInv'
  <1> HAVE SafeInv /\ [Next]_vars
  <1> USE DEF SafeInv
  <1>1. TypeOK'
    BY TypeStep
  <1>2. Counted' /\ Flushing'
    BY CountedStep, FlushingStep
  <1>3. Objects'
    BY <1>1, ObjectsStep
  <1>4. Messages'
    BY <1>1, MessagesStep
  <1>5. PeerLifecycle'
    BY <1>1, LifecycleStep
  <1> QED BY <1>1, <1>2, <1>3, <1>4, <1>5

(* The inductive invariant of the sessions holds in every reachable state. *)
LEMMA SafeInvariant == Spec => []SafeInv
  BY SafeInit, SafeStep, PTL DEF Spec

(* Every variable of the peer server keeps its type, for any bounds: no    *)
(* session number beyond those of m_nSessionIDSeed is ever used.           *)
THEOREM PeerTypes == Spec => []TypeOK
  <1>1. SafeInv => TypeOK
    BY DEF SafeInv
  <1> QED BY <1>1, SafeInvariant, PTL

(* The application hears CONNECT of a session first and once, DISCONNECT   *)
(* last and once (OnReceive by the calls of m_callQueue), whatever the     *)
(* receivers do.                                                           *)
THEOREM LifecycleKept == Spec => []PeerLifecycle
  <1>1. SafeInv => PeerLifecycle
    BY DEF SafeInv
  <1> QED BY <1>1, SafeInvariant, PTL

(* The session pointers HandleOutgoingPackets copied out of m_sessions     *)
(* stay valid while it sends, although it holds no lock then.              *)
THEOREM TargetsAreLive == Spec => []SendTargetsLive
  <1>1. SafeInv => SendTargetsLive
    <2> SUFFICES ASSUME SafeInv, NEW i \in DOMAIN handler.rest
                 PROVE  life[handler.rest[i]] = "live"
      BY DEF SendTargetsLive
    <2>1. handler.rest \in Seq(Sessions) /\ (handler.at # "send" => handler.rest = << >>)
      BY HandlerFields DEF SafeInv, TypeOK
    <2>2. handler.at = "send" /\ i \in 1 .. Len(handler.rest)
      BY <2>1
    <2>3. mpc # "gone"
      BY <2>2 DEF SafeInv, Flushing
    <2> QED BY <2>2, <2>3 DEF SafeInv, Objects
  <1> QED BY <1>1, SafeInvariant, PTL

-----------------------------------------------------------------------------
LEMMA ListeningStep ==
    ASSUME ~ListenerMayFail, TypeOK, Listening, [Next]_vars
    PROVE  Listening'
  <1>1. CASE Start \/ StopListener \/ JoinListener
    <2>1. CASE Start
      BY <2>1 DEF Start, Listening
    <2>2. CASE StopListener
      <3>1. /\ mpc = "up" /\ mpc' = IF lsock THEN "joinListener" ELSE "stopAll"
            /\ lquit' = (lquit \/ lsock) /\ lsock' = FALSE
        BY <2>2 DEF StopListener
      <3>2. lsock
        BY <3>1 DEF Listening
      <3>3. mpc' = "joinListener" /\ lquit' /\ ~lsock'
        BY <3>1, <3>2
      <3> QED BY <3>3 DEF Listening
    <2>3. CASE JoinListener
      BY <2>3 DEF JoinListener, listenerVars, Listening
    <2> QED BY <1>1, <2>1, <2>2, <2>3
  <1>2. CASE AcceptFails
    BY <1>2 DEF AcceptFails, Listening, mainVars
  <1>3. CASE StopAll \/ StopNext \/ JoinSession \/ AllStopped \/ Flush
             \/ StopReturns \/ Destroy
    <2>1. /\ mpc \notin {"down", "up", "joinListener"}
          /\ mpc' \notin {"down", "up", "joinListener"}
          /\ UNCHANGED lpc
      BY <1>3 DEF StopAll, StopNext, JoinSession, AllStopped, Flush, StopReturns,
                  Destroy, listenerVars
    <2> QED BY <2>1 DEF Listening
  <1>4. CASE UNCHANGED <<mpc, lpc, lsock, lquit>>
    BY <1>4 DEF Listening
  <1>5. CASE InitiateSession \/ Accept \/ UNCHANGED vars
             \/ \E s \in {Broadcast} \cup 1 .. seed : Send(s)
    BY <1>4, <1>5 DEF InitiateSession, Accept, vars, Send, listenerVars, mainVars
  <1>6. CASE Dispatch
    BY <1>4, <1>6 DEF Dispatch, CreateSession, StartSession, HandleOutgoingPackets,
                      SendToNext, HandleIncomingPackets, StopSession, DeleteSession,
                      RunSignal, listenerVars, mainVars
  <1>7. ASSUME NEW s \in Sessions, Receiver(s) \/ RemoteCloses(s) PROVE Listening'
    BY <1>4, <1>7 DEF Receiver, ConnectBegin, ConnectSucceeds, ConnectFails, ReceiveBegin,
                ReadData, ReadEof, ReadError, ReceiverEnds, RemoteCloses, listenerVars,
                mainVars
  <1> QED BY <1>1, <1>2, <1>3, <1>5, <1>6, <1>7 DEF Next, Stop

(* The main thread is past the moment StopAll looked.                      *)
InStop == mpc \in {"stopNext", "joinSession", "flush", "wait", "stopped", "gone"}

(* A call that is appended while StopAll goes on, and no request ...       *)
LEMMA StoppedEnqueue ==
    ASSUME TypeOK, Flushing, Stopped, NEW c \in Call, Enqueue(c),
           ~late, InStop, mpc # "stopped", ~completed,
           c.op \notin {"connect", "accept"},
           \A i \in 1 .. Len(callq) : callq[i].op # "signal",
           ~Starting',
           \A s \in Sessions : rpc'[s] \notin {"connect", "connecting"},
           \A s \in Sessions : rpc'[s] \in {"receive", "reading"} =>
               /\ mpc' \in {"stopNext", "joinSession"}
               /\ \E i \in 1 .. Len(stopping') : stopping'[i] = s,
           UNCHANGED completed
    PROVE  Stopped'
  <1>0. PICK n : n = Len(callq)
    OBVIOUS
  <1>1. /\ n \in Nat /\ Len(callq') = n + 1 /\ callq'[n + 1] = c
        /\ \A i \in 1 .. n : callq'[i] = callq[i]
    BY <1>0, EnqueueTyped
  <1>2. \A i \in 1 .. n + 1 : i \in 1 .. n \/ i = n + 1
    BY <1>1
  <1>3. \A i \in 1 .. n : callq[i].op \notin {"connect", "accept"}
    BY <1>0 DEF Stopped, InStop
  <1>4. \A i \in 1 .. n + 1 : callq'[i].op \notin {"connect", "accept"}
    BY <1>1, <1>2, <1>3
  <1>5. \A i \in 1 .. n + 1 : callq'[i].op = "signal" => i = n + 1
    BY <1>0, <1>1, <1>2
  <1> QED BY <1>1, <1>4, <1>5 DEF Stopped

(* ... or is taken from the queue, keeps Stopped.                          *)
LEMMA StoppedDequeue ==
    ASSUME TypeOK, Flushing, Stopped, callq # << >>, callq' = Tail(callq),
           ~late, InStop, UNCHANGED <<mpc, rpc, stopping>>, ~Starting',
           completed' => CallsDispatched' /\ \A s \in Sessions : Joinable(s)'
    PROVE  Stopped'
  <1>0. PICK n : n = Len(callq)
    OBVIOUS
  <1>1. /\ n \in Nat \ {0} /\ Len(callq') = n - 1
        /\ \A i \in 1 .. n - 1 : callq'[i] = callq[i + 1]
    BY <1>0, DequeueTyped
  <1>2. \A i \in 1 .. n - 1 : i + 1 \in 1 .. n /\ (i + 1 = n => i = n - 1)
    BY <1>1
  <1>3. \A i \in 1 .. n : callq[i].op \notin {"connect", "accept"}
    BY <1>0 DEF Stopped, InStop
  <1>4. \A i \in 1 .. n - 1 : callq'[i].op \notin {"connect", "accept"}
    BY <1>1, <1>2, <1>3
  <1>5. \A i \in 1 .. n : callq[i].op = "signal" => i = n
    BY <1>0 DEF Stopped, InStop
  <1>6. \A i \in 1 .. n - 1 : callq'[i].op = "signal" => i = n - 1
    BY <1>1, <1>2, <1>5
  <1>7. /\ \A s \in Sessions : rpc'[s] \notin {"connect", "connecting"}
        /\ \A s \in Sessions : rpc'[s] \in {"receive", "reading"} =>
              /\ mpc' \in {"stopNext", "joinSession"}
              /\ \E i \in 1 .. Len(stopping') : stopping'[i] = s
    BY DEF Stopped, InStop
  <1> QED BY <1>1, <1>4, <1>6, <1>7 DEF Stopped

(* StopAll establishes Stopped, every later step keeps it.                 *)
LEMMA StoppedStep ==
    ASSUME TypeOK, TypeOK', Objects, Messages, Flushing, Closed, Stopped, [Next]_vars
    PROVE  Stopped'
  <1>1. CASE StopAll
    <2>1. SUFFICES ASSUME ~late' PROVE Stopped'
      BY DEF Stopped
    <2>2. /\ mpc = "stopAll" /\ mpc' = "stopNext" /\ stopping' = sessions
          /\ UNCHANGED <<callq, handler, rpc, completed>>
      BY <1>1 DEF StopAll, socketVars
    <2>3. /\ \A i \in DOMAIN callq : callq[i].op \notin {"connect", "accept"}
          /\ ~Starting
          /\ \A s \in Sessions : rpc[s] \notin {"connect", "connecting"}
      BY <1>1, <2>1 DEF StopAll, BeingMade, Starting
    <2>4. DOMAIN callq = 1 .. Len(callq) /\ DOMAIN sessions = 1 .. Len(sessions)
      BY DEF TypeOK
    <2>5. ASSUME NEW s \in Sessions, rpc[s] \in {"receive", "reading"}
          PROVE  \E i \in 1 .. Len(sessions) : sessions[i] = s
      <3>1. life[s] # "none" /\ life[s] # "deleted" /\ ~Joining(s)
        BY <2>2, <2>5 DEF Objects
      <3>2. life[s] = "live"
        BY <3>1 DEF TypeOK
      <3>3. Known(s)
        BY <2>2, <3>1, <3>2 DEF Objects
      <3> QED BY <2>4, <3>3 DEF Known
    <2>6. ~completed /\ \A i \in 1 .. Len(callq) : callq[i].op # "signal"
      BY <2>2 DEF Flushing
    <2>7. ~Starting'
      BY <2>2, <2>3 DEF Starting
    <2> QED BY <2>2, <2>3, <2>4, <2>5, <2>6, <2>7 DEF Stopped
  <1>2. CASE ~StopAll
    <2>0. SUFFICES ASSUME ~late', InStop' PROVE Stopped'
      BY DEF Stopped, InStop
    <2>1. ~late /\ InStop
      <3> USE DEF InStop, mainVars
      <3>1. CASE Start \/ StopListener \/ JoinListener \/ Destroy
        BY <2>0, <3>1 DEF Start, StopListener, JoinListener, Destroy
      <3>2. CASE StopNext \/ JoinSession \/ AllStopped \/ Flush \/ StopReturns
        BY <2>0, <3>2 DEF StopNext, JoinSession, AllStopped, Flush, StopReturns
      <3>3. CASE InitiateSession \/ Accept \/ AcceptFails \/ UNCHANGED vars
                 \/ \E s \in {Broadcast} \cup 1 .. seed : Send(s)
        BY <2>0, <3>3 DEF InitiateSession, Accept, AcceptFails, vars, Send
      <3>4. CASE Dispatch
        BY <2>0, <3>4 DEF Dispatch, CreateSession, StartSession, HandleOutgoingPackets,
                      SendToNext, HandleIncomingPackets, StopSession, DeleteSession,
                      RunSignal
      <3>5. ASSUME NEW s \in Sessions, Receiver(s) \/ RemoteCloses(s)
            PROVE ~late /\ InStop
        BY <2>0, <3>5 DEF Receiver, ConnectBegin, ConnectSucceeds, ConnectFails,
           ReceiveBegin, ReadData, ReadEof, ReadError, ReceiverEnds, RemoteCloses
      <3> QED BY <1>2, <3>1, <3>2, <3>3, <3>4, <3>5 DEF Next, Stop
    <2>2. /\ ~Starting
          /\ \A i \in 1 .. Len(callq) : callq[i].op \notin {"connect", "accept"}
          /\ \A s \in Sessions : rpc[s] \notin {"connect", "connecting"}
          /\ \A s \in Sessions : rpc[s] \in {"receive", "reading"} =>
                /\ mpc \in {"stopNext", "joinSession"}
                /\ \E i \in 1 .. Len(stopping) : stopping[i] = s
          /\ \A i \in 1 .. Len(callq) : callq[i].op = "signal" => i = Len(callq)
          /\ completed => CallsDispatched /\ \A s \in Sessions : Joinable(s)
      BY <2>1 DEF Stopped, InStop
    <2>3. mpc \in {"stopNext", "joinSession", "flush"} =>
             ~completed /\ \A i \in 1 .. Len(callq) : callq[i].op # "signal"
      BY DEF Flushing
    <2>4. ~(Accept \/ InitiateSession \/ Start \/ StopListener
              \/ JoinListener \/ \E s \in {Broadcast} \cup 1 .. seed : Send(s))
      BY <2>1 DEF Closed, InStop, Accept, InitiateSession, Start,
                  StopListener, JoinListener, Send
    <2>5. ASSUME UNCHANGED <<callq, handler, rpc, completed>>,
                 \A s \in Sessions : rpc[s] \in {"receive", "reading"} =>
                    /\ mpc' \in {"stopNext", "joinSession"}
                    /\ \E i \in 1 .. Len(stopping') : stopping'[i] = s
          PROVE  Stopped'
      BY <2>2, <2>5 DEF Stopped, Starting, CallsDispatched, Joinable
    <2>6. CASE StopNext \/ StopReturns
      <3>1. /\ UNCHANGED <<callq, handler, rpc, completed, stopping>>
            /\ mpc \in {"stopNext", "joinSession"} => mpc' \in {"stopNext", "joinSession"}
        BY <2>6 DEF StopNext, StopReturns, socketVars
      <3> QED BY <2>2, <2>5, <3>1
    <2>7. CASE AllStopped
      <3>1. Len(stopping) = 0 /\ UNCHANGED <<callq, handler, rpc, completed>>
        BY <2>7 DEF AllStopped, socketVars
      <3>2. \A s \in Sessions : rpc[s] \notin {"receive", "reading"}
        BY <2>2, <3>1
      <3> QED BY <2>5, <3>1, <3>2
    <2>8. CASE JoinSession
      <3>1. /\ stopping # << >> /\ stopping' = Tail(stopping) /\ mpc' = "stopNext"
            /\ Joinable(Head(stopping)) /\ UNCHANGED <<callq, handler, rpc, completed>>
        BY <2>8 DEF JoinSession, Flushing, socketVars
      <3>0. PICK n : n = Len(stopping)
        OBVIOUS
      <3>2. /\ n \in Nat \ {0} /\ Len(stopping') = n - 1
            /\ Head(stopping) = stopping[1]
            /\ \A i \in 1 .. n - 1 : stopping'[i] = stopping[i + 1]
        BY <3>0, <3>1, Dequeued DEF TypeOK
      <3>3. ASSUME NEW s \in Sessions, rpc[s] \in {"receive", "reading"}
            PROVE  \E i \in 1 .. n - 1 : stopping'[i] = s
        <4>1. PICK i \in 1 .. n : stopping[i] = s
          BY <2>2, <3>0, <3>3
        <4>2. i # 1
          BY <3>1, <3>2, <3>3, <4>1 DEF Joinable
        <4>3. i - 1 \in 1 .. n - 1 /\ i - 1 + 1 = i
          BY <3>2, <4>2
        <4>4. stopping'[i - 1] = s
          BY <3>2, <4>1, <4>3
        <4> QED BY <4>3, <4>4
      <3> QED BY <2>5, <3>1, <3>2, <3>3
    <2>9. CASE AcceptFails \/ UNCHANGED vars
      BY <2>2, <2>5, <2>9 DEF AcceptFails, vars, socketVars, mainVars
    <2>10. CASE Flush
      <3>1. /\ mpc = "flush" /\ Enqueue(Signal) /\ Signal \in Call /\ Signal.op = "signal"
            /\ UNCHANGED <<handler, rpc, stopping, completed>>
        BY <2>10, CallFields DEF Flush, Signal, socketVars
      <3>2. \A s \in Sessions : rpc'[s] \notin {"receive", "reading", "connect", "connecting"}
        BY <2>2, <3>1
      <3>3. ~Starting'
        BY <2>2, <3>1 DEF Starting
      <3>4. ~completed /\ \A i \in 1 .. Len(callq) : callq[i].op # "signal"
        BY <2>3, <3>1
      <3>5. mpc # "stopped" /\ Signal.op \notin {"connect", "accept"}
        BY <3>1
      <3> HIDE DEF Signal
      <3> QED BY <2>1, <3>1, <3>2, <3>3, <3>4, <3>5, StoppedEnqueue
    <2>11. ASSUME NEW s \in Sessions, Receiver(s) \/ RemoteCloses(s) PROVE Stopped'
      <3>1. ~(ConnectBegin(s) \/ ConnectSucceeds(s) \/ ConnectFails(s))
        BY <2>2 DEF ConnectBegin, ConnectSucceeds, ConnectFails
      <3>2. CASE RemoteCloses(s)
        BY <2>2, <2>5, <3>2 DEF RemoteCloses, mainVars
      <3>3. CASE ReceiveBegin(s) \/ ReceiverEnds(s)
        <4>1. /\ UNCHANGED <<callq, handler, mpc, stopping, completed>>
              /\ \/ rpc[s] = "receive" /\ rpc' = [rpc EXCEPT ![s] = "reading"]
                 \/ rpc[s] = "ending" /\ rpc' = [rpc EXCEPT ![s] = "ended"]
          BY <3>3 DEF ReceiveBegin, ReceiverEnds, mainVars
        <4>2. ~completed
          BY <2>2, <4>1 DEF Joinable
        <4>3. ~Starting'
          BY <2>2, <4>1 DEF Starting
        <4>4. /\ \A x \in Sessions : rpc'[x] \notin {"connect", "connecting"}
              /\ \A x \in Sessions : rpc'[x] \in {"receive", "reading"} =>
                    rpc[x] \in {"receive", "reading"}
          <5>1. CASE rpc[s] = "receive" /\ rpc' = [rpc EXCEPT ![s] = "reading"]
            <6>1. \A x \in Sessions : rpc'[x] = IF x = s THEN "reading" ELSE rpc[x]
              BY <5>1 DEF TypeOK
            <6> QED BY <2>2, <5>1, <6>1
          <5>2. CASE rpc[s] = "ending" /\ rpc' = [rpc EXCEPT ![s] = "ended"]
            <6>1. \A x \in Sessions : rpc'[x] = IF x = s THEN "ended" ELSE rpc[x]
              BY <5>2 DEF TypeOK
            <6> QED BY <2>2, <5>2, <6>1
          <5> QED BY <4>1, <5>1, <5>2
        <4> QED BY <2>2, <4>1, <4>2, <4>3, <4>4 DEF Stopped
      <3>4. CASE ReadData(s) \/ ReadEof(s) \/ ReadError(s)
        <4>1. PICK packets \in Packets : Enqueue(Incoming(s, packets))
          BY <3>4 DEF ReadData, ReadEof, ReadError, Packets
        <4>2. /\ rpc[s] = "reading" /\ UNCHANGED <<handler, mpc, stopping, completed>>
              /\ \/ rpc' = rpc
                 \/ rpc' = [rpc EXCEPT ![s] = "ending"]
          BY <3>4 DEF ReadData, ReadEof, ReadError, socketVars, mainVars
        <4> DEFINE c == Incoming(s, packets)
        <4>3. c \in Call /\ c.op = "receive" /\ Enqueue(c)
          BY <4>1, CallFields DEF Incoming
        <4> HIDE DEF c
        <4>4. mpc \in {"stopNext", "joinSession"}
          BY <2>2, <4>2
        <4>5. ~completed /\ \A i \in 1 .. Len(callq) : callq[i].op # "signal"
          BY <2>3, <4>4
        <4>6. ~Starting' /\ completed' = completed
          BY <2>2, <4>2 DEF Starting
        <4>7. /\ \A x \in Sessions : rpc'[x] \notin {"connect", "connecting"}
              /\ \A x \in Sessions : rpc'[x] \in {"receive", "reading"} =>
                    rpc[x] \in {"receive", "reading"}
          <5>1. CASE rpc' = rpc
            BY <2>2, <5>1
          <5>2. CASE rpc' = [rpc EXCEPT ![s] = "ending"]
            <6>1. \A x \in Sessions : rpc'[x] = IF x = s THEN "ending" ELSE rpc[x]
              BY <5>2 DEF TypeOK
            <6> QED BY <2>2, <6>1
          <5> QED BY <4>2, <5>1, <5>2
        <4>8. \A x \in Sessions : rpc'[x] \in {"receive", "reading"} =>
                 /\ mpc' \in {"stopNext", "joinSession"}
                 /\ \E i \in 1 .. Len(stopping') : stopping'[i] = x
          BY <2>2, <4>2, <4>7
        <4>9. c.op \notin {"connect", "accept"} /\ mpc # "stopped"
          BY <4>3, <4>4
        <4> QED BY <2>1, <4>3, <4>5, <4>6, <4>7, <4>8, <4>9, StoppedEnqueue
      <3> QED BY <2>11, <3>1, <3>2, <3>3, <3>4 DEF Receiver
    <2>12. ASSUME NEW how \in {"connect", "accept"}, CreateSession(how) \/ StartSession(how)
           PROVE  FALSE
      <3>1. CASE CreateSession(how)
        <4>1. callq # << >> /\ Head(callq).op = how
          BY <3>1 DEF CreateSession, Calls
        <4>2. Head(callq) = callq[1] /\ 1 \in 1 .. Len(callq)
          BY <4>1, Dequeued DEF TypeOK
        <4> QED BY <2>2, <4>1, <4>2
      <3>2. CASE StartSession(how)
        BY <2>2, <3>2 DEF StartSession, StartAt, Starting
      <3> QED BY <2>12, <3>1, <3>2
    <2>13. CASE HandleOutgoingPackets \/ HandleIncomingPackets \/ StopSession
      <3>1. /\ callq # << >> /\ callq' = Tail(callq)
            /\ UNCHANGED <<mpc, rpc, stopping, completed>>
            /\ handler'.at \notin {"startConnect", "startAccept"}
        BY <2>13 DEF HandleOutgoingPackets, HandleIncomingPackets, StopSession, Calls,
                     Idle, SendingTo, socketVars, mainVars
      <3>2. ~completed /\ ~Starting'
        BY <2>2, <3>1 DEF CallsDispatched, Starting
      <3> QED BY <2>1, <3>1, <3>2, StoppedDequeue
    <2>14. CASE SendToNext \/ DeleteSession
      <3>1. /\ UNCHANGED <<callq, mpc, rpc, stopping, completed>>
            /\ handler # Idle /\ handler'.at \notin {"startConnect", "startAccept"}
        BY <2>14 DEF SendToNext, DeleteSession, Idle, SendingTo, socketVars, mainVars
      <3>2. ~completed /\ ~Starting'
        BY <2>2, <3>1 DEF CallsDispatched, Starting
      <3> QED BY <2>2, <3>1, <3>2 DEF Stopped
    <2>15. CASE RunSignal
      <3>1. /\ callq # << >> /\ callq' = Tail(callq) /\ Head(callq).op = "signal"
            /\ UNCHANGED <<mpc, rpc, stopping, handler>> /\ handler = Idle
            /\ mpc # "gone"
        BY <2>15 DEF RunSignal, Calls, socketVars
      <3>2. /\ Head(callq) = callq[1] /\ Len(callq) \in Nat \ {0}
            /\ Len(callq') = Len(callq) - 1 /\ callq' \in Seq(Call)
        BY <3>1, DequeueTyped
      <3>3. Len(callq) = 1 /\ mpc \in {"wait", "stopped"}
        <4>1. 1 \in 1 .. Len(callq) /\ callq[1].op = "signal"
          BY <3>1, <3>2
        <4>2. 1 = Len(callq)
          BY <2>2, <4>1
        <4>3. mpc \in {"wait", "stopped", "gone"}
          BY <4>1 DEF Flushing
        <4> QED BY <3>1, <4>2, <4>3
      <3>4. callq' = << >>
        BY <3>2, <3>3
      <3>5. ASSUME NEW s \in Sessions PROVE Joinable(s)
        <4>1. rpc[s] \in {"none", "ending", "ended"}
          BY <2>2, <3>3, ZenonT(40) DEF TypeOK
        <4>2. ~Joining(s) /\ ~Leaving(s)
          BY <3>1, <3>2, <3>3 DEF Joining, Leaving, Pulls, Idle
        <4>3. Talk(s) /\ (life[s] = "deleted" => rpc[s] = "ended")
          BY <3>1 DEF Messages, Objects
        <4> QED BY <4>1, <4>2, <4>3 DEF Talk, Joinable
      <3>6. CallsDispatched' /\ ~Starting' /\ \A s \in Sessions : Joinable(s)'
        BY <3>1, <3>4, <3>5 DEF CallsDispatched, Starting, Idle, Joinable
      <3> QED BY <2>1, <3>1, <3>6, StoppedDequeue
    <2>16. CASE Destroy
      <3>1. mpc = "stopped" /\ UNCHANGED <<callq, handler, rpc, completed>>
        BY <2>16 DEF Destroy, socketVars
      <3>2. \A s \in Sessions : rpc[s] \notin {"receive", "reading"}
        BY <2>2, <3>1
      <3> QED BY <2>5, <3>1, <3>2
    <2> QED BY <1>2, <2>4, <2>6, <2>7, <2>8, <2>9, <2>10, <2>11, <2>12, <2>13, <2>14,
               <2>15, <2>16 DEF Next, Dispatch, Stop
  <1> QED BY <1>1, <1>2

LEMMA ClosedStep == TypeOK /\ Closed /\ [Next]_vars => Closed'
  <1> SUFFICES ASSUME Closed, [Next]_vars PROVE Closed'
    OBVIOUS
  <1>1. CASE Start \/ StopListener \/ AcceptFails
    BY <1>1 DEF Start, StopListener, AcceptFails, Closed
  <1>2. CASE JoinListener \/ StopAll \/ StopNext \/ JoinSession \/ AllStopped \/ Flush
             \/ StopReturns \/ Destroy
    <2>1. mpc \notin {"down", "up"} /\ UNCHANGED lsock
      BY <1>2 DEF JoinListener, StopAll, StopNext, JoinSession, AllStopped, Flush,
                  StopReturns, Destroy, listenerVars
    <2> QED BY <2>1 DEF Closed
  <1>3. CASE UNCHANGED <<mpc, lsock>>
    BY <1>3 DEF Closed
  <1>4. CASE InitiateSession \/ Accept \/ UNCHANGED vars
             \/ \E s \in {Broadcast} \cup 1 .. seed : Send(s)
    BY <1>3, <1>4 DEF InitiateSession, Accept, vars, Send, listenerVars, mainVars
  <1>5. CASE Dispatch
    BY <1>3, <1>5 DEF Dispatch, CreateSession, StartSession, HandleOutgoingPackets,
                      SendToNext, HandleIncomingPackets, StopSession, DeleteSession,
                      RunSignal, listenerVars, mainVars
  <1>6. ASSUME NEW s \in Sessions, Receiver(s) \/ RemoteCloses(s) PROVE Closed'
    BY <1>3, <1>6 DEF Receiver, ConnectBegin, ConnectSucceeds, ConnectFails, ReceiveBegin,
                ReadData, ReadEof, ReadError, ReceiverEnds, RemoteCloses, listenerVars,
                mainVars
  <1> QED BY <1>1, <1>2, <1>4, <1>5, <1>6 DEF Next, Stop

(* The inductive invariant of Stop holds in every reachable state.         *)
LEMMA StopInvariant == Spec => []StopInv
  <1>1. Init => StopInv
    BY SafeInit DEF Init, StopInv, Closed, Stopped
  <1>2. StopInv /\ [Next]_vars => StopInv'
    <2> SUFFICES ASSUME StopInv, [Next]_vars PROVE StopInv'
      OBVIOUS
    <2>1. SafeInv'
      BY SafeStep DEF StopInv
    <2>2. Closed' /\ Stopped'
      BY <2>1, ClosedStep, StoppedStep DEF StopInv, SafeInv
    <2> QED BY <2>1, <2>2 DEF StopInv
  <1> QED BY <1>1, <1>2, PTL DEF Spec

(* CleanStop without the listener thread.                                  *)
SessionsStopped ==
    mpc = "stopped" /\ ~late => CallsDispatched /\ \A s \in Sessions : Joinable(s)

(* When Stop returns, no receiver thread runs and no call is queued or     *)
(* running, unless a session was being made when StopAll looked; this      *)
(* holds for a failing listener as well.                                   *)
THEOREM StopEndsSessions == Spec => []SessionsStopped
  <1>1. StopInv => SessionsStopped
    BY DEF StopInv, SafeInv, Flushing, Stopped, SessionsStopped
  <1> QED BY <1>1, StopInvariant, PTL

(* No session is deleted, by StopAndDeleteSession or by the destructor,    *)
(* while its receiver thread runs or something is queued for it, but for a  *)
(* destructor whose Stop met a session that was being made.                *)
THEOREM DeletedAreQuiet == Spec => []DeletedSessionsQuiet
  <1>1. ASSUME StopInv, NEW s \in Sessions, life[s] = "deleted", mpc # "gone"
        PROVE  Joinable(s) /\ ~Awaited(s)
    BY <1>1 DEF StopInv, SafeInv, Objects, Messages, Talk, Joinable
  <1>2. ASSUME StopInv, NEW s \in Sessions, mpc = "gone", ~late
        PROVE  Joinable(s) /\ ~Awaited(s)
    <2>1. completed
      BY <1>2 DEF StopInv, SafeInv, Flushing
    <2>2. callq = << >> /\ Joinable(s)
      BY <1>2, <2>1 DEF StopInv, Stopped, CallsDispatched
    <2> QED BY <2>2 DEF Awaited
  <1>3. StopInv => DeletedSessionsQuiet
    <2> SUFFICES ASSUME StopInv, NEW s \in Sessions, life[s] = "deleted",
                        mpc = "gone" => ~late
                 PROVE  /\ Joinable(s)
                        /\ \A i \in DOMAIN callq : callq[i].op = "receive" => callq[i].s # s
      BY DEF DeletedSessionsQuiet
    <2>1. Joinable(s) /\ ~Awaited(s)
      BY <1>1, <1>2
    <2>2. DOMAIN callq = 1 .. Len(callq)
      BY DEF StopInv, SafeInv, TypeOK
    <2> QED BY <2>1, <2>2 DEF Awaited, Pulls
  <1> QED BY <1>3, StopInvariant, PTL

(* When Stop returns, every thread has ended and every call has been       *)
(* dispatched, under the same condition, if listen() and accept() do not   *)
(* fail by themselves: one that failed leaves its thread spinning          *)
(* (StopEndsThreads).                                                      *)
THEOREM StopIsClean ==
    ASSUME ~ListenerMayFail
    PROVE  Spec => []CleanStop
  <1>1. Init => Listening
    BY DEF Init, Listening
  <1>2. StopInv /\ Listening /\ [Next]_vars => Listening'
    BY ListeningStep DEF StopInv, SafeInv
  <1>3. SessionsStopped /\ Listening => CleanStop
    BY DEF SessionsStopped, Listening, CleanStop, ThreadsEnded
  <1> QED BY <1>1, <1>2, <1>3, StopInvariant, StopEndsSessions, PTL DEF Spec
=============================================================================
