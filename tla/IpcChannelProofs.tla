-------------------------- MODULE IpcChannelProofs --------------------------
(***************************************************************************)
(* Proofs about IpcChannel, for any number of exchanges and restarts and   *)
(* any backlog: an answer is current, and the channel implements the log   *)
(* of commands.                                                            *)
(***************************************************************************)
EXTENDS IpcChannel, TLAPS

\* The server has a connection exactly while it handles one, and nothing at
\* all while it is down.
ServerInv ==
    /\ spc = "down" <=> ~up
    /\ client_fd # 0 <=> spc \in {"read", "dispatch", "write"}
    /\ ~up => queue = <<>>

\* All exchanges but the one in flight are over: told and hung up.  Those
\* that were not issued yet have left no trace.
ClientInv ==
    /\ cpc # "idle" => issued > 0 /\ outcome[issued] = "none"
    /\ \A i \in Exchanges :
          /\ i < issued \/ (i = issued /\ cpc = "idle") => outcome[i] # "none"
          /\ i > issued => /\ outcome[i] = "none" /\ sent[i] = "nothing"
                           /\ answer[i] = NoAnswer
    /\ cpc = "connected" => sent[issued] = "nothing"

\* The connections wait in the order they were made, after the one that is
\* served and after all that were executed; they are to this incarnation.
OrderInv ==
    /\ \A k \in DOMAIN queue :
          /\ queue[k] <= issued /\ queue[k] > client_fd
          /\ queue[k] > response.id /\ born[queue[k]] = starts
    /\ \A k, l \in DOMAIN queue : k < l => queue[k] < queue[l]
    /\ client_fd # 0 => client_fd <= issued /\ born[client_fd] = starts
    /\ response.id <= issued
    /\ spc = "read" => client_fd >= response.id
    /\ spc = "dispatch" => client_fd > response.id
    /\ spc = "write" => client_fd = response.id

\* A frame is read once: of an exchange that was read, none is left in the
\* socket and none will come.
OnceInv ==
    /\ executed <= response.id
    /\ \A i \in Exchanges :
          i = response.id \/ (spc = "dispatch" /\ i = client_fd) =>
             sent[i] # "frame" /\ ~(i = issued /\ cpc = "connected")

\* An answer is the one of the exchange it was written to; the last response
\* tells the state the incarnation that gave it is in.
AnswerInv ==
    /\ \A i \in Exchanges : born[i] <= starts
    /\ \A i \in Exchanges : answer[i] # NoAnswer =>
          answer[i].id = i /\ i <= response.id
            /\ (i = response.id => answer[i] = response)
    /\ \A i \in Exchanges : outcome[i] = "ok" =>
          answer[i] # NoAnswer /\ answer[i].ok
    /\ response.id # 0 =>
          /\ born[response.id] = starts => response.paused = paused
          /\ response.ok =>
                /\ cmd[response.id] = "pause_datapath" => response.paused
                /\ cmd[response.id] = "resume_datapath" => ~response.paused

ChannelInv == ServerInv /\ ClientInv /\ OrderInv /\ OnceInv /\ AnswerInv

IInv == TypeOK /\ ChannelInv

-----------------------------------------------------------------------------
(* The invariant                                                           *)

LEMMA Bounds ==
    MaxExchanges \in Nat /\ MaxStarts \in Nat /\ Backlog \in Nat
BY BoundsAssumption, BacklogAssumption

\* What Append does.
LEMMA Appended ==
    ASSUME NEW S, NEW s \in Seq(S), NEW e \in S
    PROVE  /\ DOMAIN Append(s, e) = 1..(Len(s) + 1)
           /\ DOMAIN s = 1..Len(s) /\ Len(s) \in Nat
           /\ Append(s, e)[Len(s) + 1] = e
           /\ \A k \in DOMAIN s : Append(s, e)[k] = s[k]
OBVIOUS

\* No exchange was issued and no answer given.
LEMMA ChannelInit == Init => IInv
<1> SUFFICES ASSUME Init PROVE IInv
  OBVIOUS
<1>1. TypeOK
  <2>1. queue \in Seq(Exchanges) /\ Len(queue) <= Backlog
    BY Bounds DEF Init
  <2>2. NoAnswer \in Answers
    BY Bounds DEF NoAnswer, Answers
  <2>3. up \in BOOLEAN /\ ports_ready \in BOOLEAN /\ paused \in BOOLEAN
    BY DEF Init
  <2>4. QED
    BY <2>1, <2>2, <2>3, Bounds DEF Init, TypeOK, Commands
<1>2. ChannelInv
  BY DEF Init, ChannelInv, ServerInv, ClientInv, OrderInv, OnceInv, AnswerInv,
       NoAnswer
<1>3. QED
  BY <1>1, <1>2 DEF IInv

\* A new incarnation is newer than every connection made so far.
LEMMA ListenKeeps == IInv /\ Listen => IInv'
<1> SUFFICES ASSUME IInv, Listen PROVE IInv'
  OBVIOUS
<1> USE DEF IInv, ChannelInv
<1>1. TypeOK'
  <2> up' \in BOOLEAN /\ ports_ready' \in BOOLEAN /\ paused' \in BOOLEAN
    BY Zenon DEF Listen
  <2> QED
    BY Bounds DEF TypeOK, Listen, clientVars
<1>2. ServerInv'
  BY DEF ServerInv, Listen, clientVars
<1>3. ClientInv'
  BY DEF ClientInv, Listen, clientVars
<1>4. OrderInv'
  BY DEF OrderInv, ServerInv, Listen, clientVars
<1>5. OnceInv'
  BY DEF OnceInv, Listen, clientVars
<1>6. AnswerInv'
  BY DEF TypeOK, AnswerInv, ServerInv, Listen, clientVars, Exchanges, Answers
<1>7. QED
  BY <1>1, <1>2, <1>3, <1>4, <1>5, <1>6

\* The server loop starts without a connection.
LEMMA ServeKeeps == IInv /\ Serve => IInv'
<1> SUFFICES ASSUME IInv, Serve PROVE IInv'
  OBVIOUS
<1> USE DEF IInv, ChannelInv
<1>1. TypeOK'
  BY DEF TypeOK, Serve, clientVars
<1>2. ServerInv'
  BY DEF ServerInv, Serve, clientVars
<1>3. ClientInv'
  BY DEF ClientInv, Serve, clientVars
<1>4. OrderInv'
  BY DEF OrderInv, Serve, clientVars
<1>5. OnceInv'
  BY DEF OnceInv, Serve, clientVars
<1>6. AnswerInv'
  BY DEF AnswerInv, Serve, clientVars
<1>7. QED
  BY <1>1, <1>2, <1>3, <1>4, <1>5, <1>6

\* The oldest connection is the next after all that were executed.
LEMMA AcceptKeeps == IInv /\ Accept => IInv'
<1> SUFFICES ASSUME IInv, Accept PROVE IInv'
  OBVIOUS
<1> USE DEF IInv, ChannelInv
<1>1. TypeOK'
  <2>1. /\ Head(queue) \in Exchanges
        /\ Tail(queue) \in Seq(Exchanges) /\ Len(Tail(queue)) <= Backlog
    BY Bounds DEF TypeOK, Accept
  <2>2. Head(queue) \in 0..MaxExchanges
    BY <2>1 DEF Exchanges
  <2>3. QED
    BY <2>1, <2>2 DEF TypeOK, Accept, clientVars
<1>2. ServerInv'
  BY DEF TypeOK, ServerInv, Accept, clientVars, Exchanges
<1>3. ClientInv'
  BY DEF ClientInv, Accept, clientVars
<1>4. OrderInv'
  <2>1. /\ Head(queue) = queue[1] /\ 1 \in DOMAIN queue
        /\ \A k \in DOMAIN Tail(queue) :
              /\ k \in Nat /\ k > 0 /\ k + 1 \in DOMAIN queue
              /\ Tail(queue)[k] = queue[k + 1]
    BY DEF Accept
  <2>2. response.id \in Nat /\ queue[1] \in Nat /\ queue[1] > 0
    BY Bounds, <2>1 DEF TypeOK, Answers, Exchanges
  <2>3. client_fd = 0
    BY DEF ServerInv, Accept
  <2>4. QED
    BY <2>1, <2>2, <2>3 DEF OrderInv, Accept, clientVars
<1>5. OnceInv'
  BY DEF OnceInv, Accept, clientVars
<1>6. AnswerInv'
  BY DEF AnswerInv, Accept, clientVars
<1>7. QED
  BY <1>1, <1>2, <1>3, <1>4, <1>5, <1>6

\* A frame that is still in its socket was not executed yet.
LEMMA ReadFrameKeeps == IInv /\ ReadFrame => IInv'
<1> SUFFICES ASSUME IInv, ReadFrame PROVE IInv'
  OBVIOUS
<1> USE DEF IInv, ChannelInv
<1>1. TypeOK'
  BY DEF TypeOK, ReadFrame
<1>2. ServerInv'
  BY DEF ServerInv, ReadFrame
<1>3. ClientInv'
  BY DEF ClientInv, ReadFrame
<1>4. OrderInv'
  <2>1. client_fd \in Exchanges /\ response.id \in Nat /\ client_fd \in Nat
    BY DEF ServerInv, TypeOK, Exchanges, Answers, ReadFrame
  <2>2. client_fd # response.id
    BY <2>1 DEF OnceInv, ReadFrame
  <2>3. client_fd > response.id
    BY <2>1, <2>2 DEF OrderInv, ReadFrame
  <2>4. QED
    BY <2>3 DEF OrderInv, ReadFrame
<1>5. OnceInv'
  BY DEF TypeOK, OnceInv, ClientInv, ReadFrame
<1>6. AnswerInv'
  BY DEF AnswerInv, ReadFrame
<1>7. QED
  BY <1>1, <1>2, <1>3, <1>4, <1>5, <1>6

\* A connection without a frame is closed, unexecuted.
LEMMA ReadEofKeeps == IInv /\ ReadEof => IInv'
<1> SUFFICES ASSUME IInv, ReadEof PROVE IInv'
  OBVIOUS
<1> USE DEF IInv, ChannelInv
<1>1. TypeOK'
  BY Bounds DEF TypeOK, ReadEof, CloseClient, clientVars
<1>2. ServerInv'
  BY DEF ServerInv, ReadEof, CloseClient, clientVars
<1>3. ClientInv'
  BY DEF ClientInv, ReadEof, CloseClient, clientVars
<1>4. OrderInv'
  BY Bounds DEF TypeOK, OrderInv, ReadEof, CloseClient, clientVars, Exchanges
<1>5. OnceInv'
  BY DEF OnceInv, ReadEof, CloseClient, clientVars
<1>6. AnswerInv'
  BY DEF AnswerInv, ReadEof, CloseClient, clientVars
<1>7. QED
  BY <1>1, <1>2, <1>3, <1>4, <1>5, <1>6

\* The response is that of the connection that is served.
LEMMA DispatchKeeps == IInv /\ Dispatch => IInv'
<1> SUFFICES ASSUME IInv, Dispatch PROVE IInv'
  OBVIOUS
<1> USE DEF IInv, ChannelInv
<1>1. TypeOK'
  <2>1. client_fd \in 0..MaxExchanges /\ executed + 1 \in 0..MaxExchanges
    BY Bounds DEF TypeOK, OrderInv, OnceInv, Answers, Dispatch
  <2>2. paused' \in BOOLEAN
    BY DEF TypeOK, Dispatch
  <2>3. response' \in Answers
    <3>1. PICK b \in BOOLEAN :
             response' = [ok |-> b, paused |-> paused', id |-> client_fd]
      BY DEF Dispatch
    <3>2. QED
      BY <2>1, <2>2, <3>1 DEF Answers
  <2>4. QED
    BY <2>1, <2>2, <2>3 DEF TypeOK, Dispatch, clientVars
<1>2. ServerInv'
  BY DEF ServerInv, Dispatch, clientVars
<1>3. ClientInv'
  BY DEF ClientInv, Dispatch, clientVars
<1>4. OrderInv'
  BY DEF TypeOK, OrderInv, Dispatch, clientVars
<1>5. OnceInv'
  <2>1. /\ response'.id = client_fd /\ executed' = executed + 1
        /\ spc = "dispatch" /\ spc' = "write"
        /\ UNCHANGED <<client_fd, sent, issued, cpc>>
    BY DEF Dispatch, clientVars
  <2>2. /\ executed \in Nat /\ response.id \in Nat /\ client_fd \in Nat
        /\ response.id < client_fd
    BY DEF TypeOK, Answers, OrderInv, Dispatch
  <2>3. QED
    BY <2>1, <2>2 DEF OnceInv
<1>6. AnswerInv'
  BY DEF TypeOK, AnswerInv, OrderInv, ClientInv, ServerInv, Dispatch,
       clientVars, Exchanges, Answers, NoAnswer
<1>7. QED
  BY <1>1, <1>2, <1>3, <1>4, <1>5, <1>6

\* The answer goes to the exchange that was executed last.
LEMMA WriteFrameKeeps == IInv /\ WriteFrame => IInv'
<1> SUFFICES ASSUME IInv, WriteFrame PROVE IInv'
  OBVIOUS
<1> USE DEF IInv, ChannelInv
<1>1. /\ client_fd \in Exchanges /\ client_fd <= issued /\ issued \in Nat
      /\ response.id = client_fd /\ response # NoAnswer /\ client_fd \in Nat
  BY DEF ServerInv, TypeOK, OrderInv, NoAnswer, Exchanges, WriteFrame
<1>2. \A i \in Exchanges : i # client_fd => answer'[i] = answer[i]
  BY DEF TypeOK, WriteFrame
<1>3. answer'[client_fd] \in {answer[client_fd], response}
  BY <1>1 DEF TypeOK, WriteFrame
<1>4. TypeOK'
  <2>1. answer' \in [Exchanges -> Answers]
    BY DEF TypeOK, WriteFrame
  <2>2. client_fd' \in 0..MaxExchanges /\ spc' \in {"poll", "read"}
    BY Bounds DEF TypeOK, WriteFrame, CloseClient
  <2>3. QED
    BY <2>1, <2>2 DEF TypeOK, WriteFrame, clientVars
<1>5. ServerInv'
  BY DEF ServerInv, WriteFrame, CloseClient, clientVars
<1>6. ClientInv'
  <2>1. \A i \in Exchanges : i > issued => answer'[i] = NoAnswer
    BY <1>1, <1>2 DEF ClientInv
  <2>2. QED
    BY <2>1 DEF ClientInv, WriteFrame, clientVars
<1>7. OrderInv'
  BY Bounds DEF TypeOK, OrderInv, WriteFrame, CloseClient, clientVars,
       Exchanges
<1>8. OnceInv'
  BY DEF OnceInv, WriteFrame, CloseClient, clientVars
<1>9. AnswerInv'
  <2>1. ASSUME NEW i \in Exchanges, answer'[i] # NoAnswer
        PROVE  /\ answer'[i].id = i /\ i <= response.id
               /\ i = response.id => answer'[i] = response
    <3>1. CASE i # client_fd
      BY <1>1, <1>2, <2>1, <3>1 DEF AnswerInv
    <3>2. CASE i = client_fd /\ answer'[i] = response
      BY <1>1, <3>2
    <3>3. CASE i = client_fd /\ answer'[i] = answer[i]
      BY <1>1, <2>1, <3>3 DEF AnswerInv
    <3>4. QED
      BY <1>3, <3>1, <3>2, <3>3
  <2>2. \A i \in Exchanges :
           outcome[i] = "ok" => answer'[i] # NoAnswer /\ answer'[i].ok
    BY <1>1, <1>2, <1>3, <2>1 DEF AnswerInv
  <2>3. QED
    BY <2>1, <2>2 DEF AnswerInv, WriteFrame, clientVars
<1>10. QED
  BY <1>4, <1>5, <1>6, <1>7, <1>8, <1>9

\* What was queued is gone with the daemon, unexecuted.
LEMMA ExitKeeps == IInv /\ Exit => IInv'
<1> SUFFICES ASSUME IInv, Exit PROVE IInv'
  OBVIOUS
<1> USE DEF IInv, ChannelInv
<1>1. TypeOK'
  <2> up' \in BOOLEAN
    BY DEF Exit
  <2> QED
    BY Bounds DEF TypeOK, Exit, clientVars
<1>2. ServerInv'
  BY DEF ServerInv, Exit, clientVars
<1>3. ClientInv'
  BY DEF ClientInv, Exit, clientVars
<1>4. OrderInv'
  BY DEF OrderInv, Exit, clientVars
<1>5. OnceInv'
  BY DEF OnceInv, Exit, clientVars
<1>6. AnswerInv'
  BY DEF AnswerInv, Exit, clientVars
<1>7. QED
  BY <1>1, <1>2, <1>3, <1>4, <1>5, <1>6

\* The newest connection comes last.
LEMMA ConnectKeeps == IInv /\ Connect => IInv'
<1> SUFFICES ASSUME IInv, Connect PROVE IInv'
  OBVIOUS
<1> USE DEF IInv, ChannelInv
<1>1. /\ issued \in Nat /\ issued + 1 \in Exchanges /\ starts \in Nat
      /\ response.id \in Nat /\ response.id <= issued
      /\ response.id <= MaxExchanges
      /\ client_fd \in Nat /\ client_fd <= issued
      /\ queue \in Seq(Exchanges)
  BY Bounds DEF TypeOK, OrderInv, Answers, Exchanges, Connect
<1>2. /\ \A i \in Exchanges :
            i # issued + 1 => born'[i] = born[i] /\ cmd'[i] = cmd[i]
      /\ born'[issued + 1] = starts
  BY <1>1 DEF TypeOK, Connect
<1>3. TypeOK'
  BY Bounds DEF TypeOK, Connect, Exchanges, Commands
<1>4. ServerInv'
  BY DEF ServerInv, Connect
<1>5. ClientInv'
  BY Bounds DEF TypeOK, ClientInv, Connect, Exchanges
<1>6. OrderInv'
  <2>1. /\ DOMAIN queue' = 1..(Len(queue) + 1)
        /\ DOMAIN queue = 1..Len(queue) /\ Len(queue) \in Nat
        /\ queue'[Len(queue) + 1] = issued + 1
        /\ \A k \in DOMAIN queue : queue'[k] = queue[k]
    BY <1>1, Appended DEF Connect
  <2>2. \A k \in DOMAIN queue : queue[k] \in Exchanges
    BY <1>1
  <2>3. \A k \in DOMAIN queue : queue[k] \in Nat /\ queue[k] <= issued
    BY <2>2 DEF Exchanges, OrderInv
  <2>4. \A k \in DOMAIN queue' :
           /\ queue'[k] <= issued' /\ queue'[k] > client_fd'
           /\ queue'[k] > response'.id /\ born'[queue'[k]] = starts'
    BY <1>1, <1>2, <2>1, <2>2, <2>3 DEF OrderInv, Connect
  <2>5. \A k, l \in DOMAIN queue' : k < l => queue'[k] < queue'[l]
    BY <1>1, <2>1, <2>3 DEF OrderInv
  <2>6. client_fd' # 0 => client_fd' <= issued' /\ born'[client_fd'] = starts'
    BY <1>1, <1>2 DEF OrderInv, Connect
  <2>7. QED
    BY <1>1, <2>4, <2>5, <2>6 DEF OrderInv, Connect
<1>7. OnceInv'
  BY DEF TypeOK, OnceInv, OrderInv, Connect
<1>8. AnswerInv'
  <2>1. \A i \in Exchanges : born'[i] <= starts'
    BY <1>1, <1>2 DEF AnswerInv, Connect
  <2>2. response.id # 0 => response.id \in Exchanges /\ response.id # issued +
     1
    BY <1>1 DEF Exchanges
  <2>3. QED
    BY <1>2, <2>1, <2>2 DEF AnswerInv, Connect
<1>9. QED
  BY <1>3, <1>4, <1>5, <1>6, <1>7, <1>8

\* An exchange without a connection is over at once.
LEMMA ConnectFailsKeeps == IInv /\ ConnectFails => IInv'
<1> SUFFICES ASSUME IInv, ConnectFails PROVE IInv'
  OBVIOUS
<1> USE DEF IInv, ChannelInv
<1>1. TypeOK'
  <2>1. issued + 1 \in Exchanges /\ issued + 1 \in 0..MaxExchanges
    BY Bounds DEF TypeOK, ConnectFails, Exchanges
  <2>2. QED
    BY <2>1 DEF TypeOK, ConnectFails, daemonVars
<1>2. ServerInv'
  BY DEF ServerInv, ConnectFails, daemonVars
<1>3. ClientInv'
  BY DEF TypeOK, ClientInv, ConnectFails, daemonVars, Exchanges
<1>4. OrderInv'
  <2>1. /\ issued' = issued + 1
        /\ UNCHANGED <<queue, client_fd, response, born, starts, spc>>
    BY DEF ConnectFails, daemonVars
  <2>2. /\ issued \in Nat /\ response.id \in Nat /\ client_fd \in Nat
    BY DEF TypeOK, Answers
  <2>3. \A k \in DOMAIN queue : queue[k] \in Exchanges
    BY DEF TypeOK
  <2>4. \A k \in DOMAIN queue : queue[k] \in Nat
    BY <2>3 DEF Exchanges
  <2>5. QED
    BY <2>1, <2>2, <2>4 DEF OrderInv
<1>5. OnceInv'
  BY DEF OnceInv, ConnectFails, daemonVars
<1>6. AnswerInv'
  BY DEF AnswerInv, ConnectFails, daemonVars
<1>7. QED
  BY <1>1, <1>2, <1>3, <1>4, <1>5, <1>6

\* The frame of the exchange in flight was not read yet.
LEMMA SendRequestKeeps == IInv /\ SendRequest => IInv'
<1> SUFFICES ASSUME IInv, SendRequest PROVE IInv'
  OBVIOUS
<1> USE DEF IInv, ChannelInv
<1>1. TypeOK'
  BY DEF TypeOK, SendRequest, daemonVars
<1>2. ServerInv'
  BY DEF ServerInv, SendRequest, daemonVars
<1>3. ClientInv'
  BY DEF ClientInv, SendRequest, daemonVars
<1>4. OrderInv'
  BY DEF OrderInv, SendRequest, daemonVars
<1>5. OnceInv'
  BY DEF OnceInv, SendRequest, daemonVars
<1>6. AnswerInv'
  BY DEF AnswerInv, SendRequest, daemonVars
<1>7. QED
  BY <1>1, <1>2, <1>3, <1>4, <1>5, <1>6

\* The answer read is the last response of the server.
LEMMA RecvResponseKeeps == IInv /\ RecvResponse => IInv'
<1> SUFFICES ASSUME IInv, RecvResponse PROVE IInv'
  OBVIOUS
<1> USE DEF IInv, ChannelInv
<1>1. TypeOK'
  BY DEF TypeOK, ClientInv, RecvResponse, EndExchange, daemonVars, Exchanges
<1>2. ServerInv'
  BY DEF ServerInv, RecvResponse, EndExchange, daemonVars
<1>3. ClientInv'
  BY DEF TypeOK, ClientInv, RecvResponse, EndExchange, daemonVars
<1>4. OrderInv'
  BY DEF OrderInv, RecvResponse, EndExchange, daemonVars
<1>5. OnceInv'
  BY DEF OnceInv, RecvResponse, EndExchange, daemonVars
<1>6. AnswerInv'
  BY DEF AnswerInv, RecvResponse, EndExchange, daemonVars
<1>7. QED
  BY <1>1, <1>2, <1>3, <1>4, <1>5, <1>6

\* Nothing is taken back from the socket.
LEMMA GiveUpKeeps == IInv /\ GiveUp => IInv'
<1> SUFFICES ASSUME IInv, GiveUp PROVE IInv'
  OBVIOUS
<1> USE DEF IInv, ChannelInv
<1>1. TypeOK'
  BY Bounds DEF TypeOK, ClientInv, GiveUp, EndExchange, daemonVars, Exchanges
<1>2. ServerInv'
  BY DEF ServerInv, GiveUp, EndExchange, daemonVars
<1>3. ClientInv'
  BY DEF TypeOK, ClientInv, GiveUp, EndExchange, daemonVars
<1>4. OrderInv'
  BY DEF OrderInv, GiveUp, EndExchange, daemonVars
<1>5. OnceInv'
  BY DEF TypeOK, OnceInv, GiveUp, EndExchange, daemonVars
<1>6. AnswerInv'
  BY DEF AnswerInv, GiveUp, EndExchange, daemonVars
<1>7. QED
  BY <1>1, <1>2, <1>3, <1>4, <1>5, <1>6

\* Every step of the server, the client and the daemon's life keeps it.
LEMMA ChannelStep == IInv /\ [Next]_vars => IInv'
<1>1. IInv /\ UNCHANGED vars => IInv'
  BY DEF IInv, ChannelInv, TypeOK, ServerInv, ClientInv, OrderInv, OnceInv,
       AnswerInv, vars, daemonVars, clientVars
<1>2. QED
  BY <1>1, ListenKeeps, ServeKeeps, AcceptKeeps, ReadFrameKeeps, ReadEofKeeps,
       DispatchKeeps, WriteFrameKeeps, ExitKeeps, ConnectKeeps,
       ConnectFailsKeeps, SendRequestKeeps, RecvResponseKeeps, GiveUpKeeps DEF
       Next, ServerStep, ClientStep, NoMoreExchanges

\* Every variable of the channel keeps its type; in particular the listening
\* socket queues no more than its backlog, and no request is executed twice
\* (ipc_server.c:113, 240-253).
THEOREM TypeCorrect == Spec => []TypeOK
<1>1. Spec => []IInv
  BY ChannelInit, ChannelStep, PTL DEF Spec
<1>2. IInv => TypeOK
  BY DEF IInv
<1>3. QED
  BY <1>1, <1>2, PTL

\* An acknowledged command is not undone by an older one that was abandoned
\* on a timeout (daemon.c:128-165, client.py:106-135).
THEOREM AnswerSafety == Spec => []AnswerIsCurrent
<1>1. Spec => []IInv
  BY ChannelInit, ChannelStep, PTL DEF Spec
<1>2. IInv => AnswerIsCurrent
  <2> SUFFICES ASSUME IInv,
                      issued > 0, outcome[issued] = "ok",
                      up, starts = born[issued]
               PROVE  /\ answer[issued].paused = paused
                      /\ cmd[issued] = "pause_datapath" => paused
                      /\ cmd[issued] = "resume_datapath" => ~paused
                      /\ queue = <<>>
    BY DEF AnswerIsCurrent
  <2> USE DEF IInv, ChannelInv
  <2>1. issued \in Exchanges /\ response.id \in Nat /\ response.id <= issued
    BY DEF TypeOK, Exchanges, Answers, OrderInv
  <2>2. answer[issued] = response /\ response.id = issued /\ response.ok
    BY <2>1 DEF AnswerInv, Exchanges
  <2>3. response.paused = paused
    BY <2>1, <2>2 DEF AnswerInv
  <2>4. /\ cmd[issued] = "pause_datapath" => response.paused
        /\ cmd[issued] = "resume_datapath" => ~response.paused
    BY <2>1, <2>2 DEF AnswerInv
  <2>5. queue = <<>>
    <3>1. \A k \in DOMAIN queue : queue[k] \in Exchanges
      BY DEF TypeOK
    <3>2. ASSUME NEW k \in DOMAIN queue PROVE FALSE
      <4>1. queue[k] \in Nat /\ issued \in Nat
        BY <2>1, <3>1 DEF Exchanges
      <4>2. QED
        BY <2>2, <4>1 DEF OrderInv
    <3>3. DOMAIN queue = 1..Len(queue) /\ Len(queue) \in Nat
      OBVIOUS
    <3>4. Len(queue) = 0
      BY <3>2, <3>3
    <3>5. QED
      BY <3>4
  <2>6. QED
    BY <2>2, <2>3, <2>4, <2>5
<1>3. QED
  BY <1>1, <1>2, PTL

-----------------------------------------------------------------------------
(* The refinement                                                          *)

LEMMA LogInit == Init => Log!Init
BY DEF Init, Log!Init, NoAnswer, Exchanges

\* A dispatch executes the exchange that is served, which is newer than the
\* one executed last, and all before it are over.
LEMMA LogDispatch == IInv /\ Dispatch => \E i \in Exchanges : Log!Execute(i)
<1> SUFFICES ASSUME IInv, Dispatch
             PROVE  Log!Execute(client_fd) /\ client_fd \in Exchanges
  OBVIOUS
<1> USE DEF IInv, ChannelInv
<1>1. client_fd \in Exchanges /\ client_fd <= issued /\ issued \in Nat
  BY DEF TypeOK, ServerInv, OrderInv, Exchanges, Dispatch
<1>2. client_fd > response.id
  BY DEF OrderInv, Dispatch
<1>3. Log!Issued(client_fd)
  BY <1>1, Bounds DEF Log!Issued, ClientInv, Exchanges
<1>4. \E ok \in BOOLEAN :
         /\ paused' \in IF ok THEN BOOLEAN ELSE {paused}
         /\ response' = [ok |-> ok, paused |-> paused', id |-> client_fd]
  BY DEF Dispatch, TypeOK
<1>5. executed' = executed + 1 /\ UNCHANGED outcome
  BY DEF Dispatch, clientVars
<1>6. QED
  BY <1>1, <1>2, <1>3, <1>4, <1>5 DEF Log!Execute

\* The end of an exchange tells of it; what is told, unless it failed, is
\* the last response.
LEMMA LogTell ==
    IInv /\ (ConnectFails \/ RecvResponse \/ GiveUp) =>
       \E i \in Exchanges : Log!Tell(i)
<1> SUFFICES ASSUME IInv, ConnectFails \/ RecvResponse \/ GiveUp
             PROVE  \E i \in Exchanges : Log!Tell(i)
  OBVIOUS
<1> USE DEF IInv, ChannelInv
<1>1. CASE ConnectFails
  <2>1. issued \in Nat /\ issued + 1 \in Exchanges
    BY <1>1, Bounds DEF ConnectFails, TypeOK, Exchanges
  <2>2. Log!Issued(issued + 1) /\ outcome[issued + 1] = "none"
    BY <1>1, <2>1, Bounds DEF ConnectFails, Log!Issued, ClientInv, Exchanges
  <2>3. /\ outcome' = [outcome EXCEPT ![issued + 1] = "failed"]
        /\ UNCHANGED <<paused, response, executed>>
    BY <1>1 DEF ConnectFails, daemonVars
  <2>4. QED
    BY <2>1, <2>2, <2>3 DEF Log!Tell
<1>2. CASE RecvResponse \/ GiveUp
  <2>1. issued \in Nat /\ issued \in Exchanges /\ outcome[issued] = "none"
    BY <1>2 DEF RecvResponse, GiveUp, TypeOK, ClientInv, Exchanges
  <2>2. Log!Issued(issued)
    BY <2>1, Bounds DEF Log!Issued, ClientInv, Exchanges
  <2>3. UNCHANGED <<paused, response, executed>>
    BY <1>2 DEF RecvResponse, GiveUp, daemonVars
  <2>4. CASE GiveUp
    BY <2>1, <2>2, <2>3, <2>4 DEF Log!Tell, GiveUp, EndExchange
  <2>5. CASE RecvResponse
    <3>1. answer[issued] = response /\ response.id = issued
      BY <2>1, <2>5 DEF RecvResponse, AnswerInv, OrderInv, TypeOK, Answers
    <3>2. outcome' = [outcome EXCEPT ![issued] =
                        IF response.ok THEN "ok" ELSE "error"]
      BY <2>5, <3>1 DEF RecvResponse, EndExchange
    <3>3. QED
      BY <2>1, <2>2, <2>3, <3>1, <3>2 DEF Log!Tell
  <2>6. QED
    BY <1>2, <2>4, <2>5
<1>3. QED
  BY <1>1, <1>2

\* Every step of the channel is a step of the log or leaves it alone.
LEMMA LogStep == IInv /\ [Next]_vars => [Log!Next]_(Log!vars)
<1> SUFFICES ASSUME IInv, [Next]_vars PROVE [Log!Next]_(Log!vars)
  OBVIOUS
<1>1. CASE Dispatch
  BY <1>1, LogDispatch DEF Log!Next, Exchanges
<1>2. CASE ConnectFails \/ RecvResponse \/ GiveUp
  BY <1>2, LogTell DEF Log!Next, Exchanges
<1>3. CASE Listen
  BY <1>3 DEF Listen, clientVars, Log!Next, Log!Restart
<1>4. CASE \/ Serve \/ Accept \/ ReadFrame \/ ReadEof \/ WriteFrame \/ Exit
           \/ Connect \/ SendRequest \/ UNCHANGED vars
  <2> UNCHANGED <<paused, response, executed, outcome>>
    BY <1>4 DEF Serve, Accept, ReadFrame, ReadEof, WriteFrame, Exit, Connect,
         SendRequest, vars, daemonVars, clientVars
  <2> QED
    BY DEF Log!vars
<1>5. QED
  BY <1>1, <1>2, <1>3, <1>4 DEF Next, ServerStep, ClientStep, NoMoreExchanges

\* The channel implements the log of commands: exchanges take effect in the
\* order they were issued and at most once, late ones and restarts included,
\* and an answer is that of the command executed last (ipc_server.c:144-253,
\* client.py:106-173).
THEOREM LogRefinement == Spec => ImplementsLog
<1>1. Spec => []IInv
  BY ChannelInit, ChannelStep, PTL DEF Spec
<1>2. QED
  BY <1>1, LogInit, LogStep, PTL DEF Spec, ImplementsLog, Log!Spec
=============================================================================
