----------------------------- MODULE IpcChannel -----------------------------
(***************************************************************************)
(* The Unix-socket channel between the controller's DpdkClient and the     *)
(* IPC server of pktlab-dpdkd.                                             *)
(*                                                                         *)
(* Every exchange has a connection of its own and a client-side timeout.   *)
(* The server listens before its datapath is up, accepts one connection at *)
(* a time and does not notice that a client has given up: what is in the   *)
(* connection's buffer is executed all the same.  The runtime lock of the  *)
(* controller lets it run one exchange at a time, so exchanges are         *)
(* numbered in the order they are issued.  The daemon may exit and be      *)
(* started again at any time.                                              *)
(***************************************************************************)
EXTENDS Naturals, Sequences

CONSTANTS
    MaxExchanges,  \* bound of the model: exchanges of one behaviour
    MaxStarts,     \* bound of the model: incarnations of the daemon
    Backlog        \* connections the listening socket holds

ASSUME BoundsAssumption == MaxExchanges \in Nat /\ MaxStarts \in Nat
ASSUME BacklogAssumption == Backlog \in Nat \ {0}

VARIABLES
    up,         \* the daemon listens
    spc,        \* point reached by its main thread
    queue,      \* connections waiting to be accepted
    client_fd,  \* the connection being served, 0 if none
    response,   \* rendered last, by this incarnation or an earlier one
    executed,   \* history: requests dispatched, by all incarnations
    ports_ready, paused,
    starts,     \* incarnations of the daemon so far
    cpc,        \* point reached by the client's exchange
    issued,     \* exchanges so far; the last one is the one in flight
    cmd, born,  \* per exchange: its command, the incarnation it connected to
    sent,       \* per exchange: how much of its frame is in the socket
    hungup,     \* exchanges whose client end is closed
    answer,     \* per exchange: the frame written back
    outcome     \* per exchange: what _typed_call returned or raised

daemonVars == <<up, spc, queue, client_fd, response, executed, ports_ready,
                paused, starts>>
clientVars == <<cpc, issued, cmd, born, sent, hungup, outcome>>
vars == <<daemonVars, clientVars, answer>>

Exchanges == 1..MaxExchanges
Commands == {"pause_datapath", "resume_datapath", "get_health"}
NoAnswer == [ok |-> FALSE, paused |-> FALSE, id |-> 0]
Answers == [ok: BOOLEAN, paused: BOOLEAN, id: 0..MaxExchanges]

\* Every variable stays in its type; in particular the listening socket never
\* queues more than its backlog (ipc_server.c:113).
TypeOK ==
    /\ up \in BOOLEAN /\ ports_ready \in BOOLEAN /\ paused \in BOOLEAN
    /\ spc \in {"down", "starting", "poll", "read", "dispatch", "write"}
    /\ queue \in Seq(Exchanges) /\ Len(queue) <= Backlog
    /\ client_fd \in 0..MaxExchanges
    /\ response \in Answers /\ executed \in 0..MaxExchanges
    /\ starts \in 0..MaxStarts
    /\ cpc \in {"idle", "connected", "waiting"}
    /\ issued \in 0..MaxExchanges
    /\ cmd \in [Exchanges -> Commands]
    /\ born \in [Exchanges -> 0..MaxStarts]
    /\ sent \in [Exchanges -> {"nothing", "part", "frame"}]
    /\ hungup \subseteq Exchanges
    /\ answer \in [Exchanges -> Answers]
    /\ outcome \in [Exchanges -> {"none", "ok", "error", "failed"}]

Init ==
    /\ up = FALSE /\ spc = "down"
    /\ queue = <<>> /\ client_fd = 0
    /\ response = NoAnswer /\ executed = 0
    /\ ports_ready = FALSE /\ paused = FALSE
    /\ starts = 0
    /\ cpc = "idle" /\ issued = 0
    /\ cmd = [i \in Exchanges |-> "get_health"]
    /\ born = [i \in Exchanges |-> 0]
    /\ sent = [i \in Exchanges |-> "nothing"]
    /\ hungup = {}
    /\ answer = [i \in Exchanges |-> NoAnswer]
    /\ outcome = [i \in Exchanges |-> "none"]

-----------------------------------------------------------------------------
(* The daemon                                                              *)

\* pktlab_ipc_server_init: clients can connect while the datapath starts.
Listen ==
    /\ ~up /\ starts < MaxStarts
    /\ up' = TRUE /\ spc' = "starting"
    /\ starts' = starts + 1
    /\ ports_ready' = FALSE /\ paused' = FALSE
    /\ UNCHANGED <<queue, client_fd, response, executed, clientVars, answer>>

\* The datapath has started, with ports or degraded; the server runs.
Serve ==
    /\ spc = "starting"
    /\ spc' = "poll"
    /\ ports_ready' \in BOOLEAN
    /\ UNCHANGED <<up, queue, client_fd, response, executed, paused, starts,
                   clientVars, answer>>

\* Mutant: the connection that came last is served first.
AcceptLast ==
    /\ spc = "poll" /\ queue # <<>>
    /\ client_fd' = queue[Len(queue)]
    /\ queue' = SubSeq(queue, 1, Len(queue) - 1)
    /\ spc' = "read"
    /\ UNCHANGED <<up, response, executed, ports_ready, paused, starts,
                   clientVars, answer>>

\* pktlab_ipc_server_run takes the oldest connection.
Accept ==
    /\ spc = "poll" /\ queue # <<>>
    /\ client_fd' = Head(queue)
    /\ queue' = Tail(queue)
    /\ spc' = "read"
    /\ UNCHANGED <<up, response, executed, ports_ready, paused, starts,
                   clientVars, answer>>

\* pktlab_json_proto_read_frame of a whole frame, whether or not the client
\* is still there.
ReadFrame ==
    /\ spc = "read" /\ sent[client_fd] = "frame"
    /\ sent' = [sent EXCEPT ![client_fd] = "nothing"]
    /\ spc' = "dispatch"
    /\ UNCHANGED <<up, queue, client_fd, response, executed, ports_ready,
                   paused, starts, cpc, issued, cmd, born, hungup, outcome,
                   answer>>

\* Back in pktlab_ipc_server_run, which closes the connection.
CloseClient == client_fd' = 0 /\ spc' = "poll"

\* Mutant: an end of file is taken for a frame that has not come yet.
ReadEofAgain ==
    /\ spc = "read" /\ sent[client_fd] # "frame" /\ client_fd \in hungup
    /\ UNCHANGED vars

\* End of file, before a frame or in the middle of one.
ReadEof ==
    /\ spc = "read" /\ sent[client_fd] # "frame" /\ client_fd \in hungup
    /\ CloseClient
    /\ UNCHANGED <<up, queue, response, executed, ports_ready, paused, starts,
                   clientVars, answer>>

\* pktlab_daemon_dispatch_request: pause and resume need a forwarding
\* datapath, get_health reads the state.  The typed client sends no malformed
\* request and no unknown command.
Dispatch ==
    /\ spc = "dispatch"
    /\ LET c == cmd[client_fd]
           control == c \in {"pause_datapath", "resume_datapath"}
       IN  /\ paused' = IF control /\ ports_ready THEN c = "pause_datapath"
                        ELSE paused
           /\ response' = [ok |-> c = "get_health" \/ (control /\ ports_ready),
                           paused |-> paused', id |-> client_fd]
    /\ executed' = executed + 1
    /\ spc' = "write"
    /\ UNCHANGED <<up, queue, client_fd, ports_ready, starts, clientVars,
                   answer>>

\* Mutant: a request whose response cannot be written is dispatched again.
WriteFrameRetries ==
    /\ spc = "write"
    /\ IF client_fd \in hungup
       THEN spc' = "dispatch" /\ UNCHANGED answer
       ELSE /\ answer' = [answer EXCEPT ![client_fd] = response]
            /\ spc' = "read"
    /\ UNCHANGED <<up, queue, client_fd, response, executed, ports_ready,
                   paused, starts, clientVars>>

\* The response, or the error, is written and the next frame is read; with
\* the client gone the write fails and the connection is closed.
WriteFrame ==
    /\ spc = "write"
    /\ IF client_fd \in hungup
       THEN CloseClient /\ UNCHANGED answer
       ELSE /\ answer' = [answer EXCEPT ![client_fd] = response]
            /\ spc' = "read"
            /\ UNCHANGED client_fd
    /\ UNCHANGED <<up, queue, response, executed, ports_ready, paused, starts,
                   clientVars>>

\* The daemon is stopped or crashes: its queue and connections go with it.
Exit ==
    /\ up
    /\ up' = FALSE /\ spc' = "down"
    /\ queue' = <<>> /\ client_fd' = 0
    /\ UNCHANGED <<response, executed, ports_ready, paused, starts, clientVars,
                   answer>>

-----------------------------------------------------------------------------
(* DpdkClient._typed_call                                                  *)

\* Mutant: the backlog is off by one.
ConnectBeyondBacklog ==
    /\ cpc = "idle" /\ issued < MaxExchanges
    /\ up /\ Len(queue) <= Backlog
    /\ issued' = issued + 1
    /\ \E c \in Commands : cmd' = [cmd EXCEPT ![issued'] = c]
    /\ born' = [born EXCEPT ![issued'] = starts]
    /\ queue' = Append(queue, issued')
    /\ cpc' = "connected"
    /\ UNCHANGED <<up, spc, client_fd, response, executed, ports_ready, paused,
                   starts, sent, hungup, outcome, answer>>

\* connect() succeeds while the backlog has room.
Connect ==
    /\ cpc = "idle" /\ issued < MaxExchanges
    /\ up /\ Len(queue) < Backlog
    /\ issued' = issued + 1
    /\ \E c \in Commands : cmd' = [cmd EXCEPT ![issued'] = c]
    /\ born' = [born EXCEPT ![issued'] = starts]
    /\ queue' = Append(queue, issued')
    /\ cpc' = "connected"
    /\ UNCHANGED <<up, spc, client_fd, response, executed, ports_ready, paused,
                   starts, sent, hungup, outcome, answer>>

\* No socket, nobody listening, or a full backlog until the timeout.
ConnectFails ==
    /\ cpc = "idle" /\ issued < MaxExchanges
    /\ ~up \/ Len(queue) = Backlog
    /\ issued' = issued + 1
    /\ outcome' = [outcome EXCEPT ![issued'] = "failed"]
    /\ hungup' = hungup \cup {issued'}
    /\ UNCHANGED <<daemonVars, cpc, cmd, born, sent, answer>>

\* send_request
SendRequest ==
    /\ cpc = "connected"
    /\ sent' = [sent EXCEPT ![issued] = "frame"]
    /\ cpc' = "waiting"
    /\ UNCHANGED <<daemonVars, issued, cmd, born, hungup, outcome, answer>>

\* Leaving the with block closes the socket.
EndExchange(result) ==
    /\ outcome' = [outcome EXCEPT ![issued] = result]
    /\ hungup' = hungup \cup {issued}
    /\ cpc' = "idle"

\* recv_response and the check of the response id.
RecvResponse ==
    /\ cpc = "waiting" /\ answer[issued] # NoAnswer
    /\ EndExchange(IF answer[issued].id # issued THEN "failed"
                   ELSE IF answer[issued].ok THEN "ok" ELSE "error")
    /\ UNCHANGED <<daemonVars, issued, cmd, born, sent, answer>>

\* The timeout, or a transport error, at any point: the frame may have been
\* sent in whole or in part, and an answer may be on its way.
GiveUp ==
    /\ cpc \in {"connected", "waiting"}
    /\ EndExchange("failed")
    /\ sent' \in {sent} \cup (IF cpc = "connected"
                              THEN {[sent EXCEPT ![issued] = "part"]} ELSE {})
    /\ UNCHANGED <<daemonVars, issued, cmd, born, answer>>

-----------------------------------------------------------------------------
ServerStep == Serve \/ Accept \/ ReadFrame \/ ReadEof \/ Dispatch \/ WriteFrame
ClientStep == SendRequest \/ RecvResponse \/ GiveUp

\* The bound of the model is reached.
NoMoreExchanges == issued = MaxExchanges /\ cpc = "idle" /\ UNCHANGED vars

Next ==
    \/ Listen \/ ServerStep \/ Exit
    \/ Connect \/ ConnectFails \/ ClientStep
    \/ NoMoreExchanges

Spec == Init /\ [][Next]_vars

\* The daemon is scheduled, and an exchange ends because of its timeout.
\* Nothing is assumed of starts, exits and new exchanges.
FairSpec == Spec /\ WF_vars(ServerStep) /\ WF_vars(ClientStep)

-----------------------------------------------------------------------------
(* Properties                                                              *)

\* The channel implements the log of commands: although exchanges that timed
\* out are executed late, and across restarts, commands take effect in the
\* order the controller issued them and at most once, and an answer is that
\* of the command executed last (ipc_server.c:144-253, client.py:106-173).
Log == INSTANCE CommandLog WITH last <- response, told <- outcome
ImplementsLog == Log!Spec

\* An acknowledged command is not undone by an older one that was abandoned
\* on a timeout: until the next exchange is issued, or the daemon is gone,
\* the daemon is in the state its last answer says, and no older request is
\* left to execute (daemon.c:128-165, client.py:106-135).
AnswerIsCurrent ==
    LET last == answer[issued]
    IN  (/\ issued > 0 /\ cpc = "idle" /\ outcome[issued] = "ok"
         /\ up /\ starts = born[issued]) =>
           /\ last.paused = paused
           /\ cmd[issued] = "pause_datapath" => paused
           /\ cmd[issued] = "resume_datapath" => ~paused
           /\ queue = <<>>

\* The server comes back to poll(), where alone it sees a stop signal: no
\* client holds it for ever (ipc_server.c:163-203, 219).
ServerReturnsToPoll == (spc = "read") ~> (spc \in {"poll", "down"})

\* Connections of clients that gave up do not fill the backlog: while the
\* daemon stays up every queued connection is accepted (ipc_server.c:240-253).
BacklogDrains ==
    \A i \in Exchanges :
       (\E k \in DOMAIN queue : queue[k] = i) ~>
          ~ \E k \in DOMAIN queue : queue[k] = i
=============================================================================
