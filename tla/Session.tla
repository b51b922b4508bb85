-------------------------------- MODULE Session --------------------------------
(***************************************************************************)
(* How a producer gets to the ring: the server's start and accept loop     *)
(* (run in src/src/server.rs), the descriptor sent with SCM_RIGHTS         *)
(* (src/src/shm.rs), the start of a producer (run in src/src/producer.rs), *)
(* and the sessions of the two control planes (src/src/proto/control/*.rs).*)
(*                                                                         *)
(* Server and producers are processes of their own; a producer may be      *)
(* killed at any point.  The sockets deliver in order what was sent, also  *)
(* after the sender has closed its end; the end of the stream comes last.  *)
(* A message is a line of JSON-RPC or a call or result of capnp-rpc; what  *)
(* the capnp-rpc library sends for itself (bootstrap, finish, release) is  *)
(* left out.                                                               *)
(*                                                                         *)
(* A definition marked "Wrong" is a mistake the code could have made.  No  *)
(* action uses it; put in the place of the definition that follows it, it  *)
(* must break a property.                                                  *)
(***************************************************************************)
EXTENDS Naturals, Sequences

CONSTANTS
  Clients,     \* the producer processes
  Crashable,   \* those that may be killed
  NumSlots,    \* RingConfig.num_slots
  Posts        \* how many "posted" calls a producer makes at most

ASSUME SessionAssumption ==
  /\ Crashable \subseteq Clients
  /\ NumSlots \in Nat \ {0}
  /\ Posts \in Nat

VARIABLES
  control,     \* the control plane all were started with
  server,      \* where the server's run is
  current,     \* the clients accepted and not yet given the descriptor
  written,     \* how many slots init has written
  running,     \* is the consumer thread running
  backlog,     \* connected clients that wait for accept
  session,     \* the task that serves each client
  client,      \* where each client is
  toClient,    \* what waits to be read by each client
  toServer,    \* what waits to be read by the session of each client
  posts,       \* how many "posted" calls each client has written
  served       \* how many of them its session has handled

serverVars == <<control, server, current, written, running>>
vars == <<serverVars, backlog, session, client, toClient, toServer, posts, served>>

(* A process that has exited or has been killed: its end is closed.        *)
Closed(c) == client[c] \in {"done", "failed", "killed"}

Listening == server \notin {"start", "exited"}

ServerClosed(c) == server = "exited" \/ session[c] = "ended"

Init ==
  /\ control \in {"jsonrpc", "capnp"}
  /\ server = "start"
  /\ current = {}
  /\ written = 0
  /\ running = FALSE
  /\ backlog = <<>>
  /\ session = [c \in Clients |-> "none"]
  /\ client = [c \in Clients |-> "start"]
  /\ toClient = [c \in Clients |-> <<>>]
  /\ toServer = [c \in Clients |-> <<>>]
  /\ posts = [c \in Clients |-> 0]
  /\ served = [c \in Clients |-> 0]

-----------------------------------------------------------------------------
(* The server.                                                             *)

(* From here on clients can connect.                                       *)
Bind ==
  /\ server = "start"
  /\ server' = "init"
  /\ UNCHANGED <<control, current, written, running, backlog, session, client, toClient,
                 toServer, posts, served>>

(* Wrong: one slot more than there are.                                    *)
InitSlotPastEnd ==
  /\ server = "init" /\ written <= NumSlots
  /\ written' = written + 1
  /\ UNCHANGED <<control, server, current, running, backlog, session, client, toClient,
                 toServer, posts, served>>

InitSlot ==
  /\ server = "init" /\ written < NumSlots
  /\ written' = written + 1
  /\ UNCHANGED <<control, server, current, running, backlog, session, client, toClient,
                 toServer, posts, served>>

(* Wrong: the consumer is started, and clients accepted, before init.      *)
SpawnBeforeInit ==
  /\ server = "init"
  /\ server' = "accept" /\ running' = TRUE
  /\ UNCHANGED <<control, current, written, backlog, session, client, toClient, toServer,
                 posts, served>>

Spawn ==
  /\ server = "init" /\ written = NumSlots
  /\ server' = "accept" /\ running' = TRUE
  /\ UNCHANGED <<control, current, written, backlog, session, client, toClient, toServer,
                 posts, served>>

Accept ==
  /\ server = "accept" /\ backlog # <<>>
  /\ current' = {Head(backlog)}
  /\ backlog' = Tail(backlog)
  /\ server' = "send_fd"
  /\ UNCHANGED <<control, written, running, session, client, toClient, toServer, posts, served>>

(* Wrong: the descriptor goes out again with every session's start.        *)
SendFdTwice(c) ==
  /\ server = "send_fd" /\ c \in current /\ ~Closed(c)
  /\ toClient' = [toClient EXCEPT ![c] = @ \o <<"fd", "fd">>]
  /\ session' = [session EXCEPT ![c] = "serving"]
  /\ server' = "accept" /\ current' = {}
  /\ UNCHANGED <<control, written, running, backlog, client, toServer, posts, served>>

SendFd(c) ==
  /\ server = "send_fd" /\ c \in current /\ ~Closed(c)
  /\ toClient' = [toClient EXCEPT ![c] = Append(@, "fd")]
  /\ session' = [session EXCEPT ![c] = "serving"]
  /\ server' = "accept" /\ current' = {}
  /\ UNCHANGED <<control, written, running, backlog, client, toServer, posts, served>>

EndServer ==
  /\ server' = "exited" /\ running' = FALSE
  /\ session' = [c \in Clients |-> IF session[c] = "serving" THEN "ended" ELSE session[c]]

(* sendmsg fails when the client has gone, the error ends run, and the     *)
(* process exits with every session.                                       *)
SendFdFails(c) ==
  /\ server = "send_fd" /\ c \in current /\ Closed(c)
  /\ EndServer
  /\ UNCHANGED <<control, current, written, backlog, client, toClient, toServer, posts, served>>

Asked(c, call) == session[c] = "serving" /\ toServer[c] # <<>> /\ Head(toServer[c]) = call

ServeAttach(c) ==
  /\ Asked(c, "attach") /\ ~Closed(c)
  /\ toServer' = [toServer EXCEPT ![c] = Tail(@)]
  /\ toClient' = [toClient EXCEPT ![c] = Append(@, "answer")]
  /\ UNCHANGED <<serverVars, backlog, session, client, posts, served>>

(* Wrong: the error of one session ends the server.                        *)
AnswerFailsServer(c) ==
  /\ Asked(c, "attach") /\ Closed(c)
  /\ EndServer
  /\ UNCHANGED <<control, current, written, backlog, client, toClient, toServer, posts, served>>

(* The client has gone: writing the answer fails, which ends the session.  *)
AnswerFails(c) ==
  /\ Asked(c, "attach") /\ Closed(c)
  /\ session' = [session EXCEPT ![c] = "ended"]
  /\ UNCHANGED <<serverVars, backlog, client, toClient, toServer, posts, served>>

(* Wrong: JSON-RPC answers a notification.                                 *)
NotificationAnswer == <<"result">>

(* capnp-rpc answers every call.  In JSON-RPC "posted" is a notification.  *)
PostedAnswer == IF control = "capnp" THEN <<"result">> ELSE <<>>

ServePosted(c) ==
  /\ Asked(c, "posted")
  /\ toServer' = [toServer EXCEPT ![c] = Tail(@)]
  /\ served' = [served EXCEPT ![c] = @ + 1]
  /\ toClient' = [toClient EXCEPT ![c] = @ \o PostedAnswer]
  /\ UNCHANGED <<serverVars, backlog, session, client, posts>>

(* The client has gone and will not read an answer to "posted": the session*)
(* may notice, and ends with calls it has not read.                        *)
PostedAnswerFails(c) ==
  /\ control = "capnp" /\ session[c] = "serving" /\ Closed(c)
  /\ \E i \in DOMAIN toClient[c] : toClient[c][i] = "result"
  /\ session' = [session EXCEPT ![c] = "ended"]
  /\ UNCHANGED <<serverVars, backlog, client, toClient, toServer, posts, served>>

(* Wrong: the session ends when its client has gone.                       *)
ServeClosed(c) ==
  /\ session[c] = "serving" /\ Closed(c)
  /\ session' = [session EXCEPT ![c] = "ended"]
  /\ UNCHANGED <<serverVars, backlog, client, toClient, toServer, posts, served>>

(* Wrong: the end of the stream is taken for an empty line.                *)
ServeEofAgain(c) ==
  /\ session[c] = "serving" /\ Closed(c) /\ toServer[c] = <<>>
  /\ UNCHANGED vars

(* The end of the stream.                                                  *)
ServeEof(c) ==
  /\ session[c] = "serving" /\ Closed(c) /\ toServer[c] = <<>>
  /\ session' = [session EXCEPT ![c] = "ended"]
  /\ UNCHANGED <<serverVars, backlog, client, toClient, toServer, posts, served>>

-----------------------------------------------------------------------------
(* A producer.                                                             *)

Connect(c) ==
  /\ client[c] = "start" /\ Listening
  /\ client' = [client EXCEPT ![c] = "connected"]
  /\ backlog' = Append(backlog, c)
  /\ UNCHANGED <<serverVars, session, toClient, toServer, posts, served>>

ConnectFails(c) ==
  /\ client[c] = "start" /\ ~Listening
  /\ client' = [client EXCEPT ![c] = "failed"]
  /\ UNCHANGED <<serverVars, backlog, session, toClient, toServer, posts, served>>

Waiting(c, reply) == toClient[c] # <<>> /\ Head(toClient[c]) = reply

(* recv_fd, fstat and mmap.                                                *)
RecvFd(c) ==
  /\ client[c] = "connected" /\ Waiting(c, "fd")
  /\ toClient' = [toClient EXCEPT ![c] = Tail(@)]
  /\ client' = [client EXCEPT ![c] = "mapped"]
  /\ UNCHANGED <<serverVars, backlog, session, toServer, posts, served>>

SendAttach(c) ==
  /\ client[c] = "mapped" /\ ~ServerClosed(c)
  /\ toServer' = [toServer EXCEPT ![c] = Append(@, "attach")]
  /\ client' = [client EXCEPT ![c] = "attaching"]
  /\ UNCHANGED <<serverVars, backlog, session, toClient, posts, served>>

RecvAnswer(c) ==
  /\ client[c] = "attaching" /\ Waiting(c, "answer")
  /\ toClient' = [toClient EXCEPT ![c] = Tail(@)]
  /\ client' = [client EXCEPT ![c] = "attached"]
  /\ UNCHANGED <<serverVars, backlog, session, toServer, posts, served>>

(* Wrong: the end of the stream is not taken for an error.                 *)
LostNoticedByWrite(c) ==
  /\ ServerClosed(c) /\ client[c] = "mapped"
  /\ client' = [client EXCEPT ![c] = "failed"]
  /\ UNCHANGED <<serverVars, backlog, session, toClient, toServer, posts, served>>

(* The server has gone: an error of recv_fd or attach ends run.            *)
Lost(c) ==
  /\ ServerClosed(c)
  /\ client[c] = "mapped" \/ (client[c] \in {"connected", "attaching"} /\ toClient[c] = <<>>)
  /\ client' = [client EXCEPT ![c] = "failed"]
  /\ UNCHANGED <<serverVars, backlog, session, toClient, toServer, posts, served>>

(* When the server has gone the call is dropped, and nobody is told.       *)
Post(c) ==
  /\ client[c] = "attached" /\ posts[c] < Posts /\ ~ServerClosed(c)
  /\ toServer' = [toServer EXCEPT ![c] = Append(@, "posted")]
  /\ posts' = [posts EXCEPT ![c] = @ + 1]
  /\ UNCHANGED <<serverVars, backlog, session, client, toClient, served>>

(* The RPC system of a capnp-rpc client takes an answer to "posted".  The  *)
(* task that waits for it drops it.                                        *)
RecvResult(c) ==
  /\ client[c] = "attached" /\ Waiting(c, "result")
  /\ toClient' = [toClient EXCEPT ![c] = Tail(@)]
  /\ UNCHANGED <<serverVars, backlog, session, client, toServer, posts, served>>

(* The end of run after attach, by shutdown or by an error of the loop.    *)
Leave(c) ==
  /\ client[c] = "attached"
  /\ client' = [client EXCEPT ![c] = "done"]
  /\ UNCHANGED <<serverVars, backlog, session, toClient, toServer, posts, served>>

Crash(c) ==
  /\ c \in Crashable /\ ~Closed(c)
  /\ client' = [client EXCEPT ![c] = "killed"]
  /\ UNCHANGED <<serverVars, backlog, session, toClient, toServer, posts, served>>

(* Nothing is left to do: the server waits for the next client, or is gone.*)
Quiet ==
  /\ server = "exited" \/ (server = "accept" /\ backlog = <<>>)
  /\ \A c \in Clients : Closed(c) /\ session[c] # "serving"
  /\ UNCHANGED vars

-----------------------------------------------------------------------------
Run ==
  \/ Bind \/ InitSlot \/ Spawn \/ Accept
  \/ \E c \in Clients : SendFd(c) \/ SendFdFails(c)

Serve(c) ==
  \/ ServeAttach(c) \/ AnswerFails(c) \/ ServePosted(c) \/ PostedAnswerFails(c) \/ ServeEof(c)

Handshake(c) ==
  \/ Connect(c) \/ ConnectFails(c) \/ RecvFd(c) \/ SendAttach(c) \/ RecvAnswer(c) \/ Lost(c)

Next ==
  \/ Run
  \/ \E c \in Clients : Serve(c) \/ Handshake(c) \/ Post(c) \/ RecvResult(c) \/ Leave(c) \/ Crash(c)
  \/ Quiet

Spec == Init /\ [][Next]_vars

(* The tasks of the server and the producers are scheduled.  Nothing makes *)
(* an attached producer call or leave.                                     *)
Fairness ==
  /\ WF_vars(Run)
  /\ \A c \in Clients : WF_vars(Serve(c)) /\ WF_vars(Handshake(c))

FairSpec == Spec /\ Fairness

-----------------------------------------------------------------------------
(* Properties.                                                             *)

(* Type correctness of the server, the clients and the sockets.            *)
TypeOK ==
  /\ control \in {"jsonrpc", "capnp"}
  /\ server \in {"start", "init", "accept", "send_fd", "exited"}
  /\ current \subseteq Clients
  /\ written \in 0 .. NumSlots
  /\ running \in BOOLEAN
  /\ backlog \in Seq(Clients)
  /\ session \in [Clients -> {"none", "serving", "ended"}]
  /\ client \in [Clients -> {"start", "connected", "mapped", "attaching", "attached",
                             "done", "failed", "killed"}]
  /\ toClient \in [Clients -> Seq({"fd", "answer", "result"})]
  /\ toServer \in [Clients -> Seq({"attach", "posted"})]
  /\ posts \in [Clients -> 0 .. Posts] /\ served \in [Clients -> 0 .. Posts]

(* ring.rs, on init: "called before anybody connects".  The socket is      *)
(* bound earlier, so what holds is that nobody gets to the segment, neither*)
(* a producer nor the consumer thread, before init is through.             *)
UseAfterInit ==
  running \/ (\E c \in Clients : client[c] \in {"mapped", "attaching", "attached"})
    => written = NumSlots

OnlyResults(c) ==
  /\ \A i \in DOMAIN toClient[c] : toClient[c][i] = "result"
  /\ Len(toClient[c]) <= served[c]
  /\ control = "jsonrpc" => toClient[c] = <<>>

(* The descriptor and the lines of the control plane share one stream: a   *)
(* client that reads finds what it waits for next, and nothing else, so    *)
(* recv_fd never swallows a part of an answer, and the answer to attach    *)
(* comes alone.  An attached one finds the results of capnp-rpc, no more of*)
(* them than calls were handled, and with JSON-RPC nothing.                *)
ReadsWhatItAwaits ==
  \A c \in Clients :
    /\ client[c] = "connected" => toClient[c] \in {<<>>, <<"fd">>}
    /\ client[c] = "attaching" => toClient[c] \in {<<>>, <<"answer">>}
    /\ client[c] \in {"start", "mapped"} => toClient[c] = <<>>
    /\ client[c] = "attached" => OnlyResults(c)

(* With JSON-RPC a call that reached the socket is handled, also when its  *)
(* producer was killed right afterwards: a session ends after its last one.*)
CallsOutliveCaller ==
  \A c \in Clients :
    control = "jsonrpc" /\ session[c] = "ended" /\ server # "exited" => served[c] = posts[c]

(* A client can end the server at one moment only: between accept and the  *)
(* descriptor.  Once it was given it, nothing it does or suffers ends the  *)
(* accept loop, the consumer or another session.                           *)
OnlyUnservedEndServer ==
  [][server # "exited" /\ server' = "exited"
       => \E c \in current : Closed(c) /\ session[c] = "none"]_vars

(* Nobody waits for ever in the handshake: every producer is attached or   *)
(* fails, also when the server goes away while it waits.                   *)
HandshakeEnds ==
  \A c \in Clients : <>(client[c] = "attached" \/ Closed(c))

(* No session outlives its client for ever.                                *)
SessionsEnd ==
  \A c \in Clients : (session[c] = "serving" /\ Closed(c)) ~> session[c] = "ended"

-----------------------------------------------------------------------------
(* The inductive invariant behind them.                                    *)

(* The server accepts, and has given the descriptor to anybody, only after *)
(* init.                                                                   *)
InitInv ==
  running \/ server \in {"accept", "send_fd"} \/ (\E c \in Clients : session[c] # "none")
    => written = NumSlots

(* A client that waits to be accepted, or for the descriptor, is there once*)
(* and has no session.                                                     *)
QueueInv ==
  /\ server \in {"start", "init", "accept"} => current = {}
  /\ \A c \in current : client[c] # "start" /\ session[c] = "none"
  /\ \A i \in DOMAIN backlog :
       /\ client[backlog[i]] # "start" /\ session[backlog[i]] = "none"
       /\ backlog[i] \notin current
       /\ \A j \in DOMAIN backlog : j # i => backlog[j] # backlog[i]

OnlyPosted(calls) == \A i \in DOMAIN calls : calls[i] = "posted"

(* What is under way between a client and its session.                     *)
StreamInv(c) ==
  /\ session[c] = "none" =>
       client[c] \in {"start", "connected", "failed", "killed"} /\ toClient[c] = <<>>
  /\ client[c] = "start" => session[c] = "none"
  /\ client[c] = "connected" /\ session[c] # "none" => toClient[c] = <<"fd">>
  /\ client[c] \in {"start", "connected", "mapped"} => toServer[c] = <<>> /\ posts[c] = 0
  /\ client[c] = "mapped" => toClient[c] = <<>>
  /\ client[c] = "attached" => OnlyResults(c)
  /\ client[c] = "attaching" =>
       \/ toClient[c] = <<>> /\ toServer[c] = <<"attach">>
       \/ toClient[c] = <<"answer">> /\ toServer[c] = <<>>
  /\ client[c] = "attached" => OnlyPosted(toServer[c])
  /\ \/ toServer[c] = <<"attach">> /\ posts[c] = 0 /\ served[c] = 0
     \/ OnlyPosted(toServer[c]) /\ served[c] + Len(toServer[c]) = posts[c]
  /\ session[c] = "ended" /\ server # "exited" =>
       Closed(c) /\ (control = "jsonrpc" => served[c] = posts[c])

SessionInv == TypeOK /\ InitInv /\ QueueInv /\ \A c \in Clients : StreamInv(c)
=============================================================================
