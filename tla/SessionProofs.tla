---------------------------- MODULE SessionProofs ----------------------------
(***************************************************************************)
(* The safety of the start, the handshake and the sessions, for every set  *)
(* of producers, of which any may be killed, every number of slots and     *)
(* every number of posted calls.                                           *)
(***************************************************************************)
EXTENDS Session, TLAPS

-----------------------------------------------------------------------------
(* Sequences.                                                              *)

(* What a reader leaves in a socket, and what is left of posted calls.     *)
LEMMA TailFacts ==
  ASSUME NEW S, NEW s \in Seq(S), s # <<>>
  PROVE  /\ Head(s) \in S
         /\ Tail(s) \in Seq(S)
         /\ Len(Tail(s)) \in Nat
         /\ Len(s) = Len(Tail(s)) + 1
         /\ \A i \in DOMAIN Tail(s) : i + 1 \in DOMAIN s /\ Tail(s)[i] = s[i + 1]
  OBVIOUS

(* What a writer leaves in a socket.                                       *)
LEMMA AppendFacts ==
  ASSUME NEW S, NEW s \in Seq(S), NEW x \in S
  PROVE  /\ Append(s, x) \in Seq(S)
         /\ Len(Append(s, x)) = Len(s) + 1
         /\ \A i \in DOMAIN Append(s, x) :
              \/ i \in DOMAIN s /\ Append(s, x)[i] = s[i]
              \/ i = Len(s) + 1 /\ Append(s, x)[i] = x
  OBVIOUS

(* An empty socket after one write, and a full one after one read.         *)
LEMMA Singletons ==
  ASSUME NEW x
  PROVE  Append(<<>>, x) = <<x>> /\ Tail(<<x>>) = <<>> /\ Head(<<x>>) = x /\ <<x>> # <<>>
  OBVIOUS

(* Handling a posted call, and making one.                                 *)
LEMMA PostedCalls ==
  ASSUME NEW s \in Seq({"attach", "posted"}), OnlyPosted(s)
  PROVE  /\ s # <<>> => OnlyPosted(Tail(s))
         /\ OnlyPosted(Append(s, "posted"))
         /\ s # <<"attach">>
         /\ s # <<>> => Head(s) = "posted"
<1>1. s # <<>> => OnlyPosted(Tail(s))
  BY TailFacts DEF OnlyPosted
<1>2. OnlyPosted(Append(s, "posted"))
  BY AppendFacts DEF OnlyPosted
<1>3. s # <<"attach">>
  BY DEF OnlyPosted
<1>4. s # <<>> => Head(s) = "posted"
  BY DEF OnlyPosted
<1> QED
  BY <1>1, <1>2, <1>3, <1>4

(* What handling a posted call adds to the stream of its client.           *)
LEMMA PostedAnswers ==
  ASSUME NEW s \in Seq({"fd", "answer", "result"})
  PROVE  /\ s \o PostedAnswer \in Seq({"fd", "answer", "result"})
         /\ Len(s \o PostedAnswer) <= Len(s) + 1
         /\ control = "jsonrpc" => s \o PostedAnswer = s
         /\ (\A i \in DOMAIN s : s[i] = "result")
              => \A i \in DOMAIN (s \o PostedAnswer) : (s \o PostedAnswer)[i] = "result"
<1>1. CASE control = "capnp"
  <2>1. PostedAnswer = <<"result">>
    BY <1>1 DEF PostedAnswer
  <2> QED
    BY <1>1, <2>1
<1>2. CASE control # "capnp"
  <2>1. PostedAnswer = <<>>
    BY <1>2 DEF PostedAnswer
  <2>2. s \o <<>> = s
    OBVIOUS
  <2> QED
    BY <1>2, <2>1, <2>2
<1> QED
  BY <1>1, <1>2

-----------------------------------------------------------------------------
(* Type correctness of a step.                                             *)

LEMMA TypeStep ==
  ASSUME SessionInv, [Next]_vars
  PROVE  TypeOK'
<1> USE SessionAssumption DEF SessionInv, TypeOK, serverVars
<1>1. CASE Bind \/ InitSlot \/ Spawn
  <2>1. CASE Bind
    BY <2>1 DEF Bind
  <2>2. CASE InitSlot
    <3>1. written' \in 0 .. NumSlots
      BY <2>2 DEF InitSlot
    <3> QED
      BY <2>2, <3>1 DEF InitSlot
  <2>3. CASE Spawn
    BY <2>3 DEF Spawn
  <2> QED
    BY <1>1, <2>1, <2>2, <2>3
<1>2. CASE Accept
  <2>1. Head(backlog) \in Clients /\ Tail(backlog) \in Seq(Clients)
    BY <1>2, TailFacts DEF Accept
  <2> QED
    BY <1>2, <2>1 DEF Accept
<1>3. ASSUME NEW c \in Clients, SendFd(c) PROVE TypeOK'
  <2>1. Append(toClient[c], "fd") \in Seq({"fd", "answer", "result"})
    OBVIOUS
  <2> QED
    BY <1>3, <2>1 DEF SendFd
<1>4. ASSUME NEW c \in Clients, SendFdFails(c) PROVE TypeOK'
  BY <1>4 DEF SendFdFails, EndServer
<1>5. ASSUME NEW c \in Clients, ServeAttach(c) PROVE TypeOK'
  <2>1. /\ Append(toClient[c], "answer") \in Seq({"fd", "answer", "result"})
        /\ Tail(toServer[c]) \in Seq({"attach", "posted"})
    BY <1>5, TailFacts DEF ServeAttach, Asked
  <2> QED
    BY <1>5, <2>1 DEF ServeAttach
<1>6. ASSUME NEW c \in Clients, ServePosted(c) PROVE TypeOK'
  <2>1. /\ Tail(toServer[c]) \in Seq({"attach", "posted"})
        /\ Len(toServer[c]) = Len(Tail(toServer[c])) + 1
        /\ Len(Tail(toServer[c])) \in Nat
    BY <1>6, TailFacts DEF ServePosted, Asked
  <2>2. toServer[c] # <<"attach">>
    BY <1>6, Singletons DEF ServePosted, Asked
  <2>3. served[c] + Len(toServer[c]) = posts[c]
    BY <2>2 DEF StreamInv
  <2>4. served[c] + 1 \in 0 .. Posts
    BY <2>1, <2>3
  <2>5. toClient[c] \o PostedAnswer \in Seq({"fd", "answer", "result"})
    BY PostedAnswers
  <2> QED
    BY <1>6, <2>1, <2>4, <2>5 DEF ServePosted
<1>7. ASSUME NEW c \in Clients, AnswerFails(c) \/ PostedAnswerFails(c) \/ ServeEof(c) PROVE TypeOK'
  BY <1>7 DEF AnswerFails, PostedAnswerFails, ServeEof
<1>8. ASSUME NEW c \in Clients, Connect(c) PROVE TypeOK'
  <2>1. Append(backlog, c) \in Seq(Clients)
    OBVIOUS
  <2> QED
    BY <1>8, <2>1 DEF Connect
<1>9. ASSUME NEW c \in Clients, RecvFd(c) \/ RecvAnswer(c) \/ RecvResult(c) PROVE TypeOK'
  <2>1. Tail(toClient[c]) \in Seq({"fd", "answer", "result"})
    BY <1>9, TailFacts DEF RecvFd, RecvAnswer, RecvResult, Waiting
  <2> QED
    BY <1>9, <2>1 DEF RecvFd, RecvAnswer, RecvResult
<1>10. ASSUME NEW c \in Clients, SendAttach(c) PROVE TypeOK'
  <2>1. Append(toServer[c], "attach") \in Seq({"attach", "posted"})
    OBVIOUS
  <2> QED
    BY <1>10, <2>1 DEF SendAttach
<1>11. ASSUME NEW c \in Clients, Post(c) PROVE TypeOK'
  <2>1. Append(toServer[c], "posted") \in Seq({"attach", "posted"})
    OBVIOUS
  <2>2. posts[c] + 1 \in 0 .. Posts
    BY <1>11 DEF Post
  <2> QED
    BY <1>11, <2>1, <2>2 DEF Post
<1>12. ASSUME NEW c \in Clients, ConnectFails(c) \/ Lost(c) \/ Leave(c) \/ Crash(c)
       PROVE  TypeOK'
  BY <1>12 DEF ConnectFails, Lost, Leave, Crash
<1>13. CASE Quiet \/ UNCHANGED vars
  BY <1>13 DEF Quiet, vars
<1> QED
  BY <1>1, <1>2, <1>3, <1>4, <1>5, <1>6, <1>7, <1>8, <1>9, <1>10, <1>11, <1>12, <1>13
  DEF Next, Run, Serve, Handshake

-----------------------------------------------------------------------------
(* A step of the server or of a client preserves the parts of SessionInv.  *)

(* Nobody is served, and the consumer does not run, before init is through.*)
LEMMA InitStep ==
  ASSUME SessionInv, [Next]_vars
  PROVE  InitInv'
<1> USE SessionAssumption DEF SessionInv, TypeOK, InitInv, serverVars
<1>1. CASE Bind
  BY <1>1 DEF Bind
<1>2. CASE InitSlot
  BY <1>2 DEF InitSlot
<1>3. CASE Spawn
  BY <1>3 DEF Spawn
<1>4. CASE Accept
  BY <1>4 DEF Accept
<1>5. ASSUME NEW c \in Clients, SendFd(c) PROVE InitInv'
  BY <1>5 DEF SendFd
<1>6. ASSUME NEW c \in Clients, SendFdFails(c) PROVE InitInv'
  BY <1>6 DEF SendFdFails, EndServer
<1>7. ASSUME NEW c \in Clients, Serve(c) PROVE InitInv'
  BY <1>7 DEF Serve, ServeAttach, AnswerFails, ServePosted, PostedAnswerFails, ServeEof, Asked
<1>8. ASSUME NEW c \in Clients, Handshake(c) \/ Post(c) \/ RecvResult(c) \/ Leave(c) \/ Crash(c)
      PROVE  InitInv'
  BY <1>8 DEF Handshake, Connect, ConnectFails, RecvFd, SendAttach, RecvAnswer, RecvResult, Lost,
              Post, Leave, Crash
<1>9. CASE Quiet \/ UNCHANGED vars
  BY <1>9 DEF Quiet, vars
<1> QED
  BY <1>1, <1>2, <1>3, <1>4, <1>5, <1>6, <1>7, <1>8, <1>9 DEF Next, Run

(* What leaves the queue alone, and makes nobody unserved served.          *)
LEMMA QueueAtRest ==
  ASSUME TypeOK, QueueInv, backlog' = backlog, current' = current,
         server' \in {server, "exited"},
         \A c \in Clients : /\ client[c] # "start" => client'[c] # "start"
                            /\ session[c] = "none" => session'[c] = "none"
  PROVE  QueueInv'
<1>1. \A i \in DOMAIN backlog : backlog[i] \in Clients
  BY DEF TypeOK
<1>2. current \subseteq Clients
  BY DEF TypeOK
<1>3. server' \in {"start", "init", "accept"} => current' = {}
  BY DEF QueueInv
<1>4. \A c \in current' : client'[c] # "start" /\ session'[c] = "none"
  BY <1>2 DEF QueueInv
<1>5. \A i \in DOMAIN backlog' :
        client'[backlog'[i]] # "start" /\ session'[backlog'[i]] = "none"
  BY <1>1 DEF QueueInv
<1> QED
  BY <1>3, <1>4, <1>5 DEF QueueInv

(* Who waits for accept or for the descriptor is there once, and unserved. *)
LEMMA QueueStep ==
  ASSUME SessionInv, [Next]_vars
  PROVE  QueueInv'
<1> USE DEF SessionInv, serverVars
<1>1. CASE Bind \/ InitSlot \/ Spawn
  BY <1>1 DEF Bind, InitSlot, Spawn, QueueInv
<1>2. CASE Accept
  <2>1. backlog \in Seq(Clients) /\ backlog # <<>>
    BY <1>2 DEF Accept, TypeOK
  <2>2. Head(backlog) = backlog[1] /\ 1 \in DOMAIN backlog
    BY <2>1
  <2>3. \A i \in DOMAIN Tail(backlog) :
          i + 1 \in DOMAIN backlog /\ i + 1 # 1 /\ Tail(backlog)[i] = backlog[i + 1]
    BY <2>1
  <2>4. \A i, j \in DOMAIN Tail(backlog) : i # j => i + 1 # j + 1
    BY <2>1
  <2>5. /\ current' = {backlog[1]} /\ backlog' = Tail(backlog) /\ server' = "send_fd"
        /\ UNCHANGED <<client, session>>
    BY <1>2, <2>2 DEF Accept
  <2> QED
    BY <2>2, <2>3, <2>4, <2>5 DEF QueueInv
<1>3. ASSUME NEW c \in Clients, SendFd(c) PROVE QueueInv'
  <2>1. \A i \in DOMAIN backlog : backlog[i] \in Clients /\ backlog[i] # c
    BY <1>3 DEF SendFd, QueueInv, TypeOK
  <2>2. \A d \in Clients : d # c => session'[d] = session[d]
    BY <1>3 DEF SendFd, TypeOK
  <2>3. current' = {} /\ server' = "accept" /\ backlog' = backlog /\ client' = client
    BY <1>3 DEF SendFd
  <2> QED
    BY <2>1, <2>2, <2>3 DEF QueueInv
<1>4. ASSUME NEW c \in Clients, SendFdFails(c) PROVE QueueInv'
  BY <1>4, QueueAtRest DEF SendFdFails, EndServer
<1>5. ASSUME NEW c \in Clients, Serve(c) PROVE QueueInv'
  BY <1>5, QueueAtRest DEF Serve, ServeAttach, AnswerFails, ServePosted, PostedAnswerFails,
       ServeEof, Asked, TypeOK
<1>6. ASSUME NEW c \in Clients, Connect(c) PROVE QueueInv'
  <2>1. client[c] = "start" /\ session[c] = "none"
    BY <1>6 DEF Connect, StreamInv
  <2>2. \A i \in DOMAIN backlog : backlog[i] # c /\ backlog[i] \in Clients
    BY <2>1 DEF QueueInv, TypeOK
  <2>3. c \notin current
    BY <2>1 DEF QueueInv
  <2>4. /\ backlog' = Append(backlog, c) /\ UNCHANGED <<server, current, session>>
        /\ client'[c] = "connected"
        /\ \A d \in Clients : d # c => client'[d] = client[d]
    BY <1>6 DEF Connect, TypeOK
  <2>5. /\ Len(backlog) + 1 \notin DOMAIN backlog
        /\ \A i \in DOMAIN Append(backlog, c) :
             \/ i \in DOMAIN backlog /\ Append(backlog, c)[i] = backlog[i]
             \/ i = Len(backlog) + 1 /\ Append(backlog, c)[i] = c
    BY AppendFacts DEF TypeOK
  <2>6. \A d \in current : d \in Clients /\ d # c
    BY <2>3 DEF TypeOK
  <2> QED
    BY <2>1, <2>2, <2>3, <2>4, <2>5, <2>6 DEF QueueInv
<1>7. ASSUME NEW c \in Clients,
             ConnectFails(c) \/ RecvFd(c) \/ SendAttach(c) \/ RecvAnswer(c) \/ Lost(c)
      PROVE  QueueInv'
  BY <1>7, QueueAtRest DEF ConnectFails, RecvFd, SendAttach, RecvAnswer, Lost, TypeOK
<1>8. ASSUME NEW c \in Clients, Post(c) \/ RecvResult(c) \/ Leave(c) \/ Crash(c)
      PROVE  QueueInv'
  BY <1>8, QueueAtRest DEF Post, RecvResult, Leave, Crash, TypeOK
<1>9. CASE Quiet \/ UNCHANGED vars
  BY <1>9 DEF Quiet, vars, QueueInv
<1> QED
  BY <1>1, <1>2, <1>3, <1>4, <1>5, <1>6, <1>7, <1>8, <1>9 DEF Next, Run, Handshake

-----------------------------------------------------------------------------
(* A stream on which nothing happened is as it was, also when the server   *)
(* went on or ended.                                                       *)
LEMMA StreamAtRest ==
  ASSUME NEW c \in Clients, StreamInv(c),
         client'[c] = client[c], toClient'[c] = toClient[c], toServer'[c] = toServer[c],
         posts'[c] = posts[c], served'[c] = served[c], control' = control,
         \/ session'[c] = session[c] /\ (server = "exited" => server' = "exited")
         \/ session[c] = "serving" /\ session'[c] = "ended" /\ server' = "exited"
  PROVE  StreamInv(c)'
  BY DEF StreamInv, OnlyPosted, OnlyResults, Closed

(* A step of one stream: it concerns client c and leaves the server's run. *)
LEMMA StreamStep ==
  ASSUME SessionInv, [Next]_vars, NEW d \in Clients
  PROVE  StreamInv(d)'
<1> USE SessionAssumption DEF SessionInv, TypeOK, serverVars
<1>1. CASE Bind \/ InitSlot \/ Spawn \/ Accept
  BY <1>1, StreamAtRest DEF Bind, InitSlot, Spawn, Accept
<1>2. ASSUME NEW c \in Clients, SendFd(c) PROVE StreamInv(d)'
  <2>1. CASE d # c
    BY <1>2, <2>1, StreamAtRest DEF SendFd
  <2>2. CASE d = c
    <3>1. session[c] = "none" /\ client[c] = "connected" /\ toClient[c] = <<>>
      BY <1>2 DEF SendFd, Closed, QueueInv, StreamInv
    <3>2. /\ session'[c] = "serving" /\ toClient'[c] = <<"fd">> /\ client'[c] = "connected"
          /\ toServer'[c] = toServer[c] /\ posts'[c] = posts[c] /\ served'[c] = served[c]
      BY <1>2, <3>1, Singletons DEF SendFd
    <3> QED
      BY <2>2, <3>1, <3>2 DEF StreamInv, OnlyPosted, Closed
  <2> QED
    BY <2>1, <2>2
<1>3. ASSUME NEW c \in Clients, SendFdFails(c) PROVE StreamInv(d)'
  BY <1>3, StreamAtRest DEF SendFdFails, EndServer
<1>4. ASSUME NEW c \in Clients, ServeAttach(c) PROVE StreamInv(d)'
  <2>1. CASE d # c
    BY <1>4, <2>1, StreamAtRest DEF ServeAttach
  <2>2. CASE d = c
    <3>1. toServer[c] = <<"attach">> /\ posts[c] = 0 /\ served[c] = 0
      BY <1>4, PostedCalls DEF ServeAttach, Asked, StreamInv
    <3>2. client[c] = "attaching" /\ toClient[c] = <<>>
      <4>1. client[c] \notin {"done", "failed", "killed"} /\ session[c] = "serving"
        BY <1>4 DEF ServeAttach, Asked, Closed
      <4>2. client[c] \notin {"start", "connected", "mapped"} /\ ~OnlyPosted(toServer[c])
        <5>1. toServer[c] # <<>> /\ 1 \in DOMAIN toServer[c] /\ toServer[c][1] # "posted"
          BY <3>1, Singletons
        <5> QED
          BY <5>1 DEF StreamInv, OnlyPosted
      <4>3. client[c] = "attaching"
        BY <4>1, <4>2 DEF StreamInv
      <4> QED
        BY <3>1, <4>3 DEF StreamInv
    <3>3. /\ toServer'[c] = <<>> /\ toClient'[c] = <<"answer">>
          /\ client'[c] = "attaching" /\ session'[c] = "serving"
          /\ posts'[c] = 0 /\ served'[c] = 0
      BY <1>4, <3>1, <3>2, Singletons DEF ServeAttach, Asked
    <3> QED
      BY <2>2, <3>3 DEF StreamInv, OnlyPosted
  <2> QED
    BY <2>1, <2>2
<1>5. ASSUME NEW c \in Clients, AnswerFails(c) PROVE StreamInv(d)'
  <2>1. CASE d # c
    BY <1>5, <2>1, StreamAtRest DEF AnswerFails
  <2>2. CASE d = c
    <3>1. toServer[c] = <<"attach">> /\ posts[c] = 0 /\ served[c] = 0
      BY <1>5, PostedCalls DEF AnswerFails, Asked, StreamInv
    <3> QED
      BY <1>5, <2>2, <3>1 DEF AnswerFails, Asked, StreamInv, OnlyPosted, Closed
  <2> QED
    BY <2>1, <2>2
<1>6. ASSUME NEW c \in Clients, ServePosted(c) PROVE StreamInv(d)'
  <2>1. CASE d # c
    BY <1>6, <2>1, StreamAtRest DEF ServePosted
  <2>2. CASE d = c
    <3>1. toServer[c] # <<"attach">> /\ toServer[c] # <<>> /\ session[c] = "serving"
      BY <1>6, Singletons DEF ServePosted, Asked
    <3>2. OnlyPosted(toServer[c]) /\ served[c] + Len(toServer[c]) = posts[c]
      BY <3>1 DEF StreamInv
    <3>3. client[c] \notin {"start", "connected", "mapped", "attaching"}
      BY <3>1 DEF StreamInv
    <3>4. OnlyPosted(Tail(toServer[c])) /\ served[c] + 1 + Len(Tail(toServer[c])) = posts[c]
      BY <3>1, <3>2, TailFacts, PostedCalls
    <3>5. /\ toServer'[c] = Tail(toServer[c]) /\ served'[c] = served[c] + 1
          /\ toClient'[c] = toClient[c] \o PostedAnswer
          /\ UNCHANGED <<control, session, client, posts, server>>
      BY <1>6 DEF ServePosted
    <3>6. client[c] = "attached" => OnlyResults(c)'
      <4>1. client[c] = "attached" => OnlyResults(c)
        BY DEF StreamInv
      <4>2. /\ toClient[c] \in Seq({"fd", "answer", "result"}) /\ served[c] \in Nat
            /\ Len(toClient[c]) \in Nat /\ Len(toClient[c] \o PostedAnswer) \in Nat
        OBVIOUS
      <4>3. /\ Len(toClient[c] \o PostedAnswer) <= Len(toClient[c]) + 1
            /\ control = "jsonrpc" => toClient[c] \o PostedAnswer = toClient[c]
            /\ (\A i \in DOMAIN toClient[c] : toClient[c][i] = "result")
                 => \A i \in DOMAIN (toClient[c] \o PostedAnswer) :
                      (toClient[c] \o PostedAnswer)[i] = "result"
        BY PostedAnswers
      <4>4. OnlyResults(c) => Len(toClient[c] \o PostedAnswer) <= served[c] + 1
        BY <4>2, <4>3 DEF OnlyResults
      <4> QED
        BY <3>5, <4>1, <4>3, <4>4 DEF OnlyResults
    <3>7. OnlyPosted(toServer[c])' /\ served'[c] + Len(toServer'[c]) = posts'[c]
      BY <3>4, <3>5
    <3> QED
      BY <2>2, <3>1, <3>3, <3>5, <3>6, <3>7 DEF StreamInv
  <2> QED
    BY <2>1, <2>2
<1>7. ASSUME NEW c \in Clients, ServeEof(c) PROVE StreamInv(d)'
  <2>1. CASE d # c
    BY <1>7, <2>1, StreamAtRest DEF ServeEof
  <2>2. CASE d = c
    <3>1. toServer[c] = <<>> /\ Len(toServer[c]) = 0 /\ toServer[c] # <<"attach">>
      BY <1>7 DEF ServeEof
    <3>2. served[c] + Len(toServer[c]) = posts[c] /\ served[c] \in Nat
      BY <3>1 DEF StreamInv
    <3>3. served[c] = posts[c]
      BY <3>1, <3>2
    <3>4. /\ session'[c] = "ended" /\ Closed(c) /\ session[c] = "serving"
          /\ UNCHANGED <<control, server, client, toClient, toServer, posts, served>>
      BY <1>7 DEF ServeEof
    <3> QED
      BY <2>2, <3>1, <3>2, <3>3, <3>4 DEF StreamInv, Closed
  <2> QED
    BY <2>1, <2>2
<1>8. ASSUME NEW c \in Clients, Connect(c) \/ ConnectFails(c) PROVE StreamInv(d)'
  <2>1. CASE d # c
    BY <1>8, <2>1, StreamAtRest DEF Connect, ConnectFails
  <2>2. CASE d = c
    BY <1>8, <2>2 DEF Connect, ConnectFails, StreamInv, OnlyPosted, Closed
  <2> QED
    BY <2>1, <2>2
<1>9. ASSUME NEW c \in Clients, RecvFd(c) PROVE StreamInv(d)'
  <2>1. CASE d # c
    BY <1>9, <2>1, StreamAtRest DEF RecvFd
  <2>2. CASE d = c
    <3>1. client[c] = "connected" /\ toClient[c] = <<"fd">> /\ session[c] # "none"
      BY <1>9 DEF RecvFd, Waiting, StreamInv
    <3>2. toClient'[c] = <<>> /\ client'[c] = "mapped"
      BY <1>9, <3>1, Singletons DEF RecvFd
    <3>3. toServer[c] = <<>> /\ posts[c] = 0
      BY <3>1 DEF StreamInv
    <3>4. /\ toServer'[c] = <<>> /\ OnlyPosted(<<>>)
          /\ UNCHANGED <<control, session, posts, served, server>>
      BY <1>9, <3>3 DEF RecvFd, OnlyPosted
    <3>5. session[c] = "ended" /\ server # "exited" => FALSE
      BY <3>1 DEF StreamInv, Closed
    <3>6. served[c] + Len(<<>>) = posts[c]
      BY <3>3 DEF StreamInv
    <3> QED
      BY <2>2, <3>1, <3>2, <3>3, <3>4, <3>5, <3>6 DEF StreamInv
  <2> QED
    BY <2>1, <2>2
<1>10. ASSUME NEW c \in Clients, SendAttach(c) PROVE StreamInv(d)'
  <2>1. CASE d # c
    BY <1>10, <2>1, StreamAtRest DEF SendAttach
  <2>2. CASE d = c
    <3>1. toServer[c] = <<>> /\ toClient[c] = <<>> /\ client[c] = "mapped"
      BY <1>10 DEF SendAttach, StreamInv
    <3>2. Len(toServer[c]) = 0 /\ toServer[c] # <<"attach">>
      BY <3>1
    <3>3. session[c] = "serving"
      BY <1>10, <3>1 DEF SendAttach, ServerClosed, StreamInv
    <3>4. posts[c] = 0 /\ served[c] = 0
      BY <3>1, <3>2 DEF StreamInv
    <3>5. toServer'[c] = <<"attach">> /\ client'[c] = "attaching"
      BY <1>10, <3>1, Singletons DEF SendAttach
    <3> QED
      BY <1>10, <2>2, <3>1, <3>3, <3>4, <3>5 DEF SendAttach, StreamInv, OnlyPosted, Closed
  <2> QED
    BY <2>1, <2>2
<1>11. ASSUME NEW c \in Clients, RecvAnswer(c) PROVE StreamInv(d)'
  <2>1. CASE d # c
    BY <1>11, <2>1, StreamAtRest DEF RecvAnswer
  <2>2. CASE d = c
    <3>1. /\ client[c] = "attaching" /\ toClient[c] = <<"answer">> /\ toServer[c] = <<>>
          /\ session[c] # "none"
      BY <1>11 DEF RecvAnswer, Waiting, StreamInv
    <3>2. /\ toClient'[c] = <<>> /\ client'[c] = "attached"
          /\ UNCHANGED <<control, server, session, toServer, posts, served>>
      BY <1>11, <3>1, Singletons DEF RecvAnswer
    <3>3. OnlyPosted(toServer[c]) /\ served[c] + Len(toServer[c]) = posts[c]
      BY <3>1 DEF StreamInv, OnlyPosted
    <3>4. session[c] = "ended" /\ server # "exited" => FALSE
      BY <3>1 DEF StreamInv, Closed
    <3>5. OnlyResults(c)'
      BY <3>2 DEF OnlyResults
    <3> QED
      BY <2>2, <3>1, <3>2, <3>3, <3>4, <3>5 DEF StreamInv, OnlyPosted
  <2> QED
    BY <2>1, <2>2
<1>12. ASSUME NEW c \in Clients, Post(c) PROVE StreamInv(d)'
  <2>1. CASE d # c
    BY <1>12, <2>1, StreamAtRest DEF Post
  <2>2. CASE d = c
    <3>1. client[c] = "attached" /\ session[c] = "serving" /\ OnlyResults(c)
      BY <1>12 DEF Post, ServerClosed, StreamInv
    <3>2. OnlyPosted(toServer[c]) /\ served[c] + Len(toServer[c]) = posts[c]
      BY <3>1, PostedCalls DEF StreamInv
    <3>3. /\ OnlyPosted(Append(toServer[c], "posted"))
          /\ served[c] + Len(Append(toServer[c], "posted")) = posts[c] + 1
      BY <3>2, AppendFacts, PostedCalls
    <3>4. /\ toServer'[c] = Append(toServer[c], "posted") /\ posts'[c] = posts[c] + 1
          /\ UNCHANGED <<control, server, session, client, toClient, served>>
      BY <1>12 DEF Post
    <3>5. OnlyResults(c)'
      BY <3>1, <3>4 DEF OnlyResults
    <3> QED
      BY <2>2, <3>1, <3>3, <3>4, <3>5 DEF StreamInv
  <2> QED
    BY <2>1, <2>2
<1>13. ASSUME NEW c \in Clients, Lost(c) \/ Leave(c) \/ Crash(c) PROVE StreamInv(d)'
  <2>1. CASE d # c
    BY <1>13, <2>1, StreamAtRest DEF Lost, Leave, Crash
  <2>2. CASE d = c
    <3>1. /\ client'[c] \in {"done", "failed", "killed"}
          /\ client'[c] = "done" => client[c] = "attached"
          /\ UNCHANGED <<control, server, session, toClient, toServer, posts, served>>
      BY <1>13 DEF Lost, Leave, Crash
    <3>2. session[c] = "none" => client[c] # "attached" /\ toClient[c] = <<>>
      BY DEF StreamInv
    <3>3. \/ toServer[c] = <<"attach">> /\ posts[c] = 0 /\ served[c] = 0
          \/ OnlyPosted(toServer[c]) /\ served[c] + Len(toServer[c]) = posts[c]
      BY DEF StreamInv
    <3>4. session[c] = "ended" /\ server # "exited" /\ control = "jsonrpc"
            => served[c] = posts[c]
      BY DEF StreamInv
    <3> QED
      BY <2>2, <3>1, <3>2, <3>3, <3>4 DEF StreamInv, Closed
  <2> QED
    BY <2>1, <2>2
<1>14. ASSUME NEW c \in Clients, PostedAnswerFails(c) PROVE StreamInv(d)'
  <2>1. CASE d # c
    BY <1>14, <2>1, StreamAtRest DEF PostedAnswerFails
  <2>2. CASE d = c
    <3>1. /\ session'[c] = "ended" /\ session[c] = "serving" /\ Closed(c) /\ control # "jsonrpc"
          /\ UNCHANGED <<control, server, client, toClient, toServer, posts, served>>
      BY <1>14 DEF PostedAnswerFails
    <3> QED
      BY <2>2, <3>1 DEF StreamInv, Closed
  <2> QED
    BY <2>1, <2>2
<1>15. ASSUME NEW c \in Clients, RecvResult(c) PROVE StreamInv(d)'
  <2>1. CASE d # c
    BY <1>15, <2>1, StreamAtRest DEF RecvResult
  <2>2. CASE d = c
    <3>1. client[c] = "attached" /\ OnlyResults(c) /\ toClient[c] # <<>>
      BY <1>15 DEF RecvResult, Waiting, StreamInv
    <3>2. /\ toClient'[c] = Tail(toClient[c])
          /\ UNCHANGED <<control, server, session, client, toServer, posts, served>>
      BY <1>15 DEF RecvResult
    <3>3. OnlyResults(c)'
      BY <3>1, <3>2, TailFacts DEF OnlyResults
    <3>4. session[c] # "none"
      BY <3>1 DEF StreamInv
    <3> QED
      BY <2>2, <3>1, <3>2, <3>3, <3>4 DEF StreamInv, Closed
  <2> QED
    BY <2>1, <2>2
<1>16. CASE Quiet \/ UNCHANGED vars
  BY <1>16, StreamAtRest DEF Quiet, vars
<1> QED
  BY <1>1, <1>2, <1>3, <1>4, <1>5, <1>6, <1>7, <1>8, <1>9, <1>10, <1>11, <1>12, <1>13, <1>14,
     <1>15, <1>16
  DEF Next, Run, Serve, Handshake

-----------------------------------------------------------------------------
(* SessionInv holds at the start.                                          *)
LEMMA SessionStart == Init => SessionInv
<1> SUFFICES ASSUME Init PROVE SessionInv
  OBVIOUS
<1> USE SessionAssumption DEF Init
<1>1. TypeOK
  <2>1. /\ <<>> \in Seq(Clients)
        /\ <<>> \in Seq({"fd", "answer", "result"}) /\ <<>> \in Seq({"attach", "posted"})
    OBVIOUS
  <2>2. 0 \in 0 .. Posts /\ 0 \in 0 .. NumSlots
    OBVIOUS
  <2> QED
    BY <2>1, <2>2 DEF TypeOK
<1>2. InitInv /\ QueueInv
  BY DEF InitInv, QueueInv
<1>3. ASSUME NEW c \in Clients PROVE StreamInv(c)
  BY DEF StreamInv, OnlyPosted
<1> QED
  BY <1>1, <1>2, <1>3 DEF SessionInv

(* The invariant of the start, the queue and the streams: every step of the*)
(* server, of a session or of a producer, killed ones included, keeps it.  *)
THEOREM SessionInvariant == Spec => []SessionInv
<1>1. SessionInv /\ [Next]_vars => SessionInv'
  BY TypeStep, InitStep, QueueStep, StreamStep DEF SessionInv
<1> QED
  BY SessionStart, <1>1, PTL DEF Spec

(* The server, the sessions and the producers are always well typed.       *)
THEOREM SessionTyped == Spec => []TypeOK
<1>1. SessionInv => TypeOK
  BY DEF SessionInv
<1> QED
  BY SessionInvariant, <1>1, PTL

(* Nobody, neither a producer nor the consumer thread, is at the segment   *)
(* before init has written every slot, although clients connect earlier.   *)
THEOREM InitBeforeUse == Spec => []UseAfterInit
<1>1. SessionInv => UseAfterInit
  BY DEF SessionInv, InitInv, StreamInv, UseAfterInit
<1> QED
  BY SessionInvariant, <1>1, PTL

(* A client that reads from the stream it shares with the descriptor finds *)
(* the descriptor, then the answer to attach, then, with capnp-rpc, the    *)
(* results of its calls, and never anything else.                          *)
THEOREM StreamInStep == Spec => []ReadsWhatItAwaits
<1>1. SessionInv => ReadsWhatItAwaits
  BY DEF SessionInv, StreamInv, ReadsWhatItAwaits, OnlyResults
<1> QED
  BY SessionInvariant, <1>1, PTL

(* A JSON-RPC session that has ended, while the server goes on, has handled*)
(* every call its producer sent, the last ones of a killed one included.   *)
THEOREM SentCallsServed == Spec => []CallsOutliveCaller
<1>1. SessionInv => CallsOutliveCaller
  BY DEF SessionInv, StreamInv, CallsOutliveCaller
<1> QED
  BY SessionInvariant, <1>1, PTL

(* The server ends only by a client that has gone between accept and the   *)
(* descriptor.                                                             *)
THEOREM ServerSurvivesSessions == Spec => OnlyUnservedEndServer
<1>1. ASSUME SessionInv, [Next]_vars, server # "exited", server' = "exited"
      PROVE  \E c \in current : Closed(c) /\ session[c] = "none"
  <2>1. PICK c \in Clients : SendFdFails(c)
    BY <1>1 DEF Next, Run, Serve, Handshake, Bind, InitSlot, Spawn, Accept, SendFd, ServeAttach,
                AnswerFails, ServePosted, PostedAnswerFails, ServeEof, Connect, ConnectFails,
                RecvFd, SendAttach, RecvAnswer, RecvResult, Lost, Post, Leave, Crash, Quiet, vars,
                serverVars
  <2> QED
    BY <1>1, <2>1 DEF SendFdFails, SessionInv, QueueInv
<1>2. SessionInv /\ [Next]_vars
        => [server # "exited" /\ server' = "exited"
              => \E c \in current : Closed(c) /\ session[c] = "none"]_vars
  BY <1>1
<1> QED
  BY SessionInvariant, <1>2, PTL DEF Spec, OnlyUnservedEndServer
=============================================================================
