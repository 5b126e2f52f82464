-------------------------- MODULE HttpServerProofs --------------------------
(***************************************************************************)
(* What TLAPS proves about HttpServer for any number of clients, requests  *)
(* of every size, and every size of the buffer, the backlog and a word.    *)
(***************************************************************************)
EXTENDS HttpServer, SequenceTheorems, TLAPS

Fits(r) == r.head + r.length < BufSize
Serving == thread \in {"receive", "handle", "send"}

\* A connection is in one place: in the backlog, once, or with the thread.  Its
\* client waits there, so that it cannot leave and come back with another request.
BacklogInv ==
    /\ \A i, j \in 1 .. Len(queue) : queue[i] = queue[j] => i = j
    /\ \A i \in 1 .. Len(queue) : queue[i] # client /\ outcome[queue[i]] = "waiting"

ClientInv ==
    /\ Serving => client \in Clients /\ outcome[client] = "waiting"
    /\ ~Serving => client = NoClient

\* What receive_http_request knows when it returns, and when it refuses.
ReceivedInv ==
    thread = "handle" =>
        LET r == request[client]
        IN closed[client] \/ (used >= r.head /\ used >= ExpectedTotal(r))

RefusedInv ==
    /\ reply = "refused" => thread = "send" /\ ~Fits(request[client])
    /\ \A c \in Clients : outcome[c] = "refused" => ~Fits(request[c])

IInv == HttpTypeOK /\ BacklogInv /\ ClientInv /\ ReceivedInv /\ RefusedInv

-----------------------------------------------------------------------------
(* Sizes.                                                                  *)

LEMMA Remainder ==
  ASSUME NEW n \in Nat, NEW m \in Nat \ {0}
  PROVE  /\ n % m \in 0 .. m - 1
         /\ n < m => n % m = n
         /\ n % m <= n
  <1>1. n % m \in 0 .. m - 1
    OBVIOUS
  <1>2. n < m => n % m = n
    OBVIOUS
  <1> QED
    BY <1>1, <1>2

LEMMA RequestsAreSized ==
  ASSUME NEW r \in Requests \cup {NoRequest}
  PROVE  /\ r.head \in Nat \ {0} /\ r.length \in Nat /\ r.body \in Nat
         /\ r.spelled \in BOOLEAN
  <1>1. CASE r \in Requests
    <2>1. r \in RequestType
      BY <1>1, HttpAssumption
    <2> QED
      BY <2>1 DEF RequestType
  <1>2. CASE r = NoRequest
    BY <1>2 DEF NoRequest
  <1> QED
    BY <1>1, <1>2

\* The size the server expects: never more than was announced, and just that when
\* the header is spelled right and the size fits a word.
LEMMA ExpectedSize ==
  ASSUME NEW r \in Requests \cup {NoRequest}
  PROVE  /\ ExpectedTotal(r) \in 0 .. SizeMod - 1
         /\ ExpectedTotal(r) <= r.head + r.length
         /\ r.spelled /\ r.head + r.length < SizeMod
                => ExpectedTotal(r) = r.head + r.length
  <1> DEFINE l == http_content_length(r)
  <1>1. r.head \in Nat /\ r.length \in Nat /\ SizeMod \in Nat \ {0}
    BY RequestsAreSized, HttpAssumption
  <1>2. l \in Nat /\ l <= r.length /\ (r.spelled /\ r.length < SizeMod => l = r.length)
    BY <1>1, Remainder DEF http_content_length
  <1>3. ExpectedTotal(r) = (r.head + l) % SizeMod /\ r.head + l \in Nat
    BY <1>1, <1>2 DEF ExpectedTotal
  <1> DEFINE n == r.head + l
  <1> HIDE DEF l
  <1>5. n \in Nat /\ n <= r.head + r.length /\ ExpectedTotal(r) = n % SizeMod
    BY <1>1, <1>2, <1>3
  <1>6. r.spelled /\ r.head + r.length < SizeMod => n = r.head + r.length
    BY <1>1, <1>2
  <1> HIDE DEF n
  <1>7. /\ n % SizeMod \in 0 .. SizeMod - 1 /\ n % SizeMod <= n
        /\ n < SizeMod => n % SizeMod = n
    BY <1>1, <1>5, Remainder
  <1> QED
    BY <1>1, <1>5, <1>6, <1>7

\* What Received decides, for a request of which used bytes are in the buffer.
LEMMA ReceivedDecides ==
  ASSUME NEW u \in 0 .. BufSize - 1, NEW r \in Requests \cup {NoRequest},
         NEW e \in Nat, e = IF u >= r.head THEN ExpectedTotal(r) ELSE 0
  PROVE  /\ Received(u, e, r.head) \in {"receive", "handle", "refused"}
         /\ Received(u, e, r.head) = "handle"
                => u >= r.head /\ u >= ExpectedTotal(r)
         /\ Received(u, e, r.head) = "refused" => ~Fits(r)
  <1>1. r.head \in Nat /\ r.length \in Nat /\ ExpectedTotal(r) \in Nat
        /\ ExpectedTotal(r) <= r.head + r.length /\ BufSize \in Nat
    BY ExpectedSize, RequestsAreSized, HttpAssumption
  <1>2. CASE u < r.head
    BY <1>1, <1>2 DEF Received, Fits
  <1>3. CASE u >= r.head
    BY <1>1, <1>3 DEF Received, Fits
  <1> QED
    BY <1>1, <1>2, <1>3

-----------------------------------------------------------------------------
(* The backlog.                                                            *)

\* The first client of the backlog is taken out; it is not among the others.
LEMMA FirstLeaves ==
  ASSUME HttpTypeOK, BacklogInv, queue # << >>, queue' = Tail(queue)
  PROVE  /\ Head(queue) \in Clients /\ outcome[Head(queue)] = "waiting"
         /\ Head(queue) # client
         /\ queue' \in Seq(Clients) /\ Len(queue') = Len(queue) - 1
         /\ \A i, j \in 1 .. Len(queue') : queue'[i] = queue'[j] => i = j
         /\ \A i \in 1 .. Len(queue') :
               /\ queue'[i] # Head(queue) /\ queue'[i] # client
               /\ queue'[i] \in Clients /\ outcome[queue'[i]] = "waiting"
  <1>1. /\ queue \in Seq(Clients) /\ Len(queue) \in Nat \ {0}
        /\ Head(queue) = queue[1] /\ Head(queue) \in Clients
        /\ queue' \in Seq(Clients) /\ Len(queue') = Len(queue) - 1
        /\ \A i \in 1 .. Len(queue') : queue'[i] = queue[i + 1]
    BY DEF HttpTypeOK
  <1>2. \A i \in 1 .. Len(queue') :
           i + 1 \in 1 .. Len(queue) /\ i + 1 # 1 /\ queue[i + 1] \in Clients
    BY <1>1
  <1>3. 1 \in 1 .. Len(queue)
    BY <1>1
  <1>4. \A i, j \in 1 .. Len(queue') : queue'[i] = queue'[j] => i = j
    <2> SUFFICES ASSUME NEW i \in 1 .. Len(queue'), NEW j \in 1 .. Len(queue'),
                        queue'[i] = queue'[j]
                 PROVE  i = j
      OBVIOUS
    <2>1. i + 1 = j + 1
      BY <1>1, <1>2 DEF BacklogInv
    <2> QED
      BY <2>1
  <1>5. \A i \in 1 .. Len(queue') :
           /\ queue'[i] # Head(queue) /\ queue'[i] # client
           /\ queue'[i] \in Clients /\ outcome[queue'[i]] = "waiting"
    BY <1>1, <1>2, <1>3 DEF BacklogInv
  <1> QED
    BY <1>1, <1>3, <1>4, <1>5 DEF BacklogInv

\* What neither the thread nor the clients of its connections touch.
LEMMA BacklogUntouched ==
  ASSUME HttpTypeOK, BacklogInv, UNCHANGED queue, client' \in {client, NoClient},
         \A c \in Clients : outcome[c] = "waiting" /\ c # client
                                => outcome'[c] = "waiting"
  PROVE  BacklogInv'
  <1>1. \A i \in 1 .. Len(queue) : queue[i] \in Clients
    BY DEF HttpTypeOK
  <1>2. \A i \in 1 .. Len(queue) : queue[i] # client' /\ queue[i] # client
    BY <1>1, HttpAssumption DEF BacklogInv
  <1>3. \A i \in 1 .. Len(queue) : outcome'[queue[i]] = "waiting"
    BY <1>1, <1>2 DEF BacklogInv
  <1>4. queue' = queue
    OBVIOUS
  <1> QED
    BY <1>2, <1>3, <1>4 DEF BacklogInv

-----------------------------------------------------------------------------
(* Steps.                                                                  *)

LEMMA InitIInv == Init => IInv
  <1> SUFFICES ASSUME Init PROVE IInv
    OBVIOUS
  <1>1. HttpTypeOK
    <2>1. /\ Backlog \in Nat /\ RespSize \in Nat
          /\ 0 \in 0 .. BufSize - 1 /\ 0 \in 0 .. SizeMod - 1 /\ 0 \in 0 .. RespSize
      BY HttpAssumption
    <2>2. << >> \in Seq(Clients) /\ Len(<< >>) = 0
      OBVIOUS
    <2>3. queue \in Seq(Clients) /\ Len(queue) <= Backlog
      BY <2>1, <2>2 DEF Init
    <2>4. /\ request \in [Clients -> Requests \cup {NoRequest}]
          /\ written \in [Clients -> Nat] /\ closed \in [Clients -> BOOLEAN]
          /\ outcome \in [Clients ->
                            {"none", "waiting", "answered", "refused", "dropped"}]
      BY DEF Init
    <2> QED
      BY <2>1, <2>3, <2>4 DEF Init, HttpTypeOK
  <1>2. Len(queue) = 0
    BY DEF Init
  <1> QED
    BY <1>1, <1>2 DEF Init, IInv, BacklogInv, ClientInv, Serving, ReceivedInv, RefusedInv

LEMMA ConnectKeepsIInv ==
  ASSUME IInv, NEW c \in Clients, Connect(c) PROVE IInv'
  <1>1. PICK r \in Requests : request' = [request EXCEPT ![c] = r]
    BY DEF Connect
  <1>2. HttpTypeOK'
    <2>1. queue' \in Seq(Clients) /\ Len(queue') <= Backlog
      BY HttpAssumption DEF Connect, IInv, HttpTypeOK
    <2> QED
      BY <1>1, <2>1 DEF Connect, IInv, HttpTypeOK
  <1>3. c # client /\ \A i \in 1 .. Len(queue) : queue[i] # c
    BY HttpAssumption DEF Connect, IInv, BacklogInv, ClientInv
  <1>4. BacklogInv'
    <2>1. /\ Len(queue) \in Nat /\ Len(queue') = Len(queue) + 1
          /\ \A i \in 1 .. Len(queue) : queue'[i] = queue[i]
          /\ queue'[Len(queue) + 1] = c
          /\ \A i \in 1 .. Len(queue) : queue[i] \in Clients
      BY DEF Connect, IInv, HttpTypeOK
    <2>2. \A i \in 1 .. Len(queue') : i \in 1 .. Len(queue) \/ i = Len(queue) + 1
      BY <2>1
    <2>3. /\ client' = client /\ outcome'[c] = "waiting"
          /\ \A d \in Clients : d # c => outcome'[d] = outcome[d]
      BY DEF Connect, IInv, HttpTypeOK
    <2>4. \A i, j \in 1 .. Len(queue') : queue'[i] = queue'[j] => i = j
      BY <1>3, <2>1, <2>2 DEF IInv, BacklogInv
    <2>5. \A i \in 1 .. Len(queue') :
             queue'[i] # client' /\ outcome'[queue'[i]] = "waiting"
      BY <1>3, <2>1, <2>2, <2>3 DEF IInv, BacklogInv
    <2> QED
      BY <2>4, <2>5 DEF BacklogInv
  <1>5. ClientInv' /\ ReceivedInv' /\ RefusedInv'
    BY <1>1, <1>3, HttpAssumption
    DEF Connect, IInv, HttpTypeOK, ClientInv, Serving, ReceivedInv, RefusedInv
  <1> QED
    BY <1>2, <1>4, <1>5 DEF IInv

LEMMA ClientKeepsIInv ==
  ASSUME IInv, NEW c \in Clients, Write(c) \/ Close(c) \/ Leave(c) PROVE IInv'
  <1>1. CASE Write(c)
    <2>1. PICK n \in written[c] + 1 .. request[c].head + request[c].body :
             written' = [written EXCEPT ![c] = n]
      BY <1>1 DEF Write
    <2>2. n \in Nat
      BY <2>1, RequestsAreSized DEF IInv, HttpTypeOK
    <2> QED
      BY <1>1, <2>1, <2>2
      DEF Write, serverVars, IInv, HttpTypeOK, BacklogInv, ClientInv, Serving,
          ReceivedInv, RefusedInv
  <1>2. CASE Close(c)
    BY <1>2 DEF Close, serverVars, IInv, HttpTypeOK, BacklogInv, ClientInv, Serving,
                ReceivedInv, RefusedInv
  <1>3. CASE Leave(c)
    <2>1. BacklogInv'
      BY <1>3, BacklogUntouched DEF Leave, serverVars, IInv, HttpTypeOK
    <2>2. Serving => c # client
      BY <1>3 DEF Leave, IInv, ClientInv
    <2>3. HttpTypeOK'
      BY <1>3 DEF Leave, serverVars, IInv, HttpTypeOK
    <2>4. ClientInv' /\ ReceivedInv' /\ RefusedInv'
      BY <1>3, <2>2 DEF Leave, serverVars, IInv, HttpTypeOK, ClientInv, Serving,
                        ReceivedInv, RefusedInv
    <2> QED
      BY <2>1, <2>3, <2>4 DEF IInv
  <1> QED
    BY <1>1, <1>2, <1>3

LEMMA ListenerKeepsIInv ==
  ASSUME IInv, Start \/ OpenListener \/ PollFails \/ Accept \/ AcceptFails
  PROVE  IInv'
  <1>1. CASE Start \/ OpenListener
    BY <1>1 DEF Start, OpenListener, clientVars, IInv, HttpTypeOK, BacklogInv,
                ClientInv, Serving, ReceivedInv, RefusedInv
  <1>2. CASE PollFails
    <2>1. Len(queue') = 0 /\ queue' \in Seq(Clients)
      BY <1>2 DEF PollFails
    <2>2. HttpTypeOK'
      <3>1. outcome' \in [Clients ->
                            {"none", "waiting", "answered", "refused", "dropped"}]
        BY <1>2 DEF PollFails, IInv, HttpTypeOK
      <3>2. /\ UNCHANGED <<client, used, expected, reply, sent_total, clientVars>>
            /\ server_fd' = FALSE /\ thread' = "open"
        BY <1>2 DEF PollFails
      <3>3. Len(queue') <= Backlog
        BY <2>1, HttpAssumption
      <3> QED
        BY <2>1, <3>1, <3>2, <3>3 DEF clientVars, IInv, HttpTypeOK
    <2>3. RefusedInv'
      <3>1. \A c \in Clients : outcome'[c] = outcome[c] \/ outcome'[c] = "dropped"
        BY <1>2 DEF PollFails
      <3>2. \A c \in Clients : outcome'[c] = "refused" => outcome[c] = "refused"
        BY <3>1
      <3>3. thread = "poll" /\ reply' = reply /\ request' = request
        BY <1>2 DEF PollFails, clientVars
      <3> QED
        BY <3>2, <3>3 DEF IInv, RefusedInv, Fits
    <2> QED
      BY <1>2, <2>1, <2>2, <2>3
      DEF PollFails, clientVars, IInv, BacklogInv, ClientInv, Serving, ReceivedInv
  <1>3. CASE Accept
    <2>1. client = NoClient
      BY <1>3 DEF Accept, IInv, ClientInv, Serving
    <2>2. HttpTypeOK'
      BY <1>3, FirstLeaves, HttpAssumption
      DEF Accept, clientVars, IInv, HttpTypeOK
    <2>3. BacklogInv' /\ ClientInv'
      BY <1>3, FirstLeaves DEF Accept, IInv, BacklogInv, ClientInv, Serving
    <2> QED
      BY <1>3, <2>2, <2>3
      DEF Accept, clientVars, IInv, ReceivedInv, RefusedInv
  <1>4. CASE AcceptFails
    <2>1. HttpTypeOK'
      BY <1>4, FirstLeaves, HttpAssumption
      DEF AcceptFails, clientVars, IInv, HttpTypeOK
    <2>2. BacklogInv'
      BY <1>4, FirstLeaves DEF AcceptFails, IInv, HttpTypeOK, BacklogInv
    <2> QED
      BY <1>4, <2>1, <2>2
      DEF AcceptFails, clientVars, IInv, HttpTypeOK, ClientInv, Serving,
          ReceivedInv, RefusedInv
  <1> QED
    BY <1>1, <1>2, <1>3, <1>4

\* The end of a connection.
LEMMA EndKeepsIInv ==
  ASSUME IInv, Serving, NEW result \in {"answered", "refused", "dropped"},
         EndsWith(result), result = "refused" => reply = "refused"
  PROVE  IInv'
  <1>1. client \in Clients /\ \A c \in Clients : c # client => outcome'[c] = outcome[c]
    BY DEF EndsWith, IInv, HttpTypeOK, ClientInv
  <1>2. outcome' \in [Clients -> {"none", "waiting", "answered", "refused", "dropped"}]
        /\ outcome'[client] = result
    BY <1>1 DEF EndsWith, IInv, HttpTypeOK
  <1>3. HttpTypeOK'
    BY <1>2, HttpAssumption DEF EndsWith, clientVars, IInv, HttpTypeOK
  <1>4. BacklogInv'
    BY <1>1, BacklogUntouched DEF EndsWith, IInv
  <1>5. RefusedInv'
    BY <1>1, <1>2 DEF EndsWith, clientVars, IInv, RefusedInv
  <1> QED
    BY <1>3, <1>4, <1>5 DEF EndsWith, IInv, ClientInv, Serving, ReceivedInv

LEMMA ReceiveKeepsIInv == IInv /\ Receive => IInv'
  <1> SUFFICES ASSUME IInv, Receive PROVE IInv'
    OBVIOUS
  <1> DEFINE r == request[client]
             next == Received(used', expected', r.head)
  <1>1. client \in Clients /\ r \in Requests \cup {NoRequest} /\ outcome[client] = "waiting"
    BY DEF Receive, IInv, HttpTypeOK, ClientInv, Serving
  <1>2. used' \in 0 .. BufSize - 1
    <2>1. PICK n \in 1 .. written[client] - used : n <= Room /\ used' = used + n
      BY DEF Receive
    <2> QED
      BY <1>1, <2>1, HttpAssumption DEF IInv, HttpTypeOK, Room
  <1>3. expected' = IF used' >= r.head THEN ExpectedTotal(r) ELSE 0
    BY DEF Receive
  <1>4. expected' \in 0 .. SizeMod - 1
    BY <1>1, <1>3, ExpectedSize, HttpAssumption
  <1>5. /\ next \in {"receive", "handle", "refused"}
        /\ next = "handle" => used' >= r.head /\ used' >= ExpectedTotal(r)
        /\ next = "refused" => ~Fits(r)
    BY <1>1, <1>2, <1>3, <1>4, ReceivedDecides, HttpAssumption
  <1>6. /\ next = "refused" => thread' = "send" /\ reply' = "refused"
        /\ next # "refused" => thread' = next /\ reply' = reply
        /\ UNCHANGED <<server_fd, queue, client, sent_total, clientVars, outcome>>
        /\ thread = "receive"
    BY DEF Receive
  <1> HIDE DEF next
  <1>7. HttpTypeOK'
    BY <1>2, <1>4, <1>5, <1>6 DEF clientVars, IInv, HttpTypeOK
  <1>8. BacklogInv' /\ ClientInv'
    BY <1>1, <1>5, <1>6 DEF IInv, BacklogInv, ClientInv, Serving
  <1>9. ReceivedInv'
    BY <1>5, <1>6 DEF clientVars, ReceivedInv
  <1>10. RefusedInv'
    BY <1>5, <1>6 DEF clientVars, IInv, RefusedInv
  <1> QED
    BY <1>7, <1>8, <1>9, <1>10 DEF IInv

LEMMA ConnectionKeepsIInv ==
  ASSUME IInv, PeerClosed \/ ReceiveFails \/ Handle \/ Send \/ SendFails
  PROVE  IInv'
  <1>1. CASE PeerClosed
    <2>1. CASE used > 0
      BY <1>1, <2>1
      DEF PeerClosed, clientVars, IInv, HttpTypeOK, BacklogInv, ClientInv, Serving,
          ReceivedInv, RefusedInv
    <2>2. CASE ~(used > 0)
      BY <1>1, <2>2, EndKeepsIInv DEF PeerClosed, Serving
    <2> QED
      BY <2>1, <2>2
  <1>2. CASE ReceiveFails
    BY <1>2, EndKeepsIInv DEF ReceiveFails, Serving
  <1>3. CASE Handle
    BY <1>3 DEF Handle, clientVars, IInv, HttpTypeOK, BacklogInv, ClientInv, Serving,
                ReceivedInv, RefusedInv
  <1>4. CASE Send
    <2>1. PICK n \in sent_total + 1 .. RespSize :
             IF n = RespSize
             THEN EndsWith(reply)
             ELSE /\ sent_total' = n
                  /\ UNCHANGED <<server_fd, thread, queue, client, used, expected,
                                 reply, clientVars, outcome>>
      BY <1>4 DEF Send
    <2>2. CASE n = RespSize
      BY <1>4, <2>1, <2>2, EndKeepsIInv DEF Send, Serving, IInv, HttpTypeOK
    <2>3. CASE n # RespSize
      <3>1. sent_total' \in 0 .. RespSize
        BY <2>1, <2>3, HttpAssumption DEF IInv, HttpTypeOK
      <3> QED
        BY <2>1, <2>3, <3>1
        DEF clientVars, IInv, HttpTypeOK, BacklogInv, ClientInv, Serving,
            ReceivedInv, RefusedInv
    <2> QED
      BY <2>2, <2>3
  <1>5. CASE SendFails
    BY <1>5, EndKeepsIInv DEF SendFails, Serving
  <1> QED
    BY <1>1, <1>2, <1>3, <1>4, <1>5

LEMMA NextIInv == IInv /\ [Next]_vars => IInv'
  <1> SUFFICES ASSUME IInv, [Next]_vars PROVE IInv'
    OBVIOUS
  <1>1. CASE Thread
    BY <1>1, ListenerKeepsIInv, ReceiveKeepsIInv, ConnectionKeepsIInv DEF Thread
  <1>2. ASSUME NEW c \in Clients, Connect(c) \/ Write(c) \/ Close(c) \/ Leave(c)
        PROVE  IInv'
    BY <1>2, ConnectKeepsIInv, ClientKeepsIInv
  <1>3. CASE UNCHANGED vars
    BY <1>3 DEF vars, serverVars, clientVars, IInv, HttpTypeOK, BacklogInv,
                ClientInv, Serving, ReceivedInv, RefusedInv
  <1> QED
    BY <1>1, <1>2, <1>3 DEF Next

-----------------------------------------------------------------------------
(* Theorems.                                                               *)

\* The places of the connections, and what the one in service has received.
THEOREM InductiveInvariant == Spec => []IInv
  BY InitIInv, NextIInv, PTL DEF Spec

\* The counters of receive_http_request and send_response stay within the buffer
\* and the response, the terminating zero included.
THEOREM HttpTypeCorrect == Spec => []HttpTypeOK
  <1>1. IInv => HttpTypeOK
    BY DEF IInv
  <1> QED
    BY <1>1, InductiveInvariant, PTL

\* A handler sees the whole of what was announced in a way the code can read, or
\* the client has closed, in whatever pieces the request came.
THEOREM WholeRequestHolds == Spec => []WholeRequest
  <1>1. IInv => WholeRequest
    <2> SUFFICES ASSUME IInv, thread = "handle" PROVE WholeRequest
      BY DEF WholeRequest
    <2> DEFINE r == request[client]
    <2>1. r \in Requests \cup {NoRequest}
      BY DEF IInv, HttpTypeOK, ClientInv, Serving
    <2>2. r.head \in Nat /\ r.length \in Nat /\ SizeMod \in Nat
      BY <2>1, RequestsAreSized, HttpAssumption
    <2>3. closed[client] \/ used >= ExpectedTotal(r)
      BY DEF IInv, ReceivedInv
    <2> HIDE DEF r
    <2>4. \/ used >= r.head + r.length \/ closed[client]
          \/ ~r.spelled \/ r.head + r.length >= SizeMod
      BY <2>1, <2>2, <2>3, ExpectedSize
    <2> QED
      BY <2>4 DEF WholeRequest, r
  <1> QED
    BY <1>1, InductiveInvariant, PTL

\* Only what does not fit the buffer is refused with 413.
THEOREM RefusedTooLargeHolds == Spec => []RefusedTooLarge
  <1>1. IInv => RefusedTooLarge
    <2> SUFFICES ASSUME IInv, NEW c \in Clients, outcome[c] = "refused"
                 PROVE  request[c].head + request[c].length >= BufSize
      BY DEF RefusedTooLarge
    <2>1. request[c].head \in Nat /\ request[c].length \in Nat /\ BufSize \in Nat
      BY RequestsAreSized, HttpAssumption DEF IInv, HttpTypeOK
    <2> QED
      BY <2>1 DEF IInv, RefusedInv, Fits
  <1> QED
    BY <1>1, InductiveInvariant, PTL
=============================================================================
