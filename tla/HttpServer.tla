----------------------------- MODULE HttpServer -----------------------------
(***************************************************************************)
(* The server of src/modules/api_module.c: one thread that opens the       *)
(* listener, accepts one connection at a time, receives a request into a   *)
(* buffer of fixed size, hands it to a handler and sends the response.     *)
(* Clients write their requests in pieces of any size, stop, or close, at  *)
(* any moment; further clients wait in the backlog of the listener.        *)
(*                                                                         *)
(* A request is known by its sizes only.  The handlers are the business of *)
(* the other modules: here a handler takes a request and leaves a response *)
(* to send.  Timeouts are not counted: a poll with nothing to report may   *)
(* expire.                                                                 *)
(***************************************************************************)
EXTENDS Integers, Sequences

CONSTANTS
    Clients,
    NoClient,
    Requests,   \* see RequestType
    BufSize,    \* HTTP_RX_BUF_SIZE
    RespSize,   \* size of a response
    Backlog,    \* argument of zsock_listen
    SizeMod,    \* 2^32: int and size_t wrap there
    HttpFaults  \* subset of HttpFaultKinds

HttpFaultKinds == {"poll_error", "accept_error", "socket_error"}

\* What a client means to send: a head that ends with the blank line, and a
\* body.  length is what its Content-Length header says, and spelled whether the
\* name of the header is written the way http_content_length compares it.
RequestType ==
    [head : Nat \ {0}, length : Nat, body : Nat, spelled : BOOLEAN]

ASSUME HttpAssumption ==
    /\ NoClient \notin Clients
    /\ \A r \in Requests : r \in RequestType
    /\ BufSize \in Nat \ {0, 1} /\ RespSize \in Nat \ {0}
    /\ Backlog \in Nat \ {0} /\ SizeMod \in Nat \ {0}
    /\ HttpFaults \subseteq HttpFaultKinds

VARIABLES
    server_fd,  \* is the listener open?
    thread,     \* where api_thread is
    queue,      \* the backlog
    client,     \* the one being served
    used, expected,  \* of receive_http_request
    reply,      \* what the response will tell the client
    sent_total, \* of send_response
    request,    \* by client: what it means to send, ...
    written,    \* ... how much of that it has written, ...
    closed,     \* ... whether it has closed its side, ...
    outcome     \* ... and what became of its connection

serverVars == <<server_fd, thread, queue, client, used, expected, reply,
                sent_total>>
clientVars == <<request, written, closed>>
vars == <<serverVars, clientVars, outcome>>

NoRequest == [head |-> 1, length |-> 0, body |-> 0, spelled |-> TRUE]

HttpTypeOK ==
    /\ server_fd \in BOOLEAN
    /\ thread \in {"start", "open", "poll", "receive", "handle", "send"}
    /\ queue \in Seq(Clients) /\ Len(queue) <= Backlog
    /\ client \in Clients \cup {NoClient}
    /\ used \in 0 .. BufSize - 1 /\ expected \in 0 .. SizeMod - 1
    /\ reply \in {"answered", "refused"} /\ sent_total \in 0 .. RespSize
    /\ request \in [Clients -> Requests \cup {NoRequest}]
    /\ written \in [Clients -> Nat] /\ closed \in [Clients -> BOOLEAN]
    /\ outcome \in [Clients ->
                      {"none", "waiting", "answered", "refused", "dropped"}]

Init ==
    /\ server_fd = FALSE /\ thread = "start" /\ queue = << >>
    /\ client = NoClient
    /\ used = 0 /\ expected = 0 /\ reply = "answered" /\ sent_total = 0
    /\ request = [c \in Clients |-> NoRequest]
    /\ written = [c \in Clients |-> 0] /\ closed = [c \in Clients |-> FALSE]
    /\ outcome = [c \in Clients |-> "none"]

-----------------------------------------------------------------------------
(* Clients.                                                                *)

Connect(c) ==
    /\ server_fd /\ Len(queue) < Backlog /\ outcome[c] = "none"
    /\ queue' = Append(queue, c)
    /\ \E r \in Requests : request' = [request EXCEPT ![c] = r]
    /\ outcome' = [outcome EXCEPT ![c] = "waiting"]
    /\ UNCHANGED <<server_fd, thread, client, used, expected, reply,
                   sent_total, written, closed>>

Write(c) ==
    /\ outcome[c] = "waiting" /\ ~closed[c]
    /\ \E n \in written[c] + 1 .. request[c].head + request[c].body :
          written' = [written EXCEPT ![c] = n]
    /\ UNCHANGED <<serverVars, request, closed, outcome>>

Close(c) ==
    /\ outcome[c] = "waiting" /\ ~closed[c]
    /\ closed' = [closed EXCEPT ![c] = TRUE]
    /\ UNCHANGED <<serverVars, request, written, outcome>>

\* The client is done and may come back with another request.
Leave(c) ==
    /\ outcome[c] \notin {"none", "waiting"}
    /\ outcome' = [outcome EXCEPT ![c] = "none"]
    /\ request' = [request EXCEPT ![c] = NoRequest]
    /\ written' = [written EXCEPT ![c] = 0]
    /\ closed' = [closed EXCEPT ![c] = FALSE]
    /\ UNCHANGED serverVars

-----------------------------------------------------------------------------
(* The listener.                                                           *)

Start ==
    /\ thread = "start"
    /\ thread' = "open"
    /\ UNCHANGED <<server_fd, queue, client, used, expected, reply,
                   sent_total, clientVars, outcome>>

\* A failure to open it changes nothing: the thread sleeps and tries again.
OpenListener ==
    /\ thread = "open"
    /\ server_fd' = TRUE /\ thread' = "poll"
    /\ UNCHANGED <<queue, client, used, expected, reply, sent_total,
                   clientVars, outcome>>

\* api_close_listener takes the clients of the backlog with it.
PollFails ==
    /\ "poll_error" \in HttpFaults
    /\ thread = "poll"
    /\ server_fd' = FALSE /\ thread' = "open"
    /\ queue' = << >>
    /\ outcome' = [c \in Clients |->
                     IF \E i \in 1 .. Len(queue) : queue[i] = c
                     THEN "dropped" ELSE outcome[c]]
    /\ UNCHANGED <<client, used, expected, reply, sent_total, clientVars>>

Accept ==
    /\ thread = "poll" /\ queue # << >>
    /\ queue' = Tail(queue)
    /\ client' = Head(queue) /\ thread' = "receive"
    /\ used' = 0 /\ expected' = 0
    /\ UNCHANGED <<server_fd, reply, sent_total, clientVars, outcome>>

AcceptFails ==
    /\ "accept_error" \in HttpFaults
    /\ thread = "poll" /\ queue # << >>
    /\ queue' = Tail(queue)
    /\ outcome' = [outcome EXCEPT ![Head(queue)] = "dropped"]
    /\ UNCHANGED <<server_fd, thread, client, used, expected, reply,
                   sent_total, clientVars>>

-----------------------------------------------------------------------------
(* One connection.                                                         *)

\* The connection ends and api_thread goes back to its poll.
EndsWith(result) ==
    /\ outcome' = [outcome EXCEPT ![client] = result]
    /\ thread' = "poll" /\ client' = NoClient
    /\ used' = 0 /\ expected' = 0 /\ sent_total' = 0 /\ reply' = "answered"
    /\ UNCHANGED <<server_fd, queue, clientVars>>

\* http_content_length, and the size of the whole request it leads to.
http_content_length(r) == IF r.spelled THEN r.length % SizeMod ELSE 0
ExpectedTotal(r) == (r.head + http_content_length(r)) % SizeMod

\* One byte of the buffer is kept for the terminating zero.
MutRoom == BufSize - used
Room == BufSize - 1 - used

\* What becomes of a request of which u bytes are in the buffer, e are expected
\* and the head takes h.
MutReceivedHead(u, e, h) ==
    IF u >= h THEN (IF e < BufSize THEN "handle" ELSE "refused")
    ELSE IF u < BufSize - 1 THEN "receive" ELSE "refused"
MutReceivedShort(u, e, h) ==
    CASE u < h -> IF u < BufSize - 1 THEN "receive" ELSE "refused"
      [] u >= h /\ e >= BufSize - 1 -> "refused"
      [] OTHER -> IF u >= e THEN "handle" ELSE "receive"
Received(u, e, h) ==
    CASE u < h -> IF u < BufSize - 1 THEN "receive" ELSE "refused"
      [] u >= h /\ e >= BufSize -> "refused"
      [] OTHER -> IF u >= e THEN "handle" ELSE "receive"

Receive ==
    /\ thread = "receive"
    /\ \E n \in 1 .. written[client] - used :
          n <= Room /\ used' = used + n
    /\ LET r == request[client]
           next == Received(used', expected', r.head)
       IN  /\ expected' = IF used' >= r.head THEN ExpectedTotal(r) ELSE 0
           /\ IF next = "refused"
              THEN thread' = "send" /\ reply' = "refused"
              ELSE thread' = next /\ UNCHANGED reply
    /\ UNCHANGED <<server_fd, queue, client, sent_total, clientVars, outcome>>

\* recv returns 0: whatever has arrived is taken for the request.
PeerClosed ==
    /\ thread = "receive" /\ written[client] = used /\ closed[client]
    /\ IF used > 0
       THEN /\ thread' = "handle"
            /\ UNCHANGED <<server_fd, queue, client, used, expected, reply,
                           sent_total, clientVars, outcome>>
       ELSE EndsWith("dropped")

\* Nothing came for HTTP_CLIENT_TIMEOUT_MS, or the socket failed.
MutReceiveFails ==
    /\ thread = "receive" /\ used = 0
    /\ written[client] = used /\ ~closed[client]
    /\ EndsWith("dropped")
ReceiveFails ==
    /\ thread = "receive"
    /\ \/ written[client] = used /\ ~closed[client]
       \/ "socket_error" \in HttpFaults
    /\ EndsWith("dropped")

\* handle_client has the request and one of the handlers answers it, if only
\* with 400, 401 or 404.
Handle ==
    /\ thread = "handle"
    /\ thread' = "send" /\ reply' = "answered"
    /\ UNCHANGED <<server_fd, queue, client, used, expected, sent_total,
                   clientVars, outcome>>

Send ==
    /\ thread = "send"
    /\ \E n \in sent_total + 1 .. RespSize :
          IF n = RespSize
          THEN EndsWith(reply)
          ELSE /\ sent_total' = n
               /\ UNCHANGED <<server_fd, thread, queue, client, used, expected,
                              reply, clientVars, outcome>>

\* The client does not read, or is gone.
SendFails ==
    /\ thread = "send"
    /\ EndsWith("dropped")

Thread == \/ Start \/ OpenListener \/ PollFails \/ Accept \/ AcceptFails
          \/ Receive \/ PeerClosed \/ ReceiveFails \/ Handle \/ Send \/ SendFails

Next == Thread \/ \E c \in Clients : Connect(c) \/ Write(c) \/ Close(c) \/ Leave(c)

\* The API thread has the lowest priority but the others block between events.
Spec == Init /\ [][Next]_vars
FairSpec == Spec /\ WF_vars(Thread)

-----------------------------------------------------------------------------
(* What the server owes its clients.                                       *)

\* A handler never sees the first part of a request whose client is still
\* sending: it has all that the client announced, or the client has closed.
\* Announced means in a way the code can read: the header spelled as it compares
\* it, and a size that fits a size_t.
WholeRequest ==
    thread = "handle" =>
        LET r == request[client] IN
        \/ used >= r.head + r.length
        \/ closed[client]
        \/ ~r.spelled \/ r.head + r.length >= SizeMod

\* 413 is for requests that do not fit the buffer with the terminating zero,
\* and those alone: the limit holds at its boundary, in whatever pieces the
\* request arrives.
RefusedTooLarge ==
    \A c \in Clients :
        outcome[c] = "refused" => request[c].head + request[c].length >= BufSize

\* One thread serves everybody, and yet every client that was let into the
\* backlog is answered or turned away in the end: a client that stops sending
\* or reading cannot keep the ones behind it waiting for ever.
ServedInTheEnd ==
    \A c \in Clients : outcome[c] = "waiting" ~> outcome[c] # "waiting"
=============================================================================
