----------------------------- MODULE HttpServer -----------------------------
(***************************************************************************)
(* The HTTP server's one thread: start(), the accept loop, one connection  *)
(* at a time under its time bounds, and stop() from the daemon's main      *)
(* thread at any point. A request and a response are counted in units of   *)
(* bytes; what they say is the router's.                                   *)
(***************************************************************************)
EXTENDS Integers, FiniteSets

CONSTANTS kFirstByte, io_timeout,
          min_send_rate,  \* units a unit of time must take, at the least
          ReqLen,         \* units of a request
          RespLens,       \* units a response may have
          Room,           \* units the socket's send buffer takes
          MaxConns, MaxStarts   \* bounds: connections, calls of start()

\* The setters raise a bound or a rate of 0 to 1.
ServerAssumption ==
    /\ kFirstByte \in Nat /\ io_timeout \in Nat \ {0} /\ min_send_rate \in Nat \ {0}
    /\ ReqLen \in Nat \ {0} /\ RespLens \subseteq Nat /\ Room \in Nat
    /\ MaxConns \in Nat /\ MaxStarts \in Nat

VARIABLES running, listening,   \* running_, listen_fd_ open
          serving,      \* serving_fd_: the connection being served, or not
          pc,           \* the thread: "off", "top", "accept", "accepted", "first",
                        \* "recv", "handle", "send", "done", "ended"
          got, sent, resp,      \* units read and sent, of a response this long
          hijacked,
          deadline, waited,     \* the bound that applies; when the wait began
          inq, room, gone,      \* the socket: units to read, room to send, peer gone
          cut,          \* stop() has shut this connection down
          fds,          \* descriptors open: "listen", "conn"
          spc,          \* stop(): "none", "closing", "shutting", "joining", "done"
          now, began,   \* the time; when the connection was accepted
          asked,        \* when stop() was called
          conns, starts

thread == <<pc, got, sent, resp, hijacked, deadline, waited, began>>
socket == <<inq, room, gone, cut>>
vars == <<running, listening, serving, thread, socket, fds, spc, now, asked, conns, starts>>

Serving == {"first", "recv", "handle", "send"}

Init ==
    /\ running = FALSE /\ listening = FALSE /\ serving = FALSE
    /\ pc = "off" /\ got = 0 /\ sent = 0 /\ resp = 0 /\ hijacked = FALSE
    /\ deadline = 0 /\ waited = 0 /\ began = 0
    /\ inq = 0 /\ room = 0 /\ gone = FALSE /\ cut = FALSE
    /\ fds = {} /\ spc = "none" /\ now = 0 /\ asked = 0 /\ conns = 0 /\ starts = 0

-----------------------------------------------------------------------------
\* start() on the main thread: a step that fails closes what was opened.
Start ==
    /\ spc \in {"none", "done"} /\ ~running /\ ~listening /\ starts < MaxStarts
    /\ starts' = starts + 1
    /\ listening' = TRUE /\ running' = TRUE /\ fds' = fds \cup {"listen"}
    /\ pc' = "top" /\ spc' = "none"
    /\ UNCHANGED <<serving, got, sent, resp, hijacked, deadline, waited, began,
                   socket, now, asked, conns>>

StartFails ==
    /\ spc \in {"none", "done"} /\ ~running /\ ~listening /\ starts < MaxStarts
    /\ starts' = starts + 1
    /\ UNCHANGED <<running, listening, serving, thread, socket, fds, spc, now, asked, conns>>

-----------------------------------------------------------------------------
\* run_loop().
Step(p) ==
    /\ pc' = p
    /\ UNCHANGED <<got, sent, resp, hijacked, deadline, waited, began>>

Elsewhere == UNCHANGED <<running, listening, fds, spc, now, asked, conns, starts>>

LoopTop ==
    /\ pc = "top"
    /\ Step(IF running THEN "accept" ELSE "ended")
    /\ Elsewhere /\ UNCHANGED <<serving, socket>>

\* accept4() gives a connection, or a shortage that is waited out, or ends the
\* loop: the socket is closed.
Accept ==
    /\ pc = "accept" /\ listening /\ conns < MaxConns
    /\ conns' = conns + 1
    /\ fds' = fds \cup {"conn"}
    /\ inq' = 0 /\ room' = Room /\ gone' = FALSE /\ cut' = FALSE
    /\ Step("accepted")
    /\ UNCHANGED <<running, listening, serving, spc, now, asked, starts>>

AcceptFails ==
    /\ pc = "accept" /\ listening
    /\ Step("top")
    /\ Elsewhere /\ UNCHANGED <<serving, socket>>

AcceptEnds ==
    /\ pc = "accept" /\ ~listening
    /\ Step("ended")
    /\ Elsewhere /\ UNCHANGED <<serving, socket>>

\* serving_fd_ is set, and handle_client() starts its bounds.
HandleClient ==
    /\ pc = "accepted"
    /\ serving' = TRUE
    /\ pc' = "first" /\ got' = 0 /\ sent' = 0 /\ resp' = 0 /\ hijacked' = FALSE
    /\ deadline' = now + io_timeout /\ waited' = now /\ began' = now
    /\ Elsewhere /\ UNCHANGED socket

\* poll() for the first bytes: something is there (a hang-up too), or not.
Readable == inq > 0 \/ gone \/ cut

FirstByte ==
    /\ pc = "first"
    /\ \/ Readable /\ pc' = "recv" /\ waited' = now
       \/ now >= began + kFirstByte /\ pc' = "done" /\ UNCHANGED waited
    /\ UNCHANGED <<got, sent, resp, hijacked, deadline, began>>
    /\ Elsewhere /\ UNCHANGED <<serving, socket>>

\* recv_bounded() and what read_until_headers() and read_full() make of it.
\* Faulty form: the connection's bound counted anew at each wait.
RecvExpired_PerWait == now >= waited + io_timeout
RecvExpired == now >= deadline \/ now >= waited + io_timeout

Recv ==
    /\ pc = "recv"
    /\ \/ /\ RecvExpired
          /\ pc' = "done" /\ UNCHANGED <<got, inq, waited>>
       \/ /\ ~RecvExpired /\ inq > 0 /\ ~cut
          /\ got' = got + inq /\ inq' = 0 /\ waited' = now
          /\ pc' = IF got' >= ReqLen THEN "handle" ELSE "recv"
       \/ /\ ~RecvExpired /\ Readable /\ (inq = 0 \/ cut)
          /\ pc' = "done" /\ UNCHANGED <<got, inq, waited>>
    /\ UNCHANGED <<sent, resp, hijacked, deadline, began>>
    /\ Elsewhere /\ UNCHANGED <<serving, room, gone, cut>>

\* The handler's answer and its bound, or the socket handed over.
rate_allowance(len) == len \div min_send_rate

Handle ==
    /\ pc = "handle"
    /\ \/ /\ resp' \in RespLens
          /\ deadline' = now + io_timeout + rate_allowance(resp')
          /\ pc' = "send" /\ waited' = now /\ UNCHANGED <<hijacked, fds>>
       \/ /\ hijacked' = TRUE /\ pc' = "done"
          /\ fds' = fds \ {"conn"}        \* the hub's from here on
          /\ UNCHANGED <<resp, deadline, waited>>
    /\ UNCHANGED <<got, sent, began, running, listening, serving, socket, spc, now,
                   asked, conns, starts>>

\* send_all(): what fits goes out, else a wait for room within the bounds.
SendExpired == now >= deadline \/ now >= waited + io_timeout

Send ==
    /\ pc = "send"
    /\ \/ /\ sent < resp /\ ~gone /\ ~cut /\ room > 0
          /\ LET n == IF resp - sent < room THEN resp - sent ELSE room
             IN  sent' = sent + n /\ room' = room - n
          /\ waited' = now /\ UNCHANGED pc
       \/ /\ sent = resp \/ gone \/ cut \/ (room = 0 /\ SendExpired)
          /\ pc' = "done" /\ UNCHANGED <<sent, room, waited>>
    /\ UNCHANGED <<got, resp, hijacked, deadline, began>>
    /\ Elsewhere /\ UNCHANGED <<serving, inq, gone, cut>>

\* serving_fd_ is -1 before the close.

Finish ==
    /\ pc = "done"
    /\ serving' = FALSE
    /\ fds' = IF hijacked THEN fds ELSE fds \ {"conn"}
    /\ Step("top")
    /\ UNCHANGED <<running, listening, socket, spc, now, asked, conns, starts>>

-----------------------------------------------------------------------------
\* stop() on the main thread.
StopBegins ==
    /\ spc = "none" /\ running
    /\ running' = FALSE
    /\ spc' = "closing" /\ asked' = now
    /\ UNCHANGED <<listening, serving, thread, socket, fds, now, conns, starts>>

\* Faulty form: the listening socket not closed.
StopCloses_NotClosed ==
    /\ spc = "closing" /\ spc' = "shutting"
    /\ UNCHANGED <<running, listening, serving, thread, socket, fds, now, asked, conns, starts>>

StopCloses ==
    /\ spc = "closing"
    /\ listening' = FALSE /\ fds' = fds \ {"listen"}
    /\ spc' = "shutting"
    /\ UNCHANGED <<running, serving, thread, socket, now, asked, conns, starts>>

StopShutsDown ==
    /\ spc = "shutting"
    /\ cut' = (cut \/ serving)
    /\ spc' = "joining"
    /\ UNCHANGED <<running, listening, serving, thread, inq, room, gone, fds, now, asked,
                   conns, starts>>

StopJoins ==
    /\ spc = "joining" /\ pc = "ended"
    /\ spc' = "done" /\ pc' = "off"
    /\ UNCHANGED <<running, listening, serving, got, sent, resp, hijacked, deadline, waited,
                   began, socket, fds, now, asked, conns, starts>>

\* The client sends, reads, hangs up.
Client ==
    /\ pc \in {"accepted"} \cup Serving
    /\ \/ inq + got < ReqLen /\ ~gone /\ inq' = inq + 1 /\ UNCHANGED <<room, gone>>
       \/ room < Room /\ ~gone /\ room' = room + 1 /\ UNCHANGED <<inq, gone>>
       \/ ~gone /\ gone' = TRUE /\ UNCHANGED <<inq, room>>
    /\ UNCHANGED <<running, listening, serving, thread, cut, fds, spc, now, asked, conns, starts>>

\* Time passes only while both threads wait: in poll(), accept4(), pthread_join().
Waits ==
    /\ \/ pc \in {"off", "ended"}
       \/ pc = "accept" /\ listening
       \/ pc = "first" /\ ~Readable /\ now < began + kFirstByte
       \/ pc = "recv" /\ ~Readable /\ ~RecvExpired
       \/ pc = "send" /\ sent < resp /\ room = 0 /\ ~gone /\ ~cut /\ ~SendExpired
    /\ spc \in {"none", "done"} \/ (spc = "joining" /\ pc # "ended")

\* Idle time before a connection comes and after it makes no difference to the
\* bounds: the clock runs while one is served.
TimePasses ==
    /\ Waits /\ pc \in Serving
    /\ now' = now + 1
    /\ UNCHANGED <<running, listening, serving, thread, socket, fds, spc, asked, conns, starts>>

\* start() is not called again, or refuses: a socket is still open.
Idle ==
    /\ pc = "off" /\ (starts = MaxStarts \/ listening) /\ spc \in {"none", "done"}
    /\ UNCHANGED vars

Loop ==
    \/ LoopTop \/ Accept \/ AcceptEnds \/ HandleClient
    \/ FirstByte \/ Recv \/ Handle \/ Send \/ Finish

Stop == StopBegins \/ StopCloses \/ StopShutsDown \/ StopJoins

Next ==
    \/ Start \/ StartFails
    \/ Loop \/ AcceptFails
    \/ Stop \/ Client \/ TimePasses \/ Idle

\* The thread and the main thread run; a poll's time runs out.
Spec ==
    /\ Init /\ [][Next]_vars
    /\ WF_vars(Loop) /\ WF_vars(StopCloses \/ StopShutsDown \/ StopJoins) /\ WF_vars(TimePasses)

-----------------------------------------------------------------------------
\* The thread serves only a connection it has open, and no more than one; the
\* listening socket is open exactly as long as listen_fd_ says.
TypeOK ==
    /\ pc \in {"off", "top", "accept", "accepted", "done", "ended"} \cup Serving
    /\ spc \in {"none", "closing", "shutting", "joining", "done"}
    /\ got \in 0 .. ReqLen
    /\ resp \in {0} \cup RespLens /\ sent \in 0 .. resp
    /\ room \in 0 .. Room /\ fds \subseteq {"listen", "conn"}
    /\ serving <=> pc \in Serving \cup {"done"}

\* Nothing stays open: the connection is closed before the next accept and the
\* listening socket when start() fails or stop() has run.
NoFdLeak ==
    /\ "listen" \in fds <=> listening
    /\ "conn" \in fds => pc \in {"accepted", "done"} \cup Serving

\* No client holds the one thread: a silent one for kFirstByte, one that sends
\* for io_timeout (a budget below kFirstByte is over by then), one that reads
\* for io_timeout more and its answer's size at the minimum rate, however it
\* spaces its bytes.
ThreadFreed ==
    /\ pc = "first" => now - began <= kFirstByte
    /\ pc = "recv" => now - began <= kFirstByte \/ now - began <= io_timeout
    /\ pc = "handle" => now - began <= io_timeout
    /\ pc = "send" => now - began <= io_timeout + io_timeout + rate_allowance(resp)

\* stop() always returns, whatever the client does.
StopReturns == spc = "closing" ~> spc = "done"

\* A stop does not wait for the connection being served: once stop() has shut
\* it down the thread comes back without waiting for the client.
StopPrompt == spc = "joining" /\ cut => now = asked

\* Whatever the client does and whenever a stop comes, descriptors balance, the
\* one thread is freed in time and the stop waits for no client.
ServerSafe == TypeOK /\ NoFdLeak /\ ThreadFreed /\ StopPrompt
=============================================================================
