-------------------------------- MODULE WsHub --------------------------------
(***************************************************************************)
(* The WebSocket hub between two threads.  The collection loop serves the  *)
(* clients, drops those whose session has ended, collects (pushing the     *)
(* sample into the hot buffer) and broadcasts; the HTTP thread lets a      *)
(* client in, with a first frame made from the hot buffer under the hub's  *)
(* lock, and waits a while for its socket.  A frame is a sequence of       *)
(* units, so that a socket can take a part of one; descriptor numbers are  *)
(* used again once closed.                                                 *)
(***************************************************************************)
EXTENDS Integers, Sequences, FiniteSets

CONSTANTS Conns,             \* connections, each made once
          Fds,               \* descriptor numbers
          Sessions, NoAuth,  \* session tokens; "" with auth off
          SockBuf,           \* units a socket takes before its peer reads
          kMaxClients, kMaxBacklog, kCatchupSamples,
          MaxTicks, MaxPings \* bounds: samples collected, pings of a client

HubAssumption ==
    /\ IsFiniteSet(Conns) /\ IsFiniteSet(Fds) /\ NoAuth \notin Sessions
    /\ SockBuf \in Nat \ {0} /\ kMaxClients \in Nat /\ kMaxBacklog \in Nat
    /\ kCatchupSamples \in Nat \ {0} /\ MaxTicks \in Nat /\ MaxPings \in Nat

VARIABLES st, fd, sess,   \* per connection: "new", "client", "closed"
          out,            \* outbuf
          wire, room,     \* units its socket has taken; units it takes now
          in,             \* what its peer has sent: "ping", "close", "junk", "eof"
          valid,          \* sessions verify() accepts
          ticks, told,    \* samples pushed, samples broadcast
          http,           \* the HTTP thread: [at, conn, seen]
          main, gone,     \* the loop's next step; drop_sessions()' findings
          reg             \* ticks pushed when the client was registered

peers == <<wire, room, in>>
hub == <<st, fd, sess, out>>
loop == <<ticks, told, main, gone>>
vars == <<hub, peers, valid, loop, http, reg>>

\* Frames: the catch-up of samples from .. to, one tick's sample, and control
\* frames, which are short.
Frame(kind, from, to, n) == [i \in 1 .. n |->
    [kind |-> kind, from |-> from, to |-> to, part |-> i, of |-> n]]
TickFrame(n) == Frame("tick", n, n, 2)
Control(kind) == Frame(kind, 0, 0, 1)
\* Faulty form: the buffer as it was before the client was registered.
FirstFrame_Seen(seen) ==
    Frame("first", IF seen > kCatchupSamples THEN seen - kCatchupSamples + 1 ELSE 1, seen, 3)
\* The newest kCatchupSamples of the hot buffer, as it is now.
FirstFrame(seen) ==
    Frame("first", IF ticks > kCatchupSamples THEN ticks - kCatchupSamples + 1 ELSE 1, ticks, 3)

Clients == {c \in Conns : st[c] = "client"}
Failed(c) == in[c] = "eof"                 \* send() and recv() say so
Run == [at |-> "run"]

Init ==
    /\ st = [c \in Conns |-> "new"] /\ fd = [c \in Conns |-> 0]
    /\ sess \in [Conns -> Sessions] \cup {[c \in Conns |-> NoAuth]}
    /\ out = [c \in Conns |-> <<>>] /\ wire = [c \in Conns |-> <<>>]
    /\ room = [c \in Conns |-> SockBuf] /\ in = [c \in Conns |-> "none"]
    /\ valid = Sessions /\ ticks = 0 /\ told = 0
    /\ http = Run /\ main = "service" /\ gone = {}
    /\ reg = [c \in Conns |-> 0]

\* flush_out(), and the part of queue_out() that sends: what the socket takes
\* of o goes out, the rest is owed.
Taken(c, o) == IF Len(o) < room[c] THEN Len(o) ELSE room[c]
Sent(c, o) == SubSeq(o, 1, Taken(c, o))
Owed(c, o) == SubSeq(o, Taken(c, o) + 1, Len(o))

\* queue_out(): in order, what is owed first; false drops the client.
Queued(c, frame) == out[c] \o frame
Keeps(c, o) == ~Failed(c) /\ Len(Owed(c, o)) <= kMaxBacklog

\* A close frame goes only where no frame is half sent.
Closing(c) == IF out[c] = <<>> THEN Control("close") ELSE <<>>

\* What a step over all the clients does: o(c) is what client c is to be sent,
\* and the ones in `dropped` are closed and erased after it.
Serve(o, dropped) ==
    /\ wire' = [c \in Conns |-> IF c \in Clients /\ ~Failed(c) THEN wire[c] \o Sent(c, o[c])
                                ELSE wire[c]]
    /\ room' = [c \in Conns |-> IF c \in Clients /\ ~Failed(c) THEN room[c] - Taken(c, o[c])
                                ELSE room[c]]
    /\ out' = [c \in Conns |-> IF c \in Clients \ dropped THEN Owed(c, o[c]) ELSE <<>>]
    /\ st' = [c \in Conns |-> IF c \in dropped THEN "closed" ELSE st[c]]
    /\ UNCHANGED <<fd, sess>>

-----------------------------------------------------------------------------
\* The HTTP thread.  The upgrade is let in with a session that is good now, if
\* there is room in the hub; then the handshake is sent.
Upgrade(c) ==
    /\ http = Run /\ st[c] = "new"
    /\ sess[c] \in valid \cup {NoAuth}
    /\ Cardinality(Clients) < kMaxClients
    /\ \E f \in Fds :
          /\ \A d \in Clients : fd[d] # f
          /\ fd' = [fd EXCEPT ![c] = f]
    /\ http' = [at |-> "add", conn |-> c, seen |-> ticks]
    /\ UNCHANGED <<st, sess, out, peers, valid, loop, reg>>

\* add() with a first frame, under the hub's lock.
Add ==
    /\ http.at = "add"
    /\ LET c == http.conn  o == FirstFrame(http.seen) IN
          /\ IF Failed(c)
             THEN /\ st' = [st EXCEPT ![c] = "closed"]
                  /\ http' = Run /\ UNCHANGED <<wire, room, out>>
             ELSE /\ st' = [st EXCEPT ![c] = "client"]
                  /\ wire' = [wire EXCEPT ![c] = Sent(c, o)]
                  /\ room' = [room EXCEPT ![c] = @ - Taken(c, o)]
                  /\ out' = [out EXCEPT ![c] = Owed(c, o)]
                  /\ http' = IF Owed(c, o) = <<>> THEN Run
                             ELSE [at |-> "flush", conn |-> c, seen |-> 0]
          /\ reg' = [reg EXCEPT ![c] = ticks]
    /\ UNCHANGED <<fd, sess, in, valid, loop>>

\* flush_owed(): the socket is ready, or the descriptor is no client's any more.
FlushOwed ==
    /\ http.at = "flush"
    /\ LET c == http.conn IN
          /\ c \notin Clients \/ room[c] > 0 \/ Failed(c)
          /\ IF c \in Clients
             THEN /\ wire' = [wire EXCEPT ![c] = IF Failed(c) THEN @ ELSE @ \o Sent(c, out[c])]
                  /\ room' = [room EXCEPT ![c] = IF Failed(c) THEN @ ELSE @ - Taken(c, out[c])]
                  /\ out' = [out EXCEPT ![c] = IF Failed(c) THEN <<>> ELSE Owed(c, @)]
                  /\ st' = [st EXCEPT ![c] = IF Failed(c) THEN "closed" ELSE @]
                  /\ http' = IF ~Failed(c) /\ Owed(c, out[c]) # <<>> THEN http ELSE Run
                  /\ UNCHANGED <<fd, sess>>
             ELSE http' = Run /\ UNCHANGED <<wire, room, hub>>
    /\ UNCHANGED <<in, valid, loop, reg>>

FlushTimesOut ==
    /\ http.at = "flush"
    /\ http' = Run
    /\ UNCHANGED <<hub, peers, valid, loop, reg>>

\* A logout (the HTTP thread), or the TTL.
Logout(s) ==
    /\ http = Run /\ s \in valid
    /\ valid' = valid \ {s}
    /\ UNCHANGED <<hub, peers, loop, http, reg>>

Expire(s) ==
    /\ s \in valid
    /\ valid' = valid \ {s}
    /\ UNCHANGED <<hub, peers, loop, http, reg>>

-----------------------------------------------------------------------------
\* The loop.  service(): send what is owed, read and answer.
Reply(c) == CASE in[c] = "ping" -> Queued(c, Control("pong"))
              [] in[c] = "close" /\ Owed(c, out[c]) = <<>> -> Queued(c, Control("close"))
              [] OTHER -> out[c]

LetGo(c) ==
    in[c] \in {"close", "junk", "eof"} \/ (in[c] = "ping" /\ ~Keeps(c, Reply(c)))

Service ==
    /\ main = "service"
    /\ Serve([c \in Conns |-> Reply(c)], {c \in Clients : LetGo(c)})
    /\ in' = [c \in Conns |-> IF c \in Clients /\ in[c] = "ping" THEN "none" ELSE in[c]]
    /\ main' = "sessions"
    /\ UNCHANGED <<valid, ticks, told, gone, http, reg>>

\* drop_sessions(): the tokens are copied under the lock, checked without it ...
Collected == {<<fd[c], sess[c]>> : c \in {d \in Clients : sess[d] # NoAuth}}

DropCollect ==
    /\ main = "sessions"
    /\ gone' = Collected
    /\ main' = "verify"
    /\ UNCHANGED <<hub, peers, valid, ticks, told, http, reg>>

DropVerify ==
    /\ main = "verify"
    /\ gone' = {g \in gone : g[2] \notin valid}
    /\ main' = "drop"
    /\ UNCHANGED <<hub, peers, valid, ticks, told, http, reg>>

\* ... and the clients that still are those are closed (faulty form: by the
\* number alone).
Ended_ByFd(c) == \E g \in gone : g[1] = fd[c]
Ended(c) == <<fd[c], sess[c]>> \in gone

DropSessions ==
    /\ main = "drop"
    /\ LET dropped == {c \in Clients : Ended(c)} IN
          /\ wire' = [c \in Conns |-> IF c \in dropped /\ ~Failed(c)
                                      THEN wire[c] \o Sent(c, Closing(c)) ELSE wire[c]]
          /\ out' = [c \in Conns |-> IF c \in dropped THEN <<>> ELSE out[c]]
          /\ st' = [c \in Conns |-> IF c \in dropped THEN "closed" ELSE st[c]]
    /\ gone' = {}
    /\ main' = "tick"
    /\ UNCHANGED <<fd, sess, room, in, valid, ticks, told, http, reg>>

\* A collecting tick pushes its sample before it is broadcast; an idle one
\* (on demand) does neither.
Push ==
    /\ main = "tick" /\ ticks < MaxTicks
    /\ ticks' = ticks + 1
    /\ main' = "broadcast"
    /\ UNCHANGED <<hub, peers, valid, told, gone, http, reg>>

IdleTick ==
    /\ main = "tick"
    /\ main' = "service"
    /\ UNCHANGED <<hub, peers, valid, ticks, told, gone, http, reg>>

Broadcast ==
    /\ main = "broadcast"
    /\ Serve([c \in Conns |-> Queued(c, TickFrame(ticks))],
             {c \in Clients : ~Keeps(c, Queued(c, TickFrame(ticks)))})
    /\ told' = ticks
    /\ main' = "service"
    /\ UNCHANGED <<in, valid, ticks, gone, http, reg>>

-----------------------------------------------------------------------------
\* The peers: read a unit, send something, hang up.
PeerReads(c) ==
    /\ st[c] = "client" /\ room[c] < SockBuf
    /\ room' = [room EXCEPT ![c] = @ + 1]
    /\ UNCHANGED <<hub, wire, in, valid, loop, http, reg>>

Stream(c) == wire[c] \o out[c]
Pongs(c) == Cardinality({i \in 1 .. Len(Stream(c)) : Stream(c)[i].kind = "pong"})

PeerSends(c) ==
    /\ in[c] = "none"
    /\ st[c] = "client" \/ (http.at = "add" /\ http.conn = c)
    /\ \E x \in {"ping", "close", "junk", "eof"} :
          /\ x = "ping" => Pongs(c) < MaxPings
          /\ in' = [in EXCEPT ![c] = x]
    /\ UNCHANGED <<hub, wire, room, valid, loop, http, reg>>

Next ==
    \/ \E c \in Conns : Upgrade(c) \/ PeerReads(c) \/ PeerSends(c)
    \/ Add \/ FlushOwed \/ FlushTimesOut
    \/ \E s \in Sessions : Logout(s) \/ Expire(s)
    \/ Service \/ DropCollect \/ DropVerify \/ DropSessions
    \/ Push \/ IdleTick \/ Broadcast

LoopStep == Service \/ DropCollect \/ DropVerify \/ DropSessions \/ Push \/ IdleTick \/ Broadcast

Spec == Init /\ [][Next]_vars /\ WF_vars(LoopStep) /\ WF_vars(FlushTimesOut) /\ WF_vars(Add)

-----------------------------------------------------------------------------
\* The hub's descriptors are open ones, each of one client; what is owed stays
\* under the bound, the first frame apart, and a socket is never overfull.
TypeOK ==
    /\ st \in [Conns -> {"new", "client", "closed"}]
    /\ \A c \in Clients : /\ fd[c] \in Fds
                          /\ \/ Len(out[c]) <= kMaxBacklog
                             \/ \A i \in 1 .. Len(out[c]) : out[c][i].kind = "first"
    /\ \A c, d \in Clients : c # d => fd[c] # fd[d]
    /\ \A c \in Conns : room[c] \in 0 .. SockBuf
    /\ Cardinality(Clients) <= kMaxClients
    /\ told \in {ticks, ticks - 1} /\ valid \subseteq Sessions

\* Whole frames one after the other, the last one perhaps in part.
Continues(p, u) == p = [u EXCEPT !.part = @ - 1]
Whole(s) ==
    \A i \in 1 .. Len(s) :
        IF s[i].part = 1 THEN i > 1 => s[i - 1].part = s[i - 1].of
        ELSE i > 1 /\ Continues(s[i - 1], s[i])

\* What is on the wire, and what is owed after it, is whole frames one after
\* the other: a frame the socket took part of is finished before anything else
\* is sent, a pong, the next tick or a close frame.
WholeFrames == \A c \in Conns : Whole(Stream(c))

\* A stream that begins with what was there at sample r and has every sample
\* from then to n, in order; only the newest of the first frame may come a
\* second time.
Tick(u) == u.kind = "tick" /\ u.part = 1
Follows(s, r, n) ==
    /\ s # <<>> /\ s[1].kind = "first" /\ s[1].to = r
    /\ \A i \in 1 .. Len(s) : Tick(s[i]) => s[i].from \in r .. n
    /\ \A i, j \in 1 .. Len(s) : i < j /\ Tick(s[i]) /\ Tick(s[j]) => s[i].from < s[j].from
    /\ \A m \in r + 1 .. n : \E i \in 1 .. Len(s) : Tick(s[i]) /\ s[i].from = m

\* No tick is missed: a client's samples follow on from its first frame, in
\* order and without a gap, up to the last one broadcast.
NoTickMissed == \A c \in Clients : Follows(Stream(c), reg[c], told)

\* A client is dropped for its session only when that session has ended, though
\* its descriptor's number was another client's when the sessions were checked.
DropOnlyEnded ==
    \A c \in Conns : main = "drop" /\ main' = "tick" /\ st[c] = "client" /\ st'[c] = "closed"
                      => sess[c] \notin valid
DropsOnlyEnded == [][DropOnlyEnded]_vars

\* The stream of a session that has ended stops, and a client that hung up is
\* let go (it would hold the level at L3).
EndedLeave ==
    \A c \in Conns :
        /\ (st[c] = "client" /\ sess[c] \notin valid \cup {NoAuth}) ~> st[c] # "client"
        /\ (st[c] = "client" /\ Failed(c)) ~> st[c] # "client"

\* The HTTP thread comes back from a reader that reads nothing.
HttpComesBack == http.at # "run" ~> http.at = "run"
=============================================================================
