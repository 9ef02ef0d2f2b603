-------------------------------- MODULE MCWs --------------------------------
(***************************************************************************)
(* The dashboard's clients: the WebSocket hub between its two threads, the *)
(* bytes a client sends it, and the table of sessions with its file. A     *)
(* behaviour is one of the parts on its own; the others rest in an initial *)
(* state.                                                                  *)
(***************************************************************************)
EXTENDS Integers, Sequences, FiniteSets, SessionStore

CONSTANTS t1, t2

VARIABLES part,
          st, fd, sess, out, wire, room, in, valid, ticks, told, http, main, gone, reg,
          sent, socket, inbuf, skip, f_out, open

hubvars == <<st, fd, sess, out, wire, room, in, valid, ticks, told, http, main, gone, reg>>
framevars == <<sent, socket, inbuf, skip, f_out, open>>
sessionvars == vars
allvars == <<part, hubvars, framevars, sessionvars>>

-----------------------------------------------------------------------------
\* One reader at a time, partial sends, pings and hang-ups, two ticks.
Stream == INSTANCE WsHub WITH
    Conns <- {1}, Fds <- {7}, Sessions <- {"s"}, NoAuth <- "none", SockBuf <- 2,
    kMaxClients <- 1, kMaxBacklog <- 3, kCatchupSamples <- 1, MaxTicks <- 2, MaxPings <- 1

\* Two connections that may get the same descriptor number, two sessions; a
\* socket takes a first frame in part, so that the HTTP thread may close it.
Reuse == INSTANCE WsHub WITH
    Conns <- {1, 2}, Fds <- {7, 8}, Sessions <- {"s", "t"}, NoAuth <- "none", SockBuf <- 2,
    kMaxClients <- 2, kMaxBacklog <- 3, kCatchupSamples <- 2, MaxTicks <- 0, MaxPings <- 0

(* Streams of up to two frames: control and data frames of the lengths at  *)
(* the edges of the length encoding, and frames a client must not send.    *)
Payload(n) == [i \in 1 .. n |-> (7 * i) % 256]
F(b0, n) == [b0 |-> b0, mask |-> <<1, 2, 130, 255>>, data |-> Payload(n)]
Good == {F(137, 0), F(137, 125), F(138, 3), F(129, 0), F(129, 5), F(2, 126), F(136, 2), F(136, 1)}
Bad == {F(137, 140), F(9, 1), F(193, 1), F(131, 1), [F(129, 1) EXCEPT !.mask = <<>>]}
Frames == INSTANCE WsFrames WITH out <- f_out,
    Streams <- {<<f, g>> : f \in Good, g \in Good \cup Bad} \cup {<<g, F(137, 0)>> : g \in Bad},
    Sizes <- {1, 13}, kMaxInbuf <- 1024

(* Of the sessions two parts: both tokens and almost no time, for the      *)
(* saves of two threads, kills and failures; one token and more than its   *)
(* TTL of time.                                                            *)
MaxSaveTime == 1
MaxClockStep == 2
SavesNext == Next /\ mono' <= MaxSaveTime
TimesNext == Next /\ minted'[t2] = AuthOff /\ clock' <= clock + MaxClockStep

ASSUME WsInstances ==
    /\ Stream!HubAssumption /\ Reuse!HubAssumption /\ Frames!FrameAssumption
    /\ SessionAssumption

WsInit ==
    /\ part \in {"stream", "reuse", "frames", "saves", "times"}
    /\ IF part = "reuse" THEN Reuse!Init ELSE Stream!Init
    /\ part = "reuse" => sess = <<"s", "t">>
    /\ part \notin {"stream", "reuse"} => \A c \in DOMAIN sess : sess[c] = "none"
    /\ Frames!Init
    /\ part # "frames" => sent = <<F(137, 0), F(137, 0)>>
    /\ Init

WsNext ==
    \/ part = "stream" /\ Stream!Next /\ UNCHANGED <<part, framevars, sessionvars>>
    \/ part = "reuse" /\ Reuse!Next /\ UNCHANGED <<part, framevars, sessionvars>>
    \/ part = "frames" /\ Frames!Next /\ UNCHANGED <<part, hubvars, sessionvars>>
    \/ part = "saves" /\ SavesNext /\ UNCHANGED <<part, hubvars, framevars>>
    \/ part = "times" /\ TimesNext /\ UNCHANGED <<part, hubvars, framevars>>

\* The hub's two threads run and the wait for a socket runs out.
StreamFair(A) == part = "stream" /\ A /\ UNCHANGED <<part, framevars, sessionvars>>
WsSpec ==
    /\ WsInit /\ [][WsNext]_allvars
    /\ WF_allvars(StreamFair(Stream!LoopStep))
    /\ WF_allvars(StreamFair(Stream!FlushTimesOut))
    /\ WF_allvars(StreamFair(Stream!Add))

-----------------------------------------------------------------------------
\* WsHub: what is on the wire, and what is owed after it, is whole frames one
\* after the other, pongs and close frames too.
WholeFrames == part = "stream" => Stream!WholeFrames

\* WsHub: a client's samples follow on from its first frame without a gap.
NoTickMissed == part = "stream" => Stream!NoTickMissed

\* WsHub: a client is dropped for its session only when that session has ended,
\* though descriptor numbers are used again.
DropsOnlyEnded == [][part = "reuse" => Reuse!DropOnlyEnded]_allvars

\* WsHub: the stream of a session that ended stops, and a client that hung up
\* is let go.
EndedLeave == part = "stream" => Stream!EndedLeave

\* WsHub: the HTTP thread comes back from a client that reads nothing.
HttpComesBack == part = "stream" => Stream!HttpComesBack

\* WsFrames: what is answered is what the frames received so far call for, in
\* their order, however the bytes were cut into reads.
AnswersFollowFrames == part = "frames" => Frames!AnswersFollowFrames

\* WsFrames: once its bytes are read, a client has been let go exactly if a
\* close frame or bytes that are no frame were among them.
EndsAsSent == part = "frames" => Frames!EndsAsSent

-----------------------------------------------------------------------------
\* WsHub: a client gets whole frames and no tick is missed; one whose session
\* ended or that hung up leaves, and none holds the HTTP thread.
StreamRight ==
    /\ [](WholeFrames /\ NoTickMissed /\ (IF part = "reuse" THEN Reuse!TypeOK ELSE Stream!TypeOK))
    /\ EndedLeave /\ HttpComesBack

\* WsFrames: the hub answers, and lets a client go, as its frames call for.
FramesRight == Frames!TypeOK /\ AnswersFollowFrames /\ EndsAsSent
=============================================================================
