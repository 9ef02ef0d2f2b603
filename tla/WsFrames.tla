------------------------------ MODULE WsFrames -------------------------------
(***************************************************************************)
(* What the WebSocket hub does with the bytes a client sends:              *)
(* WebSocketHub::service() reads a client's socket in pieces that respect  *)
(* no frame boundary, at most a budget's worth in one call, and            *)
(* consume_frames() parses what has accumulated.  Bytes are numbers, as on *)
(* the wire; what the hub answers is the sequence `out`.                   *)
(***************************************************************************)
EXTENDS Integers, Sequences, Bitwise

CONSTANTS Streams,             \* what the client sends: sequences of frames
          Sizes,     \* bytes one recv() may return
          kMaxInbuf

FrameAssumption ==
    /\ 1 \in Sizes /\ Sizes \subseteq Nat \ {0} /\ kMaxInbuf \in Nat

Mod2(a, n) == (a \div n) % 2 = 1           \* whether the bit of weight n is set
Bytes(n, w) == [i \in 1 .. w |-> (n \div (256 ^ (w - i))) % 256]
\* Faulty form: the bytes of a long length in the wrong order.
Number_LittleEndian(b) == b[1] + 256 * b[2]

Number(b) == LET val[i \in 0 .. Len(b)] == IF i = 0 THEN 0 ELSE 256 * val[i - 1] + b[i]
             IN  val[Len(b)]

\* The length bytes of ws_text_frame(), which are RFC 6455's for both sides.
LengthBytes(n) ==
    IF n < 126 THEN <<n>>
    ELSE IF n <= 65535 THEN <<126>> \o Bytes(n, 2)
    ELSE <<127>> \o Bytes(n, 8)

\* A control frame of the server (a longer payload is cut).
ws_control_frame(opcode, payload) ==
    LET n == IF Len(payload) < 125 THEN Len(payload) ELSE 125
    IN  <<128 + opcode, n>> \o SubSeq(payload, 1, n)

Masked(data, mask) == [i \in 1 .. Len(data) |-> data[i] ^^ mask[((i - 1) % 4) + 1]]

\* A client's frame on the wire: mask <<>> for one sent without a mask.
Wire(f) ==
    LET lb == LengthBytes(Len(f.data))
    IN  <<f.b0>> \o <<lb[1] + (IF f.mask = <<>> THEN 0 ELSE 128)>> \o Tail(lb) \o f.mask
            \o (IF f.mask = <<>> THEN f.data ELSE Masked(f.data, f.mask))

WireAll(fs) == LET w[i \in 0 .. Len(fs)] == IF i = 0 THEN <<>> ELSE w[i - 1] \o Wire(fs[i])
               IN  w[Len(fs)]

VARIABLES sent,      \* the frames of this client
          socket,    \* bytes the client has sent that service() has not read
          inbuf, skip, out, open

vars == <<sent, socket, inbuf, skip, out, open>>

Drop(n, b) == SubSeq(b, n + 1, Len(b))
Result(b, s, o, k) == [inbuf |-> b, skip |-> s, out |-> o, keep |-> k]

\* The bytes of an unfinished data frame: what they leave of the buffer, and
\* how many are still to come.
Discard(b, s) == Drop(IF Len(b) < s THEN Len(b) ELSE s, b)
Left(b, s) == IF Len(b) < s THEN s - Len(b) ELSE 0

\* The bytes of the length, after the two of the header.
Extra(len7) == IF len7 = 126 THEN 2 ELSE IF len7 = 127 THEN 8 ELSE 0

Acceptable(b0, b1) ==
    /\ ~Mod2(b0, 64) /\ ~Mod2(b0, 32) /\ ~Mod2(b0, 16)      \* RSV bits
    /\ Mod2(b1, 128)                                         \* masked
    /\ b0 % 16 \in 0 .. 2 \cup 8 .. 10

\* A control frame is short and never fragmented.
ControlOk(b0, len) == len <= 125 /\ Mod2(b0, 128)

\* consume_frames(): parse and act until more bytes are needed (keep) or the
\* client must go.
RECURSIVE consume_frames(_, _, _)
consume_frames(b, s, o) ==
    LET b1 == Discard(b, s)
        s1 == Left(b, s)
        len7 == b1[2] % 128
        ext == Extra(len7)
        len == IF ext = 0 THEN len7 ELSE Number(SubSeq(b1, 3, 2 + ext))
        hdr == 6 + ext
        mask == SubSeq(b1, hdr - 3, hdr)
        opcode == b1[1] % 16
        payload == Masked(SubSeq(b1, hdr + 1, hdr + len), mask)
        rest == Drop(hdr + len, b1)
    IN  IF s1 > 0 \/ Len(b1) < 2 THEN Result(b1, s1, o, TRUE)
        ELSE IF ~Acceptable(b1[1], b1[2]) THEN Result(b1, 0, o, FALSE)
        ELSE IF Len(b1) < hdr THEN Result(b1, 0, o, TRUE)
        ELSE IF opcode < 8 THEN consume_frames(Drop(hdr, b1), len, o)
        ELSE IF ~ControlOk(b1[1], len) THEN Result(b1, 0, o, FALSE)
        ELSE IF Len(b1) < hdr + len THEN Result(b1, 0, o, TRUE)
        ELSE CASE opcode = 8 -> Result(rest, 0, Append(o, ws_control_frame(8,
                                    IF len >= 2 THEN SubSeq(payload, 1, 2) ELSE <<>>)), FALSE)
               [] opcode = 9 -> consume_frames(rest, 0, Append(o, ws_control_frame(10, payload)))
               [] OTHER      -> consume_frames(rest, 0, o)

Init ==
    /\ sent \in Streams
    /\ socket = WireAll(sent)
    /\ inbuf = <<>> /\ skip = 0 /\ out = <<>> /\ open = TRUE

\* One recv() of service(): the kernel has got some of the bytes, and one call
\* takes at most Chunk of them.  (The budget of a call only puts the next recv()
\* off to the next tick.)
Recv ==
    /\ open
    /\ \E n \in Sizes :
          /\ n <= Len(socket)
          /\ LET r == consume_frames(inbuf \o SubSeq(socket, 1, n), skip, out)
             IN  /\ inbuf' = r.inbuf /\ skip' = r.skip /\ out' = r.out
                 /\ open' = (r.keep /\ Len(r.inbuf) <= kMaxInbuf)
          /\ socket' = Drop(n, socket)
    /\ UNCHANGED sent

Next == Recv

Spec == Init /\ [][Next]_vars

-----------------------------------------------------------------------------
\* What the frames call for, frame by frame (the reference).
Proper(f) ==
    /\ f.mask # <<>> /\ f.b0 \in 0 .. 2 \cup 128 .. 130 \cup 136 .. 138
    /\ f.b0 >= 136 => Len(f.data) <= 125
Closing(f) == f.b0 % 16 = 8
Answer(f) ==
    CASE f.b0 % 16 = 9 -> <<ws_control_frame(10, f.data)>>
      [] f.b0 % 16 = 8 -> <<ws_control_frame(8, IF Len(f.data) >= 2 THEN SubSeq(f.data, 1, 2)
                                                ELSE <<>>)>>
      [] OTHER -> <<>>
Answers(fs) == LET a[i \in 0 .. Len(fs)] == IF i = 0 THEN <<>> ELSE a[i - 1] \o Answer(fs[i])
               IN  a[Len(fs)]
\* The frames up to the first that ends the connection.
Heeded ==
    LET ends == {i \in 1 .. Len(sent) : ~Proper(sent[i]) \/ Closing(sent[i])}
        n == IF ends = {} THEN Len(sent) ELSE CHOOSE i \in ends : \A j \in ends : i <= j
    IN  SubSeq(sent, 1, IF n > 0 /\ ~Proper(sent[n]) THEN n - 1 ELSE n)
\* Bytes of the first k frames on the wire.
WireLen(k) ==
    LET f(i) == 1 + Len(LengthBytes(Len(sent[i].data))) + Len(sent[i].mask) + Len(sent[i].data)
        l[i \in 0 .. k] == IF i = 0 THEN 0 ELSE l[i - 1] + f(i)
    IN  l[k]
WholeFrames(n) == CHOOSE k \in 0 .. Len(sent) :
    /\ WireLen(k) <= n
    /\ k < Len(sent) => WireLen(k + 1) > n
MinLen(a, b) == IF a < b THEN a ELSE b

\* The bytes kept are bytes; a frame header and a control payload are all
\* that is ever kept of a client that speaks the protocol.
TypeOK ==
    /\ inbuf \in Seq(0 .. 255) /\ skip \in Nat /\ open \in BOOLEAN
    /\ open => Len(inbuf) < 14 + 125

\* However the bytes were cut into reads, what was answered is what the frames
\* received so far call for, in their order: no ping unanswered, none answered
\* twice, and no payload taken for a header.
AnswersFollowFrames ==
    LET seen == WireLen(Len(sent)) - Len(socket)
        whole == SubSeq(sent, 1, WholeFrames(seen))
    IN  out = Answers(SubSeq(Heeded, 1, MinLen(Len(whole), Len(Heeded))))

\* Once the bytes are read, or the client is let go before: it is let go
\* exactly if a close frame or bytes that are no WebSocket frame were among them.
EndsAsSent ==
    ~open \/ socket = <<>> =>
        (open <=> \A i \in 1 .. Len(sent) : Proper(sent[i]) /\ ~Closing(sent[i]))
=============================================================================
