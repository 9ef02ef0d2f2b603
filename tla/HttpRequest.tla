---------------------------- MODULE HttpRequest -----------------------------
(***************************************************************************)
(* A request read off its connection: read_until_headers() over whatever   *)
(* pieces the socket gives, parse_headers(), the declared length and the   *)
(* body, as handle_client() takes them. The bounds in time are             *)
(* HttpServer's; here a wait may run out at any point.                     *)
(***************************************************************************)
EXTENDS HttpText, SequencesExt

CONSTANTS Wires,          \* what a client may send
          Upper,          \* the characters A-Z
          Versions,       \* the words "HTTP/1.x"
          kHeaderReadCap, kMaxBody,
          Chunk           \* the most one recv() takes

VARIABLES wire, unread,   \* what the client sends; how much of it is yet to come
          buf, pc, hdr_end,
          req, answer     \* the parsed request; "closed", a status or "handled"

vars == <<wire, unread, buf, pc, hdr_end, req, answer>>

NoRequest == [method |-> <<>>, path |-> <<>>, query |-> <<>>, headers |-> <<>>, body |-> <<>>]

Init ==
    /\ wire \in Wires /\ unread = Len(wire)
    /\ buf = <<>> /\ pc = "head" /\ hdr_end = 0 /\ req = NoRequest /\ answer = "none"

-----------------------------------------------------------------------------
\* Where the next look starts: a blank line may have been cut between reads.
overlap(n) == IF n > 2 THEN n - 2 ELSE 0

\* Faulty form: CR LF taken for one character.
find_header_end_Short(b, from) ==
    LET at == {i \in from + 1 .. Len(b) - 1 : b[i] = "LF" /\ b[i + 1] \in {"LF", "CR"}}
    IN  IF at = {} THEN 0 ELSE Min(at) + 1

\* find_header_end(): one past the blank line, looking from `from` on; or 0.
find_header_end(b, from) ==
    LET Bare(i) == i + 1 <= Len(b) /\ b[i + 1] = "LF"
        Crlf(i) == i + 2 <= Len(b) /\ b[i + 1] = "CR" /\ b[i + 2] = "LF"
        at == {i \in from + 1 .. Len(b) : b[i] = "LF" /\ (Bare(i) \/ Crlf(i))}
    IN  IF at = {} THEN 0 ELSE IF Bare(Min(at)) THEN Min(at) + 1 ELSE Min(at) + 2

\* The lines of a block, without their ends.
Chomp(l) == IF l # <<>> /\ Last(l) = "CR" THEN Front(l) ELSE l
Lines(b) ==
    LET ends == SetToSortSeq({i \in DOMAIN b : b[i] = "LF"}, <)
    IN  [k \in DOMAIN ends |->
            Chomp(SubSeq(b, IF k = 1 THEN 1 ELSE ends[k - 1] + 1, ends[k] - 1))]

trim(v) == TrimStart(TrimEnd(v))
Has(s, c) == Find(s, c) <= Len(s)

header_ok(l) ==
    /\ l # <<>> /\ l[1] \notin Blank
    /\ Has(l, ":") /\ l[1] # ":"
    /\ \A i \in 1 .. Find(l, ":") - 1 : l[i] \notin Blank

request_line_ok(rl) ==
    LET sp1 == Find(rl, " ")
        sp2 == FindFrom(rl, " ", sp1 + 1)
    IN  /\ sp1 > 1 /\ sp2 <= Len(rl) /\ sp2 # sp1 + 1
        /\ \E v \in Versions : SubSeq(rl, sp2 + 1, Len(rl)) = <<v>>
        /\ \A i \in 1 .. sp1 - 1 : rl[i] \in Upper
        /\ rl[sp1 + 1] = "/"

\* parse_headers(): the request, or NoRequest for what is not one.
parse_headers(block) ==
    LET lines == Lines(block)
        rl == lines[1]
        sp1 == Find(rl, " ")
        target == SubSeq(rl, sp1 + 1, FindFrom(rl, " ", sp1 + 1) - 1)
        heads == SubSeq(lines, 2, Len(lines) - 1)
    IN  IF Len(lines) < 2 \/ Last(lines) # <<>> THEN NoRequest
        ELSE IF ~request_line_ok(rl) \/ \E i \in DOMAIN heads : ~header_ok(heads[i])
        THEN NoRequest
        ELSE [method  |-> SubSeq(rl, 1, sp1 - 1),
              path    |-> Upto(target, "?"),
              query   |-> SubSeq(target, Find(target, "?") + 1, Len(target)),
              headers |-> [i \in DOMAIN heads |->
                              LET c == Find(heads[i], ":")
                              IN  <<SubSeq(heads[i], 1, c - 1),
                                    trim(SubSeq(heads[i], c + 1, Len(heads[i])))>>],
              body    |-> <<>>]

Named(r, name) == SelectSeq(r.headers, LAMBDA h : ascii_ieq(h[1], <<name>>))
header(r, name) == IF Named(r, name) = <<>> THEN <<>> ELSE Named(r, name)[1][2]

\* declared_length(): -1 for a length that is malformed or contradicted.

declared_length(r) ==
    LET vs == Named(r, "content-length")
        value(i) == FoldLeft(LAMBDA n, c : n * 10 + DigitOf(c), 0, vs[i][2])
    IN  IF vs = <<>> THEN 0
        ELSE IF \E i \in DOMAIN vs :
                   \/ vs[i][2] = <<>> \/ Len(vs[i][2]) > 18
                   \/ \E j \in DOMAIN vs[i][2] : vs[i][2][j] \notin Range(Digits)
        THEN -1
        ELSE IF \E i \in DOMAIN vs : value(i) # value(1) THEN -1
        ELSE value(1)

-----------------------------------------------------------------------------
\* recv() gives any part of what has come; the body's read asks for no more
\* than is missing.
Come(n) == SubSeq(wire, Len(wire) - unread + 1, Len(wire) - unread + n)

ReadHead ==
    /\ pc = "head" /\ Len(buf) < kHeaderReadCap
    /\ \E n \in 1 .. Min({unread, Chunk}) :
          /\ buf' = buf \o Come(n)
          /\ unread' = unread - n
          /\ hdr_end' = find_header_end(buf', overlap(Len(buf)))
    /\ pc' = IF hdr_end' # 0 THEN "parse" ELSE "head"
    /\ UNCHANGED <<wire, req, answer>>

Reply(a) == answer' = a /\ pc' = "done" /\ UNCHANGED <<wire, unread, buf, hdr_end>>

TooLarge ==
    /\ pc = "head" /\ Len(buf) >= kHeaderReadCap
    /\ Reply("431") /\ UNCHANGED req

\* The parse and the checks, in the code's order.

Refusal(r) ==
    IF r = NoRequest THEN "400"
    ELSE IF header(r, "transfer-encoding") # <<>> THEN "501"
    ELSE IF declared_length(r) < 0 THEN "400"
    ELSE IF declared_length(r) > kMaxBody THEN "413"
    ELSE "none"

Parse ==
    /\ pc = "parse"
    /\ LET r == parse_headers(SubSeq(buf, 1, hdr_end))
           rest == SubSeq(buf, hdr_end + 1, Len(buf))
           len == declared_length(r)
       IN  IF Refusal(r) # "none"
           THEN Reply(Refusal(r)) /\ req' = r
           ELSE /\ req' = [r EXCEPT !.body = SubSeq(rest, 1, Min({len, Len(rest)}))]
                /\ IF Len(rest) >= len THEN Reply("handled")
                   ELSE pc' = "body" /\ UNCHANGED <<wire, unread, buf, hdr_end, answer>>

ReadBody ==
    /\ pc = "body"
    /\ \E n \in 1 .. Min({unread, Chunk, declared_length(req) - Len(req.body)}) :
          /\ req' = [req EXCEPT !.body = @ \o Come(n)]
          /\ unread' = unread - n
    /\ IF Len(req'.body) = declared_length(req) THEN answer' = "handled" /\ pc' = "done"
       ELSE UNCHANGED <<answer, pc>>
    /\ UNCHANGED <<wire, buf, hdr_end>>

\* The client hangs up: a head cut short is no request, a body cut short is
\* handled as it is. A wait that runs out closes the connection.
PeerCloses ==
    /\ unread = 0 /\ pc \in {"head", "body"} /\ ~(pc = "head" /\ Len(buf) >= kHeaderReadCap)
    /\ Reply(IF pc = "head" THEN "closed" ELSE "handled") /\ UNCHANGED req

WaitRunsOut ==
    /\ pc \in {"head", "body"}
    /\ Reply("closed") /\ UNCHANGED req

Done == pc = "done" /\ UNCHANGED vars

Next == ReadHead \/ TooLarge \/ Parse \/ ReadBody \/ PeerCloses \/ WaitRunsOut \/ Done

Spec == Init /\ [][Next]_vars

-----------------------------------------------------------------------------
\* The grammar of a request's head, as a reference: lines put together from a
\* method, a target and a version, then names and values.
Splits(s, c) == {i \in DOMAIN s : s[i] = c}
IsRequestLine(l) ==
    \E i, j \in Splits(l, " ") :
        /\ i > 1 /\ j > i + 1 /\ j + 1 = Len(l)
        /\ \A k \in 1 .. i - 1 : l[k] \in Upper
        /\ \A k \in i + 1 .. j - 1 : l[k] # " "
        /\ l[i + 1] = "/" /\ l[Len(l)] \in Versions
IsHeader(l) ==
    \E i \in Splits(l, ":") :
        i > 1 /\ \A k \in 1 .. i - 1 : l[k] \notin Blank \cup {":"}
IsHead(block) ==
    LET ls == Lines(block)
    IN  /\ Len(ls) >= 2 /\ IsRequestLine(ls[1])
        /\ \A i \in 2 .. Len(ls) - 1 : IsHeader(ls[i])

\* The shortest beginning of a text that ends in a blank line.
HeadOf(w) ==
    LET BlankEnds(n) ==
            w[n] = "LF" /\ (w[n - 1] = "LF" \/ (n > 2 /\ w[n - 1] = "CR" /\ w[n - 2] = "LF"))
    IN  Min({n \in 2 .. Len(w) : BlankEnds(n)} \cup {Len(w) + 1})

\* The reader's state stays in range: it never takes in more than was sent, nor
\* more than a read beyond the cap.
TypeOK ==
    /\ pc \in {"head", "parse", "body", "done"} /\ unread \in 0 .. Len(wire)
    /\ Len(buf) < kHeaderReadCap + Chunk
    /\ hdr_end \in 0 .. Len(buf) /\ Len(req.body) <= kMaxBody

\* However the text is cut into reads, the head ends at its first blank line.
HeadFound == pc \in {"parse", "body", "done"} /\ hdr_end # 0 => hdr_end = HeadOf(wire)

\* A head that fits is never refused for its size, however it arrives.
CapIsFair == answer = "431" => HeadOf(wire) > kHeaderReadCap

\* A request is handled only when its head is one, and 400 answers a head that
\* is not, or a length that is no number or two different ones.
HandledIfWellFormed ==
    /\ answer = "handled" => IsHead(SubSeq(wire, 1, HeadOf(wire)))
    /\ answer = "400" /\ IsHead(SubSeq(wire, 1, HeadOf(wire))) => declared_length(req) = -1

\* The handler sees the body that was sent for this request and nothing of what
\* follows it: as long as every declared length says, unless the client hung up.
BodyExact ==
    answer = "handled" =>
        /\ req.body = SubSeq(wire, HeadOf(wire) + 1, HeadOf(wire) + Len(req.body))
        /\ \A i \in DOMAIN Named(req, "content-length") :
              LET v == Named(req, "content-length")[i][2]
                  n == FoldLeft(LAMBDA a, c : a * 10 + DigitOf(c), 0, v)
              IN  Len(req.body) = n \/ (unread = 0 /\ Len(req.body) < n)
=============================================================================
