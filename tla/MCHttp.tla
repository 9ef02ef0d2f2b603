------------------------------- MODULE MCHttp -------------------------------
(***************************************************************************)
(* The web server: the thread that serves the connections, a request read  *)
(* off one, what the router reads in its texts, and the router with its    *)
(* login limiter. A behaviour is one of the parts on its own; the others   *)
(* rest in an initial state.                                               *)
(***************************************************************************)
EXTENDS HttpServer, Router, SequencesExt, TLC

CONSTANTS p1, p2, p3

VARIABLES part, in,
          wire, unread, buf, q_pc, hdr_end, req, q_answer

servervars == vars
requestvars == <<wire, unread, buf, q_pc, hdr_end, req, q_answer>>
allvars == <<part, in, servervars, requestvars, routervars>>

UpperWords ==
    ("LOCALHOST" :> "localhost" @@ "HTTPS" :> "https" @@ "HOST" :> "host"
     @@ "Content-Length" :> "content-length" @@ "Transfer-Encoding" :> "transfer-encoding"
     @@ "APPLICATION/JSON" :> "application/json")
AddressWords == {"127.0.0.1", "::1"}
Letters == {"a", "b", "budyk"}

-----------------------------------------------------------------------------
(* Texts put together from what they mean.                                 *)

\* Cookies and queries: pairs of a name and a value, joined.
Names == {<<"a">>, <<"b", "a">>}
Pairs == Names \X {<<>>, <<"1">>, <<"a">>}
Lists == UNION {[1 .. n -> Pairs] : n \in 0 .. 2}
Join(l, sep) ==
    IF l = <<>> THEN <<>>
    ELSE LET item(p) == p[1] \o <<"=">> \o p[2]
         IN  IF Len(l) = 1 THEN item(l[1]) ELSE item(l[1]) \o sep \o item(l[2])
FirstOf(l, name) ==
    IF \E i \in DOMAIN l : l[i][1] = name
    THEN l[Min({i \in DOMAIN l : l[i][1] = name})][2] ELSE <<>>
Seps == {<<";">>, <<";", " ">>, <<";", "TAB", " ">>}

Numbers == UNION {[1 .. n -> {"0", "2", "5", "9", "x"}] : n \in 0 .. 4}

\* The ways to write a host's name, and an origin.
OwnNames == {<<"127.0.0.1">>, <<"::1">>, <<"localhost">>, <<"LOCALHOST">>, <<"a", ".", "localhost">>,
             <<"host">>, <<"HOST">>, <<"budyk">>}
OtherNames == {<<"a">>, <<"a", ".", "host">>, <<"localhost", ".", "a">>, <<"b", ".", "budyk">>}
Written(n) ==
    IF n = <<"::1">> THEN {<<"[", "::1", "]">> \o p : p \in {<<>>, <<":", "1">>}}
    ELSE {n \o d \o p : d \in {<<>>, <<".">>}, p \in {<<>>, <<":", "1">>}}
Hosts == {[name |-> n, text |-> t] : n \in OwnNames \cup OtherNames,
                                     t \in UNION {Written(n) : n \in OwnNames \cup OtherNames}}

Origins == {[authority |-> a, text |-> s \o <<"://">> \o a \o p, host |-> h] :
                a \in {<<"a">>, <<"a", ":", "1">>, <<"host">>}, s \in {<<"https">>, <<"b">>},
                p \in {<<>>, <<"/">>, <<"/", "b">>}, h \in {<<"a">>, <<"a", ":", "1">>, <<"HOST">>}}
ProxyPrefixes == UNION {[1 .. n -> {"/", "a", ".", ";", " "}] : n \in 0 .. 4}

Inputs ==
    [kind : {"cookie"}, list : Lists, sep : Seps]
        \cup [kind : {"query"}, list : Lists]
        \cup [kind : {"number"}, text : Numbers]
        \cup [kind : {"host"}, host : {h \in Hosts : h.text \in Written(h.name)}]
        \cup [kind : {"origin"}, origin : Origins]
        \cup [kind : {"prefix"}, text : ProxyPrefixes]

-----------------------------------------------------------------------------
(* Requests well formed and not, with bodies short, exact and too long.    *)

RequestLines == {<<"G", " ", "/", " ", "HTTP/1.1">>, <<"P", " ", "/", "?", "a", " ", "HTTP/1.0">>}
BadLines == {<<"g", " ", "/", " ", "HTTP/1.1">>, <<"G", " ", " ", "HTTP/1.1">>, <<"G", " ", "/">>,
             <<"G", " ", "a", " ", "HTTP/1.1">>, <<"G", " ", "/", " ", "HTTP/2">>, <<>>,
             <<" ", "/", " ", "HTTP/1.1">>}
Lengths(v) == <<"Content-Length", ":", " ">> \o v
Headers == {<<>>, <<Lengths(<<"2">>)>>, <<Lengths(<<"2">>), <<"content-length", ":", "1">>>>,
            <<Lengths(<<"3">>)>>, <<Lengths(<<"x">>)>>, <<Lengths(<<>>)>>,
            <<<<"Transfer-Encoding", ":", "a">>>>}
BadHeaders == {<<<<" ", "a", ":">>>>, <<<<"a", " ", ":">>>>, <<<<":", "a">>>>, <<<<"a">>>>}
Ends == {<<"LF">>, <<"CR", "LF">>}

Text(rl, hs, e1, e2) ==
    FoldLeft(LAMBDA t, l : t \o l \o e1, <<>>, <<rl>> \o hs) \o e2
SomeWires ==
    {Text(rl, hs, e1, e2) \o b : rl \in RequestLines, hs \in Headers, e1 \in Ends, e2 \in Ends,
                                 b \in {<<>>, <<"a">>, <<"a", "LF", "a">>}}
        \cup {Text(rl, <<>>, e, e) : rl \in BadLines, e \in Ends}
        \cup {Text(<<"G", " ", "/", " ", "HTTP/1.1">>, hs, e, e) : hs \in BadHeaders, e \in Ends}
        \cup {<<>>, <<"G", "LF">>, <<"CR", "LF", "LF">>}

-----------------------------------------------------------------------------
(* Logins from several addresses, and one browser's requests of all kinds. *)

Host == <<"host">>
SessionCookie == <<"s">>
ThreePeers == {p1, p2, p3}

Login(p, pw) ==
    [method |-> "POST", path |-> "login", query |-> <<>>, host |-> Host, origin |-> <<>>,
     ctype |-> <<"application/json", ";", " ", "utf-8">>, cookie |-> <<>>, session |-> <<>>,
     password |-> pw, peer |-> p, upgrade |-> FALSE]

\* Cookie headers and the session each carries.
NoCookie == [cookie |-> <<>>, session |-> <<>>]
Cookie1 == [cookie |-> <<"s", "=", "t1">>, session |-> <<"t1">>]
Cookies == {NoCookie, Cookie1,
            [cookie |-> <<"x", "s", "=", "t1", ";", " ", "s", "=", "t2">>, session |-> <<"t2">>],
            [cookie |-> <<"x", "=", "t1">>, session |-> <<>>]}
With(r, c) == [r EXCEPT !.cookie = c.cookie, !.session = c.session]
Get(path) == [Login(p1, "none") EXCEPT !.method = "GET", !.path = path]

Queries == {<<>>, <<"tier", "=", "2">>, <<"tier", "=", "9", "&", "limit", "=", "0">>,
            <<"limit", "=", "9", "9">>, <<"level", "=", "x">>}

Mixed ==
    {With(Get("samples"), c) : c \in Cookies}
        \cup {Get("/"), With(Get("alerts"), Cookie1)}
        \cup {With([Get("range") EXCEPT !.query = q], Cookie1) : q \in Queries}
        \cup {With([Get("ws") EXCEPT !.upgrade = TRUE], c) : c \in Cookies}
        \cup {With([Get("ws") EXCEPT !.upgrade = TRUE, !.origin = o], Cookie1) :
                 o \in {<<"http", "://", "HOST">>, <<"null">>}}
        \cup {Get("range"), With(Get("ws"), Cookie1)}
        \cup {With([Login(p1, "none") EXCEPT !.path = "logout"], c) : c \in Cookies}
        \cup {Login(p1, pw) : pw \in {"none", "wrong", "right"}}
        \cup {[Login(p1, "right") EXCEPT !.ctype = <<"text/plain">>], [Login(p1, "right") EXCEPT !.host = <<"other">>],
              [Login(p1, "right") EXCEPT !.ctype = <<"APPLICATION/JSON">>]}
        \cup {[Get("nowhere") EXCEPT !.method = m] : m \in {"GET", "POST"}}

-----------------------------------------------------------------------------
Reader == INSTANCE HttpRequest WITH pc <- q_pc, answer <- q_answer,
    Wires <- SomeWires, Upper <- {"G", "P"}, Versions <- {"HTTP/1.0", "HTTP/1.1"},
    kHeaderReadCap <- 16, kMaxBody <- 2, Chunk <- 3

\* Logins from three addresses, and a table that is swept and cleared.
CrowdRequests == {Login(p, "wrong") : p \in Peers} \cup {Login(p1, "right")}

\* One browser, over a server with sessions.
Browser == INSTANCE Router WITH
    max_failures <- 1, global_max <- 2,
    Requests <- Mixed, Loopback <- TRUE, NewTokens <- {<<"t1">>, <<"t2">>}, MaxSeconds <- 0

ASSUME HttpInstances == ServerAssumption /\ RouterAssumption /\ Browser!RouterAssumption

WebInit ==
    /\ part \in {"server", "reader", "texts", "crowd", "browser"}
    /\ in = [kind |-> "none"]
    /\ Init /\ Reader!Init
    /\ part # "reader" => wire = <<>>
    /\ RouterInit

\* Each state of "texts" holds one text.
Text_ ==
    \/ in.kind = "none" /\ in' \in Inputs
    \/ in.kind # "none" /\ in' = [kind |-> "none"]

WebNext ==
    \/ part = "server" /\ Next /\ UNCHANGED <<part, in, requestvars, routervars>>
    \/ part = "reader" /\ Reader!Next /\ UNCHANGED <<part, in, servervars, routervars>>
    \/ part = "texts" /\ Text_ /\ UNCHANGED <<part, servervars, requestvars, routervars>>
    \/ part = "crowd" /\ RouterNext /\ UNCHANGED <<part, in, servervars, requestvars>>
    \/ part = "browser" /\ Browser!RouterNext /\ UNCHANGED <<part, in, servervars, requestvars>>

\* The server's fairness: its thread and the main thread run, a poll's time
\* runs out.
ServerFair(A) == part = "server" /\ A /\ UNCHANGED <<part, in, requestvars, routervars>>
WebSpec ==
    /\ WebInit /\ [][WebNext]_allvars
    /\ WF_allvars(ServerFair(Loop))
    /\ WF_allvars(ServerFair(StopCloses \/ StopShutsDown \/ StopJoins))
    /\ WF_allvars(ServerFair(TimePasses))

-----------------------------------------------------------------------------
\* HttpRequest: however the text is cut into reads, the head ends at its first
\* blank line.
HeadFound == Reader!HeadFound

\* HttpRequest: a head that fits is never refused for its size, however it
\* arrives.
CapIsFair == Reader!CapIsFair

\* HttpRequest: a request is handled only when its head is well formed, and 400
\* answers only what is not.
HandledIfWellFormed == Reader!HandledIfWellFormed

\* HttpRequest: the handler sees the body sent for this request and nothing
\* that follows it.
BodyExact == Reader!BodyExact

\* The cookie read is the first one of that name, whatever blanks follow the
\* semicolons and whatever other names end in it or values hold it.
CookieRight ==
    in.kind = "cookie" =>
        \A n \in Names : cookie_value(Join(in.list, in.sep), n) = FirstOf(in.list, n)

\* A parameter read is the first one of that name, not a longer one ending in it.
QueryRight ==
    in.kind = "query" =>
        \A n \in Names : query_str(Join(in.list, <<"&">>), n) = FirstOf(in.list, n)

\* A number read is the number written, the largest one when it is beyond the
\* width, and the fallback when a character before that is no digit.
NumberRight ==
    in.kind = "number" =>
        LET t == in.text
            digits == Min({i \in DOMAIN t : t[i] = "x"} \cup {Len(t) + 1}) - 1
            value == FoldLeft(LAMBDA v, c : v * 10 + DigitOf(c), 0, SubSeq(t, 1, digits))
            read == query_u64(<<"b", "=", "1", "&", "a", "=">> \o t, <<"a">>, 7)
        IN  read = IF t = <<>> THEN 7
                   ELSE IF value > UintMax THEN UintMax
                   ELSE IF digits < Len(t) THEN 7 ELSE value

\* On loopback without a password a request is answered under budyk's own names
\* only, in every way a browser may write them: case, port, trailing dot.
HostRight ==
    in.kind = "host" =>
        own_host(in.host.text, TRUE, FALSE, FALSE, <<"host">>, {<<"budyk">>})
            = (in.host.name \in OwnNames)

\* A page is the dashboard's own exactly when the host and port it came from
\* are the request's, whatever its scheme and path.
OriginRight ==
    in.kind = "origin" =>
        same_origin(in.origin.text, in.origin.host, <<>>)
            = (Lower(in.origin.authority) = Lower(in.origin.host))

\* The session cookie's path is a plain path from the root whatever the proxy's
\* header holds: nothing of it can end the attribute.
PathPlain ==
    in.kind = "prefix" =>
        LET p == cookie_path(in.text)
        IN  p # <<>> /\ p[1] = "/" /\ \A i \in DOMAIN p : p[i] \in {"/", "a", "."}

-----------------------------------------------------------------------------
\* HttpRequest and Router: however a request is cut into reads, its head is
\* found, judged by its form and size alone, and its body is what was sent with
\* it; what its query asks of the tiers is in range.
RequestRight ==
    /\ Reader!TypeOK /\ HeadFound /\ CapIsFair /\ HandledIfWellFormed /\ BodyExact
    /\ part = "browser" => Browser!RouterTypeOK

\* HttpText: cookies, queries, numbers, hosts, origins and paths are read as
\* their grammar means them.
TextRight == CookieRight /\ QueryRight /\ NumberRight /\ HostRight /\ OriginRight /\ PathPlain
=============================================================================
