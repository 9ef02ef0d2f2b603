------------------------------- MODULE Router -------------------------------
(***************************************************************************)
(* make_router(): the answer to one request after another on the HTTP      *)
(* thread, with the login limiter and the sessions it goes by. Sessions    *)
(* end by themselves too (SessionStore has their times).                   *)
(***************************************************************************)
EXTENDS Integers, FiniteSets, FiniteSetsExt, Functions, HttpText

(* LoginLimiter, the throttle of the login: failures counted in fixed      *)
(* windows, one for each address and one for all, in a table that is swept *)
(* and cleared.                                                            *)

CONSTANTS Peers, max_failures, window_sec, global_max, kSweepAt, kMaxTracked

\* An Entry; the limiter is the table of addresses and the window of all.
NoEntry == [failures |-> 0, window_start |-> 0]
NewLimiter == [peers |-> [p \in {} |-> NoEntry], global |-> NoEntry]

expired(e, now) == e.failures = 0 \/ now >= e.window_start + window_sec

\* Faulty form: the table never cleared.
sweep_NeverClears(l, now) ==
    IF Cardinality(DOMAIN l.peers) < kSweepAt THEN l
    ELSE [l EXCEPT !.peers = Restrict(l.peers, {p \in DOMAIN l.peers : ~expired(l.peers[p], now)})]

sweep(l, now) ==
    LET kept == {p \in DOMAIN l.peers : ~expired(l.peers[p], now)}
    IN  IF Cardinality(DOMAIN l.peers) < kSweepAt THEN l
        ELSE [l EXCEPT !.peers = Restrict(l.peers, IF Cardinality(kept) > kMaxTracked
                                                   THEN {} ELSE kept)]

\* The windows that refuse an attempt of p.
Blocking(l, p, now) ==
    {e \in {l.global} : ~expired(e, now) /\ e.failures >= global_max}
        \cup {l.peers[q] : q \in {r \in DOMAIN l.peers \cap {p} :
                                    ~expired(l.peers[r], now)
                                        /\ l.peers[r].failures >= max_failures}}

BlockedUntil(b) == Max({e.window_start : e \in b}) + window_sec

\* retry_after(): the seconds to wait, and the table after it.
retry_after(l, p, now) ==
    LET b == Blocking(sweep(l, now), p, now)
    IN  IF b = {} THEN 0
        ELSE IF BlockedUntil(b) > now THEN BlockedUntil(b) - now ELSE 1

AfterRetry(l, p, now) ==
    LET s == sweep(l, now)
    IN  [s EXCEPT !.peers = Restrict(s.peers, {q \in DOMAIN s.peers :
                                q # p \/ ~expired(s.peers[q], now)})]

bump(e, now) ==
    IF expired(e, now) THEN [failures |-> 1, window_start |-> now]
    ELSE [e EXCEPT !.failures = @ + 1]

record_failure(l, p, now) ==
    LET e == IF p \in DOMAIN l.peers THEN l.peers[p] ELSE NoEntry
    IN  [peers |-> [q \in DOMAIN l.peers \cup {p} |-> IF q = p THEN bump(e, now) ELSE l.peers[q]],
         global |-> bump(l.global, now)]

record_success(l, p) == [l EXCEPT !.peers = Restrict(l.peers, DOMAIN l.peers \ {p})]

-----------------------------------------------------------------------------

CONSTANTS Requests,   \* [method, path, query, host, origin, ctype, cookie, password, peer]
          Auth, Loopback,     \* web.auth.enabled; listen on 127.*
          hostname, allowed_hosts, cookie_name,
          NewTokens,          \* the tokens sessions.create() draws
          kMaxLimit,          \* also the most samples the hot buffer holds
          kMaxClients,
          MaxSeconds          \* bound: the length of a run, in seconds

\* LoginLimiter() takes anything below 1 for 1.
RouterAssumption ==
    /\ {max_failures, window_sec, global_max} \subseteq Nat \ {0}
    /\ {kSweepAt, kMaxTracked, MaxSeconds} \subseteq Nat
    /\ \A r \in Requests : r.peer \in Peers

VARIABLES limiter,
          live,      \* sessions a touch() finds
          clients,   \* the hub's clients: the session each was let in with
          now_sec,
          r_answer,  \* the last request and the status of its answer
          r_asked,   \* what the last range query asked of the tiers
          tries,     \* history: when password checks failed, in all
          fails      \* and by address, since its failures were last forgotten

attempts == <<tries, fails>>
routervars == <<limiter, live, clients, now_sec, r_answer, r_asked, attempts>>

NoSession == <<>>
Served(r, status) ==
    r_answer' = [path |-> r.path, session |-> r.session, password |-> r.password, status |-> status]

RouterInit ==
    /\ limiter = NewLimiter /\ live = {} /\ clients = <<>> /\ now_sec = 0
    /\ r_answer = [path |-> "", session |-> NoSession, password |-> "", status |-> 0] /\ r_asked = [tier |-> 1, limit |-> 1]
    /\ tries = <<>> /\ fails = [p \in Peers |-> <<>>]

is_login(r) == r.method = "POST" /\ r.path = "login"
own(r) == own_host(r.host, Loopback, Auth, is_login(r), hostname, allowed_hosts)
token_of(r) == cookie_value(r.cookie, cookie_name)

\* Faulty form: any cookie of the header taken.
authed_AnyCookie(r) == ~Auth \/ \E i \in DOMAIN r.cookie : <<r.cookie[i]>> \in live
authed(r) == ~Auth \/ (token_of(r) # <<>> /\ token_of(r) \in live)

-----------------------------------------------------------------------------
ForeignHost(r) ==
    /\ ~own(r)
    /\ Served(r, 403)
    /\ UNCHANGED <<limiter, live, clients, now_sec, r_asked, attempts>>

\* The page and the health probe, for anyone.
Public(r) ==
    /\ own(r) /\ r.method = "GET" /\ r.path \in {"/", "health"}
    /\ Served(r, 200)
    /\ UNCHANGED <<limiter, live, clients, now_sec, r_asked, attempts>>

\* The login's early answers, in the code's order; the limiter is looked at last.
LoginRefusal(r) ==
    IF ~Auth THEN 403
    ELSE IF ~same_origin(r.origin, r.host, <<>>) THEN 403
    ELSE IF media_type(r.ctype) # <<"application/json">> THEN 415
    ELSE 0

LoginRefused(r) ==
    /\ own(r) /\ is_login(r) /\ LoginRefusal(r) # 0
    /\ Served(r, LoginRefusal(r))
    /\ UNCHANGED <<limiter, live, clients, now_sec, r_asked, attempts>>

\* The history once the table is l: a window still open that is gone from it
\* is forgotten, by a login or because the table was cleared.
Forgotten(l) == {p \in DOMAIN limiter.peers : ~expired(limiter.peers[p], now_sec) /\ p \notin DOMAIN l.peers}
Known(l) == [p \in Peers |-> IF p \in Forgotten(l) THEN <<>> ELSE fails[p]]

LoginBlocked(r) ==
    /\ own(r) /\ is_login(r) /\ LoginRefusal(r) = 0
    /\ retry_after(limiter, r.peer, now_sec) > 0
    /\ limiter' = AfterRetry(limiter, r.peer, now_sec)
    /\ fails' = Known(limiter')
    /\ Served(r, 429)
    /\ UNCHANGED <<live, clients, now_sec, r_asked, tries>>

LoginTried(r) ==
    /\ own(r) /\ is_login(r) /\ LoginRefusal(r) = 0
    /\ retry_after(limiter, r.peer, now_sec) = 0
    /\ LET checked == AfterRetry(limiter, r.peer, now_sec)
       IN  \/ /\ r.password = "none"
              /\ Served(r, 400) /\ limiter' = checked
              /\ fails' = Known(checked)
              /\ UNCHANGED <<live, tries>>
           \/ /\ r.password = "wrong"
              /\ Served(r, 401) /\ limiter' = record_failure(checked, r.peer, now_sec)
              /\ tries' = Append(tries, now_sec)
              /\ fails' = [Known(checked) EXCEPT ![r.peer] = Append(@, now_sec)]
              /\ UNCHANGED live
           \/ /\ r.password = "right"
              /\ limiter' = record_success(checked, r.peer)
              /\ fails' = Known(limiter')
              /\ \/ /\ Served(r, 500) /\ UNCHANGED live       \* no entropy
                 \/ \E t \in NewTokens \ live :
                       live' = live \cup {t} /\ Served(r, 200)
              /\ UNCHANGED tries
    /\ UNCHANGED <<clients, now_sec, r_asked>>

Logout(r) ==
    /\ own(r) /\ r.method = "POST" /\ r.path = "logout"
    /\ live' = live \ {token_of(r)}
    /\ Served(r, 200)
    /\ UNCHANGED <<limiter, clients, now_sec, r_asked, attempts>>

\* The requests for data, all behind the session.
Unauthenticated(r) ==
    /\ own(r) /\ r.method = "GET" /\ ~authed(r)
    /\ r.path \in {"samples", "range", "alerts", "levels"}
    /\ Served(r, 401)
    /\ UNCHANGED <<limiter, live, clients, now_sec, r_asked, attempts>>

\* /api/samples: the newest `last`, 0 being as many as a new client gets. (The
\* poller it makes of the client is HotBuffer's.)
Samples(r) ==
    /\ own(r) /\ r.method = "GET" /\ r.path = "samples" /\ authed(r)
    /\ LET last == query_u64(r.query, <<"last">>, 0)
       IN  r_asked' = [r_asked EXCEPT !.limit = IF last = 0 THEN kMaxLimit ELSE Min({last, kMaxLimit})]
    /\ Served(r, 200)
    /\ UNCHANGED <<limiter, live, clients, now_sec, attempts>>

Data(r) ==
    /\ own(r) /\ r.method = "GET" /\ authed(r)
    /\ r.path \in {"alerts", "levels"}
    /\ Served(r, 200)
    /\ UNCHANGED <<limiter, live, clients, now_sec, r_asked, attempts>>

\* /api/range: what the query asks for, brought into range; a level by name may
\* be unknown, the tiers may refuse.
Tier(q) == LET t == query_u64(q, <<"tier">>, 1) IN IF t < 1 \/ t > 3 THEN 1 ELSE t
Limit(q) == LET n == query_u64(q, <<"limit">>, kMaxLimit)
            IN  IF n = 0 \/ n > kMaxLimit THEN kMaxLimit ELSE n

Range_(r) ==
    /\ own(r) /\ r.method = "GET" /\ r.path = "range" /\ authed(r)
    /\ r_asked' = [tier |-> Tier(r.query), limit |-> Limit(r.query)]
    /\ IF query_str(r.query, <<"level">>) \in {<<>>, <<"all">>}
       THEN Served(r, 200) \/ Served(r, 400)
       ELSE Served(r, 200) \/ Served(r, 400) \/ Served(r, 404)
    /\ UNCHANGED <<limiter, live, clients, now_sec, attempts>>

\* /api/ws: the checks, then the client is the hub's with its session.
UpgradeRefusal(r) ==
    IF ~r.upgrade THEN 400
    ELSE IF ~same_origin(r.origin, r.host, <<>>) THEN 403
    ELSE IF ~authed(r) THEN 401
    ELSE IF Len(clients) >= kMaxClients THEN 503 ELSE 0

Upgrade(r) ==
    /\ own(r) /\ r.path = "ws"
    /\ IF UpgradeRefusal(r) # 0
       THEN Served(r, UpgradeRefusal(r)) /\ UNCHANGED clients
       ELSE /\ Served(r, 101)
            /\ clients' = Append(clients, IF Auth THEN token_of(r) ELSE NoSession)
    /\ UNCHANGED <<limiter, live, now_sec, r_asked, attempts>>

NotFound(r) ==
    /\ own(r) /\ r.path # "ws" /\ ~is_login(r)
    /\ <<r.method, r.path>> \notin {"GET"} \X {"/", "health", "samples", "range", "alerts", "levels"}
    /\ <<r.method, r.path>> # <<"POST", "logout">>
    /\ Served(r, 404)
    /\ UNCHANGED <<limiter, live, clients, now_sec, r_asked, attempts>>

HandleRequest(r) ==
    \/ ForeignHost(r) \/ Public(r)
    \/ LoginRefused(r) \/ LoginBlocked(r) \/ LoginTried(r) \/ Logout(r)
    \/ Unauthenticated(r) \/ Samples(r) \/ Data(r) \/ Range_(r) \/ Upgrade(r) \/ NotFound(r)

\* A session left alone ends; a client goes.
SessionLapses ==
    /\ \E t \in live : live' = live \ {t}
    /\ UNCHANGED <<limiter, clients, now_sec, r_answer, r_asked, attempts>>

ClientGoes ==
    /\ clients # <<>> /\ clients' = Tail(clients)
    /\ UNCHANGED <<limiter, live, now_sec, r_answer, r_asked, attempts>>

Second ==
    /\ now_sec < MaxSeconds /\ now_sec' = now_sec + 1
    /\ UNCHANGED <<limiter, live, clients, r_answer, r_asked, attempts>>

RouterNext == (\E r \in Requests : HandleRequest(r)) \/ SessionLapses \/ ClientGoes \/ Second

RouterSpec == RouterInit /\ [][RouterNext]_routervars
-----------------------------------------------------------------------------
\* The router's state stays in range, and what a range query asks of the tiers
\* does whatever its text says: a tier there is, a limit above 0 and not above
\* the largest.
RouterTypeOK ==
    /\ DOMAIN limiter.peers \subseteq Peers /\ live \subseteq NewTokens
    /\ Len(clients) <= kMaxClients
    /\ r_asked.tier \in 1 .. 3 /\ r_asked.limit \in 1 .. kMaxLimit

\* With a password set, data and the stream go only to a request that carries
\* the token of a session that is still open, under the session cookie's name
\* and under no other. (`session` is what the request carries there.)
DataNeedsSession ==
    [][ /\ Auth /\ r_answer' # r_answer /\ r_answer'.status \in {200, 101}
        /\ r_answer'.path \in {"samples", "range", "alerts", "levels", "ws"}
        => r_answer'.session \in live ]_routervars

\* Retry-After is exact: an address told to wait is refused until then and,
\* if nothing else fails meanwhile, looked at then.
RetryExact ==
    \A p \in Peers :
        LET w == retry_after(limiter, p, now_sec)
            told == AfterRetry(limiter, p, now_sec)
        IN  w > 0 => /\ retry_after(told, p, now_sec + w) = 0
                     /\ \A d \in 0 .. w - 1 : retry_after(told, p, now_sec + d) > 0

\* Of so many failures in a row, the last comes a window's length after the
\* first: any span of that length has fewer.
Spaced(f, most) ==
    \A i \in 1 .. Len(f) : i + most <= Len(f) => f[i + most] >= f[i] + window_sec

\* Password checks that fail are bounded over any span of a window's length,
\* from however many addresses they come and however often the table of
\* addresses is swept or cleared.
GuessesBounded == Spaced(tries, 2 * global_max - 1)

\* The same of one address, from when it logged in or the table was cleared.
PeerGuessesBounded == \A p \in Peers : Spaced(fails[p], 2 * max_failures - 1)

\* The table of addresses does not grow without bound.
TableBounded == Cardinality(DOMAIN limiter.peers) <= Max({kSweepAt, kMaxTracked + 1})

\* Failed logins are bounded in any window of time, by address and in all, the
\* table stays small and Retry-After is exact.
LoginsBounded == RetryExact /\ GuessesBounded /\ PeerGuessesBounded /\ TableBounded
=============================================================================
