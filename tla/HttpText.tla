------------------------------ MODULE HttpText ------------------------------
(***************************************************************************)
(* What the router reads in the texts of a request: cookies, the query,    *)
(* the names of a Host and an Origin, the path of the session cookie. A    *)
(* text is a sequence of characters, a word that is only ever compared     *)
(* whole standing for its characters.                                      *)
(***************************************************************************)
EXTENDS Integers, Sequences, FiniteSetsExt

CONSTANTS Lowered,     \* the upper-case words and their lower case
          Addresses,   \* the words inet_pton() takes for an address
          PlainWords,  \* the words made of letters and digits
          UintMax,     \* the largest value of a uint64_t
          MaxPrefix    \* the longest X-Forwarded-Prefix

Blank == {" ", "TAB"}
Digits == <<"0", "1", "2", "3", "4", "5", "6", "7", "8", "9">>

\* std::string::find of a character from a place on: the end when there is none.
FindFrom(s, c, from) == Min({i \in from .. Len(s) : s[i] = c} \cup {Len(s) + 1})
Find(s, c) == FindFrom(s, c, 1)
Upto(s, c) == SubSeq(s, 1, Find(s, c) - 1)
StartsAt(s, p, at) == at + Len(p) - 1 <= Len(s) /\ SubSeq(s, at, at + Len(p) - 1) = p

\* The longest part without blanks at the ends.
TrimEnd(s) == SubSeq(s, 1, Max({i \in 1 .. Len(s) : s[i] \notin Blank} \cup {0}))
TrimStart(s) == SubSeq(s, Min({i \in 1 .. Len(s) : s[i] \notin Blank} \cup {Len(s) + 1}), Len(s))

Lower(s) == [i \in 1 .. Len(s) |-> IF s[i] \in DOMAIN Lowered THEN Lowered[s[i]] ELSE s[i]]
ascii_ieq(a, b) == Lower(a) = Lower(b)

-----------------------------------------------------------------------------
cookie_at(h, p, end) == Min({i \in p .. end - 1 : h[i] \notin Blank} \cup {end})

\* cookie_value(): the first of "a=1; b=2" that is called `name`.
cookie_value(h, name) ==
    LET needle == name \o <<"=">>
        from[p \in 1 .. Len(h) + 2] ==
            IF p > Len(h) THEN <<>>
            ELSE LET end   == FindFrom(h, ";", p)
                     start == cookie_at(h, p, end)
                 IN  IF StartsAt(h, needle, start)
                     THEN SubSeq(h, start + Len(needle), end - 1)
                     ELSE from[end + 1]
    IN  from[1]

query_key(q, needle, p, amp) == StartsAt(q, needle, p)

\* query_find(): the raw value, or the empty text.
query_str(q, key) ==
    LET needle == key \o <<"=">>
        from[p \in 1 .. Len(q) + 2] ==
            IF p > Len(q) THEN <<>>
            ELSE LET amp == FindFrom(q, "&", p)
                 IN  IF query_key(q, needle, p, amp)
                     THEN SubSeq(q, p + Len(needle), amp - 1)
                     ELSE from[amp + 1]
    IN  from[1]

DigitOf(c) == (CHOOSE d \in DOMAIN Digits : Digits[d] = c) - 1

NextDigit(out, d) == IF out > (UintMax - d) \div 10 THEN -2 ELSE out * 10 + d

\* query_u64(): -1 stands for a character that is no digit (the fallback), -2
\* for a value out of range (the largest).
query_u64(q, key, fallback) ==
    LET val == query_str(q, key)
        upto[i \in 0 .. Len(val)] ==
            IF i = 0 THEN 0
            ELSE IF upto[i - 1] < 0 THEN upto[i - 1]
            ELSE IF \A d \in DOMAIN Digits : Digits[d] # val[i] THEN -1
            ELSE NextDigit(upto[i - 1], DigitOf(val[i]))
        out == upto[Len(val)]
    IN  IF val = <<>> \/ out = -1 THEN fallback ELSE IF out = -2 THEN UintMax ELSE out

-----------------------------------------------------------------------------
first_entry(v) == TrimStart(TrimEnd(Upto(v, ",")))
media_type(v) == Lower(TrimEnd(Upto(v, ";")))

\* same_origin(): the Origin's host[:port] against Host and X-Forwarded-Host.
\* Faulty form: the path of an Origin not cut off.
OriginAuthority_Whole(a) == a
OriginAuthority(a) == Upto(a, "/")

same_origin(origin, host, forwarded) ==
    LET sep == Find(origin, "://")
        authority == OriginAuthority(SubSeq(origin, sep + 1, Len(origin)))
    IN  \/ origin = <<>>
        \/ /\ sep <= Len(origin) /\ authority # <<>>
           /\ \E h \in {host, forwarded} :
                first_entry(h) # <<>> /\ ascii_ieq(first_entry(h), authority)

host_name(h) ==
    IF h # <<>> /\ h[1] = "["
    THEN IF Find(h, "]") > Len(h) THEN <<>> ELSE SubSeq(h, 2, Find(h, "]") - 1)
    ELSE LET n == Upto(h, ":") IN IF n # <<>> /\ n[Len(n)] = "." THEN SubSeq(n, 1, Len(n) - 1) ELSE n

\* own_host(): whether the request was sent to one of budyk's names.
own_name(h, hostname, allowed) ==
    /\ h # <<>>
    /\ \/ Len(h) = 1 /\ h[1] \in Addresses
       \/ ascii_ieq(h, <<"localhost">>)
       \/ Len(h) > 2 /\ ascii_ieq(SubSeq(h, Len(h) - 1, Len(h)), <<".", "localhost">>)
       \/ hostname # <<>> /\ ascii_ieq(h, hostname)
       \/ \E a \in allowed : ascii_ieq(h, a)

own_host(host, loopback, auth, login, hostname, allowed) ==
    \/ ~loopback
    \/ auth /\ ~login
    \/ host = <<>>
    \/ own_name(host_name(host), hostname, allowed)

plain_path(p) == \A i \in DOMAIN p : p[i] \in PlainWords \cup {"/", "-", "_", ".", "~"}

cookie_path(prefix) ==
    LET p == first_entry(prefix)
    IN  IF p = <<>> \/ p[1] # "/" \/ Len(p) > MaxPrefix \/ ~plain_path(p) THEN <<"/">>
        ELSE IF Len(p) > 1 /\ p[Len(p)] = "/" THEN SubSeq(p, 1, Len(p) - 1) ELSE p
=============================================================================
