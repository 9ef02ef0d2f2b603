----------------------------- MODULE LuaPattern -----------------------------
(***************************************************************************)
(* rules/lua_pattern.c: string.find, match, gmatch and gsub of the rules.  *)
(* A subject and a pattern are sequences of one-character strings; what    *)
(* is past the end reads as Nul. The match state `ms` is passed along: the *)
(* captures, the steps not yet charged to the rule's instruction limit,    *)
(* those charged, and (for the properties) the characters looked at.       *)
(* A match is a position after it, Null or Error.                          *)
(***************************************************************************)
EXTENDS Integers, Sequences, FiniteSets, SequencesExt

CONSTANTS MAXCCALLS, LUA_MAXCAPTURES, BUDYK_STEP_CHUNK,
          StepBytes      \* bytes compared in one step (16)

PatternAssumption ==
    /\ MAXCCALLS \in Nat /\ LUA_MAXCAPTURES \in Nat
    /\ BUDYK_STEP_CHUNK \in Nat \ {0} /\ StepBytes \in Nat \ {0}

Nul == "NUL"
Null == 0
Error == -1
CAP_UNFINISHED == -1
CAP_POSITION == -2
PositionSteps == 1000000      \* (size_t) CAP_POSITION >> 4, which is 2^60 - 1

\* The characters of the instances.
Code(c) == CASE c = Nul -> 0 [] c = "%" -> 37 [] c = "1" -> 49 [] c = "[" -> 91 [] c = "]" -> 93
             [] c = "^" -> 94 [] c = "a" -> 97 [] c = "2" -> 50 [] c = "-" -> 45

At(str, i) == IF i \in DOMAIN str THEN str[i] ELSE Nul
End(str) == Len(str) + 1
Bytes(from, to) == (to - from) \div StepBytes

\* A position a relative one stands for.
posrelatI(pos, len) ==
    IF pos > 0 THEN pos
    ELSE IF pos = 0 \/ pos < -len THEN 1
    ELSE len + pos + 1

prepstate(src, pat) == [src |-> src, pat |-> pat, cap |-> <<>>, steps |-> 0, charged |-> 0, work |-> 0]
reprepstate(ms) == [ms EXCEPT !.cap = <<>>]

count(ms, n) ==
    IF ms.steps + n >= BUDYK_STEP_CHUNK
    THEN [ms EXCEPT !.steps = 0, !.charged = @ + ms.steps + n]
    ELSE [ms EXCEPT !.steps = @ + n]

count_flush(ms) == [ms EXCEPT !.steps = 0, !.charged = @ + ms.steps]

Did(ms, n) == [ms EXCEPT !.work = @ + n]
Result(s, ms) == [s |-> s, ms |-> ms]

-----------------------------------------------------------------------------
\* The capture of a digit, and the last one that is open; 0 when there is none.
check_capture(ms, digit) ==
    LET l == Code(digit) - Code("1") + 1
    IN  IF l \in DOMAIN ms.cap /\ ms.cap[l].len # CAP_UNFINISHED THEN l ELSE 0

capture_to_close(ms) ==
    LET open == {l \in DOMAIN ms.cap : ms.cap[l].len = CAP_UNFINISHED}
    IN  IF open = {} THEN 0 ELSE Max(open)

\* The ']' that ends a set, 0 if the pattern ends before.
RECURSIVE SetEnd(_, _)
SetEnd(pat, q) ==
    IF q = End(pat) THEN 0
    ELSE LET n == IF pat[q] = "%" /\ q + 1 < End(pat) THEN q + 2 ELSE q + 1
         IN  IF At(pat, n) = "]" THEN n ELSE SetEnd(pat, n)

\* The position after a single-character item.
classend(ms, p) ==
    LET c == ms.pat[p]
        close == SetEnd(ms.pat, IF At(ms.pat, p + 1) = "^" THEN p + 2 ELSE p + 1)
    IN  IF c = "%" THEN (IF p + 1 = End(ms.pat) THEN Result(Error, ms) ELSE Result(p + 2, ms))
        ELSE IF c # "[" THEN Result(p + 1, ms)
        ELSE IF close = 0 THEN Result(Error, ms)
        ELSE Result(close + 1, Did(count(ms, Bytes(p, close)), close - p))

match_class(c, cl) ==
    CASE cl = "a" -> c = "a" [] cl = "A" -> c # "a"
      [] cl = "d" -> c = "1" [] cl = "D" -> c # "1"
      [] OTHER -> cl = c

\* Whether c is in the set that starts at p and whose ']' is at ec.
RECURSIVE InSet(_, _, _, _)
InSet(pat, c, p, ec) ==
    IF p >= ec THEN FALSE
    ELSE IF pat[p] = "%" THEN match_class(c, pat[p + 1]) \/ InSet(pat, c, p + 2, ec)
    ELSE IF pat[p + 1] = "-" /\ p + 2 < ec
         THEN Code(c) \in Code(pat[p]) .. Code(pat[p + 2]) \/ InSet(pat, c, p + 3, ec)
    ELSE pat[p] = c \/ InSet(pat, c, p + 1, ec)

matchbracketclass(ms, c, p, ec) ==
    IF ms.pat[p + 1] = "^" THEN ~InSet(ms.pat, c, p + 2, ec) ELSE InSet(ms.pat, c, p + 1, ec)

\* Whether the character at s is one of the item from p to ep, and the state.
singlematch(ms, s, p, ep) ==
    LET m1 == Did(count(ms, 1), 1)
        c == At(ms.src, s)
    IN  IF s >= End(ms.src) THEN [ok |-> FALSE, ms |-> m1]
        ELSE CASE ms.pat[p] = "." -> [ok |-> TRUE, ms |-> m1]
               [] ms.pat[p] = "%" -> [ok |-> match_class(c, ms.pat[p + 1]), ms |-> m1]
               [] ms.pat[p] = "[" -> [ok |-> matchbracketclass(ms, c, p, ep - 1),
                                      ms |-> Did(count(m1, Bytes(p, ep)), ep - p)]
               [] OTHER -> [ok |-> ms.pat[p] = c, ms |-> m1]

\* The end of the balanced string at s, Null if there is none.
RECURSIVE Balance(_, _, _, _, _)
Balance(src, s, b, e, cont) ==
    IF s >= End(src) THEN Null
    ELSE IF src[s] = e THEN (IF cont = 1 THEN s + 1 ELSE Balance(src, s + 1, b, e, cont - 1))
    ELSE Balance(src, s + 1, b, e, IF src[s] = b THEN cont + 1 ELSE cont)

matchbalance(ms, s, p) ==
    LET to == Balance(ms.src, s + 1, ms.pat[p], ms.pat[p + 1], 1)
        n == (IF to = Null THEN End(ms.src) ELSE to - 1) - s
    IN  IF p >= Len(ms.pat) THEN Result(Error, ms)
        ELSE IF At(ms.src, s) # ms.pat[p] THEN Result(Null, ms)
        ELSE Result(to, Did(count(ms, n), n))

\* The text of a capture again. The length of a position capture is read as
\* a size: it never matches.
match_capture(ms, s, digit) ==
    LET l == check_capture(ms, digit)
        len == ms.cap[l].len
        m1 == Did(count(ms, 1 + (len \div StepBytes)), len + 1)
    IN  IF l = 0 THEN Result(Error, ms)
        ELSE IF len = CAP_POSITION THEN Result(Null, Did(count(ms, 1 + PositionSteps), 1))
        ELSE IF /\ End(ms.src) - s >= len
                /\ SubSeq(ms.src, ms.cap[l].init, ms.cap[l].init + len - 1) = SubSeq(ms.src, s, s + len - 1)
             THEN Result(s + len, m1)
        ELSE Result(Null, m1)

\* `depth` is matchdepth, the calls of match() still allowed.
RECURSIVE match(_, _, _, _)

\* How often the item matches from s on, and the state.
RECURSIVE Repeats(_, _, _, _)
Repeats(ms, s, p, ep) ==
    LET one == singlematch(ms, s, p, ep)
        more == Repeats(one.ms, s + 1, p, ep)
    IN  IF one.ok THEN [n |-> more.n + 1, ms |-> more.ms] ELSE [n |-> 0, ms |-> one.ms]

\* The rest of the pattern after i repetitions, then after fewer.
RECURSIVE FewerThan(_, _, _, _, _)
FewerThan(depth, ms, s, i, ep) ==
    LET res == match(depth, ms, s + i, ep + 1)
    IN  IF res.s # Null \/ i = 0 THEN res ELSE FewerThan(depth, res.ms, s, i - 1, ep)

max_expand(depth, ms, s, p, ep) ==
    LET all == Repeats(ms, s, p, ep) IN FewerThan(depth, all.ms, s, all.n, ep)

RECURSIVE min_expand(_, _, _, _, _)
min_expand(depth, ms, s, p, ep) ==
    LET res == match(depth, ms, s, ep + 1)
        one == singlematch(res.ms, s, p, ep)
    IN  IF res.s # Null THEN res
        ELSE IF one.ok THEN min_expand(depth, one.ms, s + 1, p, ep)
        ELSE Result(Null, one.ms)

start_capture(depth, ms, s, p, what) ==
    LET res == match(depth, [ms EXCEPT !.cap = Append(@, [init |-> s, len |-> what])], s, p)
    IN  IF Len(ms.cap) >= LUA_MAXCAPTURES THEN Result(Error, ms)
        ELSE IF res.s # Null THEN res
        ELSE Result(Null, [res.ms EXCEPT !.cap = Front(@)])

\* Faulty form: the capture stays closed when the rest does not match.
end_capture_Kept(depth, ms, s, p) ==
    LET l == capture_to_close(ms)
    IN  IF l = 0 THEN Result(Error, ms)
        ELSE match(depth, [ms EXCEPT !.cap[l].len = s - ms.cap[l].init], s, p)

end_capture(depth, ms, s, p) ==
    LET l == capture_to_close(ms)
        res == match(depth, [ms EXCEPT !.cap[l].len = s - ms.cap[l].init], s, p)
    IN  IF l = 0 THEN Result(Error, ms)
        ELSE IF res.s # Null THEN res
        ELSE Result(Null, [res.ms EXCEPT !.cap[l].len = CAP_UNFINISHED])

\* From the label `init` of match(); depth is that of the calls it makes.
RECURSIVE init(_, _, _, _)

\* A frontier: the set at p holds for the character at s, not for the one before.
Frontier(depth, ms, s, p) ==
    LET ep == classend(ms, p)
        previous == At(ms.src, s - 1)
        m1 == Did(ep.ms, 2 * (ep.s - p))
    IN  IF At(ms.pat, p) # "[" THEN Result(Error, ms)
        ELSE IF ep.s = Error THEN ep
        ELSE IF /\ ~matchbracketclass(ms, previous, p, ep.s - 1)
                /\ matchbracketclass(ms, At(ms.src, s), p, ep.s - 1)
             THEN init(depth, m1, s, ep.s)
        ELSE Result(Null, m1)

\* The label `dflt`: a class and its suffix.
dflt(depth, ms, s, p) ==
    LET end == classend(ms, p)
        ep == end.s
        one == singlematch(end.ms, s, p, ep)
        suffix == At(ms.pat, ep)
        with == match(depth, one.ms, s + 1, ep + 1)
    IN  IF ep = Error THEN end
        ELSE IF ~one.ok
             THEN IF suffix \in {"*", "?", "-"} THEN init(depth, one.ms, s, ep + 1) ELSE Result(Null, one.ms)
        ELSE CASE suffix = "?" -> IF with.s # Null THEN with ELSE init(depth, with.ms, s, ep + 1)
               [] suffix = "+" -> max_expand(depth, one.ms, s + 1, p, ep)
               [] suffix = "*" -> max_expand(depth, one.ms, s, p, ep)
               [] suffix = "-" -> min_expand(depth, one.ms, s, p, ep)
               [] OTHER -> init(depth, one.ms, s + 1, ep)

init(depth, m, s, p) ==
    LET ms == Did(count(m, 1), 1)
        next == At(ms.pat, p + 1)
        balanced == matchbalance(ms, s, p + 2)
        again == match_capture(ms, s, next)
    IN  IF p = End(ms.pat) THEN Result(s, ms)
        ELSE CASE ms.pat[p] = "(" /\ next = ")" -> start_capture(depth, ms, s, p + 2, CAP_POSITION)
               [] ms.pat[p] = "(" /\ next # ")" -> start_capture(depth, ms, s, p + 1, CAP_UNFINISHED)
               [] ms.pat[p] = ")" -> end_capture(depth, ms, s, p + 1)
               [] ms.pat[p] = "$" /\ p + 1 = End(ms.pat) -> Result(IF s = End(ms.src) THEN s ELSE Null, ms)
               [] ms.pat[p] = "%" /\ next = "b" ->
                    IF balanced.s > 0 THEN init(depth, balanced.ms, balanced.s, p + 4) ELSE balanced
               [] ms.pat[p] = "%" /\ next = "f" -> Frontier(depth, ms, s, p + 2)
               [] ms.pat[p] = "%" /\ next \in {"1", "2"} ->
                    IF again.s > 0 THEN init(depth, again.ms, again.s, p + 2) ELSE again
               [] OTHER -> dflt(depth, ms, s, p)

match(depth, ms, s, p) == IF depth = 0 THEN Result(Error, ms) ELSE init(depth - 1, ms, s, p)

-----------------------------------------------------------------------------
\* A plain search from s1: the first place of the pattern, Null if there is none.
RECURSIVE lmemfind(_, _)
lmemfind(ms, s1) ==
    LET l2 == Len(ms.pat) - 1
        l1 == End(ms.src) - s1 - l2
        found == {i \in s1 .. s1 + l1 - 1 : ms.src[i] = ms.pat[1]}
        at == Min(found)
        m1 == Did(count(ms, 1 + Bytes(s1, at) + (l2 \div StepBytes)), at - s1 + 1 + l2)
    IN  IF ms.pat = <<>> THEN Result(s1, ms)
        ELSE IF l1 <= 0 THEN Result(Null, ms)
        ELSE IF found = {} THEN Result(Null, Did(count(ms, l1 \div StepBytes), l1))
        ELSE IF SubSeq(ms.src, at, at + l2) = ms.pat THEN Result(at, m1)
        ELSE lmemfind(m1, at + 1)

\* What a capture gives: the text from..to - 1, or the position `from`.
Text(from, to) == [position |-> FALSE, from |-> from, to |-> to]
get_onecapture(ms, i, s, e) ==
    IF i > Len(ms.cap) THEN Text(s, e)
    ELSE IF ms.cap[i].len = CAP_POSITION
         THEN [position |-> TRUE, from |-> ms.cap[i].init, to |-> ms.cap[i].init]
    ELSE Text(ms.cap[i].init, ms.cap[i].init + ms.cap[i].len)

Unfinished(ms) == \E i \in DOMAIN ms.cap : ms.cap[i].len = CAP_UNFINISHED

\* The captures of the match from s to e; if it has none, the whole match
\* unless s is Null.
push_captures(ms, s, e) ==
    [i \in 1 .. (IF ms.cap = <<>> /\ s # Null THEN 1 ELSE Len(ms.cap)) |-> get_onecapture(ms, i, s, e)]

nospecials(p) == \A i \in DOMAIN p : p[i] \notin {"^", "$", "*", "+", "?", ".", "(", "[", "%", "-"}

\* What a call returns: "nil", "error" or a match.
Answer(kind, from, to, caps, ms) == [kind |-> kind, from |-> from, to |-> to, caps |-> caps, ms |-> ms]
Nil(ms) == Answer("nil", 0, 0, <<>>, ms)
Raised(ms) == Answer("error", 0, 0, <<>>, ms)
Found(find, ms, s, e) ==
    IF Unfinished(ms) THEN Raised(ms)
    ELSE Answer("match", s, e, push_captures(ms, IF find THEN Null ELSE s, e), ms)

\* The first place at or after s1 where the pattern matches.
RECURSIVE Search(_, _, _, _)
Search(find, m, s1, anchor) ==
    LET after(res) ==
            IF res.s = Error THEN Raised(res.ms)
            ELSE IF res.s # Null THEN Found(find, count_flush(res.ms), s1, res.s)
            ELSE IF s1 < End(m.src) /\ ~anchor THEN Search(find, res.ms, s1 + 1, anchor)
            ELSE Nil(count_flush(res.ms))
    IN  after(match(MAXCCALLS, reprepstate(m), s1, 1))

str_find_aux(find, s, p, pos, plain) ==
    LET from == posrelatI(pos, Len(s))
        found == lmemfind(prepstate(s, p), from)
        ms == count_flush(found.ms)
        anchor == At(p, 1) = "^"
    IN  IF from > End(s) THEN Nil(prepstate(s, p))
        ELSE IF find /\ (plain \/ nospecials(p))
             THEN IF found.s = Null THEN Nil(ms)
                  ELSE Answer("match", found.s, found.s + Len(p), <<>>, ms)
        ELSE Search(find, prepstate(s, IF anchor THEN Tail(p) ELSE p), from, anchor)

\* The next match of an iterator gm: [src, lastmatch, ms].
RECURSIVE gmatch_aux(_)

gmatch_aux(gm) ==
    LET after(res) ==
            IF res.s = Error THEN Raised(res.ms)
            ELSE IF res.s # Null /\ res.s # gm.lastmatch THEN Found(FALSE, count_flush(res.ms), gm.src, res.s)
            ELSE gmatch_aux([gm EXCEPT !.src = @ + 1, !.ms = res.ms])
    IN  IF gm.src > End(gm.ms.src) THEN Nil(count_flush(gm.ms))
        ELSE after(match(MAXCCALLS, reprepstate(gm.ms), gm.src, 1))

\* The matches an iterator gives until it ends; the last is "nil" or "error".
RECURSIVE Iterated(_)
Iterated(gm) ==
    LET after(a) ==
            IF a.kind # "match" THEN <<a>>
            ELSE <<a>> \o Iterated([src |-> a.to, lastmatch |-> a.to, ms |-> a.ms])
    IN  after(gmatch_aux(gm))

gmatch(s, p, pos) ==
    LET from == posrelatI(pos, Len(s))
    IN  Iterated([src |-> IF from > End(s) THEN End(s) + 1 ELSE from, lastmatch |-> Null, ms |-> prepstate(s, p)])

\* The replacement string, with "%" and what follows it; a position becomes
\* the text "P".
RECURSIVE add_s(_, _, _, _)
add_s(ms, news, s, e) ==
    LET cap == get_onecapture(ms, Code(At(news, 2)) - Code("1") + 1, s, e)
        rest == add_s(ms, SubSeq(news, 3, Len(news)), s, e)
    IN  IF news = <<>> THEN <<>>
        ELSE IF news[1] # "%" THEN <<news[1]>> \o add_s(ms, Tail(news), s, e)
        ELSE CASE At(news, 2) = "%" -> <<"%">> \o rest
               [] At(news, 2) = "0" -> SubSeq(ms.src, s, e - 1) \o rest
               [] OTHER -> (IF cap.position THEN <<"P">> ELSE SubSeq(ms.src, cap.from, cap.to - 1)) \o rest

\* Whether the l-th capture cannot be had.
NoCapture(ms, l) == IF l > Len(ms.cap) THEN l # 1 ELSE ms.cap[l].len = CAP_UNFINISHED

\* repl is [tr |-> "string", news], or [tr |-> "function" or "table", keep, value]:
\* what it gives is nil or false (keep), or the text `value`.
BadValue(ms, repl) ==
    CASE repl.tr = "function" -> Unfinished(ms)
      [] repl.tr = "table" -> NoCapture(ms, 1)
      [] repl.tr = "string" ->
            \E i \in DOMAIN repl.news :
                /\ repl.news[i] = "%" /\ At(repl.news, i + 1) \in {"1", "2"}
                /\ NoCapture(ms, Code(repl.news[i + 1]) - Code("1") + 1)

add_value(ms, repl, s, e) ==
    IF repl.tr = "string" THEN [changed |-> TRUE, text |-> add_s(ms, repl.news, s, e)]
    ELSE IF repl.keep THEN [changed |-> FALSE, text |-> SubSeq(ms.src, s, e - 1)]
    ELSE [changed |-> TRUE, text |-> repl.value]

Substituted(kind, text, n, ms) == [kind |-> kind, text |-> text, n |-> n, ms |-> ms]

\* The loop of gsub(), and what follows it.
RECURSIVE Substitute(_, _, _, _)
Substitute(g, repl, max_s, anchor) ==
    LET done(h) == Substituted("text", IF h.changed THEN h.b \o SubSeq(h.ms.src, h.src, Len(h.ms.src))
                                       ELSE h.ms.src, h.n, count_flush(h.ms))
        goes_on(h) == IF anchor THEN done(h) ELSE Substitute(h, repl, max_s, anchor)
        replaced(res, new) == [src |-> res.s, lastmatch |-> res.s, ms |-> res.ms, n |-> g.n + 1,
                               b |-> g.b \o new.text, changed |-> g.changed \/ new.changed]
        after(res) ==
            IF res.s = Error THEN Substituted("error", <<>>, 0, res.ms)
            ELSE IF res.s # Null /\ res.s # g.lastmatch
                 THEN IF BadValue(res.ms, repl) THEN Substituted("error", <<>>, 0, res.ms)
                      ELSE goes_on(replaced(res, add_value(res.ms, repl, g.src, res.s)))
            ELSE IF g.src < End(g.ms.src)
                 THEN goes_on([g EXCEPT !.src = @ + 1, !.ms = res.ms, !.b = Append(@, g.ms.src[g.src])])
            ELSE done([g EXCEPT !.ms = res.ms])
    IN  IF g.n >= max_s THEN done(g) ELSE after(match(MAXCCALLS, reprepstate(g.ms), g.src, 1))

gsub(s, p, repl, max_s) ==
    LET anchor == At(p, 1) = "^"
    IN  Substitute([src |-> 1, lastmatch |-> Null, n |-> 0, b |-> <<>>, changed |-> FALSE,
                    ms |-> prepstate(s, IF anchor THEN Tail(p) ELSE p)], repl, max_s, anchor)

-----------------------------------------------------------------------------
(* Calls of string.match, find, gmatch and gsub. A pattern is made from a  *)
(* list of items; what it should match is said of the items, and compared  *)
(* with what the matcher does with their text.                             *)

CONSTANTS MaxSubject,   \* characters of a subject
          MaxItems,     \* items of a pattern, from all of them
          MaxFew        \* items of a pattern, from a few

VARIABLE in

Chars == {"a", "1"}
Subjects == UNION {[1 .. n -> Chars] : n \in 0 .. MaxSubject}

One(c, q) == [k |-> "one", c |-> c, q |-> q]
Kind(k) == [k |-> k, c |-> "", q |-> ""]
Edge(c) == [k |-> "front", c |-> c, q |-> ""]

Items == {One("a", "")} \cup {One(c, q) : c \in {"any", "digit", "not_a", "range"}, q \in {"", "*", "+", "-", "?"}}
         \cup {Edge(c) : c \in {"digit_set", "not_a"}}
         \cup {Kind(k) : k \in {"open", "close", "pos", "back", "balance", "end"}}
Few == {One("a", ""), One("any", "-"), Kind("open"), Kind("close"), Kind("back")}

\* "(" and then ")" is the text of a position capture.
Patterns == {is \in UNION {[1 .. n -> Items] : n \in 0 .. MaxItems} \cup UNION {[1 .. n -> Few] : n \in 0 .. MaxFew} :
                \A i \in 1 .. Len(is) - 1 : ~(is[i].k = "open" /\ is[i + 1].k = "close")}

ClassText(c) == CASE c = "a" -> <<"a">> [] c = "any" -> <<".">> [] c = "digit" -> <<"%", "d">>
                  [] c = "not_a" -> <<"[", "^", "a", "]">> [] c = "range" -> <<"[", "1", "-", "a", "]">>
                  [] c = "digit_set" -> <<"[", "%", "d", "]">>
ItemText(it) == CASE it.k = "one" -> ClassText(it.c) \o (IF it.q = "" THEN <<>> ELSE <<it.q>>)
                  [] it.k = "front" -> <<"%", "f">> \o ClassText(it.c)
                  [] it.k = "open" -> <<"(">> [] it.k = "close" -> <<")">> [] it.k = "pos" -> <<"(", ")">>
                  [] it.k = "back" -> <<"%", "1">> [] it.k = "balance" -> <<"%", "b", "a", "1">>
                  [] it.k = "end" -> <<"$">>
PatternText(is) == FlattenSeq([i \in DOMAIN is |-> ItemText(is[i])])

-----------------------------------------------------------------------------
\* What the items match: every way, in the order of preference, each the end
\* and the captures; Bad where the pattern is refused.
Bad == [e |-> Error, cap |-> <<>>]
Holds(c, ch) == CASE c = "a" -> ch = "a" [] c \in {"digit", "digit_set"} -> ch = "1"
                  [] c = "any" -> TRUE [] c = "not_a" -> ch # "a" [] c = "range" -> ch \in {"1", "a"}

Run(src, i, c) == Max({n \in 0 .. End(src) - i : \A j \in i .. i + n - 1 : Holds(c, src[j])})
Depth(src, i, j) == Cardinality({n \in i .. j : src[n] = "a"}) - Cardinality({n \in i .. j : src[n] = "1"})

RECURSIVE Ways(_, _, _, _)
Ways(is, src, i, cap) ==
    LET it == Head(is)
        Then(j, c) == Ways(Tail(is), src, j, c)
        max == Run(src, i, it.c)
        Most(lo, hi) == FlattenSeq([n \in 1 .. hi - lo + 1 |-> Then(i + hi - n + 1, cap)])
        open == {l \in DOMAIN cap : cap[l].len = CAP_UNFINISHED}
        text == SubSeq(src, cap[1].init, cap[1].init + cap[1].len - 1)
        closes == {j \in i + 1 .. Len(src) : Depth(src, i, j) = 0}
    IN  IF is = <<>> THEN <<[e |-> i, cap |-> cap]>>
        ELSE CASE it.k = "one" ->
                    (CASE it.q = "" -> IF max > 0 THEN Then(i + 1, cap) ELSE <<>>
                       [] it.q = "*" -> Most(0, max)
                       [] it.q = "+" -> Most(1, max)
                       [] it.q = "?" -> Most(0, Min({1, max}))
                       [] it.q = "-" -> FlattenSeq([n \in 1 .. max + 1 |-> Then(i + n - 1, cap)]))
               [] it.k = "open" -> Then(i, Append(cap, [init |-> i, len |-> CAP_UNFINISHED]))
               [] it.k = "pos" -> Then(i, Append(cap, [init |-> i, len |-> CAP_POSITION]))
               [] it.k = "close" -> IF open = {} THEN <<Bad>>
                                    ELSE Then(i, [cap EXCEPT ![Max(open)].len = i - cap[Max(open)].init])
               [] it.k = "back" -> IF cap = <<>> \/ 1 \in open THEN <<Bad>>
                                   ELSE IF cap[1].len # CAP_POSITION /\ IsPrefix(text, SubSeq(src, i, Len(src)))
                                   THEN Then(i + cap[1].len, cap) ELSE <<>>
               [] it.k = "balance" -> IF At(src, i) = "a" /\ closes # {} THEN Then(Min(closes) + 1, cap) ELSE <<>>
               [] it.k = "front" -> IF ~Holds(it.c, At(src, i - 1)) /\ Holds(it.c, At(src, i))
                                    THEN Then(i, cap) ELSE <<>>
               [] it.k = "end" -> IF Len(is) = 1 /\ i = End(src) THEN Then(i, cap) ELSE <<>>

Preferred(is, src, i) ==
    LET ways == Ways(is, src, i, <<>>) IN IF ways = <<>> THEN [e |-> Null, cap |-> <<>>] ELSE Head(ways)

-----------------------------------------------------------------------------
NoCall == [kind |-> "none"]
Replacements == {[tr |-> "string", news |-> n] : n \in {<<>>, <<"%", "0">>, <<"1", "%", "1", "%", "%">>}}
                \cup {[tr |-> IF b THEN "function" ELSE "table", keep |-> b, value |-> <<"a">>] : b \in BOOLEAN}

PatternInit == in = NoCall
PatternNext ==
    \/ in = NoCall /\ in' \in [kind : {"subject"}, s : Subjects]
    \/ in.kind = "subject" /\ in' \in [kind : {"call"}, s : {in.s}, is : Patterns]
    \/ in.kind = "call" /\ in' = NoCall

p == PatternText(in.is)
Called == in.kind = "call"

\* match() backtracks through the pattern's text with labels, loops and undone
\* captures; from every position it finds the way the items prefer: the
\* longest or shortest repetition that lets the rest match, the captures of
\* that way and of no way given up, or the error the first way meets.
MatchRight ==
    Called => \A i \in 1 .. End(in.s) :
        \A got \in {match(MAXCCALLS, prepstate(in.s, p), i, 1)}, want \in {Preferred(in.is, in.s, i)} :
            got.s = want.e /\ (got.s > 0 => got.ms.cap = want.cap)

\* What the pattern matches at i: its own text when find() takes it for plain.
Wanted(find, i) ==
    IF ~(find /\ nospecials(p)) THEN Preferred(in.is, in.s, i)
    ELSE [e |-> IF IsPrefix(p, SubSeq(in.s, i, Len(in.s))) THEN i + Len(p) ELSE Null, cap |-> <<>>]

\* string.find and string.match give the first place of the subject, from the
\* one asked for on, where the pattern matches, also when it is the place past
\* the last character. The search for a plain text that find() takes instead
\* of the matcher, for a pattern of no special character, gives the first
\* place of the text. A pattern that starts with '^' matches at the place asked
\* for or not at all.
FindRight ==
    Called => \A pos \in {-2, 1, MaxSubject + 2}, find, anchor \in BOOLEAN :
        LET from == IF pos > 0 THEN pos ELSE IF pos = 0 THEN 1 ELSE Max({1, Len(in.s) + 1 + pos})
            wanted == [i \in 1 .. End(in.s) |-> Wanted(find /\ ~anchor, i)]
            unfinished(want) == \E l \in DOMAIN want.cap : want.cap[l].len = CAP_UNFINISHED
        IN  \A got \in {str_find_aux(find, in.s, IF anchor THEN <<"^">> \o p ELSE p, pos, FALSE)} :
            \A at \in {{i \in from .. (IF anchor THEN Min({from, End(in.s)}) ELSE End(in.s)) : wanted[i].e # Null}} :
                IF at = {} THEN got.kind = "nil"
                ELSE \A want \in {wanted[Min(at)]} :
                        IF want.e = Error \/ unfinished(want) THEN got.kind = "error"
                        ELSE got.kind = "match" /\ got.from = Min(at) /\ got.to = want.e

\* The matches of an iterator do not overlap, each is the preferred one at its
\* place, and none is missed: a place outside them where the pattern matches
\* is the end of the match before it, and the match there is empty.
GmatchRight ==
    Called => \A all \in {gmatch(in.s, p, 1)} :
        LET n == Len(all) - 1
        IN  /\ \A k \in 1 .. n : all[k].to = Preferred(in.is, in.s, all[k].from).e
            /\ \A k \in 1 .. n - 1 : all[k].to <= all[k + 1].from
            /\ all[n + 1].kind = "nil" =>
                  \A i \in 1 .. End(in.s) :
                      \/ Preferred(in.is, in.s, i).e = Null
                      \/ \E k \in 1 .. n : all[k].from = i \/ i \in all[k].from + 1 .. all[k].to - 1
                      \/ Preferred(in.is, in.s, i).e = i /\ \E k \in 1 .. n : all[k].to = i

\* gsub() replaces the matches gmatch() gives, at most max_s of them, and
\* keeps every other character: also when the replacement of a match is nil
\* or false, which leaves its text.
GsubRight ==
    Called => \A all \in {gmatch(in.s, p, 1)}, repl \in Replacements, max_s \in {1, MaxSubject + 1} :
        LET n == Min({max_s, Len(all) - 1})
            Value(k) == IF repl.tr # "string" THEN (IF repl.keep THEN SubSeq(in.s, all[k].from, all[k].to - 1) ELSE repl.value)
                        ELSE IF repl.news = <<>> THEN <<>>
                        ELSE IF Len(repl.news) = 2 THEN SubSeq(in.s, all[k].from, all[k].to - 1)
                        ELSE LET c == all[k].caps[1]
                             IN  <<"1">> \o (IF c.position THEN <<"P">> ELSE SubSeq(in.s, c.from, c.to - 1)) \o <<"%">>
            Between(k) == SubSeq(in.s, IF k = 1 THEN 1 ELSE all[k - 1].to, IF k > n THEN Len(in.s) ELSE all[k].from - 1)
        IN  Last(all).kind = "nil" => \A got \in {gsub(in.s, p, repl, max_s)} :
                /\ got.kind = "text" /\ got.n = n
                /\ got.text = FlattenSeq([k \in 1 .. n |-> Between(k) \o Value(k)]) \o Between(n + 1)

Answers == {str_find_aux(find, in.s, p, 1, plain) : find, plain \in BOOLEAN}
           \cup {gsub(in.s, p, [tr |-> "string", news |-> <<>>], MaxSubject + 1), Last(gmatch(in.s, p, 1))}

\* A call that returns has charged its work to the rule's limit, what was left
\* below a chunk too: no sequence of short calls runs for nothing.
WorkCharged ==
    Called => \A a \in Answers : a.kind # "error" => a.ms.work <= 3 * StepBytes * (a.ms.charged + 1)
=============================================================================
