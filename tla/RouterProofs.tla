---------------------------- MODULE RouterProofs ----------------------------
(***************************************************************************)
(* Proofs about the login limiter of the router, for every set of          *)
(* addresses and of requests, every limit, window and size of the table:   *)
(* failed logins are bounded over any window's length, and Retry-After is  *)
(* exact.                                                                  *)
(***************************************************************************)
EXTENDS Router, FiniteSetTheorems, TLAPS

-----------------------------------------------------------------------------
(* The login limiter: one window and the failures it has counted.          *)

Entry == [failures : Nat, window_start : Nat]

\* The failures of f in order, none in the future.
Ordered(f, n) == \A i \in 1 .. Len(f) : f[i] <= n /\ \A j \in 1 .. Len(f) : i <= j => f[i] <= f[j]

\* The window e counts the last failures of f; what came `most` failures before
\* it began was a window's length before.
Open(f, most, e) ==
    /\ e.failures \in 1 .. most /\ e.failures <= Len(f)
    /\ f[Len(f) + 1 - e.failures] = e.window_start
    /\ \A i \in 1 .. Len(f) : i + most + e.failures <= Len(f) + 1 => f[i] + window_sec <= e.window_start

\* No window is open: what came `most` failures before now was before then.
Over(f, most, n) == \A i \in 1 .. Len(f) : i + most <= Len(f) + 1 => f[i] + window_sec <= n

Window(f, most, e, n) ==
    /\ f \in Seq(Nat) /\ e \in Entry
    /\ Ordered(f, n) /\ Spaced(f, 2 * most - 1)
    /\ e.failures = 0 => Over(f, most, n)
    /\ e.failures # 0 => Open(f, most, e)

\* A window that has ended, or is gone from the table once it has.
LEMMA WindowEnds ==
    ASSUME RouterAssumption, NEW f, NEW most \in Nat, most > 0, NEW e, NEW n \in Nat,
           Window(f, most, e, n), expired(e, n)
    PROVE  Over(f, most, n) /\ Window(f, most, NoEntry, n)
<1>1. window_sec \in Nat
  BY Zenon DEF RouterAssumption
<1>2. e \in Entry /\ Len(f) \in Nat /\ \A i \in 1 .. Len(f) : f[i] \in Nat
  BY DEF Window
<1>3. Over(f, most, n)
  <2>1. CASE e.failures = 0
    BY <2>1, Zenon DEF Window
  <2>2. CASE e.failures # 0
    <3>1. n >= e.window_start + window_sec
      BY <2>2, Zenon DEF expired
    <3>2. Open(f, most, e) /\ Ordered(f, n)
      BY <2>2, Zenon DEF Window
    <3>3. ASSUME NEW i \in 1 .. Len(f), i + most <= Len(f) + 1 PROVE f[i] + window_sec <= n
      <4>0. /\ e.failures \in 1 .. most /\ e.failures <= Len(f)
            /\ f[Len(f) + 1 - e.failures] = e.window_start
        BY <3>2, Zenon DEF Open
      <4>1. Len(f) + 1 - e.failures \in 1 .. Len(f) /\ i <= Len(f) + 1 - e.failures
        BY <1>2, <3>3, <4>0
      <4>2. f[i] <= e.window_start
        BY <3>2, <4>0, <4>1, Zenon DEF Ordered
      <4> QED
        BY <1>1, <1>2, <3>1, <4>2 DEF Entry
    <3> QED
      BY <3>3, Zenon DEF Over
  <2> QED
    BY <2>1, <2>2, Zenon
<1>4. NoEntry \in Entry /\ NoEntry.failures = 0
  BY Zenon DEF NoEntry, Entry
<1> QED
  BY <1>3, <1>4, Zenon DEF Window

\* Time passes over a window.
LEMMA WindowLater ==
    ASSUME RouterAssumption, NEW f, NEW most \in Nat, most > 0, NEW e, NEW n \in Nat, Window(f, most, e, n)
    PROVE  Window(f, most, e, n + 1)
<1>0. f \in Seq(Nat) /\ window_sec \in Nat
  BY DEF RouterAssumption, Window
<1>1. window_sec \in Nat /\ Len(f) \in Nat /\ \A i \in 1 .. Len(f) : f[i] \in Nat
  BY ONLY <1>0
<1>2. Ordered(f, n + 1)
  BY <1>1 DEF Window, Ordered
<1>3. Over(f, most, n) => Over(f, most, n + 1)
  BY <1>1 DEF Over
<1> QED
  BY <1>2, <1>3, Zenon DEF Window

\* An address without failures.
LEMMA WindowNew ==
    ASSUME NEW most \in Nat, most > 0, NEW n \in Nat
    PROVE  Window(<<>>, most, NoEntry, n)
BY DEF Window, Ordered, Spaced, Over, NoEntry, Entry

\* A failure is counted, in the window or as the first of a new one.
LEMMA WindowCounts ==
    ASSUME RouterAssumption, NEW f, NEW most \in Nat, most > 0, NEW e, NEW n \in Nat,
           Window(f, most, e, n), expired(e, n) \/ e.failures < most
    PROVE  Window(Append(f, n), most, bump(e, n), n) /\ bump(e, n).failures > 0
<1> DEFINE g == Append(f, n)
           b == bump(e, n)
<1>f. f \in Seq(Nat) /\ e \in Entry
  BY Zenon DEF Window
<1>0. f \in Seq(Nat) /\ g \in Seq(Nat)
  BY <1>f
<1>1. window_sec \in Nat /\ e \in Entry /\ Len(f) \in Nat /\ \A i \in 1 .. Len(f) : f[i] \in Nat
  BY <1>f DEF RouterAssumption
<1>2. Len(g) = Len(f) + 1 /\ g[Len(f) + 1] = n /\ \A i \in 1 .. Len(f) : g[i] = f[i]
  BY <1>0
<1>3. b \in Entry /\ b.failures > 0
  BY <1>1 DEF bump, Entry
<1> HIDE DEF g, b
<1>4. Ordered(g, n)
  <2>1. Ordered(f, n)
    BY Zenon DEF Window
  <2> QED
    BY <1>1, <1>2, <2>1 DEF Ordered
<1>5. Open(g, most, b)
  <2>1. CASE expired(e, n)
    <3>1. b.failures = 1 /\ b.window_start = n
      BY <2>1, Zenon DEF b, bump
    <3>2. Over(f, most, n)
      BY <2>1, WindowEnds
    <3>3. ASSUME NEW i \in 1 .. Len(f) + 1, i + most + 1 <= Len(f) + 2 PROVE g[i] + window_sec <= n
      BY <1>1, <1>2, <3>2, <3>3 DEF Over
    <3> QED
      BY <1>1, <1>2, <3>1, <3>3 DEF Open
  <2>2. CASE ~expired(e, n)
    <3>1. b.failures = e.failures + 1 /\ b.window_start = e.window_start /\ e.failures # 0 /\ e.failures < most
      BY <1>1, <2>2, Zenon DEF b, bump, expired, Entry
    <3>2. Open(f, most, e)
      BY <3>1, Zenon DEF Window
    <3>3. e.failures \in 1 .. most - 1 /\ e.failures <= Len(f) /\ f[Len(f) + 1 - e.failures] = e.window_start
          /\ Len(f) + 1 - e.failures \in 1 .. Len(f)
      BY <1>1, <3>1, <3>2 DEF Open, Entry
    <3>4. ASSUME NEW i \in 1 .. Len(f) + 1, i + most + (e.failures + 1) <= Len(f) + 2
          PROVE  g[i] + window_sec <= e.window_start
      <4>1. i \in 1 .. Len(f) /\ i + most + e.failures <= Len(f) + 1
        <5>1. Len(f) \in Nat /\ e.failures \in Nat /\ e.failures > 0
          BY <1>1, <3>3
        <5> QED
          BY <3>4, <5>1
      <4> QED
        BY <1>2, <3>2, <4>1, Zenon DEF Open
    <3>5. /\ e.failures + 1 \in 1 .. most /\ e.failures + 1 <= Len(f) + 1
          /\ (Len(f) + 1) + 1 - (e.failures + 1) = Len(f) + 1 - e.failures
          /\ (Len(f) + 1) + 1 = Len(f) + 2
      <4>1. Len(f) \in Nat /\ e.failures \in 1 .. most - 1 /\ e.failures <= Len(f)
        BY <1>1, <3>3, Zenon
      <4> QED
        BY <4>1
    <3>6. g[Len(f) + 1 - e.failures] = e.window_start
      BY <1>2, <3>3, Zenon
    <3> QED
      BY <1>2, <3>1, <3>4, <3>5, <3>6, Zenon DEF Open
  <2> QED
    BY <2>1, <2>2
<1>6. Spaced(g, 2 * most - 1)
  <2>1. \A i \in 1 .. Len(f) : i + (2 * most - 1) <= Len(f) => f[i + (2 * most - 1)] >= f[i] + window_sec
    BY Zenon DEF Window, Spaced
  <2>2. ASSUME NEW i \in 1 .. Len(f) + 1, i + (2 * most - 1) = Len(f) + 1 PROVE n >= g[i] + window_sec
    <3>0. b.failures \in 1 .. most /\ b.failures <= Len(g) /\ g[Len(g) + 1 - b.failures] = b.window_start
      BY <1>5, Zenon DEF Open
    <3>1. b.failures \in 1 .. most /\ b.failures <= Len(f) + 1 /\ g[Len(f) + 2 - b.failures] = b.window_start
          /\ Len(f) + 2 - b.failures \in 1 .. Len(f) + 1
      <4>1. Len(f) \in Nat /\ Len(g) = Len(f) + 1
        BY <1>1, <1>2, Zenon
      <4>2. b.failures \in 1 .. most /\ b.failures <= Len(g)
        BY <3>0, Zenon
      <4>3. /\ b.failures <= Len(f) + 1 /\ Len(g) + 1 - b.failures = Len(f) + 2 - b.failures
            /\ Len(f) + 2 - b.failures \in 1 .. Len(f) + 1
        BY <4>1, <4>2
      <4> QED
        BY <3>0, <4>3, Zenon
    <3>2. i + most + b.failures <= Len(f) + 2
      BY <1>1, <2>2, <3>1
    <3>3. g[i] + window_sec <= b.window_start
      BY <1>2, <1>5, <3>2 DEF Open
    <3>4. b.window_start <= n
      BY <1>2, <1>4, <3>1, Zenon DEF Ordered
    <3>5. g[i] \in Nat
      BY <1>1, <1>2
    <3>6. b.window_start \in Nat
      BY <1>3, Zenon DEF Entry
    <3> QED
      BY <1>1, <3>3, <3>4, <3>5, <3>6
  <2>3. ASSUME NEW i \in 1 .. Len(f) + 1, i + (2 * most - 1) <= Len(f) + 1
        PROVE  g[i + (2 * most - 1)] >= g[i] + window_sec
    <3>1. CASE i + (2 * most - 1) = Len(f) + 1
      BY <1>2, <2>2, <3>1, Zenon
    <3>2. CASE i + (2 * most - 1) # Len(f) + 1
      <4>1. i \in 1 .. Len(f) /\ i + (2 * most - 1) \in 1 .. Len(f)
        BY <1>1, <2>3, <3>2
      <4> QED
        BY <1>2, <2>1, <4>1
    <3> QED
      BY <3>1, <3>2, Zenon
  <2> QED
    BY <1>2, <2>3, Zenon DEF Spaced
<1> QED
  BY <1>0, <1>3, <1>4, <1>5, <1>6 DEF Window, g, b

-----------------------------------------------------------------------------
(* The limiter: its table and the windows in it.                           *)

IsLimiter(l) ==
    /\ l = [peers |-> l.peers, global |-> l.global] /\ l.global \in Entry
    /\ DOMAIN l.peers \subseteq Peers /\ IsFiniteSet(DOMAIN l.peers)
    /\ l.peers = [p \in DOMAIN l.peers |-> l.peers[p]]
    /\ \A p \in DOMAIN l.peers : l.peers[p] \in Entry

EntryOf(l, p) == IF p \in DOMAIN l.peers THEN l.peers[p] ELSE NoEntry

Tracked(l) == Cardinality(DOMAIN l.peers)
Small(l) == Tracked(l) \in Nat /\ (Tracked(l) < kSweepAt \/ Tracked(l) <= kMaxTracked)

\* s is l with addresses gone from the table.
Thinner(l, s) ==
    /\ IsLimiter(s) /\ s.global = l.global
    /\ DOMAIN s.peers \subseteq DOMAIN l.peers
    /\ \A p \in DOMAIN s.peers : s.peers[p] = l.peers[p]

LimiterInv ==
    /\ now_sec \in Nat /\ IsLimiter(limiter)
    /\ fails = [p \in Peers |-> fails[p]]
    /\ Window(tries, global_max, limiter.global, now_sec)
    /\ \A p \in Peers : Window(fails[p], max_failures, EntryOf(limiter, p), now_sec)
    /\ TableBounded

\* Addresses kept of the table of a limiter leave a limiter, a thinner one.
LEMMA Thinned ==
    ASSUME NEW l, IsLimiter(l), NEW D \in SUBSET DOMAIN l.peers,
           NEW s, s = [l EXCEPT !.peers = Restrict(l.peers, D)]
    PROVE  Thinner(l, s) /\ DOMAIN s.peers = D
<1>1. s = [peers |-> Restrict(l.peers, D), global |-> l.global]
  BY Zenon DEF IsLimiter
<1>2. s.peers = [x \in D |-> l.peers[x]] /\ s.global = l.global
  BY <1>1, Zenon DEF Restrict
<1>3. IsFiniteSet(D)
  BY FS_Subset, Zenon DEF IsLimiter
<1> QED
  BY <1>1, <1>2, <1>3, Zenon DEF Thinner, IsLimiter

LEMMA ThinnerTwice ==
    ASSUME NEW l, NEW s, NEW t, Thinner(l, s), Thinner(s, t)
    PROVE  Thinner(l, t)
BY Zenon DEF Thinner

LEMMA ThinnerSmall ==
    ASSUME RouterAssumption, NEW l, IsLimiter(l), NEW s, Thinner(l, s)
    PROVE  Tracked(s) \in Nat /\ Tracked(l) \in Nat /\ Tracked(s) <= Tracked(l) /\ (Small(l) => Small(s))
<1>1. IsFiniteSet(DOMAIN l.peers) /\ IsFiniteSet(DOMAIN s.peers) /\ DOMAIN s.peers \in SUBSET DOMAIN l.peers
  BY Zenon DEF Thinner, IsLimiter
<1>2. Tracked(s) \in Nat /\ Tracked(l) \in Nat /\ Tracked(s) <= Tracked(l)
  BY <1>1, FS_CardinalityType, FS_Subset, Zenon DEF Tracked
<1>3. kSweepAt \in Nat /\ kMaxTracked \in Nat
  BY Zenon DEF RouterAssumption
<1> QED
  BY <1>2, <1>3 DEF Small

\* sweep(): the table is small after it, and a window still open goes only when
\* all of them do.
LEMMA SweepThins ==
    ASSUME RouterAssumption, NEW l, IsLimiter(l), NEW n \in Nat
    PROVE  /\ Thinner(l, sweep(l, n)) /\ Small(sweep(l, n))
           /\ Small(l) => \A p \in DOMAIN l.peers : ~expired(l.peers[p], n) => p \in DOMAIN sweep(l, n).peers
<1> DEFINE kept == {p \in DOMAIN l.peers : ~expired(l.peers[p], n)}
           s == sweep(l, n)
<1>1. kSweepAt \in Nat /\ kMaxTracked \in Nat
  BY Zenon DEF RouterAssumption
<1>2. IsFiniteSet(DOMAIN l.peers) /\ Tracked(l) \in Nat
  BY FS_CardinalityType, Zenon DEF IsLimiter, Tracked
<1>3. CASE Tracked(l) < kSweepAt
  <2>1. s = l
    BY <1>3, Zenon DEF sweep, Tracked
  <2>2. Thinner(l, l)
    BY Zenon DEF Thinner
  <2> QED
    BY <1>2, <1>3, <2>1, <2>2, Zenon DEF Small
<1>4. CASE ~(Tracked(l) < kSweepAt)
  <2> DEFINE D == IF Cardinality(kept) > kMaxTracked THEN {} ELSE kept
  <2>1. s = [l EXCEPT !.peers = Restrict(l.peers, D)]
    BY <1>4, Zenon DEF sweep, Tracked
  <2>2. D \in SUBSET DOMAIN l.peers
    BY Zenon
  <2>3. Cardinality(kept) \in Nat /\ Cardinality(kept) <= Tracked(l)
    BY <1>2, FS_Subset, FS_CardinalityType, Zenon DEF Tracked
  <2>4. Cardinality(D) \in Nat /\ Cardinality(D) <= kMaxTracked
    BY <1>1, <2>3, FS_EmptySet
  <2>5. Thinner(l, s) /\ DOMAIN s.peers = D
    BY <2>1, <2>2, Thinned, Zenon
  <2>6. Small(s)
    BY <2>4, <2>5, Zenon DEF Small, Tracked
  <2>7. Small(l) => D = kept
    BY <1>1, <1>2, <1>4, <2>3 DEF Small
  <2> QED
    BY <2>5, <2>6, <2>7, Zenon
<1> QED
  BY <1>3, <1>4, Zenon

\* AfterRetry(): the same, and of the address itself no window that has ended stays.
LEMMA CheckThins ==
    ASSUME RouterAssumption, NEW l, IsLimiter(l), NEW p, NEW n \in Nat
    PROVE  /\ Thinner(l, AfterRetry(l, p, n)) /\ Small(AfterRetry(l, p, n))
           /\ AfterRetry(l, p, n).global = l.global
           /\ p \in DOMAIN sweep(l, n).peers /\ ~expired(sweep(l, n).peers[p], n)
                => /\ p \in DOMAIN AfterRetry(l, p, n).peers
                   /\ AfterRetry(l, p, n).peers[p] = sweep(l, n).peers[p]
           /\ p \in DOMAIN AfterRetry(l, p, n).peers
                => /\ p \in DOMAIN sweep(l, n).peers /\ ~expired(sweep(l, n).peers[p], n)
                   /\ AfterRetry(l, p, n).peers[p] = sweep(l, n).peers[p]
<1> DEFINE s == sweep(l, n)
           c == AfterRetry(l, p, n)
           D == {q \in DOMAIN s.peers : q # p \/ ~expired(s.peers[q], n)}
<1>1. Thinner(l, s) /\ Small(s)
  BY SweepThins, Zenon
<1>2. IsLimiter(s)
  BY <1>1, Zenon DEF Thinner
<1>3. c = [s EXCEPT !.peers = Restrict(s.peers, D)]
  BY Zenon DEF AfterRetry
<1> HIDE DEF s, c
<1>4. Thinner(s, c) /\ DOMAIN c.peers = D
  <2>1. D \in SUBSET DOMAIN s.peers
    BY Zenon
  <2> HIDE DEF D
  <2> QED
    BY <1>2, <1>3, <2>1, Thinned, Zenon
<1>5. Thinner(l, c) /\ Small(c)
  BY <1>1, <1>2, <1>4, ThinnerTwice, ThinnerSmall, Zenon
<1>6. c.global = l.global /\ \A q \in D : c.peers[q] = s.peers[q]
  BY <1>4, <1>5, Zenon DEF Thinner
<1> QED
  BY <1>4, <1>5, <1>6, Zenon DEF s, c

LEMMA SuccessThins ==
    ASSUME NEW l, IsLimiter(l), NEW p
    PROVE  Thinner(l, record_success(l, p))
<1> DEFINE D == DOMAIN l.peers \ {p}
<1>1. D \in SUBSET DOMAIN l.peers
  BY Zenon
<1>2. record_success(l, p) = [l EXCEPT !.peers = Restrict(l.peers, D)]
  BY Zenon DEF record_success
<1> HIDE DEF D
<1> QED
  BY <1>1, <1>2, Thinned, Zenon

\* The history goes with a table grown thinner: the windows kept are as they
\* were, those that had ended count nothing, the others are forgotten.
LEMMA KnownWindows ==
    ASSUME RouterAssumption, LimiterInv, NEW l, Thinner(limiter, l)
    PROVE  /\ Known(l) = [p \in Peers |-> Known(l)[p]]
           /\ \A p \in Peers : Window(Known(l)[p], max_failures, EntryOf(l, p), now_sec)
<1>1. now_sec \in Nat /\ IsLimiter(limiter) /\ max_failures \in Nat /\ max_failures > 0
  BY DEF LimiterInv, RouterAssumption
<1>2. Known(l) = [p \in Peers |-> Known(l)[p]]
  BY Zenon DEF Known
<1>3. ASSUME NEW p \in Peers
      PROVE  Window(Known(l)[p], max_failures, EntryOf(l, p), now_sec)
  <2>0. Window(fails[p], max_failures, EntryOf(limiter, p), now_sec)
    BY Zenon DEF LimiterInv
  <2>1. CASE p \in DOMAIN l.peers
    <3>1. EntryOf(l, p) = EntryOf(limiter, p)
      BY <2>1, Zenon DEF EntryOf, Thinner
    <3>2. Known(l)[p] = fails[p]
      BY <2>1, Zenon DEF Known, Forgotten
    <3> QED
      BY <2>0, <3>1, <3>2, Zenon
  <2>2. CASE p \notin DOMAIN l.peers /\ p \in DOMAIN limiter.peers /\ ~expired(limiter.peers[p], now_sec)
    <3>1. Known(l)[p] = <<>> /\ EntryOf(l, p) = NoEntry
      BY <2>2, Zenon DEF Known, Forgotten, EntryOf
    <3> QED
      BY <1>1, <3>1, WindowNew, Zenon
  <2>3. CASE p \notin DOMAIN l.peers /\ ~(p \in DOMAIN limiter.peers /\ ~expired(limiter.peers[p], now_sec))
    <3>1. Known(l)[p] = fails[p] /\ EntryOf(l, p) = NoEntry
      BY <2>3, Zenon DEF Known, Forgotten, EntryOf
    <3>2. expired(EntryOf(limiter, p), now_sec)
      BY <2>3, Zenon DEF EntryOf, expired, NoEntry
    <3> QED
      BY <1>1, <2>0, <3>1, <3>2, WindowEnds, Zenon
  <2> QED
    BY <2>1, <2>2, <2>3, Zenon
<1> QED
  BY <1>2, <1>3, Zenon

-----------------------------------------------------------------------------
(* retry_after(): the windows that refuse.                                 *)

\* The largest of the starts of the windows that refuse, one or two.
LEMMA LatestOfTwo ==
    ASSUME NEW x \in Nat, NEW y \in Nat, NEW S, S \subseteq {x, y}, S # {}
    PROVE  Max(S) \in S /\ Max(S) \in Nat /\ \A z \in S : z <= Max(S)
<1>1. \E m \in S : \A z \in S : m >= z
  <2>1. CASE x \in S /\ y \in S
    <3>1. CASE x >= y
      BY <2>1, <3>1
    <3>2. CASE y >= x
      BY <2>1, <3>2
    <3> QED
      BY <3>1, <3>2
  <2>2. CASE x \in S /\ y \notin S
    BY <2>2
  <2>3. CASE x \notin S
    <3>1. S = {y}
      BY <2>3, Zenon
    <3> QED
      BY <3>1
  <2> QED
    BY <2>1, <2>2, <2>3
<1>2. Max(S) \in S /\ \A z \in S : Max(S) >= z
  BY <1>1, Zenon DEF Max
<1> QED
  BY <1>2, Zenon

\* The windows that refuse p, one by one.
Refuses(e, most, n) == ~expired(e, n) /\ e.failures >= most
Refusing(l, p, n, e) ==
    \/ e = l.global /\ Refuses(e, global_max, n)
    \/ p \in DOMAIN l.peers /\ e = l.peers[p] /\ Refuses(e, max_failures, n)

LEMMA BlockingIs ==
    ASSUME NEW l, NEW p, NEW n
    PROVE  \A e : e \in Blocking(l, p, n) <=> Refusing(l, p, n, e)
BY Zenon DEF Blocking, Refusing, Refuses

\* They are open until the time told, the last of them.
LEMMA UntilIs ==
    ASSUME RouterAssumption, NEW l, IsLimiter(l), NEW p, NEW n \in Nat,
           NEW b, b = Blocking(l, p, n), b # {}
    PROVE  /\ BlockedUntil(b) \in Nat /\ BlockedUntil(b) > n
           /\ \A e \in b : e \in Entry /\ e.window_start + window_sec <= BlockedUntil(b)
           /\ \E e \in b : e.window_start + window_sec = BlockedUntil(b)
<1> DEFINE S == {e.window_start : e \in b}
           x == l.global.window_start
           y == EntryOf(l, p).window_start
<1>1. window_sec \in Nat /\ window_sec > 0
  BY DEF RouterAssumption
<1>2. \A e \in b : Refusing(l, p, n, e)
  BY BlockingIs, Zenon
<1>3. \A e \in b : e \in Entry /\ (e = l.global \/ e = EntryOf(l, p)) /\ ~expired(e, n)
  BY <1>2, Zenon DEF Refusing, Refuses, EntryOf, IsLimiter
<1>4. x \in Nat /\ y \in Nat
  BY Zenon DEF EntryOf, IsLimiter, Entry, NoEntry
<1>5. S \subseteq {x, y} /\ S # {}
  BY <1>3, Zenon
<1> HIDE DEF x, y
<1>6. Max(S) \in S /\ Max(S) \in Nat /\ \A z \in S : z <= Max(S)
  <2> HIDE DEF S
  <2> QED
    BY <1>4, <1>5, LatestOfTwo, Zenon
<1>7. BlockedUntil(b) = Max(S) + window_sec
  BY Zenon DEF BlockedUntil
<1>8. PICK e \in b : e.window_start = Max(S)
  BY <1>6, Zenon
<1>9. \A z \in b : z.window_start <= Max(S) /\ z.window_start \in Nat
  BY <1>3, <1>6, Zenon DEF Entry
<1> HIDE DEF S
<1>10. e.window_start + window_sec = BlockedUntil(b)
  BY <1>7, <1>8, Zenon
<1>11. ~(n >= e.window_start + window_sec)
  BY <1>3, Zenon DEF expired
<1>12. BlockedUntil(b) \in Nat /\ BlockedUntil(b) > n
  BY <1>1, <1>6, <1>7, <1>10, <1>11
<1>13. \A z \in b : z.window_start + window_sec <= BlockedUntil(b)
  BY <1>1, <1>6, <1>7, <1>9
<1> QED
  BY <1>3, <1>10, <1>12, <1>13, Zenon

LEMMA RetryIs ==
    ASSUME RouterAssumption, NEW l, IsLimiter(l), NEW p, NEW n \in Nat,
           NEW b, b = Blocking(sweep(l, n), p, n)
    PROVE  /\ b = {} => retry_after(l, p, n) = 0
           /\ b # {} => /\ retry_after(l, p, n) = BlockedUntil(b) - n
                        /\ retry_after(l, p, n) > 0 /\ BlockedUntil(b) \in Nat
<1>1. IsLimiter(sweep(l, n))
  BY SweepThins, Zenon DEF Thinner
<1>2. b = {} => retry_after(l, p, n) = 0
  BY Zenon DEF retry_after
<1>3. ASSUME b # {}
      PROVE  retry_after(l, p, n) = BlockedUntil(b) - n /\ retry_after(l, p, n) > 0 /\ BlockedUntil(b) \in Nat
  <2>1. BlockedUntil(b) \in Nat /\ BlockedUntil(b) > n
    BY <1>1, <1>3, UntilIs, Zenon
  <2>2. retry_after(l, p, n) = BlockedUntil(b) - n
    BY <1>3, <2>1, Zenon DEF retry_after
  <2> QED
    BY <2>1, <2>2
<1> QED
  BY <1>2, <1>3, Zenon

\* What refuses later, nothing having failed meanwhile, is what refused and is
\* still open: neither the address' own window nor that of all is swept away.
LEMMA BlockingLater ==
    ASSUME RouterAssumption, NEW l, IsLimiter(l), NEW p, NEW n \in Nat, NEW m \in Nat, n <= m,
           NEW t, t = AfterRetry(l, p, n)
    PROVE  /\ IsLimiter(t)
           /\ \A e : e \in Blocking(sweep(t, m), p, m)
                       <=> e \in Blocking(sweep(l, n), p, n) /\ m < e.window_start + window_sec
<1> DEFINE s == sweep(l, n)
           u == sweep(t, m)
<1>1. window_sec \in Nat /\ global_max \in Nat /\ max_failures \in Nat
  BY Zenon DEF RouterAssumption
<1>2. /\ Thinner(l, t) /\ Small(t) /\ t.global = l.global
      /\ p \in DOMAIN s.peers /\ ~expired(s.peers[p], n) => p \in DOMAIN t.peers /\ t.peers[p] = s.peers[p]
      /\ p \in DOMAIN t.peers
           => p \in DOMAIN s.peers /\ ~expired(s.peers[p], n) /\ t.peers[p] = s.peers[p]
  BY CheckThins
<1>3. IsLimiter(t)
  BY <1>2, Zenon DEF Thinner
<1>4. /\ Thinner(t, u)
      /\ \A q \in DOMAIN t.peers : ~expired(t.peers[q], m) => q \in DOMAIN u.peers
  BY <1>2, <1>3, SweepThins, Zenon
<1>5. Thinner(l, s)
  BY SweepThins, Zenon
<1> HIDE DEF s, u
<1>6. s.global = l.global /\ u.global = l.global /\ l.global \in Entry
  BY <1>2, <1>4, <1>5, Zenon DEF Thinner, IsLimiter
<1>7. p \in DOMAIN u.peers => p \in DOMAIN s.peers /\ u.peers[p] = s.peers[p] /\ ~expired(s.peers[p], n)
  BY <1>2, <1>4, Zenon DEF Thinner
<1>8. p \in DOMAIN s.peers /\ ~expired(s.peers[p], n) /\ ~expired(s.peers[p], m)
        => p \in DOMAIN u.peers /\ u.peers[p] = s.peers[p]
  BY <1>2, <1>4, Zenon DEF Thinner
<1>9. p \in DOMAIN s.peers => s.peers[p] \in Entry
  BY <1>5, Zenon DEF Thinner, IsLimiter
<1>10. ASSUME NEW e \in Entry, NEW most
       PROVE  Refuses(e, most, m) <=> Refuses(e, most, n) /\ m < e.window_start + window_sec
  BY <1>1 DEF Refuses, expired, Entry
<1>11. ASSUME NEW e PROVE Refusing(u, p, m, e) <=> Refusing(s, p, n, e) /\ m < e.window_start + window_sec
  <2>1. Refusing(u, p, m, e) => Refusing(s, p, n, e) /\ m < e.window_start + window_sec
    BY <1>6, <1>7, <1>9, <1>10, Zenon DEF Refusing
  <2>2. Refusing(s, p, n, e) /\ m < e.window_start + window_sec => Refusing(u, p, m, e)
    <3>1. SUFFICES ASSUME Refusing(s, p, n, e), m < e.window_start + window_sec PROVE Refusing(u, p, m, e)
      BY Zenon
    <3>2. CASE e = s.global /\ Refuses(e, global_max, n)
      BY <1>6, <1>10, <3>1, <3>2, Zenon DEF Refusing
    <3>3. CASE p \in DOMAIN s.peers /\ e = s.peers[p] /\ Refuses(e, max_failures, n)
      <4>1. Refuses(e, max_failures, m)
        BY <1>9, <1>10, <3>1, <3>3, Zenon
      <4>2. p \in DOMAIN u.peers /\ u.peers[p] = s.peers[p]
        BY <1>8, <3>3, <4>1, Zenon DEF Refuses
      <4> QED
        BY <3>3, <4>1, <4>2, Zenon DEF Refusing
    <3> QED
      BY <3>1, <3>2, <3>3, Zenon DEF Refusing
  <2> QED
    BY <2>1, <2>2, Zenon
<1> QED
  BY <1>3, <1>11, BlockingIs, Zenon DEF s, u

\* An address not told to wait finds no window full, its own or that of all.
LEMMA NotFull ==
    ASSUME RouterAssumption, NEW l, IsLimiter(l), NEW p, NEW n \in Nat, retry_after(l, p, n) = 0,
           NEW c, c = AfterRetry(l, p, n)
    PROVE  /\ expired(c.global, n) \/ c.global.failures < global_max
           /\ expired(EntryOf(c, p), n) \/ EntryOf(c, p).failures < max_failures
<1> DEFINE s == sweep(l, n)
           b == Blocking(s, p, n)
<1>1. global_max \in Nat /\ max_failures \in Nat
  BY Zenon DEF RouterAssumption
<1>2. b = {}
  <2>1. b # {} => retry_after(l, p, n) > 0
    BY RetryIs, Zenon
  <2> QED
    BY <2>1
<1>3. ASSUME NEW e PROVE ~Refusing(s, p, n, e)
  BY <1>2, BlockingIs, Zenon
<1>4. /\ Thinner(l, s) /\ Thinner(l, c) /\ c.global = l.global
      /\ p \in DOMAIN c.peers => p \in DOMAIN s.peers /\ c.peers[p] = s.peers[p]
  BY SweepThins, CheckThins
<1> HIDE DEF s
<1>5. c.global \in Entry /\ c.global = s.global /\ \A q \in DOMAIN c.peers : c.peers[q] \in Entry
  BY <1>4, Zenon DEF Thinner, IsLimiter
<1>6. ~Refuses(c.global, global_max, n)
  BY <1>3, <1>5, Zenon DEF Refusing
<1>7. expired(c.global, n) \/ c.global.failures < global_max
  BY <1>1, <1>5, <1>6 DEF Refuses, Entry
<1>8. CASE p \notin DOMAIN c.peers
  BY <1>7, <1>8, Zenon DEF EntryOf, NoEntry, expired
<1>9. CASE p \in DOMAIN c.peers
  <2>1. ~Refuses(c.peers[p], max_failures, n)
    BY <1>3, <1>4, <1>9, Zenon DEF Refusing
  <2>2. expired(c.peers[p], n) \/ c.peers[p].failures < max_failures
    BY <1>1, <1>5, <1>9, <2>1 DEF Refuses, Entry
  <2> QED
    BY <1>7, <1>9, <2>2, Zenon DEF EntryOf
<1> QED
  BY <1>8, <1>9, Zenon

\* What retry_after() tells is exact.
LEMMA RetryIsExact ==
    ASSUME RouterAssumption, NEW l, IsLimiter(l), NEW p, NEW n \in Nat,
           NEW w, w = retry_after(l, p, n), w > 0,
           NEW t, t = AfterRetry(l, p, n)
    PROVE  /\ retry_after(t, p, n + w) = 0
           /\ \A d \in 0 .. w - 1 : retry_after(t, p, n + d) > 0
<1> DEFINE b == Blocking(sweep(l, n), p, n)
           c(m) == Blocking(sweep(t, m), p, m)
<1>1. window_sec \in Nat
  BY Zenon DEF RouterAssumption
<1>2. b # {} /\ w = BlockedUntil(b) - n /\ BlockedUntil(b) \in Nat
  <2>1. b = {} => w = 0
    BY RetryIs, Zenon
  <2>2. b # {} => w = BlockedUntil(b) - n /\ BlockedUntil(b) \in Nat
    BY RetryIs, Zenon
  <2> QED
    BY <2>1, <2>2
<1>3. IsLimiter(sweep(l, n)) /\ IsLimiter(t)
  BY SweepThins, CheckThins DEF Thinner
<1>4. /\ \A e \in b : e \in Entry /\ e.window_start + window_sec <= BlockedUntil(b)
      /\ \E e \in b : e.window_start + window_sec = BlockedUntil(b)
  BY <1>2, <1>3, UntilIs, Zenon
<1>5. ASSUME NEW m \in Nat, n <= m
      PROVE  \A e : e \in c(m) <=> e \in b /\ m < e.window_start + window_sec
  BY <1>5, BlockingLater
<1> HIDE DEF b
<1>6. n + w \in Nat /\ n <= n + w /\ n + w = BlockedUntil(b)
  BY <1>2
<1>7. c(n + w) = {}
  <2>1. \A e \in b : ~(n + w < e.window_start + window_sec)
    BY <1>1, <1>2, <1>4, <1>6 DEF Entry
  <2> QED
    BY <1>5, <1>6, <2>1, Zenon
<1>8. retry_after(t, p, n + w) = 0
  BY <1>3, <1>6, <1>7, RetryIs, Zenon
<1>9. ASSUME NEW d \in 0 .. w - 1 PROVE retry_after(t, p, n + d) > 0
  <2>1. n + d \in Nat /\ n <= n + d /\ n + d < BlockedUntil(b)
    BY <1>2
  <2>2. PICK e \in b : e.window_start + window_sec = BlockedUntil(b)
    BY <1>4, Zenon
  <2>3. e \in c(n + d)
    BY <1>5, <2>1, <2>2, Zenon
  <2>4. c(n + d) # {}
    BY <2>3, Zenon
  <2> QED
    BY <1>3, <2>1, <2>4, RetryIs
<1> QED
  BY <1>8, <1>9, Zenon

-----------------------------------------------------------------------------
(* The steps of the router.                                                *)

LEMMA TableOf ==
    ASSUME RouterAssumption, NEW k \in Nat, k < kSweepAt \/ k <= kMaxTracked
    PROVE  k <= Max({kSweepAt, kMaxTracked + 1}) /\ k + 1 <= Max({kSweepAt, kMaxTracked + 1})
<1> DEFINE S == {kSweepAt, kMaxTracked + 1}
<1>1. kSweepAt \in Nat /\ kMaxTracked + 1 \in Nat /\ kMaxTracked \in Nat
  BY DEF RouterAssumption
<1>2. S \subseteq {kSweepAt, kMaxTracked + 1} /\ S # {} /\ kSweepAt \in S /\ kMaxTracked + 1 \in S
  BY Zenon
<1> HIDE DEF S
<1>3. Max(S) \in Nat /\ kSweepAt <= Max(S) /\ kMaxTracked + 1 <= Max(S)
  BY <1>1, <1>2, LatestOfTwo, Zenon
<1>4. k <= Max(S) /\ k + 1 <= Max(S)
  BY <1>1, <1>3
<1> QED
  BY <1>4, Zenon DEF S

LEMMA LimiterStarts ==
    ASSUME RouterAssumption, RouterInit
    PROVE  LimiterInv
<1>1. max_failures \in Nat /\ max_failures > 0 /\ global_max \in Nat /\ global_max > 0
      /\ kSweepAt \in Nat /\ kMaxTracked \in Nat
  BY DEF RouterAssumption
<1>2. /\ limiter.peers = [p \in {} |-> NoEntry] /\ limiter.global = NoEntry
      /\ limiter = [peers |-> limiter.peers, global |-> limiter.global]
  BY Zenon DEF RouterInit, NewLimiter
<1>3. DOMAIN limiter.peers = {} /\ NoEntry \in Entry
  BY <1>2, Zenon DEF NoEntry, Entry
<1>4. IsLimiter(limiter)
  BY <1>2, <1>3, FS_EmptySet, Zenon DEF IsLimiter
<1>5. Window(<<>>, global_max, NoEntry, 0) /\ Window(<<>>, max_failures, NoEntry, 0)
  BY <1>1, WindowNew, Zenon
<1>6. \A p \in Peers : fails[p] = <<>> /\ EntryOf(limiter, p) = NoEntry
  BY <1>3, Zenon DEF RouterInit, EntryOf
<1>7. TableBounded
  <2>1. Cardinality(DOMAIN limiter.peers) = 0
    BY <1>3, FS_EmptySet, Zenon
  <2>2. 0 <= Max({kSweepAt, kMaxTracked + 1})
    BY <1>1, TableOf
  <2> QED
    BY <2>1, <2>2, Zenon DEF TableBounded
<1>8. now_sec = 0 /\ tries = <<>> /\ fails = [p \in Peers |-> fails[p]]
  BY Zenon DEF RouterInit
<1> QED
  BY <1>2, <1>4, <1>5, <1>6, <1>7, <1>8, Zenon DEF LimiterInv

\* A step that leaves the limiter thinner, small and no new failure.
LEMMA ThinnerStep ==
    ASSUME RouterAssumption, LimiterInv, Thinner(limiter, limiter'), Small(limiter'),
           fails' = Known(limiter'), tries' = tries, now_sec' = now_sec
    PROVE  LimiterInv'
<1>1. IsLimiter(limiter') /\ limiter'.global = limiter.global
  BY Zenon DEF Thinner
<1>2. /\ fails' = [p \in Peers |-> fails'[p]]
      /\ \A p \in Peers : Window(fails'[p], max_failures, EntryOf(limiter', p), now_sec)
  BY KnownWindows, Zenon
<1>3. Window(tries, global_max, limiter.global, now_sec) /\ now_sec \in Nat
  BY Zenon DEF LimiterInv
<1>4. TableBounded'
  BY TableOf, Zenon DEF Small, Tracked, TableBounded
<1> QED
  BY <1>1, <1>2, <1>3, <1>4, Zenon DEF LimiterInv

\* A step that leaves the limiter, the clock and the history alone.
LEMMA LimiterAlone ==
    ASSUME LimiterInv, UNCHANGED <<limiter, now_sec, attempts>>
    PROVE  LimiterInv'
BY Zenon DEF LimiterInv, TableBounded, attempts

LEMMA LimiterSecond ==
    ASSUME RouterAssumption, LimiterInv, Second
    PROVE  LimiterInv'
<1>1. now_sec \in Nat /\ now_sec' = now_sec + 1 /\ limiter' = limiter /\ tries' = tries /\ fails' = fails
  BY Zenon DEF LimiterInv, Second, attempts
<1>2. max_failures \in Nat /\ max_failures > 0 /\ global_max \in Nat /\ global_max > 0
  BY DEF RouterAssumption
<1>3. Window(tries, global_max, limiter.global, now_sec + 1)
  BY <1>1, <1>2, WindowLater DEF LimiterInv
<1>4. \A p \in Peers : Window(fails[p], max_failures, EntryOf(limiter, p), now_sec + 1)
  BY <1>1, <1>2, WindowLater DEF LimiterInv
<1>5. now_sec + 1 \in Nat
  BY <1>1
<1> QED
  BY <1>1, <1>3, <1>4, <1>5, Zenon DEF LimiterInv, TableBounded

\* record_failure() after a check that let the attempt through.
LEMMA LimiterFailure ==
    ASSUME RouterAssumption, LimiterInv, NEW p \in Peers, retry_after(limiter, p, now_sec) = 0,
           NEW c, c = AfterRetry(limiter, p, now_sec),
           limiter' = record_failure(c, p, now_sec), tries' = Append(tries, now_sec),
           fails' = [Known(c) EXCEPT ![p] = Append(@, now_sec)], now_sec' = now_sec
    PROVE  LimiterInv'
<1>1. now_sec \in Nat /\ IsLimiter(limiter)
  BY Zenon DEF LimiterInv
<1>2. max_failures \in Nat /\ max_failures > 0 /\ global_max \in Nat /\ global_max > 0
  BY DEF RouterAssumption
<1>3. Thinner(limiter, c) /\ Small(c)
  BY <1>1, CheckThins
<1>4. IsLimiter(c) /\ c.global = limiter.global
  BY <1>3, Zenon DEF Thinner
<1>5. /\ expired(c.global, now_sec) \/ c.global.failures < global_max
      /\ expired(EntryOf(c, p), now_sec) \/ EntryOf(c, p).failures < max_failures
  BY <1>1, NotFull
<1>6. /\ Known(c) = [q \in Peers |-> Known(c)[q]]
      /\ \A q \in Peers : Window(Known(c)[q], max_failures, EntryOf(c, q), now_sec)
  BY <1>3, KnownWindows, Zenon
<1>7. Window(tries', global_max, bump(c.global, now_sec), now_sec)
  <2>1. Window(tries, global_max, c.global, now_sec)
    BY <1>4, Zenon DEF LimiterInv
  <2> QED
    BY <1>1, <1>2, <1>5, <2>1, WindowCounts
<1>8. Window(Append(Known(c)[p], now_sec), max_failures, bump(EntryOf(c, p), now_sec), now_sec)
  BY <1>1, <1>2, <1>5, <1>6, WindowCounts
<1> DEFINE D == DOMAIN c.peers \cup {p}
<1>9. /\ limiter' = [peers |-> [q \in D |-> IF q = p THEN bump(EntryOf(c, p), now_sec) ELSE c.peers[q]],
                     global |-> bump(c.global, now_sec)]
  BY Zenon DEF record_failure, EntryOf
<1>10. /\ limiter' = [peers |-> limiter'.peers, global |-> limiter'.global]
       /\ limiter'.global = bump(c.global, now_sec)
       /\ limiter'.peers = [q \in D |-> IF q = p THEN bump(EntryOf(c, p), now_sec) ELSE c.peers[q]]
  BY <1>9
<1>11. DOMAIN limiter'.peers = D
  BY <1>10, Zenon
<1>12. bump(c.global, now_sec) \in Entry /\ bump(EntryOf(c, p), now_sec) \in Entry
  BY <1>7, <1>8, Zenon DEF Window
<1>13. IsFiniteSet(DOMAIN c.peers)
  BY <1>4 DEF IsLimiter
<1>14. IsLimiter(limiter')
  <2>1. D \subseteq Peers /\ IsFiniteSet(D)
    BY <1>4, <1>13, FS_AddElement DEF IsLimiter
  <2>2. \A q \in D : limiter'.peers[q] \in Entry
    BY <1>4, <1>10, <1>12 DEF IsLimiter
  <2>3. limiter'.peers = [q \in D |-> limiter'.peers[q]]
    BY <1>10, Zenon
  <2> HIDE DEF D
  <2> QED
    BY <1>10, <1>11, <1>12, <2>1, <2>2, <2>3 DEF IsLimiter
<1>15. ASSUME NEW q \in Peers
       PROVE  Window(fails'[q], max_failures, EntryOf(limiter', q), now_sec)
  <2>1. CASE q = p
    <3>1. fails'[q] = Append(Known(c)[p], now_sec)
      BY <1>6, <2>1, Zenon
    <3>2. EntryOf(limiter', q) = bump(EntryOf(c, p), now_sec)
      BY <1>10, <1>11, <2>1, Zenon DEF EntryOf
    <3> QED
      BY <1>8, <3>1, <3>2, Zenon
  <2>2. CASE q # p
    <3>1. fails'[q] = Known(c)[q]
      BY <1>6, <2>2, Zenon
    <3>2. EntryOf(limiter', q) = EntryOf(c, q)
      BY <1>10, <1>11, <2>2 DEF EntryOf
    <3> QED
      BY <1>6, <3>1, <3>2, Zenon
  <2> QED
    BY <2>1, <2>2, Zenon
<1>16. fails' = [q \in Peers |-> fails'[q]]
  BY <1>6, Zenon
<1>17. TableBounded'
  <2>1. Cardinality(D) = Tracked(c) \/ Cardinality(D) = Tracked(c) + 1
    BY <1>13, FS_AddElement, Zenon DEF Tracked
  <2>2. Tracked(c) <= Max({kSweepAt, kMaxTracked + 1}) /\ Tracked(c) + 1 <= Max({kSweepAt, kMaxTracked + 1})
    BY <1>3, TableOf, Zenon DEF Small
  <2> HIDE DEF D
  <2> QED
    BY <1>11, <2>1, <2>2 DEF TableBounded
<1> QED
  BY <1>1, <1>7, <1>10, <1>14, <1>15, <1>16, <1>17 DEF LimiterInv

LEMMA LimiterStep ==
    ASSUME RouterAssumption, LimiterInv, [RouterNext]_routervars
    PROVE  LimiterInv'
<1>0. now_sec \in Nat /\ IsLimiter(limiter)
  BY DEF LimiterInv
<1>1. ASSUME NEW r \in Requests, LoginBlocked(r) PROVE LimiterInv'
  <2>1. Thinner(limiter, limiter') /\ Small(limiter')
    BY <1>0, <1>1, CheckThins DEF LoginBlocked
  <2> QED
    BY <1>1, <2>1, ThinnerStep, Zenon DEF LoginBlocked
<1>2. ASSUME NEW r \in Requests, LoginTried(r) PROVE LimiterInv'
  <2> DEFINE c == AfterRetry(limiter, r.peer, now_sec)
  <2>1. Thinner(limiter, c) /\ Small(c)
    BY <1>0, CheckThins, Zenon
  <2>2. now_sec' = now_sec /\ r.peer \in Peers /\ retry_after(limiter, r.peer, now_sec) = 0
    <3>1. r.peer \in Peers
      BY Zenon DEF RouterAssumption
    <3>2. now_sec' = now_sec /\ retry_after(limiter, r.peer, now_sec) = 0
      BY <1>2, Zenon DEF LoginTried
    <3> QED
      BY <3>1, <3>2, Zenon
  <2>3. CASE limiter' = c /\ fails' = Known(c) /\ tries' = tries
    BY <2>1, <2>2, <2>3, ThinnerStep, Zenon
  <2>4. CASE /\ limiter' = record_failure(c, r.peer, now_sec) /\ tries' = Append(tries, now_sec)
             /\ fails' = [Known(c) EXCEPT ![r.peer] = Append(@, now_sec)]
    BY <2>2, <2>4, LimiterFailure
  <2>5. CASE limiter' = record_success(c, r.peer) /\ fails' = Known(limiter') /\ tries' = tries
    <3>1. IsLimiter(c)
      BY <2>1 DEF Thinner
    <3>2. Thinner(c, limiter')
      BY <2>5, <3>1, SuccessThins, Zenon
    <3>3. Thinner(limiter, limiter') /\ Small(limiter')
      BY <2>1, <3>1, <3>2, ThinnerTwice, ThinnerSmall
    <3> QED
      BY <2>2, <2>5, <3>3, ThinnerStep
  <2> QED
    BY <1>2, <2>3, <2>4, <2>5 DEF LoginTried
<1>3. ASSUME NEW r \in Requests, HandleRequest(r), ~LoginBlocked(r), ~LoginTried(r)
      PROVE  UNCHANGED <<limiter, now_sec, attempts>>
  BY <1>3 DEF HandleRequest, ForeignHost, Public, LoginRefused, Logout, Unauthenticated, Samples, Data,
              Range_, Upgrade, NotFound
<1>4. ASSUME SessionLapses \/ ClientGoes \/ UNCHANGED routervars PROVE UNCHANGED <<limiter, now_sec, attempts>>
  BY <1>4, Zenon DEF SessionLapses, ClientGoes, routervars
<1>5. CASE Second
  BY <1>5, LimiterSecond, Zenon
<1> QED
  BY <1>1, <1>2, <1>3, <1>4, <1>5, LimiterAlone DEF RouterNext

-----------------------------------------------------------------------------
\* The limiter's windows and its table agree with the failures there were, at
\* every moment of every sequence of requests and seconds (LoginLimiter).
THEOREM LimiterInvariant == RouterAssumption => (RouterSpec => []LimiterInv)
<1> SUFFICES ASSUME RouterAssumption PROVE RouterSpec => []LimiterInv
  BY Zenon
<1>1. RouterInit => LimiterInv
  BY LimiterStarts, Zenon
<1>2. LimiterInv /\ [RouterNext]_routervars => LimiterInv'
  BY LimiterStep, Zenon
<1> QED
  BY <1>1, <1>2, PTL DEF RouterSpec

\* Failed logins are bounded over any window's length, by address and in all,
\* the table is bounded and Retry-After is exact, for every number of
\* addresses, every limit and every window (LoginLimiter, make_router()).
THEOREM LoginsAreBounded == RouterAssumption => (RouterSpec => []LoginsBounded)
<1> SUFFICES ASSUME RouterAssumption PROVE RouterSpec => []LoginsBounded
  BY Zenon
<1>1. ASSUME LimiterInv PROVE LoginsBounded
  <2>1. RetryExact
    <3>1. now_sec \in Nat /\ IsLimiter(limiter)
      BY <1>1, Zenon DEF LimiterInv
    <3> QED
      BY <1>1, <3>1, RetryIsExact DEF RetryExact
  <2>2. GuessesBounded /\ PeerGuessesBounded
    BY <1>1, Zenon DEF LimiterInv, Window, GuessesBounded, PeerGuessesBounded
  <2> QED
    BY <1>1, <2>1, <2>2, Zenon DEF LimiterInv, LoginsBounded
<1>2. LimiterInv => LoginsBounded
  BY <1>1, Zenon
<1> QED
  BY <1>2, LimiterInvariant, PTL
=============================================================================
