---------------------------- MODULE WsHubProofs ------------------------------
(***************************************************************************)
(* Proofs about WsHub, for any connections, descriptors, sessions, socket  *)
(* buffers and bounds: what reaches a client is whole frames without a     *)
(* tick missed, the hub keeps to its bounds, and a client leaves for its   *)
(* session only when that has ended.                                       *)
(***************************************************************************)
EXTENDS WsHub, SequenceTheorems, FiniteSetTheorems, TLAPS

Unit == [kind : {"first", "tick", "pong", "close"}, from : Int, to : Int, part : Nat, of : Nat]

Types ==
    /\ st \in [Conns -> {"new", "client", "closed"}]
    /\ fd \in [Conns -> Fds \cup {0}] /\ sess \in [Conns -> Sessions \cup {NoAuth}]
    /\ out \in [Conns -> Seq(Unit)] /\ wire \in [Conns -> Seq(Unit)]
    /\ room \in [Conns -> 0 .. SockBuf]
    /\ in \in [Conns -> {"none", "ping", "close", "junk", "eof"}]
    /\ valid \subseteq Sessions
    /\ ticks \in Nat /\ told \in Nat /\ reg \in [Conns -> Nat]
    /\ main \in {"service", "sessions", "verify", "drop", "tick", "broadcast"}
    /\ http \in {Run} \cup [at : {"add", "flush"}, conn : Conns, seen : Nat]

\* A sample is pushed before it is told; a client came in at one pushed.
Told ==
    /\ told = IF main = "broadcast" THEN ticks - 1 ELSE ticks
    /\ \A c \in Conns : reg[c] <= ticks

\* Each client has a descriptor of its own, and so has the connection that is
\* about to become one, for which there is room.
Owners ==
    /\ \A c \in Clients : fd[c] \in Fds
    /\ \A c, d \in Clients : c # d => fd[c] # fd[d]
    /\ Cardinality(Clients) <= kMaxClients
    /\ http.at = "add" => /\ st[http.conn] = "new" /\ fd[http.conn] \in Fds
                          /\ \A d \in Clients : fd[d] # fd[http.conn]
                          /\ Cardinality(Clients) < kMaxClients

\* What a client is owed is bounded, its first frame apart.
Bounded(o) == Len(o) <= kMaxBacklog \/ \A i \in 1 .. Len(o) : o[i].kind = "first"
Backlog == \A c \in Clients : Bounded(out[c])

\* A client's stream ends with a whole frame, once what is owed has gone out;
\* who is none is owed nothing.
Complete(s) == s # <<>> => s[Len(s)].part = s[Len(s)].of
Streams ==
    \A c \in Conns : /\ Whole(Stream(c))
                     /\ IF c \in Clients THEN Complete(Stream(c)) ELSE out[c] = <<>>

\* Who drop_sessions() is about to close has no session any more.
Dropping == main = "drop" => \A g \in gone : g[2] \notin valid

HubInv == Types /\ Told /\ Owners /\ Backlog /\ Streams /\ NoTickMissed /\ Dropping

-----------------------------------------------------------------------------
(* Sequences of frames.                                                    *)

LEMMA FrameIsSeq ==
    ASSUME NEW kind \in {"first", "tick", "pong", "close"}, NEW from \in Int, NEW to \in Int, NEW n \in Nat \ {0}
    PROVE  Frame(kind, from, to, n) \in Seq(Unit)
<1>1. \A i \in 1 .. n : [kind |-> kind, from |-> from, to |-> to, part |-> i, of |-> n] \in Unit
  BY DEF Unit
<1> QED
  BY <1>1, IsASeq DEF Frame

LEMMA FrameLen ==
    ASSUME NEW kind, NEW from, NEW to, NEW n \in Nat
    PROVE  Len(Frame(kind, from, to, n)) = n
BY DEF Frame

LEMMA FrameUnit ==
    ASSUME NEW kind, NEW from, NEW to, NEW n, NEW i \in 1 .. n
    PROVE  Frame(kind, from, to, n)[i] = [kind |-> kind, from |-> from, to |-> to, part |-> i, of |-> n]
BY Zenon DEF Frame

LEMMA FrameIsWhole ==
    ASSUME NEW kind \in {"first", "tick", "pong", "close"}, NEW from \in Int, NEW to \in Int, NEW n \in Nat \ {0}
    PROVE  Whole(Frame(kind, from, to, n)) /\ Complete(Frame(kind, from, to, n))
<1> DEFINE f == Frame(kind, from, to, n)
<1>1. Len(f) = n
  BY FrameLen
<1>2. \A i \in 1 .. n : f[i] = [kind |-> kind, from |-> from, to |-> to, part |-> i, of |-> n]
  BY FrameUnit
<1> HIDE DEF f
<1>3. Whole(f)
  BY <1>1, <1>2 DEF Whole, Continues
<1>4. Complete(f)
  BY <1>1, <1>2 DEF Complete
<1> QED
  BY <1>3, <1>4, Zenon DEF f

\* A frame may be put behind a stream that ends with a whole one.
LEMMA WholeConcat ==
    ASSUME NEW s \in Seq(Unit), NEW f \in Seq(Unit), Whole(s), Complete(s), Whole(f), Complete(f)
    PROVE  Whole(s \o f) /\ Complete(s \o f)
<1> DEFINE t == s \o f
<1>1. /\ t \in Seq(Unit) /\ Len(t) = Len(s) + Len(f) /\ Len(s) \in Nat /\ Len(f) \in Nat
      /\ \A i \in 1 .. Len(s) + Len(f) : t[i] = IF i <= Len(s) THEN s[i] ELSE f[i - Len(s)]
  BY ConcatProperties, LenProperties, Zenon
<1>2. \A i \in 1 .. Len(s) : t[i] = s[i]
  BY <1>1
<1>3. \A i \in 1 .. Len(f) : t[Len(s) + i] = f[i]
  BY <1>1
<1> HIDE DEF t
<1>4. ASSUME NEW i \in 1 .. Len(t)
      PROVE  IF t[i].part = 1 THEN i > 1 => t[i - 1].part = t[i - 1].of
             ELSE i > 1 /\ Continues(t[i - 1], t[i])
  <2>1. CASE i <= Len(s)
    <3>1. i \in 1 .. Len(s) /\ t[i] = s[i] /\ (i > 1 => t[i - 1] = s[i - 1])
      BY <1>1, <1>2, <2>1, SMTT(90)
    <3> QED
      BY <3>1, Zenon DEF Whole
  <2>2. CASE i = Len(s) + 1
    <3>1. t[i] = f[1] /\ 1 \in 1 .. Len(f)
      BY <1>1, <1>3, <2>2
    <3>2. f[1].part = 1
      BY <3>1 DEF Whole
    <3>3. i > 1 => t[i - 1] = s[Len(s)] /\ s # <<>>
      BY <1>1, <1>2, <2>2
    <3> QED
      BY <3>1, <3>2, <3>3, Zenon DEF Complete
  <2>3. CASE i > Len(s) + 1
    <3> DEFINE j == i - Len(s)
    <3>1. j \in 1 .. Len(f) /\ j > 1 /\ i = Len(s) + j /\ i - 1 = Len(s) + (j - 1) /\ j - 1 \in 1 .. Len(f) /\ i > 1
      BY <1>1, <2>3
    <3>2. t[i] = f[j] /\ t[i - 1] = f[j - 1]
      BY <1>3, <3>1, SMTT(30)
    <3> QED
      BY <3>1, <3>2, Zenon DEF Whole
  <2>4. i <= Len(s) \/ i = Len(s) + 1 \/ i > Len(s) + 1
    BY <1>1
  <2> QED
    BY <2>1, <2>2, <2>3, <2>4, Zenon
<1>5. Whole(t)
  BY <1>4, SMTT(90) DEF Whole
<1>6. Complete(t)
  <2>1. CASE f = <<>>
    BY <2>1, <1>1, <1>2, EmptySeq DEF Complete
  <2>2. CASE f # <<>>
    <3>1. Len(f) \in 1 .. Len(f)
      BY <2>2, EmptySeq
    <3> QED
      BY <2>2, <3>1, <1>1, <1>3, Zenon DEF Complete
  <2> QED
    BY <2>1, <2>2, Zenon
<1> QED
  BY <1>5, <1>6, Zenon DEF t

\* What a socket took of a stream of whole frames is one, but for its last.
LEMMA WholePrefix ==
    ASSUME NEW s \in Seq(Unit), NEW t \in Seq(Unit), Whole(s \o t)
    PROVE  Whole(s)
<1>1. /\ Len(s \o t) = Len(s) + Len(t) /\ Len(s) \in Nat /\ Len(t) \in Nat
      /\ \A i \in 1 .. Len(s) + Len(t) : (s \o t)[i] = IF i <= Len(s) THEN s[i] ELSE t[i - Len(s)]
  BY ConcatProperties, LenProperties, Zenon
<1>2. \A i \in 1 .. Len(s) : (s \o t)[i] = s[i] /\ i \in 1 .. Len(s \o t)
  BY <1>1
<1>3. \A i \in 1 .. Len(s) : i > 1 => i - 1 \in 1 .. Len(s)
  BY <1>1
<1> QED
  BY <1>2, <1>3, Zenon DEF Whole

LEMMA InTurn ==
    ASSUME NEW s \in Seq(Unit), NEW a \in Seq(Unit), NEW b \in Seq(Unit)
    PROVE  (s \o a) \o b = s \o (a \o b)
BY ConcatAssociative, SMTT(30)

LEMMA NothingAdded ==
    ASSUME NEW s \in Seq(Unit)
    PROVE  s \o <<>> = s
BY ConcatEmptySeq, Zenon

-----------------------------------------------------------------------------
(* What follows the first frame.                                           *)

\* A frame without a sample changes nothing.
LEMMA ControlFollows ==
    ASSUME NEW s \in Seq(Unit), NEW f \in Seq(Unit), NEW r \in Nat, NEW n \in Nat,
           Follows(s, r, n), \A i \in 1 .. Len(f) : ~Tick(f[i])
    PROVE  Follows(s \o f, r, n)
<1> DEFINE t == s \o f
<1>1. /\ t \in Seq(Unit) /\ Len(t) = Len(s) + Len(f) /\ Len(s) \in Nat /\ Len(f) \in Nat
      /\ \A i \in 1 .. Len(s) + Len(f) : t[i] = IF i <= Len(s) THEN s[i] ELSE f[i - Len(s)]
  BY ConcatProperties, LenProperties, Zenon
<1>2. Len(s) > 0 /\ 1 \in 1 .. Len(s)
  BY EmptySeq DEF Follows
<1>3. \A i \in 1 .. Len(s) : t[i] = s[i] /\ i \in 1 .. Len(t)
  BY <1>1
<1>4. \A i \in 1 .. Len(t) : Tick(t[i]) => i \in 1 .. Len(s)
  BY <1>1
<1> HIDE DEF t
<1>5. t # <<>> /\ t[1].kind = "first" /\ t[1].to = r
  BY <1>1, <1>2, <1>3, EmptySeq DEF Follows
<1>6. \A i \in 1 .. Len(t) : Tick(t[i]) => t[i].from \in r .. n
  BY <1>3, <1>4, Zenon DEF Follows
<1>7. \A i, j \in 1 .. Len(t) : i < j /\ Tick(t[i]) /\ Tick(t[j]) => t[i].from < t[j].from
  BY <1>3, <1>4, Zenon DEF Follows
<1>8. \A m \in r + 1 .. n : \E i \in 1 .. Len(t) : Tick(t[i]) /\ t[i].from = m
  BY <1>3, SMTT(30) DEF Follows
<1> QED
  BY <1>5, <1>6, <1>7, <1>8, Zenon DEF Follows, t

LEMMA TickUnits ==
    ASSUME NEW n \in Int
    PROVE  /\ TickFrame(n) \in Seq(Unit) /\ Len(TickFrame(n)) = 2
           /\ \A i \in 1 .. 2 : TickFrame(n)[i] = [kind |-> "tick", from |-> n, to |-> n, part |-> i, of |-> 2]
           /\ Whole(TickFrame(n)) /\ Complete(TickFrame(n))
<1>1. Frame("tick", n, n, 2) \in Seq(Unit)
  BY FrameIsSeq
<1>2. Len(Frame("tick", n, n, 2)) = 2
  BY FrameLen, SMTT(90)
<1>3. \A i \in 1 .. 2 : Frame("tick", n, n, 2)[i] = [kind |-> "tick", from |-> n, to |-> n, part |-> i, of |-> 2]
  BY FrameUnit
<1>4. Whole(Frame("tick", n, n, 2)) /\ Complete(Frame("tick", n, n, 2))
  BY FrameIsWhole
<1> QED
  BY <1>1, <1>2, <1>3, <1>4, Zenon DEF TickFrame

\* The next sample goes on from the last.
LEMMA TickFollows ==
    ASSUME NEW s \in Seq(Unit), NEW r \in Nat, NEW n \in Nat, Follows(s, r, n), r <= n + 1
    PROVE  Follows(s \o TickFrame(n + 1), r, n + 1)
<1> DEFINE f == TickFrame(n + 1)  t == s \o f
<1>1. /\ f \in Seq(Unit) /\ Len(f) = 2
      /\ \A i \in 1 .. 2 : f[i] = [kind |-> "tick", from |-> n + 1, to |-> n + 1, part |-> i, of |-> 2]
  BY TickUnits
<1> HIDE DEF f
<1>2. /\ t \in Seq(Unit) /\ Len(t) = Len(s) + 2 /\ Len(s) \in Nat
      /\ \A i \in 1 .. Len(s) + 2 : t[i] = IF i <= Len(s) THEN s[i] ELSE f[i - Len(s)]
  <2>1. /\ t \in Seq(Unit) /\ Len(t) = Len(s) + Len(f)
        /\ \A i \in 1 .. Len(s) + Len(f) : t[i] = IF i <= Len(s) THEN s[i] ELSE f[i - Len(s)]
    BY <1>1, ConcatProperties, Zenon
  <2>2. Len(s) \in Nat
    BY LenProperties, Zenon
  <2> HIDE DEF t
  <2> QED
    BY <1>1, <2>1, <2>2, Zenon
<1>3. Len(s) > 0 /\ 1 \in 1 .. Len(s)
  BY EmptySeq DEF Follows
<1>4. \A i \in 1 .. Len(s) : t[i] = s[i] /\ i \in 1 .. Len(t)
  BY <1>2
<1>5. t[Len(s) + 1] = f[1] /\ t[Len(s) + 2] = f[2]
  BY <1>2
<1> HIDE DEF t
<1>6. Tick(t[Len(s) + 1]) /\ t[Len(s) + 1].from = n + 1 /\ ~Tick(t[Len(s) + 2])
  BY <1>1, <1>5 DEF Tick
<1>7. \A i \in 1 .. Len(t) : Tick(t[i]) => i \in 1 .. Len(s) \/ i = Len(s) + 1
  BY <1>2, <1>6
<1>8. \A i \in 1 .. Len(s) : Tick(t[i]) => t[i].from \in r .. n
  BY <1>4, Zenon DEF Follows
<1>9. t # <<>> /\ t[1].kind = "first" /\ t[1].to = r
  BY <1>2, <1>3, <1>4, EmptySeq DEF Follows
<1>10. \A i \in 1 .. Len(t) : Tick(t[i]) => t[i].from \in r .. n + 1
  BY <1>6, <1>7, <1>8, SMTT(30)
<1>11. ASSUME NEW i \in 1 .. Len(t), NEW j \in 1 .. Len(t), i < j, Tick(t[i]), Tick(t[j])
       PROVE  t[i].from < t[j].from
  <2>1. CASE j \in 1 .. Len(s)
    <3>1. i \in 1 .. Len(s)
      BY <1>2, <1>11, <2>1
    <3> QED
      BY <1>4, <1>11, <2>1, <3>1, Zenon DEF Follows
  <2>2. CASE j = Len(s) + 1
    <3>1. i \in 1 .. Len(s)
      BY <1>2, <1>11, <2>2
    <3> QED
      BY <1>6, <1>8, <1>11, <2>2, <3>1
  <2> QED
    BY <1>7, <1>11, <2>1, <2>2
<1>12. ASSUME NEW m \in r + 1 .. n + 1
       PROVE  \E i \in 1 .. Len(t) : Tick(t[i]) /\ t[i].from = m
  <2>1. CASE m = n + 1
    BY <1>2, <1>6, <2>1
  <2>2. CASE m # n + 1
    <3>1. m \in r + 1 .. n
      BY <2>2
    <3> QED
      BY <1>4, <3>1, SMTT(90) DEF Follows
  <2> QED
    BY <2>1, <2>2, Zenon
<1> QED
  BY <1>9, <1>10, <1>11, <1>12, Zenon DEF Follows, t, f

\* A client's first frame holds what was pushed when it came in.
LEMMA FirstFollows ==
    ASSUME NEW f \in Seq(Unit), NEW r \in Nat, NEW n \in Nat, n <= r, Len(f) > 0,
           \A i \in 1 .. Len(f) : f[i].kind = "first" /\ f[i].to = r
    PROVE  Follows(f, r, n)
<1>1. Len(f) \in Nat /\ 1 \in 1 .. Len(f)
  BY LenProperties
<1>2. \A i \in 1 .. Len(f) : ~Tick(f[i])
  BY Zenon DEF Tick
<1>3. r + 1 .. n = {}
  OBVIOUS
<1>4. f # <<>>
  BY EmptySeq
<1> QED
  BY <1>1, <1>2, <1>3, <1>4, Zenon DEF Follows

-----------------------------------------------------------------------------
(* Sending.                                                                *)

\* What the socket takes and what is owed are the stream as it was to be.
LEMMA Sending ==
    ASSUME HubAssumption, Types, NEW c \in Conns, NEW o \in Seq(Unit)
    PROVE  /\ Taken(c, o) \in 0 .. Len(o) /\ room[c] - Taken(c, o) \in 0 .. SockBuf
           /\ Sent(c, o) \in Seq(Unit) /\ Owed(c, o) \in Seq(Unit)
           /\ Len(Owed(c, o)) = Len(o) - Taken(c, o)
           /\ \A i \in 1 .. Len(Owed(c, o)) : Owed(c, o)[i] = o[Taken(c, o) + i]
           /\ Sent(c, o) \o Owed(c, o) = o
           /\ (wire[c] \o Sent(c, o)) \o Owed(c, o) = wire[c] \o o
<1> DEFINE k == Taken(c, o)
<1>1. Len(o) \in Nat /\ room[c] \in 0 .. SockBuf /\ wire[c] \in Seq(Unit)
  BY LenProperties, Zenon DEF Types
<1>2. k \in 0 .. Len(o) /\ room[c] - k \in 0 .. SockBuf
  BY <1>1 DEF Taken, HubAssumption
<1>3. Sent(c, o) = SubSeq(o, 1, k) /\ Owed(c, o) = SubSeq(o, k + 1, Len(o))
  BY Zenon DEF Sent, Owed
<1> HIDE DEF k
<1>4. \A i \in 1 .. Len(o) : o[i] \in Unit
  BY ElementOfSeq, Zenon
<1>5. SubSeq(o, 1, k) \in Seq(Unit)
  <2>1. 1 \in Int /\ k \in Int /\ \A i \in 1 .. k : o[i] \in Unit
    BY <1>1, <1>2, <1>4
  <2> QED
    BY <2>1, SubSeqProperties, Zenon
<1>6. /\ SubSeq(o, k + 1, Len(o)) \in Seq(Unit)
      /\ Len(SubSeq(o, k + 1, Len(o))) = Len(o) - k
      /\ \A i \in 1 .. Len(o) - k : SubSeq(o, k + 1, Len(o))[i] = o[k + i]
  <2>1. k + 1 \in Int /\ Len(o) \in Int /\ \A i \in k + 1 .. Len(o) : o[i] \in Unit
    BY <1>1, <1>2, <1>4
  <2> DEFINE m == k + 1  q == SubSeq(o, m, Len(o))
  <2>2. /\ q \in Seq(Unit) /\ Len(q) = IF m <= Len(o) THEN Len(o) - m + 1 ELSE 0
        /\ \A i \in 1 .. Len(o) - m + 1 : q[i] = o[m + i - 1]
    BY <2>1, SubSeqProperties
  <2> HIDE DEF q
  <2>3. ASSUME NEW i \in 1 .. Len(o) - k PROVE q[i] = o[k + i]
    <3>1. i \in 1 .. Len(o) - m + 1 /\ m + i - 1 = k + i
      BY <1>1, <1>2
    <3> QED
      BY <2>2, <3>1, Zenon
  <2> QED
    BY <1>1, <1>2, <2>2, <2>3 DEF q
<1>7. SubSeq(o, 1, k) \o SubSeq(o, k + 1, Len(o)) = o
  <2>1. 1 \in 1 .. Len(o) + 1 /\ k \in 1 - 1 .. Len(o) /\ Len(o) \in k .. Len(o)
    BY <1>1, <1>2
  <2>2. SubSeq(o, 1, k) \o SubSeq(o, k + 1, Len(o)) = SubSeq(o, 1, Len(o))
    BY <2>1, ConcatAdjacentSubSeq, Zenon
  <2> QED
    BY <2>2, SubSeqFull, Zenon
<1>8. (wire[c] \o SubSeq(o, 1, k)) \o SubSeq(o, k + 1, Len(o)) = wire[c] \o o
  <2> DEFINE a == SubSeq(o, 1, k)  b == SubSeq(o, k + 1, Len(o))  w == wire[c]
  <2>1. a \in Seq(Unit) /\ b \in Seq(Unit) /\ w \in Seq(Unit) /\ a \o b = o
    BY <1>1, <1>5, <1>6, <1>7, Zenon
  <2> HIDE DEF a, b, w
  <2>2. (w \o a) \o b = w \o (a \o b)
    BY <2>1, InTurn, ZenonT(60)
  <2>3. (w \o a) \o b = w \o o
    BY <2>1, <2>2, Zenon
  <2> QED
    BY <2>3, Zenon DEF a, b, w
<1>9. Sent(c, o) \in Seq(Unit) /\ Owed(c, o) \in Seq(Unit) /\ Len(Owed(c, o)) = Len(o) - k
  <2>1. Sent(c, o) \in Seq(Unit)
    BY <1>3, <1>5, Zenon
  <2>2. Owed(c, o) \in Seq(Unit)
    BY <1>3, <1>6, Zenon
  <2>3. Len(Owed(c, o)) = Len(o) - k
    BY <1>3, <1>6, Zenon
  <2> QED
    BY <2>1, <2>2, <2>3, Zenon
<1>10. \A i \in 1 .. Len(Owed(c, o)) : Owed(c, o)[i] = o[k + i]
  <2>1. 1 .. Len(Owed(c, o)) = 1 .. Len(o) - k
    BY <1>9, Zenon
  <2> QED
    BY <1>3, <1>6, <2>1, Zenon
<1>11. (wire[c] \o Sent(c, o)) \o Owed(c, o) = wire[c] \o o
  BY <1>3, <1>8, Zenon
<1>12. Sent(c, o) \o Owed(c, o) = o
  BY <1>3, <1>7, Zenon
<1> QED
  BY <1>2, <1>9, <1>10, <1>11, <1>12, Zenon DEF k

\* A part of what was within the bounds is.
LEMMA OwedBounded ==
    ASSUME HubAssumption, Types, NEW c \in Conns, NEW o \in Seq(Unit), Bounded(o)
    PROVE  Bounded(Owed(c, o))
<1>1. /\ Taken(c, o) \in 0 .. Len(o) /\ Len(Owed(c, o)) = Len(o) - Taken(c, o) /\ Len(o) \in Nat
      /\ \A i \in 1 .. Len(Owed(c, o)) : Owed(c, o)[i] = o[Taken(c, o) + i]
  BY Sending, LenProperties, Zenon
<1>2. CASE Len(o) <= kMaxBacklog
  BY <1>1, <1>2 DEF Bounded, HubAssumption
<1>3. CASE \A i \in 1 .. Len(o) : o[i].kind = "first"
  <2>1. \A i \in 1 .. Len(Owed(c, o)) : Taken(c, o) + i \in 1 .. Len(o)
    BY <1>1
  <2> QED
    BY <1>1, <1>3, <2>1, Zenon DEF Bounded
<1> QED
  BY <1>2, <1>3, Zenon DEF Bounded

\* A step over all the clients: who stays has been sent, or is owed, the whole
\* of o; who goes has got a part of it.
LEMMA ServeStep ==
    ASSUME HubAssumption, Types, NEW o, NEW dropped \in SUBSET Clients, Serve(o, dropped),
           \A d \in Clients \ dropped : ~Failed(d),
           NEW c \in Conns, o[c] \in Seq(Unit)
    PROVE  /\ st'[c] = IF c \in dropped THEN "closed" ELSE st[c]
           /\ wire'[c] \in Seq(Unit) /\ out'[c] \in Seq(Unit) /\ room'[c] \in 0 .. SockBuf
           /\ c \in Clients \ dropped => /\ wire'[c] \o out'[c] = wire[c] \o o[c]
                                         /\ out'[c] = Owed(c, o[c])
           /\ c \in dropped => /\ out'[c] = <<>>
                               /\ \E t \in Seq(Unit) : wire'[c] \o t = wire[c] \o o[c]
           /\ c \notin Clients => wire'[c] = wire[c] /\ out'[c] = <<>>
<1>1. /\ room[c] - Taken(c, o[c]) \in 0 .. SockBuf
      /\ Sent(c, o[c]) \in Seq(Unit) /\ Owed(c, o[c]) \in Seq(Unit)
      /\ (wire[c] \o Sent(c, o[c])) \o Owed(c, o[c]) = wire[c] \o o[c]
  BY Sending, Zenon
<1>2. wire[c] \in Seq(Unit) /\ room[c] \in 0 .. SockBuf /\ <<>> \in Seq(Unit)
  BY EmptySeq, Zenon DEF Types
<1>3. wire[c] \o Sent(c, o[c]) \in Seq(Unit)
  BY <1>1, <1>2, ConcatProperties, Zenon
<1>4. /\ wire'[c] = IF c \in Clients /\ ~Failed(c) THEN wire[c] \o Sent(c, o[c]) ELSE wire[c]
      /\ room'[c] = IF c \in Clients /\ ~Failed(c) THEN room[c] - Taken(c, o[c]) ELSE room[c]
      /\ out'[c] = IF c \in Clients \ dropped THEN Owed(c, o[c]) ELSE <<>>
      /\ st'[c] = IF c \in dropped THEN "closed" ELSE st[c]
  BY Zenon DEF Serve
<1>5. CASE c \in Clients \ dropped
  BY <1>1, <1>2, <1>3, <1>4, <1>5, Zenon
<1>6. CASE c \in dropped
  <2>1. CASE Failed(c)
    BY <1>1, <1>2, <1>4, <1>6, <2>1, Zenon
  <2>2. CASE ~Failed(c)
    BY <1>1, <1>2, <1>3, <1>4, <1>6, <2>2, Zenon
  <2> QED
    BY <2>1, <2>2, Zenon
<1>7. CASE c \notin Clients
  BY <1>1, <1>2, <1>4, <1>7, Zenon
<1> QED
  BY <1>5, <1>6, <1>7, Zenon

-----------------------------------------------------------------------------
(* What a step may do to a connection: nothing; refuse it; let it in with  *)
(* its first frame; send a client a frame, or none; send a client a part   *)
(* of that and let it go.                                                  *)

Rests(c) == st'[c] = st[c] /\ wire'[c] = wire[c] /\ out'[c] = out[c]
Refused(c) == st[c] = "new" /\ st'[c] = "closed" /\ wire'[c] = wire[c] /\ out'[c] = out[c]
Joins(c) ==
    /\ st[c] = "new" /\ http.at = "add" /\ http.conn = c /\ st'[c] = "client"
    /\ wire'[c] \o out'[c] = FirstFrame(ticks) /\ Bounded(out'[c])
Gets(c, f) ==
    /\ st[c] = "client" /\ st'[c] = "client"
    /\ wire'[c] \o out'[c] = (wire[c] \o out[c]) \o f /\ Bounded(out'[c])
Goes(c, f) ==
    /\ st[c] = "client" /\ st'[c] = "closed" /\ out'[c] = <<>>
    /\ \E t \in Seq(Unit) : wire'[c] \o t = (wire[c] \o out[c]) \o f

Plain == {<<>>, Control("pong"), Control("close")}
Handled(c) == Rests(c) \/ Refused(c) \/ Joins(c) \/ \E f \in Plain : Gets(c, f) \/ Goes(c, f)
Informed(c) == Gets(c, TickFrame(ticks)) \/ Goes(c, TickFrame(ticks))

LEMMA ControlUnits ==
    ASSUME NEW kind \in {"pong", "close"}
    PROVE  /\ Control(kind) \in Seq(Unit) /\ Whole(Control(kind)) /\ Complete(Control(kind))
           /\ \A i \in 1 .. Len(Control(kind)) : ~Tick(Control(kind)[i])
<1>1. kind \in {"first", "tick", "pong", "close"} /\ kind # "tick"
  BY Zenon
<1>2. 0 \in Int /\ 1 \in Nat \ {0} /\ 1 \in Nat
  OBVIOUS
<1>3. Frame(kind, 0, 0, 1) \in Seq(Unit)
  BY <1>1, <1>2, FrameIsSeq, Zenon
<1>4. Len(Frame(kind, 0, 0, 1)) = 1
  BY <1>2, FrameLen, ZenonT(60)
<1>5. Whole(Frame(kind, 0, 0, 1)) /\ Complete(Frame(kind, 0, 0, 1))
  BY <1>1, <1>2, FrameIsWhole, Zenon
<1>6. \A i \in 1 .. 1 : Frame(kind, 0, 0, 1)[i] = [kind |-> kind, from |-> 0, to |-> 0, part |-> i, of |-> 1]
  BY Zenon DEF Frame
<1>7. \A i \in 1 .. 1 : ~Tick(Frame(kind, 0, 0, 1)[i])
  BY <1>1, <1>6 DEF Tick
<1> QED
  BY <1>3, <1>4, <1>5, <1>7, Zenon DEF Control

LEMMA PlainFrame ==
    ASSUME NEW f \in Plain
    PROVE  f \in Seq(Unit) /\ Whole(f) /\ Complete(f) /\ \A i \in 1 .. Len(f) : ~Tick(f[i])
<1>1. CASE f = <<>>
  BY <1>1, EmptySeq DEF Whole, Complete
<1>2. CASE f \in {Control("pong"), Control("close")}
  BY <1>2, ControlUnits, Zenon
<1> QED
  BY <1>1, <1>2, Zenon DEF Plain

LEMMA FirstUnits ==
    ASSUME HubAssumption, Types, NEW n
    PROVE  /\ FirstFrame(n) \in Seq(Unit) /\ Len(FirstFrame(n)) = 3
           /\ \A i \in 1 .. 3 : FirstFrame(n)[i].kind = "first" /\ FirstFrame(n)[i].to = ticks
           /\ Whole(FirstFrame(n)) /\ Complete(FirstFrame(n)) /\ Bounded(FirstFrame(n))
           /\ FirstFrame(n) = FirstFrame(ticks)
<1> DEFINE b == IF ticks > kCatchupSamples THEN ticks - kCatchupSamples + 1 ELSE 1
           f == Frame("first", b, ticks, 3)
<1>1. FirstFrame(n) = f /\ FirstFrame(n) = FirstFrame(ticks)
  BY Zenon DEF FirstFrame
<1>2. b \in Int /\ ticks \in Int /\ 3 \in Nat \ {0} /\ 3 \in Nat /\ "first" \in {"first", "tick", "pong", "close"}
  BY DEF HubAssumption, Types
<1> HIDE DEF b
<1>3. f \in Seq(Unit)
  BY <1>2, FrameIsSeq, Zenon
<1>4. Len(f) = 3
  BY <1>2, FrameLen, Zenon
<1>5. \A i \in 1 .. 3 : f[i] = [kind |-> "first", from |-> b, to |-> ticks, part |-> i, of |-> 3]
  BY Zenon DEF Frame
<1>6. Whole(f) /\ Complete(f)
  BY <1>2, FrameIsWhole, Zenon
<1> HIDE DEF f
<1>7. \A i \in 1 .. 3 : f[i].kind = "first" /\ f[i].to = ticks
  BY <1>5
<1>8. Bounded(f)
  BY <1>4, <1>7, Zenon DEF Bounded
<1> QED
  BY <1>1, <1>3, <1>4, <1>6, <1>7, <1>8, Zenon

-----------------------------------------------------------------------------
(* What each step does to a connection.                                    *)

LEMMA Registering ==
    ASSUME Types, http.at \in {"add", "flush"}
    PROVE  http.conn \in Conns
<1>1. http # Run
  BY DEF Run
<1> QED
  BY <1>1, Zenon DEF Types

LEMMA AddHandles ==
    ASSUME HubAssumption, HubInv, Add, NEW c \in Conns
    PROVE  /\ Handled(c) /\ wire'[c] \in Seq(Unit) /\ out'[c] \in Seq(Unit) /\ room'[c] \in 0 .. SockBuf
           /\ st[c] = "client" => reg'[c] = reg[c]
           /\ Joins(c) => reg'[c] = ticks
<1> DEFINE o == FirstFrame(http.seen)
<1>1. /\ http.at = "add" /\ http.conn \in Conns /\ st[http.conn] = "new"
      /\ wire[c] \in Seq(Unit) /\ out[c] \in Seq(Unit) /\ room[c] \in 0 .. SockBuf
      /\ reg \in [Conns -> Nat]
  BY Registering, SMTT(90) DEF HubInv, Types, Owners, Add
<1>2. reg' = [reg EXCEPT ![http.conn] = ticks]
  BY Zenon DEF Add
<1>3. st[c] = "client" => reg'[c] = reg[c]
  BY <1>1, <1>2, Zenon
<1>4. Joins(c) => reg'[c] = ticks
  BY <1>1, <1>2 DEF Joins
<1>5. CASE c # http.conn \/ Failed(http.conn)
  <2>1. wire'[c] = wire[c] /\ out'[c] = out[c] /\ room'[c] = room[c]
    BY <1>1, <1>5 DEF Add, HubInv, Types
  <2>2. Rests(c) \/ Refused(c)
    BY <1>1, <1>5, <2>1 DEF Add, HubInv, Types, Rests, Refused
  <2> QED
    BY <1>1, <1>3, <1>4, <2>1, <2>2, SMTT(30) DEF Handled
<1>6. CASE c = http.conn /\ ~Failed(http.conn)
  <2>1. st'[c] = "client" /\ wire'[c] = Sent(c, o) /\ room'[c] = room[c] - Taken(c, o) /\ out'[c] = Owed(c, o)
    BY <1>1, <1>6 DEF Add, HubInv, Types
  <2>2. o \in Seq(Unit) /\ Bounded(o) /\ o = FirstFrame(ticks)
    BY FirstUnits, Zenon DEF HubInv
  <2> HIDE DEF o
  <2>3. /\ Sent(c, o) \in Seq(Unit) /\ Owed(c, o) \in Seq(Unit) /\ room[c] - Taken(c, o) \in 0 .. SockBuf
        /\ Sent(c, o) \o Owed(c, o) = o
    BY <2>2, Sending, Zenon DEF HubInv
  <2>4. Bounded(Owed(c, o))
    BY <2>2, OwedBounded, Zenon DEF HubInv
  <2>5. wire'[c] \o out'[c] = FirstFrame(ticks)
    BY <2>1, <2>2, <2>3, Zenon
  <2>6. Joins(c)
    BY <1>1, <1>6, <2>1, <2>4, <2>5, Zenon DEF Joins
  <2> QED
    BY <1>3, <1>4, <2>1, <2>3, <2>6, ZenonT(60) DEF Handled
<1> QED
  BY <1>5, <1>6, SMTT(30)

LEMMA FlushHandles ==
    ASSUME HubAssumption, HubInv, FlushOwed, NEW c \in Conns
    PROVE  Handled(c) /\ wire'[c] \in Seq(Unit) /\ out'[c] \in Seq(Unit) /\ room'[c] \in 0 .. SockBuf
<1>1. /\ http.conn \in Conns
      /\ wire[c] \in Seq(Unit) /\ out[c] \in Seq(Unit) /\ room[c] \in 0 .. SockBuf
      /\ wire \in [Conns -> Seq(Unit)] /\ out \in [Conns -> Seq(Unit)] /\ room \in [Conns -> 0 .. SockBuf]
      /\ st \in [Conns -> {"new", "client", "closed"}]
  BY Registering, SMTT(90) DEF HubInv, Types, FlushOwed
<1>2. CASE c # http.conn \/ c \notin Clients
  <2>1. wire'[c] = wire[c] /\ out'[c] = out[c] /\ room'[c] = room[c] /\ st'[c] = st[c]
    BY <1>1, <1>2 DEF FlushOwed, hub
  <2> QED
    BY <1>1, <2>1 DEF Rests, Handled
<1>3. CASE c = http.conn /\ c \in Clients
  <2>1. wire[c] \o out[c] \in Seq(Unit)
    BY <1>1, ConcatProperties, Zenon
  <2>2. (wire[c] \o out[c]) \o <<>> = wire[c] \o out[c]
    BY <2>1, NothingAdded, Zenon
  <2>3. CASE Failed(c)
    <3>1. wire'[c] = wire[c] /\ out'[c] = <<>> /\ room'[c] = room[c] /\ st'[c] = "closed" /\ st[c] = "client"
      BY <1>1, <1>3, <2>3 DEF FlushOwed, Clients
    <3>2. Goes(c, <<>>)
      BY <1>1, <2>2, <3>1, Zenon DEF Goes
    <3> QED
      BY <1>1, <3>1, <3>2, EmptySeq, SMTT(30) DEF Handled, Plain
  <2>4. CASE ~Failed(c)
    <3>1. /\ wire'[c] = wire[c] \o Sent(c, out[c]) /\ out'[c] = Owed(c, out[c])
          /\ room'[c] = room[c] - Taken(c, out[c]) /\ st'[c] = "client" /\ st[c] = "client"
      BY <1>1, <1>3, <2>4, Zenon DEF FlushOwed, Clients
    <3>2. /\ Sent(c, out[c]) \in Seq(Unit) /\ Owed(c, out[c]) \in Seq(Unit)
          /\ room[c] - Taken(c, out[c]) \in 0 .. SockBuf
          /\ (wire[c] \o Sent(c, out[c])) \o Owed(c, out[c]) = wire[c] \o out[c]
      BY <1>1, Sending, Zenon DEF HubInv
    <3>3. wire[c] \o Sent(c, out[c]) \in Seq(Unit)
      BY <1>1, <3>2, ConcatProperties
    <3>4. Bounded(Owed(c, out[c]))
      BY <1>1, <1>3, OwedBounded, Zenon DEF HubInv, Backlog
    <3>5. Gets(c, <<>>)
      BY <2>2, <3>1, <3>2, <3>4, Zenon DEF Gets
    <3> QED
      BY <3>1, <3>2, <3>3, <3>5, Zenon DEF Handled, Plain
  <2> QED
    BY <2>3, <2>4, Zenon
<1> QED
  BY <1>2, <1>3

\* A step over the clients that sends each of them f(c) after what it is owed.
LEMMA ServeSends ==
    ASSUME HubAssumption, HubInv, NEW o, NEW dropped \in SUBSET Clients, Serve(o, dropped),
           \A d \in Clients \ dropped : ~Failed(d),
           NEW c \in Conns, NEW f \in Seq(Unit), o[c] = out[c] \o f,
           c \in Clients \ dropped => Bounded(Owed(c, out[c] \o f))
    PROVE  /\ wire'[c] \in Seq(Unit) /\ out'[c] \in Seq(Unit) /\ room'[c] \in 0 .. SockBuf
           /\ IF c \in Clients THEN Gets(c, f) \/ Goes(c, f) ELSE Rests(c)
<1>1. wire[c] \in Seq(Unit) /\ out[c] \in Seq(Unit)
  BY SMTT(30) DEF HubInv, Types
<1>2. out[c] \o f \in Seq(Unit)
  BY <1>1, ConcatProperties
<1>3. (wire[c] \o out[c]) \o f = wire[c] \o (out[c] \o f)
  BY <1>1, InTurn, Zenon
<1>4. o[c] \in Seq(Unit)
  BY <1>2, Zenon
<1>5. /\ st'[c] = IF c \in dropped THEN "closed" ELSE st[c]
      /\ wire'[c] \in Seq(Unit) /\ out'[c] \in Seq(Unit) /\ room'[c] \in 0 .. SockBuf
      /\ c \in Clients \ dropped => /\ wire'[c] \o out'[c] = wire[c] \o o[c]
                                    /\ out'[c] = Owed(c, o[c])
      /\ c \in dropped => /\ out'[c] = <<>>
                          /\ \E t \in Seq(Unit) : wire'[c] \o t = wire[c] \o o[c]
      /\ c \notin Clients => wire'[c] = wire[c] /\ out'[c] = <<>>
  BY <1>4, ServeStep, Zenon DEF HubInv
<1>6. CASE c \in Clients \ dropped
  <2>1. st[c] = "client" /\ st'[c] = "client"
    BY <1>5, <1>6 DEF Clients
  <2>2. wire'[c] \o out'[c] = (wire[c] \o out[c]) \o f
    BY <1>3, <1>5, <1>6, Zenon
  <2>3. Bounded(out'[c])
    BY <1>5, <1>6, Zenon
  <2> QED
    BY <1>5, <1>6, <2>1, <2>2, <2>3, ZenonT(60) DEF Gets
<1>7. CASE c \in dropped
  <2>1. st[c] = "client" /\ st'[c] = "closed" /\ c \in Clients
    BY <1>5, <1>7 DEF Clients
  <2>2. \E t \in Seq(Unit) : wire'[c] \o t = (wire[c] \o out[c]) \o f
    BY <1>3, <1>5, <1>7, Zenon
  <2> QED
    BY <1>5, <1>7, <2>1, <2>2, ZenonT(60) DEF Goes
<1>8. CASE c \notin Clients
  <2>1. out[c] = <<>> /\ c \notin dropped
    BY <1>8, Zenon DEF HubInv, Streams
  <2> QED
    BY <1>5, <1>8, <2>1, ZenonT(60) DEF Rests
<1> QED
  BY <1>6, <1>7, <1>8, Zenon

\* What service() answers is what is owed and one short frame, or none.
LEMMA ReplyIsPlain ==
    ASSUME Types, NEW c \in Conns
    PROVE  \E f \in Plain : Reply(c) = out[c] \o f /\ (in[c] # "ping" /\ in[c] # "close" => Reply(c) = out[c])
<1>1. out[c] \in Seq(Unit) /\ in[c] \in {"none", "ping", "close", "junk", "eof"}
  BY Zenon DEF Types
<1>2. out[c] \o <<>> = out[c]
  BY <1>1, NothingAdded, Zenon
<1>3. CASE in[c] = "ping"
  <2>1. Reply(c) = out[c] \o Control("pong")
    BY <1>3 DEF Reply, Queued
  <2> QED
    BY <1>3, <2>1, Zenon DEF Plain
<1>4. CASE in[c] = "close" /\ Owed(c, out[c]) = <<>>
  <2>1. Reply(c) = out[c] \o Control("close")
    BY <1>4 DEF Reply, Queued
  <2> QED
    BY <1>4, <2>1, Zenon DEF Plain
<1>5. CASE in[c] # "ping" /\ ~(in[c] = "close" /\ Owed(c, out[c]) = <<>>)
  <2>1. Reply(c) = out[c]
    BY <1>5 DEF Reply
  <2> QED
    BY <1>2, <2>1, Zenon DEF Plain
<1> QED
  BY <1>3, <1>4, <1>5, Zenon

LEMMA ServiceHandles ==
    ASSUME HubAssumption, HubInv, Service, NEW c \in Conns
    PROVE  Handled(c) /\ wire'[c] \in Seq(Unit) /\ out'[c] \in Seq(Unit) /\ room'[c] \in 0 .. SockBuf
<1> DEFINE o == [d \in Conns |-> Reply(d)]  dropped == {d \in Clients : LetGo(d)}
<1>1. Serve(o, dropped) /\ dropped \in SUBSET Clients
  BY DEF Service
<1>2. \A d \in Clients \ dropped : ~Failed(d)
  BY Zenon DEF LetGo, Failed
<1>3. PICK f \in Plain : Reply(c) = out[c] \o f /\ (in[c] # "ping" /\ in[c] # "close" => Reply(c) = out[c])
  BY ReplyIsPlain, Zenon DEF HubInv
<1>4. f \in Seq(Unit) /\ o[c] = out[c] \o f
  BY <1>3, PlainFrame, Zenon
<1>5. ASSUME c \in Clients \ dropped
      PROVE  Bounded(Owed(c, out[c] \o f))
  <2>1. in[c] # "close"
    BY <1>5, Zenon DEF LetGo
  <2>2. CASE in[c] = "ping"
    <3>1. Len(Owed(c, Reply(c))) <= kMaxBacklog
      BY <1>5, <2>2 DEF LetGo, Keeps
    <3>2. Len(Owed(c, out[c] \o f)) <= kMaxBacklog
      BY <1>3, <3>1, Zenon
    <3> QED
      BY <3>2, Zenon DEF Bounded
  <2>3. CASE in[c] # "ping"
    <3>1. out[c] \in Seq(Unit) /\ Bounded(out[c]) /\ out[c] \o f = out[c]
      BY <1>3, <1>5, <2>1, <2>3, Zenon DEF HubInv, Types, Backlog
    <3>2. Bounded(Owed(c, out[c]))
      BY <3>1, OwedBounded, Zenon DEF HubInv
    <3> QED
      BY <3>1, <3>2, Zenon
  <2> QED
    BY <2>2, <2>3
<1> HIDE DEF o, dropped
<1>6. /\ wire'[c] \in Seq(Unit) /\ out'[c] \in Seq(Unit) /\ room'[c] \in 0 .. SockBuf
      /\ IF c \in Clients THEN Gets(c, f) \/ Goes(c, f) ELSE Rests(c)
  BY <1>1, <1>2, <1>4, <1>5, ServeSends, Zenon
<1> QED
  BY <1>3, <1>6, Zenon DEF Handled

LEMMA BroadcastInforms ==
    ASSUME HubAssumption, HubInv, Broadcast, NEW c \in Conns
    PROVE  /\ wire'[c] \in Seq(Unit) /\ out'[c] \in Seq(Unit) /\ room'[c] \in 0 .. SockBuf
           /\ IF c \in Clients THEN Informed(c) ELSE Rests(c)
<1> DEFINE f == TickFrame(ticks)
           o == [d \in Conns |-> Queued(d, f)]  dropped == {d \in Clients : ~Keeps(d, Queued(d, f))}
<1>1. Serve(o, dropped) /\ dropped \in SUBSET Clients
  BY DEF Broadcast
<1>2. \A d \in Clients \ dropped : ~Failed(d)
  BY Zenon DEF Keeps
<1>3. ticks \in Int
  BY DEF HubInv, Types
<1>4. f \in Seq(Unit)
  BY <1>3, TickUnits, Zenon
<1> HIDE DEF f
<1>5. o[c] = out[c] \o f
  BY Zenon DEF Queued
<1>6. ASSUME c \in Clients \ dropped
      PROVE  Bounded(Owed(c, out[c] \o f))
  BY <1>6, Zenon DEF Keeps, Queued, Bounded
<1> HIDE DEF o, dropped
<1>7. /\ wire'[c] \in Seq(Unit) /\ out'[c] \in Seq(Unit) /\ room'[c] \in 0 .. SockBuf
      /\ IF c \in Clients THEN Gets(c, f) \/ Goes(c, f) ELSE Rests(c)
  BY <1>1, <1>2, <1>4, <1>5, <1>6, ServeSends, ZenonT(60)
<1> QED
  BY <1>7, Zenon DEF Informed, f

LEMMA DropHandles ==
    ASSUME HubAssumption, HubInv, DropSessions, NEW c \in Conns
    PROVE  Handled(c) /\ wire'[c] \in Seq(Unit) /\ out'[c] \in Seq(Unit)
<1>1. wire[c] \in Seq(Unit) /\ out[c] \in Seq(Unit) /\ <<>> \in Seq(Unit)
  BY EmptySeq, Zenon DEF HubInv, Types
<1>2. CASE c \in Clients /\ Ended(c)
  <2>1. st[c] = "client" /\ st'[c] = "closed" /\ out'[c] = <<>>
    BY <1>2, SMTT(30) DEF DropSessions, Clients
  <2>2. wire'[c] = IF Failed(c) THEN wire[c] ELSE wire[c] \o Sent(c, Closing(c))
    BY <1>2, SMTT(30) DEF DropSessions
  <2>3. (wire[c] \o out[c]) \in Seq(Unit)
    BY <1>1, ConcatProperties
  <2>4. (wire[c] \o out[c]) \o <<>> = wire[c] \o out[c] /\ wire[c] \o <<>> = wire[c]
    BY <1>1, <2>3, NothingAdded, Zenon
  <2>5. CASE Failed(c)
    <3>1. wire'[c] = wire[c]
      BY <2>2, <2>5, Zenon
    <3>2. Goes(c, <<>>)
      BY <1>1, <2>1, <2>4, <3>1, ZenonT(60) DEF Goes
    <3> QED
      BY <1>1, <2>1, <3>1, <3>2, Zenon DEF Handled, Plain
  <2>6. CASE ~Failed(c) /\ out[c] # <<>>
    <3>1. wire'[c] = wire[c] \o Sent(c, <<>>)
      BY <2>2, <2>6, Zenon DEF Closing
    <3>2. Sent(c, <<>>) \in Seq(Unit) /\ Owed(c, <<>>) \in Seq(Unit) /\ Len(Owed(c, <<>>)) = Len(<<>>) - Taken(c, <<>>)
          /\ Taken(c, <<>>) \in 0 .. Len(<<>>) /\ Sent(c, <<>>) \o Owed(c, <<>>) = <<>>
      BY <1>1, Sending, Zenon DEF HubInv
    <3>3. Owed(c, <<>>) = <<>>
      BY <3>2, EmptySeq
    <3>4. Sent(c, <<>>) = <<>>
      BY <3>2, <3>3, NothingAdded, Zenon
    <3>5. wire'[c] = wire[c]
      BY <2>4, <3>1, <3>4, ZenonT(60)
    <3>6. Goes(c, <<>>)
      BY <1>1, <2>1, <2>4, <3>5, Zenon DEF Goes
    <3> QED
      BY <1>1, <2>1, <3>5, <3>6, Zenon DEF Handled, Plain
  <2>7. CASE ~Failed(c) /\ out[c] = <<>>
    <3> DEFINE f == Control("close")
    <3>1. f \in Plain /\ f \in Seq(Unit)
      BY PlainFrame, Zenon DEF Plain
    <3>2. wire'[c] = wire[c] \o Sent(c, f)
      BY <2>2, <2>7, Zenon DEF Closing
    <3> HIDE DEF f
    <3>3. Sent(c, f) \in Seq(Unit) /\ Owed(c, f) \in Seq(Unit) /\ (wire[c] \o Sent(c, f)) \o Owed(c, f) = wire[c] \o f
      BY <3>1, Sending, Zenon DEF HubInv
    <3>4. wire[c] \o Sent(c, f) \in Seq(Unit)
      BY <1>1, <3>3, ConcatProperties
    <3>5. wire'[c] \o Owed(c, f) = (wire[c] \o out[c]) \o f
      BY <2>4, <2>7, <3>2, <3>3, ZenonT(60)
    <3>6. Goes(c, f)
      BY <2>1, <3>3, <3>5, Zenon DEF Goes
    <3> QED
      BY <1>1, <2>1, <3>1, <3>2, <3>4, <3>6, ZenonT(60) DEF Handled
  <2> QED
    BY <2>5, <2>6, <2>7, ZenonT(60)
<1>3. CASE ~(c \in Clients /\ Ended(c))
  <2>1. wire'[c] = wire[c] /\ out'[c] = out[c] /\ st'[c] = st[c]
    BY <1>3 DEF DropSessions
  <2> QED
    BY <1>1, <2>1, Zenon DEF Rests, Handled
<1> QED
  BY <1>2, <1>3, Zenon

-----------------------------------------------------------------------------
(* What that makes of its stream.                                          *)

LEMMA StreamStep ==
    ASSUME HubAssumption, HubInv, NEW c \in Conns, wire'[c] \in Seq(Unit), out'[c] \in Seq(Unit),
           Handled(c) \/ Informed(c)
    PROVE  /\ Whole(wire'[c] \o out'[c])
           /\ st'[c] = "client" => Complete(wire'[c] \o out'[c]) /\ Bounded(out'[c])
           /\ st'[c] # "client" => out'[c] = <<>>
<1> DEFINE s == wire[c] \o out[c]
<1>1. wire[c] \in Seq(Unit) /\ out[c] \in Seq(Unit) /\ ticks \in Int
  BY DEF HubInv, Types
<1>2. s \in Seq(Unit)
  BY <1>1, ConcatProperties, Zenon
<1>3. Whole(s) /\ IF st[c] = "client" THEN Complete(s) /\ Bounded(out[c]) ELSE out[c] = <<>>
  BY Zenon DEF HubInv, Streams, Stream, Clients, Backlog
<1>4. CASE Rests(c) \/ Refused(c)
  <2>1. wire'[c] = wire[c] /\ out'[c] = out[c]
    BY <1>4, Zenon DEF Rests, Refused
  <2>2. st'[c] = st[c] \/ (st[c] = "new" /\ st'[c] = "closed")
    BY <1>4, Zenon DEF Rests, Refused
  <2>3. (st'[c] = "client") <=> (st[c] = "client")
    BY <2>2, Zenon
  <2> QED
    BY <1>3, <2>1, <2>3, Zenon
<1>5. CASE Joins(c)
  <2>1. Whole(FirstFrame(ticks)) /\ Complete(FirstFrame(ticks))
    BY FirstUnits, Zenon DEF HubInv
  <2> QED
    BY <1>5, <2>1, Zenon DEF Joins
<1>6. ASSUME NEW f \in Plain \cup {TickFrame(ticks)}, Gets(c, f) \/ Goes(c, f)
      PROVE  /\ Whole(wire'[c] \o out'[c])
             /\ st'[c] = "client" => Complete(wire'[c] \o out'[c]) /\ Bounded(out'[c])
             /\ st'[c] # "client" => out'[c] = <<>>
  <2>1. f \in Seq(Unit) /\ Whole(f) /\ Complete(f)
    BY <1>1, PlainFrame, TickUnits, Zenon
  <2>2. st[c] = "client"
    BY <1>6, Zenon DEF Gets, Goes
  <2>3. Whole(s \o f) /\ Complete(s \o f)
    BY <1>2, <1>3, <2>1, <2>2, WholeConcat, Zenon
  <2>4. CASE Gets(c, f)
    BY <2>3, <2>4, Zenon DEF Gets
  <2>5. CASE Goes(c, f)
    <3>1. PICK t \in Seq(Unit) : wire'[c] \o t = s \o f
      BY <2>5, Zenon DEF Goes
    <3>2. Whole(wire'[c] \o t)
      BY <2>3, <3>1, Zenon
    <3>3. Whole(wire'[c])
      BY <3>2, WholePrefix, Zenon
    <3>4. wire'[c] \o <<>> = wire'[c]
      BY NothingAdded, Zenon
    <3>5. out'[c] = <<>> /\ st'[c] = "closed"
      BY <2>5, Zenon DEF Goes
    <3>6. Whole(wire'[c] \o out'[c])
      BY <3>3, <3>4, <3>5, Zenon
    <3> QED
      BY <3>5, <3>6
  <2> QED
    BY <1>6, <2>4, <2>5, Zenon
<1> QED
  BY <1>4, <1>5, <1>6, ZenonT(60) DEF Handled, Informed

LEMMA HandledFollows ==
    ASSUME HubAssumption, HubInv, NEW c \in Conns, Handled(c), st'[c] = "client",
           st[c] = "client" => reg'[c] = reg[c], Joins(c) => reg'[c] = ticks
    PROVE  Follows(wire'[c] \o out'[c], reg'[c], told)
<1> DEFINE s == wire[c] \o out[c]
<1>1. wire[c] \in Seq(Unit) /\ out[c] \in Seq(Unit) /\ reg[c] \in Nat /\ told \in Nat /\ ticks \in Nat
  BY SMTT(30) DEF HubInv, Types
<1>2. s \in Seq(Unit)
  BY <1>1, ConcatProperties
<1>3. st[c] = "client" => Follows(s, reg[c], told)
  BY Zenon DEF HubInv, NoTickMissed, Stream, Clients
<1>4. CASE Rests(c)
  BY <1>3, <1>4, Zenon DEF Rests
<1>5. CASE Refused(c)
  BY <1>5 DEF Refused
<1>6. CASE Joins(c)
  <2> DEFINE f == FirstFrame(ticks)
  <2>1. f \in Seq(Unit) /\ Len(f) = 3 /\ \A i \in 1 .. 3 : f[i].kind = "first" /\ f[i].to = ticks
    BY FirstUnits, Zenon DEF HubInv
  <2> HIDE DEF f
  <2>2. told <= ticks
    BY <1>1 DEF HubInv, Told
  <2>3. Len(f) > 0 /\ \A i \in 1 .. Len(f) : f[i].kind = "first" /\ f[i].to = ticks
    BY <2>1
  <2>4. Follows(f, ticks, told)
    BY <1>1, <2>1, <2>2, <2>3, FirstFollows, ZenonT(60)
  <2> QED
    BY <1>6, <2>4, Zenon DEF Joins, f
<1>7. ASSUME NEW f \in Plain, Gets(c, f)
      PROVE  Follows(wire'[c] \o out'[c], reg'[c], told)
  <2>1. f \in Seq(Unit) /\ \A i \in 1 .. Len(f) : ~Tick(f[i])
    BY PlainFrame, Zenon
  <2>2. st[c] = "client" /\ wire'[c] \o out'[c] = s \o f
    BY <1>7, Zenon DEF Gets
  <2>3. Follows(s \o f, reg[c], told)
    BY <1>1, <1>2, <1>3, <2>1, <2>2, ControlFollows, ZenonT(60)
  <2> QED
    BY <2>2, <2>3, Zenon
<1>8. ASSUME NEW f, Goes(c, f)
      PROVE  FALSE
  BY <1>8 DEF Goes
<1> QED
  BY <1>4, <1>5, <1>6, <1>7, <1>8, ZenonT(60) DEF Handled

LEMMA InformedFollows ==
    ASSUME HubAssumption, HubInv, main = "broadcast", NEW c \in Conns, Informed(c), st'[c] = "client"
    PROVE  Follows(wire'[c] \o out'[c], reg[c], ticks)
<1> DEFINE s == wire[c] \o out[c]
<1>1. wire[c] \in Seq(Unit) /\ out[c] \in Seq(Unit) /\ reg[c] \in Nat /\ told \in Nat /\ ticks \in Nat
  BY Zenon DEF HubInv, Types
<1>2. s \in Seq(Unit)
  BY <1>1, ConcatProperties
<1>3. Gets(c, TickFrame(ticks))
  BY Zenon DEF Informed, Goes
<1>4. st[c] = "client" /\ wire'[c] \o out'[c] = s \o TickFrame(ticks)
  BY <1>3, Zenon DEF Gets
<1>5. Follows(s, reg[c], told)
  BY <1>4, Zenon DEF HubInv, NoTickMissed, Stream, Clients
<1>6. ticks = told + 1 /\ reg[c] <= told + 1
  BY <1>1 DEF HubInv, Told
<1>7. Follows(s \o TickFrame(told + 1), reg[c], told + 1)
  BY <1>1, <1>2, <1>5, <1>6, TickFollows, Zenon
<1> QED
  BY <1>4, <1>6, <1>7, Zenon

LEMMA StreamsAgain ==
    ASSUME HubAssumption, HubInv, Types', \A c \in Conns : Handled(c) \/ Informed(c)
    PROVE  Streams' /\ Backlog'
<1>1. ASSUME NEW c \in Conns
      PROVE  /\ Whole(wire'[c] \o out'[c])
             /\ st'[c] = "client" => Complete(wire'[c] \o out'[c]) /\ Bounded(out'[c])
             /\ st'[c] # "client" => out'[c] = <<>>
  <2>1. wire'[c] \in Seq(Unit) /\ out'[c] \in Seq(Unit)
    BY Zenon DEF Types
  <2> QED
    BY <2>1, StreamStep, Zenon
<1> QED
  BY <1>1, Zenon DEF Streams, Backlog, Stream, Clients

LEMMA NoneMissedAgain ==
    ASSUME HubAssumption, HubInv, told' = told,
           \A c \in Conns : /\ Handled(c)
                            /\ st[c] = "client" => reg'[c] = reg[c]
                            /\ Joins(c) => reg'[c] = ticks
    PROVE  NoTickMissed'
<1>1. ASSUME NEW c \in Conns, st'[c] = "client"
      PROVE  Follows(wire'[c] \o out'[c], reg'[c], told)
  BY <1>1, HandledFollows, Zenon
<1> QED
  BY <1>1, Zenon DEF NoTickMissed, Stream, Clients

LEMMA NoneMissedTold ==
    ASSUME HubAssumption, HubInv, main = "broadcast", told' = ticks, reg' = reg,
           \A c \in Conns : IF c \in Clients THEN Informed(c) ELSE Rests(c)
    PROVE  NoTickMissed'
<1>1. ASSUME NEW c \in Conns, st'[c] = "client"
      PROVE  Follows(wire'[c] \o out'[c], reg[c], ticks)
  <2>1. c \in Clients
    BY <1>1 DEF Rests, Clients
  <2> QED
    BY <1>1, <2>1, InformedFollows, Zenon
<1> QED
  BY <1>1, Zenon DEF NoTickMissed, Stream, Clients

-----------------------------------------------------------------------------
(* Who is a client.                                                        *)

LEMMA ClientsFinite ==
    ASSUME HubAssumption
    PROVE  IsFiniteSet(Clients) /\ Cardinality(Clients) \in Nat
<1>1. IsFiniteSet(Clients)
  BY FS_Subset DEF HubAssumption, Clients
<1> QED
  BY <1>1, FS_CardinalityType

\* Clients only leave, and who is about to come in still is.
LEMMA OwnersLeave ==
    ASSUME HubAssumption, HubInv, fd' = fd, http' = http \/ http'.at # "add",
           \A c \in Conns : /\ st'[c] = "client" => st[c] = "client"
                            /\ st[c] = "new" => st'[c] = "new"
    PROVE  Owners'
<1>1. Clients' \subseteq Clients
  BY DEF Clients
<1>2. Cardinality(Clients') <= Cardinality(Clients) /\ Cardinality(Clients') \in Nat /\ Cardinality(Clients) \in Nat
  BY <1>1, ClientsFinite, FS_Subset, FS_CardinalityType
<1>3. (\A c \in Clients : fd[c] \in Fds)' /\ (\A c, d \in Clients : c # d => fd[c] # fd[d])'
  BY <1>1 DEF HubInv, Owners
<1>4. (Cardinality(Clients) <= kMaxClients)'
  BY <1>2 DEF HubInv, Owners, HubAssumption
<1>5. ASSUME http'.at = "add"
      PROVE  /\ st'[http'.conn] = "new" /\ fd'[http'.conn] \in Fds
             /\ \A d \in Clients' : fd'[d] # fd'[http'.conn]
             /\ Cardinality(Clients') < kMaxClients
  <2>1. http' = http /\ http.at = "add"
    BY <1>5
  <2>2. http.conn \in Conns
    BY <2>1, Registering DEF HubInv
  <2>3. st[http.conn] = "new" /\ fd[http.conn] \in Fds /\ \A d \in Clients : fd[d] # fd[http.conn]
    BY <2>1 DEF HubInv, Owners
  <2>4. Cardinality(Clients') < kMaxClients
    BY <1>2, <2>1 DEF HubInv, Owners, HubAssumption
  <2> QED
    BY <1>1, <2>1, <2>2, <2>3, <2>4, SMTT(30)
<1> QED
  BY <1>3, <1>4, <1>5 DEF Owners

LEMMA OwnersUpgrade ==
    ASSUME HubAssumption, HubInv, NEW c \in Conns, Upgrade(c)
    PROVE  Owners'
<1>1. /\ st' = st /\ st[c] = "new" /\ http' = [at |-> "add", conn |-> c, seen |-> ticks]
      /\ Cardinality(Clients) < kMaxClients
  BY Zenon DEF Upgrade
<1>2. PICK f \in Fds : (\A d \in Clients : fd[d] # f) /\ fd' = [fd EXCEPT ![c] = f]
  BY Zenon DEF Upgrade
<1>3. Clients' = Clients /\ c \notin Clients /\ fd \in [Conns -> Fds \cup {0}]
  BY <1>1 DEF Clients, HubInv, Types
<1>4. fd'[c] = f /\ \A d \in Clients : fd'[d] = fd[d]
  BY <1>2, <1>3 DEF Clients
<1>5. Cardinality(Clients) \in Nat
  BY ClientsFinite, Zenon
<1>6. (\A d \in Clients : fd[d] \in Fds)' /\ (\A b, d \in Clients : b # d => fd[b] # fd[d])'
  BY <1>3, <1>4 DEF HubInv, Owners
<1>7. (Cardinality(Clients) <= kMaxClients)'
  BY <1>3 DEF HubInv, Owners
<1>8. http'.at = "add" /\ http'.conn = c
  BY <1>1, Zenon
<1> QED
  BY <1>1, <1>2, <1>3, <1>4, <1>6, <1>7, <1>8, SMTT(30) DEF Owners

LEMMA OwnersAdd ==
    ASSUME HubAssumption, HubInv, Add
    PROVE  Owners'
<1> DEFINE c == http.conn
<1>1. /\ c \in Conns /\ st[c] = "new" /\ fd[c] \in Fds /\ \A d \in Clients : fd[d] # fd[c]
      /\ Cardinality(Clients) < kMaxClients /\ st \in [Conns -> {"new", "client", "closed"}]
  BY Registering, SMTT(90) DEF HubInv, Owners, Types, Add
<1>2. fd' = fd /\ http'.at # "add"
  <2>1. http' = Run \/ http' = [at |-> "flush", conn |-> c, seen |-> 0]
    BY ZenonT(60) DEF Add
  <2>2. http'.at # "add"
    BY <2>1, SMTT(30) DEF Run
  <2> QED
    BY <2>2, SMTT(90) DEF Add
<1>3. Clients' \subseteq Clients \cup {c}
  BY <1>1 DEF Add, Clients
<1>4. Cardinality(Clients) \in Nat /\ IsFiniteSet(Clients)
  BY ClientsFinite
<1>5. IsFiniteSet(Clients \cup {c}) /\ Cardinality(Clients \cup {c}) <= Cardinality(Clients) + 1
  <2>1. /\ IsFiniteSet(Clients \cup {c})
        /\ Cardinality(Clients \cup {c}) = IF c \in Clients THEN Cardinality(Clients) ELSE Cardinality(Clients) + 1
    BY <1>4, FS_AddElement, Zenon
  <2> QED
    BY <1>4, <2>1
<1>6. Cardinality(Clients') <= Cardinality(Clients \cup {c}) /\ Cardinality(Clients') \in Nat
      /\ Cardinality(Clients \cup {c}) \in Nat
  BY <1>3, <1>5, FS_Subset, FS_CardinalityType, SMTT(30)
<1>7. (Cardinality(Clients) <= kMaxClients)'
  BY <1>1, <1>4, <1>5, <1>6, SMTT(30) DEF HubAssumption
<1>8. (\A d \in Clients : fd[d] \in Fds)' /\ (\A b, d \in Clients : b # d => fd[b] # fd[d])'
  BY <1>1, <1>2, <1>3 DEF HubInv, Owners
<1> QED
  BY <1>2, <1>7, <1>8, SMTT(90) DEF Owners

-----------------------------------------------------------------------------
(* The invariant, step by step.                                            *)

LEMMA StreamsRest ==
    ASSUME HubAssumption, HubInv, Types', UNCHANGED <<st, wire, out, reg, told>>
    PROVE  Streams' /\ Backlog' /\ NoTickMissed'
<1>1. \A c \in Conns : Handled(c) /\ reg'[c] = reg[c] /\ ~Joins(c)
  BY ZenonT(30) DEF Handled, Rests, Joins
<1> QED
  BY <1>1, StreamsAgain, NoneMissedAgain, Zenon

\* The steps of the HTTP thread, of the loop and of the peers that send nothing.
LEMMA QuietSteps ==
    ASSUME HubAssumption, HubInv,
           \/ \E c \in Conns : Upgrade(c) \/ PeerReads(c) \/ PeerSends(c)
           \/ FlushTimesOut \/ \E s \in Sessions : Logout(s) \/ Expire(s)
           \/ DropCollect \/ DropVerify \/ Push \/ IdleTick \/ UNCHANGED vars
    PROVE  HubInv'
<1> SUFFICES Types' /\ Told' /\ Owners' /\ Dropping' /\ UNCHANGED <<st, wire, out, reg, told>>
  BY StreamsRest, Zenon DEF HubInv
<1> USE DEF peers, hub, loop
<1>1. ASSUME NEW c \in Conns, Upgrade(c)
      PROVE  Types' /\ Told' /\ Owners' /\ Dropping' /\ UNCHANGED <<st, wire, out, reg, told>>
  <2>1. Types'
    BY <1>1, SMTT(30) DEF Upgrade, HubInv, Types
  <2>2. Told' /\ Dropping' /\ UNCHANGED <<st, wire, out, reg, told>>
    BY <1>1, Zenon DEF Upgrade, HubInv, Told, Dropping
  <2>3. Owners'
    BY <1>1, OwnersUpgrade
  <2> QED
    BY <2>1, <2>2, <2>3, SMTT(30)
<1>2. ASSUME NEW c \in Conns, PeerReads(c) \/ PeerSends(c)
      PROVE  Types' /\ Told' /\ Owners' /\ Dropping' /\ UNCHANGED <<st, wire, out, reg, told>>
  <2>1. Types'
    <3>1. CASE PeerReads(c)
      <4>1. room' = [room EXCEPT ![c] = room[c] + 1] /\ room[c] < SockBuf /\ room[c] \in 0 .. SockBuf
        BY <3>1 DEF PeerReads, HubInv, Types
      <4>2. room' \in [Conns -> 0 .. SockBuf]
        BY <4>1, SMTT(30) DEF HubInv, Types, HubAssumption
      <4> QED
        BY <3>1, <4>2, SMTT(30) DEF PeerReads, HubInv, Types
    <3>2. CASE PeerSends(c)
      BY <3>2, SMTT(30) DEF PeerSends, HubInv, Types
    <3> QED
      BY <1>2, <3>1, <3>2, SMTT(90)
  <2>2. Told' /\ Dropping' /\ UNCHANGED <<st, wire, out, reg, told, fd, http>>
    BY <1>2, Zenon DEF PeerReads, PeerSends, HubInv, Told, Dropping
  <2>3. Owners'
    BY <2>2, OwnersLeave
  <2> QED
    BY <2>1, <2>2, <2>3, SMTT(30)
<1>3. CASE FlushTimesOut
  <2>1. Types' /\ Told' /\ Dropping' /\ UNCHANGED <<st, wire, out, reg, told, fd>> /\ http'.at # "add"
    BY <1>3, Zenon DEF FlushTimesOut, HubInv, Types, Told, Dropping, Run
  <2>2. Owners'
    BY <2>1, OwnersLeave
  <2> QED
    BY <2>1, <2>2, SMTT(30)
<1>4. ASSUME NEW s \in Sessions, Logout(s) \/ Expire(s)
      PROVE  Types' /\ Told' /\ Owners' /\ Dropping' /\ UNCHANGED <<st, wire, out, reg, told>>
  <2>1. Types' /\ Told' /\ Dropping' /\ UNCHANGED <<st, wire, out, reg, told, fd, http>>
    BY <1>4 DEF Logout, Expire, HubInv, Types, Told, Dropping
  <2>2. Owners'
    BY <2>1, OwnersLeave
  <2> QED
    BY <2>1, <2>2, SMTT(30)
<1>5. CASE DropCollect \/ DropVerify \/ Push \/ IdleTick
  <2>1. Types' /\ UNCHANGED <<st, wire, out, reg, told, fd, http>>
    BY <1>5, SMTT(90) DEF DropCollect, DropVerify, Push, IdleTick, HubInv, Types
  <2>2. Told'
    <3>1. CASE Push
      BY <3>1 DEF Push, HubInv, Types, Told
    <3>2. CASE DropCollect \/ DropVerify \/ IdleTick
      <4>1. main # "broadcast" /\ main' # "broadcast" /\ UNCHANGED <<ticks, told, reg>>
        BY <3>2 DEF DropCollect, DropVerify, IdleTick
      <4> QED
        BY <4>1, Zenon DEF HubInv, Told
    <3> QED
      BY <1>5, <3>1, <3>2, Zenon
  <2>3. Dropping'
    BY <1>5 DEF DropCollect, DropVerify, Push, IdleTick, Dropping
  <2>4. Owners'
    BY <2>1, OwnersLeave
  <2> QED
    BY <2>1, <2>2, <2>3, <2>4, SMTT(90)
<1>6. CASE UNCHANGED vars
  <2>1. Types' /\ Told' /\ Dropping' /\ UNCHANGED <<st, wire, out, reg, told, fd, http>>
    BY <1>6 DEF vars, HubInv, Types, Told, Dropping
  <2>2. Owners'
    BY <2>1, OwnersLeave, Zenon
  <2> QED
    BY <2>1, <2>2, SMTT(30)
<1> QED
  BY <1>1, <1>2, <1>3, <1>4, <1>5, <1>6, ZenonT(60)

LEMMA AddStep ==
    ASSUME HubAssumption, HubInv, Add
    PROVE  HubInv'
<1>1. \A c \in Conns :
        /\ Handled(c) /\ wire'[c] \in Seq(Unit) /\ out'[c] \in Seq(Unit) /\ room'[c] \in 0 .. SockBuf
        /\ st[c] = "client" => reg'[c] = reg[c]
        /\ Joins(c) => reg'[c] = ticks
  BY AddHandles, ZenonT(60)
<1>2. http.conn \in Conns
  BY Registering, ZenonT(60) DEF HubInv, Add
<1>3. Types'
  <2>1. wire' \in [Conns -> Seq(Unit)] /\ out' \in [Conns -> Seq(Unit)] /\ room' \in [Conns -> 0 .. SockBuf]
    <3>1. /\ wire' = [c \in Conns |-> wire'[c]] /\ out' = [c \in Conns |-> out'[c]]
          /\ room' = [c \in Conns |-> room'[c]]
      BY DEF Add, HubInv, Types
    <3> QED
      BY <1>1, <3>1
  <2>2. st' \in [Conns -> {"new", "client", "closed"}] /\ reg' \in [Conns -> Nat]
    BY <1>2, ZenonT(60) DEF Add, HubInv, Types
  <2>3. http' \in {Run} \cup [at : {"add", "flush"}, conn : Conns, seen : Nat]
    BY <1>2, SMTT(30) DEF Add
  <2> QED
    BY <2>1, <2>2, <2>3, SMTT(90) DEF Add, loop, HubInv, Types
<1>4. Told'
  BY <1>2, SMTT(90) DEF Add, loop, HubInv, Types, Told
<1>5. Dropping' /\ told' = told
  BY DEF Add, loop, HubInv, Dropping
<1>6. Owners'
  BY OwnersAdd
<1>7. Streams' /\ Backlog' /\ NoTickMissed'
  BY <1>1, <1>3, <1>5, StreamsAgain, NoneMissedAgain, ZenonT(60)
<1> QED
  BY <1>3, <1>4, <1>5, <1>6, <1>7, ZenonT(60) DEF HubInv

LEMMA FlushStep ==
    ASSUME HubAssumption, HubInv, FlushOwed
    PROVE  HubInv'
<1>1. \A c \in Conns :
        Handled(c) /\ wire'[c] \in Seq(Unit) /\ out'[c] \in Seq(Unit) /\ room'[c] \in 0 .. SockBuf
  BY FlushHandles, ZenonT(60)
<1>2. http.conn \in Conns
  BY Registering DEF HubInv, FlushOwed
<1>3. http' = Run \/ http' = http
  BY DEF FlushOwed
<1>4. Types'
  <2>1. wire' \in [Conns -> Seq(Unit)] /\ out' \in [Conns -> Seq(Unit)] /\ room' \in [Conns -> 0 .. SockBuf]
    <3>1. /\ wire' = [c \in Conns |-> wire'[c]] /\ out' = [c \in Conns |-> out'[c]]
          /\ room' = [c \in Conns |-> room'[c]]
      BY ZenonT(60) DEF FlushOwed, hub, HubInv, Types
    <3> QED
      BY <1>1, <3>1
  <2>2. st' \in [Conns -> {"new", "client", "closed"}]
    <3>1. st' = st \/ st' = [st EXCEPT ![http.conn] = "closed"] \/ st' = [st EXCEPT ![http.conn] = @]
      BY DEF FlushOwed, hub
    <3> QED
      BY <1>2, <3>1, SMTT(30) DEF HubInv, Types
  <2>3. http' \in {Run} \cup [at : {"add", "flush"}, conn : Conns, seen : Nat]
    BY <1>3 DEF HubInv, Types
  <2> QED
    BY <2>1, <2>2, <2>3, ZenonT(60) DEF FlushOwed, hub, loop, HubInv, Types
<1>5. Told' /\ Dropping' /\ told' = told /\ reg' = reg /\ fd' = fd
  BY DEF FlushOwed, hub, loop, HubInv, Told, Dropping
<1>6. \A c \in Conns : /\ st'[c] = "client" => st[c] = "client"
                       /\ st[c] = "new" => st'[c] = "new"
  BY <1>2, Zenon DEF FlushOwed, hub, HubInv, Types, Clients
<1>7. Owners'
  BY <1>3, <1>5, <1>6, OwnersLeave DEF Run
<1>8. \A c \in Conns : ~Joins(c)
  BY <1>6, Zenon DEF Joins
<1>9. Streams' /\ Backlog' /\ NoTickMissed'
  BY <1>1, <1>4, <1>5, <1>8, StreamsAgain, NoneMissedAgain, ZenonT(60)
<1> QED
  BY <1>4, <1>5, <1>7, <1>9, ZenonT(60) DEF HubInv

\* The types after a step over all the clients, which lets none in.
LEMMA ServeTypes ==
    ASSUME HubInv, NEW o, NEW dropped \in SUBSET Clients, Serve(o, dropped),
           \A c \in Conns : wire'[c] \in Seq(Unit) /\ out'[c] \in Seq(Unit) /\ room'[c] \in 0 .. SockBuf
    PROVE  /\ wire' \in [Conns -> Seq(Unit)] /\ out' \in [Conns -> Seq(Unit)]
           /\ room' \in [Conns -> 0 .. SockBuf] /\ st' \in [Conns -> {"new", "client", "closed"}]
           /\ \A c \in Conns : /\ st'[c] = "client" => st[c] = "client"
                               /\ st[c] = "new" => st'[c] = "new"
<1>1. /\ wire' = [c \in Conns |-> wire'[c]] /\ out' = [c \in Conns |-> out'[c]]
      /\ room' = [c \in Conns |-> room'[c]]
  BY Zenon DEF Serve
<1>2. st' = [c \in Conns |-> IF c \in dropped THEN "closed" ELSE st[c]]
  BY DEF Serve
<1>3. st' \in [Conns -> {"new", "client", "closed"}]
  BY <1>2, Zenon DEF HubInv, Types
<1>4. \A c \in Conns : /\ st'[c] = "client" => st[c] = "client"
                       /\ st[c] = "new" => st'[c] = "new"
  BY <1>2 DEF Clients
<1>5. wire' \in [Conns -> Seq(Unit)] /\ out' \in [Conns -> Seq(Unit)] /\ room' \in [Conns -> 0 .. SockBuf]
  BY <1>1
<1> QED
  BY <1>3, <1>4, <1>5, SMTT(30)

LEMMA ServiceStep ==
    ASSUME HubAssumption, HubInv, Service
    PROVE  HubInv'
<1> DEFINE o == [d \in Conns |-> Reply(d)]  dropped == {d \in Clients : LetGo(d)}
<1>1. \A c \in Conns :
        Handled(c) /\ wire'[c] \in Seq(Unit) /\ out'[c] \in Seq(Unit) /\ room'[c] \in 0 .. SockBuf
  BY ServiceHandles, Zenon
<1>2. Serve(o, dropped) /\ dropped \in SUBSET Clients
  BY Zenon DEF Service
<1> HIDE DEF o, dropped
<1>3. /\ wire' \in [Conns -> Seq(Unit)] /\ out' \in [Conns -> Seq(Unit)]
      /\ room' \in [Conns -> 0 .. SockBuf] /\ st' \in [Conns -> {"new", "client", "closed"}]
  BY <1>1, <1>2, ServeTypes, Zenon
<1>4. \A c \in Conns : /\ st'[c] = "client" => st[c] = "client"
                       /\ st[c] = "new" => st'[c] = "new"
  BY <1>1, <1>2, ServeTypes, ZenonT(60)
<1>5. fd' = fd /\ sess' = sess
  BY <1>2 DEF Serve
<1>6. /\ in' = [c \in Conns |-> IF c \in Clients /\ in[c] = "ping" THEN "none" ELSE in[c]]
      /\ main = "service" /\ main' = "sessions" /\ UNCHANGED <<valid, ticks, told, gone, http, reg>>
  BY DEF Service
<1>7. Types'
  BY <1>3, <1>5, <1>6, SMTT(30) DEF HubInv, Types
<1>8. Told' /\ Dropping'
  BY <1>6, Zenon DEF HubInv, Told, Dropping
<1>9. told' = told /\ reg' = reg /\ http' = http
  BY <1>6, Zenon
<1>10. Owners' /\ \A c \in Conns : ~Joins(c)
  <2>1. Owners'
    BY <1>5, <1>9, <1>4, OwnersLeave, Zenon
  <2>2. ASSUME NEW c \in Conns PROVE ~Joins(c)
    BY <1>4, Zenon DEF Joins
  <2> QED
    BY <2>1, <2>2, Zenon
<1>11. Streams' /\ Backlog' /\ NoTickMissed'
  BY <1>1, <1>7, <1>9, <1>10, StreamsAgain, NoneMissedAgain, ZenonT(60)
<1> QED
  BY <1>7, <1>8, <1>10, <1>11, ZenonT(60) DEF HubInv

LEMMA BroadcastStep ==
    ASSUME HubAssumption, HubInv, Broadcast
    PROVE  HubInv'
<1> DEFINE o == [d \in Conns |-> Queued(d, TickFrame(ticks))]
           dropped == {d \in Clients : ~Keeps(d, Queued(d, TickFrame(ticks)))}
<1>1. \A c \in Conns : /\ wire'[c] \in Seq(Unit) /\ out'[c] \in Seq(Unit) /\ room'[c] \in 0 .. SockBuf
                       /\ IF c \in Clients THEN Informed(c) ELSE Rests(c)
  BY BroadcastInforms, Zenon
<1>2. Serve(o, dropped) /\ dropped \in SUBSET Clients
  BY Zenon DEF Broadcast
<1> HIDE DEF o, dropped
<1>3. /\ wire' \in [Conns -> Seq(Unit)] /\ out' \in [Conns -> Seq(Unit)]
      /\ room' \in [Conns -> 0 .. SockBuf] /\ st' \in [Conns -> {"new", "client", "closed"}]
  BY <1>1, <1>2, ServeTypes, Zenon
<1>4. \A c \in Conns : /\ st'[c] = "client" => st[c] = "client"
                       /\ st[c] = "new" => st'[c] = "new"
  BY <1>1, <1>2, ServeTypes, ZenonT(60)
<1>5. fd' = fd /\ sess' = sess
  BY <1>2, Zenon DEF Serve
<1>6. /\ main = "broadcast" /\ main' = "service" /\ told' = ticks
      /\ in' = in /\ valid' = valid /\ ticks' = ticks /\ gone' = gone /\ http' = http /\ reg' = reg
  BY DEF Broadcast
<1>7. Types'
  BY <1>3, <1>5, <1>6 DEF HubInv, Types
<1>8. Told' /\ Dropping'
  BY <1>6 DEF HubInv, Told, Dropping
<1>9. Owners'
  BY <1>5, <1>6, <1>4, OwnersLeave, ZenonT(60)
<1>10. Streams' /\ Backlog'
  <2>1. \A c \in Conns : Handled(c) \/ Informed(c)
    BY <1>1, Zenon DEF Handled
  <2> QED
    BY <1>7, <2>1, StreamsAgain, Zenon
<1>11. NoTickMissed'
  BY <1>1, <1>6, NoneMissedTold, Zenon
<1> QED
  BY <1>7, <1>8, <1>9, <1>10, <1>11, ZenonT(60) DEF HubInv

LEMMA DropStep ==
    ASSUME HubAssumption, HubInv, DropSessions
    PROVE  HubInv'
<1> DEFINE dropped == {c \in Clients : Ended(c)}
<1>1. \A c \in Conns : Handled(c) /\ wire'[c] \in Seq(Unit) /\ out'[c] \in Seq(Unit)
  BY DropHandles, ZenonT(60)
<1>2. /\ wire' = [c \in Conns |-> wire'[c]] /\ out' = [c \in Conns |-> out'[c]]
      /\ st' = [c \in Conns |-> IF c \in dropped THEN "closed" ELSE st[c]]
      /\ main' = "tick" /\ main = "drop" /\ fd' = fd /\ sess' = sess /\ room' = room /\ in' = in
      /\ valid' = valid /\ ticks' = ticks /\ told' = told /\ http' = http /\ reg' = reg
  BY Zenon DEF DropSessions
<1>3. dropped \in SUBSET Clients
  OBVIOUS
<1> HIDE DEF dropped
<1>4. \A c \in Conns : /\ st'[c] = "client" => st[c] = "client"
                       /\ st[c] = "new" => st'[c] = "new"
  BY <1>2, <1>3, SMTT(30) DEF Clients
<1>5. Types'
  <2>1. wire' \in [Conns -> Seq(Unit)] /\ out' \in [Conns -> Seq(Unit)]
    BY <1>1, <1>2, SMTT(30)
  <2>2. st' \in [Conns -> {"new", "client", "closed"}]
    BY <1>2, SMTT(30) DEF HubInv, Types
  <2> QED
    BY <1>2, <2>1, <2>2, SMTT(30) DEF HubInv, Types
<1>6. Told' /\ Dropping'
  BY <1>2 DEF HubInv, Told, Dropping
<1>7. Owners'
  BY <1>2, <1>4, OwnersLeave, ZenonT(60)
<1>8. \A c \in Conns : ~Joins(c)
  <2>1. ASSUME NEW c \in Conns PROVE ~Joins(c)
    BY <1>4, Zenon DEF Joins
  <2> QED
    BY <2>1, Zenon
<1>9. Streams' /\ Backlog' /\ NoTickMissed'
  BY <1>1, <1>2, <1>5, <1>8, StreamsAgain, NoneMissedAgain, ZenonT(60)
<1> QED
  BY <1>5, <1>6, <1>7, <1>9, ZenonT(60) DEF HubInv

LEMMA HubStart ==
    ASSUME HubAssumption, Init
    PROVE  HubInv
<1>1. Clients = {} /\ (\A c \in Conns : wire[c] = <<>> /\ out[c] = <<>>)
  BY DEF Init, Clients
<1>2. Types
  <2>1. <<>> \in Seq(Unit)
    OBVIOUS
  <2>2. st \in [Conns -> {"new", "client", "closed"}] /\ fd \in [Conns -> Fds \cup {0}]
    BY Zenon DEF Init
  <2>3. sess \in [Conns -> Sessions \cup {NoAuth}]
    BY Zenon DEF Init
  <2>4. out \in [Conns -> Seq(Unit)] /\ wire \in [Conns -> Seq(Unit)]
    BY <2>1 DEF Init
  <2>5. room \in [Conns -> 0 .. SockBuf]
    BY DEF Init, HubAssumption
  <2>6. in \in [Conns -> {"none", "ping", "close", "junk", "eof"}] /\ valid \subseteq Sessions
    BY Zenon DEF Init
  <2>7. /\ ticks \in Nat /\ told \in Nat /\ reg \in [Conns -> Nat]
        /\ main \in {"service", "sessions", "verify", "drop", "tick", "broadcast"}
        /\ http \in {Run} \cup [at : {"add", "flush"}, conn : Conns, seen : Nat]
    BY Zenon DEF Init
  <2> QED
    BY <2>2, <2>3, <2>4, <2>5, <2>6, <2>7, SMTT(30) DEF Types
<1>3. Told /\ Dropping
  BY DEF Init, Told, Dropping
<1>4. Owners
  <2>1. Cardinality(Clients) = 0
    BY <1>1, FS_EmptySet, Zenon
  <2>2. http.at # "add"
    BY Zenon DEF Init, Run
  <2>3. Cardinality(Clients) <= kMaxClients
    BY <2>1 DEF HubAssumption
  <2> QED
    BY <1>1, <2>2, <2>3 DEF Owners
<1>5. Backlog /\ NoTickMissed
  BY <1>1, Zenon DEF Backlog, NoTickMissed
<1>6. Streams
  <2>1. ASSUME NEW c \in Conns
        PROVE  Whole(Stream(c)) /\ c \notin Clients /\ out[c] = <<>>
    <3>1. Stream(c) = <<>>
      BY <1>1 DEF Stream
    <3>2. Len(Stream(c)) = 0
      BY <3>1
    <3>3. Whole(Stream(c))
      BY <3>2 DEF Whole
    <3> QED
      BY <1>1, <3>3
  <2> QED
    BY <2>1, Zenon DEF Streams
<1> QED
  BY <1>2, <1>3, <1>4, <1>5, <1>6, ZenonT(60) DEF HubInv

LEMMA HubStep ==
    ASSUME HubAssumption, HubInv, [Next]_vars
    PROVE  HubInv'
<1>1. CASE Add
  BY <1>1, AddStep, Zenon
<1>2. CASE FlushOwed
  BY <1>2, FlushStep, ZenonT(60)
<1>3. CASE Service
  BY <1>3, ServiceStep, Zenon
<1>4. CASE DropSessions
  BY <1>4, DropStep, Zenon
<1>5. CASE Broadcast
  BY <1>5, BroadcastStep, Zenon
<1>6. CASE \/ \E c \in Conns : Upgrade(c) \/ PeerReads(c) \/ PeerSends(c)
           \/ FlushTimesOut \/ \E s \in Sessions : Logout(s) \/ Expire(s)
           \/ DropCollect \/ DropVerify \/ Push \/ IdleTick \/ UNCHANGED vars
  BY <1>6, QuietSteps, Zenon
<1> QED
  BY <1>1, <1>2, <1>3, <1>4, <1>5, <1>6, ZenonT(60) DEF Next

\* What holds throughout: the hub's types and descriptors, what is owed and
\* where a stream stands, and what drop_sessions() has found.
THEOREM HubInvariant == HubAssumption => (Spec => []HubInv)
<1> SUFFICES ASSUME HubAssumption PROVE Spec => []HubInv
  BY Zenon
<1>1. Init => HubInv
  BY HubStart
<1>2. HubInv /\ [Next]_vars => HubInv'
  BY HubStep, Zenon
<1> QED
  BY <1>1, <1>2, PTL DEF Spec

\* A client's descriptor is open and its own, the hub has no more clients than
\* kMaxClients, though the upgrade looks before the client is registered, and
\* what queue_out() keeps of a slow client's stream stays under kMaxBacklog, the
\* first frame apart.
THEOREM HubKeepsItsBounds == HubAssumption => (Spec => []TypeOK)
<1> SUFFICES ASSUME HubAssumption PROVE Spec => []TypeOK
  BY Zenon
<1>1. HubInv => TypeOK
  <2> SUFFICES ASSUME HubInv PROVE TypeOK
    OBVIOUS
  <2>1. told \in {ticks, ticks - 1} /\ valid \subseteq Sessions
    BY DEF HubInv, Types, Told
  <2>2. /\ st \in [Conns -> {"new", "client", "closed"}]
        /\ \A c \in Conns : room[c] \in 0 .. SockBuf
    BY DEF HubInv, Types
  <2>3. \A c \in Clients : /\ fd[c] \in Fds
                           /\ \/ Len(out[c]) <= kMaxBacklog
                              \/ \A i \in 1 .. Len(out[c]) : out[c][i].kind = "first"
    BY Zenon DEF HubInv, Owners, Backlog, Bounded
  <2>4. (\A c, d \in Clients : c # d => fd[c] # fd[d]) /\ Cardinality(Clients) <= kMaxClients
    BY Zenon DEF HubInv, Owners
  <2> QED
    BY <2>1, <2>2, <2>3, <2>4, Zenon DEF TypeOK
<1> QED
  BY <1>1, HubInvariant, PTL

\* A frame that a socket took in part is finished before anything else is sent
\* to it, by whichever of the two threads: queue_out() puts what is owed first,
\* and a close frame goes only where nothing is owed.
THEOREM FramesAreWhole == HubAssumption => (Spec => []WholeFrames)
<1> SUFFICES ASSUME HubAssumption PROVE Spec => []WholeFrames
  BY Zenon
<1>1. HubInv => WholeFrames
  BY Zenon DEF HubInv, Streams, WholeFrames
<1> QED
  BY <1>1, HubInvariant, PTL

\* A client let in between the push of a sample and its broadcast, or at any
\* other moment, has every sample from its first frame on, in order: add() makes
\* that frame under the lock broadcast() takes.
THEOREM NoTickIsMissed == HubAssumption => (Spec => []NoTickMissed)
<1> SUFFICES ASSUME HubAssumption PROVE Spec => []NoTickMissed
  BY Zenon
<1>1. HubInv => NoTickMissed
  BY DEF HubInv
<1> QED
  BY <1>1, HubInvariant, PTL

\* drop_sessions() closes no client whose session is good, though it checks the
\* sessions without the lock and a descriptor may be another client's by then.
THEOREM OnlyTheEndedAreDropped == HubAssumption => (Spec => DropsOnlyEnded)
<1> SUFFICES ASSUME HubAssumption PROVE Spec => DropsOnlyEnded
  OBVIOUS
<1>1. HubInv /\ [Next]_vars => [DropOnlyEnded]_vars
  <2> SUFFICES ASSUME HubInv, [Next]_vars, NEW c \in Conns, main = "drop", main' = "tick",
                      st[c] = "client", st'[c] = "closed"
               PROVE  sess[c] \notin valid
    BY ZenonT(60) DEF DropOnlyEnded
  <2>1. DropSessions
    <3>1. main' # main
      OBVIOUS
    <3> QED
      BY <3>1, ZenonT(60) DEF Next, vars, loop, Upgrade, PeerReads, PeerSends, Add, FlushOwed, FlushTimesOut, Logout, Expire,
                  Service, DropCollect, DropVerify, Push, IdleTick, Broadcast
  <2>2. Ended(c)
    BY <2>1, Zenon DEF DropSessions
  <2> QED
    BY <2>2 DEF Ended, HubInv, Dropping
<1> QED
  BY <1>1, HubInvariant, PTL DEF Spec, DropsOnlyEnded
=============================================================================
