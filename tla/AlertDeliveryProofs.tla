------------------------- MODULE AlertDeliveryProofs ------------------------
(***************************************************************************)
(* Proofs about AlertDelivery, for every list of channels, queue bound,    *)
(* number of alerts and set of answers.                                    *)
(***************************************************************************)
EXTENDS AlertDelivery, FiniteSetTheorems, SequenceTheorems, WellFoundedInduction, TLAPS

-----------------------------------------------------------------------------
(* What the proof needs of sets and sequences.                             *)

(* A set of channels that is not empty has a first one. *)
LEMMA FirstOne ==
    ASSUME NEW S \in SUBSET Nat, S # {}
    PROVE  Min(S) \in S
<1>1. \E x \in S : \A y \in S : ~ (<<y, x>> \in OpToRel(<, Nat))
  BY NatLessThanWellFounded, WFMin, Zenon
<1>2. \A x, y \in S : x < y => <<x, y>> \in OpToRel(<, Nat)
  BY Zenon DEF OpToRel
<1>3. PICK x \in S : \A y \in S : ~ (y < x)
  BY <1>1, <1>2, Zenon
<1>4. \A y \in S : x <= y
  BY <1>3
<1> QED
  BY <1>4, Zenon DEF Min

(* A sequence with one element more, and without its first one. *)
LEMMA OneMore ==
    ASSUME NEW S, NEW s \in Seq(S), NEW e \in S
    PROVE  /\ Append(s, e) \in Seq(S) /\ Len(Append(s, e)) = Len(s) + 1
           /\ \A i \in 1 .. Len(s) : Append(s, e)[i] = s[i]
           /\ Append(s, e)[Len(s) + 1] = e
           /\ Range(Append(s, e)) = Range(s) \cup {e}
<1>1. /\ Append(s, e) \in Seq(S) /\ Len(Append(s, e)) = Len(s) + 1
      /\ \A i \in 1 .. Len(s) : Append(s, e)[i] = s[i]
      /\ Append(s, e)[Len(s) + 1] = e
  BY AppendProperties
<1>2. DOMAIN Append(s, e) = 1 .. Len(s) + 1 /\ DOMAIN s = 1 .. Len(s) /\ Len(s) \in Nat
  BY <1>1, LenProperties, Zenon
<1>3. Range(Append(s, e)) = Range(s) \cup {e}
  <2>1. \A x \in Range(Append(s, e)) : x \in Range(s) \cup {e}
    BY <1>1, <1>2 DEF Range
  <2>2. \A x \in Range(s) : x \in Range(Append(s, e))
    BY <1>1, <1>2 DEF Range
  <2>3. e \in Range(Append(s, e))
    BY <1>1, <1>2 DEF Range
  <2> QED
    BY <2>1, <2>2, <2>3, Zenon
<1> QED
  BY <1>1, <1>3, Zenon

(* The same for a sequence of alerts, which are numbered from 1: what the far  *)
(* side of a channel has taken grows by the alert the transfer carries.        *)
LEMMA OneMoreAlert ==
    ASSUME NEW old \in Seq(1 .. MaxAlerts), NEW a \in 1 .. MaxAlerts
    PROVE  /\ Append(old, a) \in Seq(1 .. MaxAlerts) /\ Len(Append(old, a)) = Len(old) + 1
           /\ \A i \in 1 .. Len(old) : Append(old, a)[i] = old[i]
           /\ Append(old, a)[Len(old) + 1] = a
           /\ Range(Append(old, a)) = Range(old) \cup {a}
<1>1. \A S : old \in Seq(S) /\ a \in S => Range(Append(old, a)) = Range(old) \cup {a}
  BY OneMore
<1>2. Range(Append(old, a)) = Range(old) \cup {a}
  BY <1>1, Zenon
<1> QED
  BY <1>2, AppendProperties

LEMMA OneLess ==
    ASSUME NEW S, NEW s \in Seq(S), s # <<>>
    PROVE  /\ Head(s) \in S /\ Head(s) = s[1] /\ Tail(s) \in Seq(S)
           /\ Len(s) \in Nat /\ Len(s) >= 1 /\ Len(Tail(s)) = Len(s) - 1
           /\ \A i \in 1 .. Len(s) - 1 : Tail(s)[i] = s[i + 1]
BY HeadTailProperties, LenProperties, EmptySeq

(* The files of a send are a sequence of names. *)
Names == {"body", "headers", "reply_hdr", "reply_body", "config", "stderr"}

LEMMA FileNames ==
    ASSUME NEW c
    PROVE  Files(c) \in Seq(Names) /\ Len(Files(c)) \in Nat
<1>1. <<"body", "config", "stderr">> \in Seq(Names)
  BY DEF Names
<1>2. <<"body", "headers", "reply_hdr", "reply_body", "config", "stderr">> \in Seq(Names)
  BY DEF Names
<1>3. Files(c) \in Seq(Names)
  BY <1>1, <1>2, Zenon DEF Files
<1> QED
  BY <1>3, LenProperties, Zenon

-----------------------------------------------------------------------------
(* The inductive invariant of the delivery.                                *)

DeliveryTypes ==
    /\ delivered \in Nat /\ failed \in Nat /\ d_dropped \in Nat
    /\ made \in Seq(Names)
    /\ taken \in [1 .. Len(Channels) -> Seq(1 .. MaxAlerts)]
    /\ IsFiniteSet(credited) /\ credited \subseteq (1 .. MaxAlerts) \X targets

\* What exists on disk is what the send has made.
Disk ==
    /\ pc \in {"make", "reply"} => disk = Range(made)
    /\ pc \in {"idle", "ended"} => left = {}

\* The alerts that wait are younger than the one in work, in their order.
Waiting ==
    /\ alert <= dispatch_calls /\ (pc \in {"job", "make", "reply"} => alert >= 1)
    /\ \A i \in 1 .. Len(d_queue) : alert < d_queue[i] /\ d_queue[i] <= dispatch_calls
    /\ \A i, j \in 1 .. Len(d_queue) : i < j => d_queue[i] < d_queue[j]
    /\ pc = "ended" => d_stopping

\* The channels that have not been sent the alert in work have not heard it.
Untold == IF pc = "reply" THEN left \ {at} ELSE left
Heard ==
    \A c \in 1 .. Len(Channels) : \A i \in 1 .. Len(taken[c]) :
        taken[c][i] <= alert /\ (c \in Untold => taken[c][i] < alert)

\* A delivery is counted once, after its send.
Credit == \A d \in credited : d[1] <= alert /\ (d[1] = alert => d[2] \notin left)

\* What the end of a send will count as delivered, the service took.
Replied == (pc = "reply" /\ ran /\ (ch.type = "smtp" \/ http_ok)) => alert \in Range(taken[at])

DeliveryInv ==
    DeliveryRight /\ DeliveryTypes /\ Disk /\ Waiting /\ Heard /\ Credit /\ Replied

(* The sizes that are counted are numbers. *)
LEMMA Sizes ==
    ASSUME DeliveryAssumption, DeliveryTypeOK
    PROVE  /\ Len(Channels) \in Nat /\ MaxAlerts \in Nat /\ kMaxQueue \in Nat
           /\ targets \subseteq Nat /\ targets \subseteq 1 .. Len(Channels)
           /\ Cardinality(targets) \in Nat
           /\ IsFiniteSet(left) /\ Cardinality(left) \in Nat
           /\ d_queue \in Seq(1 .. MaxAlerts) /\ Len(d_queue) \in Nat
<1>1. Len(Channels) \in Nat /\ MaxAlerts \in Nat /\ kMaxQueue \in Nat
  BY LenProperties DEF DeliveryAssumption
<1>2. targets \subseteq 1 .. Len(Channels) /\ targets \subseteq Nat
  BY <1>1 DEF targets
<1>3. IsFiniteSet(1 .. Len(Channels))
  BY <1>1, FS_Interval
<1>4. IsFiniteSet(targets)
  BY <1>2, <1>3, FS_Subset, Zenon
<1>5. IsFiniteSet(left)
  BY <1>4, FS_Subset, Zenon DEF DeliveryTypeOK
<1>6. Cardinality(targets) \in Nat /\ Cardinality(left) \in Nat
  BY <1>4, <1>5, FS_CardinalityType, Zenon
<1>7. d_queue \in Seq(1 .. MaxAlerts) /\ Len(d_queue) \in Nat
  BY LenProperties, Zenon DEF DeliveryTypeOK
<1> QED
  BY <1>1, <1>2, <1>5, <1>6, <1>7, Zenon

(* The channel in work is one of those to reach, and when it is done there *)
(* is one less.                                                            *)
LEMMA ChannelDone ==
    ASSUME DeliveryAssumption, DeliveryTypeOK, left # {}
    PROVE  /\ at \in left /\ at \in targets /\ at \in 1 .. Len(Channels)
           /\ left \ {at} \subseteq targets
           /\ Cardinality(left \ {at}) = Cardinality(left) - 1
<1>1. left \subseteq targets /\ targets \subseteq Nat /\ targets \subseteq 1 .. Len(Channels) /\ IsFiniteSet(left)
  BY Sizes, Zenon DEF DeliveryTypeOK
<1>2. at \in left
  BY <1>1, FirstOne, Zenon DEF at
<1>3. Cardinality(left \ {at}) = Cardinality(left) - 1
  BY <1>1, <1>2, FS_RemoveElement, Zenon
<1> QED
  BY <1>1, <1>2, <1>3, Zenon

(* Nothing has been dispatched and nobody has heard anything. *)
LEMMA DeliveryStart == DeliveryAssumption /\ DeliveryInit => DeliveryInv
<1> SUFFICES ASSUME DeliveryAssumption, DeliveryInit PROVE DeliveryInv
  BY Zenon
<1> USE DEF DeliveryInit
<1>1. DeliveryTypeOK
  BY EmptySeq DEF DeliveryTypeOK, DeliveryAssumption
<1>2. /\ Cardinality(targets) \in Nat /\ Cardinality(left) = 0 /\ IsFiniteSet(credited) /\ Cardinality(credited) = 0
      /\ Len(d_queue) = 0 /\ \A c \in 1 .. Len(Channels) : taken[c] = <<>> /\ Len(taken[c]) = 0
  <2>1. Cardinality(targets) \in Nat
    BY <1>1, Sizes, Zenon
  <2> QED
    BY <2>1, FS_EmptySet, EmptySeq, Zenon
<1>3. NothingLeft /\ Accounted
  BY <1>2 DEF NothingLeft, Accounted
<1>4. DeliveredTaken /\ InOrder
  BY <1>2 DEF DeliveredTaken, InOrder
<1>5. DeliveryTypes
  BY <1>2, EmptySeq, Zenon DEF DeliveryTypes
<1>6. Disk /\ Waiting
  BY <1>2, EmptySeq DEF Disk, Waiting
<1>7. Heard /\ Credit /\ Replied
  BY <1>2 DEF Heard, Credit, Replied
<1> QED
  BY <1>1, <1>3, <1>4, <1>5, <1>6, <1>7, Zenon DEF DeliveryInv, DeliveryRight

(* What the worker does not touch stays as it was while alerts are         *)
(* dispatched and a stop is asked for.                                     *)
LEMMA WorkerRests ==
    ASSUME DeliveryInv,
           UNCHANGED <<pc, alert, left, made, disk, ran, reply, taken, credited, delivered>>
    PROVE  (NothingLeft /\ DeliveredTaken /\ InOrder /\ Disk /\ Heard /\ Credit /\ Replied)'
<1> USE DEF DeliveryInv, DeliveryRight
<1>1. at' = at /\ ch' = ch /\ targets' = targets /\ http_ok' = http_ok /\ Untold' = Untold
  BY Zenon DEF at, ch, targets, http_ok, Untold
<1>2. NothingLeft' /\ DeliveredTaken' /\ InOrder'
  BY <1>1, Zenon DEF NothingLeft, DeliveredTaken, InOrder
<1>3. Disk' /\ Heard' /\ Credit'
  BY <1>1, Zenon DEF Disk, Heard, Credit
<1>4. Replied'
  BY <1>1, Zenon DEF Replied
<1> QED
  BY <1>2, <1>3, <1>4, Zenon

(* One alert more is one for each channel. *)
LEMMA OneEach == \A t, n \in Nat : t * (n + 1) = t * n + t
OBVIOUS

LEMMA OneEachMore == \A t, n, c, s \in Nat : s + t * n = t * c => s + t * (n + 1) = t * (c + 1)
<1> SUFFICES ASSUME NEW t \in Nat, NEW n \in Nat, NEW c \in Nat, NEW s \in Nat, s + t * n = t * c
             PROVE  s + t * (n + 1) = t * (c + 1)
  BY Zenon
<1>1. t * (n + 1) = t * n + t /\ t * (c + 1) = t * c + t
  BY OneEach, Zenon
<1>2. t * n \in Nat /\ t * c \in Nat
  OBVIOUS
<1> QED
  BY <1>1, <1>2

LEMMA Product == \A t, n \in Nat : t * n \in Int
OBVIOUS

(* The alerts wait in the order of their numbers, a new one last. *)
LEMMA QueueGrows ==
    ASSUME NEW k \in Nat, NEW q, NEW r, NEW a \in Nat, NEW d \in Nat, a <= d,
           \A i \in 1 .. k : q[i] \in Nat /\ a < q[i] /\ q[i] <= d,
           \A i, j \in 1 .. k : i < j => q[i] < q[j],
           \A i \in 1 .. k : r[i] = q[i], r[k + 1] = d + 1
    PROVE  /\ \A i \in 1 .. k + 1 : a < r[i] /\ r[i] <= d + 1
           /\ \A i, j \in 1 .. k + 1 : i < j => r[i] < r[j]
OBVIOUS

LEMMA DispatchStep ==
    ASSUME DeliveryAssumption, DeliveryInv, dispatch
    PROVE  DeliveryInv'
<1> USE DEF DeliveryInv, DeliveryRight
<1>1. /\ UNCHANGED <<pc, alert, left, made, disk, ran, reply, delivered, failed, taken, credited>>
      /\ UNCHANGED d_stopping
      /\ dispatch_calls < MaxAlerts /\ dispatch_calls' = dispatch_calls + 1
  BY Zenon DEF dispatch, job, curl
<1>2. (NothingLeft /\ DeliveredTaken /\ InOrder /\ Disk /\ Heard /\ Credit /\ Replied)'
  BY <1>1, WorkerRests
<1>3. /\ MaxAlerts \in Nat /\ kMaxQueue \in Nat /\ Cardinality(targets) \in Nat /\ Cardinality(left) \in Nat
      /\ d_queue \in Seq(1 .. MaxAlerts) /\ Len(d_queue) \in Nat /\ \A i \in 1 .. Len(d_queue) : d_queue[i] \in Nat
      /\ dispatch_calls \in Nat /\ alert \in Nat /\ d_dropped \in Nat /\ delivered \in Nat /\ failed \in Nat
  <2>1. /\ MaxAlerts \in Nat /\ kMaxQueue \in Nat /\ Cardinality(targets) \in Nat /\ Cardinality(left) \in Nat
        /\ d_queue \in Seq(1 .. MaxAlerts) /\ Len(d_queue) \in Nat
    BY Sizes, Zenon
  <2>2. \A i \in 1 .. Len(d_queue) : d_queue[i] \in Nat
    BY <2>1, ElementOfSeq
  <2> QED
    BY <2>1, <2>2 DEF DeliveryTypeOK, DeliveryTypes
<1>4. ch' = ch /\ targets' = targets
  BY <1>1, Zenon DEF at, ch, targets
<1>5. ASSUME d_queue' \in Seq(1 .. MaxAlerts), Len(d_queue') <= kMaxQueue, pc = "ended" => d_queue' = <<>>,
             d_dropped' \in Nat
      PROVE  DeliveryTypeOK' /\ DeliveryTypes'
  <2>1. dispatch_calls' \in 0 .. MaxAlerts
    BY <1>1, <1>3
  <2>2. DeliveryTypeOK'
    BY <1>1, <1>4, <1>5, <2>1, Zenon DEF DeliveryTypeOK
  <2>3. DeliveryTypes'
    BY <1>1, <1>4, <1>5, Zenon DEF DeliveryTypes
  <2> QED
    BY <2>2, <2>3, Zenon
<1>6. CASE targets = {} /\ UNCHANGED <<d_queue, d_dropped>>
  <2>1. DeliveryTypeOK' /\ DeliveryTypes'
    BY <1>3, <1>5, <1>6, Zenon DEF DeliveryTypeOK
  <2>2. Cardinality(targets) = 0
    BY <1>6, FS_EmptySet, Zenon
  <2>3. Accounted'
    BY <1>1, <1>3, <1>4, <1>6, <2>2 DEF Accounted
  <2>4. Waiting'
    BY <1>1, <1>3, <1>6, SMTT(30) DEF Waiting
  <2> QED
    BY <1>2, <2>1, <2>3, <2>4, Zenon
<1>7. CASE d_dropped' = d_dropped + 1 /\ UNCHANGED d_queue
  <2>1. DeliveryTypeOK' /\ DeliveryTypes'
    BY <1>3, <1>5, <1>7, SMTT(30) DEF DeliveryTypeOK
  <2>2. Accounted'
    <3> DEFINE s == delivered + failed + Cardinality(left)
               n == Len(d_queue) + d_dropped
    <3>1. s \in Nat /\ n \in Nat /\ n' = n + 1
      BY <1>1, <1>3, <1>7
    <3>2. s' = s
      BY <1>1, Zenon
    <3>3. s + Cardinality(targets) * n = Cardinality(targets) * dispatch_calls
      BY Zenon DEF Accounted
    <3> HIDE DEF s, n
    <3>4. s + Cardinality(targets) * (n + 1) = Cardinality(targets) * (dispatch_calls + 1)
      <4> DEFINE t == Cardinality(targets)
                 c == dispatch_calls
      <4>1. t \in Nat /\ c \in Nat /\ s + t * n = t * c
        BY <1>3, <3>3, Zenon
      <4> HIDE DEF t, c
      <4>2. s + t * (n + 1) = t * (c + 1)
        BY <3>1, <4>1, OneEachMore
      <4> QED
        BY <4>2, Zenon DEF t, c
    <3> QED
      BY <1>1, <1>4, <3>1, <3>2, <3>4, Zenon DEF Accounted, s, n
  <2>3. Waiting'
    BY <1>1, <1>3, <1>7 DEF Waiting
  <2> QED
    BY <1>2, <2>1, <2>2, <2>3, Zenon
<1>8. CASE /\ ~(d_stopping \/ Len(d_queue) >= kMaxQueue)
           /\ d_queue' = Append(d_queue, dispatch_calls') /\ UNCHANGED d_dropped
  <2>1. dispatch_calls' \in 1 .. MaxAlerts
    BY <1>1, <1>3
  <2>2. /\ d_queue' \in Seq(1 .. MaxAlerts) /\ Len(d_queue') = Len(d_queue) + 1
        /\ \A i \in 1 .. Len(d_queue) : d_queue'[i] = d_queue[i]
        /\ d_queue'[Len(d_queue) + 1] = dispatch_calls'
    BY <1>3, <1>8, <2>1, OneMore
  <2>3. pc # "ended"
    BY <1>8, Zenon DEF Waiting
  <2>4. DeliveryTypeOK' /\ DeliveryTypes'
    BY <1>3, <1>5, <1>8, <2>2, <2>3, SMTT(30)
  <2>5. Accounted'
    <3> DEFINE s == delivered + failed + Cardinality(left)
               n == Len(d_queue) + d_dropped
    <3>1. s \in Nat /\ n \in Nat /\ n' = n + 1
      BY <1>1, <1>3, <1>8, <2>2, SMTT(30)
    <3>2. s' = s
      BY <1>1, Zenon
    <3>3. s + Cardinality(targets) * n = Cardinality(targets) * dispatch_calls
      BY Zenon DEF Accounted
    <3> HIDE DEF s, n
    <3>4. s + Cardinality(targets) * (n + 1) = Cardinality(targets) * (dispatch_calls + 1)
      <4> DEFINE t == Cardinality(targets)
                 c == dispatch_calls
      <4>1. t \in Nat /\ c \in Nat /\ s + t * n = t * c
        BY <1>3, <3>3, Zenon
      <4> HIDE DEF t, c
      <4>2. s + t * (n + 1) = t * (c + 1)
        BY <3>1, <4>1, OneEachMore
      <4> QED
        BY <4>2, Zenon DEF t, c
    <3> QED
      BY <1>1, <1>4, <3>1, <3>2, <3>4, Zenon DEF Accounted, s, n
  <2>6. Waiting'
    <3>1. /\ alert <= dispatch_calls /\ alert <= dispatch_calls' /\ dispatch_calls <= dispatch_calls'
          /\ dispatch_calls < dispatch_calls'
      BY <1>1, <1>3 DEF Waiting
    <3>2. /\ \A i \in 1 .. Len(d_queue) : alert < d_queue[i] /\ d_queue[i] <= dispatch_calls
          /\ \A i, j \in 1 .. Len(d_queue) : i < j => d_queue[i] < d_queue[j]
      BY Zenon DEF Waiting
    <3>3. /\ \A i \in 1 .. Len(d_queue) + 1 : alert < d_queue'[i] /\ d_queue'[i] <= dispatch_calls + 1
          /\ \A i, j \in 1 .. Len(d_queue) + 1 : i < j => d_queue'[i] < d_queue'[j]
      <4> DEFINE k == Len(d_queue)
                 q == d_queue
                 r == d_queue'
      <4>1. /\ k \in Nat /\ alert \in Nat /\ dispatch_calls \in Nat /\ alert <= dispatch_calls
            /\ \A i \in 1 .. k : q[i] \in Nat /\ alert < q[i] /\ q[i] <= dispatch_calls
            /\ \A i, j \in 1 .. k : i < j => q[i] < q[j]
            /\ \A i \in 1 .. k : r[i] = q[i]
            /\ r[k + 1] = dispatch_calls + 1
        BY <1>1, <1>3, <2>2, <3>1, <3>2, ZenonT(60)
      <4> HIDE DEF k, q, r
      <4>2. /\ \A i \in 1 .. k + 1 : alert < r[i] /\ r[i] <= dispatch_calls + 1
            /\ \A i, j \in 1 .. k + 1 : i < j => r[i] < r[j]
        BY <4>1, QueueGrows, ZenonT(60)
      <4> QED
        BY <4>2, Zenon DEF k, q, r
    <3>5. (pc' \in {"job", "make", "reply"} => alert' >= 1) /\ (pc' = "ended" => d_stopping')
      BY <1>1, Zenon DEF Waiting
    <3> QED
      BY <1>1, <2>2, <3>1, <3>3, <3>5, Zenon DEF Waiting
  <2> QED
    BY <1>2, <2>4, <2>5, <2>6, Zenon
<1> QED
  BY <1>6, <1>7, <1>8, Zenon DEF dispatch

(* A channel that was skipped, failed or served leaves the list, with one  *)
(* count more.                                                             *)
LEMMA ChannelLeaves ==
    ASSUME DeliveryAssumption, DeliveryInv, left # {}, pc \in {"job", "make", "reply"},
           left' = left \ {at}, pc' = "job", disk' = {},
           UNCHANGED <<dispatch_calls, d_queue, alert, made, d_dropped, taken>>,
           credited' \subseteq credited \cup {<<alert, at>>}, IsFiniteSet(credited'),
           delivered' \in Nat, failed' \in Nat, delivered' + failed' = delivered + failed + 1,
           DeliveredTaken'
    PROVE  DeliveryInv'
<1> USE DEF DeliveryInv, DeliveryRight
<1>1. /\ at \in left /\ at \in targets /\ left' \subseteq targets
      /\ Cardinality(left') = Cardinality(left) - 1
  BY ChannelDone, Zenon
<1>2. targets' = targets
  BY Zenon DEF targets
<1>3. alert \in 1 .. MaxAlerts /\ Cardinality(left) \in Nat
  BY Sizes DEF DeliveryTypeOK, Waiting
<1>4. DeliveryTypeOK'
  BY <1>1, <1>2, SMTT(30) DEF DeliveryTypeOK
<1>5. NothingLeft' /\ Disk' /\ Replied' /\ InOrder'
  BY Zenon DEF NothingLeft, Disk, Replied, InOrder
<1>6. Accounted'
  <2> DEFINE w == Cardinality(targets) * (Len(d_queue) + d_dropped)
             n == Cardinality(targets) * dispatch_calls
  <2>1. w \in Int /\ n \in Int
    <3>1. Cardinality(targets) \in Nat /\ Len(d_queue) + d_dropped \in Nat /\ dispatch_calls \in Nat
      BY Sizes DEF DeliveryTypes, DeliveryTypeOK
    <3> QED
      BY <3>1, Product, ZenonT(60)
  <2>2. w' = w /\ n' = n
    BY <1>2, Zenon
  <2>3. delivered + failed + Cardinality(left) + w = n
    BY Zenon DEF Accounted
  <2> HIDE DEF w, n
  <2>4. delivered \in Nat /\ failed \in Nat
    BY Zenon DEF DeliveryTypes
  <2>5. delivered' + failed' + (Cardinality(left) - 1) + w = n
    <3> DEFINE e == delivered'
               g == failed'
               c == Cardinality(left)
    <3>1. e \in Nat /\ g \in Nat /\ e + g = delivered + failed + 1 /\ c \in Nat /\ delivered + failed + c + w = n
      BY <1>3, <2>3, Zenon
    <3> HIDE DEF e, g, c
    <3>2. e + g + (c - 1) + w = n
      BY <2>1, <2>4, <3>1
    <3> QED
      BY <3>2, Zenon DEF e, g, c
  <2>6. delivered' + failed' + Cardinality(left') + w' = n'
    BY <1>1, <2>2, <2>5, Zenon
  <2> QED
    BY <2>6, Zenon DEF Accounted, w, n
<1>7. DeliveryTypes'
  <2>1. credited' \subseteq (1 .. MaxAlerts) \X targets
    BY <1>1, <1>3 DEF DeliveryTypes
  <2> QED
    BY <1>2, <2>1, Zenon DEF DeliveryTypes
<1>8. Waiting'
  BY Zenon DEF Waiting
<1>9. Heard'
  <2>1. Untold' \subseteq Untold
    BY Zenon DEF Untold
  <2> QED
    BY <2>1, Zenon DEF Heard
<1>10. Credit'
  <2> SUFFICES ASSUME NEW d \in credited'
               PROVE  d[1] <= alert /\ (d[1] = alert => d[2] \notin left')
    BY Zenon DEF Credit
  <2>1. CASE d \in credited
    BY <2>1, Zenon DEF Credit
  <2>2. CASE d = <<alert, at>>
    BY <1>3, <2>2
  <2> QED
    BY <2>1, <2>2, Zenon
<1> QED
  BY <1>4, <1>5, <1>6, <1>7, <1>8, <1>9, <1>10

(* The alerts a service heard are numbers. *)
LEMMA HeardNumbers ==
    ASSUME DeliveryAssumption, DeliveryTypes
    PROVE  \A c \in 1 .. Len(Channels) : \A i \in 1 .. Len(taken[c]) :
               taken[c][i] \in Nat /\ taken[c][i] \in 1 .. MaxAlerts
<1> TAKE c \in 1 .. Len(Channels)
<1> TAKE i \in 1 .. Len(taken[c])
<1>1. taken[c] \in Seq(1 .. MaxAlerts)
  BY Zenon DEF DeliveryTypes
<1>2. taken[c][i] \in 1 .. MaxAlerts
  BY <1>1, ElementOfSeq, ZenonT(60)
<1> QED
  BY <1>2 DEF DeliveryAssumption

(* A run of curl is heard or it is not: heard, the alert is the newest the *)
(* service has.                                                            *)
LEMMA CurlEnds ==
    ASSUME DeliveryAssumption, DeliveryInv, pc = "make", pc' = "reply",
           UNCHANGED <<dispatch_calls, d_queue, alert, left, made, disk, d_stopping, delivered, failed>>,
           UNCHANGED <<d_dropped, credited>>,
           taken' = taken \/ taken' = [taken EXCEPT ![at] = Append(@, alert)],
           Replied'
    PROVE  DeliveryInv'
<1> USE DEF DeliveryInv, DeliveryRight
<1>1. targets' = targets /\ at' = at /\ ch' = ch
  BY Zenon DEF targets, at, ch
<1>2. left # {} /\ at \in left /\ at \in 1 .. Len(Channels)
  <2>1. left # {}
    BY Zenon DEF DeliveryTypeOK
  <2> QED
    BY <2>1, ChannelDone, Zenon
<1>3. DeliveryTypeOK'
  BY <1>1, <1>2, Zenon DEF DeliveryTypeOK
<1>4. NothingLeft' /\ Disk' /\ Accounted' /\ Waiting' /\ Credit'
  BY <1>1, Zenon DEF NothingLeft, Disk, Accounted, Waiting, Credit
<1>5. Untold = left /\ Untold' = left \ {at}
  BY <1>1, Zenon DEF Untold
<1>6. CASE taken' = taken
  <2>1. InOrder' /\ DeliveredTaken' /\ DeliveryTypes'
    BY <1>1, <1>6, Zenon DEF InOrder, DeliveredTaken, DeliveryTypes
  <2>2. Heard'
    BY <1>5, <1>6, Zenon DEF Heard
  <2> QED
    BY <1>3, <1>4, <2>1, <2>2
<1>7. CASE taken' = [taken EXCEPT ![at] = Append(@, alert)]
  <2> DEFINE old == taken[at]
  <2>1. alert \in 1 .. MaxAlerts /\ alert \in Nat
    BY Sizes DEF DeliveryTypeOK, Waiting
  <2>2. /\ old \in Seq(1 .. MaxAlerts) /\ taken \in [1 .. Len(Channels) -> Seq(1 .. MaxAlerts)]
        /\ Len(old) \in Nat
    BY <1>2, LenProperties, Zenon DEF DeliveryTypes
  <2>3. taken'[at] = Append(old, alert) /\ \A c \in 1 .. Len(Channels) : c # at => taken'[c] = taken[c]
    BY <1>2, <1>7, <2>2
  <2>4. /\ taken'[at] \in Seq(1 .. MaxAlerts) /\ Len(taken'[at]) = Len(old) + 1
        /\ \A i \in 1 .. Len(old) : taken'[at][i] = old[i]
        /\ taken'[at][Len(old) + 1] = alert
        /\ Range(taken'[at]) = Range(old) \cup {alert}
    <3> HIDE DEF old
    <3>1. /\ Append(old, alert) \in Seq(1 .. MaxAlerts) /\ Len(Append(old, alert)) = Len(old) + 1
          /\ \A i \in 1 .. Len(old) : Append(old, alert)[i] = old[i]
          /\ Append(old, alert)[Len(old) + 1] = alert
          /\ Range(Append(old, alert)) = Range(old) \cup {alert}
      BY <2>1, <2>2, OneMoreAlert, Zenon
    <3> QED
      BY <2>3, <3>1, Zenon
  <2>5. \A i \in 1 .. Len(old) : old[i] \in Nat /\ old[i] < alert
    BY <1>2, <1>5, HeardNumbers DEF Heard
  <2>6. DeliveryTypes'
    <3>1. taken' \in [1 .. Len(Channels) -> Seq(1 .. MaxAlerts)]
      BY <1>2, <1>7, <2>2, <2>3, <2>4
    <3> QED
      BY <1>1, <3>1, Zenon DEF DeliveryTypes
  <2>7. InOrder'
    <3> SUFFICES ASSUME NEW c \in 1 .. Len(Channels), NEW i \in 1 .. Len(taken'[c]), NEW j \in 1 .. Len(taken'[c]),
                        i < j
                 PROVE  taken'[c][i] < taken'[c][j]
      BY Zenon DEF InOrder
    <3>1. CASE c # at
      BY <2>3, <3>1, Zenon DEF InOrder
    <3>2. CASE c = at /\ j = Len(old) + 1
      <4>1. i \in 1 .. Len(old)
        BY <2>2, <2>4, <3>2
      <4> QED
        BY <2>4, <2>5, <3>2, <4>1, Zenon
    <3>3. CASE c = at /\ j # Len(old) + 1
      <4>1. i \in 1 .. Len(old) /\ j \in 1 .. Len(old)
        BY <2>2, <2>4, <3>3
      <4>2. old[i] < old[j]
        BY <1>2, <4>1, Zenon DEF InOrder
      <4> QED
        BY <2>4, <3>3, <4>1, <4>2, Zenon
    <3> QED
      BY <3>1, <3>2, <3>3
  <2>8. DeliveredTaken'
    <3>1. \A d \in credited : d[2] \in targets /\ d[1] \in Range(taken'[d[2]])
      <4> TAKE d \in credited
      <4>1. d[2] \in targets /\ d[1] \in Range(taken[d[2]]) /\ d[2] \in 1 .. Len(Channels)
        BY Zenon DEF DeliveredTaken, targets
      <4> QED
        BY <2>3, <2>4, <4>1, Zenon
    <3> QED
      BY <1>1, <3>1, ZenonT(60) DEF DeliveredTaken
  <2>9. Heard'
    <3> SUFFICES ASSUME NEW c \in 1 .. Len(Channels), NEW i \in 1 .. Len(taken'[c])
                 PROVE  taken'[c][i] <= alert /\ (c \in left \ {at} => taken'[c][i] < alert)
      BY <1>5, ZenonT(60) DEF Heard
    <3>1. CASE c # at
      BY <1>5, <2>3, <3>1, Zenon DEF Heard
    <3>2. CASE c = at /\ i = Len(old) + 1
      BY <2>1, <2>4, <3>2
    <3>3. CASE c = at /\ i # Len(old) + 1
      <4>1. i \in 1 .. Len(old)
        BY <2>2, <2>4, <3>3
      <4>2. taken'[at][i] < alert /\ taken'[at][i] \in Nat
        BY <2>4, <2>5, <4>1, Zenon
      <4> QED
        BY <2>1, <3>3, <4>2
    <3> QED
      BY <3>1, <3>2, <3>3, Zenon
  <2> QED
    BY <1>3, <1>4, <2>6, <2>7, <2>8, <2>9, SMTT(30)
<1> QED
  BY <1>6, <1>7, Zenon

(* Every step of the tick's thread, of the stop and of the worker keeps it. *)
LEMMA DeliveryStep ==
    ASSUME DeliveryAssumption, DeliveryInv, [DeliveryNext]_alertvars
    PROVE  DeliveryInv'
<1> USE DEF DeliveryInv, DeliveryRight
<1>1. CASE dispatch
  BY <1>1, DispatchStep, Zenon
<1>2. CASE stop \/ UNCHANGED alertvars
  <2>1. /\ UNCHANGED <<dispatch_calls, d_queue, pc, alert, left, made, disk, ran, reply>>
        /\ UNCHANGED <<delivered, failed, d_dropped, taken, credited>> /\ (d_stopping => d_stopping')
    BY <1>2 DEF stop, alertvars, job, curl, counts
  <2>2. (NothingLeft /\ DeliveredTaken /\ InOrder /\ Disk /\ Heard /\ Credit /\ Replied)'
    BY <2>1, WorkerRests, Zenon
  <2>3. ch' = ch /\ targets' = targets
    BY <2>1, Zenon DEF at, ch, targets
  <2>4. DeliveryTypeOK' /\ DeliveryTypes' /\ Accounted'
    BY <2>1, <2>3, Zenon DEF DeliveryTypeOK, DeliveryTypes, Accounted
  <2>5. Waiting'
    BY <2>1, Zenon DEF Waiting
  <2> QED
    BY <2>2, <2>4, <2>5, Zenon
<1>3. CASE JobTaken
  <2>1. /\ pc = "idle" /\ pc' = "job" /\ d_queue # <<>> /\ alert' = Head(d_queue) /\ d_queue' = Tail(d_queue)
        /\ left' = targets
        /\ UNCHANGED <<dispatch_calls, made, disk, d_stopping, d_dropped, delivered, failed, taken, credited>>
    BY <1>3, Zenon DEF JobTaken, curl, counts
  <2>2. /\ targets' = targets /\ Cardinality(targets) \in Nat /\ Cardinality(left) = 0
        /\ d_queue \in Seq(1 .. MaxAlerts) /\ MaxAlerts \in Nat /\ kMaxQueue \in Nat
    BY <2>1, Sizes, FS_EmptySet, Zenon DEF targets, Disk
  <2>3. /\ Head(d_queue) \in 1 .. MaxAlerts /\ Head(d_queue) = d_queue[1] /\ d_queue' \in Seq(1 .. MaxAlerts)
        /\ Len(d_queue) \in Nat /\ Len(d_queue) >= 1 /\ Len(d_queue') = Len(d_queue) - 1
        /\ \A i \in 1 .. Len(d_queue) - 1 : d_queue'[i] = d_queue[i + 1]
    BY <2>1, <2>2, OneLess
  <2>4. \A i \in 1 .. Len(d_queue) : d_queue[i] \in Nat
    BY <2>2, ElementOfSeq, SMTT(30)
  <2>5. alert < alert' /\ alert \in Nat /\ alert' \in Nat /\ alert' <= dispatch_calls /\ dispatch_calls \in Nat
    BY <2>1, <2>3, <2>4 DEF Waiting, DeliveryTypeOK
  <2>6. DeliveryTypeOK'
    BY <2>1, <2>2, <2>3, <2>5, SMTT(30) DEF DeliveryTypeOK
  <2>7. NothingLeft' /\ Disk' /\ Replied' /\ InOrder' /\ DeliveredTaken' /\ DeliveryTypes'
    BY <2>1, <2>2, Zenon DEF NothingLeft, Disk, Replied, InOrder, DeliveredTaken, DeliveryTypes
  <2>8. Accounted'
    <3> DEFINE t == Cardinality(targets)
               n == Len(d_queue') + d_dropped
               c == t * dispatch_calls
    <3>1. n \in Nat /\ Len(d_queue) + d_dropped = n + 1 /\ c \in Int
      <4>1. d_dropped \in Nat
        BY Zenon DEF DeliveryTypes
      <4>2. c \in Int
        BY <2>2, <2>5
      <4> QED
        BY <2>3, <4>1, <4>2
    <3>2. t * (n + 1) = t * n + t
      BY <2>2, <3>1, OneEach, Zenon
    <3>3. delivered + failed + 0 + t * (n + 1) = c
      BY <2>2, <3>1, Zenon DEF Accounted
    <3>4. delivered \in Nat /\ failed \in Nat /\ t \in Nat /\ t * n \in Int
      BY <2>2, <3>1 DEF DeliveryTypes
    <3> HIDE DEF n, c
    <3>5. delivered + failed + t + t * n = c
      BY <3>2, <3>3, <3>4, SMTT(30)
    <3> QED
      BY <2>1, <2>2, <3>5, Zenon DEF Accounted, n, c
  <2>9. Waiting'
    <3>1. \A i \in 1 .. Len(d_queue') : alert' < d_queue'[i] /\ d_queue'[i] <= dispatch_calls
      BY <2>1, <2>3, <2>4 DEF Waiting
    <3>2. ASSUME NEW i \in 1 .. Len(d_queue'), NEW j \in 1 .. Len(d_queue'), i < j
          PROVE  d_queue'[i] < d_queue'[j]
      <4>1. i + 1 \in 1 .. Len(d_queue) /\ j + 1 \in 1 .. Len(d_queue) /\ i + 1 < j + 1
        BY <2>3, <3>2
      <4>2. d_queue[i + 1] < d_queue[j + 1]
        BY <4>1, ZenonT(60) DEF Waiting
      <4> QED
        BY <2>3, <4>2, Zenon
    <3> QED
      BY <2>1, <2>3, <2>5, <3>1, <3>2 DEF Waiting
  <2>10. Heard'
    <3>1. \A c \in 1 .. Len(Channels) : \A i \in 1 .. Len(taken[c]) : taken[c][i] \in Nat
      BY HeardNumbers, Zenon
    <3> QED
      BY <2>1, <2>5, <3>1, SMTT(30) DEF Heard
  <2>11. Credit'
    BY <2>1, <2>2, <2>5, SMTT(90) DEF Credit, DeliveryTypes
  <2> QED
    BY <2>6, <2>7, <2>8, <2>9, <2>10, <2>11, Zenon
<1>4. CASE WorkerEnds
  <2>1. /\ pc = "idle" /\ pc' = "ended" /\ d_stopping /\ d_dropped' = d_dropped + Len(d_queue) /\ d_queue' = <<>>
        /\ UNCHANGED <<dispatch_calls, alert, left, made, disk, d_stopping, delivered, failed, taken, credited>>
    BY <1>4, Zenon DEF WorkerEnds, job, curl
  <2>2. /\ targets' = targets /\ Len(d_queue) \in Nat /\ kMaxQueue \in Nat
        /\ Len(d_queue') = 0 /\ d_queue' \in Seq(1 .. MaxAlerts)
    BY <2>1, Sizes, EmptySeq, SMTT(30) DEF targets
  <2>3. DeliveryTypeOK'
    BY <2>1, <2>2, SMTT(30) DEF DeliveryTypeOK
  <2>4. NothingLeft' /\ Disk' /\ Replied' /\ InOrder' /\ DeliveredTaken' /\ DeliveryTypes'
    BY <2>1, <2>2 DEF NothingLeft, Disk, Replied, InOrder, DeliveredTaken, DeliveryTypes
  <2>5. Accounted'
    <3>1. Len(d_queue') + d_dropped' = Len(d_queue) + d_dropped
      BY <2>1, <2>2 DEF DeliveryTypes
    <3> QED
      BY <2>1, <2>2, <3>1, Zenon DEF Accounted
  <2>6. Waiting'
    BY <2>1, <2>2, SMTT(30) DEF Waiting
  <2>7. Heard' /\ Credit'
    BY <2>1, Zenon DEF Heard, Credit, Untold, Disk
  <2> QED
    BY <2>3, <2>4, <2>5, <2>6, <2>7, Zenon
<1>5. CASE JobDone
  <2>1. /\ pc = "job" /\ pc' = "idle" /\ left = {}
        /\ UNCHANGED <<dispatch_calls, d_queue, alert, left, made, disk, d_stopping, delivered, failed>>
        /\ UNCHANGED <<d_dropped, taken, credited>>
    BY <1>5, Zenon DEF JobDone, job, curl, counts
  <2>2. targets' = targets
    BY SMTT(30) DEF targets
  <2>3. DeliveryTypeOK' /\ Accounted' /\ Waiting'
    BY <2>1, <2>2, SMTT(30) DEF DeliveryTypeOK, Accounted, Waiting
  <2>4. NothingLeft' /\ Disk' /\ Replied' /\ InOrder' /\ DeliveredTaken' /\ DeliveryTypes'
    BY <2>1, <2>2, SMTT(90) DEF NothingLeft, Disk, Replied, InOrder, DeliveredTaken, DeliveryTypes
  <2>5. Heard' /\ Credit'
    BY <2>1, Zenon DEF Heard, Credit, Untold
  <2> QED
    BY <2>3, <2>4, <2>5, Zenon
<1>6. CASE ChannelSkipped
  <2>1. /\ left # {} /\ left' = left \ {at} /\ pc = "job" /\ pc' = "job" /\ failed' = failed + 1
        /\ UNCHANGED <<dispatch_calls, d_queue, alert, made, disk, d_dropped, taken, credited, delivered>>
    BY <1>6, Zenon DEF ChannelSkipped, curl
  <2>2. disk' = {}
    BY <2>1, Zenon DEF NothingLeft
  <2>3. DeliveredTaken'
    BY <2>1, Zenon DEF DeliveredTaken, targets
  <2>4. /\ delivered' \in Nat /\ failed' \in Nat /\ delivered' + failed' = delivered + failed + 1
        /\ IsFiniteSet(credited') /\ credited' \subseteq credited \cup {<<alert, at>>}
    BY <2>1 DEF DeliveryTypes
  <2> QED
    BY <2>1, <2>2, <2>3, <2>4, ChannelLeaves, ZenonT(60)
<1>7. CASE SendBegins
  <2>1. /\ pc = "job" /\ pc' = "make" /\ left # {} /\ made' = <<>>
        /\ UNCHANGED <<dispatch_calls, d_queue, alert, left, disk, d_stopping, delivered, failed>>
        /\ UNCHANGED <<d_dropped, taken, credited>>
    BY <1>7, Zenon DEF SendBegins, job, counts
  <2>2. targets' = targets /\ Len(made') = 0 /\ made' \in Seq(Names) /\ Range(made') = {} /\ Len(Files(ch')) \in Nat
    BY <2>1, EmptySeq, FileNames, SMTT(30) DEF targets, Range
  <2>3. DeliveryTypeOK'
    BY <2>1, <2>2, SMTT(30) DEF DeliveryTypeOK
  <2>4. Accounted' /\ Waiting' /\ DeliveryTypes'
    BY <2>1, <2>2, SMTT(90) DEF Accounted, Waiting, DeliveryTypes
  <2>5. NothingLeft' /\ Disk' /\ Replied' /\ InOrder' /\ DeliveredTaken'
    BY <2>1, <2>2, ZenonT(60) DEF NothingLeft, Disk, Replied, InOrder, DeliveredTaken
  <2>6. Heard' /\ Credit'
    BY <2>1, Zenon DEF Heard, Credit, Untold
  <2> QED
    BY <2>3, <2>4, <2>5, <2>6, Zenon
<1>8. CASE FileMade
  <2> DEFINE f == Files(ch)[Len(made) + 1]
  <2>1. /\ pc = "make" /\ pc' = "make" /\ made # Files(ch) /\ made' = Append(made, f) /\ disk' = disk \cup {f}
        /\ UNCHANGED <<dispatch_calls, d_queue, alert, left, d_stopping, delivered, failed, ran, reply>>
        /\ UNCHANGED <<d_dropped, taken, credited>>
    BY <1>8, Zenon DEF FileMade, job, counts
  <2>2. targets' = targets /\ ch' = ch /\ at' = at
    BY <2>1, ZenonT(60) DEF targets, ch, at
  <2>3. /\ Files(ch) \in Seq(Names) /\ made \in Seq(Names) /\ Len(Files(ch)) \in Nat /\ Len(made) \in Nat
        /\ Len(made) <= Len(Files(ch)) /\ \A i \in 1 .. Len(made) : made[i] = Files(ch)[i]
    BY <2>1, FileNames, LenProperties DEF DeliveryTypeOK, DeliveryTypes
  <2>4. Len(made) < Len(Files(ch))
    <3>1. Len(made) = Len(Files(ch)) => made = Files(ch)
      BY <2>3, SeqEqual, Zenon
    <3> QED
      BY <2>1, <2>3, <3>1
  <2>5. f \in Names
    BY <2>3, <2>4, ElementOfSeq, SMTT(90)
  <2>6. /\ made' \in Seq(Names) /\ Len(made') = Len(made) + 1 /\ Range(made') = Range(made) \cup {f}
        /\ \A i \in 1 .. Len(made) : made'[i] = made[i]
        /\ made'[Len(made) + 1] = f
    BY <2>1, <2>3, <2>5, OneMore, SMTT(90)
  <2>7. Len(made') <= Len(Files(ch)) /\ \A i \in 1 .. Len(made') : made'[i] = Files(ch)[i]
    BY <2>3, <2>4, <2>6
  <2>8. DeliveryTypeOK'
    BY <2>1, <2>2, <2>7, Zenon DEF DeliveryTypeOK
  <2>9. Accounted' /\ Waiting' /\ DeliveryTypes'
    BY <2>1, <2>2, <2>6, ZenonT(60) DEF Accounted, Waiting, DeliveryTypes
  <2>10. NothingLeft' /\ Disk' /\ Replied'
    BY <2>1, <2>6, Zenon DEF NothingLeft, Disk, Replied
  <2>11. InOrder' /\ DeliveredTaken'
    BY <2>1, <2>2, Zenon DEF InOrder, DeliveredTaken
  <2>12. Heard' /\ Credit'
    BY <2>1, <2>2, Zenon DEF Heard, Credit, Untold
  <2> QED
    BY <2>8, <2>9, <2>10, <2>11, <2>12, Zenon
<1>9. CASE FileFails
  <2>1. /\ left # {} /\ left' = left \ {at} /\ pc = "make" /\ pc' = "job" /\ failed' = failed + 1
        /\ UNCHANGED <<dispatch_calls, d_queue, alert, made, d_dropped, taken, credited, delivered>>
        /\ disk' = disk \ Range(made)
    BY <1>9, Zenon DEF FileFails, Cleanup, DeliveryTypeOK
  <2>2. disk' = {}
    BY <2>1, Zenon DEF Disk
  <2>3. DeliveredTaken'
    BY <2>1, Zenon DEF DeliveredTaken, targets
  <2>4. /\ delivered' \in Nat /\ failed' \in Nat /\ delivered' + failed' = delivered + failed + 1
        /\ IsFiniteSet(credited') /\ credited' \subseteq credited \cup {<<alert, at>>}
    BY <2>1 DEF DeliveryTypes
  <2> QED
    BY <2>1, <2>2, <2>3, <2>4, ChannelLeaves, ZenonT(60)
<1>10. CASE CurlExitsZero
  <2>1. /\ pc = "make" /\ pc' = "reply" /\ ran' = TRUE
        /\ UNCHANGED <<dispatch_calls, d_queue, alert, left, made, disk, d_stopping, delivered, failed>>
        /\ UNCHANGED <<d_dropped, credited>>
        /\ taken' = IF ch.type = "smtp" \/ Accepts(reply')
                    THEN [taken EXCEPT ![at] = Append(@, alert)] ELSE taken
    BY <1>10, Zenon DEF CurlExitsZero, job, counts
  <2>2. at' = at /\ ch' = ch /\ http_ok' = Accepts(reply')
    BY <2>1, Zenon DEF at, ch, http_ok, Accepts
  <2>3. CASE ch.type = "smtp" \/ Accepts(reply')
    <3>1. taken' = [taken EXCEPT ![at] = Append(@, alert)]
      BY <2>1, <2>3, Zenon
    <3>2. at \in 1 .. Len(Channels) /\ taken[at] \in Seq(1 .. MaxAlerts) /\ alert \in 1 .. MaxAlerts
      <4>1. at \in 1 .. Len(Channels)
        BY <2>1, ChannelDone, SMTT(90) DEF DeliveryTypeOK
      <4>2. alert \in 1 .. MaxAlerts
        BY <2>1, Sizes DEF DeliveryTypeOK, Waiting
      <4> QED
        BY <4>1, <4>2, SMTT(90) DEF DeliveryTypes
    <3>3. taken'[at] = Append(taken[at], alert)
      BY <3>1, <3>2, Zenon DEF DeliveryTypes
    <3>4. alert' \in Range(taken'[at'])
      <4>1. Range(Append(taken[at], alert)) = Range(taken[at]) \cup {alert}
        BY <3>2, OneMoreAlert, Zenon
      <4> QED
        BY <2>1, <2>2, <3>3, <4>1, Zenon
    <3>5. Replied'
      BY <3>4, Zenon DEF Replied
    <3> QED
      BY <2>1, <3>1, <3>5, CurlEnds, Zenon
  <2>4. CASE ~(ch.type = "smtp" \/ Accepts(reply'))
    <3>1. taken' = taken
      BY <2>1, <2>4, Zenon
    <3>2. Replied'
      BY <2>2, <2>4, Zenon DEF Replied
    <3> QED
      BY <2>1, <3>1, <3>2, CurlEnds, Zenon
  <2> QED
    BY <2>3, <2>4, Zenon
<1>11. CASE CurlFails
  <2>1. /\ pc = "make" /\ pc' = "reply" /\ ran' = FALSE
        /\ UNCHANGED <<dispatch_calls, d_queue, alert, left, made, disk, d_stopping, delivered, failed>>
        /\ UNCHANGED <<d_dropped, credited>>
        /\ taken' = taken \/ taken' = [taken EXCEPT ![at] = Append(@, alert)]
    BY <1>11, Zenon DEF CurlFails, job, counts
  <2>2. Replied'
    BY <2>1, Zenon DEF Replied
  <2> QED
    BY <2>1, <2>2, CurlEnds, ZenonT(60)
<1>12. CASE SendDone
  <2>1. /\ left # {} /\ left' = left \ {at} /\ pc = "reply" /\ pc' = "job"
        /\ UNCHANGED <<dispatch_calls, d_queue, alert, made, d_dropped, taken>>
        /\ disk' = disk \ Range(made)
    BY <1>12, Zenon DEF SendDone, Cleanup, DeliveryTypeOK
  <2>2. disk' = {}
    BY <2>1, Zenon DEF Disk
  <2>3. at \in left /\ at \in targets /\ targets' = targets
    BY <2>1, ChannelDone, Zenon DEF targets
  <2>4. CASE delivered' = delivered + 1 /\ credited' = credited \cup {<<alert, at>>} /\ UNCHANGED failed
             /\ ran /\ (ch.type = "smtp" \/ http_ok)
    <3>1. <<alert, at>> \notin credited
      BY <2>3, Zenon DEF Credit
    <3>2. IsFiniteSet(credited) /\ Cardinality(credited) \in Nat
      BY FS_CardinalityType, SMTT(30) DEF DeliveryTypes
    <3>3. IsFiniteSet(credited') /\ Cardinality(credited') = Cardinality(credited) + 1
      BY <2>4, <3>1, <3>2, FS_AddElement, SMTT(30)
    <3>4. alert \in Range(taken[at])
      BY <2>1, <2>4, Zenon DEF Replied
    <3>5. \A d \in credited' : d[2] \in targets /\ d[1] \in Range(taken[d[2]])
      BY <2>3, <2>4, <3>4, SMTT(90) DEF DeliveredTaken
    <3>6. DeliveredTaken'
      BY <2>1, <2>3, <2>4, <3>3, <3>5 DEF DeliveredTaken
    <3>7. delivered' \in Nat /\ failed' \in Nat /\ delivered' + failed' = delivered + failed + 1
      BY <2>4 DEF DeliveryTypes
    <3> QED
      BY <2>1, <2>2, <2>4, <3>3, <3>6, <3>7, ChannelLeaves, ZenonT(60)
  <2>5. CASE failed' = failed + 1 /\ UNCHANGED <<delivered, credited>>
    <3>1. DeliveredTaken'
      BY <2>1, <2>3, <2>5 DEF DeliveredTaken
    <3>2. /\ delivered' \in Nat /\ failed' \in Nat /\ delivered' + failed' = delivered + failed + 1
          /\ IsFiniteSet(credited') /\ credited' \subseteq credited \cup {<<alert, at>>}
      BY <2>5, SMTT(30) DEF DeliveryTypes
    <3> QED
      BY <2>1, <2>2, <3>1, <3>2, ChannelLeaves, ZenonT(60)
  <2> QED
    BY <1>12, <2>4, <2>5, ZenonT(60) DEF SendDone
<1> QED
  BY <1>1, <1>2, <1>3, <1>4, <1>5, <1>6, <1>7, <1>8, <1>9, <1>10, <1>11, <1>12, ZenonT(60)
  DEF DeliveryNext, WorkerStep

(* Whatever fails, is refused or is cut off, and whenever the stop comes. *)
THEOREM DeliveryInvariant == DeliveryAssumption => (DeliverySpec => []DeliveryInv)
<1> SUFFICES ASSUME DeliveryAssumption PROVE DeliverySpec => []DeliveryInv
  BY Zenon
<1>1. DeliveryInit => DeliveryInv
  BY DeliveryStart, Zenon
<1>2. DeliveryInv /\ [DeliveryNext]_alertvars => DeliveryInv'
  BY DeliveryStep, Zenon
<1> QED
  BY <1>1, <1>2, PTL DEF DeliverySpec

(* For every list of channels, queue bound, number of alerts and set of    *)
(* answers: each alert is delivered, failed, still to do or counted        *)
(* dropped on each complete channel, a service hears it at most once and   *)
(* in order, what is counted delivered was taken, and no temp file with    *)
(* the credentials outlives its send.                                      *)
THEOREM DeliveryIsRight == DeliveryAssumption => (DeliverySpec => []DeliveryRight)
<1> SUFFICES ASSUME DeliveryAssumption PROVE DeliverySpec => []DeliveryRight
  BY Zenon
<1>1. DeliveryInv => DeliveryRight
  BY Zenon DEF DeliveryInv
<1> QED
  BY <1>1, DeliveryInvariant, PTL
=============================================================================
