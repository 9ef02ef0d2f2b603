----------------------------- MODULE LimitsProofs ----------------------------
(***************************************************************************)
(* Proofs about the two budgets that bound what others may ask of the      *)
(* daemon: the time one connection may take (HttpServer), for every time   *)
(* bound, request, response and socket buffer; and the instructions and    *)
(* memory of one call into Lua (LuaLimits), for every limit, interval of   *)
(* the hook, charge per byte, length of a table and size of an allocation. *)
(***************************************************************************)
EXTENDS HttpServer, LuaLimits, FiniteSetTheorems, TLAPS

-----------------------------------------------------------------------------
(* One connection of the HTTP server.                                      *)


\* The flags and ranges TypeOK leaves out; a request still to be read.
Flags ==
    /\ running \in BOOLEAN /\ listening \in BOOLEAN /\ serving \in BOOLEAN
    /\ hijacked \in BOOLEAN /\ gone \in BOOLEAN /\ cut \in BOOLEAN

Ranges ==
    /\ now \in Nat /\ began \in Nat /\ deadline \in Nat /\ waited \in Nat
    /\ inq \in Nat /\ got + inq <= ReqLen

\* Which thread is where: the loop's thread exists from start() to the join.
LoopThread ==
    /\ spc = "none" /\ ~running => pc = "off"
    /\ spc # "none" => ~running
    /\ spc = "done" => pc = "off"
    /\ spc \in {"closing", "shutting"} => now = asked

\* What a connection holds on its way through handle_client().
Connection ==
    /\ pc \in Serving => ~hijacked
    /\ pc = "done" /\ hijacked => "conn" \notin fds
    /\ pc \in {"first", "recv", "handle"} => sent = 0 /\ deadline = began + io_timeout
    /\ pc = "send" => /\ deadline <= began + io_timeout + io_timeout + rate_allowance(resp)
                      /\ now <= deadline

(* The inductive invariant: what is promised, and why each step keeps it. *)
ServerInv == ServerSafe /\ Flags /\ Ranges /\ LoopThread /\ Connection

(* The time a response is allowed at the minimum rate is a number. *)
LEMMA Allowance ==
    ASSUME ServerAssumption
    PROVE  \A n \in {0} \cup RespLens : rate_allowance(n) \in Nat
BY DEF ServerAssumption, rate_allowance

(* Before the first start() nothing is open and nobody waits. *)
LEMMA ServerStart == ServerAssumption /\ Init => ServerInv
<1> SUFFICES ASSUME ServerAssumption, Init PROVE ServerInv
  OBVIOUS
<1> USE DEF Init
<1>1. TypeOK
  BY DEF TypeOK, Serving, ServerAssumption
<1>2. NoFdLeak
  BY DEF NoFdLeak, Serving, ServerAssumption
<1>3. ThreadFreed
  BY DEF ThreadFreed, Serving, ServerAssumption
<1>4. StopPrompt
  BY DEF StopPrompt, Serving, ServerAssumption
<1>5. Ranges
  BY DEF Ranges, Serving, ServerAssumption
<1>6. LoopThread
  BY DEF LoopThread, Serving, ServerAssumption
<1>7. Connection
  BY DEF Connection, Serving, ServerAssumption
<1>8. Flags
  BY Zenon DEF Flags, Serving, ServerAssumption
<1> QED
  BY <1>1, <1>2, <1>3, <1>4, <1>5, <1>6, <1>7, <1>8, Zenon DEF ServerInv, ServerSafe

(* Every step of the thread, of stop(), of the client and of the clock keeps it. *)
LEMMA ServerStep ==
    ASSUME ServerAssumption, ServerInv, [Next]_vars
    PROVE  ServerInv'
<1> USE DEF ServerInv, ServerSafe, TypeOK, NoFdLeak, ThreadFreed, StopPrompt,
            Flags, Ranges, LoopThread, Connection, Serving
<1>1. CASE Start
  <2>1. Flags'
    BY <1>1, Zenon DEF Start, socket
  <2>2. TypeOK' /\ NoFdLeak'
    BY <1>1, SMTT(30) DEF Start, socket
  <2>3. ThreadFreed' /\ StopPrompt'
    BY <1>1, SMTT(30) DEF Start, socket
  <2>4. Ranges' /\ LoopThread' /\ Connection'
    BY <1>1, SMTT(30) DEF Start, socket
  <2> QED
    BY <2>1, <2>2, <2>3, <2>4, Zenon
<1>2. CASE StartFails
  <2>1. Flags'
    BY <1>2, Zenon DEF StartFails, thread, socket
  <2>2. TypeOK' /\ NoFdLeak'
    BY <1>2, SMTT(30) DEF StartFails, thread, socket
  <2>3. ThreadFreed' /\ StopPrompt'
    BY <1>2, SMTT(30) DEF StartFails, thread, socket
  <2>4. Ranges' /\ LoopThread' /\ Connection'
    BY <1>2, SMTT(30) DEF StartFails, thread, socket
  <2> QED
    BY <2>1, <2>2, <2>3, <2>4, Zenon
<1>3. CASE LoopTop
  <2>1. Flags'
    BY <1>3, Zenon DEF LoopTop, Step, Elsewhere, socket
  <2>2. TypeOK' /\ NoFdLeak'
    BY <1>3, SMTT(30) DEF LoopTop, Step, Elsewhere, socket
  <2>3. ThreadFreed' /\ StopPrompt'
    BY <1>3, SMTT(30) DEF LoopTop, Step, Elsewhere, socket
  <2>4. Ranges' /\ LoopThread' /\ Connection'
    BY <1>3, SMTT(30) DEF LoopTop, Step, Elsewhere, socket
  <2> QED
    BY <2>1, <2>2, <2>3, <2>4, Zenon
<1>4. CASE Accept
  <2>1. Flags'
    BY <1>4, Zenon DEF Accept, Step, ServerAssumption
  <2>2. TypeOK' /\ NoFdLeak'
    BY <1>4, SMTT(30) DEF Accept, Step, ServerAssumption
  <2>3. ThreadFreed' /\ StopPrompt'
    BY <1>4, SMTT(30) DEF Accept, Step, ServerAssumption
  <2>4. Ranges' /\ LoopThread' /\ Connection'
    BY <1>4, SMTT(30) DEF Accept, Step, ServerAssumption
  <2> QED
    BY <2>1, <2>2, <2>3, <2>4, Zenon
<1>5. CASE AcceptFails
  <2>1. Flags'
    BY <1>5, Zenon DEF AcceptFails, Step, Elsewhere, socket
  <2>2. TypeOK' /\ NoFdLeak'
    BY <1>5, SMTT(30) DEF AcceptFails, Step, Elsewhere, socket
  <2>3. ThreadFreed' /\ StopPrompt'
    BY <1>5, SMTT(30) DEF AcceptFails, Step, Elsewhere, socket
  <2>4. Ranges' /\ LoopThread' /\ Connection'
    BY <1>5, SMTT(30) DEF AcceptFails, Step, Elsewhere, socket
  <2> QED
    BY <2>1, <2>2, <2>3, <2>4, Zenon
<1>6. CASE AcceptEnds
  <2>1. Flags'
    BY <1>6, Zenon DEF AcceptEnds, Step, Elsewhere, socket
  <2>2. TypeOK' /\ NoFdLeak'
    BY <1>6, SMTT(30) DEF AcceptEnds, Step, Elsewhere, socket
  <2>3. ThreadFreed' /\ StopPrompt'
    BY <1>6, SMTT(30) DEF AcceptEnds, Step, Elsewhere, socket
  <2>4. Ranges' /\ LoopThread' /\ Connection'
    BY <1>6, SMTT(30) DEF AcceptEnds, Step, Elsewhere, socket
  <2> QED
    BY <2>1, <2>2, <2>3, <2>4, Zenon
<1>7. CASE HandleClient
  <2>1. Flags'
    BY <1>7, Zenon DEF HandleClient, Elsewhere, socket, ServerAssumption
  <2>2. TypeOK' /\ NoFdLeak'
    BY <1>7, SMTT(30) DEF HandleClient, Elsewhere, socket, ServerAssumption
  <2>3. ThreadFreed' /\ StopPrompt'
    BY <1>7, SMTT(30) DEF HandleClient, Elsewhere, socket, ServerAssumption
  <2>4. Ranges' /\ LoopThread' /\ Connection'
    BY <1>7, SMTT(30) DEF HandleClient, Elsewhere, socket, ServerAssumption
  <2> QED
    BY <2>1, <2>2, <2>3, <2>4, Zenon
<1>8. CASE FirstByte
  <2>1. Flags'
    BY <1>8, Zenon DEF FirstByte, Elsewhere, socket
  <2>2. TypeOK' /\ NoFdLeak'
    BY <1>8, SMTT(30) DEF FirstByte, Elsewhere, socket
  <2>3. ThreadFreed' /\ StopPrompt'
    BY <1>8, SMTT(30) DEF FirstByte, Elsewhere, socket
  <2>4. Ranges' /\ LoopThread' /\ Connection'
    BY <1>8, SMTT(30) DEF FirstByte, Elsewhere, socket
  <2> QED
    BY <2>1, <2>2, <2>3, <2>4, Zenon
<1>9. CASE Recv
  <2>1. Flags'
    BY <1>9, Zenon DEF Recv, RecvExpired, Elsewhere, ServerAssumption
  <2>2. TypeOK' /\ NoFdLeak'
    BY <1>9, SMTT(30) DEF Recv, RecvExpired, Elsewhere, ServerAssumption
  <2>3. ThreadFreed' /\ StopPrompt'
    BY <1>9, SMTT(30) DEF Recv, RecvExpired, Elsewhere, ServerAssumption
  <2>4. Ranges' /\ LoopThread' /\ Connection'
    BY <1>9, SMTT(30) DEF Recv, RecvExpired, Elsewhere, ServerAssumption
  <2> QED
    BY <2>1, <2>2, <2>3, <2>4, Zenon
<1>10. CASE Handle
  <2>1. Flags'
    BY <1>10, Zenon DEF Handle, socket
  <2>2. CASE hijacked'
    BY <1>10, <2>1, <2>2, Zenon DEF Handle, socket
  <2>3. CASE ~hijacked'
    <3>1. /\ resp' \in RespLens /\ deadline' = now + io_timeout + rate_allowance(resp')
          /\ pc' = "send" /\ waited' = now /\ UNCHANGED <<hijacked, fds>>
          /\ UNCHANGED <<got, sent, began, running, listening, serving, inq, room, gone, cut, spc, now, asked>>
      BY <1>10, <2>3 DEF Handle, socket
    <3>2. rate_allowance(resp') \in Nat /\ resp' \in Nat /\ io_timeout \in Nat
      BY <3>1, Allowance DEF ServerAssumption
    <3>3. TypeOK' /\ NoFdLeak' /\ StopPrompt' /\ LoopThread'
      BY <1>10, <3>1, <3>2 DEF Handle
    <3>4. ThreadFreed' /\ Ranges' /\ Connection'
      BY <1>10, <3>1, <3>2 DEF Handle, rate_allowance
    <3> QED
      BY <2>1, <3>3, <3>4
  <2> QED
    BY <2>1, <2>2, <2>3
<1>11. CASE Send
  <2>1. Flags'
    BY <1>11, Zenon DEF Send, Elsewhere, ServerAssumption
  <2>2. TypeOK' /\ NoFdLeak'
    BY <1>11, SMTT(30) DEF Send, Elsewhere, ServerAssumption
  <2>3. ThreadFreed' /\ StopPrompt'
    BY <1>11, SMTT(30) DEF Send, Elsewhere, ServerAssumption
  <2>4. Ranges' /\ LoopThread' /\ Connection'
    BY <1>11, SMTT(30) DEF Send, Elsewhere, ServerAssumption
  <2> QED
    BY <2>1, <2>2, <2>3, <2>4, Zenon
<1>12. CASE Finish
  <2>1. Flags'
    BY <1>12, Zenon DEF Finish, Step, socket
  <2>2. TypeOK' /\ NoFdLeak'
    BY <1>12, SMTT(30) DEF Finish, Step, socket
  <2>3. ThreadFreed' /\ StopPrompt'
    BY <1>12, SMTT(30) DEF Finish, Step, socket
  <2>4. Ranges' /\ LoopThread' /\ Connection'
    BY <1>12, SMTT(30) DEF Finish, Step, socket
  <2> QED
    BY <2>1, <2>2, <2>3, <2>4, Zenon
<1>13. CASE StopBegins
  <2>1. Flags'
    BY <1>13, Zenon DEF StopBegins, thread, socket
  <2>2. TypeOK' /\ NoFdLeak'
    BY <1>13, SMTT(30) DEF StopBegins, thread, socket
  <2>3. ThreadFreed' /\ StopPrompt'
    BY <1>13, SMTT(30) DEF StopBegins, thread, socket
  <2>4. Ranges' /\ LoopThread' /\ Connection'
    BY <1>13, SMTT(30) DEF StopBegins, thread, socket
  <2> QED
    BY <2>1, <2>2, <2>3, <2>4, Zenon
<1>14. CASE StopCloses
  <2>1. Flags'
    BY <1>14, Zenon DEF StopCloses, thread, socket
  <2>2. TypeOK' /\ NoFdLeak'
    BY <1>14, SMTT(30) DEF StopCloses, thread, socket
  <2>3. ThreadFreed' /\ StopPrompt'
    BY <1>14, SMTT(30) DEF StopCloses, thread, socket
  <2>4. Ranges' /\ LoopThread' /\ Connection'
    BY <1>14, SMTT(30) DEF StopCloses, thread, socket
  <2> QED
    BY <2>1, <2>2, <2>3, <2>4, Zenon
<1>15. CASE StopShutsDown
  <2>1. Flags'
    BY <1>15, Zenon DEF StopShutsDown, thread
  <2>2. TypeOK' /\ NoFdLeak'
    BY <1>15, SMTT(30) DEF StopShutsDown, thread
  <2>3. ThreadFreed' /\ StopPrompt'
    BY <1>15, SMTT(30) DEF StopShutsDown, thread
  <2>4. Ranges' /\ LoopThread' /\ Connection'
    BY <1>15, SMTT(30) DEF StopShutsDown, thread
  <2> QED
    BY <2>1, <2>2, <2>3, <2>4, Zenon
<1>16. CASE StopJoins
  <2>1. Flags'
    BY <1>16, Zenon DEF StopJoins, socket
  <2>2. TypeOK' /\ NoFdLeak'
    BY <1>16, SMTT(30) DEF StopJoins, socket
  <2>3. ThreadFreed' /\ StopPrompt'
    BY <1>16, SMTT(30) DEF StopJoins, socket
  <2>4. Ranges' /\ LoopThread' /\ Connection'
    BY <1>16, SMTT(30) DEF StopJoins, socket
  <2> QED
    BY <2>1, <2>2, <2>3, <2>4, Zenon
<1>17. CASE Client
  <2>1. Flags'
    BY <1>17, Zenon DEF Client, thread, ServerAssumption
  <2>2. TypeOK' /\ NoFdLeak'
    BY <1>17, SMTT(30) DEF Client, thread, ServerAssumption
  <2>3. ThreadFreed' /\ StopPrompt'
    BY <1>17, SMTT(30) DEF Client, thread, ServerAssumption
  <2>4. Ranges' /\ LoopThread' /\ Connection'
    BY <1>17, SMTT(30) DEF Client, thread, ServerAssumption
  <2> QED
    BY <2>1, <2>2, <2>3, <2>4, Zenon
<1>18. CASE TimePasses
  <2>1. Flags'
    BY <1>18, Allowance, Zenon DEF TimePasses, Waits, Readable, RecvExpired, SendExpired, thread, socket, ServerAssumption
  <2>2. TypeOK' /\ NoFdLeak'
    BY <1>18, Allowance, SMTT(30) DEF TimePasses, Waits, Readable, RecvExpired, SendExpired, thread, socket, ServerAssumption
  <2>3. ThreadFreed' /\ StopPrompt'
    BY <1>18, Allowance, SMTT(30) DEF TimePasses, Waits, Readable, RecvExpired, SendExpired, thread, socket, ServerAssumption
  <2>4. Ranges' /\ LoopThread' /\ Connection'
    BY <1>18, Allowance, SMTT(30) DEF TimePasses, Waits, Readable, RecvExpired, SendExpired, thread, socket, ServerAssumption
  <2> QED
    BY <2>1, <2>2, <2>3, <2>4, Zenon
<1>19. CASE Idle \/ UNCHANGED vars
  <2>1. UNCHANGED vars
    BY <1>19 DEF Idle
  <2> QED
    BY <2>1 DEF vars, thread, socket
<1> QED
  BY <1>1, <1>2, <1>3, <1>4, <1>5, <1>6, <1>7, <1>8, <1>9, <1>10, <1>11, <1>12, <1>13, <1>14, <1>15, <1>16,
     <1>17, <1>18, <1>19, ZenonT(30) DEF Next, Loop, Stop

(* Whatever the client does and whenever stop() comes, the thread is where *)
(* the flags say, with the descriptors and the deadlines that go with it.  *)
THEOREM ServerInvariant == ServerAssumption => (Spec => []ServerInv)
<1> SUFFICES ASSUME ServerAssumption PROVE Spec => []ServerInv
  OBVIOUS
<1>1. Init => ServerInv
  BY ServerStart
<1>2. ServerInv /\ [Next]_vars => ServerInv'
  BY ServerStep
<1> QED
  BY <1>1, <1>2, PTL DEF Spec

(* The descriptors balance whichever step fails, no client holds the one   *)
(* thread beyond kFirstByte, io_timeout and what the minimum rate allows   *)
(* its answer, and a connection that stop() has shut down is not waited    *)
(* for: for every bound, request, response and socket buffer.              *)
THEOREM ServerIsSafe == ServerAssumption => (Spec => []ServerSafe)
<1> SUFFICES ASSUME ServerAssumption PROVE Spec => []ServerSafe
  OBVIOUS
<1>1. ServerInv => ServerSafe
  BY DEF ServerInv
<1> QED
  BY <1>1, ServerInvariant, PTL

-----------------------------------------------------------------------------
(* One call into Lua.                                                      *)

(* The types LimitTypeOK leaves out. *)
LimitFlags == ended \in BOOLEAN /\ calling \in BOOLEAN
LimitRanges ==
    /\ used \in 0 .. instruction_limit + 1 /\ work \in Nat
    /\ raising \in {"no", "error", "limit"} /\ grown \in 0 .. memory_limit

PastLimit == used > instruction_limit

\* Within the limit, only the instructions since the last call of the hook are
\* not yet charged; past it, the hook is called at every instruction, and what
\* the one that runs may still allocate is all the work to come.
Charged ==
    /\ ~PastLimit => work <= used + since
    /\ PastLimit => hook = 1 /\ since = 0
    /\ PastLimit /\ calling =>
          kAllocBytesPerInstruction * work + alloc_bytes
             <= kAllocBytesPerInstruction * (instruction_limit + kHookInterval) + grown - 1

(* The inductive invariant: work done past the limit is within what the    *)
(* instruction then running could allocate, which Charged carries.         *)
LimitInv == LimitTypeOK /\ LimitFlags /\ LimitRanges /\ Charged /\ WorkBounded

-----------------------------------------------------------------------------
(* k * x fits into m only if x is at most m \div k. *)
LEMMA Fits ==
    ASSUME NEW x \in Int, NEW m \in Nat, NEW k \in Nat \ {0}, k * x <= m
    PROVE  x <= m \div k
<1> DEFINE q == m \div k
<1>1. q \in Nat /\ m < k * (q + 1)
  OBVIOUS
<1> SUFFICES ASSUME x >= q + 1 PROVE FALSE
  BY <1>1
<1>2. k * x >= k * (q + 1)
  BY <1>1
<1> QED
  BY <1>1, <1>2

\* A table function is charged for every element it visits.
LEMMA TableWork ==
    ASSUME NEW op \in {"insert", "remove", "sort", "concat"}, NEW n \in Nat, NEW pos \in 0 .. n + 1
    PROVE  /\ plain_table_work(op, n, pos) \in Nat /\ Visited(op, n, pos) \in Nat
           /\ Visited(op, n, pos) <= plain_table_work(op, n, pos)
<1>1. CASE op \in {"insert", "remove", "concat"}
  BY <1>1 DEF plain_table_work, Visited
<1>2. CASE op = "sort"
  <2>1. IsFiniteSet(0 .. n)
    BY FS_Interval
  <2>2. IsFiniteSet({b \in 0 .. n : 2 ^ b <= n})
    BY <2>1, FS_Subset, Zenon
  <2>3. Bits(n) \in Nat
    BY <2>2, FS_CardinalityType, Zenon DEF Bits
  <2>4. n * Bits(n) \in Nat
    BY <2>3
  <2> QED
    BY <1>2, <2>4 DEF plain_table_work, Visited
<1> QED
  BY <1>1, <1>2, Zenon

\* Within the limit there is room for what one instruction may allocate.
LEMMA RoomLeft ==
    ASSUME LimitAssumption, LimitInv, ~PastLimit
    PROVE  kAllocBytesPerInstruction * work + alloc_bytes
              <= kAllocBytesPerInstruction * (instruction_limit + kHookInterval) + grown - 1
<1> USE DEF LimitAssumption, LimitInv, LimitTypeOK, LimitRanges, PastLimit
<1> DEFINE k == kAllocBytesPerInstruction
           most == instruction_limit + kHookInterval
<1>1. k \in Nat \ {0} /\ work \in Nat /\ most \in Nat /\ work + 1 <= most
  BY DEF Charged
<1>2. alloc_bytes \in 0 .. k - 1 /\ grown \in Nat
  OBVIOUS
<1> HIDE DEF k, most
<1>3. k * (work + 1) <= k * most
  BY <1>1
<1>4. k * work + k <= k * most
  BY <1>1, <1>3
<1>5. k * work \in Nat /\ k * most \in Nat
  BY <1>1
<1>6. k * work + alloc_bytes <= k * most + grown - 1
  BY <1>1, <1>2, <1>4, <1>5
<1> QED
  BY <1>6, Zenon DEF k, most

\* What the running instruction may still allocate is all the work to come.
LEMMA RoomSuffices ==
    ASSUME LimitAssumption, NEW w \in Nat, NEW a \in Nat, NEW g \in 0 .. memory_limit,
           kAllocBytesPerInstruction * w + a
              <= kAllocBytesPerInstruction * (instruction_limit + kHookInterval) + g - 1
    PROVE  w <= instruction_limit + kHookInterval + MostAllocated
<1> USE DEF LimitAssumption
<1> DEFINE k == kAllocBytesPerInstruction
           most == instruction_limit + kHookInterval
<1>1. k \in Nat \ {0} /\ most \in Nat /\ memory_limit \in Nat /\ k * w + a <= k * most + g - 1
  OBVIOUS
<1> HIDE DEF k, most
<1>2. k * w \in Nat /\ k * most \in Nat /\ k * (w - most) = k * w - k * most
  BY <1>1
<1>3. k * (w - most) <= memory_limit
  BY <1>1, <1>2
<1>4. w - most <= memory_limit \div k
  BY <1>1, <1>3, Fits
<1>5. memory_limit \div k \in Nat
  BY <1>1
<1>6. w <= most + memory_limit \div k
  BY <1>1, <1>4, <1>5
<1> QED
  BY <1>6, Zenon DEF k, most, MostAllocated

\* Charging an allocation keeps the room: the rest of the division is carried.
LEMMA RoomKept ==
    ASSUME NEW k \in Nat, NEW w \in Nat, NEW w2 \in Nat, NEW c \in Nat, NEW a \in Nat, NEW a2 \in Nat,
           NEW g \in Nat, NEW n \in Nat, NEW m \in Nat,
           w2 <= w + c, a + n = k * c + a2, k * w + a <= k * m + g - 1
    PROVE  k * w2 + a2 <= k * m + (g + n) - 1
<1>1. k * w2 <= k * (w + c)
  OBVIOUS
<1>2. k * (w + c) = k * w + k * c
  OBVIOUS
<1>3. k * w2 \in Nat /\ k * w \in Nat /\ k * c \in Nat /\ k * m \in Nat
  OBVIOUS
<1> QED
  BY <1>1, <1>2, <1>3

\* The counters, which stop past every bound.
LEMMA Counters ==
    ASSUME LimitAssumption, LimitRanges, NEW n \in Nat
    PROVE  /\ Done(n) => work' \in Nat /\ work' <= work + n
           /\ Use(n) => /\ used' \in 0 .. instruction_limit + 1
                        /\ used' <= used + n
                        /\ used + n <= instruction_limit => used' = used + n
                        /\ used + n > instruction_limit => used' = instruction_limit + 1
BY DEF LimitAssumption, LimitRanges, Done, Use, MinOf, WorkCap

\* Within the limit the work is bounded by what was charged.
LEMMA ChargedSuffices ==
    ASSUME LimitAssumption, NEW w \in Nat, NEW u \in 0 .. instruction_limit, NEW s \in 0 .. kHookInterval - 1,
           w <= u + s
    PROVE  w <= instruction_limit + kHookInterval + MostAllocated
<1>1. MostAllocated \in Nat
  BY DEF LimitAssumption, MostAllocated
<1> QED
  BY <1>1 DEF LimitAssumption

\* What a charge leaves, for work that is charged in full.
LEMMA ChargeStep ==
    ASSUME LimitAssumption, LimitInv, Running, calling, NEW n \in Nat, NEW does \in Nat, does <= n, charge(n, does),
           UNCHANGED <<alloc_bytes, memory_used, frames, ended, calling, grown>>
    PROVE  LimitInv'
<1> USE DEF LimitAssumption, LimitInv, LimitTypeOK, LimitFlags, LimitRanges, PastLimit
<1>1. CASE n > instruction_limit - used \/ used > instruction_limit
  <2>1. used' = instruction_limit + 1 /\ raise_limit /\ UNCHANGED work
    BY <1>1, Zenon DEF charge
  <2>2. ~PastLimit => Charged'
    BY <2>1, RoomLeft DEF raise_limit, Charged
  <2>3. PastLimit => Charged'
    BY <2>1 DEF raise_limit, Charged
  <2>4. (LimitTypeOK /\ LimitFlags /\ LimitRanges /\ WorkBounded)'
    BY <2>1 DEF raise_limit, WorkBounded
  <2> QED
    BY <2>2, <2>3, <2>4, Zenon
<1>2. CASE ~(n > instruction_limit - used \/ used > instruction_limit)
  <2>1. Use(n) /\ Done(does) /\ UNCHANGED <<hook, since, raising>>
    BY <1>2, Zenon DEF charge
  <2>2. used' = used + n /\ used' <= instruction_limit /\ work' \in Nat /\ work' <= work + does
    BY <1>2, <2>1, Counters
  <2>3. work' <= used' + since'
    BY <1>2, <2>1, <2>2 DEF Charged
  <2>4. (LimitTypeOK /\ LimitRanges)'
    BY <2>1, <2>2
  <2>5. Charged'
    <3>1. ~PastLimit'
      BY <2>2
    <3> QED
      BY <2>3, <3>1, Zenon DEF Charged
  <2>6. WorkBounded'
    BY <2>1, <2>2, <2>3, ChargedSuffices DEF WorkBounded, MostAllocated
  <2>7. LimitFlags'
    BY Zenon
  <2> QED
    BY <2>4, <2>5, <2>6, <2>7, Zenon
<1> QED
  BY <1>1, <1>2, Zenon

\* An instruction, with the hook called first when it is due.
LEMMA InstructionStep ==
    ASSUME LimitAssumption, LimitInv, NEW enters \in {0, 1}, Instruction(enters)
    PROVE  LimitInv'
<1> USE DEF LimitAssumption, LimitInv, LimitTypeOK, LimitFlags, LimitRanges, PastLimit
<1>1. /\ Running /\ frames + enters <= MaxDepth /\ grown' = 0 /\ calling' = (raising' = "no")
      /\ UNCHANGED <<alloc_bytes, memory_used, ended>>
  BY Zenon DEF Instruction
<1>2. CASE since + 1 >= hook
  <2>1. Use(kHookInterval)
    BY <1>2, Zenon DEF Instruction
  <2>2. CASE used' > instruction_limit
    <3>1. raise_limit /\ UNCHANGED <<frames, work>>
      BY <1>2, <2>2, Zenon DEF Instruction
    <3>2. used' \in 0 .. instruction_limit + 1
      BY <2>1, Counters, Zenon
    <3>3. calling' = FALSE
      BY <1>1, <3>1, Zenon DEF raise_limit
    <3>4. (LimitTypeOK /\ LimitRanges)'
      BY <1>1, <3>1, <3>2 DEF raise_limit
    <3>5. LimitFlags' /\ Charged'
      BY <1>1, <2>2, <3>1, <3>3, Zenon DEF raise_limit, Charged
    <3> QED
      BY <3>1, <3>4, <3>5, Zenon DEF WorkBounded, MostAllocated
  <2>3. CASE ~(used' > instruction_limit)
    <3>1. since' = 0 /\ frames' = frames + enters /\ Done(1) /\ UNCHANGED <<hook, raising>>
      BY <1>2, <2>3, Zenon DEF Instruction
    <3>2. used' = used + kHookInterval /\ work' \in Nat /\ work' <= work + 1
      BY <2>1, <2>3, <3>1, Counters
    <3>3. work' <= used' + since'
      BY <2>3, <3>1, <3>2 DEF Charged
    <3>4. (LimitTypeOK /\ LimitRanges)'
      BY <1>1, <2>3, <3>1, <3>2
    <3>5. LimitFlags' /\ Charged'
      BY <1>1, <2>3, <3>3, Zenon DEF Charged
    <3>6. work' \in Nat /\ used' \in 0 .. instruction_limit /\ since' \in 0 .. kHookInterval - 1
      BY <2>3, <3>4
    <3>7. WorkBounded'
      BY <3>3, <3>6, ChargedSuffices, Zenon DEF WorkBounded, MostAllocated
    <3> QED
      BY <3>4, <3>5, <3>7, Zenon
  <2> QED
    BY <2>2, <2>3, Zenon
<1>3. CASE ~(since + 1 >= hook)
  <2>1. /\ since' = since + 1 /\ frames' = frames + enters /\ Done(1) /\ UNCHANGED <<used, hook, raising>>
    BY <1>3, Zenon DEF Instruction
  <2>2. ~PastLimit
    BY <1>3 DEF Charged
  <2>3. work' \in Nat /\ work' <= work + 1
    BY <2>1, Counters, Zenon
  <2>4. work' <= used' + since'
    BY <2>1, <2>2, <2>3 DEF Charged
  <2>5. (LimitTypeOK /\ LimitRanges)'
    BY <1>1, <1>3, <2>1, <2>3
  <2>6. LimitFlags' /\ Charged'
    BY <1>1, <2>1, <2>2, <2>4, Zenon DEF Charged
  <2>7. WorkBounded'
    BY <2>1, <2>2, <2>4, <2>5, ChargedSuffices DEF WorkBounded, MostAllocated
  <2> QED
    BY <2>5, <2>6, <2>7, Zenon
<1> QED
  BY <1>2, <1>3, Zenon

\* An allocation that is granted and charged.
LEMMA GrowStep ==
    ASSUME LimitAssumption, LimitInv, Grow
    PROVE  LimitInv'
<1> USE DEF LimitAssumption, LimitInv, LimitTypeOK, LimitFlags, LimitRanges, PastLimit
<1> DEFINE k == kAllocBytesPerInstruction
           most == instruction_limit + kHookInterval
<1>1. PICK n \in Sizes :
          /\ grown + n <= memory_limit /\ memory_used + n <= memory_limit
          /\ grown' = grown + n /\ memory_used' = memory_used + n
          /\ alloc_bytes' = (alloc_bytes + n) % k
          /\ Use((alloc_bytes + n) \div k) /\ Done((alloc_bytes + n) \div k)
          /\ IF (alloc_bytes + n) \div k > 0 /\ used' > instruction_limit THEN hook' = 1 /\ since' = 0
                                                                        ELSE UNCHANGED <<hook, since>>
  BY Zenon DEF Grow
<1>2. calling /\ UNCHANGED <<frames, raising, ended, calling>>
  BY Zenon DEF Grow
<1> DEFINE c == (alloc_bytes + n) \div k
<1>3. n \in Nat /\ alloc_bytes + n \in Nat /\ k \in Nat \ {0}
  OBVIOUS
<1>4. c \in Nat /\ alloc_bytes' \in 0 .. k - 1 /\ alloc_bytes + n = k * c + alloc_bytes'
  <2> DEFINE a == alloc_bytes + n
             rest == a % k
  <2>1. c = a \div k /\ rest = a % k /\ alloc_bytes' = rest
    BY <1>1, Zenon
  <2>2. a \in Nat /\ k \in Nat \ {0}
    BY <1>3, Zenon
  <2> HIDE DEF c, k, a, rest
  <2>3. c \in Nat /\ rest \in 0 .. k - 1
    BY ONLY <2>1, <2>2
  <2>4. a = k * c + rest
    BY ONLY <2>1, <2>2, <2>3
  <2> QED
    BY <2>1, <2>3, <2>4, Zenon DEF a
<1>5. Use(c) /\ Done(c) /\ (IF c > 0 /\ used' > instruction_limit THEN hook' = 1 /\ since' = 0
                                                                 ELSE UNCHANGED <<hook, since>>)
  BY <1>1, Zenon
<1> HIDE DEF c
<1>6. /\ work' \in Nat /\ work' <= work + c /\ used' \in 0 .. instruction_limit + 1
      /\ used' <= used + c /\ (used + c <= instruction_limit => used' = used + c)
      /\ (used + c > instruction_limit => used' = instruction_limit + 1)
  BY <1>4, <1>5, Counters, Zenon
<1>7. (LimitTypeOK /\ LimitRanges)'
  BY <1>1, <1>2, <1>3, <1>4, <1>5, <1>6
<1>8. LimitFlags'
  BY <1>2, Zenon
<1>9. CASE used + c <= instruction_limit
  <2>1. used' = used + c /\ work' <= used' + since'
    BY <1>4, <1>5, <1>6, <1>9 DEF Charged
  <2>2. Charged'
    BY <1>9, <2>1 DEF Charged
  <2>3. WorkBounded'
    BY <1>7, <1>9, <2>1, ChargedSuffices DEF WorkBounded, MostAllocated
  <2> QED
    BY <1>7, <1>8, <2>2, <2>3, Zenon
<1>10. CASE used + c > instruction_limit
  <2>1. hook' = 1 /\ since' = 0
    BY <1>4, <1>5, <1>6, <1>10 DEF Charged
  <2>2. k * work + alloc_bytes <= k * most + grown - 1
    BY <1>2, RoomLeft, Zenon DEF Charged
  <2>3. k * work' + alloc_bytes' <= k * most + (grown + n) - 1
    <3>1. /\ k \in Nat /\ work \in Nat /\ work' \in Nat /\ c \in Nat /\ alloc_bytes \in Nat
          /\ alloc_bytes' \in Nat /\ grown \in Nat /\ n \in Nat /\ most \in Nat
      BY <1>3, <1>4, <1>6
    <3>2. work' <= work + c /\ alloc_bytes + n = k * c + alloc_bytes'
      BY <1>4, <1>6, Zenon
    <3> HIDE DEF k, most
    <3> QED
      BY ONLY <3>1, <3>2, <2>2, RoomKept, Zenon
  <2>4. k * work' + alloc_bytes' <= k * most + grown' - 1
    BY <1>1, <2>3, Zenon
  <2>5. Charged'
    BY <1>6, <1>10, <2>1, <2>4 DEF Charged
  <2>6. work' \in Nat /\ alloc_bytes' \in Nat /\ grown' \in 0 .. memory_limit
    BY <1>7
  <2>7. WorkBounded'
    BY <2>4, <2>6, RoomSuffices, Zenon DEF WorkBounded, MostAllocated
  <2> QED
    BY <1>7, <1>8, <2>5, <2>7, Zenon
<1> QED
  BY <1>4, <1>9, <1>10

(* A call begins with nothing used and nothing done. *)
LEMMA LimitStart == LimitAssumption /\ LimitInit => LimitInv
<1> SUFFICES ASSUME LimitAssumption, LimitInit PROVE LimitInv
  BY Zenon
<1>1. MostAllocated \in Nat
  BY DEF LimitAssumption, MostAllocated
<1>2. LimitTypeOK /\ LimitRanges
  BY DEF LimitAssumption, LimitInit, LimitTypeOK, LimitRanges
<1>3. LimitFlags
  BY ZenonT(60) DEF LimitInit, LimitFlags
<1>4. Charged /\ WorkBounded
  BY <1>1 DEF LimitAssumption, LimitInit, Charged, WorkBounded, PastLimit
<1> QED
  BY <1>2, <1>3, <1>4, Zenon DEF LimitInv

(* Every step of the script, the hook and the allocator keeps the invariant. *)
LEMMA LimitStep ==
    ASSUME LimitAssumption, LimitInv, [LimitNext]_limitvars
    PROVE  LimitInv'
<1> USE DEF LimitAssumption, LimitInv, LimitTypeOK, LimitFlags, LimitRanges, PastLimit
<1>1. CASE Compute \/ Protect
  BY <1>1, InstructionStep, Zenon DEF Compute, Protect
<1>2. CASE Leave
  <2>1. /\ frames > 0 /\ since + 1 < hook /\ since' = since + 1 /\ frames' = frames - 1
        /\ Done(1) /\ calling' = TRUE /\ grown' = 0
        /\ UNCHANGED <<used, hook, raising, alloc_bytes, memory_used, ended>>
    BY <1>2, Zenon DEF Leave
  <2>2. ~PastLimit /\ ~PastLimit'
    BY <2>1 DEF Charged
  <2>3. work' \in Nat /\ work' <= work + 1
    BY <2>1, Counters, Zenon
  <2>4. work' <= used' + since'
    BY <2>1, <2>2, <2>3 DEF Charged
  <2>5. (LimitTypeOK /\ LimitRanges)'
    BY <2>1, <2>3
  <2>6. LimitFlags'
    BY <2>1, Zenon
  <2>7. Charged'
    BY <2>2, <2>4, Zenon DEF Charged
  <2>8. used' \in 0 .. instruction_limit /\ since' \in 0 .. kHookInterval - 1
    BY <2>2, <2>5
  <2>9. WorkBounded'
    BY <2>3, <2>4, <2>8, ChargedSuffices, Zenon DEF WorkBounded, MostAllocated
  <2> QED
    BY <2>5, <2>6, <2>7, <2>9, Zenon
<1>3. CASE TableCall
  <2>0. PICK op \in {"insert", "remove", "sort", "concat"}, n \in Lengths :
            \E pos \in 0 .. n + 1 : charge(plain_table_work(op, n, pos), Visited(op, n, pos))
    BY <1>3, Zenon DEF TableCall
  <2>1. PICK pos \in 0 .. n + 1 : charge(plain_table_work(op, n, pos), Visited(op, n, pos))
    BY <2>0, Zenon
  <2>2. /\ plain_table_work(op, n, pos) \in Nat /\ Visited(op, n, pos) \in Nat
        /\ Visited(op, n, pos) <= plain_table_work(op, n, pos)
    BY TableWork, Zenon
  <2>3. Running /\ calling /\ UNCHANGED <<alloc_bytes, memory_used, frames, ended, calling, grown>>
    BY <1>3, Zenon DEF TableCall
  <2> QED
    BY <2>1, <2>2, <2>3, ChargeStep, Zenon
<1>4. CASE MoveCall
  <2>1. PICK n \in Lengths : charge(move_work(1, n), n)
    BY <1>4, Zenon DEF MoveCall
  <2>2. move_work(1, n) \in Nat /\ n <= move_work(1, n) /\ n \in Nat
    BY DEF move_work
  <2>3. Running /\ calling /\ UNCHANGED <<alloc_bytes, memory_used, frames, ended, calling, grown>>
    BY <1>4, Zenon DEF MoveCall
  <2> QED
    BY <2>1, <2>2, <2>3, ChargeStep, Zenon
<1>5. CASE BytesCall
  <2>1. PICK bytes \in Sizes \cup {memory_used} :
            charge(bytes \div kAllocBytesPerInstruction + 1, bytes \div kAllocBytesPerInstruction)
    BY <1>5, Zenon DEF BytesCall
  <2> DEFINE n == bytes \div kAllocBytesPerInstruction
  <2>2. n \in Nat /\ n + 1 \in Nat /\ n <= n + 1
    OBVIOUS
  <2>3. Running /\ calling /\ UNCHANGED <<alloc_bytes, memory_used, frames, ended, calling, grown>>
    BY <1>5, Zenon DEF BytesCall
  <2> HIDE DEF n
  <2>4. charge(n + 1, n)
    BY <2>1, Zenon DEF n
  <2> QED
    BY <2>2, <2>3, <2>4, ChargeStep, Zenon
<1>6. CASE Grow
  BY <1>6, GrowStep, Zenon
<1>7. CASE GrowRefused \/ Fails
  <2>1. /\ raising' = "error"
        /\ UNCHANGED <<used, alloc_bytes, memory_used, hook, since, frames, ended, work, calling, grown>>
    BY <1>7, Zenon DEF GrowRefused, Fails
  <2> QED
    BY <2>1, Zenon DEF Charged, WorkBounded, MostAllocated
<1>8. CASE Free
  <2>1. /\ memory_used' \in 0 .. memory_limit
        /\ UNCHANGED <<used, alloc_bytes, hook, since, frames, raising, ended, work, calling, grown>>
    BY <1>8 DEF Free
  <2> QED
    BY <2>1, Zenon DEF Charged, WorkBounded, MostAllocated
<1>9. CASE Caught
  <2>1. /\ raising' = "no" /\ frames > 0 /\ frames' = frames - 1 /\ calling' = FALSE
        /\ UNCHANGED <<used, alloc_bytes, memory_used, hook, since, ended, work, grown>>
    BY <1>9, Zenon DEF Caught
  <2>2. LimitFlags'
    BY <2>1, ZenonT(60)
  <2>3. (LimitTypeOK /\ LimitRanges)'
    BY <2>1
  <2> QED
    BY <2>1, <2>2, <2>3, Zenon DEF Charged, WorkBounded, MostAllocated
<1>10. CASE Handler
  <2>1. frames > 0 /\ UNCHANGED <<alloc_bytes, memory_used, ended, work, calling, grown>>
    BY <1>10, Zenon DEF Handler
  <2>2. CASE PastLimit
    <3>1. used' = instruction_limit + 1 /\ raising' = "limit" /\ hook' = 1 /\ since' = 0 /\ frames' = frames - 1
      BY <1>10, <2>2, Zenon DEF Handler, raise_limit
    <3> QED
      BY <2>1, <2>2, <3>1 DEF Charged, WorkBounded, MostAllocated
  <2>3. CASE ~PastLimit
    <3>1. raising' = "no" /\ UNCHANGED <<used, hook, since, frames>>
      BY <1>10, <2>3, Zenon DEF Handler
    <3> QED
      BY <2>1, <2>3, <3>1, Zenon DEF Charged, WorkBounded, MostAllocated
  <2> QED
    BY <2>2, <2>3, Zenon
<1>11. CASE Return
  <2>1. /\ ended' = TRUE
        /\ UNCHANGED <<used, alloc_bytes, memory_used, hook, since, frames, raising, work, calling, grown>>
    BY <1>11, Zenon DEF Return
  <2> QED
    BY <2>1, Zenon DEF Charged, WorkBounded, MostAllocated
<1>12. CASE begin_call
  <2>1. /\ used' = 0 /\ alloc_bytes' = 0 /\ hook' = kHookInterval /\ since' = 0 /\ frames' = 0
        /\ raising' = "no" /\ ended' = FALSE /\ work' = 0 /\ calling' = FALSE /\ grown' = 0
        /\ UNCHANGED memory_used
    BY <1>12, Zenon DEF begin_call
  <2>2. MostAllocated \in Nat
    BY DEF MostAllocated
  <2>3. LimitFlags'
    BY <2>1, Zenon
  <2>4. (LimitTypeOK /\ LimitRanges)'
    BY <2>1
  <2>5. Charged'
    BY <2>1 DEF Charged
  <2>6. WorkBounded'
    BY <2>1, <2>2 DEF WorkBounded, MostAllocated
  <2> QED
    BY <2>3, <2>4, <2>5, <2>6, Zenon
<1>13. CASE UNCHANGED limitvars
  BY <1>13, Zenon DEF limitvars, Charged, WorkBounded, MostAllocated
<1> QED
  BY <1>1, <1>2, <1>3, <1>4, <1>5, <1>6, <1>7, <1>8, <1>9, <1>10, <1>11, <1>12, <1>13, Zenon DEF LimitNext, InCall

\* The inductive invariant of a call's budget.
THEOREM LimitInvariant == LimitAssumption => (LimitSpec => []LimitInv)
<1> SUFFICES ASSUME LimitAssumption PROVE LimitSpec => []LimitInv
  BY Zenon
<1>1. LimitInit => LimitInv
  BY LimitStart, Zenon
<1>2. LimitInv /\ [LimitNext]_limitvars => LimitInv'
  BY LimitStep, Zenon
<1> QED
  BY <1>1, <1>2, PTL DEF LimitSpec

\* A script does no more work than its instruction limit, one interval of the
\* hook and what one instruction can allocate, for every limit, interval and
\* charge per byte, whatever it mixes and whatever errors it catches.
THEOREM WorkIsBounded == LimitAssumption => (LimitSpec => []WorkBounded)
<1> SUFFICES ASSUME LimitAssumption PROVE LimitSpec => []WorkBounded
  BY Zenon
<1>1. LimitInv => WorkBounded
  BY Zenon DEF LimitInv
<1> QED
  BY <1>1, LimitInvariant, PTL

=============================================================================
