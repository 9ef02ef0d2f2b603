----------------------------- MODULE LuaLimits ------------------------------
(***************************************************************************)
(* The budget of one call into Lua (a `when`, an action, the rules file):  *)
(* instructions counted by a hook, library work charged before it is done, *)
(* bytes handed out charged by the allocator, which cannot raise.  The     *)
(* script is any sequence of instructions, library calls, allocations and  *)
(* protected calls, which may catch the error the limit raises.            *)
(***************************************************************************)
EXTENDS Integers, FiniteSets

CONSTANTS instruction_limit, memory_limit, kHookInterval, kAllocBytesPerInstruction,
          Lengths,    \* lengths of the tables a script has
          Sizes,      \* bytes of one allocation
          MaxDepth    \* protected calls one inside the other

LimitAssumption ==
    /\ instruction_limit \in Nat /\ memory_limit \in Nat
    /\ kHookInterval \in Nat \ {0} /\ kAllocBytesPerInstruction \in Nat \ {0}
    /\ Lengths \subseteq Nat /\ Sizes \subseteq Nat /\ MaxDepth \in Nat

VARIABLES used,        \* instructions_used_
          alloc_bytes, \* bytes not yet charged
          memory_used,
          hook,        \* instructions between two calls of the hook
          since,       \* instructions since the last one
          frames,      \* "pcall" and "xpcall" frames around what runs
          raising,     \* "no", "error" or "limit"
          ended,
          work,        \* what was really done, in instructions
          calling,     \* within an instruction: library code and the allocator run
          grown        \* bytes allocated in it

limitvars == <<used, alloc_bytes, memory_used, hook, since, frames, raising, ended, work,
          calling, grown>>

\* Once past any bound the properties speak of, how far does not matter.
WorkCap == 4 * (instruction_limit + kHookInterval + memory_limit)
MinOf(a, b) == IF a < b THEN a ELSE b
Done(n) == work' = MinOf(work + n, WorkCap)
Use(n) == used' = MinOf(used + n, instruction_limit + 1)

-----------------------------------------------------------------------------
\* begin_call(), after a bind that left memory_used as it is.
LimitInit ==
    /\ used = 0 /\ alloc_bytes = 0 /\ memory_used \in 0 .. memory_limit
    /\ hook = kHookInterval /\ since = 0
    /\ frames = 0 /\ raising = "no" /\ ended = FALSE
    /\ work = 0 /\ calling = FALSE /\ grown = 0

\* From here on the hook is called at every instruction.
raise_limit ==
    /\ raising' = "limit"
    /\ hook' = 1 /\ since' = 0

Running == ~ended /\ raising = "no"

\* An instruction, the hook called first when it is due.
Instruction(enters) ==
    /\ Running /\ frames + enters <= MaxDepth
    /\ grown' = 0
    /\ IF since + 1 >= hook
       THEN /\ Use(kHookInterval)
            /\ IF used' > instruction_limit
               THEN raise_limit /\ UNCHANGED <<frames, work>>
               ELSE /\ since' = 0 /\ frames' = frames + enters /\ Done(1)
                    /\ UNCHANGED <<hook, raising>>
       ELSE /\ since' = since + 1 /\ frames' = frames + enters /\ Done(1)
            /\ UNCHANGED <<used, hook, raising>>
    /\ calling' = (raising' = "no")
    /\ UNCHANGED <<alloc_bytes, memory_used, ended>>

\* pcall() and xpcall(): an instruction that opens a frame.
Protect == Instruction(1)
Compute == Instruction(0)

\* Leaving a frame without an error takes an instruction too.
Leave ==
    /\ frames > 0 /\ since + 1 < hook
    /\ Running /\ since' = since + 1 /\ frames' = frames - 1
    /\ Done(1) /\ calling' = TRUE /\ grown' = 0
    /\ UNCHANGED <<used, hook, raising, alloc_bytes, memory_used, ended>>

-----------------------------------------------------------------------------
\* The elements a table function visits, charged before it runs.
Bits(n) == Cardinality({b \in 0 .. n : 2 ^ b <= n})

\* Faulty form: an insertion charged by the elements before it.
plain_table_work_Before(op, n, pos) ==
    CASE op = "insert" -> IF pos \in 1 .. n THEN pos - 1 ELSE 0
      [] op = "remove" -> IF pos \in 1 .. n - 1 THEN n - pos ELSE 0
      [] op = "sort"   -> n * Bits(n)
      [] op = "concat" -> n

plain_table_work(op, n, pos) ==
    CASE op = "insert" -> IF pos \in 1 .. n THEN n - pos + 1 ELSE 0
      [] op = "remove" -> IF pos \in 1 .. n - 1 THEN n - pos ELSE 0
      [] op = "sort"   -> n * Bits(n)
      [] op = "concat" -> n

\* table.move(t, f, e, ...): nil moved onto nil allocates nothing.
move_work(f, e) == IF e >= f THEN e - f + 1 ELSE 0

\* What Lua's own functions do then: every element from pos on moved up, those
\* after it moved down.
Visited(op, n, pos) ==
    CASE op = "insert" -> IF pos \in 1 .. n THEN n + 1 - pos ELSE 0
      [] op = "remove" -> IF pos \in 1 .. n THEN n - pos ELSE 0
      [] OTHER -> plain_table_work(op, n, pos)

\* charge(): raises before the work is done when there is no room for it.
charge(n, does) ==
    IF n > instruction_limit - used \/ used > instruction_limit
    THEN used' = instruction_limit + 1 /\ raise_limit /\ UNCHANGED work
    ELSE Use(n) /\ Done(does) /\ UNCHANGED <<hook, since, raising>>

\* The C loop of a library function, within the instruction that calls it.
TableCall ==
    /\ Running /\ calling
    /\ \E op \in {"insert", "remove", "sort", "concat"}, n \in Lengths :
          \E pos \in 0 .. n + 1 :
             charge(plain_table_work(op, n, pos), Visited(op, n, pos))
    /\ UNCHANGED <<alloc_bytes, memory_used, frames, ended, calling, grown>>

MoveCall ==
    /\ Running /\ calling
    /\ \E n \in Lengths : charge(move_work(1, n), n)
    /\ UNCHANGED <<alloc_bytes, memory_used, frames, ended, calling, grown>>

\* collectgarbage() walks the heap, print() writes its bytes.
BytesCall ==
    /\ Running /\ calling
    /\ \E bytes \in Sizes \cup {memory_used} :
          charge(bytes \div kAllocBytesPerInstruction + 1, bytes \div kAllocBytesPerInstruction)
    /\ UNCHANGED <<alloc_bytes, memory_used, frames, ended, calling, grown>>

-----------------------------------------------------------------------------
\* alloc(): growth past the memory limit is refused and, after Lua collected
\* what it could, is an error a rule may catch. Growth is charged, the rest of
\* the division kept; past the limit the hook is set to the next instruction.
\* One instruction allocates no more than the memory limit.

Grow ==
    /\ Running /\ calling
    /\ \E n \in Sizes :
          /\ grown + n <= memory_limit
          /\ memory_used + n <= memory_limit
          /\ grown' = grown + n
          /\ memory_used' = memory_used + n
          /\ alloc_bytes' = (alloc_bytes + n) % kAllocBytesPerInstruction
          /\ LET charged == (alloc_bytes + n) \div kAllocBytesPerInstruction
             IN  /\ Use(charged) /\ Done(charged)
                 /\ IF charged > 0 /\ used' > instruction_limit THEN hook' = 1 /\ since' = 0
                                                               ELSE UNCHANGED <<hook, since>>
    /\ UNCHANGED <<frames, raising, ended, calling>>

GrowRefused ==
    /\ Running /\ calling
    /\ \E n \in Sizes : memory_used + n > memory_limit
    /\ raising' = "error"
    /\ UNCHANGED <<used, alloc_bytes, memory_used, hook, since, frames, ended, work, calling, grown>>

\* A block freed or shrunk: never refused, charged nothing.
Free ==
    /\ ~ended /\ memory_used > 0
    /\ \E n \in Sizes : n <= memory_used /\ memory_used' = memory_used - n
    /\ UNCHANGED <<used, alloc_bytes, hook, since, frames, raising, ended, work, calling, grown>>

-----------------------------------------------------------------------------
\* error() in the script.
Fails ==
    /\ Running
    /\ raising' = "error"
    /\ UNCHANGED <<used, alloc_bytes, memory_used, hook, since, frames, ended, work, calling, grown>>

\* The innermost protected call catches. An xpcall()'s handler runs after it,
\* as a protected call of its own, and not at all past the limit: the error
\* goes on up.
Caught ==
    /\ raising # "no" /\ frames > 0
    /\ raising' = "no"
    /\ frames' = frames - 1
    /\ calling' = FALSE
    /\ UNCHANGED <<used, alloc_bytes, memory_used, hook, since, ended, work, grown>>

\* Faulty form: the handler runs past the limit too.
Handler_Always ==
    /\ raising # "no" /\ frames > 0
    /\ raising' = "no" /\ UNCHANGED <<used, hook, since, frames>>
    /\ UNCHANGED <<alloc_bytes, memory_used, ended, work, calling, grown>>

Handler ==
    /\ raising # "no" /\ frames > 0
    /\ IF used > instruction_limit
       THEN used' = instruction_limit + 1 /\ raise_limit /\ frames' = frames - 1
       ELSE raising' = "no" /\ UNCHANGED <<used, hook, since, frames>>
    /\ UNCHANGED <<alloc_bytes, memory_used, ended, work, calling, grown>>

Return ==
    /\ ~ended
    /\ \/ raising # "no" /\ frames = 0
       \/ Running /\ frames = 0
    /\ ended' = TRUE
    /\ UNCHANGED <<used, alloc_bytes, memory_used, hook, since, frames, raising, work, calling, grown>>

\* The next call: begin_call() resets the budget and the hook.
begin_call ==
    /\ ended
    /\ used' = 0 /\ alloc_bytes' = 0
    /\ hook' = kHookInterval /\ since' = 0
    /\ frames' = 0 /\ raising' = "no" /\ ended' = FALSE
    /\ work' = 0 /\ calling' = FALSE /\ grown' = 0
    /\ UNCHANGED memory_used

InCall ==
    \/ Compute \/ Protect \/ Leave \/ TableCall \/ MoveCall \/ BytesCall
    \/ Grow \/ GrowRefused \/ Fails \/ Caught \/ Handler \/ Return

LimitNext == InCall \/ Free \/ begin_call

\* A call goes on until it returns; the script may do whatever it likes, for
\* ever, except free memory and do nothing else.
LimitSpec == LimitInit /\ [][LimitNext]_limitvars
LimitFairSpec == LimitSpec /\ WF_limitvars(InCall)

-----------------------------------------------------------------------------
\* The heap stays within its limit and the hook's interval is one of two.
LimitTypeOK ==
    /\ memory_used \in 0 .. memory_limit
    /\ hook \in {1, kHookInterval} /\ since \in 0 .. kHookInterval - 1
    /\ alloc_bytes \in 0 .. kAllocBytesPerInstruction - 1
    /\ frames \in 0 .. MaxDepth

\* What a single instruction can allocate, in instructions.
MostAllocated == memory_limit \div kAllocBytesPerInstruction

\* A call does no more than the limit, one hook interval and what a single
\* instruction can allocate, however it mixes instructions, library loops and
\* copies, and however it catches the limit's errors.
WorkBounded == work <= instruction_limit + kHookInterval + MostAllocated

\* Past the limit the call ends: each instruction raises again, so a protected
\* call catches only until its next one, and the frames run out.
EndsAtLimit == (used > instruction_limit) ~> (ended \/ used = 0)
=============================================================================
