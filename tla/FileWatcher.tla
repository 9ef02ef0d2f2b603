---------------------------- MODULE FileWatcher -----------------------------
(***************************************************************************)
(* security/file_watcher.cpp on both kernels: watches are on inodes, and   *)
(* the daemon wants paths. poll(), once a tick, is broken up at its system *)
(* calls; other programs write, remove, replace, move and link the files   *)
(* between any two of them. inotify has one watch an inode and a bounded   *)
(* queue; kqueue has a descriptor a path, with the flags of its events.    *)
(***************************************************************************)
EXTENDS Integers, Sequences, FiniteSets, SequencesExt

CONSTANTS Paths,       \* the configured paths
          Kernel,      \* "inotify" or "kqueue"
          kQueueMax,   \* inotify's bound on events that wait
          kMaxEvents,  \* events one kevent() call returns
          MaxInodes, MaxChanges   \* bounds: files made and changes of a behaviour

WatcherAssumption ==
    /\ Kernel \in {"inotify", "kqueue"}
    /\ {kQueueMax, kMaxEvents, MaxInodes, MaxChanges} \subseteq Nat \ {0}

VARIABLES
    names,         \* the inode each path names, 0 when it does not exist
    kept,          \* inodes held open, or linked elsewhere
    inodes,        \* inodes made so far
    kernel,        \* [watches, queue, next]: ids on inodes, events that wait
    path_to_id, id_to_paths, pending,
    pc, todo, evs, \* poll(): where it is, the paths or events it still goes through
    overflow,
    batch,         \* <<path, kind>> of this poll's events
    tampered,      \* the last tick's tampered_this_tick
    dirty,         \* paths whose file changed since it was last reported
    changes

files == <<names, kept, inodes>>
maps == <<path_to_id, id_to_paths, pending>>
poll == <<pc, todo, evs, overflow, batch, tampered>>
vars == <<files, kernel, maps, poll, dirty, changes>>

Inotify == Kernel = "inotify"
None == 0
Without(f, ks) == [k \in DOMAIN f \ ks |-> f[k]]
With(f, k, v) == [j \in DOMAIN f \cup {k} |-> IF j = k THEN v ELSE f[j]]

-----------------------------------------------------------------------------
\* The kernel. inotify drops an event equal to the last one, and events past
\* its bound, for which one "overflow" stands; kqueue adds a flag to the event
\* of the descriptor that waits already.
Enqueue(q, e) ==
    CASE Inotify /\ q # <<>> /\ Last(q) = e -> q
      [] Inotify /\ (q = <<>> \/ Last(q) # e) ->
             IF Len(q) < kQueueMax THEN Append(q, e)
             ELSE IF \E i \in DOMAIN q : q[i].kinds = {"overflow"} THEN q
             ELSE Append(q, [id |-> -1, kinds |-> {"overflow"}])
      [] ~Inotify ->
             IF \E i \in DOMAIN q : q[i].id = e.id
             THEN [i \in DOMAIN q |-> IF q[i].id = e.id
                                      THEN [q[i] EXCEPT !.kinds = @ \cup e.kinds] ELSE q[i]]
             ELSE Append(q, e)

On(k, i) == {id \in DOMAIN k.watches : k.watches[id] = i}

\* Event `kind` on inode i, to every watch on it.
Notify(k, i, kind) ==
    [k EXCEPT !.queue = FoldLeft(LAMBDA q, id : Enqueue(q, [id |-> id, kinds |-> {kind}]), @, SetToSeq(On(k, i)))]

\* The inode is freed: inotify says so, twice, and lets its watch go.
Freed(k, i) ==
    IF ~Inotify THEN k
    ELSE LET n == Notify(Notify(k, i, "delete_self"), i, "ignored")
         IN  [n EXCEPT !.watches = Without(@, On(k, i))]

\* Inode i lost the name p.
Unlinked(k, i, p) ==
    IF i = None THEN k
    ELSE IF ~Inotify THEN Notify(k, i, "delete_self")
    ELSE LET a == Notify(k, i, "attrib")
         IN  IF i \in kept \/ \E q \in Paths \ {p} : names[q] = i THEN a ELSE Freed(a, i)

\* One watch of a file, whatever its names, under a number never used before.
inotify_watch(k, i) ==
    IF On(k, i) # {} THEN [k |-> k, id |-> CHOOSE id \in On(k, i) : TRUE]
    ELSE [k |-> [k EXCEPT !.watches = With(@, k.next, i), !.next = @ + 1], id |-> k.next]

\* A descriptor for each call, the lowest that is free.
kqueue_watch(k, i) ==
    LET free == CHOOSE id \in 1 .. Cardinality(DOMAIN k.watches) + 1 :
                    id \notin DOMAIN k.watches
                    /\ \A j \in 1 .. id - 1 : j \in DOMAIN k.watches
    IN  [k |-> [k EXCEPT !.watches = With(@, free, i)], id |-> free]

sys_watch(k, p) ==
    IF names[p] = None THEN [k |-> k, id |-> -1]
    ELSE IF Inotify THEN inotify_watch(k, names[p]) ELSE kqueue_watch(k, names[p])

sys_unwatch(k, id) ==
    IF id \notin DOMAIN k.watches THEN k
    ELSE LET u == [k EXCEPT !.watches = Without(@, {id})]
         IN  IF Inotify THEN [u EXCEPT !.queue = Enqueue(@, [id |-> id, kinds |-> {"ignored"}])]
             ELSE [u EXCEPT !.queue = SelectSeq(@, LAMBDA e : e.id # id)]

-----------------------------------------------------------------------------
\* The watcher's own operations, on the state they change.
W == [k |-> kernel, p2i |-> path_to_id, i2p |-> id_to_paths, pending |-> pending,
      batch |-> batch, dirty |-> dirty]

Becomes(w) ==
    /\ kernel' = w.k /\ path_to_id' = w.p2i /\ id_to_paths' = w.i2p
    /\ pending' = w.pending /\ batch' = w.batch /\ dirty' = w.dirty

bind(w, p, id) ==
    [w EXCEPT !.p2i = With(@, p, id),
              !.i2p = With(@, id, {p} \cup IF id \in DOMAIN @ THEN @[id] ELSE {})]

unbind(w, p) ==
    IF p \notin DOMAIN w.p2i THEN w
    ELSE LET id == w.p2i[p]
             left == w.i2p[id] \ {p}
         IN  [w EXCEPT !.p2i = Without(@, {p}),
                       !.i2p = IF left = {} THEN Without(@, {id}) ELSE [@ EXCEPT ![id] = left],
                       !.k = IF left = {} THEN sys_unwatch(@, id) ELSE @]

lost(w, p) == [unbind(w, p) EXCEPT !.pending = @ \cup {p}]

emit(w, p, kind) == [w EXCEPT !.batch = @ \cup {<<p, kind>>}, !.dirty = @ \ {p}]

\* A watch made only to compare, and that no path uses, is let go.
Drop(w, id) == IF id = -1 \/ id \in DOMAIN w.i2p THEN w ELSE [w EXCEPT !.k = sys_unwatch(@, id)]

retry(w, p) ==
    LET s == sys_watch(w.k, p)
    IN  IF s.id = -1 THEN w
        ELSE [emit(bind([w EXCEPT !.k = s.k], p, s.id), p, "created") EXCEPT !.pending = @ \ {p}]

\* One event, for one of the paths of its watch.

Gone(e) == e.kinds \cap {"delete_self", "move_self", "ignored"} # {}

\* Faulty form: a change of the link count is no more than a change.
path_event_Attrib(w, p, e) ==
    IF Gone(e) THEN lost(emit(w, p, "deleted"), p) ELSE emit(w, p, "modified")

path_event(w, p, e) ==
    IF Gone(e) THEN lost(emit(w, p, "deleted"), p)
    ELSE IF ~Inotify \/ "attrib" \notin e.kinds THEN emit(w, p, "modified")
    ELSE LET s == sys_watch(w.k, p)
             v == [w EXCEPT !.k = s.k]
         IN  IF s.id = e.id THEN emit(v, p, "modified")
             ELSE lost(emit(Drop(v, s.id), p, "deleted"), p)

-----------------------------------------------------------------------------
\* Init: nothing is watched yet; the paths that exist are files of their own.
Init ==
    /\ \E there \in SUBSET Paths :
          LET n == SetToSeq(there)
          IN  /\ names = [p \in Paths |-> IF p \in there THEN CHOOSE i \in DOMAIN n : n[i] = p ELSE None]
              /\ inodes = Len(n)
    /\ kept = {}
    /\ kernel = [watches |-> <<>>, queue |-> <<>>, next |-> 1]
    /\ path_to_id = <<>> /\ id_to_paths = <<>> /\ pending = {}
    /\ pc = "idle" /\ todo = {} /\ evs = <<>> /\ overflow = FALSE
    /\ batch = {} /\ tampered = {} /\ dirty = {} /\ changes = 0

Added == DOMAIN path_to_id \cup pending

\* At the start, path after path; one that is not there waits.
add(p) ==
    /\ pc = "idle" /\ p \notin Added
    /\ LET s == sys_watch(kernel, p)
       IN  Becomes(IF s.id = -1 THEN [W EXCEPT !.pending = @ \cup {p}]
                   ELSE bind([W EXCEPT !.k = s.k], p, s.id))
    /\ UNCHANGED <<files, poll, changes>>

PollBegins ==
    /\ pc = "idle" /\ Added = Paths
    /\ pc' = "retry" /\ todo' = pending
    /\ evs' = <<>> /\ overflow' = FALSE /\ batch' = {}
    /\ UNCHANGED <<files, kernel, maps, tampered, dirty, changes>>

\* retry_pending(), before the events and after them.
RetryOne ==
    /\ pc \in {"retry", "again"} /\ todo # {}
    /\ \E p \in todo : Becomes(retry(W, p)) /\ todo' = todo \ {p}
    /\ UNCHANGED <<files, pc, evs, overflow, tampered, changes>>

RetryDone ==
    /\ pc = "retry" /\ todo = {}
    /\ pc' = "read"
    /\ UNCHANGED <<files, kernel, maps, todo, evs, overflow, batch, tampered, dirty, changes>>

\* Events are read until none waits; kevent() is called once.
Read ==
    /\ pc = "read" /\ kernel.queue # <<>>
    /\ LET n == IF Inotify \/ Len(kernel.queue) <= kMaxEvents THEN Len(kernel.queue) ELSE kMaxEvents
       IN  /\ evs' = SubSeq(kernel.queue, 1, n)
           /\ kernel' = [kernel EXCEPT !.queue = SubSeq(@, n + 1, Len(@))]
    /\ pc' = "event"
    /\ UNCHANGED <<files, maps, todo, overflow, batch, tampered, dirty, changes>>

Event ==
    /\ pc = "event" /\ evs # <<>>
    /\ LET e == Head(evs)
           ps == IF e.id \in DOMAIN id_to_paths THEN SetToSeq(id_to_paths[e.id]) ELSE <<>>
       IN  /\ overflow' = (overflow \/ e.kinds = {"overflow"})
           /\ Becomes(FoldLeft(LAMBDA w, p : path_event(w, p, e), W, ps))
    /\ evs' = Tail(evs)
    /\ UNCHANGED <<files, pc, todo, tampered, changes>>

EventsDone ==
    /\ \/ pc = "read" /\ kernel.queue = <<>>
       \/ pc = "event" /\ evs = <<>>
    /\ IF pc = "event" /\ Inotify THEN pc' = "read" /\ UNCHANGED todo
       ELSE IF overflow THEN pc' = "check" /\ todo' = DOMAIN path_to_id
       ELSE pc' = "again" /\ todo' = pending
    /\ UNCHANGED <<files, kernel, maps, evs, overflow, batch, tampered, dirty, changes>>

\* After an overflow every watch is compared with what its path names now.
CheckOne ==
    /\ pc = "check" /\ todo # {}
    /\ \E p \in todo :
          /\ LET s == sys_watch(kernel, p)
                 w == [W EXCEPT !.k = s.k]
             IN  Becomes(IF s.id = path_to_id[p] THEN emit(w, p, "modified")
                         ELSE Drop(lost(emit(w, p, "deleted"), p), s.id))
          /\ todo' = todo \ {p}
    /\ UNCHANGED <<files, pc, evs, overflow, tampered, changes>>

CheckDone ==
    /\ pc = "check" /\ todo = {}
    /\ pc' = "again" /\ todo' = pending
    /\ UNCHANGED <<files, kernel, maps, evs, overflow, batch, tampered, dirty, changes>>

\* The events go to the rules, those of a poll() that failed too.
apply == tampered' = {b[1] : b \in batch}

PollEnds ==
    /\ pc = "again" /\ todo = {}
    /\ apply
    /\ pc' = "idle"
    /\ UNCHANGED <<files, kernel, maps, todo, evs, overflow, batch, dirty, changes>>

PollFails ==
    /\ pc = "retry" /\ todo = {}
    /\ apply
    /\ pc' = "idle"
    /\ UNCHANGED <<files, kernel, maps, todo, evs, overflow, batch, dirty, changes>>

-----------------------------------------------------------------------------
\* Other programs. A path that waits and was not reported yet may come and go
\* unseen; every other change is to be reported.
Change(k, ps) ==
    /\ changes < MaxChanges /\ changes' = changes + 1
    /\ kernel' = k
    /\ dirty' = dirty \cup (ps \cap Added)
    /\ UNCHANGED <<maps, poll>>

Same(i) == {q \in Paths : names[q] = i}

Written(p) ==
    /\ names[p] # None
    /\ \E kind \in {"modify", "attrib"} : Change(Notify(kernel, names[p], kind), Same(names[p]))
    /\ UNCHANGED files

Replaced(p) ==
    /\ inodes < MaxInodes
    /\ inodes' = inodes + 1
    /\ names' = [names EXCEPT ![p] = inodes']
    /\ Change(Unlinked(kernel, names[p], p), {p})
    /\ UNCHANGED kept

Vanishes(p, k) ==
    /\ names' = [names EXCEPT ![p] = None]
    /\ changes < MaxChanges /\ changes' = changes + 1
    /\ kernel' = k
    /\ dirty' = IF p \in pending THEN dirty \ {p} ELSE dirty \cup ({p} \cap Added)
    /\ UNCHANGED <<inodes, maps, poll>>

Removed(p) ==
    /\ names[p] # None
    /\ Vanishes(p, Unlinked(kernel, names[p], p))
    /\ UNCHANGED kept

MovedAway(p) ==
    /\ names[p] # None
    /\ Vanishes(p, Notify(kernel, names[p], "move_self"))
    /\ kept' = kept \cup {names[p]}

Linked(p, q) ==
    /\ names[p] # None /\ names[q] = None
    /\ names' = [names EXCEPT ![q] = names[p]]
    /\ Change(IF Inotify THEN Notify(kernel, names[p], "attrib") ELSE kernel, {q})
    /\ UNCHANGED <<kept, inodes>>

\* A reader opens the file, and closes it.
Held(p) ==
    /\ names[p] \notin kept \cup {None}
    /\ kept' = kept \cup {names[p]}
    /\ Change(kernel, {})
    /\ UNCHANGED <<names, inodes>>

Released(i) ==
    /\ i \in kept
    /\ kept' = kept \ {i}
    /\ kernel' = IF Same(i) = {} THEN Freed(kernel, i) ELSE kernel
    /\ UNCHANGED <<names, inodes, maps, poll, dirty, changes>>

PollStep ==
    \/ PollBegins \/ RetryOne \/ RetryDone \/ Read \/ Event \/ EventsDone
    \/ CheckOne \/ CheckDone \/ PollEnds

Next ==
    \/ PollStep \/ PollFails
    \/ \E p \in Paths : add(p) \/ Written(p) \/ Replaced(p) \/ Removed(p) \/ MovedAway(p) \/ Held(p)
    \/ \E p, q \in Paths : Linked(p, q)
    \/ \E i \in 1 .. MaxInodes : Released(i)

Spec == Init /\ [][Next]_vars

\* The paths are added before the loop, every tick polls, and poll(2) does not
\* fail for ever.
FairSpec ==
    Spec /\ WF_vars(PollStep) /\ WF_vars(\E p \in Paths : add(p)) /\ SF_vars(RetryDone)

-----------------------------------------------------------------------------
\* The variables stay in their ranges, and the two maps are each other's
\* inverse, so that no event finds a path that moved on.
TypeOK ==
    /\ \A p \in Paths : names[p] \in 0 .. inodes
    /\ pc \in {"idle", "retry", "read", "event", "check", "again"}
    /\ todo \subseteq Paths /\ pending \subseteq Paths /\ dirty \subseteq Paths /\ tampered \subseteq Paths
    /\ DOMAIN path_to_id \cap pending = {}
    /\ \A id \in DOMAIN id_to_paths :
          id_to_paths[id] = {p \in DOMAIN path_to_id : path_to_id[p] = id} /\ id_to_paths[id] # {}
    /\ \A p \in DOMAIN path_to_id : path_to_id[p] \in DOMAIN id_to_paths

\* Between two polls, with no event waiting: every change was reported, but
\* for a path that came to exist since, which waits for the next poll; and
\* every watch is on the file its path names. Editors that replace the file,
\* readers that hold the old one, hard links and a full queue included.
NoneMissed ==
    pc = "idle" /\ kernel.queue = <<>> =>
        /\ \A p \in dirty : p \in pending /\ names[p] # None
        /\ \A p \in DOMAIN path_to_id :
              /\ path_to_id[p] \in DOMAIN kernel.watches
              /\ kernel.watches[path_to_id[p]] = names[p]

\* No kernel watch and no descriptor outlives its last path, whatever was
\* compared, lost and watched again: a file replaced every minute does not use
\* up the limit.
NoLeak == pc = "idle" => DOMAIN kernel.watches \subseteq DOMAIN id_to_paths

\* Every change of a watched path is reported at last, a change during a poll
\* included.
Reported == \A p \in Paths : p \in dirty ~> p \notin dirty
=============================================================================
