---------------------------- MODULE DeviceTotals ----------------------------
(***************************************************************************)
(* collector/detail.c and the Linux disk and network collectors: the rates *)
(* from the counters of devices that come, go, are listed in another order *)
(* and start again from zero. One counter stands for those of a device. A  *)
(* transfer goes through a set of devices, each of which counts it.        *)
(*                                                                         *)
(* collector/linux/netstat.c: the rate of UDP datagrams from the kernel's  *)
(* counters, IPv4's in /proc/net/snmp and IPv6's in /proc/net/snmp6 added  *)
(* to it. The counters have 32 bits on a 32-bit kernel (2^32 is Wrap). One *)
(* counter stands for those of each protocol, which are read alike.        *)
(***************************************************************************)
EXTENDS Integers, Sequences, FiniteSets, SequencesExt

CONSTANTS Names, Net,        \* the devices; whether they are interfaces
          IsDevice,          \* /sys/class/net/<if>/device is there
          Master,            \* /sys/class/net/<if>/master, or "none"
          Noise,             \* names of devices stacked on others
          Routes,            \* the sets of devices a transfer goes through
          MAX_COUNTED, MAX_ENTITIES, MaxSent, MaxChanges, MaxReads,
          Wrap, Wide,        \* 2^32; whether the kernel's UDP counters are wider
          MayFail,           \* whether snmp6 may not open at a read
          MaxDatagrams, MaxTotal

TotalsAssumption ==
    /\ IsDevice \in [Names -> BOOLEAN] /\ Noise \subseteq Names
    /\ Routes \subseteq SUBSET Names
    /\ MAX_COUNTED \in Nat \ {0} /\ MAX_ENTITIES \in Nat \ {0}
    /\ Wrap \in Nat \ {0} /\ Wrap % 2 = 0 /\ MaxDatagrams < Wrap \div 2

VARIABLES listing,      \* the devices, in the kernel's order
          counter,
          ctx,          \* dev, the counters of the last read in its order, and has_prev
          prev_list,    \* the counters the list of devices starts from
          out,          \* what the last read found moved: in all, and by device
          sent, lsent,  \* transfers since the last read: in all, by device since the last list
          calm,         \* no device came, went or restarted since the last read
          reads, changes,
          v4, v6,       \* datagrams since boot
          n_ctx,        \* udp_in of the last read, has_prev
          per_sec,      \* udp.in_datagrams_per_sec times the interval
          n_sent        \* datagrams since the last read

vars == <<listing, counter, ctx, prev_list, out, sent, lsent, calm, reads, changes>>

Init ==
    /\ listing \in SetToSeqs(Names)
    /\ counter = [n \in Names |-> 0]
    /\ ctx = [dev |-> <<>>, has_prev |-> FALSE]
    /\ prev_list = <<>>
    /\ out = [total |-> 0, rate |-> FALSE, over |-> FALSE, of |-> <<>>]
    /\ sent = 0 /\ lsent = [n \in Names |-> 0]
    /\ calm = TRUE /\ reads = 0 /\ changes = 0

-----------------------------------------------------------------------------
Present == ToSet(listing)

\* A transfer over a route whose devices are all there.
Transfer ==
    /\ sent < MaxSent
    /\ \E r \in Routes :
          /\ r \subseteq Present
          /\ counter' = [n \in Names |-> counter[n] + (IF n \in r THEN 1 ELSE 0)]
          /\ lsent' = [n \in Names |-> lsent[n] + (IF n \in r THEN 1 ELSE 0)]
    /\ sent' = sent + 1
    /\ UNCHANGED <<listing, ctx, prev_list, out, calm, reads, changes>>

\* The devices change, MaxChanges times.
Change == changes < MaxChanges /\ changes' = changes + 1

Unplug ==
    /\ Change
    /\ \E n \in Present : listing' = SelectSeq(listing, LAMBDA x : x # n)
    /\ calm' = FALSE
    /\ UNCHANGED <<counter, ctx, prev_list, out, sent, lsent, reads>>

\* A device comes with its counter at zero, first or last in the list.
Plug ==
    /\ Change
    /\ \E n \in Names \ Present :
          /\ listing' \in {<<n>> \o listing, Append(listing, n)}
          /\ counter' = [counter EXCEPT ![n] = 0]
    /\ calm' = FALSE
    /\ UNCHANGED <<ctx, prev_list, out, sent, lsent, reads>>

Reset ==
    /\ Change
    /\ \E n \in Present : counter[n] > 0 /\ counter' = [counter EXCEPT ![n] = 0]
    /\ calm' = FALSE
    /\ UNCHANGED <<listing, ctx, prev_list, out, sent, lsent, reads>>

Reorder ==
    /\ Change
    /\ sent = 0
    /\ listing' = Reverse(listing)
    /\ UNCHANGED <<counter, ctx, prev_list, out, sent, lsent, calm, reads>>

-----------------------------------------------------------------------------
\* A device of its own (a NIC), and not one under another device.
iface_physical(n) ==
    IsDevice[n] /\ (Master[n] = "none" \/ ~IsDevice[Master[n]])

is_noise_name(n) == n \in Noise

\* budyk_counted_add(): what the device moved since the last read, the search
\* going on from where the last device was found.

\* Its place in the list, 0 if it was not there.
Found(dev, pos, n) ==
    LET ks == {k \in 0 .. Len(dev) - 1 : dev[((pos + k) % Len(dev)) + 1].name = n}
    IN  IF ks = {} THEN 0 ELSE ((pos + Min(ks)) % Len(dev)) + 1

Moved(now, before) == IF now >= before THEN now - before ELSE 0

budyk_counted_add(acc, n) ==
    LET i == Found(ctx.dev, acc.pos, n)
        m == IF i = 0 THEN 0 ELSE Moved(counter[n], ctx.dev[i].a)
        real == iface_physical(n)
    IN  [pos |-> IF i = 0 THEN acc.pos ELSE i,
         next |-> IF Len(acc.next) < MAX_COUNTED THEN Append(acc.next, [name |-> n, a |-> counter[n]])
                  ELSE acc.next,
         moved |-> acc.moved + m,
         physical |-> acc.physical + (IF real THEN m ELSE 0),
         nphysical |-> acc.nphysical + (IF real THEN 1 ELSE 0)]

\* The devices of the list, the first MAX_ENTITIES of the reads.
Listed(names) == SubSeq(names, 1, IF Len(names) < MAX_ENTITIES THEN Len(names) ELSE MAX_ENTITIES)

budyk_rate(now, before) == IF now < before THEN 0 ELSE now - before
Since(names) ==
    [n \in ToSet(Listed(names)) |->
        IF n \in DOMAIN prev_list THEN budyk_rate(counter[n], prev_list[n]) ELSE 0]

\* Faulty form: every interface's.
total_Each(acc) == acc.moved

\* The totals: the devices' that are no part of another; with none, all.
total(acc) == IF Net /\ acc.nphysical > 0 THEN acc.physical ELSE acc.moved

\* One read, with the list of the devices or without.
Collect(list) ==
    /\ reads < MaxReads
    /\ LET names == IF Net THEN listing ELSE SelectSeq(listing, LAMBDA n : ~is_noise_name(n))
           acc == FoldLeft(budyk_counted_add,
                           [pos |-> 0, next |-> <<>>, moved |-> 0, physical |-> 0, nphysical |-> 0], names)
       IN  /\ out' = [total |-> IF ctx.has_prev THEN total(acc) ELSE 0, rate |-> ctx.has_prev,
                      over |-> Len(names) > Len(ctx.dev),
                      of |-> IF list THEN Since(names) ELSE <<>>]
           /\ ctx' = [dev |-> acc.next, has_prev |-> TRUE]
           /\ prev_list' = IF list THEN [n \in ToSet(Listed(names)) |-> counter[n]] ELSE prev_list
    /\ lsent' = IF list THEN [n \in Names |-> 0] ELSE lsent
    /\ sent' = 0 /\ calm' = TRUE /\ reads' = reads + 1
    /\ UNCHANGED <<listing, counter, changes>>

CollectTotals == Collect(FALSE)
CollectList == Collect(TRUE)

Done == reads = MaxReads /\ UNCHANGED vars

Next ==
    \/ Transfer \/ Unplug \/ Plug \/ Reset \/ Reorder
    \/ CollectTotals \/ CollectList \/ Done
Spec == Init /\ [][Next]_vars

-----------------------------------------------------------------------------
\* A transfer is counted once at most, whatever devices it went through and
\* whatever came, went or restarted in between: the total a read finds moved
\* is no more than was sent since the read before.
NeverMore ==
    [][reads' # reads => out'.total <= sent]_vars

\* A device's own rate is no more than what went through it since the last
\* list, whatever came, went, restarted or moved in the order.
ListRight ==
    [][reads' # reads => \A n \in DOMAIN out'.of : out'.of[n] <= lsent[n]]_vars

\* With the devices as they were, in any order, and no more of them than the
\* totals follow, every transfer is counted: exactly once.
AllCounted ==
    [][reads' # reads /\ calm /\ out'.rate /\ ~out'.over => out'.total = sent]_vars

-----------------------------------------------------------------------------
(* The UDP counters.                                                       *)

netvars == <<v4, v6, n_ctx, per_sec, n_sent>>

NetInit ==
    /\ v4 \in 0 .. Wrap - 1 /\ v6 \in {0, Wrap - 1}
    /\ n_ctx = [udp_in |-> 0, has_prev |-> FALSE] /\ per_sec = 0 /\ n_sent = 0

Datagram ==
    /\ n_sent < MaxDatagrams /\ v4 + v6 < MaxTotal
    /\ \/ v4' = v4 + 1 /\ UNCHANGED v6
       \/ v6' = v6 + 1 /\ UNCHANGED v4
    /\ n_sent' = n_sent + 1
    /\ UNCHANGED <<n_ctx, per_sec>>

Counter(v) == IF Wide THEN v ELSE v % Wrap

\* A counter that went back from the upper half of 32 bits to the lower one
\* wrapped; any other that did is 0.
rate(now, prev) ==
    IF now >= prev THEN now - prev
    ELSE IF prev < Wrap \div 2 \/ prev >= Wrap \/ now >= Wrap \div 2 THEN 0
    ELSE Wrap - prev + now

ReadUdp(opens) ==
    LET uin == Counter(v4) + (IF opens THEN Counter(v6) ELSE 0)
    IN  /\ per_sec' = IF n_ctx.has_prev THEN rate(uin, n_ctx.udp_in) ELSE 0
        /\ n_ctx' = [udp_in |-> uin, has_prev |-> TRUE]

budyk_collect_netstat_linux ==
    /\ \E opens \in IF MayFail THEN BOOLEAN ELSE {TRUE} : ReadUdp(opens)
    /\ n_sent' = 0
    /\ UNCHANGED <<v4, v6>>

NetNext == Datagram \/ budyk_collect_netstat_linux
NetSpec == NetInit /\ [][NetNext]_netvars

-----------------------------------------------------------------------------
\* The rate of an interval is never of more datagrams than came in it, also
\* when one of the two counters, or both, wrapped.
RateNeverMore == [][(n_sent' = 0 /\ n_ctx' # n_ctx) => per_sec' <= n_sent]_netvars

\* An interval in which the counter of the only protocol in use wrapped is
\* counted whole.
WrapCounted == [][(n_sent' = 0 /\ n_ctx.has_prev /\ v6 = 0 /\ n_ctx' # n_ctx) => per_sec' = n_sent]_netvars
=============================================================================
