---------------------------- MODULE RecordCodec -----------------------------
(***************************************************************************)
(* core/codec.cpp and storage/codec.cpp: a sample as the bytes of a ring's *)
(* record, version 9, and records of versions 1 to 9 read back. The fields *)
(* and their widths are listed twice, as sample_encode() writes them and   *)
(* as sample_decode() reads them. A byte is <<field, number>>: what matters*)
(* is which field's byte is read where.                                    *)
(***************************************************************************)
EXTENDS Integers, Sequences, FiniteSets, SequencesExt, TLC

CONSTANT kMaxLevelId

CodecAssumption == kMaxLevelId \in Nat /\ kMaxLevelId >= 3

Versions == 1 .. 9

\* The bytes of fields of w bytes each, and of padding.
Fs(w, names) == [i \in 1 .. w * Len(names) |-> <<names[((i - 1) \div w) + 1], ((i - 1) % w) + 1>>]
pad(n) == Fs(n, <<"pad">>)

-----------------------------------------------------------------------------
\* The sizes, as they are added up beside the layouts.
Added == <<(8 + 4 + 4) + (8 + 1 + 7) + (8 + 4 + 4) + 3 * 8 + 3 * 8 + 3 * 8 + 8,
           (8 + 8 + 4 + 4) + (8 + 8 + 4 + 4),
           4 + 4,
           4 + 1 + 3,
           4 * 8,
           8 + 4 + 1 + 3,
           4 + 4 + 1 + 7,
           6 * 8 + (5 * 4 + 4) + (4 + 4 + 6 * 8 + 1 + 7) + (4 * 8 + 1 + 7)
               + (4 + 1 + 3 + 2 * 8) + (2 * 8 + 1 + 1 + 6) + (4 + 4),
           4 * 8 + 1 + 7>>

kMinSize(v) == FoldLeft(+, 0, SubSeq(Added, 1, v))

-----------------------------------------------------------------------------
\* sample_encode(): what each version added, in the order it is written.
Put ==
  <<Fs(8, <<"magic">>) \o Fs(4, <<"version", "flags">>)
      \o Fs(8, <<"timestamp_nanos">>) \o Fs(1, <<"level">>) \o pad(7)
      \o Fs(8, <<"cpu.total_percent">>) \o Fs(4, <<"cpu.count">>) \o pad(4)
      \o Fs(8, <<"mem.total", "mem.available", "mem.available_percent",
                 "swap.total", "swap.used", "swap.used_percent",
                 "load.avg_1m", "load.avg_5m", "load.avg_15m", "uptime_seconds">>),
    Fs(8, <<"disk.read_bytes_per_sec", "disk.write_bytes_per_sec">>) \o Fs(4, <<"disk.device_count">>) \o pad(4)
      \o Fs(8, <<"net.rx_bytes_per_sec", "net.tx_bytes_per_sec">>) \o Fs(4, <<"net.interface_count">>) \o pad(4),
    Fs(4, <<"proc.total", "proc.running">>),
    Fs(4, <<"entropy.available_bits">>) \o Fs(1, <<"entropy.present">>) \o pad(3),
    Fs(8, <<"self.rss_bytes", "self.peak_rss_bytes", "self.cpu_user_seconds", "self.cpu_system_seconds">>),
    Fs(8, <<"thermal.max_celsius">>) \o Fs(4, <<"thermal.sensor_count">>) \o Fs(1, <<"thermal.present">>) \o pad(3),
    Fs(4, <<"file_watch.events_this_tick", "file_watch.watched_count">>) \o Fs(1, <<"file_watch.present">>) \o pad(7),
    Fs(8, <<"cpu.user_percent", "cpu.system_percent", "cpu.iowait_percent",
            "cpu.irq_percent", "cpu.steal_percent", "cpu.idle_percent">>)
      \o Fs(4, <<"proc.sleeping", "proc.blocked", "proc.stopped", "proc.zombie", "proc.threads">>) \o pad(4)
      \o Fs(4, <<"tcp.established", "tcp.time_wait">>)
      \o Fs(8, <<"tcp.active_opens", "tcp.passive_opens", "tcp.retransmits",
                 "tcp.in_segments", "tcp.out_segments", "tcp.in_errors">>) \o Fs(1, <<"tcp.present">>) \o pad(7)
      \o Fs(8, <<"udp.in_datagrams", "udp.out_datagrams", "udp.no_port", "udp.in_errors">>)
      \o Fs(1, <<"udp.present">>) \o pad(7)
      \o Fs(4, <<"fs.count">>) \o Fs(1, <<"fs.present">>) \o pad(3)
      \o Fs(8, <<"fs.max_used_percent", "fs.max_inodes_used_percent">>)
      \o Fs(8, <<"clock.offset_ms", "clock.max_error_ms">>) \o Fs(1, <<"clock.synced", "clock.present">>) \o pad(6)
      \o Fs(4, <<"groups">>) \o pad(4),
    Fs(8, <<"icmp.in_msgs", "icmp.out_msgs", "icmp.in_errors", "icmp.in_dest_unreachs">>)
      \o Fs(1, <<"icmp.present">>) \o pad(7)>>

\* The payload of version v: version 9 is the encoder's, the others those of
\* the releases before, each a longer one than the last.
sample_encode(v, level) ==
    LET layout == FlattenSeq(SubSeq(Put, 1, v))
    IN  [i \in DOMAIN layout |-> CASE layout[i][1] = "version" -> <<"version", v>>
                                   [] layout[i][1] = "level"   -> <<"level", level>>
                                   [] OTHER                    -> layout[i]]

-----------------------------------------------------------------------------
\* sample_decode(): after the header, what each version reads, in order.

\* Faulty form: the fields of the fs block in the order of the struct.
GetV8_Struct ==
    Fs(8, <<"cpu.user_percent", "cpu.system_percent", "cpu.iowait_percent",
            "cpu.irq_percent", "cpu.steal_percent", "cpu.idle_percent">>)
      \o Fs(4, <<"proc.sleeping", "proc.blocked", "proc.stopped", "proc.zombie", "proc.threads">>) \o pad(4)
      \o Fs(4, <<"tcp.established", "tcp.time_wait">>)
      \o Fs(8, <<"tcp.active_opens", "tcp.passive_opens", "tcp.retransmits",
                 "tcp.in_segments", "tcp.out_segments", "tcp.in_errors">>) \o Fs(1, <<"tcp.present">>) \o pad(7)
      \o Fs(8, <<"udp.in_datagrams", "udp.out_datagrams", "udp.no_port", "udp.in_errors">>)
      \o Fs(1, <<"udp.present">>) \o pad(7)
      \o Fs(4, <<"fs.count">>)
      \o Fs(8, <<"fs.max_used_percent", "fs.max_inodes_used_percent">>) \o Fs(1, <<"fs.present">>) \o pad(3)
      \o Fs(8, <<"clock.offset_ms", "clock.max_error_ms">>) \o Fs(1, <<"clock.synced", "clock.present">>) \o pad(6)
      \o Fs(4, <<"groups">>) \o pad(4)

GetV8 ==
    Fs(8, <<"cpu.user_percent", "cpu.system_percent", "cpu.iowait_percent",
            "cpu.irq_percent", "cpu.steal_percent", "cpu.idle_percent">>)
      \o Fs(4, <<"proc.sleeping", "proc.blocked", "proc.stopped", "proc.zombie", "proc.threads">>) \o pad(4)
      \o Fs(4, <<"tcp.established", "tcp.time_wait">>)
      \o Fs(8, <<"tcp.active_opens", "tcp.passive_opens", "tcp.retransmits",
                 "tcp.in_segments", "tcp.out_segments", "tcp.in_errors">>) \o Fs(1, <<"tcp.present">>) \o pad(7)
      \o Fs(8, <<"udp.in_datagrams", "udp.out_datagrams", "udp.no_port", "udp.in_errors">>)
      \o Fs(1, <<"udp.present">>) \o pad(7)
      \o Fs(4, <<"fs.count">>) \o Fs(1, <<"fs.present">>) \o pad(3)
      \o Fs(8, <<"fs.max_used_percent", "fs.max_inodes_used_percent">>)
      \o Fs(8, <<"clock.offset_ms", "clock.max_error_ms">>) \o Fs(1, <<"clock.synced", "clock.present">>) \o pad(6)
      \o Fs(4, <<"groups">>) \o pad(4)

Get ==
  <<Fs(8, <<"timestamp_nanos">>) \o Fs(1, <<"level">>) \o pad(7)
      \o Fs(8, <<"cpu.total_percent">>) \o Fs(4, <<"cpu.count">>) \o pad(4)
      \o Fs(8, <<"mem.total", "mem.available", "mem.available_percent">>)
      \o Fs(8, <<"swap.total", "swap.used", "swap.used_percent">>)
      \o Fs(8, <<"load.avg_1m", "load.avg_5m", "load.avg_15m">>) \o Fs(8, <<"uptime_seconds">>),
    Fs(8, <<"disk.read_bytes_per_sec", "disk.write_bytes_per_sec">>) \o Fs(4, <<"disk.device_count">>) \o pad(4)
      \o Fs(8, <<"net.rx_bytes_per_sec", "net.tx_bytes_per_sec">>) \o Fs(4, <<"net.interface_count">>) \o pad(4),
    Fs(4, <<"proc.total", "proc.running">>),
    Fs(4, <<"entropy.available_bits">>) \o Fs(1, <<"entropy.present">>) \o pad(3),
    Fs(8, <<"self.rss_bytes", "self.peak_rss_bytes", "self.cpu_user_seconds", "self.cpu_system_seconds">>),
    Fs(8, <<"thermal.max_celsius">>) \o Fs(4, <<"thermal.sensor_count">>) \o Fs(1, <<"thermal.present">>) \o pad(3),
    Fs(4, <<"file_watch.events_this_tick", "file_watch.watched_count">>) \o Fs(1, <<"file_watch.present">>) \o pad(7),
    GetV8,
    Fs(8, <<"icmp.in_msgs", "icmp.out_msgs", "icmp.in_errors", "icmp.in_dest_unreachs">>)
      \o Fs(1, <<"icmp.present">>) \o pad(7)>>

\* The groups a record from before version 8 holds.

GroupsBefore8(v) ==
    {"cpu", "mem", "swap", "load", "uptime"}
        \cup (IF v >= 2 THEN {"disk", "net"} ELSE {})
        \cup (IF v >= 3 THEN {"proc"} ELSE {})
        \cup (IF v >= 4 THEN {"entropy"} ELSE {})
        \cup (IF v >= 5 THEN {"self"} ELSE {})
        \cup (IF v >= 6 THEN {"thermal"} ELSE {})
        \cup (IF v >= 7 THEN {"file_watch"} ELSE {})

Names(layout) == {layout[i][1] : i \in DOMAIN layout} \ {"pad", "magic", "version", "flags"}
Fields == UNION {Names(Put[v]) : v \in Versions}

\* What is zeroed when the record does not hold it: by version up to 7, and
\* the rest before it is read.
Zeroed(v) == UNION {Names(Get[u]) : u \in {u \in 2 .. 7 : u > v} \cup {8, 9}} \ {"groups"}

\* Where the bytes of each field are read.
Layout == FlattenSeq(Get)
At == [f \in Names(Layout) |-> LET at == {i \in DOMAIN Layout : Layout[i][1] = f} IN <<16 + Min(at), 16 + Max(at)>>]

Zero == <<"zero">>
Version(buf) == buf[9][2]

\* <<result, out, last byte read>>. `out` is the caller's, with what it held.
sample_decode(buf, out) ==
    IF Len(buf) < kMinSize(1) THEN [rc |-> -2, out |-> out, read |-> 0]
    ELSE IF SubSeq(buf, 1, 8) # [k \in 1 .. 8 |-> <<"magic", k>>] THEN [rc |-> -3, out |-> out, read |-> 8]
    ELSE IF Version(buf) \notin Versions THEN [rc |-> -4, out |-> out, read |-> 12]
    ELSE IF Len(buf) < kMinSize(Version(buf)) THEN [rc |-> -2, out |-> out, read |-> 12]
    ELSE IF buf[25][2] \notin 1 .. kMaxLevelId THEN
        [rc |-> -5, out |-> [out EXCEPT !["timestamp_nanos"] = SubSeq(buf, 17, 24)], read |-> 25]
    ELSE LET v == Version(buf)
             held == UNION {Names(Get[u]) : u \in 1 .. v}
         IN  [rc   |-> 0,
              out  |-> [f \in DOMAIN out |->
                           CASE f \in held -> SubSeq(buf, At[f][1], At[f][2])
                             [] f = "groups" /\ v < 8 -> <<"of", GroupsBefore8(v)>>
                             [] f \in Zeroed(v) \ held -> Zero
                             [] OTHER -> out[f]],
              read |-> 16 + Len(FlattenSeq(SubSeq(Get, 1, v)))]

-----------------------------------------------------------------------------
\* The record around it: timestamp, level, flags, CRC-32C of those and of the
\* payload. The checksum is what it is computed from.
Framed(level, folded, payload) ==
    LET head == Fs(8, <<"timestamp_nanos">>) \o <<<<"lv", level>>, <<"fold", folded>>>>
    IN  [head |-> head, crc |-> <<head, payload>>, payload |-> payload]

record_encode(level, folded) == Framed(level, folded, sample_encode(9, level))

record_decode(r, out) ==
    LET d == sample_decode(r.payload, out)
    IN  IF r.payload = <<>> THEN [rc |-> -2, out |-> out]
        ELSE IF r.crc # <<r.head, r.payload>> THEN [rc |-> -3, out |-> out]
        ELSE IF d.rc # 0 THEN [rc |-> -4, out |-> d.out]
        ELSE IF r.head[9][2] \notin 1 .. kMaxLevelId THEN [rc |-> -5, out |-> d.out]
        ELSE [rc |-> 0, out |-> [d.out EXCEPT !["timestamp_nanos"] = SubSeq(r.head, 1, 8),
                                              !["level"] = <<<<"level", r.head[9][2]>>>>,
                                              !["folded"] = r.head[10][2]]]

-----------------------------------------------------------------------------
(***************************************************************************)
(* Records of every version, cut at every length around the sizes, with    *)
(* one byte changed, read into a sample that holds another's values.       *)
(***************************************************************************)

VARIABLE in

Stale == [f \in Fields \cup {"folded"} |-> IF f = "folded" THEN TRUE ELSE <<"stale">>]

Lengths == UNION {{kMinSize(v) - 8, kMinSize(v) - 1, kMinSize(v), kMinSize(v) + 8} : v \in Versions}

NoCall == [kind |-> "none"]
CodecInit == in = NoCall
Calls ==
    /\ in = NoCall
    /\ in' \in [kind : {"whole"}, level : {1, 3, kMaxLevelId}, folded : BOOLEAN]
               \cup [kind : {"old"}, v : 0 .. 10, level : {0, 1, kMaxLevelId + 1}, len : Lengths]
               \cup [kind : {"damaged"}, part : {"head", "payload", "crc"}, at : 1 .. 10]
Returns == in # NoCall /\ in' = NoCall
CodecNext == Calls \/ Returns

\* A payload of version v as long as `len`: cut, or with more after its end.
Buffer(v, level, len) ==
    LET all == sample_encode(9, level)
        v4 == <<<<"version", v>>, <<"version", v>>, <<"version", v>>, <<"version", v>>>>
    IN  SubSeq(SubSeq(all, 1, 8) \o v4 \o SubSeq(all, 13, Len(all)) \o pad(8), 1, len)

\* The bytes of field f as they were written.
Bytes == [f \in Fields |-> SelectSeq(sample_encode(9, 1), LAMBDA c : c[1] = f)]
FieldBytes(f, level) == IF f = "level" THEN <<<<"level", level>>>> ELSE Bytes[f]

\* A field of each group that came with it.
FirstField == ("cpu" :> "cpu.count" @@ "mem" :> "mem.total" @@ "swap" :> "swap.total" @@ "load" :> "load.avg_1m"
               @@ "uptime" :> "uptime_seconds" @@ "disk" :> "disk.device_count" @@ "net" :> "net.interface_count"
               @@ "proc" :> "proc.total" @@ "entropy" :> "entropy.present" @@ "self" :> "self.rss_bytes"
               @@ "thermal" :> "thermal.present" @@ "file_watch" :> "file_watch.present" @@ "tcp" :> "tcp.present"
               @@ "udp" :> "udp.present" @@ "fs" :> "fs.present" @@ "clock" :> "clock.present" @@ "icmp" :> "icmp.present")
CarriedBy(v) == UNION {Names(Put[u]) : u \in 1 .. v}

-----------------------------------------------------------------------------
\* A record that is stored reads back as the sample it was, every field, into
\* a sample that held another's values.
RoundTrip ==
    in.kind = "whole" =>
        LET d == record_decode(record_encode(in.level, in.folded), Stale)
        IN  /\ d.rc = 0
            /\ \A f \in Fields : d.out[f] = FieldBytes(f, in.level)
            /\ d.out["folded"] = in.folded

\* A record of an older version reads, whatever follows it, as what that
\* version held: its fields, zeros for the later ones, and no group claimed
\* whose fields it does not hold; a record too short for its version, of an
\* unknown version or level, is refused, and nothing past the end is read.
OldRecords ==
    in.kind = "old" =>
        LET d == sample_decode(Buffer(in.v, in.level, in.len), Stale)
        IN  /\ d.read <= in.len
            /\ (d.rc = 0) = (in.v \in Versions /\ in.level \in 1 .. kMaxLevelId /\ in.len >= kMinSize(in.v))
            /\ d.rc = 0 =>
                 /\ \A f \in CarriedBy(in.v) : d.out[f] = FieldBytes(f, in.level)
                 /\ \A f \in Fields \ (CarriedBy(in.v) \cup {"groups"}) : d.out[f] = Zero
                 /\ in.v < 8 =>
                      d.out["groups"][2] = {g \in DOMAIN FirstField : FirstField[g] \in CarriedBy(in.v)}

\* A byte changed in the header, the payload or the checksum is seen: the
\* flags that tell a folded record, too.
Changed(s, i) == [s EXCEPT ![i] = <<"bad">> \o @]
DamageSeen ==
    in.kind = "damaged" =>
        LET r == record_encode(1, FALSE)
            bad == CASE in.part = "head"    -> [r EXCEPT !.head = Changed(@, in.at)]
                     [] in.part = "payload" -> [r EXCEPT !.payload = Changed(@, in.at * 40)]
                     [] in.part = "crc"     -> [r EXCEPT !.crc = <<@[1], Changed(@[2], in.at)>>]
        IN  record_decode(bad, Stale).rc # 0
=============================================================================
