--------------------------- MODULE AlertDelivery ----------------------------
(***************************************************************************)
(* AlertDispatcher: dispatch() on the collection loop queues one job an    *)
(* alert, for every channel that is complete; the worker's thread sends it *)
(* to one channel after the other with curl, whose URL, credentials, body  *)
(* and answers go through private temp files. The queue and its stop are     *)
(* Worker's, in the steps a job can tell apart.                            *)
(***************************************************************************)
EXTENDS Integers, Sequences, FiniteSets, FiniteSetsExt, Functions

CONSTANTS Channels,    \* the configured channels, a sequence of records
          kMaxQueue,   \* jobs that may wait
          MaxAlerts,   \* bound: alerts of a behaviour
          Codes        \* statuses a service may answer with

DeliveryAssumption ==
    /\ Channels \in Seq([type : STRING, filled : SUBSET STRING, pair : BOOLEAN])
    /\ kMaxQueue \in Nat \ {0} /\ MaxAlerts \in Nat /\ Codes \subseteq 200 .. 599

VARIABLES
    dispatch_calls,
    d_queue,      \* alert numbers that wait
    pc,           \* the worker: "idle", "job", "make", "reply", "ended"
    alert, left,  \* the alert it works on, the channels it still has to reach
    made,         \* the temp files of this send, in the order they were made
    disk,         \* temp files that exist
    ran, reply,   \* did curl exit 0; the status lines it dumped
    d_stopping, d_cancel,
    delivered, failed, d_dropped,
    taken,        \* per channel, the alerts its service took, in order
    credited      \* the alert and the channel of each delivery counted

job == <<alert, left>>
curl == <<made, disk, ran, reply>>
counts == <<delivered, failed, d_dropped>>
alertvars == <<dispatch_calls, d_queue, pc, job, curl, d_stopping, d_cancel, counts, taken, credited>>

Filled(ch, fields) == fields \subseteq ch.filled

\* The fields a channel of each type cannot do without.
channel_complete(ch) ==
    CASE ch.type = "ntfy"     -> Filled(ch, {"url", "topic"})
      [] ch.type = "discord"  -> Filled(ch, {"url"})
      [] ch.type = "telegram" -> Filled(ch, {"topic"}) /\ ch.filled \cap {"token", "url"} # {}
      [] ch.type = "smtp"     -> Filled(ch, {"from", "topic", "url"})
      [] ch.type = "twilio"   -> Filled(ch, {"from", "topic", "url", "token"})
      [] OTHER                -> FALSE

targets == {c \in 1 .. Len(Channels) : channel_complete(Channels[c])}

\* send_one() refuses credentials without a colon before it makes a file.
Sendable(ch) ==
    CASE ch.type = "smtp"   -> "token" \in ch.filled => ch.pair
      [] ch.type = "twilio" -> ch.pair
      [] OTHER              -> TRUE

\* The files of a send, in the order they are made; curl's stderr is the last.
Files(ch) ==
    IF ch.type = "smtp" THEN <<"body", "config", "stderr">>
    ELSE <<"body", "headers", "reply_hdr", "reply_body", "config", "stderr">>

\* The channels are reached in the order they are configured.
at == Min(left)
ch == Channels[at]

DeliveryInit ==
    /\ dispatch_calls = 0 /\ d_queue = <<>>
    /\ pc = "idle" /\ alert = 0 /\ left = {}
    /\ made = <<>> /\ disk = {} /\ ran = FALSE /\ reply = <<>>
    /\ d_stopping = FALSE /\ d_cancel = FALSE
    /\ delivered = 0 /\ failed = 0 /\ d_dropped = 0
    /\ taken = [c \in 1 .. Len(Channels) |-> <<>>] /\ credited = {}

-----------------------------------------------------------------------------
\* The collection loop.

dispatch ==
    /\ dispatch_calls < MaxAlerts
    /\ dispatch_calls' = dispatch_calls + 1
    /\ CASE targets = {} -> UNCHANGED <<d_queue, d_dropped>>
         [] targets # {} /\ (d_stopping \/ Len(d_queue) >= kMaxQueue) ->
                d_dropped' = d_dropped + 1 /\ UNCHANGED d_queue
         [] OTHER -> d_queue' = Append(d_queue, dispatch_calls') /\ UNCHANGED d_dropped
    /\ UNCHANGED <<pc, job, curl, d_stopping, d_cancel, delivered, failed, taken, credited>>

\* stop(): the grace has passed, or nothing was left to wait for.
stop ==
    /\ ~d_stopping
    /\ d_stopping' = TRUE
    /\ d_cancel' = (d_queue # <<>> \/ pc # "idle")
    /\ UNCHANGED <<dispatch_calls, d_queue, pc, job, curl, counts, taken, credited>>

-----------------------------------------------------------------------------
\* The worker's thread.

JobTaken ==
    /\ pc = "idle" /\ d_queue # <<>> /\ ~(d_stopping /\ d_cancel)
    /\ alert' = Head(d_queue) /\ d_queue' = Tail(d_queue)
    /\ left' = targets
    /\ pc' = "job"
    /\ UNCHANGED <<dispatch_calls, curl, d_stopping, d_cancel, counts, taken, credited>>

WorkerEnds ==
    /\ pc = "idle" /\ d_stopping /\ (d_queue = <<>> \/ d_cancel)
    /\ d_dropped' = d_dropped + Len(d_queue) /\ d_queue' = <<>>
    /\ pc' = "ended"
    /\ UNCHANGED <<dispatch_calls, job, curl, d_stopping, d_cancel, delivered, failed, taken, credited>>

JobDone ==
    /\ pc = "job" /\ left = {}
    /\ pc' = "idle"
    /\ UNCHANGED <<dispatch_calls, d_queue, job, curl, d_stopping, d_cancel, counts, taken, credited>>

\* A cancelled job still counts the channels it did not try.
ChannelSkipped ==
    /\ pc = "job" /\ left # {}
    /\ d_cancel \/ ~Sendable(ch)
    /\ failed' = failed + 1
    /\ left' = left \ {at}
    /\ UNCHANGED <<dispatch_calls, d_queue, pc, alert, curl, d_stopping, d_cancel, delivered, d_dropped, taken, credited>>

SendBegins ==
    /\ pc = "job" /\ left # {} /\ ~d_cancel /\ Sendable(ch)
    /\ made' = <<>> /\ ran' = FALSE /\ reply' = <<>>
    /\ pc' = "make"
    /\ UNCHANGED <<dispatch_calls, d_queue, job, disk, d_stopping, d_cancel, counts, taken, credited>>

FileMade ==
    /\ pc = "make" /\ made # Files(ch)
    /\ LET f == Files(ch)[Len(made) + 1]
       IN  made' = Append(made, f) /\ disk' = disk \cup {f}
    /\ UNCHANGED <<dispatch_calls, d_queue, pc, job, ran, reply, d_stopping, d_cancel, counts, taken, credited>>

Cleanup == disk' = disk \ Range(made)

\* write_private_tmp() removes the file it could not write; the send removes
\* those made before it.

FileFails ==
    /\ pc = "make" /\ made # Files(ch)
    /\ Cleanup
    /\ failed' = failed + 1 /\ left' = left \ {at}
    /\ pc' = "job"
    /\ UNCHANGED <<dispatch_calls, d_queue, alert, made, ran, reply, d_stopping, d_cancel, delivered, d_dropped, taken, credited>>

\* curl ran: the service took the message or refused it, and curl's exit says
\* that an answer came whole. A curl that fails, or is killed at its timeout
\* or by the stop, may have been heard all the same.
Answers == {<<>>} \cup {<<c>> : c \in Codes} \cup {<<100, c>> : c \in Codes}
Good(c) == c \in 200 .. 299
Accepts(a) == a # <<>> /\ Good(a[Len(a)])

CurlExitsZero ==
    /\ pc = "make" /\ made = Files(ch)
    /\ ran' = TRUE
    /\ IF ch.type = "smtp" THEN UNCHANGED reply ELSE reply' \in Answers
    /\ taken' = IF ch.type = "smtp" \/ Accepts(reply')
                THEN [taken EXCEPT ![at] = Append(@, alert)] ELSE taken
    /\ pc' = "reply"
    /\ UNCHANGED <<dispatch_calls, d_queue, job, made, disk, d_stopping, d_cancel, counts, credited>>

CurlFails ==
    /\ pc = "make" /\ made = Files(ch)
    /\ ran' = FALSE
    /\ \/ reply' = <<>> /\ UNCHANGED taken
       \/ /\ reply' \in IF ch.type = "smtp" THEN {<<>>} ELSE {<<>>, <<100>>, <<200>>}
          /\ taken' = [taken EXCEPT ![at] = Append(@, alert)]
    /\ pc' = "reply"
    /\ UNCHANGED <<dispatch_calls, d_queue, job, made, disk, d_stopping, d_cancel, counts, credited>>

\* Faulty form: the first status line is read, a "100 Continue" let pass.
http_ok_First == reply # <<>> /\ (Good(Head(reply)) \/ Head(reply) = 100)

http_ok == reply # <<>> /\ Good(reply[Len(reply)])

SendDone ==
    /\ pc = "reply"
    /\ Cleanup
    /\ IF ran /\ (ch.type = "smtp" \/ http_ok)
       THEN delivered' = delivered + 1 /\ credited' = credited \cup {<<alert, at>>} /\ UNCHANGED failed
       ELSE failed' = failed + 1 /\ UNCHANGED <<delivered, credited>>
    /\ left' = left \ {at}
    /\ pc' = "job"
    /\ UNCHANGED <<dispatch_calls, d_queue, alert, made, ran, reply, d_stopping, d_cancel, d_dropped, taken>>

WorkerStep ==
    \/ JobTaken \/ WorkerEnds \/ JobDone \/ ChannelSkipped \/ SendBegins
    \/ FileMade \/ FileFails \/ CurlExitsZero \/ CurlFails \/ SendDone

DeliveryNext == dispatch \/ stop \/ WorkerStep

DeliverySpec == DeliveryInit /\ [][DeliveryNext]_alertvars

-----------------------------------------------------------------------------
\* The variables stay in their ranges; the files of a send are made in their
\* order, and after the end nothing waits.
DeliveryTypeOK ==
    /\ dispatch_calls \in 0 .. MaxAlerts
    /\ d_queue \in Seq(1 .. MaxAlerts) /\ Len(d_queue) <= kMaxQueue
    /\ pc \in {"idle", "job", "make", "reply", "ended"}
    /\ alert \in 0 .. MaxAlerts /\ left \subseteq targets
    /\ pc \in {"make", "reply"} => left # {}
    /\ pc = "make" => Len(made) <= Len(Files(ch)) /\ \A i \in 1 .. Len(made) : made[i] = Files(ch)[i]
    /\ pc = "ended" => d_queue = <<>>

\* The temp files hold the credentials and the message: on every path out of a
\* send (no room for the third file, a curl that cannot start, one killed, a
\* refusal) they are gone before the next channel, and nothing outlives the
\* job.
NothingLeft == pc \notin {"make", "reply"} => disk = {}

\* Every alert is for every complete channel, and none is lost in silence:
\* what was dispatched is delivered, failed, still to do, or counted dropped.
Accounted ==
    delivered + failed + Cardinality(left) + Cardinality(targets) * (Len(d_queue) + d_dropped)
        = Cardinality(targets) * dispatch_calls

\* Counted as delivered is what the service took, each alert once a channel: a
\* refusal never counts, though curl exits 0 on it and "100 Continue" comes
\* before it.
DeliveredTaken ==
    /\ delivered = Cardinality(credited)
    /\ \A d \in credited : d[2] \in targets /\ d[1] \in Range(taken[d[2]])

\* A service hears each alert at most once, and in the order the rules raised
\* them, whatever was dropped, refused or killed in between.
InOrder ==
    \A c \in 1 .. Len(Channels) : \A i, j \in 1 .. Len(taken[c]) :
        i < j => taken[c][i] < taken[c][j]

\* Every alert is accounted for on every channel, heard at most once and in
\* order, delivered only if taken, and no file of it stays; the queue keeps to
\* its bound.
DeliveryRight == DeliveryTypeOK /\ NothingLeft /\ Accounted /\ DeliveredTaken /\ InOrder

\* A stop ends the thread: no channel that is down holds the shutdown.
StopEnds == d_stopping ~> pc = "ended"
=============================================================================
