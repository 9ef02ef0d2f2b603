------------------------------ MODULE MCActions -----------------------------
(***************************************************************************)
(* What a rule sets off: the worker thread, the delivery of alerts and the *)
(* texts they carry, and the run of a command. A behaviour is one of the   *)
(* parts on its own; the others rest in their initial state.               *)
(***************************************************************************)
EXTENDS AlertText, Worker, ExecCommand, AlertDelivery

VARIABLE part

workervars == vars

\* Channels that are complete, that lack a field, and whose credentials are
\* refused.
Ch(t, filled) == [type |-> t, filled |-> filled, pair |-> FALSE]
MCChannels == <<Ch("ntfy", {"url", "topic"}), Ch("telegram", {"url"}),
                Ch("twilio", {"url", "topic", "from", "token"}), Ch("smtp", {"url", "topic", "from"})>>

ASSUME ActionInstances ==
    WorkerAssumption /\ AlertTextAssumption /\ ExecAssumption /\ DeliveryAssumption

ActionsInit ==
    /\ part \in {"texts", "worker", "exec", "delivery"}
    /\ TextInit /\ Init /\ ExecInit /\ DeliveryInit

ActionsNext ==
    \/ part = "texts" /\ TextNext /\ UNCHANGED <<part, workervars, execvars, alertvars>>
    \/ part = "worker" /\ Next /\ UNCHANGED <<part, in, execvars, alertvars>>
    \/ part = "exec" /\ ExecNext /\ UNCHANGED <<part, in, workervars, alertvars>>
    \/ part = "delivery" /\ DeliveryNext /\ UNCHANGED <<part, in, workervars, execvars>>

\* The fairness of each part, for its behaviours: the threads run, and every
\* run of curl ends (exec_command() kills it); a program need not ever end.
allvars == <<part, in, workervars, execvars, alertvars>>
WorkerFair(A) == part = "worker" /\ A /\ UNCHANGED <<part, in, execvars, alertvars>>
ExecFair(A) == part = "exec" /\ A /\ UNCHANGED <<part, in, workervars, alertvars>>
DeliveryFair(A) == part = "delivery" /\ A /\ UNCHANGED <<part, in, workervars, execvars>>
ActionsSpec ==
    /\ ActionsInit /\ [][ActionsNext]_allvars
    /\ WF_allvars(WorkerFair(ThreadStep)) /\ WF_allvars(WorkerFair(StopStep)) /\ WF_allvars(WorkerFair(GraceOver))
    /\ WF_allvars(ExecFair(Parent))
    /\ WF_allvars(DeliveryFair(WorkerStep))

-----------------------------------------------------------------------------
\* AlertText: any bytes become UTF-8 and JSON that read back, and
\* the header, the mail, the form and curl's config read back as what was put in.
TextsReadBack ==
    /\ SanitizeRight /\ EscapeRight /\ UnescapeRight
    /\ HeaderReadsBack /\ BodyLines /\ FormReadsBack /\ ConfigReadsBack

\* Worker, ExecCommand and AlertDelivery: the queue drains, and every stop and
\* every call comes back, with a stuck job, a deaf child or a channel down.
Progress == StopReturns /\ QueueDrains /\ Returns /\ StopEnds
=============================================================================
