------------------------------ MODULE AuditLog ------------------------------
(***************************************************************************)
(* The audit log processor of the worker (audit.go).  Callers of           *)
(* AddAuditLog send Kafka records on the Ingester's channel auditC; one     *)
(* goroutine, started by StartAuditLogProcessor, selects between its       *)
(* context being done and a record from auditC, and inserts each record    *)
(* into Postgres.  When it returns, its deferred calls run: one span-ending *)
(* closure per record it took (the defer sits inside the loop), then       *)
(* close(auditC).                                                          *)
(*                                                                         *)
(* A record is a model value; its payload matters only as "unmarshals" or  *)
(* not (BadRecord).  The channel is a sequence of at most Cap records; a   *)
(* caller whose send finds it full waits in blocked.  A panic anywhere     *)
(* ends the process, so every step requires that none has happened.  The   *)
(* processing of one record touches only the consumer's own state and      *)
(* Postgres, so it is one step.                                            *)
(***************************************************************************)
EXTENDS Integers, Sequences, SequencesExt

CONSTANTS
    Record,      \* Kafka records handed to AddAuditLog
    BadRecord,   \* records whose value does not unmarshal
    Cap          \* capacity of auditC

ASSUME BadRecord \subseteq Record /\ Cap \in Nat

VARIABLES
    unsent,      \* records not yet passed to AddAuditLog
    chan,        \* the records buffered in auditC, oldest first
    blocked,     \* records whose AddAuditLog send waits on a full auditC
    closed,      \* close(auditC) has run
    cancelled,   \* the processor's context is done
    consumer,    \* "running" or "returned": the processAuditLog goroutine
    spans,       \* record -> "none", "open" or "ended": its ingest span
    inserted,    \* records stored by CreateAuditLog
    dropped,     \* records the loop gave up on (logged and continued)
    panic        \* "none", "send" (on a closed channel) or "nil" (nil client)

vars == << unsent, chan, blocked, closed, cancelled, consumer, spans,
           inserted, dropped, panic >>

\* StartAuditLogProcessor has started the goroutine; nothing is sent yet.
Init ==
    /\ unsent = Record
    /\ chan = << >>
    /\ blocked = {}
    /\ closed = FALSE
    /\ cancelled = FALSE
    /\ consumer = "running"
    /\ spans = [r \in Record |-> "none"]
    /\ inserted = {}
    /\ dropped = {}
    /\ panic = "none"

\* The records a caller has handed over and the processor has not taken.
Queued == ToSet(chan) \cup blocked

(***************************************************************************)
(* AddAuditLog: "i.auditC <- record".                                      *)
(***************************************************************************)
AddAuditLog(r) ==
    /\ panic = "none" /\ r \in unsent
    /\ unsent' = unsent \ {r}
    /\ \/ closed /\ panic' = "send" /\ UNCHANGED << chan, blocked >>
       \/ ~closed /\ Len(chan) < Cap
          /\ chan' = Append(chan, r) /\ UNCHANGED << blocked, panic >>
       \/ ~closed /\ Len(chan) >= Cap
          /\ blocked' = blocked \cup {r} /\ UNCHANGED << chan, panic >>
    /\ UNCHANGED << closed, cancelled, consumer, spans, inserted, dropped >>

\* A send still waiting when auditC is closed panics.
BlockedSendPanics(r) ==
    /\ panic = "none" /\ closed /\ r \in blocked
    /\ panic' = "send"
    /\ UNCHANGED << unsent, chan, blocked, closed, cancelled, consumer, spans,
                    inserted, dropped >>

\* The caller cancels the processor's context.
Cancel ==
    /\ panic = "none" /\ ~cancelled
    /\ cancelled' = TRUE
    /\ UNCHANGED << unsent, chan, blocked, closed, consumer, spans, inserted,
                    dropped, panic >>

(***************************************************************************)
(* processAuditLog                                                         *)
(***************************************************************************)

\* "record := <-i.auditC": the oldest buffered record, a waiting sender's
\* value moving into the freed slot; with an empty buffer, a waiting
\* sender's value directly.
Recv(r) ==
    \/ /\ chan # << >> /\ r = Head(chan) /\ blocked = {}
       /\ chan' = Tail(chan) /\ UNCHANGED blocked
    \/ /\ chan # << >> /\ r = Head(chan)
       /\ \E s \in blocked : chan' = Append(Tail(chan), s) /\ blocked' = blocked \ {s}
    \/ /\ chan = << >> /\ r \in blocked
       /\ blocked' = blocked \ {r} /\ UNCHANGED chan

\* Mutant: a failed record ends the loop (return instead of continue).
ProcessRecordReturnOnError(r) ==
    /\ panic = "none" /\ consumer = "running"
    /\ Recv(r)
    /\ \/ /\ r \in BadRecord
          /\ dropped' = dropped \cup {r} /\ consumer' = "returned"
          /\ spans' = [spans EXCEPT ![r] = "ended"]
          /\ closed' = TRUE
          /\ UNCHANGED << inserted, panic >>
       \/ /\ r \notin BadRecord
          /\ inserted' = inserted \cup {r}
          /\ spans' = [spans EXCEPT ![r] = "ended"]
          /\ UNCHANGED << dropped, panic, consumer, closed >>
    /\ UNCHANGED << unsent, cancelled >>

\* The select takes a record and runs the loop body on it: start a span and
\* defer its end; get the Postgres client (an error is only logged);
\* unmarshal (failure: continue); CreateAuditLog on the client, which
\* dereferences a nil client; on an insert error continue, else end the span.
ProcessRecord(r) ==
    /\ panic = "none" /\ consumer = "running"
    /\ Recv(r)
    /\ \/ /\ r \in BadRecord
          /\ dropped' = dropped \cup {r}
          /\ spans' = [spans EXCEPT ![r] = "open"]
          /\ UNCHANGED << inserted, panic >>
       \/ /\ r \notin BadRecord            \* PostgresClient failed
          /\ panic' = "nil"
          /\ UNCHANGED << spans, inserted, dropped >>
       \/ /\ r \notin BadRecord            \* CreateAuditLog failed
          /\ dropped' = dropped \cup {r}
          /\ spans' = [spans EXCEPT ![r] = "open"]
          /\ UNCHANGED << inserted, panic >>
       \/ /\ r \notin BadRecord
          /\ inserted' = inserted \cup {r}
          /\ spans' = [spans EXCEPT ![r] = "ended"]
          /\ UNCHANGED << dropped, panic >>
    /\ UNCHANGED << unsent, closed, cancelled, consumer >>

\* The deferred calls at return, last registered first: every span-ending
\* closure, then close(auditC).
RunDefers ==
    /\ spans' = [r \in Record |-> IF spans[r] = "open" THEN "ended" ELSE spans[r]]
    /\ closed' = TRUE

\* The select takes "<-ctx.Done()": log and return.
SelectDone ==
    /\ panic = "none" /\ consumer = "running" /\ cancelled
    /\ consumer' = "returned"
    /\ RunDefers
    /\ UNCHANGED << unsent, chan, blocked, cancelled, inserted, dropped, panic >>

ConsumerStep == SelectDone \/ \E r \in Record : ProcessRecord(r)

Next ==
    \/ \E r \in Record : AddAuditLog(r) \/ BlockedSendPanics(r)
    \/ Cancel
    \/ ConsumerStep

\* The goroutine keeps running its loop; callers and cancellation are not
\* forced to act.
Spec == Init /\ [][Next]_vars /\ WF_vars(ConsumerStep)

-----------------------------------------------------------------------------
(***************************************************************************)
(* Properties                                                              *)
(***************************************************************************)

\* The loop keeps draining auditC: a record handed to AddAuditLog is
\* eventually inserted or given up on, unless the processor's context is
\* cancelled or the process has panicked.
RecordsDrained ==
    \A r \in Record :
        r \in Queued ~> (r \in inserted \cup dropped \/ cancelled \/ panic # "none")

(***************************************************************************)
(* Properties the code is checked against and found not to have.          *)
(***************************************************************************)

\* AddAuditLog never panics: no record is sent on a closed auditC.
NoSendOnClosed == panic # "send"

NilClientNeverUsed == panic # "nil"

=============================================================================
