------------------------------ MODULE Streamer -------------------------------
(***************************************************************************)
(* The streamers of internal/streamer: each reads the CSV in a loop, makes *)
(* one message of every good row, collects messages into batches and       *)
(* publishes each batch through ProduceBatch until every message of it is  *)
(* accepted.  The calls run in the MQ process (module Process), which may  *)
(* refuse a suffix, drain, or die in the middle; the network may lose a    *)
(* request or a reply.                                                     *)
(*                                                                         *)
(* Message n of streamer s is <<s, n>>: a row read again in the next pass  *)
(* is stamped anew, a row sent again is not.  The unary Produce, used when *)
(* BatchSize = 1, is a call with one message.  The backoff between two     *)
(* attempts is the time before Send; an attempt that finds no server       *)
(* changes nothing.                                                        *)
(***************************************************************************)
EXTENDS Process

CONSTANTS
    Streamers,
    Rows,      \* the CSV has rows 1..Rows
    Bad,       \* rows that cannot be parsed
    BatchSize, \* STREAMER_BATCH_SIZE
    MaxPasses, \* bound: passes over the CSV
    MaxFaults  \* bound: calls broken by the network, and cancellations

ASSUME StreamerAssumption ==
    /\ Rows \in Nat /\ Bad \subseteq 1..Rows
    /\ BatchSize \in Nat \ {0}
    /\ MaxPasses \in Nat \ {0} /\ MaxFaults \in Nat

VARIABLES
    strm,   \* streamer |-> its position, and the batch not yet accepted
    copies, \* history: message |-> how often a store admitted it
    faults  \* how many faults there were so far

strmVars == <<strm, copies, faults>>
vars == <<procVars, strmVars>>

PerPass == Rows - Cardinality(Bad)
Messages == Streamers \X (1..(MaxPasses * PerPass))

Init ==
    /\ ProcInit
    /\ strm = [s \in Streamers |-> [pc |-> "read", row |-> 1, pass |-> 1, made |-> 0, batch |-> <<>>]]
    /\ copies = [m \in Messages |-> 0]
    /\ faults = 0

Goes(s, new) == strm' = [strm EXCEPT ![s] = new]

-----------------------------------------------------------------------------
(* StreamBatched                                                             *)

\* A malformed row, or one whose value does not parse, is skipped.
SkipRow(s) ==
    /\ strm[s].pc = "read" /\ strm[s].row \in Bad
    /\ Goes(s, [strm[s] EXCEPT !.row = @ + 1])
    /\ UNCHANGED <<procVars, copies, faults>>

\* Mutant: the batch is flushed one row too late.
ReadRowFlushesLate(s) ==
    LET batch == Append(strm[s].batch, <<s, strm[s].made + 1>>)
    IN  /\ strm[s].pc = "read" /\ strm[s].row \in 1..Rows \ Bad
        /\ Goes(s, [strm[s] EXCEPT !.row = @ + 1, !.made = @ + 1, !.batch = batch,
                                   !.pc = IF Len(batch) > BatchSize THEN "send" ELSE @])
        /\ UNCHANGED <<procVars, copies, faults>>

\* A good row is stamped and joins the batch; a full batch is flushed.
ReadRow(s) ==
    LET batch == Append(strm[s].batch, <<s, strm[s].made + 1>>)
    IN  /\ strm[s].pc = "read" /\ strm[s].row \in 1..Rows \ Bad
        /\ Goes(s, [strm[s] EXCEPT !.row = @ + 1, !.made = @ + 1, !.batch = batch,
                                   !.pc = IF Len(batch) >= BatchSize THEN "send" ELSE @])
        /\ UNCHANGED <<procVars, copies, faults>>

\* Seek to the start of the file.
NextPass(s) ==
    IF strm[s].pass = MaxPasses
    THEN Goes(s, [strm[s] EXCEPT !.pass = @ + 1, !.pc = "done"])
    ELSE Goes(s, [strm[s] EXCEPT !.pass = @ + 1, !.row = 1])

\* Mutant: the partial batch is given up at the end of the pass.
EndPassDropsBatch(s) ==
    /\ strm[s].pc = "read" /\ strm[s].row > Rows
    /\ IF strm[s].batch # <<>> THEN Goes(s, [strm[s] EXCEPT !.batch = <<>>]) ELSE NextPass(s)
    /\ UNCHANGED <<procVars, copies, faults>>

\* End of file: a partial batch is flushed before the next pass.
EndPass(s) ==
    /\ strm[s].pc = "read" /\ strm[s].row > Rows
    /\ IF strm[s].batch # <<>> THEN Goes(s, [strm[s] EXCEPT !.pc = "send"]) ELSE NextPass(s)
    /\ UNCHANGED <<procVars, copies, faults>>

-----------------------------------------------------------------------------
(* produceBatchWithRetry, produceWithRetry                                   *)

\* The call of streamer s that it waits for, if the server still has it.
Pending(s) == {call \in calls : call.by = s /\ call.orphan = 0}

\* Send what is left of the batch.  GracefulStop refuses new calls.
Send(s) ==
    /\ strm[s].pc = "send"
    /\ phase \in {"serving", "draining", "leaving"}
    /\ calls' = calls \cup {[by |-> s, orphan |-> 0, msgs |-> strm[s].batch,
                             accepted |-> 0, at |-> "arrived"]}
    /\ Goes(s, [strm[s] EXCEPT !.pc = "await"])
    /\ UNCHANGED <<phase, policy, runs, stats, handler, drain, seen, copies, faults>>

\* What is left after an answer, by Produce: all of one message, or nothing.
UnaryRest(call) == IF call.accepted = 1 THEN <<>> ELSE call.msgs

\* Mutant: the whole batch is sent again after a partial acceptance.
ResendAll(call) == IF call.accepted = Len(call.msgs) THEN <<>> ELSE call.msgs

\* By ProduceBatch: the suffix that was not accepted.
BatchRest(call) == SubSeq(call.msgs, call.accepted + 1, Len(call.msgs))

\* The answer: retry what is left of the batch, or go on.  An error keeps all.
Reply(s, call) ==
    LET rest == IF BatchSize = 1 THEN UnaryRest(call) ELSE BatchRest(call)
    IN  /\ strm[s].pc = "await" /\ call \in Pending(s)
        /\ call.at \in {"reply", "unavailable"}
        /\ calls' = calls \ {call}
        /\ Goes(s, [strm[s] EXCEPT !.batch = rest, !.pc = IF rest = <<>> THEN "read" ELSE "send"])
        /\ UNCHANGED <<phase, policy, runs, stats, handler, drain, seen, copies, faults>>

\* What the server keeps of a call whose caller is gone: all of it, or nothing
\* if the request never arrived.
Orphaned(pending) ==
    \/ calls' = (calls \ pending) \cup {[call EXCEPT !.orphan = faults + 1] : call \in pending}
    \/ /\ \A call \in pending : call.at = "arrived"
       /\ calls' = calls \ pending

\* The connection breaks: the client cannot know what was accepted.
CallBreaks(s) ==
    /\ strm[s].pc = "await" /\ Pending(s) # {} /\ faults < MaxFaults
    /\ faults' = faults + 1
    /\ Orphaned(Pending(s))
    /\ Goes(s, [strm[s] EXCEPT !.pc = "send"])
    /\ UNCHANGED <<phase, policy, runs, stats, handler, drain, seen, copies>>

\* Mutant: without keepalive the caller does not notice.
ServerGoneUnnoticed(s) == strm[s].pc = "gone" /\ UNCHANGED vars

\* The process is gone, and the call with it.
ServerGone(s) ==
    /\ strm[s].pc = "await" /\ Pending(s) = {}
    /\ Goes(s, [strm[s] EXCEPT !.pc = "send"])
    /\ UNCHANGED <<procVars, copies, faults>>

\* The context is cancelled: the streamer returns wherever it is.
Cancel(s) ==
    /\ strm[s].pc \notin {"stopped", "done"} /\ faults < MaxFaults
    /\ faults' = faults + 1
    /\ Orphaned(Pending(s))
    /\ Goes(s, [strm[s] EXCEPT !.pc = "stopped"])
    /\ UNCHANGED <<phase, policy, runs, stats, handler, drain, seen, copies>>

\* A call that nobody waits for returns.
OrphanReturns(call) ==
    /\ call.orphan # 0 /\ call.at \in {"reply", "unavailable"}
    /\ calls' = calls \ {call}
    /\ UNCHANGED <<phase, policy, runs, stats, handler, drain, seen, strmVars>>

-----------------------------------------------------------------------------
\* A step of a call in the server.
Serve(call) ==
    \/ /\ CheckDraining(call) \/ EnqueueRefused(call)
       /\ UNCHANGED strmVars
    \/ /\ EnqueueNext(call)
       /\ copies' = [copies EXCEPT ![call.msgs[call.accepted + 1]] = @ + 1]
       /\ UNCHANGED <<strm, faults>>

ServerStep == \E call \in calls : Serve(call) \/ OrphanReturns(call)

StreamerStep(s) ==
    \/ SkipRow(s) \/ ReadRow(s) \/ EndPass(s)
    \/ Send(s) \/ ServerGone(s) \/ \E call \in calls : Reply(s, call)

\* Everything is published and the process stays up: nothing more to see.
Finished ==
    /\ \A s \in Streamers : strm[s].pc \in {"stopped", "done"}
    /\ UNCHANGED vars

Next ==
    \/ ServerStep
    \/ \E s \in Streamers : StreamerStep(s) \/ CallBreaks(s) \/ Cancel(s)
    \/ ProcStep /\ UNCHANGED strmVars
    \/ Finished

Spec == Init /\ [][Next]_vars

Quietly(A) == A /\ UNCHANGED strmVars

\* Goroutines run, the cluster restarts the process, and collectors connect
\* again and again.  Strong fairness where a step may be disabled for a while:
\* a lane is looked at while the stream happens to be open, the deadline is seen
\* between two ticks, and a message is not requeued for ever (MaxDeliveries).
Fairness ==
    /\ \A s \in Streamers :
          /\ WF_vars(StreamerStep(s))
          /\ WF_vars(\E call \in Pending(s) : Serve(call))
    /\ WF_vars(Quietly(LoadConsumed \/ DrainStats \/ Shutdown \/ Exit \/ Start))
    /\ SF_vars(Quietly(DrainDeadline))
    /\ \A c \in Consumers :
          /\ WF_vars(Quietly(Connect(c) \/ CountAck(c) \/ Returned(c)))
          /\ SF_vars(Quietly(\E lane \in {"depth", "retryDepth"} : Take(c, lane)))
          /\ SF_vars(Quietly(Consume(c) \/ DeadLetter(c)))

FairSpec == Spec /\ Fairness

-----------------------------------------------------------------------------
\* Every message is in its place: batches are what a streamer made last.
TypeOK ==
    /\ ProcTypeOK
    /\ \A s \in Streamers :
          /\ strm[s].pc \in {"read", "send", "await", "stopped", "done"}
          /\ strm[s].row \in 1..(Rows + 1)
          /\ strm[s].pass \in 1..(MaxPasses + 1)
          /\ Len(strm[s].batch) <= BatchSize
          /\ \A k \in DOMAIN strm[s].batch :
                strm[s].batch[k] = <<s, strm[s].made - Len(strm[s].batch) + k>>
          /\ Cardinality(Pending(s)) <= 1
    /\ faults \in 0..MaxFaults

\* At least once, in order: what a streamer no longer holds was admitted by a
\* broker, in particular all rows of the passes it has finished, whatever was
\* refused, drained, lost or restarted on the way; and no message is admitted
\* for the first time before its predecessors.
NothingSkipped ==
    \A s \in Streamers :
        /\ \A n \in 1..(strm[s].made - Len(strm[s].batch)) : copies[<<s, n>>] > 0
        /\ \A n \in 1..((strm[s].pass - 1) * PerPass) : copies[<<s, n>>] > 0
        /\ \A m, n \in 1..(MaxPasses * PerPass) :
              m < n /\ copies[<<s, n>>] > 0 => copies[<<s, m>>] > 0

\* A message is admitted twice only because a call broke after its Enqueue: a
\* refused suffix, a drain or a timeout never duplicates anything.
CopiesBounded ==
    \A m \in Messages : copies[m] <= runs + faults + (IF phase = "down" THEN 1 ELSE 0)

\* The retry loop gets through: every streamer publishes all its rows or is
\* cancelled, although batches exceed the free budget, calls break and the
\* process drains and restarts meanwhile.
EveryRowPublished == \A s \in Streamers : <>(strm[s].pc \in {"done", "stopped"})
=============================================================================
