---- MODULE ItemStream ----
(*****************************************************************************)
(* pkg/stream: a Stream that reads items from a body, and the calls that     *)
(* hand them over: Read, ReadAll, Channel with its goroutine and consumer,   *)
(* Process and ProcessBatch with their callback, beside Close, cancellation  *)
(* and a reader of Errors. ReadN is so many Reads.                           *)
(*                                                                           *)
(* Calls follow one another, the next one after the channel of a Channel is  *)
(* closed: Read has no lock of its own. An item is the number of its line.   *)
(* Counters, durations and the adapters Reader, Transform and Filter are     *)
(* left out. RequestPipelineProofs has both this module and RequestPipeline  *)
(* in scope, so that no name is in both.                                     *)
(*****************************************************************************)
EXTENDS Integers, Sequences, FiniteSets, SequencesExt

CONSTANTS
    Sources,   \* what bodies hold: sequences of lines
    BatchSize

\* A line, or a document, that decodes to an item, to null, or that is blank,
\* malformed, too large or, a document, not there to its end.
Line == {"item", "null", "bad"}

ASSUME SourcesAssumption == \A l \in Sources : l \in Seq(Line)
ASSUME BatchSizeAssumption == BatchSize \in Nat \ {0}

VARIABLES
    format,        \* "jsonlines", or "json" for a body that is one document
    lines,
    ending,        \* how the body ends: "eof", or "broken" by a read error
    pos,           \* the lines read
    closed,        \* Stream.closed; Errors is closed with it
    errors,        \* the errors in Errors, which has room for one
    use,           \* the call under way, or the last one
    at,            \* where the call is
    ctxCancelled,  \* the call's context
    items,         \* what the call has read and not handed over yet
    reports,       \* trySendError calls the failed call has left to make
    result,
    \* For the properties:
    start,         \* pos when the call began
    handed,        \* the items it handed over
    told           \* an error was taken from Errors since it began

content == <<format, lines, ending>>
streamVars == <<content, pos, closed, errors, use, at, ctxCancelled, items, reports, result, start, handed, told>>

WithContext == {"Channel", "Process", "ProcessBatch"}
Uses == WithContext \union {"Read", "ReadAll"}

StreamTypeOK ==
    /\ format \in {"jsonlines", "json"} /\ lines \in Sources /\ ending \in {"eof", "broken"}
    /\ pos \in 0 .. Len(lines) /\ start \in 0 .. pos
    /\ closed \in BOOLEAN /\ ctxCancelled \in BOOLEAN /\ told \in BOOLEAN
    /\ errors \in 0 .. 1 /\ reports \in 0 .. 2
    /\ use \in Uses
    /\ at \in {"idle", "loop", "reading", "sending", "calling", "lastcall", "reporting", "checked"}
    /\ items \in Seq(1 .. pos) /\ Len(items) <= BatchSize
    /\ handed \in Seq(1 .. pos)
    /\ result \in {"none", "ok", "failed", "cancelled"}

StreamInit ==
    /\ format \in {"jsonlines", "json"}
    /\ lines \in Sources
    /\ ending \in {"eof", "broken"}
    /\ format = "json" => Len(lines) = 1 /\ (ending = "broken" => lines = <<"bad">>)
    /\ pos = 0 /\ start = 0
    /\ closed = FALSE /\ ctxCancelled = FALSE /\ told = FALSE
    /\ errors = 0 /\ reports = 0
    /\ use = "Read" /\ at = "idle"
    /\ items = <<>> /\ handed = <<>>
    /\ result = "none"

----
(* The call *)

Begin(u) ==
    /\ at = "idle"
    /\ use' = u
    /\ at' = "loop"
    /\ ctxCancelled' = FALSE /\ told' = FALSE
    /\ start' = pos /\ handed' = <<>>
    /\ result' = "none"
    /\ UNCHANGED <<content, pos, closed, errors, items, reports>>

Return(r) ==
    /\ at' = "idle"
    /\ result' = r
    /\ items' = <<>>

\* The select at the head of each round sees the context before anything else.
Cancelled == use \in WithContext /\ ctxCancelled

ReturnCancelled ==
    /\ at = "loop"
    /\ Cancelled
    /\ IF items = <<>> THEN Return("cancelled") ELSE at' = "lastcall" /\ UNCHANGED <<items, result>>
    /\ UNCHANGED <<content, pos, closed, errors, use, ctxCancelled, reports, start, handed, told>>

\* checkStreamState. ErrStreamClosed is recorded by Channel only.
Read ==
    /\ at = "loop"
    /\ ~Cancelled
    /\ IF closed
       THEN at' = "reporting" /\ reports' = IF use = "Channel" THEN 1 ELSE 0
       ELSE at' = "reading" /\ UNCHANGED reports
    /\ UNCHANGED <<content, pos, closed, errors, use, ctxCancelled, items, result, start, handed, told>>

\* The failures of readStreamData, validateDataSize and decodeStreamData are
\* recorded; Channel sends them once more.
Fail ==
    /\ at' = "reporting"
    /\ reports' = IF use = "Channel" THEN 2 ELSE 1
    /\ UNCHANGED <<items, result, handed>>

\* What the call does with an item.
Take(i) ==
    /\ UNCHANGED reports
    /\ CASE use = "Channel" -> at' = "sending" /\ items' = <<i>> /\ UNCHANGED <<result, handed>>
         [] use = "Process" -> at' = "calling" /\ items' = <<i>> /\ UNCHANGED <<result, handed>>
         [] use = "ProcessBatch" ->
              /\ items' = Append(items, i)
              /\ at' = IF Len(items') >= BatchSize THEN "calling" ELSE "loop"
              /\ UNCHANGED <<result, handed>>
         [] use = "ReadAll" -> at' = "loop" /\ handed' = Append(handed, i) /\ UNCHANGED <<items, result>>
         [] use = "Read" -> Return("ok") /\ handed' = Append(handed, i)

\* A null is no item to hand over.
Skip ==
    /\ IF use = "Read" THEN Return("ok") ELSE at' = "loop" /\ UNCHANGED <<items, result>>
    /\ UNCHANGED <<reports, handed>>

ReadLine ==
    /\ at = "reading"
    /\ pos < Len(lines)
    /\ pos' = pos + 1
    /\ \/ lines[pos'] = "bad" /\ Fail
       \/ lines[pos'] = "null" /\ Skip
       \/ lines[pos'] = "item" /\ Take(pos')
    /\ UNCHANGED <<content, closed, errors, use, ctxCancelled, start, told>>

\* A plausible slip: the items of the last, incomplete batch are forgotten.
ReadEndForgets ==
    /\ at = "reading"
    /\ pos = Len(lines) /\ ending = "eof" /\ format = "jsonlines"
    /\ Return("ok")
    /\ UNCHANGED <<content, pos, closed, errors, use, ctxCancelled, reports, start, handed, told>>

\* io.EOF. What is left of a batch is processed.
ReadEnd ==
    /\ at = "reading"
    /\ pos = Len(lines) /\ ending = "eof" /\ format = "jsonlines"
    /\ IF items = <<>> THEN Return("ok") ELSE at' = "lastcall" /\ UNCHANGED <<items, result>>
    /\ UNCHANGED <<content, pos, closed, errors, use, ctxCancelled, reports, start, handed, told>>

\* The body breaks off, or the stream was closed during the read; a document that
\* was read is followed by an empty one, which does not decode.
ReadFails ==
    /\ at = "reading"
    /\ \/ pos = Len(lines) /\ (ending = "broken" \/ format = "json")
       \/ closed
    /\ Fail
    /\ UNCHANGED <<content, pos, closed, errors, use, ctxCancelled, start, told>>

----
(* trySendError, under the read lock *)

Check ==
    /\ at = "reporting"
    /\ reports > 0
    /\ IF closed THEN reports' = reports - 1 /\ UNCHANGED at ELSE at' = "checked" /\ UNCHANGED reports
    /\ UNCHANGED <<content, pos, closed, errors, use, ctxCancelled, items, result, start, handed, told>>

SendError ==
    /\ at = "checked"
    /\ errors' = 1
    /\ reports' = reports - 1
    /\ at' = "reporting"
    /\ UNCHANGED <<content, pos, closed, use, ctxCancelled, items, result, start, handed, told>>

\* The error is returned; the channel of Channel is closed. A batch is dropped.
ReturnError ==
    /\ at = "reporting"
    /\ reports = 0
    /\ Return("failed")
    /\ UNCHANGED <<content, pos, closed, errors, use, ctxCancelled, reports, start, handed, told>>

----
(* The consumer of the channel and the callback *)

Receive ==
    /\ at = "sending"
    /\ handed' = handed \o items
    /\ items' = <<>>
    /\ at' = "loop"
    /\ UNCHANGED <<content, pos, closed, errors, use, ctxCancelled, reports, result, start, told>>

\* A plausible slip: the goroutine waits for its consumer whatever happens.
AbandonIfClosed ==
    /\ at = "sending"
    /\ ctxCancelled /\ closed
    /\ Return("cancelled")
    /\ UNCHANGED <<content, pos, closed, errors, use, ctxCancelled, reports, start, handed, told>>

Abandon ==
    /\ at = "sending"
    /\ ctxCancelled
    /\ Return("cancelled")
    /\ UNCHANGED <<content, pos, closed, errors, use, ctxCancelled, reports, start, handed, told>>

\* processFunc returns, nil or an error that ends the call.
CallbackReturns(ok) ==
    /\ at \in {"calling", "lastcall"}
    /\ handed' = handed \o items
    /\ IF ok /\ at = "calling"
       THEN at' = "loop" /\ items' = <<>> /\ UNCHANGED result
       ELSE Return(IF ok THEN "ok" ELSE "failed")
    /\ UNCHANGED <<content, pos, closed, errors, use, ctxCancelled, reports, start, told>>

----
(* The others *)

CancelCall ==
    /\ at # "idle" /\ use \in WithContext /\ ~ctxCancelled
    /\ ctxCancelled' = TRUE
    /\ UNCHANGED <<content, pos, closed, errors, use, at, items, reports, result, start, handed, told>>

TakeError ==
    /\ errors = 1
    /\ errors' = 0
    /\ told' = TRUE
    /\ UNCHANGED <<content, pos, closed, use, at, ctxCancelled, items, reports, result, start, handed>>

\* A plausible slip: Close does not wait for the lock of a trySendError.
CloseUnlocked ==
    /\ ~closed
    /\ closed' = TRUE
    /\ UNCHANGED <<content, pos, errors, use, at, ctxCancelled, items, reports, result, start, handed, told>>

\* Close needs the write lock, which the one that is about to send keeps from it.
Close ==
    /\ ~closed
    /\ at # "checked"
    /\ closed' = TRUE
    /\ UNCHANGED <<content, pos, errors, use, at, ctxCancelled, items, reports, result, start, handed, told>>

\* The steps that need neither the body nor a consumer. Callbacks return.
Own ==
    \/ ReturnCancelled \/ Read \/ Check \/ SendError \/ ReturnError \/ Abandon
    \/ \E ok \in BOOLEAN : CallbackReturns(ok)

StreamNext ==
    \/ \E u \in Uses : Begin(u)
    \/ ReadLine \/ ReadEnd \/ ReadFails
    \/ Own
    \/ Receive
    \/ CancelCall \/ TakeError \/ Close

StreamSpec == StreamInit /\ [][StreamNext]_streamVars /\ WF_streamVars(Own)

----
\* The items the call has read, and those of them it has not handed over.
Found == {n \in start + 1 .. pos : lines[n] = "item"}
Left == Found \ ToSet(handed)

InOrder(s) == \A i, j \in DOMAIN s : i < j => s[i] < s[j]

\* A call hands over the items in the order of their lines, none twice and none
\* left out: it still has those it has not handed over. A call that fails drops at
\* most an incomplete batch, a cancelled Channel the one item nobody took, and one
\* that ends well, uncancelled, has handed over everything. A Channel that stops
\* early with the stream open says so in Errors (stream.go:245-372).
HandsOverAll ==
    /\ StreamTypeOK
    /\ InOrder(handed) /\ ToSet(handed) \subseteq Found
    /\ \A h \in ToSet(handed), n \in Left : h < n
    /\ at # "idle" => InOrder(items) /\ ToSet(items) = Left
    /\ at = "idle" /\ result = "failed" /\ Left # {} =>
          use = "ProcessBatch" /\ Cardinality(Left) < BatchSize
    /\ at = "idle" /\ result = "cancelled" /\ Left # {} => use = "Channel" /\ Cardinality(Left) = 1
    /\ at = "idle" /\ result = "ok" =>
          Left = {} /\ (use = "Read" \/ ctxCancelled \/ pos = Len(lines))
    /\ at = "idle" /\ result = "failed" /\ use = "Channel" => closed \/ errors = 1 \/ told

\* Nobody sends on Errors after Close has closed it, which would panic: the test
\* of the flag and the send share a lock with Close (stream.go:365-382, 490-503).
NoSendOnClosed == at = "checked" => ~closed

\* A cancelled call ends once its read returns, whether or not the consumer of a
\* Channel still takes anything.
CancelledCallsEnd == []<>(at # "reading") => (Cancelled /\ at # "idle" ~> at = "idle")
====
