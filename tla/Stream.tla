------------------------------- MODULE Stream -------------------------------
(***************************************************************************)
(* One client of internal/llm and its requests: the attempts and their     *)
(* retries, the consumption of the streamed answer, what the handlers are  *)
(* shown of it, and the goroutine that copies the body into the debug log. *)
(*                                                                         *)
(* The endpoint and the network are external: a body arrives in chunks of  *)
(* frames and ends, breaks off or is closed.  Content is a sequence of     *)
(* tokens; which contents are a JSON serialization of calls is a constant. *)
(***************************************************************************)
EXTENDS Integers, Sequences

CONSTANTS
  Tokens, Calls,      \* pieces of text; complete tool calls
  Replies,            \* the calls of the reply pseudo-tool, each its own token
  Serialized,         \* a function: the contents that parse, to their calls
  EmptyArray,         \* the contents that are a JSON array of nothing
  Chunks,             \* the chunks a body may be made of
  JSONModes, Debug,   \* sets of BOOLEAN: the configurations
  MaxRetries,         \* Client.maxRetries
  MaxChunks, MaxRequests, MaxInterrupts \* bounds

Content(t) == [kind |-> "content", it |-> t]
Native(c)  == [kind |-> "call", it |-> c]
Done       == [kind |-> "done", it |-> "done"]
Ignored    == [kind |-> "ignored", it |-> "blank"]
Frames     == {Content(t) : t \in Tokens} \cup {Native(c) : c \in Calls} \cup {Done, Ignored}

ASSUME StreamAssumption ==
  /\ Replies \subseteq Calls /\ Replies \subseteq Tokens
  /\ Chunks \subseteq Seq(Frames) /\ <<Ignored>> \in Chunks
  /\ DOMAIN Serialized \subseteq Seq(Tokens)
  /\ \A c \in DOMAIN Serialized : Serialized[c] \in Seq(Calls) /\ Serialized[c] # <<>>
  /\ JSONModes \subseteq BOOLEAN /\ Debug \subseteq BOOLEAN
  /\ {MaxRetries, MaxChunks, MaxRequests, MaxInterrupts} \subseteq Nat

VARIABLES
  parseJSON, debugging, \* of the request, of the client
  mode,      \* the step StreamWithOptions executes next
  attempt,   \* the number of the attempt, from 0
  cancelled, \* the request's context
  body,      \* the response's body
  buf,       \* frames read but not handled
  content, toolCalls, native, \* res.Content, res.ToolCalls, the calls in acc
  answer,    \* what the last request returned
  lock,      \* who holds debugMu
  tee, chunk \* the goroutine of teeReader, the chunk it copies

\* History: nothing in the code reads these.
VARIABLES
  shown,     \* what OnContent was called with in this request
  log,       \* the marks in the debug log
  sent, requests, interrupts

result == <<content, toolCalls, native>>
reader == <<tee, chunk, lock>>
config == <<parseJSON, debugging>>
counts == <<requests, interrupts>>
vars   == <<config, mode, attempt, cancelled, body, buf, result, answer,
            reader, shown, log, sent, counts>>

None == [ok |-> FALSE, content |-> <<>>, calls |-> <<>>]

Init ==
  /\ parseJSON \in JSONModes /\ debugging \in Debug
  /\ mode = "idle" /\ attempt = 0 /\ cancelled = FALSE
  /\ body = "closed" /\ buf = <<>>
  /\ content = <<>> /\ toolCalls = <<>> /\ native = <<>>
  /\ answer = None
  /\ lock = "free" /\ tee = "gone" /\ chunk = <<>>
  /\ shown = <<>> /\ log = <<>> /\ sent = 0 /\ requests = 0 /\ interrupts = 0

-----------------------------------------------------------------------------
(* A request and its attempts *)

\* Compaction asks for prose even in JSON mode.
Request ==
  /\ mode = "idle" /\ requests < MaxRequests
  /\ requests' = requests + 1
  /\ parseJSON' \in JSONModes
  /\ mode' = "log" /\ attempt' = 0 /\ cancelled' = FALSE
  /\ answer' = None /\ shown' = <<>>
  /\ UNCHANGED <<debugging, body, buf, result, reader, log, sent, interrupts>>

\* debugWrite needs the mutex.
LogRequest ==
  /\ mode = "log" /\ (debugging => lock = "free")
  /\ log' = IF debugging THEN Append(log, "REQUEST") ELSE log
  /\ mode' = "send"
  /\ UNCHANGED <<config, attempt, cancelled, body, buf, result, answer, reader, shown, sent, counts>>

\* The request returns, and its body is closed.
Return(a) ==
  /\ mode' = "idle"
  /\ answer' = a
  /\ body' = "closed" /\ buf' = <<>>
  /\ UNCHANGED <<config, attempt, cancelled, result, reader, log, sent, counts>>

Fails == Return(None) /\ UNCHANGED shown

\* A transient failure waits for the next attempt, unless it was the last one
\* or the task was interrupted.
Retry ==
  /\ mode' = "backoff"
  /\ UNCHANGED <<config, attempt, cancelled, body, buf, result, answer, reader, shown, log, sent, counts>>

\* Variants: one attempt too many, and one that goes on after an interrupt.
OneAttemptMore == IF attempt <= MaxRetries /\ ~cancelled THEN Retry ELSE Fails
IgnoreInterrupt == IF attempt < MaxRetries THEN Retry ELSE Fails

AfterTransient == IF attempt < MaxRetries /\ ~cancelled THEN Retry ELSE Fails

\* No answer, or a status that is worth another attempt.
Unavailable ==
  /\ mode = "send"
  /\ AfterTransient

\* Any other status, or a request that cannot be made.
Refused ==
  /\ mode = "send"
  /\ Fails

\* A variant that does not count.
BackoffUncounted ==
  /\ mode = "backoff"
  /\ mode' = "send"
  /\ UNCHANGED <<config, attempt, cancelled, body, buf, result, answer, reader, shown, log, sent, counts>>

\* sleep returns when the timer fires, even if the context is done as well.
Backoff ==
  /\ mode = "backoff"
  /\ attempt' = attempt + 1
  /\ mode' = "send"
  /\ UNCHANGED <<config, cancelled, body, buf, result, answer, reader, shown, log, sent, counts>>

BackoffInterrupted ==
  /\ mode = "backoff" /\ cancelled
  /\ Fails

\* The answer begins; with a debug log, through a pipe.
Accepted ==
  /\ mode = "send" /\ ~cancelled
  /\ mode' = "consume"
  /\ body' = "open" /\ sent' = 0 /\ buf' = <<>>
  /\ content' = <<>> /\ toolCalls' = <<>> /\ native' = <<>>
  /\ tee' = IF debugging THEN "start" ELSE "gone"
  /\ UNCHANGED <<config, attempt, cancelled, answer, chunk, lock, shown, log, counts>>

Interrupt ==
  /\ mode # "idle" /\ ~cancelled /\ interrupts < MaxInterrupts
  /\ interrupts' = interrupts + 1
  /\ cancelled' = TRUE
  /\ UNCHANGED <<config, mode, attempt, body, buf, result, answer, reader, shown, log, sent, requests>>

-----------------------------------------------------------------------------
(* The body *)

HasDone(c) == \E i \in 1 .. Len(c) : c[i] = Done

\* A chunk arrives; after [DONE] only blank lines do.
Arrives(c) ==
  /\ body \in {"open", "done"} /\ sent < MaxChunks
  /\ c \in Chunks /\ (body = "done" => c = <<Ignored>>)
  /\ sent' = sent + 1
  /\ body' = IF HasDone(c) THEN "done" ELSE body

\* The body ends; it breaks off when the connection does, when the attempt
\* times out and when the context is cancelled.
Ends  == body \in {"open", "done"} /\ ~cancelled /\ body' = "ended" /\ UNCHANGED sent
Breaks == body \in {"open", "done"} /\ UNCHANGED sent
          /\ body' = IF body = "open" THEN "broken" ELSE "ended"

-----------------------------------------------------------------------------
(* consume *)

Reading == mode = "consume" /\ buf = <<>>
Handling(kind) == mode = "consume" /\ buf # <<>> /\ Head(buf).kind = kind
Next1 == buf' = Tail(buf)

kept == <<config, attempt, cancelled, answer, log, counts>>

\* Without a debug log the body is read as it is.
ReadChunk ==
  /\ Reading /\ ~debugging
  /\ \E c \in Chunks : Arrives(c) /\ buf' = c
  /\ UNCHANGED <<mode, result, reader, shown, kept>>

ReadEnd ==
  /\ Reading /\ ~debugging
  /\ Ends
  /\ mode' = "finish"
  /\ UNCHANGED <<buf, result, reader, shown, kept>>

\* Variants: a retry in the middle of a stream, and a failure taken for its end.
RetryBroken ==
  /\ Reading /\ ~debugging /\ body = "open"
  /\ AfterTransient

EndAtBroken ==
  /\ Reading /\ ~debugging
  /\ Breaks
  /\ mode' = "finish"
  /\ UNCHANGED <<buf, result, reader, shown, kept>>

\* A stream that breaks off is an error, and is not retried.
ReadBroken ==
  /\ Reading /\ ~debugging /\ body = "open"
  /\ Fails

\* With one, the pipe is read: a chunk, or the end once its writer closed it.
ReadPipe ==
  /\ Reading /\ tee = "write"
  /\ buf' = chunk /\ chunk' = <<>>
  /\ tee' = "copied"
  /\ UNCHANGED <<mode, body, result, lock, shown, sent, kept>>

ReadPipeEnd ==
  /\ Reading /\ debugging /\ tee = "gone"
  /\ mode' = "finish"
  /\ UNCHANGED <<body, buf, result, reader, shown, sent, kept>>

\* The calls a content serializes, none when it is not one.
Parsed(c) == IF c \in DOMAIN Serialized THEN Serialized[c] ELSE <<>>

\* Text: shown at once, but in JSON mode kept back and parsed as soon as what
\* there is of it parses.
HandleContent ==
  /\ Handling("content")
  /\ content' = Append(content, Head(buf).it)
  /\ shown' = IF parseJSON THEN shown ELSE Append(shown, Head(buf).it)
  /\ toolCalls' = IF parseJSON /\ toolCalls = <<>> THEN Parsed(content') ELSE toolCalls
  /\ Next1
  /\ UNCHANGED <<mode, body, native, reader, sent, kept>>

HandleCall ==
  /\ Handling("call")
  /\ native' = Append(native, Head(buf).it)
  /\ Next1
  /\ UNCHANGED <<mode, body, content, toolCalls, reader, shown, sent, kept>>

HandleIgnored ==
  /\ Handling("ignored")
  /\ Next1
  /\ UNCHANGED <<mode, body, result, reader, shown, sent, kept>>

HandleDone ==
  /\ Handling("done")
  /\ mode' = "finish"
  /\ UNCHANGED <<body, buf, result, reader, shown, sent, kept>>

\* One of the limits on what an answer may hold is exceeded.
LimitExceeded ==
  /\ mode = "finish" \/ (mode = "consume" /\ buf # <<>>)
  /\ Fails

\* The calls of the answer: those parsed from its content, then the native.
AllCalls ==
  LET cs == toolCalls \o native IN
  IF parseJSON /\ cs = <<>> THEN Parsed(content) ELSE cs

OnlyReplies(cs) == cs # <<>> /\ \A i \in 1 .. Len(cs) : cs[i] \in Replies

ShowAndReturn(text, cs) ==
  /\ shown' = IF parseJSON THEN shown \o text ELSE shown
  /\ Return([ok |-> TRUE, content |-> text, calls |-> cs])

\* Outside JSON mode the content was shown as it came.
FinishProse ==
  /\ mode = "finish" /\ ~parseJSON
  /\ ShowAndReturn(content, AllCalls)

\* In JSON mode, replies alone are prose; other calls replace the content; and
\* what is no call at all is shown as prose, an empty array as nothing.
FinishJSON ==
  /\ mode = "finish" /\ parseJSON
  /\ \/ OnlyReplies(AllCalls) /\ ShowAndReturn(AllCalls, <<>>)
     \/ AllCalls # <<>> /\ ~OnlyReplies(AllCalls) /\ ShowAndReturn(<<>>, AllCalls)
     \/ AllCalls = <<>> /\ ShowAndReturn(IF content \in EmptyArray THEN <<>> ELSE content, <<>>)

-----------------------------------------------------------------------------
(* The goroutine of teeReader *)

client == <<config, mode, attempt, cancelled, buf, result, answer, shown, counts>>

\* A variant that does not hold the mutex while it copies.
TeeStartUnlocked ==
  /\ tee = "start" /\ lock = "free"
  /\ UNCHANGED lock
  /\ log' = Append(log, "RESPONSE")
  /\ tee' = "copy"
  /\ UNCHANGED <<client, body, chunk, sent>>

TeeStart ==
  /\ tee = "start" /\ lock = "free"
  /\ lock' = "tee"
  /\ log' = Append(log, "RESPONSE")
  /\ tee' = "copy"
  /\ UNCHANGED <<client, body, chunk, sent>>

TeeRead ==
  /\ tee = "copy"
  /\ \E c \in Chunks : Arrives(c) /\ chunk' = c
  /\ tee' = "write"
  /\ UNCHANGED <<client, lock, log>>

\* The end, a failure and a body closed by the client all end the copy.
TeeEnd ==
  /\ tee = "copy"
  /\ \/ Ends
     \/ Breaks
     \/ body = "closed" /\ UNCHANGED <<body, sent>>
  /\ tee' = "end"
  /\ UNCHANGED <<client, chunk, lock, log>>

\* The chunk the pipe's reader took is written to the log as well.
TeeLog ==
  /\ tee = "copied"
  /\ tee' = "copy"
  /\ UNCHANGED <<client, body, chunk, sent, lock, log>>

\* The mutex is released and the pipe closed.
TeeClose ==
  /\ tee = "end"
  /\ log' = Append(log, "END")
  /\ lock' = "free"
  /\ tee' = "gone"
  /\ UNCHANGED <<client, body, chunk, sent>>

-----------------------------------------------------------------------------
Attempts ==
  \/ LogRequest \/ Unavailable \/ Refused \/ Backoff \/ BackoffInterrupted \/ Accepted

Consume ==
  \/ ReadChunk \/ ReadEnd \/ ReadBroken \/ ReadPipe \/ ReadPipeEnd
  \/ HandleContent \/ HandleCall \/ HandleIgnored \/ HandleDone \/ LimitExceeded
  \/ FinishProse \/ FinishJSON

Tee == TeeStart \/ TeeRead \/ TeeEnd \/ TeeLog \/ TeeClose

Next == Request \/ Attempts \/ Interrupt \/ Consume \/ Tee

Spec == Init /\ [][Next]_vars

(* Goroutines that can run do, timers fire, and the timeout of an attempt  *)
(* bounds every wait for its response and for its body.                    *)
FairSpec == Spec /\ WF_vars(Attempts \/ Consume) /\ WF_vars(Tee)

-----------------------------------------------------------------------------
(* Properties *)

Modes == {"idle", "log", "send", "backoff", "consume", "finish"}

TypeOK ==
  /\ parseJSON \in BOOLEAN /\ debugging \in BOOLEAN /\ cancelled \in BOOLEAN
  /\ mode \in Modes /\ attempt \in 0 .. MaxRetries
  /\ body \in {"open", "done", "ended", "broken", "closed"}
  /\ buf \in Seq(Frames) /\ chunk \in Seq(Frames)
  /\ content \in Seq(Tokens) /\ shown \in Seq(Tokens)
  /\ toolCalls \in Seq(Calls) /\ native \in Seq(Calls)
  /\ answer \in [ok : BOOLEAN, content : Seq(Tokens), calls : Seq(Calls)]
  /\ lock \in {"free", "tee"} /\ tee \in {"gone", "start", "copy", "write", "copied", "end"}
  /\ log \in Seq({"REQUEST", "RESPONSE", "END"})
  /\ {sent, requests, interrupts} \subseteq Nat

\* The handlers show each token once: what was shown so far is the content of
\* the one attempt that streamed, and what was shown in the end is the text
\* the answer records, in and out of JSON mode.
ShownIsRecorded ==
  /\ mode \in {"consume", "finish"} => shown = IF parseJSON THEN <<>> ELSE content
  /\ answer.ok => shown = answer.content

\* Without a debug log, an answer that broke off is never taken for a whole one.
BrokenIsAnError ==
  [][~debugging /\ answer' # answer /\ answer'.ok => body \in {"done", "ended"}]_vars

\* Once interrupted, at most one more attempt is made, and none streams.
InterruptIsObeyed ==
  [][cancelled /\ cancelled' /\ mode = "send" => mode' \in {"send", "idle"}]_vars

\* The log is a sequence of requests, each followed by its whole response.
LogIsSequential ==
  \A i \in 1 .. Len(log) :
    /\ log[i] = "RESPONSE" => i > 1 /\ log[i - 1] = "REQUEST"
    /\ i > 1 /\ log[i - 1] = "RESPONSE" => log[i] = "END"

\* Without a debug log every request returns, whatever the endpoint does.
RequestReturns == mode # "idle" /\ ~debugging ~> mode = "idle"

\* "timeout bounds each HTTP attempt, including its streamed body": every
\* request returns, with a debug log too.
RequestAlwaysReturns == mode # "idle" ~> mode = "idle"

\* "No token is ever dropped": the calls of an answer that has no native ones
\* are those its whole content serializes, however it was cut into deltas.
CallsAreOfTheWholeContent ==
  [][answer' # answer /\ answer'.ok /\ parseJSON /\ native = <<>> /\ answer'.calls # <<>> =>
       answer'.calls = Parsed(content)]_vars
=============================================================================
