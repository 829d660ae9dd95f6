---------------------------- MODULE StreamProofs ----------------------------
(***************************************************************************)
(* What a client promises of its requests, for any endpoint, any answers   *)
(* and any number of retries: the handlers are shown what the answer       *)
(* records, an answer that broke off is an error, an interrupt is obeyed,  *)
(* and the debug log is in order.                                          *)
(***************************************************************************)
EXTENDS Stream, SequenceTheorems, TLAPS

-----------------------------------------------------------------------------
(* The inductive invariant *)

\* Another attempt is made only while there are attempts left.
AttemptOK == mode = "backoff" => attempt < MaxRetries

\* Nothing is shown before the attempt that streams, and nothing is answered
\* before the request returns.
ShownOK ==
  /\ mode \in {"log", "send", "backoff"} => shown = <<>>
  /\ mode # "idle" => answer = None
  /\ ShownIsRecorded

\* Without a debug log, the frame that ends an answer is only there when the
\* whole body came.
BodyOK ==
  ~debugging => /\ mode = "finish" => body \in {"done", "ended"}
                /\ mode = "consume" /\ HasDone(buf) => body = "done"

\* The last mark of the log.
LastMark == IF log = <<>> THEN "none" ELSE log[Len(log)]

\* At most one goroutine copies; until it holds the mutex the client waits for
\* it, and while it holds it no request is logged.
LogOK ==
  /\ lock = "tee" <=> tee \in {"copy", "write", "copied", "end"}
  /\ tee = "start" => mode = "consume" /\ buf = <<>>
  /\ mode \in {"send", "backoff"} => tee = "gone"
  /\ ~debugging => tee = "gone"
  /\ debugging /\ mode \in {"send", "backoff"} => LastMark = "REQUEST"
  /\ tee = "start" => LastMark = "REQUEST"
  /\ lock = "tee" <=> LastMark = "RESPONSE"

IInv == TypeOK /\ AttemptOK /\ ShownOK /\ BodyOK /\ LogOK /\ LogIsSequential

-----------------------------------------------------------------------------
(* Frames, calls and answers *)

\* What a frame carries.
LEMMA FrameTypes ==
  ASSUME NEW f \in Frames
  PROVE  /\ f.kind = "content" => f.it \in Tokens
         /\ f.kind = "call" => f.it \in Calls
BY DEF Frames, Content, Native, Done, Ignored

\* The next frame, and what is left of the buffer.
LEMMA HeadOfBuffer ==
  ASSUME buf \in Seq(Frames), buf # <<>>
  PROVE  /\ Head(buf) \in Frames /\ Tail(buf) \in Seq(Frames)
         /\ HasDone(Tail(buf)) => HasDone(buf)
         /\ Head(buf).kind = "done" => HasDone(buf)
<1>1. /\ Head(buf) \in Frames /\ Tail(buf) \in Seq(Frames) /\ Len(buf) \in Nat /\ Len(buf) # 0
      /\ Len(Tail(buf)) = Len(buf) - 1
      /\ \A i \in 1 .. Len(Tail(buf)) : Tail(buf)[i] = buf[i + 1]
  BY HeadTailProperties, EmptySeq, LenProperties
<1>2. HasDone(Tail(buf)) => HasDone(buf)
  BY <1>1 DEF HasDone
<1>3. Head(buf) = buf[1] /\ 1 \in 1 .. Len(buf)
  BY <1>1
<1>4. Head(buf).kind = "done" => Head(buf) = Done
  BY <1>1 DEF Frames, Content, Native, Done, Ignored
<1> QED
  BY <1>1, <1>2, <1>3, <1>4 DEF HasDone

\* A chunk is a sequence of frames.
LEMMA ChunkTypes ==
  ASSUME NEW c \in Chunks
  PROVE  c \in Seq(Frames)
BY StreamAssumption

\* What a content parses as is a sequence of calls.
LEMMA ParsedTypes ==
  ASSUME NEW c
  PROVE  Parsed(c) \in Seq(Calls)
BY StreamAssumption, EmptySeq DEF Parsed

\* The calls of a response: those of its text, then the native ones.
LEMMA AllCallsTypes ==
  ASSUME toolCalls \in Seq(Calls), native \in Seq(Calls)
  PROVE  AllCalls \in Seq(Calls)
BY ConcatProperties, ParsedTypes DEF AllCalls

\* Replies alone are text.
LEMMA RepliesAreTokens ==
  ASSUME NEW cs \in Seq(Calls), OnlyReplies(cs)
  PROVE  cs \in Seq(Tokens)
<1>1. Len(cs) \in Nat /\ cs \in [1 .. Len(cs) -> Calls]
  BY LenProperties
<1>2. \A i \in 1 .. Len(cs) : cs[i] \in Tokens
  BY StreamAssumption DEF OnlyReplies
<1>3. cs \in [1 .. Len(cs) -> Tokens]
  BY <1>1, <1>2
<1> QED
  BY <1>1, <1>3, SeqDef

\* What a request that succeeds shows and returns.
LEMMA FinishReturns ==
  ASSUME TypeOK, FinishProse \/ FinishJSON
  PROVE  \E text \in Seq(Tokens), cs \in Seq(Calls) :
           /\ mode = "finish" /\ ShowAndReturn(text, cs)
           /\ ~parseJSON => text = content
<1>0. /\ AllCalls \in Seq(Calls) /\ content \in Seq(Tokens) /\ <<>> \in Seq(Tokens)
      /\ <<>> \in Seq(Calls)
  BY AllCallsTypes, EmptySeq DEF TypeOK
<1>1. CASE FinishProse
  BY <1>0, <1>1 DEF FinishProse
<1>2. CASE FinishJSON
  <2>0. mode = "finish" /\ parseJSON
    BY <1>2 DEF FinishJSON
  <2>1. CASE OnlyReplies(AllCalls) /\ ShowAndReturn(AllCalls, <<>>)
    BY <1>0, <2>0, <2>1, RepliesAreTokens
  <2>2. CASE ShowAndReturn(<<>>, AllCalls)
    BY <1>0, <2>0, <2>2
  <2>3. CASE ShowAndReturn(IF content \in EmptyArray THEN <<>> ELSE content, <<>>)
    BY <1>0, <2>0, <2>3
  <2> QED
    BY <1>2, <2>1, <2>2, <2>3 DEF FinishJSON
<1> QED
  BY <1>1, <1>2

\* No answer yet.
LEMMA NoneIsAnAnswer ==
  /\ None \in [ok : BOOLEAN, content : Seq(Tokens), calls : Seq(Calls)]
  /\ None.ok = FALSE
<1>1. <<>> \in Seq(Tokens) /\ <<>> \in Seq(Calls)
  BY EmptySeq
<1> QED
  BY <1>1 DEF None

\* An attempt that meets a transient failure.
LEMMA TransientEnds ==
  ASSUME AfterTransient
  PROVE  \/ attempt < MaxRetries /\ ~cancelled /\ Retry
         \/ Fails
BY DEF AfterTransient

-----------------------------------------------------------------------------
(* Each part of the invariant is kept *)

Marks == {"REQUEST", "RESPONSE", "END"}

\* One more mark, where the log allows it.
LEMMA LogGrows ==
  ASSUME log \in Seq(Marks), LogIsSequential, NEW m \in Marks, log' = Append(log, m),
         m = "RESPONSE" => LastMark = "REQUEST", LastMark = "RESPONSE" => m = "END"
  PROVE  log' \in Seq(Marks) /\ LogIsSequential' /\ LastMark' = m
<1> DEFINE n == Len(log)
<1>1. /\ n \in Nat /\ log' \in Seq(Marks) /\ Len(log') = n + 1 /\ log'[n + 1] = m
      /\ \A i \in 1 .. n : log'[i] = log[i]
  BY LenProperties, AppendProperties
<1>2. log' # <<>>
  BY <1>1, EmptySeq
<1>3. LastMark' = m
  BY <1>1, <1>2 DEF LastMark
<1>4. n > 0 => LastMark = log[n]
  BY EmptySeq DEF LastMark
<1>5. n = 0 => LastMark = "none"
  BY <1>1, EmptySeq DEF LastMark
<1>6. ASSUME NEW i \in 1 .. Len(log')
      PROVE  /\ log'[i] = "RESPONSE" => i > 1 /\ log'[i - 1] = "REQUEST"
             /\ i > 1 /\ log'[i - 1] = "RESPONSE" => log'[i] = "END"
  <2>1. CASE i \in 1 .. n
    BY <1>1, <2>1 DEF LogIsSequential
  <2>2. CASE i = n + 1
    <3>1. n > 0 => log'[n] = LastMark
      BY <1>1, <1>4
    <3>2. i - 1 = n /\ log'[i] = m
      BY <1>1, <2>2
    <3>3. m = "RESPONSE" => n > 0
      BY <1>1, <1>5
    <3>4. i > 1 <=> n > 0
      BY <1>1, <2>2
    <3>5. n > 0 => log'[i - 1] = LastMark
      BY <3>1, <3>2
    <3>6. log'[i] = "RESPONSE" => i > 1 /\ log'[i - 1] = "REQUEST"
      BY <3>2, <3>3, <3>4, <3>5
    <3>7. i > 1 /\ log'[i - 1] = "RESPONSE" => log'[i] = "END"
      BY <3>2, <3>4, <3>5
    <3> QED
      BY <3>6, <3>7
  <2> QED
    BY <1>1, <2>1, <2>2
<1> QED
  BY <1>1, <1>3, <1>6 DEF LogIsSequential

\* How a request that returns leaves the types.
LEMMA ReturnTypes ==
  ASSUME TypeOK, Return(answer'), shown' \in Seq(Tokens),
         answer' \in [ok : BOOLEAN, content : Seq(Tokens), calls : Seq(Calls)]
  PROVE  TypeOK'
<1>1. <<>> \in Seq(Frames)
  BY EmptySeq
<1> QED
  BY <1>1 DEF Return, TypeOK, Modes, config, result, reader, counts

\* A request that fails keeps the types.
LEMMA FailsTypes ==
  ASSUME TypeOK, Fails
  PROVE  TypeOK'
BY ReturnTypes, NoneIsAnAnswer DEF Fails, Return, TypeOK

\* A request that tries again keeps the types.
LEMMA RetryTypes ==
  ASSUME TypeOK, Retry
  PROVE  TypeOK'
BY DEF Retry, TypeOK, Modes, config, result, reader, counts

\* A chunk that arrives is a chunk, or the end of the body.
LEMMA ArrivesTypes ==
  ASSUME TypeOK, NEW c, Arrives(c)
  PROVE  /\ body' \in {"open", "done", "ended", "broken", "closed"}
         /\ sent' \in Nat /\ c \in Seq(Frames)
<1>1. sent \in Nat /\ c \in Seq(Frames)
  BY ChunkTypes DEF TypeOK, Arrives
<1> QED
  BY <1>1 DEF Arrives, TypeOK

\* Every step keeps the types.
LEMMA StepTypes ==
  ASSUME TypeOK, AttemptOK, [Next]_vars
  PROVE  TypeOK'
<1>0. /\ <<>> \in Seq(Frames) /\ <<>> \in Seq(Tokens) /\ <<>> \in Seq(Calls)
      /\ requests \in Nat /\ interrupts \in Nat /\ attempt \in 0 .. MaxRetries
      /\ MaxRetries \in Nat
  BY EmptySeq, StreamAssumption DEF TypeOK
<1>1. CASE Request
  <2>1. parseJSON' \in BOOLEAN /\ requests' \in Nat /\ attempt' \in 0 .. MaxRetries
    BY <1>0, <1>1, StreamAssumption DEF Request
  <2>2. answer' \in [ok : BOOLEAN, content : Seq(Tokens), calls : Seq(Calls)]
    BY <1>1, NoneIsAnAnswer DEF Request
  <2> QED
    BY <1>0, <1>1, <2>1, <2>2 DEF Request, TypeOK, Modes, result, reader
<1>2. CASE LogRequest
  <2>1. log' \in Seq({"REQUEST", "RESPONSE", "END"})
    BY <1>2, AppendProperties DEF LogRequest, TypeOK
  <2> QED
    BY <1>2, <2>1 DEF LogRequest, TypeOK, Modes, config, result, reader, counts
<1>3. CASE Unavailable
  BY <1>3, TransientEnds, RetryTypes, FailsTypes DEF Unavailable
<1>4. CASE Refused \/ BackoffInterrupted \/ ReadBroken \/ LimitExceeded
  BY <1>4, FailsTypes DEF Refused, BackoffInterrupted, ReadBroken, LimitExceeded
<1>5. CASE Backoff
  <2>1. attempt' \in 0 .. MaxRetries
    BY <1>0, <1>5 DEF Backoff, AttemptOK
  <2> QED
    BY <1>5, <2>1 DEF Backoff, TypeOK, Modes, config, result, reader, counts
<1>6. CASE Accepted
  <2>1. sent' \in Nat
    BY <1>6 DEF Accepted
  <2> QED
    BY <1>0, <1>6, <2>1 DEF Accepted, TypeOK, Modes, config, counts
<1>7. CASE Interrupt
  <2>1. interrupts' \in Nat /\ cancelled' \in BOOLEAN
    BY <1>0, <1>7 DEF Interrupt
  <2> QED
    BY <1>7, <2>1 DEF Interrupt, TypeOK, config, result, reader
<1>8. CASE ReadChunk
  <2>1. PICK c \in Chunks : Arrives(c) /\ buf' = c
    BY <1>8 DEF ReadChunk
  <2>2. buf' \in Seq(Frames) /\ sent' \in Nat
        /\ body' \in {"open", "done", "ended", "broken", "closed"}
    BY <2>1, ArrivesTypes
  <2> QED
    BY <1>8, <2>2 DEF ReadChunk, TypeOK, config, result, reader, counts, kept
<1>9. CASE ReadEnd \/ ReadPipe \/ ReadPipeEnd
  <2>1. CASE ReadEnd
    BY <2>1 DEF ReadEnd, Ends, TypeOK, Modes, config, result, reader, counts, kept
  <2>2. CASE ReadPipe
    BY <2>2 DEF ReadPipe, TypeOK, Modes, config, result, reader, counts, kept
  <2>3. CASE ReadPipeEnd
    BY <2>3 DEF ReadPipeEnd, TypeOK, Modes, config, result, reader, counts, kept
  <2> QED BY <1>9, <2>1, <2>2, <2>3
<1>10. CASE HandleContent
  <2>1. Head(buf).it \in Tokens /\ Tail(buf) \in Seq(Frames)
    BY <1>10, HeadOfBuffer, FrameTypes DEF HandleContent, Handling, TypeOK
  <2>2. content' \in Seq(Tokens) /\ shown' \in Seq(Tokens)
    BY <1>10, <2>1, AppendProperties DEF HandleContent, TypeOK
  <2>3. toolCalls' \in Seq(Calls)
    BY <1>10, ParsedTypes DEF HandleContent, TypeOK
  <2> QED
    BY <1>10, <2>1, <2>2, <2>3 DEF HandleContent, Next1, TypeOK, config, reader, counts, kept
<1>11. CASE HandleCall
  <2>1. Head(buf).it \in Calls /\ Tail(buf) \in Seq(Frames)
    BY <1>11, HeadOfBuffer, FrameTypes DEF HandleCall, Handling, TypeOK
  <2>2. native' \in Seq(Calls)
    BY <1>11, <2>1, AppendProperties DEF HandleCall, TypeOK
  <2> QED
    BY <1>11, <2>1, <2>2 DEF HandleCall, Next1, TypeOK, config, reader, counts, kept
<1>12. CASE HandleIgnored
  <2>1. Tail(buf) \in Seq(Frames)
    BY <1>12, HeadOfBuffer DEF HandleIgnored, Handling, TypeOK
  <2> QED
    BY <1>12, <2>1 DEF HandleIgnored, Next1, TypeOK, config, result, reader, counts, kept
<1>18. CASE HandleDone
  BY <1>18 DEF HandleDone, TypeOK, Modes, config, result, reader, counts, kept
<1>13. CASE FinishProse \/ FinishJSON
  <2>1. PICK text \in Seq(Tokens), cs \in Seq(Calls) : ShowAndReturn(text, cs)
    BY <1>13, FinishReturns
  <2>2. /\ answer' = [ok |-> TRUE, content |-> text, calls |-> cs]
        /\ shown' = IF parseJSON THEN shown \o text ELSE shown
        /\ Return(answer')
    BY <2>1 DEF ShowAndReturn, Return
  <2>3. answer' \in [ok : BOOLEAN, content : Seq(Tokens), calls : Seq(Calls)]
    BY <2>2
  <2>4. shown' \in Seq(Tokens)
    BY <2>2, ConcatProperties DEF TypeOK
  <2> QED
    BY <2>2, <2>3, <2>4, ReturnTypes
<1>14. CASE TeeStart \/ TeeClose
  <2>1. PICK m \in {"REQUEST", "RESPONSE", "END"} : log' = Append(log, m)
    BY <1>14 DEF TeeStart, TeeClose
  <2>2. log' \in Seq({"REQUEST", "RESPONSE", "END"})
    BY <2>1, AppendProperties DEF TypeOK
  <2> QED
    BY <1>14, <2>2 DEF TeeStart, TeeClose, TypeOK, config, result, counts, client
<1>15. CASE TeeRead
  <2>1. PICK c \in Chunks : Arrives(c) /\ chunk' = c
    BY <1>15 DEF TeeRead
  <2>2. chunk' \in Seq(Frames) /\ sent' \in Nat
        /\ body' \in {"open", "done", "ended", "broken", "closed"}
    BY <2>1, ArrivesTypes
  <2> QED
    BY <1>15, <2>2 DEF TeeRead, TypeOK, config, result, counts, client
<1>16. CASE TeeEnd \/ TeeLog
  BY <1>16 DEF TeeEnd, TeeLog, Ends, Breaks, TypeOK, config, result, counts, client
<1>17. CASE UNCHANGED vars
  BY <1>17 DEF vars, TypeOK, config, result, reader, counts
<1> QED
  BY <1>1, <1>2, <1>3, <1>4, <1>5, <1>6, <1>7, <1>8, <1>9, <1>10, <1>11, <1>12, <1>13, <1>14,
     <1>15, <1>16, <1>17, <1>18 DEF Next, Attempts, Consume, Tee

\* Every step keeps the count of the attempts.
LEMMA StepAttempt ==
  ASSUME AttemptOK, [Next]_vars
  PROVE  AttemptOK'
<1>1. CASE mode' # "backoff"
  BY <1>1 DEF AttemptOK
<1>2. CASE mode' = mode /\ attempt' = attempt
  BY <1>2 DEF AttemptOK
<1>3. CASE Unavailable
  BY <1>3, TransientEnds DEF Unavailable, Retry, Fails, Return, AttemptOK
<1>4. CASE Tee \/ UNCHANGED vars
  <2>1. mode' = mode /\ attempt' = attempt
    BY <1>4 DEF Tee, TeeStart, TeeRead, TeeEnd, TeeLog, TeeClose, client, vars
  <2> QED
    BY <1>2, <2>1
<1>5. CASE Request \/ LogRequest \/ Refused \/ Backoff \/ BackoffInterrupted \/ Accepted
  <2>1. mode' # "backoff"
    BY <1>5 DEF Request, LogRequest, Refused, Backoff, BackoffInterrupted, Accepted, Fails, Return
  <2> QED
    BY <1>1, <2>1
<1>6. CASE Interrupt
  BY <1>2, <1>6 DEF Interrupt
<1>7. CASE Consume
  <2>1. mode \in {"consume", "finish"} /\ mode' \in {mode, "finish", "idle"}
    BY <1>7, FinishReturns DEF Consume, ReadChunk, ReadEnd, ReadBroken, ReadPipe, ReadPipeEnd,
         HandleContent, HandleCall, HandleIgnored, HandleDone, LimitExceeded, FinishProse,
         FinishJSON, ShowAndReturn, Reading, Handling, Fails, Return
  <2> QED
    BY <1>1, <2>1
<1> QED
  BY <1>3, <1>4, <1>5, <1>6, <1>7 DEF Next, Attempts

\* The steps that neither show nor answer anything.
LEMMA QuietSteps ==
  ASSUME ShownOK, UNCHANGED <<parseJSON, content, shown, answer>>,
         \/ mode' = mode
         \/ mode = "consume" /\ mode' = "finish"
         \/ mode \in {"log", "send", "backoff"} /\ mode' \in {"log", "send", "backoff"}
  PROVE  ShownOK'
BY DEF ShownOK, ShownIsRecorded

\* Every step keeps what was shown in what is recorded.
LEMMA StepShown ==
  ASSUME TypeOK, ShownOK, [Next]_vars
  PROVE  ShownOK'
<1>1. CASE Request
  BY <1>1, NoneIsAnAnswer DEF Request, ShownOK, ShownIsRecorded
<1>2. CASE Accepted
  BY <1>2, NoneIsAnAnswer DEF Accepted, config, ShownOK, ShownIsRecorded
<1>3. CASE Fails
  BY <1>3, NoneIsAnAnswer DEF Fails, Return, ShownOK, ShownIsRecorded
<1>4. CASE Retry /\ mode = "send"
  BY <1>4, QuietSteps DEF Retry, config, result
<1>5. CASE Unavailable \/ Refused \/ BackoffInterrupted \/ ReadBroken \/ LimitExceeded
  BY <1>3, <1>4, <1>5, TransientEnds DEF Unavailable, Refused, BackoffInterrupted, ReadBroken,
       LimitExceeded
<1>6. CASE LogRequest \/ Backoff \/ Interrupt
  BY <1>6, QuietSteps DEF LogRequest, Backoff, Interrupt, config, result
<1>7. CASE ReadChunk \/ ReadEnd \/ ReadPipe \/ ReadPipeEnd \/ HandleCall \/ HandleIgnored
           \/ HandleDone
  <2>1. UNCHANGED <<parseJSON, content, shown, answer>>
    BY <1>7 DEF ReadChunk, ReadEnd, ReadPipe, ReadPipeEnd, HandleCall, HandleIgnored, HandleDone,
         config, result, kept
  <2>2. mode' = mode \/ (mode = "consume" /\ mode' = "finish")
    BY <1>7 DEF ReadChunk, ReadEnd, ReadPipe, ReadPipeEnd, HandleCall, HandleIgnored, HandleDone,
         Reading, Handling
  <2> QED
    BY <2>1, <2>2, QuietSteps
<1>8. CASE HandleContent
  <2>1. mode = "consume" /\ mode' = "consume" /\ parseJSON' = parseJSON /\ answer' = answer
    BY <1>8 DEF HandleContent, Handling, config, kept
  <2>2. shown' = IF parseJSON' THEN <<>> ELSE content'
    BY <1>8, <2>1 DEF HandleContent, ShownOK, ShownIsRecorded
  <2> QED
    BY <2>1, <2>2, NoneIsAnAnswer DEF ShownOK, ShownIsRecorded
<1>9. CASE FinishProse \/ FinishJSON
  <2>1. PICK text \in Seq(Tokens), cs \in Seq(Calls) :
          mode = "finish" /\ ShowAndReturn(text, cs) /\ (~parseJSON => text = content)
    BY <1>9, FinishReturns
  <2>2. shown' = text
    BY <2>1, ConcatEmptySeq DEF ShowAndReturn, ShownOK, ShownIsRecorded
  <2>3. answer'.content = text /\ mode' = "idle"
    BY <2>1 DEF ShowAndReturn, Return
  <2> QED
    BY <2>2, <2>3 DEF ShownOK, ShownIsRecorded
<1>10. CASE Tee \/ UNCHANGED vars
  <2>1. UNCHANGED <<parseJSON, content, shown, answer, mode>>
    BY <1>10 DEF Tee, TeeStart, TeeRead, TeeEnd, TeeLog, TeeClose, client, config, result, vars
  <2> QED
    BY <2>1, QuietSteps
<1> QED
  BY <1>1, <1>2, <1>5, <1>6, <1>7, <1>8, <1>9, <1>10 DEF Next, Attempts, Consume

\* Every step keeps track of how the body ended.
LEMMA StepBody ==
  ASSUME TypeOK, BodyOK, LogOK, [Next]_vars
  PROVE  BodyOK'
<1>0. debugging' = debugging
  BY DEF Next, Attempts, Consume, Tee, Request, LogRequest, Unavailable, Refused, Backoff,
       BackoffInterrupted, Accepted, Interrupt, ReadChunk, ReadEnd, ReadBroken, ReadPipe,
       ReadPipeEnd, HandleContent, HandleCall, HandleIgnored, HandleDone, LimitExceeded,
       FinishProse, FinishJSON, TeeStart, TeeRead, TeeEnd, TeeLog, TeeClose, AfterTransient,
       Retry, Fails, Return, ShowAndReturn, config, kept, client, vars
<1>1. CASE mode' \notin {"consume", "finish"}
  BY <1>1 DEF BodyOK
<1>2. CASE Request \/ LogRequest \/ Refused \/ Backoff \/ BackoffInterrupted \/ ReadBroken
           \/ LimitExceeded \/ Unavailable
  <2>1. mode' \notin {"consume", "finish"}
    BY <1>2 DEF Request, LogRequest, Refused, Backoff, BackoffInterrupted, ReadBroken,
         LimitExceeded, Unavailable, AfterTransient, Retry, Fails, Return
  <2> QED
    BY <1>1, <2>1
<1>3. CASE Accepted
  BY <1>3 DEF Accepted, BodyOK, HasDone
<1>4. CASE Interrupt
  BY <1>0, <1>4 DEF Interrupt, BodyOK, HasDone
<1>5. CASE ReadChunk
  <2>1. PICK c \in Chunks : Arrives(c) /\ buf' = c
    BY <1>5 DEF ReadChunk
  <2>2. HasDone(buf)' => HasDone(c)
    BY <2>1 DEF HasDone
  <2> QED
    BY <1>5, <2>1, <2>2 DEF ReadChunk, Reading, Arrives, BodyOK
<1>6. CASE ReadEnd
  BY <1>6 DEF ReadEnd, Ends, BodyOK
<1>7. CASE debugging
  BY <1>0, <1>7 DEF BodyOK
<1>8. CASE ReadPipe \/ ReadPipeEnd \/ Tee
  BY <1>7, <1>8 DEF ReadPipe, ReadPipeEnd, Tee, TeeStart, TeeRead, TeeEnd, TeeLog, TeeClose, LogOK
<1>9. CASE HandleContent \/ HandleCall \/ HandleIgnored
  <2>1. mode = "consume" /\ mode' = "consume" /\ body' = body /\ buf # <<>> /\ buf' = Tail(buf)
    BY <1>9 DEF HandleContent, HandleCall, HandleIgnored, Handling, Next1
  <2>2. HasDone(buf)' => HasDone(buf)
    BY <2>1, HeadOfBuffer DEF HasDone, TypeOK
  <2> QED
    BY <1>0, <2>1, <2>2 DEF BodyOK
<1>10. CASE HandleDone
  <2>1. mode = "consume" /\ mode' = "finish" /\ body' = body /\ HasDone(buf)
    BY <1>10, HeadOfBuffer DEF HandleDone, Handling, TypeOK
  <2> QED
    BY <1>0, <2>1 DEF BodyOK
<1>11. CASE FinishProse \/ FinishJSON
  <2>1. mode' = "idle"
    BY <1>11, FinishReturns DEF ShowAndReturn, Return
  <2> QED
    BY <1>1, <2>1
<1>12. CASE UNCHANGED vars
  BY <1>0, <1>12 DEF vars, BodyOK, HasDone
<1> QED
  BY <1>2, <1>3, <1>4, <1>5, <1>6, <1>8, <1>9, <1>10, <1>11, <1>12
     DEF Next, Attempts, Consume

\* A step that does not touch the log or the goroutine, in a mode that does
\* not ask for one.
LEMMA ClientSteps ==
  ASSUME LogOK, LogIsSequential, UNCHANGED <<debugging, lock, tee, log>>,
         tee = "start" => mode' = "consume" /\ buf' = <<>>,
         mode' \in {"send", "backoff"} => mode \in {"send", "backoff"}
  PROVE  LogOK' /\ LogIsSequential'
BY DEF LogOK, LogIsSequential, LastMark

\* Every step keeps the debug log to one goroutine.
LEMMA StepLog ==
  ASSUME TypeOK, LogOK, LogIsSequential, [Next]_vars
  PROVE  LogOK' /\ LogIsSequential'
<1>0. log \in Seq(Marks)
  BY DEF TypeOK, Marks
<1>1. CASE Request
  BY <1>1, ClientSteps DEF Request, reader, LogOK
<1>2. CASE LogRequest
  <2>1. CASE debugging
    <3>1. lock = "free" /\ tee = "gone" /\ LastMark # "RESPONSE" /\ log' = Append(log, "REQUEST")
      BY <1>2, <2>1 DEF LogRequest, LogOK, TypeOK
    <3>2. LogIsSequential' /\ LastMark' = "REQUEST"
      BY <1>0, <3>1, LogGrows DEF Marks
    <3> QED
      BY <1>2, <3>1, <3>2 DEF LogRequest, config, reader, LogOK
  <2>2. CASE ~debugging
    <3>1. log' = log
      BY <1>2, <2>2 DEF LogRequest
    <3>2. LogIsSequential' /\ LastMark' = LastMark
      BY <3>1 DEF LogIsSequential, LastMark
    <3> QED
      BY <1>2, <2>2, <3>1, <3>2 DEF LogRequest, config, reader, LogOK
  <2> QED
    BY <2>1, <2>2
<1>3. CASE Refused \/ BackoffInterrupted \/ Backoff \/ Unavailable
  <2>1. /\ mode \in {"send", "backoff"} /\ UNCHANGED <<debugging, lock, tee, log>>
    BY <1>3 DEF Refused, BackoffInterrupted, Backoff, Unavailable, AfterTransient, Retry, Fails,
         Return, config, reader
  <2> QED
    BY <2>1, ClientSteps DEF LogOK
<1>4. CASE Accepted
  <2>1. /\ tee = "gone" /\ lock' = lock /\ debugging' = debugging
        /\ debugging => LastMark = "REQUEST"
    BY <1>4 DEF Accepted, config, LogOK
  <2>2. LogIsSequential' /\ LastMark' = LastMark
    BY <1>4 DEF Accepted, LogIsSequential, LastMark
  <2> QED
    BY <1>4, <2>1, <2>2 DEF Accepted, LogOK
<1>5. CASE Interrupt
  BY <1>5, ClientSteps DEF Interrupt, config, reader, LogOK
<1>6. CASE ReadChunk \/ ReadEnd \/ ReadBroken
  <2>1. /\ tee = "gone" /\ UNCHANGED <<debugging, lock, tee, log>>
        /\ mode' \in {"consume", "finish", "idle"}
    BY <1>6 DEF ReadChunk, ReadEnd, ReadBroken, Reading, Fails, Return, config, reader, kept, LogOK
  <2> QED
    BY <2>1, ClientSteps
<1>7. CASE ReadPipe
  <2>1. tee = "write" /\ tee' = "copied" /\ UNCHANGED <<debugging, lock, log, mode>>
    BY <1>7 DEF ReadPipe, config, kept
  <2>2. LogIsSequential' /\ LastMark' = LastMark
    BY <2>1 DEF LogIsSequential, LastMark
  <2> QED
    BY <2>1, <2>2 DEF LogOK
<1>8. CASE ReadPipeEnd
  BY <1>8, ClientSteps DEF ReadPipeEnd, config, reader, kept
<1>9. CASE HandleContent \/ HandleCall \/ HandleIgnored \/ HandleDone \/ LimitExceeded
           \/ FinishProse \/ FinishJSON
  <2>1. /\ mode = "finish" \/ (mode = "consume" /\ buf # <<>>)
        /\ UNCHANGED <<debugging, lock, tee, log>>
        /\ mode' \in {"consume", "finish", "idle"}
    BY <1>9, FinishReturns DEF HandleContent, HandleCall, HandleIgnored, HandleDone,
         LimitExceeded, Handling, ShowAndReturn, Fails, Return, config, reader, kept
  <2> QED
    BY <2>1, ClientSteps DEF LogOK
<1>10. CASE TeeStart
  <2>1. LogIsSequential' /\ LastMark' = "RESPONSE"
    BY <1>0, <1>10, LogGrows DEF TeeStart, LogOK, Marks
  <2> QED
    BY <1>10, <2>1 DEF TeeStart, client, config, LogOK
<1>11. CASE TeeRead \/ TeeEnd \/ TeeLog
  <2>1. /\ tee \in {"copy", "copied"} /\ tee' \in {"copy", "write", "end"}
        /\ UNCHANGED <<debugging, lock, log, mode>>
    BY <1>11 DEF TeeRead, TeeEnd, TeeLog, client, config
  <2>2. LogIsSequential' /\ LastMark' = LastMark
    BY <2>1 DEF LogIsSequential, LastMark
  <2> QED
    BY <2>1, <2>2 DEF LogOK
<1>12. CASE TeeClose
  <2>1. LogIsSequential' /\ LastMark' = "END"
    BY <1>0, <1>12, LogGrows DEF TeeClose, Marks
  <2>2. tee = "end" /\ tee' = "gone" /\ lock' = "free" /\ UNCHANGED <<debugging, mode>>
    BY <1>12 DEF TeeClose, client, config
  <2>3. ~(mode \in {"send", "backoff"})
    BY <2>2 DEF LogOK
  <2> QED
    BY <2>1, <2>2, <2>3 DEF LogOK
<1>13. CASE UNCHANGED vars
  BY <1>13, ClientSteps DEF vars, config, reader, LogOK
<1> QED
  BY <1>1, <1>2, <1>3, <1>4, <1>5, <1>6, <1>7, <1>8, <1>9, <1>10, <1>11, <1>12, <1>13
     DEF Next, Attempts, Consume, Tee

-----------------------------------------------------------------------------
(* The theorems *)

\* No request was made yet.
LEMMA InitIInv ==
  ASSUME Init
  PROVE  IInv
<1>1. /\ <<>> \in Seq(Frames) /\ <<>> \in Seq(Tokens) /\ <<>> \in Seq(Calls)
      /\ <<>> \in Seq({"REQUEST", "RESPONSE", "END"})
  BY EmptySeq
<1>2. parseJSON \in BOOLEAN /\ debugging \in BOOLEAN /\ attempt \in 0 .. MaxRetries
  BY StreamAssumption DEF Init
<1>3. TypeOK
  <2>1. {sent, requests, interrupts} \subseteq Nat
    BY DEF Init
  <2>2. answer \in [ok : BOOLEAN, content : Seq(Tokens), calls : Seq(Calls)]
    BY NoneIsAnAnswer DEF Init
  <2>3. cancelled \in BOOLEAN /\ mode \in Modes
    BY DEF Init, Modes
  <2> QED
    BY <1>1, <1>2, <2>1, <2>2, <2>3 DEF Init, TypeOK
<1>4. AttemptOK /\ BodyOK
  BY DEF Init, AttemptOK, BodyOK
<1>5. ShownOK
  BY NoneIsAnAnswer DEF Init, ShownOK, ShownIsRecorded
<1>6. LastMark = "none" /\ Len(log) = 0
  BY EmptySeq DEF Init, LastMark
<1>7. LogOK /\ LogIsSequential
  BY <1>6 DEF Init, LogOK, LogIsSequential
<1> QED
  BY <1>3, <1>4, <1>5, <1>7 DEF IInv

\* Every step keeps the invariant.
LEMMA StepIInv ==
  ASSUME IInv, [Next]_vars
  PROVE  IInv'
BY StepTypes, StepAttempt, StepShown, StepBody, StepLog DEF IInv

\* The inductive invariant of a client and the goroutine of its debug log.
THEOREM StreamInvariant == Spec => []IInv
<1>1. Init => IInv
  BY InitIInv
<1>2. IInv /\ [Next]_vars => IInv'
  BY StepIInv
<1> QED
  BY <1>1, <1>2, PTL DEF Spec

\* Answers, buffers and the log keep their types, and the attempts their limit.
THEOREM StreamTypes == Spec => []TypeOK
<1>1. IInv => TypeOK
  BY DEF IInv
<1> QED
  BY <1>1, StreamInvariant, PTL

\* However often a request is retried, the handlers are shown the text the
\* answer records, each token once.
THEOREM HandlersSeeTheAnswer == Spec => []ShownIsRecorded
<1>1. IInv => ShownIsRecorded
  BY DEF IInv, ShownOK
<1> QED
  BY <1>1, StreamInvariant, PTL

\* The goroutines that copy bodies and the requests that follow never mix
\* their entries in the debug log.
THEOREM LogIsInOrder == Spec => []LogIsSequential
<1>1. IInv => LogIsSequential
  BY DEF IInv
<1> QED
  BY <1>1, StreamInvariant, PTL

\* Without a debug log, a body that broke off never becomes an answer.
THEOREM BrokenAnswersAreErrors == Spec => BrokenIsAnError
<1> DEFINE A == ~debugging /\ answer' # answer /\ answer'.ok => body \in {"done", "ended"}
<1>1. IInv /\ [Next]_vars => [A]_vars
  <2> SUFFICES ASSUME IInv, Next, ~debugging, answer' # answer, answer'.ok
               PROVE  body \in {"done", "ended"}
    OBVIOUS
  <2>1. mode = "finish"
    BY NoneIsAnAnswer DEF Next, Attempts, Consume, Tee, Request, LogRequest, Unavailable,
         Refused, Backoff, BackoffInterrupted, Accepted, Interrupt, ReadChunk, ReadEnd,
         ReadBroken, ReadPipe, ReadPipeEnd, HandleContent, HandleCall, HandleIgnored, HandleDone,
         LimitExceeded, FinishProse, FinishJSON, TeeStart, TeeRead, TeeEnd, TeeLog, TeeClose,
         AfterTransient, Retry, Fails, Return, kept, client
  <2> QED
    BY <2>1 DEF IInv, BodyOK
<1> QED
  BY <1>1, StreamInvariant, PTL DEF Spec, BrokenIsAnError

\* Once interrupted, a request starts no attempt that streams and no wait for
\* another one.
THEOREM InterruptsAreObeyed == Spec => InterruptIsObeyed
<1> DEFINE A == cancelled /\ cancelled' /\ mode = "send" => mode' \in {"send", "idle"}
<1>1. [Next]_vars => [A]_vars
  <2> SUFFICES ASSUME Next, cancelled, cancelled', mode = "send"
               PROVE  mode' \in {"send", "idle"}
    OBVIOUS
  <2> QED
    BY DEF Next, Attempts, Consume, Tee, Request, LogRequest, Unavailable,
         Refused, Backoff, BackoffInterrupted, Accepted, Interrupt, ReadChunk, ReadEnd,
         ReadBroken, ReadPipe, ReadPipeEnd, HandleContent, HandleCall, HandleIgnored, HandleDone,
         LimitExceeded, FinishProse, FinishJSON, TeeStart, TeeRead, TeeEnd, TeeLog, TeeClose,
         AfterTransient, Retry, Fails, Return, Reading, Handling, client
<1> QED
  BY <1>1, PTL DEF Spec, InterruptIsObeyed
=============================================================================
