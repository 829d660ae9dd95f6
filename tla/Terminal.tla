------------------------------ MODULE Terminal ------------------------------
(***************************************************************************)
(* The terminal as Agent.Run and main use it: the goroutine of the agent   *)
(* writes, and the goroutine of the thinking indicator draws a frame every *)
(* quarter of a second until it is stopped.  Every operation of Screen     *)
(* holds the mutex of the UI and is one step; StartThinking and            *)
(* StopThinking hold thinkMu, which StopThinking gives up while it waits.  *)
(* Only the goroutine of the agent starts and stops the indicator, and it  *)
(* does nothing else while it waits for it to end.                         *)
(***************************************************************************)
EXTENDS Screen

CONSTANTS
  MaxStarts,  \* bound: indicators started
  MaxTurns,   \* bound: turns of Agent.Run
  MaxEvents,  \* bound: deltas, fragments and retries of all responses
  MaxCalls,   \* bound: calls of one response
  MaxTail     \* LiveView.maxLines

ASSUME TerminalAssumption ==
  {MaxStarts, MaxTurns, MaxEvents, MaxCalls, MaxTail} \subseteq Nat \ {0}

VARIABLES
  screen,
  stage,      \* where Agent.Run is
  turn,
  events,     \* of the responses so far
  calls,      \* of this response
  printed,    \* printedHeader
  open,       \* contentOpen
  view,       \* the live view of the call that is streamed
  thinkStop,  \* which indicator is running, 0 for nil; thinkDone is the other channel
  thinkStopping,
  loop,       \* thinkLoop of each indicator
  closed,     \* its stop channel is closed
  starts,
  pc, mine    \* of StopThinking: where the agent is in it, for which indicator

agentVars == <<stage, turn, events, calls, printed, open, view>>
thinkVars == <<thinkStop, thinkStopping, loop, closed, starts>>
callVars == <<pc, mine>>
vars == <<screen, agentVars, thinkVars, callVars>>

Indicators == 1..MaxStarts
NoView == [started |-> FALSE, prev |-> 0]

TypeOK ==
  /\ \A k \in DOMAIN screen.rows : screen.rows[k] \in Seq(Marks)
  /\ stage \in {"prompt", "typing", "turn", "start", "stream", "content", "args", "end",
                "dispatch", "called", "shown", "asked", "ran", "stopped"}
  /\ turn \in 0..MaxTurns /\ events \in 0..MaxEvents /\ calls \in 0..MaxCalls
  /\ printed \in BOOLEAN /\ open \in BOOLEAN
  /\ view.prev \in 0..MaxTail
  /\ thinkStop \in 0..MaxStarts /\ starts \in 0..MaxStarts
  /\ thinkStopping \in BOOLEAN /\ (thinkStopping => thinkStop # 0)
  /\ loop \in [Indicators -> {"none", "draw", "select", "clear", "done"}]
  /\ closed \subseteq Indicators
  /\ pc \in {"idle", "wait", "reset"} /\ mine \in 0..MaxStarts

Init ==
  /\ \E wide \in BOOLEAN : screen = ShowStatus(PutLine(Blank(wide), "line"))
  /\ stage = "prompt" /\ turn = 0 /\ events = 0 /\ calls = 0
  /\ printed = FALSE /\ open = FALSE /\ view = NoView
  /\ thinkStop = 0 /\ thinkStopping = FALSE /\ starts = 0
  /\ loop = [k \in Indicators |-> "none"] /\ closed = {}
  /\ pc = "idle" /\ mine = 0

-----------------------------------------------------------------------------
(* StartThinking and StopThinking *)

\* Of a running indicator, and of one that is being stopped, there is no second.
StartThinking ==
  IF thinkStop # 0 THEN UNCHANGED thinkVars
  ELSE /\ starts < MaxStarts
       /\ starts' = starts + 1
       /\ thinkStop' = starts + 1
       /\ loop' = [loop EXCEPT ![starts + 1] = "draw"]
       /\ UNCHANGED <<thinkStopping, closed>>

StopThinking ==
  IF thinkStop = 0 THEN UNCHANGED <<thinkVars, callVars>>
  ELSE /\ closed' = closed \cup {thinkStop}
       /\ thinkStopping' = TRUE
       /\ pc' = "wait" /\ mine' = thinkStop
       /\ UNCHANGED <<thinkStop, loop, starts>>

\* Variant: StopThinking does not wait for the goroutine to end.
AwaitNothing ==
  /\ pc = "wait"
  /\ pc' = "reset"
  /\ UNCHANGED <<screen, agentVars, thinkVars, mine>>

Await ==
  /\ pc = "wait" /\ loop[mine] = "done"
  /\ pc' = "reset"
  /\ UNCHANGED <<screen, agentVars, thinkVars, mine>>

\* Variant: thinkStopping is left as it is.
ResetHalf ==
  /\ pc = "reset"
  /\ thinkStop' = IF thinkStop = mine THEN 0 ELSE thinkStop
  /\ pc' = "idle"
  /\ UNCHANGED <<screen, agentVars, thinkStopping, loop, closed, starts, mine>>

Reset ==
  /\ pc = "reset"
  /\ IF thinkStop = mine THEN thinkStop' = 0 /\ thinkStopping' = FALSE
                         ELSE UNCHANGED <<thinkStop, thinkStopping>>
  /\ pc' = "idle"
  /\ UNCHANGED <<screen, agentVars, loop, closed, starts, mine>>

\* thinkLoop.  When the tick and the stop are both there, either is taken.
Draw(k) ==
  /\ loop[k] = "draw"
  /\ screen' = DrawThinking(screen)
  /\ loop' = [loop EXCEPT ![k] = "select"]
  /\ UNCHANGED <<agentVars, thinkStop, thinkStopping, closed, starts, callVars>>

Select(k) ==
  /\ loop[k] = "select"
  /\ loop' \in {[loop EXCEPT ![k] = "draw"]}
               \cup (IF k \in closed THEN {[loop EXCEPT ![k] = "clear"]} ELSE {})
  /\ UNCHANGED <<screen, agentVars, thinkStop, thinkStopping, closed, starts, callVars>>

Clear(k) ==
  /\ loop[k] = "clear"
  /\ screen' = ClearThinking(screen)
  /\ loop' = [loop EXCEPT ![k] = "done"]
  /\ UNCHANGED <<agentVars, thinkStop, thinkStopping, closed, starts, callVars>>

-----------------------------------------------------------------------------
(* Agent.Run and the prompt.  The endpoint sends the text of a response before
   its calls, and a call at a time. *)

At(s) == stage = s /\ pc = "idle"

Go(s) == stage' = s

Prompt ==
  /\ At("prompt") /\ turn < MaxTurns
  /\ screen' = Ask(screen) /\ Go("typing")
  /\ UNCHANGED <<turn, events, calls, printed, open, view, thinkVars, callVars>>

Typed ==
  /\ At("typing")
  /\ screen' = Enter(screen) /\ Go("turn")
  /\ UNCHANGED <<turn, events, calls, printed, open, view, thinkVars, callVars>>

\* A slash command prints something; it counts as a turn here.
Command ==
  /\ At("typing")
  /\ turn' = turn + 1
  /\ screen' = Println(Enter(screen)) /\ Go("prompt")
  /\ UNCHANGED <<events, calls, printed, open, view, thinkVars, callVars>>

\* updateStatus, and the locals of a turn
Turn ==
  /\ At("turn") /\ turn < MaxTurns
  /\ turn' = turn + 1 /\ calls' = 0
  /\ printed' = FALSE /\ open' = FALSE /\ view' = NoView
  /\ screen' = ShowStatus(screen) /\ Go("start")
  /\ UNCHANGED <<events, thinkVars, callVars>>

Start ==
  /\ At("start")
  /\ StartThinking /\ Go("stream")
  /\ UNCHANGED <<screen, turn, events, calls, printed, open, view, callVars>>

Event == At("stream") /\ events < MaxEvents /\ events' = events + 1

EnsureNL(s) == IF open THEN Assistant(s, TRUE) ELSE s

\* OnRetry: nothing was shown of this response.
Retry ==
  /\ Event /\ ~printed /\ view = NoView
  /\ screen' = Println(screen)
  /\ UNCHANGED <<stage, turn, calls, printed, open, view, thinkVars, callVars>>

\* OnContent stops the indicator and waits for it.
ContentArrives ==
  /\ Event /\ view = NoView
  /\ StopThinking /\ Go("content")
  /\ UNCHANGED <<screen, turn, calls, printed, open, view>>

Content ==
  /\ At("content")
  /\ \E ends \in BOOLEAN :
       /\ screen' = Assistant(IF printed THEN screen ELSE AssistantHeader(screen), ends)
       /\ open' = ~ends
  /\ printed' = TRUE /\ Go("stream")
  /\ UNCHANGED <<turn, events, calls, view, thinkVars, callVars>>

\* OnToolArgs does not stop the indicator.  A view is closed by the first
\* fragment of another call.
Args ==
  /\ Event
  /\ \E v \in {view, NoView}, n \in 1..MaxTail :
       /\ LET s == IF v = NoView THEN EnsureNL(screen) ELSE screen
          IN screen' = Update(s, v, n)
       /\ view' = [started |-> TRUE, prev |-> n]
       /\ open' = (v # NoView /\ open)
  /\ UNCHANGED <<stage, turn, calls, printed, thinkVars, callVars>>

ResponseEnds ==
  /\ At("stream")
  /\ StopThinking /\ Go("end")
  /\ UNCHANGED <<screen, turn, events, calls, printed, open, view>>

\* The answer is finished before the bar is drawn, unless the request failed
\* without an answer; a reply that came as a call follows the bar.
Settle ==
  /\ At("end")
  /\ LET s == ShowStatus(EnsureNL(screen)) IN
       \/ screen' = s /\ Go("dispatch")
       \/ screen' \in {s, EnsureNL(screen)} /\ Go("stopped")
       \/ /\ screen' = Assistant(IF printed THEN s ELSE AssistantHeader(s), FALSE)
          /\ Go("stopped")
  /\ open' = FALSE
  /\ UNCHANGED <<turn, events, calls, printed, view, thinkVars, callVars>>

\* dispatch: the call, what is shown before it and a question, both or neither,
\* and the result.
Call ==
  /\ At("dispatch")
  /\ screen' = ToolCall(screen) /\ Go("called")
  /\ calls' = calls + 1
  /\ UNCHANGED <<turn, events, printed, open, view, thinkVars, callVars>>

\* The preview of an edit, or what the policy says of a command.
ShowDiff ==
  /\ At("called") /\ Go("shown")
  /\ screen' \in {Println(ToolResult(screen)), Println(screen)}
  /\ UNCHANGED <<turn, events, calls, printed, open, view, thinkVars, callVars>>

Question ==
  /\ At("called") \/ At("shown")
  /\ screen' = Ask(screen) /\ Go("asked")
  /\ UNCHANGED <<turn, events, calls, printed, open, view, thinkVars, callVars>>

Answer ==
  /\ At("asked") /\ Go("ran")
  /\ screen' = Enter(screen)
  /\ UNCHANGED <<turn, events, calls, printed, open, view, thinkVars, callVars>>

\* The result, or the notice that the call was refused.
Result ==
  /\ At("called") \/ At("shown") \/ At("ran")
  /\ screen' \in {ToolResult(screen), Println(screen)}
  /\ \E s \in {"turn"} \cup (IF calls < MaxCalls THEN {"dispatch"} ELSE {}) : Go(s)
  /\ UNCHANGED <<turn, events, calls, printed, open, view, thinkVars, callVars>>

\* reportUsage, and back to the prompt; an endpoint may report no usage.
Report ==
  /\ At("stopped") \/ (At("turn") /\ turn = MaxTurns)
  /\ screen' \in {Println(screen), screen} /\ Go("prompt")
  /\ UNCHANGED <<turn, events, calls, printed, open, view, thinkVars, callVars>>

Quit == At("prompt") /\ turn = MaxTurns /\ UNCHANGED vars

Agent ==
  \/ Prompt \/ Typed \/ Command \/ Turn \/ Start \/ Retry \/ ContentArrives \/ Content \/ Args
  \/ ResponseEnds \/ Settle \/ Call \/ ShowDiff \/ Question \/ Answer \/ Result \/ Report \/ Quit

Next ==
  \/ Agent \/ Await \/ Reset
  \/ \E k \in Indicators : Draw(k) \/ Select(k) \/ Clear(k)

Spec == Init /\ [][Next]_vars

-----------------------------------------------------------------------------
(* Nothing that was said is erased or overtaken: the lines, the text of the
   assistant, the titles and the questions are all on the screen where they
   were written and in that order, whatever the indicator, the bar and the live
   views erase and draw in between. *)
TextSurvives ==
  /\ Shown(screen) = {screen.said[i] : i \in DOMAIN screen.said}
  /\ \A i \in 1..Len(screen.said) - 1 : Before(screen.said[i], screen.said[i + 1])

(* When no indicator runs there is none: its goroutine has ended, and no frame is
   left on the screen, except in front of the title of a live view that was
   written while it ran; an indicator that runs has one goroutine. *)
IndicatorIsGone ==
  /\ \A k \in Indicators : loop[k] \notin {"none", "done"} => k = thinkStop
  /\ thinkStop = 0 =>
       \A r \in DOMAIN screen.rows :
         "think" \in {screen.rows[r][m] : m \in DOMAIN screen.rows[r]} =>
           "title" \in {screen.rows[r][m] : m \in DOMAIN screen.rows[r]}
=============================================================================
