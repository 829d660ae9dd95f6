-------------------------- MODULE AgentLoopProofs --------------------------
(***************************************************************************)
(* What AgentLoop promises for every set of calls, every model's answers   *)
(* and every value of its limits.                                          *)
(***************************************************************************)
EXTENDS AgentLoop, FiniteSetTheorems, SequenceTheorems, WellFoundedInduction, TLAPS

-----------------------------------------------------------------------------
(* Sequences of messages *)

\* Appending one message: its length and its elements.
LEMMA CatOne ==
  ASSUME NEW S, NEW m \in Seq(S), NEW x \in S
  PROVE  /\ m \o <<x>> \in Seq(S)
         /\ Len(m \o <<x>>) = Len(m) + 1
         /\ \A i \in 1 .. Len(m) : (m \o <<x>>)[i] = m[i]
         /\ (m \o <<x>>)[Len(m) + 1] = x
  OBVIOUS

\* The messages the loop writes are messages.
LEMMA MessageTypes ==
  /\ SystemPrompt \in Message /\ Summary \in Message
  /\ \A t \in Texts : User(t) \in Message
  /\ \A t \in Texts, cs \in Seq(Calls) : Assistant(t, cs) \in Message
  /\ \A c \in Calls : ToolResult(c) \in Message
  BY DEF SystemPrompt, Summary, User, Assistant, ToolResult, Message, Roles, Texts

\* ... and so are the pieces of a transcript it appends.
LEMMA NewTypes ==
  /\ <<>> \in Seq(Message) /\ <<SystemPrompt>> \in Seq(Message)
  /\ \A t \in Texts : <<User(t)>> \in Seq(Message)
  /\ \A t \in Texts, cs \in Seq(Calls) : <<Assistant(t, cs)>> \in Seq(Message)
  /\ \A c \in Calls : <<ToolResult(c)>> \in Seq(Message)
  /\ <<Assistant("", <<>>), User("empty")>> \in Seq(Message)
  <1>1. \A x \in Message : <<x>> \in Seq(Message)
    OBVIOUS
  <1>2. \A x, y \in Message : <<x, y>> \in Seq(Message)
    OBVIOUS
  <1>3. Assistant("", <<>>) \in Message /\ User("empty") \in Message
    <2>1. <<>> \in Seq(Calls) /\ "" \in Texts /\ "empty" \in Texts
      BY DEF Texts
    <2> QED BY <2>1, MessageTypes
  <1>4. <<>> \in Seq(Message)
    OBVIOUS
  <1>5. <<Assistant("", <<>>), User("empty")>> \in Seq(Message)
    BY <1>2, <1>3
  <1>6. /\ <<SystemPrompt>> \in Seq(Message)
        /\ \A t \in Texts : <<User(t)>> \in Seq(Message)
        /\ \A t \in Texts, cs \in Seq(Calls) : <<Assistant(t, cs)>> \in Seq(Message)
        /\ \A c \in Calls : <<ToolResult(c)>> \in Seq(Message)
    BY <1>1, MessageTypes
  <1> QED BY <1>4, <1>5, <1>6

\* A set of numbers that is not empty has a least member.
LEMMA Smallest ==
  ASSUME NEW S \in SUBSET Nat, S # {}
  PROVE  \E n \in S : \A m \in S : n <= m
  <1> DEFINE R == OpToRel(<, Nat)
  <1>1. IsWellFoundedOn(R, Nat)
    BY NatLessThanWellFounded
  <1>2. \A m, n \in Nat : m < n => <<m, n>> \in R
    BY DEF OpToRel
  <1> HIDE DEF R
  <1>3. PICK n \in S : \A m \in S : ~ (<<m, n>> \in R)
    BY <1>1, WFMin
  <1>4. ASSUME NEW m \in S PROVE n <= m
    <2>1. m \in Nat /\ n \in Nat
      OBVIOUS
    <2>2. ~ (m < n)
      BY <1>2, <1>3, <2>1, Zenon
    <2> QED BY <2>1, <2>2
  <1> QED BY <1>4

\* Induction, over a set in the place of a predicate.
LEMMA SetInduction ==
  ASSUME NEW S \in SUBSET Nat, 0 \in S, \A n \in S : n + 1 \in S
  PROVE  S = Nat
  <1>1. SUFFICES ASSUME Nat \ S # {} PROVE FALSE
    OBVIOUS
  <1>2. PICK n \in Nat \ S : \A m \in Nat \ S : n <= m
    BY <1>1, Smallest
  <1>3. n - 1 \in S
    BY <1>2
  <1> QED BY <1>2, <1>3

\* A function on 0..n by recursion, the step given as a function, ...
IsRecursion(g, D, d, F, n) ==
  g \in [0..n -> D] /\ g[0] = d /\ \A k \in 1..n : g[k] = F[<<k, g[k - 1]>>]

\* ... exists, ...
LEMMA Recursion ==
  ASSUME NEW D, NEW d \in D, NEW F \in [Nat \X D -> D], NEW n \in Nat
  PROVE  \E g : IsRecursion(g, D, d, F, n)
  <1> DEFINE P(m) == \E g \in [0..m -> D] : g[0] = d /\ \A k \in 1..m : g[k] = F[<<k, g[k - 1]>>]
             I == {m \in Nat : P(m)}
  <1>1. 0 \in I
    <2> DEFINE g == [k \in 0..0 |-> d]
    <2>1. g \in [0..0 -> D] /\ g[0] = d /\ \A k \in 1..0 : g[k] = F[<<k, g[k - 1]>>]
      OBVIOUS
    <2>2. P(0)
      BY <2>1
    <2> QED BY <2>2
  <1>2. ASSUME NEW m \in I PROVE m + 1 \in I
    <2>1. m \in Nat
      OBVIOUS
    <2>2. PICK g \in [0..m -> D] : g[0] = d /\ \A k \in 1..m : g[k] = F[<<k, g[k - 1]>>]
      OBVIOUS
    <2> DEFINE l == m + 1
               h == [k \in 0..l |-> IF k = l THEN F[<<l, g[m]>>] ELSE g[k]]
    <2>3. g[m] \in D /\ l \in Nat /\ l - 1 = m
      BY <2>1
    <2>4. F[<<l, g[m]>>] \in D
      BY <2>3
    <2>5. \A k \in 0..l : k # l => k \in 0..m
      BY <2>1
    <2>6. h \in [0..l -> D] /\ h[l] = F[<<l, g[m]>>] /\ \A k \in 0..m : h[k] = g[k]
      <3>1. l \in 0..l /\ \A k \in 0..m : k \in 0..l /\ k # l
        BY <2>1
      <3> QED BY <2>4, <2>5, <3>1
    <2> HIDE DEF h
    <2>7. h[0] = d
      BY <2>1, <2>2, <2>6
    <2>8. ASSUME NEW k \in 1..l PROVE h[k] = F[<<k, h[k - 1]>>]
      <3>1. CASE k = l
        <4>1. k - 1 = m /\ m \in 0..m
          BY <2>1, <2>3, <3>1
        <4> QED BY <2>6, <3>1, <4>1
      <3>2. CASE k # l
        <4>1. k \in 1..m /\ k \in 0..m /\ k - 1 \in 0..m
          BY <2>1, <3>2
        <4> QED BY <2>2, <2>6, <4>1
      <3> QED BY <3>1, <3>2
    <2> HIDE DEF l
    <2>9. P(l)
      BY <2>6, <2>7, <2>8
    <2> QED BY <2>3, <2>9 DEF l
  <1>3. I \in SUBSET Nat
    OBVIOUS
  <1> HIDE DEF I
  <1>4. I = Nat
    BY <1>1, <1>2, <1>3, SetInduction
  <1>5. n \in I
    BY <1>4
  <1> QED BY <1>5 DEF I, IsRecursion

\* ... and there is only one.
SameSteps(g, h, n) ==
  g[0] = h[0] /\ \A k \in 1..n : g[k - 1] = h[k - 1] => g[k] = h[k]

LEMMA SameFunction ==
  ASSUME NEW n \in Nat, NEW g, NEW h, SameSteps(g, h, n)
  PROVE  \A k \in 0..n : g[k] = h[k]
  <1> USE DEF SameSteps
  <1> DEFINE I == {k \in Nat : k <= n => g[k] = h[k]}
  <1>1. 0 \in I
    OBVIOUS
  <1>2. ASSUME NEW k \in I PROVE k + 1 \in I
    <2>1. SUFFICES ASSUME k + 1 <= n PROVE g[k + 1] = h[k + 1]
      OBVIOUS
    <2>2. k \in Nat /\ k <= n /\ k + 1 \in 1..n /\ (k + 1) - 1 = k
      BY <2>1
    <2>3. g[k] = h[k]
      BY <2>2
    <2> QED BY <2>2, <2>3
  <1>3. I \in SUBSET Nat
    OBVIOUS
  <1> HIDE DEF I
  <1>4. I = Nat
    BY <1>1, <1>2, <1>3, SetInduction
  <1>5. ASSUME NEW k \in 0..n PROVE g[k] = h[k]
    <2>1. k \in Nat /\ k <= n
      OBVIOUS
    <2> QED BY <1>4, <2>1 DEF I
  <1> QED BY <1>5

\* What is recorded of a completion are real calls and a text.
LEMMA RealTypes ==
  ASSUME NEW r \in Completions
  PROVE  RealCalls(r) \in Seq(Calls) /\ RealText(r) \in Texts
  <1> DEFINE cs == Requested(r)
             n  == Len(cs)
             F  == [p \in Nat \X Seq(Calls) |->
                      IF p[1] \in 1 .. n /\ cs[p[1]] \notin ReplyCalls THEN Append(p[2], cs[p[1]]) ELSE p[2]]
             body(f) == [k \in 0 .. n |->
                           IF k = 0 THEN <<>>
                           ELSE IF cs[k] \in ReplyCalls THEN f[k - 1] ELSE Append(f[k - 1], cs[k])]
             h == CHOOSE f : f = body(f)
  <1>1. cs \in Seq(Calls \cup ReplyCalls)
    BY CompletionsAssumption DEF Requested
  <1>2. n \in Nat /\ \A k \in 1 .. n : cs[k] \notin ReplyCalls => cs[k] \in Calls
    BY <1>1, LenProperties, ElementOfSeq
  <1>3. RealCalls(r) = h[n]
    BY DEF RealCalls
  <1> HIDE DEF n, cs
  <1>4. F \in [Nat \X Seq(Calls) -> Seq(Calls)]
    <2>1. ASSUME NEW p \in Nat \X Seq(Calls)
          PROVE  (IF p[1] \in 1 .. n /\ cs[p[1]] \notin ReplyCalls THEN Append(p[2], cs[p[1]]) ELSE p[2])
                   \in Seq(Calls)
      <3>1. p[2] \in Seq(Calls)
        OBVIOUS
      <3>2. \A c \in Calls : Append(p[2], c) \in Seq(Calls)
        BY <3>1, AppendProperties
      <3> QED BY <1>2, <3>1, <3>2
    <2> QED BY <2>1
  <1>5. \A k \in 1 .. n, s \in Seq(Calls) :
          F[<<k, s>>] = IF cs[k] \in ReplyCalls THEN s ELSE Append(s, cs[k])
    <2>1. ASSUME NEW k \in 1 .. n, NEW s \in Seq(Calls)
          PROVE  F[<<k, s>>] = IF cs[k] \in ReplyCalls THEN s ELSE Append(s, cs[k])
      <3>1. <<k, s>> \in Nat \X Seq(Calls) /\ <<k, s>>[1] = k /\ <<k, s>>[2] = s
        BY <1>2
      <3> QED BY <3>1
    <2> QED BY <2>1
  <1> HIDE DEF F
  <1>6. PICK g \in [0 .. n -> Seq(Calls)] : g[0] = <<>> /\ \A k \in 1 .. n : g[k] = F[<<k, g[k - 1]>>]
    <2>1. <<>> \in Seq(Calls)
      BY EmptySeq
    <2>2. \E g : IsRecursion(g, Seq(Calls), <<>>, F, n)
      BY <1>2, <1>4, <2>1, Recursion
    <2> QED BY <2>2 DEF IsRecursion
  <1>7. \A k \in 1 .. n : g[k] = IF cs[k] \in ReplyCalls THEN g[k - 1] ELSE Append(g[k - 1], cs[k])
    <2>1. \A k \in 1 .. n : g[k - 1] \in Seq(Calls)
      BY <1>2
    <2> QED BY <1>5, <1>6, <2>1
  <1>8. g = body(g)
    <2>1. \A k \in 0 .. n : k = 0 \/ k \in 1 .. n
      BY <1>2
    <2> QED BY <1>6, <1>7, <2>1
  <1>9. h = body(h)
    BY <1>8
  <1> HIDE DEF h
  <1>10. h[0] = <<>> /\ \A k \in 1 .. n : h[k] = IF cs[k] \in ReplyCalls THEN h[k - 1] ELSE Append(h[k - 1], cs[k])
    <2>1. 0 \in 0 .. n /\ \A k \in 1 .. n : k \in 0 .. n /\ k # 0
      BY <1>2
    <2>2. \A k \in 0 .. n : body(h)[k] = IF k = 0 THEN <<>>
                                       ELSE IF cs[k] \in ReplyCalls THEN h[k - 1] ELSE Append(h[k - 1], cs[k])
      OBVIOUS
    <2> HIDE DEF body
    <2>3. \A k \in 0 .. n : h[k] = IF k = 0 THEN <<>>
                                 ELSE IF cs[k] \in ReplyCalls THEN h[k - 1] ELSE Append(h[k - 1], cs[k])
      BY <1>9, <2>2
    <2> QED BY <2>1, <2>3
  <1>11. \A k \in 0 .. n : h[k] = g[k]
    <2>1. SameSteps(h, g, n)
      BY <1>6, <1>7, <1>10 DEF SameSteps
    <2> QED BY <1>2, <2>1, SameFunction
  <1>12. RealCalls(r) \in Seq(Calls)
    <2>1. n \in 0 .. n
      BY <1>2
    <2> QED BY <1>3, <1>11, <2>1
  <1>13. RealText(r) \in Texts
    BY CompletionsAssumption DEF RealText, Texts
  <1> QED BY <1>12, <1>13

-----------------------------------------------------------------------------
(* Type correctness, in three parts: the Boolean variables, what is stored *)
(* and the control.  A batch is indexed while it is observed and           *)
(* dispatched, so the invariant says that the index is one of it.          *)

FlagsOK ==
  emptyNudged \in BOOLEAN /\ nudge \in BOOLEAN /\ abort \in BOOLEAN /\ saveOk \in BOOLEAN

StoreOK ==
  /\ messages \in Seq(Message) /\ disk \in Seq(Message) /\ fresh \in Seq(Message)
  /\ messages # <<>> /\ faults \in Nat

InBatch == mode \in {"observe", "dispatch"} => at \in 1 .. Len(batch)

ControlOK ==
  /\ mode \in Modes /\ outcome \in Outcomes
  /\ step \in Nat /\ verifyRounds \in Nat /\ tasks \in Nat
  /\ stall \in [last : Calls \cup {NoCall}, count : Nat, nudged : BOOLEAN]
  /\ batch \in Seq(Calls) /\ done \in Seq(Calls)
  /\ at \in Nat \ {0} /\ InBatch

\* The Boolean variables stay Boolean.
LEMMA FlagTypes ==
  ASSUME FlagsOK, [Next]_vars
  PROVE  FlagsOK'
  <1> USE DEF FlagsOK, Saved, SayAndSave, Say, Return, NextTurn, EndOfTurn
  <1>1. CASE Submit
    BY <1>1 DEF Submit, turn
  <1>2. CASE StepLimit
    BY <1>2 DEF StepLimit, store
  <1>3. CASE SkipCompaction
    BY <1>3 DEF SkipCompaction, memory, store, turn
  <1>4. CASE Compact
    BY <1>4 DEF Compact, store, turn
  <1>5. CASE StreamFails
    BY <1>5 DEF StreamFails, store
  <1>6. ASSUME NEW r \in Completions, Answer(r)
        PROVE  FlagsOK'
    <2>1. CASE AnswerWithCalls(r)
      BY <2>1 DEF AnswerWithCalls
    <2>2. CASE AnswerEmpty(r)
      BY <2>2 DEF AnswerEmpty
    <2>3. CASE AnswerEmptyAgain(r)
      BY <2>3 DEF AnswerEmptyAgain
    <2>4. CASE AnswerFinal(r)
      BY <2>4 DEF AnswerFinal, turn
    <2> QED BY <1>6, <2>1, <2>2, <2>3, <2>4 DEF Answer
  <1>7. CASE VerifyRetry
    BY <1>7 DEF VerifyRetry
  <1>8. CASE VerifyDone
    BY <1>8 DEF VerifyDone
  <1>9. CASE Observe
    BY <1>9 DEF Observe, ObserveUpTo, store
  <1>10. CASE Dispatch
    BY <1>10 DEF Dispatch
  <1>11. CASE SettleAbort
    BY <1>11 DEF SettleAbort
  <1>12. CASE SettleNudge
    BY <1>12 DEF SettleNudge
  <1>13. CASE Settle
    BY <1>13 DEF Settle
  <1>14. CASE Reset
    BY <1>14 DEF Reset, turn
  <1>15. CASE Restore
    BY <1>15 DEF Restore, turn
  <1>16. CASE Crash
    BY <1>16 DEF Crash, memory, turn
  <1>17. CASE Restart
    BY <1>17 DEF Restart
  <1>18. CASE UNCHANGED vars
    BY <1>18 DEF vars, memory, store, turn
  <1> QED BY <1>1, <1>2, <1>3, <1>4, <1>5, <1>6, <1>7, <1>8, <1>9, <1>10, <1>11, <1>12,
             <1>13, <1>14, <1>15, <1>16, <1>17, <1>18
          DEF Next, Run

\* What is saved and what is appended are sequences of messages.
LEMMA SavedTypes ==
  ASSUME StoreOK, NEW m \in Seq(Message), NEW new \in Seq(Message), Saved(m, new)
  PROVE  disk' \in Seq(Message) /\ fresh' \in Seq(Message) /\ faults' \in Nat
  <1>1. CASE disk' = m /\ fresh' = <<>> /\ UNCHANGED faults
    BY <1>1 DEF StoreOK
  <1>2. CASE faults' = faults + 1 /\ fresh' = fresh \o new /\ UNCHANGED disk
    BY <1>2 DEF StoreOK
  <1> QED BY <1>1, <1>2 DEF Saved

\* An operation that appends messages, saved or not.
LEMMA SayTypes ==
  ASSUME StoreOK, NEW new \in Seq(Message), SayAndSave(new) \/ Say(new)
  PROVE  StoreOK'
  <1>1. messages \o new \in Seq(Message) /\ fresh \o new \in Seq(Message)
    BY DEF StoreOK
  <1>0. messages \o new # <<>>
    BY DEF StoreOK
  <1>2. CASE SayAndSave(new)
    <2>1. messages' \in Seq(Message) /\ messages' # <<>> /\ Saved(messages', new)
      BY <1>0, <1>1, <1>2 DEF SayAndSave
    <2> QED BY <2>1, SavedTypes DEF StoreOK
  <1>3. CASE Say(new)
    BY <1>0, <1>1, <1>3 DEF Say, StoreOK
  <1> QED BY <1>2, <1>3

\* Every step leaves sequences of messages in memory and on disk.
LEMMA StoreTypes ==
  ASSUME StoreOK, ControlOK, [Next]_vars
  PROVE  StoreOK'
  <1>1. CASE Submit
    <2>1. SayAndSave(<<User("task")>>) /\ "task" \in Texts
      BY <1>1 DEF Submit, Texts
    <2> QED BY <2>1, NewTypes, SayTypes
  <1>2. CASE StepLimit \/ SkipCompaction \/ StreamFails \/ Observe
    BY <1>2 DEF StepLimit, SkipCompaction, StreamFails, Observe, ObserveUpTo, memory, store, StoreOK
  <1>3. CASE Compact
    <2>1. PICK f \in 2 .. Len(messages) :
             /\ FirstKept(messages, f)
             /\ f >= 3 /\ f - 2 >= MinEvict
             /\ messages' = <<messages[1], Summary>> \o SubSeq(messages, f, Len(messages))
      BY <1>3 DEF Compact
    <2>2. messages[1] \in Message /\ Summary \in Message
      BY <2>1, MessageTypes DEF StoreOK
    <2>3. <<messages[1], Summary>> \in Seq(Message)
      BY <2>2
    <2>4. SubSeq(messages, f, Len(messages)) \in Seq(Message)
      BY <2>1 DEF StoreOK
    <2>5. messages' \in Seq(Message) /\ messages' # <<>>
      BY <2>1, <2>3, <2>4
    <2> QED BY <1>3, <2>5 DEF Compact, store, StoreOK
  <1>4. ASSUME NEW r \in Completions, Answer(r)
        PROVE  StoreOK'
    <2>1. CASE AnswerWithCalls(r)
      <3>1. Say(<<Assistant(RealText(r), RealCalls(r))>>)
        BY <2>1 DEF AnswerWithCalls
      <3> QED BY <3>1, RealTypes, NewTypes, SayTypes
    <2>2. CASE AnswerEmpty(r)
      <3>1. SayAndSave(<<Assistant("", <<>>), User("empty")>>)
        BY <2>2 DEF AnswerEmpty
      <3> QED BY <3>1, NewTypes, SayTypes
    <2>3. CASE AnswerEmptyAgain(r)
      <3>1. Say(<<Assistant("", <<>>)>>)
        BY <2>3 DEF AnswerEmptyAgain
      <3>2. "" \in Texts /\ <<>> \in Seq(Calls)
        BY DEF Texts
      <3> QED BY <3>1, <3>2, NewTypes, SayTypes
    <2>4. CASE AnswerFinal(r)
      <3>1. Say(<<Assistant(RealText(r), <<>>)>>)
        BY <2>4 DEF AnswerFinal
      <3>2. <<>> \in Seq(Calls)
        OBVIOUS
      <3> QED BY <3>1, <3>2, RealTypes, NewTypes, SayTypes
    <2> QED BY <1>4, <2>1, <2>2, <2>3, <2>4 DEF Answer
  <1>5. CASE VerifyRetry
    <2>1. SayAndSave(<<User("feedback")>>) /\ "feedback" \in Texts
      BY <1>5 DEF VerifyRetry, Texts
    <2> QED BY <2>1, NewTypes, SayTypes
  <1>6. CASE VerifyDone \/ SettleAbort \/ Settle
    <2>1. SayAndSave(<<>>)
      BY <1>6 DEF VerifyDone, SettleAbort, Settle
    <2> QED BY <2>1, NewTypes, SayTypes
  <1>7. CASE Dispatch
    <2>1. Say(<<ToolResult(batch[at])>>) /\ batch[at] \in Calls
      BY <1>7 DEF Dispatch, ControlOK, InBatch
    <2> QED BY <2>1, NewTypes, SayTypes
  <1>8. CASE SettleNudge
    <2>1. SayAndSave(<<User("stall")>>) /\ "stall" \in Texts
      BY <1>8 DEF SettleNudge, Texts
    <2> QED BY <2>1, NewTypes, SayTypes
  <1>9. CASE Reset
    <2>1. SubSeq(messages, 1, 1) \in Seq(Message) /\ SubSeq(messages, 1, 1) # <<>>
      BY DEF StoreOK
    <2>2. messages' \in Seq(Message) /\ messages' # <<>> /\ Saved(messages', <<>>)
      BY <1>9, <2>1 DEF Reset
    <2> QED BY <2>2, NewTypes, SavedTypes DEF StoreOK
  <1>10. CASE Restore
    BY <1>10, NewTypes DEF Restore, StoreOK
  <1>11. CASE Crash
    BY <1>11 DEF Crash, memory, StoreOK
  <1>12. CASE Restart
    BY <1>12, NewTypes DEF Restart, StoreOK
  <1>13. CASE UNCHANGED vars
    BY <1>13 DEF vars, memory, store, StoreOK
  <1> QED BY <1>1, <1>2, <1>3, <1>4, <1>5, <1>6, <1>7, <1>8, <1>9, <1>10, <1>11, <1>12, <1>13
          DEF Next, Run

\* Every step leaves the control typed and its index inside the batch.
LEMMA ControlTypes ==
  ASSUME ControlOK, [Next]_vars
  PROVE  ControlOK'
  <1> USE DEF ControlOK, InBatch, Modes, Outcomes
  <1>1. CASE Submit
    <2>1. NoStall \in [last : Calls \cup {NoCall}, count : Nat, nudged : BOOLEAN]
      BY DEF NoStall
    <2> QED BY <1>1, <2>1 DEF Submit, turn
  <1>2. CASE StepLimit
    BY <1>2 DEF StepLimit, Return, EndOfTurn
  <1>3. CASE SkipCompaction
    BY <1>3 DEF SkipCompaction, memory, turn
  <1>4. CASE Compact
    BY <1>4 DEF Compact, turn
  <1>5. CASE StreamFails
    BY <1>5 DEF StreamFails, Return, EndOfTurn
  <1>6. ASSUME NEW r \in Completions, Answer(r)
        PROVE  ControlOK'
    <2>1. CASE AnswerWithCalls(r)
      <3>1. RealCalls(r) \in Seq(Calls) /\ Len(RealCalls(r)) \in Nat \ {0}
        BY <2>1, RealTypes DEF AnswerWithCalls
      <3> QED BY <2>1, <3>1 DEF AnswerWithCalls
    <2>2. CASE AnswerEmpty(r)
      <3>1. NextTurn /\ UNCHANGED <<verifyRounds, stall, done, tasks>>
        BY <2>2 DEF AnswerEmpty
      <3> QED BY <3>1 DEF NextTurn, EndOfTurn
    <2>3. CASE AnswerEmptyAgain(r)
      <3>1. Return("error") /\ UNCHANGED <<step, verifyRounds, stall, done, tasks>>
        BY <2>3 DEF AnswerEmptyAgain
      <3> QED BY <3>1 DEF Return, EndOfTurn
    <2>4. CASE AnswerFinal(r)
      BY <2>4 DEF AnswerFinal, turn
    <2> QED BY <1>6, <2>1, <2>2, <2>3, <2>4 DEF Answer
  <1>7. CASE VerifyRetry
    BY <1>7 DEF VerifyRetry, NextTurn, EndOfTurn
  <1>8. CASE VerifyDone
    BY <1>8 DEF VerifyDone, Return, EndOfTurn
  <1>9. CASE Observe
    <2>1. batch[at] \in Calls /\ at \in 1 .. Len(batch)
      BY <1>9 DEF Observe, ObserveUpTo
    <2> QED BY <1>9, <2>1 DEF Observe, ObserveUpTo
  <1>10. CASE Dispatch
    <2>1. batch[at] \in Calls /\ at \in 1 .. Len(batch)
      BY <1>10 DEF Dispatch
    <2>2. Append(done, batch[at]) \in Seq(Calls)
      BY <2>1
    <2> QED BY <1>10, <2>1, <2>2 DEF Dispatch
  <1>11. CASE SettleAbort
    BY <1>11 DEF SettleAbort, Return, EndOfTurn
  <1>12. CASE SettleNudge
    BY <1>12 DEF SettleNudge, NextTurn, EndOfTurn
  <1>13. CASE Settle
    BY <1>13 DEF Settle, NextTurn, EndOfTurn
  <1>14. CASE Reset
    BY <1>14 DEF Reset, turn
  <1>15. CASE Restore
    BY <1>15 DEF Restore, turn
  <1>16. CASE Crash
    BY <1>16 DEF Crash, memory, turn
  <1>17. CASE Restart
    <2>1. NoStall \in [last : Calls \cup {NoCall}, count : Nat, nudged : BOOLEAN]
      BY DEF NoStall
    <2> QED BY <1>17, <2>1 DEF Restart, EndOfTurn
  <1>18. CASE UNCHANGED vars
    BY <1>18 DEF vars, memory, turn
  <1> QED BY <1>1, <1>2, <1>3, <1>4, <1>5, <1>6, <1>7, <1>8, <1>9, <1>10, <1>11, <1>12,
             <1>13, <1>14, <1>15, <1>16, <1>17, <1>18
          DEF Next, Run, Answer

TypeInv == StoreOK /\ ControlOK

\* The two parts that depend on each other, as an invariant.
LEMMA Typed == Spec => []TypeInv
  <1>1. Init => StoreOK
    <2>1. SUFFICES ASSUME Init PROVE StoreOK
      OBVIOUS
    <2>2. messages = <<SystemPrompt>> /\ disk = <<>> /\ fresh = <<>> /\ faults = 0
      BY <2>1 DEF Init
    <2>3. <<SystemPrompt>> # <<>>
      OBVIOUS
    <2>4. <<SystemPrompt>> \in Seq(Message) /\ <<>> \in Seq(Message)
      BY NewTypes
    <2> QED BY <2>2, <2>3, <2>4 DEF StoreOK
  <1>2. Init => ControlOK
    BY DEF Init, ControlOK, InBatch, NoStall, Modes, Outcomes
  <1>3. TypeInv /\ [Next]_vars => TypeInv'
    BY StoreTypes, ControlTypes DEF TypeInv
  <1> QED BY <1>1, <1>2, <1>3, PTL DEF Spec, TypeInv

\* TypeOK holds for every value of the constants.
THEOREM TypeCorrect == Spec => []TypeOK
  <1>1. Init => FlagsOK
    BY DEF Init, FlagsOK
  <1>2. Spec => []FlagsOK
    BY <1>1, FlagTypes, PTL DEF Spec
  <1>3. TypeInv /\ FlagsOK => TypeOK
    BY DEF TypeInv, StoreOK, ControlOK, FlagsOK, TypeOK
  <1> QED BY <1>2, <1>3, Typed, PTL
-----------------------------------------------------------------------------
(* The detector of repeated calls.  It remembers one call and one count;   *)
(* the property counts in the sequence of all calls made.  Seen is what    *)
(* the detector has looked at: the calls dispatched, and those of the      *)
(* current batch that were observed or are still to be dispatched.         *)

Seen ==
  IF mode = "observe" THEN done \o SubSeq(batch, 1, at - 1)
  ELSE IF mode = "dispatch" THEN done \o SubSeq(batch, at, Len(batch))
  ELSE done

Counted(s) ==
  /\ s = <<>> => stall.last = NoCall
  /\ s # <<>> => stall.last = s[Len(s)] /\ stall.count = RunAt(s, Len(s))
  /\ \A k \in 1 .. Len(s) : RunAt(s, k) < StallAbort

TooOften(s) == \E k \in 1 .. Len(s) : RunAt(s, k) >= StallAbort

StallInv ==
  /\ mode \in {"prompt", "stream", "verify", "observe"} => Counted(Seen)
  /\ mode \in {"dispatch", "settle"} => IF abort THEN TooOften(Seen) ELSE Counted(Seen)
  /\ outcome = "stalled" => mode \in {"idle", "down"} /\ TooOften(done)
\* A run of calls is counted in what precedes it: what follows is immaterial.
LEMMA RunInPrefix ==
  ASSUME NEW s \in Seq(Calls), NEW t \in Seq(Calls), Len(s) <= Len(t),
         \A i \in 1 .. Len(s) : t[i] = s[i],
         NEW k \in 1 .. Len(s)
  PROVE  RunAt(t, k) = RunAt(s, k)
  <1>1. \A i \in 1 .. k : \A n \in i .. k : t[n] = s[n] /\ t[k] = s[k]
    OBVIOUS
  <1>2. {i \in 1 .. k : \A n \in i .. k : t[n] = t[k]}
          = {i \in 1 .. k : \A n \in i .. k : s[n] = s[k]}
    BY <1>1
  <1> QED BY <1>2 DEF RunAt

\* The first call of a run counts one.
LEMMA RunBegins ==
  ASSUME NEW s \in Seq(Calls), NEW k \in 1 .. Len(s), k > 1 => s[k - 1] # s[k]
  PROVE  RunAt(s, k) = 1
  <1>1. {i \in 1 .. k : \A n \in i .. k : s[n] = s[k]} = {k}
    <2>1. ASSUME NEW i \in 1 .. k, \A n \in i .. k : s[n] = s[k]
          PROVE  i = k
      <3>1. i < k => k - 1 \in i .. k /\ k > 1
        OBVIOUS
      <3> QED BY <2>1, <3>1
    <2>2. \A n \in k .. k : s[n] = s[k]
      OBVIOUS
    <2> QED BY <2>1, <2>2
  <1> QED BY <1>1, FS_Singleton DEF RunAt

\* The same call once more counts one more.
LEMMA RunContinues ==
  ASSUME NEW s \in Seq(Calls), NEW k \in 1 .. Len(s), k > 1, s[k - 1] = s[k]
  PROVE  RunAt(s, k) = RunAt(s, k - 1) + 1
  <1> DEFINE Now    == {i \in 1 .. k : \A n \in i .. k : s[n] = s[k]}
             Before == {i \in 1 .. k - 1 : \A n \in i .. k - 1 : s[n] = s[k - 1]}
  <1>1. Now = Before \cup {k}
    <2>1. ASSUME NEW i \in 1 .. k - 1
          PROVE  i \in Now <=> i \in Before
      <3>1. i .. k = (i .. k - 1) \cup {k}
        OBVIOUS
      <3> QED BY <3>1
    <2>2. k \in Now
      OBVIOUS
    <2>3. 1 .. k = (1 .. k - 1) \cup {k}
      OBVIOUS
    <2> QED BY <2>1, <2>2, <2>3
  <1>2. k \notin Before
    OBVIOUS
  <1>3. IsFiniteSet(Before)
    <2>1. IsFiniteSet(1 .. k - 1)
      BY FS_Interval
    <2>2. Before \in SUBSET (1 .. k - 1)
      OBVIOUS
    <2> QED BY <2>1, <2>2, FS_Subset
  <1>4. Cardinality(Now) = Cardinality(Before) + 1
    BY <1>1, <1>2, <1>3, FS_AddElement
  <1> QED BY <1>4 DEF RunAt

\* One more call is looked at: what the detector then remembers is the count
\* of the longer sequence, which tells it exactly whether to stop.
LEMMA CountsOn ==
  ASSUME ControlOK, NEW s \in Seq(Calls), Counted(s), NEW c \in Calls,
         NEW n, n = IF c = stall.last THEN stall.count + 1 ELSE 1
  PROVE  LET t == Append(s, c) IN
         /\ t[Len(t)] = c /\ RunAt(t, Len(t)) = n
         /\ \A k \in 1 .. Len(s) : RunAt(t, k) < StallAbort
  <1> DEFINE t == Append(s, c)
  <1>1. /\ t \in Seq(Calls) /\ Len(t) = Len(s) + 1 /\ t[Len(t)] = c
        /\ \A i \in 1 .. Len(s) : t[i] = s[i]
    OBVIOUS
  <1> HIDE DEF t
  <1>2. \A k \in 1 .. Len(s) : RunAt(t, k) = RunAt(s, k)
    BY <1>1, RunInPrefix
  <1>3. CASE s = <<>>
    <2>1. stall.last # c
      BY <1>3, CompletionsAssumption DEF Counted
    <2>2. RunAt(t, Len(t)) = 1
      BY <1>1, <1>3, RunBegins
    <2> QED BY <1>1, <1>2, <1>3, <2>1, <2>2 DEF t
  <1>4. CASE s # <<>>
    <2>1. /\ Len(s) \in 1 .. Len(s) /\ Len(t) - 1 = Len(s) /\ t[Len(s)] = s[Len(s)]
          /\ Len(t) \in 1 .. Len(t) /\ Len(t) > 1
      BY <1>1, <1>4
    <2>2. stall.last = s[Len(s)] /\ stall.count = RunAt(s, Len(s))
      BY <1>4 DEF Counted
    <2>3. CASE c = stall.last
      <3>1. RunAt(t, Len(t)) = RunAt(t, Len(t) - 1) + 1
        BY <1>1, <2>1, <2>2, <2>3, RunContinues
      <3>2. RunAt(t, Len(t)) = n
        BY <1>2, <2>1, <2>2, <2>3, <3>1
      <3> QED BY <1>1, <1>2, <3>2 DEF Counted, t
    <2>4. CASE c # stall.last
      <3>1. RunAt(t, Len(t)) = 1
        BY <1>1, <2>1, <2>2, <2>4, RunBegins
      <3> QED BY <1>1, <1>2, <2>4, <3>1 DEF Counted, t
    <2> QED BY <2>3, <2>4
  <1> QED BY <1>3, <1>4
\* The calls made, observed and left are cut at any place.
LEMMA CallsAssociate == \A u, v, w \in Seq(Calls) : (u \o v) \o w = u \o (v \o w)
  BY ConcatAssociative

\* One more call is observed: the detector goes on counting, or it stops the
\* batch, which by then holds a run that is too long.
LEMMA ObserveCounts ==
  ASSUME ControlOK, StallInv, Observe
  PROVE  StallInv'
  <1> DEFINE c == batch[at]
             n == IF c = stall.last THEN stall.count + 1 ELSE 1
             s == done \o SubSeq(batch, 1, at - 1)
             t == done \o SubSeq(batch, 1, at)
             all == done \o batch
  <1>1. /\ mode = "observe" /\ done' = done /\ batch' = batch /\ outcome' = outcome
        /\ stall'.last = c /\ stall'.count = n /\ abort' = (n >= StallAbort)
    BY DEF Observe, ObserveUpTo
  <1>2. /\ batch \in Seq(Calls) /\ done \in Seq(Calls) /\ at \in 1 .. Len(batch)
        /\ c \in Calls
    BY <1>1 DEF ControlOK, InBatch
  <1>3. /\ s \in Seq(Calls) /\ t \in Seq(Calls) /\ t = Append(s, c) /\ t # <<>>
        /\ Len(t) = Len(s) + 1
    <2>1. SubSeq(batch, 1, at) = SubSeq(batch, 1, at - 1) \o <<c>>
      BY <1>2, SubSeqRecursiveSecond
    <2>2. SubSeq(batch, 1, at - 1) \in Seq(Calls) /\ <<c>> \in Seq(Calls)
      BY <1>2
    <2>3. t = s \o <<c>> /\ s \in Seq(Calls)
      <3>1. (done \o SubSeq(batch, 1, at - 1)) \o <<c>>
              = done \o (SubSeq(batch, 1, at - 1) \o <<c>>)
        BY <1>2, <2>2, CallsAssociate, Zenon
      <3> QED BY <1>2, <2>1, <2>2, <3>1
    <2>4. s \o <<c>> = Append(s, c)
      BY <1>2, <2>3, AppendIsConcat
    <2> HIDE DEF s, t
    <2> QED BY <1>2, <2>3, <2>4, AppendProperties
  <1>4. /\ all \in Seq(Calls) /\ Len(t) <= Len(all)
        /\ \A i \in 1 .. Len(t) : all[i] = t[i]
    BY <1>2
  <1>5. Counted(s)
    BY <1>1 DEF StallInv, Seen
  <1>6. outcome' # "stalled"
    BY <1>1 DEF StallInv
  <1>7. /\ SubSeq(batch, 1, Len(batch)) = batch
        /\ (at + 1) - 1 = at
    BY <1>2
  <1> HIDE DEF c, n, s, t, all
  <1>8. /\ t[Len(t)] = c /\ RunAt(t, Len(t)) = n
        /\ \A k \in 1 .. Len(s) : RunAt(t, k) < StallAbort
    BY <1>2, <1>3, <1>5, CountsOn DEF n
  <1>9. CASE n >= StallAbort
    <2>1. mode' = "dispatch" /\ at' = 1 /\ abort'
      BY <1>1, <1>9 DEF Observe, ObserveUpTo, c, n
    <2>2. Len(t) \in 1 .. Len(t) /\ Len(t) \in 1 .. Len(all)
      BY <1>3, <1>4
    <2>3. RunAt(all, Len(t)) >= StallAbort
      BY <1>3, <1>4, <1>8, <1>9, <2>2, RunInPrefix
    <2>4. TooOften(all)
      BY <2>2, <2>3 DEF TooOften
    <2>5. Seen' = all
      BY <1>1, <1>7, <2>1 DEF Seen, all
    <2>6. TooOften(Seen)'
      BY <2>4, <2>5 DEF TooOften, RunAt
    <2> QED BY <1>6, <2>1, <2>6 DEF StallInv
  <1>10. CASE ~(n >= StallAbort)
    <2>1. ~abort' /\ n \in Nat
      <3>1. n \in Nat
        BY DEF n, ControlOK
      <3> QED BY <1>1, <1>10, <3>1
    <2>2. \A k \in 1 .. Len(t) : RunAt(t, k) < StallAbort
      <3>1. StallAbort \in Nat
        BY LimitsAssumption
      <3>2. n < StallAbort
        BY <1>10, <2>1, <3>1
      <3> QED BY <1>3, <1>8, <3>2
    <2>3. \/ mode' = "observe" /\ at' = at + 1
          \/ mode' = "dispatch" /\ at' = 1 /\ at = Len(batch)
      BY <1>1, <1>10 DEF Observe, ObserveUpTo, c, n
    <2>4. Seen' = t
      BY <1>1, <1>7, <2>3 DEF Seen, t
    <2>5. Counted(Seen)'
      <3>1. /\ Seen' # <<>> /\ stall'.last = Seen'[Len(Seen')]
            /\ stall'.count = RunAt(Seen', Len(Seen'))
        BY <1>1, <1>3, <1>8, <2>4
      <3>2. \A k \in 1 .. Len(Seen') : RunAt(Seen', k) < StallAbort
        BY <2>2, <2>4
      <3> QED BY <3>1, <3>2 DEF Counted, RunAt
    <2> QED BY <1>6, <2>1, <2>3, <2>5 DEF StallInv
  <1> QED BY <1>9, <1>10

\* Dispatching a call moves it from the batch to the calls made: what was
\* looked at stays the same.
LEMMA DispatchCounts ==
  ASSUME ControlOK, StallInv, Dispatch
  PROVE  StallInv'
  <1>1. /\ mode = "dispatch" /\ done' = Append(done, batch[at]) /\ batch' = batch
        /\ at' = at + 1 /\ stall' = stall /\ abort' = abort /\ outcome' = outcome
        /\ mode' = IF at = Len(batch) THEN "settle" ELSE "dispatch"
    BY DEF Dispatch
  <1>2. batch \in Seq(Calls) /\ done \in Seq(Calls) /\ at \in 1 .. Len(batch)
    BY <1>1 DEF ControlOK, InBatch
  <1>3. Seen' = Seen
    <2>1. /\ Seen = done \o SubSeq(batch, at, Len(batch))
          /\ done' = done \o <<batch[at]>>
      BY <1>1, <1>2, AppendIsConcat DEF Seen
    <2>2. SubSeq(batch, at, Len(batch)) = <<batch[at]>> \o SubSeq(batch, at + 1, Len(batch))
      BY <1>2, SubSeqRecursiveFirst
    <2>3. <<batch[at]>> \in Seq(Calls) /\ SubSeq(batch, at + 1, Len(batch)) \in Seq(Calls)
      BY <1>2
    <2>4. Seen = done' \o SubSeq(batch, at + 1, Len(batch))
      <3>1. (done \o <<batch[at]>>) \o SubSeq(batch, at + 1, Len(batch))
              = done \o (<<batch[at]>> \o SubSeq(batch, at + 1, Len(batch)))
        BY <1>2, <2>3, CallsAssociate, Zenon
      <3> QED BY <2>1, <2>2, <3>1
    <2>5. CASE at = Len(batch)
      <3>1. SubSeq(batch, at + 1, Len(batch)) = <<>>
        BY <1>2, <2>5
      <3>2. done' \in Seq(Calls)
        BY <1>1, <1>2
      <3>3. Seen = done'
        BY <2>4, <3>1, <3>2, ConcatEmptySeq
      <3> QED BY <1>1, <2>5, <3>3 DEF Seen
    <2>6. CASE at # Len(batch)
      BY <1>1, <2>4, <2>6 DEF Seen
    <2> QED BY <2>5, <2>6
  <1>4. IF abort THEN TooOften(Seen) ELSE Counted(Seen)
    BY <1>1 DEF StallInv
  <1>5. IF abort' THEN TooOften(Seen)' ELSE Counted(Seen)'
    BY <1>1, <1>3, <1>4 DEF TooOften, Counted, RunAt
  <1>6. outcome' # "stalled"
    BY <1>1 DEF StallInv
  <1> QED BY <1>1, <1>5, <1>6 DEF StallInv

\* A step that neither observes nor dispatches keeps what was looked at.
LEMMA StallSame ==
  ASSUME StallInv, UNCHANGED <<done, stall>>,
         mode \in {"prompt", "stream", "verify"} \/ (mode = "settle" /\ ~abort),
         mode' \in {"prompt", "stream", "verify", "idle"}, outcome' # "stalled"
  PROVE  StallInv'
  <1>1. Counted(done)
    BY DEF StallInv, Seen
  <1>2. Counted(done)'
    BY <1>1 DEF Counted, RunAt
  <1>3. mode' \in {"prompt", "stream", "verify"} => Seen' = done'
    BY DEF Seen
  <1> QED BY <1>2, <1>3 DEF StallInv

\* Every step keeps the detector in agreement with the calls.
LEMMA StallStep ==
  ASSUME ControlOK, StallInv, [Next]_vars
  PROVE  StallInv'
  <1> USE DEF Return, NextTurn
  <1>0. Counted(<<>>)' <=> stall'.last = NoCall
    BY DEF Counted
  <1>1. CASE Submit
    <2>1. mode' = "prompt" /\ done' = <<>> /\ outcome' = "none" /\ stall'.last = NoCall
      BY <1>1 DEF Submit, NoStall
    <2>2. Seen' = <<>>
      BY <2>1 DEF Seen
    <2> QED BY <1>0, <2>1, <2>2 DEF StallInv
  <1>2. CASE StepLimit \/ StreamFails
    BY <1>2, StallSame DEF StepLimit, StreamFails
  <1>3. CASE SkipCompaction \/ Compact
    <2>1. outcome # "stalled"
      BY <1>3 DEF StallInv, SkipCompaction, Compact
    <2> QED BY <1>3, <2>1, StallSame DEF SkipCompaction, Compact, memory
  <1>4. ASSUME NEW r \in Completions, Answer(r)
        PROVE  StallInv'
    <2>0. mode = "stream" /\ outcome # "stalled"
      BY <1>4 DEF Answer, AnswerWithCalls, AnswerEmpty, AnswerEmptyAgain, AnswerFinal, StallInv
    <2>1. CASE AnswerWithCalls(r)
      <3>1. /\ mode' = "observe" /\ at' = 1 /\ batch' = RealCalls(r)
            /\ done' = done /\ stall' = stall /\ outcome' = outcome
        BY <2>1 DEF AnswerWithCalls
      <3>2. Seen' = done
        <4>1. SubSeq(batch', 1, at' - 1) = <<>>
          BY <3>1
        <4>2. done \o <<>> = done
          BY DEF ControlOK
        <4> QED BY <3>1, <4>1, <4>2 DEF Seen
      <3>3. Counted(done)
        BY <2>0 DEF StallInv, Seen
      <3>4. Counted(Seen)'
        BY <3>1, <3>2, <3>3 DEF Counted, RunAt
      <3> QED BY <2>0, <3>1, <3>4 DEF StallInv
    <2>2. CASE AnswerEmpty(r)
      BY <2>0, <2>2, StallSame DEF AnswerEmpty
    <2>3. CASE AnswerEmptyAgain(r)
      BY <2>0, <2>3, StallSame DEF AnswerEmptyAgain
    <2>4. CASE AnswerFinal(r)
      BY <2>0, <2>4, StallSame DEF AnswerFinal
    <2> QED BY <1>4, <2>1, <2>2, <2>3, <2>4 DEF Answer
  <1>5. CASE VerifyRetry \/ VerifyDone
    <2>1. outcome # "stalled"
      BY <1>5 DEF StallInv, VerifyRetry, VerifyDone
    <2> QED BY <1>5, <2>1, StallSame DEF VerifyRetry, VerifyDone
  <1>6. CASE Observe
    BY <1>6, ObserveCounts
  <1>7. CASE Dispatch
    BY <1>7, DispatchCounts
  <1>8. CASE SettleAbort
    <2>1. /\ mode = "settle" /\ abort /\ done' = done
          /\ mode' = "idle" /\ outcome' = "stalled"
      BY <1>8 DEF SettleAbort
    <2>2. TooOften(done)
      BY <2>1 DEF StallInv, Seen
    <2> QED BY <2>1, <2>2 DEF StallInv, TooOften, RunAt
  <1>9. CASE SettleNudge \/ Settle
    <2>1. outcome # "stalled"
      BY <1>9 DEF StallInv, SettleNudge, Settle
    <2> QED BY <1>9, <2>1, StallSame DEF SettleNudge, Settle
  <1>10. CASE Reset \/ Restore \/ Crash
    <2>1. /\ mode' \in {"idle", "down"} /\ done' = done /\ outcome' = outcome
          /\ outcome = "stalled" => TooOften(done)
      BY <1>10 DEF Reset, Restore, Crash, StallInv
    <2> QED BY <2>1 DEF StallInv, TooOften, RunAt
  <1>11. CASE Restart
    BY <1>11 DEF Restart, StallInv
  <1>12. CASE UNCHANGED vars
    <2>1. /\ mode' = mode /\ outcome' = outcome /\ done' = done /\ batch' = batch
          /\ at' = at /\ stall' = stall /\ abort' = abort
      BY <1>12 DEF vars, memory, turn
    <2>2. Seen' = Seen
      BY <2>1 DEF Seen
    <2>3. (Counted(Seen)' <=> Counted(Seen)) /\ (TooOften(Seen)' <=> TooOften(Seen))
      BY <2>1, <2>2 DEF Counted, TooOften, RunAt
    <2>4. TooOften(done)' <=> TooOften(done)
      BY <2>1 DEF TooOften, RunAt
    <2>5. abort' <=> abort
      BY <2>1
    <2> QED BY <2>1, <2>3, <2>4, <2>5 DEF StallInv
  <1> QED BY <1>1, <1>2, <1>3, <1>4, <1>5, <1>6, <1>7, <1>8, <1>9, <1>10, <1>11, <1>12
          DEF Next, Run

\* No turn of the model is asked for after a call was made too often in a
\* row, and only such a call stops a task as stalled: the detector, which
\* keeps one call and one count, agrees with the whole sequence of calls.
THEOREM StallsAreDetected == Spec => []StallIsStopped
  <1>1. Init => StallInv
    <2>1. Init => mode = "idle" /\ outcome = "none"
      BY DEF Init
    <2> QED BY <2>1 DEF StallInv
  <1>2. Spec => []StallInv
    <2>1. TypeInv => ControlOK
      BY DEF TypeInv
    <2> QED BY <1>1, <2>1, StallStep, Typed, PTL DEF Spec
  <1>3. StallInv => StallIsStopped
    <2>1. SUFFICES ASSUME StallInv PROVE StallIsStopped
      OBVIOUS
    <2>2. mode \in {"prompt", "stream"} => Counted(done)
      BY <2>1 DEF StallInv, Seen
    <2>3. outcome = "stalled" => TooOften(done)
      BY <2>1 DEF StallInv
    <2> QED BY <2>2, <2>3 DEF StallIsStopped, Counted, TooOften
  <1> QED BY <1>2, <1>3, PTL

-----------------------------------------------------------------------------
(***************************************************************************)
(* The transcript stays well formed: whatever the model answers, wherever  *)
(* the transcript is compacted and whenever the process crashes, every     *)
(* result follows the turn that asked for it, and what is on disk is a     *)
(* transcript a session can resume from.                                   *)
(***************************************************************************)

-----------------------------------------------------------------------------
(* Pairing in a transcript that grows *)

\* m is a prefix of n.
Grows(m, n) == Len(m) <= Len(n) /\ \A i \in 1 .. Len(m) : n[i] = m[i]

\* A message that asks for nothing and answers nothing.
Plain(x) == x.role # "tool" /\ (x.role = "assistant" => x.calls = <<>>)

\* What was issued stays issued.
LEMMA IssuedGrows ==
  ASSUME NEW m \in Seq(Message), NEW n \in Seq(Message), Grows(m, n),
         NEW i \in 1 .. Len(m), NEW j \in 1 .. i - 1, Issued(m, j, i)
  PROVE  Issued(n, j, i)
  <1>1. n[i] = m[i] /\ n[j] = m[j]
    BY DEF Grows
  <1>2. \A k \in j + 1 .. i : n[k] = m[k]
    BY DEF Grows
  <1> QED BY <1>1, <1>2 DEF Issued

\* Results keep their calls when a message that is not a result is appended.
LEMMA ResultsGrow ==
  ASSUME NEW m \in Seq(Message), NEW n \in Seq(Message), Grows(m, n),
         ResultsHaveCalls(m),
         \A i \in Len(m) + 1 .. Len(n) : n[i].role # "tool"
  PROVE  ResultsHaveCalls(n)
  <1>1. SUFFICES ASSUME NEW i \in 1 .. Len(n), n[i].role = "tool"
                 PROVE  \E j \in 1 .. i - 1 : Issued(n, j, i)
    BY DEF ResultsHaveCalls
  <1>2. i \in 1 .. Len(m) /\ n[i] = m[i]
    BY <1>1 DEF Grows
  <1>3. PICK j \in 1 .. i - 1 : Issued(m, j, i)
    BY <1>1, <1>2 DEF ResultsHaveCalls
  <1> QED BY <1>2, <1>3, IssuedGrows

\* Calls keep their results whatever is appended.
LEMMA CallsGrow ==
  ASSUME NEW m \in Seq(Message), NEW n \in Seq(Message), Grows(m, n),
         NEW l \in Nat, l <= Len(m), CallsHaveResults(m, l)
  PROVE  CallsHaveResults(n, l)
  <1>1. SUFFICES ASSUME NEW j \in 1 .. l, NEW k \in 1 .. Len(n[j].calls),
                        n[j].role = "assistant"
                 PROVE  j + k <= Len(n) /\ n[j + k].role = "tool"
    BY DEF CallsHaveResults
  <1>2. n[j] = m[j]
    BY DEF Grows
  <1>3. j + k <= Len(m) /\ m[j + k].role = "tool"
    BY <1>1, <1>2 DEF CallsHaveResults
  <1>4. n[j] \in Message /\ k \in Nat /\ j + k \in 1 .. Len(m)
    <2>1. n[j] \in Message
      BY DEF Grows
    <2>2. n[j].calls \in Seq(Calls)
      BY <2>1 DEF Message
    <2> QED BY <1>3, <2>1, <2>2
  <1> QED BY <1>3, <1>4 DEF Grows

\* Plain messages complete the pairing of a complete transcript.
LEMMA PlainGrows ==
  ASSUME NEW m \in Seq(Message), NEW n \in Seq(Message), Grows(m, n),
         ResultsHaveCalls(m), CallsHaveResults(m, Len(m)),
         \A i \in Len(m) + 1 .. Len(n) : Plain(n[i])
  PROVE  ResultsHaveCalls(n) /\ CallsHaveResults(n, Len(n))
  <1>1. ResultsHaveCalls(n)
    BY ResultsGrow DEF Plain
  <1>2. CallsHaveResults(n, Len(m))
    BY CallsGrow
  <1>3. SUFFICES ASSUME NEW j \in 1 .. Len(n), NEW k \in 1 .. Len(n[j].calls),
                        n[j].role = "assistant"
                 PROVE  j + k <= Len(n) /\ n[j + k].role = "tool"
    BY <1>1 DEF CallsHaveResults
  <1>4. CASE j \in 1 .. Len(m)
    BY <1>2, <1>3, <1>4 DEF CallsHaveResults
  <1>5. CASE j \in Len(m) + 1 .. Len(n)
    <2>1. n[j].calls = <<>>
      BY <1>3, <1>5 DEF Plain
    <2> QED BY <2>1
  <1> QED BY <1>4, <1>5

\* The turn at j asked for the calls b; its first p results are there.
Pending(m, j, b, p) ==
  /\ j \in 1 .. Len(m) /\ Len(m) = j + p
  /\ m[j].role = "assistant" /\ m[j].calls = b
  /\ \A k \in j + 1 .. Len(m) : m[k].role = "tool"
  /\ CallsHaveResults(m, j - 1)

\* The next result belongs to the pending turn.
LEMMA ResultGrows ==
  ASSUME NEW m \in Seq(Message), NEW n \in Seq(Message), Grows(m, n),
         NEW b \in Seq(Calls), NEW p \in Nat, p < Len(b), NEW j \in Nat,
         Pending(m, j, b, p), ResultsHaveCalls(m),
         Len(n) = Len(m) + 1, n[Len(n)] = ToolResult(b[p + 1])
  PROVE  ResultsHaveCalls(n) /\ Pending(n, j, b, p + 1)
  <1>1. j \in 1 .. Len(m) /\ Len(m) = j + p /\ n[j] = m[j]
    BY DEF Pending, Grows
  <1>2. \A k \in j + 1 .. Len(n) : n[k].role = "tool"
    <2>1. TAKE k \in j + 1 .. Len(n)
    <2>2. CASE k = Len(n)
      BY <2>2 DEF ToolResult
    <2>3. CASE k # Len(n)
      BY <1>1, <2>3 DEF Pending, Grows
    <2> QED BY <2>2, <2>3
  <1>3. Pending(n, j, b, p + 1)
    <2>1. CallsHaveResults(n, j - 1)
      BY <1>1, CallsGrow DEF Pending
    <2> QED BY <1>1, <1>2, <2>1 DEF Pending
  <1>4. SUFFICES ASSUME NEW i \in 1 .. Len(n), n[i].role = "tool"
                 PROVE  \E q \in 1 .. i - 1 : Issued(n, q, i)
    BY <1>3 DEF ResultsHaveCalls
  <1>5. CASE i = Len(n)
    <2>0. i - j = p + 1
      BY <1>1, <1>5
    <2>1. n[i].calls = <<b[i - j]>>
      BY <1>5, <2>0 DEF ToolResult
    <2>2. Issued(n, j, i)
      BY <1>1, <1>2, <1>3, <1>5, <2>0, <2>1 DEF Issued, Pending
    <2> QED BY <1>1, <1>5, <2>2
  <1>6. CASE i # Len(n)
    <2>1. i \in 1 .. Len(m) /\ n[i] = m[i]
      BY <1>6 DEF Grows
    <2>2. PICK q \in 1 .. i - 1 : Issued(m, q, i)
      BY <1>4, <2>1 DEF ResultsHaveCalls
    <2> QED BY <2>1, <2>2, IssuedGrows
  <1> QED BY <1>5, <1>6

\* A turn with all its results is complete.
LEMMA TurnCompletes ==
  ASSUME NEW m \in Seq(Message), NEW b \in Seq(Calls), NEW j \in Nat,
         Pending(m, j, b, Len(b))
  PROVE  CallsHaveResults(m, Len(m))
  <1>1. SUFFICES ASSUME NEW i \in 1 .. Len(m), NEW k \in 1 .. Len(m[i].calls),
                        m[i].role = "assistant"
                 PROVE  i + k <= Len(m) /\ m[i + k].role = "tool"
    BY DEF CallsHaveResults
  <1>2. CASE i < j
    BY <1>1, <1>2 DEF Pending, CallsHaveResults
  <1>3. CASE i = j
    BY <1>3 DEF Pending
  <1>4. CASE i > j
    BY <1>1, <1>4 DEF Pending
  <1> QED BY <1>2, <1>3, <1>4

\* Compaction drops whole turns: the tail it keeps does not begin with a
\* result, so the turn of every result it keeps is kept with it.
LEMMA TailIsPaired ==
  ASSUME NEW m \in Seq(Message), NEW n \in Seq(Message), NEW f \in 3 .. Len(m),
         m[f].role # "tool", ResultsHaveCalls(m), CallsHaveResults(m, Len(m)),
         Len(n) = Len(m) - f + 3, Plain(n[1]), Plain(n[2]),
         \A i \in 3 .. Len(n) : n[i] = m[i + f - 3]
  PROVE  ResultsHaveCalls(n) /\ CallsHaveResults(n, Len(n))
  <1>1. ResultsHaveCalls(n)
    <2>1. SUFFICES ASSUME NEW i \in 1 .. Len(n), n[i].role = "tool"
                   PROVE  \E j \in 1 .. i - 1 : Issued(n, j, i)
      BY DEF ResultsHaveCalls
    <2>2. i \in 3 .. Len(n) /\ n[i] = m[i + f - 3] /\ i + f - 3 \in 1 .. Len(m)
      BY <2>1 DEF Plain
    <2>3. PICK j \in 1 .. i + f - 4 : Issued(m, j, i + f - 3)
      BY <2>1, <2>2 DEF ResultsHaveCalls
    <2>4. j >= f
      BY <2>2, <2>3 DEF Issued
    <2>5. j - f + 3 \in 3 .. i - 1 /\ n[j - f + 3] = m[j]
      <3>1. j - f + 3 \in 3 .. Len(n) /\ j - f + 3 \in 3 .. i - 1
        BY <2>2, <2>3, <2>4
      <3>2. n[j - f + 3] = m[(j - f + 3) + f - 3]
        BY <3>1
      <3>3. (j - f + 3) + f - 3 = j
        BY <2>3
      <3> QED BY <3>1, <3>2, <3>3
    <2>6. \A k \in j - f + 4 .. i :
            k \in 3 .. Len(n) /\ k + f - 3 \in j + 1 .. i + f - 3
      BY <2>2, <2>3, <2>4
    <2>7. Issued(n, j - f + 3, i)
      <3>1. (i + f - 3) - j = i - (j - f + 3)
        <4>1. i \in Int /\ f \in Int /\ j \in Int
          BY <2>2, <2>3
        <4> QED BY <4>1
      <3>2. ASSUME NEW k \in (j - f + 3) + 1 .. i
            PROVE  n[k].role = "tool"
        <4>1. k \in 3 .. Len(n) /\ k + f - 3 \in j + 1 .. i + f - 3
          BY <2>3, <2>6
        <4>2. m[k + f - 3].role = "tool"
          BY <2>3, <4>1 DEF Issued
        <4> QED BY <4>1, <4>2
      <3> QED BY <2>2, <2>3, <2>5, <3>1, <3>2 DEF Issued
    <2> QED BY <2>5, <2>7
  <1>2. SUFFICES ASSUME NEW j \in 1 .. Len(n), NEW k \in 1 .. Len(n[j].calls),
                        n[j].role = "assistant"
                 PROVE  j + k <= Len(n) /\ n[j + k].role = "tool"
    BY <1>1 DEF CallsHaveResults
  <1>3. j \in 3 .. Len(n)
    <2>1. j = 1 \/ j = 2 => n[j].calls = <<>>
      BY <1>2 DEF Plain
    <2> QED BY <2>1
  <1>4. n[j] = m[j + f - 3] /\ j + f - 3 \in 1 .. Len(m)
    BY <1>3
  <1>5. (j + f - 3) + k <= Len(m) /\ m[(j + f - 3) + k].role = "tool"
    BY <1>2, <1>4 DEF CallsHaveResults
  <1>6. k \in Nat \ {0}
    <2>1. n[j] \in Message
      OBVIOUS
    <2>2. n[j].calls \in Seq(Calls)
      BY <2>1 DEF Message
    <2> QED BY <2>2
  <1>7. j + k \in 3 .. Len(n) /\ n[j + k] = m[(j + f - 3) + k]
    <2>0. j \in Int /\ k \in Int /\ j >= 3 /\ k >= 1 /\ (j + f - 3) + k <= Len(m)
      BY <1>3, <1>5, <1>6
    <2>1. j + k \in 3 .. Len(n) /\ (j + k) + f - 3 = (j + f - 3) + k
      BY <2>0
    <2>2. n[j + k] = m[(j + k) + f - 3]
      BY <2>1
    <2> QED BY <2>1, <2>2
  <1> QED BY <1>5, <1>7

-----------------------------------------------------------------------------
(* The invariant.  Between turns the transcript is complete; while a turn  *)
(* is executed its calls are pending, and what precedes it is complete.    *)

Resumable(m) ==
  m[1] = SystemPrompt /\ ResultsHaveCalls(m) /\ CallsHaveResults(m, Len(m))

PairInv ==
  /\ messages[1] = SystemPrompt /\ ResultsHaveCalls(messages)
  /\ mode \notin {"observe", "dispatch", "down"} => CallsHaveResults(messages, Len(messages))
  /\ mode = "observe" => \E j \in Nat : Pending(messages, j, batch, 0)
  /\ mode = "dispatch" => \E j \in Nat : Pending(messages, j, batch, at - 1)
  /\ disk # <<>> => Resumable(disk)

\* What appending does, element by element.
LEMMA Appended ==
  ASSUME NEW m \in Seq(Message), NEW new \in Seq(Message)
  PROVE  /\ m \o new \in Seq(Message)
         /\ Grows(m, m \o new)
         /\ Len(m \o new) = Len(m) + Len(new)
         /\ \A i \in Len(m) + 1 .. Len(m \o new) :
              i - Len(m) \in 1 .. Len(new) /\ (m \o new)[i] = new[i - Len(m)]
  BY DEF Grows

\* A transcript of the system prompt alone is complete.
LEMMA FreshIsResumable ==
  ASSUME NEW m, Len(m) = 1, m[1] = SystemPrompt
  PROVE  Resumable(m)
  <1>1. SystemPrompt.role = "system"
    BY DEF SystemPrompt
  <1>2. ResultsHaveCalls(m)
    BY <1>1 DEF ResultsHaveCalls
  <1>3. CallsHaveResults(m, 1)
    BY <1>1 DEF CallsHaveResults
  <1> QED BY <1>2, <1>3 DEF Resumable

\* The transcript of a new session.
LEMMA NewSessionIsResumable == Resumable(<<SystemPrompt>>)
  BY FreshIsResumable

\* Plain messages appended to a complete transcript leave a complete one, in
\* memory and on disk, whether or not it could be saved.
LEMMA PlainStep ==
  ASSUME StoreOK, Resumable(messages), disk # <<>> => Resumable(disk),
         NEW new \in Seq(Message), \A i \in 1 .. Len(new) : Plain(new[i]),
         SayAndSave(new) \/ Say(new)
  PROVE  Resumable(messages') /\ (disk' # <<>> => Resumable(disk'))
  <1>1. messages' = messages \o new
    BY DEF SayAndSave, Say
  <1>2. disk' = messages' \/ disk' = disk
    BY DEF SayAndSave, Say, Saved
  <1>3. messages \in Seq(Message) /\ messages # <<>>
    BY DEF StoreOK
  <1>4. Grows(messages, messages') /\ messages' \in Seq(Message)
    BY <1>1, <1>3, Appended
  <1>5. \A i \in Len(messages) + 1 .. Len(messages') : Plain(messages'[i])
    BY <1>1, <1>3, Appended
  <1>6. ResultsHaveCalls(messages') /\ CallsHaveResults(messages', Len(messages'))
    BY <1>3, <1>4, <1>5, PlainGrows DEF Resumable
  <1>7. messages'[1] = SystemPrompt
    BY <1>3, <1>4 DEF Resumable, Grows
  <1>8. Resumable(messages')
    BY <1>6, <1>7 DEF Resumable
  <1> QED BY <1>2, <1>8

\* The messages of the loop that are not a turn of calls or a result.
LEMMA PlainMessages ==
  /\ \A t \in Texts : Plain(User(t)) /\ Plain(Assistant(t, <<>>))
  /\ Plain(SystemPrompt) /\ Plain(Summary)
  BY DEF Plain, User, Assistant, SystemPrompt, Summary

\* The pieces the loop appends that are no turn of calls and no result.
LEMMA PlainPieces ==
  /\ \A i \in 1 .. Len(<<>>) : Plain((<<>>)[i])
  /\ \A t \in Texts : \A i \in 1 .. Len(<<User(t)>>) : Plain((<<User(t)>>)[i])
  /\ \A t \in Texts : \A i \in 1 .. Len(<<Assistant(t, <<>>)>>) : Plain((<<Assistant(t, <<>>)>>)[i])
  /\ \A i \in 1 .. Len(<<Assistant("", <<>>), User("empty")>>) :
       Plain(<<Assistant("", <<>>), User("empty")>>[i])
  <1>1. \A i \in 1 .. Len(<<>>) : Plain((<<>>)[i])
    OBVIOUS
  <1>2. ASSUME NEW x, Plain(x) PROVE \A i \in 1 .. Len(<<x>>) : Plain((<<x>>)[i])
    BY <1>2
  <1>3. ASSUME NEW x, NEW y, Plain(x), Plain(y)
        PROVE  \A i \in 1 .. Len(<<x, y>>) : Plain((<<x, y>>)[i])
    BY <1>3
  <1>4. Plain(Assistant("", <<>>)) /\ Plain(User("empty"))
    BY PlainMessages DEF Texts
  <1> QED BY <1>1, <1>2, <1>3, <1>4, PlainMessages

-----------------------------------------------------------------------------
(* Every step preserves the invariant *)

\* A step that appends plain messages and does not end inside a turn.
LEMMA PlainPreserves ==
  ASSUME StoreOK, PairInv, mode \notin {"observe", "dispatch", "down"},
         mode' \notin {"observe", "dispatch"},
         NEW new \in Seq(Message), \A i \in 1 .. Len(new) : Plain(new[i]),
         SayAndSave(new) \/ Say(new)
  PROVE  PairInv'
  <1>1. Resumable(messages) /\ (disk # <<>> => Resumable(disk))
    BY DEF PairInv, Resumable
  <1>2. Resumable(messages') /\ (disk' # <<>> => Resumable(disk'))
    BY <1>1, PlainStep
  <1> QED BY <1>2 DEF PairInv, Resumable

\* A step that leaves the transcript, memory's and disk's, as it is.
LEMMA QuietPreserves ==
  ASSUME PairInv, mode \notin {"observe", "dispatch", "down"} \/ mode' = "down",
         mode' \notin {"observe", "dispatch"}, UNCHANGED <<messages, disk>>
  PROVE  PairInv'
  BY DEF PairInv, Resumable

\* What compaction makes of a transcript, element by element.
LEMMA CompactShape ==
  ASSUME messages \in Seq(Message), messages # <<>>, Compact
  PROVE  \E f \in 3 .. Len(messages) :
           /\ messages[f].role # "tool"
           /\ f <= Len(messages) - KeepRecent + 1 /\ f - 2 >= MinEvict
           /\ messages' \in Seq(Message)
           /\ Len(messages') = Len(messages) - f + 3
           /\ messages'[1] = messages[1] /\ messages'[2] = Summary
           /\ \A i \in 3 .. Len(messages') : messages'[i] = messages[i + f - 3]
  <1>1. PICK f \in 2 .. Len(messages) :
           /\ FirstKept(messages, f)
           /\ f >= 3 /\ f - 2 >= MinEvict
           /\ messages' = <<messages[1], Summary>> \o SubSeq(messages, f, Len(messages))
    BY DEF Compact
  <1> DEFINE head == <<messages[1], Summary>>
             tail == SubSeq(messages, f, Len(messages))
  <1>2. /\ f \in 3 .. Len(messages) /\ messages[f].role # "tool"
        /\ f <= Len(messages) - KeepRecent + 1
    <2>1. KeepRecent \in Nat \ {0} /\ MinEvict \in Nat /\ MinEvict >= 2
      BY LimitsAssumption
    <2>2. f \in 2 .. Len(messages) - KeepRecent + 1 /\ (messages[f].role = "tool" => f = 2)
      BY <1>1 DEF FirstKept
    <2> QED BY <1>1, <2>1, <2>2
  <1>3. head \in Seq(Message) /\ Len(head) = 2 /\ head[1] = messages[1] /\ head[2] = Summary
    <2>1. messages[1] \in Message /\ Summary \in Message
      BY MessageTypes
    <2> QED BY <2>1
  <1>4. /\ tail \in Seq(Message) /\ Len(tail) = Len(messages) - f + 1
        /\ \A i \in 1 .. Len(tail) : tail[i] = messages[i + f - 1]
    BY <1>2
  <1>5. messages' = head \o tail
    BY <1>1
  <1> HIDE DEF head, tail
  <1>6. /\ messages' \in Seq(Message) /\ Len(messages') = Len(messages) - f + 3
        /\ messages'[1] = messages[1] /\ messages'[2] = Summary
    <2>1. /\ head \o tail \in Seq(Message) /\ Len(head \o tail) = 2 + Len(tail)
          /\ (head \o tail)[1] = head[1] /\ (head \o tail)[2] = head[2]
      <3>1. head \in Seq(Message) /\ tail \in Seq(Message) /\ Len(head) = 2
        BY <1>3, <1>4
      <3>2. /\ head \o tail \in Seq(Message) /\ Grows(head, head \o tail)
            /\ Len(head \o tail) = Len(head) + Len(tail)
        BY <3>1, Appended
      <3> QED BY <3>1, <3>2 DEF Grows
    <2> QED BY <1>2, <1>3, <1>4, <1>5, <2>1
  <1>7. ASSUME NEW i \in 3 .. Len(messages')
        PROVE  messages'[i] = messages[i + f - 3]
    <2>1. i - 2 \in 1 .. Len(tail) /\ (i - 2) + f - 1 = i + f - 3
      <3>1. Len(messages) \in Nat /\ f \in Int /\ i \in Int
        BY <1>1, <1>6
      <3>2. 3 <= i /\ i <= Len(messages) - f + 3
        BY <1>6
      <3> QED BY <1>4, <3>1, <3>2
    <2>2. messages'[i] = tail[i - 2]
      <3>1. i \in 3 .. Len(head) + Len(tail)
        BY <1>2, <1>3, <1>4, <1>6
      <3>2. (head \o tail)[i] = tail[i - 2]
        <4>1. /\ Len(head \o tail) = Len(head) + Len(tail)
              /\ \A k \in Len(head) + 1 .. Len(head \o tail) :
                   (head \o tail)[k] = tail[k - Len(head)]
          BY <1>3, <1>4, Appended
        <4> QED BY <1>3, <3>1, <4>1
      <3> QED BY <1>5, <3>2
    <2>3. tail[i - 2] = messages[(i - 2) + f - 1]
      BY <1>4, <2>1
    <2> QED BY <2>1, <2>2, <2>3
  <1> QED BY <1>1, <1>2, <1>6, <1>7

\* Compaction keeps the transcript complete: it runs between two turns only.
LEMMA CompactPreserves ==
  ASSUME TypeInv, PairInv, Compact
  PROVE  PairInv'
  <1>1. messages \in Seq(Message) /\ messages # <<>>
    BY DEF TypeInv, StoreOK
  <1>2. PICK f \in 3 .. Len(messages) :
          /\ messages[f].role # "tool"
          /\ messages' \in Seq(Message)
          /\ Len(messages') = Len(messages) - f + 3
          /\ messages'[1] = messages[1] /\ messages'[2] = Summary
          /\ \A i \in 3 .. Len(messages') : messages'[i] = messages[i + f - 3]
    BY <1>1, CompactShape
  <1>3. /\ messages[1] = SystemPrompt
        /\ ResultsHaveCalls(messages) /\ CallsHaveResults(messages, Len(messages))
    BY DEF PairInv, Compact
  <1>4. ResultsHaveCalls(messages') /\ CallsHaveResults(messages', Len(messages'))
    BY <1>1, <1>2, <1>3, TailIsPaired, PlainMessages
  <1>5. mode' = "stream" /\ disk' = disk
    BY DEF Compact, store
  <1> QED BY <1>2, <1>3, <1>4, <1>5 DEF PairInv, Resumable

\* A turn of calls is recorded: its calls are pending.
LEMMA CallsPreserve ==
  ASSUME TypeInv, PairInv, NEW r \in Completions, AnswerWithCalls(r)
  PROVE  PairInv'
  <1> DEFINE x == Assistant(RealText(r), RealCalls(r))
  <1>1. x \in Message /\ x.role = "assistant" /\ x.calls = RealCalls(r)
    <2>1. x \in Message
      BY RealTypes, MessageTypes
    <2> QED BY <2>1 DEF Assistant
  <1>2. messages \in Seq(Message) /\ messages # <<>>
    BY DEF TypeInv, StoreOK
  <1>3. /\ messages' = messages \o <<x>> /\ disk' = disk
        /\ batch' = RealCalls(r) /\ mode' = "observe" /\ mode = "stream"
    BY DEF AnswerWithCalls, Say
  <1> HIDE DEF x
  <1>4. /\ messages' \in Seq(Message) /\ Len(messages') = Len(messages) + 1
        /\ Grows(messages, messages') /\ messages'[Len(messages) + 1] = x
    BY <1>1, <1>2, <1>3, CatOne DEF Grows
  <1>5. ResultsHaveCalls(messages) /\ CallsHaveResults(messages, Len(messages))
    BY <1>3 DEF PairInv
  <1>6. ResultsHaveCalls(messages')
    <2>1. \A i \in Len(messages) + 1 .. Len(messages') : messages'[i].role # "tool"
      BY <1>1, <1>2, <1>4
    <2> QED BY <1>2, <1>4, <1>5, <2>1, ResultsGrow
  <1>7. CallsHaveResults(messages', Len(messages))
    BY <1>2, <1>4, <1>5, CallsGrow
  <1>8. Pending(messages', Len(messages'), batch', 0)
    <2>1. Len(messages') - 1 = Len(messages) /\ Len(messages') \in Nat \ {0}
      BY <1>2, <1>4
    <2>2. CallsHaveResults(messages', Len(messages') - 1)
      BY <1>7, <2>1
    <2>3. messages'[Len(messages')] = x
      BY <1>4
    <2> QED BY <1>1, <1>3, <2>1, <2>2, <2>3 DEF Pending
  <1>9. messages'[1] = SystemPrompt
    BY <1>2, <1>4 DEF PairInv, Grows
  <1>10. Len(messages') \in Nat
    BY <1>4
  <1>11. disk # <<>> => Resumable(disk)
    BY DEF PairInv
  <1> QED BY <1>3, <1>6, <1>8, <1>9, <1>10, <1>11 DEF PairInv, Resumable

\* A result is recorded: it answers the next pending call.
LEMMA ResultPreserves ==
  ASSUME TypeInv, PairInv, Dispatch
  PROVE  PairInv'
  <1>1. PICK j \in Nat : Pending(messages, j, batch, at - 1)
    BY DEF PairInv, Dispatch
  <1>2. /\ messages \in Seq(Message) /\ messages # <<>>
        /\ batch \in Seq(Calls) /\ at \in 1 .. Len(batch)
    BY DEF TypeInv, StoreOK, ControlOK, InBatch, Dispatch
  <1>3. ToolResult(batch[at]) \in Message
    BY <1>2, MessageTypes
  <1>4. /\ messages' = messages \o <<ToolResult(batch[at])>> /\ disk' = disk
        /\ batch' = batch /\ at' = at + 1
        /\ mode' = IF at = Len(batch) THEN "settle" ELSE "dispatch"
    BY DEF Dispatch, Say
  <1>5. /\ messages' \in Seq(Message) /\ Len(messages') = Len(messages) + 1
        /\ Grows(messages, messages')
        /\ messages'[Len(messages')] = ToolResult(batch[at])
    BY <1>2, <1>3, <1>4, CatOne DEF Grows
  <1>6. at - 1 \in Nat /\ at - 1 < Len(batch) /\ (at - 1) + 1 = at
    BY <1>2
  <1>7. ResultsHaveCalls(messages') /\ Pending(messages', j, batch, (at - 1) + 1)
    <2>1. ResultsHaveCalls(messages)
      BY DEF PairInv
    <2>2. messages'[Len(messages')] = ToolResult(batch[(at - 1) + 1])
      BY <1>5, <1>6
    <2> QED BY <1>1, <1>2, <1>5, <1>6, <2>1, <2>2, ResultGrows
  <1>8. messages'[1] = SystemPrompt
    BY <1>2, <1>5 DEF PairInv, Grows
  <1>9. disk # <<>> => Resumable(disk)
    BY DEF PairInv
  <1>10. CASE at = Len(batch)
    <2>1. Pending(messages', j, batch, Len(batch))
      BY <1>6, <1>7, <1>10
    <2>2. CallsHaveResults(messages', Len(messages'))
      BY <1>2, <1>5, <2>1, TurnCompletes
    <2>3. mode' = "settle"
      BY <1>4, <1>10
    <2> QED BY <1>4, <1>7, <1>8, <1>9, <2>2, <2>3 DEF PairInv, Resumable
  <1>11. CASE at # Len(batch)
    <2>1. mode' = "dispatch"
      BY <1>4, <1>11
    <2>2. Pending(messages', j, batch', at' - 1)
      <3>1. at' - 1 = (at - 1) + 1
        BY <1>2, <1>4
      <3> QED BY <1>4, <1>7, <3>1
    <2> QED BY <1>4, <1>7, <1>8, <1>9, <2>1, <2>2 DEF PairInv, Resumable
  <1> QED BY <1>10, <1>11

\* Every step keeps the pairing, in memory and on disk.
LEMMA PairStep ==
  ASSUME TypeInv, PairInv, [Next]_vars
  PROVE  PairInv'
  <1> USE DEF TypeInv
  <1>1. CASE Submit
    <2>1. /\ SayAndSave(<<User("task")>>) /\ "task" \in Texts
          /\ mode = "idle" /\ mode' = "prompt"
      BY <1>1 DEF Submit, Texts
    <2> QED BY <2>1, NewTypes, PlainPieces, PlainPreserves
  <1>2. CASE StepLimit \/ StreamFails
    BY <1>2, QuietPreserves DEF StepLimit, StreamFails, Return, store
  <1>3. CASE SkipCompaction
    BY <1>3, QuietPreserves DEF SkipCompaction, memory, store
  <1>4. CASE Compact
    BY <1>4, CompactPreserves
  <1>5. ASSUME NEW r \in Completions, Answer(r)
        PROVE  PairInv'
    <2>1. CASE AnswerWithCalls(r)
      BY <2>1, CallsPreserve
    <2>2. CASE AnswerEmpty(r)
      <3>1. /\ SayAndSave(<<Assistant("", <<>>), User("empty")>>)
            /\ mode = "stream" /\ mode' = "prompt"
        BY <2>2 DEF AnswerEmpty, NextTurn
      <3> QED BY <3>1, NewTypes, PlainPieces, PlainPreserves
    <2>3. CASE AnswerEmptyAgain(r)
      <3>1. Say(<<Assistant("", <<>>)>>) /\ mode = "stream" /\ mode' = "idle"
        BY <2>3 DEF AnswerEmptyAgain, Return
      <3>2. "" \in Texts /\ <<>> \in Seq(Calls)
        BY DEF Texts
      <3> QED BY <3>1, <3>2, NewTypes, PlainPieces, PlainPreserves
    <2>4. CASE AnswerFinal(r)
      <3>1. Say(<<Assistant(RealText(r), <<>>)>>) /\ mode = "stream" /\ mode' = "verify"
        BY <2>4 DEF AnswerFinal
      <3>2. RealText(r) \in Texts
        BY RealTypes
      <3>3. <<>> \in Seq(Calls)
        OBVIOUS
      <3> QED BY <3>1, <3>2, <3>3, NewTypes, PlainPieces, PlainPreserves
    <2> QED BY <1>5, <2>1, <2>2, <2>3, <2>4 DEF Answer
  <1>6. CASE VerifyRetry
    <2>1. /\ SayAndSave(<<User("feedback")>>) /\ "feedback" \in Texts
          /\ mode = "verify" /\ mode' = "prompt"
      BY <1>6 DEF VerifyRetry, NextTurn, Texts
    <2> QED BY <2>1, NewTypes, PlainPieces, PlainPreserves
  <1>7. CASE VerifyDone \/ SettleAbort \/ Settle
    <2>1. SayAndSave(<<>>) /\ mode \in {"verify", "settle"} /\ mode' \in {"idle", "prompt"}
      BY <1>7 DEF VerifyDone, SettleAbort, Settle, Return, NextTurn
    <2> QED BY <2>1, NewTypes, PlainPieces, PlainPreserves
  <1>8. CASE Observe
    <2>1. /\ UNCHANGED <<messages, disk, batch>> /\ mode = "observe"
          /\ mode' = "observe" \/ (mode' = "dispatch" /\ at' = 1)
      BY <1>8 DEF Observe, ObserveUpTo, store
    <2>2. PICK j \in Nat : Pending(messages, j, batch, 0)
      BY <2>1 DEF PairInv
    <2>3. Pending(messages', j, batch', 0)
      BY <2>1, <2>2
    <2>4. at' = 1 => at' - 1 = 0
      OBVIOUS
    <2> QED BY <2>1, <2>3, <2>4 DEF PairInv, Resumable
  <1>9. CASE Dispatch
    BY <1>9, ResultPreserves
  <1>10. CASE SettleNudge
    <2>1. /\ SayAndSave(<<User("stall")>>) /\ "stall" \in Texts
          /\ mode = "settle" /\ mode' = "prompt"
      BY <1>10 DEF SettleNudge, NextTurn, Texts
    <2> QED BY <2>1, NewTypes, PlainPieces, PlainPreserves
  <1>11. CASE Reset
    <2>1. messages \in Seq(Message) /\ messages # <<>> /\ messages[1] = SystemPrompt
      BY DEF StoreOK, PairInv
    <2>2. Len(SubSeq(messages, 1, 1)) = 1 /\ SubSeq(messages, 1, 1)[1] = SystemPrompt
      BY <2>1
    <2>3. /\ messages' = SubSeq(messages, 1, 1)
          /\ disk' = messages' \/ disk' = disk
          /\ mode' = "idle"
      BY <1>11 DEF Reset, Saved
    <2>4. Resumable(messages')
      BY <2>2, <2>3, FreshIsResumable
    <2> QED BY <2>3, <2>4 DEF PairInv, Resumable
  <1>12. CASE Restore
    BY <1>12 DEF Restore, PairInv, Resumable
  <1>13. CASE Crash
    BY <1>13, QuietPreserves DEF Crash, memory
  <1>14. CASE Restart
    BY <1>14, NewSessionIsResumable DEF Restart, PairInv, Resumable
  <1>15. CASE UNCHANGED vars
    BY <1>15 DEF vars, memory, store, turn, PairInv, Resumable
  <1> QED BY <1>1, <1>2, <1>3, <1>4, <1>5, <1>6, <1>7, <1>8, <1>9, <1>10, <1>11, <1>12,
             <1>13, <1>14, <1>15
          DEF Next, Run

\* A session begins with a complete transcript.
LEMMA PairInit == Init => PairInv
  <1>1. SUFFICES ASSUME Init PROVE PairInv
    OBVIOUS
  <1>2. messages = <<SystemPrompt>> /\ disk = <<>> /\ mode = "idle"
    BY <1>1 DEF Init
  <1> QED BY <1>2, NewSessionIsResumable DEF PairInv, Resumable

\* The pairing as an invariant.
LEMMA PairCorrect == Spec => []PairInv
  BY Typed, PairInit, PairStep, PTL DEF Spec

\* The transcript sent to the model always begins with the system prompt and
\* pairs every call with its result, for every set of calls, every answer of
\* the model and every setting of the compaction.
THEOREM TranscriptCorrect == Spec => []TranscriptIsPaired
  <1>1. PairInv => TranscriptIsPaired
    BY DEF PairInv, TranscriptIsPaired
  <1> QED BY <1>1, PairCorrect, PTL

\* What a crash leaves on disk is a transcript a session resumes from.
THEOREM SavedCorrect == Spec => []SavedIsResumable
  <1>1. PairInv => SavedIsResumable
    BY DEF PairInv, Resumable, SavedIsResumable
  <1> QED BY <1>1, PairCorrect, PTL

-----------------------------------------------------------------------------
(* What a crash costs.  While a request is prepared or sent, all of the    *)
(* transcript is on disk; while a turn is executed, its message and the    *)
(* results so far are not.                                                 *)

FreshInv ==
  saveOk => /\ CrashLosesOneTurn
            /\ mode \in {"prompt", "stream"} => fresh = <<>>
            /\ mode \in {"observe", "dispatch"} => fresh # <<>>

(* Before the work is verified, the transcript ends with the answer.       *)
AnswerInv ==
  mode = "verify" =>
    LET last == messages[Len(messages)] IN
    last.role = "assistant" /\ last.text # "" /\ last.calls = <<>>
\* After a save nothing is unsaved, or the save failed.
LEMMA SaveClears ==
  ASSUME FreshInv, NEW new, SayAndSave(new)
  PROVE  saveOk' => fresh' = <<>>
  BY DEF SayAndSave, Saved

\* A step that saves, wherever it leads but into a turn.
LEMMA SavingStep ==
  ASSUME FreshInv, NEW new, SayAndSave(new), mode' \notin {"observe", "dispatch"}
  PROVE  FreshInv'
  <1>1. saveOk' => fresh' = <<>>
    BY SaveClears
  <1>2. fresh' = <<>> => CrashLosesOneTurn'
    BY DEF CrashLosesOneTurn
  <1> QED BY <1>1, <1>2 DEF FreshInv

\* A message of the model is the first that is unsaved.
LEMMA AnswerUnsaved ==
  ASSUME FreshInv, mode = "stream", NEW x, x.role = "assistant", Say(<<x>>),
         mode' \notin {"prompt", "stream"}
  PROVE  FreshInv'
  <1>1. saveOk' = saveOk /\ fresh' = fresh \o <<x>>
    BY DEF Say
  <1>2. SUFFICES ASSUME saveOk PROVE CrashLosesOneTurn' /\ fresh' # <<>>
    BY <1>1 DEF FreshInv
  <1>3. fresh = <<>>
    BY <1>2 DEF FreshInv
  <1>4. fresh' = <<x>>
    BY <1>1, <1>3
  <1> QED BY <1>4 DEF CrashLosesOneTurn

\* A step that saves and appends nothing.
LEMMA StillUnsaved ==
  ASSUME FreshInv, UNCHANGED <<fresh, saveOk>>,
         mode' \in {"prompt", "stream"} => mode \in {"prompt", "stream"},
         mode' \in {"observe", "dispatch"} => mode \in {"observe", "dispatch"}
  PROVE  FreshInv'
  BY DEF FreshInv, CrashLosesOneTurn

\* Every step keeps what is unsaved to one turn.
LEMMA FreshStep ==
  ASSUME TypeInv, FreshInv, [Next]_vars
  PROVE  FreshInv'
  <1> USE DEF Return, NextTurn
  <1>1. CASE Submit
    BY <1>1, SavingStep DEF Submit
  <1>2. CASE StepLimit \/ SkipCompaction \/ Compact \/ StreamFails
    BY <1>2, StillUnsaved DEF StepLimit, SkipCompaction, Compact, StreamFails, store
  <1>3. ASSUME NEW r \in Completions, Answer(r)
        PROVE  FreshInv'
    <2>1. \A t, cs : Assistant(t, cs).role = "assistant"
      BY DEF Assistant
    <2>2. CASE AnswerWithCalls(r)
      BY <2>1, <2>2, AnswerUnsaved DEF AnswerWithCalls
    <2>3. CASE AnswerEmpty(r)
      BY <2>3, SavingStep DEF AnswerEmpty
    <2>4. CASE AnswerEmptyAgain(r)
      BY <2>1, <2>4, AnswerUnsaved DEF AnswerEmptyAgain
    <2>5. CASE AnswerFinal(r)
      BY <2>1, <2>5, AnswerUnsaved DEF AnswerFinal
    <2> QED BY <1>3, <2>2, <2>3, <2>4, <2>5 DEF Answer
  <1>4. CASE VerifyRetry
    BY <1>4, SavingStep DEF VerifyRetry
  <1>5. CASE VerifyDone \/ SettleAbort \/ Settle
    BY <1>5, SavingStep DEF VerifyDone, SettleAbort, Settle
  <1>6. CASE SettleNudge
    BY <1>6, SavingStep DEF SettleNudge
  <1>7. CASE Observe
    BY <1>7, StillUnsaved DEF Observe, ObserveUpTo, store
  <1>8. CASE Dispatch
    <2> DEFINE x == ToolResult(batch[at])
    <2>1. /\ fresh \in Seq(Message) /\ x \in Message /\ x.role = "tool"
      <3>1. batch[at] \in Calls
        BY <1>8 DEF TypeInv, ControlOK, InBatch, Dispatch
      <3>2. x \in Message
        BY <3>1, MessageTypes
      <3> QED BY <3>2 DEF TypeInv, StoreOK, ToolResult
    <2>2. mode = "dispatch" /\ saveOk' = saveOk /\ fresh' = fresh \o <<x>>
          /\ mode' \in {"dispatch", "settle"}
      BY <1>8 DEF Dispatch, Say
    <2> HIDE DEF x
    <2>3. SUFFICES ASSUME saveOk PROVE CrashLosesOneTurn' /\ fresh' # <<>>
      BY <2>2 DEF FreshInv
    <2>4. CrashLosesOneTurn /\ fresh # <<>>
      BY <2>2, <2>3 DEF FreshInv
    <2>5. /\ Len(fresh') = Len(fresh) + 1 /\ fresh'[Len(fresh) + 1] = x
          /\ \A i \in 1 .. Len(fresh) : fresh'[i] = fresh[i]
          /\ Len(fresh) >= 1 /\ fresh' # <<>>
      BY <2>1, <2>2, <2>4, CatOne
    <2>6. ASSUME NEW i \in 1 .. Len(fresh')
          PROVE  fresh'[i].role = IF i = 1 THEN "assistant" ELSE "tool"
      <3>1. CASE i \in 1 .. Len(fresh)
        BY <2>3, <2>4, <2>5, <3>1 DEF CrashLosesOneTurn
      <3>2. CASE i = Len(fresh) + 1
        BY <2>1, <2>5, <3>2
      <3> QED BY <2>1, <2>5, <3>1, <3>2
    <2> QED BY <2>5, <2>6 DEF CrashLosesOneTurn
  <1>9. CASE Reset
    <2>1. mode' = "idle" /\ (saveOk' => fresh' = <<>>)
      BY <1>9 DEF Reset, Saved
    <2> QED BY <2>1 DEF FreshInv, CrashLosesOneTurn
  <1>10. CASE Restore
    BY <1>10 DEF Restore, FreshInv, CrashLosesOneTurn
  <1>11. CASE Crash
    BY <1>11, StillUnsaved DEF Crash
  <1>12. CASE Restart
    BY <1>12 DEF Restart, FreshInv, CrashLosesOneTurn
  <1>13. CASE UNCHANGED vars
    BY <1>13, StillUnsaved DEF vars, store
  <1> QED BY <1>1, <1>2, <1>3, <1>4, <1>5, <1>6, <1>7, <1>8, <1>9, <1>10, <1>11, <1>12, <1>13
          DEF Next, Run

\* Unless the latest save failed, what a crash loses is one message of the
\* model with the results of its calls, however long the session is.
THEOREM CrashCost == Spec => []CrashLosesOneTurn
  <1>1. Init => FreshInv
    BY DEF Init, FreshInv, CrashLosesOneTurn
  <1>2. Spec => []FreshInv
    BY <1>1, FreshStep, Typed, PTL DEF Spec
  <1>3. FreshInv => CrashLosesOneTurn
    BY DEF FreshInv, CrashLosesOneTurn
  <1> QED BY <1>2, <1>3, PTL

-----------------------------------------------------------------------------
(* How a task ends with an answer                                          *)

\* Only AnswerFinal leads to the verification.
LEMMA AnswerStep ==
  ASSUME TypeInv, AnswerInv, [Next]_vars
  PROVE  AnswerInv'
  <1> USE DEF Return, NextTurn
  <1>1. CASE \E r \in Completions : AnswerFinal(r)
    <2>1. PICK r \in Completions : AnswerFinal(r)
      BY <1>1
    <2> DEFINE x == Assistant(RealText(r), <<>>)
    <2>2. /\ messages' = messages \o <<x>> /\ RealText(r) # ""
      BY <2>1 DEF AnswerFinal, Say
    <2>3. x \in Message /\ x.role = "assistant" /\ x.text = RealText(r) /\ x.calls = <<>>
      <3>1. x \in Message
        <4>1. RealText(r) \in Texts /\ <<>> \in Seq(Calls)
          BY RealTypes
        <4> QED BY <4>1, MessageTypes
      <3> QED BY <3>1 DEF Assistant
    <2> HIDE DEF x
    <2>4. messages'[Len(messages')] = x
      <3>1. messages \in Seq(Message)
        BY DEF TypeInv, StoreOK
      <3>2. /\ Len(messages \o <<x>>) = Len(messages) + 1
            /\ (messages \o <<x>>)[Len(messages) + 1] = x
        BY <2>3, <3>1, CatOne
      <3> QED BY <2>2, <3>2
    <2> QED BY <2>2, <2>3, <2>4 DEF AnswerInv
  <1>2. CASE UNCHANGED vars
    BY <1>2 DEF vars, memory, AnswerInv
  <1>3. CASE Next /\ ~ \E r \in Completions : AnswerFinal(r)
    <2>1. mode' # "verify"
      <3>1. CASE Submit \/ Reset \/ Restore \/ Crash \/ Restart
        BY <3>1 DEF Submit, Reset, Restore, Crash, Restart
      <3>2. CASE StepLimit \/ SkipCompaction \/ Compact \/ StreamFails
        BY <3>2 DEF StepLimit, SkipCompaction, Compact, StreamFails
      <3>3. CASE \E r \in Completions : Answer(r)
        BY <1>3, <3>3 DEF Answer, AnswerWithCalls, AnswerEmpty, AnswerEmptyAgain
      <3>4. CASE VerifyRetry \/ VerifyDone \/ SettleAbort \/ SettleNudge \/ Settle
        BY <3>4 DEF VerifyRetry, VerifyDone, SettleAbort, SettleNudge, Settle
      <3>5. CASE Observe \/ Dispatch
        BY <3>5 DEF Observe, ObserveUpTo, Dispatch
      <3> QED BY <1>3, <3>1, <3>2, <3>3, <3>4, <3>5 DEF Next, Run
    <2> QED BY <2>1 DEF AnswerInv
  <1> QED BY <1>1, <1>2, <1>3

\* A task is reported answered only by the step that follows a message of
\* the model with text and without calls.
THEOREM AnswersAreMeaningful == Spec => AnsweredIsMeaningful
  <1>1. Init => AnswerInv
    BY DEF Init, AnswerInv
  <1>2. Spec => []AnswerInv
    BY <1>1, AnswerStep, Typed, PTL DEF Spec
  <1>3. ASSUME AnswerInv, [Next]_vars, outcome' = "answered", outcome # "answered"
        PROVE  LET last == messages[Len(messages)] IN
               last.role = "assistant" /\ last.text # "" /\ last.calls = <<>>
    <2>1. mode = "verify"
      <3> USE <1>3 DEF Return, NextTurn
      <3>1. CASE Submit \/ Reset \/ Restore \/ Crash \/ Restart
        BY <3>1 DEF Submit, Reset, Restore, Crash, Restart
      <3>2. CASE StepLimit \/ SkipCompaction \/ Compact \/ StreamFails
        BY <3>2 DEF StepLimit, SkipCompaction, Compact, StreamFails
      <3>3. CASE \E r \in Completions : Answer(r)
        BY <3>3 DEF Answer, AnswerWithCalls, AnswerEmpty, AnswerEmptyAgain, AnswerFinal
      <3>4. CASE VerifyRetry \/ VerifyDone \/ SettleAbort \/ SettleNudge \/ Settle
        BY <3>4 DEF VerifyRetry, VerifyDone, SettleAbort, SettleNudge, Settle
      <3>5. CASE Observe \/ Dispatch
        BY <3>5 DEF Observe, ObserveUpTo, Dispatch
      <3>6. CASE UNCHANGED vars
        BY <3>6 DEF vars
      <3> QED BY <3>1, <3>2, <3>3, <3>4, <3>5, <3>6 DEF Next, Run
    <2> QED BY <1>3, <2>1 DEF AnswerInv
  <1> QED BY <1>2, <1>3, PTL DEF Spec, AnsweredIsMeaningful

-----------------------------------------------------------------------------
(* What compaction keeps                                                   *)

\* A transcript of the same beginning and the same end from message f on.
LEMMA TailIsKept ==
  ASSUME NEW m \in Seq(Message), NEW n \in Seq(Message), NEW f \in 3 .. Len(m),
         f <= Len(m) - KeepRecent + 1,
         Len(n) = Len(m) - f + 3, \A i \in 3 .. Len(n) : n[i] = m[i + f - 3],
         NEW i \in 0 .. KeepRecent - 1
  PROVE  n[Len(n) - i] = m[Len(m) - i]
  <1>1. KeepRecent \in Nat
    BY LimitsAssumption
  <1>2. Len(n) - i \in 3 .. Len(n)
    BY <1>1
  <1>3. n[Len(n) - i] = m[(Len(n) - i) + f - 3]
    BY <1>2
  <1>4. (Len(n) - i) + f - 3 = Len(m) - i
    BY <1>1
  <1> QED BY <1>3, <1>4

\* A transcript is compacted into a shorter one, with the system prompt and
\* the newest KeepRecent messages in their places.
THEOREM CompactionIsSafe == Spec => CompactionKeepsTheTail
  <1>1. ASSUME TypeInv, [Next]_vars,
               mode = "prompt", mode' = "stream", messages' # messages
        PROVE  /\ messages'[1] = messages[1]
               /\ Len(messages') < Len(messages)
               /\ \A i \in 0 .. KeepRecent - 1 :
                    messages'[Len(messages') - i] = messages[Len(messages) - i]
    <2>1. Compact
      <3> USE <1>1 DEF Return, NextTurn
      <3>1. CASE Submit \/ Reset \/ Restore \/ Crash \/ Restart
        BY <3>1 DEF Submit, Reset, Restore, Crash, Restart
      <3>2. CASE StepLimit \/ SkipCompaction \/ StreamFails
        BY <3>2 DEF StepLimit, SkipCompaction, StreamFails, memory
      <3>3. CASE \E r \in Completions : Answer(r)
        BY <3>3 DEF Answer, AnswerWithCalls, AnswerEmpty, AnswerEmptyAgain, AnswerFinal
      <3>4. CASE VerifyRetry \/ VerifyDone \/ SettleAbort \/ SettleNudge \/ Settle
        BY <3>4 DEF VerifyRetry, VerifyDone, SettleAbort, SettleNudge, Settle
      <3>5. CASE Observe \/ Dispatch
        BY <3>5 DEF Observe, ObserveUpTo, Dispatch
      <3>6. CASE UNCHANGED vars
        BY <3>6 DEF vars
      <3> QED BY <3>1, <3>2, <3>3, <3>4, <3>5, <3>6 DEF Next, Run
    <2>2. messages \in Seq(Message) /\ messages # <<>>
      BY <1>1 DEF TypeInv, StoreOK
    <2>3. PICK f \in 3 .. Len(messages) :
            /\ f <= Len(messages) - KeepRecent + 1 /\ f - 2 >= MinEvict
            /\ messages' \in Seq(Message)
            /\ Len(messages') = Len(messages) - f + 3
            /\ messages'[1] = messages[1]
            /\ \A i \in 3 .. Len(messages') : messages'[i] = messages[i + f - 3]
      BY <2>1, <2>2, CompactShape
    <2>4. Len(messages') < Len(messages)
      BY <2>2, <2>3, LimitsAssumption
    <2> QED BY <2>2, <2>3, <2>4, TailIsKept
  <1> QED BY <1>1, Typed, PTL DEF Spec, CompactionKeepsTheTail
=============================================================================
