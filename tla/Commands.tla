------------------------------ MODULE Commands ------------------------------
(***************************************************************************)
(* internal/config, internal/settings and the slash commands of cmd/drea:  *)
(* where the settings of a session come from, which of them are refused,   *)
(* how a command changes them, and what of them a later session gets back. *)
(*                                                                         *)
(* A setting lives in up to five places: the saved files, the Config, the  *)
(* agent's copy of the Config, the client, and the command line or the     *)
(* environment of the next start.  Each file is written as in FileStore,   *)
(* in one step here; /save writes two of them.  VerifyAttempts stands for  *)
(* ContextTokens too, policy for the allow and deny patterns ("(" is one   *)
(* that does not compile), and topP, in tenths, for Temperature too.       *)
(***************************************************************************)
EXTENDS Integers

CONSTANTS
  Hosts,        \* base URLs
  NoHost,       \* the blank one
  DefaultHost,
  Keys, Models, Verifies, \* API keys, model names and verify commands but ""
  Levels,       \* bound: the reasoning levels that are typed
  Environments, \* what the DREA_ variables may give, functions of some fields
  Flags,        \* what the command line may give, likewise
  Files         \* bound: what the settings file may hold after an edit by hand

Blank == [host |-> NoHost, model |-> "", effort |-> "", format |-> "", attempts |-> 0,
          topP |-> 0, verify |-> "", checkpoint |-> FALSE, policy |-> {}]
Efforts == {"low", "medium", "high"}
Formats == {"json_schema", "json_object"}
Persisted == DOMAIN Blank

\* What a field may hold before Normalize has seen it; the workspace is set apart.
FieldTypes ==
  [host |-> Hosts, model |-> STRING, effort |-> STRING, format |-> STRING, attempts |-> Int,
   topP |-> Int, verify |-> STRING, checkpoint |-> BOOLEAN, policy |-> SUBSET STRING,
   auto |-> BOOLEAN, debug |-> STRING, insecure |-> BOOLEAN, external |-> BOOLEAN,
   worktree |-> BOOLEAN, key |-> Keys \cup {""}]

Typed(s) == DOMAIN s \subseteq DOMAIN FieldTypes /\ \A f \in DOMAIN s : s[f] \in FieldTypes[f]

ASSUME CommandsAssumption ==
  /\ Hosts \subseteq [at : STRING, scheme : {"https", "http", "other"}, slash : BOOLEAN]
  /\ NoHost \in Hosts /\ NoHost.at = "" /\ ~NoHost.slash
  /\ DefaultHost \in Hosts \ {NoHost} /\ DefaultHost.scheme = "https" /\ ~DefaultHost.slash
  /\ \A h \in Hosts : [h EXCEPT !.slash = FALSE] \in Hosts
  /\ Levels \subseteq Efforts
  /\ "" \notin Keys \cup Models \cup Verifies
  /\ \A s \in Files : DOMAIN s = Persisted
  /\ \A s \in Files \cup Environments \cup Flags : Typed(s)
  /\ \A e \in Environments : "attempts" \in DOMAIN e => e.attempts > 0

VARIABLES
  mode,     \* "out" when drea does not run, "prompt", "saving" between the two writes
  settings, \* settings.json; Blank where there is none
  readable, \* whether it parses
  keyFile,  \* the key file; "" where there is none
  cfg,      \* the Config of the session
  client,   \* what llm.Client sends
  agent,    \* what the agent's copy of the Config says
  stored    \* history: what the last /save was to store, if both files hold it

vars == <<mode, settings, readable, keyFile, cfg, client, agent, stored>>
files == <<settings, readable, keyFile, stored>>
session == <<cfg, client, agent>>

Nothing == [whole |-> FALSE, insecure |-> FALSE, key |-> "", values |-> Blank]
Absent == [f \in {} |-> ""]

-----------------------------------------------------------------------------
(* config.Defaults and the flags *)

Default == [Blank EXCEPT !.host = DefaultHost, !.model = "gpt-4o",
                         !.format = "json_schema", !.attempts = 3]

\* The fields that no file keeps.
Unsaved == [auto |-> FALSE, debug |-> "", insecure |-> FALSE, external |-> FALSE,
            worktree |-> FALSE, workdir |-> "workspace"]

\* loadSaved: a missing settings file counts as one with nothing in it.
LoadSaved == [f \in Persisted \cup {"key"} |-> IF f = "key" THEN keyFile ELSE settings[f]]

\* A value of the environment comes before a saved one, and that before the
\* built-in one.  The variable of the checkpoint can only turn it on.
Defaults(saved, env) ==
  LET Given(f, otherwise) == IF f \in DOMAIN env THEN env[f] ELSE otherwise
      Value(f) == Given(f, IF saved[f] # Blank[f] THEN saved[f] ELSE Default[f])
  IN [f \in Persisted \cup DOMAIN Unsaved \cup {"key"} |->
        IF f = "checkpoint" THEN Given(f, FALSE) \/ saved.checkpoint
        ELSE IF f = "key" THEN Given(f, saved.key)
        ELSE IF f \in DOMAIN Unsaved THEN Given(f, Unsaved[f])
        ELSE Value(f)]

\* A flag replaces a value; --allow and --deny add to the patterns.
WithFlags(c, flags) ==
  [f \in DOMAIN c |-> IF f \notin DOMAIN flags THEN c[f]
                      ELSE IF f = "policy" THEN c.policy \cup flags.policy
                      ELSE flags[f]]

-----------------------------------------------------------------------------
(* Config.Normalize: what it changes, and what it refuses *)

\* A relative debug path is one of the workspace of the moment.
Canonical(c) ==
  [c EXCEPT !.host = [@ EXCEPT !.slash = FALSE],
            !.attempts = IF @ <= 0 THEN Default.attempts ELSE @,
            !.format = IF @ = "" THEN Default.format ELSE @,
            !.debug = IF @ = "relative" THEN c.workdir ELSE @]

\* validateKeyTransport
KeyMayTravel(c) ==
  \/ c.key = ""
  \/ c.host.scheme = "https"
  \/ c.host.scheme = "http" /\ c.insecure

\* normalizeDebugPath; a path is named for the directory it is in.
DebugConfined(c) == c.external \/ c.debug \in {"", c.workdir}

Acceptable(c) ==
  /\ c.host.at # "" /\ c.model # ""
  /\ c.topP \in 0..10
  /\ c.effort \in Efforts \cup {""}
  /\ c.format \in Formats
  /\ "(" \notin c.policy
  /\ KeyMayTravel(c)
  /\ DebugConfined(c)

Normalizes(c) == Acceptable(Canonical(c))

-----------------------------------------------------------------------------
(* A session starts and ends *)

\* enterWorktree points the Config at the worktree and normalizes it again.
InWorktree(c) == Canonical([c EXCEPT !.workdir = "worktree"])

ClientOf(c) == [host |-> c.host, key |-> c.key, model |-> c.model, effort |-> c.effort]

\* agent.New copies the Config.  This is what the agent reads of its copy: all
\* but the first while it works, and the model in persist, which names it in
\* the transcript it saves.
AgentReads == {"model", "auto", "verify", "checkpoint", "policy", "attempts", "workdir"}
AgentOf(c) == [f \in AgentReads |-> c[f]]

\* A start with settings that do not load, or that are refused, ends at once.
Start ==
  /\ mode = "out" /\ readable
  /\ \E env \in Environments, flags \in Flags :
       LET first == Canonical(WithFlags(Defaults(LoadSaved, env), flags))
           final == IF first.worktree THEN InWorktree(first) ELSE first
       IN /\ Acceptable(first) /\ Acceptable(final)
          /\ cfg' = final /\ client' = ClientOf(final) /\ agent' = AgentOf(final)
  /\ mode' = "prompt"
  /\ UNCHANGED files

\* /exit, the end of the input, or the death of the process at any point.
Leave ==
  /\ mode # "out" /\ mode' = "out"
  /\ cfg' = Absent /\ client' = Absent /\ agent' = Absent
  /\ UNCHANGED files

\* External: the settings file may be edited, and damaged, between sessions.
EditByHand ==
  /\ mode = "out"
  /\ settings' \in Files /\ readable' \in BOOLEAN /\ stored' = Nothing
  /\ UNCHANGED <<mode, keyFile, session>>

-----------------------------------------------------------------------------
(* The slash commands *)

AtPrompt == mode = "prompt" /\ UNCHANGED <<mode, files>>

Model == AtPrompt /\ \E m \in Models :
  /\ cfg' = [cfg EXCEPT !.model = m] /\ client' = [client EXCEPT !.model = m]
  /\ UNCHANGED agent

\* A variant that forgets the client.
HostOfConfig == AtPrompt /\ \E h \in Hosts \ {NoHost} :
  /\ Normalizes([cfg EXCEPT !.host = h])
  /\ cfg' = Canonical([cfg EXCEPT !.host = h])
  /\ UNCHANGED <<client, agent>>

Host == AtPrompt /\ \E h \in Hosts \ {NoHost} :
  /\ Normalizes([cfg EXCEPT !.host = h])
  /\ cfg' = Canonical([cfg EXCEPT !.host = h])
  /\ client' = [client EXCEPT !.host = cfg'.host]
  /\ UNCHANGED agent

\* A variant that does not put the value back.
KeepRefused(field, value) == cfg' = Canonical([cfg EXCEPT ![field] = value])

\* When Normalize refuses the new value, the one before it is put back; what
\* else Normalize changed stays, which TypeOK says is nothing.
PutBack(field, value) == cfg' = [Canonical([cfg EXCEPT ![field] = value]) EXCEPT ![field] = cfg[field]]

HostRefused == AtPrompt /\ \E h \in Hosts \ {NoHost} :
  /\ ~Normalizes([cfg EXCEPT !.host = h])
  /\ PutBack("host", h)
  /\ UNCHANGED <<client, agent>>

SetAuto == AtPrompt /\ \E on \in BOOLEAN :
  /\ cfg' = [cfg EXCEPT !.auto = on] /\ agent' = [agent EXCEPT !.auto = on]
  /\ UNCHANGED client

Verify == AtPrompt /\ \E v \in Verifies \cup {""} :
  /\ cfg' = [cfg EXCEPT !.verify = v] /\ agent' = [agent EXCEPT !.verify = v]
  /\ UNCHANGED client

Checkpoint == AtPrompt /\ \E on \in BOOLEAN :
  /\ cfg' = [cfg EXCEPT !.checkpoint = on] /\ agent' = [agent EXCEPT !.checkpoint = on]
  /\ UNCHANGED client

\* SetReasoningEffort refuses other levels and changes nothing then.
Reasoning == AtPrompt /\ \E e \in Levels \cup {""} :
  /\ cfg' = [cfg EXCEPT !.effort = e] /\ client' = [client EXCEPT !.effort = e]
  /\ UNCHANGED agent

KeyOff == AtPrompt /\ cfg' = [cfg EXCEPT !.key = ""] /\ client' = [client EXCEPT !.key = ""]
                   /\ UNCHANGED agent

Key == AtPrompt /\ \E k \in Keys :
  /\ Normalizes([cfg EXCEPT !.key = k])
  /\ cfg' = Canonical([cfg EXCEPT !.key = k]) /\ client' = [client EXCEPT !.key = k]
  /\ UNCHANGED agent

KeyRefused == AtPrompt /\ \E k \in Keys :
  /\ ~Normalizes([cfg EXCEPT !.key = k])
  /\ PutBack("key", k)
  /\ UNCHANGED <<client, agent>>

\* settings.Save; when it fails the key is not saved either.
Save ==
  /\ mode = "prompt"
  /\ \/ /\ settings' = [f \in Persisted |-> cfg[f]] /\ readable' = TRUE /\ stored' = Nothing
        /\ mode' = "saving"
     \/ UNCHANGED <<mode, settings, readable, stored>>
  /\ UNCHANGED <<keyFile, session>>

\* A variant that writes no blank key, and leaves the file where it is.
SaveKeyIfAny ==
  /\ mode = "saving" /\ mode' = "prompt"
  /\ keyFile' = IF cfg.key = "" THEN keyFile ELSE cfg.key
  /\ stored' = [whole |-> TRUE, insecure |-> cfg.insecure, key |-> cfg.key, values |-> settings]
  /\ UNCHANGED <<settings, readable, session>>

\* settings.SaveKey; a blank key removes the file.
SaveKey ==
  /\ mode = "saving" /\ mode' = "prompt"
  /\ keyFile' = cfg.key
  /\ stored' = [whole |-> TRUE, insecure |-> cfg.insecure, key |-> cfg.key,
                values |-> [f \in Persisted |-> cfg[f]]]
  /\ UNCHANGED <<settings, readable, session>>

SaveKeyFails ==
  /\ mode = "saving" /\ mode' = "prompt"
  /\ UNCHANGED <<files, session>>

-----------------------------------------------------------------------------
Init ==
  /\ mode = "out"
  /\ settings \in Files \cup {Blank} /\ readable = TRUE
  /\ keyFile \in Keys \cup {""} /\ stored = Nothing
  /\ cfg = Absent /\ client = Absent /\ agent = Absent

Next ==
  \/ Start \/ Leave \/ EditByHand
  \/ Model \/ Host \/ HostRefused \/ SetAuto \/ Verify \/ Checkpoint \/ Reasoning
  \/ KeyOff \/ Key \/ KeyRefused \/ Save \/ SaveKey \/ SaveKeyFails

Spec == Init /\ [][Next]_vars

-----------------------------------------------------------------------------
(* What must hold *)

\* Throughout a session, worktree or not and whichever commands were refused,
\* the Config is one that Normalize accepts and would leave as it is: main.go
\* normalizes it once or twice at the start and then relies on the commands.
TypeOK ==
  /\ mode \in {"out", "prompt", "saving"}
  /\ DOMAIN settings = Persisted /\ readable \in BOOLEAN /\ keyFile \in Keys \cup {""}
  /\ mode # "out" => Acceptable(cfg) /\ Canonical(cfg) = cfg

\* The client sends, and the agent works by, the settings that /config shows
\* (main.go 304-486 changes each in two places); no request carries an API key
\* in the clear that the user did not allow.  What persist names in a
\* transcript, the model, is not among them: /model (318-325) leaves the agent
\* with the one it had.
SettingsInForce == mode # "out" =>
  /\ client = ClientOf(cfg)
  /\ \A f \in AgentReads \ {"model"} : agent[f] = cfg[f]
  /\ client.key # "" => client.host.scheme = "https" \/ cfg.insecure

\* After a /save that wrote both files, a start with neither flags nor
\* variables has the settings and the key of the session that saved, and is not
\* refused unless the key had been allowed to travel in the clear.
SavedIsRestored == stored.whole =>
  LET again == Canonical(Defaults(LoadSaved, Absent))
  IN /\ \A f \in Persisted : again[f] = stored.values[f]
     /\ again.key = stored.key
     /\ ~stored.insecure => Acceptable(again)
=============================================================================
