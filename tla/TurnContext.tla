------------------------------ MODULE TurnContext ------------------------------
(***************************************************************************)
(* How full a thread is and what follows (core/app.js): the usage that is  *)
(* recorded from what a runtime reports, when Claude Code's thread is      *)
(* compacted and when a session is refreshed, and how much memory a turn   *)
(* asks for under that pressure.                                           *)
(***************************************************************************)
EXTENDS Integers, Sequences, FiniteSets, TLC, FiniteSetsExt

\* A number that a report does not have.
Absent == -1
Runtimes == {"codex", "claudecode"}
Or(x, y) == IF x = Absent THEN y ELSE x

\* clampPercent.
Clamped(percent, default) == Max({1, Min({99, Or(percent, default)})})
Share(n, percent) == (n * percent) \div 100

\* buildRuntimeContextUsageSnapshot: "summed" is the sum of the four counts of a report.
Usage(report, runtime, config) ==
  LET claude == runtime = "claudecode"
      window == Or(report.window, IF claude THEN config.window ELSE 0)
      available == Max({0, window - (IF claude THEN config.reserved ELSE 0)})
  IN [tokens |-> Or(report.tokens, report.summed), window |-> window, available |-> available,
      compactAt |-> Share(available, Clamped(config.compactPercent, 85))]

\* evaluateClaudeAutoCompact.
Compacts(usage, runtime, config) ==
  config.compacts /\ runtime = "claudecode" /\ usage.compactAt > 0 /\ usage.tokens >= usage.compactAt

\* evaluateSessionAutoRefresh.
RefreshAt(usage, runtime, config) ==
  Share(usage.window, Clamped(config.refreshPercent, IF runtime = "codex" THEN 76 ELSE 92))
Refreshes(usage, runtime, config) ==
  /\ config.refreshPercent # 0 /\ RefreshAt(usage, runtime, config) > 0
  /\ usage.tokens >= RefreshAt(usage, runtime, config)

\* resolveMemoryContextPressureProfile.
Levels == <<"normal", "warm", "high">>
Pressure(tokens, window) ==
  IF tokens = 0 \/ window = 0 THEN "normal"
  ELSE IF 4 * tokens >= 3 * window THEN "high"
  ELSE IF 5 * tokens >= 3 * window THEN "warm" ELSE "normal"

-----------------------------------------------------------------------------
\* Limits: a record of those that are set; others are laid over them.

Over(limits, others) == others @@ limits

\* The limits of the shipped configuration, and of a call that sets none
\* (core/config.js, captureContextPacket of services/asherie-memory-service.js).
Defaults ==
  [cache |-> 50, recentRecord |-> 8, temporal |-> 8, warm |-> 6, resident |-> 5, ambient |-> 2,
   preludeWarm |-> 6, ongoing |-> 5, shadow |-> 6, observation |-> 4, episode |-> 3,
   hotUpstream |-> 4, hotTurn |-> 6, hotSnapshot |-> 2, snippets |-> 8, recent |-> 8,
   cold |-> 2, vine |-> 6, vinePerRoot |-> 3]

\* buildTokenPressureMemoryOptions.
ByPressure(level, checkin) ==
  LET narrow == [hotSnapshot |-> 1, vinePerRoot |-> 1]
      fewer == Over(narrow, [shadow |-> 3, ongoing |-> 3, cold |-> 1, vine |-> 1, snippets |-> 2,
                            recent |-> 2, hotUpstream |-> 2, hotTurn |-> 3])
  IN CASE level = "normal"            -> <<>>
       [] level = "warm" /\ ~checkin  ->
            Over(narrow, [snippets |-> 4, recent |-> 4, hotUpstream |-> 3, hotTurn |-> 4, vine |-> 2])
       [] level = "warm" /\ checkin   ->
            Over(narrow, [cache |-> 12, warm |-> 3, hotUpstream |-> 2, hotTurn |-> 3,
                         snippets |-> 2, recent |-> 2, vine |-> 1])
       [] level = "high" /\ ~checkin  ->
            Over(fewer, [warm |-> 4, preludeWarm |-> 4, observation |-> 2, episode |-> 2])
       [] level = "high" /\ checkin   ->
            Over(fewer, [cache |-> 10, recentRecord |-> 3, temporal |-> 3, warm |-> 2,
                        preludeWarm |-> 2, ongoing |-> 2, shadow |-> 2, observation |-> 1,
                        episode |-> 1, hotUpstream |-> 1, hotTurn |-> 2, recent |-> 1])

\* buildMemoryCapturePressureOptions: a check-in's own limits.
ForCheckin ==
  [cache |-> 16, recentRecord |-> 4, temporal |-> 4, warm |-> 3, resident |-> 2,
   preludeWarm |-> 3, ongoing |-> 3, shadow |-> 3, observation |-> 1, episode |-> 1,
   hotUpstream |-> 2, hotTurn |-> 3, hotSnapshot |-> 1, snippets |-> 3, recent |-> 2,
   cold |-> 1, vine |-> 2, vinePerRoot |-> 1]
ForContinuity == [cache |-> 24, recentRecord |-> 8, ambient |-> 3, snippets |-> 0]

\* buildMemoryCapturePressureOptions, over what is set where it sets nothing.
CaptureLimits(turn, level, delivered) ==
  LET checkin == turn = "checkin"
      set == Over(Over(IF checkin THEN ForCheckin ELSE <<>>, ByPressure(level, checkin)),
                 IF turn = "continuity" THEN ForContinuity ELSE <<>>)
  IN Over(Over(Defaults, set), IF delivered THEN [resident |-> 0] ELSE <<>>)

\* estimatePromptTokens: a character of Chinese counts one, four others one.
Tokens(chinese, others) == chinese + (others + 3) \div 4

-----------------------------------------------------------------------------
\* Properties.

\* Compaction comes before what is available is used up, and at the latest when a
\* refresh would, unless a refresh is asked for earlier than by default; a refresh
\* comes only under high pressure unless the owner asks for it earlier.
ThresholdsMeet(report, runtime, config) ==
  LET usage == Usage(report, runtime, config)
      compacts == Compacts(usage, runtime, config)
      refreshes == Refreshes(usage, runtime, config)
  IN /\ compacts => usage.compactAt + config.reserved < usage.window
     /\ (/\ refreshes /\ runtime = "claudecode" /\ config.compacts
         /\ Clamped(config.refreshPercent, 92) >= Clamped(config.compactPercent, 85)
         /\ usage.compactAt > 0) => compacts
     /\ (refreshes /\ Clamped(config.refreshPercent, 76) >= 76 /\ usage.window >= 100) =>
          Pressure(usage.tokens, usage.window) = "high"

\* With the limits of the shipped configuration: a fuller thread is never given more
\* memory, a check-in never more than a turn of the user, and nothing falls away but
\* the words of recent turns and the residents that the thread has had.
LimitsNarrow(level, delivered) ==
  LET Of(turn, l) == CaptureLimits(turn, l, delivered)
      Above(l) == {Levels[k] : k \in {k \in 1..3 : \E j \in 1..k : Levels[j] = l}}
      AtMost(a, b) == \A n \in DOMAIN Defaults : a[n] <= b[n]
  IN \A turn \in {"user", "system", "continuity", "checkin"} :
       /\ \A higher \in Above(level) : AtMost(Of(turn, higher), Of(turn, level))
       /\ AtMost(Of("checkin", level), Of(turn, level)) \/ turn = "continuity"
       /\ \A n \in DOMAIN Defaults :
            Of(turn, level)[n] = 0 => (\/ n = "resident" /\ delivered
                                       \/ n = "snippets" /\ turn = "continuity")
=============================================================================
