---------------------------- MODULE CheckinPolicy ----------------------------
(***************************************************************************)
(* When a random check-in may wake the model: the decisions of             *)
(* app/system-checkin-poller.js and of the stores it reads, as operators   *)
(* on the clock and on what those stores hold.  SystemTurns has the        *)
(* message that results, and what becomes of it.                           *)
(*                                                                         *)
(* Time is a number of minutes of the local calendar, from the start of a  *)
(* year; CONSTANTS shorten the day and the year.  Zero stands for an       *)
(* option that is switched off, None for a value that is not known.        *)
(***************************************************************************)
EXTENDS Integers, Sequences, FiniteSets, FiniteSetsExt, SequencesExt

CONSTANTS
  Day,      \* minutes of a day
  Year,     \* days of a year
  Step,     \* the step with which a pause looks for the next day
  Margin    \* what a pause and a cooldown add to the time they end

None == -1
Minutes == 0..(Day - 1)
Times == 0..(Year * Day - 1)

MinuteOf(now) == now % Day
DayOf(now) == now \div Day

-----------------------------------------------------------------------------
\* Windows of the local clock; a window may span midnight.

\* parseLocalTimeWindow: a window that ends where it starts is not valid.
Windows == {w \in Minutes \X Minutes : w[1] # w[2]}

InWindow(m, w) ==
  IF w[1] < w[2] THEN w[1] <= m /\ m < w[2] ELSE w[1] <= m \/ m < w[2]

UntilEnd(m, w) ==
  IF ~InWindow(m, w) THEN 0
  ELSE IF w[1] >= w[2] /\ m >= w[1] THEN Day - m + w[2] ELSE w[2] - m

Quiet(now, w) == InWindow(MinuteOf(now), w)

-----------------------------------------------------------------------------
\* Cooldowns after a notice of the runtime's limit.

\* What a notice says of the reset: nothing, a time of day, a day and a time,
\* or a day of a given year (0 is this one) and a time.
Notices ==
  [kind : {"none"}] \union [kind : {"clock"}, minute : Minutes]
    \union [kind : {"date"}, day : 0..(Year - 1), minute : Minutes]
    \union [kind : {"dated"}, year : {-1, 0, 1}, day : 0..(Year - 1), minute : Minutes]

\* Mutant: a time of day is always today's.
ResetToday(now, n, fallback) ==
  IF n.kind = "none" THEN now + fallback
  ELSE (IF n.kind = "clock" THEN DayOf(now) ELSE n.day) * Day + n.minute + Margin
\* resolveCapacityResetAtMs.
ResetAt(now, n, fallback) ==
  CASE n.kind = "none" -> now + fallback
    [] n.kind = "clock" ->
         LET at == DayOf(now) * Day + n.minute + Margin
         IN IF at <= now THEN at + Day ELSE at
    [] n.kind = "date" ->
         LET at == n.day * Day + n.minute + Margin
         IN IF at <= now THEN at + Year * Day ELSE at
    [] n.kind = "dated" -> (n.year * Year + n.day) * Day + n.minute + Margin

\* setCooldown keeps the cooldown it has when the new one would be over, and
\* else replaces it; getActiveCooldown.
Cooldown(old, now, n, fallback) ==
  LET at == ResetAt(now, n, fallback) IN IF at <= now THEN old ELSE at
Cooling(until, now) == until # None /\ until > now

-----------------------------------------------------------------------------
\* What the system's turns have used: contexts by thread, each
\* [system, at, tokens].

\* recordContext: a snapshot without usage does not replace one that has some.
Recorded(contexts, t, c) ==
  IF t \in DOMAIN contexts /\ contexts[t].tokens > 0 /\ c.tokens = 0
  THEN contexts
  ELSE [u \in DOMAIN contexts \union {t} |-> IF u = t THEN c ELSE contexts[u]]

\* Mutant: the contexts of other days count too.
TodayAll(contexts, now) == {t \in DOMAIN contexts : contexts[t].system}
\* summarizeSystemCheckinUsageForLocalDay.
Today(contexts, now) ==
  {t \in DOMAIN contexts : contexts[t].system /\ DayOf(contexts[t].at) = DayOf(now)}
TokensToday(contexts, now) ==
  MapThenSumSet(LAMBDA t : contexts[t].tokens, Today(contexts, now))

\* resolveCheckinDailyBudget.
BudgetExceeded(contexts, now, b) ==
  \/ b.tokens > 0 /\ TokensToday(contexts, now) >= b.tokens
  \/ b.threads > 0 /\ Cardinality(Today(contexts, now)) >= b.threads

\* resolveSystemTurnBudgetPolicy.
BudgetAction(kind, exceeded) ==
  CASE ~exceeded -> "allow"
    [] exceeded /\ kind = "checkin" -> "drop"
    [] exceeded /\ kind = "dreaming" -> "defer"
    [] OTHER -> "allow_compact"

\* resolveDailyBudgetPauseMs: the first step that is in another day.
Pause(now) ==
  Min({k \in {Step * i : i \in 1..(Day \div Step + 1)} : DayOf(now + k) # DayOf(now)}) + Margin

\* findLatestSystemCheckinContext and resolveCheckinModelWakePreflight.
LastWake(contexts) ==
  Max({contexts[t].at : t \in {u \in DOMAIN contexts : contexts[u].system}} \union {None})
WakeDue(contexts, now, gap) ==
  gap = 0 \/ LastWake(contexts) = None \/ now - LastWake(contexts) >= gap

-----------------------------------------------------------------------------
\* The interval between two tries, and the conversation's heat.

\* resolveCheckinTokenPressureBackoff: percentages of the window that is used.
Multiplier(used, p) ==
  IF used >= p.severe THEN p.severeTimes ELSE IF used >= p.backoff THEN p.times ELSE 1

\* applyCheckinTokenPressureBackoff.
Stretched(range, times, bound) ==
  IF times = 1 THEN range
  ELSE LET most == Max({bound, range[2]})
           lo == Min({most, range[1] * times})
       IN <<lo, Max({lo, Min({most, range[2] * times})})>>

\* hasRecentActivity and getConversationHeat, from the times of messages.
RecentlyActive(times, now, window) == \E i \in DOMAIN times : now - times[i] < window
Hot(times, now, h) ==
  /\ Cardinality({i \in DOMAIN times : now - times[i] <= h.window}) >= h.events
  /\ \E i \in DOMAIN times : now - times[i] <= h.recent

-----------------------------------------------------------------------------
\* resolveCheckinReadiness, and the rest of a round of runSystemCheckinPoller:
\* what is asked in turn, and the first that says no.

TokenUsable(now, tokenAt, c) ==
  \/ c.maxAge = 0
  \/ /\ tokenAt # None
     /\ \/ now - tokenAt <= c.maxAge
        \/ now - tokenAt <= c.graceAge /\ InWindow(MinuteOf(now), c.grace)

Round(now, s, c) ==
  CASE s.queued                                    -> "pending_system_queue"
    [] s.deferred > 0                              -> "deferred_replies_pending"
    [] Cooling(s.cooldown, now)                    -> "runtime_cooldown"
    [] Quiet(now, c.quiet)                         -> "quiet_hours"
    [] BudgetAction("checkin", BudgetExceeded(s.contexts, now, c.budget)) = "drop"
                                                   -> "daily_checkin_budget"
    [] ~TokenUsable(now, s.tokenAt, c)             -> "stale_context_token"
    [] RecentlyActive(s.activity, now, c.active)   -> "active_conversation"
    [] Hot(s.activity, now, c.heat)                -> "hot_conversation"
    [] ~WakeDue(s.contexts, now, c.gap)            -> "model_wake_min_gap"
    [] OTHER                                       -> "queue"

-----------------------------------------------------------------------------
\* Properties.

\* The time left of a window is the time to its end, over midnight too.
QuietEnds(w, m) ==
  IF InWindow(m, w)
  THEN /\ (m + UntilEnd(m, w)) % Day = w[2]
       /\ \A k \in 0..(UntilEnd(m, w) - 1) : InWindow((m + k) % Day, w)
  ELSE UntilEnd(m, w) = 0

\* A pause ends soon after the day does.
PauseEnds(now) ==
  /\ DayOf(now + Pause(now)) = DayOf(now) + 1
  /\ MinuteOf(now + Pause(now)) <= Step + Margin

\* A cooldown ends with the next reset that the notice announces: the one before it
\* is over, or was on the day (in the year) before.
CooldownEnds(now, n) ==
  LET at == ResetAt(now, n, Day) - Margin
      period == IF n.kind = "clock" THEN Day ELSE Year * Day
  IN n.kind \in {"clock", "date"} =>
       /\ at + Margin > now
       /\ at + Margin - period <= now \/ (at - period) \div period < now \div period
       /\ at % Day = n.minute
       /\ n.kind = "date" => (at \div Day) % Year = n.day

\* Pressure only stretches the interval.
StretchKeeps(lo, hi, bound) ==
  \A used \in 0..3 :
    LET times == Multiplier(used, [severe |-> 3, severeTimes |-> 3, backoff |-> 2, times |-> 2])
        r == Stretched(<<lo, hi>>, times, bound)
    IN lo <= hi => lo <= r[1] /\ r[1] <= r[2] /\ hi <= r[2] /\ r[2] <= Max({hi, bound})

\* Two days of rounds, one a minute: the model is woken in a thread of its own,
\* the user's last message came at time "last" and, if the configuration of the
\* case says so, a notice of the limit with it.  A turn's usage is recorded twice,
\* the second time without its numbers.
Woken(s, t) ==
  LET used == [system |-> TRUE, at |-> t, tokens |-> 1]
  IN [s EXCEPT !.contexts = Recorded(Recorded(@, t, used), t, [used EXCEPT !.tokens = 0])]
After(s, t, c) == IF Round(t, s, c) = "queue" THEN Woken(s, t) ELSE s
Started(c, last) ==
  [queued |-> FALSE, deferred |-> 0,
   cooldown |-> IF c.notice.kind = "nothing" THEN None ELSE Cooldown(None, last, c.notice, Day),
   contexts |-> Recorded(<<>>, last, [system |-> FALSE, at |-> last, tokens |-> 1]),
   tokenAt |-> last, activity |-> <<last>>]
Rounds(c, last, until) ==
  LET state[t \in last..until] == IF t = last THEN Started(c, last) ELSE After(state[t - 1], t, c)
  IN state[until]

CheckinConfigs ==
  {[maxAge |-> a, graceAge |-> a + 1, grace |-> g, quiet |-> q, gap |-> m, active |-> 1,
    heat |-> [window |-> 2, recent |-> 1, events |-> 2], budget |-> b, notice |-> n] :
     a \in {0, Day \div 2}, g \in {<<1, 3>>}, q \in {<<1, 2>>, <<Day - 1, 2>>}, m \in 0..2,
     b \in [tokens : {0, 2}, threads : {0, 1, 3}],
     n \in {[kind |-> "nothing"], [kind |-> "none"], [kind |-> "clock", minute |-> 2]}}

\* Over two days the model is woken only outside the quiet hours and the cooldown,
\* while the user can be reached, no sooner than the gap after the last wake, at
\* most as often as the day's budget allows; and a day's budget is its own: a user
\* who can be reached all the time is woken for on the second day too.
WakesInBounds(c, last) ==
  LET AtMost(n, S) == n > 0 => Cardinality(S) <= n
      Bounded(wakes) ==
        LET On(d) == {t \in wakes : DayOf(t) = d}
        IN /\ \A t \in wakes : ~InWindow(MinuteOf(t), c.quiet)
           /\ \A t \in wakes : c.notice.kind = "nothing" \/ t >= ResetAt(last, c.notice, Day)
           /\ \A t \in wakes : c.maxAge = 0 \/ t - last <= c.graceAge
           /\ \A t, u \in wakes : t < u => u - t >= c.gap
           /\ \A d \in 0..1 : AtMost(c.budget.threads, On(d)) /\ AtMost(c.budget.tokens, On(d))
           /\ c.maxAge = 0 /\ c.notice.kind = "nothing" => On(1) # {}
  IN Bounded(DOMAIN Rounds(c, last, 2 * Day - 1).contexts \ {last})
=============================================================================
