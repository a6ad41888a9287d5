---------------------------- MODULE MemoryDelivery ----------------------------
(***************************************************************************)
(* Which layers of memory a turn is given (asherie/                        *)
(* memory-delivery-profile.js and captureContextPacket of services/        *)
(* asherie-memory-service.js), the time a message speaks of                *)
(* (asherie/temporal-recall.js), and how the prelude is cut to its budget. *)
(*                                                                         *)
(* A message is the set of the patterns it matches, a size, and what the   *)
(* turn says of itself.  Matching itself is left out.                      *)
(***************************************************************************)
EXTENDS Integers, Sequences, FiniteSets, SequencesExt, FiniteSetsExt

\* The patterns; "person" and "matter" are the words of the probes of episodes and
\* of observations.
Explicit == {"memory", "ongoing", "overview", "episode", "observation"}
Words == Explicit \union {"warm", "affective", "temporal", "reading", "task", "close",
                          "marker", "person", "matter", "self"}

Sizes == {0, 5, 7, 11, 18, 24, 30}

\* "triggered" and "expanded" are the recall focus's: a signal of recall, and a
\* query to which the turns before were added; "recall" has what that query matches.
Messages(most) ==
  {m \in [words : UNION {kSubset(k, Words) : k \in 0..most}, size : Sizes, triggered : BOOLEAN,
          expanded : BOOLEAN, recall : {{}} \union {{r} : r \in {"asked", "history", "continued", "solitude"}},
          mode : {"user", "proactive", "lite"}, handoff : BOOLEAN] :
     /\ m.size = 0 => m.words = {}
     /\ (m.expanded \/ "asked" \in m.recall) => m.triggered}

Has(m, S) == m.words \intersect S # {}

\* looksLikeLooseOperationalClose.
Closes(m) == "close" \in m.words /\ m.size \in 1..24
\* looksLikeLowContextChat, and nothing explicit in it.
Low(m) ==
  /\ m.size = 0 \/ (m.size <= 18 /\ "marker" \in m.words /\ "task" \notin m.words)
  /\ ~Has(m, Explicit \union {"affective", "temporal"})
Active(m) == "task" \in m.words /\ ~Closes(m)
Ongoing == {"ongoing", "overview"}

EpisodeProbe(m) ==
  /\ m.size >= 8 /\ ~Low(m) /\ ~Closes(m)
  /\ \/ Has(m, {"memory", "episode", "temporal", "reading", "person"})
     \/ Has(m, Ongoing) /\ m.size >= 12
ObservationProbe(m) == m.size >= 6 /\ ~Low(m) /\ ~Closes(m) /\ "matter" \in m.words

Casual(m) ==
  /\ m.size > 0 /\ ~m.triggered /\ ~m.handoff /\ ~Active(m) /\ ~Closes(m)
  /\ ~Has(m, Explicit \union {"warm", "affective", "temporal", "reading"})

\* Mutant: feelings come before an explicit question of memory.
TierByFeeling(m) ==
  IF m.mode = "lite" THEN "heartbeat_lite"
  ELSE IF "affective" \in m.words THEN "affective_warm"
  ELSE IF Has(m, {"memory", "overview"}) THEN "full"
  ELSE "focused"
\* resolveMemoryDeliveryProfile: the tier.
Tier(m) ==
  LET subject == {"reading", "warm", "episode", "observation"} \union Ongoing
  IN IF m.mode = "lite" THEN "heartbeat_lite"
     ELSE IF Has(m, {"memory", "overview"}) THEN "full"
     ELSE IF "affective" \in m.words /\ ~Has(m, {"ongoing", "episode", "observation"})
          THEN "affective_warm"
     ELSE IF Active(m) /\ ~Has(m, subject) THEN "task_ambient"
     ELSE IF m.triggered \/ Has(m, subject) THEN "focused"
     ELSE IF Low(m) \/ Casual(m) THEN "ambient_warm"
     ELSE "resident_only"

\* resolveMemoryDeliveryProfile: the layers.
Layers(m) ==
  LET When(p, layer) == IF p THEN {layer} ELSE {}
      lite == m.mode = "lite"
      Of(tier, wide) ==
        {"resident"}
          \union When(tier # "resident_only" \/ m.handoff, "ambient")
          \union When(wide \/ tier = "affective_warm", "warm")
          \union When(wide, "ongoing")
          \union When((EpisodeProbe(m) \/ (wide /\ Has(m, {"episode", "memory", "temporal"})))
                        /\ (lite => "episode" \in m.words), "episode")
          \union When((wide \/ ObservationProbe(m)) /\ (lite => "observation" \in m.words),
                      "observation")
          \union When("temporal" \in m.words /\ tier \notin {"resident_only", "ambient_warm"},
                      "temporal")
          \union When(wide /\ ~lite, "cold")
      Tiered(tier) == Of(tier, tier \in {"focused", "full"})
  IN Tiered(Tier(m))

\* shouldSearchColdRootsForTurn.
ColdSearched(m) ==
  /\ "cold" \in Layers(m)
  /\ \/ "history" \in m.recall
     \/ m.mode = "user" /\ m.expanded /\ "continued" \in m.recall
\* shouldSearchLocalArchiveFallback: only when the roots had nothing.
ArchiveSearched(m, coldHits) == ColdSearched(m) /\ coldHits = 0

\* captureContextPacket: the layers that are delivered, of those that hold something.
Delivered(m, full) ==
  LET hits == IF "cold" \in full THEN 1 ELSE 0
  IN {l \in Layers(m) \intersect full : l = "cold" => ColdSearched(m)}
       \union {l \in {"archive"} \intersect full : ArchiveSearched(m, hits)}

Stores == {"resident", "ambient", "warm", "ongoing", "episode", "observation", "temporal",
           "cold", "archive", "hot", "calendar", "wakeup", "solitude", "version"}

\* shouldIncludeSolitudeDigestForTurn, shouldIncludeAgentCharSelfAxisMaterialForTurn
\* and shouldIncludeColdPrelude, where the caller does not decide.
SolitudeShown(m) == m.mode # "user" \/ "solitude" \in m.recall
SelfAxisShown(m) == m.mode # "lite" /\ "self" \in m.words
ColdNamed(m, hits) ==
  hits > 0 \/ m.recall \intersect {"asked", "history"} # {} \/ "overview" \in m.words

\* resolveRecentThreadPreludeLimit, and what a continuity turn makes of it.
AsksBack(m) == "asked" \in m.recall \/ m.expanded
RecentLimit(m, continuity, base) ==
  IF base = 0 \/ (continuity /\ ~AsksBack(m)) THEN 0
  ELSE IF m.handoff THEN Min({Max({base, 8}), 12})
  ELSE IF m.mode # "user" \/ "asked" \in m.recall THEN Min({base, 2})
  ELSE IF m.expanded THEN 1 ELSE 0
\* shouldIncludeRecentContextPrelude, and the mode.
RecentShown(m, continuity, base) ==
  IF m.mode = "user" /\ (m.handoff \/ AsksBack(m)) THEN RecentLimit(m, continuity, base) ELSE 0

\* buildRuntimePrelude: the sections that a turn's prelude has, in their order; first
\* the layers, then what the turn itself calls for.
LayerSections(m, full) ==
  LET Shown(l, delivered) ==
        CASE l = "hot"      -> l \in full
          [] l = "self"     ->
               SelfAxisShown(m) /\ delivered \intersect {"resident", "ambient", "warm"} # {}
          [] l = "solitude" -> SolitudeShown(m) /\ l \in full
          [] l = "version"  -> l \in full /\ ColdNamed(m, IF "cold" \in delivered THEN 1 ELSE 0)
          [] OTHER          -> l \in delivered
      Of(delivered) ==
        SelectSeq(<<"hot", "resident", "ambient", "self", "warm", "ongoing", "episode",
                    "observation", "solitude", "cold", "version", "archive">>,
                  LAMBDA l : Shown(l, delivered))
  IN Of(Delivered(m, full))
TurnSections(m, full, continuity) ==
  LET recent == RecentShown(m, continuity, 3) > 0
      Shown(l) ==
        CASE l = "focus"    -> m.expanded
          [] l = "temporal" -> l \in Delivered(m, full)
          [] l = "recent"   -> recent
          [] l = "snippets" -> recent /\ ~m.handoff
          [] OTHER          -> l \in full
  IN SelectSeq(<<"focus", "temporal", "recent", "calendar", "wakeup", "snippets">>, Shown)
Sections(m, full, continuity) == LayerSections(m, full) \o TurnSections(m, full, continuity)

-----------------------------------------------------------------------------
\* The prelude's budget.

\* A line is [rank, size]: 1 is protected, 2 medium, 3 dynamic, 0 the notice.
\* The lines are joined by newlines.
Length(lines) == FoldLeft(LAMBDA n, l : n + l.size + (IF n = 0 THEN 0 ELSE 1), 0, lines)

\* applyRuntimePreludeBudget.
Budgeted(lines, hard, notice) ==
  LET Class(r) == SelectSeq(lines, LAMBDA l : l.rank = r)
      Fitting == FoldLeft(LAMBDA out, l : IF Length(Append(out, l)) <= hard THEN Append(out, l) ELSE out,
                          <<>>, Class(1) \o Class(2) \o Class(3))
      Noticed(kept, more) ==
        IF Len(kept) < Len(lines) /\ Length(more) <= hard THEN more ELSE kept
      With(kept) == Noticed(kept, Append(kept, [rank |-> 0, size |-> notice]))
      OrFirst(all) == IF all = <<>> THEN SubSeq(lines, 1, 1) ELSE all
  IN IF Length(lines) <= hard THEN lines ELSE OrFirst(With(Fitting))

-----------------------------------------------------------------------------
\* The time a message speaks of: days are counted from a first one.

\* resolveExactDate and inferMonthDay: a day of the year is this year's, or
\* last year's if this year's is more than two days ahead.
DateMeant(d, today, year) ==
  LET this == (today \div year) * year + d
  IN IF this > today + 2 THEN this - year ELSE this

\* resolveRelativeRange and the fuzzy past of buildTemporalRecallPlan: the first
\* and the last day; weeks begin with the days that are multiples of "week", and
\* the months, which are like weeks, are left out.
RangeMeant(w, today, week) ==
  LET monday == today - (today % week)
  IN CASE w.kind = "ago"    -> <<today - w.days, today - w.days>>
       [] w.kind = "recent" -> <<today - Max({1, w.days - 1}), today>>
       [] w.kind = "days"   -> <<today - 2, today>>
       [] w.kind = "week"   -> <<monday - week, monday - 1>>
       [] w.kind = "today"  -> <<today, today>>
       [] w.kind = "fuzzy"  -> <<today - 14, today>>

\* listTimeWindow: the records of the window that match best, in their order.
InTime(records, window, limit) ==
  LET inside == {i \in DOMAIN records : records[i].day \in window[1]..window[2]}
      Rank(i) == <<records[i].score, records[i].day, -i>>
      Above(x, y) == \/ x[1] > y[1]
                     \/ x[1] = y[1] /\ x[2] > y[2]
                     \/ x[1] = y[1] /\ x[2] = y[2] /\ x[3] > y[3]
      best == {i \in inside :
                 Cardinality({j \in inside : Above(Rank(j), Rank(i))}) < Max({1, limit})}
  IN SetToSortSeq(best, LAMBDA i, j :
       Above(<<0, records[j].day, -i>>, <<0, records[i].day, -j>>))

-----------------------------------------------------------------------------
\* Open tracks that have the same title are one: shouldPreferOngoingTrackCandidate
\* and collapseOngoingTracksByTitle.

Preferred(a, b) ==
  IF a.sparse # b.sparse THEN ~a.sparse
  ELSE IF a.touched # b.touched THEN a.touched > b.touched
  ELSE IF a.score # b.score THEN a.score > b.score ELSE a.id > b.id
Collapsed(tracks) ==
  FoldLeft(LAMBDA out, t :
     IF \E i \in DOMAIN out : out[i].title = t.title
     THEN [i \in DOMAIN out |->
             IF out[i].title = t.title /\ Preferred(t, out[i]) THEN t ELSE out[i]]
     ELSE Append(out, t), <<>>, tracks)

-----------------------------------------------------------------------------
\* Properties.

\* The residents come with every turn.  A question of memory opens every layer, but
\* in a lite turn, and to speak of memory never closes a layer that was open.  Small
\* talk brings no more than the background, a lite turn never cold memory, and the
\* archive speaks only where cold memory is silent.
LayersHonest(m) ==
  LET asked == [m EXCEPT !.words = @ \union {"memory"}]
      Honest(open) ==
        /\ "resident" \in open
        /\ ("memory" \in m.words /\ m.mode # "lite") =>
             {"ambient", "warm", "ongoing", "episode", "observation", "cold"} \subseteq open
        /\ m.size > 0 => open \subseteq Layers(asked)
        /\ (m.words \subseteq {"marker", "close"} /\ ~m.triggered) =>
             open \subseteq {"resident", "ambient"}
        /\ m.mode = "lite" => open \intersect {"cold", "warm", "ongoing"} = {}
        /\ ~({"cold", "archive"} \subseteq Delivered(m, Stores))
        /\ "archive" \in Delivered(m, Stores \ {"cold"}) =>
             m.mode # "lite" /\ "cold" \in open
  IN Honest(Layers(m))

\* The words of recent turns are repeated to the model only for a message that asks
\* back or in a turn that takes over from a session, and never where the model wakes
\* itself; a turn that takes over is given them, unless it is a continuity turn.
RecentHonest(m, continuity) ==
  LET Honest(sections) ==
        /\ "recent" \in sections => m.mode = "user" /\ (m.handoff \/ AsksBack(m))
        /\ (m.handoff /\ m.mode = "user" /\ ~continuity) => "recent" \in sections
        /\ "snippets" \in sections => "recent" \in sections /\ ~m.handoff
        /\ m.mode = "lite" => sections \intersect {"self", "cold", "archive", "warm"} = {}
        /\ ("recent" \in sections /\ ~AsksBack(m)) => ~continuity
  IN Honest(Range(Sections(m, Stores, continuity)))

\* A prelude keeps its budget, unless it is one line, and a line that was left out
\* gave way to lines of its own class or of a higher one.
BudgetKept(lines, hard, notice) ==
  LET Times(l, s) == Len(SelectSeq(s, LAMBDA k : k = l))
      Kept(out) ==
        /\ out # <<>> \/ lines = <<>>
        /\ Length(out) <= hard \/ Len(out) = 1
        /\ \A l \in Range(lines) :
             /\ Times(l, out) <= Times(l, lines)
             /\ Times(l, out) < Times(l, lines) =>
                  Length(Append(SelectSeq(out, LAMBDA k : k.rank \in 1..l.rank), l)) > hard
  IN Kept(Budgeted(lines, hard, notice))

\* A day that is named is the nearest such day that has been, or two days hence at
\* most; what is relative lies behind.
TimesMeant(d, w, today, year, week) ==
  LET at == DateMeant(d, today, year)
      range == RangeMeant(w, today, week)
  IN /\ at % year = d /\ at <= today + 2
     /\ \A k \in (at + 1)..(today + 2) : (k % year # d \/ k \div year > today \div year)
     /\ range[1] <= range[2] /\ range[2] <= today
     /\ w.kind = "recent" => w.days <= range[2] - range[1] + 1
     /\ w.kind = "week" => (/\ range[2] - range[1] + 1 = week /\ range[1] % week = 0
                           /\ today - range[2] \in 1..week)

\* What is shown of a window is its best, in the order of time.
RecordsInTime(records, window, limit) ==
  LET inside == {i \in DOMAIN records : records[i].day \in window[1]..window[2]}
      Best(shown) ==
        /\ Len(shown) = Min({Cardinality(inside), Max({1, limit})})
        /\ \A i, j \in DOMAIN shown : i < j => records[shown[i]].day <= records[shown[j]].day
        /\ \A i \in inside \ Range(shown), j \in Range(shown) : records[i].score <= records[j].score
  IN Best(InTime(records, window, limit))

\* One track of each title is shown: the one that is preferred to all the others.
TracksCollapsed(tracks) ==
  LET One(out) ==
        /\ {t.title : t \in Range(out)} = {t.title : t \in Range(tracks)}
        /\ \A i, j \in DOMAIN out : out[i].title = out[j].title => i = j
        /\ \A t \in Range(tracks), u \in Range(out) :
             (t.title = u.title) => (t = u \/ Preferred(u, t))
  IN One(Collapsed(tracks))
=============================================================================
