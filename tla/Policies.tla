------------------------------- MODULE Policies -------------------------------
(***************************************************************************)
(* The decisions that the program takes by calculation, each asked about   *)
(* an input of its own: the state is the input, and a step chooses it.     *)
(***************************************************************************)
EXTENDS CheckinPolicy, ReplyChunks, MemoryDelivery, WarmRecall,
        TurnContext, ModelChoice, ColdItems, HotContext

CONSTANTS
  MaxText,   \* the longest text, in characters
  Limits,    \* what one message can hold
  Shorts,    \* how short a chunk is that may be joined
  Mosts      \* how many messages a reply may have

VARIABLE input

\* The bridge and the memory are asked about apart.
Unasked(who) == [about |-> "nothing", of |-> who]
Sayings == UNION {[1..n -> Kinds] : n \in 0..MaxText}

AskWindow == \E w \in Windows, m \in Minutes : input' = [about |-> "window", window |-> w, minute |-> m]
AskNotice == \E t \in Times, n \in Notices : input' = [about |-> "notice", now |-> t, notice |-> n]
AskRange ==
  \E lo, hi, bound \in Minutes : input' = [about |-> "range", lo |-> lo, hi |-> hi, bound |-> bound]
AskCheckin == \E c \in CheckinConfigs, t \in 0..(Day - 1) : input' = [about |-> "checkin", config |-> c, last |-> t]
AskReply ==
  \E t \in Sayings, l \in Limits, s \in Shorts, m \in Mosts :
    input' = [about |-> "reply", text |-> t, limit |-> l, short |-> s, most |-> m]
AskMessage == \E m \in Messages(2) : input' = [about |-> "message", message |-> m]
AskPrelude ==
  \E n \in 0..4 : \E ls \in [1..n -> [rank : 1..3, size : {1, 3}]], hard \in {3, 6, 9} :
    input' = [about |-> "prelude", lines |-> ls, hard |-> hard]
AskTime ==
  \E d \in 0..5, today \in 15..30,
     w \in [kind : {"ago", "recent"}, days : 1..4] \union [kind : {"days", "week", "today", "fuzzy"}] :
    input' = [about |-> "time", day |-> d, today |-> today, words |-> w]
AskRecords ==
  \E n \in 0..3 : \E rs \in [1..n -> [day : 0..2, score : 0..1]], a, b \in 0..2, l \in 1..2 :
    input' = [about |-> "records", records |-> rs, window |-> <<a, b>>, limit |-> l]
AskTracks ==
  \E n \in 0..3 : \E ts \in [1..n -> [title : 1..2, sparse : BOOLEAN, touched : 0..1, score : 0..1]] :
    input' = [about |-> "tracks", tracks |-> [i \in 1..n |-> ts[i] @@ [id |-> i]]]
AskQuery ==
  \E chars \in {0, 2, 10, 20, 30}, strong, ordinary \in 0..3, tokens \in 0..2, k \in 0..2 :
    \E intents \in kSubset(k, Intents), c \in Matches(0) :
      input' = [about |-> "recall", cards |-> <<c>>, mode |-> "user", pool |-> 1,
                query |-> [chars |-> chars, strong |-> strong, ordinary |-> ordinary,
                           tokens |-> tokens, intents |-> intents, asked |-> {}]]
AskRecall ==
  \E c, d \in Matches(2), mode \in RecallModes, intents \in {{}, {"affective"}}, pool \in 1..2 :
    input' = [about |-> "recall", cards |-> <<c, d>>, mode |-> mode, pool |-> pool,
              query |-> [chars |-> 20, strong |-> 1, ordinary |-> 2, tokens |-> 2,
                        intents |-> intents, asked |-> {"object"}]]
AskCards ==
  \E n \in 1..2 : \E ks \in [1..n -> {k \in KnownCards(3) : n = 1 \/ Cardinality(k \ {"texture"}) < 3}],
                   seen \in {{}, {1}} :
    input' = [about |-> "cards", cards |-> ks, recalled |-> seen]
AskUsage ==
  \E summed \in {0, 59, 74, 80, 85, 92, 99, 120}, tokens \in {Absent, 0, 76, 90},
     window \in {Absent, 0, 100}, reserved \in {0, 10, 110},
     percents \in {0, Absent, 50, 76, 120} \X {Absent, 30, 95}, runtime \in Runtimes, on \in BOOLEAN :
    input' = [about |-> "usage", runtime |-> runtime,
              report |-> [tokens |-> tokens, summed |-> summed, window |-> window],
              config |-> [window |-> 100, reserved |-> reserved, compacts |-> on,
                          refreshPercent |-> percents[1], compactPercent |-> percents[2]]]
AskLimits ==
  \E k \in 1..3, d \in BOOLEAN : input' = [about |-> "limits", level |-> Levels[k], delivered |-> d]
AskModel ==
  LET names == {<<1>>, <<1, 2>>, <<2>>}
      words == [flag : {""}, name : names \union {Refresh}]
                 \union [flag : {"clear", "provider"}, name : {<<3>>}]
                 \union [flag : {"provider="}, name : {<<4>>}]
      models == {[id |-> row[1], model |-> row[2], shown |-> NoName, provider |-> NoName, aliases |-> {}]
                   : row \in {<<n, n>> : n \in names} \union {<<<<2>>, <<1, 2>>>>}}
      Upto(n, S) == UNION {[1..k -> S] : k \in 0..n}
  IN \E ws \in Upto(2, words), stored, offered \in Upto(2, models), runtime \in Runtimes,
        choices \in Upto(1, [alias : {NoName, <<2>>, <<1, 1>>}, model : names, provider : {NoName, <<3>>}]),
        provider \in {NoName, <<4>>} :
       /\ stored = OnePerModel(stored) /\ (stored = <<>> \/ offered = <<>>)
       /\ Len(choices \o offered \o stored) <= 2
       /\ input' = [about |-> "model", words |-> ws, runtime |-> runtime, offered |-> offered,
                    choices |-> choices,
                    now |-> [told |-> "", model |-> <<5>>, provider |-> provider, stored |-> stored]]
AskPatch ==
  \E n \in 1..3 : \E items \in [1..n -> [id : 0..2, name : 0..2]], sort \in Sorts, mode \in PatchModes,
       changes \in {<<0, 0, 9>>, <<0, 2, 0>>, <<2, 0, 0>>} :
    input' = [about |-> "patch", sort |-> sort, mode |-> mode,
              items |-> [i \in 1..n |-> items[i] @@ [body |-> i]],
              changes |-> [id |-> changes[1], name |-> changes[2], body |-> changes[3]]]
AskDuplicates ==
  LET Rows(titles, words, qualities) == [sort : Sorts, title : titles, words : words, quality : qualities]
  IN \E rows \in [1..3 -> Rows(0..1, {{1, 2, 3}, {1, 2, 4}}, 1..2)]
              \union [1..4 -> Rows(1..2, {{1, 2, 3}, {4, 5, 6}}, {1})],
        minScore \in {50, 78}, limit \in 1..2 :
       /\ IF Len(rows) = 3 THEN limit = 1 ELSE minScore = 78
       /\ input' = [about |-> "duplicates", rows |-> rows, minScore |-> minScore, limit |-> limit]
AskRelated ==
  \E edges \in [1..3 -> [from : 1..2, to : {0, 2, 3}, score : 1..2]], found \in {<<1>>, <<1, 2>>},
     each, limit \in 1..2 :
    input' = [about |-> "related", edges |-> edges, found |-> found, each |-> each, limit |-> limit]
AskSearch ==
  LET terms == 1..2
      Rows == {r \in [text : SUBSET terms, labels : SUBSET terms, query : {"word", "within", "not"}] :
                 r.labels \subseteq r.text /\ (r.query # "not" => r.labels = terms)}
  IN \E n \in 1..3, limit \in 1..2 : \E rows \in [1..n -> Rows] :
       input' = [about |-> "search", rows |-> rows, limit |-> limit]
AskPackage ==
  \E n \in 1..3, most \in 1..3 : \E tails \in [1..n -> {t \in (1..4) \X (1..4) : t[1] <= t[2]}] :
    input' = [about |-> "package", tails |-> tails, most |-> most]
AskSlices ==
  \E n \in 1..4, recent \in 1..2 : \E given \in [1..n -> [words : 0..2, at : 0..2]] :
    input' = [about |-> "slices", given |-> given, recent |-> recent]
AskHot ==
  \E n \in 0..3, turns \in {0, 1, 4}, loops \in {0, 1, 3}, asked, projected \in BOOLEAN, limit \in 1..2 :
    \E ps \in [1..n -> [score : 0..2, time : 1..2]] :
      input' = [about |-> "hot", turns |-> turns, loops |-> loops, asked |-> asked, limit |-> limit,
                projected |-> projected,
                packages |-> [i \in 1..n |-> ps[i] @@ [id |-> i]]]

Init == input \in {Unasked("bridge"), Unasked("memory")}
Next ==
  \/ /\ input = Unasked("bridge")
     /\ \/ AskWindow \/ AskNotice \/ AskRange \/ AskCheckin \/ AskReply
        \/ AskMessage \/ AskUsage \/ AskLimits \/ AskModel
  \/ /\ input = Unasked("memory")
     /\ \/ AskPrelude \/ AskTime \/ AskRecords \/ AskTracks \/ AskQuery \/ AskRecall \/ AskCards
        \/ AskPatch \/ AskDuplicates \/ AskRelated \/ AskSearch \/ AskPackage \/ AskSlices \/ AskHot
Spec == Init /\ [][Next]_input

-----------------------------------------------------------------------------
\* Times are honest: the end of a window is where it is said to be, a pause for
\* the day's budget lasts until the next day, a cooldown until the reset that the
\* notice announces, and pressure on tokens never shortens an interval.
TimesHonest ==
  CASE input.about = "window" -> QuietEnds(input.window, input.minute)
    [] input.about = "notice" -> PauseEnds(input.now) /\ CooldownEnds(input.now, input.notice)
    [] input.about = "range"  -> StretchKeeps(input.lo, input.hi, input.bound)
    [] OTHER -> TRUE

\* Check-ins keep the bounds their owner has set, over two days of rounds.
CheckinsInBounds == input.about = "checkin" => WakesInBounds(input.config, input.last)

\* A reply reaches the user in order and, but for what does not fit into the
\* messages it may have, whole.
RepliesKept ==
  input.about = "reply" =>
    /\ CutsKeepText(input.text, input.limit, input.short)
    /\ PackKeepsOrder(input.text, input.most, input.limit, input.short)

\* A turn is given the layers and the days of memory that its words and its
\* kind call for, in a prelude of the budget's size, with the best of the records and one of each track.
DeliveryHonest ==
  CASE input.about = "message" -> /\ LayersHonest(input.message)
                              /\ \A continuity \in BOOLEAN : RecentHonest(input.message, continuity)
    [] input.about = "time" -> TimesMeant(input.day, input.words, input.today, 6, 7)
    [] input.about = "prelude" -> BudgetKept(input.lines, input.hard, 2)
    [] input.about = "records" -> RecordsInTime(input.records, input.window, input.limit)
    [] input.about = "tracks"  -> TracksCollapsed(input.tracks)
    [] OTHER -> TRUE

\* The cards of a turn are those that match best or that belong to every turn, each
\* in the packet that its owner's word and its matter allow.
CardsHonest ==
  CASE input.about = "recall" ->
         RecallHonest(input.cards, input.query, input.mode, 1, input.pool)
    [] input.about = "cards" -> PacketsHonest(input.cards, input.recalled, 1)
    [] OTHER -> TRUE

\* A thread that fills up is compacted or left in time, and its turns ask for no more
\* memory the fuller it is; the user's choice of a model means what it says.
ThreadsFit ==
  CASE input.about = "usage"  -> ThresholdsMeet(input.report, input.runtime, input.config)
    [] input.about = "limits" -> LimitsNarrow(input.level, input.delivered)
    [] input.about = "model"  ->
         ChoiceHonest(input.words, input.runtime, input.now, input.offered, input.choices)
    [] OTHER -> TRUE

\* A patch of the cold memory changes the item that its key shows and no other one;
\* the roots offered as duplicates are those that are alike, of each group one stays;
\* the related roots are new ones, the likeliest first; and a root that is asked for
\* by its name is found first.
ColdHonest ==
  CASE input.about = "patch" ->
         PatchesWhatIsShown(input.sort, input.items, input.mode, input.changes)
    [] input.about = "duplicates" -> ClustersConnect(input.rows, input.minScore, input.limit)
    [] input.about = "search" -> NamedFirst(input.rows, input.limit)
    [] input.about = "related" -> RelatedHonest(input.edges, input.found, input.each, input.limit)
    [] OTHER -> TRUE

\* What is carried over from other windows: a package keeps its conversation's tail in
\* order, a turn is noted once, and the best package is shown.
HotHonest ==
  CASE input.about = "package" -> PackageInOrder(input.tails, input.most)
    [] input.about = "slices"  -> SlicesNotedOnce(input.given, 1, input.recent)
    [] input.about = "hot" ->
         HotLinesHonest(input.packages, input.turns, input.loops, input.projected, input.asked, input.limit)
    [] OTHER -> TRUE
=============================================================================
