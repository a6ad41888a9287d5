------------------------------ MODULE WarmRecall ------------------------------
(***************************************************************************)
(* How warm cards come into a turn: the recall by query                    *)
(* (asherie/warm-memory/search.js, route-signals.js), and the resident,    *)
(* ambient and self-axis packets (asherie/memory-channels.js).             *)
(*                                                                         *)
(* Scores are percentages.  What text matching finds out of a query and a  *)
(* card is given: a query [chars, strong, ordinary, tokens, intents, asked]*)
(* and, for each card, [exact, core, extra, strong, semantic, tags,        *)
(* activation, certainty, voice, resident].                                *)
(***************************************************************************)
EXTENDS Integers, Sequences, FiniteSets, SequencesExt, FiniteSetsExt

RecallModes == {"user", "proactive", "background"}

\* buildWarmRecallGate: why a query of the user is answered, or not.
Intents == {"explicit", "topic", "answer", "affective", "operational", "phatic"}
Intended(q) ==
  \/ q.intents \intersect {"explicit", "topic", "affective"} # {}
  \/ q.strong >= 2 /\ "operational" \notin q.intents
Phatic(q) == q.chars <= 2 \/ "phatic" \in q.intents
Suppressed(q, mode) ==
  /\ mode = "user"
  /\ \/ q.chars = 0
     \/ /\ ~Intended(q)
        /\ \/ Phatic(q)
           \/ "operational" \in q.intents /\ q.strong < 3
           \/ q.chars <= 18 /\ q.strong < 1 /\ "answer" \notin q.intents
           \/ q.tokens = 0 /\ q.chars <= 28
           \/ q.strong < 1 /\ q.ordinary < 2 /\ "answer" \notin q.intents

\* buildSemanticSimilarity: 1 - exp(-0.7 n) for n core hits.
KeywordRatio(n) == IF n = 0 THEN 0 ELSE IF n = 1 THEN 50 ELSE IF n = 2 THEN 75 ELSE 88
Lexical(c, q) == IF q.tokens = 0 THEN 0 ELSE (100 * c.core) \div q.tokens
Blend(c, q, mode) ==
  LET w == CASE mode = "user"       -> [keyword |-> 45, lexical |-> 30, semantic |-> 25]
             [] mode = "proactive"  -> [keyword |-> 23, lexical |-> 32, semantic |-> 45]
             [] mode = "background" -> [keyword |-> 13, lexical |-> 25, semantic |-> 62]
  IN (w.keyword * KeywordRatio(c.core) + w.lexical * Lexical(c, q) + w.semantic * c.semantic) \div 100

\* selectRecallWeights.
Weights(mode) ==
  CASE mode = "user" ->
         [semantic |-> 56, activation |-> 16, exact |-> 12, certainty |-> 8, route |-> 8]
    [] mode = "proactive" ->
         [semantic |-> 30, activation |-> 30, exact |-> 10, certainty |-> 14, route |-> 16]
    [] mode = "background" ->
         [semantic |-> 62, activation |-> 24, exact |-> 4, certainty |-> 6, route |-> 4]

\* buildWarmRoutePrior, from what the card is about and what the query asks for.
Route(c, q, mode) ==
  LET tags == c.tags
      If(p, n) == IF p THEN n ELSE 0
      Some(S) == tags \intersect S # {}
      sum == If("relationship" \in tags, 5) + If("anchor" \in tags, 16)
             + If("identity" \in tags /\ "relationship" \notin tags, 3) + If("family" \in tags, 10)
             + If(mode = "proactive" /\ "symbolic" \in tags, 12)
             + If(mode = "proactive" /\ "object" \in tags, 9)
             + If("importance" \in q.asked /\ Some({"relationship", "symbolic", "object"}), 14)
             + If("relational" \in q.asked /\ Some({"relationship", "identity"}), 12)
             + If("symbolic" \in q.asked /\ Some({"symbolic", "object"}), 13)
             + If("object" \in q.asked /\ "object" \in tags, 15)
             + If(c.exact, 8) + If(c.core > 0 /\ Some({"relationship", "symbolic", "object"}), 4)
  IN Min({72, sum})

\* scoreWarmRow and buildCandidateSeed.
Exact(c) == IF c.exact THEN 100 ELSE 0
Score(c, q, mode) ==
  LET w == Weights(mode)
  IN (w.semantic * Blend(c, q, mode) + w.activation * c.activation + w.exact * Exact(c)
        + w.certainty * c.certainty + w.route * Route(c, q, mode)) \div 100
Seed(c, q, mode) ==
  LET b == Blend(c, q, mode)
  IN CASE mode = "user"       -> (56 * b + 16 * Exact(c) + 16 * Route(c, q, mode) + 12 * c.activation) \div 100
       [] mode = "proactive"  -> (45 * b + 28 * Route(c, q, mode) + 15 * Exact(c) + 12 * c.activation) \div 100
       [] mode = "background" -> (88 * b + 12 * Exact(c)) \div 100

\* passesWarmRecallThreshold, with the default configuration.
Passes(c, q, mode) ==
  LET hits == c.core + c.extra
      lexical == Lexical(c, q)
      score == Score(c, q, mode)
      felt == "affective" \in q.intents
  IN \/ c.exact
     \/ /\ mode = "user"
        /\ ~(felt /\ ~c.voice /\ ~c.resident /\ hits <= 1)
        /\ \/ c.strong /\ (c.semantic >= 3 \/ lexical >= 8)
           \/ felt /\ c.strong /\ (Route(c, q, mode) >= 5 \/ lexical >= 6 \/ c.semantic >= 2)
           \/ /\ score > 20
              /\ \/ Blend(c, q, mode) >= 7 /\ c.semantic >= 3
                 \/ Route(c, q, mode) >= 12 /\ lexical >= 8
     \/ mode # "user" /\ (hits > 0 \/ score > 20)
     \/ mode = "proactive" /\ Route(c, q, mode) >= 18

\* buildWarmMemoryRecallPacket: the pool by seed, what passes of it, the best of that.
BestFirst(S, Key(_), n) ==
  LET Before(i, j) == Key(i) > Key(j) \/ (Key(i) = Key(j) /\ i < j)
      Upto(s) == SubSeq(s, 1, Min({n, Len(s)}))
  IN Upto(SetToSortSeq(S, Before))
Recalled(cards, q, mode, limit, pool) ==
  LET Of(seed, score) ==
        LET SeedOf(i) == 1000 * seed[i] + score[i]
            ScoreOf(i) == 1000 * score[i] + seed[i]
            candidates == Range(BestFirst(DOMAIN cards, SeedOf, Max({limit, pool})))
            passed == {i \in candidates : Passes(cards[i], q, mode)}
        IN BestFirst(passed, ScoreOf, Max({1, limit}))
  IN IF Suppressed(q, mode) THEN <<>>
     ELSE Of([i \in DOMAIN cards |-> Seed(cards[i], q, mode)],
             [i \in DOMAIN cards |-> Score(cards[i], q, mode)])

\* Cards as matching can find them: the exact words contain every token, and without
\* a token only fragments of words are alike.
Matches(tokens) ==
  {c \in [exact : BOOLEAN, core : 0..tokens, extra : {0}, strong : BOOLEAN, semantic : {0, 30, 90},
          tags : {{}, {"anchor", "family", "object"}}, activation : {10, 90}, certainty : {10, 100}, voice : {FALSE},
          resident : {FALSE}] :
     /\ c.exact => c.core = tokens
     /\ c.strong = (c.core > 0)
     /\ c.core = 0 => c.semantic <= 35
     /\ (c.certainty = 100) = (c.activation = 90)}

-----------------------------------------------------------------------------
\* The cards that come without a query.  A card is the set of what it is: "yes" and
\* "no" are what its owner says of its residence.
Traits == {"yes", "no", "pinned", "anchor", "settled", "voice", "work", "texture", "hard",
           "soft", "filed"}
KnownCards(most) ==
  {k \in UNION {kSubset(n, Traits) : n \in 0..most} :
     ~({"yes", "no"} \subseteq k) /\ ~({"anchor", "settled"} \subseteq k)}

WorkOnly(k) == "work" \in k /\ "voice" \notin k
\* Mutant: a pin counts for more than the owner's word.
PinnedResides(k) == "yes" \in k \/ (~WorkOnly(k) /\ ({"pinned", "anchor"} \intersect k # {}))
\* residentPreference.
Resident(k) ==
  \/ "yes" \in k
  \/ "no" \notin k /\ ~WorkOnly(k) /\ ({"pinned", "anchor"} \intersect k # {})
\* What ambientReasons and selfAxisCandidateProjection refuse; "texture" stands for
\* the words of both.
Unfit(k) == WorkOnly(k) \/ "hard" \in k \/ ("soft" \in k /\ "voice" \notin k)
Ambient(k) == ~Resident(k) /\ "filed" \notin k /\ ~Unfit(k) /\ "texture" \in k
AmbientPriority(k) ==
  IF ~Ambient(k) THEN 0
  ELSE 20 + (IF "pinned" \in k THEN 10 ELSE 0) + (IF {"settled", "anchor"} \intersect k # {} THEN 8 ELSE 0)
SelfAxis(k) == "texture" \in k /\ ~Unfit(k)

\* buildResidentWarmMemoryPacket, buildAmbientWarmMemoryPacket.
Residents(cards, limit) ==
  LET Same(i) == 0 IN BestFirst({i \in DOMAIN cards : Resident(cards[i])}, Same, limit)
Ambients(cards, hidden, limit) ==
  LET Priority(i) == AmbientPriority(cards[i])
  IN BestFirst({i \in DOMAIN cards \ hidden : Ambient(cards[i])}, Priority, limit)
\* buildAgentCharSelfAxisMaterialPacket: the first of each card in the three packets.
SelfAxisOf(cards, packets, limit) ==
  LET Upto(all) == SubSeq(all, 1, Min({limit, Len(all)}))
  IN Upto(FoldLeft(LAMBDA out, i : IF SelfAxis(cards[i]) /\ i \notin Range(out)
                                   THEN Append(out, i) ELSE out, <<>>, packets))

-----------------------------------------------------------------------------
\* Properties.

\* What is recalled for the user's query is in the order of its score, and a card
\* that holds the very words gives way only to cards that match the query too.
\* Small talk without an intent recalls nothing.
RecallHonest(cards, q, mode, limit, pool) ==
  LET ofExact == {i \in DOMAIN cards : cards[i].exact}
      Honest(out) ==
        /\ Len(out) <= Max({1, limit})
        /\ (mode = "user" /\ Phatic(q) /\ ~Intended(q)) => out = <<>>
        /\ (mode = "user" /\ ~Suppressed(q, mode) /\ q.tokens > 0 /\ ofExact \ Range(out) # {}) =>
             /\ Len(out) = Max({1, limit})
             /\ \A i \in Range(out) : cards[i].exact \/ cards[i].core > 0
  IN Honest(Recalled(cards, q, mode, limit, pool))

\* The owner's word on a card's residence is kept, residents are crowded out by
\* residents only, a card that is resident or was recalled is not ambient as well,
\* and nothing comes without a query that is about work and has no voice, unless its
\* owner says so.
PacketsHonest(cards, recalled, limit) ==
  LET Honest(residents, ambients, axis) ==
        /\ \A i \in Range(residents) : "no" \notin cards[i]
        /\ \A i \in DOMAIN cards \ Range(residents) : "yes" \in cards[i] => Len(residents) = limit
        /\ \A i \in Range(ambients) : i \notin recalled /\ ~Resident(cards[i])
        /\ \A i \in Range(residents \o ambients \o axis) : ~WorkOnly(cards[i]) \/ "yes" \in cards[i]
        /\ \A i, j \in DOMAIN axis : axis[i] = axis[j] => i = j
        /\ Range(axis) \subseteq Range(residents \o ambients)
      Beside(residents, ambients) ==
        Honest(residents, ambients, SelfAxisOf(cards, residents \o ambients, limit))
      With(residents) == Beside(residents, Ambients(cards, Range(residents) \union recalled, limit))
  IN With(Residents(cards, limit))
=============================================================================
