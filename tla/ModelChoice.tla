------------------------------ MODULE ModelChoice ------------------------------
(***************************************************************************)
(* The /model command (core/app.js): the words of the command, the models  *)
(* that can be chosen, which of them a name means, and what is selected.   *)
(*                                                                         *)
(* A name is a sequence of letters, without their case; <<>> is no name.   *)
(***************************************************************************)
EXTENDS Integers, Sequences, FiniteSets, SequencesExt, FiniteSetsExt

NoName == <<>>
\* What joins words, and a model to its provider in a configured choice.
Space == 0
At == 9
Within(q, name) == \E k \in 0..(Len(name) - Len(q)) : SubSeq(name, k + 1, k + Len(q)) = q

\* find: the first model that fits.
First(models, fitting) ==
  LET S == {i \in DOMAIN models : models[i] \in fitting} IN IF S = {} THEN {} ELSE {models[Min(S)]}

\* parseModelSelectionArgs: a word is [flag, name], flag "" for a part of a model's name,
\* "clear", "provider" (its value is the next word) or "provider=".
Parsed(words) ==
  LET TakeWord(r, w) ==
        CASE r.error              -> r
          [] ~r.error /\ r.waits  -> [r EXCEPT !.waits = FALSE, !.provider = w.name]
          [] OTHER                ->
               CASE w.flag = "clear"     -> [r EXCEPT !.clear = TRUE]
                 [] w.flag = "provider"  -> [r EXCEPT !.waits = TRUE, !.given = TRUE]
                 [] w.flag = "provider=" -> [r EXCEPT !.given = TRUE, !.provider = w.name]
                 [] w.flag = ""          ->
                      [r EXCEPT !.model = IF @ = NoName THEN w.name ELSE @ \o <<Space>> \o w.name]
      read == FoldLeft(TakeWord, [model |-> NoName, provider |-> NoName, given |-> FALSE,
                              clear |-> FALSE, error |-> FALSE, waits |-> FALSE], words)
  IN [read EXCEPT !.error = read.waits \/ (read.clear /\ read.model # NoName)]

\* normalizeModelCatalog: one entry of each model, the first.
OnePerModel(models) ==
  FoldLeft(LAMBDA out, m :
             IF m.model = NoName \/ \E i \in DOMAIN out : out[i].model = m.model
             THEN out ELSE Append(out, m), <<>>, models)

\* parseConfiguredModelChoices and splitModelProviderTarget: only Codex has providers.
Configured(choices, runtime) ==
  LET Choice(c) ==
        LET split == runtime = "codex" \/ c.provider = NoName
            model == IF split THEN c.model ELSE c.model \o <<At>> \o c.provider
        IN [id |-> model, model |-> model, shown |-> c.alias,
            provider |-> IF split THEN c.provider ELSE NoName,
            aliases |-> IF c.alias = NoName THEN {} ELSE {c.alias}]
  IN [i \in DOMAIN choices |-> Choice(choices[i])]

\* buildRuntimeModelCatalog: the runtime's models and the configured ones, one of each
\* model of each provider; the aliases of those left out are kept.
Catalog(models, choices, runtime) ==
  LET Same(x, y) == x.model = y.model /\ x.provider = y.provider
      Add(out, m) ==
        IF \E i \in DOMAIN out : Same(out[i], m)
        THEN [i \in DOMAIN out |-> IF Same(out[i], m)
                                   THEN [out[i] EXCEPT !.aliases = @ \union m.aliases] ELSE out[i]]
        ELSE Append(out, m)
  IN FoldLeft(Add, <<>>, models \o Configured(choices, runtime))

NamesOf(m) == ({m.model, m.id, m.shown} \union m.aliases) \ {NoName}

OrElse(found, others) == IF found # {} THEN found ELSE others
\* findModelByQuery: the model with this name; the one with this alias; and the models
\* with a name that contains it.
ByExact(catalog, name) == First(catalog, {m \in ToSet(catalog) : name \in {m.model, m.id}})
ByAlias(catalog, name) == First(catalog, {m \in ToSet(catalog) : name \in m.aliases \union {m.shown}})
ByLoose(catalog, name) == SelectSeq(catalog, LAMBDA m : \E n \in NamesOf(m) : Within(name, n))
\* Mutant: a name that several models contain means the first of them.
MeantByFirst(catalog, name) ==
  IF name = NoName THEN {}
  ELSE OrElse(ByExact(catalog, name),
              OrElse(ByAlias(catalog, name), First(catalog, ToSet(ByLoose(catalog, name)))))
\* findRuntimeModelChoice: the model that a name means, if any.
Meant(catalog, name) ==
  LET OnlyOne(loose) == IF Len(loose) = 1 THEN {loose[1]} ELSE {}
  IN IF name = NoName THEN {}
     ELSE OrElse(ByExact(catalog, name),
                 OrElse(ByAlias(catalog, name), OnlyOne(ByLoose(catalog, name))))

\* scoreModelCandidate; names have no parts, so that only a name in the other counts.
Likeness(q, name) ==
  IF name = q THEN 100
  ELSE IF Within(q, name) THEN 70 + Min({20, Len(q)})
  ELSE IF Within(name, q) THEN 50 + Min({20, Len(name)}) ELSE 0
\* suggestRuntimeModels: the three best, by an alias or by their model.
Suggested(catalog, name) ==
  LET Best(m) == Max({Likeness(name, n) : n \in NamesOf(m)})
      good == {i \in DOMAIN catalog : Best(catalog[i]) > 0}
      Before(i, j) == \/ Best(catalog[i]) > Best(catalog[j])
                      \/ Best(catalog[i]) = Best(catalog[j]) /\ i < j
      ranked == SetToSortSeq(good, Before)
  IN IF name = NoName THEN <<>>
     ELSE [k \in 1..Min({3, Len(ranked)}) |-> catalog[ranked[k]]]

\* handleModelCommand and handleModelRefreshCommand: "stored" is the catalog that was
\* kept of the runtime, "offered" what asking the runtime gives now.
Refresh == <<7>>
\* What is selected, asked so, from the catalog of the models that are stored then.
Select(asked, runtime, now, fetched, stored, catalog) ==
  LET bare == ~asked.clear /\ ~asked.given
      raw == [model |-> asked.model, provider |-> NoName]
      meant == IF catalog = <<>> /\ asked.model # NoName THEN {raw}
               ELSE Meant(catalog, asked.model)
      After(told, params) == [told |-> told, model |-> params.model, provider |-> params.provider,
                              stored |-> stored]
      Answers(told) == [now EXCEPT !.told = told]
      Take(m) ==
        LET provider == IF runtime # "codex" THEN now.provider
                        ELSE IF asked.given THEN asked.provider
                        ELSE IF m.provider # NoName THEN m.provider ELSE now.provider
        IN After("selected", [model |-> m.model, provider |-> provider])
  IN IF asked.model = NoName /\ bare THEN Answers("status")
     ELSE IF asked.error THEN Answers("error")
     ELSE IF asked.model = Refresh /\ bare
          THEN [Answers("refreshed") EXCEPT !.stored = IF fetched = <<>> THEN @ ELSE fetched]
     ELSE IF asked.clear
          THEN After("selected", [model |-> NoName,
                                  provider |-> IF runtime = "codex" THEN NoName ELSE now.provider])
     ELSE IF meant = {} THEN After("not_found", now)
     ELSE Take(CHOOSE m \in meant : TRUE)
Chosen(words, runtime, now, offered, choices) ==
  LET Of(fetched, stored) ==
        Select(Parsed(words), runtime, now, fetched, stored, Catalog(stored, choices, runtime))
      Stored(fetched) == Of(fetched, IF now.stored = <<>> THEN fetched ELSE now.stored)
  IN Stored(OnePerModel(offered))

-----------------------------------------------------------------------------
\* Properties.

\* A command that is refused or only asks selects nothing. What is selected is what
\* the name means: a model that has this name or alias, or else the only one with a
\* name that contains it; where nothing is known, the name as it stands. What is
\* proposed instead of an unknown name can be chosen by the name it is shown under.
ChoiceHonest(words, runtime, now, offered, choices) ==
  LET Honest(asked, after, catalog) ==
        LET Named(m) == asked.model \in NamesOf(m)
            Near(m) == \E n \in NamesOf(m) : Within(asked.model, n)
            picked == {m \in Range(catalog) : m.model = after.model}
        IN /\ after.told # "selected" => after.model = now.model /\ after.provider = now.provider
           /\ (after.told = "selected" /\ asked.clear) => after.model = NoName
           /\ (after.told = "selected" /\ ~asked.clear) =>
                IF catalog = <<>> THEN after.model = asked.model
                ELSE /\ \E m \in picked : Named(m) \/ Near(m)
                     /\ (\E m \in Range(catalog) : Named(m)) => \E m \in picked : Named(m)
                     /\ ~(\E m \in Range(catalog) : Named(m)) =>
                          Len(SelectSeq(catalog, Near)) = 1
           /\ (after.told = "selected" /\ asked.given /\ ~asked.clear /\ runtime = "codex") =>
                after.provider = asked.provider
           /\ after.told = "not_found" =>
                \A m \in Range(Suggested(catalog, asked.model)) :
                  \A n \in m.aliases \union {m.model} :
                    \/ \E got \in Meant(catalog, n) : got.model = m.model
                    \/ \E k \in Range(catalog) : k.model # m.model /\ n \in NamesOf(k)
      With(after) == Honest(Parsed(words), after, Catalog(after.stored, choices, runtime))
  IN With(Chosen(words, runtime, now, offered, choices))
=============================================================================
