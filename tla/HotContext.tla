------------------------------ MODULE HotContext ------------------------------
(***************************************************************************)
(* The hot context (asherie/hot-context-store.js): what the user said      *)
(* lately in other windows.  A client sends the tail of its conversation   *)
(* again and again, and the package of this conversation takes it in; turns*)
(* are noted once; and a turn's prelude shows packages or turns, in their  *)
(* own words only where the user asks for words.                           *)
(***************************************************************************)
EXTENDS Integers, Sequences, FiniteSets, SequencesExt, FiniteSetsExt

LastOf(s, n) == SubSeq(s, Max({1, Len(s) - n + 1}), Len(s))

\* Mutant: a message that is there already is moved to the end.
HotMergedLater(kept, sent, most) ==
  LastOf(FoldLeft(LAMBDA s, m : Append(SelectSeq(s, LAMBDA x : x # m), m), <<>>, sent \o kept), most)
\* mergeMessages: of what was kept and what is sent each message once, the last "most".
HotMerged(kept, sent, most) ==
  LastOf(FoldLeft(LAMBDA s, m : IF m \in ToSet(s) THEN s ELSE Append(s, m), <<>>, kept \o sent), most)
\* upsertPackage, once for every tail; a tail <<a, b>> is messages a to b.
Package(tails, most) ==
  FoldLeft(LAMBDA kept, t : HotMerged(kept, [i \in 1..(t[2] - t[1] + 1) |-> t[1] + i - 1], most),
           <<>>, tails)

\* A tail moves forward and is no longer than what is kept. (A longer one, or one that
\* reaches further back, puts old messages after the new ones.)
Sliding(tails, most) ==
  /\ \A k \in DOMAIN tails : tails[k][2] - tails[k][1] < most
  /\ \A k \in 2..Len(tails) : \A e \in 1..2 : tails[k - 1][e] <= tails[k][e]
\* The package has the conversation in its order, and the whole of the latest tail.
PackageInOrder(tails, most) ==
  LET latest == tails[Len(tails)]
      InOrder(kept) == /\ \A i, j \in DOMAIN kept : i < j => kept[i] < kept[j]
                       /\ latest[1]..latest[2] \subseteq ToSet(kept)
                       /\ Len(kept) <= most
  IN Sliding(tails, most) => InOrder(Package(tails, most))

-----------------------------------------------------------------------------
\* isDuplicateTurnSlice: the same words of the same window within a minute.
SameSlice(a, b, minute) ==
  a.words = b.words /\ a.at - b.at <= minute /\ b.at - a.at <= minute
\* appendTurnSlice, for one slice after the other; the last "recent" are looked at.
Slices(given, minute, recent) ==
  FoldLeft(LAMBDA kept, s :
             IF s.words = 0 \/ \E x \in ToSet(LastOf(kept, recent)) : SameSlice(x, s, minute)
             THEN kept ELSE Append(kept, s), <<>>, given)
\* What was said is noted, and noted once as long as it is among the last: every slice
\* with words has a note of the same words within a minute, and two such notes have at
\* least as many others between them as are looked at.
SlicesNotedOnce(given, minute, recent) ==
  LET Once(kept) ==
        /\ \A s \in ToSet(given) : s.words # 0 => \E x \in ToSet(kept) : SameSlice(x, s, minute)
        /\ \A i, j \in DOMAIN kept :
             i < j /\ SameSlice(kept[i], kept[j], minute) => j - i > recent
  IN Once(Slices(given, minute, recent))

-----------------------------------------------------------------------------
\* rankPackages: a package has the score of the query's terms in it and its time.
HotRanked(packages) ==
  [k \in DOMAIN packages |-> packages[CHOOSE i \in DOMAIN packages :
     Cardinality({j \in DOMAIN packages :
       \/ packages[j].score > packages[i].score
       \/ packages[j].score = packages[i].score /\ packages[j].time > packages[i].time
       \/ packages[j].score = packages[i].score /\ packages[j].time = packages[i].time /\ j < i}) = k - 1]]

\* buildHotContextPreludeLines: the sources of the lines and whether they quote. Turns
\* are shown only where there is no package; open loops are counted or quoted.
HotLines(packages, turns, loops, projected, asked, limit) ==
  LET Line(kind, k) == [kind |-> kind, of |-> k, quoted |-> asked]
      Upto(n, m) == 1..Min({n, m})
      Sources(shown) == [k \in Upto(Len(shown), limit) |-> Line("source", shown[k].id)]
  IN (IF projected THEN <<Line("projection", 1)>> ELSE <<>>)
     \o (IF loops = 0 THEN <<>>
         ELSE IF asked THEN [k \in Upto(loops, 2) |-> Line("loop", k)] ELSE <<Line("loop", loops)>>)
     \o Sources(HotRanked(packages))
     \o (IF packages = <<>>
         THEN [k \in Upto(turns, Min({limit, 3})) |-> Line("turn", k)] ELSE <<>>)

\* Of what another window said something is shown wherever there is anything, and the
\* package that fits the query best comes before the others.
HotLinesHonest(packages, turns, loops, projected, asked, limit) ==
  LET Of(id) == CHOOSE p \in ToSet(packages) : p.id = id
      Best(first) == \A p \in ToSet(packages) : \/ first.score > p.score
                                                \/ first.score = p.score /\ first.time >= p.time
      Honest(lines, sources) ==
        /\ lines = <<>> => packages = <<>> /\ turns = 0 /\ loops = 0 /\ ~projected
        /\ packages # <<>> => sources # <<>> /\ Best(Of(sources[1].of))
      With(lines) == Honest(lines, SelectSeq(lines, LAMBDA l : l.kind = "source"))
  IN With(HotLines(packages, turns, loops, projected, asked, limit))
=============================================================================
