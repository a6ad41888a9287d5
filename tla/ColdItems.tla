------------------------------ MODULE ColdItems ------------------------------
(***************************************************************************)
(* The roots of the cold memory (asherie/cold-root-store.js): how the      *)
(* items of a version become roots with keys, which item a patch of a root *)
(* changes, which roots are offered as duplicates of each other, which are *)
(* related to those a turn has found, and which a search finds.            *)
(*                                                                         *)
(* Words are numbers and 0 is the empty word.  An item has an id, a name   *)
(* (the fact_key of a hard fact, the object_name of a memo) and a body.    *)
(***************************************************************************)
EXTENDS Integers, Sequences, FiniteSets, SequencesExt, FiniteSetsExt

NoWord == 0
\* The members of a set, each after those that are before it.
Ranked(S, Before(_, _)) ==
  [k \in 1..Cardinality(S) |-> CHOOSE x \in S : Cardinality({y \in S : Before(y, x)}) = k - 1]
Sorts == {"persona_memo", "hard_fact"}
PatchModes == {"merge", "replace", "delete"}

\* buildRootKey: an item without id and name goes by its place.
RootKey(item, i) ==
  IF item.id # NoWord THEN item.id ELSE IF item.name # NoWord THEN item.name ELSE i
\* buildRootTitle (where neither is given the title is no word of the items).
RootTitle(sort, item) ==
  IF item.name # NoWord THEN item.name
  ELSE IF sort = "hard_fact" THEN item.id ELSE NoWord
\* buildProjectedRootRows: roots with one key share a file, and the last is in it.
RootRows(sort, items) ==
  [i \in DOMAIN items |-> [key |-> RootKey(items[i], i), id |-> items[i].id,
                           title |-> RootTitle(sort, items[i]), at |-> i]]
\* readRoot: the place of the item that is served for a key.
Served(items, key) == CHOOSE i \in DOMAIN items :
  RootKey(items[i], i) = key /\ \A j \in DOMAIN items : RootKey(items[j], j) = key => j <= i

\* findSourceItemIndex: by id, a hard fact by its title, then by place and by key.
SourceItem(sort, row, items) ==
  LET ById == {i \in DOMAIN items : row.id # NoWord /\ items[i].id = row.id}
      ByTitle == {i \in DOMAIN items : sort = "hard_fact" /\ row.title # NoWord
                                       /\ items[i].name = row.title}
      ByKey == {i \in DOMAIN items : RootKey(items[i], i) = row.key}
  IN CASE ById # {} -> Min(ById)
       [] ById = {} /\ ByTitle # {} -> Min(ByTitle)
       [] ById = {} /\ ByTitle = {} /\ row.at \in ByKey -> row.at
       [] OTHER -> Min(ByKey \union {0})

\* patchRoot: the items of the next version and the key it answers with. Changes leave
\* out what is 0, and an id cannot be taken away.
Patched(sort, items, key, mode, changes) ==
  LET Row(rows) == rows[Min({i \in DOMAIN rows : rows[i].key = key})]
      Given(new, kept) == IF new = NoWord /\ mode = "merge" THEN kept ELSE new
      Changed(old) == [id |-> IF changes.id = NoWord THEN old.id ELSE changes.id,
                       name |-> Given(changes.name, old.name),
                       body |-> Given(changes.body, old.body)]
      With(at, item) == [items |-> [items EXCEPT ![at] = item], key |-> RootKey(item, at)]
      Of(at) == IF mode = "delete" THEN [items |-> RemoveAt(items, at), key |-> key]
                ELSE With(at, Changed(items[at]))
  IN Of(SourceItem(sort, Row(RootRows(sort, items)), items))

\* The item that is served under a key can be told from the others.
Plain(sort, items, key) ==
  LET i == Served(items, key)
  IN /\ \A j \in (DOMAIN items) \ {i} : RootKey(items[j], j) # key
     /\ (sort = "hard_fact" /\ items[i].id = NoWord) =>
          \A j \in (DOMAIN items) \ {i} : items[i].name = NoWord \/ items[j].name # items[i].name

\* A patch changes the item that a read of the same key shows, and no other one: the
\* others stay as they are and in their order.
PatchesWhatIsShown(sort, items, mode, changes) ==
  \A i \in DOMAIN items :
    LET key == RootKey(items[i], i)
        Shown(patched) ==
          IF mode = "delete" THEN patched.items = RemoveAt(items, i)
          ELSE /\ \A j \in (DOMAIN items) \ {i} : patched.items[j] = items[j]
               /\ patched.items[i].id = NoWord => items[i].id = NoWord
               /\ mode = "merge" /\ changes.body = NoWord => patched.items[i].body = items[i].body
               /\ patched.key = RootKey(patched.items[i], i)
    IN Plain(sort, items, key) => Shown(Patched(sort, items, key, mode, changes))

-----------------------------------------------------------------------------
\* Duplicates. A root has its sort, a title, the words of its title, summary and tags,
\* and what scoreRootQuality makes of them.

\* duplicateTextFingerprint: it has the sort in it, so that of two sorts it is never
\* the same.
Fingerprint(r) == <<r.sort, r.title, r.words>>
IdentityKey(r) == IF r.sort = "hard_fact" THEN r.title ELSE Fingerprint(r)
\* scoreDuplicateTokenOverlap.
Overlap(a, b) ==
  LET both == Cardinality(a.words \cap b.words)
      all == Cardinality(a.words \union b.words)
      few == Min({Cardinality(a.words), Cardinality(b.words)})
      Rounded(n, d) == (2 * n + d) \div (2 * d)
  IN IF few < 3 \/ both = 0 THEN 0
     ELSE Max({Rounded(100 * both, all), Rounded(86 * both, few)})
\* scoreDuplicateRootPair.
PairScore(a, b) ==
  LET same == a.sort = b.sort
  IN CASE same /\ a.title # NoWord /\ IdentityKey(a) = IdentityKey(b) -> 100
       [] same /\ Fingerprint(a) = Fingerprint(b) -> 96
       [] a.title # NoWord /\ a.title = b.title -> IF same THEN 92 ELSE 82
       [] OTHER -> IF same THEN Overlap(a, b) ELSE Min({Overlap(a, b), 74})

\* The pairs of places that score enough, in the order in which they are found.
Pairs(rows, minScore) ==
  Ranked({p \in (DOMAIN rows) \X (DOMAIN rows) :
            p[1] < p[2] /\ PairScore(rows[p[1]], rows[p[2]]) >= minScore},
         LAMBDA p, q : p[1] < q[1] \/ (p[1] = q[1] /\ p[2] < q[2]))
\* find: shortening the paths, as the code does, changes no root.
RootOf(parent, k) ==
  LET Climb[i \in DOMAIN parent] == IF parent[i] = i THEN i ELSE Climb[parent[i]] IN Climb[k]
\* Mutant: the row itself is put under the other's root, not its own root.
UnionedRow(parent, p) == [parent EXCEPT ![p[2]] = RootOf(parent, p[1])]
Unioned(parent, p) == [parent EXCEPT ![RootOf(parent, p[2])] = RootOf(parent, p[1])]
\* buildDuplicateRootClusters: the best "limit" groups, each with the row to keep.
Clusters(rows, minScore, limit) ==
  LET Groups(parent) ==
        {g \in {{j \in DOMAIN rows : RootOf(parent, j) = RootOf(parent, i)} : i \in DOMAIN rows} :
           Cardinality(g) > 1}
      Score(g, pairs) ==
        Max({PairScore(rows[p[1]], rows[p[2]]) : p \in {q \in ToSet(pairs) : {q[1], q[2]} \subseteq g}})
      \* chooseDuplicateKeepRoot
      Keep(g) == CHOOSE i \in g : \A j \in g : \/ rows[i].quality > rows[j].quality
                                               \/ rows[i].quality = rows[j].quality /\ i <= j
      Better(x, y) ==
        \/ x.score > y.score
        \/ x.score = y.score /\ Cardinality(x.rows) > Cardinality(y.rows)
        \/ x.score = y.score /\ Cardinality(x.rows) = Cardinality(y.rows) /\ Min(x.rows) < Min(y.rows)
      Shown(g, keep, score) == [rows |-> g, keep |-> keep, score |-> score, delete |-> g \ {keep}]
      Upto(s) == SubSeq(s, 1, Min({limit, Len(s)}))
      Of(pairs) ==
        Upto(Ranked({Shown(g, Keep(g), Score(g, pairs)) :
                       g \in Groups(FoldLeft(Unioned, [i \in DOMAIN rows |-> i], pairs))}, Better))
  IN Of(Pairs(rows, minScore))

\* The groups are the roots that a chain of like pairs connects, apart from each other;
\* of each a best one is kept; and a group that is left out is no likelier than one
\* that is shown.
ClustersConnect(rows, minScore, limit) ==
  LET Like(i, j) == i # j /\ PairScore(rows[Min({i, j})], rows[Max({i, j})]) >= minScore
      Reach(i) == FoldLeft(LAMBDA S, r : S \union {k \in DOMAIN rows : \E j \in S : Like(j, k)},
                           {i}, rows)
      Connects(shown) ==
        /\ \A k \in DOMAIN shown :
             LET c == shown[k]
             IN /\ \A i \in c.rows : Reach(i) = c.rows
                /\ c.keep \in c.rows /\ c.delete = c.rows \ {c.keep}
                /\ \A i \in c.rows : rows[i].quality <= rows[c.keep].quality
        /\ \A i, j \in DOMAIN rows : Like(i, j) =>
             \/ \E k \in DOMAIN shown : {i, j} \subseteq shown[k].rows
             \/ Len(shown) = limit /\ \A k \in 1..limit :
                  shown[k].score >= PairScore(rows[Min({i, j})], rows[Max({i, j})])
  IN Connects(Clusters(rows, minScore, limit))

-----------------------------------------------------------------------------
\* Related roots.

\* collectVineEdgesForRoot: the edges of a root, in either direction.
EdgesOf(edges, r) ==
  LET Ends(e) == IF e.from = r /\ e.to # NoWord THEN <<[root |-> r, other |-> e.to, score |-> e.score]>>
                 ELSE IF e.to = r /\ e.from # NoWord
                 THEN <<[root |-> r, other |-> e.from, score |-> e.score]>> ELSE <<>>
  IN FlattenSeq([i \in DOMAIN edges |-> Ends(edges[i])])
\* expandRootVines: the best "each" edges of a root, of these the ones that lead to
\* other roots, the best "limit" of all. An edge to another root that was found takes
\* its place among the "each".
Related(edges, found, each, limit) ==
  LET Best(s) == Ranked(DOMAIN s, LAMBDA i, j :
                   s[i].score > s[j].score \/ (s[i].score = s[j].score /\ i < j))
      By(s, places) == [i \in DOMAIN s |-> s[places[i]]]
      Sorted(s) == By(s, Best(s))
      Upto(s, n) == SubSeq(s, 1, Min({n, Len(s)}))
      Of(r) == SelectSeq(Upto(Sorted(EdgesOf(edges, r)), each),
                         LAMBDA e : e.other \notin ToSet(found))
      Once(s) == FoldLeft(LAMBDA kept, e : IF \E k \in DOMAIN kept : kept[k].other = e.other
                                           THEN kept ELSE Append(kept, e), <<>>, s)
  IN Upto(Sorted(FlattenSeq([k \in DOMAIN found |-> Once(Of(found[k]))])), limit)

\* No root that was found is related to itself or named twice by one root, and the
\* likeliest edge to another root is there.
RelatedHonest(edges, found, each, limit) ==
  LET Honest(shown) ==
        /\ \A k \in DOMAIN shown : shown[k].other \notin ToSet(found)
        /\ \A k, l \in DOMAIN shown :
             k # l => <<shown[k].root, shown[k].other>> # <<shown[l].root, shown[l].other>>
        /\ \A e \in ToSet(edges) :
             LET ends == {e.from, e.to}
             IN (e.from # e.to /\ Cardinality(ends \cap ToSet(found)) = 1 /\ NoWord \notin ends
                 /\ \A f \in ToSet(edges) \ {e} : f.score < e.score)
                  => shown # <<>> /\ {shown[1].root, shown[1].other} = ends
  IN Honest(Related(edges, found, each, limit))

-----------------------------------------------------------------------------
\* Search. A root has the terms that its text and that its labels contain; the query is
\* one of its labels' words, or is contained in them, or neither.

\* scoreRootRow.
RootScore(r) ==
  Cardinality(r.text) + 6 * Cardinality(r.labels)
  + (CASE r.query = "word" -> 32 [] r.query = "within" -> 12 [] OTHER -> 0)
\* scoreRootRows: the places of the best "limit" roots with at least the least score.
FoundRoots(rows, limit, minScore) ==
  LET Upto(found) == SubSeq(found, 1, Min({limit, Len(found)}))
  IN Upto(Ranked({i \in DOMAIN rows : RootScore(rows[i]) >= minScore},
                 LAMBDA i, j : \/ RootScore(rows[i]) > RootScore(rows[j])
                               \/ (RootScore(rows[i]) = RootScore(rows[j]) /\ i < j)))

\* The root that the query names is found before those that it does not name, however
\* many of its terms they contain, and is not cut off for them.
NamedFirst(rows, limit) ==
  LET Named(i) == rows[i].query = "word"
      Honest(found) ==
        \A i \in DOMAIN rows : Named(i) =>
          /\ i \notin ToSet(found) => \A k \in DOMAIN found : Named(found[k])
          /\ \A k, l \in DOMAIN found : found[l] = i /\ k < l => Named(found[k])
  IN Honest(FoundRoots(rows, limit, 2))
=============================================================================
