----------------------------- MODULE ReplyChunks -----------------------------
(***************************************************************************)
(* How the WeChat channel cuts a reply into messages                       *)
(* (adapters/channel/weixin/index.js): at the ends of sentences,           *)
(* paragraphs and list items, in pieces that one message can hold, joined  *)
(* again where they are short or too many.                                 *)
(*                                                                         *)
(* A text is a sequence of kinds of characters: "c" any character, "p"     *)
(* punctuation that ends a sentence, "s" a space, "n" a newline, "l" the   *)
(* mark of a list item with its space.  Chunks are texts.                  *)
(***************************************************************************)
EXTENDS Integers, Sequences, FiniteSets, SequencesExt, FiniteSetsExt

Kinds == {"c", "p", "s", "n", "l"}
White == {"s", "n"}

IsBlank(t) == \A i \in DOMAIN t : t[i] \in White
Join(ts) == FlattenSeq(ts)

\* The elements of a sequence at the indices I, in their order.
ElementsAt(s, I) ==
  LET kept[i \in 0..Len(s)] ==
        IF i = 0 THEN <<>> ELSE IF i \in I THEN Append(kept[i - 1], s[i]) ELSE kept[i - 1]
  IN kept[Len(s)]
Inked(t) == ElementsAt(t, {i \in DOMAIN t : t[i] \notin White})
Filled(ts) == ElementsAt(ts, {i \in DOMAIN ts : ~IsBlank(ts[i])})

\* A text in pieces: the one that begins behind a character ends with character to[..].
Pieces(t, to) ==
  LET pieces[from \in 0..Len(t)] ==
        IF from = Len(t) THEN <<>>
        ELSE <<SubSeq(t, from + 1, to[from])>> \o pieces[to[from]]
  IN pieces[0]

\* The characters i..j are all of a set.
Only(t, i, j, S) == \A x \in i..j : t[x] \in S

\* trimOuterBlankLines: what precedes the first line with something in it, and
\* the newlines and blanks that end the text after its last newline.
Trimmed(t) ==
  LET lead == {i \in DOMAIN t : t[i] = "n" /\ Only(t, 1, i, White)}
      u == SubSeq(t, Max(lead \union {0}) + 1, Len(t))
      tail == {i \in DOMAIN u : u[i] = "n" /\ Only(u, i, Len(u), White)}
  IN SubSeq(u, 1, Min(tail \union {Len(u) + 1}) - 1)

\* collectStreamingBoundaries: a boundary is the number of characters before it.
Boundaries(t) ==
  LET n == Len(t)
      \* a run of white space from its first newline to its last, if there are two
      Paragraphs ==
        {j \in 1..n : t[j] = "n" /\ (\E i \in 1..(j - 1) : t[i] = "n" /\ Only(t, i, j, White))
                      /\ \A k \in (j + 1)..n : Only(t, j, k, White) => t[k] # "n"}
      Items == {j \in 1..(n - 1) : t[j] = "n" /\ t[j + 1] = "l"}
      Sentences ==
        {j \in 1..n : \E i \in 1..j : t[i] = "p" /\ Only(t, i + 1, j, White)
                        /\ (i = n \/ t[i + 1] # "p")
                        /\ (j = n \/ t[j + 1] \notin White)}
  IN Paragraphs \union Items \union Sentences

\* splitTextAtBoundaries.
Units(t, bs) ==
  Filled(Pieces(t, [from \in 0..(Len(t) - 1) |-> Min({b \in bs \union {Len(t)} : b > from})]))

\* findLastPreferredBoundary: the last boundary that fits, if it is far enough.
PreferredCut(t, limit) ==
  LET LastOf(fit) == IF fit # {} /\ Max(fit) > (limit * 2) \div 5 THEN Max(fit) ELSE limit
  IN LastOf({b \in Boundaries(t) : b <= limit})

\* chunkReplyText: the rest of the text is cut again until it fits.
HardChunks(text, limit) ==
  LET \* the length of the first chunk
      Cut(rest) == IF Len(rest) > limit THEN PreferredCut(rest, limit) ELSE Len(rest)
      Cuts(t) ==
        IF IsBlank(t) THEN <<>>
        ELSE Pieces(t, [from \in 0..(Len(t) - 1) |-> from + Cut(SubSeq(t, from + 1, Len(t)))])
  IN Cuts(Trimmed(text))

\* mergeShortChunks: two neighbours that are both short become one.
MergedShort(cs, limit, short) ==
  IF cs = <<>> THEN cs
  ELSE FoldLeft(LAMBDA out, c :
         LET last == out[Len(out)]
         IN IF Len(last) < short /\ Len(c) < short /\ Len(last) + Len(c) <= limit
            THEN [out EXCEPT ![Len(out)] = last \o c] ELSE Append(out, c),
         <<cs[1]>>, Tail(cs))

\* chunkReplyTextForWeixin.
Chunks(text, limit, short) ==
  LET Fitted(units) ==
        [i \in DOMAIN units |->
           IF Len(units[i]) <= limit THEN <<units[i]>> ELSE HardChunks(units[i], limit)]
      Cut(t, bs) ==
        IF IsBlank(t) THEN <<>>
        ELSE IF bs = {} THEN HardChunks(t, limit)
        ELSE MergedShort(Join(Fitted(Units(t, bs))), limit, short)
      Of(t) == Cut(t, Boundaries(t))
  IN Of(Trimmed(text))

\* Consecutive chunks are joined as long as a message can hold them.
Grouped(cs, limit) == MergedShort(cs, limit, limit + 1)

\* Mutant: the chunks that are kept as they are reach into the joined ones.
PackedTwice(chunks, most, limit) ==
  LET cs == Filled(chunks)
  IN IF Len(cs) <= most THEN cs
     ELSE SubSeq(cs, 1, most - 1) \o <<Join(SubSeq(cs, most - 1, Len(cs)))>>
\* packChunksForWeixinDelivery: what follows the messages but one goes into the
\* last one, if it fits; else as many chunks as leave room for the hard cuts of
\* the rest stay, the others are grouped, and the messages that are too many
\* are dropped.
Packed(chunks, most, limit) ==
  LET Upto(s, n) == SubSeq(s, 1, Min({n, Len(s)}))
      Stay(rest) == Max({0, most - ((Len(rest) + limit - 1) \div limit)})
      All(cs, n) == SubSeq(cs, 1, n) \o Grouped(SubSeq(cs, n + 1, Len(cs)), limit)
      Of(cs, rest) ==
        IF Len(cs) <= most THEN cs
        ELSE IF Len(rest) <= limit THEN Append(SubSeq(cs, 1, most - 1), rest)
        ELSE Upto(All(cs, Stay(rest)), most)
      Inky(cs) == Of(cs, Join(SubSeq(cs, most, Len(cs))))
  IN Inky(Filled(chunks))

-----------------------------------------------------------------------------
\* Properties.

\* Nothing of a reply but white space is lost, doubled or moved by the cuts, and
\* every chunk fits into a message.
CutsKeepText(text, limit, short) ==
  LET Whole(cs) == /\ Inked(Join(cs)) = Inked(text)
                   /\ \A i \in DOMAIN cs : Len(cs[i]) <= limit
  IN Whole(Chunks(text, limit, short))

\* What is packed is the beginning of the reply, in order, in as many messages
\* as are allowed and no longer than they may be, and it is the whole of it if
\* what follows the messages but one fits into the last one.
PackKeepsOrder(text, most, limit, short) ==
  LET InOrder(cs, out) ==
        /\ Len(out) <= most /\ \A i \in DOMAIN out : Len(out[i]) <= limit
        /\ IsPrefix(Inked(Join(out)), Inked(text))
        /\ Len(Join(SubSeq(cs, most, Len(cs)))) <= limit => Inked(Join(out)) = Inked(text)
      Of(cs) == InOrder(cs, Packed(cs, most, limit))
  IN Of(Chunks(text, limit, short))
=============================================================================
