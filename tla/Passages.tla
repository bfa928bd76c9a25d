------------------------------ MODULE Passages ------------------------------
(***************************************************************************)
(* What indexing a manual and asking it compute, without any state: how a  *)
(* page is cut into passages, how passages are ranked for a question, what *)
(* a language model may do to that order, and when a question is answered. *)
(*                                                                         *)
(* A text is a sequence of characters of which some are blank, or, once    *)
(* tokenized, a sequence of words.  The similarity of two vectors is a     *)
(* natural number, on a scale of its own.  Scores are whole numbers over   *)
(* one common denominator, so that they compare as the program's do.       *)
(***************************************************************************)
EXTENDS Naturals, Sequences, FiniteSets, SequencesExt

CONSTANT Space      \* the characters that strip() takes away

-----------------------------------------------------------------------------
(* Cutting. *)

IsBlank(text) == \A i \in DOMAIN text : text[i] \in Space

(* Without the blanks at its two ends. *)
Strip(text) ==
  LET solid == {i \in DOMAIN text : text[i] \notin Space}
  IN  IF solid = {} THEN <<>> ELSE SubSeq(text, Min(solid), Max(solid))

(* The pages of a PDF that have text, by their number. *)
Pages(pdf) == {[page |-> p, text |-> Strip(pdf[p])] : p \in {q \in DOMAIN pdf : ~IsBlank(pdf[q])}}

(* Where the passages of a page of n characters begin and end: each one    *)
(* begins `overlap' characters before the end of the one before it.        *)
Windows(n, size, overlap) ==
  LET from[s \in 0 .. n] ==
        IF s + size >= n THEN {<<s + 1, n>>}
        ELSE {<<s + 1, s + size>>} \cup from[s + size - overlap]
  IN  IF n = 0 THEN {} ELSE from[0]

Chunks(text, size, overlap) ==
  {w \in Windows(Len(text), size, overlap) : ~IsBlank(SubSeq(text, w[1], w[2]))}

-----------------------------------------------------------------------------
(* Ranking. *)

(* How often the words of a question, each as often as it is asked, are in *)
(* a passage.                                                              *)
Matches(asked, words) ==
  Cardinality({p \in (DOMAIN asked) \X (DOMAIN words) : asked[p[1]] = words[p[2]]})

(* normalize_scores: from 0 for the least to 1 for the greatest, and when  *)
(* they are all equal 1, or 0 if they are 0.                               *)
Spread(scores) ==
  IF Max(Range(scores)) = Min(Range(scores)) THEN 1
  ELSE Max(Range(scores)) - Min(Range(scores))

Normal(scores, i) ==
  IF Max(Range(scores)) = Min(Range(scores))
  THEN IF scores[i] > 0 THEN 1 ELSE 0
  ELSE scores[i] - Min(Range(scores))

(* Half of each, over the common denominator Whole. *)
Whole(near, hits) == 2 * Spread(near) * Spread(hits)

Score(near, hits, i) ==
  Normal(near, i) * Spread(hits) + Normal(hits, i) * Spread(near)

(* The best first, in the order they were read where they are equal. *)
Ranked(near, hits, top) ==
  LET Better(i, j) == \/ Score(near, hits, i) > Score(near, hits, j)
                      \/ Score(near, hits, i) = Score(near, hits, j) /\ i < j
      order == SetToSortSeq(DOMAIN near, Better)
  IN  SubSeq(order, 1, Min({top, Len(order)}))

-----------------------------------------------------------------------------
(* The language model answers with an order of 1 .. n, or with anything    *)
(* else: what is no number of a candidate, or was named before, is passed  *)
(* over, and what it did not name follows as it was.  A service that fails,*)
(* or an answer that is no list, counts as the empty answer.               *)
Reranked(n, answer) ==
  LET named == {k \in DOMAIN answer : /\ answer[k] \in 1 .. n
                                      /\ \A j \in 1 .. k - 1 : answer[j] # answer[k]}
      first == [i \in 1 .. Cardinality(named) |-> answer[SetToSortSeq(named, <)[i]]]
      rest  == SelectSeq([i \in 1 .. n |-> i], LAMBDA i : i \notin Range(answer))
  IN  IF n <= 1 THEN [i \in 1 .. n |-> i] ELSE first \o rest

(* The candidates in the order of the model. *)
Rerank(candidates, answer) ==
  LET order == Reranked(Len(candidates), answer)
  IN  [i \in DOMAIN order |-> candidates[order[i]]]

-----------------------------------------------------------------------------
(* Answering.  A candidate has its words and its score. *)

Overlap(asked, top) ==
  \E i \in DOMAIN top : Range(asked) \cap Range(top[i].words) # {}

(* The score that counts is that of the first, whatever put it there. *)
Abstains(asked, top, threshold) ==
  \/ top = <<>>
  \/ ~Overlap(asked, top)
  \/ top[1].score < threshold

(* What the answer, made of the first of them, cites. *)
Cited(asked, top, threshold) ==
  IF Abstains(asked, top, threshold) THEN <<>>
  ELSE SelectSeq(top, LAMBDA c : c.score >= threshold)
=============================================================================
