-------------------------- MODULE MCManualLibrary --------------------------
(***************************************************************************)
(* Model-checking instance of ManualLibrary, and what is true of the       *)
(* passages of a manual for every small text, ranking and answer of the    *)
(* language model: TLC evaluates those claims before it begins.            *)
(***************************************************************************)
EXTENDS ManualLibrary, Sequences, TLC

P == INSTANCE Passages WITH Space <- {" "}

Symmetric == Permutations(Requests)

Texts(S, n) == UNION {[1 .. k -> S] : k \in 0 .. n}

(* Chunker: a phrase is found whole in some passage when it is no longer   *)
(* than the overlap and one character, wherever the page is cut; no        *)
(* passage is longer than asked for, and none lies within another.         *)
ASSUME PhrasesAreWhole ==
  \A size \in 1 .. 4 : \A overlap \in 0 .. size - 1 : \A n \in 0 .. 11 :
    LET cut == P!Windows(n, size, overlap)
    IN  /\ \A i \in 1 .. n : \A j \in i .. n :
             j <= i + overlap => \E w \in cut : w[1] <= i /\ j <= w[2]
        /\ \A w \in cut : w[2] - w[1] < size
        /\ \A v, w \in cut : v[1] <= w[1] /\ w[2] <= v[2] => v = w

(* Extractor and chunker: no character of a PDF but blanks is lost.        *)
ASSUME NothingIsLost ==
  \A text \in Texts({"a", " "}, 7) : \A size \in 1 .. 3 : \A overlap \in 0 .. size - 1 :
    LET inChunks == \E page \in P!Pages(<<text>>) :
          \A i \in DOMAIN page.text :
            page.text[i] = "a" =>
              \E w \in P!Chunks(page.text, size, overlap) : i \in w[1] .. w[2]
    IN  IF P!IsBlank(text) THEN P!Pages(<<text>>) = {} ELSE inChunks

Levels(n) == [1 .. n -> 0 .. 3]

(* Hybrid search: the ranking keeps what is best.  A passage that is       *)
(* closer and has more of the words than one that was returned comes       *)
(* before it.                                                              *)
ASSUME BetterComesFirst ==
  \A n \in 1 .. 3 : \A near, hits \in Levels(n) : \A top \in 1 .. 3 :
    LET found == P!Ranked(near, hits, top)
        Place(i) == CHOOSE k \in 1 .. Len(found) : found[k] = i
    IN  /\ Len(found) = Min({n, top})
        /\ \A i \in 1 .. n : \A j \in {found[k] : k \in DOMAIN found} :
             (near[i] > near[j] /\ hits[i] > hits[j]) =>
               (\E k \in DOMAIN found : found[k] = i) /\ Place(i) < Place(j)

(* Every score is a confidence from 0 to 1, which RagResult insists on.    *)
(* But it is relative to the manual's own passages: when any of them is at *)
(* all similar to the question, the best has one half or more, and a lower *)
(* threshold never makes the hybrid order abstain.                         *)
ASSUME BestIsHalf ==
  \A n \in 1 .. 3 : \A near, hits \in Levels(n) :
    /\ \A i \in 1 .. n : P!Score(near, hits, i) <= P!Whole(near, hits)
    /\ (\E i \in 1 .. n : near[i] > 0) =>
         2 * P!Score(near, hits, P!Ranked(near, hits, 1)[1]) >= P!Whole(near, hits)

(* Reranker: whatever the language model answers, every candidate is still *)
(* there, once, and those it did not name are in the order they had.       *)
ASSUME NoCandidateIsLost ==
  \A n \in 0 .. 4 : \A answer \in Texts(0 .. 5, 4) :
    LET order == P!Reranked(n, answer)
        unnamed == {k \in DOMAIN order : order[k] \notin {answer[i] : i \in DOMAIN answer}}
    IN  /\ Len(order) = n /\ {order[k] : k \in DOMAIN order} = 1 .. n
        /\ \A j, k \in unnamed : j < k => order[j] < order[k]

Candidates == Texts([words : {<<"torque">>, <<"oil">>}, score : {2, 5}], 3)

(* RAG query: an answer cites its source.  It is made of a passage that it *)
(* cites, nothing it cites is below the threshold, and what was not        *)
(* answered cites nothing.                                                 *)
ASSUME AnswersCite ==
  \A top \in Candidates : \A asked \in Texts({"torque", "seal"}, 2) : \A threshold \in 1 .. 6 :
    LET cited == P!Cited(asked, top, threshold)
    IN  IF P!Abstains(asked, top, threshold) THEN cited = <<>>
        ELSE /\ cited # <<>> /\ cited[1] = top[1]
             /\ \A k \in DOMAIN cited : cited[k].score >= threshold

(* Its order decides in the end: a question is not answered when the model *)
(* puts a poor passage first, although a good one is among the candidates. *)
ASSUME OrderDecides ==
  \E top \in Candidates : \E answer \in Texts(1 .. 3, 3) : \E asked \in Texts({"torque"}, 1) :
    /\ ~P!Abstains(asked, top, 3)
    /\ P!Abstains(asked, P!Rerank(top, answer), 3)
=============================================================================
