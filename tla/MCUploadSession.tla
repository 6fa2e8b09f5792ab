-------------------------- MODULE MCUploadSession --------------------------
(* Small instances of UploadSession.  The sizes of two sessions differ so  *)
(* that returning or charging the wrong one shows; a one-shot upload shares*)
(* the counters with them where the accounting is the question.            *)
EXTENDS UploadSession, TLC

CONSTANTS s1, s2, c1, c2, w1, w2, w3, r1, o1

OneSession == {s1}
TwoSessions == {s1, s2}
SizeOne == s1 :> 1
SizeTwo == s1 :> 1 @@ s2 :> 2
SizeOther == s1 :> 1 @@ s2 :> 2 @@ o1 :> 1
OneOther == {o1}
RankOne == s1 :> 1
RankTwo == s1 :> 1 @@ s2 :> 2
OneCompleter == {c1}
TwoCompleters == {c1, c2}
OneWriter == {w1}
ThreeWriters == {w1, w2, w3}
OneSweeper == {r1}

(* Requests are interchangeable, except the writer whose chunk may be lost. *)
Interchangeable == Permutations(TwoCompleters)
InterchangeableSolid ==
    Permutations(TwoCompleters) \cup Permutations(ThreeWriters \ OneWriter)
=============================================================================
