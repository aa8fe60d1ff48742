------------------------------ MODULE MCSchema ------------------------------
(* Installations of every revision, and those whose history is in the tests. *)
EXTENDS Schema, SequencesExt

AllRevisions == 0 .. Newest
TestedReleases == {1, 5, 13}

\* The revisions make, one after the other, what the model takes an installation to be.
NewDb == [def |-> [t \in {} |-> {}], holds |-> {}, marks |-> {}, rev |-> 0, wrong |-> {}]
Chain[r \in 0 .. Newest] ==
  IF r = 0 THEN NewDb
  ELSE FoldLeft(LAMBDA d, s : After(s, d), Chain[r - 1],
                Append(Revision(r, Chain[r - 1]), Version(r)))

ASSUME ChainMakesInstalled == \A r \in 0 .. Newest : Chain[r].def = Installed(r) /\ Chain[r].rev = r
=============================================================================
