-------------------------------- MODULE MCDetect -------------------------------
EXTENDS Detect, TLC

CONSTANTS b1, b2, d1, d2

MCFiles == <<b1, b2>>

\* A bet whose kill criteria are unspecified, and one with a phrase of two
\* distinctive words; same owner and topic, different quarters.
Open == [owner |-> "ceo", name |-> {"launch"}, threshold |-> 2, criteria |-> {},
         body |-> <<"launch", "before", "summer">>, quarters |-> {"Q2 2027"}, months |-> {}]
Clear == [owner |-> "ceo", name |-> {"launch"}, threshold |-> 0,
          criteria |-> {<<"partner", "leaves">>, <<"we", "wait">>},
          body |-> <<"partner", "launch", "summer", "signed">>,
          quarters |-> {"Q3 2027"}, months |-> {}]
MCDrafts == {Open, Clear}

MCWritten == b1 :> Open @@ b2 :> Clear

MCText == [s1 |-> <<"partner", "will", "leaves", "not", "launch", "summer">>]

MCDistinctive == {"partner", "leaves", "launch", "before", "summer", "signed"}
MCLong == {"partner", "leaves", "launch", "before", "summer", "signed"}
MCMarkers == <<"not", "no longer">>

MCSymmetry == Permutations({d1, d2})
===============================================================================
