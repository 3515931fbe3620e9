---------------------------- MODULE MCSubDispatch ----------------------------
\* Four roles in a line, and the line with two of its leaders swapped.
EXTENDS SubDispatch, TLC

Line(a, b) == "ceo" :> NoRole @@ a :> "ceo" @@ b :> a @@ "engineer" :> b
MCTrees == {Line("cto", "vp"), Line("vp", "cto")}
==============================================================================
