------------------------------- MODULE MCReviews -------------------------------
\* The files are interchangeable, and so are the commands.
EXTENDS Reviews, TLC

Symmetry == Permutations(Files) \cup Permutations(Ops)
===============================================================================
