------------------------------- MODULE MCCapture -------------------------------
(* Two contents that are nearly the same and a third that only contradicts *)
(* one of them; the third is captured from one source only.                *)
EXTENDS Capture

CONSTANTS a, b, far

MCDistance == [x \in Contents |-> [y \in Contents |->
                 CASE x = y -> 0
                   [] {x, y} = {a, b} -> 1
                   [] {x, y} = {b, far} -> 2
                   [] OTHER -> 3]]
MCThreshold == [duplicate |-> 1, conflict |-> 2]
MCTopK == [duplicate |-> 1, conflict |-> 1]
===============================================================================
