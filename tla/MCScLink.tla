------------------------------ MODULE MCScLink ------------------------------
(* Instances of ScLink for TLC: the answers that tell the branches of the    *)
(* parser apart, for an rxbuf of three characters.                           *)
EXTENDS ScLink, TLC

C(c, d) == [ch |-> c, depth |-> d]

Num    == <<C("(", 1), C("1", 1), C("2", 1), C(")", 0)>>
Neg    == <<C("(", 1), C("-", 1), C("1", 1), C(")", 0)>>
Long   == <<C("(", 1), C("1", 1), C("2", 1), C("1", 1), C(")", 0)>>
Nested == <<C("(", 1), C("(", 2), C("1", 2), C(")", 1), C(")", 0)>>

MCFrames == {Num, Neg, Long, Nested}
MCNumFrames == {Num}
ThreadSymmetry == Permutations(Threads)
=============================================================================
