---------------------------- MODULE MCQuadra800 -----------------------------
(* TLC instances: one longword of each kind, neighbours chosen so that a     *)
(* split crosses from one kind to another.                                   *)
EXTENDS Quadra800

MCMap == [a \in 0..7 |->
    CASE a = 0 -> "low" [] a = 1 -> "low" [] a = 2 -> "romwin" [] a = 3 -> "dafb"
      [] a = 4 -> "iosb" [] a = 5 -> "none" [] a = 6 -> "ram" [] a = 7 -> "open"]

\* Every alignment and size without a walker, a split access beside one, and one whose
\* walker may end the overlay between the two beats.
MCLoads ==
    {[words |-> 6..7, shapes |-> Pos \X Sizes, walks |-> {}],
     [words |-> {1, 3, 4}, shapes |-> {<<3, 2>>}, walks |-> {4}],
     [words |-> {0}, shapes |-> {<<3, 2>>}, walks |-> {2}]}

=============================================================================
