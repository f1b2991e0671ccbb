---------------------------- MODULE MCGeospatial ----------------------------
(* Instance of Geospatial for TLC: a U and a pair of squares, whose        *)
(* bounding box centres lie outside, a ring without area and one that is   *)
(* not closed; strategies with and without ties, remainders and equal      *)
(* labels, and refused ones.                                               *)
EXTENDS Geospatial, TLC

Square(x, y) == <<<<x, y>>, <<x + 2, y>>, <<x + 2, y + 2>>, <<x, y + 2>>, <<x, y>>>>

(* Shorter towards the pole *)
MCLonScale == [latitude \in 0..6 |-> 7 - latitude]

MCRingsOf ==
    [cup |-> {<<<<0, 0>>, <<0, 6>>, <<2, 6>>, <<2, 2>>, <<4, 2>>, <<4, 6>>, <<6, 6>>, <<6, 0>>,
                <<0, 0>>>>},
     pair |-> {Square(0, 0), Square(4, 2)},
     flat |-> {<<<<0, 0>>, <<4, 0>>, <<2, 0>>, <<0, 0>>>>},
     open |-> {<<<<0, 0>>, <<2, 0>>, <<2, 2>>, <<0, 2>>>>}]

StrataOf(proportions) ==
    [i \in DOMAIN proportions |->
        [label |-> <<"a", "b", "c">>[i], proportion |-> proportions[i]]]

Stratified(allocation, size, strata) ==
    [method |-> "STRATIFIED_RANDOM", allocation |-> allocation, size |-> size, strata |-> strata]

MCStrategies ==
    {Stratified("PROPORTIONAL", size, StrataOf(p)) :
        size \in {3, 7},
        p \in {<<1, 1>>, <<3, 1>>, <<2, 3>>, <<1, 1, 1>>, <<1, 1, 3>>, <<3, 1, 2>>,
              <<10, 10, 11>>}}
      \cup {Stratified("EQUAL", size, StrataOf(<<1, 1, 1>>)) : size \in {7, 9}}
      \cup {Stratified("EQUAL", 7, <<[label |-> "a", proportion |-> 1],
                                     [label |-> "a", proportion |-> 2]>>),
            Stratified("PROPORTIONAL", 7, <<>>),
            [method |-> "SIMPLE_RANDOM", allocation |-> "EQUAL", size |-> 5, strata |-> <<>>]}

(* With the code's own sizes: 10 of 1000 points for the smaller stratum *)
MCUnevenStrategies == {Stratified("PROPORTIONAL", 1000, StrataOf(<<99, 1>>))}

WorkerSymmetry == Permutations(Workers)
=============================================================================
