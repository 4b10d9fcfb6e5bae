------------------------------ MODULE MCListings ------------------------------
(* An instance of Listings for TLC: main()'s two threads and a third, with *)
(* the arguments 2, 3 and 4; every path of up to six characters.           *)
EXTENDS Listings, SequencesExt

CONSTANTS t1, t2, t3

Arguments == (t1 :> 2) @@ (t2 :> 3) @@ (t3 :> 4)

ShortPaths == BoundedSeq(Chars, 6)

==============================================================================
