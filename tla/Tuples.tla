-------------------------------- MODULE Tuples --------------------------------
(***************************************************************************)
(* tuple_index() of code/4/4.3.tuples.cpp: indexing a tuple with a number  *)
(* that is known only when the program runs.  It compares the number with  *)
(* one constant index after the other.                                     *)
(*                                                                         *)
(* A behaviour is main(), which prints a tuple element by element, or one  *)
(* call with any index.                                                    *)
(***************************************************************************)
EXTENDS Integers, Sequences

CONSTANT MaxIndex   \* the indices of the single calls

VARIABLES
    asked,   \* the indices that main(), or the one caller, asks for
    calls,   \* how many of these calls have returned
    n,       \* the template parameter of the instance of _tuple_index that runs
    printed  \* what the calls have returned

vars == <<asked, calls, n, printed>>

get_student(id) ==
    CASE id = 0 -> <<"3.8", "A", "John">>
      [] id = 1 -> <<"2.9", "C", "Jack">>
      [] id = 2 -> <<"1.7", "D", "Ive">>
      [] OTHER  -> <<"0.0", "D", "null">>

\* std::tuple_cat(get_student(1), std::move(t))
new_tuple == get_student(1) \o <<"123", "4.5", "6.7", "8">>

tuple_len == Len(new_tuple)

OutOfRange == "out of range."

\* The loop of main(): for (int i = 0; i != tuple_len(new_tuple); ++i).
Iteration == [k \in 1..tuple_len |-> k - 1]

Init ==
    /\ asked \in {Iteration} \cup {<<i>> : i \in 0..MaxIndex}
    /\ calls = 0
    /\ n = 0
    /\ printed = <<>>

\* The call returns, or throws, r; the next one begins with _tuple_index<0>.
Result(r) ==
    /\ printed' = Append(printed, r)
    /\ calls' = calls + 1
    /\ n' = 0
    /\ UNCHANGED asked

\* (n < sizeof...(T)-1 ? n+1 : 0)
Following == IF n < tuple_len - 1 THEN n + 1 ELSE 0

\* One instance of _tuple_index: throws, returns, or calls the next one.
tuple_index ==
    /\ calls < Len(asked)
    /\ LET i == asked[calls + 1]
       IN  IF n >= tuple_len THEN Result(OutOfRange)
           ELSE IF i = n THEN Result(new_tuple[n + 1])
           ELSE n' = Following /\ UNCHANGED <<asked, calls, printed>>

Returned == calls = Len(asked) /\ UNCHANGED vars

Next == tuple_index \/ Returned

Spec == Init /\ [][Next]_vars

FairSpec == Spec /\ WF_vars(tuple_index)

------------------------------------------------------------------------------
TypeOK ==
    /\ calls \in 0..Len(asked)
    /\ n \in 0..tuple_len
    /\ Len(printed) = calls

InRange == \A k \in DOMAIN asked : asked[k] < tuple_len

AllFound == InRange => printed = [k \in DOMAIN asked |-> new_tuple[asked[k] + 1]]

\* Every element that is asked for is found, and main() prints the whole tuple.
ElementsFound == <>AllFound

\* What the throw expression of _tuple_index says: an index beyond the tuple
\* throws std::out_of_range.
RangeChecked == ~InRange => <>(OutOfRange \in {printed[k] : k \in DOMAIN printed})

==============================================================================
