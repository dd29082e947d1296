--------------------------- MODULE MCJsonDocument ---------------------------
(* Small instances of JsonDocument. *)
EXTENDS JsonDocument

A == <<"a">>
B == <<"n">>

\* Numbers of seven digits: an int, and doubles of which 12345.67 loses its last digit,
\* 99999.96 and 999999.5 are rounded up to a whole number, the latter to a million,
\* -123456.5 and 1234567.5 are rounded to the even or the nearer one.
LongNumbers ==
    <<[int |-> 1234567], [double |-> 1234567], [double |-> 9999996], [double |-> 99999950],
      [double |-> -12345650], [double |-> 123456750], [double |-> 100000000]>>

\* A string, which could pass for a key, doubles without a fraction and without a value,
\* and an array of others that is given as a whole, as io::Search gives its responses.
MCValues ==
    {[string |-> A], [double |-> 100], [notfinite |-> "nan"],
     [array |-> <<[int |-> 1], [double |-> 50], [word |-> "true"], [array |-> LongNumbers]>>]}

\* 1, 1.0 and 0.5
MCNumbers ==
    {[hundredths |-> 100, point |-> FALSE], [hundredths |-> 100, point |-> TRUE],
     [hundredths |-> 50, point |-> TRUE]}

MCStrings == {A, B}
=============================================================================
