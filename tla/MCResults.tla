------------------------------ MODULE MCResults ------------------------------
EXTENDS Results

\* Two values near to each other and one far away, of both signs, one of them
\* no integer; an invalid one that is lost in a sum and one that is not.
MCValues == {<<-2, 1>>, <<1, 2>>, <<1, 1>>, NaN, Denormal}
=============================================================================
