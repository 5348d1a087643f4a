--------------------------- MODULE MCUpdateCycle ---------------------------
(* UpdateCycle with two generations of manifests.                         *)
EXTENDS UpdateCycle

Number(n) == [digits |-> TRUE, value |-> n, word |-> ""]
Word(w) == [digits |-> FALSE, value |-> 0, word |-> w]

\* 1.1, 1.10, and 1.12, whose last number does not fit
Stable(a, b) == [parts |-> <<Number(a), Number(b)>>, dotted |-> TRUE]

\* 6.1+build.2, and with .experimental
Build(d, n) == [parts |-> <<Number(6), Number(d), Word("build"), Number(n)>>, dotted |-> FALSE]
Experimental(d, n) ==
    [parts |-> Build(d, n).parts \o <<Word("experimental")>>, dotted |-> FALSE]

EndOfLife(v, ends) == [version |-> v, ends_at |-> ends]

Published1(v, min, eol) == [version |-> v, min_app_version |-> min, end_of_life |-> eol]

\* The second stable release needs the first.
MCManifests ==
    << [stable |-> Published1(Stable(1, 1), Stable(0, 0), {EndOfLife(Stable(1, 0), 4)}),
        snapshot |-> Published1(Build(1, 2), Stable(0, 0), {}),
        experimental |-> None],
       [stable |-> Published1(Stable(1, 10), Stable(1, 1),
                              {EndOfLife(Stable(1, 1), 6), EndOfLife(Stable(1, 10), 8)}),
        snapshot |-> Published1(Build(1, 10), Stable(0, 0), {EndOfLife(Build(1, 2), 3)}),
        experimental |-> Published1(Experimental(1, 2), Stable(0, 0), {})] >>

MCFirstInstalls == {Stable(1, 12)}

\* A second, then doubled.
MCDelays == [n \in 1 .. 5 |-> 2 ^ (n - 1)]
=============================================================================
