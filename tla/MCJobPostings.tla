---------------------------- MODULE MCJobPostings ----------------------------
(***************************************************************************)
(* Small instances of JobPostings: two boards of one company.              *)
(***************************************************************************)
EXTENDS JobPostings

CONSTANTS here, there,           \* the boards
          u1, u2, u3, e1, e2, e3, k1, k2, k3, p, q

Offer(url, ext, key, cities) == [url |-> url, ext |-> ext, key |-> key, cities |-> cities]

Twins == {<<k1, k2>>, <<k2, k1>>}

\* One opening, on both boards, each with its own URL and id.
Original  == Offer(u1, e1, k1, {p})
Relocated == Offer(u1, e1, k1, {p, q})
Copy      == Offer(u2, e2, k1, {p})
Respelled == Offer(u2, e2, k2, {p})

\* Another opening that folds to the same title and city.
Homonym == Offer(u3, e3, k1, {p})

\* And one that has nothing to do with the others.
Another == Offer(u3, e3, k3, {})

AllOffers == {Original, Relocated, Copy, Respelled, Homonym, Another}

CrossPosted == [b \in Boards |->
    IF b = here THEN {{}, {Original}, {Relocated}, {Original, Homonym}}
    ELSE {{}, {Copy}, {Respelled}}]

Spelled == [b \in Boards |-> IF b = here THEN {{Original}} ELSE {{}, {Copy}, {Respelled}}]

\* A board that has two openings under one key, and one that drops its copy.
Dropped == [b \in Boards |->
    IF b = here THEN {{Original, Homonym}} ELSE {{Copy}, {Another}}]

\* One board at a time, every request to its end; then requests that interleave
\* and stop anywhere.
SerialAndStops ==
    {[listings |-> CrossPosted, concurrency |-> 1, mayStop |-> FALSE],
     [listings |-> Spelled, concurrency |-> 2, mayStop |-> TRUE],
     [listings |-> Dropped, concurrency |-> 2, mayStop |-> TRUE]}
=============================================================================
