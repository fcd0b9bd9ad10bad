------------------------------- MODULE MCReadings -------------------------------
(* Readings on sheets that vary a few fields at a time.                     *)
EXTENDS Readings, SequencesExt

CONSTANTS a, b, REMOTE

Plain(c) == "NORMAL"

SomeOffers ==
    [value : {v \in [{"DOMAIN", "REMOTE_TYPE"} -> {a, b, REMOTE, Unknown}] :
                v["DOMAIN"] # REMOTE /\ v["REMOTE_TYPE"] # b},
     place : {"unknown", "city", "away"}, low : {"unknown", "above"}, high : {"unknown", "below"},
     foreign : BOOLEAN, followed : {FALSE}]

TheOffer(x) ==
    [value |-> [c \in Listed |-> IF c \in DOMAIN x.value THEN x.value[c] ELSE a],
     rank |-> [t \in Texts |-> 1], place |-> x.place, low |-> x.low,
     high |-> x.high, foreign |-> x.foreign,
     age |-> 3, required |-> TRUE, followed |-> x.followed]

SomeProfiles ==
    [domain : {{}, {a}}, remote : {{}, {a}, {REMOTE}}, places : {{}, {"city"}},
     relocates : BOOLEAN, salary : BOOLEAN, sparse : BOOLEAN,
     weight : {"IGNORED", "NORMAL", "ESSENTIAL"}, location : {"NORMAL", "ESSENTIAL"}]

TheProfile(x) ==
    [wanted |-> [c \in Listed |-> CASE c = "DOMAIN" -> x.domain [] c = "REMOTE_TYPE" -> x.remote
                                    [] c = "SENIORITY" /\ ~x.sparse -> {a} [] OTHER -> {}],
     texts |-> IF x.sparse THEN {} ELSE {"TITLE"}, places |-> x.places, relocates |-> x.relocates, salary |-> x.salary,
     currency |-> TRUE, maxAge |-> IF x.sparse THEN 0 ELSE 2, required |-> FALSE, excludes |-> FALSE,
     weights |-> [c \in Criteria |-> CASE c \in {"DOMAIN", "REMOTE_TYPE"} -> x.weight
                                       [] c = "LOCATION" -> x.location [] OTHER -> "NORMAL"]]

Matches == {[offer |-> TheOffer(x), profile |-> TheProfile(y)] : x \in SomeOffers, y \in SomeProfiles}

\* Four rows: what they are called by, an offer and an interaction.
TheRow(id, city, offer, interaction, posted, excluded) ==
    [id |-> id, says |-> [d \in Dimensions |-> CASE d = "city" -> city
                            [] d = "companyId" -> {offer.value["DOMAIN"]} [] OTHER -> {}],
     offer |-> offer, interaction |-> interaction, closed |-> id = 4, recent |-> id # 3,
     posted |-> posted, title |-> 1, rank |-> 1, found |-> id # 2, pays |-> id # 1,
     excluded |-> excluded]

TwoOffers ==
    {TheOffer([value |-> [c \in {"DOMAIN", "REMOTE_TYPE"} |-> IF c = "DOMAIN" THEN v ELSE REMOTE],
               place |-> "city", low |-> "unknown", high |-> "unknown", foreign |-> FALSE,
               followed |-> v = a]) :
        v \in {a, b}}

ThreeInteractions ==
    {None, [status |-> "NEW", saved |-> TRUE, tracked |-> FALSE],
     [status |-> "DISMISSED", saved |-> FALSE, tracked |-> TRUE]}

Rows ==
    {{TheRow(1, {a, b}, o, None, 1, e), TheRow(2, {b}, o, i, 1, FALSE),
      TheRow(3, {}, u, None, 2, FALSE), TheRow(4, {a}, u, i, 1, FALSE)} :
        o \in TwoOffers, u \in TwoOffers, i \in ThreeInteractions, e \in BOOLEAN}

Query(chosen, closed, statuses, only, score, sort, searched, tracked) ==
    [closed |-> closed, statuses |-> statuses,
     chosen |-> [d \in Dimensions |-> IF d = "city" THEN chosen ELSE {}],
     saved |-> FALSE, tracked |-> tracked, followed |-> FALSE, onlyMatches |-> only,
     minScore |-> score, maxScore |-> 100, paid |-> FALSE, since |-> None,
     searched |-> searched, sort |-> sort]

SomeQueries ==
    {Query(chosen, closed, statuses, only, score, sort, searched, tracked) :
        chosen \in {{}, {a}}, closed \in BOOLEAN, statuses \in {{}, {"NEW"}}, only \in BOOLEAN,
        score \in {0, 70}, sort \in {"default", "title"}, searched \in BOOLEAN,
        tracked \in {"no"}}
    \union {[Query(chosen, TRUE, {}, FALSE, 0, "default", FALSE, "any") EXCEPT
                 !.paid = paid, !.since = since, !.maxScore = 69] :
                chosen \in {{}, {a}}, paid \in BOOLEAN, since \in {None, 2}}

BoardProfiles ==
    {TheProfile([domain |-> {a}, remote |-> {}, places |-> {}, relocates |-> TRUE,
                 salary |-> FALSE, sparse |-> FALSE, weight |-> w, location |-> "NORMAL"]) :
        w \in {"NORMAL", "IGNORED"}}

Boards ==
    {[viewer |-> [profile |-> p, followsAny |-> f], rows |-> r, query |-> q] :
        p \in BoardProfiles, f \in BOOLEAN, r \in Rows, q \in SomeQueries}

Word == {"Paris", "Austin", "Springfield", "FR", "TX", "France", "Europe", "OR"}

States == {<<"Springfield", state>> : state \in P!US_STATES}

Fields ==
    [model : {Nowhere, "REMOTE", "HYBRID"}, closes : BOOLEAN,
     parts : SeqOf(Word, 3) \union States, paren : {Nowhere, "FR", "TX"}]

PlainFields == {f \in Fields : f.model # Nowhere => f.paren = Nowhere
                            /\ (f.closes => f.model # Nowhere)
                            /\ (f.closes \/ f.paren # Nowhere => f.parts # <<>>)}

Reads ==
    LET boards == {x \in L!Boards : x.bad = 0 => x.how = "null"}
    IN UNION {[adapter : L!Adapters, board : {x},
               later : {x} \union {y \in boards : y.size = x.size - 1 /\ y.bad = 1 /\ y.how = x.how
                                      /\ y.counts = x.counts /\ y.flat = x.flat},
               fast : BOOLEAN, previous : {{}, {1, 2}, L!All(x)}] : x \in boards}

Copies == SeqOf([key : {1, 2}, richness : {1, 2}, plausible : BOOLEAN], 3)

Dashboards ==
    {[days |-> 3, applications |-> {[id |-> i, sent |-> sent[i], status |-> status[i]] : i \in 1 .. 3}] :
        sent \in [1 .. 3 -> 0 .. 3], status \in [1 .. 3 -> {"WISHLIST", "APPLIED", "INTERVIEW"}]}
=============================================================================
