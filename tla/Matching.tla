-------------------------------- MODULE Matching --------------------------------
(***************************************************************************)
(* The match of an offer and a profile (features/job-posting/match): the   *)
(* score and the filter, which the API writes in SQL, the reasons shown on *)
(* the card, and the listing built on them (job-posting.service.ts).       *)
(*                                                                         *)
(* What an offer says on a criterion is a value or Unknown. Text is        *)
(* abstracted to how well it ranks, a bound of a salary to the side of the *)
(* wanted one it is on, an age to a few days.                              *)
(***************************************************************************)
EXTENDS Integers, FiniteSets, FiniteSetsExt

CONSTANTS Values,   \* what an offer can say on a listed criterion; with "REMOTE"
          Unknown   \* the offer does not say

\* Criteria of the same shape: a set of values wanted, one value offered.
Listed == {"DOMAIN", "SENIORITY", "EMPLOYMENT_TYPE", "REMOTE_TYPE", "INDUSTRY"}

Texts == {"TITLE", "KEYWORDS", "MOTIVATION", "RESUME"}

Criteria == Listed \union Texts \union {"LOCATION", "SALARY", "FRESHNESS"}

\* WEIGHTS of score.ts.
Base ==
    [c \in Criteria |->
        CASE c = "DOMAIN" -> 40
          [] c \in {"EMPLOYMENT_TYPE", "TITLE"} -> 35
          [] c = "LOCATION" -> 30
          [] c = "KEYWORDS" -> 25
          [] c \in {"SENIORITY", "RESUME"} -> 20
          [] c \in {"REMOTE_TYPE", "INDUSTRY", "MOTIVATION"} -> 15
          [] c \in {"SALARY", "FRESHNESS"} -> 10]

\* IMPORTANCE_MULTIPLIER, in halves.
Multiplier == [IGNORED |-> 0, NICE_TO_HAVE |-> 1, NORMAL |-> 2, ESSENTIAL |-> 4]

EssentialMissCeiling == 69

StrongFitScore == 70

Offers ==
    [value    : [Listed -> Values \union {Unknown}],
     rank     : [Texts -> 0 .. 2],  \* 2: at or above the rank that earns all points
     place    : {"unknown", "city", "country", "away"},  \* a wanted city is in a wanted country
     low      : {"unknown", "below", "above"},  \* salaryMin
     high     : {"unknown", "below", "above"},  \* salaryMax
     foreign  : BOOLEAN,            \* priced in another currency
     age      : {-1, 0, 3, 9},      \* days since it was posted, -1 if it does not say
     required : BOOLEAN,            \* mentions the required keywords
     followed : BOOLEAN]

Profiles ==
    [wanted   : [Listed -> SUBSET Values],
     texts    : SUBSET Texts,
     places   : SUBSET {"city", "country"},  \* cities named, countries named
     relocates : BOOLEAN,
     salary   : BOOLEAN,  \* minSalary is set
     currency : BOOLEAN,
     maxAge   : {0, 2},
     required : BOOLEAN,
     excludes : BOOLEAN,
     weights  : [Criteria -> DOMAIN Multiplier]]

\* The fields of a criterion are filled in.
Filled(p, c) ==
    CASE c \in Listed    -> p.wanted[c] # {}
      [] c \in Texts     -> c \in p.texts
      [] c = "LOCATION"  -> p.places # {}
      [] c = "SALARY"    -> p.salary
      [] c = "FRESHNESS" -> p.maxAge > 0

Multiple(p, c) == Multiplier[p.weights[c]]

\* A criterion that counts: filled in and not muted.
Counts(p, c) == Filled(p, c) /\ Multiple(p, c) > 0

Essential(p, c) == p.weights[c] = "ESSENTIAL"
-----------------------------------------------------------------------------
\* cityMatchSql, countryMatchSql.
InCity(o, p) == "city" \in p.places /\ o.place = "city"

InCountry(o, p) == "country" \in p.places /\ o.place \in {"city", "country"}

AcceptsRemote(p) == p.wanted["REMOTE_TYPE"] = {} \/ "REMOTE" \in p.wanted["REMOTE_TYPE"]

\* Remote is as good as close by.
RemoteWillDo(o, p) == AcceptsRemote(p) /\ o.value["REMOTE_TYPE"] = "REMOTE"

Reachable(o, p) == InCity(o, p) \/ InCountry(o, p) \/ RemoteWillDo(o, p)

\* The offer's salary can be compared with the one wanted.
Comparable(o, p) == ~p.currency \/ ~o.foreign

Priced(o, p) == {o.low, o.high} # {"unknown"} /\ Comparable(o, p)

\* Either bound will do.
PaysEnough(o) == "above" \in {o.low, o.high}

\* Points are counted in eighths, which keeps them whole.
Points(weight, multiple) == 4 * weight * multiple

Hit(p, c) == Points(Base[c], Multiple(p, c))

LocationEarned(o, p) ==
    LET m == Multiple(p, "LOCATION") IN
    CASE InCity(o, p) -> Points(30, m)
      [] ~InCity(o, p) /\ InCountry(o, p) -> Points(20, m)
      [] ~InCity(o, p) /\ ~InCountry(o, p) /\ RemoteWillDo(o, p) -> Points(22, m)
      [] OTHER -> IF o.place # "unknown" /\ p.relocates THEN Points(10, m) ELSE 0

\* The points of a criterion that counts.
Earned(o, p, c) ==
    CASE c \in Listed -> IF o.value[c] \in p.wanted[c] THEN Hit(p, c) ELSE 0
      [] c = "TITLE" -> IF o.rank[c] > 0 THEN Hit(p, c) ELSE 0
      [] c \in Texts \ {"TITLE"} -> (Hit(p, c) * o.rank[c]) \div 2
      [] c = "LOCATION" -> LocationEarned(o, p)
      [] c = "SALARY" -> IF Priced(o, p) /\ PaysEnough(o) THEN Hit(p, c) ELSE 0
      [] c = "FRESHNESS" -> IF o.age < 0 THEN 0
                            ELSE (Hit(p, c) * Max({0, 2 * p.maxAge - o.age})) \div (2 * p.maxAge)

\* Mutant: an offer that does not say is rated like one that says the wrong thing.
CeilingFlat(o, p, c) == Hit(p, c)

\* The points it could have earned: none on a criterion the offer says nothing
\* about, so that it is not held against it.
Ceiling(o, p, c) ==
    CASE c \in Listed -> IF o.value[c] = Unknown THEN 0 ELSE Hit(p, c)
      [] c = "LOCATION" -> IF o.place = "unknown" THEN 0 ELSE Hit(p, c)
      [] c = "SALARY" -> IF Priced(o, p) THEN Hit(p, c) ELSE 0
      [] c = "FRESHNESS" -> IF o.age < 0 THEN 0 ELSE Hit(p, c)
      [] OTHER -> Hit(p, c)

\* capIfEssential: what the offer says contradicts something essential.
Misses(o, p, c) ==
    /\ Counts(p, c) /\ Essential(p, c)
    /\ \/ c \in Listed \ {"INDUSTRY"} /\ o.value[c] \notin p.wanted[c] \union {Unknown}
       \/ c = "LOCATION" /\ ~p.relocates /\ o.place # "unknown" /\ ~Reachable(o, p)

Capped(o, p) == \E c \in Criteria : Misses(o, p, c)

\* isConfigured: something is filled in, be it only what to leave out.
IsConfigured(p) == p.required \/ p.excludes \/ \E c \in Criteria : Filled(p, c)

\* buildMatchSql has something to score by; without it offers have no score.
HasScore(p, followsAny) ==
    IsConfigured(p) /\ (followsAny \/ p.required \/ \E c \in Criteria : Counts(p, c))

\* The points an offer could have had in all, for a viewer who follows some company or
\* none; none at all where it says nothing on the only criteria there are.
Rateable(o, p, followsAny) ==
    MapThenSumSet(LAMBDA c : Ceiling(o, p, c), {c \in Criteria : Counts(p, c)})
    + (IF p.required THEN Points(30, 2) ELSE 0)
    + (IF followsAny THEN Points(8, 2) ELSE 0)

\* buildMatchSql: a percentage of the points there were to have, 0 if there were none
\* (NULLIF), whatever was earned.
Score(o, p, followsAny) ==
    LET counted == {c \in Criteria : Counts(p, c)}
        earned  == MapThenSumSet(LAMBDA c : Earned(o, p, c), counted)
                   + (IF p.required /\ o.required THEN Points(30, 2) ELSE 0)
                   + (IF followsAny /\ o.followed THEN Points(8, 2) ELSE 0)
        ceiling == Rateable(o, p, followsAny)
        percent == IF ceiling = 0 THEN 0 ELSE (200 * earned + ceiling) \div (2 * ceiling)
    IN Min({100, percent, IF Capped(o, p) THEN EssentialMissCeiling ELSE 100})
-----------------------------------------------------------------------------
\* Mutant: remote offers are let through by their location alone.
PassesNearby(o, p) ==
    /\ \A c \in Listed : Counts(p, c) => o.value[c] \in p.wanted[c] \union {Unknown}
    /\ Counts(p, "LOCATION") =>
            p.relocates \/ InCity(o, p) \/ InCountry(o, p) \/ o.value["REMOTE_TYPE"] = "REMOTE"
            \/ o.place = "unknown"
    /\ p.required => o.required
    /\ Counts(p, "SALARY") => (Priced(o, p) => PaysEnough(o))

\* buildMatchPredicate: the offers "only matches" keeps.
Passes(o, p) ==
    /\ \A c \in Listed : Counts(p, c) => o.value[c] \in p.wanted[c] \union {Unknown}
    /\ Counts(p, "LOCATION") => p.relocates \/ Reachable(o, p) \/ o.place = "unknown"
    /\ p.required => o.required
    /\ Counts(p, "SALARY") => (Priced(o, p) => PaysEnough(o))

When(condition, reason) == IF condition THEN {reason} ELSE {}

\* The line of a card on a criterion, and whether the card has one on a listed criterion:
\* muting is minded for the first three only.
Reason(kind, met) == [kind |-> kind, met |-> met]
Shown(o, p, c) == /\ o.value[c] # Unknown /\ Filled(p, c)
                  /\ c \in {"DOMAIN", "SENIORITY", "EMPLOYMENT_TYPE"} => Multiple(p, c) > 0
Lists(o, p, c) == Reason(c, o.value[c] \in p.wanted[c])

\* buildMatchReasons: a salary is compared whatever its currency, by its maximum alone.
Reasons(o, p) ==
    (UNION {When(Shown(o, p, c), Lists(o, p, c)) : c \in Listed})
       \union (UNION {When(c \in p.texts /\ o.rank[c] > 0, Reason(c, TRUE)) : c \in Texts})
       \union When(InCity(o, p), Reason("city", TRUE))
       \union When(InCountry(o, p) /\ ~InCity(o, p), Reason("country", TRUE))
       \union When(p.required /\ o.required, Reason("required", TRUE))
       \union When(p.salary /\ o.high # "unknown", Reason("SALARY", o.high = "above"))
       \union When(o.followed, Reason("followed", TRUE))
=============================================================================
