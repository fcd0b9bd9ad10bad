--------------------------------- MODULE Places ---------------------------------
(***************************************************************************)
(* What a board wrote in its location field, read as places                *)
(* (packages/db/src/parsing/location.ts), and the domain of a role read     *)
(* from its title and team (classify.ts).                                   *)
(*                                                                         *)
(* A field is the words between its commas: [model, closes, parts, paren]   *)
(* is "Remote - Paris, FR", "Hybrid (Paris)" (closes) or "Lyon (France)".   *)
(* Spelling, case and accents are left out: a word stands for its spellings.*)
(***************************************************************************)
EXTENDS Sequences, SequencesExt, FiniteSets

CONSTANT Nowhere  \* null, and the absent parenthetical

\* COUNTRIES: the two-letter codes, and of the names those used here.
Alpha2 ==
    {"AR", "AT", "AU", "BE", "BG", "BR", "CA", "CH", "CL", "CN", "CO", "CZ", "DE", "DK", "EE",
     "EG", "ES", "FI", "FR", "GB", "GR", "HK", "HR", "HU", "ID", "IE", "IL", "IN", "IT", "JP",
     "KR", "LT", "LU", "LV", "MA", "MX", "MY", "NL", "NO", "NZ", "PE", "PH", "PL", "PT", "RO",
     "RS", "SE", "SG", "SI", "SK", "TH", "TN", "TR", "TW", "UA", "US", "VN", "ZA", "AE", "SA",
     "NG", "KE"}

COUNTRIES ==
    LET named == [France |-> "FR", Canada |-> "CA", Singapore |-> "SG"]
    IN [w \in Alpha2 \union DOMAIN named |-> IF w \in Alpha2 THEN w ELSE named[w]]

US_STATES ==
    {"AL", "AK", "AZ", "AR", "CA", "CO", "CT", "DE", "FL", "GA", "HI", "IA", "IL", "IN", "KS",
     "KY", "LA", "MA", "MD", "ME", "MI", "MN", "MO", "MS", "MT", "NC", "ND", "NE", "NH", "NJ",
     "NM", "NV", "NY", "OH", "OK", "OR", "PA", "RI", "SC", "SD", "TN", "TX", "UT", "VA", "VT",
     "WA", "WI", "WV", "WY", "DC"}

CA_PROVINCES ==
    {"AB", "BC", "MB", "NB", "NL", "NS", "NT", "NU", "ON", "PE", "QC", "SK", "YT"}

\* Of CITY_COUNTRIES, those used here.
CITY_COUNTRIES == [Paris |-> "FR", Austin |-> "US", London |-> "GB", Singapore |-> "SG"]

NOISE == {"Europe", "Worldwide"}

Lookup(table, word) == IF word \in DOMAIN table THEN table[word] ELSE Nowhere

CountryOf(word) == Lookup(COUNTRIES, word)

RegionCountry(word) ==
    CASE word \in US_STATES -> "US"
      [] word \in CA_PROVINCES \ US_STATES -> "CA"
      [] OTHER -> Nowhere

\* A bracket left on a word: no table has it.
Spoilt(word) == word \o ")"

Place(city, region, country, remote) ==
    [city |-> city, region |-> region, country |-> country, remote |-> remote]

\* Mutant: the city is the first word of what is left.
ParsePartsFirst(parts, remote) ==
    {Place(<<Head(parts)>>, Nowhere, CountryOf(Last(parts)), remote)}

\* parseOne on its words, right to left: a country, a region, the city.
ParseParts(parts, remote) ==
    LET named   == CountryOf(Last(parts))
        rest    == IF named = Nowhere THEN parts ELSE Front(parts)
        implied == RegionCountry(Last(rest))
        zoned   == Len(rest) > 1 /\ (named # Nowhere \/ implied # Nowhere)
        city    == IF zoned THEN Front(rest) ELSE rest
        country == CASE named # Nowhere -> named
                     [] named = Nowhere /\ zoned -> implied
                     [] OTHER -> IF Len(city) = 1 THEN Lookup(CITY_COUNTRIES, city[1]) ELSE Nowhere
    IN {Place(city, IF zoned THEN Last(rest) ELSE Nowhere, country, remote)}

\* The words of one place: "Remote (" drops the closing bracket, "Hybrid (" does
\* not, and of a parenthetical only a country is kept.
Words(c) ==
    CASE c.closes /\ c.model # "REMOTE" -> Append(Front(c.parts), Spoilt(Last(c.parts)))
      [] c.paren # Nowhere /\ CountryOf(c.paren) # Nowhere -> Append(c.parts, c.paren)
      [] OTHER -> c.parts

\* parseOne: no place, or one. A region of the world is none where it is the whole
\* value; beside a parenthetical it is read as a city.
ParseOne(c) ==
    LET words == Words(c)
        none  == c.paren = Nowhere /\ Len(words) = 1 /\ words[1] \in NOISE
    IN IF words = <<>> \/ none
       THEN {Place(<<>>, Nowhere, Nowhere, m) : m \in {c.model} \ {Nowhere}}
       ELSE ParseParts(words, c.model)

\* splitAmbiguousCommas: several places, unless the last word is a country or a region.
SplitCommas(c) ==
    LET n == Len(c.parts)
        qualified == ~c.closes /\ c.paren = Nowhere
                     /\ {CountryOf(Last(c.parts)), RegionCountry(Last(c.parts))} # {Nowhere}
    IN IF n < 2 \/ qualified THEN {c}
       ELSE {[model  |-> IF i = 1 THEN c.model ELSE Nowhere,
              closes |-> i = n /\ c.closes,
              parts  |-> <<c.parts[i]>>,
              paren  |-> IF i = n THEN c.paren ELSE Nowhere] : i \in 1 .. n}

\* LOCATION_SEPARATORS: "or" separates places, and is how Oregon is written.
Chunks(c) ==
    LET cuts == {0, Len(c.parts) + 1} \union {i \in DOMAIN c.parts : c.parts[i] = "OR"}
        Cut(i) == CHOOSE j \in cuts : j > i /\ \A k \in cuts : k > i => j <= k
    IN {[model  |-> IF i = 0 THEN c.model ELSE Nowhere,
         closes |-> Cut(i) > Len(c.parts) /\ c.closes,
         parts  |-> SubSeq(c.parts, i + 1, Cut(i) - 1),
         paren  |-> IF Cut(i) > Len(c.parts) THEN c.paren ELSE Nowhere] :
            i \in {j \in cuts : j <= Len(c.parts)}}

\* parseLocations of one field; the first 20 places are all of them here.
ParseLocations(c) ==
    UNION {UNION {ParseOne(one) : one \in SplitCommas(chunk)} :
               chunk \in {d \in Chunks(c) : d.parts # <<>> \/ d.model # Nowhere}}
-----------------------------------------------------------------------------
\* DOMAIN_PATTERNS, in their order; those between are left out.
DOMAIN_PATTERNS == <<"MACHINE_LEARNING", "SECURITY", "FRONTEND", "BACKEND", "OPERATIONS">>

\* classifyDomain: the first pattern that the title or the team hits.
ClassifyDomain(title, team) ==
    LET hits == {i \in DOMAIN DOMAIN_PATTERNS : DOMAIN_PATTERNS[i] \in title \union team}
    IN IF hits = {} THEN Nowhere
       ELSE DOMAIN_PATTERNS[CHOOSE i \in hits : \A j \in hits : i <= j]
=============================================================================
