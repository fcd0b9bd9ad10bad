-------------------------------- MODULE Listings --------------------------------
(***************************************************************************)
(* Reading a board: the adapters page by page                              *)
(* (apps/worker/src/domain/discovery/adapters), the pipeline's light and    *)
(* full reads (pipeline.ts) and one offer per key (normalize/job.ts).       *)
(*                                                                         *)
(* A board is the number of its postings, 1 .. size in the order of its     *)
(* pages; whether it says how many there are; whether it has one page only, *)
(* whichever is asked for; and a page that goes wrong: http.json gives null *)
(* for any answer but a good one, and throws when there is none.            *)
(***************************************************************************)
EXTENDS Integers, Sequences, FiniteSets, FiniteSetsExt

CONSTANTS PAGE_SIZE, MAX_PAGES

Adapters == {"once", "smartrecruiters", "workday", "teamtailor"}

Boards ==
    [size   : 0 .. PAGE_SIZE * (MAX_PAGES + 1),
     counts : BOOLEAN,                   \* workday's total
     flat   : BOOLEAN,                   \* a teamtailor feed without pages
     bad    : 0 .. MAX_PAGES,            \* the page that goes wrong, or 0
     how    : {"null", "throws"}]

All(b) == 1 .. b.size

\* The postings a page answers with; none if it is null.
Answer(adapter, b, p) ==
    CASE p = b.bad -> {}
      [] p # b.bad /\ (adapter = "once" \/ (adapter = "teamtailor" /\ b.flat)) -> All(b)
      [] OTHER -> {i \in All(b) : (i - 1) \div PAGE_SIZE = p - 1}

Before(adapter, b, p) == UNION {Answer(adapter, b, q) : q \in 1 .. p - 1}

UpTo(adapter, b, p) == Before(adapter, b, p) \union Answer(adapter, b, p)

\* The loops' breaks and returns: no page is asked for after this one.
Ends(adapter, b, p) ==
    CASE adapter = "once" -> TRUE
      [] adapter = "smartrecruiters" ->
            Cardinality(Answer(adapter, b, p)) < PAGE_SIZE \/ p = MAX_PAGES
      [] adapter = "workday" ->
            \/ Answer(adapter, b, p) = {}
            \/ b.counts /\ Cardinality(UpTo(adapter, b, p)) >= b.size
            \/ p = MAX_PAGES
      [] adapter = "teamtailor" ->
            Answer(adapter, b, p) \subseteq Before(adapter, b, p) \/ p = MAX_PAGES

LastPage(adapter, b) == Min({p \in 1 .. MAX_PAGES : Ends(adapter, b, p)})

\* Mutant: the cap is looked for a page too late.
MarksPartialLate(adapter, b) ==
    LastPage(adapter, b) = MAX_PAGES + 1 /\ adapter \in {"workday", "teamtailor"}

\* markPartial: said by two adapters, at their last page.
MarksPartial(adapter, b) ==
    /\ LastPage(adapter, b) = MAX_PAGES
    /\ \/ /\ adapter = "workday"
          /\ Answer(adapter, b, MAX_PAGES) # {}
          /\ b.counts /\ b.size > Cardinality(UpTo(adapter, b, MAX_PAGES))
       \/ /\ adapter = "teamtailor"
          /\ ~(Answer(adapter, b, MAX_PAGES) \subseteq Before(adapter, b, MAX_PAGES))

\* adapter.fetch: an exception loses what was read.
Fetch(adapter, b) ==
    LET last   == LastPage(adapter, b)
        throws == b.how = "throws" /\ b.bad \in 1 .. last
    IN [failed  |-> throws,
        jobs    |-> IF throws THEN {} ELSE UpTo(adapter, b, last),
        partial |-> MarksPartial(adapter, b) /\ ~throws]

\* JobDiscoveryService.run: previous is the set of keys its hash was taken of.
\* Both reads of a fast discovery are of the board as it is at the time.
Discover(adapter, board, later, fast, previous) ==
    LET light   == Fetch(adapter, board)
        again   == fast /\ light.jobs # {} /\ light.jobs # previous
        full    == Fetch(adapter, later)
        jobs    == IF again /\ full.jobs # {} THEN full.jobs ELSE light.jobs
        failed  == light.failed \/ (again /\ full.failed)
    IN [jobs        |-> jobs,
        detailed    |-> ~fast \/ (again /\ full.jobs # {}),
        partial     |-> jobs # {} /\ (light.partial \/ (again /\ full.partial)),
        notModified |-> jobs # {} /\ jobs = previous,
        error       |-> jobs = {} /\ failed]
-----------------------------------------------------------------------------
\* normalizeJobs: of the offers with one key, the first of the richest. An offer
\* without a plausible title or URL is left out.
NormalizeJobs(found) ==
    LET good == {i \in DOMAIN found : found[i].plausible}
        Beats(j, i) == /\ found[j].key = found[i].key
                       /\ \/ found[j].richness > found[i].richness
                          \/ found[j].richness = found[i].richness /\ j < i
    IN {found[i] : i \in {k \in good : \A j \in good : ~Beats(j, k)}}
=============================================================================
