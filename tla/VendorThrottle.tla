---------------------------- MODULE VendorThrottle ----------------------------
(***************************************************************************)
(* How the worker asks one vendor for its boards: the queue of calls, the  *)
(* gap, the budget, the strikes and the pause that HttpClient keeps per    *)
(* registrable domain (apps/worker/src/infrastructure/http/http.ts).       *)
(*                                                                         *)
(* A sleep is a timer that Tick runs down; what follows it may come late.  *)
(* A step is the code between two awaits.                                  *)
(***************************************************************************)
EXTENDS Integers, Sequences, FiniteSets

CONSTANTS Callers,     \* sources being read, each awaiting its call
          Origins,     \* hosts of the vendor, one robots.txt each
          Origin,      \* [Callers -> Origins]
          Skips,       \* callers that pass skipRobots
          Unread       \* no entry in robotsCache

CONSTANTS Gap,         \* perHostDelayMs, or VENDOR_DELAY_MS when it is more
          CrawlDelays, \* what a robots.txt may ask for
          Budget,      \* maxRequestsPerHost
          MaxStrikes,  \* maxRateLimitStrikes
          MaxRetries,  \* MAX_RETRIES
          Backoff,     \* sleeps between attempts, by reason and attempt
          Asks,        \* what a Retry-After may ask for
          NoAsk,       \* a 429 without one
          PauseCap,    \* 10 * 60_000
          LongPause,   \* 60_000
          AskCap,      \* 30_000
          HitCap       \* bound: the age of the last hit saturates here

Reasons == {"limited", "server", "thrown"}

ASSUME ThrottleAssumption ==
    /\ Origin \in [Callers -> Origins]
    /\ Skips \subseteq Callers
    /\ {Gap, Budget, MaxRetries, PauseCap, LongPause, AskCap, HitCap} \subseteq Nat
    /\ MaxStrikes \in Nat \ {0}
    /\ CrawlDelays \subseteq 0..HitCap
    /\ Gap <= HitCap
    /\ Asks \subseteq Nat
    /\ NoAsk \notin Nat
    /\ Backoff \in [Reasons -> [0..MaxRetries -> Nat]]

VARIABLES chain,     \* hostChain: the calls in the order they were made
          call,      \* where throttledRequest is for the first of them
          host,      \* HostState
          robots,    \* robotsCache
          sinceHit   \* age of lastHit

vars == <<chain, call, host, robots, sinceHit>>

Stages == {"free", "robots gap", "robots", "pause", "gap", "flight", "retry"}

Calls == [stage : Stages, timer : Nat, attempt : 0..MaxRetries]

Hosts == [pausedFor : 0..PauseCap, strikes : 0..MaxStrikes,
          requests : Nat, droppedForCycle : BOOLEAN]

Rules == [allowed : BOOLEAN, crawlDelay : CrawlDelays \union {0}]

ASSUME UnreadAssumption == Unread \notin Rules

\* Only OvershootBounded needs it.
ASSUME OriginsAssumption == IsFiniteSet(Origins)

TypeOK ==
    /\ chain \in Seq(Callers)
    /\ call \in Calls
    /\ host \in Hosts
    /\ robots \in [Origins -> Rules \union {Unread}]
    /\ sinceHit \in 0..HitCap
    /\ call.stage # "free" => chain # <<>>

Free == [stage |-> "free", timer |-> 0, attempt |-> 0]

NoRules == [allowed |-> TRUE, crawlDelay |-> 0]

Init ==
    /\ chain = <<>>
    /\ call = Free
    /\ host = [pausedFor |-> 0, strikes |-> 0, requests |-> 0, droppedForCycle |-> FALSE]
    /\ robots = [o \in Origins |-> Unread]
    /\ sinceHit = HitCap
-----------------------------------------------------------------------------
Least(x, y) == IF x <= y THEN x ELSE y
Greatest(x, y) == IF x >= y THEN x ELSE y

Queued == {chain[i] : i \in DOMAIN chain}

InStage(stage) == call.stage = stage

Awake(stage) == InStage(stage) /\ call.timer = 0

Sleep(stage, time) == call' = [call EXCEPT !.stage = stage, !.timer = time]

\* Mutant: a settled call stays at the head of the chain.
StayFirst ==
    /\ call' = Free
    /\ UNCHANGED chain

\* The call is answered, or rejected, and the next of the chain can start.
Settle ==
    /\ chain' = Tail(chain)
    /\ call' = Free

Keep == UNCHANGED chain

\* The rest of a delay since the last hit.
Rest(delay) == Greatest(0, delay - sinceHit)

\* Mutant: robots.txt, fetched outside the queue, does not wait.
RobotsAtOnce == 0

\* awaitVendorGap: without the crawl delay, which is not known yet.
RobotsRest == Rest(Gap)

\* Mutant: off by one.
OverBudgetByOne == host.requests > Budget

OverBudget == host.requests >= Budget

\* The budget, then the gap.
Admit(rules) ==
    \/ /\ OverBudget
       /\ host' = [host EXCEPT !.droppedForCycle = TRUE]
       /\ Settle
    \/ /\ ~OverBudget
       /\ Sleep("gap", Rest(Greatest(Gap, rules.crawlDelay)))
       /\ Keep /\ UNCHANGED host

\* robots.txt, a vendor dropped, a pause: what may stop a call before that.
Check(rules) ==
    \/ /\ \/ ~rules.allowed
          \/ host.droppedForCycle
          \/ host.pausedFor > LongPause
       /\ Settle /\ UNCHANGED host
    \/ /\ rules.allowed /\ ~host.droppedForCycle
       /\ host.pausedFor \in 1..LongPause
       /\ Sleep("pause", host.pausedFor)
       /\ Keep /\ UNCHANGED host
    \/ /\ rules.allowed /\ ~host.droppedForCycle
       /\ host.pausedFor = 0
       /\ Admit(rules)

RulesFor(c) == IF c \in Skips THEN NoRules ELSE robots[Origin[c]]
-----------------------------------------------------------------------------
\* A caller awaits one request at a time.
Request(c) ==
    /\ c \notin Queued
    /\ chain' = Append(chain, c)
    /\ UNCHANGED <<call, host, robots, sinceHit>>

Begin ==
    /\ InStage("free") /\ chain # <<>>
    /\ LET rules == RulesFor(Head(chain)) IN
        \/ /\ rules = Unread
           /\ Sleep("robots gap", RobotsRest)
           /\ Keep /\ UNCHANGED host
        \/ /\ rules # Unread
           /\ Check(rules)
    /\ UNCHANGED <<robots, sinceHit>>

Hit ==
    /\ sinceHit' = 0
    /\ host' = [host EXCEPT !.requests = @ + 1]

SendRobots ==
    /\ Awake("robots gap")
    /\ Hit
    /\ Sleep("robots", 0)
    /\ UNCHANGED <<chain, robots>>

\* A robots.txt that cannot be read allows everything, and is cached so.
RobotsAnswered ==
    /\ InStage("robots")
    /\ \E rules \in Rules :
        /\ robots' = [robots EXCEPT ![Origin[Head(chain)]] = rules]
        /\ Check(rules)
    /\ UNCHANGED sinceHit

AfterPause ==
    /\ Awake("pause")
    /\ Admit(RulesFor(Head(chain)))
    /\ UNCHANGED <<robots, sinceHit>>

\* A first attempt, or a retry.
Send ==
    /\ Awake("gap") \/ Awake("retry")
    /\ Hit
    /\ Sleep("flight", 0)
    /\ UNCHANGED <<chain, robots>>

\* Sleep and try again, or stop after the last attempt.
Retry(time) ==
    IF call.attempt = MaxRetries
    THEN Settle
    ELSE call' = [stage |-> "retry", timer |-> time, attempt |-> call.attempt + 1] /\ Keep

\* Any other status: only a 2xx clears the strikes.
Answered ==
    /\ InStage("flight")
    /\ \E ok \in BOOLEAN : host' = IF ok THEN [host EXCEPT !.strikes = 0] ELSE host
    /\ Settle
    /\ UNCHANGED <<robots, sinceHit>>

\* Mutant: a challenge that comes as a 503 is retried like any other.
RetryChallenge == Retry(Backoff["server"][call.attempt])

\* Never retry a challenge: it bans.
AfterChallenge == Settle

Challenged ==
    /\ InStage("flight")
    /\ host' = [host EXCEPT !.droppedForCycle = TRUE]
    /\ AfterChallenge
    /\ UNCHANGED <<robots, sinceHit>>

OutOfStrikes(strikes) == strikes >= MaxStrikes

RateLimited ==
    /\ InStage("flight")
    /\ \E asked \in Asks \union {NoAsk} :
        LET strikes == host.strikes + 1
            out == OutOfStrikes(strikes)
        IN  /\ host' = [host EXCEPT
                    !.strikes = strikes,
                    !.pausedFor = IF asked = NoAsk THEN @ ELSE Least(asked, PauseCap),
                    !.droppedForCycle = @ \/ out]
            /\ IF out THEN Settle
               ELSE Retry(IF asked = NoAsk THEN Backoff["limited"][call.attempt]
                          ELSE Least(asked, AskCap))
    /\ UNCHANGED <<robots, sinceHit>>

ServerError ==
    /\ InStage("flight")
    /\ Retry(Backoff["server"][call.attempt])
    /\ UNCHANGED <<host, robots, sinceHit>>

\* fetch throws: no connection, or the timeout.
Throws ==
    /\ InStage("flight")
    /\ Retry(Backoff["thrown"][call.attempt])
    /\ UNCHANGED <<host, robots, sinceHit>>

\* http.beginCycle: a cycle starts once every source of the last is dealt with.
BeginCycle ==
    /\ chain = <<>>
    /\ host' = [host EXCEPT !.strikes = 0, !.requests = 0, !.droppedForCycle = FALSE]
    /\ UNCHANGED <<chain, call, robots, sinceHit>>

Tick ==
    /\ call' = [call EXCEPT !.timer = Greatest(0, @ - 1)]
    /\ host' = [host EXCEPT !.pausedFor = Greatest(0, @ - 1)]
    /\ sinceHit' = Least(sinceHit + 1, HitCap)
    /\ UNCHANGED <<chain, robots>>
-----------------------------------------------------------------------------
Step ==
    \/ Begin
    \/ SendRobots \/ RobotsAnswered
    \/ AfterPause
    \/ Send
    \/ Answered \/ Challenged \/ RateLimited \/ ServerError \/ Throws

Next ==
    \/ \E c \in Callers : Request(c)
    \/ Step
    \/ BeginCycle
    \/ Tick

Spec == Init /\ [][Next]_vars

(***************************************************************************)
(* Time passes, and every await ends: a sleep by its timer, a fetch by its *)
(* AbortSignal.timeout.                                                    *)
(***************************************************************************)
FairSpec == Spec /\ WF_vars(Tick) /\ WF_vars(Step)
-----------------------------------------------------------------------------
(***************************************************************************)
(* Correctness.                                                            *)
(***************************************************************************)
\* A request leaves for the vendor.
Sending == call.stage # call'.stage /\ call'.stage \in {"robots", "flight"}

\* A robots.txt and the first attempt of a call keep the gap since whatever was
\* sent last, and a first attempt waits for a pause to end (http.ts: the robots
\* fetch, outside the queue, waits by itself).
FirstAttemptsWait ==
    [][/\ (Sending /\ call.stage # "retry") => sinceHit >= Gap
       /\ (Sending /\ call.stage = "gap") => host.pausedFor = 0]_vars

\* Once a vendor is dropped no page of it is asked for in that cycle, whatever
\* was waiting in the queue (README.md: rather than retrying into a ban).
DroppedSendsNoPage ==
    [][(Sending /\ call'.stage = "flight") => ~host.droppedForCycle]_vars

\* How far a cycle can exceed the budget: by the retries of one call and by the
\* robots.txt not read yet.
OvershootBounded ==
    host.requests <= Budget + MaxRetries + Cardinality(Origins)

\* Every call comes to an end, whatever the calls before it met.
EveryCallSettles == \A c \in Callers : (c \in Queued) ~> (c \notin Queued)
=============================================================================
