------------------------ MODULE VendorThrottle_proofs ------------------------
(***************************************************************************)
(* What holds of the client of one vendor for any number of callers and    *)
(* hosts, and any delays.                                                  *)
(***************************************************************************)
EXTENDS VendorThrottle, FiniteSetTheorems, SequenceTheorems, TLAPS

\* Where a call waits for its first attempt, the gap and the pause end with it.
Waiting ==
    /\ call.stage \in {"robots gap", "gap"} => sinceHit + call.timer >= Gap
    /\ call.stage = "pause" => host.pausedFor <= call.timer
    /\ call.stage = "gap" => host.pausedFor = 0

\* A dropped vendor has no call that is about to send, and one out of strikes
\* is dropped.
NothingPending ==
    /\ host.droppedForCycle => call.stage \notin {"pause", "gap", "flight", "retry"}
    /\ host.strikes = MaxStrikes => host.droppedForCycle

\* A call that sits out a pause has its robots.txt behind it.
RulesKnown == call.stage = "pause" => RulesFor(Head(chain)) # Unread

ThrottleInv == TypeOK /\ Waiting /\ NothingPending /\ RulesKnown
-----------------------------------------------------------------------------
\* The helpers are the minimum, the maximum and a number of ticks.
LEMMA Ticks ==
    ASSUME NEW m \in Int, NEW n \in Int
    PROVE  /\ Least(m, n) \in {m, n} /\ Least(m, n) <= m /\ Least(m, n) <= n
           /\ Greatest(m, n) \in {m, n} /\ Greatest(m, n) >= m /\ Greatest(m, n) >= n
BY DEF Least, Greatest

\* The constants are numbers.
LEMMA Numbers ==
    /\ Gap \in Nat /\ Budget \in Nat /\ MaxRetries \in Nat /\ PauseCap \in Nat
    /\ LongPause \in Nat /\ AskCap \in Nat /\ HitCap \in Nat
    /\ MaxStrikes \in Nat /\ MaxStrikes # 0
    /\ CrawlDelays \subseteq Nat
BY ThrottleAssumption

\* The call being handled is one of a caller.
LEMMA FirstCaller ==
    ASSUME TypeOK, chain # <<>>
    PROVE  Head(chain) \in Callers
BY HeadTailProperties DEF TypeOK

\* What is on file of a robots.txt that was read is a rule.
LEMMA RulesType ==
    ASSUME TypeOK, NEW c \in Callers, RulesFor(c) # Unread
    PROVE  RulesFor(c) \in Rules
<1>1. NoRules \in Rules
  BY DEF NoRules, Rules
<1>2. Origin[c] \in Origins
  BY ThrottleAssumption
<1>3. QED
  BY <1>1, <1>2 DEF RulesFor, TypeOK

\* A hit is counted and changes nothing else of the vendor.
LEMMA HitType ==
    ASSUME host \in Hosts, Hit
    PROVE  /\ host' \in Hosts
           /\ host'.droppedForCycle = host.droppedForCycle
           /\ host'.strikes = host.strikes
           /\ host'.pausedFor = host.pausedFor
           /\ sinceHit' = 0
<1>1. host.requests + 1 \in Nat
  BY DEF Hosts
<1>2. QED
  BY <1>1 DEF Hit, Hosts

\* What waits for the rest of the gap waits long enough.
LEMMA RestIsEnough ==
    ASSUME TypeOK, NEW delay \in Nat
    PROVE  /\ Rest(delay) \in Nat
           /\ sinceHit + Rest(delay) >= delay
<1>1. sinceHit \in Int
  BY Numbers DEF TypeOK
<1>2. QED
  BY <1>1, Ticks DEF Rest, Greatest

\* A settled call leaves the invariant to the state of the vendor.
LEMMA SettleKeeps ==
    ASSUME ThrottleInv, chain # <<>>, Settle, host' \in Hosts,
           host'.strikes = MaxStrikes => host'.droppedForCycle,
           robots' \in [Origins -> Rules \union {Unread}], sinceHit' = sinceHit
    PROVE  ThrottleInv'
<1>1. chain' \in Seq(Callers)
  BY DEF ThrottleInv, TypeOK, Settle
<1>2. call'.stage = "free" /\ call' \in Calls
  BY Numbers DEF Settle, Free, Calls, Stages
<1>3. QED
  BY <1>1, <1>2 DEF ThrottleInv, TypeOK, Waiting, NothingPending, RulesKnown

\* A call that goes to sleep is still the first of the chain.
LEMMA SleepType ==
    ASSUME TypeOK, NEW stage \in Stages, NEW time \in Nat, Sleep(stage, time)
    PROVE  /\ call' \in Calls
           /\ call'.stage = stage
           /\ call'.timer = time
BY DEF TypeOK, Sleep, Calls

\* The budget and the gap, for a call that nothing else stops.
LEMMA AdmitKeeps ==
    ASSUME ThrottleInv, chain # <<>>, NEW rules \in Rules, Admit(rules),
           ~host.droppedForCycle, host.pausedFor = 0,
           robots' \in [Origins -> Rules \union {Unread}], sinceHit' = sinceHit
    PROVE  ThrottleInv'
<1>1. CASE /\ host' = [host EXCEPT !.droppedForCycle = TRUE]
           /\ Settle
  <2>1. host' \in Hosts /\ host'.droppedForCycle
    BY <1>1 DEF ThrottleInv, TypeOK, Hosts
  <2>2. QED
    BY <1>1, <2>1, SettleKeeps
<1>2. CASE /\ Sleep("gap", Rest(Greatest(Gap, rules.crawlDelay)))
           /\ Keep /\ UNCHANGED host
  <2>1. /\ Greatest(Gap, rules.crawlDelay) \in Nat
        /\ Greatest(Gap, rules.crawlDelay) >= Gap
    <3>1. rules.crawlDelay \in CrawlDelays \union {0}
      BY DEF Rules
    <3>2. \A n \in CrawlDelays \union {0} : n \in Nat
      BY Numbers
    <3>3. rules.crawlDelay \in Nat
      BY <3>1, <3>2
    <3>4. QED
      BY <3>3, Numbers, Ticks
  <2>2. /\ Rest(Greatest(Gap, rules.crawlDelay)) \in Nat
        /\ sinceHit + Rest(Greatest(Gap, rules.crawlDelay)) >= Gap
    BY <2>1, RestIsEnough, Numbers DEF ThrottleInv, TypeOK
  <2>3. /\ call' \in Calls /\ call'.stage = "gap"
        /\ call'.timer = Rest(Greatest(Gap, rules.crawlDelay))
    BY <1>2, <2>2, SleepType DEF ThrottleInv, Stages
  <2>4. QED
    BY <1>2, <2>2, <2>3
    DEF Keep, ThrottleInv, TypeOK, Waiting, NothingPending, RulesKnown
<1>3. QED
  BY <1>1, <1>2 DEF Admit

\* All that may stop a call before its first attempt.
LEMMA CheckKeeps ==
    ASSUME ThrottleInv, chain # <<>>, NEW rules \in Rules, Check(rules),
           robots' \in [Origins -> Rules \union {Unread}], sinceHit' = sinceHit,
           (UNCHANGED chain => RulesFor(Head(chain))' # Unread)
    PROVE  ThrottleInv'
<1>1. CASE Settle /\ UNCHANGED host
  BY <1>1, SettleKeeps DEF ThrottleInv, TypeOK, NothingPending
<1>2. CASE /\ ~host.droppedForCycle
           /\ host.pausedFor \in 1..LongPause
           /\ Sleep("pause", host.pausedFor)
           /\ Keep /\ UNCHANGED host
  <2>1. host.pausedFor \in Nat
    BY <1>2, Numbers
  <2>2. /\ call' \in Calls /\ call'.stage = "pause"
        /\ call'.timer = host.pausedFor
    BY <1>2, <2>1, SleepType DEF ThrottleInv, Stages
  <2>3. RulesKnown'
    BY <1>2 DEF Keep, RulesKnown
  <2>4. TypeOK'
    BY <1>2, <2>2 DEF Keep, ThrottleInv, TypeOK
  <2>5. Waiting'
    BY <1>2, <2>1, <2>2 DEF Waiting
  <2>6. NothingPending'
    BY <1>2, <2>2 DEF ThrottleInv, NothingPending
  <2>7. QED
    BY <2>3, <2>4, <2>5, <2>6 DEF ThrottleInv
<1>3. CASE ~host.droppedForCycle /\ host.pausedFor = 0 /\ Admit(rules)
  BY <1>3, AdmitKeeps
<1>4. QED
  BY <1>1, <1>2, <1>3 DEF Check

\* What follows an attempt that may be repeated.
LEMMA RetryKeeps ==
    ASSUME ThrottleInv, call.stage = "flight", NEW time \in Nat, Retry(time),
           host' \in Hosts, ~host'.droppedForCycle, host'.strikes # MaxStrikes,
           UNCHANGED <<robots, sinceHit>>
    PROVE  ThrottleInv'
<1>1. chain # <<>>
  BY DEF ThrottleInv, TypeOK
<1>2. CASE call.attempt = MaxRetries
  BY <1>1, <1>2, SettleKeeps DEF Retry, ThrottleInv, TypeOK
<1>3. CASE call.attempt # MaxRetries
  <2>1. call' = [stage |-> "retry", timer |-> time, attempt |-> call.attempt + 1]
        /\ chain' = chain
    BY <1>3 DEF Retry, Keep
  <2>2. call.attempt + 1 \in 0..MaxRetries
    BY <1>3, Numbers DEF ThrottleInv, TypeOK, Calls
  <2>3. call' \in Calls /\ call'.stage = "retry"
    BY <2>1, <2>2 DEF Calls, Stages
  <2>4. QED
    BY <2>1, <2>3 DEF ThrottleInv, TypeOK, Waiting, NothingPending, RulesKnown
<1>4. QED
  BY <1>2, <1>3

\* The sleeps between two attempts are numbers of ticks.
LEMMA BackoffType ==
    ASSUME TypeOK, NEW reason \in Reasons
    PROVE  Backoff[reason][call.attempt] \in Nat
BY ThrottleAssumption DEF TypeOK, Calls

\* The steps up to a first attempt keep the invariant.
LEMMA FirstAttemptSteps ==
    ASSUME ThrottleInv, Begin \/ SendRobots \/ RobotsAnswered \/ AfterPause \/ Send
    PROVE  ThrottleInv'
<1> USE DEF ThrottleInv
<1>1. CASE Begin
  <2> DEFINE rules == RulesFor(Head(chain))
  <2>1. chain # <<>> /\ Head(chain) \in Callers
    BY <1>1, FirstCaller DEF Begin
  <2>2. robots' \in [Origins -> Rules \union {Unread}] /\ sinceHit' = sinceHit
        /\ robots' = robots
    BY <1>1 DEF Begin, TypeOK
  <2>3. CASE /\ rules = Unread
             /\ Sleep("robots gap", RobotsRest)
             /\ Keep /\ UNCHANGED host
    <3>1. RobotsRest \in Nat /\ sinceHit + RobotsRest >= Gap
      BY RestIsEnough, Numbers DEF RobotsRest
    <3>2. /\ call' \in Calls /\ call'.stage = "robots gap"
          /\ call'.timer = RobotsRest
      BY <2>3, <3>1, SleepType DEF Stages
    <3>3. QED
      BY <2>1, <2>2, <2>3, <3>1, <3>2
      DEF Keep, TypeOK, Waiting, NothingPending, RulesKnown
  <2>4. CASE rules # Unread /\ Check(rules)
    <3>1. rules \in Rules
      BY <2>1, <2>4, RulesType
    <3>2. UNCHANGED chain => RulesFor(Head(chain))' # Unread
      BY <2>2, <2>4 DEF RulesFor
    <3> HIDE DEF rules
    <3>3. QED
      BY <2>1, <2>2, <2>4, <3>1, <3>2, CheckKeeps
  <2>5. QED
    BY <1>1, <2>3, <2>4 DEF Begin
<1>2. CASE SendRobots
  <2>1. call' \in Calls /\ call'.stage = "robots"
    BY <1>2, SleepType DEF SendRobots, Stages
  <2>2. host' \in Hosts /\ host'.droppedForCycle = host.droppedForCycle
        /\ host'.strikes = host.strikes
        /\ sinceHit' = 0
    BY <1>2, HitType DEF SendRobots, TypeOK
  <2>3. TypeOK'
    <3>1. UNCHANGED <<chain, robots>> /\ chain # <<>>
      BY <1>2 DEF SendRobots, Awake, InStage, TypeOK
    <3>2. sinceHit' \in 0..HitCap
      BY <2>2, Numbers
    <3>3. QED
      BY <2>1, <2>2, <3>1, <3>2 DEF TypeOK
  <2>4. Waiting' /\ NothingPending' /\ RulesKnown'
    BY <2>1, <2>2 DEF Waiting, NothingPending, RulesKnown
  <2>5. QED
    BY <2>3, <2>4
<1>3. CASE RobotsAnswered
  <2>1. PICK rules \in Rules :
            /\ robots' = [robots EXCEPT ![Origin[Head(chain)]] = rules]
            /\ Check(rules)
    BY <1>3 DEF RobotsAnswered
  <2>2. chain # <<>> /\ Head(chain) \in Callers
    BY <1>3, FirstCaller DEF RobotsAnswered, InStage, TypeOK
  <2>3. robots' \in [Origins -> Rules \union {Unread}] /\ sinceHit' = sinceHit
    BY <1>3, <2>1 DEF RobotsAnswered, TypeOK
  <2>4. Origin[Head(chain)] \in Origins /\ NoRules \in Rules
    BY <2>2, ThrottleAssumption DEF NoRules, Rules
  <2>5. UNCHANGED chain => RulesFor(Head(chain))' # Unread
    BY <2>1, <2>4, UnreadAssumption DEF RulesFor, TypeOK
  <2>6. QED
    BY <2>1, <2>2, <2>3, <2>5, CheckKeeps
<1>4. CASE AfterPause
  <2> DEFINE rules == RulesFor(Head(chain))
  <2>1. call.stage = "pause" /\ call.timer = 0
    BY <1>4 DEF AfterPause, Awake, InStage
  <2>2. chain # <<>> /\ Head(chain) \in Callers
    BY <2>1, FirstCaller DEF TypeOK
  <2>3. host.pausedFor = 0 /\ ~host.droppedForCycle
    BY <2>1 DEF Waiting, NothingPending, TypeOK, Hosts
  <2>4. rules \in Rules
    BY <2>1, <2>2, RulesType DEF RulesKnown
  <2>5. /\ Admit(rules) /\ sinceHit' = sinceHit
        /\ robots' \in [Origins -> Rules \union {Unread}]
    BY <1>4 DEF AfterPause, TypeOK
  <2> HIDE DEF rules
  <2>6. QED
    BY <2>2, <2>3, <2>4, <2>5, AdmitKeeps
<1>5. CASE Send
  <2>1. call' \in Calls /\ call'.stage = "flight"
    BY <1>5, SleepType DEF Send, Stages
  <2>2. host' \in Hosts /\ host'.droppedForCycle = host.droppedForCycle
        /\ host'.strikes = host.strikes
        /\ sinceHit' = 0
    BY <1>5, HitType DEF Send, TypeOK
  <2>3. call.stage \in {"gap", "retry"}
    BY <1>5 DEF Send, Awake, InStage
  <2>4. TypeOK'
    BY <1>5, <2>1, <2>2, <2>3, Numbers DEF Send, TypeOK
  <2>5. Waiting' /\ NothingPending' /\ RulesKnown'
    BY <2>1, <2>2, <2>3 DEF Waiting, NothingPending, RulesKnown
  <2>6. QED
    BY <2>4, <2>5
<1>6. QED
  BY <1>1, <1>2, <1>3, <1>4, <1>5

\* So do the ways a request can end.
LEMMA AnswerSteps ==
    ASSUME ThrottleInv, Answered \/ Challenged \/ RateLimited \/ ServerError \/ Throws
    PROVE  ThrottleInv'
<1> USE DEF ThrottleInv
<1>1. /\ call.stage = "flight" /\ chain # <<>>
      /\ UNCHANGED <<robots, sinceHit>>
      /\ robots' \in [Origins -> Rules \union {Unread}]
  BY DEF Answered, Challenged, RateLimited, ServerError, Throws, InStage, TypeOK
<1>2. ~host.droppedForCycle /\ host.strikes # MaxStrikes
  BY <1>1 DEF NothingPending
<1>3. CASE Answered
  <2>1. host' \in Hosts /\ host'.strikes # MaxStrikes
    BY <1>2, <1>3, ThrottleAssumption DEF Answered, TypeOK, Hosts
  <2>2. QED
    BY <1>1, <1>3, <2>1, SettleKeeps DEF Answered
<1>4. CASE Challenged
  <2>1. host' \in Hosts /\ host'.droppedForCycle
    BY <1>4 DEF Challenged, TypeOK, Hosts
  <2>2. QED
    BY <1>1, <1>4, <2>1, SettleKeeps DEF Challenged, AfterChallenge
<1>5. CASE RateLimited
  <2>1. PICK asked \in Asks \union {NoAsk} :
            /\ host' = [host EXCEPT
                    !.strikes = host.strikes + 1,
                    !.pausedFor = IF asked = NoAsk THEN @ ELSE Least(asked, PauseCap),
                    !.droppedForCycle = @ \/ OutOfStrikes(host.strikes + 1)]
            /\ IF OutOfStrikes(host.strikes + 1) THEN Settle
               ELSE Retry(IF asked = NoAsk THEN Backoff["limited"][call.attempt]
                          ELSE Least(asked, AskCap))
    BY <1>5 DEF RateLimited
  <2>2. asked # NoAsk => /\ Least(asked, PauseCap) \in 0..PauseCap
                         /\ Least(asked, AskCap) \in Nat
    BY ThrottleAssumption, Numbers DEF Least
  <2>3. host.strikes + 1 \in 0..MaxStrikes
    BY <1>2, ThrottleAssumption DEF TypeOK, Hosts
  <2>4. host.droppedForCycle \/ OutOfStrikes(host.strikes + 1) \in BOOLEAN
    BY DEF OutOfStrikes
  <2>5. /\ host' \in Hosts
        /\ host'.strikes = host.strikes + 1
        /\ host'.droppedForCycle = OutOfStrikes(host.strikes + 1)
    BY <1>2, <2>1, <2>2, <2>3, <2>4 DEF TypeOK, Hosts, OutOfStrikes
  <2>6. CASE OutOfStrikes(host.strikes + 1)
    BY <1>1, <2>1, <2>5, <2>6, SettleKeeps
  <2>7. CASE ~OutOfStrikes(host.strikes + 1)
    <3>1. host'.strikes # MaxStrikes
      BY <2>3, <2>5, <2>7, ThrottleAssumption DEF OutOfStrikes
    <3>2. (IF asked = NoAsk THEN Backoff["limited"][call.attempt]
           ELSE Least(asked, AskCap)) \in Nat
      BY <2>2, BackoffType DEF Reasons
    <3>3. QED
      BY <1>1, <2>1, <2>5, <2>7, <3>1, <3>2, RetryKeeps
  <2>8. QED
    BY <2>6, <2>7
<1>6. CASE ServerError \/ Throws
  <2>1. PICK reason \in Reasons : Retry(Backoff[reason][call.attempt]) /\ host' = host
    BY <1>6 DEF ServerError, Throws, Reasons
  <2>2. host \in Hosts
    BY DEF TypeOK
  <2>3. QED
    BY <1>1, <1>2, <2>1, <2>2, BackoffType, RetryKeeps
<1>7. QED
  BY <1>3, <1>4, <1>5, <1>6

\* And everything outside the handling of one call.
LEMMA OtherSteps ==
    ASSUME ThrottleInv,
           (\E c \in Callers : Request(c)) \/ BeginCycle \/ Tick \/ UNCHANGED vars
    PROVE  ThrottleInv'
<1> USE DEF ThrottleInv
<1>1. ASSUME NEW c \in Callers, Request(c)
      PROVE  ThrottleInv'
  <2>1. chain' \in Seq(Callers) /\ chain' # <<>>
    BY <1>1 DEF Request, TypeOK
  <2>2. chain # <<>> => Head(chain') = Head(chain)
    BY <1>1 DEF Request, TypeOK
  <2>3. UNCHANGED <<call, host, robots, sinceHit>>
    BY <1>1 DEF Request
  <2>4. RulesKnown'
    BY <2>2, <2>3 DEF RulesKnown, RulesFor, TypeOK
  <2>5. QED
    BY <2>1, <2>3, <2>4 DEF TypeOK, Waiting, NothingPending
<1>2. CASE BeginCycle
  <2>1. call.stage = "free"
    BY <1>2 DEF BeginCycle, TypeOK
  <2>2. host' \in Hosts /\ host'.strikes = 0
    <3>1. host \in Hosts /\ 0 \in 0..MaxStrikes
      BY Numbers DEF TypeOK
    <3>2. QED
      BY <1>2, <3>1 DEF BeginCycle, Hosts
  <2>3. QED
    BY <1>2, <2>1, <2>2, Numbers
    DEF BeginCycle, TypeOK, Waiting, NothingPending, RulesKnown
<1>3. CASE Tick
  <2>1. /\ call \in Calls /\ call.timer \in Nat /\ host \in Hosts
        /\ host.pausedFor \in 0..PauseCap /\ sinceHit \in 0..HitCap
    BY DEF TypeOK, Calls, Hosts
  <2>2. /\ call' \in Calls /\ call'.stage = call.stage
        /\ call'.timer = Greatest(0, call.timer - 1) /\ call'.timer \in Nat
    BY <1>3, <2>1 DEF Tick, Calls, Greatest
  <2>3. /\ Greatest(0, host.pausedFor - 1) \in 0..PauseCap
        /\ Least(sinceHit + 1, HitCap) \in 0..HitCap
    BY <2>1, Numbers DEF Greatest, Least
  <2>4. /\ host' \in Hosts
        /\ host'.pausedFor = Greatest(0, host.pausedFor - 1)
        /\ host'.droppedForCycle = host.droppedForCycle
        /\ host'.strikes = host.strikes
    BY <1>3, <2>1, <2>3 DEF Tick, Hosts
  <2>5. sinceHit' = Least(sinceHit + 1, HitCap)
    BY <1>3 DEF Tick
  <2>6. TypeOK'
    BY <1>3, <2>2, <2>3, <2>4, <2>5 DEF Tick, TypeOK
  <2>7. sinceHit + call.timer >= Gap => sinceHit' + call'.timer >= Gap
    BY <2>1, <2>2, <2>5, Numbers, ThrottleAssumption DEF Least, Greatest
  <2>8. host.pausedFor <= call.timer => host'.pausedFor <= call'.timer
    BY <2>1, <2>2, <2>4, Numbers DEF Greatest
  <2>9. host.pausedFor = 0 => host'.pausedFor = 0
    BY <2>1, <2>4 DEF Greatest
  <2>10. Waiting'
    BY <2>2, <2>7, <2>8, <2>9 DEF Waiting
  <2>11. NothingPending' /\ RulesKnown'
    BY <1>3, <2>2, <2>4 DEF Tick, NothingPending, RulesKnown, RulesFor
  <2>12. QED
    BY <2>6, <2>10, <2>11
<1>4. CASE UNCHANGED vars
  BY <1>4 DEF vars, TypeOK, Waiting, NothingPending, RulesKnown, RulesFor
<1>5. QED
  BY <1>1, <1>2, <1>3, <1>4

\* The invariant is inductive.
LEMMA ThrottleInductive == ThrottleInv /\ [Next]_vars => ThrottleInv'
BY FirstAttemptSteps, AnswerSteps, OtherSteps DEF Next, Step

\* It holds of a client that has sent nothing yet.
LEMMA ThrottleInitial == Init => ThrottleInv
<1> SUFFICES ASSUME Init PROVE ThrottleInv
  OBVIOUS
<1>1. TypeOK
  BY Numbers, ThrottleAssumption
  DEF Init, TypeOK, Free, Calls, Stages, Hosts, Rules
<1>2. QED
  BY <1>1, ThrottleAssumption
  DEF Init, Free, ThrottleInv, Waiting, NothingPending, RulesKnown

\* It holds in every state the client can reach.
LEMMA ThrottleInvariant == Spec => []ThrottleInv
BY ThrottleInitial, ThrottleInductive, PTL DEF Spec
-----------------------------------------------------------------------------
\* What comes before a first attempt sends nothing.
LEMMA PreparationSendsNothing ==
    ASSUME TypeOK, Begin \/ RobotsAnswered \/ AfterPause
    PROVE  ~Sending
<1>1. ASSUME NEW stage \in {"robots gap", "pause", "gap"}, NEW time, Sleep(stage, time)
      PROVE  ~Sending
  BY <1>1 DEF Sleep, Sending, TypeOK, Calls
<1>2. ASSUME Settle
      PROVE  ~Sending
  BY <1>2 DEF Settle, Free, Sending
<1>3. ASSUME NEW rules, Admit(rules)
      PROVE  ~Sending
  BY <1>1, <1>2, <1>3 DEF Admit
<1>4. ASSUME NEW rules, Check(rules)
      PROVE  ~Sending
  BY <1>1, <1>2, <1>3, <1>4 DEF Check
<1>5. QED
  BY <1>1, <1>3, <1>4 DEF Begin, RobotsAnswered, AfterPause

\* Neither does what comes after an attempt, nor what is outside a call.
LEMMA OthersSendNothing ==
    ASSUME TypeOK,
           \/ Answered \/ Challenged \/ RateLimited \/ ServerError \/ Throws
           \/ (\E c \in Callers : Request(c)) \/ BeginCycle \/ Tick \/ UNCHANGED vars
    PROVE  ~Sending
<1>1. ASSUME Settle
      PROVE  ~Sending
  BY <1>1 DEF Settle, Free, Sending
<1>2. ASSUME NEW time, Retry(time)
      PROVE  ~Sending
  BY <1>1, <1>2 DEF Retry, Sending
<1>3. CASE Answered \/ Challenged
  BY <1>1, <1>3 DEF Answered, Challenged, AfterChallenge
<1>4. CASE RateLimited
  BY <1>1, <1>2, <1>4 DEF RateLimited
<1>5. CASE ServerError \/ Throws
  BY <1>2, <1>5 DEF ServerError, Throws
<1>6. CASE (\E c \in Callers : Request(c)) \/ BeginCycle \/ UNCHANGED vars
  BY <1>6 DEF Request, BeginCycle, vars, Sending
<1>7. CASE Tick
  BY <1>7 DEF Tick, Sending, TypeOK, Calls
<1>8. QED
  BY <1>3, <1>4, <1>5, <1>6, <1>7

\* Every variable of the client keeps its type: in particular the strikes of a
\* cycle never pass their limit.
THEOREM ThrottleTypes == Spec => []TypeOK
<1>1. ThrottleInv => TypeOK
  BY DEF ThrottleInv
<1>2. QED
  BY <1>1, ThrottleInvariant, PTL

\* A dropped vendor is not asked for a page again in its cycle.
THEOREM DroppedIsLeftAlone == Spec => DroppedSendsNoPage
<1>1. ThrottleInv /\ [Next]_vars =>
        [(Sending /\ call'.stage = "flight") => ~host.droppedForCycle]_vars
  <2> SUFFICES ASSUME ThrottleInv, [Next]_vars, Sending, call'.stage = "flight"
               PROVE  ~host.droppedForCycle
    OBVIOUS
  <2>1. call.stage # "flight"
    BY DEF Sending
  <2>2. ~Begin /\ ~RobotsAnswered /\ ~AfterPause
    BY PreparationSendsNothing DEF ThrottleInv
  <2>3. Send
    BY <2>1, <2>2
    DEF Next, Step, Request, SendRobots, Answered, Challenged, RateLimited, ServerError,
        Throws, BeginCycle, Tick, vars, InStage, Sleep, ThrottleInv, TypeOK, Calls
  <2>4. QED
    BY <2>3 DEF Send, Awake, InStage, ThrottleInv, NothingPending
<1>2. QED
  BY <1>1, ThrottleInvariant, PTL DEF Spec, DroppedSendsNoPage

\* A robots.txt and a first attempt keep the gap, and a first attempt the pause.
THEOREM PoliteFirstAttempts == Spec => FirstAttemptsWait
<1> DEFINE Waits ==
      /\ (Sending /\ call.stage # "retry") => sinceHit >= Gap
      /\ (Sending /\ call.stage = "gap") => host.pausedFor = 0
<1>1. ThrottleInv /\ [Next]_vars => [Waits]_vars
  <2> SUFFICES ASSUME ThrottleInv, [Next]_vars, Sending, call.stage # "retry"
               PROVE  sinceHit >= Gap /\ (call.stage = "gap" => host.pausedFor = 0)
    OBVIOUS
  <2>1. ~Begin /\ ~RobotsAnswered /\ ~AfterPause
    BY PreparationSendsNothing DEF ThrottleInv
  <2>2. SendRobots \/ Send
    BY <2>1, OthersSendNothing DEF ThrottleInv, Next, Step
  <2>3. call.stage \in {"robots gap", "gap"} /\ call.timer = 0
    BY <2>2 DEF SendRobots, Send, Awake, InStage
  <2>4. sinceHit \in Int /\ call.timer \in Int /\ Gap \in Int
    BY Numbers DEF ThrottleInv, TypeOK, Calls
  <2>5. sinceHit + call.timer >= Gap
    BY <2>3 DEF ThrottleInv, Waiting
  <2>6. \A m, n, k \in Int : (m + n >= k /\ n = 0) => m >= k
    OBVIOUS
  <2>7. sinceHit >= Gap
    BY <2>3, <2>4, <2>5, <2>6
  <2>8. QED
    BY <2>3, <2>7 DEF ThrottleInv, Waiting
<1>2. QED
  BY <1>1, ThrottleInvariant, PTL DEF Spec, FirstAttemptsWait
-----------------------------------------------------------------------------
\* The hosts whose robots.txt was answered.
ReadOrigins == {o \in Origins : robots[o] # Unread}

\* What a robots.txt under way adds to them.
UnderWay == IF call.stage = "robots" THEN 1 ELSE 0

\* A cycle has sent what the budget allows, the retries of one call and a robots.txt
\* for each host; and less while a call may still send.
Spent ==
    /\ host.requests <= Budget + MaxRetries + Cardinality(ReadOrigins) + UnderWay
    /\ call.stage = "gap" => host.requests < Budget
    /\ call.stage = "retry" => host.requests < Budget + call.attempt
    /\ call.stage = "flight" => host.requests <= Budget + call.attempt

\* A robots.txt is asked for once.
Unasked ==
    call.stage \in {"robots gap", "robots"} => robots[Origin[Head(chain)]] = Unread

SpentInv == ThrottleInv /\ Spent /\ Unasked

\* There are no more answered hosts than hosts.
LEMMA OriginsCounted ==
    ASSUME NEW S \in SUBSET Origins
    PROVE  /\ IsFiniteSet(S) /\ Cardinality(S) \in Nat /\ Cardinality(Origins) \in Nat
           /\ Cardinality(S) <= Cardinality(Origins)
BY OriginsAssumption, FS_Subset, FS_CardinalityType

\* The numbers of Spent are numbers.
LEMMA SpentNumbers ==
    ASSUME TypeOK
    PROVE  /\ host.requests \in Nat /\ call.attempt \in 0 .. MaxRetries
           /\ Cardinality(ReadOrigins) \in Nat /\ UnderWay \in Nat
           /\ Budget \in Nat /\ MaxRetries \in Nat
<1>1. ReadOrigins \in SUBSET Origins
  BY DEF ReadOrigins
<1>2. QED
  BY <1>1, OriginsCounted, Numbers DEF TypeOK, Hosts, Calls, UnderWay

\* A settled call leaves what was spent.
LEMMA SettleSpends ==
    ASSUME SpentInv, Settle, host'.requests = host.requests, UNCHANGED robots,
           call.stage # "robots"
    PROVE  Spent' /\ Unasked'
<1>1. call'.stage = "free"
  BY DEF Settle, Free
<1>2. ReadOrigins' = ReadOrigins /\ UnderWay' = 0 /\ UnderWay = 0
  BY <1>1 DEF ReadOrigins, UnderWay
<1>3. QED
  BY <1>1, <1>2 DEF SpentInv, Spent, Unasked

\* So does a check, whatever it leads to: it admits below the budget only.
LEMMA CheckSpends ==
    ASSUME SpentInv, NEW rules, Check(rules) \/ Admit(rules),
           host.requests <= Budget + MaxRetries + Cardinality(ReadOrigins')
    PROVE  Spent' /\ Unasked'
<1>1. TypeOK
  BY DEF SpentInv, ThrottleInv
<1>2. \/ Settle /\ host'.requests = host.requests
      \/ /\ \E time : Sleep("gap", time)
         /\ host' = host /\ host.requests < Budget
      \/ (\E time : Sleep("pause", time)) /\ host' = host
  BY <1>1, SpentNumbers DEF Check, Admit, OverBudget, TypeOK, Hosts
<1>3. /\ call'.stage \in {"free", "gap", "pause"}
      /\ host'.requests = host.requests
      /\ call'.stage = "gap" => host.requests < Budget
  <2>1. ASSUME NEW stage, NEW time, Sleep(stage, time)
        PROVE  call'.stage = stage
    BY <1>1, <2>1 DEF Sleep, TypeOK, Calls
  <2>2. Settle => call'.stage = "free"
    BY DEF Settle, Free
  <2>3. QED
    BY <1>2, <2>1, <2>2
<1>4. UnderWay' = 0
  BY <1>3 DEF UnderWay
<1>5. Budget + MaxRetries + Cardinality(ReadOrigins')
        = Budget + MaxRetries + Cardinality(ReadOrigins') + 0
  <2>1. ReadOrigins' \in SUBSET Origins
    BY DEF ReadOrigins
  <2>2. QED
    BY <2>1, OriginsCounted, Numbers
<1>6. QED
  BY <1>3, <1>4, <1>5 DEF Spent, Unasked

\* A retry is one more attempt, or the end of the call.
LEMMA RetrySpends ==
    ASSUME SpentInv, call.stage = "flight", NEW time, Retry(time),
           host'.requests = host.requests, UNCHANGED robots
    PROVE  Spent' /\ Unasked'
<1>1. CASE call.attempt = MaxRetries
  BY <1>1, SettleSpends DEF Retry
<1>2. CASE call.attempt # MaxRetries
  <2>1. call'.stage = "retry" /\ call'.attempt = call.attempt + 1
    BY <1>2 DEF Retry
  <2>2. ReadOrigins' = ReadOrigins /\ UnderWay' = 0 /\ UnderWay = 0
    BY <2>1 DEF ReadOrigins, UnderWay
  <2>3. host.requests < Budget + (call.attempt + 1)
    BY SpentNumbers DEF SpentInv, ThrottleInv, Spent
  <2>4. QED
    BY <2>1, <2>2, <2>3 DEF SpentInv, Spent, Unasked
<1>3. QED
  BY <1>1, <1>2

\* A request is one of those that Spent leaves room for.
LEMMA SendSpends ==
    ASSUME SpentInv, SendRobots \/ Send
    PROVE  Spent' /\ Unasked'
<1>1. TypeOK
  BY DEF SpentInv, ThrottleInv
<1>2. host'.requests = host.requests + 1 /\ UNCHANGED <<chain, robots>>
  BY <1>1 DEF SendRobots, Send, Hit, TypeOK, Hosts
<1>3. ReadOrigins' = ReadOrigins
  BY <1>2 DEF ReadOrigins
<1>4. CASE SendRobots
  <2>1. call.stage = "robots gap" /\ call'.stage = "robots"
    BY <1>1, <1>4 DEF SendRobots, Awake, InStage, Sleep, TypeOK, Calls
  <2>2. UnderWay = 0 /\ UnderWay' = 1
    BY <2>1 DEF UnderWay
  <2>3. host.requests <= Budget + MaxRetries + Cardinality(ReadOrigins) + 0
    BY <2>2 DEF SpentInv, Spent
  <2>4. host.requests + 1 <= Budget + MaxRetries + Cardinality(ReadOrigins) + 1
    BY <1>1, <2>3, SpentNumbers
  <2>5. Unasked'
    BY <1>2, <2>1 DEF SpentInv, Unasked
  <2>6. QED
    BY <1>2, <1>3, <2>1, <2>2, <2>4, <2>5 DEF Spent
<1>5. CASE Send
  <2>1. /\ call.stage \in {"gap", "retry"} /\ call'.stage = "flight"
        /\ call'.attempt = call.attempt
    BY <1>1, <1>5 DEF Send, Awake, InStage, Sleep, TypeOK, Calls
  <2>2. UnderWay = 0 /\ UnderWay' = 0
    BY <2>1 DEF UnderWay
  <2>3. host'.requests <= Budget + call'.attempt
    BY <1>1, <1>2, <2>1, SpentNumbers DEF SpentInv, Spent
  <2>4. Budget + call'.attempt <= Budget + MaxRetries + Cardinality(ReadOrigins') + UnderWay'
    BY <1>1, <1>3, <2>1, <2>2, SpentNumbers
  <2>5. host'.requests \in Nat
    BY <1>1, <1>2, SpentNumbers
  <2>6. QED
    BY <1>1, <1>3, <2>1, <2>2, <2>3, <2>4, <2>5, SpentNumbers DEF Spent, Unasked
<1>6. QED
  BY <1>4, <1>5

\* An answered robots.txt was not among those read before.
LEMMA RobotsSpends ==
    ASSUME SpentInv, RobotsAnswered
    PROVE  Spent' /\ Unasked'
<1> DEFINE o == Origin[Head(chain)]
<1>1. TypeOK /\ call.stage = "robots" /\ chain # <<>>
  BY DEF SpentInv, ThrottleInv, RobotsAnswered, InStage, TypeOK
<1>2. o \in Origins
  BY <1>1, FirstCaller, ThrottleAssumption
<1>3. PICK rules \in Rules : robots' = [robots EXCEPT ![o] = rules] /\ Check(rules)
  BY DEF RobotsAnswered
<1>4. ReadOrigins' = ReadOrigins \cup {o} /\ o \notin ReadOrigins
  BY <1>1, <1>2, <1>3, UnreadAssumption DEF SpentInv, Unasked, ReadOrigins, TypeOK
<1>5. ReadOrigins \in SUBSET Origins
  BY DEF ReadOrigins
<1>6. IsFiniteSet(ReadOrigins)
  BY <1>5, OriginsCounted
<1>7. Cardinality(ReadOrigins') = Cardinality(ReadOrigins) + 1
  BY <1>4, <1>6, FS_AddElement
<1>8. UnderWay = 1
  BY <1>1 DEF UnderWay
<1>9. host.requests <= Budget + MaxRetries + Cardinality(ReadOrigins')
  BY <1>1, <1>7, <1>8, SpentNumbers DEF SpentInv, Spent
<1>10. QED
  BY <1>3, <1>9, CheckSpends

\* What is spent stays within its bounds.
LEMMA SpentInductive == SpentInv /\ [Next]_vars => SpentInv'
<1> SUFFICES ASSUME SpentInv, [Next]_vars PROVE Spent' /\ Unasked'
  BY ThrottleInductive DEF SpentInv
<1>0. TypeOK
  BY DEF SpentInv, ThrottleInv
<1>1. ASSUME NEW c \in Callers, Request(c)
      PROVE  Spent' /\ Unasked'
  <2>1. UNCHANGED <<call, host, robots>>
    BY <1>1 DEF Request
  <2>2. call.stage # "free" => Head(chain') = Head(chain)
    BY <1>0, <1>1 DEF Request, TypeOK
  <2>3. QED
    BY <2>1, <2>2 DEF SpentInv, Spent, Unasked, ReadOrigins, UnderWay
<1>2. CASE Begin
  <2> DEFINE rules == RulesFor(Head(chain))
  <2>1. call.stage = "free" /\ chain # <<>> /\ UNCHANGED robots /\ Head(chain) \in Callers
    BY <1>0, <1>2, FirstCaller DEF Begin, InStage
  <2>2. ReadOrigins' = ReadOrigins /\ UnderWay = 0
    BY <2>1 DEF ReadOrigins, UnderWay
  <2>3. CASE rules = Unread /\ Sleep("robots gap", RobotsRest) /\ Keep /\ UNCHANGED host
    <3>1. call'.stage = "robots gap" /\ UnderWay' = 0
      BY <1>0, <2>3 DEF Sleep, TypeOK, Calls, UnderWay
    <3>2. NoRules \in Rules
      BY DEF NoRules, Rules
    <3>3. robots[Origin[Head(chain)]] = Unread
      BY <2>3, <3>2, UnreadAssumption DEF RulesFor
    <3>4. QED
      BY <2>1, <2>2, <2>3, <3>1, <3>3 DEF SpentInv, Spent, Unasked, Keep
  <2>4. CASE Check(rules)
    <3>1. host.requests <= Budget + MaxRetries + Cardinality(ReadOrigins')
      BY <1>0, <2>2, SpentNumbers DEF SpentInv, Spent
    <3> HIDE DEF rules
    <3>2. QED
      BY <2>4, <3>1, CheckSpends
  <2>5. QED
    BY <1>2, <2>3, <2>4 DEF Begin
<1>3. CASE SendRobots \/ Send
  BY <1>3, SendSpends
<1>4. CASE RobotsAnswered
  BY <1>4, RobotsSpends
<1>5. CASE AfterPause
  <2>1. call.stage = "pause" /\ UNCHANGED robots
    BY <1>5 DEF AfterPause, Awake, InStage
  <2>2. host.requests <= Budget + MaxRetries + Cardinality(ReadOrigins')
    BY <1>0, <2>1, SpentNumbers DEF SpentInv, Spent, ReadOrigins, UnderWay
  <2> DEFINE rules == RulesFor(Head(chain))
  <2>3. Admit(rules)
    BY <1>5 DEF AfterPause
  <2> HIDE DEF rules
  <2>4. QED
    BY <2>2, <2>3, CheckSpends
<1>6. CASE Answered \/ Challenged
  <2>1. /\ call.stage = "flight" /\ UNCHANGED robots /\ Settle
        /\ host'.requests = host.requests
    BY <1>0, <1>6 DEF Answered, Challenged, AfterChallenge, InStage, TypeOK, Hosts
  <2>2. QED
    BY <2>1, SettleSpends
<1>7. CASE RateLimited
  <2>1. call.stage = "flight" /\ UNCHANGED robots /\ host'.requests = host.requests
    BY <1>0, <1>7 DEF RateLimited, InStage, TypeOK, Hosts
  <2>2. Settle \/ \E time : Retry(time)
    BY <1>7 DEF RateLimited
  <2>3. QED
    BY <2>1, <2>2, SettleSpends, RetrySpends
<1>8. CASE ServerError \/ Throws
  <2>1. call.stage = "flight" /\ UNCHANGED <<robots, host>> /\ \E time : Retry(time)
    BY <1>8 DEF ServerError, Throws, InStage
  <2>2. QED
    BY <2>1, RetrySpends
<1>9. CASE BeginCycle
  <2>1. call.stage = "free" /\ UNCHANGED <<call, robots>> /\ host'.requests = 0
    BY <1>0, <1>9 DEF BeginCycle, TypeOK, Hosts
  <2>2. ReadOrigins' = ReadOrigins /\ UnderWay' = 0
    BY <2>1 DEF ReadOrigins, UnderWay
  <2>3. 0 <= Budget + MaxRetries + Cardinality(ReadOrigins) + 0
    BY <1>0, SpentNumbers
  <2>4. QED
    BY <2>1, <2>2, <2>3 DEF Spent, Unasked
<1>10. CASE Tick
  <2>1. /\ call'.stage = call.stage /\ call'.attempt = call.attempt
        /\ host'.requests = host.requests /\ UNCHANGED <<chain, robots>>
    BY <1>0, <1>10 DEF Tick, TypeOK, Calls, Hosts
  <2>2. QED
    BY <2>1 DEF SpentInv, Spent, Unasked, ReadOrigins, UnderWay
<1>11. CASE UNCHANGED vars
  BY <1>11 DEF vars, SpentInv, Spent, Unasked, ReadOrigins, UnderWay
<1>12. QED
  BY <1>1, <1>2, <1>3, <1>4, <1>5, <1>6, <1>7, <1>8, <1>9, <1>10, <1>11 DEF Next, Step

\* A cycle exceeds the budget by the retries of one call and the robots.txt of the
\* hosts at most.
THEOREM BudgetOvershoot == Spec => []OvershootBounded
<1>1. Init => SpentInv
  <2> SUFFICES ASSUME Init PROVE SpentInv
    OBVIOUS
  <2>1. ThrottleInv /\ TypeOK
    BY ThrottleInitial DEF ThrottleInv
  <2>2. host.requests = 0 /\ call.stage = "free"
    BY DEF Init, Free
  <2>3. QED
    BY <2>1, <2>2, SpentNumbers DEF SpentInv, Spent, Unasked
<1>2. SpentInv => OvershootBounded
  <2> SUFFICES ASSUME SpentInv PROVE OvershootBounded
    OBVIOUS
  <2>1. TypeOK /\ ReadOrigins \in SUBSET Origins
    BY DEF SpentInv, ThrottleInv, ReadOrigins
  <2>2. Cardinality(ReadOrigins) + UnderWay <= Cardinality(Origins)
    <3>1. CASE call.stage = "robots"
      <4> DEFINE o == Origin[Head(chain)]
      <4>1. o \in Origins /\ o \notin ReadOrigins
        BY <2>1, <3>1, FirstCaller, ThrottleAssumption
        DEF SpentInv, Unasked, ReadOrigins, TypeOK
      <4>2. ReadOrigins \cup {o} \in SUBSET Origins
        BY <2>1, <4>1
      <4> HIDE DEF o
      <4>3. Cardinality(ReadOrigins \cup {o}) = Cardinality(ReadOrigins) + 1
        BY <2>1, <4>1, OriginsCounted, FS_AddElement
      <4>4. Cardinality(ReadOrigins \cup {o}) <= Cardinality(Origins)
        BY <4>2, OriginsCounted
      <4>5. QED
        BY <3>1, <4>3, <4>4 DEF UnderWay
    <3>2. CASE call.stage # "robots"
      BY <2>1, <3>2, OriginsCounted DEF UnderWay
    <3>3. QED
      BY <3>1, <3>2
  <2>3. Cardinality(Origins) \in Nat
    BY <2>1, OriginsCounted
  <2>4. QED
    BY <2>1, <2>2, <2>3, SpentNumbers DEF SpentInv, Spent, OvershootBounded
<1>3. QED
  BY <1>1, <1>2, SpentInductive, PTL DEF Spec
=============================================================================
