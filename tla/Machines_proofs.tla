--------------------------- MODULE Machines_proofs ----------------------------
(***************************************************************************)
(* What holds of the digests for any number of offers, of requests that    *)
(* notify at once and of attempts, and any bounds; of the seeding of       *)
(* boards for any platforms, words and number of runs; and of the          *)
(* migrations for any tables.                                              *)
(***************************************************************************)
EXTENDS MCMachines, Integers, Sequences, FiniteSetTheorems, NaturalsInduction,
        WellFoundedInduction, TLAPS

\* The steps of the program and of what is around it: MCSpec without its fairness.
LEMMA SpecSafety == MCSpec => MCInit /\ [][MCNext]_mcVars
BY PTL DEF MCSpec
-----------------------------------------------------------------------------
(***************************************************************************)
(* The helpers.                                                            *)
(***************************************************************************)
\* A request that has a copy of the row is one of two records.
LEMMA RequestParts ==
    ASSUME NEW r \in Alerts!Requests
    PROVE  /\ r.at \in {"idle", "find", "queue", "stamp"}
           /\ r.at = "idle" <=> r = Alerts!Idle
           /\ r # Alerts!Idle => /\ r.row \in Alerts!Rows /\ r.found \in SUBSET (1 .. MaxOffers)
                          /\ r.seen \in 0 .. MaxOffers
           /\ r.at \in {"queue", "stamp"} => r.over \in SUBSET (1 .. MaxOffers)
<1>1. CASE r = Alerts!Idle
  BY <1>1 DEF Alerts!Idle
<1>2. CASE r \in [at : {"find"}, row : Alerts!Rows, found : {{}}, seen : {0}]
  <2>1. r.at = "find" /\ Alerts!Idle.at = "idle"
    BY <1>2 DEF Alerts!Idle
  <2>2. r # Alerts!Idle
    BY <2>1
  <2>3. 0 \in 0 .. MaxOffers
    BY BoundsAssumption
  <2>4. QED
    BY <1>2, <2>1, <2>2, <2>3
<1>3. CASE r \in [at : {"queue", "stamp"}, row : Alerts!Rows, found : SUBSET (1 .. MaxOffers),
                  seen : 0 .. MaxOffers, over : SUBSET (1 .. MaxOffers)]
  <2>1. r.at \in {"queue", "stamp"} /\ Alerts!Idle.at = "idle"
    BY <1>3 DEF Alerts!Idle
  <2>2. r # Alerts!Idle
    BY <2>1
  <2>3. QED
    BY <1>3, <2>1, <2>2
<1>4. QED
  BY <1>1, <1>2, <1>3 DEF Alerts!Requests

\* The first window begins within the offers inserted so far.
LEMMA SinceType ==
    ASSUME clock \in Nat, NEW copy \in Alerts!Rows
    PROVE  /\ Alerts!Since(copy) \in Int
           /\ copy.stamp # Alerts!Never => Alerts!Since(copy) = copy.stamp
           /\ copy.stamp = Alerts!Never => Alerts!Since(copy) \in 0 .. clock
<1>1. CASE copy.stamp # Alerts!Never
  BY <1>1 DEF Alerts!Since, Alerts!Rows, Alerts!Never
<1>2. CASE copy.stamp = Alerts!Never
  <2> DEFINE S == {0, clock - WINDOW}
  <2>1. \E x \in S : \A y \in S : x >= y
    BY BoundsAssumption
  <2>2. Alerts!Max(S) \in S
    BY <2>1 DEF Alerts!Max
  <2>3. \A y \in S : Alerts!Max(S) >= y
    BY <2>1 DEF Alerts!Max
  <2>4. Alerts!Max(S) \in 0 .. clock
    <3> HIDE DEF S
    <3>1. Alerts!Max(S) \in {0, clock - WINDOW} /\ Alerts!Max(S) >= 0
      BY <2>2, <2>3 DEF S
    <3>2. QED
      BY <3>1, BoundsAssumption
  <2>5. QED
    BY <1>2, <2>4 DEF Alerts!Since
<1>3. QED
  BY <1>1, <1>2

\* What is found are candidates, and a candidate is an offer of the window.
LEMMA FoundAreCandidates ==
    ASSUME NEW copy
    PROVE  /\ Alerts!FindMatches(copy) \subseteq Alerts!Candidates(copy)
           /\ Alerts!Candidates(copy) \subseteq Alerts!Offers
BY DEF Alerts!FindMatches, Alerts!Best, Alerts!Candidates
-----------------------------------------------------------------------------
(***************************************************************************)
(* Type correctness.                                                       *)
(***************************************************************************)
\* The writers of the row and of the offers keep every type.
LEMMA WriterTypes ==
    ASSUME Alerts!TypeOK,
           Alerts!Insert \/ Alerts!Close \/ Alerts!Reopen \/ Alerts!Touch \/ Alerts!OpenSave \/
                  Alerts!SaveForm
    PROVE  Alerts!TypeOK'
<1> USE BoundsAssumption
<1>1. CASE Alerts!Insert
  BY <1>1 DEF Alerts!Insert, Alerts!TypeOK, Alerts!Offers
<1>2. CASE Alerts!Close
  BY <1>2 DEF Alerts!Close, Alerts!TypeOK, Alerts!Offers
<1>3. CASE Alerts!Reopen
  BY <1>3 DEF Alerts!Reopen, Alerts!TypeOK, Alerts!Offers
<1>4. CASE Alerts!Touch
  BY <1>4 DEF Alerts!Touch, Alerts!TypeOK, Alerts!Offers
<1>5. CASE Alerts!OpenSave
  <2>1. PICK notify \in BOOLEAN :
            form' = [at |-> "form", row |-> [row EXCEPT !.notify = notify]]
    BY <1>5 DEF Alerts!OpenSave
  <2>2. [row EXCEPT !.notify = notify] \in Alerts!Rows
    BY DEF Alerts!TypeOK, Alerts!Rows
  <2>3. form' \in [at : {"form"}, row : Alerts!Rows]
    BY <2>1, <2>2
  <2>4. overlapped' \in BOOLEAN
    BY <1>5 DEF Alerts!OpenSave, Alerts!TypeOK, Alerts!Busy
  <2>5. QED
    BY <1>5, <2>3, <2>4 DEF Alerts!OpenSave, Alerts!TypeOK, Alerts!Offers
<1>6. CASE Alerts!SaveForm
  <2>1. row' \in Alerts!Rows /\ form' = Alerts!Idle
    BY <1>6 DEF Alerts!SaveForm, Alerts!TypeOK
  <2>2. QED
    BY <1>6, <2>1 DEF Alerts!SaveForm, Alerts!TypeOK, Alerts!Offers
<1>7. QED
  BY <1>1, <1>2, <1>3, <1>4, <1>5, <1>6

\* A request keeps every type.
LEMMA NotifyTypes ==
    ASSUME Alerts!TypeOK, NEW n \in Notifiers, Alerts!Notify(n)
    PROVE  Alerts!TypeOK'
<1> USE BoundsAssumption
<1> DEFINE r == notifier[n]
<1>1. r \in Alerts!Requests /\ Alerts!Idle \in Alerts!Requests
  BY DEF Alerts!TypeOK, Alerts!Requests
<1>2. ASSUME NEW u \in Alerts!Requests, notifier' = [notifier EXCEPT ![n] = u]
      PROVE  notifier' \in [Notifiers -> Alerts!Requests]
  BY <1>2 DEF Alerts!TypeOK
<1>3. CASE Alerts!Load(n)
  <2>1. [at |-> "find", row |-> row, found |-> {}, seen |-> 0] \in Alerts!Requests
    BY DEF Alerts!TypeOK, Alerts!Requests
  <2>2. notifier' \in [Notifiers -> Alerts!Requests]
    BY <1>2, <1>3, <2>1 DEF Alerts!Load
  <2>3. overlapped' \in BOOLEAN
    BY <1>3 DEF Alerts!Load, Alerts!TypeOK, Alerts!Busy
  <2>4. QED
    BY <1>3, <2>2, <2>3 DEF Alerts!Load, Alerts!TypeOK, Alerts!Offers
<1>4. CASE Alerts!Find(n)
  <2> DEFINE found == Alerts!FindMatches(r.row)
             over == hidden \union (Alerts!Candidates(r.row) \ found)
                     \union (IF r.row.stamp = Alerts!Never THEN 1 .. Alerts!Since(r.row) ELSE {})
             u == IF found = {} THEN Alerts!Idle
                  ELSE [at |-> "queue", row |-> r.row, found |-> found, seen |-> clock,
                        over |-> over]
  <2>1. notifier' = [notifier EXCEPT ![n] = u]
    BY <1>4 DEF Alerts!Find
  <2>2. r.row \in Alerts!Rows
    BY <1>1, <1>4, RequestParts DEF Alerts!Find, Alerts!Idle
  <2>3. found \subseteq Alerts!Candidates(r.row) /\ Alerts!Candidates(r.row) \subseteq Alerts!Offers
    BY FoundAreCandidates
  <2>4. r.row.stamp = Alerts!Never => 1 .. Alerts!Since(r.row) \subseteq Alerts!Offers
    BY <2>2, SinceType DEF Alerts!TypeOK, Alerts!Offers
  <2>5. Alerts!Offers \subseteq 1 .. MaxOffers /\ hidden \subseteq Alerts!Offers /\ clock \in 0
         .. MaxOffers
    BY DEF Alerts!TypeOK, Alerts!Offers
  <2>6. found \in SUBSET (1 .. MaxOffers) /\ over \in SUBSET (1 .. MaxOffers)
    <3> HIDE DEF found
    <3>1. QED
      BY <2>3, <2>4, <2>5
  <2> HIDE DEF found, over
  <2>7. u \in Alerts!Requests
    BY <1>1, <2>2, <2>5, <2>6 DEF Alerts!Requests
  <2>8. notifier' \in [Notifiers -> Alerts!Requests]
    BY <1>2, <2>1, <2>7
  <2>9. QED
    BY <1>4, <2>8 DEF Alerts!Find, Alerts!TypeOK, Alerts!Offers
<1>5. CASE Alerts!Enqueue(n)
  <2>1. r.at = "queue" /\ r.found \in SUBSET (1 .. MaxOffers)
    BY <1>1, <1>5, RequestParts DEF Alerts!Enqueue
  <2>2. [r EXCEPT !.at = "stamp"] \in Alerts!Requests
    BY <1>1, <2>1 DEF Alerts!Requests, Alerts!Idle
  <2>3. notifier' \in [Notifiers -> Alerts!Requests]
    BY <1>2, <1>5, <2>2 DEF Alerts!Enqueue
  <2>4. [offers |-> r.found, state |-> "waiting", tries |-> 0, stalls |-> 0] \in Alerts!Digests
    BY <2>1 DEF Alerts!Digests
  <2>5. digests' \in Seq(Alerts!Digests)
    BY <1>5, <2>4 DEF Alerts!Enqueue, Alerts!TypeOK
  <2>6. QED
    BY <1>5, <2>3, <2>5 DEF Alerts!Enqueue, Alerts!TypeOK, Alerts!Offers
<1>6. CASE Alerts!Stamp(n)
  <2>1. /\ r.at = "stamp" /\ r.row \in Alerts!Rows /\ r.over \in SUBSET (1 .. MaxOffers)
        /\ r.seen \in 0 .. MaxOffers
    BY <1>1, <1>6, RequestParts DEF Alerts!Stamp, Alerts!Idle
  <2>2. row' \in Alerts!Rows
    BY <1>6, <2>1 DEF Alerts!Stamp, Alerts!Rows, Alerts!TypeOK, Alerts!Never
  <2>3. excused' \subseteq 1 .. MaxOffers
    <3>1. excused' = excused \union r.over \union (r.seen + 1) .. clock
      BY <1>6 DEF Alerts!Stamp
    <3>2. (r.seen + 1) .. clock \subseteq 1 .. MaxOffers
      BY <2>1 DEF Alerts!TypeOK
    <3>3. QED
      BY <2>1, <3>1, <3>2 DEF Alerts!TypeOK
  <2>4. QED
    BY <1>1, <1>2, <1>6, <2>1, <2>2, <2>3 DEF Alerts!Stamp, Alerts!TypeOK, Alerts!Offers
<1>7. CASE Alerts!Stop(n)
  <2>1. stopped' \in BOOLEAN
    BY <1>7 DEF Alerts!Stop, Alerts!TypeOK
  <2>2. QED
    BY <1>1, <1>2, <1>7, <2>1 DEF Alerts!Stop, Alerts!TypeOK, Alerts!Offers
<1>8. QED
  BY <1>3, <1>4, <1>5, <1>6, <1>7 DEF Alerts!Notify

\* The parts of a digest that a step of the queue leaves: its offers.
LEMMA DeliveredTypes ==
    ASSUME Alerts!TypeOK, NEW i \in DOMAIN digests,
           Alerts!Take(i) \/ Alerts!Answer(i) \/ Alerts!Complete(i) \/ Alerts!Stall(i)
    PROVE  \E d \in Alerts!Digests : Alerts!Changed(i, d) /\ d.offers = digests[i].offers
<1> USE BoundsAssumption
<1>1. digests[i] \in Alerts!Digests
  BY DEF Alerts!TypeOK
<1>2. ASSUME NEW d \in Alerts!Digests, d.offers = digests[i].offers, Alerts!Changed(i, d)
      PROVE  \E e \in Alerts!Digests : Alerts!Changed(i, e) /\ e.offers = digests[i].offers
  BY <1>2
<1>3. ASSUME NEW state \in {"waiting", "active", "mailed", "done", "failed"}
      PROVE  /\ [digests[i] EXCEPT !.state = state] \in Alerts!Digests
             /\ Alerts!Over(i, state) \in Alerts!Digests
             /\ [digests[i] EXCEPT !.state = state].offers = digests[i].offers
             /\ Alerts!Over(i, state).offers = digests[i].offers
  <2>1. [digests[i] EXCEPT !.state = state] \in Alerts!Digests
    BY <1>1, <1>3 DEF Alerts!Digests
  <2>2. 0 \in 0 .. ATTEMPTS /\ 0 \in 0 .. MAX_STALLED
    OBVIOUS
  <2>3. Alerts!Over(i, state) \in Alerts!Digests
    BY <1>1, <1>3, <2>2 DEF Alerts!Digests, Alerts!Over
  <2>4. QED
    BY <1>1, <2>1, <2>3 DEF Alerts!Digests, Alerts!Over
<1>4. CASE Alerts!Take(i)
  BY <1>2, <1>3, <1>4 DEF Alerts!Take
<1>5. CASE Alerts!SendMail(i)
  BY <1>2, <1>3, <1>5 DEF Alerts!SendMail
<1>6. CASE Alerts!Complete(i)
  BY <1>2, <1>3, <1>6 DEF Alerts!Complete
<1>7. CASE Alerts!Fail(i)
  <2> DEFINE tries == digests[i].tries + 1
             d == IF tries < ATTEMPTS
                  THEN [digests[i] EXCEPT !.tries = tries, !.state = "waiting"]
                  ELSE Alerts!Over(i, "failed")
  <2>1. Alerts!Changed(i, d)
    BY <1>7 DEF Alerts!Fail
  <2>2. d \in Alerts!Digests /\ d.offers = digests[i].offers
    <3>1. CASE tries < ATTEMPTS
      <4>1. tries \in 0 .. ATTEMPTS
        BY <1>1, <3>1 DEF Alerts!Digests
      <4>2. QED
        BY <1>1, <3>1, <4>1 DEF Alerts!Digests
    <3>2. CASE ~(tries < ATTEMPTS)
      BY <1>3, <3>2
    <3>3. QED
      BY <3>1, <3>2
  <2> HIDE DEF d
  <2>3. QED
    BY <1>2, <2>1, <2>2
<1>8. CASE Alerts!Stall(i)
  <2> DEFINE stalls == digests[i].stalls + 1
             d == IF stalls <= MAX_STALLED
                  THEN [digests[i] EXCEPT !.stalls = stalls, !.state = "waiting"]
                  ELSE Alerts!Over(i, "failed")
  <2>1. Alerts!Changed(i, d)
    BY <1>8 DEF Alerts!Stall
  <2>2. d \in Alerts!Digests /\ d.offers = digests[i].offers
    <3>1. CASE stalls <= MAX_STALLED
      <4>1. stalls \in 0 .. MAX_STALLED
        BY <1>1, <3>1 DEF Alerts!Digests
      <4>2. QED
        BY <1>1, <3>1, <4>1 DEF Alerts!Digests
    <3>2. CASE ~(stalls <= MAX_STALLED)
      BY <1>3, <3>2
    <3>3. QED
      BY <3>1, <3>2
  <2> HIDE DEF d
  <2>3. QED
    BY <1>2, <2>1, <2>2
<1>9. QED
  BY <1>4, <1>5, <1>6, <1>7, <1>8 DEF Alerts!Answer

\* A step of the queue changes no digest's offers, nor how many there are.
LEMMA DeliverKeeps ==
    ASSUME Alerts!TypeOK, Alerts!Deliver
    PROVE  /\ digests' \in Seq(Alerts!Digests) /\ DOMAIN digests' = DOMAIN digests
           /\ \A i \in DOMAIN digests : digests'[i].offers = digests[i].offers
           /\ UNCHANGED <<clock, hidden, touched, row, notifier, form, changes, overlapped,
                          stopped, excused>>
<1>1. PICK i \in DOMAIN digests : Alerts!Take(i) \/ Alerts!Answer(i) \/ Alerts!Complete(i) \/
          Alerts!Stall(i)
  BY DEF Alerts!Deliver
<1>2. PICK d \in Alerts!Digests : Alerts!Changed(i, d) /\ d.offers = digests[i].offers
  BY <1>1, DeliveredTypes
<1>3. digests \in Seq(Alerts!Digests) /\ digests' = [digests EXCEPT ![i] = d]
  BY <1>2 DEF Alerts!TypeOK, Alerts!Changed
<1>4. digests' \in Seq(Alerts!Digests) /\ DOMAIN digests' = DOMAIN digests
  BY <1>3
<1>5. \A j \in DOMAIN digests : digests'[j].offers = digests[j].offers
  BY <1>2, <1>3
<1>6. QED
  BY <1>2, <1>4, <1>5 DEF Alerts!Changed

\* Every step keeps every type.
LEMMA TypeInductive == Alerts!TypeOK /\ [Alerts!Next]_alertVars => Alerts!TypeOK'
<1> SUFFICES ASSUME Alerts!TypeOK, [Alerts!Next]_alertVars
             PROVE  Alerts!TypeOK'
  OBVIOUS
<1>1. CASE Alerts!Deliver
  BY <1>1, DeliverKeeps DEF Alerts!TypeOK, Alerts!Offers
<1>2. CASE UNCHANGED alertVars
  BY <1>2 DEF alertVars, Alerts!TypeOK, Alerts!Offers
<1>3. QED
  BY <1>1, <1>2, WriterTypes, NotifyTypes DEF Alerts!Next

\* The types hold to begin with.
LEMMA TypeInitial == Alerts!Init => Alerts!TypeOK
<1> USE BoundsAssumption
<1> SUFFICES ASSUME Alerts!Init
             PROVE  Alerts!TypeOK
  OBVIOUS
<1>1. row \in Alerts!Rows
  BY DEF Alerts!Init, Alerts!Rows, Alerts!Never
<1>2. notifier \in [Notifiers -> Alerts!Requests]
  BY DEF Alerts!Init, Alerts!Requests
<1>3. digests \in Seq(Alerts!Digests)
  BY DEF Alerts!Init
<1>4. /\ clock \in 0 .. MaxOffers /\ changes \in 0 .. MaxChanges
      /\ hidden = {} /\ touched = {} /\ excused = {} /\ form = Alerts!Idle
      /\ overlapped \in BOOLEAN /\ stopped \in BOOLEAN
  <2>1. /\ clock = 0 /\ changes = 0 /\ hidden = {} /\ touched = {} /\ excused = {}
        /\ form = Alerts!Idle /\ overlapped = FALSE /\ stopped = FALSE
    BY DEF Alerts!Init
  <2>2. clock \in 0 .. MaxOffers /\ changes \in 0 .. MaxChanges
    BY <2>1
  <2>3. overlapped \in BOOLEAN /\ stopped \in BOOLEAN
    BY <2>1
  <2>4. QED
    BY <2>1, <2>2, <2>3
<1>5. QED
  BY <1>1, <1>2, <1>3, <1>4 DEF Alerts!TypeOK
-----------------------------------------------------------------------------
(***************************************************************************)
(* Inductive invariant: every copy of the row that may still be saved has a *)
(* stamp that was the row's, so that what is older than it is settled; a    *)
(* request accounts for every offer it looked at; and while no request      *)
(* stopped short of its stamp and the row had one writer at a time, what a  *)
(* request found is newer than all that was announced.                      *)
(***************************************************************************)
\* What is no newer than the stamp was announced, touched or given up.
Served(stamp) ==
    /\ stamp <= clock
    /\ \A o \in Alerts!Offers : o <= stamp /\ o \notin touched => o \in Alerts!Announced \union
           excused

\* The request looked at every offer there was.
Accounted(r) ==
    /\ r.seen <= clock /\ r.found \subseteq Alerts!Offers
    /\ \A o \in 1 .. r.seen : o <= r.row.stamp \/ o \in touched \union r.found \union r.over

Settled ==
    /\ Alerts!Announced \subseteq Alerts!Offers
    /\ Served(row.stamp)
    /\ form # Alerts!Idle => Served(form.row.stamp)
    /\ \A n \in Notifiers : notifier[n] # Alerts!Idle => Served(notifier[n].row.stamp)
    /\ \A n \in Notifiers : notifier[n].at \in {"queue", "stamp"} => Accounted(notifier[n])
    /\ \A n \in Notifiers : notifier[n].at = "stamp" => notifier[n].found \subseteq Alerts!Announced

\* One writer has a copy of the row, and it is the row.
OneWriter ==
    /\ \A n, m \in Notifiers : notifier[n] # Alerts!Idle /\ notifier[m] # Alerts!Idle => n = m
    /\ form # Alerts!Idle => form.row.stamp = row.stamp /\ \A n \in Notifiers : notifier[n] =
           Alerts!Idle
    /\ \A n \in Notifiers : notifier[n] # Alerts!Idle => notifier[n].row.stamp = row.stamp

\* No two digests share an offer, and what is found has not been announced.
Once ==
    /\ \A i, j \in DOMAIN digests :
          i # j => digests[i].offers \intersect digests[j].offers = {}
    /\ \A n \in Notifiers : notifier[n].at = "queue" =>
          \A o \in notifier[n].found : o > row.stamp
    /\ (\A n \in Notifiers : notifier[n].at # "stamp") =>
          \A o \in Alerts!Announced : o <= row.stamp

AlertsInv == Alerts!TypeOK /\ Settled /\ (overlapped \/ stopped \/ (OneWriter /\ Once))

\* What was announced is what some digest says.
LEMMA AnnouncedParts ==
    \A o : o \in Alerts!Announced <=> \E i \in DOMAIN digests : o \in digests[i].offers
BY DEF Alerts!Announced

\* Offers are only inserted, touched, announced and given up.
Grown ==
    /\ clock' \in Int /\ clock <= clock' /\ touched \subseteq touched'
    /\ Alerts!Announced \subseteq Alerts!Announced' /\ excused \subseteq excused'

\* A request adds what it found to what is announced; the queue adds nothing.
LEMMA AnnouncedGrows ==
    ASSUME Alerts!TypeOK
    PROVE  /\ UNCHANGED digests => UNCHANGED Alerts!Announced
           /\ Alerts!Deliver => UNCHANGED Alerts!Announced
           /\ \A n \in Notifiers : Alerts!Enqueue(n) => Alerts!Announced' = Alerts!Announced
                  \union notifier[n].found
<1>1. ASSUME UNCHANGED digests
      PROVE  UNCHANGED Alerts!Announced
  BY <1>1 DEF Alerts!Announced
<1>2. ASSUME Alerts!Deliver
      PROVE  UNCHANGED Alerts!Announced
  <2>1. /\ DOMAIN digests' = DOMAIN digests
        /\ \A i \in DOMAIN digests : digests'[i].offers = digests[i].offers
    BY <1>2, DeliverKeeps
  <2>2. QED
    BY <2>1 DEF Alerts!Announced
<1>3. ASSUME NEW n \in Notifiers, Alerts!Enqueue(n)
      PROVE  Alerts!Announced' = Alerts!Announced \union notifier[n].found
  <2> DEFINE d == [offers |-> notifier[n].found, state |-> "waiting",
                   tries |-> 0, stalls |-> 0]
  <2>1. digests \in Seq(Alerts!Digests) /\ digests' = Append(digests, d)
    BY <1>3 DEF Alerts!Enqueue, Alerts!TypeOK
  <2>2. d.offers = notifier[n].found
    OBVIOUS
  <2> HIDE DEF d
  <2>3. /\ DOMAIN digests' = DOMAIN digests \union {Len(digests) + 1}
        /\ \A i \in DOMAIN digests : digests'[i] = digests[i]
        /\ digests'[Len(digests) + 1] = d
    BY <2>1
  <2>4. QED
    BY <2>2, <2>3 DEF Alerts!Announced
<1>4. QED
  BY <1>1, <1>2, <1>3

\* No step takes an offer back.
LEMMA AllGrow ==
    ASSUME Alerts!TypeOK, [Alerts!Next]_alertVars
    PROVE  Grown
<1>1. clock \in Nat
  BY BoundsAssumption DEF Alerts!TypeOK
<1>2. ASSUME NEW n \in Notifiers, Alerts!Notify(n)
      PROVE  Grown
  <2>1. CASE Alerts!Enqueue(n)
    <3>1. Alerts!Announced' = Alerts!Announced \union notifier[n].found
      BY <2>1, AnnouncedGrows
    <3>2. UNCHANGED <<clock, touched, excused>>
      BY <2>1 DEF Alerts!Enqueue
    <3>3. QED
      BY <1>1, <3>1, <3>2 DEF Grown
  <2>2. CASE ~Alerts!Enqueue(n)
    BY <1>1, <1>2, <2>2, AnnouncedGrows DEF Alerts!Notify, Alerts!Load, Alerts!Find,
           Alerts!Stamp, Alerts!Stop, Grown
  <2>3. QED
    BY <2>1, <2>2
<1>3. CASE Alerts!Deliver
  BY <1>1, <1>3, DeliverKeeps, AnnouncedGrows DEF Grown
<1>4. CASE \/ Alerts!Insert \/ Alerts!Close \/ Alerts!Reopen \/ Alerts!Touch \/ Alerts!OpenSave
          \/ Alerts!SaveForm \/ UNCHANGED alertVars
  BY <1>1, <1>4, AnnouncedGrows
  DEF Alerts!Insert, Alerts!Close, Alerts!Reopen, Alerts!Touch, Alerts!OpenSave,
         Alerts!SaveForm, alertVars, Grown
<1>5. QED
  BY <1>2, <1>3, <1>4 DEF Alerts!Next

\* What a stamp or a request accounts for stays accounted for.
LEMMA GrownKeeps ==
    ASSUME Alerts!TypeOK, Grown
    PROVE  /\ \A stamp \in Int : Served(stamp) =>
                 /\ stamp <= clock'
                 /\ \A o \in 1 .. clock' : o <= stamp /\ o \notin touched' =>
                       o \in Alerts!Announced' \union excused'
           /\ \A r : r.seen \in Int /\ Accounted(r) =>
                 /\ r.seen <= clock' /\ r.found \subseteq 1 .. clock'
                 /\ \A o \in 1 .. r.seen :
                       o <= r.row.stamp \/ o \in touched' \union r.found \union r.over
<1>1. clock \in Nat
  BY BoundsAssumption DEF Alerts!TypeOK
<1>2. QED
  BY <1>1 DEF Grown, Served, Accounted, Alerts!Offers

\* A step of the offers, the queue or the form accounts for what there was.
LEMMA WriterSettles ==
    ASSUME Alerts!TypeOK, Settled,
           \/ Alerts!Insert \/ Alerts!Close \/ Alerts!Reopen \/ Alerts!Touch \/ Alerts!OpenSave
                  \/ Alerts!SaveForm \/ Alerts!Deliver
           \/ UNCHANGED alertVars
    PROVE  Settled'
<1>1. Grown
  BY AllGrow DEF Alerts!Next
<1>2. /\ row \in Alerts!Rows /\ notifier \in [Notifiers -> Alerts!Requests]
      /\ form # Alerts!Idle => form.row \in Alerts!Rows
      /\ \A n \in Notifiers : notifier[n] # Alerts!Idle =>
            notifier[n].row \in Alerts!Rows /\ notifier[n].seen \in Int
      /\ \A r \in Alerts!Rows : r.stamp \in Int
  BY RequestParts, BoundsAssumption DEF Alerts!TypeOK, Alerts!Rows, Alerts!Never
<1>3. notifier' = notifier /\ Alerts!Announced' = Alerts!Announced
  <2>1. CASE Alerts!Deliver
    BY <2>1, DeliverKeeps, AnnouncedGrows
  <2>2. CASE ~Alerts!Deliver
    BY <2>2, AnnouncedGrows DEF Alerts!Insert, Alerts!Close, Alerts!Reopen, Alerts!Touch,
           Alerts!OpenSave, Alerts!SaveForm, alertVars
  <2>3. QED
    BY <2>1, <2>2
<1>4. row' = row \/ (form # Alerts!Idle /\ row' = form.row)
  BY DeliverKeeps DEF Alerts!Insert, Alerts!Close, Alerts!Reopen, Alerts!Touch, Alerts!OpenSave,
         Alerts!SaveForm, alertVars
<1>5. form' # Alerts!Idle => (form # Alerts!Idle /\ form' = form) \/ form'.row.stamp = row.stamp
  <2>1. CASE Alerts!OpenSave
    BY <1>2, <2>1 DEF Alerts!OpenSave, Alerts!Rows
  <2>2. CASE ~Alerts!OpenSave
    BY <2>2, DeliverKeeps DEF Alerts!Insert, Alerts!Close, Alerts!Reopen, Alerts!Touch,
           Alerts!SaveForm, alertVars
  <2>3. QED
    BY <2>1, <2>2
<1>6. Alerts!Announced' \subseteq Alerts!Offers'
  BY <1>1, <1>3 DEF Settled, Grown, Alerts!TypeOK, Alerts!Offers
<1>7. Served(row.stamp)'
  BY <1>1, <1>2, <1>4, GrownKeeps DEF Settled, Served, Alerts!Offers
<1>8. form' # Alerts!Idle => Served(form.row.stamp)'
  BY <1>1, <1>2, <1>5, GrownKeeps DEF Settled, Served, Alerts!Offers
<1>9. ASSUME NEW n \in Notifiers
      PROVE  /\ notifier'[n] # Alerts!Idle => Served(notifier[n].row.stamp)'
             /\ notifier'[n].at \in {"queue", "stamp"} => Accounted(notifier[n])'
             /\ notifier'[n].at = "stamp" => notifier'[n].found \subseteq Alerts!Announced'
  <2>1. notifier[n].at \in {"queue", "stamp"} => notifier[n] # Alerts!Idle
    BY DEF Alerts!Idle
  <2>2. notifier[n] # Alerts!Idle => Served(notifier[n].row.stamp)'
    BY <1>1, <1>2, <1>3, GrownKeeps DEF Settled, Served, Alerts!Offers
  <2>3. notifier[n].at \in {"queue", "stamp"} => Accounted(notifier[n])'
    BY <1>1, <1>2, <1>3, <2>1, GrownKeeps DEF Settled, Accounted, Alerts!Offers
  <2>4. QED
    BY <1>3, <2>2, <2>3 DEF Settled
<1>10. QED
  BY <1>6, <1>7, <1>8, <1>9 DEF Settled

\* So does a request, its stamp included: what was inserted since its query is given
\* up, and so is what it left out of its digest.
LEMMA NotifySettles ==
    ASSUME Alerts!TypeOK, Settled, NEW n \in Notifiers, Alerts!Notify(n)
    PROVE  Settled'
<1> DEFINE r == notifier[n]
<1>1. Grown /\ clock \in Nat
  BY AllGrow, BoundsAssumption DEF Alerts!Next, Alerts!TypeOK
<1>2. /\ row \in Alerts!Rows /\ notifier \in [Notifiers -> Alerts!Requests]
      /\ form # Alerts!Idle => form.row \in Alerts!Rows
      /\ \A m \in Notifiers : notifier[m] # Alerts!Idle =>
            notifier[m].row \in Alerts!Rows /\ notifier[m].seen \in Int
      /\ \A held \in Alerts!Rows : held.stamp \in Int
  BY RequestParts, BoundsAssumption DEF Alerts!TypeOK, Alerts!Rows, Alerts!Never
<1>3. form' = form /\ \A m \in Notifiers \ {n} : notifier'[m] = notifier[m]
  BY <1>2 DEF Alerts!Notify, Alerts!Load, Alerts!Find, Alerts!Enqueue, Alerts!Stamp, Alerts!Stop
<1>4. r.at # "idle" => r # Alerts!Idle
  BY DEF Alerts!Idle
<1>5. Alerts!Announced' \subseteq Alerts!Offers' /\ (~Alerts!Enqueue(n) => Alerts!Announced' =
       Alerts!Announced)
  <2>1. CASE Alerts!Enqueue(n)
    <3>1. Alerts!Announced' = Alerts!Announced \union r.found
      BY <2>1, AnnouncedGrows
    <3>2. r.found \subseteq Alerts!Offers /\ clock' = clock
      BY <2>1 DEF Alerts!Enqueue, Settled, Accounted
    <3>3. QED
      BY <2>1, <3>1, <3>2 DEF Settled, Alerts!Offers
  <2>2. CASE ~Alerts!Enqueue(n)
    BY <2>2, AnnouncedGrows DEF Alerts!Notify, Alerts!Load, Alerts!Find, Alerts!Stamp,
           Alerts!Stop, Settled, Alerts!Offers
  <2>3. QED
    BY <2>1, <2>2
<1>6. form' # Alerts!Idle => Served(form.row.stamp)'
  BY <1>1, <1>2, <1>3, GrownKeeps DEF Settled, Served, Alerts!Offers
<1>7. ASSUME NEW m \in Notifiers \ {n}
      PROVE  /\ notifier'[m] # Alerts!Idle => Served(notifier[m].row.stamp)'
             /\ notifier'[m].at \in {"queue", "stamp"} => Accounted(notifier[m])'
             /\ notifier'[m].at = "stamp" => notifier'[m].found \subseteq Alerts!Announced'
  <2>1. notifier[m].at \in {"queue", "stamp"} => notifier[m] # Alerts!Idle
    BY DEF Alerts!Idle
  <2>2. notifier[m] # Alerts!Idle => Served(notifier[m].row.stamp)'
    BY <1>1, <1>2, <1>3, GrownKeeps DEF Settled, Served, Alerts!Offers
  <2>3. notifier[m].at \in {"queue", "stamp"} => Accounted(notifier[m])'
    BY <1>1, <1>2, <1>3, <2>1, GrownKeeps DEF Settled, Accounted, Alerts!Offers
  <2>4. QED
    BY <1>1, <1>3, <2>2, <2>3 DEF Settled, Grown
<1>8. SUFFICES /\ Served(row.stamp)'
               /\ notifier'[n] # Alerts!Idle => Served(notifier[n].row.stamp)'
               /\ notifier'[n].at \in {"queue", "stamp"} => Accounted(notifier[n])'
               /\ notifier'[n].at = "stamp" => notifier'[n].found \subseteq Alerts!Announced'
  BY <1>5, <1>6, <1>7 DEF Settled
<1>9. row' = row => Served(row.stamp)'
  BY <1>1, <1>2, GrownKeeps DEF Settled, Served, Alerts!Offers
<1>10. CASE Alerts!Load(n)
  <2>1. /\ row' = row
        /\ notifier'[n] = [at |-> "find", row |-> row, found |-> {}, seen |-> 0]
    BY <1>2, <1>10 DEF Alerts!Load
  <2>2. notifier'[n].row = row /\ notifier'[n].at = "find"
    BY <2>1
  <2>3. QED
    BY <1>9, <2>1, <2>2
<1>11. CASE Alerts!Find(n)
  <2> DEFINE found == Alerts!FindMatches(r.row)
             over == hidden \union (Alerts!Candidates(r.row) \ found)
                     \union (IF r.row.stamp = Alerts!Never THEN 1 .. Alerts!Since(r.row) ELSE {})
             u == [at |-> "queue", row |-> r.row, found |-> found, seen |-> clock,
                   over |-> over]
  <2>1. /\ UNCHANGED <<row, clock, touched>>
        /\ notifier'[n] = IF found = {} THEN Alerts!Idle ELSE u
        /\ r # Alerts!Idle
    BY <1>2, <1>4, <1>11 DEF Alerts!Find
  <2>2. found \subseteq Alerts!Candidates(r.row) /\ Alerts!Candidates(r.row) \subseteq Alerts!Offers
    BY FoundAreCandidates
  <2>3. ASSUME NEW o \in 1 .. clock
        PROVE  o <= r.row.stamp \/ o \in touched \union found \union over
    <3>1. r.row \in Alerts!Rows /\ r.row.stamp \in Int /\ Alerts!Since(r.row) \in Int
      BY <1>1, <1>2, <2>1, SinceType
    <3>2. CASE o \in hidden \/ o \in touched
      BY <3>2
    <3>3. CASE o <= Alerts!Since(r.row)
      <4>1. CASE r.row.stamp # Alerts!Never
        BY <1>1, <3>1, <3>3, <4>1, SinceType
      <4>2. CASE r.row.stamp = Alerts!Never
        <5>1. o \in 1 .. Alerts!Since(r.row)
          BY <3>1, <3>3
        <5>2. QED
          BY <4>2, <5>1
      <4>3. QED
        BY <4>1, <4>2
    <3>4. CASE o > Alerts!Since(r.row) /\ o \notin hidden /\ o \notin touched
      <4>1. o \in Alerts!Candidates(r.row)
        BY <3>4 DEF Alerts!Candidates, Alerts!Offers
      <4>2. QED
        BY <4>1
    <3>5. QED
      BY <3>1, <3>2, <3>3, <3>4
  <2>4. u.at = "queue" /\ u.row = r.row /\ u.found = found /\ u.seen = clock /\ u.over = over
    OBVIOUS
  <2> HIDE DEF u, found, over
  <2>5. CASE found = {}
    BY <1>9, <2>1, <2>5 DEF Alerts!Idle
  <2>6. CASE found # {}
    <3>1. notifier'[n] = u
      BY <2>1, <2>6
    <3>2. Served(notifier[n].row.stamp)'
      BY <1>1, <1>2, <2>1, <2>4, <3>1, GrownKeeps DEF Settled, Served, Alerts!Offers
    <3>3. Accounted(notifier[n])'
      BY <1>1, <2>1, <2>2, <2>3, <2>4, <3>1 DEF Accounted, Alerts!Offers
    <3>4. QED
      BY <1>9, <2>1, <2>4, <3>1, <3>2, <3>3
  <2>7. QED
    BY <2>5, <2>6
<1>12. CASE Alerts!Enqueue(n)
  <2> DEFINE u == [r EXCEPT !.at = "stamp"]
  <2>1. /\ row' = row /\ r.at = "queue" /\ r \in Alerts!Requests /\ r # Alerts!Idle
        /\ notifier'[n] = u
    BY <1>2, <1>4, <1>12 DEF Alerts!Enqueue
  <2>2. u.row = r.row /\ u.found = r.found /\ u.seen = r.seen /\ u.over = r.over
    BY <2>1 DEF Alerts!Requests, Alerts!Idle
  <2> HIDE DEF u
  <2>3. Served(notifier[n].row.stamp)'
    BY <1>1, <1>2, <2>1, <2>2, GrownKeeps DEF Settled, Served, Alerts!Offers
  <2>4. Accounted(notifier[n])'
    BY <1>1, <1>2, <2>1, <2>2, GrownKeeps DEF Settled, Accounted, Alerts!Offers
  <2>5. notifier'[n].found \subseteq Alerts!Announced'
    BY <1>12, <2>1, <2>2, AnnouncedGrows
  <2>6. QED
    BY <1>9, <2>1, <2>3, <2>4, <2>5
<1>13. CASE Alerts!Stamp(n)
  <2>1. /\ r.at = "stamp" /\ r # Alerts!Idle /\ notifier'[n] = Alerts!Idle
        /\ row' = [r.row EXCEPT !.stamp = clock] /\ UNCHANGED <<clock, touched>>
        /\ excused' = excused \union r.over \union (r.seen + 1) .. clock
    BY <1>2, <1>4, <1>13 DEF Alerts!Stamp
  <2>2. row'.stamp = clock
    BY <1>2, <2>1 DEF Alerts!Rows
  <2>3. Accounted(r) /\ Served(r.row.stamp) /\ r.found \subseteq Alerts!Announced
    BY <2>1 DEF Settled
  <2>4. Alerts!Announced' = Alerts!Announced
    BY <1>5, <1>13, <2>1 DEF Alerts!Enqueue
  <2>5. ASSUME NEW o \in 1 .. clock, o \notin touched
        PROVE  o \in Alerts!Announced' \union excused'
    <3>1. r.seen \in Int /\ r.row.stamp \in Int
      BY <1>2, <2>1
    <3>2. CASE o > r.seen
      BY <2>1, <3>1, <3>2
    <3>3. CASE o <= r.seen
      <4>1. o <= r.row.stamp \/ o \in r.found \union r.over
        BY <2>3, <2>5, <3>1, <3>3 DEF Accounted
      <4>2. QED
        BY <2>1, <2>3, <2>4, <2>5, <4>1 DEF Served, Alerts!Offers
    <3>4. QED
      BY <3>1, <3>2, <3>3
  <2>6. Served(row.stamp)'
    BY <1>1, <2>1, <2>2, <2>5 DEF Served, Alerts!Offers
  <2>7. QED
    BY <2>1, <2>6 DEF Alerts!Idle
<1>14. CASE Alerts!Stop(n)
  <2>1. row' = row /\ notifier'[n] = Alerts!Idle
    BY <1>2, <1>14 DEF Alerts!Stop
  <2>2. QED
    BY <1>9, <2>1 DEF Alerts!Idle
<1>15. QED
  BY <1>10, <1>11, <1>12, <1>13, <1>14 DEF Alerts!Notify

\* While nobody overlapped and nobody stopped short, the writer with a copy is the
\* only one: a second one is told of.
LEMMA OnceStep ==
    ASSUME Alerts!TypeOK, Settled, [Alerts!Next]_alertVars, ~overlapped', ~stopped',
           overlapped \/ stopped \/ (OneWriter /\ Once)
    PROVE  OneWriter' /\ Once'
<1>1. /\ row \in Alerts!Rows /\ notifier \in [Notifiers -> Alerts!Requests]
      /\ \A held \in Alerts!Rows : held.stamp \in Int
      /\ digests \in Seq(Alerts!Digests) /\ clock \in Nat
  BY BoundsAssumption DEF Alerts!TypeOK, Alerts!Rows, Alerts!Never
<1>2. OneWriter /\ Once
  <2>1. (overlapped => overlapped') /\ (stopped => stopped')
    <3>1. CASE Alerts!Deliver \/ UNCHANGED alertVars
      BY <3>1, DeliverKeeps DEF alertVars
    <3>2. CASE \/ Alerts!Insert \/ Alerts!Close \/ Alerts!Reopen \/ Alerts!Touch \/ Alerts!SaveForm
      BY <3>2 DEF Alerts!Insert, Alerts!Close, Alerts!Reopen, Alerts!Touch, Alerts!SaveForm
    <3>3. CASE Alerts!OpenSave
      <4>1. overlapped' = (overlapped \/ Alerts!Busy) /\ stopped' = stopped
        BY <3>3 DEF Alerts!OpenSave
      <4>2. QED
        BY <4>1
    <3>4. ASSUME NEW n \in Notifiers, Alerts!Notify(n)
          PROVE  (overlapped => overlapped') /\ (stopped => stopped')
      <4>1. CASE Alerts!Load(n)
        <5>1. overlapped' = (overlapped \/ Alerts!Busy) /\ stopped' = stopped
          BY <4>1 DEF Alerts!Load
        <5>2. QED
          BY <5>1
      <4>2. CASE Alerts!Stop(n)
        <5>1. overlapped' = overlapped /\ stopped' = (stopped \/ notifier[n].at = "stamp")
          BY <4>2 DEF Alerts!Stop
        <5>2. QED
          BY <5>1
      <4>3. CASE Alerts!Find(n) \/ Alerts!Enqueue(n) \/ Alerts!Stamp(n)
        BY <4>3 DEF Alerts!Find, Alerts!Enqueue, Alerts!Stamp
      <4>4. QED
        BY <3>4, <4>1, <4>2, <4>3 DEF Alerts!Notify
    <3>5. QED
      BY <3>1, <3>2, <3>3, <3>4 DEF Alerts!Next
  <2>2. QED
    BY <2>1
<1>3. Alerts!Announced \subseteq Alerts!Offers
  BY DEF Settled
<1>4. ASSUME /\ UNCHANGED notifier /\ row'.stamp = row.stamp
             /\ form' = Alerts!Idle \/ form' = form
             /\ DOMAIN digests' = DOMAIN digests
             /\ \A i \in DOMAIN digests : digests'[i].offers = digests[i].offers
             /\ Alerts!Announced' = Alerts!Announced
      PROVE  OneWriter' /\ Once'
  BY <1>2, <1>4 DEF OneWriter, Once
<1>5. CASE Alerts!Deliver
  BY <1>4, <1>5, DeliverKeeps, AnnouncedGrows
<1>6. CASE Alerts!Insert \/ Alerts!Close \/ Alerts!Reopen \/ Alerts!Touch \/ UNCHANGED alertVars
  BY <1>4, <1>6, AnnouncedGrows DEF Alerts!Insert, Alerts!Close, Alerts!Reopen, Alerts!Touch,
         alertVars
<1>7. CASE Alerts!SaveForm
  <2>1. form # Alerts!Idle /\ row' = form.row /\ form' = Alerts!Idle /\ UNCHANGED <<notifier,
         digests>>
    BY <1>7 DEF Alerts!SaveForm
  <2>2. row'.stamp = row.stamp
    BY <1>2, <2>1 DEF OneWriter
  <2>3. QED
    BY <1>4, <2>1, <2>2, AnnouncedGrows
<1>8. CASE Alerts!OpenSave
  <2>1. ~Alerts!Busy /\ UNCHANGED <<row, notifier, digests>>
    BY <1>8 DEF Alerts!OpenSave
  <2>2. form'.row.stamp = row.stamp
    BY <1>1, <1>8 DEF Alerts!OpenSave, Alerts!Rows
  <2>3. Alerts!Announced' = Alerts!Announced
    BY <2>1, AnnouncedGrows
  <2>4. OneWriter'
    BY <2>1, <2>2 DEF OneWriter, Alerts!Busy
  <2>5. Once'
    BY <1>2, <2>1, <2>3 DEF Once
  <2>6. QED
    BY <2>4, <2>5
<1>9. ASSUME NEW n \in Notifiers, Alerts!Load(n)
      PROVE  OneWriter' /\ Once'
  <2>1. /\ ~Alerts!Busy /\ UNCHANGED <<row, form, digests>>
        /\ \A m \in Notifiers \ {n} : notifier'[m] = notifier[m]
        /\ notifier'[n] = [at |-> "find", row |-> row, found |-> {}, seen |-> 0]
    BY <1>1, <1>9 DEF Alerts!Load
  <2>2. notifier'[n].row = row /\ notifier'[n].at = "find"
    BY <2>1
  <2>3. Alerts!Announced' = Alerts!Announced
    BY <2>1, AnnouncedGrows
  <2>4. OneWriter'
    BY <2>1, <2>2 DEF OneWriter, Alerts!Busy
  <2>5. Once'
    <3>1. \A m \in Notifiers : notifier[m].at # "stamp"
      BY <2>1 DEF Alerts!Busy, Alerts!Idle
    <3>2. QED
      BY <1>2, <2>1, <2>2, <2>3, <3>1 DEF Once
  <2>6. QED
    BY <2>4, <2>5
<1>10. ASSUME NEW n \in Notifiers, notifier[n] # Alerts!Idle
       PROVE  /\ \A m \in Notifiers \ {n} : notifier[m] = Alerts!Idle
              /\ form = Alerts!Idle /\ notifier[n].row.stamp = row.stamp
              /\ notifier[n] \in Alerts!Requests /\ notifier[n].row \in Alerts!Rows
  BY <1>1, <1>2, <1>10, RequestParts DEF OneWriter
<1>11. ASSUME NEW n \in Notifiers, Alerts!Find(n)
       PROVE  OneWriter' /\ Once'
  <2> DEFINE r == notifier[n]
             found == Alerts!FindMatches(r.row)
  <2>1. r.at = "find" /\ r # Alerts!Idle /\ UNCHANGED <<row, form, digests>>
    BY <1>11 DEF Alerts!Find, Alerts!Idle
  <2>2. PICK over :
            notifier' = [notifier EXCEPT ![n] =
                IF found = {} THEN Alerts!Idle
                ELSE [at |-> "queue", row |-> r.row, found |-> found, seen |-> clock,
                      over |-> over]]
    BY <1>11 DEF Alerts!Find
  <2>3. /\ \A m \in Notifiers \ {n} : notifier'[m] = notifier[m]
        /\ notifier'[n] = Alerts!Idle \/ (/\ notifier'[n].at = "queue" /\ notifier'[n].row = r.row
                                   /\ notifier'[n].found = found)
    <3> HIDE DEF found, r
    <3>1. notifier'[n] = IF found = {} THEN Alerts!Idle
                ELSE [at |-> "queue", row |-> r.row, found |-> found, seen |-> clock,
                      over |-> over]
      BY <1>1, <2>2
    <3>2. QED
      BY <1>1, <2>2, <3>1
  <2>4. \A o \in found : o > row.stamp
    <3>1. found \subseteq Alerts!Candidates(r.row)
      BY FoundAreCandidates
    <3>2. r.row \in Alerts!Rows /\ r.row.stamp = row.stamp
      BY <1>10, <2>1
    <3>3. Alerts!Since(r.row) \in Int /\ Alerts!Since(r.row) >= row.stamp
      BY <1>1, <3>2, SinceType DEF Alerts!Never
    <3>4. \A o \in Alerts!Candidates(r.row) : o \in Int /\ o > Alerts!Since(r.row)
      BY DEF Alerts!Candidates, Alerts!Offers
    <3> HIDE DEF found
    <3>5. QED
      BY <1>1, <3>1, <3>3, <3>4
  <2>5. Alerts!Announced' = Alerts!Announced
    BY <2>1, AnnouncedGrows
  <2> HIDE DEF found
  <2>6. OneWriter'
    BY <1>10, <2>1, <2>3 DEF OneWriter
  <2>7. Once'
    <3>1. \A m \in Notifiers : notifier[m].at # "stamp"
      BY <1>10, <2>1 DEF Alerts!Idle
    <3>2. \A m \in Notifiers \ {n} : notifier'[m].at # "queue"
      BY <1>10, <2>1, <2>3 DEF Alerts!Idle
    <3>3. notifier'[n].at = "queue" => notifier'[n].found = found
      BY <2>3 DEF Alerts!Idle
    <3>4. QED
      BY <1>2, <2>1, <2>4, <2>5, <3>1, <3>2, <3>3 DEF Once
  <2>8. QED
    BY <2>6, <2>7
<1>12. ASSUME NEW n \in Notifiers, Alerts!Enqueue(n)
       PROVE  OneWriter' /\ Once'
  <2> DEFINE r == notifier[n]
             d == [offers |-> r.found, state |-> "waiting", tries |-> 0, stalls |-> 0]
             u == [r EXCEPT !.at = "stamp"]
  <2>1. /\ r.at = "queue" /\ r # Alerts!Idle /\ UNCHANGED <<row, form>>
        /\ digests' = Append(digests, d) /\ notifier' = [notifier EXCEPT ![n] = u]
    BY <1>12 DEF Alerts!Enqueue, Alerts!Idle
  <2>2. u.at = "stamp" /\ u.row = r.row /\ d.offers = r.found
    BY <1>10, <2>1 DEF Alerts!Requests, Alerts!Idle
  <2>3. /\ \A m \in Notifiers \ {n} : notifier'[m] = notifier[m]
        /\ notifier'[n] = u
    BY <1>1, <2>1
  <2> HIDE DEF d, u
  <2>4. /\ DOMAIN digests' = DOMAIN digests \union {Len(digests) + 1}
        /\ Len(digests) + 1 \notin DOMAIN digests
        /\ \A i \in DOMAIN digests : digests'[i] = digests[i]
        /\ digests'[Len(digests) + 1] = d
    BY <1>1, <2>1
  <2>5. \A o \in r.found : o > row.stamp /\ o \in Int
    BY <1>2, <1>10, <2>1, RequestParts DEF Once
  <2>6. \A i \in DOMAIN digests : digests[i].offers \intersect r.found = {}
    <3>1. \A m \in Notifiers : notifier[m].at # "stamp"
      BY <1>10, <2>1 DEF Alerts!Idle
    <3>2. \A o \in Alerts!Announced : o <= row.stamp
      BY <1>2, <3>1 DEF Once
    <3>3. ASSUME NEW i \in DOMAIN digests, NEW o \in digests[i].offers, o \in r.found
          PROVE  FALSE
      <4>1. o <= row.stamp
        BY <3>2, AnnouncedParts
      <4>2. QED
        BY <1>1, <2>5, <3>3, <4>1
    <3>4. QED
      BY <3>3
  <2>7. OneWriter'
    BY <1>10, <2>1, <2>2, <2>3 DEF OneWriter
  <2>8. Once'
    <3>1. \A i, j \in DOMAIN digests' :
              i # j => digests'[i].offers \intersect digests'[j].offers = {}
      BY <1>2, <2>2, <2>4, <2>6 DEF Once
    <3>2. \A m \in Notifiers : notifier'[m].at # "queue"
      BY <1>10, <2>1, <2>2, <2>3 DEF Alerts!Idle
    <3>3. QED
      BY <2>2, <2>3, <3>1, <3>2 DEF Once
  <2>9. QED
    BY <2>7, <2>8
<1>13. ASSUME NEW n \in Notifiers, notifier[n] # Alerts!Idle, notifier' = [notifier EXCEPT ![n]
       = Alerts!Idle],
              UNCHANGED <<form, digests>>, row'.stamp \in Int,
              \A o \in Alerts!Announced : o <= row'.stamp
       PROVE  OneWriter' /\ Once'
  <2>1. (\A m \in Notifiers : notifier'[m] = Alerts!Idle) /\ form' = Alerts!Idle
    BY <1>1, <1>10, <1>13
  <2>2. \A m \in Notifiers : notifier'[m].at = "idle"
    BY <2>1 DEF Alerts!Idle
  <2>3. Alerts!Announced' = Alerts!Announced
    BY <1>13, AnnouncedGrows
  <2>4. OneWriter'
    BY <2>1 DEF OneWriter
  <2>5. Once'
    BY <1>2, <1>13, <2>2, <2>3 DEF Once
  <2>6. QED
    BY <2>4, <2>5
<1>14. ASSUME NEW n \in Notifiers, Alerts!Stamp(n)
       PROVE  OneWriter' /\ Once'
  <2>1. /\ notifier[n].at = "stamp" /\ notifier[n] # Alerts!Idle
        /\ row' = [notifier[n].row EXCEPT !.stamp = clock]
        /\ notifier' = [notifier EXCEPT ![n] = Alerts!Idle] /\ UNCHANGED <<form, digests>>
    BY <1>14 DEF Alerts!Stamp, Alerts!Idle
  <2>2. row'.stamp = clock
    BY <1>10, <2>1 DEF Alerts!Rows
  <2>3. \A o \in Alerts!Announced : o <= row'.stamp
    BY <1>1, <1>3, <2>2 DEF Alerts!Offers
  <2>4. row'.stamp \in Int
    BY <1>1, <2>2
  <2>5. QED
    BY <1>13, <2>1, <2>3, <2>4
<1>15. ASSUME NEW n \in Notifiers, Alerts!Stop(n)
       PROVE  OneWriter' /\ Once'
  <2>1. /\ notifier[n].at # "stamp" /\ notifier[n] # Alerts!Idle /\ UNCHANGED <<row, form, digests>>
        /\ notifier' = [notifier EXCEPT ![n] = Alerts!Idle]
    BY <1>15 DEF Alerts!Stop, Alerts!TypeOK
  <2>2. \A m \in Notifiers : notifier[m].at # "stamp"
    BY <1>10, <2>1 DEF Alerts!Idle
  <2>3. \A o \in Alerts!Announced : o <= row'.stamp
    BY <1>2, <2>1, <2>2 DEF Once
  <2>4. QED
    BY <1>1, <1>13, <2>1, <2>3
<1>16. QED
  BY <1>5, <1>6, <1>7, <1>8, <1>9, <1>11, <1>12, <1>14, <1>15 DEF Alerts!Next, Alerts!Notify

\* Nothing is queued at first.
LEMMA AlertsBegin ==
    ASSUME Alerts!Init
    PROVE  AlertsInv
<1>1. Alerts!TypeOK
  BY TypeInitial
<1>2. Alerts!Announced = {} /\ Alerts!Offers = {} /\ form = Alerts!Idle /\ \A n \in Notifiers :
       notifier[n] = Alerts!Idle
  BY DEF Alerts!Init, Alerts!Announced, Alerts!Offers
<1>3. Settled
  BY <1>2 DEF Alerts!Init, Settled, Served, Alerts!Never, Alerts!Idle
<1>4. OneWriter /\ Once
  BY <1>2 DEF Alerts!Init, OneWriter, Once, Alerts!Idle
<1>5. QED
  BY <1>1, <1>3, <1>4 DEF AlertsInv

\* Every step of the digests keeps the invariant.
LEMMA AlertsStep ==
    ASSUME AlertsInv, [Alerts!Next]_alertVars
    PROVE  AlertsInv'
<1>1. Alerts!TypeOK'
  BY TypeInductive DEF AlertsInv
<1>2. Settled'
  BY WriterSettles, NotifySettles DEF AlertsInv, Alerts!Next
<1>3. overlapped' \/ stopped' \/ (OneWriter' /\ Once')
  BY OnceStep DEF AlertsInv
<1>4. QED
  BY <1>1, <1>2, <1>3 DEF AlertsInv

\* The invariant is inductive.
THEOREM AlertsInvariant == MCSpec => []AlertsInv
<1>1. MCInit => AlertsInv
  BY AlertsBegin DEF MCInit
<1>2. AlertsInv /\ [MCNext]_mcVars => AlertsInv'
  BY AlertsStep DEF MCNext, mcVars
<1>3. QED
  BY <1>1, <1>2, SpecSafety, PTL

\* For any number of requests to notify at once, of offers inserted, closed and
\* touched meanwhile, and of saves of the profile: no offer is in two digests unless
\* two writers had a copy of the row or a request stopped before its stamp, and no
\* offer is lost but for the cases the code gives up.
THEOREM AnnouncedOnce == MCSpec => []EachAnnouncedOnce
<1>1. AlertsInv => EachAnnouncedOnce
  BY DEF AlertsInv, Once, Settled, Served, EachAnnouncedOnce, Alerts!EachAnnouncedOnce
<1>2. QED
  BY <1>1, AlertsInvariant, PTL

-----------------------------------------------------------------------------
(***************************************************************************)
(* The seeding: what byBoard keeps of the hits.                            *)
(***************************************************************************)
\* What byBoard makes of what it kept so far and the next hit.
Kept(kept, hit) ==
    LET of == {k \in kept : Seed!SameBoard(k, hit)}
    IN IF of = {} \/ (hit.token[2] = "slug" /\ \A k \in of : k.token[2] # "slug")
       THEN (kept \ of) \union {hit} ELSE kept

\* g goes through the hits whose places are in each set, the last one last.
Last(s) == CHOOSE x \in s : \A y \in s : x >= y
Merges(g, found) ==
    g = [s \in SUBSET DOMAIN found |->
            IF s = {} THEN {} ELSE Kept(g[s \ {Last(s)}], found[Last(s)])]

\* What byBoard makes of all the hits is what such a function makes of all their places.
LEMMA ByBoardMerges ==
    ASSUME NEW found, NEW g, Merges(g, found)
    PROVE  \E h : Merges(h, found) /\ Seed!ByBoard(found) = h[DOMAIN found]
<1> DEFINE it == CHOOSE h : Merges(h, found)
<1>1. Merges(it, found)
  OBVIOUS
<1>2. Seed!ByBoard(found) = it[DOMAIN found]
  BY DEF Seed!ByBoard, Seed!FoldLeft, Seed!MapThenFoldSet, Merges, Kept, Last, Seed!Max
<1>3. QED
  BY <1>1, <1>2
-----------------------------------------------------------------------------
(***************************************************************************)
(* The boards that are confirmed.                                          *)
(***************************************************************************)
\* A set of numbers that is not empty has a least one.
LEMMA LeastNumber ==
    ASSUME NEW S \in SUBSET Nat, S # {}
    PROVE \E x \in S : \A y \in S : x =< y
<1> DEFINE Less == {ss \in Nat \X Nat : ss[1] < ss[2]}
<1>1. IsWellFoundedOn(Less, Nat)
  BY NatLessThanWellFounded, Zenon DEF OpToRel
<1>2. PICK x \in S : \A y \in S : <<y, x>> \notin Less
  <2> HIDE DEF Less
  <2>1. QED
    BY <1>1, WFMin
<1>3. ASSUME NEW y \in S
      PROVE x =< y
  <2>1. x \in Nat /\ y \in Nat /\ ~(y < x)
    BY <1>2
  <2>2. QED
    BY <2>1
<1>4. QED
  BY <1>3

\* The last place of a set is one of it, and the rest is smaller by one.
LEMMA RestIsSmaller ==
    ASSUME NEW n \in Nat, NEW s \in SUBSET (1 .. n), s # {}
    PROVE /\ Last(s) \in s /\ s \ {Last(s)} \in SUBSET (1 .. n)
          /\ Cardinality(s) \in Nat /\ Cardinality(s \ {Last(s)}) = Cardinality(s) - 1
<1> DEFINE Left == {n - x : x \in s}
<1>0. IsFiniteSet(1 .. n)
  BY FS_Interval
<1>1. Left \in SUBSET Nat /\ Left # {}
  <2>1. \A x \in s : n - x \in Nat
    OBVIOUS
  <2>2. PICK x : x \in s
    OBVIOUS
  <2>3. QED
    BY <2>1, <2>2
<1>2. PICK m \in Left : \A y \in Left : m =< y
  <2> HIDE DEF Left
  <2>1. QED
    BY <1>1, LeastNumber
<1>3. PICK x \in s : m = n - x
  BY <1>2
<1>4. ASSUME NEW y \in s
      PROVE  x >= y
  <2>1. n - x =< n - y
    BY <1>2, <1>3
  <2>2. x \in Int /\ y \in Int
    OBVIOUS
  <2>3. QED
    BY <2>1, <2>2
<1>5. Last(s) \in s
  BY <1>4 DEF Last
<1>6. IsFiniteSet(s)
  BY <1>0, FS_Subset
<1>7. QED
  BY <1>5, <1>6, FS_CardinalityType, FS_RemoveElement

\* There is such a function: one that is right of the sets of up to m places gives one that
\* is right of those of up to m + 1.
LEMMA MergesExist ==
    ASSUME NEW n \in Nat, NEW found, DOMAIN found = 1 .. n
    PROVE \E g : Merges(g, found)
<1> DEFINE S == 1 .. n
           Of(g, s) == IF s = {} THEN {} ELSE Kept(g[s \ {Last(s)}], found[Last(s)])
           Right(g, m) == \A s \in SUBSET S : Cardinality(s) <= m => g[s] = Of(g, s)
           Bad == {m \in Nat : ~\E g : Right(g, m)}
<1>0. IsFiniteSet(S)
  BY FS_Interval
<1>1. 0 \notin Bad
  <2> DEFINE g == [s \in SUBSET S |-> {}]
  <2>1. ASSUME NEW s \in SUBSET S, Cardinality(s) <= 0
        PROVE s = {}
    <3>1. IsFiniteSet(s) /\ Cardinality(s) \in Nat
      BY <1>0, FS_Subset, FS_CardinalityType
    <3>2. Cardinality(s) = 0
      BY <2>1, <3>1
    <3>3. QED
      BY <3>1, <3>2, FS_EmptySet
  <2>2. Right(g, 0)
    BY <2>1
  <2>3. QED
    BY <2>2
<1>2. ASSUME NEW m \in Nat, m \notin Bad
      PROVE m + 1 \notin Bad
  <2>1. PICK g : Right(g, m)
    BY <1>2
  <2> DEFINE h == [s \in SUBSET S |-> Of(g, s)]
  <2>2. ASSUME NEW s \in SUBSET S, Cardinality(s) <= m + 1
        PROVE h[s] = Of(h, s)
    <3>1. CASE s = {}
      BY <3>1
    <3>2. CASE s # {}
      <4>1. s \ {Last(s)} \in SUBSET S /\ Cardinality(s \ {Last(s)}) <= m
        BY <2>2, <3>2, RestIsSmaller
      <4>2. g[s \ {Last(s)}] = h[s \ {Last(s)}]
        BY <2>1, <4>1
      <4>3. h[s] = Kept(g[s \ {Last(s)}], found[Last(s)])
        BY <3>2
      <4> HIDE DEF h
      <4>4. QED
        BY <3>2, <4>2, <4>3
    <3>3. QED
      BY <3>1, <3>2
  <2> HIDE DEF h
  <2>3. Right(h, m + 1)
    BY <2>2
  <2>4. QED
    BY <2>3
<1>3. Bad = {}
  <2>1. SUFFICES ASSUME Bad # {} PROVE FALSE
    OBVIOUS
  <2>2. PICK m \in Bad : \A k \in Bad : m =< k
    <3> HIDE DEF Bad
    <3>1. Bad \in SUBSET Nat
      BY DEF Bad
    <3>2. QED
      BY <2>1, <3>1, LeastNumber
  <2>3. m \in Nat /\ m # 0
    BY <1>1
  <2>4. m - 1 \in Nat /\ m - 1 \notin Bad /\ (m - 1) + 1 = m
    <3> HIDE DEF Bad
    <3>1. QED
      BY <2>2, <2>3
  <2> HIDE DEF Bad
  <2>5. QED
    BY <1>2, <2>4
<1>4. PICK g : Right(g, Cardinality(S))
  BY <1>0, <1>3, FS_CardinalityType
<1> DEFINE h == [s \in SUBSET S |-> g[s]]
<1>5. ASSUME NEW s \in SUBSET S
      PROVE h[s] = Of(h, s)
  <2>1. Cardinality(s) <= Cardinality(S)
    BY <1>0, FS_Subset
  <2>2. g[s] = Of(g, s)
    BY <1>4, <2>1
  <2>3. QED
    BY <2>2, RestIsSmaller
<1>6. Merges(h, found)
  BY <1>5 DEF Merges
<1>7. QED
  BY <1>6

\* A hit that is kept for another is of the same board, and lowercase if the other is.
Covers(k, h) == Seed!SameBoard(h, k) /\ (h.token[2] = "slug" => k.token[2] = "slug")

\* No two hits that are kept are of one board.
OneEach(kept) == \A h, k \in kept : Seed!SameBoard(h, k) => h = k

\* One more hit is kept or covered, and covers what it replaces.
LEMMA KeptCovers ==
    ASSUME NEW kept, OneEach(kept), NEW hit
    PROVE  /\ Kept(kept, hit) \subseteq kept \union {hit}
           /\ \A h \in kept \union {hit} : \E k \in Kept(kept, hit) : Covers(k, h)
           /\ OneEach(Kept(kept, hit))
<1> DEFINE of == {k \in kept : Seed!SameBoard(k, hit)}
<1>1. CASE of = {} \/ (hit.token[2] = "slug" /\ \A k \in of : k.token[2] # "slug")
  <2>1. Kept(kept, hit) = (kept \ of) \union {hit}
    BY <1>1 DEF Kept
  <2>2. \A h \in kept \union {hit} : \E k \in (kept \ of) \union {hit} : Covers(k, h)
    BY <1>1 DEF Covers, Seed!SameBoard
  <2>3. OneEach((kept \ of) \union {hit})
    BY DEF OneEach, Seed!SameBoard
  <2>4. QED
    BY <2>1, <2>2, <2>3
<1>2. CASE ~(of = {} \/ (hit.token[2] = "slug" /\ \A k \in of : k.token[2] # "slug"))
  <2>1. Kept(kept, hit) = kept
    BY <1>2 DEF Kept
  <2>2. PICK k \in of : hit.token[2] = "slug" => k.token[2] = "slug"
    BY <1>2
  <2>3. \A h \in kept \union {hit} : \E j \in kept : Covers(j, h)
    BY <2>2 DEF Covers, Seed!SameBoard
  <2>4. QED
    BY <2>1, <2>3
<1>3. QED
  BY <1>1, <1>2

\* byBoard keeps hits that were found, one of each board, and covers all of them.
LEMMA ByBoardCovers ==
    ASSUME NEW n \in Nat, NEW found, DOMAIN found = 1 .. n
    PROVE  /\ Seed!ByBoard(found) \subseteq {found[i] : i \in 1 .. n}
           /\ \A i \in 1 .. n : \E k \in Seed!ByBoard(found) : Covers(k, found[i])
           /\ OneEach(Seed!ByBoard(found))
<1>0. IsFiniteSet(1 .. n)
  BY FS_Interval
<1>1. PICK g : Merges(g, found) /\ Seed!ByBoard(found) = g[1 .. n]
  BY MergesExist, ByBoardMerges
<1> DEFINE Good(s) == /\ g[s] \subseteq {found[i] : i \in s}
                      /\ \A i \in s : \E k \in g[s] : Covers(k, found[i])
                      /\ OneEach(g[s])
           Bad == {m \in Nat : \E s \in SUBSET (1 .. n) : Cardinality(s) = m /\ ~Good(s)}
<1>2. ASSUME NEW m \in Bad
      PROVE  \E k \in Bad : ~(m =< k)
  <2>1. PICK s \in SUBSET (1 .. n) : Cardinality(s) = m /\ ~Good(s)
    BY <1>2
  <2>2. s # {}
    <3>1. g[{}] = {}
      BY <1>1 DEF Merges
    <3>2. Good({})
      BY <3>1 DEF OneEach
    <3>3. QED
      BY <2>1, <3>2
  <2> DEFINE t == s \ {Last(s)}
  <2>3. /\ Last(s) \in s /\ t \in SUBSET (1 .. n)
        /\ Cardinality(s) \in Nat /\ Cardinality(t) = Cardinality(s) - 1
    BY <2>2, RestIsSmaller
  <2>4. ~Good(t)
    <3>1. SUFFICES ASSUME Good(t) PROVE Good(s)
      BY <2>1
    <3>2. g[s] = Kept(g[t], found[Last(s)])
      BY <1>1, <2>2 DEF Merges
    <3>3. s = t \union {Last(s)}
      BY <2>3
    <3>4. OneEach(g[t])
      BY <3>1
    <3> DEFINE l == Last(s)
    <3> HIDE DEF t, l
    <3>5. /\ g[s] \subseteq g[t] \union {found[l]}
          /\ \A h \in g[t] \union {found[l]} : \E k \in g[s] : Covers(k, h)
          /\ OneEach(g[s])
      BY <3>2, <3>4, KeptCovers DEF l
    <3>6. s = t \union {l}
      BY <3>3 DEF l
    <3>7. g[s] \subseteq {found[i] : i \in s}
      BY <3>1, <3>5, <3>6
    <3>8. ASSUME NEW i \in s
          PROVE  \E k \in g[s] : Covers(k, found[i])
      <4>1. CASE i = l
        BY <3>5, <4>1
      <4>2. CASE i \in t
        <5>1. PICK j \in g[t] : Covers(j, found[i])
          BY <3>1, <4>2
        <5>2. PICK k \in g[s] : Covers(k, j)
          BY <3>5
        <5>3. Covers(k, found[i])
          BY <5>1, <5>2 DEF Covers, Seed!SameBoard
        <5>4. QED
          BY <5>3
      <4>3. QED
        BY <3>6, <4>1, <4>2
    <3>9. QED
      BY <3>5, <3>7, <3>8
  <2> HIDE DEF t, Good
  <2>5. Cardinality(t) \in Bad
    <3>1. Cardinality(t) \in Nat
      BY <1>0, <2>3, FS_Subset, FS_CardinalityType
    <3>2. QED
      BY <2>3, <2>4, <3>1
  <2>6. QED
    BY <2>1, <2>3, <2>5
<1>3. Bad = {}
  <2> HIDE DEF Bad
  <2>1. Bad \in SUBSET Nat
    BY DEF Bad
  <2>2. QED
    BY <1>2, <2>1, LeastNumber
<1>4. Cardinality(1 .. n) \in Nat
  BY <1>0, FS_CardinalityType
<1>5. Good(1 .. n)
  <2> HIDE DEF Good
  <2>1. QED
    BY <1>3, <1>4
<1>6. QED
  BY <1>1, <1>5

-----------------------------------------------------------------------------
(***************************************************************************)
(* The runs and what they know.                                            *)
(***************************************************************************)
States == [at : {"idle", "probe", "find", "save"}, todo : SUBSET Seed!Names,
           found : Seq(Seed!Hits), id : Nat, row : Seed!Rows \union {Nothing}, stale : BOOLEAN]

\* A run that has something to register knows what.
Busied(s) == s.at \in {"find", "save"} => s.found # <<>>

\* The company a run found is as it was read, unless it was written since.
Looked(r) ==
    run[r].at = "save" /\ run[r].id # 0 =>
        /\ run[r].id \in DOMAIN companies /\ run[r].row \in Seed!Rows
        /\ run[r].stale \/ companies[run[r].id] = run[r].row

\* One company a name, however it is spelled.
OneAName == \A i, j \in DOMAIN companies : i # j => companies[i].name[1] # companies[j].name[1]

SeedTypes ==
    /\ companies \in Seq(Seed!Rows) /\ adding \in Seed!Names \union {Nothing} /\ edits \in Nat
    /\ run \in [Runs -> States]
    /\ \A r \in Runs : run[r].id <= Len(companies) /\ Busied(run[r])

SeedInv == SeedTypes /\ OneAName /\ \A r \in Runs : Looked(r)

\* The invariant carries the types.
LEMMA SeedTypeCorrect == SeedInv => Seed!TypeOK
BY DEF SeedInv, SeedTypes, Seed!TypeOK, States

\* One more at the end of a sequence.
LEMMA OneMore ==
    ASSUME NEW S, NEW t \in Seq(S), NEW e \in S
    PROVE  /\ Append(t, e) \in Seq(S) /\ Len(Append(t, e)) = Len(t) + 1
           /\ DOMAIN Append(t, e) = 1 .. (Len(t) + 1) /\ DOMAIN t = 1 .. Len(t) /\ Len(t) \in Nat
           /\ Append(t, e)[Len(t) + 1] = e
           /\ \A i \in DOMAIN t : Append(t, e)[i] = t[i]
           /\ \A i \in DOMAIN Append(t, e) : i \in DOMAIN t \/ i = Len(t) + 1
OBVIOUS

\* What a run has before and after it runs.
LEMMA IdleRun == Seed!Idle \in States /\ Seed!Idle.at = "idle" /\ Seed!Idle.id = 0
BY DEF Seed!Idle, States

\* Candidates are names.
LEMMA CandidatesAreNames == {<<acme, "slug">>, <<acme, "odd">>} \subseteq Seed!Names
BY SeedAssumption DEF Seed!Names

\* The first of what a run found is one of its hits, and is registered under a name of it.
LEMMA EntryType ==
    ASSUME SeedTypes, NEW r \in Runs, run[r].found # <<>>
    PROVE  /\ Seed!Entry(r) \in Seed!Hits /\ Seed!Named(r) \in Seed!Names
           /\ Tail(run[r].found) \in Seq(Seed!Hits)
<1>1. run[r].found \in Seq(Seed!Hits)
  BY DEF SeedTypes, States
<1>2. Seed!Entry(r) \in Seed!Hits /\ Tail(run[r].found) \in Seq(Seed!Hits)
  BY <1>1 DEF Seed!Entry
<1>3. Seed!Entry(r).token \in Seed!Names
  BY <1>2 DEF Seed!Hits
<1>4. QED
  BY <1>2, <1>3 DEF Seed!Named, Seed!Spelled, Seed!Names

\* An order of a set lists its members, each once.
LEMMA OrdersAre ==
    ASSUME NEW S, NEW f \in Seed!SetToSeqs(S)
    PROVE  /\ f \in [1 .. Cardinality(S) -> S]
           /\ \A i, j \in 1 .. Cardinality(S) : i # j => f[i] # f[j]
<1> DEFINE D == 1 .. Cardinality(S)
<1>1. Seed!Cardinality(S) = Cardinality(S)
  BY DEF Seed!Cardinality, Cardinality, Seed!IsFiniteSet, IsFiniteSet
<1>2. f \in {x \in [D -> S] : \A i, j \in D : i # j => x[i] # x[j]}
  BY <1>1 DEF Seed!SetToSeqs
<1> HIDE DEF D
<1>3. f \in [D -> S] /\ \A i, j \in D : i # j => f[i] # f[j]
  BY <1>2
<1>4. QED
  BY <1>3 DEF D

\* The hits a run confirms are those of byBoard, in some order.
LEMMA ConfirmCovers ==
    ASSUME SeedTypes, NEW r \in Runs, Seed!Confirm(r)
    PROVE  /\ run'[r] \in States /\ run'[r].found # <<>> /\ run'[r].at = "find"
           /\ run'[r].id = run[r].id
           /\ \A x \in Runs \ {r} : run'[x] = run[x]
           /\ \A h \in Seed!ToSet(run[r].found) : \E k \in Seed!ToSet(run'[r].found) : Covers(k, h)
           /\ \A i, j \in DOMAIN run'[r].found :
                 i # j => ~Seed!SameBoard(run'[r].found[i], run'[r].found[j])
<1> DEFINE found == run[r].found
           n == Len(found)
           Board == Seed!ByBoard(found)
<1>1. found \in Seq(Seed!Hits) /\ run[r] \in States /\ found # <<>>
  BY DEF SeedTypes, States, Seed!Confirm
<1>2. n \in Nat /\ DOMAIN found = 1 .. n /\ \A i \in 1 .. n : found[i] \in Seed!Hits
  BY <1>1
<1>3. PICK hits \in Seed!SetToSeqs(Board) :
          run' = [run EXCEPT ![r].at = "find", ![r].found = hits]
  BY DEF Seed!Confirm
<1> HIDE DEF n
<1>4. /\ Board \subseteq {found[i] : i \in 1 .. n}
      /\ \A i \in 1 .. n : \E k \in Board : Covers(k, found[i])
      /\ OneEach(Board)
  BY <1>2, ByBoardCovers
<1>5. IsFiniteSet(Board)
  <2> DEFINE All == {found[i] : i \in 1 .. n}
             f == [i \in 1 .. n |-> found[i]]
  <2>1. f \in Surjection(1 .. n, All)
    BY DEF Surjection
  <2>2. IsFiniteSet(1 .. n)
    BY <1>2, FS_Interval
  <2>3. IsFiniteSet(All)
    <3> HIDE DEF All, f
    <3>1. QED
      BY <2>1, <2>2, FS_Surjection
  <2>4. QED
    BY <1>4, <2>3, FS_Subset
<1> HIDE DEF Board, found
<1> DEFINE c == Cardinality(Board)
<1>6. c \in Nat
  BY <1>5, FS_CardinalityType
<1>7. hits \in [1 .. c -> Board] /\ \A i, j \in 1 .. c : i # j => hits[i] # hits[j]
  BY <1>3, OrdersAre
<1>8. hits \in Injection(1 .. c, Board)
  BY <1>7 DEF Injection, IsInjective
<1>9. IsFiniteSet(1 .. c) /\ Cardinality(1 .. c) = c
  <2> HIDE DEF c
  <2>1. 1 > c \/ c >= 1
    BY <1>6
  <2>2. IsFiniteSet(1 .. c)
    BY <1>6, FS_Interval
  <2>3. Cardinality(1 .. c) = IF 1 > c THEN 0 ELSE c - 1 + 1
    BY <1>6, FS_Interval
  <2>4. QED
    BY <1>6, <2>2, <2>3
<1>10. hits \in Surjection(1 .. c, Board)
  BY <1>5, <1>8, <1>9, FS_Injection
<1>11. \A k \in Board : \E i \in 1 .. c : hits[i] = k
  BY <1>10 DEF Surjection
<1> HIDE DEF c
<1>12. Board \subseteq Seed!Hits
  BY <1>2, <1>4
<1>13. hits \in Seq(Seed!Hits) /\ DOMAIN hits = 1 .. c
  BY <1>6, <1>7, <1>12
<1>14. run'[r] = [run[r] EXCEPT !.at = "find", !.found = hits] /\ \A x \in Runs \ {r} : run'[x]
       = run[x]
  BY <1>3 DEF SeedTypes
<1>15. run'[r] \in States /\ run'[r].found = hits /\ run'[r].at = "find" /\ run'[r].id = run[r].id
  BY <1>1, <1>13, <1>14 DEF States
<1>16. ASSUME NEW h \in Seed!ToSet(run[r].found)
       PROVE  \E k \in Seed!ToSet(hits) : Covers(k, h)
  <2>1. PICK i \in 1 .. n : h = found[i]
    BY <1>2 DEF Seed!ToSet, found
  <2>2. PICK k \in Board : Covers(k, h)
    BY <1>4, <2>1
  <2>3. k \in Seed!ToSet(hits)
    BY <1>11, <1>13 DEF Seed!ToSet
  <2>4. QED
    BY <2>2, <2>3
<1>17. \A i, j \in DOMAIN hits : i # j => ~Seed!SameBoard(hits[i], hits[j])
  BY <1>4, <1>7, <1>13 DEF OneEach
<1>18. hits # <<>>
  <2>1. 1 \in 1 .. n
    BY <1>1, <1>2 DEF n, found
  <2>2. PICK k \in Board : Covers(k, found[1])
    BY <1>4, <2>1
  <2>3. PICK i \in 1 .. c : hits[i] = k
    BY <1>11
  <2>4. Len(hits) = c /\ c # 0
    BY <1>6, <1>13, <2>3
  <2>5. QED
    BY <1>6, <2>4
<1>19. QED
  BY <1>14, <1>15, <1>16, <1>17, <1>18

\* A company is added, or its row written: never under a name another has.
Added(firm) == companies' = Append(companies, firm) /\ ~Seed!Clashes(firm.name, 0)
Written(id, firm) ==
    /\ id \in DOMAIN companies
    /\ companies' = [companies EXCEPT ![id] = firm] /\ ~Seed!Clashes(firm.name, id)

\* One that is added leaves the others and has a name of its own.
LEMMA AddedKeeps ==
    ASSUME companies \in Seq(Seed!Rows), OneAName, NEW firm \in Seed!Rows, Added(firm)
    PROVE  /\ companies' \in Seq(Seed!Rows) /\ Len(companies') = Len(companies) + 1
           /\ \A i \in DOMAIN companies : i \in DOMAIN companies' /\ companies'[i] = companies[i]
           /\ OneAName'
<1> DEFINE new == Len(companies) + 1
<1>1. /\ companies' \in Seq(Seed!Rows) /\ Len(companies') = new /\ new \in Nat
      /\ DOMAIN companies' = 1 .. new /\ DOMAIN companies = 1 .. Len(companies)
      /\ Len(companies) \in Nat /\ companies'[new] = firm
      /\ \A i \in DOMAIN companies : companies'[i] = companies[i]
      /\ \A i \in DOMAIN companies' : i \in DOMAIN companies \/ i = new
  BY OneMore DEF Added
<1>2. \A i \in DOMAIN companies : companies[i].name[1] # firm.name[1]
  <2>1. 0 \notin DOMAIN companies
    BY <1>1
  <2>2. QED
    BY <2>1 DEF Added, Seed!Clashes
<1> HIDE DEF new
<1>3. ASSUME NEW i \in DOMAIN companies', NEW j \in DOMAIN companies', i # j
      PROVE  companies'[i].name[1] # companies'[j].name[1]
  <2>1. CASE i \in DOMAIN companies /\ j \in DOMAIN companies
    BY Zenon, <1>1, <1>3, <2>1 DEF OneAName
  <2>2. CASE i = new /\ j \in DOMAIN companies
    BY Zenon, <1>1, <1>2, <2>2
  <2>3. CASE j = new /\ i \in DOMAIN companies
    BY Zenon, <1>1, <1>2, <2>3
  <2>4. QED
    BY <1>1, <1>3, <2>1, <2>2, <2>3
<1>4. \A i \in DOMAIN companies : i \in DOMAIN companies'
  BY <1>1 DEF new
<1>5. QED
  BY <1>1, <1>3, <1>4 DEF OneAName, new

\* One that is written leaves the others and keeps a name of its own.
LEMMA WrittenKeeps ==
    ASSUME companies \in Seq(Seed!Rows), OneAName, NEW id, NEW firm \in Seed!Rows, Written(id, firm)
    PROVE  /\ companies' \in Seq(Seed!Rows) /\ Len(companies') = Len(companies)
           /\ DOMAIN companies' = DOMAIN companies /\ companies'[id] = firm
           /\ \A i \in DOMAIN companies \ {id} : companies'[i] = companies[i]
           /\ OneAName'
<1>1. /\ companies' \in Seq(Seed!Rows) /\ Len(companies') = Len(companies)
      /\ DOMAIN companies' = DOMAIN companies /\ companies'[id] = firm
      /\ \A i \in DOMAIN companies \ {id} : companies'[i] = companies[i]
  BY DEF Written
<1>2. \A i \in DOMAIN companies \ {id} : companies[i].name[1] # firm.name[1]
  BY DEF Written, Seed!Clashes
<1>3. ASSUME NEW i \in DOMAIN companies, NEW j \in DOMAIN companies, i # j
      PROVE  companies'[i].name[1] # companies'[j].name[1]
  <2>1. CASE i # id /\ j # id
    BY Zenon, <1>1, <1>3, <2>1 DEF OneAName
  <2>2. CASE i = id
    BY Zenon, <1>1, <1>2, <1>3, <2>2
  <2>3. CASE j = id
    BY Zenon, <1>1, <1>2, <1>3, <2>3
  <2>4. QED
    BY <2>1, <2>2, <2>3
<1>4. QED
  BY <1>1, <1>3, Zenon DEF OneAName

\* A run whose company is written by another knows that it is.
LEMMA OvertakenKnows ==
    ASSUME NEW s \in States, NEW id
    PROVE  LET o == Seed!Overtaken(s, id)
           IN /\ o \in States /\ o.at = s.at /\ o.id = s.id /\ o.row = s.row /\ o.found = s.found
              /\ s.at = "save" /\ s.id = id => o.stale
              /\ s.stale => o.stale
BY DEF Seed!Overtaken, States

\* What a run looked up is kept by steps that only write others, or that it is told of.
LEMMA LookKept ==
    ASSUME SeedInv, NEW x \in Runs,
           \/ run'[x] = run[x] /\ companies' = companies
           \/ run'[x] = run[x] /\ \E firm \in Seed!Rows : Added(firm)
           \/ \E id : /\ run'[x] = Seed!Overtaken(run[x], id)
                       /\ \E firm \in Seed!Rows : Written(id, firm)
    PROVE  /\ Looked(x)' /\ run'[x] \in States /\ Busied(run'[x])
           /\ run'[x].at = run[x].at /\ run'[x].id <= Len(companies')
<1>1. /\ companies \in Seq(Seed!Rows) /\ OneAName /\ Looked(x) /\ run[x] \in States
      /\ run[x].id <= Len(companies) /\ Busied(run[x]) /\ Len(companies) \in Nat
      /\ run[x].id \in Nat
  BY DEF SeedInv, SeedTypes, States
<1>2. CASE run'[x] = run[x] /\ companies' = companies
  BY <1>1, <1>2 DEF Looked
<1>3. ASSUME run'[x] = run[x], NEW firm \in Seed!Rows, Added(firm)
      PROVE  /\ Looked(x)' /\ run'[x] \in States /\ Busied(run'[x])
             /\ run'[x].at = run[x].at /\ run'[x].id <= Len(companies')
  <2>1. /\ Len(companies') = Len(companies) + 1
        /\ \A i \in DOMAIN companies : i \in DOMAIN companies' /\ companies'[i] = companies[i]
    BY <1>1, <1>3, AddedKeeps
  <2>2. Looked(x)'
    BY <1>1, <1>3, <2>1 DEF Looked
  <2>3. run'[x].id <= Len(companies')
    BY <1>1, <1>3, <2>1
  <2>4. QED
    BY <1>1, <1>3, <2>2, <2>3
<1>4. ASSUME NEW id, run'[x] = Seed!Overtaken(run[x], id), NEW firm \in Seed!Rows, Written(id, firm)
      PROVE  /\ Looked(x)' /\ run'[x] \in States /\ Busied(run'[x])
             /\ run'[x].at = run[x].at /\ run'[x].id <= Len(companies')
  <2>1. /\ Len(companies') = Len(companies) /\ DOMAIN companies' = DOMAIN companies
        /\ \A i \in DOMAIN companies \ {id} : companies'[i] = companies[i]
    BY <1>1, <1>4, WrittenKeeps
  <2>2. /\ run'[x] \in States /\ run'[x].at = run[x].at /\ run'[x].id = run[x].id
        /\ run'[x].row = run[x].row /\ run'[x].found = run[x].found
        /\ run[x].at = "save" /\ run[x].id = id => run'[x].stale
        /\ run[x].stale => run'[x].stale
    BY <1>1, <1>4, OvertakenKnows
  <2>3. Looked(x)'
    BY <1>1, <2>1, <2>2 DEF Looked
  <2>4. QED
    BY <1>1, <2>1, <2>2, <2>3 DEF Busied
<1>5. QED
  BY <1>2, <1>3, <1>4

\* A step of a run that writes nothing leaves what the others looked up.
LEMMA RunMoves ==
    ASSUME SeedInv, UNCHANGED <<companies, adding, edits>>,
           NEW r \in Runs, NEW s \in States, run' = [run EXCEPT ![r] = s],
           s.id <= Len(companies), Busied(s), Looked(r)'
    PROVE  SeedInv'
<1>1. run \in [Runs -> States] /\ run' \in [Runs -> States] /\ run'[r] = s
      /\ \A x \in Runs \ {r} : run'[x] = run[x]
  BY DEF SeedInv, SeedTypes
<1>2. SeedTypes'
  BY <1>1 DEF SeedInv, SeedTypes
<1>3. ASSUME NEW x \in Runs \ {r}
      PROVE  Looked(x)'
  BY <1>1, <1>3, LookKept
<1>4. OneAName'
  BY DEF SeedInv, OneAName
<1>5. QED
  BY <1>2, <1>3, <1>4 DEF SeedInv

\* A run that looks nothing up has nothing that could be out of date.
LEMMA NotLooking ==
    ASSUME NEW r \in Runs, run[r].at # "save"
    PROVE  Looked(r)
BY DEF Looked

\* A run that only probes or stops keeps the invariant.
LEMMA ProbesKeep ==
    ASSUME SeedInv, NEW r \in Runs,
           Seed!Start(r) \/ Seed!Probe(r) \/ Seed!Confirm(r) \/ Seed!Empty(r) \/ Seed!Stop(r)
    PROVE  SeedInv'
<1>1. run \in [Runs -> States] /\ run[r].id <= Len(companies) /\ Len(companies) \in Nat
  BY DEF SeedInv, SeedTypes
<1>2. CASE Seed!Empty(r) \/ Seed!Stop(r)
  <2>1. run' = [run EXCEPT ![r] = Seed!Idle] /\ UNCHANGED <<companies, adding, edits>>
    BY <1>2 DEF Seed!Empty, Seed!Stop
  <2>2. run'[r] = Seed!Idle
    BY <1>1, <2>1
  <2>3. Looked(r)'
    BY <2>2, IdleRun DEF Looked
  <2> DEFINE s == Seed!Idle
  <2>4. s \in States /\ s.id <= Len(companies) /\ s.at \notin {"find", "save"}
    BY <1>1, IdleRun
  <2> HIDE DEF s
  <2>5. run' = [run EXCEPT ![r] = s]
    BY <2>1 DEF s
  <2>6. QED
    BY <2>1, <2>3, <2>4, <2>5, RunMoves DEF Busied
<1>3. CASE Seed!Start(r)
  <2>1. PICK tokens \in SUBSET {<<acme, "slug">>, <<acme, "odd">>} :
            run' = [run EXCEPT ![r] = [Seed!Idle EXCEPT !.at = "probe", !.todo = tokens]]
    BY <1>3 DEF Seed!Start
  <2> DEFINE s == [Seed!Idle EXCEPT !.at = "probe", !.todo = tokens]
  <2>2. s \in States /\ s.id = 0 /\ s.at = "probe"
    <3>1. tokens \in SUBSET Seed!Names
      BY CandidatesAreNames
    <3>2. QED
      BY <3>1, IdleRun DEF States
  <2> HIDE DEF s
  <2>3. run' = [run EXCEPT ![r] = s] /\ UNCHANGED <<companies, adding, edits>>
    BY <1>3, <2>1 DEF Seed!Start, s
  <2>4. run'[r] = s
    BY <1>1, <2>3
  <2>5. Looked(r)'
    BY <2>2, <2>4 DEF Looked
  <2>6. s.id <= Len(companies) /\ s.at \notin {"find", "save"}
    BY <1>1, <2>2
  <2>7. QED
    BY <2>2, <2>3, <2>5, <2>6, RunMoves DEF Busied
<1>4. CASE Seed!Probe(r)
  <2>1. PICK token \in run[r].todo :
            \/ \E p0 \in Platforms :
                  run' = [run EXCEPT ![r].todo = @ \ {token},
                                     ![r].found = Append(@, [platform |-> p0, token |-> token])]
            \/ run' = [run EXCEPT ![r].todo = @ \ {token}]
    BY <1>4 DEF Seed!Probe
  <2>2. \E s \in States : run' = [run EXCEPT ![r] = s] /\ s.at = "probe" /\ s.id = run[r].id
    <3>1. CASE run' = [run EXCEPT ![r].todo = @ \ {token}]
      <4> DEFINE s == [run[r] EXCEPT !.todo = @ \ {token}]
      <4>1. s \in States /\ s.at = "probe" /\ s.id = run[r].id
        BY <1>1, <1>4 DEF States, Seed!Probe
      <4>2. QED
        BY <1>1, <3>1, <4>1
    <3>2. ASSUME NEW p0 \in Platforms,
                 run' = [run EXCEPT ![r].todo = @ \ {token},
                                    ![r].found = Append(@, [platform |-> p0, token |-> token])]
          PROVE  \E s \in States : run' = [run EXCEPT ![r] = s] /\ s.at = "probe" /\ s.id =
                 run[r].id
      <4> DEFINE hit == [platform |-> p0, token |-> token]
                 s == [run[r] EXCEPT !.todo = @ \ {token}, !.found = Append(@, hit)]
      <4>1. hit \in Seed!Hits
        BY <1>1, <2>1 DEF States, Seed!Hits
      <4>2. Append(run[r].found, hit) \in Seq(Seed!Hits)
        BY <1>1, <4>1 DEF States
      <4>3. run' = [run EXCEPT ![r] = s]
        BY <1>1, <3>2
      <4> HIDE DEF hit
      <4>4. s \in States /\ s.at = "probe" /\ s.id = run[r].id
        BY <1>1, <1>4, <4>2 DEF States, Seed!Probe
      <4>5. QED
        BY <4>3, <4>4
    <3>3. QED
      BY <2>1, <3>1, <3>2
  <2>3. PICK s \in States : run' = [run EXCEPT ![r] = s] /\ s.at = "probe" /\ s.id = run[r].id
    BY <2>2
  <2>4. run'[r] = s /\ UNCHANGED <<companies, adding, edits>>
    BY <1>1, <1>4, <2>3 DEF Seed!Probe
  <2>5. Looked(r)'
    BY <2>3, <2>4 DEF Looked
  <2>6. QED
    BY <1>1, <2>3, <2>4, <2>5, RunMoves DEF Busied
<1>5. CASE Seed!Confirm(r)
  <2>1. /\ run'[r] \in States /\ run'[r].found # <<>> /\ run'[r].at = "find"
        /\ run'[r].id = run[r].id
    BY <1>5, ConfirmCovers DEF SeedInv
  <2>2. PICK hits : run' = [run EXCEPT ![r].at = "find", ![r].found = hits]
    BY <1>5 DEF Seed!Confirm
  <2>3. run' = [run EXCEPT ![r] = run'[r]]
    BY <1>1, <2>2
  <2>4. Looked(r)'
    BY <2>1 DEF Looked
  <2>5. UNCHANGED <<companies, adding, edits>>
    BY <1>5 DEF Seed!Confirm
  <2> DEFINE s == run'[r]
  <2>6. s \in States /\ run' = [run EXCEPT ![r] = s] /\ s.id <= Len(companies) /\ s.found # <<>>
    BY <1>1, <2>1, <2>3
  <2> HIDE DEF s
  <2>7. QED
    BY <2>4, <2>5, <2>6, RunMoves DEF Busied
<1>6. QED
  BY <1>2, <1>3, <1>4, <1>5

\* A run that finds has read the company it found.
LEMMA FindKeeps ==
    ASSUME SeedInv, NEW r \in Runs, Seed!Find(r)
    PROVE  SeedInv'
<1>1. /\ run \in [Runs -> States] /\ run[r].at = "find" /\ run[r].found # <<>>
      /\ UNCHANGED <<companies, adding, edits>> /\ companies \in Seq(Seed!Rows)
  BY DEF SeedInv, SeedTypes, Busied, Seed!Find
<1> DEFINE Saving(i, copy) == [run[r] EXCEPT !.at = "save", !.id = i, !.row = copy]
<1>2. \/ run' = [run EXCEPT ![r] = Saving(0, Nothing)]
      \/ \E i \in DOMAIN companies : run' = [run EXCEPT ![r] = Saving(i, companies[i])]
  <2>1. \A i, copy : [run EXCEPT ![r].at = "save", ![r].id = i, ![r].row = copy]
                        = [run EXCEPT ![r] = Saving(i, copy)]
    BY <1>1
  <2>2. Seed!Like(Seed!Named(r)) \subseteq DOMAIN companies
    BY DEF Seed!Like
  <2>3. QED
    BY ZenonT(60), <2>1, <2>2 DEF Seed!Find
<1>3. ASSUME NEW i \in Nat, NEW copy \in Seed!Rows \union {Nothing},
             run' = [run EXCEPT ![r] = Saving(i, copy)],
             i # 0 => i \in DOMAIN companies /\ companies[i] = copy
      PROVE  SeedInv'
  <2> DEFINE s == Saving(i, copy)
  <2>1. s \in States /\ s.at = "save" /\ s.id = i /\ s.row = copy /\ s.found = run[r].found
    BY <1>1 DEF States
  <2>2. run'[r] = s
    BY <1>1, <1>3
  <2>3. run' = [run EXCEPT ![r] = s]
    BY <1>3
  <2> HIDE DEF s, Saving
  <2>4. i <= Len(companies) /\ (i # 0 => companies[i] \in Seed!Rows)
    BY <1>1, <1>3
  <2>5. Looked(r)'
    BY <1>1, <1>3, <2>1, <2>2, <2>4 DEF Looked
  <2>6. Busied(s) /\ s.id <= Len(companies)
    BY <1>1, <2>1, <2>4 DEF Busied
  <2>7. QED
    BY <1>1, <2>1, <2>3, <2>5, <2>6, RunMoves
<1>4. ASSUME NEW i \in DOMAIN companies, run' = [run EXCEPT ![r] = Saving(i, companies[i])]
      PROVE  SeedInv'
  <2>1. i \in Nat /\ companies[i] \in Seed!Rows
    BY <1>1
  <2> HIDE DEF Saving
  <2>2. QED
    BY <1>3, <1>4, <2>1
<1>5. QED
  <2> HIDE DEF Saving
  <2>1. QED
    BY <1>2, <1>3, <1>4

\* Where a run goes from an entry it has registered.
LEMMA OnwardsType ==
    ASSUME SeedTypes, NEW r \in Runs, run[r].at = "save"
    PROVE  LET s == Seed!Onwards(r)
           IN s \in States /\ s.id = 0 /\ s.at \in {"idle", "find"} /\ Busied(s)
<1>1. run[r].found # <<>> /\ run[r].found \in Seq(Seed!Hits)
  BY DEF SeedTypes, Busied, States
<1> DEFINE found == run[r].found
           s == [Seed!Idle EXCEPT !.at = "find", !.found = Tail(found)]
<1>2. CASE Len(found) = 1
  BY <1>2, IdleRun DEF Seed!Onwards, Busied
<1>3. CASE Len(found) # 1
  <2>1. Tail(found) \in Seq(Seed!Hits) /\ Len(found) \in Nat /\ Len(found) # 0
    BY <1>1
  <2>2. Len(Tail(found)) = Len(found) - 1
    BY <1>1
  <2>3. Tail(found) # <<>>
    <3> HIDE DEF found
    <3>1. Len(<<>>) = 0
      OBVIOUS
    <3>2. QED
      BY <1>3, <2>1, <2>2, <3>1
  <2>4. s \in States /\ s.id = 0 /\ s.at = "find" /\ s.found = Tail(found)
    BY <2>1, IdleRun DEF States
  <2>5. Seed!Onwards(r) = s
    BY <1>3 DEF Seed!Onwards
  <2> HIDE DEF s, found
  <2>6. QED
    BY <2>3, <2>4, <2>5 DEF Busied
<1>4. QED
  BY <1>2, <1>3

\* The others are told of a row that a run wrote, and of nothing else.
Told(r, id) == \A x \in Runs \ {r} : run'[x] = Seed!Overtaken(run[x], id)
Alone(r) == \A x \in Runs \ {r} : run'[x] = run[x]

\* A save leaves the companies, adds one, or writes what it makes of the row it read.
LEMMA SaveWrites ==
    ASSUME SeedInv, NEW r \in Runs, Seed!Save(r)
    PROVE  /\ run[r].at = "save" /\ UNCHANGED <<adding, edits>>
           /\ DOMAIN run' = Runs /\ run' = [x \in Runs |-> run'[x]]
           /\ run'[r] \in States /\ run'[r].id = 0 /\ run'[r].at \in {"idle", "find"}
           /\ Busied(run'[r])
           /\ \/ companies' = companies /\ Alone(r)
              \/ (\E firm \in Seed!Rows : Added(firm)) /\ Alone(r)
              \/ LET firm == Seed!Updated(run[r].row, Seed!Named(r), Seed!Entry(r))
                 IN firm \in Seed!Rows /\ Written(run[r].id, firm) /\ Told(r, run[r].id)
<1> DEFINE id == run[r].id
           firm == IF id = 0 THEN [name |-> Seed!Named(r), url |-> Seed!Entry(r)]
                  ELSE Seed!Updated(run[r].row, Seed!Named(r), Seed!Entry(r))
           To(s) == run' = [x \in Runs |-> IF x = r THEN s ELSE run[x]]
           Tell == run' = [x \in Runs |->
                               IF x = r THEN Seed!Onwards(r)
                               ELSE IF id = 0 THEN run[x] ELSE Seed!Overtaken(run[x], id)]
<1>1. run[r].at = "save" /\ UNCHANGED <<adding, edits>> /\ SeedTypes
  BY DEF Seed!Save, SeedInv
<1>2. \/ (To(Seed!Onwards(r)) \/ To(Seed!Idle)) /\ companies' = companies
      \/ /\ ~Seed!Clashes(firm.name, id) /\ Tell
         /\ companies' = IF id = 0 THEN Append(companies, firm) ELSE [companies EXCEPT ![id] = firm]
  BY Zenon DEF Seed!Save
<1>3. /\ Seed!Onwards(r) \in States /\ Seed!Onwards(r).id = 0
      /\ Seed!Onwards(r).at \in {"idle", "find"} /\ Busied(Seed!Onwards(r))
  BY <1>1, OnwardsType
<1>4. Seed!Idle \in States /\ Seed!Idle.id = 0 /\ Seed!Idle.at = "idle" /\ Busied(Seed!Idle)
  BY IdleRun DEF Busied
<1>5. Seed!Entry(r) \in Seed!Hits /\ Seed!Named(r) \in Seed!Names /\ Looked(r)
  <2>1. run[r].found # <<>>
    BY <1>1 DEF SeedTypes, Busied
  <2>2. QED
    BY <1>1, <2>1, EntryType DEF SeedInv
<1> HIDE DEF firm
<1>6. CASE (To(Seed!Onwards(r)) \/ To(Seed!Idle)) /\ companies' = companies
  BY <1>1, <1>3, <1>4, <1>6 DEF Alone
<1>7. CASE Tell /\ id = 0 /\ companies' = Append(companies, firm) /\ ~Seed!Clashes(firm.name, id)
  <2>1. firm \in Seed!Rows
    BY <1>5, <1>7 DEF firm, Seed!Rows
  <2>2. Added(firm) /\ Alone(r)
    BY <1>7 DEF Added, Alone
  <2>3. DOMAIN run' = Runs /\ run'[r] = Seed!Onwards(r) /\ run' = [x \in Runs |-> run'[x]]
    BY <1>7
  <2>4. QED
    BY <1>1, <1>3, <2>1, <2>2, <2>3
<1>8. CASE /\ Tell /\ id # 0 /\ companies' = [companies EXCEPT ![id] = firm]
           /\ ~Seed!Clashes(firm.name, id)
  <2>1. id \in DOMAIN companies /\ run[r].row \in Seed!Rows
    BY <1>1, <1>5, <1>8 DEF Looked
  <2>2. firm = Seed!Updated(run[r].row, Seed!Named(r), Seed!Entry(r))
    BY <1>8 DEF firm
  <2>3. firm \in Seed!Rows
    BY <1>5, <2>1, <2>2 DEF Seed!Updated, Seed!KeepsUrl, Seed!Rows
  <2>4. Written(id, firm) /\ Told(r, id)
    BY <1>8, <2>1 DEF Written, Told
  <2>5. DOMAIN run' = Runs /\ run'[r] = Seed!Onwards(r) /\ run' = [x \in Runs |-> run'[x]]
    BY <1>8
  <2>6. QED
    BY <1>1, <1>3, <2>2, <2>3, <2>4, <2>5
<1>9. QED
  BY <1>2, <1>6, <1>7, <1>8

\* A save keeps the invariant.
LEMMA SaveKeeps ==
    ASSUME SeedInv, NEW r \in Runs, Seed!Save(r)
    PROVE  SeedInv'
<1>1. /\ UNCHANGED <<adding, edits>> /\ run' = [x \in Runs |-> run'[x]]
      /\ run'[r] \in States /\ run'[r].id = 0 /\ run'[r].at \in {"idle", "find"}
      /\ Busied(run'[r])
      /\ \/ companies' = companies /\ Alone(r)
         \/ (\E firm \in Seed!Rows : Added(firm)) /\ Alone(r)
         \/ \E firm \in Seed!Rows : Written(run[r].id, firm) /\ Told(r, run[r].id)
  BY SaveWrites
<1>2. companies \in Seq(Seed!Rows) /\ OneAName
  BY DEF SeedInv, SeedTypes
<1>3. companies' \in Seq(Seed!Rows) /\ OneAName'
  <2>1. CASE companies' = companies
    BY <1>2, <2>1 DEF OneAName
  <2>2. QED
    BY <1>1, <1>2, <2>1, AddedKeeps, WrittenKeeps
<1>4. ASSUME NEW x \in Runs \ {r}
      PROVE  Looked(x)' /\ run'[x] \in States /\ Busied(run'[x]) /\ run'[x].id <= Len(companies')
  BY <1>1, LookKept DEF Alone, Told
<1>5. Looked(r)'
  BY <1>1 DEF Looked
<1>6. run'[r].id <= Len(companies') /\ run' \in [Runs -> States]
  BY <1>1, <1>3, <1>4
<1>7. SeedTypes'
  BY <1>1, <1>3, <1>4, <1>6 DEF SeedInv, SeedTypes
<1>8. QED
  BY <1>3, <1>4, <1>5, <1>7 DEF SeedInv

\* Somebody's edit writes a row, and the runs that read it are told.
LEMMA EditWrites ==
    ASSUME SeedInv, Seed!Edit
    PROVE  /\ \E id \in DOMAIN companies, firm \in Seed!Rows :
                Written(id, firm) /\ run' = [r \in Runs |-> Seed!Overtaken(run[r], id)]
           /\ UNCHANGED adding /\ edits' = edits + 1
<1>0. PICK i \in DOMAIN companies, name \in Seed!Names : \E url \in {companies[i].url, Hand} :
          /\ ~Seed!Clashes(name, i)
          /\ companies' = [companies EXCEPT ![i] = [name |-> name, url |-> url]]
          /\ run' = [r \in Runs |-> Seed!Overtaken(run[r], i)]
  BY DEF Seed!Edit
<1>1. PICK url \in {companies[i].url, Hand} :
          /\ ~Seed!Clashes(name, i)
          /\ companies' = [companies EXCEPT ![i] = [name |-> name, url |-> url]]
          /\ run' = [r \in Runs |-> Seed!Overtaken(run[r], i)]
  BY <1>0
<1> DEFINE firm == [name |-> name, url |-> url]
<1>2. companies[i] \in Seed!Rows
  BY DEF SeedInv, SeedTypes
<1>3. firm \in Seed!Rows /\ firm.name = name
  BY <1>2 DEF Seed!Rows
<1>4. Written(i, firm)
  BY <1>1, <1>3 DEF Written
<1>5. QED
  BY <1>1, <1>3, <1>4 DEF Seed!Edit

\* What people write keeps the invariant.
LEMMA EditsKeep ==
    ASSUME SeedInv, Seed!LookByHand \/ Seed!AddByHand \/ Seed!Edit
    PROVE  SeedInv'
<1>1. /\ companies \in Seq(Seed!Rows) /\ OneAName /\ edits \in Nat
      /\ adding \in Seed!Names \union {Nothing} /\ run \in [Runs -> States]
  BY DEF SeedInv, SeedTypes
<1>2. CASE Seed!LookByHand
  <2>1. /\ UNCHANGED <<companies, run>> /\ adding' \in Seed!Names /\ edits' \in Nat
    BY <1>1, <1>2 DEF Seed!LookByHand
  <2>2. QED
    BY <2>1 DEF SeedInv, SeedTypes, OneAName, Looked
<1>3. CASE Seed!AddByHand
  <2>1. adding \in Seed!Names /\ adding' = Nothing /\ UNCHANGED <<run, edits>>
    BY <1>1, <1>3 DEF Seed!AddByHand
  <2> DEFINE firm == [name |-> adding, url |-> Nothing]
  <2>2. firm \in Seed!Rows /\ firm.name = adding
    BY <2>1 DEF Seed!Rows
  <2>3. companies' = companies \/ Added(firm)
    BY <1>3, <2>2 DEF Seed!AddByHand, Added
  <2> HIDE DEF firm
  <2>4. companies' \in Seq(Seed!Rows) /\ OneAName'
    <3>1. CASE companies' = companies
      BY <1>1, <3>1 DEF OneAName
    <3>2. QED
      BY <1>1, <2>2, <2>3, <3>1, AddedKeeps
  <2>5. ASSUME NEW x \in Runs
        PROVE  Looked(x)' /\ Busied(run'[x]) /\ run'[x].id <= Len(companies')
    BY <2>1, <2>2, <2>3, LookKept
  <2>6. QED
    BY <1>1, <2>1, <2>4, <2>5 DEF SeedInv, SeedTypes
<1>4. CASE Seed!Edit
  <2>1. PICK id \in DOMAIN companies, firm \in Seed!Rows :
            Written(id, firm) /\ run' = [r \in Runs |-> Seed!Overtaken(run[r], id)]
    BY <1>4, EditWrites
  <2>2. UNCHANGED adding /\ edits' \in Nat
    BY <1>1, <1>4, EditWrites
  <2>3. companies' \in Seq(Seed!Rows) /\ OneAName'
    BY <1>1, <2>1, WrittenKeeps
  <2>4. ASSUME NEW x \in Runs
        PROVE  Looked(x)' /\ run'[x] \in States /\ Busied(run'[x]) /\ run'[x].id <= Len(companies')
    <3>1. run'[x] = Seed!Overtaken(run[x], id)
      BY <2>1
    <3>2. QED
      BY <2>1, <3>1, LookKept
  <2>5. run' \in [Runs -> States]
    BY <2>1, <2>4
  <2>6. QED
    BY <1>1, <2>2, <2>3, <2>4, <2>5 DEF SeedInv, SeedTypes
<1>5. QED
  BY <1>2, <1>3, <1>4

\* There is nothing to keep at first, and every step keeps the invariant.
LEMMA SeedBegins ==
    ASSUME Seed!Init
    PROVE  SeedInv
<1>1. companies = <<>> /\ run = [r \in Runs |-> Seed!Idle] /\ adding = Nothing /\ edits = 0
  BY DEF Seed!Init
<1>2. companies \in Seq(Seed!Rows) /\ Len(companies) = 0 /\ DOMAIN companies = {}
  BY <1>1
<1>3. \A r \in Runs : run[r] = Seed!Idle
  BY <1>1
<1>4. SeedTypes
  BY <1>1, <1>2, <1>3, IdleRun DEF SeedTypes, Busied
<1>5. OneAName /\ \A r \in Runs : Looked(r)
  BY <1>2, <1>3, IdleRun DEF OneAName, Looked
<1>6. QED
  BY <1>4, <1>5 DEF SeedInv

\* Every step of the seeding keeps the invariant.
LEMMA SeedStep ==
    ASSUME SeedInv, [Seed!Next]_seedVars
    PROVE  SeedInv'
<1>1. CASE UNCHANGED seedVars
  BY <1>1 DEF seedVars, SeedInv, SeedTypes, OneAName, Looked
<1>2. CASE Seed!Next
  BY <1>2, ProbesKeep, FindKeeps, SaveKeeps, EditsKeep DEF Seed!Next
<1>3. QED
  BY <1>1, <1>2

\* The invariant is inductive.
THEOREM SeedInvariant == MCSpec => []SeedInv
<1>1. MCInit => SeedInv
  BY SeedBegins DEF MCInit
<1>2. SeedInv /\ [MCNext]_mcVars => SeedInv'
  <2>1. MCNext => [Seed!Next]_seedVars
    BY DEF MCNext
  <2>2. UNCHANGED mcVars => [Seed!Next]_seedVars
    BY DEF mcVars
  <2>3. QED
    BY <2>1, <2>2, SeedStep
<1>3. QED
  BY <1>1, <1>2, PTL DEF MCSpec

\* Only a run that confirms goes from its probes to the boards it registers.
LEMMA OnlyConfirms ==
    ASSUME SeedInv, Seed!Next, NEW r \in Runs, run[r].at = "probe", run'[r].at = "find"
    PROVE  Seed!Confirm(r)
<1>1. run \in [Runs -> States]
  BY DEF SeedInv, SeedTypes
<1>2. CASE Seed!LookByHand \/ Seed!AddByHand
  BY <1>2 DEF Seed!LookByHand, Seed!AddByHand
<1>3. CASE Seed!Edit
  <2>1. PICK id : run'[r] = Seed!Overtaken(run[r], id)
    BY <1>3, EditWrites
  <2>2. run'[r].at = run[r].at
    BY <1>1, <2>1, OvertakenKnows
  <2>3. QED
    BY <2>2
<1>4. ASSUME NEW x \in Runs, Seed!Save(x)
      PROVE  Seed!Confirm(r)
  <2>1. run[x].at = "save" /\ (Alone(x) \/ \E id : Told(x, id))
    BY <1>4, SaveWrites
  <2>2. r \in Runs \ {x}
    BY <2>1
  <2>3. run'[r].at = run[r].at
    BY <1>1, <2>1, <2>2, OvertakenKnows DEF Alone, Told
  <2>4. QED
    BY <2>3
<1>5. ASSUME NEW x \in Runs, Seed!Empty(x) \/ Seed!Stop(x)
      PROVE  Seed!Confirm(r)
  <2>1. run' = [run EXCEPT ![x] = Seed!Idle]
    BY <1>5 DEF Seed!Empty, Seed!Stop
  <2>2. QED
    BY <1>1, <2>1, IdleRun
<1>6. ASSUME NEW x \in Runs, Seed!Start(x)
      PROVE  Seed!Confirm(r)
  <2>1. run[x].at = "idle" /\ \A y \in Runs \ {x} : run'[y] = run[y]
    BY <1>1, <1>6 DEF Seed!Start
  <2>2. QED
    BY <2>1
<1>7. ASSUME NEW x \in Runs, Seed!Probe(x)
      PROVE  Seed!Confirm(r)
  <2>1. /\ \A y \in Runs \ {x} : run'[y] = run[y]
        /\ run'[x].at = run[x].at
    BY <1>1, <1>7 DEF Seed!Probe, States
  <2>2. QED
    BY <2>1
<1>8. ASSUME NEW x \in Runs, Seed!Find(x)
      PROVE  Seed!Confirm(r)
  <2>1. run[x].at = "find" /\ \A y \in Runs \ {x} : run'[y] = run[y]
    BY <1>1, <1>8 DEF Seed!Find
  <2>2. QED
    BY <2>1
<1>9. ASSUME NEW x \in Runs, Seed!Confirm(x)
      PROVE  Seed!Confirm(r)
  <2>1. \A y \in Runs \ {x} : run'[y] = run[y]
    BY <1>1, <1>9 DEF Seed!Confirm
  <2>2. x = r
    BY <2>1
  <2>3. QED
    BY <1>9, <2>2
<1>10. QED
  BY <1>2, <1>3, <1>4, <1>5, <1>6, <1>7, <1>8, <1>9 DEF Seed!Next

\* A URL or a name with a capital that people wrote is lost.
Lost(i) ==
    \/ companies[i].url = Hand /\ companies'[i].url # Hand
    \/ companies[i].name[2] # "slug" /\ companies'[i].name # companies[i].name

\* It stays unless people write it again: a run keeps what it read, and read it unless it
\* was written since.
LEMMA HandStays ==
    ASSUME SeedInv, Seed!Next, NEW i \in DOMAIN companies, Lost(i)
    PROVE  edits' # edits \/ \E r \in Runs : run[r].id = i /\ run[r].stale
<1>1. companies \in Seq(Seed!Rows) /\ OneAName /\ edits \in Nat
  BY DEF SeedInv, SeedTypes
<1>2. companies'[i] # companies[i]
  BY DEF Lost
<1>3. ASSUME NEW firm \in Seed!Rows, Added(firm)
      PROVE  FALSE
  BY <1>1, <1>2, <1>3, AddedKeeps
<1>4. CASE Seed!LookByHand \/ Seed!Edit
  <2>1. edits' = edits + 1
    BY <1>4 DEF Seed!LookByHand, Seed!Edit
  <2>2. QED
    BY <1>1, <2>1
<1>5. CASE Seed!AddByHand
  <2>1. adding \in Seed!Names
    BY <1>5 DEF Seed!AddByHand, SeedInv, SeedTypes
  <2> DEFINE firm == [name |-> adding, url |-> Nothing]
  <2>2. firm \in Seed!Rows /\ firm.name = adding
    BY <2>1 DEF Seed!Rows
  <2>3. companies' = companies \/ Added(firm)
    BY <1>5, <2>2 DEF Seed!AddByHand, Added
  <2>4. QED
    BY <1>2, <1>3, <2>2, <2>3
<1>6. ASSUME NEW r \in Runs, Seed!Save(r)
      PROVE  run[r].id = i /\ run[r].stale
  <2> DEFINE firm == Seed!Updated(run[r].row, Seed!Named(r), Seed!Entry(r))
  <2>1. run[r].at = "save" /\ firm \in Seed!Rows /\ Written(run[r].id, firm)
    BY <1>2, <1>3, <1>6, SaveWrites
  <2>2. /\ companies'[run[r].id] = firm
        /\ \A j \in DOMAIN companies \ {run[r].id} : companies'[j] = companies[j]
    BY <1>1, <2>1, WrittenKeeps
  <2>3. run[r].id = i
    BY <1>2, <2>2
  <2>4. i # 0
    BY <1>1
  <2>5. run[r].stale \/ companies[i] = run[r].row
    BY <2>1, <2>3, <2>4 DEF SeedInv, Looked
  <2>6. ASSUME companies[i] = run[r].row
        PROVE  FALSE
    <3>1. companies'[i].name =
              IF companies[i].name[2] = "slug" THEN Seed!Named(r) ELSE companies[i].name
      BY <2>2, <2>3, <2>6 DEF Seed!Updated
    <3>2. companies[i].url = Hand => companies'[i].url = Hand
      BY <2>2, <2>3, <2>6, SeedAssumption DEF Seed!Updated, Seed!KeepsUrl
    <3>3. QED
      BY <3>1, <3>2 DEF Lost
  <2>7. run[r].stale
    <3> HIDE DEF firm
    <3>1. SeedTypes /\ (run[r].stale = TRUE \/ run[r].stale = FALSE)
      BY DEF SeedInv, SeedTypes, States
    <3>2. QED
      BY <2>5, <2>6, <3>1
  <2>8. QED
    BY <2>3, <2>7
<1>7. ASSUME NEW r \in Runs, Seed!Start(r) \/ Seed!Probe(r) \/ Seed!Confirm(r) \/ Seed!Empty(r)
                             \/ Seed!Find(r) \/ Seed!Stop(r)
      PROVE  FALSE
  BY <1>2, <1>7
     DEF Seed!Start, Seed!Probe, Seed!Confirm, Seed!Empty, Seed!Find, Seed!Stop
<1>8. QED
  BY <1>4, <1>5, <1>6, <1>7 DEF Seed!Next

\* However many runs and people overlap, and whatever they try, find and write: a run
\* confirms each board it found once, and by its lowercase name if it was found by it;
\* there is one company a name, however it is spelled; and a URL that somebody set, or a
\* name with a capital, is changed by people only, unless the company was written between
\* a run's look and its save.
THEOREM SeedsKept == MCSpec => SeedKeeps
<1>1. SeedInv => Seed!TypeOK
  BY SeedTypeCorrect
<1> DEFINE Confirmed ==
        \A r \in Runs : run[r].at = "probe" /\ run'[r].at = "find" =>
            /\ \A h \in Seed!ToSet(run[r].found) : \E k \in Seed!ToSet(run'[r].found) :
                    Seed!SameBoard(h, k) /\ (h.token[2] = "slug" => k.token[2] = "slug")
            /\ \A i, j \in DOMAIN run'[r].found :
                    i # j => ~Seed!SameBoard(run'[r].found[i], run'[r].found[j])
           Stands ==
        \A i \in DOMAIN companies :
            (\/ companies[i].url = Hand /\ companies'[i].url # Hand
             \/ companies[i].name[2] # "slug" /\ companies'[i].name # companies[i].name)
            => edits' # edits \/ \E r \in Runs : run[r].id = i /\ run[r].stale
           Single ==
        \A i, j \in DOMAIN companies' :
            i # j => companies'[i].name[1] # companies'[j].name[1]
<1>2. ASSUME SeedInv, Seed!Next
      PROVE  Confirmed /\ Stands /\ Single
  <2>1. Confirmed
    <3> SUFFICES ASSUME NEW r \in Runs, run[r].at = "probe", run'[r].at = "find"
                 PROVE  /\ \A h \in Seed!ToSet(run[r].found) : \E k \in Seed!ToSet(run'[r].found) :
                                Seed!SameBoard(h, k) /\ (h.token[2] = "slug" => k.token[2] = "slug")
                        /\ \A i, j \in DOMAIN run'[r].found :
                                i # j => ~Seed!SameBoard(run'[r].found[i], run'[r].found[j])
      OBVIOUS
    <3>1. Seed!Confirm(r) /\ SeedTypes
      BY <1>2, OnlyConfirms DEF SeedInv
    <3>2. QED
      BY <3>1, ConfirmCovers, Zenon DEF Covers
  <2>2. Stands
    BY <1>2, HandStays DEF Lost
  <2>3. Single
    BY <1>2, SeedStep DEF SeedInv, OneAName
  <2>4. QED
    BY <2>1, <2>2, <2>3
<1>3. SeedInv /\ [MCNext]_mcVars => [Confirmed /\ Stands /\ Single]_(Seed!vars)
  <2>1. MCNext => Seed!Next \/ UNCHANGED seedVars
    BY DEF MCNext
  <2>2. UNCHANGED mcVars => UNCHANGED seedVars
    BY DEF mcVars
  <2>3. UNCHANGED seedVars => UNCHANGED Seed!vars
    BY DEF seedVars, Seed!vars
  <2> HIDE DEF Confirmed, Stands, Single
  <2>4. QED
    BY <1>2, <2>1, <2>2, <2>3
<1>4. QED
  BY <1>1, <1>3, SeedInvariant, PTL DEF MCSpec, SeedKeeps, Seed!SeedKeeps

-----------------------------------------------------------------------------
(***************************************************************************)
(* The migrations: the oldest row of a group and the marks that move to it. *)
(***************************************************************************)
\* A set of numbers has a minimum.
LEMMA MinIs ==
    ASSUME NEW S \in SUBSET Nat, S # {}
    PROVE  Migrations!Min(S) \in S /\ \A y \in S : Migrations!Min(S) =< y
<1>1. \E x \in S : \A y \in S : x =< y
  BY LeastNumber
<1>2. QED
  BY <1>1 DEF Migrations!Min

\* The oldest row of a group is one of it, the same for all of it, and stays.
LEMMA CanonicalIs ==
    ASSUME NEW key, DOMAIN key \subseteq Nat, NEW o \in DOMAIN key
    PROVE  /\ Migrations!Canonical(key)[o] \in DOMAIN key
           /\ Migrations!Canonical(key)[o] \notin Migrations!Losing(key)
           /\ key[Migrations!Canonical(key)[o]] = key[o]
           /\ o \notin Migrations!Losing(key) => Migrations!Canonical(key)[o] = o
           /\ \A w \in DOMAIN key :
                key[w] = key[o] => Migrations!Canonical(key)[w] = Migrations!Canonical(key)[o]
<1> DEFINE Group(r) == {w \in DOMAIN key : key[w] = key[r]}
           c == Migrations!Min(Group(o))
<1>1. \A r \in DOMAIN key : Migrations!Canonical(key)[r] = Migrations!Min(Group(r))
  BY DEF Migrations!Canonical
<1>2. Group(o) \in SUBSET Nat /\ Group(o) # {}
  OBVIOUS
<1>3. c \in Group(o)
  <2> HIDE DEF Group
  <2>1. QED
    BY <1>2, MinIs
<1>4. \A w \in DOMAIN key : key[w] = key[o] => Group(w) = Group(o)
  OBVIOUS
<1>5. c \in DOMAIN key /\ key[c] = key[o]
  BY <1>3
<1>6. Migrations!Canonical(key)[c] = c
  BY <1>1, <1>4, <1>5
<1> HIDE DEF Group
<1>7. c \notin Migrations!Losing(key)
  BY <1>6 DEF Migrations!Losing
<1>8. o \notin Migrations!Losing(key) => Migrations!Canonical(key)[o] = o
  BY DEF Migrations!Losing
<1>9. QED
  BY <1>1, <1>4, <1>5, <1>7, <1>8

\* No row is a copy exactly if no two rows have one key.
LEMMA NoCopies ==
    ASSUME NEW key, DOMAIN key \subseteq Nat
    PROVE  Migrations!Losing(key) = {} <=> \A o, w \in DOMAIN key : key[o] = key[w] => o = w
<1>1. \A o \in DOMAIN key : o \notin Migrations!Losing(key) => Migrations!Canonical(key)[o] = o
  BY CanonicalIs
<1>2. ASSUME Migrations!Losing(key) = {}, NEW o \in DOMAIN key, NEW w \in DOMAIN key,
             key[o] = key[w]
      PROVE  o = w
  BY <1>1, <1>2, CanonicalIs
<1>3. ASSUME \A o, w \in DOMAIN key : key[o] = key[w] => o = w
      PROVE  Migrations!Losing(key) = {}
  BY <1>3, CanonicalIs DEF Migrations!Losing
<1>4. QED
  BY <1>2, <1>3

\* One function is of some of the rows of another.
Part(some, key) == DOMAIN some \subseteq DOMAIN key /\ \A o \in DOMAIN some : some[o] = key[o]

\* Of rows without copies a part has none; without its copies a table has none.
LEMMA PartsHaveNone ==
    ASSUME NEW key, DOMAIN key \subseteq Nat, NEW some, Part(some, key),
           \/ Migrations!Losing(key) = {}
           \/ DOMAIN some \intersect Migrations!Losing(key) = {}
    PROVE  Migrations!Losing(some) = {}
<1>1. DOMAIN some \subseteq Nat
  BY DEF Part
<1>2. ASSUME NEW o \in DOMAIN some, NEW w \in DOMAIN some, some[o] = some[w]
      PROVE  o = w
  <2>1. o \in DOMAIN key /\ w \in DOMAIN key /\ key[o] = key[w]
    BY <1>2 DEF Part
  <2>2. o \notin Migrations!Losing(key) /\ w \notin Migrations!Losing(key)
    OBVIOUS
  <2>3. QED
    BY <2>1, <2>2, CanonicalIs
<1>3. QED
  BY <1>1, <1>2, NoCopies

\* The rows that are left, and their keys.
LEMMA WithoutIs ==
    ASSUME NEW table, NEW losing, NEW left, left = Migrations!Without(table, losing)
    PROVE  /\ DOMAIN left = DOMAIN table \ losing /\ Part(left, table)
           /\ Part(Migrations!Url(left), Migrations!Url(table))
           /\ Part(Migrations!Key(left), Migrations!Key(table))
           /\ Part(Migrations!Ext(left), Migrations!Ext(table))
<1>1. DOMAIN left = DOMAIN table \ losing /\ \A o \in DOMAIN left : left[o] = table[o]
  BY DEF Migrations!Without, Migrations!Restrict
<1>6. Part(left, table)
  BY <1>1 DEF Part
<1>2. Part(Migrations!Url(left), Migrations!Url(table))
  BY <1>1 DEF Part, Migrations!Url
<1>3. Part(Migrations!Key(left), Migrations!Key(table))
  BY <1>1 DEF Part, Migrations!Key
<1>4. Part(Migrations!Ext(left), Migrations!Ext(table))
  BY <1>1 DEF Part, Migrations!Ext
<1>5. QED
  BY <1>1, <1>2, <1>3, <1>4, <1>6

\* Marks on offers of a set, with applications of another.
Marks(on, of) == [user : Users, posting : on, status : {"NEW", "SEEN", "DISMISSED", "APPLIED"},
                  saved : BOOLEAN, app : of \union {NoApp}, since : Nat]

\* A user has one mark on an offer.
Single(held) == \A m, n \in held : m.user = n.user /\ m.posting = n.posting => m = n

\* The mark BestOf takes of u's on what becomes c.
Best(some, oldest, u, c) ==
    CHOOSE m \in some :
        /\ m.user = u /\ oldest[m.posting] = c
        /\ \A n \in some : (n.user = u /\ oldest[n.posting] = c) =>
               Migrations!Engagement(m) <= Migrations!Engagement(n)

\* There is one.
LEMMA BestIs ==
    ASSUME NEW some, NEW oldest, NEW m \in some
    PROVE  LET best == Best(some, oldest, m.user, oldest[m.posting])
           IN  best \in some /\ best.user = m.user /\ oldest[best.posting] = oldest[m.posting]
<1> DEFINE of == {n \in some : n.user = m.user /\ oldest[n.posting] = oldest[m.posting]}
           scores == {Migrations!Engagement(n) : n \in of}
<1>1. \A n : Migrations!Engagement(n) \in Nat
  <2>1. \A n : Migrations!Rank(n) \in Nat
    BY DEF Migrations!Rank
  <2>2. QED
    BY <2>1 DEF Migrations!Engagement
<1>2. scores \in SUBSET Nat /\ scores # {}
  BY <1>1
<1>3. PICK least \in scores : \A y \in scores : least =< y
  <2> HIDE DEF scores
  <2>1. QED
    BY <1>2, LeastNumber
<1>4. PICK n \in of : least = Migrations!Engagement(n)
  BY <1>3
<1>5. \A x \in of : Migrations!Engagement(n) <= Migrations!Engagement(x)
  BY <1>3, <1>4
<1>6. \E x \in some :
        /\ x.user = m.user /\ oldest[x.posting] = oldest[m.posting]
        /\ \A y \in some : (y.user = m.user /\ oldest[y.posting] = oldest[m.posting]) =>
               Migrations!Engagement(x) <= Migrations!Engagement(y)
  BY <1>4, <1>5
<1>7. QED
  BY <1>6 DEF Best

\* What BestOf makes of marks: for each of them one, of its user, on the oldest row.
LEMMA BestOfIs ==
    ASSUME NEW on, NEW of, NEW some \in SUBSET Marks(on, of), NEW oldest, NEW to,
           \A m \in some : oldest[m.posting] \in to
    PROVE  /\ Migrations!BestOf(some, oldest) \subseteq Marks(to, of)
           /\ Single(Migrations!BestOf(some, oldest))
           /\ \A m \in some : \E n \in Migrations!BestOf(some, oldest) :
                n.user = m.user /\ n.posting = oldest[m.posting]
           /\ \A n \in Migrations!BestOf(some, oldest) : \E m \in some :
                n.user = m.user /\ n.posting = oldest[m.posting]
<1> DEFINE Moved(m) == [Best(some, oldest, m.user, oldest[m.posting]) EXCEPT !.posting = oldest[@]]
<1>1. Migrations!BestOf(some, oldest) = {Moved(m) : m \in some}
  BY DEF Migrations!BestOf, Best
<1>2. ASSUME NEW m \in some
      PROVE  /\ Moved(m) \in Marks(to, of)
             /\ Moved(m).user = m.user /\ Moved(m).posting = oldest[m.posting]
  <2> DEFINE best == Best(some, oldest, m.user, oldest[m.posting])
  <2>1. best \in some /\ best.user = m.user /\ oldest[best.posting] = oldest[m.posting]
    BY BestIs
  <2>2. best \in Marks(on, of) /\ oldest[m.posting] \in to
    BY <2>1
  <2>3. Moved(m) = [best EXCEPT !.posting = oldest[m.posting]]
    BY <2>1
  <2> HIDE DEF best
  <2>4. QED
    BY <2>1, <2>2, <2>3 DEF Marks
<1>3. \A m, n \in some :
        m.user = n.user /\ oldest[m.posting] = oldest[n.posting] => Moved(m) = Moved(n)
  OBVIOUS
<1> HIDE DEF Moved
<1>4. QED
  BY <1>1, <1>2, <1>3 DEF Single

\* Whoever had a mark has one on the same row or on one of its key.
Moved(held, now, key) ==
    \A m \in held : \E n \in now :
        /\ n.user = m.user
        /\ \/ n.posting = m.posting
           \/ /\ m.posting \in DOMAIN key /\ n.posting \in DOMAIN key
              /\ key[n.posting] = key[m.posting]

\* What Merged makes of the marks: those of the copies move to the oldest, where the user has
\* none.
LEMMA MergedIs ==
    ASSUME NEW on, NEW of, NEW held \in SUBSET Marks(on, of), Single(held),
           NEW key, DOMAIN key \subseteq Nat, DOMAIN key \subseteq on
    PROVE  /\ Migrations!Merged(held, key) \subseteq Marks(on \ Migrations!Losing(key), of)
           /\ Single(Migrations!Merged(held, key))
           /\ Moved(held, Migrations!Merged(held, key), key)
<1> DEFINE losing == Migrations!Losing(key)
           copies == {m \in held : m.posting \in losing}
           oldest == Migrations!Canonical(key)
           moved == Migrations!BestOf(copies, oldest)
           taken == {<<m.user, m.posting>> : m \in held}
           stay == {m \in held : m.posting \notin losing}
           land == {m \in moved : <<m.user, m.posting>> \notin taken}
<1>1. Migrations!Merged(held, key) = stay \union land
  BY DEF Migrations!Merged
<1>2. losing \subseteq DOMAIN key
  BY DEF Migrations!Losing
<1>3. \A m \in copies : /\ oldest[m.posting] \in on \ losing /\ oldest[m.posting] \in DOMAIN key
                        /\ key[oldest[m.posting]] = key[m.posting]
  BY <1>2, CanonicalIs
<1> HIDE DEF oldest, losing
<1>4. /\ moved \subseteq Marks(on \ losing, of) /\ Single(moved)
      /\ \A m \in copies : \E n \in moved : n.user = m.user /\ n.posting = oldest[m.posting]
  <2>1. copies \in SUBSET Marks(on, of) /\ \A m \in copies : oldest[m.posting] \in on \ losing
    BY <1>3
  <2> HIDE DEF copies
  <2>2. QED
    BY <2>1, BestOfIs
<1> HIDE DEF moved
<1>5. stay \subseteq Marks(on \ losing, of)
  BY DEF Marks
<1>6. Single(stay \union land)
  BY <1>4 DEF Single
<1>7. ASSUME NEW m \in held
      PROVE  \E n \in stay \union land :
                /\ n.user = m.user
                /\ \/ n.posting = m.posting
                   \/ /\ m.posting \in DOMAIN key /\ n.posting \in DOMAIN key
                      /\ key[n.posting] = key[m.posting]
  <2>1. CASE m \in stay
    BY <2>1
  <2>2. CASE m \in copies
    <3>1. PICK n \in moved : n.user = m.user /\ n.posting = oldest[m.posting]
      BY <1>4, <2>2
    <3>2. /\ m.posting \in DOMAIN key /\ n.posting \in DOMAIN key
          /\ key[n.posting] = key[m.posting] /\ n.posting \notin losing
      BY <1>2, <1>3, <2>2, <3>1
    <3>3. CASE <<n.user, n.posting>> \in taken
      <4>1. PICK x \in held : <<x.user, x.posting>> = <<n.user, n.posting>>
        BY <3>3
      <4>2. x \in stay /\ x.user = m.user /\ x.posting = n.posting
        BY <3>1, <3>2, <4>1
      <4>3. QED
        BY <3>2, <4>2
    <3>4. CASE <<n.user, n.posting>> \notin taken
      BY <3>1, <3>2, <3>4
    <3>5. QED
      BY <3>3, <3>4
  <2>3. QED
    BY <2>1, <2>2
<1>8. QED
  BY <1>1, <1>4, <1>5, <1>6, <1>7 DEF losing, Moved
-----------------------------------------------------------------------------
\* A row is akin to itself and to what is like what it is akin to.
LEMMA AkinGrows ==
    ASSUME NEW a \in DOMAIN offers
    PROVE  /\ Migrations!Akin(a, a)
           /\ \A b, c \in DOMAIN offers :
                Migrations!Akin(a, b) /\ Migrations!Like(b, c) => Migrations!Akin(a, c)
BY DEF Migrations!Akin

\* The tables are of the shape they are said to have, and keep the constraints.
UpgradeInv == Migrations!TypeOK /\ Migrations!SchemaHolds

\* The same of tables given one by one.
SoundTables(rel, table, held, corp, seen, apps) ==
    /\ rel \in 0 .. 4 /\ DOMAIN table \subseteq Nat /\ DOMAIN corp \subseteq Nat
    /\ \A o \in DOMAIN table :
          table[o] \in [company : DOMAIN corp, url : Urls, ext : Ids \union {NoId}, key : Keys]
    /\ held \subseteq Marks(DOMAIN table, DOMAIN apps)
    /\ \A c \in DOMAIN corp : corp[c] \in [name : STRING, monitored : BOOLEAN]
    /\ seen \subseteq Users \X DOMAIN corp
    /\ \A x \in DOMAIN apps :
          apps[x] \in [company : DOMAIN corp, status : STRING, live : BOOLEAN]
    /\ rel >= 1 =>
          /\ Migrations!Losing(Migrations!Url(table)) = {}
          /\ Migrations!Losing(Migrations!Ext(table)) = {}
          /\ Single(held)
    /\ rel >= 2 => Migrations!Losing(Migrations!Key(table)) = {}
    /\ rel >= 3 => Migrations!Losing([c \in DOMAIN corp |-> corp[c].name]) = {}

\* Sound tables are these.
LEMMA SoundIs ==
    ASSUME NEW t
    PROVE  Migrations!Sound(t) <=> SoundTables(t.release, t.postings, t.marks, t.companies,
                                               t.watches, t.applications)
BY DEF Migrations!Sound, Migrations!Refers, Migrations!Constraints, Migrations!Releases,
   SoundTables, Marks, Single

\* The invariant is that the tables are so, before a step and after it.
LEMMA TablesAre ==
    /\ UpgradeInv <=>
          /\ failed \in BOOLEAN
          /\ SoundTables(release, offers, marks, firms, watches, applications)
    /\ UpgradeInv' <=>
          /\ failed' \in BOOLEAN
          /\ SoundTables(release', offers', marks', firms', watches', applications')
<1>1. UpgradeInv <=> failed \in BOOLEAN /\ Migrations!Sound(Migrations!Now)
  BY DEF UpgradeInv, Migrations!TypeOK, Migrations!SchemaHolds, Migrations!Sound
<1>2. UpgradeInv' <=> failed' \in BOOLEAN /\ Migrations!Sound(Migrations!Now')
  BY DEF UpgradeInv, Migrations!TypeOK, Migrations!SchemaHolds, Migrations!Sound,
         Migrations!Refers, Migrations!Constraints
<1>3. QED
  BY <1>1, <1>2, SoundIs DEF Migrations!Now

\* The keys are of rows, and what they say of two of them.
LEMMA KeysAre ==
    ASSUME NEW table
    PROVE  /\ DOMAIN Migrations!Url(table) = DOMAIN table
           /\ DOMAIN Migrations!Key(table) = DOMAIN table
           /\ DOMAIN Migrations!Ext(table) \subseteq DOMAIN table
           /\ \A a, b \in DOMAIN table :
                /\ Migrations!Url(table)[a] = Migrations!Url(table)[b] =>
                      table[a].company = table[b].company /\ table[a].url = table[b].url
                /\ Migrations!Key(table)[a] = Migrations!Key(table)[b] =>
                      table[a].company = table[b].company /\ table[a].key = table[b].key
           /\ \A a, b \in DOMAIN Migrations!Ext(table) :
                Migrations!Ext(table)[a] = Migrations!Ext(table)[b] =>
                    /\ table[a].company = table[b].company
                    /\ table[a].ext = table[b].ext /\ table[a].ext # NoId
<1>1. /\ DOMAIN Migrations!Url(table) = DOMAIN table
      /\ \A a, b \in DOMAIN table : Migrations!Url(table)[a] = Migrations!Url(table)[b] =>
            table[a].company = table[b].company /\ table[a].url = table[b].url
  BY DEF Migrations!Url
<1>2. /\ DOMAIN Migrations!Key(table) = DOMAIN table
      /\ \A a, b \in DOMAIN table : Migrations!Key(table)[a] = Migrations!Key(table)[b] =>
            table[a].company = table[b].company /\ table[a].key = table[b].key
  BY DEF Migrations!Key
<1>3. /\ DOMAIN Migrations!Ext(table) \subseteq DOMAIN table
      /\ \A a, b \in DOMAIN Migrations!Ext(table) :
            Migrations!Ext(table)[a] = Migrations!Ext(table)[b] =>
                /\ table[a].company = table[b].company
                /\ table[a].ext = table[b].ext /\ table[a].ext # NoId
  BY DEF Migrations!Ext
<1>4. QED
  BY <1>1, <1>2, <1>3

\* What a release owes the users.
Followed ==
    \A m \in marks : Migrations!Acted(m) =>
        \E n \in marks' : n.user = m.user /\ Migrations!Akin(m.posting, n.posting)

\* Offers become global: the mark of a user on the oldest of their copies, unless it said nothing.
LEMMA GlobalOffersKeeps ==
    ASSUME UpgradeInv, ~failed, release = 0, Migrations!GlobalOffers
    PROVE  UpgradeInv' /\ (release' > release => Followed)
<1> DEFINE url == Migrations!Url(offers)
           left == Migrations!Without(offers, Migrations!Losing(url))
           acted == {m \in marks : Migrations!Acted(m)}
           oldest == Migrations!Canonical(url)
           of == DOMAIN applications
<1>1. CASE Migrations!Losing(Migrations!Ext(left)) # {}
  <2>1. /\ failed' = TRUE
        /\ UNCHANGED <<release, offers, marks, firms, watches, applications, journal>>
    BY <1>1 DEF Migrations!GlobalOffers, Migrations!Fails
  <2>2. UpgradeInv'
    BY <2>1, TablesAre
  <2>3. QED
    BY <2>1, <2>2, TablesAre DEF SoundTables
<1>2. CASE Migrations!Losing(Migrations!Ext(left)) = {}
  <2>1. /\ release' = 1 /\ offers' = left /\ marks' = Migrations!BestOf(acted, oldest)
        /\ UNCHANGED <<firms, watches, applications, journal, failed>>
    BY <1>2 DEF Migrations!GlobalOffers
  <2>2. /\ DOMAIN url = DOMAIN offers /\ DOMAIN url \subseteq Nat
    BY KeysAre, TablesAre DEF SoundTables
  <2>3. /\ DOMAIN left = DOMAIN offers \ Migrations!Losing(url)
        /\ \A o \in DOMAIN left : left[o] = offers[o]
        /\ Part(Migrations!Url(left), url) /\ DOMAIN Migrations!Url(left) = DOMAIN left
    <3>1. left = Migrations!Without(offers, Migrations!Losing(url))
      OBVIOUS
    <3> HIDE DEF left, url
    <3>2. /\ DOMAIN left = DOMAIN offers \ Migrations!Losing(url) /\ Part(left, offers)
          /\ Part(Migrations!Url(left), Migrations!Url(offers))
      BY <3>1, WithoutIs
    <3>3. QED
      BY <3>2, KeysAre DEF url, Part
  <2>4. \A o \in DOMAIN offers : oldest[o] \in DOMAIN left /\ url[oldest[o]] = url[o]
    BY <2>2, <2>3, CanonicalIs
  <2>5. Migrations!Losing(Migrations!Url(left)) = {}
    BY <2>2, <2>3, PartsHaveNone
  <2>6. marks \subseteq Marks(DOMAIN offers, of) /\ acted \in SUBSET Marks(DOMAIN offers, of)
        /\ \A m \in acted : m.posting \in DOMAIN offers
    BY TablesAre DEF Marks, SoundTables
  <2>7. /\ marks' \subseteq Marks(DOMAIN left, of) /\ Single(marks')
        /\ \A m \in acted : \E n \in marks' : n.user = m.user /\ n.posting = oldest[m.posting]
    <3>1. \A m \in acted : oldest[m.posting] \in DOMAIN left
      BY <2>4, <2>6
    <3> HIDE DEF acted, oldest
    <3> HIDE DEF left, of
    <3>2. /\ Migrations!BestOf(acted, oldest) \subseteq Marks(DOMAIN left, of)
          /\ Single(Migrations!BestOf(acted, oldest))
          /\ \A m \in acted : \E n \in Migrations!BestOf(acted, oldest) :
                n.user = m.user /\ n.posting = oldest[m.posting]
      BY <2>6, <3>1, BestOfIs
    <3>3. QED
      BY <2>1, <3>2
  <2>8. UpgradeInv'
    <3> HIDE DEF left, url, acted, oldest
    <3>1. SoundTables(0, offers, marks, firms, watches, applications)
      BY TablesAre
    <3>2. /\ DOMAIN left \subseteq Nat
          /\ \A o \in DOMAIN left : left[o] \in [company : DOMAIN firms, url : Urls,
                                                ext : Ids \union {NoId}, key : Keys]
      BY <2>3, <3>1 DEF SoundTables
    <3>3. SoundTables(1, left, marks', firms, watches, applications)
      BY <1>2, <2>5, <2>7, <3>1, <3>2 DEF SoundTables
    <3>4. QED
      BY <2>1, <3>3, TablesAre
  <2>9. ASSUME NEW m \in marks, Migrations!Acted(m)
         PROVE  \E n \in marks' : n.user = m.user /\ Migrations!Akin(m.posting, n.posting)
    <3>1. PICK n \in marks' : n.user = m.user /\ n.posting = oldest[m.posting]
      BY <2>7, <2>9
    <3>2. m.posting \in DOMAIN offers /\ n.posting \in DOMAIN offers
          /\ url[n.posting] = url[m.posting]
      BY <2>3, <2>4, <2>6, <2>9, <3>1
    <3>3. Migrations!Like(m.posting, n.posting)
      BY <3>2, KeysAre DEF Migrations!Like
    <3>4. QED
      BY <3>1, <3>2, <3>3, AkinGrows
  <2>10. QED
    BY <2>8, <2>9 DEF Followed
<1>3. QED
  BY <1>1, <1>2

\* A release that fails changes nothing.
LEMMA FailsKeeps ==
    ASSUME UpgradeInv, Migrations!Fails
    PROVE  UpgradeInv' /\ ~ (release' > release)
<1>1. /\ failed' = TRUE
      /\ UNCHANGED <<release, offers, marks, firms, watches, applications, journal>>
  BY DEF Migrations!Fails
<1>2. UpgradeInv'
  BY <1>1, TablesAre
<1>3. QED
  BY <1>1, <1>2, TablesAre DEF SoundTables

\* The way back keeps some of the marks, and the offers these are on.
LEMMA RollbackKeeps ==
    ASSUME UpgradeInv, release = 1, Migrations!Rollback
    PROVE  UpgradeInv' /\ ~ (release' > release)
<1> DEFINE First(o) == CHOOSE m \in marks : m.posting = o
                         /\ \A n \in marks : n.posting = o => m.since <= n.since
           kept == {First(m.posting) : m \in marks}
           left == Migrations!Restrict(offers, {m.posting : m \in kept})
<1>1. CASE Migrations!Fails
  BY <1>1, FailsKeeps
<1>2. CASE ~Migrations!Fails
  <2>1. /\ release' = 0 /\ offers' = left /\ marks' = kept
        /\ UNCHANGED <<firms, watches, applications, journal, failed>>
    BY <1>2 DEF Migrations!Rollback
  <2>2. SoundTables(1, offers, marks, firms, watches, applications)
    BY TablesAre
  <2>3. ASSUME NEW m \in marks
        PROVE  First(m.posting) \in marks
    <3> DEFINE times == {n.since : n \in {x \in marks : x.posting = m.posting}}
    <3>1. times \in SUBSET Nat /\ times # {}
      BY <2>2 DEF SoundTables, Marks
    <3>2. PICK least \in times : \A y \in times : least =< y
      <4> HIDE DEF times
      <4>1. QED
        BY <3>1, LeastNumber
    <3>3. \E n \in marks : n.posting = m.posting
                            /\ \A x \in marks : x.posting = m.posting => n.since <= x.since
      BY <3>2
    <3>4. QED
      BY <3>3
  <2>4. kept \subseteq marks
    BY <2>3
  <2> HIDE DEF kept
  <2>5. \A m \in marks : m \in Marks(DOMAIN offers, DOMAIN applications)
    BY <2>2 DEF SoundTables
  <2>6. /\ DOMAIN left = {m.posting : m \in kept} /\ DOMAIN left \subseteq DOMAIN offers
        /\ Part(left, offers)
    <3>1. {m.posting : m \in kept} \subseteq DOMAIN offers
      BY <2>4, <2>5 DEF Marks
    <3>2. QED
      BY <3>1 DEF Migrations!Restrict, Part
  <2>7. kept \subseteq Marks(DOMAIN left, DOMAIN applications)
    BY <2>4, <2>5, <2>6 DEF Marks
  <2>8. SoundTables(0, left, kept, firms, watches, applications)
    <3> HIDE DEF left
    <3>1. QED
      BY <2>2, <2>6, <2>7 DEF SoundTables, Part
  <2>9. QED
    BY <2>1, <2>8, TablesAre
<1>3. QED
  BY <1>1, <1>2

\* One row per opening: who marked a copy has a mark on the row that stays.
LEMMA DedupKeyKeeps ==
    ASSUME UpgradeInv, release = 1, Migrations!DedupKey
    PROVE  UpgradeInv' /\ Followed
<1> DEFINE key == Migrations!Key(offers)
           left == Migrations!Without(offers, Migrations!Losing(key))
           held == Migrations!Merged(marks, key)
           of == DOMAIN applications
<1>1. /\ release' = 2 /\ offers' = left /\ marks' = held
      /\ UNCHANGED <<firms, watches, applications, journal, failed>>
  BY DEF Migrations!DedupKey
<1>2. SoundTables(1, offers, marks, firms, watches, applications)
  BY TablesAre
<1>3. /\ DOMAIN offers \subseteq Nat /\ marks \in SUBSET Marks(DOMAIN offers, of)
      /\ Single(marks)
  BY <1>2 DEF SoundTables
<1>4. /\ DOMAIN key = DOMAIN offers /\ DOMAIN key \subseteq Nat
      /\ DOMAIN Migrations!Url(offers) = DOMAIN offers
      /\ DOMAIN Migrations!Ext(offers) \subseteq DOMAIN offers
  BY <1>3, KeysAre
<1>5. left = Migrations!Without(offers, Migrations!Losing(key))
  OBVIOUS
<1> HIDE DEF left, key, held, of
<1>6. /\ DOMAIN left = DOMAIN offers \ Migrations!Losing(key) /\ Part(left, offers)
      /\ Part(Migrations!Url(left), Migrations!Url(offers))
      /\ Part(Migrations!Key(left), key)
      /\ Part(Migrations!Ext(left), Migrations!Ext(offers))
  BY <1>5, WithoutIs DEF key
<1>7. /\ held \subseteq Marks(DOMAIN left, of) /\ Single(held) /\ Moved(marks, held, key)
  <2>1. /\ held \subseteq Marks(DOMAIN offers \ Migrations!Losing(key), of) /\ Single(held)
        /\ Moved(marks, held, key)
    BY <1>3, <1>4, MergedIs DEF held
  <2>2. QED
    BY <1>6, <2>1
<1>8. /\ Migrations!Losing(Migrations!Url(left)) = {}
      /\ Migrations!Losing(Migrations!Ext(left)) = {}
      /\ Migrations!Losing(Migrations!Key(left)) = {}
  <2>1. /\ Migrations!Losing(Migrations!Url(offers)) = {}
        /\ Migrations!Losing(Migrations!Ext(offers)) = {}
    BY <1>2 DEF SoundTables
  <2>2. DOMAIN Migrations!Key(left) = DOMAIN left
    BY KeysAre
  <2>3. /\ DOMAIN Migrations!Ext(offers) \subseteq Nat
        /\ DOMAIN Migrations!Url(offers) \subseteq Nat
    BY <1>3, <1>4
  <2>4. Migrations!Losing(Migrations!Url(left)) = {}
    BY <1>6, <2>1, <2>3, PartsHaveNone
  <2>5. Migrations!Losing(Migrations!Ext(left)) = {}
    BY <1>6, <2>1, <2>3, PartsHaveNone
  <2>6. Migrations!Losing(Migrations!Key(left)) = {}
    BY <1>4, <1>6, <2>2, PartsHaveNone
  <2>7. QED
    BY <2>4, <2>5, <2>6
<1>9. UpgradeInv'
  <2>1. /\ DOMAIN left \subseteq Nat
        /\ \A o \in DOMAIN left : left[o] \in [company : DOMAIN firms, url : Urls,
                                              ext : Ids \union {NoId}, key : Keys]
    BY <1>2, <1>6 DEF SoundTables, Part
  <2>2. SoundTables(2, left, held, firms, watches, applications)
    BY <1>2, <1>7, <1>8, <2>1 DEF SoundTables, of
  <2>3. QED
    BY <1>1, <2>2, TablesAre
<1>10. ASSUME NEW m \in marks
       PROVE  \E n \in marks' : n.user = m.user /\ Migrations!Akin(m.posting, n.posting)
  <2>1. PICK n \in held : /\ n.user = m.user
                          /\ \/ n.posting = m.posting
                             \/ /\ m.posting \in DOMAIN key /\ n.posting \in DOMAIN key
                                /\ key[n.posting] = key[m.posting]
    BY <1>7 DEF Moved
  <2>2. m.posting \in DOMAIN offers
    BY <1>3 DEF Marks
  <2>3. n.posting = m.posting \/ (n.posting \in DOMAIN offers
                                  /\ Migrations!Like(m.posting, n.posting))
    BY <1>4, <2>1, KeysAre DEF Migrations!Like, key
  <2>4. QED
    BY <1>1, <2>1, <2>2, <2>3, AkinGrows
<1>11. QED
  BY <1>9, <1>10 DEF Followed

\* The journal is written; the tables stay.
LEMMA JobEventsKeeps ==
    ASSUME UpgradeInv, release = 3, Migrations!JobEvents
    PROVE  UpgradeInv' /\ Followed
<1>1. release' = 4 /\ UNCHANGED <<offers, marks, firms, watches, applications, failed>>
  BY DEF Migrations!JobEvents
<1>2. SoundTables(3, offers, marks, firms, watches, applications)
  BY TablesAre
<1>3. SoundTables(4, offers, marks, firms, watches, applications)
  BY <1>2 DEF SoundTables
<1>4. \A m \in marks : m.posting \in DOMAIN offers
  BY <1>2 DEF SoundTables, Marks
<1>5. QED
  BY <1>1, <1>3, <1>4, TablesAre, AkinGrows DEF Followed

\* One pass over a table that has moved: the copies by a key go, their marks move.
LEMMA PassKeeps ==
    ASSUME NEW table, DOMAIN table \subseteq Nat, NEW of,
           NEW held \in SUBSET Marks(DOMAIN table, of), Single(held),
           NEW key, DOMAIN key \subseteq DOMAIN table,
           NEW left, left = Migrations!Without(table, Migrations!Losing(key)),
           NEW now, now = Migrations!Merged(held, key)
    PROVE  /\ DOMAIN left \subseteq DOMAIN table /\ Part(left, table)
           /\ DOMAIN left \intersect Migrations!Losing(key) = {}
           /\ Part(Migrations!Url(left), Migrations!Url(table))
           /\ Part(Migrations!Key(left), Migrations!Key(table))
           /\ Part(Migrations!Ext(left), Migrations!Ext(table))
           /\ now \in SUBSET Marks(DOMAIN left, of) /\ Single(now) /\ Moved(held, now, key)
<1>1. /\ DOMAIN left = DOMAIN table \ Migrations!Losing(key) /\ Part(left, table)
      /\ Part(Migrations!Url(left), Migrations!Url(table))
      /\ Part(Migrations!Key(left), Migrations!Key(table))
      /\ Part(Migrations!Ext(left), Migrations!Ext(table))
  BY WithoutIs
<1>2. /\ now \subseteq Marks(DOMAIN table \ Migrations!Losing(key), of) /\ Single(now)
      /\ Moved(held, now, key)
  BY MergedIs
<1>3. QED
  BY <1>1, <1>2

\* One company per name: its offers fold by three keys in turn, and a mark goes along with each.
LEMMA CompanyNamesKeeps ==
    ASSUME UpgradeInv, release = 2, Migrations!CompanyNames
    PROVE  UpgradeInv' /\ (release' > release => Followed)
<1> DEFINE names == [c \in DOMAIN firms |-> firms[c].name]
           home == Migrations!Canonical(names)
           moved == [o \in DOMAIN offers |-> [offers[o] EXCEPT !.company = home[@]]]
           byKey == Migrations!Without(moved, Migrations!Losing(Migrations!Key(moved)))
           byUrl == Migrations!Without(byKey, Migrations!Losing(Migrations!Url(byKey)))
           left == Migrations!Without(byUrl, Migrations!Losing(Migrations!Ext(byUrl)))
           held1 == Migrations!Merged(marks, Migrations!Key(moved))
           held2 == Migrations!Merged(held1, Migrations!Url(byKey))
           held3 == Migrations!Merged(held2, Migrations!Ext(byUrl))
           copies == {w \in watches : home[w[2]] # w[2] /\ <<w[1], home[w[2]]>> \in watches}
           landed == {<<w[1], home[w[2]]>> : w \in watches \ copies}
           apps == [x \in DOMAIN applications |-> [applications[x] EXCEPT !.company = home[@]]]
           heads == Migrations!Range(home)
           of == DOMAIN applications
<1>1. CASE Migrations!Fails
  BY <1>1, FailsKeeps
<1>2. CASE ~Migrations!Fails
  <2>1. /\ release' = 3 /\ offers' = left /\ marks' = held3
        /\ watches' = landed /\ applications' = apps /\ failed' = failed
        /\ \E look \in [heads -> DOMAIN home] :
              firms' = [c \in heads |->
                           [firms[c] EXCEPT !.monitored = @ \/ firms[look[c]].monitored]]
    BY <1>2 DEF Migrations!CompanyNames
  <2>2. SoundTables(2, offers, marks, firms, watches, applications)
    BY TablesAre
  <2>3. /\ DOMAIN names \subseteq Nat /\ DOMAIN names = DOMAIN firms
        /\ \A c \in DOMAIN firms : firms[c] \in [name : STRING, monitored : BOOLEAN]
    BY <2>2 DEF SoundTables
  <2>4. DOMAIN home = DOMAIN firms
    BY DEF Migrations!Canonical
  <2>5. \A c \in DOMAIN firms : /\ home[c] \in DOMAIN firms
                               /\ home[c] \notin Migrations!Losing(names)
                               /\ firms[home[c]].name = firms[c].name
    <3> HIDE DEF home
    <3>1. ASSUME NEW c \in DOMAIN firms
          PROVE  /\ home[c] \in DOMAIN firms /\ home[c] \notin Migrations!Losing(names)
                 /\ names[home[c]] = names[c]
      <4> HIDE DEF names
      <4>1. QED
        BY <2>3, CanonicalIs DEF home
    <3>2. QED
      BY <3>1
  <2>6. /\ heads \subseteq DOMAIN firms /\ heads \intersect Migrations!Losing(names) = {}
        /\ \A c \in DOMAIN firms : home[c] \in heads
    <3> HIDE DEF home, names
    <3>1. QED
      BY <2>4, <2>5 DEF Migrations!Range
  <2> HIDE DEF home, heads
  <2>7. PICK look \in [heads -> DOMAIN firms] :
            firms' = [c \in heads |->
                         [firms[c] EXCEPT !.monitored = @ \/ firms[look[c]].monitored]]
    BY <2>1, <2>4
  <2>8. /\ DOMAIN firms' = heads
        /\ \A c \in heads : /\ firms'[c] \in [name : STRING, monitored : BOOLEAN]
                            /\ firms'[c].name = firms[c].name
    BY <2>3, <2>6, <2>7
  <2>9. Migrations!Losing([c \in DOMAIN firms' |-> firms'[c].name]) = {}
    <3> DEFINE some == [c \in DOMAIN firms' |-> firms'[c].name]
    <3>1. Part(some, names) /\ DOMAIN some \intersect Migrations!Losing(names) = {}
      BY <2>6, <2>8 DEF Part
    <3> HIDE DEF some, names
    <3>2. Migrations!Losing(some) = {}
      BY <2>3, <3>1, PartsHaveNone
    <3>3. QED
      BY <3>2 DEF some
  <2>10. landed \subseteq Users \X heads
    <3>1. \A w \in watches : w[1] \in Users /\ w[2] \in DOMAIN firms
      BY <2>2 DEF SoundTables
    <3>2. ASSUME NEW w \in watches
          PROVE  <<w[1], home[w[2]]>> \in Users \X heads
      BY <2>6, <3>1
    <3>3. QED
      BY <3>2
  <2>11. /\ DOMAIN apps = of
         /\ \A x \in of : apps[x] \in [company : heads, status : STRING, live : BOOLEAN]
    <3>1. \A x \in of :
              applications[x] \in [company : DOMAIN firms, status : STRING, live : BOOLEAN]
      BY <2>2 DEF SoundTables
    <3>2. QED
      BY <2>6, <3>1
  <2>12. /\ DOMAIN moved = DOMAIN offers /\ DOMAIN moved \subseteq Nat
         /\ \A o \in DOMAIN moved :
               /\ moved[o] \in [company : heads, url : Urls, ext : Ids \union {NoId}, key : Keys]
               /\ moved[o].company = home[offers[o].company] /\ moved[o].url = offers[o].url
               /\ moved[o].ext = offers[o].ext /\ moved[o].key = offers[o].key
    <3>1. \A o \in DOMAIN offers :
              offers[o] \in [company : DOMAIN firms, url : Urls, ext : Ids \union {NoId},
                             key : Keys]
      BY <2>2 DEF SoundTables
    <3>2. QED
      BY <2>2, <2>6, <3>1 DEF SoundTables
  <2>13. marks \in SUBSET Marks(DOMAIN moved, of) /\ Single(marks)
    BY <2>2, <2>12 DEF SoundTables
  <2> HIDE DEF moved
  <2>14. /\ DOMAIN byKey \subseteq DOMAIN moved /\ Part(byKey, moved)
         /\ DOMAIN byKey \intersect Migrations!Losing(Migrations!Key(moved)) = {}
         /\ Part(Migrations!Key(byKey), Migrations!Key(moved))
         /\ held1 \in SUBSET Marks(DOMAIN byKey, of) /\ Single(held1)
         /\ Moved(marks, held1, Migrations!Key(moved))
    <3>1. /\ byKey = Migrations!Without(moved, Migrations!Losing(Migrations!Key(moved)))
          /\ held1 = Migrations!Merged(marks, Migrations!Key(moved))
      OBVIOUS
    <3> HIDE DEF byKey, held1, of
    <3>2. DOMAIN Migrations!Key(moved) \subseteq DOMAIN moved /\ DOMAIN moved \subseteq Nat
      BY <2>12, <2>13, KeysAre
    <3>3. QED
      BY <2>12, <2>13, <3>1, <3>2, PassKeeps, SMTT(30)
  <2> HIDE DEF byKey, held1
  <2>15. /\ DOMAIN byUrl \subseteq DOMAIN byKey /\ Part(byUrl, byKey)
         /\ DOMAIN byUrl \intersect Migrations!Losing(Migrations!Url(byKey)) = {}
         /\ Part(Migrations!Url(byUrl), Migrations!Url(byKey))
         /\ Part(Migrations!Key(byUrl), Migrations!Key(byKey))
         /\ held2 \in SUBSET Marks(DOMAIN byUrl, of) /\ Single(held2)
         /\ Moved(held1, held2, Migrations!Url(byKey))
    <3>1. /\ byUrl = Migrations!Without(byKey, Migrations!Losing(Migrations!Url(byKey)))
          /\ held2 = Migrations!Merged(held1, Migrations!Url(byKey))
      OBVIOUS
    <3> HIDE DEF byUrl, held2, of
    <3>2. DOMAIN Migrations!Url(byKey) \subseteq DOMAIN byKey /\ DOMAIN byKey \subseteq Nat
      BY <2>12, <2>14, KeysAre
    <3>3. QED
      BY <2>12, <2>14, <3>1, <3>2, PassKeeps, SMTT(30)
  <2> HIDE DEF byUrl, held2
  <2>16. /\ DOMAIN left \subseteq DOMAIN byUrl /\ Part(left, byUrl)
         /\ DOMAIN left \intersect Migrations!Losing(Migrations!Ext(byUrl)) = {}
         /\ Part(Migrations!Url(left), Migrations!Url(byUrl))
         /\ Part(Migrations!Key(left), Migrations!Key(byUrl))
         /\ Part(Migrations!Ext(left), Migrations!Ext(byUrl))
         /\ held3 \in SUBSET Marks(DOMAIN left, of) /\ Single(held3)
         /\ Moved(held2, held3, Migrations!Ext(byUrl))
    <3>1. /\ left = Migrations!Without(byUrl, Migrations!Losing(Migrations!Ext(byUrl)))
          /\ held3 = Migrations!Merged(held2, Migrations!Ext(byUrl))
      OBVIOUS
    <3> HIDE DEF left, held3, of
    <3>2. DOMAIN Migrations!Ext(byUrl) \subseteq DOMAIN byUrl /\ DOMAIN byUrl \subseteq Nat
      BY <2>12, <2>14, <2>15, KeysAre
    <3>3. QED
      BY <2>12, <2>14, <2>15, <3>1, <3>2, PassKeeps, SMTT(30)
  <2> HIDE DEF left, held3
  <2>17. /\ DOMAIN left \subseteq Nat
         /\ \A o \in DOMAIN left :
               left[o] \in [company : heads, url : Urls, ext : Ids \union {NoId}, key : Keys]
    BY <2>12, <2>14, <2>15, <2>16 DEF Part
  <2>18. /\ Migrations!Losing(Migrations!Key(left)) = {}
         /\ Migrations!Losing(Migrations!Url(left)) = {}
         /\ Migrations!Losing(Migrations!Ext(left)) = {}
    <3>1. /\ DOMAIN Migrations!Key(moved) = DOMAIN moved
          /\ DOMAIN Migrations!Key(byKey) = DOMAIN byKey
          /\ DOMAIN Migrations!Key(byUrl) = DOMAIN byUrl
          /\ DOMAIN Migrations!Key(left) = DOMAIN left
          /\ DOMAIN Migrations!Url(byKey) = DOMAIN byKey
          /\ DOMAIN Migrations!Url(byUrl) = DOMAIN byUrl
          /\ DOMAIN Migrations!Url(left) = DOMAIN left
          /\ DOMAIN Migrations!Ext(byUrl) \subseteq DOMAIN byUrl
          /\ DOMAIN Migrations!Ext(left) \subseteq DOMAIN left
      BY KeysAre
    <3>2. /\ DOMAIN byKey \subseteq Nat /\ DOMAIN byUrl \subseteq Nat
      BY <2>12, <2>14, <2>15
    <3>3. Migrations!Losing(Migrations!Key(byKey)) = {}
      BY <2>12, <2>14, <3>1, PartsHaveNone
    <3>4. Migrations!Losing(Migrations!Key(byUrl)) = {}
      BY <2>15, <3>1, <3>2, <3>3, PartsHaveNone
    <3>5. Migrations!Losing(Migrations!Key(left)) = {}
      BY <2>16, <3>1, <3>2, <3>4, PartsHaveNone
    <3>6. Migrations!Losing(Migrations!Url(byUrl)) = {}
      BY <2>15, <3>1, <3>2, PartsHaveNone
    <3>7. Migrations!Losing(Migrations!Url(left)) = {}
      BY <2>16, <3>1, <3>2, <3>6, PartsHaveNone
    <3>8. Migrations!Losing(Migrations!Ext(left)) = {}
      <4>1. DOMAIN Migrations!Ext(byUrl) \subseteq Nat
        BY <3>1, <3>2
      <4>2. DOMAIN Migrations!Ext(left) \intersect Migrations!Losing(Migrations!Ext(byUrl)) = {}
        BY <2>16, <3>1
      <4>3. QED
        BY <2>16, <4>1, <4>2, PartsHaveNone
    <3>9. QED
      BY <3>5, <3>7, <3>8
  <2>19. UpgradeInv'
    <3> HIDE DEF landed, apps
    <3>1. SoundTables(3, left, held3, firms', landed, apps)
      BY <2>3, <2>6, <2>8, <2>9, <2>10, <2>11, <2>16, <2>17, <2>18 DEF SoundTables
    <3>2. failed' \in BOOLEAN
      BY <2>1, TablesAre
    <3>3. QED
      BY <2>1, <3>1, <3>2, TablesAre
  <2>20. \A a, b \in DOMAIN offers :
            /\ moved[a].company = moved[b].company
            /\ \/ moved[a].url = moved[b].url \/ moved[a].key = moved[b].key
               \/ (moved[a].ext = moved[b].ext /\ moved[a].ext # NoId)
            => Migrations!Like(a, b)
    <3>1. \A o \in DOMAIN offers : offers[o].company \in DOMAIN firms
      BY <2>2 DEF SoundTables
    <3>2. ASSUME NEW a \in DOMAIN offers, NEW b \in DOMAIN offers,
                 moved[a].company = moved[b].company
          PROVE  firms[offers[a].company].name = firms[offers[b].company].name
      <4>1. home[offers[a].company] = home[offers[b].company]
        BY <2>12, <3>2
      <4>2. QED
        BY <2>5, <3>1, <4>1
    <3>3. QED
      BY <2>12, <3>2 DEF Migrations!Like
  <2>21. ASSUME NEW m \in marks
         PROVE  \E n \in marks' : n.user = m.user /\ Migrations!Akin(m.posting, n.posting)
    <3>1. PICK n1 \in held1 : n1.user = m.user /\ n1.posting \in DOMAIN offers
                             /\ (n1.posting = m.posting \/ Migrations!Like(m.posting, n1.posting))
      <4>1. m.posting \in DOMAIN offers
        BY <2>12, <2>13 DEF Marks
      <4>2. QED
        BY <2>12, <2>14, <2>20, <4>1, KeysAre DEF Moved
    <3>2. PICK n2 \in held2 : n2.user = m.user /\ n2.posting \in DOMAIN offers
                 /\ (n2.posting = n1.posting \/ Migrations!Like(n1.posting, n2.posting))
      <4>1. \A o \in DOMAIN byKey : o \in DOMAIN offers /\ byKey[o] = moved[o]
        BY <2>12, <2>14 DEF Part
      <4>2. QED
        BY <2>15, <2>20, <3>1, <4>1, KeysAre DEF Moved
    <3>3. PICK n3 \in held3 : n3.user = m.user /\ n3.posting \in DOMAIN offers
                 /\ (n3.posting = n2.posting \/ Migrations!Like(n2.posting, n3.posting))
      <4>1. \A o \in DOMAIN byUrl : o \in DOMAIN offers /\ byUrl[o] = moved[o]
        BY <2>12, <2>14, <2>15 DEF Part
      <4>2. DOMAIN Migrations!Ext(byUrl) \subseteq DOMAIN byUrl
        BY KeysAre
      <4>3. PICK n \in held3 : /\ n.user = n2.user
                 /\ \/ n.posting = n2.posting
                    \/ /\ n2.posting \in DOMAIN Migrations!Ext(byUrl)
                       /\ n.posting \in DOMAIN Migrations!Ext(byUrl)
                       /\ Migrations!Ext(byUrl)[n.posting] = Migrations!Ext(byUrl)[n2.posting]
        BY <2>16 DEF Moved
      <4>4. QED
        BY <2>20, <3>2, <4>1, <4>2, <4>3, KeysAre
    <3>4. m.posting \in DOMAIN offers
      BY <2>12, <2>13 DEF Marks
    <3>5. Migrations!Akin(m.posting, n1.posting)
      BY <3>1, <3>4, AkinGrows
    <3>6. Migrations!Akin(m.posting, n2.posting)
      BY <3>1, <3>2, <3>4, <3>5, AkinGrows
    <3>7. Migrations!Akin(m.posting, n3.posting)
      BY <3>2, <3>3, <3>4, <3>6, AkinGrows
    <3>8. QED
      BY <2>1, <3>3, <3>7
  <2>22. QED
    BY <2>19, <2>21 DEF Followed
<1>3. QED
  BY <1>1, <1>2

\* No step of the machines breaks the tables, and no release loses a user a mark.
LEMMA UpgradeKept ==
    ASSUME UpgradeInv, [MCNext]_mcVars
    PROVE  UpgradeInv' /\ (release' > release => Followed)
<1>1. CASE UNCHANGED upgradeVars
  <2>1. UpgradeInv'
    BY <1>1, TablesAre DEF upgradeVars
  <2>2. QED
    BY <1>1, <2>1, TablesAre DEF upgradeVars, SoundTables
<1>2. CASE Migrations!Next
  BY <1>2, GlobalOffersKeeps, DedupKeyKeeps, RollbackKeeps, CompanyNamesKeeps, JobEventsKeeps
     DEF Migrations!Next
<1>3. QED
  BY <1>1, <1>2 DEF MCNext, mcVars

\* THEOREM: the constraints each release declares hold from then on, and whoever had done
\* something with an offer has a mark on what became of it.
THEOREM UpgradesKeep ==
    MCSpec => UpgradeKeeps
<1>1. MCInit => UpgradeInv
  <2> SUFFICES ASSUME MCInit PROVE UpgradeInv
    OBVIOUS
  <2>1. PICK old \in OldTables : Migrations!Begin(old)
    <3>1. (CHOOSE old \in OldTables : TRUE) \in OldTables
      BY TablesAssumption
    <3>2. QED
      BY <3>1 DEF MCInit, Migrations!Init
  <2>2. Migrations!Sound(old)
    BY <2>1, TablesAssumption
  <2>3. SoundTables(release, offers, marks, firms, watches, applications) /\ failed = FALSE
    BY <2>1, <2>2, SoundIs DEF Migrations!Begin
  <2>4. QED
    BY <2>3, TablesAre
<1>2. UpgradeInv /\ [MCNext]_mcVars => UpgradeInv'
  BY UpgradeKept
<1>3. UpgradeInv => Migrations!TypeOK /\ Migrations!SchemaHolds
  BY DEF UpgradeInv
<1>4. UpgradeInv /\ [MCNext]_mcVars =>
        [release' > release =>
          \A m \in marks : Migrations!Acted(m) =>
              \E n \in marks' : n.user = m.user /\ Migrations!Akin(m.posting, n.posting)
        ]_<<release, offers, marks, firms, watches, applications, journal, failed>>
  BY UpgradeKept DEF Followed
<1>5. QED
  BY <1>1, <1>2, <1>3, <1>4, PTL DEF MCSpec, UpgradeKeeps, Migrations!UpgradeKeeps,
     Migrations!MarksFollow, Migrations!vars
=============================================================================
