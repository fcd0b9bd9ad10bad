-------------------------- MODULE AccountPages_proofs --------------------------
(***************************************************************************)
(* What AccountPages promises, for any number of tabs, any number of       *)
(* tokens of each kind, sign-up open or closed, and requests that stop     *)
(* anywhere: proofs of the two invariants and three action properties that *)
(* the run tabs checks with two tabs.                                      *)
(***************************************************************************)
EXTENDS AccountPages, TLAPS

\* The steps that make a token and mail it.
Mailing == {"cooldown", "delete", "insert", "mail"}

\* Which operation may be at which step, with which kind of token, and what it
\* has read by then.
Shaped(r) ==
    /\ r.step = "idle" => r.user = NoAccount
    /\ r.step = "create" => r.op \in {"sign-up", "provider"}
    /\ r.step \in Mailing => r.op \in {"sign-up", "sign-in", "resend", "forgot", "send-otp"}
    /\ r.step = "present" => r.op \in {"verify", "sign-in", "toggle-otp", "reset", "reset-page"}
    /\ r.step = "remove" => r.op \in {"verify", "sign-in", "toggle-otp"}
    /\ r.step = "copy" => r.op \in {"verify", "reset"}
    /\ r.step = "save" => /\ r.op \in {"verify", "reset", "toggle-otp", "avatar", "provider"}
                          /\ r.user # NoAccount
    /\ (r.op = "verify" /\ r.step \in {"present", "remove"}) => r.kind = "verification"
    /\ (r.op \in {"reset", "reset-page"} /\ r.step = "present") => r.kind = "reset"
    /\ (r.op = "sign-in" /\ r.step \in {"present", "remove"}) => r.kind = "otp"
    /\ (r.op = "toggle-otp" /\ r.step # "idle") => r.kind = "otp"
    /\ (r.op \in {"toggle-otp", "avatar"} /\ r.step # "idle") =>
            r.user # NoAccount /\ r.user.verified
    /\ r.answer # "none" => r.step = "idle" \/ InBackground(r)

AllShaped == \A c \in Clients : Shaped(request[c])

\* Before there is an account there is no token on file, and no request has read
\* a row or is past the steps that need none.
Nobody ==
    account = NoAccount =>
        /\ \A k \in Kinds : onFile[k] = NoToken
        /\ \A c \in Clients : /\ request[c].user = NoAccount
                              /\ request[c].step \in {"idle", "create", "present"}

\* A request that was not overtaken has read need_otp as it still is.
Current(c) ==
    (request[c].user # NoAccount /\ ~request[c].stale) =>
        request[c].user.needOtp = account.needOtp

AllCurrent == \A c \in Clients : Current(c)

\* Tokens on file were issued; a code that switched need_otp is off file for good.
Numbered ==
    /\ \A k \in Kinds : onFile[k] # NoToken => onFile[k].id <= issued[k]
    /\ \A t \in toggled : /\ t <= issued["otp"]
                          /\ onFile["otp"] # NoToken => onFile["otp"].id # t

\* Past verifyOTP the code a request holds was issued, is off file once removed,
\* and has switched nothing unless the request was overtaken.
Coded(c) ==
    LET r == request[c] IN
    (r.op = "toggle-otp" /\ r.step \in {"remove", "save"}) =>
        /\ r.token <= issued["otp"]
        /\ (r.step = "save" /\ onFile["otp"] # NoToken) => onFile["otp"].id # r.token
        /\ ~r.stale => r.token \notin toggled

AllCoded == \A c \in Clients : Coded(c)

\* A verification token on file was mailed, or its maker is about to.
WillMail(r) ==
    r.step = "mail" /\ r.kind = "verification" /\ r.token = onFile["verification"].id

Mailed ==
    (~broken /\ onFile["verification"] # NoToken) =>
        \/ onFile["verification"].id \in sent["verification"]
        \/ \E c \in Clients : WillMail(request[c])

\* Without one, somebody is about to make one, or to verify the account.
WillMake(r) ==
    \/ r.step \in {"cooldown", "delete", "insert"} /\ r.kind = "verification"
    \/ r.step \in {"copy", "save"} /\ r.op = "verify"

Owed ==
    (~broken /\ account # NoAccount /\ ~account.verified /\ onFile["verification"] = NoToken) =>
        \E c \in Clients : WillMake(request[c])

ApiInv ==
    /\ AccountsTypeOK
    /\ AllShaped /\ Nobody /\ AllCurrent
    /\ Numbered /\ AllCoded
    /\ Mailed /\ Owed

\* The tab whose page shows need_otp: what it waits for, and how the page and
\* the row relate unless another tab overtook it, and the switch too unless the
\* dialog was left by Escape.
Switched(c) ==
    LET r == request[c]  p == page[c] IN
    /\ r.op = "send-otp" => p.at = "security"
    /\ r.op = "toggle-otp" => p.at = "dialog" \/ (p.at = "security" /\ p.left)
    /\ p.at = "security" => Free(c) \/ r.op \in {"send-otp", "toggle-otp"}
    /\ p.at = "dialog" => Free(c) \/ r.op = "toggle-otp"
    /\ p.at \in {"security", "dialog"} => account # NoAccount
    /\ (p.at \in {"security", "dialog"} /\ ~p.crossed) =>
            /\ r.op = "toggle-otp" /\ r.step # "idle" => ~r.stale
            /\ account.needOtp = IF r.op = "toggle-otp" /\ r.step = "idle" /\ r.answer = "ok"
                                 THEN ~p.prop ELSE p.prop
            /\ ~p.left => p.switch = IF p.at = "dialog" \/ r.op = "send-otp"
                                     THEN ~p.prop ELSE p.prop

AllSwitched == \A c \in Clients : Switched(c)

Inv == TypeOK /\ ApiInv /\ AllSwitched
-----------------------------------------------------------------------------
(***************************************************************************)
(* What the operators return.                                              *)
(***************************************************************************)
\* Token numbers are natural, and the next one within its bound is one of them.
LEMMA IdsNumbers ==
    /\ Ids \subseteq Nat /\ 0 \in Ids
    /\ \A k \in Kinds : \A n \in Nat : n < MaxIssued[k] => n + 1 \in Ids
<1>1. \A k \in Kinds : MaxIssued[k] \in Nat
  BY AccountsAssumption DEF Kinds
<1>2. Ids \subseteq Nat
  BY <1>1 DEF Ids
<1>3. \A k \in Kinds : \A n \in 0 .. MaxIssued[k] : n \in Ids
  BY DEF Ids
<1>4. 0 \in Ids
  <2>1. "otp" \in Kinds /\ 0 \in 0 .. MaxIssued["otp"]
    BY <1>1 DEF Kinds
  <2>2. QED
    BY <2>1, <1>3
<1>5. ASSUME NEW k \in Kinds, NEW n \in Nat, n < MaxIssued[k]
      PROVE  n + 1 \in Ids
  <2>1. n + 1 \in 0 .. MaxIssued[k]
    BY <1>5, <1>1
  <2>2. QED
    BY <2>1, <1>3
<1>6. QED
  BY <1>2, <1>4, <1>5

\* A request that ended.
Ended(x) == x \in Requests /\ Shaped(x) /\ x.step = "idle" /\ x.user = NoAccount

\* A client that has not asked for anything yet is one whose request has ended.
LEMMA IdleEnded == Ended(Idle)
<1>1. Idle \in Requests
  BY IdsNumbers DEF Idle, Requests, Ops, Steps, Kinds, Answers
<1>2. QED
  BY <1>1 DEF Ended, Idle, Shaped, Mailing

\* An answered request has ended, and remembers what it was.
LEMMA AnsweredEnded ==
    ASSUME NEW r \in Requests, NEW a \in Answers
    PROVE  /\ Ended(Answered(r, a))
           /\ Answered(r, a).op = r.op /\ Answered(r, a).answer = a
<1>1. Answered(r, a) \in Requests
  BY IdleEnded DEF Answered, Ended, Requests
<1>2. /\ Answered(r, a).op = r.op /\ Answered(r, a).answer = a
      /\ Answered(r, a).step = "idle" /\ Answered(r, a).user = NoAccount
  BY IdleEnded DEF Answered, Ended, Requests, Idle
<1>3. QED
  BY <1>1, <1>2 DEF Ended, Shaped, Mailing

\* So has a closed one, and its answer is the one it had or a refusal.
LEMMA ClosedEnded ==
    ASSUME NEW r \in Requests, Shaped(r)
    PROVE  /\ Ended(Closed(r))
           /\ Closed(r) = r \/ Closed(r) = Idle \/ Closed(r) = Answered(r, r.answer)
              \/ Closed(r) = Answered(r, "refused")
           /\ ~InBackground(r) => IF r.step = "idle" THEN Closed(r) = r
                                  ELSE Closed(r) = Answered(r, "refused")
<1>1. "refused" \in Answers /\ r.answer \in Answers
  BY DEF Answers, Requests
<1>2. CASE r.step = "idle"
  <2>1. Closed(r) = r /\ ~InBackground(r)
    BY <1>2 DEF Closed, InBackground
  <2>2. QED
    BY <2>1, <1>2 DEF Ended, Shaped
<1>3. CASE InBackground(r) /\ r.answer = "none"
  <2>1. Closed(r) = Idle
    BY <1>3 DEF Closed, InBackground
  <2>2. QED
    BY <2>1, <1>3, IdleEnded
<1>4. CASE InBackground(r) /\ r.answer # "none"
  <2>1. Closed(r) = Answered(r, r.answer)
    BY <1>4 DEF Closed, InBackground
  <2>2. QED
    BY <2>1, <1>4, <1>1, AnsweredEnded
<1>5. CASE r.step # "idle" /\ ~InBackground(r)
  <2>1. Closed(r) = Answered(r, "refused")
    BY <1>5 DEF Closed
  <2>2. QED
    BY <2>1, <1>5, <1>1, AnsweredEnded
<1>6. QED
  BY <1>2, <1>3, <1>4, <1>5

\* Taking its answer changes nothing else of a request.
LEMMA TakenShaped ==
    ASSUME NEW r \in Requests, Shaped(r)
    PROVE  \/ Ended(Taken(r))
           \/ /\ Taken(r) = [r EXCEPT !.answer = "none"]
              /\ Taken(r) \in Requests /\ Shaped(Taken(r))
<1>1. CASE r.step = "idle"
  <2>1. Taken(r) = Idle
    BY <1>1 DEF Taken
  <2>2. QED
    BY <2>1, IdleEnded
<1>2. CASE r.step # "idle"
  <2>1. Taken(r) = [r EXCEPT !.answer = "none"]
    BY <1>2 DEF Taken
  <2>2. Taken(r) \in Requests
    BY <2>1 DEF Requests, Answers
  <2>3. Shaped(Taken(r))
    BY <2>1 DEF Requests, Shaped, InBackground
  <2>4. QED
    BY <2>1, <2>2, <2>3
<1>3. QED
  BY <1>1, <1>2

\* What a save writes is a row.
LEMMA WrittenType ==
    ASSUME NEW r \in Requests, r.user # NoAccount, account \in Accounts
    PROVE  Written(r) \in Accounts
<1>1. r.user \in Accounts /\ r.token \in Ids
  BY DEF Requests
<1>2. QED
  BY <1>1 DEF Written, Accounts
-----------------------------------------------------------------------------
(***************************************************************************)
(* The API.                                                                *)
(***************************************************************************)
\* Requests that end, or whose answer is taken, disturb nothing that the next
\* mail depends on, unless the API stopped.
LEMMA Endings ==
    ASSUME ApiInv, broken' \in BOOLEAN,
           UNCHANGED <<account, onFile, issued, sent, toggled>>,
           request' = [d \in Clients |-> request'[d]],
           \A d \in Clients :
               \/ request'[d] = request[d]
               \/ Ended(request'[d])
               \/ /\ request'[d] = [request[d] EXCEPT !.answer = "none"]
                  /\ request'[d] \in Requests /\ Shaped(request'[d]),
           \/ broken'
           \/ /\ ~broken
              /\ \A d \in Clients :
                    /\ WillMail(request[d]) =>
                           request'[d] \in {request[d], [request[d] EXCEPT !.answer = "none"]}
                    /\ WillMake(request[d]) /\ onFile["verification"] = NoToken =>
                           request'[d] \in {request[d], [request[d] EXCEPT !.answer = "none"]}
    PROVE  ApiInv'
<1>1. \A d \in Clients : request[d] \in Requests /\ Shaped(request[d])
  BY DEF ApiInv, AccountsTypeOK, AllShaped
<1>2. \A d \in Clients : request'[d] \in Requests /\ Shaped(request'[d])
  BY <1>1 DEF Ended
<1>3. AccountsTypeOK' /\ AllShaped'
  BY <1>2 DEF ApiInv, AccountsTypeOK, AllShaped
<1>4. \A d \in Clients :
         \/ request'[d].step = "idle" /\ request'[d].user = NoAccount
         \/ /\ request'[d].op = request[d].op /\ request'[d].step = request[d].step
            /\ request'[d].kind = request[d].kind /\ request'[d].user = request[d].user
            /\ request'[d].stale = request[d].stale /\ request'[d].token = request[d].token
  BY <1>1 DEF Ended, Requests
<1>5. Nobody'
  BY <1>4 DEF ApiInv, Nobody
<1>6. AllCurrent'
  BY <1>4 DEF ApiInv, AllCurrent, Current
<1>7. Numbered'
  BY DEF ApiInv, Numbered
<1>8. AllCoded'
  BY <1>4 DEF ApiInv, AllCoded, Coded
<1>9. Mailed'
  <2>1. SUFFICES ASSUME ~broken', onFile["verification"] # NoToken,
                        onFile["verification"].id \notin sent["verification"]
                 PROVE  \E d \in Clients : WillMail(request[d])'
    BY DEF Mailed
  <2>2. PICK d \in Clients : WillMail(request[d])
    BY <2>1 DEF ApiInv, Mailed
  <2>3. request'[d] \in {request[d], [request[d] EXCEPT !.answer = "none"]}
    BY <2>1, <2>2
  <2>4. WillMail(request[d])'
    BY <2>2, <2>3, <1>1 DEF WillMail, Requests
  <2>5. QED
    BY <2>4
<1>10. Owed'
  <2>1. SUFFICES ASSUME ~broken', account # NoAccount, ~account.verified,
                        onFile["verification"] = NoToken
                 PROVE  \E d \in Clients : WillMake(request[d])'
    BY DEF Owed
  <2>2. PICK d \in Clients : WillMake(request[d])
    BY <2>1 DEF ApiInv, Owed
  <2>3. request'[d] \in {request[d], [request[d] EXCEPT !.answer = "none"]}
    BY <2>1, <2>2
  <2>4. WillMake(request[d])'
    BY <2>2, <2>3, <1>1 DEF WillMake, Requests
  <2>5. QED
    BY <2>4
<1>11. QED
  BY <1>3, <1>5, <1>6, <1>7, <1>8, <1>9, <1>10 DEF ApiInv

\* A request that arrives: what it is after its first statement.
Arrived(x, op) ==
    /\ x \in Requests /\ Shaped(x) /\ x.op = op /\ ~x.stale
    /\ x.step \in {"idle", "create", "cooldown", "delete", "present", "save"}
    /\ x.answer # "none" => x.step = "idle"
    /\ x.step = "save" => op \in {"avatar", "provider"}
    /\ x.user # NoAccount => x.user = account /\ account # NoAccount
    /\ account = NoAccount => x.step \in {"idle", "create", "present"}

\* A request that begins is that of a free client and changes nothing but itself: what is
\* loaded for it leaves it answered, or at the first step of its operation.
LEMMA BeginArrives ==
    ASSUME AccountsTypeOK, NEW c \in Clients, NEW op \in Ops, NEW token \in Ids,
           Begin(c, op, token)
    PROVE  /\ Free(c)
           /\ UNCHANGED <<account, onFile, issued, sent, toggled, broken>>
           /\ \E x \in Requests : Arrived(x, op) /\ request' = [request EXCEPT ![c] = x]
<1> DEFINE r == [Idle EXCEPT !.op = op, !.token = token]
<1>1. /\ r \in Requests /\ r.op = op /\ r.step = "idle" /\ r.user = NoAccount
      /\ ~r.stale /\ r.answer = "none" /\ r.token = token
  BY IdleEnded DEF Ended, Requests, Idle
<1>2. Free(c) /\ UNCHANGED <<account, onFile, issued, sent, toggled, broken>>
  BY DEF Begin
<1>3. \A a \in Answers : Arrived(Answered(r, a), op)
  <2>1. TAKE a \in Answers
  <2>2. Ended(Answered(r, a)) /\ Answered(r, a).op = op
    BY <1>1, AnsweredEnded
  <2>3. ~Answered(r, a).stale
    BY <1>1, IdleEnded DEF Answered, Ended, Requests, Idle
  <2>4. QED
    BY <2>2, <2>3 DEF Arrived, Ended
<1>4. {"ok", "refused", "provider"} \subseteq Answers
  BY DEF Answers
<1>5. account \in Accounts \/ account = NoAccount
  BY DEF AccountsTypeOK
<1>6. /\ \A k \in Kinds : \A st \in {"create", "cooldown", "delete", "present", "save"} :
            [r EXCEPT !.kind = k, !.step = st] \in Requests
      /\ \A k \in Kinds : \A st \in {"cooldown", "present", "save"} : account \in Accounts =>
            [r EXCEPT !.user = account, !.kind = k, !.step = st] \in Requests
      /\ [r EXCEPT !.step = "create"] \in Requests
      /\ account \in Accounts => [r EXCEPT !.user = account, !.step = "save"] \in Requests
  BY <1>1 DEF Requests, Steps
<1> DEFINE Goal == \E x \in Requests : Arrived(x, op) /\ Become(c, x)
<1>g. \A x : Arrived(x, op) /\ Become(c, x) => Goal
  BY DEF Arrived
<1>a. \A a \in Answers : Become(c, Answered(r, a)) => Goal
  BY <1>3, <1>g
<1> SUFFICES Goal
  BY <1>2 DEF Become
<1> HIDE DEF Goal
<1>7. CASE op = "sign-up"
  <2>1. LoadSignUp(c, r)
    BY <1>7 DEF Begin, Presented, Guarded
  <2>2. Arrived([r EXCEPT !.step = "create"], op)
    BY <1>1, <1>6, <1>7 DEF Arrived, Requests, Shaped, Mailing
  <2>3. QED
    BY <2>1, <2>2, <1>a, <1>4, <1>g DEF LoadSignUp
<1>8. CASE op = "sign-in"
  <2>1. LoadSignIn(c, r)
    BY <1>8 DEF Begin, Presented, Guarded
  <2>2. ASSUME account # NoAccount, NEW k \in Kinds, NEW st \in {"cooldown", "present"},
               st = "present" => k = "otp"
        PROVE  Arrived([r EXCEPT !.kind = k, !.step = st], op)
    <3> DEFINE x == [r EXCEPT !.kind = k, !.step = st]
    <3>1. x \in Requests
      BY <1>6
    <3>2. x.op = "sign-in" /\ x.step = st /\ x.kind = k /\ x.user = NoAccount /\ ~x.stale
          /\ x.answer = "none"
      BY <1>1, <1>8 DEF Requests
    <3> HIDE DEF x
    <3>3. Shaped(x)
      BY <2>2, <3>2 DEF Shaped, Mailing
    <3>4. Arrived(x, op)
      BY <2>2, <1>8, <3>1, <3>2, <3>3 DEF Arrived
    <3>5. QED
      BY <3>4 DEF x
  <2>3. {"verification", "otp"} \subseteq Kinds
    BY DEF Kinds
  <2>4. CASE Become(c, Answered(r, "refused"))
    BY <2>4, <1>a, <1>4, <1>g
  <2>5. CASE account # NoAccount /\ ~account.verified
    <3>1. CASE Become(c, [r EXCEPT !.kind = "verification", !.step = "cooldown"])
      BY <3>1, <2>2, <2>3, <2>5, <1>g
    <3>2. QED
      BY <3>1, <2>1, <2>4, <2>5 DEF LoadSignIn
  <2>6. CASE account # NoAccount /\ account.verified /\ ~account.needOtp
    <3>1. CASE Become(c, Answered(r, "ok"))
      BY <3>1, <1>a, <1>4, <1>g
    <3>2. QED
      BY <3>1, <2>1, <2>4, <2>6 DEF LoadSignIn
  <2>7. CASE account # NoAccount /\ account.verified /\ account.needOtp
    <3>1. ASSUME NEW st \in {"cooldown", "present"},
                 Become(c, [r EXCEPT !.kind = "otp", !.step = st])
          PROVE  Goal
      BY <3>1, <2>2, <2>3, <2>7, <1>g
    <3>2. Become(c, [r EXCEPT !.kind = "otp",
                              !.step = IF r.token = 0 THEN "cooldown" ELSE "present"])
          \/ Goal
      BY <2>1, <2>4, <2>7 DEF LoadSignIn
    <3>3. QED
      BY <3>1, <3>2
  <2>8. QED
    BY <2>1, <2>4, <2>5, <2>6, <2>7 DEF LoadSignIn
<1>9. CASE op = "resend"
  <2>1. LoadResend(c, r)
    BY <1>9 DEF Begin, Presented, Guarded
  <2>2. account # NoAccount => Arrived([r EXCEPT !.kind = "verification", !.step = "cooldown"], op)
    BY <1>1, <1>6, <1>9 DEF Arrived, Requests, Shaped, Mailing, Kinds
  <2>3. QED
    BY <2>1, <2>2, <1>a, <1>4, <1>g DEF LoadResend
<1>10. CASE op = "forgot"
  <2>1. LoadForgot(c, r)
    BY <1>10 DEF Begin, Presented, Guarded
  <2>2. account # NoAccount => Arrived([r EXCEPT !.kind = "reset", !.step = "delete"], op)
    BY <1>1, <1>6, <1>10 DEF Arrived, Requests, Shaped, Mailing, Kinds
  <2>3. CASE account = NoAccount
    BY <2>1, <2>3, <1>a, <1>4, <1>g DEF LoadForgot
  <2>4. CASE account # NoAccount /\ account.provider
    BY <2>1, <2>4, <1>a, <1>4, <1>g DEF LoadForgot
  <2>5. CASE account # NoAccount /\ ~account.provider
    BY <2>1, <2>2, <2>5, <1>g DEF LoadForgot
  <2>6. QED
    BY <2>3, <2>4, <2>5
<1>11. CASE op = "provider"
  <2>1. LoadProvider(c, r)
    BY <1>11 DEF Begin, Presented, Guarded
  <2>2. Arrived([r EXCEPT !.step = "create"], op)
    BY <1>1, <1>6, <1>11 DEF Arrived, Requests, Shaped, Mailing
  <2>3. account # NoAccount => Arrived([r EXCEPT !.user = account, !.step = "save"], op)
    BY <1>1, <1>5, <1>6, <1>11 DEF Arrived, Requests, Shaped, Mailing
  <2>4. CASE account = NoAccount
    BY <2>1, <2>2, <2>4, AccountsAssumption, <1>a, <1>4, <1>g DEF LoadProvider
  <2>5. CASE account # NoAccount /\ account.provider /\ account.verified
    BY <2>1, <2>5, <1>a, <1>4, <1>g DEF LoadProvider
  <2>6. CASE account # NoAccount /\ ~(account.provider /\ account.verified)
    BY <2>1, <2>3, <2>6, <1>g DEF LoadProvider
  <2>7. QED
    BY <2>4, <2>5, <2>6
<1>12. CASE op \in Presented
  <2>1. Become(c, [r EXCEPT !.kind = Presents(op), !.step = "present"])
    BY <1>12 DEF Begin, Presented, Guarded
  <2>2. Presents(op) \in Kinds /\ (Presents(op) = IF op = "verify" THEN "verification" ELSE "reset")
    BY DEF Presents, Kinds
  <2>3. Arrived([r EXCEPT !.kind = Presents(op), !.step = "present"], op)
    BY <2>2, <1>1, <1>6, <1>12 DEF Arrived, Requests, Shaped, Mailing, Presented
  <2>4. QED
    BY <2>1, <2>3, <1>g
<1>13. CASE op \in Guarded
  <2>1. LoadGuarded(c, r)
    BY <1>13 DEF Begin, Presented, Guarded
  <2>2. CASE ~GuardAdmits
    BY <2>1, <2>2, <1>a, <1>4, <1>g DEF LoadGuarded
  <2>3. CASE GuardAdmits
    <3>1. account # NoAccount /\ account.verified /\ account \in Accounts
      BY <2>3, <1>5 DEF GuardAdmits
    <3>2. CASE op = "send-otp"
      <4>1. Arrived([r EXCEPT !.user = account, !.kind = "otp", !.step = "cooldown"], op)
        BY <3>1, <3>2, <1>1, <1>6 DEF Arrived, Requests, Shaped, Mailing, Kinds
      <4>2. Become(c, [r EXCEPT !.user = account, !.kind = "otp", !.step = "cooldown"])
        BY <2>1, <2>3, <3>2, <1>1 DEF LoadGuarded
      <4>3. QED
        BY <4>1, <4>2, <1>g
    <3>3. CASE op = "toggle-otp"
      <4>1. Arrived([r EXCEPT !.user = account, !.kind = "otp", !.step = "present"], op)
        BY <3>1, <3>3, <1>1, <1>6 DEF Arrived, Requests, Shaped, Mailing, Kinds
      <4>2. Become(c, [r EXCEPT !.user = account, !.kind = "otp", !.step = "present"])
        BY <2>1, <2>3, <3>3, <1>1 DEF LoadGuarded
      <4>3. QED
        BY <4>1, <4>2, <1>g
    <3>4. CASE op = "avatar"
      <4>1. Arrived([r EXCEPT !.user = account, !.kind = "otp", !.step = "save"], op)
        BY <3>1, <3>4, <1>1, <1>6 DEF Arrived, Requests, Shaped, Mailing, Kinds
      <4>2. Become(c, [r EXCEPT !.user = account, !.kind = "otp", !.step = "save"])
        BY <2>1, <2>3, <3>4, <1>1 DEF LoadGuarded
      <4>3. QED
        BY <4>1, <4>2, <1>g
    <3>5. QED
      BY <3>2, <3>3, <3>4, <1>13 DEF Guarded
  <2>4. QED
    BY <2>2, <2>3
<1>14. QED
  BY <1>7, <1>8, <1>9, <1>10, <1>11, <1>12, <1>13 DEF Ops, Presented, Guarded

\* A request that moves on by itself: what it has to be for the requests to stay
\* shaped and current.
LEMMA Moving ==
    ASSUME ApiInv, NEW c \in Clients, NEW x \in Requests, Shaped(x),
           account' = account, request' = [request EXCEPT ![c] = x],
           \/ x.user = NoAccount
           \/ x.user = request[c].user /\ x.stale = request[c].stale
           \/ x.user = account,
           \/ account # NoAccount
           \/ /\ onFile' = onFile /\ x.user = NoAccount
              /\ x.step \in {"idle", "create", "present"}
    PROVE  /\ request' \in [Clients -> Requests]
           /\ request'[c] = x /\ \A d \in Clients \ {c} : request'[d] = request[d]
           /\ AllShaped' /\ Nobody' /\ AllCurrent'
<1>1. request \in [Clients -> Requests] /\ AllShaped /\ Nobody /\ AllCurrent
  BY DEF ApiInv, AccountsTypeOK
<1>2. /\ request' \in [Clients -> Requests]
      /\ request'[c] = x /\ \A d \in Clients \ {c} : request'[d] = request[d]
  BY <1>1
<1>3. AllShaped'
  BY <1>1, <1>2 DEF AllShaped
<1>4. Nobody'
  BY <1>1, <1>2 DEF Nobody
<1>5. AllCurrent'
  BY <1>1, <1>2 DEF AllCurrent, Current
<1>6. QED
  BY <1>2, <1>3, <1>4, <1>5

\* The witnesses of what the next mail depends on are others than c, or c still.
LEMMA MailKept ==
    ASSUME Mailed, NEW c \in Clients, UNCHANGED <<onFile, sent>>, ~broken' => ~broken,
           \A d \in Clients \ {c} : WillMail(request[d]) => WillMail(request[d])',
           request[c].step # "mail"
    PROVE  Mailed'
<1>1. SUFFICES ASSUME ~broken', onFile["verification"] # NoToken,
                      onFile["verification"].id \notin sent["verification"]
               PROVE  \E d \in Clients : WillMail(request[d])'
  BY DEF Mailed
<1>2. PICK d \in Clients : WillMail(request[d])
  BY <1>1 DEF Mailed
<1>3. d # c
  BY <1>2 DEF WillMail
<1>4. QED
  BY <1>2, <1>3

\* A token that is owed stays owed while each request that was to make one still is.
LEMMA OwedKept ==
    ASSUME Owed, NEW c \in Clients, UNCHANGED <<account, onFile>>, ~broken' => ~broken,
           \A d \in Clients \ {c} : WillMake(request[d]) => WillMake(request[d])',
           WillMake(request[c]) => WillMake(request[c])'
    PROVE  Owed'
<1>1. SUFFICES ASSUME ~broken', account # NoAccount, ~account.verified,
                      onFile["verification"] = NoToken
               PROVE  \E d \in Clients : WillMake(request[d])'
  BY DEF Owed
<1>2. PICK d \in Clients : WillMake(request[d])
  BY <1>1 DEF Owed
<1>3. QED
  BY <1>2

\* A request arrives.
LEMMA BeginKeeps ==
    ASSUME ApiInv, NEW c \in Clients, NEW op \in Ops, NEW token \in Ids, Begin(c, op, token)
    PROVE  ApiInv'
<1>1. AccountsTypeOK
  BY DEF ApiInv
<1>2. /\ Free(c)
      /\ UNCHANGED <<account, onFile, issued, sent, toggled, broken>>
  BY <1>1, BeginArrives
<1>3. PICK x \in Requests : Arrived(x, op) /\ request' = [request EXCEPT ![c] = x]
  BY <1>1, BeginArrives
<1>4. request[c].step = "idle"
  BY <1>2 DEF Free, Idle
<1>5. /\ request' \in [Clients -> Requests]
      /\ request'[c] = x /\ \A d \in Clients \ {c} : request'[d] = request[d]
      /\ AllShaped' /\ Nobody' /\ AllCurrent'
  BY <1>2, <1>3, Moving DEF Arrived
<1>6. AccountsTypeOK'
  BY <1>1, <1>2, <1>5 DEF AccountsTypeOK
<1>7. Numbered'
  BY <1>2 DEF ApiInv, Numbered
<1>8. AllCoded'
  <2>1. ASSUME NEW d \in Clients PROVE Coded(d)'
    BY <1>2, <1>3, <1>5 DEF ApiInv, AllCoded, Coded, Arrived
  <2>2. QED
    BY <2>1 DEF AllCoded
<1>9. Mailed'
  BY <1>2, <1>4, <1>5, MailKept DEF ApiInv, WillMail
<1>10. Owed'
  <2>1. ~WillMake(request[c])
    BY <1>4 DEF WillMake
  <2>2. QED
    BY <2>1, <1>2, <1>5, OwedKept DEF ApiInv, WillMake
<1>11. QED
  BY <1>5, <1>6, <1>7, <1>8, <1>9, <1>10 DEF ApiInv

\* A request that goes on reading, and writes nothing: Present that finds the
\* token, Copy, Cooldown that is over.
LEMMA GoesOn ==
    ASSUME ApiInv, NEW c \in Clients, NEW x \in Requests, Shaped(x), account # NoAccount,
           UNCHANGED <<account, onFile, issued, sent, toggled, broken>>,
           request' = [request EXCEPT ![c] = x],
           \/ x.user = request[c].user /\ x.stale = request[c].stale
           \/ x.user = account,
           request[c].step # "mail",
           WillMake(request[c]) => WillMake(x),
           x.op = "toggle-otp" => /\ x.step = "remove"
                                  /\ onFile["otp"] # NoToken /\ onFile["otp"].id = x.token
    PROVE  ApiInv'
<1>1. /\ request' \in [Clients -> Requests]
      /\ request'[c] = x /\ \A d \in Clients \ {c} : request'[d] = request[d]
      /\ AllShaped' /\ Nobody' /\ AllCurrent'
  BY Moving
<1>2. AccountsTypeOK'
  BY <1>1 DEF ApiInv, AccountsTypeOK
<1>3. Numbered'
  BY DEF ApiInv, Numbered
<1>4. AllCoded'
  <2>1. Coded(c)'
    BY <1>1 DEF ApiInv, Numbered, Coded, Kinds
  <2>2. ASSUME NEW d \in Clients \ {c} PROVE Coded(d)'
    BY <1>1 DEF ApiInv, AllCoded, Coded
  <2>3. QED
    BY <2>1, <2>2 DEF AllCoded
<1>5. Mailed'
  BY <1>1, MailKept DEF ApiInv, WillMail
<1>6. Owed'
  <2>1. WillMake(request[c]) => WillMake(request[c])'
    BY <1>1 DEF WillMake
  <2>2. QED
    BY <2>1, <1>1, OwedKept DEF ApiInv, WillMake
<1>7. QED
  BY <1>1, <1>2, <1>3, <1>4, <1>5, <1>6 DEF ApiInv

\* One request that is answered and was about to do nothing the next mail needs.
LEMMA ReplyKeeps ==
    ASSUME ApiInv, NEW c \in Clients, NEW a \in Answers, Reply(c, a),
           UNCHANGED <<account, onFile, issued, sent, toggled, broken>>,
           request[c].step # "mail",
           WillMake(request[c]) => onFile["verification"] # NoToken
    PROVE  ApiInv'
<1>1. request \in [Clients -> Requests] /\ broken \in BOOLEAN
  BY DEF ApiInv, AccountsTypeOK
<1>2. Ended(Answered(request[c], a))
  BY <1>1, AnsweredEnded
<1>3. request' = [request EXCEPT ![c] = Answered(request[c], a)]
  BY DEF Reply, Become
<1>4. request'[c] = Answered(request[c], a) /\ \A d \in Clients \ {c} : request'[d] = request[d]
  BY <1>1, <1>3
<1>5. request' = [d \in Clients |-> request'[d]]
  BY <1>1, <1>3
<1>6. ~WillMail(request[c])
  BY DEF WillMail
<1>7. \A d \in Clients : request'[d] = request[d] \/ Ended(request'[d])
  BY <1>2, <1>4
<1>8. broken' = broken
  OBVIOUS
<1>9. CASE broken
  BY <1>1, <1>5, <1>7, <1>8, <1>9, Endings
<1>10. CASE ~broken
  <2>1. \A d \in Clients :
          /\ WillMail(request[d]) => request'[d] = request[d]
          /\ WillMake(request[d]) /\ onFile["verification"] = NoToken => request'[d] = request[d]
    BY <1>4, <1>6
  <2>2. QED
    BY <2>1, <1>1, <1>5, <1>7, <1>8, <1>10, Endings
<1>11. QED
  BY <1>1, <1>9, <1>10

\* An error while making a token, when one is on file.
LEMMA FailKeeps ==
    ASSUME ApiInv, NEW c \in Clients, NEW a \in Answers, Fail(c, a),
           UNCHANGED <<account, onFile, issued, sent, toggled>>,
           request[c].step # "mail",
           WillMake(request[c]) => onFile["verification"] # NoToken
    PROVE  ApiInv'
<1>1. CASE ~InBackground(request[c])
  BY <1>1, ReplyKeeps DEF Fail
<1>2. CASE InBackground(request[c])
  <2>1. request' = [d \in Clients |-> Closed(request[d])] /\ broken' = TRUE
    BY <1>2 DEF Fail
  <2>2. \A d \in Clients : request[d] \in Requests /\ Shaped(request[d])
    BY DEF ApiInv, AccountsTypeOK, AllShaped
  <2>3. \A d \in Clients : Ended(request'[d])
    BY <2>1, <2>2, ClosedEnded
  <2>4. broken' \in BOOLEAN /\ broken' /\ request' = [d \in Clients |-> request'[d]]
    BY <2>1
  <2>5. QED
    BY <2>3, <2>4, Endings
<1>3. QED
  BY <1>1, <1>2

\* The account is made.
LEMMA CreateKeeps == ASSUME ApiInv, NEW c \in Clients, Create(c) PROVE ApiInv'
<1> DEFINE r == request[c]
<1>1. /\ request \in [Clients -> Requests] /\ AllShaped /\ Nobody /\ r.step = "create"
      /\ UNCHANGED <<onFile, issued, sent, toggled, broken>>
  BY DEF ApiInv, AccountsTypeOK, Create, AtStep
<1>2. CASE account # NoAccount
  <2>1. Reply(c, "refused") /\ account' = account /\ ~WillMake(r)
    BY <1>1, <1>2 DEF Create, WillMake
  <2>2. "refused" \in Answers
    BY DEF Answers
  <2>3. QED
    BY <1>1, <2>1, <2>2, ReplyKeeps
<1>3. CASE account = NoAccount
  <2>1. /\ \A k \in Kinds : onFile[k] = NoToken
        /\ \A d \in Clients : /\ request[d].user = NoAccount
                              /\ request[d].step \in {"idle", "create", "present"}
    BY <1>1, <1>3 DEF Nobody
  <2>2. SignedUp \in Accounts /\ Provided \in Accounts /\ ~SignedUp.verified /\ Provided.verified
    BY IdsNumbers DEF SignedUp, Provided, Accounts
  <2>3. PICK x \in Requests :
          /\ Shaped(x) /\ x.user = NoAccount /\ x.op # "toggle-otp"
          /\ request' = [request EXCEPT ![c] = x]
          /\ account' = IF r.op = "provider" THEN Provided ELSE SignedUp
          /\ r.op # "provider" => x.step = "cooldown" /\ x.kind = "verification"
    <3>1. CASE r.op = "provider"
      <4>1. Ended(Answered(r, "ok")) /\ Answered(r, "ok").op = r.op
        BY <1>1, AnsweredEnded DEF Answers
      <4>2. request' = [request EXCEPT ![c] = Answered(r, "ok")] /\ account' = Provided
        BY <1>3, <3>1 DEF Create, Reply, Become
      <4>3. QED
        BY <4>1, <4>2, <3>1 DEF Ended
    <3>2. CASE r.op # "provider"
      <4> DEFINE x == [r EXCEPT !.kind = "verification", !.step = "cooldown", !.answer = "ok"]
      <4>1. r \in Requests /\ r.op = "sign-up" /\ r.user = NoAccount
        BY <1>1, <2>1, <3>2 DEF AllShaped, Shaped
      <4>2. request' = [request EXCEPT ![c] = x] /\ account' = SignedUp
        BY <1>1, <1>3, <3>2 DEF Create
      <4>3. x \in Requests /\ x.op = "sign-up" /\ x.user = NoAccount
            /\ x.step = "cooldown" /\ x.kind = "verification"
        BY <4>1 DEF Requests, Kinds, Steps, Answers
      <4>4. Shaped(x)
        BY <4>3 DEF Shaped, Mailing, InBackground
      <4>5. QED
        BY <4>2, <4>3, <4>4, <3>2
    <3>3. QED
      BY <3>1, <3>2
  <2>4. /\ request' \in [Clients -> Requests]
        /\ request'[c] = x /\ \A d \in Clients \ {c} : request'[d] = request[d]
        /\ account' \in Accounts /\ account' # NoAccount
    BY <1>1, <2>2, <2>3, NothingAssumption
  <2>5. AccountsTypeOK'
    BY <1>1, <2>4 DEF ApiInv, AccountsTypeOK
  <2>6. AllShaped'
    BY <1>1, <2>3, <2>4 DEF AllShaped
  <2>7. Nobody'
    BY <2>4 DEF Nobody
  <2>8. AllCurrent'
    BY <2>1, <2>3, <2>4 DEF AllCurrent, Current
  <2>9. Numbered'
    BY <1>1 DEF ApiInv, Numbered
  <2>10. AllCoded'
    BY <1>1, <2>3, <2>4 DEF ApiInv, AllCoded, Coded
  <2>11. Mailed'
    BY <1>1, <2>1, MailKept DEF Mailed, Kinds
  <2>12. Owed'
    <3>1. CASE r.op = "provider"
      BY <3>1, <2>2, <2>3 DEF Owed
    <3>2. CASE r.op # "provider"
      BY <3>2, <2>3, <2>4 DEF Owed, WillMake
    <3>3. QED
      BY <3>1, <3>2
  <2>13. QED
    BY <2>5, <2>6, <2>7, <2>8, <2>9, <2>10, <2>11, <2>12 DEF ApiInv
<1>4. QED
  BY <1>2, <1>3

\* Everybody at work on an account has one.
LEMMA Somebody ==
    ASSUME ApiInv, NEW c \in Clients,
           request[c].step \in {"cooldown", "delete", "insert", "mail", "remove", "copy", "save"}
    PROVE  account # NoAccount
BY DEF ApiInv, Nobody

\* The cooldown is looked up.
LEMMA CooldownKeeps == ASSUME ApiInv, NEW c \in Clients, Cooldown(c) PROVE ApiInv'
<1> DEFINE r == request[c]
<1>1. /\ request \in [Clients -> Requests] /\ r.step = "cooldown" /\ Shaped(r)
      /\ UNCHANGED <<account, onFile, issued, sent, toggled>>
  BY DEF ApiInv, AccountsTypeOK, AllShaped, Cooldown, AtStep
<1>2. CASE onFile[r.kind] # NoToken /\ onFile[r.kind].age = "fresh"
  <2>1. /\ "otp_cooldown" \in Answers /\ "email_verification_cooldown" \in Answers
        /\ WillMake(r) => r.kind = "verification"
    BY <1>1 DEF Answers, WillMake
  <2>2. PICK a \in Answers : Fail(c, a)
    BY <1>2, <2>1 DEF Cooldown
  <2>3. QED
    BY <1>1, <1>2, <2>1, <2>2, FailKeeps
<1>3. CASE ~(onFile[r.kind] # NoToken /\ onFile[r.kind].age = "fresh")
  <2> DEFINE x == [r EXCEPT !.step = "delete"]
  <2>1. request' = [request EXCEPT ![c] = x] /\ broken' = broken
    BY <1>3 DEF Cooldown, Go, Become
  <2>2. /\ x \in Requests /\ x.user = r.user /\ x.stale = r.stale /\ x.op = r.op
        /\ x.step = "delete" /\ x.kind = r.kind /\ x.answer = r.answer
    BY <1>1 DEF Requests, Steps
  <2>3. Shaped(x) /\ x.op # "toggle-otp"
    BY <1>1, <2>2 DEF Shaped, Mailing, InBackground
  <2>4. WillMake(r) => WillMake(x)
    BY <1>1, <2>2 DEF WillMake
  <2>5. QED
    BY <1>1, <2>1, <2>2, <2>3, <2>4, Somebody, GoesOn
<1>4. QED
  BY <1>2, <1>3

\* The token on file goes, before another is made.
LEMMA DeleteKeeps == ASSUME ApiInv, NEW c \in Clients, Delete(c) PROVE ApiInv'
<1> DEFINE r == request[c]
           x == [r EXCEPT !.step = "insert"]
<1>1. /\ request \in [Clients -> Requests] /\ r.step = "delete" /\ Shaped(r) /\ r \in Requests
      /\ UNCHANGED <<account, issued, sent, toggled, broken>>
      /\ onFile' = [onFile EXCEPT ![r.kind] = NoToken]
      /\ request' = [request EXCEPT ![c] = x]
  BY DEF ApiInv, AccountsTypeOK, AllShaped, Delete, AtStep, Go, Become
<1>2. /\ x \in Requests /\ x.user = r.user /\ x.stale = r.stale /\ x.op = r.op
      /\ x.step = "insert" /\ x.kind = r.kind /\ x.answer = r.answer /\ r.kind \in Kinds
  BY <1>1 DEF Requests, Steps
<1>3. Shaped(x) /\ x.op # "toggle-otp"
  BY <1>1, <1>2 DEF Shaped, Mailing, InBackground
<1>4. account # NoAccount
  BY <1>1, Somebody
<1>5. /\ request' \in [Clients -> Requests]
      /\ request'[c] = x /\ \A d \in Clients \ {c} : request'[d] = request[d]
      /\ AllShaped' /\ Nobody' /\ AllCurrent'
  BY <1>1, <1>2, <1>3, <1>4, Moving
<1>6. /\ onFile' \in [Kinds -> Tokens \union {NoToken}]
      /\ \A k \in Kinds : onFile'[k] = NoToken \/ onFile'[k] = onFile[k]
      /\ onFile'[r.kind] = NoToken /\ \A k \in Kinds \ {r.kind} : onFile'[k] = onFile[k]
  BY <1>1, <1>2 DEF ApiInv, AccountsTypeOK
<1>7. AccountsTypeOK'
  BY <1>1, <1>5, <1>6 DEF ApiInv, AccountsTypeOK
<1>8. {"otp", "verification"} \subseteq Kinds
  BY DEF Kinds
<1>9. Numbered'
  BY <1>1, <1>6, <1>8 DEF ApiInv, Numbered
<1>10. AllCoded'
  <2>1. ASSUME NEW d \in Clients PROVE Coded(d)'
    BY <1>1, <1>3, <1>5, <1>6, <1>8 DEF ApiInv, AllCoded, Coded
  <2>2. QED
    BY <2>1 DEF AllCoded
<1>11. Mailed'
  <2>1. SUFFICES ASSUME ~broken', onFile'["verification"] # NoToken,
                        onFile'["verification"].id \notin sent'["verification"]
                 PROVE  \E d \in Clients : WillMail(request[d])'
    BY DEF Mailed
  <2>2. onFile'["verification"] = onFile["verification"]
    BY <2>1, <1>6, <1>8
  <2>3. PICK d \in Clients : WillMail(request[d])
    BY <2>1, <2>2, <1>1 DEF ApiInv, Mailed
  <2>4. d # c
    BY <2>3, <1>1 DEF WillMail
  <2>5. QED
    BY <2>2, <2>3, <2>4, <1>5 DEF WillMail
<1>12. Owed'
  <2>1. CASE r.kind = "verification"
    BY <2>1, <1>2, <1>5 DEF Owed, WillMake
  <2>2. CASE r.kind # "verification"
    <3>1. SUFFICES ASSUME ~broken', ~account.verified, onFile["verification"] = NoToken
                   PROVE  \E d \in Clients : WillMake(request[d])'
      BY <2>2, <1>1, <1>6, <1>8 DEF Owed
    <3>2. PICK d \in Clients : WillMake(request[d])
      BY <3>1, <1>1, <1>4 DEF ApiInv, Owed
    <3>3. d # c
      BY <3>2, <2>2, <1>1 DEF WillMake
    <3>4. QED
      BY <3>2, <3>3, <1>5 DEF WillMake
  <2>3. QED
    BY <2>1, <2>2
<1>13. QED
  BY <1>5, <1>7, <1>9, <1>10, <1>11, <1>12 DEF ApiInv

\* A new token is put on file, unless another request has just put one.
LEMMA InsertKeeps == ASSUME ApiInv, NEW c \in Clients, Insert(c) PROVE ApiInv'
<1> DEFINE r == request[c]
           n == issued[r.kind] + 1
           x == [r EXCEPT !.token = n, !.step = "mail"]
<1>1. /\ request \in [Clients -> Requests] /\ r.step = "insert" /\ Shaped(r) /\ r \in Requests
      /\ UNCHANGED <<account, sent, toggled>>
  BY DEF ApiInv, AccountsTypeOK, AllShaped, Insert, AtStep
<1>2. CASE onFile[r.kind] # NoToken
  <2>1. Fail(c, "refused") /\ UNCHANGED <<onFile, issued>> /\ "refused" \in Answers
    BY <1>2 DEF Insert, Answers
  <2>2. WillMake(r) => r.kind = "verification"
    BY <1>1 DEF WillMake
  <2>3. QED
    BY <1>1, <1>2, <2>1, <2>2, FailKeeps
<1>3. CASE onFile[r.kind] = NoToken
  <2>1. /\ issued[r.kind] < MaxIssued[r.kind]
        /\ issued' = [issued EXCEPT ![r.kind] = n]
        /\ onFile' = [onFile EXCEPT ![r.kind] =
                [id |-> n, age |-> IF r.kind = "reset" THEN "valid" ELSE "fresh"]]
        /\ request' = [request EXCEPT ![c] = x]
        /\ broken' = broken
    BY <1>3 DEF Insert
  <2>2. r.kind \in Kinds /\ issued \in [Kinds -> Ids] /\ issued[r.kind] \in Nat /\ n \in Ids \ {0}
    <3>1. r.kind \in Kinds /\ issued \in [Kinds -> Ids]
      BY <1>1 DEF Requests, ApiInv, AccountsTypeOK
    <3>2. issued[r.kind] \in Nat
      BY <3>1, IdsNumbers
    <3>3. QED
      BY <3>1, <3>2, <2>1, IdsNumbers
  <2>3. /\ x \in Requests /\ x.user = r.user /\ x.stale = r.stale /\ x.op = r.op
        /\ x.step = "mail" /\ x.kind = r.kind /\ x.answer = r.answer /\ x.token = n
    BY <1>1, <2>2 DEF Requests, Steps
  <2>4. Shaped(x) /\ x.op # "toggle-otp"
    BY <1>1, <2>3 DEF Shaped, Mailing, InBackground
  <2>5. account # NoAccount
    BY <1>1, Somebody
  <2>6. /\ request' \in [Clients -> Requests]
        /\ request'[c] = x /\ \A d \in Clients \ {c} : request'[d] = request[d]
        /\ AllShaped' /\ Nobody' /\ AllCurrent'
    BY <1>1, <2>1, <2>3, <2>4, <2>5, Moving
  <2>7. /\ onFile' \in [Kinds -> Tokens \union {NoToken}] /\ issued' \in [Kinds -> Ids]
        /\ onFile'[r.kind] # NoToken /\ onFile'[r.kind].id = n /\ issued'[r.kind] = n
        /\ \A k \in Kinds \ {r.kind} : onFile'[k] = onFile[k] /\ issued'[k] = issued[k]
    <3>1. [id |-> n, age |-> IF r.kind = "reset" THEN "valid" ELSE "fresh"] \in Tokens
      BY <2>2 DEF Tokens, Ages
    <3>2. QED
      BY <3>1, <2>1, <2>2, NothingAssumption DEF ApiInv, AccountsTypeOK
  <2>8. AccountsTypeOK'
    BY <1>1, <2>1, <2>6, <2>7 DEF ApiInv, AccountsTypeOK
  <2>9. {"otp", "verification"} \subseteq Kinds /\ toggled \subseteq Nat
        /\ \A d \in Clients : request[d].token \in Nat
        /\ \A k \in Kinds : issued[k] \in Nat
    BY <1>1, <2>2, IdsNumbers DEF Kinds, ApiInv, AccountsTypeOK, Requests
  <2>10. Numbered'
    <3>1. \A k \in Kinds : onFile'[k] # NoToken => onFile'[k].id <= issued'[k]
      <4>1. ASSUME NEW k \in Kinds, onFile'[k] # NoToken PROVE onFile'[k].id <= issued'[k]
        <5>1. CASE k = r.kind
          BY <5>1, <2>2, <2>7
        <5>2. CASE k # r.kind
          BY <4>1, <5>2, <2>7 DEF ApiInv, Numbered
        <5>3. QED
          BY <5>1, <5>2
      <4>2. QED
        BY <4>1
    <3>2. ASSUME NEW t \in toggled
          PROVE  t <= issued'["otp"] /\ (onFile'["otp"] # NoToken => onFile'["otp"].id # t)
      <4>1. t \in Nat /\ t <= issued["otp"] /\ (onFile["otp"] # NoToken => onFile["otp"].id # t)
        BY <2>9 DEF ApiInv, Numbered
      <4>2. CASE r.kind = "otp"
        BY <4>1, <4>2, <2>2, <2>7
      <4>3. CASE r.kind # "otp"
        BY <4>1, <4>3, <2>7, <2>9
      <4>4. QED
        BY <4>2, <4>3
    <3>3. QED
      BY <3>1, <3>2, <1>1 DEF Numbered
  <2>11. AllCoded'
    <3>1. Coded(c)'
      BY <2>4, <2>6 DEF Coded
    <3>2. ASSUME NEW d \in Clients \ {c}, request[d].op = "toggle-otp",
                 request[d].step \in {"remove", "save"}
          PROVE  /\ request[d].token <= issued'["otp"]
                 /\ (request[d].step = "save" /\ onFile'["otp"] # NoToken) =>
                        onFile'["otp"].id # request[d].token
      <4>1. /\ request[d].token \in Nat /\ request[d].token <= issued["otp"]
            /\ (request[d].step = "save" /\ onFile["otp"] # NoToken) =>
                        onFile["otp"].id # request[d].token
        BY <3>2, <2>9 DEF ApiInv, AllCoded, Coded
      <4>2. CASE r.kind = "otp"
        BY <4>1, <4>2, <2>2, <2>7
      <4>3. CASE r.kind # "otp"
        BY <4>1, <4>3, <2>7, <2>9
      <4>4. QED
        BY <4>2, <4>3
    <3>3. ASSUME NEW d \in Clients \ {c} PROVE Coded(d)'
      <4>1. request'[d] = request[d] /\ toggled' = toggled /\ Coded(d)
        BY <2>6, <1>1 DEF ApiInv, AllCoded
      <4>2. QED
        BY <4>1, <3>2 DEF Coded
    <3>4. QED
      BY <3>1, <3>3 DEF AllCoded
  <2>12. Mailed'
    <3>1. CASE r.kind = "verification"
      BY <3>1, <2>3, <2>6, <2>7 DEF Mailed, WillMail
    <3>2. CASE r.kind # "verification"
      <4>1. onFile'["verification"] = onFile["verification"]
        BY <3>2, <2>7, <2>9
      <4>2. SUFFICES ASSUME ~broken', onFile["verification"] # NoToken,
                            onFile["verification"].id \notin sent["verification"]
                     PROVE  \E d \in Clients : WillMail(request[d])'
        BY <4>1, <1>1 DEF Mailed
      <4>3. PICK d \in Clients : WillMail(request[d])
        BY <4>2, <2>1 DEF ApiInv, Mailed
      <4>4. d # c
        BY <4>3, <1>1 DEF WillMail
      <4>5. QED
        BY <4>1, <4>3, <4>4, <2>6 DEF WillMail
    <3>3. QED
      BY <3>1, <3>2
  <2>13. Owed'
    <3>1. CASE r.kind = "verification"
      BY <3>1, <2>7 DEF Owed
    <3>2. CASE r.kind # "verification"
      <4>1. onFile'["verification"] = onFile["verification"]
        BY <3>2, <2>7, <2>9
      <4>2. SUFFICES ASSUME ~broken', ~account.verified, onFile["verification"] = NoToken
                     PROVE  \E d \in Clients : WillMake(request[d])'
        BY <4>1, <1>1 DEF Owed
      <4>3. PICK d \in Clients : WillMake(request[d])
        BY <4>2, <2>1, <2>5 DEF ApiInv, Owed
      <4>4. d # c
        BY <3>2, <4>3, <1>1 DEF WillMake
      <4>5. QED
        BY <4>3, <4>4, <2>6 DEF WillMake
    <3>3. QED
      BY <3>1, <3>2
  <2>14. QED
    BY <2>6, <2>8, <2>10, <2>11, <2>12, <2>13 DEF ApiInv
<1>4. QED
  BY <1>2, <1>3

\* The token a request made is mailed.
LEMMA MailKeeps == ASSUME ApiInv, NEW c \in Clients, Mail(c) PROVE ApiInv'
<1> DEFINE r == request[c]
           x == IF InBackground(r) THEN Closed(r) ELSE Answered(r, MailAnswer(r))
<1>1. /\ request \in [Clients -> Requests] /\ r.step = "mail" /\ Shaped(r) /\ r \in Requests
      /\ UNCHANGED <<account, onFile, issued, toggled, broken>>
      /\ request' = [request EXCEPT ![c] = x]
      /\ sent' = [sent EXCEPT ![r.kind] = @ \union {r.token}]
  BY DEF ApiInv, AccountsTypeOK, AllShaped, Mail, AtStep
<1>2. Ended(x)
  <2>1. MailAnswer(r) \in Answers
    BY DEF MailAnswer, Answers
  <2>2. Ended(Closed(r)) /\ Ended(Answered(r, MailAnswer(r)))
    BY <2>1, <1>1, ClosedEnded, AnsweredEnded
  <2>3. QED
    BY <2>2
<1> HIDE DEF x
<1>3. account # NoAccount
  BY <1>1, Somebody
<1>4. /\ request' \in [Clients -> Requests]
      /\ request'[c] = x /\ \A d \in Clients \ {c} : request'[d] = request[d]
      /\ AllShaped' /\ Nobody' /\ AllCurrent'
  BY <1>1, <1>2, <1>3, Moving DEF Ended
<1>5. /\ sent' \in [Kinds -> SUBSET Ids] /\ r.kind \in Kinds /\ "verification" \in Kinds
      /\ \A k \in Kinds : sent[k] \subseteq sent'[k]
      /\ r.token \in sent'[r.kind]
  BY <1>1 DEF ApiInv, AccountsTypeOK, Requests, Kinds
<1>6. AccountsTypeOK'
  BY <1>1, <1>4, <1>5 DEF ApiInv, AccountsTypeOK
<1>7. Numbered'
  BY <1>1 DEF ApiInv, Numbered
<1>8. AllCoded'
  <2>1. ASSUME NEW d \in Clients PROVE Coded(d)'
    BY <1>1, <1>2, <1>4 DEF ApiInv, AllCoded, Coded, Ended
  <2>2. QED
    BY <2>1 DEF AllCoded
<1>9. Mailed'
  <2>1. SUFFICES ASSUME ~broken, onFile["verification"] # NoToken,
                        onFile["verification"].id \notin sent'["verification"]
                 PROVE  \E d \in Clients : WillMail(request[d])'
    BY <1>1 DEF Mailed
  <2>2. PICK d \in Clients : WillMail(request[d])
    BY <2>1, <1>5 DEF ApiInv, Mailed
  <2>3. d # c
    BY <2>1, <2>2, <1>5 DEF WillMail
  <2>4. QED
    BY <2>2, <2>3, <1>1, <1>4 DEF WillMail
<1>10. Owed'
  <2>1. ~WillMake(r)
    BY <1>1 DEF WillMake
  <2>2. QED
    BY <2>1, <1>1, <1>4, OwedKept DEF ApiInv, WillMake
<1>11. QED
  BY <1>4, <1>6, <1>7, <1>8, <1>9, <1>10 DEF ApiInv

\* A token is looked up.
LEMMA PresentKeeps == ASSUME ApiInv, NEW c \in Clients, Present(c) PROVE ApiInv'
<1> DEFINE r == request[c]
<1>1. /\ request \in [Clients -> Requests] /\ r.step = "present" /\ Shaped(r) /\ r \in Requests
      /\ UNCHANGED <<account, onFile, issued, sent, toggled, broken>>
  BY DEF ApiInv, AccountsTypeOK, AllShaped, Present, AtStep
<1>2. /\ ~WillMake(r) /\ {"ok", "refused"} \subseteq Answers
      /\ r.op \in {"verify", "sign-in", "toggle-otp", "reset", "reset-page"}
  BY <1>1 DEF WillMake, Answers, Shaped
<1>3. ASSUME NEW a \in Answers, Reply(c, a)
      PROVE  ApiInv'
  BY <1>1, <1>2, <1>3, ReplyKeeps
<1>4. CASE ~OnFile(c) \/ (r.kind # "reset" /\ Expired(r.kind))
  <2>1. Reply(c, "refused")
    BY <1>4, <1>1 DEF Present, Shaped
  <2>2. QED
    BY <2>1, <1>2, <1>3
<1>5. CASE OnFile(c) /\ ~(r.kind # "reset" /\ Expired(r.kind))
  <2>1. /\ onFile[r.kind] # NoToken /\ onFile[r.kind].id = r.token /\ r.kind \in Kinds
        /\ account # NoAccount
    BY <1>1, <1>5 DEF OnFile, ApiInv, Nobody, Requests
  <2>2. ASSUME NEW st \in {"copy", "remove"}, Go(c, st),
               st = "copy" => r.op = "reset",
               st = "remove" => r.op \in {"verify", "sign-in", "toggle-otp"}
        PROVE  ApiInv'
    <3> DEFINE x == [r EXCEPT !.step = st]
    <3>1. request' = [request EXCEPT ![c] = x]
      BY <2>2 DEF Go, Become
    <3>2. /\ x \in Requests /\ x.user = r.user /\ x.stale = r.stale /\ x.op = r.op
          /\ x.step = st /\ x.kind = r.kind /\ x.answer = r.answer /\ x.token = r.token
      BY <1>1 DEF Requests, Steps
    <3>3. Shaped(x)
      BY <1>1, <2>2, <3>2 DEF Shaped, Mailing, InBackground
    <3>4. x.op = "toggle-otp" => /\ x.step = "remove"
                                 /\ onFile["otp"] # NoToken /\ onFile["otp"].id = x.token
      BY <1>1, <2>1, <2>2, <3>2 DEF Shaped
    <3> HIDE DEF x
    <3>5. QED
      BY <1>1, <1>2, <2>1, <3>1, <3>2, <3>3, <3>4, GoesOn
  <2>3. CASE r.op = "reset-page"
    <3>1. Reply(c, "ok")
      BY <1>5, <2>3 DEF Present
    <3>2. QED
      BY <3>1, <1>2, <1>3
  <2>4. CASE r.op = "reset"
    <3>1. Go(c, "copy")
      BY <1>5, <2>4 DEF Present
    <3>2. QED
      BY <3>1, <2>2, <2>4
  <2>5. CASE r.op \in {"verify", "sign-in", "toggle-otp"}
    <3>1. Go(c, "remove")
      BY <1>5, <2>5 DEF Present
    <3>2. QED
      BY <3>1, <2>2, <2>5
  <2>6. QED
    BY <1>2, <2>3, <2>4, <2>5
<1>6. QED
  BY <1>4, <1>5

\* The token that was found is taken off file, if it is still there.
LEMMA RemoveKeeps == ASSUME ApiInv, NEW c \in Clients, Remove(c) PROVE ApiInv'
<1> DEFINE r == request[c]
<1>1. /\ request \in [Clients -> Requests] /\ r.step = "remove" /\ Shaped(r) /\ r \in Requests
      /\ UNCHANGED <<account, issued, sent, toggled, broken>>
      /\ onFile' = IF OnFile(c) THEN [onFile EXCEPT ![r.kind] = NoToken] ELSE onFile
  BY DEF ApiInv, AccountsTypeOK, AllShaped, Remove, AtStep
<1>2. account # NoAccount
  BY <1>1, Somebody
<1>3. PICK x \in Requests :
        /\ Shaped(x) /\ request' = [request EXCEPT ![c] = x]
        /\ x.op = r.op /\ (x.user = NoAccount \/ (x.user = r.user /\ x.stale = r.stale))
        /\ r.op = "verify" => x.step = "copy"
        /\ r.op = "toggle-otp" => /\ x.step = "save" /\ x.token = r.token
                                  /\ x.stale = r.stale
  <2>1. CASE r.op = "sign-in"
    <3>1. Ended(Answered(r, "ok")) /\ Answered(r, "ok").op = r.op
      BY <1>1, AnsweredEnded DEF Answers
    <3>2. request' = [request EXCEPT ![c] = Answered(r, "ok")]
      BY <2>1 DEF Remove, Reply, Become
    <3>3. QED
      BY <3>1, <3>2, <2>1 DEF Ended
  <2>2. CASE r.op # "sign-in"
    <3> DEFINE x == [r EXCEPT !.step = AfterRemove(r.op)]
    <3>1. request' = [request EXCEPT ![c] = x]
      BY <2>2 DEF Remove, Go, Become
    <3>2. AfterRemove(r.op) = IF r.op = "verify" THEN "copy" ELSE "save"
      BY <1>1, <2>2 DEF Shaped, AfterRemove
    <3>3. /\ x \in Requests /\ x.user = r.user /\ x.stale = r.stale /\ x.op = r.op
          /\ x.kind = r.kind /\ x.answer = r.answer /\ x.token = r.token
          /\ x.step = IF r.op = "verify" THEN "copy" ELSE "save"
      BY <1>1, <3>2 DEF Requests, Steps
    <3>4. Shaped(x)
      BY <1>1, <2>2, <3>3 DEF Shaped, Mailing, InBackground
    <3> HIDE DEF x
    <3>5. QED
      BY <3>1, <3>3, <3>4
  <2>3. QED
    BY <2>1, <2>2
<1>4. /\ request' \in [Clients -> Requests]
      /\ request'[c] = x /\ \A d \in Clients \ {c} : request'[d] = request[d]
      /\ AllShaped' /\ Nobody' /\ AllCurrent'
  BY <1>1, <1>2, <1>3, Moving
<1>5. /\ onFile' \in [Kinds -> Tokens \union {NoToken}]
      /\ \A k \in Kinds : onFile'[k] = onFile[k] \/ (onFile'[k] = NoToken /\ k = r.kind)
      /\ onFile'[r.kind] # NoToken => onFile'[r.kind].id # r.token
      /\ r.kind \in Kinds /\ {"otp", "verification"} \subseteq Kinds
  BY <1>1 DEF ApiInv, AccountsTypeOK, OnFile, Requests, Kinds
<1>6. AccountsTypeOK'
  BY <1>1, <1>4, <1>5 DEF ApiInv, AccountsTypeOK
<1>7. Numbered'
  BY <1>1, <1>5 DEF ApiInv, Numbered
<1>8. AllCoded'
  <2>1. ASSUME r.op = "toggle-otp" PROVE Coded(c)'
    <3>1. r.kind = "otp" /\ Coded(c)
      BY <1>1, <2>1 DEF Shaped, ApiInv, AllCoded
    <3>2. QED
      BY <1>1, <1>3, <1>4, <1>5, <2>1, <3>1 DEF Coded
  <2>2. ASSUME r.op # "toggle-otp" PROVE Coded(c)'
    BY <2>2, <1>3, <1>4 DEF Coded
  <2>3. ASSUME NEW d \in Clients \ {c} PROVE Coded(d)'
    BY <1>1, <1>4, <1>5 DEF ApiInv, AllCoded, Coded
  <2>4. QED
    BY <2>1, <2>2, <2>3 DEF AllCoded
<1>9. Mailed'
  <2>1. SUFFICES ASSUME ~broken, onFile["verification"] # NoToken,
                        onFile'["verification"] = onFile["verification"],
                        onFile["verification"].id \notin sent["verification"]
                 PROVE  \E d \in Clients : WillMail(request[d])'
    BY <1>1, <1>5 DEF Mailed
  <2>2. PICK d \in Clients : WillMail(request[d])
    BY <2>1 DEF ApiInv, Mailed
  <2>3. d # c
    BY <2>2, <1>1 DEF WillMail
  <2>4. QED
    BY <2>1, <2>2, <2>3, <1>4 DEF WillMail
<1>10. Owed'
  <2>1. CASE r.op = "verify"
    BY <2>1, <1>3, <1>4 DEF Owed, WillMake
  <2>2. CASE r.op # "verify"
    <3>1. ~WillMake(r) /\ onFile'["verification"] = onFile["verification"]
      BY <1>1, <1>5, <2>2 DEF Shaped, WillMake
    <3>2. SUFFICES ASSUME ~broken, ~account.verified, onFile["verification"] = NoToken
                   PROVE  \E d \in Clients : WillMake(request[d])'
      BY <3>1, <1>1 DEF Owed
    <3>3. PICK d \in Clients : WillMake(request[d])
      BY <3>2, <1>2 DEF ApiInv, Owed
    <3>4. QED
      BY <3>1, <3>3, <1>4 DEF WillMake
  <2>3. QED
    BY <2>1, <2>2
<1>11. QED
  BY <1>4, <1>6, <1>7, <1>8, <1>9, <1>10 DEF ApiInv

\* The row is read again before it is saved.
LEMMA CopyKeeps == ASSUME ApiInv, NEW c \in Clients, Copy(c) PROVE ApiInv'
<1> DEFINE r == request[c]
           x == [r EXCEPT !.user = account, !.stale = FALSE, !.step = "save"]
<1>1. /\ request \in [Clients -> Requests] /\ r.step = "copy" /\ Shaped(r) /\ r \in Requests
      /\ UNCHANGED <<account, onFile, issued, sent, toggled, broken>>
      /\ request' = [request EXCEPT ![c] = x]
  BY DEF ApiInv, AccountsTypeOK, AllShaped, Copy, AtStep
<1>2. account # NoAccount /\ account \in Accounts
  BY <1>1, Somebody DEF ApiInv, AccountsTypeOK
<1>3. /\ x \in Requests /\ x.user = account /\ x.op = r.op
      /\ x.step = "save" /\ x.answer = r.answer
  BY <1>1, <1>2 DEF Requests, Steps
<1>4. Shaped(x) /\ x.op # "toggle-otp" /\ (WillMake(r) => WillMake(x))
  BY <1>1, <1>2, <1>3 DEF Shaped, Mailing, InBackground, WillMake
<1> HIDE DEF x
<1>5. QED
  BY <1>1, <1>2, <1>3, <1>4, GoesOn

\* What a save does, in the terms of the invariant.
LEMMA SaveEffect ==
    ASSUME ApiInv, NEW c \in Clients, Save(c)
    PROVE  LET r == request[c] IN
           /\ r \in Requests /\ r.step = "save" /\ r.user \in Accounts
           /\ account \in Accounts /\ account # NoAccount
           /\ r.op \in {"verify", "reset", "toggle-otp", "avatar", "provider"}
           /\ account' = Written(r) /\ account' \in Accounts /\ account' # NoAccount
           /\ UNCHANGED <<onFile, issued, sent>>
           /\ toggled' = toggled \union (IF r.op = "toggle-otp" /\ account'.needOtp # account.needOtp
                                         THEN {r.token} ELSE {})
           /\ broken' = (broken \/ (account.verified /\ ~account'.verified))
           /\ request' \in [Clients -> Requests]
           /\ request'[c] = Answered(r, "ok") /\ Ended(request'[c])
           /\ \A d \in Clients \ {c} :
                request'[d] = [request[d] EXCEPT !.stale =
                    @ \/ (account'.needOtp # account.needOtp /\ request[d].user # NoAccount)]
<1> DEFINE r == request[c]
<1>1. /\ request \in [Clients -> Requests] /\ r.step = "save" /\ Shaped(r) /\ r \in Requests
      /\ UNCHANGED <<onFile, issued, sent>> /\ account' = Written(r)
  BY DEF ApiInv, AccountsTypeOK, AllShaped, Save, AtStep
<1>2. account # NoAccount /\ account \in Accounts
  BY <1>1, Somebody DEF ApiInv, AccountsTypeOK
<1>3. /\ r.user \in Accounts
      /\ r.op \in {"verify", "reset", "toggle-otp", "avatar", "provider"}
  BY <1>1 DEF Shaped, Requests
<1>4. account' \in Accounts /\ account' # NoAccount
  BY <1>1, <1>2, <1>3, WrittenType, NothingAssumption
<1>5. request' = [d \in Clients |->
            IF d = c THEN Answered(r, "ok")
            ELSE [request[d] EXCEPT !.stale =
                    @ \/ (account'.needOtp # account.needOtp /\ request[d].user # NoAccount)]]
  BY DEF Save
<1>6. Ended(Answered(r, "ok"))
  BY <1>1, AnsweredEnded DEF Answers
<1>7. \A d \in Clients : request'[d] \in Requests
  <2>1. ASSUME NEW d \in Clients, d # c PROVE request'[d] \in Requests
    <3>1. request[d] \in Requests
      BY <1>1
    <3>2. request'[d] = [request[d] EXCEPT !.stale =
                    @ \/ (account'.needOtp # account.needOtp /\ request[d].user # NoAccount)]
      BY <1>5, <2>1
    <3>3. QED
      BY <3>1, <3>2 DEF Requests
  <2>2. QED
    BY <2>1, <1>5, <1>6 DEF Ended
<1>8. request' \in [Clients -> Requests]
  BY <1>5, <1>7
<1>9. toggled' = toggled \union (IF r.op = "toggle-otp" /\ account'.needOtp # account.needOtp
                                 THEN {r.token} ELSE {})
  BY DEF Save
<1>10. broken' = (broken \/ (account.verified /\ ~account'.verified))
  BY DEF Save
<1>11. QED
  BY <1>1, <1>2, <1>3, <1>4, <1>5, <1>6, <1>8, <1>9, <1>10

\* What else a save leaves of the other requests.
LEMMA SaveOthers ==
    ASSUME ApiInv, NEW c \in Clients, Save(c), NEW d \in Clients \ {c}
    PROVE  /\ request'[d].op = request[d].op /\ request'[d].step = request[d].step
           /\ request'[d].kind = request[d].kind /\ request'[d].user = request[d].user
           /\ request'[d].token = request[d].token /\ request'[d].answer = request[d].answer
           /\ ~request'[d].stale =>
                /\ ~request[d].stale
                /\ request[d].user # NoAccount => account'.needOtp = account.needOtp
           /\ request[d].user = NoAccount => request'[d].stale = request[d].stale
           /\ account'.needOtp = account.needOtp => request'[d].stale = request[d].stale
<1>1. request[d] \in Requests
  BY DEF ApiInv, AccountsTypeOK
<1>2. request'[d] = [request[d] EXCEPT !.stale =
            @ \/ (account'.needOtp # account.needOtp /\ request[d].user # NoAccount)]
  BY SaveEffect
<1>3. QED
  BY <1>1, <1>2 DEF Requests

\* The row is saved whole, over whatever it has become since.
LEMMA SaveKeeps == ASSUME ApiInv, NEW c \in Clients, Save(c) PROVE ApiInv'
<1> DEFINE r == request[c]
           turned == account'.needOtp # account.needOtp
<1>1. /\ r \in Requests /\ r.step = "save" /\ r.user \in Accounts /\ Shaped(r)
      /\ account \in Accounts /\ account # NoAccount
      /\ account' = Written(r) /\ account' \in Accounts /\ account' # NoAccount
      /\ UNCHANGED <<onFile, issued, sent>>
      /\ toggled' = toggled \union (IF r.op = "toggle-otp" /\ turned THEN {r.token} ELSE {})
      /\ broken' = (broken \/ (account.verified /\ ~account'.verified))
      /\ request' \in [Clients -> Requests] /\ Ended(request'[c])
  BY SaveEffect DEF ApiInv, AllShaped
<1>2. AccountsTypeOK'
  BY <1>1 DEF ApiInv, AccountsTypeOK, Requests
<1>3. AllShaped'
  <2>1. ASSUME NEW d \in Clients \ {c} PROVE Shaped(request'[d])
    BY SaveOthers DEF ApiInv, AllShaped, Shaped, InBackground
  <2>2. QED
    BY <2>1, <1>1 DEF AllShaped, Ended
<1>4. Nobody'
  BY <1>1 DEF Nobody
<1>5. AllCurrent'
  <2>1. ASSUME NEW d \in Clients \ {c} PROVE Current(d)'
    BY SaveOthers DEF ApiInv, AllCurrent, Current
  <2>2. Current(c)'
    BY <1>1 DEF Current, Ended
  <2>3. QED
    BY <2>1, <2>2 DEF AllCurrent
<1>6. Numbered'
  <2>1. r.op = "toggle-otp" => /\ r.token <= issued["otp"]
                               /\ onFile["otp"] # NoToken => onFile["otp"].id # r.token
    BY <1>1 DEF ApiInv, AllCoded, Coded
  <2>2. QED
    BY <2>1, <1>1 DEF ApiInv, Numbered
<1>7. AllCoded'
  <2>1. ASSUME NEW d \in Clients \ {c}, request[d].op = "toggle-otp",
               request[d].step \in {"remove", "save"}
        PROVE  Coded(d)'
    <3>1. /\ request'[d].op = request[d].op /\ request'[d].step = request[d].step
          /\ request'[d].token = request[d].token /\ request[d].user # NoAccount
          /\ ~request'[d].stale => ~request[d].stale /\ ~turned
      BY <2>1, SaveOthers DEF ApiInv, AllShaped, Shaped
    <3>2. ~turned => toggled' = toggled
      BY <1>1
    <3>3. Coded(d)
      BY DEF ApiInv, AllCoded
    <3>4. QED
      BY <2>1, <3>1, <3>2, <3>3, <1>1 DEF Coded
  <2>2. ASSUME NEW d \in Clients \ {c},
               ~(request[d].op = "toggle-otp" /\ request[d].step \in {"remove", "save"})
        PROVE  Coded(d)'
    BY <2>2, SaveOthers DEF Coded
  <2>3. Coded(c)'
    BY <1>1 DEF Coded, Ended
  <2>4. QED
    BY <2>1, <2>2, <2>3 DEF AllCoded
<1>8. Mailed'
  <2>1. \A d \in Clients \ {c} : WillMail(request[d]) => WillMail(request[d])'
    BY SaveOthers, <1>1 DEF WillMail
  <2>2. QED
    BY <2>1, <1>1, MailKept DEF ApiInv
<1>9. Owed'
  <2>1. SUFFICES ASSUME ~broken', ~account'.verified, onFile["verification"] = NoToken
                 PROVE  \E d \in Clients : WillMake(request[d])'
    BY <1>1 DEF Owed
  <2>2. ~broken /\ ~account.verified
    BY <2>1, <1>1
  <2>3. PICK d \in Clients : WillMake(request[d])
    BY <2>1, <2>2, <1>1 DEF ApiInv, Owed
  <2>4. CASE d = c
    <3>1. r.op = "verify"
      BY <2>3, <2>4, <1>1 DEF WillMake
    <3>2. Written(r).verified
      BY <3>1 DEF Written
    <3>3. QED
      BY <3>2, <2>1, <1>1
  <2>5. CASE d # c
    BY <2>3, <2>5, SaveOthers DEF WillMake
  <2>6. QED
    BY <2>4, <2>5
<1>10. QED
  BY <1>2, <1>3, <1>4, <1>5, <1>6, <1>7, <1>8, <1>9 DEF ApiInv

\* The API stops in the middle of a request.
LEMMA StopKeeps == ASSUME ApiInv, NEW c \in Clients, Stop(c) PROVE ApiInv'
<1>1. /\ request \in [Clients -> Requests] /\ Shaped(request[c])
      /\ UNCHANGED <<account, onFile, issued, sent, toggled>> /\ broken' = TRUE
      /\ request' = [request EXCEPT ![c] = Closed(@)]
  BY DEF ApiInv, AccountsTypeOK, AllShaped, Stop
<1>2. Ended(Closed(request[c]))
  BY <1>1, ClosedEnded
<1>3. /\ \A d \in Clients : request'[d] = request[d] \/ Ended(request'[d])
      /\ request' = [d \in Clients |-> request'[d]]
  BY <1>1, <1>2
<1>4. broken' \in BOOLEAN /\ broken'
  BY <1>1
<1>5. QED
  BY <1>1, <1>3, <1>4, Endings

\* Whatever step of the API.
LEMMA ServeKeeps == ASSUME ApiInv, NEW c \in Clients, Serve(c) PROVE ApiInv'
<1>1. CASE Create(c)
  BY <1>1, CreateKeeps
<1>2. CASE Cooldown(c)
  BY <1>2, CooldownKeeps
<1>3. CASE Delete(c)
  BY <1>3, DeleteKeeps
<1>4. CASE Insert(c)
  BY <1>4, InsertKeeps
<1>5. CASE Mail(c)
  BY <1>5, MailKeeps
<1>6. CASE Present(c)
  BY <1>6, PresentKeeps
<1>7. CASE Remove(c)
  BY <1>7, RemoveKeeps
<1>8. CASE Copy(c)
  BY <1>8, CopyKeeps
<1>9. CASE Save(c)
  BY <1>9, SaveKeeps
<1>10. CASE Stop(c)
  BY <1>10, StopKeeps
<1>11. QED
  BY <1>1, <1>2, <1>3, <1>4, <1>5, <1>6, <1>7, <1>8, <1>9, <1>10 DEF Serve

\* A token ages; it stays the same token.
LEMMA AgeKeeps == ASSUME ApiInv, NEW kind \in Kinds, Age(kind) PROVE ApiInv'
<1>1. /\ UNCHANGED <<account, issued, sent, request, toggled, broken>>
      /\ onFile[kind] # NoToken
      /\ onFile' = [onFile EXCEPT ![kind].age = IF @ = "fresh" THEN "valid" ELSE "expired"]
  BY DEF Age
<1>2. onFile \in [Kinds -> Tokens \union {NoToken}] /\ onFile[kind] \in Tokens
  BY <1>1 DEF ApiInv, AccountsTypeOK
<1>3. onFile'[kind] \in Tokens /\ onFile'[kind].id = onFile[kind].id
  BY <1>1, <1>2 DEF Tokens, Ages
<1>4. \A k \in Kinds : k # kind => onFile'[k] = onFile[k]
  BY <1>1, <1>2
<1>5. onFile' = [k \in Kinds |-> onFile'[k]]
  BY <1>1, <1>2
<1>6. /\ onFile' \in [Kinds -> Tokens \union {NoToken}]
      /\ \A k \in Kinds : /\ onFile'[k] = NoToken <=> onFile[k] = NoToken
                          /\ onFile[k] # NoToken => onFile'[k].id = onFile[k].id
  BY <1>1, <1>2, <1>3, <1>4, <1>5, NothingAssumption
<1>7. {"otp", "verification"} \subseteq Kinds
  BY DEF Kinds
<1>8. AccountsTypeOK'
  BY <1>1, <1>6 DEF ApiInv, AccountsTypeOK
<1>9. AllShaped' /\ AllCurrent' /\ Nobody'
  BY <1>1, <1>6 DEF ApiInv, AllShaped, AllCurrent, Current, Nobody
<1>10. Numbered'
  BY <1>1, <1>6, <1>7 DEF ApiInv, Numbered
<1>11. AllCoded'
  BY <1>1, <1>6, <1>7 DEF ApiInv, AllCoded, Coded
<1>12. Mailed'
  BY <1>1, <1>6, <1>7 DEF ApiInv, Mailed, WillMail
<1>13. Owed'
  BY <1>1, <1>6, <1>7 DEF ApiInv, Owed, WillMake
<1>14. QED
  BY <1>8, <1>9, <1>10, <1>11, <1>12, <1>13 DEF ApiInv

\* An answer is taken.
LEMMA TakeKeeps == ASSUME ApiInv, NEW c \in Clients, Take(c) PROVE ApiInv'
<1>1. /\ request \in [Clients -> Requests] /\ Shaped(request[c]) /\ broken \in BOOLEAN
      /\ UNCHANGED <<account, onFile, issued, sent, toggled, broken>>
      /\ request' = [request EXCEPT ![c] = Taken(@)]
  BY DEF ApiInv, AccountsTypeOK, AllShaped, Take
<1>2. /\ request'[c] = Taken(request[c]) /\ \A d \in Clients \ {c} : request'[d] = request[d]
      /\ request' = [d \in Clients |-> request'[d]] /\ broken' \in BOOLEAN
  BY <1>1
<1>3. CASE request[c].step = "idle"
  <2>1. Ended(request'[c])
    <3>1. Taken(request[c]) = Idle
      BY <1>3 DEF Taken
    <3>2. QED
      BY <3>1, <1>2, IdleEnded
  <2>2. ~WillMail(request[c]) /\ ~WillMake(request[c])
    BY <1>3 DEF WillMail, WillMake
  <2>3. \A d \in Clients : request'[d] = request[d] \/ Ended(request'[d])
    BY <2>1, <1>2
  <2>4. \A d \in Clients :
          /\ WillMail(request[d]) => request'[d] = request[d]
          /\ WillMake(request[d]) /\ onFile["verification"] = NoToken => request'[d] = request[d]
    BY <2>2, <1>2
  <2>5. QED
    BY <2>3, <2>4, <1>1, <1>2, Endings
<1>4. CASE request[c].step # "idle"
  <2>1. Taken(request[c]) = [request[c] EXCEPT !.answer = "none"]
    BY <1>4 DEF Taken
  <2>2. Taken(request[c]) \in Requests /\ Shaped(Taken(request[c]))
    BY <1>1, TakenShaped DEF Ended
  <2>3. \A d \in Clients :
         \/ request'[d] = request[d]
         \/ /\ request'[d] = [request[d] EXCEPT !.answer = "none"]
            /\ request'[d] \in Requests /\ Shaped(request'[d])
    BY <2>1, <2>2, <1>2
  <2>4. QED
    BY <2>3, <1>1, <1>2, Endings
<1>5. QED
  BY <1>3, <1>4
-----------------------------------------------------------------------------
(***************************************************************************)
(* The pages.                                                              *)
(***************************************************************************)
\* What a step of the API is to the one that asked for it.
OwnStep(c) ==
    LET r == request[c] IN
    /\ r.step # "idle"
    /\ request'[c].op = r.op \/ (InBackground(r) /\ request'[c] = Idle)
    /\ ~Save(c) => account' = account \/ (account = NoAccount /\ account' \in Accounts)
    /\ r.op = "send-otp" => account' = account
    /\ (r.op = "toggle-otp" /\ request'[c].step # "idle") => request'[c].stale = r.stale
    /\ (r.op = "toggle-otp" /\ ~Save(c)) =>
            /\ account' = account
            /\ request'[c].step = "idle" => request'[c].answer # "ok"

\* And to the others.
OtherStep(c, d) ==
    \/ request'[d] = request[d]
    \/ request'[d] = Closed(request[d])
    \/ Save(c)

\* Replies and failures.
LEMMA ReplyOwn ==
    ASSUME ApiInv, NEW c \in Clients, NEW a \in Answers, Reply(c, a) \/ Fail(c, a),
           request[c].step # "idle", account' = account,
           request[c].op = "toggle-otp" => a # "ok"
    PROVE  OwnStep(c) /\ \A d \in Clients \ {c} : OtherStep(c, d)
<1> DEFINE r == request[c]
<1>1. request \in [Clients -> Requests] /\ r \in Requests /\ Shaped(r) /\ account = account'
  BY DEF ApiInv, AccountsTypeOK, AllShaped
<1>2. /\ Ended(Answered(r, a)) /\ Answered(r, a).op = r.op /\ Answered(r, a).answer = a
  BY <1>1, AnsweredEnded
<1>3. r.op = "send-otp" \/ r.op = "toggle-otp" => ~InBackground(r)
  BY DEF InBackground
<1>4. CASE Reply(c, a)
  <2>1. /\ request'[c] = Answered(r, a)
        /\ \A d \in Clients \ {c} : request'[d] = request[d]
    BY <1>1, <1>4 DEF Reply, Become
  <2>2. QED
    BY <2>1, <1>1, <1>2 DEF OwnStep, OtherStep, Ended
<1>5. CASE InBackground(r) /\ request' = [d \in Clients |-> Closed(request[d])]
  <2>1. \A d \in Clients : request'[d] = Closed(request[d])
    BY <1>5
  <2>2. Closed(r) = Idle \/ Closed(r).op = r.op
    <3>1. r.answer \in Answers
      BY <1>1 DEF Requests
    <3>2. Answered(r, r.answer).op = r.op
      BY <1>1, <3>1, AnsweredEnded
    <3>3. QED
      BY <1>5, <3>2 DEF Closed, InBackground
  <2>3. QED
    BY <2>1, <2>2, <1>1, <1>3, <1>5 DEF OwnStep, OtherStep
<1>6. QED
  BY <1>4, <1>5 DEF Fail

\* Every step of the API is one, and no other is touched but by its end or a save.
LEMMA ServeSteps ==
    ASSUME ApiInv, NEW c \in Clients, Serve(c)
    PROVE  OwnStep(c) /\ \A d \in Clients \ {c} : OtherStep(c, d)
<1> DEFINE r == request[c]
           Goal == OwnStep(c) /\ \A d \in Clients \ {c} : OtherStep(c, d)
<1>1. request \in [Clients -> Requests] /\ r \in Requests /\ Shaped(r)
  BY DEF ApiInv, AccountsTypeOK, AllShaped
<1>2. {"ok", "refused", "otp_cooldown", "email_verification_cooldown"} \subseteq Answers
  BY DEF Answers
<1>3. ASSUME NEW x \in Requests, request' = [request EXCEPT ![c] = x], x.op = r.op,
             r.step # "idle", x.step # "idle", account' = account,
             r.op = "toggle-otp" => x.stale = r.stale
      PROVE  Goal
  BY <1>1, <1>3 DEF OwnStep, OtherStep
<1>4. CASE Create(c)
  <2>1. r.step = "create" /\ r.op \in {"sign-up", "provider"}
    BY <1>1, <1>4 DEF Create, AtStep, Shaped
  <2>2. CASE account # NoAccount
    <3>1. Reply(c, "refused") /\ account' = account
      BY <1>4, <2>2 DEF Create
    <3>2. QED
      BY <3>1, <2>1, <1>2, ReplyOwn
  <2>3. CASE account = NoAccount
    <3>1. account' \in Accounts
      <4>1. SignedUp \in Accounts /\ Provided \in Accounts
        BY IdsNumbers DEF SignedUp, Provided, Accounts
      <4>2. account' = Provided \/ account' = SignedUp
        BY <1>4, <2>3 DEF Create
      <4>3. QED
        BY <4>1, <4>2
    <3>2. CASE r.op = "provider"
      <4>1. request' = [request EXCEPT ![c] = Answered(r, "ok")]
        BY <1>4, <2>3, <3>2 DEF Create, Reply, Become
      <4>2. Answered(r, "ok").op = r.op
        BY <1>1, <1>2, AnsweredEnded
      <4>3. QED
        BY <4>1, <4>2, <3>1, <3>2, <2>1, <2>3, <1>1 DEF OwnStep, OtherStep
    <3>3. CASE r.op # "provider"
      <4>1. request' = [request EXCEPT ![c].kind = "verification",
                                       ![c].step = "cooldown", ![c].answer = "ok"]
        BY <1>4, <2>3, <3>3 DEF Create
      <4>2. /\ request'[c].op = r.op
            /\ \A d \in Clients \ {c} : request'[d] = request[d]
        BY <4>1, <1>1 DEF Requests
      <4>3. QED
        BY <4>2, <3>1, <2>1, <2>3 DEF OwnStep, OtherStep
    <3>4. QED
      BY <3>2, <3>3
  <2>4. QED
    BY <2>2, <2>3
<1>5. CASE Cooldown(c)
  <2>1. r.step = "cooldown" /\ account' = account /\ r.op # "toggle-otp"
    BY <1>1, <1>5 DEF Cooldown, AtStep, Shaped, Mailing
  <2>2. CASE Fail(c, IF r.kind = "otp" THEN "otp_cooldown" ELSE "email_verification_cooldown")
    <3>1. PICK a \in Answers : Fail(c, a)
      BY <2>2, <1>2
    <3>2. QED
      BY <3>1, <2>1, ReplyOwn
  <2>3. CASE Go(c, "delete")
    <3> DEFINE x == [r EXCEPT !.step = "delete"]
    <3>1. x \in Requests /\ x.op = r.op /\ x.step = "delete"
      BY <1>1 DEF Requests, Steps
    <3>2. request' = [request EXCEPT ![c] = x]
      BY <2>3 DEF Go, Become
    <3> HIDE DEF x
    <3>3. QED
      BY <3>1, <3>2, <2>1, <1>3
  <2>4. QED
    BY <1>5, <2>2, <2>3 DEF Cooldown
<1>6. CASE Delete(c)
  <2> DEFINE x == [r EXCEPT !.step = "insert"]
  <2>1. r.step = "delete" /\ account' = account /\ r.op # "toggle-otp"
    BY <1>1, <1>6 DEF Delete, AtStep, Shaped, Mailing
  <2>2. x \in Requests /\ x.op = r.op /\ x.step = "insert"
    BY <1>1 DEF Requests, Steps
  <2>3. request' = [request EXCEPT ![c] = x]
    BY <1>6 DEF Delete, Go, Become
  <2> HIDE DEF x
  <2>4. QED
    BY <2>1, <2>2, <2>3, <1>3
<1>7. CASE Insert(c)
  <2>1. r.step = "insert" /\ account' = account /\ r.op # "toggle-otp"
    BY <1>1, <1>7 DEF Insert, AtStep, Shaped, Mailing
  <2>2. CASE Fail(c, "refused")
    BY <2>2, <2>1, <1>2, ReplyOwn
  <2>3. CASE request' = [request EXCEPT ![c].token = issued[r.kind] + 1, ![c].step = "mail"]
    <3>1. /\ request'[c].op = r.op
          /\ \A d \in Clients \ {c} : request'[d] = request[d]
      BY <2>3, <1>1 DEF Requests
    <3>2. QED
      BY <3>1, <2>1 DEF OwnStep, OtherStep
  <2>4. QED
    BY <1>7, <2>2, <2>3 DEF Insert
<1>8. CASE Mail(c)
  <2>1. r.step = "mail" /\ account' = account /\ r.op # "toggle-otp"
    BY <1>1, <1>8 DEF Mail, AtStep, Shaped, Mailing
  <2>2. CASE InBackground(r)
    <3>1. request' = [request EXCEPT ![c] = Closed(r)]
      BY <1>8, <2>2 DEF Mail
    <3>2. Closed(r) = Idle \/ Closed(r).op = r.op
      <4>1. r.answer \in Answers
        BY <1>1 DEF Requests
      <4>2. Answered(r, r.answer).op = r.op
        BY <1>1, <4>1, AnsweredEnded
      <4>3. QED
        BY <2>2, <4>2 DEF Closed, InBackground
    <3>3. QED
      BY <3>1, <3>2, <2>1, <2>2, <1>1 DEF OwnStep, OtherStep
  <2>3. CASE ~InBackground(r)
    <3>1. Reply(c, MailAnswer(r)) /\ MailAnswer(r) \in Answers
      BY <1>8, <2>3 DEF Mail, Reply, Become, MailAnswer, Answers
    <3>2. QED
      BY <3>1, <2>1, ReplyOwn
  <2>4. QED
    BY <2>2, <2>3
<1>9. CASE Present(c)
  <2>1. r.step = "present" /\ account' = account
    BY <1>9 DEF Present, AtStep
  <2>2. \/ Reply(c, "refused")
        \/ r.op = "reset-page" /\ Reply(c, "ok")
        \/ Go(c, "copy") \/ Go(c, "remove")
    BY <1>9, <2>1, <1>1 DEF Present, Shaped
  <2>3. ASSUME NEW st \in {"copy", "remove"}, Go(c, st) PROVE Goal
    <3> DEFINE x == [r EXCEPT !.step = st]
    <3>1. x \in Requests /\ x.op = r.op /\ x.step # "idle" /\ x.stale = r.stale
      BY <1>1 DEF Requests, Steps
    <3>2. request' = [request EXCEPT ![c] = x]
      BY <2>3 DEF Go, Become
    <3> HIDE DEF x
    <3>3. QED
      BY <3>1, <3>2, <2>1, <1>3
  <2>4. CASE Reply(c, "refused")
    BY <2>4, <2>1, <1>2, ReplyOwn
  <2>5. CASE r.op = "reset-page" /\ Reply(c, "ok")
    BY <2>5, <2>1, <1>2, ReplyOwn
  <2>6. QED
    BY <2>2, <2>3, <2>4, <2>5
<1>10. CASE Remove(c)
  <2>1. r.step = "remove" /\ account' = account
    BY <1>10 DEF Remove, AtStep
  <2>2. CASE r.op = "sign-in"
    <3>1. Reply(c, "ok")
      BY <1>10, <2>2 DEF Remove
    <3>2. QED
      BY <3>1, <2>1, <2>2, <1>2, ReplyOwn
  <2>3. CASE r.op # "sign-in"
    <3> DEFINE x == [r EXCEPT !.step = AfterRemove(r.op)]
    <3>1. AfterRemove(r.op) \in {"copy", "save"}
      BY <1>1, <2>1, <2>3 DEF Shaped, AfterRemove
    <3>2. x \in Requests /\ x.op = r.op /\ x.step # "idle" /\ x.stale = r.stale
      BY <3>1, <1>1 DEF Requests, Steps
    <3>3. request' = [request EXCEPT ![c] = x]
      BY <1>10, <2>3 DEF Remove, Go, Become
    <3> HIDE DEF x
    <3>4. QED
      BY <3>2, <3>3, <2>1, <1>3
  <2>4. QED
    BY <2>2, <2>3
<1>11. CASE Copy(c)
  <2>1. r.step = "copy" /\ account' = account /\ r.op # "toggle-otp"
    BY <1>1, <1>11 DEF Copy, AtStep, Shaped
  <2>2. /\ request'[c].op = r.op
        /\ \A d \in Clients \ {c} : request'[d] = request[d]
    BY <1>11, <1>1 DEF Copy, Requests
  <2>3. QED
    BY <2>1, <2>2 DEF OwnStep, OtherStep
<1>12. CASE Save(c)
  <2>1. r.step = "save" /\ r.op # "send-otp"
    BY <1>12, SaveEffect
  <2>2. request'[c] = Answered(r, "ok") /\ Ended(Answered(r, "ok"))
    BY <1>12, SaveEffect
  <2>3. Answered(r, "ok").op = r.op
    BY <1>1, <1>2, AnsweredEnded
  <2>4. QED
    BY <2>1, <2>2, <2>3, <1>12 DEF OwnStep, OtherStep, Ended
<1>13. CASE Stop(c)
  <2>1. /\ r.step # "idle" /\ account' = account
        /\ request'[c] = Closed(r)
        /\ \A d \in Clients \ {c} : request'[d] = request[d]
    BY <1>1, <1>13 DEF Stop, AtStep
  <2>2. Ended(Closed(r)) /\ (~InBackground(r) => Closed(r) = Answered(r, "refused"))
    BY <2>1, <1>1, ClosedEnded
  <2>3. r.answer \in Answers
    BY <1>1 DEF Requests
  <2>4. /\ Answered(r, "refused").op = r.op /\ Answered(r, "refused").answer = "refused"
        /\ Answered(r, r.answer).op = r.op
    BY <1>1, <1>2, <2>3, AnsweredEnded
  <2>5. Closed(r).op = r.op \/ (InBackground(r) /\ Closed(r) = Idle)
    BY <2>1, <2>2, <2>4 DEF Closed
  <2>6. r.op = "toggle-otp" => ~InBackground(r)
    BY DEF InBackground
  <2>7. QED
    BY <2>1, <2>2, <2>4, <2>5, <2>6 DEF OwnStep, OtherStep, Ended
<1>14. QED
  BY <1>4, <1>5, <1>6, <1>7, <1>8, <1>9, <1>10, <1>11, <1>12, <1>13 DEF Serve

\* An account stays.
LEMMA AccountStays ==
    ASSUME ApiInv, NEW c \in Clients, Serve(c)
    PROVE  account # NoAccount => account' # NoAccount
<1>1. CASE Save(c)
  BY <1>1, SaveEffect
<1>2. CASE ~Save(c)
  BY <1>2, ServeSteps DEF OwnStep
<1>3. QED
  BY <1>1, <1>2

\* Writing a field anew with its value leaves the record.
LEMMA SameStale == ASSUME NEW r \in Requests, NEW b, b = r.stale PROVE [r EXCEPT !.stale = b] = r
BY DEF Requests

\* The tab whose request is served.
LEMMA SwitchedOwn ==
    ASSUME Inv, NEW c \in Clients, ServeTab(c)
    PROVE  Switched(c)'
<1> DEFINE r == request[c]
           p == page[c]
<1>1. /\ ApiInv /\ Serve(c) /\ OwnStep(c) /\ Switched(c)
      /\ page \in [Clients -> Pages] /\ request \in [Clients -> Requests]
      /\ account # NoAccount => account' # NoAccount
  BY ServeSteps, AccountStays DEF Inv, TypeOK, ApiInv, AccountsTypeOK, AllSwitched, ServeTab
<1>2. page'[c] = p
  BY <1>1 DEF ServeTab
<1>3. r.step # "idle" /\ ~Free(c)
  BY <1>1 DEF OwnStep, Free, Idle
<1>4. CASE r.op = "send-otp"
  <2>1. p.at = "security" /\ account # NoAccount /\ account' = account
    BY <1>1, <1>4 DEF Switched, OwnStep
  <2>2. request'[c].op = "send-otp"
    BY <1>1, <1>4 DEF OwnStep, InBackground
  <2>3. QED
    BY <1>1, <1>2, <1>4, <2>1, <2>2 DEF Switched
<1>5. CASE r.op = "toggle-otp"
  <2>1. /\ p.at = "dialog" \/ (p.at = "security" /\ p.left)
        /\ account # NoAccount /\ account' # NoAccount
        /\ ~p.crossed => /\ ~r.stale /\ account.needOtp = p.prop
                         /\ ~p.left => p.at = "dialog" /\ p.switch = ~p.prop
    BY <1>1, <1>3, <1>5 DEF Switched
  <2>2. request'[c].op = "toggle-otp"
    BY <1>1, <1>5 DEF OwnStep, InBackground
  <2>3. CASE ~Save(c)
    BY <1>1, <1>2, <1>5, <2>1, <2>2, <2>3 DEF Switched, OwnStep
  <2>4. CASE Save(c)
    <3>1. /\ account' = Written(r) /\ request'[c] = Answered(r, "ok") /\ r \in Requests
          /\ r.user # NoAccount /\ account.needOtp \in BOOLEAN
      BY <1>1, <2>4, SaveEffect, NothingAssumption DEF Accounts
    <3>2. request'[c].step = "idle" /\ request'[c].answer = "ok"
      BY <3>1, AnsweredEnded DEF Ended, Answers
    <3>3. ~p.crossed => r.user.needOtp = p.prop
      BY <1>1, <2>1, <3>1 DEF ApiInv, AllCurrent, Current
    <3>4. account'.needOtp = ~r.user.needOtp
      BY <1>5, <3>1 DEF Written
    <3>5. QED
      BY <1>2, <2>1, <2>2, <3>2, <3>3, <3>4 DEF Switched
  <2>5. QED
    BY <2>3, <2>4
<1>6. CASE r.op \notin {"send-otp", "toggle-otp"}
  <2>1. p.at \notin {"security", "dialog"}
    BY <1>1, <1>3, <1>6 DEF Switched
  <2>2. request'[c].op \notin {"send-otp", "toggle-otp"}
    BY <1>1, <1>6 DEF OwnStep, Idle
  <2>3. QED
    BY <1>2, <2>1, <2>2 DEF Switched
<1>7. QED
  BY <1>4, <1>5, <1>6

\* The other tabs: a page that shows need_otp is overtaken when it is switched.
LEMMA SwitchedOther ==
    ASSUME Inv, NEW c \in Clients, ServeTab(c), NEW d \in Clients \ {c}
    PROVE  Switched(d)'
<1> DEFINE q == request[d]
           p == page[d]
<1>1. /\ ApiInv /\ Serve(c) /\ OwnStep(c) /\ OtherStep(c, d) /\ Switched(d)
      /\ page \in [Clients -> Pages] /\ request \in [Clients -> Requests]
      /\ p \in Pages /\ q \in Requests /\ Shaped(q)
      /\ account # NoAccount => account' # NoAccount
  BY ServeSteps, AccountStays
     DEF Inv, TypeOK, ApiInv, AccountsTypeOK, AllShaped, AllSwitched, ServeTab
<1>2. page'[d] = IF account # NoAccount /\ account'.needOtp # account.needOtp
                 THEN [p EXCEPT !.crossed = p.at \in {"security", "dialog"}] ELSE p
  BY <1>1 DEF ServeTab
<1>3. /\ page'[d].at = p.at /\ page'[d].prop = p.prop /\ page'[d].switch = p.switch
      /\ page'[d].left = p.left
      /\ p.at \in {"security", "dialog"} =>
            \/ page'[d].crossed
            \/ page'[d].crossed = p.crossed /\ account'.needOtp = account.needOtp
  BY <1>1, <1>2 DEF Pages, Switched
\* What becomes of the request of d.
<1>4. /\ q.op \in {"send-otp", "toggle-otp"} => request'[d].op = q.op
      /\ q.op \notin {"send-otp", "toggle-otp"} => request'[d].op \notin {"send-otp", "toggle-otp"}
      /\ Free(d) => request'[d] = Idle
      /\ account'.needOtp = account.needOtp => request'[d].stale = q.stale \/ request'[d].step = "idle"
      /\ q.op = "toggle-otp" =>
            \/ request'[d].step = "idle" <=> q.step = "idle"
            \/ request'[d].step = "idle" /\ q.step # "idle" /\ request'[d].answer # "ok"
      /\ (q.op = "toggle-otp" /\ q.step = "idle") => request'[d].answer = q.answer
  <2>1. CASE request'[d] = q
    BY <2>1 DEF Free
  <2>2. CASE request'[d] = Closed(q)
    <3>1. /\ Closed(q) = q \/ Closed(q) = Idle \/ Closed(q) = Answered(q, q.answer)
             \/ Closed(q) = Answered(q, "refused")
          /\ ~InBackground(q) => IF q.step = "idle" THEN Closed(q) = q
                                 ELSE Closed(q) = Answered(q, "refused")
          /\ Ended(Closed(q))
      BY <1>1, ClosedEnded
    <3>2. /\ Answered(q, q.answer).op = q.op /\ Answered(q, "refused").op = q.op
          /\ Answered(q, "refused").answer = "refused"
      BY <1>1, AnsweredEnded DEF Requests, Answers
    <3>3. Idle.op = "sign-in" /\ Idle.step = "idle"
      BY DEF Idle
    <3>4. q.op # "sign-up" => ~InBackground(q)
      BY DEF InBackground
    <3>5. Free(d) => Closed(q) = Idle
      BY <3>1, <3>3, <3>4 DEF Free
    <3>6. QED
      BY <2>2, <3>1, <3>2, <3>3, <3>4, <3>5 DEF Ended
  <2>3. CASE Save(c)
    <3>1. Free(d) => request'[d] = Idle
      <4>1. SUFFICES ASSUME Free(d) PROVE request'[d] = q
        BY DEF Free
      <4>2. q.user = NoAccount
        BY <4>1 DEF Free, Idle
      <4>3. request'[d] = [q EXCEPT !.stale =
                @ \/ (account'.needOtp # account.needOtp /\ request[d].user # NoAccount)]
        BY <1>1, <2>3, SaveEffect
      <4>4. (q.stale \/ (account'.needOtp # account.needOtp /\ q.user # NoAccount)) = q.stale
        BY <4>2, <1>1 DEF Requests
      <4>5. QED
        BY <4>3, <4>4, <1>1, SameStale
    <3>2. QED
      BY <1>1, <2>3, <3>1, SaveOthers
  <2>4. QED
    BY <1>1, <2>1, <2>2, <2>3 DEF OtherStep
<1>5. CASE p.at \notin {"security", "dialog"}
  <2>1. q.op \notin {"send-otp", "toggle-otp"}
    BY <1>1, <1>5 DEF Switched
  <2>2. QED
    BY <1>3, <1>4, <1>5, <2>1 DEF Switched
<1>6. CASE p.at \in {"security", "dialog"}
  <2> DEFINE answered(x) == x.op = "toggle-otp" /\ x.step = "idle" /\ x.answer = "ok"
  <2>1. /\ account' # NoAccount
        /\ Free(d) \/ q.op = "toggle-otp" \/ (p.at = "security" /\ q.op = "send-otp")
        /\ q.op = "send-otp" => p.at = "security"
        /\ q.op = "toggle-otp" => p.at = "dialog" \/ (p.at = "security" /\ p.left)
        /\ ~p.crossed =>
              /\ q.op = "toggle-otp" /\ q.step # "idle" => ~q.stale
              /\ account.needOtp = IF answered(q) THEN ~p.prop ELSE p.prop
              /\ ~p.left => p.switch = IF p.at = "dialog" \/ q.op = "send-otp"
                                       THEN ~p.prop ELSE p.prop
    BY <1>1, <1>6 DEF Switched
  <2>2. /\ request'[d].op = "send-otp" <=> q.op = "send-otp"
        /\ request'[d].op = "toggle-otp" <=> q.op = "toggle-otp"
        /\ Free(d) => Free(d)'
    BY <1>4 DEF Free
  <2>3. answered(request'[d]) <=> answered(q)
    BY <1>4, <2>2
  <2>4. ~page'[d].crossed =>
            (request'[d].op = "toggle-otp" /\ request'[d].step # "idle" => ~request'[d].stale)
    BY <1>3, <1>4, <1>6, <2>1, <2>2
  <2>5. /\ request'[d].op = "send-otp" => page'[d].at = "security"
        /\ request'[d].op = "toggle-otp" =>
              page'[d].at = "dialog" \/ (page'[d].at = "security" /\ page'[d].left)
        /\ page'[d].at = "security" => Free(d)' \/ request'[d].op \in {"send-otp", "toggle-otp"}
        /\ page'[d].at = "dialog" => Free(d)' \/ request'[d].op = "toggle-otp"
    BY <1>3, <2>1, <2>2
  <2>6. ~page'[d].crossed =>
            /\ account'.needOtp = IF answered(request'[d]) THEN ~page'[d].prop ELSE page'[d].prop
            /\ ~page'[d].left => page'[d].switch =
                    IF page'[d].at = "dialog" \/ request'[d].op = "send-otp"
                    THEN ~page'[d].prop ELSE page'[d].prop
    BY <1>3, <1>6, <2>1, <2>2, <2>3
  <2>7. QED
    BY <2>1, <2>4, <2>5, <2>6 DEF Switched
<1>7. QED
  BY <1>5, <1>6

\* A place with nothing on it is a page.
LEMMA AtType == \A place \in Places : At(place) \in Pages /\ At(place).at = place
BY DEF At, Pages

\* A tab whose own request and page did not change.
LEMMA SwitchedElsewhere ==
    ASSUME NEW d \in Clients, Switched(d),
           UNCHANGED <<account, page[d], request[d]>>
    PROVE  Switched(d)'
BY DEF Switched, Free

\* A tab that shows another place, or whose place does not change, begins a request
\* that is about neither the switch nor the dialog.
LEMMA BeginSwitched ==
    ASSUME Inv, NEW c \in Clients, NEW op \in Ops, NEW token \in Ids, Begin(c, op, token),
           NEW p \in Pages, page' = [page EXCEPT ![c] = p], session' = session,
           \/ p.at \notin {"security", "dialog"} /\ op \notin {"send-otp", "toggle-otp"}
           \/ /\ op = "send-otp" /\ page[c].at = "security"
              /\ p = [page[c] EXCEPT !.switch = ~@]
           \/ op = "toggle-otp" /\ page[c].at = "dialog" /\ p = page[c]
    PROVE  Inv'
<1>1. /\ ApiInv /\ AllSwitched /\ Switched(c)
      /\ page \in [Clients -> Pages] /\ session \in BOOLEAN /\ request \in [Clients -> Requests]
  BY DEF Inv, TypeOK, ApiInv, AccountsTypeOK, AllSwitched
<1>2. ApiInv'
  BY <1>1, BeginKeeps
<1>3. page'[c] = p /\ \A d \in Clients \ {c} : page'[d] = page[d]
  BY <1>1
<1>4. TypeOK'
  BY <1>1, <1>2 DEF TypeOK, ApiInv
<1>5. Free(c) /\ account' = account
  BY <1>1, BeginArrives DEF ApiInv
<1>6. PICK x \in Requests : Arrived(x, op) /\ request' = [request EXCEPT ![c] = x]
  BY <1>1, BeginArrives DEF ApiInv
<1>7. request'[c] = x /\ \A d \in Clients \ {c} : request'[d] = request[d]
  BY <1>1, <1>6
<1>8. x.op = op /\ ~x.stale
  BY <1>6 DEF Arrived
<1>9. ASSUME NEW d \in Clients \ {c} PROVE Switched(d)'
  BY <1>1, <1>3, <1>5, <1>7, SwitchedElsewhere DEF AllSwitched
<1>10. Switched(c)'
  <2>1. CASE p.at \notin {"security", "dialog"} /\ op \notin {"send-otp", "toggle-otp"}
    BY <2>1, <1>3, <1>7, <1>8 DEF Switched
  <2>2. CASE op = "send-otp" /\ page[c].at = "security" /\ p = [page[c] EXCEPT !.switch = ~@]
    <3>1. /\ p.at = "security" /\ p.prop = page[c].prop /\ p.crossed = page[c].crossed
          /\ p.left = page[c].left /\ p.switch = ~page[c].switch /\ page[c].switch \in BOOLEAN
      BY <1>1, <2>2 DEF Pages
    <3>2. request[c].op = "sign-in"
      BY <1>5 DEF Free, Idle
    <3>3. QED
      BY <1>1, <1>3, <1>5, <1>7, <1>8, <2>2, <3>1, <3>2 DEF Switched
  <2>3. CASE op = "toggle-otp" /\ page[c].at = "dialog" /\ p = page[c]
    <3>1. request[c].op = "sign-in"
      BY <1>5 DEF Free, Idle
    <3>2. x.step = "idle" => x.answer # "ok"
      <4>1. LoadGuarded(c, [Idle EXCEPT !.op = op, !.token = token])
        BY <2>3 DEF Begin, Presented, Guarded
      <4> DEFINE r == [Idle EXCEPT !.op = op, !.token = token]
      <4>2. r \in Requests /\ r.op = op
        BY IdleEnded DEF Ended, Requests, Idle
      <4>3. CASE ~GuardAdmits
        <5>1. Become(c, Answered(r, "refused"))
          BY <4>1, <4>3 DEF LoadGuarded
        <5>2. request'[c] = Answered(r, "refused")
          BY <5>1, <1>1 DEF Become
        <5>3. Answered(r, "refused").answer = "refused"
          BY <4>2, AnsweredEnded DEF Answers
        <5>4. QED
          BY <5>2, <5>3, <1>7
      <4>4. CASE GuardAdmits
        <5>1. Become(c, [r EXCEPT !.user = account, !.kind = "otp", !.step = "present"])
          BY <4>1, <4>2, <4>4, <2>3 DEF LoadGuarded
        <5>2. request'[c].step = "present"
          BY <5>1, <4>2, <1>1 DEF Become, Requests
        <5>3. QED
          BY <5>2, <1>7
      <4>5. QED
        BY <4>3, <4>4
    <3>3. QED
      BY <1>1, <1>3, <1>5, <1>7, <1>8, <2>3, <3>1, <3>2 DEF Switched
  <2>4. QED
    BY <2>1, <2>2, <2>3
<1>11. AllSwitched'
  BY <1>9, <1>10 DEF AllSwitched
<1>12. QED
  BY <1>2, <1>4, <1>11 DEF Inv

\* Pressing a button that is neither the switch nor the dialog's.
LEMMA PressKeeps ==
    ASSUME Inv, NEW c \in Clients, NEW place \in Places, NEW op \in Ops, Press(c, place, op),
           place \notin {"security", "dialog"}, op \notin {"send-otp", "toggle-otp"}
    PROVE  Inv'
<1>1. page \in [Clients -> Pages]
  BY DEF Inv, TypeOK
<1>2. /\ page[c] \in Pages /\ page[c].at = place /\ page' = [page EXCEPT ![c] = page[c]]
      /\ Begin(c, op, 0) /\ session' = session
  BY <1>1 DEF Press
<1>3. QED
  BY <1>2, IdsNumbers, BeginSwitched

\* A tab that is free and shows another page.
LEMMA ShowKeeps ==
    ASSUME Inv, NEW c \in Clients, Free(c), NEW p \in Pages,
           page' = [page EXCEPT ![c] = p], UNCHANGED <<accountVars, session>>,
           p.at # "dialog",
           p.at = "security" =>
                /\ account # NoAccount
                /\ ~p.crossed => /\ p.prop = account.needOtp
                                 /\ ~p.left => p.switch = p.prop
    PROVE  Inv'
<1>1. /\ ApiInv /\ AllSwitched /\ page \in [Clients -> Pages] /\ session \in BOOLEAN
  BY DEF Inv, TypeOK, ApiInv
<1>2. UNCHANGED <<account, onFile, issued, sent, request, toggled, broken>>
  BY DEF accountVars
<1>3. ApiInv'
  BY <1>1, <1>2 DEF ApiInv, AccountsTypeOK, AllShaped, Nobody, AllCurrent, Current, Numbered,
                    AllCoded, Coded, Mailed, WillMail, Owed, WillMake
<1>4. TypeOK'
  BY <1>1, <1>3 DEF TypeOK, ApiInv
<1>5. page'[c] = p /\ \A d \in Clients \ {c} : page'[d] = page[d]
  BY <1>1
<1>6. request[c].op = "sign-in"
  BY DEF Free, Idle
<1>7. Switched(c)'
  BY <1>2, <1>5, <1>6 DEF Switched, Free
<1>8. ASSUME NEW d \in Clients \ {c} PROVE Switched(d)'
  BY <1>1, <1>2, <1>5, SwitchedElsewhere DEF AllSwitched
<1>9. QED
  BY <1>3, <1>4, <1>7, <1>8 DEF Inv, AllSwitched

\* What a tab shows once it has its answer.
LEMMA TakeSwitched == ASSUME Inv, NEW c \in Clients, Take(c) PROVE Inv'
<1> DEFINE r == request[c]
           p == page[c]
           q == Shown(p, r.op, r.answer)
<1>1. /\ ApiInv /\ AllSwitched /\ Switched(c) /\ page \in [Clients -> Pages] /\ session \in BOOLEAN
      /\ request \in [Clients -> Requests] /\ r \in Requests /\ Shaped(r) /\ p \in Pages
      /\ r.answer # "none" /\ r.op \in Ops
      /\ account \in Accounts \/ account = NoAccount
  BY DEF Inv, TypeOK, ApiInv, AccountsTypeOK, AllShaped, AllSwitched, Take, Requests
<1>2. ApiInv'
  BY <1>1, TakeKeeps
<1>3. /\ account' = account
      /\ request' = [request EXCEPT ![c] = Taken(r)] /\ page' = [page EXCEPT ![c] = q]
      /\ session' = (session \/ (r.op \in {"sign-in", "provider"} /\ r.answer = "ok"))
  BY DEF Take, Show
<1>4. /\ request'[c] = Taken(r) /\ page'[c] = q
      /\ \A d \in Clients \ {c} : request'[d] = request[d] /\ page'[d] = page[d]
  BY <1>1, <1>3
<1>5. ~Free(c)
  BY <1>1 DEF Free, Idle
<1>6. r.op \notin {"send-otp", "toggle-otp"} =>
        /\ q \in Pages /\ q.at \notin {"security", "dialog"}
  <2>1. SUFFICES ASSUME r.op \notin {"send-otp", "toggle-otp"}
                 PROVE  q \in Pages /\ q.at \notin {"security", "dialog"}
    OBVIOUS
  <2>2. p.at \notin {"security", "dialog"}
    BY <1>1, <1>5, <2>1 DEF Switched
  <2>3. \/ q = p
        \/ \E place \in Places \ {"security", "dialog"} : q = At(place)
    <3> DEFINE L == Places \ {"security", "dialog"}
    <3>1. /\ AfterSignIn(r.answer) \in L /\ AfterOtp(r.answer) \in L
      BY DEF AfterSignIn, AfterOtp, Places
    <3>2. {"sign-in", "otp", "app", "forgot-sent", "sign-up-sent", "sign-up", "reset"} \subseteq L
      BY DEF Places
    <3> HIDE DEF L
    <3>3. CASE r.op = "sign-in"
      <4>1. CASE p.at = "sign-in"
        BY <3>1, <3>3, <4>1 DEF Shown, L
      <4>2. CASE p.at = "otp"
        BY <3>1, <3>3, <4>2 DEF Shown, L
      <4>3. CASE p.at = "otp-resending"
        BY <3>2, <3>3, <4>3 DEF Shown, L
      <4>4. CASE p.at \notin {"sign-in", "otp", "otp-resending"}
        BY <3>3, <4>4 DEF Shown
      <4>5. QED
        BY <4>1, <4>2, <4>3, <4>4
    <3>4. CASE r.op # "sign-in"
      BY <2>1, <3>2, <3>4, <1>1 DEF Shown, Ops, L
    <3>5. QED
      BY <3>3, <3>4
  <2>4. QED
    BY <2>2, <2>3, <1>1, AtType
<1>7. r.op \in {"send-otp", "toggle-otp"} => /\ r.step = "idle" /\ account # NoAccount
                                            /\ Taken(r) = Idle
  <2>1. r.op \in {"send-otp", "toggle-otp"} => ~InBackground(r)
    BY DEF InBackground
  <2>2. QED
    BY <2>1, <1>1 DEF Shaped, Switched, Taken
<1>8. q \in Pages /\ Switched(c)'
  <2>1. CASE r.op \notin {"send-otp", "toggle-otp"}
    <3>1. Taken(r).op \notin {"send-otp", "toggle-otp"}
      BY <2>1, <1>1 DEF Taken, Idle, Requests
    <3>2. QED
      BY <2>1, <3>1, <1>4, <1>6 DEF Switched
  <2>2. CASE r.op = "send-otp"
    <3>1. p.at = "security" /\ q = IF r.answer = "ok" THEN [p EXCEPT !.at = "dialog"]
                                   ELSE [p EXCEPT !.switch = p.prop, !.left = FALSE]
      BY <1>1, <2>2 DEF Switched, Shown
    <3>2. /\ q \in Pages /\ q.prop = p.prop /\ q.crossed = p.crossed
          /\ r.answer = "ok" => q.at = "dialog" /\ q.switch = p.switch /\ q.left = p.left
          /\ r.answer # "ok" => q.at = "security" /\ q.switch = p.prop
      BY <1>1, <3>1 DEF Pages, Places
    <3>3. request'[c] = Idle /\ Idle.op = "sign-in" /\ Free(c)'
      BY <1>4, <1>7, <2>2 DEF Free, Idle
    <3>4. account # NoAccount /\ account' = account /\ page'[c] = q
      BY <1>3, <1>4, <1>7, <2>2
    <3>5. ~p.crossed => p.prop = account.needOtp /\ (~p.left => p.switch = ~p.prop)
      BY <1>1, <2>2, <3>1 DEF Switched
    <3> HIDE DEF q
    <3>6. QED
      BY <3>2, <3>3, <3>4, <3>5 DEF Switched
  <2>3. CASE r.op = "toggle-otp"
    <3>1. /\ p.at = "dialog" \/ (p.at = "security" /\ p.left)
          /\ account \in Accounts /\ account.needOtp \in BOOLEAN
      BY <1>1, <1>7, <2>3 DEF Switched, Accounts
    <3>2. q = IF r.answer = "ok"
              THEN [p EXCEPT !.at = "security", !.switch = ~p.prop,
                             !.prop = account.needOtp, !.left = FALSE]
              ELSE p
      BY <2>3 DEF Shown
    <3>3. /\ q \in Pages /\ q.crossed = p.crossed
          /\ r.answer = "ok" => q.at = "security" /\ q.switch = ~p.prop /\ q.prop = account.needOtp
          /\ r.answer # "ok" => q = p
      BY <1>1, <3>1, <3>2 DEF Pages, Places
    <3>4. request'[c] = Idle /\ Idle.op = "sign-in" /\ Free(c)'
      BY <1>4, <1>7, <2>3 DEF Free, Idle
    <3>5. account # NoAccount /\ account' = account /\ page'[c] = q /\ r.step = "idle"
      BY <1>3, <1>4, <1>7, <2>3
    <3>6. ~p.crossed => /\ ~p.left => p.at = "dialog" /\ p.switch = ~p.prop
                        /\ account.needOtp = IF r.answer = "ok" THEN ~p.prop ELSE p.prop
      BY <1>1, <2>3, <3>1, <3>5 DEF Switched
    <3> HIDE DEF q
    <3>7. QED
      BY <3>1, <3>3, <3>4, <3>5, <3>6 DEF Switched
  <2>4. QED
    BY <2>1, <2>2, <2>3
<1> HIDE DEF q
<1>9. TypeOK'
  BY <1>1, <1>2, <1>3, <1>8 DEF TypeOK, ApiInv
<1>10. ASSUME NEW d \in Clients \ {c} PROVE Switched(d)'
  BY <1>1, <1>3, <1>4, SwitchedElsewhere DEF AllSwitched
<1>11. QED
  BY <1>2, <1>8, <1>9, <1>10 DEF Inv, AllSwitched
-----------------------------------------------------------------------------
(***************************************************************************)
(* The invariant and what it says.                                         *)
(***************************************************************************)
LEMMA InvInitial == Init => Inv
<1> SUFFICES ASSUME Init PROVE Inv
  OBVIOUS
<1>1. /\ account = NoAccount /\ onFile = [k \in Kinds |-> NoToken] /\ issued = [k \in Kinds |-> 0]
      /\ sent = [k \in Kinds |-> {}] /\ request = [c \in Clients |-> Idle]
      /\ toggled = {} /\ broken = FALSE
      /\ page = [c \in Clients |-> At("sign-in")] /\ session = FALSE
  BY DEF Init, AccountsInit
<1>2. Ended(Idle) /\ ~(Idle.op = "toggle-otp") /\ Idle.op = "sign-in"
  BY IdleEnded DEF Idle
<1>3. At("sign-in") \in Pages /\ At("sign-in").at = "sign-in"
  BY AtType DEF Places
<1>4. AccountsTypeOK
  BY <1>1, <1>2, IdsNumbers DEF AccountsTypeOK, Ended
<1>5. TypeOK
  BY <1>1, <1>3, <1>4 DEF TypeOK
<1>6. AllShaped /\ Nobody /\ AllCurrent /\ AllCoded
  BY <1>1, <1>2 DEF AllShaped, Nobody, AllCurrent, Current, AllCoded, Coded, Ended
<1>7. Numbered /\ Mailed /\ Owed
  BY <1>1 DEF Numbered, Mailed, Owed, Kinds
<1>8. AllSwitched
  BY <1>1, <1>2, <1>3 DEF AllSwitched, Switched
<1>9. QED
  BY <1>4, <1>5, <1>6, <1>7, <1>8 DEF Inv, ApiInv

\* Every step of the API and of the pages keeps the invariant.
LEMMA InvInductive == Inv /\ [Next]_vars => Inv'
<1> SUFFICES ASSUME Inv, [Next]_vars PROVE Inv'
  OBVIOUS
<1>1. /\ ApiInv /\ AllSwitched /\ TypeOK
      /\ page \in [Clients -> Pages] /\ session \in BOOLEAN /\ sent \in [Kinds -> SUBSET Ids]
      /\ {"verification", "otp", "reset"} \subseteq Kinds
  BY DEF Inv, TypeOK, ApiInv, AccountsTypeOK, Kinds
<1>2. \A kind \in Kinds : \A token \in sent[kind] : token \in Ids
  BY <1>1
<1>3. ASSUME NEW c \in Clients, NEW place \in Places, NEW op \in Ops, NEW kind \in Kinds,
             NEW token \in sent[kind], Begin(c, op, token), NEW p \in Pages,
             page' = [page EXCEPT ![c] = p], session' = session,
             \/ p.at \notin {"security", "dialog"} /\ op \notin {"send-otp", "toggle-otp"}
             \/ op = "toggle-otp" /\ page[c].at = "dialog" /\ p = page[c]
      PROVE  Inv'
  BY <1>2, <1>3, BeginSwitched
<1>4. ASSUME NEW c \in Clients, ServeTab(c) PROVE Inv'
  <2>1. ApiInv'
    BY <1>1, <1>4, ServeKeeps DEF ServeTab
  <2>2. TypeOK'
    <3>1. \A d \in Clients : page'[d] \in Pages
      <4>1. ASSUME NEW d \in Clients PROVE page'[d] \in Pages
        <5>1. page[d] \in Pages
          BY <1>1
        <5> DEFINE overtaken == page[d].at \in {"security", "dialog"}
        <5>2. page'[d] = page[d] \/ page'[d] = [page[d] EXCEPT !.crossed = overtaken]
          BY <1>4 DEF ServeTab
        <5>3. overtaken \in BOOLEAN
          OBVIOUS
        <5> HIDE DEF overtaken
        <5>4. QED
          BY <5>1, <5>2, <5>3 DEF Pages
      <4>2. QED
        BY <4>1
    <3>2. page' = [d \in Clients |-> page'[d]] /\ session' = session
      BY <1>4 DEF ServeTab
    <3>3. QED
      BY <1>1, <2>1, <3>1, <3>2 DEF TypeOK, ApiInv
  <2>3. AllSwitched'
    BY <1>4, SwitchedOwn, SwitchedOther DEF AllSwitched
  <2>4. QED
    BY <2>1, <2>2, <2>3 DEF Inv
<1>5. ASSUME NEW c \in Clients, NEW place \in {"sign-in", "sign-up", "app", "security"},
             Open(c, place)
      PROVE  Inv'
  <2>1. CASE place = "security"
    <3> DEFINE p == [At(place) EXCEPT !.prop = account.needOtp, !.switch = account.needOtp]
    <3>1. account \in Accounts /\ account # NoAccount
      BY <1>1, <1>5, <2>1 DEF Open, SignedIn, GuardAdmits, TypeOK, AccountsTypeOK
    <3>2. account.needOtp \in BOOLEAN
      BY <3>1 DEF Accounts
    <3>3. p \in Pages /\ p.at = "security" /\ p.prop = account.needOtp /\ p.switch = p.prop
      BY <2>1, <3>2 DEF At, Pages, Places
    <3>4. Free(c) /\ page' = [page EXCEPT ![c] = p] /\ UNCHANGED <<accountVars, session>>
      BY <1>5, <2>1 DEF Open, Show
    <3> HIDE DEF p
    <3>5. QED
      BY <3>1, <3>3, <3>4, ShowKeeps
  <2>2. CASE place # "security"
    <3>1. At(place) \in Pages /\ At(place).at \notin {"security", "dialog"}
      BY <2>2, <1>5, AtType DEF Places
    <3>2. Free(c) /\ page' = [page EXCEPT ![c] = At(place)] /\ UNCHANGED <<accountVars, session>>
      BY <1>5, <2>2 DEF Open, Show
    <3>3. QED
      BY <3>1, <3>2, ShowKeeps
  <2>3. QED
    BY <2>1, <2>2
<1>6. ASSUME NEW c \in Clients, NEW kind \in {"verification", "reset"}, FollowLink(c, kind)
      PROVE  Inv'
  <2>1. At("link") \in Pages /\ At("link").at = "link"
    BY AtType DEF Places
  <2>2. /\ page' = [page EXCEPT ![c] = At("link")] /\ session' = session
        /\ \E token \in sent[kind] :
             Begin(c, IF kind = "verification" THEN "verify" ELSE "reset-page", token)
    BY <1>6 DEF FollowLink, Show
  <2>3. PICK op \in {"verify", "reset-page"}, token \in sent[kind] : Begin(c, op, token)
    BY <2>2
  <2>4. kind \in Kinds /\ op \in Ops /\ token \in Ids
    BY <1>1, <1>2 DEF Ops
  <2>5. QED
    BY <2>1, <2>2, <2>3, <2>4, BeginSwitched
<1>7. ASSUME NEW c \in Clients,
             \/ SignIn(c) \/ Forgot(c) \/ SignUp(c) \/ Resend(c) \/ Provider(c) \/ SaveAvatar(c)
      PROVE  Inv'
  <2>1. \E place \in {"sign-in", "sign-up", "check-mail", "sign-up-sent", "app"} :
          \E op \in {"sign-in", "forgot", "sign-up", "resend", "provider", "avatar"} :
             Press(c, place, op)
    BY <1>7 DEF SignIn, Forgot, SignUp, Resend, Provider, SaveAvatar
  <2>2. PICK place \in {"sign-in", "sign-up", "check-mail", "sign-up-sent", "app"},
             op \in {"sign-in", "forgot", "sign-up", "resend", "provider", "avatar"} :
                Press(c, place, op)
    BY <2>1
  <2>3. place \in Places /\ op \in Ops
    BY DEF Places, Ops
  <2>4. QED
    BY <2>2, <2>3, PressKeeps
<1>8. ASSUME NEW c \in Clients, ResendOtp(c) PROVE Inv'
  <2>1. At("otp-resending") \in Pages /\ At("otp-resending").at = "otp-resending"
    BY AtType DEF Places
  <2>2. /\ page' = [page EXCEPT ![c] = At("otp-resending")] /\ session' = session
        /\ Begin(c, "sign-in", 0) /\ "sign-in" \in Ops /\ 0 \in Ids
    BY <1>8, IdsNumbers DEF ResendOtp, Show, Ops
  <2>3. QED
    BY <2>1, <2>2, BeginSwitched
<1>9. ASSUME NEW c \in Clients, SubmitOtp(c) \/ SubmitReset(c) \/ Confirm(c) PROVE Inv'
  <2>1. /\ page[c] \in Pages /\ page' = [page EXCEPT ![c] = page[c]] /\ session' = session
        /\ \E kind \in Kinds : \E token \in sent[kind] :
             \E op \in {"sign-in", "reset", "toggle-otp"} :
                /\ Begin(c, op, token)
                /\ IF op = "toggle-otp" THEN page[c].at = "dialog"
                   ELSE page[c].at \in {"otp", "reset"}
    BY <1>1, <1>9 DEF SubmitOtp, SubmitReset, Confirm
  <2>2. PICK kind \in Kinds : \E token \in sent[kind] :
             \E op \in {"sign-in", "reset", "toggle-otp"} :
                /\ Begin(c, op, token)
                /\ IF op = "toggle-otp" THEN page[c].at = "dialog"
                   ELSE page[c].at \in {"otp", "reset"}
    BY <2>1
  <2>3. PICK token \in sent[kind], op \in {"sign-in", "reset", "toggle-otp"} :
                /\ Begin(c, op, token)
                /\ IF op = "toggle-otp" THEN page[c].at = "dialog"
                   ELSE page[c].at \in {"otp", "reset"}
    BY <2>2
  <2>4. op \in Ops /\ token \in Ids
    BY <1>2 DEF Ops
  <2>5. CASE op = "toggle-otp"
    BY <2>1, <2>3, <2>4, <2>5, BeginSwitched
  <2>6. CASE op # "toggle-otp"
    BY <2>1, <2>3, <2>4, <2>6, BeginSwitched
  <2>7. QED
    BY <2>5, <2>6
<1>10. ASSUME NEW c \in Clients, Back(c) PROVE Inv'
  <2>1. At("sign-in") \in Pages /\ At("sign-in").at = "sign-in"
    BY AtType DEF Places
  <2>2. Free(c) /\ page' = [page EXCEPT ![c] = At("sign-in")] /\ UNCHANGED <<accountVars, session>>
    BY <1>10 DEF Back, Show
  <2>3. QED
    BY <2>1, <2>2, ShowKeeps
<1>11. ASSUME NEW c \in Clients, Toggle(c) PROVE Inv'
  <2> DEFINE p == [page[c] EXCEPT !.switch = ~@]
  <2>1. p \in Pages
    BY <1>1 DEF Pages
  <2>2. /\ page' = [page EXCEPT ![c] = p] /\ session' = session /\ page[c].at = "security"
        /\ Begin(c, "send-otp", 0) /\ "send-otp" \in Ops /\ 0 \in Ids
    BY <1>11, IdsNumbers DEF Toggle, Show, Ops
  <2>3. QED
    BY <2>1, <2>2, BeginSwitched
<1>12. ASSUME NEW c \in Clients, Close(c) PROVE Inv'
  <2> DEFINE p == [page[c] EXCEPT !.at = "security", !.switch = page[c].prop, !.left = FALSE]
  <2>1. /\ Free(c) /\ page[c].at = "dialog" /\ page' = [page EXCEPT ![c] = p]
        /\ UNCHANGED <<accountVars, session>>
    BY <1>12 DEF Close, Show
  <2>2. /\ p \in Pages /\ p.at = "security" /\ p.prop = page[c].prop /\ p.switch = p.prop
        /\ p.crossed = page[c].crossed
    BY <1>1 DEF Pages, Places
  <2>3. account # NoAccount /\ (~page[c].crossed => page[c].prop = account.needOtp)
    <3>1. Switched(c) /\ request[c].op = "sign-in"
      BY <1>1, <2>1 DEF AllSwitched, Free, Idle
    <3>2. QED
      BY <2>1, <3>1 DEF Switched
  <2> HIDE DEF p
  <2>4. QED
    BY <2>1, <2>2, <2>3, ShowKeeps
<1>18. ASSUME NEW c \in Clients, Escape(c) PROVE Inv'
  <2> DEFINE p == [page[c] EXCEPT !.at = "security", !.left = TRUE]
  <2>1. /\ page[c].at = "dialog" /\ page' = [page EXCEPT ![c] = p]
        /\ UNCHANGED <<accountVars, session>>
    BY <1>18 DEF Escape, Show
  <2>2. /\ p \in Pages /\ p.at = "security" /\ p.prop = page[c].prop /\ p.left
        /\ p.crossed = page[c].crossed
    BY <1>1 DEF Pages, Places
  <2> HIDE DEF p
  <2>3. UNCHANGED <<account, onFile, issued, sent, request, toggled, broken>>
    BY <2>1 DEF accountVars
  <2>4. ApiInv'
    BY <1>1, <2>3 DEF ApiInv, AccountsTypeOK, AllShaped, Nobody, AllCurrent, Current, Numbered,
                      AllCoded, Coded, Mailed, WillMail, Owed, WillMake
  <2>5. TypeOK'
    BY <1>1, <2>1, <2>2, <2>4 DEF TypeOK, ApiInv
  <2>6. page'[c] = p /\ \A d \in Clients \ {c} : page'[d] = page[d]
    BY <1>1, <2>1
  <2>7. Switched(c)'
    BY <1>1, <2>1, <2>2, <2>3, <2>6 DEF AllSwitched, Switched, Free
  <2>8. ASSUME NEW d \in Clients \ {c} PROVE Switched(d)'
    BY <1>1, <2>3, <2>6, SwitchedElsewhere DEF AllSwitched
  <2>9. QED
    BY <2>4, <2>5, <2>7, <2>8 DEF Inv, AllSwitched
<1>13. ASSUME NEW kind \in Kinds, Pass(kind) PROVE Inv'
  <2>1. ApiInv'
    BY <1>1, <1>13, AgeKeeps DEF Pass
  <2>2. UNCHANGED <<page, session, account, request>>
    BY <1>13 DEF Pass, Age
  <2>3. QED
    BY <1>1, <2>1, <2>2 DEF Inv, TypeOK, ApiInv, AllSwitched, Switched, Free
<1>14. ASSUME session' \in BOOLEAN, UNCHANGED <<accountVars, page>> PROVE Inv'
  BY <1>1, <1>14 DEF accountVars, Inv, TypeOK, ApiInv, AccountsTypeOK, AllShaped, Nobody,
       AllCurrent, Current, Numbered, AllCoded, Coded, Mailed, WillMail, Owed, WillMake,
       AllSwitched, Switched, Free
<1>15. CASE SignOut
  BY <1>14, <1>15 DEF SignOut
<1>16. CASE UNCHANGED vars
  BY <1>1, <1>14, <1>16 DEF vars
<1>17. QED
  BY <1>4, <1>5, <1>6, <1>7, <1>8, <1>9, <1>10, <1>11, <1>12, <1>13, <1>15, <1>16, <1>18, TakeSwitched
     DEF Next

\* Every state keeps the invariant.
THEOREM AccountsInvariant == Spec => []Inv
<1>1. Init => Inv
  BY InvInitial
<1>2. Inv /\ [Next]_vars => Inv'
  BY InvInductive
<1>3. QED
  BY <1>1, <1>2, PTL DEF Spec

\* Unless a request stopped halfway, an address that waits for verification has
\* a token on file and that token was mailed, once nothing is under way
\* (createVerificationToken, sendVerification).
THEOREM MailReaches == Spec => []UnverifiedHasMail
<1>1. Inv => UnverifiedHasMail
  <2>1. SUFFICES ASSUME ApiInv, AllFree, ~broken, account # NoAccount, ~account.verified
                 PROVE  /\ onFile["verification"] # NoToken
                        /\ onFile["verification"].id \in sent["verification"]
    BY DEF Inv, UnverifiedHasMail
  <2>2. \A c \in Clients : ~WillMail(request[c]) /\ ~WillMake(request[c])
    BY <2>1 DEF AllFree, WillMail, WillMake
  <2>3. QED
    BY <2>1, <2>2 DEF ApiInv, Mailed, Owed
<1>2. QED
  BY <1>1, AccountsInvariant, PTL

\* Once nothing is pending the switch of the security page says what the account
\* says, unless another tab changed it since the page was opened or the dialog was
\* left by Escape (enable-otp.tsx:64-95).
THEOREM SwitchIsTrue == Spec => []SwitchTellsTruth
<1>1. Inv => SwitchTellsTruth
  <2>1. SUFFICES ASSUME AllSwitched, NEW c \in Clients,
                        page[c].at = "security", Free(c), ~page[c].crossed,
                        ~page[c].left
                 PROVE  page[c].switch = account.needOtp
    BY DEF Inv, SwitchTellsTruth
  <2>2. Switched(c) /\ request[c].op = "sign-in"
    BY <2>1 DEF AllSwitched, Free, Idle
  <2>3. QED
    BY <2>1, <2>2 DEF Switched
<1>2. QED
  BY <1>1, AccountsInvariant, PTL

\* A step that changes an account there is, is a save.
LEMMA OnlySaves ==
    ASSUME Inv, [Next]_vars, account # NoAccount, account' # account
    PROVE  \E c \in Clients : Save(c)
<1>1. ASSUME NEW c \in Clients, NEW op, NEW token, Begin(c, op, token)
      PROVE  account' = account
  BY <1>1 DEF Begin
<1>2. ASSUME NEW c \in Clients, ServeTab(c)
      PROVE  account' = account \/ Save(c)
  BY <1>2, ServeSteps DEF ServeTab, OwnStep, Inv
<1>3. ASSUME NEW c \in Clients
      PROVE  /\ Take(c) => account' = account
             /\ \A place : Open(c, place) => account' = account
             /\ Back(c) \/ Close(c) \/ Escape(c) => account' = account
  BY DEF Take, Open, Back, Close, Escape, accountVars
<1>4. ASSUME NEW c \in Clients, NEW place, NEW op, Press(c, place, op)
      PROVE  account' = account
  BY <1>1, <1>4 DEF Press
<1>5. ASSUME NEW c \in Clients
      PROVE  /\ SignIn(c) \/ Forgot(c) \/ SignUp(c) \/ Resend(c) \/ Provider(c) \/ SaveAvatar(c)
                   => account' = account
             /\ \A kind : FollowLink(c, kind) => account' = account
             /\ ResendOtp(c) \/ SubmitOtp(c) \/ SubmitReset(c) \/ Toggle(c) \/ Confirm(c)
                   => account' = account
  BY <1>1, <1>4 DEF SignIn, Forgot, SignUp, Resend, Provider, SaveAvatar, FollowLink,
                    ResendOtp, SubmitOtp, SubmitReset, Toggle, Confirm
<1>6. /\ \A kind \in Kinds : Pass(kind) => account' = account
      /\ SignOut \/ UNCHANGED vars => account' = account
  BY DEF Pass, Age, SignOut, accountVars, vars
<1>7. QED
  BY <1>2, <1>3, <1>5, <1>6 DEF Next

\* Only a reset changes the password, whoever saves the row (user.ts: the column
\* is not read).
THEOREM PasswordsKept == Spec => PasswordOnlyByReset
<1>1. ASSUME Inv, [Next]_vars, account # NoAccount, account'.password # account.password
      PROVE  \E c \in Clients : request[c].op = "reset" /\ AtStep(c, "save")
                                /\ account'.password = request[c].token
  <2>1. PICK c \in Clients : Save(c)
    BY <1>1, OnlySaves
  <2>2. account' = Written(request[c]) /\ AtStep(c, "save")
    BY <1>1, <2>1, SaveEffect DEF Inv, AtStep
  <2>3. QED
    BY <1>1, <2>2 DEF Written
<1>2. Inv /\ [Next]_vars =>
        [(account # NoAccount /\ account'.password # account.password) =>
            \E c \in Clients : request[c].op = "reset" /\ AtStep(c, "save")
                               /\ account'.password = request[c].token]_vars
  BY <1>1
<1>3. QED
  BY <1>2, AccountsInvariant, PTL DEF Spec, PasswordOnlyByReset

\* A verified address stays verified, but for a reset that read it before.
THEOREM VerifiedForGood == Spec => VerifiedStays
<1>1. ASSUME Inv, [Next]_vars, account # NoAccount, account.verified, ~account'.verified
      PROVE  \E c \in Clients : request[c].op = "reset" /\ AtStep(c, "save")
  <2>1. PICK c \in Clients : Save(c)
    BY <1>1, OnlySaves
  <2>2. /\ account' = Written(request[c]) /\ request[c].step = "save"
        /\ request[c].op \in {"verify", "reset", "toggle-otp", "avatar", "provider"}
    BY <1>1, <2>1, SaveEffect DEF Inv
  <2>3. request[c].op \in {"toggle-otp", "avatar"} => request[c].user.verified
    BY <1>1, <2>2 DEF Inv, ApiInv, AllShaped, Shaped
  <2>4. request[c].op = "reset"
    BY <1>1, <2>2, <2>3 DEF Written
  <2>5. QED
    BY <2>2, <2>4 DEF AtStep
<1>2. Inv /\ [Next]_vars =>
        [(account # NoAccount /\ account.verified /\ ~account'.verified) =>
            \E c \in Clients : request[c].op = "reset" /\ AtStep(c, "save")]_vars
  BY <1>1
<1>3. QED
  BY <1>2, AccountsInvariant, PTL DEF Spec, VerifiedStays

\* One code switches need_otp once, and nothing else switches it, but for a
\* request that saves a row whose need_otp was switched since it read it.
THEOREM CodesServeOnce == Spec => CodeTogglesOnce
<1>1. ASSUME Inv, [Next]_vars, account # NoAccount, account'.needOtp # account.needOtp
      PROVE  \E c \in Clients :
                /\ AtStep(c, "save")
                /\ \/ request[c].stale
                   \/ request[c].op = "toggle-otp" /\ request[c].token \notin toggled
  <2>1. PICK c \in Clients : Save(c)
    BY <1>1, OnlySaves
  <2>2. /\ account' = Written(request[c]) /\ request[c].step = "save"
        /\ request[c].user \in Accounts
    BY <1>1, <2>1, SaveEffect DEF Inv
  <2>3. Current(c) /\ Coded(c) /\ Shaped(request[c])
    BY <1>1 DEF Inv, ApiInv, AllCurrent, AllCoded, AllShaped
  <2>4. CASE ~request[c].stale
    <3>1. request[c].user.needOtp = account.needOtp
      BY <2>2, <2>3, <2>4, NothingAssumption DEF Current
    <3>2. request[c].op = "toggle-otp"
      BY <1>1, <2>2, <3>1 DEF Written
    <3>3. QED
      BY <2>2, <2>3, <2>4, <3>2 DEF Coded, AtStep
  <2>5. CASE request[c].stale
    BY <2>2, <2>5 DEF AtStep
  <2>6. QED
    BY <2>4, <2>5
<1>2. Inv /\ [Next]_vars =>
        [(account # NoAccount /\ account'.needOtp # account.needOtp) =>
            \E c \in Clients :
                /\ AtStep(c, "save")
                /\ \/ request[c].stale
                   \/ request[c].op = "toggle-otp" /\ request[c].token \notin toggled]_vars
  BY <1>1
<1>3. QED
  BY <1>2, AccountsInvariant, PTL DEF Spec, CodeTogglesOnce
=============================================================================
