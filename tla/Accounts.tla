------------------------------- MODULE Accounts -------------------------------
(***************************************************************************)
(* One e-mail address in the API (apps/api/src/auth, features/user): its   *)
(* account, the verification token, one-time code and reset token on file, *)
(* and the requests about it, one step per SQL statement or queued mail,   *)
(* so that requests interleave and stop anywhere.                          *)
(*                                                                         *)
(* A token is a number, told from the others of its kind; its hash and the *)
(* password's, cookies and signatures are left out.                        *)
(***************************************************************************)
EXTENDS Naturals

CONSTANTS Clients,    \* whoever has a request under way, one at a time each
          NoAccount, NoToken,
          SignupClosed,
          MaxIssued,  \* bound: [Kinds -> Nat], tokens of each kind
          MayStop     \* whether requests may stop halfway

ASSUME AccountsAssumption ==
    /\ MaxIssued \in [{"verification", "otp", "reset"} -> Nat]
    /\ SignupClosed \in BOOLEAN
    /\ MayStop \in BOOLEAN

VARIABLES account,  \* the user row, or NoAccount
          onFile,   \* [Kinds -> token or NoToken]: unique (user) in each table
          issued,   \* [Kinds -> Nat]: how many were made
          sent,     \* [Kinds -> set of tokens mailed]
          request,  \* [Clients -> what the API does for it]
          toggled,  \* history: the codes that changed need_otp
          broken    \* history: a request stopped halfway, or undid a verification

accountVars == <<account, onFile, issued, sent, request, toggled, broken>>

Kinds == {"verification", "otp", "reset"}

Ids == UNION {0 .. MaxIssued[k] : k \in Kinds}

\* "fresh": within the cooldown; "valid"; "expired".
Ages == {"fresh", "valid", "expired"}

Tokens == [id : Ids \ {0}, age : Ages]

Accounts == [verified : BOOLEAN, needOtp : BOOLEAN, provider : BOOLEAN,
             password : Ids]  \* the reset token that set it, 0 for the first

\* A row and a token are told from their absence.
ASSUME NothingAssumption == NoAccount \notin Accounts /\ NoToken \notin Tokens

Ops == {"sign-up", "sign-in", "resend", "verify", "forgot", "reset-page", "reset",
        "send-otp", "toggle-otp", "avatar", "provider"}

\* Routes without @Public: JwtAuthGuard loads the user first.
Guarded == {"send-otp", "toggle-otp", "avatar"}

\* Routes that only need the token they are given.
Presented == {"verify", "reset-page", "reset"}

Presents(op) == IF op = "verify" THEN "verification" ELSE "reset"

Steps == {"idle", "create", "cooldown", "delete", "insert", "mail",
          "present", "remove", "copy", "save"}

Answers == {"none", "ok", "refused", "provider", "otp_required", "otp_cooldown",
            "email_not_verified", "email_verification_cooldown"}

Requests == [op : Ops, step : Steps, kind : Kinds,
             user : Accounts \union {NoAccount},  \* the row as the request read it
             stale : BOOLEAN,                     \* history: its need_otp changed since
             token : Ids,                         \* presented or made, 0 for none
             answer : Answers]

Idle == [op |-> "sign-in", step |-> "idle", kind |-> "otp", user |-> NoAccount,
         stale |-> FALSE, token |-> 0, answer |-> "none"]

AccountsTypeOK ==
    /\ account \in Accounts \union {NoAccount}
    /\ onFile \in [Kinds -> Tokens \union {NoToken}]
    /\ issued \in [Kinds -> Ids]
    /\ sent \in [Kinds -> SUBSET Ids]
    /\ request \in [Clients -> Requests]
    /\ toggled \subseteq Ids
    /\ broken \in BOOLEAN

AccountsInit ==
    /\ account = NoAccount
    /\ onFile = [k \in Kinds |-> NoToken]
    /\ issued = [k \in Kinds |-> 0]
    /\ sent = [k \in Kinds |-> {}]
    /\ request = [c \in Clients |-> Idle]
    /\ toggled = {}
    /\ broken = FALSE
-----------------------------------------------------------------------------
AtStep(c, step) == request[c].step = step

\* Nothing under way for c and its last answer taken.
Free(c) == request[c] = Idle

Become(c, r) == request' = [request EXCEPT ![c] = r]

Go(c, step) == Become(c, [request[c] EXCEPT !.step = step])

Answered(r, answer) == [Idle EXCEPT !.op = r.op, !.answer = answer]

Reply(c, answer) == Become(c, Answered(request[c], answer))

\* The mail of a sign-up, which is answered before it goes out.
InBackground(r) == r.op = "sign-up" /\ r.step \in {"cooldown", "delete", "insert", "mail"}

\* What a request that ends without an answer of its own leaves to its client.
Closed(r) ==
    CASE r.step = "idle" -> r
      [] InBackground(r) /\ r.answer = "none" -> Idle
      [] InBackground(r) /\ r.answer # "none" -> Answered(r, r.answer)
      [] OTHER -> Answered(r, "refused")

\* The answer reaches the client; what goes on in the background goes on.
Taken(r) == IF r.step = "idle" THEN Idle ELSE [r EXCEPT !.answer = "none"]

\* An error while making a token. Nobody waits for the mail of a sign-up: its
\* rejection is unhandled, which ends the process and whatever it was serving.
Fail(c, answer) ==
    IF InBackground(request[c])
    THEN request' = [d \in Clients |-> Closed(request[d])] /\ broken' = TRUE
    ELSE Reply(c, answer) /\ UNCHANGED broken

\* Time passes: the cooldown of a token ends, then the token expires. No route
\* looks at the age of a reset token.
Age(kind) ==
    /\ kind # "reset" /\ onFile[kind] # NoToken
    /\ onFile[kind].age # "expired"
    /\ onFile' = [onFile EXCEPT ![kind].age = IF @ = "fresh" THEN "valid" ELSE "expired"]
    /\ UNCHANGED <<account, issued, sent, request, toggled, broken>>

Expired(kind) == onFile[kind].age = "expired"
-----------------------------------------------------------------------------
\* signUp: findOneByEmail.
LoadSignUp(c, r) ==
    Become(c, IF SignupClosed \/ account # NoAccount THEN Answered(r, "refused")
              ELSE [r EXCEPT !.step = "create"])

\* LocalStrategy.validate; the password may be wrong.
LoadSignIn(c, r) ==
    \/ Become(c, Answered(r, "refused"))
    \/ /\ account # NoAccount
       /\ Become(c,
            CASE ~account.verified -> [r EXCEPT !.kind = "verification", !.step = "cooldown"]
              [] account.verified /\ ~account.needOtp -> Answered(r, "ok")
              [] account.verified /\ account.needOtp ->
                    [r EXCEPT !.kind = "otp", !.step = IF r.token = 0 THEN "cooldown" ELSE "present"])

\* resendEmail, then the guard of sendVerification.
LoadResend(c, r) ==
    Become(c, IF account = NoAccount \/ account.verified THEN Answered(r, "refused")
              ELSE [r EXCEPT !.kind = "verification", !.step = "cooldown"])

\* forgotPassword does not tell whether the address has an account.
LoadForgot(c, r) ==
    Become(c,
        CASE account = NoAccount -> Answered(r, "ok")
          [] account # NoAccount /\ account.provider -> Answered(r, "provider")
          [] account # NoAccount /\ ~account.provider -> [r EXCEPT !.kind = "reset", !.step = "delete"])

\* Mutant: the guard does not look at email_verified.
GuardAdmitsAnyone == account # NoAccount

\* JwtAuthGuard.validateJwtCookie.
GuardAdmits == account # NoAccount /\ account.verified

\* The guard puts the row it read in request.user, and the handler saves that.
LoadGuarded(c, r) ==
    Become(c,
        IF ~GuardAdmits THEN Answered(r, "refused")
        ELSE [r EXCEPT !.user = account, !.kind = "otp",
                       !.step = CASE r.op = "send-otp"   -> "cooldown"
                                  [] r.op = "toggle-otp" -> "present"
                                  [] OTHER               -> "save"])

\* findOrCreate*User: an existing account is linked and verified, if it is not.
LoadProvider(c, r) ==
    Become(c,
        CASE account = NoAccount /\ SignupClosed -> Answered(r, "refused")
          [] account = NoAccount /\ ~SignupClosed -> [r EXCEPT !.step = "create"]
          [] account # NoAccount /\ account.provider /\ account.verified -> Answered(r, "ok")
          [] OTHER -> [r EXCEPT !.user = account, !.step = "save"])

\* A request arrives and runs its first statement.
Begin(c, op, token) ==
    LET r == [Idle EXCEPT !.op = op, !.token = token] IN
    /\ Free(c)
    /\ CASE op = "sign-up"  -> LoadSignUp(c, r)
         [] op = "sign-in"  -> LoadSignIn(c, r)
         [] op = "resend"   -> LoadResend(c, r)
         [] op = "forgot"   -> LoadForgot(c, r)
         [] op = "provider" -> LoadProvider(c, r)
         [] op \in Presented -> Become(c, [r EXCEPT !.kind = Presents(op), !.step = "present"])
         [] op \in Guarded  -> LoadGuarded(c, r)
    /\ UNCHANGED <<account, onFile, issued, sent, toggled, broken>>

\* UserService.create, and createGoogleUser and createLinkedinUser.
SignedUp == [verified |-> FALSE, needOtp |-> TRUE, provider |-> FALSE, password |-> 0]

Provided == [verified |-> TRUE, needOtp |-> FALSE, provider |-> TRUE, password |-> 0]

\* Mutant: the mail of a sign-up is left to the user to ask for.
CreateOnly(c) ==
    /\ AtStep(c, "create")
    /\ IF account # NoAccount THEN Reply(c, "refused") /\ UNCHANGED account
       ELSE LET provided == request[c].op = "provider" IN
            /\ account' = IF provided THEN Provided ELSE SignedUp
            /\ Reply(c, "ok")
    /\ UNCHANGED <<onFile, issued, sent, toggled, broken>>

\* create, create*User: e-mail addresses are unique. A sign-up is answered here
\* and mails on its own (void sendVerification).
Create(c) ==
    /\ AtStep(c, "create")
    /\ IF account # NoAccount THEN Reply(c, "refused") /\ UNCHANGED account
       ELSE LET provided == request[c].op = "provider" IN
            /\ account' = IF provided THEN Provided ELSE SignedUp
            /\ IF provided THEN Reply(c, "ok")
               ELSE request' = [request EXCEPT ![c].kind = "verification",
                                               ![c].step = "cooldown", ![c].answer = "ok"]
    /\ UNCHANGED <<onFile, issued, sent, toggled, broken>>
-----------------------------------------------------------------------------
(***************************************************************************)
(* Making a token and mailing it.                                          *)
(***************************************************************************)
\* sendVerification, sendOTP: findTokenByEmail, findOTPByUser.
Cooldown(c) ==
    LET kind == request[c].kind IN
    /\ AtStep(c, "cooldown")
    /\ IF onFile[kind] # NoToken /\ onFile[kind].age = "fresh"
       THEN Fail(c, IF kind = "otp" THEN "otp_cooldown" ELSE "email_verification_cooldown")
       ELSE Go(c, "delete") /\ UNCHANGED broken
    /\ UNCHANGED <<account, onFile, issued, sent, toggled>>

\* create*Token, createOTP: the old one first.
Delete(c) ==
    /\ AtStep(c, "delete")
    /\ onFile' = [onFile EXCEPT ![request[c].kind] = NoToken]
    /\ Go(c, "insert")
    /\ UNCHANGED <<account, issued, sent, toggled, broken>>

\* One row per user (OneToOne): an insert that finds one fails.
Insert(c) ==
    LET kind == request[c].kind IN
    /\ AtStep(c, "insert")
    /\ IF onFile[kind] # NoToken
       THEN Fail(c, "refused") /\ UNCHANGED <<onFile, issued>>
       ELSE /\ issued[kind] < MaxIssued[kind]
            /\ issued' = [issued EXCEPT ![kind] = @ + 1]
            /\ onFile' = [onFile EXCEPT ![kind] =
                    [id |-> issued[kind] + 1, age |-> IF kind = "reset" THEN "valid" ELSE "fresh"]]
            /\ request' = [request EXCEPT ![c].token = issued[kind] + 1, ![c].step = "mail"]
            /\ UNCHANGED broken
    /\ UNCHANGED <<account, sent, toggled>>

\* What a request that has sent its mail answers.
MailAnswer(r) ==
    CASE r.op = "sign-in" /\ r.kind = "verification" -> "email_not_verified"
      [] r.op = "sign-in" /\ r.kind = "otp" -> "otp_required"
      [] OTHER -> "ok"

\* AuthMailerService: the mail is queued.
Mail(c) ==
    LET r == request[c] IN
    /\ AtStep(c, "mail")
    /\ sent' = [sent EXCEPT ![r.kind] = @ \union {r.token}]
    /\ request' = [request EXCEPT ![c] =
            IF InBackground(r) THEN Closed(r) ELSE Answered(r, MailAnswer(r))]
    /\ UNCHANGED <<account, onFile, issued, toggled, broken>>
-----------------------------------------------------------------------------
(***************************************************************************)
(* Presenting a token.                                                     *)
(***************************************************************************)
OnFile(c) ==
    LET kind == request[c].kind IN
    onFile[kind] # NoToken /\ onFile[kind].id = request[c].token

\* verifyEmail, verifyOTP, findOneByResetPasswordToken.
Present(c) ==
    LET r == request[c] IN
    /\ AtStep(c, "present")
    /\ CASE ~OnFile(c) \/ (r.kind # "reset" /\ Expired(r.kind)) -> Reply(c, "refused")
         [] OnFile(c) /\ r.op = "reset-page" -> Reply(c, "ok")
         [] OnFile(c) /\ r.op = "reset" -> Go(c, "copy")
         [] OTHER -> Go(c, "remove")
    /\ UNCHANGED <<account, onFile, issued, sent, toggled, broken>>

AfterRemove(op) ==
    CASE op = "verify" -> "copy" [] op = "toggle-otp" -> "save" [] OTHER -> "idle"

\* Mutant: the code stays on file.
KeepCode(c) ==
    /\ AtStep(c, "remove")
    /\ IF request[c].op = "sign-in" THEN Reply(c, "ok")
       ELSE Go(c, IF request[c].op = "verify" THEN "copy" ELSE "save")
    /\ UNCHANGED <<account, onFile, issued, sent, toggled, broken>>

\* repository.remove: the row found, if it is still there.
Remove(c) ==
    /\ AtStep(c, "remove")
    /\ onFile' = IF OnFile(c) THEN [onFile EXCEPT ![request[c].kind] = NoToken] ELSE onFile
    /\ IF request[c].op = "sign-in" THEN Reply(c, "ok") ELSE Go(c, AfterRemove(request[c].op))
    /\ UNCHANGED <<account, issued, sent, toggled, broken>>

\* markEmailAsVerified, updatePassword: findOne.
Copy(c) ==
    /\ AtStep(c, "copy")
    /\ request' = [request EXCEPT ![c].user = account, ![c].stale = FALSE, ![c].step = "save"]
    /\ UNCHANGED <<account, onFile, issued, sent, toggled, broken>>

\* Mutant: the password is among the columns read, so that saving writes it back.
WrittenWhole(r) ==
    [verified |-> r.user.verified \/ r.op \in {"verify", "provider"},
     needOtp  |-> IF r.op = "toggle-otp" THEN ~r.user.needOtp ELSE r.user.needOtp,
     provider |-> r.user.provider \/ r.op = "provider",
     password |-> IF r.op = "reset" THEN r.token ELSE r.user.password]

\* repository.save(user) writes every column that differs from the row, so it
\* puts back what the request read; the password is never read (select: false).
Written(r) ==
    [verified |-> r.user.verified \/ r.op \in {"verify", "provider"},
     needOtp  |-> IF r.op = "toggle-otp" THEN ~r.user.needOtp ELSE r.user.needOtp,
     provider |-> r.user.provider \/ r.op = "provider",
     password |-> IF r.op = "reset" THEN r.token ELSE account.password]

\* enableOtp, disableOtp, updateUserAvatar, update, and the two of Copy. What
\* resetPassword mails to confirm may fail, and nothing more.
Save(c) ==
    LET r == request[c]
        turned == Written(r).needOtp # account.needOtp
    IN
    /\ AtStep(c, "save")
    /\ account' = Written(r)
    /\ toggled' = toggled \union (IF r.op = "toggle-otp" /\ turned THEN {r.token} ELSE {})
    /\ broken' = (broken \/ (account.verified /\ ~account'.verified))
    /\ request' = [d \in Clients |->
            IF d = c THEN Answered(r, "ok")
            ELSE [request[d] EXCEPT !.stale = @ \/ (turned /\ request[d].user # NoAccount)]]
    /\ UNCHANGED <<onFile, issued, sent>>

\* The API goes down in the middle of a request, or the mail queue does.
Stop(c) ==
    /\ MayStop /\ ~broken  \* bound: one stop
    /\ ~AtStep(c, "idle")
    /\ broken' = TRUE
    /\ request' = [request EXCEPT ![c] = Closed(@)]
    /\ UNCHANGED <<account, onFile, issued, sent, toggled>>

Serve(c) ==
    \/ Create(c)
    \/ Cooldown(c) \/ Delete(c) \/ Insert(c) \/ Mail(c)
    \/ Present(c) \/ Remove(c) \/ Copy(c) \/ Save(c)
    \/ Stop(c)
=============================================================================
