----------------------------- MODULE AccountPages -----------------------------
(***************************************************************************)
(* The pages of one browser that sign up, sign in, verify an address,      *)
(* reset a password and switch one-time codes on and off (apps/web:        *)
(* features/auth, features/settings, actions/auth), over the API of        *)
(* Accounts. A client is a tab, with at most one action pending (isPending *)
(* disables the form; after Escape the switch is left alone until the code *)
(* being confirmed has its answer); the tabs share the session cookie.     *)
(***************************************************************************)
EXTENDS Accounts

VARIABLES page,    \* [Clients -> what the tab shows]
          session  \* the auth-token cookie is set

vars == <<accountVars, page, session>>

Places == {"sign-in", "otp", "otp-resending", "check-mail", "forgot-sent",
           "sign-up", "sign-up-sent", "link", "reset", "app", "security", "dialog"}

Pages == [at      : Places,
          prop    : BOOLEAN,  \* user.need_otp as the page was rendered
          switch  : BOOLEAN,  \* switchChecked
          crossed : BOOLEAN,  \* history: need_otp changed elsewhere meanwhile
          left    : BOOLEAN]  \* history: the dialog was left by Escape

TypeOK ==
    /\ AccountsTypeOK
    /\ page \in [Clients -> Pages]
    /\ session \in BOOLEAN

At(place) ==
    [at |-> place, prop |-> FALSE, switch |-> FALSE, crossed |-> FALSE, left |-> FALSE]

Init ==
    /\ AccountsInit
    /\ page = [c \in Clients |-> At("sign-in")]
    /\ session = FALSE
-----------------------------------------------------------------------------
Show(c, p) == page' = [page EXCEPT ![c] = p]

\* handleAuthenticationRedirection, in the layouts: the cookie is good while
\* /user/me answers.
SignedIn == session /\ GuardAdmits

\* The layouts of the forms and of the application send the user where he belongs.
Open(c, place) ==
    /\ Free(c)
    /\ SignedIn <=> place \in {"app", "security"}
    /\ Show(c, IF place = "security"
               THEN [At(place) EXCEPT !.prop = account.needOtp, !.switch = account.needOtp]
               ELSE At(place))
    /\ UNCHANGED <<accountVars, session>>

\* The user reads a mail and follows its link: the page calls the API itself.
FollowLink(c, kind) ==
    /\ \E token \in sent[kind] :
        Begin(c, IF kind = "verification" THEN "verify" ELSE "reset-page", token)
    /\ Show(c, At("link"))
    /\ UNCHANGED session

\* Pressing a button that calls an action and stays on the page.
Press(c, place, op) ==
    /\ page[c].at = place
    /\ Begin(c, op, 0)
    /\ UNCHANGED <<page, session>>

SignIn(c) == Press(c, "sign-in", "sign-in")

Forgot(c) == Press(c, "sign-in", "forgot")

SignUp(c) == Press(c, "sign-up", "sign-up")

Resend(c) == Press(c, "check-mail", "resend") \/ Press(c, "sign-up-sent", "resend")

\* handleResendOtp signs in again without a code.
ResendOtp(c) ==
    /\ page[c].at = "otp"
    /\ Begin(c, "sign-in", 0)
    /\ Show(c, At("otp-resending"))
    /\ UNCHANGED session

SubmitOtp(c) ==
    /\ page[c].at = "otp"
    /\ \E token \in sent["otp"] : Begin(c, "sign-in", token)
    /\ UNCHANGED <<page, session>>

\* onBack of the steps; a code step has none.
Back(c) ==
    /\ Free(c)
    /\ page[c].at \in {"check-mail", "forgot-sent"}
    /\ Show(c, At("sign-in"))
    /\ UNCHANGED <<accountVars, session>>

\* /oauth/<provider> and its callback.
Provider(c) == Press(c, "sign-in", "provider") \/ Press(c, "sign-up", "provider")

SubmitReset(c) ==
    /\ page[c].at = "reset"
    /\ \E token \in sent["reset"] : Begin(c, "reset", token)
    /\ UNCHANGED <<page, session>>

SaveAvatar(c) == session /\ Press(c, "app", "avatar")

\* handleToggle: the switch moves at once.
Toggle(c) ==
    /\ session
    /\ page[c].at = "security"
    /\ ~account.provider
    /\ Begin(c, "send-otp", 0)
    /\ Show(c, [page[c] EXCEPT !.switch = ~@])
    /\ UNCHANGED session

\* onSubmit of the dialog.
Confirm(c) ==
    /\ session
    /\ page[c].at = "dialog"
    /\ \E token \in sent["otp"] : Begin(c, "toggle-otp", token)
    /\ UNCHANGED <<page, session>>

\* Mutant: closing the dialog leaves the switch as it was moved.
CloseOnly(c) ==
    /\ Free(c)
    /\ page[c].at = "dialog"
    /\ Show(c, [page[c] EXCEPT !.at = "security"])
    /\ UNCHANGED <<accountVars, session>>

\* handleClose, the Cancel button.
Close(c) ==
    /\ Free(c)
    /\ page[c].at = "dialog"
    /\ Show(c, [page[c] EXCEPT !.at = "security", !.switch = page[c].prop,
                               !.left = FALSE])
    /\ UNCHANGED <<accountVars, session>>

\* onOpenChange={setDialogOpen}: Escape closes the dialog without handleClose,
\* while a code is being confirmed too, and the switch stays as it was moved.
Escape(c) ==
    /\ page[c].at = "dialog"
    /\ Show(c, [page[c] EXCEPT !.at = "security", !.left = TRUE])
    /\ UNCHANGED <<accountVars, session>>

\* signOut, or the cookie's seven days.
SignOut ==
    /\ session
    /\ session' = FALSE
    /\ UNCHANGED <<accountVars, page>>
-----------------------------------------------------------------------------
\* handleSignIn.
AfterSignIn(answer) ==
    CASE answer = "ok" -> "app"
      [] answer = "otp_required" -> "otp"
      [] answer \in {"email_not_verified", "email_verification_cooldown"} -> "check-mail"
      [] OTHER -> "sign-in"

\* handleOtpSubmit: any success of the action redirects to /app, whose layout
\* sends back a user without a session.
AfterOtp(answer) ==
    CASE answer \in {"refused", "otp_cooldown"} -> "otp"
      [] answer = "ok" \/ (answer \notin {"refused", "otp_cooldown"} /\ SignedIn) -> "app"
      [] OTHER -> "sign-in"

\* What the tab shows once the pending action has its answer.
Shown(p, op, answer) ==
    CASE op = "sign-in" /\ p.at = "sign-in" -> At(AfterSignIn(answer))
      [] op = "sign-in" /\ p.at = "otp" -> At(AfterOtp(answer))
      [] op = "sign-in" /\ p.at = "otp-resending" -> At("otp")
      [] op = "provider" -> At(IF answer = "ok" THEN "app" ELSE "sign-in")
      [] op = "forgot" -> At("forgot-sent")
      [] op = "sign-up" -> At(IF answer = "ok" THEN "sign-up-sent" ELSE "sign-up")
      [] op = "verify" -> At("sign-in")  \* either way a link to it
      [] op = "reset-page" -> At(IF answer = "ok" THEN "reset" ELSE "sign-in")
      [] op = "reset" -> At(IF answer = "ok" THEN "sign-in" ELSE "reset")
      [] op = "send-otp" ->
            IF answer = "ok" THEN [p EXCEPT !.at = "dialog"]
            ELSE [p EXCEPT !.switch = p.prop, !.left = FALSE]
      \* revalidatePath renders the page anew; the switch is set from the old prop.
      [] op = "toggle-otp" /\ answer = "ok" ->
            [p EXCEPT !.at = "security", !.switch = ~p.prop, !.prop = account.needOtp,
                      !.left = FALSE]
      [] OTHER -> p

\* signInAction and the provider's callback set the cookie.
Take(c) ==
    LET op == request[c].op
        answer == request[c].answer
    IN
    /\ answer # "none"
    /\ request' = [request EXCEPT ![c] = Taken(@)]
    /\ Show(c, Shown(page[c], op, answer))
    /\ session' = (session \/ (op \in {"sign-in", "provider"} /\ answer = "ok"))
    /\ UNCHANGED <<account, onFile, issued, sent, toggled, broken>>

\* A step of the API; the tabs that show need_otp may be overtaken by it.
ServeTab(c) ==
    /\ Serve(c)
    /\ page' = [d \in Clients |->
            IF d # c /\ account # NoAccount /\ account'.needOtp # account.needOtp
            THEN [page[d] EXCEPT !.crossed = page[d].at \in {"security", "dialog"}]
            ELSE page[d]]
    /\ UNCHANGED session

Pass(kind) == Age(kind) /\ UNCHANGED <<page, session>>

Next ==
    \/ \E c \in Clients :
        \/ ServeTab(c) \/ Take(c)
        \/ \E place \in {"sign-in", "sign-up", "app", "security"} : Open(c, place)
        \/ \E kind \in {"verification", "reset"} : FollowLink(c, kind)
        \/ SignIn(c) \/ Forgot(c) \/ SignUp(c) \/ Resend(c) \/ Provider(c)
        \/ ResendOtp(c) \/ SubmitOtp(c) \/ Back(c)
        \/ SubmitReset(c)
        \/ SaveAvatar(c) \/ Toggle(c) \/ Confirm(c) \/ Close(c)
        \/ Escape(c)
    \/ \E kind \in Kinds : Pass(kind)
    \/ SignOut

Spec == Init /\ [][Next]_vars
-----------------------------------------------------------------------------
(***************************************************************************)
(* Correctness.                                                            *)
(***************************************************************************)
AllFree == \A c \in Clients : request[c].step = "idle"

\* Unless a request stopped halfway, an address that waits for verification
\* has a token on file and that token was mailed, however sign-ups, sign-ins
\* and resends interleave between the statements that replace a token
\* (createVerificationToken, sendVerification).
UnverifiedHasMail ==
    (AllFree /\ ~broken /\ account # NoAccount /\ ~account.verified) =>
        /\ onFile["verification"] # NoToken
        /\ onFile["verification"].id \in sent["verification"]

\* Saving a user that a request read earlier never brings back an old
\* password (user.ts: select: false); only a reset changes it.
PasswordOnlyByReset ==
    [][(account # NoAccount /\ account'.password # account.password) =>
        \E c \in Clients : request[c].op = "reset" /\ AtStep(c, "save")
                           /\ account'.password = request[c].token]_vars

\* A verified address stays verified, whatever saves the row from an older
\* copy of it, except a password reset that read it before the verification.
VerifiedStays ==
    [][(account # NoAccount /\ account.verified /\ ~account'.verified) =>
        \E c \in Clients : request[c].op = "reset" /\ AtStep(c, "save")]_vars

\* One code switches need_otp once, however often and from how many tabs it is
\* sent (verifyOTP removes it first), and nothing else switches it, but for a
\* request that saves a row whose need_otp was switched since it read it.
CodeTogglesOnce ==
    [][(account # NoAccount /\ account'.needOtp # account.needOtp) =>
        \E c \in Clients :
            /\ AtStep(c, "save")
            /\ \/ request[c].stale
               \/ request[c].op = "toggle-otp" /\ request[c].token \notin toggled]_vars

\* Once nothing is pending the switch of the security page says what the
\* account says, through toggles, wrong codes, Cancel and reopened pages. Two
\* things are excepted because the code does not see to them: another tab that
\* changed need_otp since the page was opened, and a dialog left by Escape,
\* which keeps the switch as it was moved until a later toggle is refused,
\* cancelled or confirmed.
SwitchTellsTruth ==
    \A c \in Clients :
        (page[c].at = "security" /\ Free(c) /\ ~page[c].crossed /\ ~page[c].left) =>
            page[c].switch = account.needOtp
=============================================================================
