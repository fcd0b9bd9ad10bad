\* Two tabs; requests may stop; two tokens of a kind.
SPECIFICATION Spec
CONSTANTS
    t1 = t1  t2 = t2
    Clients = {t1, t2}
    NoAccount = NoAccount  NoToken = NoToken
    SignupClosed = FALSE
    MaxIssued <- TwoCodes
    MayStop = TRUE
SYMMETRY Tabs
INVARIANTS UnverifiedHasMail SwitchTellsTruth
PROPERTIES PasswordOnlyByReset VerifiedStays CodeTogglesOnce
CHECK_DEADLOCK FALSE
