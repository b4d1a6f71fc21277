\* Two accounts, two resets of any of them, two outages, any number of failing mails.
SPECIFICATION Spec
CONSTANTS
    Account = {a1, a2}
    Reset = {r1, r2}
    None = None
    OutageBound = 2
INVARIANTS AccountsTypeOK LockedOutWasReported ResetTakesEffect
PROPERTIES PasswordsSurviveStarts ComesUp
