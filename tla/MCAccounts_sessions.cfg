SPECIFICATION FairSpec
CONSTANTS
    Clients = {c1, c2}
    Emails = {e1}
    MaxAccounts = 3
INVARIANTS
    OneAccountPerEmail
    AnswersAreTrue
PROPERTIES
    RegistrationsEnd
    SessionsEnd
CHECK_DEADLOCK FALSE
