\* Two tickets, two sessions and two requests, over one change of the list.
SPECIFICATION Spec
CONSTANTS
    e1 = e1
    t1 = t1  t2 = t2
    s1 = s1  s2 = s2
    r1 = r1  r2 = r2
    NULL = NULL
    Emails <- OneEmail
    Providers <- TwoProviders
    EmailTrusted = {"yandex"}
    Tokens <- TwoTokens
    Sessions <- TwoSessions
    Requests <- TwoRequests
    TokenTTL = 1
    SessionTTL = 2
    MaxTime = 2
    MaxRestarts = 1
SYMMETRY Symmetric
INVARIANTS
    OneSessionPerTicket
    SessionsAreSound
    InsideIsAllowed
PROPERTIES
    LoggedOutStaysOut
    ImplementsGate
