------------------------------- MODULE SignIn -------------------------------
(***************************************************************************)
(* Sign-in and sessions: internal/auth/service.go, the handlers and the    *)
(* session middleware of adapters/http/handler.go, and the statements of   *)
(* adapters/postgres/repository.go.                                        *)
(*                                                                         *)
(* Tickets are the rows of auth_oauth_states and auth_email_tokens: random *)
(* tokens that are consumed by the callback of a provider or by the link   *)
(* of a mail.  Each is one UPDATE; so are the check and the revocation of  *)
(* a session.  Nothing spans two statements, so a step of a request is one *)
(* statement, one answer of a provider or the delivery of an answer, and   *)
(* requests interleave between them.  A request takes the time first and   *)
(* hands it to the statement later.  The rows and the browser's cookie     *)
(* outlive the process; requests and the list of addresses do not.         *)
(*                                                                         *)
(* Random tokens do not repeat.  An email stands for all spellings that    *)
(* NormalizeEmail maps to it, which every entry of an address applies.     *)
(***************************************************************************)
EXTENDS Naturals, FiniteSets

CONSTANTS
    Emails,         \* normalised addresses
    Providers,      \* ids of the configured OAuth providers
    EmailTrusted,   \* those whose user info is taken for verified
    Tokens,         \* random values for tickets
    Sessions,       \* random values for sessions
    Requests,       \* slots for requests in flight
    TokenTTL,
    SessionTTL,
    MaxTime,        \* bound on the clock
    MaxRestarts,    \* bound on the replacements of the process
    NULL            \* no email, no token, no session, no provider

ASSUME ConstantsAssumption ==
    /\ TokenTTL \in Nat \ {0}
    /\ SessionTTL \in Nat \ {0}
    /\ MaxTime \in Nat
    /\ MaxRestarts \in Nat
    /\ "email" \notin Providers
    /\ NULL \notin Emails \cup Tokens \cup Sessions \cup Providers \cup {"email"}

VARIABLES
    clock,      \* the time
    allowed,    \* AllowedEmails of the running process
    restarts,   \* how often the process was replaced
    tickets,    \* auth_oauth_states and auth_email_tokens
    sessions,   \* auth_sessions
    cookie,     \* the session cookie of the browser, or NULL
    req         \* the request in each slot

vars == <<clock, allowed, restarts, tickets, sessions, cookie, req>>

\* ------------------------------- the rows --------------------------------

Kinds == Providers \cup {"email"}

\* email is the owner of a mail link.
Ticket == [kind : Kinds, email : Emails \cup {NULL}, expires : Nat, used : BOOLEAN]
NoTicket == [kind |-> NULL, email |-> NULL, expires |-> 0, used |-> FALSE]

\* ticket is history: what the session was made from.
Session == [email : Emails, provider : Kinds, created : Nat, expires : Nat, seen : Nat,
            revoked : BOOLEAN, ticket : Tokens]
NoSession == [email |-> NULL, provider |-> NULL, created |-> 0, expires |-> 0, seen |-> 0,
              revoked |-> FALSE, ticket |-> NULL]

\* ------------------------------- requests --------------------------------

Stages == {"idle",
           "consume",   \* a callback or a link, before its ticket is consumed
           "identity",  \* the provider is asked who it is
           "create",    \* the session is about to be inserted
           "signed",    \* the answer with the cookie is on its way
           "find",      \* a request for the API, before its session is looked up
           "inside",    \* it has a principal and is served
           "revoke",    \* a logout, before the session is revoked
           "clear"}     \* the answer that clears the cookie is on its way

Request == [stage : Stages, provider : Kinds \cup {NULL}, ticket : Tokens \cup {NULL},
            email : Emails \cup {NULL}, session : Sessions \cup {NULL}, now : Nat]

Idle == [stage |-> "idle", provider |-> NULL, ticket |-> NULL, email |-> NULL,
         session |-> NULL, now |-> 0]

Answered(r) == [req EXCEPT ![r] = Idle]

\* The request goes on with a part of its record; now is used up.
Onward(r, stage, email, session) ==
    [req EXCEPT ![r] = [stage |-> stage, provider |-> req[r].provider, ticket |-> req[r].ticket,
                        email |-> email, session |-> session, now |-> 0]]

\* A new request takes the slot.
Begun(r, stage, provider, ticket, session, now) ==
    [req EXCEPT ![r] = [stage |-> stage, provider |-> provider, ticket |-> ticket,
                        email |-> NULL, session |-> session, now |-> now]]

EmailAllowed(e) == e \in allowed

Init ==
    /\ clock = 0
    /\ allowed \in SUBSET Emails
    /\ restarts = 0
    /\ tickets = [t \in Tokens |-> NoTicket]
    /\ sessions = [s \in Sessions |-> NoSession]
    /\ cookie = NULL
    /\ req = [r \in Requests |-> Idle]

\* ---------------------------- starting sign-in ---------------------------

NewTicket(kind, email) ==
    [kind |-> kind, email |-> email, expires |-> clock + TokenTTL, used |-> FALSE]

\* The row is visible to nobody before the redirect carries its token away, so
\* the time, the statement and the answer are one step.
AuthCodeURL(t, p) ==
    /\ tickets[t] = NoTicket
    /\ tickets' = [tickets EXCEPT ![t] = NewTicket(p, NULL)]
    /\ UNCHANGED <<clock, allowed, restarts, sessions, cookie, req>>

\* Any other address is answered alike and nothing is done.  When the mail fails
\* after the row is saved nobody learns the token, and the row is never consumed.
StartEmailLogin(t, e) ==
    /\ tickets[t] = NoTicket
    /\ EmailAllowed(e)
    /\ tickets' = [tickets EXCEPT ![t] = NewTicket("email", e)]
    /\ UNCHANGED <<clock, allowed, restarts, sessions, cookie, req>>

\* --------------------------- completing sign-in --------------------------

\* completeOAuth under /{provider}/callback, or completeEmail.  The browser may
\* repeat it, also while the first one runs, and a path may not fit the ticket.
Complete(r, t, p) ==
    /\ req[r] = Idle
    /\ tickets[t] # NoTicket
    /\ req' = Begun(r, "consume", p, t, NULL, clock)
    /\ UNCHANGED <<clock, allowed, restarts, tickets, sessions, cookie>>

InTable(q) == (q.provider = "email") = (tickets[q.ticket].kind = "email")

\* Variant: a link works until it expires.
NotExpired(q) == InTable(q) /\ tickets[q.ticket].expires > q.now

\* The WHERE clause of ConsumeOAuthState and ConsumeEmailToken.
Redeemable(q) ==
    /\ InTable(q)
    /\ ~ tickets[q.ticket].used
    /\ tickets[q.ticket].expires > q.now

IssuedFor(q) == tickets[q.ticket].kind = q.provider

OwnerAllowed(q) == EmailAllowed(tickets[q.ticket].email)

Refuse(r) ==
    /\ req' = Answered(r)
    /\ UNCHANGED tickets

\* A ticket of another provider is used up all the same.
ConsumeOAuthState(r) ==
    LET q == req[r]
    IN  /\ q.stage = "consume"
        /\ q.provider # "email"
        /\ \/ /\ Redeemable(q)
              /\ tickets' = [tickets EXCEPT ![q.ticket].used = TRUE]
              /\ req' = IF IssuedFor(q) THEN Onward(r, "identity", NULL, NULL) ELSE Answered(r)
           \/ ~ Redeemable(q) /\ Refuse(r)
        /\ UNCHANGED <<clock, allowed, restarts, sessions, cookie>>

ConsumeEmailToken(r) ==
    LET q == req[r]
    IN  /\ q.stage = "consume"
        /\ q.provider = "email"
        /\ \/ /\ Redeemable(q)
              /\ tickets' = [tickets EXCEPT ![q.ticket].used = TRUE]
              /\ req' = IF OwnerAllowed(q)
                        THEN Onward(r, "create", tickets[q.ticket].email, NULL)
                        ELSE Answered(r)
           \/ ~ Redeemable(q) /\ Refuse(r)
        /\ UNCHANGED <<clock, allowed, restarts, sessions, cookie>>

\* Variant: the address VK returns with the token is taken for verified.
VKVerified(p) == [email : Emails \cup {NULL}, verified : {p \in EmailTrusted \cup {"vk"}}]

\* What a provider may say of the user.  GitHub lists addresses of which the
\* code takes a verified one, or fails; VK's is never taken for verified; of
\* the others the configuration says whether it is.
Identities(p) ==
    CASE p = "github" -> [email : Emails, verified : {TRUE}]
      [] p = "vk"     -> [email : Emails \cup {NULL}, verified : {FALSE}]
      [] OTHER        -> [email : Emails \cup {NULL}, verified : {p \in EmailTrusted}]

\* exchangeOAuthCode and oauthIdentity succeed (Abort covers their failures);
\* then the address must be known, allowed and verified.
Identify(r, identity) ==
    /\ req[r].stage = "identity"
    /\ req' = IF identity.email # NULL /\ EmailAllowed(identity.email) /\ identity.verified
              THEN Onward(r, "create", identity.email, NULL)
              ELSE Answered(r)
    /\ UNCHANGED <<clock, allowed, restarts, tickets, sessions, cookie>>

\* As with the tickets, the row is visible to nobody before the answer, and the
\* time it is made with is that of the statement.
CreateSession(r, s) ==
    /\ req[r].stage = "create"
    /\ sessions[s] = NoSession
    /\ sessions' = [sessions EXCEPT ![s] =
         [email |-> req[r].email, provider |-> req[r].provider, created |-> clock,
          expires |-> clock + SessionTTL, seen |-> clock, revoked |-> FALSE,
          ticket |-> req[r].ticket]]
    /\ req' = Onward(r, "signed", req[r].email, s)
    /\ UNCHANGED <<clock, allowed, restarts, tickets, cookie>>

\* The browser takes the cookie, in place of one it may have.
SetCookie(r) ==
    /\ req[r].stage = "signed"
    /\ cookie' = req[r].session
    /\ req' = Answered(r)
    /\ UNCHANGED <<clock, allowed, restarts, tickets, sessions>>

\* --------------------------- using the session ---------------------------

\* SessionMiddleware; without a cookie the request stays outside at once.
Visit(r) ==
    /\ req[r] = Idle
    /\ cookie # NULL
    /\ req' = Begun(r, "find", NULL, NULL, cookie, clock)
    /\ UNCHANGED <<clock, allowed, restarts, tickets, sessions, cookie>>

\* Variants: a session does not expire; a revoked one is still found; the list
\* is looked at only when one signs in.
NotRevoked(s, now) == ~ sessions[s].revoked
NotOver(s, now) == sessions[s].expires > now
AnyEmail(s) == TRUE

\* The WHERE clause of FindSession.
Live(s, now) == ~ sessions[s].revoked /\ sessions[s].expires > now

Known(s) == EmailAllowed(sessions[s].email)

\* PrincipalForToken and RequireAuthenticated: last_seen_at is written before
\* the list is looked at.
FindSession(r) ==
    LET q == req[r]
    IN  /\ q.stage = "find"
        /\ \/ /\ Live(q.session, q.now)
              /\ sessions' = [sessions EXCEPT ![q.session].seen = q.now]
              /\ req' = IF Known(q.session) THEN Onward(r, "inside", NULL, q.session)
                                            ELSE Answered(r)
           \/ /\ ~ Live(q.session, q.now)
              /\ req' = Answered(r)
              /\ UNCHANGED sessions
        /\ UNCHANGED <<clock, allowed, restarts, tickets, cookie>>

Serve(r) ==
    /\ req[r].stage = "inside"
    /\ req' = Answered(r)
    /\ UNCHANGED <<clock, allowed, restarts, tickets, sessions, cookie>>

\* -------------------------------- logout ---------------------------------

\* Without a cookie there is nothing to revoke.
Logout(r) ==
    /\ req[r] = Idle
    /\ req' = Begun(r, IF cookie = NULL THEN "clear" ELSE "revoke", NULL, NULL, cookie, 0)
    /\ UNCHANGED <<clock, allowed, restarts, tickets, sessions, cookie>>

\* A failure of the statement is logged, and the cookie cleared all the same.
RevokeSession(r, fails) ==
    /\ req[r].stage = "revoke"
    /\ sessions' = IF fails THEN sessions ELSE [sessions EXCEPT ![req[r].session].revoked = TRUE]
    /\ req' = Onward(r, "clear", NULL, NULL)
    /\ UNCHANGED <<clock, allowed, restarts, tickets, cookie>>

ClearCookie(r) ==
    /\ req[r].stage = "clear"
    /\ cookie' = NULL
    /\ req' = Answered(r)
    /\ UNCHANGED <<clock, allowed, restarts, tickets, sessions>>

\* ------------------------------ environment ------------------------------

\* The request ends early: its next statement or the provider fails, or the
\* answer does not reach the browser.
Abort(r) ==
    /\ req[r] # Idle
    /\ req' = Answered(r)
    /\ UNCHANGED <<clock, allowed, restarts, tickets, sessions, cookie>>

\* A new process, perhaps with another list.
Restart(list) ==
    /\ restarts < MaxRestarts
    /\ restarts' = restarts + 1
    /\ allowed' = list
    /\ req' = [r \in Requests |-> Idle]
    /\ UNCHANGED <<clock, tickets, sessions, cookie>>

Tick ==
    /\ clock < MaxTime
    /\ clock' = clock + 1
    /\ UNCHANGED <<allowed, restarts, tickets, sessions, cookie, req>>

Start(t) ==
    \/ \E p \in Providers : AuthCodeURL(t, p)
    \/ \E e \in Emails : StartEmailLogin(t, e)

SignInStep(r) ==
    \/ \E t \in Tokens, p \in Kinds : Complete(r, t, p)
    \/ ConsumeOAuthState(r)
    \/ ConsumeEmailToken(r)
    \/ \E identity \in Identities(req[r].provider) : Identify(r, identity)
    \/ \E s \in Sessions : CreateSession(r, s)
    \/ SetCookie(r)

SessionStep(r) ==
    \/ Visit(r)
    \/ FindSession(r)
    \/ Serve(r)
    \/ Logout(r)
    \/ \E fails \in BOOLEAN : RevokeSession(r, fails)
    \/ ClearCookie(r)

Next ==
    \/ \E t \in Tokens : Start(t)
    \/ \E r \in Requests : SignInStep(r) \/ SessionStep(r) \/ Abort(r)
    \/ \E list \in SUBSET Emails : Restart(list)
    \/ Tick

Spec == Init /\ [][Next]_vars

-----------------------------------------------------------------------------
\* ------------------------------ properties -------------------------------

Alive == {s \in Sessions : sessions[s] # NoSession}

\* Request r has consumed its ticket and has not made it a session yet.
Holds(r) == req[r].stage \in {"identity", "create"}

\* The rows and the slots are well-formed, and a free slot holds nothing.
TypeOK ==
    /\ clock \in 0 .. MaxTime
    /\ allowed \subseteq Emails
    /\ restarts \in 0 .. MaxRestarts
    /\ tickets \in [Tokens -> Ticket \cup {NoTicket}]
    /\ sessions \in [Sessions -> Session \cup {NoSession}]
    /\ cookie \in Sessions \cup {NULL}
    /\ req \in [Requests -> Request]
    /\ \A r \in Requests : req[r].stage = "idle" => req[r] = Idle

\* A link or a callback that is opened twice, also at the same time, makes one
\* session: the ticket is consumed by one statement.
OneSessionPerTicket ==
    \A s, u \in Alive : sessions[s].ticket = sessions[u].ticket => s = u

\* A session belongs to the ticket it was made from: same way in, and for a link
\* the address it was mailed to, whatever path the token was presented under.
\* VK, and a provider whose user info is not trusted, never make one.
SessionOfItsTicket ==
    \A s \in Alive :
        LET ticket == tickets[sessions[s].ticket]
        IN  /\ ticket.used
            /\ sessions[s].provider = ticket.kind
            /\ ticket.kind = "email" => sessions[s].email = ticket.email
            /\ ticket.kind \in {"email", "github"} \cup (EmailTrusted \ {"vk"})

\* last_seen_at may go back when two requests overtake each other between the
\* time they take and the statement, but it never leaves the life of the session.
SeenWithinLife ==
    \A s \in Alive : sessions[s].seen \in sessions[s].created .. sessions[s].expires - 1

\* What the table says of a session was true of its ticket and its requests.
SessionsAreSound == SessionOfItsTicket /\ SeenWithinLife

\* An address that was taken off the list is served nothing after the restart,
\* although its sessions and links outlive the process.
InsideIsAllowed ==
    \A r \in Requests : req[r].stage = "inside" => sessions[req[r].session].email \in allowed

\* No session is made for an address the running process does not allow, although
\* its link was sent, or its round trip begun, by a process that did.
NewSessionsAllowed ==
    [][\A s \in Sessions :
         sessions[s] = NoSession /\ sessions'[s] # NoSession => sessions'[s].email \in allowed]_vars

\* Once a session is revoked nothing touches its row again: a request that was on
\* its way beside the logout is turned away and leaves no trace.
LoggedOutStaysOut ==
    [][\A s \in Sessions :
         sessions[s].revoked => /\ sessions'[s] = sessions[s]
                                /\ \A r \in Requests :
                                     /\ req[r].stage = "find"
                                     /\ req[r].session = s
                                     => req'[r].stage # "inside"]_vars

\* The requests implement, for every ticket, the gate that it opens in one step.
PassOf(t) ==
    IF tickets[t] = NoTicket THEN [state |-> "unissued", who |-> NULL]
    ELSE IF ~ tickets[t].used \/ \E r \in Requests : Holds(r) /\ req[r].ticket = t
    THEN [state |-> "valid", who |-> NULL]
    ELSE IF \E s \in Alive : sessions[s].ticket = t
    THEN LET s == CHOOSE s \in Alive : sessions[s].ticket = t
         IN  [state |-> IF sessions[s].revoked THEN "closed" ELSE "open", who |-> sessions[s].email]
    ELSE [state |-> "closed", who |-> NULL]

InsideBy(t) == {r \in Requests : req[r].stage = "inside" /\ sessions[req[r].session].ticket = t}

GateOf(t) == INSTANCE Gate WITH pass <- PassOf(t), inside <- InsideBy(t)

ImplementsGate ==
    /\ \A t \in Tokens : GateOf(t)!GateInit
    /\ [][\A t \in Tokens : UNCHANGED GateOf(t)!gateVars \/ GateOf(t)!GateNext]_vars
=============================================================================
