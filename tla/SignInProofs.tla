---------------------------- MODULE SignInProofs ----------------------------
(***************************************************************************)
(* Theorems about sign-in and sessions, for every set of addresses,        *)
(* providers, tokens, sessions and requests and for every lifetime.        *)
(***************************************************************************)
EXTENDS SignIn, TLAPS

-----------------------------------------------------------------------------
(* The invariant *)

\* What the stage of a request says of the rows it goes on to use.
SlotOK(q) ==
    /\ q.stage = "consume" => q.ticket \in Tokens /\ q.provider \in Kinds
    /\ q.stage \in {"identity", "create"} =>
         /\ q.ticket \in Tokens
         /\ tickets[q.ticket].used
         /\ tickets[q.ticket].kind = q.provider
         /\ \A s \in Alive : sessions[s].ticket # q.ticket
    /\ q.stage = "identity" => q.provider \in Providers
    /\ q.stage = "create" =>
         /\ q.email \in allowed
         /\ q.provider \in {"email", "github"} \cup (EmailTrusted \ {"vk"})
         /\ q.provider = "email" => q.email = tickets[q.ticket].email
    /\ q.stage \in {"signed", "find", "inside", "revoke"} => q.session \in Alive
    /\ q.stage = "find" => sessions[q.session].created <= q.now
    /\ q.stage = "inside" => sessions[q.session].email \in allowed

\* A ticket is in the hands of one request.
OneHolder ==
    \A r, u \in Requests : Holds(r) /\ Holds(u) /\ req[r].ticket = req[u].ticket => r = u

NoneFromTheFuture == \A s \in Alive : sessions[s].created <= clock

IInv ==
    /\ TypeOK
    /\ OneSessionPerTicket
    /\ SessionOfItsTicket
    /\ SeenWithinLife
    /\ \A r \in Requests : SlotOK(req[r])
    /\ OneHolder
    /\ NoneFromTheFuture
    /\ cookie # NULL => cookie \in Alive

-----------------------------------------------------------------------------
(* Types *)

LEMMA IdleType == Idle \in Request /\ Idle.stage = "idle"
BY DEF Idle, Request, Stages

\* An answer leaves typed slots.
LEMMA AnswerType ==
    ASSUME TypeOK, NEW r \in Requests, req' = Answered(r)
    PROVE  /\ req' \in [Requests -> Request]
           /\ \A u \in Requests : req'[u].stage = "idle" => req'[u] = Idle
           /\ \A u \in Requests : req'[u] = IF u = r THEN Idle ELSE req[u]
<1>1. req \in [Requests -> Request]
    BY DEF TypeOK
<1>2. \A u \in Requests : req'[u] = IF u = r THEN Idle ELSE req[u]
    BY <1>1 DEF Answered
<1>3. req' \in [Requests -> Request]
    BY <1>1, IdleType DEF Answered
<1> QED
    BY <1>1, <1>2, <1>3 DEF TypeOK

\* So does a slot that goes on.
LEMMA OnwardType ==
    ASSUME TypeOK, NEW r \in Requests, NEW stage \in Stages \ {"idle"},
           NEW email \in Emails \cup {NULL}, NEW session \in Sessions \cup {NULL},
           req' = Onward(r, stage, email, session)
    PROVE  /\ req' \in [Requests -> Request]
           /\ \A u \in Requests : req'[u].stage = "idle" => req'[u] = Idle
           /\ \A u \in Requests : u # r => req'[u] = req[u]
           /\ req'[r] = [stage |-> stage, provider |-> req[r].provider, ticket |-> req[r].ticket,
                         email |-> email, session |-> session, now |-> 0]
<1> DEFINE q == [stage |-> stage, provider |-> req[r].provider, ticket |-> req[r].ticket,
                 email |-> email, session |-> session, now |-> 0]
<1>1. req \in [Requests -> Request] /\ req[r] \in Request
    BY DEF TypeOK
<1>2. q \in Request /\ q.stage # "idle"
    BY <1>1 DEF Request
<1>3. req' = [req EXCEPT ![r] = q]
    BY DEF Onward
<1> HIDE DEF q
<1>4. \A u \in Requests : req'[u] = IF u = r THEN q ELSE req[u]
    BY <1>1, <1>3
<1>5. req' \in [Requests -> Request]
    BY <1>1, <1>2, <1>3
<1> QED
    BY <1>2, <1>4, <1>5 DEF TypeOK, q

\* So does a slot that is taken by a new request.
LEMMA BegunType ==
    ASSUME TypeOK, NEW r \in Requests, NEW stage \in Stages \ {"idle"},
           NEW provider \in Kinds \cup {NULL}, NEW ticket \in Tokens \cup {NULL},
           NEW session \in Sessions \cup {NULL}, NEW now \in Nat,
           req' = Begun(r, stage, provider, ticket, session, now)
    PROVE  /\ req' \in [Requests -> Request]
           /\ \A u \in Requests : req'[u].stage = "idle" => req'[u] = Idle
           /\ \A u \in Requests : u # r => req'[u] = req[u]
           /\ req'[r] = [stage |-> stage, provider |-> provider, ticket |-> ticket,
                         email |-> NULL, session |-> session, now |-> now]
<1> DEFINE q == [stage |-> stage, provider |-> provider, ticket |-> ticket,
                 email |-> NULL, session |-> session, now |-> now]
<1>1. req \in [Requests -> Request]
    BY DEF TypeOK
<1>2. q \in Request /\ q.stage # "idle"
    BY DEF Request
<1>3. req' = [req EXCEPT ![r] = q]
    BY DEF Begun
<1> HIDE DEF q
<1>4. \A u \in Requests : req'[u] = IF u = r THEN q ELSE req[u]
    BY <1>1, <1>3
<1>5. req' \in [Requests -> Request]
    BY <1>1, <1>2, <1>3
<1> QED
    BY <1>2, <1>4, <1>5 DEF TypeOK, q

\* A verified address comes from GitHub or from a provider that is trusted.
LEMMA IdentityType ==
    ASSUME NEW p, NEW identity \in Identities(p)
    PROVE  /\ identity.email \in Emails \cup {NULL}
           /\ identity.verified => p \in {"github"} \cup (EmailTrusted \ {"vk"})
<1>1. CASE p = "github"
    BY <1>1 DEF Identities
<1>2. CASE p = "vk"
    BY <1>2 DEF Identities
<1>3. CASE p # "github" /\ p # "vk"
    BY <1>3 DEF Identities
<1> QED
    BY <1>1, <1>2, <1>3


\* A ticket that is redeemed was issued.
LEMMA RedeemType ==
    ASSUME TypeOK, NEW r \in Requests, Redeemable(req[r]),
           tickets' = [tickets EXCEPT ![req[r].ticket].used = TRUE]
    PROVE  tickets' \in [Tokens -> Ticket \cup {NoTicket}]
<1> DEFINE t == req[r].ticket
<1>1. req[r] \in Request
    BY DEF TypeOK
<1>2. CASE t \in Tokens
    <2>1. tickets[t] \in Ticket \cup {NoTicket} /\ req[r].now \in Nat
        BY <1>1, <1>2 DEF TypeOK, Request
    <2>2. tickets[t].expires > req[r].now
        BY DEF Redeemable
    <2>3. tickets[t] \in Ticket
        BY <2>1, <2>2 DEF NoTicket
    <2>4. [tickets[t] EXCEPT !.used = TRUE] \in Ticket
        BY <2>3 DEF Ticket
    <2> QED
        BY <2>4 DEF TypeOK
<1>3. CASE t \notin Tokens
    BY <1>3 DEF TypeOK
<1> QED
    BY <1>2, <1>3

\* A session that is alive stays well-formed when one of its fields is written.
LEMMA SessionType ==
    ASSUME TypeOK, NEW s \in Alive
    PROVE  /\ s \in Sessions /\ sessions[s] \in Session
           /\ \A now \in Nat : [sessions EXCEPT ![s].seen = now]
                                  \in [Sessions -> Session \cup {NoSession}]
           /\ [sessions EXCEPT ![s].revoked = TRUE] \in [Sessions -> Session \cup {NoSession}]
<1>1. s \in Sessions /\ sessions[s] \in Session
    BY DEF TypeOK, Alive
<1>2. \A now \in Nat : [sessions[s] EXCEPT !.seen = now] \in Session
    BY <1>1 DEF Session
<1>3. [sessions[s] EXCEPT !.revoked = TRUE] \in Session
    BY <1>1 DEF Session
<1> QED
    BY <1>1, <1>2, <1>3 DEF TypeOK

\* Every step keeps the types.
LEMMA TypeStep ==
    ASSUME IInv, [Next]_vars
    PROVE  TypeOK'
<1> USE ConstantsAssumption DEF ConstantsAssumption
<1>0. TypeOK /\ \A r \in Requests : SlotOK(req[r]) /\ req[r] \in Request
    BY DEF IInv, TypeOK
<1>c. clock \in Nat
    BY <1>0 DEF TypeOK
<1>1. ASSUME NEW t \in Tokens, Start(t)
      PROVE  TypeOK'
    <2>1. ASSUME NEW kind \in Kinds, NEW email \in Emails \cup {NULL},
                 tickets' = [tickets EXCEPT ![t] = NewTicket(kind, email)]
          PROVE  tickets' \in [Tokens -> Ticket \cup {NoTicket}]
        <3>1. NewTicket(kind, email) \in Ticket
            BY <1>c DEF NewTicket, Ticket
        <3> QED
            BY <1>0, <2>1, <3>1 DEF TypeOK
    <2>2. ASSUME NEW p \in Providers, AuthCodeURL(t, p)
          PROVE  TypeOK'
        BY <1>0, <2>1, <2>2 DEF AuthCodeURL, TypeOK, Kinds
    <2>3. ASSUME NEW e \in Emails, StartEmailLogin(t, e)
          PROVE  TypeOK'
        BY <1>0, <2>1, <2>3 DEF StartEmailLogin, TypeOK, Kinds
    <2> QED
        BY <1>1, <2>2, <2>3 DEF Start
<1>2. ASSUME NEW r \in Requests, SignInStep(r)
      PROVE  TypeOK'
    <2>1. ASSUME NEW t \in Tokens, NEW p \in Kinds, Complete(r, t, p)
          PROVE  TypeOK'
        BY <1>0, <1>c, <2>1, BegunType DEF Complete, Stages, TypeOK
    <2>2. CASE ConsumeOAuthState(r)
        <3>1. req' \in [Requests -> Request] /\ \A u \in Requests : req'[u].stage = "idle" => req'[u] = Idle
            BY <1>0, <2>2, AnswerType, OnwardType DEF ConsumeOAuthState, Refuse, Stages
        <3>2. tickets' \in [Tokens -> Ticket \cup {NoTicket}]
            <4>1. CASE Redeemable(req[r]) /\ tickets' = [tickets EXCEPT ![req[r].ticket].used = TRUE]
                BY <1>0, <4>1, RedeemType
            <4>2. CASE UNCHANGED tickets
                BY <1>0, <4>2 DEF TypeOK
            <4> QED
                BY <2>2, <4>1, <4>2 DEF ConsumeOAuthState, Refuse
        <3> QED
            BY <1>0, <2>2, <3>1, <3>2 DEF ConsumeOAuthState, TypeOK
    <2>3. CASE ConsumeEmailToken(r)
        <3>1. req' \in [Requests -> Request] /\ \A u \in Requests : req'[u].stage = "idle" => req'[u] = Idle
            <4>1. OwnerAllowed(req[r]) => tickets[req[r].ticket].email \in Emails
                BY <1>0 DEF OwnerAllowed, EmailAllowed, TypeOK
            <4> QED
                BY <1>0, <2>3, <4>1, AnswerType, OnwardType DEF ConsumeEmailToken, Refuse, Stages
        <3>2. tickets' \in [Tokens -> Ticket \cup {NoTicket}]
            <4>1. CASE Redeemable(req[r]) /\ tickets' = [tickets EXCEPT ![req[r].ticket].used = TRUE]
                BY <1>0, <4>1, RedeemType
            <4>2. CASE UNCHANGED tickets
                BY <1>0, <4>2 DEF TypeOK
            <4> QED
                BY <2>3, <4>1, <4>2 DEF ConsumeEmailToken, Refuse
        <3> QED
            BY <1>0, <2>3, <3>1, <3>2 DEF ConsumeEmailToken, TypeOK
    <2>4. ASSUME NEW identity \in Identities(req[r].provider), Identify(r, identity)
          PROVE  TypeOK'
        <3>1. req' \in [Requests -> Request] /\ \A u \in Requests : req'[u].stage = "idle" => req'[u] = Idle
            BY <1>0, <2>4, IdentityType, AnswerType, OnwardType DEF Identify, Stages
        <3> QED
            BY <1>0, <2>4, <3>1 DEF Identify, TypeOK
    <2>5. ASSUME NEW s \in Sessions, CreateSession(r, s)
          PROVE  TypeOK'
        <3>1. /\ req[r].email \in Emails /\ req[r].ticket \in Tokens
              /\ req[r].provider \in Kinds
            <4>1. req[r].email \in Emails /\ req[r].ticket \in Tokens
                BY <1>0, <2>5 DEF CreateSession, SlotOK, TypeOK
            <4>2. tickets[req[r].ticket].used /\ tickets[req[r].ticket].kind = req[r].provider
                BY <1>0, <2>5 DEF CreateSession, SlotOK
            <4>3. tickets[req[r].ticket] \in Ticket
                BY <1>0, <4>1, <4>2 DEF TypeOK, NoTicket
            <4> QED
                BY <4>1, <4>2, <4>3 DEF Ticket
        <3>2. req' \in [Requests -> Request] /\ \A u \in Requests : req'[u].stage = "idle" => req'[u] = Idle
            BY <1>0, <2>5, <3>1, OnwardType DEF CreateSession, Stages
        <3>3. sessions'[s] \in Session
            BY <1>0, <1>c, <2>5, <3>1 DEF CreateSession, Session, TypeOK
        <3>4. sessions' \in [Sessions -> Session \cup {NoSession}]
            BY <1>0, <2>5, <3>3 DEF CreateSession, TypeOK
        <3> QED
            BY <1>0, <2>5, <3>2, <3>4 DEF CreateSession, TypeOK
    <2>6. CASE SetCookie(r)
        <3>1. req' \in [Requests -> Request] /\ \A u \in Requests : req'[u].stage = "idle" => req'[u] = Idle
            BY <1>0, <2>6, AnswerType DEF SetCookie
        <3> QED
            BY <1>0, <2>6, <3>1 DEF SetCookie, TypeOK, Request
    <2> QED
        BY <1>2, <2>1, <2>2, <2>3, <2>4, <2>5, <2>6 DEF SignInStep
<1>3. ASSUME NEW r \in Requests, SessionStep(r)
      PROVE  TypeOK'
    <2>1. CASE Visit(r)
        BY <1>0, <1>c, <2>1, BegunType DEF Visit, Stages, TypeOK
    <2>2. CASE FindSession(r)
        <3>1. req[r].session \in Alive /\ req[r].now \in Nat
            BY <1>0, <2>2 DEF FindSession, SlotOK, Request
        <3>2. sessions' \in [Sessions -> Session \cup {NoSession}]
            <4>1. CASE sessions' = [sessions EXCEPT ![req[r].session].seen = req[r].now]
                BY <1>0, <3>1, <4>1, SessionType
            <4>2. CASE UNCHANGED sessions
                BY <1>0, <4>2 DEF TypeOK
            <4> QED
                BY <2>2, <4>1, <4>2 DEF FindSession
        <3>3. req' \in [Requests -> Request] /\ \A u \in Requests : req'[u].stage = "idle" => req'[u] = Idle
            BY <1>0, <2>2, <3>1, AnswerType, OnwardType DEF FindSession, Stages, Alive
        <3> QED
            BY <1>0, <2>2, <3>2, <3>3 DEF FindSession, TypeOK
    <2>3. CASE Serve(r)
        BY <1>0, <2>3, AnswerType DEF Serve, TypeOK
    <2>4. CASE Logout(r)
        BY <1>0, <2>4, BegunType DEF Logout, Stages, TypeOK
    <2>5. ASSUME NEW fails \in BOOLEAN, RevokeSession(r, fails)
          PROVE  TypeOK'
        <3>1. req[r].session \in Alive
            BY <1>0, <2>5 DEF RevokeSession, SlotOK
        <3>2. sessions' \in [Sessions -> Session \cup {NoSession}]
            BY <1>0, <2>5, <3>1, SessionType DEF RevokeSession, TypeOK
        <3>3. req' \in [Requests -> Request] /\ \A u \in Requests : req'[u].stage = "idle" => req'[u] = Idle
            BY <1>0, <2>5, OnwardType DEF RevokeSession, Stages
        <3> QED
            BY <1>0, <2>5, <3>2, <3>3 DEF RevokeSession, TypeOK
    <2>6. CASE ClearCookie(r)
        BY <1>0, <2>6, AnswerType DEF ClearCookie, TypeOK
    <2> QED
        BY <1>3, <2>1, <2>2, <2>3, <2>4, <2>5, <2>6 DEF SessionStep
<1>4. ASSUME NEW r \in Requests, Abort(r)
      PROVE  TypeOK'
    BY <1>0, <1>4, AnswerType DEF Abort, TypeOK
<1>5. ASSUME NEW list \in SUBSET Emails, Restart(list)
      PROVE  TypeOK'
    BY <1>0, <1>5, IdleType DEF Restart, TypeOK
<1>6. CASE Tick
    BY <1>0, <1>6 DEF Tick, TypeOK
<1>7. CASE UNCHANGED vars
    BY <1>0, <1>7 DEF vars, TypeOK
<1> QED
    BY <1>1, <1>2, <1>3, <1>4, <1>5, <1>6, <1>7 DEF Next

-----------------------------------------------------------------------------
(* What a step does to the rows *)

\* A ticket is issued.
Issues(t) ==
    /\ tickets[t] = NoTicket
    /\ \E kind \in Kinds, email \in Emails \cup {NULL} :
         tickets' = [tickets EXCEPT ![t] = NewTicket(kind, email)]

\* A request consumes its ticket.
Consumes(r) ==
    /\ req[r].stage = "consume"
    /\ Redeemable(req[r])
    /\ tickets' = [tickets EXCEPT ![req[r].ticket].used = TRUE]

\* A session is seen.
Sees(r) ==
    /\ req[r].stage = "find"
    /\ Live(req[r].session, req[r].now)
    /\ sessions' = [sessions EXCEPT ![req[r].session].seen = req[r].now]

\* A session is revoked.
Revokes(r) ==
    /\ req[r].stage = "revoke"
    /\ sessions' = [sessions EXCEPT ![req[r].session].revoked = TRUE]

\* A step writes one row of a table or none.
LEMMA Writes ==
    ASSUME IInv, [Next]_vars
    PROVE  /\ \/ UNCHANGED tickets
              \/ \E t \in Tokens : Issues(t)
              \/ \E r \in Requests : Consumes(r)
           /\ \/ UNCHANGED sessions
              \/ \E r \in Requests, s \in Sessions : CreateSession(r, s)
              \/ \E r \in Requests : Sees(r) \/ Revokes(r)
           /\ clock' \in {clock, clock + 1}
<1>1. ASSUME NEW t \in Tokens, Start(t)
      PROVE  Issues(t) /\ UNCHANGED <<sessions, clock>>
    BY <1>1 DEF Start, AuthCodeURL, StartEmailLogin, Issues, Kinds
<1>2. ASSUME NEW r \in Requests, SignInStep(r)
      PROVE  /\ UNCHANGED tickets \/ Consumes(r)
             /\ UNCHANGED sessions \/ \E s \in Sessions : CreateSession(r, s)
             /\ UNCHANGED clock
    BY <1>2 DEF SignInStep, Complete, ConsumeOAuthState, ConsumeEmailToken, Refuse, Identify,
                CreateSession, SetCookie, Consumes
<1>3. ASSUME NEW r \in Requests, SessionStep(r)
      PROVE  /\ UNCHANGED <<tickets, clock>>
             /\ UNCHANGED sessions \/ Sees(r) \/ Revokes(r)
    BY <1>3 DEF SessionStep, Visit, FindSession, Serve, Logout, RevokeSession, ClearCookie,
                Sees, Revokes
<1>4. ASSUME NEW r \in Requests, Abort(r)
      PROVE  UNCHANGED <<tickets, sessions, clock>>
    BY <1>4 DEF Abort
<1>5. ASSUME NEW list \in SUBSET Emails, Restart(list)
      PROVE  UNCHANGED <<tickets, sessions, clock>>
    BY <1>5 DEF Restart
<1>6. CASE Tick
    BY <1>6 DEF Tick
<1>7. CASE UNCHANGED vars
    BY <1>7 DEF vars
<1> QED
    BY <1>1, <1>2, <1>3, <1>4, <1>5, <1>6, <1>7 DEF Next

\* A ticket stays what it was issued as, and stays used.
LEMMA TicketsKept ==
    ASSUME IInv, [Next]_vars, NEW t \in Tokens, tickets[t] # NoTicket
    PROVE  /\ tickets'[t].kind = tickets[t].kind
           /\ tickets'[t].email = tickets[t].email
           /\ tickets[t].used => tickets'[t].used
           /\ tickets'[t].used => \/ tickets[t].used
                                  \/ \E r \in Requests : Consumes(r) /\ req[r].ticket = t
<1>0. TypeOK /\ tickets[t] \in Ticket
    BY DEF IInv, TypeOK
<1>1. CASE UNCHANGED tickets
    BY <1>1
<1>2. ASSUME NEW i \in Tokens, Issues(i)
      PROVE  UNCHANGED tickets[t]
    BY <1>0, <1>2 DEF Issues, TypeOK
<1>3. ASSUME NEW r \in Requests, Consumes(r)
      PROVE  \/ UNCHANGED tickets[t]
             \/ /\ req[r].ticket = t
                /\ tickets'[t] = [tickets[t] EXCEPT !.used = TRUE]
    BY <1>0, <1>3 DEF Consumes, TypeOK
<1> QED
    BY <1>0, <1>1, <1>2, <1>3, Writes DEF Ticket

\* A session stays what it was made as.
LEMMA SessionsKept ==
    ASSUME IInv, [Next]_vars, NEW s \in Alive
    PROVE  /\ s \in Alive'
           /\ sessions'[s].email = sessions[s].email
           /\ sessions'[s].provider = sessions[s].provider
           /\ sessions'[s].created = sessions[s].created
           /\ sessions'[s].expires = sessions[s].expires
           /\ sessions'[s].ticket = sessions[s].ticket
           /\ sessions'[s].seen = sessions[s].seen \/ \E r \in Requests : Sees(r) /\ req[r].session = s
<1>0. TypeOK /\ s \in Sessions /\ sessions[s] \in Session
    BY DEF IInv, TypeOK, Alive
<1>1. ASSUME NEW r \in Requests, NEW n \in Sessions, CreateSession(r, n)
      PROVE  UNCHANGED sessions[s]
    BY <1>0, <1>1 DEF CreateSession, TypeOK, Alive
<1>2. ASSUME NEW r \in Requests, Sees(r)
      PROVE  \/ UNCHANGED sessions[s]
             \/ req[r].session = s /\ sessions'[s] = [sessions[s] EXCEPT !.seen = req[r].now]
    BY <1>0, <1>2 DEF Sees, TypeOK
<1>3. ASSUME NEW r \in Requests, Revokes(r)
      PROVE  UNCHANGED sessions[s] \/ sessions'[s] = [sessions[s] EXCEPT !.revoked = TRUE]
    BY <1>0, <1>3 DEF Revokes, TypeOK
<1>4. /\ sessions'[s].email = sessions[s].email
      /\ sessions'[s].provider = sessions[s].provider
      /\ sessions'[s].created = sessions[s].created
      /\ sessions'[s].expires = sessions[s].expires
      /\ sessions'[s].ticket = sessions[s].ticket
      /\ sessions'[s].seen = sessions[s].seen \/ \E r \in Requests : Sees(r) /\ req[r].session = s
    BY <1>0, <1>1, <1>2, <1>3, Writes DEF Session
<1>5. sessions'[s] # NoSession
    BY <1>0, <1>4, ConstantsAssumption DEF ConstantsAssumption, Session, NoSession
<1> QED
    BY <1>0, <1>4, <1>5 DEF Alive

\* A session that was not there is made by a request that holds its ticket.
LEMMA NewSession ==
    ASSUME IInv, [Next]_vars, NEW s \in Alive', s \notin Alive
    PROVE  \E r \in Requests :
             /\ CreateSession(r, s)
             /\ Alive' = Alive \cup {s}
             /\ sessions'[s].email = req[r].email
             /\ sessions'[s].provider = req[r].provider
             /\ sessions'[s].ticket = req[r].ticket
             /\ sessions'[s].created = clock
             /\ sessions'[s].seen = clock
             /\ sessions'[s].expires = clock + SessionTTL
<1>0. TypeOK /\ s \in Sessions /\ sessions[s] = NoSession
    BY DEF IInv, Alive
<1>1. sessions'[s] # NoSession
    BY DEF Alive
<1>2. ~ UNCHANGED sessions
    BY <1>0, <1>1
<1>3. ASSUME NEW r \in Requests, Sees(r) \/ Revokes(r)
      PROVE  FALSE
    <2>1. req[r].session \in Alive
        BY <1>3 DEF IInv, SlotOK, Sees, Revokes
    <2>2. req[r].session # s
        BY <2>1
    <2> QED
        BY <1>0, <1>1, <1>3, <2>2 DEF Sees, Revokes, TypeOK
<1>4. PICK r \in Requests, n \in Sessions : CreateSession(r, n)
    BY <1>2, <1>3, Writes
<1>5. n = s
    BY <1>0, <1>1, <1>4 DEF CreateSession, TypeOK
<1>6. \A u \in Sessions \ {s} : sessions'[u] = sessions[u]
    BY <1>0, <1>4, <1>5 DEF CreateSession, TypeOK
<1>7. Alive' = Alive \cup {s}
    BY <1>0, <1>1, <1>6 DEF Alive
<1>8. sessions'[s] = [email |-> req[r].email, provider |-> req[r].provider, created |-> clock,
                      expires |-> clock + SessionTTL, seen |-> clock, revoked |-> FALSE,
                      ticket |-> req[r].ticket]
    BY <1>0, <1>4, <1>5 DEF CreateSession, TypeOK
<1> QED
    BY <1>4, <1>5, <1>7, <1>8

\* The ticket of a session, or in the hands of a request, was issued.
LEMMA TicketIssued ==
    ASSUME IInv
    PROVE  /\ \A s \in Alive : sessions[s].ticket \in Tokens /\ tickets[sessions[s].ticket] # NoTicket
           /\ \A r \in Requests : Holds(r) => /\ req[r].ticket \in Tokens
                                             /\ tickets[req[r].ticket] # NoTicket
<1>1. \A s \in Alive : sessions[s] \in Session /\ tickets[sessions[s].ticket].used
    BY DEF IInv, TypeOK, Alive, SessionOfItsTicket
<1>2. \A r \in Requests : Holds(r) => req[r].ticket \in Tokens /\ tickets[req[r].ticket].used
    BY DEF IInv, Holds, SlotOK
<1> QED
    BY <1>1, <1>2 DEF Session, NoTicket

-----------------------------------------------------------------------------
(* The invariant is inductive *)

\* Two sessions of one ticket would need a request that holds a ticket with a session.
LEMMA TicketStep ==
    ASSUME IInv, [Next]_vars
    PROVE  OneSessionPerTicket'
<1> SUFFICES ASSUME NEW s \in Alive', NEW u \in Alive', sessions'[s].ticket = sessions'[u].ticket
             PROVE  s = u
    BY DEF OneSessionPerTicket
<1>1. CASE s \in Alive /\ u \in Alive
    BY <1>1, SessionsKept DEF IInv, OneSessionPerTicket
<1>2. ASSUME NEW n \in Alive', n \notin Alive, NEW o \in Alive
      PROVE  sessions'[n].ticket # sessions'[o].ticket
    <2>1. PICK r \in Requests : CreateSession(r, n) /\ sessions'[n].ticket = req[r].ticket
        BY <1>2, NewSession
    <2>2. sessions[o].ticket # req[r].ticket
        BY <2>1 DEF IInv, SlotOK, CreateSession
    <2> QED
        BY <2>1, <2>2, SessionsKept
<1>3. CASE s \notin Alive /\ u \notin Alive
    BY <1>3, NewSession
<1> QED
    BY <1>1, <1>2, <1>3

\* A session is made from what its request found in the ticket.
LEMMA OriginStep ==
    ASSUME IInv, [Next]_vars
    PROVE  SessionOfItsTicket'
<1> DEFINE Origin(s) ==
        LET ticket == tickets[sessions[s].ticket]
        IN  /\ ticket.used
            /\ sessions[s].provider = ticket.kind
            /\ ticket.kind = "email" => sessions[s].email = ticket.email
            /\ ticket.kind \in {"email", "github"} \cup (EmailTrusted \ {"vk"})
<1> SUFFICES ASSUME NEW s \in Alive'
             PROVE  Origin(s)'
    BY DEF SessionOfItsTicket
<1>1. CASE s \in Alive
    <2>1. Origin(s)
        BY <1>1 DEF IInv, SessionOfItsTicket
    <2> QED
        BY <1>1, <2>1, SessionsKept, TicketIssued, TicketsKept
<1>2. CASE s \notin Alive
    <2>1. PICK r \in Requests : /\ CreateSession(r, s)
                                /\ sessions'[s].email = req[r].email
                                /\ sessions'[s].provider = req[r].provider
                                /\ sessions'[s].ticket = req[r].ticket
        BY <1>2, NewSession
    <2>2. SlotOK(req[r]) /\ req[r].stage = "create" /\ UNCHANGED tickets
        BY <2>1 DEF IInv, CreateSession
    <2> QED
        BY <2>1, <2>2 DEF SlotOK
<1> QED
    BY <1>1, <1>2

\* A request that sees a session took its time after the session was made and
\* finds it before it is over.
LEMMA TimeStep ==
    ASSUME IInv, [Next]_vars
    PROVE  SeenWithinLife' /\ NoneFromTheFuture'
<1> USE ConstantsAssumption DEF ConstantsAssumption
<1>0. clock \in Nat /\ clock' \in Nat /\ clock <= clock'
    BY Writes DEF IInv, TypeOK
<1> SUFFICES ASSUME NEW s \in Alive'
             PROVE  /\ sessions'[s].seen \in sessions'[s].created .. sessions'[s].expires - 1
                    /\ sessions'[s].created <= clock'
    BY DEF SeenWithinLife, NoneFromTheFuture
<1>1. CASE s \in Alive
    <2>1. sessions[s] \in Session
        BY <1>1 DEF IInv, TypeOK, Alive
    <2>2. /\ sessions[s].created \in Nat /\ sessions[s].expires \in Nat
          /\ sessions[s].seen \in sessions[s].created .. sessions[s].expires - 1
          /\ sessions[s].created <= clock
        BY <1>1, <2>1 DEF IInv, SeenWithinLife, NoneFromTheFuture, Session
    <2>3. sessions'[s].created = sessions[s].created /\ sessions'[s].expires = sessions[s].expires
        BY <1>1, SessionsKept
    <2>4. CASE sessions'[s].seen = sessions[s].seen
        BY <1>0, <2>2, <2>3, <2>4
    <2>5. ASSUME NEW r \in Requests, Sees(r), req[r].session = s
          PROVE  sessions'[s].seen \in sessions[s].created .. sessions[s].expires - 1
        <3>1. req[r].now \in Nat /\ sessions[s].created <= req[r].now
            BY <2>5 DEF IInv, TypeOK, Request, Sees, SlotOK
        <3>2. req[r].now < sessions[s].expires
            BY <2>2, <2>5, <3>1 DEF Sees, Live
        <3>3. sessions'[s].seen = req[r].now
            BY <2>1, <2>5 DEF Sees, Session, IInv, TypeOK, Alive
        <3> QED
            BY <2>2, <3>1, <3>2, <3>3
    <2> QED
        BY <1>0, <1>1, <2>2, <2>3, <2>4, <2>5, SessionsKept
<1>2. CASE s \notin Alive
    BY <1>0, <1>2, NewSession
<1> QED
    BY <1>1, <1>2

\* A slot that a step leaves alone is still right about its rows, unless the
\* list changes or its ticket is made a session by another.
LEMMA SlotKept ==
    ASSUME IInv, [Next]_vars, NEW u \in Requests, req'[u] = req[u], UNCHANGED allowed,
           Holds(u) => \A s \in Alive' : s \in Alive \/ sessions'[s].ticket # req[u].ticket
    PROVE  SlotOK(req[u])'
<1>1. SlotOK(req[u])
    BY DEF IInv
<1>2. ASSUME req[u].stage \in {"identity", "create"}
      PROVE  /\ req[u].ticket \in Tokens
             /\ tickets'[req[u].ticket].used
             /\ tickets'[req[u].ticket].kind = tickets[req[u].ticket].kind
             /\ tickets'[req[u].ticket].email = tickets[req[u].ticket].email
             /\ \A s \in Alive' : sessions'[s].ticket # req[u].ticket
    <2>1. Holds(u) /\ req[u].ticket \in Tokens /\ tickets[req[u].ticket] # NoTicket
        BY <1>2, TicketIssued DEF Holds
    <2>2. \A s \in Alive : sessions[s].ticket # req[u].ticket
        BY <1>1, <1>2 DEF SlotOK
    <2> QED
        BY <1>1, <1>2, <2>1, <2>2, TicketsKept, SessionsKept DEF SlotOK
<1>3. ASSUME req[u].session \in Alive
      PROVE  /\ req[u].session \in Alive'
             /\ sessions'[req[u].session].created = sessions[req[u].session].created
             /\ sessions'[req[u].session].email = sessions[req[u].session].email
    BY <1>3, SessionsKept
<1> QED
    BY <1>1, <1>2, <1>3 DEF SlotOK

\* A free slot says nothing.
LEMMA SlotIdle ==
    ASSUME NEW u \in Requests, req'[u] = Idle
    PROVE  SlotOK(req[u])' /\ ~ Holds(u)'
BY DEF SlotOK, Idle, Holds

\* One step of a request leaves the slots of the others alone.
LEMMA OthersKept ==
    ASSUME IInv, NEW r \in Requests, SignInStep(r) \/ SessionStep(r) \/ Abort(r)
    PROVE  /\ \A u \in Requests \ {r} : req'[u] = req[u]
           /\ UNCHANGED allowed
<1>1. req \in [Requests -> Request]
    BY DEF IInv, TypeOK
<1>2. CASE SignInStep(r)
    BY <1>1, <1>2 DEF SignInStep, Complete, ConsumeOAuthState, ConsumeEmailToken, Refuse, Identify,
                CreateSession, SetCookie, Answered, Onward, Begun
<1>3. CASE SessionStep(r)
    BY <1>1, <1>3 DEF SessionStep, Visit, FindSession, Serve, Logout, RevokeSession, ClearCookie,
                Answered, Onward, Begun
<1>4. CASE Abort(r)
    BY <1>1, <1>4 DEF Abort, Answered
<1> QED
    BY <1>2, <1>3, <1>4

\* The slot a request steps in is right about its rows, and the request holds no
\* ticket that it did not hold before or has not just consumed.
LEMMA OwnSlot ==
    ASSUME IInv, [Next]_vars, NEW r \in Requests, SignInStep(r) \/ SessionStep(r) \/ Abort(r)
    PROVE  /\ SlotOK(req[r])'
           /\ Holds(r)' => /\ req'[r].ticket = req[r].ticket
                           /\ Holds(r) \/ Consumes(r)
<1> USE ConstantsAssumption DEF ConstantsAssumption
<1>0. TypeOK /\ SlotOK(req[r]) /\ req[r] \in Request /\ clock \in Nat
    BY DEF IInv, TypeOK
<1>1. CASE req' = Answered(r)
    BY <1>0, <1>1, AnswerType, SlotIdle
<1>2. ASSUME NEW t \in Tokens, NEW p \in Kinds, Complete(r, t, p)
      PROVE  SlotOK(req[r])' /\ ~ Holds(r)'
    <2>1. req'[r] = [stage |-> "consume", provider |-> p, ticket |-> t, email |-> NULL,
                     session |-> NULL, now |-> clock]
        BY <1>0, <1>2, BegunType DEF Complete, Stages
    <2> QED
        BY <2>1 DEF SlotOK, Holds
<1>3. ASSUME NEW stage \in {"identity", "create"}, NEW email \in Emails \cup {NULL},
             Consumes(r), UNCHANGED <<sessions, allowed>>,
             IssuedFor(req[r]), req' = Onward(r, stage, email, NULL),
             stage = "identity" => req[r].provider \in Providers,
             stage = "create" => /\ req[r].provider = "email"
                                 /\ email \in allowed /\ email = tickets[req[r].ticket].email
      PROVE  SlotOK(req[r])' /\ req'[r].ticket = req[r].ticket
    <2> DEFINE t == req[r].ticket
    <2>1. t \in Tokens /\ tickets[t] \in Ticket \cup {NoTicket} /\ ~ tickets[t].used
        BY <1>0, <1>3 DEF Consumes, SlotOK, TypeOK, Redeemable
    <2>2. tickets[t] \in Ticket
        BY <1>0, <1>3, <2>1 DEF Redeemable, Consumes, NoTicket, Request
    <2>3. /\ tickets'[t].used /\ tickets'[t].kind = tickets[t].kind
          /\ tickets'[t].email = tickets[t].email
        BY <1>0, <1>3, <2>1, <2>2 DEF Consumes, TypeOK, Ticket
    <2>4. \A s \in Alive : sessions[s].ticket # t
        BY <2>1 DEF IInv, SessionOfItsTicket
    <2>5. req'[r] = [stage |-> stage, provider |-> req[r].provider, ticket |-> t,
                     email |-> email, session |-> NULL, now |-> 0]
        BY <1>0, <1>3, OnwardType DEF Stages
    <2>6. Alive' = Alive
        BY <1>3 DEF Alive
    <2> HIDE DEF t
    <2> QED
        BY <1>3, <2>1, <2>3, <2>4, <2>5, <2>6 DEF SlotOK, IssuedFor, t
<1>4. ASSUME ConsumeOAuthState(r), req' # Answered(r)
      PROVE  SlotOK(req[r])' /\ req'[r].ticket = req[r].ticket /\ Consumes(r)
    <2>1. Consumes(r) /\ IssuedFor(req[r]) /\ req' = Onward(r, "identity", NULL, NULL)
        BY <1>4 DEF ConsumeOAuthState, Refuse, Consumes
    <2>2. req[r].provider \in Providers
        BY <1>0, <1>4 DEF ConsumeOAuthState, SlotOK, Kinds
    <2> QED
        BY <1>3, <1>4, <2>1, <2>2 DEF ConsumeOAuthState
<1>5. ASSUME ConsumeEmailToken(r), req' # Answered(r)
      PROVE  SlotOK(req[r])' /\ req'[r].ticket = req[r].ticket /\ Consumes(r)
    <2>1. /\ Consumes(r) /\ OwnerAllowed(req[r])
          /\ req' = Onward(r, "create", tickets[req[r].ticket].email, NULL)
        BY <1>5 DEF ConsumeEmailToken, Refuse, Consumes
    <2>2. req[r].provider = "email" /\ IssuedFor(req[r])
        BY <1>5, <2>1 DEF ConsumeEmailToken, Consumes, Redeemable, InTable, IssuedFor
    <2>3. tickets[req[r].ticket].email \in allowed \cap Emails
        BY <1>0, <2>1 DEF OwnerAllowed, EmailAllowed, TypeOK
    <2> QED
        BY <1>3, <1>5, <2>1, <2>2, <2>3 DEF ConsumeEmailToken
<1>6. ASSUME NEW identity \in Identities(req[r].provider), Identify(r, identity),
             req' # Answered(r)
      PROVE  SlotOK(req[r])' /\ req'[r].ticket = req[r].ticket /\ Holds(r)
    <2>1. /\ req[r].stage = "identity"
          /\ identity.email \in allowed \cap Emails
          /\ req[r].provider \in {"github"} \cup (EmailTrusted \ {"vk"})
          /\ req' = Onward(r, "create", identity.email, NULL)
          /\ UNCHANGED <<tickets, sessions, allowed>>
        BY <1>0, <1>6, IdentityType DEF Identify, EmailAllowed, TypeOK
    <2>2. req'[r] = [stage |-> "create", provider |-> req[r].provider, ticket |-> req[r].ticket,
                     email |-> identity.email, session |-> NULL, now |-> 0]
        BY <1>0, <2>1, OnwardType DEF Stages
    <2>3. req[r].provider \in Providers /\ Alive' = Alive
        BY <1>0, <2>1 DEF SlotOK, Alive
    <2> QED
        BY <1>0, <2>1, <2>2, <2>3 DEF SlotOK, Holds
<1>7. ASSUME NEW s \in Sessions, CreateSession(r, s)
      PROVE  SlotOK(req[r])' /\ ~ Holds(r)'
    <2>1. s \in Alive'
        BY <1>0, <1>7, ConstantsAssumption DEF CreateSession, TypeOK, Alive, SlotOK, NoSession
    <2>2. req[r].email \in Emails \cup {NULL}
        BY <1>0 DEF Request
    <2>3. req'[r] = [stage |-> "signed", provider |-> req[r].provider, ticket |-> req[r].ticket,
                     email |-> req[r].email, session |-> s, now |-> 0]
        BY <1>0, <1>7, <2>2, OnwardType DEF CreateSession, Stages
    <2> QED
        BY <2>1, <2>3 DEF SlotOK, Holds
<1>8. CASE Visit(r)
    <2>1. cookie \in Alive /\ sessions[cookie].created <= clock
        BY <1>8 DEF Visit, IInv, NoneFromTheFuture
    <2>2. req'[r] = [stage |-> "find", provider |-> NULL, ticket |-> NULL, email |-> NULL,
                     session |-> cookie, now |-> clock]
        BY <1>0, <1>8, <2>1, BegunType DEF Visit, Stages, Alive
    <2> QED
        BY <1>8, <2>1, <2>2 DEF Visit, SlotOK, Holds, Alive
<1>9. ASSUME FindSession(r), req' # Answered(r)
      PROVE  SlotOK(req[r])' /\ ~ Holds(r)'
    <2> DEFINE s == req[r].session
    <2>1. /\ s \in Alive /\ sessions[s].email \in allowed /\ UNCHANGED allowed
          /\ req' = Onward(r, "inside", NULL, s)
        BY <1>0, <1>9 DEF FindSession, Known, EmailAllowed, SlotOK
    <2>2. s \in Alive' /\ sessions'[s].email = sessions[s].email
        BY <2>1, SessionsKept
    <2>3. req'[r] = [stage |-> "inside", provider |-> req[r].provider, ticket |-> req[r].ticket,
                     email |-> NULL, session |-> s, now |-> 0]
        BY <1>0, <2>1, OnwardType DEF Stages, Alive
    <2> HIDE DEF s
    <2> QED
        BY <2>1, <2>2, <2>3 DEF SlotOK, Holds
<1>10. CASE Logout(r)
    <2>1. cookie \in Sessions \cup {NULL} /\ (cookie # NULL => cookie \in Alive)
        BY <1>0 DEF IInv, TypeOK
    <2>2. PICK stage \in {"clear", "revoke"} :
             /\ req' = Begun(r, stage, NULL, NULL, cookie, 0)
             /\ stage = "revoke" => cookie \in Alive
        BY <1>10, <2>1 DEF Logout
    <2>3. req'[r] = [stage |-> stage, provider |-> NULL, ticket |-> NULL, email |-> NULL,
                     session |-> cookie, now |-> 0]
        BY <1>0, <2>1, <2>2, BegunType DEF Stages
    <2>4. Alive' = Alive
        BY <1>10 DEF Logout, Alive
    <2> QED
        BY <2>2, <2>3, <2>4 DEF SlotOK, Holds
<1>11. ASSUME NEW fails \in BOOLEAN, RevokeSession(r, fails)
       PROVE  SlotOK(req[r])' /\ ~ Holds(r)'
    <2>1. req'[r] = [stage |-> "clear", provider |-> req[r].provider, ticket |-> req[r].ticket,
                     email |-> NULL, session |-> NULL, now |-> 0]
        BY <1>0, <1>11, OnwardType DEF RevokeSession, Stages
    <2> QED
        BY <2>1 DEF SlotOK, Holds
<1>12. CASE SignInStep(r)
    BY <1>1, <1>2, <1>4, <1>5, <1>6, <1>7, <1>12 DEF SignInStep, SetCookie
<1>13. CASE SessionStep(r)
    BY <1>1, <1>8, <1>9, <1>10, <1>11, <1>13 DEF SessionStep, Serve, ClearCookie
<1>14. CASE Abort(r)
    BY <1>1, <1>14 DEF Abort
<1> QED
    BY <1>12, <1>13, <1>14

\* A new session is not of a ticket that a request still holds.
LEMMA HeldTicketFree ==
    ASSUME IInv, [Next]_vars, NEW u \in Requests, req'[u] = req[u], Holds(u)
    PROVE  \A s \in Alive' : s \in Alive \/ sessions'[s].ticket # req[u].ticket
<1> SUFFICES ASSUME NEW s \in Alive', s \notin Alive
             PROVE  sessions'[s].ticket # req[u].ticket
    OBVIOUS
<1>1. PICK r \in Requests : CreateSession(r, s) /\ sessions'[s].ticket = req[r].ticket
    BY NewSession
<1>2. Holds(r)
    BY <1>1 DEF CreateSession, Holds
<1>3. r # u
    <2>1. TypeOK /\ req[r].email \in Emails \cup {NULL} /\ s \in Sessions
        BY DEF IInv, TypeOK, Request, Alive
    <2>2. req' = Onward(r, "signed", req[r].email, s)
        BY <1>1 DEF CreateSession
    <2>3. "signed" \in Stages \ {"idle"}
        BY DEF Stages
    <2>4. req'[r] = [stage |-> "signed", provider |-> req[r].provider, ticket |-> req[r].ticket,
                     email |-> req[r].email, session |-> s, now |-> 0]
        BY <2>1, <2>2, <2>3, OnwardType
    <2> QED
        BY <1>1, <2>4 DEF CreateSession
<1> QED
    BY <1>1, <1>2, <1>3 DEF IInv, OneHolder

\* Every slot stays right about its rows, and a ticket stays with one request.
LEMMA SlotStep ==
    ASSUME IInv, [Next]_vars
    PROVE  (\A u \in Requests : SlotOK(req[u])') /\ OneHolder'
<1>0. OneHolder /\ \A u \in Requests : SlotOK(req[u])
    BY DEF IInv
<1>1. ASSUME NEW r \in Requests, SignInStep(r) \/ SessionStep(r) \/ Abort(r)
      PROVE  (\A u \in Requests : SlotOK(req[u])') /\ OneHolder'
    <2>1. \A u \in Requests \ {r} : req'[u] = req[u]
        BY <1>1, OthersKept
    <2>2. ASSUME NEW u \in Requests
          PROVE  SlotOK(req[u])'
        BY <1>1, <2>1, OwnSlot, OthersKept, SlotKept, HeldTicketFree
    <2>3. ASSUME NEW u \in Requests \ {r}, Holds(r)', Holds(u)', req'[r].ticket = req'[u].ticket
          PROVE  FALSE
        <3>1. req'[u] = req[u] /\ Holds(u)
            BY <2>1, <2>3 DEF Holds
        <3>2. req'[r].ticket = req[r].ticket /\ (Holds(r) \/ Consumes(r))
            BY <1>1, <2>3, OwnSlot
        <3>3. ~ Holds(r)
            BY <1>0, <2>3, <3>1, <3>2 DEF OneHolder
        <3>4. tickets[req[u].ticket].used
            BY <1>0, <3>1 DEF SlotOK, Holds
        <3> QED
            BY <2>3, <3>1, <3>2, <3>3, <3>4 DEF Consumes, Redeemable
    <2>4. ASSUME NEW t \in Requests \ {r}, NEW u \in Requests \ {r},
                 Holds(t)', Holds(u)', req'[t].ticket = req'[u].ticket
          PROVE  t = u
        BY <1>0, <2>1, <2>4 DEF OneHolder, Holds
    <2>5. OneHolder'
        BY <2>3, <2>4 DEF OneHolder
    <2> QED
        BY <2>2, <2>5
<1>2. CASE UNCHANGED <<req, allowed>>
    <2>1. ASSUME NEW u \in Requests
          PROVE  SlotOK(req[u])'
        BY <1>2, SlotKept, HeldTicketFree
    <2>2. OneHolder'
        BY <1>0, <1>2 DEF OneHolder, Holds
    <2> QED
        BY <2>1, <2>2
<1>3. ASSUME NEW list \in SUBSET Emails, Restart(list)
      PROVE  (\A u \in Requests : SlotOK(req[u])') /\ OneHolder'
    <2>1. \A u \in Requests : req'[u] = Idle
        BY <1>3 DEF Restart
    <2>2. \A u \in Requests : SlotOK(req[u])' /\ ~ Holds(u)'
        BY <2>1, SlotIdle
    <2> QED
        BY <2>2 DEF OneHolder
<1>4. ASSUME NEW t \in Tokens, Start(t)
      PROVE  UNCHANGED <<req, allowed>>
    BY <1>4 DEF Start, AuthCodeURL, StartEmailLogin
<1> QED
    BY <1>1, <1>2, <1>3, <1>4 DEF Next, Tick, vars

\* The cookie is one of a session that was made.
LEMMA CookieStep ==
    ASSUME IInv, [Next]_vars
    PROVE  cookie' # NULL => cookie' \in Alive'
<1>1. UNCHANGED cookie \/ cookie' = NULL
      \/ \E r \in Requests : req[r].stage = "signed" /\ cookie' = req[r].session
    BY DEF Next, vars, Start, AuthCodeURL, StartEmailLogin, SignInStep, Complete, ConsumeOAuthState,
           ConsumeEmailToken, Identify, CreateSession, SetCookie, SessionStep, Visit, FindSession,
           Serve, Logout, RevokeSession, ClearCookie, Abort, Restart, Tick
<1>2. \A r \in Requests : req[r].stage = "signed" => req[r].session \in Alive
    BY DEF IInv, SlotOK
<1> QED
    BY <1>1, <1>2, SessionsKept DEF IInv

\* The invariant holds at the start and every step keeps it.
LEMMA InvInit == Init => IInv
<1> SUFFICES ASSUME Init
             PROVE  IInv
    OBVIOUS
<1> USE ConstantsAssumption DEF ConstantsAssumption
<1>1. Alive = {}
    BY DEF Init, Alive
<1>2. \A r \in Requests : req[r] = Idle
    BY DEF Init
<1>3. \A r \in Requests : SlotOK(req[r]) /\ ~ Holds(r)
    BY <1>2 DEF SlotOK, Idle, Holds
<1>4. TypeOK
    BY <1>2, IdleType DEF Init, TypeOK
<1> QED
    BY <1>1, <1>3, <1>4 DEF Init, IInv, OneSessionPerTicket, SessionOfItsTicket, SeenWithinLife,
                            OneHolder, NoneFromTheFuture

LEMMA InvStep == IInv /\ [Next]_vars => IInv'
<1> SUFFICES ASSUME IInv, [Next]_vars
             PROVE  IInv'
    OBVIOUS
<1>1. TypeOK' /\ OneSessionPerTicket' /\ SessionOfItsTicket' /\ SeenWithinLife'
      /\ NoneFromTheFuture'
    BY TypeStep, TicketStep, OriginStep, TimeStep
<1>2. (\A r \in Requests : SlotOK(req[r]))' /\ OneHolder' /\ (cookie # NULL => cookie \in Alive)'
    BY SlotStep, CookieStep
<1> QED
    BY <1>1, <1>2 DEF IInv

LEMMA Invariance == Spec => []IInv
BY InvInit, InvStep, PTL DEF Spec

-----------------------------------------------------------------------------
(* Theorems *)

\* The rows and the slots stay well-formed.
THEOREM TypeCorrect == Spec => []TypeOK
<1>1. IInv => TypeOK
    BY DEF IInv
<1> QED
    BY <1>1, Invariance, PTL

\* However often and however concurrently a link or a callback is opened, it makes
\* at most one session.
THEOREM TicketsRedeemedOnce == Spec => []OneSessionPerTicket
<1>1. IInv => OneSessionPerTicket
    BY DEF IInv
<1> QED
    BY <1>1, Invariance, PTL

\* A session is of the way in, and of the address, its ticket was issued for, and
\* last_seen_at lies within its life.
THEOREM SessionsSound == Spec => []SessionsAreSound
<1>1. IInv => SessionsAreSound
    BY DEF IInv, SessionsAreSound
<1> QED
    BY <1>1, Invariance, PTL

\* Nobody is served whom the running process does not allow.
THEOREM OnlyAllowedInside == Spec => []InsideIsAllowed
<1>1. IInv => InsideIsAllowed
    BY DEF IInv, SlotOK, InsideIsAllowed
<1> QED
    BY <1>1, Invariance, PTL

\* No session is made for an address that the running process does not allow.
THEOREM OnlyAllowedSignIn == Spec => NewSessionsAllowed
<1> DEFINE A == \A s \in Sessions :
                 sessions[s] = NoSession /\ sessions'[s] # NoSession => sessions'[s].email \in allowed
<1>1. IInv /\ [Next]_vars => [A]_vars
    <2> SUFFICES ASSUME IInv, [Next]_vars, NEW s \in Sessions,
                        sessions[s] = NoSession, sessions'[s] # NoSession
                 PROVE  sessions'[s].email \in allowed
        OBVIOUS
    <2>1. s \in Alive' /\ s \notin Alive
        BY DEF Alive
    <2>2. PICK r \in Requests : CreateSession(r, s) /\ sessions'[s].email = req[r].email
        BY <2>1, NewSession
    <2> QED
        BY <2>2 DEF CreateSession, IInv, SlotOK
<1>2. Spec => [][A]_vars
    BY <1>1, Invariance, PTL DEF Spec
<1> QED
    BY <1>2 DEF NewSessionsAllowed

\* A session that is revoked is never written again and lets nobody in.
THEOREM LogoutHolds == Spec => LoggedOutStaysOut
<1> DEFINE A == \A s \in Sessions :
                 sessions[s].revoked => /\ sessions'[s] = sessions[s]
                                        /\ \A r \in Requests :
                                             /\ req[r].stage = "find"
                                             /\ req[r].session = s
                                             => req'[r].stage # "inside"
<1>1. IInv /\ [Next]_vars => [A]_vars
    <2> SUFFICES ASSUME IInv, [Next]_vars, NEW s \in Sessions, sessions[s].revoked
                 PROVE  /\ sessions'[s] = sessions[s]
                        /\ \A r \in Requests :
                             req[r].stage = "find" /\ req[r].session = s => req'[r].stage # "inside"
        OBVIOUS
    <2>0. TypeOK /\ s \in Alive /\ sessions[s] \in Session
        BY DEF IInv, TypeOK, Alive, NoSession
    <2>1. sessions'[s] = sessions[s]
        <3>1. ASSUME NEW r \in Requests, NEW n \in Sessions, CreateSession(r, n)
              PROVE  sessions'[s] = sessions[s]
            BY <2>0, <3>1 DEF CreateSession, TypeOK, Alive
        <3>2. ASSUME NEW r \in Requests, Sees(r)
              PROVE  sessions'[s] = sessions[s]
            BY <2>0, <3>2 DEF Sees, Live, TypeOK
        <3>3. ASSUME NEW r \in Requests, Revokes(r)
              PROVE  sessions'[s] = sessions[s]
            BY <2>0, <3>3 DEF Revokes, TypeOK, Session
        <3> QED
            BY <3>1, <3>2, <3>3, Writes
    <2>2. ASSUME NEW r \in Requests, req[r].stage = "find", req[r].session = s
          PROVE  req'[r].stage # "inside"
        <3>1. ~ Live(s, req[r].now)
            BY DEF Live
        <3>2. ASSUME NEW u \in Requests, SignInStep(u) \/ SessionStep(u) \/ Abort(u)
              PROVE  req'[r] = req[r] \/ req'[r] = Idle
            <4>1. CASE u # r
                BY <3>2, <4>1, OthersKept
            <4>2. CASE u = r
                <5>1. req' = Answered(r)
                    BY <2>2, <3>1, <3>2, <4>2
                    DEF SignInStep, Complete, ConsumeOAuthState, ConsumeEmailToken, Identify,
                        CreateSession, SetCookie, SessionStep, Visit, FindSession, Serve, Logout,
                        RevokeSession, ClearCookie, Abort, Idle
                <5> QED
                    BY <2>0, <5>1, AnswerType
            <4> QED
                BY <4>1, <4>2
        <3>3. CASE UNCHANGED req
            BY <2>2, <3>3
        <3>4. ASSUME NEW list \in SUBSET Emails, Restart(list)
              PROVE  req'[r] = Idle
            BY <3>4 DEF Restart
        <3>5. ASSUME NEW t \in Tokens, Start(t)
              PROVE  UNCHANGED req
            BY <3>5 DEF Start, AuthCodeURL, StartEmailLogin
        <3> QED
            BY <2>2, <3>2, <3>3, <3>4, <3>5, IdleType DEF Next, Tick, vars
    <2> QED
        BY <2>1, <2>2
<1>2. Spec => [][A]_vars
    BY <1>1, Invariance, PTL DEF Spec
<1> QED
    BY <1>2 DEF LoggedOutStaysOut

-----------------------------------------------------------------------------
(* Sign-in implements the gate, for every ticket *)

\* A request has consumed ticket t and has not made it a session.
Held(t) == \E r \in Requests : Holds(r) /\ req[r].ticket = t

OfTicket(t) == {s \in Alive : sessions[s].ticket = t}

\* A step of sign-in, seen from one ticket.
GateStep(t) == UNCHANGED GateOf(t)!gateVars \/ GateOf(t)!GateNext

-----------------------------------------------------------------------------
(* How far a ticket has come *)

\* What a ticket shows: nothing before it is issued, valid until it is used and out
\* of every hand, then what became of it.
PassFacts(t) ==
    /\ tickets[t] = NoTicket => PassOf(t) = [state |-> "unissued", who |-> NULL]
    /\ tickets[t] # NoTicket /\ (~ tickets[t].used \/ Held(t))
         => PassOf(t) = [state |-> "valid", who |-> NULL]
    /\ tickets[t] # NoTicket /\ tickets[t].used /\ ~ Held(t) /\ OfTicket(t) = {}
         => PassOf(t) = [state |-> "closed", who |-> NULL]
    /\ \A s \in OfTicket(t) :
         PassOf(t) = [state |-> IF sessions[s].revoked THEN "closed" ELSE "open",
                      who |-> sessions[s].email]

\* A ticket with a session is nobody's any more, and the session is its only one.
LEMMA PassIs == IInv => \A t \in Tokens : PassFacts(t)
<1> SUFFICES ASSUME IInv, NEW t \in Tokens
             PROVE  PassFacts(t)
    OBVIOUS
<1>1. ASSUME NEW s \in OfTicket(t)
      PROVE  PassOf(t) = [state |-> IF sessions[s].revoked THEN "closed" ELSE "open",
                          who |-> sessions[s].email]
    <2>1. s \in Alive /\ sessions[s].ticket = t
        BY DEF OfTicket
    <2>2. tickets[t] # NoTicket /\ tickets[t].used
        BY <2>1, TicketIssued DEF IInv, SessionOfItsTicket
    <2>3. ~ Held(t)
        BY <2>1 DEF Held, Holds, IInv, SlotOK
    <2> DEFINE c == CHOOSE c \in Alive : sessions[c].ticket = t
    <2>4. c \in Alive /\ sessions[c].ticket = t
        BY <2>1
    <2>5. c = s
        BY <2>1, <2>4 DEF IInv, OneSessionPerTicket
    <2>6. PassOf(t) = [state |-> IF sessions[c].revoked THEN "closed" ELSE "open",
                       who |-> sessions[c].email]
        BY <2>1, <2>2, <2>3 DEF PassOf, Held
    <2> QED
        BY <2>5, <2>6
<1>2. tickets[t] = NoTicket => PassOf(t) = [state |-> "unissued", who |-> NULL]
    BY DEF PassOf
<1>3. tickets[t] # NoTicket /\ (~ tickets[t].used \/ Held(t))
        => PassOf(t) = [state |-> "valid", who |-> NULL]
    BY DEF PassOf, Held
<1>4. tickets[t] # NoTicket /\ tickets[t].used /\ ~ Held(t) /\ OfTicket(t) = {}
        => PassOf(t) = [state |-> "closed", who |-> NULL]
    BY DEF PassOf, Held, OfTicket
<1> QED
    BY <1>1, <1>2, <1>3, <1>4 DEF PassFacts

LEMMA PassIsNext == IInv' => (\A t \in Tokens : PassFacts(t))'
BY PassIs, PTL

\* Nothing happens to a ticket whose row, holder and session stay as they are.
LEMMA PassKept ==
    ASSUME IInv, IInv', NEW t \in Tokens,
           tickets'[t] = tickets[t], Held(t)' <=> Held(t), OfTicket(t)' = OfTicket(t),
           \A s \in OfTicket(t) : /\ sessions'[s].revoked = sessions[s].revoked
                                  /\ sessions'[s].email = sessions[s].email
    PROVE  PassOf(t)' = PassOf(t)
<1>1. CASE tickets[t] = NoTicket
    BY <1>1, PassIs, PassIsNext DEF PassFacts
<1>2. CASE tickets[t] # NoTicket /\ (~ tickets[t].used \/ Held(t))
    BY <1>2, PassIs, PassIsNext DEF PassFacts
<1>3. CASE tickets[t] # NoTicket /\ tickets[t].used /\ ~ Held(t) /\ OfTicket(t) = {}
    BY <1>3, PassIs, PassIsNext DEF PassFacts
<1>4. ASSUME NEW s \in OfTicket(t)
      PROVE  PassOf(t)' = PassOf(t)
    BY <1>4, PassIs, PassIsNext DEF PassFacts
<1> QED
    BY <1>1, <1>2, <1>3, <1>4

\* Every session that is there keeps its ticket.
LEMMA OfTicketKept ==
    ASSUME IInv, [Next]_vars, Alive' = Alive, NEW t \in Tokens
    PROVE  /\ OfTicket(t)' = OfTicket(t)
           /\ \A s \in OfTicket(t) : sessions'[s].email = sessions[s].email
BY SessionsKept DEF OfTicket

\* Whether a ticket is held changes only with the request that steps.
LEMMA HeldKept ==
    ASSUME NEW r \in Requests, \A u \in Requests \ {r} : req'[u] = req[u], NEW t,
           (Holds(r) /\ req[r].ticket = t) <=> (Holds(r)' /\ req'[r].ticket = t)
    PROVE  Held(t)' <=> Held(t)
<1>1. \A u \in Requests \ {r} : Holds(u)' <=> Holds(u)
    BY DEF Holds
<1> QED
    BY <1>1 DEF Held

\* So does who is inside.
LEMMA InsideKept ==
    ASSUME IInv, [Next]_vars, NEW r \in Requests, \A u \in Requests \ {r} : req'[u] = req[u], NEW t
    PROVE  \A u \in Requests \ {r} : u \in InsideBy(t)' <=> u \in InsideBy(t)
<1> SUFFICES ASSUME NEW u \in Requests \ {r}
             PROVE  u \in InsideBy(t)' <=> u \in InsideBy(t)
    OBVIOUS
<1>1. req[u].stage = "inside" => sessions'[req[u].session].ticket = sessions[req[u].session].ticket
    BY SessionsKept DEF IInv, SlotOK
<1> QED
    BY <1>1 DEF InsideBy

-----------------------------------------------------------------------------
(* The steps of the gate *)

\* A request that holds nothing of the ticket leaves it, or does nothing to it.
LEMMA OutOrNothing ==
    ASSUME IInv, IInv', [Next]_vars, NEW r \in Requests, NEW t \in Tokens,
           \A u \in Requests \ {r} : req'[u] = req[u], UNCHANGED allowed,
           tickets'[t] = tickets[t], OfTicket(t)' = OfTicket(t),
           \A s \in OfTicket(t) : sessions'[s].revoked = sessions[s].revoked,
           (Holds(r) /\ req[r].ticket = t) <=> (Holds(r)' /\ req'[r].ticket = t),
           r \notin InsideBy(t)'
    PROVE  GateStep(t)
<1>1. \A s \in OfTicket(t) : sessions'[s].email = sessions[s].email
    BY SessionsKept DEF OfTicket
<1>2. PassOf(t)' = PassOf(t)
    BY <1>1, HeldKept, PassKept
<1>3. InsideBy(t)' = InsideBy(t) \ {r}
    BY InsideKept DEF InsideBy
<1>4. CASE r \in InsideBy(t)
    <2>1. r \in Requests
        OBVIOUS
    <2>2. GateOf(t)!Leave(r)
        BY <1>2, <1>3, <1>4 DEF GateOf!Leave
    <2> QED
        BY <2>1, <2>2 DEF GateStep, GateOf!GateNext
<1>5. CASE r \notin InsideBy(t)
    BY <1>2, <1>3, <1>5 DEF GateStep, GateOf!gateVars
<1> QED
    BY <1>4, <1>5

\* When the request that held the ticket, or has just consumed it, gives up, the
\* ticket is used up.
LEMMA SpendStep ==
    ASSUME IInv, IInv', [Next]_vars, NEW r \in Requests, NEW t \in Tokens,
           \A u \in Requests \ {r} : req'[u] = req[u], UNCHANGED <<allowed, sessions>>,
           req[r].ticket = t,
           \/ Holds(r) /\ UNCHANGED tickets
           \/ Consumes(r) /\ t \in Tokens,
           ~ Holds(r)', r \notin InsideBy(t)', r \notin InsideBy(t)
    PROVE  GateStep(t)
<1>1. /\ tickets[t] # NoTicket /\ (~ tickets[t].used \/ Held(t))
      /\ tickets'[t] # NoTicket /\ tickets'[t].used
      /\ \A u \in Requests \ {r} : ~ (Holds(u) /\ req[u].ticket = t)
      /\ OfTicket(t) = {}
    <2>1. CASE Holds(r) /\ UNCHANGED tickets
        BY <2>1, TicketIssued DEF Held, Holds, OfTicket, IInv, SlotOK, OneHolder
    <2>2. CASE Consumes(r)
        <3>1. TypeOK /\ req[r].now \in Nat /\ ~ tickets[t].used /\ tickets[t].expires > req[r].now
            BY <2>2 DEF IInv, TypeOK, Request, Consumes, Redeemable
        <3>2. tickets[t] # NoTicket /\ tickets[t] \in Ticket
            BY <3>1 DEF NoTicket, TypeOK
        <3>3. tickets'[t].used
            BY <2>2, <3>1, <3>2 DEF Consumes, TypeOK, Ticket
        <3>4. \A u \in Requests : ~ (Holds(u) /\ req[u].ticket = t)
            BY <3>1 DEF IInv, SlotOK, Holds
        <3>5. OfTicket(t) = {}
            BY <3>1 DEF OfTicket, IInv, SessionOfItsTicket
        <3> QED
            BY <3>1, <3>2, <3>3, <3>4, <3>5 DEF NoTicket
    <2> QED
        BY <2>1, <2>2
<1>2. PassOf(t) = [state |-> "valid", who |-> NULL]
    BY <1>1, PassIs DEF PassFacts
<1>3. ~ Held(t)'
    BY <1>1 DEF Held, Holds
<1>4. OfTicket(t)' = {}
    BY <1>1 DEF OfTicket, Alive
<1>5. PassOf(t)' = [state |-> "closed", who |-> NULL]
    BY <1>1, <1>3, <1>4, PassIsNext DEF PassFacts
<1>6. InsideBy(t)' = InsideBy(t)
    BY InsideKept DEF InsideBy
<1>7. GateOf(t)!Spend
    BY <1>2, <1>5, <1>6 DEF GateOf!Spend, GateOf!Pass
<1> QED
    BY <1>7 DEF GateStep, GateOf!GateNext

\* A ticket that is consumed and goes on in the hands of the request stays valid.
LEMMA InHand ==
    ASSUME IInv, IInv', [Next]_vars, NEW r \in Requests, NEW t \in Tokens,
           \A u \in Requests \ {r} : req'[u] = req[u], UNCHANGED <<allowed, sessions>>,
           tickets[t] # NoTicket, ~ tickets[t].used \/ Held(t),
           Holds(r)', req'[r].ticket = t, r \notin InsideBy(t)
    PROVE  GateStep(t)
<1>1. PassOf(t) = [state |-> "valid", who |-> NULL]
    BY PassIs DEF PassFacts
<1>2. Held(t)'
    BY DEF Held
<1>3. tickets'[t] # NoTicket
    <2>1. tickets[t].kind \in Kinds
        BY DEF IInv, TypeOK, Ticket
    <2> QED
        BY <2>1, TicketsKept, ConstantsAssumption DEF ConstantsAssumption, NoTicket, Kinds
<1>4. PassOf(t)' = PassOf(t)
    BY <1>1, <1>2, <1>3, PassIsNext DEF PassFacts
<1>5. r \notin InsideBy(t)'
    BY DEF InsideBy, Holds
<1>6. InsideBy(t)' = InsideBy(t)
    BY <1>5, InsideKept DEF InsideBy
<1> QED
    BY <1>4, <1>6 DEF GateStep, GateOf!gateVars

-----------------------------------------------------------------------------
(* Every action is a step of the gate or none *)

\* A new ticket.
LEMMA StartStep ==
    ASSUME IInv, IInv', [Next]_vars, NEW i \in Tokens, Start(i), NEW t \in Tokens
    PROVE  GateStep(t)
<1>1. Issues(i) /\ UNCHANGED <<allowed, sessions, req>>
    BY DEF Start, AuthCodeURL, StartEmailLogin, Issues, Kinds
<1>2. TypeOK
    BY DEF IInv
<1>3. InsideBy(t)' = InsideBy(t) /\ OfTicket(t)' = OfTicket(t) /\ (Held(t)' <=> Held(t))
    BY <1>1 DEF InsideBy, OfTicket, Alive, Held, Holds
<1>4. CASE t # i
    <2>1. tickets'[t] = tickets[t]
        BY <1>1, <1>2, <1>4 DEF Issues, TypeOK
    <2>2. PassOf(t)' = PassOf(t)
        BY <1>1, <1>3, <2>1, PassKept
    <2> QED
        BY <1>1, <1>3, <2>2 DEF GateStep, GateOf!gateVars
<1>5. CASE t = i
    <2>1. PICK kind \in Kinds, email \in Emails \cup {NULL} :
             tickets'[t] = NewTicket(kind, email)
        BY <1>1, <1>2, <1>5 DEF Issues, TypeOK
    <2>2. tickets'[t] # NoTicket /\ ~ tickets'[t].used
        BY <2>1, ConstantsAssumption DEF ConstantsAssumption, NewTicket, NoTicket, Kinds
    <2>3. PassOf(t)' = [state |-> "valid", who |-> NULL]
        BY <2>2, PassIsNext DEF PassFacts
    <2>4. PassOf(t) = [state |-> "unissued", who |-> NULL]
        BY <1>1, <1>5, PassIs DEF Issues, PassFacts
    <2>5. GateOf(t)!Issue
        BY <1>1, <1>3, <2>3, <2>4 DEF GateOf!Issue, GateOf!Pass
    <2> QED
        BY <2>5 DEF GateStep, GateOf!GateNext
<1> QED
    BY <1>4, <1>5

\* An answer: whatever the request held is used up, and wherever it was it is out.
LEMMA AnswerStep ==
    ASSUME IInv, IInv', [Next]_vars, NEW r \in Requests, req' = Answered(r),
           UNCHANGED <<allowed, tickets, sessions>>, NEW t \in Tokens
    PROVE  GateStep(t)
<1>1. TypeOK
    BY DEF IInv
<1>2. /\ \A u \in Requests \ {r} : req'[u] = req[u]
      /\ req'[r] = Idle
    BY <1>1, AnswerType
<1>3. ~ Holds(r)' /\ r \notin InsideBy(t)'
    BY <1>2 DEF Holds, InsideBy, Idle
<1>4. OfTicket(t)' = OfTicket(t)
    BY DEF OfTicket, Alive
<1>5. CASE Holds(r) /\ req[r].ticket = t
    <2>1. r \notin InsideBy(t)
        BY <1>5 DEF InsideBy, Holds
    <2> QED
        BY <1>2, <1>3, <1>5, <2>1, SpendStep
<1>6. CASE ~ (Holds(r) /\ req[r].ticket = t)
    BY <1>2, <1>3, <1>4, <1>6, OutOrNothing
<1> QED
    BY <1>5, <1>6

\* A request that begins holds no ticket and is outside.
LEMMA BeginStep ==
    ASSUME IInv, IInv', [Next]_vars, NEW r \in Requests,
           Visit(r) \/ Logout(r) \/ \E i \in Tokens, p \in Kinds : Complete(r, i, p),
           NEW t \in Tokens
    PROVE  GateStep(t)
<1>1. TypeOK /\ clock \in Nat
    BY DEF IInv, TypeOK
<1>2. /\ \A u \in Requests \ {r} : req'[u] = req[u]
      /\ UNCHANGED <<allowed, tickets, sessions>>
      /\ req[r] = Idle
    BY OthersKept DEF SignInStep, SessionStep, Visit, Logout, Complete
<1>3. req'[r].stage \in {"consume", "find", "clear", "revoke"}
    BY <1>1 DEF TypeOK, Visit, Logout, Complete, Begun
<1>4. ~ Holds(r) /\ ~ Holds(r)' /\ r \notin InsideBy(t)'
    BY <1>2, <1>3 DEF Holds, InsideBy, Idle
<1>5. OfTicket(t)' = OfTicket(t)
    BY <1>2 DEF OfTicket, Alive
<1> QED
    BY <1>2, <1>4, <1>5, OutOrNothing

\* The ticket is consumed, and the request goes on with it or gives up.
LEMMA ConsumeStep ==
    ASSUME IInv, IInv', [Next]_vars, NEW r \in Requests,
           ConsumeOAuthState(r) \/ ConsumeEmailToken(r), NEW t \in Tokens
    PROVE  GateStep(t)
<1> DEFINE i == req[r].ticket
<1>1. TypeOK /\ i \in Tokens /\ ~ Holds(r) /\ r \notin InsideBy(t)
    BY DEF IInv, SlotOK, ConsumeOAuthState, ConsumeEmailToken, Holds, InsideBy
<1>2. /\ \A u \in Requests \ {r} : req'[u] = req[u]
      /\ UNCHANGED <<allowed, sessions>>
    BY OthersKept DEF SignInStep, ConsumeOAuthState, ConsumeEmailToken
<1>3. OfTicket(t)' = OfTicket(t)
    BY <1>2 DEF OfTicket, Alive
<1>4. CASE req' = Answered(r) /\ UNCHANGED tickets
    BY <1>2, <1>4, AnswerStep
<1>5. CASE Consumes(r)
    <2>1. r \notin InsideBy(t)' /\ (Holds(r)' => req'[r].ticket = i)
        <3>1. CASE req' = Answered(r)
            BY <1>1, <3>1, AnswerType DEF Holds, InsideBy, Idle
        <3>2. ASSUME NEW stage \in {"identity", "create"}, NEW email, req' = Onward(r, stage, email, NULL)
              PROVE  req'[r].stage # "inside" /\ req'[r].ticket = i
            BY <1>1, <3>2 DEF Onward, TypeOK
        <3>3. ConsumeOAuthState(r) =>
                req' \in {Answered(r), Onward(r, "identity", NULL, NULL)}
            BY DEF ConsumeOAuthState, Refuse
        <3>4. ConsumeEmailToken(r) =>
                req' \in {Answered(r), Onward(r, "create", tickets[i].email, NULL)}
            BY DEF ConsumeEmailToken, Refuse
        <3> QED
            BY <3>1, <3>2, <3>3, <3>4 DEF InsideBy
    <2>2. CASE t # i
        <3>1. tickets'[t] = tickets[t]
            BY <1>1, <1>5, <2>2 DEF Consumes, TypeOK
        <3> QED
            BY <1>1, <1>2, <1>3, <2>1, <2>2, <3>1, OutOrNothing
    <2>3. CASE t = i /\ ~ Holds(r)'
        BY <1>1, <1>2, <1>5, <2>1, <2>3, SpendStep
    <2>4. CASE t = i /\ Holds(r)'
        <3>1. ~ tickets[t].used /\ tickets[t].expires > req[r].now /\ req[r].now \in Nat
            BY <1>1, <1>5, <2>4 DEF Consumes, Redeemable, TypeOK, Request
        <3>2. tickets[t] # NoTicket
            BY <3>1 DEF NoTicket
        <3> QED
            BY <1>1, <1>2, <2>1, <2>4, <3>1, <3>2, InHand
    <2> QED
        BY <2>2, <2>3, <2>4
<1> QED
    BY <1>4, <1>5 DEF ConsumeOAuthState, ConsumeEmailToken, Refuse, Consumes

\* The provider says who it is: the request goes on with its ticket or gives up.
LEMMA IdentifyStep ==
    ASSUME IInv, IInv', [Next]_vars, NEW r \in Requests,
           NEW identity \in Identities(req[r].provider), Identify(r, identity), NEW t \in Tokens
    PROVE  GateStep(t)
<1>1. TypeOK /\ UNCHANGED <<allowed, tickets, sessions>> /\ Holds(r) /\ r \notin InsideBy(t)
    BY DEF IInv, Identify, Holds, InsideBy
<1>2. \A u \in Requests \ {r} : req'[u] = req[u]
    BY OthersKept DEF SignInStep
<1>3. CASE req' = Answered(r)
    BY <1>1, <1>3, AnswerStep
<1>4. CASE req' = Onward(r, "create", identity.email, NULL)
    <2>1. Holds(r)' /\ req'[r].ticket = req[r].ticket /\ r \notin InsideBy(t)'
        BY <1>1, <1>4 DEF Onward, Holds, TypeOK, InsideBy
    <2>2. CASE t = req[r].ticket
        <3>1. Held(t) /\ tickets[t] # NoTicket
            BY <1>1, <2>2, TicketIssued DEF Held
        <3> QED
            BY <1>1, <1>2, <2>1, <2>2, <3>1, InHand
    <2>3. CASE t # req[r].ticket
        <3>1. OfTicket(t)' = OfTicket(t)
            BY <1>1 DEF OfTicket, Alive
        <3> QED
            BY <1>1, <1>2, <2>1, <2>3, <3>1, OutOrNothing
    <2> QED
        BY <2>2, <2>3
<1> QED
    BY <1>3, <1>4 DEF Identify

\* The ticket becomes a session of an address that is allowed.
LEMMA CreateStep ==
    ASSUME IInv, IInv', [Next]_vars, NEW r \in Requests, NEW s \in Sessions,
           CreateSession(r, s), NEW t \in Tokens
    PROVE  GateStep(t)
<1>1. /\ TypeOK /\ UNCHANGED <<allowed, tickets>>
      /\ Holds(r) /\ r \notin InsideBy(t)
      /\ req[r].email \in allowed /\ s \notin Alive
    BY DEF IInv, CreateSession, Holds, InsideBy, SlotOK, Alive
<1>2. \A u \in Requests \ {r} : req'[u] = req[u]
    BY OthersKept DEF SignInStep
<1>3. req'[r].stage = "signed"
    BY <1>1 DEF CreateSession, Onward, TypeOK
<1>4. ~ Holds(r)' /\ r \notin InsideBy(t)'
    BY <1>3 DEF Holds, InsideBy
<1>5. /\ s \in Alive' /\ sessions'[s].ticket = req[r].ticket
      /\ sessions'[s].email = req[r].email /\ ~ sessions'[s].revoked
      /\ \A u \in Sessions \ {s} : sessions'[u] = sessions[u]
    BY <1>1, ConstantsAssumption DEF ConstantsAssumption, CreateSession, TypeOK, Alive, NoSession
<1>6. CASE t # req[r].ticket
    <2>1. OfTicket(t)' = OfTicket(t) /\ \A u \in OfTicket(t) : sessions'[u] = sessions[u]
        BY <1>1, <1>5, <1>6 DEF OfTicket, Alive
    <2> QED
        BY <1>1, <1>2, <1>4, <1>6, <2>1, OutOrNothing
<1>7. CASE t = req[r].ticket
    <2>1. PassOf(t) = [state |-> "valid", who |-> NULL]
        BY <1>1, <1>7, TicketIssued, PassIs DEF PassFacts, Held
    <2>2. s \in OfTicket(t)'
        BY <1>5, <1>7 DEF OfTicket
    <2>3. PassOf(t)' = [state |-> "open", who |-> req[r].email]
        BY <1>5, <2>2, PassIsNext DEF PassFacts
    <2>4. InsideBy(t)' = InsideBy(t)
        BY <1>1, <1>2, <1>4, InsideKept DEF InsideBy
    <2>5. req[r].email \in Emails /\ GateOf(t)!Open(req[r].email)
        BY <1>1, <2>1, <2>3, <2>4 DEF TypeOK, GateOf!Open, GateOf!Pass
    <2> QED
        BY <2>5 DEF GateStep, GateOf!GateNext
<1> QED
    BY <1>6, <1>7

\* A session that is found lets the request in when its address is allowed.
LEMMA FindStep ==
    ASSUME IInv, IInv', [Next]_vars, NEW r \in Requests, FindSession(r), NEW t \in Tokens
    PROVE  GateStep(t)
<1> DEFINE s == req[r].session
<1>1. /\ TypeOK /\ UNCHANGED <<allowed, tickets>>
      /\ ~ Holds(r) /\ r \notin InsideBy(t) /\ s \in Alive
    BY DEF IInv, FindSession, Holds, InsideBy, SlotOK
<1>2. \A u \in Requests \ {r} : req'[u] = req[u]
    BY OthersKept DEF SessionStep
<1>3. CASE req' = Answered(r) /\ UNCHANGED sessions
    BY <1>1, <1>3, AnswerStep
<1>4. CASE Live(s, req[r].now) /\ sessions' = [sessions EXCEPT ![s].seen = req[r].now]
    <2>1. sessions[s] \in Session
        BY <1>1 DEF TypeOK, Alive
    <2>2. /\ OfTicket(t)' = OfTicket(t)
          /\ \A u \in OfTicket(t) : sessions'[u].revoked = sessions[u].revoked
        <3>1. \A u \in Sessions : /\ sessions'[u].revoked = sessions[u].revoked
                                  /\ u # s => sessions'[u] = sessions[u]
            BY <1>1, <1>4, <2>1 DEF TypeOK, Session, NoSession
        <3>2. Alive' = Alive
            BY <1>1, <3>1, SessionsKept DEF Alive
        <3> QED
            BY <3>1, <3>2, OfTicketKept DEF OfTicket, Alive
    <2>3. ~ Holds(r)' /\ (r \in InsideBy(t)' => req' = Onward(r, "inside", NULL, s) /\ Known(s))
        <3>1. CASE req' = Answered(r)
            BY <1>1, <3>1, AnswerType DEF Holds, InsideBy, Idle
        <3>2. CASE req' = Onward(r, "inside", NULL, s) /\ Known(s)
            BY <1>1, <3>2 DEF Onward, Holds, TypeOK
        <3> QED
            BY <1>4, <3>1, <3>2 DEF FindSession
    <2>4. CASE r \notin InsideBy(t)'
        BY <1>1, <1>2, <2>2, <2>3, <2>4, OutOrNothing
    <2>5. CASE r \in InsideBy(t)'
        <3>1. req'[r].session = s /\ sessions[s].email \in allowed
            BY <1>1, <2>3, <2>5 DEF Onward, TypeOK, Known, EmailAllowed
        <3>2. sessions[s].ticket = t
            BY <1>1, <2>5, <3>1, SessionsKept DEF InsideBy
        <3>3. PassOf(t) = [state |-> "open", who |-> sessions[s].email]
            BY <1>1, <1>4, <3>2, PassIs DEF PassFacts, OfTicket, Live
        <3>4. Held(t)' <=> Held(t)
            BY <1>1, <1>2, <2>3, HeldKept
        <3>5. \A u \in OfTicket(t) : sessions'[u].email = sessions[u].email
            BY SessionsKept DEF OfTicket
        <3>6. PassOf(t)' = PassOf(t)
            BY <1>1, <2>2, <3>4, <3>5, PassKept
        <3>7. InsideBy(t)' = InsideBy(t) \cup {r}
            BY <1>2, <2>5, InsideKept DEF InsideBy
        <3>8. GateOf(t)!Enter(r)
            BY <1>1, <3>1, <3>3, <3>6, <3>7 DEF GateOf!Enter
        <3> QED
            BY <3>8 DEF GateStep, GateOf!GateNext
    <2> QED
        BY <2>4, <2>5
<1> QED
    BY <1>3, <1>4 DEF FindSession

\* A logout closes the gate, unless another did before, or the statement fails.
LEMMA RevokeStep ==
    ASSUME IInv, IInv', [Next]_vars, NEW r \in Requests, NEW fails \in BOOLEAN,
           RevokeSession(r, fails), NEW t \in Tokens
    PROVE  GateStep(t)
<1> DEFINE s == req[r].session
<1>1. /\ TypeOK /\ UNCHANGED <<allowed, tickets>>
      /\ ~ Holds(r) /\ r \notin InsideBy(t) /\ s \in Alive
    BY DEF IInv, RevokeSession, Holds, InsideBy, SlotOK
<1>2. \A u \in Requests \ {r} : req'[u] = req[u]
    BY OthersKept DEF SessionStep
<1>3. ~ Holds(r)' /\ r \notin InsideBy(t)'
    BY <1>1 DEF RevokeSession, Onward, TypeOK, Holds, InsideBy
<1>4. sessions[s] \in Session
    BY <1>1 DEF TypeOK, Alive
<1>5. /\ \A u \in Sessions \ {s} : sessions'[u] = sessions[u]
      /\ sessions'[s].revoked = sessions[s].revoked \/ sessions'[s].revoked
    BY <1>1, <1>4 DEF RevokeSession, TypeOK, Session
<1>6. OfTicket(t)' = OfTicket(t)
    <2>1. Alive' = Alive
        BY <1>1, <1>5, SessionsKept DEF Alive
    <2> QED
        BY <2>1, OfTicketKept
<1>7. CASE \A u \in OfTicket(t) : sessions'[u].revoked = sessions[u].revoked
    BY <1>1, <1>2, <1>3, <1>6, <1>7, OutOrNothing
<1>8. CASE s \in OfTicket(t) /\ sessions'[s].revoked # sessions[s].revoked
    <2>1. ~ sessions[s].revoked /\ sessions'[s].revoked
        BY <1>4, <1>5, <1>8 DEF Session
    <2>2. PassOf(t) = [state |-> "open", who |-> sessions[s].email]
        BY <1>8, <2>1, PassIs DEF PassFacts
    <2>3. PassOf(t)' = [state |-> "closed", who |-> sessions[s].email]
        BY <1>1, <1>6, <1>8, <2>1, PassIsNext, SessionsKept DEF PassFacts
    <2>4. InsideBy(t)' = InsideBy(t)
        BY <1>1, <1>2, <1>3, InsideKept DEF InsideBy
    <2>5. GateOf(t)!Close
        BY <1>1, <2>2, <2>3, <2>4 DEF GateOf!Close, GateOf!Pass
    <2> QED
        BY <2>5 DEF GateStep, GateOf!GateNext
<1>9. \A u \in OfTicket(t) : u = s \/ sessions'[u] = sessions[u]
    BY <1>5 DEF OfTicket, Alive
<1> QED
    BY <1>7, <1>8, <1>9

\* A restart empties the house, and a ticket that was in the hands of a request is
\* used up.
LEMMA RestartStep ==
    ASSUME IInv, IInv', [Next]_vars, NEW list \in SUBSET Emails, Restart(list), NEW t \in Tokens
    PROVE  GateStep(t)
<1>1. /\ UNCHANGED <<tickets, sessions>> /\ allowed' \in SUBSET Emails
      /\ \A u \in Requests : req'[u] = Idle
    BY DEF Restart
<1>2. InsideBy(t)' = {} /\ ~ Held(t)' /\ OfTicket(t)' = OfTicket(t)
    BY <1>1 DEF InsideBy, Held, Holds, Idle, OfTicket, Alive
<1>3. CASE Held(t)
    <2>1. tickets[t] # NoTicket /\ tickets[t].used /\ OfTicket(t) = {}
        BY <1>3, TicketIssued DEF Held, Holds, IInv, SlotOK, OfTicket
    <2>2. PassOf(t) = [state |-> "valid", who |-> NULL]
        BY <1>3, <2>1, PassIs DEF PassFacts
    <2>3. PassOf(t)' = [state |-> "closed", who |-> NULL]
        BY <1>1, <1>2, <2>1, PassIsNext DEF PassFacts
    <2>4. GateOf(t)!Replace
        BY <1>1, <1>2, <2>2, <2>3 DEF GateOf!Replace, GateOf!Pass
    <2> QED
        BY <2>4 DEF GateStep, GateOf!GateNext
<1>4. CASE ~ Held(t)
    <2>1. PassOf(t)' = PassOf(t)
        BY <1>1, <1>2, <1>4, PassKept
    <2>2. GateOf(t)!Replace
        BY <1>1, <1>2, <2>1 DEF GateOf!Replace
    <2> QED
        BY <2>2 DEF GateStep, GateOf!GateNext
<1> QED
    BY <1>3, <1>4

\* The clock moves, or nothing does.
LEMMA IdleStep ==
    ASSUME UNCHANGED <<allowed, tickets, sessions, req>>, NEW t \in Tokens
    PROVE  GateStep(t)
BY DEF GateStep, GateOf!gateVars, PassOf, InsideBy, Holds, Alive

-----------------------------------------------------------------------------
(* The refinement *)

\* Every step of sign-in is, for every ticket, a step of its gate or none.
LEMMA EveryStep ==
    ASSUME IInv, IInv', [Next]_vars, NEW t \in Tokens
    PROVE  GateStep(t)
<1>1. ASSUME NEW i \in Tokens, Start(i)
      PROVE  GateStep(t)
    BY <1>1, StartStep
<1>2. ASSUME NEW r \in Requests, SignInStep(r)
      PROVE  GateStep(t)
    <2>1. CASE SetCookie(r)
        BY <2>1, AnswerStep DEF SetCookie
    <2>2. CASE \E i \in Tokens, p \in Kinds : Complete(r, i, p)
        BY <2>2, BeginStep
    <2>3. CASE ConsumeOAuthState(r) \/ ConsumeEmailToken(r)
        BY <2>3, ConsumeStep
    <2> QED
        BY <1>2, <2>1, <2>2, <2>3, IdentifyStep, CreateStep DEF SignInStep
<1>3. ASSUME NEW r \in Requests, SessionStep(r)
      PROVE  GateStep(t)
    <2>1. CASE Serve(r) \/ ClearCookie(r)
        BY <2>1, AnswerStep DEF Serve, ClearCookie
    <2>2. CASE Visit(r) \/ Logout(r)
        BY <2>2, BeginStep
    <2> QED
        BY <1>3, <2>1, <2>2, FindStep, RevokeStep DEF SessionStep
<1>4. ASSUME NEW r \in Requests, Abort(r)
      PROVE  GateStep(t)
    BY <1>4, AnswerStep DEF Abort
<1>5. ASSUME NEW list \in SUBSET Emails, Restart(list)
      PROVE  GateStep(t)
    BY <1>5, RestartStep
<1>6. CASE Tick \/ UNCHANGED vars
    BY <1>6, IdleStep DEF Tick, vars
<1> QED
    BY <1>1, <1>2, <1>3, <1>4, <1>5, <1>6 DEF Next

\* The statements of concurrent requests, cut off anywhere and across restarts, add
\* up to the gate for every ticket: it opens at most once, for an address allowed at
\* that moment, and lets in only while it is open.
THEOREM SignInImplementsGate == Spec => ImplementsGate
<1> DEFINE A == \A t \in Tokens : UNCHANGED GateOf(t)!gateVars \/ GateOf(t)!GateNext
           I == \A t \in Tokens : GateOf(t)!GateInit
<1>1. Init => I
    BY DEF Init, GateOf!GateInit, GateOf!Pass, PassOf, InsideBy, Idle
<1>2. IInv /\ IInv' /\ [Next]_vars => [A]_vars
    BY EveryStep DEF GateStep
<1> HIDE DEF A, I
<1>3. Spec => I /\ [][A]_vars
    BY <1>1, <1>2, Invariance, PTL DEF Spec
<1> QED
    BY <1>3 DEF ImplementsGate, A, I
=============================================================================
