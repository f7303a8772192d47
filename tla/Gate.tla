-------------------------------- MODULE Gate --------------------------------
(***************************************************************************)
(* What sign-in promises of one ticket, be it a mail link or the state of  *)
(* an OAuth round trip: it opens the gate at most once and only for an     *)
(* address that is allowed at that moment, and a request enters only while *)
(* the gate is open and its address is allowed.  Opening is one step here; *)
(* SignIn spreads it over the statements of a request.                     *)
(***************************************************************************)
CONSTANTS
    Emails,     \* normalised addresses
    Requests,   \* requests that may be inside
    NULL        \* no address

VARIABLES
    allowed,    \* the addresses the process lets in
    pass,       \* how far the ticket has come, and for whom
    inside      \* the requests that its session has let in

gateVars == <<allowed, pass, inside>>

Pass(state, who) == [state |-> state, who |-> who]

GateInit ==
    /\ allowed \in SUBSET Emails
    /\ pass = Pass("unissued", NULL)
    /\ inside = {}

Issue ==
    /\ pass.state = "unissued"
    /\ pass' = Pass("valid", NULL)
    /\ UNCHANGED <<allowed, inside>>

\* The ticket becomes the session of an address.
Open(e) ==
    /\ pass.state = "valid"
    /\ e \in allowed
    /\ pass' = Pass("open", e)
    /\ UNCHANGED <<allowed, inside>>

\* It is used up without a session.
Spend ==
    /\ pass.state = "valid"
    /\ pass' = Pass("closed", NULL)
    /\ UNCHANGED <<allowed, inside>>

\* Its session is revoked.
Close ==
    /\ pass.state = "open"
    /\ pass' = Pass("closed", pass.who)
    /\ UNCHANGED <<allowed, inside>>

Enter(r) ==
    /\ r \notin inside
    /\ pass.state = "open"
    /\ pass.who \in allowed
    /\ inside' = inside \cup {r}
    /\ UNCHANGED <<allowed, pass>>

Leave(r) ==
    /\ r \in inside
    /\ inside' = inside \ {r}
    /\ UNCHANGED <<allowed, pass>>

\* A new process, perhaps with another list: nobody is inside, and a ticket whose
\* request was cut short is used up.
Replace ==
    /\ allowed' \in SUBSET Emails
    /\ pass' \in {pass} \cup (IF pass.state = "valid" THEN {Pass("closed", NULL)} ELSE {})
    /\ inside' = {}

GateNext ==
    \/ Issue \/ Spend \/ Close \/ Replace
    \/ \E e \in Emails : Open(e)
    \/ \E r \in Requests : Enter(r) \/ Leave(r)

GateSpec == GateInit /\ [][GateNext]_gateVars
=============================================================================
