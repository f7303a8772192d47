------------------------------ MODULE MCSignIn ------------------------------
(***************************************************************************)
(* Constants of the TLC run of SignIn.                                     *)
(***************************************************************************)
EXTENDS SignIn, TLC

CONSTANTS e1, t1, t2, s1, s2, r1, r2

OneEmail    == {e1}
TwoTokens   == {t1, t2}
TwoSessions == {s1, s2}
TwoRequests == {r1, r2}

\* GitHub is left out: it answers like a trusted provider that knows an address.
TwoProviders == {"vk", "yandex"}

Symmetric == Permutations(TwoTokens) \cup Permutations(TwoSessions)
             \cup Permutations(TwoRequests)
=============================================================================
