------------------------------ MODULE MCSignIn ------------------------------
(* Two requests at a time; each budget is a scenario with its own bounds. *)
EXTENDS SignIn, TLC

Budget(login, code, change, setup, token) ==
    [w \in Work |-> CASE w = "login" -> login [] w = "code" -> code [] w = "change" -> change
                      [] w = "setup" -> setup [] w = "token" -> token]

MCBudgets == {
    Budget(2, 2, 0, 0, 0),    \* second factors of two sign-ins
    Budget(1, 3, 0, 0, 0),    \* one sign-in, as many codes as the lockout admits and more
    Budget(2, 1, 1, 0, 0),    \* two sign-ins against an account change
    Budget(1, 1, 2, 0, 0),    \* a sign-in against two account changes
    Budget(1, 0, 2, 0, 2),    \* pairing against two account changes
    Budget(1, 1, 1, 2, 0)}    \* enrolment started twice

Symmetry == Permutations(Requests)
=============================================================================
