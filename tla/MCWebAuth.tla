----------------------------- MODULE MCWebAuth -----------------------------
(***************************************************************************)
(* WebAuth with two processes, the default administrator and one more      *)
(* user.  The administrator's name is also typed in capitals, and one      *)
(* typed name is not a valid one.                                          *)
(***************************************************************************)
EXTENDS WebAuth, TLC

CONSTANTS admin, ADMIN, bob, short, w1, w2, first, other, t1, t2

MCWorkers == {w1, w2}
MCNames == {admin, bob}
MCTyped == {admin, ADMIN, bob, short}
MCNormalOf == (admin :> admin) @@ (ADMIN :> admin) @@ (bob :> bob) @@ (short :> BadName)
MCPasswords == {first, other}
MCTokens == {t1, t2}

\* What tells two states apart: no guard and no property reads `result`.
Apart == <<users, sessions, issued, pc, job>>

\* Processes are alike, and so are tokens.
Similar == Permutations(MCWorkers) \cup Permutations(MCTokens)
=============================================================================
