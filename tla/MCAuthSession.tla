--------------------------- MODULE MCAuthSession ---------------------------
(* Instances of AuthSession for TLC. *)
EXTENDS AuthSession, TLC

CONSTANTS u1, u2, a1, a2, boss, guest, other

\* A registered administrator and a subject without an account.
MCSubjectOf == (a1 :> u1) @@ (a2 :> u2)
MCFounder == (boss :> u1) @@ (guest :> None) @@ (other :> None)

\* One registered subject.
OneSubjectOf == (a1 :> u1)
OneFounder == (boss :> u1)

Symmetry == Permutations(Request) \cup Permutations(Session)
NameSymmetry == Symmetry \cup Permutations({guest, other})
=============================================================================
