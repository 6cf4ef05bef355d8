---------------------------- MODULE MCAdmission ----------------------------
(***************************************************************************)
(* A small instance of Admission: two admissions that share the registry,  *)
(* each of which may be challenged and renewed while the other is open.    *)
(***************************************************************************)
EXTENDS Admission, TLC

Symmetry == Permutations(Ids) \cup Permutations(Challenges)
            \cup Permutations(Workers)
=============================================================================
