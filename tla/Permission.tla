----------------------------- MODULE Permission -----------------------------
(***************************************************************************)
(* What arena-admission/1 promises a game server about an admission id: a  *)
(* permission to play that is asked for, granted for the rest of a lease   *)
(* that began when it was asked for, and lost when the lease ends, when it *)
(* is asked for again, or for good when the server revokes it.             *)
(***************************************************************************)
EXTENDS Integers

CONSTANTS Ids, LEASE

VARIABLES clock,  \* the service's clock
          perm,   \* the permission of each admission
          until   \* when an asked or granted permission ends at the latest

pvars == <<clock, perm, until>>

PInit == /\ clock \in Nat
         /\ perm = [i \in Ids |-> "none"]
         /\ until = [i \in Ids |-> 0]

\* A permission has not ended yet.
Current(i, t) == perm[i] = "granted" => t < until[i]

\* The permissions of S are lost.
Lose(S) == /\ perm' = [i \in Ids |-> IF i \in S THEN "none" ELSE perm[i]]
           /\ until' = [i \in Ids |-> IF i \in S THEN 0 ELSE until[i]]

\* Time passes, and what ends with it is lost at that very instant.
Pass == /\ clock' = clock + 1
        /\ \E S \in SUBSET {i \in Ids : perm[i] \in {"asked", "granted"}} :
             /\ \A i \in Ids \ S : Current(i, clock')
             /\ Lose(S)

\* A challenge is issued: the permission is suspended and its next end is fixed.
Ask(i) == /\ perm[i] # "revoked"
          /\ perm' = [perm EXCEPT ![i] = "asked"]
          /\ \E t \in (clock + 1)..(clock + LEASE) : until' = [until EXCEPT ![i] = t]
          /\ UNCHANGED clock

\* Good evidence is granted what is left of the time fixed when it was asked for.
Grant(i) == /\ perm[i] = "asked"
            /\ clock < until[i]
            /\ perm' = [perm EXCEPT ![i] = "granted"]
            /\ UNCHANGED <<clock, until>>

Deny(i) == /\ perm[i] = "asked"
           /\ Lose({i})
           /\ UNCHANGED clock

Revoke(i) == /\ perm' = [perm EXCEPT ![i] = "revoked"]
             /\ until' = [until EXCEPT ![i] = 0]
             /\ UNCHANGED clock

PNext == \/ Pass
         \/ \E i \in Ids : Ask(i) \/ Grant(i) \/ Deny(i) \/ Revoke(i)

Spec == PInit /\ [][PNext]_pvars
=============================================================================
