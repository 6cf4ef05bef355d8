---------------------------- MODULE LabSequence ----------------------------
(***************************************************************************)
(* lab_sequence_accept of lab/contracts/lab_util.c: the anti-replay window *)
(* of a lab-udp/2 session.  A window is a record with the next sequence    *)
(* number expected and the ring of the numbers last seen.                  *)
(***************************************************************************)
EXTENDS Integers

CONSTANTS HISTORY,  \* ring size: 16 in the code
          AHEAD,    \* how far a number may jump ahead: 8 in the code
          SEQ_MAX   \* UINT32_MAX, which ends the session

ASSUME WindowAssumption == /\ HISTORY \in Nat \ {0}
                           /\ AHEAD \in Nat
                           /\ SEQ_MAX \in Nat \ {0}

Window == [next : 1..SEQ_MAX, seen : [0..(HISTORY - 1) -> 0..SEQ_MAX]]

\* do_hello: the window of a new session. 0 is no sequence number.
FreshWindow == [next |-> 1, seen |-> [k \in 0..(HISTORY - 1) |-> 0]]

SeqReason(w, seq) ==
  CASE seq = 0 -> "BAD_SEQ"
    [] seq # 0 /\ (seq = SEQ_MAX \/ w.next = SEQ_MAX) -> "CLOSING"
    [] OTHER -> IF seq >= w.next
                THEN IF seq - w.next > AHEAD THEN "BAD_SEQ" ELSE "OK"
                ELSE IF w.next - seq > HISTORY THEN "BAD_SEQ"
                     ELSE IF w.seen[seq % HISTORY] = seq THEN "REPLAY" ELSE "OK"

\* Mutant of SeqAdvance: a late number is not remembered.
SeqAdvanceForward(w, seq) ==
  IF seq >= w.next THEN [next |-> seq + 1, seen |-> [w.seen EXCEPT ![seq % HISTORY] = seq]]
                   ELSE w

\* The window after seq was found OK.
SeqAdvance(w, seq) ==
  [next |-> IF seq >= w.next THEN seq + 1 ELSE w.next,
   seen |-> [w.seen EXCEPT ![seq % HISTORY] = seq]]
=============================================================================
