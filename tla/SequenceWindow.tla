--------------------------- MODULE SequenceWindow ---------------------------
(***************************************************************************)
(* One session's window against a network that delays, reorders, repeats   *)
(* and loses datagrams: any sequence number may arrive at any time.        *)
(***************************************************************************)
EXTENDS LabSequence, FiniteSets

VARIABLES window,  \* c->sequence
          taken,   \* history: the numbers accepted so far
          count    \* history: how many datagrams were accepted

wvars == <<window, taken, count>>

WInit == /\ window = FreshWindow
         /\ taken = {}
         /\ count = 0

\* lab_sequence_accept returns LAB_OK; every other reason leaves the window alone.
AcceptSeq(seq) == /\ SeqReason(window, seq) = "OK"
                  /\ window' = SeqAdvance(window, seq)
                  /\ taken' = taken \cup {seq}
                  /\ count' = count + 1

WNext == \E seq \in 0..SEQ_MAX : AcceptSeq(seq)

WSpec == WInit /\ [][WNext]_wvars

-----------------------------------------------------------------------------
\* The window keeps its type: it never reaches past the last sequence number.
WTypeOK == /\ window \in Window
           /\ taken \subseteq 1..(SEQ_MAX - 1)
           /\ count \in Nat

\* No sequence number is accepted twice in a session, however late, early or
\* often it arrives: every acceptance adds a new number.
AcceptedOnce == count = Cardinality(taken)

\* A number the window still covers and has not seen is accepted when it comes:
\* reordering within the window loses nothing.
LateIsAccepted ==
  \A s \in 1..(window.next - 1) :
    s \notin taken /\ window.next - s <= HISTORY /\ window.next < SEQ_MAX
      => SeqReason(window, s) = "OK"
=============================================================================
