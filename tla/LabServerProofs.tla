-------------------------- MODULE LabServerProofs --------------------------
(***************************************************************************)
(* The lab-udp/2 server for any number of addresses, nonces, sessions and  *)
(* slots, and for every window.                                            *)
(***************************************************************************)
EXTENDS LabServer, FiniteSetTheorems, WellFoundedInduction, TLAPS

(* Arithmetic of the ring *)

LEMMA ModRange ==
  ASSUME NEW a \in Nat
  PROVE  a % HISTORY \in 0..(HISTORY - 1)
BY WindowAssumption

LEMMA MultipleIsFar ==
  ASSUME NEW k \in Int, k >= 1
  PROVE  HISTORY * k >= HISTORY
BY WindowAssumption

LEMMA ModDistinct ==
  ASSUME NEW a \in Nat, NEW b \in Nat, a % HISTORY = b % HISTORY,
         a - b < HISTORY, b - a < HISTORY
  PROVE  a = b
<1> DEFINE q == a \div HISTORY
           r == b \div HISTORY
<1>1. q \in Int /\ r \in Int
  BY WindowAssumption
<1>2. /\ a = HISTORY * q + (a % HISTORY)
      /\ b = HISTORY * r + (b % HISTORY)
  BY WindowAssumption
<1>3. a - b = HISTORY * (q - r)
  BY <1>1, <1>2, WindowAssumption
<1>4. ~(q - r >= 1)
  <2>1. q - r >= 1 => HISTORY * (q - r) >= HISTORY
    BY <1>1, MultipleIsFar
  <2> QED
    BY <1>1, <1>3, <2>1, WindowAssumption
<1>5. ~(r - q >= 1)
  <2>1. r - q >= 1 => HISTORY * (r - q) >= HISTORY
    BY <1>1, MultipleIsFar
  <2>2. b - a = HISTORY * (r - q)
    BY <1>1, <1>2, WindowAssumption
  <2> QED
    BY <1>1, <2>1, <2>2, WindowAssumption
<1> QED
  BY <1>1, <1>2, <1>4, <1>5
-----------------------------------------------------------------------------
(* The least element of a set of numbers, which the table's searches find  *)

LEMMA NatOrder == IsWellFoundedOn({p \in Nat \X Nat : p[1] < p[2]}, Nat)
BY NatLessThanWellFounded DEF OpToRel

LEMMA Least ==
  ASSUME NEW S, S \subseteq Nat, S # {}
  PROVE  \E i \in S : \A j \in S : i <= j
<1> DEFINE R == {p \in Nat \X Nat : p[1] < p[2]}
<1>1. \A i, j \in Nat : i < j => <<i, j>> \in R
  OBVIOUS
<1> HIDE DEF R
<1>2. IsWellFoundedOn(R, Nat)
  BY NatOrder DEF R
<1>3. PICK i \in S : \A j \in S : <<j, i>> \notin R
  BY <1>2, WFMin
<1>4. \A j \in S : i <= j
  <2> SUFFICES ASSUME NEW j \in S, ~(i <= j) PROVE FALSE
    OBVIOUS
  <2>1. i \in Nat /\ j \in Nat /\ j < i
    OBVIOUS
  <2>2. <<j, i>> \in R
    BY <1>1, <2>1
  <2> QED
    BY <1>3, <2>2
<1> QED
  BY <1>4
-----------------------------------------------------------------------------
(* One session's numbers                                                   *)

\* The window w and the numbers T accepted so far, n of them: the ring holds
\* exactly those of T that are among the last HISTORY ones.
Sound(w, T, n) ==
  /\ w \in Window /\ T \subseteq 1..(SEQ_MAX - 1) /\ n \in Nat
  /\ \A s \in T : /\ s < w.next
                  /\ w.next - s <= HISTORY => w.seen[s % HISTORY] = s
  /\ \A k \in 0..(HISTORY - 1) : w.seen[k] = 0 \/ w.seen[k] \in T
  /\ IsFiniteSet(T) /\ n = Cardinality(T)

\* lab_sequence_accept says LAB_OK only to a number within reach, and never to
\* one the ring holds.
LEMMA OkMeans ==
  ASSUME NEW w \in Window, NEW seq \in 0..SEQ_MAX, SeqReason(w, seq) = "OK"
  PROVE  /\ seq # 0 /\ seq # SEQ_MAX /\ w.next # SEQ_MAX
         /\ seq < w.next => w.next - seq <= HISTORY /\ w.seen[seq % HISTORY] # seq
<1>1. seq # 0
  BY DEF SeqReason
<1>2. ~(seq = SEQ_MAX \/ w.next = SEQ_MAX)
  BY <1>1 DEF SeqReason
<1> QED
  BY <1>1, <1>2, WindowAssumption DEF SeqReason, Window

LEMMA AdvanceType ==
  ASSUME NEW w \in Window, NEW seq \in 1..(SEQ_MAX - 1)
  PROVE  SeqAdvance(w, seq) \in Window
<1>1. seq % HISTORY \in 0..(HISTORY - 1)
  BY ModRange, WindowAssumption
<1>2. w.next \in 1..SEQ_MAX /\ w.seen \in [0..(HISTORY - 1) -> 0..SEQ_MAX]
  BY DEF Window
<1>3. (IF seq >= w.next THEN seq + 1 ELSE w.next) \in 1..SEQ_MAX
  BY <1>2, WindowAssumption
<1>4. [w.seen EXCEPT ![seq % HISTORY] = seq] \in [0..(HISTORY - 1) -> 0..SEQ_MAX]
  BY <1>1, <1>2, WindowAssumption
<1> QED
  BY <1>3, <1>4 DEF SeqAdvance, Window

LEMMA FreshSound == Sound(FreshWindow, {}, 0)
<1>1. FreshWindow \in Window
  BY WindowAssumption DEF FreshWindow, Window
<1>2. IsFiniteSet({}) /\ Cardinality({}) = 0
  BY FS_EmptySet
<1>3. \A k \in 0..(HISTORY - 1) : FreshWindow.seen[k] = 0
  BY DEF FreshWindow
<1> QED
  BY <1>1, <1>2, <1>3 DEF Sound

LEMMA AdvanceSound ==
  ASSUME NEW w, NEW T, NEW n, Sound(w, T, n),
         NEW seq \in 0..SEQ_MAX, SeqReason(w, seq) = "OK"
  PROVE  /\ Sound(SeqAdvance(w, seq), T \cup {seq}, n + 1)
         /\ seq \in 1..(SEQ_MAX - 1)
<1> DEFINE x == SeqAdvance(w, seq)
<1>1. w \in Window /\ T \subseteq 1..(SEQ_MAX - 1) /\ n \in Nat
  BY DEF Sound
<1>2. /\ seq # 0 /\ seq # SEQ_MAX /\ w.next # SEQ_MAX
      /\ seq < w.next => w.next - seq <= HISTORY /\ w.seen[seq % HISTORY] # seq
  BY <1>1, OkMeans
<1>3. seq \in 1..(SEQ_MAX - 1)
  BY <1>2, WindowAssumption
<1>4. w.next \in 1..SEQ_MAX /\ w.seen \in [0..(HISTORY - 1) -> 0..SEQ_MAX]
  BY <1>1 DEF Window
<1>5. /\ x.next = IF seq >= w.next THEN seq + 1 ELSE w.next
      /\ x.seen = [w.seen EXCEPT ![seq % HISTORY] = seq]
  BY DEF SeqAdvance
<1>6. x \in Window
  BY <1>1, <1>3, AdvanceType
<1>7. seq \notin T
  BY <1>2, <1>3, <1>4 DEF Sound
<1> HIDE DEF x
<1>8. ASSUME NEW s \in T \cup {seq}
      PROVE  s < x.next /\ (x.next - s <= HISTORY => x.seen[s % HISTORY] = s)
  <2>1. s \in Nat /\ s % HISTORY \in 0..(HISTORY - 1)
    BY <1>1, <1>3, ModRange
  <2>2. CASE s = seq
    <3>1. seq < x.next
      BY <1>3, <1>4, <1>5
    <3>2. x.seen[s % HISTORY] = s
      BY <1>4, <1>5, <2>1, <2>2
    <3> QED
      BY <2>2, <3>1, <3>2
  <2>3. CASE s # seq
    <3>1. /\ s < w.next
          /\ w.next - s <= HISTORY => w.seen[s % HISTORY] = s
      BY <2>3 DEF Sound
    <3>2. s < x.next /\ w.next <= x.next
      BY <1>3, <1>4, <1>5, <2>1, <3>1
    <3>3. ASSUME x.next - s <= HISTORY
          PROVE  x.seen[s % HISTORY] = s
      <4>1. s - seq < HISTORY /\ seq - s < HISTORY
        <5>1. /\ seq \in Int /\ w.next \in Int /\ s < w.next /\ HISTORY \in Int
              /\ seq < w.next => w.next - seq <= HISTORY
              /\ x.next = IF seq >= w.next THEN seq + 1 ELSE w.next
          BY <1>2, <1>3, <1>4, <1>5, <3>1, WindowAssumption
        <5> QED
          BY <2>1, <3>3, <5>1
      <4>2. s % HISTORY # seq % HISTORY
        BY <1>3, <2>1, <2>3, <4>1, ModDistinct
      <4>3. w.seen[s % HISTORY] = s
        BY <1>3, <1>4, <1>5, <2>1, <3>1, <3>2, <3>3, WindowAssumption
      <4> QED
        BY <1>4, <1>5, <2>1, <4>2, <4>3
    <3> QED
      BY <3>2, <3>3
  <2> QED
    BY <2>2, <2>3
<1>9. \A k \in 0..(HISTORY - 1) : x.seen[k] = 0 \/ x.seen[k] \in T \cup {seq}
  BY <1>4, <1>5 DEF Sound
<1>10. /\ IsFiniteSet(T \cup {seq})
       /\ Cardinality(T \cup {seq}) = n + 1
  BY <1>7, FS_AddElement DEF Sound
<1>11. Sound(x, T \cup {seq}, n + 1)
  BY <1>1, <1>3, <1>6, <1>8, <1>9, <1>10 DEF Sound
<1> QED
  BY <1>3, <1>11 DEF x

\* A number the window covers and has not seen is still accepted.
LEMMA LateIsOk ==
  ASSUME NEW w, NEW T, NEW n, Sound(w, T, n), NEW s \in 1..(w.next - 1), s \notin T,
         w.next - s <= HISTORY, w.next < SEQ_MAX
  PROVE  SeqReason(w, s) = "OK"
<1>1. w.next \in 1..SEQ_MAX
  BY DEF Sound, Window
<1>2. s \in Nat /\ s # 0 /\ s # SEQ_MAX /\ s < w.next
  BY <1>1
<1>3. s % HISTORY \in 0..(HISTORY - 1)
  BY <1>2, ModRange
<1>4. w.seen[s % HISTORY] # s
  BY <1>2, <1>3 DEF Sound
<1> QED
  BY <1>1, <1>2, <1>4, WindowAssumption DEF SeqReason
-----------------------------------------------------------------------------
(* The inductive invariant                                                 *)

EvidenceType == [pending : BOOLEAN, request : Nat, last : Nat, left : Nat]

PastType == [taken : SUBSET (1..(SEQ_MAX - 1)), count : Nat, answered : [RequestIds -> Nat]]

SlotType ==
  [used : BOOLEAN, addr : Addrs \cup {None}, nonce : Nonces \cup {None},
   session : Sessions \cup {None}, window : Window, evidence : EvidenceType,
   idle : Nat, past : PastType]

\* A request that is pending, or that is still to come, has no observation yet.
Unanswered(c) ==
  /\ c.evidence.pending => c.evidence.request = c.evidence.last
  /\ \A r \in RequestIds :
       /\ c.past.answered[r] <= 1
       /\ r > c.evidence.last => c.past.answered[r] = 0
       /\ c.evidence.pending /\ c.evidence.request = r => c.past.answered[r] = 0

\* What the server knows of one session is consistent.
Consistent(c) == /\ c \in SlotType
                 /\ Sound(c.window, c.past.taken, c.past.count)
                 /\ Unanswered(c)

Whose == \A i \in Used : slot[i].session \in issued

LInv == /\ slot \in [Table -> SlotType]
        /\ \A i \in Table : Consistent(slot[i])
        /\ Whose
        /\ SlotsAreDistinct
        /\ FinalRstMeansClosed

LEMMA ReleasedConsistent == Consistent(Released) /\ ~Released.used
<1>1. FreshWindow \in Window
  BY FreshSound DEF Sound
<1>2. NoRequest \in EvidenceType /\ NoPast \in PastType
  BY DEF NoRequest, EvidenceType, NoPast, PastType
<1>3. Released \in SlotType /\ ~Released.used
  BY <1>1, <1>2 DEF Released, SlotType
<1>4. /\ Released.window = FreshWindow /\ Released.past.taken = {}
      /\ Released.past.count = 0
  BY DEF Released, NoPast
<1>5. Unanswered(Released)
  BY DEF Released, NoPast, NoRequest, Unanswered
<1> QED
  BY <1>3, <1>4, <1>5, FreshSound DEF Consistent

LEMMA InitInv == LInit => LInv
<1> SUFFICES ASSUME LInit PROVE LInv
  OBVIOUS
<1>1. \A i \in Table : slot[i] = Released
  BY DEF LInit
<1>2. slot \in [Table -> SlotType]
  BY ReleasedConsistent DEF LInit, Consistent
<1>3. Used = {}
  BY <1>1, ReleasedConsistent DEF Used
<1>4. Cardinality(Used) <= MAX_CLIENTS
  BY <1>3, FS_EmptySet, ServerAssumption
<1> QED
  BY <1>1, <1>2, <1>3, <1>4, ReleasedConsistent
     DEF LInit, LInv, Whose, SlotsAreDistinct, FinalRstMeansClosed

-----------------------------------------------------------------------------
(* What a datagram may do to the table                                     *)

LEMMA TableIsFinite == /\ IsFiniteSet(Table) /\ Table \subseteq Nat
                       /\ IsFiniteSet(Used) /\ Cardinality(Used) \in Nat
<1>1. IsFiniteSet(Table) /\ Table \subseteq Nat
  BY FS_Interval, ServerAssumption DEF Table
<1>2. Used \subseteq Table
  BY DEF Used
<1>3. IsFiniteSet(Used)
  BY <1>1, <1>2, FS_Subset
<1> QED
  BY <1>1, <1>3, FS_CardinalityType

\* Every address with a slot has one in use.
LEMMA SlotOfIsUsed ==
  ASSUME NEW a, Has(a)
  PROVE  SlotOf(a) \in Used /\ slot[SlotOf(a)].addr = a
<1> DEFINE S == {i \in Used : slot[i].addr = a}
<1>1. S # {} /\ S \subseteq Nat
  BY TableIsFinite DEF Has, Used
<1>2. PICK i \in S : \A j \in S : i <= j
  BY <1>1, Least
<1>3. \E k \in Used : slot[k].addr = a /\ \A j \in Used : slot[j].addr = a => k <= j
  BY <1>2
<1> QED
  BY <1>3 DEF SlotOf

LEMMA FreeSlotIsFree ==
  ASSUME ~Full
  PROVE  FreeSlot \in Table /\ FreeSlot \notin Used
<1>1. Table \ Used # {} /\ Table \ Used \subseteq Nat
  BY TableIsFinite DEF Full, Used
<1>2. \E i \in Table \ Used : \A j \in Table \ Used : i <= j
  BY <1>1, Least
<1> QED
  BY <1>2 DEF FreeSlot

\* A datagram that drops nobody's session.
Quiet(m) == m.kind # "RST" \/ m.reason = "REFUSED" \/ m.session = None

LEMMA OnlyInv ==
  ASSUME LInv, NEW m, Only(m), Quiet(m)
  PROVE  LInv'
<1>1. slot' = slot /\ issued' = issued /\ out' = {m} /\ Used' = Used
  BY DEF Only, Used
<1>2. FinalRstMeansClosed'
  BY <1>1 DEF Quiet, FinalRstMeansClosed
<1>3. SlotsAreDistinct'
  BY <1>1 DEF LInv, SlotsAreDistinct
<1> QED
  BY <1>1, <1>2, <1>3 DEF LInv, Whose

LEMMA ReleaseInv ==
  ASSUME LInv, NEW i \in Used, NEW m, Release(i, m), m.session = slot[i].session
  PROVE  LInv'
<1>1. /\ slot' = [slot EXCEPT ![i] = Released] /\ issued' = issued /\ out' = {m}
      /\ i \in Table /\ slot \in [Table -> SlotType]
  BY DEF Release, Used, LInv
<1>2. slot'[i] = Released /\ \A j \in Table : j # i => slot'[j] = slot[j]
  BY <1>1
<1>3. Used' = Used \ {i}
  BY <1>1, <1>2, ReleasedConsistent DEF Used
<1>4. slot' \in [Table -> SlotType]
  BY <1>1, ReleasedConsistent DEF Consistent
<1>5. \A j \in Table : Consistent(slot'[j])
  BY <1>2, ReleasedConsistent DEF LInv
<1>6. Cardinality(Used') <= MAX_CLIENTS
  <2>1. Cardinality(Used) <= MAX_CLIENTS /\ Cardinality(Used) \in Nat /\ IsFiniteSet(Used)
    BY TableIsFinite DEF LInv, SlotsAreDistinct
  <2>2. Cardinality(Used \ {i}) = Cardinality(Used) - 1
    BY <2>1, FS_RemoveElement
  <2> QED
    BY <1>3, <2>1, <2>2, ServerAssumption
<1>7. \A j \in Used' : j \in Used /\ j # i /\ slot'[j] = slot[j]
  BY <1>2, <1>3 DEF Used
<1>8. SlotsAreDistinct'
  BY <1>6, <1>7 DEF LInv, SlotsAreDistinct
<1>9. FinalRstMeansClosed'
  BY <1>1, <1>7 DEF LInv, SlotsAreDistinct, FinalRstMeansClosed
<1>10. Whose'
  BY <1>1, <1>7 DEF LInv, Whose
<1> QED
  BY <1>4, <1>5, <1>8, <1>9, <1>10 DEF LInv, Consistent

LEMMA UpdateInv ==
  ASSUME LInv, NEW i \in Used, NEW c, Consistent(c), c.used, c.addr = slot[i].addr,
         c.nonce = slot[i].nonce, c.session = slot[i].session,
         slot' = [slot EXCEPT ![i] = c], issued' = issued,
         NEW m, out' = {m}, m.kind # "RST"
  PROVE  LInv'
<1>1. i \in Table /\ slot \in [Table -> SlotType] /\ slot[i].used
  BY DEF Used, LInv
<1>2. slot'[i] = c /\ \A j \in Table : j # i => slot'[j] = slot[j]
  BY <1>1
<1>3. Used' = Used
  BY <1>1, <1>2 DEF Used
<1>4. slot' \in [Table -> SlotType]
  BY <1>1 DEF Consistent
<1>5. \A j \in Table : Consistent(slot'[j])
  BY <1>2 DEF LInv
<1>6. \A j \in Used : /\ slot'[j].addr = slot[j].addr /\ slot'[j].nonce = slot[j].nonce
                      /\ slot'[j].session = slot[j].session
  BY <1>2 DEF Used
<1>7. SlotsAreDistinct'
  BY <1>3, <1>6 DEF LInv, SlotsAreDistinct
<1>8. FinalRstMeansClosed'
  BY DEF FinalRstMeansClosed
<1>9. Whose'
  BY <1>3, <1>6 DEF LInv, Whose
<1> QED
  BY <1>4, <1>5, <1>7, <1>8, <1>9 DEF LInv, Consistent

\* A session that accepts datagram q stays consistent if no request of rs was
\* answered before, and none that the new evidence state e waits for was.
LEMMA CountedConsistent ==
  ASSUME NEW c, Consistent(c), NEW q \in 0..SEQ_MAX, SeqReason(c.window, q) = "OK",
         NEW e \in EvidenceType, NEW rs \in SUBSET RequestIds,
         e.pending => e.request = e.last,
         \A r \in rs : /\ c.past.answered[r] = 0 /\ r <= e.last
                       /\ ~(e.pending /\ e.request = r),
         \A r \in RequestIds : r > e.last \/ (e.pending /\ e.request = r)
                               => c.past.answered[r] = 0
  PROVE  Consistent([c EXCEPT !.evidence = e, !.idle = 0, !.past = Counted(@, q, rs),
                              !.window = SeqAdvance(c.window, q)])
<1> DEFINE p == Counted(c.past, q, rs)
           w == SeqAdvance(c.window, q)
           d == [c EXCEPT !.evidence = e, !.idle = 0, !.past = p, !.window = w]
<1>1. c \in SlotType /\ c.past \in PastType /\ Sound(c.window, c.past.taken, c.past.count)
  BY DEF Consistent, SlotType
<1>2. /\ Sound(w, c.past.taken \cup {q}, c.past.count + 1) /\ q \in 1..(SEQ_MAX - 1)
  BY <1>1, AdvanceSound
<1>3. /\ c.past.taken \subseteq 1..(SEQ_MAX - 1) /\ c.past.count \in Nat
      /\ c.past.answered \in [RequestIds -> Nat]
  BY <1>1 DEF PastType
<1>4. /\ p.taken = c.past.taken \cup {q} /\ p.count = c.past.count + 1
      /\ p.answered \in [RequestIds -> Nat]
      /\ \A r \in RequestIds :
           p.answered[r] = c.past.answered[r] + IF r \in rs THEN 1 ELSE 0
  BY <1>3 DEF Counted
<1>5. p \in PastType
  BY <1>2, <1>3, <1>4 DEF PastType, Counted
<1>6. w \in Window
  BY <1>2 DEF Sound
<1> HIDE DEF p, w
<1>7. /\ d \in SlotType /\ d.past = p /\ d.window = w /\ d.evidence = e
  BY <1>1, <1>5, <1>6 DEF SlotType
<1> HIDE DEF d
<1>8. Unanswered(d)
  <2>1. \A r \in RequestIds : c.past.answered[r] <= 1 /\ c.past.answered[r] \in Nat
    BY <1>3 DEF Consistent, Unanswered
  <2>2. RequestIds \subseteq Nat /\ e.last \in Nat
    BY ServerAssumption DEF EvidenceType
  <2>3. ASSUME NEW r \in RequestIds
        PROVE  /\ p.answered[r] <= 1
               /\ r > e.last => p.answered[r] = 0
               /\ e.pending /\ e.request = r => p.answered[r] = 0
    <3>1. CASE r \in rs
      BY <1>4, <2>1, <2>2, <3>1
    <3>2. CASE r \notin rs
      BY <1>4, <2>1, <2>2, <3>2
    <3> QED
      BY <3>1, <3>2
  <2> QED
    BY <1>7, <2>3 DEF Unanswered
<1>9. Consistent(d)
  BY <1>2, <1>4, <1>7, <1>8 DEF Consistent
<1> QED
  BY <1>9 DEF d, p, w

LEMMA OlderConsistent ==
  ASSUME NEW c, Consistent(c)
  PROVE  /\ Consistent(Older(c))
         /\ Older(c).used = c.used /\ Older(c).addr = c.addr /\ Older(c).nonce = c.nonce
         /\ Older(c).session = c.session
<1> DEFINE l == IF c.evidence.left > 0 THEN c.evidence.left - 1 ELSE 0
           e == [c.evidence EXCEPT !.left = l]
           n == c.idle + 1
<1>1. c \in SlotType /\ c.evidence \in EvidenceType /\ c.idle \in Nat
  BY DEF Consistent, SlotType
<1>2. l \in Nat /\ n \in Nat
  BY <1>1 DEF EvidenceType
<1> HIDE DEF l, n
<1>3. /\ e \in EvidenceType /\ e.pending = c.evidence.pending
      /\ e.request = c.evidence.request /\ e.last = c.evidence.last
  BY <1>1, <1>2 DEF EvidenceType
<1> HIDE DEF e
<1>4. Older(c) = [c EXCEPT !.idle = n, !.evidence = e]
  BY <1>1 DEF Older, l, e, n, SlotType
<1>5. /\ Older(c) \in SlotType /\ Older(c).evidence = e /\ Older(c).past = c.past
      /\ Older(c).window = c.window
      /\ Older(c).used = c.used /\ Older(c).addr = c.addr /\ Older(c).nonce = c.nonce
      /\ Older(c).session = c.session
  BY <1>1, <1>2, <1>3, <1>4 DEF SlotType
<1>6. Unanswered(Older(c))
  BY <1>3, <1>5 DEF Consistent, Unanswered
<1> QED
  BY <1>5, <1>6 DEF Consistent

LEMMA HelloOpenInv ==
  ASSUME LInv, NEW a \in Addrs, NEW n \in Nonces, HelloOpen(a, n)
  PROVE  LInv'
<1> DEFINE x == NewSession
           f == FreeSlot
           c == [Released EXCEPT !.used = TRUE, !.addr = a, !.nonce = n, !.session = x]
<1>1. /\ ~Has(a) /\ ~Full /\ \A i \in Used : slot[i].nonce # n
      /\ Sessions \ issued # {} /\ issued' = issued \cup {c.session}
      /\ slot' = [slot EXCEPT ![f] = c] /\ out' = {Ack(c)}
  BY DEF HelloOpen, Opened
<1>2. x \in Sessions \ issued
  BY <1>1 DEF NewSession
<1>3. f \in Table /\ f \notin Used
  BY <1>1, FreeSlotIsFree
<1> HIDE DEF x, f
<1>4. /\ c \in SlotType /\ c.used /\ c.addr = a /\ c.nonce = n /\ c.session = x
      /\ c.window = Released.window /\ c.past = Released.past
      /\ c.evidence = Released.evidence
  BY <1>2, ReleasedConsistent DEF Consistent, SlotType
<1>5. Consistent(c)
  BY <1>4, ReleasedConsistent DEF Consistent, Unanswered
<1> HIDE DEF c
<1>6. slot \in [Table -> SlotType] /\ slot' \in [Table -> SlotType]
  BY <1>1, <1>4 DEF LInv
<1>7. slot'[f] = c /\ \A j \in Table : j # f => slot'[j] = slot[j]
  BY <1>1, <1>3, <1>6
<1>8. Used' = Used \cup {f}
  BY <1>3, <1>4, <1>7 DEF Used
<1>9. \A j \in Used : slot'[j] = slot[j] /\ j # f
  BY <1>3, <1>7 DEF Used
<1>10. Cardinality(Used') <= MAX_CLIENTS
  <2>1. Cardinality(Used \cup {f}) = Cardinality(Used) + 1
    BY <1>3, TableIsFinite, FS_AddElement
  <2>2. Cardinality(Used) < MAX_CLIENTS
    BY <1>1, TableIsFinite, ServerAssumption DEF Full
  <2> QED
    BY <1>8, <2>1, <2>2, TableIsFinite, ServerAssumption
<1>11. \A j \in Used : /\ slot[j].addr # a /\ slot[j].nonce # n /\ slot[j].session # x
  BY <1>1, <1>2 DEF Has, LInv, Whose
<1>12. SlotsAreDistinct'
  <2>1. ASSUME NEW i \in Used', NEW j \in Used', i # j
        PROVE  /\ slot'[i].addr # slot'[j].addr /\ slot'[i].nonce # slot'[j].nonce
               /\ slot'[i].session # slot'[j].session
    BY <1>4, <1>7, <1>8, <1>9, <1>11, <2>1 DEF LInv, SlotsAreDistinct
  <2> QED
    BY <1>10, <2>1 DEF SlotsAreDistinct
<1>13. FinalRstMeansClosed'
  BY <1>1 DEF FinalRstMeansClosed, Ack, Said
<1>14. Whose'
  BY <1>1, <1>4, <1>7, <1>8, <1>9 DEF LInv, Whose
<1>15. \A j \in Table : Consistent(slot'[j])
  BY <1>5, <1>7 DEF LInv
<1> QED
  BY <1>6, <1>12, <1>13, <1>14, <1>15 DEF LInv, Consistent

LEMMA PollInv ==
  ASSUME LInv, Poll
  PROVE  LInv'
<1>1. \A j \in Table : slot'[j] = IF TimedOut(slot[j]) THEN Released
                                  ELSE IF slot[j].used THEN Older(slot[j]) ELSE slot[j]
  BY DEF Poll
<1>2. \A j \in Table : Consistent(slot'[j])
  BY <1>1, ReleasedConsistent, OlderConsistent DEF LInv
<1>3. slot' \in [Table -> SlotType]
  BY <1>2 DEF Poll, Consistent
<1>4. \A j \in Used' :
        /\ j \in Used /\ ~TimedOut(slot[j])
        /\ slot'[j].addr = slot[j].addr /\ slot'[j].nonce = slot[j].nonce
        /\ slot'[j].session = slot[j].session
  BY <1>1, ReleasedConsistent, OlderConsistent DEF LInv, Used
<1>5. Cardinality(Used') <= MAX_CLIENTS
  <2>1. Used' \subseteq Used
    BY <1>4
  <2>2. Cardinality(Used') <= Cardinality(Used) /\ IsFiniteSet(Used')
    BY <2>1, TableIsFinite, FS_Subset
  <2>3. Cardinality(Used') \in Nat
    BY <2>2, FS_CardinalityType
  <2> QED
    BY <2>2, <2>3, TableIsFinite, ServerAssumption DEF LInv, SlotsAreDistinct
<1>6. SlotsAreDistinct'
  BY <1>4, <1>5 DEF LInv, SlotsAreDistinct
<1>7. FinalRstMeansClosed'
  <2> SUFFICES ASSUME NEW i \in Table, TimedOut(slot[i]), NEW j \in Used'
               PROVE  slot'[j].session # slot[i].session
    BY DEF Poll, Rst, Said, FinalRstMeansClosed
  <2>1. i \in Used /\ j \in Used /\ i # j
    BY <1>4 DEF TimedOut, Used
  <2> QED
    BY <1>4, <2>1 DEF LInv, SlotsAreDistinct
<1>8. Whose'
  BY <1>4 DEF Poll, LInv, Whose
<1> QED
  BY <1>2, <1>3, <1>6, <1>7, <1>8 DEF LInv, Consistent

LEMMA StopInv ==
  ASSUME LInv, Stop
  PROVE  LInv'
<1>1. slot' = [i \in Table |-> Released]
  BY DEF Stop
<1>2. slot' \in [Table -> SlotType] /\ \A j \in Table : Consistent(slot'[j])
  BY <1>1, ReleasedConsistent DEF Consistent
<1>3. Used' = {}
  BY <1>1, ReleasedConsistent DEF Used
<1>4. Cardinality(Used') <= MAX_CLIENTS
  BY <1>3, FS_EmptySet, ServerAssumption
<1> QED
  BY <1>2, <1>3, <1>4 DEF LInv, Consistent, Whose, SlotsAreDistinct, FinalRstMeansClosed

LEMMA PingInv ==
  ASSUME LInv, NEW a \in Addrs, NEW q \in 0..SEQ_MAX, Ping(a, q)
  PROVE  LInv'
<1>1. Has(a)
  BY DEF Ping
<1> PICK i \in Used : i = SlotOf(a)
  BY <1>1, SlotOfIsUsed
<1> DEFINE c == slot[i]
           reason == SeqReason(c.window, q)
<1>2. \/ /\ reason = "OK"
         /\ slot' = [slot EXCEPT ![i].window = SeqAdvance(c.window, q), ![i].idle = 0,
                                 ![i].past = Counted(@, q, {})]
         /\ out' = {Pong(i)} /\ UNCHANGED issued
      \/ reason = "CLOSING" /\ Release(i, Rst(i, reason))
      \/ reason \in {"BAD_SEQ", "REPLAY"} /\ Only(Rst(i, reason))
  BY DEF Ping
<1>3. /\ i \in Table /\ slot \in [Table -> SlotType] /\ Consistent(c) /\ c \in SlotType
      /\ c.used
  BY DEF Used, LInv
<1>4. CASE reason = "OK"
  <2> DEFINE d == [c EXCEPT !.evidence = c.evidence, !.idle = 0, !.past = Counted(@, q, {}),
                            !.window = SeqAdvance(c.window, q)]
  <2>1. c.evidence \in EvidenceType /\ (c.evidence.pending => c.evidence.request = c.evidence.last)
    BY <1>3 DEF SlotType, Consistent, Unanswered
  <2>2. Consistent(d)
    <3> HIDE DEF c
    <3>1. \A r \in RequestIds :
             r > c.evidence.last \/ (c.evidence.pending /\ c.evidence.request = r)
             => c.past.answered[r] = 0
      BY <1>3 DEF Consistent, Unanswered
    <3> QED
      BY <1>3, <1>4, <2>1, <3>1, CountedConsistent
  <2>3. slot' = [slot EXCEPT ![i] = d]
    <3>1. d = [c EXCEPT !.window = SeqAdvance(c.window, q), !.idle = 0,
                        !.past = Counted(@, q, {})]
      BY <1>3 DEF SlotType
    <3> HIDE DEF d
    <3>2. slot' = [slot EXCEPT ![i].window = SeqAdvance(c.window, q), ![i].idle = 0,
                               ![i].past = Counted(@, q, {})]
      BY <1>2, <1>4
    <3> QED
      BY <1>3, <3>1, <3>2
  <2>4. d.used /\ d.addr = c.addr /\ d.nonce = c.nonce /\ d.session = c.session
    BY <1>3 DEF SlotType
  <2>5. out' = {Pong(i)} /\ Pong(i).kind # "RST" /\ issued' = issued
    BY <1>2, <1>4 DEF Pong, Said
  <2> HIDE DEF d
  <2> QED
    BY <2>2, <2>3, <2>4, <2>5, UpdateInv
<1>5. CASE reason = "CLOSING"
  BY <1>2, <1>5, ReleaseInv DEF Rst, Said
<1>6. CASE reason \in {"BAD_SEQ", "REPLAY"}
  <2>1. Quiet(Rst(i, reason))
    BY <1>6 DEF Quiet, Rst, Said, FinalReasons
  <2> QED
    BY <1>2, <1>6, <2>1, OnlyInv
<1> QED
  BY <1>2, <1>4, <1>5, <1>6

\* do_evidence, given what makes its new evidence state e a fitting one.
LEMMA EvidenceInv ==
  ASSUME LInv, NEW a \in Addrs, Has(a), NEW policy, NEW e \in EvidenceType,
         NEW rs \in SUBSET RequestIds, Evidence(a, policy, e, rs),
         policy = "OK" =>
           LET c == slot[SlotOf(a)] IN
           /\ e.pending => e.request = e.last
           /\ \A r \in rs : /\ c.past.answered[r] = 0 /\ r <= e.last
                            /\ ~(e.pending /\ e.request = r)
           /\ \A r \in RequestIds : r > e.last \/ (e.pending /\ e.request = r)
                                    => c.past.answered[r] = 0
  PROVE  LInv'
<1> PICK i \in Used : i = SlotOf(a)
  BY SlotOfIsUsed
<1> DEFINE c == slot[i]
<1>1. /\ i \in Table /\ slot \in [Table -> SlotType] /\ Consistent(c) /\ c \in SlotType
      /\ c.used
  BY DEF Used, LInv
<1>2. ASSUME NEW reason, Only(Decision(i, reason)) PROVE LInv'
  BY <1>2, OnlyInv DEF Quiet, Decision, Said
<1>3. ASSUME policy = "OK", NEW q \in 0..SEQ_MAX, SeqReason(c.window, q) = "OK",
             Accepted(i, q, e, rs), out' = {Decision(i, "OK")}
      PROVE  LInv'
  <2> DEFINE d == [c EXCEPT !.evidence = e, !.idle = 0, !.past = Counted(@, q, rs),
                            !.window = SeqAdvance(c.window, q)]
  <2>1. Consistent(d)
    <3> HIDE DEF c
    <3>1. /\ e.pending => e.request = e.last
          /\ \A r \in rs : /\ c.past.answered[r] = 0 /\ r <= e.last
                           /\ ~(e.pending /\ e.request = r)
          /\ \A r \in RequestIds : r > e.last \/ (e.pending /\ e.request = r)
                                   => c.past.answered[r] = 0
      BY <1>3 DEF c
    <3> QED
      BY <1>1, <1>3, <3>1, CountedConsistent
  <2>2. slot' = [slot EXCEPT ![i] = d] /\ issued' = issued
    BY <1>1, <1>3 DEF Accepted, SlotType
  <2>3. d.used /\ d.addr = c.addr /\ d.nonce = c.nonce /\ d.session = c.session
    BY <1>1 DEF SlotType
  <2>4. Decision(i, "OK").kind # "RST"
    BY DEF Decision, Said
  <2> HIDE DEF d
  <2> QED
    BY <1>3, <2>1, <2>2, <2>3, <2>4, UpdateInv
<1>4. ASSUME NEW reason, Refused(i, reason) PROVE LInv'
  <2>1. CASE reason = "CLOSING"
    BY <1>4, <2>1, ReleaseInv DEF Refused, Decision, Said
  <2>2. CASE reason # "CLOSING"
    BY <1>2, <1>4, <2>2 DEF Refused
  <2> QED
    BY <2>1, <2>2
<1> QED
  BY <1>2, <1>3, <1>4 DEF Evidence

LEMMA RequestInv ==
  ASSUME LInv, NEW a \in Addrs, NEW r \in RequestIds, NEW good \in BOOLEAN,
         Request(a, r, good)
  PROVE  LInv'
<1> DEFINE e == [pending |-> TRUE, request |-> r, last |-> r, left |-> REQUEST_TIME]
           c == slot[SlotOf(a)]
           policy == RequestReason(c, r, good)
<1>1. Has(a) /\ Evidence(a, policy, e, {})
  BY DEF Request
<1>2. e \in EvidenceType /\ e.pending /\ e.request = r /\ e.last = r
  BY ServerAssumption DEF EvidenceType
<1>3. Consistent(c) /\ c.evidence.last \in Nat
  BY <1>1, SlotOfIsUsed DEF LInv, Used, SlotType, EvidenceType
<1>4. policy = "OK" => r > c.evidence.last
  BY <1>3, ServerAssumption DEF RequestReason
<1>5. policy = "OK" => \A s \in RequestIds : s >= r => c.past.answered[s] = 0
  <2> HIDE DEF c, policy
  <2> SUFFICES ASSUME policy = "OK", NEW s \in RequestIds, s >= r
               PROVE  c.past.answered[s] = 0
    OBVIOUS
  <2>1. s > c.evidence.last
    BY <1>3, <1>4, ServerAssumption
  <2> QED
    BY <1>3, <2>1 DEF Consistent, Unanswered
<1> HIDE DEF e, policy
<1> QED
  BY <1>1, <1>2, <1>5, EvidenceInv, ServerAssumption

LEMMA ObservationInv ==
  ASSUME LInv, NEW a \in Addrs, NEW r \in RequestIds, NEW good \in BOOLEAN,
         Observation(a, r, good)
  PROVE  LInv'
<1> DEFINE c == slot[SlotOf(a)]
           e == Answered(c.evidence)
           policy == ObservationReason(c, r, good)
<1>1. Has(a) /\ Evidence(a, policy, e, {r})
  BY DEF Observation
<1>2. Consistent(c) /\ c.evidence \in EvidenceType
  BY <1>1, SlotOfIsUsed DEF LInv, Used, SlotType
<1>3. e \in EvidenceType /\ ~e.pending /\ e.last = c.evidence.last
  BY <1>2 DEF EvidenceType, Answered
<1>4. policy = "OK" => c.evidence.pending /\ c.evidence.request = r
  BY DEF ObservationReason
<1>5. policy = "OK" => c.past.answered[r] = 0 /\ r <= e.last
  <2> HIDE DEF c, policy
  <2>1. r \in Nat
    BY ServerAssumption
  <2> QED
    BY <1>2, <1>3, <1>4, <2>1 DEF Consistent, Unanswered
<1>6. \A s \in RequestIds : s > e.last => c.past.answered[s] = 0
  BY <1>2, <1>3 DEF Consistent, Unanswered
<1> HIDE DEF e, policy
<1> QED
  BY <1>1, <1>3, <1>5, <1>6, EvidenceInv

LEMMA ReceiveInv ==
  ASSUME LInv, NEW a \in Addrs, Receive(a)
  PROVE  LInv'
<1>1. ASSUME NEW reason, Only(RstTo(a, reason)) PROVE LInv'
  BY <1>1, OnlyInv DEF Quiet, RstTo, Said
<1>2. CASE NewBusy(a) \/ NewRefused(a) \/ \E n \in Nonces : HelloDuplicate(a, n)
  BY <1>1, <1>2 DEF NewBusy, NewRefused, HelloDuplicate
<1>3. ASSUME NEW reason, reason \notin FinalReasons, Only(Rst(SlotOf(a), reason))
      PROVE  LInv'
  BY <1>3, OnlyInv DEF Quiet, Rst, Said
<1>4. ASSUME NEW reason, Only(Decision(SlotOf(a), reason)) PROVE LInv'
  BY <1>4, OnlyInv DEF Quiet, Decision, Said
<1>5. CASE OpenMalformed(a) \/ Foreign(a)
  BY <1>3, <1>4, <1>5 DEF OpenMalformed, Foreign, FinalReasons
<1>6. CASE \E n \in Nonces : HelloAgain(a, n)
  <2>1. Quiet(Ack(slot[SlotOf(a)]))
    BY DEF Quiet, Ack, Said
  <2> QED
    BY <1>3, <1>6, <2>1, OnlyInv DEF HelloAgain, FinalReasons
<1>7. CASE Bye(a)
  <2> PICK i \in Used : i = SlotOf(a)
    BY <1>7, SlotOfIsUsed DEF Bye
  <2> QED
    BY <1>7, ReleaseInv DEF Bye, Rst, Said
<1> QED
  BY <1>2, <1>5, <1>6, <1>7, HelloOpenInv, PingInv, RequestInv, ObservationInv
     DEF Receive

LEMMA NextInv == LInv /\ [LNext]_lvars => LInv'
<1> SUFFICES ASSUME LInv, [LNext]_lvars PROVE LInv'
  OBVIOUS
<1>1. CASE UNCHANGED lvars
  BY <1>1 DEF lvars, LInv, Whose, SlotsAreDistinct, FinalRstMeansClosed, Used
<1>2. CASE LNext
  BY <1>2, PollInv, ReceiveInv, StopInv DEF LNext, Loop
<1> QED
  BY <1>1, <1>2

-----------------------------------------------------------------------------
(* The theorems                                                            *)

\* The strengthened invariant holds in every reachable state.
THEOREM LabServerInvariant == LSpec => []LInv
BY InitInv, NextInv, PTL DEF LSpec

\* However HELLOs are repeated, delayed or lost, an address, a nonce and a session
\* belong to one slot at most, and no more than max_clients slots are in use.
THEOREM SlotsStayDistinct == LSpec => []SlotsAreDistinct
<1>1. LInv => SlotsAreDistinct
  BY DEF LInv
<1> QED
  BY <1>1, LabServerInvariant, PTL

\* A datagram that makes the relay and the client drop a session is only sent for
\* one the server has dropped: no slot holds it any more.
THEOREM DroppedIsDropped == LSpec => []FinalRstMeansClosed
<1>1. LInv => FinalRstMeansClosed
  BY DEF LInv
<1> QED
  BY <1>1, LabServerInvariant, PTL

\* The instantiated window speaks of this module's own operators.
LEMMA SameOperators ==
  ASSUME NEW i
  PROVE  /\ Numbers(i)!Window = Window
         /\ \A S : Numbers(i)!Cardinality(S) = Cardinality(S)
         /\ \A w, s : Numbers(i)!SeqReason(w, s) = SeqReason(w, s)
<1>1. Numbers(i)!Window = Window
  BY DEF Numbers!Window, Window
<1>2. ASSUME NEW S PROVE Numbers(i)!Cardinality(S) = Cardinality(S)
  BY Zenon DEF Numbers!Cardinality, Cardinality, Numbers!IsFiniteSet, IsFiniteSet
<1>3. ASSUME NEW w, NEW s PROVE Numbers(i)!SeqReason(w, s) = SeqReason(w, s)
  BY Zenon DEF Numbers!SeqReason, SeqReason
<1> QED
  BY <1>1, <1>2, <1>3

\* For every window, forward jump and last number: no session accepts a datagram
\* twice or refuses one that is only late, and no request is observed twice.
THEOREM DatagramsCountOnce == LSpec => []DatagramOnce
<1>1. LInv => DatagramOnce
  <2> SUFFICES ASSUME LInv, NEW i \in Table
               PROVE  /\ Numbers(i)!WTypeOK /\ Numbers(i)!AcceptedOnce
                      /\ Numbers(i)!LateIsAccepted
                      /\ \A r \in RequestIds : slot[i].past.answered[r] <= 1
    BY DEF DatagramOnce
  <2>1. Consistent(slot[i])
    BY DEF LInv
  <2>2. Sound(slot[i].window, slot[i].past.taken, slot[i].past.count)
    BY <2>1 DEF Consistent
  <2>3. Numbers(i)!WTypeOK /\ Numbers(i)!AcceptedOnce
    BY <2>2, SameOperators DEF Sound, Numbers!WTypeOK, Numbers!AcceptedOnce
  <2>4. Numbers(i)!LateIsAccepted
    <3> SUFFICES ASSUME NEW s \in 1..(slot[i].window.next - 1), s \notin slot[i].past.taken,
                        slot[i].window.next - s <= HISTORY, slot[i].window.next < SEQ_MAX
                 PROVE  SeqReason(slot[i].window, s) = "OK"
      BY SameOperators DEF Numbers!LateIsAccepted
    <3> QED
      BY <2>2, LateIsOk
  <2>5. \A r \in RequestIds : slot[i].past.answered[r] <= 1
    BY <2>1 DEF Consistent, Unanswered
  <2> QED
    BY <2>3, <2>4, <2>5
<1> QED
  BY <1>1, LabServerInvariant, PTL

-----------------------------------------------------------------------------
(* Every slot is a SequenceWindow, started again by each HELLO             *)

\* What a slot may do to its numbers in one step.
Kept(i) == slot'[i].window = slot[i].window /\ slot'[i].past = slot[i].past

Restarted(i) == slot'[i].window = FreshWindow /\ slot'[i].past = NoPast

Drew(i) == \E q \in 0..SEQ_MAX, rs \in SUBSET RequestIds :
             /\ SeqReason(slot[i].window, q) = "OK"
             /\ slot'[i].window = SeqAdvance(slot[i].window, q)
             /\ slot'[i].past = Counted(slot[i].past, q, rs)

Moved(i) == Kept(i) \/ Restarted(i) \/ Drew(i)

\* A slot only ever accepts a number its window allows, keeps what it has or starts
\* again with nothing: there is no other way to change the numbers of a session.
SlotsAreWindows ==
  [][\A i \in Table : \/ Numbers(i)!WNext \/ UNCHANGED Numbers(i)!wvars
                      \/ Numbers(i)!WInit']_lvars

LEMMA OneSlotMoves ==
  ASSUME LInv, NEW i \in Table, NEW c, slot' = [slot EXCEPT ![i] = c], Moved(i)
  PROVE  \A j \in Table : Moved(j)
<1> SUFFICES ASSUME NEW j \in Table, j # i PROVE Moved(j)
  OBVIOUS
<1>1. slot'[j] = slot[j]
  BY DEF LInv
<1> QED
  BY <1>1 DEF Moved, Kept

LEMMA ReleaseMoves ==
  ASSUME LInv, NEW i \in Used, NEW m, Release(i, m)
  PROVE  \A j \in Table : Moved(j)
<1>1. i \in Table /\ slot \in [Table -> SlotType] /\ slot' = [slot EXCEPT ![i] = Released]
  BY DEF LInv, Used, Release
<1>2. slot'[i] = Released
  BY <1>1
<1>3. Moved(i)
  BY <1>2 DEF Moved, Restarted, Released
<1> QED
  BY <1>1, <1>3, OneSlotMoves

LEMMA OnlyMoves ==
  ASSUME NEW m, Only(m)
  PROVE  \A j \in Table : Moved(j)
BY DEF Only, Moved, Kept

LEMMA EvidenceMoves ==
  ASSUME LInv, NEW a \in Addrs, Has(a), NEW policy, NEW e,
         NEW rs \in SUBSET RequestIds, Evidence(a, policy, e, rs)
  PROVE  \A j \in Table : Moved(j)
<1> PICK i \in Used : i = SlotOf(a)
  BY SlotOfIsUsed
<1>1. /\ i \in Table /\ slot \in [Table -> SlotType] /\ slot[i] \in SlotType
  BY DEF Used, LInv
<1>2. ASSUME NEW q \in 0..SEQ_MAX, SeqReason(slot[i].window, q) = "OK",
             Accepted(i, q, e, rs)
      PROVE  \A j \in Table : Moved(j)
  <2> DEFINE d == [slot[i] EXCEPT !.evidence = e, !.idle = 0, !.past = Counted(@, q, rs),
                                  !.window = SeqAdvance(slot[i].window, q)]
  <2>1. slot' = [slot EXCEPT ![i] = d] /\ slot'[i] = d
    BY <1>1, <1>2 DEF Accepted, SlotType
  <2>2. /\ d.window = SeqAdvance(slot[i].window, q) /\ d.past = Counted(slot[i].past, q, rs)
    BY <1>1 DEF SlotType
  <2>3. Moved(i)
    BY <1>2, <2>1, <2>2 DEF Moved, Drew
  <2> HIDE DEF d
  <2> QED
    BY <1>1, <2>1, <2>3, OneSlotMoves
<1>3. ASSUME NEW reason, Refused(i, reason) PROVE \A j \in Table : Moved(j)
  BY <1>3, ReleaseMoves, OnlyMoves DEF Refused
<1> QED
  BY <1>2, <1>3, OnlyMoves DEF Evidence

LEMMA PingMoves ==
  ASSUME LInv, NEW a \in Addrs, NEW q \in 0..SEQ_MAX, Ping(a, q)
  PROVE  \A j \in Table : Moved(j)
<1> PICK i \in Used : i = SlotOf(a)
  BY SlotOfIsUsed DEF Ping
<1>1. /\ i \in Table /\ slot \in [Table -> SlotType] /\ slot[i] \in SlotType
  BY DEF Used, LInv
<1> DEFINE d == [slot[i] EXCEPT !.window = SeqAdvance(slot[i].window, q), !.idle = 0,
                                !.past = Counted(@, q, {})]
<1>2. CASE SeqReason(slot[i].window, q) = "OK"
  <2>1. slot' = [slot EXCEPT ![i] = d] /\ slot'[i] = d
    BY <1>1, <1>2 DEF Ping, SlotType
  <2>2. /\ d.window = SeqAdvance(slot[i].window, q) /\ d.past = Counted(slot[i].past, q, {})
    BY <1>1 DEF SlotType
  <2>3. Moved(i)
    BY <1>2, <2>1, <2>2 DEF Moved, Drew
  <2> QED
    BY <1>1, <2>1, <2>3, OneSlotMoves
<1>3. CASE SeqReason(slot[i].window, q) # "OK"
  BY <1>3, ReleaseMoves, OnlyMoves DEF Ping
<1> QED
  BY <1>2, <1>3

LEMMA ReceiveMoves ==
  ASSUME LInv, NEW a \in Addrs, Receive(a)
  PROVE  \A j \in Table : Moved(j)
<1>1. ASSUME NEW n \in Nonces, HelloOpen(a, n) PROVE \A j \in Table : Moved(j)
  <2> PICK i \in Table : i = FreeSlot
    BY <1>1, FreeSlotIsFree DEF HelloOpen
  <2> DEFINE c == [Released EXCEPT !.used = TRUE, !.addr = a, !.nonce = n,
                                   !.session = NewSession]
  <2>1. slot' = [slot EXCEPT ![i] = c] /\ slot'[i] = c
    BY <1>1 DEF HelloOpen, Opened, LInv
  <2>2. c.window = FreshWindow /\ c.past = NoPast
    BY DEF Released
  <2> HIDE DEF c
  <2> QED
    BY <2>1, <2>2, OneSlotMoves DEF Moved, Restarted
<1>2. CASE Bye(a)
  <2> PICK i \in Used : i = SlotOf(a)
    BY <1>2, SlotOfIsUsed DEF Bye
  <2> QED
    BY <1>2, ReleaseMoves DEF Bye
<1>3. ASSUME NEW r \in RequestIds, NEW good \in BOOLEAN,
             Request(a, r, good) \/ Observation(a, r, good)
      PROVE  \A j \in Table : Moved(j)
  BY <1>3, EvidenceMoves DEF Request, Observation
<1> QED
  BY <1>1, <1>2, <1>3, PingMoves, OnlyMoves
     DEF Receive, NewBusy, NewRefused, OpenMalformed, Foreign, HelloDuplicate, HelloAgain

LEMMA AllMove == LInv /\ [LNext]_lvars => \A i \in Table : Moved(i)
<1> SUFFICES ASSUME LInv, [LNext]_lvars PROVE \A i \in Table : Moved(i)
  OBVIOUS
<1>1. CASE UNCHANGED lvars
  BY <1>1 DEF lvars, Moved, Kept
<1>2. CASE Poll
  <2> SUFFICES ASSUME NEW i \in Table PROVE Moved(i)
    OBVIOUS
  <2>1. slot'[i] = IF TimedOut(slot[i]) THEN Released
                   ELSE IF slot[i].used THEN Older(slot[i]) ELSE slot[i]
    BY <1>2 DEF Poll
  <2>2. Older(slot[i]).window = slot[i].window /\ Older(slot[i]).past = slot[i].past
    BY DEF LInv, SlotType, Older
  <2>3. Released.window = FreshWindow /\ Released.past = NoPast
    BY DEF Released
  <2> QED
    BY <2>1, <2>2, <2>3 DEF Moved, Kept, Restarted
<1>3. CASE Stop
  BY <1>3 DEF Stop, Released, Moved, Restarted
<1> QED
  BY <1>1, <1>2, <1>3, ReceiveMoves DEF LNext, Loop

\* Whatever the network does, each slot's numbers are those of a SequenceWindow that
\* every HELLO starts afresh: PING, REQUEST and OBSERVATION share it.
THEOREM SlotsRunWindows == LSpec => SlotsAreWindows
<1>1. LInv /\ [LNext]_lvars =>
        [\A i \in Table : \/ Numbers(i)!WNext \/ UNCHANGED Numbers(i)!wvars
                          \/ Numbers(i)!WInit']_lvars
  <2> SUFFICES ASSUME LInv, [LNext]_lvars, NEW i \in Table
               PROVE  \/ Numbers(i)!WNext \/ UNCHANGED Numbers(i)!wvars
                      \/ Numbers(i)!WInit'
    OBVIOUS
  <2>1. CASE Kept(i)
    BY <2>1 DEF Kept, Numbers!wvars
  <2>2. CASE Restarted(i)
    <3>1. Numbers(i)!FreshWindow = FreshWindow
      BY DEF Numbers!FreshWindow, FreshWindow
    <3> QED
      BY <2>2, <3>1 DEF Restarted, NoPast, Numbers!WInit
  <2>3. CASE Drew(i)
    <3>1. PICK q \in 0..SEQ_MAX, rs \in SUBSET RequestIds :
             /\ SeqReason(slot[i].window, q) = "OK"
             /\ slot'[i].window = SeqAdvance(slot[i].window, q)
             /\ slot'[i].past = Counted(slot[i].past, q, rs)
      BY <2>3 DEF Drew
    <3>2. Numbers(i)!SeqAdvance(slot[i].window, q) = SeqAdvance(slot[i].window, q)
      BY DEF Numbers!SeqAdvance, SeqAdvance
    <3>3. /\ slot'[i].past.taken = slot[i].past.taken \cup {q}
          /\ slot'[i].past.count = slot[i].past.count + 1
      BY <3>1 DEF Counted
    <3>4. Numbers(i)!AcceptSeq(q)
      BY <3>1, <3>2, <3>3, SameOperators DEF Numbers!AcceptSeq
    <3> QED
      BY <3>4 DEF Numbers!WNext
  <2> QED
    BY <2>1, <2>2, <2>3, AllMove DEF Moved
<1> QED
  BY <1>1, LabServerInvariant, PTL DEF LSpec, SlotsAreWindows
=============================================================================
