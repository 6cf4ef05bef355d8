------------------------- MODULE LabProcessesProofs -------------------------
(***************************************************************************)
(* The process manager for any number of managers and PIDs, and however    *)
(* many commands, processes and crashes there are.                         *)
(***************************************************************************)
EXTENDS LabProcesses, SequenceTheorems, TLAPS

(* The inductive invariant *)

Executables == {"lab_server", "lab_adapter"}
RecType == [pid : Pids, start : Nat, exe : Executables]
ProcType == [exe : Executables \cup {"none", "other"}, start : Nat,
             parent : SUBSET Managers, alive : BOOLEAN, own : BOOLEAN,
             signalled : BOOLEAN]
StopPcs == {"stop", "open", "held", "term", "kill"}
HeldPcs == StopPcs \cup {"spawn", "boot", "reap", "create", "replace"}
MgrType == [pc : HeldPcs \cup {"idle", "wait"}, cmd : {"none", "start", "status", "stop"},
            todo : Seq(RecType), started : Seq(RecType), pid : SUBSET Pids, fd : Nat]

PTypeOK == /\ proc \in [Pids -> ProcType]
           /\ clock \in Nat \ {0}
           /\ lock \subseteq Managers
           /\ disk \in Seq(RecType)
           /\ mgr \in [Managers -> MgrType]

\* Start ticks tell processes apart, for ever.
Ticks == /\ \A p \in Pids : proc[p].start < clock /\ (proc[p].start = 0 => proc[p] = Free)
         /\ \A p, q \in Pids : proc[p].start # 0 /\ proc[p].start = proc[q].start => p = q

\* A record is of one of the manager's own processes: whoever has its start ticks
\* is that process.
Genuine(r) == /\ r \in RecType /\ r.start # 0 /\ r.start < clock
              /\ \A p \in Pids : proc[p].start = r.start =>
                   p = r.pid /\ proc[p].own /\ proc[p].exe = r.exe

\* The process of a record does not run any more.
Gone(r) == \A p \in Pids : proc[p].start = r.start => ~proc[p].alive

\* Only the holder of the lock is past it.
Exclusive == \A m \in Managers : mgr[m].pc \in HeldPcs => lock = {m}

\* What a manager has in its hands fits where it is.
Fits(s) ==
  /\ s.pc \notin HeldPcs => s.started = <<>>
  /\ s.pc \in HeldPcs => s.cmd \in {"start", "stop"}
  /\ s.pc \in {"spawn", "boot", "reap"} => s.cmd = "start" /\ Len(s.started) <= 1
  /\ s.cmd # "start" => s.started = <<>>
  /\ s.pc \in StopPcs \ {"stop"} => s.todo # <<>>
  /\ Len(s.started) <= 2
  /\ \A k \in 1..Len(s.started) : s.started[k].exe = Binaries[k]

\* A child that is being started is a child of this manager, dead or alive.
Child(m, s) ==
  /\ s.pc \notin {"boot", "reap"} => s.pid = {}
  /\ s.pc \in {"boot", "reap"} =>
       \E p \in Pids : /\ s.pid = {p} /\ proc[p].own /\ proc[p].parent = {m}
                       /\ proc[p].start # 0
                       /\ proc[p].exe = Binaries[Len(s.started) + 1]

\* The records a manager at work is about to forget are of processes that are gone,
\* or are still on its list.
Left(s) == IF s.pc \in StopPcs THEN ToSet(s.todo) ELSE {}
Forgettable(s) ==
  s.pc \in HeldPcs =>
    /\ \A r \in ToSet(disk) : Gone(r) \/ (s.cmd = "stop" /\ r \in Left(s))
    /\ s.pc \in StopPcs => \A r \in ToSet(s.started) : Gone(r) \/ r \in Left(s)

\* The records in a manager's memory.
Known(s) == ToSet(s.started) \cup ToSet(s.todo)

PInv == /\ PTypeOK
        /\ Ticks
        /\ Exclusive
        /\ \A r \in ToSet(disk) : Genuine(r)
        /\ \A m \in Managers : /\ \A r \in Known(mgr[m]) : Genuine(r)
                               /\ Fits(mgr[m]) /\ Child(m, mgr[m]) /\ Forgettable(mgr[m])
        /\ OnlyOwnSignalled
        /\ Accounted
        /\ OneService

-----------------------------------------------------------------------------
(* Sequences of records                                                    *)

LEMMA EmptyToSet == ToSet(<<>>) = {}
BY DEF ToSet

LEMMA MemberToSet ==
  ASSUME NEW S, NEW s \in Seq(S)
  PROVE  ToSet(s) \subseteq S
BY DEF ToSet

LEMMA AppendToSet ==
  ASSUME NEW S, NEW s \in Seq(S), NEW x \in S
  PROVE  /\ Append(s, x) \in Seq(S) /\ Len(Append(s, x)) = Len(s) + 1
         /\ \A k \in 1..Len(s) : Append(s, x)[k] = s[k]
         /\ Append(s, x)[Len(s) + 1] = x
         /\ ToSet(Append(s, x)) = ToSet(s) \cup {x}
<1>1. /\ Append(s, x) \in Seq(S) /\ Len(Append(s, x)) = Len(s) + 1 /\ Len(s) \in Nat
      /\ \A k \in 1..Len(s) : Append(s, x)[k] = s[k]
      /\ Append(s, x)[Len(s) + 1] = x
  OBVIOUS
<1>2. DOMAIN Append(s, x) = 1..(Len(s) + 1) /\ DOMAIN s = 1..Len(s)
  OBVIOUS
<1>3. ASSUME NEW y \in ToSet(Append(s, x)) PROVE y \in ToSet(s) \cup {x}
  <2>1. PICK k \in 1..(Len(s) + 1) : y = Append(s, x)[k]
    BY <1>2 DEF ToSet
  <2>2. CASE k = Len(s) + 1
    BY <1>1, <2>1, <2>2
  <2>3. CASE k # Len(s) + 1
    BY <1>1, <1>2, <2>1, <2>3 DEF ToSet
  <2> QED
    BY <2>2, <2>3
<1>4. ToSet(s) \subseteq ToSet(Append(s, x))
  <2> SUFFICES ASSUME NEW k \in 1..Len(s) PROVE s[k] \in ToSet(Append(s, x))
    BY <1>2 DEF ToSet
  <2>1. k \in DOMAIN Append(s, x) /\ s[k] = Append(s, x)[k]
    BY <1>1, <1>2
  <2> QED
    BY <2>1 DEF ToSet
<1>5. x \in ToSet(Append(s, x))
  <2>1. Len(s) + 1 \in DOMAIN Append(s, x)
    BY <1>1, <1>2
  <2> QED
    BY <1>1, <2>1 DEF ToSet
<1> QED
  BY <1>1, <1>3, <1>4, <1>5

LEMMA ReverseToSet ==
  ASSUME NEW S, NEW s \in Seq(S)
  PROVE  Reverse(s) \in Seq(S) /\ ToSet(Reverse(s)) = ToSet(s)
<1>1. /\ Reverse(s) \in Seq(S) /\ Len(s) \in Nat /\ DOMAIN s = 1..Len(s)
      /\ DOMAIN Reverse(s) = 1..Len(s)
      /\ \A k \in 1..Len(s) : Reverse(s)[k] = s[(Len(s) - k) + 1]
  BY DEF Reverse
<1>2. \A k \in 1..Len(s) : (Len(s) - k) + 1 \in 1..Len(s)
  BY <1>1
<1>3. ToSet(Reverse(s)) \subseteq ToSet(s)
  BY <1>1, <1>2 DEF ToSet
<1>4. ToSet(s) \subseteq ToSet(Reverse(s))
  <2> SUFFICES ASSUME NEW k \in 1..Len(s) PROVE s[k] \in ToSet(Reverse(s))
    BY <1>1 DEF ToSet
  <2> DEFINE j == (Len(s) - k) + 1
  <2>1. j \in 1..Len(s) /\ (Len(s) - j) + 1 = k
    BY <1>1
  <2>2. Reverse(s)[j] = s[k]
    BY <1>1, <2>1
  <2> HIDE DEF j
  <2> QED
    BY <1>1, <2>1, <2>2 DEF ToSet
<1> QED
  BY <1>1, <1>3, <1>4

LEMMA TailToSet ==
  ASSUME NEW S, NEW s \in Seq(S), s # <<>>
  PROVE  /\ Head(s) \in S /\ Tail(s) \in Seq(S)
         /\ Head(s) \in ToSet(s) /\ ToSet(Tail(s)) \subseteq ToSet(s)
         /\ \A x \in ToSet(s) : x = Head(s) \/ x \in ToSet(Tail(s))
<1>1. /\ Len(s) \in Nat /\ Len(s) > 0 /\ DOMAIN s = 1..Len(s)
      /\ Head(s) = s[1] /\ Tail(s) \in Seq(S) /\ Len(Tail(s)) = Len(s) - 1
      /\ DOMAIN Tail(s) = 1..(Len(s) - 1)
      /\ \A k \in 1..(Len(s) - 1) : Tail(s)[k] = s[k + 1]
  OBVIOUS
<1>2. Head(s) \in S /\ Head(s) \in ToSet(s)
  BY <1>1 DEF ToSet
<1>3. ToSet(Tail(s)) \subseteq ToSet(s)
  <2> SUFFICES ASSUME NEW k \in 1..(Len(s) - 1) PROVE s[k + 1] \in ToSet(s)
    BY <1>1 DEF ToSet
  <2>1. k + 1 \in 1..Len(s)
    BY <1>1
  <2> QED
    BY <1>1, <2>1 DEF ToSet
<1>4. ASSUME NEW k \in 1..Len(s), k # 1 PROVE s[k] \in ToSet(Tail(s))
  <2>1. k - 1 \in 1..(Len(s) - 1) /\ Tail(s)[k - 1] = s[k]
    BY <1>1, <1>4
  <2> QED
    BY <1>1, <2>1 DEF ToSet
<1> QED
  BY <1>1, <1>2, <1>3, <1>4 DEF ToSet

-----------------------------------------------------------------------------
(* The process table                                                       *)

\* No process was born: one may have ended, or been signalled if it is our own.
Aged == /\ clock' = clock
        /\ proc' \in [Pids -> ProcType]
        /\ \A p \in Pids :
             \/ proc'[p] = Free \/ proc'[p] = proc[p]
             \/ /\ proc'[p].start = proc[p].start /\ proc[p].start # 0
                /\ proc'[p].exe = proc[p].exe /\ proc'[p].own = proc[p].own
                /\ proc'[p].alive => proc[p].alive
                /\ proc'[p].signalled => proc[p].signalled \/ proc[p].own

\* Process q was born.
Born(q) == /\ clock' = clock + 1 /\ proc[q] = Free
           /\ proc' \in [Pids -> ProcType]
           /\ proc'[q].start = clock /\ ~proc'[q].signalled
           /\ \A p \in Pids : p # q => proc'[p] = proc[p]

LEMMA AgedTable ==
  ASSUME PInv, Aged
  PROVE  /\ Ticks' /\ OnlyOwnSignalled'
         /\ \A r : Genuine(r) => Genuine(r)' /\ (Gone(r) => Gone(r)')
<1>1. /\ proc \in [Pids -> ProcType] /\ proc' \in [Pids -> ProcType] /\ clock \in Nat
      /\ clock' = clock /\ Ticks /\ OnlyOwnSignalled
  BY DEF PInv, PTypeOK, Aged
<1>2. Free.start = 0 /\ ~Free.signalled /\ ~Free.alive
  BY DEF Free
<1>3. ASSUME NEW p \in Pids
      PROVE  \/ proc'[p] = Free
             \/ /\ proc'[p].start = proc[p].start /\ proc[p].start # 0
                /\ proc'[p].exe = proc[p].exe /\ proc'[p].own = proc[p].own
                /\ proc'[p].alive => proc[p].alive
                /\ proc'[p].signalled => proc[p].own
  BY <1>1 DEF Aged, Ticks, OnlyOwnSignalled
<1>4. Ticks'
  <2>1. \A p \in Pids : proc'[p].start < clock'
    BY <1>1, <1>2, <1>3 DEF Ticks, PInv, PTypeOK
  <2>2. \A p \in Pids : proc'[p].start = 0 => proc'[p] = Free
    BY <1>3
  <2>3. ASSUME NEW p \in Pids, NEW q \in Pids, proc'[p].start # 0,
               proc'[p].start = proc'[q].start
        PROVE  p = q
    <3>1. proc'[p] # Free /\ proc'[q] # Free
      BY <1>2, <2>3
    <3>2. proc[p].start = proc[q].start /\ proc[p].start # 0
      BY <1>3, <2>3, <3>1
    <3> QED
      BY <1>1, <3>2 DEF Ticks
  <2> QED
    BY <2>1, <2>2, <2>3 DEF Ticks
<1>5. OnlyOwnSignalled'
  BY <1>2, <1>3 DEF OnlyOwnSignalled
<1>6. ASSUME NEW r, Genuine(r) PROVE Genuine(r)' /\ (Gone(r) => Gone(r)')
  BY <1>1, <1>2, <1>3, <1>6 DEF Genuine, Gone
<1> QED
  BY <1>4, <1>5, <1>6

LEMMA BornTable ==
  ASSUME PInv, NEW q \in Pids, Born(q)
  PROVE  /\ Ticks' /\ OnlyOwnSignalled' /\ clock' \in Nat \ {0}
         /\ \A r : Genuine(r) => Genuine(r)' /\ (Gone(r) => Gone(r)')
<1>1. /\ proc \in [Pids -> ProcType] /\ proc' \in [Pids -> ProcType]
      /\ clock \in Nat \ {0} /\ clock' = clock + 1 /\ Ticks /\ OnlyOwnSignalled
      /\ proc'[q].start = clock /\ ~proc'[q].signalled
      /\ \A p \in Pids : p # q => proc'[p] = proc[p]
  BY DEF PInv, PTypeOK, Born
<1>2. \A p \in Pids : proc[p].start \in Nat
  BY <1>1 DEF ProcType
<1>3. Ticks'
  BY <1>1, <1>2 DEF Ticks
<1>4. OnlyOwnSignalled'
  BY <1>1 DEF OnlyOwnSignalled
<1>5. ASSUME NEW r, Genuine(r) PROVE Genuine(r)' /\ (Gone(r) => Gone(r)')
  <2>1. r.start # clock
    BY <1>1, <1>5 DEF Genuine
  <2>2. r.start < clock'
    <3>1. r.start < clock /\ clock' = clock + 1 /\ clock \in Nat
      BY <1>1, <1>5 DEF Genuine
    <3>2. r.start \in Nat
      BY <1>5 DEF Genuine, RecType
    <3> QED
      BY <3>1, <3>2
  <2> QED
    BY <1>1, <1>5, <2>1, <2>2 DEF Genuine, Gone
<1> QED
  BY <1>1, <1>3, <1>4, <1>5

-----------------------------------------------------------------------------
(* A step of one manager that starts no process                            *)

\* The manager in state s has process p in its hands.
Hand(s, p) == p \in s.pid \/ \E r \in ToSet(s.started) : r.start = proc[p].start

\* The children of manager n stay its children, and those of all but m theirs.
Kept(n) == \A p \in Pids : proc[p].parent = {n} /\ proc[p].start # 0 =>
    /\ proc'[p].parent = {n} /\ proc'[p].own = proc[p].own
    /\ proc'[p].start = proc[p].start /\ proc'[p].exe = proc[p].exe
OthersKept(m) == \A n \in Managers : n # m => Kept(n)

LEMMA OthersFit ==
  ASSUME PInv, NEW n \in Managers, mgr'[n] = mgr[n],
         Kept(n), disk' = disk \/ mgr[n].pc \notin HeldPcs,
         \A r : Genuine(r) => Genuine(r)' /\ (Gone(r) => Gone(r)')
  PROVE  /\ \A r \in Known(mgr'[n]) : Genuine(r)'
         /\ Fits(mgr'[n]) /\ Child(n, mgr[n])' /\ Forgettable(mgr[n])'
<1> PICK s : s = mgr[n]
  OBVIOUS
<1>1. /\ \A r \in Known(s) : Genuine(r)
      /\ Fits(s) /\ Child(n, s) /\ Forgettable(s) /\ \A r \in ToSet(disk) : Genuine(r)
  BY DEF PInv
<1>2. \A r \in Known(s) : Genuine(r)'
  BY <1>1
<1>3. Child(n, s)'
  BY <1>1 DEF Child, Kept
<1>4. Forgettable(s)'
  <2>1. CASE s.pc \notin HeldPcs
    BY <2>1 DEF Forgettable
  <2>2. CASE s.pc \in HeldPcs /\ disk' = disk
    BY <1>1, <1>2, <2>2 DEF Forgettable, Known
  <2> QED
    BY <2>1, <2>2
<1> QED
  BY <1>1, <1>2, <1>3, <1>4 DEF Child, Forgettable

LEMMA AgedOneService ==
  ASSUME PInv, Aged, abandoned \subseteq abandoned'
  PROVE  OneService'
<1> SUFFICES ASSUME NEW p \in Pids, NEW q \in Pids,
                    proc'[p].alive, proc'[p].own, proc'[q].alive, proc'[q].own,
                    proc'[p].exe = proc'[q].exe, proc'[p].start < proc'[q].start
             PROVE  proc'[p].start \in abandoned'
  BY DEF OneService
<1>1. ASSUME NEW x \in Pids, proc'[x].alive
      PROVE  /\ proc[x].alive /\ proc'[x].own = proc[x].own
             /\ proc'[x].exe = proc[x].exe /\ proc'[x].start = proc[x].start
  BY <1>1 DEF Aged, Free
<1> QED
  BY <1>1 DEF PInv, OneService

LEMMA StepInv ==
  ASSUME PInv, NEW m \in Managers, NEW s \in MgrType, mgr' = [mgr EXCEPT ![m] = s],
         Aged, OthersKept(m),
         lock' \subseteq Managers, s.pc \in HeldPcs => lock' = {m},
         \A n \in Managers : n # m /\ mgr[n].pc \in HeldPcs => lock' = lock,
         disk' \in Seq(RecType), disk' = disk \/ lock = {m},
         \A r \in ToSet(disk') : Genuine(r),
         \A r \in Known(s) : Genuine(r),
         Fits(s), Child(m, s)', Forgettable(s)', abandoned \subseteq abandoned',
         \A p \in Pids : /\ proc'[p].alive /\ proc'[p].own
                         /\ Hand(mgr[m], p) \/ OnDisk(p)
                         => Hand(s, p)' \/ OnDisk(p)' \/ proc'[p].start \in abandoned'
  PROVE  PInv'
<1>1. /\ mgr \in [Managers -> MgrType] /\ mgr'[m] = s
      /\ \A n \in Managers : n # m => mgr'[n] = mgr[n]
  BY DEF PInv, PTypeOK
<1>2. PTypeOK'
  BY <1>1 DEF PInv, PTypeOK, Aged
<1>3. /\ Ticks' /\ OnlyOwnSignalled'
      /\ \A r : Genuine(r) => Genuine(r)' /\ (Gone(r) => Gone(r)')
  BY AgedTable
<1>4. Exclusive'
  BY <1>1 DEF PInv, Exclusive
<1>5. \A r \in ToSet(disk') : Genuine(r)'
  BY <1>3
<1>6. ASSUME NEW n \in Managers
      PROVE  /\ \A r \in Known(mgr'[n]) : Genuine(r)'
             /\ Fits(mgr'[n]) /\ Child(n, mgr[n])' /\ Forgettable(mgr[n])'
  <2>1. CASE n = m
    BY <1>1, <1>3, <2>1 DEF Child, Forgettable
  <2>2. CASE n # m
    <3>1. disk' = disk \/ mgr[n].pc \notin HeldPcs
      BY <2>2 DEF PInv, Exclusive
    <3> QED
      BY <1>1, <1>3, <2>2, <3>1, OthersFit DEF OthersKept
  <2> QED
    BY <2>1, <2>2
<1>7. Accounted'
  <2> SUFFICES ASSUME NEW p \in Pids, proc'[p].alive, proc'[p].own
               PROVE  InHand(p)' \/ OnDisk(p)' \/ proc'[p].start \in abandoned'
    BY DEF Accounted
  <2>1. proc[p].alive /\ proc[p].own /\ proc'[p].start = proc[p].start
    BY DEF Aged, Free
  <2>2. InHand(p) \/ OnDisk(p) \/ proc[p].start \in abandoned
    BY <2>1 DEF PInv, Accounted
  <2>3. CASE OnDisk(p) \/ Hand(mgr[m], p)
    <3>1. Hand(s, p)' => InHand(p)'
      BY <1>1 DEF Hand, InHand
    <3> QED
      BY <2>3, <3>1
  <2>4. CASE proc[p].start \in abandoned
    BY <2>1, <2>4
  <2>5. ASSUME NEW n \in Managers, n # m, Hand(mgr[n], p) PROVE InHand(p)'
    BY <1>1, <2>1, <2>5 DEF Hand, InHand
  <2> QED
    BY <2>2, <2>3, <2>4, <2>5 DEF InHand, Hand
<1>8. OneService'
  BY AgedOneService
<1> QED
  BY <1>2, <1>3, <1>4, <1>5, <1>6, <1>7, <1>8 DEF PInv

\* The holder of the lock goes on, with the same processes in its hands; at most it
\* has signalled some of our own.
LEMMA SteadyInv ==
  ASSUME PInv, NEW m \in Managers, mgr[m].pc \in HeldPcs,
         NEW s \in MgrType, mgr' = [mgr EXCEPT ![m] = s],
         clock' = clock, lock' = lock, disk' = disk, abandoned' = abandoned,
         NEW S \in SUBSET Pids, \A p \in S : proc[p].own /\ proc[p].start # 0,
         proc' = [p \in Pids |-> IF p \in S THEN [proc[p] EXCEPT !.signalled = TRUE]
                                            ELSE proc[p]],
         s.pc \in HeldPcs, s.started = mgr[m].started, s.pid = mgr[m].pid,
         Known(s) \subseteq Known(mgr[m]), Fits(s), Child(m, s), Forgettable(s)
  PROVE  PInv'
<1>1. proc \in [Pids -> ProcType] /\ lock = {m} /\ \A r \in Known(s) : Genuine(r)
  BY DEF PInv, PTypeOK, Exclusive
<1>2. ASSUME NEW p \in Pids
      PROVE  /\ proc'[p] \in ProcType
             /\ proc'[p].start = proc[p].start /\ proc'[p].exe = proc[p].exe
             /\ proc'[p].own = proc[p].own /\ proc'[p].alive = proc[p].alive
             /\ proc'[p].parent = proc[p].parent
             /\ proc'[p] = proc[p] \/ (proc[p].start # 0 /\ proc[p].own)
  BY <1>1 DEF ProcType
<1>3. Aged
  BY <1>1, <1>2 DEF Aged
<1>4. OthersKept(m)
  BY <1>2 DEF OthersKept, Kept
<1>5. Child(m, s)'
  BY <1>2 DEF Child
<1>6. \A r : Gone(r)' <=> Gone(r)
  BY <1>2 DEF Gone
<1>7. Forgettable(s)'
  BY <1>6 DEF Forgettable
<1>8. \A p \in Pids : Hand(mgr[m], p) \/ OnDisk(p) => Hand(s, p)' \/ OnDisk(p)'
  BY <1>2 DEF Hand, OnDisk
<1> QED
  BY <1>1, <1>3, <1>4, <1>5, <1>7, <1>8, StepInv DEF PInv, PTypeOK

\* The same, without a signal.
LEMMA QuietInv ==
  ASSUME PInv, NEW m \in Managers, mgr[m].pc \in HeldPcs,
         NEW s \in MgrType, mgr' = [mgr EXCEPT ![m] = s], proc' = proc,
         clock' = clock, lock' = lock, disk' = disk, abandoned' = abandoned,
         s.pc \in HeldPcs, s.started = mgr[m].started, s.pid = mgr[m].pid,
         Known(s) \subseteq Known(mgr[m]), Fits(s), Child(m, s), Forgettable(s)
  PROVE  PInv'
<1> PICK S \in SUBSET Pids : S = {}
  OBVIOUS
<1>1. proc \in [Pids -> ProcType]
  BY DEF PInv, PTypeOK
<1>2. proc' = [p \in Pids |-> IF p \in S THEN [proc[p] EXCEPT !.signalled = TRUE]
                                         ELSE proc[p]]
  BY <1>1
<1> QED
  BY <1>2, SteadyInv

LEMMA IdleFits == /\ Idle \in MgrType /\ Fits(Idle) /\ Known(Idle) = {} /\ Idle.pid = {}
                  /\ Idle.pc = "idle" /\ Idle.pc \notin HeldPcs
                  /\ Idle.started = <<>> /\ Idle.todo = <<>>
<1>1. <<>> \in Seq(RecType) /\ Len(<<>>) = 0
  OBVIOUS
<1>2. /\ Idle.pc = "idle" /\ Idle.pc \notin HeldPcs /\ Idle.started = <<>>
      /\ Idle.todo = <<>> /\ Idle.pid = {} /\ Idle.cmd = "none"
  BY DEF Idle, HeldPcs, StopPcs
<1>3. Idle \in MgrType
  BY <1>1 DEF Idle, MgrType
<1>4. Fits(Idle)
  BY <1>1, <1>2 DEF Fits, HeldPcs, StopPcs
<1> QED
  BY <1>2, <1>3, <1>4, EmptyToSet DEF Known

\* A manager ends, and what it had in its hands is on record or given up.
LEMMA EndInv ==
  ASSUME PInv, NEW m \in Managers, End(m), clock' = clock,
         disk' \in Seq(RecType), disk' = disk \/ lock = {m},
         \A r \in ToSet(disk') : Genuine(r), abandoned \subseteq abandoned',
         \A p \in Pids : /\ proc[p].alive /\ proc[p].own
                         /\ Hand(mgr[m], p) \/ OnDisk(p)
                         => \/ \E r \in ToSet(disk') : r.pid = p /\ r.start = proc[p].start
                            \/ proc[p].start \in abandoned'
  PROVE  PInv'
<1> PICK s : s = Idle
  OBVIOUS
<1>1. /\ mgr' = [mgr EXCEPT ![m] = s] /\ lock' = lock \ {m} /\ proc' = Orphans(m)
      /\ proc \in [Pids -> ProcType] /\ lock \subseteq Managers
  BY DEF End, Set, PInv, PTypeOK
<1>2. Free \in ProcType /\ ~Free.alive
  BY DEF Free, ProcType
<1>3. ASSUME NEW p \in Pids
      PROVE  /\ proc'[p] \in ProcType
             /\ \/ proc'[p] = Free \/ proc'[p] = proc[p]
                \/ /\ proc'[p].start = proc[p].start /\ proc[p].start # 0
                   /\ proc'[p].exe = proc[p].exe /\ proc'[p].own = proc[p].own
                   /\ proc'[p].alive = proc[p].alive
                   /\ proc'[p].signalled = proc[p].signalled
             /\ m \notin proc[p].parent => proc'[p] = proc[p]
  <2>1. proc'[p] = IF m \notin proc[p].parent THEN proc[p]
                   ELSE IF proc[p].alive THEN [proc[p] EXCEPT !.parent = {}] ELSE Free
    BY <1>1 DEF Orphans
  <2>2. proc[p] \in ProcType
    BY <1>1
  <2>3. m \in proc[p].parent => proc[p].start # 0
    BY DEF PInv, Ticks, Free
  <2> QED
    BY <1>2, <2>1, <2>2, <2>3 DEF ProcType
<1>4. Aged
  BY <1>1, <1>3 DEF Aged, Orphans
<1>5. OthersKept(m)
  BY <1>3 DEF OthersKept, Kept
<1>6. /\ s \in MgrType /\ Fits(s) /\ Known(s) = {} /\ s.pid = {}
      /\ s.pc = "idle" /\ s.pc \notin HeldPcs
  BY IdleFits
<1>7. Child(m, s)' /\ Forgettable(s)'
  BY <1>6 DEF Child, Forgettable
<1>8. \A n \in Managers : n # m /\ mgr[n].pc \in HeldPcs => lock' = lock
  BY <1>1 DEF PInv, Exclusive
<1>9. ASSUME NEW p \in Pids, proc'[p].alive, proc'[p].own, Hand(mgr[m], p) \/ OnDisk(p)
      PROVE  OnDisk(p)' \/ proc'[p].start \in abandoned'
  <2>1. proc[p].alive /\ proc[p].own /\ proc'[p].start = proc[p].start
    BY <1>2, <1>3, <1>9
  <2> QED
    BY <1>9, <2>1 DEF OnDisk
<1> QED
  BY <1>1, <1>4, <1>5, <1>6, <1>7, <1>8, <1>9, StepInv

-----------------------------------------------------------------------------
(* One action at a time                                                    *)

LEMMA Facts ==
  ASSUME PInv, NEW m \in Managers
  PROVE  /\ mgr \in [Managers -> MgrType] /\ mgr[m] \in MgrType
         /\ proc \in [Pids -> ProcType] /\ clock \in Nat \ {0}
         /\ lock \subseteq Managers /\ disk \in Seq(RecType)
         /\ \A r \in Known(mgr[m]) : Genuine(r)
         /\ \A r \in ToSet(disk) : Genuine(r)
         /\ Fits(mgr[m]) /\ Child(m, mgr[m]) /\ Forgettable(mgr[m])
         /\ mgr[m].pc \in HeldPcs => lock = {m}
BY DEF PInv, PTypeOK, Exclusive

\* The identity check does not miss a process that runs.
LEMMA Unmatched ==
  ASSUME NEW r, Genuine(r), ~Matches(r)
  PROVE  Gone(r)
BY DEF Genuine, Matches, Gone

LEMMA ZeroOrOne == \A n \in Nat : n <= 1 => n \in {0, 1} /\ n + 1 \in {1, 2}
OBVIOUS

LEMMA InitInv == PInit => PInv
<1> SUFFICES ASSUME PInit PROVE PInv
  OBVIOUS
<1>1. /\ proc = [p \in Pids |-> Free] /\ clock = 1 /\ lock = {} /\ disk = <<>>
      /\ mgr = [m \in Managers |-> Idle]
  BY DEF PInit
<1>2. /\ Free \in ProcType /\ Free.start = 0 /\ ~Free.alive /\ ~Free.signalled
  BY DEF Free, ProcType
<1>3. PTypeOK
  BY <1>1, <1>2, IdleFits DEF PTypeOK
<1>4. Ticks /\ OnlyOwnSignalled /\ Accounted /\ OneService
  BY <1>1, <1>2 DEF Ticks, OnlyOwnSignalled, Accounted, OneService
<1>5. Exclusive
  BY <1>1, IdleFits DEF Exclusive
<1>6. \A r \in ToSet(disk) : Genuine(r)
  BY <1>1, EmptyToSet
<1>7. ASSUME NEW m \in Managers
      PROVE  /\ \A r \in Known(mgr[m]) : Genuine(r)
             /\ Fits(mgr[m]) /\ Child(m, mgr[m]) /\ Forgettable(mgr[m])
  <2>1. mgr[m] = Idle
    BY <1>1
  <2> QED
    BY <2>1, IdleFits DEF Child, Forgettable
<1> QED
  BY <1>3, <1>4, <1>5, <1>6, <1>7 DEF PInv

LEMMA BeginInv ==
  ASSUME PInv, NEW m \in Managers, NEW c \in {"start", "status", "stop"}, Begin(m, c)
  PROVE  PInv'
<1> PICK s : s = [Idle EXCEPT !.pc = "wait", !.cmd = c]
  OBVIOUS
<1>1. /\ mgr' = [mgr EXCEPT ![m] = s] /\ mgr[m].pc = "idle"
      /\ proc' = proc /\ clock' = clock /\ lock' = lock /\ disk' = disk
      /\ abandoned' = abandoned
  BY DEF Begin, Set
<1>2. /\ s.pc = "wait" /\ s.started = <<>> /\ s.todo = <<>> /\ s.pid = {} /\ s.fd = 0
      /\ s.cmd = c /\ s = [pc |-> "wait", cmd |-> c, todo |-> <<>>, started |-> <<>>,
                           pid |-> {}, fd |-> 0]
  BY DEF Idle
<1>3. s.pc \notin HeldPcs /\ <<>> \in Seq(RecType) /\ Len(<<>>) = 0
  BY <1>2 DEF HeldPcs, StopPcs
<1>4. s \in MgrType
  <2>1. Idle \in MgrType
    BY IdleFits
  <2> QED
    BY <2>1 DEF MgrType
<1>5. Fits(s) /\ Known(s) = {}
  BY <1>2, <1>3, EmptyToSet DEF Fits, Known, HeldPcs, StopPcs
<1>6. Child(m, s)' /\ Forgettable(s)'
  BY <1>2, <1>3 DEF Child, Forgettable
<1>7. /\ proc \in [Pids -> ProcType] /\ disk \in Seq(RecType) /\ lock \subseteq Managers
      /\ \A r \in ToSet(disk) : Genuine(r)
      /\ mgr[m].started = <<>> /\ mgr[m].pid = {}
  <2>1. Fits(mgr[m]) /\ Child(m, mgr[m]) /\ mgr[m].pc \notin HeldPcs
    BY <1>1, Facts DEF HeldPcs, StopPcs
  <2> QED
    BY <1>1, <2>1, Facts DEF Fits, Child
<1>8. Aged /\ OthersKept(m)
  BY <1>1, <1>7 DEF Aged, OthersKept, Kept
<1>9. \A p \in Pids : ~Hand(mgr[m], p) /\ (OnDisk(p) => OnDisk(p)')
  BY <1>1, <1>7, EmptyToSet DEF Hand, OnDisk
<1> QED
  BY <1>1, <1>3, <1>4, <1>5, <1>6, <1>7, <1>8, <1>9, StepInv

\* Ending with nothing in its hands.
LEMMA EmptyEnd ==
  ASSUME PInv, NEW m \in Managers, End(m), clock' = clock, disk' = disk,
         abandoned' = abandoned, mgr[m].started = <<>>, mgr[m].pid = {}
  PROVE  PInv'
<1>1. disk \in Seq(RecType) /\ \A r \in ToSet(disk) : Genuine(r)
  BY Facts
<1>2. \A p \in Pids : ~Hand(mgr[m], p)
  BY EmptyToSet DEF Hand
<1> QED
  BY <1>1, <1>2, EndInv DEF OnDisk

LEMMA ManageInv ==
  ASSUME PInv, NEW m \in Managers, Manage(m)
  PROVE  PInv'
<1>1. /\ mgr[m].pc = "wait" /\ lock = {} /\ clock' = clock /\ disk' = disk
      /\ abandoned' = abandoned
  BY DEF Manage, LockFree
<1>2. mgr[m].pc \notin HeldPcs /\ mgr[m].started = <<>> /\ mgr[m].pid = {}
  <2>1. Fits(mgr[m]) /\ Child(m, mgr[m]) /\ mgr[m].pc \notin HeldPcs
    BY <1>1, Facts DEF HeldPcs, StopPcs
  <2> QED
    BY <1>1, <2>1 DEF Fits, Child
<1>3. CASE End(m)
  BY <1>1, <1>2, <1>3, EmptyEnd
<1>4. ASSUME \/ mgr[m].cmd = "stop"
             \/ mgr[m].cmd = "start" /\ ~\E i \in DOMAIN disk : Matches(disk[i]),
             lock' = lock \cup {m}, proc' = proc,
             Set(m, [mgr[m] EXCEPT !.pc = IF mgr[m].cmd = "stop" THEN "stop" ELSE "spawn",
                                   !.todo = IF mgr[m].cmd = "stop" THEN Reverse(disk) ELSE <<>>])
      PROVE  PInv'
  <2> PICK s : s = [mgr[m] EXCEPT !.pc = IF mgr[m].cmd = "stop" THEN "stop" ELSE "spawn",
                                  !.todo = IF mgr[m].cmd = "stop" THEN Reverse(disk) ELSE <<>>]
    OBVIOUS
  <2>1. mgr' = [mgr EXCEPT ![m] = s] /\ lock' = {m}
    BY <1>1, <1>4 DEF Set
  <2>2. /\ mgr[m] \in MgrType /\ disk \in Seq(RecType) /\ lock \subseteq Managers
        /\ proc \in [Pids -> ProcType] /\ \A r \in ToSet(disk) : Genuine(r)
    BY Facts
  <2>3. /\ s.pc = (IF mgr[m].cmd = "stop" THEN "stop" ELSE "spawn")
        /\ s.todo = (IF mgr[m].cmd = "stop" THEN Reverse(disk) ELSE <<>>)
        /\ s.started = <<>> /\ s.pid = {} /\ s.cmd = mgr[m].cmd
        /\ s.fd = mgr[m].fd
    BY <1>2, <2>2 DEF MgrType
  <2>4. Reverse(disk) \in Seq(RecType) /\ ToSet(Reverse(disk)) = ToSet(disk)
    BY <2>2, ReverseToSet
  <2>5. <<>> \in Seq(RecType) /\ Len(<<>>) = 0
    OBVIOUS
  <2>6. s.pc \in HeldPcs /\ s.pc \in {"stop", "spawn"}
    BY <2>3 DEF HeldPcs, StopPcs
  <2>7. s \in MgrType
    BY <2>2, <2>4, <2>5, <2>6 DEF MgrType, HeldPcs, StopPcs
  <2>8. Fits(s)
    BY <1>4, <2>3, <2>5, <2>6 DEF Fits, HeldPcs, StopPcs
  <2>9. \A r \in Known(s) : Genuine(r)
    BY <2>2, <2>3, <2>4, EmptyToSet DEF Known
  <2>10. Child(m, s)'
    BY <2>3, <2>6 DEF Child
  <2>11. Forgettable(s)
    <3>1. ToSet(s.started) = {}
      BY <2>3, EmptyToSet
    <3>2. CASE mgr[m].cmd = "stop"
      BY <2>3, <2>4, <3>1, <3>2 DEF Forgettable, Left, StopPcs
    <3>3. CASE mgr[m].cmd # "stop"
      <4>1. \A r \in ToSet(disk) : ~Matches(r)
        BY <1>4, <3>3 DEF ToSet
      <4> QED
        BY <2>2, <3>1, <4>1, Unmatched DEF Forgettable
    <3> QED
      BY <3>2, <3>3
  <2>12. Forgettable(s)'
    BY <1>1, <1>4, <2>11 DEF Forgettable, Gone
  <2>13. Aged /\ OthersKept(m)
    BY <1>1, <1>4, <2>2 DEF Aged, OthersKept, Kept
  <2>14. \A p \in Pids : ~Hand(mgr[m], p) /\ (OnDisk(p) => OnDisk(p)')
    BY <1>1, <1>2, <1>4, EmptyToSet DEF Hand, OnDisk
  <2>15. \A n \in Managers : n # m /\ mgr[n].pc \in HeldPcs => lock' = lock
    BY <1>1 DEF PInv, Exclusive
  <2> QED
    BY <1>1, <2>1, <2>2, <2>6, <2>7, <2>8, <2>9, <2>10, <2>12, <2>13, <2>14, <2>15, StepInv
<1> QED
  BY <1>3, <1>4 DEF Manage

\* An exception in start or stop, with no child being started.
LEMMA FailInv ==
  ASSUME PInv, NEW m \in Managers, mgr[m].pc \in HeldPcs, mgr[m].pid = {}, Fail(m),
         clock' = clock, disk' = disk, abandoned' = abandoned
  PROVE  PInv'
<1>1. /\ mgr[m] \in MgrType /\ proc \in [Pids -> ProcType] /\ Fits(mgr[m])
      /\ Forgettable(mgr[m])
  BY Facts
<1>2. CASE mgr[m].cmd = "start"
  <2> PICK s : s = [mgr[m] EXCEPT !.pc = "stop", !.todo = Reverse(mgr[m].started)]
    OBVIOUS
  <2>1. mgr' = [mgr EXCEPT ![m] = s] /\ proc' = proc /\ lock' = lock
    BY <1>2 DEF Fail, Set
  <2>2. mgr[m].started \in Seq(RecType)
    BY <1>1 DEF MgrType
  <2>3. /\ Reverse(mgr[m].started) \in Seq(RecType)
        /\ ToSet(Reverse(mgr[m].started)) = ToSet(mgr[m].started)
    BY <2>2, ReverseToSet
  <2>4. /\ s.pc = "stop" /\ s.cmd = "start" /\ s.started = mgr[m].started
        /\ s.todo = Reverse(mgr[m].started) /\ s.pid = {} /\ s.pc \in HeldPcs
        /\ s.pc \in StopPcs
    BY <1>1, <1>2 DEF MgrType, HeldPcs, StopPcs
  <2>5. s \in MgrType
    BY <1>1, <2>3 DEF MgrType, HeldPcs, StopPcs
  <2>6. Fits(s) /\ Child(m, s)
    BY <1>1, <2>4 DEF Fits, Child
  <2>7. Known(s) \subseteq Known(mgr[m])
    BY <2>3, <2>4 DEF Known
  <2>8. Forgettable(s)
    BY <1>1, <1>2, <2>3, <2>4 DEF Forgettable, Left
  <2> QED
    BY <2>1, <2>4, <2>5, <2>6, <2>7, <2>8, QuietInv
<1>3. CASE mgr[m].cmd # "start"
  <2>1. mgr[m].started = <<>> /\ End(m)
    BY <1>1, <1>3 DEF Fits, Fail
  <2> QED
    BY <2>1, EmptyEnd
<1> QED
  BY <1>2, <1>3

\* An exception out of stop_process.
LEMMA StopRaisesInv ==
  ASSUME PInv, NEW m \in Managers, mgr[m].pc \in StopPcs, StopRaises(m),
         clock' = clock, disk' = disk
  PROVE  PInv'
<1>1. /\ mgr[m] \in MgrType /\ Fits(mgr[m]) /\ Child(m, mgr[m]) /\ Forgettable(mgr[m])
      /\ disk \in Seq(RecType) /\ \A r \in ToSet(disk) : Genuine(r)
  BY Facts
<1>2. /\ mgr[m].pc \in HeldPcs /\ mgr[m].pid = {} /\ abandoned \subseteq abandoned' /\ End(m)
  BY <1>1 DEF HeldPcs, StopPcs, Child, StopRaises
<1>3. ASSUME NEW p \in Pids, proc[p].alive, Hand(mgr[m], p)
      PROVE  proc[p].start \in abandoned'
  <2>1. PICK r \in ToSet(mgr[m].started) : r.start = proc[p].start
    BY <1>2, <1>3 DEF Hand
  <2>2. ~Gone(r)
    BY <1>3, <2>1 DEF Gone
  <2>3. r \in ToSet(mgr[m].todo)
    BY <1>1, <1>2, <2>1, <2>2 DEF Forgettable, Left
  <2>4. mgr[m].cmd = "start"
    BY <1>1, <2>1, EmptyToSet DEF Fits
  <2> QED
    BY <2>1, <2>3, <2>4 DEF StopRaises
<1> QED
  BY <1>1, <1>2, <1>3, EndInv DEF OnDisk

\* stop_process is done with a record that no longer matches.
LEMMA NextRecordInv ==
  ASSUME PInv, NEW m \in Managers, mgr[m].pc \in StopPcs, mgr[m].todo # <<>>,
         ~Matches(Record(m)), NextRecord(m), proc' = proc, lock' = lock,
         clock' = clock, disk' = disk, abandoned' = abandoned
  PROVE  PInv'
<1>1. /\ mgr[m] \in MgrType /\ proc \in [Pids -> ProcType] /\ Fits(mgr[m])
      /\ Child(m, mgr[m]) /\ Forgettable(mgr[m]) /\ \A r \in Known(mgr[m]) : Genuine(r)
      /\ mgr[m].todo \in Seq(RecType) /\ mgr \in [Managers -> MgrType]
  BY Facts DEF MgrType
<1> PICK s : s = [mgr[m] EXCEPT !.pc = "stop", !.todo = Tail(@), !.fd = 0]
  OBVIOUS
<1>2. mgr' = [mgr EXCEPT ![m] = s]
  BY DEF NextRecord, Set
<1>3. /\ Head(mgr[m].todo) \in ToSet(mgr[m].todo) /\ Tail(mgr[m].todo) \in Seq(RecType)
      /\ ToSet(Tail(mgr[m].todo)) \subseteq ToSet(mgr[m].todo)
      /\ \A x \in ToSet(mgr[m].todo) : x = Head(mgr[m].todo) \/ x \in ToSet(Tail(mgr[m].todo))
  BY <1>1, TailToSet
<1>4. /\ s.pc = "stop" /\ s.cmd = mgr[m].cmd /\ s.started = mgr[m].started
      /\ s.todo = Tail(mgr[m].todo) /\ s.pid = mgr[m].pid
      /\ s.pc \in HeldPcs /\ s.pc \in StopPcs /\ mgr[m].pc \in HeldPcs
  BY <1>1 DEF MgrType, HeldPcs, StopPcs
<1>5. s \in MgrType
  BY <1>1, <1>3 DEF MgrType, HeldPcs, StopPcs
<1>6. Fits(s) /\ Child(m, s)
  <2>1. mgr[m].pc \notin {"boot", "reap"}
    BY DEF StopPcs
  <2> QED
    BY <1>1, <1>4, <2>1 DEF Fits, Child
<1>7. Known(s) \subseteq Known(mgr[m])
  BY <1>3, <1>4 DEF Known
<1>8. Gone(Head(mgr[m].todo))
  BY <1>1, <1>3, Unmatched DEF Known, Record
<1>9. Forgettable(s)
  <2>1. Left(mgr[m]) = ToSet(mgr[m].todo) /\ Left(s) = ToSet(Tail(mgr[m].todo))
    BY <1>4 DEF Left
  <2> QED
    BY <1>1, <1>3, <1>4, <1>8, <2>1 DEF Forgettable
<1> QED
  BY <1>2, <1>4, <1>5, <1>6, <1>7, <1>9, QuietInv

\* stop_process goes on with a record, perhaps with a signal to our own process.
LEMMA GoOnInv ==
  ASSUME PInv, NEW m \in Managers, mgr[m].pc \in StopPcs, mgr[m].todo # <<>>,
         NEW x \in StopPcs, NEW f \in Nat,
         mgr' = [mgr EXCEPT ![m] = [mgr[m] EXCEPT !.pc = x, !.fd = f]],
         lock' = lock, clock' = clock, disk' = disk, abandoned' = abandoned,
         proc' = proc \/ (Matches(Record(m)) /\ Signal(m))
  PROVE  PInv'
<1>1. /\ mgr[m] \in MgrType /\ proc \in [Pids -> ProcType] /\ Fits(mgr[m])
      /\ Child(m, mgr[m]) /\ Forgettable(mgr[m]) /\ \A r \in Known(mgr[m]) : Genuine(r)
      /\ mgr[m].todo \in Seq(RecType) /\ mgr \in [Managers -> MgrType]
  BY Facts DEF MgrType
<1> PICK s : s = [mgr[m] EXCEPT !.pc = x, !.fd = f]
  OBVIOUS
<1>2. mgr' = [mgr EXCEPT ![m] = s]
  OBVIOUS
<1>3. /\ s.pc = x /\ s.cmd = mgr[m].cmd /\ s.started = mgr[m].started
      /\ s.todo = mgr[m].todo /\ s.pid = mgr[m].pid
      /\ s.pc \in HeldPcs /\ s.pc \in StopPcs /\ mgr[m].pc \in HeldPcs
  BY <1>1 DEF MgrType, HeldPcs, StopPcs
<1>4. s \in MgrType
  BY <1>1 DEF MgrType, HeldPcs, StopPcs
<1>5. Fits(s) /\ Child(m, s)
  <2>1. mgr[m].pc \notin {"boot", "reap"} /\ s.pc \notin {"spawn", "boot", "reap"}
    BY <1>3 DEF StopPcs
  <2> QED
    BY <1>1, <1>3, <2>1 DEF Fits, Child
<1>6. Known(s) \subseteq Known(mgr[m]) /\ Forgettable(s)
  BY <1>1, <1>3 DEF Known, Forgettable, Left
<1>7. PICK S \in SUBSET Pids :
        /\ \A p \in S : proc[p].own /\ proc[p].start # 0
        /\ proc' = [p \in Pids |-> IF p \in S THEN [proc[p] EXCEPT !.signalled = TRUE]
                                              ELSE proc[p]]
  <2>1. CASE proc' = proc
    <3> PICK S \in SUBSET Pids : S = {}
      OBVIOUS
    <3>1. proc' = [p \in Pids |-> IF p \in S THEN [proc[p] EXCEPT !.signalled = TRUE]
                                             ELSE proc[p]]
      BY <1>1, <2>1
    <3> QED
      BY <3>1
  <2>2. CASE Matches(Record(m)) /\ Signal(m) /\ proc' # proc
    <3> PICK r : r = Head(mgr[m].todo)
      OBVIOUS
    <3>1. Genuine(r) /\ r.pid \in Pids /\ proc[r.pid].start = r.start
      <4>1. r \in ToSet(mgr[m].todo) /\ r \in RecType
        BY <1>1, TailToSet
      <4> QED
        BY <1>1, <2>2, <4>1 DEF Known, RecType, Matches, Record
    <3>2. proc[r.pid].own /\ proc[r.pid].start # 0
      BY <3>1 DEF Genuine
    <3>3. proc' = [proc EXCEPT ![r.pid].signalled = TRUE]
      BY <2>2 DEF Signal, Record
    <3>4. proc' = [p \in Pids |-> IF p \in {r.pid} THEN [proc[p] EXCEPT !.signalled = TRUE]
                                                   ELSE proc[p]]
      BY <1>1, <3>1, <3>3
    <3> QED
      BY <3>1, <3>2, <3>4
  <2> QED
    BY <2>1, <2>2
<1> QED
  BY <1>2, <1>3, <1>4, <1>5, <1>6, <1>7, SteadyInv

LEMMA StopLookInv ==
  ASSUME PInv, NEW m \in Managers, StopLook(m)
  PROVE  PInv'
<1>1. /\ mgr[m] \in MgrType /\ proc \in [Pids -> ProcType] /\ Fits(mgr[m])
      /\ Child(m, mgr[m]) /\ Forgettable(mgr[m]) /\ mgr \in [Managers -> MgrType]
  BY Facts
<1>2. /\ mgr[m].pc = "stop" /\ mgr[m].pc \in StopPcs /\ mgr[m].pc \in HeldPcs
      /\ clock' = clock /\ disk' = disk /\ abandoned' = abandoned
  BY DEF StopLook, StopPcs, HeldPcs
<1>3. CASE mgr[m].todo # <<>> /\ Matches(Record(m))
  <2>1. /\ mgr' = [mgr EXCEPT ![m] = [mgr[m] EXCEPT !.pc = "open", !.fd = mgr[m].fd]]
        /\ proc' = proc /\ lock' = lock /\ mgr[m].fd \in Nat
    BY <1>1, <1>2, <1>3 DEF StopLook, Go, MgrType
  <2>2. "open" \in StopPcs
    BY DEF StopPcs
  <2> QED
    BY <1>2, <1>3, <2>1, <2>2, GoOnInv
<1>4. CASE mgr[m].todo # <<>> /\ ~Matches(Record(m))
  <2>1. NextRecord(m) /\ proc' = proc /\ lock' = lock
    BY <1>4 DEF StopLook
  <2> QED
    BY <1>2, <1>4, <2>1, NextRecordInv
<1>5. CASE mgr[m].todo = <<>>
  <2>1. Left(mgr[m]) = {} /\ mgr[m].pid = {}
    BY <1>1, <1>2, <1>5, EmptyToSet DEF Left, Child
  <2>2. CASE mgr[m].cmd = "stop"
    <3> PICK s : s = [mgr[m] EXCEPT !.pc = "create"]
      OBVIOUS
    <3>1. mgr' = [mgr EXCEPT ![m] = s] /\ proc' = proc /\ lock' = lock
      BY <1>1, <1>5, <2>2 DEF StopLook, Go
    <3>2. /\ s.pc = "create" /\ s.cmd = mgr[m].cmd /\ s.started = mgr[m].started
          /\ s.todo = mgr[m].todo /\ s.pid = mgr[m].pid
          /\ s.pc \in HeldPcs /\ s.pc \notin StopPcs
      BY <1>1 DEF MgrType, HeldPcs, StopPcs
    <3>3. s \in MgrType
      BY <1>1 DEF MgrType, HeldPcs, StopPcs
    <3>4. Fits(s) /\ Child(m, s)
      BY <1>1, <1>2, <2>1, <3>2 DEF Fits, Child
    <3>5. Known(s) \subseteq Known(mgr[m]) /\ Forgettable(s)
      BY <1>1, <1>2, <2>1, <3>2 DEF Known, Forgettable
    <3> QED
      BY <1>2, <3>1, <3>2, <3>3, <3>4, <3>5, QuietInv
  <2>3. CASE mgr[m].cmd # "stop"
    <3>1. End(m) /\ disk \in Seq(RecType) /\ \A r \in ToSet(disk) : Genuine(r)
      BY <1>5, <2>3, Facts DEF StopLook
    <3>2. ASSUME NEW p \in Pids, proc[p].alive PROVE ~Hand(mgr[m], p)
      BY <1>1, <1>2, <2>1, <3>2 DEF Hand, Forgettable, Gone
    <3> QED
      BY <1>2, <3>1, <3>2, EndInv DEF OnDisk
  <2> QED
    BY <2>2, <2>3
<1> QED
  BY <1>3, <1>4, <1>5

LEMMA PidfdOpenInv ==
  ASSUME PInv, NEW m \in Managers, PidfdOpen(m)
  PROVE  PInv'
<1>1. /\ mgr[m] \in MgrType /\ proc \in [Pids -> ProcType] /\ Fits(mgr[m])
      /\ mgr[m].todo \in Seq(RecType)
  BY Facts DEF MgrType
<1>2. /\ mgr[m].pc = "open" /\ mgr[m].pc \in StopPcs /\ clock' = clock /\ disk' = disk
      /\ mgr[m].todo # <<>> /\ "held" \in StopPcs
  BY <1>1 DEF PidfdOpen, StopPcs, Fits
<1>3. CASE proc[Record(m).pid] = Free
  BY <1>2, <1>3, StopRaisesInv DEF PidfdOpen
<1>4. CASE proc[Record(m).pid] # Free
  <2>1. PICK f \in Nat : f = proc[Record(m).pid].start
    <3>1. Head(mgr[m].todo) \in RecType
      BY <1>1, <1>2, TailToSet
    <3> QED
      BY <1>1, <3>1 DEF Record, RecType, ProcType
  <2>2. /\ mgr' = [mgr EXCEPT ![m] = [mgr[m] EXCEPT !.pc = "held", !.fd = f]]
        /\ proc' = proc /\ lock' = lock /\ abandoned' = abandoned
    BY <1>4, <2>1 DEF PidfdOpen, Set
  <2> QED
    BY <1>2, <2>2, GoOnInv
<1> QED
  BY <1>3, <1>4

LEMMA SignalInv ==
  ASSUME PInv, NEW m \in Managers, Terminate(m) \/ Kill(m)
  PROVE  PInv'
<1>1. /\ mgr[m] \in MgrType /\ mgr \in [Managers -> MgrType] /\ Fits(mgr[m])
      /\ mgr[m].fd \in Nat
  BY Facts DEF MgrType
<1>2. /\ mgr[m].pc \in StopPcs /\ clock' = clock /\ disk' = disk /\ abandoned' = abandoned
      /\ mgr[m].todo # <<>> /\ lock' = lock
  BY <1>1 DEF Terminate, Kill, StopPcs, Fits
<1>3. CASE Matches(Record(m))
  <2>1. PICK x \in StopPcs : Signal(m) /\ Go(m, x)
    BY <1>3 DEF Terminate, Kill, StopPcs
  <2>2. mgr' = [mgr EXCEPT ![m] = [mgr[m] EXCEPT !.pc = x, !.fd = mgr[m].fd]]
    BY <1>1, <2>1 DEF Go, MgrType
  <2> QED
    BY <1>1, <1>2, <1>3, <2>1, <2>2, GoOnInv
<1>4. CASE ~Matches(Record(m))
  <2>1. NextRecord(m) /\ proc' = proc
    BY <1>4 DEF Terminate, Kill
  <2> QED
    BY <1>2, <1>4, <2>1, NextRecordInv
<1> QED
  BY <1>3, <1>4

LEMMA KilledInv ==
  ASSUME PInv, NEW m \in Managers, Killed(m)
  PROVE  PInv'
<1>1. /\ mgr[m].pc \in StopPcs /\ clock' = clock /\ disk' = disk /\ mgr[m].todo # <<>>
  BY Facts DEF Killed, StopPcs, Fits
<1>2. CASE Matches(Record(m))
  BY <1>1, <1>2, StopRaisesInv DEF Killed
<1>3. CASE ~Matches(Record(m))
  BY <1>1, <1>3, NextRecordInv DEF Killed
<1> QED
  BY <1>2, <1>3

LEMMA CreateInv ==
  ASSUME PInv, NEW m \in Managers, Create(m)
  PROVE  PInv'
<1>1. /\ mgr[m] \in MgrType /\ mgr \in [Managers -> MgrType] /\ Fits(mgr[m])
      /\ Child(m, mgr[m]) /\ Forgettable(mgr[m])
  BY Facts
<1>2. /\ mgr[m].pc = "create" /\ mgr[m].pc \in HeldPcs /\ mgr[m].pc \notin StopPcs
      /\ mgr[m].pid = {}
      /\ clock' = clock /\ disk' = disk /\ abandoned' = abandoned
  BY <1>1 DEF Create, HeldPcs, StopPcs, Child
<1>3. CASE Fail(m)
  BY <1>2, <1>3, FailInv
<1>4. CASE Go(m, "replace") /\ proc' = proc /\ lock' = lock
  <2> PICK s : s = [mgr[m] EXCEPT !.pc = "replace"]
    OBVIOUS
  <2>1. mgr' = [mgr EXCEPT ![m] = s]
    BY <1>1, <1>4 DEF Go
  <2>2. /\ s.pc = "replace" /\ s.cmd = mgr[m].cmd /\ s.started = mgr[m].started
        /\ s.todo = mgr[m].todo /\ s.pid = mgr[m].pid
        /\ s.pc \in HeldPcs /\ s.pc \notin StopPcs
    BY <1>1 DEF MgrType, HeldPcs, StopPcs
  <2>3. s \in MgrType
    BY <1>1 DEF MgrType, HeldPcs, StopPcs
  <2>4. Fits(s) /\ Child(m, s)
    BY <1>1, <1>2, <2>2 DEF Fits, Child
  <2>5. Known(s) \subseteq Known(mgr[m]) /\ Forgettable(s)
    BY <1>1, <1>2, <2>2 DEF Known, Forgettable, Left
  <2> QED
    BY <1>2, <1>4, <2>1, <2>2, <2>3, <2>4, <2>5, QuietInv
<1> QED
  BY <1>3, <1>4 DEF Create

LEMMA ReplaceInv ==
  ASSUME PInv, NEW m \in Managers, Replace(m)
  PROVE  PInv'
<1>1. /\ mgr[m] \in MgrType /\ Fits(mgr[m]) /\ Child(m, mgr[m]) /\ Forgettable(mgr[m])
      /\ \A r \in Known(mgr[m]) : Genuine(r)
  BY Facts
<1>2. /\ mgr[m].pc = "replace" /\ mgr[m].pc \in HeldPcs /\ mgr[m].pc \notin StopPcs
      /\ mgr[m].pid = {} /\ clock' = clock /\ abandoned' = abandoned
  BY <1>1 DEF Replace, HeldPcs, StopPcs, Child
<1>3. CASE Fail(m) /\ disk' = disk
  BY <1>2, <1>3, FailInv
<1>4. CASE disk' = mgr[m].started /\ End(m)
  <2>1. /\ lock = {m} /\ disk' \in Seq(RecType)
        /\ \A r \in ToSet(disk') : Genuine(r)
    BY <1>1, <1>2, <1>4, Facts DEF MgrType, Known
  <2>2. ASSUME NEW p \in Pids, proc[p].alive, Hand(mgr[m], p) \/ OnDisk(p)
        PROVE  \E r \in ToSet(disk') : r.pid = p /\ r.start = proc[p].start
    <3>1. ~OnDisk(p)
      BY <1>1, <1>2, <2>2 DEF OnDisk, Forgettable, Left, Gone
    <3>2. PICK r \in ToSet(mgr[m].started) : r.start = proc[p].start
      BY <1>2, <2>2, <3>1 DEF Hand
    <3>3. r.pid = p
      BY <1>1, <3>2 DEF Known, Genuine
    <3> QED
      BY <1>4, <3>2, <3>3
  <2> QED
    BY <1>2, <1>4, <2>1, <2>2, EndInv
<1> QED
  BY <1>3, <1>4 DEF Replace

LEMMA CrashInv ==
  ASSUME PInv, NEW m \in Managers, Crash(m)
  PROVE  PInv'
<1>1. /\ disk \in Seq(RecType) /\ Fits(mgr[m]) /\ \A r \in ToSet(disk) : Genuine(r)
  BY Facts
<1>2. /\ End(m) /\ clock' = clock /\ disk' = disk /\ abandoned \subseteq abandoned'
  BY DEF Crash
<1>3. ASSUME NEW p \in Pids, proc[p].alive, Hand(mgr[m], p)
      PROVE  proc[p].start \in abandoned'
  <2>1. CASE p \in mgr[m].pid
    BY <1>3, <2>1 DEF Crash
  <2>2. ASSUME NEW r \in ToSet(mgr[m].started), r.start = proc[p].start
        PROVE  proc[p].start \in abandoned'
    BY <1>1, <2>2, EmptyToSet DEF Crash, Fits
  <2> QED
    BY <1>3, <2>1, <2>2 DEF Hand
<1> QED
  BY <1>1, <1>2, <1>3, EndInv DEF OnDisk

LEMMA BootedInv ==
  ASSUME PInv, NEW m \in Managers, Booted(m)
  PROVE  PInv'
<1>1. /\ mgr[m] \in MgrType /\ proc \in [Pids -> ProcType] /\ Fits(mgr[m])
      /\ Child(m, mgr[m]) /\ Forgettable(mgr[m]) /\ \A r \in Known(mgr[m]) : Genuine(r)
      /\ disk \in Seq(RecType) /\ \A r \in ToSet(disk) : Genuine(r)
      /\ mgr[m].started \in Seq(RecType) /\ lock \subseteq Managers
  BY Facts DEF MgrType
<1>2. /\ mgr[m].pc = "boot" /\ mgr[m].pc \in HeldPcs /\ proc' = proc /\ clock' = clock
      /\ lock' = lock /\ disk' = disk /\ abandoned' = abandoned /\ lock = {m}
      /\ mgr[m].cmd = "start" /\ Len(mgr[m].started) \in {0, 1}
      /\ Len(mgr[m].started) + 1 \in {1, 2}
  <2>1. mgr[m].pc = "boot" /\ mgr[m].pc \in HeldPcs
    BY DEF Booted, HeldPcs
  <2>2. mgr[m].cmd = "start" /\ Len(mgr[m].started) \in Nat /\ Len(mgr[m].started) <= 1
    BY <1>1, <2>1 DEF Fits
  <2>3. Len(mgr[m].started) \in {0, 1} /\ Len(mgr[m].started) + 1 \in {1, 2}
    BY <2>2, ZeroOrOne
  <2>4. lock = {m}
    BY <2>1, Facts
  <2> QED
    BY <2>1, <2>2, <2>3, <2>4 DEF Booted
<1>3. PICK p \in Pids : /\ mgr[m].pid = {p} /\ proc[p].own /\ proc[p].start # 0
                        /\ proc[p].exe = Binaries[Len(mgr[m].started) + 1]
  BY <1>1, <1>2 DEF Child
<1>4. PICK r : r = [pid |-> p, start |-> proc[p].start, exe |-> proc[p].exe]
  OBVIOUS
<1>5. PICK k : k = Append(mgr[m].started, r)
  OBVIOUS
<1>6. PICK s : s = [mgr[m] EXCEPT !.started = k, !.pid = {},
                                  !.pc = IF Len(k) = 2 THEN "create" ELSE "spawn"]
  OBVIOUS
<1>7. mgr' = [mgr EXCEPT ![m] = s]
  BY <1>3, <1>4, <1>5, <1>6 DEF Booted, Set
<1>8. r \in RecType /\ r.pid = p /\ r.start = proc[p].start /\ r.exe = proc[p].exe
  <2>1. proc[p].exe \in Executables
    <3>1. Binaries[1] \in Executables /\ Binaries[2] \in Executables
      BY DEF Binaries, Executables
    <3> QED
      BY <1>2, <1>3, <3>1
  <2>2. proc[p].start \in Nat
    BY <1>1 DEF ProcType
  <2> QED
    BY <1>4, <2>1, <2>2 DEF RecType
<1>9. Genuine(r)
  BY <1>3, <1>8 DEF Genuine, PInv, Ticks
<1>10. /\ k \in Seq(RecType) /\ Len(k) = Len(mgr[m].started) + 1
       /\ \A i \in 1..Len(mgr[m].started) : k[i] = mgr[m].started[i]
       /\ k[Len(mgr[m].started) + 1] = r
       /\ ToSet(k) = ToSet(mgr[m].started) \cup {r}
  BY <1>1, <1>5, <1>8, AppendToSet
<1>11. /\ s.pc = (IF Len(k) = 2 THEN "create" ELSE "spawn") /\ s.cmd = "start"
       /\ s.started = k /\ s.todo = mgr[m].todo /\ s.pid = {}
       /\ s.pc \in HeldPcs /\ s.pc \notin StopPcs /\ s.pc \notin {"boot", "reap"}
  BY <1>1, <1>2, <1>6 DEF MgrType, HeldPcs, StopPcs
<1>12. s \in MgrType
  BY <1>1, <1>6, <1>10 DEF MgrType, HeldPcs, StopPcs
<1>13. Fits(s)
  <2>1. Len(k) \in {1, 2} /\ (s.pc = "spawn" => Len(k) = 1)
    BY <1>2, <1>10, <1>11
  <2>2. ASSUME NEW i \in 1..Len(k) PROVE k[i].exe = Binaries[i]
    <3>1. CASE i = Len(mgr[m].started) + 1
      BY <1>3, <1>8, <1>10, <3>1
    <3>2. CASE i # Len(mgr[m].started) + 1
      <4>1. i \in 1..Len(mgr[m].started)
        BY <1>2, <1>10, <3>2
      <4> QED
        BY <1>1, <1>10, <4>1 DEF Fits
    <3> QED
      BY <3>1, <3>2
  <2> QED
    BY <1>11, <2>1, <2>2 DEF Fits
<1>14. \A x \in Known(s) : Genuine(x)
  BY <1>1, <1>9, <1>10, <1>11 DEF Known
<1>15. Child(m, s)'
  BY <1>11 DEF Child
<1>16. Forgettable(s)'
  BY <1>1, <1>2, <1>11 DEF Forgettable, Gone
<1>17. Aged /\ OthersKept(m)
  BY <1>1, <1>2 DEF Aged, OthersKept, Kept
<1>18. \A x \in Pids : Hand(mgr[m], x) \/ OnDisk(x) => Hand(s, x)' \/ OnDisk(x)'
  BY <1>2, <1>3, <1>8, <1>10, <1>11 DEF Hand, OnDisk
<1> QED
  BY <1>1, <1>2, <1>7, <1>11, <1>12, <1>13, <1>14, <1>15, <1>16, <1>17, <1>18, StepInv

LEMMA BootFailsInv ==
  ASSUME PInv, NEW m \in Managers, BootFails(m)
  PROVE  PInv'
<1>1. /\ mgr[m] \in MgrType /\ mgr \in [Managers -> MgrType] /\ Fits(mgr[m])
      /\ Child(m, mgr[m]) /\ Forgettable(mgr[m])
  BY Facts
<1>2. /\ mgr[m].pc = "boot" /\ mgr[m].pc \in HeldPcs /\ mgr[m].pc \notin StopPcs
      /\ clock' = clock /\ lock' = lock /\ disk' = disk /\ abandoned' = abandoned
  BY DEF BootFails, HeldPcs, StopPcs
<1> PICK s : s = [mgr[m] EXCEPT !.pc = "reap"]
  OBVIOUS
<1>3. mgr' = [mgr EXCEPT ![m] = s]
  BY <1>1 DEF BootFails, Go
<1>4. /\ s.pc = "reap" /\ s.cmd = mgr[m].cmd /\ s.started = mgr[m].started
      /\ s.todo = mgr[m].todo /\ s.pid = mgr[m].pid
      /\ s.pc \in HeldPcs /\ s.pc \notin StopPcs
  BY <1>1 DEF MgrType, HeldPcs, StopPcs
<1>5. s \in MgrType
  BY <1>1 DEF MgrType, HeldPcs, StopPcs
<1>6. Fits(s)
  BY <1>1, <1>2, <1>4 DEF Fits
<1>7. Child(m, s)
  BY <1>1, <1>2, <1>4 DEF Child
<1>8. Known(s) \subseteq Known(mgr[m]) /\ Forgettable(s)
  BY <1>1, <1>2, <1>4 DEF Known, Forgettable, Left
<1>9. PICK S \in SUBSET Pids : S = mgr[m].pid
  BY <1>1 DEF MgrType
<1>10. \A p \in S : proc[p].own /\ proc[p].start # 0
  BY <1>1, <1>2, <1>9 DEF Child
<1>11. proc' = [p \in Pids |-> IF p \in S THEN [proc[p] EXCEPT !.signalled = TRUE]
                                          ELSE proc[p]]
  BY <1>9 DEF BootFails
<1> QED
  BY <1>2, <1>3, <1>4, <1>5, <1>6, <1>7, <1>8, <1>10, <1>11, SteadyInv

LEMMA ReapInv ==
  ASSUME PInv, NEW m \in Managers, Reap(m)
  PROVE  PInv'
<1>1. /\ mgr[m] \in MgrType /\ proc \in [Pids -> ProcType] /\ Fits(mgr[m])
      /\ Child(m, mgr[m]) /\ Forgettable(mgr[m]) /\ \A r \in Known(mgr[m]) : Genuine(r)
      /\ disk \in Seq(RecType) /\ \A r \in ToSet(disk) : Genuine(r)
      /\ mgr[m].started \in Seq(RecType) /\ lock \subseteq Managers
  BY Facts DEF MgrType
<1>2. /\ mgr[m].pc = "reap" /\ mgr[m].pc \in HeldPcs /\ clock' = clock
      /\ lock' = lock /\ disk' = disk /\ abandoned \subseteq abandoned' /\ lock = {m}
      /\ mgr[m].cmd = "start"
  <2>1. mgr[m].pc = "reap" /\ mgr[m].pc \in HeldPcs
    BY DEF Reap, HeldPcs
  <2> QED
    BY <1>1, <2>1, Facts DEF Reap, Fits
<1>3. PICK q \in Pids : mgr[m].pid = {q} /\ proc[q].parent = {m}
  BY <1>1, <1>2 DEF Child
<1> PICK s : s = [mgr[m] EXCEPT !.pc = "stop", !.todo = Reverse(mgr[m].started), !.pid = {}]
  OBVIOUS
<1>4. mgr' = [mgr EXCEPT ![m] = s]
  BY DEF Reap, Set
<1>5. /\ Reverse(mgr[m].started) \in Seq(RecType)
      /\ ToSet(Reverse(mgr[m].started)) = ToSet(mgr[m].started)
  BY <1>1, ReverseToSet
<1>6. /\ s.pc = "stop" /\ s.cmd = "start" /\ s.started = mgr[m].started
      /\ s.todo = Reverse(mgr[m].started) /\ s.pid = {}
      /\ s.pc \in HeldPcs /\ s.pc \in StopPcs
  BY <1>1, <1>2 DEF MgrType, HeldPcs, StopPcs
<1>7. s \in MgrType
  BY <1>1, <1>5 DEF MgrType, HeldPcs, StopPcs
<1>8. Fits(s) /\ Child(m, s)'
  BY <1>1, <1>6 DEF Fits, Child
<1>9. \A r \in Known(s) : Genuine(r)
  BY <1>1, <1>5, <1>6 DEF Known
<1>10. /\ \A p \in Pids : proc'[p] = IF p = q /\ ~proc[q].alive THEN Free ELSE proc[p]
       /\ proc[q].alive => proc[q].start \in abandoned'
  BY <1>3 DEF Reap
<1>11. Free \in ProcType /\ ~Free.alive
  BY DEF Free, ProcType
<1>12. Aged
  <2>1. proc' \in [Pids -> ProcType]
    <3>1. proc' = [p \in Pids |-> IF p \in {x \in mgr[m].pid : ~proc[x].alive} THEN Free ELSE proc[p]]
      BY DEF Reap
    <3> QED
      BY <1>1, <1>11, <3>1
  <2> QED
    BY <1>2, <1>10, <2>1 DEF Aged
<1>13. OthersKept(m)
  BY <1>3, <1>10 DEF OthersKept, Kept
<1>14. Forgettable(s)'
  <2>1. \A r : Genuine(r) => (Gone(r) => Gone(r)')
    BY <1>12, AgedTable
  <2>2. \A r \in ToSet(disk) : Gone(r)
    BY <1>1, <1>2 DEF Forgettable
  <2> QED
    BY <1>1, <1>2, <1>5, <1>6, <2>1, <2>2 DEF Forgettable, Left
<1>15. ASSUME NEW p \in Pids, proc'[p].alive, Hand(mgr[m], p) \/ OnDisk(p)
       PROVE  Hand(s, p)' \/ OnDisk(p)' \/ proc'[p].start \in abandoned'
  <2>1. proc'[p] = proc[p]
    BY <1>10, <1>11, <1>15
  <2>2. CASE p = q
    BY <1>10, <1>15, <2>1, <2>2
  <2>3. CASE p # q
    BY <1>2, <1>3, <1>6, <1>15, <2>1, <2>3 DEF Hand, OnDisk
  <2> QED
    BY <2>2, <2>3
<1> QED
  BY <1>1, <1>2, <1>4, <1>6, <1>7, <1>8, <1>9, <1>12, <1>13, <1>14, <1>15, StepInv

\* Popen returned: the new process runs no binary that another one, still on record,
\* already runs.
LEMMA SpawnBornInv ==
  ASSUME PInv, NEW m \in Managers, mgr[m].pc = "spawn", NEW q \in Pids, proc[q] = Free,
         proc' = [proc EXCEPT ![q] = [exe |-> Binaries[Len(mgr[m].started) + 1],
                                      start |-> clock, parent |-> {m}, alive |-> TRUE,
                                      own |-> TRUE, signalled |-> FALSE]],
         Set(m, [mgr[m] EXCEPT !.pc = "boot", !.pid = {q}]),
         clock' = clock + 1, lock' = lock, disk' = disk, abandoned' = abandoned
  PROVE  PInv'
<1>1. /\ mgr[m] \in MgrType /\ mgr \in [Managers -> MgrType]
      /\ proc \in [Pids -> ProcType] /\ Fits(mgr[m]) /\ Child(m, mgr[m])
      /\ Forgettable(mgr[m]) /\ \A r \in Known(mgr[m]) : Genuine(r)
      /\ disk \in Seq(RecType) /\ \A r \in ToSet(disk) : Genuine(r)
      /\ mgr[m].started \in Seq(RecType) /\ lock \subseteq Managers /\ clock \in Nat \ {0}
  BY Facts DEF MgrType
<1>2. /\ mgr[m].pc \in HeldPcs /\ mgr[m].pc \notin StopPcs /\ lock = {m}
      /\ mgr[m].pid = {} /\ mgr[m].cmd = "start" /\ Len(mgr[m].started) \in {0, 1}
      /\ Len(mgr[m].started) + 1 \in {1, 2}
  <2>1. mgr[m].pc \in HeldPcs /\ mgr[m].pc \notin StopPcs
    BY DEF HeldPcs, StopPcs
  <2>2. mgr[m].cmd = "start" /\ Len(mgr[m].started) \in Nat /\ Len(mgr[m].started) <= 1
    BY <1>1 DEF Fits
  <2>3. Len(mgr[m].started) \in {0, 1} /\ Len(mgr[m].started) + 1 \in {1, 2}
    BY <2>2, ZeroOrOne
  <2>4. lock = {m} /\ mgr[m].pid = {}
    BY <1>1, <2>1, Facts DEF Child
  <2> QED
    BY <2>1, <2>2, <2>3, <2>4
<1> PICK x : x = Binaries[Len(mgr[m].started) + 1]
  OBVIOUS
<1>3. x \in Executables
  <2>1. Binaries[1] \in Executables /\ Binaries[2] \in Executables
    BY DEF Binaries, Executables
  <2> QED
    BY <1>2, <2>1
<1>4. /\ proc'[q].exe = x /\ proc'[q].start = clock /\ proc'[q].parent = {m}
      /\ proc'[q].alive /\ proc'[q].own /\ ~proc'[q].signalled /\ proc'[q] \in ProcType
      /\ \A p \in Pids : p # q => proc'[p] = proc[p]
      /\ proc' \in [Pids -> ProcType]
  <2>1. /\ proc'[q] = [exe |-> x, start |-> clock, parent |-> {m}, alive |-> TRUE,
                       own |-> TRUE, signalled |-> FALSE]
        /\ \A p \in Pids : p # q => proc'[p] = proc[p]
        /\ proc' = [p \in Pids |-> proc'[p]]
    BY <1>1
  <2>2. proc'[q] \in ProcType
    BY <1>1, <1>3, <2>1 DEF ProcType
  <2>3. \A p \in Pids : proc'[p] \in ProcType
    BY <1>1, <2>1, <2>2
  <2> QED
    BY <2>1, <2>2, <2>3
<1>5. Born(q)
  BY <1>4 DEF Born
<1>6. /\ Ticks' /\ OnlyOwnSignalled' /\ clock' \in Nat \ {0}
      /\ \A r : Genuine(r) => Genuine(r)' /\ (Gone(r) => Gone(r)')
  BY <1>5, BornTable
<1> PICK s : s = [mgr[m] EXCEPT !.pc = "boot", !.pid = {q}]
  OBVIOUS
<1>7. mgr' = [mgr EXCEPT ![m] = s] /\ mgr'[m] = s /\ \A n \in Managers : n # m => mgr'[n] = mgr[n]
  BY <1>1 DEF Set
<1>8. /\ s.pc = "boot" /\ s.cmd = "start" /\ s.started = mgr[m].started
      /\ s.todo = mgr[m].todo /\ s.pid = {q}
      /\ s.pc \in HeldPcs /\ s.pc \notin StopPcs
  BY <1>1, <1>2 DEF MgrType, HeldPcs, StopPcs
<1>9. s \in MgrType
  BY <1>1 DEF MgrType, HeldPcs, StopPcs
<1>10. PTypeOK'
  BY <1>1, <1>4, <1>6, <1>7, <1>9 DEF PTypeOK
<1>11. Exclusive'
  BY <1>2, <1>7 DEF PInv, Exclusive
<1>12. \A r \in ToSet(disk') : Genuine(r)'
  BY <1>1, <1>6
<1>13. ASSUME NEW n \in Managers
       PROVE  /\ \A r \in Known(mgr'[n]) : Genuine(r)'
              /\ Fits(mgr'[n]) /\ Child(n, mgr[n])' /\ Forgettable(mgr[n])'
  <2>1. CASE n = m
    <3>1. \A r \in Known(s) : Genuine(r)'
      BY <1>1, <1>6, <1>8 DEF Known
    <3>2. Fits(s)
      BY <1>1, <1>2, <1>8 DEF Fits
    <3>3. Child(m, s)'
      BY <1>1, <1>4, <1>8 DEF Child
    <3>4. Forgettable(s)'
      BY <1>1, <1>2, <1>6, <1>8 DEF Forgettable
    <3>5. mgr'[n] = s
      BY <1>7, <2>1
    <3>6. Child(n, mgr[n])'
      BY <2>1, <3>3, <3>5 DEF Child
    <3>7. Forgettable(mgr[n])'
      BY <3>4, <3>5 DEF Forgettable, Left
    <3> QED
      BY <3>1, <3>2, <3>5, <3>6, <3>7
  <2>2. CASE n # m
    <3>1. Kept(n)
      <4>1. proc[q].start = 0
        BY DEF Free
      <4> QED
        BY <1>4, <4>1 DEF Kept
    <3> QED
      BY <1>6, <1>7, <2>2, <3>1, OthersFit
  <2> QED
    BY <2>1, <2>2
<1>14. Accounted'
  <2> SUFFICES ASSUME NEW p \in Pids, proc'[p].alive, proc'[p].own
               PROVE  InHand(p)' \/ OnDisk(p)' \/ proc'[p].start \in abandoned'
    BY DEF Accounted
  <2>1. CASE p = q
    BY <1>7, <1>8, <2>1 DEF InHand
  <2>2. CASE p # q
    <3>1. InHand(p) \/ OnDisk(p) \/ proc[p].start \in abandoned
      BY <1>4, <2>2 DEF PInv, Accounted
    <3>2. \A n \in Managers : mgr'[n].started = mgr[n].started /\ mgr[n].pid \subseteq mgr'[n].pid
      BY <1>2, <1>7, <1>8
    <3> QED
      BY <1>4, <2>2, <3>1, <3>2 DEF InHand, OnDisk
  <2> QED
    BY <2>1, <2>2
<1>15. ASSUME NEW p \in Pids, proc[p].alive, proc[p].own, proc[p].exe = x
       PROVE  proc[p].start \in abandoned
  <2>1. CASE OnDisk(p)
    <3>1. PICK r \in ToSet(disk) : r.start = proc[p].start
      BY <2>1 DEF OnDisk
    <3>2. Gone(r)
      BY <1>1, <1>2, <3>1 DEF Forgettable
    <3> QED
      BY <1>15, <3>1, <3>2 DEF Gone
  <2>2. ASSUME NEW n \in Managers, n # m, Hand(mgr[n], p) PROVE FALSE
    <3>1. mgr[n].pc \notin HeldPcs
      BY <1>2, <2>2 DEF PInv, Exclusive
    <3>2. mgr[n].started = <<>> /\ mgr[n].pid = {}
      BY <3>1, Facts DEF Fits, Child, HeldPcs
    <3> QED
      BY <2>2, <3>2, EmptyToSet DEF Hand
  <2>3. CASE Hand(mgr[m], p)
    <3>1. PICK r \in ToSet(mgr[m].started) : r.start = proc[p].start
      BY <1>2, <2>3 DEF Hand
    <3>2. PICK k \in 1..Len(mgr[m].started) : r = mgr[m].started[k]
      <4>1. DOMAIN mgr[m].started = 1..Len(mgr[m].started)
        BY <1>1
      <4> QED
        BY <3>1, <4>1 DEF ToSet
    <3>3. k = 1 /\ Len(mgr[m].started) = 1
      BY <1>2, <3>2
    <3>4. r.exe = Binaries[1] /\ x = Binaries[2]
      BY <1>1, <3>2, <3>3 DEF Fits
    <3>5. proc[p].exe = r.exe
      BY <1>1, <3>1 DEF Known, Genuine
    <3>6. Binaries[1] # Binaries[2]
      BY DEF Binaries
    <3> QED
      BY <1>15, <3>4, <3>5, <3>6
  <2> QED
    BY <1>15, <2>1, <2>2, <2>3 DEF PInv, Accounted, InHand, Hand
<1>16. OneService'
  <2> SUFFICES ASSUME NEW a \in Pids, NEW b \in Pids,
                      proc'[a].alive, proc'[a].own, proc'[b].alive, proc'[b].own,
                      proc'[a].exe = proc'[b].exe, proc'[a].start < proc'[b].start
               PROVE  proc'[a].start \in abandoned'
    BY DEF OneService
  <2>1. CASE a # q /\ b # q
    BY <1>4, <2>1 DEF PInv, OneService
  <2>2. CASE a # q /\ b = q
    BY <1>4, <1>15, <2>2
  <2>3. CASE a = q
    <3>1. \A p \in Pids : proc[p].start \in Nat /\ proc[p].start < clock
      BY <1>1 DEF PInv, Ticks, ProcType
    <3> QED
      BY <1>1, <1>4, <2>3, <3>1
  <2> QED
    BY <2>1, <2>2, <2>3
<1> QED
  BY <1>6, <1>10, <1>11, <1>12, <1>13, <1>14, <1>16 DEF PInv

LEMMA SpawnInv ==
  ASSUME PInv, NEW m \in Managers, Spawn(m)
  PROVE  PInv'
<1>1. mgr[m].pc = "spawn" /\ disk' = disk /\ abandoned' = abandoned
  BY DEF Spawn
<1>2. CASE Fail(m) /\ clock' = clock
  <2>1. mgr[m].pc \in HeldPcs /\ mgr[m].pid = {}
    BY <1>1, Facts DEF HeldPcs, Child
  <2> QED
    BY <1>1, <1>2, <2>1, FailInv
<1>3. CASE ~(Fail(m) /\ clock' = clock)
  <2>1. PICK q \in Pids :
          /\ proc[q] = Free
          /\ proc' = [proc EXCEPT ![q] = [exe |-> Binaries[Len(mgr[m].started) + 1],
                                          start |-> clock, parent |-> {m}, alive |-> TRUE,
                                          own |-> TRUE, signalled |-> FALSE]]
          /\ Set(m, [mgr[m] EXCEPT !.pc = "boot", !.pid = {q}])
    BY <1>3 DEF Spawn
  <2>2. clock' = clock + 1 /\ lock' = lock
    BY <1>3 DEF Spawn
  <2> QED
    BY <1>1, <2>1, <2>2, SpawnBornInv
<1> QED
  BY <1>2, <1>3

\* A step of the kernel's, that no manager sees.
LEMMA WorldInv ==
  ASSUME PInv, mgr' = mgr, lock' = lock, disk' = disk, abandoned' = abandoned,
         proc' \in [Pids -> ProcType], clock' \in Nat \ {0}, \A n \in Managers : Kept(n),
         Ticks', OnlyOwnSignalled', OneService',
         \A r : Genuine(r) => Genuine(r)' /\ (Gone(r) => Gone(r)'),
         \A p \in Pids : proc'[p].alive /\ proc'[p].own => proc'[p].start = proc[p].start
                                                           /\ proc[p].alive /\ proc[p].own
  PROVE  PInv'
<1>1. PTypeOK' /\ Exclusive'
  BY DEF PInv, PTypeOK, Exclusive
<1>2. \A r \in ToSet(disk') : Genuine(r)'
  BY DEF PInv
<1>3. ASSUME NEW n \in Managers
      PROVE  /\ \A r \in Known(mgr'[n]) : Genuine(r)'
             /\ Fits(mgr'[n]) /\ Child(n, mgr[n])' /\ Forgettable(mgr[n])'
  BY OthersFit
<1>4. Accounted'
  BY DEF PInv, Accounted, InHand, OnDisk
<1> QED
  BY <1>1, <1>2, <1>3, <1>4 DEF PInv

LEMMA ExitInv ==
  ASSUME PInv, NEW q \in Pids, Exit(q)
  PROVE  PInv'
<1>1. /\ proc \in [Pids -> ProcType] /\ clock \in Nat \ {0} /\ proc[q].start # 0
      /\ proc[q].alive /\ mgr' = mgr /\ lock' = lock /\ disk' = disk /\ clock' = clock
      /\ abandoned' = abandoned
  BY DEF PInv, PTypeOK, Ticks, Exit, Free
<1>2. Free \in ProcType /\ ~Free.alive
  BY DEF Free, ProcType
<1>3. /\ proc'[q] = IF proc[q].parent = {} THEN Free ELSE [proc[q] EXCEPT !.alive = FALSE]
      /\ \A p \in Pids : p # q => proc'[p] = proc[p]
      /\ proc' = [p \in Pids |-> proc'[p]]
  BY <1>1 DEF Exit
<1>4. /\ proc'[q] \in ProcType /\ ~proc'[q].alive
      /\ \/ proc'[q] = Free /\ proc[q].parent = {}
         \/ /\ proc'[q].start = proc[q].start /\ proc'[q].exe = proc[q].exe
            /\ proc'[q].own = proc[q].own /\ proc'[q].parent = proc[q].parent
            /\ proc'[q].signalled = proc[q].signalled
  <2>1. proc[q] \in ProcType
    BY <1>1
  <2>2. CASE proc[q].parent = {}
    BY <1>2, <1>3, <2>2
  <2>3. CASE proc[q].parent # {}
    BY <1>3, <2>1, <2>3 DEF ProcType
  <2> QED
    BY <2>2, <2>3
<1>5. proc' \in [Pids -> ProcType]
  <2>1. \A p \in Pids : proc'[p] \in ProcType
    BY <1>1, <1>3, <1>4
  <2> QED
    BY <1>3, <2>1
<1>6. Aged
  BY <1>1, <1>3, <1>4, <1>5 DEF Aged
<1>7. \A n \in Managers : Kept(n)
  BY <1>3, <1>4 DEF Kept
<1>8. OneService'
  BY <1>1, <1>6, AgedOneService
<1>9. \A p \in Pids : proc'[p].alive => proc'[p] = proc[p]
  BY <1>3, <1>4
<1> QED
  BY <1>1, <1>5, <1>6, <1>7, <1>8, <1>9, AgedTable, WorldInv

LEMMA ForeignInv ==
  ASSUME PInv, NEW q \in Pids, NEW x \in Programs, Foreign(q, x)
  PROVE  PInv'
<1>1. /\ proc \in [Pids -> ProcType] /\ clock \in Nat \ {0} /\ proc[q] = Free
      /\ mgr' = mgr /\ lock' = lock /\ disk' = disk /\ clock' = clock + 1
      /\ abandoned' = abandoned
  BY DEF PInv, PTypeOK, Foreign
<1>2. /\ proc'[q] = [Free EXCEPT !.exe = x, !.start = clock, !.alive = TRUE]
      /\ \A p \in Pids : p # q => proc'[p] = proc[p]
      /\ proc' = [p \in Pids |-> proc'[p]]
  BY <1>1 DEF Foreign
<1>3. /\ proc'[q] = [exe |-> x, start |-> clock, parent |-> {}, alive |-> TRUE,
                     own |-> FALSE, signalled |-> FALSE]
  BY <1>2 DEF Free
<1>4. proc'[q] \in ProcType
  BY <1>1, <1>3 DEF ProcType, Programs, Executables
<1>5. proc' \in [Pids -> ProcType]
  <2>1. \A p \in Pids : proc'[p] \in ProcType
    BY <1>1, <1>2, <1>4
  <2> QED
    BY <1>2, <2>1
<1>6. proc'[q].start = clock /\ ~proc'[q].signalled /\ ~proc'[q].own
  BY <1>3
<1>7. Born(q)
  BY <1>1, <1>2, <1>5, <1>6 DEF Born
<1>8. \A n \in Managers : Kept(n)
  BY <1>1, <1>2 DEF Kept, Free
<1>9. \A p \in Pids : proc'[p].own => proc'[p] = proc[p]
  BY <1>2, <1>6
<1>10. OneService'
  BY <1>1, <1>9 DEF PInv, OneService
<1> QED
  BY <1>1, <1>5, <1>7, <1>8, <1>9, <1>10, BornTable, WorldInv

-----------------------------------------------------------------------------
(* The theorems                                                            *)

LEMMA NextInv == PInv /\ [PNext]_vars => PInv'
<1> SUFFICES ASSUME PInv, [PNext]_vars PROVE PInv'
  OBVIOUS
<1>1. ASSUME NEW m \in Managers, Step(m) PROVE PInv'
  BY <1>1, ManageInv, SpawnInv, BootedInv, BootFailsInv, ReapInv, StopLookInv, PidfdOpenInv,
     SignalInv, KilledInv, CreateInv, ReplaceInv DEF Step
<1>2. ASSUME NEW m \in Managers, Crash(m) PROVE PInv'
  BY <1>2, CrashInv
<1>3. ASSUME NEW m \in Managers, NEW c \in {"start", "status", "stop"}, Begin(m, c) PROVE PInv'
  BY <1>3, BeginInv
<1>4. ASSUME NEW p \in Pids, Exit(p) PROVE PInv'
  BY <1>4, ExitInv
<1>5. ASSUME NEW p \in Pids, NEW x \in Programs, Foreign(p, x) PROVE PInv'
  BY <1>5, ForeignInv
<1>6. CASE UNCHANGED vars
  <2>1. /\ proc' = proc /\ clock' = clock /\ lock' = lock /\ disk' = disk /\ mgr' = mgr
        /\ abandoned' = abandoned
    BY <1>6 DEF vars
  <2>2. proc' \in [Pids -> ProcType] /\ clock' \in Nat \ {0}
    BY <2>1 DEF PInv, PTypeOK
  <2>3. Aged
    BY <2>1, <2>2 DEF Aged
  <2>4. \A n \in Managers : Kept(n)
    BY <2>1 DEF Kept
  <2>5. OneService'
    BY <2>1, <2>3, AgedOneService
  <2> QED
    BY <2>1, <2>2, <2>3, <2>4, <2>5, AgedTable, WorldInv
<1> QED
  BY <1>1, <1>2, <1>3, <1>4, <1>5, <1>6 DEF PNext

\* The process manager, its records and the kernel's PID table stay consistent
\* whatever managers run, crash and race, and whatever PIDs are reused
\* (lab_processes.manage, start, stop_process, save).
THEOREM ProcessesInvariant == PSpec => []PInv
BY InitInv, NextInv, PTL DEF PSpec

\* terminate and kill through a pidfd, behind the two identity checks, only ever
\* reach a process a manager started.
THEOREM SignalsReachOnlyOwn == PSpec => []OnlyOwnSignalled
<1>1. PInv => OnlyOwnSignalled
  BY DEF PInv
<1> QED
  BY <1>1, ProcessesInvariant, PTL

\* A process of ours that runs is in state.json, in the hands of a manager, or among
\* those a crash or a stop that raised has lost.
THEOREM NothingIsForgotten == PSpec => []Accounted
<1>1. PInv => Accounted
  BY DEF PInv
<1> QED
  BY <1>1, ProcessesInvariant, PTL

\* The lock and the running test of start keep any binary from running twice, unless
\* a failure lost the older process.
THEOREM NoSecondService == PSpec => []OneService
<1>1. PInv => OneService
  BY DEF PInv
<1> QED
  BY <1>1, ProcessesInvariant, PTL
=============================================================================
