---------------------------- MODULE LabProcesses ----------------------------
(***************************************************************************)
(* The local process manager: lab.py start, status and stop, each one a    *)
(* short-lived invocation ("manager") of lab_processes.manage.  Managers   *)
(* share a runtime directory (an flock, state.json and its temporary       *)
(* state.new) and the kernel's PID table, where a PID is reused as soon as *)
(* the process that held it has been reaped.                               *)
(*                                                                         *)
(* Why a spawned binary fails to become ready (occupied port, bad boot     *)
(* line, early exit, 3 s) is abstracted to one nondeterministic failure.   *)
(***************************************************************************)
EXTENDS Naturals, Sequences, SequencesExt, FiniteSets

CONSTANTS Managers,   \* invocations of lab.py
          Pids,       \* the kernel's PIDs
          MaxStart,   \* bound: processes ever started
          MaxRuns,    \* bound: commands ever given
          MaxCrash    \* bound: managers killed half way

ASSUME ProcessBounds == MaxStart \in Nat /\ MaxRuns \in Nat /\ MaxCrash \in Nat

VARIABLES proc,       \* PID table
          clock,      \* start_ticks of the next process
          lock,       \* holder of the runtime lock, or {}
          disk,       \* state.json: a sequence of records
          fresh,      \* state.new exists
          mgr,        \* the managers' local state
          runs, crashes,
          abandoned   \* start ticks whose record a failure has lost
vars == <<proc, clock, lock, disk, fresh, mgr, runs, crashes, abandoned>>

Binaries == <<"lab_server", "lab_adapter">>
Programs == {"lab_server", "other"}   \* what an unrelated process may run

\* A PID table entry; a dead child keeps its PID until its parent is gone.
Free == [exe |-> "none", start |-> 0, parent |-> {}, alive |-> FALSE, own |-> FALSE, signalled |-> FALSE]
Idle == [pc |-> "idle", cmd |-> "none", todo |-> <<>>, started |-> <<>>, pid |-> {}, fd |-> 0]

PInit == /\ proc = [p \in Pids |-> Free] /\ clock = 1 /\ lock = {}
         /\ disk = <<>> /\ fresh = FALSE /\ mgr = [m \in Managers |-> Idle]
         /\ runs = 0 /\ crashes = 0 /\ abandoned = {}

\* identity() of the PID now is the recorded one; a zombie has no executable.
Matches(r) == LET q == proc[r.pid] IN q.alive /\ q.start = r.start /\ q.exe = r.exe

Set(m, s) == mgr' = [mgr EXCEPT ![m] = s]
Go(m, pc) == mgr' = [mgr EXCEPT ![m].pc = pc]

\* The manager's process ends: the kernel drops its lock, init inherits and
\* reaps its children.
Orphans(m) == [p \in Pids |-> IF m \notin proc[p].parent THEN proc[p]
                              ELSE IF proc[p].alive THEN [proc[p] EXCEPT !.parent = {}] ELSE Free]
End(m) == Set(m, Idle) /\ lock' = lock \ {m} /\ proc' = Orphans(m)

Begin(m, c) ==
    /\ mgr[m].pc = "idle" /\ runs < MaxRuns
    /\ runs' = runs + 1 /\ Set(m, [Idle EXCEPT !.pc = "wait", !.cmd = c])
    /\ UNCHANGED <<proc, clock, lock, disk, fresh, crashes, abandoned>>

\* Mutant of LockFree: each invocation opens a lock file of its own.
LockFreeAlways(m) == lock \subseteq Managers

\* flock(LOCK_EX) returns when nobody holds the lock.
LockFree(m) == lock = {}

\* The lock is held: load() the records, then branch on the command.  A start
\* that finds any of them running starts nothing.
Manage(m) ==
    /\ mgr[m].pc = "wait" /\ LockFree(m)
    /\ LET running == \E i \in DOMAIN disk : Matches(disk[i])
       IN \/ /\ mgr[m].cmd = "status" \/ (mgr[m].cmd = "start" /\ running)
             /\ End(m)
          \/ /\ mgr[m].cmd = "stop" \/ (mgr[m].cmd = "start" /\ ~running)
             /\ lock' = lock \cup {m} /\ UNCHANGED proc
             /\ Set(m, [mgr[m] EXCEPT !.pc = IF mgr[m].cmd = "stop" THEN "stop" ELSE "spawn",
                                      !.todo = IF mgr[m].cmd = "stop" THEN Reverse(disk) ELSE <<>>])
    /\ UNCHANGED <<clock, disk, fresh, runs, crashes, abandoned>>

-----------------------------------------------------------------------------
\* Mutant of Fail: what was started is left running.
FailLeaves(m) == End(m)

\* An exception in start: stop what was started, in reverse.  In stop: report.
Fail(m) == IF mgr[m].cmd = "start"
           THEN Set(m, [mgr[m] EXCEPT !.pc = "stop", !.todo = Reverse(mgr[m].started)]) /\ UNCHANGED <<proc, lock>>
           ELSE End(m)

Spawn(m) ==
    /\ mgr[m].pc = "spawn"
    /\ \/ /\ clock < MaxStart
          /\ \E p \in Pids :
                /\ proc[p] = Free
                /\ proc' = [proc EXCEPT ![p] = [exe |-> Binaries[Len(mgr[m].started) + 1], start |-> clock,
                                      parent |-> {m}, alive |-> TRUE, own |-> TRUE, signalled |-> FALSE]]
                /\ Set(m, [mgr[m] EXCEPT !.pc = "boot", !.pid = {p}])
          /\ clock' = clock + 1 /\ UNCHANGED lock
       \/ Fail(m) /\ UNCHANGED clock                     \* the log or Popen fails
    /\ UNCHANGED <<disk, fresh, runs, crashes, abandoned>>

\* The boot line arrived and the child is still alive.
Booted(m) ==
    /\ mgr[m].pc = "boot"
    /\ \E p \in mgr[m].pid :
          /\ proc[p].alive
          /\ LET s == Append(mgr[m].started, [pid |-> p, start |-> proc[p].start, exe |-> proc[p].exe])
             IN Set(m, [mgr[m] EXCEPT !.started = s, !.pid = {}, !.pc = IF Len(s) = 2 THEN "create" ELSE "spawn"])
    /\ UNCHANGED <<proc, clock, lock, disk, fresh, runs, crashes, abandoned>>

\* It did not: terminate() the child.
BootFails(m) ==
    /\ mgr[m].pc = "boot" /\ Go(m, "reap")
    /\ proc' = [p \in Pids |-> IF p \in mgr[m].pid THEN [proc[p] EXCEPT !.signalled = TRUE] ELSE proc[p]]
    /\ UNCHANGED <<clock, lock, disk, fresh, runs, crashes, abandoned>>

\* wait() collects it, or both waits of 2 s run out, after kill(), and it is lost.
Reap(m) ==
    /\ mgr[m].pc = "reap"
    /\ LET dead == {p \in mgr[m].pid : ~proc[p].alive}
       IN /\ proc' = [p \in Pids |-> IF p \in dead THEN Free ELSE proc[p]]
          /\ abandoned' = abandoned \cup {proc[p].start : p \in mgr[m].pid \ dead}
    /\ Set(m, [mgr[m] EXCEPT !.pc = "stop", !.todo = Reverse(mgr[m].started), !.pid = {}])
    /\ UNCHANGED <<clock, lock, disk, fresh, runs, crashes>>

-----------------------------------------------------------------------------
\* stop_process(), for the record at the head of todo.
Record(m) == Head(mgr[m].todo)
NextRecord(m) == Set(m, [mgr[m] EXCEPT !.pc = "stop", !.todo = Tail(@), !.fd = 0])
\* The signal goes to the process the pidfd was opened for, if it still exists.
Signal(m) == LET p == Record(m).pid
             IN proc' = IF proc[p].start = mgr[m].fd THEN [proc EXCEPT ![p].signalled = TRUE] ELSE proc

\* An exception out of stop_process leaves the rest of the loop undone.
StopRaises(m) == /\ End(m)
                 /\ abandoned' = IF mgr[m].cmd = "start"
                                 THEN abandoned \cup {r.start : r \in ToSet(mgr[m].todo)} ELSE abandoned

StopLook(m) ==
    /\ mgr[m].pc = "stop"
    /\ IF mgr[m].todo # <<>>
       THEN /\ IF Matches(Record(m)) THEN Go(m, "open") ELSE NextRecord(m)
            /\ UNCHANGED <<proc, lock>>
       ELSE IF mgr[m].cmd = "stop" THEN Go(m, "create") /\ UNCHANGED <<proc, lock>> ELSE End(m)
    /\ UNCHANGED <<clock, disk, fresh, runs, crashes, abandoned>>

\* pidfd_open() is outside the try: a PID nobody holds any more raises.
PidfdOpen(m) ==
    /\ mgr[m].pc = "open"
    /\ IF proc[Record(m).pid] = Free
       THEN StopRaises(m)
       ELSE /\ Set(m, [mgr[m] EXCEPT !.pc = "held", !.fd = proc[Record(m).pid].start])
            /\ UNCHANGED <<proc, lock, abandoned>>
    /\ UNCHANGED <<clock, disk, fresh, runs, crashes>>

\* Mutant of Terminate: the identity is not checked again under the pidfd.
TerminateUnchecked(m) ==
    /\ mgr[m].pc = "held" /\ Signal(m) /\ Go(m, "term")
    /\ UNCHANGED <<clock, lock, disk, fresh, runs, crashes, abandoned>>

Terminate(m) ==
    /\ mgr[m].pc = "held"
    /\ IF Matches(Record(m)) THEN Signal(m) /\ Go(m, "term") ELSE NextRecord(m) /\ UNCHANGED proc
    /\ UNCHANGED <<clock, lock, disk, fresh, runs, crashes, abandoned>>

Kill(m) ==
    /\ mgr[m].pc = "term"
    /\ IF Matches(Record(m)) THEN Signal(m) /\ Go(m, "kill") ELSE NextRecord(m) /\ UNCHANGED proc
    /\ UNCHANGED <<clock, lock, disk, fresh, runs, crashes, abandoned>>

\* Mutant of Killed: wait for the process however long it takes.
KilledWaits(m) ==
    /\ mgr[m].pc = "kill" /\ ~Matches(Record(m)) /\ NextRecord(m)
    /\ UNCHANGED <<proc, lock, abandoned, clock, disk, fresh, runs, crashes>>

\* process_stop_timeout, or the process is gone.
Killed(m) ==
    /\ mgr[m].pc = "kill"
    /\ IF Matches(Record(m)) THEN StopRaises(m) ELSE NextRecord(m) /\ UNCHANGED <<proc, lock, abandoned>>
    /\ UNCHANGED <<clock, disk, fresh, runs, crashes>>

-----------------------------------------------------------------------------
\* save(): create state.new exclusively (a leftover one raises) ...
Create(m) ==
    /\ mgr[m].pc = "create"
    /\ \/ ~fresh /\ fresh' = TRUE /\ Go(m, "replace") /\ UNCHANGED <<proc, lock>>
       \/ Fail(m) /\ UNCHANGED fresh
    /\ UNCHANGED <<clock, disk, runs, crashes, abandoned>>

\* ... write it and rename it over state.json, or unlink it and raise.
Replace(m) ==
    /\ mgr[m].pc = "replace" /\ fresh' = FALSE
    /\ \/ disk' = mgr[m].started /\ End(m)
       \/ Fail(m) /\ UNCHANGED disk
    /\ UNCHANGED <<clock, runs, crashes, abandoned>>

-----------------------------------------------------------------------------
\* SIGKILL or SIGTERM ends the manager between two steps: no finally runs.
Crash(m) ==
    /\ mgr[m].pc # "idle" /\ crashes < MaxCrash
    /\ crashes' = crashes + 1 /\ End(m)
    /\ abandoned' = abandoned \cup {proc[p].start : p \in {q \in mgr[m].pid : proc[q].alive}}
                       \cup (IF mgr[m].cmd = "start" THEN {r.start : r \in ToSet(mgr[m].started)} ELSE {})
    /\ UNCHANGED <<clock, disk, fresh, runs>>

\* Any process may exit at any moment; an unreaped child keeps its PID.
Exit(p) ==
    /\ proc[p].alive
    /\ proc' = [proc EXCEPT ![p] = IF @.parent = {} THEN Free ELSE [@ EXCEPT !.alive = FALSE]]
    /\ UNCHANGED <<clock, lock, disk, fresh, mgr, runs, crashes, abandoned>>

\* Somebody else's process takes a free PID, perhaps running the same binary.
Foreign(p, exe) ==
    /\ proc[p] = Free /\ clock < MaxStart
    /\ proc' = [proc EXCEPT ![p] = [Free EXCEPT !.exe = exe, !.start = clock, !.alive = TRUE]]
    /\ clock' = clock + 1
    /\ UNCHANGED <<lock, disk, fresh, mgr, runs, crashes, abandoned>>

Step(m) == \/ Manage(m) \/ Spawn(m) \/ Booted(m) \/ BootFails(m) \/ Reap(m)
           \/ StopLook(m) \/ PidfdOpen(m) \/ Terminate(m) \/ Kill(m) \/ Killed(m)
           \/ Create(m) \/ Replace(m)
PNext == \/ \E m \in Managers : Step(m) \/ Crash(m) \/ \E c \in {"start", "status", "stop"} : Begin(m, c)
         \/ \E p \in Pids : Exit(p) \/ \E exe \in Programs : Foreign(p, exe)

\* Every wait of a manager has a deadline; the lock's other holders do too.
PSpec == PInit /\ [][PNext]_vars /\ \A m \in Managers : WF_vars(Step(m))

-----------------------------------------------------------------------------
\* "Manage only the two dedicated local binaries, with PID instance
\* validation": a signal only ever reaches a process some manager started,
\* whatever PIDs are reused between load(), the two matches() and the signal.
OnlyOwnSignalled == \A p \in Pids : proc[p].signalled => proc[p].own

\* A process that runs is on record: in state.json, in the memory of the
\* manager at work on it, or lost by a crash or a stop that raised.
InHand(p) == \E m \in Managers : \/ p \in mgr[m].pid
                                 \/ \E r \in ToSet(mgr[m].started) : r.start = proc[p].start
OnDisk(p) == \E r \in ToSet(disk) : r.pid = p /\ r.start = proc[p].start
Accounted == \A p \in Pids : proc[p].alive /\ proc[p].own =>
                InHand(p) \/ OnDisk(p) \/ proc[p].start \in abandoned

\* The lock and the running test keep concurrent starts from building two
\* services: no binary runs twice, unless a failure lost the older one.
OneService == \A p, q \in Pids :
                 /\ proc[p].alive /\ proc[p].own /\ proc[q].alive /\ proc[q].own
                 /\ proc[p].exe = proc[q].exe /\ proc[p].start < proc[q].start
                 => proc[p].start \in abandoned

\* Every command ends: nobody waits for ever on the lock or on a process.
CommandsEnd == \A m \in Managers : (mgr[m].pc # "idle") ~> (mgr[m].pc = "idle")
=============================================================================
