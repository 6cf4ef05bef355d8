---------------------------- MODULE GameService ----------------------------
(***************************************************************************)
(* GameService of scripts/game_service.py and `serve' of scripts/game.py:  *)
(* the asyncio handlers of the two players share one C worker (module      *)
(* GameCore) through a pipe each way and a lock.                           *)
(*                                                                         *)
(* A step is what a handler runs between two awaits.  The asyncio.Lock is  *)
(* a line of handlers, whose head holds it.  Of the worker only the order  *)
(* of its commands and the slots it still has open are kept, and of a      *)
(* frame only the command it became: a command is known by the handler     *)
(* that wrote it, its operation and its slot.                              *)
(***************************************************************************)
EXTENDS Integers, FiniteSets, Sequences

CONSTANTS Handlers,   \* connections' handlers
          MAX_TASKS,  \* handlers at a time: 4 in the code
          FRAMES      \* frames of one session: 256

ASSUME SessionAssumption == MAX_TASKS \in Nat /\ FRAMES \in Nat

VARIABLES
  pc,         \* where each handler is
  slot,       \* the slot of its certificate; 2: none
  owned,      \* it claimed that slot
  op,         \* what it asks the worker
  frames,     \* frames it may still read
  got,        \* the reply it is to pass on
  line,       \* self.lock: its holder and those who wait for it
  claimed, connected, broken,
  stdin, stdout,
  alive,      \* the worker's process runs
  open,       \* the worker's slots that are open
  done,       \* history: the command the worker did last
  listening,  \* the server accepts connections
  closing,    \* close() has cancelled the handlers
  stopped     \* close() has returned

handler == <<pc, slot, owned, op, frames, got>>
service == <<line, claimed, connected, broken>>
worker == <<stdin, stdout, alive, open, done>>
server == <<listening, closing, stopped>>
gsvars == <<handler, service, worker, server>>

Slots == {0, 1}
NoSlot == 2
Nothing == [by |-> "none", op |-> "none", slot |-> NoSlot]

Active == {h \in Handlers : pc[h] # "free"}    \* self.tasks

GSInit ==
  /\ pc = [h \in Handlers |-> "free"] /\ slot = [h \in Handlers |-> NoSlot]
  /\ owned = [h \in Handlers |-> FALSE] /\ op = [h \in Handlers |-> "none"]
  /\ frames = [h \in Handlers |-> FRAMES] /\ got = [h \in Handlers |-> Nothing]
  /\ line = <<>> /\ claimed = [s \in Slots |-> FALSE]
  /\ connected = [s \in Slots |-> FALSE] /\ broken = FALSE
  /\ stdin = <<>> /\ stdout = <<>> /\ alive = TRUE /\ open = Slots /\ done = Nothing
  /\ listening = TRUE /\ closing = FALSE /\ stopped = FALSE

Goto(h, to) == pc' = [pc EXCEPT ![h] = to]
Release == line' = Tail(line)

\* The handler waits for the lock, to ask the worker for o.
WaitLock(h, o) == /\ Goto(h, "lock")
                  /\ op' = [op EXCEPT ![h] = o]
                  /\ line' = Append(line, h)

-----------------------------------------------------------------------------
(* handle                                                                  *)

\* A connection with the certificate of slot s, or of nobody's. Its slot is claimed
\* with no await since it was found free; a claimed one is only asked about.
Accept(h, s) ==
  /\ listening /\ pc[h] = "free" /\ Cardinality(Active) < MAX_TASKS
  /\ slot' = [slot EXCEPT ![h] = s]
  /\ \/ /\ s = NoSlot \/ broken
        /\ Goto(h, "refusing")
        /\ UNCHANGED <<owned, op, service>>
     \/ /\ s # NoSlot /\ ~broken /\ claimed[s]
        /\ WaitLock(h, "probe")
        /\ UNCHANGED <<owned, claimed, connected, broken>>
     \/ /\ s # NoSlot /\ ~broken /\ ~claimed[s]
        /\ claimed' = [claimed EXCEPT ![s] = TRUE]
        /\ connected' = [connected EXCEPT ![s] = TRUE]
        /\ owned' = [owned EXCEPT ![h] = TRUE]
        /\ WaitLock(h, "hello")
        /\ UNCHANGED broken
  /\ UNCHANGED <<frames, got, worker, server>>

Command(h) == [by |-> h, op |-> op[h], slot |-> slot[h]]

\* The way out of an exchange that raised: the lock is released.
Raise(h) == /\ Release
            /\ Goto(h, IF op[h] = "close" THEN "writer" ELSE "finally")

\* exchange, up to its first await, once the handler has the lock. An input is
\* preceded by the tick under the same lock.
Ask(h) ==
  /\ pc[h] = "lock" /\ line # <<>> /\ Head(line) = h
  /\ ~broken
  /\ Goto(h, "reply")
  /\ stdin' = Append(stdin, Command(h))
  /\ UNCHANGED <<slot, owned, op, frames, got, service, stdout, alive, open, done, server>>

\* WORKER_UNAVAILABLE: broken, or the end of the process was seen. Only the
\* handler that meant to close its slot breaks the service for it.
AskRaises(h) ==
  /\ pc[h] = "lock" /\ line # <<>> /\ Head(line) = h
  /\ broken \/ ~alive
  /\ Raise(h)
  /\ broken' = (broken \/ op[h] = "close")
  /\ UNCHANGED <<slot, owned, op, frames, got, claimed, connected, worker, server>>

\* Mutant of Reply: the input takes the lock anew.
ReplyYields(h) ==
  /\ pc[h] = "reply" /\ stdout # <<>> /\ Head(stdout).slot = slot[h]
  /\ stdout' = Tail(stdout)
  /\ got' = [got EXCEPT ![h] = Head(stdout)]
  /\ IF op[h] = "tick"
     THEN /\ op' = [op EXCEPT ![h] = "input"]
          /\ line' = Append(Tail(line), h)
          /\ Goto(h, "lock")
     ELSE /\ Release
          /\ Goto(h, IF op[h] = "close" THEN "writer" ELSE "send")
          /\ UNCHANGED op
  /\ UNCHANGED <<slot, owned, frames, claimed, connected, broken, stdin, alive, open,
                 done, server>>

\* The reply read is the next one in the pipe. The tick's makes room for the input.
Reply(h) ==
  /\ pc[h] = "reply" /\ stdout # <<>> /\ Head(stdout).slot = slot[h]
  /\ stdout' = Tail(stdout)
  /\ got' = [got EXCEPT ![h] = Head(stdout)]
  /\ \/ /\ op[h] = "tick"
        /\ op' = [op EXCEPT ![h] = "input"]
        /\ \/ /\ stdin' = Append(stdin, [Command(h) EXCEPT !.op = "input"])
              /\ UNCHANGED <<pc, line>>
           \/ ~alive /\ Release /\ Goto(h, "finally") /\ UNCHANGED stdin
     \/ /\ op[h] # "tick"
        /\ Release
        /\ Goto(h, IF op[h] = "close" THEN "writer" ELSE "send")
        /\ UNCHANGED <<op, stdin>>
  /\ UNCHANGED <<slot, owned, frames, claimed, connected, broken, alive, open, done, server>>

\* Mutant of ReplyFails: the worker may be used again.
ReplyFailsForgives(h) ==
  /\ pc[h] = "reply"
  /\ Raise(h)
  /\ UNCHANGED broken
  /\ UNCHANGED <<slot, owned, op, frames, got, claimed, connected, worker, server>>

\* Nothing within 2 s, an end of file, a malformed reply or another slot's:
\* the worker is not used again.
ReplyFails(h) ==
  /\ pc[h] = "reply"
  /\ Raise(h)
  /\ broken' = TRUE
  /\ UNCHANGED <<slot, owned, op, frames, got, claimed, connected, worker, server>>

\* The player gets its frame, or is gone. A probe and a refusal end there.
Send(h) ==
  /\ pc[h] \in {"send", "refusing"}
  /\ \/ pc[h] = "send" /\ op[h] # "probe" /\ Goto(h, "read")
     \/ Goto(h, "finally")
  /\ got' = [got EXCEPT ![h] = Nothing]
  /\ UNCHANGED <<slot, owned, op, frames, service, worker, server>>

\* A frame of the right size. all(self.connected) is looked at now, and the lock is
\* taken later.
Read(h) ==
  /\ pc[h] = "read" /\ frames[h] > 0
  /\ frames' = [frames EXCEPT ![h] = @ - 1]
  /\ IF \A s \in Slots : connected[s]
     THEN WaitLock(h, "tick")
     ELSE Goto(h, "send") /\ op' = [op EXCEPT ![h] = "inactive"] /\ UNCHANGED line
  /\ UNCHANGED <<slot, owned, got, claimed, connected, broken, worker, server>>

\* SESSION_LIMIT, BAD_FRAME, the deadline, 2 s of silence, an end of file.
ReadEnds(h) == /\ pc[h] = "read"
               /\ Goto(h, "finally")
               /\ UNCHANGED <<slot, owned, op, frames, got, service, worker, server>>

\* Mutant of Finally: the worker is not told.
FinallyKeeps(h) ==
  /\ pc[h] = "finally"
  /\ connected' = IF owned[h] THEN [connected EXCEPT ![slot[h]] = FALSE] ELSE connected
  /\ Goto(h, "writer") /\ UNCHANGED <<op, line>>
  /\ UNCHANGED <<slot, owned, frames, got, claimed, broken, worker, server>>

\* The outer finally: the slot is left, and closed in the worker if there is one.
Finally(h) ==
  /\ pc[h] = "finally"
  /\ connected' = IF owned[h] THEN [connected EXCEPT ![slot[h]] = FALSE] ELSE connected
  /\ IF owned[h] /\ ~broken THEN WaitLock(h, "close")
                            ELSE Goto(h, "writer") /\ UNCHANGED <<op, line>>
  /\ UNCHANGED <<slot, owned, frames, got, claimed, broken, worker, server>>

\* Mutant of Leave: cancelled here, the handler stays in self.tasks.
LeaveLost(h) == /\ pc[h] = "writer" /\ ~closing
                /\ Goto(h, "free")
                /\ owned' = [owned EXCEPT ![h] = FALSE]
                /\ slot' = [slot EXCEPT ![h] = NoSlot]
                /\ op' = [op EXCEPT ![h] = "none"]
                /\ frames' = [frames EXCEPT ![h] = FRAMES]
                /\ got' = [got EXCEPT ![h] = Nothing]
                /\ UNCHANGED <<service, worker, server>>

\* close_writer and the inner finally.
Leave(h) == /\ pc[h] = "writer"
            /\ Goto(h, "free")
            /\ owned' = [owned EXCEPT ![h] = FALSE]
            /\ slot' = [slot EXCEPT ![h] = NoSlot]
            /\ op' = [op EXCEPT ![h] = "none"]
            /\ frames' = [frames EXCEPT ![h] = FRAMES]
            /\ got' = [got EXCEPT ![h] = Nothing]
            /\ UNCHANGED <<service, worker, server>>

-----------------------------------------------------------------------------
(* The worker: lab_game_host reads a command, does it and answers          *)

Work == LET m == Head(stdin) IN
        /\ alive /\ stdin # <<>>
        /\ stdin' = Tail(stdin)
        /\ stdout' = Append(stdout, m)
        /\ open' = IF m.op = "close" THEN open \ {m.slot} ELSE open
        /\ done' = m
        /\ UNCHANGED <<alive, handler, service, server>>

\* It may end at any time, and the replies it wrote stay in the pipe.
WorkerEnds == /\ alive /\ alive' = FALSE
              /\ UNCHANGED <<stdin, stdout, open, done, handler, service, server>>

-----------------------------------------------------------------------------
(* serve and close                                                         *)

\* A signal, or the end of the worker: no connection is accepted any more.
Shutdown == /\ listening /\ listening' = FALSE
            /\ UNCHANGED <<closing, stopped, handler, service, worker>>

\* close: every handler is cancelled where it waits. Broken already, none of them
\* asks the worker for anything on its way out.
Close ==
  /\ ~listening /\ ~closing
  /\ closing' = TRUE
  /\ broken' = TRUE
  /\ pc' = [h \in Handlers |-> IF h \in Active THEN "writer" ELSE "free"]
  /\ line' = <<>>
  /\ connected' = [s \in Slots |-> FALSE]
  /\ UNCHANGED <<listening, stopped, slot, owned, op, frames, got, claimed, worker>>

\* The handlers are gathered; then the process is ended, by force if need be.
Closed == /\ closing /\ ~stopped /\ Active = {}
          /\ stopped' = TRUE
          /\ alive' = FALSE
          /\ UNCHANGED <<listening, closing, handler, service, stdin, stdout, open, done>>

-----------------------------------------------------------------------------
Step(h) == \/ Ask(h) \/ AskRaises(h) \/ Reply(h) \/ ReplyFails(h) \/ Send(h)
           \/ Read(h) \/ ReadEnds(h) \/ Finally(h) \/ Leave(h)

GSNext == \/ \E h \in Handlers : Step(h) \/ \E s \in Slots \cup {NoSlot} : Accept(h, s)
          \/ Work \/ WorkerEnds \/ Shutdown \/ Close \/ Closed

\* Every await of a handler has a timeout, and the frames of a session run out.
GSSpec == /\ GSInit /\ [][GSNext]_gsvars
          /\ \A h \in Handlers : WF_gsvars(Step(h))
          /\ WF_gsvars(Close) /\ WF_gsvars(Closed)

-----------------------------------------------------------------------------
Ops == {"none", "probe", "hello", "tick", "input", "inactive", "close"}
Commands == [by : Handlers \cup {"none"}, op : Ops, slot : Slots \cup {NoSlot}]

\* Every variable has its type.
GSTypeOK ==
  /\ pc \in [Handlers -> {"free", "refusing", "lock", "reply", "send", "read",
                          "finally", "writer"}]
  /\ slot \in [Handlers -> Slots \cup {NoSlot}] /\ owned \in [Handlers -> BOOLEAN]
  /\ op \in [Handlers -> Ops] /\ frames \in [Handlers -> 0..FRAMES]
  /\ got \in [Handlers -> Commands]
  /\ line \in Seq(Handlers) /\ stdin \in Seq(Commands) /\ stdout \in Seq(Commands)
  /\ claimed \in [Slots -> BOOLEAN] /\ connected \in [Slots -> BOOLEAN]
  /\ open \subseteq Slots /\ done \in Commands
  /\ {broken, alive, listening, closing, stopped} \subseteq BOOLEAN

\* "Serialize command/reply association": what a player is sent is the worker's
\* answer to that player's own command, never a late answer to another's.
ReplyIsOwn ==
  \A h \in Handlers : pc[h] = "send" /\ op[h] # "inactive" =>
                        got[h] = [by |-> h, op |-> op[h], slot |-> slot[h]]

\* A slot is used once: when the handler that claimed it is gone, the worker has
\* closed it for good, or nobody uses the worker any more.
SlotIsSpent ==
  \A s \in Slots :
    /\ Cardinality({h \in Handlers : owned[h] /\ slot[h] = s}) <= 1
    /\ claimed[s] /\ (\A h \in Handlers : ~(owned[h] /\ slot[h] = s))
         => s \notin open \/ broken

\* The worker does an input only for a slot it has open, right after the tick of the
\* same handler, and only once both players have joined.
InputFollowsTick ==
  [][done' # done /\ done'.op = "input" =>
       /\ done = [done' EXCEPT !.op = "tick"]
       /\ done'.slot \in open
       /\ \A s \in Slots : claimed[s]]_gsvars

\* Every connection ends and close() returns, however the handlers stand in line for
\* the lock and whatever became of the worker.
ServiceStops == /\ ~listening ~> stopped
                /\ \A h \in Handlers : pc[h] # "free" ~> pc[h] = "free"

=============================================================================
