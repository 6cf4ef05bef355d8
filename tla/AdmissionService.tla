-------------------------- MODULE AdmissionService --------------------------
(***************************************************************************)
(* AdmissionService of scripts/session_admission.py: the asyncio handlers  *)
(* in front of the registry of module Admission, from load_registry to     *)
(* close(), and the client at the other end of each connection             *)
(* (exchange).  A handler serves one request.  Registry calls run on the   *)
(* event loop, except a submit, which runs in a thread of its own          *)
(* (asyncio.to_thread), so that here a worker of Admission is the handler  *)
(* whose thread it is.                                                     *)
(***************************************************************************)
EXTENDS Admission

CONSTANTS MAX_TASKS,         \* handlers at a time: 8 in the code
          MAX_VERIFICATIONS  \* submits at a time: 4 in the code

ASSUME QuotaAssumption == /\ MAX_TASKS \in Nat /\ MAX_VERIFICATIONS \in Nat
                          /\ 0 < MAX_VERIFICATIONS /\ MAX_VERIFICATIONS < MAX_TASKS

VARIABLES boot,           \* "loading", then "serving" or "refused"
          pc,             \* where each handler is
          waiting,        \* the connections whose client waits for an answer
          verifications,  \* self.verifications
          closing,        \* self.closing
          awaited,        \* the handlers close() is gathering
          stopped         \* close() has returned

service == <<boot, verifications, closing, awaited, stopped>>
handlers == <<pc, waiting, service>>
svars == <<vars, handlers>>

Tasks == {t \in Workers : pc[t] # "free"}    \* self.tasks

SInit == /\ Init
         /\ boot = "loading"
         /\ pc = [t \in Workers |-> "free"]
         /\ waiting = {}
         /\ verifications = 0
         /\ closing = FALSE
         /\ awaited = {}
         /\ stopped = FALSE

Goto(t, from, to) == pc[t] = from /\ pc' = [pc EXCEPT ![t] = to]

-----------------------------------------------------------------------------
(* The operator's file                                                     *)

\* A file as the checks tell files apart: its schema, the key pinned for an
\* attestor, and the PCR policy that may go with it.
ConfigFiles == [schema : BOOLEAN, ak : {"sized", "empty_or_large"},
                pcr : {"absent", "reference", "malformed"}]

PcrReference(f) == f.pcr = "reference"
QuoteVerifier(f) == f.ak = "sized" /\ (f.pcr # "absent" => PcrReference(f))

\* load_registry: one entry that is wrong refuses the whole file, and the process
\* ends before it listens.
LoadRegistry ==
  /\ boot = "loading"
  /\ \E f \in ConfigFiles : boot' = IF f.schema /\ QuoteVerifier(f) THEN "serving" ELSE "refused"
  /\ UNCHANGED <<vars, pc, waiting, verifications, closing, awaited, stopped>>

-----------------------------------------------------------------------------
(* A connection                                                            *)

\* A connection gets a handler; beyond the limit, or while closing, it is closed
\* at once and nothing else happens.
Accept(t) == /\ boot = "serving" /\ ~closing
             /\ Cardinality(Tasks) < MAX_TASKS
             /\ Goto(t, "free", "reading")
             /\ waiting' = waiting \cup {t}
             /\ UNCHANGED <<vars, service>>

\* receive: one frame within 4 s, of a legal size, that decode takes for an object
\* without duplicate fields or depth; else the connection ends without an answer.
Receive(t) == /\ \/ Goto(t, "reading", "dispatch")
                 \/ Goto(t, "reading", "leaving")
              /\ UNCHANGED <<vars, waiting, service>>

\* dispatch raises ValueError, VERIFIER_BUSY included: an error reply, and the
\* registry as it was.
HandleError(t) == /\ Goto(t, "dispatch", "replying")
                  /\ UNCHANGED <<vars, waiting, service>>

\* register, status, revoke and challenge run on the event loop.
HandleDispatch(t) ==
  /\ Goto(t, "dispatch", "replying")
  /\ \/ \E k \in Controllers, p \in Peers, a \in Attestors : Register(k, p, a)
     \/ \E k \in Controllers, p \in Peers : RegisterRefused(k, p)
     \/ \E k \in Controllers, i \in Ids : Status(k, i) \/ Revoke(k, i)
     \/ \E a \in Attestors, i \in Ids : Challenge(a, i)
  /\ UNCHANGED <<waiting, service>>

\* A submit takes one of the verification slots and is handed to a thread.
HandleSubmit(t) ==
  /\ verifications < MAX_VERIFICATIONS
  /\ Goto(t, "dispatch", "starting")
  /\ verifications' = verifications + 1
  /\ UNCHANGED <<vars, boot, waiting, closing, awaited, stopped>>

ThreadBegin(t) ==
  /\ Goto(t, "starting", "verifying")
  /\ \E a \in Attestors, i \in Ids : SubmitBegin(t, a, i)
  /\ UNCHANGED <<waiting, service>>

\* dispatch refuses the submit before it reaches the verifier: another role, an
\* unknown or closed admission, no pending challenge, a malformed message.
ThreadReject(t) == /\ Goto(t, "starting", "returned")
                   /\ UNCHANGED <<vars, waiting, service>>

ThreadVerify(t) == /\ pc[t] = "verifying"
                   /\ Verifier(t)
                   /\ UNCHANGED handlers

ThreadFinish(t) == /\ Goto(t, "verifying", "returned")
                   /\ SubmitFinish(t) \/ SubmitRaise(t)
                   /\ UNCHANGED <<waiting, service>>

\* The event loop resumes the handler: the `finally' that frees the slot.
HandleReturn(t) == /\ Goto(t, "returned", "replying")
                   /\ verifications' = verifications - 1
                   /\ UNCHANGED <<vars, boot, waiting, closing, awaited, stopped>>

\* encode, write and drain: the client has its answer, unless it is gone or takes
\* more than 4 s to take it.
Reply(t) == /\ Goto(t, "replying", "leaving")
            /\ waiting' \in {waiting, waiting \ {t}}
            /\ UNCHANGED <<vars, service>>

\* exchange: the client has waited 12 s, or is gone; nobody tells the handler.
GiveUp(t) == /\ t \in waiting
             /\ waiting' = waiting \ {t}
             /\ UNCHANGED <<vars, pc, service>>

\* Mutant of Leave: the task stays in what close() waits for.
LeaveUnseen(t) == /\ Goto(t, "leaving", "free")
                  /\ waiting' = waiting \ {t}
                  /\ UNCHANGED <<vars, service>>

\* The writer is closed within 1 s and the handler discards itself.
Leave(t) == /\ Goto(t, "leaving", "free")
            /\ waiting' = waiting \ {t}
            /\ awaited' = awaited \ {t}
            /\ UNCHANGED <<vars, boot, verifications, closing, stopped>>

-----------------------------------------------------------------------------
\* SIGINT or SIGTERM: close() gathers the handlers there are.
Close == /\ boot = "serving" /\ ~closing
         /\ closing' = TRUE
         /\ awaited' = Tasks
         /\ UNCHANGED <<vars, boot, pc, waiting, verifications, stopped>>

Stopped == /\ closing /\ ~stopped
           /\ awaited = {}
           /\ stopped' = TRUE
           /\ UNCHANGED <<vars, boot, pc, waiting, verifications, closing, awaited>>

ServiceTick == boot = "serving" /\ ~stopped /\ Tick /\ UNCHANGED handlers

Handler(t) == \/ Receive(t) \/ HandleError(t) \/ HandleDispatch(t) \/ HandleSubmit(t)
              \/ ThreadBegin(t) \/ ThreadReject(t) \/ ThreadVerify(t)
              \/ ThreadFinish(t) \/ HandleReturn(t) \/ Reply(t) \/ Leave(t)

SNext == \/ LoadRegistry \/ ServiceTick \/ Close \/ Stopped
         \/ \E t \in Workers : Accept(t) \/ Handler(t) \/ GiveUp(t)

\* The loop and the threads run: receive, drain, wait_closed and the verifier's
\* tools all have timeouts. Nothing is assumed of the clients.
SSpec == /\ SInit /\ [][SNext]_svars
         /\ \A t \in Workers : WF_svars(Handler(t))
         /\ WF_svars(Stopped)

-----------------------------------------------------------------------------
\* Every variable has its type, the registry's included.
ServiceTypeOK ==
  /\ TypeOK
  /\ boot \in {"loading", "serving", "refused"}
  /\ pc \in [Workers -> {"free", "reading", "dispatch", "starting", "verifying", "returned",
                         "replying", "leaving"}]
  /\ verifications \in Nat
  /\ closing \in BOOLEAN /\ stopped \in BOOLEAN
  /\ awaited \subseteq Workers /\ waiting \subseteq Workers

\* When close() has returned no thread is left that could still write an entry, and
\* every verification slot has been given back, on whatever path.
StoppedIsQuiet == stopped => /\ Tasks = {} /\ verifications = 0
                             /\ \A w \in Workers : flight[w] = Idle

\* close() returns, whatever the handlers were doing, and not before the last thread
\* that could still write an entry: "await owned work so it cannot restore state later".
CloseCompletes == (closing ~> stopped) /\ []StoppedIsQuiet
=============================================================================
