----------------------------- MODULE LabServer -----------------------------
(***************************************************************************)
(* The lab-udp/2 server: lab/server/server.c with the policy functions of  *)
(* lab/contracts/evidence.c and the window of module LabSequence.          *)
(*                                                                         *)
(* The network may lose, repeat, delay and reorder datagrams, and anybody  *)
(* on the loopback may send one, so any datagram may arrive from any       *)
(* address at any time, those of sessions long closed included.  One tick  *)
(* is one turn of the poll loop (100 ms); `idle' and `left' are the        *)
(* differences now - last_rx and deadline - now the code computes.         *)
(***************************************************************************)
EXTENDS LabSequence, FiniteSets

CONSTANTS Addrs,         \* peers' socket addresses
          Nonces,        \* client nonces, the nonzero ones
          Sessions,      \* 128-bit sessions that getrandom may yield
          RequestIds,    \* request ids a client may use
          SLOTS,         \* MAX_CLIENTS, the length of the table
          MAX_CLIENTS,   \* s->max_clients
          TIMEOUT,       \* s->timeout_ms, in ticks
          REQUEST_TIME   \* policy.request_timeout_ms, in ticks

ASSUME ServerAssumption == /\ SLOTS \in Nat \ {0}
                           /\ MAX_CLIENTS \in 1..SLOTS
                           /\ TIMEOUT \in Nat \ {0}
                           /\ REQUEST_TIME \in Nat \ {0}
                           /\ RequestIds \subseteq Nat \ {0}

VARIABLES slot,      \* s->c
          running,   \* the loop has not ended
          out,       \* the datagrams the last step sent
          issued     \* history: sessions ever opened
lvars == <<slot, running, out, issued>>

Table == 1..SLOTS

None == "none"

NoRequest == [pending |-> FALSE, request |-> 0, last |-> 0, left |-> 0]

\* History of a session: the numbers accepted, how many datagrams, and how many
\* observations of each request.
NoPast == [taken |-> {}, count |-> 0, answered |-> [r \in RequestIds |-> 0]]

\* release_client, and the memset of a slot nobody uses.
Released == [used |-> FALSE, addr |-> None, nonce |-> None, session |-> None,
             window |-> FreshWindow, evidence |-> NoRequest, idle |-> 0, past |-> NoPast]

Used == {i \in Table : slot[i].used}

\* The slot of an address: the lookup of the receive loop.
Has(a) == \E i \in Used : slot[i].addr = a
SlotOf(a) == CHOOSE i \in Used : slot[i].addr = a /\ \A j \in Used : slot[j].addr = a => i <= j

\* The first free slot, unless max_clients are in use.
Full == Cardinality(Used) >= MAX_CLIENTS \/ Used = Table
FreeSlot == CHOOSE i \in Table \ Used : \A j \in Table \ Used : i <= j

\* The reasons a datagram ends a session with; all others only refuse.
FinalReasons == {"OK", "TIMEOUT", "CLOSING"}
Said(to, kind, session, reason) ==
  [to |-> to, kind |-> kind, session |-> session,
   reason |-> IF reason \in FinalReasons THEN reason ELSE "REFUSED"]
Rst(i, reason) == Said(slot[i].addr, "RST", slot[i].session, reason)
RstTo(a, reason) == Said(a, "RST", None, reason)
Ack(c) == Said(c.addr, "HELLO_ACK", c.session, "OK")
Pong(i) == Said(slot[i].addr, "PONG", slot[i].session, "OK")
Decision(i, reason) == Said(slot[i].addr, "DECISION", slot[i].session, reason)

LInit == /\ slot = [i \in Table |-> Released]
         /\ running = TRUE
         /\ out = {}
         /\ issued = {}

\* A datagram is answered and changes nothing.
Only(m) == out' = {m} /\ UNCHANGED <<slot, issued>>

\* Mutant of Release: the slot is left as it is.
ReleaseLater(i, m) == Only(m)

\* The slot is cleared and one last datagram goes out.
Release(i, m) == /\ out' = {m}
                 /\ slot' = [slot EXCEPT ![i] = Released]
                 /\ UNCHANGED issued

-----------------------------------------------------------------------------
(* do_new and do_hello: an address without a slot                          *)

\* "max alcanzado", whatever the datagram is.
NewBusy(a) == /\ ~Has(a) /\ Full
              /\ Only(RstTo(a, "BUSY"))

\* Anything but a well-formed HELLO; or getrandom fails ("entropy unavailable").
NewRefused(a) == /\ ~Has(a) /\ ~Full
                 /\ \E reason \in {"BAD", "BUSY"} : Only(RstTo(a, reason))

HelloDuplicate(a, n) == /\ ~Has(a) /\ ~Full
                        /\ \E i \in Used : slot[i].nonce = n
                        /\ Only(RstTo(a, "DUP_NONCE"))

\* getrandom yields a session that was never used; which one does not matter.
NewSession == CHOOSE x \in Sessions \ issued : TRUE
Opened(c) == /\ Sessions \ issued # {} /\ issued' = issued \cup {c.session}
             /\ slot' = [slot EXCEPT ![FreeSlot] = c] /\ out' = {Ack(c)}

\* Mutant of HelloOpen: the other slots' nonces are not compared.
HelloOpenAny(a, n) ==
  /\ ~Has(a) /\ ~Full
  /\ Opened([Released EXCEPT !.used = TRUE, !.addr = a, !.nonce = n, !.session = NewSession])

HelloOpen(a, n) ==
  /\ ~Has(a) /\ ~Full
  /\ \A i \in Used : slot[i].nonce # n
  /\ Opened([Released EXCEPT !.used = TRUE, !.addr = a, !.nonce = n, !.session = NewSession])

-----------------------------------------------------------------------------
(* do_open: an address with a slot                                         *)

\* Bad size, header, length, flags or kind.
OpenMalformed(a) == Has(a) /\ Only(Rst(SlotOf(a), "BAD"))

\* Mutant of HelloAgain: the retransmission renews the timeout.
HelloAgainRenews(a, n) ==
  /\ Has(a)
  /\ LET i == SlotOf(a) IN
     IF slot[i].nonce = n
     THEN /\ slot' = [slot EXCEPT ![i].idle = 0]
          /\ out' = {Ack(slot[i])}
          /\ UNCHANGED issued
     ELSE Only(Rst(i, "DUP_SESSION"))

\* The same HELLO again gets the same ACK and does not renew the timeout; another
\* HELLO, be it only in its name or its header, is refused.
HelloAgain(a, n) ==
  /\ Has(a)
  /\ \/ slot[SlotOf(a)].nonce = n /\ Only(Ack(slot[SlotOf(a)]))
     \/ Only(Rst(SlotOf(a), "DUP_SESSION"))

\* A datagram with number q is accepted; it is evidence about the requests of rs.
Counted(past, q, rs) ==
  [taken |-> past.taken \cup {q}, count |-> past.count + 1,
   answered |-> [r \in RequestIds |-> past.answered[r] + IF r \in rs THEN 1 ELSE 0]]

\* A datagram that names another session, or evidence of another instance (nonce).
Foreign(a) == /\ Has(a)
              /\ \/ Only(Rst(SlotOf(a), "BAD_SESSION"))
                 \/ \E reason \in {"BAD_SESSION", "OLD_INSTANCE"} : Only(Decision(SlotOf(a), reason))

Ping(a, q) ==
  LET i == SlotOf(a)
      reason == SeqReason(slot[i].window, q)
  IN
  /\ Has(a)
  /\ \/ /\ reason = "OK"
        /\ slot' = [slot EXCEPT ![i].window = SeqAdvance(slot[i].window, q), ![i].idle = 0,
                                ![i].past = Counted(@, q, {})]
        /\ out' = {Pong(i)} /\ UNCHANGED issued
     \/ reason = "CLOSING" /\ Release(i, Rst(i, reason))
     \/ reason \in {"BAD_SEQ", "REPLAY"} /\ Only(Rst(i, reason))

\* BYE and RST close the session they name.
Bye(a) == Has(a) /\ Release(SlotOf(a), Rst(SlotOf(a), "OK"))

-----------------------------------------------------------------------------
(* do_evidence, on copies of the slot's evidence state and window          *)

\* lab_policy_request; `good' stands for the checks of one datagram's fields
\* (origin, capability, class, reserved) against the server's fixed policy.
RequestReason(c, r, good) ==
  IF ~good THEN "BAD"
  ELSE IF r <= c.evidence.last THEN "REPLAY"
  ELSE IF c.evidence.pending /\ c.evidence.left > 0 THEN "BUSY"
  ELSE "OK"

\* lab_policy_observation; `good' now includes the match with the request.
ObservationReason(c, r, good) ==
  IF ~c.evidence.pending \/ c.evidence.request # r THEN "UNKNOWN_REQUEST"
  ELSE IF c.evidence.left = 0 THEN "EXPIRED"
  ELSE IF ~good THEN "BAD"
  ELSE "OK"

Accepted(i, q, evidence, rs) ==
  /\ slot' = [slot EXCEPT ![i].evidence = evidence, ![i].idle = 0, ![i].past = Counted(@, q, rs),
                          ![i].window = SeqAdvance(slot[i].window, q)]
  /\ UNCHANGED issued

Refused(i, reason) == IF reason = "CLOSING" THEN Release(i, Decision(i, reason))
                                            ELSE Only(Decision(i, reason))

\* do_evidence: the policy first, then the window: a refusal by either changes neither,
\* and the number only counts for what the policy accepts.
Evidence(a, policy, evidence, rs) ==
  LET i == SlotOf(a) IN
  \/ policy # "OK" /\ Only(Decision(i, policy))
  \/ /\ policy = "OK"
     /\ \E q \in 0..SEQ_MAX :
          LET reason == SeqReason(slot[i].window, q) IN
          \/ /\ reason = "OK" /\ Accepted(i, q, evidence, rs) /\ out' = {Decision(i, reason)}
          \/ reason # "OK" /\ Refused(i, reason)

Request(a, r, good) ==
  /\ Has(a)
  /\ Evidence(a, RequestReason(slot[SlotOf(a)], r, good),
              [pending |-> TRUE, request |-> r, last |-> r, left |-> REQUEST_TIME], {})

\* The request is done with.
Answered(e) == [e EXCEPT !.pending = FALSE]

Observation(a, r, good) ==
  /\ Has(a)
  /\ Evidence(a, ObservationReason(slot[SlotOf(a)], r, good), Answered(slot[SlotOf(a)].evidence), {r})

-----------------------------------------------------------------------------
(* The loop                                                                *)

TimedOut(c) == c.used /\ c.idle + 1 > TIMEOUT

Older(c) == [c EXCEPT !.idle = @ + 1,
                      !.evidence.left = IF @ > 0 THEN @ - 1 ELSE 0]

\* poll returns, 100 ms later at most, and sweep_timeouts runs.
Poll == /\ slot' = [i \in Table |-> IF TimedOut(slot[i]) THEN Released
                                    ELSE IF slot[i].used THEN Older(slot[i])
                                    ELSE slot[i]]
        /\ out' = {Rst(i, "TIMEOUT") : i \in {j \in Table : TimedOut(slot[j])}}
        /\ UNCHANGED issued

\* A signal or an I/O error ends the loop and the process: every session is told,
\* and its slot goes with the process.
Stop == /\ running' = FALSE
        /\ out' = {Rst(i, "CLOSING") : i \in Used}
        /\ slot' = [i \in Table |-> Released]
        /\ UNCHANGED issued

Receive(a) ==
  \/ NewBusy(a) \/ NewRefused(a) \/ OpenMalformed(a) \/ Foreign(a) \/ Bye(a)
  \/ \E n \in Nonces : HelloDuplicate(a, n) \/ HelloOpen(a, n) \/ HelloAgain(a, n)
  \/ \E q \in 0..SEQ_MAX : Ping(a, q)
  \/ \E r \in RequestIds, good \in BOOLEAN : Request(a, r, good) \/ Observation(a, r, good)

Loop == running /\ UNCHANGED running /\ Poll

LNext == \/ Loop
         \/ running /\ UNCHANGED running /\ \E a \in Addrs : Receive(a)
         \/ running /\ Stop

\* The loop polls again and again while it runs.
LSpec == LInit /\ [][LNext]_lvars /\ WF_lvars(Loop)

-----------------------------------------------------------------------------
\* An address, a nonce and a session belong to one slot at most, and no more than
\* max_clients slots are in use, whatever HELLOs arrive twice or late.
SlotsAreDistinct ==
  /\ \A i, j \in Used : i # j => /\ slot[i].addr # slot[j].addr
                                 /\ slot[i].nonce # slot[j].nonce
                                 /\ slot[i].session # slot[j].session
  /\ Cardinality(Used) <= MAX_CLIENTS

\* The numbers of slot i are those of a SequenceWindow.
Numbers(i) == INSTANCE SequenceWindow WITH window <- slot[i].window, taken <- slot[i].past.taken,
                                           count <- slot[i].past.count

\* No datagram is accepted twice in a session: PING, REQUEST and OBSERVATION draw
\* on one window, a refused one does not use a number up, and a number that is only
\* late is still accepted, up to the last number there is.  No request gets two
\* accepted observations either, though one may arrive again under a new number.
DatagramOnce == \A i \in Table : /\ Numbers(i)!WTypeOK /\ Numbers(i)!AcceptedOnce
                                 /\ Numbers(i)!LateIsAccepted
                                 /\ \A r \in RequestIds : slot[i].past.answered[r] <= 1

\* The RSTs that make the relay and the client drop a session (bye, rst, timeout,
\* closing) are only sent for sessions the server itself has dropped.
FinalRstMeansClosed ==
  \A m \in out : m.kind = "RST" /\ m.reason # "REFUSED" /\ m.session # None
                 => \A i \in Used : slot[i].session # m.session

\* Every session ends, even if its HELLO is repeated for ever: only accepted
\* datagrams renew it, and the sequence numbers (here the sessions too) run out.
SessionsEnd == <>[](Used = {})
=============================================================================
