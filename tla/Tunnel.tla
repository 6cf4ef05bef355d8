------------------------------- MODULE Tunnel -------------------------------
(***************************************************************************)
(* The data plane of the gateway: one Channel of arena_gateway.py at each  *)
(* end of a TLS tunnel, the client role's connect() and the server role's  *)
(* serve_socket(), with the five tasks and the close event of forward(),   *)
(* and the bounded queues, rate buckets and read deadlines of              *)
(* gateway_protocol.py.                                                    *)
(*                                                                         *)
(* A frame is one element of the TLS stream.  The queues' byte limit is    *)
(* subsumed by their count limit.  Time passes in ticks, and only when no  *)
(* task is ready; a loop, network or supervisor that is not so prompt is   *)
(* the action Stall, which lets any deadline pass.  CLOSE, which           *)
(* tls_reader understands, is sent by no code and left out.                *)
(***************************************************************************)
EXTENDS Naturals, Sequences, SequencesExt

CONSTANTS Burst,     \* frames in a full rate bucket: 64 in the code
          Refill,    \* tokens per tick: 512 a second
          QCount,    \* frames in a queue: 64
          Age,       \* ticks an entry may wait in a queue: 100 ms
          Idle,      \* ticks without a frame, or without ROUTE_ACK: 1 s
          Beat,      \* ticks between heartbeats: 250 ms
          AckTicks,  \* ticks a prompt supervisor takes to answer ROUTE_OPEN: it
                     \* polls every frame of the game, about 16 ms
          WireMax,   \* frames in flight before drain() blocks
          MaxSaid    \* bound: datagrams each game sends

ASSUME TunnelBounds == /\ Burst \in Nat /\ Refill \in Nat /\ QCount \in Nat /\ WireMax \in Nat \ {0}
                       /\ Age \in Nat /\ Beat \in Nat \ {0} /\ AckTicks \in Nat /\ MaxSaid \in Nat
                       /\ Idle \in Nat /\ AckTicks + Beat < Idle /\ AckTicks <= Age

VARIABLES ch,     \* the channel at each end
          wire,   \* frames each end has written to the stream
          said,   \* datagrams each game has sent to its gateway
          got     \* the datagrams each game has received
tvars == <<ch, wire, said, got>>

Sides == {"client", "server"}
Other(e) == IF e = "client" THEN "server" ELSE "client"

Frame(kind, n) == [kind |-> kind, n |-> n]
Entry(f) == [frame |-> f, age |-> 0]

\* phase: new, opening (OPEN sent), wait (ROUTE_OPEN sent), forward, retired.
NewChannel == [phase |-> "new", why |-> "none", ended |-> "none", inbox |-> <<>>,
               out |-> <<>>, in |-> <<>>, tx |-> Burst, rx |-> Burst, quiet |-> 0, beat |-> 0]

TInit == /\ ch = [e \in Sides |-> NewChannel] /\ wire = [e \in Sides |-> <<>>]
         /\ said = [e \in Sides |-> 0] /\ got = [e \in Sides |-> <<>>]

Write(e, f) == wire' = [wire EXCEPT ![e] = Append(@, f)]
Read(e) == wire' = [wire EXCEPT ![Other(e)] = Tail(@)]
Arrived(e) == wire[Other(e)] # <<>>
Next1(e) == Head(wire[Other(e)])

\* retire(), after forward() has cancelled its tasks or setup has failed: nothing
\* more is forwarded and the closed writer is an end of file to the other end.
RetireChannel(e, why) ==
    /\ ch' = [ch EXCEPT ![e] = [NewChannel EXCEPT !.phase = "retired", !.why = why]]
    /\ Write(e, Frame("EOF", 0))
    /\ UNCHANGED <<said, got>>

-----------------------------------------------------------------------------
(* Setting the channel up                                                  *)

\* serve_socket: TLS and the certificate are right, OPEN goes out.
Open(e) ==
    /\ e = "server" /\ ch[e].phase = "new"
    /\ Write(e, Frame("OPEN", 0))
    /\ ch' = [ch EXCEPT ![e].phase = "opening", ![e].quiet = 0]
    /\ UNCHANGED <<said, got>>

\* connect: OPEN arrives, OPEN_ACK is sent and the route is advertised.
Connect(e) ==
    /\ e = "client" /\ ch[e].phase = "new" /\ Arrived(e) /\ Next1(e).kind = "OPEN"
    /\ wire' = [wire EXCEPT ![e] = Append(@, Frame("OPEN_ACK", 0)), ![Other(e)] = Tail(@)]
    /\ ch' = [ch EXCEPT ![e].phase = "wait", ![e].quiet = 0]
    /\ UNCHANGED <<said, got>>

OpenAcked(e) ==
    /\ ch[e].phase = "opening" /\ Arrived(e) /\ Next1(e).kind = "OPEN_ACK"
    /\ Read(e)
    /\ ch' = [ch EXCEPT ![e].phase = "wait", ![e].quiet = 0]
    /\ UNCHANGED <<said, got>>

\* acknowledge and the end of advertise: the client's origin is known from here,
\* the six tasks start and the heartbeat sleeps before its first frame.
RouteAck(e) ==
    /\ ch[e].phase = "wait"
    /\ ch' = [ch EXCEPT ![e].phase = "forward", ![e].quiet = 0, ![e].beat = 0]
    /\ UNCHANGED <<wire, said, got>>

\* No OPEN or OPEN_ACK in time, a closed stream, or no ROUTE_ACK within a
\* second.
OpeningFails(e) ==
    /\ ch[e].phase \in {"new", "opening", "wait"}
    /\ ch[e].quiet > Idle \/ (ch[e].phase # "wait" /\ Arrived(e) /\ Next1(e).kind = "EOF")
    /\ RetireChannel(e, IF ch[e].quiet > Idle THEN "deadline" ELSE "eof")

\* SHUTDOWN, the end of the pipe or of the process: close() cancels everything.
Shutdown(e) == ch[e].phase # "retired" /\ RetireChannel(e, "shutdown")

-----------------------------------------------------------------------------
(* forward()                                                               *)

\* A task runs until forward() has seen the first of them end and cancels all.
Running(e, task) == ch[e].phase = "forward" /\ ch[e].ended # task

\* The first task that ends; its result is the channel's.
Ended(e, task, why) ==
    /\ ch[e].ended = "none"
    /\ ch' = [ch EXCEPT ![e].ended = task, ![e].why = why]
    /\ UNCHANGED <<wire, said, got>>

\* BoundedQueue.put, with the other changes of the step; full: the task raises.
Put(e, q, f, c, task) ==
    IF Len(c[q]) >= QCount THEN Ended(e, task, "full")
    ELSE /\ ch' = [ch EXCEPT ![e] = [c EXCEPT ![q] = Append(@, Entry(f))]]
         /\ UNCHANGED <<said, got>>

\* Mutant of Forwardable: connect() is trusted to have filtered the socket.
ForwardableAny(f) == f.kind \in {"data", "foreign"}
\* The datagram's sender is the channel's origin.
Forwardable(f) == f.kind = "data"

UdpReader(e) ==
    /\ Running(e, "udp_reader") /\ ch[e].inbox # <<>>
    /\ LET f == Head(ch[e].inbox)
           c == [ch[e] EXCEPT !.inbox = Tail(@), !.tx = @ - 1]
       IN IF ch[e].tx = 0 THEN Ended(e, "udp_reader", "tx_rate")
          ELSE IF Forwardable(f) THEN Put(e, "out", f, c, "udp_reader") /\ UNCHANGED wire
          ELSE ch' = [ch EXCEPT ![e] = c] /\ UNCHANGED <<wire, said, got>>

TlsWriter(e) ==
    /\ Running(e, "tls_writer") /\ ch[e].out # <<>> /\ Len(wire[e]) < WireMax
    /\ LET entry == Head(ch[e].out)
       IN IF entry.age > Age THEN Ended(e, "tls_writer", "expired")
          ELSE /\ Write(e, entry.frame)
               /\ ch' = [ch EXCEPT ![e].out = Tail(@)]
               /\ UNCHANGED <<said, got>>

\* read_frame, which waits a second for a first byte, and the receiving bucket;
\* heartbeats are only counted.
TlsReader(e) ==
    /\ Running(e, "tls_reader")
    /\ Arrived(e) \/ ch[e].quiet > Idle
    /\ LET f == Next1(e)
           c == [ch[e] EXCEPT !.quiet = 0, !.rx = @ - 1]
       IN IF ~Arrived(e) THEN Ended(e, "tls_reader", "idle")
          ELSE IF f.kind = "EOF" THEN Ended(e, "tls_reader", "eof")
          ELSE IF ch[e].rx = 0 THEN Ended(e, "tls_reader", "rx_rate")
          ELSE IF f.kind = "heartbeat" THEN Read(e) /\ ch' = [ch EXCEPT ![e] = c] /\ UNCHANGED <<said, got>>
          ELSE Put(e, "in", f, c, "tls_reader") /\ (Len(c.in) < QCount => Read(e))

\* A loop, a network or a supervisor that stalls lets a deadline pass: the rest of
\* a frame, a drain, a datagram not taken, an idle reader, an entry grown old, a
\* ROUTE_ACK.  A socket that fails, or a datagram that frame() refuses for its
\* length, ends its task just so.
Stall(e) == \/ \E task \in {"tls_reader", "tls_writer", "udp_reader", "udp_writer"} :
                  Running(e, task) /\ Ended(e, task, "stall")
            \/ ch[e].phase \in {"new", "opening", "wait"} /\ RetireChannel(e, "stall")

UdpWriter(e) ==
    /\ Running(e, "udp_writer") /\ ch[e].in # <<>>
    /\ LET entry == Head(ch[e].in)
       IN IF entry.age > Age THEN Ended(e, "udp_writer", "expired")
          ELSE /\ got' = [got EXCEPT ![e] = Append(@, entry.frame)]
               /\ ch' = [ch EXCEPT ![e].in = Tail(@)]
               /\ UNCHANGED <<wire, said>>

\* Mutant of BeatDue: as rare as the other end's patience.
BeatDueRarely(e) == ch[e].beat > Idle + Beat
BeatDue(e) == ch[e].beat >= Beat

HeartbeatTask(e) ==
    /\ Running(e, "heartbeat") /\ BeatDue(e)
    /\ Put(e, "out", Frame("heartbeat", 0), [ch[e] EXCEPT !.beat = 0], "heartbeat")
    /\ UNCHANGED wire

\* ROUTE_CLOSE from the supervisor sets the close event that forward() waits for.  The
\* supervisor answers ROUTE_OPEN before it can close the route, so that none comes
\* before the ROUTE_ACK; if one is there when advertise() resumes, that raises, and the
\* channel is retired just so.
RouteClose(e) == Running(e, "closed") /\ Ended(e, "closed", "closed")

Cancel(e) == /\ ch[e].phase = "forward" /\ ch[e].ended # "none" /\ RetireChannel(e, ch[e].why)

-----------------------------------------------------------------------------
(* The games, the clock and the faults                                     *)

\* The client's game knows the port once it is advertised; the server's game
\* answers what it receives.
GameSends(e) ==
    /\ said[e] < MaxSaid
    /\ ch[e].phase \in {"wait", "forward"} /\ (e = "server" => said[e] < Len(got[e]))
    /\ said' = [said EXCEPT ![e] = @ + 1]
    /\ ch' = [ch EXCEPT ![e].inbox = Append(@, Frame("data", said'[e]))]
    /\ UNCHANGED <<wire, got>>

\* Until ROUTE_ACK connects it, the client's socket queues anybody's datagrams.
ForeignSends(e) ==
    /\ e = "client" /\ ch[e].phase = "wait"
    /\ \A i \in DOMAIN ch[e].inbox : ch[e].inbox[i].kind # "foreign"
    /\ ch' = [ch EXCEPT ![e].inbox = Append(@, Frame("foreign", 0))]
    /\ UNCHANGED <<wire, said, got>>

\* Something at e can run now.
Ready(e) == \/ ch[e].phase = "new" /\ (e = "server" \/ Arrived(e))
            \/ ch[e].phase = "opening" /\ Arrived(e)
            \/ ch[e].phase = "wait" /\ ch[e].quiet >= AckTicks
            \/ /\ ch[e].phase = "forward"
               /\ \/ ch[e].inbox # <<>> \/ ch[e].in # <<>> \/ Arrived(e) \/ BeatDue(e)
                  \/ ch[e].out # <<>> /\ Len(wire[e]) < WireMax
                  \/ ch[e].ended # "none" \/ ch[e].quiet > Idle

UpTo(n, limit) == IF n < limit THEN n ELSE limit
Aged(q) == [i \in DOMAIN q |-> [q[i] EXCEPT !.age = UpTo(@ + 1, Age + 1)]]
Older(c) == IF c.phase = "retired" THEN c
            ELSE [c EXCEPT !.out = Aged(@), !.in = Aged(@), !.quiet = UpTo(@ + 1, Idle + 1),
                           !.beat = IF c.phase = "forward" THEN UpTo(@ + 1, Idle + Beat + 1) ELSE 0,
                           !.tx = UpTo(@ + Refill, Burst), !.rx = UpTo(@ + Refill, Burst)]
Tick == /\ \A e \in Sides : ~Ready(e)
        /\ \E e \in Sides : ch[e].phase # "retired"
        /\ ch' = [e \in Sides |-> Older(ch[e])]
        /\ UNCHANGED <<wire, said, got>>

Tasks(e) == \/ Open(e) \/ Connect(e) \/ OpenAcked(e) \/ OpeningFails(e)
            \/ UdpReader(e) \/ TlsWriter(e) \/ TlsReader(e)
            \/ UdpWriter(e) \/ HeartbeatTask(e) \/ Cancel(e)
TNext == \/ Tick
         \/ \E e \in Sides : \/ Tasks(e) \/ RouteAck(e) \/ RouteClose(e) \/ Shutdown(e)
                            \/ GameSends(e) \/ ForeignSends(e) \/ Stall(e)

\* asyncio runs every ready task, the supervisor answers or stalls, and time
\* passes; nothing is assumed of the games.
TSpec == /\ TInit /\ [][TNext]_tvars /\ WF_tvars(Tick)
         /\ \A e \in Sides : WF_tvars(Tasks(e)) /\ WF_tvars(RouteAck(e) \/ Stall(e))

-----------------------------------------------------------------------------
\* What a game receives is what the other game sent, in order, each datagram
\* once, none missing in between and nothing anybody else left in the socket
\* before ROUTE_ACK, however the queues, faults and closes interleave.
Faithful == \A e \in Sides :
    got[e] = [i \in DOMAIN got[e] |-> Frame("data", i)] /\ Len(got[e]) <= said[Other(e)]

\* The limits do not cut a healthy tunnel: heartbeats of both ends keep it from
\* being idle and prompt tasks keep the queues young, while supervisors answer
\* ROUTE_OPEN within AckTicks; only a stall makes a deadline pass.
HealthyStaysUp == \A e \in Sides : ch[e].why \notin {"idle", "expired", "deadline"}

=============================================================================
