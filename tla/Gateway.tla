------------------------------ MODULE Gateway ------------------------------
(***************************************************************************)
(* The ENet/mTLS gateway of scripts/arena_gateway.py in its server role,   *)
(* joined by the private pipes to its supervisor: GatewayProcess and       *)
(* PeerRoutes of game/scripts, driven as game/tests/gateway_peer.gd does.  *)
(*                                                                         *)
(* A step is what runs between two awaits of the gateway, or the handling  *)
(* of one message or one ENet event by the supervisor.  A connection is    *)
(* its serve_socket task and the channel it may create, whose random id is *)
(* the connection itself.  The queue, the pipe and the buffer that carry   *)
(* messages to the supervisor are one queue; a message knows whether the   *)
(* request id before its own was lost, which is all that the check of      *)
(* contiguous ids tells apart.  Heartbeats down the pipe change nothing    *)
(* and are left out; their absence is one of the ways Die happens.         *)
(***************************************************************************)
EXTENDS Integers, FiniteSets, Sequences

CONSTANTS Conns,         \* TCP connections that may be accepted
          Ports,         \* UDP ports the system may hand out
          PeerIds,       \* ENet peer ids
          MAX_PENDING,   \* handshakes at a time: 4 in the code
          MAX_CHANNELS,  \* channels at a time: 8
          MAX_ROUTES,    \* channels and tombstones: 256
          UP_MAX,        \* messages the way up holds: 128
          MAX_ID         \* associations the supervisor makes: 2^31 - 1

ASSUME GatewayAssumption == /\ MAX_PENDING \in Nat /\ MAX_CHANNELS \in Nat
                            /\ MAX_ROUTES \in Nat /\ UP_MAX \in Nat /\ MAX_ID \in Nat
                            /\ 0 \notin Ports /\ 0 \notin PeerIds /\ "none" \notin Conns

VARIABLES
  conn,     \* where each connection's task is
  port,     \* the UDP port of its channel; 0: none yet
  acked,    \* channel.ack
  closed,   \* channel.closed
  pending,  \* gateway.pending
  end,      \* "config", "bound", "up" while the gateway runs; then why it ended
  lost,     \* a request id went with a message the queue had no room for
  up,       \* messages to the supervisor
  down,     \* messages to the gateway
  over,     \* the supervisor is closing: helper.closing and routes.closed
  routes,   \* PeerRoutes.routes: the recognised channels
  owner,    \* PeerRoutes.ports: the channel a port was opened for; "none"
  used,     \* PeerRoutes.used_channels
  bound,    \* routes[c].peer_id; 0: none
  peers,    \* PeerRoutes.peers: the channel of an associated peer; "none"
  context,  \* the peers with an admission context
  serial,   \* PeerRoutes.serial
  enet,     \* the peers ENet has
  reached,  \* history: channels that were forwarding at some time
  times     \* history: peers ever associated with each channel

gateway == <<conn, port, acked, closed, pending, end, lost>>
supervisor == <<over, routes, owner, used, bound, peers, context, serial, enet, times>>
gtwvars == <<gateway, supervisor, up, down, reached>>

Channels == {c \in Conns : conn[c] \in {"opening", "advertised", "forwarding"}}
Retired == {c \in Conns : conn[c] = "retired"}

None == "none"

GtwInit ==
  /\ conn = [c \in Conns |-> "new"] /\ port = [c \in Conns |-> 0]
  /\ acked = [c \in Conns |-> FALSE] /\ closed = [c \in Conns |-> FALSE]
  /\ pending = 0 /\ end = "config" /\ lost = FALSE
  /\ up = <<>> /\ down = <<>>
  /\ over = FALSE /\ routes = {} /\ owner = [p \in Ports |-> None] /\ used = {}
  /\ bound = [c \in Conns |-> 0] /\ peers = [i \in PeerIds |-> None]
  /\ context = {} /\ serial = 0 /\ enet = {}
  /\ reached = {} /\ times = [c \in Conns |-> 0]

-----------------------------------------------------------------------------
(* The gateway                                                             *)

Message(op, c) == [op |-> op, channel |-> c, gap |-> lost]

\* emit: the request id is taken before the queue refuses the message.
Emit(op, c) == IF Len(up) < UP_MAX
               THEN up' = Append(up, Message(op, c)) /\ lost' = FALSE
               ELSE up' = up /\ lost' = TRUE

\* The process runs its command and heartbeat tasks: it has had its CONFIG.
Alive == end \in {"bound", "up"}

\* Room for one more channel, tombstones included.
Room == /\ Cardinality(Channels) < MAX_CHANNELS
        /\ Cardinality(Channels) + Cardinality(Retired) < MAX_ROUTES

\* listen: quota before TLS. A socket over it is closed and nothing else happens.
Accept(c) ==
  /\ end = "up" /\ conn[c] = "new"
  /\ pending < MAX_PENDING /\ Room
  /\ conn' = [conn EXCEPT ![c] = "tls"]
  /\ pending' = pending + 1
  /\ UNCHANGED <<port, acked, closed, end, lost, supervisor, up, down, reached>>

\* Handshake, certificate or role fail before there is a channel.
Drop(c) == /\ conn' = [conn EXCEPT ![c] = "gone"]
           /\ pending' = pending - 1
           /\ UNCHANGED <<port, acked, closed, end, lost, supervisor, up, down, reached>>

\* identity: TLS 1.3 with our ALPN, no resumed session, a certificate of the
\* attestors' list.
Peers == [protocol : BOOLEAN, certificate : {"attestor", "other"}]
Identity(peer) == peer.protocol /\ peer.certificate = "attestor"

HandshakeFails(c) == /\ end = "up" /\ conn[c] = "tls"
                     /\ \E peer \in Peers : ~Identity(peer)
                     /\ Drop(c)

\* Mutant of OpenChannel: the room found before the handshake is taken for granted.
OpenChannelUnchecked(c) ==
  /\ end = "up" /\ conn[c] = "tls"
  /\ \E p \in Ports \ {port[d] : d \in Channels \cup Retired} :
       port' = [port EXCEPT ![c] = p]
  /\ conn' = [conn EXCEPT ![c] = "opening"]
  /\ UNCHANGED <<acked, closed, pending, end, lost, supervisor, up, down, reached>>

\* TLS is done: room is looked for again, then the channel and its UDP socket
\* exist; the sockets of channels and tombstones keep their ports.
OpenChannel(c) ==
  /\ end = "up" /\ conn[c] = "tls"
  /\ \/ ~Room /\ Drop(c)
     \/ /\ Room
        /\ \E p \in Ports \ {port[d] : d \in Channels \cup Retired} :
             port' = [port EXCEPT ![c] = p]
        /\ conn' = [conn EXCEPT ![c] = "opening"]
        /\ UNCHANGED <<acked, closed, pending, end, lost, supervisor, up, down, reached>>

\* advertise, after OPEN and OPEN_ACK. A full queue raises and retires the
\* channel at once, and its ROUTE_CLOSE finds the queue full too.
Advertise(c) ==
  /\ end = "up" /\ conn[c] = "opening"
  /\ Emit("OPEN", c)
  /\ IF Len(up) < UP_MAX
     THEN /\ conn' = [conn EXCEPT ![c] = "advertised"]
          /\ UNCHANGED <<closed, pending>>
     ELSE /\ conn' = [conn EXCEPT ![c] = "retired"]
          /\ closed' = [closed EXCEPT ![c] = TRUE]
          /\ pending' = pending - 1
  /\ UNCHANGED <<port, acked, end, supervisor, down, reached>>

\* Mutant of Retire: the tombstone is not kept.
RetireForgets(c) == /\ conn' = [conn EXCEPT ![c] = "gone"]
                    /\ closed' = [closed EXCEPT ![c] = TRUE]
                    /\ Emit("CLOSE", c)

\* Mutant of Retire: the supervisor is not told.
RetireSilently(c) == /\ conn' = [conn EXCEPT ![c] = "retired"]
                     /\ closed' = [closed EXCEPT ![c] = TRUE]
                     /\ UNCHANGED <<up, lost>>

\* retire, up to its first await.
Retire(c) == /\ conn' = [conn EXCEPT ![c] = "retired"]
             /\ closed' = [closed EXCEPT ![c] = TRUE]
             /\ Emit("CLOSE", c)

\* A wrong or late OPEN_ACK, or no ROUTE_ACK within a second.
SetupFails(c) ==
  /\ end = "up"
  /\ conn[c] = "opening" \/ (conn[c] = "advertised" /\ ~acked[c])
  /\ Retire(c)
  /\ pending' = pending - 1
  /\ UNCHANGED <<port, acked, end, supervisor, down, reached>>

\* The task resumes after the ROUTE_ACK, which a ROUTE_CLOSE may have followed.
Resume(c) ==
  /\ end = "up" /\ conn[c] = "advertised" /\ acked[c]
  /\ pending' = pending - 1
  /\ IF closed[c]
     THEN Retire(c) /\ UNCHANGED reached
     ELSE /\ conn' = [conn EXCEPT ![c] = "forwarding"]
          /\ reached' = reached \cup {c}
          /\ UNCHANGED <<closed, up, lost>>
  /\ UNCHANGED <<port, acked, end, supervisor, down>>

\* forward returns: closed, CLOSE, EOF, a full or stale queue, rate, any error.
\* pending goes up in one `finally' and down in the next.
ForwardEnds(c) ==
  /\ end = "up" /\ conn[c] = "forwarding"
  /\ Retire(c)
  /\ UNCHANGED <<port, acked, pending, end, supervisor, down, reached>>

\* close: every task is cancelled and every socket closed, and nothing is emitted.
Ends(why) ==
  /\ end' = why
  /\ conn' = [c \in Conns |-> IF conn[c] = "new" THEN "new" ELSE "gone"]
  /\ pending' = 0
  /\ UNCHANGED <<port, acked, closed, lost, supervisor, up, reached>>

\* command and acknowledge, for the first message of the pipe. Any ValueError
\* ends the process.
Command ==
  LET m == Head(down)
      c == m.channel
  IN
  /\ end = "up" /\ down # <<>>
  /\ down' = Tail(down)
  /\ \/ /\ m.op = "ACK" /\ c \in Channels /\ ~acked[c] /\ ~closed[c]
        /\ acked' = [acked EXCEPT ![c] = TRUE]
        /\ UNCHANGED <<conn, port, closed, pending, end, lost, supervisor, up, reached>>
     \/ m.op = "ACK" /\ c \notin Channels /\ Ends("late_ack")
     \/ m.op = "ACK" /\ c \in Channels /\ (acked[c] \/ closed[c]) /\ Ends("bad_ack")
     \/ /\ m.op = "CLOSE" /\ c \in Channels
        /\ closed' = [closed EXCEPT ![c] = TRUE]
        /\ UNCHANGED <<conn, port, acked, pending, end, lost, supervisor, up, reached>>
     \/ /\ m.op = "CLOSE" /\ c \in Retired
        /\ UNCHANGED <<gateway, supervisor, up, reached>>
     \/ m.op = "CLOSE" /\ c \notin Channels \cup Retired /\ Ends("unknown_close")

\* The first frame, as its checks tell frames apart: what is wrong with the text
\* (if anything), with the envelope, and what the configuration says.
FirstFrames ==
  [text : {"object", "json_size", "duplicate_key", "non_finite", "json_encoding_depth",
           "json_depth", "integer_fields_only"},
   envelope : {"ours", "fields", "identifier", "integer", "ipc_context", "ipc_operation"},
   id : {1, 2}, op : {"CONFIG", "other"},
   role : {"server", "other"}, values : {"in_range", "credential_path", "host", "port"},
   attestors : {"distinct", "none", "duplicate_role", "overlapping_role"},
   files : {"loaded", "missing"}]

\* From 1 to 4096 bytes of UTF-8: a JSON value of finite integers, without
\* repeated keys, nested four deep at most.
StrictJson(f) == f.text = "object"
\* The six fields of this protocol with this run and generation, and the request
\* id after the last, which is 1.
ValidateEnvelope(f) == f.envelope = "ours" /\ f.id = 1
\* Absolute paths, an address and ports in range; from 1 to 8 attestors, no two
\* alike and none the gateway itself; a context that loads the credentials.
Configuration(f) == /\ f.role = "server" /\ f.values = "in_range"
                    /\ f.attestors = "distinct"
                    /\ f.files = "loaded"

\* stdio_main: the first frame is a CONFIG that passes, or the process ends.
Configure ==
  /\ end = "config"
  /\ \E f \in FirstFrames :
       IF StrictJson(f) /\ ValidateEnvelope(f) /\ f.op = "CONFIG" /\ Configuration(f)
       THEN /\ end' = "bound"
            /\ UNCHANGED <<conn, port, acked, closed, pending, lost, supervisor, up, reached>>
       ELSE Ends("config_refused")
  /\ UNCHANGED down

\* listen: bind, and tell the supervisor the port.
Listen ==
  /\ end = "bound" /\ UNCHANGED down
  /\ IF Len(up) < UP_MAX
     THEN /\ Emit("READY", None) /\ end' = "up"
          /\ UNCHANGED <<conn, port, acked, closed, pending, supervisor, reached>>
     ELSE Ends("queue_full")

\* heartbeat: with no room it raises, and that ends the process.
Heartbeat ==
  /\ Alive /\ UNCHANGED down
  /\ IF Len(up) < UP_MAX
     THEN /\ Emit("HEARTBEAT", None)
          /\ UNCHANGED <<conn, port, acked, closed, pending, end, supervisor, reached>>
     ELSE Ends("queue_full")

\* SHUTDOWN, EOF, a pipe that fails or is silent for a second, a killed process.
Die == Alive /\ Ends("died") /\ UNCHANGED down

-----------------------------------------------------------------------------
(* The supervisor                                                          *)

\* fail or shutdown, with routes.close and the end of ENet's host.
Over == /\ over' = TRUE
        /\ routes' = {}
        /\ bound' = [c \in Conns |-> 0]
        /\ peers' = [i \in PeerIds |-> None]
        /\ context' = {}
        /\ enet' = {}

\* PeerRoutes.retire
RetireRoute(c) ==
  /\ routes' = routes \ {c}
  /\ bound' = [bound EXCEPT ![c] = 0]
  /\ peers' = [i \in PeerIds |-> IF peers[i] = c THEN None ELSE peers[i]]
  /\ context' = context \ {bound[c]}

\* open_route: the conditions that the gateway's messages can fail.
CanOpen(c) == /\ Cardinality(routes) < MAX_CHANNELS
              /\ Cardinality({p \in Ports : owner[p] # None}) < MAX_ROUTES
              /\ c \notin used
              /\ owner[port[c]] = None

OpenRoute(c) ==
  /\ routes' = routes \cup {c}
  /\ owner' = [owner EXCEPT ![port[c]] = c]
  /\ used' = used \cup {c}
  /\ down' = Append(down, [op |-> "ACK", channel |-> c])

\* The next message of poll, and what the harness does with it. An id that is not
\* the next one, or a route that cannot be opened, ends everything.
Deliver ==
  LET m == Head(up)
      c == m.channel
      fatal == m.gap \/ (m.op = "OPEN" /\ ~CanOpen(c))
  IN
  /\ ~over /\ up # <<>>
  /\ up' = Tail(up)
  /\ \/ fatal /\ Over /\ UNCHANGED <<owner, used, down>>
     \/ /\ ~fatal /\ m.op = "OPEN"
        /\ OpenRoute(c)
        /\ UNCHANGED <<over, bound, peers, context, enet>>
     \/ /\ ~fatal /\ m.op = "CLOSE" /\ c \in routes
        /\ RetireRoute(c)
        /\ UNCHANGED <<over, owner, used, enet, down>>
     \/ /\ ~fatal /\ (m.op \in {"HEARTBEAT", "READY"} \/ (m.op = "CLOSE" /\ c \notin routes))
        /\ UNCHANGED <<over, routes, owner, used, bound, peers, context, enet, down>>
  /\ UNCHANGED <<gateway, serial, times, reached>>

\* poll finds the child gone or silent, or a write fails, or the game is left.
Fail == /\ ~over /\ Over
        /\ UNCHANGED <<gateway, owner, used, serial, times, up, down, reached>>

Notice == ~Alive /\ end # "config" /\ Fail

\* Mutant of CanBind: the tombstones of closed routes still count.
CanBindTombstone(i, p) == peers[i] = None /\ p \in Ports /\ owner[p] # None

\* consume, once the serial still has a number to give.
CanBind(i, p) == /\ peers[i] = None
                 /\ p \in Ports /\ owner[p] \in routes
                 /\ bound[owner[p]] = 0

\* peer_connected: ENet saw a peer at port p, and perhaps only now. It is a port
\* of a channel that has forwarded, or none of the gateway's (0).
PeerConnects(i, p) ==
  /\ ~over /\ i \notin enet
  /\ \/ serial >= MAX_ID /\ Over /\ UNCHANGED <<serial, times>>
     \/ /\ serial < MAX_ID /\ CanBind(i, p)
        /\ serial' = serial + 1
        /\ bound' = [bound EXCEPT ![owner[p]] = i]
        /\ peers' = [peers EXCEPT ![i] = owner[p]]
        /\ context' = context \cup {i}
        /\ enet' = enet \cup {i}
        /\ times' = [times EXCEPT ![owner[p]] = @ + 1]
        /\ UNCHANGED <<over, routes>>
     \/ /\ serial < MAX_ID /\ ~CanBind(i, p)
        /\ enet' = enet \cup {i}
        /\ UNCHANGED <<over, routes, bound, peers, context, serial, times>>
  /\ UNCHANGED <<gateway, owner, used, up, down, reached>>

\* peer_disconnected: an associated peer's route is retired and the gateway told.
PeerLeaves(i) ==
  /\ ~over /\ i \in enet
  /\ enet' = enet \ {i}
  /\ IF peers[i] = None
     THEN UNCHANGED <<routes, bound, peers, context, down>>
     ELSE /\ RetireRoute(peers[i])
          /\ down' = Append(down, [op |-> "CLOSE", channel |-> peers[i]])
  /\ UNCHANGED <<gateway, over, owner, used, serial, times, up, reached>>

-----------------------------------------------------------------------------
GtwNext ==
  \/ \E c \in Conns : \/ Accept(c) \/ HandshakeFails(c) \/ OpenChannel(c)
                      \/ Advertise(c) \/ SetupFails(c) \/ Resume(c) \/ ForwardEnds(c)
  \/ Configure \/ Listen \/ Command \/ Heartbeat \/ Die
  \/ Deliver \/ Fail
  \/ \E i \in PeerIds, p \in {port[c] : c \in reached} \cup {0} : PeerConnects(i, p)
  \/ \E i \in PeerIds : PeerLeaves(i)

\* The supervisor polls on, finds a dead child, and the gateway's heartbeat goes on.
GtwSpec == /\ GtwInit /\ [][GtwNext]_gtwvars
           /\ WF_gtwvars(Deliver) /\ WF_gtwvars(Notice) /\ WF_gtwvars(Heartbeat)

-----------------------------------------------------------------------------
\* Every variable has its type: no path gives back a handshake it never took.
GtwTypeOK ==
  /\ conn \in [Conns -> {"new", "tls", "opening", "advertised", "forwarding",
                         "retired", "gone"}]
  /\ port \in [Conns -> Ports \cup {0}]
  /\ acked \in [Conns -> BOOLEAN] /\ closed \in [Conns -> BOOLEAN]
  /\ pending \in Nat /\ lost \in BOOLEAN /\ over \in BOOLEAN
  /\ routes \subseteq Conns /\ used \subseteq Conns /\ reached \subseteq Conns
  /\ owner \in [Ports -> Conns \cup {None}]
  /\ bound \in [Conns -> PeerIds \cup {0}] /\ peers \in [PeerIds -> Conns \cup {None}]
  /\ context \subseteq PeerIds /\ enet \subseteq PeerIds /\ serial \in 0..MAX_ID

\* The two sides' limits never disagree: the supervisor, which treats a route it
\* cannot open as fatal, never has to refuse one the gateway offers.
OfferedIsOpenable ==
  ~over /\ up # <<>> /\ Head(up).op = "OPEN" /\ ~Head(up).gap => CanOpen(Head(up).channel)

\* However the two sides' closes cross, none of them ends the gateway, and no
\* channel is acknowledged twice or after it was closed.
ClosesCross == end \notin {"unknown_close", "bad_ack"}

\* The two sides agree on who is routed: a channel forwards only after the supervisor
\* has recognised it, is associated with one peer in its life, and routes, peers and
\* admission contexts always tell the same story.
RoutesAgree ==
  /\ \A c \in Conns : conn[c] = "forwarding" => c \in used
  /\ \A c \in Conns : times[c] <= 1
  /\ \A c \in Conns, i \in PeerIds : bound[c] = i <=> peers[i] = c
  /\ \A i \in PeerIds : i \in context <=> peers[i] \in routes
  /\ \A i \in PeerIds : peers[i] # None => i \in enet

\* A channel the gateway gave up is given up by the supervisor too, even when the
\* message that says so was lost (the missing id is noticed and ends everything), and
\* when the whole gateway ends because one ROUTE_ACK came later than advertise waits.
\* Channels stay retired or gone, so that every one of them leaves the routes.
RetirementArrives == []<>(\A c \in Conns : conn[c] \in {"retired", "gone"} => c \notin routes)
=============================================================================
