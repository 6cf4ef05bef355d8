--------------------------- MODULE GatewayProofs ---------------------------
(***************************************************************************)
(* The gateway and its supervisor for any number of connections, ports and *)
(* peers, and any limits, and then the data plane of one of its tunnels,   *)
(* for any limits, deadlines and number of datagrams that meet the         *)
(* assumption TunnelBounds.                                                *)
(***************************************************************************)
EXTENDS Gateway, Tunnel, FiniteSetTheorems, TLAPS

(* The gateway: its inductive invariant *)

UpType == [op : {"READY", "HEARTBEAT", "OPEN", "CLOSE"}, channel : Conns \cup {None},
           gap : BOOLEAN]
DownType == [op : {"ACK", "CLOSE"}, channel : Conns]
InService == {"config", "bound", "up"}
Ending == {"died", "queue_full", "config_refused", "late_ack"}

Types == /\ GtwTypeOK
         /\ up \in Seq(UpType) /\ down \in Seq(DownType)
         /\ end \in InService \cup Ending
         /\ times \in [Conns -> Nat]

\* The channels opened and closed by the first n messages of u.
Opens(u, n) == {c \in Conns : \E j \in 1..n : u[j].op = "OPEN" /\ u[j].channel = c}
Closes(u, n) == {c \in Conns : \E j \in 1..n : u[j].op = "CLOSE" /\ u[j].channel = c}

Opened == Opens(up, Len(up))
Offered == used \cup Opened
Kept == Channels \cup Retired
Waiting == {c \in Conns : conn[c] \in {"tls", "opening", "advertised"}}

\* `pending' counts the tasks that have a handshake to give back.
Pending == IsFiniteSet(Waiting) /\ pending = Cardinality(Waiting)

\* The supervisor's tables: a route has at most one peer, and it had none before.
Tables ==
  /\ routes \subseteq used
  /\ \A c \in Conns : bound[c] # 0 => c \in routes
  /\ \A c \in Conns, i \in PeerIds : bound[c] = i <=> peers[i] = c
  /\ \A i \in PeerIds : peers[i] # None => peers[i] \in routes /\ i \in enet
  /\ context = {i \in PeerIds : peers[i] # None}
  /\ \A c \in Conns : /\ times[c] <= 1
                      /\ c \in routes /\ bound[c] = 0 => times[c] = 0
                      /\ c \notin used => times[c] = 0
  /\ \A p \in Ports : owner[p] # None => owner[p] \in used /\ port[owner[p]] = p

\* How far each connection is, as the supervisor knows it.
Progress ==
  \A c \in Conns : /\ conn[c] \in {"new", "tls", "opening"} => c \notin Offered
                   /\ conn[c] \in {"new", "tls"} => ~closed[c]
                   /\ acked[c] => c \in used
                   /\ conn[c] = "forwarding" => acked[c]
                   /\ c \in Channels /\ closed[c] => c \in used

\* A channel or tombstone has a port of its own, and so has all that was offered,
\* also when the gateway is gone.
Sockets ==
  /\ \A c \in Kept \cup Offered : port[c] \in Ports
  /\ \A c, d \in Kept : port[c] = port[d] => c = d
  /\ \A c, d \in Offered : port[c] = port[d] => c = d
  /\ end \in InService => Offered \subseteq Kept

\* The limits.
Limits ==
  /\ IsFiniteSet(Kept) /\ Cardinality(Channels) <= MAX_CHANNELS
  /\ Cardinality(Kept) <= MAX_ROUTES
  /\ IsFiniteSet(Offered) /\ Cardinality(Offered) <= MAX_ROUTES

\* A channel is offered once, and closed after that.
Upward ==
  /\ \A j \in 1..Len(up) : up[j].op \in {"OPEN", "CLOSE"} => up[j].channel \in Conns
  /\ \A j \in 1..Len(up) : up[j].op = "OPEN" => up[j].channel \notin used
  /\ \A j, k \in 1..Len(up) : /\ up[j].op = "OPEN" /\ up[k].op \in {"OPEN", "CLOSE"}
                              /\ up[j].channel = up[k].channel
                              => j = k \/ (j < k /\ up[k].op = "CLOSE")
  /\ \A j \in 1..Len(up) : up[j].op = "CLOSE" => conn[up[j].channel] \in {"retired", "gone"}

\* Nothing was lost so far.
NoGap(n) == \A j \in 1..n : ~up[j].gap

\* The supervisor has a route for no channel that is gone, but for those it is about
\* to hear of.
InStep ==
  ~over /\ ~lost /\ NoGap(Len(up)) /\ end \in InService =>
    \A c \in routes \cup Opened : c \in Channels \/ c \in Closes(up, Len(up))

\* What the routes will be when the n-th message has been heard.
Foreseen(n) == (routes \cup Opens(up, n)) \ Closes(up, n)
Openable ==
  ~over => \A n \in 1..Len(up) : up[n].op = "OPEN" /\ NoGap(n) =>
             IsFiniteSet(Foreseen(n)) /\ Cardinality(Foreseen(n)) <= MAX_CHANNELS

\* A channel is acknowledged once, before it is closed.
Downward ==
  /\ \A j \in 1..Len(down) : down[j].channel \in used
  /\ \A j \in 1..Len(down) : LET c == down[j].channel IN
       down[j].op = "ACK" => ~acked[c] /\ (c \in Channels => ~closed[c])
  /\ \A j, k \in 1..Len(down) : /\ down[j].op = "ACK" /\ down[j].channel = down[k].channel
                                => j = k \/ (j < k /\ down[k].op = "CLOSE")

WInv == /\ Types /\ Pending /\ Tables /\ Progress /\ Sockets /\ Limits
        /\ Upward /\ InStep /\ Openable /\ Downward

-----------------------------------------------------------------------------
(* The two queues                                                          *)

LEMMA Pushed ==
  ASSUME NEW S, NEW u \in Seq(S), NEW m \in S
  PROVE  /\ Append(u, m) \in Seq(S) /\ Len(u) \in Nat
         /\ Len(Append(u, m)) = Len(u) + 1 /\ Append(u, m)[Len(u) + 1] = m
         /\ \A j \in 1..Len(u) : Append(u, m)[j] = u[j]
OBVIOUS

LEMMA Popped ==
  ASSUME NEW S, NEW u \in Seq(S), u # <<>>
  PROVE  /\ Tail(u) \in Seq(S) /\ Len(u) \in Nat /\ Len(u) >= 1
         /\ Len(Tail(u)) = Len(u) - 1 /\ Head(u) = u[1] /\ u[1] \in S
         /\ \A j \in 1..(Len(u) - 1) : Tail(u)[j] = u[j + 1]
OBVIOUS

\* A step that offers no channel, and tells of every one it retires.
LEMMA UpKept ==
  ASSUME WInv, used' = used, over' \/ (over' = over /\ routes' \subseteq routes),
         up' \in Seq(UpType),
         \/ Len(up') = Len(up)
         \/ Len(up') = Len(up) + 1 /\ up'[Len(up) + 1].op # "OPEN",
         \A j \in 1..Len(up) : up'[j] = up[j],
         \A d \in Conns : conn[d] \in {"retired", "gone"} => conn'[d] \in {"retired", "gone"},
         Len(up') = Len(up) + 1 /\ up'[Len(up) + 1].op = "CLOSE" =>
           /\ up'[Len(up) + 1].channel \in Conns
           /\ conn'[up'[Len(up) + 1].channel] \in {"retired", "gone"},
         ~lost' /\ NoGap(Len(up))' /\ end' \in InService =>
           /\ ~lost /\ end \in InService
           /\ Channels \subseteq Channels' \cup Closes(up', Len(up'))
  PROVE  Upward' /\ InStep' /\ Openable' /\ Opened' = Opened
<1>1. /\ Len(up) \in Nat /\ Len(up') \in Nat /\ up \in Seq(UpType)
  BY DEF WInv, Types
<1>2. \A n \in 1..Len(up) : n \in 1..Len(up')
  BY <1>1
<1>3. \A j \in 1..Len(up') : \/ j \in 1..Len(up) /\ up'[j] = up[j]
                             \/ /\ j = Len(up) + 1 /\ Len(up') = Len(up) + 1
                                /\ up'[j].op # "OPEN"
  BY <1>1
<1>4. Opened' = Opened
  BY <1>2, <1>3 DEF Opened, Opens
<1>5. Upward'
  <2>1. \A j \in 1..Len(up') : up'[j].op \in {"OPEN", "CLOSE"} => up'[j].channel \in Conns
    BY <1>3 DEF WInv, Upward
  <2>2. \A j \in 1..Len(up') : up'[j].op = "OPEN" => up'[j].channel \notin used'
    BY <1>3 DEF WInv, Upward
  <2>3. \A j \in 1..Len(up') :
          up'[j].op = "CLOSE" => conn'[up'[j].channel] \in {"retired", "gone"}
    BY <1>3 DEF WInv, Upward
  <2>4. ASSUME NEW j \in 1..Len(up'), NEW k \in 1..Len(up'), up'[j].op = "OPEN",
               up'[k].op \in {"OPEN", "CLOSE"}, up'[j].channel = up'[k].channel
        PROVE  j = k \/ (j < k /\ up'[k].op = "CLOSE")
    <3>1. j \in 1..Len(up) /\ up'[j] = up[j]
      BY <1>3, <2>4
    <3>2. CASE k \in 1..Len(up)
      BY <2>4, <3>1, <3>2 DEF WInv, Upward
    <3>3. CASE k \notin 1..Len(up)
      BY <1>1, <1>3, <2>4, <3>1, <3>3
    <3> QED
      BY <3>2, <3>3
  <2> QED
    BY <2>1, <2>2, <2>3, <2>4 DEF Upward
<1>6. InStep'
  <2> SUFFICES ASSUME ~over', ~lost', NoGap(Len(up))', end' \in InService,
                      NEW c \in routes' \cup Opened'
               PROVE  c \in Channels' \/ c \in Closes(up', Len(up'))
    BY DEF InStep
  <2>1. NoGap(Len(up))
    BY <1>2 DEF NoGap
  <2>2. c \in Channels \/ c \in Closes(up, Len(up))
    BY <1>4, <2>1 DEF WInv, InStep
  <2>3. Closes(up, Len(up)) \subseteq Closes(up', Len(up'))
    BY <1>2 DEF Closes
  <2> QED
    BY <2>2, <2>3
<1>7. Openable'
  <2> SUFFICES ASSUME ~over', NEW n \in 1..Len(up'), up'[n].op = "OPEN", NoGap(n)'
               PROVE  (IsFiniteSet(Foreseen(n)) /\ Cardinality(Foreseen(n)) <= MAX_CHANNELS)'
    BY DEF Openable
  <2>1. n \in 1..Len(up) /\ up[n].op = "OPEN"
    BY <1>3
  <2>2. \A j \in 1..n : j \in 1..Len(up) /\ up'[j] = up[j]
    BY <1>1, <2>1
  <2>3. NoGap(n) /\ Foreseen(n)' \subseteq Foreseen(n)
    <3>1. NoGap(n) /\ Opens(up', n) = Opens(up, n)
      BY <2>2 DEF NoGap, Opens
    <3>2. Closes(up', n) = Closes(up, n)
      BY <2>2 DEF Closes
    <3> QED
      BY <3>1, <3>2 DEF Foreseen
  <2>4. IsFiniteSet(Foreseen(n)) /\ Cardinality(Foreseen(n)) <= MAX_CHANNELS
    BY <2>1, <2>3 DEF WInv, Openable
  <2>5. /\ IsFiniteSet(Foreseen(n)') /\ Cardinality(Foreseen(n)') <= Cardinality(Foreseen(n))
    BY <2>3, <2>4, FS_Subset
  <2>6. Cardinality(Foreseen(n)') \in Nat /\ Cardinality(Foreseen(n)) \in Nat
    BY <2>4, <2>5, FS_CardinalityType
  <2> QED
    BY <2>4, <2>5, <2>6, GatewayAssumption
<1> QED
  BY <1>4, <1>5, <1>6, <1>7

LEMMA Ahead ==
  ASSUME NEW u \in Seq(UpType), u # <<>>, NEW n \in 0..Len(Tail(u))
  PROVE  /\ Opens(u, n + 1) = Opens(u, 1) \cup Opens(Tail(u), n)
         /\ Closes(u, n + 1) = Closes(u, 1) \cup Closes(Tail(u), n)
<1>1. /\ Len(u) \in Nat /\ Len(u) >= 1 /\ Len(Tail(u)) = Len(u) - 1
      /\ \A j \in 1..(Len(u) - 1) : Tail(u)[j] = u[j + 1]
  BY Popped
<1>2. n \in Nat /\ 1 \in 1..(n + 1)
  BY <1>1
<1>3. \A j \in 1..n : j + 1 \in 1..(n + 1) /\ Tail(u)[j] = u[j + 1]
  BY <1>1
<1>4. \A j \in 1..(n + 1) : j = 1 \/ (j - 1 \in 1..n /\ Tail(u)[j - 1] = u[j])
  BY <1>1, <1>3
<1>5. \A j \in 1..1 : j = 1
  OBVIOUS
<1>6. Opens(u, n + 1) = Opens(u, 1) \cup Opens(Tail(u), n)
  BY <1>2, <1>3, <1>4, <1>5 DEF Opens
<1>7. Closes(u, n + 1) = Closes(u, 1) \cup Closes(Tail(u), n)
  BY <1>2, <1>3, <1>4, <1>5 DEF Closes
<1> QED
  BY <1>6, <1>7

\* The supervisor hears the next message.
LEMMA UpHeard ==
  ASSUME WInv, up # <<>>, up' = Tail(up), conn' = conn, lost' = lost, end' = end,
         used \subseteq used', used' \subseteq used \cup Opens(up, 1),
         over' \/ (~over /\ ~Head(up).gap /\ routes' \subseteq (routes \cup Opens(up, 1)) \ Closes(up, 1))
  PROVE  Upward' /\ InStep' /\ Openable' /\ Offered' \subseteq Offered
<1>1. /\ up \in Seq(UpType) /\ Len(up) \in Nat /\ Len(up) >= 1 /\ Len(up') = Len(up) - 1
      /\ Head(up) = up[1] /\ \A j \in 1..Len(up') : up'[j] = up[j + 1]
      /\ \A j \in 1..Len(up') : j + 1 \in 1..Len(up) /\ j \in Nat
      /\ 1 \in 1..Len(up) /\ Len(up') \in Nat /\ Len(up') + 1 = Len(up)
  BY Popped DEF WInv, Types
<1>2. Channels' = Channels
  BY DEF Channels
<1>3. ASSUME NEW n \in 0..Len(up')
      PROVE  /\ Opens(up, n + 1) = Opens(up, 1) \cup Opens(up', n)
             /\ Closes(up, n + 1) = Closes(up, 1) \cup Closes(up', n)
  BY <1>1, <1>3, Ahead
<1>4. ASSUME NEW j \in 1..Len(up'), up'[j].op = "OPEN"
      PROVE  up'[j].channel \notin Opens(up, 1) \cup Closes(up, 1)
  <2>1. \A k \in 1..1 : k = 1
    OBVIOUS
  <2>2. up[j + 1].op = "OPEN" /\ j + 1 # 1 /\ ~(j + 1 < 1) /\ up'[j].channel = up[j + 1].channel
    BY <1>1, <1>4
  <2>3. \A k \in 1..Len(up) : /\ up[k].op \in {"OPEN", "CLOSE"}
                              /\ up[j + 1].channel = up[k].channel
                              => j + 1 = k \/ (j + 1 < k /\ up[k].op = "CLOSE")
    BY <1>1, <2>2 DEF WInv, Upward
  <2> QED
    BY <1>1, <2>1, <2>2, <2>3 DEF Opens, Closes
<1>5. Upward'
  <2>1. \A j \in 1..Len(up') : up'[j].op \in {"OPEN", "CLOSE"} => up'[j].channel \in Conns
    BY <1>1 DEF WInv, Upward
  <2>2. \A j \in 1..Len(up') : up'[j].op = "OPEN" => up'[j].channel \notin used'
    BY <1>1, <1>4 DEF WInv, Upward
  <2>3. \A j \in 1..Len(up') :
          up'[j].op = "CLOSE" => conn'[up'[j].channel] \in {"retired", "gone"}
    BY <1>1 DEF WInv, Upward
  <2>4. ASSUME NEW j \in 1..Len(up'), NEW k \in 1..Len(up'), up'[j].op = "OPEN",
               up'[k].op \in {"OPEN", "CLOSE"}, up'[j].channel = up'[k].channel
        PROVE  j = k \/ (j < k /\ up'[k].op = "CLOSE")
    <3>1. j + 1 = k + 1 \/ (j + 1 < k + 1 /\ up[k + 1].op = "CLOSE")
      BY <1>1, <2>4 DEF WInv, Upward
    <3> QED
      BY <1>1, <3>1
  <2> QED
    BY <2>1, <2>2, <2>3, <2>4 DEF Upward
<1>6. ASSUME NEW n \in 0..Len(up'), NEW x \in Opens(up', n)
      PROVE  x \notin Closes(up, 1)
  <2>1. PICK j \in 1..n : up'[j].op = "OPEN" /\ up'[j].channel = x
    BY <1>6 DEF Opens
  <2>2. j \in 1..Len(up')
    BY <1>1
  <2> QED
    BY <1>4, <2>1, <2>2
<1>7. Opened = Opens(up, 1) \cup Opened'
  BY <1>1, <1>3 DEF Opened
<1>8. Offered' \subseteq Offered
  BY <1>7 DEF Offered
<1>9. InStep'
  <2> SUFFICES ASSUME ~over', ~lost', NoGap(Len(up))', end' \in InService,
                      NEW c \in routes' \cup Opened'
               PROVE  c \in Channels' \/ c \in Closes(up', Len(up'))
    BY DEF InStep
  <2>1. NoGap(Len(up))
    <3> SUFFICES ASSUME NEW j \in 1..Len(up) PROVE ~up[j].gap
      BY DEF NoGap
    <3>1. CASE j = 1
      BY <1>1, <3>1
    <3>2. CASE j # 1
      <4>1. j - 1 \in 1..Len(up') /\ (j - 1) + 1 = j
        BY <1>1, <3>2
      <4> QED
        BY <1>1, <4>1 DEF NoGap
    <3> QED
      BY <3>1, <3>2
  <2>2. c \in routes \cup Opened /\ c \notin Closes(up, 1)
    <3>1. c \in Opened' => c \notin Closes(up, 1)
      BY <1>1, <1>6 DEF Opened
    <3> QED
      BY <1>7, <3>1
  <2>3. c \in Channels \/ c \in Closes(up, Len(up))
    BY <2>1, <2>2 DEF WInv, InStep
  <2>4. Closes(up, Len(up)) = Closes(up, 1) \cup Closes(up', Len(up'))
    BY <1>1, <1>3
  <2> QED
    BY <1>2, <2>2, <2>3, <2>4
<1>10. Openable'
  <2> SUFFICES ASSUME ~over', NEW n \in 1..Len(up'), up'[n].op = "OPEN", NoGap(n)'
               PROVE  (IsFiniteSet(Foreseen(n)) /\ Cardinality(Foreseen(n)) <= MAX_CHANNELS)'
    BY DEF Openable
  <2>1. n + 1 \in 1..Len(up) /\ up[n + 1].op = "OPEN" /\ n \in 0..Len(up')
    BY <1>1
  <2>2. NoGap(n + 1)
    <3> SUFFICES ASSUME NEW j \in 1..(n + 1) PROVE ~up[j].gap
      BY DEF NoGap
    <3>1. CASE j = 1
      BY <1>1, <3>1
    <3>2. CASE j # 1
      <4>1. j - 1 \in 1..n /\ (j - 1) + 1 = j /\ j - 1 \in 1..Len(up')
        BY <1>1, <3>2
      <4> QED
        BY <1>1, <4>1 DEF NoGap
    <3> QED
      BY <3>1, <3>2
  <2>3. IsFiniteSet(Foreseen(n + 1)) /\ Cardinality(Foreseen(n + 1)) <= MAX_CHANNELS
    BY <2>1, <2>2 DEF WInv, Openable
  <2>4. Foreseen(n)' \subseteq Foreseen(n + 1)
    BY <1>3, <1>6, <2>1 DEF Foreseen
  <2>5. MAX_CHANNELS \in Nat
    BY GatewayAssumption
  <2>6. /\ IsFiniteSet(Foreseen(n)') /\ Cardinality(Foreseen(n)') <= Cardinality(Foreseen(n + 1))
    BY <2>3, <2>4, FS_Subset
  <2>7. Cardinality(Foreseen(n)') \in Nat /\ Cardinality(Foreseen(n + 1)) \in Nat
    BY <2>3, <2>6, FS_CardinalityType
  <2> QED
    BY <2>3, <2>5, <2>6, <2>7
<1> QED
  BY <1>5, <1>8, <1>9, <1>10

\* The gateway offers channel c.
LEMMA UpOffered ==
  ASSUME WInv, NEW c \in Conns, conn[c] = "opening", end = "up", end' = end,
         up' = Append(up, Message("OPEN", c)), lost' = FALSE,
         conn' = [conn EXCEPT ![c] = "advertised"],
         used' = used, routes' = routes, over' = over
  PROVE  /\ Upward' /\ InStep' /\ Openable' /\ Opened' = Opened \cup {c}
         /\ Channels' = Channels /\ Kept' = Kept
<1>1. /\ up \in Seq(UpType) /\ conn \in [Conns -> {"new", "tls", "opening", "advertised",
                                        "forwarding", "retired", "gone"}]
      /\ Message("OPEN", c) \in UpType /\ Message("OPEN", c).op = "OPEN"
      /\ Message("OPEN", c).channel = c /\ Message("OPEN", c).gap = lost
  BY DEF WInv, Types, GtwTypeOK, Message, UpType
<1> PICK m \in UpType : m = Message("OPEN", c)
  BY <1>1
<1>2. /\ Len(up) \in Nat /\ Len(up') = Len(up) + 1 /\ up'[Len(up) + 1] = m
      /\ \A j \in 1..Len(up) : up'[j] = up[j]
  BY <1>1, Pushed
<1>3. \A j \in 1..Len(up') : \/ j \in 1..Len(up) /\ up'[j] = up[j]
                             \/ j = Len(up) + 1 /\ up'[j] = m
  BY <1>2
<1>4. /\ \A n \in 1..Len(up) : n \in 1..Len(up')
      /\ Len(up) + 1 \in 1..Len(up')
  BY <1>2
<1>5. Channels' = Channels /\ Retired' = Retired /\ Kept' = Kept
  BY <1>1 DEF Channels, Retired, Kept
<1>6. c \notin used /\ c \notin Opened /\ c \in Channels
  BY DEF WInv, Progress, Offered, Channels
<1>7. Opened' = Opened \cup {c}
  BY <1>1, <1>3, <1>4, <1>2 DEF Opened, Opens
<1>8. Upward'
  <2>1. \A j \in 1..Len(up') : up'[j].op \in {"OPEN", "CLOSE"} => up'[j].channel \in Conns
    BY <1>1, <1>3 DEF WInv, Upward
  <2>2. \A j \in 1..Len(up') : up'[j].op = "OPEN" => up'[j].channel \notin used'
    BY <1>1, <1>3, <1>6 DEF WInv, Upward
  <2>3. \A j \in 1..Len(up') :
          up'[j].op = "CLOSE" => conn'[up'[j].channel] \in {"retired", "gone"}
    BY <1>1, <1>3 DEF WInv, Upward
  <2>4. ASSUME NEW j \in 1..Len(up'), NEW k \in 1..Len(up'), up'[j].op = "OPEN",
               up'[k].op \in {"OPEN", "CLOSE"}, up'[j].channel = up'[k].channel
        PROVE  j = k \/ (j < k /\ up'[k].op = "CLOSE")
    <3>1. \A x \in 1..Len(up) : up[x].op = "OPEN" => up[x].channel # c
      BY <1>6 DEF Opened, Opens
    <3>2. \A x \in 1..Len(up) : up[x].op = "CLOSE" => up[x].channel # c
      BY DEF WInv, Upward
    <3>3. CASE j \in 1..Len(up) /\ k \in 1..Len(up)
      BY <1>2, <2>4, <3>3 DEF WInv, Upward
    <3>4. CASE j = Len(up) + 1 /\ k \in 1..Len(up)
      BY <1>1, <1>2, <2>4, <3>1, <3>2, <3>4
    <3>5. CASE k = Len(up) + 1 /\ j \in 1..Len(up)
      BY <1>1, <1>2, <2>4, <3>1, <3>5
    <3> QED
      BY <1>3, <3>3, <3>4, <3>5
  <2> QED
    BY <2>1, <2>2, <2>3, <2>4 DEF Upward
<1>9. ASSUME ~over, NoGap(Len(up))'
      PROVE  \A x \in routes' \cup Opened' : x \in Channels' \/ x \in Closes(up', Len(up'))
  <2>1. NoGap(Len(up)) /\ ~lost
    BY <1>1, <1>2, <1>4, <1>9 DEF NoGap
  <2>2. \A x \in routes \cup Opened : x \in Channels \/ x \in Closes(up, Len(up))
    BY <1>9, <2>1 DEF WInv, InStep, InService
  <2>3. Closes(up, Len(up)) \subseteq Closes(up', Len(up'))
    BY <1>2, <1>4 DEF Closes
  <2> QED
    BY <1>5, <1>6, <1>7, <2>2, <2>3
<1>10. InStep'
  BY <1>9 DEF InStep
<1>11. Openable'
  <2> SUFFICES ASSUME ~over', NEW n \in 1..Len(up'), up'[n].op = "OPEN", NoGap(n)'
               PROVE  (IsFiniteSet(Foreseen(n)) /\ Cardinality(Foreseen(n)) <= MAX_CHANNELS)'
    BY DEF Openable
  <2>1. CASE n \in 1..Len(up)
    <3>1. up[n].op = "OPEN" /\ \A j \in 1..n : j \in 1..Len(up) /\ up'[j] = up[j]
      BY <1>2, <2>1
    <3>2. NoGap(n) /\ Opens(up', n) = Opens(up, n)
      BY <3>1 DEF NoGap, Opens
    <3>3. Closes(up', n) = Closes(up, n)
      BY <3>1 DEF Closes
    <3>4. Foreseen(n)' = Foreseen(n)
      BY <3>2, <3>3 DEF Foreseen
    <3>5. IsFiniteSet(Foreseen(n)) /\ Cardinality(Foreseen(n)) <= MAX_CHANNELS
      BY <2>1, <3>1, <3>2 DEF WInv, Openable
    <3> QED
      BY <3>4, <3>5
  <2>2. CASE n = Len(up')
    <3>1. Foreseen(n)' \subseteq Channels
      BY <1>5, <1>9, <2>2 DEF Foreseen, Opened
    <3>2. IsFiniteSet(Channels) /\ Cardinality(Channels) <= MAX_CHANNELS
      <4>1. IsFiniteSet(Kept) /\ Channels \in SUBSET Kept
        BY DEF WInv, Limits, Kept
      <4>2. IsFiniteSet(Channels)
        BY <4>1, FS_Subset
      <4> QED
        BY <4>2 DEF WInv, Limits
    <3>3. IsFiniteSet(Foreseen(n)') /\ Cardinality(Foreseen(n)') <= Cardinality(Channels)
      BY <3>1, <3>2, FS_Subset
    <3>4. Cardinality(Foreseen(n)') \in Nat /\ Cardinality(Channels) \in Nat
      BY <3>2, <3>3, FS_CardinalityType
    <3> QED
      BY <3>2, <3>3, <3>4, GatewayAssumption
  <2> QED
    BY <1>2, <1>3, <2>1, <2>2
<1> QED
  BY <1>5, <1>7, <1>8, <1>10, <1>11

-----------------------------------------------------------------------------
(* The way down                                                            *)

LEMMA DownKept ==
  ASSUME WInv, down' = down, used \subseteq used',
         \A c \in used : /\ acked'[c] => acked[c]
                         /\ c \in Channels' /\ closed'[c] => c \in Channels /\ closed[c]
  PROVE  Downward'
BY DEF WInv, Downward

\* The supervisor appends an ACK for a channel it has just recognised, or a CLOSE.
LEMMA DownPushed ==
  ASSUME WInv, NEW m \in DownType, down' = Append(down, m),
         used \subseteq used', m.channel \in used',
         m.op = "ACK" => m.channel \notin used,
         conn' = conn, acked' = acked, closed' = closed
  PROVE  Downward'
<1>1. /\ down \in Seq(DownType) /\ Len(down) \in Nat /\ Len(down') = Len(down) + 1
      /\ down'[Len(down) + 1] = m /\ \A j \in 1..Len(down) : down'[j] = down[j]
  BY Pushed DEF WInv, Types
<1>2. \A j \in 1..Len(down') : \/ j \in 1..Len(down) /\ down'[j] = down[j]
                               \/ j = Len(down) + 1 /\ down'[j] = m
  BY <1>1
<1>3. Channels' = Channels /\ m.channel \in Conns
  BY DEF Channels, DownType
<1>4. m.op = "ACK" => ~acked[m.channel] /\ (m.channel \in Channels => ~closed[m.channel])
  BY <1>3 DEF WInv, Progress
<1>5. \A j \in 1..Len(down') : down'[j].channel \in used'
  BY <1>2 DEF WInv, Downward
<1>6. \A j \in 1..Len(down') : down'[j].op = "ACK" =>
        ~acked'[down'[j].channel] /\ (down'[j].channel \in Channels' => ~closed'[down'[j].channel])
  BY <1>2, <1>3, <1>4 DEF WInv, Downward
<1>7. ASSUME NEW j \in 1..Len(down'), NEW k \in 1..Len(down'), down'[j].op = "ACK",
             down'[j].channel = down'[k].channel
      PROVE  j = k \/ (j < k /\ down'[k].op = "CLOSE")
  <2>1. \A x \in 1..Len(down) : down[x].channel \in used
    BY DEF WInv, Downward
  <2>2. CASE j \in 1..Len(down) /\ k \in 1..Len(down)
    BY <1>1, <1>7, <2>2 DEF WInv, Downward
  <2>3. CASE j = Len(down) + 1
    BY <1>1, <1>2, <1>7, <2>1, <2>3
  <2>4. CASE k = Len(down) + 1 /\ j \in 1..Len(down)
    <3>1. m.channel \in used /\ m.op \in {"ACK", "CLOSE"}
      BY <1>1, <1>7, <2>1, <2>4 DEF DownType
    <3> QED
      BY <1>1, <2>4, <3>1
  <2> QED
    BY <1>2, <2>2, <2>3, <2>4
<1> QED
  BY <1>5, <1>6, <1>7 DEF Downward

\* The gateway takes the next message, and does at most what it says.
LEMMA DownPopped ==
  ASSUME WInv, down # <<>>, down' = Tail(down), used' = used,
         \A c \in Conns : /\ acked'[c] => acked[c] \/ (Head(down).op = "ACK" /\ Head(down).channel = c)
                          /\ c \in Channels' /\ closed'[c] =>
                               \/ c \in Channels /\ closed[c]
                               \/ Head(down).op = "CLOSE" /\ Head(down).channel = c
  PROVE  Downward'
<1>1. /\ down \in Seq(DownType) /\ Len(down) \in Nat /\ Len(down) >= 1
      /\ Len(down') = Len(down) - 1 /\ Head(down) = down[1] /\ 1 \in 1..Len(down)
      /\ \A j \in 1..Len(down') : j \in Nat /\ j + 1 \in 1..Len(down) /\ down'[j] = down[j + 1]
      /\ \A j \in 1..Len(down') : j + 1 # 1 /\ ~(j + 1 < 1) /\ down'[j] \in DownType
  BY Popped DEF WInv, Types
<1>2. \A j \in 1..Len(down') : down'[j].channel \in used'
  BY <1>1 DEF WInv, Downward
<1>3. ASSUME NEW j \in 1..Len(down'), down'[j].op = "ACK"
      PROVE  /\ ~acked'[down'[j].channel]
             /\ down'[j].channel \in Channels' => ~closed'[down'[j].channel]
  <2>1. down[j + 1].op = "ACK" /\ down[j + 1] = down'[j] /\ down'[j].channel \in Conns
    BY <1>1, <1>3 DEF DownType
  <2>2. /\ ~acked[down'[j].channel]
        /\ down'[j].channel \in Channels => ~closed[down'[j].channel]
    BY <1>1, <2>1 DEF WInv, Downward
  <2>3. down[1].channel # down'[j].channel
    <3>1. ASSUME down[1].channel = down[j + 1].channel
          PROVE  j + 1 = 1 \/ (j + 1 < 1 /\ down[1].op = "CLOSE")
      BY <1>1, <2>1, <3>1 DEF WInv, Downward
    <3> QED
      BY <1>1, <2>1, <3>1
  <2> QED
    BY <1>1, <2>1, <2>2, <2>3
<1>4. ASSUME NEW j \in 1..Len(down'), NEW k \in 1..Len(down'), down'[j].op = "ACK",
             down'[j].channel = down'[k].channel
      PROVE  j = k \/ (j < k /\ down'[k].op = "CLOSE")
  <2>1. j + 1 = k + 1 \/ (j + 1 < k + 1 /\ down[k + 1].op = "CLOSE")
    BY <1>1, <1>4 DEF WInv, Downward
  <2> QED
    BY <1>1, <2>1
<1> QED
  BY <1>2, <1>3, <1>4 DEF Downward

-----------------------------------------------------------------------------
(* Counts and limits                                                       *)

\* A step that opens no socket.
LEMMA Shrunk ==
  ASSUME WInv, port' = port, Kept' \subseteq Kept, Channels' \subseteq Channels,
         Offered' \subseteq Offered \/ Offered' \subseteq Kept,
         end' \in InService => Offered' \subseteq Kept'
  PROVE  Sockets' /\ Limits'
<1>1. Sockets'
  BY DEF WInv, Sockets
<1>2. /\ IsFiniteSet(Kept) /\ Cardinality(Kept) <= MAX_ROUTES /\ Channels \subseteq Kept
      /\ IsFiniteSet(Offered) /\ Cardinality(Offered) <= MAX_ROUTES
      /\ Cardinality(Channels) <= MAX_CHANNELS
  BY DEF WInv, Limits, Kept
<1>3. /\ IsFiniteSet(Kept') /\ Cardinality(Kept') <= Cardinality(Kept)
      /\ IsFiniteSet(Channels)
  BY <1>2, FS_Subset
<1>4. IsFiniteSet(Channels') /\ Cardinality(Channels') <= Cardinality(Channels)
  BY <1>3, FS_Subset
<1>5. \/ IsFiniteSet(Offered') /\ Cardinality(Offered') <= Cardinality(Offered)
      \/ IsFiniteSet(Offered') /\ Cardinality(Offered') <= Cardinality(Kept)
  BY <1>2, FS_Subset
<1>6. /\ Cardinality(Kept) \in Nat /\ Cardinality(Kept') \in Nat
      /\ Cardinality(Channels) \in Nat /\ Cardinality(Channels') \in Nat
      /\ Cardinality(Offered) \in Nat /\ Cardinality(Offered') \in Nat
  BY <1>2, <1>3, <1>4, <1>5, FS_CardinalityType
<1>7. Limits'
  <2>1. Cardinality(Kept') <= MAX_ROUTES /\ Cardinality(Channels') <= MAX_CHANNELS
    BY <1>2, <1>3, <1>4, <1>6, GatewayAssumption
  <2>2. Cardinality(Offered') <= MAX_ROUTES
    BY <1>2, <1>5, <1>6, GatewayAssumption
  <2> QED
    BY <1>3, <1>5, <2>1, <2>2 DEF Limits
<1> QED
  BY <1>1, <1>7

\* A handshake is taken, given back, or neither.
LEMMA Counted ==
  ASSUME WInv,
         \/ Waiting' = Waiting /\ pending' = pending
         \/ \E c \in Conns \ Waiting : Waiting' = Waiting \cup {c} /\ pending' = pending + 1
         \/ \E c \in Waiting : Waiting' = Waiting \ {c} /\ pending' = pending - 1
         \/ Waiting' = {} /\ pending' = 0
  PROVE  Pending' /\ pending' \in Nat
<1>1. IsFiniteSet(Waiting) /\ pending = Cardinality(Waiting) /\ pending \in Nat
  BY DEF WInv, Pending, Types, GtwTypeOK
<1>2. CASE Waiting' = Waiting /\ pending' = pending
  BY <1>1, <1>2 DEF Pending
<1>3. CASE \E c \in Conns \ Waiting : Waiting' = Waiting \cup {c} /\ pending' = pending + 1
  <2> PICK c \in Conns \ Waiting : Waiting' = Waiting \cup {c} /\ pending' = pending + 1
    BY <1>3
  <2>1. IsFiniteSet(Waiting') /\ Cardinality(Waiting') = pending + 1
    BY <1>1, FS_AddElement
  <2> QED
    BY <1>1, <2>1 DEF Pending
<1>4. CASE \E c \in Waiting : Waiting' = Waiting \ {c} /\ pending' = pending - 1
  <2> PICK c \in Waiting : Waiting' = Waiting \ {c} /\ pending' = pending - 1
    BY <1>4
  <2>1. IsFiniteSet(Waiting') /\ Cardinality(Waiting') = pending - 1
    BY <1>1, FS_RemoveElement
  <2>2. Cardinality(Waiting') \in Nat
    BY <2>1, FS_CardinalityType
  <2> QED
    BY <2>1, <2>2 DEF Pending
<1>5. CASE Waiting' = {} /\ pending' = 0
  BY <1>5, FS_EmptySet DEF Pending
<1> QED
  BY <1>2, <1>3, <1>4, <1>5

\* The supervisor's tables do not depend on what the gateway does.
LEMMA TablesKept ==
  ASSUME WInv, UNCHANGED supervisor, \A c \in used : port'[c] = port[c]
  PROVE  Tables'
BY DEF WInv, Tables, supervisor, Types, GtwTypeOK

\* Nor the gateway's on what the supervisor does.
LEMMA Elsewhere ==
  ASSUME WInv, UNCHANGED gateway, used \subseteq used', Offered' \subseteq Offered
  PROVE  /\ Pending' /\ Progress' /\ Sockets' /\ Limits'
         /\ conn' = conn /\ port' = port /\ acked' = acked /\ closed' = closed
         /\ pending' = pending /\ end' = end /\ lost' = lost
<1>1. /\ conn' = conn /\ port' = port /\ acked' = acked /\ closed' = closed
      /\ pending' = pending /\ end' = end /\ lost' = lost
  BY DEF gateway
<1>2. Channels' = Channels /\ Kept' = Kept /\ Waiting' = Waiting
  BY <1>1 DEF Channels, Retired, Kept, Waiting
<1>3. Sockets' /\ Limits'
  BY <1>1, <1>2, Shrunk DEF WInv, Sockets
<1>4. Progress'
  BY <1>1, <1>2 DEF WInv, Progress
<1> QED
  BY <1>1, <1>2, <1>3, <1>4, Counted

-----------------------------------------------------------------------------
(* The gateway's steps                                                     *)

States == {"new", "tls", "opening", "advertised", "forwarding", "retired", "gone"}

\* A step that says nothing, and loses nothing the supervisor has.
LEMMA UpSame ==
  ASSUME WInv, UNCHANGED supervisor, up' = up, end' = end, lost' = lost,
         Channels \subseteq Channels',
         \A d \in Conns : conn[d] \in {"retired", "gone"} => conn'[d] \in {"retired", "gone"}
  PROVE  Upward' /\ InStep' /\ Openable' /\ Opened' = Opened /\ Offered' = Offered
<1>1. used' = used /\ over' = over /\ routes' = routes
  BY DEF supervisor
<1>2. up \in Seq(UpType) /\ Len(up) \in Nat /\ ~(Len(up') = Len(up) + 1)
  BY DEF WInv, Types
<1>3. Upward' /\ InStep' /\ Openable' /\ Opened' = Opened
  BY <1>1, <1>2, UpKept
<1> QED
  BY <1>1, <1>3 DEF Offered

LEMMA AcceptKeeps == ASSUME WInv, NEW c \in Conns, Accept(c) PROVE WInv'
<1>1. /\ conn[c] = "new" /\ end = "up" /\ conn' = [conn EXCEPT ![c] = "tls"]
      /\ pending' = pending + 1
      /\ port' = port /\ acked' = acked /\ closed' = closed /\ end' = end /\ lost' = lost
      /\ up' = up /\ down' = down /\ reached' = reached /\ UNCHANGED supervisor
      /\ conn \in [Conns -> States]
  BY DEF Accept, WInv, Types, GtwTypeOK, States
<1>2. used' = used /\ over' = over /\ routes' = routes
  BY <1>1 DEF supervisor
<1>3. /\ Channels' = Channels /\ Kept' = Kept /\ Waiting' = Waiting \cup {c}
      /\ c \notin Waiting
  BY <1>1 DEF Channels, Retired, Kept, Waiting, States
<1>4. Upward' /\ InStep' /\ Openable' /\ Opened' = Opened /\ Offered' = Offered
  BY <1>1, <1>3, UpSame DEF States
<1>5. Pending' /\ pending' \in Nat
  BY <1>1, <1>3, Counted
<1>6. Sockets' /\ Limits'
  BY <1>1, <1>3, <1>4, Shrunk DEF WInv, Sockets
<1>7. Progress'
  BY <1>1, <1>2, <1>3, <1>4 DEF WInv, Progress, States
<1>8. Tables' /\ Downward'
  BY <1>1, <1>2, <1>3, TablesKept, DownKept
<1>9. Types'
  BY <1>1, <1>5 DEF WInv, Types, GtwTypeOK, supervisor, States
<1> QED
  BY <1>4, <1>5, <1>6, <1>7, <1>8, <1>9 DEF WInv

LEMMA DropKeeps ==
  ASSUME WInv, NEW c \in Conns, conn[c] = "tls", end = "up", Drop(c) PROVE WInv'
<1>1. /\ conn' = [conn EXCEPT ![c] = "gone"] /\ pending' = pending - 1
      /\ port' = port /\ acked' = acked /\ closed' = closed /\ end' = end /\ lost' = lost
      /\ up' = up /\ down' = down /\ reached' = reached /\ UNCHANGED supervisor
      /\ conn \in [Conns -> States]
  BY DEF Drop, WInv, Types, GtwTypeOK, States
<1>2. used' = used /\ over' = over /\ routes' = routes
  BY <1>1 DEF supervisor
<1>3. /\ Channels' = Channels /\ Kept' = Kept /\ Waiting' = Waiting \ {c}
      /\ c \in Waiting
  BY <1>1 DEF Channels, Retired, Kept, Waiting, States
<1>4. Upward' /\ InStep' /\ Openable' /\ Opened' = Opened /\ Offered' = Offered
  BY <1>1, <1>3, UpSame DEF States
<1>5. Pending' /\ pending' \in Nat
  BY <1>1, <1>3, Counted
<1>6. Sockets' /\ Limits'
  BY <1>1, <1>3, <1>4, Shrunk DEF WInv, Sockets
<1>7. Progress'
  BY <1>1, <1>2, <1>3, <1>4 DEF WInv, Progress, States
<1>8. Tables' /\ Downward'
  BY <1>1, <1>2, <1>3, TablesKept, DownKept
<1>9. Types'
  BY <1>1, <1>5 DEF WInv, Types, GtwTypeOK, supervisor, States
<1> QED
  BY <1>4, <1>5, <1>6, <1>7, <1>8, <1>9 DEF WInv

LEMMA OpenChannelKeeps == ASSUME WInv, NEW c \in Conns, OpenChannel(c) PROVE WInv'
<1>1. CASE ~Room
  BY <1>1, DropKeeps DEF OpenChannel
<1>2. CASE Room
  <2> PICK p \in Ports \ {port[d] : d \in Channels \cup Retired} : port' = [port EXCEPT ![c] = p]
    BY <1>2 DEF OpenChannel
  <2>1. /\ conn[c] = "tls" /\ end = "up" /\ conn' = [conn EXCEPT ![c] = "opening"]
        /\ pending' = pending
        /\ acked' = acked /\ closed' = closed /\ end' = end /\ lost' = lost
        /\ up' = up /\ down' = down /\ reached' = reached /\ UNCHANGED supervisor
        /\ conn \in [Conns -> States] /\ port \in [Conns -> Ports \cup {0}]
    BY <1>2 DEF OpenChannel, WInv, Types, GtwTypeOK, States
  <2>2. used' = used /\ over' = over /\ routes' = routes
    BY <2>1 DEF supervisor
  <2>3. /\ Channels' = Channels \cup {c} /\ Kept' = Kept \cup {c} /\ Waiting' = Waiting
        /\ c \notin Kept /\ c \notin Channels /\ Kept = Channels \cup Retired
        /\ Channels \cap Retired = {}
    BY <2>1 DEF Channels, Retired, Kept, Waiting, States
  <2>4. Upward' /\ InStep' /\ Openable' /\ Opened' = Opened /\ Offered' = Offered
    BY <2>1, <2>3, UpSame DEF States
  <2>5. Pending' /\ pending' \in Nat
    BY <2>1, <2>3, Counted
  <2>6. /\ c \notin Offered /\ c \notin used /\ ~closed[c]
        /\ p \in Ports /\ \A d \in Kept : port[d] # p
        /\ port'[c] = p /\ \A d \in Kept \cup Offered : port'[d] = port[d]
    <3>1. c \notin Offered /\ c \notin used /\ ~closed[c]
      BY <2>1 DEF WInv, Progress, Offered
    <3>2. Kept \cup Offered \subseteq Conns
      BY DEF WInv, Types, GtwTypeOK, Kept, Channels, Retired, Offered, Opened, Opens
    <3> QED
      BY <2>1, <2>3, <3>1, <3>2
  <2>7. Sockets'
    <3>1. \A d \in Kept' \cup Offered' : port'[d] \in Ports
      BY <2>3, <2>4, <2>6 DEF WInv, Sockets
    <3>2. \A d, e \in Kept' : port'[d] = port'[e] => d = e
      BY <2>3, <2>6 DEF WInv, Sockets
    <3>3. \A d, e \in Offered' : port'[d] = port'[e] => d = e
      BY <2>4, <2>6 DEF WInv, Sockets
    <3> QED
      BY <2>1, <2>3, <2>4, <3>1, <3>2, <3>3 DEF WInv, Sockets
  <2>8. Limits'
    <3>1. IsFiniteSet(Kept) /\ Channels \subseteq Kept /\ Retired \subseteq Kept
      BY <2>3 DEF WInv, Limits
    <3>2. IsFiniteSet(Channels) /\ IsFiniteSet(Retired)
      BY <3>1, FS_Subset
    <3>3. /\ Cardinality(Channels) \in Nat /\ Cardinality(Retired) \in Nat
          /\ Cardinality(Kept) \in Nat
      BY <3>1, <3>2, FS_CardinalityType
    <3>4. Cardinality(Kept) = Cardinality(Channels) + Cardinality(Retired)
      <4>1. Cardinality(Channels \cup Retired)
              = Cardinality(Channels) + Cardinality(Retired) - Cardinality(Channels \cap Retired)
        BY <3>2, FS_Union
      <4>2. Cardinality(Channels \cap Retired) = 0
        BY <2>3, FS_EmptySet
      <4> QED
        BY <2>3, <3>3, <4>1, <4>2
    <3>5. /\ IsFiniteSet(Kept') /\ Cardinality(Kept') = Cardinality(Kept) + 1
          /\ Cardinality(Channels') = Cardinality(Channels) + 1
      BY <2>3, <3>1, <3>2, FS_AddElement
    <3>6. Cardinality(Kept') <= MAX_ROUTES /\ Cardinality(Channels') <= MAX_CHANNELS
      BY <1>2, <3>3, <3>4, <3>5, GatewayAssumption DEF Room
    <3> QED
      BY <2>4, <3>5, <3>6 DEF WInv, Limits
  <2>9. Progress'
    BY <2>1, <2>2, <2>3, <2>4, <2>6 DEF WInv, Progress, States
  <2>10. Tables' /\ Downward'
    <3>1. \A d \in used : port'[d] = port[d]
      BY <2>6 DEF Offered
    <3> QED
      BY <2>1, <2>2, <2>3, <2>6, <3>1, TablesKept, DownKept
  <2>11. Types'
    BY <2>1, <2>5, <2>6 DEF WInv, Types, GtwTypeOK, supervisor, States
  <2> QED
    BY <2>4, <2>5, <2>7, <2>8, <2>9, <2>10, <2>11 DEF WInv
<1> QED
  BY <1>1, <1>2

\* c is retired: the message that says so is on its way, or known to be lost.
LEMMA RetireKeeps ==
  ASSUME WInv, NEW c \in Channels, end = "up", conn' = [conn EXCEPT ![c] = "retired"],
         closed' = [closed EXCEPT ![c] = TRUE],
         Emit("CLOSE", c) \/ (up' = up /\ lost' = TRUE),
         \/ conn[c] = "forwarding" /\ pending' = pending
         \/ conn[c] # "forwarding" /\ pending' = pending - 1,
         UNCHANGED <<port, acked, end, supervisor, down, reached>>
  PROVE  WInv'
<1>1. /\ port' = port /\ acked' = acked /\ end' = end /\ down' = down /\ reached' = reached
      /\ UNCHANGED supervisor /\ conn \in [Conns -> States] /\ closed \in [Conns -> BOOLEAN]
      /\ c \in Conns /\ lost \in BOOLEAN
  BY DEF WInv, Types, GtwTypeOK, States, Channels
<1>2. used' = used /\ over' = over /\ routes' = routes
  BY <1>1 DEF supervisor
<1>3. /\ Channels' = Channels \ {c} /\ Kept' = Kept
      /\ conn[c] \in {"opening", "advertised", "forwarding"}
      /\ conn[c] = "forwarding" => Waiting' = Waiting
      /\ conn[c] # "forwarding" => c \in Waiting /\ Waiting' = Waiting \ {c}
      /\ conn'[c] = "retired" /\ \A d \in Conns \ {c} : conn'[d] = conn[d]
  BY <1>1 DEF Channels, Retired, Kept, Waiting, States
<1> PICK m \in UpType : m = Message("CLOSE", c)
  BY <1>1 DEF Message, UpType
<1>4. m.op = "CLOSE" /\ m.channel = c
  BY DEF Message
<1>5. /\ up \in Seq(UpType) /\ Len(up) \in Nat /\ ~(Len(up) = Len(up) + 1)
      /\ Append(up, m) \in Seq(UpType) /\ Len(Append(up, m)) = Len(up) + 1
      /\ Append(up, m)[Len(up) + 1] = m /\ \A j \in 1..Len(up) : Append(up, m)[j] = up[j]
  BY Pushed DEF WInv, Types
<1>6. \/ up' = Append(up, m) /\ lost' = FALSE
      \/ up' = up /\ lost' = TRUE
  BY DEF Emit
<1>7. /\ up' \in Seq(UpType) /\ lost' \in BOOLEAN
      /\ Upward' /\ InStep' /\ Openable' /\ Opened' = Opened
  <2>1. \A d \in Conns : conn[d] \in {"retired", "gone"} => conn'[d] \in {"retired", "gone"}
    BY <1>3
  <2>2. CASE up' = up /\ lost' = TRUE
    BY <1>2, <1>5, <2>1, <2>2, UpKept
  <2>3. CASE up' = Append(up, m) /\ lost' = FALSE
    <3>1. /\ up' \in Seq(UpType) /\ Len(up') = Len(up) + 1 /\ up'[Len(up) + 1] = m
          /\ \A j \in 1..Len(up) : up'[j] = up[j] /\ Len(up') \in Nat
          /\ Len(up) + 1 \in 1..Len(up')
      BY <1>5, <2>3
    <3>2. Channels \subseteq Channels' \cup Closes(up', Len(up'))
      <4>1. c \in Closes(up', Len(up'))
        BY <1>1, <1>4, <3>1 DEF Closes
      <4> QED
        BY <1>3, <4>1
    <3>3. NoGap(Len(up))' => ~lost
      BY <1>3, <3>1 DEF NoGap, Message
    <3> QED
      BY <1>1, <1>2, <1>3, <1>4, <2>1, <2>3, <3>1, <3>2, <3>3, UpKept, ZenonT(40) DEF InService
  <2> QED
    BY <1>6, <2>2, <2>3
<1>8. Offered' = Offered
  BY <1>2, <1>7 DEF Offered
<1>9. Pending' /\ pending' \in Nat
  BY <1>3, Counted
<1>10. Sockets' /\ Limits'
  BY <1>1, <1>3, <1>8, Shrunk DEF WInv, Sockets
<1>11. Progress'
  BY <1>1, <1>2, <1>3, <1>8 DEF WInv, Progress
<1>12. Tables' /\ Downward'
  <2>1. \A d \in used : d \in Channels' /\ closed'[d] => d \in Channels /\ closed[d]
    BY <1>1, <1>3 DEF WInv, Types, GtwTypeOK
  <2> QED
    BY <1>1, <1>2, <1>3, <2>1, TablesKept, DownKept
<1>13. Types'
  BY <1>1, <1>7, <1>9 DEF WInv, Types, GtwTypeOK, supervisor, States
<1> QED
  BY <1>7, <1>9, <1>10, <1>11, <1>12, <1>13 DEF WInv

LEMMA AdvertiseKeeps == ASSUME WInv, NEW c \in Conns, Advertise(c) PROVE WInv'
<1>1. CASE Len(up) < UP_MAX
  <2>1. /\ conn[c] = "opening" /\ end = "up" /\ conn' = [conn EXCEPT ![c] = "advertised"]
        /\ pending' = pending /\ port' = port
        /\ acked' = acked /\ closed' = closed /\ end' = end /\ lost' = FALSE
        /\ up' = Append(up, Message("OPEN", c)) /\ down' = down /\ reached' = reached
        /\ UNCHANGED supervisor
        /\ conn \in [Conns -> States] /\ lost \in BOOLEAN /\ up \in Seq(UpType)
    BY <1>1 DEF Advertise, Emit, WInv, Types, GtwTypeOK, States
  <2>2. used' = used /\ over' = over /\ routes' = routes
    BY <2>1 DEF supervisor
  <2>3. /\ Upward' /\ InStep' /\ Openable' /\ Opened' = Opened \cup {c}
        /\ Channels' = Channels /\ Kept' = Kept
    BY <2>1, <2>2, UpOffered
  <2>4. Waiting' = Waiting /\ c \in Kept /\ Offered' = Offered \cup {c}
    BY <2>1, <2>2, <2>3 DEF Waiting, Kept, Channels, Offered, States
  <2>5. Pending' /\ pending' \in Nat
    BY <2>1, <2>4, Counted
  <2>6. Sockets' /\ Limits'
    <3>1. Offered' \subseteq Kept
      BY <2>1, <2>4 DEF WInv, Sockets, InService
    <3> QED
      BY <2>1, <2>3, <3>1, Shrunk
  <2>7. Progress'
    BY <2>1, <2>2, <2>3, <2>4 DEF WInv, Progress, States
  <2>8. Tables' /\ Downward'
    BY <2>1, <2>2, <2>3, TablesKept, DownKept
  <2>9. up' \in Seq(UpType)
    <3>1. Message("OPEN", c) \in UpType
      BY <2>1 DEF Message, UpType
    <3> QED
      BY <2>1, <3>1, Pushed
  <2>10. Types'
    BY <2>1, <2>5, <2>9 DEF WInv, Types, GtwTypeOK, supervisor, States
  <2> QED
    BY <2>3, <2>5, <2>6, <2>7, <2>8, <2>10 DEF WInv
<1>2. CASE ~(Len(up) < UP_MAX)
  <2>1. c \in Channels
    BY DEF Advertise, Channels
  <2> QED
    BY <1>2, <2>1, RetireKeeps DEF Advertise, Emit
<1> QED
  BY <1>1, <1>2

LEMMA ResumeKeeps == ASSUME WInv, NEW c \in Conns, Resume(c) PROVE WInv'
<1>0. c \in Channels
  BY DEF Resume, Channels
<1>1. CASE closed[c]
  BY <1>0, <1>1, RetireKeeps DEF Resume, Retire
<1>2. CASE ~closed[c]
  <2>1. /\ conn[c] = "advertised" /\ acked[c] /\ end = "up"
        /\ conn' = [conn EXCEPT ![c] = "forwarding"]
        /\ pending' = pending - 1 /\ port' = port
        /\ acked' = acked /\ closed' = closed /\ end' = end /\ lost' = lost
        /\ up' = up /\ down' = down /\ reached' = reached \cup {c} /\ UNCHANGED supervisor
        /\ conn \in [Conns -> States]
    BY <1>2 DEF Resume, WInv, Types, GtwTypeOK, States
  <2>2. used' = used /\ over' = over /\ routes' = routes
    BY <2>1 DEF supervisor
  <2>3. /\ Channels' = Channels /\ Kept' = Kept /\ Waiting' = Waiting \ {c}
        /\ c \in Waiting
    BY <2>1 DEF Channels, Retired, Kept, Waiting, States
  <2>4. Upward' /\ InStep' /\ Openable' /\ Opened' = Opened /\ Offered' = Offered
    BY <2>1, <2>3, UpSame DEF States
  <2>5. Pending' /\ pending' \in Nat
    BY <2>1, <2>3, Counted
  <2>6. Sockets' /\ Limits'
    BY <2>1, <2>3, <2>4, Shrunk DEF WInv, Sockets
  <2>7. Progress'
    BY <2>1, <2>2, <2>3, <2>4 DEF WInv, Progress, States
  <2>8. Tables' /\ Downward'
    BY <2>1, <2>2, <2>3, TablesKept, DownKept
  <2>9. Types'
    BY <2>1, <2>5 DEF WInv, Types, GtwTypeOK, supervisor, States
  <2> QED
    BY <2>4, <2>5, <2>6, <2>7, <2>8, <2>9 DEF WInv
<1> QED
  BY <1>1, <1>2

LEMMA EndsKeeps ==
  ASSUME WInv, NEW why \in Ending, Ends(why),
         down' = down \/ (down # <<>> /\ down' = Tail(down))
  PROVE  WInv'
<1>1. /\ end' = why /\ pending' = 0 /\ port' = port /\ acked' = acked /\ closed' = closed
      /\ lost' = lost /\ up' = up /\ reached' = reached /\ UNCHANGED supervisor
      /\ conn' = [c \in Conns |-> IF conn[c] = "new" THEN "new" ELSE "gone"]
      /\ end' \notin InService
      /\ conn \in [Conns -> States] /\ down \in Seq(DownType) /\ up \in Seq(UpType)
      /\ Len(up) \in Nat /\ ~(Len(up) = Len(up) + 1)
  BY DEF Ends, Ending, InService, WInv, Types, GtwTypeOK, States
<1>2. used' = used /\ over' = over /\ routes' = routes
  BY <1>1 DEF supervisor
<1>3. /\ Channels' = {} /\ Kept' = {} /\ Waiting' = {}
      /\ \A d \in Conns : conn'[d] = "gone" \/ (conn'[d] = "new" /\ conn[d] = "new")
  BY <1>1 DEF Channels, Retired, Kept, Waiting
<1>4. Upward' /\ InStep' /\ Openable' /\ Opened' = Opened
  BY <1>1, <1>2, <1>3, UpKept
<1>5. Offered' = Offered
  BY <1>2, <1>4 DEF Offered
<1>6. Pending' /\ pending' \in Nat
  BY <1>1, <1>3, Counted
<1>7. Sockets' /\ Limits'
  BY <1>1, <1>3, <1>5, Shrunk
<1>8. Progress'
  BY <1>1, <1>2, <1>3, <1>5 DEF WInv, Progress
<1>9. Tables'
  BY <1>1, TablesKept
<1>10. Downward' /\ down' \in Seq(DownType)
  <2>1. CASE down' = down
    BY <1>1, <1>2, <1>3, <2>1, DownKept
  <2>2. CASE down # <<>> /\ down' = Tail(down)
    BY <1>1, <1>2, <1>3, <2>2, DownPopped, Popped
  <2> QED
    BY <2>1, <2>2
<1>11. Types'
  BY <1>1, <1>3, <1>6, <1>10 DEF WInv, Types, GtwTypeOK, supervisor, States
<1> QED
  BY <1>4, <1>6, <1>7, <1>8, <1>9, <1>10, <1>11 DEF WInv

\* The gateway's own tasks go on: what they say is about no channel.
LEMMA GoesOn ==
  ASSUME WInv, UNCHANGED <<conn, port, acked, closed, pending, supervisor, reached, down>>,
         end \in InService, end' \in InService,
         \/ up' = up /\ lost' = lost
         \/ \E op \in {"READY", "HEARTBEAT"} : Len(up) < UP_MAX /\ Emit(op, None)
  PROVE  WInv'
<1>1. /\ conn' = conn /\ port' = port /\ acked' = acked /\ closed' = closed
      /\ pending' = pending /\ reached' = reached /\ down' = down /\ UNCHANGED supervisor
      /\ up \in Seq(UpType) /\ Len(up) \in Nat /\ lost \in BOOLEAN
      /\ ~(Len(up) = Len(up) + 1)
  BY DEF WInv, Types, GtwTypeOK
<1>2. used' = used /\ over' = over /\ routes' = routes
  BY <1>1 DEF supervisor
<1>3. Channels' = Channels /\ Kept' = Kept /\ Waiting' = Waiting
  BY <1>1 DEF Channels, Retired, Kept, Waiting
<1>4. /\ up' \in Seq(UpType) /\ lost' \in BOOLEAN
      /\ Upward' /\ InStep' /\ Openable' /\ Opened' = Opened
  <2>1. CASE up' = up /\ lost' = lost
    BY <1>1, <1>2, <1>3, <2>1, UpKept
  <2>2. CASE \E op \in {"READY", "HEARTBEAT"} : Len(up) < UP_MAX /\ Emit(op, None)
    <3> PICK op \in {"READY", "HEARTBEAT"} : Len(up) < UP_MAX /\ Emit(op, None)
      BY <2>2
    <3> PICK m \in UpType : m = Message(op, None)
      BY <1>1 DEF Message, UpType
    <3>1. m.op # "OPEN" /\ m.op # "CLOSE" /\ m.gap = lost /\ up' = Append(up, m) /\ lost' = FALSE
      BY DEF Emit, Message
    <3>2. /\ up' \in Seq(UpType) /\ Len(up') = Len(up) + 1 /\ up'[Len(up) + 1] = m
          /\ \A j \in 1..Len(up) : up'[j] = up[j] /\ Len(up') \in Nat
          /\ Len(up) + 1 \in 1..Len(up')
      BY <1>1, <3>1, Pushed
    <3>3. NoGap(Len(up))' => ~lost
      BY <3>1, <3>2 DEF NoGap
    <3> QED
      BY <1>1, <1>2, <1>3, <3>1, <3>2, <3>3, UpKept
  <2> QED
    BY <2>1, <2>2
<1>5. Offered' = Offered
  BY <1>2, <1>4 DEF Offered
<1>6. Pending' /\ pending' \in Nat
  BY <1>1, <1>3, Counted
<1>7. Sockets' /\ Limits'
  BY <1>1, <1>3, <1>5, Shrunk DEF WInv, Sockets
<1>8. Progress'
  BY <1>1, <1>2, <1>3, <1>5 DEF WInv, Progress
<1>9. Tables' /\ Downward'
  BY <1>1, <1>2, <1>3, TablesKept, DownKept
<1>10. Types'
  BY <1>1, <1>4, <1>6 DEF WInv, Types, GtwTypeOK, supervisor
<1> QED
  BY <1>4, <1>6, <1>7, <1>8, <1>9, <1>10 DEF WInv

\* The two errors that would end the gateway when closes cross cannot happen: an ACK
\* comes once and first, and the socket of a recognised channel is kept.
LEMMA CommandSound ==
  ASSUME WInv, end = "up", down # <<>>
  PROVE  LET m == Head(down) IN
         /\ m \in DownType /\ m.channel \in used /\ m.channel \in Conns
         /\ m.channel \in Channels \cup Retired
         /\ m.op = "ACK" => ~acked[m.channel] /\ (m.channel \in Channels => ~closed[m.channel])
<1>1. /\ Head(down) = down[1] /\ down[1] \in DownType /\ 1 \in 1..Len(down)
  BY Popped DEF WInv, Types
<1>2. Head(down).channel \in used
  BY <1>1 DEF WInv, Downward
<1>3. Head(down).channel \in Channels \cup Retired
  BY <1>2 DEF WInv, Sockets, Offered, Kept, InService
<1> QED
  BY <1>1, <1>2, <1>3 DEF WInv, Downward, DownType

LEMMA CommandKeeps == ASSUME WInv, Command PROVE WInv'
<1> PICK m : m = Head(down)
  OBVIOUS
<1> PICK c : c = m.channel
  OBVIOUS
<1>1. end = "up" /\ down # <<>> /\ down' = Tail(down)
  BY DEF Command
<1>2. /\ c \in used /\ c \in Conns /\ c \in Channels \cup Retired
      /\ m.op = "ACK" => ~acked[c] /\ (c \in Channels => ~closed[c])
  BY <1>1, CommandSound
<1>3. \/ m.op = "ACK" /\ c \notin Channels /\ Ends("late_ack")
      \/ /\ UNCHANGED <<conn, port, pending, end, lost, supervisor, up, reached>>
         /\ \/ /\ m.op = "ACK" /\ acked' = [acked EXCEPT ![c] = TRUE] /\ closed' = closed
            \/ /\ m.op = "CLOSE" /\ c \in Channels
               /\ closed' = [closed EXCEPT ![c] = TRUE] /\ acked' = acked
            \/ m.op = "CLOSE" /\ acked' = acked /\ closed' = closed
  BY <1>2 DEF Command, gateway
<1>4. CASE Ends("late_ack")
  BY <1>1, <1>4, EndsKeeps DEF Ending
<1>5. CASE ~Ends("late_ack")
  <2>1. /\ conn' = conn /\ port' = port /\ pending' = pending /\ end' = end /\ lost' = lost
        /\ up' = up /\ reached' = reached /\ UNCHANGED supervisor
        /\ acked \in [Conns -> BOOLEAN] /\ closed \in [Conns -> BOOLEAN]
        /\ acked' \in [Conns -> BOOLEAN] /\ closed' \in [Conns -> BOOLEAN]
        /\ \A d \in Conns : /\ acked'[d] => acked[d] \/ (m.op = "ACK" /\ c = d)
                            /\ acked[d] => acked'[d]
                            /\ closed'[d] => closed[d] \/ (m.op = "CLOSE" /\ c = d /\ c \in Channels)
    BY <1>3, <1>5 DEF WInv, Types, GtwTypeOK
  <2>2. used' = used /\ over' = over /\ routes' = routes
    BY <2>1 DEF supervisor
  <2>3. /\ Channels' = Channels /\ Kept' = Kept /\ Waiting' = Waiting
        /\ Channels \subseteq Conns
    BY <2>1 DEF Channels, Retired, Kept, Waiting
  <2>4. Upward' /\ InStep' /\ Openable' /\ Opened' = Opened /\ Offered' = Offered
    BY <2>1, <2>3, UpSame
  <2>5. Pending' /\ pending' \in Nat
    BY <2>1, <2>3, Counted
  <2>6. Sockets' /\ Limits'
    BY <2>1, <2>3, <2>4, Shrunk DEF WInv, Sockets
  <2>7. Progress'
    <3>1. \A d \in Conns : conn'[d] \in {"new", "tls"} => d \notin Channels
      BY <2>1 DEF Channels
    <3> QED
      BY <1>2, <2>1, <2>2, <2>3, <2>4, <3>1 DEF WInv, Progress
  <2>8. Tables'
    BY <2>1, TablesKept
  <2>9. Downward' /\ down' \in Seq(DownType)
    <3>1. down' \in Seq(DownType)
      BY <1>1, Popped DEF WInv, Types
    <3> QED
      BY <1>1, <2>1, <2>2, <2>3, <3>1, DownPopped
  <2>10. Types'
    BY <2>1, <2>5, <2>9 DEF WInv, Types, GtwTypeOK, supervisor
  <2> QED
    BY <2>4, <2>5, <2>6, <2>7, <2>8, <2>9, <2>10 DEF WInv
<1> QED
  BY <1>4, <1>5

LEMMA GatewayKeeps ==
  ASSUME WInv,
         \/ \E c \in Conns : \/ Accept(c) \/ HandshakeFails(c) \/ OpenChannel(c)
                             \/ Advertise(c) \/ SetupFails(c) \/ Resume(c) \/ ForwardEnds(c)
         \/ Configure \/ Listen \/ Command \/ Heartbeat \/ Die
  PROVE  WInv'
<1>1. ASSUME NEW c \in Conns, HandshakeFails(c) PROVE WInv'
  BY <1>1, DropKeeps DEF HandshakeFails
<1>2. ASSUME NEW c \in Conns, SetupFails(c) PROVE WInv'
  <2>1. c \in Channels /\ conn[c] # "forwarding"
    BY <1>2 DEF SetupFails, Channels
  <2> QED
    BY <1>2, <2>1, RetireKeeps DEF SetupFails, Retire
<1>3. ASSUME NEW c \in Conns, ForwardEnds(c) PROVE WInv'
  <2>1. c \in Channels
    BY <1>3 DEF ForwardEnds, Channels
  <2> QED
    BY <1>3, <2>1, RetireKeeps DEF ForwardEnds, Retire
<1>4. CASE Configure
  <2>1. CASE Ends("config_refused")
    BY <1>4, <2>1, EndsKeeps DEF Configure, Ending
  <2>2. CASE ~Ends("config_refused")
    BY <1>4, <2>2, GoesOn DEF Configure, InService
  <2> QED
    BY <2>1, <2>2
<1>5. CASE Listen
  <2>1. CASE Len(up) < UP_MAX
    <3>1. Emit("READY", None) /\ end \in InService /\ end' \in InService
      BY <1>5, <2>1 DEF Listen, InService
    <3> QED
      BY <1>5, <2>1, <3>1, GoesOn DEF Listen
  <2>2. CASE ~(Len(up) < UP_MAX)
    BY <1>5, <2>2, EndsKeeps DEF Listen, Ending
  <2> QED
    BY <2>1, <2>2
<1>6. CASE Heartbeat
  <2>1. CASE Len(up) < UP_MAX
    <3>1. Emit("HEARTBEAT", None) /\ end \in InService /\ end' \in InService
      BY <1>6, <2>1 DEF Heartbeat, Alive, InService
    <3> QED
      BY <1>6, <2>1, <3>1, GoesOn DEF Heartbeat
  <2>2. CASE ~(Len(up) < UP_MAX)
    BY <1>6, <2>2, EndsKeeps DEF Heartbeat, Ending
  <2> QED
    BY <2>1, <2>2
<1>7. CASE Die
  BY <1>7, EndsKeeps DEF Die, Ending
<1> QED
  BY <1>1, <1>2, <1>3, <1>4, <1>5, <1>6, <1>7, AcceptKeeps, OpenChannelKeeps,
     AdvertiseKeeps, ResumeKeeps, CommandKeeps

-----------------------------------------------------------------------------
(* The supervisor's steps                                                  *)

\* fail or shutdown empties the tables.
LEMMA OverKeeps ==
  ASSUME WInv, Over, UNCHANGED <<gateway, owner, used, serial, times, down, reached>>,
         up' = up \/ (up # <<>> /\ up' = Tail(up))
  PROVE  WInv'
<1>1. /\ over' = TRUE /\ routes' = {} /\ bound' = [c \in Conns |-> 0]
      /\ peers' = [i \in PeerIds |-> None] /\ context' = {} /\ enet' = {}
      /\ owner' = owner /\ used' = used /\ serial' = serial /\ times' = times
      /\ down' = down /\ reached' = reached /\ UNCHANGED gateway
  BY DEF Over
<1>2. /\ conn' = conn /\ port' = port /\ acked' = acked /\ closed' = closed
      /\ pending' = pending /\ end' = end /\ lost' = lost /\ Channels' = Channels
  BY <1>1 DEF gateway, Channels
<1>3. up \in Seq(UpType) /\ Len(up) \in Nat /\ ~(Len(up) = Len(up) + 1)
  BY DEF WInv, Types
<1>4. /\ up' \in Seq(UpType)
      /\ Upward' /\ InStep' /\ Openable' /\ Offered' \subseteq Offered
  <2>1. CASE up' = up
    BY <1>1, <1>2, <1>3, <2>1, UpKept DEF Offered
  <2>2. CASE up # <<>> /\ up' = Tail(up)
    <3>1. up' \in Seq(UpType)
      BY <1>3, <2>2, Popped
    <3> QED
      BY <1>1, <1>2, <2>2, <3>1, UpHeard
  <2> QED
    BY <2>1, <2>2
<1>5. Pending' /\ Progress' /\ Sockets' /\ Limits'
  BY <1>1, <1>4, Elsewhere
<1>6. Tables'
  BY <1>1, <1>2, GatewayAssumption DEF WInv, Tables, None
<1>7. Downward'
  BY <1>1, <1>2, DownKept
<1>8. Types'
  BY <1>1, <1>2, <1>4 DEF WInv, Types, GtwTypeOK
<1> QED
  BY <1>4, <1>5, <1>6, <1>7, <1>8 DEF WInv

\* PeerRoutes.retire takes the route, its peer and its context.
LEMMA RetireRouteTables ==
  ASSUME WInv, NEW c \in Conns, RetireRoute(c), port' = port,
         UNCHANGED <<owner, used, times>>, enet' \subseteq PeerIds,
         \A i \in enet : peers[i] # c => i \in enet'
  PROVE  /\ Tables' /\ bound' \in [Conns -> PeerIds \cup {0}]
         /\ peers' \in [PeerIds -> Conns \cup {None}] /\ context' \subseteq PeerIds
         /\ routes' \subseteq routes
<1>1. /\ routes' = routes \ {c} /\ bound' = [bound EXCEPT ![c] = 0]
      /\ peers' = [i \in PeerIds |-> IF peers[i] = c THEN None ELSE peers[i]]
      /\ context' = context \ {bound[c]} /\ owner' = owner /\ used' = used /\ times' = times
  BY DEF RetireRoute
<1>2. /\ bound \in [Conns -> PeerIds \cup {0}] /\ peers \in [PeerIds -> Conns \cup {None}]
      /\ context \subseteq PeerIds /\ 0 \notin PeerIds /\ None \notin Conns
  BY GatewayAssumption DEF WInv, Types, GtwTypeOK, None
<1>3. /\ \A d \in Conns : bound'[d] = IF d = c THEN 0 ELSE bound[d]
      /\ \A i \in PeerIds : peers'[i] = IF peers[i] = c THEN None ELSE peers[i]
      /\ \A d \in Conns, i \in PeerIds : bound[d] = i <=> peers[i] = d
  BY <1>1, <1>2 DEF WInv, Tables
<1>4. \A d \in Conns, i \in PeerIds : bound'[d] = i <=> peers'[i] = d
  BY <1>2, <1>3
<1>5. \A i \in PeerIds : peers'[i] # None => peers'[i] \in routes' /\ i \in enet'
  BY <1>1, <1>3 DEF WInv, Tables
<1>6. context' = {i \in PeerIds : peers'[i] # None}
  BY <1>1, <1>2, <1>3 DEF WInv, Tables
<1>7. \A d \in Conns : bound'[d] # 0 => d \in routes'
  BY <1>1, <1>3 DEF WInv, Tables
<1>8. \A d \in Conns : /\ times'[d] <= 1
                       /\ d \in routes' /\ bound'[d] = 0 => times'[d] = 0
                       /\ d \notin used' => times'[d] = 0
  BY <1>1, <1>3 DEF WInv, Tables
<1>9. Tables'
  BY <1>1, <1>4, <1>5, <1>6, <1>7, <1>8 DEF WInv, Tables
<1> QED
  BY <1>1, <1>2, <1>9

LEMMA DeliverKeeps == ASSUME WInv, Deliver PROVE WInv'
<1> PICK m : m = Head(up)
  OBVIOUS
<1> PICK c : c = m.channel
  OBVIOUS
<1>1. /\ ~over /\ up # <<>> /\ up' = Tail(up)
      /\ UNCHANGED gateway /\ serial' = serial /\ times' = times /\ reached' = reached
  BY DEF Deliver
<1>2. /\ conn' = conn /\ port' = port /\ acked' = acked /\ closed' = closed
      /\ pending' = pending /\ end' = end /\ lost' = lost /\ Channels' = Channels
  BY <1>1 DEF gateway, Channels
<1>3. /\ m = up[1] /\ 1 \in 1..Len(up) /\ m \in UpType /\ up' \in Seq(UpType)
      /\ \A k \in 1..1 : k = 1
  BY <1>1, Popped DEF WInv, Types
<1>4. /\ m.op \in {"OPEN", "CLOSE"} => c \in Conns
      /\ m.op = "OPEN" => Opens(up, 1) = {c} /\ Closes(up, 1) = {} /\ c \in Opened
      /\ m.op = "CLOSE" => Opens(up, 1) = {} /\ Closes(up, 1) = {c}
      /\ m.op \notin {"OPEN", "CLOSE"} => Closes(up, 1) = {}
  <2>1. m.op \in {"OPEN", "CLOSE"} => c \in Conns
    BY <1>3 DEF WInv, Upward
  <2> QED
    BY <1>3, <2>1 DEF Opened, Opens, Closes
<1>5. CASE m.gap \/ (m.op = "OPEN" /\ ~CanOpen(c))
  BY <1>1, <1>5, OverKeeps DEF Deliver
<1>6. CASE ~(m.gap \/ (m.op = "OPEN" /\ ~CanOpen(c))) /\ m.op = "OPEN"
  <2>1. /\ routes' = routes \cup {c} /\ owner' = [owner EXCEPT ![port[c]] = c]
        /\ used' = used \cup {c} /\ down' = Append(down, [op |-> "ACK", channel |-> c])
        /\ over' = over /\ bound' = bound /\ peers' = peers /\ context' = context
        /\ enet' = enet /\ CanOpen(c)
    BY <1>6 DEF Deliver, OpenRoute
  <2>2. /\ c \in Conns /\ c \notin used /\ port[c] \in Ports
        /\ owner \in [Ports -> Conns \cup {None}]
    BY <1>4, <1>6, <2>1 DEF CanOpen, WInv, Sockets, Offered, Types, GtwTypeOK
  <2>3. Upward' /\ InStep' /\ Openable' /\ Offered' \subseteq Offered
    BY <1>1, <1>2, <1>4, <1>6, <2>1, UpHeard
  <2>4. Pending' /\ Progress' /\ Sockets' /\ Limits'
    BY <1>1, <2>1, <2>3, Elsewhere
  <2>5. \A p \in Ports : owner'[p] # None => owner'[p] \in used' /\ port'[owner'[p]] = p
    BY <1>2, <2>1, <2>2 DEF WInv, Tables
  <2>6. Tables'
    BY <1>1, <2>1, <2>2, <2>5 DEF WInv, Tables
  <2>7. Downward' /\ down' \in Seq(DownType)
    <3> PICK a \in DownType : a = [op |-> "ACK", channel |-> c]
      BY <2>2 DEF DownType
    <3>1. a.channel = c
      OBVIOUS
    <3>2. Downward'
      BY <1>2, <2>1, <2>2, <3>1, DownPushed
    <3> QED
      BY <2>1, <3>2, Pushed DEF WInv, Types
  <2>8. Types'
    BY <1>1, <1>2, <1>3, <2>1, <2>2, <2>7 DEF WInv, Types, GtwTypeOK
  <2> QED
    BY <2>3, <2>4, <2>6, <2>7, <2>8 DEF WInv
<1>7. CASE ~(m.gap \/ (m.op = "OPEN" /\ ~CanOpen(c))) /\ m.op = "CLOSE" /\ c \in routes
  <2>1. /\ RetireRoute(c) /\ over' = over /\ owner' = owner /\ used' = used
        /\ enet' = enet /\ down' = down
    BY <1>7 DEF Deliver
  <2>2. Upward' /\ InStep' /\ Openable' /\ Offered' \subseteq Offered
    BY <1>1, <1>2, <1>4, <1>7, <2>1, UpHeard DEF RetireRoute
  <2>3. Pending' /\ Progress' /\ Sockets' /\ Limits'
    BY <1>1, <2>1, <2>2, Elsewhere
  <2>4. /\ Tables' /\ bound' \in [Conns -> PeerIds \cup {0}]
        /\ peers' \in [PeerIds -> Conns \cup {None}] /\ context' \subseteq PeerIds
        /\ routes' \subseteq routes
    <3>1. enet \subseteq PeerIds
      BY DEF WInv, Types, GtwTypeOK
    <3> QED
      BY <1>1, <1>2, <1>4, <1>7, <2>1, <3>1, RetireRouteTables
  <2>5. Downward'
    BY <1>2, <2>1, DownKept
  <2>6. Types'
    BY <1>1, <1>2, <1>3, <2>1, <2>4 DEF WInv, Types, GtwTypeOK
  <2> QED
    BY <2>2, <2>3, <2>4, <2>5, <2>6 DEF WInv
<1>8. CASE /\ ~(m.gap \/ (m.op = "OPEN" /\ ~CanOpen(c))) /\ m.op # "OPEN"
           /\ ~(m.op = "CLOSE" /\ c \in routes)
  <2>1. /\ over' = over /\ routes' = routes /\ owner' = owner /\ used' = used
        /\ bound' = bound /\ peers' = peers /\ context' = context
        /\ enet' = enet /\ down' = down
    BY <1>8 DEF Deliver
  <2>2. Upward' /\ InStep' /\ Openable' /\ Offered' \subseteq Offered
    BY <1>1, <1>2, <1>4, <1>8, <2>1, UpHeard
  <2>3. Pending' /\ Progress' /\ Sockets' /\ Limits'
    BY <1>1, <2>1, <2>2, Elsewhere
  <2>4. Tables' /\ Downward'
    BY <1>1, <1>2, <2>1, TablesKept, DownKept DEF supervisor
  <2>5. Types'
    BY <1>1, <1>2, <1>3, <2>1 DEF WInv, Types, GtwTypeOK
  <2> QED
    BY <2>2, <2>3, <2>4, <2>5 DEF WInv
<1> QED
  BY <1>5, <1>6, <1>7, <1>8

\* A step of the supervisor that takes no message.
LEMMA Aside ==
  ASSUME WInv, UNCHANGED <<gateway, used, up>>, over' = over, routes' \subseteq routes
  PROVE  Upward' /\ InStep' /\ Openable' /\ Pending' /\ Progress' /\ Sockets' /\ Limits'
<1>1. /\ conn' = conn /\ end' = end /\ lost' = lost /\ Channels' = Channels
      /\ used' = used /\ up' = up
  BY DEF gateway, Channels
<1>2. up \in Seq(UpType) /\ Len(up) \in Nat /\ ~(Len(up) = Len(up) + 1)
  BY DEF WInv, Types
<1>3. Upward' /\ InStep' /\ Openable' /\ Opened' = Opened
  BY <1>1, <1>2, UpKept
<1> QED
  BY <1>1, <1>3, Elsewhere DEF Offered

LEMMA PeerConnectsKeeps ==
  ASSUME WInv, NEW i \in PeerIds, NEW p, PeerConnects(i, p) PROVE WInv'
<1>1. /\ UNCHANGED gateway /\ owner' = owner /\ used' = used /\ up' = up /\ down' = down
      /\ reached' = reached
  BY DEF PeerConnects
<1>2. /\ conn' = conn /\ port' = port /\ acked' = acked /\ closed' = closed
      /\ pending' = pending /\ end' = end /\ lost' = lost /\ Channels' = Channels
  BY <1>1 DEF gateway, Channels
<1>3. Downward'
  BY <1>1, <1>2, DownKept
<1>4. CASE serial >= MAX_ID /\ Over /\ UNCHANGED <<serial, times>>
  BY <1>1, <1>4, OverKeeps
<1>5. CASE serial < MAX_ID /\ CanBind(i, p)
  <2> PICK c : c = owner[p]
    OBVIOUS
  <2>1. /\ serial' = serial + 1 /\ bound' = [bound EXCEPT ![c] = i]
        /\ peers' = [peers EXCEPT ![i] = c] /\ context' = context \cup {i}
        /\ enet' = enet \cup {i} /\ times' = [times EXCEPT ![c] = @ + 1]
        /\ over' = over /\ routes' = routes
    <3>1. ~(serial >= MAX_ID)
      BY <1>5, GatewayAssumption DEF WInv, Types, GtwTypeOK
    <3> QED
      BY <1>5, <3>1 DEF PeerConnects
  <2>2. /\ c \in routes /\ c \in Conns /\ bound[c] = 0 /\ peers[i] = None
        /\ bound \in [Conns -> PeerIds \cup {0}] /\ peers \in [PeerIds -> Conns \cup {None}]
        /\ times \in [Conns -> Nat] /\ times[c] = 0 /\ i # 0 /\ 0 \notin PeerIds
        /\ None \notin Conns /\ c \in used /\ enet \subseteq PeerIds
    BY <1>5, GatewayAssumption DEF CanBind, WInv, Types, GtwTypeOK, Tables, None
  <2>3. /\ \A d \in Conns : bound'[d] = IF d = c THEN i ELSE bound[d]
        /\ \A j \in PeerIds : peers'[j] = IF j = i THEN c ELSE peers[j]
        /\ \A d \in Conns : times'[d] = IF d = c THEN 1 ELSE times[d]
        /\ \A d \in Conns, j \in PeerIds : bound[d] = j <=> peers[j] = d
    BY <2>1, <2>2 DEF WInv, Tables
  <2>4. \A d \in Conns, j \in PeerIds : bound'[d] = j <=> peers'[j] = d
    BY <2>2, <2>3
  <2>5. \A j \in PeerIds : peers'[j] # None => peers'[j] \in routes' /\ j \in enet'
    BY <2>1, <2>2, <2>3 DEF WInv, Tables
  <2>6. context' = {j \in PeerIds : peers'[j] # None}
    BY <2>1, <2>2, <2>3 DEF WInv, Tables
  <2>7. \A d \in Conns : bound'[d] # 0 => d \in routes'
    BY <2>1, <2>2, <2>3 DEF WInv, Tables
  <2>8. \A d \in Conns : /\ times'[d] <= 1
                         /\ d \in routes' /\ bound'[d] = 0 => times'[d] = 0
                         /\ d \notin used' => times'[d] = 0
    BY <1>1, <2>1, <2>2, <2>3 DEF WInv, Tables
  <2>9. Tables'
    BY <1>1, <1>2, <2>1, <2>4, <2>5, <2>6, <2>7, <2>8 DEF WInv, Tables
  <2>10. Upward' /\ InStep' /\ Openable' /\ Pending' /\ Progress' /\ Sockets' /\ Limits'
    BY <1>1, <2>1, Aside
  <2>11. serial' \in 0..MAX_ID
    BY <1>5, <2>1, GatewayAssumption DEF WInv, Types, GtwTypeOK
  <2>12. context' \subseteq PeerIds /\ enet' \subseteq PeerIds /\ times' \in [Conns -> Nat]
    BY <2>1, <2>2 DEF WInv, Types, GtwTypeOK
  <2>13. Types'
    BY <1>1, <1>2, <2>1, <2>2, <2>11, <2>12 DEF WInv, Types, GtwTypeOK
  <2> QED
    BY <1>3, <2>9, <2>10, <2>13 DEF WInv
<1>6. CASE /\ enet' = enet \cup {i}
           /\ UNCHANGED <<over, routes, bound, peers, context, serial, times>>
  <2>1. Upward' /\ InStep' /\ Openable' /\ Pending' /\ Progress' /\ Sockets' /\ Limits'
    BY <1>1, <1>6, Aside
  <2>2. Tables'
    BY <1>1, <1>2, <1>6 DEF WInv, Tables
  <2>3. Types'
    BY <1>1, <1>2, <1>6 DEF WInv, Types, GtwTypeOK
  <2> QED
    BY <1>3, <2>1, <2>2, <2>3 DEF WInv
<1> QED
  BY <1>4, <1>5, <1>6 DEF PeerConnects

LEMMA PeerLeavesKeeps ==
  ASSUME WInv, NEW i \in PeerIds, PeerLeaves(i) PROVE WInv'
<1>1. /\ UNCHANGED gateway /\ over' = over /\ owner' = owner /\ used' = used
      /\ serial' = serial /\ times' = times /\ up' = up /\ reached' = reached
      /\ enet' = enet \ {i} /\ enet \subseteq PeerIds /\ enet' \subseteq PeerIds
  BY DEF PeerLeaves, WInv, Types, GtwTypeOK
<1>2. /\ conn' = conn /\ port' = port /\ acked' = acked /\ closed' = closed
      /\ pending' = pending /\ end' = end /\ lost' = lost /\ Channels' = Channels
  BY <1>1 DEF gateway, Channels
<1>3. CASE peers[i] = None
  <2>1. routes' = routes /\ bound' = bound /\ peers' = peers /\ context' = context /\ down' = down
    BY <1>3 DEF PeerLeaves
  <2>2. Upward' /\ InStep' /\ Openable' /\ Pending' /\ Progress' /\ Sockets' /\ Limits'
    BY <1>1, <2>1, Aside
  <2>3. Tables'
    BY <1>1, <1>2, <1>3, <2>1 DEF WInv, Tables
  <2>4. Downward'
    BY <1>1, <1>2, <2>1, DownKept
  <2>5. Types'
    BY <1>1, <1>2, <2>1 DEF WInv, Types, GtwTypeOK
  <2> QED
    BY <2>2, <2>3, <2>4, <2>5 DEF WInv
<1>4. CASE peers[i] # None
  <2> PICK c \in Conns : c = peers[i]
    BY <1>4 DEF WInv, Types, GtwTypeOK
  <2> PICK m \in DownType : m = [op |-> "CLOSE", channel |-> c]
    BY DEF DownType
  <2>1. RetireRoute(c) /\ down' = Append(down, m)
    BY <1>4 DEF PeerLeaves
  <2>2. /\ Tables' /\ bound' \in [Conns -> PeerIds \cup {0}]
        /\ peers' \in [PeerIds -> Conns \cup {None}] /\ context' \subseteq PeerIds
        /\ routes' \subseteq routes
    BY <1>1, <1>2, <2>1, RetireRouteTables
  <2>3. Upward' /\ InStep' /\ Openable' /\ Pending' /\ Progress' /\ Sockets' /\ Limits'
    BY <1>1, <2>2, Aside
  <2>4. Downward' /\ down' \in Seq(DownType)
    <3>1. m.channel \in used /\ m.op # "ACK"
      BY <1>4 DEF WInv, Tables
    <3>2. Downward'
      BY <1>1, <1>2, <2>1, <3>1, DownPushed
    <3> QED
      BY <2>1, <3>2, Pushed DEF WInv, Types
  <2>5. Types'
    BY <1>1, <1>2, <2>2, <2>4 DEF WInv, Types, GtwTypeOK
  <2> QED
    BY <2>2, <2>3, <2>4, <2>5 DEF WInv
<1> QED
  BY <1>3, <1>4

-----------------------------------------------------------------------------
(* What holds of every behaviour                                           *)

LEMMA GatewayInit == ASSUME GtwInit PROVE WInv
<1>1. /\ conn \in [Conns -> {"new"}] /\ up = <<>> /\ down = <<>> /\ used = {} /\ routes = {}
      /\ Len(up) = 0 /\ Len(down) = 0
  BY DEF GtwInit
<1>2. \A j \in 1..0 : FALSE
  OBVIOUS
<1>3. /\ Channels = {} /\ Kept = {} /\ Waiting = {} /\ Opened = {} /\ Offered = {}
  BY <1>1, <1>2 DEF Channels, Retired, Kept, Waiting, Opened, Opens, Offered
<1>4. IsFiniteSet({}) /\ Cardinality({}) = 0
  BY FS_EmptySet
<1>5. Types
  <2>1. GtwTypeOK
    <3>1. /\ conn \in [Conns -> {"new", "tls", "opening", "advertised", "forwarding",
                               "retired", "gone"}]
          /\ port \in [Conns -> Ports \cup {0}]
          /\ acked \in [Conns -> BOOLEAN] /\ closed \in [Conns -> BOOLEAN]
      BY DEF GtwInit
    <3>2. /\ owner \in [Ports -> Conns \cup {None}] /\ bound \in [Conns -> PeerIds \cup {0}]
          /\ peers \in [PeerIds -> Conns \cup {None}]
      BY DEF GtwInit
    <3>3. pending \in Nat /\ serial \in 0..MAX_ID
      BY GatewayAssumption DEF GtwInit
    <3> QED
      BY <3>1, <3>2, <3>3 DEF GtwInit, GtwTypeOK
  <2>2. up \in Seq(UpType) /\ down \in Seq(DownType) /\ times \in [Conns -> Nat]
    BY <1>1 DEF GtwInit
  <2>3. end \in InService
    BY DEF GtwInit, InService
  <2> QED
    BY <2>1, <2>2, <2>3 DEF Types
<1>6. Tables
  BY GatewayAssumption DEF GtwInit, Tables, None
<1>7. Progress
  BY <1>3 DEF GtwInit, Progress
<1>8. Sockets
  BY <1>3 DEF Sockets
<1>9. Pending /\ Limits
  <2>1. pending = 0
    BY DEF GtwInit
  <2> QED
    BY <1>3, <1>4, <2>1, GatewayAssumption DEF Pending, Limits
<1>10. Upward /\ InStep /\ Openable /\ Downward
  BY <1>1, <1>2, <1>3 DEF Upward, InStep, Openable, Downward
<1> QED
  BY <1>5, <1>6, <1>7, <1>8, <1>9, <1>10 DEF WInv

\* A step that changes nothing.
LEMMA GatewayStutters == ASSUME WInv, UNCHANGED gtwvars PROVE WInv'
<1>1. UNCHANGED <<gateway, supervisor, up, down, reached>>
  BY DEF gtwvars
<1>2. used' = used /\ over' = over /\ routes' = routes
  BY <1>1 DEF supervisor
<1>3. /\ conn' = conn /\ port' = port /\ acked' = acked /\ closed' = closed
      /\ pending' = pending /\ end' = end /\ lost' = lost /\ Channels' = Channels
  BY <1>1 DEF gateway, Channels
<1>4. Upward' /\ InStep' /\ Openable' /\ Pending' /\ Progress' /\ Sockets' /\ Limits'
  BY <1>1, <1>2, Aside
<1>5. Tables' /\ Downward'
  BY <1>1, <1>2, <1>3, TablesKept, DownKept
<1>6. Types'
  BY <1>1, <1>3 DEF WInv, Types, GtwTypeOK, supervisor
<1> QED
  BY <1>4, <1>5, <1>6 DEF WInv

\* WInv is an invariant of arena_gateway.py and its supervisor.
THEOREM GatewayInvariant == GtwSpec => []WInv
<1>1. GtwInit => WInv
  BY GatewayInit
<1>2. WInv /\ [GtwNext]_gtwvars => WInv'
  <2>1. ASSUME WInv, GtwNext PROVE WInv'
    <3>1. CASE Fail
      BY <2>1, <3>1, OverKeeps DEF Fail
    <3> QED
      BY <2>1, <3>1, GatewayKeeps, DeliverKeeps, PeerConnectsKeeps, PeerLeavesKeeps DEF GtwNext
  <2> QED
    BY <2>1, GatewayStutters
<1> QED
  BY <1>1, <1>2, PTL DEF GtwSpec

LEMMA Openables == WInv => OfferedIsOpenable
<1> SUFFICES ASSUME WInv, ~over, up # <<>>, Head(up).op = "OPEN", ~Head(up).gap
             PROVE  CanOpen(Head(up).channel)
  BY DEF OfferedIsOpenable
<1> PICK c : c = Head(up).channel
  OBVIOUS
<1>1. /\ Head(up) = up[1] /\ 1 \in 1..Len(up) /\ \A k \in 1..1 : k = 1
  BY Popped DEF WInv, Types
<1>2. /\ c \in Conns /\ c \notin used /\ c \in Opened
      /\ Opens(up, 1) = {c} /\ Closes(up, 1) = {} /\ NoGap(1)
  <2>1. c \in Conns /\ c \notin used
    BY <1>1 DEF WInv, Upward
  <2> QED
    BY <1>1, <2>1 DEF Opened, Opens, Closes, NoGap
<1>3. Cardinality(routes) < MAX_CHANNELS
  <2>1. IsFiniteSet(routes \cup {c}) /\ Cardinality(routes \cup {c}) <= MAX_CHANNELS
    <3>1. Foreseen(1) = routes \cup {c}
      BY <1>2 DEF Foreseen
    <3> QED
      BY <1>1, <1>2, <3>1 DEF WInv, Openable
  <2>2. c \notin routes /\ routes \subseteq routes \cup {c}
    BY <1>2 DEF WInv, Tables
  <2>3. IsFiniteSet(routes)
    BY <2>1, <2>2, FS_Subset
  <2>4. Cardinality(routes \cup {c}) = Cardinality(routes) + 1 /\ Cardinality(routes) \in Nat
    BY <2>2, <2>3, FS_AddElement, FS_CardinalityType
  <2> QED
    BY <2>1, <2>4, GatewayAssumption
<1>4. Cardinality({p \in Ports : owner[p] # None}) < MAX_ROUTES
  <2> DEFINE P == {p \in Ports : owner[p] # None}
             f == [p \in P |-> owner[p]]
  <2>1. used \subseteq Offered /\ used \cup {c} \subseteq Offered /\ IsFiniteSet(Offered)
    BY <1>2 DEF Offered, WInv, Limits
  <2>2. IsFiniteSet(used) /\ IsFiniteSet(used \cup {c})
        /\ Cardinality(used \cup {c}) <= Cardinality(Offered)
    BY <2>1, FS_Subset
  <2>3. f \in Injection(P, used)
    BY DEF WInv, Tables, Injection, IsInjective
  <2> HIDE DEF P, f
  <2>4. IsFiniteSet(P) /\ Cardinality(P) <= Cardinality(used)
    BY <2>2, <2>3, FS_Injection
  <2>5. Cardinality(used \cup {c}) = Cardinality(used) + 1
    BY <1>2, <2>2, FS_AddElement
  <2>6. /\ Cardinality(P) \in Nat /\ Cardinality(used) \in Nat /\ Cardinality(Offered) \in Nat
    BY <2>1, <2>2, <2>4, FS_CardinalityType
  <2>7. Cardinality(Offered) <= MAX_ROUTES
    BY DEF WInv, Limits
  <2>8. Cardinality(P) < MAX_ROUTES
    BY <2>2, <2>4, <2>5, <2>6, <2>7, GatewayAssumption
  <2> QED
    BY <2>8 DEF P
<1>5. owner[port[c]] = None
  <2>1. port[c] \in Ports /\ c \in Offered
    BY <1>2 DEF WInv, Sockets, Offered
  <2>2. SUFFICES ASSUME owner[port[c]] # None PROVE FALSE
    OBVIOUS
  <2>3. owner[port[c]] \in used /\ port[owner[port[c]]] = port[c]
    BY <2>1, <2>2 DEF WInv, Tables
  <2>4. owner[port[c]] = c
    BY <2>1, <2>3 DEF WInv, Sockets, Offered
  <2> QED
    BY <1>2, <2>3, <2>4
<1> QED
  BY <1>2, <1>3, <1>4, <1>5 DEF CanOpen

\* open_route never refuses what advertise offers, whatever the limits: the gateway
\* looks for room before it opens, and its tombstones keep the ports and the places
\* that the supervisor still counts.
THEOREM OffersAreOpenable == GtwSpec => []OfferedIsOpenable
<1>1. GtwSpec => []WInv
  BY GatewayInvariant
<1>2. WInv => OfferedIsOpenable
  BY Openables
<1> QED
  BY <1>1, <1>2, PTL

\* command meets no ROUTE_CLOSE it does not know and acknowledge no second or late
\* ROUTE_ACK of a channel it has, however the closes of the two sides cross.
THEOREM ClosesMayCross == GtwSpec => []ClosesCross
<1>1. GtwSpec => []WInv
  BY GatewayInvariant
<1>2. WInv => ClosesCross
  BY DEF WInv, Types, InService, Ending, ClosesCross
<1> QED
  BY <1>1, <1>2, PTL

\* forward runs only for channels open_route has recognised; routes, peers and
\* contexts of PeerRoutes agree, and a channel has one peer in its life.
THEOREM BothSidesAgree == GtwSpec => []RoutesAgree
<1>1. GtwSpec => []WInv
  BY GatewayInvariant
<1>2. WInv => RoutesAgree
  <2> SUFFICES ASSUME WInv PROVE RoutesAgree
    OBVIOUS
  <2>1. \A c \in Conns : conn[c] = "forwarding" => c \in used
    BY DEF WInv, Progress
  <2>2. \A i \in PeerIds : i \in context <=> peers[i] \in routes
    <3>1. None \notin routes
      BY GatewayAssumption DEF WInv, Types, GtwTypeOK, None
    <3> QED
      BY <3>1 DEF WInv, Tables
  <2> QED
    BY <2>1, <2>2 DEF WInv, Tables, RoutesAgree
<1> QED
  BY <1>1, <1>2, PTL

-----------------------------------------------------------------------------
(* The tunnel: its inductive invariant                                     *)

Kinds == {"OPEN", "OPEN_ACK", "EOF", "data", "heartbeat", "foreign"}
FrameType == [kind : Kinds, n : Nat]
EntryType == [frame : FrameType, age : Nat]
Whys == {"none", "stall", "closed", "shutdown", "eof", "idle", "expired", "deadline",
         "full", "tx_rate", "rx_rate"}
TaskNames == {"none", "udp_reader", "udp_writer", "tls_reader", "tls_writer", "heartbeat",
              "closed"}
ChannelType == [phase : {"new", "opening", "wait", "forward", "retired"},
                why : Whys, ended : TaskNames, inbox : Seq(FrameType),
                out : Seq(EntryType), in : Seq(EntryType), tx : Nat, rx : Nat,
                quiet : Nat, beat : Nat]

TTypeOK == /\ ch \in [Sides -> ChannelType] /\ wire \in [Sides -> Seq(FrameType)]
           /\ said \in [Sides -> Nat] /\ got \in [Sides -> Seq(FrameType)]

\* How the ends come up, for the phases of the server's and the client's end and
\* what they have written: OPEN and OPEN_ACK are the first frames of their
\* directions and are read before anything is forwarded, and until then each end
\* finds a frame to read.
Handshake(sp, cp, sw, cw) ==
  /\ sp = "new" => sw = <<>> /\ cp \in {"new", "retired"}
  /\ cp = "new" => /\ cw = <<>> /\ sp \in {"new", "opening", "retired"}
                   /\ sp # "new" => sw # <<>>
  /\ cp # "opening"
  /\ sp = "opening" /\ cp # "new" => cw # <<>>
  /\ \A k \in DOMAIN sw : /\ sw[k].kind # "OPEN_ACK"
                          /\ sw[k].kind = "OPEN" => k = 1 /\ cp \in {"new", "retired"}
  /\ \A k \in DOMAIN cw : /\ cw[k].kind # "OPEN"
                          /\ cw[k].kind = "OPEN_ACK" => k = 1 /\ sp \in {"opening", "retired"}

\* The same for end e, in phase p, and the other, in phase q.
Shake(e, p, q, w, v) == IF e = "server" THEN Handshake(p, q, w, v) ELSE Handshake(q, p, v, w)

\* A channel by itself: what may be in each place, nothing kept waiting in it, no
\* deadline passed, and no longer quiet than a prompt supervisor and a heartbeat take.
Own(c) ==
  /\ \A k \in DOMAIN c.inbox : c.inbox[k].kind \in {"data", "foreign"}
  /\ \A k \in DOMAIN c.out : c.out[k].frame.kind \in {"data", "heartbeat"}
  /\ \A k \in DOMAIN c.in : c.in[k].frame.kind = "data" /\ c.in[k].age = 0
  /\ c.phase # "forward" => c.out = <<>> /\ c.in = <<>>
  /\ c.why \notin {"idle", "expired", "deadline"}
  /\ c.phase \in {"new", "opening"} => c.quiet = 0
  /\ c.phase = "wait" => c.quiet <= AckTicks
  /\ c.phase = "forward" => c.beat <= Beat /\ c.quiet <= AckTicks + Beat

\* What an end has written: its end of file stays unread.
Sealed(p, w) == /\ \A k \in DOMAIN w : w[k].kind # "foreign"
                /\ p = "retired" => \E k \in DOMAIN w : w[k].kind = "EOF"

\* How long the other end may have waited for d.
Waited(d) == IF d.phase = "wait" THEN d.quiet
             ELSE IF d.phase \in {"new", "opening"} THEN 0 ELSE AckTicks

\* A channel and the other end's, which has written v: an entry has waited no longer
\* than the other supervisor, and the silence is the other end's, of its setup and of
\* the time since its last heartbeat.
Awaits(c, d, v) ==
  /\ \A k \in DOMAIN c.out : c.out[k].age <= Waited(d)
  /\ c.phase = "forward" /\ d.phase \in {"new", "opening", "wait"} => c.quiet <= Waited(d)
  /\ c.phase = "forward" /\ d.phase = "forward" /\ d.out = <<>> /\ v = <<>> =>
       c.quiet <= AckTicks + d.beat

\* The data frames of q are a + 1, a + 2, ... b, in this order, each once.
Carries(q, a, b) ==
  /\ a <= b
  /\ \A k \in DOMAIN q : q[k].kind = "data" => q[k].n > a /\ q[k].n <= b
  /\ \A n \in (a + 1)..b : \E k \in DOMAIN q : q[k].kind = "data" /\ q[k].n = n
  /\ \A j, k \in DOMAIN q : j < k /\ q[j].kind = "data" /\ q[k].kind = "data" => q[j].n < q[k].n

Frames(q) == [k \in DOMAIN q |-> q[k].frame]

\* The first n datagrams of a game.
First(g, n) == g = [i \in DOMAIN g |-> Frame("data", i)] /\ Len(g) = n

\* From the game at one end, which has sent n datagrams, to the game at the other:
\* what that has received, g, is followed by what its channel d has queued, that by
\* what is on the wire w and what c, the sender's channel, has queued and not yet
\* read, with nothing missing in between.
Flow(g, n, d, w, c) ==
  \E x, y, z \in Nat :
    /\ First(g, x) /\ x <= n
    /\ d.phase # "retired" =>
         /\ Carries(Frames(d.in), x, y) /\ Carries(w, y, z) /\ z <= n
         /\ c.phase # "retired" =>
              \E u \in Nat : Carries(Frames(c.out), z, u) /\ Carries(c.inbox, u, n)

TInv == /\ TTypeOK
        /\ Handshake(ch["server"].phase, ch["client"].phase, wire["server"], wire["client"])
        /\ \A e \in Sides :
             /\ Own(ch[e]) /\ Sealed(ch[e].phase, wire[e])
             /\ Awaits(ch[e], ch[Other(e)], wire[Other(e)])
             /\ Flow(got[Other(e)], said[e], ch[Other(e)], wire[e], ch[e])

-----------------------------------------------------------------------------
(* Queues                                                                  *)

LEMMA CarriesNone ==
  ASSUME NEW a \in Nat PROVE Carries(<<>>, a, a)
<1>1. (a + 1)..a = {}
  OBVIOUS
<1> QED BY <1>1 DEF Carries

\* The next datagram at the end.
LEMMA CarriesNext ==
  ASSUME NEW q \in Seq(FrameType), NEW a \in Nat, NEW b \in Nat, Carries(q, a, b),
         NEW f \in FrameType, f.kind = "data", f.n = b + 1
  PROVE  Carries(Append(q, f), a, b + 1)
<1> DEFINE r == Append(q, f)
<1>1. r \in Seq(FrameType) /\ Len(r) = Len(q) + 1 /\ DOMAIN r = 1..(Len(q) + 1)
  OBVIOUS
<1>2. Len(q) \in Nat /\ DOMAIN q = 1..Len(q) /\ r[Len(q) + 1] = f
  OBVIOUS
<1>3. \A k \in DOMAIN q : r[k] = q[k] /\ q[k].n \in Nat /\ k \in DOMAIN r
  <2>1. \A k \in DOMAIN q : r[k] = q[k] /\ k \in DOMAIN r /\ q[k] \in FrameType
    OBVIOUS
  <2> QED BY <2>1 DEF FrameType
<1> HIDE DEF r
<1>4. a <= b + 1
  BY DEF Carries
<1>5. \A k \in DOMAIN r : r[k].kind = "data" => r[k].n > a /\ r[k].n <= b + 1
  <2> SUFFICES ASSUME NEW k \in DOMAIN r, r[k].kind = "data"
               PROVE  r[k].n > a /\ r[k].n <= b + 1
    OBVIOUS
  <2>1. CASE k = Len(q) + 1
    BY <2>1, <1>2 DEF Carries
  <2>2. CASE k \in DOMAIN q
    BY <2>2, <1>3 DEF Carries
  <2> QED BY <2>1, <2>2, <1>1, <1>2
<1>6. \A n \in (a + 1)..(b + 1) : \E k \in DOMAIN r : r[k].kind = "data" /\ r[k].n = n
  <2> SUFFICES ASSUME NEW n \in (a + 1)..(b + 1)
               PROVE  \E k \in DOMAIN r : r[k].kind = "data" /\ r[k].n = n
    OBVIOUS
  <2>1. CASE n = b + 1
    BY <2>1, <1>1, <1>2
  <2>2. CASE n \in (a + 1)..b
    BY <2>2, <1>3 DEF Carries
  <2> QED BY <2>1, <2>2
<1>7. \A j, k \in DOMAIN r : j < k /\ r[j].kind = "data" /\ r[k].kind = "data" => r[j].n < r[k].n
  <2> SUFFICES ASSUME NEW j \in DOMAIN r, NEW k \in DOMAIN r, j < k,
                      r[j].kind = "data", r[k].kind = "data"
               PROVE  r[j].n < r[k].n
    OBVIOUS
  <2>1. j \in DOMAIN q
    BY <1>1, <1>2
  <2>2. CASE k = Len(q) + 1
    <3>1. q[j].n <= b /\ r[j].n = q[j].n /\ q[j].n \in Nat
      BY <2>1, <1>3 DEF Carries
    <3> QED BY <3>1, <2>2, <1>2
  <2>3. CASE k \in DOMAIN q
    BY <2>1, <2>3, <1>3 DEF Carries
  <2> QED BY <2>2, <2>3, <1>1, <1>2
<1> QED BY <1>4, <1>5, <1>6, <1>7 DEF Carries, r

\* Any other frame at the end.
LEMMA CarriesOther ==
  ASSUME NEW q \in Seq(FrameType), NEW a \in Nat, NEW b \in Nat, Carries(q, a, b),
         NEW f \in FrameType, f.kind # "data"
  PROVE  Carries(Append(q, f), a, b)
<1> DEFINE r == Append(q, f)
<1>1. r \in Seq(FrameType) /\ Len(r) = Len(q) + 1 /\ DOMAIN r = 1..(Len(q) + 1)
  OBVIOUS
<1>2. Len(q) \in Nat /\ DOMAIN q = 1..Len(q) /\ r[Len(q) + 1] = f
  OBVIOUS
<1>3. \A k \in DOMAIN q : r[k] = q[k] /\ k \in DOMAIN r
  OBVIOUS
<1> HIDE DEF r
<1>4. \A k \in DOMAIN r : r[k].kind = "data" => k \in DOMAIN q
  BY <1>1, <1>2
<1> QED BY <1>3, <1>4 DEF Carries, r

\* The first datagram leaves.
LEMMA CarriesHead ==
  ASSUME NEW q \in Seq(FrameType), NEW a \in Nat, NEW b \in Nat, Carries(q, a, b),
         q # <<>>, Head(q).kind = "data"
  PROVE  Head(q) = Frame("data", a + 1) /\ a + 1 <= b /\ Carries(Tail(q), a + 1, b)
<1> DEFINE r == Tail(q)
<1>1. Len(q) \in Nat /\ Len(q) > 0 /\ DOMAIN q = 1..Len(q) /\ Head(q) = q[1]
  OBVIOUS
<1>2. r \in Seq(FrameType) /\ DOMAIN r = 1..(Len(q) - 1)
  OBVIOUS
<1>3. \A k \in DOMAIN r : r[k] = q[k + 1] /\ k + 1 \in DOMAIN q /\ k + 1 > 1
  BY <1>1
<1> HIDE DEF r
<1>4. \A k \in DOMAIN q : q[k].n \in Nat
  <2>1. \A k \in DOMAIN q : q[k] \in FrameType
    OBVIOUS
  <2> QED BY <2>1 DEF FrameType
<1>5. 1 \in DOMAIN q /\ q[1].n > a /\ q[1].n <= b
  BY <1>1 DEF Carries
<1>6. PICK k \in DOMAIN q : q[k].kind = "data" /\ q[k].n = a + 1
  <2>1. a + 1 \in (a + 1)..b
    BY <1>4, <1>5
  <2> QED BY <2>1 DEF Carries
<1>7. k = 1
  <2>1. CASE k > 1
    <3>1. q[1].n < a + 1
      BY <1>1, <1>5, <1>6, <2>1 DEF Carries
    <3> QED BY <3>1, <1>4, <1>5
  <2> QED BY <2>1, <1>1, <1>6
<1>8. q[1] = Frame("data", a + 1)
  <2>1. q[1] \in FrameType
    BY <1>5
  <2> QED BY <2>1, <1>1, <1>6, <1>7 DEF FrameType, Frame
<1>9. \A m \in DOMAIN r : r[m].kind = "data" => r[m].n > a + 1 /\ r[m].n <= b
  <2> SUFFICES ASSUME NEW m \in DOMAIN r, r[m].kind = "data"
               PROVE  r[m].n > a + 1 /\ r[m].n <= b
    OBVIOUS
  <2>1. q[m + 1].n > q[1].n /\ q[m + 1].n <= b
    BY <1>1, <1>3, <1>5 DEF Carries
  <2> QED BY <2>1, <1>3, <1>6, <1>7
<1>10. \A n \in (a + 1 + 1)..b : \E m \in DOMAIN r : r[m].kind = "data" /\ r[m].n = n
  <2> SUFFICES ASSUME NEW n \in (a + 1 + 1)..b
               PROVE  \E m \in DOMAIN r : r[m].kind = "data" /\ r[m].n = n
    OBVIOUS
  <2>1. n \in (a + 1)..b /\ n # a + 1
    OBVIOUS
  <2>2. PICK m \in DOMAIN q : q[m].kind = "data" /\ q[m].n = n
    BY <2>1 DEF Carries
  <2>3. m - 1 \in DOMAIN r /\ m - 1 + 1 = m
    BY <2>1, <2>2, <1>1, <1>2, <1>6, <1>7
  <2>4. r[m - 1] = q[m]
    BY <2>3, <1>3
  <2> QED BY <2>2, <2>3, <2>4
<1>11. \A j, m \in DOMAIN r : j < m /\ r[j].kind = "data" /\ r[m].kind = "data" => r[j].n < r[m].n
  <2> SUFFICES ASSUME NEW j \in DOMAIN r, NEW m \in DOMAIN r, j < m,
                      r[j].kind = "data", r[m].kind = "data"
               PROVE  r[j].n < r[m].n
    OBVIOUS
  <2>1. j + 1 < m + 1
    BY <1>2
  <2> QED BY <2>1, <1>3 DEF Carries
<1>12. a + 1 <= b
  BY <1>4, <1>5
<1> QED BY <1>1, <1>8, <1>9, <1>10, <1>11, <1>12 DEF Carries, r

\* The first frame leaves and is no datagram.
LEMMA CarriesTail ==
  ASSUME NEW q \in Seq(FrameType), NEW a \in Nat, NEW b \in Nat, Carries(q, a, b),
         q # <<>>, Head(q).kind # "data"
  PROVE  Carries(Tail(q), a, b)
<1> DEFINE r == Tail(q)
<1>1. Len(q) \in Nat /\ Len(q) > 0 /\ DOMAIN q = 1..Len(q) /\ Head(q) = q[1]
  OBVIOUS
<1>2. r \in Seq(FrameType) /\ DOMAIN r = 1..(Len(q) - 1)
  OBVIOUS
<1>3. \A k \in DOMAIN r : r[k] = q[k + 1] /\ k + 1 \in DOMAIN q
  BY <1>1
<1> HIDE DEF r
<1>4. \A k \in DOMAIN q : q[k].kind = "data" => k - 1 \in DOMAIN r /\ r[k - 1] = q[k]
  <2> SUFFICES ASSUME NEW k \in DOMAIN q, q[k].kind = "data"
               PROVE  k - 1 \in DOMAIN r /\ r[k - 1] = q[k]
    OBVIOUS
  <2>1. k - 1 \in DOMAIN r /\ k - 1 + 1 = k
    BY <1>1, <1>2
  <2> QED BY <2>1, <1>3
<1>5. \A k \in DOMAIN r : r[k].kind = "data" => r[k].n > a /\ r[k].n <= b
  BY <1>3 DEF Carries
<1>6. \A n \in (a + 1)..b : \E k \in DOMAIN r : r[k].kind = "data" /\ r[k].n = n
  <2> SUFFICES ASSUME NEW n \in (a + 1)..b
               PROVE  \E k \in DOMAIN r : r[k].kind = "data" /\ r[k].n = n
    OBVIOUS
  <2>1. PICK m \in DOMAIN q : q[m].kind = "data" /\ q[m].n = n
    BY DEF Carries
  <2>2. m - 1 \in DOMAIN r /\ r[m - 1] = q[m]
    BY <1>4, <2>1
  <2> QED BY <2>1, <2>2
<1>7. \A j, m \in DOMAIN r : j < m /\ r[j].kind = "data" /\ r[m].kind = "data" => r[j].n < r[m].n
  <2> SUFFICES ASSUME NEW j \in DOMAIN r, NEW m \in DOMAIN r, j < m,
                      r[j].kind = "data", r[m].kind = "data"
               PROVE  r[j].n < r[m].n
    OBVIOUS
  <2>1. j + 1 < m + 1
    BY <1>2
  <2> QED BY <2>1, <1>3 DEF Carries
<1> QED BY <1>5, <1>6, <1>7 DEF Carries, r

\* The frames of a queue's entries.
LEMMA FramesOf ==
  ASSUME NEW q \in Seq(EntryType)
  PROVE  /\ Frames(q) \in Seq(FrameType)
         /\ Frames(Aged(q)) = Frames(q)
         /\ q # <<>> => /\ Frames(q) # <<>> /\ Head(Frames(q)) = Head(q).frame
                        /\ Frames(Tail(q)) = Tail(Frames(q))
         /\ \A f \in FrameType : Frames(Append(q, Entry(f))) = Append(Frames(q), f)
<1>1. Len(q) \in Nat /\ DOMAIN q = 1..Len(q) /\ \A k \in 1..Len(q) : q[k] \in EntryType
  OBVIOUS
<1>2. \A k \in 1..Len(q) : q[k].frame \in FrameType
  BY <1>1 DEF EntryType
<1>3. Frames(q) = [k \in 1..Len(q) |-> q[k].frame]
  BY <1>1 DEF Frames
<1>4. Frames(q) \in Seq(FrameType) /\ Len(Frames(q)) = Len(q)
  BY <1>1, <1>2, <1>3
<1>5. Frames(Aged(q)) = Frames(q)
  <2>1. DOMAIN Aged(q) = DOMAIN q
    BY DEF Aged
  <2>2. \A k \in DOMAIN q : Aged(q)[k].frame = q[k].frame
    BY <1>1 DEF Aged, EntryType
  <2> QED BY <2>1, <2>2 DEF Frames
<1>6. ASSUME q # <<>>
      PROVE  /\ Frames(q) # <<>> /\ Head(Frames(q)) = Head(q).frame
             /\ Frames(Tail(q)) = Tail(Frames(q))
  <2>1. Len(q) > 0
    BY <1>6
  <2>2. Frames(q) # <<>> /\ Head(Frames(q)) = Head(q).frame
    BY <2>1, <1>1, <1>3, <1>4
  <2>3. Frames(Tail(q)) = [k \in 1..(Len(q) - 1) |-> q[k + 1].frame]
    BY <2>1, <1>1, <1>6 DEF Frames
  <2>4. Tail(Frames(q)) = [k \in 1..(Len(q) - 1) |-> q[k + 1].frame]
    BY <2>1, <1>1, <1>3, <1>4, <2>2
  <2> QED BY <2>2, <2>3, <2>4
<1>7. ASSUME NEW f \in FrameType
      PROVE  Frames(Append(q, Entry(f))) = Append(Frames(q), f)
  <2>1. DOMAIN Append(q, Entry(f)) = 1..(Len(q) + 1)
    BY <1>1
  <2>2. \A k \in 1..(Len(q) + 1) : Append(q, Entry(f))[k].frame = IF k = Len(q) + 1 THEN f ELSE q[k].frame
    BY <1>1 DEF Entry
  <2>3. Frames(Append(q, Entry(f))) = [k \in 1..(Len(q) + 1) |-> IF k = Len(q) + 1 THEN f ELSE q[k].frame]
    BY <2>1, <2>2 DEF Frames
  <2>4. Append(Frames(q), f) = [k \in 1..(Len(q) + 1) |-> IF k = Len(q) + 1 THEN f ELSE q[k].frame]
    BY <1>1, <1>2, <1>3, <1>4
  <2> QED BY <2>3, <2>4
<1> QED BY <1>4, <1>5, <1>6, <1>7
-----------------------------------------------------------------------------
(* The parts of the invariant                                              *)

LEMMA OtherEnd ==
  ASSUME NEW e \in Sides
  PROVE  /\ Other(e) \in Sides /\ Other(e) # e /\ Other(Other(e)) = e
         /\ Sides = {e, Other(e)}
  BY DEF Sides, Other

\* The state as end e sees it: its channel c and what it has written, w, and the
\* other's, d and v.
LEMMA Seen ==
  ASSUME TInv, NEW e \in Sides
  PROVE  /\ ch[e] \in ChannelType /\ ch[Other(e)] \in ChannelType
         /\ wire[e] \in Seq(FrameType) /\ wire[Other(e)] \in Seq(FrameType)
         /\ said[e] \in Nat /\ said[Other(e)] \in Nat
         /\ got[e] \in Seq(FrameType) /\ got[Other(e)] \in Seq(FrameType)
         /\ Own(ch[e]) /\ Own(ch[Other(e)])
         /\ Sealed(ch[e].phase, wire[e]) /\ Sealed(ch[Other(e)].phase, wire[Other(e)])
         /\ Awaits(ch[e], ch[Other(e)], wire[Other(e)])
         /\ Awaits(ch[Other(e)], ch[e], wire[e])
         /\ Flow(got[Other(e)], said[e], ch[Other(e)], wire[e], ch[e])
         /\ Flow(got[e], said[Other(e)], ch[e], wire[Other(e)], ch[Other(e)])
         /\ Shake(e, ch[e].phase, ch[Other(e)].phase, wire[e], wire[Other(e)])
<1>1. Other(e) \in Sides /\ Other(Other(e)) = e
  BY OtherEnd
<1>2. Shake(e, ch[e].phase, ch[Other(e)].phase, wire[e], wire[Other(e)])
  BY DEF TInv, Shake, Sides, Other
<1> QED BY <1>1, <1>2 DEF TInv, TTypeOK

\* A step of end e that makes its channel c, the wires w and v, and the counts of
\* its game n and g.
LEMMA Stepped ==
  ASSUME TInv, NEW e \in Sides, NEW c \in ChannelType, NEW w \in Seq(FrameType),
         NEW v \in Seq(FrameType), NEW n \in Nat, NEW g \in Seq(FrameType),
         ch' = [ch EXCEPT ![e] = c], wire' = [wire EXCEPT ![e] = w, ![Other(e)] = v],
         said' = [said EXCEPT ![e] = n], got' = [got EXCEPT ![e] = g],
         Own(c), Sealed(c.phase, w), Sealed(ch[Other(e)].phase, v),
         Awaits(c, ch[Other(e)], v), Awaits(ch[Other(e)], c, w),
         Flow(got[Other(e)], n, ch[Other(e)], w, c),
         Flow(g, said[Other(e)], c, v, ch[Other(e)]),
         Shake(e, c.phase, ch[Other(e)].phase, w, v)
  PROVE  TInv'
<1> DEFINE o == Other(e)
<1>1. o \in Sides /\ o # e /\ Other(o) = e /\ Sides = {e, o}
  BY OtherEnd
<1>2. /\ ch \in [Sides -> ChannelType] /\ wire \in [Sides -> Seq(FrameType)]
      /\ said \in [Sides -> Nat] /\ got \in [Sides -> Seq(FrameType)] /\ Own(ch[o])
  BY <1>1 DEF TInv, TTypeOK
<1> HIDE DEF o
<1>3. /\ ch'[e] = c /\ ch'[o] = ch[o] /\ wire'[e] = w /\ wire'[o] = v
      /\ said'[e] = n /\ said'[o] = said[o] /\ got'[e] = g /\ got'[o] = got[o]
  BY <1>1, <1>2 DEF o
<1>4. TTypeOK'
  BY <1>1, <1>2 DEF TTypeOK, o
<1>5. Handshake(ch'["server"].phase, ch'["client"].phase, wire'["server"], wire'["client"])
  <2>1. CASE e = "server"
    <3>1. o = "client"
      BY <2>1 DEF o, Other
    <3>2. Handshake(c.phase, ch[o].phase, w, v)
      BY <2>1 DEF Shake, o
    <3> QED BY <2>1, <3>1, <3>2, <1>3
  <2>2. CASE e = "client"
    <3>1. o = "server"
      BY <2>2 DEF o, Other
    <3>2. Handshake(ch[o].phase, c.phase, v, w)
      BY <2>2 DEF Shake, o
    <3> QED BY <2>2, <3>1, <3>2, <1>3
  <2> QED BY <2>1, <2>2 DEF Sides
<1>6. /\ Own(ch'[e]) /\ Sealed(ch'[e].phase, wire'[e])
      /\ Awaits(ch'[e], ch'[o], wire'[o])
      /\ Flow(got'[o], said'[e], ch'[o], wire'[e], ch'[e])
  BY <1>3 DEF o
<1>7. /\ Own(ch'[o]) /\ Sealed(ch'[o].phase, wire'[o])
      /\ Awaits(ch'[o], ch'[e], wire'[e])
      /\ Flow(got'[e], said'[o], ch'[e], wire'[o], ch'[o])
  BY <1>2, <1>3 DEF o
<1>8. \A s \in Sides : /\ Own(ch'[s]) /\ Sealed(ch'[s].phase, wire'[s])
                       /\ Awaits(ch'[s], ch'[Other(s)], wire'[Other(s)])
                       /\ Flow(got'[Other(s)], said'[s], ch'[Other(s)], wire'[s], ch'[s])
  BY <1>1, <1>6, <1>7 DEF o
<1> QED BY <1>4, <1>5, <1>8 DEF TInv

\* Nothing is lost between two states of a direction in which no datagram moves.
LEMMA FlowKept ==
  ASSUME NEW g, NEW n, NEW d, NEW w, NEW c, NEW d2, NEW w2, NEW c2,
         Flow(g, n, d, w, c),
         \A a, b \in Nat : Carries(w, a, b) => Carries(w2, a, b),
         d2.phase # "retired" =>
           /\ d.phase # "retired"
           /\ \A a, b \in Nat : Carries(Frames(d.in), a, b) => Carries(Frames(d2.in), a, b),
         c2.phase # "retired" =>
           /\ c.phase # "retired"
           /\ \A a, b \in Nat : Carries(Frames(c.out), a, b) => Carries(Frames(c2.out), a, b)
           /\ \A a \in Nat : Carries(c.inbox, a, n) => Carries(c2.inbox, a, n)
  PROVE  Flow(g, n, d2, w2, c2)
<1>1. PICK x, y, z \in Nat :
        /\ First(g, x) /\ x <= n
        /\ d.phase # "retired" =>
             /\ Carries(Frames(d.in), x, y) /\ Carries(w, y, z) /\ z <= n
             /\ c.phase # "retired" =>
                  \E u \in Nat : Carries(Frames(c.out), z, u) /\ Carries(c.inbox, u, n)
  BY DEF Flow
<1>2. ASSUME d2.phase # "retired"
      PROVE  /\ Carries(Frames(d2.in), x, y) /\ Carries(w2, y, z) /\ z <= n
             /\ c2.phase # "retired" =>
                  \E u \in Nat : Carries(Frames(c2.out), z, u) /\ Carries(c2.inbox, u, n)
  BY <1>1, <1>2
<1> QED BY <1>1, <1>2 DEF Flow

\* The wires of a channel that forwards.
LEMMA ShakeSame ==
  ASSUME NEW e \in Sides, NEW p, NEW q, NEW w \in Seq(FrameType), NEW v \in Seq(FrameType),
         Shake(e, p, q, w, v), p \in {"wait", "forward"}
  PROVE  /\ Shake(e, "forward", q, w, v)
         /\ \A f \in FrameType : f.kind \notin {"OPEN", "OPEN_ACK"} =>
              Shake(e, p, q, Append(w, f), v)
         /\ v # <<>> => Shake(e, p, q, w, Tail(v)) /\ Head(v).kind \notin {"OPEN", "OPEN_ACK"}
<1>1. Shake(e, "forward", q, w, v)
  BY DEF Shake, Handshake, Sides
<1>2. ASSUME NEW f \in FrameType, f.kind \notin {"OPEN", "OPEN_ACK"}
      PROVE  Shake(e, p, q, Append(w, f), v)
  <2>1. PICK r : r = Append(w, f)
    OBVIOUS
  <2>2. r # <<>> /\ \A k \in DOMAIN r : r[k] = f \/ (k \in DOMAIN w /\ r[k] = w[k])
    BY <2>1
  <2>3. Shake(e, p, q, r, v)
    BY <1>2, <2>2 DEF Shake, Handshake, Sides
  <2> QED BY <2>1, <2>3
<1>3. ASSUME v # <<>>
      PROVE  Shake(e, p, q, w, Tail(v)) /\ Head(v).kind \notin {"OPEN", "OPEN_ACK"}
  <2>1. PICK r : r = Tail(v)
    OBVIOUS
  <2>2. \A k \in DOMAIN r : k + 1 \in DOMAIN v /\ r[k] = v[k + 1] /\ k + 1 # 1
    BY <1>3, <2>1
  <2>3. 1 \in DOMAIN v /\ Head(v) = v[1]
    BY <1>3
  <2>4. \A k \in DOMAIN v : v[k].kind \notin {"OPEN", "OPEN_ACK"}
    BY DEF Shake, Handshake, Sides
  <2>5. \A k \in DOMAIN r : r[k].kind \notin {"OPEN", "OPEN_ACK"}
    BY <2>2, <2>4
  <2>6. Shake(e, p, q, w, r)
    BY <2>5 DEF Shake, Handshake, Sides
  <2> QED BY <2>1, <2>3, <2>4, <2>6
<1> QED BY <1>1, <1>2, <1>3

\* What is written stays sealed when a frame is added or one is read that is no EOF.
LEMMA SealedKept ==
  ASSUME NEW p, NEW w \in Seq(FrameType), Sealed(p, w)
  PROVE  /\ \A f \in FrameType : f.kind # "foreign" => Sealed(p, Append(w, f))
         /\ \A f \in FrameType : f.kind = "EOF" => Sealed("retired", Append(w, f))
         /\ w # <<>> /\ Head(w).kind # "EOF" => Sealed(p, Tail(w))
<1>1. ASSUME NEW f \in FrameType, f.kind # "foreign"
      PROVE  Sealed(p, Append(w, f)) /\ (f.kind = "EOF" => Sealed("retired", Append(w, f)))
  <2>1. PICK r : r = Append(w, f)
    OBVIOUS
  <2>2. \A k \in DOMAIN r : r[k] = f \/ (k \in DOMAIN w /\ r[k] = w[k])
    BY <2>1
  <2>3. \A k \in DOMAIN w : k \in DOMAIN r /\ r[k] = w[k]
    BY <2>1
  <2>4. Len(w) + 1 \in DOMAIN r /\ r[Len(w) + 1] = f
    BY <2>1
  <2>5. Sealed(p, r) /\ (f.kind = "EOF" => Sealed("retired", r))
    BY <1>1, <2>2, <2>3, <2>4 DEF Sealed
  <2> QED BY <2>1, <2>5
<1>2. ASSUME w # <<>>, Head(w).kind # "EOF" PROVE Sealed(p, Tail(w))
  <2>1. PICK r : r = Tail(w)
    OBVIOUS
  <2>2. \A k \in DOMAIN r : k + 1 \in DOMAIN w /\ r[k] = w[k + 1]
    BY <1>2, <2>1
  <2>3. \A k \in DOMAIN w : k # 1 => k - 1 \in DOMAIN r /\ r[k - 1] = w[k]
    BY <1>2, <2>1
  <2>4. Head(w) = w[1]
    BY <1>2
  <2>5. Sealed(p, r)
    BY <1>2, <2>2, <2>3, <2>4 DEF Sealed
  <2> QED BY <2>1, <2>5
<1> QED BY <1>1, <1>2
-----------------------------------------------------------------------------
(* The steps of one end                                                    *)

\* What a step leaves alone, in the form of Stepped.
LEMMA Same ==
  ASSUME TInv, NEW e \in Sides
  PROVE  /\ said = [said EXCEPT ![e] = said[e]] /\ got = [got EXCEPT ![e] = got[e]]
         /\ wire = [wire EXCEPT ![e] = wire[e], ![Other(e)] = wire[Other(e)]]
         /\ \A x : [wire EXCEPT ![e] = x] = [wire EXCEPT ![e] = x, ![Other(e)] = wire[Other(e)]]
         /\ \A x : [wire EXCEPT ![Other(e)] = x] = [wire EXCEPT ![e] = wire[e], ![Other(e)] = x]
<1>1. Other(e) \in Sides /\ Other(e) # e
  BY OtherEnd
<1>2. said \in [Sides -> Nat] /\ got \in [Sides -> Seq(FrameType)] /\ wire \in [Sides -> Seq(FrameType)]
  BY DEF TInv, TTypeOK
<1>3. said = [said EXCEPT ![e] = said[e]] /\ got = [got EXCEPT ![e] = got[e]]
  BY <1>2
<1>4. wire = [wire EXCEPT ![e] = wire[e], ![Other(e)] = wire[Other(e)]]
  BY <1>1, <1>2
<1>5. ASSUME NEW x
      PROVE  [wire EXCEPT ![e] = x] = [wire EXCEPT ![e] = x, ![Other(e)] = wire[Other(e)]]
  BY <1>1, <1>2
<1>6. ASSUME NEW x
      PROVE  [wire EXCEPT ![Other(e)] = x] = [wire EXCEPT ![e] = wire[e], ![Other(e)] = x]
  BY <1>1, <1>2
<1> QED BY <1>3, <1>4, <1>5, <1>6

LEMMA NewChannelType == NewChannel \in ChannelType
<1>1. <<>> \in Seq(FrameType) /\ <<>> \in Seq(EntryType)
  OBVIOUS
<1>2. Burst \in Nat /\ 0 \in Nat
  BY TunnelBounds
<1> QED BY <1>1, <1>2 DEF NewChannel, ChannelType, Whys, TaskNames

LEMMA FrameInType ==
  ASSUME NEW k \in Kinds, NEW n \in Nat
  PROVE  Frame(k, n) \in FrameType /\ Frame(k, n).kind = k /\ Frame(k, n).n = n
  BY DEF Frame, FrameType

LEMMA NoFrames == Frames(<<>>) = <<>>
  BY DEF Frames

\* An end of file on the wire carries nothing.
LEMMA WireKept ==
  ASSUME NEW w \in Seq(FrameType), NEW f \in FrameType, f.kind # "data"
  PROVE  \A a, b \in Nat : Carries(w, a, b) => Carries(Append(w, f), a, b)
  BY CarriesOther

\* However a channel ends.
LEMMA RetireInv ==
  ASSUME TInv, NEW e \in Sides, NEW why \in Whys, RetireChannel(e, why),
         why \notin {"idle", "expired", "deadline"}
  PROVE  TInv'
<1> DEFINE o == Other(e)
           f == Frame("EOF", 0)
           c == [NewChannel EXCEPT !.phase = "retired", !.why = why]
<1>1. /\ ch' = [ch EXCEPT ![e] = c] /\ wire' = [wire EXCEPT ![e] = Append(wire[e], f)]
      /\ said' = said /\ got' = got
  BY DEF RetireChannel, Write
<1>2. f \in FrameType /\ f.kind = "EOF"
  BY FrameInType DEF Kinds
<1>3. c \in ChannelType
  <2>1. PICK N \in ChannelType : N = NewChannel
    BY NewChannelType
  <2>2. [N EXCEPT !.phase = "retired", !.why = why] \in ChannelType
    BY DEF ChannelType
  <2> QED BY <2>1, <2>2
<1>4. c.phase = "retired" /\ c.why = why /\ c.inbox = <<>> /\ c.out = <<>> /\ c.in = <<>>
  BY DEF NewChannel
<1> HIDE DEF c, f, o
<1>5. PICK d : d = ch[o]
  OBVIOUS
<1>6. /\ d \in ChannelType /\ wire[e] \in Seq(FrameType) /\ wire[o] \in Seq(FrameType)
      /\ Own(ch[e]) /\ Own(d) /\ Sealed(ch[e].phase, wire[e]) /\ Sealed(d.phase, wire[o])
      /\ Awaits(d, ch[e], wire[e]) /\ ch[e] \in ChannelType
      /\ Flow(got[o], said[e], d, wire[e], ch[e])
      /\ Flow(got[e], said[o], ch[e], wire[o], d)
      /\ Shake(e, ch[e].phase, d.phase, wire[e], wire[o])
      /\ said[e] \in Nat /\ got[e] \in Seq(FrameType)
  BY <1>5, Seen DEF o
<1>7. Own(c)
  BY <1>4 DEF Own
<1>8. Append(wire[e], f) \in Seq(FrameType) /\ Sealed(c.phase, Append(wire[e], f))
  <2>1. Append(wire[e], f) \in Seq(FrameType)
    BY <1>2, <1>6
  <2>2. Sealed("retired", Append(wire[e], f))
    BY <1>2, <1>6, SealedKept
  <2> QED BY <1>4, <2>1, <2>2
<1>9. Awaits(c, d, wire[o])
  BY <1>4 DEF Awaits
<1>10. Awaits(d, c, Append(wire[e], f))
  <2>1. Waited(ch[e]) <= AckTicks /\ Waited(c) = AckTicks /\ Waited(ch[e]) \in Nat
    BY <1>4, <1>6, TunnelBounds DEF Own, Waited, ChannelType
  <2>2. \A k \in DOMAIN d.out : d.out[k].age <= Waited(ch[e]) /\ d.out[k].age \in Nat
    <3>1. \A k \in DOMAIN d.out : d.out[k] \in EntryType
      BY <1>6 DEF ChannelType
    <3> QED BY <1>6, <3>1 DEF Awaits, EntryType
  <2>3. \A k \in DOMAIN d.out : d.out[k].age <= Waited(c)
    BY <2>1, <2>2, TunnelBounds
  <2> QED BY <1>4, <2>3 DEF Awaits
<1>11. Flow(got[o], said[e], d, Append(wire[e], f), c)
  BY <1>2, <1>4, <1>6, FlowKept, WireKept
<1>12. Flow(got[e], said[o], c, wire[o], d)
  BY <1>4, <1>6, FlowKept
<1>13. Shake(e, c.phase, d.phase, Append(wire[e], f), wire[o])
  <2>1. PICK r : r = Append(wire[e], f)
    OBVIOUS
  <2>2. r # <<>> /\ \A k \in DOMAIN r : r[k] = f \/ (k \in DOMAIN wire[e] /\ r[k] = wire[e][k])
    BY <1>2, <1>6, <2>1
  <2>3. PICK p, w, v : p = ch[e].phase /\ w = wire[e] /\ v = wire[o]
    OBVIOUS
  <2>4. Shake(e, "retired", d.phase, r, v)
    BY <1>2, <1>6, <2>2, <2>3 DEF Shake, Handshake, Sides
  <2> QED BY <1>4, <2>1, <2>3, <2>4
<1>14. /\ wire' = [wire EXCEPT ![e] = Append(wire[e], f), ![o] = wire[o]]
       /\ said' = [said EXCEPT ![e] = said[e]] /\ got' = [got EXCEPT ![e] = got[e]]
  BY <1>1, Same DEF o
<1> QED
  BY <1>1, <1>3, <1>5, <1>6, <1>7, <1>8, <1>9, <1>10, <1>11, <1>12, <1>13, <1>14, Stepped DEF o

\* A task ends, and nothing else happens yet.
LEMMA EndedInv ==
  ASSUME TInv, NEW e \in Sides, NEW task \in TaskNames, NEW why \in Whys, Ended(e, task, why),
         why \notin {"idle", "expired", "deadline"}
  PROVE  TInv'
<1> DEFINE o == Other(e)
           c == [ch[e] EXCEPT !.ended = task, !.why = why]
<1>1. /\ ch' = [ch EXCEPT ![e] = c] /\ wire' = wire /\ said' = said /\ got' = got
  BY DEF Ended, TInv, TTypeOK
<1>2. ch[e] \in ChannelType
  BY Seen
<1>3. c \in ChannelType /\ c.phase = ch[e].phase /\ c.why = why /\ c.inbox = ch[e].inbox
      /\ c.out = ch[e].out /\ c.in = ch[e].in /\ c.quiet = ch[e].quiet /\ c.beat = ch[e].beat
  BY <1>2 DEF ChannelType
<1> HIDE DEF c, o
<1>4. Own(c)
  BY <1>3, Seen DEF Own
<1>5. Awaits(c, ch[o], wire[o]) /\ Awaits(ch[o], c, wire[e])
  BY <1>3, Seen DEF Awaits, Waited, o
<1>6. /\ Flow(got[o], said[e], ch[o], wire[e], c) /\ Flow(got[e], said[o], c, wire[o], ch[o])
  BY <1>3, Seen DEF Flow, o
<1>7. /\ Sealed(c.phase, wire[e]) /\ Sealed(ch[o].phase, wire[o])
      /\ Shake(e, c.phase, ch[o].phase, wire[e], wire[o])
  BY <1>3, Seen DEF o
<1> QED BY <1>1, <1>3, <1>4, <1>5, <1>6, <1>7, Same, Seen, Stepped DEF o
\* The end goes on to phase p of its setup, in time; w and v are the wires it leaves.
LEMMA SetupInv ==
  ASSUME TInv, NEW e \in Sides, NEW p \in {"opening", "wait"},
         ch[e].phase \in {"new", "opening"},
         ch' = [ch EXCEPT ![e].phase = p, ![e].quiet = 0],
         NEW w \in Seq(FrameType), NEW v \in Seq(FrameType),
         wire' = [wire EXCEPT ![e] = w, ![Other(e)] = v], said' = said, got' = got,
         \A a, b \in Nat : Carries(wire[e], a, b) => Carries(w, a, b),
         \A a, b \in Nat : Carries(wire[Other(e)], a, b) => Carries(v, a, b),
         Sealed(p, w), Sealed(ch[Other(e)].phase, v),
         Shake(e, p, ch[Other(e)].phase, w, v)
  PROVE  TInv'
<1> DEFINE o == Other(e)
           c == [ch[e] EXCEPT !.phase = p, !.quiet = 0]
<1>1. ch' = [ch EXCEPT ![e] = c]
  BY DEF TInv, TTypeOK
<1>2. ch[e] \in ChannelType
  BY Seen
<1>3. /\ c \in ChannelType /\ c.phase = p /\ c.quiet = 0 /\ c.why = ch[e].why
      /\ c.inbox = ch[e].inbox /\ c.out = ch[e].out /\ c.in = ch[e].in
  BY <1>2 DEF ChannelType
<1> HIDE DEF c, o
<1>4. c.out = <<>> /\ c.in = <<>>
  BY <1>3, Seen DEF Own
<1>5. Own(c)
  BY <1>3, <1>4, Seen, TunnelBounds DEF Own
<1>6. Awaits(c, ch[o], v)
  BY <1>3, <1>4 DEF Awaits
<1>7. Awaits(ch[o], c, w)
  <2>1. Waited(c) = 0 /\ Waited(ch[e]) = 0
    BY <1>3 DEF Waited
  <2> QED BY <1>3, <2>1, Seen DEF Awaits, o
<1>8. Flow(got[o], said[e], ch[o], w, c)
  <2>1. Flow(got[o], said[e], ch[o], wire[e], ch[e])
    BY Seen DEF o
  <2> QED BY <1>3, <2>1, FlowKept
<1>9. Flow(got[e], said[o], c, v, ch[o])
  <2>1. Flow(got[e], said[o], ch[e], wire[o], ch[o])
    BY Seen DEF o
  <2>2. \A a, b \in Nat : Carries(wire[o], a, b) => Carries(v, a, b)
    BY DEF o
  <2> QED BY <1>3, <2>1, <2>2, FlowKept
<1>10. said' = [said EXCEPT ![e] = said[e]] /\ got' = [got EXCEPT ![e] = got[e]]
       /\ said[e] \in Nat /\ got[e] \in Seq(FrameType)
  BY Same, Seen
<1> QED BY <1>1, <1>3, <1>5, <1>6, <1>7, <1>8, <1>9, <1>10, Stepped DEF o

LEMMA OpenInv ==
  ASSUME TInv, NEW e \in Sides, Open(e) PROVE TInv'
<1> DEFINE f == Frame("OPEN", 0)
           w == Append(wire[e], f)
<1>1. /\ e = "server" /\ ch[e].phase = "new" /\ wire' = [wire EXCEPT ![e] = w]
      /\ ch' = [ch EXCEPT ![e].phase = "opening", ![e].quiet = 0] /\ said' = said /\ got' = got
  BY DEF Open, Write
<1>2. f \in FrameType /\ f.kind = "OPEN"
  BY FrameInType DEF Kinds
<1>3. wire[e] \in Seq(FrameType) /\ wire[Other(e)] \in Seq(FrameType)
  BY Seen
<1>4. wire[e] = <<>> /\ ch[Other(e)].phase \in {"new", "retired"}
  BY <1>1, Seen DEF Shake, Handshake
<1> HIDE DEF f
<1>5. w \in Seq(FrameType) /\ DOMAIN w = {1} /\ w[1] = f
  BY <1>2, <1>3, <1>4
<1>6. \A a, b \in Nat : Carries(wire[e], a, b) => Carries(w, a, b)
  BY <1>2, <1>3, WireKept
<1> HIDE DEF w
<1>7. Sealed("opening", w)
  BY <1>2, <1>5 DEF Sealed
<1>8. Shake(e, "opening", ch[Other(e)].phase, w, wire[Other(e)])
  <2>1. Shake(e, "new", ch[Other(e)].phase, wire[e], wire[Other(e)])
    BY <1>1, Seen
  <2>2. w # <<>>
    BY <1>5
  <2>3. PICK q, v : q = ch[Other(e)].phase /\ v = wire[Other(e)]
    OBVIOUS
  <2>4. q = "retired" => v # <<>>
    <3>1. Sealed(q, v)
      BY <2>3, Seen
    <3>2. q = "retired" => \E k \in DOMAIN v : TRUE
      BY <3>1 DEF Sealed
    <3>3. DOMAIN <<>> = {}
      OBVIOUS
    <3> QED BY <3>2, <3>3
  <2>5. Shake(e, "opening", q, w, v)
    BY <1>1, <1>2, <1>4, <1>5, <2>1, <2>2, <2>3, <2>4 DEF Shake, Handshake
  <2> QED BY <2>3, <2>5
<1>9. wire' = [wire EXCEPT ![e] = w, ![Other(e)] = wire[Other(e)]]
      /\ Sealed(ch[Other(e)].phase, wire[Other(e)])
  BY <1>1, Same, Seen
<1> QED BY <1>1, <1>3, <1>5, <1>6, <1>7, <1>8, <1>9, SetupInv

LEMMA ConnectInv ==
  ASSUME TInv, NEW e \in Sides, Connect(e) PROVE TInv'
<1> DEFINE o == Other(e)
           f == Frame("OPEN_ACK", 0)
           w == Append(wire[e], f)
           v == Tail(wire[o])
<1>1. /\ e = "client" /\ ch[e].phase = "new" /\ wire' = [wire EXCEPT ![e] = w, ![o] = v]
      /\ ch' = [ch EXCEPT ![e].phase = "wait", ![e].quiet = 0] /\ said' = said /\ got' = got
      /\ wire[o] # <<>> /\ Head(wire[o]).kind = "OPEN" /\ o = "server" /\ o # e
  <2>1. e = "client" /\ o = "server" /\ o # e
    BY DEF Connect, Other
  <2>2. wire' = [wire EXCEPT ![e] = Append(@, f), ![o] = Tail(@)]
    BY DEF Connect
  <2>3. wire' = [wire EXCEPT ![e] = w, ![o] = v]
    BY <2>1, <2>2
  <2> QED BY <2>1, <2>3 DEF Connect, Arrived, Next1
<1>2. f \in FrameType /\ f.kind = "OPEN_ACK"
  BY FrameInType DEF Kinds
<1>3. wire[e] \in Seq(FrameType) /\ wire[o] \in Seq(FrameType)
  BY Seen
<1>4. wire[e] = <<>> /\ ch[o].phase \in {"opening", "retired"}
  <2>1. Handshake(ch[o].phase, ch[e].phase, wire[o], wire[e])
    BY <1>1, Seen DEF Shake
  <2> QED BY <1>1, <2>1 DEF Handshake
<1> HIDE DEF f
<1>5. w \in Seq(FrameType) /\ DOMAIN w = {1} /\ w[1] = f
  BY <1>2, <1>3, <1>4
<1>6. v \in Seq(FrameType) /\ \A k \in DOMAIN v : k + 1 \in DOMAIN wire[o] /\ k + 1 # 1 /\ v[k] = wire[o][k + 1]
  BY <1>1, <1>3
<1>7. \A a, b \in Nat : Carries(wire[e], a, b) => Carries(w, a, b)
  BY <1>2, <1>3, WireKept
<1>8. \A a, b \in Nat : Carries(wire[o], a, b) => Carries(v, a, b)
  BY <1>1, <1>3, CarriesTail
<1>9. Sealed("wait", w)
  BY <1>2, <1>5 DEF Sealed
<1>10. Sealed(ch[o].phase, v)
  BY <1>1, <1>3, SealedKept, Seen
<1> HIDE DEF w, v
<1>11. Shake(e, "wait", ch[o].phase, w, v)
  <2>1. Handshake(ch[o].phase, "new", wire[o], wire[e])
    BY <1>1, Seen DEF Shake
  <2>2. PICK q, r : q = ch[o].phase /\ r = wire[o]
    OBVIOUS
  <2>3. \A k \in DOMAIN v : v[k].kind \notin {"OPEN", "OPEN_ACK"}
    BY <1>6, <2>1 DEF Handshake
  <2>4. w # <<>>
    BY <1>5
  <2>5. Handshake(q, "wait", v, w)
    BY <1>2, <1>4, <1>5, <2>2, <2>3, <2>4 DEF Handshake
  <2> QED BY <1>1, <2>2, <2>5 DEF Shake
<1> QED BY <1>1, <1>3, <1>5, <1>6, <1>7, <1>8, <1>9, <1>10, <1>11, SetupInv DEF o

LEMMA OpenAckedInv ==
  ASSUME TInv, NEW e \in Sides, OpenAcked(e) PROVE TInv'
<1> DEFINE o == Other(e)
           v == Tail(wire[o])
<1>1. /\ ch[e].phase = "opening" /\ wire' = [wire EXCEPT ![o] = v]
      /\ ch' = [ch EXCEPT ![e].phase = "wait", ![e].quiet = 0] /\ said' = said /\ got' = got
      /\ wire[o] # <<>> /\ Head(wire[o]).kind = "OPEN_ACK"
  BY DEF OpenAcked, Arrived, Next1, Read
<1>2. wire[e] \in Seq(FrameType) /\ wire[o] \in Seq(FrameType)
  BY Seen
<1>3. e = "server" /\ Handshake("opening", ch[o].phase, wire[e], wire[o])
  <2>1. e # "client"
    <3>1. CASE e = "client"
      <4>1. Handshake(ch[o].phase, "opening", wire[o], wire[e])
        BY <1>1, <3>1, Seen DEF Shake
      <4> QED BY <4>1 DEF Handshake
    <3> QED BY <3>1
  <2> QED BY <1>1, <2>1, Seen DEF Shake, Sides
<1>4. v \in Seq(FrameType) /\ \A k \in DOMAIN v : k + 1 \in DOMAIN wire[o] /\ k + 1 # 1 /\ v[k] = wire[o][k + 1]
  BY <1>1, <1>2
<1>5. \A a, b \in Nat : Carries(wire[o], a, b) => Carries(v, a, b)
  BY <1>1, <1>2, CarriesTail
<1>6. Sealed("wait", wire[e])
  BY Seen DEF Sealed
<1>7. Sealed(ch[o].phase, v)
  BY <1>1, <1>2, SealedKept, Seen
<1> HIDE DEF v
<1>8. ch[o].phase # "new"
  BY <1>1, <1>3 DEF Handshake
<1>9. Shake(e, "wait", ch[o].phase, wire[e], v)
  <2>1. PICK q, r, w : q = ch[o].phase /\ r = wire[o] /\ w = wire[e]
    OBVIOUS
  <2>2. \A k \in DOMAIN v : v[k].kind \notin {"OPEN", "OPEN_ACK"}
    BY <1>3, <1>4 DEF Handshake
  <2>3. Handshake("wait", q, w, v)
    BY <1>3, <1>8, <2>1, <2>2 DEF Handshake
  <2> QED BY <1>3, <2>1, <2>3 DEF Shake
<1>10. wire' = [wire EXCEPT ![e] = wire[e], ![o] = v]
  BY <1>1, Same DEF o
<1> QED BY <1>1, <1>2, <1>4, <1>5, <1>6, <1>7, <1>9, <1>10, SetupInv DEF o

LEMMA RouteAckInv ==
  ASSUME TInv, NEW e \in Sides, RouteAck(e) PROVE TInv'
<1> DEFINE o == Other(e)
           c == [ch[e] EXCEPT !.phase = "forward", !.quiet = 0, !.beat = 0]
<1>1. /\ ch[e].phase = "wait" /\ ch' = [ch EXCEPT ![e] = c] /\ wire' = wire
      /\ said' = said /\ got' = got
  BY DEF RouteAck, TInv, TTypeOK
<1>2. ch[e] \in ChannelType
  BY Seen
<1>3. /\ c \in ChannelType /\ c.phase = "forward" /\ c.quiet = 0 /\ c.beat = 0
      /\ c.why = ch[e].why /\ c.inbox = ch[e].inbox /\ c.out = ch[e].out /\ c.in = ch[e].in
  BY <1>2 DEF ChannelType
<1> HIDE DEF c, o
<1>4. c.out = <<>> /\ c.in = <<>>
  BY <1>1, <1>3, Seen DEF Own
<1>5. Own(c)
  BY <1>3, <1>4, Seen, TunnelBounds DEF Own
<1>6. Awaits(c, ch[o], wire[o])
  <2>1. ch[o] \in ChannelType
    BY Seen DEF o
  <2>2. 0 <= Waited(ch[o]) /\ 0 <= AckTicks + ch[o].beat
    BY <2>1, TunnelBounds DEF Waited, ChannelType
  <2> QED BY <1>3, <1>4, <2>2 DEF Awaits
<1>7. Awaits(ch[o], c, wire[e])
  <2>1. PICK d \in ChannelType : d = ch[o]
    BY Seen DEF o
  <2>2. ch[e].quiet <= AckTicks /\ ch[e].quiet \in Nat /\ AckTicks \in Nat
    BY <1>1, <1>2, Seen, TunnelBounds DEF Own, ChannelType
  <2>3. Waited(c) = AckTicks /\ Waited(ch[e]) = ch[e].quiet
    BY <1>1, <1>3 DEF Waited
  <2>4. \A k \in DOMAIN d.out : d.out[k].age <= ch[e].quiet /\ d.out[k].age \in Nat
    <3>1. \A k \in DOMAIN d.out : d.out[k] \in EntryType
      BY DEF ChannelType
    <3> QED BY <2>1, <2>3, <3>1, Seen DEF Awaits, EntryType, o
  <2>5. d.phase = "forward" => d.quiet <= ch[e].quiet /\ d.quiet \in Nat
    BY <1>1, <2>1, <2>3, Seen DEF Awaits, ChannelType, o
  <2>6. \A k \in DOMAIN d.out : d.out[k].age <= Waited(c)
    BY <2>2, <2>3, <2>4
  <2>7. d.phase = "forward" => d.quiet <= AckTicks + c.beat
    BY <2>2, <2>5, <1>3
  <2>8. Awaits(d, c, wire[e])
    BY <1>3, <2>6, <2>7 DEF Awaits
  <2> QED BY <2>1, <2>8
<1>8. Flow(got[o], said[e], ch[o], wire[e], c)
  <2>1. Flow(got[o], said[e], ch[o], wire[e], ch[e])
    BY Seen DEF o
  <2> QED BY <1>1, <1>3, <2>1, FlowKept
<1>9. Flow(got[e], said[o], c, wire[o], ch[o])
  <2>1. Flow(got[e], said[o], ch[e], wire[o], ch[o])
    BY Seen DEF o
  <2> QED BY <1>1, <1>3, <2>1, FlowKept
<1>10. Sealed(c.phase, wire[e]) /\ Sealed(ch[o].phase, wire[o])
  BY <1>3, Seen DEF Sealed, o
<1>11. Shake(e, c.phase, ch[o].phase, wire[e], wire[o])
  BY <1>1, <1>3, Seen, ShakeSame DEF o
<1>12. /\ said' = [said EXCEPT ![e] = said[e]] /\ got' = [got EXCEPT ![e] = got[e]]
       /\ wire' = [wire EXCEPT ![e] = wire[e], ![o] = wire[o]]
       /\ said[e] \in Nat /\ got[e] \in Seq(FrameType)
       /\ wire[e] \in Seq(FrameType) /\ wire[o] \in Seq(FrameType)
  BY <1>1, Same, Seen DEF o
<1> QED BY <1>1, <1>3, <1>5, <1>6, <1>7, <1>8, <1>9, <1>10, <1>11, <1>12, Stepped DEF o

\* A channel's fields.
LEMMA Fields ==
  ASSUME NEW c \in ChannelType
  PROVE  /\ c.inbox \in Seq(FrameType) /\ c.out \in Seq(EntryType) /\ c.in \in Seq(EntryType)
         /\ c.tx \in Nat /\ c.rx \in Nat /\ c.quiet \in Nat /\ c.beat \in Nat
         /\ Len(c.out) \in Nat /\ Len(c.in) \in Nat
  BY DEF ChannelType

LEMMA OpeningFailsInv ==
  ASSUME TInv, NEW e \in Sides, OpeningFails(e) PROVE TInv'
<1>1. ch[e].phase \in {"new", "opening", "wait"}
  BY DEF OpeningFails
<1>2. ch[e] \in ChannelType /\ Own(ch[e])
  BY Seen
<1>3. ch[e].quiet <= AckTicks /\ ch[e].quiet \in Nat
  <2>1. ch[e].quiet \in Nat
    BY <1>2, Fields
  <2>2. ch[e].quiet = 0 \/ ch[e].quiet <= AckTicks
    BY <1>1, <1>2 DEF Own
  <2> QED BY <2>1, <2>2, TunnelBounds
<1>4. ~(ch[e].quiet > Idle)
  BY <1>3, TunnelBounds
<1>5. RetireChannel(e, "eof")
  BY <1>4 DEF OpeningFails
<1>6. "eof" \in Whys
  BY DEF Whys
<1> QED BY <1>5, <1>6, RetireInv

LEMMA ShutdownInv ==
  ASSUME TInv, NEW e \in Sides, Shutdown(e) PROVE TInv'
<1>1. RetireChannel(e, "shutdown") /\ "shutdown" \in Whys
  BY DEF Shutdown, Whys
<1> QED BY <1>1, RetireInv

LEMMA StallInv ==
  ASSUME TInv, NEW e \in Sides, Stall(e) PROVE TInv'
<1> DEFINE Prone == {"tls_reader", "tls_writer", "udp_reader", "udp_writer"}
<1>1. "stall" \in Whys /\ Prone \subseteq TaskNames
  BY DEF Whys, TaskNames
<1>2. CASE \E task \in Prone : Ended(e, task, "stall")
  BY <1>1, <1>2, EndedInv
<1>3. CASE RetireChannel(e, "stall")
  BY <1>1, <1>3, RetireInv
<1> QED BY <1>2, <1>3 DEF Stall

LEMMA RouteCloseInv ==
  ASSUME TInv, NEW e \in Sides, RouteClose(e) PROVE TInv'
<1>1. "closed" \in Whys /\ "closed" \in TaskNames
  BY DEF Whys, TaskNames
<1> QED BY <1>1, EndedInv DEF RouteClose

LEMMA CancelInv ==
  ASSUME TInv, NEW e \in Sides, Cancel(e) PROVE TInv'
<1>1. RetireChannel(e, ch[e].why)
  BY DEF Cancel
<1>2. ch[e].why \in Whys /\ ch[e].why \notin {"idle", "expired", "deadline"}
  BY Seen DEF ChannelType, Own
<1>3. PICK why \in Whys : why = ch[e].why
  BY <1>2
<1> QED BY <1>1, <1>2, <1>3, RetireInv

\* No end waits longer than a prompt supervisor takes.
LEMMA WaitedBound ==
  ASSUME NEW d \in ChannelType, Own(d)
  PROVE  Waited(d) \in Nat /\ Waited(d) <= AckTicks
  BY TunnelBounds DEF Waited, ChannelType, Own

\* A sent datagram, the next of its game, is queued in the socket.
LEMMA GameSendsInv ==
  ASSUME TInv, NEW e \in Sides, GameSends(e) PROVE TInv'
<1> DEFINE o == Other(e)
           n == said[e] + 1
           f == Frame("data", n)
           c == [ch[e] EXCEPT !.inbox = Append(@, f)]
<1>1. ch[e] \in ChannelType /\ said[e] \in Nat
  BY Seen
<1>2. /\ ch[e].phase \in {"wait", "forward"} /\ ch' = [ch EXCEPT ![e] = c] /\ wire' = wire
      /\ said' = [said EXCEPT ![e] = n] /\ got' = got
  BY <1>1 DEF GameSends, TInv, TTypeOK
<1>3. n \in Nat /\ f \in FrameType /\ f.kind = "data" /\ f.n = n
  BY <1>1, FrameInType DEF Kinds
<1> HIDE DEF f
<1>4. /\ c \in ChannelType /\ c.phase = ch[e].phase /\ c.quiet = ch[e].quiet /\ c.beat = ch[e].beat
      /\ c.why = ch[e].why /\ c.inbox = Append(ch[e].inbox, f) /\ c.out = ch[e].out /\ c.in = ch[e].in
      /\ ch[e].inbox \in Seq(FrameType)
  <2>1. ch[e].inbox \in Seq(FrameType)
    BY <1>1 DEF ChannelType
  <2>2. PICK q \in Seq(FrameType) : q = Append(ch[e].inbox, f)
    <3> HIDE DEF c, o
    <3>1. Append(ch[e].inbox, f) \in Seq(FrameType)
      BY <1>3, <2>1
    <3> QED BY <3>1
  <2>3. c = [ch[e] EXCEPT !.inbox = q]
    BY <2>2
  <2> HIDE DEF c
  <2> QED BY <1>1, <2>1, <2>2, <2>3 DEF ChannelType
<1> HIDE DEF c, o
<1>5. Own(c)
  <2>1. \A k \in DOMAIN c.inbox : c.inbox[k] = f \/ (k \in DOMAIN ch[e].inbox /\ c.inbox[k] = ch[e].inbox[k])
    BY <1>3, <1>4
  <2>2. \A k \in DOMAIN c.inbox : c.inbox[k].kind \in {"data", "foreign"}
    BY <1>3, <2>1, Seen DEF Own
  <2> QED BY <1>4, <2>2, Seen DEF Own
<1>6. Awaits(c, ch[o], wire[o]) /\ Awaits(ch[o], c, wire[e])
  BY <1>4, Seen DEF Awaits, Waited, o
<1>7. Flow(got[o], n, ch[o], wire[e], c)
  <2>1. Flow(got[o], said[e], ch[o], wire[e], ch[e])
    BY Seen DEF o
  <2>2. PICK x, y, z \in Nat :
        /\ First(got[o], x) /\ x <= said[e]
        /\ ch[o].phase # "retired" =>
             /\ Carries(Frames(ch[o].in), x, y) /\ Carries(wire[e], y, z) /\ z <= said[e]
             /\ ch[e].phase # "retired" =>
                  \E u \in Nat : Carries(Frames(ch[e].out), z, u) /\ Carries(ch[e].inbox, u, said[e])
    BY <2>1 DEF Flow
  <2>3. x <= n /\ (z <= said[e] => z <= n)
    BY <1>1, <2>2
  <2>4. \A u \in Nat : Carries(ch[e].inbox, u, said[e]) => Carries(c.inbox, u, n)
    BY <1>1, <1>3, <1>4, CarriesNext
  <2> QED BY <1>2, <1>4, <2>2, <2>3, <2>4 DEF Flow
<1>8. Flow(got[e], said[o], c, wire[o], ch[o])
  <2>1. Flow(got[e], said[o], ch[e], wire[o], ch[o])
    BY Seen DEF o
  <2> QED BY <1>4, <2>1, FlowKept
<1>9. /\ Sealed(c.phase, wire[e]) /\ Sealed(ch[o].phase, wire[o])
      /\ Shake(e, c.phase, ch[o].phase, wire[e], wire[o])
  BY <1>4, Seen DEF o
<1>10. /\ got' = [got EXCEPT ![e] = got[e]] /\ got[e] \in Seq(FrameType)
       /\ wire' = [wire EXCEPT ![e] = wire[e], ![o] = wire[o]]
       /\ wire[e] \in Seq(FrameType) /\ wire[o] \in Seq(FrameType)
  BY <1>2, Same, Seen DEF o
<1> QED BY <1>2, <1>3, <1>4, <1>5, <1>6, <1>7, <1>8, <1>9, <1>10, Stepped DEF o

LEMMA ForeignSendsInv ==
  ASSUME TInv, NEW e \in Sides, ForeignSends(e) PROVE TInv'
<1> DEFINE o == Other(e)
           f == Frame("foreign", 0)
           c == [ch[e] EXCEPT !.inbox = Append(@, f)]
<1>1. ch[e] \in ChannelType /\ said[e] \in Nat
  BY Seen
<1>2. /\ ch' = [ch EXCEPT ![e] = c] /\ wire' = wire /\ said' = said /\ got' = got
  BY DEF ForeignSends, TInv, TTypeOK
<1>3. f \in FrameType /\ f.kind = "foreign"
  BY FrameInType DEF Kinds
<1> HIDE DEF f
<1>4. /\ c \in ChannelType /\ c.phase = ch[e].phase /\ c.quiet = ch[e].quiet /\ c.beat = ch[e].beat
      /\ c.why = ch[e].why /\ c.inbox = Append(ch[e].inbox, f) /\ c.out = ch[e].out /\ c.in = ch[e].in
      /\ ch[e].inbox \in Seq(FrameType)
  <2>1. ch[e].inbox \in Seq(FrameType)
    BY <1>1 DEF ChannelType
  <2>2. PICK q \in Seq(FrameType) : q = Append(ch[e].inbox, f)
    <3> HIDE DEF c, o
    <3>1. Append(ch[e].inbox, f) \in Seq(FrameType)
      BY <1>3, <2>1
    <3> QED BY <3>1
  <2>3. c = [ch[e] EXCEPT !.inbox = q]
    BY <2>2
  <2> HIDE DEF c
  <2> QED BY <1>1, <2>1, <2>2, <2>3 DEF ChannelType
<1> HIDE DEF c, o
<1>5. Own(c)
  <2>1. \A k \in DOMAIN c.inbox : c.inbox[k] = f \/ (k \in DOMAIN ch[e].inbox /\ c.inbox[k] = ch[e].inbox[k])
    BY <1>3, <1>4
  <2>2. \A k \in DOMAIN c.inbox : c.inbox[k].kind \in {"data", "foreign"}
    BY <1>3, <2>1, Seen DEF Own
  <2> QED BY <1>4, <2>2, Seen DEF Own
<1>6. Awaits(c, ch[o], wire[o]) /\ Awaits(ch[o], c, wire[e])
  BY <1>4, Seen DEF Awaits, Waited, o
<1>7. Flow(got[o], said[e], ch[o], wire[e], c)
  <2>1. Flow(got[o], said[e], ch[o], wire[e], ch[e])
    BY Seen DEF o
  <2>2. \A a \in Nat : Carries(ch[e].inbox, a, said[e]) => Carries(c.inbox, a, said[e])
    BY <1>1, <1>3, <1>4, CarriesOther
  <2> QED BY <1>4, <2>1, <2>2, FlowKept
<1>8. Flow(got[e], said[o], c, wire[o], ch[o])
  <2>1. Flow(got[e], said[o], ch[e], wire[o], ch[o])
    BY Seen DEF o
  <2> QED BY <1>4, <2>1, FlowKept
<1>9. /\ Sealed(c.phase, wire[e]) /\ Sealed(ch[o].phase, wire[o])
      /\ Shake(e, c.phase, ch[o].phase, wire[e], wire[o])
  BY <1>4, Seen DEF o
<1>10. /\ got' = [got EXCEPT ![e] = got[e]] /\ got[e] \in Seq(FrameType)
       /\ said' = [said EXCEPT ![e] = said[e]]
       /\ wire' = [wire EXCEPT ![e] = wire[e], ![o] = wire[o]]
       /\ wire[e] \in Seq(FrameType) /\ wire[o] \in Seq(FrameType)
  BY <1>2, Same, Seen DEF o
<1> QED BY <1>1, <1>2, <1>4, <1>5, <1>6, <1>7, <1>8, <1>9, <1>10, Stepped DEF o

LEMMA EntryInType ==
  ASSUME NEW f \in FrameType
  PROVE  Entry(f) \in EntryType /\ Entry(f).frame = f /\ Entry(f).age = 0
  BY DEF Entry, EntryType

\* What is appended to a queue.
LEMMA Appended ==
  ASSUME NEW S, NEW q \in Seq(S), NEW x \in S
  PROVE  /\ Append(q, x) \in Seq(S) /\ Append(q, x) # <<>>
         /\ \A k \in DOMAIN Append(q, x) :
              Append(q, x)[k] = x \/ (k \in DOMAIN q /\ Append(q, x)[k] = q[k])
  OBVIOUS

\* What remains of a queue.
LEMMA Taken ==
  ASSUME NEW S, NEW q \in Seq(S), q # <<>>
  PROVE  /\ Tail(q) \in Seq(S) /\ Head(q) \in S /\ 1 \in DOMAIN q /\ Head(q) = q[1]
         /\ \A k \in DOMAIN Tail(q) : k + 1 \in DOMAIN q /\ Tail(q)[k] = q[k + 1]
  OBVIOUS

\* A datagram or a heartbeat enters the queue out, the inbox leaves i and the time
\* since the last heartbeat is t.
LEMMA OutInv ==
  ASSUME TInv, NEW e \in Sides, ch[e].phase = "forward",
         NEW c \in ChannelType, ch' = [ch EXCEPT ![e] = c], wire' = wire, said' = said, got' = got,
         c.phase = "forward", c.why = ch[e].why, c.in = ch[e].in, c.quiet = ch[e].quiet,
         c.beat <= Beat,
         \A k \in DOMAIN c.inbox : c.inbox[k].kind \in {"data", "foreign"},
         NEW f \in FrameType, f.kind \in {"data", "heartbeat"},
         c.out = Append(ch[e].out, Entry(f)),
         \A z, u \in Nat : Carries(Frames(ch[e].out), z, u) /\ Carries(ch[e].inbox, u, said[e]) =>
           \E t \in Nat : Carries(Append(Frames(ch[e].out), f), z, t) /\ Carries(c.inbox, t, said[e])
  PROVE  TInv'
<1> DEFINE o == Other(e)
<1>1. /\ ch[e] \in ChannelType /\ Own(ch[e]) /\ ch[o] \in ChannelType /\ Own(ch[o])
      /\ Awaits(ch[e], ch[o], wire[o]) /\ Awaits(ch[o], ch[e], wire[e])
  BY Seen
<1>2. ch[e].out \in Seq(EntryType)
  BY <1>1, Fields
<1>3. Entry(f) \in EntryType /\ Entry(f).frame = f /\ Entry(f).age = 0
  BY EntryInType
<1>4. /\ \A k \in DOMAIN c.out : c.out[k] = Entry(f) \/ (k \in DOMAIN ch[e].out /\ c.out[k] = ch[e].out[k])
      /\ c.out # <<>>
  BY <1>2, <1>3, Appended
<1> HIDE DEF o
<1>5. Own(c)
  <2>1. \A k \in DOMAIN c.out : c.out[k].frame.kind \in {"data", "heartbeat"}
    BY <1>1, <1>3, <1>4 DEF Own
  <2> QED BY <1>1, <2>1 DEF Own
<1>6. Awaits(c, ch[o], wire[o])
  <2>1. Waited(ch[o]) \in Nat
    BY <1>1, WaitedBound
  <2>2. \A k \in DOMAIN c.out : c.out[k].age <= Waited(ch[o])
    BY <1>1, <1>3, <1>4, <2>1 DEF Awaits
  <2> QED BY <1>1, <2>2 DEF Awaits
<1>7. Awaits(ch[o], c, wire[e])
  BY <1>1, <1>4 DEF Awaits, Waited
<1>8. Flow(got[o], said[e], ch[o], wire[e], c)
  <2>1. Flow(got[o], said[e], ch[o], wire[e], ch[e])
    BY Seen DEF o
  <2>2. Frames(c.out) = Append(Frames(ch[e].out), f)
    BY <1>2, FramesOf
  <2> QED BY <2>1, <2>2 DEF Flow
<1>9. Flow(got[e], said[o], c, wire[o], ch[o])
  <2>1. Flow(got[e], said[o], ch[e], wire[o], ch[o])
    BY Seen DEF o
  <2> QED BY <2>1, FlowKept
<1>10. /\ Sealed(c.phase, wire[e]) /\ Sealed(ch[o].phase, wire[o])
       /\ Shake(e, c.phase, ch[o].phase, wire[e], wire[o])
  BY Seen DEF o
<1>11. /\ got' = [got EXCEPT ![e] = got[e]] /\ got[e] \in Seq(FrameType)
       /\ said' = [said EXCEPT ![e] = said[e]] /\ said[e] \in Nat
       /\ wire' = [wire EXCEPT ![e] = wire[e], ![o] = wire[o]]
       /\ wire[e] \in Seq(FrameType) /\ wire[o] \in Seq(FrameType)
  BY Same, Seen DEF o
<1> QED BY <1>5, <1>6, <1>7, <1>8, <1>9, <1>10, <1>11, Stepped DEF o

LEMMA UdpReaderInv ==
  ASSUME TInv, NEW e \in Sides, UdpReader(e) PROVE TInv'
<1> DEFINE o == Other(e)
           f == Head(ch[e].inbox)
           b == [ch[e] EXCEPT !.inbox = Tail(@), !.tx = @ - 1]
<1>1. /\ ch[e] \in ChannelType /\ Own(ch[e]) /\ said[e] \in Nat
      /\ ch[e].phase = "forward" /\ ch[e].inbox # <<>>
  BY Seen DEF UdpReader, Running
<1>2. /\ ch[e].inbox \in Seq(FrameType) /\ ch[e].out \in Seq(EntryType) /\ ch[e].tx \in Nat
  BY <1>1, Fields
<1>3. /\ Tail(ch[e].inbox) \in Seq(FrameType) /\ f \in FrameType
      /\ 1 \in DOMAIN ch[e].inbox /\ f = ch[e].inbox[1]
      /\ \A k \in DOMAIN Tail(ch[e].inbox) :
           k + 1 \in DOMAIN ch[e].inbox /\ Tail(ch[e].inbox)[k] = ch[e].inbox[k + 1]
  BY <1>1, <1>2, Taken
<1>4. f.kind \in {"data", "foreign"}
  BY <1>1, <1>3 DEF Own
<1>5. \A k \in DOMAIN Tail(ch[e].inbox) : Tail(ch[e].inbox)[k].kind \in {"data", "foreign"}
  BY <1>1, <1>3 DEF Own
<1>6. CASE ch[e].tx = 0
  <2>1. Ended(e, "udp_reader", "tx_rate")
    BY <1>6 DEF UdpReader
  <2> QED BY <2>1, EndedInv DEF Whys, TaskNames
<1>7. CASE ch[e].tx # 0 /\ f.kind = "data" /\ Len(b["out"]) >= QCount
  <2>1. Ended(e, "udp_reader", "full")
    BY <1>7 DEF UdpReader, Forwardable, Put
  <2> QED BY <2>1, EndedInv DEF Whys, TaskNames
<1>8. ch[e].tx # 0 => ch[e].tx - 1 \in Nat
  BY <1>2
<1>9. CASE ch[e].tx # 0 /\ f.kind = "data" /\ ~(Len(b["out"]) >= QCount)
  <2> DEFINE c == [b EXCEPT !["out"] = Append(@, Entry(f))]
  <2>1. ch' = [ch EXCEPT ![e] = c] /\ wire' = wire /\ said' = said /\ got' = got
    BY <1>9 DEF UdpReader, Forwardable, Put
  <2>2. PICK i \in Seq(FrameType), t \in Nat, q \in Seq(EntryType) :
          i = Tail(ch[e].inbox) /\ t = ch[e].tx - 1 /\ q = Append(ch[e].out, Entry(f))
    <3>1. Append(ch[e].out, Entry(f)) \in Seq(EntryType)
      <4> HIDE DEF f
      <4> QED BY <1>2, <1>3, EntryInType, Appended
    <3> QED BY <1>3, <1>8, <1>9, <3>1
  <2>3. c = [ch[e] EXCEPT !.inbox = i, !.tx = t, !.out = q]
    <3>1. PICK h \in ChannelType : h = ch[e]
      BY <1>1
    <3>2. c = [[h EXCEPT !.inbox = i, !.tx = t] EXCEPT !["out"] = Append(@, Entry(f))]
      BY <2>2, <3>1
    <3>3. [h EXCEPT !.inbox = i, !.tx = t].out = h.out
      BY DEF ChannelType
    <3> HIDE DEF c, f
    <3> QED BY <2>2, <3>1, <3>2, <3>3 DEF ChannelType
  <2> HIDE DEF c, b, f, o
  <2>4. /\ c \in ChannelType /\ c.phase = "forward" /\ c.quiet = ch[e].quiet /\ c.beat = ch[e].beat
        /\ c.why = ch[e].why /\ c.inbox = i /\ c.out = q /\ c.in = ch[e].in
    BY <1>1, <2>2, <2>3 DEF ChannelType
  <2>5. c.beat <= Beat
    BY <1>1, <2>4 DEF Own
  <2>6. ASSUME NEW z \in Nat, NEW u \in Nat, Carries(Frames(ch[e].out), z, u),
               Carries(ch[e].inbox, u, said[e])
        PROVE  \E t2 \in Nat : Carries(Append(Frames(ch[e].out), f), z, t2) /\ Carries(c.inbox, t2, said[e])
    <3>1. f = Frame("data", u + 1) /\ Carries(c.inbox, u + 1, said[e])
      BY <1>1, <1>2, <1>9, <2>2, <2>4, <2>6, CarriesHead DEF f
    <3>2. f.n = u + 1
      BY <3>1 DEF Frame
    <3>3. Carries(Append(Frames(ch[e].out), f), z, u + 1)
      BY <1>2, <1>3, <1>9, <2>6, <3>2, CarriesNext, FramesOf
    <3> QED BY <3>1, <3>3
  <2>7. \A k \in DOMAIN c.inbox : c.inbox[k].kind \in {"data", "foreign"}
    BY <1>5, <2>2, <2>4
  <2> QED BY <1>1, <1>3, <1>9, <2>1, <2>2, <2>4, <2>5, <2>6, <2>7, OutInv
<1>10. CASE ch[e].tx # 0 /\ f.kind # "data"
  <2>1. ch' = [ch EXCEPT ![e] = b] /\ wire' = wire /\ said' = said /\ got' = got
    BY <1>10 DEF UdpReader, Forwardable
  <2>2. PICK i \in Seq(FrameType), t \in Nat : i = Tail(ch[e].inbox) /\ t = ch[e].tx - 1
    BY <1>3, <1>8, <1>10
  <2>3. b = [ch[e] EXCEPT !.inbox = i, !.tx = t]
    BY <2>2
  <2> HIDE DEF b, o, f
  <2>4. /\ b \in ChannelType /\ b.phase = "forward" /\ b.quiet = ch[e].quiet /\ b.beat = ch[e].beat
        /\ b.why = ch[e].why /\ b.inbox = i /\ b.out = ch[e].out /\ b.in = ch[e].in
    BY <1>1, <2>2, <2>3 DEF ChannelType
  <2>5. Own(b)
    <3>1. \A k \in DOMAIN b.inbox : b.inbox[k].kind \in {"data", "foreign"}
      BY <1>5, <2>2, <2>4
    <3> QED BY <1>1, <2>4, <3>1 DEF Own
  <2>6. Awaits(b, ch[o], wire[o]) /\ Awaits(ch[o], b, wire[e])
    BY <1>1, <2>4, Seen DEF Awaits, Waited, o
  <2>7. Flow(got[o], said[e], ch[o], wire[e], b)
    <3>1. Flow(got[o], said[e], ch[o], wire[e], ch[e])
      BY Seen DEF o
    <3>2. \A a \in Nat : Carries(ch[e].inbox, a, said[e]) => Carries(b.inbox, a, said[e])
      BY <1>1, <1>2, <1>10, <2>2, <2>4, CarriesTail DEF f
    <3> QED BY <1>1, <2>4, <3>1, <3>2, FlowKept
  <2>8. Flow(got[e], said[o], b, wire[o], ch[o])
    <3>1. Flow(got[e], said[o], ch[e], wire[o], ch[o])
      BY Seen DEF o
    <3> QED BY <1>1, <2>4, <3>1, FlowKept
  <2>9. /\ Sealed(b.phase, wire[e]) /\ Sealed(ch[o].phase, wire[o])
        /\ Shake(e, b.phase, ch[o].phase, wire[e], wire[o])
    BY <1>1, <2>4, Seen DEF o
  <2>10. /\ got' = [got EXCEPT ![e] = got[e]] /\ got[e] \in Seq(FrameType)
         /\ said' = [said EXCEPT ![e] = said[e]]
         /\ wire' = [wire EXCEPT ![e] = wire[e], ![o] = wire[o]]
         /\ wire[e] \in Seq(FrameType) /\ wire[o] \in Seq(FrameType)
    BY <2>1, Same, Seen DEF o
  <2> QED BY <1>1, <2>1, <2>4, <2>5, <2>6, <2>7, <2>8, <2>9, <2>10, Stepped DEF o
<1> QED BY <1>6, <1>7, <1>9, <1>10

LEMMA HeartbeatTaskInv ==
  ASSUME TInv, NEW e \in Sides, HeartbeatTask(e) PROVE TInv'
<1> DEFINE f == Frame("heartbeat", 0)
           b == [ch[e] EXCEPT !.beat = 0]
           c == [b EXCEPT !["out"] = Append(@, Entry(f))]
<1>1. /\ ch[e] \in ChannelType /\ Own(ch[e]) /\ said[e] \in Nat /\ ch[e].phase = "forward"
  BY Seen DEF HeartbeatTask, Running
<1>2. f \in FrameType /\ f.kind = "heartbeat"
  BY FrameInType DEF Kinds
<1>3. CASE Len(b["out"]) >= QCount
  <2>1. Ended(e, "heartbeat", "full")
    BY <1>3 DEF HeartbeatTask, Put
  <2> QED BY <2>1, EndedInv DEF Whys, TaskNames
<1>4. CASE ~(Len(b["out"]) >= QCount)
  <2>1. ch' = [ch EXCEPT ![e] = c] /\ wire' = wire /\ said' = said /\ got' = got
    BY <1>4 DEF HeartbeatTask, Put
  <2> HIDE DEF f
  <2>2. ch[e].out \in Seq(EntryType)
    BY <1>1, Fields
  <2>3. PICK q \in Seq(EntryType) : q = Append(ch[e].out, Entry(f))
    <3>1. Append(ch[e].out, Entry(f)) \in Seq(EntryType)
      BY <1>2, <2>2, EntryInType, Appended
    <3> QED BY <3>1
  <2>4. c = [ch[e] EXCEPT !.beat = 0, !.out = q]
    <3>1. PICK h \in ChannelType : h = ch[e]
      BY <1>1
    <3>2. c = [[h EXCEPT !.beat = 0] EXCEPT !["out"] = Append(@, Entry(f))]
      BY <3>1
    <3>3. [h EXCEPT !.beat = 0].out = h.out
      BY DEF ChannelType
    <3> HIDE DEF c
    <3> QED BY <2>3, <3>1, <3>2, <3>3 DEF ChannelType
  <2> HIDE DEF c, b
  <2>5. /\ c \in ChannelType /\ c.phase = "forward" /\ c.quiet = ch[e].quiet /\ c.beat = 0
        /\ c.why = ch[e].why /\ c.inbox = ch[e].inbox /\ c.out = q /\ c.in = ch[e].in
    BY <1>1, <2>3, <2>4 DEF ChannelType
  <2>6. c.beat <= Beat
    BY <2>5, TunnelBounds
  <2>7. \A z, u \in Nat : Carries(Frames(ch[e].out), z, u) /\ Carries(ch[e].inbox, u, said[e]) =>
          \E t \in Nat : Carries(Append(Frames(ch[e].out), f), z, t) /\ Carries(c.inbox, t, said[e])
    BY <1>2, <2>2, <2>5, CarriesOther, FramesOf
  <2>8. \A k \in DOMAIN c.inbox : c.inbox[k].kind \in {"data", "foreign"}
    BY <1>1, <2>5 DEF Own
  <2> QED BY <1>1, <1>2, <2>1, <2>3, <2>5, <2>6, <2>7, <2>8, OutInv
<1> QED BY <1>3, <1>4

LEMMA TlsWriterInv ==
  ASSUME TInv, NEW e \in Sides, TlsWriter(e) PROVE TInv'
<1> DEFINE o == Other(e)
           f == Head(ch[e].out).frame
           c == [ch[e] EXCEPT !.out = Tail(@)]
           w == Append(wire[e], f)
<1>1. /\ ch[e] \in ChannelType /\ Own(ch[e]) /\ ch[o] \in ChannelType /\ Own(ch[o])
      /\ Awaits(ch[e], ch[o], wire[o]) /\ Awaits(ch[o], ch[e], wire[e])
      /\ said[e] \in Nat /\ wire[e] \in Seq(FrameType)
      /\ ch[e].phase = "forward" /\ ch[e].out # <<>>
  BY Seen DEF TlsWriter, Running
<1>2. ch[e].out \in Seq(EntryType)
  BY <1>1, Fields
<1>3. /\ Tail(ch[e].out) \in Seq(EntryType) /\ Head(ch[e].out) \in EntryType
      /\ 1 \in DOMAIN ch[e].out /\ Head(ch[e].out) = ch[e].out[1]
      /\ \A k \in DOMAIN Tail(ch[e].out) :
           k + 1 \in DOMAIN ch[e].out /\ Tail(ch[e].out)[k] = ch[e].out[k + 1]
  BY <1>1, <1>2, Taken
<1>4. Head(ch[e].out).age <= Age
  <2>1. Head(ch[e].out).age <= Waited(ch[o]) /\ Head(ch[e].out).age \in Nat
    BY <1>1, <1>3 DEF Awaits, EntryType
  <2>2. Waited(ch[o]) \in Nat /\ Waited(ch[o]) <= AckTicks
    BY <1>1, WaitedBound
  <2> QED BY <2>1, <2>2, TunnelBounds
<1>5. f \in FrameType /\ f.kind \in {"data", "heartbeat"}
  BY <1>1, <1>3 DEF Own, EntryType
<1>6. /\ ch' = [ch EXCEPT ![e] = c] /\ wire' = [wire EXCEPT ![e] = w]
      /\ said' = said /\ got' = got
  <2>1. ~(Head(ch[e].out).age > Age)
    BY <1>3, <1>4, TunnelBounds DEF EntryType
  <2>2. /\ Write(e, f) /\ ch' = [ch EXCEPT ![e].out = Tail(@)] /\ said' = said /\ got' = got
    BY <2>1 DEF TlsWriter
  <2> QED BY <2>2 DEF Write, TInv, TTypeOK
<1>7. PICK q \in Seq(EntryType) : q = Tail(ch[e].out)
  BY <1>3
<1>8. c = [ch[e] EXCEPT !.out = q]
  BY <1>7
<1> HIDE DEF c, f, o
<1>9. /\ c \in ChannelType /\ c.phase = "forward" /\ c.quiet = ch[e].quiet /\ c.beat = ch[e].beat
      /\ c.why = ch[e].why /\ c.inbox = ch[e].inbox /\ c.out = q /\ c.in = ch[e].in
  BY <1>1, <1>8 DEF ChannelType
<1>10. w \in Seq(FrameType) /\ w # <<>>
  BY <1>1, <1>5, Appended
<1>11. Own(c)
  <2>1. \A k \in DOMAIN c.out : c.out[k].frame.kind \in {"data", "heartbeat"}
    BY <1>1, <1>3, <1>7, <1>9 DEF Own
  <2> QED BY <1>1, <1>9, <2>1 DEF Own
<1>12. Awaits(c, ch[o], wire[o])
  <2>1. \A k \in DOMAIN c.out : c.out[k].age <= Waited(ch[o])
    BY <1>1, <1>3, <1>7, <1>9 DEF Awaits
  <2> QED BY <1>1, <1>9, <2>1 DEF Awaits
<1>13. Awaits(ch[o], c, w)
  BY <1>1, <1>9, <1>10 DEF Awaits, Waited
<1>14. Flow(got[o], said[e], ch[o], w, c)
  <2>1. Flow(got[o], said[e], ch[o], wire[e], ch[e])
    BY Seen DEF o
  <2>2. PICK F \in Seq(FrameType) : F = Frames(ch[e].out)
    BY <1>2, FramesOf
  <2>3. F # <<>> /\ Head(F) = f /\ Frames(c.out) = Tail(F)
    BY <1>1, <1>2, <1>7, <1>9, <2>2, FramesOf DEF f
  <2>4. CASE f.kind = "heartbeat"
    <3>1. \A a, b \in Nat : Carries(wire[e], a, b) => Carries(w, a, b)
      BY <1>1, <1>5, <2>4, WireKept
    <3>2. \A a, b \in Nat : Carries(F, a, b) => Carries(Frames(c.out), a, b)
      BY <2>3, <2>4, CarriesTail
    <3> QED BY <1>1, <1>9, <2>1, <2>2, <3>1, <3>2, FlowKept
  <2>5. CASE f.kind = "data"
    <3>1. PICK x, y, z \in Nat :
          /\ First(got[o], x) /\ x <= said[e]
          /\ ch[o].phase # "retired" =>
               /\ Carries(Frames(ch[o].in), x, y) /\ Carries(wire[e], y, z) /\ z <= said[e]
               /\ \E u \in Nat : Carries(F, z, u) /\ Carries(ch[e].inbox, u, said[e])
      BY <1>1, <2>1, <2>2 DEF Flow
    <3>2. CASE ch[o].phase # "retired"
      <4>1. PICK u \in Nat : Carries(F, z, u) /\ Carries(ch[e].inbox, u, said[e])
        BY <3>1, <3>2
      <4>2. f = Frame("data", z + 1) /\ z + 1 <= u /\ Carries(Frames(c.out), z + 1, u)
        BY <2>3, <2>5, <4>1, CarriesHead
      <4>3. f.n = z + 1
        BY <4>2 DEF Frame
      <4>4. Carries(w, y, z + 1)
        BY <1>1, <1>5, <2>5, <3>1, <3>2, <4>3, CarriesNext
      <4>5. u <= said[e]
        BY <4>1 DEF Carries
      <4>6. z + 1 <= said[e] /\ z + 1 \in Nat
        BY <1>1, <4>2, <4>5
      <4>7. Carries(c.inbox, u, said[e])
        BY <1>9, <4>1
      <4> HIDE DEF w
      <4> QED BY <3>1, <3>2, <4>2, <4>4, <4>6, <4>7 DEF Flow
    <3>3. CASE ch[o].phase = "retired"
      BY <3>1, <3>3 DEF Flow
    <3> QED BY <3>2, <3>3
  <2> QED BY <1>5, <2>4, <2>5
<1>15. Flow(got[e], said[o], c, wire[o], ch[o])
  <2>1. Flow(got[e], said[o], ch[e], wire[o], ch[o])
    BY Seen DEF o
  <2> QED BY <1>1, <1>9, <2>1, FlowKept
<1>16. Sealed(c.phase, w) /\ Sealed(ch[o].phase, wire[o])
  <2>1. Sealed("forward", wire[e])
    BY <1>1, Seen
  <2> QED BY <1>1, <1>5, <1>9, <2>1, SealedKept, Seen DEF o
<1>17. Shake(e, c.phase, ch[o].phase, w, wire[o])
  <2>1. Shake(e, "forward", ch[o].phase, wire[e], wire[o]) /\ wire[o] \in Seq(FrameType)
    BY <1>1, Seen DEF o
  <2> QED BY <1>1, <1>5, <1>9, <2>1, ShakeSame
<1>18. /\ got' = [got EXCEPT ![e] = got[e]] /\ got[e] \in Seq(FrameType)
       /\ said' = [said EXCEPT ![e] = said[e]]
       /\ wire' = [wire EXCEPT ![e] = w, ![o] = wire[o]] /\ wire[o] \in Seq(FrameType)
  BY <1>6, Same, Seen DEF o
<1> HIDE DEF w
<1> QED
  BY <1>1, <1>6, <1>9, <1>10, <1>11, <1>12, <1>13, <1>14, <1>15, <1>16, <1>17, <1>18, Stepped DEF o

\* A datagram or a heartbeat is read from the wire.
LEMMA ReadInv ==
  ASSUME TInv, NEW e \in Sides, ch[e].phase = "forward",
         wire[Other(e)] # <<>>, Head(wire[Other(e)]).kind # "EOF",
         NEW c \in ChannelType, ch' = [ch EXCEPT ![e] = c],
         wire' = [wire EXCEPT ![Other(e)] = Tail(wire[Other(e)])], said' = said, got' = got,
         c.phase = "forward", c.why = ch[e].why, c.inbox = ch[e].inbox, c.out = ch[e].out,
         c.beat = ch[e].beat, c.quiet = 0,
         \A k \in DOMAIN c.in : c.in[k].frame.kind = "data" /\ c.in[k].age = 0,
         \A x, y, z \in Nat : Carries(Frames(ch[e].in), x, y) /\ Carries(wire[Other(e)], y, z) =>
           \E t \in Nat : Carries(Frames(c.in), x, t) /\ Carries(Tail(wire[Other(e)]), t, z)
  PROVE  TInv'
<1> DEFINE o == Other(e)
           v == Tail(wire[o])
<1>1. /\ ch[e] \in ChannelType /\ Own(ch[e]) /\ ch[o] \in ChannelType /\ Own(ch[o])
      /\ Awaits(ch[e], ch[o], wire[o]) /\ Awaits(ch[o], ch[e], wire[e])
      /\ wire[o] \in Seq(FrameType) /\ wire[o] # <<>> /\ wire[e] \in Seq(FrameType)
  BY Seen
<1>2. v \in Seq(FrameType)
  BY <1>1
<1>3. Own(c)
  <2>1. 0 <= AckTicks + Beat
    BY TunnelBounds
  <2> QED BY <1>1, <2>1 DEF Own
<1>4. Awaits(c, ch[o], v)
  <2>1. Waited(ch[o]) \in Nat /\ ch[o].beat \in Nat
    BY <1>1, WaitedBound, Fields
  <2>2. 0 <= Waited(ch[o]) /\ 0 <= AckTicks + ch[o].beat
    BY <2>1, TunnelBounds
  <2> HIDE DEF o, v
  <2> QED BY <1>1, <2>2 DEF Awaits
<1>5. Awaits(ch[o], c, wire[e])
  <2> HIDE DEF o
  <2> QED BY <1>1 DEF Awaits, Waited
<1>6. Flow(got[o], said[e], ch[o], wire[e], c)
  <2>1. Flow(got[o], said[e], ch[o], wire[e], ch[e])
    BY Seen DEF o
  <2> HIDE DEF o
  <2> QED BY <2>1, FlowKept
<1>7. Flow(got[e], said[o], c, v, ch[o])
  <2>1. Flow(got[e], said[o], ch[e], wire[o], ch[o])
    BY Seen
  <2>2. \A x, y, z \in Nat : Carries(Frames(ch[e].in), x, y) /\ Carries(wire[o], y, z) =>
           \E t \in Nat : Carries(Frames(c.in), x, t) /\ Carries(v, t, z)
    OBVIOUS
  <2> HIDE DEF o, v
  <2>3. PICK x, y, z \in Nat :
          /\ First(got[e], x) /\ x <= said[o]
          /\ Carries(Frames(ch[e].in), x, y) /\ Carries(wire[o], y, z) /\ z <= said[o]
          /\ ch[o].phase # "retired" =>
               \E u \in Nat : Carries(Frames(ch[o].out), z, u) /\ Carries(ch[o].inbox, u, said[o])
    BY <2>1 DEF Flow
  <2>4. PICK t \in Nat : Carries(Frames(c.in), x, t) /\ Carries(v, t, z)
    BY <2>2, <2>3
  <2> QED BY <2>3, <2>4 DEF Flow
<1>8. Sealed(c.phase, wire[e]) /\ Sealed(ch[o].phase, v)
  <2>1. Sealed("forward", wire[e]) /\ Sealed(ch[o].phase, wire[o])
    BY Seen
  <2> QED BY <1>1, <2>1, SealedKept
<1>9. Shake(e, c.phase, ch[o].phase, wire[e], v)
  <2>1. Shake(e, "forward", ch[o].phase, wire[e], wire[o])
    BY Seen
  <2> QED BY <1>1, <2>1, ShakeSame
<1>10. /\ got' = [got EXCEPT ![e] = got[e]] /\ got[e] \in Seq(FrameType)
       /\ said' = [said EXCEPT ![e] = said[e]] /\ said[e] \in Nat
       /\ wire' = [wire EXCEPT ![e] = wire[e], ![o] = v]
  BY Same, Seen
<1> HIDE DEF v
<1> QED BY <1>1, <1>2, <1>3, <1>4, <1>5, <1>6, <1>7, <1>8, <1>9, <1>10, Stepped DEF o

LEMMA TlsReaderInv ==
  ASSUME TInv, NEW e \in Sides, TlsReader(e) PROVE TInv'
<1> DEFINE o == Other(e)
           f == Head(wire[o])
           b == [ch[e] EXCEPT !.quiet = 0, !.rx = @ - 1]
<1>1. /\ ch[e] \in ChannelType /\ Own(ch[e]) /\ ch[e].phase = "forward"
      /\ wire[o] \in Seq(FrameType) /\ wire[e] \in Seq(FrameType)
      /\ Shake(e, "forward", ch[o].phase, wire[e], wire[o]) /\ Sealed(ch[o].phase, wire[o])
  BY Seen DEF TlsReader, Running
<1>2. ch[e].rx \in Nat /\ ch[e].quiet \in Nat /\ ch[e].in \in Seq(EntryType)
  BY <1>1, Fields
<1>3. wire[o] # <<>>
  <2>1. ch[e].quiet <= AckTicks + Beat
    BY <1>1 DEF Own
  <2>2. ~(ch[e].quiet > Idle)
    BY <1>2, <2>1, TunnelBounds
  <2> QED BY <2>2 DEF TlsReader, Arrived
<1>4. /\ Tail(wire[o]) \in Seq(FrameType) /\ f \in FrameType /\ 1 \in DOMAIN wire[o] /\ f = wire[o][1]
  BY <1>1, <1>3, Taken
<1>5. f.kind \in {"EOF", "data", "heartbeat"}
  <2>1. f.kind \notin {"OPEN", "OPEN_ACK"}
    BY <1>1, <1>3, ShakeSame
  <2>2. f.kind # "foreign"
    BY <1>1, <1>4 DEF Sealed
  <2>3. f.kind \in Kinds
    BY <1>4 DEF FrameType
  <2> QED BY <2>1, <2>2, <2>3 DEF Kinds
<1>6. CASE f.kind = "EOF"
  <2>1. Ended(e, "tls_reader", "eof")
    BY <1>3, <1>6 DEF TlsReader, Arrived, Next1
  <2> QED BY <2>1, EndedInv DEF Whys, TaskNames
<1>7. CASE f.kind # "EOF" /\ ch[e].rx = 0
  <2>1. Ended(e, "tls_reader", "rx_rate")
    BY <1>3, <1>7 DEF TlsReader, Arrived, Next1
  <2> QED BY <2>1, EndedInv DEF Whys, TaskNames
<1>8. CASE f.kind = "heartbeat" /\ ch[e].rx # 0
  <2>1. /\ ch' = [ch EXCEPT ![e] = b] /\ wire' = [wire EXCEPT ![o] = Tail(wire[o])]
        /\ said' = said /\ got' = got
    BY <1>3, <1>8 DEF TlsReader, Arrived, Next1, Read
  <2>2. PICK t \in Nat : t = ch[e].rx - 1
    <3>1. ch[e].rx - 1 \in Nat
      BY <1>2, <1>8
    <3> QED BY <3>1
  <2>3. b = [ch[e] EXCEPT !.quiet = 0, !.rx = t]
    BY <2>2
  <2> HIDE DEF b
  <2>4. /\ b \in ChannelType /\ b.phase = "forward" /\ b.quiet = 0 /\ b.beat = ch[e].beat
        /\ b.why = ch[e].why /\ b.inbox = ch[e].inbox /\ b.out = ch[e].out /\ b.in = ch[e].in
    BY <1>1, <2>3 DEF ChannelType
  <2>5. \A k \in DOMAIN b.in : b.in[k].frame.kind = "data" /\ b.in[k].age = 0
    BY <1>1, <2>4 DEF Own
  <2>6. \A x, y, z \in Nat : Carries(Frames(ch[e].in), x, y) /\ Carries(wire[o], y, z) =>
           \E u \in Nat : Carries(Frames(b.in), x, u) /\ Carries(Tail(wire[o]), u, z)
    BY <1>1, <1>3, <1>8, <2>4, CarriesTail
  <2> QED BY <1>1, <1>3, <1>8, <2>1, <2>4, <2>5, <2>6, ReadInv
<1>9. CASE f.kind = "data" /\ ch[e].rx # 0 /\ Len(b["in"]) >= QCount
  <2>1. Ended(e, "tls_reader", "full")
    BY <1>3, <1>9 DEF TlsReader, Arrived, Next1, Put
  <2> QED BY <2>1, EndedInv DEF Whys, TaskNames
<1>10. CASE f.kind = "data" /\ ch[e].rx # 0 /\ ~(Len(b["in"]) >= QCount)
  <2> DEFINE c == [b EXCEPT !["in"] = Append(@, Entry(f))]
  <2>1. PICK t \in Nat : t = ch[e].rx - 1
    <3>1. ch[e].rx - 1 \in Nat
      BY <1>2, <1>10
    <3> QED BY <3>1
  <2>2. PICK q \in Seq(EntryType) : q = Append(ch[e].in, Entry(f))
    <3>1. Append(ch[e].in, Entry(f)) \in Seq(EntryType)
      <4> HIDE DEF f
      <4> QED BY <1>2, <1>4, EntryInType, Appended
    <3> QED BY <3>1
  <2>3. c = [ch[e] EXCEPT !.quiet = 0, !.rx = t, !.in = q]
    <3>1. PICK h \in ChannelType : h = ch[e]
      BY <1>1
    <3>2. c = [[h EXCEPT !.quiet = 0, !.rx = t] EXCEPT !["in"] = Append(@, Entry(f))]
      BY <2>1, <3>1
    <3>3. [h EXCEPT !.quiet = 0, !.rx = t].in = h.in
      BY DEF ChannelType
    <3> HIDE DEF c, f
    <3> QED BY <2>2, <3>1, <3>2, <3>3 DEF ChannelType
  <2>4. /\ ch' = [ch EXCEPT ![e] = c] /\ wire' = [wire EXCEPT ![o] = Tail(wire[o])]
        /\ said' = said /\ got' = got
    <3>1. Put(e, "in", f, b, "tls_reader") /\ (Len(b.in) < QCount => Read(e))
      BY <1>3, <1>10 DEF TlsReader, Arrived, Next1
    <3>2. b.in = ch[e].in /\ b["in"] = ch[e].in
      <4>1. PICK h \in ChannelType : h = ch[e]
        BY <1>1
      <4>2. b = [h EXCEPT !.quiet = 0, !.rx = t]
        BY <2>1, <4>1
      <4> HIDE DEF b
      <4> QED BY <4>1, <4>2 DEF ChannelType
    <3>3. Len(ch[e].in) \in Nat
      BY <1>2
    <3>4. Len(b.in) < QCount
      <4> HIDE DEF b
      <4> QED BY <1>10, <3>2, <3>3, TunnelBounds
    <3> QED BY <1>10, <3>1, <3>4 DEF Put, Read
  <2> HIDE DEF c, b, f
  <2>5. /\ c \in ChannelType /\ c.phase = "forward" /\ c.quiet = 0 /\ c.beat = ch[e].beat
        /\ c.why = ch[e].why /\ c.inbox = ch[e].inbox /\ c.out = ch[e].out /\ c.in = q
    BY <1>1, <2>3 DEF ChannelType
  <2>6. \A k \in DOMAIN c.in : c.in[k].frame.kind = "data" /\ c.in[k].age = 0
    <3>1. \A k \in DOMAIN q : q[k] = Entry(f) \/ (k \in DOMAIN ch[e].in /\ q[k] = ch[e].in[k])
      BY <1>2, <1>4, <2>2, EntryInType, Appended
    <3>2. Entry(f).frame.kind = "data" /\ Entry(f).age = 0
      BY <1>4, <1>10, EntryInType
    <3>3. \A k \in DOMAIN ch[e].in : ch[e].in[k].frame.kind = "data" /\ ch[e].in[k].age = 0
      BY <1>1 DEF Own
    <3> QED BY <2>5, <3>1, <3>2, <3>3
  <2>7. ASSUME NEW x \in Nat, NEW y \in Nat, NEW z \in Nat,
               Carries(Frames(ch[e].in), x, y), Carries(wire[o], y, z)
        PROVE  \E u \in Nat : Carries(Frames(c.in), x, u) /\ Carries(Tail(wire[o]), u, z)
    <3>1. f = Frame("data", y + 1) /\ Carries(Tail(wire[o]), y + 1, z)
      BY <1>1, <1>3, <1>10, <2>7, CarriesHead DEF f
    <3>2. f.n = y + 1
      BY <3>1 DEF Frame
    <3>3. Frames(c.in) = Append(Frames(ch[e].in), f) /\ Frames(ch[e].in) \in Seq(FrameType)
      BY <1>2, <1>4, <2>2, <2>5, FramesOf
    <3>4. Carries(Frames(c.in), x, y + 1)
      BY <1>4, <1>10, <2>7, <3>2, <3>3, CarriesNext
    <3> QED BY <3>1, <3>4
  <2>8. \A x, y, z \in Nat : Carries(Frames(ch[e].in), x, y) /\ Carries(wire[o], y, z) =>
           \E u \in Nat : Carries(Frames(c.in), x, u) /\ Carries(Tail(wire[o]), u, z)
    BY <2>7
  <2> QED BY <1>1, <1>3, <1>10, <2>4, <2>5, <2>6, <2>8, ReadInv DEF f
<1> QED BY <1>5, <1>6, <1>7, <1>8, <1>9, <1>10

\* The game's next datagram.
LEMMA FirstNext ==
  ASSUME NEW g \in Seq(FrameType), NEW x \in Nat, First(g, x), NEW f \in FrameType,
         f = Frame("data", x + 1)
  PROVE  First(Append(g, f), x + 1)
<1>1. PICK r \in Seq(FrameType) : r = Append(g, f)
  BY Appended
<1>2. Len(g) = x /\ DOMAIN g = 1..x /\ \A i \in DOMAIN g : g[i] = Frame("data", i)
  BY DEF First
<1>3. Len(r) = x + 1 /\ DOMAIN r = 1..(x + 1) /\ r[x + 1] = f /\ \A i \in 1..x : r[i] = g[i]
  BY <1>1, <1>2
<1>4. \A i \in DOMAIN r : r[i] = Frame("data", i)
  <2> SUFFICES ASSUME NEW i \in 1..(x + 1) PROVE r[i] = Frame("data", i)
    BY <1>3
  <2>1. CASE i = x + 1
    BY <1>3, <2>1
  <2>2. CASE i \in 1..x
    BY <1>2, <1>3, <2>2
  <2> QED BY <2>1, <2>2
<1>5. r = [i \in DOMAIN r |-> Frame("data", i)]
  BY <1>4
<1> QED BY <1>1, <1>3, <1>5 DEF First

LEMMA UdpWriterInv ==
  ASSUME TInv, NEW e \in Sides, UdpWriter(e) PROVE TInv'
<1> DEFINE o == Other(e)
           f == Head(ch[e].in).frame
           c == [ch[e] EXCEPT !.in = Tail(@)]
           g == Append(got[e], f)
<1>1. /\ ch[e] \in ChannelType /\ Own(ch[e]) /\ ch[e].phase = "forward" /\ ch[e].in # <<>>
      /\ got[e] \in Seq(FrameType) /\ said[o] \in Nat
      /\ Awaits(ch[e], ch[o], wire[o]) /\ Awaits(ch[o], ch[e], wire[e])
  BY Seen DEF UdpWriter, Running
<1>2. ch[e].in \in Seq(EntryType)
  BY <1>1, Fields
<1>3. /\ Tail(ch[e].in) \in Seq(EntryType) /\ Head(ch[e].in) \in EntryType
      /\ 1 \in DOMAIN ch[e].in /\ Head(ch[e].in) = ch[e].in[1]
      /\ \A k \in DOMAIN Tail(ch[e].in) :
           k + 1 \in DOMAIN ch[e].in /\ Tail(ch[e].in)[k] = ch[e].in[k + 1]
  BY <1>1, <1>2, Taken
<1>4. f \in FrameType /\ f.kind = "data" /\ ~(Head(ch[e].in).age > Age)
  <2>1. f.kind = "data" /\ Head(ch[e].in).age = 0
    BY <1>1, <1>3 DEF Own
  <2>2. f \in FrameType
    BY <1>3 DEF EntryType
  <2> QED BY <2>1, <2>2, TunnelBounds
<1>5. /\ ch' = [ch EXCEPT ![e] = c] /\ wire' = wire /\ said' = said
      /\ got' = [got EXCEPT ![e] = g]
  BY <1>4 DEF UdpWriter, TInv, TTypeOK
<1>6. PICK q \in Seq(EntryType) : q = Tail(ch[e].in)
  BY <1>3
<1>7. c = [ch[e] EXCEPT !.in = q]
  BY <1>6
<1> HIDE DEF c, f, o
<1>8. /\ c \in ChannelType /\ c.phase = "forward" /\ c.quiet = ch[e].quiet /\ c.beat = ch[e].beat
      /\ c.why = ch[e].why /\ c.inbox = ch[e].inbox /\ c.out = ch[e].out /\ c.in = q
  BY <1>1, <1>7 DEF ChannelType
<1>9. g \in Seq(FrameType)
  BY <1>1, <1>4, Appended
<1>10. Own(c)
  <2>1. \A k \in DOMAIN c.in : c.in[k].frame.kind = "data" /\ c.in[k].age = 0
    BY <1>1, <1>3, <1>6, <1>8 DEF Own
  <2> QED BY <1>1, <1>8, <2>1 DEF Own
<1>11. Awaits(c, ch[o], wire[o]) /\ Awaits(ch[o], c, wire[e])
  BY <1>1, <1>8 DEF Awaits, Waited
<1>12. Flow(got[o], said[e], ch[o], wire[e], c)
  <2>1. Flow(got[o], said[e], ch[o], wire[e], ch[e])
    BY Seen DEF o
  <2> QED BY <1>1, <1>8, <2>1, FlowKept
<1>13. Flow(g, said[o], c, wire[o], ch[o])
  <2>1. Flow(got[e], said[o], ch[e], wire[o], ch[o])
    BY Seen DEF o
  <2>2. PICK x, y, z \in Nat :
          /\ First(got[e], x) /\ x <= said[o]
          /\ Carries(Frames(ch[e].in), x, y) /\ Carries(wire[o], y, z) /\ z <= said[o]
          /\ ch[o].phase # "retired" =>
               \E u \in Nat : Carries(Frames(ch[o].out), z, u) /\ Carries(ch[o].inbox, u, said[o])
    BY <1>1, <2>1 DEF Flow
  <2>3. PICK F \in Seq(FrameType) : F = Frames(ch[e].in)
    BY <1>2, FramesOf
  <2>4. F # <<>> /\ Head(F) = f /\ Frames(c.in) = Tail(F)
    BY <1>1, <1>2, <1>6, <1>8, <2>3, FramesOf DEF f
  <2>5. f = Frame("data", x + 1) /\ x + 1 <= y /\ Carries(Frames(c.in), x + 1, y)
    BY <1>4, <2>2, <2>3, <2>4, CarriesHead
  <2>6. y <= z
    BY <2>2 DEF Carries
  <2>7. x + 1 <= said[o] /\ x + 1 \in Nat
    BY <1>1, <2>2, <2>5, <2>6
  <2>8. First(g, x + 1)
    BY <1>1, <1>4, <2>2, <2>5, FirstNext
  <2> HIDE DEF g
  <2> QED BY <1>8, <2>2, <2>5, <2>7, <2>8 DEF Flow
<1>14. /\ Sealed(c.phase, wire[e]) /\ Sealed(ch[o].phase, wire[o])
       /\ Shake(e, c.phase, ch[o].phase, wire[e], wire[o])
  BY <1>1, <1>8, Seen DEF o
<1>15. /\ said' = [said EXCEPT ![e] = said[e]] /\ said[e] \in Nat
       /\ wire' = [wire EXCEPT ![e] = wire[e], ![o] = wire[o]]
       /\ wire[e] \in Seq(FrameType) /\ wire[o] \in Seq(FrameType)
  BY <1>5, Same, Seen DEF o
<1> HIDE DEF g
<1> QED BY <1>5, <1>8, <1>9, <1>10, <1>11, <1>12, <1>13, <1>14, <1>15, Stepped DEF o

-----------------------------------------------------------------------------
(* A tick                                                                  *)

LEMMA UpToBound ==
  ASSUME NEW n \in Nat, NEW l \in Nat
  PROVE  UpTo(n, l) \in Nat /\ UpTo(n, l) <= n /\ (n <= l => UpTo(n, l) = n)
  BY DEF UpTo

LEMMA AgedQueue ==
  ASSUME NEW q \in Seq(EntryType)
  PROVE  /\ Aged(q) \in Seq(EntryType) /\ DOMAIN Aged(q) = DOMAIN q
         /\ \A k \in DOMAIN q : /\ Aged(q)[k].frame = q[k].frame /\ q[k].age \in Nat
                                /\ Aged(q)[k].age \in Nat /\ Aged(q)[k].age <= q[k].age + 1
         /\ q = <<>> => Aged(q) = <<>>
<1>1. Len(q) \in Nat /\ DOMAIN q = 1..Len(q) /\ \A k \in 1..Len(q) : q[k] \in EntryType
  OBVIOUS
<1>2. Age + 1 \in Nat
  BY TunnelBounds
<1>3. ASSUME NEW k \in 1..Len(q)
      PROVE  /\ [q[k] EXCEPT !.age = UpTo(@ + 1, Age + 1)] \in EntryType
             /\ [q[k] EXCEPT !.age = UpTo(@ + 1, Age + 1)].frame = q[k].frame
             /\ q[k].age \in Nat
             /\ [q[k] EXCEPT !.age = UpTo(@ + 1, Age + 1)].age <= q[k].age + 1
             /\ [q[k] EXCEPT !.age = UpTo(@ + 1, Age + 1)].age \in Nat
  <2>1. PICK x \in EntryType : x = q[k]
    BY <1>1, <1>3
  <2>2. x.age \in Nat /\ x.age + 1 \in Nat
    BY DEF EntryType
  <2>3. PICK a \in Nat : a = UpTo(x.age + 1, Age + 1) /\ a <= x.age + 1
    BY <1>2, <2>2, UpToBound
  <2>4. [x EXCEPT !.age = a] \in EntryType /\ [x EXCEPT !.age = a].frame = x.frame
        /\ [x EXCEPT !.age = a].age = a
    BY DEF EntryType
  <2> QED BY <2>1, <2>2, <2>3, <2>4
<1>4. Aged(q) = [k \in 1..Len(q) |-> [q[k] EXCEPT !.age = UpTo(@ + 1, Age + 1)]]
  BY <1>1 DEF Aged
<1>5. /\ DOMAIN Aged(q) = DOMAIN q /\ Aged(q) \in Seq(EntryType)
      /\ Len(Aged(q)) = Len(q)
  BY <1>1, <1>3, <1>4
<1>6. \A k \in DOMAIN q : /\ Aged(q)[k].frame = q[k].frame /\ q[k].age \in Nat
                           /\ Aged(q)[k].age \in Nat /\ Aged(q)[k].age <= q[k].age + 1
  BY <1>1, <1>3, <1>4
<1>7. q = <<>> => Aged(q) = <<>>
  BY <1>5
<1> QED BY <1>5, <1>6, <1>7

LEMMA OlderChannel ==
  ASSUME NEW c \in ChannelType
  PROVE  /\ Older(c) \in ChannelType /\ Older(c).phase = c.phase /\ Older(c).why = c.why
         /\ Older(c).inbox = c.inbox
         /\ c.phase = "retired" => Older(c) = c
         /\ c.phase # "retired" =>
              /\ Older(c).out = Aged(c.out) /\ Older(c).in = Aged(c.in)
              /\ Older(c).quiet <= c.quiet + 1 /\ (c.quiet <= Idle => Older(c).quiet = c.quiet + 1)
         /\ c.phase = "forward" /\ c.beat <= Idle + Beat => Older(c).beat = c.beat + 1
<1>1. CASE c.phase = "retired"
  BY <1>1 DEF Older
<1>2. CASE c.phase # "retired"
  <2>1. /\ c.out \in Seq(EntryType) /\ c.in \in Seq(EntryType) /\ c.quiet \in Nat
        /\ c.beat \in Nat /\ c.tx \in Nat /\ c.rx \in Nat
    BY Fields
  <2>2. /\ Idle + 1 \in Nat /\ Idle + Beat + 1 \in Nat /\ Burst \in Nat /\ Refill \in Nat
        /\ Idle \in Nat /\ Beat \in Nat
    BY TunnelBounds
  <2>3. PICK a \in Seq(EntryType), b \in Seq(EntryType) : a = Aged(c.out) /\ b = Aged(c.in)
    BY <2>1, AgedQueue
  <2>4. PICK q \in Nat : /\ q = UpTo(c.quiet + 1, Idle + 1) /\ q <= c.quiet + 1
                         /\ c.quiet <= Idle => q = c.quiet + 1
    <3>1. c.quiet + 1 \in Nat /\ (c.quiet <= Idle => c.quiet + 1 <= Idle + 1)
      BY <2>1, <2>2
    <3>2. /\ UpTo(c.quiet + 1, Idle + 1) \in Nat /\ UpTo(c.quiet + 1, Idle + 1) <= c.quiet + 1
          /\ c.quiet + 1 <= Idle + 1 => UpTo(c.quiet + 1, Idle + 1) = c.quiet + 1
      BY <2>2, <3>1, UpToBound
    <3> QED BY <3>1, <3>2
  <2>5. PICK t \in Nat : /\ t = IF c.phase = "forward" THEN UpTo(c.beat + 1, Idle + Beat + 1) ELSE 0
                         /\ c.phase = "forward" /\ c.beat <= Idle + Beat => t = c.beat + 1
    <3>1. /\ UpTo(c.beat + 1, Idle + Beat + 1) \in Nat
          /\ c.beat <= Idle + Beat => UpTo(c.beat + 1, Idle + Beat + 1) = c.beat + 1
      <4>1. c.beat + 1 \in Nat /\ (c.beat <= Idle + Beat => c.beat + 1 <= Idle + Beat + 1)
        BY <2>1, <2>2
      <4> QED BY <2>2, <4>1, UpToBound
    <3> QED BY <3>1
  <2>6. PICK x \in Nat, y \in Nat : x = UpTo(c.tx + Refill, Burst) /\ y = UpTo(c.rx + Refill, Burst)
    <3>1. c.tx + Refill \in Nat /\ c.rx + Refill \in Nat
      BY <2>1, <2>2
    <3> QED BY <2>2, <3>1, UpToBound
  <2>7. Older(c) = [c EXCEPT !.out = a, !.in = b, !.quiet = q, !.beat = t, !.tx = x, !.rx = y]
    BY <1>2, <2>3, <2>4, <2>5, <2>6 DEF Older
  <2>8. /\ Older(c) \in ChannelType /\ Older(c).phase = c.phase /\ Older(c).why = c.why
        /\ Older(c).inbox = c.inbox /\ Older(c).out = a /\ Older(c).in = b
        /\ Older(c).quiet = q /\ Older(c).beat = t
    <3>1. PICK m : m = [c EXCEPT !.out = a, !.in = b, !.quiet = q]
      OBVIOUS
    <3>2. /\ m \in ChannelType /\ m.phase = c.phase /\ m.why = c.why /\ m.inbox = c.inbox
          /\ m.out = a /\ m.in = b /\ m.quiet = q
      BY <3>1 DEF ChannelType
    <3>3. Older(c) = [m EXCEPT !.beat = t, !.tx = x, !.rx = y]
      BY <2>7, <3>1
    <3> QED BY <3>2, <3>3 DEF ChannelType
  <2> QED BY <1>2, <2>3, <2>4, <2>5, <2>8
<1> QED BY <1>1, <1>2

\* When nothing can run both ends are up or gone, and an end that forwards only waits
\* for the other: its wire is empty and it has written all it has, or the other
\* waits for its supervisor.
LEMMA NothingRuns ==
  ASSUME TInv, \A s \in Sides : ~Ready(s), NEW e \in Sides
  PROVE  /\ ch[e].phase \in {"wait", "forward", "retired"}
         /\ ch[e].phase = "wait" => ch[e].quiet + 1 <= AckTicks
         /\ ch[e].phase = "forward" =>
              /\ ch[Other(e)].phase \in {"wait", "forward"} /\ wire[Other(e)] = <<>>
              /\ ch[e].in = <<>> /\ ch[e].beat + 1 <= Beat
              /\ ch[Other(e)].phase = "forward" => ch[e].out = <<>>
<1> DEFINE sp == ch["server"].phase
           cp == ch["client"].phase
<1>1. Handshake(sp, cp, wire["server"], wire["client"])
  BY DEF TInv
<1>2. "server" \in Sides /\ "client" \in Sides /\ Other("server") = "client" /\ Other("client") = "server"
  BY DEF Sides, Other
<1>3. sp # "new"
  BY <1>2 DEF Ready
<1>4. cp # "new"
  <2>1. cp = "new" => wire["server"] = <<>>
    BY <1>2 DEF Ready, Arrived
  <2> QED BY <1>1, <1>3, <2>1 DEF Handshake
<1>5. sp # "opening" /\ cp # "opening"
  <2>1. sp = "opening" => wire["client"] = <<>>
    BY <1>2 DEF Ready, Arrived
  <2> QED BY <1>1, <1>4, <2>1 DEF Handshake
<1>6. \A s \in Sides : ch[s].phase \in {"wait", "forward", "retired"}
  <2>1. \A s \in Sides : ch[s].phase \in {"new", "opening", "wait", "forward", "retired"}
    BY DEF TInv, TTypeOK, ChannelType
  <2> QED BY <1>3, <1>4, <1>5, <2>1 DEF Sides
<1>7. Other(e) \in Sides /\ Other(Other(e)) = e
  BY OtherEnd
<1>8. ch[e] \in ChannelType /\ ch[Other(e)] \in ChannelType
      /\ wire[Other(e)] \in Seq(FrameType) /\ Sealed(ch[Other(e)].phase, wire[Other(e)])
  BY Seen
<1>9. ch[e].quiet \in Nat /\ ch[e].beat \in Nat
  BY <1>8, Fields
<1>10. ch[e].phase = "wait" => ch[e].quiet + 1 <= AckTicks
  <2>1. ch[e].phase = "wait" => ~(ch[e].quiet >= AckTicks)
    BY DEF Ready
  <2> QED BY <1>9, <2>1, TunnelBounds
<1>11. ASSUME ch[e].phase = "forward"
       PROVE  /\ ch[Other(e)].phase \in {"wait", "forward"} /\ wire[Other(e)] = <<>>
              /\ ch[e].in = <<>> /\ ch[e].beat + 1 <= Beat
              /\ ch[Other(e)].phase = "forward" => ch[e].out = <<>>
  <2>1. ch[e].in = <<>> /\ wire[Other(e)] = <<>> /\ ~(ch[e].beat >= Beat)
    BY <1>11 DEF Ready, Arrived, BeatDue
  <2>2. ch[e].beat + 1 <= Beat
    BY <1>9, <2>1, TunnelBounds
  <2>3. ch[Other(e)].phase # "retired"
    <3>1. DOMAIN <<>> = {}
      OBVIOUS
    <3> QED BY <1>8, <2>1, <3>1 DEF Sealed
  <2>4. ASSUME ch[Other(e)].phase = "forward" PROVE ch[e].out = <<>>
    <3>1. wire[e] = <<>>
      BY <1>7, <2>4 DEF Ready, Arrived
    <3>2. Len(wire[e]) < WireMax
      BY <3>1, TunnelBounds
    <3> QED BY <1>11, <3>2 DEF Ready
  <2> QED BY <1>6, <1>7, <2>1, <2>2, <2>3, <2>4
<1> QED BY <1>6, <1>10, <1>11

LEMMA TickInv ==
  ASSUME TInv, Tick PROVE TInv'
<1>1. /\ \A s \in Sides : ~Ready(s)
      /\ ch' = [s \in Sides |-> Older(ch[s])]
      /\ wire' = wire /\ said' = said /\ got' = got
  BY DEF Tick
<1>2. ch \in [Sides -> ChannelType]
  BY DEF TInv, TTypeOK
<1>3. \A s \in Sides : ch'[s] = Older(ch[s])
  BY <1>1
<1>4. TTypeOK'
  <2>1. ch' \in [Sides -> ChannelType]
    <3>1. \A s \in Sides : Older(ch[s]) \in ChannelType
      BY <1>2, OlderChannel
    <3> QED BY <1>1, <3>1
  <2> QED BY <1>1, <2>1 DEF TInv, TTypeOK
<1>5. \A s \in Sides : ch'[s].phase = ch[s].phase
  BY <1>2, <1>3, OlderChannel
<1>6. Handshake(ch'["server"].phase, ch'["client"].phase, wire'["server"], wire'["client"])
  BY <1>1, <1>5 DEF TInv, Sides
<1>7. ASSUME NEW e \in Sides
      PROVE  /\ Own(ch'[e]) /\ Sealed(ch'[e].phase, wire'[e])
             /\ Awaits(ch'[e], ch'[Other(e)], wire'[Other(e)])
             /\ Flow(got'[Other(e)], said'[e], ch'[Other(e)], wire'[e], ch'[e])
  <2>1. Other(e) \in Sides /\ Other(Other(e)) = e
    BY OtherEnd
  <2>2. PICK c, d, v : c = ch[e] /\ d = ch[Other(e)] /\ v = wire[Other(e)]
    OBVIOUS
  <2>3. c \in ChannelType /\ d \in ChannelType /\ Own(c) /\ Own(d) /\ Awaits(c, d, v)
    BY <2>2, Seen
  <2>4. /\ c.phase \in {"wait", "forward", "retired"} /\ d.phase \in {"wait", "forward", "retired"}
        /\ c.phase = "wait" => c.quiet + 1 <= AckTicks
        /\ d.phase = "wait" => d.quiet + 1 <= AckTicks
        /\ c.phase = "forward" =>
              /\ d.phase \in {"wait", "forward"} /\ v = <<>> /\ c.in = <<>> /\ c.beat + 1 <= Beat
              /\ d.phase = "forward" => c.out = <<>>
        /\ d.phase = "forward" /\ c.phase = "forward" => d.out = <<>> /\ d.beat + 1 <= Beat
    BY <1>1, <2>1, <2>2, NothingRuns
  <2>5. /\ c.quiet \in Nat /\ d.quiet \in Nat /\ c.beat \in Nat /\ d.beat \in Nat
        /\ c.out \in Seq(EntryType) /\ c.in \in Seq(EntryType)
        /\ d.out \in Seq(EntryType) /\ d.in \in Seq(EntryType)
    BY <2>3, Fields
  <2>6. PICK c2, d2 : c2 = Older(c) /\ d2 = Older(d)
    OBVIOUS
  <2>7. /\ c2 \in ChannelType /\ c2.phase = c.phase /\ c2.why = c.why /\ c2.inbox = c.inbox
        /\ c.phase = "retired" => c2 = c
        /\ c.phase # "retired" =>
              /\ c2.out = Aged(c.out) /\ c2.in = Aged(c.in)
              /\ c2.quiet <= c.quiet + 1
        /\ c.phase = "forward" /\ c.beat <= Idle + Beat => c2.beat = c.beat + 1
    BY <2>3, <2>6, OlderChannel
  <2>8. /\ d2 \in ChannelType /\ d2.phase = d.phase /\ d2.inbox = d.inbox
        /\ d.phase = "retired" => d2 = d
        /\ d.phase # "retired" =>
              /\ d2.out = Aged(d.out) /\ d2.in = Aged(d.in)
              /\ d.quiet <= Idle => d2.quiet = d.quiet + 1
        /\ d.phase = "forward" /\ d.beat <= Idle + Beat => d2.beat = d.beat + 1
    BY <2>3, <2>6, OlderChannel
  <2>9. c2.quiet \in Nat /\ d2.quiet \in Nat /\ c2.beat \in Nat /\ d2.beat \in Nat
    BY <2>7, <2>8, Fields
  <2>10. /\ AckTicks \in Nat /\ Beat \in Nat /\ Idle \in Nat /\ AckTicks + Beat < Idle
    BY TunnelBounds
  <2>11. c.phase # "forward" => c2.out = <<>> /\ c2.in = <<>>
    <3>1. c.phase # "forward" => c.out = <<>> /\ c.in = <<>>
      BY <2>3 DEF Own
    <3> QED BY <2>5, <2>7, <3>1, AgedQueue
  <2>12. c.phase = "forward" =>
           /\ c2.in = <<>> /\ c2.beat = c.beat + 1 /\ c2.out = Aged(c.out)
           /\ d.phase = "forward" => c2.out = <<>>
    <3>1. c.beat + 1 <= Beat => c.beat <= Idle + Beat
      BY <2>5, <2>10
    <3> QED BY <2>4, <2>5, <2>7, <3>1, AgedQueue
  <2>13. c.phase = "forward" /\ d.phase = "wait" =>
           c2.quiet <= d.quiet + 1 /\ d2.quiet = d.quiet + 1 /\ d.quiet + 1 <= AckTicks
    <3>1. c.phase = "forward" /\ d.phase = "wait" => c.quiet <= d.quiet
      BY <2>3 DEF Awaits, Waited
    <3>2. d.quiet + 1 <= AckTicks => d.quiet <= Idle
      BY <2>5, <2>10
    <3>3. c.quiet <= d.quiet /\ c2.quiet <= c.quiet + 1 => c2.quiet <= d.quiet + 1
      BY <2>5, <2>9
    <3> QED BY <2>4, <2>7, <2>8, <3>1, <3>2, <3>3
  <2>14. c.phase = "forward" /\ d.phase = "forward" =>
           c2.quiet <= AckTicks + d2.beat /\ d2.beat = d.beat + 1 /\ d2.beat <= Beat
    <3>1. c.phase = "forward" /\ d.phase = "forward" => c.quiet <= AckTicks + d.beat
      BY <2>3, <2>4 DEF Awaits
    <3>2. d.beat + 1 <= Beat => d.beat <= Idle + Beat
      BY <2>5, <2>10
    <3>3. c.quiet <= AckTicks + d.beat /\ c2.quiet <= c.quiet + 1 => c2.quiet <= AckTicks + (d.beat + 1)
      <4>1. \A a, b, m, n \in Nat : m <= a + b /\ n <= m + 1 => n <= a + (b + 1)
        OBVIOUS
      <4> QED BY <2>5, <2>9, <2>10, <4>1
    <3> QED BY <2>4, <2>7, <2>8, <3>1, <3>2, <3>3
  <2>15. c.phase = "forward" => c2.quiet <= AckTicks + Beat
    <3>1. c2.quiet <= d.quiet + 1 /\ d.quiet + 1 <= AckTicks => c2.quiet <= AckTicks + Beat
      BY <2>5, <2>9, <2>10
    <3>2. c2.quiet <= AckTicks + d2.beat /\ d2.beat <= Beat => c2.quiet <= AckTicks + Beat
      BY <2>9, <2>10
    <3> QED BY <2>4, <2>13, <2>14, <3>1, <3>2
  <2>16. Own(c2)
    <3>1. \A k \in DOMAIN c2.inbox : c2.inbox[k].kind \in {"data", "foreign"}
      BY <2>3, <2>7 DEF Own
    <3>2. \A k \in DOMAIN c2.out : c2.out[k].frame.kind \in {"data", "heartbeat"}
      <4>1. CASE c.phase = "forward"
        <5>1. \A k \in DOMAIN c2.out : k \in DOMAIN c.out /\ c2.out[k].frame = c.out[k].frame
          BY <2>5, <2>12, <4>1, AgedQueue
        <5>2. \A k \in DOMAIN c.out : c.out[k].frame.kind \in {"data", "heartbeat"}
          BY <2>3 DEF Own
        <5> QED BY <5>1, <5>2
      <4>2. CASE c.phase # "forward"
        BY <2>11, <4>2
      <4> QED BY <4>1, <4>2
    <3>3. c2.in = <<>>
      BY <2>11, <2>12
    <3>4. c.phase = "wait" => c2.quiet <= AckTicks
      <4>1. c.quiet + 1 <= AckTicks /\ c2.quiet <= c.quiet + 1 => c2.quiet <= AckTicks
        BY <2>5, <2>9, <2>10
      <4> QED BY <2>4, <2>7, <4>1
    <3>5. c2.why \notin {"idle", "expired", "deadline"}
      BY <2>3, <2>7 DEF Own
    <3> QED BY <2>4, <2>7, <2>11, <2>12, <2>15, <3>1, <3>2, <3>3, <3>4, <3>5 DEF Own
  <2>17. Awaits(c2, d2, v)
    <3>1. \A k \in DOMAIN c2.out : c2.out[k].age <= Waited(d2)
      <4>1. CASE c.phase = "forward" /\ d.phase = "wait"
        <5>1. Waited(d2) = d.quiet + 1 /\ Waited(d) = d.quiet
          BY <2>8, <2>13, <4>1 DEF Waited
        <5>2. ASSUME NEW k \in DOMAIN c2.out PROVE c2.out[k].age <= d.quiet + 1
          <6>1. k \in DOMAIN c.out /\ c2.out[k].age <= c.out[k].age + 1
                /\ c2.out[k].age \in Nat /\ c.out[k].age \in Nat
            BY <2>5, <2>12, <4>1, <5>2, AgedQueue
          <6>2. c.out[k].age <= d.quiet
            BY <2>3, <5>1, <6>1 DEF Awaits
          <6>3. \A a, b, m \in Nat : a <= b + 1 /\ b <= m => a <= m + 1
            OBVIOUS
          <6> QED BY <2>5, <6>1, <6>2, <6>3
        <5> QED BY <5>1, <5>2
      <4>2. CASE ~(c.phase = "forward" /\ d.phase = "wait")
        BY <2>4, <2>11, <2>12, <4>2
      <4> QED BY <4>1, <4>2
    <3>2. c2.phase = "forward" /\ d2.phase \in {"new", "opening", "wait"} => c2.quiet <= Waited(d2)
      BY <2>4, <2>7, <2>8, <2>13 DEF Waited
    <3>3. c2.phase = "forward" /\ d2.phase = "forward" => c2.quiet <= AckTicks + d2.beat
      BY <2>7, <2>8, <2>14
    <3> QED BY <3>1, <3>2, <3>3 DEF Awaits
  <2>18. Flow(got[Other(e)], said[e], d2, wire[e], c2)
    <3>1. Flow(got[Other(e)], said[e], d, wire[e], c)
      BY <2>2, Seen
    <3>2. Frames(d2.in) = Frames(d.in) /\ Frames(c2.out) = Frames(c.out)
      BY <2>5, <2>7, <2>8, FramesOf
    <3> QED BY <2>7, <2>8, <3>1, <3>2, FlowKept
  <2>19. ch'[e] = c2 /\ ch'[Other(e)] = d2
    BY <1>3, <2>1, <2>2, <2>6
  <2>20. Sealed(c2.phase, wire[e])
    BY <2>2, <2>7, Seen
  <2> QED BY <1>1, <2>2, <2>16, <2>17, <2>18, <2>19, <2>20
<1> QED BY <1>4, <1>6, <1>7 DEF TInv

-----------------------------------------------------------------------------
(* Theorems                                                                *)

LEMMA TunnelStart == TInit => TInv
<1> SUFFICES ASSUME TInit PROVE TInv
  OBVIOUS
<1>1. /\ ch = [e \in Sides |-> NewChannel] /\ wire = [e \in Sides |-> <<>>]
      /\ said = [e \in Sides |-> 0] /\ got = [e \in Sides |-> <<>>]
  BY DEF TInit
<1>2. TTypeOK
  <2>1. <<>> \in Seq(FrameType)
    OBVIOUS
  <2> QED BY <1>1, <2>1, NewChannelType DEF TTypeOK
<1>3. PICK N : N = NewChannel
  OBVIOUS
<1>4. /\ N.phase = "new" /\ N.why = "none" /\ N.inbox = <<>> /\ N.out = <<>> /\ N.in = <<>>
      /\ N.quiet = 0
  BY <1>3 DEF NewChannel
<1>5. \A e \in Sides : Other(e) \in Sides
  BY OtherEnd
<1>6. \A e \in Sides : ch[e] = N /\ wire[e] = <<>> /\ said[e] = 0 /\ got[e] = <<>>
  BY <1>1, <1>3
<1>7. Handshake(N.phase, N.phase, <<>>, <<>>)
  BY <1>4 DEF Handshake
<1>8. Own(N) /\ Sealed(N.phase, <<>>) /\ Awaits(N, N, <<>>)
  BY <1>4 DEF Own, Sealed, Awaits
<1>9. Flow(<<>>, 0, N, <<>>, N)
  <2>1. First(<<>>, 0)
    BY DEF First
  <2>2. Carries(<<>>, 0, 0) /\ 0 \in Nat /\ 0 <= 0
    BY CarriesNone
  <2>3. Frames(N.in) = <<>> /\ Frames(N.out) = <<>>
    BY <1>4, NoFrames
  <2> QED BY <1>4, <2>1, <2>2, <2>3 DEF Flow
<1> QED BY <1>2, <1>5, <1>6, <1>7, <1>8, <1>9 DEF TInv, Sides

\* Nothing happens.
LEMMA TunnelStutter == TInv /\ UNCHANGED tvars => TInv'
<1> SUFFICES ASSUME TInv, UNCHANGED tvars PROVE TInv'
  OBVIOUS
<1>1. ch' = ch /\ wire' = wire /\ said' = said /\ got' = got
  BY DEF tvars
<1> QED BY <1>1 DEF TInv, TTypeOK

\* The tunnel's invariant: the two channels come up in step, every datagram between
\* the games is in exactly one place of its direction and in order, and no silence or
\* wait exceeds what the other end's supervisor and heartbeat explain.
THEOREM TunnelInvariant == TSpec => []TInv
<1>1. TInv /\ [TNext]_tvars => TInv'
  <2> SUFFICES ASSUME TInv, [TNext]_tvars PROVE TInv'
    OBVIOUS
  <2>1. CASE Tick
    BY <2>1, TickInv
  <2>2. ASSUME NEW e \in Sides,
               \/ Tasks(e) \/ RouteAck(e) \/ RouteClose(e) \/ Shutdown(e)
               \/ GameSends(e) \/ ForeignSends(e) \/ Stall(e)
        PROVE  TInv'
    <3>1. CASE Tasks(e)
      BY <3>1, OpenInv, ConnectInv, OpenAckedInv, OpeningFailsInv, UdpReaderInv, TlsWriterInv,
         TlsReaderInv, UdpWriterInv, HeartbeatTaskInv, CancelInv DEF Tasks
    <3>2. CASE RouteAck(e) \/ RouteClose(e) \/ Shutdown(e)
      BY <3>2, RouteAckInv, RouteCloseInv, ShutdownInv
    <3>3. CASE GameSends(e) \/ ForeignSends(e) \/ Stall(e)
      BY <3>3, GameSendsInv, ForeignSendsInv, StallInv
    <3> QED BY <2>2, <3>1, <3>2, <3>3
  <2>3. CASE UNCHANGED tvars
    BY <2>3, TunnelStutter
  <2> QED BY <2>1, <2>2, <2>3 DEF TNext
<1> QED BY <1>1, TunnelStart, PTL DEF TSpec

\* forward() is faithful: a game receives the other game's datagrams in order, each
\* once and none missing, and nothing that anybody else left in the socket, whatever
\* stalls, limits and closes cut the tunnel and when.
THEOREM TunnelFaithful == TSpec => []Faithful
<1>1. TInv => Faithful
  <2> SUFFICES ASSUME TInv, NEW e \in Sides
               PROVE  /\ got[e] = [i \in DOMAIN got[e] |-> Frame("data", i)]
                      /\ Len(got[e]) <= said[Other(e)]
    BY DEF Faithful
  <2>1. Flow(got[e], said[Other(e)], ch[e], wire[Other(e)], ch[Other(e)])
    BY Seen
  <2>2. PICK x \in Nat : First(got[e], x) /\ x <= said[Other(e)]
    BY <2>1 DEF Flow
  <2> QED BY <2>2 DEF First
<1> QED BY <1>1, TunnelInvariant, PTL

\* No deadline of a channel passes unless something stalls: heartbeats keep read_frame
\* from being idle, no entry expires and ROUTE_ACK is in time.
THEOREM TunnelStaysUp == TSpec => []HealthyStaysUp
<1>1. TInv => HealthyStaysUp
  BY DEF TInv, Own, HealthyStaysUp
<1> QED BY <1>1, TunnelInvariant, PTL
=============================================================================
