---------------------------- MODULE ArenaProofs ----------------------------
(***************************************************************************)
(* Theorems about the match server of module Arena, for any number of      *)
(* peers, names and ticks and any limits.                                  *)
(***************************************************************************)
EXTENDS Arena, TLAPS

\* Between two ticks no pawn is waiting for its turn, and within one the pawns
\* that still wait are of a match that has not been won.
TicksApart == /\ stage = "idle" => turn = <<>>
              /\ turn # <<>> => phase = "IN_MATCH"

\* A pulse that an input still holds is one that the simulation has not had.
PulsesKept == twice = {} /\ \A i \in Ids : inputs[i].pulse \subseteq due[i]

AInv == ATypeOK /\ DictionariesAgree /\ OneWinner /\ TicksApart /\ PulsesKept
-----------------------------------------------------------------------------
(* Sequences of distinct keys                                              *)

\* Erasing a key leaves the others, each once.
LEMMA WithoutKey ==
  ASSUME NEW S, NEW s \in Seq(S), IsInjective(s), NEW i
  PROVE  /\ Without(s, i) \in Seq(S)
         /\ ToSet(Without(s, i)) = ToSet(s) \ {i}
         /\ IsInjective(Without(s, i))
<1>1. CASE ~\E k \in DOMAIN s : s[k] = i
  BY <1>1 DEF Without, ToSet
<1>2. CASE \E k \in DOMAIN s : s[k] = i
  <2> DEFINE k == CHOOSE x \in DOMAIN s : s[x] = i
             n == Len(s)
             w == Without(s, i)
             f == SubSeq(s, 1, k - 1)
             g == SubSeq(s, k + 1, n)
  <2>1. k \in 1..n /\ s[k] = i
    BY <1>2
  <2>2. n \in Nat /\ \A m \in 1..n : s[m] \in S
    OBVIOUS
  <2>3. w = f \o g
    BY <1>2 DEF Without, RemoveAt
  <2> HIDE DEF k, w
  <2>4. f \in Seq(S) /\ Len(f) = k - 1 /\ \A m \in 1..(k - 1) : f[m] = s[m]
    BY <2>1, <2>2
  <2>5. g \in Seq(S) /\ Len(g) = n - k /\ \A m \in 1..(n - k) : g[m] = s[m + k]
    BY <2>1, <2>2
  <2> HIDE DEF f, g, n
  <2>6. w \in Seq(S) /\ Len(w) = n - 1 /\ DOMAIN w = 1..(n - 1)
    <3>1. f \in Seq(S) /\ g \in Seq(S)
      BY <2>4, <2>5
    <3>2. f \o g \in Seq(S) /\ Len(f \o g) = Len(f) + Len(g)
      BY <3>1
    <3>3. Len(f) + Len(g) = n - 1
      BY <2>1, <2>2, <2>4, <2>5
    <3>4. w \in Seq(S) /\ Len(w) = n - 1
      BY <3>2, <3>3, <2>3
    <3> QED BY <3>4
  <2>7. \A m \in 1..(n - 1) : w[m] = IF m < k THEN s[m] ELSE s[m + 1]
    <3> SUFFICES ASSUME NEW m \in 1..(n - 1)
                 PROVE  w[m] = IF m < k THEN s[m] ELSE s[m + 1]
      OBVIOUS
    <3>1. CASE m < k
      <4>1. m \in 1..Len(f)
        BY <3>1, <2>1, <2>2, <2>4
      <4>2. w[m] = f[m]
        BY <4>1, <2>3, <2>4, <2>5
      <4> QED BY <4>1, <4>2, <3>1, <2>4
    <3>2. CASE m >= k
      <4>1. m - Len(f) \in 1..Len(g) /\ m \in (Len(f) + 1)..(Len(f) + Len(g))
        BY <3>2, <2>1, <2>2, <2>4, <2>5
      <4>2. w[m] = g[m - Len(f)]
        BY <4>1, <2>3, <2>4, <2>5
      <4>3. g[m - Len(f)] = s[m + 1]
        <5>1. m - Len(f) = m - k + 1 /\ m - k + 1 \in 1..(n - k) /\ m - k + 1 + k = m + 1
          BY <4>1, <2>1, <2>2, <2>4, <2>5
        <5> QED BY <5>1, <2>5
      <4> QED BY <4>2, <4>3, <3>2, <2>1, <2>2
    <3> QED BY <3>1, <3>2, <2>1, <2>2
  <2>8. IsInjective(w)
    <3> SUFFICES ASSUME NEW a \in 1..(n - 1), NEW b \in 1..(n - 1), w[a] = w[b] PROVE a = b
      BY <2>6 DEF IsInjective
    <3> DEFINE A == IF a < k THEN a ELSE a + 1
               B == IF b < k THEN b ELSE b + 1
    <3>1. w[a] = s[A] /\ w[b] = s[B] /\ A \in 1..n /\ B \in 1..n
      BY <2>1, <2>2, <2>7
    <3>2. A = B
      <4> HIDE DEF A, B
      <4>1. s[A] = s[B]
        BY <3>1
      <4>2. DOMAIN s = 1..n
        BY DEF n
      <4> QED BY <3>1, <4>1, <4>2 DEF IsInjective
    <3> QED BY <3>2, <2>1, <2>2
  <2>9. ASSUME NEW m \in 1..(n - 1) PROVE w[m] \in ToSet(s) \ {i}
    <3> DEFINE M == IF m < k THEN m ELSE m + 1
    <3>1. w[m] = s[M] /\ M \in 1..n /\ M # k
      BY <2>1, <2>2, <2>7
    <3> QED BY <3>1, <2>1, <2>2 DEF IsInjective, ToSet, n
  <2>10. ASSUME NEW x \in ToSet(s) \ {i} PROVE x \in ToSet(w)
    <3>1. PICK m \in 1..n : s[m] = x
      BY DEF ToSet, n
    <3>2. CASE m < k
      <4>1. m \in 1..(n - 1) /\ w[m] = x
        BY <3>1, <3>2, <2>1, <2>2, <2>6, <2>7
      <4> QED BY <4>1, <2>6 DEF ToSet
    <3>3. CASE m > k
      <4>1. m - 1 \in 1..(n - 1) /\ w[m - 1] = x
        BY <3>1, <3>3, <2>1, <2>2, <2>6, <2>7
      <4> QED BY <4>1, <2>6 DEF ToSet
    <3> QED BY <3>1, <3>2, <3>3, <2>1
  <2>11. ToSet(w) = ToSet(s) \ {i}
    BY <2>6, <2>9, <2>10 DEF ToSet
  <2> QED BY <2>6, <2>8, <2>11 DEF w
<1> QED BY <1>1, <1>2

\* A key that is added at the end.
LEMMA AppendKey ==
  ASSUME NEW S, NEW s \in Seq(S), IsInjective(s), NEW i \in S, i \notin ToSet(s)
  PROVE  /\ Append(s, i) \in Seq(S)
         /\ ToSet(Append(s, i)) = ToSet(s) \cup {i}
         /\ IsInjective(Append(s, i))
<1>1. Append(s, i) \in Seq(S) /\ Len(Append(s, i)) = Len(s) + 1
  OBVIOUS
<1>2. \A m \in 1..(Len(s) + 1) : Append(s, i)[m] = IF m = Len(s) + 1 THEN i ELSE s[m]
  OBVIOUS
<1>3. Append(s, i)[Len(s) + 1] = i
  OBVIOUS
<1>4. IsInjective(Append(s, i))
  BY <1>1, <1>2 DEF IsInjective, ToSet
<1>5. ToSet(Append(s, i)) = ToSet(s) \cup {i}
  BY <1>1, <1>2, <1>3 DEF ToSet
<1> QED BY <1>1, <1>4, <1>5

\* Two groups of keys with none in common, one after the other.
LEMMA ConcatKeys ==
  ASSUME NEW S, NEW s \in Seq(S), NEW t \in Seq(S), IsInjective(s), IsInjective(t),
         ToSet(s) \cap ToSet(t) = {}
  PROVE  /\ s \o t \in Seq(S)
         /\ ToSet(s \o t) = ToSet(s) \cup ToSet(t)
         /\ IsInjective(s \o t)
<1> DEFINE c == s \o t
<1>1. c \in Seq(S) /\ Len(c) = Len(s) + Len(t) /\ Len(s) \in Nat /\ Len(t) \in Nat
  OBVIOUS
<1>2. /\ \A m \in 1..Len(s) : c[m] = s[m]
      /\ \A m \in (Len(s) + 1)..Len(c) : c[m] = t[m - Len(s)]
  OBVIOUS
<1>3. \A m \in 1..Len(t) : c[Len(s) + m] = t[m]
  OBVIOUS
<1> HIDE DEF c
<1>4. /\ \A m \in 1..Len(s) : c[m] \in ToSet(s)
      /\ \A m \in (Len(s) + 1)..Len(c) : c[m] \in ToSet(t) /\ m - Len(s) \in 1..Len(t)
  <2>1. \A m \in 1..Len(s) : c[m] \in ToSet(s)
    BY <1>2 DEF ToSet
  <2>2. \A m \in (Len(s) + 1)..Len(c) : m - Len(s) \in 1..Len(t)
    BY <1>1
  <2>3. \A m \in 1..Len(t) : t[m] \in ToSet(t)
    BY DEF ToSet
  <2> QED BY <1>2, <2>1, <2>2, <2>3
<1>5. ToSet(c) = ToSet(s) \cup ToSet(t)
  <2>1. ToSet(c) \subseteq ToSet(s) \cup ToSet(t)
    BY <1>1, <1>4 DEF ToSet
  <2>2. ToSet(s) \subseteq ToSet(c)
    BY <1>1, <1>2 DEF ToSet
  <2>3. \A m \in 1..Len(t) : Len(s) + m \in 1..Len(c)
    BY <1>1
  <2>4. ToSet(t) \subseteq ToSet(c)
    BY <1>1, <1>3, <2>3, SMTT(30) DEF ToSet
  <2> QED BY <2>1, <2>2, <2>4
<1>6. IsInjective(c)
  <2> SUFFICES ASSUME NEW a \in 1..Len(c), NEW b \in 1..Len(c), c[a] = c[b]
               PROVE  a = b
    BY <1>1 DEF IsInjective
  <2>1. CASE a <= Len(s) /\ b <= Len(s)
    BY <2>1, <1>1, <1>2 DEF IsInjective
  <2>2. CASE a > Len(s) /\ b > Len(s)
    <3>1. t[a - Len(s)] = t[b - Len(s)] /\ a - Len(s) \in 1..Len(t) /\ b - Len(s) \in 1..Len(t)
      BY <2>2, <1>1, <1>2
    <3> QED BY <3>1, <1>1 DEF IsInjective
  <2>3. CASE a <= Len(s) <=> b > Len(s)
    BY <2>3, <1>1, <1>4
  <2> QED BY <2>1, <2>2, <2>3, <1>1
<1> QED BY <1>1, <1>5, <1>6 DEF c

\* What a turn takes off the front.
LEMMA TailKeys ==
  ASSUME NEW S, NEW s \in Seq(S), s # <<>>
  PROVE  Tail(s) \in Seq(S) /\ ToSet(Tail(s)) \subseteq ToSet(s) /\ Head(s) \in ToSet(s)
<1>1. Tail(s) \in Seq(S) /\ Len(Tail(s)) = Len(s) - 1
      /\ \A m \in 1..(Len(s) - 1) : Tail(s)[m] = s[m + 1]
  OBVIOUS
<1>2. Len(s) \in Nat /\ Len(s) > 0 /\ Head(s) = s[1]
  OBVIOUS
<1> QED BY <1>1, <1>2 DEF ToSet

LEMMA EmptyKeys == ToSet(<<>>) = {} /\ IsInjective(<<>>)
  BY DEF ToSet, IsInjective
-----------------------------------------------------------------------------
(* Pawns                                                                   *)

LEMMA Limits ==
  /\ HEALTH \in 0..HEALTH /\ MAGAZINE \in 0..MAGAZINE /\ RELOAD \in 0..RELOAD
  /\ COOLDOWN \in 0..COOLDOWN /\ RESPAWN \in 0..RESPAWN
  /\ 0 \in 0..HEALTH /\ 0 \in 0..RELOAD /\ 0 \in 0..COOLDOWN /\ 0 \in 0..RESPAWN
  /\ FRAGS \in Nat /\ FRAGS > 0 /\ DURATION \in Nat /\ SEQ_MAX \in Nat /\ HOLD \in Nat
  /\ HANDSHAKE \in Nat /\ HEALTH \in Nat
<1>1. /\ HEALTH \in Nat /\ MAGAZINE \in Nat /\ RELOAD \in Nat /\ COOLDOWN \in Nat
      /\ RESPAWN \in Nat
  BY ArenaAssumption
<1>2. FRAGS \in Nat \ {0} /\ DURATION \in Nat /\ SEQ_MAX \in Nat
  BY ArenaAssumption
<1> QED BY <1>1, <1>2, ArenaAssumption

\* Damage keeps the ranges and scores nobody by itself.
LEMMA HurtPawn ==
  ASSUME NEW p \in PawnType, NEW amount \in Nat
  PROVE  Hurt(p, amount) \in PawnType /\ Hurt(p, amount).kills = p.kills
<1>1. p.health > amount => p.health - amount \in 0..HEALTH
  BY ArenaAssumption DEF PawnType
<1>2. p.deaths + 1 \in Nat
  BY DEF PawnType
<1> QED BY <1>1, <1>2, Limits DEF Hurt, PawnType

LEMMA SimulatedPawn ==
  ASSUME NEW p \in PawnType, NEW in
  PROVE  Simulated(p, in) \in PawnType /\ Simulated(p, in).kills = p.kills
<1> DEFINE ammo == IF p.reload = 1 THEN MAGAZINE ELSE p.ammo
           reload == IF "reload" \in in.pulse /\ ammo < MAGAZINE /\ Down(p.reload) = 0
                     THEN RELOAD ELSE Down(p.reload)
           cooldown == Down(p.cooldown)
<1>1. ammo \in 0..MAGAZINE
  BY ArenaAssumption DEF PawnType
<1>2. reload \in 0..RELOAD /\ cooldown \in 0..COOLDOWN
  BY ArenaAssumption DEF PawnType, Down
<1>3. Simulated(p, in) = [p EXCEPT !.cooldown = cooldown, !.ammo = ammo, !.reload = reload]
  BY DEF Simulated
<1> HIDE DEF ammo, reload, cooldown
<1> QED BY <1>1, <1>2, <1>3 DEF PawnType

LEMMA FiredPawn ==
  ASSUME NEW p \in PawnType, CanFire(p)
  PROVE  Fired(p) \in PawnType /\ Fired(p).kills = p.kills
<1>1. p.ammo - 1 \in 0..MAGAZINE
  BY ArenaAssumption DEF CanFire, PawnType
<1> QED BY <1>1, Limits DEF Fired, PawnType

LEMMA FreshPawn ==
  ASSUME NEW p \in PawnType
  PROVE  Fresh(p) \in PawnType /\ Fresh(p).kills = p.kills
  BY Limits DEF Fresh, PawnType

LEMMA NewPawnType == NewPawn \in PawnType /\ NewPawn.kills = 0
  BY Limits DEF NewPawn, PawnType

\* A shot keeps every pawn in its ranges, and only the shooter may score, one kill.
LEMMA ShotPawns ==
  ASSUME pawn \in [Ids -> PawnType], NEW i \in Ids, NEW v \in Ids
  PROVE  /\ AfterShot(i, v) \in [Ids -> PawnType]
         /\ \A j \in Ids : j # i => AfterShot(i, v)[j].kills = pawn[j].kills
         /\ AfterShot(i, v)[i].kills \in {pawn[i].kills, pawn[i].kills + 1}
<1> DEFINE in == Effective(i)
           p == Simulated(pawn[i], in)
           fires == in.fire /\ CanFire(p)
           hit == fires /\ v # i
           kill == hit /\ Hurt(pawn[v], 1).health = 0
           shooter == IF fires THEN Fired(p) ELSE p
           scored == [shooter EXCEPT !.kills = IF kill THEN @ + 1 ELSE @]
           after == AfterShot(i, v)
<1>1. p \in PawnType /\ p.kills = pawn[i].kills
  BY SimulatedPawn
<1>2. shooter \in PawnType /\ shooter.kills = pawn[i].kills
  <2>1. CASE fires
    <3>1. CanFire(p)
      BY <2>1
    <3> HIDE DEF p
    <3> QED BY <2>1, <3>1, <1>1, FiredPawn
  <2>2. CASE ~fires
    <3> HIDE DEF p, fires
    <3> QED BY <2>2, <1>1
  <2> QED BY <2>1, <2>2
<1>3. Hurt(pawn[v], 1) \in PawnType /\ Hurt(pawn[v], 1).kills = pawn[v].kills
  BY HurtPawn
<1>4. after = [j \in Ids |-> IF j = i THEN scored
                             ELSE IF j = v /\ hit THEN Hurt(pawn[v], 1) ELSE pawn[j]]
  BY Zenon DEF AfterShot
<1> HIDE DEF p, fires, hit, shooter, after, in
<1>5. scored \in PawnType /\ scored.kills \in {pawn[i].kills, pawn[i].kills + 1}
  <2> HIDE DEF kill
  <2>1. shooter.kills \in Nat /\ pawn[i].kills \in Nat
    BY <1>2 DEF PawnType
  <2> QED BY <1>2, <2>1 DEF PawnType
<1> HIDE DEF kill, scored
<1>6. after \in [Ids -> PawnType]
  BY <1>3, <1>4, <1>5
<1>7. \A j \in Ids : j # i => after[j].kills = pawn[j].kills
  BY <1>3, <1>4
<1>8. after[i].kills \in {pawn[i].kills, pawn[i].kills + 1}
  BY <1>4, <1>5
<1> QED BY <1>6, <1>7, <1>8 DEF after
-----------------------------------------------------------------------------
(* The inductive invariant                                                 *)

ContextType == [state : {"none", "PENDING", "ADMITTED"}, age : 0..HANDSHAKE,
                last_sequence : 0..SEQ_MAX, used : BOOLEAN]
InputType == [fire : BOOLEAN, pulse : SUBSET PulseKinds, age : -1..(HOLD + 1)]

LEMMA NoContextType == NoContext \in ContextType /\ NoContext.state = "none"
  BY Limits DEF NoContext, ContextType

LEMMA NoInputType == NoInput \in InputType /\ NoInput.pulse = {}
<1>1. -1 \in -1..(HOLD + 1)
  BY Limits
<1> QED BY <1>1 DEF NoInput, InputType

LEMMA AInitInv == AInit => AInv
<1> SUFFICES ASSUME AInit PROVE AInv
  OBVIOUS
<1>1. ATypeOK
  BY NoContextType, NoInputType, NewPawnType, Limits
  DEF AInit, ATypeOK, ContextType, InputType
<1>2. DictionariesAgree
  BY EmptyKeys, NoContextType DEF AInit, DictionariesAgree, Members, Pawns, Admitted
<1>3. OneWinner /\ TicksApart
  BY EmptyKeys DEF AInit, OneWinner, TicksApart, Pawns
<1>4. PulsesKept
  BY NoInputType DEF AInit, PulsesKept
<1> QED BY <1>1, <1>2, <1>3, <1>4 DEF AInv

LEMMA PeerConnectedInv ==
  ASSUME AInv, NEW i \in Ids, PeerConnected(i) PROVE AInv'
<1> USE DEF AInv
<1> DEFINE c == [NoContext EXCEPT !.state = "PENDING"]
<1>1. /\ i \notin enet /\ enet' = enet \cup {i} /\ context' = [context EXCEPT ![i] = c]
      /\ due' = [due EXCEPT ![i] = {}] /\ twice' = twice
      /\ phase' = phase /\ roster' = roster /\ name' = name /\ ready' = ready
      /\ detectors' = detectors /\ order' = order /\ pawn' = pawn /\ inputs' = inputs
      /\ left' = left /\ turn' = turn /\ stage' = stage
  BY DEF PeerConnected, game, ticking
<1>2. c \in ContextType /\ c.state = "PENDING"
  BY NoContextType DEF ContextType
<1> HIDE DEF c
<1>3. ATypeOK'
  BY <1>1, <1>2 DEF ATypeOK, ContextType
<1>4. context[i].state = "none" /\ inputs[i] = NoInput
  BY <1>1 DEF DictionariesAgree, ATypeOK, Admitted
<1>5. \A j \in Ids : Admitted(j)' <=> Admitted(j)
  BY <1>1, <1>2, <1>4 DEF Admitted, ATypeOK
<1>6. DictionariesAgree'
  BY <1>1, <1>2, <1>5 DEF DictionariesAgree, Members, Pawns, ATypeOK
<1>7. OneWinner' /\ TicksApart'
  BY <1>1 DEF OneWinner, TicksApart, Pawns
<1>8. PulsesKept'
  BY <1>1, <1>4, NoInputType, SMTT(30) DEF PulsesKept, ATypeOK
<1> QED BY <1>3, <1>6, <1>7, <1>8

LEMMA PeerDisconnectedInv ==
  ASSUME AInv, NEW i \in Ids, PeerDisconnected(i) PROVE AInv'
<1> USE DEF AInv
<1>1. /\ enet' = enet \ {i} /\ context' = [context EXCEPT ![i] = NoContext]
      /\ roster' = Without(roster, i) /\ ready' = ready \ {i}
      /\ inputs' = [inputs EXCEPT ![i] = NoInput]
      /\ detectors' = detectors \ {i} /\ order' = Without(order, i)
      /\ phase' = phase /\ name' = name /\ pawn' = pawn /\ left' = left
      /\ turn' = turn /\ stage' = stage /\ due' = due /\ twice' = twice
      /\ stage = "idle"
  BY DEF PeerDisconnected, Serving, ticking
<1>2. /\ roster' \in Seq(Ids) /\ Members' = Members \ {i} /\ IsInjective(roster')
      /\ order' \in Seq(Ids) /\ Pawns' = Pawns \ {i} /\ IsInjective(order')
  BY <1>1, WithoutKey DEF ATypeOK, DictionariesAgree, Members, Pawns
<1>3. ATypeOK'
  BY <1>1, <1>2, NoContextType, NoInputType DEF ATypeOK, ContextType, InputType
<1>4. \A j \in Ids : Admitted(j)' <=> (Admitted(j) /\ j # i)
  BY <1>1, NoContextType DEF Admitted, ATypeOK
<1>5. turn' = <<>>
  BY <1>1 DEF TicksApart
<1>6. DictionariesAgree'
  <2>1. (Members = {j \in Ids : Admitted(j)} /\ Members = detectors)'
    BY <1>1, <1>2, <1>4 DEF DictionariesAgree
  <2>2. \A j \in Ids : context'[j].state # "none" => j \in enet'
    BY <1>1, NoContextType DEF DictionariesAgree, ATypeOK
  <2>3. \A j \in Ids : inputs'[j] # NoInput => phase' = "IN_MATCH" /\ j \in Pawns'
    BY <1>1, <1>2 DEF DictionariesAgree, ATypeOK
  <2>4. (ToSet(turn) \subseteq Pawns)'
    BY <1>5, EmptyKeys
  <2> QED BY <1>1, <1>2, <2>1, <2>2, <2>3, <2>4 DEF DictionariesAgree
<1>7. OneWinner' /\ TicksApart'
  BY <1>1, <1>2, <1>5 DEF OneWinner, TicksApart
<1>8. PulsesKept'
  BY <1>1, NoInputType, SMTT(30) DEF PulsesKept, ATypeOK
<1> QED BY <1>3, <1>6, <1>7, <1>8

LEMMA HelloInv ==
  ASSUME AInv, NEW i \in Ids, NEW n \in Names, Hello(i, n) PROVE AInv'
<1> USE DEF AInv
<1>1. /\ context' = [context EXCEPT ![i].state = "ADMITTED"]
      /\ roster' = Append(roster, i) /\ name' = [name EXCEPT ![i] = n]
      /\ detectors' = detectors \cup {i}
      /\ phase' = phase /\ enet' = enet /\ ready' = ready /\ order' = order
      /\ pawn' = pawn /\ inputs' = inputs /\ left' = left /\ turn' = turn
      /\ stage' = stage /\ due' = due /\ twice' = twice
      /\ context[i].state = "PENDING" /\ phase # "IN_MATCH"
      /\ \A j \in Members : name[j] # n
  BY DEF Hello, game, ticking
<1>2. i \notin Members /\ i \in enet
  BY <1>1 DEF DictionariesAgree, Admitted
<1>3. roster' \in Seq(Ids) /\ Members' = Members \cup {i} /\ IsInjective(roster')
  BY <1>1, <1>2, AppendKey DEF ATypeOK, DictionariesAgree, Members
<1>4. ATypeOK'
  BY <1>1, <1>3, ZenonT(60) DEF ATypeOK
<1>5. \A j \in Ids : Admitted(j)' <=> (Admitted(j) \/ j = i)
  BY <1>1 DEF Admitted, ATypeOK
<1>6. DictionariesAgree'
  <2>1. (Members = {j \in Ids : Admitted(j)} /\ Members = detectors)'
    BY <1>1, <1>3, <1>5 DEF DictionariesAgree
  <2>2. \A j \in Ids : context'[j].state # "none" => j \in enet'
    BY <1>1, <1>2 DEF DictionariesAgree, ATypeOK
  <2>3. \A j, k \in Members' : j # k => name'[j] # name'[k]
    BY <1>1, <1>2, <1>3, SMTT(30) DEF DictionariesAgree, ATypeOK
  <2>4. Pawns' = Pawns /\ Members \subseteq Members'
    BY <1>1, <1>3 DEF Pawns
  <2> QED BY <1>1, <1>3, <2>1, <2>2, <2>3, <2>4 DEF DictionariesAgree
<1>7. OneWinner' /\ TicksApart'
  BY <1>1 DEF OneWinner, TicksApart, Pawns
<1>8. PulsesKept'
  BY <1>1 DEF PulsesKept
<1> QED BY <1>4, <1>6, <1>7, <1>8
\* The newcomers are no pawns yet, so that the two orders can be joined.
LEMMA NewcomersKeys ==
  ASSUME AInv, NEW new \in BoundedSeq(Members, Len(roster)), Newcomers(new)
  PROVE  /\ order \o new \in Seq(Ids) /\ IsInjective(order \o new)
         /\ ToSet(order \o new) = Members
<1> USE DEF AInv
<1>1. Members \subseteq Ids
  BY DEF DictionariesAgree
<1>2. new \in Seq(Ids)
  BY <1>1 DEF BoundedSeq, SeqOf
<1>3. IsInjective(new)
  <2>1. \A a, b \in DOMAIN new : a < b => new[a] # new[b]
    BY DEF Newcomers, DictionariesAgree, IsInjective, ATypeOK
  <2>2. DOMAIN new \subseteq Nat
    BY <1>2
  <2>3. \A a, b \in Nat : a < b \/ b < a \/ a = b
    OBVIOUS
  <2> QED BY <2>1, <2>2, <2>3 DEF IsInjective
<1>4. order \in Seq(Ids) /\ IsInjective(order) /\ Pawns \subseteq Members
  BY DEF ATypeOK, DictionariesAgree
<1>5. ToSet(order) \cap ToSet(new) = {} /\ ToSet(order) \cup ToSet(new) = Members
  BY <1>4 DEF Newcomers, Pawns
<1> QED BY <1>2, <1>3, <1>4, <1>5, ConcatKeys, ZenonT(60)

LEMMA ReadyRequestInv ==
  ASSUME AInv, NEW i \in Ids, ReadyRequest(i) PROVE AInv'
<1> USE DEF AInv
<1>1. /\ ready' = ready \cup {i} /\ enet' = enet /\ context' = context
      /\ roster' = roster /\ name' = name /\ detectors' = detectors
      /\ turn' = turn /\ stage' = stage /\ due' = due /\ twice' = twice
      /\ stage = "idle" /\ i \in Members
  BY DEF ReadyRequest, Serving, ticking
<1>2. turn' = <<>> /\ Members' = Members /\ \A j \in Ids : Admitted(j)' <=> Admitted(j)
  BY <1>1 DEF TicksApart, Members, Admitted
<1>3. CASE UNCHANGED <<phase, game>>
  <2>1. phase' = phase /\ order' = order /\ pawn' = pawn /\ inputs' = inputs /\ left' = left
    BY <1>3 DEF game
  <2>2. ATypeOK'
    BY <1>1, <2>1 DEF ATypeOK
  <2>3. DictionariesAgree'
    BY <1>1, <1>2, <2>1 DEF DictionariesAgree, Pawns
  <2>4. OneWinner' /\ TicksApart' /\ PulsesKept'
    BY <1>1, <2>1 DEF OneWinner, TicksApart, PulsesKept, Pawns
  <2> QED BY <2>2, <2>3, <2>4
<1>4. CASE Start
  <2>1. /\ phase' = "IN_MATCH" /\ left' = DURATION
        /\ pawn' = [j \in Ids |-> IF j \in Members THEN NewPawn ELSE pawn[j]]
        /\ inputs' = [j \in Ids |-> IF j \in Members THEN NoInput ELSE inputs[j]]
    BY <1>4 DEF Start
  <2>2. order' \in Seq(Ids) /\ IsInjective(order') /\ Pawns' = Members
    BY <1>4, NewcomersKeys DEF Start, Pawns
  <2>3. ATypeOK'
    <3>1. pawn' \in [Ids -> PawnType] /\ inputs' \in [Ids -> InputType]
      BY <2>1, NewPawnType, NoInputType DEF ATypeOK, InputType
    <3>2. left' \in 0..DURATION
      BY <2>1, Limits
    <3> QED BY <1>1, <2>1, <2>2, <3>1, <3>2 DEF ATypeOK, InputType
  <2>4. \A j \in Ids : inputs'[j] = NoInput
    BY <2>1 DEF DictionariesAgree, ATypeOK
  <2>5. DictionariesAgree'
    BY <1>1, <1>2, <2>1, <2>2, <2>4, EmptyKeys DEF DictionariesAgree
  <2>6. OneWinner'
    <3>1. \A j \in Pawns' : pawn'[j].kills = 0
      BY <2>1, <2>2, NewPawnType DEF DictionariesAgree
    <3> QED BY <3>1, Limits DEF OneWinner
  <2>7. TicksApart'
    BY <1>2, <2>1 DEF TicksApart
  <2>8. PulsesKept'
    BY <1>1, <2>1, <2>4, NoInputType, SMTT(30) DEF PulsesKept, ATypeOK
  <2> QED BY <2>3, <2>5, <2>6, <2>7, <2>8
<1> QED BY <1>3, <1>4 DEF ReadyRequest

LEMMA AcceptIntentInv ==
  ASSUME AInv, NEW i \in Ids, NEW seq \in 1..SEQ_MAX, NEW fire \in BOOLEAN,
         NEW pulse \in SUBSET PulseKinds, AcceptIntent(i, seq, fire, pulse)
  PROVE  AInv'
<1> USE DEF AInv
<1> DEFINE in == [fire |-> fire, pulse |-> pulse, age |-> 0]
<1>1. /\ context' = [context EXCEPT ![i].last_sequence = seq, ![i].used = TRUE]
      /\ inputs' = [inputs EXCEPT ![i] = in]
      /\ due' = [due EXCEPT ![i] = pulse]
      /\ phase' = phase /\ enet' = enet /\ roster' = roster /\ name' = name
      /\ ready' = ready /\ detectors' = detectors /\ order' = order /\ pawn' = pawn
      /\ left' = left /\ turn' = turn /\ stage' = stage /\ twice' = twice
      /\ phase = "IN_MATCH" /\ i \in Pawns
  BY DEF AcceptIntent, ticking
<1>2. in \in InputType /\ in.pulse = pulse
  <2>1. 0 \in -1..(HOLD + 1)
    BY Limits
  <2> QED BY <2>1 DEF InputType
<1> HIDE DEF in
<1>3. ATypeOK'
  <2>1. context' \in [Ids -> ContextType]
    <3>1. seq \in 0..SEQ_MAX
      BY Limits
    <3>2. PICK c : c = [context[i] EXCEPT !.last_sequence = seq, !.used = TRUE]
      OBVIOUS
    <3>3. c \in ContextType
      <4>1. context[i] \in ContextType
        BY DEF ATypeOK, ContextType
      <4> QED BY <3>1, <3>2, <4>1 DEF ContextType
    <3>4. context' = [context EXCEPT ![i] = c]
      BY <1>1, <3>2 DEF ATypeOK
    <3> QED BY <3>3, <3>4 DEF ATypeOK, ContextType
  <2>2. inputs' \in [Ids -> InputType] /\ due' \in [Ids -> SUBSET PulseKinds]
    BY <1>1, <1>2, SMTT(30) DEF ATypeOK, InputType
  <2> QED BY <1>1, <2>1, <2>2 DEF ATypeOK, ContextType, InputType
<1>4. \A j \in Ids : context'[j].state = context[j].state
  BY <1>1, SMTT(30) DEF ATypeOK
<1>5. \A j \in Ids : inputs'[j] # NoInput => inputs[j] # NoInput \/ j = i
  BY <1>1 DEF ATypeOK
<1>6. DictionariesAgree'
  BY <1>1, <1>4, <1>5, ZenonT(60) DEF DictionariesAgree, Members, Pawns, Admitted
<1>7. OneWinner' /\ TicksApart'
  BY <1>1 DEF OneWinner, TicksApart, Pawns
<1>8. PulsesKept'
  <2>1. inputs'[i].pulse = pulse /\ due'[i] = pulse
    BY <1>1, <1>2 DEF ATypeOK
  <2>2. \A j \in Ids : j # i => inputs'[j] = inputs[j] /\ due'[j] = due[j]
    BY <1>1 DEF ATypeOK
  <2> QED BY <1>1, <2>1, <2>2 DEF PulsesKept
<1> QED BY <1>3, <1>6, <1>7, <1>8

LEMMA StopInv ==
  ASSUME AInv, Stop PROVE AInv'
<1> USE DEF AInv
<1>1. /\ phase' = "DISCONNECTED" /\ enet' = {} /\ context' = [i \in Ids |-> NoContext]
      /\ roster' = <<>> /\ ready' = {} /\ detectors' = {} /\ order' = <<>>
      /\ inputs' = [i \in Ids |-> NoInput] /\ name' = name /\ pawn' = pawn /\ left' = left
      /\ turn' = turn /\ stage' = stage /\ due' = due /\ twice' = twice
      /\ turn = <<>>
  BY DEF Stop, Serving, ticking, TicksApart
<1>2. ATypeOK'
  BY <1>1, NoContextType, NoInputType DEF ATypeOK, ContextType, InputType
<1>3. Members' = {} /\ Pawns' = {} /\ \A i \in Ids : ~Admitted(i)'
  BY <1>1, EmptyKeys, NoContextType DEF Members, Pawns, Admitted
<1>4. DictionariesAgree'
  BY <1>1, <1>3, EmptyKeys, NoContextType DEF DictionariesAgree
<1>5. OneWinner' /\ TicksApart'
  BY <1>1, <1>3 DEF OneWinner, TicksApart
<1>6. PulsesKept'
  BY <1>1, NoInputType DEF PulsesKept, ATypeOK
<1> QED BY <1>2, <1>4, <1>5, <1>6
LEMMA TickBeginInv ==
  ASSUME AInv, TickBegin PROVE AInv'
<1> USE DEF AInv
<1>1. /\ context' = [i \in Ids |-> Aged(context[i])]
      /\ inputs' = [i \in Ids |-> Held(inputs[i])]
      /\ phase' = phase /\ enet' = enet /\ roster' = roster /\ name' = name
      /\ ready' = ready /\ detectors' = detectors /\ order' = order /\ pawn' = pawn
      /\ due' = due /\ twice' = twice /\ stage = "idle"
  BY DEF TickBegin, Serving
<1>2. \/ phase = "IN_MATCH" /\ left' = Down(left) /\ turn' = order /\ stage' = "pawns"
      \/ phase # "IN_MATCH" /\ left' = left /\ turn' = turn /\ stage' = stage
  BY DEF TickBegin, ticking
<1>3. ASSUME NEW c \in ContextType
      PROVE  /\ Aged(c) \in ContextType /\ Aged(c).state \in {c.state, "none"}
             /\ c.state = "ADMITTED" => Aged(c).state = "ADMITTED"
             /\ c.state # "ADMITTED" => Aged(c).state # "ADMITTED"
  <2>1. CASE c.state = "PENDING" /\ c.age >= HANDSHAKE
    BY <2>1, NoContextType DEF Aged
  <2>2. CASE ~(c.state = "PENDING" /\ c.age >= HANDSHAKE)
    <3>1. PICK a : a = IF c.state = "PENDING" THEN c.age + 1 ELSE 0
      OBVIOUS
    <3>2. a \in 0..HANDSHAKE
      BY <2>2, <3>1, Limits DEF ContextType
    <3>3. Aged(c) = [c EXCEPT !.age = a, !.used = FALSE]
      BY <2>2, <3>1 DEF Aged
    <3> QED BY <3>2, <3>3 DEF ContextType
  <2> QED BY <2>1, <2>2
<1>4. ASSUME NEW in \in InputType
      PROVE  /\ Held(in) \in InputType /\ Held(in).pulse = in.pulse
             /\ in = NoInput => Held(in) = NoInput
  <2>1. CASE in.age \in 0..HOLD
    <3>1. PICK a : a = in.age + 1
      OBVIOUS
    <3>2. a \in -1..(HOLD + 1)
      BY <2>1, <3>1, Limits
    <3>3. Held(in) = [in EXCEPT !.age = a]
      BY <2>1, <3>1 DEF Held
    <3>4. in # NoInput
      BY <2>1, Limits DEF NoInput
    <3> QED BY <3>2, <3>3, <3>4 DEF InputType
  <2>2. CASE in.age \notin 0..HOLD
    BY <2>2 DEF Held
  <2> QED BY <2>1, <2>2
<1>5. context \in [Ids -> ContextType] /\ inputs \in [Ids -> InputType]
  BY DEF ATypeOK, ContextType, InputType
<1>6. ATypeOK'
  <2>1. context' \in [Ids -> ContextType] /\ inputs' \in [Ids -> InputType]
    BY <1>1, <1>3, <1>4, <1>5
  <2>2. left' \in 0..DURATION
    BY <1>2, Limits DEF ATypeOK, Down
  <2>3. turn' \in Seq(Ids) /\ stage' \in {"idle", "pawns"}
    BY <1>2 DEF ATypeOK
  <2> QED BY <1>1, <2>1, <2>2, <2>3 DEF ATypeOK, ContextType, InputType
<1>7. DictionariesAgree'
  <2>1. Members' = Members /\ Pawns' = Pawns
    BY <1>1 DEF Members, Pawns
  <2>2. \A i \in Ids : Admitted(i)' <=> Admitted(i)
    BY <1>1, <1>3, <1>5 DEF Admitted
  <2>3. \A i \in Ids : context'[i].state # "none" => i \in enet'
    BY <1>1, <1>3, <1>5 DEF DictionariesAgree
  <2>4. ToSet(turn') \subseteq Pawns'
    BY <1>1, <1>2, <2>1 DEF Pawns, DictionariesAgree
  <2>5. \A i \in Ids : inputs'[i] # NoInput => phase' = "IN_MATCH" /\ i \in Pawns'
    BY <1>1, <1>4, <1>5, <2>1 DEF DictionariesAgree
  <2> QED BY <1>1, <2>1, <2>2, <2>3, <2>4, <2>5 DEF DictionariesAgree
<1>8. OneWinner' /\ TicksApart'
  BY <1>1, <1>2 DEF OneWinner, TicksApart, Pawns
<1>9. PulsesKept'
  BY <1>1, <1>4, <1>5 DEF PulsesKept
<1> QED BY <1>6, <1>7, <1>8, <1>9

\* What a turn leaves alone, and what is known while one is taken.
LEMMA TurnFrame ==
  ASSUME AInv, Turn
  PROVE  /\ enet' = enet /\ context' = context /\ roster' = roster /\ name' = name
         /\ detectors' = detectors /\ order' = order /\ left' = left /\ stage' = stage
         /\ Members' = Members /\ Pawns' = Pawns
         /\ \A i \in Ids : Admitted(i)' <=> Admitted(i)
         /\ stage = "pawns" /\ turn # <<>> /\ phase = "IN_MATCH"
         /\ Head(turn) \in Pawns /\ Pawns \subseteq Ids /\ Pawns = Members
         /\ Tail(turn) \in Seq(Ids) /\ ToSet(Tail(turn)) \subseteq Pawns
<1> USE DEF AInv
<1>1. /\ enet' = enet /\ context' = context /\ roster' = roster /\ name' = name
      /\ detectors' = detectors /\ order' = order /\ left' = left /\ stage' = stage
      /\ stage = "pawns" /\ turn # <<>>
  BY DEF Turn
<1>2. phase = "IN_MATCH"
  BY <1>1 DEF TicksApart
<1>3. /\ Tail(turn) \in Seq(Ids) /\ ToSet(Tail(turn)) \subseteq ToSet(turn)
      /\ Head(turn) \in ToSet(turn)
  BY <1>1, TailKeys DEF ATypeOK
<1>4. ToSet(turn) \subseteq Pawns /\ Pawns = Members /\ Members \subseteq Ids
  BY <1>2 DEF DictionariesAgree
<1>5. Members' = Members /\ Pawns' = Pawns /\ \A i \in Ids : Admitted(i)' <=> Admitted(i)
  BY <1>1 DEF Members, Pawns, Admitted
<1> QED BY <1>1, <1>2, <1>3, <1>4, <1>5

\* A turn after which the match goes on: nobody has the limit's kills, an input is
\* only taken away, and a pulse that reaches the simulation is spent.
LEMMA TurnGoesOn ==
  ASSUME AInv, Turn, phase' = phase, ready' = ready, turn' = Tail(turn),
         pawn' \in [Ids -> PawnType], \A j \in Pawns : pawn'[j].kills < FRAGS,
         inputs' \in [Ids -> InputType],
         \A j \in Ids : inputs[j] = NoInput => inputs'[j] = NoInput,
         due' \in [Ids -> SUBSET PulseKinds], PulsesKept'
  PROVE  AInv'
<1> USE DEF AInv
<1>1. ATypeOK'
  <2>1. twice' \subseteq Ids
    BY DEF PulsesKept
  <2> QED BY <2>1, TurnFrame DEF ATypeOK, InputType
<1>2. DictionariesAgree'
  BY TurnFrame DEF DictionariesAgree
<1>3. OneWinner'
  <2>1. \A j \in Pawns : pawn'[j].kills \in Nat /\ pawn'[j].kills < FRAGS
    BY TurnFrame DEF PawnType
  <2> QED BY <2>1, TurnFrame, Limits DEF OneWinner
<1>4. TicksApart'
  BY TurnFrame DEF TicksApart
<1> QED BY <1>1, <1>2, <1>3, <1>4
LEMMA TurnDeadInv ==
  ASSUME AInv, Turn, TurnDead(Head(turn)) PROVE AInv'
<1> USE DEF AInv
<1> DEFINE i == Head(turn)
<1>1. /\ phase' = phase /\ ready' = ready /\ due' = due /\ twice' = twice /\ turn' = Tail(turn)
      /\ i \in Ids
  BY TurnFrame DEF TurnDead
<1>2. \A j \in Pawns : pawn[j].kills < FRAGS
  BY TurnFrame DEF OneWinner
<1>3. pawn[i] \in PawnType /\ pawn \in [Ids -> PawnType] /\ inputs \in [Ids -> InputType]
  BY <1>1 DEF ATypeOK, InputType
<1> HIDE DEF i
<1>4. CASE pawn' = [pawn EXCEPT ![i] = Fresh(@)] /\ inputs' = [inputs EXCEPT ![i] = NoInput]
  <2>1. pawn' \in [Ids -> PawnType] /\ \A j \in Ids : pawn'[j].kills = pawn[j].kills
    BY <1>1, <1>3, <1>4, FreshPawn
  <2>2. inputs' \in [Ids -> InputType] /\ \A j \in Ids : inputs'[j] \in {inputs[j], NoInput}
    BY <1>1, <1>3, <1>4, NoInputType
  <2>3. PulsesKept'
    BY <1>1, <2>2, NoInputType, TurnFrame DEF PulsesKept
  <2> QED BY <1>1, <1>2, <2>1, <2>2, <2>3, TurnFrame, TurnGoesOn DEF ATypeOK
<1>5. CASE pawn[i].respawn > 1 /\ pawn' = [pawn EXCEPT ![i].respawn = @ - 1]
           /\ inputs' = inputs
  <2>1. PICK r : r = pawn[i].respawn - 1
    OBVIOUS
  <2>2. r \in 0..RESPAWN
    BY <1>3, <1>5, <2>1, Limits DEF PawnType
  <2>3. PICK p : p = [pawn[i] EXCEPT !.respawn = r]
    OBVIOUS
  <2>4. p \in PawnType /\ p.kills = pawn[i].kills
    BY <1>3, <2>2, <2>3 DEF PawnType
  <2>5. pawn' = [pawn EXCEPT ![i] = p]
    BY <1>1, <1>5, <2>1, <2>3
  <2>6. pawn' \in [Ids -> PawnType] /\ \A j \in Ids : pawn'[j].kills = pawn[j].kills
    BY <1>1, <1>3, <2>4, <2>5
  <2>7. PulsesKept'
    BY <1>1, <1>5, TurnFrame DEF PulsesKept
  <2> QED BY <1>1, <1>2, <1>3, <1>5, <2>6, <2>7, TurnFrame, TurnGoesOn DEF ATypeOK
<1>6. pawn[i].respawn <= 1 \/ pawn[i].respawn > 1
  BY <1>3, Limits DEF PawnType
<1> QED BY <1>4, <1>5, <1>6 DEF TurnDead, i

\* The pulses of a turn: what reaches the simulation was due.
LEMMA PulseWasDue ==
  ASSUME AInv, NEW i \in Ids, due' = [due EXCEPT ![i] = @ \ Effective(i).pulse],
         twice' = IF Effective(i).pulse \subseteq due[i] THEN twice ELSE twice \cup {i}
  PROVE  /\ due' \in [Ids -> SUBSET PulseKinds] /\ twice' = {}
         /\ \A j \in Ids : j # i => due'[j] = due[j]
         /\ Effective(i) = NoInput => due'[i] = due[i]
<1> USE DEF AInv
<1>1. due \in [Ids -> SUBSET PulseKinds] /\ inputs \in [Ids -> InputType]
  BY DEF ATypeOK, InputType
<1>2. Effective(i).pulse \subseteq inputs[i].pulse
  BY NoInputType DEF Effective
<1>3. twice' = {}
  BY <1>2 DEF PulsesKept
<1>4. /\ due' \in [Ids -> SUBSET PulseKinds] /\ \A j \in Ids : j # i => due'[j] = due[j]
  BY <1>1
<1>5. Effective(i) = NoInput => due'[i] = due[i]
  BY <1>1, NoInputType
<1> QED BY <1>3, <1>4, <1>5

LEMMA TurnAliveInv ==
  ASSUME AInv, Turn, NEW v \in Pawns, NEW fall \in BOOLEAN,
         TurnAlive(Head(turn), v, fall)
  PROVE  AInv'
<1> USE DEF AInv
<1> DEFINE i == Head(turn)
           after == AfterShot(i, v)
<1>1. i \in Ids /\ i \in Pawns /\ v \in Ids
  BY TurnFrame
<1>2. /\ due' = [due EXCEPT ![i] = @ \ Effective(i).pulse]
      /\ twice' = IF Effective(i).pulse \subseteq due[i] THEN twice ELSE twice \cup {i}
  BY DEF TurnAlive
<1>3. /\ after \in [Ids -> PawnType]
      /\ \A j \in Ids : j # i => after[j].kills = pawn[j].kills
      /\ after[i].kills \in {pawn[i].kills, pawn[i].kills + 1}
  BY <1>1, ShotPawns DEF ATypeOK
<1>4. \A j \in Pawns : pawn[j].kills \in Nat /\ pawn[j].kills < FRAGS /\ j \in Ids
  BY TurnFrame DEF OneWinner, ATypeOK, PawnType
<1>5. inputs \in [Ids -> InputType]
  BY DEF ATypeOK, InputType
<1>6. CASE Wins(i, after)
  <2>1. /\ pawn' = after /\ turn' = <<>> /\ phase' = "RESULTS" /\ ready' = {}
        /\ inputs' = [j \in Ids |-> NoInput]
    BY <1>6 DEF TurnAlive, Finish
  <2>2. due' \in [Ids -> SUBSET PulseKinds] /\ twice' = {}
    BY <1>1, <1>2, PulseWasDue
  <2> HIDE DEF after, i
  <2>3. ATypeOK'
    <3>1. inputs' \in [Ids -> InputType] /\ pawn' \in [Ids -> PawnType]
      BY <1>3, <2>1, NoInputType
    <3>2. turn' \in Seq(Ids) /\ ready' \subseteq Ids
      BY <2>1
    <3> QED BY <2>1, <2>2, <3>1, <3>2, TurnFrame DEF ATypeOK, InputType
  <2>4. DictionariesAgree'
    BY <2>1, TurnFrame, EmptyKeys DEF DictionariesAgree
  <2>5. OneWinner'
    <3>1. after[i].kills = FRAGS
      BY <1>1, <1>3, <1>4, <1>6, Limits DEF Wins
    <3>2. \A j \in Pawns : j # i => after[j].kills < FRAGS /\ after[j].kills \in Nat
      BY <1>3, <1>4
    <3> QED BY <2>1, <3>1, <3>2, TurnFrame, Limits DEF OneWinner
  <2>6. TicksApart' /\ PulsesKept'
    BY <2>1, <2>2, NoInputType, TurnFrame DEF TicksApart, PulsesKept
  <2> QED BY <2>3, <2>4, <2>5, <2>6
<1>7. CASE ~Wins(i, after)
  <2>1. /\ pawn' = IF fall THEN [after EXCEPT ![i] = Hurt(@, HEALTH)] ELSE after
        /\ inputs' = [inputs EXCEPT ![i] = IF Effective(i) = NoInput THEN @ ELSE Spent(@)]
        /\ turn' = Tail(turn) /\ phase' = phase /\ ready' = ready
    BY <1>7 DEF TurnAlive
  <2>2. \A j \in Pawns : after[j].kills < FRAGS
    BY <1>1, <1>3, <1>4, <1>7, Limits DEF Wins
  <2>3. /\ due' \in [Ids -> SUBSET PulseKinds] /\ twice' = {}
        /\ \A j \in Ids : j # i => due'[j] = due[j]
        /\ Effective(i) = NoInput => due'[i] = due[i]
        /\ Effective(i) # NoInput => Effective(i) = inputs[i]
    BY <1>1, <1>2, PulseWasDue DEF Effective
  <2> HIDE DEF after, i
  <2>4. pawn' \in [Ids -> PawnType] /\ \A j \in Ids : pawn'[j].kills = after[j].kills
    <3>1. Hurt(after[i], HEALTH) \in PawnType /\ Hurt(after[i], HEALTH).kills = after[i].kills
      BY <1>1, <1>3, HurtPawn, Limits
    <3> QED BY <1>1, <1>3, <2>1, <3>1
  <2>5. Spent(inputs[i]) \in InputType /\ Spent(inputs[i]).pulse = {}
    BY <1>1, <1>5 DEF Spent, InputType
  <2>6. inputs' \in [Ids -> InputType] /\ \A j \in Ids : j # i => inputs'[j] = inputs[j]
    BY <1>1, <1>5, <2>1, <2>5
  <2>7. \A j \in Ids : inputs[j] = NoInput => inputs'[j] = NoInput
    BY <1>1, <1>5, <2>1, <2>3, <2>6
  <2>8. PulsesKept'
    <3>1. ASSUME NEW j \in Ids, j # i PROVE inputs'[j].pulse \subseteq due'[j]
      BY <2>3, <2>6, <3>1 DEF PulsesKept
    <3>2. inputs'[i].pulse \subseteq due'[i]
      <4>1. CASE Effective(i) = NoInput
        BY <4>1, <1>1, <1>5, <2>1, <2>3 DEF PulsesKept
      <4>2. CASE Effective(i) # NoInput
        <5>1. inputs'[i].pulse = {}
          BY <4>2, <1>1, <1>5, <2>1, <2>5
        <5> QED BY <5>1
      <4> QED BY <4>1, <4>2
    <3> QED BY <2>3, <3>1, <3>2 DEF PulsesKept
  <2> QED BY <2>1, <2>2, <2>3, <2>4, <2>6, <2>7, <2>8, <1>4, TurnGoesOn
<1> QED BY <1>6, <1>7

LEMMA TickEndInv ==
  ASSUME AInv, TickEnd PROVE AInv'
<1> USE DEF AInv
<1>1. /\ stage' = "idle" /\ enet' = enet /\ context' = context /\ roster' = roster
      /\ name' = name /\ detectors' = detectors /\ order' = order /\ pawn' = pawn
      /\ left' = left /\ turn' = turn /\ due' = due /\ twice' = twice
      /\ turn = <<>>
      /\ Members' = Members /\ Pawns' = Pawns
      /\ \A i \in Ids : Admitted(i)' <=> Admitted(i)
  BY DEF TickEnd, Members, Pawns, Admitted
<1>2. CASE Finish
  <2>1. phase' = "RESULTS" /\ ready' = {} /\ inputs' = [i \in Ids |-> NoInput]
    BY <1>2 DEF Finish
  <2>2. ATypeOK'
    BY <1>1, <2>1, NoInputType DEF ATypeOK, InputType
  <2>3. DictionariesAgree'
    BY <1>1, <2>1 DEF DictionariesAgree
  <2>4. OneWinner' /\ TicksApart'
    BY <1>1, <2>1 DEF OneWinner, TicksApart
  <2>5. PulsesKept'
    BY <1>1, <2>1, NoInputType DEF PulsesKept, ATypeOK
  <2> QED BY <2>2, <2>3, <2>4, <2>5
<1>3. CASE UNCHANGED <<phase, ready, inputs>>
  <2>1. ATypeOK'
    BY <1>1, <1>3 DEF ATypeOK
  <2>2. DictionariesAgree'
    BY <1>1, <1>3 DEF DictionariesAgree
  <2>3. OneWinner' /\ TicksApart' /\ PulsesKept'
    BY <1>1, <1>3 DEF OneWinner, TicksApart, PulsesKept
  <2> QED BY <2>1, <2>2, <2>3
<1> QED BY <1>2, <1>3 DEF TickEnd

\* Every step keeps the invariant.
LEMMA AStepInv == AInv /\ [ANext]_avars => AInv'
<1> SUFFICES ASSUME AInv, [ANext]_avars PROVE AInv'
  OBVIOUS
<1>1. CASE Turn
  BY <1>1, TurnDeadInv, TurnAliveInv DEF Turn
<1>2. CASE \E i \in Ids : PeerConnected(i) \/ PeerDisconnected(i) \/ ReadyRequest(i)
  BY <1>2, PeerConnectedInv, PeerDisconnectedInv, ReadyRequestInv
<1>3. CASE \E i \in Ids, n \in Names : Hello(i, n)
  BY <1>3, HelloInv
<1>4. CASE \E i \in Ids, seq \in 1..SEQ_MAX, fire \in BOOLEAN, pulse \in SUBSET PulseKinds :
             AcceptIntent(i, seq, fire, pulse)
  BY <1>4, AcceptIntentInv
<1>5. CASE UNCHANGED avars
  <2>1. /\ phase' = phase /\ enet' = enet /\ context' = context /\ roster' = roster
        /\ name' = name /\ ready' = ready /\ detectors' = detectors /\ order' = order
        /\ pawn' = pawn /\ inputs' = inputs /\ left' = left /\ turn' = turn
        /\ stage' = stage /\ due' = due /\ twice' = twice
    BY <1>5 DEF avars, lobby, game, ticking
  <2>2. ATypeOK'
    BY <2>1 DEF AInv, ATypeOK
  <2>3. DictionariesAgree'
    BY <2>1 DEF AInv, DictionariesAgree, Members, Pawns, Admitted
  <2>4. OneWinner' /\ TicksApart' /\ PulsesKept'
    BY <2>1 DEF AInv, OneWinner, TicksApart, PulsesKept, Pawns
  <2> QED BY <2>2, <2>3, <2>4 DEF AInv
<1> QED BY <1>1, <1>2, <1>3, <1>4, <1>5, TickBeginInv, TickEndInv, StopInv DEF ANext, Tick

-----------------------------------------------------------------------------
\* In every reachable state of the match server, for any peers and any limits, every
\* variable has its type, and the dictionaries, the score, the ticks and the pulses
\* are as the four parts of AInv say.
THEOREM ArenaInvariant == ASpec => []AInv
<1> QED BY AInitInv, AStepInv, PTL DEF ASpec

\* The dictionaries of network.gd and of its admission boundary agree in every
\* reachable state, so that the unchecked look-ups of fire_weapon, damage and
\* observe find their keys.
THEOREM ArenaDictionaries == ASpec => []DictionariesAgree
<1>1. AInv => DictionariesAgree
  BY DEF AInv
<1> QED BY <1>1, ArenaInvariant, PTL

\* Whatever the limit of kills, a match has at most one winner and stops at the kill
\* that makes one.
THEOREM ArenaOneWinner == ASpec => []OneWinner
<1>1. AInv => OneWinner
  BY DEF AInv
<1> QED BY <1>1, ArenaInvariant, PTL

\* However long an intent is held, its jump and its reload reach the simulation at
\* most once each.
THEOREM ArenaPulsesOnce == ASpec => []PulsesOnce
<1>1. AInv => PulsesOnce
  BY DEF AInv, PulsesKept, PulsesOnce
<1> QED BY <1>1, ArenaInvariant, PTL
=============================================================================
