------------------------------- MODULE Arena -------------------------------
(***************************************************************************)
(* The authoritative server of the Godot game: game/scripts/network.gd in  *)
(* server mode, with admission_boundary.gd, connection_context.gd and the  *)
(* timers of pawn.gd.                                                      *)
(*                                                                         *)
(* Signals and RPCs are handled one at a time, between two physics ticks,  *)
(* and any peer may send any RPC at any time.  A tick is TickBegin, one    *)
(* Turn for each pawn of the loop, and TickEnd, and nothing else runs in   *)
(* between.  Instants are kept as ages in ticks: how long ago a connection *)
(* was made or an input accepted.  Positions are left out: whom a ray hits *)
(* and who falls off the map are choices.  Health is counted in hits.      *)
(***************************************************************************)
EXTENDS Integers, FiniteSets, Sequences, SequencesExt

CONSTANTS Ids,        \* ENet peer ids
          Names,      \* nicknames that are valid identifiers
          FRAGS,      \* match/frag_limit
          DURATION,   \* match/duration_seconds, in ticks
          HEALTH,     \* hits that kill: 4 in the code
          MAGAZINE,   \* bullets of a full magazine: 12
          COOLDOWN,   \* 180 ms, in ticks
          RELOAD,     \* 1.4 s, in ticks
          RESPAWN,    \* 3 s, in ticks
          HOLD,       \* a quarter of a second, in ticks: 15
          HANDSHAKE,  \* 5 s, in ticks
          SEQ_MAX     \* 2^31 - 1

ASSUME ArenaAssumption ==
  /\ \A n \in {FRAGS, DURATION, HEALTH, MAGAZINE, COOLDOWN, RELOAD, RESPAWN, SEQ_MAX} :
       n \in Nat \ {0}
  /\ HOLD \in Nat /\ HANDSHAKE \in Nat

VARIABLES
  phase,     \* LOBBY, IN_MATCH, RESULTS; DISCONNECTED once stopped
  enet,      \* the peers ENet has
  context,   \* admission._connections; state "none": no context
  roster,    \* the keys of members, in their order
  name,      \* members[id].name
  ready,     \* the members with ready = true
  detectors, \* the keys of detectors
  order,     \* the keys of pawns, in their order
  pawn,      \* the pawn of each peer in `order'
  inputs,    \* inputs[id]; age -1: none
  left,      \* match_left, in ticks
  turn,      \* the pawns the running tick still has to simulate
  stage,     \* "idle", or "pawns" within the physics tick of a match
  due,       \* history: the pulses of the last intent that simulate has not had
  twice      \* history: the peers with a pulse that simulate has had again

lobby == <<enet, context, roster, name, ready, detectors>>
game == <<order, pawn, inputs, left>>
ticking == <<turn, stage>>
avars == <<phase, lobby, game, ticking, due, twice>>

Members == ToSet(roster)
Pawns == ToSet(order)

NoContext == [state |-> "none", age |-> 0, last_sequence |-> 0, used |-> FALSE]
NoInput == [fire |-> FALSE, pulse |-> {}, age |-> -1]

\* The fields of an intent that act once: jump and reload.
PulseKinds == {"jump", "reload"}

\* What respawn sets; positions are left out.
Fresh(p) == [p EXCEPT !.health = HEALTH, !.ammo = MAGAZINE, !.reload = 0,
                      !.cooldown = 0, !.respawn = 0]
NewPawn == [health |-> HEALTH, ammo |-> MAGAZINE, reload |-> 0, cooldown |-> 0,
            respawn |-> 0, kills |-> 0, deaths |-> 0]

\* host, on a server that was just made.
AInit == /\ phase = "LOBBY"
         /\ enet = {} /\ context = [i \in Ids |-> NoContext]
         /\ roster = <<>> /\ name = [i \in Ids |-> "none"] /\ ready = {}
         /\ detectors = {}
         /\ order = <<>> /\ pawn = [i \in Ids |-> NewPawn]
         /\ inputs = [i \in Ids |-> NoInput] /\ left = DURATION
         /\ turn = <<>> /\ stage = "idle"
         /\ due = [i \in Ids |-> {}] /\ twice = {}

Serving == phase # "DISCONNECTED" /\ stage = "idle"

\* Dictionary.erase: the keys without i, in the same order.
Without(s, i) == IF \E k \in DOMAIN s : s[k] = i
                 THEN RemoveAt(s, CHOOSE k \in DOMAIN s : s[k] = i) ELSE s

-----------------------------------------------------------------------------
(* Signals and RPCs                                                        *)

PeerConnected(i) ==
  /\ Serving /\ i \notin enet
  /\ enet' = enet \cup {i}
  /\ context' = [context EXCEPT ![i] = [NoContext EXCEPT !.state = "PENDING"]]
  /\ due' = [due EXCEPT ![i] = {}]
  /\ UNCHANGED <<phase, roster, name, ready, detectors, game, ticking, twice>>

\* Mutant of PeerDisconnected: the pawn is freed and its key stays.
PeerDisconnectedKeepsPawn(i) ==
  /\ Serving /\ i \in enet
  /\ enet' = enet \ {i}
  /\ context' = [context EXCEPT ![i] = NoContext]
  /\ roster' = Without(roster, i) /\ ready' = ready \ {i}
  /\ inputs' = [inputs EXCEPT ![i] = NoInput]
  /\ detectors' = detectors \ {i}
  /\ UNCHANGED <<phase, name, order, pawn, left, ticking, due, twice>>

PeerDisconnected(i) ==
  /\ Serving /\ i \in enet
  /\ enet' = enet \ {i}
  /\ context' = [context EXCEPT ![i] = NoContext]
  /\ roster' = Without(roster, i) /\ ready' = ready \ {i}
  /\ inputs' = [inputs EXCEPT ![i] = NoInput]
  /\ detectors' = detectors \ {i}
  /\ order' = Without(order, i)
  /\ UNCHANGED <<phase, name, pawn, left, ticking, due, twice>>

\* hello is accepted; every other answer of AdmissionBoundary.hello changes nothing
\* here: ignored, disconnected by ENet later, or told why and left PENDING.
Hello(i, n) ==
  /\ Serving
  /\ context[i].state = "PENDING"
  /\ phase # "IN_MATCH"
  /\ \A j \in Members : name[j] # n
  /\ context' = [context EXCEPT ![i].state = "ADMITTED"]
  /\ roster' = Append(roster, i)
  /\ name' = [name EXCEPT ![i] = n]
  /\ detectors' = detectors \cup {i}
  /\ UNCHANGED <<phase, enet, ready, game, ticking, due, twice>>

Admitted(i) == context[i].state = "ADMITTED"

\* The members without a pawn, in the order of the roster.
Newcomers(new) ==
  /\ ToSet(new) = Members \ Pawns
  /\ \A a, b \in DOMAIN new : a < b => \E m, n \in DOMAIN roster :
       m < n /\ roster[m] = new[a] /\ roster[n] = new[b]

\* The match begins: the newcomers get a pawn, and all members respawn.
Start == /\ phase' = "IN_MATCH"
         /\ left' = DURATION
         /\ \E new \in BoundedSeq(Members, Len(roster)) :
              Newcomers(new) /\ order' = order \o new
         /\ pawn' = [i \in Ids |-> IF i \in Members THEN NewPawn ELSE pawn[i]]
         /\ inputs' = [i \in Ids |-> IF i \in Members THEN NoInput ELSE inputs[i]]

\* ready_request, for the session in course.
ReadyRequest(i) ==
  /\ Serving
  /\ Admitted(i) /\ i \in Members /\ phase \in {"LOBBY", "RESULTS"}
  /\ ready' = ready \cup {i}
  /\ IF ready' = Members /\ Len(roster) >= 2 THEN Start ELSE UNCHANGED <<phase, game>>
  /\ UNCHANGED <<enet, context, roster, name, detectors, ticking, due, twice>>

\* accept_intent, for the session in course and values in range.
AcceptIntent(i, seq, fire, pulse) ==
  /\ Serving /\ phase = "IN_MATCH"
  /\ Admitted(i) /\ i \in Pawns /\ i \in Members
  /\ seq > context[i].last_sequence /\ seq <= SEQ_MAX
  /\ ~context[i].used
  /\ context' = [context EXCEPT ![i].last_sequence = seq, ![i].used = TRUE]
  /\ inputs' = [inputs EXCEPT ![i] = [fire |-> fire, pulse |-> pulse, age |-> 0]]
  /\ due' = [due EXCEPT ![i] = pulse]
  /\ UNCHANGED <<phase, enet, roster, name, ready, detectors, order, pawn, left,
                 ticking, twice>>

\* stop, when the server is left.
Stop == /\ Serving
        /\ phase' = "DISCONNECTED"
        /\ enet' = {} /\ context' = [i \in Ids |-> NoContext]
        /\ roster' = <<>> /\ ready' = {} /\ detectors' = {}
        /\ order' = <<>> /\ inputs' = [i \in Ids |-> NoInput]
        /\ UNCHANGED <<name, pawn, left, ticking, due, twice>>

-----------------------------------------------------------------------------
(* _physics_process                                                        *)

Down(n) == IF n > 0 THEN n - 1 ELSE 0

\* One tick later: a handshake over its limit loses its context at once, and the
\* peer when ENet says so.
Aged(c) == IF c.state = "PENDING" /\ c.age >= HANDSHAKE THEN NoContext
           ELSE [c EXCEPT !.age = IF c.state = "PENDING" THEN @ + 1 ELSE 0,
                          !.used = FALSE]

\* The tick and the time each input has been held, as far as HOLD can tell.
Held(in) == IF in.age \in 0..HOLD THEN [in EXCEPT !.age = @ + 1] ELSE in

\* Mutant of TickBegin: the clock waits for a second player.
TickBeginWaits ==
  /\ Serving
  /\ context' = [i \in Ids |-> Aged(context[i])]
  /\ inputs' = [i \in Ids |-> Held(inputs[i])]
  /\ IF phase = "IN_MATCH"
     THEN /\ left' = IF Len(order) >= 2 THEN Down(left) ELSE left
          /\ turn' = order /\ stage' = "pawns"
     ELSE UNCHANGED <<left, ticking>>
  /\ UNCHANGED <<phase, enet, roster, name, ready, detectors, order, pawn, due, twice>>

TickBegin ==
  /\ Serving
  /\ context' = [i \in Ids |-> Aged(context[i])]
  /\ inputs' = [i \in Ids |-> Held(inputs[i])]
  /\ IF phase = "IN_MATCH"
     THEN left' = Down(left) /\ turn' = order /\ stage' = "pawns"
     ELSE UNCHANGED <<left, ticking>>
  /\ UNCHANGED <<phase, enet, roster, name, ready, detectors, order, pawn, due, twice>>

\* finish_match
Finish == phase' = "RESULTS" /\ ready' = {} /\ inputs' = [i \in Ids |-> NoInput]

\* damage: the health left, and a death if it is the last of it.
Hurt(p, amount) ==
  IF p.health > amount THEN [p EXCEPT !.health = @ - amount]
                       ELSE [p EXCEPT !.health = 0, !.deaths = @ + 1, !.respawn = RESPAWN]

\* A pawn without health waits for its respawn, whatever its input.
TurnDead(i) ==
  /\ pawn[i].health = 0
  /\ IF pawn[i].respawn <= 1
     THEN /\ pawn' = [pawn EXCEPT ![i] = Fresh(@)]
          /\ inputs' = [inputs EXCEPT ![i] = NoInput]
     ELSE /\ pawn' = [pawn EXCEPT ![i].respawn = @ - 1]
          /\ UNCHANGED inputs
  /\ turn' = Tail(turn)
  /\ UNCHANGED <<phase, ready, due, twice>>

\* The input simulate gets: none once it is too old.
Effective(i) == IF inputs[i].age \in 0..HOLD THEN inputs[i] ELSE NoInput

\* simulate: the cooldown, the reload under way, and a pulse that starts one.  A jump
\* changes the position only.
Simulated(p, in) ==
  LET ammo == IF p.reload = 1 THEN MAGAZINE ELSE p.ammo
      reload == Down(p.reload)
  IN [p EXCEPT !.cooldown = Down(@), !.ammo = ammo,
               !.reload = IF "reload" \in in.pulse /\ ammo < MAGAZINE /\ reload = 0
                          THEN RELOAD ELSE reload]

CanFire(p) == p.health > 0 /\ p.ammo > 0 /\ p.reload = 0 /\ p.cooldown = 0

Fired(p) == [p EXCEPT !.ammo = @ - 1, !.cooldown = COOLDOWN]

\* Mutant of Spent: a copy of the input is changed.
SpentCopy(in) == in

\* The input's pulses are used up in place.
Spent(in) == [in EXCEPT !.pulse = {}]

\* The pawns after i's turn up to its shot at v; v = i is a shot at nobody.
AfterShot(i, v) ==
  LET in == Effective(i)
      p == Simulated(pawn[i], in)
      fires == in.fire /\ CanFire(p)
      hit == fires /\ v # i
      kill == hit /\ Hurt(pawn[v], 1).health = 0
      shooter == IF fires THEN Fired(p) ELSE p
  IN [j \in Ids |-> CASE j = i -> [shooter EXCEPT !.kills = IF kill THEN @ + 1 ELSE @]
                      [] j = v /\ hit -> Hurt(pawn[v], 1)
                      [] OTHER -> pawn[j]]

\* Mutant of Wins: the limit has to be exceeded.
WinsAbove(i, after) == after[i].kills > pawn[i].kills /\ after[i].kills > FRAGS

\* damage ends the match when the shot made a kill and the kill made the limit.
Wins(i, after) == after[i].kills > pawn[i].kills /\ after[i].kills >= FRAGS

\* A living pawn moves, may fire and may fall. A shot that ends the match also ends
\* the loop, with the input's pulses and the fall unseen. A fall scores nobody, and
\* as nobody reaches it with the limit's kills (Wins), it never ends the match.
TurnAlive(i, v, fall) ==
  LET in == Effective(i)
      after == AfterShot(i, v)
  IN
  /\ pawn[i].health > 0
  /\ v # i => pawn[v].health > 0 /\ in.fire /\ CanFire(Simulated(pawn[i], in))
  /\ due' = [due EXCEPT ![i] = @ \ in.pulse]
  /\ twice' = IF in.pulse \subseteq due[i] THEN twice ELSE twice \cup {i}
  /\ IF Wins(i, after)
     THEN /\ pawn' = after
          /\ Finish
          /\ turn' = <<>>
     ELSE /\ pawn' = IF fall THEN [after EXCEPT ![i] = Hurt(@, HEALTH)] ELSE after
          /\ inputs' = [inputs EXCEPT ![i] = IF in = NoInput THEN @ ELSE Spent(@)]
          /\ turn' = Tail(turn)
          /\ UNCHANGED <<phase, ready>>

Turn ==
  /\ stage = "pawns" /\ turn # <<>>
  /\ LET i == Head(turn) IN
     \/ TurnDead(i)
     \/ \E v \in Pawns, fall \in BOOLEAN : TurnAlive(i, v, fall)
  /\ UNCHANGED <<enet, context, roster, name, detectors, order, left, stage>>

TickEnd ==
  /\ stage = "pawns" /\ turn = <<>>
  /\ stage' = "idle"
  /\ IF left = 0 THEN Finish ELSE UNCHANGED <<phase, ready, inputs>>
  /\ UNCHANGED <<enet, context, roster, name, detectors, order, pawn, left, turn,
                 due, twice>>

Tick == TickBegin \/ Turn \/ TickEnd

ANext ==
  \/ Tick
  \/ \E i \in Ids : PeerConnected(i) \/ PeerDisconnected(i) \/ ReadyRequest(i)
  \/ \E i \in Ids, n \in Names : Hello(i, n)
  \/ \E i \in Ids, seq \in 1..SEQ_MAX, fire \in BOOLEAN, pulse \in SUBSET PulseKinds :
       AcceptIntent(i, seq, fire, pulse)
  \/ Stop

\* The engine runs the physics ticks.
ASpec == AInit /\ [][ANext]_avars /\ WF_avars(Tick)

-----------------------------------------------------------------------------
PawnType == [health : 0..HEALTH, ammo : 0..MAGAZINE, reload : 0..RELOAD,
             cooldown : 0..COOLDOWN, respawn : 0..RESPAWN, kills : Nat, deaths : Nat]

\* Every variable has its type; health, bullets and timers keep their ranges.
ATypeOK ==
  /\ phase \in {"LOBBY", "IN_MATCH", "RESULTS", "DISCONNECTED"}
  /\ enet \subseteq Ids /\ ready \subseteq Ids /\ detectors \subseteq Ids
  /\ context \in [Ids -> [state : {"none", "PENDING", "ADMITTED"}, age : 0..HANDSHAKE,
                          last_sequence : 0..SEQ_MAX, used : BOOLEAN]]
  /\ roster \in Seq(Ids) /\ order \in Seq(Ids) /\ turn \in Seq(Ids)
  /\ name \in [Ids -> Names \cup {"none"}]
  /\ pawn \in [Ids -> PawnType]
  /\ inputs \in [Ids -> [fire : BOOLEAN, pulse : SUBSET PulseKinds, age : -1..(HOLD + 1)]]
  /\ left \in 0..DURATION /\ stage \in {"idle", "pawns"}
  /\ due \in [Ids -> SUBSET PulseKinds] /\ twice \subseteq Ids

\* The dictionaries that index one another agree whatever leaves or expires when:
\* members are the admitted connections and have a detector each, pawns belong to
\* members, in a match every member has one, and no two members have one name,
\* though a name is free again once its owner is gone. fire_weapon, damage and
\* observe look their keys up unchecked.
DictionariesAgree ==
  /\ Members = {i \in Ids : Admitted(i)} /\ Members = detectors
  /\ \A i \in Ids : context[i].state # "none" => i \in enet
  /\ ready \subseteq Members
  /\ \A i, j \in Members : i # j => name[i] # name[j]
  /\ Pawns \subseteq Members /\ ToSet(turn) \subseteq Pawns
  /\ phase = "IN_MATCH" => Pawns = Members
  /\ IsInjective(roster) /\ IsInjective(order)
  /\ \A i \in Ids : inputs[i] # NoInput => phase = "IN_MATCH" /\ i \in Pawns

\* A match stops at the kill that reaches the limit: nobody is above it, nobody is
\* at it while the match goes on, and no later shot of the same tick makes a second
\* winner.
OneWinner ==
  /\ \A i \in Pawns : pawn[i].kills <= FRAGS
  /\ phase = "IN_MATCH" => \A i \in Pawns : pawn[i].kills < FRAGS
  /\ \A i, j \in Pawns : pawn[i].kills = FRAGS /\ pawn[j].kills = FRAGS => i = j

\* "Jump/reload son pulsos consumidos": no pulse of an accepted intent reaches
\* the simulation a second time, however many ticks the intent is held.
PulsesOnce == twice = {}

\* A match comes to its end whoever leaves it, and so does its refusal of newcomers.
MatchEnds == phase = "IN_MATCH" ~> phase # "IN_MATCH"

\* README.md: "Con dos o mas jugadores preparados empieza FFA". No lobby of two or
\* more players has all of them ready and no match begun.
ReadyStarts == phase \in {"LOBBY", "RESULTS"} => ~(ready = Members /\ Len(roster) >= 2)
=============================================================================
