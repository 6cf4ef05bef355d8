------------------------------ MODULE GameCore ------------------------------
(***************************************************************************)
(* The authoritative two-player world of lab/game/game.c, driven by the    *)
(* commands of lab/app/game_host.c.  Lengths are counted in steps of       *)
(* GAME_STEP_MM.  An input is refused for the reason game_apply returns,   *)
(* and a refused input changes nothing, so only accepted ones are steps.   *)
(***************************************************************************)
EXTENDS Integers

CONSTANTS EDGE,        \* GAME_EDGE_MM: 100 steps
          RANGE,       \* GAME_RANGE_MM: 20 steps
          START,       \* where player 1 begins: 5 steps
          FIRE_TICKS, AMMO, HEALTH, DAMAGE,
          SEQ_MAX,     \* UINT32_MAX
          TICK_MAX     \* UINT64_MAX

ASSUME GameAssumption ==
  /\ EDGE \in Nat /\ RANGE \in Nat /\ START \in 1..EDGE
  /\ FIRE_TICKS \in Nat \ {0} /\ AMMO \in Nat
  /\ HEALTH \in Nat \ {0} /\ DAMAGE \in Nat \ {0}
  /\ SEQ_MAX \in Nat /\ TICK_MAX \in Nat

VARIABLES tick,    \* world.tick
          player   \* world.players

gvars == <<tick, player>>

Players == {0, 1}
Other(s) == 1 - s

\* The four unit vectors valid_input admits: one axis, never both.
Directions == {<<1, 0>>, <<-1, 0>>, <<0, 1>>, <<0, -1>>}

\* The decoded lab-game-input/1 records that pass valid_input: the match and the
\* session they name (`match' is whether it is this one), a sequence number, an
\* action and, for a MOVE only, a direction.
Inputs ==
  LET Of(actions, dirs) == [match : BOOLEAN, session : Players, sequence : 1..SEQ_MAX,
                            action : actions, dir : dirs]
  IN Of({"MOVE"}, Directions) \cup Of({"FIRE", "WAIT"}, {<<0, 0>>})

NewPlayer(x, facing) ==
  [x |-> x, y |-> 0, fx |-> facing, fy |-> 0, last_sequence |-> 0,
   has_input |-> FALSE, last_input_tick |-> 0, next_fire_tick |-> 0,
   ammo |-> AMMO, health |-> HEALTH, hits |-> 0, kills |-> 0, open |-> TRUE]

\* game_init
GInit == /\ tick = 0
         /\ player = [s \in Players |-> IF s = 0 THEN NewPlayer(0, 1)
                                                 ELSE NewPlayer(START, -1)]

Alive(s) == player[s].open /\ player[s].health > 0

\* hit: the other player is straight ahead, within range.
Hit(p, o) ==
  LET dx == o.x - p.x
      dy == o.y - p.y
  IN IF p.fx # 0 THEN dy = 0 /\ dx * p.fx > 0 /\ dx * p.fx <= RANGE
                 ELSE dx = 0 /\ dy * p.fy > 0 /\ dy * p.fy <= RANGE

\* Where a MOVE leads.
Moved(p, dir) == [p EXCEPT !.fx = dir[1], !.fy = dir[2],
                           !.x = @ + dir[1], !.y = @ + dir[2]]

Inside(p) == p.x \in (-EDGE)..EDGE /\ p.y \in (-EDGE)..EDGE

\* Mutant of MoveReason: nobody is in the way.
MoveReasonWallOnly(s, in) == IF ~Inside(Moved(player[s], in.dir)) THEN "WALL" ELSE "OK"

MoveReason(s, in) ==
  LET p == Moved(player[s], in.dir)
      o == player[Other(s)]
  IN IF ~Inside(p) THEN "WALL"
     ELSE IF Alive(Other(s)) /\ p.x = o.x /\ p.y = o.y THEN "OCCUPIED"
     ELSE "OK"

FireReason(s) ==
  IF player[s].ammo = 0 THEN "NO_AMMO"
  ELSE IF tick < player[s].next_fire_tick THEN "COOLDOWN"
  ELSE IF tick > TICK_MAX - FIRE_TICKS THEN "CLOCK_EXHAUSTED"
  ELSE "OK"

\* Mutant of InputReason: several inputs in one tick.
InputReasonBurst(s, in) ==
  LET p == player[s] IN
  IF ~in.match THEN "WRONG_MATCH"
  ELSE IF in.session # s THEN "WRONG_SESSION"
  ELSE IF ~p.open THEN "CLOSED"
  ELSE IF p.health = 0 THEN "DEAD"
  ELSE IF in.sequence = SEQ_MAX THEN "SEQUENCE_EXHAUSTED"
  ELSE IF in.sequence <= p.last_sequence THEN "REPLAY"
  ELSE "OK"

\* The checks of game_apply that no action escapes, in their order.
InputReason(s, in) ==
  LET p == player[s] IN
  IF ~in.match THEN "WRONG_MATCH"
  ELSE IF in.session # s THEN "WRONG_SESSION"
  ELSE IF ~p.open THEN "CLOSED"
  ELSE IF p.health = 0 THEN "DEAD"
  ELSE IF in.sequence = SEQ_MAX THEN "SEQUENCE_EXHAUSTED"
  ELSE IF in.sequence <= p.last_sequence THEN "REPLAY"
  ELSE IF p.has_input /\ p.last_input_tick = tick THEN "TICK_USED"
  ELSE "OK"

\* What an accepted input always does to its player.
Consume(p, in) == [p EXCEPT !.has_input = TRUE, !.last_input_tick = tick,
                            !.last_sequence = in.sequence]

Move(s, in) ==
  /\ in.action = "MOVE" /\ MoveReason(s, in) = "OK"
  /\ player' = [player EXCEPT ![s] = Consume(Moved(player[s], in.dir), in)]
  /\ UNCHANGED tick

\* The shooter pays with a bullet and the cooldown whether or not it hits.
Shot(p, damage, kill) ==
  [p EXCEPT !.next_fire_tick = tick + FIRE_TICKS, !.ammo = @ - 1,
            !.hits = IF damage THEN @ + 1 ELSE @,
            !.kills = IF damage /\ kill THEN @ + 1 ELSE @]

\* Mutant of Hurt: the underflow is avoided by leaving a weak player as it is.
HurtSpares(h) == IF h >= DAMAGE THEN h - DAMAGE ELSE h

Hurt(h) == IF h > DAMAGE THEN h - DAMAGE ELSE 0

Fire(s, in) ==
  LET o == player[Other(s)]
      damage == Alive(Other(s)) /\ Hit(player[s], o)
  IN
  /\ in.action = "FIRE" /\ FireReason(s) = "OK"
  /\ player' = [player EXCEPT
       ![s] = Consume(Shot(player[s], damage, o.health <= DAMAGE), in),
       ![Other(s)].health = IF damage THEN Hurt(@) ELSE @]
  /\ UNCHANGED tick

Wait(s, in) ==
  /\ in.action = "WAIT"
  /\ player' = [player EXCEPT ![s] = Consume(player[s], in)]
  /\ UNCHANGED tick

\* game_apply: the common checks, then the action and its own.
Apply(s, in) == /\ InputReason(s, in) = "OK"
                /\ Move(s, in) \/ Fire(s, in) \/ Wait(s, in)

\* game_host op 2: the supervisor's clock, which may skip ticks and never goes
\* back; game_advance is the case of one tick.
SetTick(t) == /\ t >= tick
              /\ tick' = t
              /\ UNCHANGED player

\* game_host op 3, game_close: a slot is never opened again.
CloseSlot(s) == /\ player' = [player EXCEPT ![s].open = FALSE]
                /\ UNCHANGED tick

GNext == \/ \E s \in Players, in \in Inputs : Apply(s, in)
         \/ \E t \in 0..TICK_MAX : SetTick(t)
         \/ \E s \in Players : CloseSlot(s)

GSpec == GInit /\ [][GNext]_gvars

-----------------------------------------------------------------------------
PlayerType ==
  [x : Int, y : Int, fx : -1..1, fy : -1..1, last_sequence : Nat,
   has_input : BOOLEAN, last_input_tick : Nat, next_fire_tick : Nat,
   ammo : Nat, health : Nat, hits : Nat, kills : Nat, open : BOOLEAN]

\* Every variable has its type: health and bullets never go below zero.
GTypeOK == tick \in Nat /\ player \in [Players -> PlayerType]

\* Nobody gains or loses health but by the bullets that hit: what a player lost is
\* what the other's hits took, a kill is counted once and exactly for a death, and
\* hits never outnumber the bullets spent.  The service relies on it when it
\* refuses, and stops, a worker whose counters leave these ranges (state()).
CombatLedger ==
  \A s \in Players :
    LET lost == DAMAGE * player[s].hits IN
    /\ player[Other(s)].health = IF lost < HEALTH THEN HEALTH - lost ELSE 0
    /\ player[s].kills = IF player[Other(s)].health = 0 THEN 1 ELSE 0
    /\ player[s].ammo + player[s].hits <= AMMO

Abs(n) == IF n < 0 THEN -n ELSE n
Home(s) == IF s = 0 THEN 0 ELSE START

\* A player is never further from home than one step for each tick begun: a burst
\* of inputs, or waiting before it, buys no speed, and no move leaves the arena.
SpeedBound ==
  \A s \in Players : /\ Abs(player[s].x - Home(s)) + Abs(player[s].y) <= tick + 1
                     /\ Inside(player[s])

\* The bullets spent by a tick fit the cooldown, whatever ticks are skipped.
FireRate ==
  \A s \in Players : (AMMO - player[s].ammo) * FIRE_TICKS <= tick + FIRE_TICKS

\* Two players who are both in the game never stand on one spot, though each only
\* checks the other when it moves, and may pass over the fallen.
NoOverlap == Alive(0) /\ Alive(1) => player[0].x # player[1].x \/ player[0].y # player[1].y
=============================================================================
