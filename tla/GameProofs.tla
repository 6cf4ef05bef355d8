----------------------------- MODULE GameProofs -----------------------------
(***************************************************************************)
(* The game of the laboratory: the properties of GameCore for every arena, *)
(* range, cooldown, amount of ammunition, health and damage, and those of  *)
(* GameService for any number of handlers and frames.                      *)
(***************************************************************************)
EXTENDS GameCore, GameService, FiniteSetTheorems, TLAPS

-----------------------------------------------------------------------------
(* The core: its inductive invariant, as formulas about a tick and player  *)
(* records                                                                 *)

\* The distance from home is bounded by the ticks in which an input was accepted.
Near(t, p, home) ==
  /\ Inside(p)
  /\ p.last_input_tick <= t
  /\ Abs(p.x - home) + Abs(p.y)
       <= (IF p.has_input /\ p.last_input_tick = t THEN t + 1 ELSE t)

\* The cooldown counts the bullets spent.
Cool(t, p) == /\ (AMMO - p.ammo) * FIRE_TICKS <= p.next_fire_tick
              /\ p.next_fire_tick <= t + FIRE_TICKS

\* What player p did to player o.
Ledger(p, o) ==
  /\ o.health = IF DAMAGE * p.hits < HEALTH THEN HEALTH - DAMAGE * p.hits ELSE 0
  /\ p.kills = IF o.health = 0 THEN 1 ELSE 0
  /\ p.ammo + p.hits <= AMMO

InGame(p) == p.open /\ p.health > 0

Apart(p, o) == InGame(p) /\ InGame(o) => p.x # o.x \/ p.y # o.y

World(t, f) ==
  /\ t \in Nat
  /\ f \in [Players -> PlayerType]
  /\ \A s \in Players : /\ Near(t, f[s], Home(s))
                        /\ Cool(t, f[s])
                        /\ Ledger(f[s], f[Other(s)])
                        /\ Apart(f[s], f[Other(s)])

CInv == World(tick, player)

-----------------------------------------------------------------------------
LEMMA OtherFacts ==
  ASSUME NEW s \in Players
  PROVE  Other(s) \in Players /\ Other(s) # s /\ Other(Other(s)) = s
BY DEF Players, Other

LEMMA BothSlots ==
  ASSUME NEW s \in Players, NEW t \in Players, t # s
  PROVE  t = Other(s)
BY DEF Players, Other

LEMMA OneMore ==
  ASSUME NEW h \in Int, NEW k \in Int
  PROVE  k * (h + 1) = k * h + k /\ k * h \in Int
OBVIOUS

\* The invariant of a world is that of its two players.
LEMMA WorldFrom ==
  ASSUME NEW t \in Nat, NEW f \in [Players -> PlayerType], NEW s \in Players,
         Near(t, f[s], Home(s)), Near(t, f[Other(s)], Home(Other(s))),
         Cool(t, f[s]), Cool(t, f[Other(s)]),
         Ledger(f[s], f[Other(s)]), Ledger(f[Other(s)], f[s]),
         Apart(f[s], f[Other(s)])
  PROVE  World(t, f)
<1> SUFFICES ASSUME NEW u \in Players
             PROVE  /\ Near(t, f[u], Home(u)) /\ Cool(t, f[u])
                    /\ Ledger(f[u], f[Other(u)])
                    /\ Apart(f[u], f[Other(u)])
  BY DEF World
<1>1. CASE u = s
  BY <1>1
<1>2. CASE u # s
  <2>1. u = Other(s) /\ Other(u) = s
    BY <1>2, BothSlots, OtherFacts
  <2>2. Apart(f[Other(s)], f[s])
    BY DEF Apart
  <2> QED
    BY <2>1, <2>2
<1> QED
  BY <1>1, <1>2

LEMMA WorldTo ==
  ASSUME NEW t, NEW f, NEW s \in Players, World(t, f)
  PROVE  /\ t \in Nat /\ f \in [Players -> PlayerType]
         /\ f[s] \in PlayerType /\ f[Other(s)] \in PlayerType
         /\ Near(t, f[s], Home(s)) /\ Near(t, f[Other(s)], Home(Other(s)))
         /\ Cool(t, f[s]) /\ Cool(t, f[Other(s)])
         /\ Ledger(f[s], f[Other(s)]) /\ Ledger(f[Other(s)], f[s])
         /\ Apart(f[s], f[Other(s)])
<1>1. Other(s) \in Players /\ Other(Other(s)) = s
  BY OtherFacts
<1>2. /\ Near(t, f[s], Home(s)) /\ Cool(t, f[s])
      /\ Ledger(f[s], f[Other(s)]) /\ Apart(f[s], f[Other(s)])
  BY DEF World
<1>3. /\ Near(t, f[Other(s)], Home(Other(s))) /\ Cool(t, f[Other(s)])
      /\ Ledger(f[Other(s)], f[s])
  BY <1>1 DEF World
<1> QED
  BY <1>1, <1>2, <1>3 DEF World

LEMMA InputType ==
  ASSUME NEW in \in Inputs
  PROVE  /\ in.sequence \in Nat
         /\ in.action = "MOVE" => in.dir \in Directions
BY GameAssumption DEF Inputs

LEMMA HomeType ==
  ASSUME NEW s \in Players
  PROVE  Home(s) \in Int
BY GameAssumption DEF Home, Players

LEMMA AbsType ==
  ASSUME NEW n \in Int
  PROVE  Abs(n) \in Int
BY DEF Abs

-----------------------------------------------------------------------------
(* What an action does to a record                                         *)

\* An accepted input that does not move leaves its player near home.
LEMMA StillNear ==
  ASSUME NEW t \in Nat, NEW p \in PlayerType, NEW q \in PlayerType, NEW home \in Int,
         Near(t, p, home), q.x = p.x, q.y = p.y, q.has_input, q.last_input_tick = t
  PROVE  Near(t, q, home)
<1>1. p.x \in Int /\ p.y \in Int
  BY DEF PlayerType
<1>2. Abs(p.x - home) \in Int /\ Abs(p.y) \in Int
  BY <1>1, AbsType
<1>3. Abs(p.x - home) + Abs(p.y) <= t + 1
  BY <1>2 DEF Near
<1> QED
  BY <1>2, <1>3 DEF Near, Inside

\* One step in one direction adds at most one to the distance.
LEMMA StepNear ==
  ASSUME NEW t \in Nat, NEW p \in PlayerType, NEW q \in PlayerType, NEW home \in Int,
         NEW dir \in Directions, Near(t, p, home),
         ~(p.has_input /\ p.last_input_tick = t),
         q.x = p.x + dir[1], q.y = p.y + dir[2], q.has_input, q.last_input_tick = t,
         Inside(q)
  PROVE  Near(t, q, home)
<1>1. p.x \in Int /\ p.y \in Int
  BY DEF PlayerType
<1>2. \/ q.x = p.x + 1 /\ q.y = p.y
      \/ q.x = p.x - 1 /\ q.y = p.y
      \/ q.x = p.x /\ q.y = p.y + 1
      \/ q.x = p.x /\ q.y = p.y - 1
  BY <1>1 DEF Directions
<1>3. Abs(p.x - home) + Abs(p.y) <= t
  BY DEF Near
<1>4. Abs(q.x - home) + Abs(q.y) <= t + 1
  BY <1>1, <1>2, <1>3 DEF Abs
<1> QED
  BY <1>4 DEF Near

\* A hit moves the ledger of shooter and target together.
LEMMA HitLedger ==
  ASSUME NEW p \in PlayerType, NEW o \in PlayerType, NEW q \in PlayerType,
         NEW r \in PlayerType, Ledger(p, o), o.health > 0, p.ammo # 0,
         q.hits = p.hits + 1, q.ammo = p.ammo - 1, r.health = Hurt(o.health),
         q.kills = IF o.health <= DAMAGE THEN p.kills + 1 ELSE p.kills
  PROVE  Ledger(q, r)
<1>1. o.health \in Nat /\ p.hits \in Nat /\ p.kills \in Nat /\ p.ammo \in Nat
  BY DEF PlayerType
<1>2. /\ DAMAGE * p.hits < HEALTH /\ o.health = HEALTH - DAMAGE * p.hits
      /\ p.kills = 0
  BY <1>1 DEF Ledger
<1>3. DAMAGE * q.hits = DAMAGE * p.hits + DAMAGE /\ DAMAGE * p.hits \in Int
  <2>1. DAMAGE \in Int /\ p.hits \in Int
    BY <1>1, GameAssumption
  <2>2. DAMAGE * (p.hits + 1) = DAMAGE * p.hits + DAMAGE /\ DAMAGE * p.hits \in Int
    BY <2>1, OneMore
  <2> QED
    BY <2>2
<1> DEFINE lost == DAMAGE * p.hits
           gone == DAMAGE * q.hits
<1>4. lost \in Int /\ gone = lost + DAMAGE /\ o.health = HEALTH - lost /\ lost < HEALTH
  BY <1>2, <1>3
<1> HIDE DEF lost, gone
<1>5. r.health = IF gone < HEALTH THEN HEALTH - gone ELSE 0
  BY <1>1, <1>4, GameAssumption DEF Hurt
<1>6. q.kills = IF r.health = 0 THEN 1 ELSE 0
  BY <1>1, <1>2, GameAssumption DEF Hurt
<1>7. q.ammo + q.hits <= AMMO
  BY <1>1, GameAssumption DEF Ledger
<1> QED
  BY <1>5, <1>6, <1>7 DEF Ledger, gone

\* A shot moves the cooldown by what it spends.
LEMMA ShotCool ==
  ASSUME NEW t \in Nat, NEW p \in PlayerType, NEW q \in PlayerType, Cool(t, p),
         p.next_fire_tick <= t, q.ammo = p.ammo - 1, q.next_fire_tick = t + FIRE_TICKS
  PROVE  Cool(t, q)
<1>1. p.ammo \in Int /\ p.next_fire_tick \in Int /\ FIRE_TICKS \in Int /\ AMMO \in Int
  BY GameAssumption DEF PlayerType
<1>2. /\ FIRE_TICKS * ((AMMO - p.ammo) + 1) = FIRE_TICKS * (AMMO - p.ammo) + FIRE_TICKS
      /\ FIRE_TICKS * (AMMO - p.ammo) \in Int
  BY <1>1, OneMore
<1>3. AMMO - q.ammo = (AMMO - p.ammo) + 1
  BY <1>1
<1>4. (AMMO - q.ammo) * FIRE_TICKS = FIRE_TICKS * (AMMO - p.ammo) + FIRE_TICKS
  BY <1>1, <1>2, <1>3
<1>5. FIRE_TICKS * (AMMO - p.ammo) <= p.next_fire_tick
  BY <1>1 DEF Cool
<1> DEFINE spent == FIRE_TICKS * (AMMO - p.ammo)
<1> HIDE DEF spent
<1>6. (AMMO - q.ammo) * FIRE_TICKS = spent + FIRE_TICKS /\ spent <= p.next_fire_tick
      /\ spent \in Int
  BY <1>2, <1>4, <1>5 DEF spent
<1> QED
  BY <1>1, <1>6 DEF Cool

-----------------------------------------------------------------------------
(* Each action preserves the invariant                                     *)

LEMMA MoveStep ==
  ASSUME CInv, NEW s \in Players, NEW in \in Inputs,
         InputReason(s, in) = "OK", Move(s, in)
  PROVE  CInv'
<1> DEFINE p == player[s]
           o == player[Other(s)]
           q == Consume(Moved(p, in.dir), in)
<1>1. /\ tick \in Nat /\ player \in [Players -> PlayerType]
      /\ p \in PlayerType /\ o \in PlayerType
      /\ Near(tick, p, Home(s)) /\ Near(tick, o, Home(Other(s)))
      /\ Cool(tick, p) /\ Cool(tick, o) /\ Ledger(p, o) /\ Ledger(o, p)
  BY WorldTo DEF CInv
<1>2. in.dir \in Directions /\ in.sequence \in Nat
  BY InputType DEF Move
<1>3. in.dir[1] \in -1..1 /\ in.dir[2] \in -1..1
  BY <1>2 DEF Directions
<1>4. q \in PlayerType
  <2>1. p.x + in.dir[1] \in Int /\ p.y + in.dir[2] \in Int
    BY <1>1, <1>3 DEF PlayerType
  <2>2. Moved(p, in.dir) \in PlayerType
    BY <1>1, <1>3, <2>1 DEF Moved, PlayerType
  <2> QED
    BY <1>1, <1>2, <2>2 DEF Consume, PlayerType
<1>5. /\ q.x = p.x + in.dir[1] /\ q.y = p.y + in.dir[2]
      /\ q.has_input /\ q.last_input_tick = tick
      /\ q.ammo = p.ammo /\ q.health = p.health /\ q.hits = p.hits
      /\ q.kills = p.kills /\ q.open = p.open
      /\ q.next_fire_tick = p.next_fire_tick
  BY <1>1 DEF Consume, Moved, PlayerType
<1>6. /\ ~(p.has_input /\ p.last_input_tick = tick)
      /\ Inside(Moved(p, in.dir))
      /\ ~(InGame(o) /\ Moved(p, in.dir).x = o.x /\ Moved(p, in.dir).y = o.y)
  BY DEF Move, InputReason, MoveReason, Alive, InGame
<1>7. Moved(p, in.dir).x = q.x /\ Moved(p, in.dir).y = q.y
  BY <1>1 DEF Consume, Moved, PlayerType
<1>8. Near(tick, q, Home(s))
  <2>1. Inside(q)
    BY <1>6, <1>7 DEF Inside
  <2> QED
    BY <1>1, <1>2, <1>4, <1>5, <1>6, <2>1, HomeType, StepNear
<1>9. Cool(tick, q) /\ Ledger(q, o) /\ Ledger(o, q) /\ Apart(q, o)
  BY <1>1, <1>5, <1>6, <1>7 DEF Cool, Ledger, Apart
<1>10. /\ tick' = tick /\ player' \in [Players -> PlayerType]
       /\ player'[s] = q /\ player'[Other(s)] = o
  BY <1>1, <1>4, OtherFacts DEF Move
<1> HIDE DEF q
<1> QED
  BY <1>1, <1>8, <1>9, <1>10, WorldFrom DEF CInv

LEMMA WaitStep ==
  ASSUME CInv, NEW s \in Players, NEW in \in Inputs, Wait(s, in)
  PROVE  CInv'
<1> DEFINE p == player[s]
           o == player[Other(s)]
           q == Consume(p, in)
<1>1. /\ tick \in Nat /\ player \in [Players -> PlayerType]
      /\ p \in PlayerType /\ o \in PlayerType
      /\ Near(tick, p, Home(s)) /\ Near(tick, o, Home(Other(s)))
      /\ Cool(tick, p) /\ Cool(tick, o) /\ Ledger(p, o) /\ Ledger(o, p)
      /\ Apart(p, o)
  BY WorldTo DEF CInv
<1>2. q \in PlayerType
  BY <1>1, InputType DEF Consume, PlayerType
<1>3. /\ q.x = p.x /\ q.y = p.y /\ q.has_input /\ q.last_input_tick = tick
      /\ q.ammo = p.ammo /\ q.health = p.health /\ q.hits = p.hits
      /\ q.kills = p.kills /\ q.open = p.open
      /\ q.next_fire_tick = p.next_fire_tick
  BY <1>1 DEF Consume, PlayerType
<1>4. Near(tick, q, Home(s))
  BY <1>1, <1>2, <1>3, HomeType, StillNear
<1>5. Cool(tick, q) /\ Ledger(q, o) /\ Ledger(o, q) /\ Apart(q, o)
  BY <1>1, <1>3 DEF Cool, Ledger, Apart, InGame
<1>6. /\ tick' = tick /\ player' \in [Players -> PlayerType]
      /\ player'[s] = q /\ player'[Other(s)] = o
  BY <1>1, <1>2, OtherFacts DEF Wait
<1> HIDE DEF q
<1> QED
  BY <1>1, <1>4, <1>5, <1>6, WorldFrom DEF CInv

LEMMA FireStep ==
  ASSUME CInv, NEW s \in Players, NEW in \in Inputs, Fire(s, in)
  PROVE  CInv'
<1> DEFINE p == player[s]
           o == player[Other(s)]
           damage == Alive(Other(s)) /\ Hit(p, o)
           q == Consume(Shot(p, damage, o.health <= DAMAGE), in)
           r == [o EXCEPT !.health = IF damage THEN Hurt(@) ELSE @]
<1>1. /\ tick \in Nat /\ player \in [Players -> PlayerType]
      /\ p \in PlayerType /\ o \in PlayerType
      /\ Near(tick, p, Home(s)) /\ Near(tick, o, Home(Other(s)))
      /\ Cool(tick, p) /\ Cool(tick, o) /\ Ledger(p, o) /\ Ledger(o, p)
      /\ Apart(p, o)
  BY WorldTo DEF CInv
<1>2. p.ammo # 0 /\ p.next_fire_tick <= tick
  BY <1>1 DEF Fire, FireReason, PlayerType
<1>3. /\ damage \in BOOLEAN
      /\ damage => o.health > 0
  BY DEF Alive
<1>4. player' = [player EXCEPT ![s] = q, ![Other(s)].health = IF damage THEN Hurt(@) ELSE @]
  BY DEF Fire
<1>5. tick' = tick
  BY DEF Fire
<1> HIDE DEF damage
<1>6. Hurt(o.health) \in Nat /\ (Hurt(o.health) > 0 => o.health > 0)
  BY <1>1, GameAssumption DEF Hurt, PlayerType
<1>7. r \in PlayerType
  BY <1>1, <1>3, <1>6 DEF PlayerType
<1>8. q \in PlayerType
  <2>1. /\ p.ammo - 1 \in Nat /\ tick + FIRE_TICKS \in Nat /\ in.sequence \in Nat
        /\ p.hits + 1 \in Nat /\ p.kills + 1 \in Nat
    BY <1>1, <1>2, InputType, GameAssumption DEF PlayerType
  <2>2. Shot(p, damage, o.health <= DAMAGE) \in PlayerType
    BY <1>1, <2>1 DEF Shot, PlayerType
  <2> QED
    BY <1>1, <2>1, <2>2 DEF Consume, PlayerType
<1>9. /\ q.x = p.x /\ q.y = p.y /\ q.health = p.health /\ q.open = p.open
      /\ q.ammo = p.ammo - 1 /\ q.next_fire_tick = tick + FIRE_TICKS
      /\ q.hits = (IF damage THEN p.hits + 1 ELSE p.hits)
      /\ q.kills = (IF damage /\ o.health <= DAMAGE THEN p.kills + 1 ELSE p.kills)
      /\ q.last_input_tick = tick /\ q.has_input
  BY <1>1 DEF Consume, Shot, PlayerType
<1>10. /\ r.x = o.x /\ r.y = o.y /\ r.open = o.open /\ r.ammo = o.ammo
       /\ r.next_fire_tick = o.next_fire_tick /\ r.hits = o.hits /\ r.kills = o.kills
       /\ r.last_input_tick = o.last_input_tick /\ r.has_input = o.has_input
       /\ r.health = (IF damage THEN Hurt(o.health) ELSE o.health)
  BY <1>1 DEF PlayerType
<1>11. /\ player' \in [Players -> PlayerType]
       /\ player'[s] = q /\ player'[Other(s)] = r
  <2>1. s \in Players /\ Other(s) \in Players /\ Other(s) # s
    BY OtherFacts
  <2> HIDE DEF q
  <2> QED
    BY <1>1, <1>4, <1>7, <1>8, <2>1
<1> HIDE DEF q, r
<1>12. Near(tick, q, Home(s))
  BY <1>1, <1>8, <1>9, HomeType, StillNear
<1>13. Near(tick, r, Home(Other(s)))
  BY <1>1, <1>10 DEF Near, Inside
<1>14. Cool(tick, q) /\ Cool(tick, r)
  <2>1. Cool(tick, q)
    BY <1>1, <1>2, <1>8, <1>9, ShotCool
  <2> QED
    BY <1>1, <1>10, <2>1 DEF Cool
<1>15. Ledger(r, q)
  BY <1>1, <1>9, <1>10 DEF Ledger
<1>16. Ledger(q, r)
  <2>1. CASE damage
    BY <1>1, <1>2, <1>3, <1>7, <1>8, <1>9, <1>10, <2>1, HitLedger
  <2>2. CASE ~damage
    BY <1>1, <1>2, <1>9, <1>10, <2>2, GameAssumption DEF Ledger, PlayerType
  <2> QED
    BY <2>1, <2>2
<1>17. Apart(q, r)
  BY <1>1, <1>3, <1>6, <1>9, <1>10 DEF Apart, InGame
<1> QED
  BY <1>1, <1>5, <1>11, <1>12, <1>13, <1>14, <1>15, <1>16, <1>17, WorldFrom DEF CInv

LEMMA TickStep ==
  ASSUME CInv, NEW t \in 0..TICK_MAX, SetTick(t)
  PROVE  CInv'
<1>1. tick \in Nat /\ t \in Nat /\ t >= tick /\ tick' = t /\ player' = player
      /\ player \in [Players -> PlayerType]
  BY GameAssumption DEF CInv, World, SetTick
<1>2. ASSUME NEW s \in Players
      PROVE  Near(t, player[s], Home(s)) /\ Cool(t, player[s])
  <2> DEFINE p == player[s]
  <2>1. p \in PlayerType /\ Near(tick, p, Home(s)) /\ Cool(tick, p)
    BY DEF CInv, World
  <2>2. p.x \in Int /\ p.y \in Int /\ p.last_input_tick \in Int
        /\ p.next_fire_tick \in Int
    BY <2>1 DEF PlayerType
  <2>3. Abs(p.x - Home(s)) \in Int /\ Abs(p.y) \in Int
    BY <2>2, HomeType, AbsType
  <2>4. Near(t, p, Home(s))
    BY <1>1, <2>1, <2>2, <2>3 DEF Near
  <2>5. Cool(t, p)
    BY <1>1, <2>1, <2>2, GameAssumption DEF Cool
  <2> QED
    BY <2>4, <2>5
<1> QED
  BY <1>1, <1>2 DEF CInv, World

LEMMA CloseStep ==
  ASSUME CInv, NEW s \in Players, CloseSlot(s)
  PROVE  CInv'
<1> DEFINE p == player[s]
           o == player[Other(s)]
           q == [p EXCEPT !.open = FALSE]
<1>1. /\ tick \in Nat /\ player \in [Players -> PlayerType]
      /\ p \in PlayerType /\ o \in PlayerType
      /\ Near(tick, p, Home(s)) /\ Near(tick, o, Home(Other(s)))
      /\ Cool(tick, p) /\ Cool(tick, o) /\ Ledger(p, o) /\ Ledger(o, p)
  BY WorldTo DEF CInv
<1>2. q \in PlayerType
  BY <1>1 DEF PlayerType
<1>3. /\ q.x = p.x /\ q.y = p.y /\ q.has_input = p.has_input
      /\ q.last_input_tick = p.last_input_tick
      /\ q.ammo = p.ammo /\ q.health = p.health /\ q.hits = p.hits
      /\ q.kills = p.kills /\ q.open = FALSE
      /\ q.next_fire_tick = p.next_fire_tick
  BY <1>1 DEF PlayerType
<1>4. Near(tick, q, Home(s))
  BY <1>1, <1>3 DEF Near, Inside
<1>5. Cool(tick, q) /\ Ledger(q, o) /\ Ledger(o, q) /\ Apart(q, o)
  BY <1>1, <1>3 DEF Cool, Ledger, Apart, InGame
<1>6. /\ tick' = tick /\ player' \in [Players -> PlayerType]
      /\ player'[s] = q /\ player'[Other(s)] = o
  BY <1>1, <1>2, OtherFacts DEF CloseSlot
<1> HIDE DEF q
<1> QED
  BY <1>1, <1>4, <1>5, <1>6, WorldFrom DEF CInv

LEMMA InitWorld == GInit => CInv
<1> SUFFICES ASSUME GInit PROVE CInv
  OBVIOUS
<1> DEFINE p == player[0]
           o == player[1]
<1>1. tick = 0 /\ p = NewPlayer(0, 1) /\ o = NewPlayer(START, -1)
  BY DEF GInit, Players
<1>2. p \in PlayerType /\ o \in PlayerType /\ player \in [Players -> PlayerType]
  BY <1>1, GameAssumption DEF GInit, NewPlayer, PlayerType, Players
<1>3. Near(0, p, Home(0)) /\ Near(0, o, Home(1))
  BY <1>1, GameAssumption DEF NewPlayer, Near, Inside, Abs, Home
<1>4. Cool(0, p) /\ Cool(0, o)
  BY <1>1, GameAssumption DEF NewPlayer, Cool
<1>5. Ledger(p, o) /\ Ledger(o, p)
  BY <1>1, GameAssumption DEF NewPlayer, Ledger
<1>6. Apart(p, o)
  BY <1>1, GameAssumption DEF NewPlayer, Apart
<1>7. 0 \in Players /\ Other(0) = 1 /\ 0 \in Nat
  BY DEF Players, Other
<1> HIDE DEF p, o
<1> QED
  BY <1>1, <1>2, <1>3, <1>4, <1>5, <1>6, <1>7, WorldFrom DEF CInv, p, o

\* The strengthened invariant holds of every run of the game, whatever inputs
\* arrive on either slot and however the clock jumps.
THEOREM GameInvariant == GSpec => []CInv
<1>1. GInit => CInv
  BY InitWorld
<1>2. CInv /\ [GNext]_gvars => CInv'
  <2> SUFFICES ASSUME CInv, [GNext]_gvars PROVE CInv'
    OBVIOUS
  <2>1. CASE UNCHANGED gvars
    BY <2>1 DEF gvars, CInv
  <2>2. CASE GNext
    BY <2>2, MoveStep, FireStep, WaitStep, TickStep, CloseStep DEF GNext, Apply
  <2> QED
    BY <2>1, <2>2
<1> QED
  BY <1>1, <1>2, PTL DEF GSpec

\* For all constants: the tick and both players keep their types.
THEOREM GameTypes == GSpec => []GTypeOK
<1>1. CInv => GTypeOK
  BY DEF CInv, World, GTypeOK
<1> QED
  BY <1>1, GameInvariant, PTL

\* For all constants: health, hits, kills and ammunition of the two players always
\* tell the same story, so the service never sees a worker out of range.
THEOREM GameLedger == GSpec => []CombatLedger
<1>1. CInv => CombatLedger
  BY DEF CInv, World, CombatLedger, Ledger
<1> QED
  BY <1>1, GameInvariant, PTL

\* For all constants: no schedule of inputs and ticks moves a player faster than
\* one step a tick, or out of the arena.
THEOREM GameSpeed == GSpec => []SpeedBound
<1>1. CInv => SpeedBound
  <2> SUFFICES ASSUME CInv, NEW s \in Players
               PROVE  /\ Abs(player[s].x - Home(s)) + Abs(player[s].y) <= tick + 1
                      /\ Inside(player[s])
    BY DEF SpeedBound
  <2> DEFINE p == player[s]
  <2>1. tick \in Nat /\ p \in PlayerType /\ Near(tick, p, Home(s))
    BY DEF CInv, World
  <2>2. Abs(p.x - Home(s)) \in Int /\ Abs(p.y) \in Int
    BY <2>1, HomeType, AbsType DEF PlayerType
  <2> QED
    BY <2>1, <2>2 DEF Near
<1> QED
  BY <1>1, GameInvariant, PTL

\* For all constants: bullets leave no faster than the cooldown allows.
THEOREM GameFireRate == GSpec => []FireRate
<1>1. CInv => FireRate
  <2> SUFFICES ASSUME CInv, NEW s \in Players
               PROVE  (AMMO - player[s].ammo) * FIRE_TICKS <= tick + FIRE_TICKS
    BY DEF FireRate
  <2> DEFINE p == player[s]
             spent == (AMMO - p.ammo) * FIRE_TICKS
  <2>1. tick \in Nat /\ p \in PlayerType /\ Cool(tick, p)
    BY DEF CInv, World
  <2>2. spent \in Int /\ p.next_fire_tick \in Int
    BY <2>1, GameAssumption DEF PlayerType
  <2>3. spent <= p.next_fire_tick /\ p.next_fire_tick <= tick + FIRE_TICKS
    BY <2>1 DEF Cool
  <2> HIDE DEF spent
  <2>4. spent <= tick + FIRE_TICKS
    BY <2>1, <2>2, <2>3, GameAssumption
  <2> QED
    BY <2>4 DEF spent
<1> QED
  BY <1>1, GameInvariant, PTL

\* For all constants: two players in the game never share a position.
THEOREM GameNoOverlap == GSpec => []NoOverlap
<1>1. CInv => NoOverlap
  <2>1. 0 \in Players /\ Other(0) = 1
    BY DEF Players, Other
  <2> QED
    BY <2>1 DEF CInv, World, NoOverlap, Apart, InGame, Alive
<1> QED
  BY <1>1, GameInvariant, PTL

-----------------------------------------------------------------------------
(* The service: its inductive invariant                                    *)

\* What a handler asks fits where it is, and it is only the owner of a slot who asks
\* for more than a probe.
Fits(h) ==
  /\ pc[h] \in {"free", "refusing"} => op[h] = "none" /\ ~owned[h]
  /\ pc[h] = "lock" => op[h] \in {"probe", "hello", "tick", "close"}
  /\ pc[h] = "reply" => op[h] \in {"probe", "hello", "tick", "input", "close"}
  /\ pc[h] = "send" => op[h] \in {"probe", "hello", "input", "inactive"}
  /\ pc[h] = "read" => op[h] \in {"hello", "input", "inactive"}
  /\ pc[h] = "finally" => op[h] # "close"
  /\ op[h] \notin {"none", "probe"} => owned[h]
  /\ op[h] \in {"tick", "input"} => \A s \in Slots : claimed[s]

\* The owner of a slot has it open until it asks to close it, and leaves it closed.
Owner(h) ==
  owned[h] => /\ slot[h] \in Slots /\ claimed[slot[h]]
              /\ op[h] # "close" => slot[h] \in open
              /\ pc[h] = "writer" => slot[h] \notin open \/ broken

\* Only the holder of the lock waits for a reply, and only of a worker that is used;
\* its command is the only thing in the pipes.
Alone(h) ==
  pc[h] = "reply" =>
    /\ ~broken /\ line # <<>> /\ Head(line) = h
    /\ \/ stdin = <<Command(h)>> /\ stdout = <<>>
       \/ /\ stdin = <<>> /\ stdout = <<Command(h)>> /\ done = Command(h)
          /\ op[h] = "close" => slot[h] \notin open

\* What the command in the pipe finds when the worker gets to it.
Sound(m) ==
  /\ m.op = "close" => /\ m.slot \in Slots /\ claimed[m.slot]
                       /\ \A h \in Handlers : owned[h] /\ slot[h] = m.slot => op[h] = "close"
  /\ m.op = "input" => /\ done = [m EXCEPT !.op = "tick"] /\ m.slot \in open
                       /\ \A s \in Slots : claimed[s]

\* The worker has at most one command to do, and none that nobody waits for, once
\* the service has not given it up.
Pipes ==
  /\ stdin = <<>> \/ \E m \in Commands : stdin = <<m>> /\ Sound(m)
  /\ ~broken /\ (\A h \in Handlers : pc[h] # "reply") => stdin = <<>> /\ stdout = <<>>

\* A slot has one owner at most, and is open until it is claimed.
Owners ==
  /\ \A h, k \in Handlers : owned[h] /\ owned[k] /\ slot[h] = slot[k] => h = k
  /\ \A s \in Slots : /\ ~claimed[s] => s \in open
                      /\ connected[s] => claimed[s]
                      /\ claimed[s] /\ (\A h \in Handlers : ~(owned[h] /\ slot[h] = s))
                           => s \notin open \/ broken

GInv == /\ GSTypeOK
        /\ \A h \in Handlers : Fits(h) /\ Owner(h) /\ Alone(h)
        /\ Pipes
        /\ Owners
        /\ ReplyIsOwn

-----------------------------------------------------------------------------
(* Sequences, and the initial states                                       *)

LEMMA One == \A m : /\ Append(<<>>, m) = <<m>> /\ Head(<<m>>) = m
                    /\ Tail(<<m>>) = <<>> /\ <<m>> # <<>>
OBVIOUS

LEMMA Joins ==
  ASSUME NEW S, NEW s \in Seq(S), NEW x \in S
  PROVE  /\ Append(s, x) \in Seq(S) /\ Append(s, x) # <<>>
         /\ s # <<>> => Head(Append(s, x)) = Head(s)
BY SMTT(30)

LEMMA Shrinks ==
  ASSUME NEW S, NEW s \in Seq(S), s # <<>>
  PROVE  Tail(s) \in Seq(S) /\ Head(s) \in S
OBVIOUS

LEMMA Typed ==
  /\ Nothing \in Commands
  /\ \A m \in Commands : m.op \in Ops /\ m.slot \in Slots \cup {NoSlot}
  /\ GSTypeOK => \A h \in Handlers :
       /\ Command(h) \in Commands /\ Command(h).op = op[h] /\ Command(h).slot = slot[h]
       /\ [Command(h) EXCEPT !.op = "input"] = [by |-> h, op |-> "input", slot |-> slot[h]]
       /\ [Command(h) EXCEPT !.op = "input"] \in Commands
BY DEF GSTypeOK, Commands, Command, Nothing, Ops, Slots, NoSlot

LEMMA InitInv == GSInit => GInv
<1> SUFFICES ASSUME GSInit PROVE GInv
  OBVIOUS
<1>1. GSTypeOK
  <2>1. FRAMES \in 0..FRAMES /\ <<>> \in Seq(Handlers) /\ <<>> \in Seq(Commands)
    BY SessionAssumption
  <2> QED
    BY <2>1, Typed DEF GSInit, GSTypeOK, Ops
<1>2. \A h \in Handlers : Fits(h) /\ Owner(h) /\ Alone(h)
  BY DEF GSInit, Fits, Owner, Alone
<1>3. Pipes /\ Owners /\ ReplyIsOwn
  BY DEF GSInit, Pipes, Owners, ReplyIsOwn
<1> QED
  BY <1>1, <1>2, <1>3 DEF GInv

-----------------------------------------------------------------------------
(* One action at a time                                                    *)

\* A step of a handler that neither asks the worker nor hears from it.
LEMMA PipesKept ==
  ASSUME GInv, NEW h \in Handlers, pc[h] # "reply", pc'[h] # "reply",
         \A k \in Handlers : k # h => /\ pc'[k] = pc[k] /\ op'[k] = op[k]
                                      /\ slot'[k] = slot[k] /\ owned'[k] = owned[k],
         stdin' = stdin, stdout' = stdout, done' = done, open' = open, broken' = broken,
         line # <<>> => line' # <<>> /\ Head(line') = Head(line),
         \A s \in Slots : claimed[s] => claimed'[s],
         owned'[h] => \/ op'[h] = "close" \/ ~claimed[slot'[h]]
                      \/ owned[h] /\ slot'[h] = slot[h] /\ op[h] # "close"
  PROVE  (\A k \in Handlers : Alone(k)') /\ Pipes'
<1>1. ASSUME NEW k \in Handlers PROVE Alone(k)'
  BY DEF GInv, Alone, Command
<1>2. ASSUME NEW m, Sound(m) PROVE Sound(m)'
  BY <1>2 DEF Sound
<1>3. Pipes'
  BY <1>2 DEF GInv, Pipes
<1> QED
  BY <1>1, <1>3

LEMMA AcceptInv ==
  ASSUME GInv, NEW h \in Handlers, NEW s \in Slots \cup {NoSlot}, Accept(h, s)
  PROVE  GInv'
<1>0. line \in Seq(Handlers) /\ stdin \in Seq(Commands) /\ stdout \in Seq(Commands)
  BY DEF GInv, GSTypeOK
<1>1. /\ pc[h] = "free" /\ slot' = [slot EXCEPT ![h] = s] /\ frames' = frames /\ got' = got
      /\ stdin' = stdin /\ stdout' = stdout /\ alive' = alive /\ open' = open /\ done' = done
      /\ listening' = listening /\ closing' = closing /\ stopped' = stopped
      /\ op[h] = "none" /\ ~owned[h]
  BY DEF Accept, worker, server, GInv, Fits
<1>2. \/ /\ pc' = [pc EXCEPT ![h] = "refusing"] /\ owned' = owned /\ op' = op /\ line' = line
         /\ claimed' = claimed /\ connected' = connected /\ broken' = broken
      \/ /\ s \in Slots /\ ~broken
         /\ pc' = [pc EXCEPT ![h] = "lock"] /\ op' = [op EXCEPT ![h] = "probe"]
         /\ line' = Append(line, h) /\ owned' = owned
         /\ claimed' = claimed /\ connected' = connected /\ broken' = broken
      \/ /\ s \in Slots /\ ~broken /\ ~claimed[s]
         /\ pc' = [pc EXCEPT ![h] = "lock"] /\ op' = [op EXCEPT ![h] = "hello"]
         /\ line' = Append(line, h) /\ owned' = [owned EXCEPT ![h] = TRUE]
         /\ claimed' = [claimed EXCEPT ![s] = TRUE]
         /\ connected' = [connected EXCEPT ![s] = TRUE] /\ broken' = broken
  BY DEF Accept, WaitLock, Goto, service
<1>3. /\ line' \in Seq(Handlers) /\ broken' = broken
      /\ line # <<>> => line' # <<>> /\ Head(line') = Head(line)
  <2>1. broken' = broken /\ (line' = line \/ line' = Append(line, h))
    BY <1>2
  <2> QED
    BY <1>0, <2>1, Joins, ZenonT(30)
<1>4. GSTypeOK'
  BY <1>1, <1>2, <1>3 DEF GInv, GSTypeOK, Ops
<1>5. ASSUME NEW k \in Handlers PROVE Fits(k)'
  BY <1>1, <1>2 DEF GInv, GSTypeOK, Fits
<1>6. ASSUME NEW k \in Handlers PROVE Owner(k)'
  BY <1>1, <1>2 DEF GInv, GSTypeOK, Owner, Owners
<1>7. (\A k \in Handlers : Alone(k)') /\ Pipes'
  <2>1. pc'[h] # "reply"
    BY <1>1, <1>2 DEF GInv, GSTypeOK
  <2>2. \A k \in Handlers : k # h => /\ pc'[k] = pc[k] /\ op'[k] = op[k]
                                     /\ slot'[k] = slot[k] /\ owned'[k] = owned[k]
    BY <1>1, <1>2 DEF GInv, GSTypeOK
  <2>3. \A x \in Slots : claimed[x] => claimed'[x]
    BY <1>2 DEF GInv, GSTypeOK
  <2>4. owned'[h] => ~claimed[slot'[h]]
    BY <1>1, <1>2 DEF GInv, GSTypeOK
  <2> QED
    BY <1>1, <1>3, <2>1, <2>2, <2>3, <2>4, PipesKept
<1>8. Owners'
  <2>1. CASE owned' = owned /\ claimed' = claimed /\ connected' = connected
    BY <1>1, <1>3, <2>1 DEF GInv, GSTypeOK, Owners
  <2>2. CASE /\ s \in Slots /\ ~claimed[s] /\ owned' = [owned EXCEPT ![h] = TRUE]
             /\ claimed' = [claimed EXCEPT ![s] = TRUE]
             /\ connected' = [connected EXCEPT ![s] = TRUE]
    <3>1. \A k \in Handlers : owned[k] => slot[k] # s
      BY <2>2 DEF GInv, Owner
    <3>2. /\ owned'[h] /\ slot'[h] = s
          /\ \A k \in Handlers : k # h => owned'[k] = owned[k] /\ slot'[k] = slot[k]
      BY <1>1, <2>2 DEF GInv, GSTypeOK
    <3>3. \A x \in Slots : x # s => claimed'[x] = claimed[x] /\ connected'[x] = connected[x]
      BY <2>2 DEF GInv, GSTypeOK
    <3>4. claimed'[s]
      BY <2>2 DEF GInv, GSTypeOK
    <3> QED
      BY <1>1, <1>3, <3>1, <3>2, <3>3, <3>4 DEF GInv, Owners
  <2> QED
    BY <1>2, <2>1, <2>2
<1>9. ReplyIsOwn'
  BY <1>1, <1>2 DEF GInv, GSTypeOK, ReplyIsOwn
<1> QED
  BY <1>4, <1>5, <1>6, <1>7, <1>8, <1>9 DEF GInv

LEMMA AskInv ==
  ASSUME GInv, NEW h \in Handlers, Ask(h)
  PROVE  GInv'
<1>1. /\ pc[h] = "lock" /\ line # <<>> /\ Head(line) = h /\ ~broken
      /\ pc' = [pc EXCEPT ![h] = "reply"] /\ stdin' = Append(stdin, Command(h))
      /\ slot' = slot /\ owned' = owned /\ op' = op /\ frames' = frames /\ got' = got
      /\ line' = line /\ claimed' = claimed /\ connected' = connected /\ broken' = broken
      /\ stdout' = stdout /\ alive' = alive /\ open' = open /\ done' = done
      /\ listening' = listening /\ closing' = closing /\ stopped' = stopped
  BY DEF Ask, Goto, service, server
<1>2. \A k \in Handlers : pc[k] # "reply"
  BY <1>1 DEF GInv, Alone
<1>3. stdin = <<>> /\ stdout = <<>>
  BY <1>1, <1>2 DEF GInv, Pipes
<1>4. stdin' = <<Command(h)>> /\ Command(h) \in Commands /\ Command(h)' = Command(h)
  BY <1>1, <1>3, One, Typed DEF GInv, Command
<1>5. GSTypeOK'
  <2>1. stdin' \in Seq(Commands)
    BY <1>4
  <2> QED
    BY <1>1, <2>1 DEF GInv, GSTypeOK
<1>6. ASSUME NEW k \in Handlers PROVE Fits(k)' /\ Owner(k)'
  BY <1>1 DEF GInv, GSTypeOK, Fits, Owner
<1>7. ASSUME NEW k \in Handlers PROVE Alone(k)'
  BY <1>1, <1>2, <1>3, <1>4 DEF GInv, GSTypeOK, Alone
<1>8. Pipes'
  <2>1. Sound(Command(h))'
    <3>1. /\ Command(h).op = op[h] /\ Command(h).slot = slot[h] /\ op[h] # "input"
          /\ op[h] = "close" => owned[h]
      BY <1>1, Typed DEF GInv, Fits
    <3>2. op[h] = "close" => /\ slot[h] \in Slots /\ claimed[slot[h]]
                             /\ \A k \in Handlers : owned[k] /\ slot[k] = slot[h] => k = h
      BY <3>1 DEF GInv, Owner, Owners
    <3> QED
      BY <1>1, <1>4, <3>1, <3>2 DEF Sound
  <2>2. pc'[h] = "reply"
    BY <1>1 DEF GInv, GSTypeOK
  <2> QED
    BY <1>4, <2>1, <2>2 DEF Pipes
<1>9. Owners' /\ ReplyIsOwn'
  BY <1>1 DEF GInv, GSTypeOK, Owners, ReplyIsOwn
<1> QED
  BY <1>5, <1>6, <1>7, <1>8, <1>9 DEF GInv

LEMMA AskRaisesInv ==
  ASSUME GInv, NEW h \in Handlers, AskRaises(h)
  PROVE  GInv'
<1>0. line \in Seq(Handlers) /\ stdin \in Seq(Commands) /\ stdout \in Seq(Commands)
  BY DEF GInv, GSTypeOK
<1>1. GSTypeOK'
  BY <1>0, Typed DEF GInv, GSTypeOK, AskRaises, Raise, Release, Goto, worker, server
<1>2. ASSUME NEW k \in Handlers PROVE Fits(k)'
  BY <1>0 DEF GInv, GSTypeOK, Fits, AskRaises, Raise, Release, Goto, worker, server, Slots, NoSlot
<1>3. ASSUME NEW k \in Handlers PROVE Owner(k)'
  BY <1>0 DEF GInv, GSTypeOK, Fits, Owner, Owners, AskRaises, Raise, Release, Goto, worker, server, Slots, NoSlot
<1>4. ASSUME NEW k \in Handlers PROVE Alone(k)'
  BY <1>0, One, Joins, Shrinks DEF GInv, GSTypeOK, Alone, Pipes, Command, AskRaises, Raise, Release, Goto, worker, server
<1>5. Pipes'
  BY <1>0, One, Joins, Shrinks DEF GInv, GSTypeOK, Fits, Alone, Pipes, Sound, Command, AskRaises, Raise, Release, Goto, worker, server
<1>6. Owners'
  BY <1>0 DEF GInv, GSTypeOK, Fits, Owner, Owners, AskRaises, Raise, Release, Goto, worker, server, Slots, NoSlot
<1>7. ReplyIsOwn'
  BY <1>0, One DEF GInv, GSTypeOK, Fits, Alone, ReplyIsOwn, Command, AskRaises, Raise, Release, Goto, worker, server
<1> QED
  BY <1>1, <1>2, <1>3, <1>4, <1>5, <1>6, <1>7 DEF GInv

LEMMA ReplyInv ==
  ASSUME GInv, NEW h \in Handlers, Reply(h)
  PROVE  GInv'
<1>0. /\ line \in Seq(Handlers) /\ got \in [Handlers -> Commands]
      /\ pc \in [Handlers -> {"free", "refusing", "lock", "reply", "send", "read",
                              "finally", "writer"}]
      /\ op \in [Handlers -> Ops]
  BY DEF GInv, GSTypeOK
<1>1. /\ pc[h] = "reply" /\ stdout # <<>> /\ stdout' = Tail(stdout)
      /\ got' = [got EXCEPT ![h] = Head(stdout)]
      /\ slot' = slot /\ owned' = owned /\ frames' = frames /\ claimed' = claimed
      /\ connected' = connected /\ broken' = broken /\ alive' = alive /\ open' = open
      /\ done' = done /\ listening' = listening /\ closing' = closing /\ stopped' = stopped
  BY DEF Reply, server
<1>2. /\ stdin = <<>> /\ stdout = <<Command(h)>> /\ done = Command(h) /\ ~broken
      /\ line # <<>> /\ Head(line) = h
      /\ op[h] = "close" => slot[h] \notin open
      /\ Command(h) \in Commands /\ Command(h).op = op[h] /\ Command(h).slot = slot[h]
      /\ \A k \in Handlers : k # h => pc[k] # "reply"
  BY <1>1, Typed DEF GInv, Alone
<1>3. stdout' = <<>> /\ got' = [got EXCEPT ![h] = Command(h)] /\ Tail(line) \in Seq(Handlers)
  BY <1>0, <1>1, <1>2, One, Shrinks
<1>4. \/ /\ op[h] = "tick" /\ op' = [op EXCEPT ![h] = "input"] /\ pc' = pc /\ line' = line
         /\ stdin' = <<[Command(h) EXCEPT !.op = "input"]>>
      \/ /\ op[h] = "tick" /\ op' = [op EXCEPT ![h] = "input"] /\ stdin' = <<>>
         /\ pc' = [pc EXCEPT ![h] = "finally"] /\ line' = Tail(line)
      \/ /\ op[h] # "tick" /\ op' = op /\ stdin' = <<>> /\ line' = Tail(line)
         /\ pc' = [pc EXCEPT ![h] = IF op[h] = "close" THEN "writer" ELSE "send"]
  BY <1>2, One DEF Reply, Release, Goto
<1>5. GSTypeOK'
  <2>0. <<>> \in Seq(Commands) /\ \A m \in Commands : <<m>> \in Seq(Commands)
    OBVIOUS
  <2>1. stdout' \in Seq(Commands) /\ got' \in [Handlers -> Commands]
    BY <1>0, <1>2, <1>3, <2>0
  <2>2. stdin' = <<>> \/ stdin' = <<[Command(h) EXCEPT !.op = "input"]>>
    BY <1>4
  <2>5. stdin' \in Seq(Commands) /\ line' \in Seq(Handlers)
    <3>1. [Command(h) EXCEPT !.op = "input"] \in Commands
      BY Typed DEF GInv
    <3>2. line' = line \/ line' = Tail(line)
      BY <1>4
    <3> QED
      BY <1>0, <1>3, <2>0, <2>2, <3>1, <3>2
  <2>3. op' \in [Handlers -> Ops]
    BY <1>0, <1>4 DEF Ops
  <2>4. pc' \in [Handlers -> {"free", "refusing", "lock", "reply", "send", "read",
                              "finally", "writer"}]
    BY <1>0, <1>4
  <2> QED
    BY <1>1, <2>1, <2>3, <2>4, <2>5 DEF GInv, GSTypeOK
<1>6. ASSUME NEW k \in Handlers PROVE Fits(k)'
  BY <1>0, <1>1, <1>4 DEF GInv, Fits
<1>7. ASSUME NEW k \in Handlers PROVE Owner(k)'
  BY <1>0, <1>1, <1>2, <1>4 DEF GInv, Owner
<1>8. (\A k \in Handlers : Alone(k)') /\ Pipes'
  <2>1. CASE /\ op[h] = "tick" /\ op' = [op EXCEPT ![h] = "input"] /\ pc' = pc /\ line' = line
             /\ stdin' = <<[Command(h) EXCEPT !.op = "input"]>>
    <3> PICK m : m = [Command(h) EXCEPT !.op = "input"]
      OBVIOUS
    <3>1. /\ m = [by |-> h, op |-> "input", slot |-> slot[h]] /\ m \in Commands
          /\ m = Command(h)' /\ m.op = "input" /\ m.slot = slot[h]
      BY <1>0, <1>1, <2>1, Typed DEF GInv, Command
    <3>2. done = [m EXCEPT !.op = "tick"]
      BY <1>2, <2>1, <3>1 DEF Command
    <3>3. slot[h] \in open /\ \A s \in Slots : claimed[s]
      BY <2>1 DEF GInv, Fits, Owner
    <3>4. Sound(m)'
      BY <1>1, <3>1, <3>2, <3>3 DEF Sound
    <3>5. stdin' = <<m>>
      BY <2>1
    <3>6. Pipes'
      BY <1>1, <2>1, <3>1, <3>4, <3>5 DEF Pipes
    <3>7. \A k \in Handlers : Alone(k)'
      BY <1>1, <1>2, <1>3, <2>1, <3>1, <3>5 DEF Alone
    <3> QED
      BY <3>6, <3>7
  <2>2. CASE stdin' = <<>> /\ pc'[h] # "reply" /\ \A k \in Handlers : k # h => pc'[k] = pc[k]
    BY <1>2, <1>3, <2>2 DEF Alone, Pipes
  <2> QED
    BY <1>0, <1>4, <2>1, <2>2
<1>9. Owners'
  BY <1>1 DEF GInv, Owners
<1>10. ReplyIsOwn'
  BY <1>0, <1>1, <1>3, <1>4 DEF GInv, ReplyIsOwn, Command
<1> QED
  BY <1>5, <1>6, <1>7, <1>8, <1>9, <1>10 DEF GInv

LEMMA ReplyFailsInv ==
  ASSUME GInv, NEW h \in Handlers, ReplyFails(h)
  PROVE  GInv'
<1>0. line \in Seq(Handlers) /\ stdin \in Seq(Commands) /\ stdout \in Seq(Commands)
  BY DEF GInv, GSTypeOK
<1>1. GSTypeOK'
  <2>1. line' \in Seq(Handlers)
    BY <1>0, Shrinks DEF ReplyFails, Raise, Release, GInv, Alone
  <2> QED
    BY <2>1 DEF GInv, GSTypeOK, ReplyFails, Raise, Goto, worker, server
<1>2. ASSUME NEW k \in Handlers PROVE Fits(k)'
  BY <1>0 DEF GInv, GSTypeOK, Fits, ReplyFails, Raise, Release, Goto, worker, server, Slots, NoSlot
<1>3. ASSUME NEW k \in Handlers PROVE Owner(k)'
  BY <1>0 DEF GInv, GSTypeOK, Fits, Owner, Owners, ReplyFails, Raise, Release, Goto, worker, server, Slots, NoSlot
<1>4. ASSUME NEW k \in Handlers PROVE Alone(k)'
  BY <1>0, One, Joins, Shrinks DEF GInv, GSTypeOK, Alone, Pipes, Command, ReplyFails, Raise, Release, Goto, worker, server
<1>5. Pipes'
  BY <1>0, One, Joins, Shrinks DEF GInv, GSTypeOK, Fits, Alone, Pipes, Sound, Command, ReplyFails, Raise, Release, Goto, worker, server
<1>6. Owners'
  BY <1>0 DEF GInv, GSTypeOK, Fits, Owner, Owners, ReplyFails, Raise, Release, Goto, worker, server, Slots, NoSlot
<1>7. ReplyIsOwn'
  BY <1>0, One DEF GInv, GSTypeOK, Fits, Alone, ReplyIsOwn, Command, ReplyFails, Raise, Release, Goto, worker, server
<1> QED
  BY <1>1, <1>2, <1>3, <1>4, <1>5, <1>6, <1>7 DEF GInv

LEMMA SendInv ==
  ASSUME GInv, NEW h \in Handlers, Send(h)
  PROVE  GInv'
<1>0. line \in Seq(Handlers) /\ stdin \in Seq(Commands) /\ stdout \in Seq(Commands)
  BY DEF GInv, GSTypeOK
<1>9. line' \in Seq(Handlers) /\ (line # <<>> => line' # <<>> /\ Head(line') = Head(line))
  BY <1>0, Joins DEF Send, service
<1>1. GSTypeOK'
  BY <1>0, Typed DEF GInv, GSTypeOK, Send, Goto, service, worker, server
<1>2. ASSUME NEW k \in Handlers PROVE Fits(k)'
  BY <1>0 DEF GInv, GSTypeOK, Fits, Send, Goto, service, worker, server, Slots, NoSlot
<1>3. ASSUME NEW k \in Handlers PROVE Owner(k)'
  BY <1>0 DEF GInv, GSTypeOK, Fits, Owner, Owners, Send, Goto, service, worker, server, Slots, NoSlot
<1>4. (\A k \in Handlers : Alone(k)') /\ Pipes'
  BY <1>9, PipesKept, ZenonT(30) DEF GInv, GSTypeOK, Fits, Owner, Send, Goto, service, worker, server
<1>6. Owners'
  BY <1>0 DEF GInv, GSTypeOK, Fits, Owner, Owners, Send, Goto, service, worker, server, Slots, NoSlot
<1>7. ReplyIsOwn'
  BY <1>0, One DEF GInv, GSTypeOK, Fits, Alone, ReplyIsOwn, Command, Send, Goto, service, worker, server
<1> QED
  BY <1>1, <1>2, <1>3, <1>4, <1>6, <1>7 DEF GInv

LEMMA ReadInv ==
  ASSUME GInv, NEW h \in Handlers, Read(h)
  PROVE  GInv'
<1>0. line \in Seq(Handlers)
  BY DEF GInv, GSTypeOK
<1>1. /\ pc[h] = "read" /\ frames[h] > 0 /\ frames' = [frames EXCEPT ![h] = @ - 1]
      /\ slot' = slot /\ owned' = owned /\ got' = got
      /\ claimed' = claimed /\ connected' = connected /\ broken' = broken
      /\ stdin' = stdin /\ stdout' = stdout /\ alive' = alive /\ open' = open /\ done' = done
      /\ listening' = listening /\ closing' = closing /\ stopped' = stopped
  BY DEF Read, worker, server
<1>2. \/ /\ pc' = [pc EXCEPT ![h] = "lock"] /\ op' = [op EXCEPT ![h] = "tick"]
         /\ line' = Append(line, h) /\ \A s \in Slots : claimed[s]
      \/ /\ pc' = [pc EXCEPT ![h] = "send"] /\ op' = [op EXCEPT ![h] = "inactive"]
         /\ line' = line
  <2>1. (\A s \in Slots : connected[s]) => \A s \in Slots : claimed[s]
    BY DEF GInv, Owners
  <2> QED
    BY <2>1 DEF Read, WaitLock, Goto
<1>3. line' \in Seq(Handlers) /\ (line # <<>> => line' # <<>> /\ Head(line') = Head(line))
  BY <1>0, <1>2, Joins, SMTT(30)
<1>4. op[h] \in {"hello", "input", "inactive"} /\ owned[h]
  BY <1>1 DEF GInv, Fits
<1>5. GSTypeOK'
  <2>1. frames' \in [Handlers -> 0..FRAMES]
    BY <1>1, SessionAssumption DEF GInv, GSTypeOK
  <2> QED
    BY <1>1, <1>2, <1>3, <2>1 DEF GInv, GSTypeOK, Ops
<1>6. ASSUME NEW k \in Handlers PROVE Fits(k)' /\ Owner(k)'
  BY <1>1, <1>2, <1>4 DEF GInv, GSTypeOK, Fits, Owner
<1>7. (\A k \in Handlers : Alone(k)') /\ Pipes'
  <2>1. /\ pc'[h] # "reply"
        /\ \A k \in Handlers : k # h => /\ pc'[k] = pc[k] /\ op'[k] = op[k]
                                        /\ slot'[k] = slot[k] /\ owned'[k] = owned[k]
    BY <1>1, <1>2 DEF GInv, GSTypeOK
  <2> QED
    BY <1>1, <1>3, <1>4, <2>1, PipesKept
<1>8. Owners' /\ ReplyIsOwn'
  <2>1. Owners'
    BY <1>1, <1>2 DEF GInv, GSTypeOK, Owners
  <2>2. ReplyIsOwn'
    BY <1>1, <1>2 DEF GInv, GSTypeOK, ReplyIsOwn
  <2> QED
    BY <2>1, <2>2
<1> QED
  BY <1>5, <1>6, <1>7, <1>8 DEF GInv

LEMMA ReadEndsInv ==
  ASSUME GInv, NEW h \in Handlers, ReadEnds(h)
  PROVE  GInv'
<1>0. line \in Seq(Handlers) /\ stdin \in Seq(Commands) /\ stdout \in Seq(Commands)
  BY DEF GInv, GSTypeOK
<1>9. line' \in Seq(Handlers) /\ (line # <<>> => line' # <<>> /\ Head(line') = Head(line))
  BY <1>0, Joins DEF ReadEnds, service
<1>1. GSTypeOK'
  BY <1>0, Typed DEF GInv, GSTypeOK, ReadEnds, Goto, service, worker, server
<1>2. ASSUME NEW k \in Handlers PROVE Fits(k)'
  BY <1>0 DEF GInv, GSTypeOK, Fits, ReadEnds, Goto, service, worker, server, Slots, NoSlot
<1>3. ASSUME NEW k \in Handlers PROVE Owner(k)'
  BY <1>0 DEF GInv, GSTypeOK, Fits, Owner, Owners, ReadEnds, Goto, service, worker, server, Slots, NoSlot
<1>4. (\A k \in Handlers : Alone(k)') /\ Pipes'
  BY <1>9, PipesKept DEF GInv, GSTypeOK, Fits, Owner, ReadEnds, Goto, service, worker, server
<1>6. Owners'
  BY <1>0 DEF GInv, GSTypeOK, Fits, Owner, Owners, ReadEnds, Goto, service, worker, server, Slots, NoSlot
<1>7. ReplyIsOwn'
  BY <1>0, One DEF GInv, GSTypeOK, Fits, Alone, ReplyIsOwn, Command, ReadEnds, Goto, service, worker, server
<1> QED
  BY <1>1, <1>2, <1>3, <1>4, <1>6, <1>7 DEF GInv

LEMMA FinallyInv ==
  ASSUME GInv, NEW h \in Handlers, Finally(h)
  PROVE  GInv'
<1>0. line \in Seq(Handlers) /\ stdin \in Seq(Commands) /\ stdout \in Seq(Commands)
  BY DEF GInv, GSTypeOK
<1>9. line' \in Seq(Handlers) /\ (line # <<>> => line' # <<>> /\ Head(line') = Head(line))
  BY <1>0, Joins, ZenonT(60) DEF Finally, WaitLock
<1>1. GSTypeOK'
  BY <1>0, <1>9 DEF GInv, GSTypeOK, Finally, WaitLock, Goto, worker, server, Ops
<1>2. ASSUME NEW k \in Handlers PROVE Fits(k)'
  BY <1>0 DEF GInv, GSTypeOK, Fits, Finally, WaitLock, Goto, worker, server, Slots, NoSlot
<1>3. ASSUME NEW k \in Handlers PROVE Owner(k)'
  BY <1>0 DEF GInv, GSTypeOK, Fits, Owner, Owners, Finally, WaitLock, Goto, worker, server, Slots, NoSlot
<1>4. (\A k \in Handlers : Alone(k)') /\ Pipes'
  BY <1>9, PipesKept DEF GInv, GSTypeOK, Fits, Owner, Finally, WaitLock, Goto, worker, server
<1>6. Owners'
  BY <1>0 DEF GInv, GSTypeOK, Fits, Owner, Owners, Finally, WaitLock, Goto, worker, server, Slots, NoSlot
<1>7. ReplyIsOwn'
  BY <1>0, One, ZenonT(30) DEF GInv, GSTypeOK, Fits, Alone, ReplyIsOwn, Command,
         Finally, WaitLock, Goto, worker, server
<1> QED
  BY <1>1, <1>2, <1>3, <1>4, <1>6, <1>7 DEF GInv

LEMMA LeaveInv ==
  ASSUME GInv, NEW h \in Handlers, Leave(h)
  PROVE  GInv'
<1>0. line \in Seq(Handlers) /\ stdin \in Seq(Commands) /\ stdout \in Seq(Commands)
  BY DEF GInv, GSTypeOK
<1>9. line' \in Seq(Handlers) /\ (line # <<>> => line' # <<>> /\ Head(line') = Head(line))
  BY <1>0, Joins DEF Leave, service
<1>1. GSTypeOK'
  BY <1>0, Typed, SessionAssumption DEF GInv, GSTypeOK, Leave, Goto, service, worker, server, Ops, Slots, NoSlot
<1>2. ASSUME NEW k \in Handlers PROVE Fits(k)'
  BY <1>0 DEF GInv, GSTypeOK, Fits, Leave, Goto, service, worker, server, Slots, NoSlot
<1>3. ASSUME NEW k \in Handlers PROVE Owner(k)'
  BY <1>0 DEF GInv, GSTypeOK, Fits, Owner, Owners, Leave, Goto, service, worker, server, Slots, NoSlot
<1>4. (\A k \in Handlers : Alone(k)') /\ Pipes'
  BY <1>9, PipesKept DEF GInv, GSTypeOK, Fits, Owner, Leave, Goto, service, worker, server
<1>6. Owners'
  BY <1>0 DEF GInv, GSTypeOK, Fits, Owner, Owners, Leave, Goto, service, worker, server, Slots, NoSlot
<1>7. ReplyIsOwn'
  BY <1>0, One DEF GInv, GSTypeOK, Fits, Alone, ReplyIsOwn, Command, Leave, Goto, service, worker, server
<1> QED
  BY <1>1, <1>2, <1>3, <1>4, <1>6, <1>7 DEF GInv

LEMMA WorkInv ==
  ASSUME GInv, Work
  PROVE  GInv'
<1>1. PICK m \in Commands : stdin = <<m>> /\ Sound(m)
  BY DEF Work, GInv, Pipes
<1>2. /\ stdin' = <<>> /\ stdout' = Append(stdout, m) /\ done' = m
      /\ open' = IF m.op = "close" THEN open \ {m.slot} ELSE open
      /\ alive' = alive /\ pc' = pc /\ slot' = slot /\ owned' = owned /\ op' = op
      /\ frames' = frames /\ got' = got /\ line' = line /\ claimed' = claimed
      /\ connected' = connected /\ broken' = broken
      /\ listening' = listening /\ closing' = closing /\ stopped' = stopped
  BY <1>1, One DEF Work, handler, service, server
<1>3. GSTypeOK'
  <2>1. stdout' \in Seq(Commands) /\ stdin' \in Seq(Commands)
    BY <1>1, <1>2 DEF GInv, GSTypeOK
  <2> QED
    BY <1>1, <1>2, <2>1 DEF GInv, GSTypeOK
<1>4. ASSUME NEW k \in Handlers PROVE Fits(k)'
  BY <1>2 DEF GInv, Fits
<1>5. ASSUME NEW k \in Handlers PROVE Owner(k)'
  BY <1>1, <1>2 DEF GInv, Owner, Sound
<1>6. ASSUME NEW k \in Handlers, pc[k] = "reply" PROVE Alone(k)'
  <2>1. stdin = <<Command(k)>> /\ stdout = <<>> /\ ~broken /\ line # <<>> /\ Head(line) = k
    BY <1>1, <1>6, One DEF GInv, Alone
  <2>2. m = Command(k) /\ m = Command(k)' /\ m.op = op[k] /\ m.slot = slot[k]
    BY <1>1, <1>2, <2>1, One, Typed DEF GInv, Command
  <2>3. stdout' = <<Command(k)>>'
    BY <1>2, <2>1, <2>2, One
  <2> QED
    BY <1>2, <2>1, <2>2, <2>3 DEF Alone
<1>7. \A k \in Handlers : Alone(k)'
  BY <1>2, <1>6 DEF Alone
<1>8. Pipes'
  <2>1. broken \/ \E k \in Handlers : pc[k] = "reply"
    BY <1>1, One DEF GInv, Pipes
  <2> QED
    BY <1>2, <2>1 DEF Pipes
<1>9. Owners'
  <2>1. \A s \in Slots : ~claimed[s] => s \in open'
    BY <1>1, <1>2 DEF GInv, Owners, Sound
  <2> QED
    BY <1>2, <2>1 DEF GInv, Owners
<1>10. ReplyIsOwn'
  BY <1>2 DEF GInv, ReplyIsOwn
<1> QED
  BY <1>3, <1>4, <1>5, <1>7, <1>8, <1>9, <1>10 DEF GInv

LEMMA WorkerEndsInv ==
  ASSUME GInv, WorkerEnds
  PROVE  GInv'
<1>0. line \in Seq(Handlers) /\ stdin \in Seq(Commands) /\ stdout \in Seq(Commands)
  BY DEF GInv, GSTypeOK
<1>1. GSTypeOK'
  BY <1>0, Typed DEF GInv, GSTypeOK, WorkerEnds, handler, service, server
<1>2. ASSUME NEW k \in Handlers PROVE Fits(k)'
  BY <1>0 DEF GInv, GSTypeOK, Fits, WorkerEnds, handler, service, server, Slots, NoSlot
<1>3. ASSUME NEW k \in Handlers PROVE Owner(k)'
  BY <1>0 DEF GInv, GSTypeOK, Fits, Owner, Owners, WorkerEnds, handler, service, server, Slots, NoSlot
<1>4. ASSUME NEW k \in Handlers PROVE Alone(k)'
  BY <1>0, One, Joins, Shrinks DEF GInv, GSTypeOK, Alone, Pipes, Command, WorkerEnds, handler, service, server
<1>5. Pipes'
  BY <1>0, One, Joins, Shrinks DEF GInv, GSTypeOK, Fits, Alone, Pipes, Sound, Command, WorkerEnds, handler, service, server
<1>6. Owners'
  BY <1>0 DEF GInv, GSTypeOK, Fits, Owner, Owners, WorkerEnds, handler, service, server, Slots, NoSlot
<1>7. ReplyIsOwn'
  BY <1>0, One DEF GInv, GSTypeOK, Fits, Alone, ReplyIsOwn, Command, WorkerEnds, handler, service, server
<1> QED
  BY <1>1, <1>2, <1>3, <1>4, <1>5, <1>6, <1>7 DEF GInv

LEMMA ShutdownInv ==
  ASSUME GInv, Shutdown
  PROVE  GInv'
<1>0. line \in Seq(Handlers) /\ stdin \in Seq(Commands) /\ stdout \in Seq(Commands)
  BY DEF GInv, GSTypeOK
<1>1. GSTypeOK'
  BY <1>0, Typed DEF GInv, GSTypeOK, Shutdown, handler, service, worker
<1>2. ASSUME NEW k \in Handlers PROVE Fits(k)'
  BY <1>0 DEF GInv, GSTypeOK, Fits, Shutdown, handler, service, worker, Slots, NoSlot
<1>3. ASSUME NEW k \in Handlers PROVE Owner(k)'
  BY <1>0 DEF GInv, GSTypeOK, Fits, Owner, Owners, Shutdown, handler, service, worker, Slots, NoSlot
<1>4. ASSUME NEW k \in Handlers PROVE Alone(k)'
  BY <1>0, One, Joins, Shrinks DEF GInv, GSTypeOK, Alone, Pipes, Command, Shutdown, handler, service, worker
<1>5. Pipes'
  BY <1>0, One, Joins, Shrinks DEF GInv, GSTypeOK, Fits, Alone, Pipes, Sound, Command, Shutdown, handler, service, worker
<1>6. Owners'
  BY <1>0 DEF GInv, GSTypeOK, Fits, Owner, Owners, Shutdown, handler, service, worker, Slots, NoSlot
<1>7. ReplyIsOwn'
  BY <1>0, One DEF GInv, GSTypeOK, Fits, Alone, ReplyIsOwn, Command, Shutdown, handler, service, worker
<1> QED
  BY <1>1, <1>2, <1>3, <1>4, <1>5, <1>6, <1>7 DEF GInv

LEMMA CloseInv ==
  ASSUME GInv, Close
  PROVE  GInv'
<1>0. line \in Seq(Handlers) /\ stdin \in Seq(Commands) /\ stdout \in Seq(Commands)
  BY DEF GInv, GSTypeOK
<1>1. GSTypeOK'
  BY <1>0, Typed DEF GInv, GSTypeOK, Close, worker
<1>2. ASSUME NEW k \in Handlers PROVE Fits(k)'
  BY DEF GInv, GSTypeOK, Fits, Close, worker, Active
<1>3. ASSUME NEW k \in Handlers PROVE Owner(k)'
  BY <1>0 DEF GInv, GSTypeOK, Fits, Owner, Owners, Close, worker, Slots, NoSlot
<1>4. ASSUME NEW k \in Handlers PROVE Alone(k)'
  BY <1>0, One, Joins, Shrinks DEF GInv, GSTypeOK, Alone, Pipes, Command, Close, worker
<1>5. Pipes'
  BY <1>0, One, Joins, Shrinks DEF GInv, GSTypeOK, Fits, Alone, Pipes, Sound, Command, Close, worker
<1>6. Owners'
  BY <1>0 DEF GInv, GSTypeOK, Fits, Owner, Owners, Close, worker, Slots, NoSlot
<1>7. ReplyIsOwn'
  BY <1>0, One DEF GInv, GSTypeOK, Fits, Alone, ReplyIsOwn, Command, Close, worker
<1> QED
  BY <1>1, <1>2, <1>3, <1>4, <1>5, <1>6, <1>7 DEF GInv

LEMMA ClosedInv ==
  ASSUME GInv, Closed
  PROVE  GInv'
<1>0. line \in Seq(Handlers) /\ stdin \in Seq(Commands) /\ stdout \in Seq(Commands)
  BY DEF GInv, GSTypeOK
<1>1. GSTypeOK'
  BY <1>0, Typed DEF GInv, GSTypeOK, Closed, handler, service
<1>2. ASSUME NEW k \in Handlers PROVE Fits(k)'
  BY <1>0 DEF GInv, GSTypeOK, Fits, Closed, handler, service, Slots, NoSlot
<1>3. ASSUME NEW k \in Handlers PROVE Owner(k)'
  BY <1>0 DEF GInv, GSTypeOK, Fits, Owner, Owners, Closed, handler, service, Slots, NoSlot
<1>4. ASSUME NEW k \in Handlers PROVE Alone(k)'
  BY <1>0, One, Joins, Shrinks DEF GInv, GSTypeOK, Alone, Pipes, Command, Closed, handler, service
<1>5. Pipes'
  BY <1>0, One, Joins, Shrinks DEF GInv, GSTypeOK, Fits, Alone, Pipes, Sound, Command, Closed, handler, service
<1>6. Owners'
  BY <1>0 DEF GInv, GSTypeOK, Fits, Owner, Owners, Closed, handler, service, Slots, NoSlot
<1>7. ReplyIsOwn'
  BY <1>0, One DEF GInv, GSTypeOK, Fits, Alone, ReplyIsOwn, Command, Closed, handler, service
<1> QED
  BY <1>1, <1>2, <1>3, <1>4, <1>5, <1>6, <1>7 DEF GInv

-----------------------------------------------------------------------------
(* The theorems                                                            *)

LEMMA NextInv == GInv /\ [GSNext]_gsvars => GInv'
<1> SUFFICES ASSUME GInv, [GSNext]_gsvars PROVE GInv'
  OBVIOUS
<1>1. ASSUME NEW h \in Handlers, Step(h) PROVE GInv'
  BY <1>1, AskInv, AskRaisesInv, ReplyInv, ReplyFailsInv, SendInv, ReadInv, ReadEndsInv,
     FinallyInv, LeaveInv DEF Step
<1>2. ASSUME NEW h \in Handlers, NEW s \in Slots \cup {NoSlot}, Accept(h, s) PROVE GInv'
  BY <1>2, AcceptInv
<1>3. CASE Work \/ WorkerEnds \/ Shutdown \/ Close \/ Closed
  BY <1>3, WorkInv, WorkerEndsInv, ShutdownInv, CloseInv, ClosedInv
<1>4. CASE UNCHANGED gsvars
  <2>1. UNCHANGED <<pc, slot, owned, op, frames, got, line, claimed, connected, broken,
                    stdin, stdout, alive, open, done, listening, closing, stopped>>
    BY <1>4 DEF gsvars, handler, service, worker, server
  <2> QED
    BY <2>1, SMTT(30) DEF GInv, GSTypeOK, Fits, Owner, Alone, Pipes, Sound, Owners, ReplyIsOwn, Command
<1> QED
  BY <1>1, <1>2, <1>3, <1>4 DEF GSNext

\* The service stays consistent however its handlers, the worker and close() take
\* turns (GameService.handle, exchange and close).
THEOREM GameServiceInvariant == GSSpec => []GInv
BY InitInv, NextInv, PTL DEF GSSpec

\* The lock and the broken flag of exchange: a reply that a player is sent is the
\* worker's answer to that player's command.
THEOREM RepliesAreOwn == GSSpec => []ReplyIsOwn
<1>1. GInv => ReplyIsOwn
  BY DEF GInv
<1> QED
  BY <1>1, GameServiceInvariant, PTL

\* handle claims a slot for one handler, and leaves it closed or the worker unused.
THEOREM SlotsAreSpent == GSSpec => []SlotIsSpent
<1>1. GInv => SlotIsSpent
  <2> SUFFICES ASSUME GInv, NEW s \in Slots
               PROVE  Cardinality({h \in Handlers : owned[h] /\ slot[h] = s}) <= 1
    BY DEF SlotIsSpent, GInv, Owners
  <2> DEFINE H == {h \in Handlers : owned[h] /\ slot[h] = s}
  <2>1. H = {} \/ \E h : H = {h}
    BY DEF GInv, Owners
  <2> HIDE DEF H
  <2>2. Cardinality(H) <= 1
    <3>1. CASE H = {}
      BY <3>1, FS_EmptySet
    <3>2. ASSUME NEW h, H = {h} PROVE Cardinality(H) = 1
      BY <3>2, FS_Singleton
    <3> QED
      BY <2>1, <3>1, <3>2
  <2> QED
    BY <2>2 DEF H
<1> QED
  BY <1>1, GameServiceInvariant, PTL

\* exchange writes the input under the lock its tick was done under: whenever the
\* worker does an input, it has just done the tick of the same handler.
THEOREM InputsFollowTicks == GSSpec => InputFollowsTick
<1>1. GInv /\ [GSNext]_gsvars =>
        [done' # done /\ done'.op = "input" =>
           /\ done = [done' EXCEPT !.op = "tick"]
           /\ done'.slot \in open
           /\ \A s \in Slots : claimed[s]]_gsvars
  <2> SUFFICES ASSUME GInv, [GSNext]_gsvars, done' # done, done'.op = "input"
               PROVE  /\ done = [done' EXCEPT !.op = "tick"]
                      /\ done'.slot \in open
                      /\ \A s \in Slots : claimed[s]
    OBVIOUS
  <2>1. Work
    BY DEF GSNext, gsvars, worker, server, service, handler, Step, Ask, AskRaises, Reply,
      ReplyFails, Send, Read, ReadEnds, Finally, Leave, Accept, WorkerEnds, Shutdown, Close,
      Closed
  <2>2. PICK m \in Commands : stdin = <<m>> /\ Sound(m)
    BY <2>1 DEF Work, GInv, Pipes
  <2>3. done' = m
    BY <2>1, <2>2, One DEF Work
  <2> QED
    BY <2>2, <2>3 DEF Sound
<1> QED
  BY <1>1, GameServiceInvariant, PTL DEF GSSpec, InputFollowsTick
=============================================================================
