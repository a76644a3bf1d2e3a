------------------------------- MODULE Invaders -------------------------------
(***************************************************************************)
(* The shooting game (kernel/src/kids/invaders.rs) and the way its window  *)
(* drives it (window.rs): the main loop moves the shots and the marching   *)
(* formation, keys and buttons move the ship and fire in between, and the  *)
(* field is stretched or shrunk under all of them when the window is.  A   *)
(* minimised window's game stands still: a stuttering step.  Lengths are   *)
(* given as in Breakout.                                                   *)
(***************************************************************************)
EXTENDS Integers, Sequences, FiniteSets, SequencesExt, FiniteSetsExt

CONSTANTS
  COLS, ROWS, Lives, MAX_BULLETS,
  Sizes,                             \* width and height of the canvas, the first by default
  MIN_SPEED, MAX_SPEED, SPEED,       \* SPEED is the one a game starts at
  SHIP_W, ALIEN_W, ALIEN_H, GAP_X, GAP_Y, MOVE, ALIEN_STEP, BULLET_H, BULLET_STEP, BULLET_LEAST,
  DROP, MARGIN, START_X, START_Y, EDGE, FLOOR, MUZZLE, COOL, PERIOD,
  CYCLE,                             \* a number of steps that every period of the march divides
  MaxLayouts                         \* bound: times the window is stretched or shrunk in a game

VARIABLES
  field,
  layouts,
  since,             \* ticks since the last shot, up to COOL
  passed             \* history: a shot went past an alien it should have hit

vars == <<field, layouts, since, passed>>

Clamp(x, lo, hi) == IF x < lo THEN lo ELSE IF x > hi THEN hi ELSE x
Of(length, part) == Clamp(length \div part.by, part.least, part.most)
AtLeast(x, y) == IF x < y THEN y ELSE x
Quotient(a, b) == IF a < 0 THEN -((-a) \div b) ELSE a \div b      \* of Rust's division

Squad == (0 .. COLS - 1) \X (0 .. ROWS - 1)
ShipMost(f) == f.width - Of(f.width, SHIP_W) - MARGIN

\* Where an alien is, and the formation's left and right among those alive.
Alien(f, a) ==
  [x |-> f.ax + a[1] * (Of(f.width, ALIEN_W) + Of(f.width, GAP_X)),
   y |-> f.ay + a[2] * (Of(f.height, ALIEN_H) + Of(f.height, GAP_Y))]
LeftOf(f) == Min({Alien(f, a).x : a \in f.aliens})
RightOf(f) == Max({Alien(f, a).x + Of(f.width, ALIEN_W) : a \in f.aliens})

Fresh ==
  [ship |-> (Sizes[1].w - Of(Sizes[1].w, SHIP_W)) \div 2, aliens |-> Squad,
   ax |-> START_X, ay |-> START_Y, dir |-> 1, bullets |-> <<>>, score |-> 0, lives |-> Lives,
   game_over |-> FALSE, won |-> FALSE, steps |-> 0, speed |-> SPEED,
   width |-> Sizes[1].w, height |-> Sizes[1].h]

ShipInside(f) == [f EXCEPT !.ship = Clamp(@, MARGIN, ShipMost(f))]

resize(f, size) ==
  IF size = [w |-> f.width, h |-> f.height] THEN f
  ELSE ShipInside([f EXCEPT
         !.ship = (@ * size.w) \div f.width,
         !.ax = Quotient(@ * size.w, f.width),
         !.ay = (@ * size.h) \div f.height,
         !.bullets = [i \in DOMAIN @ |-> [x |-> (@[i].x * size.w) \div f.width,
                                          y |-> (@[i].y * size.h) \div f.height]],
         !.width = size.w, !.height = size.h])

Going == ~field.game_over /\ ~field.won

-----------------------------------------------------------------------------
(* A step: the shots, then the formation.                                    *)

bullet_speed_not_shared(f) == AtLeast(Of(f.height, BULLET_STEP) * f.speed, BULLET_LEAST)
bullet_speed(f) == AtLeast((Of(f.height, BULLET_STEP) * f.speed) \div SPEED, BULLET_LEAST)
alien_step(f) == AtLeast((Of(f.width, ALIEN_STEP) * f.speed) \div SPEED, 1)

InColumn(f, b, a) == b.x + 2 >= Alien(f, a).x /\ b.x <= Alien(f, a).x + Of(f.width, ALIEN_W)
Hits(f, b, a) ==
  /\ InColumn(f, b, a)
  /\ b.y <= Alien(f, a).y + Of(f.height, ALIEN_H)
  /\ b.y + Of(f.height, BULLET_H) >= Alien(f, a).y
SkipsPast(f, b, a) ==
  /\ InColumn(f, b, a)
  /\ b.y + bullet_speed(f) > Alien(f, a).y + Of(f.height, ALIEN_H)
  /\ b.y + Of(f.height, BULLET_H) < Alien(f, a).y

First(f, hit) == CHOOSE a \in hit : \A c \in hit : a[2] < c[2] \/ (a[2] = c[2] /\ a[1] <= c[1])

\* One shot, and what is kept of those before it.
Shot(f, kept, b) ==
  LET up == [b EXCEPT !.y = @ - bullet_speed(f)]
      hit == {a \in f.aliens : Hits(f, up, a)}
  IN  IF up.y < 0 THEN [f |-> f, kept |-> kept]
      ELSE IF hit = {} THEN [f |-> f, kept |-> Append(kept, up)]
      ELSE [f |-> [f EXCEPT !.aliens = @ \ {First(f, hit)}, !.score = @ + 10], kept |-> kept]

ShotsMoved(f) ==
  LET end == FoldLeft(LAMBDA done, b : Shot(done.f, done.kept, b),
                      [f |-> f, kept |-> <<>>], f.bullets)
  IN  [end.f EXCEPT !.bullets = end.kept]

march_every(f) == Clamp(PERIOD + 1 - f.speed \div 2, 1, PERIOD)

\* The formation turns and drops at an edge, or goes a step on.
Turns(f) ==
  \/ f.dir > 0 /\ RightOf(f) + alien_step(f) >= f.width - EDGE
  \/ f.dir < 0 /\ LeftOf(f) - alien_step(f) <= EDGE
Marched(f) ==
  IF Turns(f) THEN [f EXCEPT !.dir = -@, !.ay = @ + Of(f.height, DROP)]
  ELSE [f EXCEPT !.ax = @ + f.dir * alien_step(f)]

Landed(f) == f.ay + ROWS * (Of(f.height, ALIEN_H) + Of(f.height, GAP_Y)) >= f.height - FLOOR
Invaded(f) ==
  IF f.lives > 1
  THEN [f EXCEPT !.lives = @ - 1, !.ax = START_X, !.ay = START_Y, !.dir = 1, !.bullets = <<>>]
  ELSE [f EXCEPT !.lives = 0, !.game_over = TRUE]

ClearedAfterAMarch(f) == [f EXCEPT !.won = (f.aliens = {} /\ f.steps % march_every(f) = 0)]

Cleared(f) == [f EXCEPT !.won = (f.aliens = {})]

step(f) ==
  LET n == ShotsMoved([f EXCEPT !.steps = (@ + 1) % CYCLE])
      m == Marched(n)
  IN  IF n.steps % march_every(n) # 0 \/ n.aliens = {} THEN Cleared(n)
      ELSE IF Landed(m) THEN Invaded(m) ELSE m

-----------------------------------------------------------------------------
Init ==
  /\ field \in {resize(Fresh, Sizes[i]) : i \in DOMAIN Sizes}
  /\ layouts = 0 /\ since = COOL /\ passed = FALSE

Pass(n) == since' = Clamp(since + n, 0, COOL)
Becomes(f) == field' = f /\ passed' = FALSE

Step ==
  /\ Going
  /\ field' = step(field)
  /\ passed' = \E i \in DOMAIN field.bullets : \E a \in field'.aliens :
                 SkipsPast(field, [field.bullets[i] EXCEPT !.y = @ - bullet_speed(field)], a)
  /\ Pass(2) /\ UNCHANGED layouts

Tick == since < COOL /\ Pass(1) /\ UNCHANGED <<field, layouts, passed>>

Nudge(direction) ==
  /\ Going
  /\ Becomes(ShipInside([field EXCEPT !.ship = @ + direction * Of(field.width, MOVE)]))
  /\ UNCHANGED <<layouts, since>>

Faster ==
  /\ Going /\ field.speed < MAX_SPEED
  /\ Becomes([field EXCEPT !.speed = @ + 1])
  /\ UNCHANGED <<layouts, since>>
Slower ==
  /\ Going /\ field.speed > MIN_SPEED
  /\ Becomes([field EXCEPT !.speed = @ - 1])
  /\ UNCHANGED <<layouts, since>>

MayFire == Len(field.bullets) < MAX_BULLETS /\ since >= Clamp(COOL - field.speed \div 3, 1, COOL)
Fire ==
  /\ Going /\ MayFire
  /\ Becomes([field EXCEPT !.bullets = Append(@,
       [x |-> field.ship + (Of(field.width, SHIP_W) \div 2) - 1, y |-> field.height - MUZZLE])])
  /\ since' = 0 /\ UNCHANGED layouts

Restart ==
  /\ Becomes(resize(Fresh, [w |-> field.width, h |-> field.height]))
  /\ since' = COOL /\ layouts' = 0

\* The window is maximised, or put back: layout_kids_playfield.
Layout ==
  /\ layouts < MaxLayouts /\ layouts' = layouts + 1
  /\ \E i \in DOMAIN Sizes : Becomes(resize(field, Sizes[i]))
  /\ UNCHANGED since

Next ==
  \/ Step \/ Tick
  \/ \E direction \in {-1, 1} : Nudge(direction)
  \/ Faster \/ Slower \/ Fire \/ Restart \/ Layout

Spec == Init /\ [][Next]_vars

-----------------------------------------------------------------------------
TypeOK ==
  /\ {field.ship, field.ax, field.ay} \subseteq Int
  /\ field.aliens \subseteq Squad /\ field.dir \in {-1, 1}
  /\ field.lives \in 0 .. Lives /\ field.speed \in MIN_SPEED .. MAX_SPEED
  /\ [w |-> field.width, h |-> field.height] \in {Sizes[i] : i \in DOMAIN Sizes}
  /\ {field.game_over, field.won, passed} \subseteq BOOLEAN /\ since \in 0 .. COOL
  /\ layouts \in 0 .. MaxLayouts

(* However the window is stretched while shots fly, the ship and every shot   *)
(* are on the field, there are never more shots than slots, and none goes     *)
(* through an alien between two steps (invaders.rs step, resize, fire).       *)
ShotsCount ==
  /\ field.ship \in MARGIN .. ShipMost(field)
  /\ Len(field.bullets) <= MAX_BULLETS
  /\ \A i \in DOMAIN field.bullets :
       field.bullets[i].x \in 0 .. field.width /\ field.bullets[i].y \in 0 .. field.height
  /\ ~passed

(* The score is the aliens shot, the game is won at the last of them, whether *)
(* the formation marches in that step or not, and it is lost with the last    *)
(* life (invaders.rs step).                                                  *)
ScoreIsTheAliens ==
  /\ field.score = 10 * Cardinality(Squad \ field.aliens)
  /\ field.won <=> field.aliens = {}
  /\ field.game_over <=> field.lives = 0
=============================================================================
