------------------------------- MODULE Breakout -------------------------------
(***************************************************************************)
(* The brick game (kernel/src/kids/breakout.rs) and the way its window     *)
(* drives it (window.rs): the main loop moves the ball, keys and buttons   *)
(* move the paddle and change the speed in between, and the court is       *)
(* stretched or shrunk under the ball when the window is.  A minimised      *)
(* window's ball stands still: a stuttering step.  Lengths are in          *)
(* pixels; a length that follows the court's is its quotient, between two  *)
(* bounds, and comes as a constant with those three parts.                 *)
(***************************************************************************)
EXTENDS Integers, FiniteSets, FiniteSetsExt

CONSTANTS
  COLS, ROWS, Lives,
  Sizes,                            \* width and height of the canvas, the first by default
  MIN_SPEED, MAX_SPEED, SPEED,      \* SPEED is the one a game starts at
  PADDLE_W, PADDLE_H, BALL_R, NUDGE, BASE, BRICK_H,   \* [by, least, most]
  BRICK_GAP, TOP, PADDLE_UP, SERVE_UP, SLACK, TURN, SIDE, SIDE_MOST
  \* the gap of the bricks, the space over them, the paddle's and the serve's
  \* height over the floor, the depth below the paddle that still counts, the
  \* part of the offset from its middle that becomes sideways speed, and the
  \* bounds of that speed

VARIABLES
  game,
  slipped            \* history: the ball went through the paddle

vars == <<game, slipped>>

Clamp(x, lo, hi) == IF x < lo THEN lo ELSE IF x > hi THEN hi ELSE x
Abs(x) == IF x < 0 THEN -x ELSE x
Quotient(a, b) == IF a < 0 THEN -((-a) \div b) ELSE a \div b      \* of Rust's division
AtLeast(x, y) == IF x < y THEN y ELSE x
Of(length, part) == Clamp(length \div part.by, part.least, part.most)

Bricks == (0 .. COLS - 1) \X (0 .. ROWS - 1)

paddle_w(g) == Of(g.width, PADDLE_W)
paddle_h(g) == Of(g.height, PADDLE_H)
ball_r(g) == Of(g.width, BALL_R)
base_speed(g) == AtLeast((Of(g.width, BASE) * g.speed) \div SPEED, 2)
PaddleTop(g) == g.height - PADDLE_UP

Brick(g, b) ==
  LET bw == (g.width - BRICK_GAP * (COLS + 1)) \div COLS
      bh == Of(g.height, BRICK_H)
  IN  [x |-> BRICK_GAP + b[1] * (bw + BRICK_GAP), y |-> TOP + b[2] * (bh + BRICK_GAP),
       w |-> bw, h |-> bh]

reset_ball(g) ==
  [g EXCEPT !.x = g.paddle + paddle_w(g) \div 2,
            !.y = g.height - SERVE_UP,
            !.vx = IF g.score % 2 = 0 THEN base_speed(g) ELSE -base_speed(g),
            !.vy = -base_speed(g)]

Fresh ==
  LET g == [paddle |-> 0, x |-> 0, y |-> 0, vx |-> SPEED, vy |-> -SPEED, bricks |-> Bricks,
            score |-> 0, lives |-> Lives, game_over |-> FALSE, won |-> FALSE, speed |-> SPEED,
            width |-> Sizes[1].w, height |-> Sizes[1].h]
  IN  reset_ball([g EXCEPT !.paddle = (g.width - paddle_w(g)) \div 2])

BallWhereItWas(g) == g
BallInside(g) ==
  [g EXCEPT !.x = Clamp(@, ball_r(g), g.width - ball_r(g)),
            !.y = Clamp(@, ball_r(g), g.height - ball_r(g))]

resize(g, size) ==
  IF size = [w |-> g.width, h |-> g.height] THEN g
  ELSE LET n == [g EXCEPT !.width = size.w, !.height = size.h]
       IN  BallInside([n EXCEPT !.paddle = Clamp((@ * size.w) \div g.width, 0, size.w - paddle_w(n)),
                                !.x = Quotient(@ * size.w, g.width),
                                !.y = Quotient(@ * size.h, g.height)])

Sign(v) == IF v >= 0 THEN 1 ELSE -1
RescaledToNothing(v, target, cur) == ((Abs(v) * target) \div cur) * Sign(v)
Rescaled(v, target, cur) == AtLeast((Abs(v) * target) \div cur, 1) * Sign(v)
rescale_ball_speed(g) ==
  LET cur == AtLeast(AtLeast(Abs(g.vx), Abs(g.vy)), 1)
  IN  [g EXCEPT !.vx = Rescaled(@, base_speed(g), cur), !.vy = Rescaled(@, base_speed(g), cur)]

-----------------------------------------------------------------------------
(* A step, part by part.                                                     *)

Moved(g) == [g EXCEPT !.x = @ + g.vx, !.y = @ + g.vy]

OffTheWalls(g) ==
  LET r == ball_r(g)
      side == IF g.x - r <= 0 THEN [g EXCEPT !.x = r, !.vx = Abs(@)]
              ELSE IF g.x + r >= g.width THEN [g EXCEPT !.x = g.width - r, !.vx = -Abs(@)]
              ELSE g
  IN  IF g.y - r <= 0 THEN [side EXCEPT !.y = r, !.vy = Abs(@)] ELSE side

OverPaddle(g) == g.x >= g.paddle - ball_r(g) /\ g.x <= g.paddle + paddle_w(g) + ball_r(g)
OnPaddle(g) ==
  /\ g.vy > 0
  /\ g.y + ball_r(g) >= PaddleTop(g)
  /\ g.y + ball_r(g) <= PaddleTop(g) + SLACK
  /\ OverPaddle(g)

AtPaddle(g) ==
  /\ g.vy > 0
  /\ g.y + ball_r(g) >= PaddleTop(g)
  /\ g.y + ball_r(g) <= PaddleTop(g) + paddle_h(g) + SLACK
  /\ OverPaddle(g)

Returned(g) ==
  LET hit == g.x - (g.paddle + paddle_w(g) \div 2)
      most == Clamp(SIDE + g.speed, SIDE, SIDE_MOST)
      side == Clamp(Quotient(hit, TURN), -most, most)
  IN  [g EXCEPT !.y = PaddleTop(g) - ball_r(g),
                !.vx = IF side # 0 THEN side ELSE IF hit >= 0 THEN 2 ELSE -2,
                !.vy = -base_speed(g)]
OffThePaddle(g) == IF AtPaddle(g) THEN Returned(g) ELSE g

Lost(g) == g.y - ball_r(g) > g.height
OneLess(g) ==
  IF g.lives > 1 THEN reset_ball([g EXCEPT !.lives = @ - 1])
  ELSE [g EXCEPT !.lives = 0, !.game_over = TRUE]

\* The first brick the ball touches, row by row, is taken.
Touched(g) ==
  LET r == ball_r(g)
  IN  {b \in g.bricks : LET k == Brick(g, b)
                        IN  /\ g.x + r >= k.x /\ g.x - r <= k.x + k.w
                            /\ g.y + r >= k.y /\ g.y - r <= k.y + k.h}
Earlier(a, b) == a[2] < b[2] \/ (a[2] = b[2] /\ a[1] <= b[1])
Broken(g) ==
  IF Touched(g) = {} THEN g
  ELSE LET b == CHOOSE b \in Touched(g) : \A c \in Touched(g) : Earlier(b, c)
           k == Brick(g, b)
           n == [g EXCEPT !.bricks = @ \ {b}, !.score = @ + 10 * (ROWS - b[2])]
       IN  IF Abs(g.y - k.y) < Abs(g.y - (k.y + k.h)) THEN [n EXCEPT !.vy = -@]
           ELSE [n EXCEPT !.vx = -@]

Ball(g) == OffThePaddle(OffTheWalls(Moved(g)))
step(g) ==
  IF Lost(Ball(g)) THEN OneLess(Ball(g))
  ELSE LET n == Broken(Ball(g)) IN [n EXCEPT !.won = (n.bricks = {})]

-----------------------------------------------------------------------------
Init ==
  /\ game \in {resize(Fresh, Sizes[i]) : i \in DOMAIN Sizes}
  /\ slipped = FALSE

Going == ~game.game_over /\ ~game.won

Step ==
  /\ Going
  /\ game' = step(game)
  /\ slipped' = LET m == OffTheWalls(Moved(game))
                IN  /\ game.vy > 0 /\ game.y + ball_r(game) < PaddleTop(game)
                    /\ m.y + ball_r(m) >= PaddleTop(m) /\ OverPaddle(m)
                    /\ ~AtPaddle(m)

Becomes(g) == game' = g /\ slipped' = FALSE

NudgePaddle(direction) ==
  LET moved == game.paddle + direction * Of(game.width, NUDGE)
  IN  Becomes([game EXCEPT !.paddle = Clamp(moved, 0, game.width - paddle_w(game))])

Faster ==
  /\ Going /\ game.speed < MAX_SPEED
  /\ Becomes(rescale_ball_speed([game EXCEPT !.speed = @ + 1]))
Slower ==
  /\ Going /\ game.speed > MIN_SPEED
  /\ Becomes(rescale_ball_speed([game EXCEPT !.speed = @ - 1]))

Restart == Becomes(resize(Fresh, [w |-> game.width, h |-> game.height]))

\* The window is maximised, or put back: layout_kids_playfield.
Layout == \E i \in DOMAIN Sizes : Becomes(resize(game, Sizes[i]))

Next ==
  \/ Step
  \/ \E direction \in {-1, 1} : NudgePaddle(direction)
  \/ Faster \/ Slower \/ Restart \/ Layout

Spec == Init /\ [][Next]_vars

-----------------------------------------------------------------------------
TypeOK ==
  /\ {game.paddle, game.x, game.y, game.vx, game.vy} \subseteq Int
  /\ game.bricks \subseteq Bricks /\ game.score \in Nat
  /\ game.lives \in 0 .. Lives /\ game.speed \in MIN_SPEED .. MAX_SPEED
  /\ [w |-> game.width, h |-> game.height] \in {Sizes[i] : i \in DOMAIN Sizes}
  /\ {game.game_over, game.won, slipped} \subseteq BOOLEAN

(* Whatever the paddle does and however the window is stretched, the ball and *)
(* the paddle stay on the court, the ball goes on in both directions, and it  *)
(* never passes through the paddle (breakout.rs step, resize,                 *)
(* rescale_ball_speed).                                                      *)
BallStaysInPlay ==
  LET r == ball_r(game)
  IN  /\ game.paddle >= 0 /\ game.paddle + paddle_w(game) <= game.width
      /\ game.x >= r /\ game.x <= game.width - r
      /\ game.y >= r /\ (Going => game.y <= game.height + r)
      /\ game.vx # 0 /\ game.vy # 0
      /\ ~slipped

(* The score is what the broken bricks are worth, and a game ends when no     *)
(* brick or no ball is left, and only then (breakout.rs step, restart).       *)
ScoreIsTheBricks ==
  /\ game.score = MapThenSumSet(LAMBDA b : 10 * (ROWS - b[2]), Bricks \ game.bricks)
  /\ game.won <=> game.bricks = {}
  /\ game.game_over <=> game.lives = 0
=============================================================================
