--------------------------------- MODULE Snake ---------------------------------
(***************************************************************************)
(* The snake game (kernel/src/window.rs): a snake on a board of cells, the *)
(* direction it goes and the one it was told to take, and an apple.  The   *)
(* main loop moves it every five ticks of the timer; keys and buttons come *)
(* in between, any number of them; while its window is minimised it stands *)
(* still, a stuttering step.  The apple's place is pseudo-random: the      *)
(* search for a free cell gives up after 64 tries.                         *)
(***************************************************************************)
EXTENDS Integers, Sequences, FiniteSets, SequencesExt

CONSTANTS
  grid_w, grid_h,
  Start,             \* the cells of the snake at the start, its head first
  FirstApple,
  MaxApples          \* bound: apples eaten in a game

VARIABLES
  snake, dir, pending_dir, food, game_over, score,
  tries              \* history: the last search for a free cell gave up

vars == <<snake, dir, pending_dir, food, game_over, score, tries>>

Up == <<0, -1>>
Down == <<0, 1>>
Left == <<-1, 0>>
Right == <<1, 0>>
Directions == {Up, Down, Left, Right}

Cells == (0 .. grid_w - 1) \X (0 .. grid_h - 1)
Plus(a, b) == <<a[1] + b[1], a[2] + b[2]>>
Reversal(a, b) == Plus(a, b) = <<0, 0>>
Body == ToSet(snake)

\* A new game: create_snake_window and snake_restart.
NewGame ==
  [snake |-> Start, dir |-> Right, pending_dir |-> Right, food |-> FirstApple,
   game_over |-> FALSE, score |-> 0]

Init ==
  /\ snake = Start /\ dir = Right /\ pending_dir = Right /\ food = FirstApple
  /\ game_over = FALSE /\ score = 0
  /\ tries = FALSE

Restart ==
  /\ snake' = NewGame.snake /\ dir' = NewGame.dir /\ pending_dir' = NewGame.pending_dir
  /\ food' = NewGame.food /\ game_over' = NewGame.game_over /\ score' = NewGame.score
  /\ tries' = FALSE

\* A key or a button is weighed against the way the snake went last.
Allowed(d) == ~Reversal(d, dir)

Turn(d) ==
  /\ Allowed(d)
  /\ pending_dir' = d
  /\ UNCHANGED <<snake, dir, food, game_over, score, tries>>

\* The way it goes now: what was asked for last, unless that is back.
Heading == IF Reversal(pending_dir, dir) THEN dir ELSE pending_dir
Ahead == Plus(snake[1], Heading)
EndsAtTheWall == Ahead \notin Cells
Ends == Ahead \notin Cells \/ Ahead \in Body

Due == ~game_over

\* snake_step.
Crash ==
  /\ Due /\ Ends
  /\ dir' = Heading
  /\ game_over' = TRUE
  /\ UNCHANGED <<snake, pending_dir, food, score, tries>>

Glide ==
  /\ Due /\ ~Ends /\ Ahead # food
  /\ dir' = Heading
  /\ snake' = <<Ahead>> \o Front(snake)
  /\ UNCHANGED <<pending_dir, food, game_over, score, tries>>

\* Where a new apple may lie: a cell the snake leaves free, or the old one if none was found.
Free(body) == Cells \ body
Eat ==
  /\ Due /\ ~Ends /\ Ahead = food /\ score < MaxApples
  /\ dir' = Heading
  /\ snake' = <<Ahead>> \o snake
  /\ score' = score + 1
  /\ food' \in Free(ToSet(snake')) \cup {food}
  /\ tries' = (food' = food)
  /\ UNCHANGED <<pending_dir, game_over>>

Next == Restart \/ (\E d \in Directions : Turn(d)) \/ Crash \/ Glide \/ Eat

Spec == Init /\ [][Next]_vars

-----------------------------------------------------------------------------
TypeOK ==
  /\ snake \in Seq(Cells) /\ food \in Cells
  /\ {dir, pending_dir} \subseteq Directions
  /\ game_over \in BOOLEAN /\ tries \in BOOLEAN
  /\ score \in 0 .. MaxApples

(* However fast its keys are pressed between two steps, the snake stays on    *)
(* the board in one piece, lies in no cell twice and is as long as it ate     *)
(* (window.rs snake_step).                                                   *)
SnakeIsWhole ==
  /\ Body \subseteq Cells /\ IsInjective(snake)
  /\ Len(snake) = Len(Start) + score
  /\ \E d \in Directions : snake[1] = Plus(snake[2], d)
  /\ \A i \in 2 .. Len(snake) : \E d \in Directions : snake[i - 1] = Plus(snake[i], d)

(* An apple is hidden under the snake only if no free cell was found for it   *)
(* (window.rs snake_step).                                                   *)
AppleIsOnTheBoard == food \in Body => tries
=============================================================================
