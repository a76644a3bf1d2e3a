------------------------------- MODULE Racing -------------------------------
(***************************************************************************)
(* Race Cars (kids/racing.rs and its window): cars come down the lanes, the*)
(* player steers between them at a speed of its own.                       *)
(*                                                                         *)
(* The road is measured from the top; a random number is any number that   *)
(* the code can take from it, and the score is kept modulo the RAMP at     *)
(* which it makes the road faster.  `passed` remembers the cars that the   *)
(* last step took past the player.                                         *)
(***************************************************************************)
EXTENDS Integers, FiniteSetsExt

CONSTANTS
  LANES, ENEMIES,
  CAR_H, UP,          \* length of a car, and the room under the player's
  PAST,               \* a car this far below the road comes again
  SPREAD,             \* the most a car that comes again is moved from the top
  Start(_),           \* where a car is at the start
  MIN_SPEED, MAX_SPEED, SPEED, RAMP,
  Heights             \* heights of the road

VARIABLES race, passed

raceVars == <<race, passed>>

Cars == 1 .. ENEMIES
Lanes == 0 .. LANES - 1

PlayerAt(h) == h - CAR_H - UP
\* A wrong form of Overlaps: a car that is past still counts.
ReachesFromAbove(y, h) == y + CAR_H > PlayerAt(h)
Overlaps(y, h) == y + CAR_H > PlayerAt(h) /\ y < PlayerAt(h) + CAR_H

\* A road with every car at its start, each in some lane.
Fresh(h, enemies) ==
  [lane |-> 1, enemies |-> enemies, score |-> 0, speed |-> SPEED, game_over |-> FALSE, height |-> h]
Starts == {e \in [Cars -> [lane : Lanes, y : {Start(i) : i \in Cars}]] : \A i \in Cars : e[i].y = Start(i)}

Init ==
  /\ \E h \in Heights, enemies \in Starts : race = Fresh(h, enemies)
  /\ passed = {}

-----------------------------------------------------------------------------
\* The quotient of a division is cut towards zero.
Scaled(y, h, old) == IF y < 0 THEN -((-y * h) \div old) ELSE (y * h) \div old

resize(h) ==
  /\ h # race.height
  /\ race' = [race EXCEPT !.height = h,
                          !.enemies = [i \in Cars |-> [@[i] EXCEPT !.y = Scaled(@, h, race.height)]]]
  /\ passed' = {}

restart ==
  /\ \E enemies \in Starts : race' = Fresh(race.height, enemies)
  /\ passed' = {}

nudge(dir) ==
  /\ ~race.game_over /\ race.lane + dir \in Lanes
  /\ race' = [race EXCEPT !.lane = @ + dir]
  /\ UNCHANGED passed

faster == ~race.game_over /\ race.speed < MAX_SPEED
          /\ race' = [race EXCEPT !.speed = @ + 1] /\ UNCHANGED passed
slower == ~race.game_over /\ race.speed > MIN_SPEED
          /\ race' = [race EXCEPT !.speed = @ - 1] /\ UNCHANGED passed

\* The road gets faster by itself, up to its most; a wrong form of it forgets that.
RampedOn(speed, score) == IF score = 0 THEN speed + 1 ELSE speed
Ramped(speed, score) == IF score = 0 /\ speed < MAX_SPEED THEN speed + 1 ELSE speed

\* The cars move one after the other: one that has left the road comes again above
\* it, or, as the random number has a sign, on it; the first that hits the player
\* ends the race, and those after it do not move any more.
Moved(i, speed) == race.enemies[i].y + speed
Leaves(i, speed) == Moved(i, speed) > race.height + PAST
Hits(i, speed) ==
  /\ ~Leaves(i, speed)
  /\ race.enemies[i].lane = race.lane
  /\ Overlaps(Moved(i, speed), race.height)

Movers(hits) == IF hits = {} THEN Cars ELSE 1 .. Min(hits)

Again == [lane : Lanes, y : {-CAR_H - n : n \in -SPREAD .. SPREAD}]

step ==
  LET score == (race.score + 1) % RAMP
      speed == Ramped(race.speed, score)
      hits == {i \in Cars : Hits(i, speed)}
      movers == Movers(hits)
  IN /\ ~race.game_over
     /\ \E new \in [{i \in movers : Leaves(i, speed)} -> Again] :
          race' = [race EXCEPT
                     !.score = score, !.speed = speed, !.game_over = (hits # {}),
                     !.enemies = [i \in Cars |->
                        IF i \notin movers THEN @[i]
                        ELSE IF Leaves(i, speed) THEN new[i]
                        ELSE [@[i] EXCEPT !.y = Moved(i, speed)]]]
     /\ passed' = {i \in movers : /\ race.enemies[i].lane = race.lane
                                  /\ race.enemies[i].y + CAR_H <= PlayerAt(race.height)
                                  /\ Moved(i, speed) >= PlayerAt(race.height) + CAR_H}

Next ==
  \/ \E h \in Heights : resize(h)
  \/ restart
  \/ \E dir \in {-1, 1} : nudge(dir)
  \/ faster
  \/ slower
  \/ step

Spec == Init /\ [][Next]_raceVars

-----------------------------------------------------------------------------
TypeOK ==
  /\ race.lane \in Lanes /\ race.score \in 0 .. RAMP - 1
  /\ race.height \in Heights
  /\ \A i \in Cars : race.enemies[i].lane \in Lanes /\ race.enemies[i].y \in Int
  /\ passed \subseteq Cars

\* No car goes through the player between two steps, at whatever speed the keys and
\* the ramp have reached together: the speed stays below the length of two cars.
NobodyIsDrivenThrough == passed = {} /\ race.speed \in MIN_SPEED .. MAX_SPEED

\* The step that ends a race leaves a car on the player's, which the player sees.
CrashesAreSeen ==
  [][race'.game_over /\ ~race.game_over =>
       \E i \in Cars : /\ race'.enemies[i].lane = race'.lane
                       /\ race'.enemies[i].y - PlayerAt(race'.height)
                            \in -CAR_H + 1 .. CAR_H - 1]_raceVars

=============================================================================
