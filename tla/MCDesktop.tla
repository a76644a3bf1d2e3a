------------------------------ MODULE MCDesktop ------------------------------
(***************************************************************************)
(* The parts of the desktop that keep no state in common, checked in one   *)
(* run: a behaviour belongs to one part, and the variables of the others   *)
(* stay as they were at the start.                                         *)
(***************************************************************************)
EXTENDS Integers, Sequences, TLC

CONSTANTS
  Pids, MAX_PENDING_EVENTS, MAX_WINDOWS_PER_PROCESS, MaxWindowId, MaxPresses,
  TextPaths, SourcePaths, UntitledC, Unsaved, MaxVersion, MaxOpen,
  Urls, HOME, None, MAX_SCRIPT_NAV, MaxHistory, MaxOffset,
  MAX_DETACHED, MaxId,
  MAX_NAMES, FM_ROWS, FM_LG_VISIBLE, MaxDepth,
  Letters, Newline, Space, TAB, max_chars, CAP

VARIABLES
  part,
  windows, dragging, pressed, gui, process, nextId, presses,
  desk, path, scratch, pending, target, edits,
  page, current, history, scroll, depth, todo,
  kids, detached, next, hidden, dirty, anchor, laid, gone, written,
  tree, texts, FM_PATH, explorer, chosen,
  text, cursor, selection, TEXT_CLIPBOARD, held,
  doc, attrs, controls, focus, changed, event, sent, touched, keys, script,
  STORE, file, disk, excuse,
  snake, dir, pending_dir, food, game_over, score, tries,
  game, slipped,
  field, layouts, since, passed,
  registry, packages, graphic, launcher, started,
  buffer, lines, history_count, history_cursor, temp_buffer, shown, ran, windowed,
  kept, draft, asked, half,
  lhs, op, entry, new_entry, display, footer,
  folders, dialog, place,
  race, overtaken,
  scrollback, input, blink_on, said,
  canvas, drawing, last, color, brush, tool, swatch, button, covered,
  opened, node_count, pieces, taken

W == INSTANCE WindowManager
E == INSTANCE Editors
B == INSTANCE Browser
D == INSTANCE Dom
F == INSTANCE FileManager
L == CHOOSE l \in Letters : TRUE
C == INSTANCE CodeArea WITH Files <- {<<>>, <<L, Newline, L>>}

\* A page with a text field, a button and a nameless text area in one form.
Field(kind, value) == [form |-> 1, kind |-> kind, value |-> value, disabled |-> FALSE]
Fm == INSTANCE Forms WITH
  dirty <- changed,
  Page <- <<Field("Text", <<>>), Field("Submit", <<L>>), Field("Area", <<>>)>>,
  Nameless <- {3},
  MAX_CONTROLS <- 2, MAX_VALUE_CHARS <- 2, MaxKeys <- 2, MaxScript <- 2

S == INSTANCE Storage WITH
  Origins <- {<<"a">>, <<"b">>},
  StoreKeys <- {<<"k">>, <<"tab">>},
  Texts <- {<<"x">>, <<"bs", "t">>, <<"y", "cr">>},
  MAX_STORE_BYTES <- 4, MAX_BYTES <- 16

\* The games on boards and canvases where a game ends within a few steps.
Sn == INSTANCE Snake WITH
  grid_w <- 3, grid_h <- 3,
  Start <- <<<<1, 1>>, <<0, 1>>, <<0, 0>>>>,
  FirstApple <- <<2, 1>>,
  MaxApples <- 2

\* A part of a canvas, between a least and a most.
Part(by, least, most) == [by |-> by, least |-> least, most |-> most]
Br == INSTANCE Breakout WITH
  COLS <- 2, ROWS <- 1, Lives <- 1,
  Sizes <- <<[w |-> 14, h |-> 14], [w |-> 20, h |-> 14]>>,
  MIN_SPEED <- 2, MAX_SPEED <- 3, SPEED <- 2,
  PADDLE_W <- Part(4, 4, 6), PADDLE_H <- Part(8, 2, 3), BALL_R <- Part(14, 1, 2),
  NUDGE <- Part(1, 4, 30), BASE <- Part(7, 2, 3), BRICK_H <- Part(8, 2, 3),
  BRICK_GAP <- 1, TOP <- 2, PADDLE_UP <- 3, SERVE_UP <- 6, SLACK <- 1,
  TURN <- 1, SIDE <- 1, SIDE_MOST <- 3

In == INSTANCE Invaders WITH
  COLS <- 2, ROWS <- 1, Lives <- 2, MAX_BULLETS <- 2,
  Sizes <- <<[w |-> 11, h |-> 10], [w |-> 16, h |-> 10]>>,
  MIN_SPEED <- 3, MAX_SPEED <- 4, SPEED <- 3,
  SHIP_W <- Part(8, 2, 3), ALIEN_W <- Part(8, 2, 3), ALIEN_H <- Part(9, 2, 2),
  GAP_X <- Part(16, 1, 2), GAP_Y <- Part(9, 1, 2), MOVE <- Part(1, 4, 30),
  ALIEN_STEP <- Part(4, 3, 3), BULLET_H <- Part(9, 2, 2), BULLET_STEP <- Part(3, 4, 4),
  BULLET_LEAST <- 2, DROP <- Part(6, 3, 3), MARGIN <- 1, START_X <- 1, START_Y <- 2,
  EDGE <- 1, FLOOR <- 4, MUZZLE <- 3, COOL <- 1, PERIOD <- 2, CYCLE <- 2, MaxLayouts <- 1

\* A bundled application, packages whose names differ in capitals or in the
\* characters a slug joins, one that is no name, and one for another machine.
Manifest(name) == <<<<"name", name>>>>
Elf(type, machine) ==
  [magic |-> "ELF", class |-> 64, order |-> "little", machine |-> machine, type |-> type]
Pk == INSTANCE Packages WITH
  files <- packages, gui <- graphic,
  Manifests <- {Manifest(<<"A", " ", "b">>) \o <<<<"version", "1">>>>,
                <<<<>>>> \o Manifest(<<"a", "-", "b">>),
                Manifest(<<"a", " ", "B">>) \o Manifest(<<"x">>) \o <<<<"version", "2">>>>,
                Manifest(<<"-">>), Manifest(<<"S">>), Manifest(<<"a", "!">>),
                <<<<"version", "1">>>>},
  Payloads <- {<<Elf("EXEC", "x86-64"), "w">>, <<Elf("DYN", "x86-64"), "v">>,
               <<Elf("EXEC", "arm"), "w">>},
  Bundled <- <<<<"s">>>>,
  MAX_INSTALLED <- 3, MAX_NAME_LEN <- 4, MAX_MANIFEST_LEN <- 4, MAX_PAYLOAD_LEN <- 3,
  Closed <- <<>>

Sh == INSTANCE Shell WITH
  history <- lines, gui <- windowed, said <- kept, pending <- half,
  Keys <- {"a"}, WIDE <- {"e"}, HELP <- <<"e">>, GUI <- <<"a", "a">>,
  HISTORY_SIZE <- 2, MAX_LINE <- 2, MAX_COMMAND <- 2, MaxSaid <- 3

Ca == INSTANCE Calculator WITH
  Base <- 10, Digits <- {0, 1, 6}, MAX_ENTRY <- 2, HALF <- 16

\* A disk with more entries than there are rows, an empty folder, and a volume
\* that is read only.
Folder(name) == [name |-> name, folder |-> TRUE]
File(name) == [name |-> name, folder |-> FALSE]
OnDisk(f) == f # <<>> /\ Head(f) = "disk"
Fd == INSTANCE FileDialog WITH
  tree <- folders, path <- place,
  Tree <- (<<>> :> <<Folder("disk"), Folder("fat")>>)
          @@ (<<"disk">> :> <<Folder("d"), File("x"), File("y")>>)
          @@ (<<"disk", "d">> :> <<>>) @@ (<<"fat">> :> <<File("x")>>),
  Home <- <<"disk">>, Writable <- OnDisk, FileNames <- {"x"}, FD_ROWS <- 2

Apart(i) == -2 * i
Ra == INSTANCE Racing WITH
  passed <- overtaken,
  LANES <- 2, ENEMIES <- 2, CAR_H <- 2, UP <- 1, PAST <- 1, SPREAD <- 1, Start <- Apart,
  MIN_SPEED <- 1, MAX_SPEED <- 2, SPEED <- 1, RAMP <- 3, Heights <- {7, 9}

Te == INSTANCE Terminal WITH
  Keys <- {"e", " ", "c"}, Blank <- " ", PROMPT <- <<"$", " ">>, CLEAR <- <<"c">>, ECHO <- "e",
  Files <- <<"c", "c">> :> <<<<"1", "2", "3", "4">>, <<>>, <<"5">>>>, Unknown <- <<"?">>,
  MAX_INPUT <- 3, CAP <- 3, max_cols <- 3, max_lines <- 2, MaxSaid <- 3

Pa == INSTANCE Paint WITH
  selected <- swatch, held <- button,
  CW <- 5, CH <- 2, PALETTE <- <<1, 0>>, CANVAS_BG <- 0, Brushes <- {1},
  FirstColour <- 1, FirstBrush <- 1

Hp == INSTANCE HtmlParse WITH
  stack <- opened, source <- pieces, given <- taken,
  Tags <- {"tr", "td", "b"}, VOID <- {"br"}, RAW_TEXT <- {"script"},
  MAX_DEPTH <- 4, MAX_NODES <- 4, MaxPieces <- 5

windowVars == <<windows, dragging, pressed, gui, process, nextId, presses>>
editorVars == <<desk, path, scratch, pending, target, edits>>
browserVars == <<page, current, history, scroll, depth, todo>>
documentVars == <<kids, detached, next, hidden, dirty, anchor, laid, gone, written>>
explorerVars == <<tree, texts, FM_PATH, explorer, chosen>>
textVars == <<text, cursor, selection, TEXT_CLIPBOARD, held>>
formVars == <<doc, attrs, controls, focus, changed, event, sent, touched, keys, script>>
storageVars == <<STORE, file, disk, excuse>>
snakeVars == <<snake, dir, pending_dir, food, game_over, score, tries>>
breakoutVars == <<game, slipped>>
invadersVars == <<field, layouts, since, passed>>
packageVars == <<registry, packages, graphic, launcher, started>>
shellVars == <<buffer, lines, history_count, history_cursor, temp_buffer, shown, ran, windowed,
  kept, draft, asked, half>>
calculatorVars == <<lhs, op, entry, new_entry, display, footer>>
dialogVars == <<folders, dialog, place>>
raceVars == <<race, overtaken>>
terminalVars == <<scrollback, input, blink_on, said>>
paintVars == <<canvas, drawing, last, color, brush, tool, swatch, button, covered>>
htmlVars == <<opened, node_count, pieces, taken>>
vars == <<part, windowVars, editorVars, browserVars, documentVars, explorerVars, textVars,
          formVars, storageVars, snakeVars, breakoutVars, invadersVars, packageVars,
          shellVars, calculatorVars, dialogVars, raceVars, terminalVars, paintVars,
          htmlVars>>

Init ==
  /\ part \in {"windows", "editors", "browser", "document", "explorer", "text",
              "forms", "storage", "snake", "breakout", "invaders", "packages",
              "shell", "calculator", "dialog", "racing", "terminal", "paint",
              "html"}
  /\ W!Init /\ E!Init /\ B!Init /\ D!Init /\ F!Init /\ C!Init /\ Fm!Init /\ S!Init
  /\ part # "text" => text = <<>>
  /\ part # "storage" => disk
  /\ Sn!Init
  /\ Br!Init
  /\ part # "breakout" => game.width = 14
  /\ In!Init
  /\ part # "invaders" => field.width = 11
  /\ Pk!Init
  /\ Sh!Init
  /\ Ca!Init
  /\ Fd!Init
  /\ Ra!Init
  /\ part # "racing" => race.height = 7 /\ \A i \in DOMAIN race.enemies : race.enemies[i].lane = 0
  /\ Te!Init
  /\ Pa!Init
  /\ Hp!Init

\* The part goes on, and the others stay as they are.
Only(p) ==
  /\ part = p /\ UNCHANGED part
  /\ IF p = "windows" THEN TRUE ELSE UNCHANGED windowVars
  /\ IF p = "editors" THEN TRUE ELSE UNCHANGED editorVars
  /\ IF p = "browser" THEN TRUE ELSE UNCHANGED browserVars
  /\ IF p = "document" THEN TRUE ELSE UNCHANGED documentVars
  /\ IF p = "explorer" THEN TRUE ELSE UNCHANGED explorerVars
  /\ IF p = "text" THEN TRUE ELSE UNCHANGED textVars
  /\ IF p = "forms" THEN TRUE ELSE UNCHANGED formVars
  /\ IF p = "storage" THEN TRUE ELSE UNCHANGED storageVars
  /\ IF p = "snake" THEN TRUE ELSE UNCHANGED snakeVars
  /\ IF p = "breakout" THEN TRUE ELSE UNCHANGED breakoutVars
  /\ IF p = "invaders" THEN TRUE ELSE UNCHANGED invadersVars
  /\ IF p = "packages" THEN TRUE ELSE UNCHANGED packageVars
  /\ IF p = "shell" THEN TRUE ELSE UNCHANGED shellVars
  /\ IF p = "calculator" THEN TRUE ELSE UNCHANGED calculatorVars
  /\ IF p = "dialog" THEN TRUE ELSE UNCHANGED dialogVars
  /\ IF p = "racing" THEN TRUE ELSE UNCHANGED raceVars
  /\ IF p = "terminal" THEN TRUE ELSE UNCHANGED terminalVars
  /\ IF p = "paint" THEN TRUE ELSE UNCHANGED paintVars
  /\ IF p = "html" THEN TRUE ELSE UNCHANGED htmlVars

Next ==
  \/ Only("windows") /\ W!Next
  \/ Only("editors") /\ E!Next
  \/ Only("browser") /\ B!Next
  \/ Only("document") /\ D!Next
  \/ Only("explorer") /\ F!Next
  \/ Only("text") /\ C!Next
  \/ Only("forms") /\ Fm!Next
  \/ Only("storage") /\ S!Next
  \/ Only("snake") /\ Sn!Next
  \/ Only("breakout") /\ Br!Next
  \/ Only("invaders") /\ In!Next
  \/ Only("packages") /\ Pk!Next
  \/ Only("shell") /\ Sh!Next
  \/ Only("calculator") /\ Ca!Next
  \/ Only("dialog") /\ Fd!Next
  \/ Only("racing") /\ Ra!Next
  \/ Only("terminal") /\ Te!Next
  \/ Only("paint") /\ Pa!Next
  \/ Only("html") /\ Hp!Next

Spec == Init /\ [][Next]_vars

(* Every variable of the part that runs keeps its type; the others are where  *)
(* they started.                                                             *)
TypeOK ==
  CASE part = "windows" -> W!TypeOK
    [] part = "editors" -> E!TypeOK
    [] part = "browser" -> B!TypeOK
    [] part = "document" -> D!TypeOK
    [] part = "explorer" -> F!TypeOK
    [] part = "text" -> C!TypeOK
    [] part = "forms" -> Fm!TypeOK
    [] part = "storage" -> S!TypeOK
    [] part = "snake" -> Sn!TypeOK
    [] part = "breakout" -> Br!TypeOK
    [] part = "invaders" -> In!TypeOK
    [] part = "packages" -> Pk!TypeOK
    [] part = "shell" -> Sh!TypeOK
    [] part = "calculator" -> Ca!TypeOK
    [] part = "dialog" -> Fd!TypeOK
    [] part = "racing" -> Ra!TypeOK
    [] part = "terminal" -> Te!TypeOK
    [] part = "paint" -> Pa!TypeOK
    [] part = "html" -> Hp!TypeOK

(* The properties of the parts, as their modules state them.                  *)
EventsReachTheirWindow == part = "windows" => W!EventsReachTheirWindow
DialogSavesItsEditor == part = "editors" => E!DialogSavesItsEditor
EditorShowsItsFile == part = "editors" => E!EditorShowsItsFile
ScriptRedirectsBounded == part = "browser" => B!ScriptRedirectsBounded
DocumentIsShownAsWritten == part = "document" => D!LayoutIsCurrent /\ D!WritesLandInOrder
MovesLoseNothing == D!MovesLoseNothing
HarmsOnlyTheChosen == F!HarmsOnlyTheChosen

(* What the user gave a page is what it sends, shows and finds again, and     *)
(* what its source says is in its tree, where the source says it              *)
(* (browser/forms.rs, browser/script.rs, browser/htmlparse.rs).              *)
PageKeepsItsData ==
  /\ part = "forms" => Fm!SendsWhatItShows /\ Fm!CaretIsShown
  /\ part = "storage" => S!StoredSurvives
  /\ part = "html" => Hp!TextsStayWhereTheyStood /\ Hp!NoneInsideWhatItEnds

(* Every application keeps its rules: the snake is whole and its apple on the *)
(* board, a ball stays in play, a shot counts and no car is driven through at *)
(* every size and speed; the registry and its packages agree, the launcher    *)
(* starts what it shows and the dialog opens what it marks; and the shell, the*)
(* terminal and the calculator show what they will act on (window.rs, apps.rs,*)
(* shell.rs, kids/*.rs).                                                     *)
ApplicationsKeepTheirRules ==
  /\ part = "snake" => Sn!SnakeIsWhole /\ Sn!AppleIsOnTheBoard
  /\ part = "breakout" => Br!BallStaysInPlay /\ Br!ScoreIsTheBricks
  /\ part = "invaders" => In!ShotsCount /\ In!ScoreIsTheAliens
  /\ part = "racing" => Ra!NobodyIsDrivenThrough
  /\ part = "packages" => /\ Pk!NothingLeftBehind /\ Pk!InstalledIsAsBuilt
                          /\ Pk!NamesFindTheirApp /\ Pk!LauncherStartsWhatItShows
  /\ part = "dialog" => Fd!SelectionIsTheMark
  /\ part = "shell" => /\ Sh!PromptShowsTheLine /\ Sh!HistoryIsWhatWasRun
                       /\ Sh!DraftComesBack /\ Sh!RunsWhatWasShown
  /\ part = "terminal" => Te!KeepsTheLastLines /\ Te!InputIsInView
  /\ part = "paint" => Pa!StrokeEndsWithTheButton /\ Pa!SwatchIsTheColour
  /\ part = "calculator" => Ca!EntryIsANumber /\ Ca!DisplayIsTheState

(* A step does its own work: a key changes the text at the caret alone, in the*)
(* editors (framebuffer.rs) and in the fields of a page (browser/forms.rs); a *)
(* result is exact or an error, a stroke of the brush has no gap and a fill   *)
(* keeps to its region (window.rs), and the step that ends a race shows the   *)
(* crash (kids/racing.rs).                                                   *)
StepsDoTheirWork ==
  /\ C!EditsAreLocal /\ Fm!TypingSurvives /\ Ca!ResultsAreExact /\ Ra!CrashesAreSeen
  /\ Pa!FillIsTheRegion /\ Pa!StrokeIsUnbroken /\ Pa!PickedIsUsed
=============================================================================
