------------------------------ MODULE Packages ------------------------------
(***************************************************************************)
(* The applications registry and the packages it installs (apps.rs and the *)
(* package crate): a package is built on a host, arrives as a file that    *)
(* may be damaged, is parsed, copied under /apps and registered; an        *)
(* application is found by its name or by the slug of its name, started by *)
(* `pkg run` or by its button in the launcher window, and removed.         *)
(*                                                                         *)
(* An image keeps its header field by field.  A manifest is a sequence of  *)
(* lines <<key, value>>, a line that is no field is <<>>; a payload is a   *)
(* sequence whose first element is its ELF header.  Lengths are counted in *)
(* lines and words, and the checksum of a payload is the payload itself:   *)
(* two payloads that differ are taken to differ in their checksum.         *)
(***************************************************************************)
EXTENDS Integers, Sequences, SequencesExt, FiniteSetsExt, TLC

CONSTANTS
  Manifests,          \* what packages are built with
  Payloads,
  Bundled,            \* the names of the applications in the kernel image
  MAX_INSTALLED,
  MAX_NAME_LEN, MAX_MANIFEST_LEN, MAX_PAYLOAD_LEN,
  Closed              \* there is no launcher window

VARIABLES
  registry,           \* sequence of [name, version, payload, path]
  files,              \* the files of /apps, by name
  gui,                \* the desktop is on the screen
  launcher,           \* Closed, or the names on the launcher's buttons
  started             \* the payload started last

packageVars == <<registry, files, gui, launcher, started>>

BuiltIn == <<>>             \* the payload and the path of an application of the kernel
Letter(c) == c \notin {"-", "_", " ", "!"}
Lower(c) == IF c = "A" THEN "a" ELSE IF c = "B" THEN "b" ELSE c
LowerCase(name) == [i \in DOMAIN name |-> Lower(name[i])]
SameName(a, b) == LowerCase(a) = LowerCase(b)

is_valid_name(name) ==
  /\ Len(name) \in 1 .. MAX_NAME_LEN
  /\ \A i \in DOMAIN name : name[i] # "!"

\* The runs of other characters become one dash each, none at either end.
slugify(name) ==
  LET Dashed == [i \in DOMAIN name |-> IF Letter(name[i]) THEN Lower(name[i]) ELSE "-"]
      Add(out, c) == IF c = "-" /\ (out = <<>> \/ Last(out) = "-") THEN out ELSE Append(out, c)
      squeezed == FoldLeft(Add, <<>>, Dashed)
      trimmed == IF squeezed # <<>> /\ Last(squeezed) = "-" THEN Front(squeezed) ELSE squeezed
  IN IF trimmed = <<>> THEN <<"a", "p", "p">> ELSE trimmed

crc32(payload) == payload

build(manifest, payload) ==
  [magic |-> "OS101PKG", version |-> 1, flags |-> 0,
   manifest_len |-> Len(manifest), payload_len |-> Len(payload),
   crc |-> crc32(payload), rest |-> manifest \o payload]

\* What the way to the machine may do to an image.
Damaged(image) ==
  {[image EXCEPT !.magic = "other"], [image EXCEPT !.version = 2], [image EXCEPT !.flags = 1],
   [image EXCEPT !.payload_len = MAX_PAYLOAD_LEN + 1],
   [image EXCEPT !.manifest_len = MAX_MANIFEST_LEN + 1],
   [image EXCEPT !.rest = Front(@)],
   [image EXCEPT !.rest = Append(Front(@), "flipped")],
   [image EXCEPT !.payload_len = @ - 1]}

manifest_bytes(image) == SubSeq(image.rest, 1, image.manifest_len)
payload_bytes(image) ==
  SubSeq(image.rest, image.manifest_len + 1, image.manifest_len + image.payload_len)

validate_elf(payload) ==
  /\ payload # <<>>
  /\ LET header == Head(payload)
     IN /\ header.magic = "ELF" /\ header.class = 64
        /\ header.order = "little" /\ header.machine = "x86-64"
        /\ header.type \in {"EXEC", "DYN"}

parse_manifest(lines) == SelectSeq(lines, LAMBDA line : line # <<>>)
FirstOf(fields, key, default) ==
  LET named == SelectSeq(fields, LAMBDA f : f[1] = key)
  IN IF named = <<>> THEN default ELSE named[1][2]

HeaderIsRight(image) ==
  /\ image.magic = "OS101PKG" /\ image.version = 1 /\ image.flags = 0
  /\ image.manifest_len <= MAX_MANIFEST_LEN
  /\ image.payload_len <= MAX_PAYLOAD_LEN
  /\ Len(image.rest) >= image.manifest_len + image.payload_len

\* A wrong form of PayloadIsRight: only the lengths are looked at.
PayloadIsThere(image) == Len(payload_bytes(image)) = image.payload_len
PayloadIsRight(image) == crc32(payload_bytes(image)) = image.crc

Parses(image) ==
  /\ HeaderIsRight(image)
  /\ PayloadIsRight(image)
  /\ is_valid_name(FirstOf(parse_manifest(manifest_bytes(image)), "name", <<>>))
  /\ validate_elf(payload_bytes(image))

parse(image) ==
  LET fields == parse_manifest(manifest_bytes(image))
  IN [name |-> FirstOf(fields, "name", <<>>),
      version |-> FirstOf(fields, "version", "0.0.0"),
      payload |-> payload_bytes(image)]

Removable(app) == app.path # BuiltIn
Named(name) == {i \in DOMAIN registry : SameName(registry[i].name, name)}
WithSlug(name) == {i \in DOMAIN registry : slugify(registry[i].name) = slugify(name)}

\* The place of the application, by its name or else by its slug; 0 for none.
find(name) ==
  IF Named(name) # {} THEN Min(Named(name))
  ELSE IF WithSlug(name) # {} THEN Min(WithSlug(name)) ELSE 0

\* A wrong form of Holders: capitals matter.
SameCase(app) == {i \in DOMAIN registry : registry[i].name = app.name}
Holders(app) == Named(app.name)

MayRegister(app) ==
  /\ Len(registry) < MAX_INSTALLED
  /\ \A i \in Holders(app) : Removable(registry[i])

\* An application of the same name is replaced where it stands.
Registered(app) ==
  IF Holders(app) = {} THEN Append(registry, app)
  ELSE [registry EXCEPT ![Min(Holders(app))] = app]

Stored(dest, image) == [f \in DOMAIN files \cup {dest} |-> IF f = dest THEN image ELSE files[f]]
Without(dest) == [f \in DOMAIN files \ {dest} |-> files[f]]

-----------------------------------------------------------------------------
\* /apps is in memory, so that a boot finds no package there.
Init ==
  /\ registry = [i \in DOMAIN Bundled |->
                  [name |-> Bundled[i], version |-> "1.0.0", payload |-> BuiltIn, path |-> BuiltIn]]
  /\ files = <<>>
  /\ gui = FALSE
  /\ launcher = Closed
  /\ started = [asked |-> Closed, name |-> Closed]

\* A wrong form of RolledBack: the copy of a refused package stays.
NotRolledBack(dest, image) == Stored(dest, image)
RolledBack(dest, image) == Without(dest)

\* The package is copied before it is registered, and the copy is removed when
\* it is refused; a copy that finds no room refuses the package at once.
install_bytes(image) ==
  /\ Parses(image)
  /\ LET pkg == parse(image)
         dest == slugify(pkg.name)
         app == [name |-> pkg.name, version |-> pkg.version, payload |-> pkg.payload, path |-> dest]
     IN IF MayRegister(app)
        THEN registry' = Registered(app) /\ files' = Stored(dest, image)
        ELSE registry' = registry /\ files' = RolledBack(dest, image)

Images == {build(m, p) : m \in Manifests, p \in Payloads}
Arriving == Images \cup UNION {Damaged(image) : image \in Images}

\* `pkg install` of a file from outside, or of one that is in /apps.
Install ==
  /\ ~gui
  /\ \E image \in Arriving \cup {files[f] : f \in DOMAIN files} : install_bytes(image)
  /\ UNCHANGED <<gui, launcher, started>>

\* `pkg remove`: by name alone, never by slug.
Uninstall(name) ==
  /\ ~gui
  /\ Named(name) # {}
  /\ LET i == Min(Named(name))
     IN /\ Removable(registry[i])
        /\ registry' = RemoveAt(registry, i)
        /\ files' = Without(registry[i].path)
  /\ UNCHANGED <<gui, launcher, started>>

\* `pkg run`.
RunByName(name) ==
  /\ ~gui
  /\ find(name) # 0
  /\ started' = [asked |-> name, name |-> registry[find(name)].name]
  /\ UNCHANGED <<registry, files, gui, launcher>>

EnterGui == ~gui /\ gui' = TRUE /\ UNCHANGED <<registry, files, launcher, started>>

\* The launcher is made from the registry, and raised when it is there.
Shown == [i \in DOMAIN registry |-> registry[i].name]
OpenLauncher ==
  /\ gui
  /\ launcher' = IF launcher = Closed THEN Shown ELSE launcher
  /\ UNCHANGED <<registry, files, gui, started>>

CloseLauncher ==
  /\ gui /\ launcher' = Closed /\ UNCHANGED <<registry, files, gui, started>>

\* A click on the button of an application.
LaunchApp(i) ==
  /\ gui
  /\ i \in DOMAIN registry
  /\ started' = [asked |-> launcher[i], name |-> registry[i].name]
  /\ UNCHANGED <<registry, files, gui, launcher>>

\* A wrong form of WindowsLeft: the windows wait for the next time.
WindowsStay == launcher
WindowsLeft == Closed
ExitGui ==
  /\ gui /\ gui' = FALSE /\ launcher' = WindowsLeft /\ UNCHANGED <<registry, files, started>>

Names == {FirstOf(parse_manifest(m), "name", <<>>) : m \in Manifests}
         \cup {Bundled[i] : i \in DOMAIN Bundled}

Next ==
  \/ Install
  \/ \E name \in Names : Uninstall(name) \/ RunByName(name)
  \/ EnterGui
  \/ OpenLauncher
  \/ CloseLauncher
  \/ launcher # Closed /\ \E i \in DOMAIN launcher : LaunchApp(i)
  \/ ExitGui

Spec == Init /\ [][Next]_packageVars

-----------------------------------------------------------------------------
TypeOK ==
  /\ Len(registry) <= MAX_INSTALLED
  /\ \A i \in DOMAIN registry : is_valid_name(registry[i].name)
  /\ \A f \in DOMAIN files : Parses(files[f])
  /\ gui \in BOOLEAN
  /\ DOMAIN started = {"asked", "name"}

\* "A rejected install leaves nothing behind" (apps.rs:188): every file of /apps
\* is the package of a registered application, with what was registered, however
\* many installs were refused, replaced one another or were removed.
NothingLeftBehind ==
  \A f \in DOMAIN files : \E i \in DOMAIN registry :
    /\ registry[i].path = f
    /\ parse(files[f]) = [name |-> registry[i].name, version |-> registry[i].version,
                          payload |-> registry[i].payload]

\* What runs is what was built: no damage on the way gets past parse.
InstalledIsAsBuilt ==
  \A i \in DOMAIN registry :
    Removable(registry[i]) => registry[i].payload \in {p \in Payloads : validate_elf(p)}

\* Every application is found by its own name, whoever was installed, replaced or
\* removed around it; and what is started answers to the name that was asked.
NamesFindTheirApp ==
  /\ \A i \in DOMAIN registry : find(registry[i].name) = i
  /\ slugify(started.asked) = slugify(started.name)

\* A button of the launcher holds a place in the registry, not a name: the place
\* still holds the application whose name the button shows.
LauncherStartsWhatItShows ==
  launcher # Closed =>
    \A i \in DOMAIN launcher : i \in DOMAIN registry /\ registry[i].name = launcher[i]

=============================================================================
