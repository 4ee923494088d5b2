------------------------------- MODULE Biome -------------------------------
(***************************************************************************)
(* biome, the package manager: cheatah.toml is the manifest,               *)
(* CMakeLists.txt is generated from it, `build/' is configured from        *)
(* CMakeLists.txt and compiled. A manifest is abstracted to the set of     *)
(* extensions it names (its pinned standard decides which are members).    *)
(* A command writes its files one after another, each truncated first. It  *)
(* may be killed between any two steps, and a write that fails is reported *)
(* by nobody: io.open and File.write do not throw.                         *)
(***************************************************************************)
EXTENDS Files

CONSTANTS NoTree,          \* no build/
          Extensions,      \* the registry: known_extensions()
          Members,         \* the extensions that the pinned standard has a tag for
          MaxCommands      \* bound: biome commands and edits of the manifest

ASSUME BiomeAssumption == /\ Members \subseteq Extensions /\ MaxCommands \in Nat
                          /\ Absent # Empty /\ NoTree \notin {Absent, Empty}
                          /\ \A m \in SUBSET Extensions : m \notin {Absent, Empty, NoTree}

VARIABLES biome,           \* the running command: its manifest, the files it has still to
                           \* write, and whether the first of them is truncated already
          tree,            \* the build file that `build/' was configured from; Absent: none,
                           \* but build/ is there
          built,           \* the extensions of the last `biome build' that succeeded
          commands,
          scaffolded,      \* the project's directory is there
          excused,         \* history: since biome last saved or read the manifest to generate from
                           \* it, it was edited, a command was killed or a write was lost
          asked            \* history: the manifests that the user wrote or a command set out to save

biomeVars == <<biome, tree, built, commands, scaffolded, excused, asked>>

Idle == [cmd |-> "none", held |-> {}, todo |-> << >>, opened |-> FALSE]

BiomeInit ==
    /\ biome = Idle
    /\ tree = NoTree
    /\ built = Absent
    /\ commands = 0
    /\ scaffolded = FALSE
    /\ excused = FALSE
    /\ asked = {{}}

\* read_manifest_at: a file without text is a manifest without extensions.
AsRead(c) == IF c = Empty THEN {} ELSE c
Manifest == AsRead(fs["cheatah.toml"])

\* validate_manifest: the standard is known and every extension is a member of it.
Valid(m) == m \subseteq Members

Invoked(c) ==
    /\ biome = Idle
    /\ Exists("cheatah.toml") \/ c = "init"
    /\ commands < MaxCommands
    /\ commands' = commands + 1

\* A command that goes to work, and one that ends before it has changed anything.
Begin(c, m, files) ==
    /\ Invoked(c)
    /\ biome' = [cmd |-> c, held |-> m, todo |-> files, opened |-> FALSE]
    /\ UNCHANGED <<fs, tree, built, asked>>

NothingToDo(c) == Invoked(c) /\ UNCHANGED <<fs, biome, tree, built, asked, excused>>

(***************************************************************************)
(* init: refused when the directory is there (even one an init was killed  *)
(* in); writes the manifest, the CPM bootstrap and CMakeLists.txt.         *)
(***************************************************************************)
Scaffold == <<"cheatah.toml", "CPM.cmake", "CMakeLists.txt">>

InitProject ==
    /\ ~scaffolded
    /\ scaffolded' = TRUE
    /\ Begin("init", {}, Scaffold)
    /\ UNCHANGED excused

(***************************************************************************)
(* add and remove: an extension already there (or not there) ends with     *)
(* success and no write; a manifest that does not validate ends the        *)
(* command; otherwise the manifest is saved and then CMakeLists.txt.       *)
(***************************************************************************)
\* mutant of Update: the build file is generated before the manifest is saved
UpdateBuildFileFirst == <<"CMakeLists.txt", "cheatah.toml">>

Update == <<"cheatah.toml", "CMakeLists.txt">>

Save(m) ==
    /\ Exists("cheatah.toml")
    /\ IF m # Manifest /\ Valid(m) THEN Begin("save", m, Update) /\ UNCHANGED excused ELSE NothingToDo("save")
    /\ UNCHANGED scaffolded

Add(e) == Save(Manifest \union {e})
Remove(e) == Save(Manifest \ {e})

\* configure: regenerate CMakeLists.txt from the manifest, then run CMake's configure.
Configure ==
    /\ Exists("cheatah.toml")
    /\ IF Valid(Manifest) THEN Begin("configure", Manifest, <<"CMakeLists.txt">>) /\ excused' = FALSE
       ELSE NothingToDo("configure")
    /\ UNCHANGED scaffolded

(***************************************************************************)
(* write_file: io.open truncates, the text follows. If it does not open,   *)
(* the file stays as it was; if the text is not written, it stays empty.   *)
(***************************************************************************)
File == Head(biome.todo)

\* File is dealt with: init, add and remove end with their last file.
NextFile ==
    biome' = IF Len(biome.todo) = 1 /\ biome.cmd # "configure" THEN Idle
             ELSE [biome EXCEPT !.todo = Tail(@), !.opened = FALSE]

Truncate ==
    /\ biome.todo # << >> /\ ~biome.opened
    /\ Put(File, Empty)
    /\ biome' = [biome EXCEPT !.opened = TRUE]
    /\ UNCHANGED <<excused, asked>>

WriteText ==
    /\ biome.todo # << >> /\ biome.opened
    /\ Put(File, biome.held)
    /\ excused' = (excused /\ File # "cheatah.toml")
    /\ asked' = IF File = "cheatah.toml" THEN asked \union {biome.held} ELSE asked
    /\ NextFile

LoseText ==
    /\ biome.todo # << >>
    /\ excused' = TRUE
    /\ asked' = IF File = "cheatah.toml" THEN asked \union {biome.held} ELSE asked
    /\ NextFile
    /\ UNCHANGED fs

WriteFile == (Truncate \/ WriteText \/ LoseText) /\ UNCHANGED <<tree, built, commands, scaffolded>>

\* CMake's configure: a build file without text is a project of nothing, one with text
\* needs CPM. Whatever comes of it, build/ is there afterwards.
RunConfigure ==
    /\ biome.cmd = "configure" /\ biome.todo = << >>
    /\ \/ /\ fs["CMakeLists.txt"] = Empty \/ (HasText("CMakeLists.txt") /\ HasText("CPM.cmake"))
          /\ tree' = fs["CMakeLists.txt"]
       \/ tree' = IF tree = NoTree THEN Absent ELSE tree
    /\ biome' = Idle
    /\ UNCHANGED <<fs, built, commands, scaffolded, excused, asked>>

\* build: refused without build/; it reads the manifest only for the name of the module.
Build ==
    /\ IF tree # NoTree THEN Begin("build", Manifest, << >>) /\ UNCHANGED excused ELSE NothingToDo("build")
    /\ UNCHANGED scaffolded

\* cmake --build brings build/ up to date with CMakeLists.txt first; what it makes of an
\* empty one is no program. It may fail at either.
RunBuild ==
    /\ biome.cmd = "build"
    /\ \/ /\ tree # Absent /\ Exists("CMakeLists.txt")
          /\ tree' = fs["CMakeLists.txt"]
          /\ built' \in {built} \union ({tree'} \ {Empty})
       \/ UNCHANGED <<tree, built>>
    /\ biome' = Idle
    /\ UNCHANGED <<fs, commands, scaffolded, excused, asked>>

Kill ==
    /\ biome # Idle
    /\ biome' = Idle
    /\ excused' = (excused \/ biome.todo # << >>)
    /\ UNCHANGED <<fs, tree, built, commands, scaffolded, asked>>

\* The user edits cheatah.toml by hand (the only way to declare [dependencies] or a standard).
EditManifest(m) ==
    /\ Exists("cheatah.toml")
    /\ commands < MaxCommands
    /\ commands' = commands + 1
    /\ Put("cheatah.toml", m)
    /\ excused' = TRUE
    /\ asked' = asked \union {m}
    /\ UNCHANGED <<biome, tree, built, scaffolded>>

BiomeNext ==
    \/ InitProject
    \/ \E e \in Extensions : Add(e) \/ Remove(e)
    \/ WriteFile
    \/ Configure \/ RunConfigure
    \/ Build \/ RunBuild
    \/ Kill
    \/ \E m \in SUBSET Extensions : m # fs["cheatah.toml"] /\ EditManifest(m)
=============================================================================
