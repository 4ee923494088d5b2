------------------------------- MODULE Purrc -------------------------------
(***************************************************************************)
(* The compiler driver purrc as two processes over the file system: "lib"  *)
(* emits the opaque library m (purrc --emit-library) and "prog" builds the *)
(* program app.so that imports m. A run is the list of the steps it has    *)
(* left: `todo' shrinks from the front, a failing step empties it, and a   *)
(* kill may empty it between any two steps. What the C++ compiler and the  *)
(* archiver write replaces their output in one step. A write may fail:     *)
(* purrc sees that only if the file does not open or the text overflows    *)
(* the stream's buffer, and does not look at every result it is given.     *)
(***************************************************************************)
EXTENDS Files

CONSTANTS Keys,        \* code signing keys a run may use
          NoKey,       \* no --sign
          RtKeys,      \* runtime signing keys
          Toolchains,  \* build fingerprints (arch / libc / libstdc++) of the purrc that may run
          MaxRuns,     \* bound: runs of each of the two processes
          MaxEdits     \* bound: edits of m.purr

\* A file that is not there, or has no text yet, is none that says something of m or signs it.
ASSUME PurrcAssumption ==
    /\ NoKey \notin Keys
    /\ MaxRuns \in Nat /\ MaxEdits \in Nat
    /\ LET texts == [api : Nat] \union [api : Nat, body : Nat]
           all == texts \union {Absent, Empty}
       IN  \A c \in {Absent, Empty} : c \notin texts /\ c \notin Keys \X all /\ c \notin [of : all]

VARIABLES run,         \* per process: steps left, what it read last, its flags, and the files
                       \* whose write failed and the run went on (`lost')
          result,      \* per process: "none" | "running" | "ok" | "failed" (or was killed)
          imported,    \* what the program build verified and linked of m
          signed,      \* history: the <<key, content>> pairs purrc has signed
          raced,       \* the emitter wrote while the program build was using m
          bounds       \* runs and edits left

purrcVars == <<run, result, imported, signed, raced, bounds>>

Process == {"lib", "prog"}
NoFlags == [key |-> NoKey, sum |-> FALSE, rt |-> FALSE, rtkey |-> NoKey,
            toolchain |-> CHOOSE t \in Toolchains : TRUE]
Nothing == [header |-> Absent, archive |-> Absent, signedLib |-> FALSE]

PurrcInit ==
    /\ run = [p \in Process |-> [todo |-> << >>, held |-> Absent, flags |-> NoFlags, lost |-> {}]]
    /\ result = [p \in Process |-> "none"]
    /\ imported = Nothing
    /\ signed = {}
    /\ raced = FALSE
    /\ bounds = [lib |-> MaxRuns, prog |-> MaxRuns, edit |-> MaxEdits]

(***************************************************************************)
(* The scripts. write_file and ofstream truncate first ("open") and then   *)
(* write what is held ("put"); a sidecar is computed from the artifact as  *)
(* read back from disk ("read").                                           *)
(***************************************************************************)
Write(f) == << <<"open", f>>, <<"put", f>> >>
Sidecar(f, s) == << <<"read", f>> >> \o Write(s)

\* sign_output: the checksum and then the signature; each reads the artifact again.
Seal(f, k) == Sidecar(f, Sum(f)) \o (IF k = NoKey THEN << >> ELSE Sidecar(f, Sig(f)))

\* mutant of LibScript: the header is sealed as soon as it is written
HeaderSealedFirst(fl) ==
    << <<"source", "m.purr">> >> \o Write("m.hpp") \o Seal("m.hpp", fl.key) \o Write("m.impl")
    \o << <<"archive", "libm.a">>, <<"remove", "m.impl">> >> \o Seal("libm.a", fl.key)


\* emit_library, opaque: header, hidden definitions, archive, then the sidecars of
\* the archive and, last, those of the header.
LibScript(fl) ==
    << <<"source", "m.purr">> >> \o Write("m.hpp") \o Write("m.impl")
    \o << <<"archive", "libm.a">>, <<"remove", "m.impl">> >>
    \o Seal("libm.a", fl.key) \o Seal("m.hpp", fl.key)

\* mutant of ProgScript: the sidecars are written before the backend runs
SealedBeforeBuilt(fl) ==
    << <<"resolve", "m.hpp">>, <<"verify", "m.hpp">>, <<"verify", "libm.a">> >>
    \o (IF fl.key # NoKey \/ fl.sum THEN Seal("app.so", fl.key) ELSE << >>)
    \o << <<"backend", "app.so">> >>

\* main, program mode: verify the import, run the backend, then the sidecars asked for.
ProgScript(fl) ==
    << <<"resolve", "m.hpp">>, <<"verify", "m.hpp">>, <<"verify", "libm.a">>,
       <<"backend", "app.so">> >>
    \o (IF fl.key # NoKey \/ fl.sum THEN Seal("app.so", fl.key) ELSE << >>)
    \o (IF fl.rtkey # NoKey \/ fl.rt
        THEN << <<"manifest", "app.so.rt">> >> \o Write("app.so.rt") ELSE << >>)
    \o (IF fl.rtkey # NoKey THEN Write("app.so.rt.sig") ELSE << >>)

Script(p, fl) == IF p = "lib" THEN LibScript(fl) ELSE ProgScript(fl)

Start(p, fl) ==
    /\ run[p].todo = << >>
    /\ bounds[p] > 0
    /\ bounds' = [bounds EXCEPT ![p] = @ - 1]
    /\ run' = [run EXCEPT ![p] = [todo |-> Script(p, fl), held |-> Absent, flags |-> fl, lost |-> {}]]
    /\ result' = [result EXCEPT ![p] = "running"]
    /\ imported' = IF p = "prog" THEN Nothing ELSE imported
    /\ raced' = IF p = "prog" THEN run["lib"].todo # << >> ELSE raced \/ run["prog"].todo # << >>
    /\ UNCHANGED <<fs, signed>>

(***************************************************************************)
(* One step of a run.                                                      *)
(***************************************************************************)
At(p, kind, f) == run[p].todo # << >> /\ Head(run[p].todo) = <<kind, f>>

\* The step is over: p holds h, the writes l were lost, and the run may be at its end.
GoOn(p, h, l) ==
    /\ run' = [run EXCEPT ![p].todo = Tail(@),
                          ![p].held = IF Len(run[p].todo) = 1 THEN Absent ELSE h,
                          ![p].lost = l]
    /\ result' = [result EXCEPT ![p] = IF Len(run[p].todo) = 1 THEN "ok" ELSE @]
    /\ UNCHANGED <<raced, bounds>>

Done(p, h) == GoOn(p, h, run[p].lost)
Lose(p, f) == GoOn(p, run[p].held, run[p].lost \union {f})

Fail(p) ==
    /\ run' = [run EXCEPT ![p].todo = << >>, ![p].held = Absent, ![p].flags = NoFlags]
    /\ result' = [result EXCEPT ![p] = "failed"]
    /\ UNCHANGED <<raced, bounds>>

\* sign_output does not look at what write_checksum returns.
Unread(p, f) == f \in {Sum("m.hpp"), Sum("libm.a"), Sum("app.so")} /\ run[p].flags.key # NoKey

\* A file that does not open stays as it was; a run that sees that ends.
Open(p, f) ==
    /\ At(p, "open", f)
    /\ \/ Put(f, Empty) /\ Done(p, run[p].held)
       \/ UNCHANGED fs /\ IF Unread(p, f) THEN Lose(p, f) ELSE Fail(p)
    /\ UNCHANGED <<imported, signed>>

\* What f is written with when h is held.
ContentOf(p, f, h) ==
    CASE f = "m.hpp" -> [api |-> h.api]
      [] f = "m.impl" -> h
      [] f \in {Sum("m.hpp"), Sum("libm.a"), Sum("app.so")} -> Digest(h)
      [] f \in {Sig("m.hpp"), Sig("libm.a"), Sig("app.so")} -> <<run[p].flags.key, h>>
      [] f = "app.so.rt" -> h
      [] f = "app.so.rt.sig" -> <<run[p].flags.rtkey, h>>

\* A write that fails in the stream's buffer is seen, one that fails in the last flush is not.
WriteFails(p, f) == Lose(p, f) \/ (~Unread(p, f) /\ Fail(p))

\* A stream that did not open writes nothing.
WriteOut(p, f) ==
    /\ At(p, "put", f)
    /\ \/ LET c == ContentOf(p, f, run[p].held)
          IN  /\ f \notin run[p].lost
              /\ Put(f, c)
              /\ signed' = IF f \in {Sig("m.hpp"), Sig("libm.a"), Sig("app.so"), "app.so.rt.sig"}
                           THEN signed \union {c} ELSE signed
              /\ Done(p, run[p].held)
       \/ WriteFails(p, f) /\ UNCHANGED <<fs, signed>>
    /\ UNCHANGED imported

\* The source of the library, or an artifact read back for its sidecar.
Read(p, f) ==
    /\ At(p, "read", f) \/ At(p, "source", f)
    /\ Done(p, fs[f])
    /\ UNCHANGED <<fs, imported, signed>>

\* The build fingerprint baked into this purrc.
Fingerprint(p) ==
    /\ At(p, "manifest", "app.so.rt")
    /\ Done(p, [toolchain |-> run[p].flags.toolchain])
    /\ UNCHANGED <<fs, imported, signed>>

\* The compiler and ar build the archive from m.impl and m.hpp, or fail; of a lost m.impl
\* they make an archive without a definition.
MakeArchive(p) ==
    /\ At(p, "archive", "libm.a")
    /\ \/ Put("libm.a", fs["m.impl"]) /\ Done(p, run[p].held)
       \/ UNCHANGED fs /\ Fail(p)
    /\ UNCHANGED <<imported, signed>>

\* A file that cannot be removed stays, and nobody is told.
RemoveImpl(p) ==
    /\ At(p, "remove", "m.impl")
    /\ Put("m.impl", Absent) \/ UNCHANGED fs
    /\ Done(p, run[p].held)
    /\ UNCHANGED <<imported, signed>>

(***************************************************************************)
(* Importing m: resolve_module finds the header (none: the build ends) and *)
(* calls it a signed library when the .sha512 is there; verify_artifact    *)
(* compares the checksum, and with a trust list requires the signature.    *)
(***************************************************************************)
Resolve(p) ==
    /\ At(p, "resolve", "m.hpp")
    /\ IF Exists("m.hpp")
       THEN /\ imported' = [header |-> fs["m.hpp"], archive |-> fs["libm.a"],
                            signedLib |-> Exists(Sum("m.hpp"))]
            /\ Done(p, run[p].held)
       ELSE UNCHANGED imported /\ Fail(p)
    /\ UNCHANGED <<fs, signed>>

SumFits(f) == HasText(Sum(f)) /\ fs[Sum(f)] = Digest(fs[f])
SigFits(f, keys) == HasText(Sig(f)) /\ fs[Sig(f)] \in keys \X {fs[f]}
Accepted(f, trusted) == SumFits(f) /\ (trusted # {} => SigFits(f, trusted))

Verify(p, f, trusted) ==
    /\ At(p, "verify", f)
    /\ IF \/ ~imported.signedLib
          \/ f = "libm.a" /\ imported.archive = Absent
          \/ Accepted(f, trusted)
       THEN Done(p, run[p].held) ELSE Fail(p)
    /\ UNCHANGED <<fs, imported, signed>>

\* The backend compiles with the header and links the archive that are there NOW.
\* A header that does not fit the program's use of it, or a missing archive, fails.
Backend(p) ==
    /\ At(p, "backend", "app.so")
    /\ \/ LET used == [imported EXCEPT !.header = fs["m.hpp"], !.archive = fs["libm.a"]]
              lib == IF HasText("libm.a") THEN fs["libm.a"] ELSE Absent
          IN  /\ HasText("m.hpp")
              /\ imported' = used
              /\ Put("app.so", [lib |-> lib, header |-> fs["m.hpp"],
                                by |-> [toolchain |-> run[p].flags.toolchain]])
              /\ Done(p, run[p].held)
       \/ UNCHANGED <<fs, imported>> /\ Fail(p)
    /\ UNCHANGED signed

KillRun(p) ==
    /\ run[p].todo # << >>
    /\ Fail(p)
    /\ UNCHANGED <<fs, imported, signed>>

\* The author of m edits its interface or only a function's body.
EditSource(part) ==
    /\ bounds.edit > 0
    /\ bounds' = [bounds EXCEPT !.edit = @ - 1]
    /\ Put("m.purr", [fs["m.purr"] EXCEPT ![part] = @ + 1])
    /\ UNCHANGED <<run, result, imported, signed, raced>>
=============================================================================
