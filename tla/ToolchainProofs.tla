--------------------------- MODULE ToolchainProofs ---------------------------
(* Theorems about Toolchain for any keys, flags, extensions and bounds: a  *)
(* module that is loaded is the one that was checked, the build file       *)
(* drifts from the manifest only for a cause, and LibraryIsSound and       *)
(* NothingGoesStale hold of the files in every state.                      *)
EXTENDS Toolchain, SequenceTheorems, TLAPS

(* The files of biome and the files of purrc are apart.                    *)
BiomeFiles == {"cheatah.toml", "CMakeLists.txt", "CPM.cmake"}
PurrcFiles == Name \ BiomeFiles
Steps == {"source", "read", "open", "put", "archive", "remove", "resolve", "verify", "backend",
          "manifest"} \X PurrcFiles

FilesTyped == fs = [f \in Name |-> fs[f]]

RunsTyped ==
  /\ DOMAIN run = Process
  /\ \A p \in Process : DOMAIN run[p] = {"todo", "held", "flags", "lost"} /\ run[p].todo \in Seq(Steps)

(* What stands in a signature's place was signed by purrc, while purrc and *)
(* the editor run as they like.                                            *)
Signatures == {Sig("m.hpp"), Sig("libm.a"), Sig(App), RtSig}
SignaturesAreSigned == \A f \in Signatures : HasText(f) => fs[f] \in signed

(* How far the host has come, and what it may rely on there.               *)
HostTyped ==
  /\ host = [pc |-> host.pc, strict |-> host.strict, has |-> host.has, fd |-> host.fd,
             bytes |-> host.bytes, rt |-> host.rt, loaded |-> host.loaded, summed |-> host.summed]
  /\ host.pc \in {"rest", "probe", "open", "sum", "sig", "rt", "rtsig", "load", "refused", "loaded"}
  /\ host.strict \in BOOLEAN /\ host.fd \in BOOLEAN

Checked ==
  /\ host.pc \in {"probe", "open", "sum"} => host.summed = Absent
  /\ host.pc \in {"sum", "sig", "rt", "rtsig"} => host.fd
  /\ host.pc = "load" /\ (host.strict \/ host.summed # Absent) => host.fd
  /\ host.pc \in {"open", "sum", "sig", "rt", "rtsig", "load"} /\ host.summed # Absent =>
       host.summed = Digest(host.bytes)
  /\ host.pc \in {"sum", "sig", "rt", "rtsig", "load"} /\ host.strict => FdBound
  /\ host.pc \in {"rt", "rtsig", "load"} /\ host.strict => signed \intersect (Trusted \X {host.bytes}) # {}
  /\ host.pc = "rtsig" /\ host.strict => Runs(host.rt)
  /\ host.pc = "load" /\ host.strict /\ TrustedRt # {} =>
       signed \intersect (TrustedRt \X {host.rt}) # {} /\ Runs(host.rt)

(* Loading by path instead of by the descriptor that was read is the one   *)
(* way past the checksum, and strict does not take it.                     *)
LoadedAsChecked ==
  host.pc = "loaded" =>
    /\ FdBound /\ host.summed # Absent => host.summed = Digest(host.loaded)
    /\ host.strict => /\ signed \intersect (Trusted \X {host.loaded}) # {}
                      /\ TrustedRt # {} =>
                            signed \intersect (TrustedRt \X {host.rt}) # {} /\ Runs(host.rt)

(* Where biome is, and what manifest and build file owe to each other.     *)
Generating == {<<"CPM.cmake", "CMakeLists.txt">>, <<"CMakeLists.txt">>}
Pending == {<< >>, Scaffold, Update} \union Generating

BiomeTyped ==
  /\ biome = [cmd |-> biome.cmd, held |-> biome.held, todo |-> biome.todo, opened |-> biome.opened]
  /\ biome.cmd \in {"none", "init", "save", "configure", "build"}
  /\ biome.todo \in Pending /\ biome.opened \in BOOLEAN
  /\ biome.todo # << >> => biome.held \in SUBSET Members
  /\ biome.cmd \in {"none", "build"} => biome.todo = << >>
  /\ biome.opened => biome.todo # << >>

InStep ==
  ~excused =>
    /\ biome.todo = << >> => fs["CMakeLists.txt"] = Manifest
    /\ biome.todo \in Generating => biome.held = Manifest

Typed == FilesTyped /\ RunsTyped /\ HostTyped /\ BiomeTyped
IInv == Typed /\ SignaturesAreSigned /\ Checked /\ LoadedAsChecked /\ InStep

-----------------------------------------------------------------------------
(* A write changes the file that is written and no other.                  *)
LEMMA PutAt ==
  ASSUME FilesTyped, NEW f \in Name, NEW c, Put(f, c)
  PROVE  FilesTyped' /\ fs'[f] = c /\ \A g \in Name : g # f => fs'[g] = fs[g]
<1>1. fs' = [fs EXCEPT ![f] = c]
  BY DEF Put
<1>2. \A g \in Name : fs'[g] = IF g = f THEN c ELSE fs[g]
  BY <1>1 DEF FilesTyped
<1>3. FilesTyped'
  <2>1. fs' = [g \in Name |-> IF g = f THEN c ELSE fs[g]]
    BY <1>1 DEF FilesTyped
  <2>2. QED
    BY <1>2, <2>1 DEF FilesTyped
<1>4. QED
  BY <1>2, <1>3

LEMMA Places ==
  /\ Signatures \subseteq PurrcFiles /\ App \in PurrcFiles /\ Rt \in PurrcFiles
  /\ \A f \in {"m.hpp", "libm.a", "app.so"} : {f, Sum(f), Sig(f)} \subseteq PurrcFiles
  /\ {"m.purr", "m.impl", "app.so.rt", "app.so.rt.sig"} \subseteq PurrcFiles
  /\ Sig(App) \in Signatures /\ RtSig \in Signatures
  BY DEF Signatures, PurrcFiles, Name, BiomeFiles, Sum, Sig, App, Rt, RtSig

(* The scripts touch purrc's files only.                                   *)
LEMMA PiecesTyped ==
  /\ \A k \in {"source", "read", "open", "put", "archive", "remove", "resolve", "verify", "backend",
               "manifest"}, f \in PurrcFiles : <<k, f>> \in Steps /\ << <<k, f>> >> \in Seq(Steps)
  /\ \A f \in PurrcFiles : Write(f) \in Seq(Steps)
  /\ \A f \in {"m.hpp", "libm.a", "app.so"} : \A k : Seal(f, k) \in Seq(Steps)
<1>1. ASSUME NEW k \in {"source", "read", "open", "put", "archive", "remove", "resolve", "verify",
                        "backend", "manifest"}, NEW f \in PurrcFiles
      PROVE  <<k, f>> \in Steps /\ << <<k, f>> >> \in Seq(Steps)
  <2>1. <<k, f>> \in Steps
    BY DEF Steps
  <2>2. QED
    BY <2>1
<1>2. ASSUME NEW f \in PurrcFiles PROVE Write(f) \in Seq(Steps)
  <2>1. <<"open", f>> \in Steps /\ <<"put", f>> \in Steps
    BY <1>1
  <2>2. QED
    BY <2>1 DEF Write
<1>3. ASSUME NEW f \in PurrcFiles, NEW g \in PurrcFiles PROVE Sidecar(f, g) \in Seq(Steps)
  <2>1. << <<"read", f>> >> \in Seq(Steps) /\ Write(g) \in Seq(Steps)
    BY <1>1, <1>2
  <2>2. QED
    BY <2>1, ConcatProperties DEF Sidecar
<1>4. ASSUME NEW f \in {"m.hpp", "libm.a", "app.so"}, NEW k PROVE Seal(f, k) \in Seq(Steps)
  <2>1. f \in PurrcFiles /\ Sum(f) \in PurrcFiles /\ Sig(f) \in PurrcFiles
    BY Places
  <2>2. Sidecar(f, Sum(f)) \in Seq(Steps) /\ Sidecar(f, Sig(f)) \in Seq(Steps)
    BY <1>3, <2>1
  <2>3. (IF k = NoKey THEN << >> ELSE Sidecar(f, Sig(f))) \in Seq(Steps)
    BY <2>2
  <2>4. QED
    BY <2>2, <2>3, ConcatProperties DEF Seal
<1>5. QED
  BY <1>1, <1>2, <1>4

LEMMA LibScriptTyped ==
  ASSUME NEW fl
  PROVE  LibScript(fl) \in Seq(Steps)
<1>1. /\ << <<"source", "m.purr">> >> \in Seq(Steps) /\ Write("m.hpp") \in Seq(Steps)
      /\ Write("m.impl") \in Seq(Steps)
  BY PiecesTyped, Places
<1>2. << <<"archive", "libm.a">>, <<"remove", "m.impl">> >> \in Seq(Steps)
  <2>1. <<"archive", "libm.a">> \in Steps /\ <<"remove", "m.impl">> \in Steps
    BY PiecesTyped, Places
  <2>2. QED
    BY <2>1
<1>3. Seal("libm.a", fl.key) \in Seq(Steps) /\ Seal("m.hpp", fl.key) \in Seq(Steps)
  BY PiecesTyped
<1>4. << <<"source", "m.purr">> >> \o Write("m.hpp") \o Write("m.impl") \in Seq(Steps)
  BY <1>1, ConcatProperties
<1>5. << <<"source", "m.purr">> >> \o Write("m.hpp") \o Write("m.impl")
        \o << <<"archive", "libm.a">>, <<"remove", "m.impl">> >> \in Seq(Steps)
  BY <1>2, <1>4, ConcatProperties
<1>6. QED
  BY <1>3, <1>5, ConcatProperties DEF LibScript

LEMMA ProgScriptTyped ==
  ASSUME NEW fl
  PROVE  ProgScript(fl) \in Seq(Steps)
<1>1. << <<"resolve", "m.hpp">>, <<"verify", "m.hpp">>, <<"verify", "libm.a">>,
         <<"backend", "app.so">> >> \in Seq(Steps)
  <2>1. /\ <<"resolve", "m.hpp">> \in Steps /\ <<"verify", "m.hpp">> \in Steps
        /\ <<"verify", "libm.a">> \in Steps /\ <<"backend", "app.so">> \in Steps
    BY PiecesTyped, Places
  <2>2. QED
    BY <2>1
<1>2. (IF fl.key # NoKey \/ fl.sum THEN Seal("app.so", fl.key) ELSE << >>) \in Seq(Steps)
  <2>1. Seal("app.so", fl.key) \in Seq(Steps)
    BY PiecesTyped
  <2>2. QED
    BY <2>1
<1>3. (IF fl.rtkey # NoKey \/ fl.rt
       THEN << <<"manifest", "app.so.rt">> >> \o Write("app.so.rt") ELSE << >>) \in Seq(Steps)
  <2>1. << <<"manifest", "app.so.rt">> >> \in Seq(Steps) /\ Write("app.so.rt") \in Seq(Steps)
    BY PiecesTyped, Places
  <2>2. << <<"manifest", "app.so.rt">> >> \o Write("app.so.rt") \in Seq(Steps)
    BY <2>1, ConcatProperties
  <2>3. QED
    BY <2>2
<1>4. (IF fl.rtkey # NoKey THEN Write("app.so.rt.sig") ELSE << >>) \in Seq(Steps)
  <2>1. Write("app.so.rt.sig") \in Seq(Steps)
    BY PiecesTyped, Places
  <2>2. QED
    BY <2>1
<1>5. << <<"resolve", "m.hpp">>, <<"verify", "m.hpp">>, <<"verify", "libm.a">>,
         <<"backend", "app.so">> >>
      \o (IF fl.key # NoKey \/ fl.sum THEN Seal("app.so", fl.key) ELSE << >>) \in Seq(Steps)
  BY <1>1, <1>2, ConcatProperties
<1>6. QED
  BY <1>3, <1>4, <1>5, ConcatProperties DEF ProgScript

-----------------------------------------------------------------------------
(* What a step of purrc does to the rest: it writes at most one of its own *)
(* files, and a signature that appears is one it made.                     *)
Builds ==
  /\ RunsTyped' /\ FilesTyped' /\ signed \subseteq signed' /\ SignaturesAreSigned'
  /\ fs'["cheatah.toml"] = fs["cheatah.toml"] /\ fs'["CMakeLists.txt"] = fs["CMakeLists.txt"]

LEMMA AtIs ==
  ASSUME RunsTyped, NEW p \in Process, NEW k, NEW f, At(p, k, f)
  PROVE  f \in PurrcFiles /\ Tail(run[p].todo) \in Seq(Steps)
<1>1. run[p].todo \in Seq(Steps) /\ run[p].todo # << >> /\ Head(run[p].todo) = <<k, f>>
  BY DEF RunsTyped, At
<1> DEFINE t == run[p].todo
<1>2. t \in Seq(Steps) /\ t # << >>
  BY <1>1
<1> HIDE DEF t
<1>3. Head(t) \in Steps /\ Tail(t) \in Seq(Steps)
  BY <1>2
<1>4. <<k, f>> \in Steps
  BY <1>1, <1>3 DEF t
<1>5. QED
  BY <1>3, <1>4 DEF Steps, t

LEMMA DoneOrEnd ==
  ASSUME RunsTyped, NEW p \in Process,
         \/ (\E h, l : GoOn(p, h, l)) /\ Tail(run[p].todo) \in Seq(Steps)
         \/ Fail(p)
  PROVE  RunsTyped'
<1> DEFINE D == {"todo", "held", "flags", "lost"}
<1>1. DOMAIN run = Process /\ DOMAIN run[p] = D
  BY DEF RunsTyped
<1>2. DOMAIN run' = Process /\ run'[p].todo \in Seq(Steps) /\ DOMAIN run'[p] = D
      /\ \A q \in Process : q # p => run'[q] = run[q]
  <2>1. CASE (\E h, l : GoOn(p, h, l)) /\ Tail(run[p].todo) \in Seq(Steps)
    <3>1. PICK h, l : run' = [run EXCEPT ![p].todo = Tail(@), ![p].held = h, ![p].lost = l]
      BY <2>1 DEF GoOn
    <3>2. QED
      BY <1>1, <2>1, <3>1
  <2>2. CASE Fail(p)
    <3>1. run' = [run EXCEPT ![p].todo = << >>, ![p].held = Absent, ![p].flags = NoFlags]
      BY <2>2 DEF Fail
    <3>2. << >> \in Seq(Steps)
      OBVIOUS
    <3>3. QED
      BY <1>1, <3>1, <3>2
  <2>3. QED
    BY <2>1, <2>2
<1>3. QED
  BY <1>2 DEF RunsTyped

LEMMA StartTyped ==
  ASSUME RunsTyped, NEW p \in Process, NEW fl, Start(p, fl)
  PROVE  RunsTyped'
<1>1. Script(p, fl) \in Seq(Steps)
  BY LibScriptTyped, ProgScriptTyped DEF Script
<1>2. DOMAIN run = Process /\ run' = [run EXCEPT ![p] = [todo |-> Script(p, fl), held |-> Absent, flags |-> fl, lost |-> {}]]
  BY DEF RunsTyped, Start
<1> DEFINE r == [todo |-> Script(p, fl), held |-> Absent, flags |-> fl, lost |-> {}]
<1>3. DOMAIN r = {"todo", "held", "flags", "lost"} /\ r.todo \in Seq(Steps)
  BY <1>1
<1> HIDE DEF r
<1>4. DOMAIN run' = Process /\ run'[p] = r /\ \A q \in Process : q # p => run'[q] = run[q]
  BY <1>2 DEF r
<1>5. QED
  BY <1>3, <1>4 DEF RunsTyped

(* A write of purrc to one of its files: what it puts in a signature's     *)
(* place it signs.                                                         *)
LEMMA PutBuilds ==
  ASSUME FilesTyped, SignaturesAreSigned, RunsTyped', signed \subseteq signed',
         NEW f \in PurrcFiles, NEW c, Put(f, c),
         f \in Signatures => c \in {Absent, Empty} \cup signed'
  PROVE  Builds
<1>1. FilesTyped' /\ fs'[f] = c /\ \A g \in Name : g # f => fs'[g] = fs[g]
  <2>1. f \in Name
    BY DEF PurrcFiles
  <2>2. QED
    BY <2>1, PutAt
<1>2. fs'["cheatah.toml"] = fs["cheatah.toml"] /\ fs'["CMakeLists.txt"] = fs["CMakeLists.txt"]
  BY <1>1 DEF PurrcFiles, BiomeFiles, Name
<1>3. SignaturesAreSigned'
  <2> SUFFICES ASSUME NEW g \in Signatures, fs'[g] \notin {Absent, Empty} PROVE fs'[g] \in signed'
    BY DEF SignaturesAreSigned, HasText
  <2>1. g \in Name
    BY Places DEF PurrcFiles
  <2>2. CASE g = f
    BY <1>1, <2>2
  <2>3. CASE g # f
    <3>1. fs'[g] = fs[g]
      BY <1>1, <2>1, <2>3
    <3>2. fs[g] \in signed
      BY <3>1 DEF SignaturesAreSigned, HasText
    <3>3. QED
      BY <3>1, <3>2
  <2>4. QED
    BY <2>2, <2>3
<1>4. QED
  BY <1>1, <1>2, <1>3 DEF Builds

LEMMA NoPutBuilds ==
  ASSUME FilesTyped, SignaturesAreSigned, RunsTyped', UNCHANGED <<fs, signed>>
  PROVE  Builds
  BY DEF Builds, FilesTyped, SignaturesAreSigned, HasText

LEMMA PurrcBuilds ==
  ASSUME FilesTyped, SignaturesAreSigned, RunsTyped, NEW p \in Process, PurrcStep(p)
  PROVE  Builds
<1>1. ASSUME NEW f \in Name, Open(p, f) PROVE Builds
  <2>1. f \in PurrcFiles /\ Tail(run[p].todo) \in Seq(Steps) /\ signed' = signed
    BY <1>1, AtIs DEF Open
  <2>2. CASE Put(f, Empty) /\ Done(p, run[p].held)
    <3>1. RunsTyped'
      BY <2>1, <2>2, DoneOrEnd DEF Done
    <3>2. QED
      BY <2>1, <2>2, <3>1, PutBuilds
  <2>3. CASE UNCHANGED fs /\ IF Unread(p, f) THEN Lose(p, f) ELSE Fail(p)
    <3>1. RunsTyped'
      BY <2>1, <2>3, DoneOrEnd DEF Lose
    <3>2. QED
      BY <2>1, <2>3, <3>1, NoPutBuilds
  <2>4. QED
    BY <1>1, <2>2, <2>3 DEF Open
<1>2. ASSUME NEW f \in Name, WriteOut(p, f) PROVE Builds
  <2>1. f \in PurrcFiles /\ Tail(run[p].todo) \in Seq(Steps)
    BY <1>2, AtIs DEF WriteOut
  <2> DEFINE c == ContentOf(p, f, run[p].held)
             seals == IF f \in {Sig("m.hpp"), Sig("libm.a"), Sig("app.so"), "app.so.rt.sig"}
                      THEN signed \union {c} ELSE signed
  <2>2. CASE Put(f, c) /\ signed' = seals /\ Done(p, run[p].held)
    <3>1. RunsTyped'
      BY <2>1, <2>2, DoneOrEnd DEF Done
    <3> HIDE DEF c
    <3>2. signed \subseteq signed' /\ (f \in Signatures => c \in signed')
      BY <2>2 DEF Signatures, App, RtSig
    <3>3. QED
      BY <2>1, <2>2, <3>1, <3>2, PutBuilds
  <2>3. CASE WriteFails(p, f) /\ UNCHANGED <<fs, signed>>
    <3>1. RunsTyped'
      BY <2>1, <2>3, DoneOrEnd DEF WriteFails, Lose
    <3>2. QED
      BY <2>3, <3>1, NoPutBuilds
  <2>4. QED
    BY <1>2, <2>2, <2>3 DEF WriteOut
<1>3. ASSUME NEW f \in Name, Read(p, f) PROVE Builds
  <2>1. RunsTyped' /\ UNCHANGED <<fs, signed>>
    BY <1>3, AtIs, DoneOrEnd DEF Read, Done
  <2>2. QED
    BY <2>1, NoPutBuilds
<1>4. ASSUME NEW f \in Name, Verify(p, f, Trusted) PROVE Builds
  <2>1. RunsTyped' /\ UNCHANGED <<fs, signed>>
    <3>1. Tail(run[p].todo) \in Seq(Steps) /\ UNCHANGED <<fs, signed>>
      BY <1>4, AtIs DEF Verify
    <3>2. Done(p, run[p].held) \/ Fail(p)
      BY <1>4 DEF Verify
    <3>3. QED
      BY <3>1, <3>2, DoneOrEnd DEF Done
  <2>2. QED
    BY <2>1, NoPutBuilds
<1>5. ASSUME Fingerprint(p) PROVE Builds
  <2>1. RunsTyped' /\ UNCHANGED <<fs, signed>>
    BY <1>5, AtIs, DoneOrEnd DEF Fingerprint, Done
  <2>2. QED
    BY <2>1, NoPutBuilds
<1>6. ASSUME MakeArchive(p) PROVE Builds
  <2>1. Tail(run[p].todo) \in Seq(Steps) /\ "libm.a" \in PurrcFiles /\ "libm.a" \notin Signatures
    BY <1>6, AtIs, Places DEF MakeArchive, Signatures, Sig, App, RtSig
  <2>2. signed' = signed
    BY <1>6 DEF MakeArchive
  <2>3. CASE Put("libm.a", fs["m.impl"]) /\ Done(p, run[p].held)
    <3>1. RunsTyped'
      BY <2>1, <2>3, DoneOrEnd DEF Done
    <3>2. QED
      BY <2>1, <2>2, <2>3, <3>1, PutBuilds
  <2>4. CASE UNCHANGED fs /\ Fail(p)
    <3>1. RunsTyped'
      BY <2>4, DoneOrEnd
    <3>2. QED
      BY <2>2, <2>4, <3>1, NoPutBuilds
  <2>5. QED
    BY <1>6, <2>3, <2>4 DEF MakeArchive
<1>7. ASSUME RemoveImpl(p) PROVE Builds
  <2>1. /\ RunsTyped' /\ signed' = signed /\ "m.impl" \in PurrcFiles
        /\ Put("m.impl", Absent) \/ UNCHANGED fs
    BY <1>7, AtIs, DoneOrEnd DEF RemoveImpl, Done
  <2>2. QED
    BY <2>1, PutBuilds, NoPutBuilds
<1>8. ASSUME Resolve(p) PROVE Builds
  <2>1. Tail(run[p].todo) \in Seq(Steps) /\ UNCHANGED <<fs, signed>>
    BY <1>8, AtIs DEF Resolve
  <2>2. Done(p, run[p].held) \/ Fail(p)
    BY <1>8 DEF Resolve
  <2>3. RunsTyped'
    BY <2>1, <2>2, DoneOrEnd DEF Done
  <2>4. QED
    BY <2>1, <2>3, NoPutBuilds
<1>9. ASSUME Backend(p) PROVE Builds
  <2>1. Tail(run[p].todo) \in Seq(Steps) /\ "app.so" \in PurrcFiles /\ "app.so" \notin Signatures
        /\ signed' = signed
    BY <1>9, AtIs, Places DEF Backend, Signatures, Sig, App, RtSig
  <2>2. CASE (\E c : Put("app.so", c)) /\ Done(p, run[p].held)
    <3>1. RunsTyped'
      BY <2>1, <2>2, DoneOrEnd DEF Done
    <3>2. QED
      BY <2>1, <2>2, <3>1, PutBuilds
  <2>3. CASE UNCHANGED fs /\ Fail(p)
    <3>1. RunsTyped'
      BY <2>3, DoneOrEnd
    <3>2. QED
      BY <2>1, <2>3, <3>1, NoPutBuilds
  <2>4. ((\E c : Put("app.so", c)) /\ Done(p, run[p].held)) \/ (UNCHANGED fs /\ Fail(p))
    BY <1>9 DEF Backend
  <2>5. QED
    BY <2>2, <2>3, <2>4
<1>10. ASSUME KillRun(p) PROVE Builds
  <2>1. RunsTyped' /\ UNCHANGED <<fs, signed>>
    BY <1>10, DoneOrEnd DEF KillRun
  <2>2. QED
    BY <2>1, NoPutBuilds
<1>11. QED
  BY <1>1, <1>2, <1>3, <1>4, <1>5, <1>6, <1>7, <1>8, <1>9, <1>10 DEF PurrcStep, FileStep

LEMMA BuildStepBuilds ==
  ASSUME FilesTyped, SignaturesAreSigned, RunsTyped, LibStep \/ ProgStep
  PROVE  Builds /\ UNCHANGED <<biomeVars, hostVars>>
<1>1. ASSUME NEW p \in Process, NEW fl, Start(p, fl) PROVE Builds
  <2>1. RunsTyped' /\ UNCHANGED <<fs, signed>>
    BY <1>1, StartTyped DEF Start
  <2>2. QED
    BY <2>1, NoPutBuilds
<1>2. ASSUME NEW part \in {"api", "body"}, EditSource(part) PROVE Builds
  <2>1. /\ UNCHANGED <<run, signed>> /\ "m.purr" \in PurrcFiles /\ "m.purr" \notin Signatures
        /\ \E c : Put("m.purr", c)
    BY <1>2, Places DEF EditSource, Signatures, Sig, App, RtSig
  <2>2. RunsTyped'
    BY <2>1 DEF RunsTyped
  <2>3. QED
    BY <2>1, <2>2, PutBuilds
<1>3. "lib" \in Process /\ "prog" \in Process
  BY DEF Process
<1>4. CASE LibStep
  BY <1>1, <1>2, <1>3, <1>4, PurrcBuilds DEF LibStep
<1>5. CASE ProgStep
  BY <1>1, <1>3, <1>5, PurrcBuilds DEF ProgStep
<1>6. QED
  BY <1>4, <1>5

-----------------------------------------------------------------------------
(* biome writes no file of purrc.                                          *)
LEMMA BiomePut ==
  ASSUME FilesTyped, SignaturesAreSigned, signed' = signed, NEW f \in BiomeFiles, NEW c, Put(f, c)
  PROVE  /\ FilesTyped' /\ SignaturesAreSigned' /\ fs'[f] = c
         /\ \A g \in BiomeFiles : g # f => fs'[g] = fs[g]
<1>1. f \in Name /\ BiomeFiles \subseteq Name
  BY DEF BiomeFiles, Name
<1>2. FilesTyped' /\ fs'[f] = c /\ \A g \in Name : g # f => fs'[g] = fs[g]
  BY <1>1, PutAt
<1>3. \A g \in Signatures : g \in Name /\ g # f
  BY Places DEF PurrcFiles
<1>4. SignaturesAreSigned'
  BY <1>2, <1>3 DEF SignaturesAreSigned, HasText
<1>5. QED
  BY <1>1, <1>2, <1>4

LEMMA BiomeNames ==
  "cheatah.toml" \in BiomeFiles /\ "CMakeLists.txt" \in BiomeFiles /\ "CPM.cmake" \in BiomeFiles
  BY DEF BiomeFiles

(* What a command has still to write: the manifest first, the build file   *)
(* last.                                                                   *)
LEMMA Pendings ==
  /\ << >> \notin Generating /\ Scaffold \notin Generating /\ Update \notin Generating
  /\ Scaffold # << >> /\ Update # << >>
  /\ \A t \in Pending : t # << >> =>
       /\ Tail(t) \in Pending /\ Head(t) \in BiomeFiles
       /\ Len(t) = 1 => Tail(t) = << >>
       /\ Head(t) = "cheatah.toml" => Tail(t) \in Generating
       /\ Head(t) = "CPM.cmake" => t \in Generating /\ Tail(t) \in Generating
       /\ Head(t) = "CMakeLists.txt" => t \in Generating /\ Tail(t) = << >>
<1> DEFINE S == <<"cheatah.toml", "CPM.cmake", "CMakeLists.txt">>
           U == <<"cheatah.toml", "CMakeLists.txt">>
           G == <<"CPM.cmake", "CMakeLists.txt">>
           L == <<"CMakeLists.txt">>
<1>1. Head(S) = "cheatah.toml" /\ Tail(S) = G /\ Len(S) # 1
      /\ Head(S) # "CPM.cmake" /\ Head(S) # "CMakeLists.txt"
  OBVIOUS
<1>2. Head(U) = "cheatah.toml" /\ Tail(U) = L /\ Len(U) # 1
      /\ Head(U) # "CPM.cmake" /\ Head(U) # "CMakeLists.txt"
  OBVIOUS
<1>3. Head(G) = "CPM.cmake" /\ Tail(G) = L /\ Len(G) # 1
      /\ Head(G) # "cheatah.toml" /\ Head(G) # "CMakeLists.txt"
  OBVIOUS
<1>4. Head(L) = "CMakeLists.txt" /\ Tail(L) = << >> /\ Len(L) = 1
  OBVIOUS
<1>5. Scaffold = S /\ Update = U /\ Generating = {G, L} /\ Pending = {<< >>, S, U, G, L}
  BY DEF Scaffold, Update, Generating, Pending
<1>7. G # << >> /\ L # << >> /\ S # G /\ S # L /\ U # G /\ U # L /\ S # << >> /\ U # << >>
  OBVIOUS
<1> HIDE DEF S, U, G, L
<1>8. /\ << >> \notin Generating /\ Scaffold \notin Generating /\ Update \notin Generating
      /\ Scaffold # << >> /\ Update # << >>
  BY <1>5, <1>7
<1>9. ASSUME NEW t \in Pending, t # << >> PROVE t = S \/ t = U \/ t = G \/ t = L
  BY <1>5, <1>9
<1>10. Pending = {<< >>, S, U, G, L} /\ G \in Generating /\ L \in Generating
  BY <1>5
<1>11. ASSUME NEW t \in Pending, t # << >>
       PROVE  /\ Tail(t) \in Pending /\ Head(t) \in BiomeFiles
              /\ Len(t) = 1 => Tail(t) = << >>
              /\ Head(t) = "cheatah.toml" => Tail(t) \in Generating
              /\ Head(t) = "CPM.cmake" => t \in Generating /\ Tail(t) \in Generating
              /\ Head(t) = "CMakeLists.txt" => t \in Generating /\ Tail(t) = << >>
  <2>1. CASE t = S
    BY <1>1, <1>10, <2>1, BiomeNames
  <2>2. CASE t = U
    BY <1>2, <1>10, <2>2, BiomeNames
  <2>3. CASE t = G
    BY <1>3, <1>10, <2>3, BiomeNames
  <2>4. CASE t = L
    BY <1>4, <1>10, <2>4, BiomeNames
  <2>5. QED
    BY <1>9, <1>11, <2>1, <2>2, <2>3, <2>4
<1>12. QED
  BY <1>8, <1>11

(* A command that begins finds biome at rest.                              *)
LEMMA Beginning ==
  ASSUME NEW c \in {"init", "save", "configure", "build"}, NEW m, NEW t \in Pending, Begin(c, m, t),
         t # << >> => c # "build" /\ m \in SUBSET Members
  PROVE  /\ biome.todo = << >> /\ BiomeTyped' /\ biome'.cmd = c /\ biome'.held = m /\ biome'.todo = t
         /\ fs' = fs
<1>1. biome = Idle /\ biome' = [cmd |-> c, held |-> m, todo |-> t, opened |-> FALSE] /\ fs' = fs
  BY DEF Begin, Invoked
<1>2. biome.todo = << >>
  BY <1>1 DEF Idle
<1>3. biome'.cmd = c /\ biome'.held = m /\ biome'.todo = t /\ biome'.opened = FALSE
  BY <1>1
<1>4. QED
  BY <1>1, <1>2, <1>3 DEF BiomeTyped

LEMMA Resting ==
  ASSUME biome' = Idle
  PROVE  BiomeTyped' /\ biome'.todo = << >> /\ biome'.cmd = "none" /\ biome'.opened = FALSE
<1>1. biome' = [cmd |-> "none", held |-> {}, todo |-> << >>, opened |-> FALSE]
  BY DEF Idle
<1>2. biome'.cmd = "none" /\ biome'.todo = << >> /\ biome'.opened = FALSE /\ biome'.held = {}
  BY <1>1
<1>3. QED
  BY <1>1, <1>2 DEF BiomeTyped, Pending

LEMMA Continuing ==
  ASSUME BiomeTyped, biome.todo # << >>, NextFile
  PROVE  /\ BiomeTyped' /\ biome'.todo = Tail(biome.todo) /\ biome'.opened = FALSE
         /\ biome'.todo # << >> => biome'.held = biome.held /\ biome'.cmd = biome.cmd
<1>1. Tail(biome.todo) \in Pending /\ (Len(biome.todo) = 1 => Tail(biome.todo) = << >>)
  BY Pendings DEF BiomeTyped
<1>2. CASE Len(biome.todo) = 1 /\ biome.cmd # "configure"
  BY <1>1, <1>2, Resting DEF NextFile
<1>3. CASE ~(Len(biome.todo) = 1 /\ biome.cmd # "configure")
  <2>1. biome' = [biome EXCEPT !.todo = Tail(biome.todo), !.opened = FALSE]
    BY <1>3 DEF NextFile
  <2>2. biome' = [cmd |-> biome.cmd, held |-> biome.held, todo |-> Tail(biome.todo), opened |-> FALSE]
    BY <2>1 DEF BiomeTyped
  <2>3. biome'.cmd = biome.cmd /\ biome'.held = biome.held /\ biome'.todo = Tail(biome.todo)
        /\ biome'.opened = FALSE
    BY <2>2
  <2>4. QED
    BY <1>1, <2>2, <2>3 DEF BiomeTyped
<1>4. QED
  BY <1>2, <1>3

LEMMA TextIsRead ==
  ASSUME NEW m \in SUBSET Members
  PROVE  m \notin {Absent, Empty, NoTree} /\ AsRead(m) = m
  BY BiomeAssumption DEF AsRead

(* One step of a command: the file written last is the build file, and it  *)
(* is written with what the manifest says by then.                         *)
LEMMA WritingKeeps ==
  ASSUME FilesTyped, SignaturesAreSigned, BiomeTyped, InStep, signed' = signed,
         Truncate \/ WriteText \/ LoseText
  PROVE  FilesTyped' /\ SignaturesAreSigned' /\ BiomeTyped' /\ InStep'
<1> DEFINE todo == biome.todo
<1>1. todo \in Pending /\ todo # << >> /\ File \in BiomeFiles /\ biome.held \in SUBSET Members
  BY Pendings DEF Truncate, WriteText, LoseText, BiomeTyped, File
<1>2. File = Head(todo)
  BY DEF File
<1>3. CASE Truncate
  <2>1. Put(File, Empty) /\ biome' = [biome EXCEPT !.opened = TRUE] /\ excused' = excused
    BY <1>3 DEF Truncate
  <2>2. /\ FilesTyped' /\ SignaturesAreSigned'
        /\ \A g \in BiomeFiles : g # File => fs'[g] = fs[g]
    BY <1>1, <2>1, BiomePut
  <2>3. biome' = [cmd |-> biome.cmd, held |-> biome.held, todo |-> todo, opened |-> TRUE]
    BY <2>1 DEF BiomeTyped
  <2>4. biome'.cmd = biome.cmd /\ biome'.held = biome.held /\ biome'.todo = todo /\ biome'.opened = TRUE
    BY <2>3
  <2>5. BiomeTyped'
    BY <1>1, <2>3, <2>4 DEF BiomeTyped
  <2>6. CASE File = "cheatah.toml"
    <3>1. todo \notin Generating
      BY <1>1, <1>2, <2>6 DEF Generating
    <3>2. QED
      BY <1>1, <2>2, <2>4, <2>5, <3>1 DEF InStep
  <2>7. CASE File # "cheatah.toml"
    <3>1. Manifest' = Manifest
      BY <2>2, <2>7, BiomeNames DEF Manifest
    <3>2. QED
      BY <1>1, <2>1, <2>2, <2>4, <2>5, <3>1 DEF InStep
  <2>8. QED
    BY <2>6, <2>7
<1>4. CASE WriteText
  <2>1. Put(File, biome.held) /\ NextFile /\ excused' = (excused /\ File # "cheatah.toml")
    BY <1>4 DEF WriteText
  <2>2. /\ FilesTyped' /\ SignaturesAreSigned' /\ fs'[File] = biome.held
        /\ \A g \in BiomeFiles : g # File => fs'[g] = fs[g]
    BY <1>1, <2>1, BiomePut
  <2>3. /\ BiomeTyped' /\ biome'.todo = Tail(todo)
        /\ biome'.todo # << >> => biome'.held = biome.held
    BY <1>1, <2>1, Continuing
  <2>4. CASE File = "cheatah.toml"
    <3>1. Tail(todo) \in Generating /\ Tail(todo) # << >>
      BY <1>1, <1>2, <2>4, Pendings
    <3>2. Manifest' = biome.held
      BY <1>1, <2>2, <2>4, TextIsRead DEF Manifest, AsRead
    <3>3. QED
      BY <2>2, <2>3, <3>1, <3>2 DEF InStep
  <2>5. CASE File = "CPM.cmake"
    <3>1. todo \in Generating /\ Tail(todo) \in Generating /\ Tail(todo) # << >>
      BY <1>1, <1>2, <2>5, Pendings
    <3>2. Manifest' = Manifest
      BY <2>2, <2>5, BiomeNames DEF Manifest
    <3>3. ~excused' => ~excused
      BY <2>1, <2>5
    <3>4. ~excused' => biome.held = Manifest
      BY <1>1, <3>1, <3>3 DEF InStep
    <3>5. QED
      BY <2>2, <2>3, <3>1, <3>2, <3>4 DEF InStep
  <2>6. CASE File = "CMakeLists.txt"
    <3>1. todo \in Generating /\ Tail(todo) = << >>
      BY <1>1, <1>2, <2>6, Pendings
    <3>2. Manifest' = Manifest
      BY <2>2, <2>6, BiomeNames DEF Manifest
    <3>3. QED
      BY <2>1, <2>2, <2>3, <2>6, <3>1, <3>2, Pendings DEF InStep
  <2>7. QED
    BY <1>1, <2>4, <2>5, <2>6 DEF BiomeFiles
<1>5. CASE LoseText
  <2>1. excused' = TRUE /\ NextFile /\ fs' = fs
    BY <1>5 DEF LoseText
  <2>2. BiomeTyped'
    BY <1>1, <2>1, Continuing
  <2>3. QED
    BY <2>1, <2>2 DEF InStep, FilesTyped, SignaturesAreSigned, HasText
<1>6. QED
  BY <1>3, <1>4, <1>5

LEMMA BiomeKeeps ==
  ASSUME FilesTyped, SignaturesAreSigned, BiomeTyped, InStep, signed' = signed, BiomeNext
  PROVE  FilesTyped' /\ SignaturesAreSigned' /\ BiomeTyped' /\ InStep'
<1>u. ASSUME UNCHANGED fs PROVE FilesTyped' /\ SignaturesAreSigned' /\ Manifest' = Manifest
  BY <1>u DEF FilesTyped, SignaturesAreSigned, HasText, Manifest
<1>n. ASSUME NEW c, NothingToDo(c) PROVE FilesTyped' /\ SignaturesAreSigned' /\ BiomeTyped' /\ InStep'
  <2>1. UNCHANGED <<fs, biome, excused>>
    BY <1>n DEF NothingToDo
  <2>2. QED
    BY <1>u, <2>1 DEF BiomeTyped, InStep
<1>b. << >> \in Pending /\ Scaffold \in Pending /\ Update \in Pending /\ <<"CMakeLists.txt">> \in Pending
      /\ {} \in SUBSET Members /\ <<"CMakeLists.txt">> \in Generating /\ <<"CMakeLists.txt">> # << >>
  BY DEF Pending, Generating
<1>1. CASE InitProject
  <2>1. Begin("init", {}, Scaffold) /\ excused' = excused
    BY <1>1 DEF InitProject
  <2>2. BiomeTyped' /\ biome'.todo = Scaffold /\ fs' = fs
    BY <1>b, <2>1, Beginning
  <2>3. QED
    BY <1>u, <2>1, <2>2, Pendings DEF InStep
<1>2. CASE WriteFile
  BY <1>2, WritingKeeps DEF WriteFile
<1>3. CASE \E e \in Extensions : Add(e) \/ Remove(e)
  <2>1. PICK m : Save(m)
    BY <1>3 DEF Add, Remove
  <2>2. CASE NothingToDo("save")
    BY <1>n, <2>2
  <2>3. CASE Valid(m) /\ Begin("save", m, Update) /\ excused' = excused
    <3>1. BiomeTyped' /\ biome'.todo = Update /\ fs' = fs
      BY <1>b, <2>3, Beginning DEF Valid
    <3>2. QED
      BY <1>u, <2>3, <3>1, Pendings DEF InStep
  <2>4. QED
    BY <2>1, <2>2, <2>3 DEF Save
<1>4. CASE Configure
  <2>1. CASE NothingToDo("configure")
    BY <1>n, <2>1
  <2>2. CASE Valid(Manifest) /\ Begin("configure", Manifest, <<"CMakeLists.txt">>)
    <3>1. BiomeTyped' /\ biome'.todo = <<"CMakeLists.txt">> /\ biome'.held = Manifest /\ fs' = fs
      BY <1>b, <2>2, Beginning DEF Valid
    <3>2. QED
      BY <1>b, <1>u, <3>1 DEF InStep
  <2>3. QED
    BY <1>4, <2>1, <2>2 DEF Configure
<1>5. CASE RunConfigure \/ RunBuild
  <2>1. biome' = Idle /\ UNCHANGED <<fs, excused>>
    BY <1>5 DEF RunConfigure, RunBuild
  <2>2. biome.todo = << >>
    BY <1>5 DEF RunConfigure, RunBuild, BiomeTyped
  <2>3. QED
    BY <1>u, <2>1, <2>2, Resting, Pendings DEF InStep
<1>6. CASE Build
  <2>1. CASE NothingToDo("build")
    BY <1>n, <2>1
  <2>2. CASE Begin("build", Manifest, << >>) /\ excused' = excused
    <3>1. biome.todo = << >> /\ BiomeTyped' /\ biome'.todo = << >> /\ fs' = fs
      BY <1>b, <2>2, Beginning
    <3>2. QED
      BY <1>u, <2>2, <3>1, Pendings DEF InStep
  <2>3. QED
    BY <1>6, <2>1, <2>2 DEF Build
<1>7. CASE Kill
  <2>1. biome' = Idle /\ excused' = (excused \/ biome.todo # << >>) /\ UNCHANGED fs
    BY <1>7 DEF Kill
  <2>2. QED
    BY <1>u, <2>1, Resting, Pendings DEF InStep
<1>8. CASE \E m \in SUBSET Extensions : EditManifest(m)
  <2>1. PICK m : Put("cheatah.toml", m) /\ excused' = TRUE /\ biome' = biome
    BY <1>8 DEF EditManifest
  <2>2. FilesTyped' /\ SignaturesAreSigned'
    BY <2>1, BiomeNames, BiomePut
  <2>3. QED
    BY <2>1, <2>2 DEF InStep, BiomeTyped
<1>9. QED
  BY <1>1, <1>2, <1>3, <1>4, <1>5, <1>6, <1>7, <1>8 DEF BiomeNext

-----------------------------------------------------------------------------
(* The host.                                                               *)
LEMMA AtRestIs ==
  AtRest.pc = "rest"
  BY DEF AtRest

(* A host that refused, or has not begun, owes nothing.                    *)
LEMMA Refusing ==
  ASSUME host'.pc \in {"rest", "refused"}
  PROVE  Checked' /\ LoadedAsChecked'
  BY DEF Checked, LoadedAsChecked

LEMMA Refused ==
  ASSUME Refuse
  PROVE  HostTyped' /\ Checked' /\ LoadedAsChecked'
<1>1. host' = [AtRest EXCEPT !.pc = "refused"]
  BY DEF Refuse
<1>2. host' = [pc |-> "refused", strict |-> FALSE, has |-> {}, fd |-> FALSE, bytes |-> Absent,
               rt |-> Absent, loaded |-> Absent, summed |-> Absent]
  BY <1>1 DEF AtRest
<1>3. host'.pc = "refused" /\ HostTyped'
  BY <1>2 DEF HostTyped
<1>4. QED
  BY <1>3, Refusing

LEMMA HostGoes ==
  ASSUME HostTyped, NEW pc \in {"rt", "load"}, Goto(pc)
  PROVE  /\ HostTyped' /\ host'.pc = pc /\ host'.strict = host.strict /\ host'.fd = host.fd
         /\ host'.bytes = host.bytes /\ host'.summed = host.summed /\ host'.rt = host.rt
  BY DEF HostTyped, Goto

LEMMA InvokeKeeps ==
  ASSUME NEW strict \in BOOLEAN, Invoke(strict)
  PROVE  HostTyped' /\ Checked' /\ LoadedAsChecked'
<1>1. PICK pc \in {"probe", "refused"} : host' = [AtRest EXCEPT !.pc = pc, !.strict = strict]
  BY DEF Invoke
<1>2. host' = [pc |-> pc, strict |-> strict, has |-> {}, fd |-> FALSE, bytes |-> Absent,
               rt |-> Absent, loaded |-> Absent, summed |-> Absent]
  BY <1>1 DEF AtRest
<1>3. HostTyped' /\ host'.pc = pc /\ host'.summed = Absent
  BY <1>2 DEF HostTyped
<1>4. QED
  BY <1>3 DEF Checked, LoadedAsChecked

LEMMA ProbeKeeps ==
  ASSUME HostTyped, Checked, Probe
  PROVE  HostTyped' /\ Checked' /\ LoadedAsChecked'
<1>1. PICK h : host' = [host EXCEPT !.has = h, !.pc = IF host.strict \/ h # {} THEN "open" ELSE "load"]
  BY DEF Probe
<1>2. PICK pc \in {"open", "load"} :
        (host.strict => pc = "open") /\ host' = [host EXCEPT !.has = h, !.pc = pc]
  BY <1>1
<1>3. HostTyped' /\ host'.pc = pc /\ host'.summed = host.summed /\ host'.strict = host.strict
  BY <1>2 DEF HostTyped
<1>4. host.summed = Absent
  BY DEF Probe, Checked
<1>5. Checked'
  BY <1>2, <1>3, <1>4 DEF Checked
<1>6. QED
  BY <1>3, <1>5 DEF LoadedAsChecked

LEMMA OpenKeeps ==
  ASSUME HostTyped, Checked, OpenModule
  PROVE  HostTyped' /\ Checked' /\ LoadedAsChecked'
<1>1. CASE Refuse
  BY <1>1, Refused
<1>2. CASE ~Refuse
  <2>1. /\ host' = [host EXCEPT !.pc = "sum", !.fd = TRUE, !.bytes = fs[App]]
        /\ host.strict => FdBound
    BY <1>2 DEF OpenModule
  <2>2. /\ HostTyped' /\ host'.pc = "sum" /\ host'.fd /\ host'.strict = host.strict
        /\ host'.summed = host.summed
    BY <2>1 DEF HostTyped
  <2>3. host.summed = Absent
    BY DEF OpenModule, Checked
  <2>4. Checked'
    BY <2>1, <2>2, <2>3 DEF Checked
  <2>5. QED
    BY <2>2, <2>4 DEF LoadedAsChecked
<1>3. QED
  BY <1>1, <1>2

LEMMA SumKeeps ==
  ASSUME HostTyped, Checked, CheckSum
  PROVE  HostTyped' /\ Checked' /\ LoadedAsChecked'
<1>1. CASE Refuse
  BY <1>1, Refused
<1>2. CASE ~Refuse
  <2>1. PICK c : /\ host' = [host EXCEPT !.pc = "sig", !.summed = c]
                 /\ c # Absent => c = Digest(host.bytes)
    BY <1>2 DEF CheckSum
  <2>2. /\ HostTyped' /\ host'.pc = "sig" /\ host'.fd = host.fd /\ host'.strict = host.strict
        /\ host'.summed = c /\ host'.bytes = host.bytes
    BY <2>1 DEF HostTyped
  <2>3. host.fd /\ (host.strict => FdBound)
    BY DEF CheckSum, Checked
  <2>4. Checked'
    BY <2>1, <2>2, <2>3 DEF Checked
  <2>5. QED
    BY <2>2, <2>4 DEF LoadedAsChecked
<1>3. QED
  BY <1>1, <1>2

(* A signature that verifies under a trusted key was made by purrc.        *)
LEMMA VerifiedIsSigned ==
  ASSUME SignaturesAreSigned, NEW f \in Signatures, NEW keys, NEW c, SignedBy(f, keys, c)
  PROVE  signed \intersect (keys \X {c}) # {}
<1>1. fs[f] \in signed /\ fs[f] \in keys \X {c}
  BY DEF SignedBy, SignaturesAreSigned
<1>2. QED
  BY <1>1

LEMMA SigKeeps ==
  ASSUME HostTyped, SignaturesAreSigned, Checked, CheckSig, signed' = signed
  PROVE  HostTyped' /\ Checked' /\ LoadedAsChecked'
<1>1. CASE Refuse
  BY <1>1, Refused
<1>2. CASE ~Refuse
  <2>1. Goto("rt") /\ (host.strict => SignedBy(Sig(App), Trusted, host.bytes))
    BY <1>2 DEF CheckSig
  <2>2. /\ HostTyped' /\ host'.pc = "rt" /\ host'.strict = host.strict /\ host'.fd = host.fd
        /\ host'.bytes = host.bytes /\ host'.summed = host.summed
    BY <2>1, HostGoes
  <2>3. /\ host.fd /\ (host.strict => FdBound)
        /\ host.summed # Absent => host.summed = Digest(host.bytes)
    BY DEF CheckSig, Checked
  <2>4. host.strict => signed \intersect (Trusted \X {host.bytes}) # {}
    BY <2>1, Places, VerifiedIsSigned
  <2>5. Checked'
    BY <2>2, <2>3, <2>4 DEF Checked
  <2>6. QED
    BY <2>2, <2>5 DEF LoadedAsChecked
<1>3. QED
  BY <1>1, <1>2

LEMMA RtKeeps ==
  ASSUME HostTyped, Checked, CheckRt, signed' = signed
  PROVE  HostTyped' /\ Checked' /\ LoadedAsChecked'
<1>1. CASE Refuse
  BY <1>1, Refused
<1>2. CASE ~Refuse
  <2> DEFINE c == IF Rt \in host.has THEN fs[Rt] ELSE Absent
             pc == IF Rt \in host.has THEN "rtsig" ELSE "load"
  <2>1. /\ host' = [host EXCEPT !.rt = c, !.pc = pc]
        /\ pc \in {"rtsig", "load"}
        /\ pc = "rtsig" => Runs(c)
        /\ host.strict /\ TrustedRt # {} => pc = "rtsig"
    <3>1. host' = [host EXCEPT !.rt = c, !.pc = pc]
      BY <1>2 DEF CheckRt
    <3>2. Rt \in host.has => Runs(fs[Rt])
      BY <1>2 DEF CheckRt
    <3>3. host.strict /\ TrustedRt # {} => Rt \in host.has
      BY <1>2 DEF CheckRt
    <3>4. QED
      BY <3>1, <3>2, <3>3
  <2> HIDE DEF c, pc
  <2>2. /\ HostTyped' /\ host'.pc = pc /\ host'.strict = host.strict /\ host'.fd = host.fd
        /\ host'.bytes = host.bytes /\ host'.summed = host.summed /\ host'.rt = c
    BY <2>1 DEF HostTyped
  <2>3. /\ host.fd /\ (host.strict => FdBound)
        /\ host.summed # Absent => host.summed = Digest(host.bytes)
        /\ host.strict => signed \intersect (Trusted \X {host.bytes}) # {}
    BY DEF CheckRt, Checked
  <2>4. Checked'
    BY <2>1, <2>2, <2>3 DEF Checked
  <2>5. QED
    BY <2>1, <2>2, <2>4 DEF LoadedAsChecked
<1>3. QED
  BY <1>1, <1>2

LEMMA RtSigKeeps ==
  ASSUME HostTyped, SignaturesAreSigned, Checked, CheckRtSig, signed' = signed
  PROVE  HostTyped' /\ Checked' /\ LoadedAsChecked'
<1>1. CASE Refuse
  BY <1>1, Refused
<1>2. CASE ~Refuse
  <2>1. /\ Goto("load")
        /\ host.strict /\ TrustedRt # {} => SignedBy(RtSig, TrustedRt, host.rt)
    BY <1>2 DEF CheckRtSig
  <2>2. /\ HostTyped' /\ host'.pc = "load" /\ host'.strict = host.strict /\ host'.fd = host.fd
        /\ host'.bytes = host.bytes /\ host'.summed = host.summed /\ host'.rt = host.rt
    BY <2>1, HostGoes
  <2>3. /\ host.fd /\ (host.strict => FdBound)
        /\ host.summed # Absent => host.summed = Digest(host.bytes)
        /\ host.strict => signed \intersect (Trusted \X {host.bytes}) # {} /\ Runs(host.rt)
    BY DEF CheckRtSig, Checked
  <2>4. host.strict /\ TrustedRt # {} => signed \intersect (TrustedRt \X {host.rt}) # {}
    BY <2>1, Places, VerifiedIsSigned
  <2>5. Checked'
    BY <2>2, <2>3, <2>4 DEF Checked
  <2>6. QED
    BY <2>2, <2>5 DEF LoadedAsChecked
<1>3. QED
  BY <1>1, <1>2

LEMMA LoadKeeps ==
  ASSUME HostTyped, Checked, Load, signed' = signed
  PROVE  HostTyped' /\ Checked' /\ LoadedAsChecked'
<1>1. CASE Refuse
  BY <1>1, Refused
<1>2. CASE ~Refuse
  <2>1. host' = [host EXCEPT !.pc = "loaded", !.fd = FALSE, !.bytes = Absent, !.has = {}, !.loaded = Image]
    BY <1>2 DEF Load
  <2>2. /\ HostTyped' /\ host'.pc = "loaded" /\ host'.strict = host.strict
        /\ host'.summed = host.summed /\ host'.rt = host.rt /\ host'.loaded = Image
    BY <2>1 DEF HostTyped
  <2>3. Checked'
    BY <2>2 DEF Checked
  <2>4. /\ host.strict \/ host.summed # Absent => host.fd
        /\ host.summed # Absent => host.summed = Digest(host.bytes)
        /\ host.strict => FdBound /\ signed \intersect (Trusted \X {host.bytes}) # {}
        /\ host.strict /\ TrustedRt # {} =>
             signed \intersect (TrustedRt \X {host.rt}) # {} /\ Runs(host.rt)
    BY DEF Load, Checked
  <2>5. host.fd /\ FdBound => Image = host.bytes
    BY DEF Image
  <2>6. QED
    BY <2>2, <2>3, <2>4, <2>5 DEF LoadedAsChecked
<1>3. QED
  BY <1>1, <1>2

LEMMA HostKeeps ==
  ASSUME HostTyped, SignaturesAreSigned, Checked, IntegrityNext, signed' = signed
  PROVE  HostTyped' /\ Checked' /\ LoadedAsChecked' /\ fs' = fs
<1>1. fs' = fs
  BY DEF IntegrityNext, Invoke, Probe, OpenModule, CheckSum, CheckSig, CheckRt, CheckRtSig, Load
<1>2. HostTyped' /\ Checked' /\ LoadedAsChecked'
  BY InvokeKeeps, ProbeKeeps, OpenKeeps, SumKeeps, SigKeeps, RtKeeps, RtSigKeeps, LoadKeeps
     DEF IntegrityNext
<1>3. QED
  BY <1>1, <1>2

(* While the host waits, purrc may only sign more.                         *)
LEMMA HostWaits ==
  ASSUME HostTyped, Checked, LoadedAsChecked, host' = host, signed \subseteq signed'
  PROVE  HostTyped' /\ Checked' /\ LoadedAsChecked'
<1>1. \A keys, c : signed \intersect (keys \X {c}) # {} => signed' \intersect (keys \X {c}) # {}
  OBVIOUS
<1>2. HostTyped'
  BY DEF HostTyped
<1>3. Checked'
  BY <1>1 DEF Checked
<1>4. LoadedAsChecked'
  BY <1>1 DEF LoadedAsChecked
<1>5. QED
  BY <1>2, <1>3, <1>4

-----------------------------------------------------------------------------
LEMMA InitHolds ==
  ASSUME Init
  PROVE  IInv
<1>1. FilesTyped
  BY DEF Init, FilesInit, FilesTyped
<1>2. \A f \in Name : f # "m.purr" => fs[f] = Absent
  BY DEF Init, FilesInit
<1>3. SignaturesAreSigned
  <2>1. \A f \in Signatures : f \in Name /\ f # "m.purr"
    BY DEF Signatures, Name, Sig, App, RtSig
  <2>2. QED
    BY <1>2, <2>1 DEF SignaturesAreSigned, HasText
<1>4. RunsTyped
  <2>1. DOMAIN run = Process
        /\ \A p \in Process : run[p] = [todo |-> << >>, held |-> Absent, flags |-> NoFlags, lost |-> {}]
    BY DEF Init, PurrcInit
  <2>2. << >> \in Seq(Steps)
    OBVIOUS
  <2>3. \A p \in Process : DOMAIN run[p] = {"todo", "held", "flags", "lost"} /\ run[p].todo = << >>
    BY <2>1
  <2>4. QED
    BY <2>1, <2>2, <2>3 DEF RunsTyped
<1>5. HostTyped /\ Checked /\ LoadedAsChecked
  <2>1. host = AtRest
    BY DEF Init, IntegrityInit
  <2>2. HostTyped
    BY <2>1 DEF AtRest, HostTyped
  <2>3. host.pc = "rest"
    BY <2>1, AtRestIs
  <2>4. QED
    BY <2>2, <2>3 DEF Checked, LoadedAsChecked
<1>6. BiomeTyped /\ InStep
  <2>1. biome = [cmd |-> "none", held |-> {}, todo |-> << >>, opened |-> FALSE]
    BY DEF Init, BiomeInit, Idle
  <2>2. biome.cmd = "none" /\ biome.todo = << >> /\ biome.opened = FALSE
    BY <2>1
  <2>3. BiomeTyped
    BY <2>1, <2>2 DEF BiomeTyped, Pending
  <2>4. fs["CMakeLists.txt"] = Manifest
    BY <1>2, BiomeAssumption DEF Name, Manifest, AsRead
  <2>5. QED
    BY <2>2, <2>3, <2>4, Pendings DEF InStep
<1>7. QED
  BY <1>1, <1>3, <1>4, <1>5, <1>6 DEF IInv, Typed

LEMMA StepKeeps ==
  ASSUME IInv, [Next]_vars
  PROVE  IInv'
<1> USE DEF IInv, Typed
<1>1. CASE BiomeStep
  <2>1. BiomeNext /\ UNCHANGED <<run, signed, host>>
    BY <1>1 DEF BiomeStep, purrcVars, hostVars
  <2>2. FilesTyped' /\ SignaturesAreSigned' /\ BiomeTyped' /\ InStep'
    BY <2>1, BiomeKeeps
  <2>3. HostTyped' /\ Checked' /\ LoadedAsChecked'
    BY <2>1, HostWaits
  <2>4. RunsTyped'
    BY <2>1 DEF RunsTyped
  <2>5. QED
    BY <2>2, <2>3, <2>4
<1>2. CASE LibStep \/ ProgStep
  <2>1. Builds /\ UNCHANGED <<biome, excused, host>>
    BY <1>2, BuildStepBuilds DEF biomeVars, hostVars
  <2>2. FilesTyped' /\ RunsTyped' /\ SignaturesAreSigned'
    BY <2>1 DEF Builds
  <2>3. HostTyped' /\ Checked' /\ LoadedAsChecked'
    BY <2>1, HostWaits DEF Builds
  <2>4. BiomeTyped' /\ InStep'
    BY <2>1 DEF Builds, BiomeTyped, InStep, Manifest
  <2>5. QED
    BY <2>2, <2>3, <2>4
<1>3. CASE HostStep
  <2>1. IntegrityNext /\ UNCHANGED <<run, signed, biome, excused>>
    BY <1>3 DEF HostStep, purrcVars, biomeVars
  <2>2. HostTyped' /\ Checked' /\ LoadedAsChecked' /\ fs' = fs
    BY <2>1, HostKeeps
  <2>3. FilesTyped' /\ RunsTyped' /\ SignaturesAreSigned' /\ BiomeTyped' /\ InStep'
    BY <2>1, <2>2 DEF FilesTyped, RunsTyped, SignaturesAreSigned, HasText, BiomeTyped, InStep, Manifest
  <2>4. QED
    BY <2>2, <2>3
<1>4. CASE UNCHANGED vars
  <2>1. UNCHANGED <<fs, run, signed, host, biome, excused>>
    BY <1>4 DEF vars, purrcVars, hostVars, biomeVars
  <2>2. HostTyped' /\ Checked' /\ LoadedAsChecked'
    BY <2>1, HostWaits
  <2>3. FilesTyped' /\ RunsTyped' /\ SignaturesAreSigned' /\ BiomeTyped' /\ InStep'
    BY <2>1 DEF FilesTyped, RunsTyped, SignaturesAreSigned, HasText, BiomeTyped, InStep, Manifest
  <2>4. QED
    BY <2>2, <2>3
<1>5. QED
  BY <1>1, <1>2, <1>3, <1>4 DEF Next

(* The invariant the rest follows from: whatever purrc, biome and the host *)
(* have done, in whatever order.                                           *)
THEOREM Invariance == Spec => []IInv
<1>1. Init => IInv
  BY InitHolds
<1>2. IInv /\ [Next]_vars => IInv'
  BY StepKeeps
<1>3. QED
  BY <1>1, <1>2, PTL DEF Spec

(* verify_module and module_open: where a descriptor names the open file,  *)
(* what is loaded is what was checked, although purrc replaces the module  *)
(* and its sidecars between any two steps of the host. Without such names  *)
(* a load that is not strict goes by the path again.                       *)
THEOREM LoadsAreChecked ==
  ASSUME FdBound
  PROVE  Spec => []LoadedIsWhatWasChecked
<1>1. IInv => LoadedIsWhatWasChecked
  BY DEF IInv, LoadedAsChecked, LoadedIsWhatWasChecked
<1>2. QED
  BY <1>1, Invariance, PTL

(* The strict policy does not rest on that: under it only an image that a  *)
(* trusted key signed is loaded, on every platform.                        *)
StrictIsSigned ==
  host.pc = "loaded" /\ host.strict =>
    /\ signed \intersect (Trusted \X {host.loaded}) # {}
    /\ TrustedRt # {} => signed \intersect (TrustedRt \X {host.rt}) # {} /\ Runs(host.rt)

THEOREM StrictLoadsAreSigned == Spec => []StrictIsSigned
<1>1. IInv => StrictIsSigned
  BY DEF IInv, LoadedAsChecked, StrictIsSigned
<1>2. QED
  BY <1>1, Invariance, PTL

(* save_manifest, generate_cmake and cmd_configure: between commands the   *)
(* build file says what the manifest says, unless a command was killed, a  *)
(* write was lost or the manifest edited by hand since.                    *)
THEOREM DriftsHaveCauses == Spec => []DriftHasACause
<1>1. IInv => DriftHasACause
  BY DEF IInv, InStep, DriftHasACause, Idle
<1>2. QED
  BY <1>1, Invariance, PTL

-----------------------------------------------------------------------------
(* The files of purrc: LibraryIsSound and NothingGoesStale.                *)
(*                                                                         *)
(* The argument: what a run of purrc still has to do is a suffix of its    *)
(* script, so it stands at a numbered place of that script (Stands), and   *)
(* what is on disk follows from the place (LibFacts, ProgFacts). An        *)
(* emission that was killed leaves files behind that no place accounts     *)
(* for: what they still have is an order of versions (Dated), and a header *)
(* whose checksum fits pins the archive between two equal versions.        *)

(* The scripts step by step: every step either process can be asked for.   *)
LibSteps == <<
  <<"source", "m.purr">>, <<"open", "m.hpp">>, <<"put", "m.hpp">>, <<"open", "m.impl">>,
  <<"put", "m.impl">>, <<"archive", "libm.a">>, <<"remove", "m.impl">>,
  <<"read", "libm.a">>, <<"open", "libm.a.sha512">>, <<"put", "libm.a.sha512">>,
  <<"read", "libm.a">>, <<"open", "libm.a.sig">>, <<"put", "libm.a.sig">>,
  <<"read", "m.hpp">>, <<"open", "m.hpp.sha512">>, <<"put", "m.hpp.sha512">>,
  <<"read", "m.hpp">>, <<"open", "m.hpp.sig">>, <<"put", "m.hpp.sig">> >>

ProgSteps == <<
  <<"resolve", "m.hpp">>, <<"verify", "m.hpp">>, <<"verify", "libm.a">>, <<"backend", "app.so">>,
  <<"read", "app.so">>, <<"open", "app.so.sha512">>, <<"put", "app.so.sha512">>,
  <<"read", "app.so">>, <<"open", "app.so.sig">>, <<"put", "app.so.sig">>,
  <<"manifest", "app.so.rt">>, <<"open", "app.so.rt">>, <<"put", "app.so.rt">>,
  <<"open", "app.so.rt.sig">>, <<"put", "app.so.rt.sig">> >>

(* Which of them the flags ask for.                                        *)
When(c, W) == IF c THEN W ELSE {}
LibAsked(fl) ==
  {1, 2, 3, 4, 5, 6, 7} \union {8, 9, 10} \union When(fl.key # NoKey, {11, 12, 13})
    \union {14, 15, 16} \union When(fl.key # NoKey, {17, 18, 19})
ProgAsked(fl) ==
  {1, 2, 3, 4} \union When(fl.key # NoKey \/ fl.sum, {5, 6, 7}) \union When(fl.key # NoKey, {8, 9, 10})
    \union When(fl.rtkey # NoKey \/ fl.rt, {11, 12, 13}) \union When(fl.rtkey # NoKey, {14, 15})

(* The steps s are those of the list M at the places r, in order, and with *)
(* a place all later ones of W are there.                                  *)
Left(r) == {r[i] : i \in 1 .. Len(r)}
Follows(s, M, W, r) ==
  /\ s \in Seq(Steps) /\ r \in Seq(Nat) /\ Len(r) = Len(s)
  /\ Left(r) \subseteq W
  /\ \A i \in 1 .. Len(r) : s[i] = M[r[i]]
  /\ \A i \in 1 .. Len(r) : \A j \in 1 .. Len(r) : i < j => r[i] < r[j]
  /\ \A i \in 1 .. Len(r) : \A w \in W : r[i] < w => w \in Left(r)
Lists(s, M, W) == \E r : Follows(s, M, W, r) /\ Left(r) = W

LEMMA LeftIs ==
  ASSUME NEW r \in Seq(Nat)
  PROVE  /\ \A i \in 1 .. Len(r) : r[i] \in Left(r) /\ r[i] \in Nat
         /\ \A w \in Left(r) : \E i \in 1 .. Len(r) : r[i] = w
         /\ Left(r) \subseteq Nat
         /\ Left(r) = {} <=> r = << >>
<1>1. \A i \in 1 .. Len(r) : r[i] \in Left(r) /\ r[i] \in Nat
  BY DEF Left
<1>2. \A w \in Left(r) : \E i \in 1 .. Len(r) : r[i] = w
  BY DEF Left
<1>3. Left(r) = {} <=> r = << >>
  <2>1. CASE r = << >>
    <3>1. Len(r) = 0
      BY <2>1
    <3>2. 1 .. 0 = {}
      OBVIOUS
    <3>3. QED
      BY <2>1, <3>1, <3>2 DEF Left
  <2>2. CASE r # << >>
    <3>1. 1 \in 1 .. Len(r)
      BY <2>2
    <3>2. QED
      BY <1>1, <2>2, <3>1
  <2>3. QED
    BY <2>1, <2>2
<1>4. QED
  BY <1>1, <1>2, <1>3

(* Taking the first step takes the least place m that is left.             *)
Takes(s, M, W, r, m) ==
  /\ m \in Left(r) /\ m \in Nat /\ Head(s) = M[m]
  /\ \A q \in Left(r) : m <= q
  /\ \A w \in W : m < w => w \in Left(r)
  /\ Follows(Tail(s), M, W, Tail(r)) /\ Left(Tail(r)) = Left(r) \ {m}

LEMMA FollowsTail ==
  ASSUME NEW s, NEW M, NEW W, NEW r, Follows(s, M, W, r), s # << >>
  PROVE  \E m \in W : Takes(s, M, W, r, m)
<1> DEFINE n == Len(r)
           t == Tail(r)
<1>1. s \in Seq(Steps) /\ r \in Seq(Nat) /\ Len(s) = n /\ n \in Nat /\ n > 0 /\ Left(r) \subseteq W
  BY DEF Follows
<1>2. \A i \in 1 .. n : s[i] = M[r[i]]
  BY DEF Follows
<1>3. \A i \in 1 .. n : \A j \in 1 .. n : i < j => r[i] < r[j]
  BY DEF Follows
<1>4. \A i \in 1 .. n : \A w \in W : r[i] < w => w \in Left(r)
  BY DEF Follows
<1>5. Head(s) = s[1] /\ 1 \in 1 .. n /\ r # << >> /\ s # << >>
  BY <1>1
<1>6. /\ t \in Seq(Nat) /\ Len(t) = n - 1 /\ Tail(s) \in Seq(Steps) /\ Len(Tail(s)) = n - 1
      /\ \A i \in 1 .. n - 1 : t[i] = r[i + 1] /\ Tail(s)[i] = s[i + 1]
  BY <1>1, <1>5
<1>7. /\ \A i \in 1 .. n : r[i] \in Left(r) /\ r[i] \in Nat
      /\ \A w \in Left(r) : \E i \in 1 .. n : r[i] = w
  BY <1>1, LeftIs
<1>8. /\ \A i \in 1 .. n - 1 : t[i] \in Left(t)
      /\ \A w \in Left(t) : \E i \in 1 .. n - 1 : t[i] = w
  BY <1>6, LeftIs
<1> HIDE DEF t, n
<1>9. Left(t) = Left(r) \ {r[1]}
  <2>1. ASSUME NEW w \in Left(t) PROVE w \in Left(r) \ {r[1]}
    <3>1. PICK i \in 1 .. n - 1 : t[i] = w
      BY <1>8
    <3>2. w = r[i + 1] /\ i + 1 \in 1 .. n /\ 1 < i + 1
      BY <1>1, <1>6, <3>1
    <3>3. r[1] < w /\ w \in Left(r) /\ r[1] \in Nat
      BY <1>3, <1>5, <1>7, <3>2
    <3>4. QED
      BY <1>7, <3>2, <3>3
  <2>2. ASSUME NEW w \in Left(r) \ {r[1]} PROVE w \in Left(t)
    <3>1. PICK i \in 1 .. n : r[i] = w
      BY <1>7
    <3>2. i # 1 /\ i - 1 \in 1 .. n - 1 /\ (i - 1) + 1 = i
      BY <1>1, <3>1
    <3>3. t[i - 1] = w
      BY <1>6, <3>1, <3>2
    <3>4. QED
      BY <1>8, <3>2, <3>3
  <2>3. QED
    BY <2>1, <2>2
<1>10. Follows(Tail(s), M, W, t)
  <2>1. \A i \in 1 .. n - 1 : i + 1 \in 1 .. n
    BY <1>1
  <2>2. \A i \in 1 .. n - 1 : Tail(s)[i] = M[t[i]]
    BY <1>2, <1>6, <2>1
  <2>3. ASSUME NEW i \in 1 .. n - 1, NEW j \in 1 .. n - 1, i < j PROVE t[i] < t[j]
    <3>1. i + 1 \in 1 .. n /\ j + 1 \in 1 .. n /\ i + 1 < j + 1
      BY <1>1, <2>3
    <3>2. r[i + 1] < r[j + 1]
      BY <1>3, <3>1
    <3>3. QED
      BY <1>6, <3>2
  <2>4. ASSUME NEW i \in 1 .. n - 1, NEW w \in W, t[i] < w PROVE w \in Left(t)
    <3>1. t[i] = r[i + 1] /\ i + 1 \in 1 .. n /\ 1 < i + 1
      <4>1. i \in Nat /\ 1 <= i /\ i <= n - 1
        BY <1>1
      <4>2. i + 1 \in 1 .. n /\ 1 < i + 1
        BY <1>1, <4>1
      <4>3. t[i] = r[i + 1]
        BY <1>6
      <4>4. QED
        BY <4>2, <4>3
    <3>2. w \in Left(r)
      BY <1>4, <2>4, <3>1
    <3>3. r[1] < t[i] /\ r[1] \in Nat /\ t[i] \in Nat
      BY <1>3, <1>5, <1>7, <3>1
    <3>4. w \in Nat
      BY <1>7, <3>2
    <3>5. w # r[1]
      BY <2>4, <3>3, <3>4
    <3>6. QED
      BY <1>9, <3>2, <3>5
  <2>5. QED
    BY <1>1, <1>6, <1>9, <2>2, <2>3, <2>4 DEF Follows
<1>11. r[1] \in W /\ r[1] \in Left(r) /\ r[1] \in Nat /\ Head(s) = M[r[1]]
  BY <1>1, <1>2, <1>5, <1>7
<1>12. \A q \in Left(r) : r[1] <= q
  <2> TAKE q \in Left(r)
  <2>1. PICK i \in 1 .. n : r[i] = q
    BY <1>7
  <2>2. CASE i = 1
    BY <1>11, <2>1, <2>2
  <2>3. CASE i # 1
    <3>1. 1 < i
      BY <1>1, <2>3
    <3>2. r[1] < r[i] /\ r[i] \in Nat
      BY <1>3, <1>5, <1>7, <3>1
    <3>3. QED
      BY <1>11, <2>1, <3>2
  <2>4. QED
    BY <2>2, <2>3
<1>13. \A w \in W : r[1] < w => w \in Left(r)
  BY <1>4, <1>5
<1>14. QED
  <2>1. Takes(s, M, W, r, r[1])
    BY <1>9, <1>10, <1>11, <1>12, <1>13 DEF t, Takes
  <2>2. QED
    BY <1>11, <2>1
LEMMA ListsNone ==
  ASSUME NEW M
  PROVE  Lists(<< >>, M, {})
<1>1. << >> \in Seq(Nat) /\ << >> \in Seq(Steps) /\ Len(<< >>) = 0 /\ 1 .. 0 = {}
  OBVIOUS
<1>2. Left(<< >>) = {}
  BY <1>1 DEF Left
<1>3. Follows(<< >>, M, {}, << >>)
  BY <1>1, <1>2 DEF Follows
<1>4. QED
  BY <1>2, <1>3 DEF Lists

LEMMA ListsOne ==
  ASSUME NEW M, NEW m \in Nat, NEW a \in Steps, M[m] = a
  PROVE  Lists(<< a >>, M, {m})
<1> DEFINE r == << m >>
           s == << a >>
<1>1. /\ s \in Seq(Steps) /\ r \in Seq(Nat) /\ Len(s) = 1 /\ Len(r) = 1 /\ 1 .. 1 = {1}
      /\ s[1] = a /\ r[1] = m
  OBVIOUS
<1>2. Left(r) = {m}
  BY <1>1 DEF Left
<1>3. /\ \A i \in 1 .. Len(r) : s[i] = M[r[i]]
      /\ \A i \in 1 .. Len(r) : \A j \in 1 .. Len(r) : i < j => r[i] < r[j]
      /\ \A i \in 1 .. Len(r) : \A w \in {m} : r[i] < w => w \in Left(r)
  BY <1>1, <1>2
<1>4. Follows(s, M, {m}, r)
  BY <1>1, <1>2, <1>3 DEF Follows
<1>5. QED
  BY <1>2, <1>4 DEF Lists

LEMMA ListsJoin ==
  ASSUME NEW s1, NEW s2, NEW M, NEW W1, NEW W2, Lists(s1, M, W1), Lists(s2, M, W2),
         \A v \in W1 : \A w \in W2 : v < w
  PROVE  Lists(s1 \o s2, M, W1 \union W2)
<1>1. PICK r1 : Follows(s1, M, W1, r1) /\ Left(r1) = W1
  BY DEF Lists
<1>2. PICK r2 : Follows(s2, M, W2, r2) /\ Left(r2) = W2
  BY DEF Lists
<1> DEFINE r == r1 \o r2
           s == s1 \o s2
           a == Len(r1)
           b == Len(r2)
<1>3. /\ s1 \in Seq(Steps) /\ r1 \in Seq(Nat) /\ Len(s1) = a /\ a \in Nat
      /\ s2 \in Seq(Steps) /\ r2 \in Seq(Nat) /\ Len(s2) = b /\ b \in Nat
  BY <1>1, <1>2 DEF Follows
<1>4. /\ s \in Seq(Steps) /\ Len(s) = a + b
      /\ \A i \in 1 .. a + b : s[i] = IF i <= a THEN s1[i] ELSE s2[i - a]
  BY <1>3, ConcatProperties
<1>5. /\ r \in Seq(Nat) /\ Len(r) = a + b
      /\ \A i \in 1 .. a + b : r[i] = IF i <= a THEN r1[i] ELSE r2[i - a]
  BY <1>3, ConcatProperties
<1>6. /\ \A i \in 1 .. a : s1[i] = M[r1[i]]
      /\ \A i \in 1 .. b : s2[i] = M[r2[i]]
      /\ \A i \in 1 .. a : \A j \in 1 .. a : i < j => r1[i] < r1[j]
      /\ \A i \in 1 .. b : \A j \in 1 .. b : i < j => r2[i] < r2[j]
  BY <1>1, <1>2 DEF Follows
<1>7. /\ \A i \in 1 .. a : r1[i] \in W1
      /\ \A w \in W1 : \E i \in 1 .. a : r1[i] = w
      /\ \A i \in 1 .. b : r2[i] \in W2
      /\ \A w \in W2 : \E i \in 1 .. b : r2[i] = w
  BY <1>1, <1>2, <1>3, LeftIs
<1> HIDE DEF r, s, a, b
<1>8. \A i \in 1 .. a + b : /\ i <= a => i \in 1 .. a
                            /\ ~(i <= a) => i - a \in 1 .. b
  BY <1>3
<1>9. Left(r) = W1 \union W2
  <2>1. /\ \A i \in 1 .. a + b : r[i] \in Left(r)
        /\ \A w \in Left(r) : \E i \in 1 .. a + b : r[i] = w
    BY <1>5, LeftIs
  <2>2. ASSUME NEW w \in Left(r) PROVE w \in W1 \union W2
    <3>1. PICK i \in 1 .. a + b : r[i] = w
      BY <2>1
    <3>2. QED
      BY <1>5, <1>7, <1>8, <3>1
  <2>3. ASSUME NEW w \in W1 PROVE w \in Left(r)
    <3>1. PICK i \in 1 .. a : r1[i] = w
      BY <1>7
    <3>2. i \in 1 .. a + b /\ i <= a
      BY <1>3
    <3>3. QED
      BY <1>5, <2>1, <3>1, <3>2
  <2>4. ASSUME NEW w \in W2 PROVE w \in Left(r)
    <3>1. PICK i \in 1 .. b : r2[i] = w
      BY <1>7
    <3>2. a + i \in 1 .. a + b /\ ~(a + i <= a) /\ (a + i) - a = i
      BY <1>3
    <3>3. QED
      BY <1>5, <2>1, <3>1, <3>2
  <2>5. QED
    BY <2>2, <2>3, <2>4
<1>10. \A i \in 1 .. a + b : s[i] = M[r[i]]
  BY <1>4, <1>5, <1>6, <1>8
<1>11. ASSUME NEW i \in 1 .. a + b, NEW j \in 1 .. a + b, i < j PROVE r[i] < r[j]
  <2>1. CASE j <= a
    <3>1. i <= a /\ i \in 1 .. a /\ j \in 1 .. a
      BY <1>3, <1>11, <2>1
    <3>2. QED
      BY <1>5, <1>6, <1>11, <2>1, <3>1
  <2>2. CASE i <= a /\ ~(j <= a)
    <3>1. r[i] \in W1 /\ r[j] \in W2
      BY <1>5, <1>7, <1>8, <2>2
    <3>2. QED
      BY <3>1
  <2>3. CASE ~(i <= a) /\ ~(j <= a)
    <3>1. i - a \in 1 .. b /\ j - a \in 1 .. b /\ i - a < j - a
      BY <1>3, <1>8, <1>11, <2>3
    <3>2. r2[i - a] < r2[j - a]
      BY <1>6, <3>1
    <3>3. QED
      BY <1>5, <2>3, <3>2
  <2>4. QED
    BY <1>3, <1>11, <2>1, <2>2, <2>3
<1>12. Follows(s, M, W1 \union W2, r)
  BY <1>4, <1>5, <1>9, <1>10, <1>11 DEF Follows
<1>13. QED
  BY <1>9, <1>12 DEF Lists, s

LEMMA ListsWhen ==
  ASSUME NEW s, NEW M, NEW W, NEW c, Lists(s, M, W)
  PROVE  Lists(IF c THEN s ELSE << >>, M, When(c, W))
<1>1. CASE c
  BY <1>1 DEF When
<1>2. CASE ~c
  BY <1>2, ListsNone DEF When
<1>3. QED
  BY <1>1, <1>2

LEMMA ListsTwo ==
  ASSUME NEW M, NEW k \in Nat, NEW l \in Nat, NEW a \in Steps, NEW b \in Steps,
         M[k] = a, M[l] = b, k < l
  PROVE  Lists(<< a, b >>, M, {k, l})
<1>1. Lists(<< a >>, M, {k}) /\ Lists(<< b >>, M, {l})
  BY ListsOne
<1>2. \A v \in {k} : \A w \in {l} : v < w
  OBVIOUS
<1>3. Lists(<< a >> \o << b >>, M, {k} \union {l})
  BY <1>1, <1>2, ListsJoin
<1>4. << a >> \o << b >> = << a, b >>
  <2> DEFINE x == << a >>
             y == << b >>
             z == << a, b >>
  <2>1. /\ x \in Seq(Steps) /\ Len(x) = 1 /\ x[1] = a
        /\ y \in Seq(Steps) /\ Len(y) = 1 /\ y[1] = b
        /\ z \in Seq(Steps) /\ Len(z) = 2 /\ z[1] = a /\ z[2] = b
    OBVIOUS
  <2> HIDE DEF x, y, z
  <2>2. /\ x \o y \in Seq(Steps) /\ Len(x \o y) = Len(x) + Len(y)
        /\ \A i \in 1 .. Len(x) + Len(y) : (x \o y)[i] = IF i <= Len(x) THEN x[i] ELSE y[i - Len(x)]
    BY <2>1, ConcatProperties
  <2>3. Len(x \o y) = 2 /\ (x \o y)[1] = a /\ (x \o y)[2] = b
    BY <2>1, <2>2
  <2>4. \A i \in 1 .. 2 : (x \o y)[i] = z[i]
    <3>1. \A i \in 1 .. 2 : i = 1 \/ i = 2
      OBVIOUS
    <3>2. QED
      BY <2>1, <2>3, <3>1
  <2>5. x \o y = z
    BY <2>1, <2>2, <2>3, <2>4, SeqEqual
  <2>6. QED
    BY <2>5 DEF x, y, z
<1>5. {k} \union {l} = {k, l}
  OBVIOUS
<1>6. QED
  BY <1>3, <1>4, <1>5
LEMMA LibStepsAre ==
  /\ LibSteps[1] = <<"source", "m.purr">> /\ LibSteps[2] = <<"open", "m.hpp">>
  /\ LibSteps[3] = <<"put", "m.hpp">> /\ LibSteps[4] = <<"open", "m.impl">>
  /\ LibSteps[5] = <<"put", "m.impl">> /\ LibSteps[6] = <<"archive", "libm.a">>
  /\ LibSteps[7] = <<"remove", "m.impl">> /\ LibSteps[8] = <<"read", "libm.a">>
  /\ LibSteps[9] = <<"open", Sum("libm.a")>> /\ LibSteps[10] = <<"put", Sum("libm.a")>>
  /\ LibSteps[11] = <<"read", "libm.a">> /\ LibSteps[12] = <<"open", Sig("libm.a")>>
  /\ LibSteps[13] = <<"put", Sig("libm.a")>> /\ LibSteps[14] = <<"read", "m.hpp">>
  /\ LibSteps[15] = <<"open", Sum("m.hpp")>> /\ LibSteps[16] = <<"put", Sum("m.hpp")>>
  /\ LibSteps[17] = <<"read", "m.hpp">> /\ LibSteps[18] = <<"open", Sig("m.hpp")>>
  /\ LibSteps[19] = <<"put", Sig("m.hpp")>>
  BY DEF LibSteps, Sum, Sig

LEMMA ProgStepsAre ==
  /\ ProgSteps[1] = <<"resolve", "m.hpp">> /\ ProgSteps[2] = <<"verify", "m.hpp">>
  /\ ProgSteps[3] = <<"verify", "libm.a">> /\ ProgSteps[4] = <<"backend", "app.so">>
  /\ ProgSteps[5] = <<"read", "app.so">> /\ ProgSteps[6] = <<"open", Sum("app.so")>>
  /\ ProgSteps[7] = <<"put", Sum("app.so")>> /\ ProgSteps[8] = <<"read", "app.so">>
  /\ ProgSteps[9] = <<"open", Sig("app.so")>> /\ ProgSteps[10] = <<"put", Sig("app.so")>>
  /\ ProgSteps[11] = <<"manifest", "app.so.rt">> /\ ProgSteps[12] = <<"open", "app.so.rt">>
  /\ ProgSteps[13] = <<"put", "app.so.rt">> /\ ProgSteps[14] = <<"open", "app.so.rt.sig">>
  /\ ProgSteps[15] = <<"put", "app.so.rt.sig">>
  BY DEF ProgSteps, Sum, Sig

LEMMA WriteLists ==
  ASSUME NEW M, NEW f \in PurrcFiles, NEW k \in Nat, NEW l \in Nat, k < l,
         M[k] = <<"open", f>>, M[l] = <<"put", f>>
  PROVE  Lists(Write(f), M, {k, l})
<1>1. <<"open", f>> \in Steps /\ <<"put", f>> \in Steps
  BY PiecesTyped
<1> DEFINE a == <<"open", f>>
           b == <<"put", f>>
<1> HIDE DEF a, b
<1>2. Lists(<< a, b >>, M, {k, l})
  BY <1>1, ListsTwo DEF a, b
<1>3. QED
  BY <1>2 DEF Write, a, b

LEMMA SidecarLists ==
  ASSUME NEW M, NEW f \in PurrcFiles, NEW g \in PurrcFiles,
         NEW j \in Nat, NEW k \in Nat, NEW l \in Nat, j < k, k < l,
         M[j] = <<"read", f>>, M[k] = <<"open", g>>, M[l] = <<"put", g>>
  PROVE  Lists(Sidecar(f, g), M, {j, k, l})
<1>1. Lists(Write(g), M, {k, l})
  BY WriteLists
<1>2. Lists(<< <<"read", f>> >>, M, {j})
  <2>1. <<"read", f>> \in Steps
    BY PiecesTyped
  <2>2. QED
    BY <2>1, ListsOne
<1>3. \A v \in {j} : \A w \in {k, l} : v < w
  OBVIOUS
<1>4. Lists(<< <<"read", f>> >> \o Write(g), M, {j} \union {k, l})
  BY <1>1, <1>2, <1>3, ListsJoin
<1>5. {j} \union {k, l} = {j, k, l}
  OBVIOUS
<1>6. QED
  BY <1>4, <1>5 DEF Sidecar

LEMMA SealLists ==
  ASSUME NEW M, NEW f \in {"m.hpp", "libm.a", "app.so"}, NEW key, NEW n \in Nat,
         M[n] = <<"read", f>>, M[n + 1] = <<"open", Sum(f)>>, M[n + 2] = <<"put", Sum(f)>>,
         M[n + 3] = <<"read", f>>, M[n + 4] = <<"open", Sig(f)>>, M[n + 5] = <<"put", Sig(f)>>
  PROVE  Lists(Seal(f, key), M, {n, n + 1, n + 2} \union When(key # NoKey, {n + 3, n + 4, n + 5}))
<1>1. f \in PurrcFiles /\ Sum(f) \in PurrcFiles /\ Sig(f) \in PurrcFiles
  BY Places
<1>2. Lists(Sidecar(f, Sum(f)), M, {n, n + 1, n + 2})
  <2>1. n + 1 \in Nat /\ n + 2 \in Nat /\ n < n + 1 /\ n + 1 < n + 2
    OBVIOUS
  <2>2. QED
    BY <1>1, <2>1, SidecarLists
<1>3. Lists(Sidecar(f, Sig(f)), M, {n + 3, n + 4, n + 5})
  <2>1. n + 3 \in Nat /\ n + 4 \in Nat /\ n + 5 \in Nat /\ n + 3 < n + 4 /\ n + 4 < n + 5
    OBVIOUS
  <2>2. QED
    BY <1>1, <2>1, SidecarLists
<1> DEFINE s == Sidecar(f, Sig(f))
           W == {n + 3, n + 4, n + 5}
<1>4. Lists(IF key # NoKey THEN s ELSE << >>, M, When(key # NoKey, W))
  BY <1>3, ListsWhen
<1>5. (IF key # NoKey THEN s ELSE << >>) = (IF key = NoKey THEN << >> ELSE s)
  OBVIOUS
<1>6. \A v \in {n, n + 1, n + 2} : \A w \in When(key # NoKey, W) : v < w
  BY DEF When
<1>7. Lists(Sidecar(f, Sum(f)) \o (IF key = NoKey THEN << >> ELSE s), M,
            {n, n + 1, n + 2} \union When(key # NoKey, W))
  BY <1>2, <1>4, <1>5, <1>6, ListsJoin
<1>8. QED
  BY <1>7 DEF Seal

LEMMA LibScriptLists ==
  ASSUME NEW fl
  PROVE  Lists(LibScript(fl), LibSteps, LibAsked(fl))
<1> DEFINE M == LibSteps
           k == fl.key # NoKey
           s1 == << <<"source", "m.purr">> >> \o Write("m.hpp")
           s2 == s1 \o Write("m.impl")
           s3 == s2 \o << <<"archive", "libm.a">>, <<"remove", "m.impl">> >>
           s4 == s3 \o Seal("libm.a", fl.key)
<1>1. Lists(<< <<"source", "m.purr">> >>, M, {1})
  <2>1. <<"source", "m.purr">> \in Steps
    BY PiecesTyped, Places
  <2>2. QED
    BY <2>1, LibStepsAre, ListsOne
<1>2. Lists(Write("m.hpp"), M, {2, 3}) /\ Lists(Write("m.impl"), M, {4, 5})
  BY LibStepsAre, WriteLists, Places
<1>3. Lists(<< <<"archive", "libm.a">>, <<"remove", "m.impl">> >>, M, {6, 7})
  <2> DEFINE a == <<"archive", "libm.a">>
             b == <<"remove", "m.impl">>
  <2>1. a \in Steps /\ b \in Steps
    BY PiecesTyped, Places
  <2>2. M[6] = a /\ M[7] = b
    BY LibStepsAre
  <2> HIDE DEF a, b, M
  <2>3. Lists(<< a, b >>, M, {6, 7})
    BY <2>1, <2>2, ListsTwo
  <2>4. QED
    BY <2>3 DEF a, b
<1>4. Lists(Seal("libm.a", fl.key), M, {8, 9, 10} \union When(k, {11, 12, 13}))
  <2>1. /\ M[8] = <<"read", "libm.a">> /\ M[8 + 1] = <<"open", Sum("libm.a")>>
        /\ M[8 + 2] = <<"put", Sum("libm.a")>> /\ M[8 + 3] = <<"read", "libm.a">>
        /\ M[8 + 4] = <<"open", Sig("libm.a")>> /\ M[8 + 5] = <<"put", Sig("libm.a")>>
    BY LibStepsAre
  <2>2. Lists(Seal("libm.a", fl.key), M, {8, 8 + 1, 8 + 2} \union When(k, {8 + 3, 8 + 4, 8 + 5}))
    BY <2>1, SealLists
  <2>3. QED
    BY <2>2
<1>5. Lists(Seal("m.hpp", fl.key), M, {14, 15, 16} \union When(k, {17, 18, 19}))
  <2>1. /\ M[14] = <<"read", "m.hpp">> /\ M[14 + 1] = <<"open", Sum("m.hpp")>>
        /\ M[14 + 2] = <<"put", Sum("m.hpp")>> /\ M[14 + 3] = <<"read", "m.hpp">>
        /\ M[14 + 4] = <<"open", Sig("m.hpp")>> /\ M[14 + 5] = <<"put", Sig("m.hpp")>>
    BY LibStepsAre
  <2>2. Lists(Seal("m.hpp", fl.key), M, {14, 14 + 1, 14 + 2} \union When(k, {14 + 3, 14 + 4, 14 + 5}))
    BY <2>1, SealLists
  <2>3. QED
    BY <2>2
<1> HIDE DEF M, k
<1>6. Lists(s1, M, {1} \union {2, 3})
  BY <1>1, <1>2, ListsJoin
<1> HIDE DEF s1
<1>7. Lists(s2, M, {1} \union {2, 3} \union {4, 5})
  BY <1>2, <1>6, ListsJoin
<1> HIDE DEF s2
<1>8. Lists(s3, M, {1} \union {2, 3} \union {4, 5} \union {6, 7})
  BY <1>3, <1>7, ListsJoin
<1>9. {1} \union {2, 3} \union {4, 5} \union {6, 7} = {1, 2, 3, 4, 5, 6, 7}
  OBVIOUS
<1> DEFINE A == {1, 2, 3, 4, 5, 6, 7}
           B == {8, 9, 10} \union When(k, {11, 12, 13})
           C == {14, 15, 16} \union When(k, {17, 18, 19})
<1>10. Lists(s3, M, A)
  BY <1>8, <1>9
<1> HIDE DEF s3
<1>11. \A v \in A : \A w \in B : v < w
  BY DEF When
<1>12. \A v \in A \union B : \A w \in C : v < w
  BY DEF When
<1>13. Lists(s4, M, A \union B)
  BY <1>4, <1>10, <1>11, ListsJoin
<1> HIDE DEF s4
<1>14. Lists(s4 \o Seal("m.hpp", fl.key), M, (A \union B) \union C)
  BY <1>5, <1>12, <1>13, ListsJoin
<1>15. (A \union B) \union C = LibAsked(fl)
  BY DEF LibAsked, k
<1>16. QED
  BY <1>14, <1>15 DEF LibScript, M, s1, s2, s3, s4

LEMMA ProgScriptLists ==
  ASSUME NEW fl
  PROVE  Lists(ProgScript(fl), ProgSteps, ProgAsked(fl))
<1> DEFINE M == ProgSteps
           k == fl.key # NoKey
           c == fl.key # NoKey \/ fl.sum
           d == fl.rtkey # NoKey \/ fl.rt
           e == fl.rtkey # NoKey
           a1 == <<"resolve", "m.hpp">>
           a2 == <<"verify", "m.hpp">>
           a3 == <<"verify", "libm.a">>
           a4 == <<"backend", "app.so">>
           s1 == << a1, a2, a3, a4 >>
           t2 == IF c THEN Seal("app.so", fl.key) ELSE << >>
           t3 == IF d THEN << <<"manifest", "app.so.rt">> >> \o Write("app.so.rt") ELSE << >>
           t4 == IF e THEN Write("app.so.rt.sig") ELSE << >>
           A == {1, 2, 3, 4}
           B == When(c, {5, 6, 7} \union When(k, {8, 9, 10}))
           C == When(d, {11, 12, 13})
           D == When(e, {14, 15})
<1>1. Lists(s1, M, A)
  <2>1. a1 \in Steps /\ a2 \in Steps /\ a3 \in Steps /\ a4 \in Steps
    BY PiecesTyped, Places
  <2>2. M[1] = a1 /\ M[2] = a2 /\ M[3] = a3 /\ M[4] = a4
    BY ProgStepsAre
  <2> HIDE DEF a1, a2, a3, a4, M
  <2> DEFINE r == << 1, 2, 3, 4 >>
  <2>3. /\ s1 \in Seq(Steps) /\ Len(s1) = 4 /\ s1[1] = a1 /\ s1[2] = a2 /\ s1[3] = a3 /\ s1[4] = a4
        /\ r \in Seq(Nat) /\ Len(r) = 4 /\ r[1] = 1 /\ r[2] = 2 /\ r[3] = 3 /\ r[4] = 4
    BY <2>1
  <2> HIDE DEF r, s1
  <2>4. \A i \in 1 .. 4 : i = 1 \/ i = 2 \/ i = 3 \/ i = 4
    OBVIOUS
  <2>5. \A i \in 1 .. 4 : r[i] = i /\ s1[i] = M[i]
    BY <2>2, <2>3, <2>4
  <2>6. 1 .. 4 = A
    OBVIOUS
  <2>7. Left(r) = A
    BY <2>3, <2>5, <2>6 DEF Left
  <2>8. /\ \A i \in 1 .. 4 : s1[i] = M[r[i]]
        /\ \A i \in 1 .. 4 : \A j \in 1 .. 4 : i < j => r[i] < r[j]
    BY <2>5
  <2>9. Follows(s1, M, A, r)
    BY <2>3, <2>7, <2>8 DEF Follows
  <2>10. QED
    BY <2>7, <2>9 DEF Lists
<1>2. Lists(t2, M, B)
  <2>1. /\ M[5] = <<"read", "app.so">> /\ M[5 + 1] = <<"open", Sum("app.so")>>
        /\ M[5 + 2] = <<"put", Sum("app.so")>> /\ M[5 + 3] = <<"read", "app.so">>
        /\ M[5 + 4] = <<"open", Sig("app.so")>> /\ M[5 + 5] = <<"put", Sig("app.so")>>
    BY ProgStepsAre
  <2>2. Lists(Seal("app.so", fl.key), M, {5, 5 + 1, 5 + 2} \union When(k, {5 + 3, 5 + 4, 5 + 5}))
    BY <2>1, SealLists
  <2>3. Lists(Seal("app.so", fl.key), M, {5, 6, 7} \union When(k, {8, 9, 10}))
    BY <2>2
  <2>4. QED
    BY <2>3, ListsWhen
<1>3. Lists(t3, M, C)
  <2>1. <<"manifest", "app.so.rt">> \in Steps
    BY PiecesTyped, Places
  <2>2. Lists(<< <<"manifest", "app.so.rt">> >>, M, {11})
    BY <2>1, ProgStepsAre, ListsOne
  <2>3. Lists(Write("app.so.rt"), M, {12, 13})
    BY ProgStepsAre, WriteLists, Places
  <2>4. \A v \in {11} : \A w \in {12, 13} : v < w
    OBVIOUS
  <2>5. Lists(<< <<"manifest", "app.so.rt">> >> \o Write("app.so.rt"), M, {11} \union {12, 13})
    BY <2>2, <2>3, <2>4, ListsJoin
  <2>6. {11} \union {12, 13} = {11, 12, 13}
    OBVIOUS
  <2>7. QED
    BY <2>5, <2>6, ListsWhen
<1>4. Lists(t4, M, D)
  <2>1. Lists(Write("app.so.rt.sig"), M, {14, 15})
    BY ProgStepsAre, WriteLists, Places
  <2>2. QED
    BY <2>1, ListsWhen
<1>5. /\ \A v \in A : \A w \in B : v < w
      /\ \A v \in A \union B : \A w \in C : v < w
      /\ \A v \in (A \union B) \union C : \A w \in D : v < w
  BY DEF When
<1>6. ((A \union B) \union C) \union D = ProgAsked(fl)
  BY DEF ProgAsked, When
<1>7. s1 \o t2 \o t3 \o t4 = ProgScript(fl)
  BY DEF ProgScript
<1> HIDE DEF M, s1, t2, t3, t4, A, B, C, D
<1>8. Lists(s1 \o t2, M, A \union B)
  BY <1>1, <1>2, <1>5, ListsJoin
<1>9. Lists(s1 \o t2 \o t3, M, (A \union B) \union C)
  BY <1>3, <1>5, <1>8, ListsJoin
<1>10. Lists(s1 \o t2 \o t3 \o t4, M, ((A \union B) \union C) \union D)
  BY <1>4, <1>5, <1>9, ListsJoin
<1>11. QED
  BY <1>6, <1>7, <1>10 DEF M
-----------------------------------------------------------------------------
(* A run stands at n: what it is asked for up to n is done, the rest left. *)
Stands(s, M, W, n) ==
  \E r : Follows(s, M, W, r) /\ Left(r) = {w \in W : n < w}

LEMMA AskedTyped ==
  ASSUME NEW fl
  PROVE  LibAsked(fl) \subseteq 1 .. 19 /\ ProgAsked(fl) \subseteq 1 .. 15
  BY DEF LibAsked, ProgAsked, When

(* From n the run goes on to m, the next place asked for.                  *)
Reaches(s, M, W, n, m) ==
  /\ n < m /\ Head(s) = M[m] /\ \A w \in W : w < m => w <= n
  /\ Stands(Tail(s), M, W, m)

LEMMA Standing ==
  ASSUME NEW s, NEW M, NEW W, W \subseteq Nat \ {0}
  PROVE  /\ Lists(s, M, W) => Stands(s, M, W, 0)
         /\ \A n \in Nat : Stands(s, M, W, n) /\ s = << >> => \A w \in W : w <= n
         /\ \A n \in Nat : Stands(s, M, W, n) /\ s # << >> => \E m \in W : Reaches(s, M, W, n, m)
<1>1. ASSUME Lists(s, M, W) PROVE Stands(s, M, W, 0)
  <2>1. W = {w \in W : 0 < w}
    <3>1. \A w \in W : 0 < w
      <4> TAKE w \in W
      <4>1. w \in Nat /\ w # 0
        OBVIOUS
      <4>2. QED
        BY <4>1
    <3>2. QED
      BY <3>1
  <2>2. QED
    BY <1>1, <2>1 DEF Lists, Stands
<1>2. ASSUME NEW n \in Nat, Stands(s, M, W, n), s = << >> PROVE \A w \in W : w <= n
  <2>1. PICK r : Follows(s, M, W, r) /\ Left(r) = {w \in W : n < w}
    BY <1>2 DEF Stands
  <2>2. r \in Seq(Nat) /\ Len(r) = 0
    BY <1>2, <2>1 DEF Follows
  <2>3. Left(r) = {}
    <3>1. r = << >>
      BY <2>2
    <3>2. QED
      BY <2>2, <3>1, LeftIs
  <2>4. QED
    BY <2>1, <2>3
<1>3. ASSUME NEW n \in Nat, Stands(s, M, W, n), s # << >>
      PROVE  \E m \in W : Reaches(s, M, W, n, m)
  <2>1. PICK r : Follows(s, M, W, r) /\ Left(r) = {w \in W : n < w}
    BY <1>3 DEF Stands
  <2>2. PICK m \in W :
          /\ m \in Left(r) /\ m \in Nat /\ Head(s) = M[m]
          /\ \A q \in Left(r) : m <= q
          /\ \A w \in W : m < w => w \in Left(r)
          /\ Follows(Tail(s), M, W, Tail(r)) /\ Left(Tail(r)) = Left(r) \ {m}
    <3>1. \E m \in W : Takes(s, M, W, r, m)
      BY <1>3, <2>1, FollowsTail
    <3>2. QED
      BY <3>1 DEF Takes
  <2>3. n < m
    BY <2>1, <2>2
  <2>4. \A w \in W : w < m => w <= n
    BY <2>1, <2>2
  <2>5. Left(Tail(r)) = {w \in W : m < w}
    <3>1. \A w \in W : w \in Nat /\ (m < w => n < w) /\ (n < w /\ w # m => m < w)
      BY <2>1, <2>2, <2>3
    <3>2. \A w : w \in Left(Tail(r)) <=> w \in W /\ n < w /\ w # m
      BY <2>1, <2>2
    <3>3. \A w \in W : n < w /\ w # m <=> m < w
      BY <2>2, <3>1
    <3>4. QED
      BY <3>2, <3>3
  <2>6. Stands(Tail(s), M, W, m)
    BY <2>2, <2>5 DEF Stands
  <2>7. Reaches(s, M, W, n, m)
    BY <2>2, <2>3, <2>4, <2>6 DEF Reaches
  <2>8. QED
    BY <2>7
<1>4. QED
  BY <1>1, <1>2, <1>3

(* The place before m that is asked for, and whether one follows.          *)
LEMMA LibPlaces ==
  ASSUME NEW fl, NEW n \in Nat, NEW m \in LibAsked(fl), n < m,
         \A w \in LibAsked(fl) : w < m => w <= n
  PROVE  /\ m \in 1 .. 19
         /\ m # 14 => n = m - 1
         /\ m = 14 => 10 <= n /\ (fl.key # NoKey => n = 13)
         /\ m \notin {10, 13, 16, 19} => m + 1 \in LibAsked(fl)
         /\ m \in {11, 12, 13, 17, 18, 19} => fl.key # NoKey
<1>1. CASE fl.key # NoKey
  <2>1. LibAsked(fl) = 1 .. 19
    BY <1>1 DEF LibAsked, When
  <2>2. m \in 1 .. 19 /\ \A w \in 1 .. 19 : w < m => w <= n
    BY <2>1
  <2>3. n = m - 1
    <3>1. m = 1 \/ m - 1 \in 1 .. 19
      BY <2>2
    <3>2. QED
      BY <2>2, <3>1
  <2>4. m # 19 => m + 1 \in 1 .. 19
    BY <2>2
  <2>5. QED
    BY <1>1, <2>1, <2>2, <2>3, <2>4
<1>2. CASE fl.key = NoKey
  <2>1. LibAsked(fl) = {1, 2, 3, 4, 5, 6, 7, 8, 9, 10, 14, 15, 16}
    BY <1>2 DEF LibAsked, When
  <2>2. /\ m \in {1, 2, 3, 4, 5, 6, 7, 8, 9, 10, 14, 15, 16}
        /\ \A w \in {1, 2, 3, 4, 5, 6, 7, 8, 9, 10, 14, 15, 16} : w < m => w <= n
    BY <2>1
  <2>3. (m # 14 => n = m - 1) /\ (m = 14 => 10 <= n)
    BY <2>2
  <2>4. m \notin {10, 16} => m + 1 \in {1, 2, 3, 4, 5, 6, 7, 8, 9, 10, 14, 15, 16}
    BY <2>2
  <2>5. m \in 1 .. 19 /\ m \notin {11, 12, 13, 17, 18, 19}
    BY <2>2
  <2>6. QED
    BY <1>2, <2>1, <2>3, <2>4, <2>5
<1>3. QED
  BY <1>1, <1>2

LEMMA ProgPlaces ==
  ASSUME NEW fl, NEW n \in Nat, NEW m \in ProgAsked(fl), n < m,
         \A w \in ProgAsked(fl) : w < m => w <= n
  PROVE  /\ m \in 1 .. 15
         /\ m # 11 => n = m - 1
         /\ m = 11 => 4 <= n /\ (fl.key # NoKey \/ fl.sum => 7 <= n) /\ (fl.key # NoKey => 10 <= n)
         /\ m \in {1, 2, 3, 5, 6, 8, 9, 11, 12, 14} => m + 1 \in ProgAsked(fl)
         /\ m = 13 /\ fl.rtkey # NoKey => m + 1 \in ProgAsked(fl)
<1> DEFINE k == fl.key # NoKey
           c == fl.key # NoKey \/ fl.sum
           d == fl.rtkey # NoKey \/ fl.rt
           e == fl.rtkey # NoKey
           W == ProgAsked(fl)
<1>1. /\ {1, 2, 3, 4} \subseteq W
      /\ c => {5, 6, 7} \subseteq W
      /\ k => {8, 9, 10} \subseteq W
      /\ d => {11, 12, 13} \subseteq W
      /\ e => {14, 15} \subseteq W
  BY DEF ProgAsked, When
<1>2. /\ m \in 1 .. 15
      /\ m \in {5, 6, 7} => c
      /\ m \in {8, 9, 10} => k
      /\ m \in {11, 12, 13} => d
      /\ m \in {14, 15} => e
  BY DEF ProgAsked, When
<1>3. (k => c) /\ (e => d)
  OBVIOUS
<1>4. \A w \in W : w < m => w <= n
  OBVIOUS
<1> HIDE DEF k, c, d, e, W
<1>5. m # 11 => n = m - 1
  <2>1. m \in {2, 3, 4, 6, 7, 8, 9, 10, 12, 13, 14, 15, 5} => m - 1 \in W
    BY <1>1, <1>2, <1>3
  <2>2. QED
    BY <1>2, <1>4, <2>1
<1>6. m = 11 => 4 <= n /\ (c => 7 <= n) /\ (k => 10 <= n)
  BY <1>1, <1>4
<1>7. m \in {1, 2, 3, 5, 6, 8, 9, 11, 12, 14} \/ (m = 13 /\ e) => m + 1 \in W
  BY <1>1, <1>2
<1>8. QED
  BY <1>2, <1>5, <1>6, <1>7 DEF k, c, e, W
-----------------------------------------------------------------------------
Sources == [api : Nat, body : Nat]
Headers == [api : Nat]

(* The versions of m on disk: the header the checksum is of is none newer  *)
(* than the archive, the archive none newer than the header, nothing newer *)
(* than the source. What a lost write left says nothing.                   *)
Dated(F) ==
  /\ F["m.purr"] \in Sources
  /\ F["m.hpp"] \in Headers \union {Absent, Empty}
  /\ F["libm.a"] \in Sources \union {Absent, Empty}
  /\ F["m.hpp"] \in Headers => F["m.hpp"].api <= F["m.purr"].api
  /\ F["libm.a"] \in Sources => F["libm.a"].api <= F["m.purr"].api
  /\ F["libm.a"] \in Sources /\ F["m.hpp"] \in Headers => F["libm.a"].api <= F["m.hpp"].api
  /\ \A c \in Headers : F["m.hpp.sha512"] = Digest(c) =>
       c.api <= F["m.purr"].api /\ (F["libm.a"] \in Sources => c.api <= F["libm.a"].api)

(* What an emission that stands at n has achieved, with the key k, h held  *)
(* and the writes l lost.                                                  *)
LibFacts(n, k, h, l, F) ==
  /\ 1 <= n /\ n < 6 => /\ h \in Sources /\ h.api <= F["m.purr"].api
                        /\ F["libm.a"] \in Sources => F["libm.a"].api <= h.api
                        /\ \A c \in Headers : F["m.hpp.sha512"] = Digest(c) => c.api <= h.api
  /\ n = 2 => F["m.hpp"] = Empty
  /\ 3 <= n /\ n < 6 => F["m.hpp"] \in {[api |-> h.api], Empty}
  /\ n = 4 => F["m.impl"] = Empty
  /\ n = 5 => F["m.impl"] \in {h, Empty}
  /\ 6 <= n => /\ F["m.hpp"] \in Headers \union {Empty} /\ F["libm.a"] \in Sources \union {Empty}
               /\ F["m.hpp"] \in Headers /\ F["libm.a"] \in Sources => F["libm.a"].api = F["m.hpp"].api
  /\ 8 <= n /\ n < 10 => h = F["libm.a"]
  /\ 10 <= n => "libm.a.sha512" \in l \/ F["libm.a.sha512"] = Digest(F["libm.a"])
  /\ 11 <= n /\ n < 13 => h = F["libm.a"]
  /\ 13 <= n /\ k # NoKey => "libm.a.sig" \in l \/ F["libm.a.sig"] = <<k, F["libm.a"]>>
  /\ 14 <= n /\ n < 16 => h = F["m.hpp"]
  /\ 16 <= n => "m.hpp.sha512" \in l \/ F["m.hpp.sha512"] = Digest(F["m.hpp"])
  /\ 17 <= n /\ n < 19 => h = F["m.hpp"]
  /\ 19 <= n /\ k # NoKey => "m.hpp.sig" \in l \/ F["m.hpp.sig"] = <<k, F["m.hpp"]>>

LibInv ==
  result["lib"] \in {"running", "ok"} =>
    \E n \in Nat : /\ Stands(run["lib"].todo, LibSteps, LibAsked(run["lib"].flags), n)
                   /\ LibFacts(n, run["lib"].flags.key, run["lib"].held, run["lib"].lost, fs)

(* What a program build that stands at n has achieved: the sidecars, and   *)
(* of the library it uses, when it was alone with it.                      *)
ProgFacts(n, fl, h, l, F) ==
  /\ 4 <= n => F["app.so"].by = [toolchain |-> fl.toolchain]
  /\ 5 <= n /\ n < 7 => h = F["app.so"]
  /\ 7 <= n /\ (fl.key # NoKey \/ fl.sum) => "app.so.sha512" \in l \/ F["app.so.sha512"] = Digest(F["app.so"])
  /\ 8 <= n /\ n < 10 => h = F["app.so"]
  /\ 10 <= n /\ fl.key # NoKey => "app.so.sig" \in l \/ F["app.so.sig"] = <<fl.key, F["app.so"]>>
  /\ 11 <= n /\ n < 13 => h = [toolchain |-> fl.toolchain]
  /\ 13 <= n /\ n < 15 /\ fl.rtkey # NoKey => h = [toolchain |-> fl.toolchain]
  /\ 13 <= n /\ (fl.rtkey # NoKey \/ fl.rt) => "app.so.rt" \in l \/ F["app.so.rt"] = F["app.so"].by
  /\ 15 <= n /\ fl.rtkey # NoKey =>
       "app.so.rt.sig" \in l \/ F["app.so.rt.sig"] = <<fl.rtkey, F["app.so"].by>>

LibraryFacts(n, im, F) ==
  im.signedLib =>
    /\ 2 <= n /\ n < 4 => F["m.hpp.sha512"] = Digest(F["m.hpp"])
    /\ 4 <= n /\ im.archive \notin {Absent, Empty} => im.archive.api = im.header.api

ProgInv ==
  result["prog"] \in {"running", "ok"} =>
    \E n \in Nat : /\ Stands(run["prog"].todo, ProgSteps, ProgAsked(run["prog"].flags), n)
                   /\ ProgFacts(n, run["prog"].flags, run["prog"].held, run["prog"].lost, fs)
                   /\ ~raced => LibraryFacts(n, imported, fs)

(* A build that was alone with the library still is.                       *)
Alone == result["prog"] = "running" /\ ~raced => run["lib"].todo = << >>

RunsEnd ==
  /\ DOMAIN result = Process
  /\ \A p \in Process : /\ result[p] \in {"none", "running", "ok", "failed"}
                        /\ (result[p] = "running") <=> run[p].todo # << >>
  /\ run["lib"].flags = NoFlags \/ run["lib"].flags \in LibFlags
  /\ DOMAIN imported = {"header", "archive", "signedLib"}
-----------------------------------------------------------------------------
(* The emission, one write at a time.                                      *)
LibFiles == {"m.purr", "m.hpp", "m.hpp.sha512", "m.hpp.sig", "m.impl",
             "libm.a", "libm.a.sha512", "libm.a.sig"}

(* n is the place before m that an emission with the key k was asked for.  *)
LibBefore(n, m, k) == /\ m # 14 => n = m - 1
                      /\ m = 14 => 10 <= n /\ n < 14 /\ (k # NoKey => n = 13)

(* What f holds (c) once the emission has done m, holding h, and with the  *)
(* writes l lost by then: a sidecar whose write was not lost is as it was  *)
(* computed.                                                               *)
LibWrites(m, f, c, k, h, l, F) ==
  \/ m = 2 /\ f = "m.hpp" /\ c = Empty
  \/ m = 3 /\ f = "m.hpp" /\ c \in {[api |-> h.api], F["m.hpp"]}
  \/ m = 4 /\ f = "m.impl" /\ c = Empty
  \/ m = 5 /\ f = "m.impl" /\ c \in {h, F["m.impl"]}
  \/ m = 6 /\ f = "libm.a" /\ c = F["m.impl"]
  \/ m = 7 /\ f = "m.impl"
  \/ m = 9 /\ f = "libm.a.sha512"
  \/ m = 10 /\ f = "libm.a.sha512" /\ (f \in l \/ c = Digest(h))
  \/ m = 12 /\ f = "libm.a.sig"
  \/ m = 13 /\ f = "libm.a.sig" /\ (f \in l \/ c = <<k, h>>)
  \/ m = 15 /\ f = "m.hpp.sha512" /\ c \in {Empty, F["m.hpp.sha512"]}
  \/ m = 16 /\ f = "m.hpp.sha512" /\ ((f \in l /\ c = F["m.hpp.sha512"]) \/ c = Digest(h))
  \/ m = 18 /\ f = "m.hpp.sig"
  \/ m = 19 /\ f = "m.hpp.sig" /\ (f \in l \/ c = <<k, h>>)

LEMMA Texts ==
  /\ Absent \notin Headers /\ Empty \notin Headers /\ Absent \notin Sources /\ Empty \notin Sources
  /\ \A t \in Headers \union Sources \union {Absent, Empty} : \A c \in {Absent, Empty} :
       Digest(t) # c /\ \A k \in Keys : <<k, t>> # c
  /\ \A s, t : Digest(s) = Digest(t) => s = t
<1> DEFINE all == Headers \union Sources \union {Absent, Empty}
<1>1. \A c \in {Absent, Empty} : c \notin Headers \union Sources /\ c \notin Keys \X all /\ c \notin [of : all]
  BY PurrcAssumption DEF Headers, Sources
<1>2. \A t \in all : Digest(t) \in [of : all] /\ \A k \in Keys : <<k, t>> \in Keys \X all
  BY DEF Digest
<1>3. ASSUME NEW s, NEW t, Digest(s) = Digest(t) PROVE s = t
  <2>1. Digest(s).of = s /\ Digest(t).of = t
    BY DEF Digest
  <2>2. QED
    BY <1>3, <2>1
<1>4. QED
  BY <1>1, <1>2, <1>3

LEMMA LibWriteMoves ==
  ASSUME NEW F, NEW G, NEW f, NEW c, NEW k, NEW h, NEW l, NEW l1, l \subseteq l1,
         NEW n \in Nat, NEW m \in Nat,
         LibBefore(n, m, k), LibFacts(n, k, h, l, F), Dated(F), LibWrites(m, f, c, k, h, l1, F),
         G[f] = c, \A g \in LibFiles : g # f => G[g] = F[g]
  PROVE  /\ \A h1 : (m \notin {10, 13, 16, 19} => h1 = h) => LibFacts(m, k, h1, l1, G)
         /\ Dated(G)
<1> SUFFICES ASSUME NEW h1, m \notin {10, 13, 16, 19} => h1 = h PROVE LibFacts(m, k, h1, l1, G) /\ Dated(G)
  OBVIOUS
<1>0. \A g : g \in l => g \in l1
  OBVIOUS
<1>1. CASE m = 2 /\ f = "m.hpp" /\ c = Empty
  <2>1. n = 1 /\ G["m.hpp"] = c
    BY <1>1 DEF LibBefore
  <2>2. /\ G["m.purr"] = F["m.purr"] /\ G["m.hpp.sha512"] = F["m.hpp.sha512"] /\ G["m.hpp.sig"] = F["m.hpp.sig"]
        /\ G["m.impl"] = F["m.impl"] /\ G["libm.a"] = F["libm.a"] /\ G["libm.a.sha512"] = F["libm.a.sha512"]
        /\ G["libm.a.sig"] = F["libm.a.sig"]
    BY <1>1 DEF LibFiles
  <2>3. LibFacts(m, k, h1, l1, G)
    BY <1>0, <1>1, <2>1, <2>2, Texts DEF LibFacts
  <2>4. Dated(G)
    BY <1>1, <2>1, <2>2, Texts DEF LibFacts, Dated, Headers, Sources
  <2>5. QED
    BY <2>3, <2>4
<1>2. CASE m = 3 /\ f = "m.hpp" /\ c \in {[api |-> h.api], F["m.hpp"]}
  <2>1. n = 2 /\ G["m.hpp"] = c
    BY <1>2 DEF LibBefore
  <2>2. /\ G["m.purr"] = F["m.purr"] /\ G["m.hpp.sha512"] = F["m.hpp.sha512"] /\ G["m.hpp.sig"] = F["m.hpp.sig"]
        /\ G["m.impl"] = F["m.impl"] /\ G["libm.a"] = F["libm.a"] /\ G["libm.a.sha512"] = F["libm.a.sha512"]
        /\ G["libm.a.sig"] = F["libm.a.sig"]
    BY <1>2 DEF LibFiles
  <2>3. LibFacts(m, k, h1, l1, G)
    BY <1>0, <1>2, <2>1, <2>2, Texts DEF LibFacts
  <2>4. Dated(G)
    <3>1. /\ h \in Sources /\ h.api <= F["m.purr"].api
          /\ F["libm.a"] \in Sources => F["libm.a"].api <= h.api
          /\ F["m.hpp"] = Empty
      <4>1. 1 <= n /\ n < 6 /\ n = 2
        BY <2>1
      <4>2. QED
        BY <4>1 DEF LibFacts
    <3> DEFINE d == [api |-> h.api]
    <3>2. d \in Headers /\ d.api = h.api
      BY <3>1 DEF Headers, Sources
    <3>3. G["m.hpp"] \in {d, Empty}
      BY <1>2, <2>1, <3>1
    <3> HIDE DEF d
    <3>4. QED
      BY <2>2, <3>1, <3>2, <3>3, Texts DEF Dated
  <2>5. QED
    BY <2>3, <2>4
<1>3. CASE m = 4 /\ f = "m.impl" /\ c = Empty
  <2>1. n = 3 /\ G["m.impl"] = c
    BY <1>3 DEF LibBefore
  <2>2. /\ G["m.purr"] = F["m.purr"] /\ G["m.hpp"] = F["m.hpp"] /\ G["m.hpp.sha512"] = F["m.hpp.sha512"]
        /\ G["m.hpp.sig"] = F["m.hpp.sig"] /\ G["libm.a"] = F["libm.a"] /\ G["libm.a.sha512"] = F["libm.a.sha512"]
        /\ G["libm.a.sig"] = F["libm.a.sig"]
    BY <1>3 DEF LibFiles
  <2>3. LibFacts(m, k, h1, l1, G)
    BY <1>0, <1>3, <2>1, <2>2, Texts DEF LibFacts
  <2>4. Dated(G)
    BY <1>3, <2>1, <2>2, Texts DEF LibFacts, Dated, Headers, Sources
  <2>5. QED
    BY <2>3, <2>4
<1>4. CASE m = 5 /\ f = "m.impl" /\ c \in {h, F["m.impl"]}
  <2>1. n = 4 /\ G["m.impl"] = c
    BY <1>4 DEF LibBefore
  <2>2. /\ G["m.purr"] = F["m.purr"] /\ G["m.hpp"] = F["m.hpp"] /\ G["m.hpp.sha512"] = F["m.hpp.sha512"]
        /\ G["m.hpp.sig"] = F["m.hpp.sig"] /\ G["libm.a"] = F["libm.a"] /\ G["libm.a.sha512"] = F["libm.a.sha512"]
        /\ G["libm.a.sig"] = F["libm.a.sig"]
    BY <1>4 DEF LibFiles
  <2>3. LibFacts(m, k, h1, l1, G)
    BY <1>0, <1>4, <2>1, <2>2, Texts DEF LibFacts
  <2>4. Dated(G)
    BY <1>4, <2>1, <2>2, Texts DEF LibFacts, Dated, Headers, Sources
  <2>5. QED
    BY <2>3, <2>4
<1>5. CASE m = 6 /\ f = "libm.a" /\ c = F["m.impl"]
  <2>1. n = 5 /\ G["libm.a"] = c
    BY <1>5 DEF LibBefore
  <2>2. /\ G["m.purr"] = F["m.purr"] /\ G["m.hpp"] = F["m.hpp"] /\ G["m.hpp.sha512"] = F["m.hpp.sha512"]
        /\ G["m.hpp.sig"] = F["m.hpp.sig"] /\ G["m.impl"] = F["m.impl"] /\ G["libm.a.sha512"] = F["libm.a.sha512"]
        /\ G["libm.a.sig"] = F["libm.a.sig"]
    BY <1>5 DEF LibFiles
  <2>3. /\ h \in Sources /\ h.api <= F["m.purr"].api /\ h.api \in Nat
        /\ \A d \in Headers : F["m.hpp.sha512"] = Digest(d) => d.api <= h.api
        /\ F["m.hpp"] \in {[api |-> h.api], Empty} /\ F["m.impl"] \in {h, Empty}
    <3>1. 1 <= n /\ 3 <= n /\ n < 6 /\ n = 5
      BY <2>1
    <3>2. /\ h \in Sources /\ h.api <= F["m.purr"].api
          /\ \A d \in Headers : F["m.hpp.sha512"] = Digest(d) => d.api <= h.api
          /\ F["m.hpp"] \in {[api |-> h.api], Empty} /\ F["m.impl"] \in {h, Empty}
      BY <3>1 DEF LibFacts
    <3>3. h.api \in Nat
      BY <3>2 DEF Sources
    <3>4. QED
      BY <3>2, <3>3
  <2>4. [api |-> h.api] \in Headers /\ [api |-> h.api].api = h.api
    BY <2>3 DEF Headers
  <2>5. G["m.hpp"] \in {[api |-> h.api], Empty} /\ G["libm.a"] \in {h, Empty}
    BY <1>5, <2>1, <2>2, <2>3
  <2>6. LibFacts(m, k, h1, l1, G)
    BY <1>5, <2>3, <2>4, <2>5, Texts DEF LibFacts
  <2>7. Dated(G)
    <3> DEFINE d == [api |-> h.api]
    <3>1. d \in Headers /\ d.api = h.api /\ G["m.hpp"] \in {d, Empty}
      BY <2>4, <2>5
    <3> HIDE DEF d
    <3>2. QED
      BY <2>2, <2>3, <2>5, <3>1, Texts DEF Dated
  <2>8. QED
    BY <2>6, <2>7
<1>6. CASE m = 7 /\ f = "m.impl"
  <2>1. n = 6 /\ G["m.impl"] = c
    BY <1>6 DEF LibBefore
  <2>2. /\ G["m.purr"] = F["m.purr"] /\ G["m.hpp"] = F["m.hpp"] /\ G["m.hpp.sha512"] = F["m.hpp.sha512"]
        /\ G["m.hpp.sig"] = F["m.hpp.sig"] /\ G["libm.a"] = F["libm.a"] /\ G["libm.a.sha512"] = F["libm.a.sha512"]
        /\ G["libm.a.sig"] = F["libm.a.sig"]
    BY <1>6 DEF LibFiles
  <2>3. LibFacts(m, k, h1, l1, G)
    BY <1>0, <1>6, <2>1, <2>2, Texts DEF LibFacts
  <2>4. Dated(G)
    BY <1>6, <2>1, <2>2, Texts DEF LibFacts, Dated, Headers, Sources
  <2>5. QED
    BY <2>3, <2>4
<1>7. CASE m = 9 /\ f = "libm.a.sha512"
  <2>1. n = 8 /\ G["libm.a.sha512"] = c
    BY <1>7 DEF LibBefore
  <2>2. /\ G["m.purr"] = F["m.purr"] /\ G["m.hpp"] = F["m.hpp"] /\ G["m.hpp.sha512"] = F["m.hpp.sha512"]
        /\ G["m.hpp.sig"] = F["m.hpp.sig"] /\ G["m.impl"] = F["m.impl"] /\ G["libm.a"] = F["libm.a"]
        /\ G["libm.a.sig"] = F["libm.a.sig"]
    BY <1>7 DEF LibFiles
  <2>3. LibFacts(m, k, h1, l1, G)
    BY <1>0, <1>7, <2>1, <2>2, Texts DEF LibFacts
  <2>4. Dated(G)
    BY <1>7, <2>1, <2>2, Texts DEF LibFacts, Dated, Headers, Sources
  <2>5. QED
    BY <2>3, <2>4
<1>8. CASE m = 10 /\ f = "libm.a.sha512" /\ (f \in l1 \/ c = Digest(h))
  <2>1. n = 9 /\ G["libm.a.sha512"] = c
    BY <1>8 DEF LibBefore
  <2>2. /\ G["m.purr"] = F["m.purr"] /\ G["m.hpp"] = F["m.hpp"] /\ G["m.hpp.sha512"] = F["m.hpp.sha512"]
        /\ G["m.hpp.sig"] = F["m.hpp.sig"] /\ G["m.impl"] = F["m.impl"] /\ G["libm.a"] = F["libm.a"]
        /\ G["libm.a.sig"] = F["libm.a.sig"]
    BY <1>8 DEF LibFiles
  <2>3. LibFacts(m, k, h1, l1, G)
    BY <1>0, <1>8, <2>1, <2>2, Texts DEF LibFacts
  <2>4. Dated(G)
    BY <1>8, <2>1, <2>2, Texts DEF LibFacts, Dated, Headers, Sources
  <2>5. QED
    BY <2>3, <2>4
<1>9. CASE m = 12 /\ f = "libm.a.sig"
  <2>1. n = 11 /\ G["libm.a.sig"] = c
    BY <1>9 DEF LibBefore
  <2>2. /\ G["m.purr"] = F["m.purr"] /\ G["m.hpp"] = F["m.hpp"] /\ G["m.hpp.sha512"] = F["m.hpp.sha512"]
        /\ G["m.hpp.sig"] = F["m.hpp.sig"] /\ G["m.impl"] = F["m.impl"] /\ G["libm.a"] = F["libm.a"]
        /\ G["libm.a.sha512"] = F["libm.a.sha512"]
    BY <1>9 DEF LibFiles
  <2>3. LibFacts(m, k, h1, l1, G)
    BY <1>0, <1>9, <2>1, <2>2, Texts DEF LibFacts
  <2>4. Dated(G)
    BY <1>9, <2>1, <2>2, Texts DEF LibFacts, Dated, Headers, Sources
  <2>5. QED
    BY <2>3, <2>4
<1>10. CASE m = 13 /\ f = "libm.a.sig" /\ (f \in l1 \/ c = <<k, h>>)
  <2>1. n = 12 /\ G["libm.a.sig"] = c
    BY <1>10 DEF LibBefore
  <2>2. /\ G["m.purr"] = F["m.purr"] /\ G["m.hpp"] = F["m.hpp"] /\ G["m.hpp.sha512"] = F["m.hpp.sha512"]
        /\ G["m.hpp.sig"] = F["m.hpp.sig"] /\ G["m.impl"] = F["m.impl"] /\ G["libm.a"] = F["libm.a"]
        /\ G["libm.a.sha512"] = F["libm.a.sha512"]
    BY <1>10 DEF LibFiles
  <2>3. LibFacts(m, k, h1, l1, G)
    BY <1>0, <1>10, <2>1, <2>2, Texts DEF LibFacts
  <2>4. Dated(G)
    BY <1>10, <2>1, <2>2, Texts DEF LibFacts, Dated, Headers, Sources
  <2>5. QED
    BY <2>3, <2>4
<1>11. CASE m = 15 /\ f = "m.hpp.sha512" /\ c \in {Empty, F["m.hpp.sha512"]}
  <2>1. n = 14 /\ G["m.hpp.sha512"] = c
    BY <1>11 DEF LibBefore
  <2>2. /\ G["m.purr"] = F["m.purr"] /\ G["m.hpp"] = F["m.hpp"] /\ G["m.hpp.sig"] = F["m.hpp.sig"]
        /\ G["m.impl"] = F["m.impl"] /\ G["libm.a"] = F["libm.a"] /\ G["libm.a.sha512"] = F["libm.a.sha512"]
        /\ G["libm.a.sig"] = F["libm.a.sig"]
    BY <1>11 DEF LibFiles
  <2>3. LibFacts(m, k, h1, l1, G)
    BY <1>0, <1>11, <2>1, <2>2, Texts DEF LibFacts
  <2>4. Dated(G)
    BY <1>11, <2>1, <2>2, Texts DEF LibFacts, Dated, Headers, Sources
  <2>5. QED
    BY <2>3, <2>4
<1>12. CASE m = 16 /\ f = "m.hpp.sha512" /\ ((f \in l1 /\ c = F["m.hpp.sha512"]) \/ c = Digest(h))
  <2>1. n = 15 /\ G["m.hpp.sha512"] = c
    BY <1>12 DEF LibBefore
  <2>2. /\ G["m.purr"] = F["m.purr"] /\ G["m.hpp"] = F["m.hpp"] /\ G["m.hpp.sig"] = F["m.hpp.sig"]
        /\ G["m.impl"] = F["m.impl"] /\ G["libm.a"] = F["libm.a"] /\ G["libm.a.sha512"] = F["libm.a.sha512"]
        /\ G["libm.a.sig"] = F["libm.a.sig"]
    BY <1>12 DEF LibFiles
  <2>3. LibFacts(m, k, h1, l1, G)
    BY <1>0, <1>12, <2>1, <2>2, Texts DEF LibFacts
  <2>4. Dated(G)
    BY <1>12, <2>1, <2>2, Texts DEF LibFacts, Dated, Headers, Sources
  <2>5. QED
    BY <2>3, <2>4
<1>13. CASE m = 18 /\ f = "m.hpp.sig"
  <2>1. n = 17 /\ G["m.hpp.sig"] = c
    BY <1>13 DEF LibBefore
  <2>2. /\ G["m.purr"] = F["m.purr"] /\ G["m.hpp"] = F["m.hpp"] /\ G["m.hpp.sha512"] = F["m.hpp.sha512"]
        /\ G["m.impl"] = F["m.impl"] /\ G["libm.a"] = F["libm.a"] /\ G["libm.a.sha512"] = F["libm.a.sha512"]
        /\ G["libm.a.sig"] = F["libm.a.sig"]
    BY <1>13 DEF LibFiles
  <2>3. LibFacts(m, k, h1, l1, G)
    BY <1>0, <1>13, <2>1, <2>2, Texts DEF LibFacts
  <2>4. Dated(G)
    BY <1>13, <2>1, <2>2, Texts DEF LibFacts, Dated, Headers, Sources
  <2>5. QED
    BY <2>3, <2>4
<1>14. CASE m = 19 /\ f = "m.hpp.sig" /\ (f \in l1 \/ c = <<k, h>>)
  <2>1. n = 18 /\ G["m.hpp.sig"] = c
    BY <1>14 DEF LibBefore
  <2>2. /\ G["m.purr"] = F["m.purr"] /\ G["m.hpp"] = F["m.hpp"] /\ G["m.hpp.sha512"] = F["m.hpp.sha512"]
        /\ G["m.impl"] = F["m.impl"] /\ G["libm.a"] = F["libm.a"] /\ G["libm.a.sha512"] = F["libm.a.sha512"]
        /\ G["libm.a.sig"] = F["libm.a.sig"]
    BY <1>14 DEF LibFiles
  <2>3. LibFacts(m, k, h1, l1, G)
    BY <1>0, <1>14, <2>1, <2>2, Texts DEF LibFacts
  <2>4. Dated(G)
    BY <1>14, <2>1, <2>2, Texts DEF LibFacts, Dated, Headers, Sources
  <2>5. QED
    BY <2>3, <2>4
<1>15. QED
  BY <1>1, <1>2, <1>3, <1>4, <1>5, <1>6, <1>7, <1>8, <1>9, <1>10, <1>11, <1>12, <1>13, <1>14 DEF LibWrites

LEMMA LibReadMoves ==
  ASSUME NEW F, NEW f, NEW k, NEW h, NEW l, NEW n \in Nat, NEW m \in Nat,
         LibBefore(n, m, k), LibFacts(n, k, h, l, F), Dated(F),
         \/ m = 1 /\ f = "m.purr"
         \/ m \in {8, 11} /\ f = "libm.a"
         \/ m \in {14, 17} /\ f = "m.hpp"
  PROVE  LibFacts(m, k, F[f], l, F)
<1>1. CASE m = 1 /\ f = "m.purr"
  <2>1. F[f] \in Sources /\ F[f].api \in Nat
    BY <1>1 DEF Dated, Sources
  <2>2. QED
    BY <1>1, <2>1 DEF LibFacts, Dated, Sources
<1>2. CASE m = 8 /\ f = "libm.a"
  BY <1>2 DEF LibFacts, LibBefore
<1>3. CASE m = 11 /\ f = "libm.a"
  BY <1>3 DEF LibFacts, LibBefore
<1>4. CASE m = 14 /\ f = "m.hpp"
  BY <1>4 DEF LibFacts, LibBefore
<1>5. CASE m = 17 /\ f = "m.hpp"
  BY <1>5 DEF LibFacts, LibBefore
<1>6. QED
  BY <1>1, <1>2, <1>3, <1>4, <1>5

-----------------------------------------------------------------------------
(* The program build, one write at a time.                                 *)
AppFiles == {"app.so", "app.so.sha512", "app.so.sig", "app.so.rt", "app.so.rt.sig"}

ProgBefore(n, m, fl) ==
  /\ m # 11 => n = m - 1
  /\ m = 11 => 4 <= n /\ n < 11 /\ (fl.key # NoKey \/ fl.sum => 7 <= n) /\ (fl.key # NoKey => 10 <= n)

ProgWrites(m, f, c, fl, h, l) ==
  \/ m = 4 /\ f = "app.so" /\ c.by = [toolchain |-> fl.toolchain]
  \/ m = 6 /\ f = "app.so.sha512"
  \/ m = 7 /\ f = "app.so.sha512" /\ (f \in l \/ c = Digest(h))
  \/ m = 9 /\ f = "app.so.sig"
  \/ m = 10 /\ f = "app.so.sig" /\ (f \in l \/ c = <<fl.key, h>>)
  \/ m = 12 /\ f = "app.so.rt"
  \/ m = 13 /\ f = "app.so.rt" /\ (f \in l \/ c = h)
  \/ m = 14 /\ f = "app.so.rt.sig"
  \/ m = 15 /\ f = "app.so.rt.sig" /\ (f \in l \/ c = <<fl.rtkey, h>>)

(* What is held after m is still wanted.                                   *)
ProgHolds(m, fl) == m \notin {4, 7, 10, 15} /\ (m = 13 => fl.rtkey # NoKey)

LEMMA ProgWriteMoves ==
  ASSUME NEW F, NEW G, NEW f, NEW c, NEW fl, NEW h, NEW l, NEW l1, l \subseteq l1,
         NEW n \in Nat, NEW m \in Nat,
         ProgBefore(n, m, fl), ProgFacts(n, fl, h, l, F), ProgWrites(m, f, c, fl, h, l1),
         G[f] = c, \A g \in AppFiles : g # f => G[g] = F[g],
         NEW h1, ProgHolds(m, fl) => h1 = h
  PROVE  ProgFacts(m, fl, h1, l1, G)
<1>0. \A g : g \in l => g \in l1
  OBVIOUS
<1>1. CASE m = 4 /\ f = "app.so" /\ c.by = [toolchain |-> fl.toolchain]
  <2>1. n = 3 /\ G["app.so"] = c
    BY <1>1 DEF ProgBefore
  <2>2. /\ G["app.so.sha512"] = F["app.so.sha512"] /\ G["app.so.sig"] = F["app.so.sig"] /\ G["app.so.rt"] = F["app.so.rt"]
        /\ G["app.so.rt.sig"] = F["app.so.rt.sig"]
    BY <1>1 DEF AppFiles
  <2>3. QED
    BY <1>0, <1>1, <2>1, <2>2 DEF ProgFacts, ProgHolds
<1>2. CASE m = 6 /\ f = "app.so.sha512"
  <2>1. n = 5 /\ G["app.so.sha512"] = c
    BY <1>2 DEF ProgBefore
  <2>2. /\ G["app.so"] = F["app.so"] /\ G["app.so.sig"] = F["app.so.sig"] /\ G["app.so.rt"] = F["app.so.rt"]
        /\ G["app.so.rt.sig"] = F["app.so.rt.sig"]
    BY <1>2 DEF AppFiles
  <2>3. QED
    BY <1>0, <1>2, <2>1, <2>2 DEF ProgFacts, ProgHolds
<1>3. CASE m = 7 /\ f = "app.so.sha512" /\ (f \in l1 \/ c = Digest(h))
  <2>1. n = 6 /\ G["app.so.sha512"] = c
    BY <1>3 DEF ProgBefore
  <2>2. /\ G["app.so"] = F["app.so"] /\ G["app.so.sig"] = F["app.so.sig"] /\ G["app.so.rt"] = F["app.so.rt"]
        /\ G["app.so.rt.sig"] = F["app.so.rt.sig"]
    BY <1>3 DEF AppFiles
  <2>3. QED
    BY <1>0, <1>3, <2>1, <2>2 DEF ProgFacts, ProgHolds
<1>4. CASE m = 9 /\ f = "app.so.sig"
  <2>1. n = 8 /\ G["app.so.sig"] = c
    BY <1>4 DEF ProgBefore
  <2>2. /\ G["app.so"] = F["app.so"] /\ G["app.so.sha512"] = F["app.so.sha512"] /\ G["app.so.rt"] = F["app.so.rt"]
        /\ G["app.so.rt.sig"] = F["app.so.rt.sig"]
    BY <1>4 DEF AppFiles
  <2>3. QED
    BY <1>0, <1>4, <2>1, <2>2 DEF ProgFacts, ProgHolds
<1>5. CASE m = 10 /\ f = "app.so.sig" /\ (f \in l1 \/ c = <<fl.key, h>>)
  <2>1. n = 9 /\ G["app.so.sig"] = c
    BY <1>5 DEF ProgBefore
  <2>2. /\ G["app.so"] = F["app.so"] /\ G["app.so.sha512"] = F["app.so.sha512"] /\ G["app.so.rt"] = F["app.so.rt"]
        /\ G["app.so.rt.sig"] = F["app.so.rt.sig"]
    BY <1>5 DEF AppFiles
  <2>3. QED
    BY <1>0, <1>5, <2>1, <2>2 DEF ProgFacts, ProgHolds
<1>6. CASE m = 12 /\ f = "app.so.rt"
  <2>1. n = 11 /\ G["app.so.rt"] = c
    BY <1>6 DEF ProgBefore
  <2>2. /\ G["app.so"] = F["app.so"] /\ G["app.so.sha512"] = F["app.so.sha512"] /\ G["app.so.sig"] = F["app.so.sig"]
        /\ G["app.so.rt.sig"] = F["app.so.rt.sig"]
    BY <1>6 DEF AppFiles
  <2>3. QED
    BY <1>0, <1>6, <2>1, <2>2 DEF ProgFacts, ProgHolds
<1>7. CASE m = 13 /\ f = "app.so.rt" /\ (f \in l1 \/ c = h)
  <2>1. n = 12 /\ G["app.so.rt"] = c
    BY <1>7 DEF ProgBefore
  <2>2. /\ G["app.so"] = F["app.so"] /\ G["app.so.sha512"] = F["app.so.sha512"] /\ G["app.so.sig"] = F["app.so.sig"]
        /\ G["app.so.rt.sig"] = F["app.so.rt.sig"]
    BY <1>7 DEF AppFiles
  <2>3. QED
    BY <1>0, <1>7, <2>1, <2>2 DEF ProgFacts, ProgHolds
<1>8. CASE m = 14 /\ f = "app.so.rt.sig"
  <2>1. n = 13 /\ G["app.so.rt.sig"] = c
    BY <1>8 DEF ProgBefore
  <2>2. /\ G["app.so"] = F["app.so"] /\ G["app.so.sha512"] = F["app.so.sha512"] /\ G["app.so.sig"] = F["app.so.sig"]
        /\ G["app.so.rt"] = F["app.so.rt"]
    BY <1>8 DEF AppFiles
  <2>3. QED
    BY <1>0, <1>8, <2>1, <2>2 DEF ProgFacts, ProgHolds
<1>9. CASE m = 15 /\ f = "app.so.rt.sig" /\ (f \in l1 \/ c = <<fl.rtkey, h>>)
  <2>1. n = 14 /\ G["app.so.rt.sig"] = c
    BY <1>9 DEF ProgBefore
  <2>2. /\ G["app.so"] = F["app.so"] /\ G["app.so.sha512"] = F["app.so.sha512"] /\ G["app.so.sig"] = F["app.so.sig"]
        /\ G["app.so.rt"] = F["app.so.rt"]
    BY <1>9 DEF AppFiles
  <2>3. QED
    BY <1>0, <1>9, <2>1, <2>2 DEF ProgFacts, ProgHolds
<1>10. QED
  BY <1>1, <1>2, <1>3, <1>4, <1>5, <1>6, <1>7, <1>8, <1>9 DEF ProgWrites

LEMMA ProgReadMoves ==
  ASSUME NEW F, NEW fl, NEW h, NEW h1, NEW l, NEW n \in Nat, NEW m \in Nat,
         ProgBefore(n, m, fl), ProgFacts(n, fl, h, l, F),
         \/ m \in {1, 2, 3}
         \/ m \in {5, 8} /\ h1 = F["app.so"]
         \/ m = 11 /\ h1 = [toolchain |-> fl.toolchain]
  PROVE  ProgFacts(m, fl, h1, l, F)
<1>1. CASE m \in {1, 2, 3}
  BY <1>1 DEF ProgFacts
<1>2. CASE m = 5 /\ h1 = F["app.so"]
  BY <1>2 DEF ProgFacts, ProgBefore
<1>3. CASE m = 8 /\ h1 = F["app.so"]
  BY <1>3 DEF ProgFacts, ProgBefore
<1>4. CASE m = 11 /\ h1 = [toolchain |-> fl.toolchain]
  BY <1>4 DEF ProgFacts, ProgBefore
<1>5. QED
  BY <1>1, <1>2, <1>3, <1>4
-----------------------------------------------------------------------------
LEMMA Processes == "lib" \in Process /\ "prog" \in Process /\ \A p \in Process : p = "lib" \/ p = "prog"
  BY DEF Process

(* A step and the place it is at.                                          *)
LEMMA LibStepIs ==
  ASSUME NEW m \in 1 .. 19, NEW k, NEW f, LibSteps[m] = <<k, f>>
  PROVE  \/ m = 1 /\ k = "source" /\ f = "m.purr"
         \/ m = 2 /\ k = "open" /\ f = "m.hpp"
         \/ m = 3 /\ k = "put" /\ f = "m.hpp"
         \/ m = 4 /\ k = "open" /\ f = "m.impl"
         \/ m = 5 /\ k = "put" /\ f = "m.impl"
         \/ m = 6 /\ k = "archive" /\ f = "libm.a"
         \/ m = 7 /\ k = "remove" /\ f = "m.impl"
         \/ m = 8 /\ k = "read" /\ f = "libm.a"
         \/ m = 9 /\ k = "open" /\ f = "libm.a.sha512"
         \/ m = 10 /\ k = "put" /\ f = "libm.a.sha512"
         \/ m = 11 /\ k = "read" /\ f = "libm.a"
         \/ m = 12 /\ k = "open" /\ f = "libm.a.sig"
         \/ m = 13 /\ k = "put" /\ f = "libm.a.sig"
         \/ m = 14 /\ k = "read" /\ f = "m.hpp"
         \/ m = 15 /\ k = "open" /\ f = "m.hpp.sha512"
         \/ m = 16 /\ k = "put" /\ f = "m.hpp.sha512"
         \/ m = 17 /\ k = "read" /\ f = "m.hpp"
         \/ m = 18 /\ k = "open" /\ f = "m.hpp.sig"
         \/ m = 19 /\ k = "put" /\ f = "m.hpp.sig"
<1>1. m = 1 \/ m = 2 \/ m = 3 \/ m = 4 \/ m = 5 \/ m = 6 \/ m = 7 \/ m = 8 \/ m = 9 \/ m = 10
      \/ m = 11 \/ m = 12 \/ m = 13 \/ m = 14 \/ m = 15 \/ m = 16 \/ m = 17 \/ m = 18 \/ m = 19
  OBVIOUS
<1>2. \A a, b : <<k, f>> = <<a, b>> => k = a /\ f = b
  OBVIOUS
<1>3. QED
  BY <1>1, <1>2, LibStepsAre DEF Sum, Sig

LEMMA ProgStepIs ==
  ASSUME NEW m \in 1 .. 15, NEW k, NEW f, ProgSteps[m] = <<k, f>>
  PROVE  \/ m = 1 /\ k = "resolve" /\ f = "m.hpp"
         \/ m = 2 /\ k = "verify" /\ f = "m.hpp"
         \/ m = 3 /\ k = "verify" /\ f = "libm.a"
         \/ m = 4 /\ k = "backend" /\ f = "app.so"
         \/ m = 5 /\ k = "read" /\ f = "app.so"
         \/ m = 6 /\ k = "open" /\ f = "app.so.sha512"
         \/ m = 7 /\ k = "put" /\ f = "app.so.sha512"
         \/ m = 8 /\ k = "read" /\ f = "app.so"
         \/ m = 9 /\ k = "open" /\ f = "app.so.sig"
         \/ m = 10 /\ k = "put" /\ f = "app.so.sig"
         \/ m = 11 /\ k = "manifest" /\ f = "app.so.rt"
         \/ m = 12 /\ k = "open" /\ f = "app.so.rt"
         \/ m = 13 /\ k = "put" /\ f = "app.so.rt"
         \/ m = 14 /\ k = "open" /\ f = "app.so.rt.sig"
         \/ m = 15 /\ k = "put" /\ f = "app.so.rt.sig"
<1>1. m = 1 \/ m = 2 \/ m = 3 \/ m = 4 \/ m = 5 \/ m = 6 \/ m = 7 \/ m = 8 \/ m = 9 \/ m = 10
      \/ m = 11 \/ m = 12 \/ m = 13 \/ m = 14 \/ m = 15
  OBVIOUS
<1>2. \A a, b : <<k, f>> = <<a, b>> => k = a /\ f = b
  OBVIOUS
<1>3. QED
  BY <1>1, <1>2, ProgStepsAre DEF Sum, Sig

(* A step that is done leaves the rest of the run.                         *)
LEMMA GoOnIs ==
  ASSUME RunsTyped, RunsEnd, NEW p \in Process, NEW h, NEW l, GoOn(p, h, l), run[p].todo # << >>
  PROVE  /\ run'[p].todo = Tail(run[p].todo) /\ run'[p].flags = run[p].flags /\ run'[p].lost = l
         /\ Tail(run[p].todo) # << >> => run'[p].held = h
         /\ result'[p] = IF Tail(run[p].todo) = << >> THEN "ok" ELSE "running"
         /\ \A q \in Process : q # p => run'[q] = run[q] /\ result'[q] = result[q]
         /\ DOMAIN result' = Process /\ raced' = raced
<1> DEFINE t == run[p].todo
           g == IF Len(t) = 1 THEN Absent ELSE h
<1>1. /\ run' = [run EXCEPT ![p].todo = Tail(t), ![p].held = g, ![p].lost = l]
      /\ result' = [result EXCEPT ![p] = IF Len(t) = 1 THEN "ok" ELSE result[p]]
      /\ raced' = raced
  BY DEF GoOn
<1>2. /\ DOMAIN run = Process /\ DOMAIN run[p] = {"todo", "held", "flags", "lost"} /\ t \in Seq(Steps)
      /\ DOMAIN result = Process /\ result[p] = "running"
  BY DEF RunsTyped, RunsEnd
<1>3. Len(t) = 1 <=> Tail(t) = << >>
  <2> HIDE DEF t
  <2>1. t \in Seq(Steps) /\ t # << >>
    BY <1>2 DEF t
  <2>2. Len(t) \in Nat /\ Len(t) > 0 /\ Tail(t) \in Seq(Steps) /\ Len(Tail(t)) = Len(t) - 1
    BY <2>1
  <2> DEFINE u == Tail(t)
  <2>3. u \in Seq(Steps) /\ Len(u) = Len(t) - 1
    BY <2>2
  <2> HIDE DEF u
  <2>4. u = << >> <=> Len(u) = 0
    BY <2>3, EmptySeq
  <2>5. QED
    BY <2>2, <2>3, <2>4 DEF u
<1> HIDE DEF t, g
<1>4. run'[p].todo = Tail(t) /\ run'[p].held = g /\ run'[p].flags = run[p].flags /\ run'[p].lost = l
  BY <1>1, <1>2
<1>5. \A q \in Process : q # p => run'[q] = run[q] /\ result'[q] = result[q]
  BY <1>1, <1>2
<1>6. DOMAIN result' = Process /\ result'[p] = IF Tail(t) = << >> THEN "ok" ELSE "running"
  BY <1>1, <1>2, <1>3
<1>7. Tail(t) # << >> => g = h
  BY <1>3 DEF g
<1>8. QED
  BY <1>1, <1>4, <1>5, <1>6, <1>7 DEF t

LEMMA FailIs ==
  ASSUME RunsTyped, RunsEnd, NEW p \in Process, Fail(p)
  PROVE  /\ run'[p].todo = << >> /\ run'[p].flags = NoFlags
         /\ result'[p] = "failed"
         /\ \A q \in Process : q # p => run'[q] = run[q] /\ result'[q] = result[q]
         /\ DOMAIN result' = Process /\ raced' = raced
<1>1. /\ run' = [run EXCEPT ![p].todo = << >>, ![p].held = Absent, ![p].flags = NoFlags]
      /\ result' = [result EXCEPT ![p] = "failed"]
      /\ raced' = raced
  BY DEF Fail
<1>2. /\ DOMAIN run = Process /\ DOMAIN run[p] = {"todo", "held", "flags", "lost"} /\ DOMAIN result = Process
  BY DEF RunsTyped, RunsEnd
<1>3. run'[p].todo = << >> /\ run'[p].flags = NoFlags
  BY <1>1, <1>2
<1>4. \A q \in Process : q # p => run'[q] = run[q] /\ result'[q] = result[q]
  BY <1>1, <1>2
<1>5. DOMAIN result' = Process /\ result'[p] = "failed"
  BY <1>1, <1>2
<1>6. QED
  BY <1>1, <1>3, <1>4, <1>5

LEMMA StartIs ==
  ASSUME RunsTyped, RunsEnd, NEW p \in Process, NEW fl, Start(p, fl)
  PROVE  /\ run'[p].todo = Script(p, fl) /\ run'[p].flags = fl /\ run'[p].lost = {}
         /\ result'[p] = "running"
         /\ \A q \in Process : q # p => run'[q] = run[q] /\ result'[q] = result[q]
         /\ DOMAIN result' = Process
<1>1. /\ run' = [run EXCEPT ![p] = [todo |-> Script(p, fl), held |-> Absent, flags |-> fl, lost |-> {}]]
      /\ result' = [result EXCEPT ![p] = "running"]
  BY DEF Start
<1>2. DOMAIN run = Process /\ DOMAIN result = Process
  BY DEF RunsTyped, RunsEnd
<1>3. run'[p] = [todo |-> Script(p, fl), held |-> Absent, flags |-> fl, lost |-> {}]
  BY <1>1, <1>2
<1>4. run'[p].todo = Script(p, fl) /\ run'[p].flags = fl /\ run'[p].lost = {}
  BY <1>3
<1>5. QED
  BY <1>1, <1>2, <1>4

(* What an open or a put leaves in its file, and what is lost by then.     *)
LEMMA FileStays ==
  ASSUME FilesTyped, NEW f \in Name, UNCHANGED fs
  PROVE  Put(f, fs[f])
<1>1. fs = [g \in Name |-> fs[g]]
  BY DEF FilesTyped
<1>2. [fs EXCEPT ![f] = fs[f]] = [g \in Name |-> fs[g]]
  BY <1>1
<1>3. QED
  BY <1>1, <1>2 DEF Put

LEMMA Opens ==
  ASSUME FilesTyped, NEW p \in Process, NEW f \in Name, Open(p, f)
  PROVE  /\ At(p, "open", f) /\ imported' = imported
         /\ \/ \E c \in {Empty, fs[f]} : \E l :
                 /\ Put(f, c) /\ GoOn(p, run[p].held, l) /\ run[p].lost \subseteq l
                 /\ c = Empty \/ f \in {Sum("m.hpp"), Sum("libm.a"), Sum("app.so")}
            \/ UNCHANGED fs /\ Fail(p)
<1>1. At(p, "open", f) /\ imported' = imported
  BY DEF Open
<1>2. CASE Put(f, Empty) /\ Done(p, run[p].held)
  BY <1>1, <1>2 DEF Done
<1>3. CASE UNCHANGED fs /\ Unread(p, f) /\ Lose(p, f)
  <2>1. Put(f, fs[f]) /\ GoOn(p, run[p].held, run[p].lost \union {f})
    BY <1>3, FileStays DEF Lose
  <2>2. f \in {Sum("m.hpp"), Sum("libm.a"), Sum("app.so")}
    BY <1>3 DEF Unread
  <2>3. run[p].lost \subseteq run[p].lost \union {f} /\ fs[f] \in {Empty, fs[f]}
    OBVIOUS
  <2>4. QED
    BY <1>1, <2>1, <2>2, <2>3
<1>4. CASE UNCHANGED fs /\ Fail(p)
  BY <1>1, <1>4
<1>5. QED
  BY <1>2, <1>3, <1>4 DEF Open

LEMMA Puts ==
  ASSUME FilesTyped, NEW p \in Process, NEW f \in Name, WriteOut(p, f)
  PROVE  /\ At(p, "put", f) /\ imported' = imported
         /\ \/ \E c, l : /\ Put(f, c) /\ GoOn(p, run[p].held, l) /\ run[p].lost \subseteq l
                         /\ c = ContentOf(p, f, run[p].held) \/ (c = fs[f] /\ f \in l)
            \/ UNCHANGED fs /\ Fail(p)
<1>1. At(p, "put", f) /\ imported' = imported
  BY DEF WriteOut
<1>2. CASE Put(f, ContentOf(p, f, run[p].held)) /\ Done(p, run[p].held)
  BY <1>1, <1>2 DEF Done
<1>3. CASE UNCHANGED fs /\ Lose(p, f)
  <2>1. Put(f, fs[f]) /\ GoOn(p, run[p].held, run[p].lost \union {f})
    BY <1>3, FileStays DEF Lose
  <2>2. run[p].lost \subseteq run[p].lost \union {f} /\ f \in run[p].lost \union {f}
    OBVIOUS
  <2>3. QED
    BY <1>1, <2>1, <2>2
<1>4. CASE UNCHANGED fs /\ Fail(p)
  BY <1>1, <1>4
<1>5. QED
  BY <1>2, <1>3, <1>4 DEF WriteOut, WriteFails

(* The emission's place, and what it is asked for next.                    *)
LibAt(n, m, kind, f) ==
  LET fl == run["lib"].flags
      s == run["lib"].todo
  IN  /\ LibSteps[m] = <<kind, f>> /\ LibBefore(n, m, fl.key)
      /\ LibFacts(n, fl.key, run["lib"].held, run["lib"].lost, fs)
      /\ Stands(Tail(s), LibSteps, LibAsked(fl), m)
      /\ m \notin {10, 13, 16, 19} => Tail(s) # << >>

LEMMA LibTakes ==
  ASSUME RunsEnd, LibInv, NEW kind, NEW f, At("lib", kind, f)
  PROVE  \E n \in Nat : \E m \in 1 .. 19 : LibAt(n, m, kind, f)
<1> DEFINE fl == run["lib"].flags
           s == run["lib"].todo
           W == LibAsked(fl)
<1>1. s # << >> /\ Head(s) = <<kind, f>> /\ result["lib"] = "running"
  BY DEF At, RunsEnd, Process
<1>2. PICK n \in Nat : Stands(s, LibSteps, W, n) /\ LibFacts(n, fl.key, run["lib"].held, run["lib"].lost, fs)
  BY <1>1 DEF LibInv
<1>3. W \subseteq 1 .. 19 /\ W \subseteq Nat \ {0}
  BY AskedTyped
<1> HIDE DEF W, s, fl
<1>4. PICK m \in W : /\ n < m /\ Head(s) = LibSteps[m] /\ \A w \in W : w < m => w <= n
                     /\ Stands(Tail(s), LibSteps, W, m)
  <2>1. \E m \in W : Reaches(s, LibSteps, W, n, m)
    BY <1>1, <1>2, <1>3, Standing
  <2>2. QED
    BY <2>1 DEF Reaches
<1>5. m \in 1 .. 19 /\ m \in Nat
  BY <1>3
<1>6. /\ m # 14 => n = m - 1
      /\ m = 14 => 10 <= n /\ (fl.key # NoKey => n = 13)
      /\ m \notin {10, 13, 16, 19} => m + 1 \in W
  BY <1>4, LibPlaces DEF W
<1>7. LibBefore(n, m, fl.key)
  BY <1>4, <1>6 DEF LibBefore
<1>8. ASSUME m \notin {10, 13, 16, 19} PROVE Tail(s) # << >>
  <2>1. m + 1 \in W /\ ~(m + 1 <= m)
    BY <1>5, <1>6, <1>8
  <2>2. QED
    BY <1>3, <1>4, <1>5, <2>1, Standing
<1>9. LibAt(n, m, kind, f)
  BY <1>1, <1>2, <1>4, <1>7, <1>8 DEF LibAt, W, s, fl
<1>10. QED
  BY <1>5, <1>9
LEMMA FilesApart ==
  LibFiles \subseteq PurrcFiles /\ AppFiles \subseteq PurrcFiles /\ PurrcFiles \subseteq Name
  /\ \A f \in LibFiles : f \notin AppFiles
  BY DEF LibFiles, AppFiles, PurrcFiles, BiomeFiles, Name

(* The step is done, and the emission stands at m.                         *)
LEMMA LibDone ==
  ASSUME RunsTyped, RunsEnd, NEW n \in Nat, NEW m \in 1 .. 19, NEW kind, NEW f, LibAt(n, m, kind, f),
         run["lib"].todo # << >>, NEW h, NEW l, GoOn("lib", h, l),
         \A h1 : (m \notin {10, 13, 16, 19} => h1 = h) => LibFacts(m, run["lib"].flags.key, h1, l, fs')
  PROVE  LibInv'
<1>1. "lib" \in Process
  BY DEF Process
<1>2. /\ run'["lib"].todo = Tail(run["lib"].todo) /\ run'["lib"].flags = run["lib"].flags
      /\ Tail(run["lib"].todo) # << >> => run'["lib"].held = h
      /\ run'["lib"].lost = l
  BY <1>1, GoOnIs
<1>3. LibFacts(m, run'["lib"].flags.key, run'["lib"].held, run'["lib"].lost, fs')
  BY <1>2 DEF LibAt
<1>4. Stands(run'["lib"].todo, LibSteps, LibAsked(run'["lib"].flags), m)
  BY <1>2 DEF LibAt
<1>5. m \in Nat
  OBVIOUS
<1>6. QED
  BY <1>3, <1>4, <1>5 DEF LibInv

LEMMA LibWriteDone ==
  ASSUME FilesTyped, RunsTyped, RunsEnd, Dated(fs),
         NEW n \in Nat, NEW m \in 1 .. 19, NEW kind, NEW f \in LibFiles, LibAt(n, m, kind, f),
         run["lib"].todo # << >>, NEW c, NEW l1, Put(f, c), GoOn("lib", run["lib"].held, l1),
         run["lib"].lost \subseteq l1,
         LibWrites(m, f, c, run["lib"].flags.key, run["lib"].held, l1, fs)
  PROVE  LibInv' /\ Dated(fs') /\ \A g \in AppFiles : fs'[g] = fs[g]
<1> DEFINE k == run["lib"].flags.key
           h == run["lib"].held
           l == run["lib"].lost
<1>1. f \in Name
  BY FilesApart
<1>2. fs'[f] = c /\ \A g \in Name : g # f => fs'[g] = fs[g]
  BY <1>1, PutAt
<1>3. LibBefore(n, m, k) /\ LibFacts(n, k, h, l, fs) /\ m \in Nat /\ l \subseteq l1
  BY DEF LibAt
<1>4. \A g \in LibFiles : g # f => fs'[g] = fs[g]
  BY <1>2, FilesApart
<1>5. LibWrites(m, f, c, k, h, l1, fs)
  OBVIOUS
<1> HIDE DEF k, h, l
<1>6. /\ \A h1 : (m \notin {10, 13, 16, 19} => h1 = h) => LibFacts(m, k, h1, l1, fs')
      /\ Dated(fs')
  BY <1>2, <1>3, <1>4, <1>5, LibWriteMoves
<1>7. LibInv'
  BY <1>6, LibDone DEF k, h
<1>8. \A g \in AppFiles : fs'[g] = fs[g]
  BY <1>2, FilesApart
<1>9. QED
  BY <1>6, <1>7, <1>8

LEMMA LibEnd ==
  ASSUME RunsTyped, RunsEnd, Fail("lib")
  PROVE  LibInv'
<1>1. result'["lib"] = "failed"
  BY FailIs DEF Process
<1>2. QED
  BY <1>1 DEF LibInv

(* A run of purrc went on.                                                 *)
Ran(p) ==
  /\ run[p].todo # << >>
  /\ (\E h, l : GoOn(p, h, l)) \/ Fail(p)

LEMMA ContentIs ==
  ASSUME NEW p, NEW h
  PROVE  LET fl == run[p].flags
         IN  /\ ContentOf(p, "m.hpp", h) = [api |-> h.api]
             /\ ContentOf(p, "m.impl", h) = h
             /\ \A f \in {"m.hpp.sha512", "libm.a.sha512", "app.so.sha512"} : ContentOf(p, f, h) = Digest(h)
             /\ \A f \in {"m.hpp.sig", "libm.a.sig", "app.so.sig"} : ContentOf(p, f, h) = <<fl.key, h>>
             /\ ContentOf(p, "app.so.rt", h) = h
             /\ ContentOf(p, "app.so.rt.sig", h) = <<fl.rtkey, h>>
  BY DEF ContentOf, Sum, Sig

LEMMA LibGoesOn ==
  ASSUME FilesTyped, RunsTyped, RunsEnd, Dated(fs), LibInv, PurrcStep("lib")
  PROVE  /\ LibInv' /\ Dated(fs') /\ Ran("lib") /\ imported' = imported
         /\ \A g \in AppFiles : fs'[g] = fs[g]
<1> DEFINE h == run["lib"].held
           k == run["lib"].flags.key
           OK == LibInv' /\ Dated(fs') /\ Ran("lib") /\ imported' = imported /\ \A g \in AppFiles : fs'[g] = fs[g]
<1>t. ASSUME NEW kind, NEW f, At("lib", kind, f)
      PROVE  run["lib"].todo # << >> /\ \E n \in Nat : \E m \in 1 .. 19 : LibAt(n, m, kind, f)
  BY <1>t, LibTakes DEF At
<1>e. ASSUME run["lib"].todo # << >>, Fail("lib"), UNCHANGED <<fs, imported>>
      PROVE  OK
  BY <1>e, LibEnd DEF Ran
<1>w. ASSUME NEW f \in LibFiles, NEW n \in Nat, NEW m \in 1 .. 19, NEW kind, LibAt(n, m, kind, f),
             At("lib", kind, f), imported' = imported, NEW c, NEW l,
             Put(f, c), GoOn("lib", h, l), run["lib"].lost \subseteq l, LibWrites(m, f, c, k, h, l, fs)
      PROVE  OK
  BY <1>t, <1>w, LibWriteDone DEF Ran
<1>1. ASSUME NEW f \in Name, Open("lib", f) PROVE OK
  <2>1. At("lib", "open", f) /\ imported' = imported
    BY <1>1, Opens, Processes
  <2>2. PICK n \in Nat, m \in 1 .. 19 : LibAt(n, m, "open", f)
    BY <1>t, <2>1
  <2>3. LibSteps[m] = <<"open", f>>
    BY <2>2 DEF LibAt
  <2>4. CASE UNCHANGED fs /\ Fail("lib")
    BY <1>e, <1>t, <2>1, <2>4
  <2>5. ASSUME NEW c \in {Empty, fs[f]}, NEW l, Put(f, c), GoOn("lib", h, l), run["lib"].lost \subseteq l,
               c = Empty \/ f \in {Sum("m.hpp"), Sum("libm.a"), Sum("app.so")}
        PROVE  OK
    <3>1. f \in LibFiles /\ LibWrites(m, f, c, k, h, l, fs)
      BY <2>3, <2>5, LibStepIs DEF LibFiles, LibWrites, Sum
    <3>2. QED
      BY <1>w, <2>1, <2>2, <2>5, <3>1
  <2>6. QED
    BY <1>1, <2>4, <2>5, Opens, Processes
<1>2. ASSUME NEW f \in Name, WriteOut("lib", f) PROVE OK
  <2>1. At("lib", "put", f) /\ imported' = imported
    BY <1>2, Puts, Processes
  <2>2. PICK n \in Nat, m \in 1 .. 19 : LibAt(n, m, "put", f)
    BY <1>t, <2>1
  <2>3. LibSteps[m] = <<"put", f>>
    BY <2>2 DEF LibAt
  <2>4. CASE UNCHANGED fs /\ Fail("lib")
    BY <1>e, <1>t, <2>1, <2>4
  <2>5. ASSUME NEW c, NEW l, Put(f, c), GoOn("lib", h, l), run["lib"].lost \subseteq l,
               c = ContentOf("lib", f, h) \/ (c = fs[f] /\ f \in l)
        PROVE  OK
    <3>1. f \in LibFiles /\ LibWrites(m, f, c, k, h, l, fs)
      BY <2>3, <2>5, LibStepIs, ContentIs DEF LibFiles, LibWrites
    <3>2. QED
      BY <1>w, <2>1, <2>2, <2>5, <3>1
  <2>6. QED
    BY <1>2, <2>4, <2>5, Puts, Processes
<1>3. ASSUME NEW f \in Name, Read("lib", f) PROVE OK
  <2>1. PICK kind \in {"read", "source"} :
          At("lib", kind, f) /\ GoOn("lib", fs[f], run["lib"].lost) /\ UNCHANGED <<fs, imported>>
    BY <1>3 DEF Read, Done
  <2>2. PICK n \in Nat, m \in 1 .. 19 : LibAt(n, m, kind, f)
    BY <1>t, <2>1
  <2>3. LibSteps[m] = <<kind, f>> /\ LibBefore(n, m, k) /\ LibFacts(n, k, h, run["lib"].lost, fs)
    BY <2>2 DEF LibAt
  <2>4. \/ m = 1 /\ f = "m.purr"
        \/ m \in {8, 11} /\ f = "libm.a"
        \/ m \in {14, 17} /\ f = "m.hpp"
    BY <2>1, <2>3, LibStepIs
  <2>5. LibFacts(m, k, fs[f], run["lib"].lost, fs) /\ m \notin {10, 13, 16, 19}
    BY <2>3, <2>4, LibReadMoves
  <2>6. LibInv'
    BY <1>t, <2>1, <2>2, <2>5, LibDone
  <2>7. QED
    BY <1>t, <2>1, <2>6 DEF Ran
<1>4. ASSUME NEW f \in Name, Verify("lib", f, Trusted) PROVE OK
  <2>1. At("lib", "verify", f)
    BY <1>4 DEF Verify
  <2>2. PICK n \in Nat, m \in 1 .. 19 : LibSteps[m] = <<"verify", f>>
    BY <1>t, <2>1 DEF LibAt
  <2>3. QED
    BY <2>2, LibStepIs
<1>5. ASSUME Fingerprint("lib") PROVE OK
  <2>1. At("lib", "manifest", "app.so.rt")
    BY <1>5 DEF Fingerprint
  <2>2. PICK n \in Nat, m \in 1 .. 19 : LibSteps[m] = <<"manifest", "app.so.rt">>
    BY <1>t, <2>1 DEF LibAt
  <2>3. QED
    BY <2>2, LibStepIs
<1>6. ASSUME MakeArchive("lib") PROVE OK
  <2>1. At("lib", "archive", "libm.a") /\ imported' = imported
    BY <1>6 DEF MakeArchive
  <2>2. PICK n \in Nat, m \in 1 .. 19 : LibAt(n, m, "archive", "libm.a")
    BY <1>t, <2>1
  <2>3. LibSteps[m] = <<"archive", "libm.a">>
    BY <2>2 DEF LibAt
  <2>4. ASSUME NEW l PROVE "libm.a" \in LibFiles /\ LibWrites(m, "libm.a", fs["m.impl"], k, h, l, fs)
    BY <2>3, LibStepIs DEF LibFiles, LibWrites
  <2>5. CASE Put("libm.a", fs["m.impl"]) /\ Done("lib", h)
    <3>1. GoOn("lib", h, run["lib"].lost)
      BY <2>5 DEF Done
    <3>2. QED
      BY <1>w, <2>1, <2>2, <2>4, <2>5, <3>1
  <2>6. CASE UNCHANGED fs /\ Fail("lib")
    BY <1>e, <1>t, <2>1, <2>6
  <2>7. QED
    BY <1>6, <2>5, <2>6 DEF MakeArchive
<1>7. ASSUME RemoveImpl("lib") PROVE OK
  <2>1. At("lib", "remove", "m.impl") /\ GoOn("lib", h, run["lib"].lost) /\ imported' = imported
    BY <1>7 DEF RemoveImpl, Done
  <2>2. PICK n \in Nat, m \in 1 .. 19 : LibAt(n, m, "remove", "m.impl")
    BY <1>t, <2>1
  <2>3. LibSteps[m] = <<"remove", "m.impl">>
    BY <2>2 DEF LibAt
  <2>4. "m.impl" \in LibFiles /\ \A c, l : LibWrites(m, "m.impl", c, k, h, l, fs)
    BY <2>3, LibStepIs DEF LibFiles, LibWrites
  <2>5. \E c : Put("m.impl", c)
    <3>1. "m.impl" \in Name
      BY DEF Name
    <3>2. QED
      BY <1>7, <3>1, FileStays DEF RemoveImpl
  <2>6. QED
    BY <1>w, <2>1, <2>2, <2>4, <2>5
<1>8. ASSUME Resolve("lib") \/ Backend("lib") PROVE OK
  <2>1. At("lib", "resolve", "m.hpp") \/ At("lib", "backend", "app.so")
    BY <1>8 DEF Resolve, Backend
  <2>2. PICK n \in Nat, m \in 1 .. 19 :
          LibSteps[m] = <<"resolve", "m.hpp">> \/ LibSteps[m] = <<"backend", "app.so">>
    BY <1>t, <2>1 DEF LibAt
  <2>3. QED
    BY <2>2, LibStepIs
<1>9. ASSUME KillRun("lib") PROVE OK
  BY <1>e, <1>9 DEF KillRun
<1>10. OK
  BY <1>1, <1>2, <1>3, <1>4, <1>5, <1>6, <1>7, <1>8, <1>9 DEF PurrcStep, FileStep
<1>11. QED
  BY <1>10
-----------------------------------------------------------------------------
(* The same for the program build.                                         *)
ProgAt(n, m, kind, f) ==
  LET fl == run["prog"].flags
      s == run["prog"].todo
  IN  /\ ProgSteps[m] = <<kind, f>> /\ ProgBefore(n, m, fl)
      /\ ProgFacts(n, fl, run["prog"].held, run["prog"].lost, fs)
      /\ ~raced => LibraryFacts(n, imported, fs)
      /\ Stands(Tail(s), ProgSteps, ProgAsked(fl), m)
      /\ ProgHolds(m, fl) => Tail(s) # << >>

LEMMA ProgTakes ==
  ASSUME RunsEnd, ProgInv, NEW kind, NEW f, At("prog", kind, f)
  PROVE  \E n \in Nat : \E m \in 1 .. 15 : ProgAt(n, m, kind, f)
<1> DEFINE fl == run["prog"].flags
           s == run["prog"].todo
           W == ProgAsked(fl)
<1>1. s # << >> /\ Head(s) = <<kind, f>> /\ result["prog"] = "running"
  BY DEF At, RunsEnd, Process
<1>2. PICK n \in Nat : /\ Stands(s, ProgSteps, W, n) /\ ProgFacts(n, fl, run["prog"].held, run["prog"].lost, fs)
                       /\ ~raced => LibraryFacts(n, imported, fs)
  BY <1>1 DEF ProgInv
<1>3. W \subseteq 1 .. 15 /\ W \subseteq Nat \ {0}
  BY AskedTyped
<1> HIDE DEF W, s, fl
<1>4. PICK m \in W : /\ n < m /\ Head(s) = ProgSteps[m] /\ \A w \in W : w < m => w <= n
                     /\ Stands(Tail(s), ProgSteps, W, m)
  <2>1. \E m \in W : Reaches(s, ProgSteps, W, n, m)
    BY <1>1, <1>2, <1>3, Standing
  <2>2. QED
    BY <2>1 DEF Reaches
<1>5. m \in 1 .. 15 /\ m \in Nat
  BY <1>3
<1>6. /\ m # 11 => n = m - 1
      /\ m = 11 => 4 <= n /\ (fl.key # NoKey \/ fl.sum => 7 <= n) /\ (fl.key # NoKey => 10 <= n)
      /\ m \in {1, 2, 3, 5, 6, 8, 9, 11, 12, 14} => m + 1 \in W
      /\ m = 13 /\ fl.rtkey # NoKey => m + 1 \in W
  BY <1>4, ProgPlaces DEF W
<1>7. ProgBefore(n, m, fl)
  BY <1>4, <1>6 DEF ProgBefore
<1>8. ASSUME ProgHolds(m, fl) PROVE Tail(s) # << >>
  <2>1. m \in {1, 2, 3, 5, 6, 8, 9, 11, 12, 14} \/ (m = 13 /\ fl.rtkey # NoKey)
    BY <1>5, <1>8 DEF ProgHolds
  <2>2. m + 1 \in W /\ ~(m + 1 <= m)
    BY <1>5, <1>6, <2>1
  <2>3. QED
    BY <1>3, <1>4, <1>5, <2>2, Standing
<1>9. ProgAt(n, m, kind, f)
  BY <1>1, <1>2, <1>4, <1>7, <1>8 DEF ProgAt, W, s, fl
<1>10. QED
  BY <1>5, <1>9

LEMMA ProgDone ==
  ASSUME RunsTyped, RunsEnd, NEW n \in Nat, NEW m \in 1 .. 15, NEW kind, NEW f, ProgAt(n, m, kind, f),
         run["prog"].todo # << >>, NEW h, NEW l, GoOn("prog", h, l),
         \A h1 : (ProgHolds(m, run["prog"].flags) => h1 = h) => ProgFacts(m, run["prog"].flags, h1, l, fs'),
         ~raced => LibraryFacts(m, imported', fs')
  PROVE  ProgInv'
<1>1. "prog" \in Process
  BY DEF Process
<1>2. /\ run'["prog"].todo = Tail(run["prog"].todo) /\ run'["prog"].flags = run["prog"].flags
      /\ Tail(run["prog"].todo) # << >> => run'["prog"].held = h
      /\ run'["prog"].lost = l /\ raced' = raced
  BY <1>1, GoOnIs
<1>3. ProgFacts(m, run'["prog"].flags, run'["prog"].held, run'["prog"].lost, fs')
  BY <1>2 DEF ProgAt
<1>4. Stands(run'["prog"].todo, ProgSteps, ProgAsked(run'["prog"].flags), m)
  BY <1>2 DEF ProgAt
<1>5. m \in Nat /\ (~raced' => LibraryFacts(m, imported', fs'))
  BY <1>2
<1>6. QED
  BY <1>3, <1>4, <1>5 DEF ProgInv

LEMMA ProgEnd ==
  ASSUME RunsTyped, RunsEnd, Fail("prog")
  PROVE  ProgInv'
<1>1. result'["prog"] = "failed"
  BY FailIs DEF Process
<1>2. QED
  BY <1>1 DEF ProgInv

(* Once it is built, the program is of the library it was built with.      *)
LEMMA LibraryKept ==
  ASSUME NEW n \in Nat, NEW m \in Nat, NEW im, NEW F, NEW G, LibraryFacts(n, im, F), 4 <= n, n < m
  PROVE  LibraryFacts(m, im, G)
  BY DEF LibraryFacts

LEMMA ProgWriteDone ==
  ASSUME FilesTyped, RunsTyped, RunsEnd,
         NEW n \in Nat, NEW m \in 1 .. 15, NEW kind, NEW f \in AppFiles, ProgAt(n, m, kind, f),
         run["prog"].todo # << >>, NEW c, NEW l1, Put(f, c), GoOn("prog", run["prog"].held, l1),
         run["prog"].lost \subseteq l1,
         ProgWrites(m, f, c, run["prog"].flags, run["prog"].held, l1),
         m = 4 => (~raced => LibraryFacts(m, imported', fs')), m # 4 => imported' = imported
  PROVE  ProgInv' /\ \A g \in LibFiles : fs'[g] = fs[g]
<1> DEFINE fl == run["prog"].flags
           h == run["prog"].held
           l == run["prog"].lost
<1>1. f \in Name
  BY FilesApart
<1>2. fs'[f] = c /\ \A g \in Name : g # f => fs'[g] = fs[g]
  BY <1>1, PutAt
<1>3. ProgBefore(n, m, fl) /\ ProgFacts(n, fl, h, l, fs) /\ m \in Nat /\ l \subseteq l1
      /\ (~raced => LibraryFacts(n, imported, fs))
  BY DEF ProgAt
<1>4. \A g \in AppFiles : g # f => fs'[g] = fs[g]
  BY <1>2, FilesApart
<1>5. ProgWrites(m, f, c, fl, h, l1)
  OBVIOUS
<1> HIDE DEF fl, h, l
<1>6. \A h1 : (ProgHolds(m, fl) => h1 = h) => ProgFacts(m, fl, h1, l1, fs')
  BY <1>2, <1>3, <1>4, <1>5, ProgWriteMoves
<1>7. ~raced => LibraryFacts(m, imported', fs')
  <2>1. CASE m = 4
    BY <2>1
  <2>2. CASE m # 4
    <3>1. 4 <= n /\ n < m
      BY <1>3, <1>5, <2>2 DEF ProgWrites, ProgBefore
    <3>2. QED
      BY <1>3, <2>2, <3>1, LibraryKept
  <2>3. QED
    BY <2>1, <2>2
<1>8. ProgInv'
  BY <1>6, <1>7, ProgDone DEF fl, h
<1>9. \A g \in LibFiles : fs'[g] = fs[g]
  BY <1>2, FilesApart
<1>10. QED
  BY <1>8, <1>9

(* The build compiles against a header whose checksum it verified: the     *)
(* archive it links is of the same emission.                               *)
LEMMA LinkedAsVerified ==
  ASSUME Dated(fs), NEW im, NEW im1, LibraryFacts(3, im, fs), HasText("m.hpp"),
         im1.signedLib = im.signedLib, im1.header = fs["m.hpp"], im1.archive = fs["libm.a"],
         NEW G
  PROVE  LibraryFacts(4, im1, G)
<1> SUFFICES ASSUME im1.signedLib, im1.archive \notin {Absent, Empty} PROVE im1.archive.api = im1.header.api
  BY DEF LibraryFacts
<1>1. fs["m.hpp.sha512"] = Digest(fs["m.hpp"])
  BY DEF LibraryFacts
<1>2. fs["libm.a"] \in Sources /\ fs["m.hpp"] \in Headers
  BY DEF Dated, HasText
<1>3. fs["m.hpp"].api <= fs["libm.a"].api /\ fs["libm.a"].api <= fs["m.hpp"].api
  BY <1>1, <1>2 DEF Dated
<1>4. fs["libm.a"].api \in Nat /\ fs["m.hpp"].api \in Nat
  BY <1>2 DEF Sources, Headers
<1>5. QED
  BY <1>3, <1>4

LEMMA ProgGoesOn ==
  ASSUME FilesTyped, RunsTyped, RunsEnd, Dated(fs), ProgInv, PurrcStep("prog")
  PROVE  /\ ProgInv' /\ Ran("prog") /\ DOMAIN imported' = {"header", "archive", "signedLib"}
         /\ \A g \in LibFiles : fs'[g] = fs[g]
<1> DEFINE h == run["prog"].held
           fl == run["prog"].flags
           D == DOMAIN imported' = {"header", "archive", "signedLib"}
           OK == ProgInv' /\ Ran("prog") /\ D /\ \A g \in LibFiles : fs'[g] = fs[g]
<1>t. ASSUME NEW kind, NEW f, At("prog", kind, f)
      PROVE  run["prog"].todo # << >> /\ \E n \in Nat : \E m \in 1 .. 15 : ProgAt(n, m, kind, f)
  BY <1>t, ProgTakes DEF At
<1>d. imported' = imported => D
  BY DEF RunsEnd
<1> HIDE DEF D
<1>e. ASSUME run["prog"].todo # << >>, Fail("prog"), UNCHANGED <<fs, imported>>
      PROVE  OK
  BY <1>d, <1>e, ProgEnd DEF Ran
<1>w. ASSUME NEW f \in AppFiles, NEW n \in Nat, NEW m \in 1 .. 15, NEW kind, ProgAt(n, m, kind, f), m # 4,
             At("prog", kind, f), imported' = imported, NEW c, NEW l,
             Put(f, c), GoOn("prog", h, l), run["prog"].lost \subseteq l, ProgWrites(m, f, c, fl, h, l)
      PROVE  OK
  BY <1>d, <1>t, <1>w, ProgWriteDone DEF Ran
<1>1. ASSUME NEW f \in Name, Open("prog", f) PROVE OK
  <2>1. At("prog", "open", f) /\ imported' = imported
    BY <1>1, Opens, Processes
  <2>2. PICK n \in Nat, m \in 1 .. 15 : ProgAt(n, m, "open", f)
    BY <1>t, <2>1
  <2>3. ProgSteps[m] = <<"open", f>>
    BY <2>2 DEF ProgAt
  <2>4. CASE UNCHANGED fs /\ Fail("prog")
    BY <1>e, <1>t, <2>1, <2>4
  <2>5. ASSUME NEW c, NEW l, Put(f, c), GoOn("prog", h, l), run["prog"].lost \subseteq l PROVE OK
    <3>1. f \in AppFiles /\ ProgWrites(m, f, c, fl, h, l) /\ m # 4
      BY <2>3, ProgStepIs DEF AppFiles, ProgWrites
    <3>2. QED
      BY <1>w, <2>1, <2>2, <2>5, <3>1
  <2>6. QED
    BY <1>1, <2>4, <2>5, Opens, Processes
<1>2. ASSUME NEW f \in Name, WriteOut("prog", f) PROVE OK
  <2>1. At("prog", "put", f) /\ imported' = imported
    BY <1>2, Puts, Processes
  <2>2. PICK n \in Nat, m \in 1 .. 15 : ProgAt(n, m, "put", f)
    BY <1>t, <2>1
  <2>3. ProgSteps[m] = <<"put", f>>
    BY <2>2 DEF ProgAt
  <2>4. CASE UNCHANGED fs /\ Fail("prog")
    BY <1>e, <1>t, <2>1, <2>4
  <2>5. ASSUME NEW c, NEW l, Put(f, c), GoOn("prog", h, l), run["prog"].lost \subseteq l,
               c = ContentOf("prog", f, h) \/ (c = fs[f] /\ f \in l)
        PROVE  OK
    <3>1. f \in AppFiles /\ ProgWrites(m, f, c, fl, h, l) /\ m # 4
      BY <2>3, <2>5, ProgStepIs, ContentIs DEF AppFiles, ProgWrites
    <3>2. QED
      BY <1>w, <2>1, <2>2, <2>5, <3>1
  <2>6. QED
    BY <1>2, <2>4, <2>5, Puts, Processes
<1>r. ASSUME NEW kind, NEW f, At("prog", kind, f), NEW h1, GoOn("prog", h1, run["prog"].lost), UNCHANGED <<fs, imported>>,
             \/ kind \in {"read", "source"} /\ h1 = fs[f]
             \/ kind = "manifest" /\ h1 = [toolchain |-> fl.toolchain]
      PROVE  OK
  <2>2. PICK n \in Nat, m \in 1 .. 15 : ProgAt(n, m, kind, f)
    BY <1>t, <1>r
  <2>3. /\ ProgSteps[m] = <<kind, f>> /\ ProgBefore(n, m, fl) /\ ProgFacts(n, fl, h, run["prog"].lost, fs)
        /\ ~raced => LibraryFacts(n, imported, fs)
    BY <2>2 DEF ProgAt
  <2>4. \/ m \in {5, 8} /\ h1 = fs["app.so"]
        \/ m = 11 /\ h1 = [toolchain |-> fl.toolchain]
    BY <1>r, <2>3, ProgStepIs
  <2>5. ProgFacts(m, fl, h1, run["prog"].lost, fs) /\ ProgHolds(m, fl)
    <3>1. m \in Nat /\ ProgHolds(m, fl)
      BY <2>4 DEF ProgHolds
    <3> HIDE DEF h, fl
    <3>2. ProgFacts(m, fl, h1, run["prog"].lost, fs)
      BY <2>3, <2>4, <3>1, ProgReadMoves DEF fl
    <3>3. QED
      BY <3>1, <3>2
  <2>6. ~raced => LibraryFacts(m, imported, fs)
    <3>1. 4 <= n /\ n < m
      BY <2>3, <2>4 DEF ProgBefore
    <3>2. QED
      BY <2>3, <3>1, LibraryKept
  <2>7. ProgInv'
    BY <1>r, <1>t, <2>2, <2>5, <2>6, ProgDone
  <2>8. QED
    BY <1>d, <1>r, <1>t, <2>7 DEF Ran
<1>3. ASSUME NEW f \in Name, Read("prog", f) PROVE OK
  <2>1. \E kind \in {"read", "source"} :
          At("prog", kind, f) /\ GoOn("prog", fs[f], run["prog"].lost) /\ UNCHANGED <<fs, imported>>
    BY <1>3 DEF Read, Done
  <2>2. QED
    BY <1>r, <2>1
<1>4. ASSUME Fingerprint("prog") PROVE OK
  <2>1. At("prog", "manifest", "app.so.rt") /\ UNCHANGED <<fs, imported>>
        /\ GoOn("prog", [toolchain |-> fl.toolchain], run["prog"].lost)
    BY <1>4 DEF Fingerprint, Done
  <2>2. QED
    BY <1>r, <2>1
<1>5. ASSUME NEW f \in Name, Verify("prog", f, Trusted) PROVE OK
  <2>1. /\ At("prog", "verify", f) /\ UNCHANGED <<fs, imported>>
        /\ GoOn("prog", h, run["prog"].lost) \/ Fail("prog")
    BY <1>5 DEF Verify, Done
  <2>2. CASE Fail("prog")
    BY <1>e, <1>t, <2>1, <2>2
  <2>3. CASE GoOn("prog", h, run["prog"].lost) /\ ~Fail("prog")
    <3>1. \/ ~imported.signedLib
          \/ f = "libm.a" /\ imported.archive = Absent
          \/ Accepted(f, Trusted)
      BY <1>5, <2>3 DEF Verify
    <3>2. PICK n \in Nat, m \in 1 .. 15 : ProgAt(n, m, "verify", f)
      BY <1>t, <2>1
    <3>3. /\ ProgSteps[m] = <<"verify", f>> /\ ProgBefore(n, m, fl) /\ ProgFacts(n, fl, h, run["prog"].lost, fs)
          /\ ~raced => LibraryFacts(n, imported, fs)
      BY <3>2 DEF ProgAt
    <3>4. (m = 2 /\ f = "m.hpp") \/ (m = 3 /\ f = "libm.a")
      BY <3>3, ProgStepIs
    <3>5. n = m - 1 /\ ProgFacts(m, fl, h, run["prog"].lost, fs) /\ ProgHolds(m, fl)
      BY <3>3, <3>4, ProgReadMoves DEF ProgBefore, ProgHolds
    <3>6. ~raced => LibraryFacts(m, imported, fs)
      <4>1. CASE m = 2 /\ f = "m.hpp"
        <5>1. imported.signedLib => fs["m.hpp.sha512"] = Digest(fs["m.hpp"])
          BY <3>1, <4>1 DEF Accepted, SumFits, Sum
        <5>2. QED
          BY <4>1, <5>1 DEF LibraryFacts
      <4>2. CASE m = 3
        BY <3>3, <3>5, <4>2 DEF LibraryFacts
      <4>3. QED
        BY <3>4, <4>1, <4>2
    <3>7. ProgInv'
      BY <1>t, <2>1, <2>3, <3>2, <3>5, <3>6, ProgDone
    <3>8. QED
      BY <1>d, <1>t, <2>1, <2>3, <3>7 DEF Ran
  <2>4. QED
    BY <2>1, <2>2, <2>3
<1>6. ASSUME MakeArchive("prog") \/ RemoveImpl("prog") PROVE OK
  <2>1. At("prog", "archive", "libm.a") \/ At("prog", "remove", "m.impl")
    BY <1>6 DEF MakeArchive, RemoveImpl
  <2>2. PICK n \in Nat, m \in 1 .. 15 :
          ProgSteps[m] = <<"archive", "libm.a">> \/ ProgSteps[m] = <<"remove", "m.impl">>
    BY <1>t, <2>1 DEF ProgAt
  <2>3. QED
    BY <2>2, ProgStepIs
<1>7. ASSUME Resolve("prog") PROVE OK
  <2>1. At("prog", "resolve", "m.hpp") /\ UNCHANGED fs
    BY <1>7 DEF Resolve
  <2>2. CASE UNCHANGED imported /\ Fail("prog")
    BY <1>e, <1>t, <2>1, <2>2
  <2>3. CASE ~(UNCHANGED imported /\ Fail("prog"))
    <3>1. /\ imported' = [header |-> fs["m.hpp"], archive |-> fs["libm.a"], signedLib |-> Exists(Sum("m.hpp"))]
          /\ GoOn("prog", h, run["prog"].lost)
      BY <1>7, <2>3 DEF Resolve, Done
    <3>2. PICK n \in Nat, m \in 1 .. 15 : ProgAt(n, m, "resolve", "m.hpp")
      BY <1>t, <2>1
    <3>3. ProgSteps[m] = <<"resolve", "m.hpp">> /\ ProgBefore(n, m, fl) /\ ProgFacts(n, fl, h, run["prog"].lost, fs)
      BY <3>2 DEF ProgAt
    <3>4. m = 1
      BY <3>3, ProgStepIs
    <3>5. ProgFacts(m, fl, h, run["prog"].lost, fs) /\ ProgHolds(m, fl)
      BY <3>3, <3>4, ProgReadMoves DEF ProgHolds
    <3>6. LibraryFacts(m, imported', fs')
      BY <3>4 DEF LibraryFacts
    <3>7. ProgInv'
      BY <1>t, <2>1, <3>1, <3>2, <3>5, <3>6, ProgDone
    <3>8. D
      BY <3>1 DEF D
    <3>9. QED
      BY <1>t, <2>1, <3>1, <3>7, <3>8 DEF Ran
  <2>4. QED
    BY <2>2, <2>3
<1>8. ASSUME Backend("prog") PROVE OK
  <2>1. At("prog", "backend", "app.so")
    BY <1>8 DEF Backend
  <2>2. CASE UNCHANGED <<fs, imported>> /\ Fail("prog")
    BY <1>e, <1>t, <2>1, <2>2
  <2>3. CASE ~(UNCHANGED <<fs, imported>> /\ Fail("prog"))
    <3>1. PICK l :
            /\ HasText("m.hpp") /\ GoOn("prog", h, run["prog"].lost)
            /\ imported' = [imported EXCEPT !.header = fs["m.hpp"], !.archive = fs["libm.a"]]
            /\ Put("app.so", [lib |-> l, header |-> fs["m.hpp"], by |-> [toolchain |-> fl.toolchain]])
      BY <1>8, <2>3 DEF Backend, Done
    <3> DEFINE c == [lib |-> l, header |-> fs["m.hpp"], by |-> [toolchain |-> fl.toolchain]]
    <3>2. PICK n \in Nat, m \in 1 .. 15 : ProgAt(n, m, "backend", "app.so")
      BY <1>t, <2>1
    <3>3. /\ ProgSteps[m] = <<"backend", "app.so">> /\ ProgBefore(n, m, fl)
          /\ ~raced => LibraryFacts(n, imported, fs)
      BY <3>2 DEF ProgAt
    <3>4. m = 4 /\ n = 3
      BY <3>3, ProgStepIs DEF ProgBefore
    <3>5. c.by = [toolchain |-> fl.toolchain]
      OBVIOUS
    <3>6. "app.so" \in AppFiles /\ ProgWrites(m, "app.so", c, fl, h, run["prog"].lost)
      BY <3>4, <3>5 DEF AppFiles, ProgWrites
    <3>7. /\ imported'.signedLib = imported.signedLib /\ imported'.header = fs["m.hpp"]
          /\ imported'.archive = fs["libm.a"] /\ D
      BY <3>1 DEF RunsEnd, D
    <3>8. ~raced => LibraryFacts(4, imported', fs')
      BY <3>1, <3>3, <3>4, <3>7, LinkedAsVerified
    <3> HIDE DEF c
    <3>9. ProgInv' /\ \A g \in LibFiles : fs'[g] = fs[g]
      BY <1>t, <2>1, <3>1, <3>2, <3>4, <3>6, <3>8, ProgWriteDone DEF c
    <3>10. QED
      BY <1>t, <2>1, <3>1, <3>7, <3>9 DEF Ran
  <2>4. QED
    BY <2>2, <2>3
<1>9. ASSUME KillRun("prog") PROVE OK
  BY <1>e, <1>9 DEF KillRun
<1>10. OK
  BY <1>1, <1>2, <1>3, <1>4, <1>5, <1>6, <1>7, <1>8, <1>9 DEF PurrcStep, FileStep
<1>11. QED
  BY <1>10 DEF D
-----------------------------------------------------------------------------
(* What biome generates from is a valid manifest that somebody saved, and  *)
(* the host holds the descriptor while it checks and no longer.            *)
BiomeSound ==
  /\ fs["CMakeLists.txt"] \in (SUBSET Members) \union {Absent, Empty}
  /\ tree \in (SUBSET Members) \union {NoTree, Absent, Empty}
  /\ built \in (SUBSET Members) \union {Absent}
  /\ OnlySavedIsBuilt
  /\ {} \in asked /\ Manifest \in asked \union {Absent}
  /\ biome.todo \in Generating => biome.held \in asked

HostClosed == host.fd => host.pc \in {"sum", "sig", "rt", "rtsig", "load"}

LInv == Dated(fs) /\ LibInv /\ ProgInv /\ Alone /\ RunsEnd /\ BiomeSound /\ HostClosed

(* What a process does not touch it does not disturb.                      *)
LEMMA LibWaits ==
  ASSUME LibInv, Dated(fs), run'["lib"] = run["lib"], result'["lib"] = result["lib"],
         \A g \in LibFiles : fs'[g] = fs[g]
  PROVE  LibInv' /\ Dated(fs')
<1>1. /\ fs'["m.purr"] = fs["m.purr"] /\ fs'["m.hpp"] = fs["m.hpp"] /\ fs'["m.hpp.sha512"] = fs["m.hpp.sha512"]
      /\ fs'["m.hpp.sig"] = fs["m.hpp.sig"] /\ fs'["m.impl"] = fs["m.impl"] /\ fs'["libm.a"] = fs["libm.a"]
      /\ fs'["libm.a.sha512"] = fs["libm.a.sha512"] /\ fs'["libm.a.sig"] = fs["libm.a.sig"]
  BY DEF LibFiles
<1>2. Dated(fs')
  BY <1>1 DEF Dated
<1>3. \A n \in Nat : \A k, h, l : LibFacts(n, k, h, l, fs) => LibFacts(n, k, h, l, fs')
  BY <1>1 DEF LibFacts
<1>4. LibInv'
  BY <1>3 DEF LibInv
<1>5. QED
  BY <1>2, <1>4

LEMMA ProgWaits ==
  ASSUME ProgInv, RunsEnd, run'["prog"] = run["prog"], result'["prog"] = result["prog"],
         imported' = imported, \A g \in AppFiles : fs'[g] = fs[g],
         ~raced' => ~raced /\ (result["prog"] = "ok" \/ \A g \in LibFiles \ {"m.purr"} : fs'[g] = fs[g])
  PROVE  ProgInv'
<1> SUFFICES ASSUME result["prog"] \in {"running", "ok"}
    PROVE  \E n \in Nat : /\ Stands(run["prog"].todo, ProgSteps, ProgAsked(run["prog"].flags), n)
                          /\ ProgFacts(n, run["prog"].flags, run["prog"].held, run["prog"].lost, fs')
                          /\ ~raced' => LibraryFacts(n, imported, fs')
  BY DEF ProgInv
<1> DEFINE W == ProgAsked(run["prog"].flags)
<1>1. PICK n \in Nat : /\ Stands(run["prog"].todo, ProgSteps, W, n)
                       /\ ProgFacts(n, run["prog"].flags, run["prog"].held, run["prog"].lost, fs)
                       /\ ~raced => LibraryFacts(n, imported, fs)
  BY DEF ProgInv
<1>2. /\ fs'["app.so"] = fs["app.so"] /\ fs'["app.so.sha512"] = fs["app.so.sha512"]
      /\ fs'["app.so.sig"] = fs["app.so.sig"] /\ fs'["app.so.rt"] = fs["app.so.rt"]
      /\ fs'["app.so.rt.sig"] = fs["app.so.rt.sig"]
  BY DEF AppFiles
<1>3. ProgFacts(n, run["prog"].flags, run["prog"].held, run["prog"].lost, fs')
  BY <1>1, <1>2 DEF ProgFacts
<1>4. ASSUME ~raced' PROVE LibraryFacts(n, imported, fs')
  <2>1. LibraryFacts(n, imported, fs)
    BY <1>1, <1>4
  <2>2. CASE result["prog"] = "ok"
    <3>1. run["prog"].todo = << >>
      BY <2>2 DEF RunsEnd, Process
    <3>2. 4 \in W /\ W \subseteq Nat \ {0}
      BY SMTT(30), AskedTyped DEF ProgAsked
    <3> HIDE DEF W
    <3>3. 4 <= n
      BY <1>1, <3>1, <3>2, Standing
    <3>4. QED
      BY <2>1, <3>3 DEF LibraryFacts
  <2>3. CASE \A g \in LibFiles \ {"m.purr"} : fs'[g] = fs[g]
    <3>1. fs'["m.hpp.sha512"] = fs["m.hpp.sha512"] /\ fs'["m.hpp"] = fs["m.hpp"]
      BY <2>3 DEF LibFiles
    <3>2. QED
      BY <2>1, <3>1 DEF LibraryFacts
  <2>4. QED
    BY <1>4, <2>2, <2>3
<1>5. QED
  BY <1>1, <1>3, <1>4

LEMMA RanEnds ==
  ASSUME RunsTyped, RunsEnd, NEW p \in Process, Ran(p), DOMAIN imported' = {"header", "archive", "signedLib"}
  PROVE  /\ RunsEnd' /\ raced' = raced
         /\ \A q \in Process : q # p => run'[q] = run[q] /\ result'[q] = result[q]
         /\ result'[p] = "running" => result[p] = "running"
<1>1. /\ \A q \in Process : q # p => run'[q] = run[q] /\ result'[q] = result[q]
      /\ DOMAIN result' = Process /\ raced' = raced /\ run'[p].flags \in {run[p].flags, NoFlags}
      /\ result'[p] \in {"running", "ok", "failed"}
      /\ (result'[p] = "running") <=> run'[p].todo # << >>
  <2>1. CASE \E h, l : GoOn(p, h, l)
    BY <2>1, GoOnIs DEF Ran
  <2>2. CASE Fail(p)
    BY <2>2, FailIs
  <2>3. QED
    BY <2>1, <2>2 DEF Ran
<1>2. result[p] = "running"
  BY DEF Ran, RunsEnd
<1>3. run'["lib"].flags \in {run["lib"].flags, NoFlags}
  BY <1>1, Processes
<1>4. \A q \in Process : /\ result'[q] \in {"none", "running", "ok", "failed"}
                        /\ (result'[q] = "running") <=> run'[q].todo # << >>
  BY <1>1 DEF RunsEnd
<1>5. RunsEnd'
  BY <1>1, <1>3, <1>4 DEF RunsEnd
<1>6. QED
  BY <1>1, <1>2, <1>5

LEMMA StartEnds ==
  ASSUME RunsTyped, RunsEnd, NEW p \in Process, NEW fl, Start(p, fl), p = "lib" => fl \in LibFlags
  PROVE  RunsEnd'
<1>1. /\ \A q \in Process : q # p => run'[q] = run[q] /\ result'[q] = result[q]
      /\ DOMAIN result' = Process /\ run'[p].flags = fl /\ result'[p] = "running"
      /\ run'[p].todo = Script(p, fl)
  BY StartIs
<1>2. Script(p, fl) # << >>
  <2>1. Lists(Script(p, fl), IF p = "lib" THEN LibSteps ELSE ProgSteps,
              IF p = "lib" THEN LibAsked(fl) ELSE ProgAsked(fl))
    BY LibScriptLists, ProgScriptLists DEF Script
  <2> DEFINE M == IF p = "lib" THEN LibSteps ELSE ProgSteps
             W == IF p = "lib" THEN LibAsked(fl) ELSE ProgAsked(fl)
             s == Script(p, fl)
  <2>2. 1 \in W /\ W \subseteq Nat \ {0}
    BY AskedTyped DEF LibAsked, ProgAsked
  <2>3. Lists(s, M, W)
    BY <2>1
  <2> HIDE DEF M, W, s
  <2>4. Stands(s, M, W, 0)
    BY <2>2, <2>3, Standing
  <2>5. s # << >>
    <3>1. 0 \in Nat /\ ~(1 <= 0)
      OBVIOUS
    <3>2. QED
      BY <2>2, <2>4, <3>1, Standing
  <2>6. QED
    BY <2>5 DEF s
<1>3. DOMAIN imported' = {"header", "archive", "signedLib"}
  BY DEF Start, Nothing, RunsEnd
<1>4. run'["lib"].flags = NoFlags \/ run'["lib"].flags \in LibFlags
  BY <1>1, Processes DEF RunsEnd
<1>5. \A q \in Process : /\ result'[q] \in {"none", "running", "ok", "failed"}
                        /\ (result'[q] = "running") <=> run'[q].todo # << >>
  BY <1>1, <1>2 DEF RunsEnd
<1>6. QED
  BY <1>1, <1>3, <1>4, <1>5 DEF RunsEnd

(* Steps of purrc and of the author of m.                                  *)
LInvPurrc == Dated(fs) /\ LibInv /\ ProgInv /\ Alone /\ RunsEnd

LEMMA LibStepKeeps ==
  ASSUME FilesTyped, RunsTyped, LInvPurrc, LibStep
  PROVE  LInvPurrc'
<1> USE DEF LInvPurrc
<1>1. CASE PurrcStep("lib")
  <2>1. /\ LibInv' /\ Dated(fs') /\ Ran("lib") /\ imported' = imported
        /\ \A g \in AppFiles : fs'[g] = fs[g]
    BY <1>1, LibGoesOn
  <2>2. /\ RunsEnd' /\ raced' = raced /\ run'["prog"] = run["prog"] /\ result'["prog"] = result["prog"]
    BY <2>1, RanEnds, Processes DEF RunsEnd
  <2>3. ~raced => result["prog"] # "running"
    BY <2>1 DEF Ran, Alone
  <2>4. Alone'
    BY <2>2, <2>3 DEF Alone
  <2>5. ProgInv'
    <3>1. CASE result["prog"] \in {"running", "ok"}
      <4>1. ~raced' => ~raced /\ result["prog"] = "ok"
        BY <2>2, <2>3, <3>1
      <4>2. QED
        BY <2>1, <2>2, <4>1, ProgWaits
    <3>2. CASE result["prog"] \notin {"running", "ok"}
      BY <2>2, <3>2 DEF ProgInv
    <3>3. QED
      BY <3>1, <3>2
  <2>6. QED
    BY <2>1, <2>2, <2>4, <2>5
<1>2. ASSUME NEW fl \in LibFlags, Start("lib", fl) PROVE LInvPurrc'
  <2>1. /\ run'["lib"].todo = LibScript(fl) /\ run'["lib"].flags = fl /\ result'["lib"] = "running"
        /\ run'["prog"] = run["prog"] /\ result'["prog"] = result["prog"]
    BY <1>2, StartIs, Processes DEF Script
  <2>2. /\ fs' = fs /\ imported' = imported
        /\ raced' = (raced \/ run["prog"].todo # << >>)
    BY <1>2 DEF Start
  <2>3. RunsEnd'
    BY <1>2, StartEnds, Processes
  <2>4. LibInv'
    <3>1. Lists(LibScript(fl), LibSteps, LibAsked(fl)) /\ LibAsked(fl) \subseteq Nat \ {0}
      BY LibScriptLists, AskedTyped
    <3>2. Stands(LibScript(fl), LibSteps, LibAsked(fl), 0)
      BY <3>1, Standing
    <3>3. LibFacts(0, fl.key, run'["lib"].held, run'["lib"].lost, fs')
      BY DEF LibFacts
    <3>4. 0 \in Nat
      OBVIOUS
    <3>5. QED
      BY <2>1, <3>2, <3>3, <3>4 DEF LibInv
  <2>5. Alone'
    BY <2>1, <2>2, Processes DEF Alone, RunsEnd
  <2>6. ProgInv'
    BY <2>1, <2>2, ProgWaits
  <2>7. QED
    BY <2>2, <2>3, <2>4, <2>5, <2>6
<1>3. ASSUME NEW part \in {"api", "body"}, EditSource(part) PROVE LInvPurrc'
  <2> DEFINE src == fs["m.purr"]
             new == [fs["m.purr"] EXCEPT ![part] = @ + 1]
  <2>1. Put("m.purr", new) /\ UNCHANGED <<run, result, imported, raced>>
    BY <1>3 DEF EditSource
  <2>2. src \in Sources
    BY DEF Dated
  <2>3. new \in Sources /\ src.api <= new.api /\ src.api \in Nat /\ new.api \in Nat
    BY <2>2 DEF Sources
  <2>4. fs'["m.purr"] = new /\ \A g \in Name : g # "m.purr" => fs'[g] = fs[g]
    <3>1. "m.purr" \in Name
      BY DEF Name
    <3>2. QED
      BY <2>1, <3>1, PutAt
  <2>5. /\ fs'["m.hpp"] = fs["m.hpp"] /\ fs'["m.hpp.sha512"] = fs["m.hpp.sha512"]
        /\ fs'["m.hpp.sig"] = fs["m.hpp.sig"] /\ fs'["m.impl"] = fs["m.impl"] /\ fs'["libm.a"] = fs["libm.a"]
        /\ fs'["libm.a.sha512"] = fs["libm.a.sha512"] /\ fs'["libm.a.sig"] = fs["libm.a.sig"]
    BY <2>4 DEF Name
  <2>6. \A a \in Nat : a <= src.api => a <= new.api
    BY <2>3
  <2> HIDE DEF new
  <2>7. Dated(fs')
    <3>1. fs["m.hpp"] \in Headers => fs["m.hpp"].api \in Nat
      BY DEF Headers
    <3>2. fs["libm.a"] \in Sources => fs["libm.a"].api \in Nat
      BY DEF Sources
    <3>3. \A c \in Headers : c.api \in Nat
      BY DEF Headers
    <3>4. QED
      BY <2>3, <2>4, <2>5, <2>6, <3>1, <3>2, <3>3 DEF Dated
  <2>8. \A n \in Nat : \A k, h, l : LibFacts(n, k, h, l, fs) => LibFacts(n, k, h, l, fs')
    <3> TAKE n \in Nat
    <3> TAKE k, h, l
    <3>1. h \in Sources => h.api \in Nat
      BY DEF Sources
    <3>2. QED
      BY <2>4, <2>5, <2>6, <3>1 DEF LibFacts
  <2>9. LibInv'
    BY <2>1, <2>8 DEF LibInv
  <2>10. \A g \in AppFiles \union (LibFiles \ {"m.purr"}) : g \in Name /\ g # "m.purr"
    BY FilesApart DEF AppFiles
  <2>11. ProgInv'
    BY <2>1, <2>4, <2>10, ProgWaits
  <2>12. Alone' /\ RunsEnd'
    BY <2>1 DEF Alone, RunsEnd
  <2>13. QED
    BY <2>7, <2>9, <2>11, <2>12
<1>4. QED
  BY <1>1, <1>2, <1>3 DEF LibStep

LEMMA ProgStepKeeps ==
  ASSUME FilesTyped, RunsTyped, LInvPurrc, ProgStep
  PROVE  LInvPurrc'
<1> USE DEF LInvPurrc
<1>1. CASE PurrcStep("prog")
  <2>1. /\ ProgInv' /\ Ran("prog") /\ DOMAIN imported' = {"header", "archive", "signedLib"}
        /\ \A g \in LibFiles : fs'[g] = fs[g]
    BY <1>1, ProgGoesOn
  <2>2. /\ RunsEnd' /\ raced' = raced /\ run'["lib"] = run["lib"] /\ result'["lib"] = result["lib"]
        /\ result'["prog"] = "running" => result["prog"] = "running"
    BY <2>1, RanEnds, Processes
  <2>3. Alone'
    BY <2>2 DEF Alone
  <2>4. LibInv' /\ Dated(fs')
    BY <2>1, <2>2, LibWaits
  <2>5. QED
    BY <2>1, <2>2, <2>3, <2>4
<1>2. ASSUME NEW fl \in ProgFlags, Start("prog", fl) PROVE LInvPurrc'
  <2>1. /\ run'["prog"].todo = ProgScript(fl) /\ run'["prog"].flags = fl /\ result'["prog"] = "running"
        /\ run'["lib"] = run["lib"] /\ result'["lib"] = result["lib"]
    BY <1>2, StartIs, Processes DEF Script
  <2>2. fs' = fs /\ raced' = (run["lib"].todo # << >>)
    BY <1>2 DEF Start
  <2>3. RunsEnd'
    BY <1>2, StartEnds, Processes
  <2>4. ProgInv'
    <3>1. Lists(ProgScript(fl), ProgSteps, ProgAsked(fl)) /\ ProgAsked(fl) \subseteq Nat \ {0}
      BY ProgScriptLists, AskedTyped
    <3>2. Stands(ProgScript(fl), ProgSteps, ProgAsked(fl), 0)
      BY <3>1, Standing
    <3>3. ProgFacts(0, fl, run'["prog"].held, run'["prog"].lost, fs') /\ LibraryFacts(0, imported', fs')
      BY DEF ProgFacts, LibraryFacts
    <3>4. 0 \in Nat
      OBVIOUS
    <3>5. QED
      BY <2>1, <3>2, <3>3, <3>4 DEF ProgInv
  <2>5. Alone'
    BY <2>1, <2>2 DEF Alone
  <2>6. LibInv' /\ Dated(fs')
    BY <2>1, <2>2, LibWaits
  <2>7. QED
    BY <2>3, <2>4, <2>5, <2>6
<1>3. QED
  BY <1>1, <1>2 DEF ProgStep

(* Steps of biome and of the host.                                         *)
LEMMA OthersKeep ==
  ASSUME LInvPurrc, UNCHANGED purrcVars, \A g \in LibFiles \union AppFiles : fs'[g] = fs[g]
  PROVE  LInvPurrc'
<1> USE DEF LInvPurrc
<1>1. UNCHANGED <<run, result, imported, raced>>
  BY DEF purrcVars
<1>2. LibInv' /\ Dated(fs')
  BY <1>1, LibWaits
<1>3. ProgInv'
  BY <1>1, ProgWaits
<1>4. Alone' /\ RunsEnd'
  BY <1>1 DEF Alone, RunsEnd
<1>5. QED
  BY <1>2, <1>3, <1>4
LEMMA BiomeApart ==
  ASSUME FilesTyped, BiomeTyped, BiomeNext
  PROVE  \A g \in LibFiles \union AppFiles : fs'[g] = fs[g]
<1>1. \A g \in LibFiles \union AppFiles : g \in Name /\ g \notin BiomeFiles
  BY FilesApart DEF PurrcFiles
<1>2. (\E f \in BiomeFiles : \E c : Put(f, c)) \/ UNCHANGED fs
  <2>1. CASE WriteFile
    <3>1. biome.todo # << >> /\ File \in BiomeFiles
      BY <2>1, Pendings DEF WriteFile, Truncate, WriteText, LoseText, File, BiomeTyped
    <3>2. (\E c : Put(File, c)) \/ UNCHANGED fs
      BY <2>1 DEF WriteFile, Truncate, WriteText, LoseText
    <3>3. QED
      BY <3>1, <3>2
  <2>2. CASE \E m \in SUBSET Extensions : EditManifest(m)
    BY <2>2, BiomeNames DEF EditManifest
  <2>3. CASE InitProject \/ (\E e \in Extensions : Add(e) \/ Remove(e)) \/ Configure \/ Build
    BY <2>3 DEF InitProject, Add, Remove, Save, Configure, Build, Begin, NothingToDo
  <2>4. CASE RunConfigure \/ RunBuild \/ Kill
    BY <2>4 DEF RunConfigure, RunBuild, Kill
  <2>5. QED
    BY <2>1, <2>2, <2>3, <2>4 DEF BiomeNext
<1>3. BiomeFiles \subseteq Name
  BY DEF BiomeFiles, Name
<1>4. CASE \E f \in BiomeFiles : \E c : Put(f, c)
  <2>1. PICK f \in BiomeFiles : \E c : Put(f, c)
    BY <1>4
  <2>2. \A g \in Name : g # f => fs'[g] = fs[g]
    BY <1>3, <2>1, PutAt
  <2>3. QED
    BY <1>1, <2>2
<1>5. QED
  BY <1>2, <1>4

(* The manifest that a file's content is read as.                          *)
LEMMA ManifestIs ==
  /\ \A m \in SUBSET Extensions : AsRead(m) = m /\ m \notin {Absent, Empty, NoTree}
  /\ AsRead(Empty) = {}
  /\ Manifest # Absent => fs["cheatah.toml"] # Absent
  /\ fs["cheatah.toml"] # Absent => Manifest # Absent
<1>1. \A m \in SUBSET Extensions : m \notin {Absent, Empty, NoTree}
  BY BiomeAssumption
<1>2. {} \in SUBSET Extensions /\ Absent # Empty
  BY BiomeAssumption
<1>3. QED
  BY <1>1, <1>2 DEF AsRead, Manifest

LEMMA BiomeSoundKept ==
  ASSUME FilesTyped, SignaturesAreSigned, BiomeTyped, BiomeSound, signed' = signed, BiomeNext
  PROVE  BiomeSound'
<1> DEFINE toml == fs["cheatah.toml"]
           cmake == fs["CMakeLists.txt"]
           X == (SUBSET Members) \union {Absent, Empty}
           T == (SUBSET Members) \union {NoTree, Absent, Empty}
           B == (SUBSET Members) \union {Absent}
           A == asked \union {NoTree, Absent, Empty}
<1>0. /\ cmake \in X /\ tree \in T /\ built \in B /\ {cmake, tree, built} \subseteq A
      /\ {} \in asked /\ Manifest \in asked \union {Absent}
      /\ biome.todo \in Generating => biome.held \in asked
  BY DEF BiomeSound, OnlySavedIsBuilt
(* The next state is sound, its files and histories one by one.            *)
<1>s. ASSUME asked \subseteq asked', fs'["CMakeLists.txt"] \in X, tree' \in T, built' \in B,
             {fs'["CMakeLists.txt"], tree', built'} \subseteq asked' \union {NoTree, Absent, Empty},
             AsRead(fs'["cheatah.toml"]) \in asked' \union {Absent},
             biome'.todo \in Generating => biome'.held \in asked'
      PROVE  BiomeSound'
  <2>1. Manifest' = AsRead(fs'["cheatah.toml"])
    BY DEF Manifest, AsRead
  <2>2. OnlySavedIsBuilt'
    BY <1>s DEF OnlySavedIsBuilt
  <2>3. {} \in asked'
    BY <1>0, <1>s
  <2>4. QED
    BY <1>s, <2>1, <2>2, <2>3 DEF BiomeSound
<1>m. AsRead(toml) \in asked \union {Absent}
  BY <1>0 DEF Manifest
(* Nothing is written, and biome generates nothing it did not before.      *)
<1>i. ASSUME UNCHANGED <<fs, tree, built, asked>>, biome'.todo \in Generating => biome'.held \in asked
      PROVE  BiomeSound'
  <2>1. fs'["CMakeLists.txt"] = cmake /\ fs'["cheatah.toml"] = toml /\ tree' = tree /\ built' = built /\ asked' = asked
    BY <1>i
  <2> HIDE DEF cmake, toml, X, T, B
  <2>2. QED
    BY <1>0, <1>i, <1>m, <1>s, <2>1
<1>n. << >> \notin Generating /\ Scaffold \notin Generating /\ Update \notin Generating
  BY Pendings
<1>d. ASSUME NEW c, NothingToDo(c) PROVE BiomeSound'
  BY <1>0, <1>d, <1>i DEF NothingToDo
<1>b. ASSUME NEW c, NEW m, NEW t, Begin(c, m, t), t \in Generating => m \in asked PROVE BiomeSound'
  <2>1. biome' = [cmd |-> c, held |-> m, todo |-> t, opened |-> FALSE] /\ UNCHANGED <<fs, tree, built, asked>>
    BY <1>b DEF Begin
  <2>2. biome'.todo = t /\ biome'.held = m
    BY <2>1
  <2>3. QED
    BY <1>b, <1>i, <2>1, <2>2
<1>1. CASE InitProject
  BY <1>1, <1>b, <1>n DEF InitProject
<1>2. CASE \E e \in Extensions : Add(e) \/ Remove(e)
  BY <1>2, <1>b, <1>d, <1>n DEF Add, Remove, Save
<1>3. CASE Configure
  <2>1. toml # Absent
    BY <1>3 DEF Configure, Exists
  <2>2. Manifest \in asked
    BY <1>0, <2>1, ManifestIs
  <2>3. QED
    BY <1>3, <1>b, <1>d, <2>2 DEF Configure
<1>4. CASE Build
  BY <1>4, <1>b, <1>d, <1>n DEF Build
(* One file of a command.                                                  *)
<1>f. ASSUME biome.todo # << >>
      PROVE  /\ File \in BiomeFiles /\ biome.held \in SUBSET Members /\ biome.held \in SUBSET Extensions
             /\ File = "CMakeLists.txt" => biome.held \in asked
             /\ NextFile => (biome'.todo \in Generating => biome'.held = biome.held)
             /\ NextFile /\ File # "cheatah.toml" => (biome'.todo \in Generating => biome'.held \in asked)
  <2>1. /\ Head(biome.todo) \in BiomeFiles
        /\ Head(biome.todo) = "CPM.cmake" => biome.todo \in Generating
        /\ Head(biome.todo) = "CMakeLists.txt" => biome.todo \in Generating
    BY <1>f, Pendings DEF BiomeTyped
  <2>2. biome.held \in SUBSET Members /\ biome.held \in SUBSET Extensions
    BY <1>f, BiomeAssumption DEF BiomeTyped
  <2>3. NextFile => (biome'.todo \in Generating => biome'.held = biome.held)
    BY <1>f, <1>n, Continuing
  <2>4. File # "cheatah.toml" => biome.held \in asked
    BY <1>0, <2>1 DEF File, BiomeFiles
  <2>5. QED
    BY <1>0, <2>1, <2>2, <2>3, <2>4 DEF File
<1>5. CASE WriteFile
  <2>1. biome.todo # << >> /\ UNCHANGED <<tree, built>>
    BY <1>5 DEF WriteFile, Truncate, WriteText, LoseText
  <2> DEFINE saved == IF File = "cheatah.toml" THEN asked \union {biome.held} ELSE asked
  <2>2. /\ File \in BiomeFiles /\ biome.held \in SUBSET Members /\ biome.held \in SUBSET Extensions
        /\ File = "CMakeLists.txt" => biome.held \in asked
        /\ NextFile => (biome'.todo \in Generating => biome'.held = biome.held)
        /\ NextFile /\ File # "cheatah.toml" => (biome'.todo \in Generating => biome'.held \in asked)
    BY <1>f, <2>1
  <2>3. NextFile => (biome'.todo \in Generating => biome'.held \in saved)
    BY <2>2
  <2>4. asked \subseteq saved /\ (File = "cheatah.toml" => biome.held \in saved)
    OBVIOUS
  <2> HIDE DEF saved
  <2>5. AsRead(biome.held) = biome.held /\ AsRead(Empty) = {}
    BY <2>2, ManifestIs
  <2>w. ASSUME NEW c \in {Empty, biome.held}, Put(File, c), asked \subseteq asked',
               File = "cheatah.toml" => AsRead(c) \in asked',
               biome'.todo \in Generating => biome'.held \in asked'
        PROVE  BiomeSound'
    <3>1. fs'[File] = c /\ \A g \in BiomeFiles : g # File => fs'[g] = fs[g]
      <4>1. signed' = signed
        OBVIOUS
      <4>2. QED
        BY <2>2, <2>w, <4>1, BiomePut
    <3>2. fs'["CMakeLists.txt"] \in X /\ fs'["CMakeLists.txt"] \in asked' \union {NoTree, Absent, Empty}
      <4>1. CASE File = "CMakeLists.txt"
        BY <2>2, <2>w, <3>1, <4>1
      <4>2. CASE File # "CMakeLists.txt"
        BY <1>0, <2>w, <3>1, <4>2, BiomeNames
      <4>3. QED
        BY <4>1, <4>2
    <3>3. AsRead(fs'["cheatah.toml"]) \in asked' \union {Absent}
      <4>1. CASE File = "cheatah.toml"
        BY <2>w, <3>1, <4>1
      <4>2. CASE File # "cheatah.toml"
        <5>1. fs'["cheatah.toml"] = toml
          BY <3>1, <4>2, BiomeNames
        <5>2. QED
          BY <1>m, <2>w, <5>1
      <4>3. QED
        BY <4>1, <4>2
    <3>4. {fs'["CMakeLists.txt"], tree', built'} \subseteq asked' \union {NoTree, Absent, Empty}
      BY <1>0, <2>1, <2>w, <3>2
    <3>5. QED
      BY <1>0, <1>s, <2>1, <2>w, <3>2, <3>3, <3>4
  <2>6. CASE Truncate
    <3>1. Put(File, Empty) /\ biome' = [biome EXCEPT !.opened = TRUE] /\ asked' = asked
      BY <2>6 DEF Truncate
    <3>2. biome'.todo = biome.todo /\ biome'.held = biome.held
      BY <3>1 DEF BiomeTyped
    <3>3. QED
      BY <1>0, <2>5, <2>w, <3>1, <3>2
  <2>7. CASE WriteText
    <3>1. Put(File, biome.held) /\ asked' = saved /\ NextFile
      BY <2>7 DEF WriteText, saved
    <3>2. QED
      BY <2>3, <2>4, <2>5, <2>w, <3>1
  <2>8. CASE LoseText
    <3>1. fs' = fs /\ asked' = saved /\ NextFile
      BY <2>8 DEF LoseText, saved
    <3>2. QED
      BY <1>0, <1>m, <1>s, <2>1, <2>3, <2>4, <3>1
  <2>9. QED
    BY <1>5, <2>6, <2>7, <2>8 DEF WriteFile
<1>6. CASE RunConfigure
  <2>1. UNCHANGED <<fs, built, asked>> /\ biome' = Idle /\ tree' \in {cmake, Absent, tree}
    BY <1>6 DEF RunConfigure
  <2>2. biome'.todo = << >>
    BY <2>1 DEF Idle
  <2>3. tree' \in T /\ tree' \in A
    BY <1>0, <2>1
  <2>4. QED
    BY <1>0, <1>m, <1>n, <1>s, <2>1, <2>2, <2>3
<1>7. CASE RunBuild
  <2>1. /\ UNCHANGED <<fs, asked>> /\ biome' = Idle
        /\ \/ cmake # Absent /\ tree' = cmake /\ built' \in {built} \union ({cmake} \ {Empty})
           \/ UNCHANGED <<tree, built>>
    BY <1>7 DEF RunBuild, Exists
  <2>2. biome'.todo = << >>
    BY <2>1 DEF Idle
  <2>3. tree' \in T /\ tree' \in A /\ built' \in B /\ built' \in A
    BY <1>0, <2>1
  <2>4. QED
    BY <1>0, <1>m, <1>n, <1>s, <2>1, <2>2, <2>3
<1>8. CASE Kill
  <2>1. biome' = Idle /\ UNCHANGED <<fs, tree, built, asked>>
    BY <1>8 DEF Kill
  <2>2. biome'.todo = << >>
    BY <2>1 DEF Idle
  <2>3. QED
    BY <1>i, <1>n, <2>1, <2>2
<1>9. CASE \E m \in SUBSET Extensions : EditManifest(m)
  <2>1. PICK m \in SUBSET Extensions : Put("cheatah.toml", m) /\ UNCHANGED <<biome, tree, built>>
                                       /\ asked' = asked \union {m}
    BY <1>9 DEF EditManifest
  <2>2. fs'["CMakeLists.txt"] = cmake /\ fs'["cheatah.toml"] = m
    BY <2>1, BiomeNames, BiomePut
  <2>3. AsRead(m) = m
    BY ManifestIs
  <2>4. QED
    BY <1>0, <1>s, <2>1, <2>2, <2>3
<1>10. QED
  BY <1>1, <1>2, <1>3, <1>4, <1>5, <1>6, <1>7, <1>8, <1>9 DEF BiomeNext

LEMMA HostClosedKept ==
  ASSUME HostTyped, HostClosed, IntegrityNext
  PROVE  HostClosed'
<1>1. CASE Refuse
  <2>1. host'.fd = FALSE
    BY <1>1 DEF Refuse, AtRest
  <2>2. QED
    BY <2>1 DEF HostClosed
<1>2. ASSUME NEW strict \in BOOLEAN, Invoke(strict) PROVE HostClosed'
  <2>1. host'.fd = FALSE
    BY <1>2 DEF Invoke, AtRest
  <2>2. QED
    BY <2>1 DEF HostClosed
<1>3. CASE Probe
  <2>1. host.pc = "probe" /\ host'.fd = host.fd
    BY <1>3 DEF Probe, HostTyped
  <2>2. QED
    BY <2>1 DEF HostClosed
<1>4. CASE OpenModule /\ ~Refuse
  <2>1. host'.pc = "sum"
    BY <1>4 DEF OpenModule, HostTyped
  <2>2. QED
    BY <2>1 DEF HostClosed
<1>5. CASE CheckSum /\ ~Refuse
  <2>1. host'.pc = "sig"
    BY <1>5 DEF CheckSum, HostTyped
  <2>2. QED
    BY <2>1 DEF HostClosed
<1>6. CASE (CheckSig \/ CheckRtSig) /\ ~Refuse
  <2>1. host'.pc \in {"rt", "load"}
    BY <1>6 DEF CheckSig, CheckRtSig, Goto, HostTyped
  <2>2. QED
    BY <2>1 DEF HostClosed
<1>7. CASE CheckRt /\ ~Refuse
  <2>1. host'.pc \in {"rtsig", "load"}
    BY <1>7 DEF CheckRt, HostTyped
  <2>2. QED
    BY <2>1 DEF HostClosed
<1>8. CASE Load /\ ~Refuse
  <2>1. host'.fd = FALSE
    BY <1>8 DEF Load, HostTyped
  <2>2. QED
    BY <2>1 DEF HostClosed
<1>9. QED
  BY <1>1, <1>2, <1>3, <1>4, <1>5, <1>6, <1>7, <1>8 DEF IntegrityNext

-----------------------------------------------------------------------------
LEMMA LInitHolds ==
  ASSUME Init
  PROVE  LInv
<1>1. /\ \A f \in Name : f # "m.purr" => fs[f] = Absent
      /\ fs["m.purr"] = [api |-> 0, body |-> 0]
  BY DEF Init, FilesInit, Name
<1>2. Dated(fs)
  <2>1. /\ fs["m.hpp"] = Absent /\ fs["libm.a"] = Absent /\ fs["m.hpp.sha512"] = Absent
        /\ fs["m.purr"] \in Sources
    BY <1>1 DEF Name, Sources
  <2>2. QED
    BY <2>1, Texts DEF Dated
<1>3. /\ run["lib"].todo = << >> /\ run["prog"].todo = << >> /\ run["lib"].flags = NoFlags
      /\ DOMAIN result = Process /\ result["lib"] = "none" /\ result["prog"] = "none"
      /\ DOMAIN imported = {"header", "archive", "signedLib"}
  BY Processes DEF Init, PurrcInit, Nothing
<1>4. LibInv /\ ProgInv /\ Alone /\ RunsEnd
  BY <1>3, Processes DEF LibInv, ProgInv, Alone, RunsEnd
<1>5. BiomeSound
  <2>1. fs["CMakeLists.txt"] = Absent /\ fs["cheatah.toml"] = Absent
    BY <1>1 DEF Name
  <2>2. biome.todo = << >> /\ tree = NoTree /\ built = Absent /\ asked = {{}}
    BY DEF Init, BiomeInit, Idle
  <2>3. AsRead(Absent) = Absent
    BY BiomeAssumption DEF AsRead
  <2>4. OnlySavedIsBuilt
    BY <2>1, <2>2 DEF OnlySavedIsBuilt
  <2>5. QED
    BY <2>1, <2>2, <2>3, <2>4, Pendings DEF BiomeSound, Manifest
<1>6. HostClosed
  BY DEF Init, IntegrityInit, AtRest, HostClosed
<1>7. QED
  BY <1>2, <1>4, <1>5, <1>6 DEF LInv

LEMMA LStepKeeps ==
  ASSUME IInv, LInv, [Next]_vars
  PROVE  LInv'
<1> USE DEF IInv, Typed
<1>1. LInv' <=> LInvPurrc' /\ BiomeSound' /\ HostClosed'
  BY DEF LInv, LInvPurrc
<1>2. LInvPurrc /\ BiomeSound /\ HostClosed
  BY DEF LInv, LInvPurrc
<1>3. CASE BiomeStep
  <2>1. BiomeNext /\ UNCHANGED purrcVars /\ signed' = signed /\ host' = host
    BY <1>3 DEF BiomeStep, purrcVars, hostVars
  <2>2. LInvPurrc'
    BY <1>2, <2>1, BiomeApart, OthersKeep
  <2>3. BiomeSound'
    BY <1>2, <2>1, BiomeSoundKept
  <2>4. HostClosed'
    BY <1>2, <2>1 DEF HostClosed
  <2>5. QED
    BY <1>1, <2>2, <2>3, <2>4
<1>4. CASE LibStep \/ ProgStep
  <2>1. Builds /\ UNCHANGED <<biome, tree, built, asked, host>>
    BY <1>4, BuildStepBuilds DEF biomeVars, hostVars
  <2>2. LInvPurrc'
    BY <1>2, <1>4, LibStepKeeps, ProgStepKeeps
  <2>3. BiomeSound' /\ HostClosed'
    BY <1>2, <2>1 DEF Builds, BiomeSound, OnlySavedIsBuilt, Manifest, AsRead, HostClosed
  <2>4. QED
    BY <1>1, <2>2, <2>3
<1>5. CASE HostStep
  <2>1. IntegrityNext /\ UNCHANGED purrcVars /\ UNCHANGED <<biome, tree, built, asked, signed>>
    BY <1>5 DEF HostStep, purrcVars, biomeVars
  <2>2. fs' = fs
    BY <2>1, HostKeeps
  <2>3. LInvPurrc'
    BY <1>2, <2>1, <2>2, OthersKeep
  <2>4. BiomeSound' /\ HostClosed'
    BY <1>2, <2>1, <2>2, HostClosedKept DEF BiomeSound, OnlySavedIsBuilt, Manifest, AsRead
  <2>5. QED
    BY <1>1, <2>3, <2>4
<1>6. CASE UNCHANGED vars
  <2>1. UNCHANGED purrcVars /\ UNCHANGED <<fs, biome, tree, built, asked, host>>
    BY <1>6 DEF vars, biomeVars, hostVars
  <2>2. LInvPurrc'
    BY <1>2, <2>1, OthersKeep
  <2>3. BiomeSound' /\ HostClosed'
    BY <1>2, <2>1 DEF BiomeSound, OnlySavedIsBuilt, Manifest, AsRead, HostClosed
  <2>4. QED
    BY <1>1, <2>2, <2>3
<1>7. QED
  BY <1>3, <1>4, <1>5, <1>6 DEF Next

(* purrc, biome, the author of m and the host together: every run of purrc *)
(* has left on disk what the steps it has done promise, the versions of m  *)
(* keep their order, and no step of another process undoes it.             *)
THEOREM LInvariance == Spec => [](IInv /\ LInv)
<1>1. Init => IInv /\ LInv
  BY InitHolds, LInitHolds
<1>2. (IInv /\ LInv) /\ [Next]_vars => (IInv /\ LInv)'
  BY StepKeeps, LStepKeeps
<1>3. QED
  BY <1>1, <1>2, PTL DEF Spec

LEMMA EndsEmitted ==
  ASSUME LInv, result["lib"] = "ok"
  PROVE  LET k == run["lib"].flags.key
             l == run["lib"].lost
         IN  /\ fs["m.hpp"] \in Headers \union {Empty} /\ fs["libm.a"] \in Sources \union {Empty}
             /\ "libm.a.sha512" \in l \/ fs["libm.a.sha512"] = Digest(fs["libm.a"])
             /\ "m.hpp.sha512" \in l \/ fs["m.hpp.sha512"] = Digest(fs["m.hpp"])
             /\ k # NoKey => /\ k \in Keys
                             /\ "libm.a.sig" \in l \/ fs["libm.a.sig"] = <<k, fs["libm.a"]>>
                             /\ "m.hpp.sig" \in l \/ fs["m.hpp.sig"] = <<k, fs["m.hpp"]>>
<1> DEFINE fl == run["lib"].flags
           W == LibAsked(fl)
<1>1. run["lib"].todo = << >>
  BY Processes DEF LInv, RunsEnd
<1>2. PICK n \in Nat : /\ Stands(<< >>, LibSteps, W, n)
                       /\ LibFacts(n, fl.key, run["lib"].held, run["lib"].lost, fs)
  BY <1>1 DEF LInv, LibInv
<1>3. W \subseteq Nat \ {0}
  BY AskedTyped
<1>4. 16 \in W /\ (fl.key # NoKey => 19 \in W)
  BY DEF LibAsked, When
<1> HIDE DEF W
<1>5. 16 <= n /\ (fl.key # NoKey => 19 <= n)
  BY <1>2, <1>3, <1>4, Standing
<1>6. fl.key # NoKey => fl.key \in Keys
  BY ToolchainAssumption DEF LInv, RunsEnd, NoFlags
<1>7. QED
  BY <1>2, <1>5, <1>6 DEF LibFacts

LEMMA EndsBuilt ==
  ASSUME LInv, result["prog"] = "ok"
  PROVE  /\ StaleOnlyIfNotAsked
         /\ ~raced /\ imported.signedLib /\ imported.archive \notin {Absent, Empty} =>
              imported.archive.api = imported.header.api
<1> DEFINE fl == run["prog"].flags
           W == ProgAsked(fl)
<1>1. run["prog"].todo = << >>
  BY Processes DEF LInv, RunsEnd
<1>2. PICK n \in Nat : /\ Stands(<< >>, ProgSteps, W, n) /\ ProgFacts(n, fl, run["prog"].held, run["prog"].lost, fs)
                       /\ ~raced => LibraryFacts(n, imported, fs)
  BY <1>1 DEF LInv, ProgInv
<1>3. W \subseteq Nat \ {0}
  BY AskedTyped
<1>4. /\ 4 \in W /\ (fl.key # NoKey \/ fl.sum => 7 \in W) /\ (fl.key # NoKey => 10 \in W)
      /\ (fl.rtkey # NoKey \/ fl.rt => 13 \in W) /\ (fl.rtkey # NoKey => 15 \in W)
  BY DEF ProgAsked, When
<1> HIDE DEF W
<1>5. /\ 4 <= n /\ (fl.key # NoKey \/ fl.sum => 7 <= n) /\ (fl.key # NoKey => 10 <= n)
      /\ (fl.rtkey # NoKey \/ fl.rt => 13 <= n) /\ (fl.rtkey # NoKey => 15 <= n)
  BY <1>2, <1>3, <1>4, Standing
<1>6. StaleOnlyIfNotAsked
  BY <1>2, <1>5 DEF StaleOnlyIfNotAsked, Fits, ProgFacts, App, Rt, RtSig, Sum, Sig
<1>7. QED
  BY <1>2, <1>5, <1>6 DEF LibraryFacts

LEMMA SoundLibrary ==
  ASSUME IInv, LInv
  PROVE  LibraryIsSound
<1>1. TypeOK
  <2>1. DOMAIN fs = Name
    BY DEF IInv, Typed, FilesTyped
  <2>2. /\ biome.cmd \in {"none", "init", "save", "configure", "build"}
        /\ biome.opened => biome.todo # << >>
        /\ tree \in (SUBSET Members) \union {NoTree, Absent, Empty} /\ built \in (SUBSET Members) \union {Absent}
    BY DEF IInv, Typed, BiomeTyped, LInv, BiomeSound
  <2>3. /\ \A p \in Process : result[p] \in {"none", "running", "ok", "failed"}
        /\ \A p \in Process : (result[p] = "running") <=> ~Settled(p)
    BY DEF LInv, RunsEnd, Settled
  <2>4. /\ host.pc \in {"rest", "probe", "open", "sum", "sig", "rt", "rtsig", "load", "refused", "loaded"}
        /\ host.pc \in {"rest", "refused", "loaded"} => ~host.fd
    BY DEF IInv, Typed, HostTyped, LInv, HostClosed
  <2>5. QED
    BY <2>1, <2>2, <2>3, <2>4 DEF TypeOK
<1>2. LibraryOfOnePiece
  BY EndsBuilt DEF LibraryOfOnePiece
<1>3. EmittedIsAccepted
  <2> DEFINE k == run["lib"].flags.key
             l == run["lib"].lost
  <2> SUFFICES ASSUME result["lib"] = "ok", NEW f \in {"m.hpp", "libm.a"}
               PROVE  /\ Sum(f) \in l \/ SumFits(f)
                      /\ k = NoKey \/ Sig(f) \in l \/ SigFits(f, {k})
    BY DEF EmittedIsAccepted
  <2>1. /\ fs["m.hpp"] \in Headers \union {Empty} /\ fs["libm.a"] \in Sources \union {Empty}
        /\ "libm.a.sha512" \in l \/ fs["libm.a.sha512"] = Digest(fs["libm.a"])
        /\ "m.hpp.sha512" \in l \/ fs["m.hpp.sha512"] = Digest(fs["m.hpp"])
        /\ k # NoKey => /\ k \in Keys
                        /\ "libm.a.sig" \in l \/ fs["libm.a.sig"] = <<k, fs["libm.a"]>>
                        /\ "m.hpp.sig" \in l \/ fs["m.hpp.sig"] = <<k, fs["m.hpp"]>>
    BY EndsEmitted
  <2> HIDE DEF k, l
  <2>2. fs[f] \in Headers \union Sources \union {Absent, Empty}
        /\ (Sum(f) \in l \/ fs[Sum(f)] = Digest(fs[f]))
        /\ (k # NoKey => k \in Keys /\ (Sig(f) \in l \/ fs[Sig(f)] = <<k, fs[f]>>))
    <3>1. CASE f = "m.hpp"
      BY <2>1, <3>1 DEF Sum, Sig
    <3>2. CASE f = "libm.a"
      BY <2>1, <3>2 DEF Sum, Sig
    <3>3. QED
      BY <3>1, <3>2
  <2>3. Sum(f) \in l \/ SumFits(f)
    BY <2>2, Texts DEF SumFits, HasText
  <2>4. ASSUME k # NoKey, Sig(f) \notin l PROVE SigFits(f, {k})
    <3>1. k \in Keys /\ fs[Sig(f)] = <<k, fs[f]>>
      BY <2>2, <2>4
    <3>2. fs[Sig(f)] \notin {Absent, Empty}
      BY <2>2, <3>1, Texts
    <3>3. QED
      BY <3>1, <3>2 DEF SigFits, HasText
  <2>5. QED
    BY <2>3, <2>4
<1>4. QED
  BY <1>1, <1>2, <1>3 DEF LibraryIsSound

(* emit_library, sign_output and verify_artifact: a library of m can be    *)
(* used as it is announced. A build that verified its header and was alone *)
(* with it pairs header and archive of one emission, wherever emissions    *)
(* were killed and whatever writes were lost; and what an emission that    *)
(* ended well wrote beside its artifacts is of them and is accepted. Only  *)
(* a sidecar whose own write failed unseen may be missing or older.        *)
THEOREM LibraryStaysSound == Spec => []LibraryIsSound
<1>1. IInv /\ LInv => LibraryIsSound
  BY SoundLibrary
<1>2. QED
  BY <1>1, LInvariance, PTL

(* main of purrc and the commands of biome: what a finished build was      *)
(* asked to write next to the module fits the module, unless that very     *)
(* write failed unseen; the build file drifts from the manifest only for a *)
(* cause, and nothing is configured or built but from a manifest that was  *)
(* saved or written by the user.                                           *)
THEOREM NothingStale == Spec => []NothingGoesStale
<1>1. IInv /\ LInv => NothingGoesStale
  <2>1. IInv => DriftHasACause
    BY DEF IInv, InStep, DriftHasACause, Idle
  <2>2. LInv => StaleOnlyIfNotAsked
    BY EndsBuilt DEF StaleOnlyIfNotAsked
  <2>3. LInv => OnlySavedIsBuilt
    BY DEF LInv, BiomeSound
  <2>4. QED
    BY <2>1, <2>2, <2>3 DEF NothingGoesStale
<1>2. QED
  BY <1>1, LInvariance, PTL
=============================================================================

