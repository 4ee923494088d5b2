----------------------------- MODULE Toolchain -----------------------------
(***************************************************************************)
(* biome, purrc and the host over one file system, interleaved step by     *)
(* step: the library m is emitted and edited while a program that imports  *)
(* it is built, signed, rebuilt and loaded.                                *)
(***************************************************************************)
EXTENDS Biome, Purrc, Integrity

CONSTANTS LibFlags, ProgFlags   \* the flags the runs of the two processes may have

ASSUME ToolchainAssumption == \A fl \in LibFlags : fl.key \in Keys \union {NoKey}

vars == <<fs, biomeVars, purrcVars, hostVars>>

Init == FilesInit /\ BiomeInit /\ PurrcInit /\ IntegrityInit

\* $CHEATAH_TRUST is the host's trust file too.
FileStep(p, f) == Open(p, f) \/ WriteOut(p, f) \/ Read(p, f) \/ Verify(p, f, Trusted)
PurrcStep(p) ==
    /\ run[p].todo # << >>
    /\ \/ \E f \in Name : Head(run[p].todo)[2] = f /\ FileStep(p, f)
       \/ Fingerprint(p) \/ MakeArchive(p) \/ RemoveImpl(p) \/ Resolve(p) \/ Backend(p)
       \/ KillRun(p)

BiomeStep == BiomeNext /\ UNCHANGED <<purrcVars, hostVars>>
LibStep == /\ (\E fl \in LibFlags : Start("lib", fl)) \/ PurrcStep("lib")
              \/ (\E part \in {"api", "body"} : EditSource(part))
           /\ UNCHANGED <<biomeVars, hostVars>>
ProgStep == /\ (\E fl \in ProgFlags : Start("prog", fl)) \/ PurrcStep("prog")
            /\ UNCHANGED <<biomeVars, hostVars>>
HostStep == IntegrityNext /\ UNCHANGED <<biomeVars, purrcVars>>

Next == BiomeStep \/ LibStep \/ ProgStep \/ HostStep

Spec == Init /\ [][Next]_vars

-----------------------------------------------------------------------------
Settled(p) == run[p].todo = << >>

\* The three components' state has the expected shape.
TypeOK ==
    /\ DOMAIN fs = Name
    /\ biome.cmd \in {"none", "init", "save", "configure", "build"}
    /\ biome.opened => biome.todo # << >>
    /\ tree \in (SUBSET Members) \union {NoTree, Absent, Empty}
    /\ built \in (SUBSET Members) \union {Absent}
    /\ \A p \in Process : result[p] \in {"none", "running", "ok", "failed"}
    /\ \A p \in Process : (result[p] = "running") <=> ~Settled(p)
    /\ host.pc \in {"rest", "probe", "open", "sum", "sig", "rt", "rtsig", "load", "refused", "loaded"}
    /\ host.pc \in {"rest", "refused", "loaded"} => ~host.fd

\* What the host loaded is what it checked, although purrc rewrites the module and its
\* sidecars under it: a checksum it read is that of the image, and under strict a
\* trusted key signed that image and a trusted runtime key the manifest it accepted
\* ("the dlopen below cannot be raced onto a substituted file").
LoadedIsWhatWasChecked ==
    host.pc = "loaded" =>
        /\ host.summed # Absent => host.summed = Digest(host.loaded)
        /\ host.strict => /\ signed \intersect (Trusted \X {host.loaded}) # {}
                          /\ TrustedRt # {} =>
                                signed \intersect (TrustedRt \X {host.rt}) # {} /\ Runs(host.rt)

\* A build that used m as a verified library and was alone with it never pairs the
\* header of one emission with the archive of another, wherever an emission was killed
\* and whatever it could not write. (An archive of a lost m.impl defines nothing of m.)
LibraryOfOnePiece ==
    (imported.signedLib /\ ~raced /\ result["prog"] = "ok" /\ imported.archive \notin {Absent, Empty})
        => imported.archive.api = imported.header.api

\* The sidecars an emission leaves behind when it ended well are those of the artifacts on
\* disk, and every later build accepts them: all that it was asked for, but those whose
\* write failed unseen. Nothing older passes for them, and nothing that was not sealed.
EmittedIsAccepted ==
    LET r == run["lib"]
    IN  result["lib"] = "ok" =>
            \A f \in {"m.hpp", "libm.a"} :
                /\ Sum(f) \in r.lost \/ SumFits(f)
                /\ r.flags.key = NoKey \/ Sig(f) \in r.lost \/ SigFits(f, {r.flags.key})

\* "The header always carries a checksum so a consumer can verify it is unchanged" and
\* "Both artifacts get a SHA-512 checksum sidecar" (src/compiler/purrc.cpp:848, 675-676).
EmittedIsSealed ==
    result["lib"] = "ok" => \A f \in {"m.hpp", "libm.a"} : SumFits(f)

\* An emission of m can be used as it is announced: of one piece, and verifiable where it
\* could be written.
LibraryIsSound == TypeOK /\ LibraryOfOnePiece /\ EmittedIsAccepted

\* A sidecar that disagrees with the module is one the last build was not asked to write,
\* or the build was cut short, or the write of that very sidecar failed unseen: a finished
\* build never writes a wrong sidecar.
Fits(f, c) == f \in run["prog"].lost \/ fs[f] = c
StaleOnlyIfNotAsked ==
    result["prog"] = "ok" =>
        LET fl == run["prog"].flags
            m == fs[App]
        IN  /\ (fl.sum \/ fl.key # NoKey) => Fits(Sum(App), Digest(m))
            /\ fl.key # NoKey => Fits(Sig(App), <<fl.key, m>>)
            /\ (fl.rt \/ fl.rtkey # NoKey) => Fits(Rt, m.by)
            /\ fl.rtkey # NoKey => Fits(RtSig, <<fl.rtkey, m.by>>)

\* Between commands the build file says what the manifest says, unless since biome last
\* saved the manifest, or read it to generate, a command was killed, a write was lost or
\* the manifest edited by hand ("so the two never drift"). A configure, or an add or remove
\* that has something to write, makes the two agree again; an add of what the manifest
\* already names does not.
DriftHasACause ==
    (biome = Idle /\ fs["CMakeLists.txt"] # Manifest) => excused

\* A crash or a lost write leaves the build file behind the manifest and never ahead of it:
\* nothing is generated, configured or built but from a manifest that somebody saved.
OnlySavedIsBuilt ==
    {fs["CMakeLists.txt"], tree, built} \subseteq asked \union {NoTree, Absent, Empty}

\* What was generated from something else does not go stale without a cause.
NothingGoesStale == StaleOnlyIfNotAsked /\ DriftHasACause /\ OnlySavedIsBuilt

\* "`biome build` regenerates CMakeLists.txt from the manifest before configuring, so the
\* manifest is always the single source of truth" (src/pkg-manager/README.md:77).
BuildIsOfManifest ==
    [][built' # built => built' = biome.held]_vars
=============================================================================
