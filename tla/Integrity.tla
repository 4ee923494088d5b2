----------------------------- MODULE Integrity -----------------------------
(***************************************************************************)
(* The host `cheatah': it sanitizes the path of a program module, verifies *)
(* it against the sidecars next to it (verify_module) and loads it. The    *)
(* sidecars are tested for first and opened later, one at a time, while    *)
(* purrc may be rewriting all of them.                                     *)
(***************************************************************************)
EXTENDS Files

CONSTANTS Trusted,       \* code keys in the trust file
          TrustedRt,     \* runtime keys in the runtime trust file
          Runs(_),       \* whether this host can run what a toolchain built
          FdBound,       \* /proc/self/fd or /dev/fd names an open file here
          MaxLoads       \* bound: host invocations

VARIABLES host,          \* the running host
          loads          \* invocations left

hostVars == <<host, loads>>

AtRest == [pc |-> "rest", strict |-> FALSE, has |-> {}, fd |-> FALSE,
           bytes |-> Absent, rt |-> Absent, loaded |-> Absent, summed |-> Absent]

IntegrityInit == host = AtRest /\ loads = MaxLoads

App == "app.so"
Rt == "app.so.rt"
RtSig == "app.so.rt.sig"

\* release: the verified descriptor is closed, whatever the outcome.
Refuse == host' = [AtRest EXCEPT !.pc = "refused"]
Goto(pc) == host' = [host EXCEPT !.pc = pc]

\* sanitize_module_path: refused when it is not there or has no module magic.
Sane == HasText(App)

\* main: the policy is fixed by CHEATAH_VERIFY or raised by --verify, never lowered.
Invoke(strict) ==
    /\ host.pc \in {"rest", "refused", "loaded"}
    /\ loads > 0
    /\ loads' = loads - 1
    /\ host' = [AtRest EXCEPT !.pc = IF Sane THEN "probe" ELSE "refused",
                              !.strict = strict]
    /\ UNCHANGED fs

\* has_sum, has_sig, has_rt; with none of them and no policy the module is not even read.
Probe ==
    /\ host.pc = "probe"
    /\ LET has == {f \in {Sum(App), Sig(App), Rt} : Exists(f)}
       IN  host' = [host EXCEPT !.has = has,
                                !.pc = IF host.strict \/ has # {} THEN "open" ELSE "load"]
    /\ UNCHANGED <<fs, loads>>

\* open_and_read, then the strict check that the load is bound to this descriptor.
OpenModule ==
    /\ host.pc = "open"
    /\ IF ~Exists(App) \/ (host.strict /\ ~FdBound) THEN Refuse
       ELSE host' = [host EXCEPT !.pc = "sum", !.fd = TRUE, !.bytes = fs[App]]
    /\ UNCHANGED <<fs, loads>>

\* An absent or empty checksum is no checksum.
CheckSum ==
    /\ host.pc = "sum"
    /\ IF HasText(Sum(App)) /\ fs[Sum(App)] # Digest(host.bytes) THEN Refuse
       ELSE host' = [host EXCEPT !.pc = "sig",
                                 !.summed = IF HasText(Sum(App)) THEN fs[Sum(App)] ELSE Absent]
    /\ UNCHANGED <<fs, loads>>

SignedBy(f, keys, c) == HasText(f) /\ fs[f] \in keys \X {c}

\* Strict: a trusted key is configured, the signature was there, parses and verifies.
\* Otherwise it is read and its verdict ignored.
CheckSig ==
    /\ host.pc = "sig"
    /\ IF host.strict /\ ~(Trusted # {} /\ Sig(App) \in host.has
                           /\ SignedBy(Sig(App), Trusted, host.bytes))
       THEN Refuse ELSE Goto("rt")
    /\ UNCHANGED <<fs, loads>>

\* The build-runtime manifest: compatible when it was there, there when required.
CheckRt ==
    /\ host.pc = "rt"
    /\ IF \/ host.strict /\ TrustedRt # {} /\ Rt \notin host.has
          \/ Rt \in host.has /\ ~(HasText(Rt) /\ Runs(fs[Rt]))
       THEN Refuse
       ELSE host' = [host EXCEPT !.rt = IF Rt \in host.has THEN fs[Rt] ELSE Absent,
                                 !.pc = IF Rt \in host.has THEN "rtsig" ELSE "load"]
    /\ UNCHANGED <<fs, loads>>

CheckRtSig ==
    /\ host.pc = "rtsig"
    /\ IF host.strict /\ TrustedRt # {} /\ ~SignedBy(RtSig, TrustedRt, host.rt)
       THEN Refuse ELSE Goto("load")
    /\ UNCHANGED <<fs, loads>>

\* mutant of Image: the path is opened again
ImageByPath == fs[App]

\* What module_open maps: the open descriptor's bytes, or the path as it is now.
Image == IF host.fd /\ FdBound THEN host.bytes ELSE fs[App]

Load ==
    /\ host.pc = "load"
    /\ IF Image \in {Absent, Empty} THEN Refuse
       ELSE host' = [host EXCEPT !.pc = "loaded", !.fd = FALSE, !.bytes = Absent,
                                 !.has = {}, !.loaded = Image]
    /\ UNCHANGED <<fs, loads>>

IntegrityNext ==
    \/ \E strict \in BOOLEAN : Invoke(strict)
    \/ Probe \/ OpenModule \/ CheckSum \/ CheckSig \/ CheckRt \/ CheckRtSig \/ Load
=============================================================================
