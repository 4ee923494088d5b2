------------------------------- MODULE Files -------------------------------
(***************************************************************************)
(* The files the cheatah tools pass to each other: the manifest and build  *)
(* file of a project (biome), an importable library and its sidecars, a    *)
(* program module and its sidecars (purrc), read by the host (cheatah).    *)
(* A digest is represented by the content it is of, a signature by the     *)
(* content and the key. Empty is also what is left of a text whose write   *)
(* failed: a sidecar is one buffer, written whole or not at all, and of a  *)
(* longer text the torn rest declares and defines nothing.                 *)
(***************************************************************************)
EXTENDS Naturals, Sequences, FiniteSets

CONSTANTS Absent,     \* no such file
          Empty       \* opened for writing (truncated), nothing written yet

VARIABLE fs           \* what every file holds

Name == {"cheatah.toml", "CMakeLists.txt", "CPM.cmake",
         "m.purr", "m.hpp", "m.hpp.sha512", "m.hpp.sig", "m.impl",
         "libm.a", "libm.a.sha512", "libm.a.sig",
         "app.so", "app.so.sha512", "app.so.sig", "app.so.rt", "app.so.rt.sig"}

Exists(f) == fs[f] # Absent
HasText(f) == fs[f] \notin {Absent, Empty}
Put(f, c) == fs' = [fs EXCEPT ![f] = c]
Digest(c) == [of |-> c]

\* The sidecars of an artifact: its name with ".sha512" and with ".sig" behind it.
Sum(f) == CASE f = "m.hpp" -> "m.hpp.sha512" [] f = "libm.a" -> "libm.a.sha512" [] f = "app.so" -> "app.so.sha512"
Sig(f) == CASE f = "m.hpp" -> "m.hpp.sig" [] f = "libm.a" -> "libm.a.sig" [] f = "app.so" -> "app.so.sig"

FilesInit == fs = [f \in Name |-> IF f = "m.purr" THEN [api |-> 0, body |-> 0] ELSE Absent]
=============================================================================
