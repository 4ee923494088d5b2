-------------------------------- MODULE Leases --------------------------------
(***************************************************************************)
(* What an Owner promises its callers, without mutex, condition variable,  *)
(* gates or flags: who holds a lease, who asked for one, and for each      *)
(* write request in line the requests that will be served before it.       *)
(***************************************************************************)
EXTENDS Integers

CONSTANTS Threads, Priorities

VARIABLES
  held,   \* "none", "read", "write", "paused" (a preempted write), "immediate"
  asked,  \* what each thread waits for
  prio,   \* the priority of a waiting write
  ahead   \* the waiting writes that are served before it

line == <<prio, ahead>>
vars == <<held, asked, line>>

Holders(S) == {t \in Threads : held[t] \in S}
Waiting(k) == {t \in Threads : asked[t] = k}

Init ==
  /\ held = [t \in Threads |-> "none"]
  /\ asked = [t \in Threads |-> "none"]
  /\ prio = [t \in Threads |-> 0] /\ ahead = [t \in Threads |-> {}]

Give(t, k) ==
  /\ held' = [held EXCEPT ![t] = k]
  /\ asked' = [asked EXCEPT ![t] = "none"]

(* A write joins behind the requests of its priority and above.            *)
Join(t, p) ==
  /\ prio' = [prio EXCEPT ![t] = p]
  /\ ahead' = [u \in Threads |->
                 CASE u = t -> {v \in Waiting("write") : prio[v] >= p}
                   [] u # t /\ asked[u] = "write" /\ prio[u] < p -> ahead[u] \cup {t}
                   [] OTHER -> ahead[u]]

Leave(t) ==
  /\ prio' = [prio EXCEPT ![t] = 0]
  /\ ahead' = [u \in Threads |-> IF u = t THEN {} ELSE ahead[u] \ {t}]

Ask(t, k) ==
  /\ held[t] = "none" /\ asked[t] = "none" /\ asked' = [asked EXCEPT ![t] = k]
  /\ UNCHANGED <<held, line>>

(* A thread that asks to write while it reads will wait for itself.        *)
AskWrite(t) ==
  /\ held[t] \in {"none", "read"} /\ asked[t] = "none"
  /\ asked' = [asked EXCEPT ![t] = "write"]
  /\ \E p \in Priorities : Join(t, p)
  /\ UNCHANGED held

(* Readers share, and yield to every write held, paused or in line.        *)
GrantRead(t) ==
  /\ asked[t] = "read"
  /\ Holders({"write", "paused", "immediate"}) = {} /\ Waiting("write") = {}
  /\ Give(t, "read") /\ UNCHANGED line

(* A write is alone, and the first in line.                                *)
GrantWrite(t) ==
  /\ asked[t] = "write" /\ ahead[t] = {}
  /\ Holders({"read", "write", "paused", "immediate"}) = {}
  /\ Give(t, "write") /\ Leave(t)

(* An immediate-write is alone but for the write it preempted.             *)
GrantImmediate(t) ==
  /\ asked[t] = "immediate" /\ Holders({"read", "write", "immediate"}) = {}
  /\ Give(t, "immediate") /\ UNCHANGED line

Release(t) ==
  /\ held[t] \in {"read", "write", "immediate"}
  /\ held' = [held EXCEPT ![t] = "none"]
  /\ UNCHANGED <<asked, line>>

(* A writer pauses for an immediate-write, and goes on when it is over.    *)
Pause(t) ==
  /\ held[t] = "write" /\ Waiting("immediate") # {}
  /\ held' = [held EXCEPT ![t] = "paused"]
  /\ UNCHANGED <<asked, line>>

GoOn(t) ==
  /\ held[t] = "paused" /\ Holders({"immediate"}) = {}
  /\ held' = [held EXCEPT ![t] = "write"]
  /\ UNCHANGED <<asked, line>>

Next ==
  \E t \in Threads :
    \/ Ask(t, "read") \/ AskWrite(t) \/ Ask(t, "immediate")
    \/ GrantRead(t) \/ GrantWrite(t) \/ GrantImmediate(t)
    \/ Release(t) \/ Pause(t) \/ GoOn(t)

Spec == Init /\ [][Next]_vars

=============================================================================
