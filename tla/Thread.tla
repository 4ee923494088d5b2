-------------------------------- MODULE Thread --------------------------------
(***************************************************************************)
(* The thread module: spawn starts a worker and returns a move-only handle *)
(* that joins when it is destroyed or assigned to.  A handle may be moved  *)
(* into another worker's closure (a movable rvalue argument), so workers   *)
(* own handles too.  What a worker throws is stored in the State it shares *)
(* with its handle, and surfaces at join() or on stderr.                   *)
(*                                                                         *)
(* A call that joins is two steps, the commitment to wait and the return,  *)
(* so that everybody else runs in between.  A faulty variant of an         *)
(* operator, used nowhere, stands before it.                               *)
(***************************************************************************)
EXTENDS Integers, FiniteSets

CONSTANTS
  Workers,   \* the threads that may be spawned
  Handles,   \* the handle variables of main
  Main,      \* the program's main thread
  None       \* no thread, no state, no call

(* A worker's closure has room for one handle, named by the worker.        *)
Slots  == Handles \cup Workers
Actors == Workers \cup {Main}

(* A call that may block: what it does, on which handle, and what it moves.*)
Call == [op : {"join", "assign", "destroy"}, slot : Slots, from : Slots]

ASSUME ThreadAssumption ==
  /\ IsFiniteSet(Workers) /\ IsFiniteSet(Handles)
  /\ Handles \cap Workers = {} /\ Main \notin Workers /\ None \notin Workers
  /\ None \notin Call

VARIABLES
  thread,    \* t_: the worker each handle may join, or None
  state,     \* state_: the worker whose error slot each handle shares, or None
  alive,     \* the handles that are constructed and not destroyed
  phase,     \* "unborn", "running", "ended" (its closure unwinds), "done"
  error,     \* State::error: the worker threw
  observed,  \* State::observed
  rethrown,  \* how often join() threw a worker's exception
  reported,  \* how often stderr told of it
  call,      \* the blocking call each actor is in, or None
  main       \* "runs", "returning" (its scope unwinds), "returned"

handles == <<thread, state, alive>>
errors  == <<error, observed, rethrown, reported>>
vars    == <<handles, phase, errors, call, main>>

Init ==
  /\ thread = [s \in Slots |-> None] /\ state = [s \in Slots |-> None]
  /\ alive = {}
  /\ phase = [w \in Workers |-> "unborn"]
  /\ error = [w \in Workers |-> FALSE] /\ observed = [w \in Workers |-> FALSE]
  /\ rethrown = [w \in Workers |-> 0] /\ reported = [w \in Workers |-> 0]
  /\ call = [a \in Actors |-> None]
  /\ main = "runs"

-----------------------------------------------------------------------------
Idle(a) == call[a] = None /\ IF a = Main THEN main = "runs" ELSE phase[a] = "running"

(* A handle is driven by the thread whose variable or closure it is.       *)
Drives(a) == IF a = Main THEN Handles ELSE {a}

Await(a, op, s, from) == call' = [call EXCEPT ![a] = [op |-> op, slot |-> s, from |-> from]]

Return(a) == call' = [call EXCEPT ![a] = None]

Joinable(s) == thread[s] # None

(* std::thread::join() returns when the worker's closure is destroyed;     *)
(* settle() calls it only on a joinable thread.                            *)
JoinsAnyway(s) == Joinable(s) /\ phase[thread[s]] = "done"

JoinedTooSoon(s) == Joinable(s) => phase[thread[s]] \in {"ended", "done"}

Joined(s) == Joinable(s) => phase[thread[s]] = "done"

MoveLeavesSource(d, s) ==
  /\ thread' = [thread EXCEPT ![d] = thread[s]]
  /\ state' = [state EXCEPT ![d] = state[s]]

(* Thread(Thread&&), and the adoption in operator=: the source is emptied. *)
Move(d, s) ==
  /\ thread' = [thread EXCEPT ![d] = thread[s], ![s] = None]
  /\ state' = [state EXCEPT ![d] = state[s], ![s] = None]

ReportAlways(s) ==
  IF state[s] # None /\ error[state[s]]
  THEN /\ observed' = [observed EXCEPT ![state[s]] = TRUE]
       /\ reported' = [reported EXCEPT ![state[s]] = @ + 1]
       /\ UNCHANGED <<error, rethrown>>
  ELSE UNCHANGED errors

(* settle(), after the join: an error nobody saw goes to stderr.           *)
Report(s) ==
  IF state[s] # None /\ error[state[s]] /\ ~observed[state[s]]
  THEN /\ observed' = [observed EXCEPT ![state[s]] = TRUE]
       /\ reported' = [reported EXCEPT ![state[s]] = @ + 1]
       /\ UNCHANGED <<error, rethrown>>
  ELSE UNCHANGED errors

-----------------------------------------------------------------------------
(* spawn(): w starts; a movable rvalue argument m is moved into its        *)
(* closure (m = s: no such argument).  A worker that was given no handle   *)
(* may keep one of its own in that place.                                  *)
Spawn(a, s, w, m) ==
  /\ Idle(a) /\ s \in Drives(a) \ alive /\ phase[w] = "unborn" /\ w \notin alive
  /\ m = s \/ m \in Drives(a) \cap alive
  /\ phase' = [phase EXCEPT ![w] = "running"]
  /\ alive' = alive \cup (IF m = s THEN {s} ELSE {s, w})
  /\ thread' = [[thread EXCEPT ![w] = thread[m]] EXCEPT ![m] = None, ![s] = w]
  /\ state' = [[state EXCEPT ![w] = state[m]] EXCEPT ![m] = None, ![s] = w]
  /\ UNCHANGED <<errors, call, main>>

(* The system has no thread to give: the closure, and the handle moved     *)
(* into it, are destroyed before spawn() throws.                           *)
SpawnFails(a, w, m) ==
  /\ Idle(a) /\ phase[w] = "unborn" /\ w \notin alive /\ m \in Drives(a) \cap alive
  /\ Move(w, m) /\ alive' = alive \cup {w}
  /\ Await(a, "destroy", w, w)
  /\ UNCHANGED <<phase, errors, main>>

MoveConstruct(a, d, s) ==
  /\ Idle(a) /\ d \in Drives(a) \ alive /\ s \in Drives(a) \cap alive
  /\ Move(d, s) /\ alive' = alive \cup {d}
  /\ UNCHANGED <<phase, errors, call, main>>

(* operator=: settle our thread, then adopt the other's.                   *)
CallAssign(a, d, s) ==
  /\ Idle(a) /\ d # s /\ {d, s} \subseteq Drives(a) \cap alive
  /\ Await(a, "assign", d, s)
  /\ UNCHANGED <<handles, phase, errors, main>>

Assign(a) ==
  /\ call[a] # None /\ call[a].op = "assign"
  /\ LET d == call[a].slot IN Joined(d) /\ Report(d) /\ Move(d, call[a].from)
  /\ Return(a)
  /\ UNCHANGED <<alive, phase, main>>

(* join() on a handle with nothing to join throws and changes nothing.     *)
CallJoin(a, s) ==
  /\ Idle(a) /\ s \in Drives(a) \cap alive /\ Joinable(s)
  /\ Await(a, "join", s, s)
  /\ UNCHANGED <<handles, phase, errors, main>>

Join(a) ==
  /\ call[a] # None /\ call[a].op = "join"
  /\ LET s == call[a].slot
         w == state[s]
     IN  /\ Joined(s)
         /\ thread' = [thread EXCEPT ![s] = None]
         /\ \/ /\ w # None /\ error[w]
               /\ observed' = [observed EXCEPT ![w] = TRUE]
               /\ rethrown' = [rethrown EXCEPT ![w] = @ + 1]
            \/ /\ w = None \/ ~error[w]
               /\ UNCHANGED <<observed, rethrown>>
  /\ Return(a)
  /\ UNCHANGED <<state, alive, phase, error, reported, main>>

(* ~Thread(): main's handles die when their scope ends.                    *)
CallDestroy(a, s) ==
  /\ a = Main /\ call[a] = None /\ main # "returned" /\ s \in Handles \cap alive
  /\ Await(a, "destroy", s, s)
  /\ UNCHANGED <<handles, phase, errors, main>>

Destroy(a) ==
  /\ call[a] # None /\ call[a].op = "destroy"
  /\ LET s == call[a].slot
     IN  /\ Joined(s) /\ Report(s)
         /\ thread' = [thread EXCEPT ![s] = None] /\ state' = [state EXCEPT ![s] = None]
         /\ alive' = alive \ {s}
  /\ Return(a)
  /\ phase' = [w \in Workers |-> IF w = a /\ phase[w] = "ended" THEN "done" ELSE phase[w]]
  /\ UNCHANGED main

(* The worker's function returns or throws; its closure dies with it.      *)
WorkerEnds(w) ==
  /\ Idle(w)
  /\ \E threw \in BOOLEAN : error' = [error EXCEPT ![w] = threw]
  /\ \/ w \in alive /\ Await(w, "destroy", w, w) /\ phase' = [phase EXCEPT ![w] = "ended"]
     \/ w \notin alive /\ UNCHANGED call /\ phase' = [phase EXCEPT ![w] = "done"]
  /\ UNCHANGED <<handles, observed, rethrown, reported, main>>

(* main returns, or an exception leaves it: its handles are destroyed, and *)
(* then the host unloads the program.                                      *)
MainReturns ==
  /\ Idle(Main) /\ main' = "returning"
  /\ UNCHANGED <<handles, phase, errors, call>>

Unload ==
  /\ main = "returning" /\ call[Main] = None /\ alive \cap Handles = {}
  /\ main' = "returned"
  /\ UNCHANGED <<handles, phase, errors, call>>

Next ==
  \/ \E a \in Actors :
       \/ \E s \in Slots, w \in Workers, m \in Slots : Spawn(a, s, w, m)
       \/ \E w \in Workers, m \in Slots : SpawnFails(a, w, m)
       \/ \E d, s \in Slots : MoveConstruct(a, d, s) \/ CallAssign(a, d, s)
       \/ \E s \in Slots : CallJoin(a, s) \/ CallDestroy(a, s)
       \/ Assign(a) \/ Join(a) \/ Destroy(a)
  \/ \E w \in Workers : WorkerEnds(w)
  \/ MainReturns \/ Unload

Spec == Init /\ [][Next]_vars

(* A worker's function ends, however many calls it makes before; main's    *)
(* scope ends; calls come back once their worker is done.                  *)
FairSpec ==
  /\ Spec
  /\ \A w \in Workers : SF_vars(WorkerEnds(w))
  /\ \A a \in Actors : WF_vars(Assign(a) \/ Join(a) \/ Destroy(a))
  /\ WF_vars(MainReturns) /\ WF_vars(Unload)
  /\ WF_vars(main = "returning" /\ \E s \in Handles : CallDestroy(Main, s))

-----------------------------------------------------------------------------
(* Properties                                                              *)

(* The shape of the state; a handle that can join shares the error slot of *)
(* the worker it joins.                                                    *)
TypeOK ==
  /\ thread \in [Slots -> Workers \cup {None}] /\ state \in [Slots -> Workers \cup {None}]
  /\ alive \subseteq Slots
  /\ \A s \in Slots : Joinable(s) => state[s] = thread[s]
  /\ phase \in [Workers -> {"unborn", "running", "ended", "done"}]
  /\ error \in [Workers -> BOOLEAN] /\ observed \in [Workers -> BOOLEAN]
  /\ rethrown \in [Workers -> Nat] /\ reported \in [Workers -> Nat]
  /\ call \in [Actors -> Call \cup {None}]
  /\ main \in {"runs", "returning", "returned"}

(* There is exactly one owner of a thread: until it was joined, one handle *)
(* that is alive can join it.                                              *)
SoleOwner ==
  \A w \in Workers :
    LET owners == {s \in alive : thread[s] = w}
    IN  Cardinality(owners) <= 1 /\ (phase[w] \in {"running", "ended"} => owners # {})

(* An exception surfaces at most once, at join() or on stderr, and the     *)
(* handle is not looked at again before the worker has finished.           *)
SurfacedOnce ==
  \A w \in Workers :
    /\ rethrown[w] + reported[w] = (IF observed[w] THEN 1 ELSE 0)
    /\ observed[w] => error[w] /\ phase[w] = "done"

(* Every thread is joined, and every exception surfaced, before main       *)
(* returns: the host unloads the program's code right after.               *)
UnloadIsSafe ==
  main = "returned" =>
    \A w \in Workers : phase[w] \in {"unborn", "done"} /\ (error[w] => observed[w])

(* Nobody waits for itself, however handles are moved: main returns.       *)
Returns == main = "returning" ~> main = "returned"

=============================================================================
