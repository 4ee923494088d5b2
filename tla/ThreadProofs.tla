----------------------------- MODULE ThreadProofs -----------------------------
(* A thread has one owner, its exception surfaces once, and none outlives  *)
(* main, for any number of workers and handles.                            *)
EXTENDS Thread, FiniteSetTheorems, TLAPS

(* A handle that is dead holds nothing, no two handles share a worker, and *)
(* a handle that cannot join its worker any more has joined it.            *)
Handled ==
  /\ \A s \in Slots : s \notin alive => state[s] = None
  /\ \A r, s \in Slots : state[r] # None /\ state[r] = state[s] => r = s
  /\ \A s \in Slots :
       state[s] # None =>
         phase[state[s]] # "unborn" /\ (thread[s] = None => phase[state[s]] = "done")

Owned ==
  \A w \in Workers :
    phase[w] \in {"running", "ended"} => \E s \in alive : thread[s] = w

(* A call works on handles its actor drives, or on the closure of a worker *)
(* that could not be started; nobody else has a call on them.              *)
Calling ==
  \A a \in Actors :
    call[a] # None =>
      /\ call[a].slot \in alive
      /\ call[a].op = "join" => thread[call[a].slot] # None
      /\ call[a].op = "assign" => call[a].from # call[a].slot /\ call[a].from \in Drives(a) \cap alive
      /\ \/ call[a].slot \in Drives(a)
         \/ call[a].op = "destroy" /\ call[a].slot \in Workers /\ phase[call[a].slot] = "unborn"
      /\ a \in Workers => phase[a] \in {"running", "ended"}
      /\ \A b \in Actors : a # b /\ call[b] # None => call[a].slot # call[b].slot

(* What a handle can still join has not been looked at.                    *)
Seen ==
  /\ SurfacedOnce
  /\ \A s \in Slots : thread[s] # None => ~observed[thread[s]]

IInv == TypeOK /\ Handled /\ Owned /\ Calling /\ Seen

-----------------------------------------------------------------------------
(* What the operators on handles and on errors leave behind.               *)

LEMMA Roles ==
  /\ Workers \subseteq Slots /\ Workers \subseteq Actors /\ Handles \subseteq Slots /\ Main \in Actors
  /\ Main \notin Workers /\ None \notin Workers /\ Handles \cap Workers = {}
  /\ \A a \in Actors : Drives(a) \subseteq Slots
  /\ \A a, b \in Actors : a # b => Drives(a) \cap Drives(b) = {}
  BY ThreadAssumption DEF Slots, Actors, Drives

LEMMA WorkerDrives ==
  ASSUME NEW a \in Actors, NEW w \in Drives(a) \cap Workers
  PROVE  w = a
  BY Roles DEF Drives

(* A move takes what s held to d, and touches no third handle.             *)
LEMMA MoveValues ==
  ASSUME TypeOK, NEW d \in Slots, NEW s \in Slots, d # s, Move(d, s)
  PROVE  /\ thread' \in [Slots -> Workers \cup {None}] /\ state' \in [Slots -> Workers \cup {None}]
         /\ thread'[d] = thread[s] /\ state'[d] = state[s]
         /\ thread'[s] = None /\ state'[s] = None
         /\ \A r \in Slots \ {d, s} : thread'[r] = thread[r] /\ state'[r] = state[r]
  BY DEF TypeOK, Move

(* What a handle still holds when nobody waits for it is of a worker that  *)
(* is done.                                                                *)
LEMMA HeldIsDone ==
  ASSUME TypeOK, Handled, NEW s \in Slots, Joined(s), state[s] # None
  PROVE  state[s] \in Workers /\ phase[state[s]] = "done"
  BY DEF TypeOK, Handled, Joined, Joinable

(* Settling a handle surfaces an error that nobody had seen.               *)
LEMMA ReportCounts ==
  ASSUME TypeOK, SurfacedOnce, NEW s \in Slots, Report(s),
         state[s] # None => phase[state[s]] = "done",
         \A w \in Workers : phase[w] = "done" => phase'[w] = "done"
  PROVE  /\ error' \in [Workers -> BOOLEAN] /\ observed' \in [Workers -> BOOLEAN]
         /\ rethrown' \in [Workers -> Nat] /\ reported' \in [Workers -> Nat]
         /\ SurfacedOnce'
         /\ \A w \in Workers : w # state[s] => observed'[w] = observed[w]
<1>1. CASE state[s] # None /\ error[state[s]] /\ ~observed[state[s]]
  <2>1. state[s] \in Workers
    BY <1>1 DEF TypeOK
  <2>2. /\ error' = error /\ rethrown' = rethrown
        /\ observed' = [observed EXCEPT ![state[s]] = TRUE]
        /\ reported' = [reported EXCEPT ![state[s]] = reported[state[s]] + 1]
    BY <1>1 DEF Report
  <2>3. SurfacedOnce'
    BY <1>1, <2>1, <2>2 DEF SurfacedOnce, TypeOK
  <2>4. QED
    BY <2>1, <2>2, <2>3 DEF TypeOK
<1>2. CASE ~(state[s] # None /\ error[state[s]] /\ ~observed[state[s]])
  BY <1>2 DEF Report, errors, SurfacedOnce, TypeOK
<1>3. QED
  BY <1>1, <1>2

(* A dead handle joins nothing.                                            *)
LEMMA DeadJoinsNothing ==
  ASSUME TypeOK, Handled, NEW s \in Slots, s \notin alive
  PROVE  thread[s] = None /\ state[s] = None
  BY DEF TypeOK, Handled, Joinable

(* A move to a handle with nothing to wait for loses no worker.            *)
LEMMA MoveKeepsHandles ==
  ASSUME TypeOK, Handled, Owned, NEW d \in Slots, NEW s \in alive, d # s, Joined(d),
         Move(d, s), alive' = alive \cup {d}, phase' = phase
  PROVE  Handled' /\ Owned' /\ \A r \in Slots : Joinable(r)' => state'[r] = thread'[r]
<1>1. /\ s \in Slots
      /\ thread'[d] = thread[s] /\ state'[d] = state[s]
      /\ thread'[s] = None /\ state'[s] = None
      /\ \A r \in Slots \ {d, s} : thread'[r] = thread[r] /\ state'[r] = state[r]
  BY MoveValues DEF TypeOK
<1>2. \A q, r \in Slots : state'[q] # None /\ state'[q] = state'[r] => q = r
  BY <1>1 DEF Handled
<1>3. Handled'
  BY <1>1, <1>2 DEF Handled
<1>4. Owned'
  <2> SUFFICES ASSUME NEW w \in Workers, phase[w] \in {"running", "ended"}
               PROVE  \E r \in alive' : thread'[r] = w
    BY DEF Owned
  <2>1. PICK r \in alive : thread[r] = w
    BY DEF Owned
  <2>2. r # d
    BY <2>1, Roles DEF Joined, Joinable
  <2>3. CASE r = s
    BY <1>1, <2>1, <2>3
  <2>4. CASE r # s
    BY <1>1, <2>1, <2>2, <2>4 DEF TypeOK
  <2>5. QED
    BY <2>3, <2>4
<1>5. QED
  BY <1>1, <1>3, <1>4 DEF TypeOK, Joinable

(* Only its own actor has a call on a handle it drives.                    *)
LEMMA Exclusive ==
  ASSUME TypeOK, Calling, NEW a \in Actors, NEW s \in Drives(a), a \in Workers => phase[a] # "unborn"
  PROVE  \A b \in Actors \ {a} :
           call[b] # None => call[b].slot # s /\ (call[b].op = "assign" => call[b].from # s)
<1> SUFFICES ASSUME NEW b \in Actors \ {a}, call[b] # None
             PROVE  call[b].slot # s /\ (call[b].op = "assign" => call[b].from # s)
  OBVIOUS
<1>1. Drives(a) \cap Drives(b) = {}
  BY Roles
<1>2. s \in Workers => phase[s] # "unborn"
  BY Roles, WorkerDrives
<1>3. /\ call[b].slot \in Drives(b) \/ (call[b].slot \in Workers /\ phase[call[b].slot] = "unborn")
      /\ call[b].op = "assign" => call[b].from \in Drives(b)
  BY DEF Calling
<1>4. QED
  BY <1>1, <1>2, <1>3

-----------------------------------------------------------------------------
(* Every action keeps the invariant.                                       *)

LEMMA InitIInv == Init => IInv
<1> SUFFICES ASSUME Init PROVE IInv
  OBVIOUS
<1> USE ThreadAssumption DEF Init, Slots, Actors
<1>1. TypeOK
  BY DEF TypeOK, Joinable
<1>2. Handled /\ Owned /\ Calling
  BY DEF Handled, Owned, Calling
<1>3. Seen
  BY DEF Seen, SurfacedOnce
<1>4. QED
  BY <1>1, <1>2, <1>3 DEF IInv

LEMMA StutterStep ==
  ASSUME IInv, UNCHANGED <<handles, phase, errors, call>>,
         main' \in {"runs", "returning", "returned"}
  PROVE  IInv'
<1> USE DEF handles, errors
<1>1. TypeOK'
  BY DEF IInv, TypeOK, Joinable, Call
<1>2. Handled' /\ Owned' /\ Calling'
  BY DEF IInv, Handled, Owned, Calling
<1>3. Seen'
  BY DEF IInv, Seen, SurfacedOnce
<1>4. QED
  BY <1>1, <1>2, <1>3 DEF IInv

LEMMA SpawnStep ==
  ASSUME IInv, NEW a \in Actors, NEW s \in Slots, NEW w \in Workers, NEW m \in Slots,
         Spawn(a, s, w, m)
  PROVE  IInv'
<1> USE DEF IInv
<1>1. /\ Idle(a) /\ s \in Drives(a) \ alive /\ phase[w] = "unborn" /\ w \notin alive
      /\ m = s \/ m \in Drives(a) \cap alive
      /\ phase' = [phase EXCEPT ![w] = "running"]
      /\ alive' = alive \cup (IF m = s THEN {s} ELSE {s, w})
      /\ UNCHANGED <<error, observed, rethrown, reported, call, main>>
  BY DEF Spawn, errors
<1>2. s # w /\ w \in Slots /\ m # w
  BY <1>1, Roles DEF Drives, Idle
<1>3. thread[s] = None /\ state[s] = None /\ thread[w] = None /\ state[w] = None
  BY <1>1, <1>2, DeadJoinsNothing
<1>4. /\ thread' \in [Slots -> Workers \cup {None}] /\ state' \in [Slots -> Workers \cup {None}]
      /\ thread'[s] = w /\ state'[s] = w
      /\ thread'[w] = thread[m] /\ state'[w] = state[m]
      /\ m # s => thread'[m] = None /\ state'[m] = None
      /\ \A r \in Slots \ {s, w, m} : thread'[r] = thread[r] /\ state'[r] = state[r]
  BY <1>2 DEF Spawn, TypeOK
<1>5. \A r \in Slots : state[r] # w
  BY <1>1, <1>2, Roles DEF Handled
<1>6. TypeOK'
  BY <1>1, <1>2, <1>3, <1>4 DEF TypeOK, Joinable
<1>7. Handled'
  <2>1. \A r \in Slots : r \notin alive' => state'[r] = None
    BY <1>1, <1>2, <1>3, <1>4 DEF Handled
  <2>2. \A q, r \in Slots : state'[q] # None /\ state'[q] = state'[r] => q = r
    BY <1>2, <1>3, <1>4, <1>5 DEF Handled
  <2>3. \A r \in Slots \ {s} : \E q \in Slots : state'[r] # None => state'[r] = state[q] /\ thread'[r] = thread[q]
    BY <1>2, <1>3, <1>4
  <2>4. \A r \in Slots \ {s} : state'[r] # None =>
          phase'[state'[r]] # "unborn" /\ (thread'[r] = None => phase'[state'[r]] = "done")
    BY <1>1, <1>5, <2>3 DEF Handled, TypeOK
  <2>5. phase'[w] = "running" /\ w # None
    BY <1>1, Roles DEF TypeOK
  <2>6. QED
    BY <1>4, <2>1, <2>2, <2>4, <2>5 DEF Handled
<1>8. Owned'
  <2> SUFFICES ASSUME NEW v \in Workers, phase'[v] \in {"running", "ended"}
               PROVE  \E r \in alive' : thread'[r] = v
    BY DEF Owned
  <2>1. CASE v = w
    BY <1>1, <1>4, <2>1
  <2>2. CASE v # w
    <3>1. PICK r \in alive : thread[r] = v
      BY <1>1, <2>2 DEF Owned, TypeOK
    <3>2. r \in Slots /\ r # s /\ r # w
      BY <1>1, <3>1 DEF TypeOK
    <3>3. CASE r = m
      BY <1>1, <1>4, <3>1, <3>2, <3>3
    <3>4. CASE r # m
      BY <1>1, <1>4, <3>1, <3>2, <3>4
    <3>5. QED
      BY <3>3, <3>4
  <2>3. QED
    BY <2>1, <2>2
<1>9. Calling'
  <2>1. \A b \in Actors : call[b] # None => call[b].slot \notin {s, w, m}
    BY <1>1, Exclusive, Roles DEF Idle, Calling
  <2>2. \A b \in Actors : call[b] # None => call[b].slot \in Slots /\ thread'[call[b].slot] = thread[call[b].slot]
    BY <1>4, <2>1 DEF TypeOK, Call
  <2>3. \A v \in Workers \ {w} : phase'[v] = phase[v]
    BY <1>1 DEF TypeOK
  <2>4. \A b \in Actors : call[b] # None => b # w
    BY <1>1 DEF Calling
  <2>5. QED
    BY <1>1, <2>1, <2>2, <2>3, <2>4 DEF Calling
<1>10. Seen'
  <2>1. ~observed[w]
    BY <1>1 DEF Seen, SurfacedOnce
  <2>2. SurfacedOnce'
    BY <1>1, <2>1 DEF Seen, SurfacedOnce, TypeOK
  <2>3. \A r \in Slots : thread'[r] # None => ~observed[thread'[r]]
    BY <1>2, <1>3, <1>4, <2>1 DEF Seen
  <2>4. QED
    BY <1>1, <2>2, <2>3 DEF Seen
<1>11. QED
  BY <1>6, <1>7, <1>8, <1>9, <1>10


LEMMA SpawnFailsStep ==
  ASSUME IInv, NEW a \in Actors, NEW w \in Workers, NEW m \in Slots, SpawnFails(a, w, m)
  PROVE  IInv'
<1> USE DEF IInv
<1>1. /\ Idle(a) /\ phase[w] = "unborn" /\ w \notin alive /\ m \in Drives(a) \cap alive
      /\ Move(w, m) /\ alive' = alive \cup {w}
      /\ call' = [call EXCEPT ![a] = [op |-> "destroy", slot |-> w, from |-> w]]
      /\ UNCHANGED <<phase, error, observed, rethrown, reported, main>>
  BY DEF SpawnFails, Await, errors
<1>2. w # m /\ w \in Slots
  BY <1>1, Roles
<1>3. Joined(w)
  BY <1>1, <1>2, DeadJoinsNothing DEF Joined, Joinable
<1>4. Handled' /\ Owned' /\ \A r \in Slots : Joinable(r)' => state'[r] = thread'[r]
  BY <1>1, <1>2, <1>3, MoveKeepsHandles
<1>5. /\ thread' \in [Slots -> Workers \cup {None}] /\ state' \in [Slots -> Workers \cup {None}]
      /\ thread'[w] = thread[m] /\ thread'[m] = None
      /\ \A r \in Slots \ {w, m} : thread'[r] = thread[r]
  BY <1>1, <1>2, MoveValues
<1>6. TypeOK'
  BY <1>1, <1>2, <1>4, <1>5 DEF TypeOK, Call
<1>7. Calling'
  <2>1. \A b \in Actors : call[b] # None => call[b].slot # m /\ call[b].slot # w
    BY <1>1, Exclusive, Roles DEF Idle, Calling
  <2>2. \A b \in Actors \ {a} : call'[b] = call[b]
    BY <1>1 DEF TypeOK
  <2>3. call'[a] = [op |-> "destroy", slot |-> w, from |-> w]
    BY <1>1 DEF TypeOK
  <2>4. \A b \in Actors \ {a} : call[b] # None => thread'[call[b].slot] = thread[call[b].slot]
    BY <1>5, <2>1 DEF TypeOK, Call
  <2>5. a \in Workers => phase[a] \in {"running", "ended"}
    BY <1>1, Roles DEF Idle
  <2>6. QED
    BY <1>1, <2>1, <2>2, <2>3, <2>4, <2>5 DEF Calling
<1>8. Seen'
  BY <1>1, <1>2, <1>5 DEF Seen, SurfacedOnce
<1>9. QED
  BY <1>4, <1>6, <1>7, <1>8


LEMMA MoveConstructStep ==
  ASSUME IInv, NEW a \in Actors, NEW d \in Slots, NEW s \in Slots, MoveConstruct(a, d, s)
  PROVE  IInv'
<1> USE DEF IInv
<1>1. /\ Idle(a) /\ d \in Drives(a) \ alive /\ s \in Drives(a) \cap alive /\ d # s
      /\ Move(d, s) /\ alive' = alive \cup {d}
      /\ UNCHANGED <<phase, error, observed, rethrown, reported, call, main>>
  BY DEF MoveConstruct, errors
<1>2. Joined(d)
  BY <1>1, DeadJoinsNothing DEF Joined, Joinable
<1>3. Handled' /\ Owned' /\ \A r \in Slots : Joinable(r)' => state'[r] = thread'[r]
  BY <1>1, <1>2, MoveKeepsHandles
<1>4. /\ thread' \in [Slots -> Workers \cup {None}] /\ state' \in [Slots -> Workers \cup {None}]
      /\ thread'[d] = thread[s] /\ thread'[s] = None
      /\ \A r \in Slots \ {d, s} : thread'[r] = thread[r]
  BY <1>1, MoveValues
<1>5. TypeOK'
  BY <1>1, <1>3, <1>4 DEF TypeOK
<1>6. Calling'
  <2>1. \A b \in Actors : call[b] # None => call[b].slot # s
    BY <1>1, Exclusive, Roles DEF Idle
  <2>2. QED
    BY <1>1, <1>4, <2>1 DEF Calling, TypeOK, Call
<1>7. Seen'
  BY <1>1, <1>4 DEF Seen, SurfacedOnce
<1>8. QED
  BY <1>3, <1>5, <1>6, <1>7


LEMMA CallAssignStep ==
  ASSUME IInv, NEW a \in Actors, NEW d \in Slots, NEW s \in Slots, CallAssign(a, d, s)
  PROVE  IInv'
<1> USE DEF IInv
<1>1. /\ call[a] = None /\ d # s /\ {d, s} \subseteq Drives(a) \cap alive
      /\ a \in Workers => phase[a] \in {"running", "ended"}
      /\ call' = [call EXCEPT ![a] = [op |-> "assign", slot |-> d, from |-> s]]
      /\ UNCHANGED <<thread, state, alive, phase, error, observed, rethrown, reported, main>>
  BY Roles DEF CallAssign, Await, Idle, Drives, Joinable, handles, errors
<1>2. TypeOK'
  BY <1>1 DEF TypeOK, Call, Joinable
<1>3. Handled' /\ Owned' /\ Seen'
  BY <1>1 DEF Handled, Owned, Seen, SurfacedOnce
<1>4. Calling'
  <2>1. \A b \in Actors \ {a} : call[b] # None => call[b].slot # d
    BY <1>1, Exclusive
  <2>2. \A b \in Actors \ {a} : call'[b] = call[b]
    BY <1>1 DEF TypeOK
  <2>3. call'[a] = [op |-> "assign", slot |-> d, from |-> s]
    BY <1>1 DEF TypeOK
  <2>4. QED
    BY <1>1, <2>1, <2>2, <2>3 DEF Calling
<1>5. QED
  BY <1>2, <1>3, <1>4


LEMMA CallJoinStep ==
  ASSUME IInv, NEW a \in Actors, NEW s \in Slots, CallJoin(a, s)
  PROVE  IInv'
<1> USE DEF IInv
<1>1. /\ call[a] = None /\ s \in Drives(a) \cap alive /\ thread[s] # None
      /\ a \in Workers => phase[a] \in {"running", "ended"}
      /\ call' = [call EXCEPT ![a] = [op |-> "join", slot |-> s, from |-> s]]
      /\ UNCHANGED <<thread, state, alive, phase, error, observed, rethrown, reported, main>>
  BY Roles DEF CallJoin, Await, Idle, Drives, Joinable, handles, errors
<1>2. TypeOK'
  BY <1>1 DEF TypeOK, Call, Joinable
<1>3. Handled' /\ Owned' /\ Seen'
  BY <1>1 DEF Handled, Owned, Seen, SurfacedOnce
<1>4. Calling'
  <2>1. \A b \in Actors \ {a} : call[b] # None => call[b].slot # s
    BY <1>1, Exclusive
  <2>2. \A b \in Actors \ {a} : call'[b] = call[b]
    BY <1>1 DEF TypeOK
  <2>3. call'[a] = [op |-> "join", slot |-> s, from |-> s]
    BY <1>1 DEF TypeOK
  <2>4. QED
    BY <1>1, <2>1, <2>2, <2>3 DEF Calling
<1>5. QED
  BY <1>2, <1>3, <1>4


LEMMA CallDestroyStep ==
  ASSUME IInv, NEW a \in Actors, NEW s \in Slots, CallDestroy(a, s)
  PROVE  IInv'
<1> USE DEF IInv
<1>1. /\ call[a] = None /\ s \in Drives(a) \cap alive /\ a \notin Workers
      /\ a \in Workers => phase[a] \in {"running", "ended"}
      /\ call' = [call EXCEPT ![a] = [op |-> "destroy", slot |-> s, from |-> s]]
      /\ UNCHANGED <<thread, state, alive, phase, error, observed, rethrown, reported, main>>
  BY Roles DEF CallDestroy, Await, Idle, Drives, Joinable, handles, errors
<1>2. TypeOK'
  BY <1>1 DEF TypeOK, Call, Joinable
<1>3. Handled' /\ Owned' /\ Seen'
  BY <1>1 DEF Handled, Owned, Seen, SurfacedOnce
<1>4. Calling'
  <2>1. \A b \in Actors \ {a} : call[b] # None => call[b].slot # s
    BY <1>1, Exclusive
  <2>2. \A b \in Actors \ {a} : call'[b] = call[b]
    BY <1>1 DEF TypeOK
  <2>3. call'[a] = [op |-> "destroy", slot |-> s, from |-> s]
    BY <1>1 DEF TypeOK
  <2>4. QED
    BY <1>1, <2>1, <2>2, <2>3 DEF Calling
<1>5. QED
  BY <1>2, <1>3, <1>4


LEMMA AssignStep ==
  ASSUME IInv, NEW a \in Actors, Assign(a)
  PROVE  IInv'
<1> USE DEF IInv
<1> DEFINE d == call[a].slot
           s == call[a].from
<1>1. /\ call[a] # None /\ call[a].op = "assign" /\ Joined(d) /\ Report(d) /\ Move(d, s)
      /\ call' = [call EXCEPT ![a] = None] /\ UNCHANGED <<alive, phase, main>>
  BY DEF Assign, Return
<1>2. d \in Drives(a) \cap alive /\ s \in Drives(a) \cap alive /\ d # s
      /\ (a \in Workers => phase[a] \in {"running", "ended"})
  BY <1>1 DEF Calling
<1>3. d \in Slots /\ s \in Slots
  BY <1>2, Roles
<1> HIDE DEF d, s
<1>4. Handled' /\ Owned' /\ \A r \in Slots : Joinable(r)' => state'[r] = thread'[r]
  <2>1. alive' = alive \cup {d} /\ phase' = phase
    BY <1>1, <1>2
  <2>2. QED
    BY <1>1, <1>2, <1>3, <2>1, MoveKeepsHandles
<1>5. /\ thread' \in [Slots -> Workers \cup {None}] /\ state' \in [Slots -> Workers \cup {None}]
      /\ thread'[d] = thread[s] /\ thread'[s] = None
      /\ \A r \in Slots \ {d, s} : thread'[r] = thread[r]
  BY <1>1, <1>2, <1>3, MoveValues
<1>6. /\ error' \in [Workers -> BOOLEAN] /\ observed' \in [Workers -> BOOLEAN]
      /\ rethrown' \in [Workers -> Nat] /\ reported' \in [Workers -> Nat]
      /\ SurfacedOnce' /\ \A w \in Workers : w # state[d] => observed'[w] = observed[w]
  BY <1>1, <1>3, HeldIsDone, ReportCounts DEF Seen
<1>7. TypeOK'
  BY <1>1, <1>4, <1>5, <1>6 DEF TypeOK
<1>8. Calling'
  <2>1. \A b \in Actors \ {a} : call[b] # None => call[b].slot # d /\ call[b].slot # s
    BY <1>2, Exclusive
  <2>2. /\ \A b \in Actors \ {a} : call'[b] = call[b]
        /\ call'[a] = None
    BY <1>1 DEF TypeOK
  <2>3. \A b \in Actors \ {a} : call[b] # None => thread'[call[b].slot] = thread[call[b].slot]
    BY <1>5, <2>1 DEF TypeOK, Call
  <2>4. QED
    BY <1>1, <2>2, <2>3 DEF Calling
<1>9. Seen'
  <2>1. \A r \in Slots \ {d} : thread[r] # None => thread[r] \in Workers /\ thread[r] # state[d]
    BY <1>3 DEF TypeOK, Handled, Joinable
  <2>2. \A r \in Slots : thread'[r] # None => \E q \in Slots \ {d} : thread'[r] = thread[q]
    BY <1>2, <1>3, <1>5
  <2>3. QED
    BY <1>6, <2>1, <2>2 DEF Seen
<1>10. QED
  BY <1>4, <1>7, <1>8, <1>9


LEMMA JoinStep ==
  ASSUME IInv, NEW a \in Actors, Join(a)
  PROVE  IInv'
<1> USE DEF IInv
<1> DEFINE s == call[a].slot
           w == state[s]
<1>1. /\ call[a] # None /\ call[a].op = "join" /\ Joined(s)
      /\ thread' = [thread EXCEPT ![s] = None]
      /\ \/ /\ w # None /\ error[w]
            /\ observed' = [observed EXCEPT ![w] = TRUE]
            /\ rethrown' = [rethrown EXCEPT ![w] = rethrown[w] + 1]
         \/ UNCHANGED <<observed, rethrown>>
      /\ call' = [call EXCEPT ![a] = None] /\ UNCHANGED <<state, alive, phase, error, reported, main>>
  BY DEF Join, Return
<1>2. s \in Slots /\ thread[s] # None
  BY <1>1 DEF TypeOK, Call, Calling
<1>3. w \in Workers /\ w = thread[s] /\ phase[w] = "done" /\ ~observed[w]
  BY <1>1, <1>2 DEF TypeOK, Joined, Joinable, Seen
<1>4. \A r \in Slots : thread'[r] = IF r = s THEN None ELSE thread[r]
  BY <1>1, <1>2 DEF TypeOK
<1>5. \A r \in Slots \ {s} : state[r] # w
  BY <1>2, <1>3, Roles DEF Handled
<1> HIDE DEF s, w
<1>6. /\ observed' \in [Workers -> BOOLEAN] /\ rethrown' \in [Workers -> Nat]
      /\ SurfacedOnce' /\ \A v \in Workers \ {w} : observed'[v] = observed[v]
  <2>1. CASE /\ error[w] /\ observed' = [observed EXCEPT ![w] = TRUE]
             /\ rethrown' = [rethrown EXCEPT ![w] = rethrown[w] + 1]
    <3>1. /\ observed'[w] = TRUE /\ rethrown'[w] = rethrown[w] + 1
          /\ \A v \in Workers \ {w} : observed'[v] = observed[v] /\ rethrown'[v] = rethrown[v]
      BY <1>3, <2>1 DEF TypeOK
    <3>2. SurfacedOnce'
      BY <1>1, <1>3, <2>1, <3>1 DEF Seen, SurfacedOnce, TypeOK
    <3>3. observed' \in [Workers -> BOOLEAN]
      BY <2>1 DEF TypeOK
    <3>4. rethrown' \in [Workers -> Nat]
      BY <1>3, <2>1 DEF TypeOK
    <3>5. QED
      BY <3>1, <3>2, <3>3, <3>4
  <2>2. CASE UNCHANGED <<observed, rethrown>>
    BY <1>1, <2>2 DEF Seen, SurfacedOnce, TypeOK
  <2>3. QED
    BY <1>1, <2>1, <2>2
<1>7. TypeOK'
  BY <1>1, <1>2, <1>4, <1>6 DEF TypeOK, Joinable
<1>8. Handled'
  BY <1>1, <1>3, <1>4 DEF Handled, w
<1>9. Owned'
  BY <1>1, <1>3, <1>4 DEF Owned, TypeOK
<1>10. Calling'
  <2>1. /\ \A b \in Actors \ {a} : call'[b] = call[b]
        /\ call'[a] = None
    BY <1>1 DEF TypeOK
  <2>2. \A b \in Actors \ {a} : call[b] # None =>
          call[b].slot \in Slots /\ call[b].slot # s
    BY <1>1 DEF Calling, TypeOK, Call, s
  <2>3. QED
    BY <1>1, <1>4, <2>1, <2>2 DEF Calling
<1>11. Seen'
  <2>1. \A r \in Slots \ {s} : thread[r] # None => thread[r] \in Workers \ {w}
    BY <1>5 DEF TypeOK, Joinable
  <2>2. QED
    BY <1>4, <1>6, <2>1 DEF Seen
<1>12. QED
  BY <1>7, <1>8, <1>9, <1>10, <1>11


LEMMA DestroyStep ==
  ASSUME IInv, NEW a \in Actors, Destroy(a)
  PROVE  IInv'
<1> USE DEF IInv
<1> DEFINE s == call[a].slot
<1>1. /\ call[a] # None /\ call[a].op = "destroy" /\ Joined(s) /\ Report(s)
      /\ thread' = [thread EXCEPT ![s] = None] /\ state' = [state EXCEPT ![s] = None]
      /\ alive' = alive \ {s}
      /\ phase' = [v \in Workers |-> IF v = a /\ phase[v] = "ended" THEN "done" ELSE phase[v]]
      /\ call' = [call EXCEPT ![a] = None] /\ UNCHANGED main
  BY DEF Destroy, Return
<1>2. s \in Slots /\ s \in alive
  BY <1>1 DEF TypeOK, Call, Calling
<1>3. \A r \in Slots :
        /\ thread'[r] = IF r = s THEN None ELSE thread[r]
        /\ state'[r] = IF r = s THEN None ELSE state[r]
  BY <1>1, <1>2 DEF TypeOK
<1>4. \A v \in Workers :
        /\ phase'[v] = "unborn" <=> phase[v] = "unborn"
        /\ phase[v] = "done" => phase'[v] = "done"
        /\ v # a => phase'[v] = phase[v]
        /\ phase'[v] \in {"running", "ended"} => phase[v] \in {"running", "ended"}
  BY <1>1 DEF TypeOK
<1>5. \A b \in Actors \ {a} : call[b] # None =>
        call[b].slot # s /\ (call[b].op = "assign" => call[b].from # s)
  <2> SUFFICES ASSUME NEW b \in Actors \ {a}, call[b] # None
               PROVE  s # call[b].slot /\ (call[b].op = "assign" => s # call[b].from)
    OBVIOUS
  <2>1. s # call[b].slot
    BY <1>1 DEF Calling
  <2>2. /\ s \in Drives(a) \/ (s \in Workers /\ phase[s] = "unborn")
        /\ b \in Workers => phase[b] # "unborn"
        /\ call[b].op = "assign" => call[b].from \in Drives(b)
    BY <1>1 DEF Calling
  <2>3. Drives(a) \cap Drives(b) = {}
    BY Roles
  <2>4. QED
    BY <2>1, <2>2, <2>3, WorkerDrives
<1> HIDE DEF s
<1>6. /\ error' \in [Workers -> BOOLEAN] /\ observed' \in [Workers -> BOOLEAN]
      /\ rethrown' \in [Workers -> Nat] /\ reported' \in [Workers -> Nat]
      /\ SurfacedOnce' /\ \A v \in Workers : v # state[s] => observed'[v] = observed[v]
  BY <1>1, <1>2, <1>4, HeldIsDone, ReportCounts DEF Seen
<1>7. TypeOK'
  <2>1. phase' \in [Workers -> {"unborn", "running", "ended", "done"}]
    BY <1>1 DEF TypeOK
  <2>2. QED
    BY <1>1, <1>2, <1>3, <1>6, <2>1 DEF TypeOK, Joinable
<1>8. Handled'
  BY <1>1, <1>3, <1>4 DEF Handled, TypeOK
<1>9. Owned'
  <2> SUFFICES ASSUME NEW v \in Workers, phase'[v] \in {"running", "ended"}
               PROVE  \E r \in alive' : thread'[r] = v
    BY DEF Owned
  <2>1. PICK r \in alive : thread[r] = v
    BY <1>4 DEF Owned
  <2>2. r # s
    BY <1>1, <1>4, <2>1, Roles DEF Joined, Joinable
  <2>3. QED
    BY <1>1, <1>3, <2>1, <2>2 DEF TypeOK
<1>10. Calling'
  <2>1. /\ \A b \in Actors \ {a} : call'[b] = call[b]
        /\ call'[a] = None
    BY <1>1 DEF TypeOK
  <2>2. \A b \in Actors \ {a} : call[b] # None => call[b].slot \in Slots
    BY DEF TypeOK, Call
  <2>3. QED
    BY <1>1, <1>3, <1>4, <1>5, <2>1, <2>2 DEF Calling
<1>11. Seen'
  <2>1. \A r \in Slots \ {s} : thread[r] # None => thread[r] \in Workers /\ thread[r] # state[s]
    BY <1>2 DEF TypeOK, Handled, Joinable
  <2>2. QED
    BY <1>3, <1>6, <2>1 DEF Seen
<1>12. QED
  BY <1>7, <1>8, <1>9, <1>10, <1>11


LEMMA WorkerEndsStep ==
  ASSUME IInv, NEW w \in Workers, WorkerEnds(w)
  PROVE  IInv'
<1> USE DEF IInv
<1>1. /\ call[w] = None /\ phase[w] = "running"
      /\ error' \in [Workers -> BOOLEAN] /\ \A v \in Workers \ {w} : error'[v] = error[v]
      /\ UNCHANGED <<thread, state, alive, observed, rethrown, reported, main>>
  BY Roles DEF WorkerEnds, Idle, handles, TypeOK
<1>2. /\ phase' \in [Workers -> {"unborn", "running", "ended", "done"}]
      /\ phase'[w] \in {"ended", "done"}
      /\ \A v \in Workers \ {w} : phase'[v] = phase[v]
  BY DEF WorkerEnds, TypeOK
<1>3. \/ w \in alive /\ call' = [call EXCEPT ![w] = [op |-> "destroy", slot |-> w, from |-> w]] /\ phase'[w] = "ended"
      \/ call' = call
  BY DEF WorkerEnds, Await, TypeOK
<1>4. TypeOK'
  BY <1>1, <1>2, <1>3, Roles DEF TypeOK, Joinable, Call
<1>5. Handled'
  BY <1>1, <1>2 DEF Handled, TypeOK
<1>6. Owned'
  BY <1>1, <1>2 DEF Owned
<1>7. Calling'
  <2>1. \A b \in Actors : call[b] # None => call[b].slot # w /\ b # w
    BY <1>1, Exclusive, Roles DEF Drives
  <2>2. CASE call' = call
    BY <1>1, <1>2, <2>1, <2>2 DEF Calling
  <2>3. CASE /\ w \in alive /\ phase'[w] = "ended"
             /\ call' = [call EXCEPT ![w] = [op |-> "destroy", slot |-> w, from |-> w]]
    <3>1. /\ \A b \in Actors \ {w} : call'[b] = call[b]
          /\ call'[w] = [op |-> "destroy", slot |-> w, from |-> w]
      BY <2>3, Roles DEF TypeOK
    <3>2. w \in Drives(w)
      BY Roles DEF Drives
    <3>3. QED
      BY <1>1, <1>2, <2>1, <2>3, <3>1, <3>2 DEF Calling
  <2>4. QED
    BY <1>3, <2>2, <2>3
<1>8. Seen'
  BY <1>1, <1>2 DEF Seen, SurfacedOnce
<1>9. QED
  BY <1>4, <1>5, <1>6, <1>7, <1>8


LEMMA StepIInv == IInv /\ [Next]_vars => IInv'
<1> SUFFICES ASSUME IInv, [Next]_vars
             PROVE  IInv'
  OBVIOUS
<1>1. ASSUME NEW a \in Actors, NEW s \in Slots, NEW w \in Workers, NEW m \in Slots,
             Spawn(a, s, w, m)
      PROVE  IInv'
  BY <1>1, SpawnStep
<1>2. ASSUME NEW a \in Actors, NEW w \in Workers, NEW m \in Slots, SpawnFails(a, w, m)
      PROVE  IInv'
  BY <1>2, SpawnFailsStep
<1>3. ASSUME NEW a \in Actors, NEW d \in Slots, NEW s \in Slots,
             MoveConstruct(a, d, s) \/ CallAssign(a, d, s)
      PROVE  IInv'
  BY <1>3, MoveConstructStep, CallAssignStep
<1>4. ASSUME NEW a \in Actors, NEW s \in Slots, CallJoin(a, s) \/ CallDestroy(a, s)
      PROVE  IInv'
  BY <1>4, CallJoinStep, CallDestroyStep
<1>5. ASSUME NEW a \in Actors, Assign(a) \/ Join(a) \/ Destroy(a)
      PROVE  IInv'
  BY <1>5, AssignStep, JoinStep, DestroyStep
<1>6. ASSUME NEW w \in Workers, WorkerEnds(w)
      PROVE  IInv'
  BY <1>6, WorkerEndsStep
<1>7. CASE MainReturns \/ Unload
  BY <1>7, StutterStep DEF MainReturns, Unload
<1>8. CASE UNCHANGED vars
  BY <1>8, StutterStep DEF vars, IInv, TypeOK
<1>9. QED
  BY <1>1, <1>2, <1>3, <1>4, <1>5, <1>6, <1>7, <1>8 DEF Next

(* The invariant that the theorems rest on.                                *)
THEOREM Invariant == Spec => []IInv
  BY InitIInv, StepIInv, PTL DEF Spec

(* A handle that can join shares its worker's error slot: no state is out  *)
(* of the shape the module declares.                                       *)
THEOREM TypeInvariant == Spec => []TypeOK
<1>1. IInv => TypeOK
  BY DEF IInv
<1>2. QED
  BY <1>1, Invariant, PTL

(* An exception a worker throws surfaces at join() or on stderr, never at  *)
(* both and never twice, and nobody looks for it before the worker is done.*)
THEOREM Surfacing == Spec => []SurfacedOnce
<1>1. IInv => SurfacedOnce
  BY DEF IInv, Seen
<1>2. QED
  BY <1>1, Invariant, PTL

(* However handles are moved, a worker that is not done has exactly one    *)
(* handle that can join it, and never has two.                             *)
THEOREM Ownership == Spec => []SoleOwner
<1>1. ASSUME IInv, NEW w \in Workers
      PROVE  LET owners == {s \in alive : thread[s] = w}
             IN  Cardinality(owners) <= 1 /\ (phase[w] \in {"running", "ended"} => owners # {})
  <2> DEFINE owners == {s \in alive : thread[s] = w}
  <2>1. \A r, s \in owners : r = s
    BY <1>1, Roles DEF IInv, TypeOK, Handled, Joinable
  <2>2. owners = {} \/ \E r \in owners : owners = {r}
    BY <2>1
  <2> HIDE DEF owners
  <2>3. owners = {} => Cardinality(owners) = 0
    BY FS_EmptySet
  <2>4. ASSUME NEW r \in owners, owners = {r} PROVE Cardinality(owners) = 1
    BY <2>4, FS_Singleton
  <2>5. Cardinality(owners) <= 1
    BY <2>2, <2>3, <2>4
  <2>6. phase[w] \in {"running", "ended"} => owners # {}
    BY <1>1 DEF IInv, Owned, owners
  <2>7. QED
    BY <2>5, <2>6 DEF owners
<1>2. IInv => SoleOwner
  BY <1>1 DEF SoleOwner
<1>3. QED
  BY <1>2, Invariant, PTL

-----------------------------------------------------------------------------
(* Who waits for whom.  A worker is joined by whoever owns its handle, and *)
(* handles move into closures of workers whose handles move in turn.  That *)
(* nobody is left when main has returned needs the owners to be a tree.    *)

(* The workers that are not done.                                          *)
Live == {w \in Workers : phase[w] \in {"running", "ended"}}

(* u owns the handle that joins w: its closure holds it, or the closure    *)
(* of a worker it failed to start.                                         *)
Owns(u, w) == thread[u] = w \/ (call[u] # None /\ thread[call[u].slot] = w)

(* The owners of handles form no cycle: among any workers that are not     *)
(* done there is one whose handle none of them owns.                       *)
Rooted == \A S \in SUBSET Live : S # {} => \E w \in S : \A u \in S : ~Owns(u, w)

(* A closure lives as long as its worker, or the call that failed to start *)
(* it; a worker that ended destroys its own.                               *)
Closures ==
  /\ \A w \in Workers \cap alive :
       \/ w \in Live
       \/ phase[w] = "unborn" /\ \E a \in Actors : call[a] # None /\ call[a].slot = w
  /\ \A w \in Workers : phase[w] = "ended" => call[w] # None /\ call[w].op = "destroy" /\ call[w].slot = w

(* An exception nobody saw still has a handle.                             *)
Pending == \A w \in Workers : error[w] /\ ~observed[w] => \E s \in alive : state[s] = w

Returned == main = "returned" => call[Main] = None /\ alive \cap Handles = {}

Tree == Rooted /\ Closures /\ Pending /\ Returned

(* No cycle comes from what only gives handles up.                         *)
LEMMA RootedKept ==
  ASSUME Rooted, Live' \subseteq Live, \A u, w \in Live' : Owns(u, w)' => Owns(u, w)
  PROVE  Rooted'
<1> SUFFICES ASSUME NEW S \in SUBSET Live', S # {}
             PROVE  \E w \in S : \A u \in S : ~Owns(u, w)'
  BY DEF Rooted
<1>1. PICK w \in S : \A u \in S : ~Owns(u, w)
  BY DEF Rooted
<1>2. QED
  BY <1>1

(* A worker with a call, or idle, is live; a call of another worker is on  *)
(* no handle that a drives.                                                *)
LEMMA WorkerCalls ==
  ASSUME IInv, NEW a \in Actors, Idle(a), NEW b \in Actors \ {a}, call[b] # None
  PROVE  call[b].slot \in Slots /\ \A s \in Drives(a) : call[b].slot # s
<1>1. a \in Workers => phase[a] # "unborn"
  BY Roles DEF Idle
<1>2. QED
  BY <1>1, Exclusive DEF IInv, TypeOK, Call

LEMMA SpawnRooted ==
  ASSUME IInv, Rooted, NEW a \in Actors, NEW s \in Slots, NEW w \in Workers, NEW m \in Slots,
         Spawn(a, s, w, m)
  PROVE  Rooted'
<1>1. /\ Idle(a) /\ s \in Drives(a) /\ s \notin alive /\ phase[w] = "unborn" /\ w \notin alive
      /\ m = s \/ m \in Drives(a) \cap alive
      /\ phase' = [phase EXCEPT ![w] = "running"] /\ call' = call
      /\ thread' = [[thread EXCEPT ![w] = thread[m]] EXCEPT ![m] = None, ![s] = w]
  BY DEF Spawn
<1>2. s # w /\ w \in Slots /\ m # w /\ s \in Slots
  BY <1>1, Roles DEF Drives, Idle
<1>3. thread[s] = None
  BY <1>1, DeadJoinsNothing DEF IInv
<1>4. /\ thread'[s] = w /\ thread'[w] = thread[m]
      /\ m # s => thread'[m] = None
      /\ \A r \in Slots \ {s, w, m} : thread'[r] = thread[r]
  BY <1>2 DEF Spawn, IInv, TypeOK
<1>5. Live' = Live \cup {w} /\ w \notin Live /\ Live \subseteq Workers
  BY <1>1 DEF Live, IInv, TypeOK
<1>6. call[w] = None
  BY <1>1, Roles DEF IInv, Calling
<1>7. a \in Workers => s = a /\ m = a
  BY <1>1, Roles DEF Drives
<1>8. a = Main => s \notin Workers /\ m \notin Workers
  BY <1>1, Roles DEF Drives
<1>9. \A b \in Actors \ {a} : call[b] # None => call[b].slot \in Slots \ {s, m, w}
  <2>1. \A b \in Actors \ {a} : call[b] # None => call[b].slot \in Slots \ {s, m}
    BY <1>1, WorkerCalls
  <2>2. \A b \in Actors : call[b] # None => call[b].slot \in alive
    BY DEF IInv, Calling
  <2>3. QED
    BY <1>1, <2>1, <2>2
<1>10. call[a] = None
  BY <1>1 DEF Idle
<1>11. \A u \in Live \ {s} : \A v \in Live' : Owns(u, v)' => Owns(u, v)
  BY <1>1, <1>2, <1>4, <1>5, <1>7, <1>8, <1>9, <1>10, Roles DEF Owns, Actors
<1>12. \A v \in Live : ~Owns(s, v)' \/ s \notin Live
  <2>1. s \in Live => a = s
    BY <1>5, <1>7, <1>8 DEF Actors
  <2>2. s \in Live => call'[s] = None
    BY <1>1, <1>10, <2>1
  <2>3. QED
    BY <1>4, <1>5, <2>2 DEF Owns
<1>13. ~Owns(w, w)'
  <2>1. thread[m] # w
    BY <1>1, <1>2, Roles DEF IInv, Handled, TypeOK, Joinable
  <2>2. QED
    BY <1>1, <1>4, <1>6, <2>1 DEF Owns
<1>14. s \notin Live => \A u \in Live : ~Owns(u, w)'
  <2>1. \A r \in Slots : thread[r] # w
    BY <1>1, <1>2, Roles DEF IInv, Handled, TypeOK, Joinable
  <2>2. \A u \in Live \ {s} : ~Owns(u, w)
    BY <1>5, <1>9, <1>10, <2>1, Roles DEF Owns, Actors
  <2>3. QED
    BY <1>5, <1>11, <2>2
<1>15. s \in Live => thread'[w] = None
  BY <1>3, <1>4, <1>5, <1>7, <1>8, <1>1 DEF Actors
<1> SUFFICES ASSUME NEW S \in SUBSET Live', S # {}
             PROVE  \E v \in S : \A u \in S : ~Owns(u, v)'
  BY DEF Rooted
<1>16. CASE s \notin Live /\ w \in S
  BY <1>5, <1>13, <1>14, <1>16
<1>17. CASE S \subseteq Live
  <2>1. PICK v \in S : \A u \in S : ~Owns(u, v)
    BY <1>17 DEF Rooted
  <2>2. \A u \in S : ~Owns(u, v)'
    BY <1>11, <1>12, <1>17, <2>1, <1>5
  <2>3. QED
    BY <2>2
<1>18. CASE s \in Live /\ w \in S
  <2>1. CASE S = {w}
    BY <1>13, <2>1
  <2>2. CASE S # {w}
    <3>1. S \ {w} \in SUBSET Live /\ S \ {w} # {}
      BY <1>5, <2>2, <1>18
    <3>2. PICK v \in S \ {w} : \A u \in S \ {w} : ~Owns(u, v)
      BY <3>1 DEF Rooted
    <3>3. \A u \in S \ {w} : ~Owns(u, v)'
      BY <1>5, <1>11, <1>12, <3>1, <3>2
    <3>4. ~Owns(w, v)'
      BY <1>1, <1>6, <1>15, <1>18, <3>2, <1>5, Roles DEF Owns
    <3>5. QED
      BY <3>2, <3>3, <3>4
  <2>3. QED
    BY <2>1, <2>2
<1>19. QED
  BY <1>5, <1>16, <1>17, <1>18

LEMMA StepRooted ==
  ASSUME IInv, Rooted, [Next]_vars
  PROVE  Rooted'
<1>0. /\ thread \in [Slots -> Workers \cup {None}] /\ phase \in [Workers -> {"unborn", "running", "ended", "done"}]
      /\ call \in [Actors -> Call \cup {None}]
      /\ \A b \in Actors : call[b] # None => call[b].slot \in Slots
      /\ Live \subseteq Workers /\ Workers \subseteq Slots /\ Workers \subseteq Actors /\ None \notin Workers
  BY Roles DEF IInv, TypeOK, Live, Call
<1>1. ASSUME NEW a \in Actors, NEW s \in Slots, NEW w \in Workers, NEW m \in Slots,
             Spawn(a, s, w, m)
      PROVE  Rooted'
  BY <1>1, SpawnRooted
<1>2. ASSUME NEW a \in Actors, NEW w \in Workers, NEW m \in Slots, SpawnFails(a, w, m)
      PROVE  Rooted'
  <2>1. /\ Idle(a) /\ phase[w] = "unborn" /\ w \notin alive /\ m \in Drives(a) \cap alive /\ Move(w, m)
        /\ call' = [call EXCEPT ![a] = [op |-> "destroy", slot |-> w, from |-> w]] /\ phase' = phase
    BY <1>2 DEF SpawnFails, Await
  <2>2. w # m /\ w \in Slots
    BY <2>1, Roles
  <2>3. /\ thread'[w] = thread[m] /\ thread'[m] = None
        /\ \A r \in Slots \ {w, m} : thread'[r] = thread[r]
    BY <2>1, <2>2, MoveValues DEF IInv
  <2>4. \A b \in Actors : call[b] # None => call[b].slot \in Slots \ {w, m} /\ b # a
    <3>1. \A b \in Actors \ {a} : call[b] # None => call[b].slot # m
      BY <2>1, WorkerCalls
    <3>2. \A b \in Actors : call[b] # None => call[b].slot \in alive
      BY DEF IInv, Calling
    <3>3. QED
      BY <1>0, <2>1, <3>1, <3>2 DEF Idle
  <2>5. Live' = Live /\ w \notin Live
    BY <2>1 DEF Live
  <2>6. a \in Workers => m = a
    BY <2>1, Roles DEF Drives
  <2>7. a \notin Workers => m \notin Workers
    BY <2>1, Roles DEF Drives, Actors
  <2>8. call'[a].slot = w /\ \A b \in Actors \ {a} : call'[b] = call[b]
    BY <1>0, <2>1
  <2>9. \A u, v \in Live : Owns(u, v)' => Owns(u, v)
    BY <1>0, <2>2, <2>3, <2>4, <2>5, <2>6, <2>7, <2>8 DEF Owns
  <2>10. QED
    BY <2>5, <2>9, RootedKept
<1>3. ASSUME NEW a \in Actors, NEW d \in Slots, NEW s \in Slots,
             MoveConstruct(a, d, s) \/ (Assign(a) /\ d = call[a].slot /\ s = call[a].from)
      PROVE  Rooted'
  <2>1. /\ d # s /\ d \in Drives(a) /\ s \in Drives(a) /\ Move(d, s) /\ phase' = phase
        /\ call' = call \/ call' = [call EXCEPT ![a] = None]
        /\ a \in Workers => phase[a] # "unborn"
    BY <1>3, Roles DEF MoveConstruct, Assign, Idle, IInv, Calling, Return
  <2>2. a = Main /\ d \notin Workers /\ s \notin Workers
    BY <2>1, Roles DEF Drives, Actors
  <2>3. \A r \in Slots \ {d, s} : thread'[r] = thread[r]
    BY <2>1, MoveValues DEF IInv
  <2>4. \A b \in Actors \ {a} : call[b] # None => call[b].slot \in Slots \ {d, s}
    BY <1>0, <2>1, Exclusive DEF IInv
  <2>5. \A b \in Actors \ {a} : call'[b] = call[b]
    BY <1>0, <2>1
  <2>6. \A u, v \in Live : Owns(u, v)' => Owns(u, v)
    BY <1>0, <2>2, <2>3, <2>4, <2>5, Roles DEF Owns
  <2>7. QED
    BY <2>1, <2>6, RootedKept DEF Live
<1>4. ASSUME NEW a \in Actors, NEW d \in Slots, NEW s \in Slots,
             CallAssign(a, d, s) \/ CallJoin(a, d) \/ CallDestroy(a, d)
      PROVE  Rooted'
  <2>1. /\ d \in Drives(a) /\ thread' = thread /\ phase' = phase
        /\ \E op \in {"assign", "join", "destroy"}, f \in Slots :
             call' = [call EXCEPT ![a] = [op |-> op, slot |-> d, from |-> f]]
    BY <1>4 DEF CallAssign, CallJoin, CallDestroy, Await, handles, Drives
  <2>2. call'[a].slot = d /\ \A b \in Actors \ {a} : call'[b] = call[b]
    BY <1>0, <2>1
  <2>3. a \in Workers => d = a
    BY <2>1, Roles DEF Drives
  <2>4. \A u, v \in Live : Owns(u, v)' => Owns(u, v)
    BY <1>0, <2>1, <2>2, <2>3 DEF Owns
  <2>5. QED
    BY <2>1, <2>4, RootedKept DEF Live
<1>5. ASSUME NEW a \in Actors, Join(a) \/ Destroy(a)
      PROVE  Rooted'
  <2>1. /\ \E s \in Slots : thread' = [thread EXCEPT ![s] = None]
        /\ call' = [call EXCEPT ![a] = None]
        /\ phase' = phase \/ phase' = [v \in Workers |-> IF v = a /\ phase[v] = "ended" THEN "done" ELSE phase[v]]
    BY <1>0, <1>5 DEF Join, Destroy, Return
  <2>2. \A r \in Slots : thread'[r] \in {None, thread[r]}
    BY <1>0, <2>1
  <2>3. \A b \in Actors : call'[b] \in {None, call[b]}
    BY <1>0, <2>1
  <2>4. Live' \subseteq Live
    BY <2>1 DEF Live
  <2>5. \A u, v \in Live' : Owns(u, v)' => Owns(u, v)
    BY <1>0, <2>2, <2>3, <2>4 DEF Owns
  <2>6. QED
    BY <2>4, <2>5, RootedKept
<1>6. ASSUME NEW w \in Workers, WorkerEnds(w)
      PROVE  Rooted'
  <2>1. /\ thread' = thread /\ phase[w] = "running"
        /\ \/ call' = call
           \/ call' = [call EXCEPT ![w] = [op |-> "destroy", slot |-> w, from |-> w]]
        /\ phase' = [phase EXCEPT ![w] = "ended"] \/ phase' = [phase EXCEPT ![w] = "done"]
    BY <1>6, Roles DEF WorkerEnds, Await, handles, Idle
  <2>2. Live' \subseteq Live
    BY <1>0, <2>1 DEF Live
  <2>3. \A b \in Actors : call'[b] = call[b] \/ (b = w /\ call'[b].slot = w)
    BY <1>0, <2>1
  <2>4. \A u, v \in Live' : Owns(u, v)' => Owns(u, v)
    BY <1>0, <2>1, <2>2, <2>3 DEF Owns
  <2>5. QED
    BY <2>2, <2>4, RootedKept
<1>7. CASE MainReturns \/ Unload \/ UNCHANGED vars
  <2>1. UNCHANGED <<thread, call, phase>>
    BY <1>7 DEF MainReturns, Unload, vars, handles
  <2>2. QED
    BY <2>1, RootedKept DEF Live, Owns
<1>8. QED
  <2>1. ASSUME NEW a \in Actors, Assign(a) PROVE Rooted'
    <3>1. call[a].slot \in Slots /\ call[a].from \in Slots
      BY <2>1 DEF Assign, IInv, TypeOK, Call
    <3>2. QED
      BY <1>3, <2>1, <3>1
  <2>2. QED
    BY <1>1, <1>2, <1>3, <1>4, <1>5, <1>6, <1>7, <2>1 DEF Next

(* A call is never mistaken for none.                                      *)
LEMMA NoCall == \A op \in {"join", "assign", "destroy"}, s, f \in Slots :
                  [op |-> op, slot |-> s, from |-> f] # None
  BY ThreadAssumption DEF Call

LEMMA InitTree == Init => Tree
<1> SUFFICES ASSUME Init PROVE Tree
  OBVIOUS
<1>1. Live = {}
  BY DEF Init, Live
<1>2. Rooted
  BY <1>1 DEF Rooted
<1>3. QED
  BY <1>1, <1>2 DEF Init, Tree, Closures, Pending, Returned

(* The closure of a worker that is not live is in the hands of the call    *)
(* that destroys it; an ended worker's is in its own.                      *)
LEMMA StepClosures ==
  ASSUME IInv, Closures, [Next]_vars
  PROVE  Closures'
<1>0. /\ phase \in [Workers -> {"unborn", "running", "ended", "done"}]
      /\ call \in [Actors -> Call \cup {None}]
      /\ Workers \subseteq Slots /\ Workers \subseteq Actors /\ None \notin Workers /\ Main \notin Workers
      /\ Handles \cap Workers = {}
  BY Roles DEF IInv, TypeOK
<1> DEFINE Held(w) == \/ phase[w] \in {"running", "ended"}
                      \/ phase[w] = "unborn" /\ \E a \in Actors : call[a] # None /\ call[a].slot = w
           Ending(w) == call[w] # None /\ call[w].op = "destroy" /\ call[w].slot = w
<1>w. ASSUME \A w \in Workers \cap alive' : Held(w)',
             \A w \in Workers : phase'[w] = "ended" => Ending(w)'
      PROVE  Closures'
  BY <1>w DEF Closures, Live
<1>h. /\ \A w \in Workers \cap alive : Held(w)
      /\ \A w \in Workers : phase[w] = "ended" => Ending(w)
  BY DEF Closures, Live
<1>c. ASSUME NEW a \in Actors, call[a] # None
      PROVE  call[a].slot \in alive
  BY <1>c DEF IInv, Calling
<1>1. ASSUME NEW a \in Actors, NEW s \in Slots, NEW w \in Workers, NEW m \in Slots,
             Spawn(a, s, w, m)
      PROVE  Closures'
  <2>1. /\ Idle(a) /\ s \in Drives(a) /\ phase[w] = "unborn"
        /\ phase' = [phase EXCEPT ![w] = "running"] /\ call' = call
        /\ alive' \subseteq alive \cup {s, w}
    BY <1>1 DEF Spawn
  <2>2. s \in Workers => phase'[s] = "running"
    BY <1>0, <2>1 DEF Drives, Idle, Actors
  <2>3. phase'[w] = "running" /\ \A v \in Workers \ {w} : phase'[v] = phase[v]
    BY <1>0, <2>1
  <2>4. \A v \in Workers \cap alive' : Held(v)'
    BY <1>h, <2>1, <2>2, <2>3
  <2>5. \A v \in Workers : phase'[v] = "ended" => Ending(v)'
    BY <1>h, <2>1, <2>3
  <2>6. QED
    BY <1>w, <2>4, <2>5
<1>2. ASSUME NEW a \in Actors, NEW w \in Workers, NEW m \in Slots, SpawnFails(a, w, m)
      PROVE  Closures'
  <2>1. /\ call[a] = None /\ phase[w] = "unborn" /\ phase' = phase /\ alive' = alive \cup {w}
        /\ call' = [call EXCEPT ![a] = [op |-> "destroy", slot |-> w, from |-> w]]
    BY <1>2 DEF SpawnFails, Await, Idle
  <2>2. call'[a] = [op |-> "destroy", slot |-> w, from |-> w] /\ \A b \in Actors \ {a} : call'[b] = call[b]
    BY <1>0, <2>1
  <2>3. call'[a] # None
    BY <1>0, <2>2, NoCall
  <2>4. \A v \in Workers \cap alive' : Held(v)'
    BY <1>h, <2>1, <2>2, <2>3
  <2>5. \A v \in Workers : phase'[v] = "ended" => Ending(v)'
    BY <1>0, <1>h, <2>1, <2>2, <2>3
  <2>6. QED
    BY <1>w, <2>4, <2>5
<1>3. ASSUME NEW a \in Actors, NEW d \in Slots, NEW s \in Slots, MoveConstruct(a, d, s)
      PROVE  Closures'
  <2>1. d \in Drives(a) /\ s \in Drives(a) /\ d # s /\ alive' = alive \cup {d} /\ phase' = phase /\ call' = call
    BY <1>3 DEF MoveConstruct
  <2>2. d \notin Workers
    BY <1>0, <2>1 DEF Drives
  <2>3. QED
    BY <1>w, <1>h, <2>1, <2>2
<1>4. ASSUME NEW a \in Actors, NEW d \in Slots, NEW s \in Slots,
             CallAssign(a, d, s) \/ CallJoin(a, d) \/ CallDestroy(a, d)
      PROVE  Closures'
  <2>1. /\ call[a] = None /\ phase' = phase /\ alive' = alive
        /\ \E op, f : call' = [call EXCEPT ![a] = [op |-> op, slot |-> d, from |-> f]]
    BY <1>4 DEF CallAssign, CallJoin, CallDestroy, Await, handles, Idle
  <2>2. \A b \in Actors \ {a} : call'[b] = call[b]
    BY <1>0, <2>1
  <2>3. \A v \in Workers \cap alive' : Held(v)'
    BY <1>h, <2>1, <2>2
  <2>4. \A v \in Workers : phase'[v] = "ended" => Ending(v)'
    BY <1>0, <1>h, <2>1, <2>2
  <2>5. QED
    BY <1>w, <2>3, <2>4
<1>5. ASSUME NEW a \in Actors, Assign(a) \/ Join(a)
      PROVE  Closures'
  <2>1. /\ call[a] # None /\ call[a].op # "destroy" /\ phase' = phase /\ alive' = alive
        /\ call' = [call EXCEPT ![a] = None]
    BY <1>5 DEF Assign, Join, Return
  <2>2. \A b \in Actors \ {a} : call'[b] = call[b]
    BY <1>0, <2>1
  <2>3. call[a].slot \in Workers => phase[call[a].slot] # "unborn"
    <3>1. call[a].slot \in Drives(a) /\ (a \in Workers => phase[a] # "unborn")
      BY <2>1 DEF IInv, Calling
    <3>2. QED
      BY <3>1, WorkerDrives
  <2>4. \A v \in Workers \cap alive' : Held(v)'
    BY <1>h, <2>1, <2>2, <2>3
  <2>5. \A v \in Workers : phase'[v] = "ended" => Ending(v)'
    BY <1>0, <1>h, <2>1, <2>2
  <2>6. QED
    BY <1>w, <2>4, <2>5
<1>6. ASSUME NEW a \in Actors, Destroy(a)
      PROVE  Closures'
  <2>1. /\ call[a] # None /\ call[a].op = "destroy" /\ alive' = alive \ {call[a].slot}
        /\ phase' = [v \in Workers |-> IF v = a /\ phase[v] = "ended" THEN "done" ELSE phase[v]]
        /\ call' = [call EXCEPT ![a] = None]
    BY <1>6 DEF Destroy, Return
  <2>2. \A b \in Actors \ {a} : call'[b] = call[b]
    BY <1>0, <2>1
  <2>3. \A v \in Workers : (v # a \/ phase[v] # "ended") => phase'[v] = phase[v]
    BY <2>1
  <2>4. \A v \in Workers \cap alive' : v # a \/ phase[v] # "ended"
    BY <1>h, <2>1
  <2>5. \A v \in Workers \cap alive' : Held(v)'
    BY <1>h, <2>1, <2>2, <2>3, <2>4
  <2>6. \A v \in Workers : phase'[v] = "ended" => v # a /\ phase[v] = "ended"
    BY <2>1
  <2>7. \A v \in Workers : phase'[v] = "ended" => Ending(v)'
    BY <1>0, <1>h, <2>2, <2>6
  <2>8. QED
    BY <1>w, <2>5, <2>7
<1>7. ASSUME NEW w \in Workers, WorkerEnds(w)
      PROVE  Closures'
  <2>1. /\ call[w] = None /\ alive' = alive
        /\ \/ /\ phase' = [phase EXCEPT ![w] = "ended"]
              /\ call' = [call EXCEPT ![w] = [op |-> "destroy", slot |-> w, from |-> w]]
           \/ w \notin alive /\ call' = call /\ phase' = [phase EXCEPT ![w] = "done"]
    BY <1>7 DEF WorkerEnds, Await, handles, Idle
  <2>2. /\ \A b \in Actors \ {w} : call'[b] = call[b]
        /\ \A v \in Workers \ {w} : phase'[v] = phase[v]
    BY <1>0, <2>1
  <2>3. \A v \in Workers \cap alive' : Held(v)'
    BY <1>0, <1>h, <2>1, <2>2
  <2>4. phase'[w] = "ended" => call'[w] = [op |-> "destroy", slot |-> w, from |-> w]
    BY <1>0, <2>1
  <2>5. \A v \in Workers : phase'[v] = "ended" => Ending(v)'
    BY <1>0, <1>h, <2>2, <2>4, NoCall
  <2>6. QED
    BY <1>w, <2>3, <2>5
<1>8. CASE MainReturns \/ Unload \/ UNCHANGED vars
  BY <1>8, <1>w, <1>h DEF MainReturns, Unload, vars, handles
<1>9. QED
  <2>1. ASSUME NEW a \in Actors, NEW s \in Slots, CallJoin(a, s) \/ CallDestroy(a, s) PROVE Closures'
    BY <1>4, <2>1
  <2>2. QED
    BY <1>1, <1>2, <1>3, <1>4, <1>5, <1>6, <1>7, <1>8, <2>1 DEF Next

(* A move hands on the state with the thread.                              *)
LEMMA MovePending ==
  ASSUME IInv, Pending, NEW d \in Slots, NEW s \in alive, d # s, Move(d, s), alive' = alive \cup {d},
         error' = error, \A w \in Workers : observed[w] => observed'[w],
         \A w \in Workers : state[d] = w /\ error[w] => observed'[w]
  PROVE  Pending'
<1> SUFFICES ASSUME NEW w \in Workers, error'[w], ~observed'[w]
             PROVE  \E q \in alive' : state'[q] = w
  BY DEF Pending
<1>1. /\ s \in Slots /\ state'[d] = state[s]
      /\ \A r \in Slots \ {d, s} : state'[r] = state[r]
  BY MoveValues DEF IInv, TypeOK
<1>2. PICK r \in alive : state[r] = w
  BY DEF Pending
<1>3. r \in Slots /\ r # d
  BY <1>2 DEF IInv, TypeOK
<1>4. QED
  BY <1>1, <1>2, <1>3

LEMMA ReportPending ==
  ASSUME IInv, NEW s \in Slots, Report(s)
  PROVE  /\ error' = error /\ \A w \in Workers : observed[w] => observed'[w]
         /\ \A w \in Workers : state[s] = w /\ error[w] => observed'[w]
<1>1. CASE state[s] # None /\ error[state[s]] /\ ~observed[state[s]]
  BY <1>1 DEF Report, IInv, TypeOK
<1>2. CASE ~(state[s] # None /\ error[state[s]] /\ ~observed[state[s]])
  BY <1>2, Roles DEF Report, errors, IInv, TypeOK
<1>3. QED
  BY <1>1, <1>2

LEMMA StepPending ==
  ASSUME IInv, Pending, [Next]_vars
  PROVE  Pending'
<1>0. /\ state \in [Slots -> Workers \cup {None}] /\ alive \subseteq Slots
      /\ Workers \subseteq Slots /\ None \notin Workers
  BY Roles DEF IInv, TypeOK
<1>1. ASSUME NEW a \in Actors, NEW s \in Slots, NEW w \in Workers, NEW m \in Slots,
             Spawn(a, s, w, m)
      PROVE  Pending'
  <2>1. /\ s \in Drives(a) \ alive /\ w \notin alive /\ Idle(a) /\ phase[w] = "unborn"
        /\ m = s \/ m \in alive
        /\ error' = error /\ observed' = observed
        /\ alive' = alive \cup (IF m = s THEN {s} ELSE {s, w})
        /\ state' = [[state EXCEPT ![w] = state[m]] EXCEPT ![m] = None, ![s] = w]
    BY <1>1 DEF Spawn, errors
  <2>2. s # w /\ m # w
    <3>1. w \in Drives(a) => phase[w] = "running"
      BY <2>1, WorkerDrives, Roles DEF Idle
    <3>2. QED
      BY <2>1, <3>1
  <2>3. state'[w] = state[m] /\ \A r \in Slots \ {s, w, m} : state'[r] = state[r]
    BY <1>0, <2>1, <2>2
  <2> SUFFICES ASSUME NEW v \in Workers, error[v], ~observed[v]
               PROVE  \E q \in alive' : state'[q] = v
    BY <2>1 DEF Pending
  <2>4. PICK r \in alive : state[r] = v
    BY DEF Pending
  <2>n. s \in alive' /\ (m # s => w \in alive') /\ r # s /\ r # w /\ r \in alive' /\ r \in Slots
    BY <1>0, <2>1
  <2>5. CASE r = m
    BY <2>n, <2>3, <2>4, <2>5
  <2>6. CASE r # m
    BY <2>n, <2>3, <2>4, <2>6
  <2>7. QED
    BY <2>5, <2>6
<1>2. ASSUME NEW a \in Actors, NEW d \in Slots, NEW s \in Slots,
             MoveConstruct(a, d, s) \/ (d \in Workers /\ SpawnFails(a, d, s))
      PROVE  Pending'
  <2>1. d \notin alive /\ s \in alive /\ Move(d, s) /\ alive' = alive \cup {d} /\ error' = error /\ observed' = observed
    BY <1>2 DEF MoveConstruct, SpawnFails, errors
  <2>2. state[d] = None
    BY <2>1, DeadJoinsNothing DEF IInv
  <2>3. QED
    BY <1>0, <2>1, <2>2, MovePending
<1>3. ASSUME NEW a \in Actors, Assign(a)
      PROVE  Pending'
  <2> DEFINE d == call[a].slot
             s == call[a].from
  <2>1. /\ call[a] # None /\ call[a].op = "assign" /\ Report(d) /\ Move(d, s) /\ alive' = alive
    BY <1>3 DEF Assign
  <2>2. d \in alive /\ s \in alive /\ d # s
    BY <2>1 DEF IInv, Calling
  <2> HIDE DEF d, s
  <2>3. d \in Slots /\ alive' = alive \cup {d}
    BY <1>0, <2>1, <2>2
  <2>4. QED
    BY <2>1, <2>2, <2>3, ReportPending, MovePending
<1>4. ASSUME NEW a \in Actors, Join(a)
      PROVE  Pending'
  <2>1. /\ state' = state /\ alive' = alive /\ error' = error
        /\ observed' = observed \/ \E w \in Workers : observed' = [observed EXCEPT ![w] = TRUE]
    <3>1. call[a] # None /\ call[a].slot \in Slots
      BY <1>4, <1>0 DEF Join, IInv, Calling
    <3>2. QED
      BY <1>0, <1>4, <3>1 DEF Join
  <2>2. \A w \in Workers : observed[w] => observed'[w]
    BY <2>1 DEF IInv, TypeOK
  <2>3. QED
    BY <2>1, <2>2 DEF Pending
<1>5. ASSUME NEW a \in Actors, Destroy(a)
      PROVE  Pending'
  <2> DEFINE s == call[a].slot
  <2>1. /\ call[a] # None /\ Report(s) /\ state' = [state EXCEPT ![s] = None] /\ alive' = alive \ {s}
    BY <1>5 DEF Destroy
  <2>2. s \in Slots
    BY <1>0, <2>1 DEF IInv, Calling
  <2> HIDE DEF s
  <2>3. /\ error' = error /\ \A w \in Workers : observed[w] => observed'[w]
        /\ \A w \in Workers : state[s] = w /\ error[w] => observed'[w]
    BY <2>1, <2>2, ReportPending
  <2>4. \A r \in Slots \ {s} : state'[r] = state[r]
    BY <1>0, <2>1, <2>2
  <2>5. QED
    BY <1>0, <2>1, <2>3, <2>4 DEF Pending
<1>6. ASSUME NEW w \in Workers, WorkerEnds(w)
      PROVE  Pending'
  <2>1. /\ state' = state /\ alive' = alive /\ observed' = observed /\ phase[w] = "running"
        /\ \E threw \in BOOLEAN : error' = [error EXCEPT ![w] = threw]
    BY <1>6, Roles DEF WorkerEnds, handles, Idle
  <2>2. \A v \in Workers \ {w} : error'[v] = error[v]
    BY <2>1 DEF IInv, TypeOK
  <2>3. \E s \in alive : state[s] = w
    <3>1. PICK s \in alive : thread[s] = w
      BY <2>1 DEF IInv, Owned
    <3>2. QED
      BY <1>0, <3>1 DEF IInv, TypeOK, Joinable
  <2>4. QED
    BY <2>1, <2>2, <2>3 DEF Pending
<1>7. ASSUME NEW a \in Actors, NEW d \in Slots, NEW s \in Slots,
             CallAssign(a, d, s) \/ CallJoin(a, d) \/ CallDestroy(a, d)
      PROVE  Pending'
  BY <1>7 DEF CallAssign, CallJoin, CallDestroy, handles, errors, Pending
<1>8. CASE MainReturns \/ Unload \/ UNCHANGED vars
  BY <1>8 DEF MainReturns, Unload, vars, handles, errors, Pending
<1>9. QED
  <2>1. ASSUME NEW a \in Actors, NEW s \in Slots, CallJoin(a, s) \/ CallDestroy(a, s) PROVE Pending'
    BY <1>7, <2>1
  <2>2. ASSUME NEW a \in Actors, NEW w \in Workers, NEW m \in Slots, SpawnFails(a, w, m) PROVE Pending'
    BY <1>0, <1>2, <2>2
  <2>3. QED
    BY <1>1, <1>2, <1>3, <1>4, <1>5, <1>6, <1>7, <1>8, <2>1, <2>2 DEF Next

(* Once the host was told to unload, main does nothing, and nobody else    *)
(* makes a handle of main's.                                               *)
LEMMA StepReturned ==
  ASSUME IInv, Returned, [Next]_vars
  PROVE  Returned'
<1>0. /\ call \in [Actors -> Call \cup {None}]
      /\ Workers \cap Handles = {} /\ Main \notin Workers /\ Main \in Actors
  BY Roles DEF IInv, TypeOK
<1>1. ASSUME NEW a \in Actors, main' = main, Idle(a),
             alive' \cap Handles \subseteq alive \cup Drives(a),
             \A b \in Actors \ {a} : call'[b] = call[b]
      PROVE  Returned'
  <2>1. CASE a = Main
    BY <1>1, <2>1 DEF Idle, Returned
  <2>2. CASE a # Main
    <3>1. call'[Main] = call[Main]
      BY <1>0, <1>1, <2>2
    <3>2. alive' \cap Handles \subseteq alive
      BY <1>0, <1>1, <2>2 DEF Drives, Actors
    <3>3. QED
      BY <1>1, <3>1, <3>2 DEF Returned
  <2>3. QED
    BY <2>1, <2>2
<1>2. ASSUME NEW a \in Actors, NEW d \in Slots, NEW s \in Slots,
             CallAssign(a, d, s) \/ CallJoin(a, d) \/ CallDestroy(a, d)
      PROVE  Returned'
  <2>1. /\ main' = main /\ alive' = alive
        /\ a = Main => main # "returned"
        /\ \A b \in Actors \ {a} : call'[b] = call[b]
    BY <1>0, <1>2 DEF CallAssign, CallJoin, CallDestroy, Await, handles, Idle
  <2>2. main = "returned" => call'[Main] = call[Main]
    BY <1>0, <2>1
  <2>3. QED
    BY <2>1, <2>2 DEF Returned
<1>3. ASSUME NEW a \in Actors, Assign(a) \/ Join(a) \/ Destroy(a)
      PROVE  Returned'
  <2>1. main' = main /\ alive' \subseteq alive /\ call' = [call EXCEPT ![a] = None]
    BY <1>3 DEF Assign, Join, Destroy, Return
  <2>2. QED
    BY <1>0, <2>1 DEF Returned
<1>4. ASSUME NEW w \in Workers, WorkerEnds(w)
      PROVE  Returned'
  <2>1. main' = main /\ alive' = alive /\ call'[Main] = call[Main]
    BY <1>0, <1>4 DEF WorkerEnds, handles, Await
  <2>2. QED
    BY <2>1 DEF Returned
<1>5. CASE MainReturns \/ Unload \/ UNCHANGED vars
  BY <1>5 DEF MainReturns, Unload, vars, handles, Returned
<1>6. QED
  <2>1. ASSUME NEW a \in Actors, NEW s \in Slots, CallJoin(a, s) \/ CallDestroy(a, s) PROVE Returned'
    BY <1>2, <2>1
  <2>2. ASSUME NEW a \in Actors, NEW w \in Workers, NEW m \in Slots, SpawnFails(a, w, m) PROVE Returned'
    <3>1. main' = main /\ Idle(a) /\ alive' = alive \cup {w} /\ \A b \in Actors \ {a} : call'[b] = call[b]
      BY <1>0, <2>2 DEF SpawnFails, Await
    <3>2. QED
      BY <1>0, <1>1, <3>1
  <2>3. ASSUME NEW a \in Actors, NEW d, NEW s, MoveConstruct(a, d, s) PROVE Returned'
    <3>1. main' = main /\ Idle(a) /\ alive' = alive \cup {d} /\ d \in Drives(a) /\ call' = call
      BY <2>3 DEF MoveConstruct
    <3>2. QED
      BY <1>1, <3>1
  <2>4. ASSUME NEW a \in Actors, NEW s, NEW w \in Workers, NEW m, Spawn(a, s, w, m) PROVE Returned'
    <3>1. main' = main /\ Idle(a) /\ alive' \subseteq alive \cup {s, w} /\ s \in Drives(a) /\ call' = call
      BY <2>4 DEF Spawn
    <3>2. QED
      BY <1>0, <1>1, <3>1
  <2>5. QED
    BY <1>2, <1>3, <1>4, <1>5, <2>1, <2>2, <2>3, <2>4 DEF Next

(* A worker that is live has an owner, who is live too: its closure holds  *)
(* the handle, or that of the worker it failed to start.  The owners form  *)
(* no cycle, and main, the only one without an owner, has let go of all.   *)
LEMMA NobodyLeft ==
  ASSUME IInv, Tree, main = "returned"
  PROVE  Live = {} /\ \A w \in Workers : error[w] => observed[w]
<1>0. /\ alive \subseteq Workers /\ call[Main] = None /\ Workers \subseteq Actors
  <2>1. alive \subseteq Handles \cup Workers
    BY DEF IInv, TypeOK, Slots
  <2>2. QED
    BY <2>1, Roles DEF Tree, Returned
<1>1. ASSUME NEW s \in alive, s \notin Live
      PROVE  \E u \in Live : call[u] # None /\ call[u].slot = s
  <2>1. PICK u \in Actors : call[u] # None /\ call[u].slot = s
    BY <1>0, <1>1 DEF Tree, Closures
  <2>2. u \in Live
    BY <1>0, <2>1 DEF IInv, Calling, Live, Actors
  <2>3. QED
    BY <2>1, <2>2
<1>2. ASSUME NEW w \in Live
      PROVE  \E u \in Live : Owns(u, w)
  <2>1. PICK s \in alive : thread[s] = w
    BY DEF Live, IInv, Owned
  <2>2. CASE s \in Live
    BY <2>1, <2>2 DEF Owns
  <2>3. CASE s \notin Live
    BY <1>1, <2>1, <2>3 DEF Owns
  <2>4. QED
    BY <2>2, <2>3
<1>3. Live = {}
  BY <1>2 DEF Tree, Rooted
<1>4. alive = {}
  BY <1>1, <1>3
<1>5. QED
  BY <1>3, <1>4 DEF Tree, Pending

(* When the host unloads the program no worker is running or unwinding its *)
(* closure, and no exception is unseen: handles may have been moved into   *)
(* closures of closures, and the waits still unwind from the leaves.       *)
THEOREM UnloadSafe == Spec => []UnloadIsSafe
<1>1. IInv /\ Tree /\ [Next]_vars => Tree'
  BY StepRooted, StepClosures, StepPending, StepReturned DEF Tree
<1>2. IInv /\ Tree => UnloadIsSafe
  <2>1. ASSUME IInv, Tree, main = "returned", NEW w \in Workers
        PROVE  phase[w] \in {"unborn", "done"} /\ (error[w] => observed[w])
    <3>1. phase[w] \in {"unborn", "running", "ended", "done"}
      BY <2>1 DEF IInv, TypeOK
    <3>2. QED
      BY <2>1, <3>1, NobodyLeft DEF Live
  <2>2. QED
    BY <2>1 DEF UnloadIsSafe
<1>3. QED
  BY <1>1, <1>2, InitTree, Invariant, PTL DEF Spec

=============================================================================
