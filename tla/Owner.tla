-------------------------------- MODULE Owner --------------------------------
(***************************************************************************)
(* The memory module's Owner<T>: a hand-rolled priority reader/writer lock *)
(* (one std::mutex, one std::condition_variable, explicit flags) that      *)
(* grants leases, asks their holders to yield through atomic gates, and    *)
(* lets an immediate-write preempt the active writer.                      *)
(*                                                                         *)
(* A critical section that waits is split at its cv_.wait: `mtx` names the *)
(* thread inside one, `waitSet` the threads blocked in cv_.wait.  What a   *)
(* lease holder does without the mutex (the atomic load and the exchange   *)
(* of Lease::valid) interleaves with the critical sections step by step.   *)
(* A faulty variant of an operator, used nowhere, stands before it.        *)
(***************************************************************************)
EXTENDS Integers, FiniteSets

CONSTANTS
  Readers,        \* threads that call rread()
  Writers,        \* threads that call rwrite<p>(), p >= 0
  Immediates,     \* threads that call rwrite<immediate>()
  Upgraders,      \* readers that ask to write while they hold a read lease
  Quitters,       \* writers that drop their lease when valid() turns false
  Priorities,     \* the priorities p of the calls rwrite<p>()
  MaxImmediates,  \* bound: immediate-writes requested in one behaviour
  NoThread        \* the null pointer, and the owner of a free mutex

Threads == Readers \cup Writers \cup Immediates

(* The two read generations a live read lease can tell apart: fresh gates  *)
(* alternate between them.                                                 *)
Generations == {"g0", "g1"}

(* A gate is named by what holds it: a read generation, or the thread      *)
(* whose write lease it was made for.                                      *)
Gates == Generations \cup Threads

ASSUME OwnerAssumption ==
  /\ IsFiniteSet(Threads)
  /\ Quitters \subseteq Writers /\ Upgraders \subseteq Readers \cap Writers
  /\ Priorities \subseteq Nat
  /\ MaxImmediates \in Nat
  /\ NoThread \notin Gates
  /\ Generations \cap Threads = {}

VARIABLES
  mtx,         \* the thread inside a critical section, or NoThread
  waitSet,     \* threads blocked in cv_.wait
  readers,     \* readers_: active read leases
  writer,      \* writer_: an active, not suspended, write lease
  suspended,   \* writer_suspended_: the writer is paused for an immediate
  immediate,   \* immediate_: an immediate-write holds the object
  readGate,    \* read_gate_: the current read generation
  writerGate,  \* writer_gate_: the active writer's gate, or NoThread (null)
  wq,          \* wq_: threads with a ticket in the queue
  ticket,      \* their tickets: priority, and the tickets queued before
  gate,        \* Gate: the atomic flags valid and acked
  pc,          \* what each thread does
  mode,        \* the mode of the lease each thread holds
  leaseGate,   \* the gate of that lease
  fired,       \* Lease::fired_: on_interrupt ran for the current stop
  issued       \* immediate-writes requested so far (bounds the behaviour)

lock    == <<mtx, waitSet>>
flags   == <<readers, writer, suspended, immediate>>
gates   == <<readGate, writerGate, gate>>
queue   == <<wq, ticket>>
leases  == <<mode, leaseGate, fired>>
vars    == <<lock, flags, gates, queue, pc, leases, issued>>

FreshGate == [valid |-> TRUE, acked |-> FALSE]
NoTicket  == [prio |-> 0, before |-> {}]

Init ==
  /\ mtx = NoThread /\ waitSet = {}
  /\ readers = 0 /\ writer = FALSE /\ suspended = FALSE /\ immediate = FALSE
  /\ readGate = "g0" /\ writerGate = NoThread
  /\ gate = [g \in Gates |-> FreshGate]
  /\ wq = {} /\ ticket = [t \in Threads |-> NoTicket]
  /\ pc = [t \in Threads |-> "idle"]
  /\ mode = [t \in Threads |-> "none"]
  /\ leaseGate = [t \in Threads |-> t]
  /\ fired = [t \in Threads |-> FALSE]
  /\ issued = 0

-----------------------------------------------------------------------------
(* The mutex, the condition variable and the gates                         *)

Goto(t, l) == pc' = [pc EXCEPT ![t] = l]

(* t runs in a critical section: it never left it, or it was woken (or has *)
(* not waited yet) and finds the mutex free.                               *)
Locked(t) == mtx = t \/ (mtx = NoThread /\ t \notin waitSet)

Unlock    == mtx' = NoThread

NotifyAll == waitSet' = {}

(* cv_.wait(lk, pred) with a false predicate: release the mutex and block. *)
Block(t) == Unlock /\ waitSet' = waitSet \cup {t}

Yield(g) == gate' = [gate EXCEPT ![g] = [valid |-> FALSE, acked |-> @.acked]]

(* make_gate() for the next read generation.                               *)
NextGeneration == CHOOSE g \in Generations : g # readGate

GiveLease(t, m, g) ==
  /\ mode' = [mode EXCEPT ![t] = m]
  /\ leaseGate' = [leaseGate EXCEPT ![t] = g]
  /\ fired' = [fired EXCEPT ![t] = FALSE]
  /\ Goto(t, "use")

DropLease(t) ==
  /\ mode' = [mode EXCEPT ![t] = "none"]
  /\ leaseGate' = [leaseGate EXCEPT ![t] = t]
  /\ fired' = [fired EXCEPT ![t] = FALSE]
  /\ Goto(t, "idle")

-----------------------------------------------------------------------------
(* rread()                                                                 *)

CanReadDespiteQueue == ~writer /\ ~immediate /\ ~suspended

CanRead == ~writer /\ ~immediate /\ ~suspended /\ wq = {}

SkipReader == UNCHANGED readers

AddReader == readers' = readers + 1

CallRead(t) ==
  /\ t \in Readers /\ pc[t] = "idle"
  /\ Goto(t, "r_wait")
  /\ UNCHANGED <<lock, flags, gates, queue, leases, issued>>

TryRead(t) ==
  /\ pc[t] = "r_wait" /\ Locked(t)
  /\ \/ /\ CanRead
        /\ AddReader
        /\ GiveLease(t, "read", readGate)
        /\ Unlock /\ UNCHANGED waitSet
     \/ /\ ~CanRead
        /\ Block(t)
        /\ UNCHANGED <<readers, pc, leases>>
  /\ UNCHANGED <<writer, suspended, immediate, gates, queue, issued>>

(* release_read()                                                          *)
ReleaseRead(t) ==
  /\ mode[t] = "read" /\ pc[t] \in {"use", "stopped"} /\ mtx = NoThread
  /\ readers' = readers - 1
  /\ DropLease(t)
  /\ NotifyAll
  /\ UNCHANGED <<mtx, writer, suspended, immediate, gates, queue, issued>>

-----------------------------------------------------------------------------
(* grant_write(prio): higher priority first, arrival order within one      *)

LastComesFirst(t, u) ==
  IF ticket[t].prio = ticket[u].prio
  THEN u \in ticket[t].before
  ELSE ticket[t].prio > ticket[u].prio

ServedBefore(t, u) ==
  IF ticket[t].prio = ticket[u].prio
  THEN t \in ticket[u].before
  ELSE ticket[t].prio > ticket[u].prio

Top(t) == t \in wq /\ \A u \in wq \ {t} : ServedBefore(t, u)

CanWriteUndrained(t) == ~writer /\ ~immediate /\ ~suspended /\ Top(t)

CanWrite(t) == ~writer /\ ~immediate /\ ~suspended /\ readers = 0 /\ Top(t)

CallWrite(t) ==
  /\ t \in Writers /\ mtx = NoThread
  /\ pc[t] \in IF t \in Upgraders /\ mode[t] = "read" THEN {"use"} ELSE {"idle"}
  /\ mtx' = t
  /\ wq' = wq \cup {t}
  /\ \E p \in Priorities : ticket' = [ticket EXCEPT ![t] = [prio |-> p, before |-> wq]]
  /\ Yield(readGate)
  /\ NotifyAll
  /\ Goto(t, "w_wait")
  /\ UNCHANGED <<flags, readGate, writerGate, leases, issued>>

(* wq_.pop(): t leaves the queue, and no ticket was queued behind it.      *)
Pop(t) ==
  /\ wq' = wq \ {t}
  /\ ticket' = [u \in Threads |-> IF u = t THEN NoTicket
                                  ELSE [prio |-> ticket[u].prio, before |-> ticket[u].before \ {t}]]

TryWrite(t) ==
  /\ pc[t] = "w_wait" /\ Locked(t)
  /\ \/ /\ CanWrite(t)
        /\ Pop(t)
        /\ writer' = TRUE
        /\ writerGate' = t
        /\ readGate' = NextGeneration
        /\ gate' = [gate EXCEPT ![t] = FreshGate, ![NextGeneration] = FreshGate]
        /\ GiveLease(t, "write", t)
        /\ Unlock /\ UNCHANGED waitSet
     \/ /\ ~CanWrite(t)
        /\ Block(t)
        /\ UNCHANGED <<writer, gates, queue, pc, leases>>
  /\ UNCHANGED <<readers, suspended, immediate, issued>>

(* release_write(): a paused writer waits for its gate to turn valid again *)
(* unless it is a quitter.  A suspended writer's release leaves            *)
(* writer_suspended_ set.                                                  *)
ReleaseWrite(t) ==
  /\ mode[t] = "write" /\ mtx = NoThread
  /\ pc[t] \in IF t \in Quitters THEN {"use", "stopped"} ELSE {"use"}
  /\ writer' = FALSE
  /\ writerGate' = NoThread
  /\ gate' = [gate EXCEPT ![t] = FreshGate]
  /\ DropLease(t)
  /\ NotifyAll
  /\ UNCHANGED <<mtx, readers, suspended, immediate, readGate, queue, issued>>

-----------------------------------------------------------------------------
(* grant_immediate()                                                       *)

BeginDrain(t) ==
  /\ Yield(readGate)
  /\ NotifyAll
  /\ mtx' = t
  /\ Goto(t, "d_wait")

CallImmediate(t) ==
  /\ t \in Immediates /\ pc[t] = "idle" /\ mtx = NoThread
  /\ issued < MaxImmediates /\ issued' = issued + 1
  /\ \/ /\ writer
        /\ Yield(writerGate)
        /\ NotifyAll
        /\ mtx' = t
        /\ Goto(t, "a_wait")
     \/ /\ ~writer
        /\ BeginDrain(t)
  /\ UNCHANGED <<flags, readGate, writerGate, queue, leases>>

(* The predicate of the first wait.  The holder's ack is written without   *)
(* the mutex, so a false answer and the blocking are two steps.            *)
AskedToYield == writer => ~gate[writerGate].valid

Acked == writer => gate[writerGate].acked

CheckAck(t) ==
  /\ pc[t] = "a_wait" /\ Locked(t)
  /\ \/ /\ Acked
        /\ suspended' = (suspended \/ writer)
        /\ writer' = FALSE
        /\ BeginDrain(t)
     \/ /\ ~Acked
        /\ mtx' = t
        /\ Goto(t, "a_block")
        /\ UNCHANGED <<waitSet, writer, suspended, gate>>
  /\ UNCHANGED <<readers, immediate, readGate, writerGate, queue, leases, issued>>

BlockForAck(t) ==
  /\ pc[t] = "a_block"
  /\ Block(t)
  /\ Goto(t, "a_wait")
  /\ UNCHANGED <<flags, gates, queue, leases, issued>>

CanImmediate == readers = 0 /\ ~immediate

TryImmediate(t) ==
  /\ pc[t] = "d_wait" /\ Locked(t)
  /\ \/ /\ CanImmediate
        /\ immediate' = TRUE
        /\ readGate' = NextGeneration
        /\ gate' = [gate EXCEPT ![t] = FreshGate, ![NextGeneration] = FreshGate]
        /\ GiveLease(t, "immediate", t)
        /\ Unlock /\ UNCHANGED waitSet
     \/ /\ ~CanImmediate
        /\ Block(t)
        /\ UNCHANGED <<immediate, readGate, gate, pc, leases>>
  /\ UNCHANGED <<readers, writer, suspended, writerGate, queue, issued>>

(* Resume the writer an immediate-write preempted: its gate turns valid.   *)
(* If that writer is gone the stores go through a null writer_gate_, and   *)
(* the process with them.                                                  *)
Crashed == writer /\ writerGate = NoThread

ForgetGate ==
  /\ suspended' = FALSE
  /\ writer' = (writer \/ suspended)
  /\ UNCHANGED gate

Resume ==
  /\ suspended' = FALSE
  /\ writer' = (writer \/ suspended)
  /\ gate' = IF suspended /\ writerGate # NoThread
             THEN [gate EXCEPT ![writerGate] = FreshGate]
             ELSE gate

(* release_immediate()                                                     *)
ReleaseImmediate(t) ==
  /\ mode[t] = "immediate" /\ pc[t] = "use" /\ mtx = NoThread
  /\ immediate' = FALSE
  /\ Resume
  /\ DropLease(t)
  /\ NotifyAll
  /\ UNCHANGED <<mtx, readers, readGate, writerGate, queue, issued>>

-----------------------------------------------------------------------------
(* Lease::valid(), run by the holder without the owner's mutex             *)

Load(t) ==
  /\ mode[t] # "none" /\ pc[t] \in {"use", "stopped"}
  /\ \/ /\ gate[leaseGate[t]].valid
        /\ fired' = [fired EXCEPT ![t] = FALSE]
        /\ Goto(t, "use")
     \/ /\ ~gate[leaseGate[t]].valid
        /\ Goto(t, "xchg")
        /\ UNCHANGED fired
  /\ UNCHANGED <<lock, flags, gates, queue, mode, leaseGate, issued>>

(* valid() returns false: on_interrupt has run for this stop.              *)
ReturnStopped(t) ==
  /\ fired' = [fired EXCEPT ![t] = TRUE]
  /\ Goto(t, "stopped")

(* acked.exchange(true): the first to ack goes on to wake the owner.       *)
Exchange(t) ==
  /\ pc[t] = "xchg"
  /\ gate' = [gate EXCEPT ![leaseGate[t]] = [valid |-> @.valid, acked |-> TRUE]]
  /\ \/ /\ gate[leaseGate[t]].acked
        /\ ReturnStopped(t)
     \/ /\ ~gate[leaseGate[t]].acked
        /\ Goto(t, "wake")
        /\ UNCHANGED fired
  /\ UNCHANGED <<lock, flags, readGate, writerGate, queue, mode, leaseGate, issued>>

(* Gate::wake with a bare notify: it may hit a waiter mid-predicate.       *)
WakeWithoutLock(t) ==
  /\ pc[t] = "wake"
  /\ Goto(t, "notify")
  /\ UNCHANGED <<lock, flags, gates, queue, leases, issued>>

(* Gate::wake: take and release the owner's mutex, then notify.            *)
WakeLock(t) ==
  /\ pc[t] = "wake" /\ mtx = NoThread
  /\ Goto(t, "notify")
  /\ UNCHANGED <<lock, flags, gates, queue, leases, issued>>

WakeNotify(t) ==
  /\ pc[t] = "notify"
  /\ NotifyAll
  /\ ReturnStopped(t)
  /\ UNCHANGED <<mtx, flags, gates, queue, mode, leaseGate, issued>>

-----------------------------------------------------------------------------
(* std::condition_variable may wake a waiter that nobody notified.         *)
SpuriousWakeup(t) ==
  /\ t \in waitSet
  /\ waitSet' = waitSet \ {t}
  /\ UNCHANGED <<mtx, flags, gates, queue, pc, leases, issued>>

Grants(t)   == CallRead(t) \/ TryRead(t) \/ CallWrite(t) \/ TryWrite(t)
               \/ CallImmediate(t) \/ CheckAck(t) \/ BlockForAck(t) \/ TryImmediate(t)
Releases(t) == ReleaseRead(t) \/ ReleaseWrite(t) \/ ReleaseImmediate(t)
Polls(t)    == Load(t) \/ Exchange(t) \/ WakeLock(t) \/ WakeNotify(t)

Next ==
  /\ ~Crashed
  /\ \E t \in Threads : Grants(t) \/ Releases(t) \/ Polls(t) \/ SpuriousWakeup(t)

Spec == Init /\ [][Next]_vars

(* The scheduling a live program gives: a thread inside a critical section *)
(* or woken from cv_.wait runs on; a holder keeps polling valid(); a       *)
(* writer may spin on it for ever and never release; a reader is only sure *)
(* to release once valid() turned false.                                   *)
(* The mutex is fair to a holder that wakes the owner: waiters that wake   *)
(* up spuriously for ever do not keep it out.                              *)
Fairness ==
  \A t \in Threads :
    /\ WF_vars(TryRead(t)) /\ WF_vars(TryWrite(t)) /\ WF_vars(TryImmediate(t))
    /\ WF_vars(CheckAck(t)) /\ WF_vars(BlockForAck(t))
    /\ WF_vars(Polls(t)) /\ SF_vars(WakeLock(t))
    /\ SF_vars(pc[t] = "stopped" /\ ReleaseRead(t))
    /\ WF_vars(ReleaseImmediate(t))

FairSpec == Spec /\ Fairness

-----------------------------------------------------------------------------
(* Properties                                                              *)

Ticket == [prio : Priorities \cup {0}, before : SUBSET Threads]

Labels == {"idle", "r_wait", "w_wait", "a_wait", "a_block", "d_wait",
           "use", "xchg", "wake", "notify", "stopped"}

(* The shape of the coordinator's state.                                   *)
TypeOK ==
  /\ mtx \in Threads \cup {NoThread}
  /\ waitSet \subseteq Threads
  /\ readers \in Nat
  /\ writer \in BOOLEAN /\ suspended \in BOOLEAN /\ immediate \in BOOLEAN
  /\ readGate \in Generations /\ writerGate \in Threads \cup {NoThread}
  /\ gate \in [Gates -> [valid : BOOLEAN, acked : BOOLEAN]]
  /\ wq \subseteq Threads /\ ticket \in [Threads -> Ticket]
  /\ pc \in [Threads -> Labels]
  /\ mode \in [Threads -> {"none", "read", "write", "immediate"}]
  /\ leaseGate \in [Threads -> Gates]
  /\ fired \in [Threads -> BOOLEAN]
  /\ issued \in 0..MaxImmediates

(* t may read or write the object now: a reader for as long as it holds    *)
(* its lease, a writer unless it saw valid() turn false and is paused.     *)
MayTouch(t) == mode[t] = "read" \/ (mode[t] # "none" /\ pc[t] = "use")

(* Readers share; a writer is exclusive: nobody else may touch the object  *)
(* while a write or immediate lease may (owner.hpp, the guarantees).       *)
ExclusiveAccess ==
  \A t, u \in Threads :
    t # u /\ MayTouch(t) /\ MayTouch(u) => mode[t] = "read" /\ mode[u] = "read"

(* drain-before-write: while a write waits for the readers to drain, every *)
(* read lease out has a gate that asks its holder to yield, so no reader   *)
(* that loops on valid() keeps the writer out.                             *)
Draining(t) == t \in wq \/ pc[t] = "d_wait"

DrainReachesReaders ==
  \A t, r \in Threads :
    Draining(t) /\ mode[r] = "read" => ~gate[leaseGate[r]].valid

(* No wakeup is lost: a thread blocked in cv_.wait whose predicate came    *)
(* true is about to be notified by the holder that acked (make_gate(): an  *)
(* unsynchronized notify could hit a waiter that has not blocked yet).     *)
Ready(t) ==
  \/ pc[t] = "r_wait" /\ CanRead
  \/ pc[t] = "w_wait" /\ CanWrite(t)
  \/ pc[t] = "a_wait" /\ Acked
  \/ pc[t] = "d_wait" /\ CanImmediate

NoLostWakeup ==
  ~Crashed => \A t \in waitSet :
                Ready(t) => \E u \in Threads : pc[u] \in {"wake", "notify"}

(* Nested immediate-writes restore the writer below them last: a writer    *)
(* that paused goes on only when no immediate-write holds the object       *)
(* (DESIGN.md: immediate-writes stack LIFO).                               *)
PreemptedStaysPaused ==
  [][\A w, i \in Threads :
        mode[w] = "write" /\ pc[w] = "stopped" /\ mode[i] = "immediate" => pc'[w] # "use"]_vars

(* release_immediate() resumes a writer that still holds its lease: it     *)
(* never stores through a null gate.                                       *)
ResumeFindsTheWriter == ~Crashed

(* Every write request is granted in the end, if every write lease is      *)
(* dropped in the end: readers that loop on valid() do not keep it out,    *)
(* nor do immediate-writes.                                                *)
WriteServed ==
  (\A t \in Writers : []<>(mode[t] # "write"))
    => \A t \in Writers : pc[t] = "w_wait" ~> mode[t] = "write"

(* An immediate-write that asked the active writer to yield is heard: it   *)
(* gets in, unless the writer finishes first, even when the writer spins   *)
(* on valid() for ever; and the preempted writer goes on afterwards.       *)
ImmediateHeard ==
  \A t \in Immediates, w \in Writers :
    pc[t] = "a_wait" /\ mode[w] = "write" /\ ~gate[w].valid
      ~> mode[t] = "immediate" \/ mode[w] # "write"

PreemptedResumes ==
  \A t \in Writers : mode[t] = "write" /\ pc[t] = "stopped" ~> pc[t] = "use"

ImmediateServed == ImmediateHeard /\ PreemptedResumes

-----------------------------------------------------------------------------
(* The coordinator implements the leases it promises (Leases).            *)

(* A lease as its holder sees it: a writer inside valid() or told to stop  *)
(* is paused.                                                              *)
Held(t) ==
  IF mode[t] = "write" /\ pc[t] # "use" THEN "paused" ELSE mode[t]

Asked(t) ==
  CASE pc[t] = "r_wait" -> "read"
    [] pc[t] = "w_wait" -> "write"
    [] pc[t] \in {"a_wait", "a_block", "d_wait"} -> "immediate"
    [] OTHER -> "none"

Ahead(t) == {u \in wq \ {t} : t \in wq /\ ServedBefore(u, t)}

(* The four views a caller has of the coordinator's state.                 *)
heldView  == [t \in Threads |-> Held(t)]
askedView == [t \in Threads |-> Asked(t)]
prioView  == [t \in Threads |-> ticket[t].prio]
aheadView == [t \in Threads |-> Ahead(t)]

Promise == INSTANCE Leases WITH
  held <- heldView, asked <- askedView, prio <- prioView, ahead <- aheadView

(* Every step of the coordinator is a step the lease service promises:     *)
(* readers share and wait for the writes in line, writes are served alone  *)
(* by priority and then arrival, an immediate-write runs alone but for the *)
(* one paused write, which goes on only after it (owner.hpp's guarantees). *)
ImplementsLeases == Promise!Spec

=============================================================================
