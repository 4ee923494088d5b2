----------------------------- MODULE OwnerProofs -----------------------------
(* Theorems about Owner for any set of threads and any priorities: who     *)
(* holds leases, that no wakeup is lost, that no reader is left unasked to *)
(* yield, and that the coordinator implements the leases it promises.      *)
EXTENDS Owner, FiniteSetTheorems, TLAPS

-----------------------------------------------------------------------------
(* Counting the readers                                                    *)

Reading == {t \in Threads : mode[t] = "read"}

Counted == readers = Cardinality(Reading)

(* Giving or dropping a lease changes who reads by one thread.             *)
LEMMA ReadingFinite == IsFiniteSet(Reading)
  BY OwnerAssumption, FS_Subset DEF Reading

LEMMA CountAdded ==
  ASSUME TypeOK, Counted, NEW t \in Threads, mode[t] # "read",
         mode' = [mode EXCEPT ![t] = "read"], readers' = readers + 1
  PROVE  Counted' /\ readers' \in Nat
<1>1. Reading' = Reading \cup {t} /\ t \notin Reading
  BY DEF Reading, TypeOK
<1>2. Cardinality(Reading') = Cardinality(Reading) + 1
  BY <1>1, ReadingFinite, FS_AddElement
<1>3. QED
  BY <1>2 DEF Counted, TypeOK

LEMMA CountRemoved ==
  ASSUME TypeOK, Counted, NEW t \in Threads, mode[t] = "read",
         mode' = [mode EXCEPT ![t] = "none"], readers' = readers - 1
  PROVE  Counted' /\ readers' \in Nat
<1>1. Reading' = Reading \ {t} /\ t \in Reading
  BY DEF Reading, TypeOK
<1>2. Cardinality(Reading') = Cardinality(Reading) - 1
  BY <1>1, ReadingFinite, FS_RemoveElement
<1>3. Cardinality(Reading') \in Nat
  BY <1>1, ReadingFinite, FS_CardinalityType, FS_RemoveElement
<1>4. QED
  BY <1>2, <1>3 DEF Counted, TypeOK

LEMMA CountKept ==
  ASSUME TypeOK, Counted, readers' = readers,
         \A u \in Threads : mode'[u] = "read" <=> mode[u] = "read"
  PROVE  Counted' /\ readers' \in Nat
<1>1. Reading' = Reading
  BY DEF Reading
<1>2. QED
  BY <1>1 DEF Counted, TypeOK

(* No read lease is out when readers_ is zero: the drain is complete.      *)
LEMMA Drained ==
  ASSUME Counted, readers = 0, NEW t \in Threads
  PROVE  mode[t] # "read"
  BY ReadingFinite, FS_EmptySet DEF Counted, Reading

-----------------------------------------------------------------------------
(* Type correctness                                                        *)

LEMMA FreshGateType == FreshGate \in [valid : BOOLEAN, acked : BOOLEAN]
  BY DEF FreshGate

LEMMA NextGenerationType == NextGeneration \in Generations
  BY DEF NextGeneration, Generations

LeaseTypes ==
  /\ mode \in [Threads -> {"none", "read", "write", "immediate"}]
  /\ leaseGate \in [Threads -> Gates]
  /\ fired \in [Threads -> BOOLEAN]
  /\ pc \in [Threads -> Labels]

LEMMA GiveLeaseTyped ==
  ASSUME TypeOK, NEW t \in Threads, NEW g \in Gates,
         NEW m \in {"read", "write", "immediate"}, GiveLease(t, m, g)
  PROVE  LeaseTypes'
  BY DEF TypeOK, GiveLease, LeaseTypes, Goto, Labels

LEMMA DropLeaseTyped ==
  ASSUME TypeOK, NEW t \in Threads, DropLease(t)
  PROVE  LeaseTypes'
  BY DEF TypeOK, DropLease, LeaseTypes, Goto, Labels, Gates

GateTypes == gate \in [Gates -> [valid : BOOLEAN, acked : BOOLEAN]]

LEMMA YieldTyped ==
  ASSUME TypeOK, NEW g, Yield(g)
  PROVE  GateTypes'
<1>1. CASE g \in Gates
  <2>1. [valid |-> FALSE, acked |-> gate[g].acked] \in [valid : BOOLEAN, acked : BOOLEAN]
    BY <1>1 DEF TypeOK
  <2>2. QED
    BY <1>1, <2>1 DEF TypeOK, Yield, GateTypes
<1>2. CASE g \notin Gates
  BY <1>2 DEF TypeOK, Yield, GateTypes
<1>3. QED
  BY <1>1, <1>2

(* Where a thread is tells what it holds.  Only an upgrader waits (for a   *)
(* write) with a lease in hand.                                            *)
Phases ==
  \A t \in Threads :
    /\ pc[t] \in {"idle", "r_wait", "a_wait", "a_block", "d_wait"} => mode[t] = "none"
    /\ pc[t] \in {"use", "xchg", "wake", "notify", "stopped"} => mode[t] # "none"
    /\ pc[t] = "w_wait" => mode[t] \in {"none", "read"}

Typed == TypeOK /\ Counted /\ Phases

LEMMA InitTyped == Init => Typed
<1> SUFFICES ASSUME Init PROVE Typed
  OBVIOUS
<1>1. TypeOK
  <2>1. ticket \in [Threads -> Ticket]
    BY DEF Init, Ticket, NoTicket
  <2>2. 0 \in 0..MaxImmediates
    BY OwnerAssumption
  <2>3. QED
    BY <2>1, <2>2, FreshGateType DEF Init, TypeOK, Gates, Generations, Labels
<1>2. Reading = {}
  BY DEF Init, Reading
<1>3. QED
  BY <1>1, <1>2, FS_EmptySet DEF Typed, Counted, Phases, Init

LEMMA GrantsCounted ==
  ASSUME Typed, NEW t \in Threads, Grants(t)
  PROVE  Counted' /\ readers' \in Nat
<1> USE DEF Typed, Phases
<1>1. CASE TryRead(t)
  <2>1. CASE CanRead
    BY <1>1, <2>1, CountAdded DEF TryRead, AddReader, GiveLease
  <2>2. CASE ~CanRead
    BY <1>1, <2>2, CountKept DEF TryRead, leases
  <2>3. QED
    BY <2>1, <2>2
<1>2. CASE TryWrite(t)
  <2>1. CASE CanWrite(t)
    BY <1>2, <2>1, Drained, CountKept DEF TryWrite, CanWrite, GiveLease, TypeOK
  <2>2. CASE ~CanWrite(t)
    BY <1>2, <2>2, CountKept DEF TryWrite, leases
  <2>3. QED
    BY <2>1, <2>2
<1>3. CASE TryImmediate(t)
  <2>1. CASE CanImmediate
    BY <1>3, <2>1, Drained, CountKept DEF TryImmediate, CanImmediate, GiveLease, TypeOK
  <2>2. CASE ~CanImmediate
    BY <1>3, <2>2, CountKept DEF TryImmediate, leases
  <2>3. QED
    BY <2>1, <2>2
<1>4. CASE CallRead(t) \/ CallWrite(t) \/ CallImmediate(t) \/ CheckAck(t) \/ BlockForAck(t)
  BY <1>4, CountKept
     DEF CallRead, CallWrite, CallImmediate, CheckAck, BlockForAck, flags, leases
<1>5. QED
  BY <1>1, <1>2, <1>3, <1>4 DEF Grants

LEMMA GrantsTyped ==
  ASSUME Typed, NEW t \in Threads, Grants(t)
  PROVE  TypeOK'
<1>0. readers' \in Nat
  BY GrantsCounted
<1> USE <1>0 DEF Typed, TypeOK, Goto, Labels, Gates
<1>1. CASE CallRead(t)
  BY <1>1 DEF CallRead, lock, flags, gates, queue, leases
<1>2. CASE TryRead(t)
  <2>1. CASE CanRead
    <3>1. LeaseTypes'
      BY <1>2, <2>1, GiveLeaseTyped DEF TryRead
    <3>2. QED
      BY <1>2, <2>1, <3>1 DEF TryRead, LeaseTypes, Unlock, gates, queue
  <2>2. CASE ~CanRead
    BY <1>2, <2>2 DEF TryRead, Unlock, Block, gates, queue, leases
  <2>3. QED
    BY <2>1, <2>2
<1>3. CASE CallWrite(t)
  BY <1>3 DEF CallWrite, Yield, NotifyAll, flags, leases, Ticket
<1>4. CASE TryWrite(t)
  <2>1. CASE CanWrite(t)
    <3>1. Pop(t) /\ wq' \subseteq Threads
      BY <1>4, <2>1 DEF TryWrite, Pop
    <3>2. ticket' \in [Threads -> Ticket]
      BY <3>1 DEF Pop, Ticket, NoTicket
    <3>3. gate' \in [Gates -> [valid : BOOLEAN, acked : BOOLEAN]] /\ readGate' \in Generations
      BY <1>4, <2>1, FreshGateType, NextGenerationType DEF TryWrite
    <3>4. LeaseTypes'
      BY <1>4, <2>1, GiveLeaseTyped DEF TryWrite
    <3>5. QED
      BY <1>4, <2>1, <3>1, <3>2, <3>3, <3>4 DEF TryWrite, LeaseTypes, Unlock
  <2>2. CASE ~CanWrite(t)
    BY <1>4, <2>2 DEF TryWrite, Unlock, Block, gates, queue, leases
  <2>3. QED
    BY <2>1, <2>2
<1>5. CASE CallImmediate(t)
  <2>1. issued' \in 0..MaxImmediates
    BY <1>5, OwnerAssumption DEF CallImmediate
  <2>2. GateTypes'
    BY <1>5, YieldTyped DEF CallImmediate, BeginDrain
  <2>3. QED
    BY <1>5, <2>1, <2>2 DEF CallImmediate, BeginDrain, GateTypes, NotifyAll, flags, queue, leases
<1>6. CASE CheckAck(t)
  <2>1. CASE Acked
    <3>1. GateTypes'
      BY <1>6, <2>1, YieldTyped DEF CheckAck, BeginDrain
    <3>2. suspended' \in BOOLEAN /\ writer' \in BOOLEAN
      BY <1>6, <2>1 DEF CheckAck
    <3>3. pc' \in [Threads -> Labels] /\ mtx' \in Threads /\ waitSet' = {}
      BY <1>6, <2>1 DEF CheckAck, BeginDrain, NotifyAll
    <3>4. UNCHANGED <<readers, immediate, readGate, writerGate, queue, leases, issued>>
      BY <1>6 DEF CheckAck
    <3>5. QED
      BY <3>1, <3>2, <3>3, <3>4 DEF GateTypes, queue, leases
  <2>2. CASE ~Acked
    BY <1>6, <2>2 DEF CheckAck, queue, leases
  <2>3. QED
    BY <2>1, <2>2
<1>7. CASE BlockForAck(t)
  BY <1>7 DEF BlockForAck, Block, Unlock, flags, gates, queue, leases
<1>8. CASE TryImmediate(t)
  <2>1. CASE CanImmediate
    <3>1. gate' \in [Gates -> [valid : BOOLEAN, acked : BOOLEAN]] /\ readGate' \in Generations
      BY <1>8, <2>1, FreshGateType, NextGenerationType DEF TryImmediate
    <3>2. LeaseTypes'
      BY <1>8, <2>1, GiveLeaseTyped DEF TryImmediate
    <3>3. QED
      BY <1>8, <2>1, <3>1, <3>2 DEF TryImmediate, LeaseTypes, Unlock, queue
  <2>2. CASE ~CanImmediate
    BY <1>8, <2>2 DEF TryImmediate, Unlock, Block, queue, leases
  <2>3. QED
    BY <2>1, <2>2
<1>9. QED
  BY <1>1, <1>2, <1>3, <1>4, <1>5, <1>6, <1>7, <1>8 DEF Grants

LEMMA GrantsPhased ==
  ASSUME Typed, NEW t \in Threads, Grants(t)
  PROVE  Phases'
<1> USE DEF Typed, TypeOK, Phases, Goto, GiveLease, leases
<1>1. CASE CallRead(t) \/ TryRead(t)
  BY <1>1 DEF CallRead, TryRead
<1>2. CASE CallWrite(t)
  BY <1>2 DEF CallWrite
<1>3. CASE TryWrite(t)
  BY <1>3 DEF TryWrite
<1>6. CASE TryImmediate(t)
  BY <1>6 DEF TryImmediate
<1>4. CASE CallImmediate(t) \/ CheckAck(t) \/ BlockForAck(t)
  BY <1>4 DEF CallImmediate, CheckAck, BlockForAck, BeginDrain
<1>5. QED
  BY <1>1, <1>2, <1>3, <1>6, <1>4 DEF Grants

LEMMA ReleasesTyped ==
  ASSUME Typed, NEW t \in Threads, Releases(t)
  PROVE  Typed'
<1>1. Counted' /\ readers' \in Nat
  <2>1. CASE ReleaseRead(t)
    BY <2>1, CountRemoved DEF Typed, ReleaseRead, DropLease
  <2>2. CASE ReleaseWrite(t) \/ ReleaseImmediate(t)
    BY <2>2, CountKept DEF Typed, TypeOK, ReleaseWrite, ReleaseImmediate, DropLease
  <2>3. QED
    BY <2>1, <2>2 DEF Releases
<1>2. TypeOK'
  <2>0. LeaseTypes'
    BY DropLeaseTyped DEF Releases, ReleaseRead, ReleaseWrite, ReleaseImmediate, Typed
  <2> USE <1>1, <2>0 DEF Typed, TypeOK, LeaseTypes, NotifyAll
  <2>1. CASE ReleaseRead(t)
    BY <2>1 DEF ReleaseRead, gates, queue
  <2>2. CASE ReleaseWrite(t)
    <3>1. GateTypes'
      BY <2>2, FreshGateType DEF ReleaseWrite, GateTypes
    <3>2. QED
      BY <2>2, <3>1 DEF ReleaseWrite, GateTypes, queue
  <2>3. CASE ReleaseImmediate(t)
    <3>1. GateTypes'
      BY <2>3, FreshGateType DEF ReleaseImmediate, Resume, GateTypes
    <3>2. suspended' \in BOOLEAN /\ writer' \in BOOLEAN
      BY <2>3 DEF ReleaseImmediate, Resume
    <3>3. QED
      BY <2>3, <3>1, <3>2 DEF ReleaseImmediate, GateTypes, queue
  <2>4. QED
    BY <2>1, <2>2, <2>3 DEF Releases
<1>3. Phases'
  BY DEF Releases, ReleaseRead, ReleaseWrite, ReleaseImmediate, DropLease, Goto,
         Typed, TypeOK, Phases
<1>4. QED
  BY <1>1, <1>2, <1>3 DEF Typed

LEMMA PollsTyped ==
  ASSUME Typed, NEW t \in Threads, Polls(t) \/ SpuriousWakeup(t)
  PROVE  Typed'
<1> USE DEF Typed, TypeOK, Goto, ReturnStopped, lock, flags, gates, queue, leases
<1>1. UNCHANGED <<readers, mode>>
  BY DEF Polls, Load, Exchange, WakeLock, WakeNotify, SpuriousWakeup
<1>2. Counted'
  BY <1>1, CountKept
<1>3. CASE Load(t)
  <2>1. TypeOK'
    BY <1>3 DEF Load, Labels
  <2>2. Phases'
    BY <1>3 DEF Load, Phases
  <2>3. QED
    BY <1>2, <2>1, <2>2
<1>4. CASE Exchange(t)
  <2>1. TypeOK'
    BY <1>4 DEF Exchange, Labels, Gates
  <2>2. pc' = [pc EXCEPT ![t] = "wake"] \/ pc' = [pc EXCEPT ![t] = "stopped"]
    BY <1>4 DEF Exchange
  <2>3. pc[t] = "xchg" /\ mode' = mode
    BY <1>1, <1>4 DEF Exchange
  <2>4. Phases'
    BY <2>2, <2>3 DEF Phases
  <2>5. QED
    BY <1>2, <2>1, <2>4
<1>5. CASE WakeLock(t) \/ WakeNotify(t) \/ SpuriousWakeup(t)
  BY <1>2, <1>5 DEF WakeLock, WakeNotify, SpuriousWakeup, NotifyAll, Labels, Phases
<1>6. QED
  BY <1>3, <1>4, <1>5 DEF Polls

LEMMA StutterTyped == Typed /\ UNCHANGED vars => Typed'
  BY DEF Typed, TypeOK, Counted, Phases, Reading, vars, lock, flags, gates, queue, leases

LEMMA StepTyped == Typed /\ [Next]_vars => Typed'
<1> SUFFICES ASSUME Typed, [Next]_vars PROVE Typed'
  OBVIOUS
<1>1. ASSUME NEW t \in Threads, Grants(t) PROVE Typed'
  BY <1>1, GrantsCounted, GrantsTyped, GrantsPhased DEF Typed
<1>2. QED
  BY <1>1, ReleasesTyped, PollsTyped, StutterTyped DEF Next

(* The coordinator's state keeps its shape, and readers_ counts the read   *)
(* leases that are out, whatever the threads do (rread, release_read).     *)
THEOREM TypeCorrect == Spec => []Typed
  BY InitTyped, StepTyped, PTL DEF Spec

THEOREM TypeInvariant == Spec => []TypeOK
  BY TypeCorrect, PTL DEF Typed

-----------------------------------------------------------------------------
(* Mutual exclusion where queued writes and immediate-writes do not meet.  *)
(* The run Owner_drain_race shows what may happen when they do; the last   *)
(* part proves what holds of the first preemption.                         *)

Sound == Immediates = {} \/ Writers = {}

(* Only the callers of rwrite wait for and hold write leases.              *)
Roles ==
  /\ \A t \in Threads :
       /\ pc[t] \in {"a_wait", "a_block", "d_wait"} \/ mode[t] = "immediate" => t \in Immediates
       /\ pc[t] = "w_wait" \/ mode[t] = "write" => t \in Writers
  /\ writer \/ suspended => Writers # {}
  /\ suspended \/ immediate => Immediates # {}

(* The flags cover the leases that are out.                                *)
Covered ==
  \A t \in Threads :
    /\ mode[t] = "write" => writer \/ suspended
    /\ mode[t] = "immediate" => immediate

(* Whoever holds a write or immediate lease holds the only lease.          *)
Alone ==
  \A t, u \in Threads :
    t # u /\ mode[t] \in {"write", "immediate"} => mode[u] = "none"

Exclusion == Roles /\ Covered /\ Alone

LEMMA InitExclusion == Init => Exclusion
  BY DEF Init, Exclusion, Roles, Covered, Alone

(* Nobody holds a lease when a write or an immediate-write is granted.     *)
LEMMA NobodyWhenWriting ==
  ASSUME Typed, Exclusion, NEW t \in Threads, CanWrite(t), NEW u \in Threads
  PROVE  mode[u] = "none"
<1>1. mode[u] # "read"
  BY Drained DEF Typed, CanWrite
<1>2. QED
  BY <1>1 DEF Typed, TypeOK, Exclusion, Covered, CanWrite

LEMMA NobodyWhenImmediate ==
  ASSUME Sound, Typed, Exclusion, CanImmediate, Immediates # {}, NEW u \in Threads
  PROVE  mode[u] = "none"
<1>1. mode[u] # "read"
  BY Drained DEF Typed, CanImmediate
<1>2. mode[u] # "write"
  BY DEF Sound, Exclusion, Roles
<1>3. QED
  BY <1>1, <1>2 DEF Typed, TypeOK, Exclusion, Covered, CanImmediate

LEMMA NoWriteWhenReading ==
  ASSUME Exclusion, CanRead, NEW u \in Threads
  PROVE  mode[u] \notin {"write", "immediate"}
  BY DEF Exclusion, Covered, CanRead

LEMMA GrantsExclusive ==
  ASSUME Sound, Typed, Exclusion, NEW t \in Threads, Grants(t)
  PROVE  Exclusion'
<1> USE DEF Typed, TypeOK, Exclusion, Goto
<1>1. CASE CallRead(t) \/ CallWrite(t) \/ BlockForAck(t)
  BY <1>1 DEF CallRead, CallWrite, BlockForAck, flags, leases, Roles, Covered, Alone
<1>2. CASE CallImmediate(t)
  BY <1>2 DEF CallImmediate, BeginDrain, flags, leases, Roles, Covered, Alone
<1>3. CASE CheckAck(t)
  <2>1. Immediates # {} /\ ~writer /\ ~suspended
    BY <1>3 DEF CheckAck, Sound, Roles
  <2>2. UNCHANGED <<mode, immediate>> /\ ~writer' /\ ~suspended'
    BY <1>3, <2>1 DEF CheckAck, leases
  <2>3. QED
    BY <1>3, <2>1, <2>2 DEF CheckAck, BeginDrain, Roles, Covered, Alone
<1>4. CASE TryRead(t)
  <2>1. CASE CanRead
    <3>1. mode' = [mode EXCEPT ![t] = "read"] /\ UNCHANGED <<writer, suspended, immediate>>
      BY <1>4, <2>1 DEF TryRead, GiveLease
    <3>2. Alone' /\ Covered'
      BY <2>1, <3>1, NoWriteWhenReading DEF Alone, Covered
    <3>3. Roles'
      BY <1>4, <2>1, <3>1 DEF TryRead, GiveLease, Roles
    <3>4. QED
      BY <3>2, <3>3
  <2>2. CASE ~CanRead
    BY <1>4, <2>2 DEF TryRead, leases, Roles, Covered, Alone
  <2>3. QED
    BY <2>1, <2>2
<1>5. CASE TryWrite(t)
  <2>1. CASE CanWrite(t)
    <3>1. mode' = [mode EXCEPT ![t] = "write"] /\ writer' /\ UNCHANGED <<suspended, immediate>>
      BY <1>5, <2>1 DEF TryWrite, GiveLease
    <3>2. Alone' /\ Covered'
      BY <2>1, <3>1, NobodyWhenWriting DEF Alone, Covered
    <3>3. Roles'
      BY <1>5, <2>1, <3>1 DEF TryWrite, GiveLease, Roles
    <3>4. QED
      BY <3>2, <3>3
  <2>2. CASE ~CanWrite(t)
    BY <1>5, <2>2 DEF TryWrite, leases, Roles, Covered, Alone
  <2>3. QED
    BY <2>1, <2>2
<1>6. CASE TryImmediate(t)
  <2>0. Immediates # {}
    BY <1>6 DEF TryImmediate, Roles
  <2>1. CASE CanImmediate
    <3>1. mode' = [mode EXCEPT ![t] = "immediate"] /\ immediate' /\ UNCHANGED <<suspended, writer>>
      BY <1>6, <2>1 DEF TryImmediate, GiveLease
    <3>2. Alone' /\ Covered'
      BY <2>0, <2>1, <3>1, NobodyWhenImmediate DEF Alone, Covered
    <3>3. Roles'
      BY <1>6, <2>0, <2>1, <3>1 DEF TryImmediate, GiveLease, Roles
    <3>4. QED
      BY <3>2, <3>3
  <2>2. CASE ~CanImmediate
    BY <1>6, <2>2 DEF TryImmediate, leases, Roles, Covered, Alone
  <2>3. QED
    BY <2>1, <2>2
<1>7. QED
  BY <1>1, <1>2, <1>3, <1>4, <1>5, <1>6 DEF Grants

LEMMA ReleasesExclusive ==
  ASSUME Sound, Typed, Exclusion, NEW t \in Threads, Releases(t)
  PROVE  Exclusion'
<1> USE DEF Typed, TypeOK, Exclusion, DropLease, Goto
<1>1. CASE ReleaseRead(t)
  BY <1>1 DEF ReleaseRead, Roles, Covered, Alone
<1>2. CASE ReleaseWrite(t)
  BY <1>2 DEF ReleaseWrite, Roles, Covered, Alone
<1>3. CASE ReleaseImmediate(t)
  <2>1. ~writer /\ ~suspended
    BY <1>3 DEF ReleaseImmediate, Sound, Roles
  <2>2. ~writer' /\ ~suspended'
    BY <1>3, <2>1 DEF ReleaseImmediate, Resume
  <2>3. QED
    BY <1>3, <2>1, <2>2 DEF ReleaseImmediate, Roles, Covered, Alone
<1>4. QED
  BY <1>1, <1>2, <1>3 DEF Releases

LEMMA PollsExclusive ==
  ASSUME Typed, Exclusion, NEW t \in Threads, Polls(t) \/ SpuriousWakeup(t)
  PROVE  Exclusion'
<1>1. UNCHANGED <<flags, mode>>
  BY DEF Polls, Load, Exchange, WakeLock, WakeNotify, SpuriousWakeup, flags, leases
<1>2. \A u \in Threads : pc'[u] = pc[u] \/ pc'[u] \in {"use", "xchg", "wake", "notify", "stopped"}
  BY DEF Polls, Load, Exchange, WakeLock, WakeNotify, SpuriousWakeup, ReturnStopped, Goto,
         Typed, TypeOK
<1>3. QED
  BY <1>1, <1>2 DEF Exclusion, Roles, Covered, Alone, flags

LEMMA StepExclusive ==
  ASSUME Sound
  PROVE  Typed /\ Exclusion /\ [Next]_vars => Exclusion'
<1>1. Exclusion /\ UNCHANGED vars => Exclusion'
  BY DEF Exclusion, Roles, Covered, Alone, vars, flags, leases
<1>2. QED
  BY <1>1, GrantsExclusive, ReleasesExclusive, PollsExclusive DEF Next

LEMMA ExclusionExcludes == Typed /\ Exclusion => ExclusiveAccess
  BY DEF Typed, TypeOK, Exclusion, Alone, ExclusiveAccess, MayTouch

-----------------------------------------------------------------------------
(* Wakeups                                                                 *)

(* A thread inside a critical section is not blocked, and only waits there *)
(* for the predicate of its cv_.wait.                                      *)
Blocking ==
  \A t \in Threads :
    /\ mtx = t => t \notin waitSet /\ pc[t] \in {"w_wait", "a_wait", "a_block", "d_wait"}
    /\ t \in waitSet => pc[t] \in {"r_wait", "w_wait", "a_wait", "d_wait"}

(* An ack that arrives between the predicate and the blocking belongs to a *)
(* holder that cannot notify before the mutex is free.                     *)
AckHeard ==
  \A t \in Threads :
    pc[t] = "a_block" => mtx = t /\ (Acked => \E u \in Threads : pc[u] = "wake")

Waking == Blocking /\ AckHeard /\ NoLostWakeup

LEMMA InitWaking == Init => Waking
  BY OwnerAssumption DEF Init, Waking, Blocking, AckHeard, NoLostWakeup, Gates

(* Whoever empties the wait set and leaves no one about to block is done.  *)
LEMMA NotifiedWaking ==
  ASSUME waitSet' = {}, AckHeard', Blocking'
  PROVE  Waking'
  BY DEF Waking, NoLostWakeup

(* Nobody is about to block while the mutex is free or t may take it.      *)
LEMMA NobodyBlocks ==
  ASSUME Waking, NEW t \in Threads, Locked(t), pc[t] # "a_block"
  PROVE  \A u \in Threads : pc[u] # "a_block"
  BY OwnerAssumption DEF Waking, AckHeard, Locked, Gates

LEMMA ReleasesWaking ==
  ASSUME Typed, Waking, NEW t \in Threads, Releases(t)
  PROVE  Waking'
<1>1. mtx = NoThread /\ mtx' = NoThread /\ waitSet' = {}
  BY DEF Releases, ReleaseRead, ReleaseWrite, ReleaseImmediate, NotifyAll
<1>2. \A u \in Threads : pc'[u] = pc[u] \/ pc'[u] = "idle"
  BY DEF Releases, ReleaseRead, ReleaseWrite, ReleaseImmediate, DropLease, Goto, Typed, TypeOK
<1>3. NoThread \notin Threads
  BY OwnerAssumption DEF Gates
<1>4. AckHeard' /\ Blocking'
  BY <1>1, <1>2, <1>3 DEF Waking, AckHeard, Blocking
<1>5. QED
  BY <1>1, <1>4, NotifiedWaking

(* The requests that notify everybody before they wait.                    *)
LEMMA RequestsWaking ==
  ASSUME Typed, Waking, NEW t \in Threads,
         CallWrite(t) \/ CallImmediate(t) \/ (CheckAck(t) /\ Acked)
  PROVE  Waking'
<1>1. mtx' = t /\ waitSet' = {} /\ pc'[t] \in {"w_wait", "a_wait", "d_wait"}
  BY DEF CallWrite, CallImmediate, CheckAck, BeginDrain, NotifyAll, Goto, Typed, TypeOK
<1>2. \A u \in Threads \ {t} : pc'[u] = pc[u]
  BY DEF CallWrite, CallImmediate, CheckAck, BeginDrain, Goto, Typed, TypeOK
<1>3. \A u \in Threads : pc[u] # "a_block"
  <2>1. mtx = NoThread \/ (Locked(t) /\ pc[t] # "a_block")
    BY DEF CallWrite, CallImmediate, CheckAck
  <2>2. QED
    BY <2>1, NobodyBlocks, OwnerAssumption DEF Waking, AckHeard, Gates
<1>4. AckHeard' /\ Blocking'
  BY <1>1, <1>2, <1>3 DEF AckHeard, Blocking
<1>5. QED
  BY <1>1, <1>4, NotifiedWaking

(* A wait whose predicate is false blocks; nobody else's predicate moves.  *)
LEMMA BlockWaking ==
  ASSUME Typed, Waking, ~Crashed, NEW t \in Threads, t \notin waitSet,
         Block(t), pc[t] \in {"r_wait", "w_wait", "a_wait", "d_wait"}, ~Ready(t),
         \A u \in Threads : pc[u] # "a_block",
         UNCHANGED <<flags, gates, queue, pc>>
  PROVE  Waking'
<1>1. \A u \in Threads : Ready(u)' <=> Ready(u)
  BY DEF Ready, CanRead, CanWrite, Top, ServedBefore, Acked, CanImmediate, flags, gates, queue
<1>2. NoLostWakeup'
  <2>1. waitSet \subseteq Threads
    BY DEF Typed, TypeOK
  <2>2. \A u \in waitSet' : Ready(u)' => Ready(u) /\ u \in waitSet
    BY <1>1, <2>1 DEF Block
  <2>3. QED
    BY <2>2 DEF Waking, NoLostWakeup
<1>3. AckHeard' /\ Blocking'
  BY OwnerAssumption DEF Waking, AckHeard, Blocking, Block, Unlock, Gates
<1>4. QED
  BY <1>2, <1>3 DEF Waking

(* A grant leaves nobody ready that was not ready before.                  *)
LEMMA GrantWaking ==
  ASSUME Typed, Waking, ~Crashed, NEW t \in Threads,
         mtx' = NoThread, UNCHANGED waitSet,
         pc[t] \notin {"wake", "notify"}, t \notin waitSet,
         \A u \in Threads \ {t} : pc'[u] = pc[u], pc'[t] = "use",
         \A u \in Threads : pc[u] # "a_block",
         \A u \in waitSet : Ready(u)' => Ready(u)
  PROVE  Waking'
<1>1. NoLostWakeup'
  BY DEF Waking, NoLostWakeup
<1>2. AckHeard' /\ Blocking'
  BY OwnerAssumption DEF Waking, AckHeard, Blocking, Gates
<1>3. QED
  BY <1>1, <1>2 DEF Waking

LEMMA TriesWaking ==
  ASSUME Typed, Waking, ~Crashed, NEW t \in Threads,
         TryRead(t) \/ TryWrite(t) \/ TryImmediate(t)
  PROVE  Waking'
<1>0. /\ Locked(t) /\ pc[t] \in {"r_wait", "w_wait", "d_wait"} /\ t \notin waitSet
      /\ \A u \in Threads : pc[u] # "a_block"
  <2>1. Locked(t) /\ pc[t] \in {"r_wait", "w_wait", "d_wait"}
    BY DEF TryRead, TryWrite, TryImmediate
  <2>2. t \notin waitSet
    BY <2>1 DEF Locked, Waking, Blocking
  <2>3. QED
    BY <2>1, <2>2, NobodyBlocks
<1>1. CASE TryRead(t)
  <2>1. CASE CanRead
    <3>1. \A u \in waitSet : Ready(u)' => Ready(u)
      <4> SUFFICES ASSUME NEW u \in waitSet, Ready(u)' PROVE Ready(u)
        OBVIOUS
      <4>1. u # t /\ pc'[u] = pc[u]
        BY <1>0, <1>1, <2>1 DEF TryRead, GiveLease, Goto, Typed, TypeOK
      <4>2. readers' = readers + 1 /\ readers \in Nat /\ UNCHANGED <<writer, suspended, immediate, gates, queue>>
        BY <1>1, <2>1 DEF TryRead, AddReader, Typed, TypeOK
      <4>3. ~CanWrite(u)' /\ ~CanImmediate'
        BY <4>2 DEF CanWrite, CanImmediate
      <4>4. QED
        BY <4>1, <4>2, <4>3 DEF Ready, CanRead, Acked, gates, queue
    <3>2. QED
      BY <1>0, <1>1, <2>1, <3>1, GrantWaking DEF TryRead, GiveLease, Goto, Unlock, Typed, TypeOK
  <2>2. CASE ~CanRead
    BY <1>0, <1>1, <2>2, BlockWaking DEF TryRead, Ready, flags
  <2>3. QED
    BY <2>1, <2>2
<1>2. CASE TryWrite(t)
  <2>1. CASE CanWrite(t)
    <3>1. \A u \in waitSet : Ready(u)' => Ready(u)
      <4> SUFFICES ASSUME NEW u \in waitSet, Ready(u)' PROVE Ready(u)
        OBVIOUS
      <4>1. u # t /\ pc'[u] = pc[u]
        BY <1>0, <1>2, <2>1 DEF TryWrite, GiveLease, Goto, Typed, TypeOK
      <4>2. writer' /\ writerGate' = t /\ readers' = readers /\ immediate' = immediate
        BY <1>2, <2>1 DEF TryWrite
      <4>3. gate'[t] = FreshGate
        BY <1>2, <2>1, OwnerAssumption, NextGenerationType DEF TryWrite, Gates, Typed, TypeOK
      <4>4. ~CanRead' /\ ~CanWrite(u)' /\ ~Acked'
        BY <4>2, <4>3 DEF CanRead, CanWrite, Acked, FreshGate
      <4>5. QED
        BY <4>1, <4>2, <4>4 DEF Ready, CanImmediate
    <3>2. QED
      BY <1>0, <1>2, <2>1, <3>1, GrantWaking DEF TryWrite, GiveLease, Goto, Unlock, Typed, TypeOK
  <2>2. CASE ~CanWrite(t)
    BY <1>0, <1>2, <2>2, BlockWaking DEF TryWrite, Ready, flags
  <2>3. QED
    BY <2>1, <2>2
<1>3. CASE TryImmediate(t)
  <2>1. CASE CanImmediate
    <3>1. \A u \in waitSet : Ready(u)' => Ready(u)
      <4> SUFFICES ASSUME NEW u \in waitSet, Ready(u)' PROVE Ready(u)
        OBVIOUS
      <4>1. u # t /\ pc'[u] = pc[u]
        BY <1>0, <1>3, <2>1 DEF TryImmediate, GiveLease, Goto, Typed, TypeOK
      <4>2. immediate' /\ UNCHANGED <<writer, writerGate>>
        BY <1>3, <2>1 DEF TryImmediate
      <4>3. ~CanRead' /\ ~CanWrite(u)' /\ ~CanImmediate'
        BY <4>2 DEF CanRead, CanWrite, CanImmediate
      <4>4. writer => writerGate \in Threads /\ gate'[writerGate] \in {gate[writerGate], FreshGate}
        BY <1>3, <2>1, OwnerAssumption, NextGenerationType DEF TryImmediate, Crashed, Gates, Typed, TypeOK
      <4>5. QED
        BY <4>1, <4>2, <4>3, <4>4 DEF Ready, Acked, FreshGate
    <3>2. QED
      BY <1>0, <1>3, <2>1, <3>1, GrantWaking DEF TryImmediate, GiveLease, Goto, Unlock, Typed, TypeOK
  <2>2. CASE ~CanImmediate
    BY <1>0, <1>3, <2>2, BlockWaking DEF TryImmediate, Ready, flags, gates
  <2>3. QED
    BY <2>1, <2>2
<1>4. QED
  BY <1>1, <1>2, <1>3

(* Steps that change no flag and no queue keep everybody's predicate, the  *)
(* ack's apart.                                                            *)
LEMMA ReadyKept ==
  ASSUME NEW u \in Threads, UNCHANGED <<flags, queue, writerGate>>, pc'[u] = pc[u],
         Acked' => Acked
  PROVE  Ready(u)' => Ready(u)
  BY DEF Ready, CanRead, CanWrite, Top, ServedBefore, CanImmediate, flags, queue

LEMMA AckWaking ==
  ASSUME Typed, Waking, ~Crashed, NEW t \in Threads,
         CallRead(t) \/ (CheckAck(t) /\ ~Acked) \/ BlockForAck(t)
  PROVE  Waking'
<1> USE DEF Typed, TypeOK, Goto
<1>0. NoThread \notin Threads
  BY OwnerAssumption DEF Gates
<1>1. UNCHANGED <<flags, queue, gates, writerGate>> /\ (Acked' <=> Acked)
  BY DEF CallRead, CheckAck, BlockForAck, flags, queue, gates, Acked
<1>2. \A u \in Threads \ {t} : pc'[u] = pc[u]
  BY DEF CallRead, CheckAck, BlockForAck
<1>3. \A u \in Threads \ {t} : Ready(u)' => Ready(u)
  BY <1>1, <1>2, ReadyKept
<1>4. CASE CallRead(t)
  <2>1. t \notin waitSet /\ mtx # t /\ UNCHANGED lock /\ pc'[t] = "r_wait" /\ pc[t] = "idle"
    BY <1>4 DEF CallRead, Waking, Blocking
  <2>2. QED
    BY <1>1, <1>2, <1>3, <2>1 DEF Waking, Blocking, AckHeard, NoLostWakeup, lock
<1>5. CASE CheckAck(t) /\ ~Acked
  <2>1. Locked(t) /\ pc[t] = "a_wait" /\ mtx' = t /\ pc'[t] = "a_block" /\ UNCHANGED waitSet
    BY <1>5 DEF CheckAck
  <2>2. t \notin waitSet /\ \A u \in Threads : pc[u] # "a_block"
    BY <2>1, NobodyBlocks DEF Locked, Waking, Blocking
  <2>3. QED
    BY <1>0, <1>1, <1>2, <1>3, <1>5, <2>1, <2>2 DEF Waking, Blocking, AckHeard, NoLostWakeup
<1>6. CASE BlockForAck(t)
  <2>1. /\ pc[t] = "a_block" /\ pc'[t] = "a_wait"
        /\ mtx = t /\ mtx' = NoThread /\ waitSet' = waitSet \cup {t}
    BY <1>6 DEF BlockForAck, Block, Unlock, Waking, AckHeard
  <2>2. \A u \in Threads \ {t} : pc[u] # "a_block"
    BY <2>1 DEF Waking, AckHeard
  <2>3. Acked => \E u \in Threads : pc'[u] = "wake"
    BY <1>2, <2>1 DEF Waking, AckHeard
  <2>4. Ready(t)' => Acked
    BY <1>1, <2>1 DEF Ready
  <2>5. NoLostWakeup'
    BY <1>2, <1>3, <2>1, <2>3, <2>4 DEF Waking, NoLostWakeup
  <2>6. QED
    BY <1>0, <1>2, <2>1, <2>2, <2>5 DEF Waking, Blocking, AckHeard
<1>7. QED
  BY <1>4, <1>5, <1>6

LEMMA PollsWaking ==
  ASSUME Typed, Waking, ~Crashed, NEW t \in Threads, Polls(t) \/ SpuriousWakeup(t)
  PROVE  Waking'
<1> USE DEF Typed, TypeOK, Goto
<1>1. UNCHANGED <<mtx, flags, queue, writerGate>>
  BY DEF Polls, Load, Exchange, WakeLock, WakeNotify, SpuriousWakeup, lock, gates
<1>2. CASE Load(t)
  <2>1. /\ UNCHANGED <<waitSet, gate>> /\ pc[t] \in {"use", "stopped"} /\ pc'[t] \in {"use", "xchg"}
        /\ \A u \in Threads \ {t} : pc'[u] = pc[u]
    BY <1>2 DEF Load, lock, gates
  <2>2. Acked' <=> Acked
    BY <1>1, <2>1 DEF Acked, flags
  <2>3. \A u \in waitSet : Ready(u)' => Ready(u)
    BY <1>1, <2>1, <2>2, ReadyKept DEF Waking, Blocking
  <2>4. QED
    BY <1>1, <2>1, <2>2, <2>3 DEF Waking, Blocking, AckHeard, NoLostWakeup
<1>3. CASE Exchange(t)
  <2>1. /\ UNCHANGED waitSet /\ pc[t] = "xchg" /\ pc'[t] \in {"wake", "stopped"}
        /\ \A u \in Threads \ {t} : pc'[u] = pc[u]
    BY <1>3 DEF Exchange, ReturnStopped, lock
  <2>2. pc'[t] # "wake" => \A g \in Gates : gate'[g].acked = gate[g].acked
    BY <1>3 DEF Exchange, ReturnStopped
  <2>3. writer => writerGate \in Gates
    BY DEF Crashed, Gates
  <2>4. pc'[t] # "wake" => (Acked' <=> Acked)
    BY <1>1, <2>2, <2>3 DEF Acked, flags
  <2>5. pc'[t] # "wake" => \A u \in waitSet : Ready(u)' => Ready(u)
    BY <1>1, <2>1, <2>4, ReadyKept DEF Waking, Blocking
  <2>6. QED
    BY <1>1, <2>1, <2>4, <2>5 DEF Waking, Blocking, AckHeard, NoLostWakeup
<1>4. CASE WakeLock(t)
  <2>1. /\ UNCHANGED <<waitSet, gate>> /\ mtx = NoThread /\ pc[t] = "wake" /\ pc'[t] = "notify"
        /\ \A u \in Threads \ {t} : pc'[u] = pc[u]
    BY <1>4 DEF WakeLock, lock, gates
  <2>2. \A u \in Threads : pc[u] # "a_block"
    BY <2>1, OwnerAssumption DEF Waking, AckHeard, Gates
  <2>3. QED
    BY <1>1, <2>1, <2>2 DEF Waking, Blocking, AckHeard, NoLostWakeup
<1>5. CASE WakeNotify(t)
  <2>1. /\ UNCHANGED gate /\ waitSet' = {} /\ pc[t] = "notify" /\ pc'[t] = "stopped"
        /\ \A u \in Threads \ {t} : pc'[u] = pc[u]
    BY <1>5 DEF WakeNotify, NotifyAll, ReturnStopped, gates
  <2>2. Acked' <=> Acked
    BY <1>1, <2>1 DEF Acked, flags
  <2>3. AckHeard' /\ Blocking'
    BY <1>1, <2>1, <2>2 DEF Waking, Blocking, AckHeard
  <2>4. QED
    BY <2>1, <2>3, NotifiedWaking
<1>6. CASE SpuriousWakeup(t)
  <2>1. UNCHANGED <<gate, pc>> /\ waitSet' \subseteq waitSet
    BY <1>6 DEF SpuriousWakeup, gates
  <2>2. Acked' <=> Acked
    BY <1>1, <2>1 DEF Acked, flags
  <2>3. \A u \in waitSet : Ready(u)' => Ready(u)
    BY <1>1, <2>1, <2>2, ReadyKept
  <2>4. QED
    BY <1>1, <2>1, <2>2, <2>3 DEF Waking, Blocking, AckHeard, NoLostWakeup
<1>7. QED
  BY <1>2, <1>3, <1>4, <1>5, <1>6 DEF Polls

LEMMA StepWaking == Typed /\ Waking /\ [Next]_vars => Waking'
<1>1. Waking /\ UNCHANGED vars => Waking'
  BY DEF Waking, Blocking, AckHeard, NoLostWakeup, Ready, Crashed, CanRead, CanWrite, Top,
         ServedBefore, Acked, CanImmediate, vars, lock, flags, gates, queue
<1>2. ASSUME Typed, Waking, ~Crashed, NEW t \in Threads, Grants(t)
      PROVE  Waking'
  BY <1>2, RequestsWaking, TriesWaking, AckWaking DEF Grants
<1>3. QED
  BY <1>1, <1>2, ReleasesWaking, PollsWaking DEF Next

(* No waiter sleeps through the wakeup it waits for, for any number of     *)
(* readers, writers and immediate-writes (make_gate(): the waker takes the *)
(* owner's mutex before it notifies).                                      *)
THEOREM WakeupsArrive == Spec => []NoLostWakeup
<1>1. Waking => NoLostWakeup
  BY DEF Waking
<1>2. QED
  BY TypeCorrect, InitWaking, StepWaking, <1>1, PTL DEF Spec

-----------------------------------------------------------------------------
(* The drain request                                                       *)

(* Without immediate-writes every read lease is of the current generation, *)
(* and that generation is asked to yield while a write is queued.          *)
ReadersAsked ==
  \A r \in Threads :
    mode[r] = "read" =>
      /\ leaseGate[r] = readGate
      /\ wq # {} => ~gate[readGate].valid

LEMMA InitReadersAsked == Init => ReadersAsked
  BY DEF Init, ReadersAsked

LEMMA GrantsReadersAsked ==
  ASSUME Immediates = {}, Typed, Exclusion, ReadersAsked, NEW t \in Threads, Grants(t)
  PROVE  ReadersAsked'
<1> USE DEF Typed, TypeOK
<1>1. CASE CallRead(t) \/ BlockForAck(t)
  BY <1>1 DEF CallRead, BlockForAck, ReadersAsked, gates, queue, leases
<1>2. CASE CallImmediate(t) \/ CheckAck(t) \/ TryImmediate(t)
  BY <1>2 DEF CallImmediate, CheckAck, TryImmediate, Exclusion, Roles
<1>3. CASE TryRead(t)
  <2>1. CASE CanRead
    BY <1>3, <2>1 DEF TryRead, GiveLease, CanRead, ReadersAsked, gates, queue
  <2>2. CASE ~CanRead
    BY <1>3, <2>2 DEF TryRead, ReadersAsked, gates, queue, leases
  <2>3. QED
    BY <2>1, <2>2
<1>4. CASE CallWrite(t)
  <2>1. gate'[readGate].valid = FALSE
    BY <1>4 DEF CallWrite, Yield, Gates
  <2>2. QED
    BY <1>4, <2>1 DEF CallWrite, ReadersAsked, leases
<1>5. CASE TryWrite(t)
  <2>1. CASE CanWrite(t)
    <3>1. \A u \in Threads : mode[u] # "read"
      BY <2>1, Drained DEF CanWrite
    <3>2. \A u \in Threads : mode'[u] # "read"
      BY <1>5, <2>1, <3>1 DEF TryWrite, GiveLease
    <3>3. QED
      BY <3>2 DEF ReadersAsked
  <2>2. CASE ~CanWrite(t)
    BY <1>5, <2>2 DEF TryWrite, ReadersAsked, gates, queue, leases
  <2>3. QED
    BY <2>1, <2>2
<1>6. QED
  BY <1>1, <1>2, <1>3, <1>4, <1>5 DEF Grants

LEMMA ReleasesReadersAsked ==
  ASSUME Immediates = {}, Typed, Exclusion, ReadersAsked, NEW t \in Threads, Releases(t)
  PROVE  ReadersAsked'
<1> USE DEF Typed, TypeOK, DropLease, ReadersAsked
<1>1. CASE ReleaseRead(t)
  BY <1>1 DEF ReleaseRead, gates, queue
<1>2. CASE ReleaseWrite(t)
  <2>1. gate'[readGate] = gate[readGate] /\ UNCHANGED <<readGate, wq>>
    BY <1>2, OwnerAssumption DEF ReleaseWrite, Gates, queue
  <2>2. QED
    BY <1>2, <2>1 DEF ReleaseWrite
<1>3. CASE ReleaseImmediate(t)
  BY <1>3 DEF ReleaseImmediate, Exclusion, Roles
<1>4. QED
  BY <1>1, <1>2, <1>3 DEF Releases

LEMMA PollsReadersAsked ==
  ASSUME Typed, ReadersAsked, NEW t \in Threads, Polls(t) \/ SpuriousWakeup(t)
  PROVE  ReadersAsked'
<1>1. UNCHANGED <<readGate, wq, mode, leaseGate>>
  BY DEF Polls, Load, Exchange, WakeLock, WakeNotify, SpuriousWakeup, gates, queue, leases
<1>2. \A g \in Gates : gate'[g].valid = gate[g].valid
  BY DEF Polls, Load, Exchange, WakeLock, WakeNotify, SpuriousWakeup, gates, Typed, TypeOK
<1>3. readGate \in Gates
  BY DEF Typed, TypeOK, Gates
<1>4. QED
  BY <1>1, <1>2, <1>3 DEF ReadersAsked

LEMMA StepReadersAsked ==
  ASSUME Immediates = {}
  PROVE  Typed /\ Exclusion /\ ReadersAsked /\ [Next]_vars => ReadersAsked'
<1>1. ReadersAsked /\ UNCHANGED vars => ReadersAsked'
  BY DEF ReadersAsked, vars, gates, queue, leases
<1>2. QED
  BY <1>1, GrantsReadersAsked, ReleasesReadersAsked, PollsReadersAsked DEF Next

(* drain-before-write (owner.hpp, the guarantees): while a write waits, no *)
(* reader holds a lease that was not asked to yield.  With two immediate-  *)
(* writes it fails: a reader let in between their grants is not asked.     *)
THEOREM DrainRequested ==
  ASSUME Immediates = {}
  PROVE  Spec => []DrainReachesReaders
<1>1. Sound
  BY DEF Sound
<1>2. Typed /\ Exclusion /\ [Next]_vars => Exclusion'
  BY <1>1, StepExclusive
<1>3. Typed /\ Exclusion /\ ReadersAsked /\ [Next]_vars => ReadersAsked'
  BY StepReadersAsked
<1>4. Typed /\ Exclusion /\ ReadersAsked => DrainReachesReaders
  BY DEF Exclusion, Roles, ReadersAsked, DrainReachesReaders, Draining
<1>5. QED
  BY TypeCorrect, InitExclusion, InitReadersAsked, <1>2, <1>3, <1>4, PTL DEF Spec

-----------------------------------------------------------------------------
(* The queue and the gates                                                 *)

(* The write queue: who waits in it, and the order of arrival. *)
Queued ==
  /\ \A t \in Threads : t \in wq <=> pc[t] = "w_wait"
  /\ \A t \in Threads : t \notin wq => ticket[t] = NoTicket
  /\ \A t \in wq : ticket[t].before \subseteq wq \ {t}
  /\ \A t, u \in wq : t # u => (t \in ticket[u].before <=> u \notin ticket[t].before)

LEMMA InitQueued == Init => Queued
  BY DEF Init, Queued

LEMMA StepQueued ==
  ASSUME Typed, Queued, NEW t \in Threads,
         Grants(t) \/ Releases(t) \/ Polls(t) \/ SpuriousWakeup(t)
  PROVE  Queued'
<1> USE DEF Typed, TypeOK, Goto
<1>1. CASE CallWrite(t)
  <2>1. PICK p \in Priorities : ticket' = [ticket EXCEPT ![t] = [prio |-> p, before |-> wq]]
    BY <1>1 DEF CallWrite
  <2>2. t \notin wq /\ wq' = wq \cup {t} /\ pc' = [pc EXCEPT ![t] = "w_wait"]
    BY <1>1 DEF CallWrite, Queued, Labels
  <2>3. ticket'[t].before = wq /\ \A u \in Threads \ {t} : ticket'[u] = ticket[u]
    BY <2>1
  <2>4. \A u \in wq : t \notin ticket[u].before /\ u # t
    BY <2>2 DEF Queued
  <2>5. QED
    BY <2>2, <2>3, <2>4 DEF Queued
<1>2. CASE TryWrite(t)
  <2>1. CASE CanWrite(t)
    <3>1. wq' = wq \ {t} /\ pc' = [pc EXCEPT ![t] = "use"]
      BY <1>2, <2>1 DEF TryWrite, Pop, GiveLease
    <3>2. \A u \in Threads : ticket'[u] = IF u = t THEN NoTicket
                 ELSE [prio |-> ticket[u].prio, before |-> ticket[u].before \ {t}]
      BY <1>2, <2>1 DEF TryWrite, Pop
    <3>3. \A u \in Threads \ {t} : ticket'[u].before = ticket[u].before \ {t}
      <4> SUFFICES ASSUME NEW u \in Threads \ {t}
                   PROVE  ticket'[u].before = ticket[u].before \ {t}
        OBVIOUS
      <4>1. ticket'[u] = [prio |-> ticket[u].prio, before |-> ticket[u].before \ {t}]
        BY <3>2
      <4>2. QED
        BY <4>1
    <3>4. \A u \in Threads : u \notin wq' => ticket'[u] = NoTicket
      <4> SUFFICES ASSUME NEW u \in Threads, u \notin wq', u # t PROVE ticket'[u] = NoTicket
        BY <3>2
      <4>1. ticket[u] = NoTicket
        BY <3>1 DEF Queued
      <4>2. NoTicket.prio = 0 /\ NoTicket.before = {}
        BY DEF NoTicket
      <4>4. NoTicket.before \ {t} = {}
        BY <4>2
      <4>3. QED
        BY <3>2, <4>1, <4>2, <4>4, Zenon DEF NoTicket
    <3>5. \A u \in Threads : u \in wq' <=> pc'[u] = "w_wait"
      BY <3>1 DEF Queued
    <3>6. \A u \in wq' : ticket'[u].before \subseteq wq' \ {u}
      BY <3>1, <3>3 DEF Queued
    <3>7. \A u, v \in wq' : u # v => (u \in ticket'[v].before <=> v \notin ticket'[u].before)
      BY <3>1, <3>3 DEF Queued
    <3>8. QED
      BY <3>4, <3>5, <3>6, <3>7 DEF Queued
  <2>2. CASE ~CanWrite(t)
    BY <1>2, <2>2 DEF TryWrite, queue, Queued
  <2>3. QED
    BY <2>1, <2>2
<1>3. CASE ~CallWrite(t) /\ ~TryWrite(t)
  <2>1. UNCHANGED queue
    BY <1>3 DEF Grants, Releases, Polls, CallRead, TryRead, CallImmediate, CheckAck, BlockForAck,
         TryImmediate, ReleaseRead, ReleaseWrite, ReleaseImmediate, Load, Exchange, WakeLock,
         WakeNotify, SpuriousWakeup
  <2>2. \A u \in Threads : pc'[u] = "w_wait" <=> pc[u] = "w_wait"
    BY <1>3 DEF Grants, Releases, Polls, CallRead, TryRead, CallImmediate, CheckAck, BlockForAck,
         BeginDrain, GiveLease, DropLease, ReturnStopped,
         TryImmediate, ReleaseRead, ReleaseWrite, ReleaseImmediate, Load, Exchange, WakeLock,
         WakeNotify, SpuriousWakeup
  <2>3. QED
    BY <2>1, <2>2 DEF Queued, queue
<1>4. QED
  BY <1>1, <1>2, <1>3

(* A lease's gate is its own, a reader's the generation's.                 *)
OwnGates ==
  \A t \in Threads :
    /\ mode[t] = "read" => leaseGate[t] \in Generations
    /\ mode[t] \in {"write", "immediate"} => leaseGate[t] = t

LEMMA InitOwnGates == Init => OwnGates
  BY DEF Init, OwnGates

LEMMA StepOwnGates ==
  ASSUME Typed, OwnGates, NEW t \in Threads,
         Grants(t) \/ Releases(t) \/ Polls(t) \/ SpuriousWakeup(t)
  PROVE  OwnGates'
<1> USE DEF Typed, TypeOK
<1>1. CASE TryRead(t)
  BY <1>1 DEF TryRead, GiveLease, OwnGates, leases
<1>2. CASE TryWrite(t)
  BY <1>2 DEF TryWrite, GiveLease, OwnGates, leases
<1>3. CASE TryImmediate(t)
  BY <1>3 DEF TryImmediate, GiveLease, OwnGates, leases
<1>4. CASE Releases(t)
  <2>1. DropLease(t)
    BY <1>4 DEF Releases, ReleaseRead, ReleaseWrite, ReleaseImmediate
  <2>2. QED
    BY <2>1 DEF DropLease, OwnGates
<1>5. CASE ~TryRead(t) /\ ~TryWrite(t) /\ ~TryImmediate(t) /\ ~Releases(t)
  <2>1. UNCHANGED <<mode, leaseGate>>
    BY <1>5 DEF Grants, Polls, CallRead, CallWrite, CallImmediate, CheckAck, BlockForAck,
         Load, Exchange, WakeLock, WakeNotify, SpuriousWakeup, leases
  <2>2. QED
    BY <2>1 DEF OwnGates
<1>6. QED
  BY <1>1, <1>2, <1>3, <1>4, <1>5

(* Without immediate-writes nobody stops a writer.                         *)
Calm ==
  \A t \in Threads : mode[t] = "write" => pc[t] = "use" /\ gate[t].valid

LEMMA InitCalm == Init => Calm
  BY DEF Init, Calm

LEMMA StepCalm ==
  ASSUME Immediates = {}, Typed, Exclusion, OwnGates, Calm, NEW t \in Threads,
         Grants(t) \/ Releases(t) \/ Polls(t) \/ SpuriousWakeup(t)
  PROVE  Calm'
<1> USE DEF Typed, TypeOK, Goto
<1>0. /\ ~CallImmediate(t) /\ ~CheckAck(t) /\ ~BlockForAck(t) /\ ~TryImmediate(t)
      /\ ~ReleaseImmediate(t)
  BY DEF CallImmediate, CheckAck, BlockForAck, TryImmediate, ReleaseImmediate, Exclusion, Roles
<1>9. Generations \cap Threads = {} /\ readGate \in Generations /\ NextGeneration \in Generations
  BY OwnerAssumption, NextGenerationType
<1>1. CASE TryRead(t) \/ CallRead(t)
  BY <1>1 DEF TryRead, CallRead, GiveLease, Calm, leases, gates
<1>2. CASE CallWrite(t)
  <2>1. mode[t] # "write"
    BY <1>2 DEF CallWrite, Phases
  <2>2. QED
    BY <1>2, <1>9, <2>1 DEF CallWrite, Yield, Calm, leases
<1>3. CASE TryWrite(t)
  <2>1. CASE CanWrite(t)
    <3>1. \A u \in Threads \ {t} : mode'[u] = "none"
      BY <1>3, <2>1, NobodyWhenWriting DEF TryWrite, GiveLease
    <3>2. gate'[t] = FreshGate /\ pc'[t] = "use"
      BY <1>3, <1>9, <2>1 DEF TryWrite, GiveLease, Gates
    <3>3. QED
      BY <3>1, <3>2 DEF Calm, FreshGate
  <2>2. CASE ~CanWrite(t)
    BY <1>3, <2>2 DEF TryWrite, Calm, leases, gates
  <2>3. QED
    BY <2>1, <2>2
<1>4. CASE ReleaseRead(t) \/ ReleaseWrite(t)
  <2>1. mode'[t] = "none" /\ \A u \in Threads \ {t} : mode'[u] = mode[u] /\ pc'[u] = pc[u]
    BY <1>4 DEF ReleaseRead, ReleaseWrite, DropLease
  <2>2. \A u \in Threads \ {t} : gate'[u] = gate[u]
    BY <1>4 DEF ReleaseRead, ReleaseWrite, gates, Gates
  <2>3. QED
    BY <2>1, <2>2 DEF Calm
<1>5. CASE Load(t)
  <2>1. UNCHANGED <<mode, gate>> /\ \A u \in Threads \ {t} : pc'[u] = pc[u]
    BY <1>5 DEF Load, gates
  <2>2. mode[t] = "write" => pc'[t] = "use"
    BY <1>5 DEF Load, Calm, OwnGates
  <2>3. QED
    BY <2>1, <2>2 DEF Calm
<1>6. CASE Exchange(t) \/ WakeLock(t) \/ WakeNotify(t) \/ SpuriousWakeup(t)
  <2>1. mode[t] = "write" => SpuriousWakeup(t)
    BY <1>6 DEF Exchange, WakeLock, WakeNotify, Calm
  <2>2. UNCHANGED mode /\ \A u \in Threads \ {t} : pc'[u] = pc[u]
    BY <1>6 DEF Exchange, WakeLock, WakeNotify, SpuriousWakeup, ReturnStopped, leases
  <2>3. \A g \in Gates : gate'[g].valid = gate[g].valid
    BY <1>6 DEF Exchange, WakeLock, WakeNotify, SpuriousWakeup, gates
  <2>4. SpuriousWakeup(t) => UNCHANGED pc
    BY DEF SpuriousWakeup
  <2>5. QED
    BY <2>1, <2>2, <2>3, <2>4 DEF Calm, Gates
<1>7. QED
  BY <1>0, <1>1, <1>2, <1>3, <1>4, <1>5, <1>6 DEF Grants, Releases, Polls

-----------------------------------------------------------------------------
(* The first preemption: one immediate-write, no readers, and writers that *)
(* pause rather than quit.  A second one may find the ack of the first, or *)
(* resume the writer below another: hazards of owner.hpp.                  *)

Preempting == Readers = {} /\ Quitters = {} /\ MaxImmediates <= 1

(* The requests of the immediate-write on its way: waiting for the ack of  *)
(* the active writer, or anything up to its release.                       *)
Asks(t)     == pc[t] \in {"a_wait", "a_block"}
Preempts(t) == Asks(t) \/ pc[t] = "d_wait" \/ mode[t] = "immediate"
Asking      == \E t \in Threads : Asks(t)

(* There is one immediate-write, and once the writer acked nothing comes   *)
(* between that and its grant.                                             *)
OnePreempts ==
  \A t \in Threads :
    /\ pc[t] # "r_wait" /\ mode[t] # "read"
    /\ Preempts(t) => issued = 1 /\ \A u \in Threads : Preempts(u) => u = t
    /\ pc[t] = "d_wait" => mtx = t /\ ~writer /\ ~immediate
    /\ mode[t] = "immediate" => immediate

ImmediateStands ==
  immediate => ~writer /\ \E t \in Threads : mode[t] = "immediate"

(* writer_gate_ names the one write lease, active or suspended.            *)
TheWriter ==
  /\ ~(writer /\ suspended)
  /\ writer \/ suspended => writerGate # NoThread /\ mode[writerGate] = "write"
  /\ \A t \in Threads : mode[t] = "write" => (writer \/ suspended) /\ writerGate = t

(* The active writer's gate is closed for somebody who waits for the ack,  *)
(* and acked only by a writer that is about to pause.                      *)
Active ==
  writer =>
    /\ ~gate[writerGate].valid => Asking
    /\ gate[writerGate].valid /\ (Asking \/ issued = 0) =>
         pc[writerGate] = "use" /\ ~gate[writerGate].acked
    /\ ~gate[writerGate].valid /\ gate[writerGate].acked => pc[writerGate] # "use"

Paused == suspended => pc[writerGate] # "use" /\ ~gate[writerGate].valid

SoleImmediate == OnePreempts /\ ImmediateStands /\ TheWriter /\ Active /\ Paused

LEMMA InitSole == Init => SoleImmediate
  BY DEF Init, SoleImmediate, OnePreempts, ImmediateStands, TheWriter, Active, Paused, Preempts, Asks

LEMMA NoReaders ==
  ASSUME Preempting, Typed, OnePreempts
  PROVE  /\ readers = 0 /\ Upgraders = {}
         /\ \A t \in Threads : ~CallRead(t) /\ ~TryRead(t) /\ ~ReleaseRead(t)
<1>1. Reading = {}
  BY DEF OnePreempts, Reading
<1>2. QED
  BY <1>1, FS_EmptySet, OwnerAssumption
     DEF Typed, Counted, Preempting, CallRead, TryRead, ReleaseRead, OnePreempts

LEMMA RequestsSole ==
  ASSUME Preempting, Typed, OwnGates, SoleImmediate, NEW t \in Threads,
         CallWrite(t) \/ CallImmediate(t)
  PROVE  SoleImmediate'
<1> USE DEF Typed, TypeOK, Goto
<1>0. Generations \cap Threads = {} /\ readGate \in Generations /\ NoThread \notin Threads
  BY OwnerAssumption DEF Gates
<1>1. CASE CallWrite(t)
  <2>1. /\ UNCHANGED <<writer, suspended, immediate, writerGate, issued, mode>>
        /\ pc[t] = "idle" /\ pc' = [pc EXCEPT ![t] = "w_wait"] /\ mtx = NoThread
    BY <1>1, NoReaders DEF CallWrite, flags, leases, SoleImmediate
  <2>2. \A u \in Threads : gate'[u] = gate[u]
    BY <1>0, <1>1 DEF CallWrite, Yield, Gates
  <2>3. \A u \in Threads : Asks(u)' <=> Asks(u)
    BY <2>1 DEF Asks
  <2>4. \A u \in Threads : Preempts(u)' <=> Preempts(u)
    BY <2>1, <2>3 DEF Preempts
  <2>5. \A u \in Threads : pc[u] # "d_wait"
    BY <1>0, <2>1 DEF SoleImmediate, OnePreempts
  <2>6. OnePreempts'
    BY <2>1, <2>4, <2>5 DEF SoleImmediate, OnePreempts
  <2>7. ImmediateStands' /\ TheWriter'
    BY <2>1 DEF SoleImmediate, ImmediateStands, TheWriter
  <2>8. writer \/ suspended => writerGate \in Threads /\ writerGate # t
    BY <2>1 DEF SoleImmediate, TheWriter, Phases
  <2>9. Active' /\ Paused'
    BY <2>1, <2>2, <2>3, <2>8 DEF SoleImmediate, Active, Paused, Asking
  <2>10. QED
    BY <2>6, <2>7, <2>9 DEF SoleImmediate
<1>2. CASE CallImmediate(t)
  <2>1. issued = 0 /\ issued' = 1
    BY <1>2, OwnerAssumption DEF CallImmediate, Preempting
  <2>2. \A u \in Threads : ~Preempts(u)
    BY <2>1 DEF SoleImmediate, OnePreempts
  <2>3. UNCHANGED <<writer, suspended, immediate, writerGate, mode>> /\ ~immediate /\ mode[t] = "none"
    BY <1>2, <2>2 DEF CallImmediate, flags, leases, SoleImmediate, ImmediateStands, Preempts, Phases
  <2>4. mtx' = t /\ \E l \in {"a_wait", "d_wait"} :
          pc' = [pc EXCEPT ![t] = l] /\ (l = "a_wait" <=> writer)
    BY <1>2 DEF CallImmediate, BeginDrain
  <2>5. OnePreempts'
    BY <2>1, <2>2, <2>3, <2>4 DEF SoleImmediate, OnePreempts, Preempts, Asks
  <2>6. ImmediateStands' /\ TheWriter'
    BY <2>3 DEF SoleImmediate, ImmediateStands, TheWriter
  <2>7. writer \/ suspended => writerGate \in Threads /\ writerGate # t
    BY <2>3 DEF SoleImmediate, TheWriter
  <2>8. Paused'
    <3>1. suspended => ~writer /\ gate'[writerGate] = gate[writerGate] /\ pc'[writerGate] = pc[writerGate]
      BY <1>0, <1>2, <2>4, <2>7 DEF CallImmediate, BeginDrain, Yield, Gates, SoleImmediate, TheWriter
    <3>2. QED
      BY <2>3, <3>1 DEF SoleImmediate, Paused
  <2>9. Active'
    <3>1. writer => Asking' /\ ~gate'[writerGate].valid /\ gate'[writerGate].acked = gate[writerGate].acked
      BY <1>2, <2>4, <2>7 DEF CallImmediate, Yield, Gates, Asking, Asks
    <3>2. writer => ~gate[writerGate].acked
      BY <2>1, <2>2 DEF SoleImmediate, Active, Asking, Preempts
    <3>3. QED
      BY <2>3, <3>1, <3>2 DEF Active
  <2>10. QED
    BY <2>5, <2>6, <2>8, <2>9 DEF SoleImmediate
<1>3. QED
  BY <1>1, <1>2

LEMMA WritesSole ==
  ASSUME Preempting, Typed, OwnGates, SoleImmediate, NEW t \in Threads,
         TryWrite(t) \/ ReleaseWrite(t)
  PROVE  SoleImmediate'
<1> USE DEF Typed, TypeOK, Goto
<1>0. Generations \cap Threads = {} /\ NextGeneration \in Generations /\ NoThread \notin Threads
  BY OwnerAssumption, NextGenerationType DEF Gates
<1>1. CASE TryWrite(t)
  <2>1. CASE CanWrite(t)
    <3>1. /\ ~writer /\ ~suspended /\ ~immediate /\ writer' /\ writerGate' = t
          /\ UNCHANGED <<suspended, immediate, issued>>
          /\ pc[t] = "w_wait" /\ pc' = [pc EXCEPT ![t] = "use"] /\ mode' = [mode EXCEPT ![t] = "write"]
      BY <1>1, <2>1 DEF TryWrite, CanWrite, GiveLease
    <3>2. gate'[t] = FreshGate
      BY <1>0, <1>1, <2>1 DEF TryWrite, Gates
    <3>3. \A u \in Threads : Asks(u)' <=> Asks(u)
      BY <3>1 DEF Asks
    <3>4. \A u \in Threads : Preempts(u)' => Preempts(u)
      BY <3>1, <3>3 DEF Preempts
    <3>5. \A u \in Threads : pc[u] # "d_wait"
      BY <1>0, <1>1, <3>1 DEF TryWrite, Locked, SoleImmediate, OnePreempts
    <3>6. OnePreempts'
      BY <3>1, <3>4, <3>5 DEF SoleImmediate, OnePreempts
    <3>7. ImmediateStands' /\ TheWriter'
      BY <1>0, <3>1 DEF SoleImmediate, ImmediateStands, TheWriter
    <3>8. Active' /\ Paused'
      BY <3>1, <3>2 DEF Active, Paused, FreshGate
    <3>9. QED
      BY <3>6, <3>7, <3>8 DEF SoleImmediate
  <2>2. CASE ~CanWrite(t)
    <3>1. UNCHANGED <<flags, gates, pc, leases, issued>> /\ Locked(t) /\ pc[t] = "w_wait"
      BY <1>1, <2>2 DEF TryWrite, flags, gates
    <3>2. \A u \in Threads : pc[u] # "d_wait"
      BY <1>0, <3>1 DEF Locked, SoleImmediate, OnePreempts
    <3>3. QED
      BY <3>1, <3>2 DEF SoleImmediate, OnePreempts, ImmediateStands, TheWriter, Active, Paused,
           Asking, Preempts, Asks, flags, gates, leases
  <2>3. QED
    BY <2>1, <2>2
<1>2. CASE ReleaseWrite(t)
  <2>1. mode[t] = "write" /\ pc[t] = "use" /\ mtx = NoThread
    BY <1>2 DEF ReleaseWrite, Preempting
  <2>2. writer /\ ~suspended /\ ~immediate /\ writerGate = t
    BY <2>1 DEF SoleImmediate, TheWriter, Paused, ImmediateStands
  <2>3. /\ ~writer' /\ UNCHANGED <<suspended, immediate, issued>>
        /\ pc' = [pc EXCEPT ![t] = "idle"] /\ mode' = [mode EXCEPT ![t] = "none"]
    BY <1>2 DEF ReleaseWrite, DropLease
  <2>4. \A u \in Threads : pc[u] # "d_wait"
    BY <1>0, <2>1 DEF SoleImmediate, OnePreempts
  <2>5. OnePreempts'
    BY <2>1, <2>3, <2>4 DEF SoleImmediate, OnePreempts, Preempts, Asks
  <2>6. QED
    BY <2>1, <2>2, <2>3, <2>5
       DEF SoleImmediate, ImmediateStands, TheWriter, Active, Paused
<1>3. QED
  BY <1>1, <1>2

LEMMA ImmediatesSole ==
  ASSUME Preempting, Typed, OwnGates, SoleImmediate, NEW t \in Threads,
         CheckAck(t) \/ BlockForAck(t) \/ TryImmediate(t) \/ ReleaseImmediate(t)
  PROVE  SoleImmediate'
<1> USE DEF Typed, TypeOK, Goto
<1>0. /\ Generations \cap Threads = {} /\ NextGeneration \in Generations
      /\ readGate \in Generations /\ NoThread \notin Threads
  BY OwnerAssumption, NextGenerationType DEF Gates
<1>1. Preempts(t)
  BY DEF CheckAck, BlockForAck, TryImmediate, ReleaseImmediate, Preempts, Asks
<1>2. issued = 1 /\ \A u \in Threads : Preempts(u) => u = t
  BY <1>1 DEF SoleImmediate, OnePreempts
<1>3. \A u \in Threads \ {t} : ~Asks(u) /\ pc[u] # "d_wait" /\ mode[u] # "immediate"
  BY <1>2 DEF Preempts
<1>4. writer \/ suspended => writerGate \in Threads /\ mode[writerGate] = "write" /\ writerGate # t
  BY <1>1 DEF SoleImmediate, TheWriter, Preempts, Asks, Phases
<1>5. mode[t] # "immediate" => ~immediate
  BY <1>3 DEF SoleImmediate, ImmediateStands
<1>6. CASE CheckAck(t) /\ Acked
  <2>1. /\ pc[t] = "a_wait" /\ pc' = [pc EXCEPT ![t] = "d_wait"] /\ mtx' = t
        /\ UNCHANGED <<immediate, writerGate, issued, mode>>
        /\ suspended' = (suspended \/ writer) /\ ~writer'
    BY <1>6 DEF CheckAck, BeginDrain, leases
  <2>2. mode[t] = "none" /\ ~immediate
    BY <1>5, <2>1 DEF Phases
  <2>3. \A u \in Threads : gate'[u] = gate[u]
    BY <1>0, <1>6 DEF CheckAck, BeginDrain, Yield, Gates
  <2>4. writer => ~gate[writerGate].valid /\ pc[writerGate] # "use"
    BY <1>6, <2>1 DEF Acked, SoleImmediate, Active, Asking, Asks
  <2>5. OnePreempts'
    BY <1>2, <1>3, <2>1, <2>2 DEF SoleImmediate, OnePreempts, Preempts, Asks
  <2>6. ImmediateStands' /\ TheWriter' /\ Active'
    BY <2>1, <2>2 DEF SoleImmediate, ImmediateStands, TheWriter, Active
  <2>7. Paused'
    BY <1>4, <2>1, <2>3, <2>4 DEF SoleImmediate, Paused
  <2>8. QED
    BY <2>5, <2>6, <2>7 DEF SoleImmediate
<1>7. CASE (CheckAck(t) /\ ~Acked) \/ BlockForAck(t)
  <2>1. /\ Asks(t) /\ \E l \in {"a_wait", "a_block"} : pc' = [pc EXCEPT ![t] = l]
        /\ UNCHANGED <<writer, suspended, immediate, writerGate, issued, mode, gate>>
    BY <1>7 DEF CheckAck, BlockForAck, leases, flags, gates, Asks
  <2>2. \A u \in Threads : Asks(u)' <=> Asks(u)
    BY <2>1 DEF Asks
  <2>3. \A u \in Threads : Preempts(u)' <=> Preempts(u)
    BY <2>1, <2>2 DEF Preempts, Asks
  <2>4. \A u \in Threads : pc'[u] # "d_wait"
    BY <1>3, <2>1 DEF Asks
  <2>5. OnePreempts'
    BY <2>1, <2>3, <2>4 DEF SoleImmediate, OnePreempts
  <2>6. ImmediateStands' /\ TheWriter'
    BY <2>1 DEF SoleImmediate, ImmediateStands, TheWriter
  <2>7. Active' /\ Paused'
    BY <1>4, <2>1, <2>2 DEF SoleImmediate, Active, Paused, Asking
  <2>8. QED
    BY <2>5, <2>6, <2>7 DEF SoleImmediate
<1>8. CASE TryImmediate(t)
  <2>1. pc[t] = "d_wait" /\ ~writer /\ ~immediate /\ CanImmediate
    BY <1>8, NoReaders DEF TryImmediate, SoleImmediate, OnePreempts, CanImmediate
  <2>2. /\ immediate' /\ pc' = [pc EXCEPT ![t] = "use"] /\ mode' = [mode EXCEPT ![t] = "immediate"]
        /\ UNCHANGED <<writer, suspended, writerGate, issued>>
    BY <1>8, <2>1 DEF TryImmediate, GiveLease
  <2>3. \A u \in Threads \ {t} : gate'[u] = gate[u]
    BY <1>0, <1>8, <2>1 DEF TryImmediate, Gates
  <2>4. OnePreempts'
    BY <1>2, <1>3, <2>1, <2>2 DEF SoleImmediate, OnePreempts, Preempts, Asks
  <2>5. ImmediateStands' /\ Active'
    BY <2>1, <2>2 DEF ImmediateStands, Active
  <2>6. TheWriter'
    BY <1>4, <2>1, <2>2 DEF SoleImmediate, TheWriter
  <2>7. Paused'
    BY <1>4, <2>2, <2>3 DEF SoleImmediate, Paused
  <2>8. QED
    BY <2>4, <2>5, <2>6, <2>7 DEF SoleImmediate
<1>9. CASE ReleaseImmediate(t)
  <2>1. mode[t] = "immediate" /\ immediate /\ ~writer
    BY <1>9 DEF ReleaseImmediate, SoleImmediate, OnePreempts, ImmediateStands
  <2>2. /\ ~immediate' /\ pc' = [pc EXCEPT ![t] = "idle"] /\ mode' = [mode EXCEPT ![t] = "none"]
        /\ writer' = suspended /\ ~suspended' /\ UNCHANGED <<writerGate, issued>>
    BY <1>9, <2>1 DEF ReleaseImmediate, Resume, DropLease
  <2>3. suspended => gate'[writerGate] = FreshGate
    BY <1>4, <1>9 DEF ReleaseImmediate, Resume, SoleImmediate, TheWriter, Gates
  <2>4. \A u \in Threads : ~Asks(u)' /\ ~Preempts(u)' /\ pc'[u] # "d_wait" /\ mode'[u] # "immediate"
    BY <1>3, <2>2 DEF Preempts, Asks
  <2>5. OnePreempts' /\ ImmediateStands' /\ Paused'
    BY <2>2, <2>4 DEF SoleImmediate, OnePreempts, ImmediateStands, Paused
  <2>6. TheWriter'
    BY <1>4, <2>1, <2>2 DEF SoleImmediate, TheWriter
  <2>7. Active'
    BY <1>2, <2>2, <2>3, <2>4 DEF Active, Asking, FreshGate
  <2>8. QED
    BY <2>5, <2>6, <2>7 DEF SoleImmediate
<1>10. QED
  BY <1>6, <1>7, <1>8, <1>9

LEMMA PollsSole ==
  ASSUME Preempting, Typed, OwnGates, SoleImmediate, NEW t \in Threads,
         Polls(t) \/ SpuriousWakeup(t)
  PROVE  SoleImmediate'
<1> USE DEF Typed, TypeOK, Goto
<1>1. UNCHANGED <<mtx, writer, suspended, immediate, writerGate, issued, mode>>
  BY DEF Polls, Load, Exchange, WakeLock, WakeNotify, SpuriousWakeup, lock, flags, gates, leases
<1>2. /\ \A u \in Threads \ {t} : pc'[u] = pc[u]
      /\ pc'[t] # pc[t] => pc[t] \in {"use", "xchg", "wake", "notify", "stopped"}
                           /\ pc'[t] \in {"use", "xchg", "wake", "notify", "stopped"}
  BY DEF Polls, Load, Exchange, WakeLock, WakeNotify, SpuriousWakeup, ReturnStopped
<1>3. \A u \in Threads : Asks(u)' <=> Asks(u)
  BY <1>2 DEF Asks
<1>4. \A u \in Threads : (Preempts(u)' <=> Preempts(u)) /\ (pc'[u] = "d_wait" <=> pc[u] = "d_wait")
  BY <1>1, <1>2, <1>3 DEF Preempts
<1>5. OnePreempts'
  BY <1>1, <1>2, <1>4 DEF SoleImmediate, OnePreempts
<1>6. ImmediateStands' /\ TheWriter'
  BY <1>1 DEF SoleImmediate, ImmediateStands, TheWriter
<1>7. writer \/ suspended => writerGate \in Threads /\ mode[writerGate] = "write"
                             /\ leaseGate[writerGate] = writerGate
  BY DEF SoleImmediate, TheWriter, OwnGates
<1>8. \A g \in Gates : gate'[g].valid = gate[g].valid
  BY DEF Polls, Load, Exchange, WakeLock, WakeNotify, SpuriousWakeup, gates
<1>9. Paused'
  <2>1. suspended /\ t = writerGate => pc'[t] # "use" \/ pc'[t] = pc[t]
    BY <1>7 DEF Polls, Load, Exchange, WakeLock, WakeNotify, SpuriousWakeup, ReturnStopped,
         SoleImmediate, Paused
  <2>2. QED
    BY <1>1, <1>2, <1>7, <1>8, <2>1 DEF SoleImmediate, Paused, Gates
<1>10. Active'
  <2> SUFFICES ASSUME writer PROVE Active'
    BY <1>1 DEF Active
  <2>1. CASE Exchange(t) /\ leaseGate[t] = writerGate
    <3>1. t = writerGate /\ pc[t] = "xchg" /\ pc'[t] # "use" /\ mode[t] = "write"
      <4>1. mode[t] # "none" /\ mode[t] # "read"
        BY <2>1 DEF Exchange, Phases, SoleImmediate, OnePreempts
      <4>2. leaseGate[t] = t
        BY <4>1 DEF OwnGates
      <4>3. QED
        BY <1>7, <2>1, <4>2 DEF Exchange, ReturnStopped
    <3>2. ~(gate[writerGate].valid /\ (Asking \/ issued = 0))
      BY <3>1 DEF SoleImmediate, Active
    <3>3. QED
      BY <1>1, <1>3, <1>7, <1>8, <3>1, <3>2 DEF SoleImmediate, Active, Asking, Gates
  <2>2. CASE ~(Exchange(t) /\ leaseGate[t] = writerGate)
    <3>1. gate'[writerGate] = gate[writerGate]
      BY <1>7, <2>2 DEF Polls, Load, Exchange, WakeLock, WakeNotify, SpuriousWakeup, gates, Gates
    <3>2. t = writerGate => (pc'[t] = "use" <=> pc[t] = "use") \/ Load(t)
      BY <1>7, <2>2 DEF Polls, Exchange, WakeLock, WakeNotify, SpuriousWakeup, ReturnStopped
    <3>3. t = writerGate /\ Load(t) => (pc'[t] = "use" <=> gate[t].valid)
      BY <1>7 DEF Load
    <3>4. QED
      BY <1>1, <1>2, <1>3, <1>7, <3>1, <3>2, <3>3 DEF SoleImmediate, Active, Asking
  <2>3. QED
    BY <2>1, <2>2
<1>11. QED
  BY <1>5, <1>6, <1>9, <1>10 DEF SoleImmediate

LEMMA StepSole ==
  ASSUME Preempting, Typed, OwnGates, SoleImmediate, NEW t \in Threads,
         Grants(t) \/ Releases(t) \/ Polls(t) \/ SpuriousWakeup(t)
  PROVE  SoleImmediate'
<1>1. ~CallRead(t) /\ ~TryRead(t) /\ ~ReleaseRead(t)
  BY NoReaders DEF SoleImmediate
<1>2. QED
  BY <1>1, RequestsSole, WritesSole, ImmediatesSole, PollsSole DEF Grants, Releases

-----------------------------------------------------------------------------
(* The refinement                                                          *)

(* What the promise asks of the coordinator's state: nobody holds what a   *)
(* grant excludes, a writer is stopped for somebody, and goes on after.    *)
Faithful(t) ==
  /\ CanWrite(t) /\ pc[t] = "w_wait" => \A u \in Threads : mode[u] = "none"
  /\ CanRead => \A u \in Threads : mode[u] \notin {"write", "immediate"}
  /\ CanImmediate /\ pc[t] = "d_wait" =>
       \A u \in Threads : mode[u] \in {"none", "write"} /\ (mode[u] = "write" => pc[u] # "use")
  /\ mode[t] = "write" /\ t \in Quitters => pc[t] = "use"
  /\ mode[t] = "write" /\ pc[t] = "use" /\ ~gate[t].valid =>
       \E u \in Threads : Asks(u) \/ pc[u] = "d_wait"
  /\ mode[t] = "write" /\ gate[t].valid => \A u \in Threads : mode[u] # "immediate"

LEMMA SoundIsFaithful ==
  ASSUME Sound, Typed, Exclusion, OwnGates, Immediates = {} => Calm, NEW t \in Threads
  PROVE  Faithful(t)
<1>1. CanWrite(t) /\ pc[t] = "w_wait" => \A u \in Threads : mode[u] = "none"
  BY NobodyWhenWriting
<1>2. CanRead => \A u \in Threads : mode[u] \notin {"write", "immediate"}
  BY NoWriteWhenReading
<1>3. CanImmediate /\ pc[t] = "d_wait" => \A u \in Threads : mode[u] = "none"
  BY NobodyWhenImmediate DEF Exclusion, Roles
<1>4. mode[t] = "write" => Immediates = {} /\ pc[t] = "use" /\ gate[t].valid
  BY DEF Sound, Exclusion, Roles, Calm
<1>5. Immediates = {} => \A u \in Threads : mode[u] # "immediate"
  BY DEF Exclusion, Roles
<1>6. QED
  BY <1>1, <1>2, <1>3, <1>4, <1>5 DEF Faithful

LEMMA PreemptingIsFaithful ==
  ASSUME Preempting, Typed, SoleImmediate, NEW t \in Threads
  PROVE  Faithful(t)
<1> USE DEF SoleImmediate, Typed, TypeOK
<1>0. \A u \in Threads : mode[u] \in {"none", "write", "immediate"}
  BY DEF OnePreempts
<1>1. ~writer /\ ~suspended => \A u \in Threads : mode[u] # "write"
  BY DEF TheWriter
<1>2. ~immediate => \A u \in Threads : mode[u] # "immediate"
  BY DEF OnePreempts
<1>3. CanImmediate /\ pc[t] = "d_wait" =>
        \A u \in Threads : mode[u] \in {"none", "write"} /\ (mode[u] = "write" => pc[u] # "use")
  BY <1>0, <1>2 DEF CanImmediate, OnePreempts, TheWriter, Paused
<1>4. mode[t] = "write" /\ pc[t] = "use" /\ ~gate[t].valid => Asking
  BY DEF TheWriter, Paused, Active
<1>5. mode[t] = "write" /\ gate[t].valid => \A u \in Threads : mode[u] # "immediate"
  BY <1>2 DEF TheWriter, Paused, ImmediateStands
<1>6. QED
  BY <1>0, <1>1, <1>2, <1>3, <1>4, <1>5 DEF Faithful, CanWrite, CanRead, Asking, Preempting

(* The views change where t's state does.                                  *)
LEMMA LineKept ==
  ASSUME UNCHANGED queue
  PROVE  UNCHANGED Promise!line
<1>1. prioView' = prioView
  BY DEF prioView, queue
<1>2. \A t \in Threads : Ahead(t)' = Ahead(t)
  BY DEF Ahead, ServedBefore, queue
<1>3. aheadView' = aheadView
  BY <1>2 DEF aheadView
<1>4. QED
  BY <1>1, <1>3 DEF Promise!line

LEMMA HeldBecomes ==
  ASSUME NEW t \in Threads, NEW k, Held(t)' = k, \A u \in Threads \ {t} : Held(u)' = Held(u)
  PROVE  heldView' = [heldView EXCEPT ![t] = k]
  BY DEF heldView

LEMMA AskedBecomes ==
  ASSUME NEW t \in Threads, NEW k, Asked(t)' = k, \A u \in Threads \ {t} : Asked(u)' = Asked(u)
  PROVE  askedView' = [askedView EXCEPT ![t] = k]
  BY DEF askedView

LEMMA HeldKept ==
  ASSUME NEW t \in Threads, Held(t)' = Held(t), \A u \in Threads \ {t} : Held(u)' = Held(u)
  PROVE  heldView' = heldView
  BY DEF heldView

LEMMA AskedKept ==
  ASSUME NEW t \in Threads, Asked(t)' = Asked(t), \A u \in Threads \ {t} : Asked(u)' = Asked(u)
  PROVE  askedView' = askedView
  BY DEF askedView

(* A step of t leaves the views of the others alone.                       *)
LEMMA OthersKept ==
  ASSUME Typed, NEW t \in Threads, Grants(t) \/ Releases(t) \/ Polls(t) \/ SpuriousWakeup(t)
  PROVE  \A u \in Threads \ {t} :
           pc'[u] = pc[u] /\ mode'[u] = mode[u] /\ Held(u)' = Held(u) /\ Asked(u)' = Asked(u)
<1>1. \A u \in Threads \ {t} : pc'[u] = pc[u]
  BY DEF Typed, TypeOK, Grants, Releases, Polls, CallRead, TryRead, CallWrite, TryWrite, CallImmediate,
         CheckAck, BlockForAck, TryImmediate, ReleaseRead, ReleaseWrite, ReleaseImmediate, Load,
         Exchange, WakeLock, WakeNotify, SpuriousWakeup, GiveLease, DropLease, BeginDrain,
         ReturnStopped, Goto
<1>2. \A u \in Threads \ {t} : mode'[u] = mode[u]
  BY DEF Typed, TypeOK, Grants, Releases, Polls, CallRead, TryRead, CallWrite, TryWrite, CallImmediate,
         CheckAck, BlockForAck, TryImmediate, ReleaseRead, ReleaseWrite, ReleaseImmediate, Load,
         Exchange, WakeLock, WakeNotify, SpuriousWakeup, GiveLease, DropLease, leases
<1>3. QED
  BY <1>1, <1>2 DEF Held, Asked

LEMMA InitPromised == Init => Promise!Init
<1> SUFFICES ASSUME Init PROVE Promise!Init
  OBVIOUS
<1>1. heldView = [t \in Threads |-> "none"] /\ askedView = [t \in Threads |-> "none"]
  BY DEF Init, heldView, askedView, Held, Asked
<1>2. prioView = [t \in Threads |-> 0]
  BY DEF Init, prioView, NoTicket
<1>3. aheadView = [t \in Threads |-> {}]
  BY DEF Init, aheadView, Ahead
<1>4. QED
  BY <1>1, <1>2, <1>3 DEF Promise!Init

(* Requests.                                                               *)
LEMMA RequestPromised ==
  ASSUME Typed, NEW t \in Threads, CallRead(t) \/ CallImmediate(t)
  PROVE  Promise!Ask(t, "read") \/ Promise!Ask(t, "immediate")
<1> USE DEF Typed, TypeOK, Goto
<1>0. \A u \in Threads \ {t} : Held(u)' = Held(u) /\ Asked(u)' = Asked(u)
  BY OthersKept DEF Grants
<1>1. UNCHANGED <<queue, mode>> /\ pc[t] = "idle" /\ mode[t] = "none"
  BY DEF CallRead, CallImmediate, leases, Phases
<1>2. Held(t) = "none" /\ Asked(t) = "none" /\ Held(t)' = "none"
  BY <1>1 DEF Held, Asked
<1>3. \E k \in {"read", "immediate"} : Asked(t)' = k
  BY DEF CallRead, CallImmediate, BeginDrain, Asked
<1>4. heldView[t] = "none" /\ askedView[t] = "none" /\ heldView' = heldView
  BY <1>0, <1>2, HeldKept DEF heldView, askedView
<1>5. \E k \in {"read", "immediate"} : askedView' = [askedView EXCEPT ![t] = k]
  BY <1>0, <1>3, AskedBecomes
<1>6. QED
  BY <1>1, <1>4, <1>5, LineKept DEF Promise!Ask

LEMMA PriorityType ==
  ASSUME Typed, NEW u \in Threads
  PROVE  ticket[u].prio \in Nat
<1>1. ticket[u] \in Ticket
  BY DEF Typed, TypeOK
<1>2. ticket[u].prio \in Priorities \cup {0}
  BY <1>1 DEF Ticket
<1>3. CASE ticket[u].prio = 0
  BY <1>3
<1>4. CASE ticket[u].prio \in Priorities
  BY <1>4, OwnerAssumption
<1>5. QED
  BY <1>2, <1>3, <1>4

LEMMA AtLeast ==
  ASSUME NEW p \in Nat, NEW q \in Nat
  PROVE  (p = q \/ p > q) <=> p >= q
  OBVIOUS

LEMMA WriteRequestPromised ==
  ASSUME Typed, Queued, NEW t \in Threads, CallWrite(t)
  PROVE  Promise!AskWrite(t)
<1> USE DEF Typed, TypeOK, Goto
<1>0. \A u \in Threads \ {t} : Held(u)' = Held(u) /\ Asked(u)' = Asked(u)
  BY OthersKept DEF Grants
<1>1. /\ UNCHANGED mode /\ pc[t] \in {"idle", "use"} /\ pc'[t] = "w_wait"
      /\ mode[t] \in {"none", "read"} /\ wq' = wq \cup {t} /\ t \notin wq
  BY DEF CallWrite, leases, Phases, Queued
<1>2. Held(t) \in {"none", "read"} /\ Asked(t) = "none" /\ Held(t)' = Held(t) /\ Asked(t)' = "write"
  BY <1>1 DEF Held, Asked
<1>3. /\ heldView[t] \in {"none", "read"} /\ askedView[t] = "none"
      /\ heldView' = heldView /\ askedView' = [askedView EXCEPT ![t] = "write"]
  BY <1>0, <1>2, HeldKept, AskedBecomes DEF heldView, askedView
<1>4. PICK p \in Priorities : ticket' = [ticket EXCEPT ![t] = [prio |-> p, before |-> wq]]
  BY DEF CallWrite
<1>5. /\ ticket'[t].prio = p /\ ticket'[t].before = wq
      /\ \A u \in Threads \ {t} : ticket'[u] = ticket[u]
  BY <1>4
<1>6. \A u \in Threads : u \in wq <=> askedView[u] = "write"
  BY DEF askedView, Asked, Queued
<1>7. prioView' = [prioView EXCEPT ![t] = p]
  BY <1>5 DEF prioView
<1>8. p \in Nat /\ \A u \in Threads : prioView[u] = ticket[u].prio /\ ticket[u].prio \in Nat
  BY PriorityType, OwnerAssumption DEF prioView
<1>9. Ahead(t)' = {v \in Threads : askedView[v] = "write" /\ prioView[v] >= p}
  <2>1. \A v \in wq : ServedBefore(v, t)' <=> ticket[v].prio >= p
    <3>1. \A v \in wq : ticket'[v] = ticket[v] /\ ticket[v].prio \in Nat /\ v \in ticket'[t].before
      BY <1>1, <1>5, <1>8
    <3>2. \A v \in wq : ServedBefore(v, t)' <=> ticket[v].prio = p \/ ticket[v].prio > p
      <4> SUFFICES ASSUME NEW v \in wq
                   PROVE  ServedBefore(v, t)' <=> ticket[v].prio = p \/ ticket[v].prio > p
        OBVIOUS
      <4>1. ServedBefore(v, t)' <=> IF ticket'[v].prio = ticket'[t].prio
                                    THEN v \in ticket'[t].before
                                    ELSE ticket'[v].prio > ticket'[t].prio
        BY DEF ServedBefore
      <4>2. QED
        BY <1>5, <3>1, <4>1
    <3>3. SUFFICES ASSUME NEW v \in wq
                   PROVE  ServedBefore(v, t)' <=> ticket[v].prio >= p
      OBVIOUS
    <3>4. ticket[v].prio \in Nat /\ p \in Nat
      BY <1>8, <3>1
    <3>5. QED
      BY <3>2, <3>4, AtLeast
  <2>2. QED
    BY <1>1, <1>6, <1>8, <2>1 DEF Ahead
<1>10. ASSUME NEW u \in Threads \ {t}, u \in wq
       PROVE  Ahead(u)' = IF prioView[u] < p THEN Ahead(u) \cup {t} ELSE Ahead(u)
  <2>1. ServedBefore(t, u)' <=> ticket[u].prio < p
    <3>1. t \notin ticket[u].before
      BY <1>1, <1>10 DEF Queued
    <3>2. QED
      BY <1>5, <1>8, <3>1 DEF ServedBefore
  <2>2. \A v \in wq : ServedBefore(v, u)' <=> ServedBefore(v, u)
    BY <1>1, <1>5 DEF ServedBefore
  <2>3. QED
    BY <1>1, <1>8, <1>10, <2>1, <2>2 DEF Ahead
<1>11. ASSUME NEW u \in Threads \ {t}, u \notin wq
       PROVE  Ahead(u)' = Ahead(u)
  BY <1>1, <1>11 DEF Ahead
<1>12. Promise!Join(t, p)
  <2> DEFINE new(u) == CASE u = t -> {v \in Promise!Waiting("write") : prioView[v] >= p}
                   [] u # t /\ askedView[u] = "write" /\ prioView[u] < p -> aheadView[u] \cup {t}
                   [] OTHER -> aheadView[u]
  <2>1. \A u \in Threads : Ahead(u)' = new(u)
    <3>1. Ahead(t)' = new(t)
      BY <1>9 DEF Promise!Waiting
    <3>2. ASSUME NEW u \in Threads \ {t} PROVE Ahead(u)' = new(u)
      BY <1>6, <1>10, <1>11 DEF aheadView
    <3>3. QED
      BY <3>1, <3>2
  <2>2. aheadView' = [u \in Threads |-> new(u)]
    BY <2>1 DEF aheadView
  <2>3. QED
    BY <1>7, <2>2 DEF Promise!Join
<1>13. QED
  BY <1>3, <1>12 DEF Promise!AskWrite

(* Grants.                                                                 *)
LEMMA ReadPromised ==
  ASSUME Typed, Queued, NEW t \in Threads, Faithful(t), TryRead(t), CanRead
  PROVE  Promise!GrantRead(t)
<1> USE DEF Typed, TypeOK, Goto
<1>0. \A u \in Threads \ {t} : Held(u)' = Held(u) /\ Asked(u)' = Asked(u)
  BY OthersKept DEF Grants
<1>1. pc[t] = "r_wait" /\ pc'[t] = "use" /\ mode'[t] = "read" /\ UNCHANGED queue
  BY DEF TryRead, GiveLease
<1>2. Asked(t) = "read" /\ Held(t)' = "read" /\ Asked(t)' = "none"
  BY <1>1 DEF Held, Asked
<1>3. \A u \in Threads : Held(u) \in {"none", "read"} /\ Asked(u) # "write"
  <2>1. \A u \in Threads : mode[u] \notin {"write", "immediate"} /\ pc[u] # "w_wait"
    BY DEF Faithful, CanRead, Queued
  <2>2. QED
    BY <2>1 DEF Held, Asked
<1>4. Promise!Holders({"write", "paused", "immediate"}) = {} /\ Promise!Waiting("write") = {}
  BY <1>3 DEF Promise!Holders, Promise!Waiting, heldView, askedView
<1>5. Promise!Give(t, "read")
  BY <1>0, <1>2, HeldBecomes, AskedBecomes DEF Promise!Give
<1>6. QED
  BY <1>1, <1>2, <1>4, <1>5, LineKept DEF Promise!GrantRead, askedView

LEMMA WritePromised ==
  ASSUME Typed, Queued, NEW t \in Threads, Faithful(t), TryWrite(t), CanWrite(t)
  PROVE  Promise!GrantWrite(t)
<1> USE DEF Typed, TypeOK, Goto
<1>0. \A u \in Threads \ {t} : Held(u)' = Held(u) /\ Asked(u)' = Asked(u)
  BY OthersKept DEF Grants
<1>1. pc[t] = "w_wait" /\ pc'[t] = "use" /\ mode'[t] = "write" /\ Pop(t)
  BY DEF TryWrite, GiveLease
<1>2. Asked(t) = "write" /\ Held(t)' = "write" /\ Asked(t)' = "none"
  BY <1>1 DEF Held, Asked
<1>3. \A u \in Threads : Held(u) = "none"
  BY <1>1 DEF Faithful, Held
<1>4. Promise!Holders({"read", "write", "paused", "immediate"}) = {}
  BY <1>3 DEF Promise!Holders, heldView
<1>5. Promise!Give(t, "write")
  BY <1>0, <1>2, HeldBecomes, AskedBecomes DEF Promise!Give
<1>6. aheadView[t] = {}
  <2>1. ASSUME NEW u \in wq \ {t} PROVE ~ServedBefore(u, t)
    <3>1. ServedBefore(t, u) /\ t \in wq
      BY DEF CanWrite, Top
    <3>2. t \in ticket[u].before <=> u \notin ticket[t].before
      BY <2>1, <3>1 DEF Queued
    <3>3. ticket[t].prio \in Nat /\ ticket[u].prio \in Nat
      BY PriorityType
    <3>4. QED
      BY <3>1, <3>2, <3>3 DEF ServedBefore
  <2>2. QED
    BY <2>1 DEF aheadView, Ahead
<1>7. /\ wq' = wq \ {t} /\ ticket'[t] = NoTicket
      /\ \A u \in Threads \ {t} : ticket'[u].prio = ticket[u].prio
                                  /\ ticket'[u].before = ticket[u].before \ {t}
  <2>1. wq' = wq \ {t} /\ ticket'[t] = NoTicket
    BY <1>1 DEF Pop
  <2>2. ASSUME NEW u \in Threads \ {t}
        PROVE  ticket'[u].prio = ticket[u].prio /\ ticket'[u].before = ticket[u].before \ {t}
    <3>1. ticket'[u] = [prio |-> ticket[u].prio, before |-> ticket[u].before \ {t}]
      BY <1>1, <2>2 DEF Pop
    <3>2. QED
      BY <3>1
  <2>3. QED
    BY <2>1, <2>2
<1>8. prioView' = [prioView EXCEPT ![t] = 0]
  <2>1. ticket'[t].prio = 0
    BY <1>7 DEF NoTicket
  <2>2. QED
    BY <1>7, <2>1 DEF prioView
<1>9. \A u \in Threads : Ahead(u)' = IF u = t THEN {} ELSE Ahead(u) \ {t}
  <2>1. Ahead(t)' = {}
    BY <1>7 DEF Ahead
  <2>2. ASSUME NEW u \in Threads \ {t} PROVE Ahead(u)' = Ahead(u) \ {t}
    <3>1. \A v \in wq \ {t} : ServedBefore(v, u)' <=> ServedBefore(v, u)
      BY <1>7 DEF ServedBefore
    <3>2. QED
      BY <1>7, <3>1 DEF Ahead
  <2>3. QED
    BY <2>1, <2>2
<1>10. aheadView' = [u \in Threads |-> IF u = t THEN {} ELSE aheadView[u] \ {t}]
  BY <1>9 DEF aheadView
<1>11. Promise!Leave(t)
  BY <1>8, <1>10 DEF Promise!Leave
<1>12. QED
  BY <1>2, <1>4, <1>5, <1>6, <1>11 DEF Promise!GrantWrite, askedView

LEMMA ImmediatePromised ==
  ASSUME Typed, NEW t \in Threads, Faithful(t), TryImmediate(t), CanImmediate
  PROVE  Promise!GrantImmediate(t)
<1> USE DEF Typed, TypeOK, Goto
<1>0. \A u \in Threads \ {t} : Held(u)' = Held(u) /\ Asked(u)' = Asked(u)
  BY OthersKept DEF Grants
<1>1. pc[t] = "d_wait" /\ pc'[t] = "use" /\ mode'[t] = "immediate" /\ UNCHANGED queue
  BY DEF TryImmediate, GiveLease
<1>2. Asked(t) = "immediate" /\ Held(t)' = "immediate" /\ Asked(t)' = "none"
  BY <1>1 DEF Held, Asked
<1>3. \A u \in Threads : Held(u) \in {"none", "paused"}
  BY <1>1 DEF Faithful, Held
<1>4. Promise!Holders({"read", "write", "immediate"}) = {}
  BY <1>3 DEF Promise!Holders, heldView
<1>5. Promise!Give(t, "immediate")
  BY <1>0, <1>2, HeldBecomes, AskedBecomes DEF Promise!Give
<1>6. QED
  BY <1>1, <1>2, <1>4, <1>5, LineKept DEF Promise!GrantImmediate, askedView

(* A thread that goes on waiting, or does what no caller sees.             *)
LEMMA UnseenPromised ==
  ASSUME Typed, NEW t \in Threads, Grants(t) \/ Releases(t) \/ Polls(t) \/ SpuriousWakeup(t),
         UNCHANGED queue, Held(t)' = Held(t), Asked(t)' = Asked(t)
  PROVE  UNCHANGED Promise!vars
  BY OthersKept, HeldKept, AskedKept, LineKept DEF Promise!vars

LEMMA WaitPromised ==
  ASSUME Typed, NEW t \in Threads,
         \/ CheckAck(t) \/ BlockForAck(t)
         \/ TryRead(t) /\ ~CanRead
         \/ TryWrite(t) /\ ~CanWrite(t)
         \/ TryImmediate(t) /\ ~CanImmediate
  PROVE  UNCHANGED Promise!vars
<1>1. UNCHANGED queue /\ UNCHANGED mode
  BY DEF CheckAck, BlockForAck, TryRead, TryWrite, TryImmediate, leases
<1>2. \/ pc'[t] = pc[t]
      \/ pc[t] \in {"a_wait", "a_block"} /\ pc'[t] \in {"a_wait", "a_block", "d_wait"}
  BY DEF CheckAck, BlockForAck, TryRead, TryWrite, TryImmediate, BeginDrain, Goto, Typed, TypeOK
<1>3. mode[t] = "write" => pc'[t] = pc[t]
  BY <1>2 DEF Typed, Phases
<1>4. Held(t)' = Held(t) /\ Asked(t)' = Asked(t)
  BY <1>1, <1>2, <1>3 DEF Held, Asked
<1>5. QED
  BY <1>1, <1>4, UnseenPromised DEF Grants

LEMMA ReleasePromised ==
  ASSUME Typed, NEW t \in Threads, Faithful(t), Releases(t)
  PROVE  Promise!Release(t)
<1> USE DEF Typed, TypeOK, Goto
<1>0. \A u \in Threads \ {t} : Held(u)' = Held(u) /\ Asked(u)' = Asked(u)
  BY OthersKept
<1>1. UNCHANGED queue /\ DropLease(t) /\ pc[t] \in {"use", "stopped"} /\ mode[t] # "none"
  BY DEF Releases, ReleaseRead, ReleaseWrite, ReleaseImmediate
<1>2. mode[t] = "write" => pc[t] = "use"
  BY DEF Releases, ReleaseRead, ReleaseWrite, ReleaseImmediate, Faithful
<1>3. pc'[t] = "idle" /\ mode'[t] = "none"
  BY <1>1 DEF DropLease
<1>4. Held(t) \in {"read", "write", "immediate"} /\ Asked(t) = "none"
  BY <1>1, <1>2 DEF Held, Asked
<1>5. Held(t)' = "none" /\ Asked(t)' = "none"
  BY <1>3 DEF Held, Asked
<1>6. heldView[t] = Held(t) /\ heldView' = [heldView EXCEPT ![t] = "none"] /\ askedView' = askedView
  BY <1>0, <1>4, <1>5, HeldBecomes, AskedKept DEF heldView
<1>7. QED
  BY <1>1, <1>4, <1>6, LineKept DEF Promise!Release

(* Polling valid(): a writer pauses when it sees its gate closed, and goes *)
(* on when it sees it open.                                                *)
LEMMA LoadPromised ==
  ASSUME Typed, OwnGates, NEW t \in Threads, Faithful(t), Load(t)
  PROVE  Promise!Pause(t) \/ Promise!GoOn(t) \/ UNCHANGED Promise!vars
<1> USE DEF Typed, TypeOK, Goto
<1>0. \A u \in Threads \ {t} : Held(u)' = Held(u) /\ Asked(u)' = Asked(u)
  BY OthersKept DEF Polls
<1>1. UNCHANGED queue /\ UNCHANGED mode /\ pc[t] \in {"use", "stopped"} /\ pc'[t] \in {"use", "xchg"}
  BY DEF Load
<1>2. Asked(t)' = Asked(t) /\ askedView' = askedView
  <2>1. Asked(t)' = Asked(t)
    BY <1>1 DEF Asked
  <2>2. QED
    BY <1>0, <2>1, AskedKept
<1>3. CASE mode[t] # "write"
  <2>1. Held(t)' = Held(t)
    BY <1>1, <1>3 DEF Held
  <2>2. QED
    BY <1>1, <1>2, <2>1, UnseenPromised DEF Polls
<1>4. CASE mode[t] = "write" /\ pc[t] = "use" /\ pc'[t] = "xchg"
  <2>1. ~gate[t].valid
    BY <1>4 DEF Load, OwnGates
  <2>2. PICK u \in Threads : Asks(u) \/ pc[u] = "d_wait"
    BY <1>4, <2>1 DEF Faithful
  <2>3. Promise!Waiting("immediate") # {}
    BY <2>2 DEF Promise!Waiting, askedView, Asked, Asks
  <2>4. Held(t) = "write" /\ Held(t)' = "paused"
    BY <1>1, <1>4 DEF Held
  <2>5. heldView[t] = "write" /\ heldView' = [heldView EXCEPT ![t] = "paused"]
    BY <1>0, <2>4, HeldBecomes DEF heldView
  <2>6. QED
    BY <1>1, <1>2, <2>3, <2>5, LineKept DEF Promise!Pause
<1>5. CASE mode[t] = "write" /\ pc[t] = "stopped" /\ pc'[t] = "use"
  <2>1. gate[t].valid
    BY <1>5 DEF Load, OwnGates
  <2>2. \A u \in Threads : mode[u] # "immediate"
    BY <1>5, <2>1 DEF Faithful
  <2>3. Promise!Holders({"immediate"}) = {}
    BY <2>2 DEF Promise!Holders, heldView, Held
  <2>4. Held(t) = "paused" /\ Held(t)' = "write"
    BY <1>1, <1>5 DEF Held
  <2>5. heldView[t] = "paused" /\ heldView' = [heldView EXCEPT ![t] = "write"]
    BY <1>0, <2>4, HeldBecomes DEF heldView
  <2>6. QED
    BY <1>1, <1>2, <2>3, <2>5, LineKept DEF Promise!GoOn
<1>6. CASE mode[t] = "write" /\ (pc[t] = "use" <=> pc'[t] = "use")
  <2>1. Held(t)' = Held(t)
    BY <1>1, <1>6 DEF Held
  <2>2. QED
    BY <1>1, <1>2, <2>1, UnseenPromised DEF Polls
<1>7. QED
  BY <1>1, <1>3, <1>4, <1>5, <1>6

LEMMA WakePromised ==
  ASSUME Typed, NEW t \in Threads,
         Exchange(t) \/ WakeLock(t) \/ WakeNotify(t) \/ SpuriousWakeup(t)
  PROVE  UNCHANGED Promise!vars
<1>1. UNCHANGED queue /\ UNCHANGED mode
  BY DEF Exchange, WakeLock, WakeNotify, SpuriousWakeup, leases
<1>2. \/ pc'[t] = pc[t]
      \/ pc[t] \in {"xchg", "wake", "notify"} /\ pc'[t] \in {"wake", "notify", "stopped"}
  BY DEF Exchange, WakeLock, WakeNotify, SpuriousWakeup, ReturnStopped, Goto, Typed, TypeOK
<1>3. Held(t)' = Held(t) /\ Asked(t)' = Asked(t)
  BY <1>1, <1>2 DEF Held, Asked
<1>4. QED
  BY <1>1, <1>3, UnseenPromised DEF Polls

LEMMA StepPromised ==
  ASSUME Typed, Queued, OwnGates, \A u \in Threads : Faithful(u), NEW t \in Threads,
         Grants(t) \/ Releases(t) \/ Polls(t) \/ SpuriousWakeup(t)
  PROVE  [Promise!Next]_(Promise!vars)
<1>1. CASE Grants(t)
  <2>1. CASE CallRead(t) \/ CallImmediate(t)
    BY <2>1, RequestPromised DEF Promise!Next
  <2>2. CASE CallWrite(t)
    BY <2>2, WriteRequestPromised DEF Promise!Next
  <2>3. CASE TryRead(t)
    BY <2>3, ReadPromised, WaitPromised DEF Promise!Next
  <2>4. CASE TryWrite(t)
    BY <2>4, WritePromised, WaitPromised DEF Promise!Next
  <2>5. CASE TryImmediate(t)
    BY <2>5, ImmediatePromised, WaitPromised DEF Promise!Next
  <2>6. CASE CheckAck(t) \/ BlockForAck(t)
    BY <2>6, WaitPromised
  <2>7. QED
    BY <1>1, <2>1, <2>2, <2>3, <2>4, <2>5, <2>6 DEF Grants
<1>2. CASE Releases(t)
  BY <1>2, ReleasePromised DEF Promise!Next
<1>3. CASE Polls(t) \/ SpuriousWakeup(t)
  BY <1>3, LoadPromised, WakePromised DEF Promise!Next, Polls
<1>4. QED
  BY <1>1, <1>2, <1>3

LEMMA StutterPromised ==
  ASSUME UNCHANGED vars
  PROVE  UNCHANGED Promise!vars
<1>1. UNCHANGED queue /\ UNCHANGED <<pc, mode>>
  BY DEF vars, leases
<1>2. \A t \in Threads : Held(t)' = Held(t) /\ Asked(t)' = Asked(t)
  BY <1>1 DEF Held, Asked
<1>3. heldView' = heldView /\ askedView' = askedView
  BY <1>2 DEF heldView, askedView
<1>4. QED
  BY <1>1, <1>3, LineKept DEF Promise!vars

(* The invariant, as far as each use of an Owner goes.                     *)
Coordinated ==
  /\ Typed /\ Queued /\ OwnGates
  /\ Sound => Exclusion
  /\ Immediates = {} => Calm
  /\ Preempting => SoleImmediate

LEMMA InitCoordinated == Init => Coordinated
  BY InitTyped, InitQueued, InitOwnGates, InitExclusion, InitCalm, InitSole DEF Coordinated

LEMMA StepCoordinated == Coordinated /\ [Next]_vars => Coordinated'
<1>1. Coordinated /\ UNCHANGED vars => Coordinated'
  <2> SUFFICES ASSUME Coordinated, UNCHANGED vars PROVE Coordinated'
    OBVIOUS
  <2>1. Typed'
    BY StutterTyped DEF Coordinated
  <2>2. Queued' /\ OwnGates'
    BY DEF Coordinated, Queued, OwnGates, vars, queue, leases
  <2>3. Sound => Exclusion'
    BY DEF Coordinated, Exclusion, Roles, Covered, Alone, vars, flags, leases
  <2>4. Immediates = {} => Calm'
    BY DEF Coordinated, Calm, vars, gates, leases
  <2>5. Preempting => SoleImmediate'
    BY DEF Coordinated, SoleImmediate, OnePreempts, ImmediateStands, TheWriter, Active, Paused,
           Asking, Preempts, Asks, vars, lock, flags, gates, leases
  <2>6. QED
    BY <2>1, <2>2, <2>3, <2>4, <2>5 DEF Coordinated, Sound, Preempting
<1>2. ASSUME Coordinated, NEW t \in Threads, Next,
             Grants(t) \/ Releases(t) \/ Polls(t) \/ SpuriousWakeup(t)
      PROVE  Coordinated'
  <2>1. Typed' /\ Queued' /\ OwnGates'
    BY <1>2, StepTyped, StepQueued, StepOwnGates DEF Coordinated
  <2>2. Sound => Exclusion'
    BY <1>2, StepExclusive DEF Coordinated
  <2>3. Immediates = {} => Calm'
    BY <1>2, StepCalm DEF Coordinated, Sound
  <2>4. Preempting => SoleImmediate'
    BY <1>2, StepSole DEF Coordinated
  <2>5. QED
    BY <2>1, <2>2, <2>3, <2>4 DEF Coordinated, Sound, Preempting
<1>3. QED
  BY <1>1, <1>2 DEF Next

LEMMA CoordinatedIsFaithful ==
  ASSUME Sound \/ Preempting, Coordinated, NEW t \in Threads
  PROVE  Faithful(t)
  BY SoundIsFaithful, PreemptingIsFaithful DEF Coordinated

(* One preemption: exclusion, and the writer that paused.                  *)
LEMMA SoleExcludes ==
  ASSUME Typed, SoleImmediate
  PROVE  ExclusiveAccess /\ ResumeFindsTheWriter
<1> USE DEF Typed, TypeOK, SoleImmediate
<1>1. ExclusiveAccess
  <2> SUFFICES ASSUME NEW t \in Threads, NEW u \in Threads, t # u, MayTouch(t), MayTouch(u)
               PROVE  FALSE
    BY DEF ExclusiveAccess
  <2>1. /\ pc[t] = "use" /\ mode[t] \in {"write", "immediate"}
        /\ pc[u] = "use" /\ mode[u] \in {"write", "immediate"}
    BY DEF MayTouch, OnePreempts
  <2>2. ~(mode[t] = "write" /\ mode[u] = "write")
    BY DEF TheWriter
  <2>3. ~(mode[t] = "immediate" /\ mode[u] = "immediate")
    BY DEF OnePreempts, Preempts
  <2>4. \A v \in Threads : mode[v] = "write" /\ pc[v] = "use" => ~immediate
    BY DEF TheWriter, Paused, ImmediateStands
  <2>5. QED
    BY <2>1, <2>2, <2>3, <2>4 DEF OnePreempts
<1>2. ResumeFindsTheWriter
  BY DEF ResumeFindsTheWriter, Crashed, TheWriter
<1>3. QED
  BY <1>1, <1>2

(* Readers share, a writer is exclusive (owner.hpp, the guarantees), for   *)
(* any number of threads, as long as queued writes and immediate-writes    *)
(* do not meet on one owner, or meet once and without readers.             *)
THEOREM MutualExclusion ==
  ASSUME Sound \/ Preempting
  PROVE  Spec => []ExclusiveAccess
<1>1. Coordinated => ExclusiveAccess
  BY ExclusionExcludes, SoleExcludes DEF Coordinated
<1>2. QED
  BY InitCoordinated, StepCoordinated, <1>1, PTL DEF Spec

(* A preempted writer goes on only after the immediate-write, which finds  *)
(* it again when it releases (release_immediate, DESIGN.md).               *)
THEOREM PreemptionReturns ==
  ASSUME Preempting
  PROVE  Spec => PreemptedStaysPaused /\ []ResumeFindsTheWriter
<1>1. ASSUME Coordinated, Next, NEW w \in Threads, NEW i \in Threads,
             mode[w] = "write", pc[w] = "stopped", mode[i] = "immediate"
      PROVE  pc'[w] # "use"
  <2>1. ~gate[w].valid
    BY <1>1, CoordinatedIsFaithful DEF Faithful
  <2>2. leaseGate[w] = w
    BY <1>1 DEF Coordinated, OwnGates
  <2>3. PICK t \in Threads : Grants(t) \/ Releases(t) \/ Polls(t) \/ SpuriousWakeup(t)
    BY <1>1 DEF Next
  <2>4. CASE t # w
    BY <1>1, <2>3, <2>4, OthersKept DEF Coordinated
  <2>5. CASE t = w
    BY <1>1, <2>1, <2>2, <2>3, <2>5
       DEF Coordinated, Typed, TypeOK, Grants, Releases, Polls, CallRead, TryRead, CallWrite, TryWrite,
           CallImmediate, CheckAck, BlockForAck, TryImmediate, ReleaseRead, ReleaseWrite,
           ReleaseImmediate, Load, Exchange, WakeLock, WakeNotify, SpuriousWakeup, DropLease, Goto
  <2>6. QED
    BY <2>4, <2>5
<1>2. Coordinated /\ [Next]_vars =>
        [\A w, i \in Threads :
           mode[w] = "write" /\ pc[w] = "stopped" /\ mode[i] = "immediate" => pc'[w] # "use"]_vars
  BY <1>1
<1>3. Coordinated => ResumeFindsTheWriter
  BY SoleExcludes DEF Coordinated
<1>4. QED
  BY InitCoordinated, StepCoordinated, <1>2, <1>3, PTL DEF Spec, PreemptedStaysPaused

(* Every step of the coordinator is a step of the lease service, or one no *)
(* caller sees (owner.hpp, the guarantees): for any readers and writers,   *)
(* for any readers and immediate-writes, and for writers preempted once.   *)
THEOREM LeasesImplemented ==
  ASSUME Sound \/ Preempting
  PROVE  Spec => ImplementsLeases
<1>1. Coordinated /\ [Next]_vars => [Promise!Next]_(Promise!vars)
  <2> SUFFICES ASSUME Coordinated, [Next]_vars PROVE [Promise!Next]_(Promise!vars)
    OBVIOUS
  <2>1. \A t \in Threads : Faithful(t)
    BY CoordinatedIsFaithful
  <2>2. CASE UNCHANGED vars
    BY <2>2, StutterPromised
  <2>3. CASE Next
    BY <2>1, <2>3, StepPromised DEF Next, Coordinated
  <2>4. QED
    BY <2>2, <2>3
<1>2. QED
  BY InitCoordinated, StepCoordinated, InitPromised, <1>1, PTL
     DEF Spec, ImplementsLeases, Promise!Spec

=============================================================================
