# Verification of cheatah

cheatah is a small language: a compiler (`purrc`) that translates programs to C++ modules, a host
that loads and runs a module, a package manager (`biome`), and a standard library. This directory
models it in TLA+: the parts whose correctness depends on *order* - threads, preemption, streams cut
at any byte, files rewritten under a reader - as state machines, and the parts that are pure
algorithms - scanner, parser, code generator, regular expressions, parsers of data, curves,
certificates, arrays - as operators beside a reference definition. TLC checks the models on small
instances; TLAPS proves the theorems for every value of the constants. Paths below are relative to
`src/`.

`PROJECT.json` maps every definition to the source lines it stands for, lists the runs, the hazards
each property is for, and a faulty variant of the code that each property catches; the variants
stand in the modules before the operator they replace and are used nowhere else.

Reading order: `Owner`, `Leases`, `OwnerProofs`; `Thread`, `ThreadProofs`; `WebSocket`,
`WebSocketProofs`; `Tls`, `TlsProofs`, `TlsHandshakeProofs`; `Requests`, `RequestsProofs`; `Files`, `Biome`,
`Purrc`, `Integrity`, `Toolchain`, `ToolchainProofs`; `Lexer`, `Parser`, `Spelling`,
`Codegen`, `Meaning` with their `MC` modules; `Regex` and `RegexLanguage`, `Json` and `JsonText`,
`Markup` and `MarkupText`, `Ec`, `Curve25519`, `X509` and `X509Text`; `Ndarray` and `Numpy`, `NdarrayProofs`. Where two
modules stand together the first is the code and the second what it is for; `Ec` and `Curve25519` end
with their references.

## 1. Inventory

| Component | State it keeps | Operations | Talks to | What is hard | What makes it correct |
|---|---|---|---|---|---|
| **memory**: `Owner<T>`, `Lease` (`stdlib/memory`) | one mutex, one condition variable, `readers_`, `writer_`, `writer_suspended_`, `immediate_`, the write queue, the gates (two atomics each) | `rread`, `rwrite<p>`, `rwrite<immediate>`, the three releases, `valid()` | any number of threads | preemption acked outside the mutex; gates reused for ever; several predicates on one condition variable | exclusion, drain before write, priority order, no lost wakeup, a preempted writer resumes |
| **thread** (`stdlib/thread`) | a `std::thread` and a shared error slot per handle | `spawn`, move, move-assign, `join`, destroy | the host, which unloads the program after `main` | handles owned by other workers; exceptions that may surface at two places | one owner per thread; every exception surfaces once; all joined before unload |
| **websocket** (`stdlib/websocket`) | read buffer and parse position, `closed`; reassembly in locals | `connect`, `send_text`, `recv`, `shutdown`, `close` | tls or socket below; a hostile peer | frames cut anywhere, control frames inside messages, exceptions in the middle, wake-up by another thread | whole messages in order; pings answered; one close; bounded buffer; `recv` returns |
| **tls** (`stdlib/tls/tls.cpp`) | process-wide registry under one mutex; per session keys, record sequence numbers, `read_buffer`, `app_pending`, `closed` | two handshakes, `send`, `recv`, `shutdown`, `close` | socket; certificates; other sessions through the mutex | transcripts over split flights; bytes read too far; `close` sends under the mutex; time-outs inside a record | both ends derive the same keys and count the same records; what is read is what was sent; an end that looks orderly is one |
| **X.509, RSA** (`stdlib/tls/*.hpp`) | none between calls | decode, validate a chain, verify a signature | tls | nested lengths, which key verifies what, paddings | a chain is trusted exactly when it is a path to an anchor |
| **socket** (`stdlib/socket`) | descriptors, move-only guards | `send`, `sendall`, `recv`, `shutdown`, `accept`, `connect` | the kernel | partial sends, time-outs reported as end of stream | no descriptor leaked or closed twice |
| **requests** (`stdlib/requests`) | locals of one call: socket, session, response, history | `request` and its shorthands | socket, tls, url | framing, a stream cut anywhere, chains of redirects | a body is whole or an error is set; secrets stay home; the call returns |
| **biome** (`pkg-manager/biome.purr`) | `cheatah.toml`, the generated `CMakeLists.txt`, `build/` | `init`, `add`, `remove`, `configure`, `build` | cmake, purrc | non-atomic writes of two files, crashes in between | the build file follows the manifest |
| **purrc** (`compiler/purrc.cpp`) | the files it writes | emit a library, build a program, sign | the C++ compiler, the host | many outputs, none replaced atomically, read by the next build | a library is of one piece; sidecars belong to their module |
| **runtime** (`runtime/integrity.cpp`, `runtime/main.cpp`) | trusted keys, descriptor of the module being verified | verify sidecars, check versions, load, run, unload | purrc's outputs, the dynamic linker | files replaced while they are examined; which check decides | what is loaded is what was verified |
| **compiler** (`lexer.cpp`, `parser.cpp`, `codegen.cpp`) | tokens, syntax tree, scope tables | scan, parse, generate | purrc, builtins | ambiguities, recovery, optimisations that move or drop evaluation | the tree is the program; its C++ does what it means |
| **regex** (`stdlib/regex`) | automata cached per pattern | `search`, `full_match`, `find` | - | skips learned from earlier texts | the answers are the language of the expression |
| **json, xml, html, url** (`stdlib/parsers`) | none between calls | parse, dump, typed read | requests | numbers at the edge of a fast path, stacks of open elements | what was written is read back |
| **curves** (`p256`, `p384`, `x25519`, `ed25519`) | none between calls | sign, verify, agree | tls | carries of the top limb, values next to the modulus | arithmetic is that of the field and the group |
| **ndarray, builtins** (`stdlib/ndarray`, `stdlib/builtins`) | buffers shared by views | views, arithmetic, slices | generated code | aliasing, reuse of temporaries, broadcasting | results are numpy's; nothing but the target changes |
| **fixarray, linalg, math, statistics; string, io, os, sys, time, datetime, random; aead, hashlib** | values | - | - | - | - |

`PROJECT.json` lists these with their files and says of each whether it is modelled.

## 2. The modules and the runs

| Part | Modules | Runs | Proved |
|---|---|---|---|
| 3. Coordinator | `Owner`, which refines `Leases` | `Owner_queue`, `Owner_preempt`, `Owner_served`, `Owner_drain_race` | types, exclusion, wakeups, drain, one preemption, the refinement of `Leases` |
| 4. Threads | `Thread` | `Thread` | types, ownership, surfacing, unload |
| 5. Streams | `WebSocket`, `Tls`, `Requests` and their `MC` modules | `WebSocket`, `Tls`, `Requests` | every safety property |
| 6. Toolchain | `Files`, `Biome`, `Purrc`, `Integrity`, composed in `Toolchain` | `Toolchain` | loads, libraries, sidecars and the generated build file |
| 7. Compiler | `Lexer`, `Parser`, `Codegen`; references `Spelling`, `Meaning`, in `MCLexer` and `MCParser`; composed in `MCCompiler` | `Compiler` | - |
| 8. Library | `Regex`, `Json`, `Markup`, `Ec`, `Curve25519`, `X509` and their references, composed in `MCLibrary`; `Ndarray`, `Numpy` | `Library`, `Ndarray` | of the arrays: no view leaves its buffer, nothing but the targets changes, every statement computes what it means |

Each run asks one question of one part. The pure algorithms are checked by machines whose only step
is to choose the next input: `MCLibrary` and `MCCompiler` put several of them side by side, with a
tag that says which one a behaviour feeds, and their properties say of every step what the operators
owe to the reference for the input it writes (action properties, because TLC's coverage statistics
unfold every operator an invariant reaches). Recursive operators occur in these modules only.

Every safety property the runs of parts 3 to 6 check is proved, under the conditions its section
names, and of the arrays all but `ReadsAgree`.

## 3. The coordinator: `Owner`

### State and steps

`Owner<T>` is a lock: threads ask for read, write or immediate-write leases and drop them; the
holder polls `valid()` and pauses or quits when it turns false.

| Model | Code |
|---|---|
| `mtx` | `mtx_`, the thread inside a critical section that has waited or will |
| `waitSet` | threads blocked in `cv_.wait`; `SpuriousWakeup` and every `notify_all` empty it in part or whole |
| `readers`, `writer`, `suspended`, `immediate` | the flags of the same names |
| `readGate`, `writerGate`, `gate` | the `shared_ptr<Gate>`s and the two atomics `valid` and `acked` of each |
| `wq`, `ticket` | `wq_`; an arrival number is represented by the set of requests queued before |
| `mode`, `leaseGate`, `fired`, `pc` | the lease in a thread's hands, its gate, its on-interrupt flag, and where in the code the thread is |

A critical section without a wait is one step. One with a wait is split at the wait: the part up to
it, then `Try...` steps that either pass the predicate or block. The predicate of the first wait of
`grant_immediate()` reads an atomic that is written without the mutex, so its evaluation and the
blocking are two steps (`CheckAck`, `BlockForAck`). `valid()` is a load, then an exchange, then -
for the first to ack - taking and releasing the mutex, then a notify: `Load`, `Exchange`,
`WakeLock`, `WakeNotify`.

Read gates alternate between two names. That is enough: a fresh gate is made only when a write or
immediate lease is granted, which needs `readers_ == 0`, so no read lease outlives its generation.

`Leases` states what callers are promised: who holds a lease, who asked, and for each waiting write
the writes that will be served before it - a new one joins behind those of its priority and above.
The end of `Owner` maps the coordinator to it: a writer anywhere inside `valid()` is *paused*, and what is
ahead of a request is what `ServedBefore` it in the queue.

### Runs

| Run | Instance | Shows |
|---|---|---|
| `Owner_queue` | 1 reader, 3 writers, 2 priorities | `TypeOK`, `ExclusiveAccess` and `DrainReachesReaders`, whatever order three writers at two priorities queue up in |
| `Owner_preempt` | 2 writers, 1 immediate-write, 2 priorities | `ImplementsLeases`: grants in the order of priority and arrival, and with preemption the writer has paused before the other begins, and goes on before the queue moves |
| `Owner_served` | 1 reader, 2 writers, 1 immediate-write, fairness | `NoLostWakeup`; `WriteServed`; `ImmediateServed`: the immediate-write is granted, and the writer it preempted finds its lease valid again |
| `Owner_drain_race` | 1 reader, 1 writer, 1 immediate-write | the disagreement of section 9 |

Bounds. Threads call again and again without a limit; only immediate-writes are counted
(`MaxImmediates`), and the passing runs have one at most: a second may meet the ack that the first
left behind, which section 9 shows to break exclusion. Three writers at two priorities are the least
for which arrival order within a priority and order between priorities can conflict. The refinement
is checked without readers, because with readers and immediate-writes together the code does not
refine `Leases`: that is what `Owner_drain_race` shows. `DrainReachesReaders` is checked without
immediate-writes, so it says nothing of the flip an immediate-write makes (`owner.hpp:205`), and
`WriteServed` with one priority, since writers of a higher one may keep a lower one waiting for ever.
`Upgraders` (readers that ask to write) and `Quitters` (writers that drop a stopped lease) are in no
run, since they may end in a legal standstill or crash; the theorems below cover them.

Fairness (`FairSpec`). Weak fairness of the steps inside critical sections and of a holder's polls:
the operating system runs a thread that can run. Strong fairness of `WakeLock`: a mutex is not taken
for ever from a thread that asks for it by waiters that wake up spuriously. Strong fairness of a
*stopped* reader's release and weak fairness of an immediate-write's release: the protocol the
module documents. Nothing is assumed of writers - they may spin on `valid()` for ever without
releasing - so `WriteServed` is conditional on writers that finish, and `ImmediateServed` is not.

### Proofs

`OwnerProofs` holds for any number of threads and any priorities.

* `TypeInvariant`. The inductive invariant `Typed` adds to `TypeOK` that `readers_` is the number of
  read leases (`Counted`) - without it `readers - 1` could leave the naturals - and which modes go
  with which places in the code (`Phases`).
* `MutualExclusion`: `ExclusiveAccess` under `Sound == Immediates = {} \/ Writers = {}`, or under
  `Preempting`: any number of writers and threads that write immediately, but no readers, no
  `Quitters` and one immediate-write in all. The assumptions are needed: `Owner_drain_race` refutes
  the formula with readers, and a second immediate-write can meet the ack that the first left in the
  gate and be let in beside the writer. `Exclusion` strengthens the formula for `Sound`: only the
  right threads wait for and hold each kind of lease (`Roles`), every write and immediate lease is
  covered by a flag (`Covered`), and whoever holds one holds the only lease (`Alone`).
  `SoleImmediate` does for `Preempting`: it follows the gate of the writer in charge through the
  request to stop, the ack and the resumption (`Active`, `Paused`).
* `PreemptionReturns`, for `Preempting`: the action property `PreemptedStaysPaused` and
  `ResumeFindsTheWriter` - a preempted writer goes on only after the immediate-write, whose release
  finds it where it was suspended.
* `LeasesImplemented`: `Spec => ImplementsLeases`, under `Sound` or `Preempting`. `Coordinated` joins
  the invariants above with `Queued` (the requests ahead of each other form one order, and a ticket
  names only requests in the queue), `OwnGates` (whose gate a lease polls) and `Calm` (without
  immediate-writes no writer is stopped). From it follows `Faithful`: when a predicate of the code
  lets a thread in, nobody holds what the promised grant excludes. Then each action is one promised
  step or none: calls are `Ask` and `Join`, passed predicates are grants, the load in `valid()` that
  sees the request is `Pause`, the wait that ends in `stopped` is `GoOn`.
* `WakeupsArrive`: `NoLostWakeup` without any assumption on the mixture. Everything
  that can make a predicate true notifies in the same step, except the ack. `Waking` adds who may be
  blocked where (`Blocking`), and `AckHeard`: an ack that arrives between a waiter's test and its
  blocking belongs to a holder still at `wake`, because that waiter has the mutex `Gate::wake` takes
  before it notifies. Without that lock the notify could fall into the gap, and the invariant fails.
* `DrainRequested`: `DrainReachesReaders` when there are no immediate-writes. `ReadersAsked` says that every
  read lease is of the present generation, and that its gate has yielded while a write is queued.

The constants' assumption is `OwnerAssumption`; TLC evaluates it in every run. Liveness is
model-checked, not proved.

## 4. Threads: `Thread`

`Slots` are the handle variables of `main` and one handle per worker closure (the one a movable
argument is moved into). `thread`, `state` are `t_` and `state_` of each handle; `error`, `observed`
the fields of `detail::State`; `phase` the worker. A call that joins is two steps, the commitment
(`CallJoin`, `CallAssign`, `CallDestroy`) and the return once the worker is done (`Join`, `Assign`,
`Destroy`), so that every other thread runs in between. `SpawnFails` is the closure that is destroyed
because the system gave no thread. `MainReturns` and `Unload` are the host: main's handles are
destroyed, then the program is unloaded. The report that `settle()` makes after its join is part of
the same step, because nobody else can read the slot then.

The run `Thread` has three workers and two handles in main: enough for a worker to own a worker that
owns a worker, for an assignment over a running thread, and for a handle that travels through two
closures. `SurfacedOnce`: an exception surfaces at most once, and the slot is not looked at before
the worker is done. `SoleOwner`: one live handle per unjoined thread. `UnloadIsSafe`: when main has
returned every worker is done and every exception has been seen. `Returns`: main's scope ends -
handles are moved into closures only before the worker starts, so nobody ends up waiting for itself.
Fairness: a worker's function ends however many calls it makes before (strong, it is the program's
promise), a join whose worker is done returns, and main's scope goes on ending. Deadlock is not
checked: the program ends.

### Proofs

`ThreadProofs` holds for any number of workers and handles. `Ownership` is `SoleOwner`, `Surfacing`
is `SurfacedOnce`, `UnloadSafe` is `UnloadIsSafe`, and the module also proves the types. None is
inductive: what a `join` may do
depends on who else can reach the handle. The invariant `IInv` therefore adds

* `Handled`: a dead handle holds nothing, no two handles share an error slot, and a handle that still
  has a slot but nothing to join belongs to a worker that is done - so what `settle()` reads after
  its join is final, also on a handle that was joined long before;
* `Owned`: a worker that is not done can be joined by a live handle;
* `Calling`: a call works on handles its own thread drives (or on the closure of a worker that could
  not be started), so no other thread moves a handle away while someone is blocked in its join;
* `Seen`: what a handle can still join has not been observed, so `join()` cannot rethrow what stderr
  has told.

For `UnloadSafe` `Tree` adds who waits for whom. `Rooted`: among any workers that are not done there
is one whose handle none of them owns - the owners form no cycle, said of sets so that a step changes
it by one edge and no induction over chains is needed. `Closures`: a closure lives as long as its
worker or the call that failed to start it, and a worker that ended destroys its own. `Pending`: an
exception nobody saw still has a handle. `Returned`: main is not in a call and has no handle left.
When main has returned, every worker that is not done would then be owned by another one, which
`Rooted` excludes; with no worker and no call left there is no handle, so no pending exception.
`Returns` is liveness and model-checked only.

## 5. Streams

### WebSocket sessions: `WebSocket`

The stream is cut into cells (head, extended length, mask key, payload); a read returns any number of
the cells that have arrived. `buf`, `pos`, `closed` are the session's fields, `message` is `recv()`'s
local reassembly buffer. `ensure()` is `Fill` (one round of its loop, with the compaction of the
consumed prefix) and `CutOff` (an empty read); parsing is `CheckHead` (the validations, before the
length is trusted) and `Process` (unmasking in place and the switch on the opcode, with the answers it
sends). `connect()` is `SendUpgrade`, `ReadUpgrade`, `UpgradeCutOff`; the connection below it is not
modelled here, a failure there leaves no session. The transport is a stream whose peer may leave at
any time and whose sends fail from then on or a little later. The thread that reads also sends;
another calls `shutdown()` at any time; the owner closes once the reader is joined - the protocol of
`websocket_lowlevel.hpp:129-139`. Because `recv()` treats the peer as hostile, frames come in any
order.

The run `WebSocket` takes every sequence of three frames out of nine: a text, a two-cell binary first
fragment, a continuation and a masked last one, a masked ping, a pong, a close, an oversized text and
an undefined opcode; a read returns one or two cells. Three frames are a fragmented message with
something in between, a message refused for its size (2 + 2 > 3), or whatever follows a refusal.
Five cells may wait in the buffer and the prefix is erased from two, so the compaction happens at
every alignment.

* `MessagesAreSound`: what `recv()` returns are whole messages of the server, unmasked, in order, each
  once, also after exceptions (`Genuine`, stated over the frames without buffer or parser); a message
  whose frames were all consumed was returned (`NothingLost`); a reused buffer stays smaller than one
  frame, one read and a small prefix (`BufferBounded`).
* `ControlAnswered`: pongs match the pings that were consumed, and there is one closing handshake.
* `StaysRefused`: after a refusal nothing behind the refused frame is delivered.
* `RecvReturns` (weak fairness of the reader's own steps): `recv()` comes back once a final frame
  was sent, the peer left, or `shutdown()` was called.

Masked frames occur among continuations and pings only. A server must not mask; a masked *data* frame
refused because it interrupts a fragmented message would be unmasked twice by a retry and delivered
garbled. A partial `send` on a plaintext socket (only a signal can cause one on a blocking socket) is
not modelled.

`WebSocketProofs` holds for any frames, lengths, limits, cuts of the stream and sizes of a read, under
`WebSocketAssumption` (the limits are naturals, and a control payload is no longer than a frame's). The
first two theorems also assume `DataUnmasked`, which `MCWebSocket` satisfies: no data frame is masked
(the paragraph above says what happens otherwise). Pongs do not depend on it; they share the invariant.

* `MessagesStaySound` is `MessagesAreSound`, and `ControlIsAnswered` is `ControlAnswered`. The invariant
  `Sound` says that some number `c` of frames is behind the reader. `Lies`: ahead of it, across the
  unread part of the buffer and what is on the wire, lie the cells of the frames behind the `c`-th, in
  order, the last of them possibly cut; the next one is as it was sent (`Pristine`) unless it is one
  that a retry refuses without looking at its payload (`Excused`), because a refused frame may have been
  unmasked already. `Told`: what was returned and what is being reassembled are the messages whose
  frames end at or before `c`, each once, and none is missing. `Ponged`: the pongs sent are those of
  the pings up to `c`. A step of the parser moves `c` by one or not at all; a read, a compaction and a
  throw leave `c` alone. The length of a message is a sum over its fragments, which `Size` computes
  with a recursive function; facts about it, and that a least frame with a property exists, come from
  the least element of a set of naturals (`LeastNat`).

* `RefusalStays` is `StaysRefused`. `Refusing` is what makes it so: after a refusal the refused frame
  is still the one under the parse position, reassembly is empty, and so much of the frame is in the
  buffer that the reader needs no other read to refuse it again. This needs that compaction and reads
  keep what is unread (`Compacted`, `Refilled`) and that unmasking in place keeps heads (`Unmasked`).
* `ClosedOnce` is `CloseOnce`: a close frame was sent only by a session that is closed or gone
  (`Closing`), and neither state is left.
* `BufferStaysBounded` is `BufferBounded`: a reader waits for a body only after its head was accepted
  (`Accepted`), so a starved one has less than one frame unread, and what lies before the parse
  position after a compaction is less than `CompactAt`.
* `TypeCorrect`. These four share one invariant, `IInv`, which also tells the upgrade response from the
  frames behind it (`Upgrading`, `Parsed`): the first parse position is that of the first frame,
  whatever part of it came with the response.

### TLS: `Tls`

Two ends of one process, under the one mutex of the registry. A record is two cells, header and
payload; a read returns any number of the cells the kernel holds (`Window`). A hash is the transcript
it is taken of and a key is a term of label, suite and transcript, so two ends have the same key
exactly when they hashed the same messages. `transcript`, `tx`, `rx` are the hashes and the two
`Keys`; `buf` is the handshake's buffer and then `read_buffer`; `pending` is `app_pending`. The
client's handshake reads record by record and drains messages from the reassembled bytes
(`TakeFlight`, `TakeMessage`); the server's sends its flight a record at a time (`SendFlight`). An end
sends or checks the last `Finished` and registers its session in one step: until it has taken the
mutex to register, nobody can name the session, and every call on it takes the same mutex first.
`send()` writes pieces of at most `MaxPlain`; a send may be cut (`SendCut`), a read may end or time
out, and `close()` takes the mutex in one step and sends and erases in the next.

`MCTls` gives four servers: this library's own, one that asks for a certificate, packs its flight
differently and updates its keys afterwards, one that never signs, and one whose chain the
client does not accept (`trusted` says that it does: it is a path to an anchor, or the caller passed
`insecure`). Messages are split in halves, so a record ends inside a message; `MaxPlain = 1` with
payloads of two makes every send two records; one byte per `recv()` leaves bytes pending; a window of
three cells puts one record and half of the next into the kernel, so every blocking order occurs.

* `OnlyFaultsHurt`: without a failed send or a time-out no handshake with a server that proves
  itself fails, in any cut of the flights, and with one that does not there is no session.
* `RecordsAreSound`: both ends use the same keys, the reader is behind by the records on the way, and
  what `recv()` returned is what the peer passed to `send()`, in order, without a gap.
* `OrderlyEndIsComplete`: a `close_notify` that is accepted comes after everything the peer said.
* `EofIsFinal`: once `recv()` has returned `""`, it returns no data again.
* `CallsReturn`: `recv()` comes back when either end shuts its socket down, `close()` with time-outs
  on the sockets.

`TlsProofs` holds for any servers, lengths, windows, read sizes and failures, under `TlsAssumption`
(sizes are positive). `DataIsGenuine` is the last part of `RecordsAreSound`, `OrderlyEndsAreComplete` is
`OrderlyEndIsComplete` and `EofStaysFinal` is `EofIsFinal`. The invariant is `SInv`: the shapes of buffers
and keys (`Shaped`), which labels a key has in which phase (`Phased`), what a session holds before and
after its life (`Reading`), and `Streams`. That one says of each direction that there is a map `P` from
the numbers of its records to places in the data: the writer's key stands at the end of `P`, the
reader's at a number where `P` is what it has read, and a record that arrives whole carries the data
from its own place to the next, an alert the end. A send that fails spends a number and moves the next
place past the data it dropped, so the reader's number stays behind for good and nothing authenticates
any more; this is why `AfterCut` must advance. That the two ends' keys are *equal* is not needed for
it: a reader whose key is another one accepts nothing. Nor does it matter what the servers are.

`TlsHandshakeProofs` adds `OnlyFaultsDoHurt` and `RecordsStaySound`, which are `OnlyFaultsHurt` and
`RecordsAreSound`, for servers that are `WellFormed` (`ServersAssumption`): the suite is one that was
offered, `Finished` ends the flight, `CertificateVerify` follows a `Certificate` at once, and the
records of the flight cut it into parts that are not empty - as RFC 8446 has it and this library's
server does (`tls.cpp:744-832`). Nothing bounds the flight or its cuts, and a chain may be trusted
or not. The invariant is `HInv`: for the server `s` of the behaviour

* the server alone determines every record of a handshake (`Opening`), because both transcripts are
  prefixes of its flight; a record under a handshake key is the one with its number (`Laden`);
* so where an end is in the code says what it has hashed and which keys it has, faults or not
  (`ClientAt`, `ServerAt`, together `Local`): the client has taken the first `k` messages and holds
  the halves behind them up to a record boundary (`Grasped`). Equal keys follow from this alone;
* as long as nothing has failed and the server proves itself (`Lockstep`), the cells on their way to an
  end are, in order, exactly the records after the last one it took and up to the last one its peer
  sent (`Lane`), so the record an end waits for is the one it finds. This needs what the
  sequence numbers alone do not say: that no cell is lost, and that an end that is down has settled.

`InStep` follows: the keys of an open session by `Local`, and without a fault the reader is behind by
the heads in its lane.

Fairness: the threads of the handshake, and of a call that has begun, run on; the program calls
`recv()` again while its session is open. A time-out is never assumed to happen. The documented
order - shut down, join the reader, close - is kept (`CallClose`).

### HTTP: `Requests`

One call of `request()` with its redirects: `call` holds the locals of the loop, `fd` and `conn` are
what is open, `raw` what `read_all` gathered. The servers answer with any of fourteen responses -
the three framings, with lengths that are right, too large for the limit or malformed, an endless
one, and redirects with good, bad, relative and missing targets - which arrive in pieces and may be
cut by a close or by silence at any token. Two hosts that redirect to each other and to themselves,
two redirects and a limit of five tokens are enough to return to the first host, to exceed the
bounds, and to end exactly on them.

`WholeOrError`: a body with a declared length is the whole body or an error is set. `SecretsStayHome`:
credentials reach no host but the first. `ChainIsSound`: the history is the chain that was followed,
at most `MaxRedirects` long. `Returns`: the call comes back with its descriptors closed, although the
servers cut, fall silent, send for ever or redirect in a circle - unless a server holds it in TLS.

Fairness is weak fairness of the call's own steps. The kernel bounds the connect, which comes before
the time-out is set (`requests.hpp:715`, `724`); the time-out bounds every single receive and send
after it. A receive over plain http delivers bytes, and bytes count towards the limit. Over https the
loops of the handshake and of `recv` go on without a bound when a record is one they ignore
(`tls.cpp:929`, `1298`, `1303`, `1320`), so a server that sends such a record in time, again and again, holds
the call: the action `Hold`, which any https server may take wherever it is waited for. `Returns` lets
a call end there and nowhere else.

`RequestsProofs` proves the three safety properties for any URLs, responses, limits and cuts under
`RequestsAssumption` (responses have their type, and a URL has a host): `BodiesAreWhole`,
`SecretsAreKept` and `ChainsAreSound`. `Arriving` says that what was gathered and what is still to come
are a prefix of one response's tokens, `Homely` that the host credentials belong to is fixed before
anything is sent. The decoder of chunks is a recursive function over positions; `BodiesAreWhole` needs
that it returns the units the server cut up whenever it returns no error, for any number of chunks. This
is an induction over data, made by taking the least position where it would fail (`LeastNat`).

## 6. Toolchain: `Biome`, `Purrc`, `Integrity`, composed in `Toolchain`

`Files` is the file system: `fs` holds what every file holds. A digest is the content it is of, a
signature the content and the key, so "verifies" means "is of the same content". Writing truncates
first (`Open`) and then fills (`WriteOut`), and either may fail; what the C++ compiler and the archiver
write replaces their output in one step.

* `Biome`: a command is the list of files it has to write, and then a run of cmake; it may be killed
  between any two steps, and any write may be lost, since `io.open` and `File.write` do not throw
  (`LoseText`). An `add` of what is there and a `remove` of what is not write nothing. A manifest is the
  set of extensions it names, and one that was truncated reads as the empty set. `tree` and `built`
  are what `build/` was configured with and compiled from; cmake brings the tree up to date with the
  build file before it compiles, and a configure that fails leaves an empty `build/` behind.
* `Purrc`: two processes, `lib` (emit the opaque library `m`) and `prog` (build a program that imports
  it). A run is the list of the steps it has left (`LibScript`, `ProgScript`, in the code's order); a
  step that fails empties it, and so does a kill, after which what was written stays. purrc sees a
  write that fails in `ofstream` before `write_file` returns, but not one that fails in the last flush
  (`purrc.cpp:185-190`), and `sign_output` does not look at what `write_checksum` returns
  (`purrc.cpp:336`): then the run goes on, and `lost` remembers the file (`Lose`, `Unread`, `WriteFails`).
  Verification of the imported library (`Verify`) tests for a sidecar and reads it later.
* `Integrity`: the host, from `sanitize_module_path` over `open_and_read` and the sidecars to the
  load, each file test and each read a step of its own. `Image` is what the dynamic linker maps: the
  verified descriptor where `/proc/self/fd` names it.

`Toolchain` interleaves the three over one file system. Bounds: four biome commands or edits of the
manifest; two runs of each purrc process with the flags of `MCToolchain` (unsigned; signed with a
runtime manifest; a key the host does not trust, on another toolchain); one edit of the library; one
load, strict or not. The constraint `Budget` bounds the sum of runs, edits, loads and lost writes of
purrc by four (two, once an emission and a build have overlapped), explores biome - which shares no
file with the others - alone, and lets the host run while no emission is under way. One write of
purrc is lost in a behaviour, where no two of its runs overlap; the writes of biome are lost freely.
The theorems have none of these bounds.

* `LoadedIsWhatWasChecked`: what runs is the image the host read the checksum of, although purrc
  rewrites the module under it; under strict, signed by a trusted key, with a manifest so signed.
* `LibraryIsSound`: a build that used the library and was alone with it never pairs the header of one
  emission with the archive of another, wherever an emission was killed and whatever it could not
  write; and every sidecar of an emission that ended well is of the artifact on disk and accepted, but
  for one whose own write failed unseen. That the comments promise more is in section 9.
* `NothingGoesStale`: a finished build leaves no sidecar that disagrees with its module among those it
  was asked for, but for one whose own write failed unseen; between biome's commands the build file
  differs from the manifest only if a command was killed, a write lost or the manifest edited by hand
  since biome last wrote or read it; and whatever happens, nothing is generated, configured or built
  but from a manifest that somebody saved. The drift after a crash is excused until a command writes
  again, because the same `add` a second time does nothing (`biome.purr:625`).

### Proofs

`ToolchainProofs` holds for any keys, flags, extensions and bounds on runs, under
`PurrcAssumption` and `ToolchainAssumption` (absence and emptiness differ from texts, flags name keys).

* `LoadsAreChecked` is `LoadedIsWhatWasChecked` where a load goes by descriptor (`FdBound`);
  `StrictLoadsAreSigned` is its strict half without that condition, because a strict host refuses a
  platform on which it could not load what it read. `Checked` collects what each step of the host may
  rely on; `SignaturesAreSigned` says that whatever stands where a signature belongs was signed, however
  purrc and the editor are interleaved with it.
* `LibraryStaysSound` is `LibraryIsSound`. What a run of purrc still has to do is a suffix of its script,
  so it stands at a numbered place (`Stands`, `Lists`), and what is on disk follows from the place
  (`LibFacts`, `ProgFacts`). A killed emission leaves files that no place accounts for. What those still
  have is an order of versions, `Dated`: a header that a checksum vouches for is not newer than the
  archive, and the archive not newer than the header. Lost writes keep it: a checksum that was not
  written is an older one or none, and so vouches for nothing newer. A header whose checksum fits therefore pins the
  archive to its own version. The pairing rests on this and on the order in which files are
  emitted alone; that the archive's own checksum fits is not used.
* `NothingStale` is `NothingGoesStale`: the sidecars from the same places, the build file from
  `DriftsHaveCauses` (`InStep`), and `OnlySavedIsBuilt` from what the files and `asked` hold at every step of
  a command (`BiomeSound`).

A library rewritten between `purrc`'s verification and the C++ compiler's reading (`purrc.cpp:1341`)
is excluded by `raced`: nothing in the code prevents it.

## 7. Compiler: `Lexer`, `Parser`, `Codegen`

One machine, `MCCompiler`, whose behaviours each feed one stage.

`Lexer` is the scanner over sequences of characters, with comments, nesting, raw C++ blocks and the
attachment of doc comments. `MCLexer` says what a lexeme is without scanning and cuts a text into the
longest ones. Inputs: all texts of up to three characters of an alphabet of eighteen, longer texts
put together from pieces of numbers and marks, raw blocks whose strings, characters and comments hold
braces, and files of up to five lines. `SourceIsRead`: the tokens are the longest lexemes, an error
is reported exactly when some text is no lexeme, a raw block is verbatim, and a declaration's
documentation is the comment run above it, the module's the first run of the file.

`Parser` has one operator per production, threading the state `s` (position, diagnostics, fuel) as
the code threads its cursor, recovery included. `Spelling` writes a syntax tree as tokens, with the
parentheses precedence asks for. Inputs: all expressions of two levels over nine binary operators,
unary and postfix forms, every kind of statement, and each of these with one token deleted, replaced
or inserted at any of the first twelve positions (`MaxTokens`). `ReadsWhatIsWritten`: the tree that was spelled comes back; and a damaged program that
is accepted without a diagnostic has all its words in the tree, in order; the parser always ends.

`Codegen` translates statements to the C++ it emits as a term, with the optimisations the code
applies on the way (dead `let`, self-append, in-place operators), keyword binding, the lowering of
`match`, `for`, `try`, `with`, records and slices; the run-time functions that C++ calls stand beside it.
`Meaning` is two interpreters: of the source (`Meant`) and of the emitted C++ (`Done`), both leaving a
trace of what was printed and how the program ended. Inputs: programs of two statements - simple, or
compound ones around one or two others - between a fixed prelude and a last print of every variable.
`MeansTheSame`: for well-formed programs outside the `Pitfalls` of section 9 the C++ compiles and the
two traces agree. Numbers wrap at `Wrap`; a loop is cut off after five turns; a prelude with a list, a
string, numbers, functions with defaults, a record and an enumeration makes two statements enough for
a use after a change. `Allowed` names the pitfalls a run would let in; it is empty.

## 8. Library

### Parsers, curves, certificates: `MCLibrary`

Each behaviour picks one input, and the property compares the code's operators with the reference on it;
only the regular expressions, whose patterns learn from text to text, have an invariant.

| Property | Code | Reference | Inputs |
|---|---|---|---|
| `AnswersAreTheLanguage` | `Regex`: parsing to a Thompson program, both automata, learned self-loops, literal scan, `search`, `full_match`, `find` | `RegexLanguage`: the spans a tree matches | every expression of three operators over five classes, the spellings of classes, and all strings of up to five of six characters; sequences of texts, so what one search learned serves the next; malformed sources |
| `JsonIsRead` | `Json`: tree parser, pool, numbers, strings, dump, typed reader | `JsonText`: RFC 8259 as ways to cut a text, and the nearest double by comparing them all | up to three pieces (brackets, digits, exponents, escapes, surrogates, keys) after the starts of `MCLibrary`, read as a tree and as its types; words of seven bits and doubles of five, so overflow, rounding, both ends of the range and the border of the fast path lie inside |
| `MarkupIsRead` | `Markup`: xml, html, references, url | `MarkupText`: the ways to write a tree, a token list or a URL | forests and pages in several styles (quotes, references, CDATA, implied closings, noise), arbitrary pieces, all combinations of URL parts, a query with a `/` among them |
| `SignaturesVerify` | `Ec`: limbs, Montgomery multiplication, complete addition, ladders, ECDSA, DER, the code's own self-checks of field and addition | its last part: arithmetic modulo p and n, multiples of G | two limbs of six bits, p = 4091, a curve of prime order 3989; the edges of field and order |
| `Curve25519IsAGroup` | `Curve25519`: carries, packing, both curves, reduction modulo L, X25519, Ed25519 | its last part: affine laws modulo 2^14 - 3 | three limbs of five bits; non-canonical values, clamped scalars, forged signatures, S at the order |
| `TrustIsAPath` | `X509`: DER, names, times, chain walk, PEM bundles, private keys (PKCS 8, SEC 1) and the credentials of a server, exponentiation, PKCS and PSS | `X509Text`: certificates as records, a path to an anchor, the encodings, which key a chain may be presented with | leap days and far years, extensions, names with wildcards, chains with forged, expired and misplaced members, six keys in every container beside a chain, every one-byte damage of a signature |

Scaling keeps what matters: a top limb with one bit less than the others (Curve25519), a modulus whose
size is not a whole number of bytes (RSA), an order below the prime, a curve with the coefficient -3.
Limbs, bytes and words are CONSTANTs: nothing in the operators depends on their size.

The doubles of `Json` are such a format: five bits of mantissa (`ExactMantissa`), thirteen exponents
(`MaxShift`) above a least magnitude of 1/256 (`PerOne`), no finer ones below it but with less precision,
as subnormals are. `FromChars` is `std::from_chars` where the library has it: it rounds to nearest,
ties to even, and refuses what overflows or underflows to zero, so the tree and the typed reader
refuse such a number although it is JSON (`scan.hpp:209-212`, `326-330`). `Scaled` is the fast path: two
exact doubles and one rounding. The reference rounds by comparing all doubles of the format. `dump`
writes the shortest digits that are read back, in fixed notation.

What `XmlTextIsRead` says of text that is no document: the tree is one, its walks are in document
order, and its visible texts are those that stand between the marks - where a `<` begins nothing,
what precedes it is delivered once more as a text of its own, which the reference states as the code
does it and section 9 lists. The URL parser takes a `/` in the query for the path's when there is none,
and loses what precedes it (`QueryRead`, `url.hpp:97-98`).

### Arrays: `Ndarray`, `Numpy`

`Ndarray` is a store: `arrays` maps a name to a view (buffer, shape, strides, offset), `heap` a buffer
to its elements, and each statement is an action - make, bind to a view or a copy, compute, update in
place, compute into, set an item, fill a slice. `Compute` has the reuse of an expiring left or right
operand; `Blocks` is how many elements a vectorised loop may read before it writes. What the code does
element by element - the products of a shape, the odometer, the loops that transform and copy - are
recursive functions over 0 .. n, so that the theorems can speak of them. `size()` throws on a product
past `SizeMax` wherever the code calls it, also for a view that was stretched to such a shape.
`ArraySpec` allows any program: every shape, bound, operand and element.

`Numpy` says what a statement means, without buffers. The run `Ndarray` takes programs of three
statements over two names, seven shapes (scalars, empty, one element, two dimensions) and six slices,
among them negative, empty and out-of-range ones; elements are modulo 7 with a not-a-number; products of
dimensions overflow at nine.

* `ViewsAreSound`: the heap holds elements only, and neither an index of an array nor a place of the
  block that a contiguous one is taken for lies outside its buffer, however it was sliced, stretched
  and copied before.
* `OnlyTargetsChange`: elements of other names change only where a statement writes by name or through
  a view that expires in it; an exception changes nothing.
* `ComputesTheBroadcast`: each statement leaves exactly the shape and the elements that it means -
  broadcasting, slicing, C order - and throws exactly when it means nothing. Each exemption is a
  behaviour of the code that the module names: an empty result may be refused, since the walk reads its first
  index before it looks whether there is one; a buffer that is reused for a single element keeps its
  shape (`Keeps`); cells that are written while they are still to be read, other than in step, may be
  read either way (`Overlap`, `Clobbers`), except that a single element is read once (`ReadOnce`); and
  assignment to a slice goes element by element, which an operand that overlaps it, or a destination with
  several indices for a cell (`Aliased`), can tell.
* `ReadsAgree`: `sum`, by lanes or by the walk, adds every element of every array once, and the nested
  text shows all of them in order, the abbreviated one the first and last of every long axis.

### Proofs

`NdarrayProofs` holds for `ArraySpec`, any names and any limits, under `NdarrayAssumption` (finitely many
names, and limits that are positive). `ViewsStaySound` is `ViewsAreSound`, `TargetsOnly` is
`OnlyTargetsChange` and `StatementsMean` is `ComputesTheBroadcast`. The invariant `IInv` is short: every array is a view in its buffer (`ViewIn`). The work is
in the operators, each with a lemma of its own, and all of them about a heap `h` rather than the state:

* *Layout.* The offsets of an index are sums of products (`OffsetsAre`), and products stay exact below the
  limit (`ExactPrefixes`), so the indices of a contiguous view are the block of `Size` places from its
  offset (`BlockBound`, `BlockIndex`): a fast path that takes it for a block reads no other cell.
* *Walk.* The odometer goes from an index to the one whose place in C order is the next (`NextPosition`)
  and stops at the last (`LastPosition`), so a walk has as many rounds as there are elements (`WalkIs`).
* *Views.* The cells of a slice and of a stretched view are cells of their source (`SliceIs`,
  `StretchIs`), whatever the bounds: a slice of no rows has no cell, even where its offset points past
  the end.
* *Writing.* `Changes(h, g, C)` says that `g` is `h` with more buffers and other elements in the cells `C`.
  A vectorised loop changes the cells of its destination (`TransformIs`), for every block size; an
  operation that allocates changes no cell of the old heap (`FreshForIs`, `CopiedIs`); one that reuses an
  operand changes that operand's (`CompoundIs`, `ReuseIs`), which is a view that expires or a buffer that
  is new (`OperandIs`).

`StatementsMean` adds what the operators compute, again one lemma each, as the relation `Gives(h, a, f)` between
a view in a heap and a function on indices, which every `Means` of `Numpy` is:

* *Places.* An index has one place in C order and a contiguous view one index for a cell (`WalkAt`,
  `RankInjective`), so a block and a walk list the same cells in the same order (`FlatIsWalked`), and a
  shape has as many indices as its product says (`CountIs`).
* *Views and copies.* A slice reads the rows between its bounds (`SliceAt`), a stretched view the index
  that broadcasting pulls back (`StretchAt`), a copy in C order the element at the same place
  (`InCOrderAt`, `CopyAt`); `OperandAt` joins them.
* *Loops.* A loop over places computes each element from the heap it began with, in blocks of any size,
  if no term reads a cell that the loop writes in an earlier block (`Behind`, `TransformAt`): a source that is
  apart from the destination, one that lies in step with it, or an element that was read once (`LoopSafe`).
  Every overload leads to such a loop, in place (`CompoundAt`), into an array (`IntoAt`), in a reused
  buffer with the operands exchanged (`ReuseAt`), or in a new one (`BinaryOpAt`).
* *Statements.* One lemma for each action; for an assignment to a slice, that the cells it goes through
  are different ones and none of them is still to be read (`Lands`, `CopyInAt`).

The attempt corrected three exemptions that TLC's bounds had hidden. An overlapping single
element was excused wherever the statement had two names, but add(out, a, b) over three names is not in step
when the other operand is walked; a slice assignment from an empty temporary was said to succeed where
the walk's `at()` throws; and an expiring operand that is not contiguous, whose buffer is never
reused, was excused for nothing.

The recursions run over the rounds of a loop; `Recursion` and `Counting` give the function and the
induction from the least number where it would fail.

## 9. Where the code disagrees with its own words

**`Owner_drain_race`** is a run that TLC must find violated: `owner.hpp:15` "a writer is exclusive".
The second wait of `grant_immediate()` (`owner.hpp:207`) does not test `writer_`: a queued writer
granted while the immediate-write waits for readers holds the object together with it.

The others have no run of their own. Where a property is named it stands in the module, and TLC
refutes it when it is added to a run with the constants given.

| Property (module) | Constants | What happens, and what it contradicts |
|---|---|---|
| `ExclusiveAccess` (`Owner`) | one writer, one immediate, `MaxImmediates = 2` | `valid()` loads the gate and acks in two steps; a resume between them clears `acked` first, and the late ack answers the *next* preemption. `lease.hpp:125` "exclusive" |
| `PreemptedStaysPaused` (`Owner`) | one writer, two immediates, `MaxImmediates = 2` | the first of two immediate-writes to finish resumes the writer below the second. `memory/DESIGN.md:250` "stack LIFO" |
| `ResumeFindsTheWriter` (`Owner`) | one writer that is a quitter, one immediate | a stopped writer's release clears `writer_gate_` but not `writer_suspended_`; the immediate-write's release dereferences null. `memory/DESIGN.md:135` "loop while (w.valid())" |
| `WakesQuietly` (`WebSocket`) | as `WebSocket.cfg`, `Spec` | a reader woken by `shutdown()` gets an exception. `websocket_lowlevel.hpp:130` "(half-closes the socket so recv returns \"\")" |
| `FailsTheConnection` (`WebSocket`) | as `WebSocket.cfg`, `Spec` | a data frame inside a fragmented message throws, and the next `recv()` delivers it. `websocket/README.md:62` "fails the connection" |
| `SessionsIndependent` (`Tls`) | `Servers <- OwnServer`, `Timeouts = FALSE` | `close()` sends with the registry locked; a peer in the same process that has to read first needs that mutex. `tls.hpp:130` "Separate sessions are independent" |
| `EmittedIsSealed` (`Toolchain`) | as `Toolchain.cfg` | `sign_output` (`purrc.cpp:336`) ignores that the checksum was not written, and no write that fails in the last flush is seen: an emission ends well without its checksum. `purrc.cpp:848` "The header always carries a checksum" |
| `BuildIsOfManifest` (`Toolchain`) | as `Toolchain.cfg` | `biome build` compiles the tree that `configure` left and regenerates nothing. `pkg-manager/README.md:77` |
| `TimeoutIsAnError` (`Requests`) | as `Requests.cfg` | a body framed by the end of the stream and cut by a time-out is returned with `error` "". `requests.hpp:122` |
| `OnlyLeadingComments` (`MCLexer`, named `L!` in `MCCompiler`) | as `Compiler.cfg` | a comment behind a raw C++ block counts as leading, because the block's token is noted at the line it starts on. `lexer.hpp:24` |
| `NoSurpriseMutation` (`Numpy`) | as `Ndarray.cfg` | `a[0:2] + 1.0` computes into the expiring view's buffer, which is `a`'s. `ndarray.hpp:1202` |

Observed while translating, each excluded from the inputs or from the property:

* Coordinator. `owner.hpp:22` says an immediate-write goes "ahead of the queue" once a writer that
  does not poll finishes, but the next queued writer may be granted first. Readers starve if writers
  alternate, which `policy.hpp:14` admits. A read lease's holder that asks to write waits for itself,
  which `owner.hpp:104` warns of and `DESIGN.md:233` denies.
* Requests. The size limit counts head bytes; `status_code` is set beside an error for a bad length;
  parameters are appended again at every hop; 303 on HEAD becomes GET; a downgrade to http on the same
  host keeps credentials; `chunked` is matched case-sensitively; 1xx is taken for the final response;
  an empty chunk size ends the body. Over https neither the handshake nor `recv` is bounded when the
  server keeps sending records that are ignored (`Hold`), and the connect has no time-out, against
  `requests.hpp:708` "connect/handshake/read are all bounded by the socket timeout".
* Toolchain. An empty `.sha512` is skipped by the host although `docs/security.md:135` says it is
  verified whenever present; a header without a sidecar counts as unsigned; `.rt` is not bound to its
  module; `add` after a crash says "already added" without regenerating; a crash while `cheatah.toml` is
  being written leaves it empty, and every later command takes that for a project without extensions;
  the generated build file says "Re-run `biome build`" regenerates it (`biome.purr:545`), which it does
  not; a failing backend leaves the implementation file behind.
* Code generator (the `Pitfalls`, against `docs/optimizations.md:11-13` "None of these transforms
  change observable behaviour"): a self-append keeps numbers as characters; an unread `let` is dropped
  with the error its value raises, or although it is assigned later; a `let` without a value is read
  through a null pointer when asked what it reads; `break` in a `match` that became a `switch` leaves
  only the switch; a kept `len` is unsigned; a range's end is computed before every turn; an argument
  named like a function is that function. Outside the modelled fragment: one-element list literals of
  a list collapse, duplicate labels of a switch, the last of several wildcards wins, `return` in a
  `finally`, `new` and `new_` collide, interface methods keep reserved names, `xs[i] = v` is unchecked,
  functions nested in a block vanish, and operands are evaluated in C++'s order.
* Parser. A type keeps only its last numeric size; `const` of an untyped parameter is dropped;
  interface methods cannot have the result type `ast.hpp` documents; `elif constexpr (c)` is a call;
  `except` must stand on the line of the `}`; `a < b > (c)` is a call.
* Regular expressions. A pattern that ends in `\$` loses the escaped `$`; `^` and `$` anchor the whole
  alternation; the learned skips are written without a lock, so one pattern may not be shared by
  threads.
* JSON. `float` and `long double` fields take `inf` and `nan`; leading zeros, raw control characters
  and a lone low surrogate are accepted; skipping a value does not tell brackets apart; integer fields
  refuse `1e2`; missing fields are no error, and the last duplicate wins.
* Markup. In xml the text before a `<` that begins nothing is delivered twice (`xml.cpp:223` "treat it
  as text"); any `/` in a tag's attributes closes it; in html an unquoted value takes the `/` and
  `</scriptx` ends a script; a URL whose query holds a `/` but which has no path loses the query
  (`url.hpp:19` "the path plus the original query").
* Curves. Digests shorter than the order make two messages share a nonce (`"A"` and `"A\0"`); DER
  signatures may hold trailing bytes and non-minimal integers; Ed25519 takes non-canonical y, a sign
  on x = 0 and small-order keys.
* Certificates. Path length and key usage are not looked at, anchors need not be CAs, unknown critical
  extensions are ignored, day 31 exists in every month, bytes after a certificate are ignored.
* Arrays. Empty results of non-contiguous operands throw; `a[1:4] = a[0:3]` cascades; a reused buffer
  keeps its shape; `a += b` that broadcasts rebinds `a`.

## 10. Not modelled

*Inside modelled parts*: the owned value, `Request` and the compile-time concepts of the memory
module; argument copying of `spawn`; masking keys, byte lengths and URLs of websocket; byte formats of
TLS messages and the 256 KiB cap on a flight; connection set-up of requests; the standard a manifest
pins and its dependencies; purrc's `--split`,
`--transparent`, `--check`, key generation and constant folding; module headers, templates, exports
and documentation, subscripts of several indices (`codegen.cpp:2056-2065`), dict literals, `sizeof` and
`astype` in the code generator; caches and budgets of the regular-expression engine; UTF-8
validation, the unvalidated variants and the `strtod` fallback of the JSON reader (builds without
floating-point `from_chars`); constant time and random numbers of the
curves (not properties of states); complex numbers, `mean`, ragged lists and number formatting of arrays.

*Whole parts*: ciphers and hashes (a scaled-down cipher has no meaning and a full one no second
definition to compare with); `fixarray`, `linalg`, `math`, `statistics` (floating point); the wrappers
of strings, files, time and system calls; listening sockets and descriptor guards; the build system,
scripts, generators and the editor extension.

*Model-checked, not proved*: all liveness (out of the provers' reach); `ReadsAgree`, whose folds and
nested lists are inductions over data; and the compiler and the library, which rest on recursive
operators over texts and trees. Induction over data is out of reach in general, because the library's
induction theorems take an operator; where a proof needs one over naturals it takes the least element
of a set of counterexamples instead.
