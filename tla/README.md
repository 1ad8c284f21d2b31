# pMINK: a verification development

TLA+ models of what all pMINK daemons stand on: the R14P clients, sessions and
routers through which they talk, the lock-free queues under them, and the
configuration that one daemon keeps for the others. Every module is translated
from the C++ under `src/src`; paths below are relative to the repository's
`src/` directory.

## 1. Inventory

pMINK is a set of daemons (signalling gateway, firewall, statistics, database,
configuration, routing) that exchange ASN.1 messages over SCTP with a protocol
of their own, R14P. What they share, and where their concurrency lives:

| component | state | operations | talks to |
|---|---|---|---|
| SPSC queue (`src/spscq/spscq.h`) | ring of items, `head`/`tail` and cached copies of them, published at a watermark | `push`, `pop` | one producer and one consumer thread, no lock |
| object pools (`src/pool/pool.h`) | free list of constructed objects, locked (`Pool`) or an SPSC queue (`SpscQPool`) | `allocate_constructed`, `deallocate_constructed` | every component |
| R14P client (`src/r14p/r14p.cpp`, `R14PClient`, `R14PStateMachine`) | pool of streams, list of active streams, two OUT queues, flags | threads IN, OUT, TIMEOUT, exit; `new_stream`, `send`, `send_datagram`, `disconnect` | peer daemon (SCTP), callbacks of the daemon, session, other clients when routing |
| R14P stream protocol (`R14PStream`, `process_sf_*`) | sequence number, sequence flag, `sequence_reply_received`, linked stream | START, CONTINUE, CONTINUE_WAIT, END, STREAM_COMPLETE, HEARTBEAT | the other end |
| R14P session (`R14PSession`) | list of clients, thread count, server flag; per client: reference count, registration | `connect`, `server_loop`, `add_client`, `remove_client`, `find_route`, `register_client`, `destroy_session` | clients, routing handler |
| weighted round robin (`src/utils/pmink_utils.h`, `WRRRouteHandler`, `daemons/routing/cfg_events.cpp`) | items with weight, `w_gcd`, `w_max`, position, current weight | `run`, `add_node`, `update_client`, `remove_node`, configuration changes | session (under its lock) |
| registration handshake (`r14p_reg_events.cpp`, `register_client`) | event objects, semaphore, status, `registered` | request, result, done, timeout | stream protocol, session |
| heartbeat (`heartbeat_loop` and its events) | activity and next flags, missed count | send, received, missed | one stream at a time |
| configuration lock (`daemons/config/events.cpp`, `configd.cpp`) | `mtx_config`, the open requests of each connection | `NewStream`, `StreamNext`, `StreamDone`, `ClientIdle`, `ClientDown`, `timeout_loop` | IN, exit and timeout threads |
| configuration notifications (`src/config/config_r14p.cpp`, `events.cpp`, `src/utils/umdaemon.cpp`) | per notification: users, collected changes, `ready`; per daemon: its copy, its handler | `notification_request`, `process_get`, `prepare_notifications`, `notify_user`, `CfgUpdateStream*` | config daemon and the daemons it configures, over streams |
| configuration tree (`src/config/config.cpp`, `process_enter` of `events.cpp`) | a value and a new value per node, states, `is_new`, transaction owner, working node of each user, commit log, file | set, delete, edit, discard, commit, load, rollback, login, logout, sweep | under the configuration lock |
| configuration language, replication, completion (`src/config`) | | parse, print, forward a command line | other config daemons |
| gateways and applications (`daemons/*`, `src/m2ua`, `m3ua`, `sccp`, `smpp`, `tcap`) | their own protocol stacks | | R14P streams |

### What is hard

* *Threads without locks.* `SpscQ` orders two plain integers between a producer
  and a consumer that cache each other's index.
* *Threads with many locks.* A stream object moves between the pool, the list of
  active streams, the OUT queues and the daemon, and six kinds of thread move
  it; each takes a lock for its own step only. `free_on_send`, `out` and
  `timeout` say who must return it to the pool.
* *Races with time.* A late answer, the timeout of its stream, a lost connection
  and the client's destruction compete for the same stream.
* *Recycled objects.* Pools never run constructors: whatever `reset` does not
  clear, the next user inherits.
* *Ignored results.* A refused push is not noticed by any caller.
* *Ends.* `exit_loop`, `remove_client`, `destroy_session` wait for counters that
  other threads move.

* *One lock, many threads, no checks.* `mtx_config` is an error-checking mutex
  whose results nobody looks at. Locking twice succeeds silently, unlocking by
  the wrong thread fails silently, and a request holds it over many packets.
* *A copy of a moving thing.* A daemon reads its configuration one value per
  packet while others commit, and is told of commits over the same connection.
* *Two values, three states and a flag per node.* Discard, commit, load and
  rollback each walk the tree their own way, and users stand on nodes that one
  of these may free.

`PROJECT.json` lists each hazard at its line with the properties about it.

## 2. Plan

Order: the most shared and most concurrent code first, then what stands on it.

| module | models | composes | state |
|---|---|---|---|
| `Fifo` | abstract specification: a bounded queue whose producer may publish late | | done |
| `SpscQueue` | `SpscQ` | implements `Fifo` | done, proved |
| `R14PClient` | ownership of streams and payloads in one client, six kinds of thread | uses queues as sets, as `SpscQueue` justifies | done, safety proved (without overtaking) |
| `WRR` | weighted round robin table, routing handler, configuration, clients that come and go | | done, safety proved |
| `R14PLifetime` | one client's creation, threads, registration, references, removal; the session's end | | done, safety proved |
| `ConfigLock` | `mtx_config` and the requests that hold it | streams and threads of a client, reduced to what the handlers see | done, safety proved |
| `ConfigNotify` | a daemon's registration, notifications, failures and restarts | requests that `ConfigLock` says may interleave | done, safety proved |
| `ConfigStore` | abstract specification: a committed configuration, and a draft of one user at a time | | done |
| `ConfigTree` | the tree, its users and transactions | implements `ConfigStore`; one step per request, as `ConfigLock` justifies for a request alone on its connection | done, proved |
| `R14PStream` | both ends of a stream: numbers, flags, turns | two clients | open |
| `R14PHeartbeat`, `SpscQPool` | `heartbeat_loop`; the pool on an `SpscQ` | `R14PLifetime`, `SpscQueue` | open |

Every safety invariant that a run checks is proved. What `R14PStream` would add
is the other end of a stream, which is an input of `R14PClient`.

## 3. The modules and the code

### `Fifo`, `SpscQueue`

`push` and `pop` run in two threads and touch two published indices. Each is
three actions, cut where the other thread may be seen: the test of the other
side's index (`PushTest`, `PopTest`), the access to the slot (`PushStore`,
`PopLoad`), the publication (`PushPublish`, `PopPublish`). `shadow_head` and
`shadow_tail` are the private indices, `head` and `tail` the published ones.
Memory is sequentially consistent, as on the x86 targets where `gcc_mb()` only
stops the compiler. `size()` has no caller and is left out.

`Fifo` is what callers rely on: a queue of at most `QSIZE - 2` items of which a
prefix is visible. `SpscQueue` implements it under
`queue <- Contents, visible <- Visible`.

### `R14PClient`

The objects of a client's stream pool are the model values of `Streams`; a
stream stands for itself and for its payload. Boolean fields are sets of streams
(`timeout`, `out`, `free_on_send`). Each handler of the state machine is an
action of IN (`InReply`, `InStart`, `InContinue`, `InEnd`, `InContinueWait`,
`InStreamComplete`, ...), the timeout check is two (`MarkTimeouts` works on a
copy of the list, `SweepTimeouts` on the list, and the lock is free in between),
OUT sends and lets go in two (`OutSend`, `OutRelease`). The daemon's calls are
`AppNewStream`, `AppSend`, `AppDatagram`, `AppDatagramReply`, `AppDisconnect`.
`faults` records what the code does not notice: a second return to the pool, a
second push.

### `WRR`

All uses of the table are under the session's mutex, so each operation is one
step. `run` is one operator that returns the new table and the position; it says
what the loop finds instead of stepping through it. `Connect`, `SetRegistered`,
`Register`, `Disconnect`, `Lose` and `RemoveClient` are what
clients do to the table and between its uses; `AddNode`, `RemoveNode`,
`RemoveType`, `ModifyWeight` and `DeleteWeight` are the branches of
`WRRConfigMod::run`; `Route` is `find_route` with the handler. A commit changes
several nodes under one lock, the model one at a time: it has more
interleavings than the code, not fewer. `RoutedAgain` and `FairShare` follow the
table through the next packets by a function (`After`), so they say in each
state what would be routed if nothing else happened.

### `R14PLifetime`

One client, seen from its session. `thread_count` is incremented by whoever
starts a thread, after `pthread_create` (`StartThread` then `CountThread`;
`InReconnected` then `InCount`), and decremented by the thread itself (`End`);
the exit thread alone is counted before it starts. `signal[w]` is where each
caller of the blocking `register_client` is, `reg_stream` where the handlers of
an inbound registration are. `ref_counter` moves with `FindRoute` and `Routed`;
`holders` and `borrowers` are those who really have the pointer. The exit
thread's steps are `ExitWaits` (`exit_loop`), `ExitUnlists`, `ExitDrains`
(`remove_client`) and `ExitDestroys` (the destructor and the session's count).

### `ConfigLock`

The threads of the config daemon that touch its configuration: the IN thread of
each connection (`pc`), the exit threads, and the thread of `timeout_loop`
(`Sweeper`). A stream is a request from its first message (`StreamNew`) through
the handler (`Enter`, which waits for the mutex) and its results (`Next1`, one
per answer, `Sent` by OUT) to its end (`Done`). `UnlockedBy` and `CanLock` are
the two surprises of an error-checking mutex: another thread's unlock does
nothing, and the owner is let in again. `Idle`, `NotifyFailed`/`Unreg`, `Fail`,
`Close`, `ExitPass` and `Remove` are the other events that unlock, or should.
`valid` says that nobody has changed the nodes a read still sends from, `alone`
that nothing else happened on the request's connection.

### `ConfigNotify`

The config daemon with the daemons it configures. All of them come through a
routing daemon, over one connection of the config daemon, so `mtx_config`
excludes none of their streams from another and each packet is a step of its
own. A stream is a token that goes back and forth in `down[d]` and `up[d]`; it
carries what both ends remember (`left` to send, `got` so far, and for a
notification the slot of the user and the vector it pointed into).
`Commit` is `prepare_notifications` with `Config::commit`, `StreamDone` sends
what was collected. `GetStart`, `GetNext`, `GetItem`, `GetEnd`, `Merge` and
`SetHandler` are a `notification_request`; `NtfStart` to `NtfError` a
notification. `Lose` drops a connection with or without its packets, or ends
the daemon; `Refuse` is the error of a routing daemon without route, or of a
restarted daemon that does not know the stream. `slots` and `size` are the
vector of users: `Unreg` moves elements, so a pointer into it names another.
`state` is a history variable: what may have happened to a daemon's copy.

The config daemon's own connection to the routing daemon stays up; a pool that
has no stream for a notification is left out.

### `ConfigStore`, `ConfigTree`

`ConfigStore` is what users expect: a committed configuration, a draft, an
owner; a commit replaces the whole committed configuration by the whole draft.
Two weaknesses of the code are admitted in it, both about list entries: anyone
may add one to the draft (`Intrude`), and the flag that keeps new ones out of
the committed configuration may be lost (`Grown`).

`ConfigTree` has the nodes as the code has them: `value`, `new_value`, `state`,
blocks with `is_new`. One step is one request: the guards of `process_enter`
(`Pretends(u)`: another user owns the transaction), the operations of `Config`
as operators on trees (`Discard`, `CommitPretend`, `Commit`, `ReplacePrepare`,
`Merge`, `Loaded`, `Shown`, `ShownNew`), and the working nodes
(`update_definition_wn`, `reset_all_wns`). It implements `ConfigStore` with
`committed <- Shown(tree)` and `draft <- ShownNew(tree)`, which are what
`show_config` prints without and with uncommitted changes: so the refinement is
about what is written to files as well. Some of the code's behaviour is easy to
overlook and in the model:

* a set of a list entry, or with an unknown name after a new block, creates the
  node without starting a transaction, for whoever asks (`SetStray`);
* a load with an unknown block name fails half way, with everything before it
  merged, all else marked as deleted, and no transaction (`Load`, `f.bad`);
* a commit whose revision cannot be opened has reset `is_new` (`DoCommit`);
* logout and the sweep discard, but leave the working nodes of the others where
  they are (`Leave`, `Freed`); and a block without values is in no file
  (`NamedIn`).

`stray` is a history variable with what was made outside a transaction.

## 4. The runs

Bounds: two streams are enough for a linked pair, for a stream recycled while
another is open, and for queues of two. A ring of 8 with a watermark of 4 wraps,
passes the watermark twice a lap and fills. Two nodes of weights 2 and 6 (and 0
by deletion) with two clients that may have the same id give overlapping
connections, several gcds and rounds of up to four packets. Two routers and two
reconnections overlap with each other and with the end; `WORD` = 10 lets the
counters wrap within reach while they can never wrap by counting up. Two
requests on an accepted connection and one to a routing daemon have every kind
of neighbour (`MaxResults` = 1 makes a request with an intermediate answer). Two
users, one item, one block with one leaf and one list entry have every kind of
node in every state; two files are one with a bad name and one without, and
`MaxRevisions` = 1 still lets a rollback and a commit follow each other. Two
daemons, two items that every commit changes together, two commit streams, two
versions, two registrations and one lost connection let commits fall before,
inside and after a registration, on a vector of users that moves, and a request
or a notification that is half way has one item of a commit and not the other
(2.7 million states; what is proved is for commits of any items). Symmetry is used only in runs without liveness
properties.

| run | shows |
|---|---|
| `SpscQueue` | no slot is written while it is read; refinement of `Fifo`; a push is refused only when the ring is nearly full; a flush hands over all that waits |
| `R14PClient` | streams and one-way datagrams: one owner, nothing twice, no leak, the daemon is told once, the out flag is exact |
| `R14PClientLinked` | linked pairs and datagrams with a reply: one owner, when no timeout check falls while one of them is queued |
| `R14PClientLive` | an inbound client: an abandoned stream ends |
| `WRR` | daemons connect, leave, return and overlap while nodes are added, reweighted and removed: shares are exact while the table grows, packets find a route again, gcd and maximum follow, weights are restored, no dangling client |
| `R14PLifetime` | an inbound client: routers end before it, it ends before the session, and it and `destroy_session` do end |
| `R14PLifetimeOut` | an outbound client that registers three times: it is freed in the end |
| `R14PLifetimeRoutes` | with packets to `*` and back to the sender the counter wraps, and registrations are lost: threads are still waited for |
| `ConfigLock` | the lock is held for a request, a request that is alone on its connection has it to itself, and a request that waits is served unless a dead thread owns the lock |
| `ConfigTree` | refinement of `ConfigStore`; the owner is known, nothing uncommitted is left without one, others change nothing that exists, no working node is freed under its user |
| `ConfigNotify` | what is collected is owed by a stream; a daemon whose streams came one after the other ends with the committed configuration and never has part of a commit; nobody is unregistered for another's failure as long as the users have not moved |
| `ConfigNotifyAll` | a counterexample: a commit during a registration is lost to the daemon (section 5) |

A run that ends in a counterexample states what a comment or document of the
code says; its entry under `findings` in `PROJECT.json` quotes it. Deadlock is
not checked where a system may really stop: a client that is gone, a session
that is deleted, a producer that never flushes, a lock left by a dead thread,
daemons that have used up the bounds.

### Timing assumptions

Some properties hold only as long as a window of the code is not hit. Each
window has a constant of its own, so that a run says on which it depends;
section 5 says what happens in it.

* `Overtake = FALSE`: an answer is handled after OUT has finished with the packet
  it answers (a network round trip against a few instructions).
* `PromptSend`: no timeout check falls between the daemon's `new_stream` and its
  `send`. `PromptQueue`: none falls while a listed stream is queued.
* `Loopback = FALSE`: no router sends a client's packets back to it.
* `PromptCount`: `inc_thread_count` is not overtaken by the end of the thread it
  counts.
* `LastSent`: the STREAM_COMPLETE of a registration is sent before OUT ends.
* `LateAccept = FALSE`: `server_loop` accepts nobody after `destroy_session` has
  disconnected the list.

`InternalRoom` is the room `internal_out_queue` is known to have.
`R14PClient::init` sizes it by the number of streams, and `SpscQueue` shows that
a push can be refused up to a watermark before the ring is full; `NoLeak` and
`OutIsQueued` are checked with room for every stream.

### Fairness

* Threads that poll or sleep go on: weak fairness of the steps of OUT, TIMEOUT,
  exit, the creator, and of IN's own steps, not of what the peer sends.
  `out_loop` serves both queues in every round, so a queued payload is not
  passed over for ever (`SF_vars(OutSend(s))`). No lock is held across a
  blocking call in these loops.
* The daemon sends the streams it opened (`WF_vars(AppSend(s))`).
* Streams are timed out: `timeout_loop` asks for the check, IN and then exit
  make it (`RegTimeout`, `RegDone` in `R14PLifetime`).
* Routers give back what they took: `Routed` follows `FindRoute` in one pass of
  `R14PStateMachine::run`.
* In `ConfigLock`, OUT sends, a stream that is not answered times out and ends,
  handlers and the sweep are finite, and a thread that waits for the mutex gets
  it if it is free again and again (`SF_vars` of `Enter`, `Unreg` and `Done`;
  pthread mutexes give no order, but starving one for ever takes a scheduler
  that never runs it when it could).
* Nothing is assumed of the peer, of errors, of configuration changes or of
  `destroy_session` being called.

## 5. Where the code and its comments part ways

One run ends in a counterexample, `ConfigNotifyAll`. The others of this table
can be reproduced from a run's `.cfg` by the change in the second column,
checking the property of the third in place of the run's own; the properties are
defined in the modules with the comment they translate.

| start from | change | property | what happens |
|---|---|---|---|
| `ConfigNotifyAll` | | `AllAreNotified` | the handler of notifications is set after the configuration was received and merged; a commit in between is answered by nobody and not sent again |
| `ConfigLock` | | `DeadThreadsOwnNothing` | `ClientDown` is to "unlock to avoid deadlock" (`events.cpp` 45), but runs in the exit thread, which does not own the mutex; the configuration stays locked |
| `ConfigTree` | | `RevisionIsCommitted` | `commit(pretend)` resets `is_new` before the revision is printed "excluding uncommitted changes" (`events.cpp` 1397): new list entries are in it |
| `ConfigTree` | `Leaves = {l, e}`, `MaxRevisions = 2`, `Items`, `Lists` and `Files` empty | `RollbackIsComplete` | `replace_prepare` marks blocks but not their items: an item the revision does not name survives in a block that it names |
| `R14PClient` | `AppCalls = {"datagram_reply"}` | `FreedAfterTransfer` | `send_datagram` with a reply callback lists the stream and queues its payload without setting `out`; a forced timeout returns it to the pool before OUT has sent it |
| `R14PClient` | `Loopback = TRUE` | `FreedAfterTransfer` | `process_timeout` looks at the out flag of the listed stream alone and frees its linked stream with it |
| `R14PClient` | `Overtake = TRUE` | `FreedAfterTransfer` | `out_process` reads `free_on_send` after the send; an END handled in between makes OUT recycle a stream whose STREAM_COMPLETE is queued |
| `R14PClient` | | `AllToldAtExit` | `in_loop`'s last timeout skips queued streams, and `exit_loop` makes none when OUT and TIMEOUT have ended first |
| `WRR` | `Recalculated` without `reweighted = {}` | `Recalculated` | "recalc (done in update client)" (`cfg_events.cpp` 118): `update_client` calls `enable`, which returns before `recalc` when the item has a weight |
| `WRR` | `RegisteredIsEnabled` without `reweighted` | `RegisteredIsEnabled` | a weight modified or deleted while its daemon is away is lost: `enable` restores the old one |
| `WRR` | `RegisteredIsEnabled` without `overlapped` | `RegisteredIsEnabled` | a daemon that returns before its old connection is removed is disabled by that removal |
| `R14PLifetime` | `PromptCount = FALSE` | `NoThreadOutlives` | a thread started and not yet counted is not waited for |
| `R14PLifetime` | `LateAccept = TRUE` | `DestroyEnds` | a client accepted after `destroy_session` has walked the list is never disconnected |
| `R14PLifetime` | `DestinationAll = TRUE` | `NoRouteOutlives` | routes to `*` are used without a reference, and one is dropped for each |
| `R14PLifetime` | `SameType = TRUE` | `InactiveIsFreed` | a packet back to its sender drops a reference nobody took; the unsigned counter wraps |
| `R14PLifetime` | | `HandlersAreKept` | `reg_timeout_loop` deletes the handlers while the registration stream may still call them |
| `R14PLifetimeOut` | `LastSent = FALSE` | `InactiveIsFreed` | `register_client` computes a deadline and waits without it, for a callback an unsent packet does not make |
| `R14PLifetimeOut` | | `FailedIsFreed` | `connect` passes a client that was never listed to `remove_client`, which frees nothing; `destroy_session` then waits for it for ever (`DestroyEnds`) |

Seen while modelling `ConfigTree`, and part of the model: `config.h` 673 says of
`auto_complete` "If True, do not change any values or states", yet a set that
only pretends creates blocks (`SetStray`); 730 says "commit will be simulated",
yet it resets `is_new` (`CommitPretend`).

The liveness rows need the run's `FairSpec`, and `SYMMETRY` is to be left out.

## 6. What is proved

`tlapm` checks eight modules; every theorem is for all values of the constants
that satisfy the modules' assumptions.

* `SpscQueueProofs`: `TypeCorrect`, `SlotsAreApart` (`NoSlotShared`),
  `RingImplementsFifo` (the refinement of `Fifo`) and `RefusalsAreLoaded`
  (`RefusedOnlyWhenLoaded`). The inductive invariant
  orders the indices by their distance from the published tail: published tail,
  shadow tail, published head, shadow head, within one lap. `NoSlotShared` alone
  is not inductive, because it says nothing of what each side believes the other
  index to be. `LagInv` bounds how far the published tail is behind: it is at a
  watermark, or where `init` put it, and the consumer cannot be a whole
  watermark ahead of it without being at the next one, where it publishes
  (`WatermarksRepeat`, the reason why the watermark has to divide the ring).
* `R14PClientProofs`, without hypotheses: `TypeCorrect`. Under `Calm` (no
  loopback, no overtaking, `PromptSend`, no datagrams with reply):
  `NothingIsDoneTwice`, `StreamsHaveOneOwner`, `DaemonIsToldOnce`, `FreedAreSent`
  (`FreedAfterTransfer`, the step property that the rows of section 5 refute
  outside `Calm`). The invariant adds to the properties where
  each stream and payload may be in each phase of the threads (`Place`,
  `Payload`), when a stream can be marked (`Timing`) and what the daemon was
  told (`Events`), and that no stream is linked. One lemma per action.
  Under `Room` as well (`InternalRoom` of at least the number of streams):
  `NothingLeaks` (`NoLeak`) and `OutFlagIsTrue` (`OutIsQueued`). With room, a
  push to the internal queue is never refused (`PushInternalTaken`, from the
  cardinalities of the two sets), so each stream that leaves the pool is listed
  or is OUT's to free (`Held`), and a flag that is set goes with a payload in a
  queue (`Flagged`). Without room both fail: a refused push leaves a stream that
  nobody frees.
  Under `Prompt` (no overtaking, `PromptSend`, `PromptQueue`), with packets that
  come back and datagrams with reply: `LinkedHaveOneOwner` (`OneOwner`) and
  `LinkedNothingTwice` (`NothingTwice`), what the run `R14PClientLinked` checks,
  and `LinkedFreedAreSent` (`FreedAfterTransfer`): the two rows of section 5 with
  linked streams and replies need a timeout check on a queued stream.
  Nothing here follows from the list of streams alone, as the second end of a
  linked stream is in no list and both ends are freed together. The invariant
  says that the other end of a listed stream is neither listed nor free, and the
  other end of nothing else (`Linked`, which also says that only one end of a
  pair has a payload, in a queue, with OUT, or to be answered); that what OUT is
  to free is no end of a listed stream (`Carried`); and that a marked stream has
  neither end with OUT (`Marked`), which is what `PromptQueue` gives and the code
  does not. One lemma per effect on these (`MarkOwned`, `FreedOwned`,
  `PacketOwned`, `ListedOwned`, `OtherEndOwned`, `PushOwned`, `SendOwned`,
  `ReleaseOwned`, `DestroyOwned`, and `QuietOwned` for none); each action then
  has one of the effects.
* `R14PLifetimeProofs`: `TypeCorrect` and `ListInvariance` without hypotheses;
  `ThreadsEndFirst` (`NoThreadOutlives`) and `SessionEndsLast`
  (`SessionOutlives`) under `PromptCount`; `RoutesEndFirst` (`NoRouteOutlives`)
  without `*` and self-addressed packets. `CountInv` is the heart: the counter,
  plus a thread not counted yet, plus an exit thread that has counted itself
  out, is the number of running threads. With it, `thread_count <= 1` in
  `exit_loop` means that the exit thread is alone, and `ThreadInv` says that no
  step can start another. `RefInv` is the same for references.
* `WRRProofs`, without hypotheses: `TableIsAlive` (`ItemsAreAlive`),
  `RegisteredAreEnabled` (`RegisteredIsEnabled`), `GcdFollows`
  (`Recalculated`), `TypeCorrect` (`TypeOK`), `PacketsFindARoute`
  (`RoutedAgain`) and `SharesAreFair` (`FairShare`), for any nodes, connections and weights. First a lemma for
  each operation of the table (`Updates`, `Adds`, `Removes`, `Runs`): what it
  does to the items, and that it leaves the gcd and the maximum those of the
  weights (`Exact`). The invariant adds that an item belongs to a connection of its
  own node (`ItemsOK`), so that removal finds it; that what `disable` takes away
  is the configured weight (`WeightsKept`), so that `enable` gives it back; and
  that two connections of one node are on record (`OverlapsKnown`). The types
  and `RoutedAgain` need to know what the recursive functions compute.
  `GcdIsGreatest`: `gcd` is the greatest common divisor of any two numbers.
  `GcdOfBounds` and `MaxOfWeights`: the gcd of a table is at most each weight
  that is not 0, and its maximum is one of them. `AfterSteps`: `After` is the
  sequence of tables that `run` makes. Each is by a least counterexample
  (`LeastIs`), the form in which an induction can be stated here. Then a packet
  that finds no item lowers the current weight by the gcd, and finds none only
  while it is above the gcd (`RunLowers`), so that `cw \div w_gcd` packets in a
  row at most stay without a route (`HitsAgain`).
  The shares need more: `GcdOfDivides`, that the gcd of a table is the greatest
  common divisor of its weights, so that weights and current weight can be
  counted in units of it, and an invariant of its own (`GrownIsAligned`): as
  long as the table has only grown, its current weight is a multiple of the gcd
  and at most the maximum (`Aligned`). That is kept by growth since a new weight
  makes the gcd a divisor of what it was and the maximum larger
  (`GrowsAligned`), and by `run` (`RunsAligned`); it is lost when a weight
  leaves the table, which is why `FairShare` asks for a table that has only
  grown. The current weight in units is the level. What an item was given since
  the level was last the maximum is a function of the level and the position
  (`Given`): one unit for each level above that it reaches, and one if the
  position has passed it at this level. Each packet goes from one position to
  the next and adds one to one item (`NextGives`). So the packets of any number
  of rounds add up, and of two such functions one is nowhere less than the other
  (`GivenChain`): when as many packets as there are units have gone to items,
  no item can have more than its units without another having fewer, hence each
  has its own (`UnitsAreShared`, `AddUpSame`), wherever the first packet started
  (`AlignedSharesFairly`).
* `ConfigLockProofs`: `TypeCorrect`, `LockHasAReason` (`LockIsHeldForAStream`)
  and `AloneHasTheLock` (`AloneIsExclusive`), without hypotheses. The two
  properties need each other: that a request alone on its connection owns the
  mutex is kept by a step of another connection only because the mutex is then
  that request's. Two facts make them inductive: a request that waits will lock
  (`EntersToLock`), and one that is alone is the only one on its connection
  (`AloneIsSingle`).
* `ConfigTreeProofs`: all that the run `ConfigTree` checks, for any users,
  items, blocks, lists, values and files: `TypeCorrect`, `OwnerKnown`,
  `CleanTree`, `NodesStayAlive`, `OthersOnlyLook`, and the refinement
  `TreeIsAStore`. First what each operation does to a node, then to a tree
  (`TreeInv`: a node that is ready has one value, a new block has no committed
  one, and nothing is left where there is no block), as lemmas about `Shown` and
  `ShownNew`: discarding shows what was committed (`DiscardedTree`), committing
  makes the draft what is committed (`CommittedTree`), a write leaves committed
  values alone (`Keeps`). Then the actions are sorted into kinds (`Wrote`,
  `WentTo`, `WasReset`, `SetStray`, `Leave`) with one lemma for each property.
  `NewIsOwners` is what `WorkingNodesAlive` adds: a user stands on a new block
  only when it owns the transaction, or the block was made outside one.
* `ConfigNotifyProofs`: `FaultlessStay` (`StaysListed`) and `CollectedIsSent`
  (`ReadyIsOwed`), for any daemons, items, edits and any number of failures. The
  invariant carries the slot of each notification through the packets: as long
  as the vector it was taken from is still the one in memory, it names the
  daemon that the notification was sent to (`Token`). `UnregIs` and `RegIs` say
  what moving the vector's elements does to the set of users.
* `ConfigNotifyCopyProofs`: `TypeCorrect`, `CopiesConverge` (`Converged`) and
  `CopiesAreWhole` (`NeverTorn`), for any daemons, items, edits, commit streams
  and any number of failures and restarts. Neither property is inductive: both
  follow from what the copy will be. `Followed` says that the daemon's copy,
  with what it has received, and with what the one open stream carries and has
  still to carry applied to it, differs from the committed configuration only
  in items that prepared changes will still bring (`Fresh`), and that it is one
  of the configurations that were committed (`log`). For that a daemon has at
  most one open stream unless one was `missed` (`Single`), a token carries in
  `got` and `left` together what the commit changed, and a request under way has
  each item as it is committed, or owed (`Fetched`). A commit replaces the
  committed configuration under all of them at once; `AppliedTwice` and
  `ChangesOfBoth` (changes appended are changes applied one list after the
  other) make a notification of it bring the copies there, in whatever state of
  their own streams the daemons are. One lemma per action.

The hypotheses are the windows of section 4, and each is needed: the table of
section 5 has a counterexample without it (`PromptCount`, `DestinationAll`,
`SameType`, `Overtake`; `Loopback` and datagrams with reply for `Calm`, whose
theorems, `ToldOnce` and `NoLeak` among them, are not claimed under `Prompt`).

Assumptions about constants are the named `ASSUME`s of the modules, which TLC
evaluates in every run.

Only model-checked:

* liveness (`AcceptedIsTaken`, `ExpiredEnds`, `InactiveIsFreed`, `DestroyEnds`,
  `Served`) and everything that needs `ENABLED`, which `tlapm` cannot use.

Every safety invariant that a run checks is stated by a theorem.

`TypeOK` of `SpscQueue` and `FreedAfterTransfer` are proved and in no run; TLC finds
`FreedAfterTransfer` true with the configurations of `R14PClient` and `R14PClientLinked`.

## 7. What is not modelled

* The contents of messages, ASN.1 coding, hop counting, statistics and logging:
  no property here depends on them. Which of a message's outcomes a handler
  takes is nondeterministic.
* Weak memory: the code uses compiler barriers and its targets are x86.
* Failure of `pthread_create`, of `new`, and of the locks.
* The sequence numbers and flags of a stream. The peer is an input of
  `R14PClient`, so what two ends agree on is not shown, nor what a message out
  of sequence does to a linked stream (`r14p.cpp` 1378).
* The heartbeat (`r14p.cpp` 191), the pool on an `SpscQ`, and the parameters
  that a registration carries.
* Replication between config daemons (`events.cpp` 350-705): it forwards command
  lines, whose effect depends on the other daemon's users and working nodes.
* The configuration language (a conversion), its completion and the command
  line. So a configuration file that a crash leaves half written
  (`events.cpp` 1411) is not modelled: what the half means is up to the parser.
* In `ConfigTree`: what a freed working node leads to (the user is stopped at
  `Gone`); users that differ in more than their id (`UserIdCompare` orders by
  `user_id` alone, `config.cpp` 484); names that a completion resolves.
* In `ConfigNotify`: what a daemon does with a changed value, a notification for
  which the pool has no stream, and users of the command line whose connection
  is lost without the end of their stream (`ConfigLock` has those).
* In `ConfigLock`: an exit thread that finds a new client at the address of an
  old one (`events.cpp` 92).
* The daemons and protocol stacks above R14P, the vendored libraries: listed as
  components in `PROJECT.json`, each with its reason.

The repository has about 681,000 lines of C and C++, most of them generated
from ASN.1, vendored (libiconv, dissectors) or protocol stacks of their own. The
models cover the code the daemons share, a small part of the lines and the part
where threads, connections and transactions meet.
