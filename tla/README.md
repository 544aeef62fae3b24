# Formal model of ractor_actors

`ractor_actors` is a crate of ready-made actors for the `ractor` runtime: a
watchdog, a stream pump and multiplexer, TCP sessions and a listener, a cron
manager, a broadcaster and a file watcher; `xtask` keeps its dependencies up to
date. This directory holds TLA+ modules for them, TLC configurations that check
them on small instances, and TLAPS proofs of what holds on every instance.

Paths below are relative to `src/`; `ra/` stands for `ractor_actors/src/`.

| component | code | modules | status |
|---|---|---|---|
| watchdog | `ra/watchdog/{mod,impl}.rs` | `Watchdog`, `Registry`, `MCWatchdog`, `WatchdogProofs` | modelled, proved |
| stream multiplexer | `ra/streams/mux/mod.rs` | `StreamMux`, `Multicast`, `MCStreamMux`, `StreamMuxProofs` | modelled, proved |
| stream pump, looping actor | `ra/streams/{pump,looping}/mod.rs` | `StreamMux` | modelled with the mux |
| TCP session | `ra/net/tcp/session.rs` | `TcpSession`, `Connection`, `MCTcpSession`, `TcpSessionProofs` | modelled, proved |
| cron manager and jobs | `ra/time/cron/{mod,worker}.rs` | `Cron`, `JobBoard`, `MCCron`, `CronProofs` | modelled, proved |
| TCP listener, in a server | `ra/net/tcp/listener.rs`, `ractor_actors/examples/tcp.rs` | `TcpServer`, `Reception`, `MCTcpServer`, `TcpServerProofs` | modelled, proved |
| broadcaster, file watcher | `ra/sync/broadcast/mod.rs`, `ra/filewatcher/mod.rs` | `PubSub`, `Topic`, `MCPubSub`, `PubSubProofs` | modelled, proved |
| dependency tracker | `xtask/src/` | `DependencyTracker`, `MCDependencyTracker`, `DependencyTrackerProofs` | partly modelled, proved |
| network stream types, wiring, test helpers | `ra/net/tcp/mod.rs`, `ra/*/mod.rs`, `ra/common_test.rs` | - | no state of their own |

## The runtime, as the modules see it

`ractor` is not part of the repository. What the modules assume of it, each time
named in the module's header:

- An actor handles one thing at a time. It takes a kill before a stop, a stop
  before supervision events, and those before messages (the mailbox is three
  queues, not one, which is where most of the surprises below come from).
- A kill interrupts a handler at its next await. A stop waits for the handler
  that is running.
- A handler that errs or panics ends the actor without `post_stop`; its
  supervisor gets `ActorFailed`. An actor that stops runs `post_stop`, and its
  supervisor gets `ActorTerminated`.
- An actor that exits drops what is queued, which drops the reply ports of the
  calls among it and so resumes their callers with an error, and kills its
  linked children. Whether a start that fails takes along a child that it has
  already spawned linked is left open.
- A draining actor accepts no new message; it stops when it reaches the marker
  that `drain` put in its message port. A cast to a draining actor, or to one
  that is gone, returns an error.
- `send_after` is a task of its own. Aborting its handle before it has fired
  cancels it; dropping the handle does not.

## Inventory

### Watchdog
State: the table `subjects` (period, strategy and the handle of a timer for each
registered actor) and two counters. Operations: Register, Unregister, Ping,
Timeout (sent by its own timers), Stats, and `handle_supervisor_evt`, which
unregisters a linked actor that ended. The public functions reach one global
actor behind a `OnceCell`; `ping` and `stats` are calls that wait for ever,
`register` and `unregister` are casts.
Hard: the timer that a Ping or a Register replaces may have fired already, with
its Timeout queued behind other requests; the handle in the table may be that of
a timer which is no longer running; the caller waits in the very actor that may
be stopping it; the watchdog itself dies when a reply cannot be delivered.
Correct when: no registration is forgotten, none is punished twice, registrations
end, calls return, and an actor that was told to end does end.

### Stream pump, looping actor and multiplexer
The looping actor sends itself a message after every iteration of an `Operation`,
and stops when the operation says so. The pump is a looping actor whose operation
awaits the next item of a stream and casts it to a receiver; it casts `None` at
the end. `mux_stream` spawns the multiplexer, which spawns the pump linked to it
and hands each item to a list of targets. State of the mux: its targets and
whether a target that failed is dropped. Operations: an item, the end, a
supervision event of the pump; from outside, stop and drain.
Hard: the pump does not wait for the mux, so that its exit - a supervision event -
overtakes the items it has cast; a target may fail in the middle of the loop over
the targets; the end can be noticed in two places; a drained mux refuses the
pump's casts, whose failure comes back to the mux.
Correct when: the targets see the stream in order, each item once, none misses an
item because another target failed, the end is announced once, both actors end.

### TCP session
A session is three actors: `TcpSession`, a `SessionWriter` and a `SessionReader`,
each child on one half of the socket. Operations: Send (cast on to the writer),
FrameReady (from the reader, handed to the `FrameReceiver`), the exit of a child
(everything stops), `WaitForFrame` and `ReadFrame` of the reader, `WriteObject` of
the writer. A frame is a length and a payload: two writes, two reads.
Hard: the process can be stopped, killed or reset between the two; errors other
than EOF are ignored; the reader's exit overtakes the frames it has just read; a
reader inside a read does not see a stop; both sides write into full buffers.
Correct when: what the receiver gets is a prefix of what the other owner sent, the
exit of any of the six actors takes all of them down, and frames arrive when
nothing is stopped.

### Cron
`CronManager` keeps a table of jobs by name (with a copy of the schedule, and the
actor of the job) and a list of subscribers; each job is a linked `Cron` actor
with its schedule and the handle of its next timer. Operations: Start, Stop,
SetSchedule, Subscribe, Unsubscribe, ListJobs, GetSchedule, supervision events,
`post_stop`; of a job Execute, UpdateSchedule, `post_stop`.
Hard: three different paths announce the end of a job; the exit of a job is
reported after its name was taken by another; a job that has exited, but whose
exit is still under way, fails a SetSchedule and the manager with it; an
UpdateSchedule may abort a timer that has fired, or leave one running that nobody
knows of.
Correct when: a job keeps beating, it runs on the schedule that is listed, its end
is announced once, and table and jobs follow each other.

### TCP listener and server
`Listener` is an accept loop in one message handler that casts to itself. State:
the socket, the acceptor, the encryption mode. The server of `examples/tcp.rs` puts
it to use: `MyServer` with a linked listener, whose acceptor spawns a `MySession`,
named after the peer's port, with a linked `TcpSession`; with `WATCHDOG=1` a session
registers with the watchdog before it starts, and pings it with each frame.
Hard: the TLS handshake is awaited inside the loop, so a slow client keeps every
other client out; a stop waits for the next client; an error of `new_session` or
`local_addr` ends the listener, and the server with it, one of `accept` or of the
handshake does not; a session that the watchdog refuses has spawned its `TcpSession`
by then, which may be left; a session is taken down by its client, its `TcpSession`, its own
panic or the watchdog, which may have failed long ago.
Correct when: one client's failure is not everybody's, whoever connects gets in, the
port is freed, and sessions end.

### Broadcaster and file watcher
A table of boxed targets (subscribers) by actor id and a loop over it. Operations:
AddTarget, RemoveTarget and Broadcast, all cast; Subscribe and Unsubscribe with an
answer, events and errors of the notify thread.
Hard: without `continue_with_dead_targets` one dead target ends the broadcast in the
middle, in the order of a hash map; a second subscription is answered `Duplicate`
and replaces the first; initial targets may name one actor twice; one error of the
notify thread drops everybody's subscription and the calls still queued.
Correct when: a member gets each message of its time as a member once and in order,
nobody gets one after it left or was replaced, and calls return.

### Dependency tracker
A sequential loop: fetch, compare, write the manifest, `cargo update`, then branch,
commit, push and PR, with `git checkout -` last. State: the working tree, the
branches and the checked-out branch, what is on origin, the pull requests. Hard: any
of the steps may fail after the earlier ones took effect, and the loop goes on with
the next dependency, and a later pass with what is left. Correct when: a pull request
carries its own update only, and every outdated dependency gets one.

### Not modelled
`ra/net/tcp/mod.rs` has accessors over an enum of sockets; `lib.rs` and the
`mod.rs` of each directory declare modules; `common_test.rs` polls in tests. The cron
example and the TCP client use the actors and add nothing to them; the other two
examples are modelled. `ListTargets`, `ListJobs` and `GetSchedule` only answer.
TLS setup and the `OnceCell` that spawns the watchdog are library calls; that the
watchdog is never respawned shows in `TcpServer`, where it may fail at any time and
stays gone. Of the dependency tracker the parsing of config and requirements, the
text of a pull request and pre-releases in the manifest are left out. Of the looping
actor only the operation the pump gives it is modelled: others are the caller's.

Five hazards have no property that a run checks. Nothing bounds the inbox into
which the pump casts, so there is nothing to state. Nothing keeps a watchdog that has
failed (`watchdog/mod.rs:144`) from being the end of a server and of its time limits:
`EndsForAReason` and `SessionsEnd` name it as an exception. That the payload of an empty
frame is read at once (`session.rs:288`) is assumed of tokio, and `EveryFrameArrives`
with it. A manifest written before
`cargo update` fails (`updater.rs:108`) does spoil the next pull request; proved is
what holds as long as no step fails. The version rules (`version.rs:26`) are proved
for all versions instead of checked.

## Modules

### `Watchdog.tla` and `Registry.tla`
| model | code |
|---|---|
| `subjects`, `kills`, `stops` | `WatchdogState` |
| `inbox`, `sup` | the message and the supervision port of the watchdog |
| `timers` | the `send_after` tasks; `id` is the identity of the `JoinHandle` |
| `CastRegister`, `CastUnregister`, `CallPing`, `CallStats` | `register`, `unregister`, `ping`, `stats` of `mod.rs` |
| `HandleRegister`, `HandleUnregister`, `HandlePing`, `HandleTimeout`, `HandleStats`, `HandleSupervisorEvt` | the handlers of `impl.rs` |
| `Tick`, `Fire` | time passes, a timer's task sends its Timeout |
| `Obey`, `Crash` | a subject ends because it was told to, or on its own |
| `Fail` | the runtime's part when a handler of the watchdog errs |

`HandlePing` stores no handle, as the code does, so that the registration goes on
naming the timer that was aborted; `HandleRegister` replaces a registration
without touching its timer. An expired timer may fire arbitrarily late: `Tick` is
not held up by it. `registrations` is a history variable for `PunishedOnce`.
`Registry` is what a watchdog promises, without timers, messages or time: who is
registered is punished once, which uses the entry up, and each call has its answer.
`Watchdog!ImplementsRegistry` is the refinement: an `entry` is the strategy of a
registration, a `call` is what the caller waits in. When somebody is late the
registry leaves open: the code does not keep its word about it (finding 1).

### `StreamMux.tla` and `Multicast.tla`
`StreamMux` has the mux and the pump as two processes with their ports; the pump's
state is how many casts it has made. `Start` is the end of the mux's `pre_start`:
the pump runs, and casts, before it. `StopHandled`, `HandleSupervisorEvt`,
`ItemReceived`, `EndOfStream` and `DrainHandled` are the turns of the mux's loop
in the order of its ports; `Stop` and `Drain` are its owner. `ItemReceived(bad)`
hands one item to every target, in which the set `bad` fails. Whether a failing
target is dropped, and what comes from outside, is chosen in `Init`.
`Multicast` is what a multiplexer promises, without pump, queues or policies.
`StreamMux!ImplementsMulticast` is the refinement: `served` is `targets`,
`announced` is `eos > 0`, `over` is that the mux is gone.

### `TcpSession.tla` and `Connection.tla`
Two sessions joined by two wires. A wire holds `Length` and `Payload` tokens; a
frame is its number in the order of sending, and 0 is a frame put together from
parts that do not belong together. Every `await` on the socket is a step of its
own: `WriteLength`, `WritePayload`, `ReadLength`, `ReadPayload`, with the handler's
outcome for EOF (`ReadEof`), any other error (`ReadError`, `WriterFails`) and the
stop requests that wait for it (`busy`, `written`). `Reset` is the network's: a
socket that is closed with data unread resets the other end and cuts off what was
under way. The halves of a TLS socket behave alike and are not told apart.
`Connection` is what the owners of the two sessions may rely on, without sockets,
parts of frames or children: each side accepts frames until it ends, and is handed
those of the other side in turn. `TcpSession!ImplementsConnection` is the
refinement: a session is `open` until it is `Down`.

### `Cron.tla` and `JobBoard.tla`
The manager's handlers are actions of the manager, named after its messages. They
take requests straight from the environment, because anyone may send one at any
time: an inbox would only delay them. Its supervision port is a queue and is
served first. Of a job's timers one is in its handle, the others have been
overwritten and only counted: which of them fires makes no difference to the code.
`PostStop` and `Report` are two steps: the ports of an actor close before its
supervisor hears of it. Time is left out; a timer fires whenever it likes, and a
schedule is either one that goes on for ever or one that may end. `ListJobs`,
`GetSchedule`, a Start for a name in use and one whose `pre_start` fails only
answer the caller.
`JobBoard` is what a manager promises to those who start jobs and subscribe, without
actors, supervision events or timers: jobs are put up, given other schedules, told to
have started, and taken off, each time with one notification about that very job.
`Cron!ImplementsJobBoard` is the refinement: the `board` is the table, `fresh` are
the jobs not spawned yet, and `started` are the jobs on the table whose `ActorStarted`
was handled (`Announced`).

### `TcpServer.tla` and `Reception.tla`
| model | code |
|---|---|
| `listener`, `inbox`, `told` | where the handler of `listener.rs` is, its casts to itself, a stop or a kill of it |
| `backlog`, `accepted` | connections held by the operating system, and those `accept` returned |
| `server`, `ListenerLost`, `ServerExit` | `MyServer`, which stops with its linked listener and kills it when it ends |
| `session`, `stream`, `registered` | `MySession`, its `TcpSession`, its registration with the watchdog |
| `Take`, `AcceptReturns`, `Handshake`, `NewSession` | one message: the awaits of `accept` in their order |
| `FrameReady`, `StreamEnds`, `StreamLost`, `TimesOut` | the ways in which a session ends |

Each await of the handler is a step, at which a client may leave, the owner stop the
server or the listener, the watchdog fail; what follows it is the outcome the code
gives each error. A new session fails before it is spawned (`Refused`, its name is
taken) or in its `pre_start` (`Unguarded`, the watchdog is gone), where its `TcpSession`
runs already. `Continue` is the cast with which the handler asks for the next
client. Which clients stall in a handshake and which port each comes from is chosen
in `Init`, and so are Tls and the watchdog. `TcpSession` and `Watchdog` are composed
through what they promise: a session's stream ends when its client has left, a
registration that is not renewed ends in a stop, both at any time.
`Reception` is what the clients may rely on, without an accept loop, supervision or
handshakes. `TcpServer!ImplementsReception` is the refinement: the `line` is the
backlog, at the `door` is the client that `accept` returned last while the handler is
`Busy` with it, guests are the sessions that run, and a reception is `asked` to close
when its listener is told to end.

### `PubSub.tla` and `Topic.tla`
The two actors are one module: both have a table from actor to box, and hand each
message to every box. `kind` says which of the two it is, `patient` is
`continue_with_dead_targets`, and a box is the number of the request that brought
it. `Join` is `add_target` and `subscribe`, `Leave` is `remove_target` and
`unsubscribe`, `Broadcast` the loop over the boxes, in which a dead actor's box is
an error; `FilewatcherError` and `Stop` end the actor and drop queue and reply
ports. `Topic` is a group whose members get each message; `PubSub!ImplementsTopic`
is the refinement: the members are the boxes, in the table, of actors that live,
and a box that has left the table is `past` and never comes back.

### `DependencyTracker.tla`
One action for each command of the loop, in its order: `Visit` (fetch and compare),
`UpdateDependency` (manifest, then `cargo update`), `CreateBranch`, `Add`, `Commit`,
`Push`, `OpenPr`, `Return`. Each may fail, after which the loop goes on; `failures`
remembers of what kind. `Rerun` is the next pass, in this clone or in a fresh one. A
manifest is what it asks for and its own version; a branch is a manifest. Version
comparison and bumps are operators on triples.

## Runs

Bounds are constants of the modules; nothing else is cut off.

| run | bounds | shows |
|---|---|---|
| `watchdog` | 2 actors, one of them linked, periods 1 and 2, 3 requests | `Guarded`, `PunishedOnce`, `CallsAreQueued`, `ImplementsRegistry`, `RegistrationEnds`, `CallsReturn`, `PunishedActorsDie` |
| `watchdog_one_deadline` | 1 actor, 1 period, 3 requests | finding 1 |
| `watchdog_dead_subject` | 1 actor, 1 request | finding 2 |
| `mux` | 3 targets, each may fail; 4 items; stop, drain and panic, or none; both policies | `EosOnce`, `DroppedForGood`, `ImplementsMulticast`, `MuxEnds`, `StreamProcessed` |
| `mux_drained_example` | 1 target, 2 items, drain | finding 3 |
| `tcp` | 2 frames each way, the second one empty; room for 2 tokens; both owners may stop; one receiver may fail | `FramesIntact`, `ImplementsConnection`, `AllExit`, `EveryFrameArrives` |
| `tcp_frames_lost_at_eof` | 1 frame, one way; the sender stops | finding 4 |
| `cron` | 1 name, 2 jobs that use it one after the other, 2 schedules of which one may end, 2 changes, 1 subscriber | `KeepsBeating`, `ScheduleAgreed`, `OneEnding`, `EndsAreUnderWay`, `ImplementsJobBoard`, `TableFollowsJobs`, `Executes` |
| `cron_pending_send` | 1 job, 1 change | finding 5 |
| `tcp_server` | 2 clients, 2 ports, 1 error of the operating system; Tls or not, watchdog or not | `KeepsAccepting`, `EndsForAReason`, `ImplementsReception`, `EndTogether`, `AllAccepted`, `SessionsEnd` |
| `pubsub` | 2 actors, 3 requests (among them up to 2 initial targets), 2 messages; both actors, both policies | `ServedThroughLatest`, `AnswersAddUp`, `ImplementsTopic`, `CallsReturn`, `Served` |
| `dependency_tracker` | the 4 dependencies of the repository, 2 with a major update; 2 passes | finding 6 |

Why the bounds are enough:

- `watchdog`: three requests are enough to register, ping and ping again (the ping
  whose timer is orphaned), to register twice with a ping in between, and for one
  actor to have a Timeout queued while its registration is renewed; two actors are
  enough for one to be suspended in a call while the other's request kills the
  watchdog. Two periods let timers overtake each other. The safety part is proved
  for any number.
- `mux`: four items with three targets let the failures fall on different items,
  with more items queued behind each, and the last target fail before, after and
  at the last item. The safety part is proved for any number.
- `tcp`: two frames are what it takes to put the payload of one behind the length of
  the other; capacity 2 is less than the three tokens of either direction, so that
  both writers wait at once; every point between two tokens is a point at which a
  stop, a kill or a reset may fall. The safety part is proved for any number.
- `cron`: one name used by two jobs is the case in which a late exit of the first
  can hit the second. Two changes allow a schedule to be replaced with an
  Execute queued, and again afterwards; or a subscriber to come and go. `detached`
  is unbounded in the type and reaches 2 in the run. The safety part is proved for any
  number of names, schedules, subscribers, jobs and changes.

- `tcp_server`: two clients are one that stalls, leaves or fails and one that waits
  behind it, with the same port or with different ones; one error is `accept`'s or
  `local_addr`'s. The safety part is proved for any number.
- `pubsub`: with three requests an actor joins, joins again and leaves, or leaves and
  joins again, with a message between any two; the other actor may be the dead one.
  Two messages make the one after a broadcast that ends the actor visible. The safety
  part is proved for any number.
- `dependency_tracker`: two updates show that the second branch begins at the first, the
  second pass what meets it. That `PullRequestsMade` holds when `Cargo.lock` is not
  ignored is proved (`PrsAreMade`), as are `OwnUpdateOnly` and `BackOnMain` for both.

`CHECK_DEADLOCK FALSE` is set everywhere: each of these systems may stop for good
(requests are bounded, sessions and jobs end).

### Properties
Every property is about steps of several actors; each of them comes with a mutant of
the modelled code that breaks it (`PROJECT.json`). A property is stated next to a
comment that names the code behind it. Beside the type invariants:

- `Guarded`: a registered subject always has a timer to come or a Timeout queued.
- `PunishedOnce`: kills, stops and open registrations together never exceed the
  Registers handled, however many stale timers there are.
- `CallsAreQueued`: nobody waits for an answer that cannot come any more; the request
  of an actor that waits is in the inbox of a watchdog that runs.
- `ImplementsRegistry`: an entry is used up by the one punishment carried out for it,
  nobody without one is touched, an answer goes to the call that is open, and only the
  death of a caller can close the registry.
- `RegistrationEnds`, `CallsReturn`, `PunishedActorsDie`: also when the watchdog dies.
- `EosOnce`: the end is announced at most once by the two paths that announce it.
- `DroppedForGood`: no queued item reaches a target that has failed.
- `ImplementsMulticast`, `MuxEnds`, `StreamProcessed`: as the inventory says.
- `FramesIntact`, `AllExit`, `EveryFrameArrives`: as the inventory says.
- `ImplementsConnection`: nothing is handed over twice, out of turn, after a frame that
  was lost, or after the end of the session.
- `KeepsBeating`: an alive job has a timer, a queued Execute, or executes.
- `ScheduleAgreed`: the schedule that is listed is the one the job runs on, or has
  queued.
- `OneEnding`: a subscriber hears of one end of a job, and nothing afterwards.
- `EndsAreUnderWay`: a job that lives off the table was told to end, and one on the
  table that has ended has an exit on its way to the manager.
- `ImplementsJobBoard`: each start and each removal is told once, of the job that is
  meant, also when its name is in use again by then.
- `TableFollowsJobs`, `Executes`: a disagreement of table and jobs is temporary; a
  job executes again and again.
- `KeepsAccepting`: the accept loop is neither broken off nor doubled by any failure.
- `EndsForAReason`: no client ends the server; what does is a stop, `local_addr`, a
  watchdog that has failed, or two clients with one port.
- `ImplementsReception`: clients are served in turn, once each, and never under the name
  of somebody whose session has not ended; after a stop one more is let in at most; it
  closes only for a reason that it has at that moment.
- `EndTogether`, `AllAccepted`, `SessionsEnd`: as the inventory says.
- `ServedThroughLatest`: who is served, and through which box, is what the last request
  handled says, whatever the answers were.
- `AnswersAddUp`: a subscriber that counts its answers knows whether it is subscribed.
- `ImplementsTopic`, `CallsReturn`, `Served`: as the inventory says; a watch error ends
  the actor.

### Fairness
Weak fairness, and only of what the runtime itself drives: the message loop of every
actor, the tasks of the timers, the clock of the watchdog, the sockets (a reset gets
through). The looping stream yields its next item eventually, and `Job::work`
returns; both are the caller's duty, and the code has no timeout for either.
`TcpServer` adds: `accept` returns when somebody waits, a handshake ends unless its
client stalls, and a reader notices that its client has left. In `PubSub` only the
actor's message loop is fair. `DependencyTracker` has no liveness: a command may hang.
No request, stop, drain, crash, failure of a target or panic is fair: owners may be
idle for ever. Weak fairness is enough because an actor with something to do is
not disabled again except by ending.

## Findings

Each is a run that TLC must find violated.

1. `watchdog_one_deadline`: `ra/watchdog/mod.rs:125` promises that a ping within the
   timeout prevents the termination. The handle of the timer that a ping starts is
   dropped (`impl.rs:85`); the second ping leaves it running, and it fires.
2. `watchdog_dead_subject`: `mod.rs:18` says an actor that terminates is cleaned up.
   `register` neither links nor monitors it (`impl.rs:47`), so its timeout is carried
   out, and counted, on a dead actor.
3. `mux_drained_example`: `examples/streammux.rs:115` expects a drained mux to die
   after the stream ends. It dies before.
4. `tcp_frames_lost_at_eof`: `session.rs:28` says that `frame_ready` is called when a
   frame is received. Frames still queued when the reader reports EOF are dropped.
5. `cron_pending_send`: `worker.rs:75` says `post_stop` cleans up any pending send. A
   timer whose handle was overwritten is left.

6. `dependency_tracker`: `DEPENDENCY_TRACKER.md:92` says that `--ci` creates branches,
   pushes, and creates pull requests. `git add ractor_actors/Cargo.toml Cargo.lock`
   (`pr_generator.rs:121`) fails because `.gitignore:7` ignores `Cargo.lock`: the new
   branch stays checked out with nothing committed, and so on for each dependency.

Seen while modelling, without a run of their own because no line of the repository
says otherwise: a ping that arrives when the Timeout is already queued in front of
it does not help; a caller of `stats` that dies while it waits takes the watchdog,
and everybody's registrations, with it; a SetSchedule for a job that has just exited
ends the manager and all jobs; a job dies when its next date passes between
`upcoming` and `to_std`; two clients behind different addresses with the same port end the
TCP server; once the watchdog has failed, the next client ends a server that uses
it, and its `TcpSession` may be left behind; one client that does not finish its handshake keeps all others out. The
dependency tracker bumps the package once for each update of a local run, and its
push from a fresh clone is rejected when an earlier pass has pushed that branch,
after which the next branch begins at the rejected one. Of what
`DEPENDENCY_TRACKER.md` describes the code has no retries (line 173), no update of a
pull request that exists (184) and no local commit under `--no-push` (84).

## Proofs

The theorems hold for every value of the constants that satisfies the assumption of
the module (`WatchdogAssumption`, `StreamMuxAssumption`, `TcpSessionAssumption`,
`CronAssumption`, `PubSubAssumption`, `TcpServerAssumption`; `DependencyTracker` has
none, its theorems name what they need): the constants are of their type, sets that name a part of another are subsets
of it, there are two sides of a connection, a wire with room for one part of a frame,
a port and a schedule. They use the safety part of `Spec` only, not its fairness.
The inductive invariants of `TcpSession`, `Cron` and `PubSub` were checked by TLC on the
instances of the runs before they were proved.

`WatchdogProofs.tla`
- `TypeCorrect`: `Spec => []TypeOK`. `TypeOK` is inductive; one lemma for each group of
  actions, and `SendKeeps`, `ReceiveKeeps` for the queue.
- `SubjectsGuarded`: `Spec => []Guarded`. `Guarded` alone is not inductive: aborting
  the timer stored in one registration could take away another subject's. The
  strengthening is `HandlesAreOwn`: the timer that a registration names belongs
  to that subject, and ids are not reused. With it an abort is local
  (`AbortIsLocal`), and Ping puts a new timer in the place of the aborted one.
- `AtMostOnePunishment`: `Spec => []PunishedOnce`. The strengthening is `TableFinite`,
  without which cardinalities say nothing; `ForgettingKeepsAccount` is the step in
  which a registration leaves the table.
- `NobodyWaitsInVain`: `Spec => []CallsAreQueued`. The strengthening is `OneCall`: an
  actor that lives has one call in the inbox at most, and waits for that one; an answer
  therefore takes away no other request of a caller that still waits.
- `WatchdogIsRegistry`: `Spec => ImplementsRegistry`, step by step. By `OneCall` the call
  taken from the inbox is the one its sender is in, or the sender has died; only then
  does a reply fail, and the registry closes.

`StreamMuxProofs.tla`
- `TypeCorrect`: needs `PumpInBounds` (a looping pump has not cast the end), without
  which the pump's cast is not an item.
- `AnnouncedOnce`: `Spec => []EosOnce`. Strengthened by `AnnouncedLast`: once the end is
  announced a stop is pending or the mux is gone, and a stop is taken before any
  message.
- `FailedIsDropped`: `Spec => DroppedForGood`, an action property, from `Dropped`: a
  target with a failure is not among the targets under that policy.
- `MuxIsMulticast`: `Spec => ImplementsMulticast`, step by step. `InOrder` is the
  invariant: the inbox is the run of items from `Seen` on, then `None` or the drain
  marker, and every target served has received exactly the items before it. An
  item is then a `Deliver`, the end an `Announce`, an exit a `Quit`, and all else
  stutters.
- `NobodyIsLeft`: `Spec => []EndIsUnderWay`, the safety half of `MuxEnds`: once the pump
  will not cast again, a port of the mux has in it what ends the mux.

`TcpSessionProofs.tla`
- `TypeCorrect`: needs `HasHead`, that the frame whose length is on the wire is still
  in the outbox.
- `FramesAreIntact`: `Spec => []FramesIntact`. That what was handed over is a prefix
  depends on everything between the two owners, so `StreamInv` follows a frame all
  the way, for each side: the Sends in its inbox go on where its outbox ends
  (`Writing`); the part it writes next is the one that follows the last part on the
  wire, or the one the reader wants (`Fits`), as long as the socket was not reset; the
  wire is a stretch of the stream that begins with the part wanted (`Stretch`); the
  reader is at the frame after the last one it passed on (`Reading`); and the
  FrameReady messages continue what was received (`Delivering`). A reset may cut the
  stretch anywhere because the side that resets has no writer left
  (`ResetByClosed`): nothing can follow the cut.
- `SessionsAreConnection`: `Spec => ImplementsConnection`, step by step. The frame of a
  FrameReady is the next one because `StreamInv` holds after the step.
- `NobodyIsLeft`: `Spec => []EndIsUnderWay`, the safety half of `AllExit`: the exit of a
  child is never missed by a session that runs, and a session that is down has none.

`CronProofs.tla`
- `TypeCorrect`, `BeatGoesOn` (`KeepsBeating`), `SchedulesAgree` (`ScheduleAgreed`) and
  `EndsOnce` (`OneEnding`), all from `CronInv`. `KeepsBeating` is inductive with the
  types and `Untouched` (a job has no message before it is spawned). `Agreed` says of
  the inbox what `ScheduleAgreed` chooses from it, and needs `OneName`: an update sent
  under one name would otherwise reach the job of another. `HeardInOrder` ties what
  was told to the events still in `sup`: a subscriber that heard of a start will see
  no second one, because the event was sent once (`StartsOnce`), and one that heard of
  the end is told nothing more, because the job is not on the table.
- `CronIsJobBoard`: `Spec => ImplementsJobBoard`, step by step. It needs besides that no
  listed job is killed (`KilledLast`): one that was killed before its loop began would
  count as started without anybody having been told.
- `EndsGetThrough`: `Spec => []EndsAreUnderWay`, from `EndsInv`. With `KilledLast` a job on
  the table dies through a report. `EndsAreLast`, that only a job that is gone was
  reported to have ended, makes the removal by such a report safe: it never leaves
  behind a job that lives, off the table and told nothing.

`PubSubProofs.tla`
- `TypeCorrect`, `LatestServes` (`ServedThroughLatest`), `AnswersCount`
  (`AnswersAddUp`), from `PubSubInv`: the messages and the requests in the inbox are
  those numbered from one number on, in order (`Numbered`), and table and answers are
  what the requests before it make them (`ServedTo`, `AddUpTo`). `LastPlace` finds the
  request that decides; `AnswersCount` counts sets that `Join` and `Leave` extend by
  one request.
- `PubSubIsTopic`: `Spec => ImplementsTopic`, step by step: a broadcast is a `Deliver`, or
  a `Quit` when a dead target ends it, as does whatever else ends the actor; a request
  handled, an actor that dies, and what only joins the inbox is a `Change` of the group.
- `NobodyWaitsInVain`: `Spec => []CallsAreQueued`, the safety half of `CallsReturn`. The
  strengthening is `AnswersOutstanding`: nobody waits for a broadcaster, whose requests
  are cast, so that whatever takes a request out of the inbox answers it.

`TcpServerProofs.tla`
- `TypeCorrect`, `AcceptsForEver` (`KeepsAccepting`) and `NoClientEndsIt`
  (`EndsForAReason`), from `ServerInv`. `KeepsAccepting` is inductive with the types.
  `EndsAreReasoned` says that whoever is told to end was so for a reason; for the name
  clash it needs `SessionsWereAccepted`: a session that runs, or ran, belongs to a client
  accepted earlier than the one the handler is busy with. `NoneTwice` (nobody is in the
  backlog or among the accepted twice, or in both) is invariant with it: the client at the
  door has had no session yet, so that a `TcpSession` spawned for it is of no session that
  is gone. `StopIsHeeded` says that
  nobody was accepted late while the handler is still at `accept`.
- `ServerIsReception`: `Spec => ImplementsReception`, step by step, from `ServerInv` and
  `NoneTwice`.

`DependencyTrackerProofs.tla`
- `PrsCarryTheirOwn` (`OwnUpdateOnly`) and `ReturnsToMain` (`BackOnMain`), for all
  dependencies and passes, if `main` is not the name of one. `TrackerInv` says what
  tree, branches and checked-out branch are at each step while nothing has failed
  (`Orderly`), and that nothing is published outside `--ci`.
- `PrsAreMade`: `Spec => []PullRequestsMade` when `Cargo.lock` is not ignored, as long as
  the manifest asks for every dependency, those enabled are among them, `main` is none, and
  what is released are versions (`VersionsAssumption`): the other side of finding 6. In the
  first pass (`FirstPass`) what is still to visit has no branch anywhere and what was
  visited has its pull request; after it nothing is pushed any more (`LaterPass`), because
  all that is updated is behind on main too (`OnlyOutdated`) and on origin already, so that
  branches that grow on one another in an old clone never get out.
- `UpdatesAreMajorOrMinor`, `MajorUpdateStays`, `MinorBumpBreaksBeforeOne`: the version
  rules, for all versions.

Only model-checked: all liveness (`RegistrationEnds`, `CallsReturn`,
`PunishedActorsDie`, `MuxEnds`, `StreamProcessed`, `AllExit`, `EveryFrameArrives`,
`TableFollowsJobs`, `Executes`, `EndTogether`, `AllAccepted`, `SessionsEnd`, `Served`),
which is beyond the prover; of `CallsReturn` (twice), `MuxEnds`, `AllExit` and
`TableFollowsJobs` the safety half is proved, that what is waited for is on its way. The
three of these halves that no run checks (`NobodyIsLeft` twice, `NobodyWaitsInVain` of
`PubSub`) hold for every instance by their proofs. Every invariant and every
refinement that a run checks is proved. No module declares a RECURSIVE operator.

## Plan

What is left: `TcpServer` could take `Registry` and `Connection` as instances, so that
its sessions and its watchdog are held to the promises proved of them instead of to
ones that it states again. The liveness properties wait for a prover that handles
fairness.
