# TLA+ for the Capsule8 sensor

The sensor (`src/pkg`, `src/cmd/sensor`) registers perf events with the kernel,
reads their ring buffers, turns samples into telemetry events and streams them
over gRPC to the clients that subscribed to them. This directory holds TLA+
modules of its concurrent core and of what it computes, TLC configurations that check them on small
instances, and proofs that TLAPS checks for every value of the constants.
`PROJECT.json` maps each definition to the lines it models, each property to a
mutation of the code that breaks it, and each hazard to its line.

## 1. The system

```
 kernel perf events
      | ring buffers (one per group of CPUs/cgroups)
 EventMonitor.Run  --dispatchChan-->  dispatchSamples
      (pkg/sys/perf/monitor.go)            | dispatchFn
                                     Sensor.dispatchSample ---- eventMap (subscription.go)
                                           | sub.data, one channel per subscription
   containers: docker, oci --inotify--> repeater --filter--+     (createPerfEventStream)
   tickers, chargens --------------------------------------+---> joiner --> filters, modifiers
                                                                         | stream.Data
                                             GetEvents (telemetry.go) <--+
                                                   | grpc Send
                                                 client
 Main: ServiceManager (profiling, telemetry) over one Sensor
```

| component | state | operations | what is hard | what makes it correct |
|---|---|---|---|---|
| event monitor (`sys/perf/monitor.go`, `maps.go`) | the registry: `events`, `eventfds`, `eventids`, `eventAttrMap`, `eventIDMap`; `isRunning`, `pipe`; the samples under way | Register*, UnregisterEvent, Enable*/Disable*, SetFilter, Run, Stop, Close | the reader and the dispatcher use copy-on-write maps without the lock that registrations hold; descriptors are reused; registrations fail half way; shutdown of three goroutines | the tables describe the same events; a sample is dispatched under the event that wrote it; no kprobe outlives its event; the maps are only changed in place when nobody reads them; Close ends |
| decoders (`decoder.go`) | decoders by name and by type | AddDecoder, RemoveDecoder, DecodeSample | several events on one tracepoint share one name | a registered event decodes (it does not always, section 3) |
| records and rings (`types.go`, `ringbuffer.go`, the rounds of `monitor.go`) | head and tail of a ring, samples of a round | write attributes, read records, merge the rings | layouts that depend on the attributes, wrap-around, lost records, clocks of several CPUs | what was written is read once, in order; dispatch by time; nothing stays behind |
| perf event subscriptions (`sensor/sensor.go`, `subscription.go`) | `eventMap`, one data and control channel each | createPerfEventStream, dispatchSample, cancellation | the map is replaced between the lookup and the send; channels are closed by another goroutine than the one that sends | each subscription gets the events it registered; a cancelled one leaves nothing behind |
| event filters (`file.go`, `kprobe.go`, `network.go`, `process.go`, `syscall.go`) | what a subscription has registered | register..., the decoders, unregister functions | filters are combined, validated, printed and parsed by the kernel; events the kernel lacks | what is registered selects what was asked for |
| syscall events (`syscall.go`) | a counted dummy event | register, unregister | count, registration and id change in three steps | the dummy is registered while somebody needs it |
| filter expressions (`expression/`) | none | NewExpression, Validate, Evaluate, KernelFilterString | NULL, types, patterns, two languages | both languages mean the same |
| process info (`sensor/process_info.go`) | tasks by pid | fork, rename, exec, exit, lookups | the cache lags behind, pids are reused | an event is given its own process, container and command line |
| joiner (`stream/joiner.go`) | `in`, `enable`, control and data channel | Add, Remove, On, Off, Close, loop | inputs come, go and end while elements are forwarded | a merge: nothing lost, repeated or overtaken; it ends when closed |
| stream operators, repeater, sources (`stream.go`, `repeater.go`, `ticker.go`, `chargen.go`) | one goroutine each | Map, Filter, Do, Buffer, Join, Split, Tee, Copy, Throttle, Limit, Valve, ..., NewStream of a repeater | closing has to travel up, draining down | results in order; they end after close; only who does not read holds up the others |
| telemetry service (`telemetry.go`) | the goroutines of one GetEvents call | GetEvents, Serve, Stop | the context is done before, during or after Send fails | a call that is over cancels its subscription |
| service manager (`services/`, `sensor/main.go`) | `services`, `stopChan`, `stopped` | RegisterService, Run, Stop | stop races with start, with signals and with another stop | the sensor outlives the services; Stop ends Run |
| container watching (`container/docker.go`, `oci.go`, `cache.go`, `sys/inotify`) | watches, triggers, a cache | addWatches, onDockerUpdate, pollLoop | files and inotify events race at startup | every container is watched; the last state is sent |
| container events (`container/stream.go`, `sensor/container.go`) | pairs of updates by id, the ids a filter follows | processEvents, convertEvent, repeater, filters, views | two sources for one container, one event for several subscriptions | an event is complete and in the order of a life; each gets what it asked for |

### Not modelled

Parsing of procfs, mount tables and tracepoint formats, decoding of raw data by
field offsets, system calls, configuration values, metrics and the Docker API
client (which the sensor does not use) are parsing or I/O without state of their
own. The generated API is generated, `String()` of expressions and the fields a
decoder copies are formatting. Credentials in the process cache
(`decodeCommitCreds`) are left out: they are an entry written by one sample and
read by the next, without the orders that make containers and command lines hard.
`nextSequenceNumber` is one unlocked addition.

## 2. The modules

| module | models | extends |
|---|---|---|
| `EventMonitor` | the monitor's registry, Run, dispatchSamples, Stop, Close | |
| `Records` | EventAttr.write, the records of perf events and how they are read | |
| `RingBuffers` | the rings, Run's rounds over them, the order of dispatch | Records |
| `Subscriptions` | createPerfEventStream, the subscription map, dispatchSample, cancellation | |
| `SyscallEvents` | the shared dummy event of system call kprobes | |
| `Expressions` | filter expressions: validation, evaluation, printing, the kernel's reading | |
| `Filters` | what the event filters of a subscription become | Expressions |
| `Registrations` | registering and unregistering the events of subscriptions | SyscallEvents |
| `FilteredRegistrations` | the same with the filters of a subscription | Registrations, Filters |
| `ProcessInfo` | the process cache, next to the kernel's tasks | |
| `Joiner` | the joiner's control messages and loop, over any input streams | |
| `Merge` | abstract: one sequence of the elements of several sources | |
| `JoinedStreams` | a joiner with inputs, callers and a consumer; refines `Merge` | Joiner |
| `Streams` | operators, generators, terminators, repeater and sources as programs of goroutines | |
| `Telemetry` | one GetEvents call: `Joiner` (by INSTANCE) over `Subscriptions`; refines `Subscriptions` | Subscriptions |
| `Services` | the service manager, Main, Serve and Stop of the two services | |
| `ContainerWatch` | the Docker sensor's walk, inotify instance, event handler and cache | |
| `Containers` | container events from the two watchers to the subscriptions | |
| `ContainerFilters` | the expressions of container filters | Containers, Expressions |
| `EventMonitorProofs`, `RingBuffersProofs`, `ServicesProofs`, `ProcessInfoProofs` | theorems about the module of that name | it |
| `RegistrationsProofs` | theorems about `SyscallEvents` and `Registrations` | Registrations |
| `ContainerProofs` | theorems about `ContainerWatch` and `Containers` | both |
| `StreamsProofs` | theorems about `JoinedStreams` and `Streams` | both |
| `TelemetryProofs` | theorems about `Subscriptions` and `Telemetry` | Telemetry |
| `MCEventMonitor`, `MCRingBuffers`, `MCRegistrations`, `MCStreams`, `MCServices`, `MCContainers` | the instances TLC checks | |

### EventMonitor

Everything that changes the registry holds `monitor.lock`; the goroutines that
handle samples never take it. A registration, a removal and a Close are therefore
split at each point where another goroutine can see what they did so far, and
`op` is the operation that holds the lock:

* `RegisterBegin` (AddKprobe, AddDecoder) - `RegisterOpen` (perfEventOpen: one
  descriptor for each group) - `RegisterAttrs` (stream ids, `eventAttrMap`) -
  `RegisterCommit` (`eventIDMap`, `eventfds`, `events`), or `RegisterFail` in
  between;
* `RemoveBegin` (`events`, `eventfds`, `eventids`, close) - `RemoveAttrs` -
  `RemoveIDs` - `RemoveDecoder` (RemoveKprobe, RemoveDecoder).

`RunStart` ... `RunSignal` are Run, with the poll loop `RunPoll`, `RunRead(g)`,
`RunSend`; `Dispatch...` are dispatchSamples, which copies `eventIDMap` once for
each list (`snapshot`) and fetches it again for a stream it does not find.
`CloseStop` ... `CloseFree` are Close(true). The kernel opens descriptors, which
may be numbers used before, and stream ids, which are never used twice;
`WriteSample` puts a sample into the ring of the group. A sample is its stream,
the name of its tracepoint and a time. A sample read before the reader knows the
stream's attributes carries no stream id and is never dispatched.

Left out: SetFilter, the pid and cgroup of a group; clocks and lost records are in
`RingBuffers`. `owner` is a history variable.

### Records, RingBuffers

Data are words of eight bytes. `WriteAttr` is EventAttr.write with its header
fix-ups, `ReadSample` reads a record at a position of a ring: the identifier that
chooses the attributes (`MaybeReadSampleID`), then the parts those ask for, in
their order (`ReadParts`). `KernelRecord` is external: the layout of
perf_event_open(2). `KernelWrite` puts a record into the space of a ring, counts
what does not fit and reports that in a LOST record later. `Poll`, `LoadHead(r)`,
`ReadRing(r)`, `RingDone(r)`, `SendSamples` are a round of readRingBuffers: the ring
whose `Turn` it is has its head loaded, records are read up to it while the kernel
writes on, samples later than the last of the first ring are set aside, and one
list is sent. `Dispatch` picks
the earliest of the list (`Earliest`; sort.Sort is not stable, so ties are open).
`RemoveAttrs`, `RemoveIDs` unregister an event between the kernel's writing and
the reading of its samples. The kernel keeps a ring from filling completely, so
the full ring of ringbuffer.go:99 does not occur.

What does not come back as it was written is named in the property
(`PartIsKept`): CounterGroup.read with GROUP stores no values (types.go:707-728).
A sample with branches does not come back at all: the struct that binary.Read is
given has no exported field (types.go:890-895), and that panics (`BranchPanics`).
`ReadPanics(r)` then takes the place of `ReadRing(r)` and nothing follows; `ReadsBack`
says that just these samples do it. No attributes of this program ask for branches.
Samples that cannot be read have time 0 and stream 0 and are dropped; cpuTimeOffset
returns the wrong error variable (monitor.go:867-869), and what it would have
reported goes unnoticed. fixupEventAttr leaves SampleFreq and WakeupEvents, so
attributes with them are refused. pendingSamples is appended to the list again in
the same call (monitor.go:659-661), so flushPendingSamples never has anything to
do; the first sample of a later ring is never compared.

The word taken for the identifier of a record that is no sample is looked for as far
behind the record as its own beginning is before the id (types.go:1090): after a LOST
it is never an identifier and the record is put aside as unknown; after a FORK, EXIT
or COMM it can be that of the next record. Where the ids of both have one length, as on
the second CPU of the run, no harm is done. With a FORK of stream 500 before a
sample of stream 501 instead, whose id is shorter, TLC finds `ReadsBack` violated:
the id is read with the wrong attributes and the rest of the ring from the wrong
place. The kernel writes these records for events with `Task` or `Comm` only, which
no attributes in this program set. EXIT has the layout of FORK and is not written in
the run.

### Subscriptions

`stage[s]` is the place of createPerfEventStream and of the goroutine it starts:
`RegisterEvent` (once for each event), `UpdateMap`, `EnableEvents`, and after the
control channel is closed `CancelRemove`, `CancelUnregister` (for each event),
`CancelClose`. The dispatcher looks the event up (`DispatchLookup`) and sends
(`DispatchSend`) in two steps, as anything may happen in between; a send to a
closed channel is `DispatchPanic`, which ends the program (`panicked`). Samples
reach it in one sequence (`transit`), as EventMonitor has one dispatcher;
`DropSample` is the monitor that no longer knows their event. The consumer of a
stream is free: it receives, and closes the stream once.

### Expressions, Filters, SyscallEvents, Registrations

`Expressions` has both readings of a filter: `Evaluate` (evaluate.go) on the
fields of an event, with NULL, and `KernelFilterString` (string.go) as tokens,
with the kernel's parser of them (`KernelTruth`, external: && binds more than ||,
comparisons of a field with a constant, no NULL). `ValidTree` and
`ValidKernelTree` are validation. `Filters` has, for each kind of event, what the
register functions make of the filters of one type: `OneEvent` joins them, a
filter without an expression letting everything through, `FileExpr`,
`ProcessExpr` and `SyscallExpr` rewrite the deprecated fields, `Plan` is the order
in which a request is registered. `Wanted` is what a subscriber means.

`SyscallEvents` splits the dummy event at each access to the shared counter and
id. Registrations run concurrently and without a lock, unregister functions one
at a time (safeSubscriptionMap.remove holds its mutex). In `Registrations` each
subscription walks through its plan; the kernel lacks some tracepoints and
symbols and refuses filters it cannot parse, which skips that event. After
`Cancel` all that was registered is undone. What becomes of a request's filters is
a parameter of it (`PlanOf`, `PanicsOn`, `KernelTakes`), to which
`FilteredRegistrations` gives the meaning of `Filters`: the order of steps is proved
for any plans, the meaning of filters is checked for those of the code.

What the properties except, and the code does: the kernel's string of `(a OR b)
AND c` has no parentheses, `IS NULL` prints nothing, and `!=` with `&` drops its
right side (`Misprinted`); a file filter with a CreateModeMask and no
OpenFlagsMask dereferences nil (file.go:78-81, `FilePanics`), and so does
containsIDFilter on an AND, an OR or an EQ without operands, which it meets before
NewExpression refuses it (syscall.go:74-85, `IDFilterPanics`); a dummy that could not
be registered is counted down twice, once at once and once when the subscription
is closed (syscall.go:189-226), and with no kprobe at all it stays counted.
kprobe.go and network.go do not call ValidateKernelFilter, so the kernel refuses
what the others refuse themselves.

### ProcessInfo

The kernel's tasks fork, create threads, execute, enter containers and exit
(external); most changes write a sample (`transit`), and `Handle` is the
dispatcher, which handles them later in the order of time. An execve(2) begins
(`ExecBegin`, the kprobe) and then fails or ends (`ExecEnd`, the tracepoint), with
anything in between. A task enters a container (`Join`) before it has created
another one, as runc does, which joins its control groups before it clones.
`DecodeNewTask`, `DecodeRename` and `DecodeExecve` are the decoders that fill the
cache; `LookupLeader`, `ContainerId` and `ExecCommandLine` are what NewEvent asks
it. Both lookups go from parent to parent: `Walk` is the least set closed under
that step, so that the module needs no recursion, and `WalkEnds` what it ends
with. The two caches, an array and a map, differ in what an absent entry is
(`Settable`, `Found`). A reader of /proc sees the task that has the pid now. When
a walk comes back to a pid it has passed the dispatcher goes round for ever
(`hung`).

lookupLeader says ok for a pid it does not know, as both fields are 0
(process_info.go:264-272); a thread that is not its leader keeps the command
line of an exec under its own pid; a reused pid may close a circle of parents. The
properties name these three cases.

### Joiner, Merge, JoinedStreams

The control channel has no buffer: a message is handed over when the loop is in
its `select` (`Listening`), so an operation and its handling are one action.
`LoopReceive` and `LoopSend` are two, as the loop waits for room outside the
`select`. In `JoinedStreams` inputs produce, end when told to or by themselves,
are added (once at a time, and not after they were told to stop) and removed, and
`emitted` and `sent` are the history that `Merge` describes.

### Streams

A program is a graph of stages (`MCStreams` lists nine). `Wired` says what the
constructors can build, and the theorems are about all of it: a stage is given
streams that exist, so that stages can be numbered from upstream to downstream, a
stream is written and read by one stage, and a source has a generator of its own. (A Join of
nothing, which returns at once, is left out.) Each stage is a
goroutine that receives, works, and sends, in the steps of its Go code. The
capacity of a channel and the reading of the control channel are those of the
stage's kind: `Receive` and `Generate` take an element in, `Send` puts one out
that waits, `HandOver` is a rendezvous on a channel without buffer, `Stop` and
`RelayStop` handle a closed control channel, `End` a closed data channel.
`Downstream` is what a stage feeds through the streams there are: it does not pass
a child that nobody has asked for yet.
`CloseCtrl`, `Turn`, `AddChild`, `Leave` are the owners of streams: they close each
control channel once (`Closable`).

The outputs of Split, Tee and Copy share the control channel of their input, as
every operator does, and Go panics when a channel that is closed is closed. A Join or a
joiner panics when two of its inputs share one, or when it, the repeater or the
owner comes second to one that is shared (`ClosesTwice`, `RelayPanics`,
`RepeaterPanics`, `OwnerPanics`); `Panic` ends the program as it is. The
programs `Rejoins` (a Split whose halves are joined) and `Siblings` (a Tee with a
repeater on one output and a subscriber on the other) do; `relayed` are the control
channels that stages have closed, the rest of `closedCtrl` their owners.
Elements that come two ways, as in `Rejoins`, may change places (`TwoWays`).

Limit stops reading after its last element, which blocks what is upstream, up to a
repeater and all its other children (`Deaf`); a child added to a repeater after
its input has closed never ends; the sources never close the generator they wrap
(`Wrapped`); generators do not look at their control channel while they wait to
send; Chargen with length 0 divides by zero (chargen.go:47), which no program here
has.

### Telemetry

`GetOff`, `GetRegister`, `GetAdd`, `GetOn` are NewSubscription; `GetReceive`,
`GetSent`, `GetSendFails`, `GetEnd` the loop of GetEvents; `CloseOnDone` its
goroutine. The joiner is `Joiner` with the data and control channels of
`Subscriptions` as its inputs, so "the joiner closes the stream" and "the
goroutine of the subscription sees it closed" is one variable. The other
subscriptions share the dispatcher. gRPC is external: Send returns or fails, and
the context is done when the client is gone or the handler has returned.

### Services

RegisterService and Run of Main, the signal handler, callers of Stop, the
goroutine that stops the services one by one, and Serve of each service. The
servers are external: one that was told to shut down makes its Serve return, and
the Stop of the service returns when its last request is over, which nothing
promises. `crash` holds what the program panicked with.

### ContainerWatch

Docker and the kernel's inotify are external: `Mkdir`, `WriteConfig` (a rename,
which only the mask cMask reports), `DeleteConfig`, `Rmdir`. `watch[c]` tells the
two masks apart: the walk watches a container with dirMask, which replaces the
watch with cMask that the trigger may have added before, so that updates of a
container that is there at startup, or appears during it, go unnoticed
(`noticed` is the history that says so). `PollEvent`, `PollControl` and the
`Control...` actions are pollLoop, which serves a control message only when no
event waits; `Walk...` is addWatches, split where it waits for pollLoop and
between reading a file and updating the cache; `Handle...` is the goroutine of
stream.ForEach, which reads the file when it handles the event. `aborted` is a
walk that ended with an error, which the code drops: the rest of the containers
is then never watched. oci.go runs the same code over config.json. Left out: a
queue that overflows (handleInotifyBuffer would use a nil watch), watches the
kernel refuses, a Docker directory that does not exist.

### Containers

The runtimes (external: `Create`, `Update`, `Prepare`, `Start`, `Exit`, `Destroy`)
write and remove a container's two files; inotify may tell of it or not (`Noted`:
which changes it tells of is the matter of `ContainerWatch`). A watcher takes its
inotify events in turn (`ReadDocker`, `ReadOci`) and reports, in a channel of its
own, what the file says *by then* (`OnDockerConfigUpdate`, `OnOciConfigUpdate`), or
nothing when it is gone. So a state that was written can be passed over or be
reported twice. `HandleDocker` and `HandleOci` are one turn of processEvents:
`ProcessEvents` translates the state, `Pair` holds an update until its other half
comes (`createdMap`, `startedMap`), `Repeat` hands the event out. A subscription's
`Take` filters by type and expression (`ExprOf`, which is LogicalOr of its
filters), clears what its view leaves out, in the event that others share, and
applies its container filter (`Followed`); `Send` gives it to the client. What its
filters let through is a parameter (`TypesLetThrough`, `VerdictOn`), to which
`ContainerFilters` gives the meaning of `Expressions`.

The properties name what differs from the plain statement. Pairs go by state
alone. When "created" and "running" are written before the handler reads the file
(docker.go:177), both events report "running" and the two Docker halves pair; when
a "running" is passed over, its OCI half pairs with that of the next start, and a
RUNNING event goes out with pid 0. `uneven` has the containers this may happen to:
those of which a start went unnoticed, a file was read when it was of another
start than its event or of none, Docker wrote the file again within a start, or
one watcher was handled a start ahead of the other. `RunningIsComplete` excepts
them and shows that nothing else mixes starts. LogicalOr of nothing and e is e, so a filter without an expression next to one
with narrows it (container.go:237), and convertEvent has no name to compare
(`Special`); a RUNNING event may follow EXITED or DESTROYED; when all filters are
invalid the stream is nil (sensor.go:497-502); the pattern `*` alone panics
(evaluate.go:191-193); exit codes are decoded twice (container.go:157). Entries
of the two maps whose other half never comes stay.

## 3. The runs

| run | instance | distinct states | shows |
|---|---|---|---|
| `EventMonitor` | 1 tracepoint and kprobes, 1 group, 2 descriptors, 2 events, 3 streams, 2 samples, channel of 1 | 1.7 million | the registry, the owner of a sample and shutdown, in every interleaving |
| `EventMonitorLive` | 2 groups, 2 descriptors, 1 event, 2 samples | 72 000 | Close returns, samples are dispatched |
| `RingBuffers` | 2 rings of 16 words, 4 kinds of attributes, 5 types of records, 3 writes, channel of 1 | 552 000 | records are read back, order of dispatch, nothing forgotten |
| `SubscriptionsSend` | 2 subscriptions, 2 events, 3 samples | finding | a send to a channel that was closed |
| `Registrations` | 2 subscriptions, one with any of the requests of `MCRegistrations`, kernels with and without events | 100 000 | the meaning of filters, the dummy event, nothing left behind |
| `ProcessInfo` | 3 pids, 4 tasks, 1 container, 2 samples on the way, 2 other samples | 1.2 million | process, container and command line of an event |
| `JoinedStreams` | 2 inputs of 2 elements, channels of 1 | 19 000 | the joiner refines Merge; it drains, and ends |
| `Streams` | 9 programs of up to 6 stages, 1 to 4 elements a generator, buffers of 1 | 161 000 | results, ends, panics, who holds up whom |
| `Telemetry` | the client and another subscription, 2 events, 3 samples, channels of 1 | 62 000 | routing, cancellation, the refinement, the end of a call |
| `Services` | the two services, a signal, two callers of Stop | 580 | shutdown |
| `ContainerWatch` | 2 containers, 2 writes each, channel of 1 | 426 000 | the walk, the trigger and the events together |
| `Containers` | 1 container with 2 starts, 1 update, 2 exit codes, 2 inotify events and 1 report waiting; with 2 subscriptions with the requests of `MCContainers`, one of them at a time and starts even | 1.8 million | completeness and order of events, filters, views, container filters |

Why the bounds are enough: two descriptors and three streams let a descriptor be
closed and used again by another event, with samples of the first still in the
ring, in the channel or with the dispatcher; two events let one be registered
while the other is removed; a channel of one is full after one element, so every
sender waits somewhere; the third sample is there when one is held by the joiner
and one by the dispatcher. Two subscriptions are what it takes to confuse them;
two inputs what it takes to lose the order of one to the other. Of two containers
one can abort the walk before the other, and two writes and a deletion let the
handler read a file later than its event. Sixteen words hold one or two records,
so a ring wraps and overflows within three; two rings have clocks that disagree
by a round. Three pids and four tasks let a pid be used again while a thread and
its leader exist. A container with two starts has two pairs that may be mixed. The watchers are as
late as the queues allow when there are no subscriptions; with subscriptions a
state constraint (`BehindOrSubscribed`) lets one event or report wait at a time
and stops at the first container that is `uneven`, as what subscriptions get
depends on the events that are sent and not on how late they are.
Bounds that are not in the code (`MaxEventID`, `MaxStream`, `MaxTime`,
`MaxSamples`, `MaxElements`, `MaxChanges`, `MaxTasks`, `MaxEvents`, `MaxWritten`,
`MaxStarts`, `MaxUpdates`, `MaxUnread`, `MaxQueue`, `MaxBehind`, `MaxWrites`) stand in guards of
the environment's actions only. Deadlock is not checked: the counters are bounded,
and the sensor may be idle or end.

### Properties

* `EventMonitor`: `RegistryConsistent` (the five tables), `DispatchesOwner`,
  `QuietWhenStopped`; live: `CloseReturns`, `SamplesAreDispatched`.
* `RingBuffers`: `ReadsBack`, `DispatchedInOrder`, `NothingIsForgotten`.
* `Registrations`: `DummyCounted`, `DummyWhileProbed`, `NothingLeftBehind`,
  `FiltersKeepTheirMeaning`, `SyscallsNeedAnID`.
* `ProcessInfo`: `ProcessIdIsTheLeaders`, `ContainerIsTheTasks`,
  `CommandLineIsTheExecs`, `HangsOnlyOnReuse`.
* `JoinedStreams`: `ImplementsMerge`, `ClosedIsDrained`, `CloseEnds`.
* `Streams`: `ResultsInOrder`, `NothingIsLost`, `EndsWhenClosed`,
  `OnlyTheDeafHoldUp`; the last two speak of the states in which no goroutine can
  go on (`Quiescent`), which bounded generators reach in every fair run.
* `Telemetry`: `EventsAreRouted`, `CancelledIsGone`, `NoNewDeliveries` (those
  three are stated in `Subscriptions`), `ImplementsSubscriptions`, `DoneCancels`.
* `Services`: `SensorOutlivesServices`, `StopEndsRun`.
* `ContainerWatch`: `ContainersWatched`, `KnowsTheLastState`, `WalkEnds`.
* `Containers`: `LifecycleInOrder`, `RunningIsComplete`, `FiltersAreAUnion`,
  `ViewsAreGiven`, `FollowsItsContainers`, `CrashesOnlyOnBadRequests`.

Where the code falls short of the plain statement the property names the only
ways in which it does. The type invariants (`TypeOK`) and `KprobesTracked` are
proved and in no run.

### What disagrees with the documentation

* `SubscriptionsSend`: the comment at sensor.go:434 says that pending events are
  discarded; one that was looked up before is sent to a channel that is closed
  by then, which panics.

Others are in the models, and have no run of their own:

* RemoveDecoder goes by name (decoder.go:223), so unregistering one of two
  events on a tracepoint leaves the other without a decoder, against "a
  stream.Stream of api.Events matching the specified filters" (sensor.go:470).
* "Closing the Stream cancels the subscription" (sensor.go:472); a joiner that
  waits for a consumer that has gone (joiner.go:143) never sees the close.
  `DoneCancels` shows that this is the only way a call that ends fails to
  cancel, `OnlyTheDeafHoldUp` that it can hold up every subscriber of a repeater.
* "It's ok to call Stop multiple times" (manager.go:103); the second call before
  the services have stopped closes a closed channel.
* "The information is removed when the container is removed" (cache.go:22); one
  that is removed while the walk holds its file is added afterwards
  (docker.go:304). `KnowsTheLastState` names this window.
* onDockerConfigUpdate says that only the first of several updates must be sent
  (docker.go:171-173) and sends each, which pairs two Docker events as the halves
  of one (container.go:57-59).
* The filter of a subscription clears the configurations in an event that others
  share (container.go:302-305), where the comment (276-278) and subscription.proto:254
  speak of that subscription's view.

### Fairness

Goroutines that can go on do (weak fairness of the loop steps, of operations
that hold the lock, and of each subscription's cancellation). A goroutine that
waits for a `sync.Mutex` gets it in the end (strong fairness of the monitor's
steps that take the lock: Go's mutex hands the lock to a starving waiter). Go's
`select` picks a ready case at random, so it does not pass over the closed
control channel of a joiner for ever (strong fairness of `LoopControlClosed`).
Nobody has to call anything, the kernel need not write, a client need not read,
other subscribers need not receive, Send need not return before its context is
done, Docker need not do anything, and the Stop of a service need not return. In
`ContainerWatch` the handler is assumed to get rid of what it sends. In `JoinedStreams` alone the
consumer receives and an input that is told to stop does, which is the contract
of a stream; `Telemetry` replaces both by the real ones. The other specifications
have no fairness: their properties are about steps and states.

## 4. The proofs

All theorems are about the specifications the runs check, for every value of the
constants that satisfies the named assumptions.

**EventMonitorProofs** (assumes `TracepointsAreNames`, `GroupsExist`, `BoundsAreNat`).
`TypeInvariant` is inductive as it stands. The rest of the argument splits a step
into one that changes the registry (`RegistryStep`) and one of the goroutines,
which leaves it alone (`RegistryStays`).

* `QuietInvariant`: `QuietWhenStopped` is not inductive; `Handshake` adds how far
  Run has come (isRunning while Run is between its start and its signal, the
  dispatcher's states for each of Run's, the empty closed channel at its end).
* `RegistryInvariance`: `RegistryConsistent` only speaks of a free lock. Its
  inductive form `RegistryInv` says for every state what each table holds:
  `DescriptorInv` (descriptors are those of the events and of the operation under
  way, of one event each), `StreamInv` (streams of open descriptors are distinct
  and older than the next one), `TableInv` (what a half finished registration or
  removal has added to or left in each map).
* `OwnerInvariance`: `OwnerTables` (eventIDMap and the descriptors agree with
  `owner`) and `OwnerDispatch` (so does the dispatcher's old copy). It rests on
  streams being used once, `StreamInv`.
* `KprobeInvariance`: `KprobeInv` adds the kprobe of the operation under way and
  that decoders of kprobes have names of their own.

**TelemetryProofs**, on `Subscriptions` (assumes `SubscriptionBounds`). `TypeInvariant`
is inductive. `RoutedInvariance` needs `OwnedInv` (what a subscription registered is
its own, and the map sends it there) and `RoutedInv` (the dispatcher and the
channels hold what their subscription registered; events are never taken from
`subEvents`). `CancelInvariance` needs `StageInv`: what is in the map and in the
monitor at each stage. `NoNewDeliveriesHolds` is an action property from the same
invariant. On `Telemetry` (assumes `MineIsASub` too), `JoinInv` says that the joiner
holds no other input than the client's stream, and that only after it was
opened. With it each step of the composition is a step of `Subscriptions` or a
stutter (`StepImplements`): `Implementation`. The invariants of the subscriptions
then hold of the composition without another proof: `ClientIsServed`.

**RingBuffersProofs** (assumes `SizeIsPositive`, `WritesAreNat`, `SourcesHaveRings`,
`StreamsHaveIDs`, `ClocksAreTimes`, `RecordsAreWords`: a record is words, whatever
its layout). Most lemmas are about lists of things that need no type (`List`).

* `RingInvariant`: `PositionsOK` (the head that was loaded lies between the tail and
  the head, which are less than a ring apart: the kernel never writes over words
  that are not read), `WillBeRead` (a ring that is not empty is woken, or ready
  and not yet found empty), `HeldBehind` (samples are set aside behind others only:
  the first sample of a ring is never set aside, so the list that takes them along
  is sent). `NothingForgotten` follows.
* `DispatchInOrder`: `OrderInv` follows a time through the monitor. What is unread in
  a ring that is done with was written after the poll, and what is unread in any
  ring after the polls of all samples that were sent (`UnreadIsLate`); so a sample
  that is sent later may follow any that was sent before (`QueueInOrder`: from list
  to list `After`, within a list by `Earliest`). That a sample has the time its
  record was written at is what `ReadsBack` says, about a recursive function of the
  words, which TLC evaluates and the prover cannot: the theorem is of
  `Spec /\ []ReadsBack`, and uses nothing else about records. The run `RingBuffers`
  checks that `ReadsBack` holds.

**RegistrationsProofs** (assumes `SubsFinite`). `SyscallInv`, about `SyscallEvents`,
says, until a registration of the dummy fails, that the counter is the number of
those that count (`Counting`), that one subscription at a time is registering it,
that the id somebody has read is the known one or that others still count, and
that the last one unregisters an event nobody else knows. `DummyIsShared`: whatever
the requests are, `Registrations` does with the dummy what `SyscallEvents` says, so
both invariants hold of it (`SharedDummyIsRight`). `NothingStays` needs `StageInv`,
which relates the place of a subscription in its plan to that of its dummy
(`InStep`) and to the events it has (`HasEvent`: who counts will unregister,
because the enter event that took the count is still to be undone).

**ServicesProofs** (assumes `ServiceListIsSequence`). `SensorOutlivesServices`
needs that Main registers the list in its order (`RegisteredInOrder`), that Run
works on all of it (`RunHasAll`) and that the sensor is stopped last.

**StreamsProofs**, on `JoinedStreams` (assumes `JoinCapIsPositive`, `MaxElementsIsNat`).
`Accounted`: what an input has produced is sent, held by the loop, or in its
channel, in this order; `ThereOrDrained`: a stream that was added is still an
input or has ended empty; `EndsEmpty`: the loop ends without inputs. From these
`DrainedInvariance`, and `MergeImplementation`: a send is Merge's step, the end of
the loop its end, everything else a stutter.
On `Streams` (assumes `BufferCapIsPositive`, `ProgramsAreWired`), for programs of any
size. `CtrlOf` and `Downstream` are recursive functions, and that they exist is
proved first: the set of what can be `Reached` along a relation solves their
equations (`CtrlIs`, `DownstreamIs`). Induction over the stages is by the first, or
the last, counterexample (`FirstOf`, `LastOf`: `<` on the naturals is well
founded).

* `ProgramInvariance`: `ProgramInv` says of a stage that what it has to send goes to
  open streams (`SendsToOpen`: nobody sends to a closed channel), that it reads its
  inputs until they are closed (`ReadsOpen`), that it returns at the end of its
  inputs or at its limit (`ReturnsAtEnd`), and that it has told its inputs if it was
  told (`TellsInputs`); and of a channel that it is open while its stage runs
  (`ChannelOK`). Most steps change one stage and what it writes (`Moved`), or only
  what is still to be sent (`Going`).
* `OnlyTheDeafAlways`: when nothing can go on, a stage that cannot send waits for one
  that is deaf or waits itself (`WaitsForWaiting`), which is further downstream, so
  that the last one of the chain waits for a deaf one (`WaitsForTheDeaf`).
* `EndsWhenClosedAlways`: from downstream, everyone has closed what they read
  (`StreamsAreClosed`: an operator through the control channel it shares, a merger
  or a repeater by telling its inputs); from upstream, there is no first stage that
  was told and has not returned (`NoStray`), as its input would be fed by an earlier
  one (`FedByAStray`). Its other half is `PanicsOnlyWhenShared`: the invariant
  `ClosersInv` knows who has closed what (a stage that was told closed the control
  channels of its inputs, the owners of terminators and repeaters the rest), so that
  a second close comes from a second stream with that control channel.

What becomes of the elements is proved for all these programs too. An element is
its generator and a number (`Map` changes the sign, so its `Size` stays). Every
step makes an element, takes one, puts one, or moves none (`StepEffect`), and the
invariants are about these four.

* `OnlyWhatIsMade`: `FlowInv`. Each channel keeps to its capacity, and what is in
  it was made by a generator it is `Below`.
* `ElementsStayInOrder`: `OrderInv` says of each generator that what is further
  downstream was made earlier: within a channel, from channel to channel, and from
  a channel to what has been received. Its hypothesis `OneWay` is that no stage joins
  two streams of the same generator; with two ways between them elements do come
  twice and out of order, in the code as in the model.
* `ElementsDoNotVanish`: `Ahead` is where an element will come to, and with which
  number, if those on the way read it: the places that are `Reached` by what each
  stage sends of it (`Forwards`). Nothing is said of a limit and of chargenSource,
  which send by a count, and of an overflow, which may drop it; a repeater sends to
  its open children. A step of any kind leaves an element `OnWay` or hands it to
  the terminator.
* `EverythingArrivesAlways`: `Conserved` says it of all that was ever made, for
  what each generator's k-th element is sure to come to (`SureOf`; children
  of repeaters are not, since they come and go). It needs `SendsLast`: what a
  generator has still to send is what it made last, which is all that an iota told
  to stop can lose. `Drained` is why nothing stays on the way: a stage
  that has returned, or looks away from an input, left it empty.
* `ResultsHaveNoGaps`: what is missing would be upstream (`Conserved`), but what is
  upstream was made later (`OrderInv`).

**ContainerProofs**, on `ContainerWatch` (assumes `WatchBounds`). Both invariants speak of what
has been told of a container. `ContainerInv` accounts for each one in every
state: the walk still has it before it or an event of it is in the inotify queue
(`WillBeWatched`), what was deleted stays deleted and is forgotten or will be
(`DeletedForGood`), a write after the watch is queued (`UpdatesAreWatched`), and
what the handler or the walk holds is there or superseded (`NoticedIsTold`,
`ReadIsThere`, `CacheIsTold`). `ContainersAreWatched` and `LastStateIsKnown`
follow.
On `Containers`, for any filters and with no assumption, `ContainersInv` has four
parts.

* `QueueInv`: what a watcher has reported and what it has not read yet are behind
  the container's state, its creation first and its removal last, for each watcher
  on its own and however late it reads; the starts are in order unless the
  container is `uneven`.
* `LifeInv`: how the two are joined. The starts still to come from a watcher are
  those it has reported and those it has not read (`Runs`), and for Docker one
  that is being made (`Coming`); reading moves a start from one to the other, or
  makes the container `uneven` (`RunsRead`). `InTurn` says that they are the same
  for both watchers, but for the one that is held back, which is the earliest one
  watcher has handed over and the other has not; `uneven` containers, whose pairs
  are mixed, are excepted. With what was sent being over (`SentIsPast`,
  `CreatedBefore`, `DestroyedAfter`) the order of events follows
  (`LifecycleInvariance`, for `uneven` ones too), and that a RUNNING event is merged
  from two halves of one start (`RunningIsWhole`).
* `ViewsInv`: an event that lost its configurations did so to a subscription
  whose view leaves them out, and what waits for such a subscription has none
  (`ViewsInvariance`).
* `FollowInv`: what a container filter has made of the events it has seen
  (`FollowedUpTo`). It rests on the order of a life, as nothing but a RUNNING event,
  which has no name, comes after the DESTROYED one that ends it
  (`FollowInvariance`).

`CrashesAreRequested` is about both ways in which a subscription can take the
sensor down: the program has crashed exactly if it joined the nil stream of a
subscription that no type was let through for, or if a subscription it serves took
an event whose verdict is a panic (`HasPanicked`). It needs that an event that was taken
keeps its verdict, whatever others clear of it or translate after it (`PanicsStay`).

**ProcessInfoProofs** (assumes `PidBounds`, `CounterBounds`, `ContainerNames`).
The cache is behind the kernel by the samples on the way, so what it says has to
be true of tasks that have gone. `KernelOK` is about the tasks (a thread group
has one leader, which has its pid as long as there are others; who created
tasks has not entered a container since), `CacheOK` about the form of the
entries, `InOrder` says that a sample of a task follows that of its creation, and
`LinesOK` which exec the command line of an entry is of. Three maps, which an
existential hides, say of the last task each pid had what no variable remembers:
the id of its process (`ids`), and, as long as no pid was reused, its age and the
container it was last in (`ages`, `homes`). Entries and samples agree with them, and
a parent is older than its child. What a recursive walk would need induction for
then follows from `Walk` being the least closed set: a set that is closed contains
it (`WalkStays`), so all that it passes has one process id, or one container, and
as the youngest pid on it is the first and the oldest has no successor, it ends.

Only model-checked:

* everything live (TLAPS has no ENABLED);
* `ReadsBack`, since `ReadAll` is a recursive function of the words (induction over
  data);
* the meaning of filters, which `FilteredRegistrations` (`FiltersKeepTheirMeaning`,
  `SyscallsNeedAnID`) and `ContainerFilters` (`FiltersAreAUnion`,
  `CrashesOnlyOnBadRequests`) evaluate with recursive operators on expressions. Of
  the last one the half that is about subscriptions is `CrashesAreRequested`; that
  only certain filters let no type through, or panic, stays with TLC;
* `ResultsInOrder` and `NothingIsLost` of `Streams`, which compute with folds over the
  operators of a program what each terminator gets (induction over data), and are
  of the programs of `MCStreams`. `ElementsStayInOrder`, `ResultsHaveNoGaps`,
  `ElementsDoNotVanish` and `EverythingArrivesAlways` are what they mean for every
  program, but for the counts of limits and chargenSource and what an overflow drops.

Every other safety property of the runs is a theorem.

## 5. Done and left

Done: the event path from the words of a ring to the client, what becomes of the
filters of a subscription, the process cache, the streams and their sources,
container watching and container events, and shutdown.

Left, in this order:

1. One program of GetEvents with its filters and modifiers: `Telemetry` over the
   stages of `Streams`.
2. Recursive inotify watches and their removal; credentials in the process cache.

## 6. Running it

```
tlc -config EventMonitor.cfg MCEventMonitor
tlc -config Telemetry.cfg Telemetry
tlc -config Streams.cfg MCStreams
tlapm EventMonitorProofs.tla
```
