----------------------------- MODULE Containers -----------------------------
(***************************************************************************)
(* Container events: pkg/container joins what the watchers of Docker's and *)
(* of the OCI runtime's configuration files report, pkg/sensor/container.go*)
(* translates it to API events, merging those that come twice, and its     *)
(* repeater hands every event to every subscription, which filters it by   *)
(* type and expression, reduces it to its view, and restricts it to the    *)
(* containers of its container filter.  What becomes of the expressions is *)
(* a parameter here: ContainerFilters gives it its meaning.                *)
(*                                                                         *)
(* The runtimes are external: they write the files of a container as they  *)
(* create, start, stop and remove it.  The two watchers are independent.   *)
(* Each takes the inotify events of its files in turn, reads the file as   *)
(* it is by then, and what it reports waits in a channel.  Which changes   *)
(* inotify tells of is the matter of ContainerWatch: any may go unnoticed  *)
(* here.  A file is read whole; the runtime's is not replaced by a rename, *)
(* so one that is being written could be read in part, but only by an      *)
(* event of an earlier start, which is late then in any case.              *)
(*                                                                         *)
(* A configuration is known by the number of starts when it was written,   *)
(* plus one, and the first process of a start by its number.               *)
(***************************************************************************)
EXTENDS Integers, Sequences

CONSTANTS
  Ids,          \* the containers
  Details,      \* container :> its name, image id and image
  Subs,         \* the subscriptions
  Requests,     \* what the subscriptions may ask for; one that asks for None does not come
  ExitCodes,    \* what containers exit with
  MaxStarts,    \* bound: starts of a container
  MaxUpdates,   \* bound: updates of a container's configuration that change nothing
  MaxUnread,    \* bound: inotify events a watcher has not handled
  MaxQueue,     \* bound: what waits in a channel
  MaxBehind,    \* bound: events a subscription has not filtered
  TypesLetThrough(_),  \* the types of events that a list of filters lets through
  VerdictOn(_, _, _)   \* what the filters make of an event of a type with these fields:
                       \* "true", "false", "error", or "panic"

None     == [none |-> TRUE]
NoConfig == 0
NoDetails == [name |-> <<>>, imageId |-> <<>>, image |-> <<>>]   \* empty strings

VARIABLES
  \* the runtimes
  runtime,      \* container :> its state, its starts, the updates of its file, its last exit code
  \* the watchers
  dockerWrites, ociWrites,  \* inotify events: the id, update or delete, and, as history,
                            \* the configuration that was written when it is of a start
  docker, oci,  \* what they have reported
  \* ContainerEventRepeater
  createdMap, startedMap,
  events,       \* what it has handed to its repeater, as the subscriptions share it
  \* subscriptions
  stage,        \* subscription :> "idle", "open", "closed", or "nil": its stream was nil
  request,      \* what it asks for
  taken,        \* how many of the events it has filtered
  containerIds, \* its containerFilter's
  out,          \* what passed and is to be sent to the client: numbers of events
  crashed,      \* a nil pointer was dereferenced, or a slice out of range
  \* history
  since,        \* how many events there were when it subscribed
  uneven        \* containers whose starts were not reported evenly: Docker wrote the file twice
                \* for a start, a file was read when it was another's or no start's, or a write
                \* went unnoticed, or one watcher was a start ahead of the other

watchVars   == <<dockerWrites, ociWrites, docker, oci>>
runtimeVars == <<runtime, watchVars>>
mergeVars   == <<createdMap, startedMap, events>>
subVars     == <<stage, request, taken, containerIds, out, crashed, since>>
containerVars == <<runtimeVars, mergeVars, subVars, uneven>>

-----------------------------------------------------------------------------
(* The runtimes (external) *)

\* The event of a change is queued when inotify notices it.
Noted(writes, c, kind, config) == {writes, Append(writes, [id |-> c, kind |-> kind, config |-> config])}

Writes(dockerNoted, ociNoted) ==
  /\ dockerWrites' \in dockerNoted /\ Len(dockerWrites') <= MaxUnread
  /\ ociWrites' \in ociNoted       /\ Len(ociWrites') <= MaxUnread
  /\ UNCHANGED <<docker, oci, mergeVars, subVars>>

Change(c, from, to) ==
  /\ runtime[c].state \in from
  /\ runtime' = [runtime EXCEPT ![c].state = to]

Create(c) ==
  /\ Change(c, {"none"}, "created")
  /\ Writes(Noted(dockerWrites, c, "update", NoConfig), {ociWrites})
  /\ UNCHANGED uneven

\* The file is written again, as it is right after the creation.
Update(c) ==
  /\ runtime[c].state \in {"created", "running"}
  /\ runtime[c].updates < MaxUpdates
  /\ runtime' = [runtime EXCEPT ![c].updates = @ + 1]
  /\ Writes(Noted(dockerWrites, c, "update", NoConfig), {ociWrites})
  /\ UNCHANGED uneven

\* The configuration for the OCI runtime is written before it starts the container.
Prepare(c) ==
  /\ runtime[c].starts < MaxStarts
  /\ Change(c, {"created", "exited"}, "prepared")
  /\ Writes({dockerWrites}, Noted(ociWrites, c, "update", runtime[c].starts + 2))
  /\ uneven' = IF ociWrites' = ociWrites THEN uneven \cup {c} ELSE uneven

Start(c) ==
  /\ runtime[c].state = "prepared"
  /\ runtime' = [runtime EXCEPT ![c].state = "running", ![c].starts = @ + 1]
  /\ Writes(Noted(dockerWrites, c, "update", runtime[c].starts + 2), {ociWrites})
  /\ uneven' = IF dockerWrites' = dockerWrites THEN uneven \cup {c} ELSE uneven

\* The OCI runtime's configuration is removed.
Exit(c, code) ==
  /\ runtime[c].state = "running"
  /\ runtime' = [runtime EXCEPT ![c].state = "exited", ![c].code = code]
  /\ Writes(Noted(dockerWrites, c, "update", NoConfig), Noted(ociWrites, c, "delete", NoConfig))
  /\ UNCHANGED uneven

Destroy(c) ==
  /\ Change(c, {"created", "exited"}, "dead")
  /\ Writes(Noted(dockerWrites, c, "delete", NoConfig), {ociWrites})
  /\ UNCHANGED uneven

Runtimes ==
  \E c \in Ids : \/ Create(c) \/ Update(c) \/ Prepare(c) \/ Start(c) \/ Destroy(c)
                 \/ \E code \in ExitCodes : Exit(c, code)

-----------------------------------------------------------------------------
(* pkg/container/docker.go and oci.go *)

DockerEvent(c, state, starts, code) ==
  [source |-> "docker", id |-> c, state |-> state, pid |-> IF state = "running" THEN starts ELSE 0,
   config |-> starts + 1, exitCode |-> code]
OciEvent(c, state, config) == [source |-> "oci", id |-> c, state |-> state, config |-> config]

\* The file as it is now; one that is gone is not reported.
OnDockerConfigUpdate(c) ==
  LET r == runtime[c]
      state == IF r.state # "prepared" THEN r.state ELSE IF r.starts = 0 THEN "created" ELSE "exited"
  IN  IF state \in {"none", "dead"} THEN None
      ELSE DockerEvent(c, state, r.starts, IF state = "exited" THEN r.code ELSE 0)

OnOciConfigUpdate(c) ==
  CASE runtime[c].state = "prepared" -> OciEvent(c, "running", runtime[c].starts + 2)
    [] runtime[c].state = "running"  -> OciEvent(c, "running", runtime[c].starts + 1)
    [] OTHER                         -> None

\* onInotifyEvent
OnDockerEvent(w) == IF w.kind = "delete" THEN DockerEvent(w.id, "dead", 0, 0) ELSE OnDockerConfigUpdate(w.id)
OnOciEvent(w)    == IF w.kind = "delete" THEN OciEvent(w.id, "stopped", NoConfig) ELSE OnOciConfigUpdate(w.id)

\* The configuration of the start a report is of.
ConfigOf(report) == IF report # None /\ report.state = "running" THEN report.config ELSE NoConfig

\* handleInotifyEvent: what is reported of w.
Reported(w, report) ==
  /\ uneven' = IF ConfigOf(report) # w.config THEN uneven \cup {w.id} ELSE uneven
  /\ UNCHANGED <<runtime, mergeVars, subVars>>

ReadDocker ==
  /\ dockerWrites # <<>>
  /\ dockerWrites' = Tail(dockerWrites)
  /\ LET report == OnDockerEvent(Head(dockerWrites))
     IN  /\ docker' = IF report = None THEN docker ELSE Append(docker, report)
         /\ Len(docker') <= MaxQueue
         /\ Reported(Head(dockerWrites), report)
  /\ UNCHANGED <<ociWrites, oci>>

ReadOci ==
  /\ ociWrites # <<>>
  /\ ociWrites' = Tail(ociWrites)
  /\ LET report == OnOciEvent(Head(ociWrites))
     IN  /\ oci' = IF report = None THEN oci ELSE Append(oci, report)
         /\ Len(oci') <= MaxQueue
         /\ Reported(Head(ociWrites), report)
  /\ UNCHANGED <<dockerWrites, docker>>

-----------------------------------------------------------------------------
(* pkg/container/stream.go *)

\* The states of Docker that matter, and what they are called.
States == [created |-> "CREATED", running |-> "STARTED", exited |-> "STOPPED", dead |-> "REMOVED"]

\* With a bug: a container that has exited counts as removed.
ProcessEventsExitedRemoved(e) ==
  LET state == IF e.source = "oci" THEN "STARTED"
               ELSE IF e.state = "exited" THEN "REMOVED" ELSE States[e.state]
  IN  IF e.source = "oci" /\ e.state # "running" THEN None
      ELSE [id |-> e.id, state |-> state, pid |-> IF e.source = "oci" THEN 0 ELSE e.pid,
            named |-> e.source = "docker" /\ state # "REMOVED",
            docker |-> IF e.source = "docker" /\ state # "REMOVED" THEN e.config ELSE NoConfig,
            oci |-> IF e.source = "oci" THEN e.config ELSE NoConfig,
            exitCode |-> IF state = "STOPPED" THEN e.exitCode ELSE 0]

\* Only Docker knows the name and the image of a container, as long as it is
\* there; None is filtered out.
ProcessEvents(e) ==
  LET state == IF e.source = "oci" THEN "STARTED" ELSE States[e.state]
  IN  IF e.source = "oci" /\ e.state # "running" THEN None
      ELSE [id |-> e.id, state |-> state, pid |-> IF e.source = "oci" THEN 0 ELSE e.pid,
            named |-> e.source = "docker" /\ state # "REMOVED",
            docker |-> IF e.source = "docker" /\ state # "REMOVED" THEN e.config ELSE NoConfig,
            oci |-> IF e.source = "oci" THEN e.config ELSE NoConfig,
            exitCode |-> IF state = "STOPPED" THEN e.exitCode ELSE 0]

-----------------------------------------------------------------------------
(* translateContainerEvents *)

NewContainerEvent(type, ce, named) ==
  [id |-> ce.id, type |-> type, pid |-> 0, docker |-> NoConfig, oci |-> NoConfig, exitCode |-> 0,
   details |-> IF named /\ ce.named THEN Details[ce.id] ELSE NoDetails]

\* What an update adds to an event.
Merged(ece, ce) ==
  [ece EXCEPT !.pid    = IF ce.pid # 0 THEN ce.pid ELSE @,
              !.docker = IF ce.docker # NoConfig THEN ce.docker ELSE @,
              !.oci    = IF ce.oci # NoConfig THEN ce.oci ELSE @]

Held(map, ce, type, named) ==
  Merged(IF map[ce.id] # None THEN map[ce.id] ELSE NewContainerEvent(type, ce, named), ce)

\* With a bug: the event that was held back stays.
PairKept(map, ece) == [map EXCEPT ![ece.id] = ece]

\* The first of two updates is held back, the second one completes it.
Pair(map, ece) == [map EXCEPT ![ece.id] = IF @ = None THEN ece ELSE None]

\* unix.WaitStatus of the exit code, which Docker has already taken from the
\* wait status.
ExitStatus(code) == IF code % 128 = 0 THEN (code \div 256) % 256 ELSE 0
ExitSignal(code) == IF code % 128 \in 1 .. 126 THEN code % 128 ELSE 0
CoreDumped(code) == code % 128 \in 1 .. 126 /\ (code \div 128) % 2 = 1

\* The event is handed to every child of the repeater, when each is done with
\* the earlier ones.
Repeat(ece) ==
  /\ \A s \in Subs : stage[s] = "open" => Len(events) - taken[s] < MaxBehind
  /\ events' = Append(events, ece)

TranslateContainerEvents(ce) ==
  CASE ce.state = "CREATED" ->
         LET ece == Held(createdMap, ce, "CREATED", TRUE)
         IN  /\ createdMap' = Pair(createdMap, ece)
             /\ IF createdMap[ce.id] = None THEN UNCHANGED events ELSE Repeat(ece)
             /\ UNCHANGED startedMap
    [] ce.state = "STARTED" ->
         LET ece == Held(startedMap, ce, "RUNNING", FALSE)
         IN  /\ startedMap' = Pair(startedMap, ece)
             /\ IF startedMap[ce.id] = None THEN UNCHANGED events ELSE Repeat(ece)
             /\ UNCHANGED createdMap
    [] ce.state = "STOPPED" ->
         /\ Repeat([Merged(NewContainerEvent("EXITED", ce, TRUE), ce) EXCEPT !.exitCode = ce.exitCode])
         /\ UNCHANGED <<createdMap, startedMap>>
    [] ce.state = "REMOVED" ->
         /\ Repeat(NewContainerEvent("DESTROYED", ce, FALSE))
         /\ UNCHANGED <<createdMap, startedMap>>

\* The configurations of the starts that a watcher has yet to hand over.
Runs(reports, writes, c) ==
  ({ConfigOf(reports[i]) : i \in {j \in DOMAIN reports : reports[j].id = c}} \cup
   {writes[i].config     : i \in {j \in DOMAIN writes : writes[j].id = c}}) \ {NoConfig}

\* Join, Map, Filter and Map again: one event goes all the way.
Handle(e, others) ==
  /\ IF ProcessEvents(e) = None THEN UNCHANGED mergeVars
     ELSE TranslateContainerEvents(ProcessEvents(e))
  /\ uneven' = IF \E config \in others : config < ConfigOf(e) THEN uneven \cup {e.id} ELSE uneven
  /\ UNCHANGED <<runtime, dockerWrites, ociWrites, subVars>>

HandleDocker == /\ docker # <<>>
                /\ docker' = Tail(docker)
                /\ Handle(Head(docker), Runs(oci, ociWrites, Head(docker).id))
                /\ UNCHANGED oci

HandleOci == /\ oci # <<>>
             /\ oci' = Tail(oci)
             /\ Handle(Head(oci), Runs(docker, dockerWrites, Head(oci).id))
             /\ UNCHANGED docker

-----------------------------------------------------------------------------
(* NewEventStream *)

\* convertEvent, which leaves out the name.
ConvertEvent(cev) ==
  LET all == [image_id |-> cev.details.imageId, image_name |-> cev.details.image, host_pid |-> cev.pid,
              exit_code |-> cev.exitCode, exit_status |-> ExitStatus(cev.exitCode),
              exit_signal |-> ExitSignal(cev.exitCode), exit_core_dumped |-> CoreDumped(cev.exitCode)]
      names == {"image_id", "image_name", "host_pid"} \cup
               IF cev.type = "EXITED" THEN {"exit_code", "exit_status", "exit_signal", "exit_core_dumped"} ELSE {}
  IN  [n \in names |-> all[n]]

OfType(filters, type) == SelectSeq(filters, LAMBDA f : f.type = type)

\* With a bug: the first filter of a type decides.
ViewOfFirst(filters, type) == OfType(filters, type)[1].view

\* One that asks for everything gets it for all.
ViewOf(filters, type) ==
  IF \E i \in DOMAIN filters : filters[i].type = type /\ filters[i].view = "FULL" THEN "FULL" ELSE "BASIC"

\* With no filters left the stream is nil, and joining it crashes.
NewEventStream(s, r) ==
  IF TypesLetThrough(r.filters) = {}
  THEN crashed' = TRUE /\ stage' = [stage EXCEPT ![s] = "nil"] /\ UNCHANGED <<taken, containerIds, since>>
  ELSE /\ stage' = [stage EXCEPT ![s] = "open"]
       /\ taken' = [taken EXCEPT ![s] = Len(events)]
       /\ since' = [since EXCEPT ![s] = Len(events)]
       /\ containerIds' = [containerIds EXCEPT ![s] = r.ids]
       /\ UNCHANGED crashed

Subscribe(s) ==
  /\ stage[s] = "idle"
  /\ request[s] # None
  /\ NewEventStream(s, request[s])
  /\ UNCHANGED <<runtimeVars, mergeVars, request, out, uneven>>

Cancel(s) ==
  /\ stage[s] = "open"
  /\ stage' = [stage EXCEPT ![s] = "closed"]
  /\ taken' = [taken EXCEPT ![s] = 0]
  /\ since' = [since EXCEPT ![s] = 0]
  /\ containerIds' = [containerIds EXCEPT ![s] = {}]
  /\ out' = [out EXCEPT ![s] = <<>>]
  /\ UNCHANGED <<runtimeVars, mergeVars, request, crashed, uneven>>

\* The filters of the stream select an event by its type and its fields.
VerdictOf(r, e) == VerdictOn(r.filters, e.type, ConvertEvent(e))
Selected(r, e)  == VerdictOf(r, e) = "true"

-----------------------------------------------------------------------------
(* containerFilter *)

\* An event that has a name, an image id or an image that is asked for.
Names(r, e) == e.details # NoDetails /\ (\/ e.details.name \in r.names
                                         \/ e.details.imageId \in r.imageIds
                                         \/ \E glob \in r.imageGlobs : e.details.image \in glob)

\* With a bug: it forgets a container that exits.
FollowedLess(r, ids, e) ==
  IF ~r.restricted THEN ids
  ELSE (IF Names(r, e) THEN ids \cup {e.id} ELSE ids) \ (IF e.type \in {"EXITED", "DESTROYED"} THEN {e.id} ELSE {})

\* FilterFunc remembers the container, DoFunc forgets it when it is destroyed.
Followed(r, ids, e) ==
  IF ~r.restricted THEN ids
  ELSE (IF Names(r, e) THEN ids \cup {e.id} ELSE ids) \ (IF e.type = "DESTROYED" THEN {e.id} ELSE {})

Passes(r, ids, e) == r.restricted => e.id \in ids \/ Names(r, e)

\* The subscription's filters take the next event.  The events are shared:
\* its configurations are cleared for all.
Take(s) ==
  LET i == taken[s] + 1
      e == events[i]
      r == request[s]
  IN  /\ stage[s] = "open"
      /\ i <= Len(events)
      /\ taken' = [taken EXCEPT ![s] = i]
      /\ crashed' = (VerdictOf(r, e) = "panic")
      /\ IF Selected(r, e)
         THEN /\ events' = IF ViewOf(r.filters, e.type) = "FULL" THEN events
                           ELSE [events EXCEPT ![i].docker = NoConfig, ![i].oci = NoConfig]
              /\ containerIds' = [containerIds EXCEPT ![s] = Followed(r, @, e)]
              /\ out' = [out EXCEPT ![s] = IF Passes(r, containerIds[s], e) THEN Append(@, i) ELSE @]
              /\ Len(out'[s]) <= MaxQueue
         ELSE UNCHANGED <<events, containerIds, out>>
      /\ UNCHANGED <<runtimeVars, createdMap, startedMap, stage, request, since, uneven>>

\* The event events[Head(out[s])] is sent, as it is by now.
Send(s) ==
  /\ out[s] # <<>>
  /\ out' = [out EXCEPT ![s] = Tail(@)]
  /\ UNCHANGED <<runtimeVars, mergeVars, stage, request, taken, containerIds, crashed, since, uneven>>

-----------------------------------------------------------------------------
ContainerInit ==
  /\ runtime = [c \in Ids |-> [state |-> "none", starts |-> 0, updates |-> 0, code |-> 0]]
  /\ dockerWrites = <<>> /\ ociWrites = <<>>
  /\ docker = <<>> /\ oci = <<>>
  /\ createdMap = [c \in Ids |-> None]
  /\ startedMap = [c \in Ids |-> None]
  /\ events = <<>>
  /\ stage = [s \in Subs |-> "idle"]
  /\ request \in Requests
  /\ taken = [s \in Subs |-> 0]
  /\ containerIds = [s \in Subs |-> {}]
  /\ out = [s \in Subs |-> <<>>]
  /\ crashed = FALSE
  /\ since = [s \in Subs |-> 0]
  /\ uneven = {}

ContainerNext ==
  /\ ~crashed
  /\ \/ Runtimes
     \/ ReadDocker \/ ReadOci \/ HandleDocker \/ HandleOci
     \/ \E s \in Subs : Subscribe(s) \/ Take(s) \/ Send(s) \/ Cancel(s)

ContainerSpec == ContainerInit /\ [][ContainerNext]_containerVars

-----------------------------------------------------------------------------
(* Properties *)

\* translateContainerEvents: a RUNNING event that two updates were merged into
\* has the process of one start and both configurations of it, and is the
\* only one of that start.  Events are paired by their state alone, so this is
\* lost for a container (uneven) when a start of it goes unnoticed, when a
\* watcher reads a file (docker.go: onDockerConfigUpdate, oci.go:
\* onOciConfigUpdate) that is of another start than its event, or of none, or
\* of one that was reported already, or when one watcher is a start ahead.
RunningIsComplete ==
  [][Len(events') > Len(events) =>
       LET e == events'[Len(events')]
       IN  e.type = "RUNNING" /\ e.id \notin uneven' =>
             /\ e.pid # 0 /\ e.docker = e.pid + 1 /\ e.oci = e.pid + 1
             /\ \A i \in DOMAIN events : [id |-> e.id, type |-> "RUNNING", pid |-> e.pid] #
                                         [id |-> events[i].id, type |-> events[i].type, pid |-> events[i].pid]]_containerVars

\* Whatever the order in which the two watchers report, and however late they
\* read the files, a container is created before anything else is said of it,
\* and nothing follows its end: only a RUNNING event may come late, as it waits
\* for both, or early when its halves are of different starts.
LifecycleInOrder ==
  \A i, j \in DOMAIN events : i < j /\ events[i].id = events[j].id =>
    /\ events[j].type = "CREATED" =>
         \/ events[i].type = "CREATED"
         \/ events[i].type = "RUNNING" /\ events[i].id \in uneven
    /\ events[i].type = "DESTROYED" => events[j].type = "RUNNING"

\* Docker's and the runtime's configuration are for subscriptions that asked
\* for the full view of a type of events.  They get it unless another
\* subscription did not ask for it: the event is the same.
ViewsAreGiven ==
  [][\A s \in Subs : stage'[s] = "open" /\ Len(out'[s]) < Len(out[s]) =>
       LET full(t, r) == \E i \in DOMAIN r.filters : r.filters[i].type = t /\ r.filters[i].view = "FULL"
           e == events[Head(out[s])]
       IN  IF full(e.type, request[s])
           THEN e.type \in {"CREATED", "EXITED"} /\ e.docker = NoConfig =>
                  \E s2 \in Subs \ {s} : stage[s2] # "idle" /\ ~full(e.type, request[s2])
           ELSE e.docker = NoConfig /\ e.oci = NoConfig]_containerVars

\* A container filter follows the containers that are listed, and those an
\* event that reached it has named, until they are destroyed: RUNNING and
\* DESTROYED events have no name, and get through for that reason only.
FollowsItsContainers ==
  \A s \in Subs : stage[s] = "open" /\ request[s].restricted /\ ~crashed =>
    LET r == request[s]
        seen(c) == {i \in since[s] + 1 .. taken[s] : events[i].id = c /\ Selected(r, events[i])}
    IN  containerIds[s] = {c \in Ids \cup r.ids : /\ c \in r.ids \/ \E i \in seen(c) : Names(r, events[i])
                                                  /\ \A i \in seen(c) : events[i].type # "DESTROYED"}
=============================================================================
