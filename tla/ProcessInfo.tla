---------------------------- MODULE ProcessInfo ----------------------------
(***************************************************************************)
(* The process cache of pkg/sensor: the kernel's tasks come and go and     *)
(* write samples; the one goroutine that dispatches them learns of tasks,  *)
(* of what they execute and of the containers they enter from those        *)
(* samples alone, later than it happened, and answers for each event whose *)
(* it is: the process and the container.                                   *)
(*                                                                         *)
(* The kernel is external: pids are used again once a task has gone, the   *)
(* leader of a thread group keeps its pid as long as it has threads, and a *)
(* task that executes a program takes the pid of its leader.               *)
(***************************************************************************)
EXTENDS Integers, Sequences, FiniteSets

CONSTANTS
  Pids,         \* the pids of the system, from 1 on
  Containers,   \* ids of containers
  MaxTasks,     \* bound: tasks that are created
  MaxEvents,    \* bound: samples on the way at once
  MaxWritten    \* bound: samples of other events, programs that are executed

ASSUME PidBounds == Pids \subseteq Nat \ {0} /\ 1 \in Pids
ASSUME CounterBounds == MaxTasks \in Nat /\ MaxEvents \in Nat /\ MaxWritten \in Nat
ASSUME ContainerNames == Containers \cap {"none", "circle"} = {}

VARIABLES
  tasks,      \* pid :> the task that has it, or NoTask
  reused,     \* pids that more than one task has had
  taskCount,
  written,
  transit,    \* the samples on the way, in the order of time
  isArray,    \* whether the cache is an array, as there are few pids
  cache,      \* pid :> its entry in the cache
  event,      \* the last event that was made of a sample
  hung        \* the dispatcher walks in a circle

kernelVars == <<tasks, reused, taskCount, written>>
vars == <<kernelVars, transit, isArray, cache, event, hung>>

-----------------------------------------------------------------------------
None   == "none"
NoTask == [number |-> 0]
NoEvent == [sample |-> [type |-> "none"]]

\* A task: its number, the number of its leader, the id of the process (what
\* DeriveUniqueID hashes: the pid and parent pid of the leader), its container,
\* the program its process executes, the one of an execve(2) it is in, or 0, and
\* whether it has created a task.
Task(number, leader, id, container, program) ==
  [number |-> number, leader |-> leader, id |-> id, container |-> container,
   program |-> program, execs |-> 0, forked |-> FALSE]

Alive == {p \in Pids : tasks[p] # NoTask}
IsLeader(p) == tasks[p].number = tasks[p].leader
LeaderPid(p) == CHOOSE q \in Alive : tasks[q].number = tasks[p].leader
Group(p) == {q \in Alive : tasks[q].leader = tasks[p].leader}
Runs(p) == p \in Alive /\ tasks[p].execs = 0

\* The entry of a pid no task is known to have: the zero value of task.
Unknown == [pid |-> 0, tgid |-> 0, ppid |-> 0, containerId |-> None, commandLine |-> 0]

\* LookupTask: the entry, also when it says that there is none.
Entry(p) == IF p \in Pids THEN cache[p] ELSE Unknown
Found(p) == Entry(p).tgid # 0

\* The sensor is started while the first task runs.
Init ==
  /\ tasks = [p \in Pids |-> IF p = 1 THEN Task(1, 1, <<1, 0>>, None, 0) ELSE NoTask]
  /\ reused = {}
  /\ taskCount = 1
  /\ written = 0
  /\ transit = <<>>
  /\ isArray \in BOOLEAN
  /\ cache = [p \in Pids |-> Unknown]
  /\ event = NoEvent
  /\ hung = FALSE

-----------------------------------------------------------------------------
(* The kernel: what happens, and the samples it writes of it *)

Write(sample) ==
  /\ Len(transit) < MaxEvents
  /\ transit' = Append(transit, sample)
  /\ UNCHANGED <<isArray, cache, event, hung>>

\* The samples on the way and the cache know of a task with this pid.
Remembered(p) == (\E i \in DOMAIN transit : transit[i].pid = p) \/ cache[p] # Unknown

\* fork(2), or clone(2) of a thread: task/task_newtask.
NewTask(p, child, thread) ==
  /\ Runs(p) /\ child \notin Alive
  /\ taskCount < MaxTasks
  /\ taskCount' = taskCount + 1
  /\ tasks' = [tasks EXCEPT ![p].forked = TRUE, ![child] =
       IF thread THEN [tasks[p] EXCEPT !.number = taskCount + 1, !.forked = FALSE]
       ELSE Task(taskCount + 1, taskCount + 1, <<child, p>>, tasks[p].container, tasks[p].program)]
  /\ reused' = IF Remembered(child) THEN reused \cup {child} ELSE reused
  /\ Write([type |-> "newtask", pid |-> child, parent |-> p, thread |-> thread])
  /\ UNCHANGED written

Exit(p) ==
  /\ p \in Alive \ {1}
  /\ IsLeader(p) => Group(p) = {p}
  /\ tasks' = [tasks EXCEPT ![p] = NoTask]
  /\ UNCHANGED <<reused, taskCount, written, transit, isArray, cache, event, hung>>

\* runc puts a task into the control groups of a container before it lets it
\* create others.
Join(p, c) ==
  /\ Runs(p) /\ p # 1
  /\ Group(p) = {p}
  /\ tasks[p].container = None
  /\ ~tasks[p].forked
  /\ tasks' = [tasks EXCEPT ![p].container = c]
  /\ UNCHANGED <<reused, taskCount, written, transit, isArray, cache, event, hung>>

\* A task of runc that is in its container is renamed: task/task_rename.
Rename(p) ==
  /\ Runs(p)
  /\ written < MaxWritten
  /\ written' = written + 1
  /\ tasks[p].container # None
  /\ Write([type |-> "rename", pid |-> p])
  /\ UNCHANGED <<tasks, reused, taskCount>>

\* execve(2): a kprobe where it begins.
ExecBegin(p) ==
  /\ Runs(p)
  /\ written < MaxWritten
  /\ written' = written + 1
  /\ tasks' = [tasks EXCEPT ![p].execs = written + 1]
  /\ Write([type |-> "execve", pid |-> p, program |-> written + 1])
  /\ UNCHANGED <<reused, taskCount>>

ExecFails(p) ==
  /\ p \in Alive /\ ~Runs(p)
  /\ tasks' = [tasks EXCEPT ![p].execs = 0]
  /\ UNCHANGED <<reused, taskCount, written, transit, isArray, cache, event, hung>>

\* sched/sched_process_exec, once the other threads are gone and the task has
\* the pid of its leader.
ExecEnd(p) ==
  /\ p \in Alive /\ ~Runs(p)
  /\ LET leader == LeaderPid(p)
     IN  /\ tasks' = [q \in Pids |->
              IF q = leader THEN [tasks[q] EXCEPT !.program = tasks[p].execs, !.execs = 0]
              ELSE IF q \in Group(p) THEN NoTask ELSE tasks[q]]
         /\ Write([type |-> "exec", pid |-> leader, program |-> tasks[p].execs, thread |-> p # leader])
  /\ UNCHANGED <<reused, taskCount, written>>

\* Any other event: the truth that goes with it is for the properties.
Sample(p) ==
  /\ Runs(p)
  /\ written < MaxWritten
  /\ written' = written + 1
  /\ Write([type |-> "sample", pid |-> p, id |-> tasks[p].id, container |-> tasks[p].container])
  /\ UNCHANGED <<tasks, reused, taskCount>>

-----------------------------------------------------------------------------
(* The cache *)

\* The tasks that a walk from p to its ancestors passes, which goes on to the
\* parent at those of on: the least set with p and the parents of those in it.
\* The task the walk ends with is the one that is not in on; if there is none,
\* it walks in a circle.
Walk(p, on) ==
  {q \in Pids \cup {0} : \A S \in SUBSET (Pids \cup {0}) :
     p \in S /\ (\A r \in S \cap on : Entry(r).ppid \in S) => q \in S}

WalkEnds(p, on) == Walk(p, on) \ on
WalkEnd(p, on) == CHOOSE q \in WalkEnds(p, on) : TRUE

\* Those that do not lead; a task that is not found and its zero value lead.
Threads == {p \in Pids : Found(p) /\ Entry(p).pid # Entry(p).tgid}

\* Those that have no container; the walk ends with one that is not found.
Uncontained == {p \in Pids : Found(p) /\ Entry(p).containerId = None}

\* With a bug: the walk ends at the first task that is found.
LookupLeaderFirst(p) == [known |-> TRUE, task |-> Entry(p)]

\* lookupLeader: from parent to parent to a task that leads.
LookupLeader(p) ==
  IF WalkEnds(p, Threads) = {} THEN [known |-> FALSE]
  ELSE [known |-> TRUE, task |-> Entry(WalkEnd(p, Threads))]

\* ProcessContainerId, likewise: the container of the closest ancestor that has
\* one.
ContainerId(p) ==
  IF WalkEnds(p, Uncontained) = {} THEN "circle"
  ELSE LET end == WalkEnd(p, Uncontained) IN IF Found(end) THEN Entry(end).containerId ELSE None

\* SetTaskContainerId and SetTaskCommandLine: an entry that is not there is
\* changed in the array, and not in the map.
Settable(p) == p \in Pids /\ (isArray \/ Found(p))

\* FileSystem.ContainerID and CommandLine: what /proc says now.
ProcContainerID(p) == IF p \in Alive THEN tasks[p].container ELSE None
ProcCommandLine(p) == IF p \in Alive THEN tasks[p].program ELSE 0

\* With a bug: a task is its own parent.
DecodeNewTaskOfItself(sample) ==
  LET container == ContainerId(sample.parent)
  IN  IF container = "circle" THEN hung' = TRUE /\ UNCHANGED cache
      ELSE /\ cache' = [cache EXCEPT ![sample.pid] =
                [Unknown EXCEPT !.pid = sample.pid, !.ppid = sample.pid,
                                !.tgid = IF sample.thread THEN sample.parent ELSE sample.pid,
                                !.containerId = container]]
           /\ UNCHANGED hung

\* decodeNewTask: the creator of a thread is taken for its leader, and the
\* container is inherited.
DecodeNewTask(sample) ==
  LET container == ContainerId(sample.parent)
  IN  IF container = "circle" THEN hung' = TRUE /\ UNCHANGED cache
      ELSE /\ cache' = [cache EXCEPT ![sample.pid] =
                [Unknown EXCEPT !.pid = sample.pid, !.ppid = sample.parent,
                                !.tgid = IF sample.thread THEN sample.parent ELSE sample.pid,
                                !.containerId = container]]
           /\ UNCHANGED hung

\* With a bug: the container is looked up for the parent.
DecodeRenameOfParent(sample) ==
  LET p == sample.pid
      container == ProcContainerID(p)
      parent == Entry(p).ppid
  IN  /\ cache' = IF container # None /\ Settable(parent)
                  THEN [cache EXCEPT ![parent].containerId = container] ELSE cache
      /\ UNCHANGED hung

\* decodeRuncTaskRename: the container of the task, or if it has one, that of
\* its parent, read from /proc now.
DecodeRename(sample) ==
  LET p == IF Entry(sample.pid).containerId = None THEN sample.pid
           ELSE Entry(Entry(sample.pid).ppid).pid
      container == ProcContainerID(p)
  IN  /\ cache' = IF container # None /\ Settable(p) /\ Entry(p).containerId = None
                  THEN [cache EXCEPT ![p].containerId = container] ELSE cache
      /\ UNCHANGED hung

\* With a bug: a command line is kept once it is there.
DecodeExecveOnce(sample) ==
  /\ cache' = IF Settable(sample.pid) /\ Entry(sample.pid).commandLine = 0
              THEN [cache EXCEPT ![sample.pid].commandLine = sample.program] ELSE cache
  /\ UNCHANGED hung

\* decodeExecve
DecodeExecve(sample) ==
  /\ cache' = IF Settable(sample.pid) THEN [cache EXCEPT ![sample.pid].commandLine = sample.program] ELSE cache
  /\ UNCHANGED hung

\* decodeSchedProcessExec: the command line of the cache, or of /proc.
ExecCommandLine(p) ==
  IF Entry(p).commandLine # 0 THEN Entry(p).commandLine ELSE ProcCommandLine(p)

\* NewEventFromSample: whose event it is.
NewEvent(sample) ==
  LET leader == LookupLeader(sample.pid)
      container == ContainerId(sample.pid)
  IN  /\ IF ~leader.known \/ container = "circle"
         THEN hung' = TRUE /\ UNCHANGED event
         ELSE /\ event' = [sample |-> sample, processId |-> <<leader.task.pid, leader.task.ppid>>,
                           containerId |-> container,
                           commandLine |-> IF sample.type = "exec" THEN ExecCommandLine(sample.pid) ELSE 0,
                           cached |-> Entry(sample.pid).commandLine # 0]
              /\ UNCHANGED hung
      /\ UNCHANGED cache

-----------------------------------------------------------------------------
(* The dispatcher handles one sample after the other. *)
Handle ==
  /\ ~hung
  /\ transit # <<>>
  /\ transit' = Tail(transit)
  /\ LET sample == Head(transit)
     IN  \/ sample.type = "newtask" /\ DecodeNewTask(sample) /\ event' = NoEvent
         \/ sample.type = "rename" /\ DecodeRename(sample) /\ event' = NoEvent
         \/ sample.type = "execve" /\ DecodeExecve(sample) /\ event' = NoEvent
         \/ sample.type \in {"exec", "sample"} /\ NewEvent(sample)
  /\ UNCHANGED <<kernelVars, isArray>>

Next ==
  \/ \E p, child \in Pids, thread \in BOOLEAN : NewTask(p, child, thread)
  \/ \E p \in Pids : Exit(p) \/ Rename(p) \/ Sample(p) \/ \E c \in Containers : Join(p, c)
  \/ \E p \in Pids : ExecBegin(p) \/ ExecFails(p) \/ ExecEnd(p)
  \/ Handle

Spec == Init /\ [][Next]_vars

-----------------------------------------------------------------------------
(* Properties *)

\* An event has the process id of the leader of the task that wrote it, however
\* many threads created each other in between and whoever has gone since.
\* Except when the sensor was started after the leader, which is then given the
\* id of pid 0, and when a pid on the way is used again.
ProcessIdIsTheLeaders ==
  event.sample.type = "sample" =>
    \/ event.processId = event.sample.id
    \/ event.processId = <<0, 0>> /\ event.sample.id = <<1, 0>>
    \/ reused \cap Walk(event.sample.pid, Threads) # {}

\* An event is given no container but the one its task was in, which was
\* read from /proc when the task, or the one it stems from, may have gone.
\* Except when a pid was used again.
ContainerIsTheTasks ==
  event.sample.type = "sample" /\ reused = {} =>
    event.containerId \in {None, event.sample.container}

\* The event of an exec has the command line of that exec and not of one before
\* or after it, when it comes from the cache.  Except when a thread that is not
\* the leader called it, and its command line is kept under its own pid.
CommandLineIsTheExecs ==
  event.sample.type = "exec" /\ event.cached =>
    event.commandLine = event.sample.program \/ event.sample.thread

\* The dispatcher only ever walks in a circle when a pid was used again while
\* the cache still had it for the parent of another.
HangsOnlyOnReuse == hung => reused # {}
=============================================================================
