--------------------------- MODULE ContainerWatch ---------------------------
(***************************************************************************)
(* How the Docker sensor (pkg/container/docker.go) follows containers: a   *)
(* directory for each of them, in it config.v2.json, and an inotify        *)
(* instance (pkg/sys/inotify) that watches both.  At startup addWatches    *)
(* walks over the containers that are there, while new ones are watched by *)
(* a trigger of the instance and the events are already handled.  The      *)
(* cache (pkg/container/cache.go) is filled by the walk and by the events. *)
(*                                                                         *)
(* oci.go does the same for config.json in another directory, with no      *)
(* cache.                                                                  *)
(*                                                                         *)
(* Docker and the kernel are external.  An id is never used again.  Only   *)
(* the inotify events are here that something is done about: a directory   *)
(* that appears, a config file that is put into place or deleted.  The     *)
(* Docker directory exists, and the kernel has room for the watches and    *)
(* for the events.                                                         *)
(***************************************************************************)
EXTENDS Integers, Sequences, FiniteSets

CONSTANTS
  IDs,         \* the containers
  ElemCap,     \* capacity of Instance.elem (config.Sensor.ChannelBufferLength)
  MaxChanges   \* bound: how often Docker writes the file of a container

ASSUME WatchBounds == ElemCap \in Nat \ {0} /\ MaxChanges \in Nat

VARIABLES
  \* Docker
  dir,       \* the directory of a container: "none", "there" or "gone"
  conf,      \* the state in its config.v2.json, or "none"
  changes,   \* how often that was written
  \* the kernel
  rootWatched,
  watch,     \* the watch of a container: "none", "dir" (dirMask) or "conf" (cMask)
  queue,     \* inotify events nobody has read
  \* the inotify instance
  triggered,
  pollPC,    \* pollLoop: "poll" or "control"
  elem,      \* events for handleInotifyEvent
  \* addWatches
  walkPC,
  left,      \* containers the walk has listed and not visited
  cur,       \* the container it visits: {} or {id}
  aborted,   \* the walk ended with an error
  \* what the sensor knows
  cache,
  last,      \* the state of each container that was sent last, or "none"
  \* history
  noticed,   \* the last change of conf was made under a watch that reports it
  raced      \* containers whose file was deleted while the walk held what it read

dockerVars  == <<dir, conf, changes, noticed, raced>>
kernelVars  == <<rootWatched, watch, queue>>
inotifyVars == <<triggered, pollPC, elem>>
walkVars    == <<walkPC, left, cur, aborted>>
infoVars    == <<cache, last>>
vars == <<dockerVars, kernelVars, inotifyVars, walkVars, infoVars>>

-----------------------------------------------------------------------------
State == {"created", "running", "exited"}
Event == [kind : {"mkdir", "update", "delete"}, id : IDs]

Init ==
  /\ dir \in [IDs -> {"none", "there"}]
  /\ conf \in [IDs -> State \cup {"none"}]
  /\ \A c \in IDs : conf[c] # "none" => dir[c] = "there"
  /\ changes = [c \in IDs |-> 0]
  /\ rootWatched = FALSE
  /\ watch = [c \in IDs |-> "none"]
  /\ queue = <<>>
  /\ triggered = FALSE
  /\ pollPC = "poll"
  /\ elem = <<>>
  /\ walkPC = "root"
  /\ left = {}
  /\ cur = {}
  /\ aborted = FALSE
  /\ cache = {}
  /\ last = [c \in IDs |-> "none"]
  /\ noticed = [c \in IDs |-> FALSE]
  /\ raced = {}

-----------------------------------------------------------------------------
(* Docker *)

Queue(kind, c, watched) ==
  queue' = IF watched THEN Append(queue, [kind |-> kind, id |-> c]) ELSE queue

Mkdir(c) ==
  /\ dir[c] = "none"
  /\ dir' = [dir EXCEPT ![c] = "there"]
  /\ Queue("mkdir", c, rootWatched)
  /\ UNCHANGED <<conf, changes, noticed, raced, rootWatched, watch, inotifyVars, walkVars, infoVars>>

\* What may follow a state; Docker also writes a file again as it was.
After(x) == CASE x = "none"    -> {"created"}
              [] x = "created" -> {"created", "running"}
              [] OTHER         -> {"running", "exited"}

\* The new file is renamed to config.v2.json: IN_MOVED_TO, which is in cMask
\* and not in dirMask.
WriteConfig(c, x) ==
  /\ dir[c] = "there"
  /\ changes[c] < MaxChanges
  /\ x \in After(conf[c])
  /\ conf' = [conf EXCEPT ![c] = x]
  /\ changes' = [changes EXCEPT ![c] = @ + 1]
  /\ noticed' = [noticed EXCEPT ![c] = watch[c] = "conf"]
  /\ Queue("update", c, watch[c] = "conf")
  /\ UNCHANGED <<dir, raced, rootWatched, watch, inotifyVars, walkVars, infoVars>>

\* IN_DELETE is in both masks.  The container is not written any more.
DeleteConfig(c) ==
  /\ conf[c] # "none"
  /\ conf' = [conf EXCEPT ![c] = "none"]
  /\ changes' = [changes EXCEPT ![c] = MaxChanges]
  /\ noticed' = [noticed EXCEPT ![c] = watch[c] # "none"]
  /\ raced' = IF c \in cur /\ walkPC \in {"update", "add"} THEN raced \cup {c} ELSE raced
  /\ Queue("delete", c, watch[c] # "none")
  /\ UNCHANGED <<dir, rootWatched, watch, inotifyVars, walkVars, infoVars>>

\* Its watch goes with the directory.
Rmdir(c) ==
  /\ dir[c] = "there"
  /\ conf[c] = "none"
  /\ dir' = [dir EXCEPT ![c] = "gone"]
  /\ watch' = [watch EXCEPT ![c] = "none"]
  /\ UNCHANGED <<conf, changes, noticed, raced, rootWatched, queue, inotifyVars, walkVars, infoVars>>

-----------------------------------------------------------------------------
(* pollLoop *)

\* With a bug: an event the handler has no room for is dropped.
PollEventDrops ==
  /\ pollPC = "poll"
  /\ queue # <<>>
  /\ LET ev == Head(queue)
     IN  /\ queue' = Tail(queue)
         /\ watch' = IF ev.kind = "mkdir" /\ triggered /\ dir[ev.id] = "there"
                     THEN [watch EXCEPT ![ev.id] = "conf"] ELSE watch
         /\ elem' = IF ev.kind # "mkdir" /\ Len(elem) < ElemCap THEN Append(elem, ev) ELSE elem
  /\ UNCHANGED <<dockerVars, rootWatched, triggered, pollPC, walkVars, infoVars>>

\* The triggers add a watch on a directory that has appeared, if it is still
\* there; an event of a file goes to the handler when there is room.
PollEvent ==
  /\ pollPC = "poll"
  /\ queue # <<>>
  /\ LET ev == Head(queue)
     IN  /\ queue' = Tail(queue)
         /\ ev.kind = "mkdir" => UNCHANGED elem
         /\ ev.kind # "mkdir" => Len(elem) < ElemCap /\ elem' = Append(elem, ev)
         /\ watch' = IF ev.kind = "mkdir" /\ triggered /\ dir[ev.id] = "there"
                     THEN [watch EXCEPT ![ev.id] = "conf"] ELSE watch
  /\ UNCHANGED <<dockerVars, rootWatched, triggered, pollPC, walkVars, infoVars>>

\* Control messages wait for the events the kernel has.
PollControl ==
  /\ pollPC = "poll"
  /\ queue = <<>>
  /\ walkPC \in {"root", "trigger", "add"}
  /\ pollPC' = "control"
  /\ UNCHANGED <<dockerVars, kernelVars, triggered, elem, walkVars, infoVars>>

ControlRoot ==
  /\ pollPC = "control"
  /\ walkPC = "root"
  /\ rootWatched' = TRUE
  /\ pollPC' = "poll"
  /\ walkPC' = "trigger"
  /\ UNCHANGED <<dockerVars, watch, queue, triggered, elem, left, cur, aborted, infoVars>>

ControlTrigger ==
  /\ pollPC = "control"
  /\ walkPC = "trigger"
  /\ triggered' = TRUE
  /\ pollPC' = "poll"
  /\ walkPC' = "list"
  /\ UNCHANGED <<dockerVars, kernelVars, elem, left, cur, aborted, infoVars>>

\* add(path, dirMask): the watch replaces one there is.
ControlAdd(c) ==
  /\ pollPC = "control"
  /\ walkPC = "add"
  /\ c \in cur
  /\ dir[c] = "there"
  /\ watch' = [watch EXCEPT ![c] = "dir"]
  /\ pollPC' = "poll"
  /\ walkPC' = "descend"
  /\ UNCHANGED <<dockerVars, rootWatched, queue, triggered, elem, left, cur, aborted, infoVars>>

\* The walk ends with the error of the one container that is gone.
Abort ==
  /\ walkPC' = "done"
  /\ left' = {}
  /\ cur' = {}
  /\ aborted' = TRUE

ControlAddFails(c) ==
  /\ pollPC = "control"
  /\ walkPC = "add"
  /\ c \in cur
  /\ dir[c] = "gone"
  /\ Abort
  /\ pollPC' = "poll"
  /\ UNCHANGED <<dockerVars, kernelVars, triggered, elem, infoVars>>

-----------------------------------------------------------------------------
(* addWatches *)

\* With a bug: a container that has no file yet is not visited.
WalkListConfigured ==
  /\ walkPC = "list"
  /\ left' = {c \in IDs : dir[c] = "there" /\ conf[c] # "none"}
  /\ walkPC' = "walk"
  /\ UNCHANGED <<dockerVars, kernelVars, inotifyVars, cur, aborted, infoVars>>

WalkList ==
  /\ walkPC = "list"
  /\ left' = {c \in IDs : dir[c] = "there"}
  /\ walkPC' = "walk"
  /\ UNCHANGED <<dockerVars, kernelVars, inotifyVars, cur, aborted, infoVars>>

\* The next container: updateCaches reads its file, when there is one.
WalkRead(c) ==
  /\ walkPC = "walk"
  /\ c \in left
  /\ dir[c] = "there"
  /\ left' = left \ {c}
  /\ cur' = {c}
  /\ walkPC' = IF conf[c] = "none" THEN "add" ELSE "update"
  /\ UNCHANGED <<dockerVars, kernelVars, inotifyVars, aborted, infoVars>>

\* cacheUpdate; then AddWatch, which waits for pollLoop.
WalkUpdate ==
  /\ walkPC = "update"
  /\ cache' = cache \cup cur
  /\ walkPC' = "add"
  /\ UNCHANGED <<dockerVars, kernelVars, inotifyVars, left, cur, aborted, last>>

\* The walk goes through the files of the container, too.
WalkDescend(c) ==
  /\ walkPC = "descend"
  /\ c \in cur
  /\ dir[c] = "there"
  /\ walkPC' = "walk"
  /\ cur' = {}
  /\ UNCHANGED <<dockerVars, kernelVars, inotifyVars, left, aborted, infoVars>>

\* A container that was listed is gone, or a file that was listed in one, such
\* as those that Docker renames.
WalkFails(c) ==
  /\ \/ walkPC = "walk" /\ c \in left /\ dir[c] = "gone"
     \/ walkPC = "descend" /\ c \in cur
  /\ Abort
  /\ UNCHANGED <<dockerVars, kernelVars, inotifyVars, infoVars>>

WalkEnd ==
  /\ walkPC = "walk"
  /\ left = {}
  /\ walkPC' = "done"
  /\ UNCHANGED <<dockerVars, kernelVars, inotifyVars, left, cur, aborted, infoVars>>

-----------------------------------------------------------------------------
(* handleInotifyEvent, which stream.ForEach calls *)

\* onDockerConfigUpdate reads the file as it is now; there may be none.
HandleUpdate(c) ==
  /\ elem # <<>>
  /\ Head(elem) = [kind |-> "update", id |-> c]
  /\ elem' = Tail(elem)
  /\ \/ /\ conf[c] # "none"
        /\ cache' = cache \cup {c}
        /\ last' = [last EXCEPT ![c] = conf[c]]
     \/ /\ conf[c] = "none"
        /\ UNCHANGED infoVars
  /\ UNCHANGED <<dockerVars, kernelVars, triggered, pollPC, walkVars>>

\* With a bug: the handler is started when the walk has ended.
HandleDeleteLater(c) ==
  /\ walkPC = "done"
  /\ elem # <<>>
  /\ Head(elem) = [kind |-> "delete", id |-> c]
  /\ elem' = Tail(elem)
  /\ cache' = cache \ {c}
  /\ last' = [last EXCEPT ![c] = "dead"]
  /\ UNCHANGED <<dockerVars, kernelVars, triggered, pollPC, walkVars>>

HandleDelete(c) ==
  /\ elem # <<>>
  /\ Head(elem) = [kind |-> "delete", id |-> c]
  /\ elem' = Tail(elem)
  /\ cache' = cache \ {c}
  /\ last' = [last EXCEPT ![c] = "dead"]
  /\ UNCHANGED <<dockerVars, kernelVars, triggered, pollPC, walkVars>>

-----------------------------------------------------------------------------
Docker == \E c \in IDs : \/ Mkdir(c) \/ DeleteConfig(c) \/ Rmdir(c)
                         \/ \E x \in State : WriteConfig(c, x)

PollLoop == \/ PollEvent \/ PollControl \/ ControlRoot \/ ControlTrigger
            \/ \E c \in IDs : ControlAdd(c) \/ ControlAddFails(c)

AddWatches == \/ WalkList \/ WalkUpdate \/ WalkEnd
              \/ \E c \in IDs : WalkRead(c) \/ WalkDescend(c) \/ WalkFails(c)

Handler == \E c \in IDs : HandleUpdate(c) \/ HandleDelete(c)

Next == Docker \/ PollLoop \/ AddWatches \/ Handler

Spec == Init /\ [][Next]_vars

\* The goroutines run; the repeater takes what the handler sends, as nothing
\* here depends on when.  Docker need not do anything.
FairSpec == Spec /\ WF_vars(PollLoop) /\ WF_vars(AddWatches) /\ WF_vars(Handler)

-----------------------------------------------------------------------------
(* Properties *)

\* The walk is over and the sensor has handled all the kernel has told it.
Settled == walkPC = "done" /\ queue = <<>> /\ elem = <<>>

\* No container falls between the walk and the trigger: each that is there is
\* watched, whenever it came, unless the walk ended with an error.
ContainersWatched ==
  Settled /\ ~aborted => \A c \in IDs : dir[c] = "there" => watch[c] # "none"

\* What the sensor believes, when it has handled all it was told, is what there
\* is.  Though files are read later than the events were made, and states passed
\* over, what is sent last is the state the container is in, or that it is gone,
\* unless that change was made under no watch that reports it; and the cache has
\* forgotten a container that is gone, unless its file was deleted after the walk
\* had read it and before the walk had its watch (onDockerUpdate, addWatches).
KnowsTheLastState ==
  Settled => \A c \in IDs :
    /\ noticed[c] => last[c] = IF conf[c] = "none" THEN "dead" ELSE conf[c]
    /\ c \in cache /\ conf[c] = "none" => c \in raced

\* addWatches ends, though it waits for pollLoop, which gives way to events and
\* waits for the handler.
WalkEnds == <>(walkPC = "done")
=============================================================================
