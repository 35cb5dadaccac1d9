--------------------------- MODULE ContainerProofs ---------------------------
(***************************************************************************)
(* Containers, for any set of them.  First the Docker sensor that watches  *)
(* them (ContainerWatch), with any room for events and any number of       *)
(* changes: no container falls between the walk and the trigger, and what  *)
(* the sensor knows in the end is what there is.  Then what reaches the    *)
(* subscriptions (Containers), with any number of starts, any queues and   *)
(* any filters: in which order a container's life is told, what a RUNNING  *)
(* event is merged from, who is given the configurations, whom a container *)
(* filter follows, and what a crash of the sensor is due to.               *)
(***************************************************************************)
EXTENDS ContainerWatch, Containers, TLAPS

-----------------------------------------------------------------------------
(* The inductive invariant. *)

DockerTypeOK ==
  /\ dir \in [IDs -> {"none", "there", "gone"}]
  /\ conf \in [IDs -> State \cup {"none"}]
  /\ changes \in [IDs -> Nat]
  /\ noticed \in [IDs -> BOOLEAN]
  /\ raced \subseteq IDs

QueuesTypeOK == queue \in Seq(Event) /\ elem \in Seq(Event)

WatchTypeOK == watch \in [IDs -> {"none", "dir", "conf"}]

WalkTypeOK ==
  /\ walkPC \in {"root", "trigger", "list", "walk", "update", "add", "descend", "done"}
  /\ left \subseteq IDs
  /\ cur \subseteq IDs

InfoTypeOK ==
  /\ cache \subseteq IDs
  /\ last \in [IDs -> State \cup {"none", "dead"}]

TypeOK == DockerTypeOK /\ QueuesTypeOK /\ WatchTypeOK /\ WalkTypeOK /\ InfoTypeOK

\* Where the walk is, and what is in place then.
WalkOK ==
  /\ rootWatched <=> walkPC # "root"
  /\ triggered <=> walkPC \notin {"root", "trigger"}
  /\ left # {} => walkPC \in {"walk", "update", "add", "descend"}
  /\ cur # {} => walkPC \in {"update", "add", "descend"}
  /\ \A c, d \in cur : c = d

\* The events of files are on their way through the kernel's queue and elem.
Members(s) == {s[i] : i \in DOMAIN s}
Told == Members(queue) \cup Members(elem)
UpdateOf(c) == [kind |-> "update", id |-> c]
DeleteOf(c) == [kind |-> "delete", id |-> c]
MkdirOf(c)  == [kind |-> "mkdir", id |-> c]

\* A container that is not watched will be visited by the walk, or its mkdir
\* event is still to be read by the trigger.
WillBeWatched(c) ==
  dir[c] = "there" /\ watch[c] = "none" /\ ~aborted =>
    \/ walkPC \in {"root", "trigger", "list"}
    \/ c \in left
    \/ c \in cur /\ walkPC \in {"update", "add"}
    \/ MkdirOf(c) \in Members(queue)

\* A file that was deleted is not written again; a delete event, and a read of
\* the walk that the deletion overtook, tell that this has happened.
Deleted(c) == conf[c] = "none" /\ changes[c] = MaxChanges

DeletedForGood(c) ==
  /\ conf[c] # "none" => dir[c] = "there"
  /\ DeleteOf(c) \in Told => Deleted(c)
  /\ c \in raced => Deleted(c)

\* The directory of an update event is watched as long as it is there.
UpdatesAreWatched(c) == UpdateOf(c) \in Told => watch[c] # "none" \/ dir[c] = "gone"

\* A change that was noticed is known, or an event is there that will tell it.
NoticedIsTold(c) ==
  noticed[c] => IF conf[c] = "none" THEN last[c] = "dead" \/ DeleteOf(c) \in Told
                ELSE last[c] = conf[c] \/ UpdateOf(c) \in Told

\* The container whose file the walk has read has it still, or was raced.
ReadIsThere(c) == c \in cur /\ walkPC = "update" => conf[c] # "none" \/ c \in raced

\* What is in the cache is watched, or will be in the next step of the walk; when
\* it is no more, the delete event will tell.
CacheIsTold(c) ==
  c \in cache => IF conf[c] = "none" THEN c \in raced \/ DeleteOf(c) \in Told
                 ELSE watch[c] # "none" \/ (c \in cur /\ walkPC = "add")

ContainerInv(c) ==
  /\ WillBeWatched(c)
  /\ DeletedForGood(c)
  /\ UpdatesAreWatched(c)
  /\ NoticedIsTold(c)
  /\ ReadIsThere(c)
  /\ CacheIsTold(c)

WatchInv == TypeOK /\ WalkOK /\ \A c \in IDs : ContainerInv(c)

-----------------------------------------------------------------------------
(* Queues and events. *)

LEMMA MembersAppend ==
  ASSUME NEW S, NEW q \in Seq(S), NEW x \in S
  PROVE  Append(q, x) \in Seq(S) /\ Members(Append(q, x)) = Members(q) \cup {x}
<1>. DEFINE r == Append(q, x)
<1>1. /\ r \in Seq(S) /\ Len(r) = Len(q) + 1 /\ Len(q) \in Nat
      /\ \A i \in DOMAIN q : i \in DOMAIN r /\ r[i] = q[i]
      /\ Len(q) + 1 \in DOMAIN r /\ r[Len(q) + 1] = x
      /\ \A i \in DOMAIN r : i \in DOMAIN q \/ i = Len(q) + 1
  OBVIOUS
<1>. HIDE DEF r
<1>2. Members(r) = Members(q) \cup {x}
  BY <1>1, Zenon DEF Members
<1>. QED
  BY <1>1, <1>2 DEF r

LEMMA MembersTail ==
  ASSUME NEW S, NEW q \in Seq(S), q # <<>>
  PROVE  /\ Head(q) \in S /\ Tail(q) \in Seq(S)
         /\ Members(q) = Members(Tail(q)) \cup {Head(q)}
<1>. DEFINE r == Tail(q)
<1>1. /\ r \in Seq(S) /\ Len(r) = Len(q) - 1 /\ Len(q) \in Nat /\ Len(q) > 0
      /\ 1 \in DOMAIN q /\ Head(q) = q[1] /\ Head(q) \in S
      /\ \A i \in DOMAIN r : i + 1 \in DOMAIN q /\ r[i] = q[i + 1]
  OBVIOUS
<1>2. \A i \in DOMAIN q : i = 1 \/ (i - 1 \in DOMAIN r /\ r[i - 1] = q[i])
  OBVIOUS
<1>. HIDE DEF r
<1>3. Members(q) = Members(r) \cup {Head(q)}
  <2>1. ASSUME NEW x \in Members(q) PROVE x \in Members(r) \cup {Head(q)}
    BY <1>1, <1>2 DEF Members
  <2>2. ASSUME NEW i \in DOMAIN r PROVE r[i] \in Members(q)
    BY <1>1 DEF Members
  <2>3. Head(q) \in Members(q)
    BY <1>1, Zenon DEF Members
  <2>4. Members(r) \subseteq Members(q)
    BY <2>2, Zenon DEF Members
  <2>. QED
    BY <2>1, <2>3, <2>4
<1>. QED
  BY <1>1, <1>3 DEF r

LEMMA MembersEmpty == Members(<<>>) = {}
BY DEF Members

LEMMA EventsDiffer ==
  ASSUME NEW c, NEW d
  PROVE  /\ UpdateOf(c) # DeleteOf(d) /\ UpdateOf(c) # MkdirOf(d) /\ DeleteOf(c) # MkdirOf(d)
         /\ UpdateOf(c) = UpdateOf(d) => c = d
         /\ DeleteOf(c) = DeleteOf(d) => c = d
         /\ MkdirOf(c) = MkdirOf(d) => c = d
         /\ UpdateOf(c).kind = "update" /\ DeleteOf(c).kind = "delete" /\ MkdirOf(c).kind = "mkdir"
         /\ MkdirOf(c).id = c
BY DEF UpdateOf, DeleteOf, MkdirOf

LEMMA EventTypes ==
  ASSUME NEW c \in IDs
  PROVE  UpdateOf(c) \in Event /\ DeleteOf(c) \in Event /\ MkdirOf(c) \in Event
BY DEF UpdateOf, DeleteOf, MkdirOf, Event

\* What an event that Docker causes adds to the queue.
LEMMA QueueAdds ==
  ASSUME NEW kind \in {"mkdir", "update", "delete"}, NEW c \in IDs, NEW watched,
         QueuesTypeOK, Queue(kind, c, watched), UNCHANGED elem
  PROVE  /\ QueuesTypeOK'
         /\ watched => Members(queue)' = Members(queue) \cup {[kind |-> kind, id |-> c]}
         /\ ~watched => Members(queue)' = Members(queue)
         /\ watched => Told' = Told \cup {[kind |-> kind, id |-> c]}
         /\ ~watched => Told' = Told
<1>. DEFINE e == [kind |-> kind, id |-> c]
<1>1. e \in Event
  BY DEF Event
<1>. HIDE DEF e
<1>2. queue' = IF watched THEN Append(queue, e) ELSE queue
  BY DEF Queue, e
<1>3. Append(queue, e) \in Seq(Event) /\ Members(Append(queue, e)) = Members(queue) \cup {e}
  BY <1>1, MembersAppend DEF QueuesTypeOK
<1>4. QueuesTypeOK'
  BY <1>2, <1>3 DEF QueuesTypeOK
<1>5. /\ watched => Members(queue)' = Members(queue) \cup {e}
      /\ ~watched => Members(queue)' = Members(queue)
  BY <1>2, <1>3 DEF Members
<1>6. Members(elem)' = Members(elem)
  BY DEF Members
<1>. QED
  BY <1>4, <1>5, <1>6 DEF Told, e

\* pollLoop takes the first event: one of a file stays on its way.
LEMMA PollTakes ==
  ASSUME QueuesTypeOK, PollEvent
  PROVE  /\ QueuesTypeOK'
         /\ Head(queue) \in Event
         /\ Members(queue) = Members(queue)' \cup {Head(queue)}
         /\ \A c \in IDs : UpdateOf(c) \in Told' <=> UpdateOf(c) \in Told
         /\ \A c \in IDs : DeleteOf(c) \in Told' <=> DeleteOf(c) \in Told
<1>. DEFINE ev == Head(queue)
<1>1. /\ queue # <<>> /\ queue' = Tail(queue)
      /\ ev.kind = "mkdir" => elem' = elem
      /\ ev.kind # "mkdir" => elem' = Append(elem, ev)
  BY DEF PollEvent
<1>2. /\ ev \in Event /\ Tail(queue) \in Seq(Event)
      /\ Members(queue) = Members(Tail(queue)) \cup {ev}
  BY <1>1, MembersTail DEF QueuesTypeOK
<1>. HIDE DEF ev
<1>3. Append(elem, ev) \in Seq(Event) /\ Members(Append(elem, ev)) = Members(elem) \cup {ev}
  BY <1>2, MembersAppend DEF QueuesTypeOK
<1>4. QueuesTypeOK'
  BY <1>1, <1>2, <1>3 DEF QueuesTypeOK
<1>5. Members(queue)' = Members(Tail(queue))
  BY <1>1 DEF Members
<1>6. /\ ev.kind = "mkdir" => Members(elem)' = Members(elem)
      /\ ev.kind # "mkdir" => Members(elem)' = Members(elem) \cup {ev}
  BY <1>1, <1>3 DEF Members
<1>7. ASSUME NEW x, x.kind # "mkdir" PROVE x \in Told' <=> x \in Told
  BY <1>2, <1>5, <1>6, <1>7 DEF Told
<1>8. \A c \in IDs : UpdateOf(c).kind # "mkdir" /\ DeleteOf(c).kind # "mkdir"
  BY EventsDiffer
<1>9. QED
  BY <1>2, <1>4, <1>5, <1>7, <1>8 DEF ev

\* The handler takes the first event of elem.
LEMMA HandlerTakes ==
  ASSUME QueuesTypeOK, elem # <<>>, elem' = Tail(elem), UNCHANGED queue
  PROVE  /\ QueuesTypeOK'
         /\ Members(queue)' = Members(queue)
         /\ Told = Told' \cup {Head(elem)}
<1>1. Tail(elem) \in Seq(Event) /\ Members(elem) = Members(Tail(elem)) \cup {Head(elem)}
  BY MembersTail DEF QueuesTypeOK
<1>2. Members(elem)' = Members(Tail(elem)) /\ Members(queue)' = Members(queue)
  BY DEF Members
<1>. QED
  BY <1>1, <1>2 DEF QueuesTypeOK, Told

-----------------------------------------------------------------------------
(* Types. *)

LEMMA DockerTypeStep ==
  ASSUME DockerTypeOK, Next
  PROVE  DockerTypeOK'
<1>. USE DEF DockerTypeOK
<1>1. ASSUME NEW c \in IDs, Mkdir(c) PROVE DockerTypeOK'
  BY <1>1 DEF Mkdir
<1>2. ASSUME NEW c \in IDs, DeleteConfig(c) PROVE DockerTypeOK'
  BY <1>2, WatchBounds DEF DeleteConfig
<1>3. ASSUME NEW c \in IDs, Rmdir(c) PROVE DockerTypeOK'
  BY <1>3 DEF Rmdir
<1>4. ASSUME NEW c \in IDs, NEW x \in State, WriteConfig(c, x) PROVE DockerTypeOK'
  BY <1>4 DEF WriteConfig
<1>5. CASE UNCHANGED dockerVars
  BY <1>5 DEF dockerVars
<1>. QED
  BY <1>1, <1>2, <1>3, <1>4, <1>5 DEF Next, Docker, PollLoop, AddWatches, Handler,
     PollEvent, PollControl, ControlRoot, ControlTrigger, ControlAdd, ControlAddFails,
     WalkList, WalkUpdate, WalkEnd, WalkRead, WalkDescend, WalkFails, HandleUpdate, HandleDelete

LEMMA WatchTypeStep ==
  ASSUME WatchTypeOK, QueuesTypeOK, Next
  PROVE  WatchTypeOK'
<1>. USE DEF WatchTypeOK
<1>1. ASSUME NEW c \in IDs, Rmdir(c) \/ ControlAdd(c) PROVE WatchTypeOK'
  BY <1>1 DEF Rmdir, ControlAdd
<1>2. CASE PollEvent
  <2>1. Head(queue).id \in IDs
    BY <1>2, PollTakes DEF Event
  <2>. QED
    BY <1>2, <2>1 DEF PollEvent
<1>3. CASE UNCHANGED watch
  BY <1>3
<1>. QED
  BY <1>1, <1>2, <1>3 DEF Next, Docker, PollLoop, AddWatches, Handler, kernelVars,
     Mkdir, WriteConfig, DeleteConfig, PollControl, ControlRoot, ControlTrigger, ControlAddFails,
     WalkList, WalkUpdate, WalkEnd, WalkRead, WalkDescend, WalkFails, HandleUpdate, HandleDelete

LEMMA WalkStep ==
  ASSUME WalkTypeOK, WalkOK, Next
  PROVE  WalkTypeOK' /\ WalkOK'
<1>. USE DEF WalkTypeOK, WalkOK
<1>1. CASE ControlRoot \/ ControlTrigger
  BY <1>1 DEF ControlRoot, ControlTrigger, kernelVars
<1>2. ASSUME NEW c \in IDs, ControlAdd(c) \/ WalkRead(c) \/ WalkDescend(c) PROVE WalkTypeOK' /\ WalkOK'
  BY <1>2 DEF ControlAdd, WalkRead, WalkDescend, kernelVars, inotifyVars
<1>3. ASSUME NEW c \in IDs, ControlAddFails(c) \/ WalkFails(c) PROVE WalkTypeOK' /\ WalkOK'
  BY <1>3 DEF ControlAddFails, WalkFails, Abort, kernelVars, inotifyVars
<1>4. CASE WalkList
  BY <1>4 DEF WalkList, kernelVars, inotifyVars
<1>5. CASE WalkUpdate
  BY <1>5 DEF WalkUpdate, kernelVars, inotifyVars
<1>6. CASE WalkEnd
  BY <1>6 DEF WalkEnd, kernelVars, inotifyVars
<1>7. CASE UNCHANGED <<rootWatched, triggered, walkVars>>
  BY <1>7 DEF walkVars
<1>. QED
  BY <1>1, <1>2, <1>3, <1>4, <1>5, <1>6, <1>7 DEF Next, Docker, PollLoop, AddWatches, Handler,
     kernelVars, inotifyVars, Mkdir, WriteConfig, DeleteConfig, Rmdir, PollEvent, PollControl, HandleUpdate, HandleDelete

LEMMA InfoTypeStep ==
  ASSUME InfoTypeOK, WalkTypeOK, DockerTypeOK, Next
  PROVE  InfoTypeOK'
<1>. USE DEF InfoTypeOK
<1>1. ASSUME NEW c \in IDs, HandleUpdate(c) PROVE InfoTypeOK'
  BY <1>1 DEF HandleUpdate, infoVars, DockerTypeOK
<1>2. ASSUME NEW c \in IDs, HandleDelete(c) PROVE InfoTypeOK'
  BY <1>2 DEF HandleDelete
<1>3. CASE WalkUpdate
  BY <1>3 DEF WalkUpdate, WalkTypeOK
<1>4. CASE UNCHANGED infoVars
  BY <1>4 DEF infoVars
<1>. QED
  BY <1>1, <1>2, <1>3, <1>4 DEF Next, Docker, PollLoop, AddWatches, Handler,
     Mkdir, WriteConfig, DeleteConfig, Rmdir,
     PollEvent, PollControl, ControlRoot, ControlTrigger, ControlAdd, ControlAddFails,
     WalkList, WalkEnd, WalkRead, WalkDescend, WalkFails

LEMMA QueuesTypeStep ==
  ASSUME QueuesTypeOK, Next
  PROVE  QueuesTypeOK'
<1>1. ASSUME NEW c \in IDs, Mkdir(c) \/ DeleteConfig(c) \/ \E x \in State : WriteConfig(c, x)
      PROVE  QueuesTypeOK'
  BY <1>1, QueueAdds DEF Mkdir, DeleteConfig, WriteConfig, inotifyVars
<1>2. CASE PollEvent
  BY <1>2, PollTakes
<1>3. ASSUME NEW c \in IDs, HandleUpdate(c) \/ HandleDelete(c) PROVE QueuesTypeOK'
  BY <1>3, HandlerTakes DEF HandleUpdate, HandleDelete, kernelVars
<1>4. CASE UNCHANGED <<queue, elem>>
  BY <1>4 DEF QueuesTypeOK
<1>. QED
  BY <1>1, <1>2, <1>3, <1>4 DEF Next, Docker, PollLoop, AddWatches, Handler, kernelVars, inotifyVars,
     Rmdir, PollControl, ControlRoot, ControlTrigger, ControlAdd, ControlAddFails,
     WalkList, WalkUpdate, WalkEnd, WalkRead, WalkDescend, WalkFails

-----------------------------------------------------------------------------
(* What each step does to a container. *)

LEMMA MkdirStep ==
  ASSUME WatchInv, NEW d \in IDs, Mkdir(d), NEW c \in IDs
  PROVE  ContainerInv(c)'
<1>1. /\ rootWatched => Members(queue)' = Members(queue) \cup {MkdirOf(d)} /\ Told' = Told \cup {MkdirOf(d)}
      /\ ~rootWatched => Members(queue)' = Members(queue) /\ Told' = Told
  BY QueueAdds DEF Mkdir, WatchInv, TypeOK, inotifyVars, MkdirOf
<1>2. /\ UpdateOf(c) \in Told' <=> UpdateOf(c) \in Told
      /\ DeleteOf(c) \in Told' <=> DeleteOf(c) \in Told
      /\ MkdirOf(c) \in Members(queue) => MkdirOf(c) \in Members(queue)'
      /\ rootWatched /\ c = d => MkdirOf(c) \in Members(queue)'
  BY <1>1, EventsDiffer
<1>3. /\ dir' = [dir EXCEPT ![d] = "there"] /\ dir[d] = "none"
      /\ UNCHANGED <<conf, changes, noticed, raced, rootWatched, watch, walkPC, left, cur, aborted, cache, last>>
  BY DEF Mkdir, walkVars, infoVars
<1>4. ContainerInv(c) /\ TypeOK /\ WalkOK
  BY DEF WatchInv
<1>5. WillBeWatched(c)'
  BY <1>2, <1>3, <1>4 DEF ContainerInv, WillBeWatched, TypeOK, DockerTypeOK, WalkOK
<1>6. DeletedForGood(c)' /\ UpdatesAreWatched(c)'
  BY <1>2, <1>3, <1>4 DEF ContainerInv, DeletedForGood, UpdatesAreWatched, Deleted, TypeOK, DockerTypeOK
<1>7. NoticedIsTold(c)' /\ ReadIsThere(c)' /\ CacheIsTold(c)'
  BY <1>2, <1>3, <1>4 DEF ContainerInv, NoticedIsTold, ReadIsThere, CacheIsTold
<1>. QED
  BY <1>5, <1>6, <1>7 DEF ContainerInv

LEMMA WriteStep ==
  ASSUME WatchInv, NEW d \in IDs, NEW x \in State, WriteConfig(d, x), NEW c \in IDs
  PROVE  ContainerInv(c)'
<1>1. /\ watch[d] = "conf" => Members(queue)' = Members(queue) \cup {UpdateOf(d)} /\ Told' = Told \cup {UpdateOf(d)}
      /\ watch[d] # "conf" => Members(queue)' = Members(queue) /\ Told' = Told
  BY QueueAdds DEF WriteConfig, WatchInv, TypeOK, inotifyVars, UpdateOf
<1>2. /\ DeleteOf(c) \in Told' <=> DeleteOf(c) \in Told
      /\ MkdirOf(c) \in Members(queue)' <=> MkdirOf(c) \in Members(queue)
      /\ UpdateOf(c) \in Told => UpdateOf(c) \in Told'
      /\ UpdateOf(c) \in Told' => UpdateOf(c) \in Told \/ (c = d /\ watch[d] = "conf")
      /\ c = d /\ watch[d] = "conf" => UpdateOf(c) \in Told'
  BY <1>1, EventsDiffer
<1>3. /\ dir[d] = "there" /\ changes[d] < MaxChanges /\ x # "none"
      /\ conf' = [conf EXCEPT ![d] = x]
      /\ changes' = [changes EXCEPT ![d] = @ + 1]
      /\ noticed' = [noticed EXCEPT ![d] = watch[d] = "conf"]
      /\ UNCHANGED <<dir, raced, rootWatched, watch, walkPC, left, cur, aborted, cache, last>>
  BY DEF WriteConfig, walkVars, infoVars, State
<1>4. ContainerInv(c) /\ ContainerInv(d) /\ TypeOK
  BY DEF WatchInv
<1>5. ~Deleted(d)
  BY <1>3, <1>4, WatchBounds DEF Deleted, TypeOK, DockerTypeOK
<1>6. DeleteOf(d) \notin Told /\ d \notin raced
  BY <1>4, <1>5 DEF ContainerInv, DeletedForGood
<1>7. WillBeWatched(c)' /\ UpdatesAreWatched(c)'
  BY <1>2, <1>3, <1>4 DEF ContainerInv, WillBeWatched, UpdatesAreWatched
<1>8. c # d => conf'[c] = conf[c] /\ changes'[c] = changes[c] /\ noticed'[c] = noticed[c]
  BY <1>3, <1>4 DEF TypeOK, DockerTypeOK
<1>9. conf'[d] = x /\ (noticed'[d] <=> watch[d] = "conf")
  BY <1>3, <1>4 DEF TypeOK, DockerTypeOK
<1>10. DeletedForGood(c)'
  BY <1>2, <1>3, <1>4, <1>6, <1>8 DEF ContainerInv, DeletedForGood, Deleted
<1>11. NoticedIsTold(c)'
  <2>1. CASE c = d
    BY <1>2, <1>3, <1>9, <2>1 DEF NoticedIsTold
  <2>2. CASE c # d
    BY <1>2, <1>3, <1>4, <1>8, <2>2 DEF ContainerInv, NoticedIsTold
  <2>. QED
    BY <2>1, <2>2
<1>12. ReadIsThere(c)' /\ CacheIsTold(c)'
  <2>1. CASE c = d
    BY <1>2, <1>3, <1>4, <1>6, <1>9, <2>1 DEF ContainerInv, ReadIsThere, CacheIsTold
  <2>2. CASE c # d
    BY <1>2, <1>3, <1>4, <1>8, <2>2 DEF ContainerInv, ReadIsThere, CacheIsTold
  <2>. QED
    BY <2>1, <2>2
<1>. QED
  BY <1>7, <1>10, <1>11, <1>12 DEF ContainerInv

LEMMA DeleteStep ==
  ASSUME WatchInv, NEW d \in IDs, DeleteConfig(d), NEW c \in IDs
  PROVE  ContainerInv(c)'
<1>1. /\ watch[d] # "none" => Members(queue)' = Members(queue) \cup {DeleteOf(d)} /\ Told' = Told \cup {DeleteOf(d)}
      /\ watch[d] = "none" => Members(queue)' = Members(queue) /\ Told' = Told
  BY QueueAdds DEF DeleteConfig, WatchInv, TypeOK, inotifyVars, DeleteOf
<1>2. /\ UpdateOf(c) \in Told' <=> UpdateOf(c) \in Told
      /\ MkdirOf(c) \in Members(queue)' <=> MkdirOf(c) \in Members(queue)
      /\ DeleteOf(c) \in Told => DeleteOf(c) \in Told'
      /\ DeleteOf(c) \in Told' => DeleteOf(c) \in Told \/ c = d
      /\ c = d /\ watch[d] # "none" => DeleteOf(c) \in Told'
  BY <1>1, EventsDiffer
<1>3. /\ conf[d] # "none"
      /\ conf' = [conf EXCEPT ![d] = "none"]
      /\ changes' = [changes EXCEPT ![d] = MaxChanges]
      /\ noticed' = [noticed EXCEPT ![d] = watch[d] # "none"]
      /\ raced' = IF d \in cur /\ walkPC \in {"update", "add"} THEN raced \cup {d} ELSE raced
      /\ UNCHANGED <<dir, rootWatched, watch, walkPC, left, cur, aborted, cache, last>>
  BY DEF DeleteConfig, walkVars, infoVars
<1>4. ContainerInv(c) /\ TypeOK
  BY DEF WatchInv
<1>5. WillBeWatched(c)' /\ UpdatesAreWatched(c)'
  BY <1>2, <1>3, <1>4 DEF ContainerInv, WillBeWatched, UpdatesAreWatched
<1>6. c # d => /\ conf'[c] = conf[c] /\ changes'[c] = changes[c] /\ noticed'[c] = noticed[c]
               /\ c \in raced' <=> c \in raced
  BY <1>3, <1>4 DEF TypeOK, DockerTypeOK
<1>7. conf'[d] = "none" /\ changes'[d] = MaxChanges /\ (noticed'[d] <=> watch[d] # "none")
  BY <1>3, <1>4 DEF TypeOK, DockerTypeOK
<1>8. DeletedForGood(c)'
  BY <1>2, <1>3, <1>4, <1>6, <1>7 DEF ContainerInv, DeletedForGood, Deleted
<1>9. NoticedIsTold(c)'
  <2>1. CASE c = d
    BY <1>2, <1>3, <1>7, <2>1 DEF NoticedIsTold
  <2>2. CASE c # d
    BY <1>2, <1>3, <1>4, <1>6, <2>2 DEF ContainerInv, NoticedIsTold
  <2>. QED
    BY <2>1, <2>2
<1>10. ReadIsThere(c)' /\ CacheIsTold(c)'
  <2>1. CASE c = d
    BY <1>2, <1>3, <1>4, <1>7, <2>1 DEF ContainerInv, ReadIsThere, CacheIsTold
  <2>2. CASE c # d
    BY <1>2, <1>3, <1>4, <1>6, <2>2 DEF ContainerInv, ReadIsThere, CacheIsTold
  <2>. QED
    BY <2>1, <2>2
<1>. QED
  BY <1>5, <1>8, <1>9, <1>10 DEF ContainerInv

LEMMA RmdirStep ==
  ASSUME WatchInv, NEW d \in IDs, Rmdir(d), NEW c \in IDs
  PROVE  ContainerInv(c)'
<1>1. /\ dir[d] = "there" /\ conf[d] = "none"
      /\ dir' = [dir EXCEPT ![d] = "gone"]
      /\ watch' = [watch EXCEPT ![d] = "none"]
      /\ UNCHANGED <<conf, changes, noticed, raced, walkPC, left, cur, aborted, cache, last>>
  BY DEF Rmdir, walkVars, infoVars
<1>2. Members(queue)' = Members(queue) /\ Told' = Told
  BY DEF Rmdir, inotifyVars, Members, Told
<1>3. ContainerInv(c) /\ TypeOK
  BY DEF WatchInv
<1>4. dir'[c] = (IF c = d THEN "gone" ELSE dir[c]) /\ watch'[c] = (IF c = d THEN "none" ELSE watch[c])
  BY <1>1, <1>3 DEF TypeOK, DockerTypeOK, WatchTypeOK
<1>5. WillBeWatched(c)' /\ UpdatesAreWatched(c)' /\ DeletedForGood(c)'
  BY <1>1, <1>2, <1>3, <1>4 DEF ContainerInv, WillBeWatched, UpdatesAreWatched, DeletedForGood, Deleted
<1>6. NoticedIsTold(c)' /\ ReadIsThere(c)' /\ CacheIsTold(c)'
  BY <1>1, <1>2, <1>3, <1>4 DEF ContainerInv, NoticedIsTold, ReadIsThere, CacheIsTold
<1>. QED
  BY <1>5, <1>6 DEF ContainerInv

LEMMA PollStep ==
  ASSUME WatchInv, PollEvent, NEW c \in IDs
  PROVE  ContainerInv(c)'
<1>. DEFINE ev == Head(queue)
<1>1. /\ watch' = IF ev.kind = "mkdir" /\ triggered /\ dir[ev.id] = "there"
                  THEN [watch EXCEPT ![ev.id] = "conf"] ELSE watch
      /\ UNCHANGED <<dir, conf, changes, noticed, raced, triggered, walkPC, left, cur, aborted, cache, last>>
  BY DEF PollEvent, dockerVars, walkVars, infoVars
<1>2. /\ ev \in Event /\ Members(queue) = Members(queue)' \cup {ev}
      /\ UpdateOf(c) \in Told' <=> UpdateOf(c) \in Told
      /\ DeleteOf(c) \in Told' <=> DeleteOf(c) \in Told
  BY PollTakes DEF WatchInv, TypeOK
<1>. HIDE DEF ev
<1>3. ContainerInv(c) /\ TypeOK /\ WalkOK
  BY DEF WatchInv
<1>4. watch[c] # "none" => watch'[c] # "none"
  BY <1>1, <1>2, <1>3 DEF TypeOK, WatchTypeOK, Event
<1>5. ev = MkdirOf(c) /\ triggered /\ dir[c] = "there" => watch'[c] # "none"
  BY <1>1, <1>3, EventsDiffer DEF TypeOK, WatchTypeOK
<1>6. WillBeWatched(c)'
  BY <1>1, <1>2, <1>3, <1>4, <1>5 DEF ContainerInv, WillBeWatched, WalkOK
<1>7. UpdatesAreWatched(c)' /\ DeletedForGood(c)'
  BY <1>1, <1>2, <1>3, <1>4 DEF ContainerInv, UpdatesAreWatched, DeletedForGood, Deleted
<1>8. NoticedIsTold(c)' /\ ReadIsThere(c)' /\ CacheIsTold(c)'
  BY <1>1, <1>2, <1>3, <1>4 DEF ContainerInv, NoticedIsTold, ReadIsThere, CacheIsTold
<1>. QED
  BY <1>6, <1>7, <1>8 DEF ContainerInv

LEMMA HandleUpdateStep ==
  ASSUME WatchInv, NEW d \in IDs, HandleUpdate(d), NEW c \in IDs
  PROVE  ContainerInv(c)'
<1>1. /\ elem # <<>> /\ Head(elem) = UpdateOf(d) /\ elem' = Tail(elem)
      /\ conf[d] # "none" => cache' = cache \cup {d} /\ last' = [last EXCEPT ![d] = conf[d]]
      /\ conf[d] = "none" => cache' = cache /\ last' = last
      /\ UNCHANGED <<dir, conf, changes, noticed, raced, watch, queue, walkPC, left, cur, aborted>>
  BY DEF HandleUpdate, UpdateOf, dockerVars, kernelVars, walkVars, infoVars
<1>2. Members(queue)' = Members(queue) /\ Told = Told' \cup {UpdateOf(d)}
  BY <1>1, HandlerTakes DEF WatchInv, TypeOK
<1>3. /\ DeleteOf(c) \in Told' <=> DeleteOf(c) \in Told
      /\ UpdateOf(c) \in Told' => UpdateOf(c) \in Told
      /\ UpdateOf(c) \in Told => UpdateOf(c) \in Told' \/ c = d
      /\ UpdateOf(d) \in Told
  BY <1>2, EventsDiffer
<1>4. ContainerInv(c) /\ ContainerInv(d) /\ TypeOK
  BY DEF WatchInv
<1>5. conf[d] # "none" => watch[d] # "none"
  BY <1>3, <1>4 DEF ContainerInv, UpdatesAreWatched, DeletedForGood
<1>6. /\ c = d /\ conf[c] # "none" => last'[c] = conf[c]
      /\ c # d \/ conf[c] = "none" => last'[c] = last[c]
  BY <1>1, <1>4 DEF TypeOK, InfoTypeOK
<1>7. WillBeWatched(c)' /\ UpdatesAreWatched(c)' /\ DeletedForGood(c)'
  BY <1>1, <1>2, <1>3, <1>4 DEF ContainerInv, WillBeWatched, UpdatesAreWatched, DeletedForGood, Deleted
<1>8. NoticedIsTold(c)'
  BY <1>1, <1>3, <1>4, <1>6 DEF ContainerInv, NoticedIsTold
<1>9. ReadIsThere(c)' /\ CacheIsTold(c)'
  BY <1>1, <1>3, <1>4, <1>5 DEF ContainerInv, ReadIsThere, CacheIsTold
<1>. QED
  BY <1>7, <1>8, <1>9 DEF ContainerInv

LEMMA HandleDeleteStep ==
  ASSUME WatchInv, NEW d \in IDs, HandleDelete(d), NEW c \in IDs
  PROVE  ContainerInv(c)'
<1>1. /\ elem # <<>> /\ Head(elem) = DeleteOf(d) /\ elem' = Tail(elem)
      /\ cache' = cache \ {d} /\ last' = [last EXCEPT ![d] = "dead"]
      /\ UNCHANGED <<dir, conf, changes, noticed, raced, watch, queue, walkPC, left, cur, aborted>>
  BY DEF HandleDelete, DeleteOf, dockerVars, kernelVars, walkVars
<1>2. Members(queue)' = Members(queue) /\ Told = Told' \cup {DeleteOf(d)}
  BY <1>1, HandlerTakes DEF WatchInv, TypeOK
<1>3. /\ UpdateOf(c) \in Told' <=> UpdateOf(c) \in Told
      /\ DeleteOf(c) \in Told' => DeleteOf(c) \in Told
      /\ DeleteOf(c) \in Told => DeleteOf(c) \in Told' \/ c = d
      /\ DeleteOf(d) \in Told
  BY <1>2, EventsDiffer
<1>4. ContainerInv(c) /\ ContainerInv(d) /\ TypeOK
  BY DEF WatchInv
<1>5. conf[d] = "none"
  BY <1>3, <1>4 DEF ContainerInv, DeletedForGood, Deleted
<1>6. last'[c] = IF c = d THEN "dead" ELSE last[c]
  BY <1>1, <1>4 DEF TypeOK, InfoTypeOK
<1>7. WillBeWatched(c)' /\ UpdatesAreWatched(c)' /\ DeletedForGood(c)'
  BY <1>1, <1>2, <1>3, <1>4 DEF ContainerInv, WillBeWatched, UpdatesAreWatched, DeletedForGood, Deleted
<1>8. NoticedIsTold(c)'
  BY <1>1, <1>3, <1>4, <1>5, <1>6 DEF ContainerInv, NoticedIsTold
<1>9. ReadIsThere(c)' /\ CacheIsTold(c)'
  BY <1>1, <1>3, <1>4 DEF ContainerInv, ReadIsThere, CacheIsTold
<1>. QED
  BY <1>7, <1>8, <1>9 DEF ContainerInv

\* The walk's steps, and the answers to its control messages: the queues and what
\* Docker has done are as they were.
LEMMA WalkContainerStep ==
  ASSUME WatchInv, NEW c \in IDs,
         \/ ControlRoot \/ ControlTrigger \/ WalkList \/ WalkUpdate \/ WalkEnd
         \/ \E d \in IDs : \/ ControlAdd(d) \/ ControlAddFails(d)
                           \/ WalkRead(d) \/ WalkDescend(d) \/ WalkFails(d)
  PROVE  ContainerInv(c)'
<1>1. UNCHANGED <<dir, conf, changes, noticed, raced, queue, elem, last>>
  BY DEF ControlRoot, ControlTrigger, WalkList, WalkUpdate, WalkEnd, ControlAdd, ControlAddFails,
     WalkRead, WalkDescend, WalkFails, dockerVars, kernelVars, inotifyVars, infoVars
<1>2. Members(queue)' = Members(queue) /\ Told' = Told
  BY <1>1 DEF Members, Told
<1>3. ContainerInv(c) /\ TypeOK /\ WalkOK
  BY DEF WatchInv
<1>4. DeletedForGood(c)' /\ NoticedIsTold(c)'
  BY <1>1, <1>2, <1>3 DEF ContainerInv, DeletedForGood, NoticedIsTold, Deleted
<1>. DEFINE WalkParts == /\ WillBeWatched(c)' /\ UpdatesAreWatched(c)'
                         /\ ReadIsThere(c)' /\ CacheIsTold(c)'
<1>. USE <1>1, <1>2, <1>3 DEF ContainerInv, WillBeWatched, UpdatesAreWatched, ReadIsThere, CacheIsTold
<1>5. ASSUME ControlRoot \/ ControlTrigger PROVE WalkParts
  BY <1>5 DEF ControlRoot, ControlTrigger, kernelVars, infoVars, WalkOK
<1>6. ASSUME WalkList PROVE WalkParts
  BY <1>6 DEF WalkList, kernelVars, infoVars, WalkOK
<1>7. ASSUME WalkUpdate PROVE WalkParts
  BY <1>7 DEF WalkUpdate, kernelVars
<1>8. ASSUME WalkEnd PROVE WalkParts
  BY <1>8 DEF WalkEnd, kernelVars, infoVars
<1>9. ASSUME NEW d \in IDs, ControlAdd(d) PROVE WalkParts
  <2>1. watch'[c] = IF c = d THEN "dir" ELSE watch[c]
    BY <1>9 DEF ControlAdd, TypeOK, WatchTypeOK
  <2>2. c \in cur => c = d
    BY <1>9 DEF ControlAdd, WalkOK
  <2>. QED
    BY <1>9, <2>1, <2>2 DEF ControlAdd, infoVars
<1>10. ASSUME NEW d \in IDs, ControlAddFails(d) PROVE WalkParts
  <2>1. c \in cur => c = d /\ conf[c] = "none"
    BY <1>10 DEF ControlAddFails, WalkOK, DeletedForGood
  <2>. QED
    BY <1>10, <2>1 DEF ControlAddFails, Abort, kernelVars, infoVars
<1>11. ASSUME NEW d \in IDs, WalkRead(d) PROVE WalkParts
  BY <1>11 DEF WalkRead, kernelVars, infoVars, WalkOK
<1>12. ASSUME NEW d \in IDs, WalkDescend(d) PROVE WalkParts
  BY <1>12 DEF WalkDescend, kernelVars, infoVars
<1>13. ASSUME NEW d \in IDs, WalkFails(d) PROVE WalkParts
  BY <1>13 DEF WalkFails, Abort, kernelVars, infoVars
<1>. QED
  BY <1>4, <1>5, <1>6, <1>7, <1>8, <1>9, <1>10, <1>11, <1>12, <1>13

-----------------------------------------------------------------------------
LEMMA WatchInvInit == Init => WatchInv
<1>. SUFFICES ASSUME Init PROVE WatchInv
  OBVIOUS
<1>1. TypeOK
  BY DEF Init, TypeOK, DockerTypeOK, QueuesTypeOK, WatchTypeOK, WalkTypeOK, InfoTypeOK, State
<1>2. WalkOK
  BY DEF Init, WalkOK
<1>3. Members(queue) = {} /\ Told = {}
  BY MembersEmpty DEF Init, Told
<1>4. ASSUME NEW c \in IDs PROVE ContainerInv(c)
  BY <1>3 DEF Init, ContainerInv, WillBeWatched, DeletedForGood, UpdatesAreWatched, NoticedIsTold,
     ReadIsThere, CacheIsTold
<1>. QED
  BY <1>1, <1>2, <1>4 DEF WatchInv

LEMMA WatchInvStep == WatchInv /\ [Next]_vars => WatchInv'
<1>1. ASSUME WatchInv, Next PROVE WatchInv'
  <2>1. TypeOK' /\ WalkOK'
    BY <1>1, DockerTypeStep, QueuesTypeStep, WatchTypeStep, WalkStep, InfoTypeStep DEF WatchInv, TypeOK
  <2>2. ASSUME NEW c \in IDs PROVE ContainerInv(c)'
    <3>1. CASE Docker
      BY <1>1, <3>1, MkdirStep, WriteStep, DeleteStep, RmdirStep DEF Docker
    <3>2. CASE PollEvent
      BY <1>1, <3>2, PollStep
    <3>3. CASE PollControl \/ UNCHANGED vars
      BY <1>1, <3>3 DEF PollControl, vars, dockerVars, kernelVars, inotifyVars, walkVars, infoVars, WatchInv, ContainerInv,
         WillBeWatched, DeletedForGood, Deleted, UpdatesAreWatched, NoticedIsTold, ReadIsThere, CacheIsTold,
         Told, Members
    <3>4. CASE AddWatches \/ (PollLoop /\ ~PollEvent /\ ~PollControl)
      BY <1>1, <3>4, WalkContainerStep DEF AddWatches, PollLoop
    <3>5. CASE Handler
      BY <1>1, <3>5, HandleUpdateStep, HandleDeleteStep DEF Handler
    <3>. QED
      BY <1>1, <3>1, <3>2, <3>3, <3>4, <3>5 DEF Next, PollLoop
  <2>. QED
    BY <2>1, <2>2 DEF WatchInv
<1>2. ASSUME WatchInv, UNCHANGED vars PROVE WatchInv'
  BY <1>2 DEF vars, dockerVars, kernelVars, inotifyVars, walkVars, infoVars, WatchInv, WalkOK,
     TypeOK, DockerTypeOK, QueuesTypeOK, WatchTypeOK, WalkTypeOK, InfoTypeOK, ContainerInv,
     WillBeWatched, DeletedForGood, Deleted, UpdatesAreWatched, NoticedIsTold, ReadIsThere, CacheIsTold,
     Told, Members
<1>. QED
  BY <1>1, <1>2

\* The invariant holds of every run of the sensor.
THEOREM WatchInvariant == Spec => []WatchInv
<1>. QED
  BY WatchInvInit, WatchInvStep, PTL DEF Spec

\* No container falls between the walk and the trigger (addWatches and the
\* triggers of pollLoop): when the sensor has settled, each container that is
\* there is watched.
THEOREM ContainersAreWatched == Spec => []ContainersWatched
<1>1. WatchInv => ContainersWatched
  BY MembersEmpty DEF WatchInv, WalkOK, ContainersWatched, Settled, ContainerInv, WillBeWatched
<1>. QED
  BY <1>1, WatchInvariant, PTL

\* What the sensor sends last of a container and what its cache holds is what
\* there is, when it has handled all it was told (onDockerUpdate, addWatches).
THEOREM LastStateIsKnown == Spec => []KnowsTheLastState
<1>1. ASSUME WatchInv PROVE KnowsTheLastState
  <2>. SUFFICES ASSUME Settled, NEW c \in IDs
                PROVE  /\ noticed[c] => last[c] = IF conf[c] = "none" THEN "dead" ELSE conf[c]
                       /\ c \in cache /\ conf[c] = "none" => c \in raced
    BY DEF KnowsTheLastState
  <2>1. Told = {}
    BY MembersEmpty DEF Settled, Told
  <2>2. NoticedIsTold(c) /\ CacheIsTold(c)
    BY <1>1 DEF WatchInv, ContainerInv
  <2>. QED
    BY <2>1, <2>2 DEF NoticedIsTold, CacheIsTold
<1>. QED
  BY <1>1, WatchInvariant, PTL

-----------------------------------------------------------------------------
(* What reaches the subscriptions of Containers.                           *)
(*                                                                         *)
(* Both watchers are told of every start, each in the order of the starts, *)
(* and unless a file is read too late each reports it.  So what is to come *)
(* of a watcher, the starts it has reported and those it has not read yet, *)
(* does not change when it reads.  And unless one of them gets ahead, what *)
(* is held back for a container is its earliest start that one watcher has *)
(* handed over and the other has not, and but for that one, the starts     *)
(* still to come from both are the same (InTurn).  The next report of the  *)
(* other watcher completes it.                                             *)

FileEvents   == [id : Ids, kind : {"update", "delete"}, config : Nat]
DockerEvents == [source : {"docker"}, id : Ids, state : {"created", "running", "exited", "dead"},
                 pid : Nat, config : Nat \ {0}, exitCode : ExitCodes \cup {0}]
OciEvents    == [source : {"oci"}, id : Ids, state : {"running", "stopped"}, config : Nat]
ApiEvents    == [id : Ids, type : {"CREATED", "RUNNING", "EXITED", "DESTROYED"}, pid : Nat, docker : Nat, oci : Nat,
                 exitCode : ExitCodes \cup {0}, details : {NoDetails} \cup {Details[c] : c \in Ids}]
RuntimeStates == {"none", "created", "prepared", "running", "exited", "dead"}
RuntimeRecords == [state : RuntimeStates, starts : Nat, updates : Nat, code : ExitCodes \cup {0}]

EventTypeOK ==
  /\ runtime \in [Ids -> RuntimeRecords]
  /\ \A c \in Ids : /\ runtime[c].state \in {"none", "created"} => runtime[c].starts = 0
                    /\ runtime[c].state \in {"running", "exited"} => runtime[c].starts # 0
  /\ dockerWrites \in Seq(FileEvents)
  /\ ociWrites \in Seq(FileEvents)
  /\ docker \in Seq(DockerEvents)
  /\ oci \in Seq(OciEvents)
  /\ createdMap \in [Ids -> ApiEvents \cup {None}]
  /\ startedMap \in [Ids -> ApiEvents \cup {None}]
  /\ events \in Seq(ApiEvents)
  /\ uneven \subseteq Ids

SubTypeOK ==
  /\ stage \in [Subs -> {"idle", "open", "closed", "nil"}]
  /\ taken \in [Subs -> Nat]
  /\ since \in [Subs -> Nat]
  /\ out \in [Subs -> Seq(Nat)]
  /\ containerIds = [s \in Subs |-> containerIds[s]]

\* The starts that Docker's watcher has yet to hand over, and those that are
\* being made, too.
Coming(reports, writes, runs, c) ==
  Runs(reports, writes, c) \cup IF runs[c].state = "prepared" THEN {runs[c].starts + 2} ELSE {}

\* What is reported of a container is behind its state.
DockerMayTell(e, r) ==
  /\ r.state # "none"
  /\ e.state = "dead" => r.state = "dead"
  /\ e.state \in {"running", "exited"} => r.starts # 0
  /\ e.state = "created" => e.pid = 0
  /\ e.state = "running" => e.pid \in 1 .. r.starts /\ e.config = e.pid + 1
  /\ e.pid <= r.starts
LastPrepared(r) == IF r.state = "prepared" THEN r.starts + 2 ELSE r.starts + 1
OciMayTell(e, r) == e.state = "running" => e.config \in 2 .. LastPrepared(r)

DockerIsBehind ==
  /\ \A i \in DOMAIN docker : DockerMayTell(docker[i], runtime[docker[i].id])
  /\ \A i \in DOMAIN dockerWrites :
       /\ dockerWrites[i].kind = "delete" => runtime[dockerWrites[i].id].state = "dead"
       /\ dockerWrites[i].config # NoConfig => dockerWrites[i].config \in 2 .. runtime[dockerWrites[i].id].starts + 1
OciIsBehind ==
  /\ \A i \in DOMAIN oci : OciMayTell(oci[i], runtime[oci[i].id])
  /\ \A i \in DOMAIN ociWrites :
       ociWrites[i].config # NoConfig => ociWrites[i].config \in 2 .. LastPrepared(runtime[ociWrites[i].id])

\* A container is created first and removed last.
DockerInOrder ==
  /\ \A i, j \in DOMAIN docker : i < j /\ docker[i].id = docker[j].id =>
       /\ docker[j].state = "created" => docker[i].state = "created"
       /\ docker[i].state # "dead"
  /\ \A i \in DOMAIN docker, j \in DOMAIN dockerWrites :
       docker[i].id = dockerWrites[j].id => docker[i].state # "dead"
  /\ \A i, j \in DOMAIN dockerWrites :
       i < j /\ dockerWrites[i].id = dockerWrites[j].id => dockerWrites[i].kind # "delete"

\* Starts are written in order, and reported in order when each is reported
\* once.
RunsInOrder(reports, writes, except) ==
  /\ \A i, j \in DOMAIN writes :
       i < j /\ writes[i].id = writes[j].id /\ writes[i].config # NoConfig /\ writes[j].config # NoConfig =>
         writes[i].config < writes[j].config
  /\ \A i, j \in DOMAIN reports :
       i < j /\ reports[i].id = reports[j].id /\ reports[i].state = "running" /\ reports[j].state = "running" =>
         reports[i].id \in except \/ reports[i].config < reports[j].config
  /\ \A i \in DOMAIN reports, j \in DOMAIN writes :
       reports[i].id = writes[j].id /\ reports[i].state = "running" /\ writes[j].config # NoConfig =>
         reports[i].id \in except \/ reports[i].config < writes[j].config

DockerInv == DockerIsBehind /\ DockerInOrder /\ RunsInOrder(docker, dockerWrites, uneven)
OciInv    == OciIsBehind /\ RunsInOrder(oci, ociWrites, uneven)
QueueInv  == DockerInv /\ OciInv

\* What is held back, and what was sent.
HeldForm ==
  \A c \in Ids :
    /\ createdMap[c] # None => /\ createdMap[c].id = c /\ createdMap[c].type = "CREATED"
                               /\ createdMap[c].docker # NoConfig /\ createdMap[c].pid = 0
    /\ startedMap[c] # None => /\ startedMap[c].id = c /\ startedMap[c].type = "RUNNING"
                               /\ startedMap[c].details = NoDetails
                               /\ startedMap[c].pid <= runtime[c].starts
                               /\ startedMap[c].docker # NoConfig => startedMap[c].pid # 0
EventForm ==
  \A i \in DOMAIN events :
    /\ events[i].type \in {"RUNNING", "DESTROYED"} => events[i].details = NoDetails
    /\ events[i].pid <= runtime[events[i].id].starts
    /\ events[i].type = "EXITED" => runtime[events[i].id].starts # 0
    /\ events[i].type = "RUNNING" /\ events[i].id \notin uneven => events[i].pid # 0

\* As long as the starts are reported evenly: a start that one watcher has
\* reported is the next one of the other.
InStep(held, coming, ociRuns) ==
  IF held = None THEN ociRuns = coming
  ELSE IF held.oci = NoConfig
  THEN /\ held.docker # NoConfig
       /\ held.pid + 1 = held.docker
       /\ ociRuns = coming \cup {held.docker}
       /\ \A k \in coming : held.docker < k
  ELSE /\ held.docker = NoConfig
       /\ held.pid = 0
       /\ coming = ociRuns \cup {held.oci}
       /\ \A k \in ociRuns : held.oci < k
InTurn ==
  \A c \in Ids \ uneven :
    InStep(startedMap[c], Coming(docker, dockerWrites, runtime, c), Runs(oci, ociWrites, c))

\* The starts that were sent are over.
SentIsPast ==
  \A i \in DOMAIN events :
    events[i].type = "RUNNING" /\ events[i].id \notin uneven =>
      \A k \in Coming(docker, dockerWrites, runtime, events[i].id) \cup Runs(oci, ociWrites, events[i].id) :
        events[i].pid + 1 < k

\* A container whose creation is still to be handled has only been created;
\* the OCI runtime may have prepared it.
CreatedBefore ==
  \A i \in DOMAIN docker : docker[i].state = "created" =>
    /\ docker[i].id \notin uneven => \/ startedMap[docker[i].id] = None
                                     \/ startedMap[docker[i].id].docker = NoConfig
    /\ \A j \in DOMAIN events : events[j].id = docker[i].id =>
         \/ events[j].type = "CREATED"
         \/ events[j].type = "RUNNING" /\ events[j].id \in uneven

DestroyedAfter ==
  \A j \in DOMAIN events : events[j].type = "DESTROYED" =>
    /\ runtime[events[j].id].state = "dead"
    /\ \A i \in DOMAIN docker : docker[i].id # events[j].id
    /\ \A i \in DOMAIN dockerWrites : dockerWrites[i].id # events[j].id

LifeInv == /\ HeldForm /\ EventForm /\ InTurn /\ SentIsPast
           /\ CreatedBefore /\ DestroyedAfter /\ LifecycleInOrder

\* What a subscription has asked for.
Full(filters, type) == \E i \in DOMAIN filters : filters[i].type = type /\ filters[i].view = "FULL"

ViewsInv ==
  /\ \A i \in DOMAIN events : events[i].type \in {"CREATED", "EXITED"} /\ events[i].docker = NoConfig =>
       \E s \in Subs : stage[s] # "idle" /\ ~Full(request[s].filters, events[i].type)
  /\ \A s \in Subs : \A n \in DOMAIN out[s] :
       /\ out[s][n] \in DOMAIN events
       /\ ~Full(request[s].filters, events[out[s][n]].type) =>
            events[out[s][n]].docker = NoConfig /\ events[out[s][n]].oci = NoConfig

\* What a container filter has made of the events from one to another.
Seen(evs, from, to, r, c) == {i \in from + 1 .. to : evs[i].id = c /\ Selected(r, evs[i])}
FollowedUpTo(evs, from, to, r) ==
  {c \in Ids \cup r.ids : /\ c \in r.ids \/ \E i \in Seen(evs, from, to, r, c) : Names(r, evs[i])
                         /\ \A i \in Seen(evs, from, to, r, c) : evs[i].type # "DESTROYED"}

FollowInv ==
  /\ \A s \in Subs : since[s] <= taken[s] /\ taken[s] <= Len(events)
  /\ FollowsItsContainers

ContainersInv == EventTypeOK /\ SubTypeOK /\ QueueInv /\ LifeInv /\ ViewsInv /\ FollowInv

-----------------------------------------------------------------------------
(* Queues. *)

LEMMA AppendOne ==
  ASSUME NEW S, NEW q \in Seq(S), NEW e \in S
  PROVE  /\ Append(q, e) \in Seq(S) /\ Len(Append(q, e)) = Len(q) + 1
         /\ DOMAIN Append(q, e) = 1 .. Len(q) + 1 /\ DOMAIN q = 1 .. Len(q) /\ Len(q) \in Nat
         /\ \A i \in DOMAIN q : Append(q, e)[i] = q[i]
         /\ Append(q, e)[Len(q) + 1] = e
OBVIOUS

LEMMA TailOf ==
  ASSUME NEW S, NEW q \in Seq(S), q # <<>>
  PROVE  /\ Tail(q) \in Seq(S) /\ Len(Tail(q)) = Len(q) - 1
         /\ DOMAIN Tail(q) = 1 .. Len(q) - 1 /\ DOMAIN q = 1 .. Len(q) /\ Len(q) \in Nat \ {0}
         /\ \A i \in DOMAIN Tail(q) : Tail(q)[i] = q[i + 1]
         /\ Head(q) = q[1] /\ Head(q) \in S
OBVIOUS

LEMMA ConfigIs ==
  \A e \in DockerEvents \cup OciEvents : ConfigOf(e) = IF e.state = "running" THEN e.config ELSE NoConfig
<1>1. \A e \in DockerEvents \cup OciEvents : "id" \in DOMAIN e
  BY DEF DockerEvents, OciEvents
<1>2. "id" \notin DOMAIN None
  BY DEF None
<1>. QED
  BY <1>1, <1>2 DEF ConfigOf

\* What Runs has: a start that is reported, or one that is not read.
IsRun(reports, writes, c, k) ==
  /\ k # NoConfig
  /\ \/ \E i \in DOMAIN reports : reports[i].id = c /\ reports[i].state = "running" /\ reports[i].config = k
     \/ \E i \in DOMAIN writes : writes[i].id = c /\ writes[i].config = k

LEMMA RunsAre ==
  ASSUME NEW S \in SUBSET (DockerEvents \cup OciEvents), NEW reports \in Seq(S), NEW writes \in Seq(FileEvents),
         NEW c, NEW k
  PROVE  k \in Runs(reports, writes, c) <=> IsRun(reports, writes, c, k)
<1>1. \A i \in DOMAIN reports : reports[i] \in DockerEvents \cup OciEvents
  OBVIOUS
<1>2. \A i \in DOMAIN reports :
        ConfigOf(reports[i]) = IF reports[i].state = "running" THEN reports[i].config ELSE NoConfig
  BY <1>1, ConfigIs
<1>3. k \in Runs(reports, writes, c) <=>
        /\ k # NoConfig
        /\ \/ \E i \in DOMAIN reports : reports[i].id = c /\ ConfigOf(reports[i]) = k
           \/ \E i \in DOMAIN writes : writes[i].id = c /\ writes[i].config = k
  BY DEF Runs
<1>. QED
  BY <1>2, <1>3 DEF IsRun

LEMMA RunsWrite ==
  ASSUME NEW S \in SUBSET (DockerEvents \cup OciEvents), NEW reports \in Seq(S), NEW writes \in Seq(FileEvents),
         NEW w \in FileEvents, NEW c
  PROVE  Runs(reports, Append(writes, w), c) =
           Runs(reports, writes, c) \cup IF w.id = c /\ w.config # NoConfig THEN {w.config} ELSE {}
<1>. DEFINE more == Append(writes, w)
<1>1. /\ more \in Seq(FileEvents)
      /\ DOMAIN more = 1 .. Len(writes) + 1 /\ DOMAIN writes = 1 .. Len(writes) /\ Len(writes) \in Nat
      /\ \A i \in DOMAIN writes : more[i] = writes[i]
      /\ more[Len(writes) + 1] = w
  BY AppendOne
<1>. HIDE DEF more
<1>2. \A i : i \in DOMAIN more <=> i \in DOMAIN writes \/ i = Len(writes) + 1
  BY <1>1
<1>3. ASSUME NEW k
      PROVE  (\E i \in DOMAIN more : more[i].id = c /\ more[i].config = k) <=>
               (\E i \in DOMAIN writes : writes[i].id = c /\ writes[i].config = k) \/ (w.id = c /\ w.config = k)
  BY <1>1, <1>2
<1>4. ASSUME NEW k
      PROVE  k \in Runs(reports, more, c) <=>
               k \in Runs(reports, writes, c) \/ (k # NoConfig /\ w.id = c /\ w.config = k)
  <2>1. k \in Runs(reports, more, c) <=> IsRun(reports, more, c, k)
    BY <1>1, RunsAre
  <2>2. k \in Runs(reports, writes, c) <=> IsRun(reports, writes, c, k)
    BY RunsAre
  <2>. QED
    BY <1>3, <2>1, <2>2 DEF IsRun
<1>. QED
  BY <1>4 DEF more

LEMMA RunsTail ==
  ASSUME NEW S \in SUBSET (DockerEvents \cup OciEvents), NEW reports \in Seq(S), reports # <<>>,
         NEW writes \in Seq(FileEvents), NEW c
  PROVE  Runs(reports, writes, c) =
           Runs(Tail(reports), writes, c) \cup
           IF Head(reports).id = c /\ ConfigOf(Head(reports)) # NoConfig THEN {ConfigOf(Head(reports))} ELSE {}
<1>. DEFINE r == Tail(reports)
            e == Head(reports)
<1>1. /\ r \in Seq(S)
      /\ DOMAIN r = 1 .. Len(reports) - 1 /\ DOMAIN reports = 1 .. Len(reports) /\ Len(reports) \in Nat \ {0}
      /\ \A i \in DOMAIN r : r[i] = reports[i + 1]
      /\ e = reports[1] /\ e \in S
  BY TailOf
<1>2. ConfigOf(e) = IF e.state = "running" THEN e.config ELSE NoConfig
  BY <1>1, ConfigIs
<1>. HIDE DEF r, e
<1>3. /\ \A i \in DOMAIN r : i + 1 \in DOMAIN reports /\ r[i] = reports[i + 1]
      /\ 1 \in DOMAIN reports
      /\ \A i \in DOMAIN reports : i = 1 \/ (i - 1 \in DOMAIN r /\ r[i - 1] = reports[i])
  BY <1>1
<1>4. ASSUME NEW k
      PROVE  (\E i \in DOMAIN reports :
                reports[i].id = c /\ reports[i].state = "running" /\ reports[i].config = k) <=>
               \/ \E i \in DOMAIN r : r[i].id = c /\ r[i].state = "running" /\ r[i].config = k
               \/ e.id = c /\ e.state = "running" /\ e.config = k
  BY <1>1, <1>3
<1>5. ASSUME NEW k
      PROVE  k \in Runs(reports, writes, c) <=>
               k \in Runs(r, writes, c) \/ (k # NoConfig /\ e.id = c /\ e.state = "running" /\ e.config = k)
  <2>1. k \in Runs(reports, writes, c) <=> IsRun(reports, writes, c, k)
    BY RunsAre
  <2>2. k \in Runs(r, writes, c) <=> IsRun(r, writes, c, k)
    BY <1>1, RunsAre
  <2>. QED
    BY <1>4, <2>1, <2>2 DEF IsRun
<1>. QED
  BY <1>2, <1>5 DEF r, e

\* The event w is read, and the report it leads to is of a start with this
\* configuration, or there is none.
ReadInto(S, reports, after, w, config) ==
  \/ after = reports /\ config = NoConfig
  \/ \E e \in S : /\ after = Append(reports, e) /\ e.id = w.id /\ config = ConfigOf(e)
                  /\ e.state = "running" => e.config # NoConfig

\* An event that is read moves from one part to the other, when the file is
\* what it was written as.
LEMMA RunsRead ==
  ASSUME NEW S \in SUBSET (DockerEvents \cup OciEvents), NEW reports \in Seq(S), NEW after \in Seq(S),
         NEW writes \in Seq(FileEvents), writes # <<>>, NEW w, w = Head(writes), NEW c, NEW config,
         ReadInto(S, reports, after, w, config),
         c = w.id => config = w.config
  PROVE  Runs(after, Tail(writes), c) = Runs(reports, writes, c)
<1>. DEFINE rest == Tail(writes)
<1>1. /\ rest \in Seq(FileEvents)
      /\ DOMAIN rest = 1 .. Len(writes) - 1 /\ DOMAIN writes = 1 .. Len(writes) /\ Len(writes) \in Nat \ {0}
      /\ \A i \in DOMAIN rest : rest[i] = writes[i + 1]
      /\ w = writes[1] /\ w \in FileEvents
  BY TailOf
<1>. HIDE DEF rest
<1>2. /\ \A i \in DOMAIN rest : i + 1 \in DOMAIN writes /\ rest[i] = writes[i + 1]
      /\ 1 \in DOMAIN writes
      /\ \A i \in DOMAIN writes : i = 1 \/ (i - 1 \in DOMAIN rest /\ rest[i - 1] = writes[i])
  BY <1>1
<1>3. ASSUME NEW k
      PROVE  (\E i \in DOMAIN writes : writes[i].id = c /\ writes[i].config = k) <=>
               (\E i \in DOMAIN rest : rest[i].id = c /\ rest[i].config = k) \/ (w.id = c /\ w.config = k)
  BY <1>1, <1>2
<1>4. CASE after = reports /\ config = NoConfig
  <2>1. ASSUME NEW k PROVE k \in Runs(reports, rest, c) <=> k \in Runs(reports, writes, c)
    <3>1. w.id = c /\ w.config = k => k = NoConfig
      BY <1>4
    <3>2. k \in Runs(reports, rest, c) <=> IsRun(reports, rest, c, k)
      BY <1>1, RunsAre
    <3>3. k \in Runs(reports, writes, c) <=> IsRun(reports, writes, c, k)
      BY RunsAre
    <3>. QED
      BY <1>3, <3>1, <3>2, <3>3 DEF IsRun
  <2>. QED
    BY <1>4, <2>1 DEF rest
<1>5. ASSUME NEW e \in S, after = Append(reports, e), e.id = w.id, config = ConfigOf(e)
      PROVE  Runs(after, Tail(writes), c) = Runs(reports, writes, c)
  <2>1. /\ DOMAIN after = 1 .. Len(reports) + 1 /\ DOMAIN reports = 1 .. Len(reports) /\ Len(reports) \in Nat
        /\ \A i \in DOMAIN reports : after[i] = reports[i]
        /\ after[Len(reports) + 1] = e
    BY <1>5, AppendOne
  <2>2. \A i : i \in DOMAIN after <=> i \in DOMAIN reports \/ i = Len(reports) + 1
    BY <2>1
  <2>3. ConfigOf(e) = IF e.state = "running" THEN e.config ELSE NoConfig
    BY ConfigIs
  <2>4. ASSUME NEW k
        PROVE  (\E i \in DOMAIN after : after[i].id = c /\ after[i].state = "running" /\ after[i].config = k) <=>
                 \/ \E i \in DOMAIN reports :
                      reports[i].id = c /\ reports[i].state = "running" /\ reports[i].config = k
                 \/ e.id = c /\ e.state = "running" /\ e.config = k
    BY <2>1, <2>2
  <2>5. ASSUME NEW k PROVE k \in Runs(after, rest, c) <=> k \in Runs(reports, writes, c)
    <3>1. k \in Runs(after, rest, c) <=> IsRun(after, rest, c, k)
      BY <1>1, RunsAre
    <3>2. k # NoConfig =>
            ((e.id = c /\ e.state = "running" /\ e.config = k) <=> (w.id = c /\ w.config = k))
      BY <1>5, <2>3
    <3>3. k \in Runs(reports, writes, c) <=> IsRun(reports, writes, c, k)
      BY RunsAre
    <3>. QED
      BY <1>3, <2>4, <3>1, <3>2, <3>3 DEF IsRun
  <2>. QED
    BY <2>5 DEF rest
<1>. QED
  BY <1>4, <1>5 DEF ReadInto

-----------------------------------------------------------------------------
(* Starts stay in order. *)

LEMMA InOrderWrite ==
  ASSUME NEW S \in SUBSET (DockerEvents \cup OciEvents), NEW reports \in Seq(S), NEW writes \in Seq(FileEvents),
         NEW except, NEW after, except \subseteq after, RunsInOrder(reports, writes, except),
         NEW w \in FileEvents,
         w.config # NoConfig => \A k \in Runs(reports, writes, w.id) : k < w.config,
         \A i \in DOMAIN reports : reports[i].state = "running" => reports[i].config # NoConfig
  PROVE  RunsInOrder(reports, Append(writes, w), after)
<1>. DEFINE more == Append(writes, w)
<1>1. /\ DOMAIN more = 1 .. Len(writes) + 1 /\ DOMAIN writes = 1 .. Len(writes) /\ Len(writes) \in Nat
      /\ \A i \in DOMAIN writes : more[i] = writes[i]
      /\ more[Len(writes) + 1] = w
  BY AppendOne
<1>. HIDE DEF more
<1>2. /\ \A i \in DOMAIN more : (i \in DOMAIN writes /\ more[i] = writes[i]) \/ (i = Len(writes) + 1 /\ more[i] = w)
      /\ \A i \in DOMAIN more, j \in DOMAIN more : i < j => i \in DOMAIN writes
  BY <1>1
<1>3. /\ \A i \in DOMAIN writes : writes[i].id = w.id /\ writes[i].config # NoConfig =>
           writes[i].config \in Runs(reports, writes, w.id)
      /\ \A i \in DOMAIN reports : reports[i].id = w.id /\ reports[i].state = "running" =>
           reports[i].config \in Runs(reports, writes, w.id)
  BY RunsAre DEF IsRun
<1>4. \A i, j \in DOMAIN more :
        i < j /\ more[i].id = more[j].id /\ more[i].config # NoConfig /\ more[j].config # NoConfig =>
          more[i].config < more[j].config
  BY <1>1, <1>2, <1>3 DEF RunsInOrder
<1>5. \A i \in DOMAIN reports, j \in DOMAIN more :
        reports[i].id = more[j].id /\ reports[i].state = "running" /\ more[j].config # NoConfig =>
          reports[i].id \in after \/ reports[i].config < more[j].config
  BY <1>2, <1>3 DEF RunsInOrder
<1>6. \A i, j \in DOMAIN reports :
        i < j /\ reports[i].id = reports[j].id /\ reports[i].state = "running" /\ reports[j].state = "running" =>
          reports[i].id \in after \/ reports[i].config < reports[j].config
  BY DEF RunsInOrder
<1>. QED
  BY <1>4, <1>5, <1>6 DEF RunsInOrder, more

LEMMA InOrderKept ==
  ASSUME NEW reports, NEW writes, NEW except, NEW after, except \subseteq after, RunsInOrder(reports, writes, except)
  PROVE  RunsInOrder(reports, writes, after)
BY DEF RunsInOrder

LEMMA InOrderTake ==
  ASSUME NEW S, NEW reports \in Seq(S), reports # <<>>, NEW writes,
         NEW except, NEW after, except \subseteq after, RunsInOrder(reports, writes, except)
  PROVE  RunsInOrder(Tail(reports), writes, after)
<1>. DEFINE r == Tail(reports)
<1>1. /\ DOMAIN r = 1 .. Len(reports) - 1 /\ DOMAIN reports = 1 .. Len(reports) /\ Len(reports) \in Nat \ {0}
      /\ \A i \in DOMAIN r : r[i] = reports[i + 1]
  BY TailOf
<1>. HIDE DEF r
<1>2. \A i, j \in DOMAIN r : i + 1 \in DOMAIN reports /\ r[i] = reports[i + 1] /\ (i < j => i + 1 < j + 1)
  BY <1>1
<1>3. \A i, j \in DOMAIN r :
        i < j /\ r[i].id = r[j].id /\ r[i].state = "running" /\ r[j].state = "running" =>
          r[i].id \in after \/ r[i].config < r[j].config
  BY <1>2 DEF RunsInOrder
<1>4. \A i \in DOMAIN r, j \in DOMAIN writes :
        r[i].id = writes[j].id /\ r[i].state = "running" /\ writes[j].config # NoConfig =>
          r[i].id \in after \/ r[i].config < writes[j].config
  BY <1>2 DEF RunsInOrder
<1>. QED
  BY <1>3, <1>4 DEF RunsInOrder, r

LEMMA InOrderRead ==
  ASSUME NEW S \in SUBSET (DockerEvents \cup OciEvents), NEW reports \in Seq(S), NEW reported \in Seq(S),
         NEW writes \in Seq(FileEvents), writes # <<>>, NEW w, w = Head(writes),
         NEW except, NEW after, except \subseteq after, RunsInOrder(reports, writes, except),
         NEW config, ReadInto(S, reports, reported, w, config),
         w.id \notin after => config = w.config
  PROVE  RunsInOrder(reported, Tail(writes), after)
<1>. DEFINE rest == Tail(writes)
<1>1. /\ DOMAIN rest = 1 .. Len(writes) - 1 /\ DOMAIN writes = 1 .. Len(writes) /\ Len(writes) \in Nat \ {0}
      /\ \A i \in DOMAIN rest : rest[i] = writes[i + 1]
      /\ w = writes[1]
  BY TailOf
<1>. HIDE DEF rest
<1>2. /\ \A i, j \in DOMAIN rest : i + 1 \in DOMAIN writes /\ rest[i] = writes[i + 1] /\ (i < j => i + 1 < j + 1)
      /\ 1 \in DOMAIN writes /\ \A i \in DOMAIN rest : 1 < i + 1
  BY <1>1
<1>3. \A i, j \in DOMAIN rest :
        i < j /\ rest[i].id = rest[j].id /\ rest[i].config # NoConfig /\ rest[j].config # NoConfig =>
          rest[i].config < rest[j].config
  BY <1>2 DEF RunsInOrder
<1>4. /\ \A i, j \in DOMAIN reports :
           i < j /\ reports[i].id = reports[j].id /\ reports[i].state = "running" /\ reports[j].state = "running" =>
             reports[i].id \in after \/ reports[i].config < reports[j].config
      /\ \A i \in DOMAIN reports, j \in DOMAIN rest :
           reports[i].id = rest[j].id /\ reports[i].state = "running" /\ rest[j].config # NoConfig =>
             reports[i].id \in after \/ reports[i].config < rest[j].config
  BY <1>2 DEF RunsInOrder
<1>5. ASSUME NEW e \in S, reported = Append(reports, e), e.id = w.id, e.state = "running" => e.config # NoConfig,
             w.id \notin after => ConfigOf(e) = w.config
      PROVE  RunsInOrder(reported, rest, after)
  <2>1. /\ DOMAIN reported = 1 .. Len(reports) + 1 /\ DOMAIN reports = 1 .. Len(reports) /\ Len(reports) \in Nat
        /\ \A i \in DOMAIN reports : reported[i] = reports[i]
        /\ reported[Len(reports) + 1] = e
    BY <1>5, AppendOne
  <2>2. /\ \A i \in DOMAIN reported : \/ i \in DOMAIN reports /\ reported[i] = reports[i]
                                      \/ i = Len(reports) + 1 /\ reported[i] = e
        /\ \A i, j \in DOMAIN reported : i < j => i \in DOMAIN reports
    BY <2>1
  <2>3. e.state = "running" /\ w.id \notin after => e.config = w.config /\ w.config # NoConfig
    BY <1>5, ConfigIs
  <2>4. /\ \A i \in DOMAIN reports : reports[i].id = e.id /\ reports[i].state = "running" /\ e.state = "running" =>
             reports[i].id \in after \/ reports[i].config < e.config
        /\ \A j \in DOMAIN rest : e.id = rest[j].id /\ e.state = "running" /\ rest[j].config # NoConfig =>
             e.id \in after \/ e.config < rest[j].config
    BY <1>1, <1>2, <1>5, <2>3 DEF RunsInOrder
  <2>5. \A i, j \in DOMAIN reported :
          i < j /\ reported[i].id = reported[j].id /\ reported[i].state = "running" /\ reported[j].state = "running" =>
            reported[i].id \in after \/ reported[i].config < reported[j].config
    BY <1>4, <2>2, <2>4
  <2>6. \A i \in DOMAIN reported, j \in DOMAIN rest :
          reported[i].id = rest[j].id /\ reported[i].state = "running" /\ rest[j].config # NoConfig =>
            reported[i].id \in after \/ reported[i].config < rest[j].config
    BY <1>4, <2>2, <2>4
  <2>. QED
    BY <1>3, <2>5, <2>6 DEF RunsInOrder
<1>6. CASE reported = reports
  BY <1>3, <1>4, <1>6 DEF RunsInOrder, rest
<1>. QED
  BY <1>5, <1>6 DEF ReadInto, rest

LEMMA HeadIsFirst ==
  ASSUME NEW S \in SUBSET (DockerEvents \cup OciEvents), NEW reports \in Seq(S), reports # <<>>,
         NEW writes \in Seq(FileEvents), NEW except, RunsInOrder(reports, writes, except),
         NEW e, e = Head(reports), e.state = "running", e.id \notin except,
         NEW n \in Runs(Tail(reports), writes, e.id)
  PROVE  e.config < n
<1>. DEFINE r == Tail(reports)
<1>1. /\ r \in Seq(S)
      /\ DOMAIN r = 1 .. Len(reports) - 1 /\ DOMAIN reports = 1 .. Len(reports) /\ Len(reports) \in Nat \ {0}
      /\ \A i \in DOMAIN r : r[i] = reports[i + 1]
      /\ e = reports[1]
  BY TailOf
<1>. HIDE DEF r
<1>2. 1 \in DOMAIN reports /\ \A i \in DOMAIN r : i + 1 \in DOMAIN reports /\ 1 < i + 1 /\ r[i] = reports[i + 1]
  BY <1>1
<1>3. IsRun(r, writes, e.id, n)
  <2>1. n \in Runs(r, writes, e.id)
    BY DEF r
  <2>. QED
    BY <1>1, <2>1, RunsAre
<1>4. ASSUME NEW i \in DOMAIN r, r[i].id = e.id, r[i].state = "running", r[i].config = n PROVE e.config < n
  BY <1>1, <1>2, <1>4 DEF RunsInOrder
<1>5. ASSUME NEW i \in DOMAIN writes, writes[i].id = e.id, writes[i].config = n, n # NoConfig PROVE e.config < n
  BY <1>1, <1>2, <1>5 DEF RunsInOrder
<1>. QED
  BY <1>3, <1>4, <1>5 DEF IsRun

-----------------------------------------------------------------------------
(* What an update that is handled does to an event. *)

LEMMA MergedForm ==
  ASSUME NEW e \in ApiEvents, NEW ce, ce.pid \in Nat, ce.docker \in Nat, ce.oci \in Nat
  PROVE  LET m == Merged(e, ce)
         IN  /\ m \in ApiEvents
             /\ m.id = e.id /\ m.type = e.type /\ m.exitCode = e.exitCode /\ m.details = e.details
             /\ m.pid = IF ce.pid # 0 THEN ce.pid ELSE e.pid
             /\ m.docker = IF ce.docker # NoConfig THEN ce.docker ELSE e.docker
             /\ m.oci = IF ce.oci # NoConfig THEN ce.oci ELSE e.oci
BY DEF Merged, ApiEvents

LEMMA NotNone == \A e \in ApiEvents : e # None
<1>1. \A e \in ApiEvents : "id" \in DOMAIN e
  BY DEF ApiEvents
<1>2. "id" \notin DOMAIN None
  BY DEF None
<1>. QED
  BY <1>1, <1>2

LEMMA NewForm ==
  ASSUME NEW type \in {"CREATED", "RUNNING", "EXITED", "DESTROYED"}, NEW ce, ce.id \in Ids,
         NEW named \in BOOLEAN, ce.named \in BOOLEAN
  PROVE  /\ NewContainerEvent(type, ce, named) \in ApiEvents
         /\ ~named => NewContainerEvent(type, ce, named).details = NoDetails
BY DEF NewContainerEvent, ApiEvents, NoConfig

LEMMA DockerTells ==
  ASSUME NEW e \in DockerEvents
  PROVE  LET ce == ProcessEvents(e)
         IN  /\ ce # None
             /\ ce.id = e.id /\ ce.state = States[e.state] /\ ce.pid = e.pid
             /\ ce.named \in BOOLEAN
             /\ ce.docker = IF e.state = "dead" THEN NoConfig ELSE e.config
             /\ ce.oci = NoConfig
             /\ ce.exitCode = IF e.state = "exited" THEN e.exitCode ELSE 0
<1>. DEFINE ce == ProcessEvents(e)
<1>1. /\ e.source = "docker" /\ e.state \in {"created", "running", "exited", "dead"}
      /\ States["created"] = "CREATED" /\ States["running"] = "STARTED"
      /\ States["exited"] = "STOPPED" /\ States["dead"] = "REMOVED"
  BY DEF DockerEvents, States
<1>2. ce = [id |-> e.id, state |-> States[e.state], pid |-> e.pid,
            named |-> e.source = "docker" /\ States[e.state] # "REMOVED",
            docker |-> IF e.source = "docker" /\ States[e.state] # "REMOVED" THEN e.config ELSE NoConfig,
            oci |-> NoConfig,
            exitCode |-> IF States[e.state] = "STOPPED" THEN e.exitCode ELSE 0]
  BY <1>1 DEF ProcessEvents
<1>. HIDE DEF ce
<1>3. ce # None
  <2>1. "id" \in DOMAIN ce /\ "id" \notin DOMAIN None
    BY <1>2 DEF None
  <2>. QED
    BY <2>1
<1>4. ce.named \in BOOLEAN
  BY <1>2
<1>5. ce.docker = IF e.state = "dead" THEN NoConfig ELSE e.config
  BY <1>1, <1>2
<1>6. ce.exitCode = IF e.state = "exited" THEN e.exitCode ELSE 0
  BY <1>1, <1>2
<1>7. ce.id = e.id /\ ce.state = States[e.state] /\ ce.pid = e.pid /\ ce.oci = NoConfig
  BY <1>2
<1>. QED
  BY <1>3, <1>4, <1>5, <1>6, <1>7 DEF ce

LEMMA OciTells ==
  ASSUME NEW e \in OciEvents
  PROVE  LET ce == ProcessEvents(e)
         IN  IF e.state # "running" THEN ce = None
             ELSE /\ ce # None
                  /\ ce.id = e.id /\ ce.state = "STARTED" /\ ce.pid = 0 /\ ce.named \in BOOLEAN
                  /\ ce.docker = NoConfig /\ ce.oci = e.config
<1>. DEFINE ce == ProcessEvents(e)
<1>1. e.source = "oci"
  BY DEF OciEvents
<1>2. CASE e.state # "running"
  BY <1>1, <1>2 DEF ProcessEvents
<1>3. CASE e.state = "running"
  <2>1. ce = [id |-> e.id, state |-> "STARTED", pid |-> 0,
              named |-> e.source = "docker" /\ "STARTED" # "REMOVED",
              docker |-> NoConfig, oci |-> e.config,
              exitCode |-> IF "STARTED" = "STOPPED" THEN e.exitCode ELSE 0]
    BY <1>1, <1>3 DEF ProcessEvents
  <2>. HIDE DEF ce
  <2>2. "id" \in DOMAIN ce /\ "id" \notin DOMAIN None
    BY <2>1 DEF None
  <2>3. ce # None /\ ce.named \in BOOLEAN
    BY <2>1, <2>2
  <2>4. /\ ce.id = e.id /\ ce.state = "STARTED" /\ ce.pid = 0
        /\ ce.docker = NoConfig /\ ce.oci = e.config
    BY <2>1
  <2>. QED
    BY <1>3, <2>3, <2>4 DEF ce
<1>. QED
  BY <1>2, <1>3

\* The event of a start is held back, or completes the one that is.
Started(e, pid, config, ociConfig) ==
  /\ createdMap' = createdMap
  /\ \E m \in ApiEvents :
       /\ m.id = e.id /\ m.type = "RUNNING" /\ m.details = NoDetails
       /\ IF startedMap[e.id] = None
          THEN /\ m.pid = pid /\ m.docker = config /\ m.oci = ociConfig
               /\ startedMap' = [startedMap EXCEPT ![e.id] = m]
               /\ events' = events
          ELSE LET held == startedMap[e.id]
               IN  /\ m.pid = IF pid # 0 THEN pid ELSE held.pid
                   /\ m.docker = IF config # NoConfig THEN config ELSE held.docker
                   /\ m.oci = IF ociConfig # NoConfig THEN ociConfig ELSE held.oci
                   /\ startedMap' = [startedMap EXCEPT ![e.id] = None]
                   /\ events' = Append(events, m)

LEMMA StartedEffect ==
  ASSUME EventTypeOK, HeldForm, NEW ce, ce.id \in Ids, ce.state = "STARTED", ce.named \in BOOLEAN,
         ce.pid \in Nat, ce.docker \in Nat, ce.oci \in Nat,
         TranslateContainerEvents(ce)
  PROVE  Started(ce, ce.pid, ce.docker, ce.oci)
<1>. DEFINE new == NewContainerEvent("RUNNING", ce, FALSE)
            old == IF startedMap[ce.id] # None THEN startedMap[ce.id] ELSE new
            m == Merged(old, ce)
<1>1. new \in ApiEvents /\ new.details = NoDetails
  BY NewForm
<1>2. new.id = ce.id /\ new.type = "RUNNING" /\ new.pid = 0 /\ new.docker = NoConfig /\ new.oci = NoConfig
  BY DEF NewContainerEvent
<1>. HIDE DEF new
<1>3. old \in ApiEvents /\ old.details = NoDetails /\ old.id = ce.id /\ old.type = "RUNNING"
  BY <1>1, <1>2 DEF EventTypeOK, HeldForm
<1>4. m = Held(startedMap, ce, "RUNNING", FALSE)
  BY DEF Held, new
<1>5. /\ createdMap' = createdMap
      /\ startedMap' = Pair(startedMap, m)
      /\ IF startedMap[ce.id] = None THEN events' = events ELSE events' = Append(events, m)
  BY <1>4 DEF TranslateContainerEvents, Repeat
<1>6. /\ m \in ApiEvents
      /\ m.id = old.id /\ m.type = old.type /\ m.details = old.details
      /\ m.pid = IF ce.pid # 0 THEN ce.pid ELSE old.pid
      /\ m.docker = IF ce.docker # NoConfig THEN ce.docker ELSE old.docker
      /\ m.oci = IF ce.oci # NoConfig THEN ce.oci ELSE old.oci
  BY <1>3, MergedForm
<1>. HIDE DEF m
<1>7. startedMap' = [startedMap EXCEPT ![ce.id] = IF startedMap[ce.id] = None THEN m ELSE None]
  BY <1>3, <1>5, <1>6 DEF Pair
<1>. QED
  BY <1>2, <1>3, <1>5, <1>6, <1>7 DEF Started

\* So does the event of a creation.
Created(e, config) ==
  /\ startedMap' = startedMap
  /\ \E m \in ApiEvents :
       /\ m.id = e.id /\ m.type = "CREATED" /\ m.pid = 0 /\ m.docker = config
       /\ IF createdMap[e.id] = None
          THEN createdMap' = [createdMap EXCEPT ![e.id] = m] /\ events' = events
          ELSE createdMap' = [createdMap EXCEPT ![e.id] = None] /\ events' = Append(events, m)

LEMMA CreatedEffect ==
  ASSUME EventTypeOK, HeldForm, NEW ce, ce.id \in Ids, ce.state = "CREATED", ce.named \in BOOLEAN,
         ce.pid = 0, ce.docker \in Nat \ {0}, ce.oci = NoConfig,
         TranslateContainerEvents(ce)
  PROVE  Created(ce, ce.docker)
<1>. DEFINE new == NewContainerEvent("CREATED", ce, TRUE)
            old == IF createdMap[ce.id] # None THEN createdMap[ce.id] ELSE new
            m == Merged(old, ce)
<1>1. new \in ApiEvents
  BY NewForm
<1>2. new.id = ce.id /\ new.type = "CREATED" /\ new.pid = 0
  BY DEF NewContainerEvent
<1>. HIDE DEF new
<1>3. old \in ApiEvents /\ old.id = ce.id /\ old.type = "CREATED" /\ old.pid = 0
  BY <1>1, <1>2 DEF EventTypeOK, HeldForm
<1>4. m = Held(createdMap, ce, "CREATED", TRUE)
  BY DEF Held, new
<1>5. /\ startedMap' = startedMap
      /\ createdMap' = Pair(createdMap, m)
      /\ IF createdMap[ce.id] = None THEN events' = events ELSE events' = Append(events, m)
  BY <1>4 DEF TranslateContainerEvents, Repeat
<1>. HIDE DEF old
<1>6. ce.pid \in Nat /\ ce.docker \in Nat /\ ce.oci \in Nat
  BY DEF NoConfig
<1>7. /\ m \in ApiEvents
      /\ m.id = old.id /\ m.type = old.type
      /\ m.pid = IF ce.pid # 0 THEN ce.pid ELSE old.pid
      /\ m.docker = IF ce.docker # NoConfig THEN ce.docker ELSE old.docker
  BY <1>3, <1>6, MergedForm
<1>. HIDE DEF m
<1>8. createdMap' = [createdMap EXCEPT ![ce.id] = IF createdMap[ce.id] = None THEN m ELSE None]
  BY <1>3, <1>5, <1>7 DEF Pair
<1>9. m.id = ce.id /\ m.type = "CREATED" /\ m.pid = 0 /\ m.docker = ce.docker
  BY <1>3, <1>7 DEF NoConfig
<1>. QED
  BY <1>5, <1>7, <1>8, <1>9 DEF Created

\* The event of an exit or a removal is sent at once.
Ended(e, type, pid, config) ==
  /\ createdMap' = createdMap /\ startedMap' = startedMap
  /\ \E m \in ApiEvents :
       /\ m.id = e.id /\ m.type = type /\ m.pid = pid /\ m.docker = config
       /\ type = "DESTROYED" => m.details = NoDetails
       /\ events' = Append(events, m)

LEMMA StoppedEffect ==
  ASSUME NEW ce, ce.id \in Ids, ce.state = "STOPPED", ce.named \in BOOLEAN,
         ce.pid \in Nat, ce.docker \in Nat, ce.oci = NoConfig, ce.exitCode \in ExitCodes \cup {0},
         TranslateContainerEvents(ce)
  PROVE  Ended(ce, "EXITED", ce.pid, ce.docker)
<1>. DEFINE new == NewContainerEvent("EXITED", ce, TRUE)
            m == Merged(new, ce)
            n == [m EXCEPT !.exitCode = ce.exitCode]
<1>1. new \in ApiEvents
  BY NewForm
<1>2. new.id = ce.id /\ new.type = "EXITED" /\ new.pid = 0 /\ new.docker = NoConfig
  BY DEF NewContainerEvent
<1>3. createdMap' = createdMap /\ startedMap' = startedMap /\ events' = Append(events, n)
  BY DEF TranslateContainerEvents, Repeat
<1>. HIDE DEF new
<1>4. ce.oci \in Nat
  BY DEF NoConfig
<1>5. /\ m \in ApiEvents
      /\ m.id = new.id /\ m.type = new.type
      /\ m.pid = IF ce.pid # 0 THEN ce.pid ELSE new.pid
      /\ m.docker = IF ce.docker # NoConfig THEN ce.docker ELSE new.docker
  BY <1>1, <1>4, MergedForm
<1>. HIDE DEF m
<1>6. /\ n \in ApiEvents /\ n.id = m.id /\ n.type = m.type /\ n.pid = m.pid /\ n.docker = m.docker
  BY <1>5 DEF ApiEvents
<1>. HIDE DEF n
<1>7. n.pid = ce.pid /\ n.docker = ce.docker
  BY <1>2, <1>5, <1>6
<1>. QED
  BY <1>2, <1>3, <1>5, <1>6, <1>7 DEF Ended

LEMMA RemovedEffect ==
  ASSUME NEW ce, ce.id \in Ids, ce.state = "REMOVED", ce.named \in BOOLEAN,
         TranslateContainerEvents(ce)
  PROVE  Ended(ce, "DESTROYED", 0, NoConfig)
<1>. DEFINE new == NewContainerEvent("DESTROYED", ce, FALSE)
<1>1. new \in ApiEvents /\ new.details = NoDetails
  BY NewForm
<1>2. new.id = ce.id /\ new.type = "DESTROYED" /\ new.pid = 0 /\ new.docker = NoConfig
  BY DEF NewContainerEvent
<1>3. createdMap' = createdMap /\ startedMap' = startedMap /\ events' = Append(events, new)
  BY DEF TranslateContainerEvents, Repeat
<1>. QED
  BY <1>1, <1>2, <1>3 DEF Ended

\* An update of Docker's watcher is handled.
LEMMA DockerEffect ==
  ASSUME EventTypeOK, HeldForm, DockerIsBehind, HandleDocker, NEW e, e = Head(docker)
  PROVE  /\ e \in DockerEvents
         /\ e.state = "created" => Created(e, e.config)
         /\ e.state = "running" => Started(e, e.pid, e.config, NoConfig)
         /\ e.state = "exited"  => Ended(e, "EXITED", e.pid, e.config)
         /\ e.state = "dead"    => Ended(e, "DESTROYED", 0, NoConfig)
<1>. DEFINE ce == ProcessEvents(e)
<1>1. e \in DockerEvents /\ e = docker[1] /\ 1 \in DOMAIN docker
  BY TailOf DEF HandleDocker, EventTypeOK
<1>2. /\ e.id \in Ids /\ e.state \in {"created", "running", "exited", "dead"}
      /\ e.pid \in Nat /\ e.config \in Nat \ {0} /\ e.exitCode \in ExitCodes \cup {0}
      /\ e.state = "created" => e.pid = 0
  BY <1>1 DEF DockerEvents, DockerIsBehind, DockerMayTell
<1>3. /\ ce # None
      /\ ce.id = e.id /\ ce.state = States[e.state] /\ ce.pid = e.pid
      /\ ce.named \in BOOLEAN
      /\ ce.docker = IF e.state = "dead" THEN NoConfig ELSE e.config
      /\ ce.oci = NoConfig
      /\ ce.exitCode = IF e.state = "exited" THEN e.exitCode ELSE 0
  BY <1>1, DockerTells
<1>4. TranslateContainerEvents(ce)
  BY <1>3 DEF HandleDocker, Handle
<1>. HIDE DEF ce
<1>5. ce.docker \in Nat /\ ce.oci \in Nat
  BY <1>2, <1>3 DEF NoConfig
<1>6. CASE e.state = "created"
  <2>1. ce.state = "CREATED" /\ ce.docker = e.config
    BY <1>3, <1>6 DEF States
  <2>2. Created(ce, ce.docker)
    BY <1>2, <1>3, <1>4, <1>6, <2>1, CreatedEffect
  <2>. QED
    BY <1>1, <1>3, <1>6, <2>1, <2>2 DEF Created
<1>7. CASE e.state = "running"
  <2>1. ce.state = "STARTED" /\ ce.docker = e.config
    BY <1>3, <1>7 DEF States
  <2>2. Started(ce, ce.pid, ce.docker, ce.oci)
    BY <1>2, <1>3, <1>4, <1>5, <2>1, StartedEffect
  <2>. QED
    BY <1>1, <1>3, <1>7, <2>1, <2>2 DEF Started
<1>8. CASE e.state = "exited"
  <2>1. ce.state = "STOPPED" /\ ce.docker = e.config /\ ce.exitCode = e.exitCode
    BY <1>3, <1>8 DEF States
  <2>2. Ended(ce, "EXITED", ce.pid, ce.docker)
    BY <1>2, <1>3, <1>4, <1>5, <2>1, StoppedEffect
  <2>. QED
    BY <1>1, <1>3, <1>8, <2>1, <2>2 DEF Ended
<1>9. CASE e.state = "dead"
  <2>1. ce.state = "REMOVED"
    BY <1>3, <1>9 DEF States
  <2>2. Ended(ce, "DESTROYED", 0, NoConfig)
    BY <1>2, <1>3, <1>4, <2>1, RemovedEffect
  <2>. QED
    BY <1>1, <1>3, <1>9, <2>2 DEF Ended
<1>. QED
  BY <1>2, <1>6, <1>7, <1>8, <1>9

\* An update of the OCI runtime's watcher is handled.
LEMMA OciEffect ==
  ASSUME EventTypeOK, HeldForm, HandleOci, NEW e, e = Head(oci)
  PROVE  /\ e \in OciEvents
         /\ e.state = "running" => Started(e, 0, NoConfig, e.config)
         /\ e.state # "running" => UNCHANGED mergeVars
<1>. DEFINE ce == ProcessEvents(e)
<1>1. e \in OciEvents
  BY TailOf DEF HandleOci, EventTypeOK
<1>2. e.id \in Ids /\ e.config \in Nat
  BY <1>1 DEF OciEvents
<1>3. CASE e.state = "running"
  <2>1. /\ ce # None
        /\ ce.id = e.id /\ ce.state = "STARTED" /\ ce.pid = 0 /\ ce.named \in BOOLEAN
        /\ ce.docker = NoConfig /\ ce.oci = e.config
    BY <1>1, <1>3, OciTells
  <2>2. TranslateContainerEvents(ce)
    BY <2>1 DEF HandleOci, Handle
  <2>. HIDE DEF ce
  <2>3. ce.pid \in Nat /\ ce.docker \in Nat /\ ce.oci \in Nat
    BY <1>2, <2>1 DEF NoConfig
  <2>4. Started(ce, ce.pid, ce.docker, ce.oci)
    BY <1>2, <2>1, <2>2, <2>3, StartedEffect
  <2>. QED
    BY <1>1, <1>3, <2>1, <2>4 DEF Started
<1>4. CASE e.state # "running"
  <2>1. ce = None
    BY <1>1, <1>4, OciTells
  <2>. QED
    BY <1>1, <1>4, <2>1 DEF HandleOci, Handle
<1>. QED
  BY <1>3, <1>4

-----------------------------------------------------------------------------
(* The queues. *)

LEMMA EventElements ==
  ASSUME EventTypeOK
  PROVE  /\ DOMAIN events = 1 .. Len(events) /\ Len(events) \in Nat
         /\ \A i \in DOMAIN events : events[i] \in ApiEvents
         /\ \A e \in ApiEvents : e.id \in Ids /\ e.pid \in Nat /\ e.docker \in Nat /\ e.oci \in Nat
<1>1. \A e \in ApiEvents : e.id \in Ids /\ e.pid \in Nat /\ e.docker \in Nat /\ e.oci \in Nat
  BY DEF ApiEvents
<1>2. events \in Seq(ApiEvents)
  BY DEF EventTypeOK
<1>. QED
  BY <1>1, <1>2

LEMMA Elements ==
  ASSUME EventTypeOK
  PROVE  /\ DOMAIN docker = 1 .. Len(docker) /\ Len(docker) \in Nat
         /\ \A i \in DOMAIN docker : docker[i] \in DockerEvents
         /\ \A e \in DockerEvents : e.id \in Ids
         /\ DOMAIN oci = 1 .. Len(oci) /\ Len(oci) \in Nat
         /\ \A i \in DOMAIN oci : oci[i] \in OciEvents
         /\ \A e \in OciEvents : e.id \in Ids
         /\ DOMAIN dockerWrites = 1 .. Len(dockerWrites) /\ Len(dockerWrites) \in Nat
         /\ \A i \in DOMAIN dockerWrites : dockerWrites[i] \in FileEvents
         /\ DOMAIN ociWrites = 1 .. Len(ociWrites) /\ Len(ociWrites) \in Nat
         /\ \A i \in DOMAIN ociWrites : ociWrites[i] \in FileEvents
         /\ \A w \in FileEvents : w.id \in Ids /\ w.config \in Nat
         /\ DOMAIN events = 1 .. Len(events) /\ Len(events) \in Nat
         /\ \A i \in DOMAIN events : events[i] \in ApiEvents
         /\ \A e \in ApiEvents : e.id \in Ids /\ e.pid \in Nat /\ e.docker \in Nat /\ e.oci \in Nat
<1>1. \A e \in DockerEvents : e.id \in Ids
  BY DEF DockerEvents
<1>2. \A e \in OciEvents : e.id \in Ids
  BY DEF OciEvents
<1>3. \A w \in FileEvents : w.id \in Ids /\ w.config \in Nat
  BY DEF FileEvents
<1>. QED
  BY <1>1, <1>2, <1>3, EventElements DEF EventTypeOK

\* Runs, of the watchers' queues.
LEMMA DockerRunsAre ==
  ASSUME EventTypeOK, NEW c, NEW k
  PROVE  k \in Runs(docker, dockerWrites, c) <=> IsRun(docker, dockerWrites, c, k)
BY RunsAre DEF EventTypeOK

LEMMA OciRunsAre ==
  ASSUME EventTypeOK, NEW c, NEW k
  PROVE  k \in Runs(oci, ociWrites, c) <=> IsRun(oci, ociWrites, c, k)
BY RunsAre DEF EventTypeOK

LEMMA RunBounds ==
  ASSUME EventTypeOK, QueueInv, NEW c \in Ids
  PROVE  /\ runtime[c].starts \in Nat /\ LastPrepared(runtime[c]) \in Nat
         /\ \A k \in Runs(docker, dockerWrites, c) : k \in Nat /\ 2 <= k /\ k <= runtime[c].starts + 1
         /\ \A k \in Runs(oci, ociWrites, c) : k \in Nat /\ 2 <= k /\ k <= LastPrepared(runtime[c])
<1>1. runtime[c].starts \in Nat /\ LastPrepared(runtime[c]) \in Nat
  BY DEF EventTypeOK, RuntimeRecords, LastPrepared
<1>2. /\ \A i \in DOMAIN docker : docker[i].id = c => DockerMayTell(docker[i], runtime[c])
      /\ \A i \in DOMAIN dockerWrites : dockerWrites[i].id = c /\ dockerWrites[i].config # NoConfig =>
           dockerWrites[i].config \in 2 .. runtime[c].starts + 1
  BY DEF QueueInv, DockerInv, DockerIsBehind
<1>3. /\ \A i \in DOMAIN oci : oci[i].id = c => OciMayTell(oci[i], runtime[c])
      /\ \A i \in DOMAIN ociWrites : ociWrites[i].id = c /\ ociWrites[i].config # NoConfig =>
           ociWrites[i].config \in 2 .. LastPrepared(runtime[c])
  BY DEF QueueInv, OciInv, OciIsBehind
<1>4. ASSUME NEW k \in Runs(docker, dockerWrites, c)
      PROVE  k \in Nat /\ 2 <= k /\ k <= runtime[c].starts + 1
  <2>1. IsRun(docker, dockerWrites, c, k)
    BY DockerRunsAre
  <2>2. \A i \in DOMAIN docker : docker[i].id = c /\ docker[i].state = "running" =>
          docker[i].config \in 2 .. runtime[c].starts + 1
    BY <1>1, <1>2 DEF DockerMayTell
  <2>3. k \in 2 .. runtime[c].starts + 1
    BY <1>2, <2>1, <2>2 DEF IsRun
  <2>. QED
    BY <1>1, <2>3
<1>5. ASSUME NEW k \in Runs(oci, ociWrites, c)
      PROVE  k \in Nat /\ 2 <= k /\ k <= LastPrepared(runtime[c])
  <2>1. IsRun(oci, ociWrites, c, k)
    BY OciRunsAre
  <2>2. k \in 2 .. LastPrepared(runtime[c])
    BY <1>3, <2>1 DEF IsRun, OciMayTell
  <2>. QED
    BY <1>1, <2>2
<1>. QED
  BY <1>1, <1>4, <1>5

-----------------------------------------------------------------------------
(* The runtimes. *)

\* What a step of a runtime does: it is a step of one container, which a
\* watcher is told of at most once.
StatesOnward(c) ==
  /\ \A d \in Ids \ {c} : runtime'[d] = runtime[d]
  /\ runtime[c].state # "dead" /\ runtime'[c].state # "none"
  /\ runtime'[c].starts \in Nat /\ runtime[c].starts <= runtime'[c].starts
  /\ LastPrepared(runtime'[c]) \in Nat /\ LastPrepared(runtime[c]) <= LastPrepared(runtime'[c])
DockerWrote(c, w) ==
  /\ w.id = c
  /\ w.kind = "delete" => runtime'[c].state = "dead"
  /\ w.config # NoConfig => w.config = runtime[c].starts + 2 /\ runtime'[c].starts = runtime[c].starts + 1
OciWrote(c, w) ==
  /\ w.id = c
  /\ w.config # NoConfig => /\ w.config = runtime[c].starts + 2
                            /\ LastPrepared(runtime[c]) = runtime[c].starts + 1
                            /\ LastPrepared(runtime'[c]) = runtime[c].starts + 2
Written(c) ==
  /\ docker' = docker /\ oci' = oci
  /\ \/ dockerWrites' = dockerWrites
     \/ \E w \in FileEvents : DockerWrote(c, w) /\ dockerWrites' = Append(dockerWrites, w)
  /\ \/ ociWrites' = ociWrites
     \/ \E w \in FileEvents : OciWrote(c, w) /\ ociWrites' = Append(ociWrites, w)
\* Both watchers are told of a start, which is the next one.
StartsInTurn(c) ==
  \/ /\ Coming(docker', dockerWrites', runtime', c) = Coming(docker, dockerWrites, runtime, c)
     /\ Runs(oci', ociWrites', c) = Runs(oci, ociWrites, c)
  \/ /\ Coming(docker', dockerWrites', runtime', c) =
          Coming(docker, dockerWrites, runtime, c) \cup {runtime[c].starts + 2}
     /\ Runs(oci', ociWrites', c) = Runs(oci, ociWrites, c) \cup {runtime[c].starts + 2}
     /\ \A n \in Coming(docker, dockerWrites, runtime, c) \cup Runs(oci, ociWrites, c) : n < runtime[c].starts + 2
RuntimeStep(c) ==
  /\ UNCHANGED mergeVars
  /\ StatesOnward(c)
  /\ Written(c)
  /\ uneven' = uneven \/ uneven' = uneven \cup {c}
  /\ c \notin uneven' => StartsInTurn(c)

LEMMA DockerWritten ==
  ASSUME EventTypeOK, QueueInv, NEW c \in Ids, RuntimeStep(c)
  PROVE  DockerInv' /\ dockerWrites' \in Seq(FileEvents)
<1>1. /\ docker' = docker /\ uneven \subseteq uneven'
      /\ \A d \in Ids \ {c} : runtime'[d] = runtime[d]
      /\ runtime[c].state # "dead" /\ runtime'[c].state # "none"
      /\ runtime[c].starts \in Nat /\ runtime'[c].starts \in Nat /\ runtime[c].starts <= runtime'[c].starts
  BY RunBounds DEF RuntimeStep, StatesOnward, Written
<1>2. /\ \A i \in DOMAIN docker : docker[i].id \in Ids /\ docker[i].config # NoConfig /\ docker[i].pid \in Nat
      /\ \A i \in DOMAIN dockerWrites : dockerWrites[i].id \in Ids /\ dockerWrites[i].config \in Nat
  BY Elements DEF DockerEvents, NoConfig
<1>3. DockerIsBehind /\ DockerInOrder /\ RunsInOrder(docker, dockerWrites, uneven)
  BY DEF QueueInv, DockerInv
<1>4. \A i \in DOMAIN docker : DockerMayTell(docker[i], runtime'[docker[i].id])
  <2>1. ASSUME NEW i \in DOMAIN docker PROVE DockerMayTell(docker[i], runtime'[docker[i].id])
    <3>1. DockerMayTell(docker[i], runtime[docker[i].id])
      BY <1>3 DEF DockerIsBehind
    <3>2. CASE docker[i].id = c
      BY <1>1, <1>2, <3>1, <3>2 DEF DockerMayTell
    <3>. QED
      BY <1>1, <1>2, <3>1, <3>2
  <2>. QED
    BY <2>1
<1>5. ASSUME NEW i \in DOMAIN dockerWrites
      PROVE  /\ dockerWrites[i].kind = "delete" => runtime'[dockerWrites[i].id].state = "dead"
             /\ dockerWrites[i].config # NoConfig =>
                  dockerWrites[i].config \in 2 .. runtime'[dockerWrites[i].id].starts + 1
  <2>1. /\ dockerWrites[i].kind = "delete" => runtime[dockerWrites[i].id].state = "dead"
        /\ dockerWrites[i].config # NoConfig =>
             dockerWrites[i].config \in 2 .. runtime[dockerWrites[i].id].starts + 1
    BY <1>3 DEF DockerIsBehind
  <2>2. CASE dockerWrites[i].id = c
    BY <1>1, <1>2, <2>1, <2>2
  <2>. QED
    BY <1>1, <1>2, <2>1, <2>2
<1>6. CASE dockerWrites' = dockerWrites
  <2>1. DockerIsBehind'
    BY <1>1, <1>4, <1>5, <1>6 DEF DockerIsBehind, DockerMayTell
  <2>2. DockerInOrder'
    BY <1>1, <1>3, <1>6 DEF DockerInOrder
  <2>3. RunsInOrder(docker', dockerWrites', uneven')
    BY <1>1, <1>3, <1>6, InOrderKept
  <2>. QED
    BY <1>6, <2>1, <2>2, <2>3 DEF DockerInv, EventTypeOK
<1>7. ASSUME NEW w \in FileEvents, DockerWrote(c, w), dockerWrites' = Append(dockerWrites, w)
      PROVE  DockerInv' /\ dockerWrites' \in Seq(FileEvents)
  <2>1. /\ dockerWrites' \in Seq(FileEvents)
        /\ DOMAIN dockerWrites' = 1 .. Len(dockerWrites) + 1
        /\ DOMAIN dockerWrites = 1 .. Len(dockerWrites) /\ Len(dockerWrites) \in Nat
        /\ \A i \in DOMAIN dockerWrites : dockerWrites'[i] = dockerWrites[i]
        /\ dockerWrites'[Len(dockerWrites) + 1] = w
    BY <1>7, AppendOne DEF EventTypeOK
  <2>2. /\ \A i \in DOMAIN dockerWrites' :
             \/ i \in DOMAIN dockerWrites /\ dockerWrites'[i] = dockerWrites[i]
             \/ i = Len(dockerWrites) + 1 /\ dockerWrites'[i] = w
        /\ \A i, j \in DOMAIN dockerWrites' : i < j => i \in DOMAIN dockerWrites
    BY <2>1
  <2>3. /\ w.kind = "delete" => runtime'[w.id].state = "dead"
        /\ w.config # NoConfig => w.config \in 2 .. runtime'[w.id].starts + 1
    BY <1>1, <1>7 DEF DockerWrote
  <2>4. DockerIsBehind'
    BY <1>1, <1>4, <1>5, <2>2, <2>3 DEF DockerIsBehind, DockerMayTell
  <2>5. /\ \A i \in DOMAIN docker : docker[i].id = c => docker[i].state # "dead"
        /\ \A i \in DOMAIN dockerWrites : dockerWrites[i].id = c => dockerWrites[i].kind # "delete"
    BY <1>1, <1>3 DEF DockerIsBehind, DockerMayTell
  <2>6. DockerInOrder'
    <3>1. ASSUME NEW i \in DOMAIN docker, NEW j \in DOMAIN dockerWrites', docker[i].id = dockerWrites'[j].id
          PROVE  docker[i].state # "dead"
      BY <1>3, <1>7, <2>2, <2>5, <3>1 DEF DockerInOrder, DockerWrote
    <3>2. ASSUME NEW i \in DOMAIN dockerWrites', NEW j \in DOMAIN dockerWrites', i < j,
                 dockerWrites'[i].id = dockerWrites'[j].id
          PROVE  dockerWrites'[i].kind # "delete"
      <4>1. i \in DOMAIN dockerWrites /\ dockerWrites'[i] = dockerWrites[i]
        BY <2>1, <2>2, <3>2
      <4>2. CASE j \in DOMAIN dockerWrites /\ dockerWrites'[j] = dockerWrites[j]
        BY <1>3, <3>2, <4>1, <4>2 DEF DockerInOrder
      <4>3. CASE dockerWrites'[j] = w
        BY <1>7, <2>5, <3>2, <4>1, <4>3 DEF DockerWrote
      <4>. QED
        BY <2>2, <4>2, <4>3
    <3>. QED
      BY <1>1, <1>3, <3>1, <3>2 DEF DockerInOrder
  <2>7. w.config # NoConfig => \A k \in Runs(docker, dockerWrites, w.id) : k < w.config
    <3>1. \A k \in Runs(docker, dockerWrites, c) : k \in Nat /\ k <= runtime[c].starts + 1
      BY RunBounds
    <3>. QED
      BY <1>1, <1>7, <3>1 DEF DockerWrote
  <2>8. RunsInOrder(docker', dockerWrites', uneven')
    <3>1. docker \in Seq(DockerEvents) /\ dockerWrites \in Seq(FileEvents)
      BY DEF EventTypeOK
    <3>2. RunsInOrder(docker, Append(dockerWrites, w), uneven')
      BY <1>1, <1>2, <1>3, <2>7, <3>1, InOrderWrite
    <3>. QED
      BY <1>1, <1>7, <3>2
  <2>. QED
    BY <2>1, <2>4, <2>6, <2>8 DEF DockerInv
<1>. QED
  BY <1>6, <1>7 DEF RuntimeStep, Written

LEMMA OciWritten ==
  ASSUME EventTypeOK, QueueInv, NEW c \in Ids, RuntimeStep(c)
  PROVE  OciInv' /\ ociWrites' \in Seq(FileEvents)
<1>1. /\ oci' = oci /\ uneven \subseteq uneven'
      /\ \A d \in Ids \ {c} : runtime'[d] = runtime[d]
      /\ runtime[c].starts \in Nat
      /\ LastPrepared(runtime[c]) \in Nat /\ LastPrepared(runtime'[c]) \in Nat
      /\ LastPrepared(runtime[c]) <= LastPrepared(runtime'[c])
  BY RunBounds DEF RuntimeStep, StatesOnward, Written
<1>2. /\ \A i \in DOMAIN oci : oci[i].id \in Ids /\ oci[i].config \in Nat
      /\ \A i \in DOMAIN ociWrites : ociWrites[i].id \in Ids /\ ociWrites[i].config \in Nat
  BY Elements DEF OciEvents
<1>3. OciIsBehind /\ RunsInOrder(oci, ociWrites, uneven)
  BY DEF QueueInv, OciInv
<1>4. \A d \in Ids : \A k \in Nat : k \in 2 .. LastPrepared(runtime[d]) => k \in 2 .. LastPrepared(runtime'[d])
  <2>1. ASSUME NEW d \in Ids, NEW k \in Nat, k \in 2 .. LastPrepared(runtime[d])
        PROVE  k \in 2 .. LastPrepared(runtime'[d])
    <3>1. CASE d = c
      BY <1>1, <2>1, <3>1
    <3>2. CASE d # c
      BY <1>1, <2>1, <3>2
    <3>. QED
      BY <3>1, <3>2
  <2>. QED
    BY <2>1
<1>5. \A i \in DOMAIN oci : OciMayTell(oci[i], runtime'[oci[i].id])
  BY <1>2, <1>3, <1>4 DEF OciIsBehind, OciMayTell
<1>6. \A i \in DOMAIN ociWrites : ociWrites[i].config # NoConfig =>
        ociWrites[i].config \in 2 .. LastPrepared(runtime'[ociWrites[i].id])
  BY <1>2, <1>3, <1>4 DEF OciIsBehind
<1>7. CASE ociWrites' = ociWrites
  <2>1. OciIsBehind'
    BY <1>1, <1>5, <1>6, <1>7 DEF OciIsBehind, OciMayTell, LastPrepared
  <2>2. RunsInOrder(oci', ociWrites', uneven')
    BY <1>1, <1>3, <1>7, InOrderKept
  <2>. QED
    BY <1>7, <2>1, <2>2 DEF OciInv, EventTypeOK
<1>8. ASSUME NEW w \in FileEvents, OciWrote(c, w), ociWrites' = Append(ociWrites, w)
      PROVE  OciInv' /\ ociWrites' \in Seq(FileEvents)
  <2>1. /\ ociWrites' \in Seq(FileEvents)
        /\ DOMAIN ociWrites' = 1 .. Len(ociWrites) + 1
        /\ DOMAIN ociWrites = 1 .. Len(ociWrites) /\ Len(ociWrites) \in Nat
        /\ \A i \in DOMAIN ociWrites : ociWrites'[i] = ociWrites[i]
        /\ ociWrites'[Len(ociWrites) + 1] = w
    BY <1>8, AppendOne DEF EventTypeOK
  <2>2. \A i \in DOMAIN ociWrites' :
             \/ i \in DOMAIN ociWrites /\ ociWrites'[i] = ociWrites[i]
             \/ i = Len(ociWrites) + 1 /\ ociWrites'[i] = w
    BY <2>1
  <2>3. w.config # NoConfig => w.config \in 2 .. LastPrepared(runtime'[w.id])
    BY <1>1, <1>8 DEF OciWrote
  <2>4. OciIsBehind'
    BY <1>1, <1>5, <1>6, <2>2, <2>3 DEF OciIsBehind, OciMayTell, LastPrepared
  <2>5. w.config # NoConfig => \A k \in Runs(oci, ociWrites, w.id) : k < w.config
    <3>1. \A k \in Runs(oci, ociWrites, c) : k \in Nat /\ k <= LastPrepared(runtime[c])
      BY RunBounds
    <3>. QED
      BY <1>1, <1>8, <3>1 DEF OciWrote
  <2>6. \A i \in DOMAIN oci : oci[i].state = "running" => oci[i].config # NoConfig
    BY <1>3 DEF OciIsBehind, OciMayTell, NoConfig
  <2>7. RunsInOrder(oci', ociWrites', uneven')
    <3>1. oci \in Seq(OciEvents) /\ ociWrites \in Seq(FileEvents)
      BY DEF EventTypeOK
    <3>2. RunsInOrder(oci, Append(ociWrites, w), uneven')
      BY <1>1, <1>3, <2>5, <2>6, <3>1, InOrderWrite
    <3>. QED
      BY <1>1, <1>8, <3>2
  <2>. QED
    BY <2>1, <2>4, <2>7 DEF OciInv
<1>. QED
  BY <1>7, <1>8 DEF RuntimeStep, Written


LEMMA RuntimeLife ==
  ASSUME EventTypeOK, LifeInv, NEW c \in Ids, RuntimeStep(c)
  PROVE  LifeInv'
<1>1. /\ createdMap' = createdMap /\ startedMap' = startedMap /\ events' = events /\ docker' = docker
      /\ uneven \subseteq uneven'
      /\ \A i \in DOMAIN events : events[i].id \in Ids /\ events[i].pid \in Nat
      /\ \A d \in Ids : startedMap[d] # None => startedMap[d].pid \in Nat
      /\ \A d \in Ids : runtime[d].starts \in Nat /\ runtime'[d].starts \in Nat
                           /\ runtime[d].starts <= runtime'[d].starts
  <2>1. /\ createdMap' = createdMap /\ startedMap' = startedMap /\ events' = events /\ docker' = docker
        /\ uneven \subseteq uneven'
    BY DEF RuntimeStep, Written, mergeVars
  <2>2. \A i \in DOMAIN events : events[i].id \in Ids /\ events[i].pid \in Nat
    BY Elements
  <2>3. \A d \in Ids : startedMap[d] # None => startedMap[d].pid \in Nat
    BY Elements DEF EventTypeOK
  <2>4. \A d \in Ids : runtime[d].starts \in Nat
    BY DEF EventTypeOK, RuntimeRecords
  <2>5. \A d \in Ids : runtime'[d].starts \in Nat /\ runtime[d].starts <= runtime'[d].starts
    <3>. TAKE d \in Ids
    <3>1. CASE d = c
      BY <3>1 DEF RuntimeStep, StatesOnward
    <3>2. CASE d # c
      BY <2>4, <3>2 DEF RuntimeStep, StatesOnward
    <3>. QED
      BY <3>1, <3>2
  <2>. QED
    BY <2>1, <2>2, <2>3, <2>4, <2>5
<1>2. ASSUME NEW d \in Ids \ {c}
      PROVE  /\ Coming(docker', dockerWrites', runtime', d) = Coming(docker, dockerWrites, runtime, d)
             /\ Runs(oci', ociWrites', d) = Runs(oci, ociWrites, d)
  <2>0. /\ docker \in Seq(DockerEvents) /\ oci \in Seq(OciEvents)
        /\ dockerWrites \in Seq(FileEvents) /\ ociWrites \in Seq(FileEvents)
    BY DEF EventTypeOK
  <2>1. Runs(docker', dockerWrites', d) = Runs(docker, dockerWrites, d)
    <3>1. ASSUME NEW w \in FileEvents, w.id = c
          PROVE  Runs(docker, Append(dockerWrites, w), d) = Runs(docker, dockerWrites, d)
      <4>1. Runs(docker, Append(dockerWrites, w), d) =
              Runs(docker, dockerWrites, d) \cup IF w.id = d /\ w.config # NoConfig THEN {w.config} ELSE {}
        BY <2>0, RunsWrite
      <4>. QED
        BY <3>1, <4>1
    <3>. QED
      BY <3>1 DEF RuntimeStep, Written, DockerWrote
  <2>2. Runs(oci', ociWrites', d) = Runs(oci, ociWrites, d)
    <3>1. ASSUME NEW w \in FileEvents, w.id = c
          PROVE  Runs(oci, Append(ociWrites, w), d) = Runs(oci, ociWrites, d)
      <4>1. Runs(oci, Append(ociWrites, w), d) =
              Runs(oci, ociWrites, d) \cup IF w.id = d /\ w.config # NoConfig THEN {w.config} ELSE {}
        BY <2>0, RunsWrite
      <4>. QED
        BY <3>1, <4>1
    <3>. QED
      BY <3>1 DEF RuntimeStep, Written, OciWrote
  <2>. QED
    BY <2>1, <2>2 DEF RuntimeStep, StatesOnward, Coming
<1>3. \A i \in DOMAIN dockerWrites' :
        (i \in DOMAIN dockerWrites /\ dockerWrites'[i] = dockerWrites[i]) \/ dockerWrites'[i].id = c
  <2>1. ASSUME NEW w \in FileEvents, w.id = c, dockerWrites' = Append(dockerWrites, w)
        PROVE  \A i \in DOMAIN dockerWrites' :
                 (i \in DOMAIN dockerWrites /\ dockerWrites'[i] = dockerWrites[i]) \/ dockerWrites'[i].id = c
    <3>1. /\ DOMAIN dockerWrites' = 1 .. Len(dockerWrites) + 1
          /\ DOMAIN dockerWrites = 1 .. Len(dockerWrites) /\ Len(dockerWrites) \in Nat
          /\ \A i \in DOMAIN dockerWrites : dockerWrites'[i] = dockerWrites[i]
          /\ dockerWrites'[Len(dockerWrites) + 1] = w
      BY <2>1, AppendOne DEF EventTypeOK
    <3>. QED
      BY <2>1, <3>1
  <2>. QED
    BY <2>1 DEF RuntimeStep, Written, DockerWrote
<1>4. HeldForm'
  BY <1>1 DEF LifeInv, HeldForm
<1>5. EventForm'
  <2>1. \A i \in DOMAIN events :
          /\ events[i].type \in {"RUNNING", "DESTROYED"} => events[i].details = NoDetails
          /\ events[i].pid <= runtime'[events[i].id].starts
          /\ events[i].type = "EXITED" => runtime'[events[i].id].starts # 0
          /\ events[i].type = "RUNNING" /\ events[i].id \notin uneven' => events[i].pid # 0
    BY <1>1 DEF LifeInv, EventForm
  <2>. QED
    BY <1>1, <2>1 DEF EventForm
<1>6. InTurn'
  <2>. SUFFICES ASSUME NEW d \in Ids, d \notin uneven'
                PROVE  InStep(startedMap[d], Coming(docker', dockerWrites', runtime', d), Runs(oci', ociWrites', d))
    BY <1>1 DEF InTurn
  <2>1. InStep(startedMap[d], Coming(docker, dockerWrites, runtime, d), Runs(oci, ociWrites, d))
    BY <1>1 DEF LifeInv, InTurn
  <2>2. CASE /\ Coming(docker', dockerWrites', runtime', d) = Coming(docker, dockerWrites, runtime, d)
             /\ Runs(oci', ociWrites', d) = Runs(oci, ociWrites, d)
    BY <2>1, <2>2
  <2>3. CASE /\ Coming(docker', dockerWrites', runtime', d) =
                  Coming(docker, dockerWrites, runtime, d) \cup {runtime[c].starts + 2}
             /\ Runs(oci', ociWrites', d) = Runs(oci, ociWrites, d) \cup {runtime[c].starts + 2}
             /\ \A n \in Coming(docker, dockerWrites, runtime, d) \cup Runs(oci, ociWrites, d) :
                  n < runtime[c].starts + 2
    BY <2>1, <2>3 DEF InStep
  <2>. QED
    BY <1>2, <2>2, <2>3 DEF RuntimeStep, StartsInTurn
<1>7. SentIsPast'
  <2>. SUFFICES ASSUME NEW i \in DOMAIN events, NEW d, d = events[i].id,
                       events[i].type = "RUNNING", d \notin uneven',
                       NEW k \in Coming(docker', dockerWrites', runtime', d) \cup Runs(oci', ociWrites', d)
                PROVE  events[i].pid + 1 < k
    BY <1>1 DEF SentIsPast
  <2>1. k \in Coming(docker, dockerWrites, runtime, d) \cup Runs(oci, ociWrites, d) => events[i].pid + 1 < k
    BY <1>1 DEF LifeInv, SentIsPast
  <2>2. CASE d # c
    BY <1>1, <1>2, <2>1, <2>2
  <2>3. CASE d = c
    <3>1. k \in Coming(docker, dockerWrites, runtime, c) \cup Runs(oci, ociWrites, c) \/ k = runtime[c].starts + 2
      BY <2>3 DEF RuntimeStep, StartsInTurn
    <3>2. events[i].pid <= runtime[c].starts
      BY <2>3 DEF LifeInv, EventForm
    <3>. QED
      BY <1>1, <2>1, <2>3, <3>1, <3>2
  <2>. QED
    BY <2>2, <2>3
<1>8. CreatedBefore'
  BY <1>1 DEF LifeInv, CreatedBefore
<1>9. DestroyedAfter'
  <2>. SUFFICES ASSUME NEW j \in DOMAIN events, events[j].type = "DESTROYED"
                PROVE  /\ runtime'[events[j].id].state = "dead"
                       /\ \A i \in DOMAIN docker : docker[i].id # events[j].id
                       /\ \A i \in DOMAIN dockerWrites' : dockerWrites'[i].id # events[j].id
    BY <1>1 DEF DestroyedAfter
  <2>1. /\ runtime[events[j].id].state = "dead"
        /\ \A i \in DOMAIN docker : docker[i].id # events[j].id
        /\ \A i \in DOMAIN dockerWrites : dockerWrites[i].id # events[j].id
    BY DEF LifeInv, DestroyedAfter
  <2>2. events[j].id # c
    BY <2>1 DEF RuntimeStep, StatesOnward
  <2>. QED
    BY <1>1, <1>3, <2>1, <2>2 DEF RuntimeStep, StatesOnward
<1>10. LifecycleInOrder'
  BY <1>1 DEF LifeInv, LifecycleInOrder
<1>. QED
  BY <1>4, <1>5, <1>6, <1>7, <1>8, <1>9, <1>10 DEF LifeInv

\* So it is enough that each change is such a step.
LEMMA RuntimeStepKeeps ==
  ASSUME EventTypeOK, QueueInv, LifeInv, NEW c \in Ids, RuntimeStep(c),
         runtime' \in [Ids -> RuntimeRecords],
         /\ runtime'[c].state \in {"none", "created"} => runtime'[c].starts = 0
         /\ runtime'[c].state \in {"running", "exited"} => runtime'[c].starts # 0
  PROVE  EventTypeOK' /\ QueueInv' /\ LifeInv'
<1>1. DockerInv' /\ OciInv' /\ dockerWrites' \in Seq(FileEvents) /\ ociWrites' \in Seq(FileEvents)
  BY DockerWritten, OciWritten
<1>2. \A d \in Ids : /\ runtime'[d].state \in {"none", "created"} => runtime'[d].starts = 0
                     /\ runtime'[d].state \in {"running", "exited"} => runtime'[d].starts # 0
  <2>. TAKE d \in Ids
  <2>1. CASE d # c
    BY <2>1 DEF EventTypeOK, RuntimeStep, StatesOnward
  <2>. QED
    BY <2>1
<1>3. EventTypeOK'
  <2>1. /\ docker' = docker /\ oci' = oci /\ createdMap' = createdMap /\ startedMap' = startedMap /\ events' = events
        /\ uneven' \subseteq uneven \cup {c}
    BY DEF RuntimeStep, Written, mergeVars
  <2>. QED
    BY <1>1, <1>2, <2>1 DEF EventTypeOK
<1>. QED
  BY <1>1, <1>3, RuntimeLife DEF QueueInv

LEMMA ChangeIs ==
  ASSUME EventTypeOK, NEW c \in Ids, NEW from, NEW to \in RuntimeStates, Change(c, from, to)
  PROVE  /\ runtime' \in [Ids -> RuntimeRecords]
         /\ runtime[c].state \in from
         /\ runtime'[c].state = to /\ runtime'[c].starts = runtime[c].starts
         /\ \A d \in Ids \ {c} : runtime'[d] = runtime[d]
         /\ runtime[c].starts \in Nat
BY DEF EventTypeOK, RuntimeRecords, Change

\* What a write leaves as it is.
LEMMA WritesAre ==
  ASSUME EventTypeOK, NEW dn, NEW on, Writes(dn, on)
  PROVE  /\ docker' = docker /\ oci' = oci /\ UNCHANGED mergeVars /\ UNCHANGED subVars
         /\ dockerWrites' \in dn /\ ociWrites' \in on
BY DEF Writes

LEMMA NotedIs ==
  ASSUME NEW c \in Ids, NEW kind \in {"update", "delete"}, NEW config \in Nat
  PROVE  \E w \in FileEvents : /\ w.id = c /\ w.kind = kind /\ w.config = config
                                /\ \A writes : Noted(writes, c, kind, config) = {writes, Append(writes, w)}
<1>. DEFINE w == [id |-> c, kind |-> kind, config |-> config]
<1>1. w \in FileEvents /\ w.id = c /\ w.kind = kind /\ w.config = config
  BY DEF FileEvents
<1>2. \A writes : Noted(writes, c, kind, config) = {writes, Append(writes, w)}
  BY DEF Noted
<1>. QED
  BY <1>1, <1>2

LEMMA UpdateIs ==
  ASSUME NEW c \in Ids, NEW kind \in {"update", "delete"}
  PROVE  \E w \in FileEvents : /\ w.id = c /\ w.kind = kind /\ w.config = NoConfig
                                /\ \A writes : Noted(writes, c, kind, NoConfig) = {writes, Append(writes, w)}
BY NotedIs DEF NoConfig

\* A change that is not of a start.
LEMMA NoStart ==
  ASSUME EventTypeOK, QueueInv, LifeInv, NEW c \in Ids,
         UNCHANGED mergeVars, Written(c), StatesOnward(c), uneven' = uneven,
         runtime' \in [Ids -> RuntimeRecords],
         /\ runtime'[c].state \in {"none", "created"} => runtime'[c].starts = 0
         /\ runtime'[c].state \in {"running", "exited"} => runtime'[c].starts # 0,
         runtime[c].state # "prepared", runtime'[c].state # "prepared", runtime'[c].starts = runtime[c].starts
  PROVE  EventTypeOK' /\ QueueInv' /\ LifeInv'
<1>1. /\ docker \in Seq(DockerEvents) /\ oci \in Seq(OciEvents)
      /\ dockerWrites \in Seq(FileEvents) /\ ociWrites \in Seq(FileEvents)
      /\ runtime[c].starts \in Nat
  BY DEF EventTypeOK, RuntimeRecords
<1>2. Runs(docker', dockerWrites', c) = Runs(docker, dockerWrites, c)
  <2>1. ASSUME NEW w \in FileEvents, DockerWrote(c, w)
        PROVE  Runs(docker, Append(dockerWrites, w), c) = Runs(docker, dockerWrites, c)
    <3>1. w.config = NoConfig
      BY <1>1, <2>1 DEF DockerWrote
    <3>2. Runs(docker, Append(dockerWrites, w), c) =
            Runs(docker, dockerWrites, c) \cup IF w.id = c /\ w.config # NoConfig THEN {w.config} ELSE {}
      BY <1>1, RunsWrite
    <3>. QED
      BY <3>1, <3>2
  <2>. QED
    BY <2>1 DEF Written
<1>3. Runs(oci', ociWrites', c) = Runs(oci, ociWrites, c)
  <2>1. ASSUME NEW w \in FileEvents, OciWrote(c, w)
        PROVE  Runs(oci, Append(ociWrites, w), c) = Runs(oci, ociWrites, c)
    <3>1. w.config = NoConfig
      BY <1>1, <2>1 DEF OciWrote, LastPrepared
    <3>2. Runs(oci, Append(ociWrites, w), c) =
            Runs(oci, ociWrites, c) \cup IF w.id = c /\ w.config # NoConfig THEN {w.config} ELSE {}
      BY <1>1, RunsWrite
    <3>. QED
      BY <3>1, <3>2
  <2>. QED
    BY <2>1 DEF Written
<1>4. StartsInTurn(c)
  BY <1>2, <1>3 DEF StartsInTurn, Coming
<1>. QED
  BY <1>4, RuntimeStepKeeps DEF RuntimeStep

LEMMA CreateStep ==
  ASSUME EventTypeOK, QueueInv, LifeInv, NEW c \in Ids, Create(c)
  PROVE  EventTypeOK' /\ QueueInv' /\ LifeInv'
<1>1. /\ runtime' \in [Ids -> RuntimeRecords]
      /\ runtime[c].state \in {"none"}
      /\ runtime'[c].state = "created" /\ runtime'[c].starts = runtime[c].starts
      /\ \A d \in Ids \ {c} : runtime'[d] = runtime[d]
      /\ runtime[c].starts \in Nat
  BY ChangeIs DEF Create, RuntimeStates
<1>2. StatesOnward(c)
  BY <1>1 DEF StatesOnward, LastPrepared
<1>3. /\ docker' = docker /\ oci' = oci /\ UNCHANGED mergeVars
      /\ dockerWrites' \in Noted(dockerWrites, c, "update", NoConfig) /\ ociWrites' \in {ociWrites}
  BY WritesAre DEF Create
<1>4. Written(c)
  <2>1. PICK w \in FileEvents : /\ w.id = c /\ w.kind = "update" /\ w.config = NoConfig
                                /\ \A writes : Noted(writes, c, "update", NoConfig) = {writes, Append(writes, w)}
    BY UpdateIs
  <2>2. DockerWrote(c, w)
    BY <2>1 DEF DockerWrote
  <2>. QED
    BY <1>3, <2>1, <2>2 DEF Written
<1>5. runtime'[c].starts = 0 /\ uneven' = uneven
  BY <1>1 DEF EventTypeOK, Create
<1>. QED
  BY <1>1, <1>2, <1>3, <1>4, <1>5, NoStart

LEMMA UpdateStep ==
  ASSUME EventTypeOK, QueueInv, LifeInv, NEW c \in Ids, Update(c)
  PROVE  EventTypeOK' /\ QueueInv' /\ LifeInv'
<1>1. /\ runtime' \in [Ids -> RuntimeRecords]
      /\ runtime[c].state \in {"created", "running"}
      /\ runtime'[c].state = runtime[c].state /\ runtime'[c].starts = runtime[c].starts
      /\ \A d \in Ids \ {c} : runtime'[d] = runtime[d]
      /\ runtime[c].starts \in Nat
      /\ uneven' = uneven
  <2>1. runtime \in [Ids -> RuntimeRecords] /\ runtime' = [runtime EXCEPT ![c].updates = @ + 1]
    BY DEF Update, EventTypeOK
  <2>2. runtime' \in [Ids -> RuntimeRecords]
    BY <2>1 DEF RuntimeRecords
  <2>3. /\ runtime'[c].state = runtime[c].state /\ runtime'[c].starts = runtime[c].starts
        /\ \A d \in Ids \ {c} : runtime'[d] = runtime[d]
        /\ runtime[c].starts \in Nat
    BY <2>1 DEF RuntimeRecords
  <2>. QED
    BY <2>2, <2>3 DEF Update
<1>2. StatesOnward(c)
  BY <1>1 DEF StatesOnward, LastPrepared
<1>3. /\ docker' = docker /\ oci' = oci /\ UNCHANGED mergeVars
      /\ dockerWrites' \in Noted(dockerWrites, c, "update", NoConfig) /\ ociWrites' \in {ociWrites}
  BY WritesAre DEF Update
<1>4. Written(c)
  <2>1. PICK w \in FileEvents : /\ w.id = c /\ w.kind = "update" /\ w.config = NoConfig
                                /\ \A writes : Noted(writes, c, "update", NoConfig) = {writes, Append(writes, w)}
    BY UpdateIs
  <2>2. DockerWrote(c, w)
    BY <2>1 DEF DockerWrote
  <2>. QED
    BY <1>3, <2>1, <2>2 DEF Written
<1>5. /\ runtime'[c].state \in {"none", "created"} => runtime'[c].starts = 0
      /\ runtime'[c].state \in {"running", "exited"} => runtime'[c].starts # 0
  BY <1>1 DEF EventTypeOK
<1>. QED
  BY <1>1, <1>2, <1>3, <1>4, <1>5, NoStart

LEMMA ExitStep ==
  ASSUME EventTypeOK, QueueInv, LifeInv, NEW c \in Ids, NEW code \in ExitCodes, Exit(c, code)
  PROVE  EventTypeOK' /\ QueueInv' /\ LifeInv'
<1>1. /\ runtime' \in [Ids -> RuntimeRecords]
      /\ runtime[c].state = "running"
      /\ runtime'[c].state = "exited" /\ runtime'[c].starts = runtime[c].starts
      /\ \A d \in Ids \ {c} : runtime'[d] = runtime[d]
      /\ runtime[c].starts \in Nat /\ runtime[c].starts # 0
      /\ uneven' = uneven
  <2>1. runtime \in [Ids -> RuntimeRecords] /\ runtime' = [runtime EXCEPT ![c].state = "exited", ![c].code = code]
    BY DEF Exit, EventTypeOK
  <2>2. "exited" \in RuntimeStates
    BY DEF RuntimeStates
  <2>3. runtime' \in [Ids -> RuntimeRecords]
    BY <2>1, <2>2 DEF RuntimeRecords
  <2>4. /\ runtime'[c].state = "exited" /\ runtime'[c].starts = runtime[c].starts
        /\ \A d \in Ids \ {c} : runtime'[d] = runtime[d]
        /\ runtime[c].starts \in Nat
    BY <2>1 DEF RuntimeRecords
  <2>. QED
    BY <2>3, <2>4 DEF Exit, EventTypeOK
<1>2. StatesOnward(c)
  BY <1>1 DEF StatesOnward, LastPrepared
<1>3. /\ docker' = docker /\ oci' = oci /\ UNCHANGED mergeVars
      /\ dockerWrites' \in Noted(dockerWrites, c, "update", NoConfig)
      /\ ociWrites' \in Noted(ociWrites, c, "delete", NoConfig)
  BY WritesAre DEF Exit
<1>4. Written(c)
  <2>1. PICK w \in FileEvents : /\ w.id = c /\ w.kind = "update" /\ w.config = NoConfig
                                /\ \A writes : Noted(writes, c, "update", NoConfig) = {writes, Append(writes, w)}
    BY UpdateIs
  <2>2. PICK o \in FileEvents : /\ o.id = c /\ o.kind = "delete" /\ o.config = NoConfig
                                /\ \A writes : Noted(writes, c, "delete", NoConfig) = {writes, Append(writes, o)}
    BY UpdateIs
  <2>3. DockerWrote(c, w) /\ OciWrote(c, o)
    BY <2>1, <2>2 DEF DockerWrote, OciWrote
  <2>. QED
    BY <1>3, <2>1, <2>2, <2>3 DEF Written
<1>. QED
  BY <1>1, <1>2, <1>3, <1>4, NoStart

LEMMA DestroyStep ==
  ASSUME EventTypeOK, QueueInv, LifeInv, NEW c \in Ids, Destroy(c)
  PROVE  EventTypeOK' /\ QueueInv' /\ LifeInv'
<1>1. /\ runtime' \in [Ids -> RuntimeRecords]
      /\ runtime[c].state \in {"created", "exited"}
      /\ runtime'[c].state = "dead" /\ runtime'[c].starts = runtime[c].starts
      /\ \A d \in Ids \ {c} : runtime'[d] = runtime[d]
      /\ runtime[c].starts \in Nat
  BY ChangeIs DEF Destroy, RuntimeStates
<1>2. StatesOnward(c)
  BY <1>1 DEF StatesOnward, LastPrepared
<1>3. /\ docker' = docker /\ oci' = oci /\ UNCHANGED mergeVars
      /\ dockerWrites' \in Noted(dockerWrites, c, "delete", NoConfig) /\ ociWrites' \in {ociWrites}
  BY WritesAre DEF Destroy
<1>4. Written(c)
  <2>1. PICK w \in FileEvents : /\ w.id = c /\ w.kind = "delete" /\ w.config = NoConfig
                                /\ \A writes : Noted(writes, c, "delete", NoConfig) = {writes, Append(writes, w)}
    BY UpdateIs
  <2>2. DockerWrote(c, w)
    BY <1>1, <2>1 DEF DockerWrote
  <2>. QED
    BY <1>3, <2>1, <2>2 DEF Written
<1>5. uneven' = uneven
  BY DEF Destroy
<1>. QED
  BY <1>1, <1>2, <1>3, <1>4, <1>5, NoStart

LEMMA PrepareStep ==
  ASSUME EventTypeOK, QueueInv, LifeInv, NEW c \in Ids, Prepare(c)
  PROVE  EventTypeOK' /\ QueueInv' /\ LifeInv'
<1>1. /\ runtime' \in [Ids -> RuntimeRecords]
      /\ runtime[c].state \in {"created", "exited"}
      /\ runtime'[c].state = "prepared" /\ runtime'[c].starts = runtime[c].starts
      /\ \A d \in Ids \ {c} : runtime'[d] = runtime[d]
      /\ runtime[c].starts \in Nat
  BY ChangeIs DEF Prepare, RuntimeStates
<1>2. StatesOnward(c)
  BY <1>1 DEF StatesOnward, LastPrepared
<1>3. /\ docker' = docker /\ oci' = oci /\ UNCHANGED mergeVars
      /\ dockerWrites' = dockerWrites
      /\ ociWrites' \in Noted(ociWrites, c, "update", runtime[c].starts + 2)
      /\ uneven' = IF ociWrites' = ociWrites THEN uneven \cup {c} ELSE uneven
  BY WritesAre DEF Prepare
<1>4. \/ ociWrites' = ociWrites
      \/ \E w \in FileEvents : /\ w.id = c /\ w.config = runtime[c].starts + 2
                               /\ ociWrites' = Append(ociWrites, w)
  <2>1. runtime[c].starts + 2 \in Nat
    BY <1>1
  <2>2. PICK w \in FileEvents :
          /\ w.id = c /\ w.kind = "update" /\ w.config = runtime[c].starts + 2
          /\ \A writes : Noted(writes, c, "update", runtime[c].starts + 2) = {writes, Append(writes, w)}
    BY <2>1, NotedIs
  <2>. QED
    BY <1>3, <2>2
<1>5. Written(c)
  BY <1>1, <1>3, <1>4 DEF Written, OciWrote, LastPrepared
<1>6. ASSUME ociWrites' # ociWrites PROVE StartsInTurn(c)
  <2>1. PICK w \in FileEvents : /\ w.id = c /\ w.config = runtime[c].starts + 2
                                /\ ociWrites' = Append(ociWrites, w)
    BY <1>4, <1>6
  <2>2. w.config # NoConfig
    BY <1>1, <2>1 DEF NoConfig
  <2>3. Runs(oci', ociWrites', c) = Runs(oci, ociWrites, c) \cup {runtime[c].starts + 2}
    <3>1. oci \in Seq(OciEvents) /\ ociWrites \in Seq(FileEvents)
      BY DEF EventTypeOK
    <3>2. Runs(oci, Append(ociWrites, w), c) =
            Runs(oci, ociWrites, c) \cup IF w.id = c /\ w.config # NoConfig THEN {w.config} ELSE {}
      BY <3>1, RunsWrite
    <3>. QED
      BY <1>3, <2>1, <2>2, <3>2
  <2>4. /\ Coming(docker, dockerWrites, runtime, c) = Runs(docker, dockerWrites, c)
        /\ Coming(docker', dockerWrites', runtime', c) = Runs(docker, dockerWrites, c) \cup {runtime[c].starts + 2}
    BY <1>1, <1>3 DEF Coming
  <2>5. /\ \A k \in Runs(docker, dockerWrites, c) : k \in Nat /\ k <= runtime[c].starts + 1
        /\ \A k \in Runs(oci, ociWrites, c) : k \in Nat /\ k <= runtime[c].starts + 1
    BY <1>1, RunBounds DEF LastPrepared
  <2>. QED
    BY <1>1, <2>3, <2>4, <2>5 DEF StartsInTurn
<1>7. RuntimeStep(c)
  BY <1>2, <1>3, <1>5, <1>6 DEF RuntimeStep
<1>. QED
  BY <1>1, <1>7, RuntimeStepKeeps

LEMMA StartStep ==
  ASSUME EventTypeOK, QueueInv, LifeInv, NEW c \in Ids, Start(c)
  PROVE  EventTypeOK' /\ QueueInv' /\ LifeInv'
<1>1. /\ runtime' \in [Ids -> RuntimeRecords]
      /\ runtime[c].state = "prepared"
      /\ runtime'[c].state = "running" /\ runtime'[c].starts = runtime[c].starts + 1
      /\ \A d \in Ids \ {c} : runtime'[d] = runtime[d]
      /\ runtime[c].starts \in Nat
  <2>1. /\ runtime \in [Ids -> RuntimeRecords]
        /\ runtime' = [runtime EXCEPT ![c].state = "running", ![c].starts = @ + 1]
    BY DEF EventTypeOK, Start
  <2>2. "running" \in RuntimeStates
    BY DEF RuntimeStates
  <2>3. runtime' \in [Ids -> RuntimeRecords]
    BY <2>1, <2>2 DEF RuntimeRecords
  <2>4. /\ runtime'[c].state = "running" /\ runtime'[c].starts = runtime[c].starts + 1
        /\ \A d \in Ids \ {c} : runtime'[d] = runtime[d]
        /\ runtime[c].starts \in Nat
    BY <2>1 DEF RuntimeRecords
  <2>. QED
    BY <2>3, <2>4 DEF Start
<1>2. StatesOnward(c)
  BY <1>1 DEF StatesOnward, LastPrepared
<1>3. /\ docker' = docker /\ oci' = oci /\ UNCHANGED mergeVars
      /\ dockerWrites' \in Noted(dockerWrites, c, "update", runtime[c].starts + 2)
      /\ ociWrites' = ociWrites
      /\ uneven' = IF dockerWrites' = dockerWrites THEN uneven \cup {c} ELSE uneven
  BY WritesAre DEF Start
<1>4. \/ dockerWrites' = dockerWrites
      \/ \E w \in FileEvents : /\ w.id = c /\ w.kind = "update" /\ w.config = runtime[c].starts + 2
                               /\ dockerWrites' = Append(dockerWrites, w)
  <2>1. runtime[c].starts + 2 \in Nat
    BY <1>1
  <2>2. PICK w \in FileEvents :
          /\ w.id = c /\ w.kind = "update" /\ w.config = runtime[c].starts + 2
          /\ \A writes : Noted(writes, c, "update", runtime[c].starts + 2) = {writes, Append(writes, w)}
    BY <2>1, NotedIs
  <2>. QED
    BY <1>3, <2>2
<1>5. Written(c)
  BY <1>1, <1>3, <1>4 DEF Written, DockerWrote
<1>6. ASSUME dockerWrites' # dockerWrites PROVE StartsInTurn(c)
  <2>1. PICK w \in FileEvents : /\ w.id = c /\ w.config = runtime[c].starts + 2
                                /\ dockerWrites' = Append(dockerWrites, w)
    BY <1>4, <1>6
  <2>2. w.config # NoConfig
    BY <1>1, <2>1 DEF NoConfig
  <2>3. Runs(docker', dockerWrites', c) = Runs(docker, dockerWrites, c) \cup {runtime[c].starts + 2}
    <3>1. docker \in Seq(DockerEvents) /\ dockerWrites \in Seq(FileEvents)
      BY DEF EventTypeOK
    <3>2. Runs(docker, Append(dockerWrites, w), c) =
            Runs(docker, dockerWrites, c) \cup IF w.id = c /\ w.config # NoConfig THEN {w.config} ELSE {}
      BY <3>1, RunsWrite
    <3>. QED
      BY <1>3, <2>1, <2>2, <3>2
  <2>. QED
    BY <1>1, <1>3, <2>3 DEF StartsInTurn, Coming
<1>7. RuntimeStep(c)
  BY <1>2, <1>3, <1>5, <1>6 DEF RuntimeStep
<1>8. runtime'[c].starts # 0
  BY <1>1
<1>. QED
  BY <1>1, <1>7, <1>8, RuntimeStepKeeps

LEMMA RuntimesStep ==
  ASSUME EventTypeOK, QueueInv, LifeInv, Runtimes
  PROVE  EventTypeOK' /\ QueueInv' /\ LifeInv'
BY CreateStep, UpdateStep, PrepareStep, StartStep, ExitStep, DestroyStep DEF Runtimes


-----------------------------------------------------------------------------
(* The watchers read the files. *)

\* What Docker's watcher reports is behind the state of the container, as it
\* is its state.
LEMMA DockerReports ==
  ASSUME EventTypeOK, DockerIsBehind, NEW w \in FileEvents, w.kind = "delete" => runtime[w.id].state = "dead",
         NEW e, e = OnDockerEvent(w), e # None
  PROVE  /\ e \in DockerEvents /\ e.id = w.id /\ DockerMayTell(e, runtime[w.id])
         /\ e.state = "dead" => w.kind = "delete"
         /\ e.state = "created" => runtime[w.id].starts = 0
<1>. DEFINE r == runtime[w.id]
            state == IF r.state # "prepared" THEN r.state ELSE IF r.starts = 0 THEN "created" ELSE "exited"
<1>1. /\ w.id \in Ids /\ r.state \in RuntimeStates /\ r.starts \in Nat /\ r.code \in ExitCodes \cup {0}
      /\ r.state \in {"none", "created"} => r.starts = 0
      /\ r.state \in {"running", "exited"} => r.starts # 0
  BY DEF FileEvents, EventTypeOK, RuntimeRecords
<1>2. ASSUME NEW c \in Ids, NEW s \in {"created", "running", "exited", "dead"}, NEW starts \in Nat,
             NEW code \in ExitCodes \cup {0}
      PROVE  LET d == DockerEvent(c, s, starts, code)
             IN  /\ d \in DockerEvents
                 /\ d.id = c /\ d.state = s /\ d.config = starts + 1
                 /\ d.pid = IF s = "running" THEN starts ELSE 0
  BY DEF DockerEvent, DockerEvents
<1>3. CASE w.kind = "delete"
  <2>1. e = DockerEvent(w.id, "dead", 0, 0)
    BY <1>3 DEF OnDockerEvent
  <2>2. e \in DockerEvents /\ e.id = w.id /\ e.state = "dead" /\ e.pid = 0
    BY <1>1, <1>2, <2>1
  <2>. QED
    BY <1>1, <1>3, <2>2 DEF DockerMayTell
<1>4. CASE w.kind # "delete"
  <2>1. /\ state \notin {"none", "dead"}
        /\ e = DockerEvent(w.id, state, r.starts, IF state = "exited" THEN r.code ELSE 0)
    BY <1>4 DEF OnDockerEvent, OnDockerConfigUpdate
  <2>2. /\ state \in {"created", "running", "exited"}
        /\ r.state \notin {"none", "dead"}
        /\ state = "created" => r.starts = 0
        /\ state \in {"running", "exited"} => r.starts # 0
    BY <1>1, <2>1 DEF RuntimeStates
  <2>. HIDE DEF state, r
  <2>3. /\ e \in DockerEvents /\ e.id = w.id /\ e.state = state /\ e.config = r.starts + 1
        /\ e.pid = IF state = "running" THEN r.starts ELSE 0
    BY <1>1, <1>2, <2>1, <2>2
  <2>. QED
    BY <1>1, <2>2, <2>3 DEF DockerMayTell, r
<1>. QED
  BY <1>3, <1>4

LEMMA OciReports ==
  ASSUME EventTypeOK, NEW w \in FileEvents, NEW e, e = OnOciEvent(w), e # None
  PROVE  e \in OciEvents /\ e.id = w.id /\ OciMayTell(e, runtime[w.id])
<1>. DEFINE r == runtime[w.id]
<1>1. w.id \in Ids /\ r.starts \in Nat /\ (r.state = "running" => r.starts # 0)
  BY DEF FileEvents, EventTypeOK, RuntimeRecords
<1>2. ASSUME NEW c \in Ids, NEW s \in {"running", "stopped"}, NEW config \in Nat
      PROVE  LET o == OciEvent(c, s, config)
             IN  o \in OciEvents /\ o.id = c /\ o.state = s /\ o.config = config
  BY DEF OciEvent, OciEvents
<1>3. CASE w.kind = "delete"
  <2>1. e = OciEvent(w.id, "stopped", 0)
    BY <1>3 DEF OnOciEvent, NoConfig
  <2>. QED
    BY <1>1, <1>2, <2>1 DEF OciMayTell
<1>4. CASE w.kind # "delete" /\ r.state = "prepared"
  <2>1. e = OciEvent(w.id, "running", r.starts + 2)
    BY <1>4 DEF OnOciEvent, OnOciConfigUpdate
  <2>2. e \in OciEvents /\ e.id = w.id /\ e.config = r.starts + 2
    BY <1>1, <1>2, <2>1
  <2>. QED
    BY <1>1, <1>4, <2>2 DEF OciMayTell, LastPrepared
<1>5. CASE w.kind # "delete" /\ r.state = "running"
  <2>1. e = OciEvent(w.id, "running", r.starts + 1)
    BY <1>5 DEF OnOciEvent, OnOciConfigUpdate
  <2>2. e \in OciEvents /\ e.id = w.id /\ e.config = r.starts + 1
    BY <1>1, <1>2, <2>1
  <2>. QED
    BY <1>1, <1>5, <2>2 DEF OciMayTell, LastPrepared
<1>6. ~(w.kind # "delete" /\ r.state \notin {"prepared", "running"})
  BY DEF OnOciEvent, OnOciConfigUpdate
<1>. QED
  BY <1>3, <1>4, <1>5, <1>6

\* What is to come of the containers whose starts are reported evenly is the
\* same before and after.
SameToCome ==
  \A d \in Ids \ uneven' :
    /\ Coming(docker', dockerWrites', runtime', d) = Coming(docker, dockerWrites, runtime, d)
    /\ Runs(oci', ociWrites', d) = Runs(oci, ociWrites, d)

LEMMA ReadLife ==
  ASSUME EventTypeOK, LifeInv, UNCHANGED <<runtime, mergeVars>>, uneven \subseteq uneven', SameToCome,
         \A i \in DOMAIN docker' :
           \/ \E j \in DOMAIN docker : docker'[i] = docker[j]
           \/ /\ \E j \in DOMAIN dockerWrites : docker'[i].id = dockerWrites[j].id
              /\ docker'[i].state = "created" => runtime[docker'[i].id].starts = 0,
         \A i \in DOMAIN dockerWrites' : \E j \in DOMAIN dockerWrites : dockerWrites'[i] = dockerWrites[j]
  PROVE  LifeInv'
<1>1. /\ runtime' = runtime /\ createdMap' = createdMap /\ startedMap' = startedMap /\ events' = events
  BY DEF mergeVars
<1>2. HeldForm'
  BY <1>1 DEF LifeInv, HeldForm
<1>3. EventForm'
  BY <1>1 DEF LifeInv, EventForm
<1>4. InTurn'
  <2>. SUFFICES ASSUME NEW d \in Ids, d \notin uneven'
                PROVE  InStep(startedMap[d], Coming(docker', dockerWrites', runtime', d), Runs(oci', ociWrites', d))
    BY <1>1 DEF InTurn
  <2>1. InStep(startedMap[d], Coming(docker, dockerWrites, runtime, d), Runs(oci, ociWrites, d))
    BY DEF LifeInv, InTurn
  <2>. QED
    BY <2>1 DEF SameToCome
<1>5. SentIsPast'
  <2>. SUFFICES ASSUME NEW i \in DOMAIN events, NEW d, d = events[i].id,
                       events[i].type = "RUNNING", d \notin uneven',
                       NEW k \in Coming(docker', dockerWrites', runtime', d) \cup Runs(oci', ociWrites', d)
                PROVE  events[i].pid + 1 < k
    BY <1>1 DEF SentIsPast
  <2>1. d \in Ids
    BY Elements
  <2>. QED
    BY <2>1 DEF LifeInv, SentIsPast, SameToCome
<1>6. CreatedBefore'
  <2>. SUFFICES ASSUME NEW i \in DOMAIN docker', docker'[i].state = "created", NEW d, d = docker'[i].id
                PROVE  /\ d \notin uneven' => startedMap[d] = None \/ startedMap[d].docker = NoConfig
                       /\ \A j \in DOMAIN events : events[j].id = d =>
                            \/ events[j].type = "CREATED"
                            \/ events[j].type = "RUNNING" /\ events[j].id \in uneven'
    BY <1>1 DEF CreatedBefore
  <2>1. CASE \E j \in DOMAIN docker : docker'[i] = docker[j]
    BY <2>1 DEF LifeInv, CreatedBefore
  <2>2. ASSUME NEW n \in DOMAIN dockerWrites, d = dockerWrites[n].id, runtime[d].starts = 0
        PROVE  /\ startedMap[d] = None \/ startedMap[d].docker = NoConfig
               /\ \A j \in DOMAIN events : events[j].id = d =>
                    \/ events[j].type = "CREATED"
                    \/ events[j].type = "RUNNING" /\ events[j].id \in uneven'
    <3>1. d \in Ids
      BY <2>2, Elements
    <3>2. startedMap[d] # None => startedMap[d].pid \in Nat
      BY <3>1, Elements DEF EventTypeOK
    <3>3. startedMap[d] = None \/ startedMap[d].docker = NoConfig
      BY <2>2, <3>1, <3>2 DEF LifeInv, HeldForm
    <3>4. ASSUME NEW j \in DOMAIN events, events[j].id = d
          PROVE  \/ events[j].type = "CREATED"
                 \/ events[j].type = "RUNNING" /\ events[j].id \in uneven'
      <4>1. events[j].pid \in Nat /\ events[j].type \in {"CREATED", "RUNNING", "EXITED", "DESTROYED"}
        BY Elements DEF ApiEvents
      <4>2. events[j].pid = 0 /\ events[j].type # "EXITED"
        BY <2>2, <3>4, <4>1 DEF LifeInv, EventForm
      <4>3. events[j].type = "RUNNING" => events[j].id \in uneven
        BY <4>2 DEF LifeInv, EventForm
      <4>4. events[j].type # "DESTROYED"
        BY <2>2, <3>4 DEF LifeInv, DestroyedAfter
      <4>. QED
        BY <4>1, <4>2, <4>3, <4>4
    <3>. QED
      BY <3>3, <3>4
  <2>. QED
    BY <2>1, <2>2
<1>7. DestroyedAfter'
  BY <1>1 DEF LifeInv, DestroyedAfter
<1>8. LifecycleInOrder'
  BY <1>1 DEF LifeInv, LifecycleInOrder
<1>. QED
  BY <1>2, <1>3, <1>4, <1>5, <1>6, <1>7, <1>8 DEF LifeInv

LEMMA ReadDockerStep ==
  ASSUME EventTypeOK, QueueInv, LifeInv, ReadDocker
  PROVE  EventTypeOK' /\ QueueInv' /\ LifeInv'
<1>1. PICK w, e : w = Head(dockerWrites) /\ e = OnDockerEvent(w)
  OBVIOUS
<1>2. /\ dockerWrites # <<>> /\ dockerWrites' = Tail(dockerWrites)
      /\ docker' = IF e = None THEN docker ELSE Append(docker, e)
      /\ uneven' = IF ConfigOf(e) # w.config THEN uneven \cup {w.id} ELSE uneven
      /\ oci' = oci /\ ociWrites' = ociWrites /\ UNCHANGED <<runtime, mergeVars>>
  BY <1>1 DEF ReadDocker, Reported
<1>3. /\ docker \in Seq(DockerEvents) /\ dockerWrites \in Seq(FileEvents)
      /\ oci \in Seq(OciEvents) /\ ociWrites \in Seq(FileEvents)
  BY DEF EventTypeOK
<1>4. /\ dockerWrites' \in Seq(FileEvents)
      /\ DOMAIN dockerWrites' = 1 .. Len(dockerWrites) - 1
      /\ DOMAIN dockerWrites = 1 .. Len(dockerWrites) /\ Len(dockerWrites) \in Nat \ {0}
      /\ \A i \in DOMAIN dockerWrites' : dockerWrites'[i] = dockerWrites[i + 1]
      /\ w = dockerWrites[1] /\ w \in FileEvents
  BY <1>1, <1>2, <1>3, TailOf
<1>5. /\ 1 \in DOMAIN dockerWrites
      /\ \A i \in DOMAIN dockerWrites' : /\ i + 1 \in DOMAIN dockerWrites /\ 1 < i + 1
                                         /\ dockerWrites'[i] = dockerWrites[i + 1]
      /\ \A i, j \in DOMAIN dockerWrites' : i < j => i + 1 < j + 1
      /\ w.id \in Ids
  BY <1>4, Elements
<1>6. DockerIsBehind /\ DockerInOrder /\ RunsInOrder(docker, dockerWrites, uneven)
  BY DEF QueueInv, DockerInv
<1>7. e # None => /\ e \in DockerEvents /\ e.id = w.id /\ DockerMayTell(e, runtime[w.id])
                  /\ e.state = "dead" => w.kind = "delete"
                  /\ e.state = "created" => runtime[w.id].starts = 0
  <2>1. w.kind = "delete" => runtime[w.id].state = "dead"
    BY <1>4, <1>5, <1>6 DEF DockerIsBehind
  <2>. QED
    BY <1>1, <1>4, <1>6, <2>1, DockerReports
<1>8. uneven \subseteq uneven' /\ uneven' \subseteq uneven \cup {w.id}
  BY <1>2
<1>9. /\ docker' \in Seq(DockerEvents)
      /\ DOMAIN docker = 1 .. Len(docker) /\ Len(docker) \in Nat
      /\ \A i \in DOMAIN docker' :
           \/ i \in DOMAIN docker /\ docker'[i] = docker[i]
           \/ i = Len(docker) + 1 /\ e # None /\ docker'[i] = e
  <2>1. CASE e = None
    BY <1>2, <1>3, <2>1
  <2>2. CASE e # None
    <3>1. /\ Append(docker, e) \in Seq(DockerEvents)
          /\ DOMAIN Append(docker, e) = 1 .. Len(docker) + 1
          /\ DOMAIN docker = 1 .. Len(docker) /\ Len(docker) \in Nat
          /\ \A i \in DOMAIN docker : Append(docker, e)[i] = docker[i]
          /\ Append(docker, e)[Len(docker) + 1] = e
      BY <1>3, <1>7, <2>2, AppendOne
    <3>2. docker' = Append(docker, e)
      BY <1>2, <2>2
    <3>. HIDE DEF NoConfig
    <3>3. \A i \in 1 .. Len(docker) + 1 : i \in 1 .. Len(docker) \/ i = Len(docker) + 1
      BY <3>1
    <3>. QED
      BY <2>2, <3>1, <3>2, <3>3
  <2>. QED
    BY <2>1, <2>2
<1>10. DockerInv'
  <2>1. \A i \in DOMAIN docker' : DockerMayTell(docker'[i], runtime[docker'[i].id])
    BY <1>6, <1>7, <1>9 DEF DockerIsBehind
  <2>2. \A i \in DOMAIN dockerWrites' :
          /\ dockerWrites'[i].kind = "delete" => runtime[dockerWrites'[i].id].state = "dead"
          /\ dockerWrites'[i].config # NoConfig =>
               dockerWrites'[i].config \in 2 .. runtime[dockerWrites'[i].id].starts + 1
    BY <1>5, <1>6 DEF DockerIsBehind
  <2>3. DockerIsBehind'
    BY <1>2, <2>1, <2>2 DEF DockerIsBehind, DockerMayTell
  <2>4. \A i \in DOMAIN docker : docker[i].id = w.id => docker[i].state # "dead"
    BY <1>4, <1>5, <1>6 DEF DockerInOrder
  <2>5. \A i, j \in DOMAIN docker' : i < j /\ docker'[i].id = docker'[j].id =>
          /\ docker'[j].state = "created" => docker'[i].state = "created"
          /\ docker'[i].state # "dead"
    <3>. SUFFICES ASSUME NEW i \in DOMAIN docker', NEW j \in DOMAIN docker', i < j, docker'[i].id = docker'[j].id
                  PROVE  /\ docker'[j].state = "created" => docker'[i].state = "created"
                         /\ docker'[i].state # "dead"
      OBVIOUS
    <3>1. i \in DOMAIN docker /\ docker'[i] = docker[i]
      BY <1>9
    <3>2. CASE j \in DOMAIN docker /\ docker'[j] = docker[j]
      BY <1>6, <3>1, <3>2 DEF DockerInOrder
    <3>3. CASE e # None /\ docker'[j] = e
      <4>1. docker[i].id = w.id /\ docker[i].state # "dead"
        BY <1>7, <2>4, <3>1, <3>3
      <4>2. docker[i].state \in {"created", "running", "exited", "dead"}
        BY <3>1, Elements DEF DockerEvents
      <4>3. DockerMayTell(docker[i], runtime[w.id])
        BY <1>6, <3>1, <4>1 DEF DockerIsBehind
      <4>4. e.state = "created" => docker[i].state = "created"
        BY <1>7, <3>3, <4>1, <4>2, <4>3 DEF DockerMayTell
      <4>. QED
        BY <3>1, <3>3, <4>1, <4>4
    <3>. QED
      BY <1>9, <3>2, <3>3
  <2>6. \A i \in DOMAIN docker', j \in DOMAIN dockerWrites' :
          docker'[i].id = dockerWrites'[j].id => docker'[i].state # "dead"
    <3>. SUFFICES ASSUME NEW i \in DOMAIN docker', NEW j \in DOMAIN dockerWrites',
                         docker'[i].id = dockerWrites'[j].id
                  PROVE  docker'[i].state # "dead"
      OBVIOUS
    <3>1. CASE i \in DOMAIN docker /\ docker'[i] = docker[i]
      BY <1>5, <1>6, <3>1 DEF DockerInOrder
    <3>2. CASE e # None /\ docker'[i] = e
      BY <1>4, <1>5, <1>6, <1>7, <3>2 DEF DockerInOrder
    <3>. QED
      BY <1>9, <3>1, <3>2
  <2>7. \A i, j \in DOMAIN dockerWrites' :
          i < j /\ dockerWrites'[i].id = dockerWrites'[j].id => dockerWrites'[i].kind # "delete"
    BY <1>5, <1>6 DEF DockerInOrder
  <2>8. DockerInOrder'
    BY <2>5, <2>6, <2>7 DEF DockerInOrder
  <2>9. RunsInOrder(docker', dockerWrites', uneven')
    <3>1. e # None => (e.state = "running" => e.config # NoConfig)
      BY <1>7 DEF DockerEvents, NoConfig
    <3>2. w.id \notin uneven' => ConfigOf(e) = w.config
      BY <1>2
    <3>3. ReadInto(DockerEvents, docker, docker', w, ConfigOf(e))
      BY <1>2, <1>7, <3>1 DEF ReadInto, ConfigOf
    <3>. QED
      BY <1>1, <1>2, <1>3, <1>6, <1>8, <1>9, <3>2, <3>3, InOrderRead
  <2>. QED
    BY <2>3, <2>8, <2>9 DEF DockerInv
<1>11. OciInv'
  <2>1. OciIsBehind'
    BY <1>2 DEF QueueInv, OciInv, OciIsBehind, OciMayTell, LastPrepared
  <2>2. RunsInOrder(oci', ociWrites', uneven')
    BY <1>2, <1>8, InOrderKept DEF QueueInv, OciInv
  <2>. QED
    BY <2>1, <2>2 DEF OciInv
<1>12. EventTypeOK'
  <2>1. /\ runtime' = runtime /\ createdMap' = createdMap /\ startedMap' = startedMap /\ events' = events
    BY <1>2 DEF mergeVars
  <2>2. uneven' \subseteq Ids
    BY <1>5, <1>8 DEF EventTypeOK
  <2>. QED
    BY <1>2, <1>4, <1>9, <2>1, <2>2 DEF EventTypeOK
<1>13. SameToCome
  <2>. SUFFICES ASSUME NEW d \in Ids, d \notin uneven'
                PROVE  /\ Coming(docker', dockerWrites', runtime', d) = Coming(docker, dockerWrites, runtime, d)
                       /\ Runs(oci', ociWrites', d) = Runs(oci, ociWrites, d)
    BY DEF SameToCome
  <2>1. e # None => (e.state = "running" => e.config # NoConfig)
    BY <1>7 DEF DockerEvents, NoConfig
  <2>2. ReadInto(DockerEvents, docker, docker', w, ConfigOf(e))
    BY <1>2, <1>7, <2>1 DEF ReadInto, ConfigOf
  <2>3. d = w.id => ConfigOf(e) = w.config
    BY <1>2
  <2>4. Runs(docker', Tail(dockerWrites), d) = Runs(docker, dockerWrites, d)
    <3>1. /\ DockerEvents \in SUBSET (DockerEvents \cup OciEvents)
          /\ docker \in Seq(DockerEvents) /\ docker' \in Seq(DockerEvents)
          /\ dockerWrites \in Seq(FileEvents) /\ dockerWrites # <<>> /\ w = Head(dockerWrites)
      BY <1>1, <1>2, <1>3, <1>9
    <3>. QED
      BY Z3, <2>2, <2>3, <3>1, RunsRead
  <2>. QED
    BY <1>2, <2>4 DEF Coming
<1>14. LifeInv'
  <2>1. \A i \in DOMAIN docker' :
           \/ \E j \in DOMAIN docker : docker'[i] = docker[j]
           \/ /\ \E j \in DOMAIN dockerWrites : docker'[i].id = dockerWrites[j].id
              /\ docker'[i].state = "created" => runtime[docker'[i].id].starts = 0
    BY <1>4, <1>5, <1>7, <1>9
  <2>2. \A i \in DOMAIN dockerWrites' : \E j \in DOMAIN dockerWrites : dockerWrites'[i] = dockerWrites[j]
    BY <1>5
  <2>. QED
    BY <1>2, <1>8, <1>13, <2>1, <2>2, ReadLife
<1>. QED
  BY <1>10, <1>11, <1>12, <1>14 DEF QueueInv

LEMMA ReadOciStep ==
  ASSUME EventTypeOK, QueueInv, LifeInv, ReadOci
  PROVE  EventTypeOK' /\ QueueInv' /\ LifeInv'
<1>1. PICK w, e : w = Head(ociWrites) /\ e = OnOciEvent(w)
  OBVIOUS
<1>2. /\ ociWrites # <<>> /\ ociWrites' = Tail(ociWrites)
      /\ oci' = IF e = None THEN oci ELSE Append(oci, e)
      /\ uneven' = IF ConfigOf(e) # w.config THEN uneven \cup {w.id} ELSE uneven
      /\ docker' = docker /\ dockerWrites' = dockerWrites /\ UNCHANGED <<runtime, mergeVars>>
  BY <1>1 DEF ReadOci, Reported
<1>3. /\ docker \in Seq(DockerEvents) /\ dockerWrites \in Seq(FileEvents)
      /\ oci \in Seq(OciEvents) /\ ociWrites \in Seq(FileEvents)
  BY DEF EventTypeOK
<1>4. /\ ociWrites' \in Seq(FileEvents)
      /\ DOMAIN ociWrites' = 1 .. Len(ociWrites) - 1
      /\ DOMAIN ociWrites = 1 .. Len(ociWrites) /\ Len(ociWrites) \in Nat \ {0}
      /\ \A i \in DOMAIN ociWrites' : ociWrites'[i] = ociWrites[i + 1]
      /\ w = ociWrites[1] /\ w \in FileEvents
  BY <1>1, <1>2, <1>3, TailOf
<1>5. /\ \A i \in DOMAIN ociWrites' : i + 1 \in DOMAIN ociWrites /\ ociWrites'[i] = ociWrites[i + 1]
      /\ w.id \in Ids
  BY <1>4, Elements
<1>6. OciIsBehind /\ RunsInOrder(oci, ociWrites, uneven)
  BY DEF QueueInv, OciInv
<1>7. e # None => e \in OciEvents /\ e.id = w.id /\ OciMayTell(e, runtime[w.id])
  BY <1>1, <1>4, OciReports
<1>8. uneven \subseteq uneven' /\ uneven' \subseteq uneven \cup {w.id}
  BY <1>2
<1>9. /\ oci' \in Seq(OciEvents)
      /\ \A i \in DOMAIN oci' : \/ i \in DOMAIN oci /\ oci'[i] = oci[i]
                                \/ e # None /\ oci'[i] = e
  <2>1. CASE e = None
    BY <1>2, <1>3, <2>1
  <2>2. CASE e # None
    <3>1. /\ Append(oci, e) \in Seq(OciEvents)
          /\ DOMAIN Append(oci, e) = 1 .. Len(oci) + 1 /\ DOMAIN oci = 1 .. Len(oci) /\ Len(oci) \in Nat
          /\ \A i \in DOMAIN oci : Append(oci, e)[i] = oci[i]
          /\ Append(oci, e)[Len(oci) + 1] = e
      BY <1>3, <1>7, <2>2, AppendOne
    <3>2. oci' = Append(oci, e)
      BY <1>2, <2>2
    <3>3. \A i \in 1 .. Len(oci) + 1 : i \in 1 .. Len(oci) \/ i = Len(oci) + 1
      BY <3>1
    <3>. QED
      BY <2>2, <3>1, <3>2, <3>3
  <2>. QED
    BY <2>1, <2>2
<1>10. OciInv'
  <2>1. \A i \in DOMAIN oci' : OciMayTell(oci'[i], runtime[oci'[i].id])
    BY <1>6, <1>7, <1>9 DEF OciIsBehind
  <2>2. \A i \in DOMAIN ociWrites' : ociWrites'[i].config # NoConfig =>
          ociWrites'[i].config \in 2 .. LastPrepared(runtime[ociWrites'[i].id])
    BY <1>5, <1>6 DEF OciIsBehind
  <2>3. OciIsBehind'
    BY <1>2, <2>1, <2>2 DEF OciIsBehind, OciMayTell, LastPrepared
  <2>4. RunsInOrder(oci', ociWrites', uneven')
    <3>1. e # None => (e.state = "running" => e.config # NoConfig)
      BY <1>7 DEF OciMayTell, NoConfig
    <3>2. w.id \notin uneven' => ConfigOf(e) = w.config
      BY <1>2
    <3>3. ReadInto(OciEvents, oci, oci', w, ConfigOf(e))
      BY <1>2, <1>7, <3>1 DEF ReadInto, ConfigOf
    <3>. QED
      BY <1>1, <1>2, <1>3, <1>6, <1>8, <1>9, <3>2, <3>3, InOrderRead
  <2>. QED
    BY <2>3, <2>4 DEF OciInv
<1>11. DockerInv'
  <2>1. DockerIsBehind'
    BY <1>2 DEF QueueInv, DockerInv, DockerIsBehind, DockerMayTell
  <2>2. DockerInOrder'
    BY <1>2 DEF QueueInv, DockerInv, DockerInOrder
  <2>3. RunsInOrder(docker', dockerWrites', uneven')
    BY <1>2, <1>8, InOrderKept DEF QueueInv, DockerInv
  <2>. QED
    BY <2>1, <2>2, <2>3 DEF DockerInv
<1>12. EventTypeOK'
  <2>1. /\ runtime' = runtime /\ createdMap' = createdMap /\ startedMap' = startedMap /\ events' = events
    BY <1>2 DEF mergeVars
  <2>2. uneven' \subseteq Ids
    BY <1>5, <1>8 DEF EventTypeOK
  <2>. QED
    BY <1>2, <1>4, <1>9, <2>1, <2>2 DEF EventTypeOK
<1>13. SameToCome
  <2>. SUFFICES ASSUME NEW d \in Ids, d \notin uneven'
                PROVE  /\ Coming(docker', dockerWrites', runtime', d) = Coming(docker, dockerWrites, runtime, d)
                       /\ Runs(oci', ociWrites', d) = Runs(oci, ociWrites, d)
    BY DEF SameToCome
  <2>1. e # None => (e.state = "running" => e.config # NoConfig)
    BY <1>7 DEF OciMayTell, NoConfig
  <2>2. ReadInto(OciEvents, oci, oci', w, ConfigOf(e))
    BY <1>2, <1>7, <2>1 DEF ReadInto, ConfigOf
  <2>3. d = w.id => ConfigOf(e) = w.config
    BY <1>2
  <2>4. Runs(oci', Tail(ociWrites), d) = Runs(oci, ociWrites, d)
    <3>1. /\ OciEvents \in SUBSET (DockerEvents \cup OciEvents)
          /\ oci \in Seq(OciEvents) /\ oci' \in Seq(OciEvents)
          /\ ociWrites \in Seq(FileEvents) /\ ociWrites # <<>> /\ w = Head(ociWrites)
      BY <1>1, <1>2, <1>3, <1>9
    <3>. QED
      BY <2>2, <2>3, <3>1, RunsRead
  <2>. QED
    BY <1>2, <2>4 DEF Coming
<1>14. LifeInv'
  BY <1>2, <1>8, <1>13, ReadLife
<1>. QED
  BY <1>10, <1>11, <1>12, <1>14 DEF QueueInv


-----------------------------------------------------------------------------
(* An update is handled. *)

\* What handling an update of a container leaves as it is.
Handled(c) ==
  /\ runtime' = runtime /\ dockerWrites' = dockerWrites /\ ociWrites' = ociWrites
  /\ uneven' = uneven \/ uneven' = uneven \cup {c}
  /\ \A d \in Ids \ {c} : /\ createdMap'[d] = createdMap[d] /\ startedMap'[d] = startedMap[d]
                          /\ Coming(docker', dockerWrites', runtime', d) = Coming(docker, dockerWrites, runtime, d)
                          /\ Runs(oci', ociWrites', d) = Runs(oci, ociWrites, d)
  /\ Coming(docker', dockerWrites', runtime', c) \subseteq Coming(docker, dockerWrites, runtime, c)
  /\ Runs(oci', ociWrites', c) \subseteq Runs(oci, ociWrites, c)
  /\ \A i \in DOMAIN docker' : \E j \in DOMAIN docker : docker'[i] = docker[j]

\* What it holds back.
HeldAfter(c) ==
  /\ createdMap'[c] # None => /\ createdMap'[c].id = c /\ createdMap'[c].type = "CREATED"
                              /\ createdMap'[c].docker # NoConfig /\ createdMap'[c].pid = 0
  /\ startedMap'[c] # None => /\ startedMap'[c].id = c /\ startedMap'[c].type = "RUNNING"
                              /\ startedMap'[c].details = NoDetails
                              /\ startedMap'[c].pid <= runtime[c].starts
                              /\ startedMap'[c].docker # NoConfig => startedMap'[c].pid # 0
  /\ c \notin uneven' =>
       InStep(startedMap'[c], Coming(docker', dockerWrites', runtime', c), Runs(oci', ociWrites', c))
  /\ c \notin uneven' /\ (\E i \in DOMAIN docker' : docker'[i].id = c /\ docker'[i].state = "created") =>
       startedMap'[c] = None \/ startedMap'[c].docker = NoConfig

\* What it sends.
MayBeSent(m, c) ==
  /\ m.id = c
  /\ m.pid <= runtime[c].starts
  /\ m.type \in {"RUNNING", "DESTROYED"} => m.details = NoDetails
  /\ m.type = "RUNNING" /\ c \notin uneven' =>
       \A k \in Coming(docker', dockerWrites', runtime', c) \cup Runs(oci', ociWrites', c) : m.pid + 1 < k
  /\ m.type = "EXITED" => runtime[c].starts # 0
  /\ m.type = "RUNNING" /\ c \notin uneven' => m.pid # 0
  /\ m.type = "CREATED" => \A i \in DOMAIN events : events[i].id = c =>
       events[i].type = "CREATED" \/ (events[i].type = "RUNNING" /\ c \in uneven')
  /\ m.type # "RUNNING" => \A i \in DOMAIN events : events[i].id = c => events[i].type # "DESTROYED"
  /\ m.type = "DESTROYED" => /\ runtime[c].state = "dead"
                             /\ \A i \in DOMAIN docker' : docker'[i].id # c
                             /\ \A i \in DOMAIN dockerWrites' : dockerWrites'[i].id # c
  /\ \A i \in DOMAIN docker' : docker'[i].id = c /\ docker'[i].state = "created" =>
       m.type = "CREATED" \/ (m.type = "RUNNING" /\ c \in uneven')

LEMMA HandledLife ==
  ASSUME EventTypeOK, LifeInv, NEW c \in Ids, Handled(c), HeldAfter(c),
         events' = events \/ \E m \in ApiEvents : MayBeSent(m, c) /\ events' = Append(events, m)
  PROVE  LifeInv'
<1>1. /\ runtime' = runtime /\ dockerWrites' = dockerWrites /\ uneven \subseteq uneven'
      /\ \A d \in Ids \ {c} : d \in uneven' => d \in uneven
  BY DEF Handled
<1>2. PICK m : \A j \in DOMAIN events' :
        \/ j \in DOMAIN events /\ events'[j] = events[j]
        \/ /\ j = Len(events) + 1 /\ events'[j] = m /\ m \in ApiEvents /\ MayBeSent(m, c)
  <2>1. ASSUME NEW m \in ApiEvents, MayBeSent(m, c), events' = Append(events, m)
        PROVE  \A j \in DOMAIN events' :
                 \/ j \in DOMAIN events /\ events'[j] = events[j]
                 \/ j = Len(events) + 1 /\ events'[j] = m
    <3>1. events \in Seq(ApiEvents)
      BY DEF EventTypeOK
    <3>. QED
      BY <2>1, <3>1
  <2>. QED
    BY <2>1
<1>3. /\ DOMAIN events = 1 .. Len(events) /\ Len(events) \in Nat
      /\ \A i \in DOMAIN events : events[i].id \in Ids
  BY Elements
<1>4. HeldForm'
  BY <1>1 DEF LifeInv, HeldForm, Handled, HeldAfter
<1>5. EventForm'
  BY <1>1, <1>2 DEF LifeInv, EventForm, MayBeSent
<1>6. InTurn'
  <2>. SUFFICES ASSUME NEW d \in Ids, d \notin uneven'
                PROVE  InStep(startedMap'[d], Coming(docker', dockerWrites', runtime', d), Runs(oci', ociWrites', d))
    BY DEF InTurn
  <2>1. CASE d = c
    BY <2>1 DEF HeldAfter
  <2>2. CASE d # c
    BY <1>1, <2>2 DEF LifeInv, InTurn, Handled
  <2>. QED
    BY <2>1, <2>2
<1>7. SentIsPast'
  <2>. SUFFICES ASSUME NEW j \in DOMAIN events', events'[j].type = "RUNNING", NEW d, d = events'[j].id,
                       d \notin uneven',
                       NEW k \in Coming(docker', dockerWrites', runtime', d) \cup Runs(oci', ociWrites', d)
                PROVE  events'[j].pid + 1 < k
    BY DEF SentIsPast
  <2>1. CASE j \in DOMAIN events /\ events'[j] = events[j]
    <3>1. k \in Coming(docker, dockerWrites, runtime, d) \cup Runs(oci, ociWrites, d)
      BY <1>3, <2>1 DEF Handled
    <3>. QED
      BY <1>1, <2>1, <3>1 DEF LifeInv, SentIsPast
  <2>2. CASE events'[j] = m /\ MayBeSent(m, c)
    BY <2>2 DEF MayBeSent
  <2>. QED
    BY <1>2, <2>1, <2>2
<1>8. CreatedBefore'
  <2>. SUFFICES ASSUME NEW i \in DOMAIN docker', docker'[i].state = "created", NEW d, d = docker'[i].id
                PROVE  /\ d \notin uneven' => startedMap'[d] = None \/ startedMap'[d].docker = NoConfig
                       /\ \A j \in DOMAIN events' : events'[j].id = d =>
                            \/ events'[j].type = "CREATED"
                            \/ events'[j].type = "RUNNING" /\ d \in uneven'
    BY DEF CreatedBefore
  <2>1. PICK n \in DOMAIN docker : docker'[i] = docker[n]
    BY DEF Handled
  <2>2. d \in Ids
    BY <2>1, Elements
  <2>3. /\ d \notin uneven => startedMap[d] = None \/ startedMap[d].docker = NoConfig
        /\ \A j \in DOMAIN events : events[j].id = d =>
                            \/ events[j].type = "CREATED"
                            \/ events[j].type = "RUNNING" /\ d \in uneven
    BY <2>1 DEF LifeInv, CreatedBefore
  <2>4. d \notin uneven' => startedMap'[d] = None \/ startedMap'[d].docker = NoConfig
    <3>1. CASE d = c
      BY <3>1 DEF HeldAfter
    <3>2. CASE d # c
      BY <1>1, <2>2, <2>3, <3>2 DEF Handled
    <3>. QED
      BY <3>1, <3>2
  <2>5. ASSUME NEW j \in DOMAIN events', events'[j].id = d
        PROVE  events'[j].type = "CREATED" \/ (events'[j].type = "RUNNING" /\ d \in uneven')
    BY <1>1, <1>2, <2>3, <2>5 DEF MayBeSent
  <2>. QED
    BY <2>4, <2>5
<1>9. DestroyedAfter'
  <2>. SUFFICES ASSUME NEW j \in DOMAIN events', events'[j].type = "DESTROYED"
                PROVE  /\ runtime[events'[j].id].state = "dead"
                       /\ \A i \in DOMAIN docker' : docker'[i].id # events'[j].id
                       /\ \A i \in DOMAIN dockerWrites' : dockerWrites'[i].id # events'[j].id
    BY <1>1 DEF DestroyedAfter
  <2>1. CASE j \in DOMAIN events /\ events'[j] = events[j]
    BY <2>1 DEF LifeInv, DestroyedAfter, Handled
  <2>2. CASE events'[j] = m /\ MayBeSent(m, c)
    BY <2>2 DEF MayBeSent
  <2>. QED
    BY <1>2, <2>1, <2>2
<1>10. LifecycleInOrder'
  <2>. SUFFICES ASSUME NEW i \in DOMAIN events', NEW j \in DOMAIN events', i < j, events'[i].id = events'[j].id
                PROVE  /\ events'[j].type = "CREATED" =>
                            \/ events'[i].type = "CREATED"
                            \/ events'[i].type = "RUNNING" /\ events'[i].id \in uneven'
                       /\ events'[i].type = "DESTROYED" => events'[j].type = "RUNNING"
    BY DEF LifecycleInOrder
  <2>1. i \in DOMAIN events /\ events'[i] = events[i]
    BY <1>2, <1>3
  <2>2. CASE j \in DOMAIN events /\ events'[j] = events[j]
    BY <1>1, <2>1, <2>2 DEF LifeInv, LifecycleInOrder
  <2>3. CASE events'[j] = m /\ MayBeSent(m, c)
    BY <1>1, <2>1, <2>3 DEF MayBeSent
  <2>. QED
    BY <1>2, <2>2, <2>3
<1>. QED
  BY <1>4, <1>5, <1>6, <1>7, <1>8, <1>9, <1>10 DEF LifeInv

LEMMA DockerInStep ==
  ASSUME NEW held \in ApiEvents \cup {None}, NEW after \in SUBSET Int, NEW runs \in SUBSET Int, NEW k \in Nat,
         InStep(held, after \cup {k}, runs),
         \A n \in after : k < n, \A n \in runs : k <= n
  PROVE  /\ held = None => runs = after \cup {k}
         /\ held # None => held.oci # NoConfig /\ held.oci = k /\ after = runs
<1>1. CASE held = None
  BY <1>1 DEF InStep
<1>2. CASE held # None
  <2>1. held \in ApiEvents /\ held.docker \in Nat /\ held.oci \in Nat
    BY <1>2, Elements DEF ApiEvents
  <2>2. CASE held.oci = NoConfig
    <3>1. held.docker \in runs /\ held.docker < k
      BY <1>2, <2>2 DEF InStep
    <3>. QED
      BY <2>1, <3>1
  <2>3. CASE held.oci # NoConfig
    <3>1. after \cup {k} = runs \cup {held.oci} /\ \A n \in runs : held.oci < n
      BY <1>2, <2>3 DEF InStep
    <3>2. held.oci = k
      BY <2>1, <3>1
    <3>3. k \notin after /\ k \notin runs
      BY <3>1, <3>2
    <3>. QED
      BY <1>2, <2>3, <3>1, <3>2, <3>3
  <2>. QED
    BY <2>2, <2>3
<1>. QED
  BY <1>1, <1>2

LEMMA OciInStep ==
  ASSUME NEW held \in ApiEvents \cup {None}, NEW coming \in SUBSET Int, NEW after \in SUBSET Int, NEW k \in Nat,
         InStep(held, coming, after \cup {k}),
         \A n \in after : k < n, \A n \in coming : k <= n
  PROVE  /\ held = None => coming = after \cup {k}
         /\ held # None => /\ held.oci = NoConfig /\ held.docker = k /\ held.docker # NoConfig
                           /\ held.pid + 1 = k /\ coming = after
<1>1. CASE held = None
  BY <1>1 DEF InStep
<1>2. CASE held # None
  <2>1. held \in ApiEvents /\ held.docker \in Nat /\ held.oci \in Nat
    BY <1>2 DEF ApiEvents
  <2>2. CASE held.oci # NoConfig
    <3>1. held.oci \in coming /\ held.oci < k
      BY <1>2, <2>2 DEF InStep
    <3>. QED
      BY <2>1, <3>1
  <2>3. CASE held.oci = NoConfig
    <3>1. /\ after \cup {k} = coming \cup {held.docker} /\ \A n \in coming : held.docker < n
          /\ held.docker # NoConfig /\ held.pid + 1 = held.docker
      BY <1>2, <2>3 DEF InStep
    <3>2. held.docker = k
      BY <2>1, <3>1
    <3>3. k \notin after /\ k \notin coming
      BY <3>1, <3>2
    <3>. QED
      BY <1>2, <2>3, <3>1, <3>2, <3>3
  <2>. QED
    BY <2>2, <2>3
<1>. QED
  BY <1>1, <1>2

LEMMA DockerHandled ==
  ASSUME EventTypeOK, QueueInv, HandleDocker, NEW e, e = Head(docker), NEW c, c = e.id
  PROVE  /\ e \in DockerEvents /\ c \in Ids /\ DockerMayTell(e, runtime[c])
         /\ runtime' = runtime /\ oci' = oci /\ dockerWrites' = dockerWrites /\ ociWrites' = ociWrites
         /\ UNCHANGED subVars
         /\ uneven' = uneven \/ uneven' = uneven \cup {c}
         /\ DockerInv' /\ OciInv' /\ docker' \in Seq(DockerEvents)
         /\ \E j \in DOMAIN docker : docker[j] = e
         /\ \A i \in DOMAIN docker' : \E j \in DOMAIN docker : docker'[i] = docker[j]
         /\ \A i \in DOMAIN docker' : docker'[i].id = c =>
              /\ docker'[i].state = "created" => e.state = "created"
              /\ e.state # "dead"
         /\ \A i \in DOMAIN dockerWrites : dockerWrites[i].id = c => e.state # "dead"
         /\ c \notin uneven /\ e.state = "running" =>
              \A n \in Runs(docker', dockerWrites', c) : e.config < n
         /\ \A d \in Ids : Runs(docker, dockerWrites, d) =
              Runs(docker', dockerWrites', d) \cup IF c = d /\ e.state = "running" THEN {e.config} ELSE {}
         /\ c \notin uneven' => \A n \in Runs(oci, ociWrites, c) : e.state = "running" => ~(n < e.config)
<1>1. /\ docker # <<>> /\ docker' = Tail(docker) /\ oci' = oci /\ runtime' = runtime /\ UNCHANGED subVars
      /\ dockerWrites' = dockerWrites /\ ociWrites' = ociWrites
      /\ uneven' = IF \E config \in Runs(oci, ociWrites, e.id) : config < ConfigOf(e)
                   THEN uneven \cup {e.id} ELSE uneven
  BY DEF HandleDocker, Handle
<1>2. /\ docker \in Seq(DockerEvents) /\ dockerWrites \in Seq(FileEvents)
      /\ DockerEvents \in SUBSET (DockerEvents \cup OciEvents)
  BY DEF EventTypeOK
<1>3. DockerIsBehind /\ DockerInOrder /\ RunsInOrder(docker, dockerWrites, uneven)
  BY DEF QueueInv, DockerInv
<1>4. /\ docker' \in Seq(DockerEvents)
      /\ DOMAIN docker' = 1 .. Len(docker) - 1 /\ DOMAIN docker = 1 .. Len(docker) /\ Len(docker) \in Nat \ {0}
      /\ \A i \in DOMAIN docker' : docker'[i] = docker[i + 1]
      /\ e = docker[1] /\ e \in DockerEvents
  BY <1>1, <1>2, TailOf
<1>5. /\ 1 \in DOMAIN docker
      /\ \A i, j \in DOMAIN docker' : /\ i + 1 \in DOMAIN docker /\ docker'[i] = docker[i + 1]
                                      /\ 1 < i + 1 /\ (i < j => i + 1 < j + 1)
  BY <1>4
<1>6. c \in Ids /\ ConfigOf(e) = (IF e.state = "running" THEN e.config ELSE NoConfig) /\ e.config # NoConfig
  BY <1>4, Elements, ConfigIs DEF DockerEvents, NoConfig
<1>7. uneven \subseteq uneven' /\ (uneven' = uneven \/ uneven' = uneven \cup {c})
  BY <1>1
<1>8. DockerInv'
  <2>1. DockerIsBehind'
    BY <1>1, <1>3, <1>5 DEF DockerIsBehind, DockerMayTell
  <2>2. DockerInOrder'
    BY <1>1, <1>3, <1>5 DEF DockerInOrder
  <2>3. RunsInOrder(docker', dockerWrites', uneven')
    BY <1>1, <1>2, <1>3, <1>7, InOrderTake
  <2>. QED
    BY <2>1, <2>2, <2>3 DEF DockerInv
<1>9. OciInv'
  <2>1. OciIsBehind /\ RunsInOrder(oci, ociWrites, uneven)
    BY DEF QueueInv, OciInv
  <2>2. RunsInOrder(oci', ociWrites', uneven')
    BY <1>1, <1>7, <2>1, InOrderKept
  <2>3. OciIsBehind'
    BY <1>1, <2>1 DEF OciIsBehind, OciMayTell, LastPrepared
  <2>. QED
    BY <2>2, <2>3 DEF OciInv
<1>10. DockerMayTell(e, runtime[c])
  BY <1>3, <1>4, <1>5 DEF DockerIsBehind
<1>11. ASSUME NEW i \in DOMAIN docker', docker'[i].id = c
       PROVE  (docker'[i].state = "created" => e.state = "created") /\ e.state # "dead"
  BY <1>3, <1>4, <1>5, <1>11 DEF DockerInOrder
<1>12. \A i \in DOMAIN dockerWrites : dockerWrites[i].id = c => e.state # "dead"
  BY <1>3, <1>4, <1>5 DEF DockerInOrder
<1>13. ASSUME c \notin uneven, e.state = "running", NEW n \in Runs(docker', dockerWrites', c) PROVE e.config < n
  BY <1>1, <1>2, <1>3, <1>13, HeadIsFirst
<1>14. ASSUME NEW d \in Ids
       PROVE  Runs(docker, dockerWrites, d) =
                Runs(docker', dockerWrites', d) \cup IF c = d /\ e.state = "running" THEN {e.config} ELSE {}
  <2>1. Runs(docker, dockerWrites, d) =
          Runs(docker', dockerWrites', d) \cup
          IF e.id = d /\ ConfigOf(e) # NoConfig THEN {ConfigOf(e)} ELSE {}
    BY <1>1, <1>2, RunsTail
  <2>. QED
    BY <1>6, <2>1
<1>15. ASSUME c \notin uneven', NEW n \in Runs(oci, ociWrites, c), e.state = "running" PROVE ~(n < e.config)
  BY <1>1, <1>6, <1>15
<1>16. \E j \in DOMAIN docker : docker[j] = e
  BY <1>4, <1>5
<1>17. \A i \in DOMAIN docker' : \E j \in DOMAIN docker : docker'[i] = docker[j]
  BY <1>5
<1>. QED
  BY <1>1, <1>4, <1>6, <1>7, <1>8, <1>9, <1>10, <1>11, <1>12, <1>13, <1>14, <1>15, <1>16, <1>17

LEMMA OciHandled ==
  ASSUME EventTypeOK, QueueInv, HandleOci, NEW e, e = Head(oci), NEW c, c = e.id
  PROVE  /\ e \in OciEvents /\ c \in Ids /\ OciMayTell(e, runtime[c])
         /\ runtime' = runtime /\ docker' = docker /\ dockerWrites' = dockerWrites /\ ociWrites' = ociWrites
         /\ UNCHANGED subVars
         /\ uneven' = uneven \/ uneven' = uneven \cup {c}
         /\ DockerInv' /\ OciInv' /\ oci' \in Seq(OciEvents)
         /\ c \notin uneven /\ e.state = "running" =>
              \A n \in Runs(oci', ociWrites', c) : e.config < n
         /\ \A d \in Ids : Runs(oci, ociWrites, d) =
              Runs(oci', ociWrites', d) \cup IF c = d /\ e.state = "running" THEN {e.config} ELSE {}
         /\ c \notin uneven' => \A n \in Runs(docker, dockerWrites, c) : e.state = "running" => ~(n < e.config)
<1>1. /\ oci # <<>> /\ oci' = Tail(oci) /\ docker' = docker /\ runtime' = runtime /\ UNCHANGED subVars
      /\ dockerWrites' = dockerWrites /\ ociWrites' = ociWrites
      /\ uneven' = IF \E config \in Runs(docker, dockerWrites, e.id) : config < ConfigOf(e)
                   THEN uneven \cup {e.id} ELSE uneven
  BY DEF HandleOci, Handle
<1>2. /\ oci \in Seq(OciEvents) /\ ociWrites \in Seq(FileEvents)
      /\ OciEvents \in SUBSET (DockerEvents \cup OciEvents)
  BY DEF EventTypeOK
<1>3. OciIsBehind /\ RunsInOrder(oci, ociWrites, uneven)
  BY DEF QueueInv, OciInv
<1>4. /\ oci' \in Seq(OciEvents)
      /\ DOMAIN oci' = 1 .. Len(oci) - 1 /\ DOMAIN oci = 1 .. Len(oci) /\ Len(oci) \in Nat \ {0}
      /\ \A i \in DOMAIN oci' : oci'[i] = oci[i + 1]
      /\ e = oci[1] /\ e \in OciEvents
  BY <1>1, <1>2, TailOf
<1>5. 1 \in DOMAIN oci /\ \A i \in DOMAIN oci' : i + 1 \in DOMAIN oci /\ oci'[i] = oci[i + 1]
  BY <1>4
<1>6. OciMayTell(e, runtime[c]) /\ c \in Ids
  BY <1>3, <1>4, <1>5, Elements DEF OciIsBehind
<1>7. /\ ConfigOf(e) = (IF e.state = "running" THEN e.config ELSE NoConfig)
      /\ e.state = "running" => e.config # NoConfig
  BY <1>4, <1>6, ConfigIs DEF OciMayTell, NoConfig
<1>8. uneven \subseteq uneven' /\ (uneven' = uneven \/ uneven' = uneven \cup {c})
  BY <1>1
<1>9. OciInv'
  <2>1. OciIsBehind'
    BY <1>1, <1>3, <1>5 DEF OciIsBehind, OciMayTell, LastPrepared
  <2>2. RunsInOrder(oci', ociWrites', uneven')
    BY <1>1, <1>2, <1>3, <1>8, InOrderTake
  <2>. QED
    BY <2>1, <2>2 DEF OciInv
<1>10. DockerInv'
  <2>1. DockerIsBehind /\ DockerInOrder /\ RunsInOrder(docker, dockerWrites, uneven)
    BY DEF QueueInv, DockerInv
  <2>2. RunsInOrder(docker', dockerWrites', uneven')
    BY <1>1, <1>8, <2>1, InOrderKept
  <2>3. DockerIsBehind'
    BY <1>1, <2>1 DEF DockerIsBehind, DockerMayTell
  <2>4. DockerInOrder'
    BY <1>1, <2>1 DEF DockerInOrder
  <2>. QED
    BY <2>2, <2>3, <2>4 DEF DockerInv
<1>11. ASSUME c \notin uneven, e.state = "running", NEW n \in Runs(oci', ociWrites', c) PROVE e.config < n
  BY <1>1, <1>2, <1>3, <1>11, HeadIsFirst
<1>12. ASSUME NEW d \in Ids
       PROVE  Runs(oci, ociWrites, d) =
                Runs(oci', ociWrites', d) \cup IF c = d /\ e.state = "running" THEN {e.config} ELSE {}
  <2>1. Runs(oci, ociWrites, d) =
          Runs(oci', ociWrites', d) \cup
          IF e.id = d /\ ConfigOf(e) # NoConfig THEN {ConfigOf(e)} ELSE {}
    BY <1>1, <1>2, RunsTail
  <2>. QED
    BY <1>7, <2>1
<1>13. ASSUME c \notin uneven', NEW n \in Runs(docker, dockerWrites, c), e.state = "running" PROVE ~(n < e.config)
  BY <1>1, <1>7, <1>13
<1>. QED
  BY <1>1, <1>4, <1>6, <1>8, <1>9, <1>10, <1>11, <1>12, <1>13

LEMMA DockerHandles ==
  ASSUME EventTypeOK, QueueInv, HandleDocker, NEW e, e = Head(docker), NEW c, c = e.id,
         \A d \in Ids \ {c} : createdMap'[d] = createdMap[d] /\ startedMap'[d] = startedMap[d]
  PROVE  /\ Handled(c)
         /\ Runs(oci', ociWrites', c) = Runs(oci, ociWrites, c)
         /\ Coming(docker, dockerWrites, runtime, c) =
              Coming(docker', dockerWrites', runtime', c) \cup IF e.state = "running" THEN {e.config} ELSE {}
<1>1. /\ c \in Ids /\ runtime' = runtime /\ oci' = oci /\ dockerWrites' = dockerWrites /\ ociWrites' = ociWrites
      /\ uneven' = uneven \/ uneven' = uneven \cup {c}
      /\ \A i \in DOMAIN docker' : \E j \in DOMAIN docker : docker'[i] = docker[j]
      /\ \A d \in Ids : Runs(docker, dockerWrites, d) =
              Runs(docker', dockerWrites', d) \cup IF c = d /\ e.state = "running" THEN {e.config} ELSE {}
  BY DockerHandled
<1>2. Runs(docker, dockerWrites, c) =
        Runs(docker', dockerWrites', c) \cup IF e.state = "running" THEN {e.config} ELSE {}
  BY <1>1
<1>3. Coming(docker, dockerWrites, runtime, c) =
        Coming(docker', dockerWrites', runtime', c) \cup IF e.state = "running" THEN {e.config} ELSE {}
  BY <1>1, <1>2 DEF Coming
<1>4. ASSUME NEW d \in Ids \ {c}
      PROVE  /\ Coming(docker', dockerWrites', runtime', d) = Coming(docker, dockerWrites, runtime, d)
             /\ Runs(oci', ociWrites', d) = Runs(oci, ociWrites, d)
  <2>1. c # d /\ Runs(docker, dockerWrites, d) =
                    Runs(docker', dockerWrites', d) \cup IF c = d /\ e.state = "running" THEN {e.config} ELSE {}
    BY DockerHandled
  <2>2. Runs(oci', ociWrites', d) = Runs(oci, ociWrites, d) /\ runtime' = runtime
    BY <1>1
  <2>. QED
    BY <2>1, <2>2 DEF Coming
<1>5. /\ Coming(docker', dockerWrites', runtime', c) \subseteq Coming(docker, dockerWrites, runtime, c)
      /\ Runs(oci', ociWrites', c) = Runs(oci, ociWrites, c)
  BY <1>1, <1>3
<1>. QED
  BY <1>1, <1>3, <1>4, <1>5 DEF Handled

LEMMA OciHandles ==
  ASSUME EventTypeOK, QueueInv, HandleOci, NEW e, e = Head(oci), NEW c, c = e.id,
         \A d \in Ids \ {c} : createdMap'[d] = createdMap[d] /\ startedMap'[d] = startedMap[d]
  PROVE  /\ Handled(c)
         /\ Coming(docker', dockerWrites', runtime', c) = Coming(docker, dockerWrites, runtime, c)
         /\ Runs(oci, ociWrites, c) = Runs(oci', ociWrites', c) \cup IF e.state = "running" THEN {e.config} ELSE {}
<1>1. /\ c \in Ids /\ runtime' = runtime /\ docker' = docker /\ dockerWrites' = dockerWrites /\ ociWrites' = ociWrites
      /\ uneven' = uneven \/ uneven' = uneven \cup {c}
      /\ \A d \in Ids : Runs(oci, ociWrites, d) =
              Runs(oci', ociWrites', d) \cup IF c = d /\ e.state = "running" THEN {e.config} ELSE {}
  BY OciHandled
<1>2. Runs(oci, ociWrites, c) = Runs(oci', ociWrites', c) \cup IF e.state = "running" THEN {e.config} ELSE {}
  BY <1>1
<1>3. ASSUME NEW d \in Ids \ {c}
      PROVE  /\ Coming(docker', dockerWrites', runtime', d) = Coming(docker, dockerWrites, runtime, d)
             /\ Runs(oci', ociWrites', d) = Runs(oci, ociWrites, d)
  BY <1>1
<1>4. /\ Coming(docker', dockerWrites', runtime', c) = Coming(docker, dockerWrites, runtime, c)
      /\ Runs(oci', ociWrites', c) \subseteq Runs(oci, ociWrites, c)
  BY <1>1, <1>2
<1>. QED
  BY <1>1, <1>2, <1>3, <1>4 DEF Handled

\* A RUNNING event that is sent, as RunningIsComplete has it.
SentWhole ==
  Len(events') > Len(events) =>
    LET e == events'[Len(events')]
    IN  e.type = "RUNNING" /\ e.id \notin uneven' =>
          /\ e.pid # 0 /\ e.docker = e.pid + 1 /\ e.oci = e.pid + 1
          /\ \A i \in DOMAIN events : [id |-> e.id, type |-> "RUNNING", pid |-> e.pid] #
                                      [id |-> events[i].id, type |-> events[i].type, pid |-> events[i].pid]

LEMMA AppendEvent ==
  ASSUME EventTypeOK, NEW m \in ApiEvents, events' = Append(events, m)
  PROVE  /\ events' \in Seq(ApiEvents) /\ Len(events') = Len(events) + 1 /\ Len(events) \in Nat
         /\ events'[Len(events')] = m
         /\ \A i \in DOMAIN events : i \in DOMAIN events' /\ events'[i] = events[i]
<1>. events \in Seq(ApiEvents)
  BY DEF EventTypeOK
<1>. QED
  OBVIOUS

LEMMA NothingSent ==
  ASSUME EventTypeOK, events' = events
  PROVE  SentWhole
BY DEF EventTypeOK, SentWhole

\* What both updates of a start lead to.
LEMMA StartedLife ==
  ASSUME EventTypeOK, QueueInv, LifeInv, NEW c \in Ids, NEW x, x.id = c,
         NEW pid \in Nat, NEW config \in Nat, NEW ociConfig \in Nat, NEW k \in Nat,
         Started(x, pid, config, ociConfig), Handled(c),
         docker' \in Seq(DockerEvents), oci' \in Seq(OciEvents),
         pid <= runtime[c].starts,
         config # NoConfig => pid # 0,
         \* even starts: the first update is held back, the second one completes it
         c \notin uneven' =>
           IF startedMap[c] = None
           THEN \A m \in ApiEvents : m.pid = pid /\ m.docker = config /\ m.oci = ociConfig =>
                  InStep(m, Coming(docker', dockerWrites', runtime', c), Runs(oci', ociWrites', c))
           ELSE /\ Coming(docker', dockerWrites', runtime', c) = Runs(oci', ociWrites', c)
                /\ \A n \in Runs(oci', ociWrites', c) : k < n
                /\ k \in Coming(docker, dockerWrites, runtime, c) \cup Runs(oci, ociWrites, c)
                /\ (IF pid # 0 THEN pid ELSE startedMap[c].pid) + 1 = k
                /\ (IF config # NoConfig THEN config ELSE startedMap[c].docker) = k
                /\ (IF ociConfig # NoConfig THEN ociConfig ELSE startedMap[c].oci) = k
                /\ k # 1,
         \* an update of the creation is still to come
         (\E i \in DOMAIN docker' : docker'[i].id = c /\ docker'[i].state = "created") /\ c \notin uneven' =>
           startedMap[c] = None /\ config = NoConfig
  PROVE  EventTypeOK' /\ LifeInv' /\ SentWhole
<1>1. PICK m \in ApiEvents :
       /\ m.id = c /\ m.type = "RUNNING" /\ m.details = NoDetails
       /\ IF startedMap[c] = None
          THEN /\ m.pid = pid /\ m.docker = config /\ m.oci = ociConfig
               /\ startedMap' = [startedMap EXCEPT ![c] = m]
               /\ events' = events
          ELSE /\ m.pid = IF pid # 0 THEN pid ELSE startedMap[c].pid
               /\ m.docker = IF config # NoConfig THEN config ELSE startedMap[c].docker
               /\ m.oci = IF ociConfig # NoConfig THEN ociConfig ELSE startedMap[c].oci
               /\ startedMap' = [startedMap EXCEPT ![c] = None]
               /\ events' = Append(events, m)
  BY DEF Started
<1>2. /\ createdMap' = createdMap /\ runtime' = runtime /\ dockerWrites' = dockerWrites /\ ociWrites' = ociWrites
      /\ uneven \subseteq uneven' /\ uneven' \subseteq uneven \cup {c}
  BY DEF Started, Handled
<1>3. startedMap \in [Ids -> ApiEvents \cup {None}] /\ m # None
  BY NotNone DEF EventTypeOK
<1>4. EventTypeOK'
  <2>1. startedMap' \in [Ids -> ApiEvents \cup {None}]
    BY <1>1, <1>3
  <2>2. events' \in Seq(ApiEvents)
    BY <1>1, AppendEvent DEF EventTypeOK
  <2>3. uneven' \subseteq Ids
    BY <1>2 DEF EventTypeOK
  <2>. QED
    BY <1>2, <2>1, <2>2, <2>3 DEF EventTypeOK
<1>5. HeldForm
  BY DEF LifeInv
<1>6. m.pid <= runtime[c].starts
  BY <1>1, <1>5 DEF HeldForm
<1>7. CASE startedMap[c] = None
  <2>1. startedMap'[c] = m
    BY <1>1, <1>3, <1>7
  <2>2. /\ createdMap'[c] # None => /\ createdMap'[c].id = c /\ createdMap'[c].type = "CREATED"
                                    /\ createdMap'[c].docker # NoConfig /\ createdMap'[c].pid = 0
    BY <1>2, <1>5 DEF HeldForm
  <2>3. c \notin uneven' =>
          InStep(startedMap'[c], Coming(docker', dockerWrites', runtime', c), Runs(oci', ociWrites', c))
    BY <1>1, <1>7, <2>1
  <2>4. c \notin uneven' /\ (\E i \in DOMAIN docker' : docker'[i].id = c /\ docker'[i].state = "created") =>
          startedMap'[c].docker = NoConfig
    BY <1>1, <1>7, <2>1
  <2>5. HeldAfter(c)
    BY <1>1, <1>6, <1>7, <2>1, <2>2, <2>3, <2>4 DEF HeldAfter
  <2>6. events' = events
    BY <1>1, <1>7
  <2>. QED
    BY <1>4, <2>5, <2>6, HandledLife, NothingSent
<1>8. CASE startedMap[c] # None
  <2>1. startedMap'[c] = None /\ events' = Append(events, m)
    BY <1>1, <1>3, <1>8
  <2>2. /\ createdMap'[c] # None => /\ createdMap'[c].id = c /\ createdMap'[c].type = "CREATED"
                                    /\ createdMap'[c].docker # NoConfig /\ createdMap'[c].pid = 0
    BY <1>2, <1>5 DEF HeldForm
  <2>3. HeldAfter(c)
    BY <1>8, <2>1, <2>2 DEF HeldAfter, InStep
  <2>4. c \notin uneven' => /\ m.pid + 1 = k /\ m.docker = k /\ m.oci = k /\ k # 1
                            /\ k \in Coming(docker, dockerWrites, runtime, c) \cup Runs(oci, ociWrites, c)
                            /\ \A n \in Coming(docker', dockerWrites', runtime', c) \cup Runs(oci', ociWrites', c) :
                                 k < n
    BY <1>1, <1>8
  <2>5. MayBeSent(m, c)
    <3>1. c \notin uneven' => m.pid # 0
      BY <2>4, Elements
    <3>. QED
      BY <1>1, <1>6, <1>8, <2>4, <3>1 DEF MayBeSent
  <2>6. LifeInv'
    BY <2>1, <2>3, <2>5, HandledLife
  <2>7. SentWhole
    <3>1. events'[Len(events')] = m
      BY <2>1, AppendEvent
    <3>2. m.pid \in Nat
      BY Elements
    <3>3. ASSUME c \notin uneven', NEW i \in DOMAIN events, events[i].id = c, events[i].type = "RUNNING"
          PROVE  events[i].pid # m.pid
      <4>1. events[i].pid + 1 < k /\ events[i].pid \in Nat
        BY <1>2, <2>4, <3>3, Elements DEF LifeInv, SentIsPast
      <4>. QED
        BY <2>4, <3>2, <3>3, <4>1
    <3>4. ASSUME c \notin uneven', NEW i \in DOMAIN events
          PROVE  [id |-> c, type |-> "RUNNING", pid |-> m.pid] #
                   [id |-> events[i].id, type |-> events[i].type, pid |-> events[i].pid]
      BY <3>3, <3>4
    <3>5. c \notin uneven' => m.pid # 0 /\ m.docker = m.pid + 1 /\ m.oci = m.pid + 1
      BY <2>4, <3>2
    <3>. QED
      BY <1>1, <3>1, <3>4, <3>5 DEF SentWhole
  <2>. QED
    BY <1>4, <2>6, <2>7
<1>. QED
  BY <1>7, <1>8

LEMMA ComingIsInt ==
  ASSUME EventTypeOK, QueueInv, NEW c \in Ids
  PROVE  /\ Coming(docker, dockerWrites, runtime, c) \in SUBSET Int /\ Runs(oci, ociWrites, c) \in SUBSET Int
         /\ \A k \in Coming(docker, dockerWrites, runtime, c) \cup Runs(oci, ociWrites, c) : 2 <= k
BY RunBounds DEF Coming, LastPrepared

LEMMA DockerRuns ==
  ASSUME EventTypeOK, QueueInv, LifeInv, HandleDocker, Head(docker).state = "running"
  PROVE  EventTypeOK' /\ QueueInv' /\ LifeInv' /\ SentWhole
<1>1. PICK e, c : e = Head(docker) /\ c = e.id
  OBVIOUS
<1>2. /\ e \in DockerEvents /\ c \in Ids /\ DockerMayTell(e, runtime[c])
      /\ runtime' = runtime /\ oci' = oci /\ dockerWrites' = dockerWrites /\ ociWrites' = ociWrites
      /\ uneven' = uneven \/ uneven' = uneven \cup {c}
      /\ DockerInv' /\ OciInv' /\ docker' \in Seq(DockerEvents)
      /\ \A i \in DOMAIN docker' : docker'[i].id = c =>
           (docker'[i].state = "created" => e.state = "created")
      /\ c \notin uneven /\ e.state = "running" =>
           \A n \in Runs(docker', dockerWrites', c) : e.config < n
      /\ c \notin uneven' => \A n \in Runs(oci, ociWrites, c) : e.state = "running" => ~(n < e.config)
  BY <1>1, DockerHandled
<1>3. /\ e.state = "running" /\ e.pid \in Nat /\ e.config \in Nat /\ runtime[c].starts \in Nat
      /\ e.pid \in 1 .. runtime[c].starts /\ e.config = e.pid + 1
  BY <1>1, <1>2 DEF DockerMayTell, DockerEvents, EventTypeOK, RuntimeRecords
<1>4. Started(e, e.pid, e.config, NoConfig)
  BY <1>1, <1>3, DockerEffect DEF LifeInv, QueueInv, DockerInv
<1>5. \A d \in Ids \ {c} : createdMap'[d] = createdMap[d] /\ startedMap'[d] = startedMap[d]
  <2>1. startedMap \in [Ids -> ApiEvents \cup {None}]
    BY DEF EventTypeOK
  <2>. QED
    BY <1>1, <1>4, <2>1 DEF Started
<1>6. /\ Handled(c) /\ Runs(oci', ociWrites', c) = Runs(oci, ociWrites, c)
      /\ Coming(docker, dockerWrites, runtime, c) = Coming(docker', dockerWrites', runtime', c) \cup {e.config}
  BY <1>1, <1>3, <1>5, DockerHandles
<1>7. /\ Coming(docker, dockerWrites, runtime, c) \in SUBSET Int /\ Runs(oci, ociWrites, c) \in SUBSET Int
      /\ Coming(docker', dockerWrites', runtime', c) \in SUBSET Int
  BY <1>2, <1>6, ComingIsInt
<1>8. ASSUME c \notin uneven', NEW n \in Coming(docker', dockerWrites', runtime', c) PROVE e.config < n
  <2>1. CASE n \in Runs(docker', dockerWrites', c)
    BY <1>2, <1>3, <1>8, <2>1
  <2>2. CASE n = runtime[c].starts + 2
    BY <1>3, <2>2
  <2>. QED
    BY <1>2, <1>8, <2>1, <2>2 DEF Coming
<1>9. ASSUME c \notin uneven', NEW n \in Runs(oci, ociWrites, c) PROVE e.config <= n
  BY <1>2, <1>3, <1>7, <1>9
<1>10. ASSUME c \notin uneven'
       PROVE  /\ startedMap[c] \in ApiEvents \cup {None}
              /\ startedMap[c] = None =>
                   Runs(oci, ociWrites, c) = Coming(docker', dockerWrites', runtime', c) \cup {e.config}
              /\ startedMap[c] # None => /\ startedMap[c].oci # NoConfig /\ startedMap[c].oci = e.config
                                         /\ Coming(docker', dockerWrites', runtime', c) = Runs(oci, ociWrites, c)
  <2>1. startedMap[c] \in ApiEvents \cup {None}
    BY <1>2 DEF EventTypeOK
  <2>2. InStep(startedMap[c], Coming(docker', dockerWrites', runtime', c) \cup {e.config}, Runs(oci, ociWrites, c))
    BY <1>2, <1>6, <1>10 DEF LifeInv, InTurn
  <2>3. PICK held, after, runs, k :
          held = startedMap[c] /\ after = Coming(docker', dockerWrites', runtime', c)
          /\ runs = Runs(oci, ociWrites, c) /\ k = e.config
    OBVIOUS
  <2>4. /\ held \in ApiEvents \cup {None} /\ after \in SUBSET Int /\ runs \in SUBSET Int /\ k \in Nat
        /\ InStep(held, after \cup {k}, runs)
    BY <1>3, <1>7, <2>1, <2>2, <2>3
  <2>5. (\A n \in after : k < n) /\ \A n \in runs : k <= n
    BY <1>8, <1>9, <1>10, <2>3
  <2>6. /\ held = None => runs = after \cup {k}
        /\ held # None => held.oci # NoConfig /\ held.oci = k /\ after = runs
    BY <2>4, <2>5, DockerInStep
  <2>. QED
    BY <2>3, <2>4, <2>6
<1>11. c \notin uneven' =>
         IF startedMap[c] = None
         THEN \A m \in ApiEvents : m.pid = e.pid /\ m.docker = e.config /\ m.oci = NoConfig =>
                InStep(m, Coming(docker', dockerWrites', runtime', c), Runs(oci', ociWrites', c))
         ELSE /\ Coming(docker', dockerWrites', runtime', c) = Runs(oci', ociWrites', c)
              /\ \A n \in Runs(oci', ociWrites', c) : e.config < n
              /\ e.config \in Coming(docker, dockerWrites, runtime, c) \cup Runs(oci, ociWrites, c)
              /\ (IF e.pid # 0 THEN e.pid ELSE startedMap[c].pid) + 1 = e.config
              /\ (IF e.config # NoConfig THEN e.config ELSE startedMap[c].docker) = e.config
              /\ (IF NoConfig # NoConfig THEN NoConfig ELSE startedMap[c].oci) = e.config
              /\ e.config # 1
  <2>1. ASSUME c \notin uneven', startedMap[c] = None, NEW m \in ApiEvents,
               m.pid = e.pid, m.docker = e.config, m.oci = NoConfig
        PROVE  InStep(m, Coming(docker', dockerWrites', runtime', c), Runs(oci', ociWrites', c))
    <3>1. m # None
      BY NotNone
    <3>2. Runs(oci', ociWrites', c) = Coming(docker', dockerWrites', runtime', c) \cup {e.config}
      BY <1>6, <1>10, <2>1
    <3>3. \A n \in Coming(docker', dockerWrites', runtime', c) : e.config < n
      BY <1>8, <2>1
    <3>4. e.pid + 1 = e.config /\ e.config # NoConfig
      BY <1>3 DEF NoConfig
    <3>. QED
      BY <2>1, <3>1, <3>2, <3>3, <3>4 DEF InStep
  <2>2. ASSUME c \notin uneven', startedMap[c] # None
        PROVE  /\ Coming(docker', dockerWrites', runtime', c) = Runs(oci', ociWrites', c)
               /\ \A n \in Runs(oci', ociWrites', c) : e.config < n
               /\ startedMap[c].oci = e.config
    BY <1>6, <1>8, <1>10, <2>2
  <2>3. e.pid # 0 /\ e.pid + 1 = e.config /\ e.config # NoConfig /\ e.config # 1
    BY <1>3 DEF NoConfig
  <2>. QED
    BY <1>6, <2>1, <2>2, <2>3
<1>12. /\ oci' \in Seq(OciEvents) /\ NoConfig \in Nat
       /\ e.pid <= runtime[c].starts /\ e.pid # 0
  BY <1>2, <1>3 DEF EventTypeOK, NoConfig
<1>13. ~ \E i \in DOMAIN docker' : docker'[i].id = c /\ docker'[i].state = "created"
  BY <1>2, <1>3
<1>14. EventTypeOK' /\ LifeInv' /\ SentWhole
  BY <1>1, <1>2, <1>3, <1>4, <1>6, <1>11, <1>12, <1>13, StartedLife
<1>. QED
  BY <1>2, <1>14 DEF QueueInv

LEMMA OciRuns ==
  ASSUME EventTypeOK, QueueInv, LifeInv, HandleOci, Head(oci).state = "running"
  PROVE  EventTypeOK' /\ QueueInv' /\ LifeInv' /\ SentWhole
<1>1. PICK e, c : e = Head(oci) /\ c = e.id
  OBVIOUS
<1>2. /\ e \in OciEvents /\ c \in Ids /\ OciMayTell(e, runtime[c])
      /\ runtime' = runtime /\ docker' = docker /\ dockerWrites' = dockerWrites /\ ociWrites' = ociWrites
      /\ uneven' = uneven \/ uneven' = uneven \cup {c}
      /\ DockerInv' /\ OciInv' /\ oci' \in Seq(OciEvents)
      /\ c \notin uneven /\ e.state = "running" => \A n \in Runs(oci', ociWrites', c) : e.config < n
      /\ c \notin uneven' => \A n \in Runs(docker, dockerWrites, c) : e.state = "running" => ~(n < e.config)
  BY <1>1, OciHandled
<1>3. /\ e.state = "running" /\ e.config \in Nat /\ runtime[c].starts \in Nat
      /\ e.config \in 2 .. IF runtime[c].state = "prepared" THEN runtime[c].starts + 2 ELSE runtime[c].starts + 1
  BY <1>1, <1>2 DEF OciMayTell, LastPrepared, OciEvents, EventTypeOK, RuntimeRecords
<1>4. Started(e, 0, NoConfig, e.config)
  BY <1>1, <1>3, OciEffect DEF LifeInv
<1>5. \A d \in Ids \ {c} : createdMap'[d] = createdMap[d] /\ startedMap'[d] = startedMap[d]
  <2>1. startedMap \in [Ids -> ApiEvents \cup {None}]
    BY DEF EventTypeOK
  <2>. QED
    BY <1>1, <1>4, <2>1 DEF Started
<1>6. /\ Handled(c) /\ Coming(docker', dockerWrites', runtime', c) = Coming(docker, dockerWrites, runtime, c)
      /\ Runs(oci, ociWrites, c) = Runs(oci', ociWrites', c) \cup {e.config}
  BY <1>1, <1>3, <1>5, OciHandles
<1>7. /\ Coming(docker, dockerWrites, runtime, c) \in SUBSET Int /\ Runs(oci, ociWrites, c) \in SUBSET Int
      /\ Runs(oci', ociWrites', c) \in SUBSET Int
  BY <1>2, <1>6, ComingIsInt
<1>8. ASSUME c \notin uneven', NEW n \in Coming(docker, dockerWrites, runtime, c) PROVE e.config <= n
  <2>1. CASE n \in Runs(docker, dockerWrites, c)
    BY <1>2, <1>3, <1>7, <1>8, <2>1
  <2>2. CASE runtime[c].state = "prepared" /\ n = runtime[c].starts + 2
    BY <1>3, <2>2
  <2>. QED
    BY <1>2, <1>8, <2>1, <2>2 DEF Coming
<1>9. ASSUME c \notin uneven'
      PROVE  /\ startedMap[c] \in ApiEvents \cup {None}
             /\ startedMap[c] = None =>
                  Coming(docker, dockerWrites, runtime, c) = Runs(oci', ociWrites', c) \cup {e.config}
             /\ startedMap[c] # None => /\ startedMap[c].oci = NoConfig /\ startedMap[c].docker = e.config
                                        /\ startedMap[c].docker # NoConfig
                                        /\ startedMap[c].pid + 1 = e.config
                                        /\ Coming(docker, dockerWrites, runtime, c) = Runs(oci', ociWrites', c)
  <2>1. startedMap[c] \in ApiEvents \cup {None}
    BY <1>2 DEF EventTypeOK
  <2>2. InStep(startedMap[c], Coming(docker, dockerWrites, runtime, c), Runs(oci', ociWrites', c) \cup {e.config})
    BY <1>2, <1>6, <1>9 DEF LifeInv, InTurn
  <2>3. PICK held, coming, after, k :
          held = startedMap[c] /\ coming = Coming(docker, dockerWrites, runtime, c)
          /\ after = Runs(oci', ociWrites', c) /\ k = e.config
    OBVIOUS
  <2>4. /\ held \in ApiEvents \cup {None} /\ coming \in SUBSET Int /\ after \in SUBSET Int /\ k \in Nat
        /\ InStep(held, coming, after \cup {k})
    BY <1>3, <1>7, <2>1, <2>2, <2>3
  <2>5. (\A n \in after : k < n) /\ \A n \in coming : k <= n
    BY <1>2, <1>3, <1>8, <1>9, <2>3
  <2>6. /\ held = None => coming = after \cup {k}
        /\ held # None => /\ held.oci = NoConfig /\ held.docker = k /\ held.docker # NoConfig
                          /\ held.pid + 1 = k /\ coming = after
    BY <2>4, <2>5, OciInStep
  <2>. QED
    BY <2>3, <2>4, <2>6
<1>10. c \notin uneven' =>
         IF startedMap[c] = None
         THEN \A m \in ApiEvents : m.pid = 0 /\ m.docker = NoConfig /\ m.oci = e.config =>
                InStep(m, Coming(docker', dockerWrites', runtime', c), Runs(oci', ociWrites', c))
         ELSE /\ Coming(docker', dockerWrites', runtime', c) = Runs(oci', ociWrites', c)
              /\ \A n \in Runs(oci', ociWrites', c) : e.config < n
              /\ e.config \in Coming(docker, dockerWrites, runtime, c) \cup Runs(oci, ociWrites, c)
              /\ (IF 0 # 0 THEN 0 ELSE startedMap[c].pid) + 1 = e.config
              /\ (IF NoConfig # NoConfig THEN NoConfig ELSE startedMap[c].docker) = e.config
              /\ (IF e.config # NoConfig THEN e.config ELSE startedMap[c].oci) = e.config
              /\ e.config # 1
  <2>1. ASSUME c \notin uneven', startedMap[c] = None, NEW m \in ApiEvents,
               m.pid = 0, m.docker = NoConfig, m.oci = e.config
        PROVE  InStep(m, Coming(docker', dockerWrites', runtime', c), Runs(oci', ociWrites', c))
    <3>1. m # None
      BY NotNone
    <3>2. Coming(docker', dockerWrites', runtime', c) = Runs(oci', ociWrites', c) \cup {e.config}
      BY <1>6, <1>9, <2>1
    <3>3. \A n \in Runs(oci', ociWrites', c) : e.config < n
      BY <1>2, <1>3, <2>1
    <3>4. e.config # NoConfig
      BY <1>3 DEF NoConfig
    <3>. QED
      BY <2>1, <3>1, <3>2, <3>3, <3>4 DEF InStep
  <2>2. ASSUME c \notin uneven', startedMap[c] # None
        PROVE  /\ Coming(docker', dockerWrites', runtime', c) = Runs(oci', ociWrites', c)
               /\ startedMap[c].docker = e.config /\ startedMap[c].pid + 1 = e.config
    BY <1>6, <1>9, <2>2
  <2>3. /\ e.config # NoConfig /\ e.config # 1
        /\ c \notin uneven' => \A n \in Runs(oci', ociWrites', c) : e.config < n
    BY <1>2, <1>3 DEF NoConfig
  <2>. QED
    BY <1>6, <2>1, <2>2, <2>3
<1>11. docker' \in Seq(DockerEvents) /\ NoConfig \in Nat /\ 0 <= runtime[c].starts /\ 0 \in Nat
  BY <1>2, <1>3 DEF EventTypeOK, NoConfig
<1>12. ASSUME NEW i \in DOMAIN docker', docker'[i].id = c, docker'[i].state = "created", c \notin uneven'
       PROVE  startedMap[c] = None
  <2>1. startedMap[c] = None \/ startedMap[c].docker = NoConfig
    BY <1>2, <1>12 DEF LifeInv, CreatedBefore
  <2>. QED
    BY <1>9, <1>12, <2>1
<1>13. EventTypeOK' /\ LifeInv' /\ SentWhole
  BY <1>1, <1>2, <1>3, <1>4, <1>6, <1>10, <1>11, <1>12, StartedLife
<1>. QED
  BY <1>2, <1>13 DEF QueueInv

LEMMA DockerCreated ==
  ASSUME EventTypeOK, QueueInv, LifeInv, HandleDocker, Head(docker).state = "created"
  PROVE  EventTypeOK' /\ QueueInv' /\ LifeInv' /\ SentWhole
<1>1. PICK e, c : e = Head(docker) /\ c = e.id
  OBVIOUS
<1>2. /\ e \in DockerEvents /\ c \in Ids /\ DockerMayTell(e, runtime[c])
      /\ runtime' = runtime /\ oci' = oci /\ dockerWrites' = dockerWrites /\ ociWrites' = ociWrites
      /\ uneven' = uneven \/ uneven' = uneven \cup {c}
      /\ DockerInv' /\ OciInv' /\ docker' \in Seq(DockerEvents)
      /\ \E j \in DOMAIN docker : docker[j] = e
      /\ \A i \in DOMAIN docker' : \E j \in DOMAIN docker : docker'[i] = docker[j]
  BY <1>1, DockerHandled
<1>3. e.state = "created" /\ e.config # NoConfig /\ runtime[c].starts \in Nat
  BY <1>1, <1>2 DEF DockerEvents, EventTypeOK, RuntimeRecords, NoConfig
<1>4. Created(e, e.config)
  BY <1>1, <1>3, DockerEffect DEF LifeInv, QueueInv, DockerInv
<1>5. PICK m \in ApiEvents :
       /\ m.id = c /\ m.type = "CREATED" /\ m.pid = 0 /\ m.docker = e.config
       /\ IF createdMap[c] = None
          THEN createdMap' = [createdMap EXCEPT ![c] = m] /\ events' = events
          ELSE createdMap' = [createdMap EXCEPT ![c] = None] /\ events' = Append(events, m)
  BY <1>1, <1>4 DEF Created
<1>6. /\ startedMap' = startedMap
      /\ createdMap' \in [Ids -> ApiEvents \cup {None}]
      /\ createdMap'[c] = m \/ createdMap'[c] = None
      /\ \A d \in Ids \ {c} : createdMap'[d] = createdMap[d] /\ startedMap'[d] = startedMap[d]
  <2>1. createdMap \in [Ids -> ApiEvents \cup {None}]
    BY DEF EventTypeOK
  <2>. QED
    BY <1>2, <1>4, <1>5, <2>1 DEF Created
<1>7. /\ Handled(c) /\ Runs(oci', ociWrites', c) = Runs(oci, ociWrites, c)
      /\ Coming(docker, dockerWrites, runtime, c) = Coming(docker', dockerWrites', runtime', c)
  <2>1. /\ Handled(c) /\ Runs(oci', ociWrites', c) = Runs(oci, ociWrites, c)
        /\ Coming(docker, dockerWrites, runtime, c) =
             Coming(docker', dockerWrites', runtime', c) \cup IF e.state = "running" THEN {e.config} ELSE {}
    BY <1>1, <1>6, DockerHandles
  <2>. QED
    BY <1>3, <2>1
<1>8. EventTypeOK'
  <2>1. events' \in Seq(ApiEvents)
    BY <1>5, AppendEvent DEF EventTypeOK
  <2>2. uneven' \subseteq Ids
    BY <1>2 DEF EventTypeOK
  <2>. QED
    BY <1>2, <1>6, <2>1, <2>2 DEF EventTypeOK
<1>9. HeldAfter(c)
  <2>1. /\ createdMap'[c] # None => /\ createdMap'[c].id = c /\ createdMap'[c].type = "CREATED"
                                    /\ createdMap'[c].docker # NoConfig /\ createdMap'[c].pid = 0
    BY <1>3, <1>5, <1>6
  <2>2. /\ startedMap'[c] # None => /\ startedMap'[c].id = c /\ startedMap'[c].type = "RUNNING"
                                    /\ startedMap'[c].details = NoDetails
                                    /\ startedMap'[c].pid <= runtime[c].starts
                                    /\ startedMap'[c].docker # NoConfig => startedMap'[c].pid # 0
    BY <1>2, <1>6 DEF LifeInv, HeldForm
  <2>3. c \notin uneven' =>
          InStep(startedMap'[c], Coming(docker', dockerWrites', runtime', c), Runs(oci', ociWrites', c))
    BY <1>2, <1>6, <1>7 DEF LifeInv, InTurn
  <2>4. c \notin uneven' => startedMap'[c] = None \/ startedMap'[c].docker = NoConfig
    BY <1>1, <1>2, <1>3, <1>6 DEF LifeInv, CreatedBefore
  <2>. QED
    BY <2>1, <2>2, <2>3, <2>4 DEF HeldAfter
<1>10. MayBeSent(m, c)
  <2>1. \A i \in DOMAIN events : events[i].id = c =>
          events[i].type = "CREATED" \/ (events[i].type = "RUNNING" /\ c \in uneven')
    BY <1>1, <1>2, <1>3 DEF LifeInv, CreatedBefore
  <2>. QED
    BY <1>3, <1>5, <2>1 DEF MayBeSent
<1>11. LifeInv'
  BY <1>2, <1>5, <1>7, <1>9, <1>10, HandledLife
<1>12. SentWhole
  <2>1. CASE events' = events
    BY <2>1, NothingSent
  <2>2. CASE events' = Append(events, m)
    <3>1. events'[Len(events')] = m
      BY <2>2, AppendEvent
    <3>. QED
      BY <1>5, <3>1 DEF SentWhole
  <2>. QED
    BY <1>5, <2>1, <2>2
<1>. QED
  BY <1>2, <1>8, <1>11, <1>12 DEF QueueInv

LEMMA DockerEnded ==
  ASSUME EventTypeOK, QueueInv, LifeInv, HandleDocker, Head(docker).state \in {"exited", "dead"}
  PROVE  EventTypeOK' /\ QueueInv' /\ LifeInv' /\ SentWhole
<1>1. PICK e, c : e = Head(docker) /\ c = e.id
  OBVIOUS
<1>2. /\ e \in DockerEvents /\ c \in Ids /\ DockerMayTell(e, runtime[c])
      /\ runtime' = runtime /\ oci' = oci /\ dockerWrites' = dockerWrites /\ ociWrites' = ociWrites
      /\ uneven' = uneven \/ uneven' = uneven \cup {c}
      /\ DockerInv' /\ OciInv' /\ docker' \in Seq(DockerEvents)
      /\ \E j \in DOMAIN docker : docker[j] = e
      /\ \A i \in DOMAIN docker' : \E j \in DOMAIN docker : docker'[i] = docker[j]
      /\ \A i \in DOMAIN docker' : docker'[i].id = c =>
              /\ docker'[i].state = "created" => e.state = "created"
              /\ e.state # "dead"
      /\ \A i \in DOMAIN dockerWrites : dockerWrites[i].id = c => e.state # "dead"
  BY <1>1, DockerHandled
<1>3. /\ e.state \in {"exited", "dead"} /\ e.pid \in Nat /\ e.pid <= runtime[c].starts /\ runtime[c].starts \in Nat
      /\ e.state = "exited" => runtime[c].starts # 0
      /\ e.state = "dead" => runtime[c].state = "dead"
  BY <1>1, <1>2 DEF DockerMayTell, DockerEvents, EventTypeOK, RuntimeRecords
<1>4. \/ e.state = "exited" /\ Ended(e, "EXITED", e.pid, e.config)
      \/ e.state = "dead" /\ Ended(e, "DESTROYED", 0, NoConfig)
  BY <1>1, <1>3, DockerEffect DEF LifeInv, QueueInv, DockerInv
<1>5. PICK m \in ApiEvents :
       /\ m.id = c /\ m.pid <= runtime[c].starts
       /\ \/ m.type = "EXITED" /\ e.state = "exited"
          \/ m.type = "DESTROYED" /\ e.state = "dead" /\ m.details = NoDetails
       /\ events' = Append(events, m)
  BY <1>1, <1>3, <1>4 DEF Ended
<1>6. createdMap' = createdMap /\ startedMap' = startedMap
  BY <1>4 DEF Ended
<1>7. /\ Handled(c) /\ Runs(oci', ociWrites', c) = Runs(oci, ociWrites, c)
      /\ Coming(docker, dockerWrites, runtime, c) = Coming(docker', dockerWrites', runtime', c)
  <2>1. /\ Handled(c) /\ Runs(oci', ociWrites', c) = Runs(oci, ociWrites, c)
        /\ Coming(docker, dockerWrites, runtime, c) =
             Coming(docker', dockerWrites', runtime', c) \cup IF e.state = "running" THEN {e.config} ELSE {}
    BY <1>1, <1>6, DockerHandles
  <2>. QED
    BY <1>3, <2>1
<1>8. EventTypeOK'
  <2>1. events' \in Seq(ApiEvents)
    BY <1>5, AppendEvent
  <2>2. uneven' \subseteq Ids
    BY <1>2 DEF EventTypeOK
  <2>. QED
    BY <1>2, <1>6, <2>1, <2>2 DEF EventTypeOK
<1>9. ~ \E i \in DOMAIN docker' : docker'[i].id = c /\ docker'[i].state = "created"
  BY <1>2, <1>3
<1>10. HeldAfter(c)
  <2>1. /\ createdMap'[c] # None => /\ createdMap'[c].id = c /\ createdMap'[c].type = "CREATED"
                                    /\ createdMap'[c].docker # NoConfig /\ createdMap'[c].pid = 0
        /\ startedMap'[c] # None => /\ startedMap'[c].id = c /\ startedMap'[c].type = "RUNNING"
                                    /\ startedMap'[c].details = NoDetails
                                    /\ startedMap'[c].pid <= runtime[c].starts
                                    /\ startedMap'[c].docker # NoConfig => startedMap'[c].pid # 0
    BY <1>2, <1>6 DEF LifeInv, HeldForm
  <2>2. c \notin uneven' =>
          InStep(startedMap'[c], Coming(docker', dockerWrites', runtime', c), Runs(oci', ociWrites', c))
    BY <1>2, <1>6, <1>7 DEF LifeInv, InTurn
  <2>. QED
    BY <1>3, <1>9, <2>1, <2>2 DEF HeldAfter
<1>11. MayBeSent(m, c)
  <2>1. \A i \in DOMAIN events : events[i].id = c => events[i].type # "DESTROYED"
    BY <1>1, <1>2 DEF LifeInv, DestroyedAfter
  <2>2. m.type = "DESTROYED" =>
          /\ runtime[c].state = "dead"
          /\ \A i \in DOMAIN docker' : docker'[i].id # c
          /\ \A i \in DOMAIN dockerWrites' : dockerWrites'[i].id # c
    BY <1>2, <1>3, <1>5
  <2>. QED
    BY <1>2, <1>3, <1>5, <1>9, <2>1, <2>2 DEF MayBeSent
<1>12. LifeInv'
  BY <1>2, <1>5, <1>7, <1>10, <1>11, HandledLife
<1>13. SentWhole
  <2>1. events'[Len(events')] = m
    BY <1>5, AppendEvent
  <2>. QED
    BY <1>5, <2>1 DEF SentWhole
<1>. QED
  BY <1>2, <1>8, <1>12, <1>13 DEF QueueInv

LEMMA OciStops ==
  ASSUME EventTypeOK, QueueInv, LifeInv, HandleOci, Head(oci).state # "running"
  PROVE  EventTypeOK' /\ QueueInv' /\ LifeInv' /\ SentWhole
<1>1. PICK e, c : e = Head(oci) /\ c = e.id
  OBVIOUS
<1>2. /\ e \in OciEvents /\ c \in Ids
      /\ runtime' = runtime /\ docker' = docker /\ dockerWrites' = dockerWrites /\ ociWrites' = ociWrites
      /\ uneven' = uneven \/ uneven' = uneven \cup {c}
      /\ DockerInv' /\ OciInv' /\ oci' \in Seq(OciEvents)
  BY <1>1, OciHandled
<1>3. createdMap' = createdMap /\ startedMap' = startedMap /\ events' = events
  BY <1>1, OciEffect DEF LifeInv, mergeVars
<1>4. /\ Handled(c) /\ Runs(oci, ociWrites, c) = Runs(oci', ociWrites', c)
      /\ Coming(docker', dockerWrites', runtime', c) = Coming(docker, dockerWrites, runtime, c)
  <2>1. /\ Handled(c) /\ Coming(docker', dockerWrites', runtime', c) = Coming(docker, dockerWrites, runtime, c)
        /\ Runs(oci, ociWrites, c) = Runs(oci', ociWrites', c) \cup IF e.state = "running" THEN {e.config} ELSE {}
    BY <1>1, <1>3, OciHandles
  <2>. QED
    BY <1>1, <2>1
<1>5. EventTypeOK'
  BY <1>2, <1>3 DEF EventTypeOK
<1>6. HeldAfter(c)
  <2>1. /\ createdMap'[c] # None => /\ createdMap'[c].id = c /\ createdMap'[c].type = "CREATED"
                                    /\ createdMap'[c].docker # NoConfig /\ createdMap'[c].pid = 0
        /\ startedMap'[c] # None => /\ startedMap'[c].id = c /\ startedMap'[c].type = "RUNNING"
                                    /\ startedMap'[c].details = NoDetails
                                    /\ startedMap'[c].pid <= runtime[c].starts
                                    /\ startedMap'[c].docker # NoConfig => startedMap'[c].pid # 0
    BY <1>2, <1>3 DEF LifeInv, HeldForm
  <2>2. c \notin uneven' =>
          InStep(startedMap'[c], Coming(docker', dockerWrites', runtime', c), Runs(oci', ociWrites', c))
    BY <1>2, <1>3, <1>4 DEF LifeInv, InTurn
  <2>3. ASSUME c \notin uneven', NEW i \in DOMAIN docker', docker'[i].id = c, docker'[i].state = "created"
        PROVE  startedMap'[c] = None \/ startedMap'[c].docker = NoConfig
    BY <1>2, <1>3, <2>3 DEF LifeInv, CreatedBefore
  <2>. QED
    BY <2>1, <2>2, <2>3 DEF HeldAfter
<1>7. LifeInv'
  BY <1>2, <1>3, <1>4, <1>6, HandledLife
<1>. QED
  BY <1>2, <1>3, <1>5, <1>7, NothingSent DEF QueueInv

LEMMA HandlersStep ==
  ASSUME EventTypeOK, QueueInv, LifeInv, HandleDocker \/ HandleOci
  PROVE  EventTypeOK' /\ QueueInv' /\ LifeInv' /\ SentWhole
<1>1. CASE HandleDocker
  <2>1. Head(docker).state \in {"created", "running", "exited", "dead"}
    BY <1>1, DockerHandled DEF DockerEvents
  <2>. QED
    BY <1>1, <2>1, DockerCreated, DockerRuns, DockerEnded
<1>2. CASE HandleOci
  BY <1>2, OciRuns, OciStops
<1>. QED
  BY <1>1, <1>2

\* What is sent is an event with what a subscription may be given.
LEMMA HandlersSend ==
  ASSUME EventTypeOK, QueueInv, LifeInv, HandleDocker \/ HandleOci
  PROVE  /\ UNCHANGED subVars
         /\ \/ events' = events
            \/ \E m \in ApiEvents : /\ events' = Append(events, m)
                                    /\ m.type \in {"CREATED", "EXITED"} => m.docker # NoConfig
<1>0. HeldForm /\ DockerIsBehind
  BY DEF LifeInv, QueueInv, DockerInv
<1>1. CASE HandleDocker
  <2>1. PICK e : e = Head(docker)
    OBVIOUS
  <2>2. /\ e \in DockerEvents /\ UNCHANGED subVars
        /\ e.state = "created" => Created(e, e.config)
        /\ e.state = "running" => Started(e, e.pid, e.config, NoConfig)
        /\ e.state = "exited"  => Ended(e, "EXITED", e.pid, e.config)
        /\ e.state = "dead"    => Ended(e, "DESTROYED", 0, NoConfig)
    BY <1>0, <1>1, <2>1, DockerEffect, DockerHandled
  <2>3. e.state \in {"created", "running", "exited", "dead"} /\ e.config # NoConfig
    BY <2>2 DEF DockerEvents, NoConfig
  <2>4. CASE e.state = "created"
    BY <2>2, <2>3, <2>4 DEF Created
  <2>5. CASE e.state = "running"
    BY <2>2, <2>5 DEF Started
  <2>6. CASE e.state \in {"exited", "dead"}
    BY <2>2, <2>3, <2>6 DEF Ended
  <2>. QED
    BY <2>3, <2>4, <2>5, <2>6
<1>2. CASE HandleOci
  <2>1. PICK e : e = Head(oci)
    OBVIOUS
  <2>2. /\ UNCHANGED subVars
        /\ e.state = "running" => Started(e, 0, NoConfig, e.config)
        /\ e.state # "running" => UNCHANGED mergeVars
    BY <1>0, <1>2, <2>1, OciEffect, OciHandled
  <2>. QED
    BY <2>2 DEF Started, mergeVars
<1>. QED
  BY <1>1, <1>2


-----------------------------------------------------------------------------
(* The subscriptions. *)

\* Their filters clear the configurations of an event, and no more.
SameEvents ==
  /\ events' \in Seq(ApiEvents) /\ DOMAIN events' = DOMAIN events /\ Len(events') = Len(events)
  /\ \A i \in DOMAIN events :
       /\ events'[i].id = events[i].id /\ events'[i].type = events[i].type
       /\ events'[i].pid = events[i].pid /\ events'[i].details = events[i].details
       /\ events'[i].exitCode = events[i].exitCode
       /\ events'[i].docker \in {events[i].docker, NoConfig} /\ events'[i].oci \in {events[i].oci, NoConfig}

LEMMA SharedLife ==
  ASSUME EventTypeOK, QueueInv, LifeInv, UNCHANGED <<runtimeVars, createdMap, startedMap, uneven>>, SameEvents
  PROVE  EventTypeOK' /\ QueueInv' /\ LifeInv' /\ SentWhole
<1>1. /\ runtime' = runtime /\ docker' = docker /\ oci' = oci
      /\ dockerWrites' = dockerWrites /\ ociWrites' = ociWrites
      /\ createdMap' = createdMap /\ startedMap' = startedMap /\ uneven' = uneven
  BY DEF runtimeVars, watchVars
<1>2. EventTypeOK'
  BY <1>1 DEF EventTypeOK, SameEvents
<1>3. DockerInv' /\ OciInv'
  <2>1. DockerIsBehind' /\ DockerInOrder'
    BY <1>1 DEF QueueInv, DockerInv, DockerIsBehind, DockerInOrder, DockerMayTell
  <2>2. OciIsBehind'
    BY <1>1 DEF QueueInv, OciInv, OciIsBehind, OciMayTell, LastPrepared
  <2>3. RunsInOrder(docker', dockerWrites', uneven') /\ RunsInOrder(oci', ociWrites', uneven')
    BY <1>1 DEF QueueInv, DockerInv, OciInv
  <2>. QED
    BY <2>1, <2>2, <2>3 DEF DockerInv, OciInv
<1>4. HeldForm' /\ InTurn'
  BY <1>1 DEF LifeInv, HeldForm, InTurn
<1>5. EventForm'
  BY <1>1 DEF LifeInv, EventForm, SameEvents
<1>6. SentIsPast'
  <2>. SUFFICES ASSUME NEW i \in DOMAIN events, events[i].type = "RUNNING", NEW d, d = events[i].id, d \notin uneven,
                       NEW k \in Coming(docker, dockerWrites, runtime, d) \cup Runs(oci, ociWrites, d)
                PROVE  events[i].pid + 1 < k
    BY <1>1 DEF SentIsPast, SameEvents
  <2>. QED
    BY DEF LifeInv, SentIsPast
<1>7. CreatedBefore' /\ DestroyedAfter'
  BY <1>1 DEF LifeInv, CreatedBefore, DestroyedAfter, SameEvents
<1>8. LifecycleInOrder'
  BY <1>1 DEF LifeInv, LifecycleInOrder, SameEvents
<1>9. SentWhole
  BY DEF EventTypeOK, SameEvents, SentWhole
<1>. QED
  BY <1>2, <1>3, <1>4, <1>5, <1>6, <1>7, <1>8, <1>9 DEF QueueInv, LifeInv

LEMMA SameIfUnchanged ==
  ASSUME EventTypeOK, events' = events
  PROVE  SameEvents
BY DEF EventTypeOK, SameEvents

\* What taking an event does to the events.
LEMMA TakeShares ==
  ASSUME EventTypeOK, SubTypeOK, NEW s \in Subs, Take(s)
  PROVE  /\ SameEvents
         /\ UNCHANGED <<runtimeVars, createdMap, startedMap, uneven, stage, request, since>>
         /\ stage[s] = "open" /\ taken[s] \in Nat /\ taken[s] + 1 \in DOMAIN events
         /\ taken' = [taken EXCEPT ![s] = taken[s] + 1]
         /\ crashed' = (VerdictOf(request[s], events[taken[s] + 1]) = "panic")
         /\ IF Selected(request[s], events[taken[s] + 1])
            THEN LET i == taken[s] + 1
                     r == request[s]
                 IN  /\ ViewOf(r.filters, events[i].type) = "FULL" => events' = events
                     /\ ViewOf(r.filters, events[i].type) # "FULL" =>
                          events'[i].docker = NoConfig /\ events'[i].oci = NoConfig
                     /\ \A j \in DOMAIN events \ {i} : events'[j] = events[j]
                     /\ containerIds' = [containerIds EXCEPT ![s] = Followed(r, containerIds[s], events[i])]
                     /\ \/ out' = out
                        \/ out' = [out EXCEPT ![s] = Append(out[s], i)]
            ELSE UNCHANGED <<events, containerIds, out>>
<1>1. PICK i : i = taken[s] + 1
  OBVIOUS
<1>2. PICK r : r = request[s]
  OBVIOUS
<1>3. /\ events \in Seq(ApiEvents) /\ taken[s] \in Nat
      /\ UNCHANGED <<runtimeVars, createdMap, startedMap, uneven, stage, request, since>>
      /\ stage[s] = "open"
      /\ i <= Len(events)
      /\ taken' = [taken EXCEPT ![s] = i]
      /\ crashed' = (VerdictOf(r, events[i]) = "panic")
  BY <1>1, <1>2 DEF EventTypeOK, SubTypeOK, Take
<1>4. i \in DOMAIN events
  BY <1>1, <1>3
<1>5. IF Selected(r, events[i])
      THEN /\ events' = IF ViewOf(r.filters, events[i].type) = "FULL" THEN events
                        ELSE [events EXCEPT ![i].docker = NoConfig, ![i].oci = NoConfig]
           /\ containerIds' = [containerIds EXCEPT ![s] = Followed(r, containerIds[s], events[i])]
           /\ out' = [out EXCEPT ![s] = IF Passes(r, containerIds[s], events[i]) THEN Append(out[s], i) ELSE out[s]]
      ELSE UNCHANGED <<events, containerIds, out>>
  BY <1>1, <1>2 DEF Take
<1>6. CASE ~Selected(r, events[i])
  <2>1. UNCHANGED <<events, containerIds, out>>
    BY <1>5, <1>6
  <2>2. SameEvents
    BY <2>1, SameIfUnchanged
  <2>. QED
    BY <1>1, <1>2, <1>3, <1>4, <1>6, <2>1, <2>2
<1>7. CASE Selected(r, events[i])
  <2>1. out' = out \/ out' = [out EXCEPT ![s] = Append(out[s], i)]
    BY <1>5, <1>7 DEF SubTypeOK
  <2>2. /\ SameEvents
        /\ ViewOf(r.filters, events[i].type) = "FULL" => events' = events
        /\ ViewOf(r.filters, events[i].type) # "FULL" =>
                          events'[i].docker = NoConfig /\ events'[i].oci = NoConfig
        /\ \A j \in DOMAIN events \ {i} : events'[j] = events[j]
    <3>1. CASE ViewOf(r.filters, events[i].type) = "FULL"
      <4>1. events' = events
        BY <1>5, <1>7, <3>1
      <4>. QED
        BY <3>1, <4>1, SameIfUnchanged
    <3>2. CASE ViewOf(r.filters, events[i].type) # "FULL"
      <4>1. events' = [events EXCEPT ![i].docker = NoConfig, ![i].oci = NoConfig]
        BY <1>5, <1>7, <3>2
      <4>2. PICK m : m = [events[i] EXCEPT !.docker = NoConfig, !.oci = NoConfig]
        OBVIOUS
      <4>3. events[i] \in ApiEvents
        BY <1>3, <1>4
      <4>4. /\ m \in ApiEvents /\ m.docker = NoConfig /\ m.oci = NoConfig
            /\ m.id = events[i].id /\ m.type = events[i].type /\ m.pid = events[i].pid
            /\ m.details = events[i].details /\ m.exitCode = events[i].exitCode
        BY <4>2, <4>3 DEF ApiEvents, NoConfig
      <4>5. events' = [events EXCEPT ![i] = m]
        BY <4>1, <4>2
      <4>6. /\ events' \in Seq(ApiEvents) /\ DOMAIN events' = DOMAIN events /\ Len(events') = Len(events)
            /\ events'[i] = m /\ \A j \in DOMAIN events \ {i} : events'[j] = events[j]
        BY <1>3, <1>4, <4>4, <4>5
      <4>7. SameEvents
        BY <1>4, <4>4, <4>6 DEF SameEvents
      <4>. QED
        BY <3>2, <4>4, <4>6, <4>7
    <3>. QED
      BY <3>1, <3>2
  <2>. QED
    BY <1>1, <1>2, <1>3, <1>4, <1>5, <1>7, <2>1, <2>2
<1>. QED
  BY <1>6, <1>7

\* What the others do leaves the subscriptions as they are, and can only add
\* to the events.
EventsMore ==
  /\ UNCHANGED subVars
  /\ \/ events' = events
     \/ \E m \in ApiEvents : /\ events' = Append(events, m)
                             /\ m.type \in {"CREATED", "EXITED"} => m.docker # NoConfig

LEMMA FullIs ==
  ASSUME NEW filters, NEW type
  PROVE  ViewOf(filters, type) = "FULL" <=> Full(filters, type)
BY DEF ViewOf, Full

LEMMA ViewsMore ==
  ASSUME EventTypeOK, SubTypeOK, ViewsInv, EventsMore
  PROVE  SubTypeOK' /\ ViewsInv'
<1>1. /\ stage' = stage /\ request' = request /\ taken' = taken /\ since' = since /\ out' = out
      /\ containerIds' = containerIds
  BY DEF EventsMore, subVars
<1>2. SubTypeOK'
  BY <1>1 DEF SubTypeOK
<1>3. \A i \in DOMAIN events : i \in DOMAIN events' /\ events'[i] = events[i]
  BY AppendEvent DEF EventsMore
<1>4. ASSUME NEW i \in DOMAIN events', events'[i].type \in {"CREATED", "EXITED"}, events'[i].docker = NoConfig
      PROVE  i \in DOMAIN events /\ events'[i] = events[i]
  <2>1. CASE events' = events
    BY <2>1
  <2>2. ASSUME NEW m \in ApiEvents, events' = Append(events, m),
               m.type \in {"CREATED", "EXITED"} => m.docker # NoConfig
        PROVE  i \in DOMAIN events /\ events'[i] = events[i]
    <3>1. events \in Seq(ApiEvents)
      BY DEF EventTypeOK
    <3>2. i \in DOMAIN events \/ events'[i] = m
      BY <2>2, <3>1
    <3>. QED
      BY <1>3, <1>4, <2>2, <3>2
  <2>. QED
    BY <2>1, <2>2 DEF EventsMore
<1>5. ASSUME NEW i \in DOMAIN events', events'[i].type \in {"CREATED", "EXITED"}, events'[i].docker = NoConfig
      PROVE  \E s \in Subs : stage'[s] # "idle" /\ ~Full(request'[s].filters, events'[i].type)
  BY <1>1, <1>4, <1>5 DEF ViewsInv
<1>6. ASSUME NEW s \in Subs, NEW n \in DOMAIN out'[s]
      PROVE  /\ out'[s][n] \in DOMAIN events'
             /\ ~Full(request'[s].filters, events'[out'[s][n]].type) =>
                  events'[out'[s][n]].docker = NoConfig /\ events'[out'[s][n]].oci = NoConfig
  BY <1>1, <1>3 DEF ViewsInv
<1>. QED
  BY <1>2, <1>5, <1>6 DEF ViewsInv

-----------------------------------------------------------------------------
(* Container filters. *)

LEMMA FollowsIs ==
  FollowsItsContainers <=>
    \A s \in Subs : stage[s] = "open" /\ request[s].restricted /\ ~crashed =>
      containerIds[s] = FollowedUpTo(events, since[s], taken[s], request[s])
BY DEF FollowsItsContainers, FollowedUpTo, Seen

LEMMA FollowsSame ==
  ASSUME NEW evs, NEW more, NEW from \in Nat, NEW to \in Nat, NEW r,
         \A i \in from + 1 .. to :
           /\ more[i].id = evs[i].id /\ more[i].type = evs[i].type /\ more[i].pid = evs[i].pid
           /\ more[i].details = evs[i].details /\ more[i].exitCode = evs[i].exitCode
  PROVE  FollowedUpTo(more, from, to, r) = FollowedUpTo(evs, from, to, r)
<1>1. ASSUME NEW i \in from + 1 .. to
      PROVE  /\ more[i].id = evs[i].id /\ more[i].type = evs[i].type
             /\ Selected(r, more[i]) = Selected(r, evs[i]) /\ Names(r, more[i]) = Names(r, evs[i])
  <2>1. ConvertEvent(more[i]) = ConvertEvent(evs[i])
    BY DEF ConvertEvent
  <2>2. Selected(r, more[i]) = Selected(r, evs[i])
    BY <2>1 DEF Selected, VerdictOf
  <2>3. Names(r, more[i]) = Names(r, evs[i])
    BY DEF Names
  <2>. QED
    BY <2>2, <2>3
<1>2. ASSUME NEW c PROVE Seen(more, from, to, r, c) = Seen(evs, from, to, r, c)
  BY <1>1 DEF Seen
<1>3. \A c : \A i \in Seen(evs, from, to, r, c) : i \in from + 1 .. to
  BY DEF Seen
<1>. QED
  BY <1>1, <1>2, <1>3 DEF FollowedUpTo

LEMMA FollowsNext ==
  ASSUME NEW evs, NEW from \in Nat, NEW to \in Nat, from <= to, NEW r, NEW e, e = evs[to + 1], e.id \in Ids,
         Selected(r, e), r.restricted,
         \A j \in from + 1 .. to : evs[j].id = e.id /\ evs[j].type = "DESTROYED" => e.details = NoDetails
  PROVE  FollowedUpTo(evs, from, to + 1, r) = Followed(r, FollowedUpTo(evs, from, to, r), e)
<1>1. \A i : i \in from + 1 .. to + 1 <=> i \in from + 1 .. to \/ i = to + 1
  OBVIOUS
<1>2. \A c : Seen(evs, from, to + 1, r, c) = Seen(evs, from, to, r, c) \cup IF c = e.id THEN {to + 1} ELSE {}
  BY <1>1 DEF Seen
<1>3. ASSUME NEW j \in Seen(evs, from, to, r, e.id), evs[j].type = "DESTROYED" PROVE ~Names(r, e)
  BY <1>3 DEF Seen, Names
<1>4. ASSUME NEW c, c # e.id
      PROVE  c \in FollowedUpTo(evs, from, to + 1, r) <=> c \in FollowedUpTo(evs, from, to, r)
  BY <1>2, <1>4 DEF FollowedUpTo
<1>5. e.id \in FollowedUpTo(evs, from, to + 1, r) <=>
        /\ e.type # "DESTROYED"
        /\ e.id \in FollowedUpTo(evs, from, to, r) \/ Names(r, e)
  <2>1. Seen(evs, from, to + 1, r, e.id) = Seen(evs, from, to, r, e.id) \cup {to + 1}
    BY <1>2
  <2>2. e.id \in FollowedUpTo(evs, from, to + 1, r) <=>
          /\ e.id \in r.ids \/ (\E i \in Seen(evs, from, to, r, e.id) : Names(r, evs[i])) \/ Names(r, e)
          /\ \A i \in Seen(evs, from, to, r, e.id) : evs[i].type # "DESTROYED"
          /\ e.type # "DESTROYED"
    BY <2>1 DEF FollowedUpTo
  <2>3. e.id \in FollowedUpTo(evs, from, to, r) <=>
          /\ e.id \in r.ids \/ \E i \in Seen(evs, from, to, r, e.id) : Names(r, evs[i])
          /\ \A i \in Seen(evs, from, to, r, e.id) : evs[i].type # "DESTROYED"
    BY DEF FollowedUpTo
  <2>. QED
    BY <1>3, <2>2, <2>3
<1>. QED
  BY <1>4, <1>5 DEF Followed

LEMMA FollowMore ==
  ASSUME EventTypeOK, SubTypeOK, FollowInv, EventsMore
  PROVE  FollowInv'
<1>1. /\ stage' = stage /\ request' = request /\ taken' = taken /\ since' = since
      /\ containerIds' = containerIds /\ crashed' = crashed
  BY DEF EventsMore, subVars
<1>2. /\ Len(events) \in Nat /\ Len(events) <= Len(events') /\ Len(events') \in Nat
      /\ \A i \in 1 .. Len(events) : events'[i] = events[i]
  <2>1. events \in Seq(ApiEvents)
    BY DEF EventTypeOK
  <2>2. CASE events' = events
    BY <2>1, <2>2
  <2>3. ASSUME NEW m \in ApiEvents, events' = Append(events, m)
        PROVE  /\ Len(events) <= Len(events') /\ Len(events') \in Nat
               /\ \A i \in 1 .. Len(events) : events'[i] = events[i]
    BY <2>1, <2>3
  <2>. QED
    BY <2>1, <2>2, <2>3 DEF EventsMore
<1>3. ASSUME NEW s \in Subs PROVE since'[s] <= taken'[s] /\ taken'[s] <= Len(events')
  BY <1>1, <1>2 DEF FollowInv, SubTypeOK
<1>4. ASSUME NEW s \in Subs, stage'[s] = "open", request'[s].restricted, ~crashed'
      PROVE  containerIds'[s] = FollowedUpTo(events', since'[s], taken'[s], request'[s])
  <2>1. containerIds[s] = FollowedUpTo(events, since[s], taken[s], request[s])
    BY <1>1, <1>4, FollowsIs DEF FollowInv
  <2>2. since[s] \in Nat /\ taken[s] \in Nat /\ taken[s] <= Len(events)
    BY DEF FollowInv, SubTypeOK
  <2>3. \A i \in since[s] + 1 .. taken[s] : events'[i] = events[i]
    BY <1>2, <2>2
  <2>4. FollowedUpTo(events', since[s], taken[s], request[s]) = FollowedUpTo(events, since[s], taken[s], request[s])
    <3>1. PICK evs, more, from, to, r :
            evs = events /\ more = events' /\ from = since[s] /\ to = taken[s] /\ r = request[s]
      OBVIOUS
    <3>2. from \in Nat /\ to \in Nat /\ \A i \in from + 1 .. to : more[i] = evs[i]
      BY <2>2, <2>3, <3>1
    <3>3. \A i \in from + 1 .. to :
           /\ more[i].id = evs[i].id /\ more[i].type = evs[i].type /\ more[i].pid = evs[i].pid
           /\ more[i].details = evs[i].details /\ more[i].exitCode = evs[i].exitCode
      BY <3>2
    <3>4. FollowedUpTo(more, from, to, r) = FollowedUpTo(evs, from, to, r)
      BY <3>2, <3>3, FollowsSame
    <3>. QED
      BY <3>1, <3>4
  <2>. QED
    BY <1>1, <2>1, <2>4
<1>5. FollowsItsContainers'
  BY <1>4 DEF FollowsItsContainers, FollowedUpTo, Seen, Selected, VerdictOf, Names
<1>. QED
  BY <1>3, <1>5 DEF FollowInv

-----------------------------------------------------------------------------
(* What the subscriptions do. *)

LEMMA TakeStep ==
  ASSUME EventTypeOK, SubTypeOK, LifeInv, ViewsInv, FollowInv, ~crashed, NEW s \in Subs, Take(s)
  PROVE  SubTypeOK' /\ ViewsInv' /\ FollowInv'
<1>1. PICK i, r, e : i = taken[s] + 1 /\ r = request[s] /\ e = events[i]
  OBVIOUS
<1>2. /\ SameEvents
      /\ UNCHANGED <<runtimeVars, createdMap, startedMap, uneven, stage, request, since>>
      /\ stage[s] = "open" /\ taken[s] \in Nat /\ i \in DOMAIN events
      /\ taken' = [taken EXCEPT ![s] = i]
      /\ crashed' = (VerdictOf(r, e) = "panic")
      /\ IF Selected(r, e)
         THEN /\ ViewOf(r.filters, e.type) = "FULL" => events' = events
              /\ ViewOf(r.filters, e.type) # "FULL" => events'[i].docker = NoConfig /\ events'[i].oci = NoConfig
              /\ \A j \in DOMAIN events \ {i} : events'[j] = events[j]
              /\ containerIds' = [containerIds EXCEPT ![s] = Followed(r, containerIds[s], e)]
              /\ \/ out' = out
                 \/ out' = [out EXCEPT ![s] = Append(out[s], i)]
         ELSE UNCHANGED <<events, containerIds, out>>
  BY <1>1, TakeShares
<1>3. /\ DOMAIN events = 1 .. Len(events) /\ Len(events) \in Nat
      /\ i \in Nat /\ i <= Len(events) /\ \A j \in DOMAIN events : events[j] \in ApiEvents
  BY <1>2, EventElements
<1>4. SubTypeOK'
  <2>1. taken' \in [Subs -> Nat]
    BY <1>2, <1>3 DEF SubTypeOK
  <2>2. out' \in [Subs -> Seq(Nat)]
    <3>1. out \in [Subs -> Seq(Nat)]
      BY DEF SubTypeOK
    <3>2. Append(out[s], i) \in Seq(Nat)
      BY <1>3, <3>1
    <3>. QED
      BY <1>2, <3>1, <3>2
  <2>3. containerIds' = [x \in Subs |-> containerIds'[x]]
    <3>1. containerIds = [x \in Subs |-> containerIds[x]]
      BY DEF SubTypeOK
    <3>2. CASE containerIds' = containerIds
      BY <3>1, <3>2
    <3>3. ASSUME NEW ids, containerIds' = [containerIds EXCEPT ![s] = ids]
          PROVE  containerIds' = [x \in Subs |-> containerIds'[x]]
      BY <3>1, <3>3
    <3>. QED
      BY <1>2, <3>2, <3>3
  <2>. QED
    BY <1>2, <2>1, <2>2, <2>3 DEF SubTypeOK
<1>5. ViewsInv'
  <2>1. ViewOf(r.filters, e.type) = "FULL" <=> Full(r.filters, e.type)
    BY FullIs
  <2>2. ASSUME NEW j \in DOMAIN events', events'[j].type \in {"CREATED", "EXITED"}, events'[j].docker = NoConfig
        PROVE  \E x \in Subs : stage'[x] # "idle" /\ ~Full(request'[x].filters, events'[j].type)
    <3>1. j \in DOMAIN events /\ events'[j].type = events[j].type
      BY <1>2 DEF SameEvents
    <3>2. CASE events[j].docker = NoConfig
      BY <1>2, <2>2, <3>1, <3>2 DEF ViewsInv
    <3>3. CASE events[j].docker # NoConfig
      <4>1. j = i /\ ~Full(r.filters, e.type)
        BY <1>2, <2>1, <2>2, <3>1, <3>3
      <4>. QED
        BY <1>1, <1>2, <3>1, <4>1
    <3>. QED
      BY <3>2, <3>3
  <2>3. ASSUME NEW x \in Subs, NEW n \in DOMAIN out'[x]
        PROVE  /\ out'[x][n] \in DOMAIN events'
               /\ ~Full(request'[x].filters, events'[out'[x][n]].type) =>
                    events'[out'[x][n]].docker = NoConfig /\ events'[out'[x][n]].oci = NoConfig
    <3>1. CASE n \in DOMAIN out[x] /\ out'[x][n] = out[x][n]
      <4>1. PICK j : j = out[x][n]
        OBVIOUS
      <4>2. j \in DOMAIN events /\ (~Full(request[x].filters, events[j].type) =>
                                       events[j].docker = NoConfig /\ events[j].oci = NoConfig)
        BY <3>1, <4>1 DEF ViewsInv
      <4>. QED
        BY <1>2, <3>1, <4>1, <4>2 DEF SameEvents
    <3>2. CASE x = s /\ out'[x][n] = i /\ Selected(r, e)
      <4>1. i \in DOMAIN events' /\ events'[i].type = e.type
        BY <1>1, <1>2 DEF SameEvents
      <4>. QED
        BY <1>1, <1>2, <2>1, <3>2, <4>1
    <3>3. (n \in DOMAIN out[x] /\ out'[x][n] = out[x][n]) \/ (x = s /\ out'[x][n] = i /\ Selected(r, e))
      <4>1. CASE out' = out
        BY <4>1
      <4>2. CASE Selected(r, e) /\ out' = [out EXCEPT ![s] = Append(out[s], i)]
        <5>1. out \in [Subs -> Seq(Nat)]
          BY DEF SubTypeOK
        <5>2. CASE x # s
          BY <4>2, <5>1, <5>2
        <5>3. CASE x = s
          <6>1. out'[x] = Append(out[s], i) /\ out[s] \in Seq(Nat)
            BY <4>2, <5>1, <5>3
          <6>. QED
            BY <2>3, <4>2, <5>3, <6>1
        <5>. QED
          BY <5>2, <5>3
      <4>. QED
        BY <1>2, <4>1, <4>2
    <3>. QED
      BY <3>1, <3>2, <3>3
  <2>. QED
    BY <2>2, <2>3 DEF ViewsInv
<1>6. ASSUME NEW x \in Subs PROVE since'[x] <= taken'[x] /\ taken'[x] <= Len(events')
  BY <1>1, <1>2, <1>3 DEF FollowInv, SubTypeOK, SameEvents
<1>7. ASSUME NEW x \in Subs, stage'[x] = "open", request'[x].restricted, ~crashed'
      PROVE  containerIds'[x] = FollowedUpTo(events', since'[x], taken'[x], request'[x])
  <2>1. containerIds[x] = FollowedUpTo(events, since[x], taken[x], request[x])
    BY <1>2, <1>7, FollowsIs DEF FollowInv
  <2>2. PICK evs, more, from, to, q :
          evs = events /\ more = events' /\ from = since[x] /\ to = taken[x] /\ q = request[x]
    OBVIOUS
  <2>3. /\ from \in Nat /\ to \in Nat /\ from <= to /\ to <= Len(events)
        /\ \A j \in DOMAIN events :
             /\ more[j].id = evs[j].id /\ more[j].type = evs[j].type /\ more[j].pid = evs[j].pid
             /\ more[j].details = evs[j].details /\ more[j].exitCode = evs[j].exitCode
    BY <1>2, <2>2 DEF FollowInv, SubTypeOK, SameEvents
  <2>4. CASE x # s
    <3>1. FollowedUpTo(more, from, to, q) = FollowedUpTo(evs, from, to, q)
      <4>1. \A j \in from + 1 .. to : j \in DOMAIN events
        BY <1>3, <2>3
      <4>2. \A j \in from + 1 .. to :
             /\ more[j].id = evs[j].id /\ more[j].type = evs[j].type /\ more[j].pid = evs[j].pid
             /\ more[j].details = evs[j].details /\ more[j].exitCode = evs[j].exitCode
        BY <2>3, <4>1
      <4>. QED
        BY <2>3, <4>2, FollowsSame
    <3>2. taken'[x] = to /\ containerIds'[x] = containerIds[x]
      BY <1>2, <2>2, <2>4 DEF SubTypeOK
    <3>. QED
      BY <1>2, <2>1, <2>2, <3>1, <3>2
  <2>5. CASE x = s
    <3>1. /\ i = to + 1 /\ q = r /\ e = evs[to + 1] /\ e.id \in Ids /\ r.restricted
          /\ i \in DOMAIN events /\ to + 1 \in Nat
      BY <1>1, <1>2, <1>7, <2>2, <2>3, <2>5, EventElements
    <3>2. taken'[x] = to + 1
      BY <1>2, <2>5, <3>1 DEF SubTypeOK
    <3>3. FollowedUpTo(more, from, to + 1, q) = FollowedUpTo(evs, from, to + 1, q)
      <4>1. \A j \in from + 1 .. to + 1 : j \in DOMAIN events
        BY <1>3, <2>3, <3>1
      <4>2. \A j \in from + 1 .. to + 1 :
             /\ more[j].id = evs[j].id /\ more[j].type = evs[j].type /\ more[j].pid = evs[j].pid
             /\ more[j].details = evs[j].details /\ more[j].exitCode = evs[j].exitCode
        BY <2>3, <4>1
      <4>. QED
        BY <2>3, <3>1, <4>2, FollowsSame
    <3>4. CASE Selected(r, e)
      <4>1. ASSUME NEW j \in from + 1 .. to, evs[j].id = e.id, evs[j].type = "DESTROYED"
            PROVE  e.details = NoDetails
        <5>1. j \in DOMAIN events /\ j < i /\ i \in DOMAIN events
          BY <1>3, <2>3, <3>1
        <5>2. e.type = "RUNNING"
          BY <1>1, <2>2, <4>1, <5>1 DEF LifeInv, LifecycleInOrder
        <5>3. EventForm /\ e = events[i]
          BY <1>1 DEF LifeInv
        <5>. QED
          BY <5>1, <5>2, <5>3 DEF EventForm
      <4>2. FollowedUpTo(evs, from, to + 1, r) = Followed(r, FollowedUpTo(evs, from, to, r), e)
        BY <2>3, <3>1, <3>4, <4>1, FollowsNext
      <4>3. containerIds'[x] = Followed(r, containerIds[s], e)
        BY <1>2, <2>5, <3>4 DEF SubTypeOK
      <4>. QED
        BY <1>2, <2>1, <2>2, <2>5, <3>1, <3>2, <3>3, <4>2, <4>3
    <3>5. CASE ~Selected(r, e)
      <4>1. \A c : Seen(evs, from, to + 1, r, c) = Seen(evs, from, to, r, c)
        <5>1. \A j : j \in from + 1 .. to + 1 <=> j \in from + 1 .. to \/ j = to + 1
          BY <2>3
        <5>. QED
          BY <3>1, <3>5, <5>1 DEF Seen
      <4>2. FollowedUpTo(evs, from, to + 1, r) = FollowedUpTo(evs, from, to, r)
        BY <4>1 DEF FollowedUpTo
      <4>3. containerIds'[x] = containerIds[x]
        BY <1>2, <3>5
      <4>. QED
        BY <1>2, <2>1, <2>2, <3>1, <3>2, <3>3, <4>2, <4>3
    <3>. QED
      BY <3>4, <3>5
  <2>. QED
    BY <2>4, <2>5
<1>8. FollowsItsContainers'
  BY <1>7 DEF FollowsItsContainers, FollowedUpTo, Seen, Selected, VerdictOf, Names
<1>. QED
  BY <1>4, <1>5, <1>6, <1>8 DEF FollowInv

\* A step that leaves the events alone, and what the subscriptions have
\* filtered, but for one.
LEMMA OthersFollow ==
  ASSUME SubTypeOK, FollowInv, ~crashed, NEW s \in Subs,
         request' = request, events' = events, EventTypeOK,
         \A x \in Subs \ {s} : /\ stage'[x] = stage[x] /\ taken'[x] = taken[x] /\ since'[x] = since[x]
                              /\ containerIds'[x] = containerIds[x],
         since'[s] <= taken'[s] /\ taken'[s] <= Len(events),
         stage'[s] = "open" /\ request[s].restricted /\ ~crashed' =>
           containerIds'[s] = FollowedUpTo(events, since'[s], taken'[s], request[s])
  PROVE  FollowInv'
<1>1. ASSUME NEW x \in Subs PROVE since'[x] <= taken'[x] /\ taken'[x] <= Len(events')
  BY DEF FollowInv
<1>2. ASSUME NEW x \in Subs, stage'[x] = "open", request'[x].restricted, ~crashed'
      PROVE  containerIds'[x] = FollowedUpTo(events', since'[x], taken'[x], request'[x])
  <2>1. CASE x = s
    BY <1>2, <2>1
  <2>2. CASE x # s
    <3>1. /\ stage[x] = "open" /\ request[x].restricted
          /\ taken'[x] = taken[x] /\ since'[x] = since[x] /\ containerIds'[x] = containerIds[x]
      BY <1>2, <2>2
    <3>2. containerIds[x] = FollowedUpTo(events, since[x], taken[x], request[x])
      BY <3>1, FollowsIs DEF FollowInv
    <3>. QED
      BY <3>1, <3>2
  <2>. QED
    BY <2>1, <2>2
<1>3. FollowsItsContainers'
  BY <1>2 DEF FollowsItsContainers, FollowedUpTo, Seen, Selected, VerdictOf, Names
<1>. QED
  BY <1>1, <1>3 DEF FollowInv

LEMMA SubscribeStep ==
  ASSUME EventTypeOK, SubTypeOK, ViewsInv, FollowInv, ~crashed, NEW s \in Subs, Subscribe(s)
  PROVE  SubTypeOK' /\ ViewsInv' /\ FollowInv'
<1>1. /\ stage[s] = "idle" /\ events' = events /\ request' = request /\ out' = out
      /\ \/ /\ stage' = [stage EXCEPT ![s] = "nil"] /\ crashed' = TRUE
            /\ taken' = taken /\ since' = since /\ containerIds' = containerIds
         \/ /\ stage' = [stage EXCEPT ![s] = "open"] /\ crashed' = crashed
            /\ taken' = [taken EXCEPT ![s] = Len(events)] /\ since' = [since EXCEPT ![s] = Len(events)]
            /\ containerIds' = [containerIds EXCEPT ![s] = request[s].ids]
  BY DEF Subscribe, NewEventStream, mergeVars
<1>2. Len(events) \in Nat
  BY EventElements
<1>3. SubTypeOK'
  <2>1. /\ stage' \in [Subs -> {"idle", "open", "closed", "nil"}]
        /\ taken' \in [Subs -> Nat] /\ since' \in [Subs -> Nat] /\ out' \in [Subs -> Seq(Nat)]
    <3>1. stage' \in [Subs -> {"idle", "open", "closed", "nil"}] /\ out' \in [Subs -> Seq(Nat)]
      BY <1>1 DEF SubTypeOK
    <3>2. taken' \in [Subs -> Nat] /\ since' \in [Subs -> Nat]
      BY <1>1, <1>2 DEF SubTypeOK
    <3>. QED
      BY <3>1, <3>2
  <2>2. containerIds' = [x \in Subs |-> containerIds'[x]]
    <3>1. containerIds = [x \in Subs |-> containerIds[x]]
      BY DEF SubTypeOK
    <3>2. CASE containerIds' = containerIds
      BY <3>1, <3>2
    <3>3. ASSUME NEW ids, containerIds' = [containerIds EXCEPT ![s] = ids]
          PROVE  containerIds' = [x \in Subs |-> containerIds'[x]]
      BY <3>1, <3>3
    <3>. QED
      BY <1>1, <3>2, <3>3
  <2>. QED
    BY <2>1, <2>2 DEF SubTypeOK
<1>4. \A x \in Subs \ {s} : /\ stage'[x] = stage[x] /\ taken'[x] = taken[x] /\ since'[x] = since[x]
                            /\ containerIds'[x] = containerIds[x]
  BY <1>1 DEF SubTypeOK
<1>5. stage'[s] # "idle"
  BY <1>1 DEF SubTypeOK
<1>6. ViewsInv'
  <2>1. \A x \in Subs : stage[x] # "idle" => stage'[x] # "idle"
    BY <1>4, <1>5
  <2>. QED
    BY <1>1, <2>1 DEF ViewsInv
<1>7. since'[s] <= taken'[s] /\ taken'[s] <= Len(events)
  BY <1>1, <1>2 DEF FollowInv, SubTypeOK
<1>8. ASSUME ~crashed'
      PROVE  containerIds'[s] = FollowedUpTo(events, since'[s], taken'[s], request[s])
  <2>1. taken'[s] = Len(events) /\ since'[s] = Len(events)
    BY <1>1, <1>8 DEF SubTypeOK
  <2>2. containerIds'[s] = request[s].ids
    <3>1. containerIds = [x \in Subs |-> containerIds[x]]
      BY DEF SubTypeOK
    <3>2. containerIds' = [containerIds EXCEPT ![s] = request[s].ids]
      BY <1>1, <1>8
    <3>. QED
      BY <3>1, <3>2
  <2>3. \A c : Seen(events, since'[s], taken'[s], request[s], c) = {}
    BY <1>2, <2>1 DEF Seen
  <2>. QED
    BY <2>2, <2>3 DEF FollowedUpTo
<1>9. FollowInv'
  BY <1>1, <1>4, <1>7, <1>8, OthersFollow
<1>. QED
  BY <1>3, <1>6, <1>9

LEMMA CancelStep ==
  ASSUME EventTypeOK, SubTypeOK, ViewsInv, FollowInv, ~crashed, NEW s \in Subs, Cancel(s)
  PROVE  SubTypeOK' /\ ViewsInv' /\ FollowInv'
<1>1. /\ stage' = [stage EXCEPT ![s] = "closed"] /\ taken' = [taken EXCEPT ![s] = 0]
      /\ since' = [since EXCEPT ![s] = 0] /\ containerIds' = [containerIds EXCEPT ![s] = {}]
      /\ out' = [out EXCEPT ![s] = <<>>]
      /\ events' = events /\ request' = request /\ crashed' = crashed
  BY DEF Cancel, mergeVars
<1>2. SubTypeOK'
  <2>1. /\ stage' \in [Subs -> {"idle", "open", "closed", "nil"}]
        /\ taken' \in [Subs -> Nat] /\ since' \in [Subs -> Nat] /\ out' \in [Subs -> Seq(Nat)]
    BY <1>1 DEF SubTypeOK
  <2>2. containerIds' = [x \in Subs |-> containerIds'[x]]
    BY <1>1 DEF SubTypeOK
  <2>. QED
    BY <2>1, <2>2 DEF SubTypeOK
<1>3. /\ \A x \in Subs \ {s} : /\ stage'[x] = stage[x] /\ taken'[x] = taken[x] /\ since'[x] = since[x]
                               /\ containerIds'[x] = containerIds[x] /\ out'[x] = out[x]
      /\ stage'[s] = "closed" /\ taken'[s] = 0 /\ since'[s] = 0 /\ out'[s] = <<>>
  <2>1. containerIds = [x \in Subs |-> containerIds[x]]
    BY DEF SubTypeOK
  <2>2. \A x \in Subs \ {s} : containerIds'[x] = containerIds[x]
    BY <1>1, <2>1
  <2>. QED
    BY <1>1, <2>2 DEF SubTypeOK
<1>4. ViewsInv'
  <2>1. \A x \in Subs : stage[x] # "idle" => stage'[x] # "idle"
    BY <1>3
  <2>2. \A x \in Subs : \A n \in DOMAIN out'[x] : n \in DOMAIN out[x] /\ out'[x][n] = out[x][n]
    BY <1>3
  <2>. QED
    BY <1>1, <2>1, <2>2 DEF ViewsInv
<1>5. FollowInv'
  <2>1. Len(events) \in Nat
    BY EventElements
  <2>. QED
    BY <1>1, <1>3, <2>1, OthersFollow
<1>. QED
  BY <1>2, <1>4, <1>5

LEMMA SendStep ==
  ASSUME EventTypeOK, SubTypeOK, ViewsInv, FollowInv, ~crashed, NEW s \in Subs, Send(s)
  PROVE  SubTypeOK' /\ ViewsInv' /\ FollowInv'
<1>1. /\ out[s] # <<>> /\ out' = [out EXCEPT ![s] = Tail(out[s])]
      /\ events' = events /\ request' = request /\ crashed' = crashed /\ stage' = stage
      /\ taken' = taken /\ since' = since /\ containerIds' = containerIds
  BY DEF Send, mergeVars
<1>2. out \in [Subs -> Seq(Nat)]
  BY DEF SubTypeOK
<1>3. SubTypeOK'
  <2>1. Tail(out[s]) \in Seq(Nat)
    BY <1>1, <1>2
  <2>. QED
    BY <1>1, <1>2, <2>1 DEF SubTypeOK
<1>4. ViewsInv'
  <2>1. ASSUME NEW x \in Subs, NEW n \in DOMAIN out'[x]
        PROVE  \E k \in DOMAIN out[x] : out'[x][n] = out[x][k]
    <3>1. CASE x # s
      BY <1>1, <1>2, <2>1, <3>1
    <3>2. CASE x = s
      <4>1. out'[x] = Tail(out[s]) /\ out[s] \in Seq(Nat)
        BY <1>1, <1>2, <3>2
      <4>2. PICK q \in Seq(Nat) : q = out[s]
        BY <4>1
      <4>3. /\ DOMAIN Tail(q) = 1 .. Len(q) - 1 /\ DOMAIN q = 1 .. Len(q) /\ Len(q) \in Nat \ {0}
            /\ \A i \in DOMAIN Tail(q) : Tail(q)[i] = q[i + 1]
        BY <1>1, <4>2, TailOf
      <4>4. n + 1 \in DOMAIN q /\ Tail(q)[n] = q[n + 1]
        BY <2>1, <4>1, <4>2, <4>3
      <4>. QED
        BY <3>2, <4>1, <4>2, <4>4
    <3>. QED
      BY <3>1, <3>2
  <2>2. ASSUME NEW x \in Subs, NEW n \in DOMAIN out'[x]
        PROVE  /\ out'[x][n] \in DOMAIN events'
               /\ ~Full(request'[x].filters, events'[out'[x][n]].type) =>
                    events'[out'[x][n]].docker = NoConfig /\ events'[out'[x][n]].oci = NoConfig
    <3>1. PICK k \in DOMAIN out[x] : out'[x][n] = out[x][k]
      BY <2>1
    <3>. QED
      BY <1>1, <3>1 DEF ViewsInv
  <2>. QED
    BY <1>1, <2>2 DEF ViewsInv
<1>5. FollowInv'
  BY <1>1, OthersFollow, FollowsIs DEF FollowInv
<1>. QED
  BY <1>3, <1>4, <1>5

-----------------------------------------------------------------------------
(* The specification. *)

LEMMA ContainersInit == ContainerInit => ContainersInv
<1>. SUFFICES ASSUME ContainerInit PROVE ContainersInv
  OBVIOUS
<1>. USE DEF ContainerInit
<1>1. EventTypeOK
  BY DEF EventTypeOK, RuntimeStates, RuntimeRecords
<1>2. SubTypeOK
  BY DEF SubTypeOK
<1>3. QueueInv
  BY DEF QueueInv, DockerInv, OciInv, DockerIsBehind, DockerInOrder, OciIsBehind, RunsInOrder
<1>4. LifeInv
  <2>1. HeldForm /\ EventForm
    BY DEF HeldForm, EventForm
  <2>2. InTurn
    BY DEF InTurn, InStep, Coming, Runs
  <2>3. SentIsPast /\ CreatedBefore /\ DestroyedAfter /\ LifecycleInOrder
    BY DEF SentIsPast, CreatedBefore, DestroyedAfter, LifecycleInOrder
  <2>. QED
    BY <2>1, <2>2, <2>3 DEF LifeInv
<1>5. ViewsInv
  BY DEF ViewsInv
<1>6. FollowInv
  BY DEF FollowInv, FollowsItsContainers
<1>. QED
  BY <1>1, <1>2, <1>3, <1>4, <1>5, <1>6 DEF ContainersInv

\* Neither the runtimes nor the watchers send events.
LEMMA SendsNothing ==
  ASSUME Runtimes \/ ReadDocker \/ ReadOci
  PROVE  UNCHANGED subVars /\ events' = events
<1>1. CASE Runtimes
  BY <1>1 DEF Runtimes, Create, Update, Prepare, Start, Exit, Destroy, Writes, mergeVars
<1>2. CASE ReadDocker \/ ReadOci
  BY <1>2 DEF ReadDocker, ReadOci, Reported, mergeVars
<1>. QED
  BY <1>1, <1>2

LEMMA ContainersStep ==
  ASSUME ContainersInv, [ContainerNext]_containerVars
  PROVE  ContainersInv' /\ SentWhole
<1>. USE DEF ContainersInv
<1>1. CASE Runtimes \/ ReadDocker \/ ReadOci
  <2>1. EventTypeOK' /\ QueueInv' /\ LifeInv'
    BY <1>1, RuntimesStep, ReadDockerStep, ReadOciStep
  <2>2. EventsMore /\ events' = events
    BY <1>1, SendsNothing DEF EventsMore
  <2>. QED
    BY <2>1, <2>2, ViewsMore, FollowMore, NothingSent
<1>2. CASE HandleDocker \/ HandleOci
  <2>1. EventTypeOK' /\ QueueInv' /\ LifeInv' /\ SentWhole
    BY <1>2, HandlersStep
  <2>2. EventsMore
    BY <1>2, HandlersSend DEF EventsMore
  <2>. QED
    BY <2>1, <2>2, ViewsMore, FollowMore
<1>3. ASSUME ~crashed, NEW s \in Subs, Subscribe(s) \/ Take(s) \/ Send(s) \/ Cancel(s)
      PROVE  ContainersInv' /\ SentWhole
  <2>1. SameEvents /\ UNCHANGED <<runtimeVars, createdMap, startedMap, uneven>>
    <3>1. CASE Take(s)
      BY <3>1, TakeShares
    <3>2. CASE Subscribe(s) \/ Send(s) \/ Cancel(s)
      BY <3>2, SameIfUnchanged DEF Subscribe, Send, Cancel, mergeVars
    <3>. QED
      BY <1>3, <3>1, <3>2
  <2>2. EventTypeOK' /\ QueueInv' /\ LifeInv' /\ SentWhole
    BY <2>1, SharedLife
  <2>3. SubTypeOK' /\ ViewsInv' /\ FollowInv'
    BY <1>3, TakeStep, SubscribeStep, SendStep, CancelStep
  <2>. QED
    BY <2>2, <2>3
<1>4. CASE UNCHANGED containerVars
  <2>1. /\ SameEvents /\ UNCHANGED <<runtimeVars, createdMap, startedMap, uneven>>
        /\ events' = events /\ UNCHANGED subVars
    BY <1>4, SameIfUnchanged DEF containerVars, mergeVars
  <2>2. EventTypeOK' /\ QueueInv' /\ LifeInv' /\ SentWhole
    BY <2>1, SharedLife
  <2>3. EventsMore
    BY <2>1 DEF EventsMore
  <2>. QED
    BY <2>2, <2>3, ViewsMore, FollowMore
<1>. QED
  BY <1>1, <1>2, <1>3, <1>4 DEF ContainerNext

\* In every behaviour, what the watchers report of a container is behind it,
\* its creation first and its removal last.  And as long as each start is
\* noticed and its files are read while they are of that start (docker.go,
\* oci.go: onInotifyEvent reads them when the event is handled), and neither
\* watcher gets ahead, the starts are reported in order, and what
\* translateContainerEvents holds back for a container is the earliest start
\* that one watcher has handed over and the other has not.
THEOREM ContainersInvariance == ContainerSpec => []ContainersInv
BY ContainersInit, ContainersStep, PTL DEF ContainerSpec

\* LifecycleInOrder: whatever the order in which the two watchers' events are
\* joined, a container's creation is told before anything else, and nothing
\* but a late RUNNING event after its removal (container.go:
\* translateContainerEvents).
THEOREM LifecycleInvariance == ContainerSpec => []LifecycleInOrder
<1>1. ContainersInv => LifecycleInOrder
  BY DEF ContainersInv, LifeInv
<1>. QED
  BY <1>1, ContainersInvariance, PTL

\* FollowsItsContainers: a container filter's set is what the events that the
\* subscription has filtered make of the ids that were asked for
\* (container_filter.go: FilterFunc, DoFunc).
THEOREM FollowInvariance == ContainerSpec => []FollowsItsContainers
<1>1. ContainersInv => FollowsItsContainers
  BY DEF ContainersInv, FollowInv
<1>. QED
  BY <1>1, ContainersInvariance, PTL

\* RunningIsComplete: a RUNNING event that is sent has the process and both
\* configurations of one start, and no other event has it, unless a start of
\* the container went unnoticed, a file was read when it was another start's
\* than the event's or no start's, or one watcher got a start ahead
\* (container.go: translateContainerEvents; docker.go:177).
THEOREM RunningIsWhole == ContainerSpec => RunningIsComplete
<1>1. ContainersInv /\ [ContainerNext]_containerVars =>
        [Len(events') > Len(events) =>
           LET e == events'[Len(events')]
           IN  e.type = "RUNNING" /\ e.id \notin uneven' =>
                 /\ e.pid # 0 /\ e.docker = e.pid + 1 /\ e.oci = e.pid + 1
                 /\ \A i \in DOMAIN events : [id |-> e.id, type |-> "RUNNING", pid |-> e.pid] #
                                             [id |-> events[i].id, type |-> events[i].type,
                                              pid |-> events[i].pid]]_containerVars
  BY ContainersStep DEF SentWhole
<1>. QED
  BY <1>1, ContainersInvariance, PTL DEF ContainerSpec, RunningIsComplete

\* ViewsAreGiven: an event is sent with the configurations if the subscription
\* has asked for them, unless one that shares it has not (container.go: the
\* view of NewEventStream's filters).
THEOREM ViewsInvariance == ContainerSpec => ViewsAreGiven
<1>1. ContainersInv /\ ContainersInv' =>
        [\A s \in Subs : stage'[s] = "open" /\ Len(out'[s]) < Len(out[s]) =>
           LET full(t, r) == \E i \in DOMAIN r.filters : r.filters[i].type = t /\ r.filters[i].view = "FULL"
               e == events[Head(out[s])]
           IN  IF full(e.type, request[s])
               THEN e.type \in {"CREATED", "EXITED"} /\ e.docker = NoConfig =>
                      \E s2 \in Subs \ {s} : stage[s2] # "idle" /\ ~full(e.type, request[s2])
               ELSE e.docker = NoConfig /\ e.oci = NoConfig]_containerVars
  <2>. SUFFICES ASSUME ContainersInv, ContainersInv', NEW s \in Subs, Len(out'[s]) < Len(out[s]),
                       NEW e, e = events[Head(out[s])]
                PROVE  IF Full(request[s].filters, e.type)
                       THEN e.type \in {"CREATED", "EXITED"} /\ e.docker = NoConfig =>
                              \E s2 \in Subs \ {s} : stage[s2] # "idle" /\ ~Full(request[s2].filters, e.type)
                       ELSE e.docker = NoConfig /\ e.oci = NoConfig
    BY DEF Full
  <2>1. out[s] \in Seq(Nat) /\ out'[s] \in Seq(Nat)
    BY DEF ContainersInv, SubTypeOK
  <2>2. 1 \in DOMAIN out[s] /\ Head(out[s]) = out[s][1]
    BY <2>1
  <2>3. out[s][1] \in DOMAIN events /\ (~Full(request[s].filters, events[out[s][1]].type) =>
                                             events[out[s][1]].docker = NoConfig /\ events[out[s][1]].oci = NoConfig)
    BY <2>2 DEF ContainersInv, ViewsInv
  <2>4. e.type \in {"CREATED", "EXITED"} /\ e.docker = NoConfig =>
          \E s2 \in Subs : stage[s2] # "idle" /\ ~Full(request[s2].filters, e.type)
    BY <2>2, <2>3 DEF ContainersInv, ViewsInv
  <2>. QED
    BY <2>2, <2>3, <2>4
<1>. QED
  BY <1>1, ContainersInvariance, PTL DEF ContainerSpec, ViewsAreGiven

-----------------------------------------------------------------------------
(* Crashes: what they are due to. *)

\* The filter of the subscription has panicked on an event it has taken.
HasPanicked(s) ==
  stage[s] = "open" /\ \E i \in since[s] + 1 .. taken[s] : VerdictOf(request[s], events[i]) = "panic"

CrashIsRequested ==
  /\ \A s \in Subs : stage[s] \in {"nil", "open"} =>
       (stage[s] = "nil" <=> TypesLetThrough(request[s].filters) = {})
  /\ crashed <=> \E s \in Subs : stage[s] = "nil" \/ HasPanicked(s)

LEMMA VerdictStays ==
  ASSUME NEW r, NEW e, NEW f, e.type = f.type, e.details = f.details, e.pid = f.pid, e.exitCode = f.exitCode
  PROVE  VerdictOf(r, e) = VerdictOf(r, f)
<1>1. ConvertEvent(e) = ConvertEvent(f)
  BY DEF ConvertEvent
<1>. QED
  BY <1>1 DEF VerdictOf

\* Events that come, and configurations that are cleared, change no verdict.
LEMMA PanicsStay ==
  ASSUME SubTypeOK, FollowInv, EventTypeOK, NEW s \in Subs,
         stage'[s] = stage[s], request' = request, since'[s] = since[s], taken'[s] = taken[s],
         \A i \in DOMAIN events : /\ events'[i].type = events[i].type /\ events'[i].details = events[i].details
                                  /\ events'[i].pid = events[i].pid /\ events'[i].exitCode = events[i].exitCode
  PROVE  HasPanicked(s)' <=> HasPanicked(s)
<1>1. \A i \in since[s] + 1 .. taken[s] : i \in DOMAIN events
  BY EventElements DEF SubTypeOK, FollowInv
<1>2. \A i \in since[s] + 1 .. taken[s] : VerdictOf(request[s], events'[i]) = VerdictOf(request[s], events[i])
  BY <1>1, VerdictStays
<1>. QED
  BY <1>2 DEF HasPanicked, VerdictOf

LEMMA TakePanics ==
  ASSUME ContainersInv, CrashIsRequested, ~crashed, NEW s \in Subs, Take(s)
  PROVE  CrashIsRequested'
<1>. USE DEF ContainersInv
<1>1. /\ SameEvents
      /\ stage' = stage /\ request' = request /\ since' = since
      /\ stage[s] = "open" /\ taken[s] \in Nat /\ taken[s] + 1 \in DOMAIN events
      /\ taken' = [taken EXCEPT ![s] = taken[s] + 1]
      /\ crashed' = (VerdictOf(request[s], events[taken[s] + 1]) = "panic")
  BY TakeShares
<1>2. \A x \in Subs \ {s} : HasPanicked(x)' <=> HasPanicked(x)
  <2>. TAKE x \in Subs \ {s}
  <2>1. taken'[x] = taken[x]
    BY <1>1 DEF SubTypeOK
  <2>. QED
    BY <1>1, <2>1, PanicsStay DEF SameEvents
<1>3. HasPanicked(s)' <=> VerdictOf(request[s], events[taken[s] + 1]) = "panic"
  <2>1. PICK from, to : from = since[s] /\ to = taken[s]
    OBVIOUS
  <2>2. from \in Nat /\ to \in Nat /\ from <= to /\ taken'[s] = to + 1
    BY <1>1, <2>1 DEF SubTypeOK, FollowInv
  <2>3. \A i \in from + 1 .. to + 1 : i \in DOMAIN events
    BY <1>1, <2>1, <2>2, EventElements
  <2>4. \A i \in from + 1 .. to + 1 : VerdictOf(request[s], events'[i]) = VerdictOf(request[s], events[i])
    BY <1>1, <2>3, VerdictStays DEF SameEvents
  <2>5. ~\E i \in from + 1 .. to : VerdictOf(request[s], events[i]) = "panic"
    BY <1>1, <2>1 DEF CrashIsRequested, HasPanicked
  <2>6. \A i : i \in from + 1 .. to + 1 <=> i \in from + 1 .. to \/ i = to + 1
    BY <2>2
  <2>7. HasPanicked(s)' <=> \E i \in from + 1 .. to + 1 : VerdictOf(request[s], events'[i]) = "panic"
    BY <1>1, <2>1, <2>2 DEF HasPanicked, VerdictOf
  <2>. QED
    BY <2>1, <2>4, <2>5, <2>6, <2>7
<1>. QED
  BY <1>1, <1>2, <1>3 DEF CrashIsRequested

LEMMA CrashStep ==
  ASSUME ContainersInv, CrashIsRequested, [ContainerNext]_containerVars
  PROVE  CrashIsRequested'
<1>. USE DEF ContainersInv
<1>1. CASE UNCHANGED subVars /\ EventsMore
  <2>1. ASSUME NEW m \in ApiEvents, events' = Append(events, m)
        PROVE  \A i \in DOMAIN events : events'[i] = events[i]
    BY <2>1, AppendEvent DEF EventTypeOK
  <2>2. \A i \in DOMAIN events : events'[i] = events[i]
    BY <1>1, <2>1 DEF EventsMore
  <2>3. \A s \in Subs : HasPanicked(s)' <=> HasPanicked(s)
    BY <1>1, <2>2, PanicsStay DEF subVars
  <2>. QED
    BY <1>1, <2>3 DEF CrashIsRequested, subVars
<1>2. CASE Runtimes \/ ReadDocker \/ ReadOci
  <2>1. UNCHANGED subVars /\ EventsMore
    BY <1>2, SendsNothing DEF EventsMore
  <2>. QED
    BY <1>1, <2>1
<1>3. CASE HandleDocker \/ HandleOci
  BY <1>1, <1>3, HandlersSend DEF EventsMore
<1>4. ASSUME ~crashed, NEW s \in Subs, Subscribe(s)
      PROVE  CrashIsRequested'
  <2>1. /\ stage[s] = "idle" /\ events' = events /\ request' = request
        /\ \/ /\ stage' = [stage EXCEPT ![s] = "nil"] /\ crashed' = TRUE
              /\ taken' = taken /\ since' = since
              /\ TypesLetThrough(request[s].filters) = {}
           \/ /\ stage' = [stage EXCEPT ![s] = "open"] /\ crashed' = crashed
              /\ taken' = [taken EXCEPT ![s] = Len(events)] /\ since' = [since EXCEPT ![s] = Len(events)]
              /\ TypesLetThrough(request[s].filters) # {}
    BY <1>4 DEF Subscribe, NewEventStream, mergeVars
  <2>2. \A x \in Subs \ {s} : HasPanicked(x)' <=> HasPanicked(x)
    <3>. TAKE x \in Subs \ {s}
    <3>1. stage'[x] = stage[x] /\ taken'[x] = taken[x] /\ since'[x] = since[x]
      BY <2>1 DEF SubTypeOK
    <3>. QED
      BY <2>1, <3>1 DEF HasPanicked, VerdictOf
  <2>3. ~HasPanicked(s)'
    <3>1. CASE stage'[s] = "nil"
      BY <3>1 DEF HasPanicked
    <3>2. CASE stage'[s] # "nil"
      <4>1. since'[s] = Len(events) /\ taken'[s] = Len(events) /\ Len(events) \in Nat
        BY <2>1, <3>2, EventElements DEF SubTypeOK
      <4>. QED
        BY <4>1 DEF HasPanicked
    <3>. QED
      BY <3>1, <3>2
  <2>4. \A x \in Subs \ {s} : stage'[x] = stage[x]
    BY <2>1 DEF SubTypeOK
  <2>5. ~\E x \in Subs : stage[x] = "nil" \/ HasPanicked(x)
    BY <1>4 DEF CrashIsRequested
  <2>6. \A x \in Subs : stage'[x] \in {"nil", "open"} =>
          (stage'[x] = "nil" <=> TypesLetThrough(request'[x].filters) = {})
    BY <2>1, <2>4 DEF CrashIsRequested, SubTypeOK
  <2>7. stage'[s] = "nil" <=> crashed'
    BY <1>4, <2>1 DEF SubTypeOK
  <2>8. crashed' <=> \E x \in Subs : stage'[x] = "nil" \/ HasPanicked(x)'
    BY <2>2, <2>3, <2>4, <2>5, <2>7
  <2>. QED
    BY <2>6, <2>8 DEF CrashIsRequested
<1>5. ASSUME ~crashed, NEW s \in Subs, Cancel(s)
      PROVE  CrashIsRequested'
  <2>1. /\ stage' = [stage EXCEPT ![s] = "closed"] /\ taken' = [taken EXCEPT ![s] = 0]
        /\ since' = [since EXCEPT ![s] = 0]
        /\ events' = events /\ request' = request /\ crashed' = crashed
    BY <1>5 DEF Cancel, mergeVars
  <2>2. \A x \in Subs \ {s} : HasPanicked(x)' <=> HasPanicked(x)
    BY <2>1 DEF SubTypeOK, HasPanicked, VerdictOf
  <2>. QED
    BY <1>5, <2>1, <2>2 DEF CrashIsRequested, SubTypeOK, HasPanicked
<1>6. ASSUME NEW s \in Subs, Send(s)
      PROVE  CrashIsRequested'
  <2>1. /\ stage' = stage /\ taken' = taken /\ since' = since
        /\ events' = events /\ request' = request /\ crashed' = crashed
    BY <1>6 DEF Send, mergeVars
  <2>. QED
    BY <2>1 DEF CrashIsRequested, HasPanicked, VerdictOf
<1>7. CASE UNCHANGED containerVars
  BY <1>7, <1>1 DEF containerVars, mergeVars, EventsMore
<1>. QED
  BY <1>2, <1>3, <1>4, <1>5, <1>6, <1>7, TakePanics DEF ContainerNext

\* What CrashesOnlyOnBadRequests says of the subscriptions, whatever the
\* expressions are: the program has crashed exactly if it has tried to join the
\* stream of a subscription that no type was let through for, or if one of the
\* subscriptions it serves has filtered an event its expression panics for
\* (container.go: NewEventStream gives a nil stream when no filter is left, and
\* sensor.go: NewSubscription joins it all the same).
THEOREM CrashesAreRequested == ContainerSpec => []CrashIsRequested
<1>1. ContainerInit => CrashIsRequested
  BY DEF ContainerInit, CrashIsRequested, HasPanicked
<1>. QED
  BY <1>1, ContainersInvariance, CrashStep, PTL DEF ContainerSpec
=============================================================================
