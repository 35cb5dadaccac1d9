------------------------- MODULE ProcessInfoProofs -------------------------
(***************************************************************************)
(* The process cache of the sensor next to the kernel's tasks, for any     *)
(* pids, containers and numbers of tasks and samples: an event is given    *)
(* the process of its leader, no container but its own and the command     *)
(* line of its exec, and the dispatcher only hangs on a reused pid.        *)
(***************************************************************************)
EXTENDS ProcessInfo, WellFoundedInduction, TLAPS

-----------------------------------------------------------------------------
(* Types. *)

Ids == Pids \X (Pids \cup {0})

TaskRecord ==
  [number : Nat \ {0}, leader : Nat \ {0}, id : Ids, container : Containers \cup {None},
   program : Nat, execs : Nat, forked : BOOLEAN]

EntryRecord ==
  [pid : Pids \cup {0}, tgid : Pids \cup {0}, ppid : Pids \cup {0},
   containerId : Containers \cup {None}, commandLine : Nat]

NewTaskSample == [type : {"newtask"}, pid : Pids, parent : Pids, thread : BOOLEAN]
RenameSample  == [type : {"rename"}, pid : Pids]
ExecveSample  == [type : {"execve"}, pid : Pids, program : Nat]
ExecSample    == [type : {"exec"}, pid : Pids, program : Nat, thread : BOOLEAN]
OtherSample   == [type : {"sample"}, pid : Pids, id : Ids, container : Containers \cup {None}]

SampleRecord == NewTaskSample \cup RenameSample \cup ExecveSample \cup ExecSample \cup OtherSample

TasksTypeOK == tasks \in [Pids -> TaskRecord \cup {NoTask}]
CountersTypeOK == taskCount \in Nat /\ written \in Nat /\ reused \subseteq Pids
CacheTypeOK == cache \in [Pids -> EntryRecord] /\ isArray \in BOOLEAN
TransitTypeOK == transit \in Seq(SampleRecord)

TypeOK == TasksTypeOK /\ CountersTypeOK /\ CacheTypeOK /\ TransitTypeOK

-----------------------------------------------------------------------------
(* The inductive invariant. *)

\* Numbers are of one task each, and a task's leader is there as long as it is;
\* the first task leads and stays.
KernelOK ==
  /\ \A p \in Alive : tasks[p].number <= taskCount /\ tasks[p].leader <= taskCount
  /\ \A p, q \in Alive : tasks[p].number = tasks[q].number => p = q
  /\ \A p \in Alive : \E q \in Alive :
       tasks[q].number = tasks[p].leader /\ tasks[q].leader = tasks[p].leader
  /\ 1 \in Alive /\ tasks[1].number = 1 /\ tasks[1].leader = 1

\* What decodeNewTask makes of a sample, and what the zero value is.
EntryOK(p) ==
  IF Found(p) THEN /\ cache[p].pid = p
                   /\ cache[p].ppid \in Pids
                   /\ cache[p].tgid \in {p, cache[p].ppid}
                   /\ cache[p].ppid # p
  ELSE /\ cache[p].pid = 0 /\ cache[p].ppid = 0
       /\ ~isArray => cache[p].commandLine = 0

CacheOK == \A p \in Pids : EntryOK(p)

\* The n-th sample on the way is of a new task.
IsNew(n, child, p) ==
  n \in DOMAIN transit /\ transit[n].type = "newtask" /\ transit[n].pid = child /\ transit[n].parent = p

\* The cache will know the task when n samples have been handled, unless it is
\* the first one, which was there before the sensor.
ComesBefore(p, n) ==
  \/ p = 1
  \/ Found(p)
  \/ \E i \in 1 .. n : i \in DOMAIN transit /\ transit[i].type = "newtask" /\ transit[i].pid = p

\* The samples of a task follow the one of its creation, and those of its children
\* too.
InOrder ==
  /\ \A p \in Alive : ComesBefore(p, Len(transit))
  /\ \A n \in DOMAIN transit : ComesBefore(transit[n].pid, n)
  /\ \A n \in DOMAIN transit : transit[n].type = "newtask" =>
       ComesBefore(transit[n].parent, n - 1) /\ transit[n].parent # transit[n].pid
  /\ \A p \in Pids : Found(p) => ComesBefore(cache[p].ppid, 0)

\* A task with this pid: its creator is p, as the cache knows or will know.
ChildOf(child, p) ==
  \/ child \in Pids /\ Found(child) /\ cache[child].ppid = p
  \/ \E n \in DOMAIN transit : IsNew(n, child, p)

\* A thread that p has created, or a process.
ThreadOf(child, p) ==
  \/ child \in Pids /\ Found(child) /\ cache[child].ppid = p /\ cache[child].tgid # child
  \/ \E n \in DOMAIN transit : IsNew(n, child, p) /\ transit[n].thread
ForkOf(child, p) ==
  \/ child \in Pids /\ Found(child) /\ cache[child].ppid = p /\ cache[child].tgid = child
  \/ \E n \in DOMAIN transit : IsNew(n, child, p) /\ ~transit[n].thread

\* ids has the process id of the last task that had a pid.
IdsOf(ids) ==
  /\ ids[1] = <<1, 0>>
  /\ \A p \in Alive : tasks[p].id = ids[p]
  /\ \A n \in DOMAIN transit : transit[n].type = "sample" /\ transit[n].pid \notin reused =>
       transit[n].id = ids[transit[n].pid]
  /\ \A child, p \in Pids : ThreadOf(child, p) /\ child \notin reused /\ p \notin reused => ids[child] = ids[p]
  /\ \A child, p \in Pids : ForkOf(child, p) /\ child \notin reused => ids[child] = <<child, p>>

\* ages has the number of the last task that had a pid.
AgesOf(ages) ==
  /\ \A p \in Pids : ages[p] <= taskCount
  /\ \A child, p \in Pids : ChildOf(child, p) => ages[p] < ages[child]

\* Nothing that was or will be handled before the n-th sample lets the cache
\* take a container for p.
NotYet(p, n) ==
  /\ cache[p].containerId = None
  /\ \A i \in 1 .. n : i \in DOMAIN transit => ~(transit[i].type = "rename" /\ transit[i].pid = p)
  /\ \A i \in 1 .. n : \A child \in Pids : ~IsNew(i, child, p)
  /\ \A child \in Pids : ~(Found(child) /\ cache[child].ppid = p)

\* Nor has any it stems from one.
Outside(homes, p, n) == NotYet(p, n) /\ \A q \in Pids : ChildOf(p, q) => homes[q] = None

\* homes has the container of the last task that had a pid.
HomesOf(homes) ==
  /\ homes[1] = None
  /\ \A p \in Alive : tasks[p].container = homes[p]
  /\ \A p \in Pids : cache[p].containerId \in {None, homes[p]}
  /\ \A n \in DOMAIN transit : transit[n].type = "sample" =>
       \/ transit[n].container = homes[transit[n].pid]
       \/ transit[n].container = None /\ Outside(homes, transit[n].pid, n)
  /\ \A child, p \in Pids : ChildOf(child, p) =>
       /\ homes[p] \in {None, homes[child]}
       /\ p \in Alive => tasks[p].forked
  /\ \A n \in DOMAIN transit : transit[n].type = "rename" => homes[transit[n].pid] # None

\* p has command line g when n samples have been handled: the last of them that
\* sets it sets this one.
SetsLine(n, p) == transit[n].pid = p /\ transit[n].type \in {"newtask", "execve"}
HasLine(p, g, n) ==
  \/ \E i \in 1 .. n :
       /\ transit[i].type = "execve" /\ transit[i].pid = p /\ transit[i].program = g
       /\ \A k \in i + 1 .. n : ~SetsLine(k, p)
  \/ /\ \A k \in 1 .. n : ~SetsLine(k, p)
     /\ cache[p].commandLine = g \/ ~Settable(p)

LinesOK ==
  /\ \A p \in Alive : ~Runs(p) => HasLine(p, tasks[p].execs, Len(transit))
  /\ \A n \in DOMAIN transit : transit[n].type = "exec" /\ ~transit[n].thread =>
       HasLine(transit[n].pid, transit[n].program, n - 1)

ProcessInv ==
  /\ TypeOK /\ KernelOK
  /\ ~hung => CacheOK /\ InOrder /\ LinesOK
  /\ ~hung => \E ids \in [Pids -> Ids] : IdsOf(ids)
  /\ ~hung /\ reused = {} => \E ages \in [Pids -> Nat] : AgesOf(ages)
  /\ ~hung /\ reused = {} => \E homes \in [Pids -> Containers \cup {None}] : HomesOf(homes)

-----------------------------------------------------------------------------
(* Samples, tasks and entries. *)

LEMMA AppendAt ==
  ASSUME NEW S, NEW q \in Seq(S), NEW x \in S
  PROVE  /\ Append(q, x) \in Seq(S)
         /\ Len(q) \in Nat /\ Len(Append(q, x)) = Len(q) + 1
         /\ DOMAIN q = 1 .. Len(q) /\ DOMAIN Append(q, x) = 1 .. Len(q) + 1
         /\ \A n \in DOMAIN q : Append(q, x)[n] = q[n]
         /\ Append(q, x)[Len(q) + 1] = x
OBVIOUS

LEMMA TailAt ==
  ASSUME NEW S, NEW q \in Seq(S), q # <<>>
  PROVE  /\ 1 \in DOMAIN q /\ Head(q) = q[1] /\ Head(q) \in S
         /\ Tail(q) \in Seq(S)
         /\ Len(q) \in Nat /\ Len(Tail(q)) = Len(q) - 1 /\ Len(Tail(q)) \in Nat
         /\ DOMAIN q = 1 .. Len(q) /\ DOMAIN Tail(q) = 1 .. Len(q) - 1
         /\ \A n \in DOMAIN Tail(q) : n + 1 \in DOMAIN q /\ Tail(q)[n] = q[n + 1]
OBVIOUS

LEMMA SampleTypes ==
  ASSUME NEW x \in SampleRecord
  PROVE  /\ x.pid \in Pids
         /\ x.type \in {"newtask", "rename", "execve", "exec", "sample"}
         /\ x.type = "newtask" => x.parent \in Pids /\ x.thread \in BOOLEAN
         /\ x.type = "execve" => x.program \in Nat
         /\ x.type = "exec" => x.program \in Nat /\ x.thread \in BOOLEAN
         /\ x.type = "sample" => x.id \in Ids /\ x.container \in Containers \cup {None}
BY DEF SampleRecord, NewTaskSample, RenameSample, ExecveSample, ExecSample, OtherSample

LEMMA NoTaskIsNone == NoTask \notin TaskRecord
<1>. SUFFICES ASSUME NoTask \in TaskRecord PROVE FALSE
  OBVIOUS
<1>1. NoTask.number = 0
  BY DEF NoTask
<1>2. NoTask.number \in Nat \ {0}
  BY DEF TaskRecord
<1>. QED
  BY <1>1, <1>2

LEMMA TaskTypes ==
  ASSUME TypeOK, NEW p \in Alive
  PROVE  /\ p \in Pids /\ tasks[p] \in TaskRecord
         /\ tasks[p].number \in Nat \ {0} /\ tasks[p].leader \in Nat \ {0}
         /\ tasks[p].id \in Ids /\ tasks[p].container \in Containers \cup {None}
         /\ tasks[p].program \in Nat /\ tasks[p].execs \in Nat /\ tasks[p].forked \in BOOLEAN
<1>1. p \in Pids /\ tasks[p] \in TaskRecord
  BY DEF Alive, TypeOK, TasksTypeOK
<1>. QED
  BY <1>1 DEF TaskRecord

LEMMA EntryTypes ==
  ASSUME TypeOK, NEW p
  PROVE  /\ Entry(p) \in EntryRecord
         /\ Entry(p).pid \in Pids \cup {0} /\ Entry(p).tgid \in Pids \cup {0} /\ Entry(p).ppid \in Pids \cup {0}
         /\ Entry(p).containerId \in Containers \cup {None} /\ Entry(p).commandLine \in Nat
<1>1. Unknown \in EntryRecord
  BY DEF Unknown, EntryRecord, None
<1>2. Entry(p) \in EntryRecord
  BY <1>1 DEF Entry, TypeOK, CacheTypeOK
<1>. QED
  BY <1>2 DEF EntryRecord

LEMMA FoundIsPid ==
  ASSUME NEW p, Found(p)
  PROVE  p \in Pids /\ Entry(p) = cache[p]
BY DEF Found, Entry, Unknown

-----------------------------------------------------------------------------
(* The walk through the cache. *)

LEMMA WalkStays ==
  ASSUME NEW p, NEW on, NEW S \in SUBSET (Pids \cup {0}), p \in S,
         \A r \in S \cap on : Entry(r).ppid \in S
  PROVE  Walk(p, on) \subseteq S
BY DEF Walk

LEMMA WalkClosed ==
  ASSUME TypeOK, NEW p \in Pids \cup {0}, NEW on
  PROVE  /\ p \in Walk(p, on) /\ Walk(p, on) \subseteq Pids \cup {0}
         /\ \A r \in Walk(p, on) \cap on : Entry(r).ppid \in Walk(p, on)
<1>1. \A r \in Pids \cup {0} : Entry(r).ppid \in Pids \cup {0}
  BY EntryTypes
<1>. QED
  BY <1>1 DEF Walk

LEMMA WalkEndIsEnd ==
  ASSUME NEW p, NEW on, WalkEnds(p, on) # {}
  PROVE  WalkEnd(p, on) \in Walk(p, on) /\ WalkEnd(p, on) \notin on
BY DEF WalkEnd, WalkEnds

LEMMA ContainerIdType ==
  ASSUME TypeOK, NEW p, ContainerId(p) # "circle"
  PROVE  ContainerId(p) \in Containers \cup {None}
BY EntryTypes DEF ContainerId

LEMMA LeastOf ==
  ASSUME NEW T, T \subseteq Nat, T # {}
  PROVE  \E x \in T : \A y \in T : x <= y
<1>. DEFINE R == OpToRel(<, Nat)
<1>1. IsWellFoundedOn(R, Nat)
  BY NatLessThanWellFounded
<1>2. \A x, y \in Nat : x < y => <<x, y>> \in R
  BY DEF OpToRel
<1>. HIDE DEF R
<1>3. PICK x \in T : \A y \in T : ~ (<<y, x>> \in R)
  BY <1>1, WFMin
<1>4. ASSUME NEW y \in T PROVE x <= y
  <2>1. x \in Nat /\ y \in Nat
    OBVIOUS
  <2>2. ~(y < x)
    BY <1>2, <1>3, <2>1, Zenon
  <2>. QED
    BY <2>1, <2>2
<1>. QED
  BY <1>4

\* A walk from parent to parent ends when children are younger than parents.
LEMMA WalkEndsSomewhere ==
  ASSUME TypeOK, CacheOK, NEW ages \in [Pids -> Nat], AgesOf(ages), NEW p \in Pids \cup {0},
         NEW on, \A q \in on : q \in Pids /\ Found(q)
  PROVE  WalkEnds(p, on) # {}
<1>. SUFFICES ASSUME Walk(p, on) \subseteq on PROVE FALSE
  BY DEF WalkEnds
<1>. DEFINE W == Walk(p, on)
            T == {ages[q] : q \in W}
<1>1. W \subseteq Pids /\ p \in W /\ \A q \in W : Found(q) /\ Entry(q).ppid \in W
  BY WalkClosed
<1>. HIDE DEF W
<1>2. T \subseteq Nat /\ T # {}
  BY <1>1
<1>3. PICK x \in T : \A y \in T : x <= y
  BY <1>2, LeastOf
<1>4. PICK q \in W : x = ages[q]
  OBVIOUS
<1>5. Entry(q).ppid \in W /\ Found(q) /\ q \in Pids /\ Entry(q).ppid = cache[q].ppid
  BY <1>1, FoundIsPid
<1>6. ages[cache[q].ppid] < ages[q]
  BY <1>1, <1>5 DEF AgesOf, ChildOf
<1>7. ages[cache[q].ppid] \in Nat /\ ages[q] \in Nat /\ x <= ages[cache[q].ppid]
  BY <1>1, <1>3, <1>5
<1>. QED
  BY <1>4, <1>6, <1>7

-----------------------------------------------------------------------------
(* Steps. *)

\* A step of the kernel leaves the dispatcher alone, and may write a sample.
Quiet      == UNCHANGED <<transit, isArray, cache, event, hung>>
Appends(x) == transit' = Append(transit, x) /\ UNCHANGED <<isArray, cache, event, hung>>

LEMMA LeaderIsAlive ==
  ASSUME TypeOK, KernelOK, NEW p \in Alive
  PROVE  /\ LeaderPid(p) \in Alive
         /\ tasks[LeaderPid(p)].number = tasks[p].leader
         /\ tasks[LeaderPid(p)].leader = tasks[p].leader
<1>1. PICK q \in Alive : tasks[q].number = tasks[p].leader /\ tasks[q].leader = tasks[p].leader
  BY DEF KernelOK
<1>2. LeaderPid(p) \in Alive /\ tasks[LeaderPid(p)].number = tasks[p].leader
  BY <1>1 DEF LeaderPid
<1>3. LeaderPid(p) = q
  BY <1>1, <1>2 DEF KernelOK
<1>. QED
  BY <1>1, <1>2, <1>3

\* What each step does to the tasks: those that are there are the same but for
\* what the step is about.
LEMMA NewTaskTasks ==
  ASSUME TypeOK, NEW p \in Pids, NEW child \in Pids, NEW thread \in BOOLEAN, NewTask(p, child, thread)
  PROVE  /\ p \in Alive /\ child \notin Alive /\ p # child
         /\ tasks' \in [Pids -> TaskRecord \cup {NoTask}]
         /\ Alive' = Alive \cup {child}
         /\ tasks'[child].number = taskCount + 1
         /\ thread => tasks'[child].leader = tasks[p].leader /\ tasks'[child].id = tasks[p].id
         /\ ~thread => tasks'[child].leader = taskCount + 1 /\ tasks'[child].id = <<child, p>>
         /\ tasks'[child].container = tasks[p].container
         /\ tasks'[child].execs = 0 /\ ~tasks'[child].forked
         /\ tasks'[p].forked
         /\ \A q \in Alive : /\ tasks'[q].number = tasks[q].number /\ tasks'[q].leader = tasks[q].leader
                             /\ tasks'[q].id = tasks[q].id /\ tasks'[q].container = tasks[q].container
                             /\ tasks'[q].execs = tasks[q].execs /\ (tasks[q].forked => tasks'[q].forked)
<1>1. p \in Alive /\ child \notin Alive /\ tasks[p].execs = 0
  BY DEF NewTask, Runs
<1>2. tasks[p] \in TaskRecord /\ p # child /\ child \in Pids
  BY <1>1, TaskTypes
<1>. DEFINE r == IF thread THEN [tasks[p] EXCEPT !.number = taskCount + 1, !.forked = FALSE]
                 ELSE Task(taskCount + 1, taskCount + 1, <<child, p>>, tasks[p].container, tasks[p].program)
            f == [tasks[p] EXCEPT !.forked = TRUE]
<1>3. /\ r \in TaskRecord /\ r.number = taskCount + 1
      /\ thread => r.leader = tasks[p].leader /\ r.id = tasks[p].id
      /\ ~thread => r.leader = taskCount + 1 /\ r.id = <<child, p>>
      /\ r.container = tasks[p].container /\ r.execs = 0 /\ ~r.forked
  <2>1. taskCount + 1 \in Nat \ {0} /\ <<child, p>> \in Ids
    BY DEF TypeOK, CountersTypeOK, Ids
  <2>2. CASE thread
    BY <1>1, <1>2, <2>1, <2>2 DEF TaskRecord
  <2>3. CASE ~thread
    BY <1>1, <1>2, <2>1, <2>3 DEF TaskRecord, Task
  <2>. QED
    BY <2>2, <2>3
<1>4. /\ f \in TaskRecord /\ f.number = tasks[p].number /\ f.leader = tasks[p].leader /\ f.id = tasks[p].id
      /\ f.container = tasks[p].container /\ f.execs = tasks[p].execs /\ f.forked
  BY <1>2 DEF TaskRecord
<1>5. tasks' = [tasks EXCEPT ![p] = f, ![child] = r]
  BY DEF NewTask
<1>. HIDE DEF r, f
<1>6. tasks'[child] = r /\ tasks'[p] = f /\ \A q \in Pids : q # p /\ q # child => tasks'[q] = tasks[q]
  BY <1>2, <1>5 DEF TypeOK, TasksTypeOK
<1>7. tasks' \in [Pids -> TaskRecord \cup {NoTask}]
  BY <1>3, <1>4, <1>5 DEF TypeOK, TasksTypeOK
<1>8. r # NoTask /\ f # NoTask
  BY <1>3, <1>4, NoTaskIsNone
<1>9. Alive' = Alive \cup {child}
  BY <1>1, <1>2, <1>6, <1>8 DEF Alive
<1>10. \A q \in Alive : q = p \/ (q \in Pids /\ q # p /\ q # child)
  BY <1>1 DEF Alive
<1>. QED
  BY <1>1, <1>2, <1>3, <1>4, <1>6, <1>7, <1>9, <1>10

LEMMA ExecEndTasks ==
  ASSUME TypeOK, KernelOK, NEW p \in Pids, ExecEnd(p)
  PROVE  /\ p \in Alive /\ LeaderPid(p) \in Alive
         /\ tasks' \in [Pids -> TaskRecord \cup {NoTask}]
         /\ LeaderPid(p) \in Alive' /\ Alive' \subseteq Alive
         /\ \A q \in Alive : tasks[q].leader # tasks[p].leader => q \in Alive'
         /\ \A q \in Alive' : q = LeaderPid(p) \/ tasks[q].leader # tasks[p].leader
         /\ tasks'[LeaderPid(p)].execs = 0
         /\ \A q \in Alive' : /\ tasks'[q].number = tasks[q].number /\ tasks'[q].leader = tasks[q].leader
                              /\ tasks'[q].id = tasks[q].id /\ tasks'[q].container = tasks[q].container
                              /\ tasks'[q].forked = tasks[q].forked
         /\ \A q \in Alive' : q # LeaderPid(p) => tasks'[q].execs = tasks[q].execs
<1>1. p \in Alive
  BY DEF ExecEnd
<1>2. LeaderPid(p) \in Alive
  BY <1>1, LeaderIsAlive
<1>3. PICK leader \in Alive : leader = LeaderPid(p)
  BY <1>2
<1>. DEFINE r == [tasks[leader] EXCEPT !.program = tasks[p].execs, !.execs = 0]
<1>4. leader \in Pids /\ tasks[leader] \in TaskRecord /\ tasks[p].execs \in Nat
  BY <1>1, TaskTypes
<1>5. /\ r \in TaskRecord /\ r.number = tasks[leader].number /\ r.leader = tasks[leader].leader
      /\ r.id = tasks[leader].id /\ r.container = tasks[leader].container /\ r.forked = tasks[leader].forked
      /\ r.execs = 0
  BY <1>4 DEF TaskRecord
<1>6. tasks' = [q \in Pids |-> IF q = leader THEN r ELSE IF q \in Group(p) THEN NoTask ELSE tasks[q]]
  BY <1>3 DEF ExecEnd
<1>. HIDE DEF r
<1>7. tasks'[leader] = r /\ \A q \in Pids : q # leader => tasks'[q] = IF q \in Group(p) THEN NoTask ELSE tasks[q]
  BY <1>4, <1>6
<1>8. tasks' \in [Pids -> TaskRecord \cup {NoTask}]
  BY <1>5, <1>6 DEF TypeOK, TasksTypeOK
<1>9. \A q \in Alive : q \in Group(p) <=> tasks[q].leader = tasks[p].leader
  BY DEF Group
<1>10. /\ leader \in Alive'
       /\ \A q \in Pids : q # leader => (q \in Alive' <=> q \in Alive /\ tasks[q].leader # tasks[p].leader)
  BY <1>4, <1>5, <1>7, <1>9, NoTaskIsNone DEF Alive
<1>11. \A q \in Alive' : q = leader \/ (q # leader /\ q \in Pids /\ q \in Alive /\ q \notin Group(p))
  BY <1>9, <1>10 DEF Alive
<1>12. \A q \in Alive' : q # leader => tasks'[q] = tasks[q]
  BY <1>7, <1>11
<1>13. \A q \in Alive : q \in Pids
  BY DEF Alive
<1>14. \A q \in Alive' : tasks'[q] = IF q = leader THEN r ELSE tasks[q]
  BY <1>7, <1>12
<1>. QED
  BY <1>1, <1>3, <1>5, <1>8, <1>10, <1>11, <1>13, <1>14

LEMMA ExitTasks ==
  ASSUME TypeOK, NEW p \in Pids, Exit(p)
  PROVE  /\ p \in Alive /\ p # 1
         /\ tasks' \in [Pids -> TaskRecord \cup {NoTask}]
         /\ Alive' = Alive \ {p}
         /\ \A q \in Alive' : tasks'[q] = tasks[q]
<1>1. p \in Alive /\ p # 1 /\ tasks' = [tasks EXCEPT ![p] = NoTask]
  BY DEF Exit
<1>2. tasks' \in [Pids -> TaskRecord \cup {NoTask}]
  BY <1>1 DEF TypeOK, TasksTypeOK
<1>3. tasks'[p] = NoTask /\ \A q \in Pids : q # p => tasks'[q] = tasks[q]
  BY <1>1 DEF TypeOK, TasksTypeOK
<1>4. Alive' = Alive \ {p}
  BY <1>3 DEF Alive
<1>. QED
  BY <1>1, <1>2, <1>3, <1>4 DEF Alive

\* The steps that change one task: it enters a container, or begins an execve, or
\* ends one that fails.
LEMMA OneTask ==
  ASSUME TypeOK, NEW p \in Pids, NEW r \in TaskRecord, p \in Alive,
         tasks' = [tasks EXCEPT ![p] = r],
         r.number = tasks[p].number, r.leader = tasks[p].leader, r.id = tasks[p].id, r.forked = tasks[p].forked
  PROVE  /\ tasks' \in [Pids -> TaskRecord \cup {NoTask}]
         /\ Alive' = Alive
         /\ tasks'[p] = r
         /\ \A q \in Alive : q # p => tasks'[q] = tasks[q]
         /\ \A q \in Alive : /\ tasks'[q].number = tasks[q].number /\ tasks'[q].leader = tasks[q].leader
                             /\ tasks'[q].id = tasks[q].id /\ tasks'[q].forked = tasks[q].forked
<1>1. tasks' \in [Pids -> TaskRecord \cup {NoTask}]
  BY DEF TypeOK, TasksTypeOK
<1>2. tasks'[p] = r /\ \A q \in Pids : q # p => tasks'[q] = tasks[q]
  BY DEF TypeOK, TasksTypeOK
<1>3. Alive' = Alive
  BY <1>2, NoTaskIsNone DEF Alive
<1>4. \A q \in Alive : q \in Pids
  BY DEF Alive
<1>. QED
  BY <1>1, <1>2, <1>3, <1>4

LEMMA JoinTasks ==
  ASSUME TypeOK, NEW p \in Pids, NEW c \in Containers, Join(p, c)
  PROVE  /\ p \in Alive /\ p # 1 /\ tasks[p].container = None /\ ~tasks[p].forked
         /\ tasks' \in [Pids -> TaskRecord \cup {NoTask}]
         /\ Alive' = Alive
         /\ tasks'[p].container = c
         /\ \A q \in Alive : q # p => tasks'[q] = tasks[q]
         /\ \A q \in Alive : /\ tasks'[q].number = tasks[q].number /\ tasks'[q].leader = tasks[q].leader
                             /\ tasks'[q].id = tasks[q].id /\ tasks'[q].forked = tasks[q].forked
                             /\ tasks'[q].execs = tasks[q].execs
<1>1. p \in Alive /\ p # 1 /\ tasks[p].container = None /\ ~tasks[p].forked
  BY DEF Join, Runs
<1>. DEFINE r == [tasks[p] EXCEPT !.container = c]
<1>2. tasks[p] \in TaskRecord
  BY <1>1, TaskTypes
<1>3. /\ r \in TaskRecord /\ r.number = tasks[p].number /\ r.leader = tasks[p].leader /\ r.id = tasks[p].id
      /\ r.forked = tasks[p].forked /\ r.execs = tasks[p].execs /\ r.container = c
  BY <1>2 DEF TaskRecord
<1>4. tasks' = [tasks EXCEPT ![p] = r]
  BY DEF Join
<1>. HIDE DEF r
<1>5. /\ tasks' \in [Pids -> TaskRecord \cup {NoTask}] /\ Alive' = Alive /\ tasks'[p] = r
      /\ \A q \in Alive : q # p => tasks'[q] = tasks[q]
      /\ \A q \in Alive : /\ tasks'[q].number = tasks[q].number /\ tasks'[q].leader = tasks[q].leader
                          /\ tasks'[q].id = tasks[q].id /\ tasks'[q].forked = tasks[q].forked
  BY <1>1, <1>3, <1>4, OneTask
<1>. QED
  BY <1>1, <1>3, <1>5

LEMMA ExecTasks ==
  ASSUME TypeOK, NEW p \in Pids, ExecBegin(p) \/ ExecFails(p)
  PROVE  /\ p \in Alive
         /\ tasks' \in [Pids -> TaskRecord \cup {NoTask}]
         /\ Alive' = Alive
         /\ tasks'[p].execs = IF ExecBegin(p) THEN written + 1 ELSE 0
         /\ \A q \in Alive : q # p => tasks'[q] = tasks[q]
         /\ \A q \in Alive : /\ tasks'[q].number = tasks[q].number /\ tasks'[q].leader = tasks[q].leader
                             /\ tasks'[q].id = tasks[q].id /\ tasks'[q].forked = tasks[q].forked
                             /\ tasks'[q].container = tasks[q].container
<1>. DEFINE n == IF ExecBegin(p) THEN written + 1 ELSE 0
            r == [tasks[p] EXCEPT !.execs = n]
<1>1. p \in Alive /\ tasks' = [tasks EXCEPT ![p] = r]
  BY DEF ExecBegin, ExecFails, Runs
<1>2. tasks[p] \in TaskRecord /\ n \in Nat
  BY <1>1, TaskTypes DEF TypeOK, CountersTypeOK
<1>. HIDE DEF n
<1>3. /\ r \in TaskRecord /\ r.number = tasks[p].number /\ r.leader = tasks[p].leader /\ r.id = tasks[p].id
      /\ r.forked = tasks[p].forked /\ r.container = tasks[p].container /\ r.execs = n
  BY <1>2 DEF TaskRecord
<1>. HIDE DEF r
<1>4. /\ tasks' \in [Pids -> TaskRecord \cup {NoTask}] /\ Alive' = Alive /\ tasks'[p] = r
      /\ \A q \in Alive : q # p => tasks'[q] = tasks[q]
      /\ \A q \in Alive : /\ tasks'[q].number = tasks[q].number /\ tasks'[q].leader = tasks[q].leader
                          /\ tasks'[q].id = tasks[q].id /\ tasks'[q].forked = tasks[q].forked
  BY <1>1, <1>3, OneTask
<1>. QED
  BY <1>1, <1>3, <1>4 DEF n

\* What a step of the kernel writes.
LEMMA KernelWrites ==
  ASSUME TypeOK, KernelOK, NEW p \in Pids
  PROVE  /\ \A child \in Pids, thread \in BOOLEAN : NewTask(p, child, thread) =>
              Appends([type |-> "newtask", pid |-> child, parent |-> p, thread |-> thread])
         /\ Rename(p) => Appends([type |-> "rename", pid |-> p])
         /\ ExecBegin(p) => Appends([type |-> "execve", pid |-> p, program |-> written + 1])
         /\ Sample(p) => Appends([type |-> "sample", pid |-> p, id |-> tasks[p].id, container |-> tasks[p].container])
         /\ ExecEnd(p) => Appends([type |-> "exec", pid |-> LeaderPid(p), program |-> tasks[p].execs, thread |-> p # LeaderPid(p)])
         /\ Exit(p) => Quiet
         /\ ExecFails(p) => Quiet
         /\ \A c \in Containers : Join(p, c) => Quiet
BY DEF NewTask, Rename, ExecBegin, Sample, ExecEnd, Exit, ExecFails, Join, Write, Appends, Quiet

\* What the dispatcher does with the first sample.
Sampled == Head(transit)

LEMMA HandleTakes ==
  ASSUME TypeOK, Handle
  PROVE  /\ ~hung /\ transit # <<>> /\ transit' = Tail(transit)
         /\ UNCHANGED <<tasks, reused, taskCount, written, isArray>>
         /\ Sampled \in SampleRecord /\ Sampled = transit[1] /\ 1 \in DOMAIN transit
         /\ \/ Sampled.type = "newtask" /\ DecodeNewTask(Sampled) /\ event' = NoEvent
            \/ Sampled.type = "rename" /\ DecodeRename(Sampled) /\ event' = NoEvent
            \/ Sampled.type = "execve" /\ DecodeExecve(Sampled) /\ event' = NoEvent
            \/ Sampled.type \in {"exec", "sample"} /\ NewEvent(Sampled)
BY TailAt DEF Handle, kernelVars, Sampled, TypeOK, TransitTypeOK

\* decodeNewTask replaces the entry of the new task.
LEMMA HandleNewTask ==
  ASSUME TypeOK, NEW x \in SampleRecord, x.type = "newtask", DecodeNewTask(x), ~hung'
  PROVE  \E e \in EntryRecord :
           /\ cache' = [cache EXCEPT ![x.pid] = e]
           /\ e.pid = x.pid /\ e.ppid = x.parent /\ e.tgid = IF x.thread THEN x.parent ELSE x.pid
           /\ e.containerId = ContainerId(x.parent) /\ ContainerId(x.parent) # "circle"
           /\ e.commandLine = 0
<1>1. ContainerId(x.parent) # "circle"
  BY DEF DecodeNewTask
<1>2. PICK c \in Containers \cup {None} : c = ContainerId(x.parent)
  BY <1>1, ContainerIdType
<1>3. x.pid \in Pids /\ x.parent \in Pids
  BY SampleTypes
<1>. DEFINE e == [Unknown EXCEPT !.pid = x.pid, !.ppid = x.parent,
                                 !.tgid = IF x.thread THEN x.parent ELSE x.pid, !.containerId = c]
<1>4. /\ e \in EntryRecord /\ e.pid = x.pid /\ e.ppid = x.parent
      /\ e.tgid = IF x.thread THEN x.parent ELSE x.pid
      /\ e.containerId = c /\ e.commandLine = 0
  BY <1>3 DEF Unknown, EntryRecord
<1>5. cache' = [cache EXCEPT ![x.pid] = e]
  BY <1>1, <1>2 DEF DecodeNewTask
<1>. HIDE DEF e
<1>. QED
  BY <1>1, <1>2, <1>4, <1>5

\* decodeRuncTaskRename fills in one container at most.
RenamedPid(p) == IF Entry(p).containerId = None THEN p ELSE Entry(Entry(p).ppid).pid

LEMMA HandleRename ==
  ASSUME TypeOK, NEW x \in SampleRecord, x.type = "rename", DecodeRename(x)
  PROVE  /\ hung' = hung
         /\ \/ cache' = cache
            \/ \E e \in EntryRecord :
                 LET p == RenamedPid(x.pid)
                 IN  /\ p \in Alive /\ cache[p].containerId = None
                     /\ cache' = [cache EXCEPT ![p] = e]
                     /\ e.pid = cache[p].pid /\ e.ppid = cache[p].ppid /\ e.tgid = cache[p].tgid
                     /\ e.containerId = tasks[p].container /\ e.commandLine = cache[p].commandLine
<1>. DEFINE p == RenamedPid(x.pid)
            container == ProcContainerID(p)
<1>1. /\ hung' = hung
      /\ cache' = IF container # None /\ Settable(p) /\ Entry(p).containerId = None
                  THEN [cache EXCEPT ![p].containerId = container] ELSE cache
  BY DEF DecodeRename, RenamedPid
<1>. HIDE DEF p
<1>. SUFFICES ASSUME container # None, Settable(p), Entry(p).containerId = None
     PROVE  \E e \in EntryRecord :
              /\ p \in Alive /\ cache[p].containerId = None
              /\ cache' = [cache EXCEPT ![p] = e]
              /\ e.pid = cache[p].pid /\ e.ppid = cache[p].ppid /\ e.tgid = cache[p].tgid
              /\ e.containerId = tasks[p].container /\ e.commandLine = cache[p].commandLine
  BY <1>1 DEF p
<1>2. p \in Alive /\ container = tasks[p].container
  BY DEF ProcContainerID
<1>3. p \in Pids /\ Entry(p) = cache[p]
  BY <1>2 DEF Alive, Entry
<1>4. tasks[p].container \in Containers \cup {None}
  BY <1>2, TaskTypes
<1>. DEFINE e == [cache[p] EXCEPT !.containerId = tasks[p].container]
<1>5. /\ e \in EntryRecord
      /\ e.pid = cache[p].pid /\ e.ppid = cache[p].ppid /\ e.tgid = cache[p].tgid
      /\ e.containerId = tasks[p].container /\ e.commandLine = cache[p].commandLine
  BY <1>3, <1>4 DEF TypeOK, CacheTypeOK, EntryRecord
<1>6. cache' = [cache EXCEPT ![p] = e]
  BY <1>1, <1>2
<1>. HIDE DEF e
<1>. QED
  BY <1>2, <1>3, <1>5, <1>6

LEMMA HandleExecve ==
  ASSUME TypeOK, NEW x \in SampleRecord, x.type = "execve", DecodeExecve(x)
  PROVE  /\ hung' = hung
         /\ ~Settable(x.pid) => cache' = cache
         /\ Settable(x.pid) =>
              \E e \in EntryRecord :
                /\ cache' = [cache EXCEPT ![x.pid] = e]
                /\ e.pid = cache[x.pid].pid /\ e.ppid = cache[x.pid].ppid /\ e.tgid = cache[x.pid].tgid
                /\ e.containerId = cache[x.pid].containerId /\ e.commandLine = x.program
<1>1. x.pid \in Pids /\ x.program \in Nat
  BY SampleTypes
<1>. DEFINE e == [cache[x.pid] EXCEPT !.commandLine = x.program]
<1>2. /\ e \in EntryRecord
      /\ e.pid = cache[x.pid].pid /\ e.ppid = cache[x.pid].ppid /\ e.tgid = cache[x.pid].tgid
      /\ e.containerId = cache[x.pid].containerId /\ e.commandLine = x.program
  BY <1>1 DEF TypeOK, CacheTypeOK, EntryRecord
<1>3. /\ hung' = hung
      /\ cache' = IF Settable(x.pid) THEN [cache EXCEPT ![x.pid] = e] ELSE cache
  BY DEF DecodeExecve
<1>. HIDE DEF e
<1>. QED
  BY <1>2, <1>3

\* Samples other than newtask leave the entries their tasks and parents.
LEMMA HandleKeeps ==
  ASSUME TypeOK, Handle, Sampled.type # "newtask"
  PROVE  /\ cache' \in [Pids -> EntryRecord]
         /\ \A q \in Pids : /\ cache'[q].pid = cache[q].pid /\ cache'[q].ppid = cache[q].ppid
                            /\ cache'[q].tgid = cache[q].tgid
         /\ Sampled.type # "rename" => \A q \in Pids : cache'[q].containerId = cache[q].containerId
         /\ Sampled.type # "execve" => \A q \in Pids : cache'[q].commandLine = cache[q].commandLine
         /\ Sampled.type \in {"exec", "sample"} => cache' = cache
<1>1. Sampled \in SampleRecord /\ Sampled.pid \in Pids
  BY HandleTakes, SampleTypes
<1>2. CASE cache' = cache
  BY <1>2 DEF TypeOK, CacheTypeOK
<1>3. CASE Sampled.type = "rename" /\ cache' # cache
  <2>1. DecodeRename(Sampled)
    BY <1>3, HandleTakes
  <2>. DEFINE p == RenamedPid(Sampled.pid)
  <2>2. PICK e \in EntryRecord :
          /\ p \in Alive /\ cache' = [cache EXCEPT ![p] = e]
          /\ e.pid = cache[p].pid /\ e.ppid = cache[p].ppid /\ e.tgid = cache[p].tgid
          /\ e.commandLine = cache[p].commandLine
    BY <1>1, <1>3, <2>1, HandleRename
  <2>. HIDE DEF p
  <2>. QED
    BY <1>3, <2>2 DEF TypeOK, CacheTypeOK
<1>4. CASE Sampled.type = "execve" /\ cache' # cache
  <2>1. DecodeExecve(Sampled)
    BY <1>4, HandleTakes
  <2>2. PICK e \in EntryRecord :
          /\ cache' = [cache EXCEPT ![Sampled.pid] = e]
          /\ e.pid = cache[Sampled.pid].pid /\ e.ppid = cache[Sampled.pid].ppid /\ e.tgid = cache[Sampled.pid].tgid
          /\ e.containerId = cache[Sampled.pid].containerId
    BY <1>1, <1>4, <2>1, HandleExecve
  <2>. QED
    BY <1>4, <2>2 DEF TypeOK, CacheTypeOK
<1>5. Sampled.type \in {"exec", "sample"} => cache' = cache
  BY HandleTakes DEF NewEvent
<1>. QED
  BY <1>1, <1>2, <1>3, <1>4, <1>5, SampleTypes

-----------------------------------------------------------------------------
(* Types and the kernel's tasks. *)

LEMMA AppendsType ==
  ASSUME TypeOK, NEW x \in SampleRecord, Appends(x)
  PROVE  TransitTypeOK' /\ CacheTypeOK'
BY AppendAt DEF Appends, TypeOK, TransitTypeOK, CacheTypeOK

LEMMA QuietType ==
  ASSUME TypeOK, Quiet
  PROVE  TransitTypeOK' /\ CacheTypeOK'
BY DEF Quiet, TypeOK, TransitTypeOK, CacheTypeOK

LEMMA TypeStep ==
  ASSUME TypeOK, KernelOK, Next
  PROVE  TypeOK'
<1>. USE DEF TasksTypeOK, CountersTypeOK
<1>1. ASSUME NEW p \in Pids, NEW child \in Pids, NEW thread \in BOOLEAN, NewTask(p, child, thread)
      PROVE  TypeOK'
  <2>1. [type |-> "newtask", pid |-> child, parent |-> p, thread |-> thread] \in SampleRecord
    BY DEF SampleRecord, NewTaskSample
  <2>2. TransitTypeOK' /\ CacheTypeOK'
    BY <1>1, <2>1, AppendsType, KernelWrites
  <2>3. TasksTypeOK'
    BY <1>1, NewTaskTasks
  <2>4. CountersTypeOK'
    BY <1>1 DEF NewTask, TypeOK
  <2>. QED
    BY <2>2, <2>3, <2>4 DEF TypeOK
<1>2. ASSUME NEW p \in Pids, Exit(p) PROVE TypeOK'
  BY <1>2, ExitTasks, KernelWrites, QuietType DEF TypeOK, Exit
<1>3. ASSUME NEW p \in Pids, NEW c \in Containers, Join(p, c) PROVE TypeOK'
  BY <1>3, JoinTasks, KernelWrites, QuietType DEF TypeOK, Join
<1>4. ASSUME NEW p \in Pids, Rename(p) PROVE TypeOK'
  <2>1. [type |-> "rename", pid |-> p] \in SampleRecord
    BY DEF SampleRecord, RenameSample
  <2>2. TransitTypeOK' /\ CacheTypeOK'
    BY <1>4, <2>1, AppendsType, KernelWrites
  <2>. QED
    BY <1>4, <2>2 DEF TypeOK, Rename
<1>5. ASSUME NEW p \in Pids, Sample(p) PROVE TypeOK'
  <2>1. p \in Alive
    BY <1>5 DEF Sample, Runs
  <2>2. tasks[p].id \in Ids /\ tasks[p].container \in Containers \cup {None}
    BY <2>1, TaskTypes
  <2>3. [type |-> "sample", pid |-> p, id |-> tasks[p].id, container |-> tasks[p].container] \in SampleRecord
    BY <2>2 DEF SampleRecord, OtherSample
  <2>4. TransitTypeOK' /\ CacheTypeOK'
    BY <1>5, <2>3, AppendsType, KernelWrites
  <2>. QED
    BY <1>5, <2>4 DEF TypeOK, Sample
<1>6. ASSUME NEW p \in Pids, ExecBegin(p) PROVE TypeOK'
  <2>1. [type |-> "execve", pid |-> p, program |-> written + 1] \in SampleRecord
    BY DEF SampleRecord, ExecveSample, TypeOK
  <2>2. TransitTypeOK' /\ CacheTypeOK'
    BY <1>6, <2>1, AppendsType, KernelWrites
  <2>3. TasksTypeOK'
    BY <1>6, ExecTasks
  <2>. QED
    BY <1>6, <2>2, <2>3 DEF TypeOK, ExecBegin
<1>7. ASSUME NEW p \in Pids, ExecFails(p) PROVE TypeOK'
  BY <1>7, ExecTasks, KernelWrites, QuietType DEF TypeOK, ExecFails
<1>8. ASSUME NEW p \in Pids, ExecEnd(p) PROVE TypeOK'
  <2>1. LeaderPid(p) \in Pids /\ tasks[p].execs \in Nat
    BY <1>8, ExecEndTasks, TaskTypes
  <2>2. [type |-> "exec", pid |-> LeaderPid(p), program |-> tasks[p].execs, thread |-> p # LeaderPid(p)] \in SampleRecord
    BY <2>1 DEF SampleRecord, ExecSample
  <2>3. TransitTypeOK' /\ CacheTypeOK'
    BY <1>8, <2>2, AppendsType, KernelWrites
  <2>4. TasksTypeOK'
    BY <1>8, ExecEndTasks
  <2>. QED
    BY <1>8, <2>3, <2>4 DEF TypeOK, ExecEnd
<1>9. ASSUME Handle PROVE TypeOK'
  <2>1. TasksTypeOK' /\ CountersTypeOK' /\ isArray' \in BOOLEAN
    BY <1>9, HandleTakes DEF TypeOK, CacheTypeOK
  <2>2. TransitTypeOK'
    BY <1>9, HandleTakes, TailAt DEF TypeOK, TransitTypeOK
  <2>3. cache' \in [Pids -> EntryRecord]
    <3>1. CASE Sampled.type = "newtask"
      <4>1. Sampled \in SampleRecord /\ DecodeNewTask(Sampled)
        BY <1>9, <3>1, HandleTakes
      <4>2. CASE hung'
        BY <4>1, <4>2, <1>9, HandleTakes DEF DecodeNewTask, TypeOK, CacheTypeOK
      <4>3. CASE ~hung'
        <5>1. PICK e \in EntryRecord : cache' = [cache EXCEPT ![Sampled.pid] = e]
          BY <3>1, <4>1, <4>3, HandleNewTask
        <5>. QED
          BY <5>1 DEF TypeOK, CacheTypeOK
      <4>. QED
        BY <4>2, <4>3
    <3>2. CASE Sampled.type # "newtask"
      BY <1>9, <3>2, HandleKeeps
    <3>. QED
      BY <3>1, <3>2
  <2>. QED
    BY <2>1, <2>2, <2>3 DEF TypeOK, CacheTypeOK
<1>. QED
  BY <1>1, <1>2, <1>3, <1>4, <1>5, <1>6, <1>7, <1>8, <1>9 DEF Next

\* Tasks that end leave no other without its leader.
LEMMA KernelOf ==
  ASSUME TypeOK, KernelOK, taskCount' = taskCount, Alive' \subseteq Alive, 1 \in Alive',
         \A q \in Alive' : tasks'[q].number = tasks[q].number /\ tasks'[q].leader = tasks[q].leader,
         \A q \in Alive', l \in Alive : tasks[l].number = tasks[q].leader => l \in Alive'
  PROVE  KernelOK'
<1>1. \A p \in Alive' : tasks'[p].number <= taskCount' /\ tasks'[p].leader <= taskCount'
  BY DEF KernelOK
<1>2. \A p, q \in Alive' : tasks'[p].number = tasks'[q].number => p = q
  BY DEF KernelOK
<1>3. ASSUME NEW p \in Alive'
      PROVE  \E q \in Alive' : tasks'[q].number = tasks'[p].leader /\ tasks'[q].leader = tasks'[p].leader
  <2>1. PICK q \in Alive : tasks[q].number = tasks[p].leader /\ tasks[q].leader = tasks[p].leader
    BY <1>3 DEF KernelOK
  <2>. QED
    BY <1>3, <2>1
<1>4. tasks'[1].number = 1 /\ tasks'[1].leader = 1
  BY DEF KernelOK
<1>. QED
  BY <1>1, <1>2, <1>3, <1>4 DEF KernelOK

LEMMA KernelStep ==
  ASSUME TypeOK, KernelOK, Next
  PROVE  KernelOK'
<1>1. ASSUME NEW p \in Pids, NEW child \in Pids, NEW thread \in BOOLEAN, NewTask(p, child, thread)
      PROVE  KernelOK'
  <2>. DEFINE n == taskCount + 1
  <2>1. /\ p \in Alive /\ child \notin Alive /\ Alive' = Alive \cup {child}
        /\ tasks'[child].number = n
        /\ tasks'[child].leader = tasks[p].leader \/ tasks'[child].leader = n
        /\ \A q \in Alive : tasks'[q].number = tasks[q].number /\ tasks'[q].leader = tasks[q].leader
    BY <1>1, NewTaskTasks
  <2>2. taskCount' = n /\ taskCount \in Nat
    BY <1>1 DEF NewTask, TypeOK, CountersTypeOK
  <2>3. \A q \in Alive : /\ tasks[q].number \in Nat /\ tasks[q].leader \in Nat
                         /\ tasks[q].number <= taskCount /\ tasks[q].leader <= taskCount
    BY TaskTypes DEF KernelOK
  <2>4. \A q \in Alive' : tasks'[q].number <= taskCount' /\ tasks'[q].leader <= taskCount'
    <3>1. ASSUME NEW q \in Alive PROVE tasks'[q].number <= taskCount' /\ tasks'[q].leader <= taskCount'
      BY <2>1, <2>2, <2>3
    <3>2. tasks'[child].number <= taskCount' /\ tasks'[child].leader <= taskCount'
      BY <2>1, <2>2, <2>3
    <3>. QED
      BY <2>1, <3>1, <3>2
  <2>5. \A q, r \in Alive' : tasks'[q].number = tasks'[r].number => q = r
    <3>1. ASSUME NEW q \in Alive, NEW r \in Alive, tasks'[q].number = tasks'[r].number PROVE q = r
      BY <2>1, <3>1 DEF KernelOK
    <3>2. ASSUME NEW q \in Alive PROVE tasks'[q].number # n
      BY <2>1, <2>2, <2>3
    <3>. QED
      BY <2>1, <3>1, <3>2
  <2>6. ASSUME NEW q \in Alive
        PROVE  \E r \in Alive : tasks'[r].number = tasks[q].leader /\ tasks'[r].leader = tasks[q].leader
    BY <2>1 DEF KernelOK
  <2>7. \A q \in Alive' : \E r \in Alive' : tasks'[r].number = tasks'[q].leader /\ tasks'[r].leader = tasks'[q].leader
    <3>1. ASSUME NEW q \in Alive
          PROVE  \E r \in Alive' : tasks'[r].number = tasks'[q].leader /\ tasks'[r].leader = tasks'[q].leader
      BY <2>1, <2>6
    <3>2. \E r \in Alive' : tasks'[r].number = tasks'[child].leader /\ tasks'[r].leader = tasks'[child].leader
      BY <2>1, <2>6
    <3>. QED
      BY <2>1, <3>1, <3>2
  <2>. QED
    BY <2>1, <2>4, <2>5, <2>7 DEF KernelOK
<1>2. ASSUME NEW p \in Pids, Exit(p) PROVE KernelOK'
  <2>1. p \in Alive /\ p # 1 /\ Alive' = Alive \ {p} /\ \A q \in Alive' : tasks'[q] = tasks[q]
    BY <1>2, ExitTasks
  <2>2. IsLeader(p) => Group(p) = {p}
    BY <1>2 DEF Exit
  <2>3. ASSUME NEW q \in Alive', NEW l \in Alive, tasks[l].number = tasks[q].leader PROVE l \in Alive'
    <3>1. PICK r \in Alive : tasks[r].number = tasks[q].leader /\ tasks[r].leader = tasks[q].leader
      BY <2>1 DEF KernelOK
    <3>2. r = l
      BY <2>3, <3>1 DEF KernelOK
    <3>3. l = p => q \in Group(p) /\ IsLeader(p)
      BY <2>1, <2>3, <3>1, <3>2 DEF Group, IsLeader
    <3>. QED
      BY <2>1, <2>2, <3>3
  <2>. QED
    BY <1>2, <2>1, <2>3, KernelOf DEF Exit, KernelOK
<1>3. ASSUME Alive' = Alive, taskCount' = taskCount,
             \A q \in Alive : tasks'[q].number = tasks[q].number /\ tasks'[q].leader = tasks[q].leader
      PROVE  KernelOK'
  BY <1>3, KernelOf DEF KernelOK
<1>4. ASSUME NEW p \in Pids, NEW c \in Containers, Join(p, c) PROVE KernelOK'
  BY <1>3, <1>4, JoinTasks DEF Join
<1>5. ASSUME NEW p \in Pids, ExecBegin(p) \/ ExecFails(p) PROVE KernelOK'
  BY <1>3, <1>5, ExecTasks DEF ExecBegin, ExecFails
<1>6. ASSUME NEW p \in Pids, ExecEnd(p) PROVE KernelOK'
  <2>. DEFINE leader == LeaderPid(p)
  <2>1. /\ p \in Alive /\ leader \in Alive /\ leader \in Alive' /\ Alive' \subseteq Alive
        /\ \A q \in Alive : tasks[q].leader # tasks[p].leader => q \in Alive'
        /\ \A q \in Alive' : tasks'[q].number = tasks[q].number /\ tasks'[q].leader = tasks[q].leader
    BY <1>6, ExecEndTasks
  <2>2. tasks[leader].number = tasks[p].leader /\ tasks[leader].leader = tasks[p].leader
    BY <2>1, LeaderIsAlive
  <2>. HIDE DEF leader
  <2>3. ASSUME NEW q \in Alive', NEW l \in Alive, tasks[l].number = tasks[q].leader PROVE l \in Alive'
    <3>1. PICK r \in Alive : tasks[r].number = tasks[q].leader /\ tasks[r].leader = tasks[q].leader
      BY <2>1 DEF KernelOK
    <3>2. r = l
      BY <2>3, <3>1 DEF KernelOK
    <3>3. tasks[l].leader = tasks[p].leader => l = leader
      BY <2>1, <2>2, <2>3, <3>1, <3>2 DEF KernelOK
    <3>. QED
      BY <2>1, <3>3
  <2>4. 1 \in Alive'
    <3>1. tasks[1].leader = tasks[p].leader => leader = 1
      BY <2>1, <2>2 DEF KernelOK
    <3>. QED
      BY <2>1, <3>1 DEF KernelOK
  <2>. QED
    BY <1>6, <2>1, <2>3, <2>4, KernelOf DEF ExecEnd
<1>7. ASSUME UNCHANGED <<tasks, taskCount>> PROVE KernelOK'
  BY <1>7 DEF KernelOK, Alive
<1>. QED
  BY <1>1, <1>2, <1>4, <1>5, <1>6, <1>7, HandleTakes DEF Next, Rename, Sample

-----------------------------------------------------------------------------
(* The entries of the cache, and the order of the samples. *)

\* What a step appends is behind what there was; what the dispatcher handles is
\* one place nearer for the others.
LEMMA Appended ==
  ASSUME TypeOK, NEW x \in SampleRecord, Appends(x)
  PROVE  /\ Len(transit) \in Nat /\ Len(transit)' = Len(transit) + 1
         /\ DOMAIN transit = 1 .. Len(transit) /\ DOMAIN transit' = 1 .. Len(transit) + 1
         /\ \A n \in DOMAIN transit : transit'[n] = transit[n]
         /\ transit'[Len(transit) + 1] = x
         /\ cache' = cache /\ isArray' = isArray /\ event' = event /\ hung' = hung
BY AppendAt DEF Appends, TypeOK, TransitTypeOK

LEMMA Taken ==
  ASSUME TypeOK, Handle
  PROVE  /\ Len(transit) \in Nat /\ Len(transit)' = Len(transit) - 1
         /\ DOMAIN transit = 1 .. Len(transit) /\ DOMAIN transit' = 1 .. Len(transit) - 1
         /\ 1 \in DOMAIN transit
         /\ \A n \in DOMAIN transit' : n + 1 \in DOMAIN transit /\ transit'[n] = transit[n + 1]
BY HandleTakes, TailAt DEF TypeOK, TransitTypeOK

\* A step is a new task, one that enters a container, one of the dispatcher, or it
\* leaves the tasks their processes and containers, and writes at most one sample
\* of a task that is there.
TasksStay ==
  /\ Alive' \subseteq Alive /\ UNCHANGED <<reused, taskCount>>
  /\ \A q \in Alive' : /\ tasks'[q].id = tasks[q].id /\ tasks'[q].container = tasks[q].container
                       /\ tasks'[q].forked = tasks[q].forked

Tells(x) ==
  /\ Appends(x) /\ x.type # "newtask" /\ x.pid \in Alive
  /\ x.type = "sample" => x.id = tasks[x.pid].id /\ x.container = tasks[x.pid].container
  /\ x.type = "rename" => tasks[x.pid].container # None

LEMMA StepCases ==
  ASSUME TypeOK, KernelOK, Next
  PROVE  \/ \E p, child \in Pids, thread \in BOOLEAN : NewTask(p, child, thread)
         \/ \E p \in Pids, c \in Containers : Join(p, c)
         \/ TasksStay /\ Quiet
         \/ TasksStay /\ \E x \in SampleRecord : Tells(x)
         \/ Handle
<1>1. ASSUME NEW p \in Pids, Exit(p) PROVE TasksStay /\ Quiet
  BY <1>1, ExitTasks, KernelWrites DEF TasksStay, Exit
<1>2. ASSUME NEW p \in Pids, ExecFails(p) PROVE TasksStay /\ Quiet
  BY <1>2, ExecTasks, KernelWrites DEF TasksStay, ExecFails
<1>3. ASSUME NEW p \in Pids, Rename(p) PROVE TasksStay /\ \E x \in SampleRecord : Tells(x)
  <2>. DEFINE x == [type |-> "rename", pid |-> p]
  <2>1. x \in SampleRecord /\ Appends(x) /\ x.type = "rename" /\ x.pid = p
    BY <1>3, KernelWrites DEF SampleRecord, RenameSample
  <2>2. p \in Alive /\ TasksStay /\ tasks[p].container # None
    BY <1>3 DEF Rename, Runs, TasksStay, Alive
  <2>. HIDE DEF x
  <2>. QED
    BY <2>1, <2>2 DEF Tells
<1>4. ASSUME NEW p \in Pids, Sample(p) PROVE TasksStay /\ \E x \in SampleRecord : Tells(x)
  <2>. DEFINE x == [type |-> "sample", pid |-> p, id |-> tasks[p].id, container |-> tasks[p].container]
  <2>1. p \in Alive /\ TasksStay
    BY <1>4 DEF Sample, Runs, TasksStay, Alive
  <2>2. tasks[p].id \in Ids /\ tasks[p].container \in Containers \cup {None}
    BY <2>1, TaskTypes
  <2>3. x \in SampleRecord /\ Appends(x) /\ x.type = "sample" /\ x.pid = p /\ x.id = tasks[p].id /\ x.container = tasks[p].container
    BY <1>4, <2>2, KernelWrites DEF SampleRecord, OtherSample
  <2>. HIDE DEF x
  <2>. QED
    BY <2>1, <2>3 DEF Tells
<1>5. ASSUME NEW p \in Pids, ExecBegin(p) PROVE TasksStay /\ \E x \in SampleRecord : Tells(x)
  <2>. DEFINE x == [type |-> "execve", pid |-> p, program |-> written + 1]
  <2>1. x \in SampleRecord /\ Appends(x) /\ x.type = "execve" /\ x.pid = p
    <3>1. written + 1 \in Nat
      BY DEF TypeOK, CountersTypeOK
    <3>. QED
      BY <1>5, <3>1, KernelWrites DEF SampleRecord, ExecveSample
  <2>2. p \in Alive /\ TasksStay
    BY <1>5, ExecTasks DEF TasksStay, ExecBegin
  <2>. HIDE DEF x
  <2>. QED
    BY <2>1, <2>2 DEF Tells
<1>6. ASSUME NEW p \in Pids, ExecEnd(p) PROVE TasksStay /\ \E x \in SampleRecord : Tells(x)
  <2>1. p \in Alive /\ LeaderPid(p) \in Alive /\ TasksStay
    BY <1>6, ExecEndTasks DEF TasksStay, ExecEnd
  <2>2. LeaderPid(p) \in Pids /\ tasks[p].execs \in Nat
    BY <2>1, TaskTypes
  <2>. DEFINE x == [type |-> "exec", pid |-> LeaderPid(p), program |-> tasks[p].execs, thread |-> p # LeaderPid(p)]
  <2>3. x \in SampleRecord /\ Appends(x) /\ x.type = "exec" /\ x.pid = LeaderPid(p)
    BY <1>6, <2>2, KernelWrites DEF SampleRecord, ExecSample
  <2>. HIDE DEF x
  <2>. QED
    BY <2>1, <2>3 DEF Tells
<1>. QED
  BY <1>1, <1>2, <1>3, <1>4, <1>5, <1>6 DEF Next

LEMMA CacheStep ==
  ASSUME TypeOK, CacheOK, InOrder, Next, ~hung'
  PROVE  CacheOK'
<1>1. CASE UNCHANGED <<cache, isArray>>
  BY <1>1 DEF CacheOK, EntryOK, Found, Entry
<1>2. CASE Handle
  <2>1. isArray' = isArray /\ Sampled \in SampleRecord
    BY <1>2, HandleTakes
  <2>2. CASE Sampled.type # "newtask"
    <3>1. /\ \A q \in Pids : /\ cache'[q].pid = cache[q].pid /\ cache'[q].ppid = cache[q].ppid
                             /\ cache'[q].tgid = cache[q].tgid
          /\ Sampled.type # "execve" => \A q \in Pids : cache'[q].commandLine = cache[q].commandLine
      BY <1>2, <2>2, HandleKeeps
    <3>2. ASSUME NEW q \in Pids, ~isArray, ~Found(q), cache'[q].commandLine # cache[q].commandLine PROVE FALSE
      <4>1. DecodeExecve(Sampled) /\ Sampled.type = "execve"
        BY <1>2, <3>1, <3>2, HandleTakes
      <4>2. Settable(Sampled.pid) /\ Sampled.pid = q
        <5>1. CASE ~Settable(Sampled.pid)
          BY <2>1, <3>2, <4>1, <5>1, HandleExecve
        <5>2. CASE Settable(Sampled.pid)
          <6>1. PICK e \in EntryRecord : cache' = [cache EXCEPT ![Sampled.pid] = e]
            BY <2>1, <4>1, <5>2, HandleExecve
          <6>. QED
            BY <3>2, <5>2, <6>1 DEF TypeOK, CacheTypeOK
        <5>. QED
          BY <5>1, <5>2
      <4>. QED
        BY <3>2, <4>2 DEF Settable
    <3>3. ASSUME NEW q \in Pids PROVE EntryOK(q)'
      <4>1. Found(q)' <=> Found(q)
        BY <3>1 DEF Found, Entry
      <4>2. CASE Found(q)
        BY <3>1, <4>1, <4>2 DEF CacheOK, EntryOK
      <4>3. CASE ~Found(q)
        BY <2>1, <3>1, <3>2, <4>1, <4>3 DEF CacheOK, EntryOK
      <4>. QED
        BY <4>2, <4>3
    <3>. QED
      BY <3>3 DEF CacheOK
  <2>3. CASE Sampled.type = "newtask"
    <3>1. PICK e \in EntryRecord :
            /\ cache' = [cache EXCEPT ![Sampled.pid] = e]
            /\ e.pid = Sampled.pid /\ e.ppid = Sampled.parent
            /\ e.tgid = IF Sampled.thread THEN Sampled.parent ELSE Sampled.pid
      BY <1>2, <2>1, <2>3, HandleTakes, HandleNewTask
    <3>2. /\ Sampled.pid \in Pids /\ Sampled.parent \in Pids /\ Sampled.parent # Sampled.pid
          /\ e.tgid \in {Sampled.pid, Sampled.parent}
      BY <1>2, <2>1, <2>3, <3>1, HandleTakes, SampleTypes DEF InOrder
    <3>3. e.tgid # 0
      BY <3>2, PidBounds
    <3>4. cache'[Sampled.pid] = e /\ \A q \in Pids : q # Sampled.pid => cache'[q] = cache[q]
      BY <3>1, <3>2 DEF TypeOK, CacheTypeOK
    <3>5. ASSUME NEW q \in Pids, q # Sampled.pid PROVE EntryOK(q)'
      <4>1. cache'[q] = cache[q] /\ (Found(q)' <=> Found(q))
        BY <3>4, <3>5 DEF Found, Entry
      <4>. QED
        BY <2>1, <4>1 DEF CacheOK, EntryOK
    <3>6. ASSUME NEW q \in Pids, q = Sampled.pid PROVE EntryOK(q)'
      <4>1. cache'[q] = e /\ Found(q)'
        BY <3>2, <3>3, <3>4, <3>6 DEF Found, Entry
      <4>. QED
        BY <3>1, <3>2, <3>6, <4>1 DEF EntryOK
    <3>. QED
      BY <3>5, <3>6 DEF CacheOK
  <2>. QED
    BY <2>2, <2>3
<1>. QED
  BY <1>1, <1>2 DEF Next, NewTask, Exit, Join, Rename, ExecBegin, ExecFails, ExecEnd, Sample, Write

\* A task that is found stays found, and a new one is found when its sample is
\* handled.
LEMMA FoundStays ==
  ASSUME TypeOK, Handle, ~hung'
  PROVE  /\ \A q \in Pids : Found(q) => Found(q)'
         /\ \A q \in Pids : Sampled.type = "newtask" /\ Sampled.pid = q => Found(q)'
<1>1. Sampled \in SampleRecord /\ Sampled.pid \in Pids
  BY HandleTakes, SampleTypes
<1>2. CASE Sampled.type # "newtask"
  BY <1>2, HandleKeeps DEF Found, Entry
<1>3. CASE Sampled.type = "newtask"
  <2>1. PICK e \in EntryRecord :
          /\ cache' = [cache EXCEPT ![Sampled.pid] = e]
          /\ e.tgid = IF Sampled.thread THEN Sampled.parent ELSE Sampled.pid
    BY <1>1, <1>3, HandleTakes, HandleNewTask
  <2>2. e.tgid \in Pids
    BY <1>1, <1>3, <2>1, SampleTypes
  <2>3. e.tgid # 0
    BY <2>2, PidBounds
  <2>4. cache'[Sampled.pid] = e /\ \A q \in Pids : q # Sampled.pid => cache'[q] = cache[q]
    BY <1>1, <2>1 DEF TypeOK, CacheTypeOK
  <2>5. \A q \in Pids : Found(q)' <=> cache'[q].tgid # 0
    BY DEF Found, Entry
  <2>6. \A q \in Pids : Found(q) <=> cache[q].tgid # 0
    BY DEF Found, Entry
  <2>7. ASSUME NEW q \in Pids, q = Sampled.pid PROVE Found(q)'
    BY <1>1, <2>3, <2>4, <2>5, <2>7
  <2>8. ASSUME NEW q \in Pids, Found(q), q # Sampled.pid PROVE Found(q)'
    BY <2>4, <2>5, <2>6, <2>8
  <2>. QED
    BY <2>7, <2>8
<1>. QED
  BY <1>2, <1>3

\* What the dispatcher makes of an entry.
LEMMA HandleEntries ==
  ASSUME TypeOK, Handle, ~hung', NEW p \in Pids
  PROVE  /\ Sampled.type = "newtask" /\ Sampled.pid = p =>
              /\ Found(p)' /\ cache'[p].ppid = Sampled.parent
              /\ Sampled.thread => cache'[p].tgid = Sampled.parent
              /\ ~Sampled.thread => cache'[p].tgid = p
              /\ cache'[p].containerId = ContainerId(Sampled.parent)
              /\ ContainerId(Sampled.parent) # "circle"
              /\ cache'[p].commandLine = 0
         /\ ~(Sampled.type = "newtask" /\ Sampled.pid = p) =>
              /\ Found(p)' <=> Found(p)
              /\ cache'[p].ppid = cache[p].ppid /\ cache'[p].tgid = cache[p].tgid
              /\ Sampled.type # "rename" => cache'[p].containerId = cache[p].containerId
<1>1. (Found(p)' <=> cache'[p].tgid # 0) /\ (Found(p) <=> cache[p].tgid # 0)
  BY DEF Found, Entry
<1>2. CASE Sampled.type # "newtask"
  BY <1>1, <1>2, HandleKeeps
<1>3. CASE Sampled.type = "newtask"
  <2>1. Sampled \in SampleRecord /\ Sampled.pid \in Pids /\ Sampled.parent \in Pids /\ Sampled.thread \in BOOLEAN
    BY <1>3, HandleTakes, SampleTypes
  <2>2. PICK e \in EntryRecord :
          /\ cache' = [cache EXCEPT ![Sampled.pid] = e]
          /\ e.pid = Sampled.pid /\ e.ppid = Sampled.parent
          /\ e.tgid = IF Sampled.thread THEN Sampled.parent ELSE Sampled.pid
          /\ e.containerId = ContainerId(Sampled.parent) /\ ContainerId(Sampled.parent) # "circle"
          /\ e.commandLine = 0
    BY <1>3, <2>1, HandleTakes, HandleNewTask
  <2>3. cache'[Sampled.pid] = e /\ \A q \in Pids : q # Sampled.pid => cache'[q] = cache[q]
    BY <2>1, <2>2 DEF TypeOK, CacheTypeOK
  <2>4. e.tgid # 0
    BY <2>1, <2>2, PidBounds
  <2>5. CASE Sampled.pid = p
    BY <1>1, <1>3, <2>2, <2>3, <2>4, <2>5
  <2>6. CASE Sampled.pid # p
    BY <1>1, <2>3, <2>6
  <2>. QED
    BY <2>5, <2>6
<1>. QED
  BY <1>2, <1>3

LEMMA ComesBeforeAppends ==
  ASSUME TypeOK, NEW x \in SampleRecord, Appends(x), NEW p \in Pids, NEW n \in Nat, ComesBefore(p, n)
  PROVE  ComesBefore(p, n)'
<1>1. Found(p)' <=> Found(p)
  BY Appended DEF Found, Entry
<1>2. \A i \in DOMAIN transit : i \in DOMAIN transit' /\ transit'[i] = transit[i]
  BY Appended
<1>. QED
  BY <1>1, <1>2 DEF ComesBefore

LEMMA ComesBeforeHandles ==
  ASSUME TypeOK, Handle, ~hung', NEW p \in Pids, NEW n \in Nat, ComesBefore(p, n)
  PROVE  ComesBefore(p, n - 1)'
<1>1. CASE p = 1 \/ Found(p)
  BY <1>1, FoundStays DEF ComesBefore
<1>2. CASE \E i \in 1 .. n : i \in DOMAIN transit /\ transit[i].type = "newtask" /\ transit[i].pid = p
  <2>1. PICK i \in 1 .. n : i \in DOMAIN transit /\ transit[i].type = "newtask" /\ transit[i].pid = p
    BY <1>2
  <2>2. CASE i = 1
    BY <2>1, <2>2, FoundStays, HandleTakes DEF ComesBefore
  <2>3. CASE i # 1
    <3>1. i - 1 \in 1 .. n - 1 /\ i - 1 \in DOMAIN transit' /\ (i - 1) + 1 = i
      BY <2>1, <2>3, Taken
    <3>2. transit'[i - 1] = transit[i]
      BY <3>1, Taken
    <3>. QED
      BY <2>1, <3>1, <3>2 DEF ComesBefore
  <2>. QED
    BY <2>2, <2>3
<1>. QED
  BY <1>1, <1>2 DEF ComesBefore

LEMMA ComesBeforeLater ==
  ASSUME NEW p, NEW n \in Nat, NEW m \in Nat, n <= m, ComesBefore(p, n)
  PROVE  ComesBefore(p, m)
BY DEF ComesBefore

\* A sample of a task that is there, or of one that it creates, is in order.
LEMMA OrderAppends ==
  ASSUME TypeOK, CacheOK, InOrder, NEW x \in SampleRecord, Appends(x),
         \A p \in Alive' : p \in Alive \/ (x.type = "newtask" /\ x.pid = p),
         x.type = "newtask" => x.parent \in Alive /\ x.parent # x.pid,
         x.type # "newtask" => x.pid \in Alive
  PROVE  InOrder'
<1>1. PICK N \in Nat : N = Len(transit)
  BY Appended
<1>2. /\ Len(transit)' = N + 1 /\ DOMAIN transit = 1 .. N /\ DOMAIN transit' = 1 .. N + 1
      /\ \A n \in 1 .. N : transit'[n] = transit[n] /\ transit[n] \in SampleRecord
      /\ transit'[N + 1] = x /\ cache' = cache
  BY <1>1, Appended DEF TypeOK, TransitTypeOK
<1>3. ASSUME NEW p \in Alive PROVE p \in Pids /\ ComesBefore(p, N) /\ ComesBefore(p, N)' /\ ComesBefore(p, N + 1)'
  <2>1. p \in Pids /\ ComesBefore(p, N)
    BY <1>1, <1>3, TaskTypes DEF InOrder
  <2>2. ComesBefore(p, N)'
    BY <2>1, ComesBeforeAppends
  <2>. QED
    BY <2>1, <2>2 DEF ComesBefore
<1>4. x.type = "newtask" => ComesBefore(x.pid, N + 1)'
  BY <1>2 DEF ComesBefore
<1>5. \A p \in Alive' : ComesBefore(p, N + 1)'
  BY <1>3, <1>4
<1>6. ASSUME NEW n \in 1 .. N + 1 PROVE ComesBefore(transit[n].pid, n)'
  <2>1. CASE n = N + 1
    BY <1>2, <1>3, <1>4, <2>1
  <2>2. CASE n # N + 1
    <3>1. n \in 1 .. N /\ n \in Nat
      BY <2>2
    <3>2. PICK q \in Pids : q = transit[n].pid
      BY <1>2, <3>1, SampleTypes
    <3>3. ComesBefore(q, n)
      BY <1>2, <3>1, <3>2 DEF InOrder
    <3>4. ComesBefore(q, n)'
      BY <3>1, <3>3, ComesBeforeAppends
    <3>. QED
      BY <1>2, <3>1, <3>2, <3>4
  <2>. QED
    BY <2>1, <2>2
<1>7. ASSUME NEW n \in 1 .. N + 1, transit'[n].type = "newtask"
      PROVE  ComesBefore(transit[n].parent, n - 1)' /\ transit'[n].parent # transit'[n].pid
  <2>1. CASE n = N + 1
    BY <1>2, <1>3, <1>7, <2>1
  <2>2. CASE n # N + 1
    <3>1. n \in 1 .. N /\ n - 1 \in Nat
      BY <2>2
    <3>2. PICK q \in Pids : q = transit[n].parent
      BY <1>2, <1>7, <3>1, SampleTypes
    <3>3. ComesBefore(q, n - 1) /\ q # transit[n].pid
      BY <1>2, <1>7, <3>1, <3>2 DEF InOrder
    <3>4. ComesBefore(q, n - 1)'
      BY <3>1, <3>3, ComesBeforeAppends
    <3>. QED
      BY <1>2, <3>1, <3>2, <3>3, <3>4
  <2>. QED
    BY <2>1, <2>2
<1>8. ASSUME NEW p \in Pids, Found(p)' PROVE ComesBefore(cache[p].ppid, 0)'
  <2>1. Found(p)
    BY <1>2, <1>8 DEF Found, Entry
  <2>2. PICK q \in Pids : q = cache[p].ppid
    BY <2>1 DEF CacheOK, EntryOK
  <2>3. ComesBefore(q, 0)'
    BY <2>1, <2>2, ComesBeforeAppends DEF InOrder
  <2>. QED
    BY <1>2, <2>2, <2>3
<1>. QED
  BY <1>2, <1>5, <1>6, <1>7, <1>8 DEF InOrder

LEMMA OrderHandles ==
  ASSUME TypeOK, CacheOK, InOrder, Handle, ~hung'
  PROVE  InOrder'
<1>1. PICK N \in Nat : N = Len(transit)
  BY Taken
<1>2. /\ N - 1 \in Nat /\ Len(transit)' = N - 1 /\ DOMAIN transit = 1 .. N /\ DOMAIN transit' = 1 .. N - 1
      /\ \A n \in 1 .. N - 1 : n + 1 \in 1 .. N /\ transit'[n] = transit[n + 1]
      /\ \A n \in 1 .. N : transit[n] \in SampleRecord
  BY <1>1, Taken DEF TypeOK, TransitTypeOK
<1>3. ASSUME NEW p \in Alive' PROVE ComesBefore(p, N - 1)'
  <2>1. p \in Alive /\ p \in Pids
    BY <1>3, HandleTakes DEF Alive
  <2>. QED
    BY <1>1, <2>1, ComesBeforeHandles DEF InOrder
<1>4. ASSUME NEW n \in 1 .. N - 1 PROVE ComesBefore(transit[n].pid, n)'
  <2>1. n + 1 \in 1 .. N /\ transit'[n] = transit[n + 1] /\ n + 1 \in Nat /\ (n + 1) - 1 = n
    BY <1>2
  <2>2. PICK q \in Pids : q = transit[n + 1].pid
    BY <1>2, <2>1, SampleTypes
  <2>3. ComesBefore(q, n + 1)
    BY <1>2, <2>1, <2>2 DEF InOrder
  <2>4. ComesBefore(q, (n + 1) - 1)'
    BY <2>1, <2>3, ComesBeforeHandles
  <2>. QED
    BY <2>1, <2>2, <2>4
<1>5. ASSUME NEW n \in 1 .. N - 1, transit'[n].type = "newtask"
      PROVE  ComesBefore(transit[n].parent, n - 1)' /\ transit'[n].parent # transit'[n].pid
  <2>1. n + 1 \in 1 .. N /\ transit'[n] = transit[n + 1] /\ n \in Nat /\ (n + 1) - 1 = n
    BY <1>2
  <2>2. PICK q \in Pids : q = transit[n + 1].parent
    BY <1>2, <1>5, <2>1, SampleTypes
  <2>3. ComesBefore(q, n) /\ q # transit[n + 1].pid
    BY <1>2, <1>5, <2>1, <2>2 DEF InOrder
  <2>4. ComesBefore(q, n - 1)'
    BY <2>1, <2>3, ComesBeforeHandles
  <2>. QED
    BY <2>1, <2>2, <2>3, <2>4
<1>6. ASSUME NEW p \in Pids, Found(p)' PROVE ComesBefore(cache[p].ppid, 0)'
  <2>1. PICK q \in Pids : q = cache'[p].ppid
    <3>1. CacheOK'
      BY CacheStep DEF Next
    <3>. QED
      BY <1>6, <3>1 DEF CacheOK, EntryOK
  <2>2. CASE Found(p) /\ cache[p].ppid = q
    <3>1. ComesBefore(q, 0)
      BY <2>2 DEF InOrder
    <3>2. ComesBefore(q, 0)'
      BY <3>1, FoundStays DEF ComesBefore
    <3>. QED
      BY <2>1, <3>2
  <2>3. CASE ~(Found(p) /\ cache[p].ppid = q)
    <3>1. Sampled.type = "newtask" /\ Sampled.pid = p /\ Sampled.parent = q
      BY <1>6, <2>1, <2>3, HandleEntries
    <3>2. transit[1] = Sampled /\ 1 \in 1 .. N
      BY <1>2, HandleTakes
    <3>3. ComesBefore(q, 0)
      BY <1>2, <3>1, <3>2 DEF InOrder
    <3>4. ComesBefore(q, 0)'
      BY <3>3, FoundStays DEF ComesBefore
    <3>. QED
      BY <2>1, <3>4
  <2>. QED
    BY <2>2, <2>3
<1>. QED
  BY <1>2, <1>3, <1>4, <1>5, <1>6 DEF InOrder

LEMMA OrderStep ==
  ASSUME TypeOK, KernelOK, CacheOK, InOrder, Next, ~hung'
  PROVE  InOrder'
<1>1. ASSUME NEW p \in Pids, NEW child \in Pids, NEW thread \in BOOLEAN, NewTask(p, child, thread)
      PROVE  InOrder'
  <2>. DEFINE x == [type |-> "newtask", pid |-> child, parent |-> p, thread |-> thread]
  <2>1. x \in SampleRecord /\ Appends(x) /\ x.type = "newtask" /\ x.pid = child /\ x.parent = p
    BY <1>1, KernelWrites DEF SampleRecord, NewTaskSample
  <2>. HIDE DEF x
  <2>. QED
    BY <1>1, <2>1, NewTaskTasks, OrderAppends
<1>2. ASSUME TasksStay, NEW x \in SampleRecord, Tells(x) PROVE InOrder'
  BY <1>2, OrderAppends DEF TasksStay, Tells
<1>3. ASSUME Alive' \subseteq Alive, Quiet PROVE InOrder'
  BY <1>3 DEF InOrder, ComesBefore, Found, Entry, Quiet
<1>4. ASSUME NEW p \in Pids, NEW c \in Containers, Join(p, c) PROVE InOrder'
  <2>1. Alive' \subseteq Alive /\ Quiet
    BY <1>4, JoinTasks, KernelWrites
  <2>. QED
    BY <1>3, <2>1
<1>5. CASE Handle
  BY <1>5, OrderHandles
<1>. QED
  BY <1>1, <1>2, <1>3, <1>4, <1>5, StepCases DEF TasksStay

-----------------------------------------------------------------------------
(* Children and parents. *)

LEMMA ChildrenAppended ==
  ASSUME TypeOK, NEW x \in SampleRecord, Appends(x), NEW c \in Pids, NEW p \in Pids
  PROVE  /\ ThreadOf(c, p)' => ThreadOf(c, p) \/ (x.type = "newtask" /\ c = x.pid /\ p = x.parent /\ x.thread)
         /\ ForkOf(c, p)' => ForkOf(c, p) \/ (x.type = "newtask" /\ c = x.pid /\ p = x.parent /\ ~x.thread)
         /\ ChildOf(c, p)' => ChildOf(c, p) \/ (x.type = "newtask" /\ c = x.pid /\ p = x.parent)
<1>1. PICK N \in Nat : N = Len(transit)
  BY Appended
<1>2. /\ DOMAIN transit = 1 .. N /\ DOMAIN transit' = 1 .. N + 1
      /\ \A n \in 1 .. N : transit'[n] = transit[n]
      /\ transit'[N + 1] = x /\ cache' = cache
  BY <1>1, Appended
<1>3. Found(c)' <=> Found(c)
  BY <1>2 DEF Found, Entry
<1>4. ASSUME NEW n \in DOMAIN transit', IsNew(n, c, p)'
      PROVE  \/ n \in DOMAIN transit /\ IsNew(n, c, p) /\ transit'[n] = transit[n]
             \/ x.type = "newtask" /\ c = x.pid /\ p = x.parent /\ transit'[n] = x
  <2>1. CASE n = N + 1
    BY <1>2, <1>4, <2>1 DEF IsNew
  <2>2. CASE n # N + 1
    <3>1. n \in 1 .. N
      BY <1>2, <2>2
    <3>. QED
      BY <1>2, <1>4, <3>1 DEF IsNew
  <2>. QED
    BY <2>1, <2>2
<1>5. ThreadOf(c, p)' => ThreadOf(c, p) \/ (x.type = "newtask" /\ c = x.pid /\ p = x.parent /\ x.thread)
  <2>1. CASE Found(c)' /\ cache'[c].ppid = p /\ cache'[c].tgid # c
    BY <1>2, <1>3, <2>1 DEF ThreadOf
  <2>2. ASSUME NEW n \in DOMAIN transit', IsNew(n, c, p)', transit'[n].thread
        PROVE  ThreadOf(c, p) \/ (x.type = "newtask" /\ c = x.pid /\ p = x.parent /\ x.thread)
    BY <1>4, <2>2 DEF ThreadOf
  <2>. QED
    BY <2>1, <2>2 DEF ThreadOf
<1>6. ForkOf(c, p)' => ForkOf(c, p) \/ (x.type = "newtask" /\ c = x.pid /\ p = x.parent /\ ~x.thread)
  <2>1. CASE Found(c)' /\ cache'[c].ppid = p /\ cache'[c].tgid = c
    BY <1>2, <1>3, <2>1 DEF ForkOf
  <2>2. ASSUME NEW n \in DOMAIN transit', IsNew(n, c, p)', ~transit'[n].thread
        PROVE  ForkOf(c, p) \/ (x.type = "newtask" /\ c = x.pid /\ p = x.parent /\ ~x.thread)
    BY <1>4, <2>2 DEF ForkOf
  <2>. QED
    BY <2>1, <2>2 DEF ForkOf
<1>7. ChildOf(c, p)' => ChildOf(c, p) \/ (x.type = "newtask" /\ c = x.pid /\ p = x.parent)
  <2>1. CASE Found(c)' /\ cache'[c].ppid = p
    BY <1>2, <1>3, <2>1 DEF ChildOf
  <2>2. ASSUME NEW n \in DOMAIN transit', IsNew(n, c, p)'
        PROVE  ChildOf(c, p) \/ (x.type = "newtask" /\ c = x.pid /\ p = x.parent)
    BY <1>4, <2>2 DEF ChildOf
  <2>. QED
    BY <2>1, <2>2 DEF ChildOf
<1>. QED
  BY <1>5, <1>6, <1>7

LEMMA ChildrenQuiet ==
  ASSUME Quiet, NEW c \in Pids, NEW p \in Pids
  PROVE  /\ ThreadOf(c, p)' <=> ThreadOf(c, p)
         /\ ForkOf(c, p)' <=> ForkOf(c, p)
         /\ ChildOf(c, p)' <=> ChildOf(c, p)
BY DEF Quiet, ThreadOf, ForkOf, ChildOf, IsNew, Found, Entry

LEMMA ChildrenHandled ==
  ASSUME TypeOK, InOrder, Handle, ~hung', NEW c \in Pids, NEW p \in Pids
  PROVE  /\ ThreadOf(c, p)' => ThreadOf(c, p)
         /\ ForkOf(c, p)' => ForkOf(c, p)
         /\ ChildOf(c, p)' => ChildOf(c, p)
<1>1. ASSUME NEW n \in DOMAIN transit', IsNew(n, c, p)'
      PROVE  n + 1 \in DOMAIN transit /\ IsNew(n + 1, c, p) /\ transit'[n] = transit[n + 1]
  BY <1>1, Taken DEF IsNew
<1>2. CASE Sampled.type = "newtask" /\ Sampled.pid = c
  <2>1. /\ 1 \in DOMAIN transit /\ Sampled = transit[1] /\ Sampled \in SampleRecord
        /\ Sampled.thread \in BOOLEAN /\ Sampled.parent # c
    BY <1>2, HandleTakes, SampleTypes DEF InOrder
  <2>2. /\ cache'[c].ppid = Sampled.parent
        /\ Sampled.thread => cache'[c].tgid = Sampled.parent
        /\ ~Sampled.thread => cache'[c].tgid = c
    BY <1>2, HandleEntries
  <2>3. cache'[c].ppid = p => IsNew(1, c, p)
    BY <1>2, <2>1, <2>2 DEF IsNew
  <2>4. (cache'[c].tgid # c => transit[1].thread) /\ (cache'[c].tgid = c => ~transit[1].thread)
    BY <2>1, <2>2
  <2>. QED
    BY <1>1, <2>1, <2>3, <2>4 DEF ThreadOf, ForkOf, ChildOf
<1>3. CASE ~(Sampled.type = "newtask" /\ Sampled.pid = c)
  <2>1. (Found(c)' <=> Found(c)) /\ cache'[c].ppid = cache[c].ppid /\ cache'[c].tgid = cache[c].tgid
    BY <1>3, HandleEntries
  <2>. QED
    BY <1>1, <2>1 DEF ThreadOf, ForkOf, ChildOf
<1>. QED
  BY <1>2, <1>3

\* Nothing on the way or in the cache is about a pid that is not remembered.
LEMMA Unmentioned ==
  ASSUME InOrder, NEW q \in Pids, q # 1, ~Remembered(q)
  PROVE  /\ ~Found(q) /\ cache[q] = Unknown
         /\ \A n \in DOMAIN transit : transit[n].pid # q /\ (transit[n].type = "newtask" => transit[n].parent # q)
         /\ \A p \in Pids : Found(p) => cache[p].ppid # q
         /\ \A p \in Pids : ~ChildOf(q, p) /\ ~ChildOf(p, q)
         /\ \A p \in Pids : ~ThreadOf(q, p) /\ ~ThreadOf(p, q) /\ ~ForkOf(q, p) /\ ~ForkOf(p, q)
<1>1. cache[q] = Unknown /\ \A n \in DOMAIN transit : transit[n].pid # q
  BY DEF Remembered
<1>2. ~Found(q)
  BY <1>1 DEF Found, Entry, Unknown
<1>3. \A n : ~ComesBefore(q, n)
  BY <1>1, <1>2 DEF ComesBefore
<1>4. \A n \in DOMAIN transit : transit[n].type = "newtask" => transit[n].parent # q
  BY <1>3 DEF InOrder
<1>5. \A p \in Pids : Found(p) => cache[p].ppid # q
  BY <1>3 DEF InOrder
<1>. QED
  BY <1>1, <1>2, <1>4, <1>5 DEF ChildOf, ThreadOf, ForkOf, IsNew

\* What a new task adds.
NewSample(p, child, thread) == [type |-> "newtask", pid |-> child, parent |-> p, thread |-> thread]

LEMMA NewTaskWrites ==
  ASSUME TypeOK, KernelOK, InOrder, NEW p \in Pids, NEW child \in Pids, NEW thread \in BOOLEAN, NewTask(p, child, thread)
  PROVE  /\ child # 1 /\ taskCount' = taskCount + 1 /\ taskCount \in Nat
         /\ reused \subseteq reused'
         /\ reused' \subseteq reused \cup {child}
         /\ child \notin reused' => ~Remembered(child)
         /\ \E x \in SampleRecord : /\ Appends(x) /\ x.type = "newtask" /\ x.pid = child /\ x.parent = p
                                   /\ x.thread \in BOOLEAN /\ x.thread = thread
<1>1. child # 1
  BY NewTaskTasks DEF KernelOK
<1>2. NewSample(p, child, thread) \in SampleRecord /\ Appends(NewSample(p, child, thread))
  BY KernelWrites DEF SampleRecord, NewTaskSample, NewSample
<1>3. /\ NewSample(p, child, thread).type = "newtask" /\ NewSample(p, child, thread).pid = child
      /\ NewSample(p, child, thread).parent = p /\ NewSample(p, child, thread).thread = thread
  BY DEF NewSample
<1>4. /\ taskCount' = taskCount + 1 /\ taskCount \in Nat
      /\ reused' = IF Remembered(child) THEN reused \cup {child} ELSE reused
  BY DEF NewTask, TypeOK, CountersTypeOK
<1>5. reused \subseteq reused' /\ reused' \subseteq reused \cup {child} /\ (child \notin reused' => ~Remembered(child))
  BY <1>4
<1>. QED
  BY <1>1, <1>2, <1>3, <1>4, <1>5

-----------------------------------------------------------------------------
(* The process ids, the ages and the containers of the last tasks of the pids. *)

LEMMA IdsStep ==
  ASSUME TypeOK, KernelOK, InOrder, Next, ~hung', NEW ids \in [Pids -> Ids], IdsOf(ids)
  PROVE  \E new \in [Pids -> Ids] : IdsOf(new)'
<1>1. ASSUME NEW p \in Pids, NEW child \in Pids, NEW thread \in BOOLEAN, NewTask(p, child, thread)
      PROVE  \E new \in [Pids -> Ids] : IdsOf(new)'
  <2>1. /\ p \in Alive /\ child \notin Alive /\ p # child /\ Alive' = Alive \cup {child}
        /\ thread => tasks'[child].id = tasks[p].id
        /\ ~thread => tasks'[child].id = <<child, p>>
        /\ \A q \in Alive : q \in Pids /\ q # child /\ tasks'[q].id = tasks[q].id
    <3>1. \A q \in Alive : q \in Pids
      BY DEF Alive
    <3>. QED
      BY <1>1, <3>1, NewTaskTasks
  <2>2. PICK d \in Ids : d = tasks'[child].id
    <3>1. tasks[p].id \in Ids /\ <<child, p>> \in Ids
      BY <2>1, TaskTypes DEF Ids
    <3>. QED
      BY <2>1, <3>1
  <2>3. PICK x \in SampleRecord : /\ Appends(x) /\ x.type = "newtask" /\ x.pid = child /\ x.parent = p
                                  /\ x.thread \in BOOLEAN /\ x.thread = thread
    BY <1>1, NewTaskWrites
  <2>4. /\ child # 1 /\ reused \subseteq reused' /\ reused' \subseteq reused \cup {child}
        /\ child \notin reused' => ~Remembered(child)
    BY <1>1, NewTaskWrites
  <2>. DEFINE new == [ids EXCEPT ![child] = d]
  <2>5. new \in [Pids -> Ids] /\ new[child] = d /\ \A q \in Pids : q # child => new[q] = ids[q]
    OBVIOUS
  <2>. HIDE DEF new
  <2>6. ids[p] = tasks[p].id /\ (thread => d = ids[p]) /\ (~thread => d = <<child, p>>)
    BY <2>1, <2>2 DEF IdsOf
  <2>7. new[1] = <<1, 0>>
    BY <2>4, <2>5, PidBounds DEF IdsOf
  <2>8. \A q \in Alive' : tasks'[q].id = new[q]
    BY <2>1, <2>2, <2>5 DEF IdsOf
  <2>9. ASSUME NEW n \in DOMAIN transit', transit'[n].type = "sample", transit'[n].pid \notin reused'
        PROVE  transit'[n].id = new[transit'[n].pid]
    <3>1. n \in DOMAIN transit /\ transit'[n] = transit[n]
      BY <2>3, <2>9, Appended
    <3>2. transit[n].pid \in Pids
      BY <3>1, <2>9, SampleTypes DEF TypeOK, TransitTypeOK
    <3>3. transit[n].pid # child
      BY <2>4, <2>9, <3>1, Unmentioned
    <3>. QED
      BY <2>4, <2>5, <2>9, <3>1, <3>2, <3>3 DEF IdsOf
  <2>10. ASSUME NEW c \in Pids, NEW q \in Pids, ThreadOf(c, q)', c \notin reused', q \notin reused' PROVE new[c] = new[q]
    <3>1. CASE ThreadOf(c, q)
      <4>1. c # child /\ q # child
        BY <2>4, <2>10, <3>1, Unmentioned
      <4>. QED
        BY <2>4, <2>5, <2>10, <3>1, <4>1 DEF IdsOf
    <3>2. CASE c = x.pid /\ q = x.parent /\ x.thread
      BY <2>1, <2>3, <2>5, <2>6, <3>2
    <3>. QED
      BY <2>3, <2>10, <3>1, <3>2, ChildrenAppended
  <2>11. ASSUME NEW c \in Pids, NEW q \in Pids, ForkOf(c, q)', c \notin reused' PROVE new[c] = <<c, q>>
    <3>1. CASE ForkOf(c, q)
      <4>1. c # child
        BY <2>4, <2>11, <3>1, Unmentioned
      <4>. QED
        BY <2>4, <2>5, <2>11, <3>1, <4>1 DEF IdsOf
    <3>2. CASE c = x.pid /\ q = x.parent /\ ~x.thread
      BY <2>1, <2>3, <2>5, <2>6, <3>2
    <3>. QED
      BY <2>3, <2>11, <3>1, <3>2, ChildrenAppended
  <2>. QED
    BY <2>5, <2>7, <2>8, <2>9, <2>10, <2>11 DEF IdsOf
<1>2. ASSUME Alive' \subseteq Alive, reused' = reused,
             \A q \in Alive' : tasks'[q].id = tasks[q].id,
             \A n \in DOMAIN transit' : transit'[n].type = "sample" =>
               \/ \E m \in DOMAIN transit : transit'[n] = transit[m]
               \/ transit'[n].pid \in Alive /\ transit'[n].id = tasks[transit'[n].pid].id,
             \A c, q \in Pids : (ThreadOf(c, q)' => ThreadOf(c, q)) /\ (ForkOf(c, q)' => ForkOf(c, q))
      PROVE  IdsOf(ids)'
  <2>1. \A q \in Alive' : tasks'[q].id = ids[q]
    BY <1>2 DEF IdsOf
  <2>2. \A n \in DOMAIN transit' : transit'[n].type = "sample" /\ transit'[n].pid \notin reused' =>
          transit'[n].id = ids[transit'[n].pid]
    BY <1>2 DEF IdsOf
  <2>. QED
    BY <1>2, <2>1, <2>2 DEF IdsOf
<1>3. ASSUME Alive' \subseteq Alive, reused' = reused, \A q \in Alive' : tasks'[q].id = tasks[q].id, Quiet
      PROVE  IdsOf(ids)'
  <2>1. \A n \in DOMAIN transit' : \E m \in DOMAIN transit : transit'[n] = transit[m]
    BY <1>3 DEF Quiet
  <2>. QED
    BY <1>2, <1>3, <2>1, ChildrenQuiet
<1>4. ASSUME NEW p \in Pids, NEW c \in Containers, Join(p, c) PROVE IdsOf(ids)'
  <2>1. Alive' \subseteq Alive /\ reused' = reused /\ (\A q \in Alive' : tasks'[q].id = tasks[q].id) /\ Quiet
    BY <1>4, JoinTasks, KernelWrites DEF Join
  <2>. QED
    BY <1>3, <2>1
<1>5. ASSUME TasksStay, NEW x \in SampleRecord, Tells(x) PROVE IdsOf(ids)'
  <2>1. \A n \in DOMAIN transit' : transit'[n].type = "sample" =>
          \/ \E m \in DOMAIN transit : transit'[n] = transit[m]
          \/ transit'[n].pid \in Alive /\ transit'[n].id = tasks[transit'[n].pid].id
    <3>1. ASSUME NEW n \in DOMAIN transit' PROVE n \in DOMAIN transit \/ n = Len(transit) + 1
      BY <1>5, <3>1, Appended DEF Tells
    <3>. QED
      BY <1>5, <3>1, Appended DEF Tells
  <2>2. \A c, q \in Pids : (ThreadOf(c, q)' => ThreadOf(c, q)) /\ (ForkOf(c, q)' => ForkOf(c, q))
    BY <1>5, ChildrenAppended DEF Tells
  <2>. QED
    BY <1>2, <1>5, <2>1, <2>2 DEF TasksStay
<1>6. CASE Handle
  <2>1. tasks' = tasks /\ reused' = reused /\ Alive' = Alive
    BY <1>6, HandleTakes DEF Alive
  <2>2. \A n \in DOMAIN transit' : \E m \in DOMAIN transit : transit'[n] = transit[m]
    BY <1>6, Taken
  <2>3. \A c, q \in Pids : (ThreadOf(c, q)' => ThreadOf(c, q)) /\ (ForkOf(c, q)' => ForkOf(c, q))
    BY <1>6, ChildrenHandled
  <2>. QED
    BY <1>2, <2>1, <2>2, <2>3
<1>7. ASSUME TasksStay, Quiet PROVE IdsOf(ids)'
  BY <1>3, <1>7 DEF TasksStay
<1>. QED
  BY <1>1, <1>4, <1>5, <1>6, <1>7, StepCases

LEMMA AgesStep ==
  ASSUME TypeOK, KernelOK, InOrder, Next, ~hung', reused' = {}, NEW ages \in [Pids -> Nat], AgesOf(ages)
  PROVE  \E new \in [Pids -> Nat] : AgesOf(new)'
<1>1. ASSUME NEW p \in Pids, NEW child \in Pids, NEW thread \in BOOLEAN, NewTask(p, child, thread)
      PROVE  \E new \in [Pids -> Nat] : AgesOf(new)'
  <2>1. p # child
    BY <1>1, NewTaskTasks
  <2>2. PICK x \in SampleRecord : Appends(x) /\ x.type = "newtask" /\ x.pid = child /\ x.parent = p
    BY <1>1, NewTaskWrites
  <2>3. child # 1 /\ ~Remembered(child) /\ taskCount' = taskCount + 1 /\ taskCount \in Nat
    BY <1>1, NewTaskWrites
  <2>. DEFINE new == [ages EXCEPT ![child] = taskCount + 1]
  <2>4. new \in [Pids -> Nat] /\ new[child] = taskCount + 1 /\ \A q \in Pids : q # child => new[q] = ages[q]
    BY <2>3
  <2>. HIDE DEF new
  <2>5. \A q \in Pids : ages[q] \in Nat /\ ages[q] <= taskCount
    BY DEF AgesOf
  <2>6. \A q \in Pids : new[q] <= taskCount'
    BY <2>3, <2>4, <2>5
  <2>7. ASSUME NEW c \in Pids, NEW q \in Pids, ChildOf(c, q)' PROVE new[q] < new[c]
    <3>1. CASE ChildOf(c, q)
      <4>1. c # child /\ q # child
        BY <2>3, <3>1, Unmentioned
      <4>. QED
        BY <2>4, <3>1, <4>1 DEF AgesOf
    <3>2. CASE c = child /\ q = p
      BY <2>1, <2>3, <2>4, <2>5, <3>2
    <3>. QED
      BY <2>2, <2>7, <3>1, <3>2, ChildrenAppended
  <2>. QED
    BY <2>4, <2>6, <2>7 DEF AgesOf
<1>2. ASSUME taskCount' = taskCount, \A c, q \in Pids : ChildOf(c, q)' => ChildOf(c, q) PROVE AgesOf(ages)'
  BY <1>2 DEF AgesOf
<1>3. ASSUME taskCount' = taskCount, Quiet PROVE AgesOf(ages)'
  BY <1>2, <1>3, ChildrenQuiet
<1>4. ASSUME NEW p \in Pids, NEW c \in Containers, Join(p, c) PROVE AgesOf(ages)'
  BY <1>3, <1>4, KernelWrites DEF Join
<1>5. ASSUME TasksStay, NEW x \in SampleRecord, Tells(x) PROVE AgesOf(ages)'
  BY <1>2, <1>5, ChildrenAppended DEF TasksStay, Tells
<1>6. CASE Handle
  BY <1>2, <1>6, HandleTakes, ChildrenHandled
<1>7. ASSUME TasksStay, Quiet PROVE AgesOf(ages)'
  BY <1>3, <1>7 DEF TasksStay
<1>. QED
  BY <1>1, <1>4, <1>5, <1>6, <1>7, StepCases

\* The container the cache gives a task is its own, or none.
LEMMA ContainedAtHome ==
  ASSUME TypeOK, CacheOK, NEW homes, HomesOf(homes), NEW p \in Pids, ContainerId(p) # "circle"
  PROVE  ContainerId(p) \in {None, homes[p]}
<1>. DEFINE S == {q \in Pids : homes[q] \in {None, homes[p]}} \cup {0}
<1>1. ASSUME NEW r \in S \cap Uncontained PROVE Entry(r).ppid \in S
  <2>1. r \in Pids /\ Found(r) /\ Entry(r) = cache[r] /\ homes[r] \in {None, homes[p]}
    BY <1>1, PidBounds DEF Uncontained, Entry
  <2>2. PICK q \in Pids : q = cache[r].ppid
    BY <2>1 DEF CacheOK, EntryOK
  <2>3. homes[q] \in {None, homes[r]}
    BY <2>1, <2>2 DEF HomesOf, ChildOf
  <2>. QED
    BY <2>1, <2>2, <2>3
<1>2. Walk(p, Uncontained) \subseteq S
  <2>1. S \in SUBSET (Pids \cup {0}) /\ p \in S
    OBVIOUS
  <2>. HIDE DEF S
  <2>. QED
    BY <1>1, <2>1, WalkStays
<1>3. PICK end : end = WalkEnd(p, Uncontained)
  OBVIOUS
<1>4. WalkEnds(p, Uncontained) # {} /\ ContainerId(p) = IF Found(end) THEN Entry(end).containerId ELSE None
  BY <1>3 DEF ContainerId
<1>5. end \in S
  BY <1>2, <1>3, <1>4, WalkEndIsEnd
<1>6. CASE Found(end)
  <2>1. end \in Pids /\ Entry(end) = cache[end] /\ homes[end] \in {None, homes[p]}
    BY <1>5, <1>6, FoundIsPid, PidBounds
  <2>2. cache[end].containerId \in {None, homes[end]}
    BY <2>1 DEF HomesOf
  <2>. QED
    BY <1>4, <1>6, <2>1, <2>2
<1>. QED
  BY <1>4, <1>6

\* An event that was before its task entered a container is not given one.
LEMMA NotContainedYet ==
  ASSUME TypeOK, CacheOK, NEW homes, HomesOf(homes), NEW p \in Pids, NEW n, Outside(homes, p, n),
         ContainerId(p) # "circle"
  PROVE  ContainerId(p) = None
<1>. DEFINE S == {q \in Pids : homes[q] = None} \cup {0, p}
<1>1. ASSUME NEW r \in S \cap Uncontained PROVE Entry(r).ppid \in S
  <2>1. r \in Pids /\ Found(r) /\ Entry(r) = cache[r]
    BY <1>1 DEF Uncontained, Entry
  <2>2. PICK q \in Pids : q = cache[r].ppid
    BY <2>1 DEF CacheOK, EntryOK
  <2>3. ChildOf(r, q)
    BY <2>1, <2>2 DEF ChildOf
  <2>4. CASE r = p
    BY <2>1, <2>2, <2>3, <2>4 DEF Outside
  <2>5. CASE r # p
    <3>1. homes[r] = None
      BY <1>1, <2>1, <2>5, PidBounds
    <3>2. homes[q] \in {None, homes[r]}
      BY <2>1, <2>3 DEF HomesOf
    <3>. QED
      BY <2>1, <2>2, <3>1, <3>2
  <2>. QED
    BY <2>4, <2>5
<1>2. Walk(p, Uncontained) \subseteq S
  <2>1. S \in SUBSET (Pids \cup {0}) /\ p \in S
    OBVIOUS
  <2>. HIDE DEF S
  <2>. QED
    BY <1>1, <2>1, WalkStays
<1>3. PICK end : end = WalkEnd(p, Uncontained)
  OBVIOUS
<1>4. WalkEnds(p, Uncontained) # {} /\ ContainerId(p) = IF Found(end) THEN Entry(end).containerId ELSE None
  BY <1>3 DEF ContainerId
<1>5. end \in S
  BY <1>2, <1>3, <1>4, WalkEndIsEnd
<1>6. CASE Found(end)
  <2>1. end \in Pids /\ Entry(end) = cache[end] /\ (end = p \/ homes[end] = None)
    BY <1>5, <1>6, FoundIsPid, PidBounds
  <2>2. cache[end].containerId \in {None, homes[end]} /\ cache[p].containerId = None
    BY <2>1 DEF HomesOf, Outside, NotYet
  <2>. QED
    BY <1>4, <1>6, <2>1, <2>2
<1>. QED
  BY <1>4, <1>6

\* A step of the kernel that neither creates nor contains a task.
LEMMA HomesKept ==
  ASSUME TypeOK, KernelOK, InOrder, TasksStay, NEW x \in SampleRecord, Quiet \/ Tells(x),
         NEW homes \in [Pids -> Containers \cup {None}], HomesOf(homes)
  PROVE  HomesOf(homes)'
<1>1. /\ cache' = cache
      /\ \A n \in DOMAIN transit : n \in DOMAIN transit' /\ transit'[n] = transit[n]
      /\ DOMAIN transit = 1 .. Len(transit) /\ Len(transit) \in Nat
      /\ \A n \in DOMAIN transit' :
           n \in DOMAIN transit \/ (Tells(x) /\ transit'[n] = x)
  <2>1. CASE Quiet
    BY <2>1 DEF Quiet, TypeOK, TransitTypeOK
  <2>2. CASE Tells(x)
    <3>1. ASSUME NEW n \in DOMAIN transit' PROVE n \in DOMAIN transit \/ n = Len(transit) + 1
      BY <2>2, <3>1, Appended DEF Tells
    <3>. QED
      BY <2>2, <3>1, Appended DEF Tells
  <2>. QED
    BY <2>1, <2>2
<1>2. \A c, q \in Pids : ChildOf(c, q)' => ChildOf(c, q)
  BY ChildrenQuiet, ChildrenAppended DEF Tells
<1>3. \A q \in Alive' : q \in Alive /\ tasks'[q].container = homes[q] /\ tasks'[q].forked = tasks[q].forked
  BY DEF TasksStay, HomesOf
<1>4. ASSUME NEW n \in DOMAIN transit, NEW p \in Pids, Outside(homes, p, n) PROVE Outside(homes, p, n)'
  <2>1. NotYet(p, n)'
    <3>1. \A i \in 1 .. n : i \in DOMAIN transit /\ transit'[i] = transit[i]
      BY <1>1
    <3>2. \A c \in Pids : Found(c)' <=> Found(c)
      BY <1>1 DEF Found, Entry
    <3>. QED
      BY <1>1, <1>4, <3>1, <3>2 DEF Outside, NotYet, IsNew
  <2>. QED
    BY <1>2, <1>4, <2>1 DEF Outside
<1>5. ASSUME NEW n \in DOMAIN transit', transit'[n].type = "sample"
      PROVE  \/ transit'[n].container = homes[transit'[n].pid]
             \/ transit'[n].container = None /\ Outside(homes, transit[n].pid, n)'
  <2>1. CASE n \in DOMAIN transit
    <3>1. PICK p \in Pids : p = transit[n].pid
      BY <2>1, SampleTypes DEF TypeOK, TransitTypeOK
    <3>2. transit[n].container = homes[p] \/ (transit[n].container = None /\ Outside(homes, p, n))
      BY <1>1, <1>5, <2>1, <3>1 DEF HomesOf
    <3>3. transit[n].container = homes[p] \/ (transit[n].container = None /\ Outside(homes, p, n)')
      BY <1>4, <2>1, <3>2
    <3>4. transit'[n] = transit[n]
      BY <1>1, <2>1
    <3>. QED
      BY <3>1, <3>3, <3>4
  <2>2. CASE Tells(x) /\ transit'[n] = x
    BY <1>5, <2>2 DEF HomesOf, Tells
  <2>. QED
    BY <1>1, <2>1, <2>2
<1>6. ASSUME NEW n \in DOMAIN transit', transit'[n].type = "rename" PROVE homes[transit'[n].pid] # None
  BY <1>1, <1>6 DEF HomesOf, Tells
<1>. QED
  BY <1>1, <1>2, <1>3, <1>5, <1>6 DEF HomesOf

LEMMA HomesNewTask ==
  ASSUME TypeOK, KernelOK, InOrder, reused' = {},
         NEW p \in Pids, NEW child \in Pids, NEW thread \in BOOLEAN, NewTask(p, child, thread),
         NEW homes \in [Pids -> Containers \cup {None}], HomesOf(homes)
  PROVE  \E new \in [Pids -> Containers \cup {None}] : HomesOf(new)'
<1>1. /\ p \in Alive /\ child \notin Alive /\ p # child /\ Alive' = Alive \cup {child}
      /\ tasks'[child].container = tasks[p].container /\ tasks'[p].forked /\ ~tasks'[child].forked
      /\ \A q \in Alive : /\ q \in Pids /\ q # child /\ tasks'[q].container = tasks[q].container
                          /\ tasks[q].forked => tasks'[q].forked
  <2>1. \A q \in Alive : q \in Pids
    BY DEF Alive
  <2>. QED
    BY <2>1, NewTaskTasks
<1>2. PICK x \in SampleRecord : Appends(x) /\ x.type = "newtask" /\ x.pid = child /\ x.parent = p
  BY NewTaskWrites
<1>3. child # 1 /\ ~Remembered(child)
  BY NewTaskWrites
<1>. DEFINE new == [homes EXCEPT ![child] = homes[p]]
<1>4. /\ new \in [Pids -> Containers \cup {None}]
      /\ new[child] = homes[p] /\ \A q \in Pids : q # child => new[q] = homes[q]
  OBVIOUS
<1>. HIDE DEF new
<1>5. /\ cache' = cache
      /\ DOMAIN transit = 1 .. Len(transit) /\ Len(transit) \in Nat
      /\ \A n \in DOMAIN transit : n \in DOMAIN transit' /\ transit'[n] = transit[n]
      /\ \A n \in DOMAIN transit' : n \in DOMAIN transit \/ transit'[n] = x
  <2>1. ASSUME NEW n \in DOMAIN transit' PROVE n \in DOMAIN transit \/ n = Len(transit) + 1
    BY <1>2, <2>1, Appended
  <2>. QED
    BY <1>2, <2>1, Appended
<1>6. /\ cache[child].containerId = None
      /\ \A n \in DOMAIN transit : transit[n].pid # child
  BY <1>3, Unmentioned DEF Unknown
<1>7. new[1] = None /\ \A q \in Pids : cache'[q].containerId \in {None, new[q]}
  BY <1>3, <1>4, <1>5, <1>6, PidBounds DEF HomesOf
<1>8. \A q \in Alive' : tasks'[q].container = new[q]
  BY <1>1, <1>4 DEF HomesOf
<1>9. ASSUME NEW c \in Pids, NEW q \in Pids, ChildOf(c, q)'
      PROVE  \/ ChildOf(c, q) /\ c # child /\ q # child
             \/ c = child /\ q = p
  <2>1. ChildOf(c, q) \/ (c = child /\ q = p)
    BY <1>2, <1>9, ChildrenAppended
  <2>. QED
    BY <1>3, <2>1, Unmentioned
<1>10. ASSUME NEW c \in Pids, NEW q \in Pids, ChildOf(c, q)'
       PROVE  new[q] \in {None, new[c]} /\ (q \in Alive' => tasks'[q].forked)
  <2>1. CASE c = child /\ q = p
    BY <1>1, <1>4, <2>1
  <2>2. CASE ChildOf(c, q) /\ c # child /\ q # child
    <3>1. homes[q] \in {None, homes[c]} /\ (q \in Alive => tasks[q].forked)
      BY <2>2 DEF HomesOf
    <3>. QED
      BY <1>1, <1>4, <2>2, <3>1
  <2>. QED
    BY <1>9, <1>10, <2>1, <2>2
<1>11. ASSUME NEW n \in DOMAIN transit, NEW q \in Pids, q # child, Outside(homes, q, n) PROVE Outside(new, q, n)'
  <2>1. NotYet(q, n)'
    <3>1. \A i \in 1 .. n : i \in DOMAIN transit /\ transit'[i] = transit[i]
      BY <1>5
    <3>2. \A c \in Pids : Found(c)' <=> Found(c)
      BY <1>5 DEF Found, Entry
    <3>. QED
      BY <1>5, <1>11, <3>1, <3>2 DEF Outside, NotYet, IsNew
  <2>2. ASSUME NEW r \in Pids, ChildOf(q, r)' PROVE new[r] = None
    BY <1>4, <1>9, <1>11, <2>2 DEF Outside
  <2>. QED
    BY <2>1, <2>2 DEF Outside
<1>12. ASSUME NEW n \in DOMAIN transit', transit'[n].type = "sample"
       PROVE  \/ transit'[n].container = new[transit'[n].pid]
              \/ transit'[n].container = None /\ Outside(new, transit[n].pid, n)'
  <2>1. n \in DOMAIN transit /\ transit'[n] = transit[n]
    BY <1>2, <1>5, <1>12
  <2>2. PICK q \in Pids : q = transit[n].pid
    BY <2>1, SampleTypes DEF TypeOK, TransitTypeOK
  <2>3. q # child /\ (transit[n].container = homes[q] \/ (transit[n].container = None /\ Outside(homes, q, n)))
    BY <1>6, <1>12, <2>1, <2>2 DEF HomesOf
  <2>4. transit[n].container = new[q] \/ (transit[n].container = None /\ Outside(new, q, n)')
    BY <1>4, <1>11, <2>1, <2>3
  <2>. QED
    BY <2>1, <2>2, <2>4
<1>13. ASSUME NEW n \in DOMAIN transit', transit'[n].type = "rename" PROVE new[transit'[n].pid] # None
  <2>1. n \in DOMAIN transit /\ transit'[n] = transit[n]
    BY <1>2, <1>5, <1>13
  <2>2. transit[n].pid \in Pids /\ transit[n].pid # child
    BY <1>6, <2>1, SampleTypes DEF TypeOK, TransitTypeOK
  <2>. QED
    BY <1>4, <1>13, <2>1, <2>2 DEF HomesOf
<1>14. HomesOf(new)'
  BY <1>7, <1>8, <1>10, <1>12, <1>13 DEF HomesOf
<1>. QED
  BY <1>4, <1>14

LEMMA HomesJoin ==
  ASSUME TypeOK, KernelOK, NEW p \in Pids, NEW c \in Containers, Join(p, c),
         NEW homes \in [Pids -> Containers \cup {None}], HomesOf(homes)
  PROVE  \E new \in [Pids -> Containers \cup {None}] : HomesOf(new)'
<1>1. /\ p \in Alive /\ p # 1 /\ tasks[p].container = None /\ ~tasks[p].forked
      /\ Alive' = Alive /\ tasks'[p].container = c
      /\ \A q \in Alive : q # p => tasks'[q] = tasks[q]
      /\ \A q \in Alive : q \in Pids /\ tasks'[q].forked = tasks[q].forked
      /\ cache' = cache /\ transit' = transit
  <2>1. \A q \in Alive : q \in Pids
    BY DEF Alive
  <2>. QED
    BY <2>1, JoinTasks, KernelWrites DEF Quiet
<1>. DEFINE new == [homes EXCEPT ![p] = c]
<1>2. /\ new \in [Pids -> Containers \cup {None}]
      /\ new[p] = c /\ \A q \in Pids : q # p => new[q] = homes[q]
  OBVIOUS
<1>. HIDE DEF new
<1>3. homes[p] = None /\ \A q \in Pids : ~ChildOf(q, p)
  BY <1>1 DEF HomesOf
<1>4. new[1] = None /\ \A q \in Pids : cache'[q].containerId \in {None, new[q]}
  BY <1>1, <1>2, <1>3, PidBounds DEF HomesOf
<1>5. \A q \in Alive' : tasks'[q].container = new[q]
  BY <1>1, <1>2 DEF HomesOf
<1>6. \A q, r \in Pids : ChildOf(q, r)' <=> ChildOf(q, r)
  BY KernelWrites, ChildrenQuiet
<1>7. ASSUME NEW q \in Pids, NEW r \in Pids, ChildOf(q, r)
      PROVE  r # p /\ new[r] \in {None, new[q]} /\ (r \in Alive' => tasks'[r].forked)
  BY <1>1, <1>2, <1>3, <1>7 DEF HomesOf
<1>8. \A q, n : NotYet(q, n)' <=> NotYet(q, n)
  BY <1>1 DEF NotYet, IsNew, Found, Entry
<1>9. ASSUME NEW n \in DOMAIN transit, transit[n].type = "sample"
      PROVE  \/ transit[n].container = new[transit[n].pid]
             \/ transit[n].container = None /\ Outside(new, transit[n].pid, n)'
  <2>1. PICK q \in Pids : q = transit[n].pid
    BY <1>9, SampleTypes DEF TypeOK, TransitTypeOK
  <2>2. transit[n].container = homes[q] \/ (transit[n].container = None /\ Outside(homes, q, n))
    BY <1>9, <2>1 DEF HomesOf
  <2>3. ASSUME Outside(homes, q, n) PROVE Outside(new, q, n)'
    BY <1>2, <1>6, <1>7, <1>8, <2>3 DEF Outside
  <2>4. ASSUME q = p PROVE Outside(new, q, n)'
    <3>1. NotYet(q, n)
      <4>1. cache[q].containerId = None
        BY <1>3, <2>4 DEF HomesOf
      <4>2. \A i \in DOMAIN transit : ~(transit[i].type = "rename" /\ transit[i].pid = q)
        BY <1>3, <2>4 DEF HomesOf
      <4>3. \A i, child : child \in Pids => ~IsNew(i, child, q)
        BY <1>3, <2>4 DEF ChildOf, IsNew
      <4>4. \A child \in Pids : ~(Found(child) /\ cache[child].ppid = q)
        BY <1>3, <2>4 DEF ChildOf
      <4>. QED
        BY <4>1, <4>2, <4>3, <4>4 DEF NotYet
    <3>2. ASSUME NEW r \in Pids, ChildOf(q, r)' PROVE new[r] = None
      <4>1. ChildOf(q, r) /\ homes[r] \in {None, homes[q]}
        BY <1>6, <3>2 DEF HomesOf
      <4>. QED
        BY <1>2, <1>3, <1>7, <2>4, <4>1
    <3>. QED
      BY <1>8, <3>1, <3>2 DEF Outside
  <2>5. ASSUME q # p PROVE new[q] = homes[q]
    BY <1>2, <2>5
  <2>6. transit[n].container = new[q] \/ (transit[n].container = None /\ Outside(new, q, n)')
    BY <1>3, <2>2, <2>3, <2>4, <2>5
  <2>. QED
    BY <1>1, <2>1, <2>6
<1>10. ASSUME NEW n \in DOMAIN transit, transit[n].type = "rename" PROVE new[transit[n].pid] # None
  <2>1. transit[n].pid \in Pids /\ homes[transit[n].pid] # None
    BY <1>10, SampleTypes DEF HomesOf, TypeOK, TransitTypeOK
  <2>. QED
    BY <1>2, <1>3, <2>1
<1>11. HomesOf(new)'
  <2>1. \A q, r \in Pids : ChildOf(q, r)' => new[r] \in {None, new[q]} /\ (r \in Alive' => tasks'[r].forked)
    BY <1>6, <1>7
  <2>. QED
    BY <1>1, <1>4, <1>5, <1>9, <1>10, <2>1 DEF HomesOf
<1>. QED
  BY <1>2, <1>11

LEMMA HomesHandled ==
  ASSUME TypeOK, CacheOK, InOrder, Handle, ~hung',
         NEW homes \in [Pids -> Containers \cup {None}], HomesOf(homes)
  PROVE  HomesOf(homes)'
<1>1. /\ Sampled \in SampleRecord /\ Sampled = transit[1] /\ 1 \in DOMAIN transit
      /\ tasks' = tasks /\ Alive' = Alive
  BY HandleTakes DEF Alive
<1>2. PICK x \in SampleRecord : x = Sampled
  BY <1>1
<1>3. \A c, q \in Pids : ChildOf(c, q)' => ChildOf(c, q)
  BY ChildrenHandled
<1>4. \A q \in Alive : q \in Pids /\ tasks[q].container = homes[q]
  BY DEF Alive, HomesOf
<1>5. ASSUME x.type = "newtask"
      PROVE  /\ x.pid \in Pids /\ x.parent \in Pids /\ ChildOf(x.pid, x.parent)
             /\ IsNew(1, x.pid, x.parent)
             /\ cache'[x.pid].containerId \in {None, homes[x.parent]}
  <2>1. x.pid \in Pids /\ x.parent \in Pids
    BY <1>5, SampleTypes
  <2>2. IsNew(1, x.pid, x.parent)
    BY <1>1, <1>2, <1>5 DEF IsNew
  <2>3. cache'[x.pid].containerId = ContainerId(x.parent) /\ ContainerId(x.parent) # "circle"
    BY <1>2, <1>5, <2>1, HandleEntries
  <2>4. ContainerId(x.parent) \in {None, homes[x.parent]}
    BY <2>1, <2>3, ContainedAtHome
  <2>. QED
    BY <1>1, <2>1, <2>2, <2>3, <2>4 DEF ChildOf
\* What decodeRuncTaskRename changes is of a task that is there, and that is renamed
\* or has a child.
<1>6. ASSUME NEW q \in Pids, cache'[q].containerId # cache[q].containerId
      PROVE  \/ x.type = "newtask" /\ x.pid = q
             \/ /\ x.type = "rename" /\ q \in Alive /\ cache'[q].containerId = tasks[q].container
                /\ \/ x.pid = q
                   \/ x.pid \in Pids /\ Found(x.pid) /\ cache[x.pid].ppid = q
  <2>1. CASE x.type = "newtask" /\ x.pid = q
    BY <2>1
  <2>2. CASE x.type = "rename"
    <3>1. DecodeRename(x)
      BY <1>2, <2>2, HandleTakes
    <3>2. PICK r : r = RenamedPid(x.pid)
      OBVIOUS
    <3>3. cache' # cache
      BY <1>6
    <3>4. PICK e \in EntryRecord :
            /\ r \in Alive /\ cache' = [cache EXCEPT ![r] = e]
            /\ e.containerId = tasks[r].container
      BY <2>2, <3>1, <3>2, <3>3, HandleRename
    <3>5. r = q /\ cache'[q] = e
      BY <1>6, <3>4 DEF TypeOK, CacheTypeOK
    <3>6. x.pid \in Pids /\ Entry(x.pid) = cache[x.pid]
      BY SampleTypes DEF Entry
    <3>7. CASE Entry(x.pid).containerId = None
      BY <2>2, <3>2, <3>4, <3>5, <3>7 DEF RenamedPid
    <3>8. CASE Entry(x.pid).containerId # None
      <4>1. PICK s : s = cache[x.pid].ppid
        OBVIOUS
      <4>2. Entry(s).pid = q
        BY <3>2, <3>5, <3>6, <3>8, <4>1 DEF RenamedPid
      <4>3. q # 0
        BY PidBounds
      <4>4. s \in Pids /\ Found(s)
        <5>1. s \in Pids
          BY <4>2, <4>3 DEF Entry, Unknown
        <5>2. Entry(s) = cache[s]
          BY <5>1 DEF Entry
        <5>. QED
          BY <4>2, <4>3, <5>1, <5>2 DEF CacheOK, EntryOK
      <4>5. s = q
        BY <4>2, <4>4 DEF CacheOK, EntryOK, Entry
      <4>6. Found(x.pid)
        BY <3>6, <4>1, <4>3, <4>5 DEF CacheOK, EntryOK
      <4>. QED
        BY <2>2, <3>4, <3>5, <3>6, <4>1, <4>5, <4>6
    <3>. QED
      BY <3>7, <3>8
  <2>3. CASE x.type # "rename" /\ ~(x.type = "newtask" /\ x.pid = q)
    BY <1>2, <1>6, <2>3, HandleEntries
  <2>. QED
    BY <2>1, <2>2, <2>3
<1>7. ASSUME NEW q \in Pids PROVE cache'[q].containerId \in {None, homes[q]}
  <2>1. CASE cache'[q].containerId = cache[q].containerId
    BY <2>1 DEF HomesOf
  <2>2. CASE x.type = "newtask" /\ x.pid = q
    <3>1. homes[x.parent] \in {None, homes[q]}
      BY <1>5, <2>2 DEF HomesOf
    <3>. QED
      BY <1>5, <2>2, <3>1
  <2>3. CASE q \in Alive /\ cache'[q].containerId = tasks[q].container
    BY <1>4, <2>3
  <2>. QED
    BY <1>6, <2>1, <2>2, <2>3
<1>8. ASSUME NEW n \in DOMAIN transit', NEW p \in Pids, Outside(homes, p, n + 1) PROVE Outside(homes, p, n)'
  <2>1. /\ n \in Nat /\ n + 1 \in DOMAIN transit /\ 1 \in 1 .. n + 1
        /\ \A i \in 1 .. n : i + 1 \in 1 .. n + 1 /\ i \in DOMAIN transit' /\ i + 1 \in DOMAIN transit /\ transit'[i] = transit[i + 1]
    BY Taken
  <2>2. cache'[p].containerId = None
    <3>1. CASE cache'[p].containerId = cache[p].containerId
      BY <1>8, <3>1 DEF Outside, NotYet
    <3>2. CASE x.type = "newtask" /\ x.pid = p
      <4>1. homes[x.parent] = None
        BY <1>5, <1>8, <3>2 DEF Outside
      <4>. QED
        BY <1>5, <3>2, <4>1
    <3>3. CASE x.type = "rename" /\ (x.pid = p \/ (x.pid \in Pids /\ Found(x.pid) /\ cache[x.pid].ppid = p))
      <4>1. ~(transit[1].type = "rename" /\ transit[1].pid = p)
        BY <1>1, <1>8, <2>1 DEF Outside, NotYet
      <4>2. \A child \in Pids : ~(Found(child) /\ cache[child].ppid = p)
        BY <1>8 DEF Outside, NotYet
      <4>. QED
        BY <1>1, <1>2, <3>3, <4>1, <4>2
    <3>. QED
      BY <1>6, <3>1, <3>2, <3>3
  <2>3. \A i \in 1 .. n : i \in DOMAIN transit' => ~(transit'[i].type = "rename" /\ transit'[i].pid = p)
    BY <1>8, <2>1 DEF Outside, NotYet
  <2>4. ASSUME NEW i \in 1 .. n, NEW child \in Pids, IsNew(i, child, p)' PROVE FALSE
    <3>1. IsNew(i + 1, child, p) /\ i + 1 \in 1 .. n + 1
      BY <2>1, <2>4 DEF IsNew
    <3>. QED
      BY <1>8, <3>1 DEF Outside, NotYet
  <2>5. ASSUME NEW child \in Pids, Found(child)', cache'[child].ppid = p PROVE FALSE
    <3>1. ~(Found(child) /\ cache[child].ppid = p)
      BY <1>8 DEF Outside, NotYet
    <3>2. x.type = "newtask" /\ x.pid = child /\ x.parent = p
      BY <1>2, <2>5, <3>1, HandleEntries
    <3>3. IsNew(1, child, p)
      BY <1>5, <3>2
    <3>. QED
      BY <1>8, <2>1, <3>3 DEF Outside, NotYet
  <2>6. NotYet(p, n)'
    BY <2>2, <2>3, <2>4, <2>5 DEF NotYet
  <2>. QED
    BY <1>3, <1>8, <2>6 DEF Outside
<1>9. ASSUME NEW n \in DOMAIN transit', transit'[n].type = "sample"
      PROVE  \/ transit'[n].container = homes[transit'[n].pid]
             \/ transit'[n].container = None /\ Outside(homes, transit[n].pid, n)'
  <2>1. n + 1 \in DOMAIN transit /\ transit'[n] = transit[n + 1]
    BY Taken
  <2>2. PICK p \in Pids : p = transit[n + 1].pid
    BY <2>1, SampleTypes DEF TypeOK, TransitTypeOK
  <2>3. transit[n + 1].container = homes[p] \/ (transit[n + 1].container = None /\ Outside(homes, p, n + 1))
    BY <1>9, <2>1, <2>2 DEF HomesOf
  <2>4. transit[n + 1].container = homes[p] \/ (transit[n + 1].container = None /\ Outside(homes, p, n)')
    BY <1>8, <2>3
  <2>. QED
    BY <2>1, <2>2, <2>4
<1>10. ASSUME NEW n \in DOMAIN transit', transit'[n].type = "rename" PROVE homes[transit'[n].pid] # None
  BY <1>10, Taken DEF HomesOf
<1>. QED
  BY <1>1, <1>3, <1>7, <1>9, <1>10 DEF HomesOf

LEMMA HomesStep ==
  ASSUME TypeOK, KernelOK, CacheOK, InOrder, Next, ~hung', reused' = {},
         NEW homes \in [Pids -> Containers \cup {None}], HomesOf(homes)
  PROVE  \E new \in [Pids -> Containers \cup {None}] : HomesOf(new)'
<1>1. ASSUME TasksStay, Quiet PROVE HomesOf(homes)'
  <2>1. [type |-> "rename", pid |-> 1] \in SampleRecord
    BY PidBounds DEF SampleRecord, RenameSample
  <2>. QED
    BY <1>1, <2>1, HomesKept
<1>2. ASSUME TasksStay, NEW x \in SampleRecord, Tells(x) PROVE HomesOf(homes)'
  BY <1>2, HomesKept
<1>3. CASE Handle
  BY <1>3, HomesHandled
<1>4. ASSUME NEW p \in Pids, NEW child \in Pids, NEW thread \in BOOLEAN, NewTask(p, child, thread)
      PROVE  \E new \in [Pids -> Containers \cup {None}] : HomesOf(new)'
  BY <1>4, HomesNewTask
<1>5. ASSUME NEW p \in Pids, NEW c \in Containers, Join(p, c)
      PROVE  \E new \in [Pids -> Containers \cup {None}] : HomesOf(new)'
  BY <1>5, HomesJoin
<1>. QED
  BY <1>1, <1>2, <1>3, <1>4, <1>5, StepCases

-----------------------------------------------------------------------------
(* The command lines. *)

LEMMA LineAppends ==
  ASSUME TypeOK, NEW x \in SampleRecord, Appends(x), NEW p \in Pids, NEW g
  PROVE  /\ \A n \in 0 .. Len(transit) : HasLine(p, g, n) => HasLine(p, g, n)'
         /\ HasLine(p, g, Len(transit)) /\ ~(x.pid = p /\ x.type \in {"newtask", "execve"}) =>
              HasLine(p, g, Len(transit))'
         /\ x.type = "execve" /\ x.pid = p /\ x.program = g => HasLine(p, g, Len(transit))'
<1>1. PICK N \in Nat : N = Len(transit)
  BY Appended
<1>2. /\ Len(transit)' = N + 1
      /\ \A n \in 1 .. N : transit'[n] = transit[n]
      /\ transit'[N + 1] = x /\ cache' = cache /\ isArray' = isArray
  BY <1>1, Appended
<1>3. Settable(p)' <=> Settable(p)
  BY <1>2 DEF Settable, Found, Entry
<1>4. ASSUME NEW n \in 0 .. N, HasLine(p, g, n) PROVE HasLine(p, g, n)'
  <2>1. \A i \in 1 .. n : transit'[i] = transit[i]
    BY <1>2
  <2>2. \A i \in 1 .. n : \A k \in i + 1 .. n : k \in 1 .. n
    OBVIOUS
  <2>. QED
    BY <1>2, <1>3, <1>4, <2>1, <2>2 DEF HasLine, SetsLine
<1>5. ASSUME HasLine(p, g, N), ~(x.pid = p /\ x.type \in {"newtask", "execve"}) PROVE HasLine(p, g, N + 1)'
  <2>1. HasLine(p, g, N)'
    BY <1>4, <1>5
  <2>2. ~SetsLine(N + 1, p)'
    BY <1>2, <1>5 DEF SetsLine
  <2>3. \A k \in 1 .. N + 1 : k \in 1 .. N \/ k = N + 1
    OBVIOUS
  <2>4. CASE \A k \in 1 .. N : ~SetsLine(k, p)'
    <3>1. \A k \in 1 .. N + 1 : ~SetsLine(k, p)'
      BY <2>2, <2>3, <2>4
    <3>2. ASSUME NEW i \in 1 .. N, transit'[i].type = "execve", transit'[i].pid = p PROVE FALSE
      BY <2>4, <3>2 DEF SetsLine
    <3>. QED
      BY <2>1, <3>1, <3>2 DEF HasLine
  <2>5. ASSUME NEW i \in 1 .. N, transit'[i].type = "execve", transit'[i].pid = p, transit'[i].program = g,
               \A k \in i + 1 .. N : ~SetsLine(k, p)'
        PROVE  HasLine(p, g, N + 1)'
    <3>1. \A k \in i + 1 .. N + 1 : k \in i + 1 .. N \/ k = N + 1
      OBVIOUS
    <3>2. \A k \in i + 1 .. N + 1 : ~SetsLine(k, p)'
      BY <2>2, <2>5, <3>1
    <3>3. i \in 1 .. N + 1
      OBVIOUS
    <3>. QED
      BY <2>5, <3>2, <3>3 DEF HasLine
  <2>. QED
    BY <2>1, <2>4, <2>5 DEF HasLine
<1>6. ASSUME x.type = "execve", x.pid = p, x.program = g PROVE HasLine(p, g, N + 1)'
  <2>1. N + 1 \in 1 .. N + 1 /\ \A k \in (N + 1) + 1 .. N + 1 : FALSE
    OBVIOUS
  <2>. QED
    BY <1>2, <1>6, <2>1 DEF HasLine
<1>7. HasLine(p, g, Len(transit))' <=> HasLine(p, g, N + 1)'
  BY <1>2
<1>. QED
  BY <1>1, <1>4, <1>5, <1>6, <1>7

\* The dispatcher sets a command line with a sample of its task.
LEMMA LineUntouched ==
  ASSUME TypeOK, Handle, ~hung', NEW p \in Pids,
         ~(Sampled.type = "newtask" /\ Sampled.pid = p), ~(Sampled.type = "execve" /\ Sampled.pid = p)
  PROVE  cache'[p].commandLine = cache[p].commandLine
<1>1. Sampled \in SampleRecord /\ Sampled.pid \in Pids
  BY HandleTakes, SampleTypes
<1>2. CASE Sampled.type = "newtask"
  <2>1. PICK e \in EntryRecord : cache' = [cache EXCEPT ![Sampled.pid] = e]
    BY <1>1, <1>2, HandleTakes, HandleNewTask
  <2>. QED
    BY <1>1, <1>2, <2>1 DEF TypeOK, CacheTypeOK
<1>3. CASE Sampled.type = "execve"
  <2>1. DecodeExecve(Sampled)
    BY <1>3, HandleTakes
  <2>2. \/ cache' = cache
        \/ \E e \in EntryRecord : cache' = [cache EXCEPT ![Sampled.pid] = e]
    BY <1>1, <1>3, <2>1, HandleExecve
  <2>. QED
    BY <1>1, <1>3, <2>2 DEF TypeOK, CacheTypeOK
<1>4. CASE Sampled.type \notin {"newtask", "execve"}
  BY <1>4, HandleKeeps
<1>. QED
  BY <1>2, <1>3, <1>4

LEMMA LineSet ==
  ASSUME TypeOK, Handle, ~hung', NEW p \in Pids, Sampled.type = "execve", Sampled.pid = p
  PROVE  cache'[p].commandLine = Sampled.program \/ ~Settable(p)'
<1>1. Sampled \in SampleRecord /\ DecodeExecve(Sampled) /\ isArray' = isArray
  BY HandleTakes
<1>2. CASE Settable(p)
  <2>1. PICK e \in EntryRecord : cache' = [cache EXCEPT ![p] = e] /\ e.commandLine = Sampled.program
    BY <1>1, <1>2, HandleExecve
  <2>. QED
    BY <2>1 DEF TypeOK, CacheTypeOK
<1>3. CASE ~Settable(p)
  <2>1. cache' = cache
    BY <1>1, <1>3, HandleExecve
  <2>. QED
    BY <1>1, <1>3, <2>1 DEF Settable, Found, Entry
<1>. QED
  BY <1>2, <1>3

LEMMA LineHandles ==
  ASSUME TypeOK, Handle, ~hung', NEW p \in Pids, NEW g, NEW n \in 1 .. Len(transit), HasLine(p, g, n)
  PROVE  HasLine(p, g, n - 1)'
<1>1. /\ Len(transit) \in Nat /\ Sampled = transit[1] /\ Sampled \in SampleRecord /\ isArray' = isArray
      /\ \A k \in 1 .. n - 1 : transit'[k] = transit[k + 1] /\ k + 1 \in 1 .. n
  BY Taken, HandleTakes
<1>2. \A k \in 1 .. n - 1 : SetsLine(k, p)' <=> SetsLine(k + 1, p)
  BY <1>1 DEF SetsLine
<1>3. CASE ~SetsLine(1, p)
  <2>1. cache'[p].commandLine = cache[p].commandLine /\ (Settable(p)' <=> Settable(p))
    <3>1. ~(Sampled.type = "newtask" /\ Sampled.pid = p) /\ ~(Sampled.type = "execve" /\ Sampled.pid = p)
      BY <1>1, <1>3 DEF SetsLine
    <3>2. Settable(p)' <=> Settable(p)
      BY <1>1, <3>1, HandleEntries DEF Settable
    <3>3. cache'[p].commandLine = cache[p].commandLine
      BY <3>1, LineUntouched
    <3>. QED
      BY <3>2, <3>3
  <2>2. CASE \A k \in 1 .. n : ~SetsLine(k, p)
    <3>1. \A k \in 1 .. n - 1 : ~SetsLine(k, p)'
      BY <1>1, <1>2, <2>2
    <3>2. cache[p].commandLine = g \/ ~Settable(p)
      <4>1. ASSUME NEW i \in 1 .. n, transit[i].type = "execve", transit[i].pid = p PROVE FALSE
        BY <2>2, <4>1 DEF SetsLine
      <4>. QED
        BY <4>1 DEF HasLine
    <3>. QED
      BY <2>1, <3>1, <3>2 DEF HasLine
  <2>3. ASSUME NEW i \in 1 .. n, transit[i].type = "execve", transit[i].pid = p, transit[i].program = g,
               \A k \in i + 1 .. n : ~SetsLine(k, p)
        PROVE  HasLine(p, g, n - 1)'
    <3>1. i # 1
      BY <1>3, <2>3 DEF SetsLine
    <3>2. PICK j \in 1 .. n - 1 : j + 1 = i
      <4>1. i - 1 \in 1 .. n - 1 /\ (i - 1) + 1 = i
        BY <3>1
      <4>. QED
        BY <4>1
    <3>3. \A k \in j + 1 .. n - 1 : k \in 1 .. n - 1 /\ k + 1 \in i + 1 .. n
      BY <3>2
    <3>4. \A k \in j + 1 .. n - 1 : ~SetsLine(k, p)'
      BY <1>2, <2>3, <3>3
    <3>5. transit'[j] = transit[i]
      BY <1>1, <3>2
    <3>. QED
      BY <2>3, <3>4, <3>5 DEF HasLine
  <2>. QED
    BY <2>2, <2>3 DEF HasLine
<1>4. CASE SetsLine(1, p)
  <2>1. PICK i \in 1 .. n : /\ transit[i].type = "execve" /\ transit[i].pid = p /\ transit[i].program = g
                            /\ \A k \in i + 1 .. n : ~SetsLine(k, p)
    <3>1. 1 \in 1 .. n
      OBVIOUS
    <3>. QED
      BY <1>4, <3>1 DEF HasLine
  <2>2. CASE i = 1
    <3>1. \A k \in 1 .. n - 1 : k + 1 \in 1 + 1 .. n
      OBVIOUS
    <3>2. \A k \in 1 .. n - 1 : ~SetsLine(k, p)'
      BY <1>2, <2>1, <2>2, <3>1
    <3>3. cache'[p].commandLine = g \/ ~Settable(p)'
      BY <1>1, <2>1, <2>2, LineSet
    <3>. QED
      BY <3>2, <3>3 DEF HasLine
  <2>3. CASE i # 1
    <3>2. PICK j \in 1 .. n - 1 : j + 1 = i
      <4>1. i - 1 \in 1 .. n - 1 /\ (i - 1) + 1 = i
        BY <2>3
      <4>. QED
        BY <4>1
    <3>3. \A k \in j + 1 .. n - 1 : k \in 1 .. n - 1 /\ k + 1 \in i + 1 .. n
      BY <3>2
    <3>4. \A k \in j + 1 .. n - 1 : ~SetsLine(k, p)'
      BY <1>2, <2>1, <3>3
    <3>5. transit'[j] = transit[i]
      BY <1>1, <3>2
    <3>. QED
      BY <2>1, <3>4, <3>5 DEF HasLine
  <2>. QED
    BY <2>2, <2>3
<1>. QED
  BY <1>3, <1>4

LEMMA LinesKept ==
  ASSUME TypeOK, LinesOK, NEW x \in SampleRecord, Appends(x),
         \A q \in Alive' : ~Runs(q)' =>
           \/ /\ q \in Alive /\ ~Runs(q) /\ tasks'[q].execs = tasks[q].execs
              /\ ~(x.pid = q /\ x.type \in {"newtask", "execve"})
           \/ x.type = "execve" /\ x.pid = q /\ x.program = tasks'[q].execs,
         x.type = "exec" /\ ~x.thread => x.pid \in Alive /\ ~Runs(x.pid) /\ x.program = tasks[x.pid].execs
  PROVE  LinesOK'
<1>1. PICK N \in Nat : N = Len(transit)
  BY Appended
<1>2. /\ Len(transit)' = N + 1 /\ DOMAIN transit = 1 .. N /\ DOMAIN transit' = 1 .. N + 1
      /\ \A n \in 1 .. N : transit'[n] = transit[n] /\ transit[n] \in SampleRecord
      /\ transit'[N + 1] = x
  BY <1>1, Appended DEF TypeOK, TransitTypeOK
<1>3. ASSUME NEW q \in Alive', ~Runs(q)' PROVE HasLine(q, tasks[q].execs, Len(transit))'
  <2>1. q \in Pids
    BY DEF Alive
  <2>2. PICK g : g = tasks'[q].execs
    OBVIOUS
  <2>3. \/ HasLine(q, g, Len(transit)) /\ ~(x.pid = q /\ x.type \in {"newtask", "execve"})
        \/ x.type = "execve" /\ x.pid = q /\ x.program = g
    BY <1>3, <2>2 DEF LinesOK
  <2>4. HasLine(q, g, Len(transit))'
    BY <2>1, <2>3, LineAppends
  <2>. QED
    BY <2>2, <2>4
<1>4. ASSUME NEW n \in DOMAIN transit', transit'[n].type = "exec", ~transit'[n].thread
      PROVE  HasLine(transit[n].pid, transit[n].program, n - 1)'
  <2>1. PICK q, g : q = transit'[n].pid /\ g = transit'[n].program
    OBVIOUS
  <2>2. CASE n = N + 1
    <3>1. q \in Pids /\ HasLine(q, g, N)
      BY <1>1, <1>2, <1>4, <2>1, <2>2, SampleTypes DEF LinesOK
    <3>2. HasLine(q, g, N)'
      BY <1>1, <3>1, LineAppends
    <3>. QED
      BY <2>1, <2>2, <3>2
  <2>3. CASE n # N + 1
    <3>1. n \in 1 .. N /\ n - 1 \in 0 .. N /\ transit'[n] = transit[n]
      BY <1>2, <2>3
    <3>2. q \in Pids /\ HasLine(q, g, n - 1)
      BY <1>2, <1>4, <2>1, <3>1, SampleTypes DEF LinesOK
    <3>3. HasLine(q, g, n - 1)'
      BY <1>1, <3>1, <3>2, LineAppends
    <3>. QED
      BY <2>1, <3>3
  <2>. QED
    BY <2>2, <2>3
<1>. QED
  BY <1>3, <1>4 DEF LinesOK

LEMMA LinesStep ==
  ASSUME TypeOK, KernelOK, LinesOK, Next, ~hung'
  PROVE  LinesOK'
<1>1. ASSUME NEW p \in Pids, NEW child \in Pids, NEW thread \in BOOLEAN, NewTask(p, child, thread)
      PROVE  LinesOK'
  <2>1. /\ child \notin Alive /\ Alive' = Alive \cup {child} /\ tasks'[child].execs = 0
        /\ \A q \in Alive : tasks'[q].execs = tasks[q].execs
    BY <1>1, NewTaskTasks
  <2>. DEFINE x == NewSample(p, child, thread)
  <2>2. x \in SampleRecord /\ Appends(x) /\ x.type = "newtask" /\ x.pid = child
    BY <1>1, KernelWrites DEF SampleRecord, NewTaskSample, NewSample
  <2>. HIDE DEF x
  <2>3. ASSUME NEW q \in Alive', ~Runs(q)'
        PROVE  /\ q \in Alive /\ ~Runs(q) /\ tasks'[q].execs = tasks[q].execs
               /\ ~(x.pid = q /\ x.type \in {"newtask", "execve"})
    BY <2>1, <2>2, <2>3 DEF Runs
  <2>. QED
    BY <2>2, <2>3, LinesKept
<1>2. ASSUME Quiet, \A q \in Alive' : ~Runs(q)' => q \in Alive /\ ~Runs(q) /\ tasks'[q].execs = tasks[q].execs
      PROVE  LinesOK'
  <2>1. \A q, g, n : HasLine(q, g, n)' <=> HasLine(q, g, n)
    BY <1>2 DEF Quiet, HasLine, SetsLine, Settable, Found, Entry
  <2>2. transit' = transit
    BY <1>2 DEF Quiet
  <2>. QED
    BY <1>2, <2>1, <2>2 DEF LinesOK
<1>3. ASSUME NEW p \in Pids, Exit(p) PROVE LinesOK'
  BY <1>2, <1>3, ExitTasks, KernelWrites DEF Runs
<1>4. ASSUME NEW p \in Pids, NEW c \in Containers, Join(p, c) PROVE LinesOK'
  BY <1>2, <1>4, JoinTasks, KernelWrites DEF Runs
<1>5. ASSUME NEW p \in Pids, ExecFails(p) PROVE LinesOK'
  <2>1. ~ExecBegin(p)
    BY <1>5 DEF ExecFails, ExecBegin
  <2>2. \A q \in Alive' : ~Runs(q)' => q \in Alive /\ ~Runs(q) /\ tasks'[q].execs = tasks[q].execs
    BY <1>5, <2>1, ExecTasks DEF Runs
  <2>. QED
    BY <1>2, <1>5, <2>2, KernelWrites
<1>6. ASSUME tasks' = tasks, NEW x \in SampleRecord, Appends(x), x.type \in {"rename", "sample"} PROVE LinesOK'
  <2>1. \A q \in Alive' : ~Runs(q)' => /\ q \in Alive /\ ~Runs(q) /\ tasks'[q].execs = tasks[q].execs
                                      /\ ~(x.pid = q /\ x.type \in {"newtask", "execve"})
    BY <1>6 DEF Runs, Alive
  <2>. QED
    BY <1>6, <2>1, LinesKept
<1>7. ASSUME NEW p \in Pids, Rename(p) PROVE LinesOK'
  <2>. DEFINE x == [type |-> "rename", pid |-> p]
  <2>1. x \in SampleRecord /\ Appends(x) /\ x.type = "rename"
    BY <1>7, KernelWrites DEF SampleRecord, RenameSample
  <2>. HIDE DEF x
  <2>. QED
    BY <1>6, <1>7, <2>1 DEF Rename
<1>8. ASSUME NEW p \in Pids, Sample(p) PROVE LinesOK'
  <2>. DEFINE x == [type |-> "sample", pid |-> p, id |-> tasks[p].id, container |-> tasks[p].container]
  <2>1. tasks[p].id \in Ids /\ tasks[p].container \in Containers \cup {None}
    BY <1>8, TaskTypes DEF Sample, Runs
  <2>2. x \in SampleRecord /\ Appends(x) /\ x.type = "sample"
    BY <1>8, <2>1, KernelWrites DEF SampleRecord, OtherSample
  <2>. HIDE DEF x
  <2>. QED
    BY <1>6, <1>8, <2>2 DEF Sample
<1>9. ASSUME NEW p \in Pids, ExecBegin(p) PROVE LinesOK'
  <2>. DEFINE x == [type |-> "execve", pid |-> p, program |-> written + 1]
  <2>1. written + 1 \in Nat
    BY DEF TypeOK, CountersTypeOK
  <2>2. /\ x \in SampleRecord /\ Appends(x) /\ x.type = "execve" /\ x.pid = p /\ x.program = written + 1
    BY <1>9, <2>1, KernelWrites DEF SampleRecord, ExecveSample
  <2>3. Alive' = Alive /\ tasks'[p].execs = written + 1 /\ \A q \in Alive : q # p => tasks'[q] = tasks[q]
    BY <1>9, ExecTasks
  <2>. HIDE DEF x
  <2>4. ASSUME NEW q \in Alive', ~Runs(q)'
        PROVE  \/ /\ q \in Alive /\ ~Runs(q) /\ tasks'[q].execs = tasks[q].execs
                  /\ ~(x.pid = q /\ x.type \in {"newtask", "execve"})
               \/ x.type = "execve" /\ x.pid = q /\ x.program = tasks'[q].execs
    BY <2>2, <2>3, <2>4 DEF Runs
  <2>. QED
    BY <2>2, <2>4, LinesKept
<1>10. ASSUME NEW p \in Pids, ExecEnd(p) PROVE LinesOK'
  <2>1. PICK leader \in Alive : leader = LeaderPid(p)
    BY <1>10, ExecEndTasks
  <2>. DEFINE x == [type |-> "exec", pid |-> leader, program |-> tasks[p].execs, thread |-> p # leader]
  <2>2. p \in Alive /\ ~Runs(p) /\ leader \in Pids /\ tasks[p].execs \in Nat
    BY <1>10, <2>1, ExecEndTasks, TaskTypes DEF ExecEnd
  <2>3. /\ x \in SampleRecord /\ Appends(x) /\ x.type = "exec" /\ x.pid = leader /\ x.program = tasks[p].execs
        /\ ~x.thread => p = leader
    BY <1>10, <2>1, <2>2, KernelWrites DEF SampleRecord, ExecSample
  <2>4. /\ Alive' \subseteq Alive /\ tasks'[leader].execs = 0
        /\ \A q \in Alive' : q # leader => tasks'[q].execs = tasks[q].execs
    BY <1>10, <2>1, ExecEndTasks
  <2>. HIDE DEF x
  <2>5. ASSUME NEW q \in Alive', ~Runs(q)'
        PROVE  /\ q \in Alive /\ ~Runs(q) /\ tasks'[q].execs = tasks[q].execs
               /\ ~(x.pid = q /\ x.type \in {"newtask", "execve"})
    BY <2>3, <2>4, <2>5 DEF Runs
  <2>6. x.type = "exec" /\ ~x.thread => x.pid \in Alive /\ ~Runs(x.pid) /\ x.program = tasks[x.pid].execs
    BY <2>2, <2>3
  <2>. QED
    BY <2>3, <2>5, <2>6, LinesKept
<1>11. CASE Handle
  <2>1. PICK N \in Nat : N = Len(transit)
    BY <1>11, Taken
  <2>2. /\ Len(transit)' = N - 1 /\ DOMAIN transit = 1 .. N /\ DOMAIN transit' = 1 .. N - 1 /\ 1 \in 1 .. N
        /\ \A n \in 1 .. N - 1 : n + 1 \in 1 .. N /\ transit'[n] = transit[n + 1]
        /\ \A n \in 1 .. N : transit[n] \in SampleRecord
    BY <1>11, <2>1, Taken DEF TypeOK, TransitTypeOK
  <2>3. tasks' = tasks /\ Alive' = Alive
    BY <1>11, HandleTakes DEF Alive
  <2>4. ASSUME NEW q \in Alive', ~Runs(q)' PROVE HasLine(q, tasks[q].execs, Len(transit))'
    <3>1. q \in Pids /\ q \in Alive /\ ~Runs(q) /\ N \in 1 .. Len(transit)
      BY <2>1, <2>2, <2>3, <2>4 DEF Alive, Runs
    <3>2. PICK g : g = tasks[q].execs
      OBVIOUS
    <3>3. HasLine(q, g, N)
      BY <2>1, <3>1, <3>2 DEF LinesOK
    <3>4. HasLine(q, g, N - 1)'
      BY <1>11, <3>1, <3>3, LineHandles
    <3>. QED
      BY <2>2, <2>3, <3>2, <3>4
  <2>5. ASSUME NEW n \in DOMAIN transit', transit'[n].type = "exec", ~transit'[n].thread
        PROVE  HasLine(transit[n].pid, transit[n].program, n - 1)'
    <3>1. n \in 1 .. Len(transit) /\ n + 1 \in 1 .. N /\ transit'[n] = transit[n + 1] /\ (n + 1) - 1 = n
      BY <2>1, <2>2
    <3>2. PICK q, g : q = transit'[n].pid /\ g = transit'[n].program
      OBVIOUS
    <3>3. q \in Pids /\ HasLine(q, g, n)
      BY <2>2, <2>5, <3>1, <3>2, SampleTypes DEF LinesOK
    <3>4. HasLine(q, g, n - 1)'
      BY <1>11, <3>1, <3>3, LineHandles
    <3>. QED
      BY <3>2, <3>4
  <2>. QED
    BY <2>4, <2>5 DEF LinesOK
<1>. QED
  BY <1>1, <1>3, <1>4, <1>5, <1>7, <1>8, <1>9, <1>10, <1>11 DEF Next

-----------------------------------------------------------------------------
(* The events. *)

\* A walk from thread to creator keeps to the tasks of the process.
LEMMA LeaderHasTheId ==
  ASSUME TypeOK, CacheOK, InOrder, NEW ids, IdsOf(ids), NEW p \in Pids, ComesBefore(p, 0),
         reused \cap Walk(p, Threads) = {}, WalkEnds(p, Threads) # {}
  PROVE  LET end == Entry(WalkEnd(p, Threads))
         IN  \/ <<end.pid, end.ppid>> = ids[p]
             \/ <<end.pid, end.ppid>> = <<0, 0>> /\ ids[p] = <<1, 0>>
<1>. DEFINE S == {q \in Walk(p, Threads) \cap Pids : ids[q] = ids[p] /\ (q = 1 \/ Found(q))}
<1>1. /\ p \in Walk(p, Threads) /\ p \notin reused
      /\ \A r \in Walk(p, Threads) \cap Threads : Entry(r).ppid \in Walk(p, Threads)
  BY WalkClosed
<1>2. p \in S
  BY <1>1 DEF ComesBefore
<1>3. ASSUME NEW r \in S \cap Threads PROVE Entry(r).ppid \in S
  <2>1. r \in Pids /\ Found(r) /\ Entry(r) = cache[r] /\ r \notin reused /\ ids[r] = ids[p]
    BY <1>3 DEF Threads, Entry
  <2>2. PICK q \in Pids : q = cache[r].ppid
    BY <2>1 DEF CacheOK, EntryOK
  <2>3. cache[r].tgid # r
    BY <1>3, <2>1 DEF Threads, CacheOK, EntryOK
  <2>4. ThreadOf(r, q)
    BY <2>1, <2>2, <2>3 DEF ThreadOf
  <2>5. q \in Walk(p, Threads) /\ q \notin reused
    BY <1>1, <1>3, <2>1, <2>2
  <2>6. ids[q] = ids[p]
    BY <2>1, <2>4, <2>5 DEF IdsOf
  <2>7. q = 1 \/ Found(q)
    BY <2>1, <2>2 DEF InOrder, ComesBefore
  <2>. QED
    BY <2>1, <2>2, <2>5, <2>6, <2>7
<1>4. Walk(p, Threads) \subseteq S
  <2>1. S \in SUBSET (Pids \cup {0})
    OBVIOUS
  <2>. HIDE DEF S
  <2>. QED
    BY <1>2, <1>3, <2>1, WalkStays
<1>5. PICK q : q = WalkEnd(p, Threads)
  OBVIOUS
<1>6. q \in Walk(p, Threads) /\ q \notin Threads
  BY <1>5, WalkEndIsEnd
<1>7. q \in Pids /\ q \notin reused /\ ids[q] = ids[p] /\ (q = 1 \/ Found(q)) /\ Entry(q) = cache[q]
  BY <1>4, <1>6 DEF Entry
<1>8. CASE Found(q)
  <2>1. cache[q].pid = q /\ cache[q].tgid = q /\ cache[q].ppid \in Pids
    BY <1>6, <1>7, <1>8 DEF CacheOK, EntryOK, Threads
  <2>2. ForkOf(q, cache[q].ppid)
    BY <1>7, <1>8, <2>1 DEF ForkOf
  <2>3. ids[q] = <<q, cache[q].ppid>>
    BY <1>7, <2>1, <2>2 DEF IdsOf
  <2>. QED
    BY <1>5, <1>7, <2>1, <2>3
<1>9. CASE ~Found(q)
  <2>1. cache[q].pid = 0 /\ cache[q].ppid = 0
    BY <1>7, <1>9 DEF CacheOK, EntryOK
  <2>2. ids[p] = <<1, 0>>
    BY <1>7, <1>9 DEF IdsOf
  <2>. QED
    BY <1>5, <1>7, <2>1, <2>2
<1>. QED
  BY <1>8, <1>9

EventsOK == ProcessIdIsTheLeaders /\ ContainerIsTheTasks /\ CommandLineIsTheExecs /\ HangsOnlyOnReuse

\* Steps of the kernel leave the last event as it is.
LEMMA EventStays ==
  ASSUME EventsOK, UNCHANGED <<event, cache, hung>>, reused \subseteq reused'
  PROVE  EventsOK'
<1>1. Threads' = Threads /\ \A p, on : Walk(p, on)' = Walk(p, on)
  BY DEF Threads, Walk, Found, Entry
<1>2. ProcessIdIsTheLeaders'
  <2>1. PICK p : p = event.sample.pid
    OBVIOUS
  <2>2. Walk(p, Threads)' = Walk(p, Threads)
    BY <1>1
  <2>. QED
    BY <2>1, <2>2 DEF EventsOK, ProcessIdIsTheLeaders
<1>3. ContainerIsTheTasks' /\ CommandLineIsTheExecs' /\ HangsOnlyOnReuse'
  BY DEF EventsOK, ContainerIsTheTasks, CommandLineIsTheExecs, HangsOnlyOnReuse
<1>. QED
  BY <1>2, <1>3 DEF EventsOK

LEMMA HandledEvent ==
  ASSUME ProcessInv, EventsOK, Handle
  PROVE  EventsOK'
<1>1. /\ TypeOK /\ CacheOK /\ InOrder /\ LinesOK /\ ~hung
      /\ reused' = reused
      /\ Sampled \in SampleRecord /\ Sampled = transit[1] /\ 1 \in DOMAIN transit
  BY HandleTakes DEF ProcessInv, Handle
<1>2. PICK ids \in [Pids -> Ids] : IdsOf(ids)
  BY <1>1 DEF ProcessInv
<1>3. PICK x \in SampleRecord : x = Sampled
  BY <1>1
<1>4. /\ x.pid \in Pids
      /\ \/ x.type = "newtask" /\ DecodeNewTask(x) /\ event' = NoEvent
         \/ x.type = "rename" /\ DecodeRename(x) /\ event' = NoEvent
         \/ x.type = "execve" /\ DecodeExecve(x) /\ event' = NoEvent
         \/ x.type \in {"exec", "sample"} /\ NewEvent(x)
  BY <1>1, <1>3, HandleTakes, SampleTypes
<1>5. reused = {} => /\ \A p \in Pids : ContainerId(p) # "circle"
                     /\ \A p \in Pids : WalkEnds(p, Threads) # {}
  <2>. SUFFICES ASSUME reused = {} PROVE /\ \A p \in Pids : ContainerId(p) # "circle"
                                         /\ \A p \in Pids : WalkEnds(p, Threads) # {}
    OBVIOUS
  <2>1. PICK ages \in [Pids -> Nat] : AgesOf(ages)
    BY <1>1 DEF ProcessInv
  <2>2. \A p \in Pids : WalkEnds(p, Threads) # {} /\ WalkEnds(p, Uncontained) # {}
    BY <1>1, <2>1, WalkEndsSomewhere DEF Threads, Uncontained
  <2>3. ASSUME NEW p \in Pids PROVE ContainerId(p) # "circle"
    <3>1. PICK end : end = WalkEnd(p, Uncontained)
      OBVIOUS
    <3>2. Entry(end).containerId \in Containers \cup {None}
      BY <1>1, EntryTypes
    <3>. QED
      BY <2>2, <3>1, <3>2, ContainerNames DEF ContainerId, None
  <2>. QED
    BY <2>2, <2>3
<1>6. HangsOnlyOnReuse'
  <2>. SUFFICES ASSUME reused = {}, hung' PROVE FALSE
    BY <1>1 DEF HangsOnlyOnReuse
  <2>1. ~(x.type = "newtask" /\ DecodeNewTask(x))
    BY <1>1, <1>5, SampleTypes DEF DecodeNewTask
  <2>2. ~(x.type = "rename" /\ DecodeRename(x)) /\ ~(x.type = "execve" /\ DecodeExecve(x))
    BY <1>1 DEF DecodeRename, DecodeExecve
  <2>3. ~NewEvent(x)
    BY <1>1, <1>4, <1>5 DEF NewEvent, LookupLeader
  <2>. QED
    BY <1>4, <2>1, <2>2, <2>3
<1>7. CASE event' = NoEvent
  BY <1>6, <1>7 DEF EventsOK, ProcessIdIsTheLeaders, ContainerIsTheTasks, CommandLineIsTheExecs, NoEvent
<1>8. CASE event' # NoEvent
  <2>1. x.type \in {"exec", "sample"} /\ NewEvent(x)
    BY <1>4, <1>8
  <2>2. cache' = cache
    BY <2>1 DEF NewEvent
  <2>3. CASE UNCHANGED <<event, cache>>
    <3>1. Threads' = Threads /\ \A p, on : Walk(p, on)' = Walk(p, on)
      BY <2>3 DEF Threads, Walk, Found, Entry
    <3>2. PICK p : p = event.sample.pid
      OBVIOUS
    <3>3. Walk(p, Threads)' = Walk(p, Threads)
      BY <3>1
    <3>4. ProcessIdIsTheLeaders'
      BY <1>1, <2>3, <3>2, <3>3 DEF EventsOK, ProcessIdIsTheLeaders
    <3>. QED
      BY <1>1, <1>6, <2>3, <3>4 DEF EventsOK, ContainerIsTheTasks, CommandLineIsTheExecs
  <2>4. CASE event' # event
    <3>1. PICK leader : leader = LookupLeader(x.pid)
      OBVIOUS
    <3>2. PICK container : container = ContainerId(x.pid)
      OBVIOUS
    <3>3. /\ leader.known /\ container # "circle"
          /\ event' = [sample |-> x, processId |-> <<leader.task.pid, leader.task.ppid>>,
                       containerId |-> container,
                       commandLine |-> IF x.type = "exec" THEN ExecCommandLine(x.pid) ELSE 0,
                       cached |-> Entry(x.pid).commandLine # 0]
      BY <2>1, <2>4, <3>1, <3>2 DEF NewEvent
    <3>4. /\ event'.sample = x /\ event'.processId = <<leader.task.pid, leader.task.ppid>>
          /\ event'.containerId = container
      BY <3>3
    <3>5. ProcessIdIsTheLeaders'
      <4>. SUFFICES ASSUME x.type = "sample", reused \cap Walk(x.pid, Threads) = {}
           PROVE  \/ event'.processId = x.id
                  \/ event'.processId = <<0, 0>> /\ x.id = <<1, 0>>
        <5>1. PICK p : p = x.pid
          OBVIOUS
        <5>2. Walk(p, Threads)' = Walk(p, Threads)
          BY <2>2 DEF Threads, Walk, Found, Entry
        <5>. QED
          BY <1>1, <3>4, <5>1, <5>2 DEF ProcessIdIsTheLeaders
      <4>1. WalkEnds(x.pid, Threads) # {} /\ leader.task = Entry(WalkEnd(x.pid, Threads))
        BY <3>1, <3>3 DEF LookupLeader
      <4>2. x.pid \notin reused /\ x.id = ids[x.pid]
        <5>1. x.pid \in Walk(x.pid, Threads)
          BY <1>1, <1>4, WalkClosed
        <5>. QED
          BY <1>1, <1>2, <1>3, <5>1 DEF IdsOf
      <4>3. ComesBefore(x.pid, 0)
        <5>1. ComesBefore(x.pid, 1)
          BY <1>1, <1>3 DEF InOrder
        <5>2. \A i \in 1 .. 1 : transit[i] = x
          BY <1>1, <1>3
        <5>. QED
          BY <5>1, <5>2 DEF ComesBefore
      <4>. QED
        BY <1>1, <1>2, <1>4, <3>4, <4>1, <4>2, <4>3, LeaderHasTheId
    <3>6. ContainerIsTheTasks'
      <4>. SUFFICES ASSUME x.type = "sample", reused = {} PROVE container \in {None, x.container}
        BY <1>1, <3>4 DEF ContainerIsTheTasks
      <4>1. PICK homes \in [Pids -> Containers \cup {None}] : HomesOf(homes)
        BY <1>1 DEF ProcessInv
      <4>2. x.container = homes[x.pid] \/ Outside(homes, x.pid, 1)
        BY <1>1, <1>3, <4>1 DEF HomesOf
      <4>3. x.container = homes[x.pid] => container \in {None, x.container}
        BY <1>1, <1>4, <3>2, <3>3, <4>1, ContainedAtHome
      <4>4. Outside(homes, x.pid, 1) => container = None
        BY <1>1, <1>4, <3>2, <3>3, <4>1, NotContainedYet
      <4>. QED
        BY <4>2, <4>3, <4>4
    <3>7. CommandLineIsTheExecs'
      <4>. SUFFICES ASSUME x.type = "exec", event'.cached, ~x.thread
           PROVE  event'.commandLine = x.program
        BY <3>4 DEF CommandLineIsTheExecs
      <4>1. Entry(x.pid) = cache[x.pid] /\ Entry(x.pid).commandLine # 0
        BY <1>4, <3>3 DEF Entry
      <4>2. event'.commandLine = cache[x.pid].commandLine
        BY <3>3, <4>1 DEF ExecCommandLine
      <4>3. HasLine(x.pid, x.program, 0)
        BY <1>1, <1>3 DEF LinesOK
      <4>4. cache[x.pid].commandLine = x.program \/ ~Settable(x.pid)
        BY <4>3 DEF HasLine
      <4>5. Settable(x.pid)
        BY <1>1, <1>4, <4>1 DEF Settable, CacheOK, EntryOK
      <4>. QED
        BY <4>2, <4>4, <4>5
    <3>. QED
      BY <1>6, <3>5, <3>6, <3>7 DEF EventsOK
  <2>. QED
    BY <2>2, <2>3, <2>4
<1>. QED
  BY <1>7, <1>8

-----------------------------------------------------------------------------
(* The theorems. *)

LEMMA InitEstablishes == Init => ProcessInv /\ EventsOK
<1>. SUFFICES ASSUME Init PROVE ProcessInv /\ EventsOK
  OBVIOUS
<1>. DEFINE first == Task(1, 1, <<1, 0>>, None, 0)
<1>1. /\ first \in TaskRecord /\ first.number = 1 /\ first.leader = 1 /\ first.id = <<1, 0>>
      /\ first.container = None /\ first.execs = 0
  <2>1. <<1, 0>> \in Ids
    BY PidBounds DEF Ids
  <2>. QED
    BY <2>1 DEF Task, TaskRecord
<1>2. tasks = [p \in Pids |-> IF p = 1 THEN first ELSE NoTask]
  BY DEF Init
<1>. HIDE DEF first
<1>3. Unknown \in EntryRecord /\ Unknown.tgid = 0 /\ Unknown.pid = 0 /\ Unknown.ppid = 0
      /\ Unknown.containerId = None /\ Unknown.commandLine = 0
  BY DEF Unknown, EntryRecord
<1>4. Alive = {1} /\ tasks[1] = first
  BY <1>1, <1>2, NoTaskIsNone, PidBounds DEF Alive
<1>5. /\ \A p \in Pids : cache[p] = Unknown /\ ~Found(p)
      /\ transit = <<>> /\ reused = {} /\ taskCount = 1 /\ ~hung
  BY <1>3 DEF Init, Found, Entry
<1>6. TypeOK
  BY <1>1, <1>2, <1>3 DEF Init, TypeOK, TasksTypeOK, CountersTypeOK, CacheTypeOK, TransitTypeOK
<1>7. KernelOK
  BY <1>1, <1>4, <1>5 DEF KernelOK
<1>8. CacheOK /\ InOrder
  BY <1>3, <1>4, <1>5 DEF CacheOK, EntryOK, InOrder, ComesBefore
<1>9. LinesOK
  BY <1>1, <1>4, <1>5 DEF LinesOK, Runs
<1>10. \A c, p \in Pids : ~ThreadOf(c, p) /\ ~ForkOf(c, p) /\ ~ChildOf(c, p)
  BY <1>5 DEF ThreadOf, ForkOf, ChildOf
<1>11. \E ids \in [Pids -> Ids] : IdsOf(ids)
  <2>1. <<1, 0>> \in Ids
    BY PidBounds DEF Ids
  <2>2. [p \in Pids |-> <<1, 0>>] \in [Pids -> Ids] /\ IdsOf([p \in Pids |-> <<1, 0>>])
    BY <1>1, <1>4, <1>5, <1>10, <2>1, PidBounds DEF IdsOf
  <2>. QED
    BY <2>2
<1>12. \E ages \in [Pids -> Nat] : AgesOf(ages)
  <2>1. [p \in Pids |-> 0] \in [Pids -> Nat] /\ AgesOf([p \in Pids |-> 0])
    BY <1>5, <1>10 DEF AgesOf
  <2>. QED
    BY <2>1
<1>13. \E homes \in [Pids -> Containers \cup {None}] : HomesOf(homes)
  <2>1. [p \in Pids |-> None] \in [Pids -> Containers \cup {None}] /\ HomesOf([p \in Pids |-> None])
    BY <1>1, <1>3, <1>4, <1>5, <1>10, PidBounds DEF HomesOf
  <2>. QED
    BY <2>1
<1>14. event = NoEvent
  BY DEF Init
<1>15. EventsOK
  BY <1>5, <1>14 DEF EventsOK, ProcessIdIsTheLeaders, ContainerIsTheTasks, CommandLineIsTheExecs, HangsOnlyOnReuse, NoEvent
<1>. QED
  BY <1>6, <1>7, <1>8, <1>9, <1>11, <1>12, <1>13, <1>15 DEF ProcessInv

LEMMA NextPreserves ==
  ASSUME ProcessInv, EventsOK, Next
  PROVE  ProcessInv' /\ EventsOK'
<1>1. TypeOK /\ KernelOK
  BY DEF ProcessInv
<1>2. TypeOK' /\ KernelOK'
  BY <1>1, TypeStep, KernelStep
<1>3. (hung => hung') /\ reused \subseteq reused' /\ (Handle \/ UNCHANGED <<event, cache, hung>>)
  <2>1. ASSUME NEW p \in Pids, NEW child \in Pids, NEW thread \in BOOLEAN, NewTask(p, child, thread)
        PROVE  reused \subseteq reused' /\ UNCHANGED <<event, cache, hung>>
    BY <2>1 DEF NewTask, Write
  <2>2. ASSUME NEW p \in Pids, NEW c \in Containers, Join(p, c) PROVE reused \subseteq reused' /\ UNCHANGED <<event, cache, hung>>
    BY <2>2 DEF Join
  <2>3. TasksStay /\ Quiet => reused \subseteq reused' /\ UNCHANGED <<event, cache, hung>>
    BY DEF TasksStay, Quiet
  <2>4. ASSUME TasksStay, NEW x \in SampleRecord, Tells(x) PROVE reused \subseteq reused' /\ UNCHANGED <<event, cache, hung>>
    BY <2>4 DEF TasksStay, Tells, Appends
  <2>5. Handle => ~hung /\ reused' = reused
    BY DEF Handle, kernelVars
  <2>. QED
    BY <1>1, <2>1, <2>2, <2>3, <2>4, <2>5, StepCases
<1>4. EventsOK'
  BY <1>3, EventStays, HandledEvent
<1>5. ASSUME ~hung'
      PROVE  /\ ~hung /\ CacheOK /\ InOrder /\ LinesOK
             /\ CacheOK' /\ InOrder' /\ LinesOK'
             /\ reused' = {} => reused = {}
  <2>1. ~hung /\ CacheOK /\ InOrder /\ LinesOK
    BY <1>3, <1>5 DEF ProcessInv
  <2>. QED
    BY <1>1, <1>3, <1>5, <2>1, CacheStep, OrderStep, LinesStep
<1>6. ASSUME ~hung' PROVE \E ids \in [Pids -> Ids] : IdsOf(ids)'
  <2>1. PICK ids \in [Pids -> Ids] : IdsOf(ids)
    BY <1>5, <1>6 DEF ProcessInv
  <2>. QED
    BY <1>1, <1>5, <1>6, <2>1, IdsStep
<1>7. ASSUME ~hung', reused' = {} PROVE \E ages \in [Pids -> Nat] : AgesOf(ages)'
  <2>1. PICK ages \in [Pids -> Nat] : AgesOf(ages)
    BY <1>5, <1>7 DEF ProcessInv
  <2>. QED
    BY <1>1, <1>5, <1>7, <2>1, AgesStep
<1>8. ASSUME ~hung', reused' = {} PROVE \E homes \in [Pids -> Containers \cup {None}] : HomesOf(homes)'
  <2>1. PICK homes \in [Pids -> Containers \cup {None}] : HomesOf(homes)
    BY <1>5, <1>8 DEF ProcessInv
  <2>. QED
    BY <1>1, <1>5, <1>8, <2>1, HomesStep
<1>. QED
  BY <1>2, <1>4, <1>5, <1>6, <1>7, <1>8 DEF ProcessInv

LEMMA StutterPreserves ==
  ASSUME ProcessInv, EventsOK, UNCHANGED vars
  PROVE  ProcessInv' /\ EventsOK'
<1>1. /\ tasks' = tasks /\ reused' = reused /\ taskCount' = taskCount /\ written' = written /\ transit' = transit
      /\ isArray' = isArray /\ cache' = cache /\ event' = event /\ hung' = hung
  BY DEF vars, kernelVars
<1>2. EventsOK'
  BY <1>1, EventStays
<1>3. TypeOK' /\ KernelOK'
  BY <1>1 DEF ProcessInv, TypeOK, TasksTypeOK, CountersTypeOK, CacheTypeOK, TransitTypeOK, KernelOK, Alive
<1>4. ~hung => CacheOK' /\ InOrder' /\ LinesOK'
  BY <1>1 DEF ProcessInv, CacheOK, EntryOK, InOrder, ComesBefore, LinesOK, HasLine, SetsLine, Settable, Runs,
              Alive, Found, Entry
<1>5. /\ \A ids : IdsOf(ids)' <=> IdsOf(ids)
      /\ \A ages : AgesOf(ages)' <=> AgesOf(ages)
      /\ \A homes : HomesOf(homes)' <=> HomesOf(homes)
  BY <1>1 DEF IdsOf, AgesOf, HomesOf, Outside, NotYet, ThreadOf, ForkOf, ChildOf, IsNew, Alive, Found, Entry
<1>. QED
  BY <1>1, <1>2, <1>3, <1>4, <1>5 DEF ProcessInv

\* The cache and the samples on the way say together what the kernel knew of each
\* task when its sample was written, as long as the dispatcher does not hang.
THEOREM ProcessInvariant == Spec => [](ProcessInv /\ EventsOK)
<1>1. ProcessInv /\ EventsOK /\ [Next]_vars => (ProcessInv /\ EventsOK)'
  BY NextPreserves, StutterPreserves
<1>. QED
  BY <1>1, InitEstablishes, PTL DEF Spec

\* NewEventFromSample gives an event the process id of its leader, with the
\* exceptions that the property names.
THEOREM ProcessIdsAreTheLeaders == Spec => []ProcessIdIsTheLeaders
BY ProcessInvariant, PTL DEF EventsOK

\* NewEventFromSample gives no event the container of another task, unless a pid was
\* used again.
THEOREM ContainersAreTheTasks == Spec => []ContainerIsTheTasks
BY ProcessInvariant, PTL DEF EventsOK

\* decodeSchedProcessExec gives an exec of a leader no command line of another exec
\* from the cache.
THEOREM CommandLinesAreTheExecs == Spec => []CommandLineIsTheExecs
BY ProcessInvariant, PTL DEF EventsOK

\* lookupLeader and ProcessContainerId end, unless a pid was used again.
THEOREM WalksEndWithoutReuse == Spec => []HangsOnlyOnReuse
BY ProcessInvariant, PTL DEF EventsOK
=============================================================================
