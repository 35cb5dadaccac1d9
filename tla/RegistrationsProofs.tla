------------------------ MODULE RegistrationsProofs ------------------------
(***************************************************************************)
(* The dummy event of SyscallEvents, for any finite set of subscriptions:  *)
(* the counter is the number of subscriptions that need the event, the     *)
(* event is there while one of them has its kprobe, and none is left       *)
(* behind.  All of it holds until a registration of the event fails.       *)
(*                                                                         *)
(* Then Registrations, whatever the filters of the subscriptions and the   *)
(* events of the kernel are: it does with the dummy event what             *)
(* SyscallEvents says, and a subscription that has ended leaves nothing.   *)
(***************************************************************************)
EXTENDS Registrations, FiniteSetTheorems, TLAPS

-----------------------------------------------------------------------------
(* The inductive invariant. *)

SyscallTypeOK ==
  /\ enter \in [Subs -> EnterStage]
  /\ eventID \in [Subs -> Nat]
  /\ dummyCount \in Int
  /\ dummyEventID \in Nat
  /\ dummies \subseteq Nat
  /\ nextDummy \in Nat \ {0}
  /\ dummyFailed \in BOOLEAN

\* Ids are given out once.
IdsAreOld ==
  /\ \A s \in Subs : eventID[s] < nextDummy
  /\ dummyEventID < nextDummy
  /\ \A d \in dummies : d < nextDummy

\* A subscription that has counted first, and has not stored the id yet.
Starting(s) == enter[s] \in {"first", "registered"}
Started == \A s \in Subs : ~Starting(s)

\* While it is being registered, the event has one owner; afterwards its id is
\* the one that is known.
OneStarts == \A s, t \in Subs : Starting(s) /\ Starting(t) => s = t
RegisteredIsThere == \A s \in Subs : enter[s] = "registered" => eventID[s] \in dummies
KnownIsThere == Started /\ Counting # {} => dummyEventID \in dummies

\* Unregister functions run one at a time.  Who has read the id has read the one
\* that is known, or is not the last to count the event.
OneRemoves == \A s, t \in Subs : {enter[s], enter[t]} \subseteq {"removing", "last"} => s = t
ReadIsKnown ==
  \A s \in Subs : enter[s] = "removing" =>
     \/ eventID[s] = dummyEventID
     \/ \E t \in Subs : enter[t] \in {"first", "registered", "counted", "probed", "unprobed"}

\* The event the last one unregisters is neither the one that is being
\* registered nor the one that is known to those who have come since.
LastIsAlone ==
  \A s \in Subs : enter[s] = "last" =>
     /\ \A t \in Subs : enter[t] = "registered" => eventID[t] # eventID[s]
     /\ Started /\ Counting # {} => dummyEventID # eventID[s]

\* Every event has somebody who will unregister it.
AllAreKnown ==
  \A d \in dummies :
     \/ d = dummyEventID /\ dummyCount > 0 /\ Started
     \/ \E t \in Subs : enter[t] \in {"registered", "last"} /\ eventID[t] = d

Kept ==
  /\ \A s \in Subs : enter[s] # "failed"
  /\ dummyCount = Cardinality(Counting)
  /\ OneStarts
  /\ RegisteredIsThere
  /\ KnownIsThere
  /\ OneRemoves
  /\ ReadIsKnown
  /\ LastIsAlone
  /\ AllAreKnown

SyscallInv == SyscallTypeOK /\ IdsAreOld /\ (~dummyFailed => Kept)

-----------------------------------------------------------------------------
LEMMA CountingIsFinite == IsFiniteSet(Counting) /\ Cardinality(Counting) \in Nat
<1>1. IsFiniteSet(Counting)
  BY SubsFinite, FS_Subset DEF Counting
<1>. QED
  BY <1>1, FS_CardinalityType

LEMMA SyscallInvInit == SyscallInit => SyscallInv
<1>. SUFFICES ASSUME SyscallInit PROVE SyscallInv
  OBVIOUS
<1>. USE DEF SyscallInit
<1>1. "none" \in EnterStage
  BY DEF EnterStage
<1>0. dummyFailed \in BOOLEAN
  OBVIOUS
<1>5. SyscallTypeOK /\ IdsAreOld
  <2>1. enter \in [Subs -> EnterStage]
    BY <1>1
  <2>2. eventID \in [Subs -> Nat] /\ \A s \in Subs : eventID[s] < nextDummy
    OBVIOUS
  <2>3. /\ dummyCount \in Int /\ dummyEventID \in Nat /\ dummyEventID < nextDummy
        /\ dummies \subseteq Nat /\ nextDummy \in Nat \ {0}
        /\ \A d \in dummies : d < nextDummy
    OBVIOUS
  <2>. QED
    BY <1>0, <2>1, <2>2, <2>3 DEF SyscallTypeOK, IdsAreOld
<1>2. Counting = {}
  BY DEF Counting
<1>3. dummyCount = Cardinality(Counting)
  BY <1>2, FS_EmptySet
<1>4. Kept
  BY <1>2, <1>3 DEF Kept, OneStarts, RegisteredIsThere, KnownIsThere, OneRemoves,
       ReadIsKnown, LastIsAlone, AllAreKnown, Starting
<1>. QED
  BY <1>5, <1>4 DEF SyscallInv

LEMMA TypeStep ==
  ASSUME SyscallTypeOK, IdsAreOld, [SyscallNext]_syscallVars
  PROVE  SyscallTypeOK' /\ IdsAreOld'
<1>. USE DEF SyscallTypeOK, IdsAreOld
<1>0. {"first", "counted", "failed", "registered", "probed", "unprobed", "removing", "last", "removed"}
        \subseteq EnterStage
  BY DEF EnterStage
<1>1. CASE UNCHANGED syscallVars
  BY <1>1 DEF syscallVars
<1>2. ASSUME NEW s \in Subs, CountDummy(s) PROVE SyscallTypeOK' /\ IdsAreOld'
  BY <1>0, <1>2 DEF CountDummy
<1>3. ASSUME NEW s \in Subs, RegisterDummy(s) PROVE SyscallTypeOK' /\ IdsAreOld'
  BY <1>0, <1>3 DEF RegisterDummy
<1>4. ASSUME NEW s \in Subs, RegisterDummyFails(s) PROVE SyscallTypeOK' /\ IdsAreOld'
  <2>1. dummyFailed' \in BOOLEAN
    BY <1>4 DEF RegisterDummyFails
  <2>2. enter' \in [Subs -> EnterStage]
    BY <1>0, <1>4 DEF RegisterDummyFails
  <2>. QED
    BY <1>4, <2>1, <2>2 DEF RegisterDummyFails
<1>9. ASSUME NEW s \in Subs, UncountDummy(s) PROVE SyscallTypeOK' /\ IdsAreOld'
  BY <1>0, <1>9 DEF UncountDummy
<1>5. ASSUME NEW s \in Subs, StoreDummy(s) \/ ReadDummy(s) PROVE SyscallTypeOK' /\ IdsAreOld'
  BY <1>0, <1>5 DEF StoreDummy, ReadDummy
<1>6. ASSUME NEW s \in Subs, ProbeEnter(s) \/ ProbeEnterFails(s) PROVE SyscallTypeOK' /\ IdsAreOld'
  BY <1>0, <1>6 DEF ProbeEnter, ProbeEnterFails
<1>7. ASSUME NEW s \in Subs, DropDummy(s) PROVE SyscallTypeOK' /\ IdsAreOld'
  <2>1. enter' \in [Subs -> EnterStage] /\ dummyCount' \in Int
    BY <1>0, <1>7 DEF DropDummy
  <2>. QED
    BY <1>7, <2>1 DEF DropDummy
<1>8. ASSUME NEW s \in Subs, UnregisterDummy(s) PROVE SyscallTypeOK' /\ IdsAreOld'
  BY <1>0, <1>8 DEF UnregisterDummy
<1>. QED
  BY <1>1, <1>2, <1>3, <1>4, <1>5, <1>6, <1>7, <1>8, <1>9 DEF SyscallNext

-----------------------------------------------------------------------------
(* Kept, one lemma for each action.  *)

LEMMA CountStep ==
  ASSUME SyscallTypeOK, Kept, NEW s \in Subs, CountDummy(s)
  PROVE  Kept'
<1>. USE DEF SyscallTypeOK, Kept, CountDummy
<1>0. dummyCount + 1 = 1 <=> dummyCount = 0
  OBVIOUS
<1>1. /\ enter[s] = "none"
      /\ enter'[s] = IF dummyCount = 0 THEN "first" ELSE "counted"
      /\ \A t \in Subs \ {s} : enter'[t] = enter[t]
  BY <1>0
<1>2. s \notin Counting /\ Counting' = Counting \cup {s}
  BY <1>1 DEF Counting
<1>3. dummyCount' = Cardinality(Counting')
  BY <1>2, CountingIsFinite, FS_AddElement
<1>4. dummyCount = 0 <=> Counting = {}
  BY CountingIsFinite, FS_EmptySet
<1>5. CASE dummyCount = 0
  <2>1. Counting = {} /\ enter'[s] = "first" /\ Starting(s)'
    BY <1>1, <1>4, <1>5 DEF Starting
  <2>2. OneStarts' /\ KnownIsThere' /\ OneRemoves' /\ RegisteredIsThere'
    BY <1>1, <2>1 DEF OneStarts, KnownIsThere, OneRemoves, RegisteredIsThere, Starting, Started, Counting
  <2>3. ReadIsKnown' /\ LastIsAlone'
    BY <1>1, <2>1 DEF ReadIsKnown, LastIsAlone, Starting, Started, Counting
  <2>4. AllAreKnown'
    <3>. SUFFICES ASSUME NEW d \in dummies
                  PROVE  \E t \in Subs : enter'[t] \in {"registered", "last"} /\ eventID'[t] = d
      BY DEF AllAreKnown
    <3>1. PICK t \in Subs : enter[t] \in {"registered", "last"} /\ eventID[t] = d
      BY <1>5 DEF AllAreKnown
    <3>. QED
      BY <1>1, <3>1
  <2>. QED
    BY <1>1, <1>3, <2>2, <2>3, <2>4
<1>6. CASE dummyCount # 0
  <2>1. Counting # {} /\ enter'[s] = "counted" /\ (Started' <=> Started)
    BY <1>1, <1>4, <1>6 DEF Starting, Started
  <2>2. OneStarts' /\ KnownIsThere' /\ OneRemoves' /\ RegisteredIsThere'
    BY <1>1, <2>1 DEF OneStarts, KnownIsThere, OneRemoves, RegisteredIsThere, Starting
  <2>3. ReadIsKnown' /\ LastIsAlone'
    BY <1>1, <2>1 DEF ReadIsKnown, LastIsAlone
  <2>4. AllAreKnown'
    BY <1>1, <1>6, <2>1, CountingIsFinite DEF AllAreKnown
  <2>. QED
    BY <1>1, <1>3, <2>2, <2>3, <2>4
<1>. QED
  BY <1>5, <1>6

LEMMA RegisterStep ==
  ASSUME SyscallTypeOK, IdsAreOld, Kept, NEW s \in Subs, RegisterDummy(s)
  PROVE  Kept'
<1>. USE DEF SyscallTypeOK, IdsAreOld, Kept, RegisterDummy
<1>1. /\ enter[s] = "first" /\ enter'[s] = "registered"
      /\ \A t \in Subs \ {s} : enter'[t] = enter[t] /\ eventID'[t] = eventID[t]
      /\ eventID'[s] = nextDummy
      /\ \A t \in Subs : Starting(t)' <=> Starting(t)
  BY DEF Starting
<1>2. Counting' = Counting
  BY <1>1 DEF Counting
<1>3. OneStarts' /\ OneRemoves' /\ RegisteredIsThere' /\ ~Started'
  BY <1>1 DEF OneStarts, OneRemoves, RegisteredIsThere, Started, Starting
<1>4. KnownIsThere' /\ ReadIsKnown' /\ LastIsAlone'
  BY <1>1, <1>3 DEF KnownIsThere, ReadIsKnown, LastIsAlone
<1>5. AllAreKnown'
  BY <1>1 DEF AllAreKnown, Started, Starting
<1>. QED
  BY <1>1, <1>2, <1>3, <1>4, <1>5

LEMMA StoreStep ==
  ASSUME SyscallTypeOK, Kept, NEW s \in Subs, StoreDummy(s)
  PROVE  Kept'
<1>. USE DEF SyscallTypeOK, Kept, StoreDummy
<1>1. /\ enter[s] = "registered" /\ enter'[s] = "counted"
      /\ \A t \in Subs \ {s} : enter'[t] = enter[t]
  OBVIOUS
<1>2. Counting' = Counting /\ s \in Counting
  BY <1>1 DEF Counting
<1>3. Started' /\ ~Started
  BY <1>1 DEF OneStarts, Started, Starting
<1>4. dummyCount > 0
  BY <1>2, CountingIsFinite, FS_EmptySet
<1>5. OneStarts' /\ OneRemoves' /\ RegisteredIsThere' /\ KnownIsThere'
  BY <1>1, <1>3 DEF OneStarts, OneRemoves, RegisteredIsThere, KnownIsThere, Started, Starting
<1>6. ReadIsKnown' /\ LastIsAlone'
  BY <1>1, <1>3 DEF ReadIsKnown, LastIsAlone, Started, Starting
<1>7. AllAreKnown'
  BY <1>1, <1>3, <1>4 DEF AllAreKnown
<1>. QED
  BY <1>1, <1>2, <1>5, <1>6, <1>7

LEMMA ProbeStep ==
  ASSUME SyscallTypeOK, Kept, NEW s \in Subs, ProbeEnter(s) \/ ProbeEnterFails(s)
  PROVE  Kept'
<1>. USE DEF SyscallTypeOK, Kept, ProbeEnter, ProbeEnterFails
<1>1. /\ enter[s] = "counted" /\ enter'[s] \in {"probed", "unprobed"}
      /\ \A t \in Subs \ {s} : enter'[t] = enter[t]
  OBVIOUS
<1>2. Counting' = Counting /\ (Started' <=> Started)
  BY <1>1 DEF Counting, Started, Starting
<1>3. OneStarts' /\ OneRemoves' /\ RegisteredIsThere' /\ KnownIsThere'
  BY <1>1, <1>2 DEF OneStarts, OneRemoves, RegisteredIsThere, KnownIsThere, Starting
<1>4. ReadIsKnown'
  BY <1>1 DEF ReadIsKnown
<1>5. LastIsAlone' /\ AllAreKnown'
  <2>1. \A t \in Subs : /\ enter'[t] = "last" <=> enter[t] = "last"
                        /\ enter'[t] = "registered" <=> enter[t] = "registered"
    BY <1>1
  <2>2. eventID' = eventID /\ dummyEventID' = dummyEventID /\ dummies' = dummies /\ dummyCount' = dummyCount
    OBVIOUS
  <2>. QED
    BY <1>2, <2>1, <2>2 DEF LastIsAlone, AllAreKnown
<1>. QED
  BY <1>1, <1>2, <1>3, <1>4, <1>5

LEMMA ReadStep ==
  ASSUME SyscallTypeOK, Kept, NEW s \in Subs, ReadDummy(s)
  PROVE  Kept'
<1>. USE DEF SyscallTypeOK, Kept, ReadDummy
<1>1. /\ enter[s] = "probed" /\ enter'[s] = "removing" /\ eventID'[s] = dummyEventID
      /\ \A t \in Subs \ {s} : enter'[t] = enter[t] /\ eventID'[t] = eventID[t]
      /\ \A t \in Subs : enter[t] \notin {"removing", "last"}
  OBVIOUS
<1>2. Counting' = Counting /\ (Started' <=> Started)
  BY <1>1 DEF Counting, Started, Starting
<1>3. OneStarts' /\ OneRemoves' /\ RegisteredIsThere' /\ KnownIsThere'
  BY <1>1, <1>2 DEF OneStarts, OneRemoves, RegisteredIsThere, KnownIsThere, Starting
<1>4. ReadIsKnown' /\ LastIsAlone'
  BY <1>1 DEF ReadIsKnown, LastIsAlone
<1>5. AllAreKnown'
  <2>1. \A t \in Subs : enter[t] \in {"registered", "last"} =>
          enter'[t] = enter[t] /\ eventID'[t] = eventID[t]
    BY <1>1
  <2>. QED
    BY <1>2, <2>1 DEF AllAreKnown
<1>. QED
  BY <1>1, <1>2, <1>3, <1>4, <1>5

LEMMA DropStep ==
  ASSUME SyscallTypeOK, Kept, NEW s \in Subs, DropDummy(s)
  PROVE  Kept'
<1>. USE DEF SyscallTypeOK, Kept, DropDummy
<1>1. /\ enter[s] = "removing"
      /\ enter'[s] = IF dummyCount' = 0 THEN "last" ELSE "removed"
      /\ \A t \in Subs \ {s} : enter'[t] = enter[t]
  OBVIOUS
<1>2. s \in Counting /\ Counting' = Counting \ {s} /\ (Started' <=> Started)
  BY <1>1 DEF Counting, Started, Starting
<1>3. dummyCount' = Cardinality(Counting')
  BY <1>2, CountingIsFinite, FS_RemoveElement
<1>4. dummyCount' \in Nat /\ (dummyCount' = 0 <=> Counting' = {})
  BY <1>2, <1>3, CountingIsFinite, FS_EmptySet, FS_RemoveElement
<1>5. OneStarts' /\ OneRemoves' /\ RegisteredIsThere'
  BY <1>1 DEF OneStarts, OneRemoves, RegisteredIsThere, Starting
<1>6. KnownIsThere'
  BY <1>2 DEF KnownIsThere
<1>7. ReadIsKnown'
  BY <1>1 DEF ReadIsKnown, OneRemoves
<1>8. CASE dummyCount' = 0
  <2>1. Counting' = {} /\ enter'[s] = "last"
    BY <1>1, <1>4, <1>8
  <2>2. \A t \in Subs : enter[t] \notin {"first", "registered", "counted", "probed", "unprobed"}
    BY <1>1, <2>1 DEF Counting
  <2>3. eventID[s] = dummyEventID
    BY <1>1, <2>2 DEF ReadIsKnown
  <2>4. LastIsAlone'
    BY <1>1, <2>1, <2>2 DEF LastIsAlone, OneRemoves
  <2>5. AllAreKnown'
    BY <1>1, <2>1, <2>3 DEF AllAreKnown
  <2>. QED
    BY <1>1, <1>3, <1>5, <1>6, <1>7, <2>4, <2>5
<1>9. CASE dummyCount' # 0
  <2>1. dummyCount' > 0 /\ enter'[s] = "removed"
    BY <1>1, <1>4, <1>9
  <2>2. LastIsAlone'
    BY <1>1, <1>2, <2>1 DEF LastIsAlone
  <2>3. AllAreKnown'
    BY <1>1, <1>2, <2>1 DEF AllAreKnown
  <2>. QED
    BY <1>1, <1>3, <1>5, <1>6, <1>7, <2>1, <2>2, <2>3
<1>. QED
  BY <1>8, <1>9

LEMMA UnregisterStep ==
  ASSUME SyscallTypeOK, Kept, NEW s \in Subs, UnregisterDummy(s)
  PROVE  Kept'
<1>. USE DEF SyscallTypeOK, Kept, UnregisterDummy
<1>1. /\ enter[s] = "last" /\ enter'[s] = "removed"
      /\ \A t \in Subs \ {s} : enter'[t] = enter[t]
      /\ dummies' = dummies \ {eventID[s]}
  OBVIOUS
<1>2. Counting' = Counting /\ (Started' <=> Started)
  BY <1>1 DEF Counting, Started, Starting
<1>3. OneStarts' /\ OneRemoves'
  BY <1>1 DEF OneStarts, OneRemoves, Starting
<1>4. RegisteredIsThere' /\ KnownIsThere'
  BY <1>1, <1>2 DEF RegisteredIsThere, KnownIsThere, LastIsAlone
<1>5. ReadIsKnown' /\ LastIsAlone' /\ AllAreKnown'
  BY <1>1, <1>2 DEF ReadIsKnown, LastIsAlone, AllAreKnown
<1>. QED
  BY <1>1, <1>2, <1>3, <1>4, <1>5

-----------------------------------------------------------------------------
LEMMA KeptStep ==
  ASSUME SyscallInv, [SyscallNext]_syscallVars, ~dummyFailed'
  PROVE  Kept'
<1>1. CASE UNCHANGED syscallVars
  BY <1>1 DEF syscallVars, SyscallInv, Kept, OneStarts, RegisteredIsThere, KnownIsThere,
       OneRemoves, ReadIsKnown, LastIsAlone, AllAreKnown, Starting, Started, Counting
<1>2. ASSUME NEW s \in Subs, RegisterDummyFails(s) PROVE Kept'
  BY <1>2 DEF RegisterDummyFails
<1>3. ASSUME NEW s \in Subs, UncountDummy(s) PROVE Kept'
  BY <1>3 DEF UncountDummy, SyscallInv, Kept
<1>4. ASSUME NEW s \in Subs,
             \/ CountDummy(s) \/ RegisterDummy(s) \/ StoreDummy(s) \/ ProbeEnter(s)
             \/ ProbeEnterFails(s) \/ ReadDummy(s) \/ DropDummy(s) \/ UnregisterDummy(s)
      PROVE  Kept'
  <2>1. SyscallTypeOK /\ IdsAreOld /\ Kept
    BY <1>4 DEF SyscallInv, CountDummy, RegisterDummy, StoreDummy, ProbeEnter, ProbeEnterFails,
         ReadDummy, DropDummy, UnregisterDummy
  <2>. QED
    BY <1>4, <2>1, CountStep, RegisterStep, StoreStep, ProbeStep, ReadStep, DropStep, UnregisterStep
<1>. QED
  BY <1>1, <1>2, <1>3, <1>4 DEF SyscallNext

\* The counter of syscall.go, with what keeps it right: who has counted first,
\* the ids that were read, and who unregisters which event.
THEOREM SyscallInvariance == SyscallSpec => []SyscallInv
<1>1. SyscallInv /\ [SyscallNext]_syscallVars => SyscallInv'
  BY TypeStep, KeptStep DEF SyscallInv
<1>. QED
  BY <1>1, SyscallInvInit, PTL DEF SyscallSpec

\* DummyCounted: unless a registration of the dummy event fails, the counter of
\* registerSyscallEvents is the number of subscriptions that need the event.
THEOREM CountInvariance == SyscallSpec => []DummyCounted
<1>1. SyscallInv => DummyCounted
  BY DEF SyscallInv, Kept, DummyCounted
<1>. QED
  BY <1>1, SyscallInvariance, PTL

\* DummyWhileProbed: until then the event is registered, or about to be, while
\* a subscription has its kprobe.
THEOREM ProbedInvariance == SyscallSpec => []DummyWhileProbed
<1>1. SyscallInv => DummyWhileProbed
  BY DEF SyscallInv, Kept, KnownIsThere, Started, Starting, Counting, DummyWhileProbed
<1>. QED
  BY <1>1, SyscallInvariance, PTL

\* NoDummyLeft: until then every event that is registered has somebody who will
\* unregister it.
THEOREM NoDummyLeftInvariance == SyscallSpec => []NoDummyLeft
<1>1. SyscallInv => NoDummyLeft
  BY DEF SyscallInv, Kept, AllAreKnown, NoDummyLeft
<1>. QED
  BY <1>1, SyscallInvariance, PTL

-----------------------------------------------------------------------------
(* Registrations: how far a subscription is, and how far it is with its    *)
(* enter event.                                                            *)

Stage == {"idle", "registering", "open", "none", "closing", "closed"}

StageTypeOK == stage \in [Subs -> Stage] /\ todo = [s \in Subs |-> todo[s]]

\* Counting the dummy event belongs to an enter event that comes next.
InStep ==
  \A s \in Subs :
    enter[s] \in
      CASE stage[s] = "idle"              -> {"none"}
        [] stage[s] = "registering"       ->
             {"none", "probed", "unprobed"} \cup
             IF todo[s] # <<>> /\ Head(todo[s]).type = "SYSCALL_ENTER"
             THEN {"first", "registered", "failed", "counted"} ELSE {}
        [] stage[s] = "open"              -> {"none", "probed", "unprobed"}
        [] stage[s] = "closing"           ->
             {"none", "probed", "unprobed", "removing", "last", "removed"}
        [] stage[s] \in {"none", "closed"} -> {"none", "unprobed", "removed"}

\* The unregister function of an enter event goes with the event.
HasEvent == \A s \in Subs :
  enter[s] \in {"probed", "removing", "last"} => \E e \in registered : e.sub = s

\* One that has ended has no events.
EndedHasNone == \A s \in Subs :
  stage[s] \in {"closed", "none"} => \A e \in registered : e.sub # s

StageInv == StageTypeOK /\ InStep /\ HasEvent /\ EndedHasNone

LEMMA StageInvInit == Init => StageInv
<1>. SUFFICES ASSUME Init PROVE StageInv
  OBVIOUS
<1>1. StageTypeOK /\ EndedHasNone
  BY DEF Init, StageTypeOK, EndedHasNone, Stage
<1>2. \A s \in Subs : enter[s] = "none" /\ stage[s] = "idle"
  BY DEF Init, SyscallInit
<1>. QED
  BY <1>1, <1>2 DEF StageInv, InStep, HasEvent

\* Every step does with the dummy event what SyscallEvents says, or nothing.
LEMMA DummyStep == [Next]_vars => [SyscallNext]_syscallVars
<1>. SUFFICES ASSUME [Next]_vars PROVE [SyscallNext]_syscallVars
  OBVIOUS
<1>1. CASE UNCHANGED vars
  BY <1>1 DEF vars
<1>2. ASSUME NEW s \in Subs, RegisterNext(s)
      PROVE  ProbeEnter(s) \/ ProbeEnterFails(s) \/ UNCHANGED syscallVars
  BY <1>2 DEF RegisterNext
<1>3. ASSUME NEW s \in Subs, RegisterDummyNext(s)
      PROVE  \/ CountDummy(s) \/ RegisterDummy(s) \/ RegisterDummyFails(s)
             \/ UncountDummy(s) \/ StoreDummy(s)
  BY <1>3 DEF RegisterDummyNext
<1>4. ASSUME NEW s \in Subs, ReleaseDummy(s)
      PROVE  ReadDummy(s) \/ DropDummy(s) \/ UnregisterDummy(s)
  BY <1>4 DEF ReleaseDummy
<1>5. ASSUME NEW s \in Subs,
             Subscribe(s) \/ Open(s) \/ Cancel(s) \/ UnregisterEvent(s) \/ Closed(s)
      PROVE  UNCHANGED syscallVars
  BY <1>5 DEF Subscribe, Open, Cancel, UnregisterEvent, Closed
<1>. QED
  BY <1>1, <1>2, <1>3, <1>4, <1>5 DEF Next, SyscallNext

\* Registrations implements SyscallEvents: what holds of the dummy event holds
\* whatever subscriptions register besides.
THEOREM DummyIsShared == Spec => SyscallSpec
<1>1. Init => SyscallInit
  BY DEF Init
<1>. QED
  BY <1>1, DummyStep, PTL DEF Spec, SyscallSpec

-----------------------------------------------------------------------------
\* What a step of s leaves alone.
Alone(s) ==
  /\ \A t \in Subs \ {s} :
       stage'[t] = stage[t] /\ todo'[t] = todo[t] /\ enter'[t] = enter[t]
  /\ \A e : e.sub # s => (e \in registered' <=> e \in registered)

\* Then it is enough to look at s.
LEMMA OneStep ==
  ASSUME NEW s \in Subs, StageInv, StageTypeOK', Alone(s),
         enter'[s] \in
           CASE stage'[s] = "idle"              -> {"none"}
             [] stage'[s] = "registering"       ->
                  {"none", "probed", "unprobed"} \cup
                  IF todo'[s] # <<>> /\ Head(todo'[s]).type = "SYSCALL_ENTER"
                  THEN {"first", "registered", "failed", "counted"} ELSE {}
             [] stage'[s] = "open"              -> {"none", "probed", "unprobed"}
             [] stage'[s] = "closing"           ->
                  {"none", "probed", "unprobed", "removing", "last", "removed"}
             [] stage'[s] \in {"none", "closed"} -> {"none", "unprobed", "removed"},
         enter'[s] \in {"probed", "removing", "last"} => \E e \in registered' : e.sub = s,
         stage'[s] \in {"closed", "none"} => \A e \in registered' : e.sub # s
  PROVE  StageInv'
<1>1. InStep'
  BY DEF StageInv, InStep, Alone
<1>2. HasEvent'
  BY DEF StageInv, HasEvent, Alone
<1>3. EndedHasNone'
  BY DEF StageInv, EndedHasNone, Alone
<1>. QED
  BY <1>1, <1>2, <1>3 DEF StageInv

LEMMA SubscribeStep ==
  ASSUME NEW s \in Subs, SyscallTypeOK, StageInv, Subscribe(s)
  PROVE  StageInv'
<1>1. CASE UNCHANGED <<stage, todo>>
  BY <1>1 DEF Subscribe, syscallVars, StageInv, StageTypeOK, InStep, HasEvent, EndedHasNone
<1>2. CASE /\ stage' = [stage EXCEPT ![s] = "registering"]
           /\ \E r : todo' = [todo EXCEPT ![s] = r]
  <2>1. StageTypeOK' /\ stage'[s] = "registering"
    BY <1>2 DEF StageInv, StageTypeOK, Stage
  <2>2. Alone(s) /\ enter'[s] = "none"
    BY <1>2 DEF Subscribe, Alone, syscallVars, StageInv, StageTypeOK, InStep
  <2>. QED
    BY <2>1, <2>2, OneStep
<1>. QED
  BY <1>1, <1>2 DEF Subscribe

LEMMA RegisterNextStep ==
  ASSUME NEW s \in Subs, SyscallTypeOK, StageInv, RegisterNext(s)
  PROVE  StageInv'
<1>. DEFINE next == Head(todo[s])
            found == Registered(s, next)
<1>1. StageTypeOK' /\ stage'[s] = "registering"
  BY DEF RegisterNext, StageInv, StageTypeOK, Stage
<1>2. \A e \in found : e.sub = s
  BY DEF Registered
<1>3. registered' = registered \cup found
  BY DEF RegisterNext
<1>4. CASE next.type # "SYSCALL_ENTER"
  <2>1. enter' = enter /\ enter[s] \in {"none", "probed", "unprobed"}
    BY <1>4 DEF RegisterNext, syscallVars, StageInv, InStep
  <2>2. Alone(s)
    BY <1>2, <1>3, <2>1 DEF RegisterNext, Alone, StageInv, StageTypeOK
  <2>3. enter'[s] \in {"probed", "removing", "last"} => \E e \in registered' : e.sub = s
    BY <1>3, <2>1 DEF StageInv, HasEvent
  <2>. QED
    BY <1>1, <2>1, <2>2, <2>3, OneStep
<1>5. CASE next.type = "SYSCALL_ENTER"
  <2>1. /\ enter' = [enter EXCEPT ![s] = IF found # {} THEN "probed" ELSE "unprobed"]
        /\ DOMAIN enter = Subs
    BY <1>5 DEF RegisterNext, ProbeEnter, ProbeEnterFails, SyscallTypeOK
  <2>2. Alone(s)
    BY <1>2, <1>3, <2>1 DEF RegisterNext, Alone, StageInv, StageTypeOK
  <2>3. enter'[s] \in {"probed", "removing", "last"} => \E e \in registered' : e.sub = s
    BY <1>2, <1>3, <2>1
  <2>. QED
    BY <1>1, <2>1, <2>2, <2>3, OneStep
<1>. QED
  BY <1>4, <1>5

LEMMA RegisterDummyNextStep ==
  ASSUME NEW s \in Subs, SyscallTypeOK, StageInv, RegisterDummyNext(s)
  PROVE  StageInv'
<1>1. StageTypeOK' /\ stage'[s] = "registering"
  BY DEF RegisterDummyNext, subscriptionVars, StageInv, StageTypeOK
<1>2. \E n \in {"first", "registered", "failed", "counted"} : enter' = [enter EXCEPT ![s] = n]
  BY DEF RegisterDummyNext, CountDummy, RegisterDummy, RegisterDummyFails, UncountDummy, StoreDummy
<1>3. Alone(s) /\ enter'[s] \in {"first", "registered", "failed", "counted"}
  BY <1>2 DEF RegisterDummyNext, subscriptionVars, Alone, SyscallTypeOK
<1>4. todo'[s] # <<>> /\ Head(todo'[s]).type = "SYSCALL_ENTER"
  BY DEF RegisterDummyNext, subscriptionVars
<1>. QED
  BY <1>1, <1>3, <1>4, OneStep

LEMMA OpenStep ==
  ASSUME NEW s \in Subs, SyscallTypeOK, StageInv, Open(s)
  PROVE  StageInv'
<1>1. StageTypeOK' /\ enter' = enter /\ registered' = registered
  BY DEF Open, StageInv, StageTypeOK, Stage, syscallVars
<1>2. stage'[s] = IF \E e \in registered : e.sub = s THEN "open" ELSE "none"
  BY DEF Open, StageInv, StageTypeOK
<1>3. Alone(s)
  BY <1>1 DEF Open, Alone, StageInv, StageTypeOK
<1>4. enter[s] \in {"none", "probed", "unprobed"}
  BY DEF Open, StageInv, InStep
<1>5. enter[s] = "probed" => \E e \in registered : e.sub = s
  BY DEF StageInv, HasEvent
<1>. QED
  BY <1>1, <1>2, <1>3, <1>4, <1>5, OneStep

LEMMA CancelStep ==
  ASSUME NEW s \in Subs, SyscallTypeOK, StageInv, Cancel(s)
  PROVE  StageInv'
<1>1. StageTypeOK' /\ stage'[s] = "closing" /\ enter' = enter /\ registered' = registered
  BY DEF Cancel, StageInv, StageTypeOK, Stage, syscallVars
<1>2. Alone(s)
  BY <1>1 DEF Cancel, Alone, StageInv, StageTypeOK
<1>3. /\ enter[s] \in {"none", "probed", "unprobed"}
      /\ enter[s] \in {"probed", "removing", "last"} => \E e \in registered : e.sub = s
  BY DEF Cancel, StageInv, InStep, HasEvent
<1>. QED
  BY <1>1, <1>2, <1>3, OneStep

LEMMA ReleaseDummyStep ==
  ASSUME NEW s \in Subs, SyscallTypeOK, StageInv, ReleaseDummy(s)
  PROVE  StageInv'
<1>1. StageTypeOK' /\ stage'[s] = "closing" /\ registered' = registered
  BY DEF ReleaseDummy, subscriptionVars, StageInv, StageTypeOK
<1>2. /\ enter[s] \in {"probed", "removing", "last"}
      /\ \E n \in {"removing", "last", "removed"} : enter' = [enter EXCEPT ![s] = n]
  BY DEF ReleaseDummy, ReadDummy, DropDummy, UnregisterDummy
<1>3. Alone(s) /\ enter'[s] \in {"removing", "last", "removed"}
  BY <1>2 DEF ReleaseDummy, subscriptionVars, Alone, SyscallTypeOK
<1>4. \E e \in registered : e.sub = s
  BY <1>2 DEF StageInv, HasEvent
<1>. QED
  BY <1>1, <1>3, <1>4, OneStep

LEMMA UnregisterEventStep ==
  ASSUME NEW s \in Subs, SyscallTypeOK, StageInv, UnregisterEvent(s)
  PROVE  StageInv'
<1>1. StageTypeOK' /\ stage'[s] = "closing" /\ enter' = enter
  BY DEF UnregisterEvent, StageInv, StageTypeOK, syscallVars
<1>2. Alone(s)
  BY <1>1 DEF UnregisterEvent, Alone
<1>3. enter[s] \in {"none", "unprobed", "removed"}
  BY DEF UnregisterEvent, StageInv, InStep
<1>. QED
  BY <1>1, <1>2, <1>3, OneStep

LEMMA ClosedStep ==
  ASSUME NEW s \in Subs, SyscallTypeOK, StageInv, Closed(s)
  PROVE  StageInv'
<1>1. StageTypeOK' /\ stage'[s] = "closed" /\ enter' = enter /\ registered' = registered
  BY DEF Closed, StageInv, StageTypeOK, Stage, syscallVars
<1>2. Alone(s)
  BY <1>1 DEF Closed, Alone, StageInv, StageTypeOK
<1>3. enter[s] \in {"none", "unprobed", "removed"} /\ \A e \in registered : e.sub # s
  BY DEF Closed, StageInv, InStep, HasEvent
<1>. QED
  BY <1>1, <1>2, <1>3, OneStep

LEMMA StageStep ==
  ASSUME SyscallTypeOK, StageInv, [Next]_vars
  PROVE  StageInv'
<1>1. CASE UNCHANGED vars
  BY <1>1 DEF vars, subscriptionVars, syscallVars, StageInv, StageTypeOK, InStep, HasEvent, EndedHasNone
<1>2. CASE Next
  BY <1>2, SubscribeStep, RegisterNextStep, RegisterDummyNextStep, OpenStep, CancelStep,
     ReleaseDummyStep, UnregisterEventStep, ClosedStep DEF Next
<1>. QED
  BY <1>1, <1>2

\* Whatever the subscriptions ask for and the kernel refuses, a subscription
\* counts the dummy event only while its enter event comes next, and its
\* unregister functions have an event to go with.
THEOREM StageInvariance == Spec => []StageInv
<1>1. Init => StageInv
  BY StageInvInit
<1>2. SyscallInv => SyscallTypeOK
  BY DEF SyscallInv
<1>. QED
  BY <1>1, <1>2, DummyIsShared, SyscallInvariance, StageStep, PTL DEF Spec

\* DummyCounted and DummyWhileProbed, of the registrations of whole
\* subscriptions: the counter is right, and a kprobe on the entry of system
\* calls has the event it depends on.
THEOREM SharedDummyIsRight == Spec => [](DummyCounted /\ DummyWhileProbed)
BY DummyIsShared, CountInvariance, ProbedInvariance, PTL

\* NothingLeftBehind: a subscription that has ended has no event registered, and
\* when all have ended the dummy event is gone.
THEOREM NothingStays == Spec => []NothingLeftBehind
<1>1. ASSUME StageInv, DummyCounted, NoDummyLeft PROVE NothingLeftBehind
  <2>1. \A s \in Subs : stage[s] \in {"closed", "none"} => \A e \in registered : e.sub # s
    BY <1>1 DEF StageInv, EndedHasNone
  <2>2. ASSUME \A s \in Subs : stage[s] \in {"idle", "closed", "none"} /\ enter[s] # "unprobed",
               ~dummyFailed
        PROVE  dummies = {} /\ dummyCount = 0
    <3>1. \A s \in Subs : enter[s] \in {"none", "removed"}
      BY <1>1, <2>2 DEF StageInv, InStep
    <3>2. Counting = {}
      BY <3>1 DEF Counting
    <3>3. dummyCount = 0
      BY <1>1, <2>2, <3>2, FS_EmptySet DEF DummyCounted
    <3>4. \A d : d \notin dummies
      BY <1>1, <2>2, <3>1, <3>3 DEF NoDummyLeft
    <3>. QED
      BY <3>3, <3>4
  <2>. QED
    BY <2>1, <2>2 DEF NothingLeftBehind
<1>. QED
  BY <1>1, StageInvariance, DummyIsShared, CountInvariance, NoDummyLeftInvariance, PTL
=============================================================================
