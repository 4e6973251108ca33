-------------------------- MODULE RunRegistryProofs --------------------------
(***************************************************************************)
(* Proofs about RunRegistry, for every set of Hosts, Runs, Installations,  *)
(* keys and requests and every number of failures.                         *)
(***************************************************************************)
EXTENDS RunRegistry, TLAPS

-----------------------------------------------------------------------------
(* The journal operators.                                                  *)

\* A Run's view is an event of the journal or NoView.
LEMMA LatestType ==
  ASSUME NEW j \in Seq(Events), NEW n \in 0 .. Len(j), NEW r
  PROVE  /\ Latest(j, n, r) \in Events \cup {NoView}
         /\ Latest(j, n, r).status # "none" => Latest(j, n, r) \in Events
<1>1. NoView.status = "none"
  BY DEF NoView
<1>2. CASE \E k \in 1..n : IsLast(j, n, r, k)
  <2>1. (CHOOSE k \in 1..n : IsLast(j, n, r, k)) \in 1..n
    BY <1>2
  <2>2. j[CHOOSE k \in 1..n : IsLast(j, n, r, k)] \in Events
    BY <2>1
  <2> QED
    BY <1>2, <2>2 DEF Latest
<1>3. CASE ~ \E k \in 1..n : IsLast(j, n, r, k)
  BY <1>1, <1>3 DEF Latest
<1> QED
  BY <1>2, <1>3

\* A move of a Run is an event.
LEMMA MovedType ==
  ASSUME NEW v \in Events, NEW s \in ActiveStatuses \cup TerminalStatuses,
         NEW q \in Reasons, NEW c \in Claims \cup {NoClaim}
  PROVE  Moved(v, s, q, c) \in Events
<1>1. v.rev + 1 \in Nat
  BY DEF Events
<1> QED
  BY <1>1 DEF Moved, Events

LEMMA StartingType ==
  ASSUME NEW r \in Runs, NEW i \in Installations, NEW k \in Keys, NEW f \in Fingerprints
  PROVE  StartingRun(r, i, k, f) \in Events
BY DEF StartingRun, Events, Claims, ActiveStatuses, Reasons

LEMMA TerminalType ==
  ASSUME NEW v \in Events, NEW o \in BOOLEAN, NEW c \in Claims \cup {NoClaim}
  PROVE  TerminalAfterCleanup(v, o, c) \in Events
<1>1. \A q \in Reasons : Moved(v, "interrupted", q, c) \in Events
  BY MovedType DEF TerminalStatuses
<1>2. Moved(v, "stopped", "explicit_stop", c) \in Events
  BY MovedType DEF TerminalStatuses, Reasons
<1>3. Moved(v, "failed", "package_activation_lost", c) \in Events
  BY MovedType DEF TerminalStatuses, Reasons
<1>4. v.reason \in Reasons /\ "outcome_unknown" \in Reasons
  BY DEF Events, Reasons
<1> QED
  BY <1>1, <1>2, <1>3, <1>4 DEF TerminalAfterCleanup

\* NoView is no event.
LEMMA NoViewType == NoView \notin Events
BY NoneIsNoElement DEF NoView, Events

-----------------------------------------------------------------------------
(* Task states.                                                            *)

LEMMA IdleType == IdleTask \in TaskStates /\ TaskKnows(IdleTask)
<1>1. IdleTask \in TaskStates
  BY DEF IdleTask, TaskStates, Points, Roles, Reasons
<1>2. TaskKnows(IdleTask)
  BY DEF IdleTask, TaskKnows, RunPoints
<1> QED
  BY <1>1, <1>2

LEMMA AfterTaskType ==
  ASSUME NEW t \in TaskStates, NEW ok \in BOOLEAN
  PROVE  AfterTask(t, ok) \in TaskStates /\ TaskKnows(AfterTask(t, ok))
<1>1. AfterTask(t, ok) \in TaskStates
  <2>1. NeedsRetry(t, ok) \in BOOLEAN
    BY DEF NeedsRetry
  <2>2. t.role \in Roles /\ t.todo \in SUBSET Work /\ "loop" \in Points
    BY DEF TaskStates, Points
  <2>3. \A b \in BOOLEAN :
          [IdleTask EXCEPT !.pc = "loop", !.role = t.role, !.todo = t.todo, !.retry = b]
            \in TaskStates
    BY <2>2, IdleType DEF TaskStates
  <2> QED
    BY <2>1, <2>3, IdleType DEF AfterTask
<1>2. TaskKnows(AfterTask(t, ok))
  BY IdleType DEF AfterTask, TaskKnows, RunPoints, IdleTask
<1> QED
  BY <1>1, <1>2

TaskType == task \in [Hosts -> [Tasks -> TaskStates]] /\ TasksKnow

LEMMA SetTaskType ==
  ASSUME TaskType, NEW h \in Hosts, NEW w \in Tasks, NEW t \in TaskStates, TaskKnows(t),
         SetTask(h, w, t)
  PROVE  TaskType'
BY DEF TaskType, TasksKnow, SetTask

LEMMA FreedType ==
  ASSUME NEW S, NEW lock \in [S -> Tasks \cup {None}], NEW w
  PROVE  Freed(lock, w) \in [S -> Tasks \cup {None}]
BY DEF Freed

LEMMA ReturnType ==
  ASSUME TypeOK, TasksKnow, NEW h \in Hosts, NEW w \in Tasks, NEW ok \in BOOLEAN,
         ok => task[h][w].run \in Runs, Return(h, w, ok)
  PROVE  /\ TaskType'
         /\ startLock' \in [Hosts -> [Installations -> Tasks \cup {None}]]
         /\ cleanLock' \in [Hosts -> [Runs -> Tasks \cup {None}]]
         /\ answered' \in SUBSET Answers
<1> DEFINE t == task[h][w]
<1>1. t \in TaskStates /\ TaskKnows(t)
  BY DEF TypeOK, TasksKnow
<1>2. TaskType'
  BY <1>1, AfterTaskType, SetTaskType DEF TaskType, TypeOK, Return
<1>3. startLock' \in [Hosts -> [Installations -> Tasks \cup {None}]]
  BY FreedType DEF Return, TypeOK, LockType
<1>4. cleanLock' \in [Hosts -> [Runs -> Tasks \cup {None}]]
  BY FreedType DEF Return, TypeOK, LockType
<1>5. answered' \in SUBSET Answers
  <2>1. ok /\ t.role = "request" => Answer(t, t.run) \in Answers
    BY <1>1 DEF Answer, Answers, TaskKnows
  <2> QED
    BY <2>1 DEF Return, TypeOK
<1> QED
  BY <1>2, <1>3, <1>4, <1>5

\* Function updates.
LEMMA UpdateInner ==
  ASSUME NEW A, NEW B, NEW C, NEW f \in [A -> [B -> C]], NEW a \in A, NEW b \in B, NEW c \in C
  PROVE  [f EXCEPT ![a][b] = c] \in [A -> [B -> C]]
OBVIOUS

LEMMA UpdateSet ==
  ASSUME NEW A, NEW B, NEW f \in [A -> SUBSET B], NEW a \in A, NEW b \in B
  PROVE  /\ [f EXCEPT ![a] = @ \ {b}] \in [A -> SUBSET B]
         /\ [f EXCEPT ![a] = @ \cup {b}] \in [A -> SUBSET B]
OBVIOUS

LEMMA ClaimedType ==
  ASSUME NEW j \in Seq(Events), NEW n \in 0 .. Len(j), NEW i, NEW op, NEW key
  PROVE  ClaimedBy(j, n, i, op, key) \in Events \cup {NoView}
<1>1. CASE \E k \in 1..n : IsFirstClaim(j, n, i, op, key, k)
  <2>1. (CHOOSE k \in 1..n : IsFirstClaim(j, n, i, op, key, k)) \in 1..n
    BY <1>1
  <2> QED
    BY <1>1, <2>1 DEF ClaimedBy
<1>2. CASE ~ \E k \in 1..n : IsFirstClaim(j, n, i, op, key, k)
  BY <1>2 DEF ClaimedBy
<1> QED
  BY <1>1, <1>2

\* The current view of a Run.
LEMMA NowType ==
  ASSUME JournalType, NEW r
  PROVE  /\ Now(r) \in Events \cup {NoView}
         /\ Now(r).status # "none" => Now(r) \in Events
         /\ Now(r) # NoView => Now(r) \in Events
BY LatestType DEF JournalType, Now

LEMMA GotoType ==
  ASSUME TypeOK, TasksKnow, NEW h \in Hosts, NEW w \in Tasks, NEW t \in TaskStates,
         TaskKnows(t), Goto(h, w, t)
  PROVE  /\ TaskType'
         /\ startLock' \in [Hosts -> [Installations -> Tasks \cup {None}]]
         /\ cleanLock' \in [Hosts -> [Runs -> Tasks \cup {None}]]
         /\ answered' \in SUBSET Answers
BY SetTaskType DEF TaskType, Goto, TypeOK, LockType

LEMMA ProposeType ==
  ASSUME TypeOK, TasksKnow, NEW h \in Hosts, NEW w \in Tasks, NEW t \in TaskStates,
         NEW e \in Events, TaskKnows([t EXCEPT !.ev = e]), Propose(h, w, t, e)
  PROVE  TaskType' /\ apply' \in [Hosts -> Tasks \cup {None}]
<1>1. [t EXCEPT !.ev = e] \in TaskStates
  BY DEF TaskStates
<1> QED
  BY <1>1, SetTaskType DEF TaskType, Propose, TypeOK, LockType

LEMMA SyncType ==
  ASSUME JournalType, NEW h \in Hosts, Sync(h), UNCHANGED journal
  PROVE  JournalType'
BY DEF JournalType, Sync

LEMMA FaultType ==
  ASSUME HostType, Fault \/ NoFault
  PROVE  faults' \in 0..MaxFaults
BY RegistryAssumptions DEF HostType, Fault, NoFault

\* An event that lands is typed, and so is the journal after it.
LEMMA LandType ==
  ASSUME TypeOK, NEW h \in Hosts, NEW w \in Tasks, task[h][w].ev # NoView, Land(h, w)
  PROVE  JournalType' /\ task[h][w].ev \in Events
<1>1. task[h][w].ev \in Events
  BY DEF TypeOK, TaskStates
<1>2. journal' \in Seq(Events) /\ Len(journal') = Len(journal) + 1
  BY <1>1 DEF Land, TypeOK, JournalType
<1>3. next' \in [Hosts -> Nat] /\ next'[h] = Len(journal) + 1
  BY DEF Land, CasWins, TypeOK, JournalType
<1>4. \A g \in Hosts : next'[g] <= Len(journal')
  BY <1>2, <1>3 DEF Land, TypeOK, JournalType
<1> QED
  BY <1>1, <1>2, <1>3, <1>4 DEF JournalType

\* Unchanged parts keep their type.
LEMMA SameJournal == ASSUME JournalType, UNCHANGED <<journal, next>> PROVE JournalType'
BY DEF JournalType

LEMMA SameHost == ASSUME HostType, UNCHANGED <<owner, hostVars, faults>> PROVE HostType'
BY DEF HostType, hostVars

\* The inductive invariant for types: TypeOK and what tasks know.
TypeInv == TypeOK /\ TasksKnow

LEMMA TypeParts ==
  ASSUME JournalType', HostType', LockType', TaskType', answered' \in SUBSET Answers
  PROVE  TypeInv'
BY DEF TypeInv, TypeOK, TaskType, TasksKnow

\* A replayed start is typed: c is the event that claimed its key.
LEMMA ReplayStartType ==
  ASSUME TypeInv, NEW h \in Hosts, NEW w \in Tasks, NEW t \in TaskStates, TaskKnows(t),
         t.role = "request", t.pc = "claim", NEW c \in Events, ReplayStart(h, w, t, c)
  PROVE  /\ TaskType'
         /\ startLock' \in [Hosts -> [Installations -> Tasks \cup {None}]]
         /\ answered' \in SUBSET Answers
<1>1. c.run \in Runs /\ t.inst \in Installations /\ t.key \in Keys /\ t.fp \in Fingerprints
  BY DEF Events, TaskKnows
<1> DEFINE t2 == [[t EXCEPT !.run = c.run] EXCEPT !.pc = "resume"]
<1>2. t2 \in TaskStates /\ TaskKnows(t2)
  <2>1. t2 \in TaskStates
    BY <1>1 DEF TaskStates, Points
  <2> QED
    BY <1>1, <2>1 DEF TaskKnows, TaskStates, RunPoints, Points
<1>3. SetTask(h, w, IdleTask) \/ SetTask(h, w, t2)
  BY DEF ReplayStart
<1>4. TaskType'
  BY <1>2, <1>3, IdleType, SetTaskType DEF TypeInv, TypeOK, TaskType
<1>5. Answer(t, c.run) \in Answers
  BY <1>1 DEF Answer, Answers
<1>6. answered' \in SUBSET Answers
  BY <1>5 DEF ReplayStart, TypeInv, TypeOK
<1>7. startLock' \in [Hosts -> [Installations -> Tasks \cup {None}]]
  BY <1>1, FreedType DEF ReplayStart, TypeInv, TypeOK, LockType
<1> QED
  BY <1>4, <1>6, <1>7

LEMMA StartType ==
  ASSUME TypeInv, NEW h \in Hosts, NEW w \in Tasks, NEW i \in Installations,
         NEW key \in Keys, NEW fp \in StartRequests, Start(h, w, i, key, fp)
  PROVE  TypeInv'
<1> DEFINE t == [IdleTask EXCEPT !.pc = "claim", !.role = "request", !.inst = i,
                                 !.key = key, !.fp = fp]
           c == ClaimedBy(journal, Len(journal), i, "start", key)
<1>1. t \in TaskStates /\ TaskKnows(t) /\ t.role = "request" /\ t.pc = "claim"
  <2>1. t \in TaskStates
    BY ZenonT(60), IdleType DEF TaskStates, Points, Roles, Fingerprints
  <2>2. /\ t.role = "request" /\ t.pc = "claim" /\ t.inst = i /\ t.key = key
        /\ t.fp = fp /\ t.ev = NoView
    BY IdleType DEF TaskStates, IdleTask
  <2> QED
    BY <2>1, <2>2 DEF TaskKnows, RunPoints, Fingerprints
<1>2. c \in Events \cup {NoView}
  BY ClaimedType DEF TypeInv, TypeOK, JournalType
<1>3. JournalType' /\ HostType'
  BY SyncType, SameHost DEF Start, TypeInv, TypeOK, durable
<1>4. CASE c = NoView
  <2>1. TaskType'
    BY <1>1, <1>4, SetTaskType DEF Start, TypeInv, TypeOK, TaskType
  <2>2. /\ startLock' = [startLock EXCEPT ![h][i] = w]
        /\ UNCHANGED <<apply, cleanLock, answered>>
    BY <1>4 DEF Start
  <2>3. LockType' /\ answered' \in SUBSET Answers
    BY <2>2 DEF TypeInv, TypeOK, LockType
  <2> QED
    BY <1>3, <2>1, <2>3, TypeParts
<1>5. CASE c # NoView
  <2>1. ReplayStart(h, w, t, c)
    BY <1>5 DEF Start
  <2>2. LockType' /\ TaskType' /\ answered' \in SUBSET Answers
    BY <1>1, <1>2, <1>5, <2>1, ReplayStartType DEF Start, TypeInv, TypeOK, LockType
  <2> QED
    BY <1>3, <2>2, TypeParts
<1> QED
  BY <1>4, <1>5

LEMMA ClaimStartType ==
  ASSUME TypeInv, NEW h \in Hosts, NEW w \in Tasks, ClaimStart(h, w)
  PROVE  TypeInv'
<1> DEFINE t == task[h][w]
           c == ClaimedBy(journal, Len(journal), t.inst, "start", t.key)
<1>1. t \in TaskStates /\ TaskKnows(t) /\ t.role = "request" /\ t.pc = "claim"
  BY DEF ClaimStart, At, TypeInv, TypeOK, TasksKnow, TaskKnows
<1>2. c \in Events \cup {NoView}
  BY ClaimedType DEF TypeInv, TypeOK, JournalType
<1>3. JournalType' /\ HostType'
  BY SyncType, SameHost DEF ClaimStart, TypeInv, TypeOK, durable
<1>4. CASE c # NoView /\ ReplayStart(h, w, t, c) /\ UNCHANGED <<apply, cleanLock>>
  <2>1. LockType' /\ TaskType' /\ answered' \in SUBSET Answers
    BY <1>1, <1>2, <1>4, ReplayStartType DEF TypeInv, TypeOK, LockType
  <2> QED
    BY <1>3, <2>1, TypeParts
<1>5. CASE Return(h, w, FALSE) /\ UNCHANGED apply
  <2>1. LockType' /\ TaskType' /\ answered' \in SUBSET Answers
    BY <1>5, ReturnType DEF TypeInv, TypeOK, LockType
  <2> QED
    BY <1>3, <2>1, TypeParts
<1>6. CASE /\ \E r \in Runs : Propose(h, w, [t EXCEPT !.run = r],
                                      StartingRun(r, t.inst, t.key, t.fp))
           /\ UNCHANGED <<startLock, cleanLock, answered>>
  <2>1. PICK r \in Runs : Propose(h, w, [t EXCEPT !.run = r],
                                   StartingRun(r, t.inst, t.key, t.fp))
    BY <1>6
  <2> DEFINE e == StartingRun(r, t.inst, t.key, t.fp)
             t1 == [t EXCEPT !.run = r]
  <2>2. t.inst \in Installations /\ t.key \in Keys /\ t.fp \in Fingerprints
    BY <1>1 DEF TaskKnows
  <2>3. e \in Events
    BY <2>2, StartingType
  <2>4. t1 \in TaskStates
    BY <1>1 DEF TaskStates
  <2>5. TaskKnows([t1 EXCEPT !.ev = e])
    BY <1>1, <2>2 DEF TaskKnows, TaskStates
  <2>6. TaskType' /\ apply' \in [Hosts -> Tasks \cup {None}]
    <3> HIDE DEF e, t1
    <3> QED
      BY <2>1, <2>3, <2>4, <2>5, ProposeType DEF e, t1, TypeInv
  <2>7. LockType' /\ answered' \in SUBSET Answers
    BY <1>6, <2>6 DEF TypeInv, TypeOK, LockType
  <2> QED
    BY <1>3, <2>6, <2>7, TypeParts
<1> QED
  BY <1>4, <1>5, <1>6 DEF ClaimStart

\* A task that returns and changes nothing else of the locks keeps the types.
LEMMA ReturnInv ==
  ASSUME TypeInv, NEW h \in Hosts, NEW w \in Tasks, NEW ok \in BOOLEAN,
         ok => task[h][w].run \in Runs, Return(h, w, ok),
         apply' \in [Hosts -> Tasks \cup {None}], JournalType', HostType'
  PROVE  TypeInv'
<1>1. LockType' /\ TaskType' /\ answered' \in SUBSET Answers
  BY ReturnType DEF TypeInv, LockType
<1> QED
  BY <1>1, TypeParts

LEMMA GotoInv ==
  ASSUME TypeInv, NEW h \in Hosts, NEW w \in Tasks, NEW t \in TaskStates,
         TaskKnows(t), Goto(h, w, t),
         apply' \in [Hosts -> Tasks \cup {None}], JournalType', HostType'
  PROVE  TypeInv'
<1>1. LockType' /\ TaskType' /\ answered' \in SUBSET Answers
  BY GotoType DEF TypeInv, LockType
<1> QED
  BY <1>1, TypeParts

\* A task at a point where it works on a Run proposes an event.
LEMMA ProposeInv ==
  ASSUME TypeInv, NEW h \in Hosts, NEW w \in Tasks, NEW e \in Events,
         task[h][w].pc \in RunPoints \cup {"hydrate"}, Propose(h, w, task[h][w], e),
         UNCHANGED <<startLock, cleanLock, answered>>, JournalType', HostType'
  PROVE  TypeInv'
<1> DEFINE t == task[h][w]
<1>1. t \in TaskStates /\ TaskKnows(t)
  BY DEF TypeInv, TypeOK, TasksKnow
<1>2. TaskKnows([t EXCEPT !.ev = e])
  BY <1>1 DEF TaskKnows, TaskStates, RunPoints
<1>3. TaskType' /\ apply' \in [Hosts -> Tasks \cup {None}]
  BY <1>1, <1>2, ProposeType DEF TypeInv
<1>4. LockType' /\ answered' \in SUBSET Answers
  BY <1>3 DEF TypeInv, TypeOK, LockType
<1> QED
  BY <1>3, <1>4, TypeParts

\* A task moves on to another point of its work on the same Run.
LEMMA MoveOn ==
  ASSUME NEW t \in TaskStates, TaskKnows(t), t.run \in Runs, NEW pc \in RunPoints
  PROVE  /\ [t EXCEPT !.pc = pc] \in TaskStates
         /\ TaskKnows([t EXCEPT !.pc = pc])
         /\ [t EXCEPT !.pc = pc].run = t.run
         /\ [t EXCEPT !.pc = pc].pc = pc
         /\ [t EXCEPT !.pc = pc].role = t.role
BY DEF TaskStates, TaskKnows, RunPoints

LEMMA MoveOnReason ==
  ASSUME NEW t \in TaskStates, TaskKnows(t), t.run \in Runs, NEW pc \in RunPoints,
         NEW q \in Reasons
  PROVE  /\ [t EXCEPT !.pc = pc, !.reason = q] \in TaskStates
         /\ TaskKnows([t EXCEPT !.pc = pc, !.reason = q])
BY DEF TaskStates, TaskKnows, RunPoints

LEMMA MoveOnOwned ==
  ASSUME NEW t \in TaskStates, TaskKnows(t), t.run \in Runs, NEW pc \in RunPoints,
         NEW o \in BOOLEAN
  PROVE  /\ [t EXCEPT !.pc = pc, !.owned = o] \in TaskStates
         /\ TaskKnows([t EXCEPT !.pc = pc, !.owned = o])
BY DEF TaskStates, TaskKnows, RunPoints

LEMMA MoveOnResumed ==
  ASSUME NEW t \in TaskStates, TaskKnows(t), NEW pc \in RunPoints \cup {"hydrate", "claim"},
         pc \in RunPoints => t.run \in Runs, pc = "claim" => t.pc = "claim"
  PROVE  /\ [t EXCEPT !.pc = pc, !.ev = NoView] \in TaskStates
         /\ TaskKnows([t EXCEPT !.pc = pc, !.ev = NoView])
<1>1. pc \in Points
  BY DEF RunPoints, Points
<1>2. [t EXCEPT !.pc = pc, !.ev = NoView] \in TaskStates
  BY <1>1 DEF TaskStates
<1> QED
  BY <1>2 DEF TaskStates, TaskKnows, RunPoints

LEMMA ActivateType ==
  ASSUME TypeInv, NEW h \in Hosts, NEW w \in Tasks, Activate(h, w)
  PROVE  TypeInv'
<1> DEFINE t == task[h][w]
<1>1. t \in TaskStates /\ TaskKnows(t) /\ t.pc = "activate" /\ t.run \in Runs
  BY DEF Activate, At, TypeInv, TypeOK, TasksKnow, TaskKnows, RunPoints, Points
<1>2. JournalType' /\ apply' \in [Hosts -> Tasks \cup {None}]
  BY SameJournal DEF Activate, TypeInv, TypeOK, LockType, durable
<1>3. live' \in [Hosts -> SUBSET Runs]
  <2>1. UNCHANGED live \/ live' = [live EXCEPT ![h] = @ \cup {t.run}]
    BY DEF Activate
  <2> QED
    BY <1>1, <2>1 DEF TypeInv, TypeOK, HostType
<1>4. faults' \in 0..MaxFaults
  BY FaultType DEF Activate, TypeInv, TypeOK
<1>5. HostType'
  BY <1>3, <1>4 DEF Activate, TypeInv, TypeOK, HostType, durable
<1>6. \/ Return(h, w, FALSE)
      \/ \E q \in Reasons : Goto(h, w, [t EXCEPT !.pc = "failStart", !.reason = q])
      \/ Goto(h, w, [t EXCEPT !.pc = "commit"])
  BY DEF Activate, Reasons
<1>7. {"failStart", "commit"} \subseteq RunPoints
  BY DEF RunPoints, Points
<1>8. CASE Return(h, w, FALSE)
  BY <1>2, <1>5, <1>8, ReturnInv
<1>9. CASE \E q \in Reasons : Goto(h, w, [t EXCEPT !.pc = "failStart", !.reason = q])
  BY <1>1, <1>2, <1>5, <1>7, <1>9, MoveOnReason, GotoInv
<1>10. CASE Goto(h, w, [t EXCEPT !.pc = "commit"])
  <2>1. [t EXCEPT !.pc = "commit"] \in TaskStates /\ TaskKnows([t EXCEPT !.pc = "commit"])
    BY <1>1, <1>7, MoveOn
  <2> QED
    BY <1>2, <1>5, <1>10, <2>1, GotoInv
<1> QED
  BY <1>6, <1>8, <1>9, <1>10

LEMMA PrepareFailsType ==
  ASSUME TypeInv, NEW h \in Hosts, NEW w \in Tasks, PrepareFails(h, w)
  PROVE  TypeInv'
<1>1. JournalType' /\ apply' \in [Hosts -> Tasks \cup {None}]
  BY SameJournal DEF PrepareFails, TypeInv, TypeOK, LockType, durable
<1>2. HostType'
  BY FaultType DEF PrepareFails, TypeInv, TypeOK, HostType, durable, hostVars
<1>3. Return(h, w, FALSE)
  BY DEF PrepareFails
<1> QED
  BY <1>1, <1>2, <1>3, ReturnInv

LEMMA FailStartType ==
  ASSUME TypeInv, NEW h \in Hosts, NEW w \in Tasks, FailStart(h, w)
  PROVE  TypeInv'
<1> DEFINE t == task[h][w]
           v == Now(t.run)
<1>1. t \in TaskStates /\ t.pc = "failStart" /\ t.reason \in Reasons
  BY DEF FailStart, At, TypeInv, TypeOK, TaskStates
<1>2. JournalType' /\ HostType'
  BY SyncType, SameHost DEF FailStart, TypeInv, TypeOK, durable
<1>3. CASE Return(h, w, FALSE) /\ UNCHANGED apply
  <2>1. apply' \in [Hosts -> Tasks \cup {None}]
    BY <1>3 DEF TypeInv, TypeOK, LockType
  <2> QED
    BY <1>2, <1>3, <2>1, ReturnInv
<1>4. CASE /\ v.status = "starting" /\ Propose(h, w, t, FailedRun(v, t.reason))
           /\ UNCHANGED <<startLock, cleanLock, answered>>
  <2>1. v \in Events
    BY <1>4, NowType DEF TypeInv, TypeOK
  <2>2. FailedRun(v, t.reason) \in Events
    BY <1>1, <2>1, MovedType DEF FailedRun, TerminalStatuses
  <2>3. t.pc \in RunPoints
    BY <1>1 DEF RunPoints, Points
  <2> QED
    BY <1>2, <1>4, <2>2, <2>3, ProposeInv
<1> QED
  BY <1>3, <1>4 DEF FailStart

LEMMA CommitStartType ==
  ASSUME TypeInv, NEW h \in Hosts, NEW w \in Tasks, CommitStart(h, w)
  PROVE  TypeInv'
<1> DEFINE t == task[h][w]
           v == Now(t.run)
<1>1. t \in TaskStates /\ TaskKnows(t) /\ t.pc = "commit" /\ t.run \in Runs
  BY DEF CommitStart, At, TypeInv, TypeOK, TasksKnow, TaskKnows, RunPoints, Points
<1>2. JournalType' /\ HostType'
  BY SyncType, SameHost DEF CommitStart, TypeInv, TypeOK, durable
<1>3. UNCHANGED <<startLock, cleanLock, answered>>
  BY DEF CommitStart
<1>4. ASSUME NEW pc \in {"lostStop", "failedStop"},
             SetTask(h, w, [t EXCEPT !.pc = pc]) /\ UNCHANGED apply
      PROVE  TypeInv'
  <2>1. pc \in RunPoints
    BY DEF RunPoints, Points
  <2>2. [t EXCEPT !.pc = pc] \in TaskStates /\ TaskKnows([t EXCEPT !.pc = pc])
    BY <1>1, <2>1, MoveOn
  <2>3. apply' \in [Hosts -> Tasks \cup {None}] /\ Goto(h, w, [t EXCEPT !.pc = pc])
    BY <1>3, <1>4 DEF TypeInv, TypeOK, LockType, Goto
  <2> QED
    BY <1>2, <2>2, <2>3, GotoInv
<1>5. CASE v.status = "starting" /\ Propose(h, w, t, RunningRun(v))
  <2>1. v \in Events
    BY <1>5, NowType DEF TypeInv, TypeOK
  <2>2. RunningRun(v) \in Events
    BY <2>1, MovedType DEF RunningRun, ActiveStatuses, Reasons
  <2>3. t.pc \in RunPoints
    BY <1>1 DEF RunPoints, Points
  <2> QED
    BY <1>2, <1>3, <1>5, <2>2, <2>3, ProposeInv
<1> QED
  BY <1>4, <1>5 DEF CommitStart

LEMMA StopHeldActivationType ==
  ASSUME TypeInv, NEW h \in Hosts, NEW w \in Tasks, StopHeldActivation(h, w)
  PROVE  TypeInv'
<1> DEFINE t == task[h][w]
<1>1. t \in TaskStates /\ TaskKnows(t) /\ t.run \in Runs
  BY DEF StopHeldActivation, At, TypeInv, TypeOK, TasksKnow, TaskKnows, RunPoints, Points
<1>2. JournalType' /\ apply' \in [Hosts -> Tasks \cup {None}]
  BY SameJournal DEF StopHeldActivation, TypeInv, TypeOK, LockType, durable
<1>3. HostType'
  <2>1. /\ UNCHANGED live \/ live' = [live EXCEPT ![h] = @ \ {t.run}]
        /\ UNCHANGED active \/ active' = [active EXCEPT ![h][t.run] = "available"]
        /\ UNCHANGED permit \/ permit' = [permit EXCEPT ![h] = TRUE]
        /\ Fault \/ NoFault
        /\ UNCHANGED <<owner, phase, dropped>>
    BY DEF StopHeldActivation, Own, Notify, durable
  <2>t. /\ live \in [Hosts -> SUBSET Runs]
        /\ active \in [Hosts -> [Runs -> {"none", "available", "cleaning"}]]
    BY DEF TypeInv, TypeOK, HostType
  <2>2. live' \in [Hosts -> SUBSET Runs]
    <3>1. CASE live' = live
      BY <2>t, <3>1
    <3>2. CASE live' = [live EXCEPT ![h] = @ \ {t.run}]
      BY <1>1, <2>t, <3>2, UpdateSet
    <3> QED
      BY <2>1, <3>1, <3>2
  <2>3. active' \in [Hosts -> [Runs -> {"none", "available", "cleaning"}]]
    <3>1. CASE active' = active
      BY <2>t, <3>1
    <3>2. CASE active' = [active EXCEPT ![h][t.run] = "available"]
      BY <1>1, <2>t, <3>2, UpdateInner
    <3> QED
      BY <2>1, <3>1, <3>2
  <2>4. permit' \in [Hosts -> BOOLEAN] /\ faults' \in 0..MaxFaults
    BY <2>1, FaultType DEF TypeInv, TypeOK, HostType
  <2> QED
    BY <2>1, <2>2, <2>3, <2>4 DEF TypeInv, TypeOK, HostType
<1>4. \/ \E ok \in BOOLEAN : Return(h, w, ok)
      \/ Goto(h, w, [t EXCEPT !.pc = "failStart", !.reason = "activation_commit_failed"])
  BY DEF StopHeldActivation
<1>5. CASE \E ok \in BOOLEAN : Return(h, w, ok)
  BY <1>1, <1>2, <1>3, <1>5, ReturnInv
<1>6. CASE Goto(h, w, [t EXCEPT !.pc = "failStart", !.reason = "activation_commit_failed"])
  <2>1. "failStart" \in RunPoints /\ "activation_commit_failed" \in Reasons
    BY DEF RunPoints, Points, Reasons
  <2> QED
    BY <1>1, <1>2, <1>3, <1>6, <2>1, MoveOnReason, GotoInv
<1> QED
  BY <1>4, <1>5, <1>6

LEMMA ResumeStartType ==
  ASSUME TypeInv, NEW h \in Hosts, NEW w \in Tasks, ResumeStart(h, w)
  PROVE  TypeInv'
<1> DEFINE t == task[h][w]
           v == Now(t.run)
<1>1. t \in TaskStates /\ TaskKnows(t) /\ t.pc = "resume" /\ t.run \in Runs
  BY DEF ResumeStart, At, TypeInv, TypeOK, TasksKnow, TaskKnows, RunPoints, Points
<1>2. JournalType' /\ HostType'
  BY SyncType, SameHost DEF ResumeStart, TypeInv, TypeOK, durable
<1>3. CASE UNCHANGED apply /\ \E ok \in BOOLEAN : Return(h, w, ok)
  <2>1. apply' \in [Hosts -> Tasks \cup {None}]
    BY <1>3 DEF TypeInv, TypeOK, LockType
  <2> QED
    BY <1>1, <1>2, <1>3, <2>1, ReturnInv
<1>4. CASE UNCHANGED apply /\ Goto(h, w, [t EXCEPT !.pc = "cleanup"])
  <2>1. apply' \in [Hosts -> Tasks \cup {None}] /\ "cleanup" \in RunPoints
    BY <1>4 DEF TypeInv, TypeOK, LockType, RunPoints, Points
  <2>2. [t EXCEPT !.pc = "cleanup"] \in TaskStates /\ TaskKnows([t EXCEPT !.pc = "cleanup"])
    BY <1>1, <2>1, MoveOn
  <2> QED
    BY <1>2, <1>4, <2>1, <2>2, GotoInv
<1>5. CASE /\ v.status = "starting" /\ UNCHANGED <<startLock, cleanLock, answered>>
           /\ \/ Propose(h, w, t, RunningRun(v))
              \/ Propose(h, w, t, InterruptedRun(v, "outcome_unknown"))
  <2>1. v \in Events
    BY <1>5, NowType DEF TypeInv, TypeOK
  <2>2. RunningRun(v) \in Events /\ InterruptedRun(v, "outcome_unknown") \in Events
    BY <2>1, MovedType
       DEF RunningRun, InterruptedRun, ActiveStatuses, TerminalStatuses, Reasons
  <2>3. t.pc \in RunPoints
    BY <1>1 DEF RunPoints, Points
  <2> QED
    BY <1>2, <1>5, <2>2, <2>3, ProposeInv
<1> QED
  BY <1>3, <1>4, <1>5 DEF ResumeStart

LEMMA StopType ==
  ASSUME TypeInv, NEW h \in Hosts, NEW w \in Tasks, NEW r \in Runs, NEW key \in Keys,
         NEW rev \in Nat, Stop(h, w, r, key, rev)
  PROVE  TypeInv'
<1> DEFINE v == Now(r)
           fp == <<r, rev>>
           claim == [op |-> "stop", key |-> key, fp |-> fp]
           t == [IdleTask EXCEPT !.pc = "complete", !.role = "request", !.inst = v.inst,
                                 !.run = r, !.key = key, !.fp = fp]
<1>1. v \in Events /\ v.inst \in Installations
  <2>1. v \in Events
    BY NowType DEF Stop, TypeInv, TypeOK
  <2> QED
    BY <2>1 DEF Events
<1>2. fp \in Fingerprints /\ claim \in Claims
  BY DEF Fingerprints, Claims
<1>3. /\ t \in TaskStates
      /\ t.role = "request" /\ t.pc = "complete" /\ t.inst \in Installations
      /\ t.run = r /\ t.key = key /\ t.fp = fp /\ t.ev = NoView
  <2>1. t \in TaskStates
    BY <1>1, <1>2, IdleType DEF TaskStates, Points, Roles
  <2> QED
    BY <2>1, <1>1, IdleType DEF TaskStates, IdleTask
<1>4. JournalType' /\ HostType'
  BY SyncType, SameHost DEF Stop, TypeInv, TypeOK, durable
<1>5. UNCHANGED <<startLock, cleanLock>>
  BY DEF Stop
<1>6. CASE UNCHANGED <<task, apply, answered>>
  <2>1. LockType' /\ TaskType' /\ answered' \in SUBSET Answers
    BY <1>5, <1>6 DEF TypeInv, TypeOK, LockType, TaskType, TasksKnow
  <2> QED
    BY <1>4, <2>1, TypeParts
<1>7. ASSUME NEW c \in {claim, NoClaim}, SetTask(h, w, [t EXCEPT !.claim = c]),
             UNCHANGED <<apply, answered>>
      PROVE  TypeInv'
  <2> HIDE DEF t, claim, fp
  <2>1. [t EXCEPT !.claim = c] \in TaskStates
    BY <1>2, <1>3 DEF TaskStates
  <2>2. TaskKnows([t EXCEPT !.claim = c])
    BY <1>2, <1>3 DEF TaskKnows, TaskStates
  <2>3. /\ Goto(h, w, [t EXCEPT !.claim = c])
        /\ apply' \in [Hosts -> Tasks \cup {None}]
    BY <1>5, <1>7 DEF Goto, TypeInv, TypeOK, LockType
  <2> QED
    BY <1>4, <2>1, <2>2, <2>3, GotoInv
<1>8. ASSUME NEW q \in Reasons, UNCHANGED answered,
             Propose(h, w, [t EXCEPT !.pc = "stop"], StoppingRun(v, q, claim))
      PROVE  TypeInv'
  <2>1. StoppingRun(v, q, claim) \in Events
    BY <1>1, <1>2, MovedType DEF StoppingRun, ActiveStatuses
  <2> DEFINE t1 == [t EXCEPT !.pc = "stop"]
             e == StoppingRun(v, q, claim)
  <2> HIDE DEF t, claim, fp, e
  <2>2. t1 \in TaskStates
    BY <1>3 DEF TaskStates, Points
  <2>3. TaskKnows([t1 EXCEPT !.ev = e])
    BY <1>2, <1>3 DEF TaskKnows, TaskStates, RunPoints, Points
  <2>4. TaskType' /\ apply' \in [Hosts -> Tasks \cup {None}]
    BY <1>8, <2>1, <2>2, <2>3, ProposeType DEF e, TypeInv
  <2>5. LockType' /\ answered' \in SUBSET Answers
    BY <1>5, <1>8, <2>4 DEF TypeInv, TypeOK, LockType
  <2> QED
    BY <1>4, <2>4, <2>5, TypeParts
<1>9. "explicit_stop" \in Reasons /\ "explicit_stop_before_start_commit" \in Reasons
  BY DEF Reasons
<1> QED
  BY <1>6, <1>7, <1>8, <1>9 DEF Stop

LEMMA PackageActivationLostType ==
  ASSUME TypeInv, NEW h \in Hosts, NEW w \in Tasks, NEW r \in Runs,
         PackageActivationLost(h, w, r)
  PROVE  TypeInv'
<1> DEFINE t == [IdleTask EXCEPT !.pc = "loss", !.role = "loss", !.run = r]
<1>1. t \in TaskStates /\ TaskKnows(t)
  <2>1. t \in TaskStates
    BY IdleType DEF TaskStates, Points, Roles
  <2>2. t.role = "loss" /\ t.pc = "loss" /\ t.run = r
    BY IdleType DEF TaskStates
  <2> QED
    BY <2>1, <2>2 DEF TaskKnows, RunPoints, Points
<1>2. JournalType' /\ HostType' /\ Goto(h, w, t) /\ apply' \in [Hosts -> Tasks \cup {None}]
  BY SameJournal, SameHost
     DEF PackageActivationLost, TypeInv, TypeOK, LockType, durable, locks, Goto
<1> QED
  BY <1>1, <1>2, GotoInv

LEMMA LossType ==
  ASSUME TypeInv, NEW h \in Hosts, NEW w \in Tasks, Loss(h, w)
  PROVE  TypeInv'
<1> DEFINE t == task[h][w]
           v == Now(t.run)
<1>1. t \in TaskStates /\ TaskKnows(t) /\ t.pc = "loss" /\ t.run \in Runs
  BY DEF Loss, At, TypeInv, TypeOK, TasksKnow, TaskKnows, RunPoints, Points
<1>2. JournalType' /\ HostType'
  BY SyncType, SameHost DEF Loss, TypeInv, TypeOK, durable
<1>3. CASE UNCHANGED apply /\ Return(h, w, FALSE)
  <2>1. apply' \in [Hosts -> Tasks \cup {None}]
    BY <1>3 DEF TypeInv, TypeOK, LockType
  <2> QED
    BY <1>2, <1>3, <2>1, ReturnInv
<1>4. ASSUME NEW pc \in {"cleanup", "complete"},
             UNCHANGED apply /\ Goto(h, w, [t EXCEPT !.pc = pc])
      PROVE  TypeInv'
  <2>1. apply' \in [Hosts -> Tasks \cup {None}] /\ pc \in RunPoints
    BY <1>4 DEF TypeInv, TypeOK, LockType, RunPoints, Points
  <2>2. [t EXCEPT !.pc = pc] \in TaskStates /\ TaskKnows([t EXCEPT !.pc = pc])
    BY <1>1, <2>1, MoveOn
  <2> QED
    BY <1>2, <1>4, <2>1, <2>2, GotoInv
<1>5. CASE /\ v.status \in ActiveStatuses /\ UNCHANGED <<startLock, cleanLock, answered>>
           /\ Propose(h, w, t, StoppingRun(v, "package_activation_lost", NoClaim))
  <2>1. v \in Events
    BY <1>5, NowType DEF TypeInv, TypeOK, ActiveStatuses
  <2>2. StoppingRun(v, "package_activation_lost", NoClaim) \in Events
    BY <2>1, MovedType DEF StoppingRun, ActiveStatuses, Reasons
  <2>3. t.pc \in RunPoints
    BY <1>1 DEF RunPoints, Points
  <2> QED
    BY <1>2, <1>5, <2>2, <2>3, ProposeInv
<1> QED
  BY <1>3, <1>4, <1>5 DEF Loss

LEMMA CompleteType ==
  ASSUME TypeInv, NEW h \in Hosts, NEW w \in Tasks, Complete(h, w)
  PROVE  TypeInv'
<1> DEFINE t == task[h][w]
           t1 == [t EXCEPT !.pc = "cleanup", !.owned = active[h][t.run] # "none"]
<1>1. t \in TaskStates /\ TaskKnows(t) /\ t.pc = "complete" /\ t.run \in Runs
  BY DEF Complete, At, TypeInv, TypeOK, TasksKnow, TaskKnows, RunPoints, Points
<1>2. JournalType' /\ HostType' /\ apply' \in [Hosts -> Tasks \cup {None}]
  BY SyncType, SameHost DEF Complete, TypeInv, TypeOK, LockType, durable
<1>3. CASE Return(h, w, TRUE)
  BY <1>1, <1>2, <1>3, ReturnInv
<1>4. CASE /\ SetTask(h, w, t1)
           /\ cleanLock' = [cleanLock EXCEPT ![h][t.run] = w]
           /\ UNCHANGED <<startLock, answered>>
  <2>1. (active[h][t.run] # "none") \in BOOLEAN /\ "cleanup" \in RunPoints
    BY DEF RunPoints, Points
  <2>2. t1 \in TaskStates /\ TaskKnows(t1)
    BY <1>1, <2>1, MoveOnOwned
  <2>3. TaskType'
    BY <1>4, <2>2, SetTaskType DEF TypeInv, TypeOK, TaskType
  <2>4. LockType' /\ answered' \in SUBSET Answers
    BY <1>1, <1>2, <1>4 DEF TypeInv, TypeOK, LockType
  <2> QED
    BY <1>2, <2>3, <2>4, TypeParts
<1> QED
  BY <1>3, <1>4 DEF Complete

\* Cleanup and DriverStop end the task or go on to a point of RunPoints.
LEMMA CleanupType ==
  ASSUME TypeInv, NEW h \in Hosts, NEW w \in Tasks, Cleanup(h, w) \/ DriverStop(h, w)
  PROVE  TypeInv'
<1> DEFINE t == task[h][w]
<1>1. t \in TaskStates /\ TaskKnows(t) /\ t.run \in Runs
  BY DEF Cleanup, DriverStop, At, TypeInv, TypeOK, TasksKnow, TaskKnows, RunPoints, Points
<1>2. JournalType' /\ apply' \in [Hosts -> Tasks \cup {None}]
  BY SameJournal DEF Cleanup, DriverStop, TypeInv, TypeOK, LockType, durable
<1>3. HostType'
  <2>1. /\ UNCHANGED live \/ live' = [live EXCEPT ![h] = @ \ {t.run}]
        /\ \/ UNCHANGED active
           \/ \E a \in {"none", "available", "cleaning"} :
                active' = [active EXCEPT ![h][t.run] = a]
        /\ \/ UNCHANGED permit
           \/ permit' = [permit EXCEPT ![h] = @ \/ Completing(h, w)]
        /\ Fault \/ NoFault
        /\ UNCHANGED <<owner, phase, dropped>>
    BY DEF Cleanup, DriverStop, Own, NoFault, durable
  <2>t. /\ live \in [Hosts -> SUBSET Runs]
        /\ active \in [Hosts -> [Runs -> {"none", "available", "cleaning"}]]
    BY DEF TypeInv, TypeOK, HostType
  <2>2. live' \in [Hosts -> SUBSET Runs]
    <3>1. CASE live' = live
      BY <2>t, <3>1
    <3>2. CASE live' = [live EXCEPT ![h] = @ \ {t.run}]
      BY <1>1, <2>t, <3>2, UpdateSet
    <3> QED
      BY <2>1, <3>1, <3>2
  <2>3. active' \in [Hosts -> [Runs -> {"none", "available", "cleaning"}]]
    <3>1. CASE active' = active
      BY <2>t, <3>1
    <3>2. CASE \E a \in {"none", "available", "cleaning"} :
                 active' = [active EXCEPT ![h][t.run] = a]
      BY <1>1, <2>t, <3>2, UpdateInner
    <3> QED
      BY <2>1, <3>1, <3>2
  <2>4. permit' \in [Hosts -> BOOLEAN]
    BY <2>1 DEF TypeInv, TypeOK, HostType
  <2>5. faults' \in 0..MaxFaults
    BY <2>1, FaultType DEF TypeInv, TypeOK
  <2> QED
    BY <2>1, <2>2, <2>3, <2>4, <2>5 DEF TypeInv, TypeOK, HostType
<1>4. \/ \E ok \in BOOLEAN : Return(h, w, ok)
      \/ \E pc \in {"finish", "driverStop"} : Goto(h, w, [t EXCEPT !.pc = pc])
  BY DEF Cleanup, DriverStop
<1>5. CASE \E ok \in BOOLEAN : Return(h, w, ok)
  BY <1>1, <1>2, <1>3, <1>5, ReturnInv
<1>6. ASSUME NEW pc \in {"finish", "driverStop"}, Goto(h, w, [t EXCEPT !.pc = pc])
      PROVE  TypeInv'
  <2>1. pc \in RunPoints
    BY DEF RunPoints, Points
  <2>2. [t EXCEPT !.pc = pc] \in TaskStates /\ TaskKnows([t EXCEPT !.pc = pc])
    BY <1>1, <2>1, MoveOn
  <2> QED
    BY <1>2, <1>3, <1>6, <2>2, GotoInv
<1> QED
  BY <1>4, <1>5, <1>6

LEMMA FinishType ==
  ASSUME TypeInv, NEW h \in Hosts, NEW w \in Tasks, Finish(h, w)
  PROVE  TypeInv'
<1> DEFINE t == task[h][w]
           v == Now(t.run)
<1>1. /\ t \in TaskStates /\ TaskKnows(t) /\ t.pc = "finish" /\ t.run \in Runs
      /\ t.owned \in BOOLEAN /\ t.claim \in Claims \cup {NoClaim}
  <2>1. t \in TaskStates /\ TaskKnows(t) /\ t.pc = "finish"
    BY DEF Finish, At, TypeInv, TypeOK, TasksKnow
  <2> QED
    BY <2>1 DEF TaskStates, TaskKnows, RunPoints, Points
<1>2. JournalType'
  BY SyncType DEF Finish, TypeInv, TypeOK, durable
<1>3. permit' \in [Hosts -> BOOLEAN]
  <2>1. \/ UNCHANGED permit
        \/ permit' = [permit EXCEPT ![h] = @ \/ t.role = "hydrate"]
    BY DEF Finish, NotifyIfHydrating
  <2> QED
    BY <2>1 DEF TypeInv, TypeOK, HostType
<1>4. HostType'
  BY <1>3 DEF Finish, TypeInv, TypeOK, HostType, durable
<1>5. CASE UNCHANGED apply /\ \E ok \in BOOLEAN : Return(h, w, ok)
  <2>1. apply' \in [Hosts -> Tasks \cup {None}]
    BY <1>5 DEF TypeInv, TypeOK, LockType
  <2> QED
    BY <1>1, <1>2, <1>4, <1>5, <2>1, ReturnInv
<1>6. CASE /\ v.status = "stopping" /\ UNCHANGED <<startLock, cleanLock, answered>>
           /\ Propose(h, w, t, TerminalAfterCleanup(v, t.owned, t.claim))
  <2>1. v \in Events
    BY <1>6, NowType DEF TypeInv, TypeOK
  <2>2. TerminalAfterCleanup(v, t.owned, t.claim) \in Events
    BY <1>1, <2>1, TerminalType
  <2>3. t.pc \in RunPoints
    BY <1>1 DEF RunPoints, Points
  <2> QED
    BY <1>2, <1>4, <1>6, <2>2, <2>3, ProposeInv
<1> QED
  BY <1>5, <1>6 DEF Finish

-----------------------------------------------------------------------------
(* The compare-and-append actions.                                         *)

\* After Commit the event is off the task and the journal is typed.
LEMMA ResumedType ==
  ASSUME TypeInv, NEW h \in Hosts, NEW w \in Tasks,
         NEW pc \in RunPoints \cup {"hydrate", "claim"},
         pc \in RunPoints => task[h][w].run \in Runs, pc = "claim" => task[h][w].pc = "claim"
  PROVE  Resumed(h, w, pc) \in TaskStates /\ TaskKnows(Resumed(h, w, pc))
BY MoveOnResumed DEF Resumed, TypeInv, TypeOK, TasksKnow

LEMMA UnlockType ==
  ASSUME LockType, NEW h \in Hosts, Unlock(h)
  PROVE  apply' \in [Hosts -> Tasks \cup {None}]
BY DEF LockType, Unlock

LEMMA CommittedType ==
  ASSUME TypeInv, NEW h \in Hosts, NEW w \in Tasks,
         \/ StartingCommitted(h, w) \/ FailedCommitted(h, w) \/ RunningCommitted(h, w)
         \/ ResumeCommitted(h, w) \/ StoppingCommitted(h, w) \/ TerminalCommitted(h, w)
         \/ RestartCommitted(h, w)
  PROVE  TypeInv'
<1> DEFINE t == task[h][w]
<1> USE DEF Appending
<1>1. t \in TaskStates /\ TaskKnows(t) /\ t.ev # NoView
  BY DEF TypeInv, TypeOK, TasksKnow, StartingCommitted, FailedCommitted, RunningCommitted,
         ResumeCommitted, StoppingCommitted, TerminalCommitted, RestartCommitted
<1>2. Commit(h, w)
  BY DEF StartingCommitted, FailedCommitted, RunningCommitted, ResumeCommitted,
         StoppingCommitted, TerminalCommitted, RestartCommitted
<1>3. JournalType'
  BY <1>1, <1>2, LandType DEF TypeInv, Commit
<1>4. t.pc # "hydrate" => t.run \in Runs
  BY <1>1 DEF TaskKnows, RunPoints, Points, TaskStates, StartingCommitted, FailedCommitted,
         RunningCommitted, ResumeCommitted, StoppingCommitted, TerminalCommitted,
         RestartCommitted
<1>5. HostType'
  <2>1. /\ UNCHANGED <<owner, phase, dropped, faults, live>>
        /\ UNCHANGED permit \/ permit' = [permit EXCEPT ![h] = TRUE]
        /\ \/ UNCHANGED active
           \/ t.run \in Runs /\ active' = [active EXCEPT ![h][t.run] = "available"]
    BY <1>2, <1>4
       DEF Commit, Own, Notify, StartingCommitted, FailedCommitted, RunningCommitted,
           ResumeCommitted, StoppingCommitted, TerminalCommitted, RestartCommitted
  <2>2. active' \in [Hosts -> [Runs -> {"none", "available", "cleaning"}]]
    <3> active \in [Hosts -> [Runs -> {"none", "available", "cleaning"}]]
      BY DEF TypeInv, TypeOK, HostType
    <3>1. CASE active' = active
      BY <3>1
    <3>2. CASE t.run \in Runs /\ active' = [active EXCEPT ![h][t.run] = "available"]
      BY <3>2, UpdateInner
    <3> QED
      BY <2>1, <3>1, <3>2
  <2>3. permit' \in [Hosts -> BOOLEAN]
    BY <2>1 DEF TypeInv, TypeOK, HostType
  <2> QED
    BY <2>1, <2>2, <2>3 DEF TypeInv, TypeOK, HostType
<1>6. apply' \in [Hosts -> Tasks \cup {None}]
  BY UnlockType
     DEF TypeInv, TypeOK, LockType, StartingCommitted, FailedCommitted, RunningCommitted,
         ResumeCommitted, StoppingCommitted, TerminalCommitted, RestartCommitted
<1>7. \/ t.run \in Runs /\ \E ok \in BOOLEAN : Return(h, w, ok)
      \/ \E pc \in {"activate", "cleanup", "complete"} :
           t.run \in Runs /\ Goto(h, w, Resumed(h, w, pc))
      \/ Goto(h, w, Resumed(h, w, "hydrate"))
  BY <1>4
     DEF StartingCommitted, FailedCommitted, RunningCommitted, ResumeCommitted,
         StoppingCommitted, TerminalCommitted, RestartCommitted
<1>8. CASE t.run \in Runs /\ \E ok \in BOOLEAN : Return(h, w, ok)
  BY <1>3, <1>5, <1>6, <1>8, ReturnInv
<1>9. ASSUME NEW pc \in {"activate", "cleanup", "complete"}, t.run \in Runs,
             Goto(h, w, Resumed(h, w, pc))
      PROVE  TypeInv'
  <2>1. pc \in RunPoints /\ pc # "claim"
    BY DEF RunPoints, Points
  <2>2. Resumed(h, w, pc) \in TaskStates /\ TaskKnows(Resumed(h, w, pc))
    BY <1>9, <2>1, ResumedType
  <2> QED
    BY <1>3, <1>5, <1>6, <1>9, <2>2, GotoInv
<1>10. CASE Goto(h, w, Resumed(h, w, "hydrate"))
  <2>1. "hydrate" \notin RunPoints
    BY DEF RunPoints
  <2>2. Resumed(h, w, "hydrate") \in TaskStates /\ TaskKnows(Resumed(h, w, "hydrate"))
    BY <2>1, ResumedType
  <2> QED
    BY <1>3, <1>5, <1>6, <1>10, <2>2, GotoInv
<1> QED
  BY <1>7, <1>8, <1>9, <1>10

\* CasLost and AppendFails: the task resumes at its point or returns.
LEMMA RefusedType ==
  ASSUME TypeInv, NEW h \in Hosts, NEW w \in Tasks, CasLost(h, w) \/ AppendFails(h, w)
  PROVE  TypeInv'
<1> DEFINE t == task[h][w]
<1>1. t \in TaskStates /\ TaskKnows(t) /\ t.ev # NoView /\ t.pc # "hydrate"
  BY DEF CasLost, AppendFails, TypeInv, TypeOK, TasksKnow
<1>2. t.pc \in RunPoints \cup {"claim"} /\ (t.pc \in RunPoints => t.run \in Runs)
  BY <1>1 DEF TaskKnows
<1>3. JournalType' /\ apply' \in [Hosts -> Tasks \cup {None}]
  BY SameJournal, UnlockType DEF CasLost, AppendFails, TypeInv, TypeOK, LockType, durable
<1>4. HostType'
  <2>1. CASE CasLost(h, w)
    BY <2>1, SameHost DEF CasLost, TypeInv, TypeOK, durable
  <2>2. CASE AppendFails(h, w)
    <3>1. permit' \in [Hosts -> BOOLEAN]
      BY <2>2 DEF AppendFails, TypeInv, TypeOK, HostType
    <3>2. faults' \in 0..MaxFaults
      <4>1. Fault \/ NoFault
        BY <2>2 DEF AppendFails
      <4> QED
        BY <4>1, FaultType DEF TypeInv, TypeOK
    <3> QED
      BY <2>2, <3>1, <3>2 DEF AppendFails, TypeInv, TypeOK, HostType, durable
  <2> QED
    BY <2>1, <2>2
<1>5. \/ Return(h, w, FALSE)
      \/ Goto(h, w, Resumed(h, w, t.pc))
      \/ t.pc = "commit" /\ Goto(h, w, Resumed(h, w, "failedStop"))
  BY DEF CasLost, AppendFails
<1>6. CASE Return(h, w, FALSE)
  BY <1>3, <1>4, <1>6, ReturnInv
<1>7. CASE Goto(h, w, Resumed(h, w, t.pc))
  <2>1. Resumed(h, w, t.pc) \in TaskStates /\ TaskKnows(Resumed(h, w, t.pc))
    BY <1>2, ResumedType
  <2> QED
    BY <1>3, <1>4, <1>7, <2>1, GotoInv
<1>8. CASE t.pc = "commit" /\ Goto(h, w, Resumed(h, w, "failedStop"))
  <2>1. {"commit", "failedStop"} \subseteq RunPoints
    BY DEF RunPoints, Points
  <2>2. Resumed(h, w, "failedStop") \in TaskStates /\ TaskKnows(Resumed(h, w, "failedStop"))
    BY <1>2, <1>8, <2>1, ResumedType
  <2> QED
    BY <1>3, <1>4, <1>8, <2>2, GotoInv
<1> QED
  BY <1>5, <1>6, <1>7, <1>8

LEMMA SyncFailsType ==
  ASSUME TypeInv, NEW h \in Hosts, NEW w \in Tasks, SyncFails(h, w)
  PROVE  TypeInv'
<1> DEFINE t == task[h][w]
<1>1. t \in TaskStates /\ TaskKnows(t) /\ (t.pc = "commit" => t.run \in Runs)
  BY DEF TypeInv, TypeOK, TasksKnow, TaskKnows, RunPoints, Points
<1>2. JournalType' /\ apply' \in [Hosts -> Tasks \cup {None}] /\ Return(h, w, FALSE)
  BY SameJournal DEF SyncFails, TypeInv, TypeOK, LockType, durable
<1>3. dropped' \in [Hosts -> SUBSET Runs]
  BY <1>1 DEF SyncFails, TypeInv, TypeOK, HostType
<1>4. permit' \in [Hosts -> BOOLEAN]
  BY DEF SyncFails, NotifyIfHydrating, TypeInv, TypeOK, HostType
<1>5. faults' \in 0..MaxFaults
  BY FaultType DEF SyncFails, TypeInv, TypeOK
<1>6. HostType'
  BY <1>3, <1>4, <1>5 DEF SyncFails, TypeInv, TypeOK, HostType, durable
<1> QED
  BY <1>2, <1>6, ReturnInv

-----------------------------------------------------------------------------
(* Recovery, supervisor and environment.                                   *)

LEMMA BootType ==
  ASSUME TypeInv, NEW h \in Hosts, NEW w \in Workers, Boot(h, w)
  PROVE  TypeInv'
<1> DEFINE t == [IdleTask EXCEPT !.pc = "hydrate", !.role = "hydrate"]
<1>1. t \in TaskStates /\ TaskKnows(t) /\ w \in Tasks
  <2>1. t \in TaskStates
    BY IdleType DEF TaskStates, Points, Roles
  <2>2. t.role = "hydrate" /\ t.pc = "hydrate" /\ t.ev = NoView
    BY IdleType DEF TaskStates, IdleTask
  <2> QED
    BY <2>1, <2>2 DEF TaskKnows, RunPoints, Tasks
<1>2. JournalType' /\ apply' \in [Hosts -> Tasks \cup {None}] /\ Goto(h, w, t)
  BY SameJournal DEF Boot, TypeInv, TypeOK, LockType, locks, Goto
<1>3. faults' \in 0..MaxFaults
  <2>1. Fault \/ NoFault
    BY DEF Boot
  <2> QED
    BY <2>1, FaultType DEF TypeInv, TypeOK
<1>4. HostType'
  BY <1>3 DEF Boot, TypeInv, TypeOK, HostType
<1> QED
  BY <1>1, <1>2, <1>4, GotoInv

\* A process that ends, by a crash or a failed recovery.
LEMMA HaltType ==
  ASSUME TypeInv, NEW h \in Hosts, Halt(h), Fault \/ NoFault
  PROVE  TypeInv'
<1>1. JournalType'
  BY DEF Halt, TypeInv, TypeOK, JournalType, durable
<1>2. LockType'
  BY DEF Halt, TypeInv, TypeOK, LockType
<1>3. TaskType'
  BY IdleType DEF Halt, TypeInv, TypeOK, TaskType, TasksKnow
<1>4. HostType'
  <2>1. active' \in [Hosts -> [Runs -> {"none", "available", "cleaning"}]]
    BY DEF Halt, TypeInv, TypeOK, HostType
  <2>2. live' \in [Hosts -> SUBSET Runs] /\ dropped' \in [Hosts -> SUBSET Runs]
    BY DEF Halt, TypeInv, TypeOK, HostType
  <2>3. permit' \in [Hosts -> BOOLEAN]
    BY DEF Halt, TypeInv, TypeOK, HostType
  <2>4. phase' \in [Hosts -> {"down", "hydrating", "up"}] /\ owner' \in Hosts \cup {None}
    BY DEF Halt, TypeInv, TypeOK, HostType, durable
  <2>5. faults' \in 0..MaxFaults
    BY FaultType DEF TypeInv, TypeOK
  <2> QED
    BY <2>1, <2>2, <2>3, <2>4, <2>5 DEF HostType
<1>5. answered' \in SUBSET Answers
  BY DEF Halt, TypeInv, TypeOK
<1> QED
  BY <1>1, <1>2, <1>3, <1>4, <1>5, TypeParts

LEMMA HydrateType ==
  ASSUME TypeInv, NEW h \in Hosts, NEW w \in Tasks, Hydrate(h, w)
  PROVE  TypeInv'
<1> DEFINE t == task[h][w]
           n == next'[h]
<1>1. t \in TaskStates /\ TaskKnows(t) /\ t.pc = "hydrate" /\ t.ev = NoView
  BY DEF Hydrate, At, TypeInv, TypeOK, TasksKnow
<1>2. JournalType' /\ HostType' /\ UNCHANGED <<startLock, cleanLock, answered>>
  BY SyncType, SameJournal, SameHost DEF Hydrate, TypeInv, TypeOK, durable
<1>3. ASSUME NEW todo \in SUBSET Work,
             SetTask(h, w, [t EXCEPT !.pc = "loop", !.todo = todo]), Unlock(h)
      PROVE  TypeInv'
  <2> DEFINE t1 == [t EXCEPT !.pc = "loop", !.todo = todo]
  <2>1. t1 \in TaskStates
    BY <1>1 DEF TaskStates, Points
  <2>2. TaskKnows(t1)
    BY <1>1 DEF TaskKnows, TaskStates, RunPoints
  <2>3. Goto(h, w, t1) /\ apply' \in [Hosts -> Tasks \cup {None}]
    BY <1>2, <1>3, UnlockType DEF Goto, TypeInv, TypeOK
  <2> QED
    BY <1>2, <2>1, <2>2, <2>3, GotoInv
<1>4. ASSUME NEW r \in Unmarked(n),
             Propose(h, w, t, StoppingRun(Latest(journal, n, r), "host_restart", NoClaim))
      PROVE  TypeInv'
  <2>1. n \in 0 .. Len(journal) /\ journal \in Seq(Events)
    BY <1>2 DEF JournalType, Hydrate, durable
  <2>2. Latest(journal, n, r) \in Events
    BY <2>1, LatestType DEF Unmarked, ActiveStatuses
  <2>3. StoppingRun(Latest(journal, n, r), "host_restart", NoClaim) \in Events
    BY <2>2, MovedType DEF StoppingRun, ActiveStatuses, Reasons
  <2> QED
    BY <1>1, <1>2, <1>4, <2>3, ProposeInv
<1>5. {r \in Runs : IsActive(journal, n, r)} \X {"complete"} \in SUBSET Work
  BY DEF Work
<1>6. \/ \E todo \in SUBSET Work :
           SetTask(h, w, [t EXCEPT !.pc = "loop", !.todo = todo]) /\ Unlock(h)
      \/ \E r \in Unmarked(n) :
           Propose(h, w, t, StoppingRun(Latest(journal, n, r), "host_restart", NoClaim))
  BY <1>5 DEF Hydrate
<1> QED
  BY <1>3, <1>4, <1>6

\* The supervisor's steps set its own task.
LEMMA WakeType ==
  ASSUME TypeInv, NEW h \in Hosts, Wake(h)
  PROVE  TypeInv'
<1> DEFINE t == [IdleTask EXCEPT !.pc = "scan", !.role = "supervise"]
<1>1. t \in TaskStates /\ TaskKnows(t) /\ Supervisor \in Tasks
  <2>1. t \in TaskStates
    BY IdleType DEF TaskStates, Points, Roles
  <2>2. t.role = "supervise" /\ t.pc = "scan" /\ t.ev = NoView
    BY IdleType DEF TaskStates, IdleTask
  <2> QED
    BY <2>1, <2>2 DEF TaskKnows, RunPoints, Tasks
<1>2. JournalType' /\ apply' \in [Hosts -> Tasks \cup {None}] /\ Goto(h, Supervisor, t)
  BY SameJournal DEF Wake, TypeInv, TypeOK, LockType, locks, Goto, durable
<1>3. permit' \in [Hosts -> BOOLEAN]
  BY DEF Wake, TypeInv, TypeOK, HostType
<1>4. HostType'
  BY <1>3 DEF Wake, TypeInv, TypeOK, HostType, durable
<1> QED
  BY <1>1, <1>2, <1>4, GotoInv

\* A supervisor pass over a set of Runs.
LEMMA PassType ==
  ASSUME NEW todo \in SUBSET Work, NEW pc \in {"loop", "scanTerminal"}
  PROVE  LET t == [IdleTask EXCEPT !.pc = pc, !.role = "supervise", !.todo = todo]
         IN  t \in TaskStates /\ TaskKnows(t)
<1> DEFINE t == [IdleTask EXCEPT !.pc = pc, !.role = "supervise", !.todo = todo]
<1>1. t \in TaskStates
  BY IdleType DEF TaskStates, Points, Roles
<1>2. t.role = "supervise" /\ t.pc = pc /\ t.ev = NoView
  BY IdleType DEF TaskStates, IdleTask
<1> QED
  BY <1>1, <1>2 DEF TaskKnows, RunPoints

\* Both reads of the supervisor's scan.
LEMMA ScanType ==
  ASSUME TypeInv, NEW h \in Hosts, Scan(h) \/ ScanTerminal(h)
  PROVE  TypeInv'
<1> DEFINE Pass(pc, todo) == [IdleTask EXCEPT !.pc = pc, !.role = "supervise", !.todo = todo]
<1>1. /\ JournalType' /\ HostType' /\ apply' \in [Hosts -> Tasks \cup {None}]
      /\ UNCHANGED <<startLock, cleanLock, answered>>
  BY SyncType, SameHost DEF Scan, ScanTerminal, TypeInv, TypeOK, LockType, locks, durable
<1>2. Supervisor \in Tasks
  BY DEF Tasks
<1>3. task[h][Supervisor].todo \in SUBSET Work
  BY <1>2 DEF TypeInv, TypeOK, TaskStates
<1>4. /\ StoppingRuns \X {"complete"} \in SUBSET Work
      /\ task[h][Supervisor].todo \cup (TerminalActivations(h) \X {"cleanup"}) \in SUBSET Work
  BY <1>3 DEF Work, StoppingRuns, TerminalActivations
<1>5. \/ SetTask(h, Supervisor, IdleTask)
      \/ \E pc \in {"loop", "scanTerminal"}, todo \in SUBSET Work :
           SetTask(h, Supervisor, Pass(pc, todo))
  BY <1>4 DEF Scan, ScanTerminal
<1>6. CASE SetTask(h, Supervisor, IdleTask)
  <2>1. Goto(h, Supervisor, IdleTask)
    BY <1>1, <1>6 DEF Goto
  <2> QED
    BY <1>1, <1>2, <2>1, IdleType, GotoInv
<1>7. ASSUME NEW pc \in {"loop", "scanTerminal"}, NEW todo \in SUBSET Work,
             SetTask(h, Supervisor, Pass(pc, todo))
      PROVE  TypeInv'
  <2>1. Pass(pc, todo) \in TaskStates /\ TaskKnows(Pass(pc, todo))
    BY PassType
  <2>2. Goto(h, Supervisor, Pass(pc, todo))
    BY <1>1, <1>7 DEF Goto
  <2> HIDE DEF Pass
  <2> QED
    BY <1>1, <1>2, <2>1, <2>2, GotoInv
<1> QED
  BY <1>5, <1>6, <1>7

LEMMA NextRunType ==
  ASSUME TypeInv, NEW h \in Hosts, NEW w \in Tasks, NextRun(h, w)
  PROVE  TypeInv'
<1> DEFINE t == task[h][w]
<1>1. t \in TaskStates /\ TaskKnows(t) /\ t.todo \in SUBSET Work /\ t.ev = NoView
  <2>1. t \in TaskStates /\ TaskKnows(t) /\ t.ev = NoView
    BY DEF NextRun, At, TypeInv, TypeOK, TasksKnow
  <2> QED
    BY <2>1 DEF TaskStates
<1>2. PICK x \in t.todo :
        SetTask(h, w, [t EXCEPT !.pc = x[2], !.run = x[1], !.todo = @ \ {x}])
  BY DEF NextRun
<1>3. x[1] \in Runs /\ x[2] \in {"complete", "cleanup"} /\ t.todo \ {x} \in SUBSET Work
  BY <1>1 DEF Work
<1> DEFINE t1 == [t EXCEPT !.pc = x[2], !.run = x[1], !.todo = t.todo \ {x}]
<1>4. t1 \in TaskStates /\ TaskKnows(t1)
  <2>1. x[2] \in RunPoints /\ x[2] \in Points
    BY <1>3 DEF RunPoints, Points
  <2>2. t1 \in TaskStates
    BY <1>1, <1>3, <2>1 DEF TaskStates
  <2>3. t1.pc = x[2] /\ t1.run = x[1] /\ t1.role = t.role /\ t1.inst = t.inst
        /\ t1.key = t.key /\ t1.fp = t.fp /\ t1.ev = t.ev
    BY <1>1 DEF TaskStates
  <2> QED
    BY <1>1, <1>3, <2>1, <2>2, <2>3 DEF TaskKnows
<1>5. JournalType' /\ HostType' /\ apply' \in [Hosts -> Tasks \cup {None}]
  BY SameJournal, SameHost DEF NextRun, TypeInv, TypeOK, LockType, locks, durable
<1>6. Goto(h, w, t1)
  BY <1>2 DEF NextRun, Goto, locks
<1> HIDE DEF t1
<1> QED
  BY <1>4, <1>5, <1>6, GotoInv

LEMMA PassEndsType ==
  ASSUME TypeInv, NEW h \in Hosts, NEW w \in Tasks, PassEnds(h, w)
  PROVE  TypeInv'
<1> DEFINE t == [IdleTask EXCEPT !.pc = "scan", !.role = "supervise"]
<1>1. t \in TaskStates /\ TaskKnows(t)
  <2>1. t \in TaskStates
    BY IdleType DEF TaskStates, Points, Roles
  <2>2. t.role = "supervise" /\ t.pc = "scan" /\ t.ev = NoView
    BY IdleType DEF TaskStates, IdleTask
  <2> QED
    BY <2>1, <2>2 DEF TaskKnows, RunPoints
<1>2. JournalType' /\ apply' \in [Hosts -> Tasks \cup {None}]
  BY SameJournal DEF PassEnds, TypeInv, TypeOK, LockType, locks, durable
<1>3. HostType'
  <2>1. phase' \in [Hosts -> {"down", "hydrating", "up"}]
    BY DEF PassEnds, TypeInv, TypeOK, HostType
  <2> QED
    BY <2>1 DEF PassEnds, TypeInv, TypeOK, HostType, durable
<1>4. Goto(h, w, t) \/ Goto(h, w, IdleTask)
  BY DEF PassEnds, Goto, locks
<1> HIDE DEF t
<1> QED
  BY <1>1, <1>2, <1>3, <1>4, IdleType, GotoInv

LEMMA DisconnectType ==
  ASSUME TypeInv, NEW h \in Hosts, NEW w \in Tasks, Disconnect(h, w)
  PROVE  TypeInv'
<1> DEFINE t == task[h][w]
           at == {"activate", "commit", "lostStop", "failedStop", "driverStop"}
<1>1. t \in TaskStates /\ TaskKnows(t) /\ (t.pc \in at => t.run \in Runs)
  BY DEF TypeInv, TypeOK, TasksKnow, TaskKnows, RunPoints, Points
<1>2. JournalType' /\ apply' \in [Hosts -> Tasks \cup {None}] /\ Return(h, w, FALSE)
  BY SameJournal DEF Disconnect, TypeInv, TypeOK, LockType, durable
<1>3. live' \in [Hosts -> SUBSET Runs]
  BY <1>1 DEF Disconnect, TypeInv, TypeOK, HostType
<1>4. dropped' \in [Hosts -> SUBSET Runs]
  BY <1>1 DEF Disconnect, TypeInv, TypeOK, HostType
<1>5. faults' \in 0..MaxFaults
  BY FaultType DEF Disconnect, TypeInv, TypeOK
<1>6. HostType'
  BY <1>3, <1>4, <1>5 DEF Disconnect, TypeInv, TypeOK, HostType, durable
<1> QED
  BY <1>2, <1>6, ReturnInv

LEMMA DisconnectCommittedType ==
  ASSUME TypeInv, NEW h \in Hosts, NEW w \in Tasks, DisconnectCommitted(h, w)
  PROVE  TypeInv'
<1> DEFINE t == task[h][w]
<1>1. t.run \in Runs /\ t.ev # NoView /\ Land(h, w) /\ Return(h, w, FALSE)
  <2>1. TaskKnows(t) /\ t.pc = "commit"
    BY DEF DisconnectCommitted, Appending, TypeInv, TasksKnow
  <2> QED
    BY <2>1 DEF DisconnectCommitted, Appending, TaskKnows, RunPoints, Points
<1>2. JournalType' /\ apply' \in [Hosts -> Tasks \cup {None}]
  BY <1>1, LandType, UnlockType DEF DisconnectCommitted, TypeInv, TypeOK
<1>3. dropped' \in [Hosts -> SUBSET Runs]
  BY <1>1 DEF DisconnectCommitted, TypeInv, TypeOK, HostType
<1>4. faults' \in 0..MaxFaults
  BY FaultType DEF DisconnectCommitted, TypeInv, TypeOK
<1>5. HostType'
  BY <1>3, <1>4 DEF DisconnectCommitted, TypeInv, TypeOK, HostType
<1> QED
  BY <1>1, <1>2, <1>5, ReturnInv

LEMMA ObserveType ==
  ASSUME TypeInv, NEW h \in Hosts, Observe(h)
  PROVE  TypeInv'
<1>1. JournalType' /\ HostType'
  BY SyncType, SameHost DEF Observe, TypeInv, TypeOK, durable
<1>2. LockType' /\ TaskType' /\ answered' \in SUBSET Answers
  BY DEF Observe, TypeInv, TypeOK, LockType, TaskType, TasksKnow, locks
<1> QED
  BY <1>1, <1>2, TypeParts

-----------------------------------------------------------------------------
(* Type correctness.                                                       *)

LEMMA TypeInit == Init => TypeInv
<1> SUFFICES ASSUME Init PROVE TypeInv
  OBVIOUS
<1>1. JournalType
  BY DEF Init, JournalType
<1>2. HostType
  BY RegistryAssumptions DEF Init, HostType
<1>3. LockType
  BY DEF Init, LockType
<1>4. task \in [Hosts -> [Tasks -> TaskStates]] /\ TasksKnow
  BY IdleType DEF Init, TasksKnow
<1>5. answered \in SUBSET Answers
  BY DEF Init
<1> QED
  BY <1>1, <1>2, <1>3, <1>4, <1>5 DEF TypeInv, TypeOK

LEMMA TypeNext == TypeInv /\ [Next]_vars => TypeInv'
<1> SUFFICES ASSUME TypeInv, [Next]_vars PROVE TypeInv'
  OBVIOUS
<1>1. CASE UNCHANGED vars
  BY <1>1 DEF vars, TypeInv, TypeOK, JournalType, HostType, LockType, TasksKnow
<1>2. ASSUME NEW h \in Hosts, NEW w \in Tasks, Step(h, w) PROVE TypeInv'
  BY <1>2, ClaimStartType, ActivateType, FailStartType, CommitStartType,
     StopHeldActivationType, ResumeStartType, LossType, CompleteType, CleanupType,
     FinishType, CommittedType, RefusedType, HydrateType, NextRunType, PassEndsType
     DEF Step
<1>3. ASSUME NEW h \in Hosts, NEW w \in Tasks, Failure(h, w) PROVE TypeInv'
  <2>1. HydrateFails(h, w) => Halt(h) /\ (Fault \/ NoFault)
    BY DEF HydrateFails
  <2> QED
    BY <1>3, <2>1, PrepareFailsType, RefusedType, SyncFailsType, HaltType, DisconnectType,
       DisconnectCommittedType DEF Failure
<1>4. ASSUME NEW h \in Hosts, NEW w \in Tasks, Requests(h, w) PROVE TypeInv'
  <2>1. 1..3 \subseteq Nat
    OBVIOUS
  <2> QED
    BY <1>4, <2>1, StartType, StopType, PackageActivationLostType DEF Requests
<1>5. ASSUME NEW h \in Hosts, Crash(h) PROVE TypeInv'
  BY <1>5, HaltType DEF Crash
<1> QED
  BY <1>1, <1>2, <1>3, <1>4, <1>5, BootType, ObserveType, WakeType, ScanType DEF Next

\* Type correctness of the registry: the journal holds only events, no Host's
\* projection is ahead of it, and tasks and locks are what their points say.
THEOREM TypeCorrect == Spec => []TypeOK
<1>1. TypeInv => TypeOK
  BY DEF TypeInv
<1> QED
  BY <1>1, TypeInit, TypeNext, PTL DEF Spec

=============================================================================
