----------------------- MODULE PackageSupervisionProofs -----------------------
(***************************************************************************)
(* What a Package's supervision guarantees its Runs, for any number of     *)
(* requests, callers, Runs, processes and failures.                        *)
(*                                                                         *)
(* SupervisionInv is inductive whatever requests overlap: a generation has *)
(* one watcher, is fresh until it is registered, and is taken out of the   *)
(* handles once.  ServiceInv ties the record's state to the handle and the *)
(* leases; it is inductive on top of SupervisionInv as long as the         *)
(* requests for the Package follow one another (OneRequest).  EventInv     *)
(* counts the degraded events on top of both.                              *)
(***************************************************************************)
EXTENDS PackageSupervision, FiniteSetTheorems, TLAPS

-----------------------------------------------------------------------------
(* The inductive invariant of the processes and their reports.             *)

Reporting == {"report", "mark", "drive", "append", "notify"}
Driving == {"append", "notify"}
Holding == {"commit", "recheck", "mark"}
WithGeneration ==
  Reporting \cup {"register", "complete", "commit", "recheck", "called", "pump"}

\* Where each kind of task can be, and which generation it is about.
PlacesInv ==
  /\ \A p \in Lifecycle : task[p].pc \notin {"called", "pump"}
  /\ \A p \in Callers : task[p].pc \in Reporting \cup {"idle", "called"}
  /\ \A g \in Gens :
       /\ task[Watcher(g)].pc \in Reporting \cup {"idle", "pump"}
       /\ task[Watcher(g)].pc # "idle" => task[Watcher(g)].gen = g
       /\ task[Retry(g)].pc \in Driving \cup {"idle", "drive"}
       /\ task[Retry(g)].pc # "idle" => task[Retry(g)].gen = g
  /\ \A p \in Tasks : task[p].pc \in WithGeneration => task[p].gen \in Gens

\* A task between the awaits of a transition holds it; a loss is recorded once and
\* driven by one task at a time.
LossInv ==
  /\ \A p \in Tasks : task[p].pc \in Holding => transition = p
  /\ \A p \in Tasks : At(p, "mark") => losses[task[p].gen] = None
  /\ \A p \in Tasks :
       task[p].pc \in Driving => /\ losses[task[p].gen] # None
                                 /\ losses[task[p].gen].processing
  /\ \A p, q \in Tasks :
       task[p].pc \in Driving /\ task[q].pc \in Driving /\ task[p].gen = task[q].gen => p = q

\* The requests that may still spawn a process.
MaySpawn(t) == \/ t.pc \in {"loading", "starting", "restarting", "spawn"}
               \/ t.pc \in {"stopping", "stop"} /\ t.op = "restart"
Pending == {p \in Lifecycle : MaySpawn(task[p])}
BoundInv == next + Cardinality(Pending) <= MaxGenerations + 1

\* Nothing knows a generation before it is spawned.
NextInv ==
  /\ handle < next /\ current < next
  /\ \A g \in alive \cup lost : g < next
  /\ \A g \in Gens : losses[g] # None => g < next
  /\ \A p \in Tasks : task[p].gen < next
  /\ \A r \in Runs : served[r] < next

\* A generation that is not registered yet is known to its request alone.
FreshInv ==
  \A p \in Tasks : At(p, "register") =>
    /\ task[p].gen \notin lost
    /\ task[p].gen # handle
    /\ losses[task[p].gen] = None
    /\ \A q \in Tasks \ {p} : task[q].gen # task[p].gen

\* The registered process has a watcher and no loss; who takes it out has seen its
\* transport fail.
HandleInv ==
  /\ handle # 0 => /\ task[Watcher(handle)].pc \in {"pump", "report"}
                   /\ losses[handle] = None
  /\ \A p \in Tasks : task[p].pc \in {"commit", "recheck"} => handle = task[p].gen
  /\ \A p \in Tasks : At(p, "mark") => handle # task[p].gen /\ task[p].gen \in broken
  /\ handle # 0 /\ (handle \notin alive \/ handle \in lost) => handle \in broken
  /\ \A p \in Tasks : At(p, "report") /\ handle = task[p].gen => handle \in broken

SupervisionInv ==
  /\ TypeOK /\ PlacesInv /\ LossInv /\ BoundInv /\ NextInv /\ FreshInv /\ HandleInv

-----------------------------------------------------------------------------
(* The inductive invariant of the service, for one request at a time.      *)

OneRequest == \A p, q \in Lifecycle : p = q

\* No process is registered and no loss of one is being recorded.
Quiet == handle = 0 /\ \A p \in Tasks : ~At(p, "mark")

\* The state that a request has written is the state it finds.
RequestFinds(p) ==
  /\ task[p].pc = "loading" => state = "loading"
  /\ task[p].pc \in {"starting", "spawn", "register", "startFailed", "commit"} =>
       state = "starting"
  /\ task[p].pc \in {"stopping", "stop", "restarting"} => state = "stopping"
  /\ task[p].pc \in {"stopped", "remove"} => state = "stopped"
  /\ task[p].pc = "recheck" => state = "ready" /\ task[p].gen = current
  /\ task[p].pc \in {"report", "mark"} /\ state = "ready" => task[p].gen = current
  /\ task[p].pc \in {"complete", "completeFailed", "drive", "append", "notify"} =>
       state # "ready"
  /\ task[p].pc \in {"loading", "starting", "spawn", "register", "startFailed", "restarting",
                     "stopped", "remove"} => Quiet

RequestInv == \A p \in Lifecycle : RequestFinds(p)

\* What the record's state says of the process and of the leases.
StateInv ==
  /\ \A p \in Tasks : At(p, "mark") => handle = 0
  /\ state \in {"none", "loading", "stopped"} => Quiet
  /\ leases # {} => state \in {"ready", "degraded"}
  /\ state = "ready" =>
       /\ current # 0
       /\ handle = current \/ \E p \in Tasks : At(p, "mark") /\ task[p].gen = current
       /\ \A r \in leases : served[r] = current

\* Every Run whose process is gone is in a loss or known to Run control, and no
\* other is.
LossReported ==
  /\ state # "ready" => \A r \in leases :
       r \in notified \/ \E g \in Gens : losses[g] # None /\ r \in losses[g].runs
  /\ \A g \in Gens : losses[g] # None => \A r \in losses[g].runs : served[r] \in broken
  /\ OnlyBrokenIsLost

ServiceInv == RequestInv /\ StateInv /\ LossReported

-----------------------------------------------------------------------------
(* Tasks and their updates.                                                *)

Task == [pc : Points, op : Ops, gen : Gens \cup {0}]

\* A watcher and a retry task are tasks of their own.
LEMMA TaskNames ==
  ASSUME NEW g \in Gens
  PROVE  /\ Watcher(g) \in Tasks /\ Retry(g) \in Tasks
         /\ Watcher(g) \notin Lifecycle \cup Callers
         /\ Retry(g) \notin Lifecycle \cup Callers
         /\ \A h \in Gens : /\ Watcher(g) # Retry(h)
                            /\ Watcher(g) = Watcher(h) => g = h
                            /\ Retry(g) = Retry(h) => g = h
<1>1. Watcher(g) \in Tasks /\ Retry(g) \in Tasks
  BY DEF Tasks
<1>2. {Watcher(g), Retry(g)} \cap (Lifecycle \cup Callers) = {}
  BY SupervisionAssumptions
<1>3. \A h \in Gens : /\ Watcher(g) # Retry(h)
                      /\ Watcher(g) = Watcher(h) => g = h
                      /\ Retry(g) = Retry(h) => g = h
  BY DEF Watcher, Retry
<1> QED
  BY <1>1, <1>2, <1>3

LEMMA NoGeneration == 0 \notin Gens
BY SupervisionAssumptions DEF Gens

LEMMA TaskKinds ==
  ASSUME NEW p \in Tasks
  PROVE  \/ p \in Lifecycle \/ p \in Callers
         \/ \E g \in Gens : p = Watcher(g) \/ p = Retry(g)
BY DEF Tasks

\* Only the task p changes, to t.
Becomes(p, t) == /\ task'[p] = t
                 /\ \A q \in Tasks \ {p} : task'[q] = task[q]

LEMMA GotoIs ==
  ASSUME TypeOK, NEW p \in Tasks, NEW c \in Points, Goto(p, c)
  PROVE  /\ task' \in [Tasks -> Task]
         /\ Becomes(p, [pc |-> c, op |-> task[p].op, gen |-> task[p].gen])
<1>1. task \in [Tasks -> Task]
  BY DEF TypeOK, Task
<1> QED
  BY <1>1 DEF Goto, Becomes, Task

LEMMA GotoFields ==
  ASSUME TypeOK, NEW p \in Tasks, NEW c \in Points, Goto(p, c)
  PROVE  /\ task'[p].pc = c /\ task'[p].gen = task[p].gen
         /\ \A q \in Tasks \ {p} : task'[q] = task[q]
<1>1. Becomes(p, [pc |-> c, op |-> task[p].op, gen |-> task[p].gen])
  BY GotoIs
<1> QED
  BY <1>1 DEF Becomes

LEMMA IdleTaskType == IdleTask \in Task
BY DEF IdleTask, Task, Points, Ops

LEMMA SetIs ==
  ASSUME TypeOK, NEW p \in Tasks, NEW t \in Task, task' = [task EXCEPT ![p] = t]
  PROVE  task' \in [Tasks -> Task] /\ Becomes(p, t)
<1>1. task \in [Tasks -> Task]
  BY DEF TypeOK, Task
<1> QED
  BY <1>1 DEF Becomes

LEMMA SetPcOpIs ==
  ASSUME TypeOK, NEW p \in Tasks, NEW c \in Points, NEW o \in Ops,
         task' = [task EXCEPT ![p].pc = c, ![p].op = o]
  PROVE  task' \in [Tasks -> Task] /\ Becomes(p, [pc |-> c, op |-> o, gen |-> task[p].gen])
<1>1. task \in [Tasks -> Task]
  BY DEF TypeOK, Task
<1>2. PICK u \in [Tasks -> Task] : /\ u = [task EXCEPT ![p].pc = c]
                                   /\ task' = [u EXCEPT ![p].op = o]
  BY <1>1 DEF Task
<1>3. u[p] = [pc |-> c, op |-> task[p].op, gen |-> task[p].gen]
  BY <1>1, <1>2 DEF Task
<1>4. task'[p] = [pc |-> c, op |-> o, gen |-> task[p].gen]
  BY <1>2, <1>3
<1>5. task'[p] \in Task
  BY <1>1, <1>4 DEF Task
<1> QED
  BY <1>2, <1>4, <1>5 DEF Becomes

LEMMA SetPcGenIs ==
  ASSUME TypeOK, NEW p \in Tasks, NEW c \in Points, NEW g \in Gens \cup {0},
         task' = [task EXCEPT ![p].pc = c, ![p].gen = g]
  PROVE  task' \in [Tasks -> Task] /\ Becomes(p, [pc |-> c, op |-> task[p].op, gen |-> g])
<1>1. task \in [Tasks -> Task]
  BY DEF TypeOK, Task
<1>2. PICK u \in [Tasks -> Task] : /\ u = [task EXCEPT ![p].pc = c]
                                   /\ task' = [u EXCEPT ![p].gen = g]
  BY <1>1 DEF Task
<1>3. u[p] = [pc |-> c, op |-> task[p].op, gen |-> task[p].gen]
  BY <1>1, <1>2 DEF Task
<1>4. task'[p] = [pc |-> c, op |-> task[p].op, gen |-> g]
  BY <1>2, <1>3
<1>5. task'[p] \in Task
  BY <1>1, <1>4 DEF Task
<1> QED
  BY <1>2, <1>4, <1>5 DEF Becomes

LEMMA ReportOverType ==
  ASSUME TypeOK, NEW p \in Tasks
  PROVE  /\ ReportOver(p) \in Task
         /\ ReportOver(p).gen \in {0, task[p].gen}
         /\ p \in Lifecycle => ReportOver(p).pc = "completeFailed"
         /\ p \notin Lifecycle => ReportOver(p).pc = "idle"
<1>1. task \in [Tasks -> Task]
  BY DEF TypeOK, Task
<1> QED
  BY <1>1, IdleTaskType DEF ReportOver, Task, Points, IdleTask

\* The requests that may still spawn are finitely many.
LEMMA PendingFinite ==
  /\ IsFiniteSet(Pending) /\ Cardinality(Pending) \in Nat
  /\ IsFiniteSet(Pending') /\ Cardinality(Pending') \in Nat
<1>1. Pending \subseteq Lifecycle /\ Pending' \subseteq Lifecycle
  BY DEF Pending
<1> QED
  BY <1>1, SupervisionAssumptions, FS_Subset, FS_CardinalityType

LEMMA PendingShrinks ==
  ASSUME SupervisionInv, next' = next, Pending' \subseteq Pending
  PROVE  BoundInv'
<1>1. Cardinality(Pending') <= Cardinality(Pending)
  BY PendingFinite, FS_Subset
<1> QED
  BY <1>1, PendingFinite, SupervisionAssumptions DEF BoundInv, SupervisionInv, TypeOK

\* Requests are not touched, or p's needs no process.
LEMMA PendingKept ==
  ASSUME SupervisionInv, next' = next, NEW p \in Tasks,
         \A q \in Lifecycle \ {p} : task'[q] = task[q],
         p \in Lifecycle => ~MaySpawn(task[p])' \/ MaySpawn(task[p])
  PROVE  BoundInv'
<1>1. Pending' \subseteq Pending
  BY DEF Pending
<1> QED
  BY <1>1, PendingShrinks

-----------------------------------------------------------------------------
(* Steps that only move a task to a place without obligations.             *)

Plain == {"idle", "loading", "starting", "stopping", "stop", "stopped", "remove", "restarting",
          "spawn", "startFailed", "completeFailed"}

\* The registered process stays, or is taken out while no other task holds the
\* transition; other processes may end.
Releases(p) ==
  /\ \/ handle' = handle
     \/ handle' = 0 /\ \A q \in Tasks \ {p} : task[q].pc \notin Holding
  /\ alive' \subseteq alive
  /\ handle' # 0 /\ handle' \in alive => handle' \in alive'

LEMMA Retires ==
  ASSUME SupervisionInv, NEW p \in Tasks, NEW t \in Task, Becomes(p, t),
         t.pc \in Plain, p \notin Lifecycle => t.pc = "idle", t.gen \in {0, task[p].gen},
         \A g \in Gens : g = handle' => p # Watcher(g),
         UNCHANGED <<lost, losses, next, current, broken, served>>,
         transition' = transition \/ task[p].pc \in Holding,
         Releases(p)
  PROVE  PlacesInv' /\ LossInv' /\ NextInv' /\ FreshInv' /\ HandleInv'
<1> USE DEF SupervisionInv
<1>1. PlacesInv'
  <2>1. \A q \in Lifecycle : task'[q].pc \notin {"called", "pump"}
    BY DEF PlacesInv, Becomes, Plain, Tasks
  <2>2. \A q \in Callers : task'[q].pc \in Reporting \cup {"idle", "called"}
    BY SupervisionAssumptions DEF PlacesInv, Becomes, Plain, Tasks
  <2>3. ASSUME NEW g \in Gens
        PROVE  /\ task'[Watcher(g)].pc \in Reporting \cup {"idle", "pump"}
               /\ task'[Watcher(g)].pc # "idle" => task'[Watcher(g)].gen = g
               /\ task'[Retry(g)].pc \in Driving \cup {"idle", "drive"}
               /\ task'[Retry(g)].pc # "idle" => task'[Retry(g)].gen = g
    BY TaskNames DEF PlacesInv, Becomes
  <2>4. \A q \in Tasks : task'[q].pc \in WithGeneration => task'[q].gen \in Gens
    BY DEF PlacesInv, Becomes, Plain, WithGeneration, Reporting
  <2> QED
    BY <2>1, <2>2, <2>3, <2>4 DEF PlacesInv
<1>2. LossInv'
  BY DEF LossInv, Becomes, Plain, At, Driving, Holding
<1>3. NextInv'
  BY DEF NextInv, Becomes, TypeOK, Releases
<1>4. FreshInv'
  BY NoGeneration DEF FreshInv, Becomes, Plain, At, PlacesInv, WithGeneration, Releases
<1>5. HandleInv'
  <2>1. CASE handle' = handle
    BY <2>1, TaskNames DEF HandleInv, Becomes, Plain, At, TypeOK, Releases
  <2>2. CASE handle' = 0 /\ \A q \in Tasks \ {p} : task[q].pc \notin Holding
    BY <2>2, NoGeneration
       DEF HandleInv, Becomes, Plain, At, Holding, PlacesInv, WithGeneration, Reporting
  <2> QED
    BY <2>1, <2>2 DEF Releases
<1> QED
  BY <1>1, <1>2, <1>3, <1>4, <1>5

-----------------------------------------------------------------------------
(* The requests up to the start of a process.                              *)

\* A request moves on to a place without obligations.
RequestMoves(p) ==
  \E t \in Task : Becomes(p, t) /\ t.pc \in Plain /\ t.gen \in {0, task[p].gen}

LEMMA RequestReleases ==
  ASSUME SupervisionInv, TypeOK', BoundInv', NEW p \in Lifecycle, RequestMoves(p),
         UNCHANGED <<lost, losses, next, current, broken, served>>,
         transition' = transition \/ task[p].pc \in Holding,
         Releases(p)
  PROVE  SupervisionInv'
<1>1. p \in Tasks
  BY DEF Tasks
<1>2. \A g \in Gens : p # Watcher(g)
  BY TaskNames
<1>3. PICK t \in Task : Becomes(p, t) /\ t.pc \in Plain /\ t.gen \in {0, task[p].gen}
  BY DEF RequestMoves
<1> QED
  BY <1>1, <1>2, <1>3, Retires DEF SupervisionInv

LEMMA RequestRetires ==
  ASSUME SupervisionInv, TypeOK', BoundInv', NEW p \in Lifecycle, RequestMoves(p),
         UNCHANGED <<handle, alive, lost, losses, next, current, broken, served, transition>>
  PROVE  SupervisionInv'
BY RequestReleases DEF Releases

LEMMA SetStateType ==
  ASSUME TypeOK, NEW s \in States, SetState(s)
  PROVE  state' \in States /\ failed' \in BOOLEAN /\ leases' = leases
BY DEF TypeOK, SetState, States

LEMMA FaultType ==
  ASSUME TypeOK, Fault \/ NoFault
  PROVE  faults' \in 0..MaxFaults
BY SupervisionAssumptions DEF TypeOK, Fault, NoFault

LEMMA RequestGoes ==
  ASSUME TypeOK, NEW p \in Lifecycle, NEW c \in Plain, Goto(p, c)
  PROVE  RequestMoves(p) /\ task' \in [Tasks -> Task] /\ task'[p].pc = c
         /\ task'[p].op = task[p].op /\ \A q \in Lifecycle \ {p} : task'[q] = task[q]
<1>1. p \in Tasks /\ c \in Points
  BY DEF Tasks, Plain, Points
<1>2. task \in [Tasks -> Task]
  BY DEF TypeOK, Task
<1>3. [pc |-> c, op |-> task[p].op, gen |-> task[p].gen] \in Task
  BY <1>1, <1>2 DEF Task
<1> QED
  BY <1>1, <1>3, GotoIs DEF RequestMoves, Becomes, Tasks

LEMMA RequestDone ==
  ASSUME TypeOK, NEW p \in Lifecycle, Done(p)
  PROVE  RequestMoves(p) /\ task' \in [Tasks -> Task] /\ task'[p].pc = "idle"
         /\ \A q \in Lifecycle \ {p} : task'[q] = task[q]
<1>1. p \in Tasks
  BY DEF Tasks
<1> QED
  BY <1>1, IdleTaskType, SetIs DEF Done, RequestMoves, Becomes, IdleTask, Plain, Tasks

LEMMA LoadingInv ==
  ASSUME SupervisionInv, NEW p \in Lifecycle, Loading(p)
  PROVE  SupervisionInv'
<1> USE DEF SupervisionInv
<1>1. /\ RequestMoves(p) /\ task' \in [Tasks -> Task]
      /\ \A q \in Lifecycle \ {p} : task'[q] = task[q]
  BY RequestDone, RequestGoes DEF Loading, Plain
<1>2. /\ UNCHANGED <<handle, alive, lost, losses, next, current, broken, served, transition,
                     degraded, notified>>
      /\ state' \in States /\ failed' \in BOOLEAN /\ leases' = leases
  BY SetStateType DEF Loading, processes, reports, registry, TypeOK, States
<1>3. TypeOK'
  BY <1>1, <1>2, FaultType DEF TypeOK, Loading, Task
<1>4. BoundInv'
  BY <1>1, <1>2, PendingKept DEF Tasks, MaySpawn, Loading, At
<1> QED
  BY <1>1, <1>2, <1>3, <1>4, RequestRetires

LEMMA StartingInv ==
  ASSUME SupervisionInv, NEW p \in Lifecycle, Starting(p)
  PROVE  SupervisionInv'
<1> USE DEF SupervisionInv
<1>1. /\ RequestMoves(p) /\ task' \in [Tasks -> Task]
      /\ \A q \in Lifecycle \ {p} : task'[q] = task[q]
  BY RequestDone, RequestGoes DEF Starting, Plain
<1>2. UNCHANGED <<handle, alive, lost, losses, next, current, broken, served, transition,
                  degraded, notified, state, failed, leases>>
  BY DEF Starting, processes, reports, registry
<1>3. TypeOK'
  BY <1>1, <1>2, FaultType DEF TypeOK, Starting, Task
<1>4. BoundInv'
  BY <1>1, <1>2, PendingKept DEF Tasks, MaySpawn, Starting, At
<1> QED
  BY <1>1, <1>2, <1>3, <1>4, RequestRetires

LEMMA StoppedInv ==
  ASSUME SupervisionInv, NEW p \in Lifecycle, Stopped(p)
  PROVE  SupervisionInv'
<1> USE DEF SupervisionInv
<1>1. /\ RequestMoves(p) /\ task' \in [Tasks -> Task]
      /\ \A q \in Lifecycle \ {p} : task'[q] = task[q]
      /\ task'[p].pc \in {"idle", "remove"}
  BY RequestDone, RequestGoes DEF Stopped, Plain
<1>2. UNCHANGED <<handle, alive, lost, losses, next, current, broken, served, transition,
                  degraded, notified, state, failed, leases>>
  BY DEF Stopped, processes, reports, registry
<1>3. TypeOK'
  BY <1>1, <1>2, FaultType DEF TypeOK, Stopped, Task
<1>4. BoundInv'
  BY <1>1, <1>2, PendingKept DEF Tasks, MaySpawn
<1> QED
  BY <1>1, <1>2, <1>3, <1>4, RequestRetires

LEMMA RemoveInv ==
  ASSUME SupervisionInv, NEW p \in Lifecycle, Remove(p)
  PROVE  SupervisionInv'
<1> USE DEF SupervisionInv
<1>1. /\ RequestMoves(p) /\ task' \in [Tasks -> Task]
      /\ \A q \in Lifecycle \ {p} : task'[q] = task[q]
      /\ task'[p].pc = "idle"
  BY RequestDone DEF Remove
<1>2. /\ UNCHANGED <<handle, alive, lost, losses, next, current, broken, served, transition,
                     degraded, notified, failed, leases, faults>>
      /\ state' \in States
  BY DEF Remove, processes, reports, TypeOK, States
<1>3. TypeOK'
  BY <1>1, <1>2 DEF TypeOK, Task
<1>4. BoundInv'
  BY <1>1, <1>2, PendingKept DEF Tasks, MaySpawn
<1> QED
  BY <1>1, <1>2, <1>3, <1>4, RequestRetires

LEMMA RestartingInv ==
  ASSUME SupervisionInv, NEW p \in Lifecycle, Restarting(p)
  PROVE  SupervisionInv'
<1> USE DEF SupervisionInv
<1>1. /\ RequestMoves(p) /\ task' \in [Tasks -> Task]
      /\ \A q \in Lifecycle \ {p} : task'[q] = task[q]
  BY RequestDone, RequestGoes DEF Restarting, Plain
<1>2. /\ UNCHANGED <<handle, alive, lost, losses, next, current, broken, served, transition,
                     degraded, notified>>
      /\ state' \in States /\ failed' \in BOOLEAN /\ leases' = leases
  BY SetStateType DEF Restarting, processes, reports, registry, TypeOK, States
<1>3. TypeOK'
  BY <1>1, <1>2, FaultType DEF TypeOK, Restarting, Task
<1>4. BoundInv'
  BY <1>1, <1>2, PendingKept DEF Tasks, MaySpawn, Restarting, At
<1> QED
  BY <1>1, <1>2, <1>3, <1>4, RequestRetires

LEMMA StartFailedInv ==
  ASSUME SupervisionInv, NEW p \in Lifecycle, StartFailed(p)
  PROVE  SupervisionInv'
<1> USE DEF SupervisionInv
<1>1. /\ RequestMoves(p) /\ task' \in [Tasks -> Task]
      /\ \A q \in Lifecycle \ {p} : task'[q] = task[q]
      /\ task'[p].pc = "idle"
  BY RequestDone DEF StartFailed
<1>2. /\ UNCHANGED <<handle, alive, lost, losses, next, current, broken, served, transition,
                     notified>>
      /\ state' \in States /\ failed' \in BOOLEAN /\ leases' = leases
      /\ degraded' \in [Gens -> Nat]
  <2>1. /\ UNCHANGED <<handle, alive, lost, losses, next, current, broken, served, transition,
                       notified>>
        /\ state' \in States /\ leases' = leases
    BY DEF StartFailed, processes, registry, TypeOK, States
  <2>2. failed' \in BOOLEAN
    BY DEF StartFailed, registry, TypeOK
  <2>3. degraded' \in [Gens -> Nat]
    BY DEF StartFailed, TypeOK
  <2> QED
    BY <2>1, <2>2, <2>3
<1>3. TypeOK'
  BY <1>1, <1>2, FaultType DEF TypeOK, StartFailed, Task
<1>4. BoundInv'
  BY <1>1, <1>2, PendingKept DEF Tasks, MaySpawn
<1> QED
  BY <1>1, <1>2, <1>3, <1>4, RequestRetires

LEMMA StoppingInv ==
  ASSUME SupervisionInv, NEW p \in Lifecycle, Stopping(p)
  PROVE  SupervisionInv'
<1> USE DEF SupervisionInv
<1>1. p \in Tasks /\ task \in [Tasks -> Task]
  BY DEF Tasks, TypeOK, Task
<1>2. /\ RequestMoves(p) /\ task' \in [Tasks -> Task]
      /\ \A q \in Lifecycle \ {p} : task'[q] = task[q]
      /\ task'[p].op = "restart" => task[p].op = "restart" /\ task[p].pc = "stopping"
      /\ task'[p].pc \in {"idle", "stop"}
  <2>1. CASE Done(p)
    BY <2>1, RequestDone, <1>1 DEF Done, IdleTask
  <2>2. CASE Goto(p, "stop")
    BY <2>2, RequestGoes DEF Plain, Stopping, At
  <2>3. CASE task' = [task EXCEPT ![p].pc = "stop", ![p].op = "none"]
    <3>1. [pc |-> "stop", op |-> "none", gen |-> task[p].gen] \in Task
      BY <1>1 DEF Task, Points, Ops
    <3>2. /\ task' \in [Tasks -> Task]
          /\ Becomes(p, [pc |-> "stop", op |-> "none", gen |-> task[p].gen])
      BY <2>3, <1>1, SetPcOpIs DEF Points, Ops
    <3> QED
      BY <3>1, <3>2 DEF RequestMoves, Becomes, Plain, Tasks
  <2> QED
    BY <2>1, <2>2, <2>3 DEF Stopping
<1>3. UNCHANGED <<handle, alive, lost, losses, next, current, broken, served, transition,
                  degraded, notified, state, failed, leases>>
  BY DEF Stopping, processes, reports, registry
<1>4. TypeOK'
  BY <1>2, <1>3, FaultType DEF TypeOK, Stopping, Task
<1>5. BoundInv'
  BY <1>1, <1>2, <1>3, PendingKept DEF MaySpawn
<1> QED
  BY <1>2, <1>3, <1>4, <1>5, RequestRetires

LEMMA BeginInv ==
  ASSUME SupervisionInv, NEW p \in Lifecycle, NEW op \in Ops \ {"none"}, Begin(p, op)
  PROVE  SupervisionInv'
<1> USE DEF SupervisionInv
<1>1. p \in Tasks /\ task \in [Tasks -> Task]
  BY DEF Tasks, TypeOK, Task
<1> DEFINE t == [pc |-> IF op = "load" THEN "loading" ELSE "stopping", op |-> op, gen |-> 0]
<1>2. t \in Task /\ t.pc \in Plain /\ t.gen = 0 /\ t.op = op
  BY DEF Task, Points, Plain
<1>3. task' \in [Tasks -> Task] /\ Becomes(p, t)
  BY <1>1, <1>2, SetIs DEF Begin
<1>4. /\ UNCHANGED <<handle, alive, lost, losses, next, current, broken, served, transition,
                     degraded, notified, leases, faults>>
      /\ state' \in States
  BY DEF Begin, processes, reports, TypeOK, States
<1>5. failed' \in BOOLEAN
  BY DEF Begin, TypeOK
<1>6. TypeOK'
  BY <1>3, <1>4, <1>5 DEF TypeOK, Task
<1> HIDE DEF t
<1>7. BoundInv'
  <2>1. CASE op = "unload"
    BY <2>1, <1>1, <1>3, <1>4, PendingKept DEF MaySpawn, Becomes, Tasks, t
  <2>2. CASE op # "unload"
    <3> DEFINE Busy == {q \in Lifecycle : ~At(q, "idle")}
    <3>1. next + Cardinality(Busy) <= MaxGenerations
      BY <2>2 DEF Begin, GenerationLeft
    <3>2. IsFiniteSet(Busy) /\ IsFiniteSet(Busy \cup {p}) /\ p \notin Busy
      BY SupervisionAssumptions, FS_Subset, FS_AddElement DEF Begin, At
    <3>3. Cardinality(Busy \cup {p}) = Cardinality(Busy) + 1
      BY <3>2, FS_AddElement
    <3>4. Pending' \subseteq Busy \cup {p}
      BY <1>3 DEF Pending, MaySpawn, Becomes, At, Tasks
    <3>5. Cardinality(Pending') <= Cardinality(Busy) + 1
      BY <3>2, <3>3, <3>4, FS_Subset
    <3>6. Cardinality(Busy) \in Nat
      BY <3>2, FS_CardinalityType
    <3> QED
      BY <1>4, <3>1, <3>5, <3>6, PendingFinite, SupervisionAssumptions DEF BoundInv, TypeOK
  <2> QED
    BY <2>1, <2>2
<1>8. RequestMoves(p)
  BY <1>2, <1>3 DEF RequestMoves
<1> QED
  BY <1>4, <1>6, <1>7, <1>8, RequestRetires

LEMMA StopInv ==
  ASSUME SupervisionInv, NEW p \in Lifecycle, Stop(p)
  PROVE  SupervisionInv'
<1> USE DEF SupervisionInv
<1>1. /\ RequestMoves(p) /\ task' \in [Tasks -> Task]
      /\ \A q \in Lifecycle \ {p} : task'[q] = task[q]
      /\ task'[p].pc \in {"stopped", "remove", "restarting", "idle"}
      /\ task'[p].pc = "restarting" => task[p].op = "restart"
  <2>1. CASE Done(p)
    BY <2>1, RequestDone
  <2>2. CASE task[p].op = "unload" /\ Goto(p, IF state = "none" THEN "remove" ELSE "stopped")
    BY <2>2, RequestGoes DEF Plain
  <2>3. CASE task[p].op = "restart" /\ Goto(p, "restarting")
    BY <2>3, RequestGoes DEF Plain
  <2> QED
    BY <2>1, <2>2, <2>3 DEF Stop
<1>2. /\ UNCHANGED <<lost, losses, next, current, broken, served, transition, degraded,
                     notified, faults>>
      /\ handle' = 0 /\ alive' = alive \ {handle} /\ transition = None
      /\ state' \in States /\ failed' \in BOOLEAN /\ leases' = leases
  BY SetStateType DEF Stop, reports, registry, TypeOK, States
<1>3. TypeOK'
  BY <1>1, <1>2 DEF TypeOK, Task
<1>4. BoundInv'
  BY <1>1, <1>2, PendingKept DEF Tasks, MaySpawn, Stop, At
<1>5. Releases(p)
  BY <1>2, SupervisionAssumptions DEF Releases, LossInv
<1> QED
  BY <1>1, <1>2, <1>3, <1>4, <1>5, RequestReleases

-----------------------------------------------------------------------------
(* The start of a process.                                                 *)

LEMMA SpawnInv ==
  ASSUME SupervisionInv, NEW p \in Lifecycle, Spawn(p)
  PROVE  SupervisionInv'
<1> USE DEF SupervisionInv
<1>1. p \in Tasks /\ task \in [Tasks -> Task]
  BY DEF Tasks, TypeOK, Task
<1>2. /\ UNCHANGED <<handle, lost, losses, current, broken, served, transition, degraded,
                     notified, state, failed, leases>>
      /\ At(p, "spawn")
  BY DEF Spawn, reports, registry
<1>3. CASE /\ next' = next + 1 /\ alive' = alive \cup {next} /\ NoFault
           /\ task' = [task EXCEPT ![p].pc = "register", ![p].gen = next]
  <2>1. p \in Pending
    BY <1>2 DEF Pending, MaySpawn, At
  <2>2. Cardinality(Pending \ {p}) = Cardinality(Pending) - 1 /\ IsFiniteSet(Pending \ {p})
    BY <2>1, PendingFinite, FS_RemoveElement
  <2>3. Cardinality(Pending \ {p}) \in Nat
    BY <2>2, FS_CardinalityType
  <2>4. next \in Gens /\ next \in Nat
    BY <2>2, <2>3, PendingFinite, SupervisionAssumptions DEF BoundInv, TypeOK, Gens
  <2>5. /\ task' \in [Tasks -> Task]
        /\ Becomes(p, [pc |-> "register", op |-> task[p].op, gen |-> next])
    BY <1>1, <1>3, <2>4, SetPcGenIs DEF Points
  <2>6. TypeOK'
    <3>1. next' \in 1..(MaxGenerations + 1)
      BY <1>3, <2>4, SupervisionAssumptions DEF Gens
    <3>2. alive' \subseteq Gens
      BY <1>3, <2>4 DEF TypeOK
    <3> QED
      BY <1>2, <1>3, <2>5, <3>1, <3>2 DEF TypeOK, Task, NoFault
  <2>7. BoundInv'
    <3>1. Pending' \subseteq Pending \ {p}
      BY <2>5 DEF Pending, MaySpawn, Becomes, Tasks
    <3>2. Cardinality(Pending') <= Cardinality(Pending) - 1
      BY <3>1, <2>2, FS_Subset
    <3> QED
      BY <3>2, <1>3, <2>4, PendingFinite, SupervisionAssumptions DEF BoundInv
  <2>8. PlacesInv'
    <3>1. \A q \in Lifecycle : task'[q].pc \notin {"called", "pump"}
      BY <2>5 DEF PlacesInv, Becomes, Tasks
    <3>2. \A q \in Callers : task'[q] = task[q]
      BY <2>5, SupervisionAssumptions DEF Becomes, Tasks
    <3>3. \A g \in Gens : /\ task'[Watcher(g)] = task[Watcher(g)]
                          /\ task'[Retry(g)] = task[Retry(g)]
      BY <2>5, TaskNames DEF Becomes
    <3>4. \A q \in Tasks : task'[q].pc \in WithGeneration => task'[q].gen \in Gens
      BY <2>4, <2>5 DEF PlacesInv, Becomes
    <3> QED
      BY <3>1, <3>2, <3>3, <3>4 DEF PlacesInv
  <2>9. LossInv'
    BY <1>2, <2>5 DEF LossInv, Becomes, At, Driving, Holding
  <2>10. NextInv'
    BY SMTT(30), <1>2, <1>3, <2>4, <2>5, SupervisionAssumptions DEF NextInv, Becomes, TypeOK, Task, Gens
  <2>11. FreshInv'
    <3>1. \A q \in Tasks : task[q].gen # next
      BY <2>4, <1>1 DEF NextInv
    <3>2. next \notin lost /\ next # handle /\ losses[next] = None
      BY <2>4 DEF NextInv
    <3> QED
      BY <1>2, <2>5, <3>1, <3>2 DEF FreshInv, Becomes, At
  <2>12. HandleInv'
    BY <1>2, <1>3, <2>5, TaskNames DEF HandleInv, Becomes, At, TypeOK
  <2> QED
    BY <2>6, <2>7, <2>8, <2>9, <2>10, <2>11, <2>12
<1>4. CASE Fault /\ Goto(p, "startFailed") /\ UNCHANGED <<next, alive>>
  <2>1. /\ RequestMoves(p) /\ task' \in [Tasks -> Task]
        /\ \A q \in Lifecycle \ {p} : task'[q] = task[q]
        /\ task'[p].pc = "startFailed"
    BY <1>4, RequestGoes DEF Plain
  <2>2. TypeOK'
    BY <1>2, <1>4, <2>1, FaultType DEF TypeOK, Task
  <2>3. BoundInv'
    BY <1>1, <1>4, <2>1, PendingKept DEF MaySpawn
  <2> QED
    BY <1>2, <1>4, <2>1, <2>2, <2>3, RequestRetires
<1> QED
  BY <1>3, <1>4 DEF Spawn

LEMMA RegisterInv ==
  ASSUME SupervisionInv, NEW p \in Lifecycle, Register(p)
  PROVE  SupervisionInv'
<1> USE DEF SupervisionInv
<1> DEFINE g == task[p].gen
<1>1. p \in Tasks /\ task \in [Tasks -> Task] /\ At(p, "register")
  BY DEF Tasks, TypeOK, Task, Register
<1>2. UNCHANGED <<lost, losses, next, current, broken, served, transition, degraded,
                  notified, state, failed, leases>>
  BY DEF Register, reports, registry
<1>3. g \in Gens
  BY <1>1 DEF PlacesInv, WithGeneration, At
<1>4. /\ g \notin lost /\ g # handle /\ losses[g] = None
      /\ \A q \in Tasks \ {p} : task[q].gen # g
  BY <1>1 DEF FreshInv
<1>5. CASE /\ handle = 0 /\ g \in alive /\ NoFault /\ handle' = g /\ UNCHANGED alive
           /\ task' = [task EXCEPT ![p].pc = "complete",
                         ![Watcher(g)] = [pc |-> "pump", op |-> "none", gen |-> g]]
  <2> HIDE DEF g
  <2>1. Watcher(g) \in Tasks /\ Watcher(g) # p
    BY <1>3, TaskNames
  <2>2. /\ task' \in [Tasks -> Task]
        /\ task'[p] = [pc |-> "complete", op |-> task[p].op, gen |-> g]
        /\ task'[Watcher(g)] = [pc |-> "pump", op |-> "none", gen |-> g]
        /\ \A q \in Tasks \ {p, Watcher(g)} : task'[q] = task[q]
    <3> DEFINE t == [pc |-> "pump", op |-> "none", gen |-> g]
    <3>1. t \in Task
      BY <1>3 DEF Task, Points, Ops
    <3>2. task' = [task EXCEPT ![p].pc = "complete", ![Watcher(g)] = t]
      BY <1>5
    <3> HIDE DEF t
    <3>3. PICK u \in [Tasks -> Task] : /\ u = [task EXCEPT ![p].pc = "complete"]
                                       /\ task' = [u EXCEPT ![Watcher(g)] = t]
      BY <1>1, <3>2 DEF Task, Points
    <3>4. u[p] = [pc |-> "complete", op |-> task[p].op, gen |-> g]
      BY <1>1, <3>3 DEF Task, g
    <3>5. \A q \in Tasks \ {p} : u[q] = task[q]
      BY <1>1, <3>3
    <3> QED
      BY <2>1, <3>1, <3>3, <3>4, <3>5 DEF t
  <2>3. TypeOK'
    BY <1>2, <1>3, <1>5, <2>2 DEF TypeOK, Task, NoFault
  <2>4. BoundInv'
    BY <1>1, <1>2, <1>3, <2>2, PendingKept, TaskNames DEF MaySpawn, Tasks
  <2>5. PlacesInv'
    <3>1. \A q \in Lifecycle : task'[q].pc \notin {"called", "pump"}
      BY <1>3, <2>2, TaskNames DEF PlacesInv, Tasks
    <3>2. \A q \in Callers : task'[q] = task[q]
      BY <1>3, <2>2, SupervisionAssumptions, TaskNames DEF Tasks
    <3>3. ASSUME NEW h \in Gens
          PROVE  /\ h # g => task'[Watcher(h)] = task[Watcher(h)]
                 /\ task'[Retry(h)] = task[Retry(h)]
      BY <1>3, <2>2, TaskNames
    <3>4. \A q \in Tasks : task'[q].pc \in WithGeneration => task'[q].gen \in Gens
      BY <1>3, <2>2 DEF PlacesInv
    <3> QED
      BY <2>2, <3>1, <3>2, <3>3, <3>4 DEF PlacesInv
  <2>6. LossInv'
    BY <1>1, <1>2, <2>2 DEF LossInv, At, Driving, Holding
  <2>7. NextInv'
    BY <1>1, <1>2, <1>5, <2>2 DEF NextInv, g
  <2>8. FreshInv'
    <3>1. \A q \in Tasks : At(q, "register")' => q # p /\ q # Watcher(g) /\ At(q, "register")
      BY <2>1, <2>2 DEF At
    <3>2. \A q \in Tasks \ {p} : task[q].gen # g
      BY <1>4
    <3> QED
      BY <1>1, <1>2, <1>5, <2>1, <2>2, <3>1, <3>2 DEF FreshInv
  <2>9. HandleInv'
    <3>1. g # 0 /\ task'[Watcher(g)].pc = "pump" /\ losses'[g] = None
      BY <1>2, <1>3, <1>4, <2>2, NoGeneration
    <3>2. \A q \in Tasks : task'[q].pc \notin {"commit", "recheck"}
      BY <1>1, <1>5, <2>2, NoGeneration DEF HandleInv, PlacesInv, WithGeneration
    <3>3. \A q \in Tasks : At(q, "mark")' \/ At(q, "report")' =>
             task'[q] = task[q] /\ task[q].gen # g
      BY <1>4, <2>2 DEF At
    <3>4. handle' = g /\ handle' \in alive' /\ handle' \notin lost'
      BY <1>2, <1>4, <1>5
    <3>5. \A q \in Tasks : At(q, "mark")' => handle' # task'[q].gen /\ task'[q].gen \in broken'
      BY <1>2, <3>3, <3>4 DEF HandleInv, At
    <3>6. \A q \in Tasks : At(q, "report")' => handle' # task'[q].gen
      BY <3>3, <3>4
    <3> QED
      BY <3>1, <3>2, <3>4, <3>5, <3>6 DEF HandleInv
  <2> QED
    BY <2>3, <2>4, <2>5, <2>6, <2>7, <2>8, <2>9
<1>6. CASE /\ Fault \/ NoFault
           /\ handle' = handle /\ alive' \in {alive, alive \ {g}} /\ Goto(p, "startFailed")
  <2>1. /\ RequestMoves(p) /\ task' \in [Tasks -> Task]
        /\ \A q \in Lifecycle \ {p} : task'[q] = task[q]
        /\ task'[p].pc = "startFailed"
    BY <1>6, RequestGoes DEF Plain
  <2>2. TypeOK'
    BY <1>2, <1>6, <2>1, FaultType DEF TypeOK, Task
  <2>3. BoundInv'
    BY <1>1, <1>2, <2>1, PendingKept DEF MaySpawn
  <2>4. Releases(p)
    BY <1>4, <1>6 DEF Releases
  <2> QED
    BY <1>2, <2>1, <2>2, <2>3, <2>4, RequestReleases
<1> QED
  BY <1>5, <1>6 DEF Register

\* A task of any kind that keeps its generation: what the other tasks need of it.
LEMMA GenerationKept ==
  ASSUME SupervisionInv, NEW p \in Tasks, NEW t \in Task, Becomes(p, t), t.gen = task[p].gen,
         t.gen \in Gens, t.pc \in WithGeneration \ {"called", "pump", "register"},
         t.pc \in Reporting \/ p \in Lifecycle,
         (\E g \in Gens : p = Retry(g)) => t.pc \in Driving \cup {"drive"},
         task[p].pc # "idle"
  PROVE  /\ PlacesInv'
         /\ \A q \in Tasks : At(q, "register")' => q # p /\ At(q, "register")
         /\ \A q \in Tasks : task'[q].gen = task[q].gen
<1> USE DEF SupervisionInv
<1>1. \A q \in Tasks : At(q, "register")' => q # p /\ At(q, "register")
  BY DEF Becomes, At, WithGeneration
<1>2. \A q \in Tasks : task'[q].gen = task[q].gen
  BY DEF Becomes
<1>3. PlacesInv'
  <2>1. \A q \in Lifecycle : task'[q].pc \notin {"called", "pump"}
    BY DEF PlacesInv, Becomes, Tasks
  <2>2. \A q \in Callers : task'[q].pc \in Reporting \cup {"idle", "called"}
    BY SupervisionAssumptions DEF PlacesInv, Becomes, Tasks
  <2>3. ASSUME NEW g \in Gens
        PROVE  /\ task'[Watcher(g)].pc \in Reporting \cup {"idle", "pump"}
               /\ task'[Watcher(g)].pc # "idle" => task'[Watcher(g)].gen = g
    BY TaskNames DEF PlacesInv, Becomes
  <2>4. ASSUME NEW g \in Gens
        PROVE  /\ task'[Retry(g)].pc \in Driving \cup {"idle", "drive"}
               /\ task'[Retry(g)].pc # "idle" => task'[Retry(g)].gen = g
    BY TaskNames DEF PlacesInv, Becomes
  <2>5. \A q \in Tasks : task'[q].pc \in WithGeneration => task'[q].gen \in Gens
    BY DEF PlacesInv, Becomes
  <2> QED
    BY <2>1, <2>2, <2>3, <2>4, <2>5 DEF PlacesInv
<1> QED
  BY <1>1, <1>2, <1>3

\* A task has found a transport dead: it goes on to report it.
LEMMA StartsReport ==
  ASSUME SupervisionInv, NEW p \in Tasks, Goto(p, "report"),
         task[p].pc \in {"complete", "commit", "recheck", "pump", "called"},
         UNCHANGED <<handle, alive, losses, next, current, served>>,
         lost' \in {lost, lost \cup {task[p].gen}},
         broken \subseteq broken', handle = task[p].gen => handle \in broken',
         transition' = transition \/ task[p].pc \in Holding
  PROVE  /\ task' \in [Tasks -> Task]
         /\ PlacesInv' /\ LossInv' /\ BoundInv' /\ NextInv' /\ FreshInv' /\ HandleInv'
<1> USE DEF SupervisionInv
<1> DEFINE t == [pc |-> "report", op |-> task[p].op, gen |-> task[p].gen]
<1>1. task \in [Tasks -> Task]
  BY DEF TypeOK, Task
<1>2. task' \in [Tasks -> Task] /\ Becomes(p, t)
  BY GotoIs DEF Points
<1>3. t \in Task /\ t.pc = "report" /\ t.gen = task[p].gen /\ t.gen \in Gens
  BY <1>1 DEF Task, Points, PlacesInv, WithGeneration
<1>4. \A g \in Gens : p # Retry(g)
  BY DEF PlacesInv, Driving
<1> HIDE DEF t
<1>5. /\ PlacesInv'
      /\ \A q \in Tasks : At(q, "register")' => q # p /\ At(q, "register")
      /\ \A q \in Tasks : task'[q].gen = task[q].gen
  BY <1>2, <1>3, <1>4, GenerationKept DEF WithGeneration, Reporting
<1>6. LossInv'
  BY <1>2, <1>3, <1>5 DEF LossInv, Becomes, At, Driving, Holding
<1>7. NextInv'
  BY <1>1, <1>5 DEF NextInv
<1>8. FreshInv'
  BY <1>5 DEF FreshInv
<1>9. HandleInv'
  <2>1. handle # 0 => /\ task'[Watcher(handle)].pc \in {"pump", "report"}
                      /\ losses[handle] = None
    BY <1>2, <1>3, TaskNames DEF HandleInv, Becomes, TypeOK
  <2>2. \A q \in Tasks : task'[q].pc \in {"commit", "recheck"} => handle = task'[q].gen
    BY <1>2, <1>3 DEF HandleInv, Becomes
  <2>3. \A q \in Tasks : At(q, "mark")' => handle # task'[q].gen /\ task'[q].gen \in broken'
    BY <1>2, <1>3 DEF HandleInv, Becomes, At
  <2>4. handle # 0 /\ (handle \notin alive \/ handle \in lost') => handle \in broken'
    BY DEF HandleInv
  <2>5. \A q \in Tasks : At(q, "report")' /\ handle = task'[q].gen => handle \in broken'
    BY <1>2, <1>3 DEF HandleInv, Becomes, At
  <2> QED
    BY <2>1, <2>2, <2>3, <2>4, <2>5 DEF HandleInv
<1>10. BoundInv'
  BY <1>2, <1>3, PendingKept DEF Becomes, MaySpawn, Tasks
<1> QED
  BY <1>2, <1>5, <1>6, <1>7, <1>8, <1>9, <1>10

\* A task takes lifecycle_transition and the registered process stays.
LEMMA CompleteInv ==
  ASSUME SupervisionInv, NEW p \in Lifecycle, Complete(p)
  PROVE  SupervisionInv'
<1> USE DEF SupervisionInv
<1> DEFINE g == task[p].gen
<1>1. p \in Tasks /\ task \in [Tasks -> Task] /\ At(p, "complete") /\ transition = None
  BY DEF Tasks, TypeOK, Task, Complete
<1>2. UNCHANGED <<handle, alive, losses, next, current, broken, served, degraded, notified,
                  state, failed, leases, faults>>
  BY DEF Complete, reports, registry
<1>3. g \in Gens
  BY <1>1 DEF PlacesInv, WithGeneration, At
<1>4. CASE Goto(p, "completeFailed") /\ UNCHANGED <<transition, lost>>
  <2>1. /\ RequestMoves(p) /\ task' \in [Tasks -> Task]
        /\ \A q \in Lifecycle \ {p} : task'[q] = task[q]
        /\ task'[p].pc = "completeFailed"
    BY <1>4, RequestGoes DEF Plain
  <2>2. TypeOK'
    BY <1>2, <1>4, <2>1 DEF TypeOK, Task
  <2>3. BoundInv'
    BY <1>1, <1>2, <2>1, PendingKept DEF MaySpawn
  <2> QED
    BY <1>2, <1>4, <2>1, <2>2, <2>3, RequestRetires
<1>5. CASE /\ handle = g /\ TransportDead(g)
           /\ lost' = lost \cup {g} /\ Goto(p, "report") /\ UNCHANGED transition
  <2>1. handle \in broken
    BY <1>3, <1>5, NoGeneration DEF HandleInv, TransportDead
  <2>2. /\ task' \in [Tasks -> Task]
        /\ PlacesInv' /\ LossInv' /\ BoundInv' /\ NextInv' /\ FreshInv' /\ HandleInv'
    BY <1>1, <1>2, <1>5, <2>1, StartsReport DEF At
  <2>3. TypeOK'
    BY <1>2, <1>3, <1>5, <2>2 DEF TypeOK, Task
  <2> QED
    BY <2>2, <2>3
<1>6. CASE handle = g /\ transition' = p /\ Goto(p, "commit") /\ UNCHANGED lost
  <2> DEFINE t == [pc |-> "commit", op |-> task[p].op, gen |-> task[p].gen]
  <2>1. task' \in [Tasks -> Task] /\ Becomes(p, t)
    BY <1>1, <1>6, GotoIs DEF Points
  <2>2. t \in Task /\ t.pc = "commit" /\ t.gen = task[p].gen
    BY <1>1 DEF Task, Points
  <2>3. \A h \in Gens : p # Retry(h) /\ p # Watcher(h)
    BY TaskNames
  <2> HIDE DEF t
  <2>4. /\ PlacesInv'
        /\ \A q \in Tasks : At(q, "register")' => q # p /\ At(q, "register")
        /\ \A q \in Tasks : task'[q].gen = task[q].gen
    BY <1>1, <1>3, <2>1, <2>2, <2>3, GenerationKept DEF WithGeneration, Reporting, At
  <2>5. TypeOK'
    BY <1>1, <1>2, <1>6, <2>1 DEF TypeOK, Task
  <2>6. LossInv'
    BY <1>1, <1>2, <1>6, <2>1, <2>2, <2>4, SupervisionAssumptions
       DEF LossInv, Becomes, At, Driving, Holding
  <2>7. BoundInv'
    BY <1>1, <1>2, <2>1, <2>2, PendingKept DEF Becomes, MaySpawn, Tasks
  <2>8. NextInv'
    BY <1>1, <1>2, <1>6, <2>4 DEF NextInv
  <2>9. FreshInv'
    BY <1>2, <1>6, <2>4 DEF FreshInv
  <2>10. HandleInv'
    BY <1>2, <1>6, <2>1, <2>2, <2>3, <2>4, TaskNames DEF HandleInv, Becomes, At, TypeOK
  <2> QED
    BY <2>4, <2>5, <2>6, <2>7, <2>8, <2>9, <2>10
<1> QED
  BY <1>4, <1>5, <1>6 DEF Complete

LEMMA CommitInv ==
  ASSUME SupervisionInv, NEW p \in Lifecycle, Commit(p)
  PROVE  SupervisionInv'
<1> USE DEF SupervisionInv
<1> DEFINE g == task[p].gen
<1>1. p \in Tasks /\ task \in [Tasks -> Task] /\ At(p, "commit")
  BY DEF Tasks, TypeOK, Task, Commit
<1>2. UNCHANGED <<lost, losses, next, broken, served, degraded, notified>>
  BY DEF Commit, reports
<1>3. g \in Gens /\ handle = g /\ transition = p
  BY <1>1 DEF PlacesInv, WithGeneration, At, HandleInv, LossInv, Holding
<1>4. CASE /\ Fault /\ handle' = 0 /\ alive' = alive \ {g} /\ SetState("degraded")
           /\ transition' = None /\ Goto(p, "completeFailed") /\ UNCHANGED current
  <2>1. /\ RequestMoves(p) /\ task' \in [Tasks -> Task]
        /\ \A q \in Lifecycle \ {p} : task'[q] = task[q]
        /\ task'[p].pc = "completeFailed"
    BY <1>4, RequestGoes DEF Plain
  <2>2. TypeOK'
    BY <1>2, <1>4, <2>1, FaultType, SetStateType DEF TypeOK, Task, States
  <2>3. BoundInv'
    BY <1>1, <1>2, <2>1, PendingKept DEF MaySpawn
  <2>4. Releases(p)
    BY <1>3, <1>4 DEF Releases, LossInv
  <2> QED
    BY <1>1, <1>2, <1>4, <2>1, <2>2, <2>3, <2>4, RequestReleases DEF At, Holding
<1>5. CASE /\ NoFault /\ UNCHANGED <<handle, alive, registry, current>>
           /\ Goto(p, "completeFailed") /\ transition' = None
  <2>1. /\ RequestMoves(p) /\ task' \in [Tasks -> Task]
        /\ \A q \in Lifecycle \ {p} : task'[q] = task[q]
        /\ task'[p].pc = "completeFailed"
    BY <1>5, RequestGoes DEF Plain
  <2>2. TypeOK'
    BY <1>2, <1>5, <2>1, FaultType DEF TypeOK, Task, registry
  <2>3. BoundInv'
    BY <1>1, <1>2, <2>1, PendingKept DEF MaySpawn
  <2>4. Releases(p)
    BY <1>5 DEF Releases
  <2> QED
    BY <1>1, <1>2, <1>5, <2>1, <2>2, <2>3, <2>4, RequestReleases DEF At, Holding
<1>6. CASE /\ NoFault /\ UNCHANGED <<handle, alive, registry, current>> /\ g \in lost
           /\ Goto(p, "report") /\ transition' = None
  <2>1. handle \in broken
    BY <1>3, <1>6, NoGeneration DEF HandleInv
  <2>2. /\ task' \in [Tasks -> Task]
        /\ PlacesInv' /\ LossInv' /\ BoundInv' /\ NextInv' /\ FreshInv' /\ HandleInv'
    BY <1>1, <1>2, <1>6, <2>1, StartsReport DEF At, Holding
  <2>3. TypeOK'
    BY <1>2, <1>6, <2>2, FaultType DEF TypeOK, Task, registry
  <2> QED
    BY <2>2, <2>3
<1>7. CASE /\ NoFault /\ UNCHANGED <<handle, alive, transition>> /\ current' = g
           /\ SetState("ready") /\ Goto(p, "recheck")
  <2> DEFINE t == [pc |-> "recheck", op |-> task[p].op, gen |-> task[p].gen]
  <2>1. task' \in [Tasks -> Task] /\ Becomes(p, t)
    BY <1>1, <1>7, GotoIs DEF Points
  <2>2. t \in Task /\ t.pc = "recheck" /\ t.gen = task[p].gen
    BY <1>1 DEF Task, Points
  <2>3. \A h \in Gens : p # Retry(h) /\ p # Watcher(h)
    BY TaskNames
  <2> HIDE DEF t
  <2>4. /\ PlacesInv'
        /\ \A q \in Tasks : At(q, "register")' => q # p /\ At(q, "register")
        /\ \A q \in Tasks : task'[q].gen = task[q].gen
    BY <1>1, <1>3, <2>1, <2>2, <2>3, GenerationKept DEF WithGeneration, Reporting, At
  <2>5. TypeOK'
    BY <1>2, <1>3, <1>7, <2>1, FaultType, SetStateType DEF TypeOK, Task, States
  <2>6. LossInv'
    BY <1>1, <1>2, <1>3, <1>7, <2>1, <2>2, <2>4 DEF LossInv, Becomes, At, Driving, Holding
  <2>7. BoundInv'
    BY <1>1, <1>2, <2>1, <2>2, PendingKept DEF Becomes, MaySpawn, Tasks
  <2>8. NextInv'
    BY <1>1, <1>2, <1>7, <2>4 DEF NextInv
  <2>9. FreshInv'
    BY <1>2, <1>7, <2>4 DEF FreshInv
  <2>10. HandleInv'
    BY <1>2, <1>3, <1>7, <2>1, <2>2, <2>3, <2>4, TaskNames DEF HandleInv, Becomes, At, TypeOK
  <2> QED
    BY <2>4, <2>5, <2>6, <2>7, <2>8, <2>9, <2>10
<1> QED
  BY <1>4, <1>5, <1>6, <1>7 DEF Commit

LEMMA RecheckInv ==
  ASSUME SupervisionInv, NEW p \in Lifecycle, Recheck(p)
  PROVE  SupervisionInv'
<1> USE DEF SupervisionInv
<1> DEFINE g == task[p].gen
<1>1. p \in Tasks /\ task \in [Tasks -> Task] /\ At(p, "recheck") /\ transition' = None
  BY DEF Tasks, TypeOK, Task, Recheck
<1>2. UNCHANGED <<handle, alive, losses, next, current, broken, served, degraded, notified,
                  state, failed, leases, faults>>
  BY DEF Recheck, reports, registry
<1>3. g \in Gens /\ handle = g
  BY <1>1 DEF PlacesInv, WithGeneration, At, HandleInv
<1>4. CASE TransportDead(g) /\ lost' = lost \cup {g} /\ Goto(p, "report")
  <2>1. handle \in broken
    BY <1>3, <1>4, NoGeneration DEF HandleInv, TransportDead
  <2>2. /\ task' \in [Tasks -> Task]
        /\ PlacesInv' /\ LossInv' /\ BoundInv' /\ NextInv' /\ FreshInv' /\ HandleInv'
    BY <1>1, <1>2, <1>4, <2>1, StartsReport DEF At, Holding
  <2>3. TypeOK'
    BY <1>1, <1>2, <1>3, <1>4, <2>2 DEF TypeOK, Task
  <2> QED
    BY <2>2, <2>3
<1>5. CASE Done(p) /\ UNCHANGED lost
  <2>1. /\ RequestMoves(p) /\ task' \in [Tasks -> Task]
        /\ \A q \in Lifecycle \ {p} : task'[q] = task[q]
        /\ task'[p].pc = "idle"
    BY <1>5, RequestDone
  <2>2. TypeOK'
    BY <1>1, <1>2, <1>5, <2>1 DEF TypeOK, Task
  <2>3. BoundInv'
    BY <1>1, <1>2, <2>1, PendingKept DEF MaySpawn
  <2>4. Releases(p)
    BY <1>2 DEF Releases
  <2> QED
    BY <1>1, <1>2, <1>5, <2>1, <2>2, <2>3, <2>4, RequestReleases DEF At, Holding
<1> QED
  BY <1>4, <1>5 DEF Recheck

-----------------------------------------------------------------------------
(* The reports of a loss.                                                  *)

\* Only the loss of g changes, to l.
LossBecomes(g, l) ==
  /\ losses' \in [Gens -> Losses \cup {None}]
  /\ losses'[g] = l
  /\ \A h \in Gens \ {g} : losses'[h] = losses[h]

LEMMA LossSet ==
  ASSUME TypeOK, NEW g \in Gens, NEW l \in Losses \cup {None},
         losses' = [losses EXCEPT ![g] = l]
  PROVE  LossBecomes(g, l)
BY DEF TypeOK, LossBecomes

LEMMA LossProcessing ==
  ASSUME TypeOK, NEW g \in Gens, NEW b \in BOOLEAN, losses[g] # None,
         losses' = [losses EXCEPT ![g].processing = b]
  PROVE  \E l \in Losses : /\ LossBecomes(g, l) /\ l.processing = b
                           /\ l.runs = losses[g].runs /\ l.committed = losses[g].committed
<1>1. losses \in [Gens -> Losses \cup {None}] /\ losses[g] \in Losses
  BY DEF TypeOK
<1>2. [losses[g] EXCEPT !.processing = b] \in Losses
  BY <1>1 DEF Losses
<1>3. LossBecomes(g, [losses[g] EXCEPT !.processing = b])
  BY <1>1, <1>2 DEF LossBecomes
<1> QED
  BY <1>1, <1>2, <1>3 DEF Losses

LEMMA LossCommitted ==
  ASSUME TypeOK, NEW g \in Gens, losses[g] # None, Committed(g)
  PROVE  \E l \in Losses : /\ LossBecomes(g, l) /\ l.processing = losses[g].processing
                           /\ l.runs = losses[g].runs /\ l.committed
<1>1. losses \in [Gens -> Losses \cup {None}] /\ losses[g] \in Losses
  BY DEF TypeOK
<1>2. [losses[g] EXCEPT !.committed = TRUE] \in Losses
  BY <1>1 DEF Losses
<1>3. LossBecomes(g, [losses[g] EXCEPT !.committed = TRUE])
  BY <1>1, <1>2 DEF LossBecomes, Committed
<1> QED
  BY <1>1, <1>2, <1>3 DEF Losses

LEMMA LossRetrying ==
  ASSUME TypeOK, NEW g \in Gens, losses[g] # None,
         losses' = [losses EXCEPT ![g].processing = FALSE, ![g].retrying = TRUE]
  PROVE  \E l \in Losses : /\ LossBecomes(g, l) /\ ~l.processing
                           /\ l.runs = losses[g].runs /\ l.committed = losses[g].committed
<1>1. losses \in [Gens -> Losses \cup {None}] /\ losses[g] \in Losses
  BY DEF TypeOK
<1>2. PICK u \in [Gens -> Losses \cup {None}] :
        /\ u = [losses EXCEPT ![g].processing = FALSE]
        /\ losses' = [u EXCEPT ![g].retrying = TRUE]
  <2>1. [losses EXCEPT ![g].processing = FALSE] \in [Gens -> Losses \cup {None}]
    BY <1>1 DEF Losses
  <2> QED
    BY <2>1
<1>3. /\ u[g] \in Losses /\ u[g].processing = FALSE /\ u[g].runs = losses[g].runs
      /\ u[g].committed = losses[g].committed
      /\ \A h \in Gens \ {g} : u[h] = losses[h]
  BY <1>1, <1>2 DEF Losses
<1>4. [u[g] EXCEPT !.retrying = TRUE] \in Losses
  BY <1>3 DEF Losses
<1>5. LossBecomes(g, [u[g] EXCEPT !.retrying = TRUE])
  BY <1>2, <1>3, <1>4 DEF LossBecomes
<1> QED
  BY <1>3, <1>4, <1>5 DEF Losses

\* A task that is done with its report.
LEMMA ReportOverInv ==
  ASSUME SupervisionInv, TypeOK', NEW p \in Tasks, task[p].pc \in Reporting,
         task' = [task EXCEPT ![p] = ReportOver(p)],
         \A g \in Gens : g = handle' => p # Watcher(g),
         UNCHANGED <<lost, losses, next, current, broken, served>>,
         transition' = transition \/ task[p].pc \in Holding,
         Releases(p)
  PROVE  SupervisionInv'
<1>1. ReportOver(p) \in Task /\ Becomes(p, ReportOver(p))
  BY ReportOverType, SetIs DEF SupervisionInv
<1>2. /\ ReportOver(p).gen \in {0, task[p].gen}
      /\ ReportOver(p).pc \in Plain
      /\ p \notin Lifecycle => ReportOver(p).pc = "idle"
  BY ReportOverType DEF SupervisionInv, Plain
<1>3. PlacesInv' /\ LossInv' /\ NextInv' /\ FreshInv' /\ HandleInv'
  BY <1>1, <1>2, Retires
<1>4. BoundInv'
  BY <1>1, ReportOverType, PendingKept DEF Becomes, MaySpawn, Tasks, SupervisionInv
<1> QED
  BY <1>3, <1>4 DEF SupervisionInv

LEMMA ReportInv ==
  ASSUME SupervisionInv, NEW p \in Tasks, Report(p)
  PROVE  SupervisionInv'
<1> USE DEF SupervisionInv
<1> DEFINE g == task[p].gen
<1>1. task \in [Tasks -> Task] /\ At(p, "report") /\ transition = None
  BY DEF TypeOK, Task, Report
<1>2. UNCHANGED <<alive, losses, next, current, broken, served, degraded, notified,
                  state, failed, leases, faults>>
  BY DEF Report, reports, registry
<1>3. g \in Gens /\ \A h \in Gens : p # Retry(h)
  BY <1>1 DEF PlacesInv, WithGeneration, Reporting, At, Driving
<1>4. \A q \in Tasks : task[q].pc \notin Holding
  BY <1>1, SupervisionAssumptions DEF LossInv
<1>5. CASE /\ losses[g] = None /\ handle = g /\ handle' = 0 /\ lost' = lost \cup {handle}
           /\ transition' = p /\ task' = [task EXCEPT ![p].pc = "mark", ![p].gen = handle]
  <2> DEFINE t == [pc |-> "mark", op |-> task[p].op, gen |-> g]
  <2>0. handle' = 0 /\ lost' = lost \cup {handle}
    BY <1>5
  <2>1. task' \in [Tasks -> Task] /\ Becomes(p, t)
    BY <1>1, <1>3, <1>5, SetPcGenIs DEF Points
  <2>2. t \in Task /\ t.pc = "mark" /\ t.gen = g
    BY <1>1 DEF Task, Points
  <2> HIDE DEF t
  <2>3. /\ PlacesInv'
        /\ \A q \in Tasks : At(q, "register")' => q # p /\ At(q, "register")
        /\ \A q \in Tasks : task'[q].gen = task[q].gen
    BY <1>1, <1>3, <2>1, <2>2, GenerationKept DEF WithGeneration, Reporting, At
  <2>4. TypeOK'
    BY <1>2, <1>3, <1>5, <2>1 DEF TypeOK, Task
  <2>5. LossInv'
    BY <1>1, <1>2, <1>4, <1>5, <2>1, <2>2, <2>3 DEF LossInv, Becomes, At, Driving, Holding
  <2>6. BoundInv'
    BY <1>1, <1>2, <2>1, <2>2, PendingKept DEF Becomes, MaySpawn, Tasks
  <2>7. NextInv'
    BY <1>1, <1>2, <1>5, <2>3 DEF NextInv, TypeOK
  <2>8. FreshInv'
    <3>1. \A q \in Tasks : At(q, "register") => task[q].gen # 0
      BY NoGeneration DEF PlacesInv, WithGeneration, At
    <3>2. SUFFICES ASSUME NEW q \in Tasks, At(q, "register")'
                   PROVE  /\ task'[q].gen \notin lost' /\ task'[q].gen # handle'
                          /\ losses'[task'[q].gen] = None
                          /\ \A r \in Tasks \ {q} : task'[r].gen # task'[q].gen
      BY DEF FreshInv
    <3>3. At(q, "register") /\ task'[q].gen = task[q].gen
      BY <2>3, <3>2
    <3>4. /\ task[q].gen \notin lost /\ task[q].gen # handle /\ losses[task[q].gen] = None
          /\ \A r \in Tasks \ {q} : task[r].gen # task[q].gen
      BY <3>3 DEF FreshInv
    <3> QED
      BY <1>2, <2>0, <2>3, <3>1, <3>3, <3>4
  <2>9. HandleInv'
    <3>1. g \in broken
      BY <1>1, <1>5 DEF HandleInv
    <3>2. \A q \in Tasks : task'[q].pc \notin {"commit", "recheck"}
      BY <1>4, <2>1, <2>2 DEF Becomes, Holding
    <3>3. \A q \in Tasks : At(q, "mark")' => task'[q].gen = g
      BY <1>4, <2>1, <2>2 DEF Becomes, Holding, At
    <3>4. \A q \in Tasks : At(q, "report")' => task'[q].gen # 0
      BY <2>3, NoGeneration DEF PlacesInv, WithGeneration, Reporting, At
    <3>5. \A q \in Tasks : At(q, "mark")' => handle' # task'[q].gen /\ task'[q].gen \in broken'
      BY <1>2, <1>3, <2>0, <3>1, <3>3, NoGeneration
    <3> QED
      BY <2>0, <3>2, <3>4, <3>5 DEF HandleInv
  <2> QED
    BY <2>3, <2>4, <2>5, <2>6, <2>7, <2>8, <2>9
<1>6. CASE /\ ~(losses[g] = None /\ handle = g)
           /\ task' = [task EXCEPT ![p] = ReportOver(p)]
           /\ UNCHANGED <<handle, lost, transition>>
  <2>1. \A h \in Gens : h = handle => p # Watcher(h)
    BY <1>1, <1>6, NoGeneration DEF HandleInv, PlacesInv, At
  <2>2. TypeOK'
    BY <1>2, <1>6, ReportOverType, SetIs DEF TypeOK, Task
  <2> QED
    BY <1>1, <1>2, <1>6, <2>1, <2>2, ReportOverInv DEF Releases, Reporting, At
<1> QED
  BY <1>5, <1>6 DEF Report, SameGeneration

LEMMA MarkInv ==
  ASSUME SupervisionInv, NEW p \in Tasks, Mark(p)
  PROVE  SupervisionInv'
<1> USE DEF SupervisionInv
<1> DEFINE g == task[p].gen
<1>1. /\ task \in [Tasks -> Task] /\ At(p, "mark") /\ alive' = alive \ {g}
      /\ transition' = None
  BY DEF TypeOK, Task, Mark
<1>2. UNCHANGED <<leases, handle, lost, next, degraded, notified, served, current, broken,
                  faults>>
  BY DEF Mark
<1>3. g \in Gens /\ \A h \in Gens : p # Retry(h)
  BY <1>1 DEF PlacesInv, WithGeneration, Reporting, At, Driving
<1>4. \A q \in Tasks \ {p} : task[q].pc \notin Holding
  BY <1>1 DEF LossInv, At, Holding
<1>5. handle # g /\ losses[g] = None /\ \A h \in Gens : h = handle => p # Watcher(h)
  BY <1>1, NoGeneration DEF HandleInv, LossInv, At
<1>6. CASE /\ state' = "degraded" /\ failed' = TRUE /\ Goto(p, "drive")
           /\ losses' = [losses EXCEPT ![g] = [runs |-> leases, committed |-> FALSE,
                                               processing |-> FALSE, retrying |-> FALSE]]
  <2> DEFINE t == [pc |-> "drive", op |-> task[p].op, gen |-> g]
             l == [runs |-> leases, committed |-> FALSE, processing |-> FALSE,
                   retrying |-> FALSE]
  <2>1. task' \in [Tasks -> Task] /\ Becomes(p, t)
    BY <1>1, <1>6, GotoIs DEF Points
  <2>2. t \in Task /\ t.pc = "drive" /\ t.gen = g
    BY <1>1 DEF Task, Points
  <2>3. l \in Losses
    BY DEF Losses, TypeOK
  <2>4. LossBecomes(g, l)
    BY <1>3, <1>6, <2>3, LossSet
  <2> HIDE DEF t, l
  <2>5. /\ PlacesInv'
        /\ \A q \in Tasks : At(q, "register")' => q # p /\ At(q, "register")
        /\ \A q \in Tasks : task'[q].gen = task[q].gen
    BY <1>1, <1>3, <2>1, <2>2, GenerationKept DEF WithGeneration, Reporting, At
  <2>6. TypeOK'
    BY <1>1, <1>2, <1>6, <2>1, <2>4 DEF TypeOK, Task, LossBecomes, States
  <2>7. LossInv'
    <3>1. \A q \in Tasks : task'[q].pc \notin Holding
      BY <1>4, <2>1, <2>2 DEF Becomes, Holding
    <3>2. \A q \in Tasks : task'[q].pc \in Driving =>
            /\ task'[q] = task[q] /\ task[q].gen # g /\ task[q].gen \in Gens
      BY <1>5, <2>1, <2>2 DEF Becomes, LossInv, PlacesInv, WithGeneration, Reporting, Driving
    <3> QED
      BY <2>4, <3>1, <3>2 DEF LossInv, At, LossBecomes, Holding
  <2>8. BoundInv'
    BY <1>1, <1>2, <2>1, <2>2, PendingKept DEF Becomes, MaySpawn, Tasks
  <2>9. NextInv'
    BY <1>1, <1>2, <1>6, <2>4, <2>5 DEF NextInv, LossBecomes
  <2>10. FreshInv'
    <3>1. \A q \in Tasks : At(q, "register") => task[q].gen # g /\ task[q].gen \in Gens
      BY <1>1 DEF FreshInv, At, PlacesInv, WithGeneration
    <3> QED
      BY <1>2, <2>4, <2>5, <3>1 DEF FreshInv, LossBecomes
  <2>11. HandleInv'
    <3>1. handle # 0 => /\ task'[Watcher(handle)].pc \in {"pump", "report"}
                        /\ losses'[handle] = None
      BY <1>5, <2>1, <2>4, TaskNames DEF HandleInv, Becomes, TypeOK, LossBecomes
    <3>2. \A q \in Tasks : task'[q].pc \notin Holding
      BY <1>4, <2>1, <2>2 DEF Becomes, Holding
    <3>3. \A q \in Tasks : At(q, "report")' => At(q, "report") /\ task'[q] = task[q]
      BY <2>1, <2>2 DEF Becomes, At
    <3>4. handle' \in alive' \/ handle \notin alive \/ handle = 0
      BY <1>1, <1>2, <1>5
    <3> QED
      BY <1>2, <3>1, <3>2, <3>3, <3>4 DEF HandleInv, At, Holding
  <2> QED
    BY <2>5, <2>6, <2>7, <2>8, <2>9, <2>10, <2>11
<1>7. CASE task' = [task EXCEPT ![p] = ReportOver(p)] /\ UNCHANGED <<state, failed, losses>>
  <2>1. TypeOK'
    BY <1>1, <1>2, <1>7, ReportOverType, SetIs DEF TypeOK, Task
  <2>2. Releases(p)
    BY <1>1, <1>2, <1>5 DEF Releases
  <2> QED
    BY <1>1, <1>2, <1>5, <1>7, <2>1, <2>2, ReportOverInv DEF Reporting, Holding, At
<1> QED
  BY <1>6, <1>7 DEF Mark

\* The task p, about the loss of g, moves within the report and updates the loss.
LEMMA LossMoves ==
  ASSUME SupervisionInv, TypeOK', NEW p \in Tasks, NEW g \in Gens, g = task[p].gen,
         NEW c \in {"drive", "append", "notify"}, Goto(p, c),
         task[p].pc \in {"drive", "append", "notify"},
         losses[g] # None, NEW l \in Losses, LossBecomes(g, l),
         task[p].pc \in Driving \/ ~losses[g].processing,
         c \in Driving => l.processing,
         UNCHANGED <<handle, alive, lost, transition, next, current, broken, served>>
  PROVE  SupervisionInv'
<1> USE DEF SupervisionInv
<1> DEFINE t == [pc |-> c, op |-> task[p].op, gen |-> g]
<1>1. task \in [Tasks -> Task]
  BY DEF TypeOK, Task
<1>2. Becomes(p, t)
  BY GotoIs DEF Points
<1>3. t \in Task /\ t.pc = c /\ t.gen = g
  BY <1>1 DEF Task, Points
<1> HIDE DEF t
<1>4. /\ PlacesInv'
      /\ \A q \in Tasks : At(q, "register")' => q # p /\ At(q, "register")
      /\ \A q \in Tasks : task'[q].gen = task[q].gen
  BY <1>2, <1>3, GenerationKept DEF WithGeneration, Reporting, Driving
<1>5. l # None
  BY SupervisionAssumptions
<1>6. LossInv'
  <2>1. \A q \in Tasks \ {p} : task[q].pc \in Driving => task[q].gen # g
    BY DEF LossInv
  <2>2. \A q \in Tasks : task'[q].pc \in Holding => q # p /\ task[q].pc \in Holding
    BY <1>2, <1>3 DEF Becomes, Holding
  <2>3. \A q \in Tasks : At(q, "mark")' => At(q, "mark") /\ task[q].gen # g /\ task[q].gen \in Gens
    BY <1>2, <1>3 DEF Becomes, At, LossInv, PlacesInv, WithGeneration, Reporting
  <2>4. \A q \in Tasks : task'[q].pc \in Driving => task[q].gen \in Gens
    BY <1>4 DEF PlacesInv, WithGeneration, Reporting, Driving
  <2>5. \A q \in Tasks : task'[q].pc \in Driving =>
           losses'[task'[q].gen] # None /\ losses'[task'[q].gen].processing
    BY <1>2, <1>3, <1>4, <1>5, <2>1, <2>4 DEF LossInv, LossBecomes, Becomes
  <2>6. \A q, r \in Tasks :
          task'[q].pc \in Driving /\ task'[r].pc \in Driving /\ task'[q].gen = task'[r].gen
            => q = r
    BY <1>2, <1>4, <2>1 DEF LossInv, Becomes
  <2> QED
    BY <1>4, <2>2, <2>3, <2>5, <2>6 DEF LossInv, LossBecomes, At
<1>7. BoundInv'
  BY <1>2, <1>3, PendingKept DEF Becomes, MaySpawn, Tasks
<1>8. NextInv'
  BY <1>1, <1>4 DEF NextInv, LossBecomes
<1>9. FreshInv'
  <2>1. \A q \in Tasks : At(q, "register") => task[q].gen # g /\ task[q].gen \in Gens
    BY DEF FreshInv, At, PlacesInv, WithGeneration
  <2> QED
    BY <1>4, <2>1 DEF FreshInv, LossBecomes
<1>10. HandleInv'
  <2>1. handle # 0 => /\ task'[Watcher(handle)].pc \in {"pump", "report"}
                      /\ losses'[handle] = None
    BY <1>2, TaskNames DEF HandleInv, Becomes, TypeOK, LossBecomes
  <2>2. \A q \in Tasks : task'[q].pc \in {"commit", "recheck", "mark", "report"} =>
           task'[q] = task[q]
    BY <1>2, <1>3 DEF Becomes
  <2> QED
    BY <2>1, <2>2 DEF HandleInv, At
<1> QED
  BY <1>4, <1>6, <1>7, <1>8, <1>9, <1>10

\* The task p is done with the loss of g, which is updated or forgotten.
LEMMA LossEnds ==
  ASSUME SupervisionInv, TypeOK', NEW p \in Tasks, NEW g \in Gens, g = task[p].gen,
         task[p].pc \in Driving, task' = [task EXCEPT ![p] = ReportOver(p)],
         NEW l \in Losses \cup {None}, LossBecomes(g, l),
         UNCHANGED <<handle, alive, lost, transition, next, current, broken, served>>
  PROVE  SupervisionInv'
<1> USE DEF SupervisionInv
<1>1. ReportOver(p) \in Task /\ Becomes(p, ReportOver(p))
  BY ReportOverType, SetIs
<1>2. /\ ReportOver(p).gen \in {0, g}
      /\ ReportOver(p).pc \in {"idle", "completeFailed"}
      /\ p \notin Lifecycle => ReportOver(p).pc = "idle"
  BY ReportOverType
<1>3. losses[g] # None /\ \A q \in Tasks \ {p} : task[q].pc \in Driving => task[q].gen # g
  BY DEF LossInv
<1>4. PlacesInv'
  <2>1. \A q \in Lifecycle : task'[q].pc \notin {"called", "pump"}
    BY <1>1, <1>2 DEF PlacesInv, Becomes, Tasks
  <2>2. \A q \in Callers : task'[q].pc \in Reporting \cup {"idle", "called"}
    BY <1>1, <1>2, SupervisionAssumptions DEF PlacesInv, Becomes, Tasks
  <2>3. ASSUME NEW h \in Gens
        PROVE  /\ task'[Watcher(h)].pc \in Reporting \cup {"idle", "pump"}
               /\ task'[Watcher(h)].pc # "idle" => task'[Watcher(h)].gen = h
               /\ task'[Retry(h)].pc \in Driving \cup {"idle", "drive"}
               /\ task'[Retry(h)].pc # "idle" => task'[Retry(h)].gen = h
    BY <1>1, <1>2, TaskNames DEF PlacesInv, Becomes
  <2>4. \A q \in Tasks : task'[q].pc \in WithGeneration => task'[q].gen \in Gens
    BY <1>1, <1>2 DEF PlacesInv, Becomes, WithGeneration, Reporting
  <2> QED
    BY <2>1, <2>2, <2>3, <2>4 DEF PlacesInv
<1>5. LossInv'
  <2>1. \A q \in Tasks : task'[q].pc \in Holding \cup Driving => q # p /\ task'[q] = task[q]
    BY <1>1, <1>2 DEF Becomes, Holding, Driving
  <2>2. \A q \in Tasks : At(q, "mark")' => At(q, "mark") /\ task[q].gen # g /\ task[q].gen \in Gens
    BY <1>3, <2>1 DEF At, LossInv, PlacesInv, WithGeneration, Reporting, Holding
  <2>3. \A q \in Tasks : task'[q].pc \in Driving => task[q].gen \in Gens \ {g}
    BY <1>3, <2>1 DEF PlacesInv, WithGeneration, Reporting, Driving
  <2> QED
    BY <2>1, <2>2, <2>3 DEF LossInv, LossBecomes, At, Holding
<1>6. BoundInv'
  BY <1>1, <1>2, PendingKept DEF Becomes, MaySpawn, Tasks
<1>7. NextInv'
  BY <1>1, <1>2, <1>3 DEF NextInv, LossBecomes, Becomes, TypeOK
<1>8. FreshInv'
  <2>1. \A q \in Tasks : At(q, "register")' =>
           q # p /\ At(q, "register") /\ task'[q] = task[q] /\ task[q].gen \in Gens \ {g}
    BY <1>1, <1>2, <1>3 DEF FreshInv, At, PlacesInv, WithGeneration, Becomes
  <2>2. \A q \in Tasks : task'[q].gen \in {0, task[q].gen}
    BY <1>1, <1>2 DEF Becomes
  <2> QED
    BY <2>1, <2>2, NoGeneration DEF FreshInv, LossBecomes
<1>9. HandleInv'
  <2>1. handle # 0 => /\ task'[Watcher(handle)].pc \in {"pump", "report"}
                      /\ losses'[handle] = None
    BY <1>1, <1>3, TaskNames DEF HandleInv, Becomes, TypeOK, LossBecomes, Driving
  <2>2. \A q \in Tasks : task'[q].pc \in {"commit", "recheck", "mark", "report"} =>
           task'[q] = task[q]
    BY <1>1, <1>2 DEF Becomes
  <2> QED
    BY <2>1, <2>2 DEF HandleInv, At
<1> QED
  BY <1>4, <1>5, <1>6, <1>7, <1>8, <1>9

\* A drive that failed: the retry task goes on, or is there to go on.
LEMMA DriveFailedInv ==
  ASSUME SupervisionInv, TypeOK', NEW p \in Tasks, NEW g \in Gens, g = task[p].gen,
         task[p].pc \in Driving, DriveFailed(p, g),
         UNCHANGED <<handle, alive, lost, transition, next, current, broken, served>>
  PROVE  SupervisionInv'
<1> USE DEF SupervisionInv
<1>1. task \in [Tasks -> Task]
  BY DEF TypeOK, Task
<1>2. losses[g] # None /\ \A q \in Tasks \ {p} : task[q].pc \in Driving => task[q].gen # g
  BY DEF LossInv
<1>3. CASE p = Retry(g)
  <2>1. losses' = [losses EXCEPT ![g].processing = FALSE] /\ Goto(p, "drive")
    BY <1>3 DEF DriveFailed
  <2>2. PICK l \in Losses : LossBecomes(g, l) /\ l.processing = FALSE
    BY <1>2, <2>1, LossProcessing
  <2> QED
    BY <1>2, <2>1, <2>2, LossMoves DEF Driving
<1>4. CASE p # Retry(g) /\ losses[g].retrying
  <2>1. losses' = [losses EXCEPT ![g].processing = FALSE, ![g].retrying = TRUE]
    BY <1>4 DEF DriveFailed
  <2>2. PICK l \in Losses : LossBecomes(g, l)
    BY <1>2, <2>1, LossRetrying
  <2>3. task' = [task EXCEPT ![p] = ReportOver(p)]
    <3>1. task' = [task EXCEPT ![p] = ReportOver(p), ![Retry(g)] = @]
      BY <1>4 DEF DriveFailed
    <3>2. Retry(g) \in Tasks
      BY TaskNames
    <3> QED
      BY <1>1, <1>4, <3>1, <3>2
  <2> QED
    BY <2>2, <2>3, LossEnds
<1>5. CASE p # Retry(g) /\ ~losses[g].retrying
  <2> DEFINE t == [pc |-> "drive", op |-> "none", gen |-> g]
  <2>1. losses' = [losses EXCEPT ![g].processing = FALSE, ![g].retrying = TRUE]
    BY <1>5 DEF DriveFailed
  <2>2. PICK l \in Losses : LossBecomes(g, l)
    BY <1>2, <2>1, LossRetrying
  <2>3. ReportOver(p) \in Task
    BY ReportOverType
  <2>4. /\ ReportOver(p).gen \in {0, g}
        /\ ReportOver(p).pc \in {"idle", "completeFailed"}
        /\ p \notin Lifecycle => ReportOver(p).pc = "idle"
    BY ReportOverType
  <2>5. Retry(g) \in Tasks
    BY TaskNames
  <2>6. task' = [task EXCEPT ![p] = ReportOver(p), ![Retry(g)] = t]
    BY <1>5 DEF DriveFailed
  <2>7. t \in Task /\ t.pc = "drive" /\ t.gen = g
    BY DEF Task, Points, Ops
  <2> HIDE DEF t
  <2>8. /\ task'[p] = ReportOver(p) /\ task'[Retry(g)] = t
        /\ \A q \in Tasks \ {p, Retry(g)} : task'[q] = task[q]
    BY <1>1, <1>5, <2>5, <2>6
  <2>9. PlacesInv'
    <3>1. \A q \in Lifecycle : task'[q].pc \notin {"called", "pump"}
      BY <2>4, <2>8, TaskNames DEF PlacesInv, Tasks
    <3>2. \A q \in Callers : task'[q].pc \in Reporting \cup {"idle", "called"}
      BY <2>4, <2>8, SupervisionAssumptions, TaskNames DEF PlacesInv, Tasks
    <3>3. ASSUME NEW h \in Gens
          PROVE  /\ task'[Watcher(h)].pc \in Reporting \cup {"idle", "pump"}
                 /\ task'[Watcher(h)].pc # "idle" => task'[Watcher(h)].gen = h
      BY <2>4, <2>8, TaskNames DEF PlacesInv
    <3>4. ASSUME NEW h \in Gens
          PROVE  /\ task'[Retry(h)].pc \in Driving \cup {"idle", "drive"}
                 /\ task'[Retry(h)].pc # "idle" => task'[Retry(h)].gen = h
      BY <2>4, <2>7, <2>8, TaskNames DEF PlacesInv
    <3>5. \A q \in Tasks : task'[q].pc \in WithGeneration => task'[q].gen \in Gens
      BY <2>4, <2>7, <2>8 DEF PlacesInv, WithGeneration, Reporting
    <3> QED
      BY <3>1, <3>2, <3>3, <3>4, <3>5 DEF PlacesInv
  <2>10. LossInv'
    <3>1. \A q \in Tasks : task'[q].pc \in Holding \cup Driving => q # p /\ task'[q] = task[q]
      BY <2>4, <2>7, <2>8 DEF Holding, Driving
    <3>2. \A q \in Tasks : At(q, "mark")' => At(q, "mark") /\ task[q].gen # g /\ task[q].gen \in Gens
      BY <1>2, <3>1 DEF At, LossInv, PlacesInv, WithGeneration, Reporting, Holding
    <3>3. \A q \in Tasks : task'[q].pc \in Driving => task[q].gen \in Gens \ {g}
      BY <1>2, <3>1 DEF PlacesInv, WithGeneration, Reporting, Driving
    <3> QED
      BY <2>2, <3>1, <3>2, <3>3 DEF LossInv, LossBecomes, At, Holding
  <2>11. BoundInv'
    BY <2>4, <2>8, PendingKept, TaskNames DEF MaySpawn, Tasks
  <2>12. g < next /\ 0 < next
    BY DEF NextInv, TypeOK
  <2>13. NextInv'
    BY <1>2, <2>2, <2>4, <2>7, <2>8, <2>12 DEF NextInv, LossBecomes
  <2>14. FreshInv'
    <3>1. \A q \in Tasks : At(q, "register")' =>
             At(q, "register") /\ task'[q] = task[q] /\ task[q].gen \in Gens \ {g}
      BY <2>4, <2>7, <2>8 DEF FreshInv, At, PlacesInv, WithGeneration, Driving
    <3>2. \A q \in Tasks : task'[q].gen \in {0, g, task[q].gen}
      BY <2>4, <2>7, <2>8
    <3> QED
      BY <2>2, <3>1, <3>2, NoGeneration DEF FreshInv, LossBecomes
  <2>15. HandleInv'
    <3>1. handle # 0 => /\ task'[Watcher(handle)].pc \in {"pump", "report"}
                        /\ losses'[handle] = None
      <4> SUFFICES ASSUME handle # 0 PROVE /\ task'[Watcher(handle)].pc \in {"pump", "report"}
                                           /\ losses'[handle] = None
        OBVIOUS
      <4>1. /\ handle \in Gens /\ losses[handle] = None
            /\ task[Watcher(handle)].pc \in {"pump", "report"}
        BY DEF HandleInv, TypeOK
      <4>2. handle # g
        BY <1>2, <4>1 DEF Losses
      <4>3. Watcher(handle) \in Tasks \ {p, Retry(g)}
        BY <1>2, <4>1, TaskNames DEF Driving
      <4> QED
        BY <2>2, <2>8, <4>1, <4>2, <4>3 DEF LossBecomes
    <3>2. \A q \in Tasks : task'[q].pc \in {"commit", "recheck", "mark", "report"} =>
             task'[q] = task[q]
      BY <2>4, <2>7, <2>8
    <3> QED
      BY <3>1, <3>2 DEF HandleInv, At
  <2> QED
    BY <2>9, <2>10, <2>11, <2>13, <2>14, <2>15
<1> QED
  BY <1>3, <1>4, <1>5

LEMMA DriveFailedType ==
  ASSUME SupervisionInv, NEW p \in Tasks, NEW g \in Gens, g = task[p].gen,
         task[p].pc \in Driving, DriveFailed(p, g)
  PROVE  task' \in [Tasks -> Task] /\ losses' \in [Gens -> Losses \cup {None}]
<1> USE DEF SupervisionInv
<1>1. task \in [Tasks -> Task]
  BY DEF TypeOK, Task
<1>2. losses[g] # None
  BY DEF LossInv
<1>3. CASE p = Retry(g)
  BY <1>2, <1>3, LossProcessing, GotoIs DEF DriveFailed, LossBecomes, Points
<1>4. CASE p # Retry(g)
  <2> DEFINE t == [pc |-> "drive", op |-> "none", gen |-> g]
  <2>1. ReportOver(p) \in Task /\ t \in Task /\ Retry(g) \in Tasks
    BY ReportOverType, TaskNames DEF Task, Points, Ops
  <2>2. task' \in [Tasks -> Task]
    BY <1>1, <1>4, <2>1 DEF DriveFailed
  <2> QED
    BY <1>2, <1>4, <2>2, LossRetrying DEF DriveFailed, LossBecomes
<1> QED
  BY <1>3, <1>4

LEMMA DriveInv ==
  ASSUME SupervisionInv, NEW p \in Tasks, Drive(p)
  PROVE  SupervisionInv'
<1> USE DEF SupervisionInv
<1> DEFINE g == task[p].gen
<1>1. task \in [Tasks -> Task] /\ At(p, "drive")
  BY DEF TypeOK, Task, Drive
<1>2. UNCHANGED <<handle, alive, lost, transition, next, current, broken, served, degraded,
                  notified, state, failed, leases, faults>>
  BY DEF Drive, processes, registry
<1>3. g \in Gens
  BY <1>1 DEF PlacesInv, WithGeneration, Reporting, At
<1>4. CASE task' = [task EXCEPT ![p] = ReportOver(p)] /\ UNCHANGED losses
  <2>1. \A h \in Gens : h = handle => p # Watcher(h)
    BY <1>1, NoGeneration DEF HandleInv, At
  <2>2. TypeOK'
    BY <1>2, <1>4, ReportOverType, SetIs DEF TypeOK, Task
  <2> QED
    BY <1>1, <1>2, <1>4, <2>1, <2>2, ReportOverInv DEF Releases, Reporting, At
<1>5. CASE /\ losses[g] # None /\ ~losses[g].processing
           /\ losses' = [losses EXCEPT ![g].processing = TRUE]
           /\ Goto(p, IF losses[g].committed THEN "notify" ELSE "append")
  <2>1. PICK l \in Losses : LossBecomes(g, l) /\ l.processing = TRUE
    BY <1>3, <1>5, LossProcessing
  <2>2. PICK c \in {"append", "notify"} : Goto(p, c)
    BY <1>5
  <2>3. task' \in [Tasks -> Task]
    BY <2>2, GotoIs DEF Points
  <2>4. TypeOK'
    BY <1>2, <2>1, <2>3 DEF TypeOK, Task, LossBecomes
  <2> QED
    BY <1>1, <1>2, <1>3, <1>5, <2>1, <2>2, <2>4, LossMoves DEF At
<1> QED
  BY <1>4, <1>5 DEF Drive

LEMMA DegradedEventInv ==
  ASSUME SupervisionInv, NEW p \in Tasks, DegradedEvent(p)
  PROVE  SupervisionInv'
<1> USE DEF SupervisionInv
<1> DEFINE g == task[p].gen
<1>1. task \in [Tasks -> Task] /\ At(p, "append")
  BY DEF TypeOK, Task, DegradedEvent
<1>2. UNCHANGED <<handle, alive, lost, transition, next, current, broken, served, notified,
                  state, failed, leases>>
  BY DEF DegradedEvent, processes, registry
<1>3. g \in Gens /\ task[p].pc \in Driving /\ losses[g] # None /\ losses[g].processing
  BY <1>1 DEF PlacesInv, WithGeneration, Reporting, At, LossInv, Driving
<1>4. CASE Fault /\ DriveFailed(p, g) /\ UNCHANGED degraded
  <2>1. TypeOK'
    BY <1>2, <1>3, <1>4, DriveFailedType, FaultType DEF TypeOK, Task
  <2> QED
    BY <1>2, <1>3, <1>4, <2>1, DriveFailedInv
<1>5. CASE /\ NoFault /\ degraded' = [degraded EXCEPT ![g] = @ + 1]
           /\ Committed(g) /\ Goto(p, "notify")
  <2>1. PICK l \in Losses : LossBecomes(g, l) /\ l.processing = losses[g].processing
    BY <1>3, <1>5, LossCommitted
  <2>2. task' \in [Tasks -> Task]
    BY <1>5, GotoIs DEF Points
  <2>3. degraded' \in [Gens -> Nat]
    BY <1>3, <1>5 DEF TypeOK
  <2>4. TypeOK'
    BY <1>2, <1>5, <2>1, <2>2, <2>3, FaultType DEF TypeOK, Task, LossBecomes
  <2> QED
    BY <1>1, <1>2, <1>3, <1>5, <2>1, <2>4, LossMoves DEF At
<1> QED
  BY <1>4, <1>5 DEF DegradedEvent

LEMMA NotifyRunsInv ==
  ASSUME SupervisionInv, NEW p \in Tasks, NotifyRuns(p)
  PROVE  SupervisionInv'
<1> USE DEF SupervisionInv
<1> DEFINE g == task[p].gen
<1>1. task \in [Tasks -> Task] /\ At(p, "notify")
  BY DEF TypeOK, Task, NotifyRuns
<1>2. UNCHANGED <<handle, alive, lost, transition, next, current, broken, served, degraded,
                  state, failed, leases>>
  BY DEF NotifyRuns, processes, registry
<1>3. g \in Gens /\ task[p].pc \in Driving /\ losses[g] # None
  BY <1>1 DEF PlacesInv, WithGeneration, Reporting, At, LossInv, Driving
<1>4. CASE Fault /\ DriveFailed(p, g) /\ UNCHANGED notified
  <2>1. TypeOK'
    BY <1>2, <1>3, <1>4, DriveFailedType, FaultType DEF TypeOK, Task
  <2> QED
    BY <1>2, <1>3, <1>4, <2>1, DriveFailedInv
<1>5. CASE /\ NoFault /\ notified' = notified \cup losses[g].runs
           /\ losses' = [losses EXCEPT ![g] = None]
           /\ task' = [task EXCEPT ![p] = ReportOver(p)]
  <2>1. LossBecomes(g, None)
    BY <1>3, <1>5, LossSet
  <2>2. notified' \subseteq Runs
    BY <1>3, <1>5 DEF TypeOK, Losses
  <2>3. TypeOK'
    BY <1>2, <1>5, <2>1, <2>2, FaultType, ReportOverType, SetIs DEF TypeOK, Task, LossBecomes
  <2> QED
    BY <1>2, <1>3, <1>5, <2>1, <2>3, LossEnds
<1> QED
  BY <1>4, <1>5 DEF NotifyRuns

-----------------------------------------------------------------------------
(* Processes, watchers, callers and Runs.                                  *)

LEMMA ExitInv ==
  ASSUME SupervisionInv, NEW g \in Gens, Exit(g)
  PROVE  SupervisionInv'
<1> USE DEF SupervisionInv
<1>1. UNCHANGED <<state, failed, leases, losses, degraded, notified, handle, lost, next,
                  transition, task, served, current, faults>>
  BY DEF Exit, registry, reports
<1>2. alive' = alive \ {g} /\ broken' = broken \cup {g}
  BY DEF Exit
<1>3. TypeOK'
  BY <1>1, <1>2 DEF TypeOK
<1>4. PlacesInv' /\ FreshInv' /\ LossInv'
  BY <1>1 DEF PlacesInv, FreshInv, LossInv, At
<1>5. BoundInv'
  BY <1>1 DEF BoundInv, Pending
<1>6. NextInv'
  BY <1>1, <1>2 DEF NextInv
<1>7. HandleInv'
  BY <1>1, <1>2 DEF HandleInv, At
<1> QED
  BY <1>3, <1>4, <1>5, <1>6, <1>7

LEMMA PumpInv ==
  ASSUME SupervisionInv, NEW g \in Gens, Pump(g)
  PROVE  SupervisionInv'
<1> USE DEF SupervisionInv
<1>1. /\ UNCHANGED <<state, failed, leases, losses, degraded, notified, handle, alive, next,
                     transition, served, current>>
      /\ lost' = lost \cup {g} /\ Goto(Watcher(g), "report")
      /\ Fault \/ NoFault
  BY DEF Pump, registry, reports
<1>2. Watcher(g) \in Tasks /\ task[Watcher(g)].pc = "pump" /\ task[Watcher(g)].gen = g
  BY TaskNames DEF Pump, At, PlacesInv
<1>3. /\ broken \subseteq broken' /\ broken' \subseteq Gens
      /\ handle = g => handle \in broken'
  BY NoGeneration DEF Pump, HandleInv, TypeOK
<1>4. /\ task' \in [Tasks -> Task]
      /\ PlacesInv' /\ LossInv' /\ BoundInv' /\ NextInv' /\ FreshInv' /\ HandleInv'
  BY <1>1, <1>2, <1>3, StartsReport
<1>5. TypeOK'
  BY <1>1, <1>3, <1>4, FaultType DEF TypeOK, Task
<1> QED
  BY <1>4, <1>5

LEMMA InvokeInv ==
  ASSUME SupervisionInv, NEW p \in Callers, Invoke(p)
  PROVE  SupervisionInv'
<1> USE DEF SupervisionInv
<1> DEFINE t == [pc |-> "called", op |-> "none", gen |-> handle]
<1>1. p \in Tasks /\ handle \in Gens /\ t \in Task /\ t.pc = "called" /\ t.gen = handle
  BY DEF Tasks, TypeOK, Invoke, Task, Points, Ops
<1>2. task' \in [Tasks -> Task] /\ Becomes(p, t)
  BY <1>1, SetIs DEF Invoke
<1>3. UNCHANGED <<state, failed, leases, losses, degraded, notified, handle, alive, next,
                  transition, served, current, lost, broken, faults>>
  BY DEF Invoke, registry, reports, processes
<1>4. TypeOK'
  BY <1>2, <1>3 DEF TypeOK, Task
<1> HIDE DEF t
<1>5. PlacesInv'
  <2>1. \A q \in Lifecycle : task'[q] = task[q]
    BY <1>2, SupervisionAssumptions DEF Becomes, Tasks
  <2>2. \A q \in Callers : task'[q].pc \in Reporting \cup {"idle", "called"}
    BY <1>1, <1>2 DEF PlacesInv, Becomes, Tasks
  <2>3. \A g \in Gens : /\ task'[Watcher(g)] = task[Watcher(g)]
                        /\ task'[Retry(g)] = task[Retry(g)]
    BY <1>2, TaskNames DEF Becomes
  <2>4. \A q \in Tasks : task'[q].pc \in WithGeneration => task'[q].gen \in Gens
    BY <1>1, <1>2 DEF PlacesInv, Becomes
  <2> QED
    BY <2>1, <2>2, <2>3, <2>4 DEF PlacesInv
<1>6. LossInv'
  BY <1>1, <1>2, <1>3 DEF LossInv, Becomes, At, Driving, Holding
<1>7. BoundInv'
  BY <1>1, <1>2, <1>3, PendingKept, SupervisionAssumptions DEF Becomes, Tasks
<1>8. NextInv'
  BY <1>1, <1>2, <1>3 DEF NextInv, Becomes
<1>9. FreshInv'
  BY <1>1, <1>2, <1>3 DEF FreshInv, Becomes, At
<1>10. HandleInv'
  <2>1. task'[Watcher(handle)] = task[Watcher(handle)]
    BY <1>1, <1>2, TaskNames DEF Becomes
  <2>2. \A q \in Tasks : task'[q].pc \in {"commit", "recheck", "mark", "report"} =>
           task'[q] = task[q]
    BY <1>1, <1>2 DEF Becomes
  <2> QED
    BY <1>3, <2>1, <2>2 DEF HandleInv, At
<1> QED
  BY <1>4, <1>5, <1>6, <1>7, <1>8, <1>9, <1>10

LEMMA AnswerInv ==
  ASSUME SupervisionInv, NEW p \in Callers, Answer(p)
  PROVE  SupervisionInv'
<1> USE DEF SupervisionInv
<1> DEFINE g == task[p].gen
<1>1. p \in Tasks /\ task \in [Tasks -> Task] /\ At(p, "called") /\ (Fault \/ NoFault)
  BY DEF Tasks, TypeOK, Task, Answer
<1>2. UNCHANGED <<state, failed, leases, losses, degraded, notified, handle, alive, lost, next,
                  transition, served, current>>
  BY DEF Answer, registry, reports
<1>3. g \in Gens
  BY <1>1 DEF PlacesInv, WithGeneration, At
<1>4. CASE Done(p) /\ UNCHANGED broken
  <2>1. \A h \in Gens : p # Watcher(h)
    BY TaskNames
  <2>2. task' \in [Tasks -> Task] /\ Becomes(p, IdleTask)
    BY <1>1, <1>4, IdleTaskType, SetIs DEF Done
  <2>3. PlacesInv' /\ LossInv' /\ NextInv' /\ FreshInv' /\ HandleInv'
    BY <1>1, <1>2, <1>4, <2>1, <2>2, IdleTaskType, Retires DEF IdleTask, Plain, Releases
  <2>4. BoundInv'
    BY <1>1, <1>2, <2>2, PendingKept, SupervisionAssumptions DEF Becomes, Tasks
  <2>5. TypeOK'
    BY <1>1, <1>2, <1>4, <2>2, FaultType DEF TypeOK, Task
  <2> QED
    BY <2>3, <2>4, <2>5
<1>5. CASE /\ Goto(p, "report")
           /\ \/ TransportDead(g) /\ UNCHANGED broken
              \/ broken' = broken \cup {g}
  <2>1. /\ broken \subseteq broken' /\ broken' \subseteq Gens
        /\ handle = g => handle \in broken'
    BY <1>3, <1>5, NoGeneration DEF HandleInv, TypeOK, TransportDead
  <2>2. /\ task' \in [Tasks -> Task]
        /\ PlacesInv' /\ LossInv' /\ BoundInv' /\ NextInv' /\ FreshInv' /\ HandleInv'
    BY <1>1, <1>2, <1>5, <2>1, StartsReport DEF At
  <2>3. TypeOK'
    BY <1>1, <1>2, <2>1, <2>2, FaultType DEF TypeOK, Task
  <2> QED
    BY <2>2, <2>3
<1> QED
  BY <1>4, <1>5 DEF Answer

LEMMA RunStepInv ==
  ASSUME SupervisionInv, NEW r \in Runs, BeginRun(r) \/ EndRun(r)
  PROVE  SupervisionInv'
<1> USE DEF SupervisionInv
<1>1. UNCHANGED <<state, failed, losses, degraded, notified, handle, alive, next,
                  transition, task, current, lost, broken, faults>>
  BY DEF BeginRun, EndRun, reports, processes
<1>2. /\ leases' \subseteq Runs /\ served' \in [Runs -> Gens \cup {0}]
      /\ \A s \in Runs : served'[s] \in {served[s], current}
  BY DEF BeginRun, EndRun, TypeOK
<1>3. TypeOK'
  BY <1>1, <1>2 DEF TypeOK
<1>4. PlacesInv' /\ FreshInv' /\ LossInv' /\ HandleInv'
  BY <1>1 DEF PlacesInv, FreshInv, LossInv, HandleInv, At
<1>5. BoundInv'
  BY <1>1 DEF BoundInv, Pending
<1>6. NextInv'
  BY <1>1, <1>2 DEF NextInv
<1> QED
  BY <1>3, <1>4, <1>5, <1>6

LEMMA InitSupervision == Init => SupervisionInv
<1> SUFFICES ASSUME Init PROVE SupervisionInv
  OBVIOUS
<1>1. \A p \in Tasks : task[p] = IdleTask
  BY DEF Init
<1>2. TypeOK
  <2>1. next \in 1..(MaxGenerations + 1) /\ faults \in 0..MaxFaults
    BY SupervisionAssumptions DEF Init
  <2> QED
    BY <2>1, IdleTaskType DEF Init, TypeOK, Task, States
<1>3. PlacesInv
  BY <1>1, TaskNames DEF PlacesInv, IdleTask, WithGeneration, Reporting, Driving, Tasks
<1>4. LossInv /\ FreshInv /\ HandleInv
  BY <1>1 DEF Init, LossInv, FreshInv, HandleInv, IdleTask, At, Holding, Driving
<1>5. BoundInv
  <2>1. Pending = {}
    BY <1>1 DEF Pending, MaySpawn, IdleTask, Tasks
  <2> QED
    BY <2>1, FS_EmptySet, SupervisionAssumptions DEF BoundInv, Init
<1>6. NextInv
  BY <1>1 DEF Init, NextInv, IdleTask
<1> QED
  BY <1>2, <1>3, <1>4, <1>5, <1>6 DEF SupervisionInv

LEMMA NextSupervision == SupervisionInv /\ [Next]_vars => SupervisionInv'
<1> SUFFICES ASSUME SupervisionInv, [Next]_vars PROVE SupervisionInv'
  OBVIOUS
<1>1. CASE UNCHANGED vars
  BY <1>1 DEF vars, SupervisionInv, TypeOK, PlacesInv, LossInv, BoundInv, Pending, NextInv,
              FreshInv, HandleInv, At
<1>2. ASSUME NEW p \in Lifecycle, NEW op \in Ops \ {"none"}, Begin(p, op)
      PROVE  SupervisionInv'
  BY <1>2, BeginInv
<1>3. ASSUME NEW p \in Lifecycle, LifecycleStep(p)
      PROVE  SupervisionInv'
  BY <1>3, LoadingInv, StartingInv, StoppingInv, StopInv, StoppedInv, RemoveInv, RestartingInv,
     SpawnInv, RegisterInv, CompleteInv, CommitInv, RecheckInv, StartFailedInv
     DEF LifecycleStep
<1>4. ASSUME NEW p \in Callers, Invoke(p) \/ Answer(p)
      PROVE  SupervisionInv'
  BY <1>4, InvokeInv, AnswerInv
<1>5. ASSUME NEW p \in Tasks, ReportStep(p)
      PROVE  SupervisionInv'
  BY <1>5, ReportInv, MarkInv, DriveInv, DegradedEventInv, NotifyRunsInv DEF ReportStep
<1>6. ASSUME NEW g \in Gens, Exit(g) \/ Pump(g)
      PROVE  SupervisionInv'
  BY <1>6, ExitInv, PumpInv
<1>7. ASSUME NEW r \in Runs, BeginRun(r) \/ EndRun(r)
      PROVE  SupervisionInv'
  BY <1>7, RunStepInv
<1> QED
  BY <1>1, <1>2, <1>3, <1>4, <1>5, <1>6, <1>7 DEF Next

LEMMA SupervisionAlways == Spec => []SupervisionInv
<1> QED
  BY InitSupervision, NextSupervision, PTL DEF Spec

\* Every variable keeps its type, whatever requests overlap: a loss is driven only
\* while it is recorded, and next_generation stays within the processes that the
\* requests under way were admitted for (drive_pending_activation_loss,
\* start_generation).
THEOREM SupervisionTypeCorrect == Spec => []TypeOK
<1>1. SupervisionInv => TypeOK
  BY DEF SupervisionInv
<1> QED
  BY <1>1, SupervisionAlways, PTL

-----------------------------------------------------------------------------
(* The service: steps that leave the record, the handle and the losses.    *)

\* The same tasks are recording a loss.
SameMarks ==
  \A q \in Tasks : /\ At(q, "mark")' <=> At(q, "mark")
                   /\ At(q, "mark") => task'[q].gen = task[q].gen

LEMMA MarksKept ==
  ASSUME NEW p \in Tasks, NEW t, Becomes(p, t), task[p].pc # "mark", t.pc # "mark"
  PROVE  SameMarks
BY DEF SameMarks, Becomes, At

LEMMA GotoMarks ==
  ASSUME TypeOK, NEW p \in Tasks, NEW c \in Points, Goto(p, c), task[p].pc # "mark", c # "mark"
  PROVE  SameMarks
BY GotoFields DEF SameMarks, At

LEMMA ServiceKept ==
  ASSUME ServiceInv, SameMarks, leases' \subseteq leases, broken \subseteq broken',
         UNCHANGED <<state, handle, current, losses, notified, served>>
  PROVE  StateInv' /\ LossReported' /\ (Quiet => Quiet')
<1>1. Quiet => Quiet'
  BY DEF Quiet, SameMarks
<1>2. StateInv'
  BY <1>1 DEF ServiceInv, StateInv, SameMarks
<1>3. LossReported'
  BY DEF ServiceInv, LossReported, OnlyBrokenIsLost
<1> QED
  BY <1>1, <1>2, <1>3

\* A Package without Runs changes its state, to another than ready.
LEMMA ServiceIdle ==
  ASSUME ServiceInv, SameMarks, leases = {}, leases' = leases, state' # "ready",
         handle' = handle \/ handle' = 0, state' \in {"none", "loading", "stopped"} => Quiet',
         UNCHANGED <<losses, notified, served, broken>>
  PROVE  StateInv' /\ LossReported'
<1>1. StateInv'
  BY DEF ServiceInv, StateInv, SameMarks
<1>2. LossReported'
  BY DEF ServiceInv, LossReported, OnlyBrokenIsLost
<1> QED
  BY <1>1, <1>2

\* The request is where it was, and finds what it found.
LEMMA RequestsKept ==
  ASSUME ServiceInv, \A q \in Lifecycle : task'[q] = task[q], Quiet => Quiet',
         UNCHANGED <<state, current>>
  PROVE  RequestInv'
BY DEF ServiceInv, RequestInv, RequestFinds

LEMMA OnlyRequest ==
  ASSUME OneRequest, NEW p \in Lifecycle, RequestFinds(p)'
  PROVE  RequestInv'
BY DEF OneRequest, RequestInv

-----------------------------------------------------------------------------
(* The service: the requests.                                              *)

LEMMA RequestMarks ==
  ASSUME SupervisionInv, NEW p \in Lifecycle, RequestMoves(p), task[p].pc # "mark"
  PROVE  SameMarks
BY MarksKept DEF RequestMoves, Plain, Tasks

LEMMA BeginService ==
  ASSUME SupervisionInv, ServiceInv, OneRequest, NEW p \in Lifecycle,
         NEW op \in Ops \ {"none"}, Begin(p, op)
  PROVE  ServiceInv'
<1> USE DEF SupervisionInv
<1> DEFINE t == [pc |-> IF op = "load" THEN "loading" ELSE "stopping", op |-> op, gen |-> 0]
<1>1. p \in Tasks /\ t \in Task /\ t.pc \in {"loading", "stopping"}
  BY DEF Tasks, Task, Points
<1>2. Becomes(p, t)
  BY <1>1, SetIs DEF Begin
<1>3. SameMarks
  BY <1>1, <1>2, MarksKept DEF Begin, At
<1>4. UNCHANGED <<handle, losses, current, broken, served, notified, leases>>
  BY DEF Begin, processes, reports
<1>5. leases = {}
  BY DEF Begin, MayStop, NotInUse, ServiceInv, StateInv
<1>6. CASE op = "load"
  <2>1. state = "none" /\ state' = "loading" /\ task'[p].pc = "loading"
    BY <1>2, <1>6 DEF Begin, Becomes
  <2>2. Quiet'
    BY <1>3, <1>4, <2>1 DEF ServiceInv, StateInv, Quiet, SameMarks
  <2>3. RequestFinds(p)'
    BY <2>1, <2>2 DEF RequestFinds
  <2> QED
    BY <1>3, <1>4, <1>5, <2>1, <2>2, <2>3, OnlyRequest, ServiceIdle DEF ServiceInv
<1>7. CASE op # "load"
  <2>1. state' = "stopping" /\ task'[p].pc = "stopping"
    BY <1>2, <1>7 DEF Begin, Becomes
  <2>2. RequestFinds(p)'
    BY <2>1 DEF RequestFinds
  <2> QED
    BY <1>3, <1>4, <1>5, <2>1, <2>2, OnlyRequest, ServiceIdle DEF ServiceInv
<1> QED
  BY <1>6, <1>7

LEMMA LoadingService ==
  ASSUME SupervisionInv, ServiceInv, OneRequest, NEW p \in Lifecycle, Loading(p)
  PROVE  ServiceInv'
<1> USE DEF SupervisionInv
<1>1. /\ UNCHANGED <<handle, losses, current, broken, served, notified>>
      /\ task[p].pc = "loading" /\ leases' = leases
  BY DEF Loading, processes, reports, At, registry, SetState
<1>2. state = "loading" /\ Quiet /\ leases = {}
  BY <1>1 DEF ServiceInv, RequestInv, RequestFinds, StateInv
<1>3. CASE Done(p) /\ UNCHANGED registry
  <2>1. SameMarks /\ task'[p].pc = "idle"
    BY <1>1, <1>3, RequestDone, RequestMarks
  <2>2. RequestFinds(p)'
    BY <2>1 DEF RequestFinds
  <2> QED
    BY <1>1, <1>3, <2>1, <2>2, OnlyRequest, ServiceKept DEF ServiceInv, registry
<1>4. CASE Goto(p, "starting") /\ SetState("starting")
  <2>1. SameMarks /\ task'[p].pc = "starting" /\ state' = "starting"
    BY <1>1, <1>2, <1>4, RequestGoes, RequestMarks DEF Plain, SetState
  <2>2. Quiet'
    BY <1>1, <1>2, <2>1 DEF Quiet, SameMarks
  <2>3. RequestFinds(p)'
    BY <2>1, <2>2 DEF RequestFinds
  <2> QED
    BY <1>1, <1>2, <2>1, <2>2, <2>3, OnlyRequest, ServiceIdle DEF ServiceInv
<1> QED
  BY <1>3, <1>4 DEF Loading

LEMMA StartingService ==
  ASSUME SupervisionInv, ServiceInv, OneRequest, NEW p \in Lifecycle, Starting(p)
  PROVE  ServiceInv'
<1> USE DEF SupervisionInv
<1>1. /\ UNCHANGED <<handle, losses, current, broken, served, notified, state, leases>>
      /\ task[p].pc = "starting"
  BY DEF Starting, processes, reports, At, registry
<1>2. state = "starting" /\ Quiet
  BY <1>1 DEF ServiceInv, RequestInv, RequestFinds
<1>3. SameMarks /\ task'[p].pc \in {"idle", "spawn"}
  BY <1>1, RequestDone, RequestGoes, RequestMarks DEF Starting, Plain
<1>4. StateInv' /\ LossReported' /\ Quiet'
  BY <1>1, <1>2, <1>3, ServiceKept
<1>5. RequestFinds(p)'
  BY <1>1, <1>2, <1>3, <1>4 DEF RequestFinds
<1> QED
  BY <1>4, <1>5, OnlyRequest DEF ServiceInv

LEMMA StoppingService ==
  ASSUME SupervisionInv, ServiceInv, OneRequest, NEW p \in Lifecycle, Stopping(p)
  PROVE  ServiceInv'
<1> USE DEF SupervisionInv
<1>1. /\ UNCHANGED <<handle, losses, current, broken, served, notified, state, leases>>
      /\ task[p].pc = "stopping" /\ p \in Tasks
  BY DEF Stopping, processes, reports, At, registry, Tasks
<1>2. state = "stopping"
  BY <1>1 DEF ServiceInv, RequestInv, RequestFinds
<1>3. SameMarks /\ task'[p].pc \in {"idle", "stop"}
  <2>1. CASE Done(p) \/ Goto(p, "stop")
    BY <1>1, <2>1, RequestDone, RequestGoes, RequestMarks DEF Plain
  <2>2. CASE task' = [task EXCEPT ![p].pc = "stop", ![p].op = "none"]
    <3>1. Becomes(p, [pc |-> "stop", op |-> "none", gen |-> task[p].gen])
      BY <1>1, <2>2, SetPcOpIs DEF Points, Ops
    <3> QED
      BY <1>1, <3>1, MarksKept DEF Becomes
  <2> QED
    BY <2>1, <2>2 DEF Stopping
<1>4. StateInv' /\ LossReported'
  BY <1>1, <1>2, <1>3, ServiceKept
<1>5. RequestFinds(p)'
  BY <1>1, <1>2, <1>3, <1>4 DEF RequestFinds
<1> QED
  BY <1>4, <1>5, OnlyRequest DEF ServiceInv

LEMMA StopService ==
  ASSUME SupervisionInv, ServiceInv, OneRequest, NEW p \in Lifecycle, Stop(p)
  PROVE  ServiceInv'
<1> USE DEF SupervisionInv
<1>1. /\ UNCHANGED <<losses, current, broken, served, notified, leases>>
      /\ task[p].pc = "stop" /\ handle' = 0 /\ transition = None
  BY DEF Stop, reports, At, registry, SetState
<1>2. state = "stopping" /\ leases = {}
  BY <1>1 DEF ServiceInv, RequestInv, RequestFinds, StateInv
<1>3. /\ SameMarks
      /\ \/ task'[p].pc = "stopped" /\ state' = "stopped"
         \/ task'[p].pc = "restarting" /\ state' = "stopping"
         \/ task'[p].pc = "idle" /\ state' = "degraded"
  <2>1. CASE SetState("stopped") /\ Goto(p, IF state = "none" THEN "remove" ELSE "stopped")
    <3>1. Goto(p, "stopped")
      BY <1>2, <2>1
    <3> QED
      BY <1>1, <1>2, <2>1, <3>1, RequestGoes, RequestMarks DEF Plain, SetState
  <2>2. CASE UNCHANGED registry /\ IF state = "stopping" THEN Goto(p, "restarting") ELSE Done(p)
    BY <1>1, <1>2, <2>2, RequestGoes, RequestMarks DEF Plain, registry
  <2>3. CASE SetState("degraded") /\ Done(p)
    BY <1>1, <1>2, <2>3, RequestDone, RequestMarks DEF SetState
  <2> QED
    BY <2>1, <2>2, <2>3 DEF Stop
<1>4. Quiet'
  BY <1>1, <1>3, SupervisionAssumptions DEF Quiet, SameMarks, LossInv, Holding, At
<1>5. RequestFinds(p)'
  BY <1>3, <1>4 DEF RequestFinds
<1> QED
  BY <1>1, <1>2, <1>3, <1>4, <1>5, OnlyRequest, ServiceIdle DEF ServiceInv

LEMMA StoppedService ==
  ASSUME SupervisionInv, ServiceInv, OneRequest, NEW p \in Lifecycle, Stopped(p)
  PROVE  ServiceInv'
<1> USE DEF SupervisionInv
<1>1. /\ UNCHANGED <<handle, losses, current, broken, served, notified, state, leases>>
      /\ task[p].pc = "stopped"
  BY DEF Stopped, processes, reports, At, registry
<1>2. state = "stopped" /\ Quiet
  BY <1>1 DEF ServiceInv, RequestInv, RequestFinds
<1>3. SameMarks /\ task'[p].pc \in {"idle", "remove"}
  BY <1>1, RequestDone, RequestGoes, RequestMarks DEF Stopped, Plain
<1>4. StateInv' /\ LossReported' /\ Quiet'
  BY <1>1, <1>2, <1>3, ServiceKept
<1>5. RequestFinds(p)'
  BY <1>1, <1>2, <1>3, <1>4 DEF RequestFinds
<1> QED
  BY <1>4, <1>5, OnlyRequest DEF ServiceInv

LEMMA RemoveService ==
  ASSUME SupervisionInv, ServiceInv, OneRequest, NEW p \in Lifecycle, Remove(p)
  PROVE  ServiceInv'
<1> USE DEF SupervisionInv
<1>1. /\ UNCHANGED <<handle, losses, current, broken, served, notified, leases>>
      /\ task[p].pc = "remove"
  BY DEF Remove, processes, reports, At
<1>2. state = "stopped" /\ Quiet /\ leases = {}
  BY <1>1 DEF ServiceInv, RequestInv, RequestFinds, StateInv
<1>3. SameMarks /\ task'[p].pc = "idle" /\ state' \in {"none", "stopped"}
  BY <1>1, <1>2, RequestDone, RequestMarks DEF Remove
<1>4. Quiet'
  BY <1>1, <1>2, <1>3 DEF Quiet, SameMarks
<1>5. RequestFinds(p)'
  BY <1>3 DEF RequestFinds
<1> QED
  BY <1>1, <1>2, <1>3, <1>4, <1>5, OnlyRequest, ServiceIdle DEF ServiceInv

LEMMA RestartingService ==
  ASSUME SupervisionInv, ServiceInv, OneRequest, NEW p \in Lifecycle, Restarting(p)
  PROVE  ServiceInv'
<1> USE DEF SupervisionInv
<1>1. /\ UNCHANGED <<handle, losses, current, broken, served, notified, leases>>
      /\ task[p].pc = "restarting"
  BY DEF Restarting, processes, reports, At, registry, SetState
<1>2. state = "stopping" /\ Quiet /\ leases = {}
  BY <1>1 DEF ServiceInv, RequestInv, RequestFinds, StateInv
<1>3. /\ SameMarks
      /\ \/ task'[p].pc = "idle" /\ state' = "degraded"
         \/ task'[p].pc = "spawn" /\ state' = "starting"
  BY <1>1, <1>2, RequestDone, RequestGoes, RequestMarks DEF Restarting, SetState, Plain
<1>4. Quiet'
  BY <1>1, <1>2, <1>3 DEF Quiet, SameMarks
<1>5. RequestFinds(p)'
  BY <1>3, <1>4 DEF RequestFinds
<1> QED
  BY <1>1, <1>2, <1>3, <1>4, <1>5, OnlyRequest, ServiceIdle DEF ServiceInv

LEMMA SpawnService ==
  ASSUME SupervisionInv, ServiceInv, OneRequest, NEW p \in Lifecycle, Spawn(p), TypeOK'
  PROVE  ServiceInv'
<1> USE DEF SupervisionInv
<1>1. /\ UNCHANGED <<handle, losses, current, broken, served, notified, state, leases>>
      /\ task[p].pc = "spawn" /\ p \in Tasks
  BY DEF Spawn, reports, At, registry, Tasks
<1>2. state = "starting" /\ Quiet
  BY <1>1 DEF ServiceInv, RequestInv, RequestFinds
<1>3. SameMarks /\ task'[p].pc \in {"register", "startFailed"}
  <2>1. CASE Goto(p, "startFailed")
    BY <1>1, <2>1, RequestGoes, RequestMarks DEF Plain
  <2>2. CASE task' = [task EXCEPT ![p].pc = "register", ![p].gen = next]
    <3>1. task \in [Tasks -> Task]
      BY DEF TypeOK, Task
    <3>2. task'[p].pc = "register" /\ \A q \in Tasks \ {p} : task'[q] = task[q]
      BY <1>1, <2>2, <3>1 DEF Task
    <3> QED
      BY <1>1, <3>2 DEF SameMarks, At
  <2> QED
    BY <2>1, <2>2 DEF Spawn
<1>4. StateInv' /\ LossReported' /\ Quiet'
  BY <1>1, <1>2, <1>3, ServiceKept
<1>5. RequestFinds(p)'
  BY <1>1, <1>2, <1>3, <1>4 DEF RequestFinds
<1> QED
  BY <1>4, <1>5, OnlyRequest DEF ServiceInv

LEMMA RegisterService ==
  ASSUME SupervisionInv, ServiceInv, OneRequest, NEW p \in Lifecycle, Register(p)
  PROVE  ServiceInv'
<1> USE DEF SupervisionInv
<1> DEFINE g == task[p].gen
<1>1. /\ UNCHANGED <<losses, current, broken, served, notified, state, leases>>
      /\ task[p].pc = "register" /\ p \in Tasks /\ task \in [Tasks -> Task]
  BY DEF Register, reports, At, registry, Tasks, TypeOK, Task
<1>2. state = "starting" /\ Quiet /\ leases = {}
  BY <1>1 DEF ServiceInv, RequestInv, RequestFinds, StateInv
<1>3. CASE Goto(p, "startFailed") /\ UNCHANGED handle
  <2>1. SameMarks /\ task'[p].pc = "startFailed"
    BY <1>1, <1>3, RequestGoes, RequestMarks DEF Plain
  <2>2. StateInv' /\ LossReported' /\ Quiet'
    BY <1>1, <1>2, <1>3, <2>1, ServiceKept
  <2>3. RequestFinds(p)'
    BY <1>1, <1>2, <2>1, <2>2 DEF RequestFinds
  <2> QED
    BY <2>2, <2>3, OnlyRequest DEF ServiceInv
<1>4. CASE task' = [task EXCEPT ![p].pc = "complete",
                      ![Watcher(g)] = [pc |-> "pump", op |-> "none", gen |-> g]]
  <2>1. g \in Gens /\ Watcher(g) \in Tasks /\ Watcher(g) # p
    BY <1>1, TaskNames DEF PlacesInv, WithGeneration
  <2>2. /\ task'[p].pc = "complete" /\ task'[Watcher(g)].pc = "pump"
        /\ \A q \in Tasks \ {p, Watcher(g)} : task'[q] = task[q]
    <3> DEFINE t == [pc |-> "pump", op |-> "none", gen |-> g]
    <3>1. t.pc = "pump"
      OBVIOUS
    <3>2. task' = [task EXCEPT ![p].pc = "complete", ![Watcher(g)] = t]
      BY <1>4
    <3> HIDE DEF t, g
    <3> QED
      BY <1>1, <2>1, <3>1, <3>2 DEF Task
  <2>3. \A q \in Tasks : ~At(q, "mark")'
    BY <1>2, <2>2 DEF Quiet, At
  <2>4. StateInv'
    BY <1>1, <1>2, <2>3 DEF StateInv
  <2>5. LossReported'
    BY <1>1 DEF ServiceInv, LossReported, OnlyBrokenIsLost
  <2>6. RequestFinds(p)'
    BY <1>1, <1>2, <2>2 DEF RequestFinds
  <2> QED
    BY <2>4, <2>5, <2>6, OnlyRequest DEF ServiceInv
<1> QED
  BY <1>3, <1>4 DEF Register

LEMMA CompleteService ==
  ASSUME SupervisionInv, ServiceInv, OneRequest, NEW p \in Lifecycle, Complete(p)
  PROVE  ServiceInv'
<1> USE DEF SupervisionInv
<1>1. /\ UNCHANGED <<handle, losses, current, broken, served, notified, state, leases>>
      /\ task[p].pc = "complete" /\ p \in Tasks
  BY DEF Complete, reports, At, registry, Tasks
<1>2. state # "ready"
  BY <1>1 DEF ServiceInv, RequestInv, RequestFinds
<1>3. /\ SameMarks
      /\ task'[p].pc \in {"completeFailed", "report", "commit"}
      /\ task'[p].pc = "commit" => state = "starting"
  <2>1. ASSUME NEW c \in {"completeFailed", "report", "commit"}, Goto(p, c)
        PROVE  SameMarks /\ task'[p].pc = c
    BY <1>1, <2>1, GotoFields, GotoMarks DEF Points
  <2> QED
    BY <2>1 DEF Complete
<1>4. StateInv' /\ LossReported'
  BY <1>1, <1>2, <1>3, ServiceKept
<1>5. RequestFinds(p)'
  BY <1>1, <1>2, <1>3 DEF RequestFinds
<1> QED
  BY <1>4, <1>5, OnlyRequest DEF ServiceInv

LEMMA CommitService ==
  ASSUME SupervisionInv, ServiceInv, OneRequest, NEW p \in Lifecycle, Commit(p)
  PROVE  ServiceInv'
<1> USE DEF SupervisionInv
<1> DEFINE g == task[p].gen
<1>1. /\ UNCHANGED <<losses, broken, served, notified>> /\ leases' = leases
      /\ task[p].pc = "commit" /\ p \in Tasks
  BY DEF Commit, reports, At, registry, SetState, Tasks
<1>2. state = "starting" /\ leases = {}
  BY <1>1 DEF ServiceInv, RequestInv, RequestFinds, StateInv
<1>3. g \in Gens /\ handle = g
  BY <1>1 DEF PlacesInv, WithGeneration, HandleInv
<1>4. ASSUME NEW c \in {"completeFailed", "report", "recheck"}, Goto(p, c)
      PROVE  SameMarks /\ task'[p].pc = c /\ task'[p].gen = g
  BY <1>1, <1>4, GotoFields, GotoMarks DEF Points
<1>5. CASE handle' = 0 /\ SetState("degraded") /\ Goto(p, "completeFailed")
  <2>1. state' = "degraded" /\ SameMarks /\ task'[p].pc = "completeFailed"
    BY <1>2, <1>4, <1>5 DEF SetState
  <2>2. RequestFinds(p)'
    BY <2>1 DEF RequestFinds
  <2> QED
    BY <1>1, <1>2, <1>5, <2>1, <2>2, OnlyRequest, ServiceIdle DEF ServiceInv
<1>6. CASE /\ Goto(p, IF g \in lost THEN "report" ELSE "completeFailed")
           /\ UNCHANGED <<registry, current, handle>>
  <2>1. SameMarks /\ task'[p].pc \in {"report", "completeFailed"} /\ state' = state
    BY <1>4, <1>6 DEF registry
  <2>2. StateInv' /\ LossReported'
    BY <1>1, <1>6, <2>1, ServiceKept
  <2>3. RequestFinds(p)'
    BY <1>2, <2>1 DEF RequestFinds
  <2> QED
    BY <2>2, <2>3, OnlyRequest DEF ServiceInv
<1>7. CASE SetState("ready") /\ current' = g /\ Goto(p, "recheck") /\ UNCHANGED handle
  <2>1. /\ SameMarks /\ task'[p].pc = "recheck" /\ task'[p].gen = g /\ state' = "ready"
        /\ current' = g /\ handle' = g /\ g # 0
    BY <1>2, <1>3, <1>4, <1>7, NoGeneration DEF SetState
  <2>2. StateInv'
    BY <1>1, <1>2, <1>3, <2>1 DEF ServiceInv, StateInv, SameMarks
  <2>3. LossReported'
    BY <1>1, <1>2 DEF ServiceInv, LossReported, OnlyBrokenIsLost
  <2>4. RequestFinds(p)'
    BY <2>1 DEF RequestFinds
  <2> QED
    BY <2>2, <2>3, <2>4, OnlyRequest DEF ServiceInv
<1> QED
  BY <1>5, <1>6, <1>7 DEF Commit

LEMMA RecheckService ==
  ASSUME SupervisionInv, ServiceInv, OneRequest, NEW p \in Lifecycle, Recheck(p)
  PROVE  ServiceInv'
<1> USE DEF SupervisionInv
<1>1. /\ UNCHANGED <<handle, losses, current, broken, served, notified, state, leases>>
      /\ task[p].pc = "recheck" /\ p \in Tasks
  BY DEF Recheck, reports, At, registry, Tasks
<1>2. state = "ready" /\ task[p].gen = current
  BY <1>1 DEF ServiceInv, RequestInv, RequestFinds
<1>3. /\ SameMarks
      /\ \/ task'[p].pc = "report" /\ task'[p].gen = task[p].gen
         \/ task'[p].pc = "idle"
  <2>1. CASE Goto(p, "report")
    BY <1>1, <2>1, GotoFields, GotoMarks DEF Points
  <2>2. CASE Done(p)
    BY <1>1, <2>2, RequestDone, RequestMarks
  <2> QED
    BY <2>1, <2>2 DEF Recheck
<1>4. StateInv' /\ LossReported'
  BY <1>1, <1>3, ServiceKept
<1>5. RequestFinds(p)'
  BY <1>1, <1>2, <1>3 DEF RequestFinds
<1> QED
  BY <1>4, <1>5, OnlyRequest DEF ServiceInv

LEMMA StartFailedService ==
  ASSUME SupervisionInv, ServiceInv, OneRequest, NEW p \in Lifecycle, StartFailed(p)
  PROVE  ServiceInv'
<1> USE DEF SupervisionInv
<1>1. /\ UNCHANGED <<handle, losses, current, broken, served, notified, leases>>
      /\ task[p].pc \in {"startFailed", "completeFailed"}
      /\ state' = state \/ state' = IF state = "none" THEN "none" ELSE "degraded"
  BY DEF StartFailed, processes, At, registry
<1>2. state # "ready"
  BY <1>1 DEF ServiceInv, RequestInv, RequestFinds
<1>3. SameMarks /\ task'[p].pc = "idle"
  BY <1>1, RequestDone, RequestMarks DEF StartFailed
<1>4. StateInv'
  <2>1. state' \in {"none", "loading", "stopped"} => Quiet'
    BY <1>1, <1>3 DEF ServiceInv, StateInv, Quiet, SameMarks
  <2> QED
    BY <1>1, <1>2, <1>3, <2>1 DEF ServiceInv, StateInv, SameMarks
<1>5. LossReported'
  BY <1>1, <1>2 DEF ServiceInv, LossReported, OnlyBrokenIsLost
<1>6. RequestFinds(p)'
  BY <1>3 DEF RequestFinds
<1> QED
  BY <1>4, <1>5, <1>6, OnlyRequest DEF ServiceInv

-----------------------------------------------------------------------------
(* The service: the reports.                                               *)

\* A step of the task p leaves the other requests where they were.
LEMMA OtherRequests ==
  ASSUME ServiceInv, NEW p \in Tasks, \A q \in Tasks \ {p} : task'[q] = task[q],
         UNCHANGED <<state, current>>, p \in Lifecycle => RequestFinds(p)',
         \A q \in Lifecycle \ {p} : Quiet /\ RequestFinds(q) => Quiet'
  PROVE  RequestInv'
<1> SUFFICES ASSUME NEW q \in Lifecycle PROVE RequestFinds(q)'
  BY DEF RequestInv
<1>1. RequestFinds(q)
  BY DEF ServiceInv, RequestInv
<1>2. CASE q = p
  BY <1>2
<1>3. CASE q # p
  BY <1>1, <1>3 DEF RequestFinds, Tasks
<1> QED
  BY <1>2, <1>3

LEMMA ReportService ==
  ASSUME SupervisionInv, ServiceInv, OneRequest, NEW p \in Tasks, Report(p)
  PROVE  ServiceInv'
<1> USE DEF SupervisionInv
<1> DEFINE g == task[p].gen
<1>1. /\ UNCHANGED <<losses, current, broken, served, notified, state, leases>>
      /\ task[p].pc = "report" /\ transition = None
  BY DEF Report, reports, At, registry
<1>2. g \in Gens /\ g # 0
  BY <1>1, NoGeneration DEF PlacesInv, WithGeneration, Reporting
<1>3. \A q \in Tasks : ~At(q, "mark")
  BY <1>1, SupervisionAssumptions DEF LossInv, Holding, At
<1>4. p \in Lifecycle /\ state = "ready" => g = current
  BY <1>1 DEF ServiceInv, RequestInv, RequestFinds
<1>5. CASE /\ handle = g /\ handle' = 0
           /\ task' = [task EXCEPT ![p].pc = "mark", ![p].gen = handle]
  <2>1. /\ task'[p].pc = "mark" /\ task'[p].gen = g
        /\ \A q \in Tasks \ {p} : task'[q] = task[q]
    <3>1. Becomes(p, [pc |-> "mark", op |-> task[p].op, gen |-> handle])
      BY <1>2, <1>5, SetPcGenIs DEF Points
    <3>2. handle = g
      BY <1>5
    <3> QED
      BY <3>1, <3>2 DEF Becomes
  <2>2. ~Quiet /\ handle' = 0 /\ handle = g
    BY <1>2, <1>5 DEF Quiet
  <2>3. RequestInv'
    <3>1. p \in Lifecycle => RequestFinds(p)'
      BY <1>1, <1>4, <2>1 DEF RequestFinds
    <3> QED
      BY <1>1, <2>1, <2>2, <3>1, OtherRequests
  <2>4. StateInv'
    <3>1. state' \notin {"none", "loading", "stopped"}
      BY <1>1, <2>2 DEF ServiceInv, StateInv
    <3>2. At(p, "mark")' /\ task'[p].gen = g
      BY <2>1 DEF At
    <3>3. state = "ready" => handle = current
      BY <1>3 DEF ServiceInv, StateInv
    <3> QED
      BY <1>1, <2>2, <3>1, <3>2, <3>3 DEF ServiceInv, StateInv
  <2>5. LossReported'
    BY <1>1 DEF ServiceInv, LossReported, OnlyBrokenIsLost
  <2> QED
    BY <2>3, <2>4, <2>5 DEF ServiceInv
<1>6. CASE /\ ~(losses[g] = None /\ handle = g)
           /\ task' = [task EXCEPT ![p] = ReportOver(p)] /\ UNCHANGED handle
  <2>1. Becomes(p, ReportOver(p)) /\ ReportOver(p).pc # "mark"
    BY <1>6, ReportOverType, SetIs
  <2>2. SameMarks
    BY <1>1, <2>1, MarksKept
  <2>3. StateInv' /\ LossReported' /\ (Quiet => Quiet')
    BY <1>1, <1>6, <2>2, ServiceKept
  <2>4. ASSUME p \in Lifecycle PROVE RequestFinds(p)'
    <3>1. state # "ready"
      BY <1>3, <1>4, <1>6, <2>4 DEF ServiceInv, StateInv, HandleInv
    <3>2. task'[p].pc = "completeFailed"
      BY <2>1, <2>4, ReportOverType DEF Becomes
    <3> QED
      BY <1>1, <3>1, <3>2 DEF RequestFinds
  <2>5. RequestInv'
    BY <1>1, <2>1, <2>3, <2>4, OtherRequests DEF Becomes
  <2> QED
    BY <2>3, <2>5 DEF ServiceInv
<1> QED
  BY <1>5, <1>6 DEF Report, SameGeneration

LEMMA MarkService ==
  ASSUME SupervisionInv, ServiceInv, OneRequest, NEW p \in Tasks, Mark(p)
  PROVE  ServiceInv'
<1> USE DEF SupervisionInv
<1> DEFINE g == task[p].gen
<1>1. /\ UNCHANGED <<handle, current, broken, served, notified, leases>>
      /\ task[p].pc = "mark"
  BY DEF Mark, At
<1>2. g \in Gens /\ g \in broken /\ losses[g] = None
  BY <1>1 DEF PlacesInv, WithGeneration, Reporting, HandleInv, LossInv, At
<1>3. \A q \in Tasks \ {p} : task[q].pc \notin Holding
  BY <1>1 DEF LossInv, Holding
<1>4. handle = 0 /\ ~Quiet
  BY <1>1 DEF ServiceInv, StateInv, Quiet, At
<1>5. \A q \in Lifecycle \ {p} : RequestFinds(q)
  BY DEF ServiceInv, RequestInv
<1>6. CASE /\ Marks /\ state' = "degraded" /\ Goto(p, "drive")
           /\ losses' = [losses EXCEPT ![g] = [runs |-> leases, committed |-> FALSE,
                                               processing |-> FALSE, retrying |-> FALSE]]
  <2> DEFINE l == [runs |-> leases, committed |-> FALSE, processing |-> FALSE,
                   retrying |-> FALSE]
  <2>1. l \in Losses /\ l.runs = leases
    BY DEF Losses, TypeOK
  <2>2. LossBecomes(g, l)
    BY <1>2, <1>6, <2>1, LossSet
  <2>3. task'[p].pc = "drive" /\ \A q \in Tasks \ {p} : task'[q] = task[q]
    BY <1>6, GotoFields DEF Points
  <2>4. \A q \in Tasks : ~At(q, "mark")'
    BY <1>3, <2>3 DEF At, Holding
  <2>5. state' = "degraded" /\ Marks
    BY <1>6
  <2> HIDE DEF l
  <2>6. l # None
    BY <2>1, SupervisionAssumptions
  <2>7. RequestInv'
    <3> SUFFICES ASSUME NEW q \in Lifecycle PROVE RequestFinds(q)'
      BY DEF RequestInv
    <3>1. CASE q = p
      BY <2>3, <2>5, <3>1 DEF RequestFinds
    <3>2. CASE q # p
      <4>1. RequestFinds(q) /\ task'[q] = task[q] /\ task[q].pc \notin Holding
        BY <1>3, <1>5, <2>3, <3>2 DEF Tasks
      <4> QED
        BY <1>4, <2>5, <4>1 DEF RequestFinds, Marks, Holding
    <3> QED
      BY <3>1, <3>2
  <2>8. StateInv'
    BY <1>1, <1>4, <2>4, <2>5 DEF StateInv
  <2>9. LossReported'
    <3>1. \A r \in leases : served[r] = g
      <4> SUFFICES ASSUME NEW r \in leases PROVE served[r] = g
        OBVIOUS
      <4>1. state = "ready"
        BY <2>5 DEF Marks, ServiceInv, StateInv
      <4>2. \E q \in Tasks : At(q, "mark") /\ task[q].gen = current
        BY <1>4, <4>1 DEF ServiceInv, StateInv
      <4>3. g = current
        BY <1>3, <4>2 DEF At, Holding
      <4> QED
        BY <4>1, <4>3 DEF ServiceInv, StateInv
    <3>2. \A r \in leases' : \E h \in Gens : losses'[h] # None /\ r \in losses'[h].runs
      BY <1>1, <1>2, <2>1, <2>2, <2>6 DEF LossBecomes
    <3>3. \A h \in Gens : losses'[h] # None => \A r \in losses'[h].runs : served[r] \in broken
      BY <1>2, <2>1, <2>2, <3>1 DEF LossBecomes, ServiceInv, LossReported
    <3> QED
      BY <1>1, <3>2, <3>3 DEF ServiceInv, LossReported, OnlyBrokenIsLost
  <2> QED
    BY <2>7, <2>8, <2>9 DEF ServiceInv
<1>7. CASE /\ ~Marks /\ task' = [task EXCEPT ![p] = ReportOver(p)]
           /\ UNCHANGED <<state, losses>>
  <2>1. Becomes(p, ReportOver(p)) /\ ReportOver(p).pc # "mark"
    BY <1>7, ReportOverType, SetIs
  <2>2. \A q \in Tasks : ~At(q, "mark")'
    BY <1>3, <2>1 DEF At, Holding, Becomes
  <2>3. state # "ready" /\ state' = state /\ losses' = losses
    BY <1>7 DEF Marks
  <2>4. p \in Lifecycle => RequestFinds(p)'
    BY <2>1, <2>3, ReportOverType DEF RequestFinds, Becomes
  <2>5. RequestInv'
    BY <1>1, <1>4, <2>1, <2>3, <2>4, OtherRequests DEF Becomes
  <2>6. StateInv'
    BY <1>1, <1>4, <2>2, <2>3 DEF ServiceInv, StateInv
  <2>7. LossReported'
    BY <1>1, <2>3 DEF ServiceInv, LossReported, OnlyBrokenIsLost
  <2> QED
    BY <2>5, <2>6, <2>7 DEF ServiceInv
<1> QED
  BY <1>6, <1>7 DEF Mark

\* A step about the loss of g: its Runs stay in it, or Run control is told.
LEMMA LossService ==
  ASSUME SupervisionInv, ServiceInv, NEW p \in Tasks, NEW g \in Gens, losses[g] # None,
         NEW l \in Losses \cup {None}, LossBecomes(g, l), SameMarks,
         task[p].pc \in {"drive", "append", "notify"},
         \A q \in Lifecycle \ {p} : task'[q] = task[q],
         p \in Lifecycle => task'[p].pc \in {"drive", "append", "notify", "completeFailed"},
         \/ l # None /\ l.runs = losses[g].runs /\ notified' = notified
         \/ l = None /\ notified' = notified \cup losses[g].runs,
         UNCHANGED <<state, leases, handle, current, served, broken>>
  PROVE  ServiceInv'
<1>1. Quiet => Quiet'
  BY DEF Quiet, SameMarks
<1>2. StateInv'
  BY <1>1 DEF ServiceInv, StateInv, SameMarks
<1>3. RequestInv'
  <2> SUFFICES ASSUME NEW q \in Lifecycle PROVE RequestFinds(q)'
    BY DEF RequestInv
  <2>1. RequestFinds(q)
    BY DEF ServiceInv, RequestInv
  <2>2. CASE q = p
    BY <2>1, <2>2 DEF RequestFinds
  <2>3. CASE q # p
    BY <1>1, <2>1, <2>3 DEF RequestFinds
  <2> QED
    BY <2>2, <2>3
<1>4. LossReported'
  <2>1. \A r \in leases : (\E h \in Gens : losses[h] # None /\ r \in losses[h].runs) =>
           r \in notified' \/ \E h \in Gens : losses'[h] # None /\ r \in losses'[h].runs
    BY DEF LossBecomes
  <2>2. notified \subseteq notified'
    OBVIOUS
  <2>3. state' # "ready" => \A r \in leases' :
          r \in notified' \/ \E h \in Gens : losses'[h] # None /\ r \in losses'[h].runs
    BY <2>1, <2>2 DEF ServiceInv, LossReported
  <2>4. \A h \in Gens : losses'[h] # None => \A r \in losses'[h].runs : served[r] \in broken
    BY DEF LossBecomes, ServiceInv, LossReported
  <2>5. \A r \in notified' : served[r] \in broken
    BY DEF ServiceInv, LossReported, OnlyBrokenIsLost
  <2> QED
    BY <2>3, <2>4, <2>5 DEF LossReported, OnlyBrokenIsLost
<1> QED
  BY <1>2, <1>3, <1>4 DEF ServiceInv

LEMMA ReportOverMoves ==
  ASSUME SupervisionInv, NEW p \in Tasks, task[p].pc # "mark",
         task' = [task EXCEPT ![p] = ReportOver(p)]
  PROVE  /\ SameMarks /\ \A q \in Lifecycle \ {p} : task'[q] = task[q]
         /\ p \in Lifecycle => task'[p].pc = "completeFailed"
<1>1. Becomes(p, ReportOver(p)) /\ ReportOver(p).pc # "mark"
  BY ReportOverType, SetIs DEF SupervisionInv
<1>2. SameMarks
  BY <1>1, MarksKept
<1> QED
  BY <1>1, <1>2, ReportOverType DEF Becomes, SupervisionInv, Tasks

LEMMA DriveFailedService ==
  ASSUME SupervisionInv, ServiceInv, NEW p \in Tasks, NEW g \in Gens, g = task[p].gen,
         task[p].pc \in Driving, DriveFailed(p, g), UNCHANGED notified,
         UNCHANGED <<state, leases, handle, current, served, broken>>
  PROVE  ServiceInv'
<1> USE DEF SupervisionInv
<1>1. losses[g] # None /\ task[p].pc \in {"append", "notify"}
  BY DEF LossInv, Driving
<1>2. task \in [Tasks -> Task] /\ Retry(g) \in Tasks /\ Retry(g) \notin Lifecycle
  BY TaskNames DEF TypeOK, Task
<1>3. CASE p = Retry(g)
  <2>1. losses' = [losses EXCEPT ![g].processing = FALSE] /\ Goto(p, "drive")
    BY <1>3 DEF DriveFailed
  <2>2. PICK l \in Losses : LossBecomes(g, l) /\ l.runs = losses[g].runs
    BY <1>1, <2>1, LossProcessing
  <2>3. l # None
    BY SupervisionAssumptions
  <2>4. SameMarks /\ task'[p].pc = "drive" /\ \A q \in Lifecycle \ {p} : task'[q] = task[q]
    BY <1>1, <2>1, GotoFields, GotoMarks DEF Points, Tasks
  <2> QED
    BY <1>1, <2>2, <2>3, <2>4, LossService
<1>4. CASE p # Retry(g)
  <2>1. losses' = [losses EXCEPT ![g].processing = FALSE, ![g].retrying = TRUE]
    BY <1>4 DEF DriveFailed
  <2>2. PICK l \in Losses : LossBecomes(g, l) /\ l.runs = losses[g].runs
    BY <1>1, <2>1, LossRetrying
  <2>3. l # None
    BY SupervisionAssumptions
  <2>4. PICK t : /\ task' = [task EXCEPT ![p] = ReportOver(p), ![Retry(g)] = t]
                 /\ t = task[Retry(g)] \/ t = [pc |-> "drive", op |-> "none", gen |-> g]
    <3>1. CASE losses[g].retrying
      BY <1>2, <1>4, <3>1 DEF DriveFailed
    <3>2. CASE ~losses[g].retrying
      BY <1>4, <3>2 DEF DriveFailed
    <3> QED
      BY <3>1, <3>2
  <2>5. t.pc # "mark" /\ task[Retry(g)].pc # "mark"
    BY <2>4 DEF PlacesInv, Driving
  <2>6. /\ task'[p] = ReportOver(p) /\ task'[Retry(g)] = t
        /\ \A q \in Tasks \ {p, Retry(g)} : task'[q] = task[q]
    BY <1>2, <1>4, <2>4
  <2>7. ReportOver(p).pc # "mark" /\ (p \in Lifecycle => ReportOver(p).pc = "completeFailed")
    BY ReportOverType
  <2>8. SameMarks
    BY <1>1, <2>5, <2>6, <2>7 DEF SameMarks, At
  <2>9. \A q \in Lifecycle \ {p} : task'[q] = task[q]
    BY <1>2, <2>6 DEF Tasks
  <2> QED
    BY <1>1, <2>2, <2>3, <2>6, <2>7, <2>8, <2>9, LossService
<1> QED
  BY <1>3, <1>4

LEMMA DriveService ==
  ASSUME SupervisionInv, ServiceInv, NEW p \in Tasks, Drive(p)
  PROVE  ServiceInv'
<1> USE DEF SupervisionInv
<1> DEFINE g == task[p].gen
<1>1. /\ UNCHANGED <<handle, current, broken, served, notified, state, leases>>
      /\ task[p].pc = "drive"
  BY DEF Drive, At, registry, processes
<1>2. g \in Gens
  BY <1>1 DEF PlacesInv, WithGeneration, Reporting
<1>3. CASE task' = [task EXCEPT ![p] = ReportOver(p)] /\ UNCHANGED losses
  <2>1. /\ SameMarks /\ \A q \in Lifecycle \ {p} : task'[q] = task[q]
        /\ p \in Lifecycle => task'[p].pc = "completeFailed"
    BY <1>1, <1>3, ReportOverMoves
  <2>2. StateInv' /\ LossReported' /\ (Quiet => Quiet')
    BY <1>1, <1>3, <2>1, ServiceKept
  <2>3. RequestInv'
    BY <1>1, <2>1, <2>2 DEF ServiceInv, RequestInv, RequestFinds
  <2> QED
    BY <2>2, <2>3 DEF ServiceInv
<1>4. CASE /\ losses[g] # None /\ losses' = [losses EXCEPT ![g].processing = TRUE]
           /\ Goto(p, IF losses[g].committed THEN "notify" ELSE "append")
  <2>1. PICK l \in Losses : LossBecomes(g, l) /\ l.runs = losses[g].runs
    BY <1>2, <1>4, LossProcessing
  <2>2. l # None
    BY SupervisionAssumptions
  <2>3. PICK c \in {"append", "notify"} : Goto(p, c)
    BY <1>4
  <2>4. SameMarks /\ task'[p].pc = c /\ \A q \in Lifecycle \ {p} : task'[q] = task[q]
    BY <1>1, <2>3, GotoFields, GotoMarks DEF Points, Tasks
  <2> QED
    BY <1>1, <1>2, <1>4, <2>1, <2>2, <2>4, LossService
<1> QED
  BY <1>3, <1>4 DEF Drive

LEMMA DegradedEventService ==
  ASSUME SupervisionInv, ServiceInv, NEW p \in Tasks, DegradedEvent(p)
  PROVE  ServiceInv'
<1> USE DEF SupervisionInv
<1> DEFINE g == task[p].gen
<1>1. /\ UNCHANGED <<handle, current, broken, served, notified, state, leases>>
      /\ task[p].pc = "append"
  BY DEF DegradedEvent, At, registry, processes
<1>2. g \in Gens /\ task[p].pc \in Driving /\ losses[g] # None
  BY <1>1 DEF PlacesInv, WithGeneration, Reporting, LossInv, Driving
<1>3. CASE DriveFailed(p, g)
  BY <1>1, <1>2, <1>3, DriveFailedService
<1>4. CASE Committed(g) /\ Goto(p, "notify")
  <2>1. PICK l \in Losses : LossBecomes(g, l) /\ l.runs = losses[g].runs
    BY <1>2, <1>4, LossCommitted
  <2>2. l # None
    BY SupervisionAssumptions
  <2>3. SameMarks /\ task'[p].pc = "notify" /\ \A q \in Lifecycle \ {p} : task'[q] = task[q]
    BY <1>1, <1>4, GotoFields, GotoMarks DEF Points, Tasks
  <2> QED
    BY <1>1, <1>2, <2>1, <2>2, <2>3, LossService
<1> QED
  BY <1>3, <1>4 DEF DegradedEvent

LEMMA NotifyRunsService ==
  ASSUME SupervisionInv, ServiceInv, NEW p \in Tasks, NotifyRuns(p)
  PROVE  ServiceInv'
<1> USE DEF SupervisionInv
<1> DEFINE g == task[p].gen
<1>1. /\ UNCHANGED <<handle, current, broken, served, state, leases>>
      /\ task[p].pc = "notify"
  BY DEF NotifyRuns, At, registry, processes
<1>2. g \in Gens /\ task[p].pc \in Driving /\ losses[g] # None
  BY <1>1 DEF PlacesInv, WithGeneration, Reporting, LossInv, Driving
<1>3. CASE DriveFailed(p, g) /\ UNCHANGED notified
  BY <1>1, <1>2, <1>3, DriveFailedService
<1>4. CASE /\ notified' = notified \cup losses[g].runs
           /\ losses' = [losses EXCEPT ![g] = None]
           /\ task' = [task EXCEPT ![p] = ReportOver(p)]
  <2>1. LossBecomes(g, None)
    BY <1>2, <1>4, LossSet
  <2>2. /\ SameMarks /\ \A q \in Lifecycle \ {p} : task'[q] = task[q]
        /\ p \in Lifecycle => task'[p].pc = "completeFailed"
    BY <1>1, <1>4, ReportOverMoves
  <2> QED
    BY <1>1, <1>2, <1>4, <2>1, <2>2, LossService
<1> QED
  BY <1>3, <1>4 DEF NotifyRuns

-----------------------------------------------------------------------------
(* The service: processes, callers and Runs.                               *)

LEMMA OutsideService ==
  ASSUME SupervisionInv, ServiceInv, NEW p \in Tasks \ Lifecycle, NEW t, Becomes(p, t),
         task[p].pc # "mark", t.pc # "mark", broken \subseteq broken',
         UNCHANGED <<state, leases, handle, current, losses, notified, served>>
  PROVE  ServiceInv'
<1>1. SameMarks
  BY MarksKept
<1>2. StateInv' /\ LossReported' /\ (Quiet => Quiet')
  BY <1>1, ServiceKept
<1>3. RequestInv'
  BY <1>2, RequestsKept DEF Becomes, Tasks
<1> QED
  BY <1>2, <1>3 DEF ServiceInv

LEMMA ExitService ==
  ASSUME ServiceInv, NEW g \in Gens, Exit(g)
  PROVE  ServiceInv'
<1>1. /\ UNCHANGED <<state, leases, handle, current, losses, notified, served, task>>
      /\ broken \subseteq broken'
  BY DEF Exit, registry, reports
<1>2. SameMarks
  BY <1>1 DEF SameMarks, At
<1>3. StateInv' /\ LossReported' /\ (Quiet => Quiet')
  BY <1>1, <1>2, ServiceKept
<1>4. RequestInv'
  BY <1>1, <1>3, RequestsKept
<1> QED
  BY <1>3, <1>4 DEF ServiceInv

LEMMA PumpService ==
  ASSUME SupervisionInv, ServiceInv, NEW g \in Gens, Pump(g)
  PROVE  ServiceInv'
<1>1. /\ UNCHANGED <<state, leases, handle, current, losses, notified, served>>
      /\ broken \subseteq broken' /\ Goto(Watcher(g), "report")
      /\ task[Watcher(g)].pc = "pump"
  BY DEF Pump, registry, reports, At
<1>2. Watcher(g) \in Tasks \ Lifecycle
  BY TaskNames
<1>3. Becomes(Watcher(g), [pc |-> "report", op |-> task[Watcher(g)].op,
                           gen |-> task[Watcher(g)].gen])
  BY <1>1, <1>2, GotoIs DEF Points, SupervisionInv
<1> QED
  BY <1>1, <1>2, <1>3, OutsideService

LEMMA CallerService ==
  ASSUME SupervisionInv, ServiceInv, NEW p \in Callers, Invoke(p) \/ Answer(p)
  PROVE  ServiceInv'
<1>1. /\ UNCHANGED <<state, leases, handle, current, losses, notified, served>>
      /\ broken \subseteq broken' /\ task[p].pc # "mark"
  BY DEF Invoke, Answer, registry, reports, processes, At
<1>2. p \in Tasks \ Lifecycle
  BY SupervisionAssumptions DEF Tasks
<1>3. \E t : Becomes(p, t) /\ t.pc # "mark"
  <2>1. CASE task' = [task EXCEPT ![p] = [pc |-> "called", op |-> "none", gen |-> handle]]
    <3>1. [pc |-> "called", op |-> "none", gen |-> handle] \in Task
      BY DEF Task, Points, Ops, SupervisionInv, TypeOK
    <3>2. Becomes(p, [pc |-> "called", op |-> "none", gen |-> handle])
      BY <1>2, <2>1, <3>1, SetIs DEF SupervisionInv
    <3> QED
      BY <3>2
  <2>2. CASE Done(p)
    <3>1. Becomes(p, IdleTask)
      BY <1>2, <2>2, SetIs, IdleTaskType DEF SupervisionInv, Done
    <3> QED
      BY <3>1 DEF IdleTask
  <2>3. CASE Goto(p, "report")
    <3>1. Becomes(p, [pc |-> "report", op |-> task[p].op, gen |-> task[p].gen])
      BY <1>2, <2>3, GotoIs DEF SupervisionInv, Points
    <3> QED
      BY <3>1
  <2> QED
    BY <2>1, <2>2, <2>3 DEF Invoke, Answer
<1> QED
  BY <1>1, <1>2, <1>3, OutsideService

LEMMA RunService ==
  ASSUME SupervisionInv, ServiceInv, NEW r \in Runs, BeginRun(r) \/ EndRun(r)
  PROVE  ServiceInv'
<1>1. UNCHANGED <<state, handle, current, losses, notified, task, broken>>
  BY DEF BeginRun, EndRun, reports, processes
<1>2. SameMarks
  BY <1>1 DEF SameMarks, At
<1>3. Quiet => Quiet'
  BY <1>1, <1>2 DEF Quiet, SameMarks
<1>4. RequestInv'
  BY <1>1, <1>3, RequestsKept
<1>5. CASE EndRun(r)
  BY <1>1, <1>2, <1>4, <1>5, ServiceKept DEF EndRun, ServiceInv
<1>6. CASE BeginRun(r)
  <2>1. /\ state = "ready" /\ leases' = leases \cup {r} /\ served[r] = 0
        /\ served'[r] = current /\ \A s \in Runs \ {r} : served'[s] = served[s]
    BY <1>6 DEF BeginRun, SupervisionInv, TypeOK
  <2>2. StateInv'
    BY <1>1, <1>2, <1>3, <2>1 DEF ServiceInv, StateInv, SameMarks, SupervisionInv, TypeOK
  <2>3. 0 \notin broken
    BY NoGeneration DEF SupervisionInv, TypeOK
  <2>4. \A g \in Gens : losses[g] # None => losses[g].runs \subseteq Runs
    BY DEF SupervisionInv, TypeOK, Losses
  <2>5. LossReported'
    BY <1>1, <2>1, <2>3, <2>4
       DEF ServiceInv, LossReported, OnlyBrokenIsLost, SupervisionInv, TypeOK
  <2> QED
    BY <1>4, <2>2, <2>5 DEF ServiceInv
<1> QED
  BY <1>5, <1>6

LEMMA InitService == Init => ServiceInv
<1> SUFFICES ASSUME Init PROVE ServiceInv
  OBVIOUS
<1>1. \A p \in Tasks : task[p].pc = "idle"
  BY DEF Init, IdleTask
<1>2. RequestInv
  BY <1>1 DEF RequestInv, RequestFinds, Tasks
<1>3. StateInv
  BY <1>1 DEF Init, StateInv, Quiet, At
<1>4. LossReported
  BY DEF Init, LossReported, OnlyBrokenIsLost
<1> QED
  BY <1>2, <1>3, <1>4 DEF ServiceInv

LEMMA NextService ==
  SupervisionInv /\ SupervisionInv' /\ ServiceInv /\ OneRequest /\ [Next]_vars => ServiceInv'
<1> SUFFICES ASSUME SupervisionInv, SupervisionInv', ServiceInv, OneRequest, [Next]_vars
             PROVE  ServiceInv'
  OBVIOUS
<1>1. CASE UNCHANGED vars
  BY <1>1 DEF vars, ServiceInv, RequestInv, RequestFinds, StateInv, LossReported,
              OnlyBrokenIsLost, Quiet, At
<1>2. ASSUME NEW p \in Lifecycle, NEW op \in Ops \ {"none"}, Begin(p, op)
      PROVE  ServiceInv'
  BY <1>2, BeginService
<1>3. ASSUME NEW p \in Lifecycle, LifecycleStep(p)
      PROVE  ServiceInv'
  BY <1>3, LoadingService, StartingService, StoppingService, StopService, StoppedService,
     RemoveService, RestartingService, SpawnService, RegisterService, CompleteService,
     CommitService, RecheckService, StartFailedService DEF LifecycleStep, SupervisionInv
<1>4. ASSUME NEW p \in Callers, Invoke(p) \/ Answer(p)
      PROVE  ServiceInv'
  BY <1>4, CallerService
<1>5. ASSUME NEW p \in Tasks, ReportStep(p)
      PROVE  ServiceInv'
  BY <1>5, ReportService, MarkService, DriveService, DegradedEventService, NotifyRunsService
     DEF ReportStep
<1>6. ASSUME NEW g \in Gens, Exit(g) \/ Pump(g)
      PROVE  ServiceInv'
  BY <1>6, ExitService, PumpService
<1>7. ASSUME NEW r \in Runs, BeginRun(r) \/ EndRun(r)
      PROVE  ServiceInv'
  BY <1>7, RunService
<1> QED
  BY <1>1, <1>2, <1>3, <1>4, <1>5, <1>6, <1>7 DEF Next

LEMMA ServiceAlways == ASSUME OneRequest PROVE Spec => []ServiceInv
<1>1. Init => ServiceInv
  BY InitService
<1>2. SupervisionInv /\ SupervisionInv' /\ ServiceInv /\ [Next]_vars => ServiceInv'
  BY NextService
<1> QED
  BY <1>1, <1>2, SupervisionAlways, PTL DEF Spec

-----------------------------------------------------------------------------
(* The degraded events, for one request at a time.                         *)

\* Requests that have no process yet.
Unspawned == {"loading", "starting", "stopping", "stop", "restarting", "spawn"}

\* Some task is recording the loss of g.
Marking(g) == \E q \in Tasks : At(q, "mark") /\ task[q].gen = g

\* A start that failed finds last_failure set, or nothing has been and will be
\* recorded about its process but by the start itself.
Announced(p) ==
  LET g == task[p].gen
  IN  /\ task[p].pc \in Unspawned => g = 0
      /\ At(p, "startFailed") /\ g # 0 => degraded[g] = 0 /\ losses[g] = None
      /\ task[p].pc \in {"complete", "commit", "recheck", "report", "mark"} =>
           failed \/ (Marks /\ (handle = g \/ Marking(g)))
      /\ task[p].pc \in {"drive", "append", "notify"} => failed
      /\ At(p, "completeFailed") =>
           \/ failed
           \/ g # 0 /\ degraded[g] = 0 /\ losses[g] = None /\ handle # g /\ ~Marking(g)

AnnouncedInv == \A p \in Lifecycle : Announced(p)

\* A process whose loss may still be recorded has no degraded event.
CountInv ==
  /\ \A g \in Gens : degraded[g] \in {0, 1}
  /\ \A g \in Gens : g >= next \/ g = handle => degraded[g] = 0
  /\ \A g \in Gens : losses[g] # None /\ ~losses[g].committed => degraded[g] = 0
  /\ \A p \in Tasks : task[p].pc \in {"register", "mark"} => degraded[task[p].gen] = 0
  /\ \A p \in Tasks : At(p, "append") => ~losses[task[p].gen].committed

EventInv == CountInv /\ AnnouncedInv

LEMMA OnlyAnnounced ==
  ASSUME OneRequest, NEW p \in Lifecycle, Announced(p)'
  PROVE  AnnouncedInv'
BY DEF OneRequest, AnnouncedInv

\* No event is written, and no task but p moves.
LEMMA CountKept ==
  ASSUME SupervisionInv, CountInv, UNCHANGED <<degraded, losses>>,
         next' = next \/ next' = next + 1,
         handle' \in {0, handle} \/ degraded[handle'] = 0,
         NEW p \in Tasks, NEW t, Becomes(p, t), t.pc # "append",
         t.pc \in {"register", "mark"} => degraded[t.gen] = 0
  PROVE  CountInv'
<1>1. next \in Int /\ \A g \in Gens : g \in Int /\ g # 0
  BY SupervisionAssumptions DEF SupervisionInv, TypeOK, Gens
<1>2. \A g \in Gens : g >= next' \/ g = handle' => degraded[g] = 0
  BY <1>1 DEF CountInv
<1>3. \A q \in Tasks : /\ task'[q].pc \in {"register", "mark"} => degraded[task'[q].gen] = 0
                       /\ task'[q].pc = "append" => ~losses[task'[q].gen].committed
  BY DEF CountInv, Becomes, At
<1> QED
  BY <1>2, <1>3 DEF CountInv, At

\* A request moves while it has no process, or after it.
LEMMA RequestEvents ==
  ASSUME SupervisionInv, EventInv, OneRequest, NEW p \in Lifecycle, NEW t, Becomes(p, t),
         t.pc \in {"idle", "stopped", "remove"} \/ (t.pc \in Unspawned /\ t.gen = 0),
         handle' \in {0, handle}, UNCHANGED <<degraded, losses, next>>
  PROVE  EventInv'
<1>1. CountInv'
  BY CountKept DEF EventInv, Tasks, Unspawned
<1>2. Announced(p)'
  BY DEF Announced, Becomes, Unspawned, At
<1> QED
  BY <1>1, <1>2, OnlyAnnounced DEF EventInv

LEMMA EarlyEvents ==
  ASSUME SupervisionInv, EventInv, OneRequest, NEW p \in Lifecycle,
         \/ \E op \in Ops \ {"none"} : Begin(p, op)
         \/ Loading(p) \/ Starting(p) \/ Stopping(p) \/ Stop(p) \/ Stopped(p) \/ Remove(p)
         \/ Restarting(p)
  PROVE  EventInv'
<1> USE DEF SupervisionInv
<1>1. p \in Tasks /\ task \in [Tasks -> Task]
  BY DEF Tasks, TypeOK, Task
<1>2. UNCHANGED <<degraded, losses, next>> /\ handle' \in {0, handle}
  BY DEF Begin, Loading, Starting, Stopping, Stop, Stopped, Remove, Restarting, reports, processes
<1>3. ASSUME Done(p) PROVE EventInv'
  <2>1. Becomes(p, IdleTask)
    BY <1>1, <1>3, SetIs, IdleTaskType DEF Done
  <2> QED
    BY <1>2, <2>1, RequestEvents DEF IdleTask
<1>4. ASSUME NEW c \in {"starting", "stop", "restarting", "spawn"}, Goto(p, c),
             task[p].pc \in Unspawned
      PROVE  EventInv'
  <2>1. task[p].gen = 0
    BY <1>4 DEF EventInv, AnnouncedInv, Announced
  <2>2. Becomes(p, [pc |-> c, op |-> task[p].op, gen |-> task[p].gen])
    BY <1>1, <1>4, GotoIs DEF Points
  <2> QED
    BY <1>2, <2>1, <2>2, RequestEvents DEF Unspawned
<1>5. ASSUME NEW c \in {"stopped", "remove"}, Goto(p, c) PROVE EventInv'
  <2>1. Becomes(p, [pc |-> c, op |-> task[p].op, gen |-> task[p].gen])
    BY <1>1, <1>5, GotoIs DEF Points
  <2> QED
    BY <1>2, <2>1, RequestEvents
<1>6. ASSUME NEW op \in Ops \ {"none"}, Begin(p, op) PROVE EventInv'
  <2> DEFINE t == [pc |-> IF op = "load" THEN "loading" ELSE "stopping", op |-> op, gen |-> 0]
  <2>1. t \in Task /\ t.pc \in Unspawned /\ t.gen = 0
    BY DEF Task, Points, Unspawned
  <2>2. Becomes(p, t)
    BY <1>1, <1>6, <2>1, SetIs DEF Begin
  <2> QED
    BY <1>2, <2>1, <2>2, RequestEvents
<1>7. ASSUME task' = [task EXCEPT ![p].pc = "stop", ![p].op = "none"], At(p, "stopping")
      PROVE  EventInv'
  <2>1. Becomes(p, [pc |-> "stop", op |-> "none", gen |-> task[p].gen])
    BY <1>1, <1>7, SetPcOpIs DEF Points, Ops
  <2>2. task[p].gen = 0
    BY <1>7 DEF EventInv, AnnouncedInv, Announced, At, Unspawned
  <2> QED
    BY <1>2, <2>1, <2>2, RequestEvents DEF Unspawned
<1>8. CASE Loading(p) \/ Starting(p)
  BY <1>3, <1>4, <1>8 DEF Loading, Starting, At, Unspawned
<1>9. CASE Stopping(p)
  BY <1>3, <1>4, <1>7, <1>9 DEF Stopping, At, Unspawned
<1>10. CASE Stop(p)
  BY <1>3, <1>4, <1>5, <1>10 DEF Stop, At, Unspawned
<1>11. CASE Stopped(p) \/ Remove(p)
  BY <1>3, <1>5, <1>11 DEF Stopped, Remove
<1>12. CASE Restarting(p)
  BY <1>3, <1>4, <1>12 DEF Restarting, At, Unspawned
<1> QED
  BY <1>6, <1>8, <1>9, <1>10, <1>11, <1>12

LEMMA SpawnEvents ==
  ASSUME SupervisionInv, EventInv, OneRequest, NEW p \in Lifecycle, Spawn(p), TypeOK'
  PROVE  EventInv'
<1> USE DEF SupervisionInv
<1>1. /\ p \in Tasks /\ task \in [Tasks -> Task] /\ At(p, "spawn") /\ task[p].gen = 0
      /\ UNCHANGED <<degraded, losses, handle>>
  BY DEF Tasks, TypeOK, Task, Spawn, reports, EventInv, AnnouncedInv, Announced, At, Unspawned
<1>2. CASE Goto(p, "startFailed") /\ UNCHANGED next
  <2>1. Becomes(p, [pc |-> "startFailed", op |-> task[p].op, gen |-> task[p].gen])
    BY <1>1, <1>2, GotoIs DEF Points
  <2>2. CountInv'
    BY <1>1, <1>2, <2>1, CountKept DEF EventInv
  <2>3. Announced(p)'
    BY <1>1, <2>1 DEF Announced, Becomes, At, Unspawned
  <2> QED
    BY <2>2, <2>3, OnlyAnnounced DEF EventInv
<1>3. CASE next' = next + 1 /\ task' = [task EXCEPT ![p].pc = "register", ![p].gen = next]
  <2>1. next \in Gens
    BY <1>3, SupervisionAssumptions DEF TypeOK, Gens
  <2>2. Becomes(p, [pc |-> "register", op |-> task[p].op, gen |-> next])
    BY <1>1, <1>3, <2>1, SetPcGenIs DEF Points
  <2>3. degraded[next] = 0
    BY <2>1, SupervisionAssumptions DEF EventInv, CountInv, Gens
  <2>4. CountInv'
    BY <1>1, <1>3, <2>2, <2>3, CountKept DEF EventInv
  <2>5. Announced(p)'
    BY <2>2 DEF Announced, Becomes, At, Unspawned
  <2> QED
    BY <2>4, <2>5, OnlyAnnounced DEF EventInv
<1> QED
  BY <1>2, <1>3 DEF Spawn

LEMMA RegisterEvents ==
  ASSUME SupervisionInv, ServiceInv, EventInv, OneRequest, NEW p \in Lifecycle, Register(p)
  PROVE  EventInv'
<1> USE DEF SupervisionInv
<1> DEFINE g == task[p].gen
<1>1. /\ p \in Tasks /\ task \in [Tasks -> Task] /\ At(p, "register")
      /\ UNCHANGED <<degraded, losses, next, state, failed>>
  BY DEF Tasks, TypeOK, Task, Register, reports, registry
<1>2. g \in Gens /\ g # 0 /\ degraded[g] = 0 /\ losses[g] = None
  BY <1>1, NoGeneration DEF PlacesInv, WithGeneration, FreshInv, EventInv, CountInv, At
<1>3. CASE Goto(p, "startFailed") /\ UNCHANGED handle
  <2>1. Becomes(p, [pc |-> "startFailed", op |-> task[p].op, gen |-> g])
    BY <1>1, <1>3, GotoIs DEF Points
  <2>2. CountInv'
    BY <1>1, <1>3, <2>1, CountKept DEF EventInv
  <2>3. Announced(p)'
    BY <1>1, <1>2, <2>1 DEF Announced, Becomes, At, Unspawned
  <2> QED
    BY <2>2, <2>3, OnlyAnnounced DEF EventInv
<1>4. CASE /\ handle' = g
           /\ task' = [task EXCEPT ![p].pc = "complete",
                         ![Watcher(g)] = [pc |-> "pump", op |-> "none", gen |-> g]]
  <2>1. Watcher(g) \in Tasks /\ Watcher(g) # p
    BY <1>2, TaskNames
  <2>2. /\ task'[p].pc = "complete" /\ task'[p].gen = g /\ task'[Watcher(g)].pc = "pump"
        /\ \A q \in Tasks \ {p, Watcher(g)} : task'[q] = task[q]
    <3> DEFINE t == [pc |-> "pump", op |-> "none", gen |-> g]
    <3>1. t.pc = "pump"
      OBVIOUS
    <3>2. PICK h : h = g
      OBVIOUS
    <3>3. task' = [task EXCEPT ![p].pc = "complete", ![Watcher(h)] = t] /\ h = task[p].gen
      BY <1>4, <3>2
    <3> HIDE DEF t, g
    <3> QED
      BY <1>1, <2>1, <3>1, <3>2, <3>3 DEF Task
  <2>3. Marks' /\ handle' = g
    BY <1>1, <1>4 DEF ServiceInv, RequestInv, RequestFinds, Marks, At
  <2>4. Announced(p)'
    BY <2>2, <2>3 DEF Announced, At, Unspawned
  <2>5. CountInv'
    <3>1. \A q \in Tasks : task'[q].pc \in {"register", "mark", "append"} => task'[q] = task[q]
      BY <2>2
    <3>2. \A h \in Gens : h >= next' \/ h = handle' => degraded[h] = 0
      BY <1>1, <1>2, <2>3 DEF EventInv, CountInv
    <3> HIDE DEF g
    <3> QED
      BY <1>1, <3>1, <3>2 DEF EventInv, CountInv, At
  <2> QED
    BY <2>4, <2>5, OnlyAnnounced DEF EventInv
<1> QED
  BY <1>3, <1>4 DEF Register

\* A request moves on with its process: nothing is written.
LEMMA StartEvents ==
  ASSUME SupervisionInv, EventInv, OneRequest, NEW p \in Lifecycle,
         NEW c \in {"commit", "recheck", "report", "completeFailed"}, Goto(p, c),
         handle' \in {0, handle}, UNCHANGED <<degraded, losses, next>>, Announced(p)'
  PROVE  EventInv'
<1>1. p \in Tasks
  BY DEF Tasks
<1>2. Becomes(p, [pc |-> c, op |-> task[p].op, gen |-> task[p].gen])
  BY <1>1, GotoIs DEF Points, SupervisionInv
<1>3. CountInv'
  BY <1>1, <1>2, CountKept DEF EventInv
<1> QED
  BY <1>3, OnlyAnnounced DEF EventInv

LEMMA CompleteEvents ==
  ASSUME SupervisionInv, ServiceInv, EventInv, OneRequest, NEW p \in Lifecycle, Complete(p)
  PROVE  EventInv'
<1> USE DEF SupervisionInv
<1> DEFINE g == task[p].gen
<1>1. /\ p \in Tasks /\ At(p, "complete") /\ transition = None
      /\ UNCHANGED <<degraded, losses, next, state, failed, handle>>
  BY DEF Tasks, Complete, reports, registry
<1>2. g \in Gens /\ g # 0 /\ state # "ready"
  BY <1>1, NoGeneration DEF PlacesInv, WithGeneration, ServiceInv, RequestInv, RequestFinds, At
<1>3. failed \/ (Marks /\ handle = g)
  <2>1. ~Marking(g)
    BY <1>1, SupervisionAssumptions DEF Marking, LossInv, Holding, At
  <2> QED
    BY <1>1, <2>1 DEF EventInv, AnnouncedInv, Announced, At
<1>4. ASSUME NEW c \in {"commit", "report", "completeFailed"}, Goto(p, c),
             c = "completeFailed" => failed
      PROVE  EventInv'
  <2>1. task'[p].pc = c /\ task'[p].gen = g
    BY <1>1, <1>4, GotoFields DEF Points
  <2>2. Announced(p)'
    BY <1>1, <1>3, <1>4, <2>1 DEF Announced, At, Unspawned, Marks
  <2> QED
    BY <1>1, <1>4, <2>2, StartEvents
<1>5. handle # g \/ state # "starting" => failed
  BY <1>2, <1>3 DEF Marks
<1> QED
  BY <1>4, <1>5 DEF Complete

LEMMA CommitEvents ==
  ASSUME SupervisionInv, ServiceInv, EventInv, OneRequest, NEW p \in Lifecycle, Commit(p)
  PROVE  EventInv'
<1> USE DEF SupervisionInv
<1> DEFINE g == task[p].gen
<1>1. /\ p \in Tasks /\ At(p, "commit") /\ UNCHANGED <<degraded, losses, next>>
  BY DEF Tasks, Commit, reports
<1>2. /\ g \in Gens /\ g # 0 /\ handle = g /\ losses[g] = None /\ degraded[g] = 0
      /\ state = "starting"
  BY <1>1, NoGeneration DEF PlacesInv, WithGeneration, HandleInv, ServiceInv, RequestInv,
                            RequestFinds, At, EventInv, CountInv
<1>3. \A q \in Tasks : ~At(q, "mark")
  BY <1>1 DEF LossInv, Holding, At
<1>4. ASSUME NEW c \in {"recheck", "report", "completeFailed"}, Goto(p, c)
      PROVE  task'[p].pc = c /\ task'[p].gen = g /\ ~Marking(g)'
  <2>1. task'[p].pc = c /\ task'[p].gen = g /\ \A q \in Tasks \ {p} : task'[q] = task[q]
    BY <1>1, <1>4, GotoFields DEF Points
  <2> QED
    BY <1>3, <2>1 DEF Marking, At
<1>5. CASE handle' = 0 /\ Goto(p, "completeFailed")
  <2>1. Announced(p)'
    BY <1>1, <1>2, <1>4, <1>5 DEF Announced, At, Unspawned
  <2> QED
    BY <1>1, <1>5, <2>1, StartEvents
<1>6. CASE /\ g \in lost /\ Goto(p, "report") /\ UNCHANGED <<registry, handle>>
  <2>1. Announced(p)'
    BY <1>2, <1>4, <1>6 DEF Announced, At, Unspawned, Marks, registry
  <2> QED
    BY <1>1, <1>6, <2>1, StartEvents
<1>7. CASE SetState("ready") /\ Goto(p, "recheck") /\ UNCHANGED handle
  <2>1. state' = "ready" /\ handle' = g
    BY <1>2, <1>7 DEF SetState
  <2>2. Announced(p)'
    BY <1>4, <1>7, <2>1 DEF Announced, At, Unspawned, Marks
  <2> QED
    BY <1>1, <1>7, <2>2, StartEvents
<1> QED
  BY <1>2, <1>5, <1>6, <1>7 DEF Commit

LEMMA RecheckEvents ==
  ASSUME SupervisionInv, ServiceInv, EventInv, OneRequest, NEW p \in Lifecycle, Recheck(p)
  PROVE  EventInv'
<1> USE DEF SupervisionInv
<1>1. /\ p \in Tasks /\ At(p, "recheck")
      /\ UNCHANGED <<degraded, losses, next, handle, state, failed>>
  BY DEF Tasks, Recheck, reports, registry
<1>2. handle = task[p].gen /\ state = "ready"
  BY <1>1 DEF HandleInv, ServiceInv, RequestInv, RequestFinds, At
<1>3. CASE Goto(p, "report")
  <2>1. task'[p].pc = "report" /\ task'[p].gen = task[p].gen
    BY <1>1, <1>3, GotoFields DEF Points
  <2>2. Announced(p)'
    BY <1>1, <1>2, <2>1 DEF Announced, At, Unspawned, Marks
  <2> QED
    BY <1>1, <1>3, <2>2, StartEvents
<1>4. CASE Done(p)
  <2>1. Becomes(p, IdleTask)
    BY <1>1, <1>4, SetIs, IdleTaskType DEF Done
  <2> QED
    BY <1>1, <2>1, RequestEvents DEF IdleTask
<1> QED
  BY <1>3, <1>4 DEF Recheck

LEMMA StartFailedEvents ==
  ASSUME SupervisionInv, ServiceInv, EventInv, OneRequest, NEW p \in Lifecycle, StartFailed(p)
  PROVE  EventInv'
<1> USE DEF SupervisionInv
<1> DEFINE g == task[p].gen
<1>1. /\ p \in Tasks /\ task[p].pc \in {"startFailed", "completeFailed"}
      /\ UNCHANGED <<losses, next, handle>>
  BY DEF Tasks, StartFailed, processes, At
<1>2. Becomes(p, IdleTask)
  BY <1>1, SetIs, IdleTaskType DEF StartFailed, Done
<1>3. CASE degraded' = degraded
  BY <1>1, <1>2, <1>3, RequestEvents DEF IdleTask
<1>4. CASE /\ ~(At(p, "completeFailed") /\ failed)
           /\ degraded' = [x \in Gens |-> IF x = g THEN degraded[x] + 1 ELSE degraded[x]]
  <2>1. CASE g = 0
    <3>1. degraded' = degraded
      <4>1. \A x \in Gens : x # g
        BY <2>1, NoGeneration
      <4>2. degraded \in [Gens -> Nat]
        BY DEF TypeOK
      <4> QED
        BY <1>4, <4>1, <4>2
    <3> QED
      BY <1>3, <3>1
  <2>2. CASE g # 0
    <3>1. g \in Gens /\ g < next
      BY <1>1, <2>2 DEF TypeOK, NextInv
    <3>2. degraded[g] = 0 /\ losses[g] = None /\ handle # g /\ ~Marking(g)
      <4>1. CASE At(p, "startFailed")
        BY <2>2, <4>1 DEF EventInv, AnnouncedInv, Announced, ServiceInv, RequestInv,
                          RequestFinds, Quiet, Marking, At
      <4>2. CASE At(p, "completeFailed")
        BY <1>4, <4>2 DEF EventInv, AnnouncedInv, Announced
      <4> QED
        BY <1>1, <4>1, <4>2 DEF At
    <3>3. degraded'[g] = 1 /\ \A x \in Gens \ {g} : degraded'[x] = degraded[x]
      BY <1>4, <3>1, <3>2
    <3>4. \A q \in Tasks \ {p} : task[q].pc \in {"register", "mark"} =>
            task[q].gen \in Gens \ {g}
      <4> SUFFICES ASSUME NEW q \in Tasks \ {p}, task[q].pc \in {"register", "mark"}
                   PROVE  task[q].gen \in Gens \ {g}
        OBVIOUS
      <4>1. task[q].gen \in Gens
        BY DEF PlacesInv, WithGeneration, Reporting
      <4>2. At(q, "register") => q \in Lifecycle
        BY TaskKinds DEF PlacesInv, Reporting, Driving, At
      <4>3. At(q, "mark") => task[q].gen # g
        BY <3>2 DEF Marking
      <4> QED
        BY <4>1, <4>2, <4>3 DEF OneRequest, At
    <3>5. g \in Int /\ next \in Int
      BY <3>1, SupervisionAssumptions DEF TypeOK, Gens
    <3>6. CountInv'
      <4>1. \A x \in Gens : degraded'[x] \in {0, 1}
        BY <3>3 DEF EventInv, CountInv
      <4>2. \A x \in Gens : x >= next' \/ x = handle' => degraded'[x] = 0
        BY <1>1, <3>1, <3>2, <3>3, <3>5 DEF EventInv, CountInv
      <4>3. \A x \in Gens : losses'[x] # None /\ ~losses'[x].committed => degraded'[x] = 0
        BY <1>1, <3>2, <3>3 DEF EventInv, CountInv
      <4>4. \A q \in Tasks : task'[q].pc \in {"register", "mark"} => degraded'[task'[q].gen] = 0
        BY <1>2, <3>3, <3>4 DEF EventInv, CountInv, Becomes, IdleTask
      <4>5. \A q \in Tasks : At(q, "append")' => ~losses'[task'[q].gen].committed
        BY <1>1, <1>2 DEF EventInv, CountInv, Becomes, IdleTask, At
      <4> QED
        BY <4>1, <4>2, <4>3, <4>4, <4>5 DEF CountInv
    <3>7. Announced(p)'
      BY <1>2 DEF Announced, Becomes, IdleTask, At, Unspawned
    <3> QED
      BY <3>6, <3>7, OnlyAnnounced DEF EventInv
  <2> QED
    BY <2>1, <2>2
<1> QED
  BY <1>3, <1>4 DEF StartFailed

-----------------------------------------------------------------------------
(* The degraded events: the reports.                                       *)

LEMMA SameMarking ==
  ASSUME SameMarks
  PROVE  \A g : Marking(g)' <=> Marking(g)
BY DEF SameMarks, Marking

\* The step of p leaves what the others rely on.
LEMMA OthersAnnounced ==
  ASSUME AnnouncedInv, NEW p \in Tasks, \A q \in Lifecycle \ {p} : task'[q] = task[q],
         SameMarks, p \in Lifecycle => Announced(p)',
         \A q \in Lifecycle \ {p} : \A g \in Gens : g = task[q].gen /\ losses[g] = None =>
           degraded'[g] = degraded[g] /\ losses'[g] = None,
         \A q \in Tasks : task[q].gen \in Gens \cup {0},
         UNCHANGED <<handle, state, failed>>
  PROVE  AnnouncedInv'
<1> SUFFICES ASSUME NEW q \in Lifecycle \ {p} PROVE Announced(q)'
  BY DEF AnnouncedInv
<1>1. Announced(q) /\ task'[q] = task[q] /\ q \in Tasks
  BY DEF AnnouncedInv, Tasks
<1>2. Marking(task[q].gen)' <=> Marking(task[q].gen)
  <2>1. PICK g : g = task[q].gen
    OBVIOUS
  <2>2. Marking(g)' <=> Marking(g)
    BY SameMarking
  <2>3. task'[q].gen = g
    BY <1>1, <2>1
  <2> QED
    BY <2>1, <2>2, <2>3 DEF Marking
<1> QED
  BY <1>1, <1>2 DEF Announced, At, Marks

LEMMA ReportEvents ==
  ASSUME SupervisionInv, EventInv, OneRequest, NEW p \in Tasks, Report(p)
  PROVE  EventInv'
<1> USE DEF SupervisionInv
<1> DEFINE g == task[p].gen
<1>1. /\ At(p, "report") /\ transition = None
      /\ UNCHANGED <<degraded, losses, next, state, failed>>
  BY DEF Report, reports, registry
<1>2. g \in Gens /\ g # 0
  BY <1>1, NoGeneration DEF PlacesInv, WithGeneration, Reporting, At
<1>3. \A q \in Tasks : ~At(q, "mark") /\ task[q].gen \in Gens \cup {0}
  BY <1>1, SupervisionAssumptions DEF LossInv, Holding, At, TypeOK
<1>4. CASE /\ handle = g /\ handle' = 0
           /\ task' = [task EXCEPT ![p].pc = "mark", ![p].gen = handle]
  <2>1. Becomes(p, [pc |-> "mark", op |-> task[p].op, gen |-> handle])
    BY <1>2, <1>4, SetPcGenIs DEF Points
  <2>2. /\ task'[p].pc = "mark" /\ task'[p].gen = g
        /\ \A q \in Tasks \ {p} : task'[q] = task[q]
    <3>1. handle = g
      BY <1>4
    <3> QED
      BY <2>1, <3>1 DEF Becomes
  <2>3. degraded[handle] = 0 /\ handle = g /\ handle' = 0
    BY <1>2, <1>4 DEF EventInv, CountInv
  <2>4. CountInv'
    BY <1>1, <2>1, <2>3, CountKept DEF EventInv
  <2>5. Marking(g)' /\ \A h \in Gens \ {g} : ~Marking(h)'
    BY <1>3, <2>2 DEF Marking, At
  <2>6. AnnouncedInv'
    <3> SUFFICES ASSUME NEW q \in Lifecycle PROVE Announced(q)'
      BY DEF AnnouncedInv
    <3>1. Announced(q) /\ q \in Tasks
      BY DEF EventInv, AnnouncedInv, Tasks
    <3>2. ~Marking(task[q].gen)
      BY <1>3 DEF Marking
    <3>3. CASE q = p
      BY <1>1, <2>2, <2>3, <2>5, <3>1, <3>2, <3>3 DEF Announced, At, Marks, Unspawned
    <3>4. CASE q # p
      <4>1. task'[q] = task[q] /\ task[q].gen \in Gens \cup {0}
        BY <1>3, <2>2, <3>1, <3>4
      <4>2. task[q].gen = g => Marking(task[q].gen)'
        BY <2>2, <4>1 DEF Marking, At
      <4>3. task[q].gen \in Gens \ {g} => ~Marking(task[q].gen)'
        BY <2>5, <4>1 DEF Marking
      <4>4. task[q].gen = 0 /\ At(q, "completeFailed") => failed
        BY <3>1 DEF Announced
      <4>5. task[q].pc \in {"complete", "commit", "recheck", "report", "mark"} =>
              task[q].gen \in Gens
        BY <3>1 DEF PlacesInv, WithGeneration, Reporting
      <4> HIDE DEF g
      <4> QED
        BY <1>1, <2>3, <3>1, <3>2, <4>1, <4>2, <4>3, <4>4, <4>5
           DEF Announced, At, Marks, Unspawned
    <3> QED
      BY <3>3, <3>4
  <2> QED
    BY <2>4, <2>6 DEF EventInv
<1>5. CASE /\ ~(losses[g] = None /\ handle = g)
           /\ task' = [task EXCEPT ![p] = ReportOver(p)] /\ UNCHANGED handle
  <2>1. Becomes(p, ReportOver(p)) /\ ReportOver(p).pc \in {"idle", "completeFailed"}
    BY <1>5, ReportOverType, SetIs
  <2>2. CountInv'
    BY <1>1, <1>5, <2>1, CountKept DEF EventInv
  <2>3. SameMarks /\ \A q \in Lifecycle \ {p} : task'[q] = task[q]
    BY <1>1, <2>1, MarksKept DEF At, Becomes, Tasks
  <2>4. handle # g
    BY <1>2, <1>5 DEF HandleInv
  <2>5. ASSUME p \in Lifecycle PROVE Announced(p)'
    <3>1. failed
      BY <1>1, <1>3, <2>4, <2>5 DEF EventInv, AnnouncedInv, Announced, At, Marking
    <3>2. task'[p].pc = "completeFailed"
      BY <2>1, <2>5, ReportOverType DEF Becomes
    <3> QED
      BY <1>1, <3>1, <3>2 DEF Announced, At, Unspawned
  <2> QED
    BY <1>1, <1>3, <1>5, <2>2, <2>3, <2>5, OthersAnnounced DEF EventInv
<1> QED
  BY <1>4, <1>5 DEF Report, SameGeneration

LEMMA MarkEvents ==
  ASSUME SupervisionInv, ServiceInv, EventInv, OneRequest, NEW p \in Tasks, Mark(p)
  PROVE  EventInv'
<1> USE DEF SupervisionInv
<1> DEFINE g == task[p].gen
<1>1. At(p, "mark") /\ UNCHANGED <<degraded, next, handle>>
  BY DEF Mark
<1>2. g \in Gens /\ degraded[g] = 0 /\ losses[g] = None
  BY <1>1 DEF PlacesInv, WithGeneration, Reporting, At, EventInv, CountInv, LossInv
<1>3. \A q \in Tasks \ {p} : task[q].pc \notin Holding
  BY <1>1 DEF LossInv, Holding, At
<1>4. handle = 0 /\ ~Quiet
  BY <1>1 DEF ServiceInv, StateInv, Quiet, At
<1>5. CASE /\ failed' = TRUE /\ Goto(p, "drive")
           /\ losses' = [losses EXCEPT ![g] = [runs |-> leases, committed |-> FALSE,
                                               processing |-> FALSE, retrying |-> FALSE]]
  <2> DEFINE l == [runs |-> leases, committed |-> FALSE, processing |-> FALSE,
                   retrying |-> FALSE]
  <2>1. l \in Losses /\ ~l.committed
    BY DEF Losses, TypeOK
  <2>2. LossBecomes(g, l)
    BY <1>2, <1>5, <2>1, LossSet
  <2>3. task'[p].pc = "drive" /\ \A q \in Tasks \ {p} : task'[q] = task[q]
    BY <1>5, GotoFields DEF Points
  <2> HIDE DEF l
  <2>4. CountInv'
    <3>1. \A h \in Gens : losses'[h] # None /\ ~losses'[h].committed => degraded[h] = 0
      BY <1>2, <2>2 DEF LossBecomes, EventInv, CountInv
    <3>2. \A q \in Tasks : task'[q].pc \in {"register", "mark"} => degraded[task'[q].gen] = 0
      BY <2>3 DEF EventInv, CountInv
    <3>3. ASSUME NEW q \in Tasks, At(q, "append")' PROVE ~losses'[task'[q].gen].committed
      <4>1. q # p /\ task'[q] = task[q] /\ At(q, "append")
        BY <2>3, <3>3 DEF At
      <4>2. task[q].gen \in Gens \ {g} /\ ~losses[task[q].gen].committed
        BY <1>2, <4>1 DEF PlacesInv, WithGeneration, Reporting, LossInv, Driving, At, EventInv,
                          CountInv
      <4> QED
        BY <2>2, <4>1, <4>2 DEF LossBecomes
    <3> QED
      BY <1>1, <3>1, <3>2, <3>3 DEF EventInv, CountInv
  <2>5. AnnouncedInv'
    <3> SUFFICES ASSUME NEW q \in Lifecycle PROVE Announced(q)'
      BY DEF AnnouncedInv
    <3>1. CASE q = p
      BY <1>5, <2>3, <3>1 DEF Announced, At, Unspawned
    <3>2. CASE q # p
      <4>1. task'[q] = task[q] /\ Announced(q) /\ RequestFinds(q)
        BY <2>3, <3>2 DEF Tasks, EventInv, AnnouncedInv, ServiceInv, RequestInv
      <4>2. ~At(q, "startFailed")
        BY <1>4, <4>1 DEF RequestFinds, At
      <4> QED
        BY <1>5, <4>1, <4>2 DEF Announced, At, Unspawned
    <3> QED
      BY <3>1, <3>2
  <2> QED
    BY <2>4, <2>5 DEF EventInv
<1>6. CASE /\ ~Marks /\ task' = [task EXCEPT ![p] = ReportOver(p)]
           /\ UNCHANGED <<state, failed, losses>>
  <2>1. Becomes(p, ReportOver(p)) /\ ReportOver(p).pc \in {"idle", "completeFailed"}
    BY <1>6, ReportOverType, SetIs
  <2>2. CountInv'
    BY <1>1, <1>6, <2>1, CountKept DEF EventInv
  <2>3. \A q \in Tasks : ~At(q, "mark")'
    BY <1>3, <2>1 DEF At, Holding, Becomes
  <2>4. AnnouncedInv'
    <3> SUFFICES ASSUME NEW q \in Lifecycle PROVE Announced(q)'
      BY DEF AnnouncedInv
    <3>1. Announced(q) /\ q \in Tasks
      BY DEF EventInv, AnnouncedInv, Tasks
    <3>2. task[q].pc \in {"complete", "commit", "recheck", "report", "mark"} => failed
      BY <1>6, <3>1 DEF Announced
    <3>3. CASE q = p
      <4>1. failed' /\ task'[q].pc = "completeFailed"
        BY <1>1, <1>6, <2>1, <3>2, <3>3, ReportOverType DEF At, Becomes
      <4> QED
        BY <4>1 DEF Announced, At, Unspawned
    <3>4. CASE q # p
      <4>1. task'[q] = task[q] /\ ~Marking(task[q].gen)'
        BY <2>1, <2>3, <3>1, <3>4 DEF Becomes, Marking
      <4> QED
        BY <1>1, <1>6, <3>1, <3>2, <4>1 DEF Announced, At, Unspawned
    <3> QED
      BY <3>3, <3>4
  <2> QED
    BY <2>2, <2>4 DEF EventInv
<1> QED
  BY <1>5, <1>6 DEF Mark

\* A step about the loss of g, in which p has the loss.
LEMMA LossEvents ==
  ASSUME SupervisionInv, EventInv, NEW p \in Tasks, NEW g \in Gens, losses[g] # None,
         g = task[p].gen, task[p].pc \in {"drive", "append", "notify"},
         NEW l \in Losses \cup {None}, LossBecomes(g, l),
         \/ degraded' = degraded /\ (l # None => l.committed = losses[g].committed)
         \/ /\ At(p, "append") /\ degraded' = [degraded EXCEPT ![g] = @ + 1]
            /\ l # None => l.committed,
         SameMarks, \A q \in Lifecycle \ {p} : task'[q] = task[q],
         p \in Lifecycle => task'[p].pc \in {"append", "notify", "completeFailed"},
         \A q \in Tasks : task'[q].pc = "register" => task'[q] = task[q],
         \A q \in Tasks : At(q, "append")' => \/ task'[q].gen = g /\ l # None /\ ~l.committed
                                              \/ q # p /\ task'[q] = task[q],
         task[p].pc \in Driving \/ ~losses[g].processing,
         UNCHANGED <<handle, state, failed, next>>
  PROVE  EventInv'
<1> USE DEF SupervisionInv
<1>1. g \in Int /\ next \in Int /\ g < next /\ handle # g /\ g # 0
  BY SupervisionAssumptions, NoGeneration DEF TypeOK, Gens, NextInv, HandleInv
<1>2. /\ \A h \in Gens \ {g} : degraded'[h] = degraded[h] /\ losses'[h] = losses[h]
      /\ degraded'[g] \in {0, 1} /\ losses'[g] = l
      /\ l # None /\ ~l.committed => degraded'[g] = 0
  <2>1. At(p, "append") => degraded[g] = 0
    BY DEF EventInv, CountInv
  <2>2. degraded \in [Gens -> Nat]
    BY DEF TypeOK
  <2>3. CASE degraded' = degraded
    BY <2>3 DEF EventInv, CountInv, LossBecomes
  <2>4. CASE At(p, "append") /\ degraded' = [degraded EXCEPT ![g] = @ + 1] /\ (l # None => l.committed)
    BY <2>1, <2>2, <2>4 DEF LossBecomes
  <2> QED
    BY <2>3, <2>4
<1>3. \A q \in Tasks : /\ task[q].pc \in {"register", "mark"} => task[q].gen \in Gens \ {g}
                       /\ At(q, "append") => task[q].gen \in Gens
  BY DEF PlacesInv, WithGeneration, Reporting, FreshInv, LossInv, At
<1>4. CountInv'
  <2>1. \A h \in Gens : degraded'[h] \in {0, 1}
    BY <1>2 DEF EventInv, CountInv
  <2>2. \A h \in Gens : h >= next' \/ h = handle' => degraded'[h] = 0
    BY <1>1, <1>2 DEF EventInv, CountInv
  <2>3. \A h \in Gens : losses'[h] # None /\ ~losses'[h].committed => degraded'[h] = 0
    BY <1>2 DEF EventInv, CountInv
  <2>4. \A q \in Tasks : task'[q].pc \in {"register", "mark"} => degraded'[task'[q].gen] = 0
    BY <1>2, <1>3 DEF EventInv, CountInv, SameMarks, At
  <2>5. ASSUME NEW q \in Tasks, At(q, "append")' PROVE ~losses'[task'[q].gen].committed
    <3>1. CASE task'[q].gen = g /\ l # None /\ ~l.committed
      BY <1>2, <3>1
    <3>2. CASE q # p /\ task'[q] = task[q]
      <4>1. At(q, "append") /\ task[q].gen \in Gens /\ ~losses[task[q].gen].committed
        BY <1>3, <2>5, <3>2 DEF At, EventInv, CountInv
      <4>2. task[q].gen # g
        BY <3>2, <4>1 DEF LossInv, Driving, At
      <4> QED
        BY <1>2, <3>2, <4>1, <4>2
    <3> QED
      BY <2>5, <3>1, <3>2
  <2> QED
    BY <2>1, <2>2, <2>3, <2>4, <2>5 DEF CountInv
<1>5. AnnouncedInv'
  <2>1. p \in Lifecycle => Announced(p)'
    BY DEF Announced, EventInv, AnnouncedInv, At, Unspawned
  <2>2. \A q \in Lifecycle \ {p} : \A h \in Gens : h = task[q].gen /\ losses[h] = None =>
          degraded'[h] = degraded[h] /\ losses'[h] = None
    BY <1>2
  <2>3. \A q \in Tasks : task[q].gen \in Gens \cup {0}
    BY DEF TypeOK
  <2> QED
    BY <2>1, <2>2, <2>3, OthersAnnounced DEF EventInv
<1> QED
  BY <1>4, <1>5 DEF EventInv

LEMMA DriveFailedEvents ==
  ASSUME SupervisionInv, EventInv, NEW p \in Tasks, NEW g \in Gens, g = task[p].gen,
         task[p].pc \in Driving, DriveFailed(p, g), UNCHANGED degraded,
         UNCHANGED <<handle, state, failed, next>>
  PROVE  EventInv'
<1> USE DEF SupervisionInv
<1>1. losses[g] # None /\ task[p].pc \in {"append", "notify"}
  BY DEF LossInv, Driving
<1>2. task \in [Tasks -> Task] /\ Retry(g) \in Tasks /\ Retry(g) \notin Lifecycle
  BY TaskNames DEF TypeOK, Task
<1>3. CASE p = Retry(g)
  <2>1. losses' = [losses EXCEPT ![g].processing = FALSE] /\ Goto(p, "drive")
    BY <1>3 DEF DriveFailed
  <2>2. PICK l \in Losses : LossBecomes(g, l) /\ l.committed = losses[g].committed
    BY <1>1, <2>1, LossProcessing
  <2>3. SameMarks
    BY <1>1, <2>1, GotoMarks DEF Points
  <2>4. task'[p].pc = "drive" /\ \A q \in Tasks \ {p} : task'[q] = task[q]
    BY <2>1, GotoFields DEF Points
  <2> QED
    BY <1>1, <1>2, <1>3, <2>2, <2>3, <2>4, LossEvents DEF At, Tasks
<1>4. CASE p # Retry(g)
  <2>1. losses' = [losses EXCEPT ![g].processing = FALSE, ![g].retrying = TRUE]
    BY <1>4 DEF DriveFailed
  <2>2. PICK l \in Losses : LossBecomes(g, l) /\ l.committed = losses[g].committed
    BY <1>1, <2>1, LossRetrying
  <2>3. PICK t : /\ task' = [task EXCEPT ![p] = ReportOver(p), ![Retry(g)] = t]
                 /\ t = task[Retry(g)] \/ t = [pc |-> "drive", op |-> "none", gen |-> g]
    <3>1. CASE losses[g].retrying
      BY <1>2, <1>4, <3>1 DEF DriveFailed
    <3>2. CASE ~losses[g].retrying
      BY <1>4, <3>2 DEF DriveFailed
    <3> QED
      BY <3>1, <3>2
  <2>4. t.pc # "mark" /\ task[Retry(g)].pc # "mark" /\ (t = task[Retry(g)] \/ t.pc = "drive")
    BY <2>3 DEF PlacesInv, Driving
  <2>5. /\ task'[p] = ReportOver(p) /\ task'[Retry(g)] = t
        /\ \A q \in Tasks \ {p, Retry(g)} : task'[q] = task[q]
    BY <1>2, <1>4, <2>3
  <2>6. /\ ReportOver(p).pc \in {"idle", "completeFailed"}
        /\ p \in Lifecycle => ReportOver(p).pc = "completeFailed"
    BY ReportOverType
  <2>7. SameMarks
    BY <1>1, <2>4, <2>5, <2>6 DEF SameMarks, At
  <2>8. \A q \in Lifecycle \ {p} : task'[q] = task[q]
    BY <1>2, <2>5 DEF Tasks
  <2>9. \A q \in Tasks : task'[q].pc \in {"register", "append"} => q # p /\ task'[q] = task[q]
    BY <2>4, <2>5, <2>6
  <2> QED
    BY <1>1, <2>2, <2>5, <2>6, <2>7, <2>8, <2>9, LossEvents DEF At
<1> QED
  BY <1>3, <1>4

LEMMA DriveEvents ==
  ASSUME SupervisionInv, EventInv, NEW p \in Tasks, Drive(p)
  PROVE  EventInv'
<1> USE DEF SupervisionInv
<1> DEFINE g == task[p].gen
<1>1. At(p, "drive") /\ UNCHANGED <<degraded, handle, state, failed, next>>
  BY DEF Drive, registry, processes
<1>2. g \in Gens
  BY <1>1 DEF PlacesInv, WithGeneration, Reporting, At
<1>3. CASE task' = [task EXCEPT ![p] = ReportOver(p)] /\ UNCHANGED losses
  <2>1. Becomes(p, ReportOver(p)) /\ ReportOver(p).pc \in {"idle", "completeFailed"}
    BY <1>3, ReportOverType, SetIs
  <2>2. CountInv'
    BY <1>1, <1>3, <2>1, CountKept DEF EventInv
  <2>3. SameMarks /\ \A q \in Lifecycle \ {p} : task'[q] = task[q]
    BY <1>1, <2>1, MarksKept DEF At, Becomes, Tasks
  <2>4. p \in Lifecycle => Announced(p)'
    BY <1>1, <2>1, ReportOverType DEF Becomes, EventInv, AnnouncedInv, Announced, At, Unspawned
  <2>5. \A q \in Tasks : task[q].gen \in Gens \cup {0}
    BY DEF TypeOK
  <2> QED
    BY <1>1, <1>3, <2>2, <2>3, <2>4, <2>5, OthersAnnounced DEF EventInv
<1>4. CASE /\ losses[g] # None /\ ~losses[g].processing
           /\ losses' = [losses EXCEPT ![g].processing = TRUE]
           /\ Goto(p, IF losses[g].committed THEN "notify" ELSE "append")
  <2>1. PICK l \in Losses : LossBecomes(g, l) /\ l.committed = losses[g].committed
    BY <1>2, <1>4, LossProcessing
  <2>2. PICK c \in {"append", "notify"} : Goto(p, c) /\ (c = "append" => ~losses[g].committed)
    BY <1>4
  <2>3. SameMarks
    BY <1>1, <2>2, GotoMarks DEF Points, At
  <2>4. task'[p].pc = c /\ task'[p].gen = g /\ \A q \in Tasks \ {p} : task'[q] = task[q]
    BY <2>2, GotoFields DEF Points
  <2>5. l # None
    BY SupervisionAssumptions
  <2>6. PICK h \in Gens : h = g
    BY <1>2
  <2>7. losses[h] # None /\ ~losses[h].processing /\ task'[p].gen = h /\ h = task[p].gen
    BY <1>4, <2>4, <2>6
  <2>8. LossBecomes(h, l) /\ l.committed = losses[h].committed /\ (c = "append" => ~l.committed)
    BY <2>1, <2>2, <2>6
  <2> HIDE DEF g
  <2>9. \A q \in Tasks : At(q, "append")' => \/ task'[q].gen = h /\ l # None /\ ~l.committed
                                             \/ q # p /\ task'[q] = task[q]
    BY <2>4, <2>5, <2>7, <2>8 DEF At
  <2>10. \A q \in Lifecycle \ {p} : task'[q] = task[q]
    BY <2>4 DEF Tasks
  <2> QED
    BY <1>1, <2>2, <2>3, <2>4, <2>7, <2>8, <2>9, <2>10, LossEvents DEF At
<1> QED
  BY <1>3, <1>4 DEF Drive

LEMMA DegradedEventEvents ==
  ASSUME SupervisionInv, EventInv, NEW p \in Tasks, DegradedEvent(p)
  PROVE  EventInv'
<1> USE DEF SupervisionInv
<1>1. At(p, "append") /\ UNCHANGED <<handle, state, failed, next>>
  BY DEF DegradedEvent, registry, processes
<1>2. PICK g \in Gens : g = task[p].gen /\ losses[g] # None /\ task[p].pc \in Driving
  BY <1>1 DEF PlacesInv, WithGeneration, Reporting, LossInv, Driving, At
<1>3. CASE DriveFailed(p, g) /\ UNCHANGED degraded
  BY <1>1, <1>2, <1>3, DriveFailedEvents
<1>4. CASE /\ degraded' = [degraded EXCEPT ![g] = @ + 1]
           /\ Committed(g) /\ Goto(p, "notify")
  <2>1. PICK l \in Losses : LossBecomes(g, l) /\ l.committed
    BY <1>2, <1>4, LossCommitted
  <2>2. SameMarks
    BY <1>1, <1>4, GotoMarks DEF Points, At
  <2>3. task'[p].pc = "notify" /\ \A q \in Tasks \ {p} : task'[q] = task[q]
    BY <1>4, GotoFields DEF Points
  <2>4. \A q \in Lifecycle \ {p} : task'[q] = task[q]
    BY <2>3 DEF Tasks
  <2> QED
    BY <1>1, <1>2, <1>4, <2>1, <2>2, <2>3, <2>4, LossEvents DEF At
<1> QED
  BY <1>2, <1>3, <1>4 DEF DegradedEvent

LEMMA NotifyRunsEvents ==
  ASSUME SupervisionInv, EventInv, NEW p \in Tasks, NotifyRuns(p)
  PROVE  EventInv'
<1> USE DEF SupervisionInv
<1>1. At(p, "notify") /\ UNCHANGED <<degraded, handle, state, failed, next>>
  BY DEF NotifyRuns, registry, processes
<1>2. PICK g \in Gens : g = task[p].gen /\ losses[g] # None /\ task[p].pc \in Driving
  BY <1>1 DEF PlacesInv, WithGeneration, Reporting, LossInv, Driving, At
<1>3. CASE DriveFailed(p, g)
  BY <1>1, <1>2, <1>3, DriveFailedEvents
<1>4. CASE losses' = [losses EXCEPT ![g] = None] /\ task' = [task EXCEPT ![p] = ReportOver(p)]
  <2>1. LossBecomes(g, None)
    BY <1>2, <1>4, LossSet
  <2>2. Becomes(p, ReportOver(p)) /\ ReportOver(p).pc \in {"idle", "completeFailed"}
    BY <1>4, ReportOverType, SetIs
  <2>3. SameMarks /\ \A q \in Lifecycle \ {p} : task'[q] = task[q]
    BY <1>1, <2>2, MarksKept DEF At, Becomes, Tasks
  <2>4. /\ p \in Lifecycle => task'[p].pc = "completeFailed"
        /\ \A q \in Tasks : task'[q].pc \in {"register", "append"} => q # p /\ task'[q] = task[q]
    BY <2>2, ReportOverType DEF Becomes
  <2> QED
    BY <1>1, <1>2, <2>1, <2>3, <2>4, LossEvents DEF At
<1> QED
  BY <1>2, <1>3, <1>4 DEF NotifyRuns

-----------------------------------------------------------------------------
(* The degraded events: processes, callers and Runs.                       *)

LEMMA OutsideEvents ==
  ASSUME SupervisionInv, EventInv, NEW p \in Tasks \ Lifecycle, NEW t, Becomes(p, t),
         task[p].pc # "mark", t.pc \in {"idle", "called", "report"},
         UNCHANGED <<degraded, losses, next, handle, state, failed>>
  PROVE  EventInv'
<1>1. SameMarks
  BY MarksKept
<1>2. CountInv'
  BY CountKept DEF EventInv
<1>3. \A q \in Tasks : task[q].gen \in Gens \cup {0}
  BY DEF SupervisionInv, TypeOK
<1>4. \A q \in Lifecycle \ {p} : task'[q] = task[q]
  BY DEF Becomes, Tasks
<1> QED
  BY <1>1, <1>2, <1>3, <1>4, OthersAnnounced DEF EventInv

LEMMA PumpEvents ==
  ASSUME SupervisionInv, EventInv, NEW g \in Gens, Pump(g)
  PROVE  EventInv'
<1>1. /\ UNCHANGED <<degraded, losses, next, handle, state, failed>>
      /\ Goto(Watcher(g), "report") /\ task[Watcher(g)].pc = "pump"
  BY DEF Pump, registry, reports, At
<1>2. Watcher(g) \in Tasks \ Lifecycle
  BY TaskNames
<1>3. Becomes(Watcher(g), [pc |-> "report", op |-> task[Watcher(g)].op,
                           gen |-> task[Watcher(g)].gen])
  BY <1>1, <1>2, GotoIs DEF Points, SupervisionInv
<1> QED
  BY <1>1, <1>2, <1>3, OutsideEvents

LEMMA CallerEvents ==
  ASSUME SupervisionInv, EventInv, NEW p \in Callers, Invoke(p) \/ Answer(p)
  PROVE  EventInv'
<1>1. /\ UNCHANGED <<degraded, losses, next, handle, state, failed>> /\ task[p].pc # "mark"
  BY DEF Invoke, Answer, registry, reports, processes, At
<1>2. p \in Tasks \ Lifecycle
  BY SupervisionAssumptions DEF Tasks
<1>3. \E t : Becomes(p, t) /\ t.pc \in {"idle", "called", "report"}
  <2>1. CASE task' = [task EXCEPT ![p] = [pc |-> "called", op |-> "none", gen |-> handle]]
    <3>1. [pc |-> "called", op |-> "none", gen |-> handle] \in Task
      BY DEF Task, Points, Ops, SupervisionInv, TypeOK
    <3>2. Becomes(p, [pc |-> "called", op |-> "none", gen |-> handle])
      BY <1>2, <2>1, <3>1, SetIs DEF SupervisionInv
    <3> QED
      BY <3>2
  <2>2. CASE Done(p)
    <3>1. Becomes(p, IdleTask)
      BY <1>2, <2>2, SetIs, IdleTaskType DEF SupervisionInv, Done
    <3> QED
      BY <3>1 DEF IdleTask
  <2>3. CASE Goto(p, "report")
    <3>1. Becomes(p, [pc |-> "report", op |-> task[p].op, gen |-> task[p].gen])
      BY <1>2, <2>3, GotoIs DEF SupervisionInv, Points
    <3> QED
      BY <3>1
  <2> QED
    BY <2>1, <2>2, <2>3 DEF Invoke, Answer
<1> QED
  BY <1>1, <1>2, <1>3, OutsideEvents

LEMMA EventsUntouched ==
  ASSUME EventInv, UNCHANGED <<degraded, losses, next, handle, state, failed, task>>
  PROVE  EventInv'
BY DEF EventInv, CountInv, AnnouncedInv, Announced, Marks, Marking, At, Unspawned

LEMMA InitEvents == Init => EventInv
<1> SUFFICES ASSUME Init PROVE EventInv
  OBVIOUS
<1>1. \A p \in Tasks : task[p].pc = "idle"
  BY DEF Init, IdleTask
<1>2. CountInv
  BY <1>1 DEF Init, CountInv, At
<1>3. AnnouncedInv
  BY <1>1 DEF AnnouncedInv, Announced, At, Unspawned, Tasks
<1> QED
  BY <1>2, <1>3 DEF EventInv

LEMMA NextEvents ==
  SupervisionInv /\ SupervisionInv' /\ ServiceInv /\ EventInv /\ OneRequest /\ [Next]_vars
    => EventInv'
<1> SUFFICES ASSUME SupervisionInv, SupervisionInv', ServiceInv, EventInv, OneRequest, [Next]_vars
             PROVE  EventInv'
  OBVIOUS
<1>1. CASE UNCHANGED vars
  BY <1>1, EventsUntouched DEF vars
<1>2. ASSUME NEW p \in Lifecycle, \/ \E op \in Ops \ {"none"} : Begin(p, op)
                                  \/ LifecycleStep(p)
      PROVE  EventInv'
  BY <1>2, EarlyEvents, SpawnEvents, RegisterEvents, CompleteEvents, CommitEvents,
     RecheckEvents, StartFailedEvents DEF LifecycleStep, SupervisionInv
<1>3. ASSUME NEW p \in Callers, Invoke(p) \/ Answer(p)
      PROVE  EventInv'
  BY <1>3, CallerEvents
<1>4. ASSUME NEW p \in Tasks, ReportStep(p)
      PROVE  EventInv'
  BY <1>4, ReportEvents, MarkEvents, DriveEvents, DegradedEventEvents, NotifyRunsEvents
     DEF ReportStep
<1>5. ASSUME NEW g \in Gens, Exit(g) \/ Pump(g)
      PROVE  EventInv'
  BY <1>5, EventsUntouched, PumpEvents DEF Exit, registry, reports
<1>6. ASSUME NEW r \in Runs, BeginRun(r) \/ EndRun(r)
      PROVE  EventInv'
  BY <1>6, EventsUntouched DEF BeginRun, EndRun, reports, processes
<1> QED
  BY <1>1, <1>2, <1>3, <1>4, <1>5, <1>6 DEF Next

LEMMA EventsAlways == ASSUME OneRequest PROVE Spec => []EventInv
<1>1. Init => EventInv
  BY InitEvents
<1>2. SupervisionInv /\ SupervisionInv' /\ ServiceInv /\ EventInv /\ [Next]_vars => EventInv'
  BY NextEvents
<1> QED
  BY <1>1, <1>2, SupervisionAlways, ServiceAlways, PTL DEF Spec

-----------------------------------------------------------------------------
(* The guarantees.                                                         *)

\* While requests for the Package follow one another, a Run that holds a lease has
\* its process registered and watched, or its loss is recorded, on its way, or
\* known to Run control (report_transport_loss, mark_activation_lost).
THEOREM RunsAreAlwaysCovered ==
  ASSUME OneRequest PROVE Spec => []RunsAreCovered
<1>1. SupervisionInv /\ ServiceInv => RunsAreCovered
  <2> SUFFICES ASSUME SupervisionInv, ServiceInv, NEW r \in leases
               PROVE  \/ Reported(r)
                      \/ /\ handle = served[r]
                         /\ served[r] \in alive \/ Watched(served[r])
    BY DEF RunsAreCovered
  <2>1. CASE state # "ready"
    BY <2>1 DEF ServiceInv, LossReported, Reported
  <2>2. CASE state = "ready" /\ handle = current
    BY <2>2 DEF ServiceInv, StateInv, SupervisionInv, HandleInv, Watched
  <2>3. CASE state = "ready" /\ \E p \in Tasks : At(p, "mark") /\ task[p].gen = current
    BY <2>3 DEF ServiceInv, StateInv, Reported
  <2> QED
    BY <2>1, <2>2, <2>3 DEF ServiceInv, StateInv
<1> QED
  BY <1>1, SupervisionAlways, ServiceAlways, PTL

\* Under the same condition only Runs of a process whose transport failed are told
\* that it is lost: a repeated or late report does not reach the Runs of the
\* replacement (report_transport_loss compares generations).
THEOREM OnlyBrokenIsEverLost ==
  ASSUME OneRequest PROVE Spec => []OnlyBrokenIsLost
<1>1. ServiceInv => OnlyBrokenIsLost
  BY DEF ServiceInv, LossReported
<1> QED
  BY <1>1, ServiceAlways, PTL

\* Under the same condition a Ready Package has a registered and watched process,
\* or its loss is being recorded (complete_start, pump_reverse_platform_requests).
THEOREM ReadyIsAlwaysServed ==
  ASSUME OneRequest PROVE Spec => []ReadyIsServed
<1>1. SupervisionInv /\ ServiceInv => ReadyIsServed
  BY DEF ServiceInv, StateInv, SupervisionInv, HandleInv, ReadyIsServed, Watched
<1> QED
  BY <1>1, SupervisionAlways, ServiceAlways, PTL

\* Under the same condition at most one degraded event is written about a process,
\* whether a start, a report, a retry or several of them find that it is lost
\* (package_event_committed, last_failure).
THEOREM AtMostOneDegradedEvent ==
  ASSUME OneRequest PROVE Spec => []DegradedOnce
<1>1. EventInv => DegradedOnce
  BY DEF EventInv, CountInv, DegradedOnce
<1> QED
  BY <1>1, EventsAlways, PTL

=============================================================================
