-------------------------- MODULE PackageSupervision --------------------------
(***************************************************************************)
(* One subprocess Package of a Host: its record in the PackageRegistry     *)
(* (package.rs), its processes and their transport (subprocess.rs) and the *)
(* operations load, unload and restart (runtime/packages.rs).  The tasks   *)
(* are the lifecycle requests, the callers of its capabilities, a watcher  *)
(* per process and a retry task per unreported loss.                       *)
(*                                                                         *)
(* A process is a generation.  The registry is a plain mutex that is never *)
(* held across an await; lifecycle_transition is held across several.      *)
(***************************************************************************)
EXTENDS Naturals, FiniteSets

CONSTANTS
  Lifecycle,        \* load, unload and restart requests in progress
  Callers,          \* capability invocations in progress
  Runs,
  None,
  MaxGenerations,   \* processes that can be spawned
  MaxFaults         \* store failures, failed starts, timeouts

VARIABLES
  state,       \* PackageRecord.state, "none" when there is no record
  failed,      \* PackageRecord.last_failure is set
  leases,      \* active_run_leases of the Package
  handle,      \* the generation in `handles`, 0 if none
  alive,       \* generations whose process runs
  lost,        \* generations whose transport_lost is set
  losses,      \* generation -> its PendingActivationLoss, or None
  transition,  \* the task holding lifecycle_transition
  task,        \* the tasks
  next,        \* next_generation
  degraded,    \* generation -> degraded events about its loss
  notified,    \* Runs that Run control was told about
  served,      \* history: Run -> the generation that was ready when it began
  current,     \* history: the generation that became ready last
  broken,      \* history: generations whose transport has failed
  faults       \* failures still to come

registry == <<state, failed, leases>>
processes == <<handle, alive, lost, next, current, broken>>
reports == <<losses, degraded, notified>>
vars == <<state, failed, leases, handle, alive, lost, losses, transition, task, next,
          degraded, notified, served, current, broken, faults>>

Gens == 1..MaxGenerations

Watcher(g) == <<"watcher", g>>
Retry(g) == <<"retry", g>>
Tasks == Lifecycle \cup Callers \cup {Watcher(g) : g \in Gens} \cup {Retry(g) : g \in Gens}

States == {"none", "loading", "starting", "ready", "degraded", "stopping", "stopped"}
Ops == {"none", "load", "unload", "restart"}

Points ==
  {"idle", "loading", "starting", "stopping", "stop", "stopped", "remove", "restarting",
   "spawn", "register", "complete", "commit", "recheck", "startFailed", "completeFailed",
   "called", "pump", "report", "mark", "drive", "append", "notify"}

IdleTask == [pc |-> "idle", op |-> "none", gen |-> 0]

Losses == [runs : SUBSET Runs, committed : BOOLEAN, processing : BOOLEAN, retrying : BOOLEAN]

\* The tasks are different tasks, and None is neither a task nor a loss.
ASSUME SupervisionAssumptions ==
  /\ MaxGenerations \in Nat \ {0}
  /\ MaxFaults \in Nat
  /\ IsFiniteSet(Lifecycle)
  /\ Lifecycle \cap Callers = {}
  /\ \A g \in Gens : {Watcher(g), Retry(g)} \cap (Lifecycle \cup Callers) = {}
  /\ None \notin Tasks \cup Losses

TypeOK ==
  /\ state \in States
  /\ failed \in BOOLEAN
  /\ leases \subseteq Runs
  /\ handle \in Gens \cup {0}
  /\ alive \subseteq Gens /\ lost \subseteq Gens /\ broken \subseteq Gens
  /\ losses \in [Gens -> Losses \cup {None}]
  /\ transition \in Tasks \cup {None}
  /\ task \in [Tasks -> [pc : Points, op : Ops, gen : Gens \cup {0}]]
  /\ next \in 1..(MaxGenerations + 1)
  /\ degraded \in [Gens -> Nat]
  /\ notified \subseteq Runs
  /\ served \in [Runs -> Gens \cup {0}]
  /\ current \in Gens \cup {0}
  /\ faults \in 0..MaxFaults

-----------------------------------------------------------------------------
Fault == faults > 0 /\ faults' = faults - 1
NoFault == UNCHANGED faults

At(p, pc) == task[p].pc = pc
Goto(p, pc) == task' = [task EXCEPT ![p].pc = pc]
Done(p) == task' = [task EXCEPT ![p] = IdleTask]

\* set_state: a record that is gone is left alone; ready clears last_failure.
SetState(s) ==
  /\ state' = IF state = "none" THEN "none" ELSE s
  /\ failed' = (failed /\ s # "ready")
  /\ UNCHANGED leases

InUseIgnored == TRUE

\* ensure_package_not_in_use
NotInUse == leases = {}

\* begin_stopping
MayStop == NotInUse /\ state \notin {"none", "stopping", "stopped"}

-----------------------------------------------------------------------------
(* load, unload and restart up to the start of a process.                  *)

\* The bound on processes: a request in progress may need one.
GenerationLeft ==
  next + Cardinality({p \in Lifecycle : ~At(p, "idle")}) <= MaxGenerations

\* The request takes its first step in the registry, and is refused otherwise.
Begin(p, op) ==
  /\ At(p, "idle") /\ (op = "unload" \/ GenerationLeft)
  /\ IF op = "load" THEN state = "none" ELSE MayStop
  /\ state' = IF op = "load" THEN "loading" ELSE "stopping"
  /\ failed' = (failed /\ op # "load")
  /\ task' = [task EXCEPT ![p] = [pc |-> IF op = "load" THEN "loading" ELSE "stopping",
                                  op |-> op, gen |-> 0]]
  /\ UNCHANGED <<leases, processes, reports, transition, served, faults>>

\* load: the loading event, then the record is starting, then the starting event.
Loading(p) ==
  /\ At(p, "loading")
  /\ \/ Fault /\ Done(p) /\ UNCHANGED registry
     \/ NoFault /\ Goto(p, "starting") /\ SetState("starting")
  /\ UNCHANGED <<processes, reports, transition, served>>

Starting(p) ==
  /\ At(p, "starting")
  /\ \/ Fault /\ Done(p)
     \/ NoFault /\ Goto(p, "spawn")
  /\ UNCHANGED <<registry, processes, reports, transition, served>>

\* The stopping event.  A failure ends unload at once; restart still stops the
\* process and is degraded.
Stopping(p) ==
  /\ At(p, "stopping")
  /\ \/ Fault /\ IF task[p].op = "unload" THEN Done(p)
                 ELSE task' = [task EXCEPT ![p].pc = "stop", ![p].op = "none"]
     \/ NoFault /\ Goto(p, "stop")
  /\ UNCHANGED <<registry, processes, reports, transition, served>>

\* SubprocessSupervisor::stop, and what the operation does to the record next.
Stop(p) ==
  /\ At(p, "stop") /\ transition = None
  /\ handle' = 0
  /\ alive' = alive \ {handle}
  /\ \/ task[p].op = "unload" /\ SetState("stopped")
        /\ Goto(p, IF state = "none" THEN "remove" ELSE "stopped")
     \/ task[p].op = "restart" /\ UNCHANGED registry
        /\ IF state = "stopping" THEN Goto(p, "restarting") ELSE Done(p)
     \/ task[p].op = "none" /\ SetState("degraded") /\ Done(p)
  /\ UNCHANGED <<reports, transition, lost, next, served, current, broken, faults>>

\* unload: the stopped event, then the record is removed.
Stopped(p) ==
  /\ At(p, "stopped")
  /\ \/ Fault /\ Done(p)
     \/ NoFault /\ Goto(p, "remove")
  /\ UNCHANGED <<registry, processes, reports, transition, served>>

RemoveKeepsRecord(p) ==
  /\ At(p, "remove")
  /\ state' = IF NotInUse THEN "unloaded" ELSE state
  /\ Done(p)
  /\ UNCHANGED <<failed, leases, processes, reports, transition, served, faults>>

Remove(p) ==
  /\ At(p, "remove")
  /\ state' = IF NotInUse THEN "none" ELSE state
  /\ Done(p)
  /\ UNCHANGED <<failed, leases, processes, reports, transition, served, faults>>

\* restart: the starting event while the record is still stopping.
Restarting(p) ==
  /\ At(p, "restarting")
  /\ \/ Fault /\ SetState("degraded") /\ Done(p)
     \/ /\ NoFault
        /\ IF state = "stopping" THEN SetState("starting") /\ Goto(p, "spawn")
           ELSE UNCHANGED registry /\ Done(p)
  /\ UNCHANGED <<processes, reports, transition, served>>

-----------------------------------------------------------------------------
(* start_generation and complete_start.                                    *)

Spawn(p) ==
  /\ At(p, "spawn")
  /\ \/ /\ NoFault
        /\ next' = next + 1
        /\ alive' = alive \cup {next}
        /\ task' = [task EXCEPT ![p].pc = "register", ![p].gen = next]
     \/ Fault /\ Goto(p, "startFailed") /\ UNCHANGED <<next, alive>>
  /\ UNCHANGED <<registry, reports, handle, lost, transition, served, current, broken>>

\* The handshake, then the handle is registered and its watcher armed.  The
\* process is killed when the handshake times out or is refused; a transport
\* error returns without it.
Register(p) ==
  LET g == task[p].gen
  IN  /\ At(p, "register")
      /\ \/ /\ handle = 0 /\ g \in alive /\ NoFault
            /\ handle' = g
            /\ task' = [task EXCEPT ![p].pc = "complete",
                                    ![Watcher(g)] = [pc |-> "pump", op |-> "none", gen |-> g]]
            /\ UNCHANGED alive
         \/ /\ handle # 0 /\ NoFault
            /\ alive' = alive \ {g}
            /\ Goto(p, "startFailed") /\ UNCHANGED handle
         \/ /\ g \notin alive /\ NoFault
            /\ Goto(p, "startFailed") /\ UNCHANGED <<alive, handle>>
         \/ /\ Fault
            /\ alive' \in {alive, alive \ {g}}
            /\ Goto(p, "startFailed") /\ UNCHANGED handle
      /\ UNCHANGED <<registry, reports, transition, lost, next, served, current, broken>>

\* The transport of generation g is found dead.
TransportDead(g) == g \in lost \/ g \notin alive

\* complete_start up to the ready event.
Complete(p) ==
  LET g == task[p].gen
  IN  /\ At(p, "complete") /\ transition = None
      /\ IF handle # g THEN Goto(p, "completeFailed") /\ UNCHANGED <<transition, lost>>
         ELSE IF TransportDead(g)
         THEN lost' = lost \cup {g} /\ Goto(p, "report") /\ UNCHANGED transition
         ELSE IF state # "starting"
         THEN Goto(p, "completeFailed") /\ UNCHANGED <<transition, lost>>
         ELSE transition' = p /\ Goto(p, "commit") /\ UNCHANGED lost
      /\ UNCHANGED <<registry, reports, handle, alive, next, served, current, broken, faults>>

\* The ready event; then the record becomes ready.
Commit(p) ==
  LET g == task[p].gen
  IN  /\ At(p, "commit")
      /\ \/ /\ Fault
            /\ handle' = 0
            /\ alive' = alive \ {g}
            /\ SetState("degraded")
            /\ transition' = None /\ Goto(p, "completeFailed") /\ UNCHANGED current
         \/ /\ NoFault
            /\ IF g \notin lost /\ state = "starting"
               THEN /\ SetState("ready") /\ current' = g
                    /\ Goto(p, "recheck") /\ UNCHANGED transition
               ELSE /\ Goto(p, IF g \in lost THEN "report" ELSE "completeFailed")
                    /\ transition' = None /\ UNCHANGED <<registry, current>>
            /\ UNCHANGED <<handle, alive>>
      /\ UNCHANGED <<reports, lost, next, served, broken>>

\* An end of the transport that was seen during the commit.
Recheck(p) ==
  LET g == task[p].gen
  IN  /\ At(p, "recheck")
      /\ transition' = None
      /\ IF TransportDead(g) THEN lost' = lost \cup {g} /\ Goto(p, "report")
         ELSE Done(p) /\ UNCHANGED lost
      /\ UNCHANGED <<registry, reports, handle, alive, next, served, current, broken, faults>>

\* The degraded event of a failed start: without a generation's event of its own
\* when complete_start has already recorded a failure.
StartFailed(p) ==
  LET g == task[p].gen
  IN  /\ At(p, "startFailed") \/ At(p, "completeFailed")
      /\ IF At(p, "completeFailed") /\ failed
         THEN NoFault /\ UNCHANGED <<registry, degraded>>
         ELSE /\ state' = IF state = "none" THEN "none" ELSE "degraded"
              /\ failed' = (state # "none")
              /\ UNCHANGED leases
              /\ \/ Fault /\ UNCHANGED degraded
                 \/ NoFault /\ degraded' = [x \in Gens |-> IF x = g THEN degraded[x] + 1
                                                           ELSE degraded[x]]
      /\ Done(p)
      /\ UNCHANGED <<processes, transition, losses, notified, served>>

-----------------------------------------------------------------------------
(* report_transport_loss and its retries.                                  *)

\* What a task does when its report is over.
ReportOver(p) ==
  IF p \in Lifecycle THEN [task[p] EXCEPT !.pc = "completeFailed"] ELSE IdleTask

AnyGeneration(g) == handle # 0

\* The handle that the report is about is still the registered one.
SameGeneration(g) == handle = g

\* The handle is taken out under lifecycle_transition; a second report of the same
\* generation, or one after an intentional stop, finds nothing.
Report(p) ==
  LET g == task[p].gen
  IN  /\ At(p, "report") /\ transition = None
      /\ IF losses[g] = None /\ SameGeneration(g)
         THEN /\ handle' = 0
              /\ lost' = lost \cup {handle}
              /\ transition' = p
              /\ task' = [task EXCEPT ![p].pc = "mark", ![p].gen = handle]
         ELSE /\ task' = [task EXCEPT ![p] = ReportOver(p)]
              /\ UNCHANGED <<handle, lost, transition>>
      /\ UNCHANGED <<registry, reports, alive, next, served, current, broken, faults>>

\* mark_activation_lost finds a record that was being served.
Marks == state \in {"starting", "ready"}

\* The process is killed, mark_activation_lost takes the Runs with a lease, and the
\* loss is recorded.
Mark(p) ==
  LET g == task[p].gen
  IN  /\ At(p, "mark")
      /\ alive' = alive \ {g}
      /\ transition' = None
      /\ IF Marks
         THEN /\ state' = "degraded" /\ failed' = TRUE
              /\ losses' = [losses EXCEPT ![g] = [runs |-> leases, committed |-> FALSE,
                                                  processing |-> FALSE, retrying |-> FALSE]]
              /\ Goto(p, "drive")
         ELSE /\ task' = [task EXCEPT ![p] = ReportOver(p)]
              /\ UNCHANGED <<state, failed, losses>>
      /\ UNCHANGED <<leases, handle, lost, next, degraded, notified, served, current,
                     broken, faults>>

RetryNever(p, g) == UNCHANGED losses /\ task' = [task EXCEPT ![p] = ReportOver(p)]

\* drive_pending_activation_loss failed: the reporter starts the retry task and
\* returns, the retry task sleeps and tries again.
DriveFailed(p, g) ==
  IF p = Retry(g)
  THEN losses' = [losses EXCEPT ![g].processing = FALSE] /\ Goto(p, "drive")
  ELSE /\ losses' = [losses EXCEPT ![g].processing = FALSE, ![g].retrying = TRUE]
       /\ task' = [task EXCEPT ![p] = ReportOver(p),
                     ![Retry(g)] = IF losses[g].retrying THEN @
                                   ELSE [pc |-> "drive", op |-> "none", gen |-> g]]

\* drive_pending_activation_loss takes the loss, unless another task has it.
Drive(p) ==
  LET g == task[p].gen
  IN  /\ At(p, "drive")
      /\ IF losses[g] = None
         THEN task' = [task EXCEPT ![p] = ReportOver(p)] /\ UNCHANGED losses
         ELSE IF losses[g].processing
         THEN /\ p # Retry(g)
              /\ task' = [task EXCEPT ![p] = ReportOver(p)] /\ UNCHANGED losses
         ELSE /\ losses' = [losses EXCEPT ![g].processing = TRUE]
              /\ Goto(p, IF losses[g].committed THEN "notify" ELSE "append")
      /\ UNCHANGED <<registry, processes, degraded, notified, transition, served, faults>>

\* package_event_committed
Committed(g) == losses' = [losses EXCEPT ![g].committed = TRUE]

\* The degraded event.
DegradedEvent(p) ==
  LET g == task[p].gen
  IN  /\ At(p, "append")
      /\ \/ Fault /\ DriveFailed(p, g) /\ UNCHANGED degraded
         \/ /\ NoFault
            /\ degraded' = [degraded EXCEPT ![g] = @ + 1]
            /\ Committed(g)
            /\ Goto(p, "notify")
      /\ UNCHANGED <<registry, processes, notified, transition, served>>

\* RunControl::package_activation_lost, then the loss is forgotten.
NotifyRuns(p) ==
  LET g == task[p].gen
  IN  /\ At(p, "notify")
      /\ \/ /\ losses[g].runs # {} /\ Fault
            /\ DriveFailed(p, g) /\ UNCHANGED notified
         \/ /\ NoFault
            /\ notified' = notified \cup losses[g].runs
            /\ losses' = [losses EXCEPT ![g] = None]
            /\ task' = [task EXCEPT ![p] = ReportOver(p)]
      /\ UNCHANGED <<registry, processes, degraded, transition, served>>

-----------------------------------------------------------------------------
(* Processes, watchers, callers and Runs.                                  *)

\* The process ends on its own.
Exit(g) ==
  /\ g \in alive
  /\ alive' = alive \ {g}
  /\ broken' = broken \cup {g}
  /\ UNCHANGED <<registry, reports, handle, lost, next, transition, task, served, current,
                 faults>>

\* pump_reverse_platform_requests: the end of the stream, or a failed read or write.
\* A reverse request is dispatched inline: to the watcher it is a delay.
Pump(g) ==
  /\ At(Watcher(g), "pump")
  /\ \/ /\ g \notin alive /\ NoFault
        /\ lost' = lost \cup {g} /\ Goto(Watcher(g), "report") /\ UNCHANGED broken
     \/ /\ g \in alive /\ Fault
        /\ lost' = lost \cup {g} /\ Goto(Watcher(g), "report")
        /\ broken' = broken \cup {g}
  /\ UNCHANGED <<registry, reports, handle, alive, next, transition, served, current>>

\* invoke: the handle is looked up once; the answer, a write error or a closed
\* channel, or the timeout.
Invoke(p) ==
  /\ At(p, "idle") /\ handle # 0
  /\ task' = [task EXCEPT ![p] = [pc |-> "called", op |-> "none", gen |-> handle]]
  /\ UNCHANGED <<registry, processes, reports, transition, served, faults>>

Answer(p) ==
  LET g == task[p].gen
  IN  /\ At(p, "called")
      /\ \/ g \in alive /\ At(Watcher(g), "pump") /\ Done(p) /\ NoFault /\ UNCHANGED broken
         \/ TransportDead(g) /\ Goto(p, "report") /\ NoFault /\ UNCHANGED broken
         \/ ~TransportDead(g) /\ Fault /\ Goto(p, "report") /\ broken' = broken \cup {g}
      /\ UNCHANGED <<registry, reports, handle, alive, lost, next, transition, served, current>>

\* acquire_run_lease, and the end of the Run.
BeginRun(r) ==
  /\ state = "ready" /\ r \notin leases /\ served[r] = 0
  /\ leases' = leases \cup {r}
  /\ served' = [served EXCEPT ![r] = current]
  /\ UNCHANGED <<state, failed, processes, reports, transition, task, faults>>

EndRun(r) ==
  /\ r \in leases
  /\ leases' = leases \ {r}
  /\ UNCHANGED <<state, failed, processes, reports, transition, task, served, faults>>

-----------------------------------------------------------------------------
Init ==
  /\ state = "none" /\ failed = FALSE /\ leases = {}
  /\ handle = 0 /\ alive = {} /\ lost = {} /\ next = 1
  /\ losses = [g \in Gens |-> None]
  /\ transition = None
  /\ task = [p \in Tasks |-> IdleTask]
  /\ degraded = [g \in Gens |-> 0]
  /\ notified = {}
  /\ served = [r \in Runs |-> 0]
  /\ current = 0 /\ broken = {}
  /\ faults = MaxFaults

LifecycleStep(p) ==
  \/ Loading(p) \/ Starting(p) \/ Stopping(p) \/ Stop(p) \/ Stopped(p) \/ Remove(p)
  \/ Restarting(p) \/ Spawn(p) \/ Register(p) \/ Complete(p) \/ Commit(p) \/ Recheck(p)
  \/ StartFailed(p)

ReportStep(p) ==
  \/ Report(p) \/ Mark(p) \/ Drive(p) \/ DegradedEvent(p) \/ NotifyRuns(p)

Next ==
  \/ \E p \in Lifecycle : \/ \E op \in Ops \ {"none"} : Begin(p, op)
                          \/ LifecycleStep(p)
  \/ \E p \in Callers : Invoke(p) \/ Answer(p)
  \/ \E p \in Tasks : ReportStep(p)
  \/ \E g \in Gens : Exit(g) \/ Pump(g)
  \/ \E r \in Runs : BeginRun(r) \/ EndRun(r)

Spec == Init /\ [][Next]_vars

\* Every task runs on between its awaits, a dispatched request returns, and the
\* watcher reads the end of a closed stream.
FairSpec ==
  /\ Spec
  /\ \A p \in Lifecycle : WF_vars(LifecycleStep(p))
  /\ \A p \in Tasks : WF_vars(ReportStep(p))
  /\ \A g \in Gens : WF_vars(g \notin alive /\ Pump(g))

-----------------------------------------------------------------------------
(* Properties.                                                             *)

\* A generation that is not served by its handle any more has been reported, or
\* the report is about to take its Runs.
Reported(r) ==
  \/ r \in notified
  \/ \E g \in Gens : losses[g] # None /\ r \in losses[g].runs
  \/ \E p \in Tasks : At(p, "mark") /\ task[p].gen = served[r]

\* The watcher of generation g, or another task, has still to look at its end.
Watched(g) ==
  \/ task[Watcher(g)].pc \in {"pump", "report"}
  \/ \E p \in Tasks : At(p, "report") /\ task[p].gen = g

\* No Run is left behind by its Package: while it holds a lease, the process it
\* began with is the registered one and its end will be noticed, or the loss has
\* been reported or is on its way to Run control.  Neither a stop, a restart, a
\* failed start nor a report that races with them takes the process away from
\* under a Run in silence (stop, begin_stopping, report_transport_loss).  This is
\* so while one load, unload or restart of the Package is under way at a time: a
\* load writes Starting over the Stopping of a concurrent unload (load_package,
\* set_state), and a Run that begins then loses its process to the delayed stop.
RunsAreCovered ==
  \A r \in leases : Reported(r) \/ (handle = served[r] /\ (served[r] \in alive \/ Watched(served[r])))

\* Only the Runs of a process whose transport failed are told that it is lost: a
\* late or repeated report about an old process does not reach the Runs of its
\* replacement (report_transport_loss compares generations).
OnlyBrokenIsLost == \A r \in notified : served[r] \in broken

\* A Ready Package has a registered process whose end will be noticed, or its loss
\* is being recorded: an end of the process during the start is never left behind
\* as Ready (complete_start, pump_reverse_platform_requests).
ReadyIsServed ==
  state = "ready" =>
    \/ \E p \in Tasks : At(p, "mark")
    \/ handle # 0 /\ handle = current /\ (handle \in alive \/ Watched(handle))

\* The loss of a process is recorded by at most one degraded event, however often
\* the notification of its Runs fails and whoever finds the loss (package_event_
\* committed, last_failure).
DegradedOnce == \A g \in Gens : degraded[g] <= 1

\* A Run whose process is gone is eventually known to Run control, or ends, even
\* when the store or Run control fails on the way (drive_pending_activation_loss,
\* ensure_activation_loss_retry).
LossReachesRuns ==
  \A r \in Runs : (r \in leases /\ served[r] \notin alive) ~> (r \notin leases \/ r \in notified)

=============================================================================
