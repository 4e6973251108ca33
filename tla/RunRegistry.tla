---------------------------- MODULE RunRegistry ----------------------------
(***************************************************************************)
(* The Run registry of a Host (crates/plurora-service/src/runs.rs): start, *)
(* stop, package loss, restart recovery and the cleanup supervisor, as     *)
(* concurrent tasks of one or more Host processes over one durable journal.*)
(*                                                                         *)
(* A task runs between its await points in one step.  A critical section   *)
(* under the `apply` mutex has two steps: the first catches up with the    *)
(* journal, decides and checks the Host lease; the second is the store's   *)
(* compare-and-append at the sequence the first one saw.  The task holds   *)
(* `apply` in between, its event in field ev.  The lease is checked in the *)
(* first step only: a Host may lose it before its append lands.            *)
(*                                                                         *)
(* External: the activation driver (driver.activate, driver.stop) and the  *)
(* HTTP server that drops a request's task when its client goes away.      *)
(***************************************************************************)
EXTENDS RunJournal

CONSTANTS
  Hosts,        \* Host processes that share the store
  Workers,      \* concurrent requests of a Host
  Supervisor,   \* the cleanup supervisor task of a Host
  MaxFaults,    \* failures, denials, crashes and takeovers a behaviour may have
  Disconnects   \* whether clients may disconnect during a request

ASSUME RegistryAssumptions ==
  /\ MaxFaults \in Nat
  /\ Disconnects \in BOOLEAN
  /\ Supervisor \notin Workers
  /\ None \notin Hosts \cup Workers \cup {Supervisor}

VARIABLES
  journal,    \* durable: the events of the Run session
  owner,      \* durable: the Host that holds the Host lease
  phase,      \* Host -> "down", "hydrating" or "up"
  next,       \* Host -> number of journal events its projection has applied
  active,     \* Host -> Run -> "none", "available" or "cleaning" (RunActivationOwnership)
  live,       \* Host -> Runs whose activation exists in the driver (external)
  dropped,    \* Host -> Runs whose activation handle was dropped without a stop
  apply,      \* Host -> the task holding the apply mutex
  startLock,  \* Host -> Installation -> the task holding its start lock
  cleanLock,  \* Host -> Run -> the task holding its cleanup lock
  task,       \* Host -> Worker or Supervisor -> the state of the task
  permit,     \* Host -> the supervisor has a pending notification
  answered,   \* the answers given to the requests that were more than a lookup
  faults      \* failures still to come

durable == <<journal, owner>>
hostVars == <<phase, permit, live, dropped, active>>
locks == <<apply, startLock, cleanLock>>
vars == <<journal, owner, phase, next, active, live, dropped, apply, startLock,
          cleanLock, task, permit, answered, faults>>

Tasks == Workers \cup {Supervisor}

Roles == {"none", "request", "loss", "hydrate", "supervise"}
Points == {"idle", "claim", "activate", "failStart", "commit", "lostStop", "failedStop",
           "resume", "stop", "loss", "complete", "cleanup", "driverStop", "finish",
           "hydrate", "loop", "scan", "scanTerminal"}

IdleTask ==
  [pc |-> "idle", role |-> "none", inst |-> None, run |-> None, key |-> None,
   fp |-> None, reason |-> "none", claim |-> NoClaim, owned |-> FALSE,
   ev |-> NoView, todo |-> {}, retry |-> FALSE]

\* The follow-up work of recovery and of the supervisor: Runs to complete and
\* terminal Runs whose activation is to be cleaned up.
Work == Runs \X {"complete", "cleanup"}

TaskStates ==
  [pc : Points, role : Roles, inst : Installations \cup {None},
   run : Runs \cup {None}, key : Keys \cup {None}, fp : Fingerprints \cup {None},
   reason : Reasons, claim : Claims \cup {NoClaim}, owned : BOOLEAN,
   ev : Events \cup {NoView}, todo : SUBSET Work, retry : BOOLEAN]

Answers == [inst : Installations, key : Keys, fp : Fingerprints, run : Runs]

JournalType ==
  /\ journal \in Seq(Events)
  /\ next \in [Hosts -> Nat]
  /\ \A h \in Hosts : next[h] <= Len(journal)

HostType ==
  /\ owner \in Hosts \cup {None}
  /\ phase \in [Hosts -> {"down", "hydrating", "up"}]
  /\ permit \in [Hosts -> BOOLEAN]
  /\ active \in [Hosts -> [Runs -> {"none", "available", "cleaning"}]]
  /\ live \in [Hosts -> SUBSET Runs]
  /\ dropped \in [Hosts -> SUBSET Runs]
  /\ faults \in 0..MaxFaults

LockType ==
  /\ apply \in [Hosts -> Tasks \cup {None}]
  /\ startLock \in [Hosts -> [Installations -> Tasks \cup {None}]]
  /\ cleanLock \in [Hosts -> [Runs -> Tasks \cup {None}]]

TypeOK ==
  /\ JournalType
  /\ HostType
  /\ LockType
  /\ task \in [Hosts -> [Tasks -> TaskStates]]
  /\ answered \in SUBSET Answers

\* What a task knows at each point: a request its parameters, and a task that
\* works on a Run which one.
RunPoints == Points \ {"idle", "claim", "hydrate", "loop", "scan", "scanTerminal"}

TaskKnows(t) ==
  /\ t.role = "request" => t.inst \in Installations /\ t.key \in Keys /\ t.fp \in Fingerprints
  /\ t.pc = "claim" => t.role = "request"
  /\ t.pc \in RunPoints => t.run \in Runs
  /\ t.ev # NoView => t.pc \in RunPoints \cup {"claim", "hydrate"}
  /\ t.pc = "claim" /\ t.ev # NoView => t.run \in Runs

TasksKnow == \A h \in Hosts, w \in Tasks : TaskKnows(task[h][w])

-----------------------------------------------------------------------------
(* Building blocks.                                                        *)

Now(r) == Latest(journal, Len(journal), r)

Fault == faults > 0 /\ faults' = faults - 1
NoFault == UNCHANGED faults

SetTask(h, w, t) == task' = [task EXCEPT ![h][w] = t]

Freed(lock, w) == [x \in DOMAIN lock |-> IF lock[x] = w THEN None ELSE lock[x]]

NeedsRetryLosesErrors(t, ok) == t.retry

\* A supervisor pass with an error is repeated.
NeedsRetry(t, ok) == t.retry \/ ~ok

\* A request ends; recovery and the supervisor go on with their next Run.
AfterTask(t, ok) ==
  IF t.role \in {"hydrate", "supervise"}
  THEN [IdleTask EXCEPT !.pc = "loop", !.role = t.role, !.todo = t.todo,
                        !.retry = NeedsRetry(t, ok)]
  ELSE IdleTask

Answer(t, run) == [inst |-> t.inst, key |-> t.key, fp |-> t.fp, run |-> run]

\* The operation returns: its lock guards are dropped, a caller gets its answer.
Return(h, w, ok) ==
  LET t == task[h][w]
  IN  /\ SetTask(h, w, AfterTask(t, ok))
      /\ startLock' = [startLock EXCEPT ![h] = Freed(@, w)]
      /\ cleanLock' = [cleanLock EXCEPT ![h] = Freed(@, w)]
      /\ answered' = IF ok /\ t.role = "request"
                     THEN answered \cup {Answer(t, t.run)} ELSE answered

Goto(h, w, t) == SetTask(h, w, t) /\ UNCHANGED <<startLock, cleanLock, answered>>

Notify(h) == permit' = [permit EXCEPT ![h] = TRUE]

\* hydrate notifies the supervisor of every Run it could not complete.
NotifyIfHydrating(h, w) ==
  permit' = [permit EXCEPT ![h] = @ \/ task[h][w].role = "hydrate"]

Completing(h, w) == cleanLock[h][task[h][w].run] = w

\* sync_journal under the free apply mutex.
Sync(h) ==
  /\ apply[h] = None
  /\ \A k \in next[h] + 1 .. Len(journal) : ValidEvent(journal, k - 1, journal[k])
  /\ next' = [next EXCEPT ![h] = Len(journal)]

\* The task is between await points and its event is not being appended.
At(h, w, pc) == task[h][w].pc = pc /\ task[h][w].ev = NoView

\* The task has decided on event e: it keeps apply until the append answers.
Propose(h, w, t, e) ==
  /\ SetTask(h, w, [t EXCEPT !.ev = e])
  /\ apply' = [apply EXCEPT ![h] = w]

-----------------------------------------------------------------------------
(* Start.                                                                  *)

\* lookup_idempotency: the claim is that of the same request.
SameRequest(c, fp) == c.claim.fp = fp

StartLockSkipped(h, i) == TRUE

\* start_lock: starts of one Installation exclude each other on a Host.
StartLockFree(h, i) == startLock[h][i] = None

\* What a start does with the durable claim on its key: an error, a resumed
\* start, or the recorded Run.
ReplayStart(h, w, t, c) ==
  LET t1 == [t EXCEPT !.run = c.run]
      resumes == Now(c.run).status = "starting"
  IN  /\ startLock' = [startLock EXCEPT ![h] =
           IF SameRequest(c, t.fp) /\ resumes THEN [@ EXCEPT ![t.inst] = w] ELSE Freed(@, w)]
      /\ IF ~SameRequest(c, t.fp)
         THEN SetTask(h, w, IdleTask) /\ UNCHANGED answered
         ELSE IF resumes
         THEN SetTask(h, w, [t1 EXCEPT !.pc = "resume"]) /\ UNCHANGED answered
         ELSE SetTask(h, w, IdleTask) /\ answered' = answered \cup {Answer(t, c.run)}

\* start up to the idempotency lookup; without a claim it goes on to
\* prepare_start, which may find gaps or a newer revision and return.
Start(h, w, i, key, fp) ==
  LET t == [IdleTask EXCEPT !.pc = "claim", !.role = "request", !.inst = i,
                            !.key = key, !.fp = fp]
      c == ClaimedBy(journal, Len(journal), i, "start", key)
  IN  /\ phase[h] = "up" /\ At(h, w, "idle") /\ w \in Workers
      /\ StartLockFree(h, i)
      /\ Sync(h)
      /\ IF c = NoView
         THEN /\ SetTask(h, w, t)
              /\ startLock' = [startLock EXCEPT ![h][i] = w]
              /\ UNCHANGED answered
         ELSE ReplayStart(h, w, t, c)
      /\ UNCHANGED <<durable, hostVars, apply, cleanLock, faults>>

Occupied(h, i) ==
  \E r \in Runs : /\ Now(r).inst = i
                  /\ Now(r).status \in ActiveStatuses \/ active[h][r] # "none"

\* The loop that commits the Starting event with the idempotency claim.
ClaimStart(h, w) ==
  LET t == task[h][w]
      c == ClaimedBy(journal, Len(journal), t.inst, "start", t.key)
  IN  /\ At(h, w, "claim") /\ Sync(h)
      /\ \/ /\ c # NoView
            /\ ReplayStart(h, w, t, c)
            /\ UNCHANGED <<apply, cleanLock>>
         \/ /\ c = NoView
            /\ Occupied(h, t.inst) \/ owner # h
            /\ Return(h, w, FALSE)
            /\ UNCHANGED apply
         \/ /\ c = NoView
            /\ ~Occupied(h, t.inst) /\ owner = h
            /\ \E r \in Runs :
                 /\ Now(r) = NoView
                 /\ \A g \in Hosts, v \in Tasks : task[g][v].ev.run # r
                 /\ Propose(h, w, [t EXCEPT !.run = r], StartingRun(r, t.inst, t.key, t.fp))
            /\ UNCHANGED <<startLock, cleanLock, answered>>
      /\ UNCHANGED <<durable, hostVars, faults>>

\* prepare_start fails, reports gaps or another revision.
PrepareFails(h, w) ==
  /\ At(h, w, "claim") /\ Fault
  /\ Return(h, w, FALSE)
  /\ UNCHANGED <<durable, hostVars, next, apply>>

\* After the Starting commit: the lease and authority are checked again, then
\* the driver activates.
Activate(h, w) ==
  LET t == task[h][w]
      fail(reason) == Goto(h, w, [t EXCEPT !.pc = "failStart", !.reason = reason])
  IN  /\ At(h, w, "activate")
      /\ \/ owner # h /\ Return(h, w, FALSE) /\ NoFault /\ UNCHANGED live
         \/ owner = h /\ fail("authority_denied") /\ Fault /\ UNCHANGED live
         \/ owner = h /\ fail("activation_failed") /\ Fault /\ UNCHANGED live
         \/ /\ owner = h /\ NoFault
            /\ live' = [live EXCEPT ![h] = @ \cup {t.run}]
            /\ Goto(h, w, [t EXCEPT !.pc = "commit"])
      /\ UNCHANGED <<durable, phase, permit, dropped, active, next, apply>>

\* fail_starting_if_current
FailStart(h, w) ==
  LET t == task[h][w]
      v == Now(t.run)
  IN  /\ At(h, w, "failStart") /\ Sync(h)
      /\ IF v.status = "starting" /\ v.rev = 1 /\ owner = h
         THEN /\ Propose(h, w, t, FailedRun(v, t.reason))
              /\ UNCHANGED <<startLock, cleanLock, answered>>
         ELSE Return(h, w, FALSE) /\ UNCHANGED apply
      /\ UNCHANGED <<durable, hostVars, faults>>

\* The loop that commits Running: the activation is lost to a concurrent
\* change of the Run, or the commit is proposed, or a guard refuses it.
CommitStart(h, w) ==
  LET t == task[h][w]
      v == Now(t.run)
  IN  /\ At(h, w, "commit") /\ Sync(h)
      /\ IF v.status # "starting" \/ v.rev # 1
         THEN SetTask(h, w, [t EXCEPT !.pc = "lostStop"]) /\ UNCHANGED apply
         ELSE IF owner # h
         THEN SetTask(h, w, [t EXCEPT !.pc = "failedStop"]) /\ UNCHANGED apply
         ELSE Propose(h, w, t, RunningRun(v))
      /\ UNCHANGED <<durable, hostVars, startLock, cleanLock, answered, faults>>

OwnNothing(h, r) == UNCHANGED active

\* The Host's registry becomes the owner of the activation.
Own(h, r) == active' = [active EXCEPT ![h][r] = "available"]

\* The start task stops the activation it still holds.  If that fails the
\* activation goes to the supervisor.
StopHeldActivation(h, w) ==
  LET t == task[h][w]
  IN  /\ At(h, w, "lostStop") \/ At(h, w, "failedStop")
      /\ \/ /\ NoFault
            /\ live' = [live EXCEPT ![h] = @ \ {t.run}]
            /\ IF t.pc = "lostStop" THEN Return(h, w, TRUE)
               ELSE Goto(h, w, [t EXCEPT !.pc = "failStart",
                                         !.reason = "activation_commit_failed"])
            /\ UNCHANGED <<active, permit>>
         \/ /\ Fault
            /\ Own(h, t.run)
            /\ Notify(h)
            /\ Return(h, w, FALSE)
            /\ UNCHANGED live
      /\ UNCHANGED <<durable, phase, dropped, next, apply>>

\* resume_starting_start: a replayed start publishes the activation this Host
\* still owns, or records that the outcome is unknown.
ResumeStart(h, w) ==
  LET t == task[h][w]
      v == Now(t.run)
      e == IF active[h][t.run] = "available"
           THEN RunningRun(v) ELSE InterruptedRun(v, "outcome_unknown")
  IN  /\ At(h, w, "resume") /\ Sync(h)
      /\ IF v.status # "starting"
         THEN /\ IF v.status \in TerminalStatuses
                 THEN Goto(h, w, [t EXCEPT !.pc = "cleanup"])
                 ELSE Return(h, w, TRUE)
              /\ UNCHANGED apply
         ELSE IF owner # h
         THEN Return(h, w, FALSE) /\ UNCHANGED apply
         ELSE Propose(h, w, t, e) /\ UNCHANGED <<startLock, cleanLock, answered>>
      /\ UNCHANGED <<durable, hostVars, faults>>

-----------------------------------------------------------------------------
(* Stop, package loss, cleanup.                                            *)

\* stop up to its Stopping event; a Run that is already Stopping is completed
\* with the claim of this request on the terminal event.
Stop(h, w, r, key, rev) ==
  LET v == Now(r)
      fp == <<r, rev>>
      claim == [op |-> "stop", key |-> key, fp |-> fp]
      t == [IdleTask EXCEPT !.pc = "complete", !.role = "request", !.inst = v.inst,
                            !.run = r, !.key = key, !.fp = fp]
      c == ClaimedBy(journal, Len(journal), v.inst, "stop", key)
      refused == IF c = NoView THEN v.rev # rev ELSE ~SameRequest(c, fp)
      reason == IF v.status = "starting"
                THEN "explicit_stop_before_start_commit" ELSE "explicit_stop"
  IN  /\ phase[h] = "up" /\ At(h, w, "idle") /\ w \in Workers
      /\ v # NoView /\ ~refused
      /\ Sync(h)
      /\ \/ /\ v.status \notin ActiveStatuses \/ (c # NoView /\ v.status # "stopping")
            /\ UNCHANGED <<task, apply, answered>>
         \/ /\ v.status = "stopping"
            /\ SetTask(h, w, [t EXCEPT !.claim = IF c = NoView THEN claim ELSE NoClaim])
            /\ UNCHANGED <<apply, answered>>
         \/ /\ v.status \in ActiveStatuses \ {"stopping"} /\ c = NoView
            /\ owner = h
            /\ Propose(h, w, [t EXCEPT !.pc = "stop"], StoppingRun(v, reason, claim))
            /\ UNCHANGED answered
      /\ UNCHANGED <<durable, hostVars, startLock, cleanLock, faults>>

\* package_activation_lost for one affected Run: a Run with a lease on the
\* Package, or one named by a late or repeated notification.
PackageActivationLost(h, w, r) ==
  /\ phase[h] = "up" /\ At(h, w, "idle") /\ w \in Workers
  /\ owner = h
  /\ Now(r) # NoView
  /\ r \in live[h] \/ Now(r).status \notin {"starting", "running"}
  /\ SetTask(h, w, [IdleTask EXCEPT !.pc = "loss", !.role = "loss", !.run = r])
  /\ UNCHANGED <<durable, hostVars, next, locks, answered, faults>>

Loss(h, w) ==
  LET t == task[h][w]
      v == Now(t.run)
  IN  /\ At(h, w, "loss") /\ Sync(h)
      /\ IF v.status \notin ActiveStatuses
         THEN Goto(h, w, [t EXCEPT !.pc = "cleanup"]) /\ UNCHANGED apply
         ELSE IF v.status = "stopping"
         THEN Goto(h, w, [t EXCEPT !.pc = "complete"]) /\ UNCHANGED apply
         ELSE IF owner # h
         THEN Return(h, w, FALSE) /\ UNCHANGED apply
         ELSE /\ Propose(h, w, t, StoppingRun(v, "package_activation_lost", NoClaim))
              /\ UNCHANGED <<startLock, cleanLock, answered>>
      /\ UNCHANGED <<durable, hostVars, faults>>

\* complete_stopping: under the Run's cleanup lock, look at the Run again and
\* note whether this Host owns its activation.
Complete(h, w) ==
  LET t == task[h][w]
  IN  /\ At(h, w, "complete")
      /\ cleanLock[h][t.run] = None
      /\ Sync(h)
      /\ IF Now(t.run).status # "stopping"
         THEN Return(h, w, TRUE)
         ELSE /\ SetTask(h, w, [t EXCEPT !.pc = "cleanup",
                                         !.owned = active[h][t.run] # "none"])
              /\ cleanLock' = [cleanLock EXCEPT ![h][t.run] = w]
              /\ UNCHANGED <<startLock, answered>>
      /\ UNCHANGED <<durable, hostVars, apply, faults>>

MayStopTwice(h, r) == active[h][r] # "none"

\* Only an activation that no task is stopping may be taken.
MayStop(h, r) == active[h][r] = "available"

\* cleanup_terminal_activation up to driver.stop.
Cleanup(h, w) ==
  LET t == task[h][w]
      owned == active[h][t.run]
  IN  /\ At(h, w, "cleanup")
      /\ \/ /\ owned = "none"
            /\ IF Completing(h, w) THEN Goto(h, w, [t EXCEPT !.pc = "finish"])
               ELSE Return(h, w, TRUE)
            /\ UNCHANGED <<active, permit>>
         \/ /\ owned # "none" /\ ~MayStop(h, t.run)
            /\ Return(h, w, FALSE)
            /\ permit' = [permit EXCEPT ![h] = @ \/ Completing(h, w)]
            /\ UNCHANGED active
         \/ /\ MayStop(h, t.run)
            /\ active' = [active EXCEPT ![h][t.run] = "cleaning"]
            /\ Goto(h, w, [t EXCEPT !.pc = "driverStop"])
            /\ UNCHANGED permit
      /\ UNCHANGED <<durable, phase, live, dropped, next, apply, faults>>

\* driver.stop answers.
DriverStop(h, w) ==
  LET t == task[h][w]
  IN  /\ At(h, w, "driverStop")
      /\ \/ /\ NoFault
            /\ live' = [live EXCEPT ![h] = @ \ {t.run}]
            /\ active' = [active EXCEPT ![h][t.run] = "none"]
            /\ IF Completing(h, w) THEN Goto(h, w, [t EXCEPT !.pc = "finish"])
               ELSE Return(h, w, TRUE)
            /\ UNCHANGED permit
         \/ /\ Fault
            /\ Own(h, t.run)
            /\ Return(h, w, FALSE)
            /\ permit' = [permit EXCEPT ![h] = @ \/ Completing(h, w)]
            /\ UNCHANGED live
      /\ UNCHANGED <<durable, phase, dropped, next, apply>>

\* The loop of complete_stopping that commits the terminal event.
Finish(h, w) ==
  LET t == task[h][w]
      v == Now(t.run)
  IN  /\ At(h, w, "finish") /\ Sync(h)
      /\ IF v.status # "stopping"
         THEN Return(h, w, TRUE) /\ UNCHANGED <<apply, permit>>
         ELSE IF owner # h
         THEN Return(h, w, FALSE) /\ NotifyIfHydrating(h, w) /\ UNCHANGED apply
         ELSE /\ Propose(h, w, t, TerminalAfterCleanup(v, t.owned, t.claim))
              /\ UNCHANGED <<startLock, cleanLock, permit, answered>>
      /\ UNCHANGED <<durable, phase, live, dropped, active, faults>>

-----------------------------------------------------------------------------
(* The store's compare-and-append (append_after_guards).                   *)

Appending(h, w, pc) == task[h][w].pc = pc /\ task[h][w].ev # NoView

CasWinsAnywhere(h, w) == ValidEvent(journal, next[h], task[h][w].ev)

\* append_with_sequence_if_next at the sequence the Host has replayed to.
CasWins(h, w) ==
  /\ next[h] = Len(journal)
  /\ ValidEvent(journal, next[h], task[h][w].ev)

LandAppliedTwice(h, w) ==
  /\ CasWins(h, w)
  /\ journal' = Append(journal, task[h][w].ev)
  /\ next' = [next EXCEPT ![h] = @ + 2]

\* The event is durable and applied to the Host's projection.
Land(h, w) ==
  /\ CasWins(h, w)
  /\ journal' = Append(journal, task[h][w].ev)
  /\ next' = [next EXCEPT ![h] = @ + 1]

Commit(h, w) == Land(h, w) /\ UNCHANGED <<owner, phase, dropped, faults>>

Unlock(h) == apply' = [apply EXCEPT ![h] = None]

Resumed(h, w, pc) == [task[h][w] EXCEPT !.pc = pc, !.ev = NoView]

StartingCommitted(h, w) ==
  /\ Appending(h, w, "claim") /\ Commit(h, w) /\ Unlock(h)
  /\ Goto(h, w, Resumed(h, w, "activate"))
  /\ UNCHANGED <<active, live, permit>>

FailedCommitted(h, w) ==
  /\ Appending(h, w, "failStart") /\ Commit(h, w) /\ Unlock(h)
  /\ Return(h, w, FALSE)
  /\ UNCHANGED <<active, live, permit>>

\* Running is durable; ownership is published before apply is released.
RunningCommitted(h, w) ==
  LET t == task[h][w]
  IN  /\ Appending(h, w, "commit") /\ Commit(h, w) /\ Unlock(h)
      /\ Own(h, t.run)
      /\ Return(h, w, TRUE)
      /\ UNCHANGED <<live, permit>>

ResumeCommitted(h, w) ==
  LET t == task[h][w]
  IN  /\ Appending(h, w, "resume") /\ Commit(h, w) /\ Unlock(h)
      /\ IF t.ev.status = "interrupted" THEN Goto(h, w, Resumed(h, w, "cleanup"))
         ELSE Return(h, w, TRUE)
      /\ UNCHANGED <<active, live, permit>>

\* The Stopping event of a stop or of a package loss: the supervisor is woken
\* and the task goes on to complete the Run.
StoppingCommitted(h, w) ==
  /\ Appending(h, w, "stop") \/ Appending(h, w, "loss")
  /\ Commit(h, w) /\ Unlock(h) /\ Notify(h)
  /\ Goto(h, w, Resumed(h, w, "complete"))
  /\ UNCHANGED <<active, live>>

TerminalCommitted(h, w) ==
  /\ Appending(h, w, "finish") /\ Commit(h, w) /\ Unlock(h)
  /\ Return(h, w, TRUE)
  /\ UNCHANGED <<active, live, permit>>

\* Another Host appended first: the loops try again, stop gives up.
CasLost(h, w) ==
  LET t == task[h][w]
  IN  /\ t.ev # NoView /\ t.pc # "hydrate" /\ next[h] # Len(journal)
      /\ IF t.pc = "stop" THEN Return(h, w, FALSE) ELSE Goto(h, w, Resumed(h, w, t.pc))
      /\ Unlock(h)
      /\ UNCHANGED <<durable, hostVars, next, faults>>

\* The store or the authority refuses the append.
AppendFails(h, w) ==
  LET t == task[h][w]
  IN  /\ t.ev # NoView /\ t.pc # "hydrate"
      /\ IF ValidEvent(journal, next[h], t.ev) THEN Fault ELSE NoFault
      /\ IF t.pc = "commit" THEN Goto(h, w, Resumed(h, w, "failedStop"))
         ELSE Return(h, w, FALSE)
      /\ permit' = [permit EXCEPT ![h] = @ \/ t.pc = "finish"]
      /\ Unlock(h)
      /\ UNCHANGED <<durable, phase, live, dropped, active, next>>

\* The store cannot be read at a task's sync_journal.  The start task that
\* was about to commit drops its activation with the error.
SyncFails(h, w) ==
  LET t == task[h][w]
  IN  /\ t.pc \in {"claim", "failStart", "commit", "resume", "loss", "complete", "finish"}
      /\ t.ev = NoView /\ apply[h] = None /\ Fault
      /\ dropped' = [dropped EXCEPT ![h] = IF t.pc = "commit" THEN @ \cup {t.run} ELSE @]
      /\ Return(h, w, FALSE)
      /\ NotifyIfHydrating(h, w)
      /\ UNCHANGED <<durable, phase, live, active, next, apply>>

-----------------------------------------------------------------------------
(* Recovery and the cleanup supervisor.                                    *)

\* A Host process starts: it acquires the lease, its memory is empty.
Boot(h, w) ==
  /\ phase[h] = "down" /\ w \in Workers
  /\ IF owner # None /\ phase[owner] # "down" THEN Fault ELSE NoFault
  /\ owner' = h
  /\ phase' = [phase EXCEPT ![h] = "hydrating"]
  /\ SetTask(h, w, [IdleTask EXCEPT !.pc = "hydrate", !.role = "hydrate"])
  /\ UNCHANGED <<journal, next, active, live, dropped, locks, permit, answered>>

\* The process ends: everything but the journal and the lease is gone.
Halt(h) ==
  /\ phase' = [phase EXCEPT ![h] = "down"]
  /\ next' = [next EXCEPT ![h] = 0]
  /\ active' = [active EXCEPT ![h] = [r \in Runs |-> "none"]]
  /\ live' = [live EXCEPT ![h] = {}]
  /\ dropped' = [dropped EXCEPT ![h] = {}]
  /\ apply' = [apply EXCEPT ![h] = None]
  /\ startLock' = [startLock EXCEPT ![h] = [i \in Installations |-> None]]
  /\ cleanLock' = [cleanLock EXCEPT ![h] = [r \in Runs |-> None]]
  /\ task' = [task EXCEPT ![h] = [v \in Tasks |-> IdleTask]]
  /\ permit' = [permit EXCEPT ![h] = FALSE]
  /\ UNCHANGED <<durable, answered>>

Crash(h) == phase[h] # "down" /\ Fault /\ Halt(h)

\* The Runs that recovery still has to mark, after n events.
Unmarked(n) ==
  {r \in Runs : Latest(journal, n, r).status \in ActiveStatuses \ {"stopping"}}

\* hydrate under apply: every active Run that is not yet Stopping is marked
\* host_restart; then all active Runs are completed.  The lease is checked at
\* the beginning and before every append.
Hydrate(h, w) ==
  LET t == task[h][w]
      n == next'[h]
  IN  /\ At(h, w, "hydrate")
      /\ IF apply[h] = w THEN UNCHANGED next ELSE owner = h /\ Sync(h)
      /\ IF Unmarked(n) = {}
         THEN /\ SetTask(h, w, [t EXCEPT !.pc = "loop",
                   !.todo = {r \in Runs : IsActive(journal, n, r)} \X {"complete"}])
              /\ Unlock(h)
         ELSE \E r \in Unmarked(n) :
                /\ owner = h
                /\ Propose(h, w, t, StoppingRun(Latest(journal, n, r), "host_restart", NoClaim))
      /\ UNCHANGED <<durable, hostVars, startLock, cleanLock, answered, faults>>

RestartCommitted(h, w) ==
  /\ Appending(h, w, "hydrate") /\ Commit(h, w)
  /\ Goto(h, w, Resumed(h, w, "hydrate"))
  /\ UNCHANGED <<apply, active, live, permit>>

\* Recovery fails as a whole and the Host does not come up.
HydrateFails(h, w) ==
  LET t == task[h][w]
  IN  /\ t.pc = "hydrate"
      /\ IF IF t.ev = NoView THEN owner # h /\ (apply[h] = w => Unmarked(next[h]) # {})
                              ELSE next[h] # Len(journal)
         THEN NoFault ELSE Fault
      /\ Halt(h)

\* The supervisor takes the pending notification.
Wake(h) ==
  /\ phase[h] # "down" /\ At(h, Supervisor, "idle") /\ permit[h]
  /\ permit' = [permit EXCEPT ![h] = FALSE]
  /\ SetTask(h, Supervisor, [IdleTask EXCEPT !.pc = "scan", !.role = "supervise"])
  /\ UNCHANGED <<durable, phase, next, active, live, dropped, locks, answered, faults>>

AllActivations(h) == {r \in Runs : active[h][r] # "none"}

\* terminal_activation_ids
TerminalActivations(h) ==
  {r \in Runs : Now(r).status \in TerminalStatuses /\ active[h][r] # "none"}

\* stopping_runs
StoppingRuns == {r \in Runs : Now(r).status = "stopping"}

\* The supervisor looks for work, in two journal reads.
Scan(h) ==
  /\ At(h, Supervisor, "scan") /\ Sync(h)
  /\ SetTask(h, Supervisor, [IdleTask EXCEPT !.pc = "scanTerminal", !.role = "supervise",
                                             !.todo = StoppingRuns \X {"complete"}])
  /\ UNCHANGED <<durable, hostVars, locks, answered, faults>>

ScanTerminal(h) ==
  LET todo == task[h][Supervisor].todo \cup (TerminalActivations(h) \X {"cleanup"})
  IN  /\ At(h, Supervisor, "scanTerminal") /\ Sync(h)
      /\ SetTask(h, Supervisor,
           IF todo = {} THEN IdleTask
           ELSE [IdleTask EXCEPT !.pc = "loop", !.role = "supervise", !.todo = todo])
      /\ UNCHANGED <<durable, hostVars, locks, answered, faults>>

\* The next Run of a recovery or of a supervisor pass, Stopping Runs first.
NextRun(h, w) ==
  LET t == task[h][w]
  IN  /\ At(h, w, "loop")
      /\ \E x \in t.todo :
           /\ x[2] = "cleanup" => \A y \in t.todo : y[2] = "cleanup"
           /\ SetTask(h, w, [t EXCEPT !.pc = x[2], !.run = x[1], !.todo = @ \ {x}])
      /\ UNCHANGED <<durable, hostVars, next, locks, answered, faults>>

\* A pass without errors ends; otherwise the supervisor scans again after its
\* retry delay.  A recovery ends in serving requests.
PassEnds(h, w) ==
  LET t == task[h][w]
  IN  /\ At(h, w, "loop") /\ t.todo = {}
      /\ SetTask(h, w, IF t.role = "supervise" /\ t.retry
                       THEN [IdleTask EXCEPT !.pc = "scan", !.role = "supervise"]
                       ELSE IdleTask)
      /\ phase' = [phase EXCEPT ![h] = IF t.role = "hydrate" THEN "up" ELSE @]
      /\ UNCHANGED <<durable, permit, live, dropped, active, next, locks, answered, faults>>

\* The client of a request goes away: the server drops the task where it
\* awaits, with its lock guards and the activation it holds.  An activate
\* that is dropped may have had its effects; a cleanup dropped inside
\* driver.stop leaves its ownership marked as cleaning.
Disconnect(h, w) ==
  LET t == task[h][w]
  IN  /\ Disconnects /\ t.role = "request" /\ Fault
      /\ \E activated \in BOOLEAN :
           /\ activated => t.pc = "activate"
           /\ live' = [live EXCEPT ![h] = IF activated THEN @ \cup {t.run} ELSE @]
           /\ dropped' = [dropped EXCEPT ![h] =
                IF activated \/ t.pc \in {"commit", "lostStop", "failedStop", "driverStop"}
                THEN @ \cup {t.run} ELSE @]
      /\ Return(h, w, FALSE)
      /\ apply' = [apply EXCEPT ![h] = IF @ = w THEN None ELSE @]
      /\ UNCHANGED <<durable, phase, permit, active, next>>

\* The client goes away when Running is committed and the task awaits `active`
\* to record its ownership: the activation is dropped under a Running Run.
DisconnectCommitted(h, w) ==
  /\ Disconnects /\ task[h][w].role = "request" /\ Fault
  /\ Appending(h, w, "commit") /\ Land(h, w) /\ Unlock(h)
  /\ dropped' = [dropped EXCEPT ![h] = @ \cup {task[h][w].run}]
  /\ Return(h, w, FALSE)
  /\ UNCHANGED <<owner, phase, permit, live, active>>

\* list, get, status, and every request that is refused: the projection
\* catches up and nothing else changes.
Observe(h) ==
  /\ phase[h] = "up" /\ Sync(h)
  /\ UNCHANGED <<durable, hostVars, locks, task, answered, faults>>

-----------------------------------------------------------------------------
Init ==
  /\ journal = <<>>
  /\ owner = None
  /\ phase = [h \in Hosts |-> "down"]
  /\ next = [h \in Hosts |-> 0]
  /\ active = [h \in Hosts |-> [r \in Runs |-> "none"]]
  /\ live = [h \in Hosts |-> {}]
  /\ dropped = [h \in Hosts |-> {}]
  /\ apply = [h \in Hosts |-> None]
  /\ startLock = [h \in Hosts |-> [i \in Installations |-> None]]
  /\ cleanLock = [h \in Hosts |-> [r \in Runs |-> None]]
  /\ task = [h \in Hosts |-> [w \in Tasks |-> IdleTask]]
  /\ permit = [h \in Hosts |-> FALSE]
  /\ answered = {}
  /\ faults = MaxFaults

\* The steps of a task that is under way.
Step(h, w) ==
  \/ ClaimStart(h, w) \/ Activate(h, w) \/ FailStart(h, w) \/ CommitStart(h, w)
  \/ StopHeldActivation(h, w) \/ ResumeStart(h, w)
  \/ Loss(h, w) \/ Complete(h, w) \/ Cleanup(h, w) \/ DriverStop(h, w) \/ Finish(h, w)
  \/ StartingCommitted(h, w) \/ FailedCommitted(h, w) \/ RunningCommitted(h, w)
  \/ ResumeCommitted(h, w) \/ StoppingCommitted(h, w) \/ TerminalCommitted(h, w)
  \/ CasLost(h, w)
  \/ Hydrate(h, w) \/ RestartCommitted(h, w) \/ NextRun(h, w) \/ PassEnds(h, w)

Failure(h, w) ==
  \/ PrepareFails(h, w) \/ AppendFails(h, w) \/ SyncFails(h, w)
  \/ HydrateFails(h, w) \/ Disconnect(h, w) \/ DisconnectCommitted(h, w)

Requests(h, w) ==
  \/ \E i \in Installations, key \in Keys, fp \in StartRequests : Start(h, w, i, key, fp)
  \/ \E r \in Runs, key \in Keys, rev \in 1..3 : Stop(h, w, r, key, rev)
  \/ \E r \in Runs : PackageActivationLost(h, w, r)

Next ==
  \E h \in Hosts :
    \/ \E w \in Tasks : Step(h, w) \/ Failure(h, w) \/ Requests(h, w)
    \/ \E w \in Workers : Boot(h, w)
    \/ Crash(h)
    \/ Observe(h)
    \/ Wake(h)
    \/ Scan(h) \/ ScanTerminal(h)

Spec == Init /\ [][Next]_vars

\* Tokio runs every ready task and its mutexes are fair (FIFO): a task under
\* way takes its next step.  Requests, failures, crashes and restarts have no
\* fairness.
Fairness ==
  \A h \in Hosts : /\ \A w \in Tasks : SF_vars(Step(h, w))
                   /\ WF_vars(Wake(h))
                   /\ SF_vars(Scan(h)) /\ SF_vars(ScanTerminal(h))

FairSpec == Spec /\ Fairness

-----------------------------------------------------------------------------
(* Properties.                                                             *)

\* At most one Run of an Installation is active in the durable journal,
\* whatever the Hosts, their lease checks and their retries interleave
\* (validate_journal_event, start's active_run_exists check).
OneActiveRun ==
  \A r, s \in Runs :
    /\ Now(r).status \in ActiveStatuses /\ Now(s).status \in ActiveStatuses
    /\ Now(r).inst = Now(s).inst
    => r = s

\* No Host can ever append an event that its own or another Host's replay
\* rejects: a rejected event would make every later sync_journal fail.
JournalReplays ==
  \A k \in DOMAIN journal : ValidEvent(journal, k - 1, journal[k])

\* An idempotency key of an Installation is bound to one fingerprint and one
\* Run in the whole history, also when two Hosts race for it.
ClaimsAgree ==
  \A k, l \in DOMAIN journal :
    /\ journal[k].claim # NoClaim
    /\ Claiming(journal[l], journal[k].inst, journal[k].claim.op, journal[k].claim.key)
    => journal[k].claim.fp = journal[l].claim.fp /\ journal[k].run = journal[l].run

\* A start that was answered is answered with the same Run by every replay of
\* the request, after crashes and on other Hosts too.
StartReplays ==
  \A a \in answered :
    a.fp \in StartRequests =>
      LET c == ClaimedBy(journal, Len(journal), a.inst, "start", a.key)
      IN  c.run = a.run /\ c.claim.fp = a.fp

Holds(h, w, r) ==
  task[h][w].run = r /\ task[h][w].pc \in {"commit", "lostStop", "failedStop"}
Stops(h, w, r) == task[h][w].run = r /\ task[h][w].pc = "driverStop"

\* An activation has one owner: the start task that made it, or the entry of
\* `active`, and only the task that marked the entry Cleaning is inside
\* driver.stop (the ensure! checks on `replaced` and `removed` never fire).
SingleOwner ==
  \A h \in Hosts, r \in Runs, w \in Tasks :
    /\ Holds(h, w, r) => active[h][r] = "none"
    /\ Stops(h, w, r) => active[h][r] = "cleaning"
    /\ \A v \in Tasks : /\ Holds(h, w, r) \/ Stops(h, w, r)
                        /\ Holds(h, v, r) \/ Stops(h, v, r)
                        => v = w

\* Every activation that exists in the driver is owned, except those whose
\* handle was dropped by a failed journal read or a dropped request.
ActivationAccounted ==
  \A h \in Hosts : \A r \in live[h] \ dropped[h] :
    active[h][r] # "none" \/ \E w \in Tasks : Holds(h, w, r)

\* On one Host two Runs of an Installation are never activated at once: a new
\* start waits for the start lock and for entries that await cleanup, also
\* when the older Run is already terminal.
OneActivation ==
  \A h \in Hosts : \A r, s \in live[h] \ dropped[h] :
    Now(r).inst = Now(s).inst => r = s

\* A Run is recorded as stopped or failed only when its activation is gone
\* from every Host; otherwise it is interrupted.
SettledIsClean ==
  \A r \in Runs : Now(r).status \in {"stopped", "failed"} =>
    \A h \in Hosts : r \notin live[h]

\* The cleanup paths stop an activation only after the journal says that the
\* Run is stopping or has ended: never under a Running Run.
NoStopWhileRunning ==
  \A h \in Hosts, w \in Tasks, r \in Runs :
    Stops(h, w, r) => Now(r).status \in {"stopping"} \cup TerminalStatuses

\* Terminal history is not rewritten, by no Host, retry or recovery.
TerminalIsFinal ==
  [][\A r \in Runs : Now(r).status \in TerminalStatuses => Now(r)' = Now(r)]_vars

OwnerServes == owner # None /\ phase[owner] # "down"

\* A Run that is Stopping gets its terminal event while the lease owner stays
\* up: the supervisor retries every cleanup and commit that failed.
StopConverges ==
  \A r \in Runs :
    Now(r).status = "stopping" ~> (Now(r).status \in TerminalStatuses \/ ~OwnerServes)

\* An activation that outlived its Run is cleaned up while the Host is up.
CleanupConverges ==
  \A h \in Hosts, r \in Runs :
    (active[h][r] # "none" /\ Now(r).status \in TerminalStatuses)
      ~> (active[h][r] = "none" \/ phase[h] = "down")

\* The journal implements the ledger: every Host step is a stutter or one
\* legal change of one Run, with its claim.
Ledger ==
  INSTANCE RunLedger WITH
    ledger <- [r \in Runs |-> [inst |-> Now(r).inst, status |-> Now(r).status]],
    bound <- {<<journal[k].inst, journal[k].claim, journal[k].run>> :
                k \in {l \in DOMAIN journal : journal[l].claim # NoClaim}}

LedgerRefinement == Ledger!LedgerSpec

\* docs/guides/RUN_LIBRARY.en.md: every Run affected by a package loss
\* converges to failed with reason package_activation_lost.
PackageLossFails ==
  \A k, l \in DOMAIN journal :
    /\ k < l /\ journal[k].run = journal[l].run
    /\ journal[k].reason = "package_activation_lost" /\ journal[k].status = "stopping"
    /\ journal[l].status \in TerminalStatuses
    => journal[l].status = "failed" /\ journal[l].reason = "package_activation_lost"

\* docs/guides/RUN_LIBRARY.en.md: the same key and fingerprint replay the
\* durable result.  A stop that was answered is not refused when repeated.
StopReplays ==
  \A a \in answered :
    a.fp \notin StartRequests =>
      LET c == ClaimedBy(journal, Len(journal), a.inst, "stop", a.key)
      IN  IF c = NoView THEN Now(a.run).rev = a.fp[2] ELSE c.claim.fp = a.fp

=============================================================================
