-------------------------- MODULE TargetOperations --------------------------
(***************************************************************************)
(* Operations on execution targets.  A client submits one to a Host under   *)
(* an idempotency key.  The Host executes an operation of the local target  *)
(* itself (target_agent/operation.rs); an operation of a remote target is   *)
(* polled, executed and reported by that target's agent, which keeps a      *)
(* ledger of its own (plurora-cli commands/target_agent.rs).  An execution  *)
(* is a sequence of Docker effects, each between two guards that ask        *)
(* whether the executor is still current (target_workload.rs).              *)
(*                                                                         *)
(* A Host whose lease was taken over may go on running: mine[h] is the term *)
(* of the lease it holds, or thinks it holds.  A step is what happens       *)
(* between two awaits that matter: a synchronisation with the decision that *)
(* follows it, a read of the next sequence, the checks before an append,    *)
(* the append.  A retry after a lost compare is not limited to 8; that      *)
(* limit is one of the errors of StoreError.                                *)
(***************************************************************************)
EXTENDS OperationJournal, FiniteSets, FiniteSetsExt, Functions

CONSTANTS
  Hosts, Workers,  \* Workers: concurrent requests, and the Hosts' startups
  Steps,           \* effects of an execution: create, then start a container
  MaxTerm,         \* bound: Host processes
  MaxEpoch,        \* bound: enrolments and revocations of the remote target
  MaxFaults,       \* bound: store errors, crashes, timeouts, lapses
  BootMayFail,     \* whether recovery at startup may meet a store error
  Preemption       \* whether other threads run between two reads of the registry

ASSUME TargetAssumption ==
  /\ IsFiniteSet(Operations) /\ Operations = 1 .. Cardinality(Operations)
  /\ {Steps, MaxEpoch} \subseteq Nat \ {0} /\ {MaxTerm, MaxFaults} \subseteq Nat
  /\ {BootMayFail, Preemption} \subseteq BOOLEAN
  /\ None \notin Keys \cup Hosts \cup Workers

VARIABLES
  driver,     \* resolve_target_driver of the target of a key
  term,       \* the durable owner lease
  mine,       \* the term of each Host, 0 when it is not running
  phase,      \* "down", "booting", "up"
  seen,       \* next_sequence of each Host's registry
  executing,  \* holder of the local_execution_lock of a Host and an operation
  task,       \* what each worker does
  epoch,      \* lease_epoch of the remote target
  revoked,    \* its status is Revoked
  online,     \* whether a Host sees it Available
  agent,      \* the agent process
  ledger,     \* the agent's durable ledger
  past,       \* operations whose authority has expired
  performed,  \* history: how often each effect was performed
  late,       \* history: effects by an executor that had been replaced
  faults

hosts == <<term, mine, phase, executing>>
target == <<epoch, revoked, online>>
history == <<performed, late>>
vars == <<journal, driver, hosts, seen, task, target, agent, ledger, past, history, faults>>

NoLedger == [status |-> "none", exec |-> 0]

IdleTask ==
  [pc |-> "idle", does |-> "none", host |-> None, awaited |-> FALSE, op |-> 0, key |-> None,
   epoch |-> 0, exec |-> 0, status |-> "none", claim |-> NoClaim, event |-> NoEvent, base |-> 0,
   then |-> "idle", retry |-> "idle", step |-> 1, out |-> "none"]

AgentIdle(e) ==
  [pc |-> "idle", epoch |-> e, waiting |-> FALSE, ok |-> FALSE, op |-> 0, rec |-> NoRecord,
   step |-> 1, out |-> "none"]

Local(o) == driver[record[o].key] = "local"

-----------------------------------------------------------------------------
(* Steps of a task.                                                        *)

At(w, pc) == task[w].pc = pc
SetTask(w, t) == task' = [task EXCEPT ![w] = t]
Goto(w, pc) == SetTask(w, [task[w] EXCEPT !.pc = pc])

Release(w) ==
  executing' = [h \in Hosts |-> [o \in Operations |->
                  IF executing[h][o] = w THEN None ELSE executing[h][o]]]

\* The answer to the agent, if it still waits for this task.
Reply(w, ok, o, r) ==
  agent' = IF task[w].awaited
           THEN [agent EXCEPT !.waiting = FALSE, !.ok = ok, !.rec = r,
                              !.op = IF task[w].does = "next" THEN o ELSE @]
           ELSE agent

\* DevelopmentHostLease.ensure_durable_owner
Owner(h) == mine[h] = term

\* A task that returns.  The Host serves once its recovery has returned.
Returns(w) ==
  LET h == task[w].host
  IN  /\ SetTask(w, IdleTask) /\ Release(w)
      /\ phase' = IF task[w].does = "boot" THEN [phase EXCEPT ![h] = "up"] ELSE phase
      /\ UNCHANGED <<term, mine>>

\* A task that returns an error.  An error of the recovery is only printed,
\* but a Host that has lost the lease ends at the next step of its startup.
Fails(w) ==
  LET h == task[w].host
      ends == task[w].does = "boot" /\ ~(Owner(h) /\ BootMayFail)
  IN  /\ SetTask(w, IdleTask) /\ Release(w)
      /\ phase' = IF task[w].does # "boot" THEN phase
                  ELSE [phase EXCEPT ![h] = IF ends THEN "down" ELSE "up"]
      /\ mine' = IF ends THEN [mine EXCEPT ![h] = 0] ELSE mine
      /\ Reply(w, FALSE, 0, NoRecord)
      /\ UNCHANGED term

Finishes(w, o, r) == Returns(w) /\ Reply(w, TRUE, o, r)

Fault == faults > 0 /\ faults' = faults - 1

\* A task whose step meets an error of the store.
Errs(w) == (task[w].does = "boot" => BootMayFail) /\ Fault /\ Fails(w)

SyncPastEnd(h) == seen' = [seen EXCEPT ![h] = length + 1]

\* sync_target_operation_journal, up to the end of the journal.
Sync(h) == seen' = [seen EXCEPT ![h] = length]

\* A task proposes an event.  await: something is awaited between the
\* decision and the read of operation_next_sequence.
Propose(w, t, e, await, then, retry) ==
  LET reads == ~await /\ ~Preemption
      next == IF e.kind = "record" THEN "check" ELSE "append"
  IN  SetTask(w, [t EXCEPT !.event = e, !.then = then, !.retry = retry,
                           !.pc = IF await /\ e.kind # "record" THEN "owner"
                                  ELSE IF reads THEN next ELSE "base",
                           !.base = IF reads THEN length ELSE 0])

FenceWithoutLease(h) == ~poisoned /\ fence = mine[h]

\* ensure_operation_host_fence, ensure_executor_claim
FenceCurrent(h) == Owner(h) /\ ~poisoned /\ fence = mine[h]

ClaimCurrent(t) == FenceCurrent(t.host) /\ claim[t.op] = t.claim

\* LocalOperationExecutionFence.ensure_current; the local target is Available
\* and its epochs never change.
ExecutorCurrent(t) ==
  /\ ClaimCurrent(t)
  /\ \/ record[t.op].status = "requested"
     \/ record[t.op].status \in {"accepted", "running"} /\ record[t.op].exec = t.claim.exec

-----------------------------------------------------------------------------
(* The append pipeline, of every task.                                     *)

\* establish_operation_host_fence
HostFence(w) ==
  /\ At(w, "fence")
  /\ LET t == task[w] h == task[w].host
     IN  IF Owner(h) /\ ~poisoned
         THEN /\ IF fence = mine[h]
                 THEN Goto(w, t.then)
                 ELSE Propose(w, t, FenceEvent(mine[h]), TRUE, t.then, "fence")
              /\ Sync(h)
              /\ UNCHANGED <<hosts, agent>>
         ELSE Fails(w) /\ UNCHANGED seen
  /\ UNCHANGED <<journal, driver, target, ledger, past, history, faults>>

\* The owner check before the append of a fence or a claim.
CheckOwner(w) ==
  /\ At(w, "owner")
  /\ LET t == task[w]
     IN  IF ~Owner(t.host) THEN Fails(w)
         ELSE /\ SetTask(w, IF Preemption THEN [t EXCEPT !.pc = "base"]
                            ELSE [t EXCEPT !.pc = "append", !.base = seen[t.host]])
              /\ UNCHANGED <<hosts, agent>>
  /\ UNCHANGED <<journal, driver, seen, target, ledger, past, history, faults>>

\* operation_next_sequence
ReadBase(w) ==
  /\ At(w, "base")
  /\ LET t == task[w]
     IN  SetTask(w, [t EXCEPT !.base = seen[t.host],
                              !.pc = IF t.event.kind = "record" THEN "check" ELSE "append"])
  /\ UNCHANGED <<journal, driver, hosts, seen, target, agent, ledger, past, history, faults>>

\* The checks of append_target_operation_snapshot.
CheckAppend(w) ==
  /\ At(w, "check")
  /\ LET t == task[w]
         executes == /\ driver[t.event.new.key] = "local"
                     /\ t.event.new.status \notin {"requested", "expired"}
     IN  IF /\ FenceCurrent(t.host)
            /\ executes => ClaimCurrent(t) /\ t.event.new.exec = t.claim.exec
         THEN Goto(w, "append") /\ Sync(t.host) /\ UNCHANGED <<hosts, agent>>
         ELSE Fails(w) /\ UNCHANGED seen
  /\ UNCHANGED <<journal, driver, target, ledger, past, history, faults>>

\* A task as it continues once its event is in the journal.
Appended(t) ==
  [t EXCEPT !.pc = t.then, !.event = NoEvent, !.base = 0,
            !.claim = IF t.event.kind = "claim" THEN t.event.new ELSE t.claim]

Append(w) ==
  /\ At(w, "append")
  /\ LET t == task[w] h == task[w].host
     IN  \/ /\ t.base = length /\ AppendEvent(t.event)
            /\ \/ /\ ~poisoned' /\ seen' = [seen EXCEPT ![h] = length + 1]
                  /\ IF t.then = "done" THEN Finishes(w, t.op, t.event.new)
                     ELSE SetTask(w, Appended(t)) /\ UNCHANGED <<hosts, agent>>
                  /\ UNCHANGED faults
               \/ poisoned' /\ Fails(w) /\ UNCHANGED <<seen, faults>>
               \/ Errs(w) /\ UNCHANGED seen  \* it landed, the answer is lost
         \/ /\ t.base # length
            /\ SetTask(w, [t EXCEPT !.pc = t.retry, !.event = NoEvent, !.base = 0])
            /\ UNCHANGED <<journal, hosts, seen, agent, faults>>
  /\ UNCHANGED <<driver, target, ledger, past, history>>

\* A store that answers with an error: every step but a read of the registry
\* reaches the store.  The guards around an effect answer for themselves.
StoreError(w) ==
  /\ task[w].pc \notin {"idle", "base", "guard", "effect", "after"}
  /\ Errs(w)
  /\ UNCHANGED <<journal, driver, seen, target, ledger, past, history>>

-----------------------------------------------------------------------------
(* Creating an operation.                                                  *)

\* submit_host_operation
Submit(w, h, k) ==
  /\ At(w, "idle") /\ phase[h] = "up"
  /\ SetTask(w, [IdleTask EXCEPT !.pc = "fence", !.does = "submit", !.host = h, !.key = k,
                                 !.then = IF driver[k] = "local" THEN "create" ELSE "target"])
  /\ UNCHANGED <<journal, driver, hosts, seen, target, agent, ledger, past, history, faults>>

\* The target as submit_host_operation reads it.
ReadTarget(w) ==
  /\ At(w, "target")
  /\ IF revoked \/ ~online[task[w].host] THEN Fails(w)
     ELSE /\ SetTask(w, [task[w] EXCEPT !.pc = "create", !.epoch = epoch])
          /\ UNCHANGED <<hosts, agent>>
  /\ UNCHANGED <<journal, driver, seen, target, ledger, past, history, faults>>

SameKeyNotLookedUp(k) == {}

\* idempotent_operation
SameKey(k) == {o \in Created : record[o].key = k}

\* create_operation_record, and the drive of a local operation that follows.
Create(w) ==
  /\ At(w, "create")
  /\ LET t == task[w]
         same == SameKey(t.key)
         new == [status |-> "requested", exec |-> 0, key |-> t.key, epoch |-> t.epoch]
         drive == IF driver[t.key] = "local" THEN "lock" ELSE "done"
     IN  \/ ~FenceCurrent(t.host) /\ Fails(w) /\ UNCHANGED seen
         \/ /\ FenceCurrent(t.host) /\ Sync(t.host)
            /\ \E o \in same :
                 IF Local(o) /\ ~IsTerminal(o)
                 THEN /\ SetTask(w, [t EXCEPT !.pc = "lock", !.op = o])
                      /\ UNCHANGED <<hosts, agent>>
                 ELSE Finishes(w, o, record[o])
         \/ /\ FenceCurrent(t.host) /\ Sync(t.host) /\ same = {}
            /\ \E o \in Operations \ Created :
                 /\ \A p \in Operations \ Created : o <= p
                 /\ Propose(w, [t EXCEPT !.op = o], RecordEvent(o, new), FALSE, drive, "create")
            /\ UNCHANGED <<hosts, agent>>
  /\ UNCHANGED <<journal, driver, target, ledger, past, history, faults>>

-----------------------------------------------------------------------------
(* Executing a local operation.                                            *)

\* drive_local_operation_with_driver, up to the second current_operation_host_fence
LockExecution(w) ==
  /\ At(w, "lock")
  /\ LET t == task[w]
     IN  /\ executing[t.host][t.op] = None
         /\ IF poisoned THEN Fails(w) /\ UNCHANGED seen
            ELSE /\ Sync(t.host)
                 /\ IF IsTerminal(t.op) THEN Finishes(w, t.op, record[t.op])
                    ELSE /\ executing' = [executing EXCEPT ![t.host][t.op] = w]
                         /\ SetTask(w, [t EXCEPT !.pc = "fence", !.then = "claim"])
                         /\ UNCHANGED <<term, mine, phase, agent>>
  /\ UNCHANGED <<journal, driver, target, ledger, past, history, faults>>

\* claim_local_operation
Claim(w) ==
  /\ At(w, "claim")
  /\ LET t == task[w]
         exec == IF record[t.op].exec = 0 THEN mine[t.host] ELSE record[t.op].exec
     IN  IF FenceCurrent(t.host) /\ (t.does = "boot" \/ ~IsTerminal(t.op))
         THEN /\ IF IsTerminal(t.op) THEN Goto(w, "recover")
                 ELSE IF claim[t.op].owner = mine[t.host]
                 THEN SetTask(w, [t EXCEPT !.pc = "resolve", !.claim = claim[t.op]])
                 ELSE Propose(w, t, ClaimEvent(t.op, mine[t.host], exec), TRUE, "resolve", "claim")
              /\ Sync(t.host) /\ UNCHANGED <<hosts, agent>>
         ELSE Fails(w) /\ UNCHANGED seen
  /\ UNCHANGED <<journal, driver, target, ledger, past, history, faults>>

\* A step of the execution that passes when the executor is still current.
WhileCurrent(w, t) ==
  /\ IF ExecutorCurrent(task[w])
     THEN SetTask(w, t) /\ Sync(t.host) /\ UNCHANGED <<hosts, agent>>
     ELSE Fails(w) /\ UNCHANGED seen
  /\ UNCHANGED <<journal, driver, target, ledger, past, history, faults>>

\* A Running operation is closed as OutcomeUnknown; another one is advanced,
\* or, at startup, left as it is.
Resolve(w) ==
  /\ At(w, "resolve")
  /\ LET t == task[w]
     IN  WhileCurrent(w, IF record[t.op].status = "running"
                         THEN [t EXCEPT !.pc = "complete", !.out = "unknown"]
                         ELSE IF t.does = "boot" THEN [t EXCEPT !.pc = "recover"]
                         ELSE [t EXCEPT !.pc = "advance", !.status = "accepted"])

\* advance_local_operation, of the status the task wants
Advance(w) ==
  /\ At(w, "advance")
  /\ LET t == task[w]
         r == record[t.op]
         to == [r EXCEPT !.status = t.status, !.exec = IF @ = 0 THEN t.claim.exec ELSE @]
     IN  \/ /\ ~ExecutorCurrent(t) /\ Fails(w) /\ UNCHANGED seen
         \/ /\ ExecutorCurrent(t) /\ t.status = "running" /\ r.status = "running"
            /\ Fails(w) /\ Sync(t.host)  \* it was Running before this executor
         \/ /\ ExecutorCurrent(t) /\ Sync(t.host) /\ UNCHANGED <<hosts, agent>>
            /\ \/ /\ t.status = "accepted" /\ r.status \in {"accepted", "running"}
                  /\ SetTask(w, [t EXCEPT !.status = "running"])
               \/ /\ r.status = "requested" /\ t.op \in past
                  /\ Propose(w, t, RecordEvent(t.op, [r EXCEPT !.status = "expired"]), TRUE,
                             "done", "advance")
               \/ /\ r.status = "requested" /\ t.op \notin past /\ t.status = "accepted"
                  /\ Propose(w, t, RecordEvent(t.op, to), TRUE, "advance", "advance")
               \/ /\ r.status = "accepted" /\ t.status = "running"
                  /\ Propose(w, t, RecordEvent(t.op, to), TRUE, "enter", "advance")
  /\ UNCHANGED <<journal, driver, target, ledger, past, history, faults>>

Enter(w) == At(w, "enter") /\ WhileCurrent(w, [task[w] EXCEPT !.pc = "guard"])

\* What the guard of an effect lets follow: yes when the executor is current,
\* no when it is not, or when the guard cannot find out.
Guarded(w, yes, no) ==
  /\ \/ /\ ExecutorCurrent(task[w]) /\ SetTask(w, yes) /\ Sync(task[w].host)
        /\ UNCHANGED faults
     \/ /\ ~ExecutorCurrent(task[w]) /\ SetTask(w, no)
        /\ UNCHANGED <<seen, faults>>
     \/ Fault /\ SetTask(w, no) /\ UNCHANGED seen
  /\ UNCHANGED <<journal, driver, hosts, target, agent, ledger, past, history>>

\* ensure_effect_guard: an error is an ordinary failure.  Before the first
\* effect the driver may refuse, for an image it does not find.
GuardBefore(w) ==
  /\ At(w, "guard")
  /\ LET t == task[w] failed == [t EXCEPT !.pc = "finish", !.out = "failed"]
     IN  \/ Guarded(w, [t EXCEPT !.pc = "effect"], failed)
         \/ /\ t.step = 1 /\ SetTask(w, failed)
            /\ UNCHANGED <<journal, driver, hosts, seen, target, agent, ledger, past, history,
                           faults>>

Perform(o, n, replaced) ==
  /\ performed' = [performed EXCEPT ![o][n] = @ + 1]
  /\ late' = [late EXCEPT ![o] = @ + IF replaced THEN 1 ELSE 0]

EffectErrorIgnored(w) ==
  /\ At(w, "effect")
  /\ SetTask(w, [task[w] EXCEPT !.pc = "after"])
  /\ \/ Perform(task[w].op, task[w].step, ~Owner(task[w].host))
     \/ UNCHANGED history
  /\ UNCHANGED <<journal, driver, hosts, seen, target, agent, ledger, past, faults>>

\* A call of Docker.  An error leaves open whether it had its effect.
Effect(w) ==
  /\ At(w, "effect")
  /\ LET t == task[w]
         unknown == [t EXCEPT !.pc = "finish", !.out = "unknown"]
     IN  \/ /\ Perform(t.op, t.step, ~Owner(t.host))
            /\ SetTask(w, [t EXCEPT !.pc = "after"]) \/ SetTask(w, unknown)
         \/ SetTask(w, unknown) /\ UNCHANGED history
  /\ UNCHANGED <<journal, driver, hosts, seen, target, agent, ledger, past, faults>>

\* ensure_effect_guard_after: an error makes the outcome unknown.
GuardAfter(w) ==
  /\ At(w, "after")
  /\ LET t == task[w]
         next == IF t.step < Steps THEN [t EXCEPT !.pc = "guard", !.step = @ + 1]
                 ELSE [t EXCEPT !.pc = "finish", !.out = "succeeded"]
     IN  Guarded(w, next, [t EXCEPT !.pc = "finish", !.out = "unknown"])

Finish(w) == At(w, "finish") /\ WhileCurrent(w, [task[w] EXCEPT !.pc = "complete"])

\* complete_local_operation
Complete(w) ==
  /\ At(w, "complete")
  /\ LET t == task[w]
         then == IF t.does = "boot" THEN "recover" ELSE "done"
         to == [record[t.op] EXCEPT !.status = t.out]
     IN  \/ /\ ~ClaimCurrent(t) \/ record[t.op].status = "requested"
            /\ Fails(w) /\ UNCHANGED seen
         \/ /\ ClaimCurrent(t) /\ IsTerminal(t.op) /\ Sync(t.host)
            /\ IF t.does = "boot" THEN Goto(w, "recover") /\ UNCHANGED <<hosts, agent>>
               ELSE Finishes(w, t.op, record[t.op])
         \/ /\ ClaimCurrent(t) /\ record[t.op].status \in {"accepted", "running"}
            /\ Propose(w, t, RecordEvent(t.op, to), TRUE, then, "complete")
            /\ Sync(t.host) /\ UNCHANGED <<hosts, agent>>
  /\ UNCHANGED <<journal, driver, target, ledger, past, history, faults>>

-----------------------------------------------------------------------------
(* The Hosts.                                                              *)

StartsWithRecovery == "recover"

\* recover_local_operations_after_restart fences before it looks.
StartsWith == "fence"

\* A Host process starts: it takes the lease, hydrates, and recovers.
Boot(w, h) ==
  /\ phase[h] = "down" /\ At(w, "idle") /\ term < MaxTerm /\ ~poisoned
  /\ term' = term + 1
  /\ mine' = [mine EXCEPT ![h] = term + 1]
  /\ phase' = [phase EXCEPT ![h] = "booting"]
  /\ Sync(h)
  /\ online' = [online EXCEPT ![h] = FALSE]
  /\ SetTask(w, [IdleTask EXCEPT !.pc = StartsWith, !.does = "boot", !.host = h, !.then = "recover"])
  /\ UNCHANGED <<journal, driver, executing, epoch, revoked, agent, ledger, past, history, faults>>

\* recover_local_operations_after_restart
Recover(w) ==
  /\ At(w, "recover")
  /\ LET t == task[w]
         candidates == {o \in Created : Local(o) /\ record[o].status = "running"}
     IN  \/ /\ ~poisoned /\ Sync(t.host) /\ candidates # {}
            /\ SetTask(w, [t EXCEPT !.pc = "claim", !.op = Min(candidates)])
            /\ UNCHANGED <<hosts, agent>>
         \/ ~poisoned /\ Sync(t.host) /\ candidates = {} /\ Finishes(w, 0, NoRecord)
         \/ poisoned /\ Fails(w) /\ UNCHANGED seen
  /\ UNCHANGED <<journal, driver, target, ledger, past, history, faults>>

Crash(h) ==
  /\ phase[h] # "down" /\ Fault
  /\ phase' = [phase EXCEPT ![h] = "down"]
  /\ mine' = [mine EXCEPT ![h] = 0]
  /\ executing' = [executing EXCEPT ![h] = [o \in Operations |-> None]]
  /\ task' = [w \in Workers |-> IF task[w].host = h THEN IdleTask ELSE task[w]]
  /\ agent' = IF \E w \in Workers : task[w].host = h /\ task[w].awaited
              THEN [agent EXCEPT !.waiting = FALSE, !.ok = FALSE] ELSE agent
  /\ UNCHANGED <<journal, driver, term, seen, target, ledger, past, history>>

\* authority.expires_at_ms of an operation that nobody has accepted
Expire(o) ==
  /\ record[o].status = "requested" /\ o \notin past
  /\ past' = past \cup {o}
  /\ UNCHANGED <<journal, driver, hosts, seen, task, target, agent, ledger, history, faults>>

-----------------------------------------------------------------------------
(* Requests of the agent, at a Host.                                       *)

\* validate_agent_operation_binding
Bound(t) == record[t.op].epoch = t.epoch /\ record[t.op].exec \in {0, t.exec}

\* authenticated_agent, and current_operation_host_fence when the fence stands;
\* a receipt of an operation that has ended is answered before that.
Authenticate(w) ==
  /\ At(w, "auth")
  /\ LET t == task[w]
         receipt == t.does = "receipt"
         refused == receipt /\ \/ poisoned \/ ~Bound(t)
                               \/ IsTerminal(t.op) /\ record[t.op].status # t.status
     IN  IF t.epoch # epoch \/ revoked \/ ~online[t.host] \/ refused THEN Fails(w)
         ELSE IF receipt /\ IsTerminal(t.op) THEN Finishes(w, t.op, record[t.op])
         ELSE /\ SetTask(w, [t EXCEPT !.pc = IF FenceCurrent(t.host) THEN "handle" ELSE "fence",
                                      !.then = "handle"])
              /\ UNCHANGED <<hosts, agent>>
  /\ UNCHANGED <<journal, driver, seen, target, ledger, past, history, faults>>

\* An operation that next_operation has to expire.
Overdue(t, o) ==
  record[o].status = "requested" /\ (record[o].epoch # t.epoch \/ o \in past)

\* next_operation: the first operation that it acts on.
NextOperation(w, t) ==
  LET acts == {o \in Created : /\ ~Local(o) /\ ~IsTerminal(o)
                               /\ Overdue(t, o) \/ record[o].epoch = t.epoch}
      o == Min(acts)
  IN  \/ acts = {} /\ Finishes(w, 0, NoRecord)
      \/ acts # {} /\ ~Overdue(t, o) /\ Finishes(w, o, record[o])
      \/ /\ acts # {} /\ Overdue(t, o)
         /\ Propose(w, t, RecordEvent(o, [record[o] EXCEPT !.status = "expired"]), FALSE,
                    "handle", "handle")
         /\ UNCHANGED <<hosts, agent>>

\* progress_operation
ProgressOperation(w, t) ==
  LET r == record[t.op]
      allowed == \/ r.status = "requested" /\ t.status = "accepted" /\ t.op \notin past
                 \/ r.status = "accepted" /\ t.status = "running"
  IN  \/ ~Bound(t) /\ Fails(w)
      \/ Bound(t) /\ r.status = t.status /\ Finishes(w, t.op, r)
      \/ Bound(t) /\ r.status # t.status /\ ~allowed /\ Fails(w)
      \/ /\ Bound(t) /\ allowed
         /\ Propose(w, t, RecordEvent(t.op, [r EXCEPT !.status = t.status, !.exec = t.exec]),
                    FALSE, "done", "handle")
         /\ UNCHANGED <<hosts, agent>>

\* complete_operation
CompleteOperation(w, t) ==
  LET r == record[t.op]
  IN  \/ ~Bound(t) /\ Fails(w)
      \/ Bound(t) /\ r.status = t.status /\ Finishes(w, t.op, r)
      \/ /\ Bound(t) /\ r.status # t.status
         /\ r.status \notin {"accepted", "running"} /\ Fails(w)
      \/ /\ Bound(t) /\ r.status \in {"accepted", "running"}
         /\ Propose(w, t, RecordEvent(t.op, [r EXCEPT !.status = t.status]), FALSE,
                    "done", "handle")
         /\ UNCHANGED <<hosts, agent>>

Handle(w) ==
  /\ At(w, "handle")
  /\ LET t == task[w]
     IN  \/ poisoned /\ Fails(w) /\ UNCHANGED seen
         \/ /\ ~poisoned /\ Sync(t.host)
            /\ \/ t.does = "next" /\ NextOperation(w, t)
               \/ t.does = "progress" /\ ProgressOperation(w, t)
               \/ t.does = "receipt" /\ CompleteOperation(w, t)
  /\ UNCHANGED <<journal, driver, target, ledger, past, history, faults>>

\* The Host drops the handler of a caller that has gone.
DropHandler(w) ==
  /\ task[w].does \in {"next", "progress", "receipt"} /\ ~task[w].awaited
  /\ SetTask(w, IdleTask)
  /\ UNCHANGED <<journal, driver, hosts, seen, target, agent, ledger, past, history, faults>>

-----------------------------------------------------------------------------
(* The remote target.                                                      *)

\* revoke_target_record
Revoke ==
  /\ ~revoked /\ epoch < MaxEpoch
  /\ epoch' = epoch + 1 /\ revoked' = TRUE
  /\ UNCHANGED <<journal, driver, hosts, seen, task, online, agent, ledger, past, history, faults>>

\* claim_enrollment_record, by an agent that is restarted with the new identity
\* and the data directory it had.
Enroll ==
  /\ revoked /\ epoch < MaxEpoch
  /\ epoch' = epoch + 1 /\ revoked' = FALSE
  /\ online' = [h \in Hosts |-> TRUE]
  /\ agent' = AgentIdle(epoch + 1)
  /\ task' = [w \in Workers |-> [task[w] EXCEPT !.awaited = FALSE]]
  /\ UNCHANGED <<journal, driver, hosts, seen, ledger, past, history, faults>>

\* heartbeat_expires_at_ms passes.  The agent sends no heartbeat during a call
\* of Docker.
HeartbeatLapses ==
  /\ \E h \in Hosts : online[h]
  /\ Fault /\ online' = [h \in Hosts |-> FALSE]
  /\ UNCHANGED <<journal, driver, hosts, seen, task, epoch, revoked, agent, ledger, past, history>>

-----------------------------------------------------------------------------
(* The agent.  It awaits every request of its own before the next step.    *)

Ready(pc) == agent.pc = pc /\ ~agent.waiting

Ask(does, status, x, a) ==
  \/ /\ \A h \in Hosts : phase[h] # "up"
     /\ agent' = [a EXCEPT !.ok = FALSE]
     /\ UNCHANGED task
  \/ \E w \in Workers, h \in Hosts :
       /\ At(w, "idle") /\ phase[h] = "up"
       /\ SetTask(w, [IdleTask EXCEPT !.pc = "auth", !.does = does, !.host = h,
                        !.awaited = TRUE, !.op = a.op, !.epoch = a.epoch, !.exec = x,
                        !.status = status])
       /\ agent' = [a EXCEPT !.waiting = TRUE]

\* The step of the agent that fails: agent_cycle returns an error.
CycleEnds == agent' = AgentIdle(agent.epoch) /\ UNCHANGED <<task, ledger>>

Mine == ledger[agent.op]

\* heartbeat, answered by a Host that is up, and the request that follows it.
Heartbeat(request) ==
  /\ IF agent.epoch = epoch /\ ~revoked /\ \E h \in Hosts : phase[h] = "up"
     THEN /\ online' = [h \in Hosts |-> phase[h] = "up" \/ online[h]]
          /\ request /\ UNCHANGED ledger
     ELSE CycleEnds /\ UNCHANGED online
  /\ UNCHANGED <<journal, driver, hosts, seen, epoch, revoked, past, history, faults>>

AgentStep ==
  UNCHANGED <<journal, driver, hosts, seen, target, past, history, faults>>

\* agent_cycle.  A cycle whose heartbeat is not due yet differs only when the
\* Host would refuse it for want of one, and then it starts again.
AgentCycle ==
  Ready("idle") /\ Heartbeat(Ask("next", "none", 0, [agent EXCEPT !.pc = "polled"]))

\* handle_operation, up to the answer that the Host accepted.
AgentAccept ==
  /\ Ready("polled")
  /\ LET o == agent.op r == agent.rec
         known == ledger[o] # NoLedger
     IN  IF \/ ~agent.ok \/ o = 0
         THEN CycleEnds
         ELSE IF \/ ~known /\ (r.status # "requested" \/ o \in past)
                 \/ known /\ r.exec \notin {0, Mine.exec}
         THEN CycleEnds
         ELSE LET mark == IF known THEN Mine ELSE [status |-> "accepted", exec |-> agent.epoch]
              IN  /\ ledger' = [ledger EXCEPT ![o] = mark]
                  /\ IF r.status = "requested"
                     THEN Ask("progress", "accepted", mark.exec, [agent EXCEPT !.pc = "accepted"])
                     ELSE /\ agent' = [agent EXCEPT !.pc = "accepted", !.ok = TRUE]
                          /\ UNCHANGED task
  /\ AgentStep

Receipt(status) ==
  Ask("receipt", status, Mine.exec, [agent EXCEPT !.pc = "receipted"])

\* An agent that resumes what it finds Running in its ledger.
ResumeRunning ==
  /\ Mine.status = "running"
  /\ UNCHANGED ledger
  /\ Ask("progress", "running", Mine.exec, [agent EXCEPT !.pc = "started"])

\* interrupted_running_receipt
CloseRunning ==
  /\ Mine.status = "running"
  /\ ledger' = [ledger EXCEPT ![agent.op].status = "unknown"]
  /\ Receipt("unknown")

NothingToReport == Mine.status \in Terminal /\ CycleEnds

ReportAgain == Mine.status \in Terminal /\ Receipt(Mine.status) /\ UNCHANGED ledger

\* A terminal entry is reported again; one left Running by an earlier cycle is
\* closed as OutcomeUnknown; an accepted one is marked Running and started.
AgentStart ==
  /\ Ready("accepted")
  /\ IF ~agent.ok \/ agent.rec.exec \notin {0, Mine.exec} THEN CycleEnds
     ELSE \/ ReportAgain
          \/ CloseRunning
          \/ /\ Mine.status = "accepted"
             /\ ledger' = [ledger EXCEPT ![agent.op].status = "running"]
             /\ Ask("progress", "running", Mine.exec, [agent EXCEPT !.pc = "started"])
  /\ AgentStep

\* AgentRuntimeEffectGuard.ensure_current: the ledger, then the Host.
AskRunning(pc) ==
  Ask("progress", "running", Mine.exec, [agent EXCEPT !.pc = pc])

Confirmed == /\ agent.ok /\ Mine.status = "running"
             /\ agent.rec.status = "running" /\ agent.rec.exec = Mine.exec

\* The heartbeat before any effect.
AgentStarted ==
  /\ Ready("started")
  /\ \/ agent.ok /\ Heartbeat(AskRunning("confirmed"))
     \/ ~agent.ok /\ CycleEnds /\ AgentStep

\* The guard before the execution, which then asks for its first effect.
AgentEnter ==
  /\ Ready("confirmed")
  /\ IF ~Confirmed THEN CycleEnds
     ELSE AskRunning("guarded") /\ UNCHANGED ledger
  /\ AgentStep

\* The execution is over: the last guard.
AgentOver(out) ==
  Ask("progress", "running", Mine.exec, [agent EXCEPT !.pc = "finished", !.out = out])

AgentGuarded ==
  /\ Ready("guarded")
  /\ \/ Confirmed /\ agent' = [agent EXCEPT !.pc = "effect"] /\ UNCHANGED task
     \/ ~Confirmed /\ AgentOver("failed")
     \/ agent.step = 1 /\ AgentOver("failed")
  /\ UNCHANGED ledger /\ AgentStep

AgentEffect ==
  /\ Ready("effect")
  /\ \/ /\ Perform(agent.op, agent.step, agent.epoch # epoch)
        /\ AskRunning("checked") \/ AgentOver("unknown")
     \/ AgentOver("unknown") /\ UNCHANGED history
  /\ UNCHANGED <<journal, driver, hosts, seen, target, ledger, past, faults>>

AgentChecked ==
  /\ Ready("checked")
  /\ IF ~Confirmed THEN AgentOver("unknown")
     ELSE IF agent.step = Steps THEN AgentOver("succeeded")
     ELSE Ask("progress", "running", Mine.exec,
              [agent EXCEPT !.pc = "guarded", !.step = @ + 1])
  /\ UNCHANGED ledger /\ AgentStep

FinishUnrecorded ==
  /\ Ready("finished")
  /\ IF ~Confirmed THEN CycleEnds ELSE Receipt(agent.out) /\ UNCHANGED ledger
  /\ AgentStep

\* LocalOperationLedger.complete, then post_receipt
AgentFinish ==
  /\ Ready("finished")
  /\ IF ~Confirmed THEN CycleEnds
     ELSE /\ ledger' = [ledger EXCEPT ![agent.op].status = agent.out]
          /\ Receipt(agent.out)
  /\ AgentStep

AgentReceipted == Ready("receipted") /\ CycleEnds /\ AgentStep

\* The agent gives up waiting (the answer is lost, or late), or is restarted.
AgentGivesUp ==
  /\ Fault
  /\ task' = [w \in Workers |-> [task[w] EXCEPT !.awaited = FALSE]]
  /\ \/ agent.waiting /\ agent' = [agent EXCEPT !.waiting = FALSE, !.ok = FALSE]
     \/ agent' = AgentIdle(agent.epoch)
  /\ UNCHANGED <<journal, driver, hosts, seen, target, ledger, past, history>>

-----------------------------------------------------------------------------
Init ==
  /\ JournalInit
  /\ driver \in [Keys -> {"local", "agent"}]
  /\ term = 0 /\ mine = [h \in Hosts |-> 0] /\ phase = [h \in Hosts |-> "down"]
  /\ seen = [h \in Hosts |-> 0]
  /\ executing = [h \in Hosts |-> [o \in Operations |-> None]]
  /\ task = [w \in Workers |-> IdleTask]
  /\ epoch = IF "agent" \in Range(driver) THEN 1 ELSE MaxEpoch
  /\ revoked = ("agent" \notin Range(driver))
  /\ online = [h \in Hosts |-> FALSE]
  /\ agent = AgentIdle(1)  \* enrolled, if there is a remote target
  /\ ledger = [o \in Operations |-> NoLedger]
  /\ past = {}
  /\ performed = [o \in Operations |-> [n \in 1 .. Steps |-> 0]]
  /\ late = [o \in Operations |-> 0]
  /\ faults = MaxFaults

HostStep(w) ==
  \/ HostFence(w) \/ CheckOwner(w) \/ ReadBase(w) \/ CheckAppend(w) \/ Append(w)
  \/ ReadTarget(w) \/ Create(w) \/ LockExecution(w) \/ Claim(w) \/ Resolve(w) \/ Advance(w)
  \/ Enter(w) \/ GuardBefore(w) \/ Effect(w) \/ GuardAfter(w) \/ Finish(w) \/ Complete(w)
  \/ Recover(w) \/ Authenticate(w) \/ Handle(w)

AgentNext ==
  \/ AgentCycle \/ AgentAccept \/ AgentStart \/ AgentStarted \/ AgentEnter \/ AgentGuarded
  \/ AgentEffect \/ AgentChecked \/ AgentFinish \/ AgentReceipted

Next ==
  \/ \E w \in Workers :
       \/ HostStep(w) \/ StoreError(w) \/ DropHandler(w)
       \/ \E h \in Hosts : Boot(w, h) \/ \E k \in Keys : Submit(w, h, k)
  \/ \E h \in Hosts : Crash(h)
  \/ \E o \in Operations : Expire(o)
  \/ Revoke \/ Enroll \/ HeartbeatLapses
  \/ AgentNext \/ AgentGivesUp

Spec == Init /\ [][Next]_vars

\* Futures that are ready are polled, a Host is started again, and the agent
\* loops.  SF: Workers bound the model; a Host has no such limit on requests.
FairSpec ==
  /\ Spec
  /\ \A w \in Workers : WF_vars(HostStep(w))
  /\ WF_vars(\E w \in Workers, h \in Hosts : Boot(w, h))
  /\ SF_vars(AgentNext)

-----------------------------------------------------------------------------
(* Properties.                                                             *)

\* The type invariant.
TypeOK ==
  /\ record \in [Operations -> [status : Statuses, exec : 0 .. MaxTerm + MaxEpoch,
                                key : Keys \cup {None}, epoch : 0 .. MaxEpoch]]
  /\ fence \in 0 .. MaxTerm /\ length \in Nat /\ poisoned \in BOOLEAN
  /\ claim \in [Operations -> [owner : 0 .. MaxTerm, exec : 0 .. MaxTerm + MaxEpoch]]
  /\ term \in 0 .. MaxTerm /\ mine \in [Hosts -> 0 .. MaxTerm]
  /\ phase \in [Hosts -> {"down", "booting", "up"}]
  /\ seen \in [Hosts -> 0 .. length]
  /\ executing \in [Hosts -> [Operations -> Workers \cup {None}]]
  /\ \A w \in Workers : DOMAIN task[w] = DOMAIN IdleTask
  /\ epoch \in 1 .. MaxEpoch /\ revoked \in BOOLEAN /\ online \in [Hosts -> BOOLEAN]
  /\ ledger \in [Operations -> [status : Statuses, exec : 0 .. MaxEpoch]]
  /\ DOMAIN agent = DOMAIN AgentIdle(1)
  /\ past \subseteq Operations /\ faults \in 0 .. MaxFaults

\* An effect of an operation happens at most once, whatever is retried,
\* restarted, taken over or delivered again.
AtMostOnce == \A o \in Operations, n \in 1 .. Steps : performed[o][n] <= 1

\* What the journal says of an operation is true of its effects: one that
\* succeeded had all of them, and none happens before Running is durable.
OutcomeIsTrue ==
  \A o \in Operations :
    /\ record[o].status = "succeeded" => \A n \in 1 .. Steps : performed[o][n] = 1
    /\ record[o].status \in {"none", "requested", "accepted", "expired"} =>
         \A n \in 1 .. Steps : performed[o][n] = 0

\* An executor that has been replaced (a Host whose lease is taken over, an
\* agent whose target is revoked) has at most the one effect whose guard it
\* had passed.
FencedStops == \A o \in Operations : late[o] <= 1

\* Once a Host serves as the owner, no local operation is left Running by an
\* executor of an earlier Host.
NoOrphanRunning ==
  \A h \in Hosts, o \in Created :
    phase[h] = "up" /\ Owner(h) /\ Local(o) /\ record[o].status = "running" =>
      claim[o].owner = mine[h]

\* The Host and the ledger of the agent never disagree on how an operation ended.
ReceiptsAgree ==
  \A o \in Created :
    ~Local(o) /\ record[o].status \in Terminal \ {"expired"} =>
      ledger[o] = [status |-> record[o].status, exec |-> record[o].exec]

\* The journal can be replayed: no interleaving of Hosts and requests appends
\* an event that apply_operation_event refuses.
OperationsReplay == ~poisoned

\* An operation that the agent can be given ends, through lost answers and
\* restarts of the agent and of the Host, unless its target is revoked.
AgentReports ==
  \A o \in Operations :
    (o \in Created /\ ~Local(o) /\ ~IsTerminal(o) /\ record[o].epoch = epoch /\ ~revoked)
      ~> (IsTerminal(o) \/ record[o].epoch # epoch)

\* TARGET_AGENT_PROTOCOL.en.md:84, "Host startup durably resolves interrupted
\* local Accepted/Running records the same way": an Accepted one is left.
StartupResolves ==
  \A h \in Hosts, o \in Created :
    phase[h] = "up" /\ Owner(h) /\ Local(o) /\ record[o].status \in {"accepted", "running"} =>
      claim[o].owner = mine[h]

\* TARGET_AGENT_PROTOCOL.en.md:84, "becomes `outcome_unknown` rather than a
\* false failure": a failed operation had no effect.
FailedHadNoEffect ==
  \A o \in Operations : record[o].status = "failed" => \A n \in 1 .. Steps : performed[o][n] = 0

=============================================================================
