------------------------- MODULE InstallationRegistry -------------------------
(***************************************************************************)
(* The Installation registry of a Host (crates/plurora-service/src/        *)
(* installations.rs): create, update, remove, the guards Runs and secret   *)
(* stores hold, and recovery at startup, as concurrent tasks of one or     *)
(* more Host processes over one durable journal and one data directory.    *)
(*                                                                         *)
(* The journal is kept as what its replay yields: views, pending mutations *)
(* and idempotency claims, its length, and whether an appended event was   *)
(* one that replay refuses (the append comes before apply_event).  Every   *)
(* decision is made after sync_journal_locked, on that replay.             *)
(*                                                                         *)
(* An append has two steps: Decide (under `apply`: catch up, recheck, Host *)
(* lease, authority) and Append (the compare-and-append at the sequence    *)
(* Decide saw).  A state effect has two steps as well: the lease is        *)
(* checked, then the tree is replaced.                                     *)
(***************************************************************************)
EXTENDS Naturals, FiniteSets

CONSTANTS
  Installations, Keys,
  Contents,          \* contents of a state tree
  Empty,             \* the empty tree
  Hosts, Workers, None,
  CasAttempts,       \* CAS_ATTEMPTS
  MaxFaults,         \* failures, denials, crashes, disconnects and takeovers
  Disconnects,       \* whether clients may disconnect during a request
  KeyReuse,          \* whether two requests in progress may differ and share a key
  ClockStepsBack     \* whether the wall clock may be set back

ASSUME InstallationAssumptions ==
  /\ IsFiniteSet(Keys)
  /\ Empty \in Contents
  /\ CasAttempts \in Nat \ {0}
  /\ MaxFaults \in Nat
  /\ Disconnects \in BOOLEAN /\ KeyReuse \in BOOLEAN /\ ClockStepsBack \in BOOLEAN

VARIABLES
  len,        \* durable: number of events in the journal
  views,      \* durable: Installation -> its view, None before its creation
  pending,    \* durable: Installation -> the started mutation, or None
  claims,     \* durable: key -> the claim made under it, or None
  poisoned,   \* durable: the journal holds an event that replay refuses
  disk,       \* durable: Installation -> content of its state tree
  projected,  \* durable: Installation -> revision in installation.json, 0 if none
  owner,      \* durable: the Host that holds the Host lease
  phase,      \* Host -> "down", "hydrating" or "up"
  apply,      \* Host -> the task holding the apply mutex
  lifecycle,  \* Host -> Installation -> the task holding its lifecycle for writing
  guard,      \* Host -> Installation -> the view a Run holds a guard on, or None
  task,       \* Host -> Worker -> the state of the task
  answer,     \* key -> the request last answered and its result, or None
  faults      \* failures still to come

journal == <<len, views, pending, claims, poisoned>>
files == <<disk, projected>>
memory == <<phase, apply, lifecycle, guard, task>>
vars == <<len, views, pending, claims, poisoned, disk, projected, owner, phase,
          apply, lifecycle, guard, task, answer, faults>>

Revs == 1..Cardinality(Keys)

Removals == {"keep", "delete"}      \* StateDisposition of a remove
Staged == {"replace", "delete"}     \* mutations with an effect on the state tree
Updates == {"noop", "preserve", "backup", "replace"}

\* A request is its own fingerprint.  "noop" is a preserve of an unchanged
\* record, and reset a replace by the empty tree.
CreateRequest == [op |-> "create", inst |-> None, rev |-> 0, content |-> Empty]

Requests ==
  {CreateRequest} \cup
  {r \in [op : Updates \cup Removals, inst : Installations, rev : Revs, content : Contents] :
     r.op # "replace" => r.content = Empty}

Views == [status : {"ready", "updating", "removing", "removed", "blocked"},
          rev : Revs, snap : Contents \cup {None}]
Claims == [req : Requests, inst : Installations, view : Views]
PendingMutations ==
  [id : Nat, kind : {"updating", "removing"}, prev : Views, snap : Contents]

Points == {"idle", "prepare", "commit", "start", "check", "effect", "terminal",
           "restore", "restoreEffect", "rollback", "block", "publish",
           "guard", "recover", "materialize"}
AppendPoints == {"commit", "start", "terminal", "rollback", "block"}

\* None stands for what is absent.
ASSUME NoneAssumption ==
  /\ None \notin Installations /\ None \notin Keys /\ None \notin Contents
  /\ None \notin Workers /\ None \notin Nat
  /\ None \notin Views /\ None \notin Claims /\ None \notin PendingMutations

\* base: the sequence of the append in flight, or None.  stale: the clock read
\* an earlier time than the updated_at of the base view.
IdleTask ==
  [pc |-> "idle", hydrate |-> FALSE, key |-> None, req |-> CreateRequest, inst |-> None,
   prev |-> None, snap |-> None, id |-> 0, base |-> None, tries |-> 0, stale |-> FALSE]

TaskStates ==
  [pc : Points, hydrate : BOOLEAN, key : Keys \cup {None}, req : Requests,
   inst : Installations \cup {None}, prev : Views \cup {None},
   snap : Contents \cup {None}, id : Nat, base : Nat \cup {None},
   tries : 0..CasAttempts, stale : BOOLEAN]

TypeOK ==
  /\ len \in Nat
  /\ views \in [Installations -> Views \cup {None}]
  /\ pending \in [Installations -> PendingMutations \cup {None}]
  /\ claims \in [Keys -> Claims \cup {None}]
  /\ poisoned \in BOOLEAN
  /\ disk \in [Installations -> Contents]
  /\ projected \in [Installations -> Revs \cup {0}]
  /\ owner \in Hosts \cup {None}
  /\ phase \in [Hosts -> {"down", "hydrating", "up"}]
  /\ apply \in [Hosts -> Workers \cup {None}]
  /\ lifecycle \in [Hosts -> [Installations -> Workers \cup {None}]]
  /\ guard \in [Hosts -> [Installations -> Views \cup {None}]]
  /\ task \in [Hosts -> [Workers -> TaskStates]]
  /\ answer \in [Keys -> Claims \cup {None}]
  /\ faults \in 0..MaxFaults

-----------------------------------------------------------------------------
(* The journal: what an event requires of the replay before it, and what   *)
(* it makes of it.                                                         *)

NewView == [status |-> "ready", rev |-> 1, snap |-> None]

\* The view a mutation commits: update_candidate with its rollback pointer, or
\* the removed record.
Candidate(t) ==
  CASE t.req.op = "create" -> NewView
    [] t.req.op \in Removals /\ t.prev.status = "ready" ->
         [t.prev EXCEPT !.status = "removed", !.rev = @ + 1]
    [] t.req.op \in {"preserve", "backup", "replace"} ->
         [status |-> "ready", rev |-> t.prev.rev + 1, snap |-> t.snap]
    [] OTHER -> t.prev

ClaimOf(t) == [req |-> t.req, inst |-> t.inst, view |-> Candidate(t)]

\* install_claim: a key is claimed once.
ClaimInstalls(t) == claims[t.key] \in {None, ClaimOf(t)}

Kind(t) == IF t.req.op = "delete" THEN "removing" ELSE "updating"

Transitional(p) == [p.prev EXCEPT !.status = p.kind]

\* apply_event accepts the event that task t appends.
Replays(t) ==
  CASE t.pc = "commit" ->
         /\ views[t.inst] = t.prev
         /\ pending[t.inst] = None
         /\ ClaimInstalls(t)
         /\ ~t.stale
    [] t.pc = "start" -> views[t.inst] = t.prev /\ pending[t.inst] = None
    [] t.pc = "terminal" ->
         /\ pending[t.inst] # None /\ pending[t.inst].id = t.id
         /\ pending[t.inst].snap = t.snap
         /\ views[t.inst].rev = t.prev.rev
         /\ ClaimInstalls(t)
         /\ ~t.stale
    [] OTHER -> pending[t.inst] # None /\ pending[t.inst].id = t.id

\* Applying it.
Replay(t) ==
  LET i == t.inst
  IN  /\ views' = [views EXCEPT ![i] =
           CASE t.pc \in {"commit", "terminal"} -> Candidate(t)
             [] t.pc = "start" -> [@ EXCEPT !.status = Kind(t)]
             [] t.pc = "rollback" -> t.prev
             [] t.pc = "block" -> [pending[i].prev EXCEPT !.status = "blocked"]]
      /\ pending' = [pending EXCEPT ![i] =
           CASE t.pc = "start" -> [id |-> t.id, kind |-> Kind(t), prev |-> t.prev,
                                   snap |-> t.snap]
             [] t.pc = "block" -> @
             [] OTHER -> None]
      /\ claims' = IF t.pc \in {"commit", "terminal"}
                   THEN [claims EXCEPT ![t.key] = ClaimOf(t)] ELSE claims

-----------------------------------------------------------------------------
(* Building blocks.                                                        *)

Fault == faults > 0 /\ faults' = faults - 1
NoFault == UNCHANGED faults

At(h, w, pc) == task[h][w].pc = pc /\ task[h][w].base = None

SetTask(h, w, t) == task' = [task EXCEPT ![h][w] = t]
Goto(h, w, pc) == SetTask(h, w, [task[h][w] EXCEPT !.pc = pc, !.tries = 0])

\* sync_journal_locked under the free apply mutex: replay fails on a poisoned
\* journal, for every operation and for hydrate.
Sync(h) == apply[h] = None /\ ~poisoned

ReadersIgnored(h, i) == TRUE

\* The lifecycle lock: one writer, or readers (Runs with a guard and the tasks
\* that are acquiring one).
Unread(h, i) ==
  /\ guard[h][i] = None
  /\ \A w \in Workers : ~(task[h][w].pc = "guard" /\ task[h][w].inst = i)

Unwritten(h, i) == lifecycle[h][i] = None

Unlocked(h, w) ==
  lifecycle' = [lifecycle EXCEPT ![h] =
    [i \in Installations |-> IF @[i] = w THEN None ELSE @[i]]]

\* The request is answered with what is claimed under its key, or refused.
Answered(h, w, v) ==
  LET t == task[h][w]
  IN  /\ SetTask(h, w, IdleTask)
      /\ Unlocked(h, w)
      /\ answer' = [answer EXCEPT ![t.key] = [req |-> t.req, inst |-> t.inst, view |-> v]]
      /\ UNCHANGED phase

Refused(h, w) ==
  /\ SetTask(h, w, IdleTask)
  /\ Unlocked(h, w)
  /\ UNCHANGED <<phase, answer>>

SameRequestByKeyOnly(key, r) == TRUE

\* claimed_result: the fingerprint of the claim is that of the request; otherwise
\* the request is refused (idempotency_conflict).
SameRequest(key, r) == claims[key].req = r

ReplayClaim(h, w, key, r) ==
  /\ SetTask(h, w, IdleTask)
  /\ Unlocked(h, w)
  /\ answer' = IF SameRequest(key, r)
               THEN [answer EXCEPT ![key] = [claims[key] EXCEPT !.req = r]] ELSE answer
  /\ UNCHANGED phase

\* hydrate fails: the Host does not come up (reset_memory).
BootFails(h, w) ==
  /\ phase' = [phase EXCEPT ![h] = "down"]
  /\ SetTask(h, w, IdleTask)
  /\ Unlocked(h, w)
  /\ UNCHANGED answer

\* An error: a request is refused, a recovery fails.
Error(h, w) == IF task[h][w].hydrate THEN BootFails(h, w) ELSE Refused(h, w)

Continue(h, w, pc) == Goto(h, w, pc) /\ UNCHANGED <<phase, lifecycle, answer>>

-----------------------------------------------------------------------------
(* Requests.                                                               *)

\* The bound on identities: every create in progress gets one.
Creating == {x \in Hosts \X Workers : task[x[1]][x[2]].pc \in {"prepare", "commit"}
                                     /\ task[x[1]][x[2]].req.op = "create"}
IdentityLeft ==
  Cardinality(Creating) < Cardinality({i \in Installations : views[i] = None})

\* The view a mutation of r may start from.
Accepts(r) ==
  IF r.op = "create" THEN IdentityLeft
  ELSE /\ views[r.inst] # None
       /\ \/ views[r.inst].status = "ready" /\ views[r.inst].rev = r.rev /\ pending[r.inst] = None
          \/ views[r.inst].status = "removed" /\ r.op \in Removals

\* The requests in progress under a key are retries of one request.
SendsOnce(key, r) ==
  \A h \in Hosts, w \in Workers : task[h][w].key = key => task[h][w].req = r

\* create, update and remove up to the first look at the journal: the claim made
\* under the key, or the preconditions.  A removed Installation is removed again
\* by a claim alone.
Submit(h, w, key, r) ==
  LET t == [IdleTask EXCEPT !.pc = "prepare", !.key = key, !.req = r, !.inst = r.inst,
                            !.prev = IF r.op = "create" THEN None ELSE views[r.inst]]
  IN  /\ phase[h] = "up" /\ owner = h /\ At(h, w, "idle")
      /\ KeyReuse \/ SendsOnce(key, r)
      /\ IF r.op = "create" THEN TRUE ELSE Unwritten(h, r.inst) /\ Unread(h, r.inst)
      /\ Sync(h)
      /\ IF claims[key] # None
         THEN SameRequest(key, r) /\ ReplayClaim(h, w, key, r)
         ELSE /\ Accepts(r)
              /\ SetTask(h, w, IF t.prev # None /\ t.prev.status = "removed"
                               THEN [t EXCEPT !.pc = "commit"] ELSE t)
              /\ lifecycle' = IF r.op = "create" THEN lifecycle
                              ELSE [lifecycle EXCEPT ![h][r.inst] = w]
              /\ UNCHANGED <<phase, answer>>
      /\ UNCHANGED <<journal, files, owner, apply, guard, faults>>

\* A fresh identity: no view has it and no create is using it.
Fresh(i) ==
  /\ views[i] = None
  /\ \A h \in Hosts, w \in Workers : task[h][w].inst # i

SnapshotOnlyBackups(t) == IF t.req.op = "backup" THEN disk[t.inst] ELSE None

\* snapshot_state: what a mutation that may lose the state tree keeps of it.
Snapshot(t) == IF t.req.op \in {"backup", "replace", "delete"} THEN disk[t.inst] ELSE None

\* The artifacts are verified, the state is snapshotted, the projection prepared;
\* create allocates the identity.
Prepare(h, w) ==
  LET t == task[h][w]
      stamps == IF ClockStepsBack /\ t.req.op \notin {"create", "noop"}
                THEN BOOLEAN ELSE {FALSE}
      ready(i) == \E old \in stamps :
        SetTask(h, w, [t EXCEPT !.pc = IF t.req.op \in Staged THEN "start" ELSE "commit",
                                !.inst = i, !.stale = old,
                                !.snap = IF t.inst = None THEN None ELSE Snapshot(t)])
  IN  /\ At(h, w, "prepare")
      /\ \/ /\ t.req.op = "create" /\ owner = h /\ NoFault
            /\ \E i \in Installations :
                 /\ Fresh(i)
                 /\ ready(i)
                 /\ lifecycle' = [lifecycle EXCEPT ![h][i] = w]
            /\ UNCHANGED <<phase, answer>>
         \/ /\ t.req.op # "create" /\ owner = h /\ NoFault
            /\ ready(t.inst)
            /\ UNCHANGED <<phase, lifecycle, answer>>
         \/ owner # h /\ NoFault /\ Refused(h, w)
         \/ Fault /\ Refused(h, w)
      /\ UNCHANGED <<journal, files, owner, apply, guard>>

-----------------------------------------------------------------------------
(* Appends.                                                                *)

\* What the loop around an append rechecks after it has caught up.
Stands(t) ==
  LET p == pending[t.inst]
  IN  CASE t.pc \in {"commit", "start"} -> views[t.inst] = t.prev /\ p = None
        [] t.pc = "terminal" -> /\ p # None /\ p.id = t.id
                                /\ views[t.inst] = Transitional(p)
        [] t.pc = "rollback" -> p.id = t.id /\ views[t.inst].status # "blocked"
        [] OTHER -> p.id = t.id

\* append_pending_rollback and append_pending_blocked find the mutation resolved.
Resolved(t) ==
  /\ t.pc \in {"rollback", "block"}
  /\ \/ pending[t.inst] = None
     \/ t.pc = "block" /\ views[t.inst].status = "blocked"

\* The claim loops of create, update, remove and of the no-op find the key claimed.
Claimed(t) == t.pc \in {"commit", "start"} /\ claims[t.key] # None

IsNoop(t) == t.pc = "commit" /\ Candidate(t) = t.prev

RollbackKeepsTree(h, w) ==
  IF task[h][w].pc = "terminal" THEN Continue(h, w, "rollback") ELSE Error(h, w)

\* An append fails or no longer stands: a terminal append is rolled back, and
\* everything else returns.
AppendError(h, w) ==
  IF task[h][w].pc = "terminal" THEN Continue(h, w, "restore") ELSE Error(h, w)

\* recovery goes on to the next pending mutation.
RecoverNext(h, w) ==
  /\ SetTask(h, w, [IdleTask EXCEPT !.pc = "recover", !.hydrate = TRUE])
  /\ Unlocked(h, w)
  /\ UNCHANGED <<phase, answer>>

RolledBack(h, w) == IF task[h][w].hydrate THEN RecoverNext(h, w) ELSE Refused(h, w)

Decide(h, w) ==
  LET t == task[h][w]
  IN  /\ t.pc \in AppendPoints /\ t.base = None /\ Sync(h)
      /\ IF Claimed(t)
         THEN /\ IF IsNoop(t) /\ claims[t.key] # ClaimOf(t)
                 THEN Refused(h, w)
                 ELSE ReplayClaim(h, w, t.key, t.req)
              /\ UNCHANGED apply
         ELSE IF Resolved(t)
         THEN /\ IF t.pc = "rollback" THEN RolledBack(h, w) ELSE Error(h, w)
              /\ UNCHANGED apply
         ELSE IF ~Stands(t) \/ owner # h
         THEN AppendError(h, w) /\ UNCHANGED apply
         ELSE /\ SetTask(h, w, [t EXCEPT !.base = len,
                                         !.id = IF t.pc = "start" THEN len ELSE @])
              /\ apply' = [apply EXCEPT ![h] = w]
              /\ UNCHANGED <<phase, lifecycle, answer>>
      /\ UNCHANGED <<journal, files, owner, guard, faults>>

\* What follows a successful append.
Landed(h, w) ==
  LET t == task[h][w]
      next == [t EXCEPT !.base = None, !.tries = 0]
  IN  CASE t.pc = "start" ->
             SetTask(h, w, [next EXCEPT !.pc = "check"]) /\ UNCHANGED <<phase, lifecycle, answer>>
        [] IsNoop(t) -> Answered(h, w, t.prev)
        [] t.pc \in {"commit", "terminal"} /\ ~IsNoop(t) ->
             SetTask(h, w, [next EXCEPT !.pc = "publish"]) /\ UNCHANGED <<phase, lifecycle, answer>>
        [] t.pc = "rollback" -> RolledBack(h, w)
        [] t.pc = "block" -> Error(h, w)

AppendsAnywhere(t) == TRUE

\* append_with_sequence_if_next: nobody has appended since Decide.
LandsAt(t) == len = t.base

\* The compare-and-append, then apply_event.
Append(h, w) ==
  LET t == task[h][w]
      retry == [t EXCEPT !.base = None, !.tries = @ + 1]
  IN  /\ t.base # None
      /\ apply' = [apply EXCEPT ![h] = None]
      /\ IF ~LandsAt(t)
         THEN /\ IF retry.tries < CasAttempts
                 THEN SetTask(h, w, retry) /\ UNCHANGED <<phase, lifecycle, answer>>
                 ELSE IF t.pc = "terminal"
                 THEN /\ SetTask(h, w, [t EXCEPT !.pc = "restore", !.base = None, !.tries = 0])
                      /\ UNCHANGED <<phase, lifecycle, answer>>
                 ELSE Error(h, w)
              /\ UNCHANGED journal
         ELSE /\ len' = len + 1
              /\ poisoned' = ~Replays(t)
              /\ IF Replays(t) THEN Replay(t) ELSE UNCHANGED <<views, pending, claims>>
              /\ Landed(h, w)
      /\ UNCHANGED <<files, owner, guard, faults>>

\* The authority is denied or the store refuses the append.
AppendFails(h, w) ==
  /\ task[h][w].pc \in AppendPoints /\ At(h, w, task[h][w].pc) /\ Sync(h) /\ Fault
  /\ AppendError(h, w)
  /\ UNCHANGED <<journal, files, owner, apply, guard>>

-----------------------------------------------------------------------------
(* Effects on files.                                                       *)

CheckLeavesPending(h, w) ==
  /\ At(h, w, "check")
  /\ \/ Fault /\ Refused(h, w)
     \/ NoFault /\ Continue(h, w, "effect")
  /\ UNCHANGED <<journal, files, owner, apply, guard>>

\* After the started event: the lease (an error leaves the mutation pending),
\* then the authority (denied: rolled back without a state effect).
CheckEffect(h, w) ==
  /\ At(h, w, "check")
  /\ \/ owner # h /\ NoFault /\ Refused(h, w)
     \/ owner = h /\ Fault /\ Continue(h, w, "rollback")
     \/ owner = h /\ NoFault /\ Continue(h, w, "effect")
  /\ UNCHANGED <<journal, files, owner, apply, guard>>

\* The tree replace_state_effect writes at this point.
Target(t) ==
  IF t.pc = "restoreEffect" THEN t.snap
  ELSE IF t.req.op = "delete" THEN Empty ELSE t.req.content

\* Between its two renames the state tree is absent, and read as empty.
TornTree(t) == {disk[t.inst], Target(t), Empty}

\* replace_state_effect for the mutation or for its rollback.
Effect(h, w) ==
  LET t == task[h][w]
  IN  /\ At(h, w, "effect") \/ At(h, w, "restoreEffect")
      /\ \/ /\ NoFault
            /\ disk' = [disk EXCEPT ![t.inst] = Target(t)]
            /\ Continue(h, w, IF t.pc = "effect" THEN "terminal" ELSE "rollback")
         \/ /\ Fault
            /\ \E c \in TornTree(t) : disk' = [disk EXCEPT ![t.inst] = c]
            /\ Continue(h, w, IF t.pc = "effect" THEN "restore" ELSE "block")
      /\ UNCHANGED <<journal, projected, owner, apply, guard>>

\* restore_state: load_snapshot and the lease, then the effect.
Restore(h, w) ==
  /\ At(h, w, "restore")
  /\ \/ owner # h /\ NoFault /\ Continue(h, w, "block")
     \/ Fault /\ Continue(h, w, "block")
     \/ owner = h /\ NoFault /\ Continue(h, w, "restoreEffect")
  /\ UNCHANGED <<journal, files, owner, apply, guard>>

\* publish_committed_projection: a failure is only logged.
Publish(h, w) ==
  LET t == task[h][w]
  IN  /\ At(h, w, "publish")
      /\ \/ /\ owner = h /\ NoFault
            /\ projected' = [projected EXCEPT ![t.inst] = Candidate(t).rev]
         \/ owner # h /\ NoFault /\ UNCHANGED projected
         \/ Fault /\ UNCHANGED projected
      /\ Answered(h, w, Candidate(t))
      /\ UNCHANGED <<journal, disk, owner, apply, guard>>

-----------------------------------------------------------------------------
(* Guards of Runs and secret stores.                                       *)

GuardBegin(h, w, i) ==
  /\ phase[h] = "up" /\ owner = h /\ At(h, w, "idle")
  /\ Unwritten(h, i) /\ guard[h][i] = None /\ Sync(h)
  /\ views[i] # None /\ views[i].status = "ready"
  /\ SetTask(h, w, [IdleTask EXCEPT !.pc = "guard", !.inst = i, !.prev = views[i]])
  /\ UNCHANGED <<journal, files, owner, phase, apply, lifecycle, guard, answer, faults>>

\* The closure is verified and the view compared once more.
GuardHeld(h, w) ==
  LET t == task[h][w]
  IN  /\ At(h, w, "guard") /\ Sync(h)
      /\ guard' = IF owner = h /\ views[t.inst] = t.prev
                  THEN [guard EXCEPT ![h][t.inst] = t.prev] ELSE guard
      /\ SetTask(h, w, IdleTask)
      /\ UNCHANGED <<journal, files, owner, phase, apply, lifecycle, answer, faults>>

GuardRelease(h, i) ==
  /\ guard[h][i] # None
  /\ guard' = [guard EXCEPT ![h][i] = None]
  /\ UNCHANGED <<journal, files, owner, phase, apply, lifecycle, task, answer, faults>>

\* A Run with a guard writes its state tree.
RunWrites(h, i) ==
  /\ guard[h][i] # None
  /\ \E c \in Contents : disk' = [disk EXCEPT ![i] = c]
  /\ UNCHANGED <<journal, projected, owner, memory, answer, faults>>

-----------------------------------------------------------------------------
(* Startup, crashes, disconnects.                                          *)

\* A Host starts and takes the Host lease, from another Host when it has expired.
Boot(h, w) ==
  /\ phase[h] = "down" /\ At(h, w, "idle")
  /\ \A v \in Workers : task[h][v].pc = "idle"
  /\ IF owner \in {None, h} THEN NoFault ELSE Fault
  /\ owner' = h
  /\ phase' = [phase EXCEPT ![h] = "hydrating"]
  /\ SetTask(h, w, [IdleTask EXCEPT !.pc = "recover", !.hydrate = TRUE])
  /\ UNCHANGED <<journal, files, apply, lifecycle, guard, answer>>

RecoverNothing(h, w) ==
  /\ At(h, w, "recover") /\ Sync(h)
  /\ Goto(h, w, "materialize")
  /\ UNCHANGED <<journal, files, owner, phase, apply, lifecycle, guard, answer, faults>>

\* recover_pending: the next pending mutation, under its lifecycle lock.
Recover(h, w) ==
  /\ At(h, w, "recover") /\ Sync(h)
  /\ \/ \E i \in Installations :
          /\ pending[i] # None
          /\ SetTask(h, w, [IdleTask EXCEPT !.pc = "restore", !.hydrate = TRUE, !.inst = i,
                               !.prev = pending[i].prev, !.snap = pending[i].snap,
                               !.id = pending[i].id])
          /\ lifecycle' = [lifecycle EXCEPT ![h][i] = w]
     \/ /\ \A i \in Installations : pending[i] = None
        /\ Goto(h, w, "materialize")
        /\ UNCHANGED lifecycle
  /\ UNCHANGED <<journal, files, owner, phase, apply, guard, answer, faults>>

\* hydrate rewrites every projection, and the Host serves.
Materialize(h, w) ==
  /\ At(h, w, "materialize")
  /\ \/ /\ owner = h /\ NoFault
        /\ projected' = [i \in Installations |->
                           IF views[i] = None THEN projected[i] ELSE views[i].rev]
        /\ phase' = [phase EXCEPT ![h] = "up"]
        /\ SetTask(h, w, IdleTask)
        /\ UNCHANGED <<lifecycle, answer>>
     \/ owner # h /\ NoFault /\ BootFails(h, w) /\ UNCHANGED projected
     \/ Fault /\ BootFails(h, w) /\ UNCHANGED projected
  /\ UNCHANGED <<journal, disk, owner, apply, guard>>

\* A tree whose replacement is cut short.
Crash(h) ==
  /\ phase[h] # "down" /\ Fault
  /\ phase' = [phase EXCEPT ![h] = "down"]
  /\ apply' = [apply EXCEPT ![h] = None]
  /\ lifecycle' = [lifecycle EXCEPT ![h] = [i \in Installations |-> None]]
  /\ guard' = [guard EXCEPT ![h] = [i \in Installations |-> None]]
  /\ task' = [task EXCEPT ![h] = [w \in Workers |-> IdleTask]]
  /\ disk' \in {d \in [Installations -> Contents] : \A i \in Installations :
       \/ d[i] = disk[i]
       \/ \E w \in Workers : /\ task[h][w].pc \in {"effect", "restoreEffect"}
                             /\ task[h][w].inst = i
                             /\ d[i] \in TornTree(task[h][w])}
  /\ UNCHANGED <<journal, projected, owner, answer>>

\* The client goes away and the server drops the request; an append that is
\* already with the store may still land.
Disconnect(h, w) ==
  LET t == task[h][w]
  IN  /\ Disconnects /\ t.pc # "idle" /\ ~t.hydrate /\ Fault
      /\ \/ UNCHANGED journal
         \/ /\ t.base = len /\ Replays(t)
            /\ len' = len + 1 /\ Replay(t)
            /\ UNCHANGED poisoned
      /\ apply' = [apply EXCEPT ![h] = IF @ = w THEN None ELSE @]
      /\ Refused(h, w)
      /\ UNCHANGED <<files, owner, guard>>

-----------------------------------------------------------------------------
Init ==
  /\ len = 0
  /\ views = [i \in Installations |-> None]
  /\ pending = [i \in Installations |-> None]
  /\ claims = [k \in Keys |-> None]
  /\ poisoned = FALSE
  /\ disk = [i \in Installations |-> Empty]
  /\ projected = [i \in Installations |-> 0]
  /\ owner = None
  /\ phase = [h \in Hosts |-> "down"]
  /\ apply = [h \in Hosts |-> None]
  /\ lifecycle = [h \in Hosts |-> [i \in Installations |-> None]]
  /\ guard = [h \in Hosts |-> [i \in Installations |-> None]]
  /\ task = [h \in Hosts |-> [w \in Workers |-> IdleTask]]
  /\ answer = [k \in Keys |-> None]
  /\ faults = MaxFaults

Step(h, w) ==
  \/ Prepare(h, w) \/ Decide(h, w) \/ Append(h, w) \/ CheckEffect(h, w) \/ Effect(h, w)
  \/ Restore(h, w) \/ Publish(h, w) \/ GuardHeld(h, w)
  \/ Recover(h, w) \/ Materialize(h, w)

Next ==
  \E h \in Hosts :
    \/ \E w \in Workers :
         \/ Step(h, w) \/ AppendFails(h, w) \/ Disconnect(h, w) \/ Boot(h, w)
         \/ \E key \in Keys, r \in Requests : Submit(h, w, key, r)
         \/ \E i \in Installations : GuardBegin(h, w, i)
    \/ \E i \in Installations : GuardRelease(h, i) \/ RunWrites(h, i)
    \/ Crash(h)

Spec == Init /\ [][Next]_vars

\* A task of the Host runs on between its await points, and a Host that is down
\* is started again.
FairSpec ==
  /\ Spec
  /\ \A h \in Hosts, w \in Workers : WF_vars(Step(h, w))
  /\ \A h \in Hosts : WF_vars(\E w \in Workers : Boot(h, w))

-----------------------------------------------------------------------------
(* Properties.                                                             *)

\* No operation appends an event that the replay of the journal refuses: one
\* such event would stop every later request and every later start of the Host
\* (apply_event after append_with_sequence_if_next).
InstallationsReplay == ~poisoned

\* The ledger's variables: a staged mutation has not happened yet.
Installed ==
  [i \in Installations |-> IF pending[i] = None THEN views[i] ELSE pending[i].prev]
StateTree ==
  [i \in Installations |-> IF pending[i] = None THEN disk[i] ELSE pending[i].snap]
ClaimMap ==
  [k \in Keys |-> IF claims[k] = None THEN None
                  ELSE [inst |-> claims[k].inst, view |-> claims[k].view]]
Running == {i \in Installations : \E h \in Hosts : guard[h][i] # None}

Ledger == INSTANCE InstallationLedger WITH
  installed <- Installed, state <- StateTree, claimed <- ClaimMap, running <- Running

\* The registry implements the ledger: however a mutation is staged, rolled
\* back, recovered, denied or cut short, its revision, its state tree and its
\* claim change in one step or not at all, only a Run with a guard writes the
\* tree otherwise, and no mutation commits under a guard (update, remove,
\* rollback_started, recover_pending, acquire_ready_for_run_inner).
ImplementsLedger == Ledger!LedgerSpec

\* A Host that has hydrated serves no half-done mutation, and every
\* installation.json it left behind is that of the committed revision (hydrate).
HydratedIsRepaired ==
  [][\A h \in Hosts : phase[h] = "hydrating" /\ phase'[h] = "up" =>
       \A i \in Installations :
         /\ pending'[i] = None
         /\ views'[i] # None => projected'[i] = views'[i].rev]_vars

\* While a Run or a secret store holds its guard the Installation stays at the
\* revision it was verified for, and ready (acquire_ready_for_run_inner).
GuardPinsInstallation ==
  \A h \in Hosts, i \in Installations : guard[h][i] # None => views[i] = guard[h][i]

\* A result that a client has been given is the one the journal holds under its
\* key for that very request, so that a retry, after a restart too, gets the same
\* and no client gets the result of another request (claimed_result).
AnswersAreClaims == \A k \in Keys : answer[k] # None => answer[k] = claims[k]

\* One failure at any point, a crash included, never leaves an Installation in a
\* half-done mutation for good: it is committed or rolled back (update, remove,
\* rollback_started, recover_pending).
PendingResolves == \A i \in Installations : pending[i] # None ~> pending[i] = None

=============================================================================
