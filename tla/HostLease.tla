------------------------------ MODULE HostLease ------------------------------
(***************************************************************************)
(* The durable Host owner lease (crates/plurora-service/src/development.rs)*)
(* and the offline backup that is taken under it (crates/plurora-cli/src/  *)
(* commands/host_data.rs).                                                 *)
(*                                                                         *)
(* The lease is one session of the event store; its last event says who    *)
(* owns the data directory and until when.  A process has up to three      *)
(* tasks: "main" acquires and releases, "beat" renews, "check" is a        *)
(* request that calls ensure_durable_owner before an effect.  Every task   *)
(* reads the lease in two store calls (next sequence, then the last event) *)
(* and appends in a third that compares the sequence, so all of them       *)
(* interleave.  All processes of a data directory read one clock, which    *)
(* does not run backwards.                                                 *)
(***************************************************************************)
EXTENDS Integers, Sequences

CONSTANTS
  Processes,        \* acquisitions: each has an owner id of its own
  Backups,          \* those made by `plurora host backup`
  TTL,              \* how long an acquisition or a renewal lasts
  AcquireAttempts,  \* how often acquire tries its append
  ChangeAttempts,   \* how often renew and release do
  MaxTime,          \* bound on the clock
  MaxEvents,        \* bound on the lease events before the last renewal
  None              \* no process

ASSUME LeaseAssumptions ==
  /\ Backups \subseteq Processes
  /\ None \notin Processes
  /\ TTL \in Nat \ {0}
  /\ AcquireAttempts \in Nat \ {0} /\ ChangeAttempts \in Nat \ {0}
  /\ MaxTime \in Nat /\ MaxEvents \in Nat

VARIABLES
  journal,  \* durable: the events of the lease session
  now,      \* the clock
  phase,    \* Process -> "off", "acquiring", "up", "closing" or "ended"
  valid,    \* Process -> the handle's flag
  expiry,   \* Process -> the expiry its handle has last seen
  task,     \* Process -> task -> where it is
  stage,    \* Process -> how far its backup is
  snap      \* Process -> the last lease event in its backup

vars == <<journal, now, phase, valid, expiry, task, stage, snap>>

Leases == [owner : Processes, expires : Nat, released : BOOLEAN]
NoLease == [owner |-> None, expires |-> 0, released |-> TRUE]

TaskNames == {"main", "beat", "check"}
Ops == {"acquire", "renew", "check", "release", "strict", "finalize"}
IdleTask == [pc |-> "idle", op |-> "check", saw |-> 0, expires |-> 0, tries |-> 0]
TaskStates ==
  [pc : {"idle", "stopped", "tail", "range", "append", "store"}, op : Ops, saw : Nat,
   expires : Nat, tries : Nat]

Stages == {"none", "copying", "copied", "snapped", "captured", "held", "released",
           "published", "failed"}

TypeOK ==
  /\ journal \in Seq(Leases)
  /\ now \in Nat
  /\ phase \in [Processes -> {"off", "acquiring", "up", "closing", "ended"}]
  /\ valid \in [Processes -> BOOLEAN]
  /\ expiry \in [Processes -> Nat]
  /\ task \in [Processes -> [TaskNames -> TaskStates]]
  /\ stage \in [Processes -> Stages]
  /\ snap \in [Processes -> Leases \cup {NoLease}]

-----------------------------------------------------------------------------
(* Building blocks.                                                        *)

Current == IF journal = <<>> THEN NoLease ELSE journal[Len(journal)]

\* The lease is neither released nor expired.
Live(l) == ~l.released /\ l.expires > now

\* ensure_active: what the handle knows without reading the store.
Active(p) == valid[p] /\ expiry[p] > now

Begin(op) == [IdleTask EXCEPT !.pc = "tail", !.op = op]

SetTask(p, k, t) == task' = [task EXCEPT ![p][k] = t]

\* The main task and the process end; a backup that was not published fails.
Ends(p) ==
  /\ task' = [task EXCEPT ![p]["main"] = IdleTask]
  /\ phase' = [phase EXCEPT ![p] = "ended"]

Fails(p) == Ends(p) /\ stage' = [stage EXCEPT ![p] = "failed"]

\* The task returns an error: acquire gives up, a failed renewal invalidates
\* the handle and ends the heartbeat, a check refuses its effect.
Error(p, k) ==
  LET t == task[p][k]
  IN  \/ /\ t.op \in {"acquire", "release", "strict", "finalize"}
         /\ Fails(p) /\ UNCHANGED valid
      \/ /\ t.op = "renew"
         /\ valid' = [valid EXCEPT ![p] = FALSE]
         /\ SetTask(p, k, [IdleTask EXCEPT !.pc = "stopped"]) /\ UNCHANGED <<phase, stage>>
      \/ /\ t.op = "check"
         /\ SetTask(p, k, IdleTask) /\ UNCHANGED <<phase, stage, valid>>

-----------------------------------------------------------------------------
(* Reading the lease: development_host_lease_tail.                         *)

\* The first call.  An empty session is read only by an acquisition.
ReadNext(p, k) ==
  LET t == task[p][k]
  IN  /\ t.pc = "tail"
      /\ \/ /\ journal # <<>>
            /\ SetTask(p, k, [t EXCEPT !.pc = "range", !.saw = Len(journal)])
         \/ /\ journal = <<>> /\ t.op = "acquire"
            /\ SetTask(p, k, [t EXCEPT !.pc = "append", !.saw = 0, !.expires = now + TTL])
      /\ UNCHANGED <<journal, now, phase, valid, expiry, stage, snap>>

\* The second call does not find the event before the sequence of the first.
ReadTorn(p, k) ==
  /\ task[p][k].pc = "range" /\ task[p][k].saw # Len(journal)
  /\ Error(p, k)
  /\ UNCHANGED <<journal, now, expiry, snap>>

\* Both calls agree; the caller goes on with the last event.
ReadTail(p, k, op) ==
  /\ task[p][k].pc = "range" /\ task[p][k].op = op
  /\ task[p][k].saw = Len(journal)

Extend(p, k) == SetTask(p, k, [task[p][k] EXCEPT !.pc = "append", !.expires = now + TTL])

\* acquire_development_host_lease refuses a live lease.
TryAcquire(p) ==
  /\ ReadTail(p, "main", "acquire")
  /\ IF Live(Current) THEN Fails(p) ELSE Extend(p, "main") /\ UNCHANGED <<phase, stage>>
  /\ UNCHANGED <<journal, now, valid, expiry, snap>>

RenewsAnyLease(p, l) == TRUE

\* renew_development_host_lease: the lease is still this process's, whether it
\* has expired or not.
Renewable(p, l) == ~l.released /\ l.owner = p

TryRenew(p) ==
  /\ ReadTail(p, "beat", "renew")
  /\ IF Renewable(p, Current) THEN Extend(p, "beat") /\ UNCHANGED <<valid, phase, stage>>
     ELSE Error(p, "beat")
  /\ UNCHANGED <<journal, now, expiry, snap>>

\* ensure_durable_owner after its read.
CheckOwner(p) ==
  /\ ReadTail(p, "check", "check")
  /\ IF Current.owner = p /\ Live(Current)
     THEN /\ SetTask(p, "check", [task[p]["check"] EXCEPT !.pc = "store", !.expires = Current.expires])
          /\ UNCHANGED <<valid, expiry>>
     ELSE /\ valid' = [valid EXCEPT ![p] = FALSE]
          /\ expiry' = [expiry EXCEPT ![p] = now]
          /\ SetTask(p, "check", IdleTask)
  /\ UNCHANGED <<journal, now, phase, stage, snap>>

\* A renewal or a check stores the expiry in the handle.
StoreExpiry(p, k) ==
  /\ task[p][k].pc = "store"
  /\ expiry' = [expiry EXCEPT ![p] = task[p][k].expires]
  /\ SetTask(p, k, IdleTask)
  /\ UNCHANGED <<journal, now, phase, valid, stage, snap>>

\* release is done: a Host has ended, a backup that is still whole goes on to
\* finalize and to its publication.
Released(p, op) ==
  IF op = "strict" /\ stage[p] = "held"
  THEN /\ SetTask(p, "main", Begin("finalize"))
       /\ stage' = [stage EXCEPT ![p] = "released"]
       /\ expiry' = [expiry EXCEPT ![p] = now]
       /\ UNCHANGED phase
  ELSE /\ Ends(p) /\ UNCHANGED expiry
       /\ stage' = [stage EXCEPT ![p] = IF op = "finalize" THEN "published" ELSE @]

\* release_development_host_lease_inner.  finalize_backup_snapshot names the
\* snapshot's store, but the release goes to the store of the handle.
TryRelease(p, op) ==
  /\ op \in {"release", "strict", "finalize"} /\ ReadTail(p, "main", op)
  /\ \/ Current.owner # p /\ op = "strict" /\ Fails(p) /\ UNCHANGED expiry
     \/ Current.owner # p /\ op # "strict" /\ Released(p, op)
     \/ Current.owner = p /\ Current.released /\ Released(p, op)
     \/ /\ Current.owner = p /\ ~Current.released
        /\ SetTask(p, "main", [task[p]["main"] EXCEPT !.pc = "append", !.expires = now])
        /\ UNCHANGED <<phase, stage, expiry>>
  /\ UNCHANGED <<journal, now, valid, snap>>

-----------------------------------------------------------------------------
(* append_development_host_lease.                                          *)

LandsAnywhere(t) == TRUE

\* append_with_sequence_if_next.
Lands(t) == t.saw = Len(journal)

Write(p, t, released) ==
  /\ Lands(t)
  /\ journal' = Append(journal, [owner |-> p, expires |-> t.expires, released |-> released])

Acquired(p) ==
  LET t == task[p]["main"]
  IN  /\ t.pc = "append" /\ t.op = "acquire" /\ Write(p, t, FALSE)
      /\ valid' = [valid EXCEPT ![p] = TRUE]
      /\ expiry' = [expiry EXCEPT ![p] = t.expires]
      /\ phase' = [phase EXCEPT ![p] = "up"]
      /\ SetTask(p, "main", IdleTask)
      /\ UNCHANGED <<now, stage, snap>>

Renewed(p) ==
  LET t == task[p]["beat"]
  IN  /\ t.pc = "append" /\ Write(p, t, FALSE)
      /\ SetTask(p, "beat", [t EXCEPT !.pc = "store"])
      /\ UNCHANGED <<now, phase, valid, expiry, stage, snap>>

ReleaseWritten(p) ==
  LET t == task[p]["main"]
  IN  /\ t.pc = "append" /\ t.op # "acquire" /\ Write(p, t, TRUE)
      /\ Released(p, t.op)
      /\ UNCHANGED <<now, valid, snap>>

Attempts(op) == IF op = "acquire" THEN AcquireAttempts ELSE ChangeAttempts

\* Another append came first: read again, up to the number of attempts.
AppendLost(p, k) ==
  LET t == task[p][k]
  IN  /\ t.pc = "append" /\ t.saw # Len(journal)
      /\ IF t.tries + 1 < Attempts(t.op)
         THEN /\ SetTask(p, k, [t EXCEPT !.pc = "tail", !.tries = @ + 1])
              /\ UNCHANGED <<phase, valid, stage>>
         ELSE Error(p, k)
      /\ UNCHANGED <<journal, now, expiry, snap>>

\* The store answers a read or an append with an error.
StoreFails(p, k) ==
  /\ task[p][k].pc \in {"tail", "range", "append"}
  /\ Error(p, k)
  /\ UNCHANGED <<journal, now, expiry, snap>>

-----------------------------------------------------------------------------
(* Processes.                                                              *)

Open(p) ==
  /\ phase[p] = "off"
  /\ phase' = [phase EXCEPT ![p] = "acquiring"]
  /\ SetTask(p, "main", Begin("acquire"))
  /\ UNCHANGED <<journal, now, valid, expiry, stage, snap>>

\* The heartbeat is due; it may come late.  It goes on until a renewal fails or
\* the process aborts it.
Heartbeat(p) ==
  /\ phase[p] = "up" /\ task[p]["beat"].pc = "idle"
  /\ Len(journal) < MaxEvents
  /\ SetTask(p, "beat", Begin("renew"))
  /\ UNCHANGED <<journal, now, phase, valid, expiry, stage, snap>>

\* A request checks the lease before an effect.
Check(p) ==
  /\ p \notin Backups /\ phase[p] = "up"
  /\ task[p]["check"].pc = "idle" /\ Active(p)
  /\ SetTask(p, "check", Begin("check"))
  /\ UNCHANGED <<journal, now, phase, valid, expiry, stage, snap>>

StillValid(p) == UNCHANGED <<valid, expiry>>

\* release begins by invalidating the handle.
Invalidate(p) ==
  /\ valid' = [valid EXCEPT ![p] = FALSE]
  /\ expiry' = [expiry EXCEPT ![p] = now]

\* host_serve ends: the heartbeat is aborted, but not awaited, and the lease
\* is released.
Close(p) ==
  /\ p \notin Backups /\ phase[p] = "up"
  /\ phase' = [phase EXCEPT ![p] = "closing"]
  /\ Invalidate(p)
  /\ SetTask(p, "main", Begin("release"))
  /\ UNCHANGED <<journal, now, stage, snap>>

\* The aborted heartbeat is dropped at one of its awaits.
DropHeartbeat(p) ==
  /\ phase[p] \in {"closing", "ended"} /\ task[p]["beat"].pc \notin {"idle", "stopped"}
  /\ SetTask(p, "beat", IdleTask)
  /\ UNCHANGED <<journal, now, phase, valid, expiry, stage, snap>>

\* The stages of capture_backup_snapshot and backup, each behind an
\* ensure_active except the snapshot of the database itself.
NextStage(s) ==
  CASE s = "none" -> "copying" [] s = "copying" -> "copied"
    [] s = "copied" -> "snapped" [] s = "snapped" -> "captured"

Capture(p) ==
  /\ p \in Backups /\ phase[p] = "up"
  /\ stage[p] \in {"none", "copying", "copied", "snapped"}
  /\ stage' = [stage EXCEPT ![p] =
       IF @ = "copied" \/ Active(p) THEN NextStage(@) ELSE "failed"]
  /\ snap' = [snap EXCEPT ![p] = IF stage[p] = "copied" THEN Current ELSE @]
  /\ UNCHANGED <<journal, now, phase, valid, expiry, task>>

\* The backup has aborted and awaited its heartbeat, looks at the lease once
\* more and releases it in the strict form.
CloseBackup(p) ==
  /\ phase[p] = "up" /\ stage[p] \in {"captured", "failed"}
  /\ phase' = [phase EXCEPT ![p] = "closing"]
  /\ stage' = [stage EXCEPT ![p] = IF @ = "captured" /\ Active(p) THEN "held" ELSE "failed"]
  /\ Invalidate(p)
  /\ task' = [task EXCEPT ![p]["beat"] = IdleTask, ![p]["main"] = Begin("strict")]
  /\ UNCHANGED <<journal, now, snap>>

Crash(p) ==
  /\ phase[p] \in {"acquiring", "up", "closing"}
  /\ phase' = [phase EXCEPT ![p] = "ended"]
  /\ valid' = [valid EXCEPT ![p] = FALSE]
  /\ task' = [task EXCEPT ![p] = [k \in TaskNames |-> IdleTask]]
  /\ stage' = [stage EXCEPT ![p] = "failed"]
  /\ UNCHANGED <<journal, now, expiry, snap>>

Tick ==
  /\ now < MaxTime /\ now' = now + 1
  /\ UNCHANGED <<journal, phase, valid, expiry, task, stage, snap>>

-----------------------------------------------------------------------------
Init ==
  /\ journal = <<>>
  /\ now = 0
  /\ phase = [p \in Processes |-> "off"]
  /\ valid = [p \in Processes |-> FALSE]
  /\ expiry = [p \in Processes |-> 0]
  /\ task = [p \in Processes |-> [k \in TaskNames |-> IdleTask]]
  /\ stage = [p \in Processes |-> "none"]
  /\ snap = [p \in Processes |-> NoLease]

TaskStep(p) ==
  \/ \E k \in TaskNames : ReadNext(p, k) \/ ReadTorn(p, k) \/ StoreExpiry(p, k)
                           \/ AppendLost(p, k) \/ StoreFails(p, k)
  \/ TryAcquire(p) \/ TryRenew(p) \/ CheckOwner(p)
  \/ \E op \in Ops : TryRelease(p, op)
  \/ Acquired(p) \/ Renewed(p) \/ ReleaseWritten(p)

ProcessStep(p) ==
  \/ Open(p) \/ Heartbeat(p) \/ Check(p) \/ Close(p) \/ DropHeartbeat(p)
  \/ Capture(p) \/ CloseBackup(p) \/ Crash(p)

Next == Tick \/ \E p \in Processes : TaskStep(p) \/ ProcessStep(p)

Spec == Init /\ [][Next]_vars

-----------------------------------------------------------------------------
(* The invariant behind the properties.                                    *)

Releasing == {"release", "strict", "finalize"}
Unborn == {"off", "acquiring"}

\* Each task runs its own operations.  Who acquires has no other tasks yet, and
\* who releases has no valid handle any more.
TaskOps(p, k) ==
  LET t == task[p][k]
  IN  /\ k = "main" =>
           /\ t.pc \in {"idle", "tail", "range", "append"}
           /\ t.pc # "idle" =>
                \/ t.op = "acquire" /\ phase[p] = "acquiring"
                \/ t.op \in Releasing /\ ~valid[p]
      /\ k = "beat" => t.pc \in {"idle", "stopped"} \/ t.op = "renew"
      /\ k = "check" => t.pc \in {"idle", "tail", "range", "store"} /\ t.op = "check"
      /\ k # "main" /\ phase[p] \in Unborn => t.pc = "idle"

\* An expiry that a valid handle trusts is backed by the last event.
Backed(p, e) ==
  valid[p] /\ e > now => Current.owner = p /\ ~Current.released /\ e <= Current.expires

\* What a decision still knows of the last event when its append can land.
Pending(p, t) ==
  t.pc = "append" /\ t.saw = Len(journal) =>
    /\ t.op = "acquire" => Current.released \/ Current.expires + TTL <= t.expires
    /\ t.op # "acquire" => Current.owner = p /\ ~Current.released
    /\ t.op = "renew" => Current.expires <= t.expires

TaskInv(p, k) ==
  /\ TaskOps(p, k)
  /\ task[p][k].saw <= Len(journal) /\ task[p][k].expires <= now + TTL
  /\ task[p][k].pc = "store" => Backed(p, task[p][k].expires)
  /\ Pending(p, task[p][k])

HandleInv(p) ==
  /\ Backed(p, expiry[p])
  /\ phase[p] \in Unborn => ~valid[p] /\ \A k \in 1 .. Len(journal) : journal[k].owner # p

LeaseInv ==
  /\ Current.expires <= now + TTL
  /\ \A p \in Processes : HandleInv(p) /\ \A k \in TaskNames : TaskInv(p, k)

\* The snapshot was taken in the term of its backup, if that term goes on after
\* it; capture_backup_snapshot and backup find out whether it does.
BackupInv(p) ==
  /\ phase[p] \in Unborn => stage[p] = "none"
  /\ stage[p] = "snapped" /\ Current.owner = p => snap[p].owner = p
  /\ stage[p] \in {"captured", "held", "released", "published"} => snap[p].owner = p
  /\ LET t == task[p]["main"] IN t.pc # "idle" /\ t.op = "finalize" => stage[p] = "released"

SnapshotInv == \A p \in Processes : BackupInv(p)

-----------------------------------------------------------------------------
(* Properties.                                                             *)

\* At most one process has a handle that ensure_active accepts, at every
\* moment of every acquisition, late heartbeat, release and takeover.
OneActiveHandle == \A p, q \in Processes : Active(p) /\ Active(q) => p = q

\* A lease passes to another process only when it was released or when its
\* expiry had passed at the time the new one was decided on (acquire checks
\* the lease some time before its append).
TakeoverAfterEnd ==
  \A k \in 1 .. Len(journal) - 1 :
    journal[k].owner # journal[k + 1].owner =>
      journal[k].released \/ journal[k + 1].expires >= journal[k].expires + TTL

\* Who lost the lease never gets it back: no late heartbeat or release of an
\* old owner lands in the term of another.
OneTermEach ==
  \A k, l, m \in 1 .. Len(journal) :
    k < l /\ l < m /\ journal[k].owner = journal[m].owner
      => journal[l].owner = journal[k].owner

\* A backup is published only if the database in it was captured in the
\* backup's own term (capture_backup_snapshot, strict release).
SnapshotUnderLease ==
  \A p \in Processes : stage[p] = "published" => snap[p].owner = p

\* host_data.rs, finalize_backup_snapshot: the snapshot's lease is released
\* before publishing "so a restore is immediately usable".
SnapshotReleased ==
  \A p \in Processes : stage[p] = "published" => snap[p].released

\* development_host_lease_tail asserts that the event it reads is the last
\* one: while a process owns the lease none of its tasks fails on that.
TailReadsAgree ==
  \A p \in Processes, k \in TaskNames :
    task[p][k].pc = "range" /\ Current.owner = p /\ Live(Current) => task[p][k].saw = Len(journal)

\* A handle that failed closed does not hold others off: once it is invalid,
\* its heartbeat does not extend the lease.
InvalidNeverRenews ==
  [][\A p \in Processes : Renewed(p) => valid[p] \/ phase[p] # "up"]_vars

=============================================================================
