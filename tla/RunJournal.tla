----------------------------- MODULE RunJournal -----------------------------
(***************************************************************************)
(* The durable Run journal and the state every Host replays from it        *)
(* (crates/plurora-service/src/runs.rs).                                   *)
(*                                                                         *)
(* The journal is one session of the event store.  Each event carries the  *)
(* whole view of one Run, so replay keeps, per Run, the last event about   *)
(* it, and, per idempotency key, the first claim on it.  The operators     *)
(* take a journal j and a length n: they describe the projection of a Host *)
(* that has applied the first n events of j.                               *)
(***************************************************************************)
EXTENDS Integers, Sequences

CONSTANTS
  Runs,           \* Run ids the Hosts may draw (RunId::new)
  Installations,  \* Installation ids
  Keys,           \* idempotency keys of the callers
  StartRequests,  \* fingerprints of start requests (revision, entrypoint)
  None            \* absent run, installation, key, fingerprint or thread

ASSUME NoneIsNoElement ==
  None \notin Runs \cup Installations \cup Keys \cup StartRequests \cup (Runs \X Nat)

ActiveStatuses == {"starting", "running", "degraded", "stopping"}
TerminalStatuses == {"stopped", "failed", "interrupted"}

Reasons ==
  {"none", "explicit_stop", "explicit_stop_before_start_commit", "host_restart",
   "package_activation_lost", "outcome_unknown", "authority_denied",
   "activation_failed", "activation_commit_failed"}

\* A stop request is fingerprinted by the Run and the revision it expects.
Fingerprints == StartRequests \cup (Runs \X Nat)

NoClaim == [op |-> "none", key |-> None, fp |-> None]
Claims == [op : {"start", "stop"}, key : Keys, fp : Fingerprints]

NoView == [run |-> None, inst |-> None, status |-> "none", rev |-> 0,
           reason |-> "none", claim |-> NoClaim]
Events == [run : Runs, inst : Installations,
           status : ActiveStatuses \cup TerminalStatuses, rev : Nat,
           reason : Reasons, claim : Claims \cup {NoClaim}]

-----------------------------------------------------------------------------
(* Replay.                                                                 *)

IsLast(j, n, r, k) ==
  /\ k \in 1..n
  /\ j[k].run = r
  /\ \A m \in k + 1 .. n : j[m].run # r

\* The view of Run r after the first n events.
Latest(j, n, r) ==
  IF \E k \in 1..n : IsLast(j, n, r, k)
  THEN j[CHOOSE k \in 1..n : IsLast(j, n, r, k)]
  ELSE NoView

Known(j, n, r) == Latest(j, n, r).status # "none"
IsActive(j, n, r) == Latest(j, n, r).status \in ActiveStatuses
IsTerminal(j, n, r) == Latest(j, n, r).status \in TerminalStatuses

Claiming(e, i, op, key) == e.inst = i /\ e.claim.op = op /\ e.claim.key = key

IsFirstClaim(j, n, i, op, key, k) ==
  /\ k \in 1..n
  /\ Claiming(j[k], i, op, key)
  /\ \A m \in 1 .. k - 1 : ~Claiming(j[m], i, op, key)

\* The event whose claim answers a request with this key, or NoView.
ClaimedBy(j, n, i, op, key) ==
  IF \E k \in 1..n : IsFirstClaim(j, n, i, op, key, k)
  THEN j[CHOOSE k \in 1..n : IsFirstClaim(j, n, i, op, key, k)]
  ELSE NoView

-----------------------------------------------------------------------------
(* Validation: what replay accepts and what append checks beforehand.      *)

Transitions ==
  ({"starting"} \X {"running", "stopping", "failed", "interrupted"})
    \cup ({"running", "degraded"} \X {"stopping", "failed", "interrupted"})
    \cup ({"stopping"} \X {"stopped", "failed", "interrupted"})

ValidClaim(j, n, e) ==
  LET c == ClaimedBy(j, n, e.inst, e.claim.op, e.claim.key)
  IN  \/ e.claim = NoClaim
      \/ c = NoView
      \/ c.claim.fp = e.claim.fp /\ c.run = e.run

ValidMutation(j, n, e) ==
  LET p == Latest(j, n, e.run)
  IN  /\ p.inst = e.inst
      /\ e.rev = p.rev + 1
      /\ <<p.status, e.status>> \in Transitions

ValidIntroduction(j, n, e) ==
  /\ e.status = "starting"
  /\ e.rev = 1
  /\ \A r \in Runs : IsActive(j, n, r) => Latest(j, n, r).inst # e.inst

\* validate_journal_event: e may be event n + 1 of j.
ValidEvent(j, n, e) ==
  /\ IF Known(j, n, e.run) THEN ValidMutation(j, n, e) ELSE ValidIntroduction(j, n, e)
  /\ ValidClaim(j, n, e)

-----------------------------------------------------------------------------
(* The events the registry writes.                                         *)

StartingRun(r, i, key, fp) ==
  [run |-> r, inst |-> i, status |-> "starting", rev |-> 1, reason |-> "none",
   claim |-> [op |-> "start", key |-> key, fp |-> fp]]

Moved(v, status, reason, claim) ==
  [v EXCEPT !.status = status, !.rev = @ + 1, !.reason = reason, !.claim = claim]

RunningRun(v) == Moved(v, "running", "none", NoClaim)
StoppingRun(v, reason, claim) == Moved(v, "stopping", reason, claim)
FailedRun(v, reason) == Moved(v, "failed", reason, NoClaim)
InterruptedRun(v, reason) == Moved(v, "interrupted", reason, NoClaim)

TerminalByReason(v, owned, claim) ==
  CASE v.reason = "explicit_stop" -> Moved(v, "stopped", "explicit_stop", claim)
    [] v.reason = "package_activation_lost" ->
         Moved(v, "failed", "package_activation_lost", claim)
    [] OTHER -> Moved(v, "interrupted", v.reason, claim)

\* The terminal view of a Stopping Run once its activation is cleaned up;
\* owned: this Host held the activation when cleanup began.
TerminalAfterCleanup(v, owned, claim) ==
  CASE v.reason = "explicit_stop" /\ owned ->
         Moved(v, "stopped", "explicit_stop", claim)
    [] v.reason = "package_activation_lost" /\ owned ->
         Moved(v, "failed", "package_activation_lost", claim)
    [] v.reason \in {"explicit_stop_before_start_commit", "host_restart"} ->
         Moved(v, "interrupted", v.reason, claim)
    [] OTHER -> Moved(v, "interrupted", "outcome_unknown", claim)

=============================================================================
