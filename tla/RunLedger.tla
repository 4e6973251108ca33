------------------------------ MODULE RunLedger ------------------------------
(***************************************************************************)
(* What the Run registry promises to its callers, without Hosts, journal,  *)
(* retries or recovery: a ledger of Runs that move along the lifecycle     *)
(*                                                                         *)
(*    starting -> running -> stopping -> stopped                           *)
(*        \------------------------------> failed / interrupted            *)
(*                                                                         *)
(* with at most one active Run per Installation, and of idempotency claims *)
(* that are made once, together with the change they stand for.            *)
(***************************************************************************)
CONSTANTS Runs, Installations, Claims, None

\* ledger: Run -> [inst, status];  bound: the claims made, as <<inst, claim, run>>.
VARIABLES ledger, bound

ledgerVars == <<ledger, bound>>

Active == {"starting", "running", "degraded", "stopping"}
Terminal == {"stopped", "failed", "interrupted"}

\* The statuses a Run may move to.
After(s) ==
  CASE s = "starting" -> {"running", "stopping", "failed", "interrupted"}
    [] s \in {"running", "degraded"} -> {"stopping", "failed", "interrupted"}
    [] s = "stopping" -> Terminal
    [] OTHER -> {}

\* A change makes no claim, repeats one, or makes one on an unclaimed key.
Claim(i, r) ==
  \/ UNCHANGED bound
  \/ \E b \in bound' :
       /\ b[1] = i /\ b[2] \in Claims /\ b[3] = r
       /\ \A d \in bound : d[1] = i /\ d[2].op = b[2].op /\ d[2].key = b[2].key => d = b
       /\ bound' = bound \cup {b}

Begin(r, i) ==
  /\ ledger[r].status = "none"
  /\ \A s \in Runs : ledger[s].status \in Active => ledger[s].inst # i
  /\ ledger' = [ledger EXCEPT ![r] = [inst |-> i, status |-> "starting"]]
  /\ Claim(i, r)

Advance(r, s) ==
  /\ s \in After(ledger[r].status)
  /\ ledger' = [ledger EXCEPT ![r].status = s]
  /\ Claim(ledger[r].inst, r)

LedgerInit ==
  /\ ledger = [r \in Runs |-> [inst |-> None, status |-> "none"]]
  /\ bound = {}

LedgerNext ==
  \E r \in Runs :
    \/ \E i \in Installations : Begin(r, i)
    \/ \E s \in Active \cup Terminal : Advance(r, s)

LedgerSpec == LedgerInit /\ [][LedgerNext]_ledgerVars

=============================================================================
