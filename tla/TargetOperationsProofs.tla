----------------------- MODULE TargetOperationsProofs -----------------------
(***************************************************************************)
(* Operations on execution targets, for any number of Hosts, requests,      *)
(* operations, effects, terms, enrolments and failures.                     *)
(*                                                                         *)
(* The argument: the record of an operation moves from Accepted to Running  *)
(* once, by a compare-and-append, and the ledger of the agent does too.     *)
(* Whoever made that move is the only executor the operation ever has; it   *)
(* knows which effects have happened, and loses its right to the next one   *)
(* at the guard that follows a takeover.  The journal stays in order since   *)
(* a Host that serves has fenced it, and replaces a claim or a record under  *)
(* the fence, the execution lock and the claim that it holds.               *)
(***************************************************************************)
EXTENDS TargetOperations, FiniteSetTheorems, WellFoundedInduction, TLAPS

-----------------------------------------------------------------------------
(* Types of the records that tasks, events and the agent are.              *)

Outcomes == {"succeeded", "failed", "unknown"}
Started == {"running"} \cup Outcomes

Execs == 0 .. MaxTerm + MaxEpoch
Records == [status : Statuses, exec : Execs, key : Keys \cup {None}, epoch : 0 .. MaxEpoch]
Claims == [owner : 0 .. MaxTerm, exec : Execs]

FenceEvents == [kind : {"fence"}, op : {0}, was : 0 .. MaxTerm, new : 0 .. MaxTerm]
ClaimEvents == [kind : {"claim"}, op : Operations, was : Claims, new : Claims]
RecordEvents == [kind : {"record"}, op : Operations, was : Records, new : Records]
Events == {NoEvent} \cup FenceEvents \cup ClaimEvents \cup RecordEvents

Piped == {"owner", "base", "check", "append"}
ExecPcs == {"enter", "guard", "effect", "after"}
Pcs == {"idle", "fence", "target", "create", "lock", "claim", "resolve", "advance", "finish",
        "complete", "recover", "auth", "handle", "done"} \cup Piped \cup ExecPcs

AgentDoes == {"next", "progress", "receipt"}
HostDoes == {"submit", "boot"}

Tasks ==
  [pc : Pcs, does : {"none"} \cup HostDoes \cup AgentDoes, host : Hosts \cup {None},
   awaited : BOOLEAN, op : Operations \cup {0}, key : Keys \cup {None}, epoch : 0 .. MaxEpoch,
   exec : Execs, status : Statuses, claim : Claims, event : Events, base : Nat,
   then : Pcs, retry : Pcs, step : 1 .. Steps, out : {"none"} \cup Outcomes]

AgentRuns == {"started", "confirmed", "guarded", "effect"}
AgentPcs == {"idle", "polled", "accepted", "checked", "finished", "receipted"} \cup AgentRuns

Agents ==
  [pc : AgentPcs, epoch : 1 .. MaxEpoch, waiting : BOOLEAN, ok : BOOLEAN,
   op : Operations \cup {0}, rec : Records, step : 1 .. Steps, out : {"none"} \cup Outcomes]

Typed ==
  /\ record \in [Operations -> Records] /\ claim \in [Operations -> Claims]
  /\ fence \in 0 .. MaxTerm /\ length \in Nat /\ poisoned \in BOOLEAN
  /\ driver \in [Keys -> {"local", "agent"}]
  /\ term \in 0 .. MaxTerm /\ mine \in [Hosts -> 0 .. MaxTerm]
  /\ phase \in [Hosts -> {"down", "booting", "up"}]
  /\ seen \in [Hosts -> 0 .. length]
  /\ executing \in [Hosts -> [Operations -> Workers \cup {None}]]
  /\ task \in [Workers -> Tasks]
  /\ epoch \in 1 .. MaxEpoch /\ revoked \in BOOLEAN /\ online \in [Hosts -> BOOLEAN]
  /\ agent \in Agents
  /\ ledger \in [Operations -> [status : Statuses, exec : 0 .. MaxEpoch]]
  /\ past \subseteq Operations /\ faults \in 0 .. MaxFaults
  /\ performed \in [Operations -> [1 .. Steps -> Nat]] /\ late \in [Operations -> Nat]

-----------------------------------------------------------------------------
(* What a task knows at each point.                                        *)

LocalOp(o) == o \in Created /\ Local(o)
RemoteOp(o) == o \in Created /\ ~Local(o)

\* The events of a task that has one in hand.
Fencing(t) == t.event.kind = "fence" /\ t.pc # "check" /\ t.retry = "fence"

Claiming(t) ==
  /\ t.event.kind = "claim" /\ t.pc # "check" /\ t.does \in HostDoes /\ LocalOp(t.op)
  /\ t.event.op = t.op /\ t.then = "resolve" /\ t.retry = "claim"

Creating(t) ==
  /\ t.does = "submit" /\ t.event.op = t.op /\ t.retry = "create"
  /\ t.event.was.status = "none" /\ t.event.new.key = t.key
  /\ t.then = IF driver[t.key] = "local" THEN "lock" ELSE "done"

Advancing(t) ==
  /\ t.does = "submit" /\ LocalOp(t.op) /\ t.event.op = t.op /\ t.retry = "advance"
  /\ t.event.was.status \in {"requested", "accepted"} /\ t.event.new.key = t.event.was.key
  /\ t.status \in {"accepted", "running"}
  /\ \/ t.event.new.status = "expired" /\ t.then = "done"
     \/ t.event.new.status = "accepted" /\ t.then = "advance"
     \/ t.event.new.status = "running" /\ t.then = "enter"

Completing(t) ==
  /\ t.does \in HostDoes /\ LocalOp(t.op) /\ t.event.op = t.op /\ t.retry = "complete"
  /\ t.event.was.status \in {"accepted", "running"} /\ t.event.new.key = t.event.was.key
  /\ t.event.new.status = t.out /\ t.out \in Outcomes
  /\ t.then = IF t.does = "boot" THEN "recover" ELSE "done"

Expiring(t) ==
  /\ t.does = "next" /\ RemoteOp(t.event.op) /\ t.then = "handle" /\ t.retry = "handle"
  /\ t.event.was.status = "requested" /\ t.event.new.key = t.event.was.key
  /\ t.event.new.status = "expired"

Progressing(t) ==
  /\ t.does = "progress" /\ t.event.op = t.op /\ t.then = "done" /\ t.retry = "handle"
  /\ t.event.was.status \in {"requested", "accepted"} /\ t.event.new.key = t.event.was.key
  /\ t.event.new.status = t.status /\ t.event.new.exec = t.exec

Reporting(t) ==
  /\ t.does = "receipt" /\ t.event.op = t.op /\ t.then = "done" /\ t.retry = "handle"
  /\ t.event.was.status \in {"accepted", "running"} /\ t.event.new.key = t.event.was.key
  /\ t.event.new.status = t.status /\ t.event.new.exec = t.event.was.exec

Recording(t) ==
  /\ t.event.kind = "record" /\ t.pc # "owner"
  /\ Creating(t) \/ Advancing(t) \/ Completing(t) \/ Expiring(t) \/ Progressing(t) \/ Reporting(t)

\* What a task does once its Host is fenced.
FencesFor(t) ==
  \/ t.does = "submit" /\ t.then \in {"create", "target"}
  \/ t.does = "submit" /\ t.then = "claim" /\ LocalOp(t.op)
  \/ t.does = "boot" /\ t.then = "recover"
  \/ t.does \in AgentDoes /\ t.then = "handle"

EventOK(t) ==
  /\ t.pc \in Piped => (Fencing(t) /\ FencesFor(t)) \/ Claiming(t) \/ Recording(t)
  /\ t.pc \notin Piped => t.event = NoEvent
  /\ t.pc = "fence" => FencesFor(t)

PointOK(t) ==
  /\ t.pc = "idle" <=> t = IdleTask
  /\ t.pc # "done"
  /\ t.does = "none" => t.pc = "idle"
  /\ t.pc \in {"target", "create", "lock", "advance", "finish"} \cup ExecPcs => t.does = "submit"
  /\ t.pc \in {"claim", "resolve", "complete"} => t.does \in HostDoes
  /\ t.pc = "recover" => t.does = "boot"
  /\ t.pc \in {"auth", "handle"} => t.does \in AgentDoes
  /\ t.does = "submit" => t.key \in Keys
  /\ t.pc \in {"lock", "claim", "resolve", "advance", "finish", "complete"} \cup ExecPcs => LocalOp(t.op)
  /\ t.pc = "advance" => t.status \in {"accepted", "running"}
  /\ t.pc \in {"finish", "complete"} => t.out \in Outcomes
  /\ t.does = "boot" => t.out # "succeeded"

\* A request of the agent says what the ledger of the agent says.
RequestOK(t) ==
  t.does \in {"progress", "receipt"} =>
    /\ RemoteOp(t.op) /\ ledger[t.op] # NoLedger /\ t.exec = ledger[t.op].exec
    /\ t.does = "progress" => t.status \in {"accepted", "running"}
    /\ t.does = "receipt" => t.status = ledger[t.op].status /\ t.status \in Outcomes

\* A task runs on a Host that runs; the one that boots it is the task of its
\* startup.
OnHost(t) ==
  t.pc # "idle" =>
    /\ t.host \in Hosts /\ phase[t.host] # "down"
    /\ t.does = "boot" <=> phase[t.host] = "booting"

\* The first k effects of an operation have happened, and no other.
Done(o, k) == \A n \in 1 .. Steps : performed[o][n] = IF n <= k THEN 1 ELSE 0

StepOK(t) ==
  \/ t.step = 1 /\ t.out # "succeeded"
  \/ /\ t.does = "submit"
     /\ t.pc \in ExecPcs \cup {"finish", "complete"} \/ (t.pc \in Piped /\ Completing(t))

ExecutionOK(t) ==
  /\ t.pc \in ExecPcs => record[t.op].status \in Started
  /\ t.pc = "enter" => t.step = 1
  /\ t.pc \in {"enter", "guard", "effect"} => Done(t.op, t.step - 1) /\ late[t.op] = 0
  /\ t.pc = "after" => /\ Done(t.op, t.step) /\ late[t.op] <= 1
                       /\ late[t.op] = 1 => ~Owner(t.host)
  /\ t.out = "succeeded" => t.op \in Operations /\ Done(t.op, Steps)

AwaitedOK(t) ==
  t.awaited =>
    /\ agent.waiting /\ t.does \in AgentDoes /\ t.epoch = agent.epoch
    /\ t.does = "next" <=> agent.pc = "polled"
    /\ t.does # "next" => t.op = agent.op

TaskOK(t) ==
  /\ EventOK(t) /\ PointOK(t) /\ RequestOK(t) /\ OnHost(t) /\ StepOK(t) /\ ExecutionOK(t)
  /\ AwaitedOK(t)

TasksOK == \A w \in Workers : TaskOK(task[w])

\* The executor of an operation, the request that the agent awaits and the
\* startup of a Host are one task.
Alone ==
  \A v, w \in Workers :
    \/ task[v].pc \in ExecPcs /\ task[w].pc \in ExecPcs /\ task[v].op = task[w].op
    \/ task[v].awaited /\ task[w].awaited
    \/ task[v].does = "boot" /\ task[w].pc # "idle" /\ task[v].host = task[w].host
    => v = w

-----------------------------------------------------------------------------
(* What is true of the journal, the Hosts, the effects and the agent.      *)

RecordsOK ==
  \A o \in Operations :
    /\ record[o].status # "none" => record[o].key \in Keys
    /\ record[o].status = "requested" => record[o].exec = 0
    /\ record[o].status \in {"accepted", "running"} => record[o].exec # 0
    /\ RemoteOp(o) /\ record[o].exec # 0 => record[o].exec = ledger[o].exec

LedgerOK ==
  \A o \in Operations :
    ledger[o] # NoLedger =>
      /\ RemoteOp(o) /\ ledger[o].exec # 0
      /\ ledger[o].status \in {"accepted", "running"} \cup Outcomes

TermsOK ==
  /\ \A h \in Hosts : mine[h] <= term /\ (mine[h] = 0 <=> phase[h] = "down")
  /\ \A g, h \in Hosts : mine[g] = mine[h] /\ mine[g] # 0 => g = h

EffectsOK ==
  \A o \in Operations :
    /\ late[o] <= 1 /\ \A n \in 1 .. Steps : performed[o][n] <= 1
    /\ record[o].status \notin Started => Done(o, 0) /\ late[o] = 0
    /\ RemoteOp(o) /\ ledger[o].status \in {"none", "accepted"} => Done(o, 0) /\ late[o] = 0
    /\ record[o].status = "succeeded" => Done(o, Steps)
    /\ ledger[o].status = "succeeded" => Done(o, Steps)

AgentFits(a) ==
  /\ a.epoch <= epoch
  /\ a.pc = "idle" => a = AgentIdle(a.epoch)
  /\ a.pc = "polled" => a.op = 0 \/ RemoteOp(a.op)
  /\ a.pc \notin {"idle", "polled"} => a.op \in Operations /\ ledger[a.op] # NoLedger
  /\ a.pc \in {"polled", "accepted", "started", "confirmed"} => a.step = 1
  /\ a.pc \in AgentRuns =>
       ledger[a.op].status = "running" /\ Done(a.op, a.step - 1) /\ late[a.op] = 0
  /\ a.pc = "effect" => ~a.waiting /\ a.rec.status = "running"
  /\ a.pc = "checked" =>
       /\ ledger[a.op].status = "running" /\ Done(a.op, a.step)
       /\ late[a.op] = 1 =>
            /\ a.epoch # epoch /\ (a.waiting \/ ~a.ok)
            /\ \A w \in Workers : task[w].awaited => task[w].pc = "auth"
  /\ a.pc = "finished" =>
       /\ ledger[a.op].status = "running" /\ a.out \in Outcomes
       /\ a.out = "succeeded" => Done(a.op, Steps)
  /\ a.rec.status = "running" => a.op \in Operations /\ record[a.op].status \in Started

AgentOK == AgentFits(agent)

OperationInv ==
  /\ Typed /\ TasksOK /\ Alone /\ RecordsOK /\ LedgerOK /\ TermsOK /\ EffectsOK /\ AgentOK
  /\ ReceiptsAgree

-----------------------------------------------------------------------------
(* What the fences and the execution locks of the Hosts give, when every    *)
(* Host that serves has fenced the journal.                                 *)

\* A task acts under the claim that it holds.
Claimed(t) ==
  \/ t.pc \in {"resolve", "advance", "finish", "complete"} \cup ExecPcs
  \/ t.pc \in Piped /\ t.event.kind = "record" /\ t.event.was.status # "none" /\ t.does \in HostDoes

\* The event that a task is about to append replaces what the task has read.
FenceOK(t) ==
  /\ t.base <= length
  /\ t.event.kind = "fence" => t.event.new = mine[t.host] /\ t.event.was < t.event.new
  /\ t.event.kind = "claim" => t.event.new.owner = mine[t.host] /\ t.event.new.exec # 0
  /\ t.event.kind = "record" /\ t.event.was.status # "none" =>
       t.event.op \in Created /\ t.event.was.key = record[t.event.op].key
  /\ Claimed(t) => t.claim.owner = mine[t.host] /\ t.claim.exec # 0
  /\ t.pc = "append" /\ t.event.kind = "record" /\ t.base = length =>
       /\ fence = mine[t.host]
       /\ Claimed(t) /\ t.event.new.status # "expired" => claim[t.op] = t.claim
  /\ t.does = "boot" /\ t.pc # "fence" /\ t.event.kind # "fence" => mine[t.host] <= fence

FencesOK ==
  /\ fence <= term
  /\ \A o \in Operations : claim[o].owner # 0 => claim[o].exec # 0
  /\ \A w \in Workers : FenceOK(task[w])
  /\ \A h \in Hosts : phase[h] = "up" => mine[h] <= fence

\* A request that drives a local operation.
Drives(t) ==
  /\ t.does = "submit"
  /\ \/ t.pc \in {"claim", "resolve", "advance", "finish", "complete"} \cup ExecPcs
     \/ t.pc \in Piped /\ t.event.kind = "claim"
     \/ t.pc \in Piped /\ t.event.kind = "record" /\ t.event.was.status # "none"
     \/ t.pc = "fence" /\ t.then = "claim"
     \/ t.pc \in Piped /\ t.event.kind = "fence" /\ t.then = "claim"

LocksOK == \A w \in Workers : Drives(task[w]) => executing[task[w].host][task[w].op] = w

\* The claim or the record that a driver replaces is still there.
Undisturbed(t) ==
  /\ t.event.kind = "claim" =>
       /\ t.event.was = claim[t.op] /\ claim[t.op].owner # t.event.new.owner
       /\ ~IsTerminal(t.op) /\ record[t.op].exec \in {0, t.event.new.exec}
  /\ t.event.kind = "record" /\ t.event.was.status # "none" => t.event.was = record[t.op]

Unique(e) == e.was = record[e.op] /\ \A p \in Created : record[p].key # e.new.key

FenceStands(t) ==
  /\ t.does = "boot" /\ t.pc \in {"owner", "append"}
  /\ t.pc = "owner" /\ seen[t.host] = length => t.event.was = fence
  /\ t.pc = "append" /\ t.base = length => t.event.was = fence

ClaimStands(t) == t.pc = "owner" \/ (t.pc = "append" /\ (t.base = length => fence = mine[t.host]))

CreateStands(t) ==
  /\ t.event.new.status = "requested" /\ t.event.new.exec = 0
  /\ t.pc # "base" /\ (t.base = length => Unique(t.event))

ChangeStands(t) ==
  /\ ValidTransition(t.event.was, t.event.new)
  /\ t.does \in AgentDoes => t.pc # "base" /\ (t.base = length => t.event.was = record[t.event.op])

AppendOK(t) ==
  /\ t.event.kind = "fence" => FenceStands(t)
  /\ t.event.kind = "claim" => ClaimStands(t)
  /\ t.event.kind = "record" /\ t.event.was.status = "none" => CreateStands(t)
  /\ t.event.kind = "record" /\ t.event.was.status # "none" => ChangeStands(t)
  /\ t.does \in HostDoes /\ fence = mine[t.host] => Undisturbed(t)

\* No other thread of a Host runs between two reads of its registry.
AppendsOK == OperationsReplay /\ \A w \in Workers : AppendOK(task[w])

OrderInv ==
  /\ OperationInv /\ FencesOK /\ NoOrphanRunning /\ LocksOK
  /\ ~Preemption => AppendsOK

-----------------------------------------------------------------------------
(* Lemmas about the constants and the records.                             *)

LEMMA ConstantFacts ==
  /\ Operations \subseteq Nat \ {0}
  /\ Steps \in Nat \ {0} /\ MaxEpoch \in Nat \ {0} /\ MaxTerm \in Nat /\ MaxFaults \in Nat
  /\ BootMayFail \in BOOLEAN /\ Preemption \in BOOLEAN
  /\ None \notin Keys /\ None \notin Hosts /\ None \notin Workers
<1>1. Cardinality(Operations) \in Nat
  BY TargetAssumption, FS_CardinalityType
<1> QED BY <1>1, TargetAssumption

\* The first operation of a set is one of them.
LEMMA MinOfOperations ==
  ASSUME NEW S \in SUBSET Operations, S # {}
  PROVE  Min(S) \in S
<1> DEFINE R == OpToRel(<, Nat)
<1>1. IsWellFoundedOn(R, Nat)
  BY NatLessThanWellFounded
<1>2. S \subseteq Nat
  BY ConstantFacts
<1>3. \E x \in S : \A y \in S : <<y, x>> \notin R
  <2> HIDE DEF R
  <2> QED BY <1>1, <1>2, WFMin
<1>4. PICK x \in S : \A y \in S : <<y, x>> \notin R
  BY <1>3
<1>5. \A y \in S : x <= y
  <2> SUFFICES ASSUME NEW y \in S PROVE x <= y
    OBVIOUS
  <2>1. ~(y < x)
    BY <1>2, <1>4 DEF OpToRel
  <2> QED BY <1>2, <2>1
<1> QED BY <1>5 DEF Min

LEMMA RecordTypes ==
  /\ NoRecord \in Records /\ NoClaim \in Claims /\ NoEvent \in Events
  /\ NoEvent.kind = "none" /\ NoRecord.status = "none"
  /\ IdleTask \in Tasks
  /\ \A e \in 1 .. MaxEpoch : AgentIdle(e) \in Agents
<1>1. NoRecord \in Records /\ NoClaim \in Claims /\ NoEvent \in Events
  BY ConstantFacts DEF NoRecord, NoClaim, NoEvent, Records, Claims, Events, Statuses, Terminal, Execs
<1>2. IdleTask \in Tasks
  BY <1>1, ConstantFacts DEF IdleTask, Tasks, Pcs, Statuses, Execs
<1>3. \A e \in 1 .. MaxEpoch : AgentIdle(e) \in Agents
  BY <1>1, ConstantFacts DEF AgentIdle, Agents, AgentPcs
<1> QED BY <1>1, <1>2, <1>3 DEF NoEvent, NoRecord

\* An idle task has nothing to keep.
LEMMA IdleIsOK == TaskOK(IdleTask)
<1>1. /\ IdleTask.pc = "idle" /\ IdleTask.does = "none" /\ IdleTask.event = NoEvent
      /\ IdleTask.awaited = FALSE /\ IdleTask.step = 1 /\ IdleTask.out = "none"
  BY DEF IdleTask
<1> HIDE DEF IdleTask
<1> QED BY <1>1 DEF TaskOK, EventOK, PointOK, RequestOK, OnHost, StepOK, ExecutionOK, AwaitedOK,
                    Piped, ExecPcs, AgentDoes, HostDoes

-----------------------------------------------------------------------------
(* What never goes back, and what a task keeps through a step of others.   *)

JournalGrows ==
  \A o \in Operations :
    /\ o \in Created => o \in Created' /\ record'[o].key = record[o].key
    /\ record[o].status \in Started => record'[o].status \in Started

LedgerGrows ==
  \A o \in Operations :
    ledger[o] # NoLedger =>
      /\ ledger'[o] # NoLedger /\ ledger'[o].exec = ledger[o].exec
      /\ ledger[o].status \in Outcomes => ledger'[o].status = ledger[o].status

LEMMA OpsKept ==
  ASSUME JournalGrows, UNCHANGED driver, NEW o
  PROVE  (LocalOp(o) => LocalOp(o)') /\ (RemoteOp(o) => RemoteOp(o)')
BY DEF JournalGrows, LocalOp, RemoteOp, Local, Created

\* The Host of a task, the effects of its operation and the agent that waits
\* for it are as they were.
HostKept(t) ==
  t.pc # "idle" =>
    phase'[t.host] = phase[t.host] /\ (mine'[t.host] = term' => mine[t.host] = term)

HistoryKept(t) ==
  t.op \in Operations /\ (t.pc \in ExecPcs \/ t.out = "succeeded") =>
    performed'[t.op] = performed[t.op] /\ late'[t.op] = late[t.op]

AgentKept(t) ==
  t.awaited => agent'.waiting /\ agent'.epoch = agent.epoch /\ agent'.pc = agent.pc
               /\ agent'.op = agent.op

LEMMA EventKept ==
  ASSUME NEW t, EventOK(t), JournalGrows, UNCHANGED driver
  PROVE  EventOK(t)'
<1>1. \A o : (LocalOp(o) => LocalOp(o)') /\ (RemoteOp(o) => RemoteOp(o)')
  BY OpsKept
<1>2. /\ Claiming(t) => Claiming(t)'
      /\ FencesFor(t) => FencesFor(t)'
      /\ Creating(t) => Creating(t)'
      /\ Advancing(t) => Advancing(t)'
      /\ Completing(t) => Completing(t)'
      /\ Expiring(t) => Expiring(t)'
      /\ Progressing(t) => Progressing(t)'
      /\ Reporting(t) => Reporting(t)'
      /\ Fencing(t) => Fencing(t)'
  BY <1>1 DEF Claiming, FencesFor, Creating, Advancing, Completing, Expiring, Progressing,
              Reporting, Fencing
<1>3. Recording(t) => Recording(t)'
  BY <1>2 DEF Recording
<1> QED BY <1>2, <1>3 DEF EventOK

LEMMA TaskKept ==
  ASSUME NEW t \in Tasks, TaskOK(t), JournalGrows, LedgerGrows, UNCHANGED driver,
         HostKept(t), HistoryKept(t), AgentKept(t)
  PROVE  TaskOK(t)'
<1>1. \A o : (LocalOp(o) => LocalOp(o)') /\ (RemoteOp(o) => RemoteOp(o)')
  BY OpsKept
<1>2. EventOK(t)'
  BY EventKept DEF TaskOK
<1>3. PointOK(t)'
  BY <1>1 DEF TaskOK, PointOK
<1>4. RequestOK(t)'
  BY <1>1 DEF TaskOK, RequestOK, LedgerGrows, RemoteOp, Created
<1>5. OnHost(t)'
  BY DEF TaskOK, OnHost, HostKept
<1>6. StepOK(t)'
  <2>1. Completing(t) => Completing(t)'
    BY <1>1 DEF Completing
  <2> QED BY <2>1 DEF TaskOK, StepOK
<1>7. ExecutionOK(t)'
  <2>1. t.pc \in ExecPcs \/ t.out = "succeeded" => t.op \in Operations
    BY DEF TaskOK, PointOK, ExecutionOK, LocalOp, Created
  <2>2. t.op \in Operations /\ (t.pc \in ExecPcs \/ t.out = "succeeded") =>
          /\ \A k : Done(t.op, k) => Done(t.op, k)'
          /\ late'[t.op] = late[t.op]
          /\ record[t.op].status \in Started => record'[t.op].status \in Started
    BY DEF HistoryKept, Done, JournalGrows
  <2>3. t.pc = "after" => (Owner(t.host)' => Owner(t.host))
    BY DEF HostKept, Owner
  <2>4. t.pc \in {"enter", "guard", "effect", "after"} => t.pc \in ExecPcs
    BY DEF ExecPcs
  <2> QED BY <2>1, <2>2, <2>3, <2>4 DEF TaskOK, ExecutionOK
<1>8. AwaitedOK(t)'
  BY DEF TaskOK, AwaitedOK, AgentKept
<1> QED BY <1>2, <1>3, <1>4, <1>5, <1>6, <1>7, <1>8 DEF TaskOK
-----------------------------------------------------------------------------
(* Steps of a task of a Host.                                              *)

TypedJournal ==
  /\ record \in [Operations -> Records] /\ claim \in [Operations -> Claims]
  /\ fence \in 0 .. MaxTerm /\ length \in Nat /\ poisoned \in BOOLEAN

Durable == RecordsOK /\ LedgerOK /\ EffectsOK /\ ReceiptsAgree

HostFrame == UNCHANGED <<driver, target, ledger, past, history>>

\* The journal grows, or is left alone, in a way the invariant allows.
JournalStep ==
  /\ JournalGrows /\ TypedJournal' /\ Durable'
  /\ seen' \in [Hosts -> 0 .. length'] /\ faults' \in 0 .. MaxFaults

LEMMA DurableKept ==
  ASSUME Durable, UNCHANGED <<record, driver, ledger, history>>
  PROVE  Durable'
<1>1. UNCHANGED <<record, driver, ledger, performed, late>>
  BY DEF history
<1>2. RecordsOK'
  BY <1>1 DEF Durable, RecordsOK, RemoteOp, Local, Created
<1>3. LedgerOK'
  BY <1>1 DEF Durable, LedgerOK, RemoteOp, Local, Created
<1>4. EffectsOK'
  BY <1>1 DEF Durable, EffectsOK, RemoteOp, Local, Created, Done
<1>5. ReceiptsAgree'
  BY <1>1 DEF Durable, ReceiptsAgree, Local, Created
<1> QED BY <1>2, <1>3, <1>4, <1>5 DEF Durable

LEMMA Unwritten ==
  ASSUME OperationInv, HostFrame, UNCHANGED journal,
         seen' \in [Hosts -> 0 .. length], faults' \in 0 .. MaxFaults
  PROVE  JournalStep
<1>1. UNCHANGED <<record, fence, claim, length, poisoned, driver, ledger, history>>
  BY DEF HostFrame, journal
<1>2. Durable'
  BY <1>1, DurableKept DEF OperationInv, Durable
<1>3. JournalGrows /\ TypedJournal'
  BY <1>1 DEF JournalGrows, TypedJournal, OperationInv, Typed, Created
<1> QED BY <1>1, <1>2, <1>3 DEF JournalStep

LEMMA SyncTypes ==
  ASSUME Typed, NEW h
  PROVE  /\ Sync(h) => seen' \in [Hosts -> 0 .. length]
         /\ UNCHANGED seen => seen' \in [Hosts -> 0 .. length]
         /\ UNCHANGED faults => faults' \in 0 .. MaxFaults
         /\ Fault => faults' \in 0 .. MaxFaults
<1>1. seen \in [Hosts -> 0 .. length] /\ length \in Nat /\ faults \in 0 .. MaxFaults
  BY DEF Typed
<1>2. Sync(h) => seen' \in [Hosts -> 0 .. length]
  <2>1. length \in 0 .. length
    BY <1>1
  <2> QED BY <1>1, <2>1, Zenon DEF Sync
<1>3. Fault => faults' \in 0 .. MaxFaults
  BY <1>1, ConstantFacts DEF Fault
<1> QED BY <1>1, <1>2, <1>3

LEMMA LedgerSame ==
  ASSUME UNCHANGED ledger
  PROVE  LedgerGrows
BY DEF LedgerGrows

\* The agent is not answered, and what it awaits does not pass authentication
\* under an epoch that is over.
LEMMA AgentStays ==
  ASSUME AgentOK, JournalGrows, HostFrame, UNCHANGED agent,
         \A v \in Workers : task'[v].awaited =>
           task[v].awaited /\ (task'[v].pc = task[v].pc \/ task[v].pc # "auth" \/ agent.epoch = epoch)
  PROVE  AgentOK'
<1> DEFINE a == agent
<1>1. UNCHANGED <<driver, epoch, ledger, performed, late, agent>>
  BY DEF HostFrame, target, history
<1>2. RemoteOp(a.op) => RemoteOp(a.op)'
  BY <1>1 DEF RemoteOp, Local, JournalGrows, Created
<1>3. a.op \in Operations /\ record[a.op].status \in Started => record'[a.op].status \in Started
  BY DEF JournalGrows
<1>4. \A o, k : Done(o, k)' <=> Done(o, k)
  BY <1>1 DEF Done
<1>5. a.pc = "checked" /\ late[a.op] = 1 =>
        \A v \in Workers : task'[v].awaited => task'[v].pc = "auth"
  BY DEF AgentOK, AgentFits
<1>6. \A x : x = a => AgentFits(x)'
  BY <1>1, <1>2, <1>3, <1>4, <1>5 DEF AgentOK, AgentFits
<1> QED BY <1>1, <1>6 DEF AgentOK

\* What may be answered to the agent.
MayAnswer(w, ok, o, r) ==
  /\ ok \in BOOLEAN /\ r \in Records /\ o \in Operations \cup {0}
  /\ ok /\ task[w].pc = "auth" => task[w].epoch = epoch
  /\ task[w].does = "next" /\ o # 0 => RemoteOp(o)
  /\ r.status = "running" =>
       /\ o \in Operations /\ record'[o].status \in Started
       /\ task[w].does # "next" => o = task[w].op

LEMMA AgentReplies ==
  ASSUME OperationInv, JournalGrows, HostFrame, NEW w \in Workers, task[w].awaited,
         NEW ok, NEW o, NEW r, MayAnswer(w, ok, o, r), Reply(w, ok, o, r),
         \A v \in Workers : ~task'[v].awaited
  PROVE  agent' \in Agents /\ AgentOK'
<1> DEFINE a == [agent EXCEPT !.waiting = FALSE, !.ok = ok, !.rec = r,
                              !.op = IF task[w].does = "next" THEN o ELSE @]
<1>1. agent' = a
  BY DEF Reply
<1>2. agent \in Agents /\ AgentFits(agent) /\ AwaitedOK(task[w])
  BY DEF OperationInv, Typed, AgentOK, TasksOK, TaskOK
<1>3. /\ a.epoch = agent.epoch /\ a.pc = agent.pc /\ a.waiting = FALSE /\ a.ok = ok /\ a.rec = r
      /\ a.op = (IF task[w].does = "next" THEN o ELSE agent.op)
      /\ a.step = agent.step /\ a.out = agent.out
  BY <1>2 DEF Agents
<1>4. a \in Agents
  BY <1>2 DEF Agents, MayAnswer
<1> HIDE DEF a
<1>5. /\ agent.waiting /\ task[w].epoch = agent.epoch
      /\ task[w].does = "next" <=> agent.pc = "polled"
      /\ task[w].does # "next" => task[w].op = agent.op
  BY <1>2 DEF AwaitedOK
<1>6. agent.pc # "effect" /\ agent.pc # "idle"
  BY <1>2, <1>5 DEF AgentFits, AgentIdle
<1>7. UNCHANGED <<driver, epoch, ledger, performed, late>>
  BY DEF HostFrame, target, history
<1>8. \A p, k : Done(p, k)' <=> Done(p, k)
  BY <1>7 DEF Done
<1>9. \A p : RemoteOp(p) => RemoteOp(p)'
  BY <1>7, OpsKept
<1>10. a.pc = "checked" /\ late[agent.op] = 1 => ~ok
  BY <1>2, <1>3, <1>5 DEF AgentFits, MayAnswer
<1>11. r.status = "running" => a.op \in Operations /\ record'[a.op].status \in Started
  BY <1>3, <1>5 DEF MayAnswer
<1>12. a.pc = "polled" => a.op = 0 \/ \A p : p = a.op => RemoteOp(p)'
  BY <1>3, <1>5, <1>9 DEF MayAnswer
<1>13. a.pc # "polled" => a.op = agent.op
  BY <1>3, <1>5
<1>14. a.pc \in AgentRuns => a.pc # "polled"
  BY DEF AgentRuns
<1>15. \A x : x = a => AgentFits(x)'
  BY <1>2, <1>3, <1>6, <1>7, <1>8, <1>10, <1>11, <1>12, <1>13, <1>14 DEF AgentFits
<1> QED BY <1>1, <1>4, <1>15 DEF AgentOK

LEMMA AloneKept ==
  ASSUME OperationInv, TasksOK', NEW w \in Workers, NEW t, task' = [task EXCEPT ![w] = t],
         t.pc \in ExecPcs =>
           \A v \in Workers : task[v].pc \in ExecPcs /\ task[v].op = t.op => v = w,
         t.awaited => task[w].awaited \/ \A v \in Workers : ~task[v].awaited,
         t.does = "boot" => /\ task[w].does = "boot" /\ t.host = task[w].host
  PROVE  Alone'
<1>1. Alone /\ TasksOK /\ task \in [Workers -> Tasks]
  BY DEF OperationInv, Typed
<1>2. task'[w] = t /\ \A v \in Workers \ {w} : task'[v] = task[v]
  BY <1>1
<1> SUFFICES ASSUME NEW u \in Workers, NEW v \in Workers, u # v,
                    \/ task'[u].pc \in ExecPcs /\ task'[v].pc \in ExecPcs /\ task'[u].op = task'[v].op
                    \/ task'[u].awaited /\ task'[v].awaited
                    \/ task'[u].does = "boot" /\ task'[v].pc # "idle" /\ task'[u].host = task'[v].host
             PROVE  FALSE
  BY DEF Alone
<1>3. CASE task'[u].pc \in ExecPcs /\ task'[v].pc \in ExecPcs /\ task'[u].op = task'[v].op
  BY <1>1, <1>2, <1>3 DEF Alone
<1>4. CASE task'[u].awaited /\ task'[v].awaited
  BY <1>1, <1>2, <1>4 DEF Alone
<1>5. CASE task'[u].does = "boot" /\ task'[v].pc # "idle" /\ task'[u].host = task'[v].host
  <2>1. OnHost(task[u])' /\ OnHost(task[v])' /\ PointOK(task[u])'
    BY DEF TasksOK, TaskOK
  <2>2. task'[u].pc # "idle"
    BY <1>5, <2>1 DEF PointOK, IdleTask
  <2>3. task'[v].does = "boot"
    BY <1>5, <2>1, <2>2 DEF OnHost
  <2>4. \A x \in Workers : task[x].does = "boot" => task[x].pc # "idle"
    BY <1>1 DEF TasksOK, TaskOK, PointOK, IdleTask
  <2> QED BY <1>1, <1>2, <1>5, <2>3, <2>4 DEF Alone
<1> QED BY <1>3, <1>4, <1>5
LEMMA OtherKept ==
  ASSUME OperationInv, JournalGrows, LedgerGrows, UNCHANGED driver, NEW v \in Workers,
         task'[v] = task[v], HostKept(task[v]), HistoryKept(task[v]), AgentKept(task[v])
  PROVE  TaskOK(task[v])'
<1>1. task[v] \in Tasks /\ TaskOK(task[v])
  BY DEF OperationInv, Typed, TasksOK
<1>2. \A x : x = task[v] => TaskOK(x)'
  BY <1>1, TaskKept
<1> QED BY <1>2

\* A task may take the place of another when it does not become an executor
\* beside another one, nor the task that the agent awaits.
MayBecome(w, t) ==
  /\ t.pc \in ExecPcs => \A v \in Workers : task[v].pc \in ExecPcs /\ task[v].op = t.op => v = w
  /\ t.awaited => task[w].awaited /\ (task[w].pc = "auth" => task[w].epoch = epoch)
  /\ t.does = "boot" => task[w].does = "boot" /\ t.host = task[w].host

\* The Hosts are as they were, except for their execution locks.
HostsKept ==
  /\ UNCHANGED <<term, mine, phase, agent>>
  /\ executing' \in [Hosts -> [Operations -> Workers \cup {None}]]

LEMMA MoveKeeps ==
  ASSUME OperationInv, NEW w \in Workers, NEW t \in Tasks, TaskOK(t)', MayBecome(w, t),
         SetTask(w, t), HostsKept, HostFrame, JournalStep
  PROVE  OperationInv'
<1>1. task \in [Workers -> Tasks] /\ task' = [task EXCEPT ![w] = t]
  BY DEF OperationInv, Typed, SetTask
<1>2. task'[w] = t /\ \A v \in Workers \ {w} : task'[v] = task[v]
  BY <1>1
<1>3. /\ UNCHANGED <<driver, term, mine, phase, agent, epoch, revoked, online, ledger, past,
                     performed, late>>
      /\ executing' \in [Hosts -> [Operations -> Workers \cup {None}]]
  BY DEF HostsKept, HostFrame, target, history
<1>4. JournalGrows /\ LedgerGrows /\ Durable'
  BY <1>3, LedgerSame DEF JournalStep
<1>5. TasksOK'
  <2> SUFFICES ASSUME NEW v \in Workers PROVE TaskOK(task[v])'
    BY DEF TasksOK
  <2>1. CASE v = w
    BY <1>2, <2>1
  <2>2. CASE v # w
    <3>1. HostKept(task[v]) /\ HistoryKept(task[v])
      BY <1>3 DEF HostKept, HistoryKept
    <3>2. AgentKept(task[v])
      BY <1>3 DEF AgentKept, OperationInv, TasksOK, TaskOK, AwaitedOK
    <3> QED BY <1>2, <1>3, <1>4, <2>2, <3>1, <3>2, OtherKept
  <2> QED BY <2>1, <2>2
<1>6. Alone'
  BY <1>1, <1>5, AloneKept DEF MayBecome
<1>7. AgentOK'
  <2>1. AwaitedOK(task[w])
    BY DEF OperationInv, TasksOK, TaskOK
  <2>2. \A v \in Workers : task'[v].awaited =>
          task[v].awaited /\ (task'[v].pc = task[v].pc \/ task[v].pc # "auth" \/ agent.epoch = epoch)
    BY <1>2, <2>1 DEF MayBecome, AwaitedOK
  <2> QED BY <1>3, <1>4, <2>2, AgentStays DEF OperationInv
<1>8. Typed'
  <2>1. task' \in [Workers -> Tasks]
    BY <1>1
  <2> QED BY <1>3, <2>1 DEF OperationInv, Typed, JournalStep, TypedJournal
<1>9. TermsOK'
  BY <1>3 DEF OperationInv, TermsOK
<1> QED BY <1>4, <1>5, <1>6, <1>7, <1>8, <1>9 DEF OperationInv, Durable

\* A task that ends: how the Hosts change.
LEMMA ReleaseTypes ==
  ASSUME Typed, NEW w, Release(w)
  PROVE  executing' \in [Hosts -> [Operations -> Workers \cup {None}]]
BY DEF Typed, Release

Ends(w) == SetTask(w, IdleTask) /\ Release(w) /\ UNCHANGED term

LEMMA EndKeeps ==
  ASSUME OperationInv, NEW w \in Workers, task[w].pc # "idle", Ends(w),
         NEW g, g = task[w].host,
         phase' \in [Hosts -> {"down", "booting", "up"}], mine' \in [Hosts -> 0 .. MaxTerm],
         task[w].does # "boot" => UNCHANGED <<phase, mine>>,
         \A h \in Hosts : h # g => phase'[h] = phase[h] /\ mine'[h] = mine[h],
         \A h \in Hosts : mine'[h] \in {0, mine[h]} /\ (mine'[h] = 0 <=> phase'[h] = "down"),
         NEW ok, NEW o, NEW r, MayAnswer(w, ok, o, r), Reply(w, ok, o, r),
         HostFrame, JournalStep
  PROVE  OperationInv'
<1>1. /\ task \in [Workers -> Tasks] /\ task' = [task EXCEPT ![w] = IdleTask]
      /\ Alone /\ TasksOK /\ AwaitedOK(task[w]) /\ OnHost(task[w]) /\ PointOK(task[w])
  BY DEF OperationInv, Typed, Ends, SetTask, TasksOK, TaskOK
<1>2. task'[w] = IdleTask /\ \A v \in Workers \ {w} : task'[v] = task[v]
  BY <1>1
<1>3. UNCHANGED <<driver, term, epoch, revoked, online, ledger, past, performed, late>>
  BY DEF Ends, HostFrame, target, history
<1>4. JournalGrows /\ LedgerGrows /\ Durable'
  BY <1>3, LedgerSame DEF JournalStep
<1>5. IdleTask.awaited = FALSE /\ IdleTask.pc = "idle" /\ IdleTask.does = "none"
  BY DEF IdleTask
<1>6. TasksOK'
  <2> SUFFICES ASSUME NEW v \in Workers PROVE TaskOK(task[v])'
    BY DEF TasksOK
  <2>1. CASE v = w
    <3>1. TaskOK(IdleTask)'
      BY IdleIsOK, PTL
    <3>2. IdleTask' = IdleTask
      BY DEF IdleTask, NoClaim, NoEvent, NoRecord
    <3> QED BY <1>2, <2>1, <3>1, <3>2
  <2>2. CASE v # w
    <3>1. task[v].pc # "idle" => phase'[task[v].host] = phase[task[v].host]
                                 /\ mine'[task[v].host] = mine[task[v].host]
      <4>1. OnHost(task[v])
        BY <1>1 DEF TasksOK, TaskOK
      <4>2. task[w].does = "boot" /\ task[v].pc # "idle" => task[v].host # task[w].host
        BY <1>1, <2>2 DEF Alone
      <4> QED BY <4>1, <4>2 DEF OnHost
    <3>2. HostKept(task[v]) /\ HistoryKept(task[v])
      BY <1>3, <3>1 DEF HostKept, HistoryKept
    <3>3. AgentKept(task[v])
      <4>1. task[v].awaited => ~task[w].awaited
        BY <1>1, <2>2 DEF Alone
      <4>2. task[v].awaited => agent' = agent /\ agent.waiting
        BY <1>1, <4>1 DEF Reply, TasksOK, TaskOK, AwaitedOK
      <4> QED BY <4>2 DEF AgentKept
    <3> QED BY <1>2, <1>3, <1>4, <2>2, <3>2, <3>3, OtherKept
  <2> QED BY <2>1, <2>2
<1>7. Alone'
  BY <1>1, <1>5, <1>6, AloneKept DEF ExecPcs
<1>8. agent' \in Agents /\ AgentOK'
  <2>1. CASE task[w].awaited
    <3>1. \A v \in Workers : ~task'[v].awaited
      BY <1>1, <1>2, <1>5, <2>1 DEF Alone
    <3> QED BY <1>4, <2>1, <3>1, AgentReplies
  <2>2. CASE ~task[w].awaited
    <3>1. agent' = agent
      BY <2>2 DEF Reply
    <3>2. \A v \in Workers : task'[v].awaited => task[v].awaited /\ task'[v].pc = task[v].pc
      BY <1>2, <1>5
    <3> QED BY <1>4, <3>1, <3>2, AgentStays DEF OperationInv, Typed
  <2> QED BY <2>1, <2>2
<1>9. Typed'
  <2>1. task' \in [Workers -> Tasks]
    BY <1>1, RecordTypes
  <2>2. executing' \in [Hosts -> [Operations -> Workers \cup {None}]]
    BY ReleaseTypes DEF Ends, OperationInv
  <2> QED BY <1>3, <1>8, <2>1, <2>2 DEF OperationInv, Typed, JournalStep, TypedJournal
<1>10. TermsOK'
  <2>1. TermsOK /\ mine \in [Hosts -> 0 .. MaxTerm] /\ term \in 0 .. MaxTerm
    BY DEF OperationInv, Typed
  <2>2. \A h \in Hosts : mine'[h] <= term' /\ (mine'[h] = 0 <=> phase'[h] = "down")
    BY <1>3, <2>1 DEF TermsOK
  <2>3. \A f, h \in Hosts : mine'[f] = mine'[h] /\ mine'[f] # 0 => f = h
    BY <2>1 DEF TermsOK
  <2> QED BY <2>2, <2>3 DEF TermsOK
<1> QED BY <1>4, <1>6, <1>7, <1>8, <1>9, <1>10 DEF OperationInv, Durable
LEMMA FailsKeeps ==
  ASSUME OperationInv, NEW w \in Workers, task[w].pc # "idle", Fails(w), HostFrame, JournalStep
  PROVE  OperationInv'
<1> DEFINE g == task[w].host
           ends == task[w].does = "boot" /\ ~(Owner(g) /\ BootMayFail)
<1>1. /\ phase \in [Hosts -> {"down", "booting", "up"}] /\ mine \in [Hosts -> 0 .. MaxTerm]
      /\ TermsOK /\ OnHost(task[w])
  BY DEF OperationInv, Typed, TasksOK, TaskOK
<1>2. /\ Ends(w) /\ Reply(w, FALSE, 0, NoRecord)
      /\ phase' = IF task[w].does # "boot" THEN phase
                  ELSE [phase EXCEPT ![g] = IF ends THEN "down" ELSE "up"]
      /\ mine' = IF ends THEN [mine EXCEPT ![g] = 0] ELSE mine
  BY DEF Fails, Ends
<1>3. MayAnswer(w, FALSE, 0, NoRecord)
  BY RecordTypes DEF MayAnswer
<1>4. g \in Hosts /\ phase[g] # "down" /\ mine[g] # 0
  BY <1>1 DEF OnHost, TermsOK
<1>5. /\ phase' \in [Hosts -> {"down", "booting", "up"}] /\ mine' \in [Hosts -> 0 .. MaxTerm]
      /\ task[w].does # "boot" => UNCHANGED <<phase, mine>>
      /\ \A h \in Hosts : h # g => phase'[h] = phase[h] /\ mine'[h] = mine[h]
  BY <1>1, <1>2, <1>4, ConstantFacts
<1>6. \A h \in Hosts : mine'[h] \in {0, mine[h]} /\ (mine'[h] = 0 <=> phase'[h] = "down")
  BY <1>1, <1>2, <1>4 DEF TermsOK
<1> HIDE DEF ends
<1> QED BY <1>2, <1>3, <1>5, <1>6, EndKeeps

LEMMA FinishesKeeps ==
  ASSUME OperationInv, NEW w \in Workers, task[w].pc # "idle", NEW o, NEW r, Finishes(w, o, r),
         MayAnswer(w, TRUE, o, r), HostFrame, JournalStep
  PROVE  OperationInv'
<1> DEFINE g == task[w].host
<1>1. /\ phase \in [Hosts -> {"down", "booting", "up"}] /\ mine \in [Hosts -> 0 .. MaxTerm]
      /\ TermsOK /\ OnHost(task[w])
  BY DEF OperationInv, Typed, TasksOK, TaskOK
<1>2. /\ Ends(w) /\ Reply(w, TRUE, o, r) /\ mine' = mine
      /\ phase' = IF task[w].does = "boot" THEN [phase EXCEPT ![g] = "up"] ELSE phase
  BY DEF Finishes, Returns, Ends
<1>3. g \in Hosts /\ phase[g] # "down" /\ mine[g] # 0
  BY <1>1 DEF OnHost, TermsOK
<1>4. /\ phase' \in [Hosts -> {"down", "booting", "up"}] /\ mine' \in [Hosts -> 0 .. MaxTerm]
      /\ task[w].does # "boot" => UNCHANGED <<phase, mine>>
      /\ \A h \in Hosts : h # g => phase'[h] = phase[h] /\ mine'[h] = mine[h]
  BY <1>1, <1>2, <1>3
<1>5. \A h \in Hosts : mine'[h] \in {0, mine[h]} /\ (mine'[h] = 0 <=> phase'[h] = "down")
  BY <1>1, <1>2, <1>3 DEF TermsOK
<1> QED BY <1>2, <1>4, <1>5, EndKeeps

-----------------------------------------------------------------------------
(* The record of a task after a step that keeps what it is about.           *)

\* u stands for the same request as t.
SameRequest(t, u) ==
  /\ u.does = t.does /\ u.host = t.host /\ u.awaited = t.awaited
  /\ u.awaited => u.epoch = t.epoch /\ u.op = t.op
  /\ u.does \in AgentDoes => u.op = t.op /\ u.exec = t.exec /\ u.status = t.status
  /\ t.pc # "idle"

LEMMA SameRequestOK ==
  ASSUME NEW t, NEW u, TaskOK(t), SameRequest(t, u)
  PROVE  RequestOK(u) /\ OnHost(u) /\ AwaitedOK(u)
<1>1. RequestOK(t) /\ OnHost(t) /\ AwaitedOK(t)
  BY DEF TaskOK
<1>2. RequestOK(u)
  BY <1>1 DEF RequestOK, SameRequest, AgentDoes
<1>3. OnHost(u)
  BY <1>1 DEF OnHost, SameRequest
<1>4. AwaitedOK(u)
  BY <1>1 DEF AwaitedOK, SameRequest
<1> QED BY <1>2, <1>3, <1>4

\* A quiet step of a task: only what the task has in hand changes, and what its
\* Host has seen.
Quiet(w, t) ==
  /\ SetTask(w, t) /\ HostsKept /\ HostFrame /\ UNCHANGED journal
  /\ seen' \in [Hosts -> 0 .. length] /\ faults' \in 0 .. MaxFaults

LEMMA QuietKeeps ==
  ASSUME OperationInv, NEW w \in Workers, NEW t \in Tasks, Quiet(w, t), MayBecome(w, t), TaskOK(t)
  PROVE  OperationInv'
<1>1. JournalStep
  BY Unwritten DEF Quiet
<1>2. UNCHANGED <<driver, term, mine, phase, agent, ledger, performed, late>>
  BY DEF Quiet, HostFrame, HostsKept, target, history
<1>3. HostKept(t) /\ HistoryKept(t)
  BY <1>2 DEF HostKept, HistoryKept
<1>4. AgentKept(t)
  BY <1>2 DEF AgentKept, TaskOK, AwaitedOK
<1>5. TaskOK(t)'
  BY <1>1, <1>2, <1>3, <1>4, LedgerSame, TaskKept DEF JournalStep
<1> QED BY <1>1, <1>5, MoveKeeps DEF Quiet

\* A quiet step of a task that goes on with the same request.
LEMMA QuietStep ==
  ASSUME OperationInv, NEW w \in Workers, NEW u \in Tasks, Quiet(w, u),
         SameRequest(task[w], u), EventOK(u), PointOK(u), StepOK(u), ExecutionOK(u),
         u.pc \in ExecPcs => task[w].pc \in ExecPcs /\ task[w].op = u.op,
         task[w].pc = "auth" => task[w].epoch = epoch
  PROVE  OperationInv'
<1>1. TaskOK(task[w]) /\ Alone
  BY DEF OperationInv, TasksOK
<1>2. TaskOK(u)
  BY <1>1, SameRequestOK DEF TaskOK
<1>3. MayBecome(w, u)
  BY <1>1 DEF MayBecome, Alone, SameRequest
<1> QED BY <1>2, <1>3, QuietKeeps
\* u differs from t only in where it is in the append pipeline.
SameWork(t, u) ==
  /\ u.does = t.does /\ u.host = t.host /\ u.awaited = t.awaited /\ u.op = t.op /\ u.key = t.key
  /\ u.epoch = t.epoch /\ u.exec = t.exec /\ u.status = t.status /\ u.claim = t.claim
  /\ u.step = t.step /\ u.out = t.out

\* The task that Propose leaves.
Proposal(t, e, await, then, retry, u) ==
  /\ SameWork(t, u) /\ u.event = e /\ u.then = then /\ u.retry = retry
  /\ u.pc = IF await /\ e.kind # "record" THEN "owner"
            ELSE IF await \/ Preemption THEN "base"
            ELSE IF e.kind = "record" THEN "check" ELSE "append"
  /\ u.base = IF await \/ Preemption THEN 0 ELSE length

LEMMA Proposes ==
  ASSUME Typed, NEW w, NEW t \in Tasks, NEW e \in Events, NEW await \in BOOLEAN,
         NEW then \in Pcs, NEW retry \in Pcs, Propose(w, t, e, await, then, retry)
  PROVE  \E u \in Tasks : SetTask(w, u) /\ Proposal(t, e, await, then, retry, u)
<1> DEFINE reads == ~await /\ ~Preemption
           next == IF e.kind = "record" THEN "check" ELSE "append"
           pc == IF await /\ e.kind # "record" THEN "owner" ELSE IF reads THEN next ELSE "base"
           base == IF reads THEN length ELSE 0
           u == [t EXCEPT !.event = e, !.then = then, !.retry = retry, !.pc = pc, !.base = base]
<1>1. SetTask(w, u)
  BY DEF Propose
<1>2. pc \in Pcs /\ base \in Nat
  BY DEF Pcs, Piped, Typed
<1>3. pc = (IF await /\ e.kind # "record" THEN "owner"
            ELSE IF await \/ Preemption THEN "base"
            ELSE IF e.kind = "record" THEN "check" ELSE "append")
      /\ base = IF await \/ Preemption THEN 0 ELSE length
  BY ConstantFacts
<1> HIDE DEF pc, base
<1>4. u \in Tasks
  BY <1>2 DEF Tasks
<1>5. SameWork(t, u) /\ u.event = e /\ u.then = then /\ u.retry = retry /\ u.pc = pc /\ u.base = base
  BY DEF Tasks, SameWork
<1> HIDE DEF u
<1>6. Proposal(t, e, await, then, retry, u)
  BY <1>3, <1>5 DEF Proposal
<1> QED BY <1>1, <1>4, <1>6

\* A task that goes on, or stays, in the append pipeline.
LEMMA PipedStep ==
  ASSUME OperationInv, NEW w \in Workers, NEW u \in Tasks, Quiet(w, u), SameWork(task[w], u),
         task[w].pc \notin {"idle", "auth"}, u.pc \in Piped, StepOK(u),
         (Fencing(u) /\ FencesFor(u)) \/ Claiming(u) \/ Recording(u)
  PROVE  OperationInv'
<1> DEFINE t == task[w]
<1>1. TaskOK(t) /\ t \in Tasks
  BY DEF OperationInv, TasksOK, Typed
<1> HIDE DEF t
<1>2. SameWork(t, u) /\ t.pc \notin {"idle", "auth"}
  BY DEF t
<1>3. EventOK(u)
  BY DEF EventOK, Piped
<1>4. PointOK(u)
  BY <1>1, <1>2 DEF TaskOK, PointOK, SameWork, Piped, ExecPcs, IdleTask
<1>5. ExecutionOK(u)
  BY <1>1, <1>2 DEF TaskOK, ExecutionOK, SameWork, Piped, ExecPcs
<1>6. SameRequest(t, u)
  BY <1>2 DEF SameRequest, SameWork
<1>7. u.pc \notin ExecPcs
  BY DEF Piped, ExecPcs
<1> QED BY <1>2, <1>3, <1>4, <1>5, <1>6, <1>7, QuietStep DEF t

LEMMA QuietFrame ==
  ASSUME OperationInv, NEW w, NEW t, SetTask(w, t), UNCHANGED <<hosts, agent>>,
         UNCHANGED <<journal, driver, target, ledger, past, history>>,
         (\E h : Sync(h)) \/ UNCHANGED seen, UNCHANGED faults \/ Fault
  PROVE  Quiet(w, t)
<1>1. Typed
  BY DEF OperationInv
<1>2. seen' \in [Hosts -> 0 .. length] /\ faults' \in 0 .. MaxFaults
  BY <1>1, SyncTypes
<1>3. HostsKept
  BY <1>1 DEF HostsKept, hosts, Typed
<1> QED BY <1>2, <1>3 DEF Quiet, HostFrame

\* A task that fails and leaves the journal as it is.
LEMMA QuietFails ==
  ASSUME OperationInv, NEW w \in Workers, task[w].pc # "idle", Fails(w),
         UNCHANGED <<journal, driver, target, ledger, past, history>>,
         (\E h : Sync(h)) \/ UNCHANGED seen, UNCHANGED faults \/ Fault
  PROVE  OperationInv'
<1>1. Typed
  BY DEF OperationInv
<1>2. seen' \in [Hosts -> 0 .. length] /\ faults' \in 0 .. MaxFaults
  BY <1>1, SyncTypes
<1>3. HostFrame /\ UNCHANGED journal
  BY DEF HostFrame
<1>4. JournalStep
  BY <1>2, <1>3, Unwritten
<1> QED BY <1>3, <1>4, FailsKeeps

LEMMA QuietFinishes ==
  ASSUME OperationInv, NEW w \in Workers, task[w].pc # "idle", NEW o, NEW r, Finishes(w, o, r),
         MayAnswer(w, TRUE, o, r),
         UNCHANGED <<journal, driver, target, ledger, past, history>>,
         (\E h : Sync(h)) \/ UNCHANGED seen, UNCHANGED faults
  PROVE  OperationInv'
<1>1. Typed
  BY DEF OperationInv
<1>2. seen' \in [Hosts -> 0 .. length] /\ faults' \in 0 .. MaxFaults
  BY <1>1, SyncTypes
<1>3. HostFrame /\ UNCHANGED journal
  BY DEF HostFrame
<1>4. JournalStep
  BY <1>2, <1>3, Unwritten
<1> QED BY <1>3, <1>4, FinishesKeeps
LEMMA Moved ==
  ASSUME NEW t \in Tasks, NEW p \in Pcs
  PROVE  \E u \in Tasks : /\ u = [t EXCEPT !.pc = p] /\ SameWork(t, u) /\ u.pc = p
                          /\ u.event = t.event /\ u.then = t.then /\ u.retry = t.retry
                          /\ u.base = t.base
<1> DEFINE u == [t EXCEPT !.pc = p]
<1>1. u \in Tasks
  BY DEF Tasks
<1>2. SameWork(t, u) /\ u.pc = p
      /\ u.event = t.event /\ u.then = t.then /\ u.retry = t.retry /\ u.base = t.base
  BY DEF Tasks, SameWork
<1> QED BY <1>1, <1>2

LEMMA HostFenceKeeps ==
  ASSUME OperationInv, NEW w \in Workers, HostFence(w)
  PROVE  OperationInv'
<1> DEFINE t == task[w]
           h == task[w].host
<1>1. TaskOK(t) /\ t \in Tasks /\ t.pc = "fence" /\ Typed
  BY DEF OperationInv, TasksOK, Typed, HostFence, At
<1>2. FencesFor(t) /\ t.event = NoEvent /\ t.step = 1 /\ t.out # "succeeded"
  BY <1>1 DEF TaskOK, EventOK, StepOK, Piped, ExecPcs
<1>3. UNCHANGED <<journal, driver, target, ledger, past, history, faults>>
  BY DEF HostFence
<1>4. CASE Fails(w) /\ UNCHANGED seen
  BY <1>1, <1>3, <1>4, QuietFails
<1>5. CASE Goto(w, t.then) /\ Sync(h) /\ UNCHANGED <<hosts, agent>>
  <2>1. t.then \in Pcs /\ SetTask(w, [t EXCEPT !.pc = t.then])
    BY <1>1, <1>5 DEF Tasks, Goto
  <2>2. PICK u \in Tasks : /\ u = [t EXCEPT !.pc = t.then] /\ SameWork(t, u) /\ u.pc = t.then
                           /\ u.event = t.event /\ u.then = t.then /\ u.retry = t.retry
                           /\ u.base = t.base
    BY <1>1, <2>1, Moved
  <2>3. Quiet(w, u)
    BY <1>3, <1>5, <2>1, <2>2, QuietFrame
  <2> HIDE DEF t
  <2>4. u.pc \in {"create", "target", "claim", "recover", "handle"}
    BY <1>2, <2>2 DEF FencesFor
  <2>5. EventOK(u)
    BY <1>2, <2>2, <2>4 DEF EventOK, Piped
  <2>6. PointOK(u)
    BY <1>1, <1>2, <2>2, <2>4 DEF TaskOK, PointOK, FencesFor, SameWork, HostDoes, AgentDoes, ExecPcs,
                                  IdleTask
  <2>7. StepOK(u)
    BY <1>2, <2>2 DEF StepOK, SameWork
  <2>8. ExecutionOK(u)
    BY <1>1, <2>2, <2>4 DEF TaskOK, ExecutionOK, SameWork, ExecPcs
  <2>9. SameRequest(t, u)
    BY <1>1, <2>2 DEF SameRequest, SameWork
  <2> QED BY <1>1, <2>3, <2>4, <2>5, <2>6, <2>7, <2>8, <2>9, QuietStep DEF t, ExecPcs
<1>6. CASE /\ Propose(w, t, FenceEvent(mine[h]), TRUE, t.then, "fence")
           /\ Sync(h) /\ UNCHANGED <<hosts, agent>>
  <2>1. h \in Hosts
    BY <1>1 DEF TaskOK, OnHost
  <2>2. FenceEvent(mine[h]) \in Events /\ FenceEvent(mine[h]).kind = "fence"
    BY <1>1, <2>1 DEF Typed, FenceEvent, Events, FenceEvents
  <2>3. t.then \in Pcs /\ "fence" \in Pcs
    BY <1>1 DEF Tasks, Pcs
  <2>4. PICK u \in Tasks :
          SetTask(w, u) /\ Proposal(t, FenceEvent(mine[h]), TRUE, t.then, "fence", u)
    BY <1>1, <1>6, <2>2, <2>3, Proposes
  <2>5. Quiet(w, u)
    BY <1>3, <1>6, <2>4, QuietFrame
  <2>6. SameWork(t, u) /\ u.event.kind = "fence" /\ u.then = t.then /\ u.retry = "fence"
        /\ u.pc = "owner"
    BY <2>2, <2>4 DEF Proposal
  <2>7. Fencing(u) /\ FencesFor(u)
    BY <1>2, <2>6 DEF Fencing, FencesFor, SameWork
  <2>8. StepOK(u)
    BY <1>2, <2>6 DEF StepOK, SameWork
  <2> QED BY <1>1, <2>5, <2>6, <2>7, <2>8, PipedStep DEF Piped
<1> QED BY <1>4, <1>5, <1>6 DEF HostFence

LEMMA CheckOwnerKeeps ==
  ASSUME OperationInv, NEW w \in Workers, CheckOwner(w)
  PROVE  OperationInv'
<1> DEFINE t == task[w]
<1>1. TaskOK(t) /\ t \in Tasks /\ t.pc = "owner" /\ Typed
  BY DEF OperationInv, TasksOK, Typed, CheckOwner, At
<1>2. UNCHANGED <<journal, driver, seen, target, ledger, past, history, faults>>
  BY DEF CheckOwner
<1>3. CASE Fails(w)
  BY <1>1, <1>2, <1>3, QuietFails
<1>4. CASE ~Fails(w)
  <2> DEFINE u == IF Preemption THEN [t EXCEPT !.pc = "base"]
                  ELSE [t EXCEPT !.pc = "append", !.base = seen[t.host]]
  <2>1. SetTask(w, u) /\ UNCHANGED <<hosts, agent>>
    BY <1>4 DEF CheckOwner
  <2>2. t.host \in Hosts
    BY <1>1 DEF TaskOK, OnHost
  <2>3. seen[t.host] \in Nat
    BY <1>1, <2>2 DEF Typed
  <2>4. u \in Tasks /\ SameWork(t, u) /\ u.event = t.event /\ u.then = t.then /\ u.retry = t.retry
        /\ u.pc \in {"base", "append"}
    <3>1. "base" \in Pcs /\ "append" \in Pcs
      BY DEF Pcs, Piped
    <3>2. CASE Preemption
      <4>1. u = [t EXCEPT !.pc = "base"]
        BY <3>2
      <4> QED BY <1>1, <3>1, <4>1, Moved
    <3>3. CASE ~Preemption
      <4>1. u = [t EXCEPT !.pc = "append", !.base = seen[t.host]]
        BY <3>3
      <4> HIDE DEF t, u
      <4>2. u \in Tasks
        BY <1>1, <2>3, <3>1, <4>1 DEF Tasks
      <4>3. SameWork(t, u) /\ u.event = t.event /\ u.then = t.then /\ u.retry = t.retry
            /\ u.pc = "append"
        BY <1>1, <4>1 DEF Tasks, SameWork
      <4> QED BY <4>2, <4>3
    <3> QED BY <3>2, <3>3
  <2>5. Quiet(w, u)
    BY <1>2, <2>1, QuietFrame
  <2> HIDE DEF t, u
  <2>6. (Fencing(t) /\ FencesFor(t)) \/ Claiming(t)
    BY <1>1 DEF TaskOK, EventOK, Piped, Recording
  <2>7. (Fencing(u) /\ FencesFor(u)) \/ Claiming(u)
    BY <2>4, <2>6 DEF Fencing, FencesFor, Claiming, SameWork
  <2>8. StepOK(u)
    <3>1. (t.step = 1 /\ t.out # "succeeded") \/ (t.does = "submit" /\ Completing(t))
      BY <1>1 DEF TaskOK, StepOK, ExecPcs
    <3> QED BY <2>4, <3>1 DEF StepOK, SameWork, Completing, Piped
  <2> QED BY <1>1, <2>4, <2>5, <2>7, <2>8, PipedStep DEF Piped, t
<1> QED BY <1>3, <1>4

LEMMA ReadBaseKeeps ==
  ASSUME OperationInv, NEW w \in Workers, ReadBase(w)
  PROVE  OperationInv'
<1> DEFINE t == task[w]
           u == [t EXCEPT !.base = seen[t.host],
                          !.pc = IF t.event.kind = "record" THEN "check" ELSE "append"]
<1>1. TaskOK(t) /\ t \in Tasks /\ t.pc = "base" /\ Typed
  BY DEF OperationInv, TasksOK, Typed, ReadBase, At
<1>2. UNCHANGED <<journal, driver, hosts, seen, target, agent, ledger, past, history, faults>>
      /\ SetTask(w, u)
  BY DEF ReadBase
<1>3. t.host \in Hosts
  BY <1>1 DEF TaskOK, OnHost
<1>4. seen[t.host] \in Nat
  BY <1>1, <1>3 DEF Typed
<1>5. u \in Tasks /\ SameWork(t, u) /\ u.event = t.event /\ u.then = t.then /\ u.retry = t.retry
      /\ u.pc = IF t.event.kind = "record" THEN "check" ELSE "append"
  <2>1. (IF t.event.kind = "record" THEN "check" ELSE "append") \in Pcs
    BY DEF Pcs, Piped
  <2> DEFINE p == IF t.event.kind = "record" THEN "check" ELSE "append"
  <2>2. u = [t EXCEPT !.base = seen[t.host], !.pc = p]
    OBVIOUS
  <2>3. p \in Pcs
    BY <2>1
  <2> HIDE DEF t, u, p
  <2>4. u \in Tasks
    BY <1>1, <1>4, <2>2, <2>3 DEF Tasks
  <2>5. SameWork(t, u) /\ u.event = t.event /\ u.then = t.then /\ u.retry = t.retry /\ u.pc = p
    BY <1>1, <2>2 DEF Tasks, SameWork
  <2> QED BY <2>4, <2>5 DEF p
<1>6. Quiet(w, u)
  BY <1>2, QuietFrame
<1> HIDE DEF t, u
<1>7. (Fencing(t) /\ FencesFor(t)) \/ Claiming(t) \/ Recording(t)
  BY <1>1 DEF TaskOK, EventOK, Piped
<1>8. (Fencing(u) /\ FencesFor(u)) \/ Claiming(u) \/ Recording(u)
  BY <1>5, <1>7 DEF Fencing, FencesFor, Claiming, SameWork, Recording, Creating, Advancing, Completing,
                    Expiring, Progressing, Reporting
<1>9. StepOK(u)
  <2>1. (t.step = 1 /\ t.out # "succeeded") \/ (t.does = "submit" /\ Completing(t))
    BY <1>1 DEF TaskOK, StepOK, ExecPcs
  <2> QED BY <1>5, <2>1 DEF StepOK, SameWork, Completing, Piped
<1> QED BY <1>1, <1>5, <1>6, <1>8, <1>9, PipedStep DEF Piped, t

LEMMA CheckAppendKeeps ==
  ASSUME OperationInv, NEW w \in Workers, CheckAppend(w)
  PROVE  OperationInv'
<1> DEFINE t == task[w]
<1>1. TaskOK(t) /\ t \in Tasks /\ t.pc = "check" /\ Typed
  BY DEF OperationInv, TasksOK, Typed, CheckAppend, At
<1>2. UNCHANGED <<journal, driver, target, ledger, past, history, faults>>
  BY DEF CheckAppend
<1>3. CASE Fails(w) /\ UNCHANGED seen
  BY <1>1, <1>2, <1>3, QuietFails
<1>4. CASE Goto(w, "append") /\ Sync(t.host) /\ UNCHANGED <<hosts, agent>>
  <2>1. PICK u \in Tasks : /\ u = [t EXCEPT !.pc = "append"] /\ SameWork(t, u) /\ u.pc = "append"
                           /\ u.event = t.event /\ u.then = t.then /\ u.retry = t.retry
                           /\ u.base = t.base
    BY SMTT(30), <1>1, Moved DEF Pcs, Piped
  <2>2. Quiet(w, u)
    BY <1>2, <1>4, <2>1, QuietFrame DEF Goto
  <2> HIDE DEF t
  <2>3. Recording(t)
    BY <1>1 DEF TaskOK, EventOK, Piped, Fencing, Claiming
  <2>4. Recording(u)
    BY <2>1, <2>3 DEF SameWork, Recording, Creating, Advancing, Completing,
                      Expiring, Progressing, Reporting
  <2>5. StepOK(u)
    <3>1. (t.step = 1 /\ t.out # "succeeded") \/ (t.does = "submit" /\ Completing(t))
      BY <1>1 DEF TaskOK, StepOK, ExecPcs
    <3> QED BY <2>1, <3>1 DEF StepOK, SameWork, Completing, Piped
  <2> QED BY <1>1, <2>1, <2>2, <2>4, <2>5, PipedStep DEF Piped, t
<1> QED BY <1>3, <1>4 DEF CheckAppend

LEMMA StoreErrorKeeps ==
  ASSUME OperationInv, NEW w \in Workers, StoreError(w)
  PROVE  OperationInv'
BY QuietFails DEF StoreError, Errs
-----------------------------------------------------------------------------
(* The append of an event.                                                 *)

LEMMA EventTypes ==
  ASSUME NEW e \in Events
  PROVE  /\ e.kind = "fence" => e.new \in 0 .. MaxTerm
         /\ e.kind = "claim" => e.op \in Operations /\ e.was \in Claims /\ e.new \in Claims
         /\ e.kind = "record" => e.op \in Operations /\ e.was \in Records /\ e.new \in Records
BY DEF Events, FenceEvents, ClaimEvents, RecordEvents, NoEvent

\* What an append does to the records.
Rewrites(e) ==
  \/ record' = record
  \/ /\ e.kind = "record" /\ RecordReplays(e) /\ record' = [record EXCEPT ![e.op] = e.new]

LEMMA AppendTypes ==
  ASSUME Typed, NEW e \in Events, AppendEvent(e)
  PROVE  TypedJournal' /\ length' = length + 1 /\ Rewrites(e)
<1>1. /\ record \in [Operations -> Records] /\ claim \in [Operations -> Claims]
      /\ fence \in 0 .. MaxTerm /\ length \in Nat /\ poisoned \in BOOLEAN
  BY DEF Typed
<1>2. CASE ~poisoned /\ Replays(e)
  <2>1. /\ fence' = IF e.kind = "fence" THEN e.new ELSE fence
        /\ claim' = IF e.kind = "claim" THEN [claim EXCEPT ![e.op] = e.new] ELSE claim
        /\ record' = IF e.kind = "record" THEN [record EXCEPT ![e.op] = e.new] ELSE record
        /\ poisoned' = poisoned /\ length' = length + 1
    BY <1>2 DEF AppendEvent
  <2>2. e.kind = "record" => RecordReplays(e)
    BY <1>2 DEF Replays
  <2>3. record' \in [Operations -> Records] /\ claim' \in [Operations -> Claims]
        /\ fence' \in 0 .. MaxTerm
    BY <1>1, <2>1, EventTypes
  <2> QED BY <1>1, <2>1, <2>2, <2>3 DEF TypedJournal, Rewrites
<1>3. CASE ~(~poisoned /\ Replays(e))
  <2>1. poisoned' = TRUE /\ UNCHANGED <<record, fence, claim>> /\ length' = length + 1
    BY <1>3 DEF AppendEvent
  <2> QED BY <1>1, <2>1 DEF TypedJournal, Rewrites
<1> QED BY <1>2, <1>3

\* What the event that a task appends says about the record it replaces.
LEMMA RewriteFacts ==
  ASSUME Typed, NEW t \in Tasks, TaskOK(t), t.pc = "append", t.event.kind = "record",
         NEW e, e = t.event, RecordReplays(e), NEW r, r = record[e.op]
  PROVE  /\ e.op \in Operations /\ e.new \in Records /\ r \in Records /\ e.was = r
         /\ Recording(t)
         /\ \/ /\ r.status = "none" /\ Creating(t) /\ t.key \in Keys /\ e.new.key = t.key
               /\ e.new.status = "requested" /\ e.new.exec = 0
            \/ /\ r.status # "none" /\ ~Creating(t) /\ e.new.key = r.key
               /\ ValidTransition(r, e.new)
<1>1. Recording(t)
  BY DEF TaskOK, EventOK, Piped, Fencing, Claiming
<1>2. e.op \in Operations /\ e.was \in Records /\ e.new \in Records /\ e \in Events
  BY EventTypes DEF Tasks
<1>3. r \in Records /\ e.was = r
  BY <1>2 DEF Typed, RecordReplays
<1>4. CASE r.status = "none"
  <2>1. Creating(t)
    BY <1>1, <1>3, <1>4 DEF Recording, Advancing, Completing, Expiring, Progressing, Reporting
  <2>2. t.key \in Keys /\ e.new.key = t.key
    BY <2>1 DEF Creating, TaskOK, PointOK
  <2>3. e.new.status = "requested" /\ e.new.exec = 0
    BY <1>4 DEF RecordReplays
  <2> QED BY <1>1, <1>2, <1>3, <1>4, <2>1, <2>2, <2>3
<1>5. CASE r.status # "none"
  <2>1. ~Creating(t)
    BY <1>3, <1>5 DEF Creating
  <2>2. e.new.key = r.key
    BY <1>1, <1>3, <2>1 DEF Recording, Advancing, Completing, Expiring, Progressing, Reporting
  <2>3. ValidTransition(r, e.new)
    BY <1>5 DEF RecordReplays
  <2> QED BY <1>1, <1>2, <1>3, <1>5, <2>1, <2>2, <2>3
<1> QED BY <1>4, <1>5
LEMMA AppendGrows ==
  ASSUME OperationInv, NEW w \in Workers, At(w, "append"), AppendEvent(task[w].event)
  PROVE  JournalGrows
<1> DEFINE t == task[w]
           e == task[w].event
<1>1. t \in Tasks /\ TaskOK(t) /\ t.pc = "append" /\ Typed /\ e \in Events
  BY DEF OperationInv, Typed, TasksOK, At, Tasks
<1>2. Rewrites(e)
  BY <1>1, AppendTypes
<1>3. CASE record' = record
  BY <1>3 DEF JournalGrows, Created
<1>4. CASE e.kind = "record" /\ RecordReplays(e) /\ record' = [record EXCEPT ![e.op] = e.new]
  <2> DEFINE r == record[e.op]
  <2>1. /\ e.op \in Operations /\ e.new \in Records
        /\ \/ r.status = "none" /\ e.new.status = "requested"
           \/ r.status # "none" /\ e.new.key = r.key /\ ValidTransition(r, e.new)
    BY <1>1, <1>4, RewriteFacts
  <2>2. /\ r.status # "none" => e.new.key = r.key /\ e.new.status # "none"
        /\ r.status \in Started => e.new.status \in Started
    BY <2>1 DEF ValidTransition, Started, Outcomes
  <2>3. record \in [Operations -> Records]
    BY <1>1 DEF Typed
  <2>4. record'[e.op] = e.new /\ \A o \in Operations \ {e.op} : record'[o] = record[o]
    BY <1>4, <2>1, <2>3
  <2> QED BY <2>2, <2>4 DEF JournalGrows, Created
<1> QED BY <1>2, <1>3, <1>4 DEF Rewrites

LEMMA AppendDurable ==
  ASSUME OperationInv, NEW w \in Workers, At(w, "append"), AppendEvent(task[w].event),
         UNCHANGED <<driver, ledger, history>>
  PROVE  Durable'
<1> DEFINE t == task[w]
           e == task[w].event
<1>1. t \in Tasks /\ TaskOK(t) /\ t.pc = "append" /\ Typed /\ e \in Events /\ Durable
  BY DEF OperationInv, Typed, TasksOK, At, Tasks, Durable
<1>2. Rewrites(e) /\ JournalGrows
  BY <1>1, AppendTypes, AppendGrows
<1>3. UNCHANGED <<driver, ledger, performed, late>>
  BY DEF history
<1>4. CASE record' = record
  BY <1>1, <1>4, DurableKept
<1>5. CASE e.kind = "record" /\ RecordReplays(e) /\ record' = [record EXCEPT ![e.op] = e.new]
  <2> DEFINE r == record[e.op]
             n == e.new
  <2>0. PICK x : x = e.op
    OBVIOUS
  <2>1. /\ x \in Operations /\ n \in Records /\ r \in Records /\ e.was = r /\ Recording(t)
        /\ \/ /\ r.status = "none" /\ Creating(t) /\ t.key \in Keys /\ n.key = t.key
              /\ n.status = "requested" /\ n.exec = 0
           \/ /\ r.status # "none" /\ ~Creating(t) /\ n.key = r.key /\ ValidTransition(r, n)
    BY <1>1, <1>5, <2>0, RewriteFacts
  <2>2. record \in [Operations -> Records]
    BY <1>1 DEF Typed
  <2>3. record'[x] = n /\ \A o \in Operations \ {x} : record'[o] = record[o]
    BY <1>5, <2>0, <2>1, <2>2
  <2>4. RequestOK(t) /\ ExecutionOK(t)
    BY <1>1 DEF TaskOK
  <2>5. e.was = t.event.was /\ n = t.event.new /\ x = t.event.op
    BY <2>0
  <2>6. r = record[x]
    BY <2>0
  <2> HIDE DEF t, e, r, n
  <2>7. \A o \in Operations \ {x} : RemoteOp(o)' <=> RemoteOp(o)
    BY <1>3, <2>3 DEF RemoteOp, Created, Local
  <2>8. r.status # "none" => (RemoteOp(x)' <=> RemoteOp(x))
    <3>1. r.status # "none" => n.status # "none" /\ n.key = r.key
      BY <2>1 DEF ValidTransition
    <3> QED BY <1>3, <2>1, <2>3, <2>6, <3>1 DEF RemoteOp, Created, Local
  <2>9. \A o, k : Done(o, k)' <=> Done(o, k)
    BY <1>3 DEF Done
  <2>10. RecordsOK /\ LedgerOK /\ EffectsOK /\ ReceiptsAgree
    BY <1>1 DEF Durable
  <2>11. RemoteOp(x)' /\ n.exec # 0 => n.exec = ledger[x].exec
    <3>1. CASE r.status = "none"
      BY <2>1, <3>1
    <3>2. CASE r.status # "none" /\ RemoteOp(x)' /\ n.exec # 0
      <4>1. RemoteOp(x)
        BY <2>8, <3>2
      <4>2. ~Advancing(t) /\ ~Completing(t)
        BY <2>5, <4>1 DEF Advancing, Completing, LocalOp, RemoteOp
      <4>3. ~Creating(t)
        BY <2>1, <3>2
      <4>4. CASE Expiring(t)
        BY <2>1, <2>5, <3>2, <4>4 DEF Expiring, ValidTransition
      <4>5. CASE Progressing(t)
        BY <2>4, <2>5, <4>5 DEF Progressing, RequestOK
      <4>6. CASE Reporting(t)
        <5>1. n.exec = r.exec
          BY <2>1, <2>5, <4>6 DEF Reporting
        <5> QED BY <2>1, <2>6, <2>10, <3>2, <4>1, <5>1 DEF RecordsOK
      <4> QED BY <2>1, <4>2, <4>3, <4>4, <4>5, <4>6 DEF Recording
    <3> QED BY <3>1, <3>2
  <2>12. n.status \in Outcomes =>
           \/ LocalOp(x) /\ Completing(t)
           \/ RemoteOp(x) /\ Reporting(t) /\ r.exec # 0 /\ n.exec = r.exec
    <3> SUFFICES ASSUME n.status \in Outcomes
                 PROVE  \/ LocalOp(x) /\ Completing(t)
                        \/ RemoteOp(x) /\ Reporting(t) /\ r.exec # 0 /\ n.exec = r.exec
      OBVIOUS
    <3>1. ~Creating(t) /\ ValidTransition(r, n)
      BY <2>1 DEF Outcomes
    <3>2. ~Advancing(t) /\ ~Expiring(t)
      BY <2>5 DEF Advancing, Expiring, Outcomes
    <3>3. ~Progressing(t)
      BY <2>4, <2>5 DEF Progressing, RequestOK, Outcomes
    <3>4. CASE Completing(t)
      BY <2>5, <3>4 DEF Completing
    <3>5. CASE Reporting(t)
      <4>1. RemoteOp(x)
        BY <2>4, <2>5, <3>5 DEF Reporting, RequestOK
      <4>2. r.exec # 0 /\ n.exec = r.exec
        BY <3>1 DEF ValidTransition, Outcomes
      <4> QED BY <3>5, <4>1, <4>2
    <3> QED BY <2>1, <3>1, <3>2, <3>3, <3>4, <3>5 DEF Recording
  <2>13. n.status \in Outcomes /\ RemoteOp(x) =>
           n.status = ledger[x].status /\ n.exec = ledger[x].exec
    <3> SUFFICES ASSUME n.status \in Outcomes, RemoteOp(x)
                 PROVE  n.status = ledger[x].status /\ n.exec = ledger[x].exec
      OBVIOUS
    <3>1. Reporting(t) /\ r.exec # 0 /\ n.exec = r.exec
      BY <2>12 DEF LocalOp, RemoteOp
    <3> QED BY <2>1, <2>4, <2>5, <2>6, <2>10, <3>1 DEF Reporting, RequestOK, RecordsOK
  <2>14. RecordsOK'
    <3> SUFFICES ASSUME NEW o \in Operations
                 PROVE  /\ record'[o].status # "none" => record'[o].key \in Keys
                        /\ record'[o].status = "requested" => record'[o].exec = 0
                        /\ record'[o].status \in {"accepted", "running"} => record'[o].exec # 0
                        /\ RemoteOp(o)' /\ record'[o].exec # 0 => record'[o].exec = ledger'[o].exec
      BY DEF RecordsOK
    <3>1. CASE o # x
      BY <1>3, <2>3, <2>7, <2>10, <3>1 DEF RecordsOK
    <3>2. CASE o = x
      BY <1>3, <2>1, <2>3, <2>6, <2>10, <2>11, <3>2 DEF RecordsOK, ValidTransition
    <3> QED BY <3>1, <3>2
  <2>15. LedgerOK'
    <3>1. \A o : RemoteOp(o) => RemoteOp(o)'
      BY <1>2, <1>3, OpsKept
    <3> QED BY <1>3, <2>10, <3>1 DEF LedgerOK
  <2>16. EffectsOK'
    <3> SUFFICES ASSUME NEW o \in Operations
                 PROVE  /\ late'[o] <= 1 /\ \A i \in 1 .. Steps : performed'[o][i] <= 1
                        /\ record'[o].status \notin Started => Done(o, 0)' /\ late'[o] = 0
                        /\ RemoteOp(o)' /\ ledger'[o].status \in {"none", "accepted"} =>
                             Done(o, 0)' /\ late'[o] = 0
                        /\ record'[o].status = "succeeded" => Done(o, Steps)'
                        /\ ledger'[o].status = "succeeded" => Done(o, Steps)'
      BY DEF EffectsOK
    <3>1. record'[o].status \notin Started => record[o].status \notin Started
      BY <1>2 DEF JournalGrows
    <3>2. RemoteOp(o)' => RemoteOp(o) \/ record[o].status \notin Started
      BY <2>6, <2>7, <2>8 DEF Started, Outcomes
    <3>3. record'[o].status = "succeeded" => Done(o, Steps)
      <4>1. CASE o # x
        BY <2>3, <2>10, <4>1 DEF EffectsOK
      <4>2. CASE o = x /\ n.status = "succeeded"
        <5>1. CASE LocalOp(x) /\ Completing(t)
          BY <2>4, <2>5, <4>2, <5>1 DEF Completing, ExecutionOK
        <5>2. CASE RemoteOp(x)
          BY <2>1, <2>10, <2>13, <4>2, <5>2 DEF EffectsOK, Outcomes
        <5> QED BY <2>12, <4>2, <5>1, <5>2 DEF Outcomes
      <4> QED BY <2>3, <4>1, <4>2
    <3> QED BY <1>3, <2>9, <2>10, <3>1, <3>2, <3>3 DEF EffectsOK
  <2>17. ReceiptsAgree'
    <3> SUFFICES ASSUME NEW o \in Operations, RemoteOp(o)', record'[o].status \in Outcomes
                 PROVE  ledger'[o] = [status |-> record'[o].status, exec |-> record'[o].exec]
      BY DEF ReceiptsAgree, RemoteOp, Created, Terminal, Outcomes
    <3>1. CASE o # x
      BY <1>3, <2>3, <2>7, <2>10, <3>1 DEF ReceiptsAgree, RemoteOp, Terminal, Outcomes
    <3>2. CASE o = x
      <4>1. n.status \in Outcomes /\ RemoteOp(x)
        BY <2>1, <2>3, <2>8, <3>2 DEF Outcomes
      <4>2. ledger[x] \in [status : Statuses, exec : 0 .. MaxEpoch]
        BY <1>1, <2>1 DEF Typed
      <4> QED BY <1>3, <2>3, <2>13, <3>2, <4>1, <4>2
    <3> QED BY <3>1, <3>2
  <2> QED BY <2>14, <2>15, <2>16, <2>17 DEF Durable
<1> QED BY <1>2, <1>4, <1>5 DEF Rewrites
LEMMA AppendedFields ==
  ASSUME NEW t \in Tasks
  PROVE  \E u \in Tasks :
           /\ u = Appended(t) /\ u.pc = t.then /\ u.event = NoEvent /\ u.base = 0
           /\ u.does = t.does /\ u.host = t.host /\ u.awaited = t.awaited /\ u.op = t.op
           /\ u.key = t.key /\ u.epoch = t.epoch /\ u.exec = t.exec /\ u.status = t.status
           /\ u.then = t.then /\ u.retry = t.retry /\ u.step = t.step /\ u.out = t.out
           /\ u.claim = IF t.event.kind = "claim" THEN t.event.new ELSE t.claim
<1> DEFINE u == Appended(t)
           c == IF t.event.kind = "claim" THEN t.event.new ELSE t.claim
<1>1. c \in Claims
  BY EventTypes DEF Tasks
<1>2. u = [t EXCEPT !.pc = t.then, !.event = NoEvent, !.base = 0, !.claim = c]
  BY DEF Appended
<1>3. NoEvent \in Events /\ t.then \in Pcs
  BY RecordTypes DEF Tasks
<1> HIDE DEF c, u
<1>4. u \in Tasks
  BY <1>1, <1>2, <1>3 DEF Tasks
<1>5. /\ u.pc = t.then /\ u.event = NoEvent /\ u.base = 0
      /\ u.does = t.does /\ u.host = t.host /\ u.awaited = t.awaited /\ u.op = t.op
      /\ u.key = t.key /\ u.epoch = t.epoch /\ u.exec = t.exec /\ u.status = t.status
      /\ u.then = t.then /\ u.retry = t.retry /\ u.step = t.step /\ u.out = t.out
      /\ u.claim = c
  BY <1>2 DEF Tasks
<1> QED BY <1>4, <1>5 DEF c, u

\* A task goes on after its event, which it finds in the journal.
LEMMA AppendedOK ==
  ASSUME OperationInv, NEW w \in Workers, At(w, "append"), AppendEvent(task[w].event), ~poisoned',
         task[w].then # "done", SetTask(w, Appended(task[w])), UNCHANGED <<hosts, agent>>, HostFrame,
         JournalStep
  PROVE  OperationInv'
<1>0. PICK t : t = task[w]
  OBVIOUS
<1>1. t \in Tasks /\ TaskOK(t) /\ t.pc = "append" /\ Typed /\ t.event \in Events /\ EffectsOK
  BY <1>0 DEF OperationInv, Typed, TasksOK, At, Tasks
<1>2. PICK u \in Tasks :
        /\ u = Appended(t) /\ u.pc = t.then /\ u.event = NoEvent /\ u.base = 0
        /\ u.does = t.does /\ u.host = t.host /\ u.awaited = t.awaited /\ u.op = t.op
        /\ u.key = t.key /\ u.epoch = t.epoch /\ u.exec = t.exec /\ u.status = t.status
        /\ u.step = t.step /\ u.out = t.out
  BY <1>1, AppendedFields
<1>3. UNCHANGED <<driver, term, mine, phase, agent, ledger, performed, late>> /\ JournalGrows
  BY DEF HostFrame, hosts, target, history, JournalStep
<1>4. Replays(t.event) /\ (t.event.kind = "record" => record' = [record EXCEPT ![t.event.op] = t.event.new])
  BY <1>0 DEF AppendEvent
<1>5. t.event.kind = "record" => RecordReplays(t.event)
  BY <1>4 DEF Replays
<1>6. \A o : LocalOp(o) => LocalOp(o)'
  BY <1>3, OpsKept
<1>7. TaskOK(t)'
  <2>1. HostKept(t) /\ HistoryKept(t)
    BY <1>3 DEF HostKept, HistoryKept
  <2>2. AgentKept(t)
    BY <1>1, <1>3 DEF AgentKept, TaskOK, AwaitedOK
  <2> QED BY <1>1, <1>3, <2>1, <2>2, LedgerSame, TaskKept
<1>8. \/ FencesFor(t) /\ t.step = 1
      \/ Claiming(t) /\ t.step = 1
      \/ t.event.kind = "record" /\ Creating(t) /\ t.step = 1
      \/ t.event.kind = "record" /\ Advancing(t) /\ t.step = 1
      \/ Completing(t)
      \/ Expiring(t) /\ t.step = 1
  <2>1. t.step = 1 \/ Completing(t)
    BY <1>1 DEF TaskOK, StepOK, ExecPcs
  <2>2. ~Progressing(t) /\ ~Reporting(t)
    BY <1>0 DEF Progressing, Reporting
  <2> QED BY <1>1, <2>1, <2>2 DEF TaskOK, EventOK, Piped, Recording
<1>9. /\ u.pc \in {"create", "target", "claim", "recover", "handle", "resolve", "lock", "advance", "enter"}
      /\ u.pc \in {"create", "target", "lock", "advance", "enter"} => u.does = "submit"
      /\ u.pc \in {"claim", "resolve"} => u.does \in HostDoes
      /\ u.pc = "recover" => u.does = "boot"
      /\ u.pc = "handle" => u.does \in AgentDoes
      /\ u.pc \in {"claim", "resolve", "advance", "enter"} => LocalOp(u.op)
      /\ u.pc = "advance" => u.status \in {"accepted", "running"}
      /\ u.pc \in {"resolve", "enter", "advance"} => u.step = 1
      /\ u.step = 1 \/ u.pc = "recover"
  BY <1>0, <1>2, <1>8 DEF FencesFor, Claiming, Creating, Advancing, Completing, Expiring, HostDoes,
                          AgentDoes
<1>10. u.pc = "lock" => LocalOp(u.op)'
  <2> SUFFICES ASSUME u.pc = "lock" PROVE LocalOp(u.op)'
    OBVIOUS
  <2>1. t.event.kind = "record" /\ Creating(t) /\ driver[t.key] = "local"
    BY <1>2, <1>8 DEF FencesFor, Claiming, Creating, Advancing, Completing, Expiring
  <2>2. t.event.op = t.op /\ t.event.op \in Operations /\ t.event.was.status = "none"
    BY <1>1, <2>1, EventTypes DEF Creating
  <2>3. t.event.new.status = "requested" /\ t.event.new.key = t.key
    BY <1>5, <2>1, <2>2 DEF RecordReplays, Creating
  <2>4. record'[t.op] = t.event.new
    BY <1>1, <1>4, <2>1, <2>2 DEF Typed
  <2> QED BY <1>2, <1>3, <2>1, <2>2, <2>3, <2>4 DEF LocalOp, Local, Created
<1>11. u.pc = "enter" =>
         /\ u.op \in Operations /\ record[u.op].status = "accepted" /\ record'[u.op].status = "running"
  <2> SUFFICES ASSUME u.pc = "enter"
               PROVE  u.op \in Operations /\ record[u.op].status = "accepted"
                      /\ record'[u.op].status = "running"
    OBVIOUS
  <2>1. t.event.kind = "record" /\ Advancing(t)
    BY <1>2, <1>8 DEF FencesFor, Claiming, Creating, Advancing, Completing, Expiring
  <2>2. t.event.new.status = "running" /\ t.event.op = t.op /\ t.op \in Operations
        /\ t.event.was.status \in {"requested", "accepted"}
    BY <1>1, <1>2, <2>1, EventTypes DEF Advancing
  <2>3. t.event.was = record[t.op] /\ ValidTransition(record[t.op], t.event.new)
    BY <1>5, <2>1, <2>2 DEF RecordReplays
  <2>4. record'[t.op] = t.event.new
    BY <1>1, <1>4, <2>1, <2>2 DEF Typed
  <2> QED BY <1>2, <2>2, <2>3, <2>4 DEF ValidTransition
<1>12. TaskOK(u)'
  <2>1. EventOK(u)'
    BY <1>2, <1>9 DEF EventOK, Piped, NoEvent, NoRecord
  <2>2. PointOK(u)'
    <3>1. t.does # "none" /\ (t.does = "submit" => t.key \in Keys) /\ (t.does = "boot" => t.out # "succeeded")
      BY <1>1 DEF TaskOK, PointOK
    <3>2. LocalOp(u.op) => LocalOp(u.op)'
      BY <1>6
    <3> QED BY <1>2, <1>9, <1>10, <3>1, <3>2 DEF PointOK, ExecPcs, IdleTask, HostDoes
  <2>3. RequestOK(u)'
    BY <1>2, <1>7 DEF TaskOK, RequestOK
  <2>4. OnHost(u)'
    BY <1>1, <1>2, <1>7, <1>9 DEF TaskOK, OnHost
  <2>5. StepOK(u)'
    <3>1. ~(t.does = "submit" /\ Completing(t))
      BY <1>0 DEF Completing
    <3> QED BY <1>1, <1>2, <3>1 DEF TaskOK, StepOK, ExecPcs
  <2>6. ExecutionOK(u)'
    <3>1. u.pc = "enter" => Done(u.op, 0)' /\ late'[u.op] = 0 /\ record'[u.op].status \in Started
      BY <1>1, <1>3, <1>11 DEF EffectsOK, Started, Outcomes, Done
    <3>2. u.out = "succeeded" => u.op \in Operations /\ Done(u.op, Steps)'
      BY <1>2, <1>7 DEF TaskOK, ExecutionOK
    <3> QED BY <1>9, <3>1, <3>2 DEF ExecutionOK, ExecPcs
  <2>7. AwaitedOK(u)'
    BY <1>2, <1>7 DEF TaskOK, AwaitedOK
  <2> QED BY <2>1, <2>2, <2>3, <2>4, <2>5, <2>6, <2>7 DEF TaskOK
<1>13. MayBecome(w, u)
  <2>1. u.pc \in ExecPcs => \A v \in Workers : ~(task[v].pc \in ExecPcs /\ task[v].op = u.op)
    <3>1. u.pc \in ExecPcs => u.pc = "enter"
      BY <1>9 DEF ExecPcs
    <3>2. \A v \in Workers : task[v].pc \in ExecPcs => record[task[v].op].status \in Started
      BY DEF OperationInv, TasksOK, TaskOK, ExecutionOK
    <3> QED BY <1>11, <3>1, <3>2 DEF Started, Outcomes
  <2> QED BY <1>0, <1>1, <1>2, <2>1 DEF MayBecome
<1>14. HostsKept
  BY <1>1 DEF HostsKept, hosts, Typed
<1> QED BY <1>0, <1>2, <1>12, <1>13, <1>14, MoveKeeps
LEMMA AppendKeeps ==
  ASSUME OperationInv, NEW w \in Workers, Append(w)
  PROVE  OperationInv'
<1> DEFINE t == task[w]
           h == task[w].host
<1>1. t \in Tasks /\ TaskOK(t) /\ t.pc = "append" /\ Typed /\ t.event \in Events /\ At(w, "append")
  BY DEF OperationInv, Typed, TasksOK, At, Tasks, Append
<1>2. HostFrame
  BY DEF Append, HostFrame
<1>3. CASE /\ t.base # length
           /\ SetTask(w, [t EXCEPT !.pc = t.retry, !.event = NoEvent, !.base = 0])
           /\ UNCHANGED <<journal, hosts, seen, agent, faults>>
  <2> DEFINE u == [t EXCEPT !.pc = t.retry, !.event = NoEvent, !.base = 0]
  <2>1. u \in Tasks
    BY <1>1, RecordTypes DEF Tasks
  <2>2. SameWork(t, u) /\ u.pc = t.retry /\ u.event = NoEvent /\ u.then = t.then
    BY <1>1 DEF Tasks, SameWork
  <2>3. Quiet(w, u)
    BY <1>2, <1>3, QuietFrame DEF HostFrame
  <2> HIDE DEF u, t
  <2>4. (Fencing(t) /\ FencesFor(t)) \/ Claiming(t) \/ Recording(t)
    BY <1>1 DEF TaskOK, EventOK, Piped
  <2>5. u.pc \in {"fence", "claim", "create", "advance", "complete", "handle"}
    BY <2>2, <2>4 DEF Fencing, Claiming, Recording, Creating, Advancing, Completing, Expiring,
                      Progressing, Reporting
  <2>6. EventOK(u)
    <3>1. u.pc = "fence" => FencesFor(t)
      BY <2>2, <2>4 DEF Fencing, Claiming, Recording, Creating, Advancing, Completing, Expiring,
                        Progressing, Reporting
    <3>2. FencesFor(t) => FencesFor(u)
      BY <2>2 DEF FencesFor, SameWork
    <3> QED BY <2>2, <2>5, <3>1, <3>2 DEF EventOK, Piped
  <2>7. PointOK(u)
    <3>1. /\ u.pc \in {"create", "advance"} => t.does = "submit"
          /\ u.pc \in {"claim", "complete"} => t.does \in HostDoes
          /\ u.pc = "handle" => t.does \in AgentDoes
          /\ u.pc \in {"claim", "advance", "complete"} => LocalOp(t.op)
          /\ u.pc = "advance" => t.status \in {"accepted", "running"}
          /\ u.pc = "complete" => t.out \in Outcomes
      BY <2>2, <2>4 DEF Fencing, Claiming, Recording, Creating, Advancing, Completing, Expiring,
                        Progressing, Reporting, AgentDoes
    <3> QED BY <1>1, <2>2, <2>5, <3>1 DEF TaskOK, PointOK, SameWork, ExecPcs, IdleTask
  <2>8. StepOK(u)
    BY <1>1, <2>2 DEF TaskOK, StepOK, SameWork, Completing, ExecPcs
  <2>9. ExecutionOK(u)
    BY <1>1, <2>2, <2>5 DEF TaskOK, ExecutionOK, SameWork, ExecPcs
  <2>10. SameRequest(t, u)
    BY <1>1, <2>2 DEF SameRequest, SameWork
  <2> QED BY <1>1, <2>1, <2>3, <2>5, <2>6, <2>7, <2>8, <2>9, <2>10, QuietStep DEF t, ExecPcs
<1>4. CASE t.base = length /\ AppendEvent(t.event)
  <2>1. JournalGrows /\ TypedJournal' /\ length' = length + 1 /\ Durable'
    BY <1>1, <1>2, <1>4, AppendGrows, AppendTypes, AppendDurable DEF HostFrame
  <2>2. h \in Hosts /\ length \in Nat /\ seen \in [Hosts -> 0 .. length]
        /\ faults \in 0 .. MaxFaults
    BY <1>1 DEF TaskOK, OnHost, Typed
  <2>3. seen' = seen \/ seen' = [seen EXCEPT ![h] = length + 1] => seen' \in [Hosts -> 0 .. length']
    BY <2>1, <2>2
  <2>4. UNCHANGED faults \/ Fault => faults' \in 0 .. MaxFaults
    BY <1>1, SyncTypes
  <2>5. CASE Fails(w) /\ UNCHANGED seen /\ (UNCHANGED faults \/ Fault)
    BY <1>1, <1>2, <2>1, <2>3, <2>4, <2>5, FailsKeeps DEF JournalStep
  <2>6. CASE ~poisoned' /\ seen' = [seen EXCEPT ![h] = length + 1] /\ UNCHANGED faults
    <3>1. JournalStep
      BY <2>1, <2>3, <2>4, <2>6 DEF JournalStep
    <3>2. CASE t.then = "done" /\ Finishes(w, t.op, t.event.new)
      <4>1. t.event.kind = "record" /\ (Creating(t) \/ Advancing(t) \/ Completing(t)
                                        \/ Progressing(t) \/ Reporting(t))
        BY <1>1, <3>2 DEF TaskOK, EventOK, Piped, Recording, FencesFor, Claiming, Expiring
      <4>2. /\ t.event.op = t.op /\ t.op \in Operations /\ t.event.new \in Records /\ t.does # "next"
        BY <1>1, <4>1, EventTypes DEF Creating, Advancing, Completing, Progressing, Reporting, HostDoes
      <4>3. record' = [record EXCEPT ![t.event.op] = t.event.new]
        BY <1>4, <2>6, <4>1 DEF AppendEvent
      <4>4. record'[t.op] = t.event.new
        BY <1>1, <4>2, <4>3 DEF Typed
      <4>5. MayAnswer(w, TRUE, t.op, t.event.new)
        BY <1>1, <4>2, <4>4 DEF MayAnswer, Started
      <4> QED BY <1>1, <1>2, <3>1, <3>2, <4>5, FinishesKeeps
    <3>3. CASE t.then # "done" /\ SetTask(w, Appended(t)) /\ UNCHANGED <<hosts, agent>>
      BY <1>1, <1>2, <1>4, <2>6, <3>1, <3>3, AppendedOK
    <3> QED BY <1>1, <1>4, <2>2, <2>6, <3>2, <3>3 DEF Append
  <2>7. \/ Fails(w) /\ UNCHANGED seen /\ (UNCHANGED faults \/ Fault)
        \/ ~poisoned' /\ seen' = [seen EXCEPT ![h] = length + 1] /\ UNCHANGED faults
    BY <1>4 DEF Append, Errs
  <2> QED BY <2>5, <2>6, <2>7
<1> QED BY <1>3, <1>4 DEF Append
-----------------------------------------------------------------------------
(* Creating and executing a local operation.                               *)

LEMMA SubmitKeeps ==
  ASSUME OperationInv, NEW w \in Workers, NEW h \in Hosts, NEW k \in Keys, Submit(w, h, k)
  PROVE  OperationInv'
<1> DEFINE next == IF driver[k] = "local" THEN "create" ELSE "target"
           u == [IdleTask EXCEPT !.pc = "fence", !.does = "submit", !.host = h, !.key = k, !.then = next]
<1>1. /\ SetTask(w, u) /\ phase[h] = "up"
      /\ UNCHANGED <<journal, driver, hosts, seen, target, agent, ledger, past, history, faults>>
  BY DEF Submit
<1>2. next \in {"create", "target"}
  OBVIOUS
<1> HIDE DEF next
<1>3. u \in Tasks
  BY <1>2, RecordTypes DEF Tasks, Pcs, HostDoes
<1>4. /\ u.pc = "fence" /\ u.does = "submit" /\ u.host = h /\ u.key = k /\ u.then = next
      /\ u.event = NoEvent /\ u.awaited = FALSE /\ u.step = 1 /\ u.out = "none"
  BY DEF IdleTask
<1>5. Quiet(w, u)
  BY <1>1, QuietFrame
<1> HIDE DEF u
<1>6. TaskOK(u)
  <2>1. EventOK(u) /\ PointOK(u)
    BY <1>2, <1>4 DEF EventOK, PointOK, FencesFor, Piped, ExecPcs, IdleTask
  <2>2. RequestOK(u) /\ OnHost(u) /\ StepOK(u) /\ ExecutionOK(u) /\ AwaitedOK(u)
    BY <1>1, <1>4 DEF RequestOK, OnHost, StepOK, ExecutionOK, AwaitedOK, ExecPcs
  <2> QED BY <2>1, <2>2 DEF TaskOK
<1>7. MayBecome(w, u)
  BY <1>4 DEF MayBecome, ExecPcs
<1> QED BY <1>3, <1>5, <1>6, <1>7, QuietKeeps

\* A step of a task that no agent awaits.
LEMMA HostWork ==
  ASSUME NEW t, TaskOK(t), t.does \in HostDoes, NEW u, u.does = t.does, u.host = t.host,
         u.awaited = t.awaited
  PROVE  SameRequest(t, u)
<1>1. t.awaited = TRUE => t.does \in AgentDoes
  BY DEF TaskOK, AwaitedOK
<1>2. t.pc # "idle"
  BY DEF TaskOK, PointOK, IdleTask, HostDoes
<1>3. t.does \notin AgentDoes
  BY DEF HostDoes, AgentDoes
<1> QED BY <1>1, <1>2, <1>3 DEF SameRequest, TaskOK, AwaitedOK

LEMMA ReadTargetKeeps ==
  ASSUME OperationInv, NEW w \in Workers, ReadTarget(w)
  PROVE  OperationInv'
<1> DEFINE t == task[w]
           u == [t EXCEPT !.pc = "create", !.epoch = epoch]
<1>1. TaskOK(t) /\ t \in Tasks /\ t.pc = "target" /\ Typed
  BY DEF OperationInv, TasksOK, Typed, ReadTarget, At
<1>2. UNCHANGED <<journal, driver, seen, target, ledger, past, history, faults>>
  BY DEF ReadTarget
<1>3. CASE Fails(w)
  BY <1>1, <1>2, <1>3, QuietFails
<1>4. CASE SetTask(w, u) /\ UNCHANGED <<hosts, agent>>
  <2>1. u \in Tasks
    <3>1. epoch \in 0 .. MaxEpoch
      BY <1>1, ConstantFacts DEF Typed
    <3> QED BY <1>1, <3>1 DEF Tasks, Pcs
  <2>2. /\ u.pc = "create" /\ u.does = t.does /\ u.host = t.host /\ u.awaited = t.awaited
        /\ u.event = t.event /\ u.key = t.key /\ u.step = t.step /\ u.out = t.out /\ u.op = t.op
    BY <1>1 DEF Tasks
  <2>3. Quiet(w, u)
    BY <1>2, <1>4, QuietFrame
  <2> HIDE DEF u, t
  <2>4. t.does = "submit"
    BY <1>1 DEF TaskOK, PointOK
  <2>5. SameRequest(t, u)
    BY <1>1, <2>2, <2>4, HostWork DEF HostDoes
  <2>6. EventOK(u) /\ PointOK(u)
    BY <1>1, <2>2, <2>4 DEF TaskOK, EventOK, PointOK, Piped, ExecPcs, IdleTask
  <2>7. StepOK(u) /\ ExecutionOK(u)
    BY <1>1, <2>2, <2>4 DEF TaskOK, StepOK, ExecutionOK, ExecPcs, Piped
  <2> QED BY <1>1, <2>1, <2>2, <2>3, <2>5, <2>6, <2>7, QuietStep DEF t, ExecPcs
<1> QED BY <1>3, <1>4 DEF ReadTarget

\* What a Host answers to a request that is not the agent's does not matter.
LEMMA NoAnswer ==
  ASSUME OperationInv, NEW w \in Workers, task[w].does \in HostDoes, NEW o, NEW r, Finishes(w, o, r)
  PROVE  Finishes(w, 0, NoRecord) /\ MayAnswer(w, TRUE, 0, NoRecord)
<1>1. ~task[w].awaited
  BY DEF OperationInv, TasksOK, TaskOK, AwaitedOK, HostDoes, AgentDoes
<1>2. task[w].pc # "auth"
  BY DEF OperationInv, TasksOK, TaskOK, PointOK, HostDoes, AgentDoes
<1>3. MayAnswer(w, TRUE, 0, NoRecord)
  BY <1>2, RecordTypes DEF MayAnswer
<1> QED BY <1>1, <1>3 DEF Finishes, Reply

LEMMA CreateKeeps ==
  ASSUME OperationInv, NEW w \in Workers, Create(w)
  PROVE  OperationInv'
<1> DEFINE t == task[w]
           new == [status |-> "requested", exec |-> 0, key |-> t.key, epoch |-> t.epoch]
           drive == IF driver[t.key] = "local" THEN "lock" ELSE "done"
<1>1. TaskOK(t) /\ t \in Tasks /\ t.pc = "create" /\ Typed /\ t.does = "submit" /\ t.key \in Keys
      /\ t.step = 1 /\ t.out # "succeeded"
  <2>1. TaskOK(t) /\ t \in Tasks /\ t.pc = "create" /\ Typed
    BY DEF OperationInv, TasksOK, Typed, Create, At
  <2> QED BY <2>1 DEF TaskOK, PointOK, StepOK, ExecPcs, Piped
<1>2. UNCHANGED <<journal, driver, target, ledger, past, history, faults>>
  BY DEF Create
<1>3. CASE Fails(w) /\ UNCHANGED seen
  BY <1>1, <1>2, <1>3, QuietFails
<1>4. CASE Sync(t.host) /\ \E o \in SameKey(t.key) :
             IF Local(o) /\ ~IsTerminal(o)
             THEN SetTask(w, [t EXCEPT !.pc = "lock", !.op = o]) /\ UNCHANGED <<hosts, agent>>
             ELSE Finishes(w, o, record[o])
  <2>1. PICK o \in SameKey(t.key) :
             IF Local(o) /\ ~IsTerminal(o)
             THEN SetTask(w, [t EXCEPT !.pc = "lock", !.op = o]) /\ UNCHANGED <<hosts, agent>>
             ELSE Finishes(w, o, record[o])
    BY <1>4
  <2>2. CASE Finishes(w, o, record[o])
    <3>1. Finishes(w, 0, NoRecord) /\ MayAnswer(w, TRUE, 0, NoRecord)
      BY <1>1, <2>2, NoAnswer DEF HostDoes
    <3> QED BY <1>1, <1>2, <1>4, <3>1, QuietFinishes
  <2>3. CASE Local(o) /\ SetTask(w, [t EXCEPT !.pc = "lock", !.op = o]) /\ UNCHANGED <<hosts, agent>>
    <3> DEFINE u == [t EXCEPT !.pc = "lock", !.op = o]
    <3>1. o \in Created /\ LocalOp(o) /\ o \in Operations
      BY <2>3 DEF SameKey, Created, LocalOp
    <3>2. u \in Tasks
      BY <1>1, <3>1 DEF Tasks, Pcs
    <3>3. /\ u.pc = "lock" /\ u.does = t.does /\ u.host = t.host /\ u.awaited = t.awaited
          /\ u.event = t.event /\ u.key = t.key /\ u.step = t.step /\ u.out = t.out /\ u.op = o
      BY <1>1 DEF Tasks
    <3>4. Quiet(w, u)
      BY <1>2, <1>4, <2>3, QuietFrame
    <3> HIDE DEF u, t
    <3>5. SameRequest(t, u)
      BY <1>1, <3>3, HostWork DEF HostDoes
    <3>6. EventOK(u) /\ PointOK(u)
      BY <1>1, <3>1, <3>3 DEF TaskOK, EventOK, PointOK, Piped, ExecPcs, IdleTask
    <3>7. StepOK(u) /\ ExecutionOK(u)
      BY <1>1, <3>3 DEF StepOK, ExecutionOK, ExecPcs
    <3> QED BY <1>1, <3>2, <3>3, <3>4, <3>5, <3>6, <3>7, QuietStep DEF t, ExecPcs
  <2> QED BY <2>1, <2>2, <2>3
<1>5. CASE /\ Sync(t.host) /\ UNCHANGED <<hosts, agent>>
           /\ \E o \in Operations \ Created :
                Propose(w, [t EXCEPT !.op = o], RecordEvent(o, new), FALSE, drive, "create")
  <2>1. PICK o \in Operations \ Created :
               Propose(w, [t EXCEPT !.op = o], RecordEvent(o, new), FALSE, drive, "create")
    BY <1>5
  <2> DEFINE v == [t EXCEPT !.op = o]
             e == RecordEvent(o, new)
  <2>2. new \in Records
    BY <1>1, ConstantFacts DEF Tasks, Records, Statuses, Execs
  <2>3. e \in Events /\ e.kind = "record" /\ e.op = o /\ e.was = record[o] /\ e.new = new
    BY <1>1, <2>2 DEF RecordEvent, Events, RecordEvents, Typed
  <2>4. e.was.status = "none" /\ e.new.key = t.key
    BY <2>3 DEF Created
  <2>5. v \in Tasks
    BY <1>1 DEF Tasks
  <2>6. /\ v.does = t.does /\ v.host = t.host /\ v.awaited = t.awaited /\ v.key = t.key
        /\ v.step = t.step /\ v.out = t.out /\ v.op = o
    BY <1>1 DEF Tasks
  <2>7. drive \in Pcs /\ "create" \in Pcs /\ drive = IF driver[t.key] = "local" THEN "lock" ELSE "done"
    BY DEF Pcs
  <2>8. Propose(w, v, e, FALSE, drive, "create")
    BY <2>1
  <2> HIDE DEF v, e, drive, new
  <2>9. PICK u \in Tasks : SetTask(w, u) /\ Proposal(v, e, FALSE, drive, "create", u)
    BY <1>1, <2>3, <2>5, <2>7, <2>8, Proposes
  <2>10. Quiet(w, u)
    BY <1>2, <1>5, <2>9, QuietFrame
  <2> HIDE DEF t
  <2>11. /\ u.does = t.does /\ u.host = t.host /\ u.awaited = t.awaited /\ u.key = t.key
         /\ u.step = t.step /\ u.out = t.out /\ u.op = o
         /\ u.event = e /\ u.then = drive /\ u.retry = "create" /\ u.pc \in {"base", "check"}
    BY <2>3, <2>6, <2>9 DEF Proposal, SameWork
  <2>12. Recording(u)
    BY <1>1, <2>3, <2>4, <2>7, <2>11 DEF Recording, Creating
  <2>13. SameRequest(t, u)
    BY <1>1, <2>11, HostWork DEF HostDoes
  <2>14. EventOK(u) /\ PointOK(u)
    BY <1>1, <2>11, <2>12 DEF EventOK, PointOK, Piped, ExecPcs, IdleTask
  <2>15. StepOK(u) /\ ExecutionOK(u)
    BY <1>1, <2>11 DEF StepOK, ExecutionOK, ExecPcs
  <2> QED BY <1>1, <2>10, <2>11, <2>13, <2>14, <2>15, QuietStep DEF t, ExecPcs
<1> QED BY <1>3, <1>4, <1>5 DEF Create
LEMMA LockExecutionKeeps ==
  ASSUME OperationInv, NEW w \in Workers, LockExecution(w)
  PROVE  OperationInv'
<1> DEFINE t == task[w]
           u == [t EXCEPT !.pc = "fence", !.then = "claim"]
<1>1. TaskOK(t) /\ t \in Tasks /\ t.pc = "lock" /\ Typed /\ t.does = "submit" /\ LocalOp(t.op)
  <2>1. TaskOK(t) /\ t \in Tasks /\ t.pc = "lock" /\ Typed
    BY DEF OperationInv, TasksOK, Typed, LockExecution, At
  <2> QED BY <2>1 DEF TaskOK, PointOK
<1>2. UNCHANGED <<journal, driver, target, ledger, past, history, faults>>
  BY DEF LockExecution
<1>3. CASE Fails(w) /\ UNCHANGED seen
  BY <1>1, <1>2, <1>3, QuietFails
<1>4. CASE Sync(t.host) /\ Finishes(w, t.op, record[t.op])
  <2>1. Finishes(w, 0, NoRecord) /\ MayAnswer(w, TRUE, 0, NoRecord)
    BY <1>1, <1>4, NoAnswer DEF HostDoes
  <2> QED BY <1>1, <1>2, <1>4, <2>1, QuietFinishes
<1>5. CASE /\ Sync(t.host) /\ executing' = [executing EXCEPT ![t.host][t.op] = w]
           /\ SetTask(w, u) /\ UNCHANGED <<term, mine, phase, agent>>
  <2>1. u \in Tasks
    BY <1>1 DEF Tasks, Pcs
  <2>2. SameWork(t, u) /\ u.pc = "fence" /\ u.then = "claim" /\ u.event = t.event
    BY <1>1 DEF Tasks, SameWork
  <2>3. executing' \in [Hosts -> [Operations -> Workers \cup {None}]]
    BY <1>1, <1>5 DEF Typed
  <2>4. Quiet(w, u)
    BY <1>1, <1>2, <1>5, <2>3, SyncTypes DEF Quiet, HostFrame, HostsKept
  <2> HIDE DEF t, u
  <2>5. SameRequest(t, u)
    BY <1>1, <2>2 DEF SameRequest, SameWork
  <2>6. EventOK(u) /\ PointOK(u)
    BY <1>1, <2>2 DEF TaskOK, EventOK, PointOK, FencesFor, SameWork, Piped, ExecPcs, IdleTask
  <2>7. StepOK(u) /\ ExecutionOK(u)
    BY <1>1, <2>2 DEF TaskOK, StepOK, ExecutionOK, SameWork, ExecPcs, Piped
  <2> QED BY <1>1, <2>1, <2>2, <2>4, <2>5, <2>6, <2>7, QuietStep DEF t, ExecPcs
<1> QED BY <1>3, <1>4, <1>5 DEF LockExecution

LEMMA RecordEventFacts ==
  ASSUME Typed, NEW o \in Operations, NEW n \in Records
  PROVE  /\ RecordEvent(o, n) \in Events /\ RecordEvent(o, n).kind = "record"
         /\ RecordEvent(o, n).op = o /\ RecordEvent(o, n).was = record[o] /\ RecordEvent(o, n).new = n
BY DEF RecordEvent, Events, RecordEvents, Typed

\* A task proposes an event for what it is working on.
LEMMA ProposeKeeps ==
  ASSUME OperationInv, NEW w \in Workers, task[w].pc \notin {"idle", "auth"},
         NEW e \in Events, NEW await \in BOOLEAN, NEW then \in Pcs, NEW retry \in Pcs,
         Propose(w, task[w], e, await, then, retry), UNCHANGED <<hosts, agent>>,
         UNCHANGED <<journal, driver, target, ledger, past, history, faults>>,
         \E h : Sync(h), e.kind \in {"claim", "record"},
         \A u \in Tasks : Proposal(task[w], e, await, then, retry, u) =>
           StepOK(u) /\ (Claiming(u) \/ Recording(u))
  PROVE  OperationInv'
<1>1. Typed /\ task[w] \in Tasks
  BY DEF OperationInv, Typed
<1>2. PICK u \in Tasks : SetTask(w, u) /\ Proposal(task[w], e, await, then, retry, u)
  BY <1>1, Proposes
<1>3. Quiet(w, u)
  BY <1>2, QuietFrame
<1>4. u.pc \in Piped /\ SameWork(task[w], u)
  BY <1>2 DEF Proposal, Piped
<1> QED BY <1>2, <1>3, <1>4, PipedStep

LEMMA ClaimKeeps ==
  ASSUME OperationInv, NEW w \in Workers, Claim(w)
  PROVE  OperationInv'
<1> DEFINE t == task[w]
           exec == IF record[t.op].exec = 0 THEN mine[t.host] ELSE record[t.op].exec
<1>1. TaskOK(t) /\ t \in Tasks /\ t.pc = "claim" /\ Typed
  BY DEF OperationInv, TasksOK, Typed, Claim, At
<1>2. t.does \in HostDoes /\ LocalOp(t.op) /\ t.host \in Hosts /\ t.op \in Operations
      /\ t.step = 1 /\ t.out # "succeeded" /\ t.event = NoEvent
  BY <1>1 DEF TaskOK, PointOK, OnHost, LocalOp, Created, StepOK, EventOK, ExecPcs, Piped
<1>3. UNCHANGED <<journal, driver, target, ledger, past, history, faults>>
  BY DEF Claim
<1>4. CASE Fails(w) /\ UNCHANGED seen
  BY <1>1, <1>3, <1>4, QuietFails
<1>5. CASE t.does = "boot" /\ Goto(w, "recover") /\ Sync(t.host) /\ UNCHANGED <<hosts, agent>>
  <2>1. PICK u \in Tasks : /\ u = [t EXCEPT !.pc = "recover"] /\ SameWork(t, u) /\ u.pc = "recover"
                           /\ u.event = t.event
    <3>1. "recover" \in Pcs
      BY DEF Pcs
    <3> QED BY <1>1, <3>1, Moved
  <2>2. Quiet(w, u)
    BY <1>3, <1>5, <2>1, QuietFrame DEF Goto
  <2> HIDE DEF t
  <2>3. SameRequest(t, u)
    BY <1>1, <2>1 DEF SameRequest, SameWork
  <2>4. EventOK(u) /\ PointOK(u)
    BY <1>1, <1>2, <1>5, <2>1 DEF TaskOK, EventOK, PointOK, SameWork, Piped, ExecPcs, IdleTask
  <2>5. StepOK(u) /\ ExecutionOK(u)
    BY <1>2, <2>1 DEF StepOK, ExecutionOK, SameWork, ExecPcs
  <2> QED BY <1>1, <2>1, <2>2, <2>3, <2>4, <2>5, QuietStep DEF t, ExecPcs
<1>6. CASE /\ SetTask(w, [t EXCEPT !.pc = "resolve", !.claim = claim[t.op]])
           /\ Sync(t.host) /\ UNCHANGED <<hosts, agent>>
  <2> DEFINE u == [t EXCEPT !.pc = "resolve", !.claim = claim[t.op]]
  <2>1. u \in Tasks
    BY <1>1, <1>2 DEF Tasks, Pcs, Typed
  <2>2. /\ u.pc = "resolve" /\ u.does = t.does /\ u.host = t.host /\ u.awaited = t.awaited
        /\ u.event = t.event /\ u.key = t.key /\ u.step = t.step /\ u.out = t.out /\ u.op = t.op
    BY <1>1 DEF Tasks
  <2>3. Quiet(w, u)
    BY <1>3, <1>6, QuietFrame
  <2> HIDE DEF t, u
  <2>4. SameRequest(t, u)
    BY <1>1, <1>2, <2>2, HostWork
  <2>5. EventOK(u) /\ PointOK(u)
    BY <1>1, <1>2, <2>2 DEF TaskOK, EventOK, PointOK, Piped, ExecPcs, IdleTask
  <2>6. StepOK(u) /\ ExecutionOK(u)
    BY <1>2, <2>2 DEF StepOK, ExecutionOK, ExecPcs
  <2> QED BY <1>1, <2>1, <2>2, <2>3, <2>4, <2>5, <2>6, QuietStep DEF t, ExecPcs
<1>7. CASE /\ Propose(w, t, ClaimEvent(t.op, mine[t.host], exec), TRUE, "resolve", "claim")
           /\ Sync(t.host) /\ UNCHANGED <<hosts, agent>>
  <2> DEFINE e == ClaimEvent(t.op, mine[t.host], exec)
  <2>1. exec \in Execs /\ mine[t.host] \in 0 .. MaxTerm /\ claim[t.op] \in Claims
    <3>1. mine[t.host] \in 0 .. MaxTerm /\ claim[t.op] \in Claims /\ record[t.op] \in Records
      BY <1>1, <1>2 DEF Typed
    <3>2. mine[t.host] \in Execs
      BY <3>1, ConstantFacts DEF Execs
    <3>3. record[t.op].exec \in Execs
      BY <3>1 DEF Records
    <3> QED BY <3>1, <3>2, <3>3
  <2>2. e \in Events /\ e.kind = "claim" /\ e.op = t.op
    <3> HIDE DEF exec
    <3> QED BY <1>2, <2>1 DEF ClaimEvent, Events, ClaimEvents, Claims
  <2>3. "resolve" \in Pcs /\ "claim" \in Pcs
    BY DEF Pcs
  <2>4. Propose(w, task[w], e, TRUE, "resolve", "claim")
    BY <1>7
  <2> HIDE DEF e
  <2>5. \A u \in Tasks : Proposal(task[w], e, TRUE, "resolve", "claim", u) =>
          StepOK(u) /\ (Claiming(u) \/ Recording(u))
    <3> SUFFICES ASSUME NEW u \in Tasks, Proposal(task[w], e, TRUE, "resolve", "claim", u)
                 PROVE  StepOK(u) /\ Claiming(u)
      OBVIOUS
    <3>1. /\ SameWork(t, u) /\ u.event = e /\ u.then = "resolve" /\ u.retry = "claim" /\ u.pc = "owner"
      BY <2>2 DEF Proposal
    <3> QED BY <1>2, <2>2, <3>1 DEF StepOK, Claiming, SameWork
  <2> QED BY <1>1, <1>3, <1>7, <2>2, <2>3, <2>4, <2>5, ProposeKeeps
<1> QED BY <1>2, <1>4, <1>5, <1>6, <1>7 DEF Claim

\* A step of the execution that passes when the executor is still current.
LEMMA WhileCurrentKeeps ==
  ASSUME OperationInv, NEW w \in Workers, NEW u \in Tasks, WhileCurrent(w, u),
         task[w].pc \notin {"idle", "auth"}, SameRequest(task[w], u),
         ExecutorCurrent(task[w]) => EventOK(u) /\ PointOK(u) /\ StepOK(u) /\ ExecutionOK(u),
         u.pc \in ExecPcs => task[w].pc \in ExecPcs /\ task[w].op = u.op
  PROVE  OperationInv'
<1>1. UNCHANGED <<journal, driver, target, ledger, past, history, faults>>
  BY DEF WhileCurrent
<1>2. CASE Fails(w) /\ UNCHANGED seen
  BY <1>1, <1>2, QuietFails
<1>3. CASE ExecutorCurrent(task[w]) /\ SetTask(w, u) /\ Sync(u.host) /\ UNCHANGED <<hosts, agent>>
  <2>1. Quiet(w, u)
    BY <1>1, <1>3, QuietFrame
  <2> QED BY <1>3, <2>1, QuietStep
<1> QED BY <1>2, <1>3 DEF WhileCurrent
LEMMA ResolveKeeps ==
  ASSUME OperationInv, NEW w \in Workers, Resolve(w)
  PROVE  OperationInv'
<1> DEFINE t == task[w]
<1>1. TaskOK(t) /\ t \in Tasks /\ t.pc = "resolve"
  BY DEF OperationInv, TasksOK, Typed, Resolve, At
<1>2. t.does \in HostDoes /\ LocalOp(t.op) /\ t.step = 1 /\ t.out # "succeeded" /\ t.event = NoEvent
  BY <1>1 DEF TaskOK, PointOK, StepOK, EventOK, ExecPcs, Piped
<1>3. CASE WhileCurrent(w, [t EXCEPT !.pc = "complete", !.out = "unknown"])
  <2> DEFINE u == [t EXCEPT !.pc = "complete", !.out = "unknown"]
  <2>1. u \in Tasks
    BY ZenonT(60), <1>1 DEF Tasks, Pcs, Outcomes
  <2>2. /\ u.pc = "complete" /\ u.does = t.does /\ u.host = t.host /\ u.awaited = t.awaited
        /\ u.event = t.event /\ u.key = t.key /\ u.step = t.step /\ u.out = "unknown" /\ u.op = t.op
    BY <1>1 DEF Tasks
  <2>3. WhileCurrent(w, u)
    BY <1>3
  <2> HIDE DEF t, u
  <2>4. SameRequest(t, u)
    BY <1>1, <1>2, <2>2, HostWork
  <2>5. EventOK(u) /\ PointOK(u)
    BY <1>1, <1>2, <2>2 DEF TaskOK, EventOK, PointOK, Piped, ExecPcs, IdleTask, Outcomes
  <2>6. StepOK(u) /\ ExecutionOK(u)
    BY <1>2, <2>2 DEF StepOK, ExecutionOK, ExecPcs
  <2> QED BY <1>1, <2>1, <2>2, <2>3, <2>4, <2>5, <2>6, WhileCurrentKeeps DEF t, ExecPcs
<1>4. CASE t.does = "boot" /\ WhileCurrent(w, [t EXCEPT !.pc = "recover"])
  <2>1. PICK u \in Tasks : /\ u = [t EXCEPT !.pc = "recover"] /\ SameWork(t, u) /\ u.pc = "recover"
                           /\ u.event = t.event
    <3>1. "recover" \in Pcs
      BY DEF Pcs
    <3> QED BY <1>1, <3>1, Moved
  <2>2. WhileCurrent(w, u)
    BY <1>4, <2>1
  <2> HIDE DEF t
  <2>3. SameRequest(t, u)
    BY <1>1, <2>1 DEF SameRequest, SameWork
  <2>4. EventOK(u) /\ PointOK(u)
    BY <1>1, <1>2, <1>4, <2>1 DEF TaskOK, EventOK, PointOK, SameWork, Piped, ExecPcs, IdleTask
  <2>5. StepOK(u) /\ ExecutionOK(u)
    BY <1>2, <2>1 DEF StepOK, ExecutionOK, SameWork, ExecPcs
  <2> QED BY <1>1, <2>1, <2>2, <2>3, <2>4, <2>5, WhileCurrentKeeps DEF t, ExecPcs
<1>5. CASE t.does # "boot" /\ WhileCurrent(w, [t EXCEPT !.pc = "advance", !.status = "accepted"])
  <2> DEFINE u == [t EXCEPT !.pc = "advance", !.status = "accepted"]
  <2>1. u \in Tasks
    BY ZenonT(60), <1>1 DEF Tasks, Pcs, Statuses
  <2>2. /\ u.pc = "advance" /\ u.does = t.does /\ u.host = t.host /\ u.awaited = t.awaited
        /\ u.event = t.event /\ u.key = t.key /\ u.step = t.step /\ u.out = t.out /\ u.op = t.op
        /\ u.status = "accepted"
    BY <1>1 DEF Tasks
  <2>3. WhileCurrent(w, u)
    BY <1>5
  <2> HIDE DEF t, u
  <2>4. SameRequest(t, u)
    BY <1>1, <1>2, <2>2, HostWork
  <2>5. EventOK(u) /\ PointOK(u)
    BY <1>1, <1>2, <1>5, <2>2 DEF TaskOK, EventOK, PointOK, Piped, ExecPcs, IdleTask, HostDoes
  <2>6. StepOK(u) /\ ExecutionOK(u)
    BY <1>2, <2>2 DEF StepOK, ExecutionOK, ExecPcs
  <2> QED BY <1>1, <2>1, <2>2, <2>3, <2>4, <2>5, <2>6, WhileCurrentKeeps DEF t, ExecPcs
<1> QED BY <1>3, <1>4, <1>5 DEF Resolve

LEMMA AdvanceKeeps ==
  ASSUME OperationInv, NEW w \in Workers, Advance(w)
  PROVE  OperationInv'
<1> DEFINE t == task[w]
           r == record[t.op]
           x == IF r.exec = 0 THEN t.claim.exec ELSE r.exec
           to == [r EXCEPT !.status = t.status, !.exec = IF @ = 0 THEN t.claim.exec ELSE @]
           expired == [r EXCEPT !.status = "expired"]
<1>1. TaskOK(t) /\ t \in Tasks /\ t.pc = "advance" /\ Typed
  BY DEF OperationInv, TasksOK, Typed, Advance, At
<1>2. t.does = "submit" /\ LocalOp(t.op) /\ t.step = 1 /\ t.out # "succeeded" /\ t.event = NoEvent
      /\ t.status \in {"accepted", "running"} /\ t.op \in Operations
  BY <1>1 DEF TaskOK, PointOK, StepOK, EventOK, ExecPcs, Piped, LocalOp, Created
<1>3. UNCHANGED <<journal, driver, target, ledger, past, history, faults>>
  BY DEF Advance
<1>4. r \in Records /\ x \in Execs
  <2>1. r \in Records
    BY <1>1, <1>2 DEF Typed
  <2> QED BY <1>1, <2>1 DEF Records, Tasks, Claims
<1>5. CASE Fails(w) /\ (Sync(t.host) \/ UNCHANGED seen)
  BY <1>1, <1>3, <1>5, QuietFails
<1>6. CASE SetTask(w, [t EXCEPT !.status = "running"]) /\ Sync(t.host) /\ UNCHANGED <<hosts, agent>>
  <2> DEFINE u == [t EXCEPT !.status = "running"]
  <2>1. u \in Tasks
    BY <1>1 DEF Tasks, Pcs, Statuses
  <2>2. /\ u.pc = t.pc /\ u.does = t.does /\ u.host = t.host /\ u.awaited = t.awaited
        /\ u.event = t.event /\ u.key = t.key /\ u.step = t.step /\ u.out = t.out /\ u.op = t.op
        /\ u.status = "running"
    BY <1>1 DEF Tasks
  <2>3. Quiet(w, u)
    BY <1>3, <1>6, QuietFrame
  <2> HIDE DEF t, u
  <2>4. SameRequest(t, u)
    BY <1>1, <1>2, <2>2, HostWork DEF HostDoes
  <2>5. EventOK(u) /\ PointOK(u)
    BY <1>1, <1>2, <2>2 DEF TaskOK, EventOK, PointOK, Piped, ExecPcs, IdleTask, HostDoes
  <2>6. StepOK(u) /\ ExecutionOK(u)
    BY <1>1, <1>2, <2>2 DEF StepOK, ExecutionOK, ExecPcs
  <2> QED BY <1>1, <2>1, <2>2, <2>3, <2>4, <2>5, <2>6, QuietStep DEF t, ExecPcs
<1>7. CASE /\ r.status = "requested" /\ Sync(t.host) /\ UNCHANGED <<hosts, agent>>
           /\ Propose(w, t, RecordEvent(t.op, expired), TRUE, "done", "advance")
  <2>1. expired \in Records /\ expired.status = "expired" /\ expired.key = r.key
    BY <1>4 DEF Records, Statuses, Terminal
  <2> DEFINE e == RecordEvent(t.op, expired)
  <2>2. /\ e \in Events /\ e.kind = "record" /\ e.op = t.op /\ e.was = r /\ e.new = expired
    <3> HIDE DEF expired
    <3> QED BY <1>1, <1>2, <2>1, RecordEventFacts
  <2>3. Propose(w, task[w], e, TRUE, "done", "advance")
    BY <1>7
  <2>4. "done" \in Pcs /\ "advance" \in Pcs
    BY DEF Pcs
  <2> HIDE DEF e, expired, r
  <2>5. \A u \in Tasks : Proposal(task[w], e, TRUE, "done", "advance", u) =>
          StepOK(u) /\ (Claiming(u) \/ Recording(u))
    <3> SUFFICES ASSUME NEW u \in Tasks, Proposal(task[w], e, TRUE, "done", "advance", u)
                 PROVE  StepOK(u) /\ Recording(u)
      OBVIOUS
    <3>1. /\ SameWork(t, u) /\ u.event = e /\ u.then = "done" /\ u.retry = "advance" /\ u.pc = "base"
      BY <2>2 DEF Proposal
    <3> HIDE DEF t
    <3> QED BY <1>2, <1>7, <2>1, <2>2, <3>1 DEF StepOK, Recording, Advancing, SameWork
  <2> QED BY <1>1, <1>3, <1>7, <2>2, <2>3, <2>4, <2>5, ProposeKeeps
<1>8. ASSUME NEW then, then = IF t.status = "accepted" THEN "advance" ELSE "enter",
             r.status \in {"requested", "accepted"}, Sync(t.host), UNCHANGED <<hosts, agent>>,
             Propose(w, t, RecordEvent(t.op, to), TRUE, then, "advance")
      PROVE  OperationInv'
  <2>1. to = [r EXCEPT !.status = t.status, !.exec = x]
    BY <1>4 DEF Records
  <2>2. to \in Records /\ to.status = t.status /\ to.key = r.key
    <3> HIDE DEF to, x
    <3> QED BY <1>2, <1>4, <2>1 DEF Records, Statuses, Terminal
  <2> DEFINE e == RecordEvent(t.op, to)
  <2>3. /\ e \in Events /\ e.kind = "record" /\ e.op = t.op /\ e.was = r /\ e.new = to
    <3> HIDE DEF to
    <3> QED BY <1>1, <1>2, <2>2, RecordEventFacts
  <2>4. Propose(w, task[w], e, TRUE, then, "advance")
    BY <1>8
  <2>5. then \in Pcs /\ "advance" \in Pcs
    BY <1>8 DEF Pcs, ExecPcs
  <2> HIDE DEF e, to, r
  <2>6. \A u \in Tasks : Proposal(task[w], e, TRUE, then, "advance", u) =>
          StepOK(u) /\ (Claiming(u) \/ Recording(u))
    <3> SUFFICES ASSUME NEW u \in Tasks, Proposal(task[w], e, TRUE, then, "advance", u)
                 PROVE  StepOK(u) /\ Recording(u)
      OBVIOUS
    <3>1. /\ SameWork(t, u) /\ u.event = e /\ u.then = then /\ u.retry = "advance" /\ u.pc = "base"
      BY <2>3 DEF Proposal
    <3> HIDE DEF t
    <3>2. StepOK(u)
      BY <1>2, <3>1 DEF StepOK, SameWork
    <3>3. Advancing(u)
      BY <1>2, <1>8, <2>2, <2>3, <3>1 DEF Advancing, SameWork
    <3> QED BY <2>3, <3>1, <3>2, <3>3 DEF Recording
  <2> QED BY <1>1, <1>3, <1>8, <2>3, <2>4, <2>5, <2>6, ProposeKeeps
<1>9. CASE /\ r.status = "requested" /\ t.status = "accepted" /\ Sync(t.host) /\ UNCHANGED <<hosts, agent>>
           /\ Propose(w, t, RecordEvent(t.op, to), TRUE, "advance", "advance")
  BY <1>8, <1>9
<1>10. CASE /\ r.status = "accepted" /\ t.status = "running" /\ Sync(t.host) /\ UNCHANGED <<hosts, agent>>
            /\ Propose(w, t, RecordEvent(t.op, to), TRUE, "enter", "advance")
  BY <1>8, <1>10
<1> HIDE DEF x
<1> QED BY <1>5, <1>6, <1>7, <1>9, <1>10 DEF Advance
LEMMA EnterKeeps ==
  ASSUME OperationInv, NEW w \in Workers, Enter(w)
  PROVE  OperationInv'
<1> DEFINE t == task[w]
<1>1. TaskOK(t) /\ t \in Tasks /\ t.pc = "enter"
  BY DEF OperationInv, TasksOK, Typed, Enter, At
<1>2. PICK u \in Tasks : /\ u = [t EXCEPT !.pc = "guard"] /\ SameWork(t, u) /\ u.pc = "guard"
                         /\ u.event = t.event
  <2>1. "guard" \in Pcs
    BY DEF Pcs, ExecPcs
  <2> QED BY <1>1, <2>1, Moved
<1>3. WhileCurrent(w, u)
  BY <1>2 DEF Enter
<1> HIDE DEF t
<1>4. SameRequest(t, u)
  BY <1>1, <1>2 DEF SameRequest, SameWork
<1>5. EventOK(u) /\ PointOK(u)
  BY <1>1, <1>2 DEF TaskOK, EventOK, PointOK, SameWork, Piped, ExecPcs, IdleTask
<1>6. StepOK(u)
  BY <1>1, <1>2 DEF TaskOK, StepOK, SameWork, ExecPcs, Piped
<1>7. ExecutionOK(u)
  BY <1>1, <1>2 DEF TaskOK, ExecutionOK, SameWork, ExecPcs
<1> QED BY <1>1, <1>2, <1>3, <1>4, <1>5, <1>6, <1>7, WhileCurrentKeeps DEF t, ExecPcs, SameWork

\* The two ways on from the guard of an effect.
LEMMA GuardedKeeps ==
  ASSUME OperationInv, NEW w \in Workers, NEW yes \in Tasks, NEW no \in Tasks, Guarded(w, yes, no),
         task[w].pc \in ExecPcs, SameRequest(task[w], yes), SameRequest(task[w], no),
         yes.op = task[w].op, no.op = task[w].op,
         ExecutorCurrent(task[w]) => EventOK(yes) /\ PointOK(yes) /\ StepOK(yes) /\ ExecutionOK(yes),
         EventOK(no) /\ PointOK(no) /\ StepOK(no) /\ ExecutionOK(no)
  PROVE  OperationInv'
<1>1. UNCHANGED <<journal, driver, hosts, target, agent, ledger, past, history>>
      /\ task[w].pc # "auth"
  BY DEF Guarded, ExecPcs
<1>2. CASE ExecutorCurrent(task[w]) /\ SetTask(w, yes) /\ Sync(task[w].host) /\ UNCHANGED faults
  <2>1. Quiet(w, yes)
    BY <1>1, <1>2, QuietFrame
  <2> QED BY <1>1, <1>2, <2>1, QuietStep
<1>3. CASE SetTask(w, no) /\ UNCHANGED seen /\ (UNCHANGED faults \/ Fault)
  <2>1. Quiet(w, no)
    BY <1>1, <1>3, QuietFrame
  <2> QED BY <1>1, <2>1, QuietStep
<1> QED BY <1>2, <1>3 DEF Guarded

\* An executor that stops with an outcome other than success.
LEMMA StoppedOK ==
  ASSUME NEW t \in Tasks, TaskOK(t), t.pc \in ExecPcs, NEW out \in {"failed", "unknown"}, NEW u,
         u = [t EXCEPT !.pc = "finish", !.out = out]
  PROVE  /\ u \in Tasks /\ SameRequest(t, u) /\ u.op = t.op
         /\ EventOK(u) /\ PointOK(u) /\ StepOK(u) /\ ExecutionOK(u)
<1>1. u \in Tasks
  BY DEF Tasks, Pcs, Outcomes
<1>2. /\ u.pc = "finish" /\ u.does = t.does /\ u.host = t.host /\ u.awaited = t.awaited
      /\ u.event = t.event /\ u.key = t.key /\ u.step = t.step /\ u.out = out /\ u.op = t.op
  BY DEF Tasks
<1>3. t.does = "submit" /\ t.pc \notin Piped
  BY DEF TaskOK, PointOK, ExecPcs, Piped
<1>4. SameRequest(t, u)
  BY <1>2, <1>3, HostWork DEF HostDoes
<1>5. EventOK(u) /\ PointOK(u)
  BY ZenonT(60), <1>2, <1>3 DEF TaskOK, EventOK, PointOK, Piped, ExecPcs, IdleTask, Outcomes
<1>6. StepOK(u) /\ ExecutionOK(u)
  BY <1>2, <1>3 DEF StepOK, ExecutionOK, ExecPcs
<1> QED BY <1>1, <1>2, <1>4, <1>5, <1>6

LEMMA GuardBeforeKeeps ==
  ASSUME OperationInv, NEW w \in Workers, GuardBefore(w)
  PROVE  OperationInv'
<1> DEFINE t == task[w]
           no == [t EXCEPT !.pc = "finish", !.out = "failed"]
<1>1. TaskOK(t) /\ t \in Tasks /\ t.pc = "guard" /\ t.pc \in ExecPcs
  BY DEF OperationInv, TasksOK, Typed, GuardBefore, At, ExecPcs
<1>2. PICK yes \in Tasks : /\ yes = [t EXCEPT !.pc = "effect"] /\ SameWork(t, yes) /\ yes.pc = "effect"
                           /\ yes.event = t.event
  <2>1. "effect" \in Pcs
    BY DEF Pcs, ExecPcs
  <2> QED BY <1>1, <2>1, Moved
<1>3. /\ no \in Tasks /\ SameRequest(t, no) /\ no.op = t.op
      /\ EventOK(no) /\ PointOK(no) /\ StepOK(no) /\ ExecutionOK(no)
  <2>1. "failed" \in {"failed", "unknown"}
    OBVIOUS
  <2> HIDE DEF t
  <2> QED BY <1>1, <2>1, StoppedOK
<1>4. CASE Guarded(w, [t EXCEPT !.pc = "effect"], no)
  <2> HIDE DEF no, t
  <2>1. SameRequest(t, yes)
    BY <1>1, <1>2 DEF SameRequest, SameWork
  <2>2. EventOK(yes) /\ PointOK(yes)
    BY <1>1, <1>2 DEF TaskOK, EventOK, PointOK, SameWork, Piped, ExecPcs, IdleTask
  <2>3. StepOK(yes) /\ ExecutionOK(yes)
    BY <1>1, <1>2 DEF TaskOK, StepOK, ExecutionOK, SameWork, ExecPcs, Piped
  <2>4. Guarded(w, yes, no)
    BY <1>2, <1>4
  <2> QED BY <1>1, <1>2, <1>3, <2>1, <2>2, <2>3, <2>4, GuardedKeeps DEF t, SameWork
<1>5. CASE /\ SetTask(w, no)
           /\ UNCHANGED <<journal, driver, hosts, seen, target, agent, ledger, past, history, faults>>
  <2>1. Quiet(w, no)
    BY <1>5, QuietFrame
  <2> HIDE DEF no
  <2> QED BY <1>1, <1>3, <2>1, QuietStep
<1> QED BY <1>4, <1>5 DEF GuardBefore

LEMMA GuardAfterKeeps ==
  ASSUME OperationInv, NEW w \in Workers, GuardAfter(w)
  PROVE  OperationInv'
<1> DEFINE t == task[w]
           no == [t EXCEPT !.pc = "finish", !.out = "unknown"]
           more == [t EXCEPT !.pc = "guard", !.step = @ + 1]
           over == [t EXCEPT !.pc = "finish", !.out = "succeeded"]
<1>1. TaskOK(t) /\ t \in Tasks /\ t.pc = "after" /\ t.pc \in ExecPcs /\ t.does = "submit"
      /\ LocalOp(t.op) /\ t.event = NoEvent /\ t.op \in Operations
  <2>1. TaskOK(t) /\ t \in Tasks /\ t.pc = "after"
    BY DEF OperationInv, TasksOK, Typed, GuardAfter, At
  <2> QED BY <2>1 DEF TaskOK, PointOK, EventOK, ExecPcs, Piped, LocalOp, Created
<1>2. /\ no \in Tasks /\ SameRequest(t, no) /\ no.op = t.op
      /\ EventOK(no) /\ PointOK(no) /\ StepOK(no) /\ ExecutionOK(no)
  <2>1. "unknown" \in {"failed", "unknown"}
    OBVIOUS
  <2> HIDE DEF t
  <2> QED BY <1>1, <2>1, StoppedOK
<1>3. ExecutorCurrent(t) => Owner(t.host)
  BY DEF ExecutorCurrent, ClaimCurrent, FenceCurrent
<1>4. Done(t.op, t.step) /\ (ExecutorCurrent(t) => late[t.op] = 0) /\ record[t.op].status \in Started
  <2>1. late \in [Operations -> Nat]
    BY DEF OperationInv, Typed
  <2>2. ExecutionOK(t)
    BY <1>1 DEF TaskOK
  <2> HIDE DEF t
  <2> QED BY <1>1, <1>3, <2>1, <2>2 DEF ExecutionOK
<1>5. t.step \in 1 .. Steps
  BY <1>1 DEF Tasks
<1>6. CASE t.step < Steps /\ Guarded(w, more, no)
  <2>1. t.step + 1 \in 1 .. Steps
    BY <1>5, <1>6, ConstantFacts
  <2>2. more = [t EXCEPT !.pc = "guard", !.step = t.step + 1]
    BY <1>1 DEF Tasks
  <2> HIDE DEF more
  <2>3. more \in Tasks
    BY <1>1, <2>1, <2>2 DEF Tasks, Pcs, ExecPcs
  <2>4. /\ more.pc = "guard" /\ more.does = t.does /\ more.host = t.host /\ more.awaited = t.awaited
        /\ more.event = t.event /\ more.key = t.key /\ more.step = t.step + 1 /\ more.out = t.out
        /\ more.op = t.op
    BY <1>1, <2>2 DEF Tasks
  <2>5. Guarded(w, more, no)
    BY <1>6
  <2> HIDE DEF t, no
  <2>6. SameRequest(t, more)
    BY <1>1, <2>4, HostWork DEF HostDoes
  <2>7. EventOK(more) /\ PointOK(more)
    BY <1>1, <2>4 DEF TaskOK, EventOK, PointOK, Piped, ExecPcs, IdleTask
  <2>8. StepOK(more)
    BY <1>1, <2>4 DEF StepOK, ExecPcs
  <2>9. ExecutorCurrent(t) => ExecutionOK(more)
    <3>1. more.step - 1 = t.step
      BY <1>5, <2>4, ConstantFacts
    <3>2. t.out = "succeeded" => t.op \in Operations /\ Done(t.op, Steps)
      BY <1>1 DEF TaskOK, ExecutionOK
    <3> QED BY <1>1, <1>4, <2>4, <3>1, <3>2 DEF ExecutionOK, ExecPcs
  <2> QED BY <1>1, <1>2, <2>3, <2>4, <2>5, <2>6, <2>7, <2>8, <2>9, GuardedKeeps DEF t
<1>7. CASE ~(t.step < Steps) /\ Guarded(w, over, no)
  <2>1. t.step = Steps
    BY <1>5, <1>7, ConstantFacts
  <2>2. over \in Tasks
    BY <1>1 DEF Tasks, Pcs, Outcomes
  <2>3. /\ over.pc = "finish" /\ over.does = t.does /\ over.host = t.host /\ over.awaited = t.awaited
        /\ over.event = t.event /\ over.key = t.key /\ over.step = t.step /\ over.out = "succeeded"
        /\ over.op = t.op
    BY <1>1 DEF Tasks
  <2>4. Guarded(w, over, no)
    BY <1>7
  <2> HIDE DEF t, no, over
  <2>5. SameRequest(t, over)
    BY <1>1, <2>3, HostWork DEF HostDoes
  <2>6. EventOK(over) /\ PointOK(over)
    BY <1>1, <2>3 DEF TaskOK, EventOK, PointOK, Piped, ExecPcs, IdleTask, Outcomes
  <2>7. StepOK(over) /\ ExecutionOK(over)
    BY <1>1, <1>4, <2>1, <2>3 DEF StepOK, ExecutionOK, ExecPcs
  <2> QED BY <1>1, <1>2, <2>2, <2>3, <2>4, <2>5, <2>6, <2>7, GuardedKeeps DEF t
<1> QED BY <1>6, <1>7 DEF GuardAfter

LEMMA FinishKeeps ==
  ASSUME OperationInv, NEW w \in Workers, Finish(w)
  PROVE  OperationInv'
<1> DEFINE t == task[w]
<1>1. TaskOK(t) /\ t \in Tasks /\ t.pc = "finish"
  BY DEF OperationInv, TasksOK, Typed, Finish, At
<1>2. PICK u \in Tasks : /\ u = [t EXCEPT !.pc = "complete"] /\ SameWork(t, u) /\ u.pc = "complete"
                         /\ u.event = t.event
  <2>1. "complete" \in Pcs
    BY DEF Pcs
  <2> QED BY <1>1, <2>1, Moved
<1>3. WhileCurrent(w, u)
  BY <1>2 DEF Finish
<1> HIDE DEF t
<1>4. SameRequest(t, u)
  BY <1>1, <1>2 DEF SameRequest, SameWork
<1>5. EventOK(u) /\ PointOK(u)
  BY <1>1, <1>2 DEF TaskOK, EventOK, PointOK, SameWork, Piped, ExecPcs, IdleTask, HostDoes
<1>6. StepOK(u)
  BY <1>1, <1>2 DEF TaskOK, StepOK, SameWork, ExecPcs, Piped
<1>7. ExecutionOK(u)
  BY <1>1, <1>2 DEF TaskOK, ExecutionOK, SameWork, ExecPcs
<1> QED BY <1>1, <1>2, <1>3, <1>4, <1>5, <1>6, <1>7, WhileCurrentKeeps DEF t, ExecPcs
LEMMA CompleteKeeps ==
  ASSUME OperationInv, NEW w \in Workers, Complete(w)
  PROVE  OperationInv'
<1> DEFINE t == task[w]
           r == record[t.op]
           next == IF t.does = "boot" THEN "recover" ELSE "done"
           to == [r EXCEPT !.status = t.out]
<1>1. TaskOK(t) /\ t \in Tasks /\ t.pc = "complete" /\ Typed
  BY DEF OperationInv, TasksOK, Typed, Complete, At
<1>2. t.does \in HostDoes /\ LocalOp(t.op) /\ t.event = NoEvent /\ t.out \in Outcomes
      /\ t.op \in Operations /\ r \in Records
  BY <1>1 DEF TaskOK, PointOK, EventOK, ExecPcs, Piped, LocalOp, Created, Typed
<1>3. UNCHANGED <<journal, driver, target, ledger, past, history, faults>>
  BY DEF Complete
<1>4. CASE Fails(w) /\ UNCHANGED seen
  BY <1>1, <1>3, <1>4, QuietFails
<1>5. CASE t.does = "boot" /\ Sync(t.host) /\ Goto(w, "recover") /\ UNCHANGED <<hosts, agent>>
  <2>1. PICK u \in Tasks : /\ u = [t EXCEPT !.pc = "recover"] /\ SameWork(t, u) /\ u.pc = "recover"
                           /\ u.event = t.event
    <3>1. "recover" \in Pcs
      BY DEF Pcs
    <3> QED BY <1>1, <3>1, Moved
  <2>2. Quiet(w, u)
    BY <1>3, <1>5, <2>1, QuietFrame DEF Goto
  <2> HIDE DEF t
  <2>3. SameRequest(t, u)
    BY <1>1, <2>1 DEF SameRequest, SameWork
  <2>4. EventOK(u) /\ PointOK(u)
    BY <1>1, <1>2, <1>5, <2>1 DEF TaskOK, EventOK, PointOK, SameWork, Piped, ExecPcs, IdleTask
  <2>5. StepOK(u) /\ ExecutionOK(u)
    BY <1>1, <1>5, <2>1 DEF TaskOK, StepOK, ExecutionOK, SameWork, ExecPcs
  <2> QED BY <1>1, <2>1, <2>2, <2>3, <2>4, <2>5, QuietStep DEF t, ExecPcs
<1>6. CASE Sync(t.host) /\ Finishes(w, t.op, record[t.op])
  <2>1. Finishes(w, 0, NoRecord) /\ MayAnswer(w, TRUE, 0, NoRecord)
    BY <1>1, <1>2, <1>6, NoAnswer DEF HostDoes
  <2> QED BY <1>1, <1>3, <1>6, <2>1, QuietFinishes
<1>7. CASE /\ r.status \in {"accepted", "running"} /\ Sync(t.host) /\ UNCHANGED <<hosts, agent>>
           /\ Propose(w, t, RecordEvent(t.op, to), TRUE, next, "complete")
  <2>1. to \in Records /\ to.status = t.out /\ to.key = r.key
    BY <1>2 DEF Records, Statuses, Terminal, Outcomes
  <2> DEFINE e == RecordEvent(t.op, to)
  <2>2. /\ e \in Events /\ e.kind = "record" /\ e.op = t.op /\ e.was = r /\ e.new = to
    <3> HIDE DEF to
    <3> QED BY <1>1, <1>2, <2>1, RecordEventFacts
  <2>3. Propose(w, task[w], e, TRUE, next, "complete")
    BY <1>7
  <2>4. next \in Pcs /\ "complete" \in Pcs /\ next = IF t.does = "boot" THEN "recover" ELSE "done"
    BY DEF Pcs
  <2> HIDE DEF e, to, r, next
  <2>5. \A u \in Tasks : Proposal(task[w], e, TRUE, next, "complete", u) =>
          StepOK(u) /\ (Claiming(u) \/ Recording(u))
    <3> SUFFICES ASSUME NEW u \in Tasks, Proposal(task[w], e, TRUE, next, "complete", u)
                 PROVE  StepOK(u) /\ Recording(u)
      OBVIOUS
    <3>1. /\ SameWork(t, u) /\ u.event = e /\ u.then = next /\ u.retry = "complete" /\ u.pc = "base"
      BY <2>2 DEF Proposal
    <3> HIDE DEF t
    <3>2. Completing(u)
      BY <1>2, <1>7, <2>1, <2>2, <2>4, <3>1 DEF Completing, SameWork
    <3>3. StepOK(u)
      BY <1>1, <3>1, <3>2 DEF TaskOK, StepOK, SameWork, Piped
    <3> QED BY <2>2, <3>1, <3>2, <3>3 DEF Recording
  <2> QED BY <1>1, <1>3, <1>7, <2>2, <2>3, <2>4, <2>5, ProposeKeeps
<1> QED BY <1>4, <1>5, <1>6, <1>7 DEF Complete

LEMMA RecoverKeeps ==
  ASSUME OperationInv, NEW w \in Workers, Recover(w)
  PROVE  OperationInv'
<1> DEFINE t == task[w]
           candidates == {o \in Created : Local(o) /\ record[o].status = "running"}
<1>1. TaskOK(t) /\ t \in Tasks /\ t.pc = "recover" /\ Typed
  BY DEF OperationInv, TasksOK, Typed, Recover, At
<1>2. t.does = "boot" /\ t.event = NoEvent /\ t.step = 1 /\ t.out # "succeeded"
  BY <1>1 DEF TaskOK, PointOK, EventOK, StepOK, ExecPcs, Piped
<1>3. UNCHANGED <<journal, driver, target, ledger, past, history, faults>>
  BY DEF Recover
<1>4. CASE Fails(w) /\ UNCHANGED seen
  BY <1>1, <1>3, <1>4, QuietFails
<1>5. CASE Sync(t.host) /\ Finishes(w, 0, NoRecord)
  <2>1. MayAnswer(w, TRUE, 0, NoRecord)
    BY <1>1, <1>2, <1>5, NoAnswer DEF HostDoes
  <2> QED BY <1>1, <1>3, <1>5, <2>1, QuietFinishes
<1>6. CASE /\ candidates # {} /\ Sync(t.host) /\ UNCHANGED <<hosts, agent>>
           /\ SetTask(w, [t EXCEPT !.pc = "claim", !.op = Min(candidates)])
  <2>1. PICK o : o = Min(candidates)
    OBVIOUS
  <2>2. o \in candidates
    <3>1. candidates \in SUBSET Operations
      BY DEF Created
    <3> HIDE DEF candidates
    <3> QED BY <1>6, <2>1, <3>1, MinOfOperations
  <2>3. LocalOp(o) /\ o \in Operations
    BY <2>2 DEF LocalOp, Created
  <2> DEFINE u == [t EXCEPT !.pc = "claim", !.op = o]
  <2>4. u \in Tasks
    BY <1>1, <2>3 DEF Tasks, Pcs
  <2>5. /\ u.pc = "claim" /\ u.does = t.does /\ u.host = t.host /\ u.awaited = t.awaited
        /\ u.event = t.event /\ u.key = t.key /\ u.step = t.step /\ u.out = t.out /\ u.op = o
    BY <1>1 DEF Tasks
  <2>6. SetTask(w, u)
    BY <1>6, <2>1
  <2>7. Quiet(w, u)
    BY <1>3, <1>6, <2>6, QuietFrame
  <2> HIDE DEF t, u
  <2>8. SameRequest(t, u)
    BY <1>1, <1>2, <2>5, HostWork DEF HostDoes
  <2>9. EventOK(u) /\ PointOK(u)
    BY <1>1, <1>2, <2>3, <2>5 DEF TaskOK, EventOK, PointOK, Piped, ExecPcs, IdleTask, HostDoes
  <2>10. StepOK(u) /\ ExecutionOK(u)
    BY <1>2, <2>5 DEF StepOK, ExecutionOK, ExecPcs
  <2> QED BY <1>1, <2>4, <2>5, <2>7, <2>8, <2>9, <2>10, QuietStep DEF t, ExecPcs
<1> HIDE DEF candidates
<1> QED BY <1>4, <1>5, <1>6 DEF Recover, candidates

\* An effect that has not happened yet.
LEMMA PerformFacts ==
  ASSUME OperationInv, NEW o \in Operations, NEW k \in 1 .. Steps, Done(o, k - 1), late[o] = 0,
         record[o].status \in Started, RemoteOp(o) => ledger[o].status = "running",
         NEW replaced \in BOOLEAN, Perform(o, k, replaced), UNCHANGED <<record, driver, ledger>>
  PROVE  /\ performed' \in [Operations -> [1 .. Steps -> Nat]] /\ late' \in [Operations -> Nat]
         /\ Done(o, k)' /\ late'[o] = (IF replaced THEN 1 ELSE 0)
         /\ \A p \in Operations \ {o} : performed'[p] = performed[p] /\ late'[p] = late[p]
         /\ EffectsOK'
         /\ \A w \in Workers : task[w].out = "succeeded" => task[w].op # o
<1>1. performed \in [Operations -> [1 .. Steps -> Nat]] /\ late \in [Operations -> Nat]
      /\ EffectsOK /\ LedgerOK
  BY DEF OperationInv, Typed
<1>2. Steps \in Nat
  BY ConstantFacts
<1>3. performed[o][k] = 0 /\ \A n \in 1 .. Steps : performed[o][n] = IF n <= k - 1 THEN 1 ELSE 0
  BY <1>2 DEF Done
<1>4. performed' = [performed EXCEPT ![o] = [performed[o] EXCEPT ![k] = 1]]
  BY <1>1, <1>3 DEF Perform
<1>5. \A n \in 1 .. Steps : performed'[o][n] = IF n <= k THEN 1 ELSE 0
  BY <1>1, <1>2, <1>3, <1>4
<1>6. late'[o] = (IF replaced THEN 1 ELSE 0)
      /\ late' \in [Operations -> Nat] /\ performed' \in [Operations -> [1 .. Steps -> Nat]]
  <2>1. performed' \in [Operations -> [1 .. Steps -> Nat]]
    <3>1. [performed[o] EXCEPT ![k] = 1] \in [1 .. Steps -> Nat]
      BY <1>1
    <3> QED BY <1>1, <1>4, <3>1
  <2>2. CASE replaced
    BY <1>1, <2>1, <2>2 DEF Perform
  <2>3. CASE ~replaced
    BY <1>1, <2>1, <2>3 DEF Perform
  <2> QED BY <2>2, <2>3
<1>7. \A p \in Operations \ {o} : performed'[p] = performed[p] /\ late'[p] = late[p]
  BY <1>1, <1>4 DEF Perform
<1>8. ~Done(o, Steps)
  BY <1>2, <1>3 DEF Done
<1>9. record[o].status # "succeeded" /\ ledger[o].status # "succeeded"
      /\ ~(RemoteOp(o) /\ ledger[o].status \in {"none", "accepted"})
  BY <1>1, <1>8 DEF EffectsOK
<1>10. EffectsOK'
  <2> SUFFICES ASSUME NEW p \in Operations
               PROVE  /\ late'[p] <= 1 /\ \A n \in 1 .. Steps : performed'[p][n] <= 1
                      /\ record'[p].status \notin Started => Done(p, 0)' /\ late'[p] = 0
                      /\ RemoteOp(p)' /\ ledger'[p].status \in {"none", "accepted"} =>
                           Done(p, 0)' /\ late'[p] = 0
                      /\ record'[p].status = "succeeded" => Done(p, Steps)'
                      /\ ledger'[p].status = "succeeded" => Done(p, Steps)'
    BY DEF EffectsOK
  <2>1. RemoteOp(p)' <=> RemoteOp(p)
    BY DEF RemoteOp, Local, Created
  <2>2. CASE p = o
    BY <1>5, <1>6, <1>9, <2>1, <2>2
  <2>3. CASE p # o
    <3>1. \A i : Done(p, i)' <=> Done(p, i)
      BY <1>7, <2>3 DEF Done
    <3> QED BY <1>1, <1>7, <2>1, <2>3, <3>1 DEF EffectsOK
  <2> QED BY <2>2, <2>3
<1>11. \A w \in Workers : task[w].out = "succeeded" => task[w].op # o
  BY <1>8 DEF OperationInv, TasksOK, TaskOK, ExecutionOK
<1> QED BY <1>5, <1>6, <1>7, <1>10, <1>11 DEF Done

\* The agent waits, or works, while others take a step.
LEMMA AgentRemains ==
  ASSUME AgentOK, Typed, JournalGrows, UNCHANGED <<driver, ledger, agent>>,
         epoch' \in Nat, epoch <= epoch',
         agent.pc \notin {"idle", "polled"} =>
           performed'[agent.op] = performed[agent.op] /\ late'[agent.op] = late[agent.op],
         \A v \in Workers : task'[v].awaited => task[v].awaited /\ task'[v].pc = task[v].pc
  PROVE  AgentOK'
<1>0. PICK a : a = agent
  OBVIOUS
<1>1. AgentFits(a) /\ a.epoch \in Nat /\ epoch \in Nat /\ agent' = a
  BY <1>0, ConstantFacts DEF AgentOK, Typed, Agents
<1>2. RemoteOp(a.op) => RemoteOp(a.op)'
  BY OpsKept
<1>3. a.op \in Operations /\ record[a.op].status \in Started => record'[a.op].status \in Started
  BY DEF JournalGrows
<1>4. a.pc \notin {"idle", "polled"} =>
        (\A k : Done(a.op, k)' <=> Done(a.op, k)) /\ late'[a.op] = late[a.op]
  BY <1>0 DEF Done
<1>5. a.pc = "checked" /\ late[a.op] = 1 =>
        \A v \in Workers : task'[v].awaited => task'[v].pc = "auth"
  BY <1>1 DEF AgentFits
<1>6. a.epoch <= epoch' /\ (a.epoch # epoch => a.epoch # epoch')
  BY <1>1 DEF AgentFits
<1>7. a.pc \in AgentRuns => a.pc \notin {"idle", "polled"}
  BY DEF AgentRuns
<1>8. AgentFits(a)'
  BY <1>1, <1>2, <1>3, <1>4, <1>5, <1>6, <1>7 DEF AgentFits
<1> QED BY <1>1, <1>8 DEF AgentOK

LEMMA EffectKeeps ==
  ASSUME OperationInv, NEW w \in Workers, Effect(w)
  PROVE  OperationInv'
<1>0. PICK t : t = task[w]
  OBVIOUS
<1> DEFINE unknown == [t EXCEPT !.pc = "finish", !.out = "unknown"]
           after == [t EXCEPT !.pc = "after"]
<1>1. TaskOK(t) /\ t \in Tasks /\ t.pc = "effect" /\ t.pc \in ExecPcs /\ Typed /\ Alone
  BY <1>0 DEF OperationInv, TasksOK, Typed, Effect, At, ExecPcs
<1>2. UNCHANGED <<journal, driver, hosts, seen, target, agent, ledger, past, faults>>
  BY DEF Effect
<1>3. /\ unknown \in Tasks /\ SameRequest(t, unknown) /\ unknown.op = t.op
      /\ EventOK(unknown) /\ PointOK(unknown) /\ StepOK(unknown) /\ ExecutionOK(unknown)
  <2>1. "unknown" \in {"failed", "unknown"}
    OBVIOUS
  <2> QED BY <1>1, <2>1, StoppedOK
<1>4. CASE SetTask(w, unknown) /\ UNCHANGED history
  <2>1. Quiet(w, unknown)
    BY <1>2, <1>4, QuietFrame
  <2> HIDE DEF unknown
  <2> QED BY <1>0, <1>1, <1>3, <2>1, QuietStep
<1>5. CASE Perform(t.op, t.step, ~Owner(t.host)) /\ (SetTask(w, after) \/ SetTask(w, unknown))
  <2>1. /\ t.does = "submit" /\ LocalOp(t.op) /\ t.op \in Operations /\ t.event = NoEvent
        /\ t.step \in 1 .. Steps /\ t.host \in Hosts
    BY <1>1 DEF TaskOK, PointOK, EventOK, OnHost, ExecPcs, Piped, LocalOp, Created, Tasks
  <2>2. Done(t.op, t.step - 1) /\ late[t.op] = 0 /\ record[t.op].status \in Started
    BY <1>1 DEF TaskOK, ExecutionOK
  <2>3. /\ UNCHANGED <<record, fence, claim, length, poisoned, driver, term, mine, phase, executing,
                       seen, epoch, revoked, online, agent, ledger, past, faults>>
    BY <1>2 DEF journal, hosts, target
  <2>4. ~RemoteOp(t.op)
    BY <2>1 DEF LocalOp, RemoteOp
  <2>5. /\ performed' \in [Operations -> [1 .. Steps -> Nat]] /\ late' \in [Operations -> Nat]
        /\ Done(t.op, t.step)' /\ late'[t.op] = (IF ~Owner(t.host) THEN 1 ELSE 0)
        /\ \A p \in Operations \ {t.op} : performed'[p] = performed[p] /\ late'[p] = late[p]
        /\ EffectsOK'
        /\ \A v \in Workers : task[v].out = "succeeded" => task[v].op # t.op
    <3>1. PICK b \in BOOLEAN : b = ~Owner(t.host)
      OBVIOUS
    <3>2. Perform(t.op, t.step, b)
      BY <1>5, <3>1
    <3> QED BY <2>1, <2>2, <2>3, <2>4, <3>1, <3>2, PerformFacts
  <2>6. PICK u \in Tasks : /\ SetTask(w, u) /\ u.does = t.does /\ u.host = t.host
                           /\ u.awaited = t.awaited /\ u.event = t.event /\ u.key = t.key
                           /\ u.step = t.step /\ u.op = t.op /\ u.pc \in {"after", "finish"}
                           /\ u.out = IF u.pc = "finish" THEN "unknown" ELSE t.out
    <3>1. CASE SetTask(w, after)
      <4>1. after \in Tasks
        BY <1>1 DEF Tasks, Pcs, ExecPcs
      <4>2. /\ after.does = t.does /\ after.host = t.host /\ after.awaited = t.awaited
            /\ after.event = t.event /\ after.key = t.key /\ after.step = t.step /\ after.op = t.op
            /\ after.pc = "after" /\ after.out = t.out
        BY <1>1 DEF Tasks
      <4> HIDE DEF after
      <4> QED BY <3>1, <4>1, <4>2
    <3>2. CASE SetTask(w, unknown)
      <4>1. /\ unknown.does = t.does /\ unknown.host = t.host /\ unknown.awaited = t.awaited
            /\ unknown.event = t.event /\ unknown.key = t.key /\ unknown.step = t.step
            /\ unknown.op = t.op /\ unknown.pc = "finish" /\ unknown.out = "unknown"
        BY <1>1 DEF Tasks
      <4> HIDE DEF unknown
      <4> QED BY <1>3, <3>2, <4>1
    <3> QED BY <1>5, <3>1, <3>2
  <2> HIDE DEF unknown, after
  <2>7. task \in [Workers -> Tasks] /\ task' = [task EXCEPT ![w] = u]
    BY <1>1, <2>6 DEF Typed, SetTask
  <2>8. task'[w] = u /\ \A v \in Workers \ {w} : task'[v] = task[v]
    BY <2>7
  <2>9. JournalGrows /\ LedgerGrows
    BY <2>3 DEF JournalGrows, LedgerGrows, Created
  <2>10. t.out # "succeeded"
    BY <1>0, <2>5
  <2>11. t.awaited = FALSE /\ ~t.awaited
    <3>1. t.awaited \in BOOLEAN
      BY <1>1 DEF Tasks
    <3> QED BY <1>1, <2>1, <3>1 DEF TaskOK, AwaitedOK, AgentDoes
  <2>12. TaskOK(u)'
    <3>1. LocalOp(u.op)'
      BY <2>1, <2>6, <2>9, <2>3, OpsKept
    <3>2. EventOK(u)'
      BY <2>1, <2>6 DEF EventOK, Piped, NoEvent, NoRecord
    <3>3. PointOK(u)'
      BY <1>1, <2>1, <2>6, <3>1 DEF TaskOK, PointOK, ExecPcs, IdleTask, Outcomes
    <3>4. RequestOK(u)' /\ StepOK(u)' /\ AwaitedOK(u)'
      BY <2>1, <2>6, <2>11 DEF RequestOK, StepOK, AwaitedOK, ExecPcs
    <3>5. OnHost(u)'
      BY <1>1, <2>1, <2>3, <2>6 DEF TaskOK, OnHost
    <3>6. ExecutionOK(u)'
      <4>1. Owner(u.host)' <=> Owner(t.host)
        BY <2>3, <2>6 DEF Owner
      <4>2. Done(u.op, u.step)' /\ late'[u.op] = (IF ~Owner(t.host) THEN 1 ELSE 0)
        BY <2>5, <2>6
      <4>3. record'[u.op].status \in Started
        BY <2>2, <2>3, <2>6
      <4> QED BY <2>6, <2>10, <4>1, <4>2, <4>3 DEF ExecutionOK, ExecPcs
    <3> QED BY <3>2, <3>3, <3>4, <3>5, <3>6 DEF TaskOK
  <2>13. TasksOK'
    <3> SUFFICES ASSUME NEW v \in Workers PROVE TaskOK(task[v])'
      BY DEF TasksOK
    <3>1. CASE v = w
      BY <2>8, <2>12, <3>1
    <3>2. CASE v # w
      <4>1. HostKept(task[v]) /\ AgentKept(task[v])
        BY <2>3 DEF HostKept, AgentKept, OperationInv, TasksOK, TaskOK, AwaitedOK
      <4>2. HistoryKept(task[v])
        <5>1. task[v].pc \in ExecPcs => task[v].op # t.op
          BY <1>0, <1>1, <3>2 DEF Alone
        <5> QED BY <2>5, <5>1 DEF HistoryKept
      <4> QED BY <2>3, <2>8, <2>9, <3>2, <4>1, <4>2, OtherKept
    <3> QED BY <3>1, <3>2
  <2>14. Alone'
    <3>1. \A v \in Workers : task[v].pc \in ExecPcs /\ task[v].op = u.op => v = w
      BY <1>0, <1>1, <2>6 DEF Alone
    <3> QED BY <2>1, <2>6, <2>7, <2>11, <2>13, <3>1, AloneKept
  <2>15. AgentOK'
    <3>1. agent.pc \notin {"idle", "polled"} => RemoteOp(agent.op)
      BY DEF OperationInv, AgentOK, AgentFits, LedgerOK
    <3>2. agent.pc \notin {"idle", "polled"} =>
            performed'[agent.op] = performed[agent.op] /\ late'[agent.op] = late[agent.op]
      BY <2>4, <2>5, <3>1 DEF RemoteOp, Created
    <3>3. \A v \in Workers : task'[v].awaited => task[v].awaited /\ task'[v].pc = task[v].pc
      BY <2>6, <2>8, <2>11
    <3>4. epoch' \in Nat /\ epoch <= epoch'
      BY <1>1, <2>3, ConstantFacts DEF Typed
    <3> QED BY <1>1, <2>3, <2>9, <3>2, <3>3, <3>4, AgentRemains DEF OperationInv
  <2>16. RecordsOK' /\ LedgerOK' /\ ReceiptsAgree' /\ TermsOK'
    <3>1. RecordsOK /\ LedgerOK /\ ReceiptsAgree /\ TermsOK
      BY DEF OperationInv
    <3>2. \A o : RemoteOp(o)' <=> RemoteOp(o)
      BY <2>3 DEF RemoteOp, Local, Created
    <3>3. RecordsOK' /\ LedgerOK'
      BY <2>3, <3>1, <3>2 DEF RecordsOK, LedgerOK
    <3>4. ReceiptsAgree'
      BY <2>3, <3>1 DEF ReceiptsAgree, Local, Created
    <3> QED BY <2>3, <3>1, <3>3, <3>4 DEF TermsOK
  <2>17. Typed'
    <3>1. task' \in [Workers -> Tasks]
      BY <2>7
    <3> QED BY <1>1, <2>3, <2>5, <3>1 DEF Typed
  <2> QED BY <2>5, <2>13, <2>14, <2>15, <2>16, <2>17 DEF OperationInv
<1> QED BY <1>0, <1>4, <1>5 DEF Effect
-----------------------------------------------------------------------------
(* Requests of the agent.                                                  *)

LEMMA AuthenticateKeeps ==
  ASSUME OperationInv, NEW w \in Workers, Authenticate(w)
  PROVE  OperationInv'
<1> DEFINE t == task[w]
           next == IF FenceCurrent(t.host) THEN "handle" ELSE "fence"
           u == [t EXCEPT !.pc = next, !.then = "handle"]
<1>1. TaskOK(t) /\ t \in Tasks /\ t.pc = "auth" /\ Typed
  BY DEF OperationInv, TasksOK, Typed, Authenticate, At
<1>2. t.does \in AgentDoes /\ t.event = NoEvent /\ t.step = 1 /\ t.out # "succeeded"
  BY <1>1 DEF TaskOK, PointOK, EventOK, StepOK, ExecPcs, Piped
<1>3. UNCHANGED <<journal, driver, seen, target, ledger, past, history, faults>>
  BY DEF Authenticate
<1>4. CASE Fails(w)
  BY <1>1, <1>3, <1>4, QuietFails
<1>5. CASE t.epoch = epoch /\ t.does = "receipt" /\ IsTerminal(t.op) /\ Finishes(w, t.op, record[t.op])
  <2>1. t.op \in Operations
    BY <1>1, <1>5 DEF TaskOK, RequestOK, RemoteOp, Created
  <2>2. MayAnswer(w, TRUE, t.op, record[t.op])
    BY <1>1, <1>5, <2>1 DEF MayAnswer, Typed, IsTerminal, Terminal
  <2> QED BY <1>1, <1>3, <1>5, <2>2, QuietFinishes
<1>6. CASE t.epoch = epoch /\ SetTask(w, u) /\ UNCHANGED <<hosts, agent>>
  <2>1. next \in {"handle", "fence"}
    OBVIOUS
  <2> HIDE DEF next
  <2>2. u \in Tasks
    BY <1>1, <2>1 DEF Tasks, Pcs
  <2>3. SameWork(t, u) /\ u.pc = next /\ u.then = "handle" /\ u.event = t.event
    BY <1>1 DEF Tasks, SameWork
  <2>4. Quiet(w, u)
    BY <1>3, <1>6, QuietFrame
  <2> HIDE DEF t, u
  <2>5. SameRequest(t, u)
    BY <1>1, <2>3 DEF SameRequest, SameWork
  <2>6. EventOK(u) /\ PointOK(u)
    BY <1>1, <1>2, <2>1, <2>3 DEF TaskOK, EventOK, PointOK, FencesFor, SameWork, Piped, ExecPcs, IdleTask,
                                  AgentDoes
  <2>7. StepOK(u) /\ ExecutionOK(u)
    BY <1>2, <2>1, <2>3 DEF StepOK, ExecutionOK, SameWork, ExecPcs
  <2> QED BY <1>6, <2>1, <2>2, <2>3, <2>4, <2>5, <2>6, <2>7, QuietStep DEF t, ExecPcs
<1> QED BY <1>4, <1>5, <1>6 DEF Authenticate

\* What a handler may propose for an operation of the remote target.
MayPropose(w, o, n, then) ==
  \A u \in Tasks :
    /\ SameWork(task[w], u) /\ u.event.kind = "record" /\ u.event.op = o
    /\ u.event.was = record[o] /\ u.event.new = n /\ u.then = then /\ u.retry = "handle"
    => Expiring(u) \/ Progressing(u) \/ Reporting(u)

LEMMA HandlerProposes ==
  ASSUME OperationInv, NEW w \in Workers, At(w, "handle"), NEW o \in Operations, NEW n \in Records,
         NEW then \in Pcs,
         Propose(w, task[w], RecordEvent(o, n), FALSE, then, "handle"), UNCHANGED <<hosts, agent>>,
         UNCHANGED <<journal, driver, target, ledger, past, history, faults>>,
         \E h : Sync(h), MayPropose(w, o, n, then)
  PROVE  OperationInv'
<1> DEFINE t == task[w]
           e == RecordEvent(o, n)
<1>1. TaskOK(t) /\ t.pc = "handle" /\ Typed
  BY DEF OperationInv, TasksOK, At
<1>2. t.step = 1 /\ t.out # "succeeded"
  BY <1>1 DEF TaskOK, StepOK, ExecPcs, Piped
<1>3. e \in Events /\ e.kind = "record" /\ e.op = o /\ e.was = record[o] /\ e.new = n
  BY <1>1, RecordEventFacts
<1>4. "handle" \in Pcs
  BY DEF Pcs
<1>5. Propose(w, task[w], e, FALSE, then, "handle")
  OBVIOUS
<1> HIDE DEF e
<1>6. \A u \in Tasks : Proposal(task[w], e, FALSE, then, "handle", u) =>
        StepOK(u) /\ (Claiming(u) \/ Recording(u))
  <2> SUFFICES ASSUME NEW u \in Tasks, Proposal(task[w], e, FALSE, then, "handle", u)
               PROVE  StepOK(u) /\ Recording(u)
    OBVIOUS
  <2>1. /\ SameWork(t, u) /\ u.event = e /\ u.then = then /\ u.retry = "handle"
        /\ u.pc \in {"base", "check"}
    BY <1>3 DEF Proposal
  <2>2. StepOK(u)
    BY <1>2, <2>1 DEF StepOK, SameWork
  <2> QED BY <1>3, <2>1, <2>2 DEF Recording, MayPropose
<1> QED BY <1>1, <1>3, <1>4, <1>5, <1>6, ProposeKeeps

LEMMA NextOperationKeeps ==
  ASSUME OperationInv, NEW w \in Workers, At(w, "handle"), task[w].does = "next",
         NextOperation(w, task[w]), Sync(task[w].host),
         UNCHANGED <<journal, driver, target, ledger, past, history, faults>>
  PROVE  OperationInv'
<1> DEFINE t == task[w]
           acts == {o \in Created : /\ ~Local(o) /\ ~IsTerminal(o)
                                    /\ Overdue(t, o) \/ record[o].epoch = t.epoch}
<1>1. Typed /\ t.pc = "handle" /\ record' = record
  BY DEF OperationInv, At, journal
<1>2. CASE Finishes(w, 0, NoRecord)
  <2>1. MayAnswer(w, TRUE, 0, NoRecord)
    BY <1>1, RecordTypes DEF MayAnswer
  <2> QED BY <1>1, <1>2, <2>1, QuietFinishes
<1>3. acts # {} => Min(acts) \in acts
  <2>1. acts \in SUBSET Operations
    BY DEF Created
  <2> HIDE DEF acts
  <2> QED BY <2>1, MinOfOperations
<1>4. PICK o : o = Min(acts)
  OBVIOUS
<1>5. o \in acts => o \in Operations /\ RemoteOp(o) /\ record[o] \in Records
  BY <1>1 DEF RemoteOp, Created, Typed
<1>6. CASE acts # {} /\ Finishes(w, o, record[o])
  <2>1. MayAnswer(w, TRUE, o, record[o])
    BY <1>1, <1>3, <1>4, <1>5, <1>6 DEF MayAnswer, Started
  <2> QED BY <1>1, <1>6, <2>1, QuietFinishes
<1>7. CASE /\ acts # {} /\ Overdue(t, o) /\ UNCHANGED <<hosts, agent>>
           /\ Propose(w, t, RecordEvent(o, [record[o] EXCEPT !.status = "expired"]), FALSE,
                      "handle", "handle")
  <2>1. PICK n : n = [record[o] EXCEPT !.status = "expired"]
    OBVIOUS
  <2>2. RemoteOp(o) /\ o \in Operations /\ record[o] \in Records /\ record[o].status = "requested"
    BY <1>3, <1>4, <1>5, <1>7 DEF Overdue
  <2>3. n \in Records /\ n.status = "expired" /\ n.key = record[o].key
    BY <2>1, <2>2 DEF Records, Statuses, Terminal
  <2>4. MayPropose(w, o, n, "handle")
    BY <2>2, <2>3 DEF MayPropose, Expiring, SameWork
  <2>5. "handle" \in Pcs
    BY DEF Pcs
  <2>6. Propose(w, task[w], RecordEvent(o, n), FALSE, "handle", "handle")
    BY <1>7, <2>1
  <2> HIDE DEF acts
  <2>7. \E h : Sync(h)
    OBVIOUS
  <2> QED BY <1>7, <2>2, <2>3, <2>4, <2>5, <2>6, <2>7, HandlerProposes
<1> HIDE DEF acts
<1> QED BY <1>2, <1>4, <1>6, <1>7 DEF NextOperation, acts

LEMMA ProgressOperationKeeps ==
  ASSUME OperationInv, NEW w \in Workers, At(w, "handle"), task[w].does = "progress",
         ProgressOperation(w, task[w]), Sync(task[w].host),
         UNCHANGED <<journal, driver, target, ledger, past, history, faults>>
  PROVE  OperationInv'
<1> DEFINE t == task[w]
           r == record[t.op]
<1>1. Typed /\ t.pc = "handle" /\ record' = record /\ t \in Tasks /\ RequestOK(t)
  BY DEF OperationInv, At, journal, Typed, TasksOK, TaskOK
<1>2. RemoteOp(t.op) /\ t.op \in Operations /\ r \in Records /\ t.status \in {"accepted", "running"}
  BY <1>1 DEF RequestOK, RemoteOp, Created, Typed
<1>3. CASE Fails(w)
  BY <1>1, <1>3, QuietFails
<1>4. CASE Finishes(w, t.op, r)
  <2>1. MayAnswer(w, TRUE, t.op, r)
    BY <1>1, <1>2 DEF MayAnswer, Started
  <2> QED BY <1>1, <1>4, <2>1, QuietFinishes
<1>5. CASE /\ r.status \in {"requested", "accepted"} /\ UNCHANGED <<hosts, agent>>
           /\ Propose(w, t, RecordEvent(t.op, [r EXCEPT !.status = t.status, !.exec = t.exec]),
                      FALSE, "done", "handle")
  <2>1. PICK n : n = [r EXCEPT !.status = t.status, !.exec = t.exec]
    OBVIOUS
  <2>2. n \in Records /\ n.status = t.status /\ n.key = r.key /\ n.exec = t.exec
    BY <1>1, <1>2, <2>1 DEF Records, Tasks
  <2>3. MayPropose(w, t.op, n, "done")
    BY <1>5, <2>2 DEF MayPropose, Progressing, SameWork
  <2>4. "done" \in Pcs
    BY DEF Pcs
  <2>5. PICK o : o = t.op
    OBVIOUS
  <2>6. Propose(w, task[w], RecordEvent(o, n), FALSE, "done", "handle")
    BY <1>5, <2>1, <2>5
  <2>7. o \in Operations /\ r = record[o]
    BY <1>2, <2>5
  <2>8. MayPropose(w, o, n, "done")
    BY <2>3, <2>5
  <2>9. \E h : Sync(h)
    OBVIOUS
  <2> QED BY <1>5, <2>2, <2>4, <2>6, <2>7, <2>8, <2>9, HandlerProposes
<1> QED BY <1>3, <1>4, <1>5 DEF ProgressOperation

LEMMA CompleteOperationKeeps ==
  ASSUME OperationInv, NEW w \in Workers, At(w, "handle"), task[w].does = "receipt",
         CompleteOperation(w, task[w]), Sync(task[w].host),
         UNCHANGED <<journal, driver, target, ledger, past, history, faults>>
  PROVE  OperationInv'
<1> DEFINE t == task[w]
           r == record[t.op]
<1>1. Typed /\ t.pc = "handle" /\ record' = record /\ t \in Tasks /\ RequestOK(t)
  BY DEF OperationInv, At, journal, Typed, TasksOK, TaskOK
<1>2. RemoteOp(t.op) /\ t.op \in Operations /\ r \in Records /\ t.status \in Outcomes
  BY <1>1 DEF RequestOK, RemoteOp, Created, Typed
<1>3. CASE Fails(w)
  BY <1>1, <1>3, QuietFails
<1>4. CASE Finishes(w, t.op, r)
  <2>1. MayAnswer(w, TRUE, t.op, r)
    BY <1>1, <1>2 DEF MayAnswer, Started
  <2> QED BY <1>1, <1>4, <2>1, QuietFinishes
<1>5. CASE /\ r.status \in {"accepted", "running"} /\ UNCHANGED <<hosts, agent>>
           /\ Propose(w, t, RecordEvent(t.op, [r EXCEPT !.status = t.status]), FALSE, "done", "handle")
  <2>1. PICK n : n = [r EXCEPT !.status = t.status]
    OBVIOUS
  <2>2. n \in Records /\ n.status = t.status /\ n.key = r.key /\ n.exec = r.exec
    BY <1>1, <1>2, <2>1 DEF Records, Tasks
  <2>3. MayPropose(w, t.op, n, "done")
    BY <1>5, <2>2 DEF MayPropose, Reporting, SameWork
  <2>4. "done" \in Pcs
    BY DEF Pcs
  <2>5. PICK o : o = t.op
    OBVIOUS
  <2>6. Propose(w, task[w], RecordEvent(o, n), FALSE, "done", "handle")
    BY <1>5, <2>1, <2>5
  <2>7. o \in Operations /\ r = record[o]
    BY <1>2, <2>5
  <2>8. MayPropose(w, o, n, "done")
    BY <2>3, <2>5
  <2>9. \E h : Sync(h)
    OBVIOUS
  <2> QED BY <1>5, <2>2, <2>4, <2>6, <2>7, <2>8, <2>9, HandlerProposes
<1> QED BY <1>3, <1>4, <1>5 DEF CompleteOperation

LEMMA HandleKeeps ==
  ASSUME OperationInv, NEW w \in Workers, Handle(w)
  PROVE  OperationInv'
<1>1. At(w, "handle") /\ UNCHANGED <<journal, driver, target, ledger, past, history, faults>>
  BY DEF Handle
<1>2. CASE Fails(w) /\ UNCHANGED seen
  BY <1>1, <1>2, QuietFails DEF At
<1>3. CASE Sync(task[w].host) /\ task[w].does = "next" /\ NextOperation(w, task[w])
  BY <1>1, <1>3, NextOperationKeeps
<1>4. CASE Sync(task[w].host) /\ task[w].does = "progress" /\ ProgressOperation(w, task[w])
  BY <1>1, <1>4, ProgressOperationKeeps
<1>5. CASE Sync(task[w].host) /\ task[w].does = "receipt" /\ CompleteOperation(w, task[w])
  BY <1>1, <1>5, CompleteOperationKeeps
<1> QED BY <1>2, <1>3, <1>4, <1>5 DEF Handle

LEMMA DropHandlerKeeps ==
  ASSUME OperationInv, NEW w \in Workers, DropHandler(w)
  PROVE  OperationInv'
<1>1. /\ SetTask(w, IdleTask)
      /\ UNCHANGED <<journal, driver, hosts, seen, target, agent, ledger, past, history, faults>>
  BY DEF DropHandler
<1>2. Quiet(w, IdleTask)
  BY <1>1, QuietFrame
<1>3. MayBecome(w, IdleTask)
  BY DEF MayBecome, IdleTask, ExecPcs
<1> QED BY <1>2, <1>3, IdleIsOK, RecordTypes, QuietKeeps
-----------------------------------------------------------------------------
(* The Hosts, the clock and the remote target.                             *)

\* A step that leaves the journal, the ledger and the effects alone.
LEMMA StillKeeps ==
  ASSUME OperationInv, UNCHANGED <<journal, driver, ledger, history>>,
         Typed', TasksOK', Alone', TermsOK', AgentOK'
  PROVE  OperationInv'
<1>1. UNCHANGED <<record, driver, ledger, history>>
  BY DEF journal
<1> QED BY <1>1, DurableKept DEF OperationInv, Durable

LEMMA StillGrows ==
  ASSUME UNCHANGED <<journal, driver, ledger, history>>
  PROVE  JournalGrows /\ LedgerGrows /\ UNCHANGED <<record, driver, performed, late>>
         /\ \A t : HistoryKept(t)
BY DEF journal, history, JournalGrows, LedgerGrows, Created, HistoryKept

LEMMA TasksSame ==
  ASSUME OperationInv, UNCHANGED <<journal, driver, hosts, ledger, history, task, agent>>
  PROVE  TasksOK' /\ Alone' /\ TermsOK'
<1>1. JournalGrows /\ LedgerGrows /\ \A t : HistoryKept(t)
  BY StillGrows
<1>2. UNCHANGED <<term, mine, phase>>
  BY DEF hosts
<1>3. TasksOK'
  <2> SUFFICES ASSUME NEW v \in Workers PROVE TaskOK(task[v])'
    BY DEF TasksOK
  <2>1. HostKept(task[v]) /\ AgentKept(task[v])
    BY <1>2 DEF HostKept, AgentKept, OperationInv, TasksOK, TaskOK, AwaitedOK
  <2> QED BY <1>1, <2>1, OtherKept
<1> QED BY <1>2, <1>3 DEF OperationInv, Alone, TermsOK

LEMMA ExpireKeeps ==
  ASSUME OperationInv, NEW o \in Operations, Expire(o)
  PROVE  OperationInv'
<1>1. UNCHANGED <<journal, driver, hosts, seen, task, target, agent, ledger, history, faults>>
      /\ past' = past \cup {o}
  BY DEF Expire
<1>2. TasksOK' /\ Alone' /\ TermsOK'
  BY <1>1, TasksSame
<1>3. Typed'
  BY <1>1 DEF OperationInv, Typed, journal, hosts, target, history
<1>4. AgentOK'
  <2>1. JournalGrows /\ UNCHANGED <<performed, late, epoch>> /\ epoch \in Nat
    BY <1>1, StillGrows, ConstantFacts DEF target, OperationInv, Typed
  <2> QED BY <1>1, <2>1, AgentRemains DEF OperationInv
<1> QED BY <1>1, <1>2, <1>3, <1>4, StillKeeps

LEMMA RevokeKeeps ==
  ASSUME OperationInv, Revoke
  PROVE  OperationInv'
<1>1. /\ UNCHANGED <<journal, driver, hosts, seen, task, online, agent, ledger, past, history, faults>>
      /\ epoch' = epoch + 1 /\ revoked' = TRUE /\ epoch < MaxEpoch
  BY DEF Revoke
<1>2. TasksOK' /\ Alone' /\ TermsOK'
  BY <1>1, TasksSame
<1>3. epoch \in 1 .. MaxEpoch
  BY DEF OperationInv, Typed
<1>4. Typed'
  <2>1. epoch' \in 1 .. MaxEpoch
    BY <1>1, <1>3, ConstantFacts
  <2> QED BY <1>1, <2>1 DEF OperationInv, Typed, journal, hosts, history
<1>5. AgentOK'
  <2>1. JournalGrows /\ UNCHANGED <<performed, late>>
    BY <1>1, StillGrows
  <2>2. epoch' \in Nat /\ epoch <= epoch'
    BY <1>1, <1>3, ConstantFacts
  <2> QED BY <1>1, <2>1, <2>2, AgentRemains DEF OperationInv
<1> QED BY <1>1, <1>2, <1>4, <1>5, StillKeeps

LEMMA HeartbeatLapsesKeeps ==
  ASSUME OperationInv, HeartbeatLapses
  PROVE  OperationInv'
<1>1. /\ UNCHANGED <<journal, driver, hosts, seen, task, epoch, revoked, agent, ledger, past, history>>
      /\ online' = [h \in Hosts |-> FALSE] /\ Fault
  BY DEF HeartbeatLapses
<1>2. TasksOK' /\ Alone' /\ TermsOK'
  BY <1>1, TasksSame
<1>3. Typed'
  <2>1. online' \in [Hosts -> BOOLEAN]
    BY <1>1
  <2>2. faults' \in 0 .. MaxFaults
    BY <1>1, SyncTypes DEF OperationInv
  <2> QED BY <1>1, <2>1, <2>2 DEF OperationInv, Typed, journal, hosts, history
<1>4. AgentOK'
  <2>1. JournalGrows /\ UNCHANGED <<performed, late>> /\ epoch \in Nat
    BY <1>1, StillGrows, ConstantFacts DEF OperationInv, Typed
  <2> QED BY <1>1, <2>1, AgentRemains DEF OperationInv
<1> QED BY <1>1, <1>2, <1>3, <1>4, StillKeeps

LEMMA BootKeeps ==
  ASSUME OperationInv, NEW w \in Workers, NEW h \in Hosts, Boot(w, h)
  PROVE  OperationInv'
<1> DEFINE u == [IdleTask EXCEPT !.pc = StartsWith, !.does = "boot", !.host = h, !.then = "recover"]
<1>1. /\ phase[h] = "down" /\ task[w].pc = "idle" /\ term < MaxTerm
      /\ term' = term + 1 /\ mine' = [mine EXCEPT ![h] = term + 1]
      /\ phase' = [phase EXCEPT ![h] = "booting"] /\ Sync(h)
      /\ online' = [online EXCEPT ![h] = FALSE] /\ task' = [task EXCEPT ![w] = u]
      /\ UNCHANGED <<journal, driver, executing, epoch, revoked, agent, ledger, past, history, faults>>
  BY DEF Boot, At, SetTask
<1>2. Typed /\ TasksOK /\ Alone /\ TermsOK /\ AgentOK
  BY DEF OperationInv
<1>3. u \in Tasks
  BY RecordTypes DEF Tasks, Pcs, HostDoes, StartsWith
<1>4. /\ u.pc = "fence" /\ u.does = "boot" /\ u.host = h /\ u.then = "recover"
      /\ u.event = NoEvent /\ u.awaited = FALSE /\ u.step = 1 /\ u.out = "none"
  BY DEF IdleTask, StartsWith
<1> HIDE DEF u
<1>5. /\ task \in [Workers -> Tasks] /\ mine \in [Hosts -> 0 .. MaxTerm] /\ term \in 0 .. MaxTerm
      /\ phase \in [Hosts -> {"down", "booting", "up"}] /\ MaxTerm \in Nat
  BY <1>2, ConstantFacts DEF Typed
<1>6. task'[w] = u /\ \A v \in Workers \ {w} : task'[v] = task[v]
  BY <1>1, <1>5
<1>7. /\ mine'[h] = term + 1 /\ phase'[h] = "booting"
      /\ \A g \in Hosts \ {h} : mine'[g] = mine[g] /\ phase'[g] = phase[g]
  BY <1>1, <1>5
<1>8. JournalGrows /\ LedgerGrows /\ UNCHANGED <<record, driver, performed, late>>
      /\ \A t : HistoryKept(t)
  BY <1>1, StillGrows
<1>9. \A v \in Workers : task[v].pc # "idle" => task[v].host \in Hosts \ {h}
  BY <1>1, <1>2 DEF TasksOK, TaskOK, OnHost
<1>10. TaskOK(u)'
  <2>1. EventOK(u)'
    BY <1>4 DEF EventOK, FencesFor, Piped, NoEvent, NoRecord
  <2>2. PointOK(u)'
    BY <1>4 DEF PointOK, ExecPcs, IdleTask
  <2>3. OnHost(u)'
    BY <1>4, <1>7 DEF OnHost
  <2>4. RequestOK(u)' /\ StepOK(u)' /\ ExecutionOK(u)' /\ AwaitedOK(u)'
    BY <1>4 DEF RequestOK, StepOK, ExecutionOK, AwaitedOK, ExecPcs
  <2> QED BY <2>1, <2>2, <2>3, <2>4 DEF TaskOK
<1>11. TasksOK'
  <2> SUFFICES ASSUME NEW v \in Workers PROVE TaskOK(task[v])'
    BY DEF TasksOK
  <2>1. CASE v = w
    BY <1>6, <1>10, <2>1
  <2>2. CASE v # w
    <3>1. HostKept(task[v])
      <4>1. \A g \in Hosts : mine[g] <= term
        BY <1>2 DEF TermsOK
      <4> QED BY <1>1, <1>5, <1>7, <1>9, <4>1 DEF HostKept
    <3>2. AgentKept(task[v])
      BY <1>1, <1>2 DEF AgentKept, TasksOK, TaskOK, AwaitedOK
    <3> QED BY <1>6, <1>8, <2>2, <3>1, <3>2, OtherKept
  <2> QED BY <2>1, <2>2
<1>12. Alone'
  <2>1. \A v \in Workers : task[v].does = "boot" => task[v].pc # "idle"
    BY <1>2 DEF TasksOK, TaskOK, PointOK, IdleTask
  <2> SUFFICES ASSUME NEW x \in Workers, NEW v \in Workers, x # v,
                      \/ task'[x].pc \in ExecPcs /\ task'[v].pc \in ExecPcs /\ task'[x].op = task'[v].op
                      \/ task'[x].awaited /\ task'[v].awaited
                      \/ task'[x].does = "boot" /\ task'[v].pc # "idle" /\ task'[x].host = task'[v].host
               PROVE  FALSE
    BY DEF Alone
  <2>2. CASE x # w /\ v # w
    BY <1>2, <1>6, <2>2 DEF Alone
  <2>3. CASE x = w
    BY <1>4, <1>6, <1>9, <2>3 DEF ExecPcs
  <2>4. CASE v = w
    BY <1>4, <1>6, <1>9, <2>1, <2>4 DEF ExecPcs
  <2> QED BY <2>2, <2>3, <2>4
<1>13. TermsOK'
  <2>1. \A g \in Hosts : mine[g] \in Nat /\ mine[g] <= term /\ term \in Nat
    BY <1>2, <1>5 DEF TermsOK
  <2>2. \A g \in Hosts : mine'[g] <= term' /\ (mine'[g] = 0 <=> phase'[g] = "down")
    BY <1>1, <1>2, <1>7, <2>1 DEF TermsOK
  <2>3. \A f, g \in Hosts : mine'[f] = mine'[g] /\ mine'[f] # 0 => f = g
    BY <1>2, <1>7, <2>1 DEF TermsOK
  <2> QED BY <2>2, <2>3 DEF TermsOK
<1>14. Typed'
  <2>1. task' \in [Workers -> Tasks]
    BY <1>1, <1>3, <1>5
  <2>2. term' \in 0 .. MaxTerm /\ mine' \in [Hosts -> 0 .. MaxTerm]
    BY <1>1, <1>5
  <2>3. phase' \in [Hosts -> {"down", "booting", "up"}]
    BY <1>1, <1>5
  <2>4. online' \in [Hosts -> BOOLEAN]
    BY <1>1, <1>2 DEF Typed
  <2>5. seen' \in [Hosts -> 0 .. length]
    BY <1>1, <1>2, SyncTypes
  <2> QED BY <1>1, <1>2, <2>1, <2>2, <2>3, <2>4, <2>5 DEF Typed, journal, history
<1>15. AgentOK'
  <2>1. \A v \in Workers : task'[v].awaited => task[v].awaited /\ task'[v].pc = task[v].pc
    BY <1>4, <1>6
  <2>2. epoch' \in Nat /\ epoch <= epoch'
    BY <1>1, <1>2, ConstantFacts DEF Typed
  <2> QED BY <1>1, <1>2, <1>8, <2>1, <2>2, AgentRemains
<1> QED BY <1>1, <1>11, <1>12, <1>13, <1>14, <1>15, StillKeeps

\* An agent between two cycles.
LEMMA AgentIdleFits ==
  ASSUME NEW e \in 1 .. MaxEpoch, e <= epoch', agent' = AgentIdle(e)
  PROVE  agent' \in Agents /\ AgentOK'
<1>1. agent' \in Agents
  BY RecordTypes
<1>2. PICK a : a = AgentIdle(e)
  OBVIOUS
<1>3. /\ a.pc = "idle" /\ a.epoch = e /\ a.rec = NoRecord
  BY <1>2 DEF AgentIdle
<1>4. AgentIdle(e)' = AgentIdle(e) /\ NoRecord.status = "none"
  BY DEF AgentIdle, NoRecord
<1>5. AgentFits(a)'
  BY <1>2, <1>3, <1>4 DEF AgentFits, AgentRuns
<1> QED BY <1>1, <1>2, <1>5 DEF AgentOK

\* An agent that no longer waits.
LEMMA AgentLets ==
  ASSUME OperationInv, agent.waiting, agent' = [agent EXCEPT !.waiting = FALSE, !.ok = FALSE],
         UNCHANGED <<journal, driver, epoch, ledger, history>>, \A v \in Workers : ~task'[v].awaited
  PROVE  agent' \in Agents /\ AgentOK'
<1>1. agent \in Agents /\ AgentFits(agent)
  BY DEF OperationInv, Typed, AgentOK
<1>2. PICK a : a = [agent EXCEPT !.waiting = FALSE, !.ok = FALSE]
  OBVIOUS
<1>3. a \in Agents
  BY <1>1, <1>2 DEF Agents
<1>4. /\ a.pc = agent.pc /\ a.epoch = agent.epoch /\ a.waiting = FALSE /\ a.ok = FALSE
      /\ a.op = agent.op /\ a.rec = agent.rec /\ a.step = agent.step /\ a.out = agent.out
  BY <1>1, <1>2 DEF Agents
<1>5. UNCHANGED <<record, driver, epoch, ledger, performed, late>>
  BY DEF journal, history
<1>6. \A o, k : Done(o, k)' <=> Done(o, k)
  BY <1>5 DEF Done
<1>7. \A o : RemoteOp(o)' <=> RemoteOp(o)
  BY <1>5 DEF RemoteOp, Local, Created
<1>8. agent.pc # "idle" /\ agent.pc # "effect"
  BY <1>1 DEF AgentFits, AgentIdle
<1>9. AgentFits(a)'
  BY <1>1, <1>4, <1>5, <1>6, <1>7, <1>8 DEF AgentFits
<1> QED BY <1>2, <1>3, <1>9 DEF AgentOK

\* Nobody waits for the tasks any more.
LEMMA Unawaited ==
  ASSUME NEW t \in Tasks, TaskOK(t)
  PROVE  \E u \in Tasks : /\ u = [t EXCEPT !.awaited = FALSE] /\ TaskOK(u) /\ u.awaited = FALSE
                          /\ u.pc = t.pc /\ u.op = t.op /\ u.does = t.does /\ u.host = t.host
<1>1. PICK u : u = [t EXCEPT !.awaited = FALSE]
  OBVIOUS
<1>2. u \in Tasks
  BY <1>1 DEF Tasks
<1>3. /\ u.awaited = FALSE
      /\ u.pc = t.pc /\ u.event = t.event /\ u.then = t.then /\ u.retry = t.retry
      /\ u.does = t.does /\ u.host = t.host /\ u.op = t.op /\ u.key = t.key
      /\ u.exec = t.exec /\ u.status = t.status /\ u.step = t.step /\ u.out = t.out
  BY <1>1 DEF Tasks
<1>4. PointOK(u)
  <2>1. u.pc = "idle" <=> u = IdleTask
    <3>1. t.pc = "idle" => t = IdleTask
      BY DEF TaskOK, PointOK
    <3>2. [IdleTask EXCEPT !.awaited = FALSE] = IdleTask /\ IdleTask.pc = "idle"
      <4>1. IdleTask.awaited = FALSE /\ IdleTask.pc = "idle"
        BY DEF IdleTask
      <4>2. IdleTask \in Tasks
        BY RecordTypes
      <4> HIDE DEF IdleTask
      <4> QED BY <4>1, <4>2 DEF Tasks
    <3> QED BY <1>1, <1>3, <3>1, <3>2
  <2> QED BY <1>3, <2>1 DEF TaskOK, PointOK
<1>5. EventOK(u)
  BY <1>3 DEF TaskOK, EventOK, Fencing, FencesFor, Claiming, Recording, Creating, Advancing, Completing,
              Expiring, Progressing, Reporting
<1>6. RequestOK(u) /\ OnHost(u) /\ ExecutionOK(u) /\ AwaitedOK(u)
  BY <1>3 DEF TaskOK, RequestOK, OnHost, ExecutionOK, AwaitedOK
<1>7. StepOK(u)
  BY <1>3 DEF TaskOK, StepOK, Completing
<1>8. TaskOK(u)
  BY <1>4, <1>5, <1>6, <1>7 DEF TaskOK
<1> QED BY <1>1, <1>2, <1>3, <1>8

LEMMA TasksUnawaited ==
  ASSUME OperationInv, UNCHANGED <<journal, driver, hosts, ledger, history>>,
         task' = [w \in Workers |-> [task[w] EXCEPT !.awaited = FALSE]]
  PROVE  /\ task' \in [Workers -> Tasks] /\ TasksOK' /\ Alone' /\ TermsOK'
         /\ \A w \in Workers : ~task'[w].awaited
<1>1. task \in [Workers -> Tasks] /\ TasksOK /\ Alone /\ TermsOK
  BY DEF OperationInv, Typed
<1>2. UNCHANGED <<term, mine, phase>>
  BY DEF hosts
<1>3. JournalGrows /\ LedgerGrows /\ UNCHANGED <<record, driver, performed, late>>
      /\ \A t : HistoryKept(t)
  BY StillGrows
<1>4. \A w \in Workers : /\ task'[w] \in Tasks /\ TaskOK(task[w])' /\ task'[w].awaited = FALSE
                         /\ task'[w].pc = task[w].pc /\ task'[w].op = task[w].op
                         /\ task'[w].does = task[w].does /\ task'[w].host = task[w].host
  <2> SUFFICES ASSUME NEW w \in Workers
               PROVE  /\ task'[w] \in Tasks /\ TaskOK(task[w])' /\ task'[w].awaited = FALSE
                      /\ task'[w].pc = task[w].pc /\ task'[w].op = task[w].op
                      /\ task'[w].does = task[w].does /\ task'[w].host = task[w].host
    OBVIOUS
  <2>1. task[w] \in Tasks /\ TaskOK(task[w])
    BY <1>1 DEF TasksOK
  <2>2. PICK u \in Tasks : /\ u = [task[w] EXCEPT !.awaited = FALSE] /\ TaskOK(u) /\ u.awaited = FALSE
                           /\ u.pc = task[w].pc /\ u.op = task[w].op /\ u.does = task[w].does
                           /\ u.host = task[w].host
    BY <2>1, Unawaited
  <2>3. task'[w] = u
    BY <2>2
  <2>4. HostKept(u) /\ AgentKept(u)
    BY <1>2, <2>2 DEF HostKept, AgentKept
  <2>5. TaskOK(u)'
    BY <1>3, <2>2, <2>4, TaskKept
  <2> QED BY <2>2, <2>3, <2>5
<1>5. task' \in [Workers -> Tasks]
  <2>1. task' = [w \in Workers |-> task'[w]]
    OBVIOUS
  <2> QED BY <1>4, <2>1
<1>6. Alone'
  BY <1>1, <1>4 DEF Alone
<1> QED BY <1>1, <1>2, <1>4, <1>5, <1>6 DEF TasksOK, TermsOK

LEMMA EnrollKeeps ==
  ASSUME OperationInv, Enroll
  PROVE  OperationInv'
<1>1. /\ UNCHANGED <<journal, driver, hosts, seen, ledger, past, history, faults>>
      /\ epoch' = epoch + 1 /\ revoked' = FALSE /\ epoch < MaxEpoch
      /\ online' = [h \in Hosts |-> TRUE] /\ agent' = AgentIdle(epoch + 1)
      /\ task' = [w \in Workers |-> [task[w] EXCEPT !.awaited = FALSE]]
  BY DEF Enroll
<1>2. task' \in [Workers -> Tasks] /\ TasksOK' /\ Alone' /\ TermsOK'
  BY <1>1, TasksUnawaited
<1>3. epoch' \in 1 .. MaxEpoch
  BY <1>1, ConstantFacts DEF OperationInv, Typed
<1>4. agent' \in Agents /\ AgentOK'
  BY <1>1, <1>3, AgentIdleFits
<1>5. Typed'
  <2>1. online' \in [Hosts -> BOOLEAN]
    BY <1>1
  <2> QED BY <1>1, <1>2, <1>3, <1>4, <2>1 DEF OperationInv, Typed, journal, hosts, history
<1> QED BY <1>1, <1>2, <1>4, <1>5, StillKeeps

LEMMA AgentGivesUpKeeps ==
  ASSUME OperationInv, AgentGivesUp
  PROVE  OperationInv'
<1>1. /\ UNCHANGED <<journal, driver, hosts, seen, target, ledger, past, history>> /\ Fault
      /\ task' = [w \in Workers |-> [task[w] EXCEPT !.awaited = FALSE]]
      /\ \/ agent.waiting /\ agent' = [agent EXCEPT !.waiting = FALSE, !.ok = FALSE]
         \/ agent' = AgentIdle(agent.epoch)
  BY DEF AgentGivesUp
<1>2. /\ task' \in [Workers -> Tasks] /\ TasksOK' /\ Alone' /\ TermsOK'
      /\ \A w \in Workers : ~task'[w].awaited
  BY <1>1, TasksUnawaited
<1>3. epoch' = epoch /\ agent.epoch \in 1 .. MaxEpoch /\ agent.epoch <= epoch
  BY <1>1 DEF target, OperationInv, Typed, Agents, AgentOK, AgentFits
<1>4. agent' \in Agents /\ AgentOK'
  BY <1>1, <1>2, <1>3, AgentIdleFits, AgentLets
<1>5. Typed'
  <2>1. faults' \in 0 .. MaxFaults
    BY <1>1, SyncTypes DEF OperationInv
  <2> QED BY <1>1, <1>2, <1>4, <2>1 DEF OperationInv, Typed, journal, hosts, history, target
<1> QED BY <1>1, <1>2, <1>4, <1>5, StillKeeps

LEMMA CrashKeeps ==
  ASSUME OperationInv, NEW h \in Hosts, Crash(h)
  PROVE  OperationInv'
<1>1. /\ UNCHANGED <<journal, driver, term, seen, target, ledger, past, history>> /\ Fault
      /\ phase' = [phase EXCEPT ![h] = "down"] /\ mine' = [mine EXCEPT ![h] = 0]
      /\ executing' = [executing EXCEPT ![h] = [o \in Operations |-> None]]
      /\ task' = [w \in Workers |-> IF task[w].host = h THEN IdleTask ELSE task[w]]
      /\ agent' = IF \E w \in Workers : task[w].host = h /\ task[w].awaited
                  THEN [agent EXCEPT !.waiting = FALSE, !.ok = FALSE] ELSE agent
  BY DEF Crash
<1>2. Typed /\ TasksOK /\ Alone /\ TermsOK /\ AgentOK
  BY DEF OperationInv
<1>3. /\ task \in [Workers -> Tasks] /\ mine \in [Hosts -> 0 .. MaxTerm] /\ term \in 0 .. MaxTerm
      /\ phase \in [Hosts -> {"down", "booting", "up"}] /\ MaxTerm \in Nat
  BY <1>2, ConstantFacts DEF Typed
<1>4. JournalGrows /\ LedgerGrows /\ UNCHANGED <<record, driver, performed, late>>
      /\ \A t : HistoryKept(t)
  BY <1>1, StillGrows
<1>5. \A v \in Workers : task'[v] = IF task[v].host = h THEN IdleTask ELSE task[v]
  BY <1>1
<1>6. /\ mine'[h] = 0 /\ phase'[h] = "down"
      /\ \A g \in Hosts \ {h} : mine'[g] = mine[g] /\ phase'[g] = phase[g]
  BY <1>1, <1>3
<1>7. IdleTask.awaited = FALSE /\ IdleTask.pc = "idle" /\ IdleTask.does = "none"
  BY DEF IdleTask
<1>8. agent' \in Agents /\ AgentOK' /\ \A v \in Workers : AgentKept(task'[v])
  <2>1. CASE \E w \in Workers : task[w].host = h /\ task[w].awaited
    <3>1. PICK w \in Workers : task[w].host = h /\ task[w].awaited
      BY <2>1
    <3>2. \A v \in Workers : ~task'[v].awaited
      BY <1>2, <1>5, <1>7, <3>1 DEF Alone
    <3>3. agent.waiting
      BY <1>2, <3>1 DEF TasksOK, TaskOK, AwaitedOK
    <3>4. agent' = [agent EXCEPT !.waiting = FALSE, !.ok = FALSE]
      BY <1>1, <2>1
    <3>5. epoch' = epoch
      BY <1>1 DEF target
    <3> QED BY <1>1, <3>2, <3>3, <3>4, <3>5, AgentLets DEF AgentKept
  <2>2. CASE ~\E w \in Workers : task[w].host = h /\ task[w].awaited
    <3>1. agent' = agent
      BY <1>1, <2>2
    <3>2. \A v \in Workers : task'[v].awaited => task[v].awaited /\ task'[v].pc = task[v].pc
      BY <1>5, <1>7
    <3>3. \A v \in Workers : AgentKept(task'[v])
      <4>1. \A v \in Workers : task[v].awaited => agent.waiting
        BY <1>2 DEF TasksOK, TaskOK, AwaitedOK
      <4> QED BY <3>1, <3>2, <4>1 DEF AgentKept
    <3>4. epoch' \in Nat /\ epoch <= epoch'
      BY <1>1, <1>2, ConstantFacts DEF Typed, target
    <3>5. AgentOK'
      BY <1>1, <1>2, <1>4, <3>1, <3>2, <3>4, AgentRemains
    <3> QED BY <1>2, <3>1, <3>3, <3>5 DEF Typed
  <2> QED BY <2>1, <2>2
<1>9. TasksOK'
  <2> SUFFICES ASSUME NEW v \in Workers PROVE TaskOK(task[v])'
    BY DEF TasksOK
  <2>1. CASE task[v].host = h
    <3>1. TaskOK(IdleTask)'
      BY IdleIsOK, PTL
    <3>2. IdleTask' = IdleTask
      BY DEF IdleTask, NoClaim, NoEvent, NoRecord
    <3> QED BY <1>5, <2>1, <3>1, <3>2
  <2>2. CASE task[v].host # h
    <3>1. task'[v] = task[v]
      BY <1>5, <2>2
    <3>2. HostKept(task[v])
      <4>1. task[v].pc # "idle" => task[v].host \in Hosts \ {h}
        BY <1>2, <2>2 DEF TasksOK, TaskOK, OnHost
      <4> QED BY <1>1, <1>6, <4>1 DEF HostKept
    <3>3. AgentKept(task[v])
      BY <1>8, <3>1
    <3> QED BY <1>4, <3>1, <3>2, <3>3, OtherKept
  <2> QED BY <2>1, <2>2
<1>10. Alone'
  BY <1>2, <1>5, <1>7 DEF Alone, ExecPcs
<1>11. TermsOK'
  BY <1>1, <1>2, <1>3, <1>6 DEF TermsOK
<1>12. Typed'
  <2>1. task' \in [Workers -> Tasks]
    BY <1>1, <1>3, RecordTypes
  <2>2. mine' \in [Hosts -> 0 .. MaxTerm]
    BY <1>1, <1>3
  <2>3. phase' \in [Hosts -> {"down", "booting", "up"}]
    BY <1>1, <1>3
  <2>4. executing' \in [Hosts -> [Operations -> Workers \cup {None}]]
    BY <1>1, <1>2 DEF Typed
  <2>5. faults' \in 0 .. MaxFaults
    BY <1>1, <1>2, SyncTypes
  <2> QED BY <1>1, <1>2, <1>8, <2>1, <2>2, <2>3, <2>4, <2>5 DEF Typed, journal, target, history
<1> QED BY <1>1, <1>8, <1>9, <1>10, <1>11, <1>12, StillKeeps
-----------------------------------------------------------------------------
(* The agent.                                                              *)

Marks == [status : Statuses, exec : 0 .. MaxEpoch]

\* The ledger of the agent marks an operation that has not ended.
LEMMA LedgerMoves ==
  ASSUME OperationInv, UNCHANGED <<record, driver, history>>, NEW o \in Operations, RemoteOp(o),
         NEW m \in Marks, ledger' = [ledger EXCEPT ![o] = m], ledger[o].status \notin Outcomes,
         m.status \in {"accepted", "running"} \cup Outcomes, m.exec # 0,
         ledger[o] = NoLedger \/ ledger[o].exec = m.exec,
         m.status = "accepted" => ledger[o] = NoLedger,
         m.status = "succeeded" => Done(o, Steps)
  PROVE  LedgerGrows /\ Durable' /\ ledger' \in [Operations -> Marks]
<1>1. ledger \in [Operations -> Marks] /\ RecordsOK /\ LedgerOK /\ EffectsOK /\ ReceiptsAgree
  BY DEF OperationInv, Typed, Marks
<1>2. ledger'[o] = m /\ \A p \in Operations \ {o} : ledger'[p] = ledger[p]
  BY <1>1
<1>3. NoLedger.status = "none" /\ NoLedger.exec = 0
  BY DEF NoLedger
<1>4. m # NoLedger
  BY <1>3
<1> HIDE DEF NoLedger
<1>5. LedgerGrows
  BY <1>2, <1>4 DEF LedgerGrows
<1>6. \A p : RemoteOp(p)' <=> RemoteOp(p)
  BY DEF RemoteOp, Local, Created
<1>7. \A p, k : Done(p, k)' <=> Done(p, k)
  BY DEF Done, history
<1>8. RecordsOK'
  BY <1>1, <1>2, <1>3, <1>6 DEF RecordsOK
<1>9. LedgerOK'
  <2>1. NoLedger' = NoLedger
    BY DEF NoLedger
  <2> QED BY <1>1, <1>2, <1>6, <2>1 DEF LedgerOK
<1>10. EffectsOK'
  <2>1. UNCHANGED <<performed, late>>
    BY DEF history
  <2>2. m.status \in {"none", "accepted"} => ledger[o].status = "none"
    BY <1>3 DEF Outcomes
  <2> QED BY <1>1, <1>2, <1>6, <1>7, <2>1, <2>2 DEF EffectsOK
<1>11. ReceiptsAgree'
  <2> SUFFICES ASSUME NEW p \in Operations, RemoteOp(p), record[p].status \in Outcomes
               PROVE  ledger'[p] = [status |-> record[p].status, exec |-> record[p].exec]
    BY <1>6 DEF ReceiptsAgree, RemoteOp, Created, Terminal, Outcomes
  <2>1. ledger[p] = [status |-> record[p].status, exec |-> record[p].exec]
    BY <1>1 DEF ReceiptsAgree, RemoteOp, Terminal, Outcomes
  <2>2. p # o
    BY <2>1
  <2> QED BY <1>2, <2>1, <2>2
<1>12. ledger' \in [Operations -> Marks]
  BY <1>1
<1> QED BY <1>5, <1>8, <1>9, <1>10, <1>11, <1>12 DEF Durable

\* What holds of an agent that is about to ask.
FitsToAsk(a) ==
  /\ a.epoch <= epoch /\ a.pc \notin {"idle", "effect"}
  /\ a.pc = "polled" => a.op = 0 \/ RemoteOp(a.op)
  /\ a.pc # "polled" => a.op \in Operations /\ ledger[a.op] # NoLedger
  /\ a.pc \in {"polled", "accepted", "started", "confirmed"} => a.step = 1
  /\ a.pc \in AgentRuns =>
       ledger[a.op].status = "running" /\ Done(a.op, a.step - 1) /\ late[a.op] = 0
  /\ a.pc = "checked" =>
       /\ ledger[a.op].status = "running" /\ Done(a.op, a.step)
       /\ late[a.op] = 1 => a.epoch # epoch
  /\ a.pc = "finished" =>
       /\ ledger[a.op].status = "running" /\ a.out \in Outcomes
       /\ a.out = "succeeded" => Done(a.op, Steps)
  /\ a.rec.status = "running" => a.op \in Operations /\ record[a.op].status \in Started

LEMMA AskFits ==
  ASSUME NEW a, NEW b, FitsToAsk(a)', agent' = b,
         /\ b.pc = a.pc /\ b.epoch = a.epoch /\ b.op = a.op /\ b.rec = a.rec /\ b.step = a.step
         /\ b.out = a.out,
         a.pc = "checked" => (b.waiting \/ ~b.ok),
         \A w \in Workers : task'[w].awaited => task'[w].pc = "auth"
  PROVE  AgentOK'
<1>1. AgentFits(b)'
  BY DEF AgentFits, FitsToAsk
<1> QED BY <1>1 DEF AgentOK

\* What the agent may ask for.
MayAsk(does, status, x, a) ==
  /\ does = "next" <=> a.pc = "polled"
  /\ does # "next" => RemoteOp(a.op) /\ ledger[a.op] # NoLedger /\ x = ledger[a.op].exec
  /\ \/ does = "next" /\ status = "none" /\ x = 0
     \/ does = "progress" /\ status \in {"accepted", "running"}
     \/ does = "receipt" /\ status = ledger[a.op].status /\ status \in Outcomes

\* A step of the agent, which awaits nothing.
AgentMoves ==
  /\ ~agent.waiting
  /\ UNCHANGED <<journal, driver, hosts, seen, epoch, revoked, past, faults>>
  /\ online' \in [Hosts -> BOOLEAN] /\ ledger' \in [Operations -> Marks]
  /\ performed' \in [Operations -> [1 .. Steps -> Nat]] /\ late' \in [Operations -> Nat]
  /\ LedgerGrows /\ Durable' /\ \A v \in Workers : HistoryKept(task[v])

LEMMA AgentAlone ==
  ASSUME OperationInv, AgentMoves
  PROVE  /\ \A v \in Workers : ~task[v].awaited /\ AgentKept(task[v]) /\ HostKept(task[v])
         /\ JournalGrows /\ TermsOK'
         /\ UNCHANGED <<record, driver, term, mine, phase, epoch>>
<1>1. \A v \in Workers : ~task[v].awaited
  BY DEF OperationInv, TasksOK, TaskOK, AwaitedOK, AgentMoves
<1>2. UNCHANGED <<record, driver, term, mine, phase, epoch>>
  BY DEF AgentMoves, journal, hosts
<1> QED BY <1>1, <1>2 DEF AgentKept, HostKept, JournalGrows, TermsOK, OperationInv, Created

LEMMA AgentMoved ==
  ASSUME OperationInv, AgentMoves, task' \in [Workers -> Tasks], agent' \in Agents,
         TasksOK', Alone', AgentOK'
  PROVE  OperationInv'
<1>1. TermsOK'
  BY AgentAlone
<1>2. Typed'
  BY DEF OperationInv, Typed, AgentMoves, Marks, journal, hosts
<1> QED BY <1>1, <1>2 DEF OperationInv, AgentMoves, Durable

\* The tasks are left alone.
LEMMA AgentSteps ==
  ASSUME OperationInv, AgentMoves, UNCHANGED task, agent' \in Agents, AgentOK'
  PROVE  OperationInv'
<1>1. /\ \A v \in Workers : AgentKept(task[v]) /\ HostKept(task[v])
      /\ JournalGrows /\ UNCHANGED driver /\ LedgerGrows
  BY AgentAlone DEF AgentMoves
<1>2. TasksOK'
  <2> SUFFICES ASSUME NEW v \in Workers PROVE TaskOK(task[v])'
    BY DEF TasksOK
  <2> QED BY <1>1, OtherKept DEF AgentMoves
<1>3. Alone' /\ task' \in [Workers -> Tasks]
  BY DEF OperationInv, Alone, Typed
<1> QED BY <1>2, <1>3, AgentMoved

LEMMA AskKeeps ==
  ASSUME OperationInv, AgentMoves, NEW does, NEW status, NEW x, NEW a \in Agents,
         x \in Execs, MayAsk(does, status, x, a)', FitsToAsk(a)', Ask(does, status, x, a)
  PROVE  OperationInv'
<1>1. /\ \A v \in Workers : ~task[v].awaited /\ AgentKept(task[v]) /\ HostKept(task[v])
      /\ JournalGrows /\ UNCHANGED <<driver, phase>> /\ LedgerGrows
  BY AgentAlone DEF AgentMoves
<1>2. CASE agent' = [a EXCEPT !.ok = FALSE] /\ UNCHANGED task
  <2>1. PICK b : b = [a EXCEPT !.ok = FALSE]
    OBVIOUS
  <2>2. /\ b \in Agents /\ b.pc = a.pc /\ b.epoch = a.epoch /\ b.op = a.op /\ b.rec = a.rec
        /\ b.step = a.step /\ b.out = a.out /\ b.ok = FALSE
    BY <2>1 DEF Agents
  <2>3. AgentOK'
    BY <1>1, <1>2, <2>1, <2>2, AskFits
  <2> QED BY <1>2, <2>1, <2>2, <2>3, AgentSteps
<1>3. CASE \E w \in Workers, h \in Hosts :
             /\ At(w, "idle") /\ phase[h] = "up"
             /\ SetTask(w, [IdleTask EXCEPT !.pc = "auth", !.does = does, !.host = h,
                              !.awaited = TRUE, !.op = a.op, !.epoch = a.epoch, !.exec = x,
                              !.status = status])
             /\ agent' = [a EXCEPT !.waiting = TRUE]
  <2>1. PICK w \in Workers, h \in Hosts :
             /\ At(w, "idle") /\ phase[h] = "up"
             /\ SetTask(w, [IdleTask EXCEPT !.pc = "auth", !.does = does, !.host = h,
                              !.awaited = TRUE, !.op = a.op, !.epoch = a.epoch, !.exec = x,
                              !.status = status])
             /\ agent' = [a EXCEPT !.waiting = TRUE]
    BY <1>3
  <2>2. PICK u : u = [IdleTask EXCEPT !.pc = "auth", !.does = does, !.host = h,
                              !.awaited = TRUE, !.op = a.op, !.epoch = a.epoch, !.exec = x,
                              !.status = status]
    OBVIOUS
  <2>3. does \in AgentDoes /\ status \in Statuses
    BY DEF MayAsk, AgentDoes, Statuses, Terminal, Outcomes
  <2>4. a.epoch \in 0 .. MaxEpoch /\ a.op \in Operations \cup {0}
    BY ConstantFacts DEF Agents
  <2>5. u \in Tasks
    <3>1. "auth" \in Pcs
      BY DEF Pcs
    <3> QED BY <2>2, <2>3, <2>4, <3>1, RecordTypes DEF Tasks
  <2>6. /\ u.pc = "auth" /\ u.does = does /\ u.host = h /\ u.awaited = TRUE /\ u.op = a.op
        /\ u.epoch = a.epoch /\ u.exec = x /\ u.status = status /\ u.event = NoEvent
        /\ u.step = 1 /\ u.out = "none"
    BY <2>2 DEF IdleTask
  <2>7. task \in [Workers -> Tasks] /\ task' = [task EXCEPT ![w] = u]
    BY <2>1, <2>2 DEF OperationInv, Typed, SetTask
  <2>8. task'[w] = u /\ \A v \in Workers \ {w} : task'[v] = task[v]
    BY <2>7
  <2>9. PICK b : b = [a EXCEPT !.waiting = TRUE]
    OBVIOUS
  <2>10. /\ b \in Agents /\ b.pc = a.pc /\ b.epoch = a.epoch /\ b.op = a.op /\ b.rec = a.rec
         /\ b.step = a.step /\ b.out = a.out /\ b.waiting = TRUE
    BY <2>9 DEF Agents
  <2>11. agent' = b
    BY <2>1, <2>9
  <2>12. AgentOK'
    <3>1. \A v \in Workers : task'[v].awaited => task'[v].pc = "auth"
      BY <1>1, <2>6, <2>8
    <3> QED BY <2>10, <2>11, <3>1, AskFits
  <2>13. TaskOK(u)'
    <3>1. EventOK(u)'
      BY <2>6 DEF EventOK, Piped, NoEvent, NoRecord
    <3>2. PointOK(u)'
      BY <2>3, <2>6 DEF PointOK, ExecPcs, IdleTask, AgentDoes
    <3>3. RequestOK(u)'
      BY <2>6 DEF RequestOK, MayAsk
    <3>4. OnHost(u)'
      BY <1>1, <2>1, <2>3, <2>6 DEF OnHost, AgentDoes
    <3>5. StepOK(u)' /\ ExecutionOK(u)'
      BY <2>6 DEF StepOK, ExecutionOK, ExecPcs
    <3>6. AwaitedOK(u)'
      BY <2>3, <2>6, <2>10, <2>11 DEF AwaitedOK, MayAsk
    <3> QED BY <3>1, <3>2, <3>3, <3>4, <3>5, <3>6 DEF TaskOK
  <2>14. TasksOK'
    <3> SUFFICES ASSUME NEW v \in Workers PROVE TaskOK(task[v])'
      BY DEF TasksOK
    <3>1. CASE v = w
      BY <2>8, <2>13, <3>1
    <3>2. CASE v # w
      BY <1>1, <2>8, <3>2, OtherKept DEF AgentMoves
    <3> QED BY <3>1, <3>2
  <2>15. Alone'
    BY <1>1, <2>3, <2>6, <2>7, <2>14, AloneKept DEF ExecPcs, AgentDoes
  <2>16. task' \in [Workers -> Tasks]
    BY <2>5, <2>7
  <2> QED BY <2>10, <2>11, <2>12, <2>14, <2>15, <2>16, AgentMoved
<1> QED BY <1>2, <1>3 DEF Ask

\* A step of the agent that has no effect.
Effectless ==
  /\ ~agent.waiting
  /\ UNCHANGED <<journal, driver, hosts, seen, epoch, revoked, past, history, faults>>
  /\ online' \in [Hosts -> BOOLEAN]

LEMMA EffectlessMoves ==
  ASSUME OperationInv, Effectless, LedgerGrows, Durable', ledger' \in [Operations -> Marks]
  PROVE  AgentMoves
<1>1. \A t : HistoryKept(t)
  BY DEF HistoryKept, Effectless, history
<1>2. performed' \in [Operations -> [1 .. Steps -> Nat]] /\ late' \in [Operations -> Nat]
  BY DEF OperationInv, Typed, Effectless, history
<1> QED BY <1>1, <1>2 DEF AgentMoves, Effectless

LEMMA LedgerStays ==
  ASSUME OperationInv, Effectless, UNCHANGED ledger
  PROVE  AgentMoves
<1>1. Durable'
  BY DurableKept DEF Effectless, OperationInv, Durable, journal
<1>2. ledger' \in [Operations -> Marks]
  BY DEF OperationInv, Typed, Marks
<1> QED BY <1>1, <1>2, LedgerSame, EffectlessMoves

LEMMA CycleEndsKeeps ==
  ASSUME OperationInv, Effectless, CycleEnds
  PROVE  OperationInv'
<1>1. AgentMoves /\ UNCHANGED task /\ agent' = AgentIdle(agent.epoch)
  BY LedgerStays DEF CycleEnds
<1>2. agent.epoch \in 1 .. MaxEpoch /\ agent.epoch <= epoch'
  BY DEF OperationInv, Typed, Agents, AgentOK, AgentFits, Effectless
<1>3. agent' \in Agents /\ AgentOK'
  BY <1>1, <1>2, AgentIdleFits
<1> QED BY <1>1, <1>3, AgentSteps

LEMMA AgentFacts ==
  ASSUME OperationInv
  PROVE  /\ agent \in Agents /\ AgentFits(agent) /\ agent.epoch \in 1 .. MaxEpoch
         /\ agent.pc \notin {"idle", "polled"} =>
              /\ agent.op \in Operations /\ RemoteOp(agent.op) /\ ledger[agent.op] # NoLedger
              /\ ledger[agent.op] \in Marks /\ ledger[agent.op].exec \in Execs
              /\ ledger[agent.op].exec # 0
              /\ ledger[agent.op].status \in {"accepted", "running"} \cup Outcomes
<1>1. agent \in Agents /\ AgentFits(agent) /\ LedgerOK /\ ledger \in [Operations -> Marks]
  BY DEF OperationInv, Typed, Marks, AgentOK
<1>2. agent.epoch \in 1 .. MaxEpoch
  BY <1>1 DEF Agents
<1>3. agent.pc \notin {"idle", "polled"} => agent.op \in Operations /\ ledger[agent.op] # NoLedger
  BY <1>1 DEF AgentFits
<1>4. \A m \in Marks : m.exec \in Execs
  BY ConstantFacts DEF Marks, Execs
<1> QED BY <1>1, <1>2, <1>3, <1>4 DEF LedgerOK

\* The record of the agent after a step.
LEMMA AgentGoes ==
  ASSUME NEW p \in AgentPcs, agent \in Agents
  PROVE  \E a \in Agents :
           /\ a = [agent EXCEPT !.pc = p] /\ a.pc = p /\ a.epoch = agent.epoch /\ a.op = agent.op
           /\ a.rec = agent.rec /\ a.step = agent.step /\ a.out = agent.out
           /\ a.waiting = agent.waiting /\ a.ok = agent.ok
<1> DEFINE a == [agent EXCEPT !.pc = p]
<1>1. a \in Agents
  BY DEF Agents
<1>2. /\ a.pc = p /\ a.epoch = agent.epoch /\ a.op = agent.op
      /\ a.rec = agent.rec /\ a.step = agent.step /\ a.out = agent.out
      /\ a.waiting = agent.waiting /\ a.ok = agent.ok
  BY DEF Agents
<1> QED BY <1>1, <1>2

\* What an effectless step leaves true.
LEMMA EffectlessFacts ==
  ASSUME Effectless
  PROVE  /\ UNCHANGED <<record, driver, epoch, performed, late>>
         /\ \A o : RemoteOp(o)' <=> RemoteOp(o)
         /\ \A o, k : Done(o, k)' <=> Done(o, k)
         /\ NoLedger' = NoLedger
<1>1. UNCHANGED <<record, driver, epoch, performed, late>>
  BY DEF Effectless, journal, history
<1> QED BY <1>1 DEF RemoteOp, Local, Created, Done, NoLedger

LEMMA AgentCycleKeeps ==
  ASSUME OperationInv, AgentCycle
  PROVE  OperationInv'
<1>1. /\ agent.pc = "idle" /\ ~agent.waiting
      /\ UNCHANGED <<journal, driver, hosts, seen, epoch, revoked, past, history, faults>>
      /\ \/ /\ online' = [h \in Hosts |-> phase[h] = "up" \/ online[h]] /\ UNCHANGED ledger
            /\ Ask("next", "none", 0, [agent EXCEPT !.pc = "polled"])
         \/ CycleEnds /\ UNCHANGED online
  BY DEF AgentCycle, Ready, Heartbeat
<1>2. online' \in [Hosts -> BOOLEAN]
  BY <1>1 DEF OperationInv, Typed
<1>3. Effectless
  BY <1>1, <1>2 DEF Effectless
<1>4. CASE CycleEnds
  BY <1>3, <1>4, CycleEndsKeeps
<1>5. CASE UNCHANGED ledger /\ Ask("next", "none", 0, [agent EXCEPT !.pc = "polled"])
  <2>1. agent \in Agents /\ AgentFits(agent)
    BY AgentFacts
  <2>2. PICK a \in Agents :
           /\ a = [agent EXCEPT !.pc = "polled"] /\ a.pc = "polled" /\ a.epoch = agent.epoch
           /\ a.op = agent.op /\ a.rec = agent.rec /\ a.step = agent.step
    BY <2>1, AgentGoes DEF AgentPcs
  <2>3. agent.op = 0 /\ agent.rec = NoRecord /\ agent.step = 1 /\ agent.epoch <= epoch
    BY <1>1, <2>1 DEF AgentFits, AgentIdle
  <2>4. FitsToAsk(a)'
    BY <1>3, <2>2, <2>3, EffectlessFacts DEF FitsToAsk, AgentRuns, NoRecord
  <2>5. MayAsk("next", "none", 0, a)'
    BY <2>2 DEF MayAsk
  <2>6. 0 \in Execs
    BY ConstantFacts DEF Execs
  <2> QED BY <1>3, <1>5, <2>2, <2>4, <2>5, <2>6, LedgerStays, AskKeeps
<1> QED BY <1>1, <1>4, <1>5

LEMMA AgentStepEffectless ==
  ASSUME OperationInv, ~agent.waiting, AgentStep
  PROVE  Effectless
BY DEF AgentStep, Effectless, target, OperationInv, Typed

\* An agent whose ledger says Running asks whether it may go on.
LEMMA RunsOn ==
  ASSUME OperationInv, Effectless, UNCHANGED ledger, NEW a \in Agents,
         agent.pc \notin {"idle", "polled"}, ledger[agent.op].status = "running",
         a.op = agent.op, a.epoch = agent.epoch, a.rec = agent.rec,
         \/ /\ a.pc \in {"confirmed", "guarded"} /\ Done(a.op, a.step - 1) /\ late[a.op] = 0
            /\ a.pc = "confirmed" => a.step = 1
         \/ /\ a.pc = "finished" /\ a.out \in Outcomes /\ (a.out = "succeeded" => Done(a.op, Steps)),
         Ask("progress", "running", Mine.exec, a)
  PROVE  OperationInv'
<1>1. /\ AgentFits(agent) /\ agent.op \in Operations /\ RemoteOp(agent.op)
      /\ ledger[agent.op] # NoLedger /\ ledger[agent.op].exec \in Execs
  BY AgentFacts
<1>2. PICK x : x = Mine.exec
  OBVIOUS
<1>3. MayAsk("progress", "running", x, a)'
  BY <1>1, <1>2, EffectlessFacts DEF MayAsk, Mine
<1>4. FitsToAsk(a)'
  BY <1>1, EffectlessFacts DEF FitsToAsk, AgentFits, AgentRuns
<1>5. x \in Execs
  BY <1>1, <1>2 DEF Mine
<1> QED BY <1>2, <1>3, <1>4, <1>5, LedgerStays, AskKeeps

LEMMA AgentStartedKeeps ==
  ASSUME OperationInv, AgentStarted
  PROVE  OperationInv'
<1>1. agent.pc = "started" /\ ~agent.waiting
  BY DEF AgentStarted, Ready
<1>2. CASE CycleEnds /\ AgentStep
  BY <1>1, <1>2, AgentStepEffectless, CycleEndsKeeps
<1>3. CASE Heartbeat(AskRunning("confirmed"))
  <2>1. /\ UNCHANGED <<journal, driver, hosts, seen, epoch, revoked, past, history, faults>>
        /\ \/ /\ online' = [h \in Hosts |-> phase[h] = "up" \/ online[h]] /\ UNCHANGED ledger
              /\ Ask("progress", "running", Mine.exec, [agent EXCEPT !.pc = "confirmed"])
           \/ CycleEnds /\ UNCHANGED online
    BY <1>3 DEF Heartbeat, AskRunning
  <2>2. online' \in [Hosts -> BOOLEAN]
    BY <2>1 DEF OperationInv, Typed
  <2>3. Effectless
    BY <1>1, <2>1, <2>2 DEF Effectless
  <2>4. CASE CycleEnds
    BY <2>3, <2>4, CycleEndsKeeps
  <2>5. CASE UNCHANGED ledger
             /\ Ask("progress", "running", Mine.exec, [agent EXCEPT !.pc = "confirmed"])
    <3>1. agent \in Agents /\ AgentFits(agent)
      BY AgentFacts
    <3>2. PICK a \in Agents :
             /\ a = [agent EXCEPT !.pc = "confirmed"] /\ a.pc = "confirmed" /\ a.epoch = agent.epoch
             /\ a.op = agent.op /\ a.rec = agent.rec /\ a.step = agent.step
      BY <3>1, AgentGoes DEF AgentPcs, AgentRuns
    <3>3. ledger[agent.op].status = "running" /\ Done(agent.op, agent.step - 1) /\ late[agent.op] = 0
          /\ agent.step = 1
      BY <1>1, <3>1 DEF AgentFits, AgentRuns
    <3> QED BY <1>1, <2>3, <2>5, <3>2, <3>3, RunsOn
  <2> QED BY <2>1, <2>4, <2>5
<1> QED BY <1>2, <1>3 DEF AgentStarted

LEMMA AgentEnterKeeps ==
  ASSUME OperationInv, AgentEnter
  PROVE  OperationInv'
<1>1. agent.pc = "confirmed" /\ ~agent.waiting /\ AgentStep
  BY DEF AgentEnter, Ready
<1>2. Effectless
  BY <1>1, AgentStepEffectless
<1>3. CASE CycleEnds
  BY <1>2, <1>3, CycleEndsKeeps
<1>4. CASE AskRunning("guarded") /\ UNCHANGED ledger
  <2>1. agent \in Agents /\ AgentFits(agent)
    BY AgentFacts
  <2>2. PICK a \in Agents :
           /\ a = [agent EXCEPT !.pc = "guarded"] /\ a.pc = "guarded" /\ a.epoch = agent.epoch
           /\ a.op = agent.op /\ a.rec = agent.rec /\ a.step = agent.step
    BY <2>1, AgentGoes DEF AgentPcs, AgentRuns
  <2>3. ledger[agent.op].status = "running" /\ Done(agent.op, agent.step - 1) /\ late[agent.op] = 0
    BY <1>1, <2>1 DEF AgentFits, AgentRuns
  <2>4. Ask("progress", "running", Mine.exec, a)
    BY <1>4, <2>2 DEF AskRunning
  <2> QED BY <1>1, <1>2, <1>4, <2>2, <2>3, <2>4, RunsOn
<1> QED BY <1>3, <1>4 DEF AgentEnter

\* The execution is over, before or after an effect.
LEMMA OverKeeps ==
  ASSUME OperationInv, Effectless, UNCHANGED ledger, agent.pc \notin {"idle", "polled"},
         ledger[agent.op].status = "running", NEW out \in Outcomes,
         out = "succeeded" => Done(agent.op, Steps), AgentOver(out)
  PROVE  OperationInv'
<1>1. agent \in Agents
  BY AgentFacts
<1>2. PICK a : a = [agent EXCEPT !.pc = "finished", !.out = out]
  OBVIOUS
<1>3. a \in Agents
  BY <1>1, <1>2 DEF Agents, AgentPcs
<1>4. /\ a.pc = "finished" /\ a.out = out /\ a.op = agent.op /\ a.epoch = agent.epoch
      /\ a.rec = agent.rec
  BY <1>1, <1>2 DEF Agents
<1>5. Ask("progress", "running", Mine.exec, a)
  BY <1>2 DEF AgentOver
<1> QED BY <1>3, <1>4, <1>5, RunsOn

LEMMA AgentGuardedKeeps ==
  ASSUME OperationInv, AgentGuarded
  PROVE  OperationInv'
<1>1. agent.pc = "guarded" /\ ~agent.waiting /\ AgentStep /\ UNCHANGED ledger
  BY DEF AgentGuarded, Ready
<1>2. Effectless
  BY <1>1, AgentStepEffectless
<1>3. agent \in Agents /\ AgentFits(agent)
  BY AgentFacts
<1>4. ledger[agent.op].status = "running" /\ Done(agent.op, agent.step - 1) /\ late[agent.op] = 0
      /\ agent.op \in Operations /\ ledger[agent.op] # NoLedger /\ agent.epoch <= epoch
  BY <1>1, <1>3 DEF AgentFits, AgentRuns
<1>5. CASE AgentOver("failed")
  <2>1. "failed" \in Outcomes
    BY DEF Outcomes
  <2> QED BY <1>1, <1>2, <1>4, <1>5, <2>1, OverKeeps
<1>6. CASE Confirmed /\ agent' = [agent EXCEPT !.pc = "effect"] /\ UNCHANGED task
  <2>1. PICK a \in Agents :
           /\ a = [agent EXCEPT !.pc = "effect"] /\ a.pc = "effect" /\ a.epoch = agent.epoch
           /\ a.op = agent.op /\ a.rec = agent.rec /\ a.step = agent.step /\ a.waiting = agent.waiting
    BY <1>3, AgentGoes DEF AgentPcs, AgentRuns
  <2>2. a.rec.status = "running" /\ a.waiting = FALSE /\ record[a.op].status \in Started
    <3>1. agent.waiting \in BOOLEAN
      BY <1>3 DEF Agents
    <3> QED BY <1>1, <1>3, <1>6, <2>1, <3>1 DEF Confirmed, AgentFits
  <2>3. AgentFits(a)'
    BY <1>1, <1>2, <1>4, <2>1, <2>2, EffectlessFacts DEF AgentFits, AgentRuns
  <2>4. AgentOK' /\ agent' \in Agents
    BY <1>6, <2>1, <2>3 DEF AgentOK
  <2> QED BY <1>1, <1>2, <1>6, <2>4, LedgerStays, AgentSteps
<1> QED BY <1>5, <1>6 DEF AgentGuarded

LEMMA AgentCheckedKeeps ==
  ASSUME OperationInv, AgentChecked
  PROVE  OperationInv'
<1>1. agent.pc = "checked" /\ ~agent.waiting /\ AgentStep /\ UNCHANGED ledger
  BY DEF AgentChecked, Ready
<1>2. Effectless
  BY <1>1, AgentStepEffectless
<1>3. agent \in Agents /\ AgentFits(agent)
  BY AgentFacts
<1>4. ledger[agent.op].status = "running" /\ Done(agent.op, agent.step) /\ agent.op \in Operations
  BY <1>1, <1>3 DEF AgentFits
<1>5. Confirmed => late[agent.op] = 0
  <2>1. late \in [Operations -> Nat] /\ late[agent.op] <= 1
    BY <1>4 DEF OperationInv, Typed, EffectsOK
  <2>2. Confirmed => late[agent.op] # 1
    BY <1>1, <1>3 DEF AgentFits, Confirmed
  <2> QED BY <1>4, <2>1, <2>2
<1>6. CASE AgentOver("unknown")
  <2>1. "unknown" \in Outcomes
    BY DEF Outcomes
  <2> QED BY <1>1, <1>2, <1>4, <1>6, <2>1, OverKeeps
<1>7. CASE agent.step = Steps /\ AgentOver("succeeded")
  <2>1. "succeeded" \in Outcomes
    BY DEF Outcomes
  <2> QED BY <1>1, <1>2, <1>4, <1>7, <2>1, OverKeeps
<1>8. CASE /\ Confirmed /\ agent.step # Steps
           /\ Ask("progress", "running", Mine.exec, [agent EXCEPT !.pc = "guarded", !.step = @ + 1])
  <2>1. PICK a : a = [agent EXCEPT !.pc = "guarded", !.step = @ + 1]
    OBVIOUS
  <2>2. agent.step \in 1 .. Steps /\ Steps \in Nat
    BY <1>3, ConstantFacts DEF Agents
  <2>3. agent.step + 1 \in 1 .. Steps /\ agent.step + 1 - 1 = agent.step
    BY <1>8, <2>2
  <2>4. a = [agent EXCEPT !.pc = "guarded", !.step = agent.step + 1]
    BY <1>3, <2>1 DEF Agents
  <2>5. a \in Agents
    BY <1>3, <2>3, <2>4 DEF Agents, AgentPcs, AgentRuns
  <2>6. /\ a.pc = "guarded" /\ a.op = agent.op /\ a.epoch = agent.epoch /\ a.rec = agent.rec
        /\ a.step - 1 = agent.step
    BY <1>3, <2>3, <2>4 DEF Agents
  <2>7. Ask("progress", "running", Mine.exec, a)
    BY <1>8, <2>1
  <2> QED BY <1>1, <1>2, <1>4, <1>5, <1>8, <2>5, <2>6, <2>7, RunsOn
<1> QED BY <1>6, <1>7, <1>8 DEF AgentChecked

LEMMA AgentAcceptKeeps ==
  ASSUME OperationInv, AgentAccept
  PROVE  OperationInv'
<1> DEFINE o == agent.op
           r == agent.rec
           known == ledger[o] # NoLedger
           mark == IF known THEN ledger[o] ELSE [status |-> "accepted", exec |-> agent.epoch]
<1>1. agent.pc = "polled" /\ ~agent.waiting /\ AgentStep
  BY DEF AgentAccept, Ready
<1>2. Effectless
  BY <1>1, AgentStepEffectless
<1>3. agent \in Agents /\ AgentFits(agent) /\ agent.epoch \in 1 .. MaxEpoch
  BY AgentFacts
<1>4. CASE CycleEnds
  BY <1>2, <1>4, CycleEndsKeeps
<1>5. CASE /\ o # 0 /\ ledger' = [ledger EXCEPT ![o] = mark]
           /\ \/ Ask("progress", "accepted", mark.exec, [agent EXCEPT !.pc = "accepted"])
              \/ agent' = [agent EXCEPT !.pc = "accepted", !.ok = TRUE] /\ UNCHANGED task
  <2>1. RemoteOp(o) /\ o \in Operations /\ agent.step = 1 /\ agent.epoch <= epoch
    BY <1>1, <1>3, <1>5 DEF AgentFits, RemoteOp, Created
  <2>2. ledger \in [Operations -> Marks] /\ ledger[o] \in Marks
    BY <2>1 DEF OperationInv, Typed, Marks
  <2>3. AgentMoves /\ ledger'[o] = mark /\ mark # NoLedger /\ mark \in Marks
    <3>1. CASE known
      <4>1. ledger' = ledger /\ mark = ledger[o]
        BY <1>5, <2>2, <3>1
      <4> QED BY <1>2, <2>2, <3>1, <4>1, LedgerStays
    <3>2. CASE ~known
      <4>1. PICK m : m = [status |-> "accepted", exec |-> agent.epoch]
        OBVIOUS
      <4>2. m \in Marks /\ m.status = "accepted" /\ m.exec # 0 /\ m # NoLedger
        BY <1>3, <4>1, ConstantFacts DEF Marks, Statuses, NoLedger
      <4>3. ledger' = [ledger EXCEPT ![o] = m] /\ mark = m
        BY <1>5, <3>2, <4>1
      <4>4. ledger[o].status \notin Outcomes
        BY <3>2 DEF NoLedger, Outcomes
      <4>5. UNCHANGED <<record, driver, history>>
        BY <1>2 DEF Effectless, journal
      <4> HIDE DEF mark
      <4>6. LedgerGrows /\ Durable' /\ ledger' \in [Operations -> Marks]
        BY <2>1, <3>2, <4>2, <4>3, <4>4, <4>5, LedgerMoves
      <4> QED BY <1>2, <2>1, <2>2, <4>2, <4>3, <4>6, EffectlessMoves
    <3> QED BY <3>1, <3>2
  <2> HIDE DEF mark
  <2>4. mark.exec \in Execs
    BY <2>3, ConstantFacts DEF Marks, Execs
  <2>5. CASE Ask("progress", "accepted", mark.exec, [agent EXCEPT !.pc = "accepted"])
    <3>1. PICK a \in Agents :
             /\ a = [agent EXCEPT !.pc = "accepted"] /\ a.pc = "accepted" /\ a.epoch = agent.epoch
             /\ a.op = agent.op /\ a.rec = agent.rec /\ a.step = agent.step
      BY <1>3, AgentGoes DEF AgentPcs
    <3>2. FitsToAsk(a)'
      BY <1>2, <1>3, <2>1, <2>3, <3>1, EffectlessFacts DEF FitsToAsk, AgentFits, AgentRuns
    <3>3. PICK x : x = mark.exec
      OBVIOUS
    <3>4. MayAsk("progress", "accepted", x, a)'
      BY <1>2, <2>1, <2>3, <3>1, <3>3, EffectlessFacts DEF MayAsk
    <3> QED BY <2>3, <2>4, <2>5, <3>1, <3>2, <3>3, <3>4, AskKeeps
  <2>6. CASE agent' = [agent EXCEPT !.pc = "accepted", !.ok = TRUE] /\ UNCHANGED task
    <3>1. PICK a : a = [agent EXCEPT !.pc = "accepted", !.ok = TRUE]
      OBVIOUS
    <3>2. a \in Agents
      BY <1>3, <3>1 DEF Agents, AgentPcs
    <3>3. /\ a.pc = "accepted" /\ a.epoch = agent.epoch /\ a.op = agent.op /\ a.rec = agent.rec
          /\ a.step = agent.step
      BY <1>3, <3>1 DEF Agents
    <3>4. AgentFits(a)'
      BY <1>2, <1>3, <2>1, <2>3, <3>3, EffectlessFacts DEF AgentFits, AgentRuns
    <3>5. AgentOK' /\ agent' \in Agents
      BY <2>6, <3>1, <3>2, <3>4 DEF AgentOK
    <3> QED BY <2>3, <2>6, <3>5, AgentSteps
  <2> QED BY <1>5, <2>5, <2>6
<1> QED BY <1>4, <1>5 DEF AgentAccept, Mine

\* The agent closes an operation in its ledger, or finds it closed, and reports it.
LEMMA ReportKeeps ==
  ASSUME OperationInv, Effectless, AgentMoves, agent.pc \notin {"idle", "polled"},
         NEW s \in Outcomes, ledger'[agent.op].status = s, ledger'[agent.op].exec = Mine.exec,
         Receipt(s)
  PROVE  OperationInv'
<1>1. /\ agent \in Agents /\ AgentFits(agent) /\ agent.op \in Operations /\ RemoteOp(agent.op)
      /\ ledger[agent.op] # NoLedger /\ ledger[agent.op].exec \in Execs
  BY AgentFacts
<1>2. PICK a \in Agents :
         /\ a = [agent EXCEPT !.pc = "receipted"] /\ a.pc = "receipted" /\ a.epoch = agent.epoch
         /\ a.op = agent.op /\ a.rec = agent.rec /\ a.step = agent.step
  BY <1>1, AgentGoes DEF AgentPcs
<1>3. ledger'[agent.op] # NoLedger
  BY <1>1 DEF AgentMoves, LedgerGrows
<1>4. FitsToAsk(a)'
  BY <1>1, <1>2, <1>3, EffectlessFacts DEF FitsToAsk, AgentFits, AgentRuns
<1>5. PICK x : x = Mine.exec
  OBVIOUS
<1>6. MayAsk("receipt", s, x, a)'
  BY <1>1, <1>2, <1>3, <1>5, EffectlessFacts DEF MayAsk
<1>7. Ask("receipt", s, x, a) /\ x \in Execs
  BY <1>1, <1>2, <1>5 DEF Receipt, Mine
<1> QED BY <1>4, <1>6, <1>7, AskKeeps

\* An entry of the ledger that is Accepted or Running moves on.
LEMMA MarkKeeps ==
  ASSUME OperationInv, Effectless, agent.pc \notin {"idle", "polled"},
         ledger[agent.op].status \in {"accepted", "running"}, NEW s \in {"running"} \cup Outcomes,
         ledger' = [ledger EXCEPT ![agent.op].status = s],
         s = "succeeded" => Done(agent.op, Steps)
  PROVE  /\ AgentMoves /\ ledger'[agent.op].status = s
         /\ ledger'[agent.op].exec = ledger[agent.op].exec /\ ledger'[agent.op] # NoLedger
<1>0. PICK o : o = agent.op
  OBVIOUS
<1>1. /\ o \in Operations /\ RemoteOp(o) /\ ledger[o] \in Marks /\ ledger[o].exec # 0
      /\ ledger[o].status \notin Outcomes
  BY <1>0, AgentFacts DEF Outcomes
<1>2. PICK m : m = [ledger[o] EXCEPT !.status = s]
  OBVIOUS
<1>3. m \in Marks /\ m.status = s /\ m.exec = ledger[o].exec
  BY <1>1, <1>2 DEF Marks, Statuses, Terminal, Outcomes
<1>4. ledger' = [ledger EXCEPT ![o] = m] /\ ledger \in [Operations -> Marks]
  BY <1>0, <1>2 DEF OperationInv, Typed, Marks
<1>5. UNCHANGED <<record, driver, history>>
  BY DEF Effectless, journal
<1>6. s # "accepted" /\ m.status \in {"accepted", "running"} \cup Outcomes
  BY <1>3 DEF Outcomes
<1>7. LedgerGrows /\ Durable' /\ ledger' \in [Operations -> Marks]
  BY <1>0, <1>1, <1>3, <1>4, <1>5, <1>6, LedgerMoves
<1>8. ledger'[o] = m /\ m # NoLedger
  BY <1>1, <1>3, <1>4 DEF NoLedger
<1> QED BY <1>0, <1>3, <1>7, <1>8, EffectlessMoves

LEMMA AgentStartKeeps ==
  ASSUME OperationInv, AgentStart
  PROVE  OperationInv'
<1>1. agent.pc = "accepted" /\ ~agent.waiting /\ AgentStep
  BY DEF AgentStart, Ready
<1>2. Effectless
  BY <1>1, AgentStepEffectless
<1>3. /\ agent \in Agents /\ AgentFits(agent) /\ agent.op \in Operations /\ RemoteOp(agent.op)
      /\ ledger[agent.op].exec \in Execs
      /\ ledger[agent.op].status \in {"accepted", "running"} \cup Outcomes
  BY <1>1, AgentFacts
<1>4. CASE CycleEnds
  BY <1>2, <1>4, CycleEndsKeeps
<1>5. CASE ReportAgain
  <2>1. Mine.status \in Outcomes /\ Receipt(Mine.status) /\ UNCHANGED ledger
    BY <1>3, <1>5 DEF ReportAgain, Mine, Terminal, Outcomes
  <2>2. PICK s : s = Mine.status
    OBVIOUS
  <2>3. ledger'[agent.op].status = s /\ ledger'[agent.op].exec = Mine.exec /\ s \in Outcomes /\ Receipt(s)
    BY <2>1, <2>2 DEF Mine
  <2> QED BY <1>1, <1>2, <2>1, <2>3, LedgerStays, ReportKeeps
<1>6. CASE CloseRunning
  <2>1. Mine.status = "running" /\ ledger' = [ledger EXCEPT ![agent.op].status = "unknown"]
        /\ Receipt("unknown")
    BY <1>6 DEF CloseRunning
  <2>2. "unknown" \in Outcomes
    BY DEF Outcomes
  <2>3. /\ AgentMoves /\ ledger'[agent.op].status = "unknown"
        /\ ledger'[agent.op].exec = Mine.exec
    BY <1>1, <1>2, <2>1, <2>2, MarkKeeps DEF Mine
  <2> QED BY <1>1, <1>2, <2>1, <2>2, <2>3, ReportKeeps
<1>7. CASE /\ Mine.status = "accepted" /\ ledger' = [ledger EXCEPT ![agent.op].status = "running"]
           /\ Ask("progress", "running", Mine.exec, [agent EXCEPT !.pc = "started"])
  <2>1. /\ AgentMoves /\ ledger'[agent.op].status = "running"
        /\ ledger'[agent.op].exec = Mine.exec /\ ledger'[agent.op] # NoLedger
    BY <1>1, <1>2, <1>7, MarkKeeps DEF Mine
  <2>2. PICK a \in Agents :
           /\ a = [agent EXCEPT !.pc = "started"] /\ a.pc = "started" /\ a.epoch = agent.epoch
           /\ a.op = agent.op /\ a.rec = agent.rec /\ a.step = agent.step
    BY <1>3, AgentGoes DEF AgentPcs, AgentRuns
  <2>3. Done(agent.op, 0) /\ late[agent.op] = 0 /\ agent.step = 1
    BY <1>1, <1>3, <1>7 DEF OperationInv, EffectsOK, Mine, AgentFits
  <2>4. FitsToAsk(a)'
    BY <1>1, <1>2, <1>3, <2>1, <2>2, <2>3, EffectlessFacts DEF FitsToAsk, AgentFits, AgentRuns
  <2>5. PICK x : x = Mine.exec
    OBVIOUS
  <2>6. MayAsk("progress", "running", x, a)'
    BY <1>2, <1>3, <2>1, <2>2, <2>5, EffectlessFacts DEF MayAsk
  <2>7. x \in Execs
    BY <1>3, <2>5 DEF Mine
  <2> QED BY <1>7, <2>1, <2>2, <2>4, <2>5, <2>6, <2>7, AskKeeps
<1> QED BY <1>4, <1>5, <1>6, <1>7 DEF AgentStart

LEMMA AgentFinishKeeps ==
  ASSUME OperationInv, AgentFinish
  PROVE  OperationInv'
<1>1. agent.pc = "finished" /\ ~agent.waiting /\ AgentStep
  BY DEF AgentFinish, Ready
<1>2. Effectless
  BY <1>1, AgentStepEffectless
<1>3. CASE CycleEnds
  BY <1>2, <1>3, CycleEndsKeeps
<1>4. CASE ledger' = [ledger EXCEPT ![agent.op].status = agent.out] /\ Receipt(agent.out)
  <2>1. PICK s : s = agent.out
    OBVIOUS
  <2>2. s \in Outcomes /\ (s = "succeeded" => Done(agent.op, Steps))
        /\ ledger[agent.op].status = "running"
    BY <1>1, <2>1, AgentFacts DEF AgentFits
  <2>3. ledger' = [ledger EXCEPT ![agent.op].status = s] /\ Receipt(s)
    BY <1>4, <2>1
  <2>4. AgentMoves /\ ledger'[agent.op].status = s /\ ledger'[agent.op].exec = Mine.exec
    BY <1>1, <1>2, <2>2, <2>3, MarkKeeps DEF Mine
  <2> QED BY <1>1, <1>2, <2>2, <2>3, <2>4, ReportKeeps
<1> QED BY <1>3, <1>4 DEF AgentFinish

LEMMA AgentReceiptedKeeps ==
  ASSUME OperationInv, AgentReceipted
  PROVE  OperationInv'
BY AgentStepEffectless, CycleEndsKeeps DEF AgentReceipted, Ready

LEMMA AgentEffectKeeps ==
  ASSUME OperationInv, AgentEffect
  PROVE  OperationInv'
<1>1. /\ agent.pc = "effect" /\ ~agent.waiting
      /\ UNCHANGED <<journal, driver, hosts, seen, target, ledger, past, faults>>
  BY DEF AgentEffect, Ready
<1>2. /\ agent \in Agents /\ AgentFits(agent) /\ agent.op \in Operations /\ RemoteOp(agent.op)
      /\ ledger[agent.op] # NoLedger /\ ledger[agent.op].exec \in Execs
  BY <1>1, AgentFacts
<1>3. /\ ledger[agent.op].status = "running" /\ Done(agent.op, agent.step - 1) /\ late[agent.op] = 0
      /\ record[agent.op].status \in Started /\ agent.epoch <= epoch
  BY <1>1, <1>2 DEF AgentFits, AgentRuns
<1>4. online \in [Hosts -> BOOLEAN]
  BY DEF OperationInv, Typed
<1>5. CASE AgentOver("unknown") /\ UNCHANGED history
  <2>1. Effectless
    BY <1>1, <1>4, <1>5 DEF Effectless, target
  <2>2. "unknown" \in Outcomes
    BY DEF Outcomes
  <2> QED BY <1>1, <1>3, <1>5, <2>1, <2>2, OverKeeps
<1>6. CASE /\ Perform(agent.op, agent.step, agent.epoch # epoch)
           /\ AskRunning("checked") \/ AgentOver("unknown")
  <2>1. UNCHANGED <<record, driver, ledger, epoch, online, revoked>>
    BY <1>1 DEF journal, target
  <2>2. PICK b \in BOOLEAN : b = (agent.epoch # epoch)
    OBVIOUS
  <2>3. PICK o : o = agent.op
    OBVIOUS
  <2>4. PICK k : k = agent.step
    OBVIOUS
  <2>5. o \in Operations /\ k \in 1 .. Steps /\ Done(o, k - 1) /\ late[o] = 0 /\ Perform(o, k, b)
        /\ record[o].status \in Started /\ RemoteOp(o) /\ ledger[o].status = "running"
    BY <1>2, <1>3, <1>6, <2>2, <2>3, <2>4 DEF Agents
  <2>6. /\ performed' \in [Operations -> [1 .. Steps -> Nat]] /\ late' \in [Operations -> Nat]
        /\ Done(o, k)' /\ late'[o] = (IF b THEN 1 ELSE 0)
        /\ \A p \in Operations \ {o} : performed'[p] = performed[p] /\ late'[p] = late[p]
        /\ EffectsOK'
        /\ \A w \in Workers : task[w].out = "succeeded" => task[w].op # o
    BY <2>1, <2>5, PerformFacts
  <2>7. \A v \in Workers : HistoryKept(task[v])
    <3> SUFFICES ASSUME NEW v \in Workers PROVE HistoryKept(task[v])
      OBVIOUS
    <3>1. task[v].pc \in ExecPcs => LocalOp(task[v].op)
      BY DEF OperationInv, TasksOK, TaskOK, PointOK
    <3>2. task[v].pc \in ExecPcs => task[v].op # o
      BY <2>5, <3>1 DEF LocalOp, RemoteOp
    <3> QED BY <2>6, <3>2 DEF HistoryKept
  <2>8. Durable'
    <3>1. RecordsOK /\ LedgerOK /\ ReceiptsAgree
      BY DEF OperationInv
    <3>2. \A p : RemoteOp(p)' <=> RemoteOp(p)
      BY <2>1 DEF RemoteOp, Local, Created
    <3>3. RecordsOK' /\ LedgerOK'
      BY <2>1, <3>1, <3>2 DEF RecordsOK, LedgerOK
    <3>4. ReceiptsAgree'
      BY <2>1, <3>1 DEF ReceiptsAgree, Local, Created
    <3> QED BY <2>6, <3>3, <3>4 DEF Durable
  <2>9. AgentMoves
    <3>1. LedgerGrows
      BY <2>1, LedgerSame
    <3>2. ledger' \in [Operations -> Marks]
      BY <2>1 DEF OperationInv, Typed, Marks
    <3> QED BY <1>1, <1>4, <2>1, <2>6, <2>7, <2>8, <3>1, <3>2 DEF AgentMoves
  <2>10. PICK x : x = Mine.exec
    OBVIOUS
  <2>11. x \in Execs /\ x = ledger[o].exec
    BY <1>2, <2>3, <2>10 DEF Mine
  <2>12. RemoteOp(o)' /\ NoLedger' = NoLedger
    BY <2>1, <2>5 DEF RemoteOp, Local, Created, NoLedger
  <2>13. CASE AskRunning("checked")
    <3>1. PICK a \in Agents :
             /\ a = [agent EXCEPT !.pc = "checked"] /\ a.pc = "checked" /\ a.epoch = agent.epoch
             /\ a.op = agent.op /\ a.rec = agent.rec /\ a.step = agent.step
      BY <1>2, AgentGoes DEF AgentPcs
    <3>2. FitsToAsk(a)'
      <4>1. a.op = o /\ a.step = k /\ (b <=> a.epoch # epoch') /\ a.epoch <= epoch'
        BY <1>3, <2>1, <2>2, <2>3, <2>4, <3>1
      <4>2. Done(a.op, a.step)' /\ (late'[a.op] = 1 => a.epoch # epoch')
        BY <2>6, <4>1
      <4>3. ledger'[a.op] # NoLedger /\ ledger'[a.op].status = "running" /\ a.op \in Operations
            /\ record'[a.op].status \in Started
        BY <1>2, <1>3, <2>1, <3>1
      <4> QED BY <2>12, <3>1, <4>1, <4>2, <4>3 DEF FitsToAsk, AgentRuns
    <3>3. MayAsk("progress", "running", x, a)'
      BY <1>2, <2>1, <2>3, <2>11, <2>12, <3>1 DEF MayAsk
    <3>4. Ask("progress", "running", x, a)
      BY <2>10, <2>13, <3>1 DEF AskRunning
    <3> QED BY <2>9, <2>11, <3>2, <3>3, <3>4, AskKeeps
  <2>14. CASE AgentOver("unknown")
    <3>1. PICK a : a = [agent EXCEPT !.pc = "finished", !.out = "unknown"]
      OBVIOUS
    <3>2. a \in Agents
      BY <1>2, <3>1 DEF Agents, AgentPcs, Outcomes
    <3>3. /\ a.pc = "finished" /\ a.out = "unknown" /\ a.op = agent.op /\ a.epoch = agent.epoch
          /\ a.rec = agent.rec
      BY <1>2, <3>1 DEF Agents
    <3>4. FitsToAsk(a)'
      BY <1>2, <1>3, <2>1, <3>3 DEF FitsToAsk, AgentFits, AgentRuns, Outcomes
    <3>5. MayAsk("progress", "running", x, a)'
      BY <1>2, <2>1, <2>3, <2>11, <2>12, <3>3 DEF MayAsk
    <3>6. Ask("progress", "running", x, a)
      BY <2>10, <2>14, <3>1 DEF AgentOver
    <3> QED BY <2>9, <2>11, <3>2, <3>4, <3>5, <3>6, AskKeeps
  <2> QED BY <1>6, <2>13, <2>14
<1> QED BY <1>5, <1>6 DEF AgentEffect
-----------------------------------------------------------------------------
(* The invariant, and what it gives.                                       *)

LEMMA OperationsStart == Init => OperationInv
<1> SUFFICES ASSUME Init PROVE OperationInv
  OBVIOUS
<1>1. /\ record = [o \in Operations |-> NoRecord] /\ fence = 0
      /\ claim = [o \in Operations |-> NoClaim] /\ length = 0 /\ poisoned = FALSE
      /\ driver \in [Keys -> {"local", "agent"}]
      /\ term = 0 /\ mine = [h \in Hosts |-> 0] /\ phase = [h \in Hosts |-> "down"]
      /\ seen = [h \in Hosts |-> 0]
      /\ executing = [h \in Hosts |-> [o \in Operations |-> None]]
      /\ task = [w \in Workers |-> IdleTask]
      /\ epoch = (IF "agent" \in Range(driver) THEN 1 ELSE MaxEpoch) /\ revoked \in BOOLEAN
      /\ online = [h \in Hosts |-> FALSE] /\ agent = AgentIdle(1)
      /\ ledger = [o \in Operations |-> NoLedger] /\ past = {}
      /\ performed = [o \in Operations |-> [n \in 1 .. Steps |-> 0]]
      /\ late = [o \in Operations |-> 0] /\ faults = MaxFaults
  BY DEF Init, JournalInit
<1>2. epoch \in 1 .. MaxEpoch /\ 1 \in 1 .. MaxEpoch /\ 1 <= epoch
  BY <1>1, ConstantFacts
<1>3. AgentIdle(1) \in Agents /\ IdleTask \in Tasks /\ NoRecord \in Records /\ NoClaim \in Claims
      /\ NoRecord.status = "none" /\ NoRecord.exec = 0
  BY <1>2, RecordTypes DEF NoRecord
<1>4. \A w \in Workers : task[w] = IdleTask
  BY <1>1
<1>5. \A o \in Operations : record[o] = NoRecord /\ ledger[o] = NoLedger /\ late[o] = 0
                            /\ \A n \in 1 .. Steps : performed[o][n] = 0
  BY <1>1
<1>6. Typed
  <2>1. record \in [Operations -> Records] /\ claim \in [Operations -> Claims]
    BY <1>1, <1>3
  <2>2. task \in [Workers -> Tasks] /\ agent \in Agents
    BY <1>1, <1>3
  <2>3. ledger \in [Operations -> [status : Statuses, exec : 0 .. MaxEpoch]]
    BY <1>1, ConstantFacts DEF NoLedger, Statuses
  <2>4. performed \in [Operations -> [1 .. Steps -> Nat]] /\ late \in [Operations -> Nat]
    BY <1>1
  <2>5. mine \in [Hosts -> 0 .. MaxTerm] /\ term \in 0 .. MaxTerm /\ fence \in 0 .. MaxTerm
        /\ length \in Nat /\ seen \in [Hosts -> 0 .. length] /\ faults \in 0 .. MaxFaults
    BY <1>1, ConstantFacts
  <2>6. executing \in [Hosts -> [Operations -> Workers \cup {None}]] /\ online \in [Hosts -> BOOLEAN]
        /\ phase \in [Hosts -> {"down", "booting", "up"}]
    BY <1>1
  <2> QED BY <1>1, <1>2, <2>1, <2>2, <2>3, <2>4, <2>5, <2>6 DEF Typed
<1>7. TasksOK
  BY <1>4, IdleIsOK DEF TasksOK
<1>8. Alone
  <2>1. IdleTask.pc = "idle" /\ IdleTask.does = "none" /\ IdleTask.awaited = FALSE
    BY DEF IdleTask
  <2> QED BY <1>4, <2>1 DEF Alone, ExecPcs
<1>9. RecordsOK /\ LedgerOK
  BY <1>3, <1>5 DEF RecordsOK, LedgerOK
<1>10. TermsOK
  BY <1>1 DEF TermsOK
<1>11. \A o \in Operations : Done(o, 0)
  BY <1>5, ConstantFacts DEF Done
<1>12. EffectsOK
  <2>1. NoLedger.status = "none"
    BY DEF NoLedger
  <2>2. SUFFICES ASSUME NEW o \in Operations
                 PROVE  EffectsOK!(o)
    BY DEF EffectsOK
  <2>3. record[o].status = "none" /\ ledger[o].status = "none"
    <3> HIDE DEF NoRecord, NoLedger
    <3> QED BY <1>3, <1>5, <2>1
  <2>4. late[o] = 0 /\ late[o] <= 1 /\ \A n \in 1 .. Steps : performed[o][n] <= 1
    <3>1. late[o] = 0 /\ \A n \in 1 .. Steps : performed[o][n] = 0
      BY <1>5
    <3> QED BY <3>1
  <2>5. Done(o, 0)
    BY <1>11
  <2>6. record[o].status # "succeeded" /\ ledger[o].status # "succeeded"
    BY <2>3
  <2> QED BY <2>4, <2>5, <2>6
<1>13. AgentOK
  <2>1. /\ agent = AgentIdle(agent.epoch) /\ agent.pc = "idle" /\ agent.epoch = 1
        /\ agent.rec.status = "none"
    BY <1>1, <1>3 DEF AgentIdle
  <2> QED BY <1>2, <2>1 DEF AgentOK, AgentFits, AgentRuns
<1>14. ReceiptsAgree
  BY <1>3, <1>5 DEF ReceiptsAgree, Created
<1> QED BY <1>6, <1>7, <1>8, <1>9, <1>10, <1>12, <1>13, <1>14 DEF OperationInv

LEMMA OperationsStutter ==
  ASSUME OperationInv, UNCHANGED vars
  PROVE  OperationInv'
<1>1. UNCHANGED <<journal, driver, hosts, seen, task, target, agent, ledger, past, history, faults>>
  BY DEF vars
<1>2. TasksOK' /\ Alone' /\ TermsOK'
  BY <1>1, TasksSame
<1>3. Typed'
  BY <1>1 DEF OperationInv, Typed, journal, hosts, target, history
<1>4. AgentOK'
  <2>1. JournalGrows /\ UNCHANGED <<performed, late, epoch>> /\ epoch \in Nat
    BY <1>1, StillGrows, ConstantFacts DEF target, OperationInv, Typed
  <2> QED BY <1>1, <2>1, AgentRemains DEF OperationInv
<1> QED BY <1>1, <1>2, <1>3, <1>4, StillKeeps

LEMMA HostStepKeeps ==
  ASSUME OperationInv, NEW w \in Workers, HostStep(w)
  PROVE  OperationInv'
<1>1. CASE HostFence(w) \/ CheckOwner(w) \/ ReadBase(w) \/ CheckAppend(w) \/ Append(w)
  BY <1>1, HostFenceKeeps, CheckOwnerKeeps, ReadBaseKeeps, CheckAppendKeeps, AppendKeeps
<1>2. CASE ReadTarget(w) \/ Create(w) \/ LockExecution(w) \/ Claim(w) \/ Resolve(w) \/ Advance(w)
  BY <1>2, ReadTargetKeeps, CreateKeeps, LockExecutionKeeps, ClaimKeeps, ResolveKeeps, AdvanceKeeps
<1>3. CASE Enter(w) \/ GuardBefore(w) \/ Effect(w) \/ GuardAfter(w) \/ Finish(w) \/ Complete(w)
  BY <1>3, EnterKeeps, GuardBeforeKeeps, EffectKeeps, GuardAfterKeeps, FinishKeeps, CompleteKeeps
<1>4. CASE Recover(w) \/ Authenticate(w) \/ Handle(w)
  BY <1>4, RecoverKeeps, AuthenticateKeeps, HandleKeeps
<1> QED BY <1>1, <1>2, <1>3, <1>4 DEF HostStep

LEMMA AgentNextKeeps ==
  ASSUME OperationInv, AgentNext
  PROVE  OperationInv'
BY AgentCycleKeeps, AgentAcceptKeeps, AgentStartKeeps, AgentStartedKeeps, AgentEnterKeeps,
   AgentGuardedKeeps, AgentEffectKeeps, AgentCheckedKeeps, AgentFinishKeeps, AgentReceiptedKeeps
   DEF AgentNext

LEMMA OperationsKeep == OperationInv /\ [Next]_vars => OperationInv'
<1> SUFFICES ASSUME OperationInv, [Next]_vars PROVE OperationInv'
  OBVIOUS
<1>1. CASE UNCHANGED vars
  BY <1>1, OperationsStutter
<1>2. ASSUME NEW w \in Workers,
             \/ HostStep(w) \/ StoreError(w) \/ DropHandler(w)
             \/ \E h \in Hosts : Boot(w, h) \/ \E k \in Keys : Submit(w, h, k)
      PROVE  OperationInv'
  BY <1>2, HostStepKeeps, StoreErrorKeeps, DropHandlerKeeps, BootKeeps, SubmitKeeps
<1>3. CASE (\E h \in Hosts : Crash(h)) \/ (\E o \in Operations : Expire(o))
  BY <1>3, CrashKeeps, ExpireKeeps
<1>4. CASE Revoke \/ Enroll \/ HeartbeatLapses \/ AgentNext \/ AgentGivesUp
  BY <1>4, RevokeKeeps, EnrollKeeps, HeartbeatLapsesKeeps, AgentNextKeeps, AgentGivesUpKeeps
<1> QED BY <1>1, <1>2, <1>3, <1>4 DEF Next

LEMMA OperationsHold == Spec => []OperationInv
BY OperationsStart, OperationsKeep, PTL DEF Spec

\* Every variable stays in its type.
THEOREM TargetsTypeCorrect == Spec => []TypeOK
<1>1. OperationInv => TypeOK
  <2> SUFFICES ASSUME OperationInv PROVE TypeOK
    OBVIOUS
  <2>1. \A t \in Tasks : DOMAIN t = DOMAIN IdleTask
    BY DEF Tasks, IdleTask
  <2>2. \A a \in Agents : DOMAIN a = DOMAIN AgentIdle(1)
    BY DEF Agents, AgentIdle
  <2>3. Typed
    BY DEF OperationInv
  <2>4. \A w \in Workers : DOMAIN task[w] = DOMAIN IdleTask
    BY <2>1, <2>3 DEF Typed
  <2>5. DOMAIN agent = DOMAIN AgentIdle(1)
    BY <2>2, <2>3 DEF Typed
  <2> QED BY <2>3, <2>4, <2>5 DEF Typed, TypeOK, Records, Claims, Execs
<1> QED BY <1>1, OperationsHold, PTL

\* An effect of an operation happens at most once, whatever is retried,
\* restarted, taken over or delivered again.
THEOREM EffectsHappenAtMostOnce == Spec => []AtMostOnce
<1>1. OperationInv => AtMostOnce
  BY DEF OperationInv, EffectsOK, AtMostOnce
<1> QED BY <1>1, OperationsHold, PTL

\* What the journal says of an operation is true of its effects: one that
\* succeeded had all of them, and none happens before Running is durable.
THEOREM OutcomesAreTrue == Spec => []OutcomeIsTrue
<1>1. OperationInv => OutcomeIsTrue
  <2> SUFFICES ASSUME OperationInv, NEW o \in Operations
               PROVE  /\ record[o].status = "succeeded" => \A n \in 1 .. Steps : performed[o][n] = 1
                      /\ record[o].status \in {"none", "requested", "accepted", "expired"} =>
                           \A n \in 1 .. Steps : performed[o][n] = 0
    BY DEF OutcomeIsTrue
  <2>1. record[o].status = "succeeded" => Done(o, Steps)
    BY DEF OperationInv, EffectsOK
  <2>2. record[o].status \in {"none", "requested", "accepted", "expired"} => Done(o, 0)
    BY DEF OperationInv, EffectsOK, Started, Outcomes
  <2> QED BY <2>1, <2>2, ConstantFacts DEF Done
<1> QED BY <1>1, OperationsHold, PTL

\* An executor that has been replaced, a Host whose lease is taken over or an
\* agent whose target is revoked, has at most the one effect whose guard it had
\* passed.
THEOREM FencedExecutorsStop == Spec => []FencedStops
<1>1. OperationInv => FencedStops
  BY DEF OperationInv, EffectsOK, FencedStops
<1> QED BY <1>1, OperationsHold, PTL

\* The Host and the ledger of the agent never disagree on how an operation of
\* the remote target ended.
THEOREM ReceiptsAlwaysAgree == Spec => []ReceiptsAgree
<1>1. OperationInv => ReceiptsAgree
  BY DEF OperationInv
<1> QED BY <1>1, OperationsHold, PTL
-----------------------------------------------------------------------------
(* The order of the journal: what a step of one task leaves to the others.  *)

LEMMA IdleInOrder ==
  ASSUME Typed
  PROVE  FenceOK(IdleTask) /\ AppendOK(IdleTask) /\ ~Drives(IdleTask)
<1>1. /\ IdleTask.pc = "idle" /\ IdleTask.does = "none" /\ IdleTask.event.kind = "none"
      /\ IdleTask.base = 0
  BY DEF IdleTask, NoEvent
<1>2. 0 <= length
  BY DEF Typed
<1> HIDE DEF IdleTask
<1> QED BY <1>1, <1>2 DEF FenceOK, AppendOK, Drives, Claimed, Piped, ExecPcs, HostDoes

LEMMA FenceKept ==
  ASSUME NEW t \in Tasks, t.host \in Hosts, Typed, Typed', FenceOK(t), JournalGrows,
         mine'[t.host] = mine[t.host],
         UNCHANGED journal \/ (length' = length + 1 /\ fence <= fence')
  PROVE  FenceOK(t)'
<1>1. /\ t.base \in Nat /\ length \in Nat /\ length' \in Nat /\ mine[t.host] \in Nat
      /\ fence \in Nat /\ fence' \in Nat
  BY DEF Tasks, Typed
<1>2. t.base <= length' /\ length <= length'
  BY <1>1 DEF FenceOK, journal
<1>3. /\ mine[t.host] <= fence => mine[t.host] <= fence'
      /\ t.base = length' => UNCHANGED journal
  BY <1>1 DEF FenceOK, journal
<1>4. t.event.kind = "record" /\ t.event.was.status # "none" =>
        t.event.op \in Created' /\ t.event.was.key = record'[t.event.op].key
  BY DEF FenceOK, JournalGrows, Created
<1>5. t.pc = "append" /\ t.event.kind = "record" /\ t.base = length' =>
       /\ fence' = mine'[t.host]
       /\ Claimed(t) /\ t.event.new.status # "expired" => claim'[t.op] = t.claim
  BY <1>3 DEF FenceOK, journal
<1> QED BY <1>2, <1>3, <1>4, <1>5 DEF FenceOK, Claimed

LEMMA StandsKept ==
  ASSUME NEW t, AppendOK(t), UNCHANGED journal, mine'[t.host] = mine[t.host],
         t.does = "boot" /\ t.event.kind = "fence" => seen'[t.host] = seen[t.host]
  PROVE  AppendOK(t)'
<1>1. UNCHANGED <<record, fence, claim, length>>
  BY DEF journal
<1>2. t.event.kind = "fence" /\ FenceStands(t) => FenceStands(t)'
  BY <1>1 DEF FenceStands
<1>3. ClaimStands(t) => ClaimStands(t)'
  BY <1>1 DEF ClaimStands
<1>4. CreateStands(t) => CreateStands(t)'
  BY <1>1 DEF CreateStands, Unique, Created
<1>5. ChangeStands(t) => ChangeStands(t)'
  BY <1>1 DEF ChangeStands, ValidTransition
<1>6. Undisturbed(t) => Undisturbed(t)'
  BY <1>1 DEF Undisturbed, IsTerminal
<1> QED BY <1>1, <1>2, <1>3, <1>4, <1>5, <1>6 DEF AppendOK

\* A task that does not move, when the journal does not either.
StaysPut(v) ==
  /\ task'[v] = task[v]
  /\ task[v].pc # "idle" =>
       /\ mine'[task[v].host] = mine[task[v].host]
       /\ task[v].does = "boot" => seen'[task[v].host] = seen[task[v].host]

LEMMA OthersInOrder ==
  ASSUME OrderInv, Typed', JournalGrows, UNCHANGED journal, NEW v \in Workers, StaysPut(v)
  PROVE  FenceOK(task[v])' /\ (~Preemption => AppendOK(task[v])')
<1>1. /\ task[v] \in Tasks /\ Typed /\ PointOK(task[v]) /\ OnHost(task[v]) /\ FenceOK(task[v])
      /\ ~Preemption => AppendOK(task[v])
  BY DEF OrderInv, OperationInv, Typed, TasksOK, TaskOK, FencesOK, AppendsOK
<1>2. PICK t : t = task[v]
  OBVIOUS
<1>3. CASE task[v].pc = "idle"
  <2>1. task'[v] = IdleTask
    BY <1>1, <1>3 DEF PointOK, StaysPut
  <2>2. IdleTask' = IdleTask
    BY DEF IdleTask, NoClaim, NoEvent, NoRecord
  <2>3. FenceOK(IdleTask)' /\ AppendOK(IdleTask)'
    BY IdleInOrder, PTL
  <2> QED BY <2>1, <2>2, <2>3
<1>4. CASE task[v].pc # "idle"
  <2>1. t.host \in Hosts /\ mine'[t.host] = mine[t.host] /\ task'[v] = t
        /\ (t.does = "boot" => seen'[t.host] = seen[t.host])
    BY <1>1, <1>2, <1>4 DEF StaysPut, OnHost
  <2>2. FenceOK(t)'
    BY <1>1, <1>2, <2>1, FenceKept
  <2>3. ~Preemption => AppendOK(t)'
    BY <1>1, <1>2, <2>1, StandsKept
  <2> QED BY <2>1, <2>2, <2>3
<1> QED BY <1>3, <1>4

SeenKept(w) == \A h \in Hosts : seen'[h] = seen[h] \/ (task[w].pc # "idle" /\ h = task[w].host)

LEMMA Grown ==
  ASSUME UNCHANGED journal
  PROVE  JournalGrows
BY DEF journal, JournalGrows, Created

\* A request that drives an operation drives a local one.
LEMMA DriverOf ==
  ASSUME NEW t, PointOK(t), EventOK(t), OnHost(t), Drives(t)
  PROVE  LocalOp(t.op) /\ t.op \in Operations /\ t.host \in Hosts
<1>1. t.does = "submit" /\ t.pc # "idle"
  BY DEF Drives, PointOK, Piped, ExecPcs, IdleTask
<1>2. LocalOp(t.op)
  <2>1. CASE t.pc \in {"claim", "resolve", "advance", "finish", "complete"} \cup ExecPcs
    BY <2>1 DEF PointOK
  <2>2. CASE t.pc = "fence" /\ t.then = "claim"
    BY <1>1, <2>2 DEF EventOK, FencesFor, HostDoes, AgentDoes
  <2>3. CASE t.pc \in Piped /\ t.event.kind = "claim"
    BY <1>1, <2>3 DEF EventOK, Fencing, Claiming, Recording
  <2>4. CASE t.pc \in Piped /\ t.event.kind = "record" /\ t.event.was.status # "none"
    BY <1>1, <2>4 DEF EventOK, Fencing, Claiming, Recording, Creating, Advancing, Completing, Expiring,
                      Progressing, Reporting
  <2>5. CASE t.pc \in Piped /\ t.event.kind = "fence" /\ t.then = "claim"
    BY <1>1, <2>5 DEF EventOK, Fencing, FencesFor, Claiming, Recording, AgentDoes
  <2> QED BY <2>1, <2>2, <2>3, <2>4, <2>5 DEF Drives
<1> QED BY <1>1, <1>2 DEF LocalOp, Created, OnHost

\* A task moves, and its Host may take a lock for it.
Moves(w, u) ==
  /\ SetTask(w, u) /\ UNCHANGED <<journal, driver, term, mine, phase>> /\ SeenKept(w)
  /\ FenceOK(u) /\ (~Preemption => AppendOK(u)')
  /\ Drives(u) => executing'[u.host][u.op] = w
  /\ \A h \in Hosts, o \in Operations : executing[h][o] \in Workers => executing'[h][o] = executing[h][o]

LEMMA MovesKeep ==
  ASSUME OrderInv, OperationInv', NEW w \in Workers, NEW u \in Tasks, Moves(w, u)
  PROVE  OrderInv'
<1>1. /\ task \in [Workers -> Tasks] /\ Typed /\ Typed' /\ TasksOK /\ Alone /\ LocksOK /\ FencesOK
      /\ NoOrphanRunning /\ UNCHANGED journal /\ UNCHANGED <<driver, term, mine, phase>>
  BY DEF OrderInv, OperationInv, Typed, Moves
<1>2. task'[w] = u /\ \A v \in Workers \ {w} : task'[v] = task[v]
  BY <1>1 DEF Moves, SetTask
<1>3. UNCHANGED <<record, fence, claim, length, poisoned>> /\ JournalGrows
  BY <1>1, Grown DEF journal
<1>4. \A v \in Workers \ {w} : FenceOK(task[v])' /\ (~Preemption => AppendOK(task[v])')
  <2> SUFFICES ASSUME NEW v \in Workers \ {w}
               PROVE  FenceOK(task[v])' /\ (~Preemption => AppendOK(task[v])')
    OBVIOUS
  <2>1. task[v].pc # "idle" => task[v].host \in Hosts
    BY <1>1 DEF TasksOK, TaskOK, OnHost
  <2>2. task[v].does = "boot" /\ task[w].pc # "idle" => task[v].host # task[w].host
    BY <1>1 DEF Alone
  <2>3. StaysPut(v)
    BY <1>1, <1>2, <2>1, <2>2 DEF StaysPut, Moves, SeenKept
  <2> QED BY <1>1, <1>3, <2>3, OthersInOrder
<1>5. FenceOK(task[w])' /\ (~Preemption => AppendOK(task[w])')
  <2>1. \A x : x = u => FenceOK(x)'
    BY <1>1, <1>3 DEF Moves, FenceOK, Claimed, Created
  <2>2. \A x : x = u => (~Preemption => AppendOK(x)')
    BY DEF Moves
  <2> QED BY <1>2, <2>1, <2>2
<1>6. FencesOK'
  BY <1>1, <1>3, <1>4, <1>5 DEF FencesOK
<1>7. NoOrphanRunning'
  BY <1>1, <1>3 DEF NoOrphanRunning, Owner, Local, Created
<1>8. LocksOK'
  <2> SUFFICES ASSUME NEW v \in Workers, Drives(task[v])'
               PROVE  (executing[task[v].host][task[v].op] = v)'
    BY DEF LocksOK
  <2>1. CASE v = w
    <3>1. Drives(u)
      BY <1>2, <2>1 DEF Drives
    <3> QED BY <1>2, <2>1, <3>1 DEF Moves
  <2>2. CASE v # w
    <3>1. Drives(task[v]) /\ task'[v] = task[v]
      BY <1>2, <2>2 DEF Drives
    <3>2. executing[task[v].host][task[v].op] = v
      BY <1>1, <3>1 DEF LocksOK
    <3>3. PointOK(task[v]) /\ EventOK(task[v]) /\ OnHost(task[v])
      BY <1>1 DEF TasksOK, TaskOK
    <3>4. task[v].host \in Hosts /\ task[v].op \in Operations
      BY <3>1, <3>3, DriverOf
    <3> QED BY <3>1, <3>2, <3>4 DEF Moves
  <2> QED BY <2>1, <2>2
<1>9. ~Preemption => AppendsOK'
  BY <1>3, <1>4, <1>5 DEF OrderInv, AppendsOK, OperationsReplay
<1> QED BY <1>6, <1>7, <1>8, <1>9 DEF OrderInv

\* A task ends.  A Host whose startup ends stops, or serves from then on.
EndsBoot(w, h) ==
  \/ phase'[h] = phase[h] /\ mine'[h] = mine[h]
  \/ task[w].does = "boot" /\ h = task[w].host /\ phase'[h] = "down"
  \/ /\ task[w].does = "boot" /\ h = task[w].host /\ mine'[h] = mine[h] /\ mine[h] <= fence
     /\ \A o \in Created : ~(Local(o) /\ record[o].status = "running")

EndsInOrder(w) ==
  /\ Ends(w) /\ UNCHANGED <<journal, driver>> /\ SeenKept(w)
  /\ \A h \in Hosts : EndsBoot(w, h)

LEMMA EndsKeep ==
  ASSUME OrderInv, OperationInv', NEW w \in Workers, EndsInOrder(w)
  PROVE  OrderInv'
<1>1. /\ task \in [Workers -> Tasks] /\ Typed /\ Typed' /\ TasksOK /\ Alone /\ LocksOK /\ FencesOK
      /\ NoOrphanRunning /\ UNCHANGED journal /\ UNCHANGED <<driver, term>> /\ TermsOK'
      /\ task' = [task EXCEPT ![w] = IdleTask] /\ Release(w)
  BY DEF OrderInv, OperationInv, Typed, EndsInOrder, Ends, SetTask
<1>2. task'[w] = IdleTask /\ \A v \in Workers \ {w} : task'[v] = task[v]
  BY <1>1
<1>3. UNCHANGED <<record, fence, claim, length, poisoned>> /\ JournalGrows
  BY <1>1, Grown DEF journal
<1>4. \A v \in Workers \ {w} : FenceOK(task[v])' /\ (~Preemption => AppendOK(task[v])')
  <2> SUFFICES ASSUME NEW v \in Workers \ {w}
               PROVE  FenceOK(task[v])' /\ (~Preemption => AppendOK(task[v])')
    OBVIOUS
  <2>1. task[v].pc # "idle" => task[v].host \in Hosts
    BY <1>1 DEF TasksOK, TaskOK, OnHost
  <2>2. /\ task[v].does = "boot" /\ task[w].pc # "idle" => task[v].host # task[w].host
        /\ task[w].does = "boot" /\ task[v].pc # "idle" => task[v].host # task[w].host
    BY <1>1 DEF Alone
  <2>3. task[v].pc # "idle" => EndsBoot(w, task[v].host)
    BY <2>1 DEF EndsInOrder
  <2>4. StaysPut(v)
    BY <1>2, <2>1, <2>2, <2>3 DEF StaysPut, EndsInOrder, EndsBoot, SeenKept
  <2> QED BY <1>1, <1>3, <2>4, OthersInOrder
<1>5. FenceOK(task[w])' /\ (~Preemption => AppendOK(task[w])') /\ ~Drives(task[w])'
  <2>1. IdleTask' = IdleTask
    BY DEF IdleTask, NoClaim, NoEvent, NoRecord
  <2>2. Typed'
    BY <1>1
  <2>3. FenceOK(IdleTask)' /\ AppendOK(IdleTask)' /\ ~Drives(IdleTask)'
    BY <2>2, IdleInOrder, PTL
  <2> QED BY <1>2, <2>1, <2>3
<1>6. \A h \in Hosts : phase'[h] = "up" =>
        mine'[h] = mine[h] /\ (phase[h] = "up" \/ (mine[h] <= fence /\ EndsBoot(w, h)))
  BY DEF EndsInOrder, EndsBoot
<1>7. FencesOK'
  <2>1. \A h \in Hosts : phase'[h] = "up" => mine'[h] <= fence'
    BY <1>1, <1>3, <1>6 DEF FencesOK
  <2> QED BY <1>1, <1>3, <1>4, <1>5, <2>1 DEF FencesOK
<1>8. NoOrphanRunning'
  <2> SUFFICES ASSUME NEW h \in Hosts, NEW o \in Created, phase'[h] = "up", mine'[h] = term,
                      Local(o), record[o].status = "running"
               PROVE  claim[o].owner = mine'[h]
    BY <1>1, <1>3 DEF NoOrphanRunning, Owner, Local, Created
  <2>1. phase[h] = "up" /\ mine'[h] = mine[h]
    BY <1>6 DEF EndsInOrder, EndsBoot
  <2> QED BY <1>1, <2>1 DEF NoOrphanRunning, Owner
<1>9. LocksOK'
  <2> SUFFICES ASSUME NEW v \in Workers, Drives(task[v])'
               PROVE  (executing[task[v].host][task[v].op] = v)'
    BY DEF LocksOK
  <2>1. v # w
    BY <1>5
  <2>2. Drives(task[v]) /\ task'[v] = task[v]
    BY <1>2, <2>1 DEF Drives
  <2>3. executing[task[v].host][task[v].op] = v
    BY <1>1, <2>2 DEF LocksOK
  <2>4. PointOK(task[v]) /\ EventOK(task[v]) /\ OnHost(task[v])
    BY <1>1 DEF TasksOK, TaskOK
  <2>5. task[v].host \in Hosts /\ task[v].op \in Operations
    BY <2>2, <2>4, DriverOf
  <2> QED BY <1>1, <2>1, <2>2, <2>3, <2>5 DEF Release
<1>10. ~Preemption => AppendsOK'
  BY <1>3, <1>4, <1>5 DEF OrderInv, AppendsOK, OperationsReplay
<1> QED BY <1>7, <1>8, <1>9, <1>10 DEF OrderInv

LEMMA SeenBy ==
  ASSUME Typed, NEW w, task[w].pc # "idle", Sync(task[w].host) \/ UNCHANGED seen
  PROVE  SeenKept(w)
BY DEF Typed, Sync, SeenKept

LEMMA FailsInOrder ==
  ASSUME OrderInv, OperationInv', BootMayFail = FALSE, NEW w \in Workers, task[w].pc # "idle",
         Fails(w), UNCHANGED <<journal, driver>>, Sync(task[w].host) \/ UNCHANGED seen
  PROVE  OrderInv'
<1>1. Typed /\ OnHost(task[w])
  BY DEF OrderInv, OperationInv, TasksOK, TaskOK
<1>2. SeenKept(w)
  BY <1>1, SeenBy
<1>3. Ends(w)
  BY DEF Fails, Ends
<1>4. \A h \in Hosts : EndsBoot(w, h)
  BY <1>1 DEF Fails, EndsBoot, Typed, OnHost
<1> QED BY <1>2, <1>3, <1>4, EndsKeep DEF EndsInOrder

LEMMA FinishesInOrder ==
  ASSUME OrderInv, OperationInv', NEW w \in Workers, task[w].pc # "idle", NEW o, NEW r,
         Finishes(w, o, r), UNCHANGED <<journal, driver>>, Sync(task[w].host) \/ UNCHANGED seen,
         task[w].does = "boot" =>
           /\ mine[task[w].host] <= fence
           /\ \A p \in Created : ~(Local(p) /\ record[p].status = "running")
  PROVE  OrderInv'
<1>1. Typed /\ OnHost(task[w])
  BY DEF OrderInv, OperationInv, TasksOK, TaskOK
<1>2. SeenKept(w)
  BY <1>1, SeenBy
<1>3. Ends(w)
  BY DEF Finishes, Returns, Ends
<1>4. \A h \in Hosts : EndsBoot(w, h)
  <2>1. mine' = mine /\ phase' = IF task[w].does = "boot" THEN [phase EXCEPT ![task[w].host] = "up"]
                                 ELSE phase
    BY DEF Finishes, Returns
  <2> QED BY <1>1, <2>1 DEF EndsBoot, Typed, OnHost
<1> QED BY <1>2, <1>3, <1>4, EndsKeep DEF EndsInOrder

\* A task without an event in hand.
LEMMA Eventless ==
  ASSUME NEW t, t.event = NoEvent, t.pc \notin Piped, t.base <= length,
         Claimed(t) => t.claim.owner = mine[t.host] /\ t.claim.exec # 0,
         t.does = "boot" => t.pc = "fence" \/ mine[t.host] <= fence
  PROVE  FenceOK(t) /\ AppendOK(t)'
<1>1. t.event.kind = "none"
  BY DEF NoEvent
<1>2. FenceOK(t)
  BY <1>1 DEF FenceOK, Piped
<1>3. AppendOK(t)'
  BY <1>1 DEF AppendOK, Undisturbed
<1> QED BY <1>2, <1>3

\* A recovery that is past its fence has fenced.
LEMMA PastFence ==
  ASSUME OrderInv, NEW w \in Workers, task[w].pc \notin Piped \cup {"fence"}
  PROVE  /\ task[w].event = NoEvent /\ task[w].base <= length
         /\ task[w].does = "boot" => mine[task[w].host] <= fence
         /\ Claimed(task[w]) => /\ task[w].claim.owner = mine[task[w].host]
                                /\ task[w].claim.exec # 0
<1>1. FenceOK(task[w]) /\ EventOK(task[w])
  BY DEF OrderInv, OperationInv, FencesOK, TasksOK, TaskOK
<1>2. task[w].event = NoEvent
  BY <1>1 DEF EventOK
<1>3. task[w].event.kind = "none"
  BY <1>2 DEF NoEvent
<1> QED BY <1>1, <1>2, <1>3 DEF FenceOK

\* u goes on where t was, with the operation that t had.
GoesOn(t, u) ==
  /\ u.host = t.host /\ u.does = t.does /\ u.event = t.event /\ u.base = t.base
  /\ Claimed(u) => Claimed(t) /\ u.claim = t.claim
  /\ Drives(u) => Drives(t) /\ u.op = t.op

LEMMA GoesOnInOrder ==
  ASSUME OrderInv, OperationInv', NEW w \in Workers, task[w].pc \notin {"idle", "fence"} \cup Piped,
         NEW u \in Tasks, SetTask(w, u), GoesOn(task[w], u), u.pc \notin Piped,
         UNCHANGED <<journal, driver, hosts>>, Sync(task[w].host) \/ UNCHANGED seen
  PROVE  OrderInv'
<1> DEFINE t == task[w]
<1>1. Typed /\ LocksOK /\ UNCHANGED <<term, mine, phase, executing>>
  BY DEF OrderInv, OperationInv, hosts
<1>2. /\ t.event = NoEvent /\ t.base <= length /\ (t.does = "boot" => mine[t.host] <= fence)
      /\ Claimed(t) => t.claim.owner = mine[t.host] /\ t.claim.exec # 0
  BY PastFence
<1>3. SeenKept(w)
  BY <1>1, SeenBy
<1>4. FenceOK(u) /\ AppendOK(u)'
  <2> HIDE DEF t
  <2>1. GoesOn(t, u)
    BY DEF t
  <2> QED BY <1>2, <2>1, Eventless DEF GoesOn
<1>5. Drives(u) => executing'[u.host][u.op] = w
  BY <1>1 DEF GoesOn, LocksOK
<1>6. Moves(w, u)
  BY <1>1, <1>3, <1>4, <1>5 DEF Moves
<1> QED BY <1>6, MovesKeep

\* A task moves in its own right.
LEMMA MovesInOrder ==
  ASSUME OrderInv, OperationInv', NEW w \in Workers, task[w].pc # "idle", NEW u \in Tasks, SetTask(w, u),
         UNCHANGED <<journal, driver, hosts>>, Sync(task[w].host) \/ UNCHANGED seen,
         u.host = task[w].host, FenceOK(u), ~Preemption => AppendOK(u)',
         Drives(u) => Drives(task[w]) /\ u.op = task[w].op
  PROVE  OrderInv'
<1>1. Typed /\ LocksOK /\ UNCHANGED <<term, mine, phase, executing>>
  BY DEF OrderInv, OperationInv, hosts
<1>2. SeenKept(w)
  BY <1>1, SeenBy
<1>3. Drives(u) => executing'[u.host][u.op] = w
  BY <1>1 DEF LocksOK
<1>4. Moves(w, u)
  BY <1>1, <1>2, <1>3 DEF Moves
<1> QED BY <1>4, MovesKeep

LEMMA NextTask ==
  ASSUME Typed, Typed', NEW w \in Workers, NEW u, SetTask(w, u)
  PROVE  task'[w] = u /\ u \in Tasks
<1>1. task'[w] = u
  BY DEF Typed, SetTask
<1>2. task'[w] \in Tasks
  BY DEF Typed
<1> QED BY <1>1, <1>2

\* What the invariants say of a task that is at work.
LEMMA TaskFacts ==
  ASSUME OrderInv, NEW w \in Workers, task[w].pc # "idle"
  PROVE  /\ task[w] \in Tasks /\ TaskOK(task[w]) /\ FenceOK(task[w]) /\ Typed
         /\ ~Preemption => AppendOK(task[w])
         /\ task[w].host \in Hosts /\ mine[task[w].host] \in Nat /\ mine[task[w].host] # 0
         /\ fence \in Nat /\ term \in Nat /\ length \in Nat /\ fence <= term
         /\ task[w].does # "boot" => mine[task[w].host] <= fence
<1>1. /\ task[w] \in Tasks /\ TaskOK(task[w]) /\ FenceOK(task[w]) /\ Typed /\ FencesOK /\ TermsOK
      /\ ~Preemption => AppendOK(task[w])
  BY DEF OrderInv, OperationInv, Typed, TasksOK, FencesOK, AppendsOK
<1>2. task[w].host \in Hosts /\ phase[task[w].host] # "down"
      /\ (task[w].does # "boot" => phase[task[w].host] = "up")
  BY <1>1 DEF TaskOK, OnHost, Typed
<1> QED BY <1>1, <1>2 DEF Typed, FencesOK, TermsOK

LEMMA HostFenceInOrder ==
  ASSUME OrderInv, OperationInv', BootMayFail = FALSE, NEW w \in Workers, HostFence(w)
  PROVE  OrderInv'
<1> DEFINE t == task[w]
           h == task[w].host
<1>1. t.pc = "fence" /\ UNCHANGED <<journal, driver>>
  BY DEF HostFence, At
<1>2. /\ t \in Tasks /\ TaskOK(t) /\ FenceOK(t) /\ Typed /\ Typed' /\ h \in Hosts
      /\ mine[h] \in Nat /\ fence \in Nat /\ term \in Nat /\ length \in Nat /\ fence <= term
      /\ t.does # "boot" => mine[h] <= fence
  BY <1>1, TaskFacts DEF OperationInv
<1>3. FencesFor(t) /\ t.event = NoEvent /\ t.base <= length
  BY <1>1, <1>2 DEF TaskOK, EventOK, Piped, FenceOK
<1>4. CASE Fails(w) /\ UNCHANGED seen
  BY <1>1, <1>4, FailsInOrder
<1>5. CASE fence = mine[h] /\ Goto(w, t.then) /\ Sync(h) /\ UNCHANGED <<hosts, agent>>
  <2>1. PICK u : u = [t EXCEPT !.pc = t.then]
    OBVIOUS
  <2>2. SetTask(w, u)
    BY <1>5, <2>1 DEF Goto
  <2>3. u \in Tasks
    BY <1>2, <2>2, NextTask
  <2>4. /\ u.pc = t.then /\ u.event = NoEvent /\ u.host = t.host /\ u.does = t.does /\ u.base = t.base
        /\ u.op = t.op
    BY <1>2, <1>3, <2>1 DEF Tasks
  <2>5. u.pc \in {"create", "target", "claim", "recover", "handle"}
    BY <1>3, <2>4 DEF FencesFor
  <2>6. ~Claimed(u) /\ u.pc \notin Piped
    BY <2>5 DEF Claimed, Piped, ExecPcs
  <2>7. Drives(u) => Drives(t)
    BY <1>1, <2>4, <2>5, <2>6 DEF Drives, ExecPcs
  <2>8. mine[u.host] <= fence /\ u.base <= length
    BY <1>2, <1>3, <1>5, <2>4
  <2>9. FenceOK(u) /\ AppendOK(u)'
    <3> HIDE DEF t, h
    <3> QED BY <2>4, <2>6, <2>8, Eventless
  <2> QED BY <1>1, <1>5, <2>2, <2>3, <2>4, <2>7, <2>9, MovesInOrder
<1>6. CASE /\ Owner(h) /\ fence # mine[h] /\ Propose(w, t, FenceEvent(mine[h]), TRUE, t.then, "fence")
           /\ Sync(h) /\ UNCHANGED <<hosts, agent>>
  <2>1. FenceEvent(mine[h]) \in Events /\ FenceEvent(mine[h]).kind = "fence"
        /\ FenceEvent(mine[h]).was = fence /\ FenceEvent(mine[h]).new = mine[h]
    BY <1>2 DEF Typed, FenceEvent, Events, FenceEvents
  <2>2. t.then \in Pcs /\ "fence" \in Pcs
    BY <1>2 DEF Tasks, Pcs
  <2>3. PICK u \in Tasks :
          SetTask(w, u) /\ Proposal(t, FenceEvent(mine[h]), TRUE, t.then, "fence", u)
    BY <1>2, <1>6, <2>1, <2>2, Proposes
  <2>4. /\ u.event.kind = "fence" /\ u.event.was = fence /\ u.event.new = mine[h] /\ u.base = 0
        /\ u.pc = "owner" /\ u.host = t.host /\ u.does = t.does /\ u.op = t.op /\ u.then = t.then
    BY <2>1, <2>3 DEF Proposal, SameWork
  <2>5. fence < mine[h] /\ t.does = "boot"
    BY <1>2, <1>6 DEF Owner
  <2>6. FenceOK(u)
    BY <1>2, <2>4, <2>5 DEF FenceOK, Claimed, ExecPcs
  <2>7. Drives(u) => Drives(t)
    BY <1>1, <2>4 DEF Drives, ExecPcs
  <2>8. AppendOK(u)'
    <3>1. FenceStands(u)'
      BY <1>1, <2>4, <2>5 DEF FenceStands, journal
    <3> QED BY <2>4, <3>1 DEF AppendOK, Undisturbed
  <2> QED BY <1>1, <1>6, <2>3, <2>4, <2>6, <2>7, <2>8, MovesInOrder
<1> QED BY <1>4, <1>5, <1>6 DEF HostFence

\* An up Host, or one past its fence, that owns the lease has the fence.
LEMMA OwnerFences ==
  ASSUME OrderInv, NEW w \in Workers, task[w].pc \notin {"idle", "fence"},
         task[w].event.kind # "fence", Owner(task[w].host)
  PROVE  fence = mine[task[w].host]
<1>1. /\ FenceOK(task[w]) /\ mine[task[w].host] \in Nat /\ fence \in Nat /\ term \in Nat /\ fence <= term
      /\ task[w].does # "boot" => mine[task[w].host] <= fence
  BY TaskFacts
<1> QED BY <1>1 DEF FenceOK, Owner

LEMMA CheckOwnerInOrder ==
  ASSUME OrderInv, OperationInv', BootMayFail = FALSE, NEW w \in Workers, CheckOwner(w)
  PROVE  OrderInv'
<1> DEFINE t == task[w]
           h == task[w].host
<1>1. t.pc = "owner" /\ UNCHANGED <<journal, driver, seen>>
  BY DEF CheckOwner, At
<1>2. /\ t \in Tasks /\ TaskOK(t) /\ FenceOK(t) /\ Typed /\ Typed' /\ h \in Hosts
      /\ ~Preemption => AppendOK(t)
  BY <1>1, TaskFacts DEF OperationInv
<1>3. CASE Fails(w)
  BY <1>1, <1>3, FailsInOrder
<1>4. CASE ~Fails(w)
  <2>1. PICK u : u = IF Preemption THEN [t EXCEPT !.pc = "base"]
                     ELSE [t EXCEPT !.pc = "append", !.base = seen[h]]
    OBVIOUS
  <2>2. Owner(h) /\ SetTask(w, u) /\ UNCHANGED <<hosts, agent>>
    BY <1>4, <2>1 DEF CheckOwner
  <2>3. u \in Tasks
    BY <1>2, <2>2, NextTask
  <2>4. /\ u.event = t.event /\ u.host = h /\ u.does = t.does /\ u.op = t.op /\ u.then = t.then
        /\ u.claim = t.claim /\ u.pc \in {"base", "append"}
        /\ u.base \in {t.base, seen[h]}
        /\ ~Preemption => u.pc = "append" /\ u.base = seen[h]
    BY <1>2, <2>1 DEF Tasks
  <2>5. seen[h] <= length
    BY <1>2 DEF Typed
  <2>6. t.event.kind \in {"fence", "claim"}
    BY <1>1, <1>2 DEF TaskOK, EventOK, Piped, Fencing, Claiming, Recording
  <2>7. t.event.kind = "claim" => fence = mine[h]
    BY <1>1, <2>2, OwnerFences
  <2> HIDE DEF t, h
  <2>8. FenceOK(u)
    BY <1>1, <1>2, <2>4, <2>5, <2>6 DEF FenceOK, Claimed, ExecPcs, t, h
  <2>9. Drives(u) => Drives(t)
    BY <1>1, <2>4, <2>6 DEF Drives, ExecPcs, Piped
  <2>10. ~Preemption => AppendOK(u)
    <3> SUFFICES ASSUME ~Preemption PROVE AppendOK(u)
      OBVIOUS
    <3>1. t.event.kind = "fence" => FenceStands(u)
      BY <1>1, <1>2, <2>4 DEF AppendOK, FenceStands, t, h
    <3>2. t.event.kind = "claim" => ClaimStands(u)
      BY <2>4, <2>7 DEF ClaimStands
    <3>3. Undisturbed(t) => Undisturbed(u)
      BY <2>4 DEF Undisturbed
    <3> QED BY <1>2, <2>4, <2>6, <3>1, <3>2, <3>3 DEF AppendOK, t, h
  <2>11. ~Preemption => AppendOK(u)'
    <3>1. UNCHANGED <<mine, seen>> /\ UNCHANGED journal
      BY <1>1, <2>2 DEF hosts
    <3> QED BY <2>10, <3>1, StandsKept
  <2> QED BY <1>1, <2>2, <2>3, <2>4, <2>8, <2>9, <2>11, MovesInOrder DEF t, h
<1> QED BY <1>3, <1>4

LEMMA ReadBaseInOrder ==
  ASSUME OrderInv, OperationInv', BootMayFail = FALSE, NEW w \in Workers, ReadBase(w)
  PROVE  OrderInv'
<1> DEFINE t == task[w]
           h == task[w].host
<1>1. t.pc = "base" /\ UNCHANGED <<journal, driver, hosts, seen>>
  BY DEF ReadBase, At
<1>2. /\ t \in Tasks /\ FenceOK(t) /\ Typed /\ Typed' /\ h \in Hosts
      /\ ~Preemption => AppendOK(t)
  BY <1>1, TaskFacts DEF OperationInv
<1>3. PICK u : u = [t EXCEPT !.base = seen[h],
                             !.pc = IF t.event.kind = "record" THEN "check" ELSE "append"]
  OBVIOUS
<1>4. SetTask(w, u)
  BY <1>3 DEF ReadBase
<1>5. u \in Tasks
  BY <1>2, <1>4, NextTask
<1>6. /\ u.event = t.event /\ u.host = h /\ u.does = t.does /\ u.op = t.op /\ u.then = t.then
      /\ u.claim = t.claim /\ u.base = seen[h]
      /\ u.pc = IF t.event.kind = "record" THEN "check" ELSE "append"
  BY <1>2, <1>3 DEF Tasks
<1>7. seen[h] <= length
  BY <1>2 DEF Typed
<1> HIDE DEF t, h
<1>8. FenceOK(u)
  BY <1>1, <1>2, <1>6, <1>7 DEF FenceOK, Claimed, ExecPcs, Piped, t, h
<1>9. Drives(u) => Drives(t)
  BY <1>1, <1>6 DEF Drives, ExecPcs, Piped
<1>10. ~Preemption => AppendOK(u)
  <2> SUFFICES ASSUME ~Preemption PROVE AppendOK(u)
    OBVIOUS
  <2>1. t.event.kind \notin {"fence", "claim"}
        /\ (t.event.kind = "record" => t.event.was.status # "none" /\ t.does \notin AgentDoes)
    BY <1>1, <1>2 DEF AppendOK, FenceStands, ClaimStands, CreateStands, ChangeStands
  <2>2. t.event.kind = "record" => ChangeStands(u)
    BY <1>2, <1>6, <2>1 DEF AppendOK, ChangeStands
  <2>3. Undisturbed(t) => Undisturbed(u)
    BY <1>6 DEF Undisturbed
  <2> QED BY <1>2, <1>6, <2>1, <2>2, <2>3 DEF AppendOK, t, h
<1>11. ~Preemption => AppendOK(u)'
  <2>1. UNCHANGED <<mine, seen>> /\ UNCHANGED journal
    BY <1>1 DEF hosts
  <2> QED BY <1>10, <2>1, StandsKept
<1> QED BY <1>1, <1>4, <1>5, <1>6, <1>8, <1>9, <1>11, MovesInOrder DEF t, h

LEMMA CheckAppendInOrder ==
  ASSUME OrderInv, OperationInv', BootMayFail = FALSE, NEW w \in Workers, CheckAppend(w)
  PROVE  OrderInv'
<1> DEFINE t == task[w]
           h == task[w].host
           executes == /\ driver[t.event.new.key] = "local"
                       /\ t.event.new.status \notin {"requested", "expired"}
<1>1. t.pc = "check" /\ UNCHANGED <<journal, driver>>
  BY DEF CheckAppend, At
<1>2. /\ t \in Tasks /\ TaskOK(t) /\ FenceOK(t) /\ Typed /\ Typed' /\ h \in Hosts
      /\ ~Preemption => AppendOK(t)
  BY <1>1, TaskFacts DEF OperationInv
<1>3. CASE Fails(w) /\ UNCHANGED seen
  BY <1>1, <1>3, FailsInOrder
<1>4. CASE /\ FenceCurrent(h) /\ (executes => ClaimCurrent(t) /\ t.event.new.exec = t.claim.exec)
           /\ Goto(w, "append") /\ Sync(h) /\ UNCHANGED <<hosts, agent>>
  <2>1. PICK u : u = [t EXCEPT !.pc = "append"]
    OBVIOUS
  <2>2. SetTask(w, u)
    BY <1>4, <2>1 DEF Goto
  <2>3. u \in Tasks
    BY <1>2, <2>2, NextTask
  <2>4. /\ u.event = t.event /\ u.host = h /\ u.does = t.does /\ u.op = t.op /\ u.then = t.then
        /\ u.claim = t.claim /\ u.base = t.base /\ u.pc = "append"
    BY <1>2, <2>1 DEF Tasks
  <2>5. Recording(t) /\ t.event.kind = "record"
    BY <1>1, <1>2 DEF TaskOK, EventOK, Piped, Fencing, Claiming, Recording
  <2>6. fence = mine[h]
    BY <1>4 DEF FenceCurrent
  <2>7. Claimed(t) /\ t.event.new.status # "expired" => claim[t.op] = t.claim
    <3> SUFFICES ASSUME Claimed(t), t.event.new.status # "expired" PROVE executes
      BY <1>4 DEF ClaimCurrent
    <3>1. t.does \in HostDoes /\ t.event.was.status # "none"
      BY <1>1 DEF Claimed, ExecPcs
    <3>2. Advancing(t) \/ Completing(t)
      BY <2>5, <3>1 DEF Recording, Creating, Expiring, Progressing, Reporting, HostDoes
    <3>3. LocalOp(t.op) /\ t.event.op = t.op /\ t.event.new.key = t.event.was.key
          /\ t.event.new.status # "requested"
      BY <3>2 DEF Advancing, Completing, Outcomes
    <3>4. t.event.was.key = record[t.op].key
      BY <1>2, <2>5, <3>1, <3>3 DEF FenceOK
    <3> QED BY <3>3, <3>4 DEF LocalOp, Local
  <2> HIDE DEF t, h
  <2>8. FenceOK(u)
    <3>1. Claimed(u) => Claimed(t)
      BY <1>1, <2>4 DEF Claimed, ExecPcs, Piped
    <3>2. h = t.host /\ FenceOK(t)
      BY <1>2 DEF t, h
    <3> HIDE DEF executes
    <3> QED BY <1>1, <2>4, <2>5, <2>6, <2>7, <3>1, <3>2 DEF FenceOK
  <2>9. Drives(u) => Drives(t)
    BY <1>1, <2>4 DEF Drives, ExecPcs, Piped
  <2>10. ~Preemption => AppendOK(u)
    <3> SUFFICES ASSUME ~Preemption PROVE AppendOK(u)
      OBVIOUS
    <3>1. t.event.was.status = "none" => CreateStands(u)
      BY <1>2, <2>4, <2>5 DEF AppendOK, CreateStands
    <3>2. t.event.was.status # "none" => ChangeStands(u)
      BY <1>2, <2>4, <2>5 DEF AppendOK, ChangeStands
    <3>3. Undisturbed(t) => Undisturbed(u)
      BY <2>4 DEF Undisturbed
    <3> QED BY <1>2, <2>4, <2>5, <3>1, <3>2, <3>3 DEF AppendOK, t, h
  <2>11. ~Preemption => AppendOK(u)'
    <3>1. UNCHANGED mine /\ UNCHANGED journal
      BY <1>1, <1>4 DEF hosts
    <3> QED BY <2>4, <2>5, <2>10, <3>1, StandsKept
  <2> QED BY <1>1, <1>4, <2>2, <2>3, <2>4, <2>8, <2>9, <2>11, MovesInOrder DEF t, h
<1> QED BY <1>3, <1>4 DEF CheckAppend

LEMMA StoreErrorInOrder ==
  ASSUME OrderInv, OperationInv', BootMayFail = FALSE, NEW w \in Workers, StoreError(w)
  PROVE  OrderInv'
BY FailsInOrder DEF StoreError, Errs

\* A task that holds what it needs proposes to change a record.
LEMMA ChangeInOrder ==
  ASSUME OrderInv, OperationInv', NEW w \in Workers, task[w].pc \notin {"idle", "fence"} \cup Piped,
         NEW o \in Operations, NEW n \in Records, NEW await \in BOOLEAN, NEW then \in Pcs,
         NEW retry \in Pcs, Propose(w, task[w], RecordEvent(o, n), await, then, retry),
         UNCHANGED <<journal, driver, hosts>>, Sync(task[w].host),
         record[o].status # "none", ValidTransition(record[o], n),
         task[w].does \in HostDoes => Claimed(task[w]) /\ o = task[w].op,
         task[w].does \in AgentDoes => ~await
  PROVE  OrderInv'
<1> DEFINE t == task[w]
           e == RecordEvent(o, n)
<1>1. /\ t \in Tasks /\ Typed /\ length \in Nat
  BY TaskFacts
<1>2. /\ t.event = NoEvent /\ t.base <= length /\ (t.does = "boot" => mine[t.host] <= fence)
      /\ Claimed(t) => t.claim.owner = mine[t.host] /\ t.claim.exec # 0
  BY PastFence
<1>3. e \in Events /\ e.kind = "record" /\ e.op = o /\ e.was = record[o] /\ e.new = n
  BY <1>1, RecordEventFacts
<1> HIDE DEF e
<1>4. PICK u \in Tasks : SetTask(w, u) /\ Proposal(t, e, await, then, retry, u)
  BY <1>1, <1>3, Proposes DEF e
<1>5. /\ u.event = e /\ u.host = t.host /\ u.does = t.does /\ u.op = t.op /\ u.claim = t.claim
      /\ u.pc \in {"base", "check"} /\ u.base \in {0, length} /\ u.pc \in Piped
      /\ ~Preemption /\ ~await => u.pc = "check"
  BY <1>3, <1>4 DEF Proposal, SameWork, Piped
<1>6. t.does \in HostDoes => Claimed(t) /\ o = t.op
  OBVIOUS
<1> HIDE DEF t
<1>7. FenceOK(u)
  <2>1. Claimed(u) => Claimed(t)
    BY <1>5, <1>6 DEF Claimed, ExecPcs
  <2>2. u.base <= length
    BY <1>1, <1>5
  <2>3. o \in Created
    BY DEF Created
  <2> QED BY <1>2, <1>3, <1>5, <2>1, <2>2, <2>3 DEF FenceOK
<1>8. Drives(u) => Drives(t)
  <2>1. Drives(u) => t.does = "submit"
    BY <1>5 DEF Drives
  <2> QED BY <1>6, <2>1 DEF Drives, Claimed, HostDoes, t
<1>9. ~Preemption => AppendOK(u)
  <2> SUFFICES ASSUME ~Preemption PROVE AppendOK(u)
    OBVIOUS
  <2>1. ChangeStands(u)
    BY <1>3, <1>5 DEF ChangeStands, t
  <2>2. u.does \in HostDoes => Undisturbed(u)
    BY <1>3, <1>5, <1>6 DEF Undisturbed
  <2> QED BY <1>3, <1>5, <2>1, <2>2 DEF AppendOK
<1>10. ~Preemption => AppendOK(u)'
  <2>1. UNCHANGED mine /\ UNCHANGED journal
    BY DEF hosts
  <2> QED BY <1>3, <1>5, <1>9, <2>1, StandsKept
<1> QED BY <1>4, <1>5, <1>7, <1>8, <1>10, MovesInOrder DEF t

LEMMA ReadTargetInOrder ==
  ASSUME OrderInv, OperationInv', BootMayFail = FALSE, NEW w \in Workers, ReadTarget(w)
  PROVE  OrderInv'
<1> DEFINE t == task[w]
<1>1. t.pc = "target" /\ UNCHANGED <<journal, driver, seen>>
  BY DEF ReadTarget, At
<1>2. t \in Tasks /\ Typed /\ Typed'
  BY <1>1, TaskFacts DEF OperationInv
<1>3. CASE Fails(w)
  BY <1>1, <1>3, FailsInOrder
<1>4. CASE SetTask(w, [t EXCEPT !.pc = "create", !.epoch = epoch]) /\ UNCHANGED <<hosts, agent>>
  <2>1. PICK u : u = [t EXCEPT !.pc = "create", !.epoch = epoch]
    OBVIOUS
  <2>2. u \in Tasks
    BY <1>2, <1>4, <2>1, NextTask
  <2>3. /\ u.event = t.event /\ u.host = t.host /\ u.does = t.does /\ u.base = t.base /\ u.pc = "create"
    BY <1>2, <2>1 DEF Tasks
  <2>4. GoesOn(t, u)
    BY <2>3 DEF GoesOn, Claimed, Drives, Piped, ExecPcs
  <2>5. t.pc \notin {"idle", "fence"} \cup Piped /\ u.pc \notin Piped
    BY <1>1, <2>3 DEF Piped
  <2> QED BY <1>1, <1>4, <2>1, <2>2, <2>4, <2>5, GoesOnInOrder
<1> QED BY <1>3, <1>4 DEF ReadTarget

LEMMA CreateInOrder ==
  ASSUME OrderInv, OperationInv', BootMayFail = FALSE, NEW w \in Workers, Create(w)
  PROVE  OrderInv'
<1> DEFINE t == task[w]
           new == [status |-> "requested", exec |-> 0, key |-> t.key, epoch |-> t.epoch]
           drive == IF driver[t.key] = "local" THEN "lock" ELSE "done"
<1>1. t.pc = "create" /\ UNCHANGED <<journal, driver>>
  BY DEF Create, At
<1>2. t \in Tasks /\ Typed /\ Typed' /\ TaskOK(t) /\ length \in Nat
  BY <1>1, TaskFacts DEF OperationInv
<1>3. t.does = "submit" /\ t.pc \notin {"idle", "fence"} \cup Piped
  BY <1>1, <1>2 DEF TaskOK, PointOK, Piped
<1>4. CASE Fails(w) /\ UNCHANGED seen
  BY <1>1, <1>4, FailsInOrder
<1>5. CASE Sync(t.host) /\ \E o : Finishes(w, o, record[o])
  BY <1>1, <1>3, <1>5, FinishesInOrder
<1>6. CASE /\ Sync(t.host) /\ UNCHANGED <<hosts, agent>>
           /\ \E o \in SameKey(t.key) : SetTask(w, [t EXCEPT !.pc = "lock", !.op = o])
  <2>1. PICK o \in SameKey(t.key) : SetTask(w, [t EXCEPT !.pc = "lock", !.op = o])
    BY <1>6
  <2>2. PICK u : u = [t EXCEPT !.pc = "lock", !.op = o]
    OBVIOUS
  <2>3. u \in Tasks
    BY <1>2, <2>1, <2>2, NextTask
  <2>4. /\ u.event = t.event /\ u.host = t.host /\ u.does = t.does /\ u.base = t.base /\ u.pc = "lock"
    BY <1>2, <2>2 DEF Tasks
  <2>5. GoesOn(t, u) /\ u.pc \notin Piped
    BY <2>4 DEF GoesOn, Claimed, Drives, Piped, ExecPcs
  <2> QED BY <1>1, <1>3, <1>6, <2>1, <2>2, <2>3, <2>5, GoesOnInOrder
<1>7. CASE /\ Sync(t.host) /\ UNCHANGED <<hosts, agent>> /\ SameKey(t.key) = {}
           /\ \E o \in Operations \ Created :
                Propose(w, [t EXCEPT !.op = o], RecordEvent(o, new), FALSE, drive, "create")
  <2>1. PICK o \in Operations \ Created :
               Propose(w, [t EXCEPT !.op = o], RecordEvent(o, new), FALSE, drive, "create")
    BY <1>7
  <2> DEFINE v == [t EXCEPT !.op = o]
             e == RecordEvent(o, new)
  <2>2. new \in Records /\ new.status = "requested" /\ new.exec = 0 /\ new.key = t.key
    BY <1>2, ConstantFacts DEF Tasks, Records, Statuses, Execs
  <2>3. e \in Events /\ e.kind = "record" /\ e.op = o /\ e.was = record[o] /\ e.new = new
    <3> HIDE DEF new
    <3> QED BY <1>2, <2>2, RecordEventFacts
  <2>4. record[o].status = "none"
    BY DEF Created
  <2>5. v \in Tasks /\ v.host = t.host /\ v.does = t.does /\ v.op = o
    BY <1>2 DEF Tasks
  <2>6. drive \in Pcs /\ "create" \in Pcs
    BY DEF Pcs
  <2>7. Propose(w, v, e, FALSE, drive, "create")
    BY <2>1
  <2> HIDE DEF v, e, drive, new
  <2>8. PICK u \in Tasks : SetTask(w, u) /\ Proposal(v, e, FALSE, drive, "create", u)
    BY <1>2, <2>3, <2>5, <2>6, <2>7, Proposes
  <2>9. /\ u.event = e /\ u.host = t.host /\ u.does = "submit" /\ u.op = o
        /\ u.pc \in {"base", "check"} /\ u.base \in {0, length}
        /\ ~Preemption => u.pc = "check"
    BY <1>3, <2>3, <2>5, <2>8 DEF Proposal, SameWork
  <2>10. ~Claimed(u) /\ ~Drives(u)
    BY <2>3, <2>4, <2>9 DEF Claimed, Drives, ExecPcs
  <2>11. FenceOK(u)
    <3>1. u.base <= length
      BY <1>2, <2>9
    <3> QED BY <2>3, <2>4, <2>9, <2>10, <3>1 DEF FenceOK
  <2>12. ~Preemption => AppendOK(u)
    <3> SUFFICES ASSUME ~Preemption PROVE AppendOK(u)
      OBVIOUS
    <3>1. \A p \in Created : record[p].key # t.key
      BY <1>7 DEF SameKey
    <3>2. Unique(e)
      BY <2>2, <2>3, <3>1 DEF Unique
    <3>3. CreateStands(u)
      BY <2>2, <2>3, <2>9, <3>2 DEF CreateStands
    <3> QED BY <2>3, <2>4, <2>9, <3>3 DEF AppendOK, Undisturbed
  <2>13. ~Preemption => AppendOK(u)'
    <3>1. UNCHANGED mine /\ UNCHANGED journal
      BY <1>1, <1>7 DEF hosts
    <3>2. u.event.kind # "fence" /\ mine'[u.host] = mine[u.host]
      BY <2>3, <2>9, <3>1
    <3> HIDE DEF t
    <3> QED BY <2>12, <3>1, <3>2, StandsKept
  <2> QED BY <1>1, <1>3, <1>7, <2>8, <2>9, <2>10, <2>11, <2>13, MovesInOrder
<1> QED BY <1>4, <1>5, <1>6, <1>7 DEF Create

LEMMA LockExecutionInOrder ==
  ASSUME OrderInv, OperationInv', BootMayFail = FALSE, NEW w \in Workers, LockExecution(w)
  PROVE  OrderInv'
<1> DEFINE t == task[w]
<1>1. t.pc = "lock" /\ UNCHANGED <<journal, driver>> /\ executing[t.host][t.op] = None
  BY DEF LockExecution, At
<1>2. t \in Tasks /\ Typed /\ Typed' /\ TaskOK(t) /\ t.host \in Hosts
  BY <1>1, TaskFacts DEF OperationInv
<1>3. t.does = "submit" /\ t.op \in Operations /\ t.event = NoEvent /\ t.base <= length
  <2>1. t.pc \notin Piped \cup {"fence"}
    BY <1>1 DEF Piped
  <2> QED BY <1>1, <1>2, <2>1, PastFence DEF TaskOK, PointOK, LocalOp, Created
<1>4. CASE Fails(w) /\ UNCHANGED seen
  BY <1>1, <1>4, FailsInOrder
<1>5. CASE Sync(t.host) /\ Finishes(w, t.op, record[t.op])
  BY <1>1, <1>3, <1>5, FinishesInOrder
<1>6. CASE /\ Sync(t.host) /\ executing' = [executing EXCEPT ![t.host][t.op] = w]
           /\ SetTask(w, [t EXCEPT !.pc = "fence", !.then = "claim"]) /\ UNCHANGED <<term, mine, phase, agent>>
  <2>1. PICK u : u = [t EXCEPT !.pc = "fence", !.then = "claim"]
    OBVIOUS
  <2>2. u \in Tasks
    BY <1>2, <1>6, <2>1, NextTask
  <2>3. /\ u.event = NoEvent /\ u.host = t.host /\ u.does = t.does /\ u.base = t.base /\ u.pc = "fence"
        /\ u.op = t.op
    BY <1>2, <1>3, <2>1 DEF Tasks
  <2>4. FenceOK(u) /\ AppendOK(u)'
    <3>1. ~Claimed(u) /\ u.pc \notin Piped /\ u.base <= length
      BY <1>3, <2>3 DEF Claimed, Piped, ExecPcs
    <3> HIDE DEF t
    <3> QED BY <2>3, <3>1, Eventless
  <2>5. SeenKept(w)
    BY <1>1, <1>2, <1>6, SeenBy
  <2>6. executing \in [Hosts -> [Operations -> Workers \cup {None}]] /\ None \notin Workers
    BY <1>2, ConstantFacts DEF Typed
  <2>7. executing'[u.host][u.op] = w
    BY <1>2, <1>3, <1>6, <2>3, <2>6
  <2>8. \A h \in Hosts, o \in Operations :
          executing[h][o] \in Workers => executing'[h][o] = executing[h][o]
    BY <1>1, <1>2, <1>3, <1>6, <2>6
  <2>9. Moves(w, u)
    BY <1>1, <1>6, <2>1, <2>4, <2>5, <2>7, <2>8 DEF Moves
  <2> QED BY <2>2, <2>9, MovesKeep
<1> QED BY <1>4, <1>5, <1>6 DEF LockExecution

LEMMA ClaimInOrder ==
  ASSUME OrderInv, OperationInv', BootMayFail = FALSE, NEW w \in Workers, Claim(w)
  PROVE  OrderInv'
<1> DEFINE t == task[w]
           exec == IF record[t.op].exec = 0 THEN mine[t.host] ELSE record[t.op].exec
<1>1. t.pc = "claim" /\ UNCHANGED <<journal, driver>> /\ t.pc \notin {"idle", "fence"} \cup Piped
  BY DEF Claim, At, Piped
<1>2. /\ t \in Tasks /\ Typed /\ Typed' /\ TaskOK(t) /\ t.host \in Hosts /\ length \in Nat
      /\ mine[t.host] \in Nat /\ mine[t.host] # 0 /\ fence \in Nat
  BY <1>1, TaskFacts DEF OperationInv
<1>3. t.does \in HostDoes /\ t.op \in Operations
  BY <1>1, <1>2 DEF TaskOK, PointOK, LocalOp, Created
<1>4. /\ t.event = NoEvent /\ t.base <= length /\ (t.does = "boot" => mine[t.host] <= fence)
  BY <1>1, PastFence
<1>5. CASE Fails(w) /\ UNCHANGED seen
  BY <1>1, <1>5, FailsInOrder
<1>6. CASE Goto(w, "recover") /\ Sync(t.host) /\ UNCHANGED <<hosts, agent>>
  <2>1. PICK u : u = [t EXCEPT !.pc = "recover"]
    OBVIOUS
  <2>2. SetTask(w, u) /\ u \in Tasks
    BY <1>2, <1>6, <2>1, NextTask DEF Goto
  <2>3. /\ u.event = t.event /\ u.host = t.host /\ u.does = t.does /\ u.base = t.base /\ u.pc = "recover"
    BY <1>2, <2>1 DEF Tasks
  <2>4. GoesOn(t, u) /\ u.pc \notin Piped
    BY <2>3 DEF GoesOn, Claimed, Drives, Piped, ExecPcs
  <2> QED BY <1>1, <1>6, <2>2, <2>4, GoesOnInOrder
<1>7. CASE /\ claim[t.op].owner = mine[t.host]
           /\ SetTask(w, [t EXCEPT !.pc = "resolve", !.claim = claim[t.op]])
           /\ Sync(t.host) /\ UNCHANGED <<hosts, agent>>
  <2>1. PICK u : u = [t EXCEPT !.pc = "resolve", !.claim = claim[t.op]]
    OBVIOUS
  <2>2. SetTask(w, u) /\ u \in Tasks
    BY <1>2, <1>7, <2>1, NextTask
  <2>3. /\ u.event = t.event /\ u.host = t.host /\ u.does = t.does /\ u.base = t.base /\ u.pc = "resolve"
        /\ u.op = t.op /\ u.claim = claim[t.op]
    BY <1>2, <2>1 DEF Tasks
  <2>4. claim[t.op].exec # 0
    BY <1>2, <1>3, <1>7 DEF OrderInv, FencesOK
  <2>5. FenceOK(u) /\ AppendOK(u)'
    <3>1. u.pc \notin Piped
      BY <2>3 DEF Piped
    <3> HIDE DEF t
    <3> QED BY <1>4, <1>7, <2>3, <2>4, <3>1, Eventless
  <2>6. Drives(u) => Drives(t)
    BY <1>1, <2>3 DEF Drives
  <2> QED BY <1>1, <1>7, <2>2, <2>3, <2>5, <2>6, MovesInOrder
<1>8. CASE /\ claim[t.op].owner # mine[t.host] /\ ~IsTerminal(t.op)
           /\ Propose(w, t, ClaimEvent(t.op, mine[t.host], exec), TRUE, "resolve", "claim")
           /\ Sync(t.host) /\ UNCHANGED <<hosts, agent>>
  <2> DEFINE e == ClaimEvent(t.op, mine[t.host], exec)
  <2>1. exec \in Execs /\ mine[t.host] \in 0 .. MaxTerm /\ claim[t.op] \in Claims
        /\ exec # 0 /\ record[t.op].exec \in {0, exec}
    <3>1. mine[t.host] \in 0 .. MaxTerm /\ claim[t.op] \in Claims /\ record[t.op] \in Records
      BY <1>2, <1>3 DEF Typed
    <3>2. mine[t.host] \in Execs
      BY <3>1, ConstantFacts DEF Execs
    <3>3. record[t.op].exec \in Execs
      BY <3>1 DEF Records
    <3> QED BY <1>2, <3>1, <3>2, <3>3
  <2>2. e \in Events /\ e.kind = "claim" /\ e.op = t.op /\ e.was = claim[t.op]
        /\ e.new.owner = mine[t.host] /\ e.new.exec = exec
    <3> HIDE DEF exec
    <3> QED BY <1>3, <2>1 DEF ClaimEvent, Events, ClaimEvents, Claims
  <2>3. "resolve" \in Pcs /\ "claim" \in Pcs
    BY DEF Pcs
  <2> HIDE DEF e
  <2>4. PICK u \in Tasks : SetTask(w, u) /\ Proposal(t, e, TRUE, "resolve", "claim", u)
    BY <1>2, <1>8, <2>2, <2>3, Proposes DEF e
  <2>5. /\ u.event = e /\ u.host = t.host /\ u.does = t.does /\ u.op = t.op
        /\ u.pc = "owner" /\ u.base = 0
    BY <2>2, <2>4 DEF Proposal, SameWork
  <2>6. FenceOK(u)
    BY <1>2, <1>4, <2>1, <2>2, <2>5 DEF FenceOK, Claimed, ExecPcs
  <2>7. Drives(u) => Drives(t)
    BY <1>1, <2>5 DEF Drives
  <2>8. AppendOK(u)
    <3>1. Undisturbed(u)
      BY <1>8, <2>1, <2>2, <2>5 DEF Undisturbed
    <3>2. ClaimStands(u)
      BY <2>5 DEF ClaimStands
    <3> QED BY <2>2, <2>5, <3>1, <3>2 DEF AppendOK
  <2>9. AppendOK(u)'
    <3>1. UNCHANGED mine /\ UNCHANGED journal
      BY <1>1, <1>8 DEF hosts
    <3>2. u.event.kind # "fence" /\ mine'[u.host] = mine[u.host]
      BY <2>2, <2>5, <3>1
    <3> HIDE DEF t
    <3> QED BY <2>8, <3>1, <3>2, StandsKept
  <2> QED BY <1>1, <1>8, <2>4, <2>5, <2>6, <2>7, <2>9, MovesInOrder
<1> HIDE DEF exec
<1> QED BY <1>5, <1>6, <1>7, <1>8 DEF Claim, exec

LEMMA WhileCurrentInOrder ==
  ASSUME OrderInv, OperationInv', BootMayFail = FALSE, NEW w \in Workers, NEW u, WhileCurrent(w, u),
         task[w].pc \notin {"idle", "fence"} \cup Piped, GoesOn(task[w], u), u.pc \notin Piped
  PROVE  OrderInv'
<1>1. UNCHANGED <<journal, driver>> /\ Typed /\ Typed'
  BY DEF WhileCurrent, OrderInv, OperationInv
<1>2. CASE Fails(w) /\ UNCHANGED seen
  BY <1>1, <1>2, FailsInOrder
<1>3. CASE SetTask(w, u) /\ Sync(u.host) /\ UNCHANGED <<hosts, agent>>
  <2>1. u \in Tasks
    BY <1>1, <1>3, NextTask
  <2> QED BY <1>1, <1>3, <2>1, GoesOnInOrder DEF GoesOn
<1> QED BY <1>2, <1>3 DEF WhileCurrent

\* A task under its claim goes on under it.
LEMMA ClaimedOn ==
  ASSUME NEW t, NEW u, Claimed(t), t.pc \notin Piped,
         u.pc \in {"advance", "finish", "complete", "recover"} \cup ExecPcs,
         u.host = t.host, u.does = t.does, u.event = t.event, u.base = t.base,
         u.op = t.op, u.claim = t.claim
  PROVE  GoesOn(t, u) /\ u.pc \notin Piped /\ t.pc \notin {"idle", "fence"}
BY DEF GoesOn, Claimed, Drives, Piped, ExecPcs

LEMMA ResolveInOrder ==
  ASSUME OrderInv, OperationInv', BootMayFail = FALSE, NEW w \in Workers, Resolve(w)
  PROVE  OrderInv'
<1> DEFINE t == task[w]
<1>1. t.pc = "resolve" /\ t \in Tasks
  BY DEF Resolve, At, OrderInv, OperationInv, Typed
<1>2. Claimed(t) /\ t.pc \notin Piped
  BY <1>1 DEF Claimed, Piped
<1>3. PICK u : /\ WhileCurrent(w, u)
               /\ \/ u = [t EXCEPT !.pc = "complete", !.out = "unknown"]
                  \/ u = [t EXCEPT !.pc = "recover"]
                  \/ u = [t EXCEPT !.pc = "advance", !.status = "accepted"]
  BY DEF Resolve
<1>4. /\ u.pc \in {"complete", "recover", "advance"} /\ u.host = t.host /\ u.does = t.does
      /\ u.event = t.event /\ u.base = t.base /\ u.op = t.op /\ u.claim = t.claim
  <2> HIDE DEF t
  <2>1. CASE u = [t EXCEPT !.pc = "complete", !.out = "unknown"]
    BY <1>1, <2>1 DEF Tasks
  <2>2. CASE u = [t EXCEPT !.pc = "recover"]
    BY <1>1, <2>2 DEF Tasks
  <2>3. CASE u = [t EXCEPT !.pc = "advance", !.status = "accepted"]
    BY <1>1, <2>3 DEF Tasks
  <2> QED BY <1>3, <2>1, <2>2, <2>3
<1>5. GoesOn(t, u) /\ u.pc \notin Piped
  <2> HIDE DEF t
  <2> QED BY <1>2, <1>4, ClaimedOn
<1> QED BY <1>1, <1>2, <1>3, <1>5, WhileCurrentInOrder

LEMMA AdvanceInOrder ==
  ASSUME OrderInv, OperationInv', BootMayFail = FALSE, NEW w \in Workers, Advance(w)
  PROVE  OrderInv'
<1> DEFINE t == task[w]
           r == record[t.op]
           to == [r EXCEPT !.status = t.status, !.exec = IF @ = 0 THEN t.claim.exec ELSE @]
           expired == [r EXCEPT !.status = "expired"]
<1>1. t.pc = "advance" /\ UNCHANGED <<journal, driver>> /\ t.pc \notin {"idle", "fence"} \cup Piped
      /\ Claimed(t)
  BY DEF Advance, At, Piped, Claimed
<1>2. /\ t \in Tasks /\ Typed /\ Typed' /\ TaskOK(t) /\ RecordsOK
  BY <1>1, TaskFacts DEF OperationInv, OrderInv
<1>3. t.does = "submit" /\ t.op \in Operations /\ t.status \in {"accepted", "running"}
      /\ t.does \notin AgentDoes
  BY <1>1, <1>2 DEF TaskOK, PointOK, LocalOp, Created, AgentDoes
<1>4. r \in Records /\ (r.status = "requested" => r.exec = 0) /\ (r.status = "accepted" => r.exec # 0)
      /\ t.claim.exec # 0 /\ t.claim.exec \in Execs
  <2>1. t.claim.exec # 0
    BY <1>1, PastFence
  <2> QED BY <1>2, <1>3, <2>1 DEF RecordsOK, Typed, Tasks, Claims
<1>5. CASE Fails(w) /\ (Sync(t.host) \/ UNCHANGED seen)
  BY <1>1, <1>5, FailsInOrder
<1>6. CASE SetTask(w, [t EXCEPT !.status = "running"]) /\ Sync(t.host) /\ UNCHANGED <<hosts, agent>>
  <2>1. PICK u : u = [t EXCEPT !.status = "running"]
    OBVIOUS
  <2>2. SetTask(w, u) /\ u \in Tasks
    BY <1>2, <1>6, <2>1, NextTask
  <2>3. /\ u.event = t.event /\ u.host = t.host /\ u.does = t.does /\ u.base = t.base /\ u.pc = t.pc
        /\ u.op = t.op /\ u.claim = t.claim
    BY <1>2, <2>1 DEF Tasks
  <2>4. GoesOn(t, u) /\ u.pc \notin Piped
    <3> HIDE DEF t
    <3> QED BY <1>1, <2>3, ClaimedOn
  <2> QED BY <1>1, <1>6, <2>2, <2>4, GoesOnInOrder
<1>7. ASSUME NEW n \in Records, NEW then \in Pcs, r.status # "none", ValidTransition(r, n),
             Propose(w, t, RecordEvent(t.op, n), TRUE, then, "advance"), Sync(t.host),
             UNCHANGED <<hosts, agent>>
      PROVE  OrderInv'
  <2>1. PICK o : o = t.op
    OBVIOUS
  <2>2. o \in Operations /\ record[o].status # "none" /\ ValidTransition(record[o], n)
        /\ Propose(w, task[w], RecordEvent(o, n), TRUE, then, "advance")
    BY <1>3, <1>7, <2>1
  <2>3. "advance" \in Pcs
    BY DEF Pcs
  <2> QED BY <1>1, <1>3, <1>7, <2>1, <2>2, <2>3, ChangeInOrder
<1>8. CASE /\ r.status = "requested" /\ Sync(t.host) /\ UNCHANGED <<hosts, agent>>
           /\ Propose(w, t, RecordEvent(t.op, expired), TRUE, "done", "advance")
  <2>1. expired \in Records /\ expired.status = "expired" /\ expired.exec = r.exec
    BY <1>4 DEF Records, Statuses, Terminal
  <2>2. ValidTransition(r, expired)
    <3> HIDE DEF expired, r
    <3> QED BY <1>4, <1>8, <2>1 DEF ValidTransition
  <2>3. "done" \in Pcs
    BY DEF Pcs
  <2> HIDE DEF expired
  <2> QED BY <1>7, <1>8, <2>1, <2>2, <2>3
<1>9. ASSUME NEW then \in Pcs, Sync(t.host), UNCHANGED <<hosts, agent>>,
             \/ r.status = "requested" /\ t.status = "accepted"
             \/ r.status = "accepted" /\ t.status = "running",
             Propose(w, t, RecordEvent(t.op, to), TRUE, then, "advance")
      PROVE  OrderInv'
  <2>1. to \in Records /\ to.status = t.status /\ to.exec = IF r.exec = 0 THEN t.claim.exec ELSE r.exec
    BY <1>3, <1>4 DEF Records, Statuses
  <2>2. ValidTransition(r, to)
    <3> HIDE DEF to, r, t
    <3> QED BY <1>4, <1>9, <2>1 DEF ValidTransition
  <2> HIDE DEF to
  <2> QED BY <1>7, <1>9, <2>1, <2>2
<1>10. "advance" \in Pcs /\ "enter" \in Pcs
  BY DEF Pcs, ExecPcs
<1>11. CASE /\ r.status = "requested" /\ t.status = "accepted" /\ Sync(t.host) /\ UNCHANGED <<hosts, agent>>
            /\ Propose(w, t, RecordEvent(t.op, to), TRUE, "advance", "advance")
  BY <1>9, <1>10, <1>11
<1>12. CASE /\ r.status = "accepted" /\ t.status = "running" /\ Sync(t.host) /\ UNCHANGED <<hosts, agent>>
            /\ Propose(w, t, RecordEvent(t.op, to), TRUE, "enter", "advance")
  BY <1>9, <1>10, <1>12
<1> QED BY <1>5, <1>6, <1>8, <1>11, <1>12 DEF Advance

\* A step of an execution.
LEMMA ExecutesInOrder ==
  ASSUME OrderInv, OperationInv', NEW w \in Workers, task[w].pc \in ExecPcs, NEW u, SetTask(w, u),
         UNCHANGED <<journal, driver, hosts>>, Sync(task[w].host) \/ UNCHANGED seen,
         u.pc \in {"finish", "complete"} \cup ExecPcs, u.host = task[w].host, u.does = task[w].does,
         u.event = task[w].event, u.base = task[w].base, u.op = task[w].op, u.claim = task[w].claim
  PROVE  OrderInv'
<1> DEFINE t == task[w]
<1>1. Claimed(t) /\ t.pc \notin Piped /\ Typed /\ Typed'
  BY DEF Claimed, Piped, ExecPcs, OrderInv, OperationInv
<1>2. u \in Tasks
  BY <1>1, NextTask
<1>3. GoesOn(t, u) /\ u.pc \notin Piped /\ t.pc \notin {"idle", "fence"}
  <2>1. /\ u.pc \in {"finish", "complete"} \cup ExecPcs /\ u.host = t.host /\ u.does = t.does
        /\ u.event = t.event /\ u.base = t.base /\ u.op = t.op /\ u.claim = t.claim
    OBVIOUS
  <2> HIDE DEF t
  <2> QED BY <1>1, <2>1, ClaimedOn
<1> QED BY <1>1, <1>2, <1>3, GoesOnInOrder

LEMMA EnterInOrder ==
  ASSUME OrderInv, OperationInv', BootMayFail = FALSE, NEW w \in Workers, Enter(w) \/ Finish(w)
  PROVE  OrderInv'
<1> DEFINE t == task[w]
<1>1. t.pc \in {"enter", "finish"} /\ t \in Tasks
  BY DEF Enter, Finish, At, OrderInv, OperationInv, Typed
<1>2. Claimed(t) /\ t.pc \notin Piped
  BY <1>1 DEF Claimed, Piped, ExecPcs
<1>3. PICK u : WhileCurrent(w, u) /\ (u = [t EXCEPT !.pc = "guard"] \/ u = [t EXCEPT !.pc = "complete"])
  BY DEF Enter, Finish
<1>4. /\ u.pc \in {"guard", "complete"} /\ u.host = t.host /\ u.does = t.does
      /\ u.event = t.event /\ u.base = t.base /\ u.op = t.op /\ u.claim = t.claim
  BY <1>1, <1>3 DEF Tasks
<1>5. GoesOn(t, u) /\ u.pc \notin Piped
  <2>1. u.pc \in {"advance", "finish", "complete", "recover"} \cup ExecPcs
    BY <1>4 DEF ExecPcs
  <2> HIDE DEF t
  <2> QED BY <1>2, <1>4, <2>1, ClaimedOn
<1> QED BY <1>1, <1>2, <1>3, <1>5, WhileCurrentInOrder

LEMMA GuardsInOrder ==
  ASSUME OrderInv, OperationInv', BootMayFail = FALSE, NEW w \in Workers,
         GuardBefore(w) \/ Effect(w) \/ GuardAfter(w)
  PROVE  OrderInv'
<1> DEFINE t == task[w]
<1>1. t.pc \in ExecPcs /\ t \in Tasks /\ UNCHANGED <<journal, driver, hosts>>
      /\ (Sync(t.host) \/ UNCHANGED seen)
  BY DEF GuardBefore, Effect, GuardAfter, Guarded, At, ExecPcs, OrderInv, OperationInv, Typed
<1>2. PICK u : /\ SetTask(w, u)
               /\ \/ u = [t EXCEPT !.pc = "effect"]
                  \/ u = [t EXCEPT !.pc = "after"]
                  \/ u = [t EXCEPT !.pc = "guard", !.step = @ + 1]
                  \/ \E x : u = [t EXCEPT !.pc = "finish", !.out = x]
  BY DEF GuardBefore, Effect, GuardAfter, Guarded
<1>3. /\ u.pc \in {"effect", "after", "guard", "finish"} /\ u.host = t.host /\ u.does = t.does
      /\ u.event = t.event /\ u.base = t.base /\ u.op = t.op /\ u.claim = t.claim
  BY <1>1, <1>2 DEF Tasks
<1>4. u.pc \in {"finish", "complete"} \cup ExecPcs
  BY <1>3 DEF ExecPcs
<1> QED BY <1>1, <1>2, <1>3, <1>4, ExecutesInOrder

LEMMA CompleteInOrder ==
  ASSUME OrderInv, OperationInv', BootMayFail = FALSE, NEW w \in Workers, Complete(w)
  PROVE  OrderInv'
<1> DEFINE t == task[w]
           r == record[t.op]
           next == IF t.does = "boot" THEN "recover" ELSE "done"
           to == [r EXCEPT !.status = t.out]
<1>1. t.pc = "complete" /\ UNCHANGED <<journal, driver>> /\ t.pc \notin {"idle", "fence"} \cup Piped
      /\ Claimed(t)
  BY DEF Complete, At, Piped, Claimed
<1>2. /\ t \in Tasks /\ Typed /\ Typed' /\ TaskOK(t) /\ RecordsOK
  BY <1>1, TaskFacts DEF OperationInv, OrderInv
<1>3. t.does \in HostDoes /\ t.op \in Operations /\ t.out \in Outcomes /\ t.does \notin AgentDoes
  BY <1>1, <1>2 DEF TaskOK, PointOK, LocalOp, Created, AgentDoes, HostDoes
<1>4. r \in Records /\ (r.status \in {"accepted", "running"} => r.exec # 0)
  BY <1>2, <1>3 DEF RecordsOK, Typed
<1>5. CASE Fails(w) /\ UNCHANGED seen
  BY <1>1, <1>5, FailsInOrder
<1>6. CASE Sync(t.host) /\ Goto(w, "recover") /\ UNCHANGED <<hosts, agent>>
  <2>1. PICK u : u = [t EXCEPT !.pc = "recover"]
    OBVIOUS
  <2>2. SetTask(w, u) /\ u \in Tasks
    BY <1>2, <1>6, <2>1, NextTask DEF Goto
  <2>3. /\ u.event = t.event /\ u.host = t.host /\ u.does = t.does /\ u.base = t.base /\ u.pc = "recover"
    BY <1>2, <2>1 DEF Tasks
  <2>4. GoesOn(t, u) /\ u.pc \notin Piped
    BY <2>3 DEF GoesOn, Claimed, Drives, Piped, ExecPcs
  <2> QED BY <1>1, <1>6, <2>2, <2>4, GoesOnInOrder
<1>7. CASE t.does # "boot" /\ Sync(t.host) /\ Finishes(w, t.op, record[t.op])
  BY <1>1, <1>7, FinishesInOrder
<1>8. CASE /\ r.status \in {"accepted", "running"} /\ Sync(t.host) /\ UNCHANGED <<hosts, agent>>
           /\ Propose(w, t, RecordEvent(t.op, to), TRUE, next, "complete")
  <2>1. PICK n : n = to
    OBVIOUS
  <2>2. n \in Records /\ n.status = t.out /\ n.exec = r.exec
    BY <1>3, <1>4, <2>1 DEF Records, Statuses, Terminal, Outcomes
  <2>3. ValidTransition(r, n)
    <3> HIDE DEF r, t
    <3> QED BY <1>3, <1>4, <1>8, <2>2 DEF ValidTransition, Outcomes
  <2>4. PICK o : o = t.op
    OBVIOUS
  <2>5. o \in Operations /\ record[o].status # "none" /\ ValidTransition(record[o], n)
        /\ Propose(w, task[w], RecordEvent(o, n), TRUE, next, "complete")
    BY <1>3, <1>8, <2>1, <2>3, <2>4
  <2>6. next \in Pcs /\ "complete" \in Pcs
    BY DEF Pcs
  <2> HIDE DEF next, to
  <2> QED BY <1>1, <1>3, <1>8, <2>2, <2>4, <2>5, <2>6, ChangeInOrder
<1> QED BY <1>5, <1>6, <1>7, <1>8 DEF Complete

LEMMA RecoverInOrder ==
  ASSUME OrderInv, OperationInv', BootMayFail = FALSE, NEW w \in Workers, Recover(w)
  PROVE  OrderInv'
<1> DEFINE t == task[w]
           candidates == {o \in Created : Local(o) /\ record[o].status = "running"}
<1>1. t.pc = "recover" /\ UNCHANGED <<journal, driver>>
  BY DEF Recover, At
<1>2. t \in Tasks /\ Typed /\ Typed' /\ TaskOK(t)
  BY <1>1, TaskFacts DEF OperationInv
<1>3. CASE Fails(w) /\ UNCHANGED seen
  BY <1>1, <1>3, FailsInOrder
<1>4. CASE candidates = {} /\ Finishes(w, 0, NoRecord) /\ Sync(t.host)
  <2>1. t.does = "boot" => mine[t.host] <= fence
    BY <1>1, PastFence DEF Piped
  <2>2. \A p \in Created : ~(Local(p) /\ record[p].status = "running")
    BY <1>4
  <2> HIDE DEF candidates
  <2> QED BY <1>1, <1>4, <2>1, <2>2, FinishesInOrder
<1>5. CASE /\ SetTask(w, [t EXCEPT !.pc = "claim", !.op = Min(candidates)]) /\ Sync(t.host)
           /\ UNCHANGED <<hosts, agent>>
  <2>1. PICK u : u = [t EXCEPT !.pc = "claim", !.op = Min(candidates)]
    OBVIOUS
  <2>2. u \in Tasks
    BY <1>2, <1>5, <2>1, NextTask
  <2>3. u.event = t.event /\ u.host = t.host /\ u.does = t.does /\ u.base = t.base /\ u.pc = "claim"
    BY <1>2, <2>1 DEF Tasks
  <2>4. t.does = "boot"
    BY <1>1, <1>2 DEF TaskOK, PointOK
  <2>5. GoesOn(t, u)
    BY <2>3, <2>4 DEF GoesOn, Claimed, Drives, Piped, ExecPcs
  <2>6. t.pc \notin {"idle", "fence"} \cup Piped /\ u.pc \notin Piped
    BY <1>1, <2>3 DEF Piped
  <2> QED BY <1>1, <1>5, <2>1, <2>2, <2>5, <2>6, GoesOnInOrder
<1> QED BY <1>3, <1>4, <1>5 DEF Recover

LEMMA AuthenticateInOrder ==
  ASSUME OrderInv, OperationInv', BootMayFail = FALSE, NEW w \in Workers, Authenticate(w)
  PROVE  OrderInv'
<1> DEFINE t == task[w]
<1>1. t.pc = "auth" /\ UNCHANGED <<journal, driver, seen>>
  BY DEF Authenticate, At
<1>2. t \in Tasks /\ Typed /\ Typed' /\ TaskOK(t)
  BY <1>1, TaskFacts DEF OperationInv
<1>3. t.does \in AgentDoes
  BY <1>1, <1>2 DEF TaskOK, PointOK
<1>4. CASE Fails(w)
  BY <1>1, <1>4, FailsInOrder
<1>5. CASE Finishes(w, t.op, record[t.op])
  BY <1>1, <1>3, <1>5, FinishesInOrder DEF AgentDoes
<1>6. CASE /\ SetTask(w, [t EXCEPT !.pc = IF FenceCurrent(t.host) THEN "handle" ELSE "fence",
                                   !.then = "handle"])
           /\ UNCHANGED <<hosts, agent>>
  <2>1. PICK u : u = [t EXCEPT !.pc = IF FenceCurrent(t.host) THEN "handle" ELSE "fence",
                               !.then = "handle"]
    OBVIOUS
  <2>2. u \in Tasks
    BY <1>2, <1>6, <2>1, NextTask
  <2>3. /\ u.event = t.event /\ u.host = t.host /\ u.does = t.does /\ u.base = t.base
        /\ u.pc \in {"handle", "fence"}
    BY <1>2, <2>1 DEF Tasks
  <2>4. GoesOn(t, u)
    BY <1>3, <2>3 DEF GoesOn, Claimed, Drives, Piped, ExecPcs, AgentDoes
  <2>5. t.pc \notin {"idle", "fence"} \cup Piped /\ u.pc \notin Piped
    BY <1>1, <2>3 DEF Piped
  <2> QED BY <1>1, <1>6, <2>1, <2>2, <2>4, <2>5, GoesOnInOrder
<1> QED BY <1>4, <1>5, <1>6 DEF Authenticate

\* A handler of a request of the agent proposes a change.
LEMMA HandlerInOrder ==
  ASSUME OrderInv, OperationInv', NEW w \in Workers, task[w].pc = "handle",
         NEW o \in Operations, NEW n \in Records, NEW then \in Pcs,
         Propose(w, task[w], RecordEvent(o, n), FALSE, then, "handle"),
         UNCHANGED <<journal, driver, hosts>>, Sync(task[w].host),
         record[o].status # "none", ValidTransition(record[o], n)
  PROVE  OrderInv'
<1>1. task[w].does \in AgentDoes
  BY TaskFacts DEF TaskOK, PointOK
<1>2. "handle" \in Pcs /\ FALSE \in BOOLEAN /\ task[w].pc \notin {"idle", "fence"} \cup Piped
      /\ task[w].does \notin HostDoes
  BY <1>1 DEF Pcs, Piped, HostDoes, AgentDoes
<1> QED BY <1>1, <1>2, ChangeInOrder

LEMMA NextOperationInOrder ==
  ASSUME OrderInv, OperationInv', NEW w \in Workers, task[w].pc = "handle",
         NextOperation(w, task[w]), Sync(task[w].host), UNCHANGED <<journal, driver>>
  PROVE  OrderInv'
<1> DEFINE t == task[w]
           acts == {o \in Created : /\ ~Local(o) /\ ~IsTerminal(o)
                                    /\ Overdue(t, o) \/ record[o].epoch = t.epoch}
<1>1. Typed /\ TaskOK(t) /\ RecordsOK
  BY TaskFacts DEF OrderInv, OperationInv
<1>2. t.does # "boot"
  BY <1>1 DEF TaskOK, PointOK, AgentDoes
<1>3. acts # {} => Min(acts) \in acts
  <2>1. acts \in SUBSET Operations
    BY DEF Created
  <2> HIDE DEF acts
  <2> QED BY <2>1, MinOfOperations
<1>4. PICK o : o = Min(acts)
  OBVIOUS
<1>5. CASE \E r : Finishes(w, o, r) \/ Finishes(w, 0, r)
  <2> HIDE DEF acts
  <2> QED BY <1>2, <1>5, FinishesInOrder
<1>6. CASE /\ acts # {} /\ Overdue(t, o) /\ UNCHANGED <<hosts, agent>>
           /\ Propose(w, t, RecordEvent(o, [record[o] EXCEPT !.status = "expired"]), FALSE,
                      "handle", "handle")
  <2>1. PICK n : n = [record[o] EXCEPT !.status = "expired"]
    OBVIOUS
  <2>2. o \in Operations /\ record[o] \in Records /\ record[o].status = "requested"
    BY <1>1, <1>3, <1>4, <1>6 DEF Overdue, Created, Typed
  <2>3. n \in Records /\ n.status = "expired" /\ n.exec = record[o].exec
    BY <2>1, <2>2 DEF Records, Statuses, Terminal
  <2>4. ValidTransition(record[o], n)
    BY <1>1, <2>2, <2>3 DEF RecordsOK, ValidTransition
  <2>5. "handle" \in Pcs
    BY DEF Pcs
  <2>6. Propose(w, task[w], RecordEvent(o, n), FALSE, "handle", "handle")
    BY <1>6, <2>1
  <2> HIDE DEF acts
  <2> QED BY <1>6, <2>2, <2>3, <2>4, <2>5, <2>6, HandlerInOrder
<1> HIDE DEF acts
<1> QED BY <1>4, <1>5, <1>6 DEF NextOperation, acts

LEMMA ProgressInOrder ==
  ASSUME OrderInv, OperationInv', BootMayFail = FALSE, NEW w \in Workers, task[w].pc = "handle",
         task[w].does = "progress", ProgressOperation(w, task[w]), Sync(task[w].host),
         UNCHANGED <<journal, driver>>
  PROVE  OrderInv'
<1> DEFINE t == task[w]
           r == record[t.op]
<1>1. Typed /\ t \in Tasks /\ RequestOK(t) /\ RecordsOK /\ LedgerOK
  BY TaskFacts DEF OrderInv, OperationInv, TaskOK
<1>2. t.op \in Operations /\ r \in Records /\ t.exec = ledger[t.op].exec /\ t.exec # 0
  BY <1>1 DEF RequestOK, RemoteOp, Created, Typed, LedgerOK
<1>3. CASE Fails(w)
  BY <1>3, FailsInOrder
<1>4. CASE Finishes(w, t.op, r)
  BY <1>4, FinishesInOrder
<1>5. CASE /\ \/ r.status = "requested" /\ t.status = "accepted"
              \/ r.status = "accepted" /\ t.status = "running"
           /\ Bound(t) /\ UNCHANGED <<hosts, agent>>
           /\ Propose(w, t, RecordEvent(t.op, [r EXCEPT !.status = t.status, !.exec = t.exec]),
                      FALSE, "done", "handle")
  <2>1. PICK n : n = [r EXCEPT !.status = t.status, !.exec = t.exec]
    OBVIOUS
  <2>2. n \in Records /\ n.status = t.status /\ n.exec = t.exec
    BY <1>1, <1>2, <2>1 DEF Records, Tasks
  <2>3. /\ r.status = "requested" => r.exec = 0
        /\ r.status = "accepted" => r.exec = t.exec
    BY <1>1, <1>2, <1>5 DEF RecordsOK, Bound
  <2>4. PICK o : o = t.op
    OBVIOUS
  <2>5. ValidTransition(record[o], n) /\ record[o].status # "none"
    BY <1>2, <1>5, <2>2, <2>3, <2>4 DEF ValidTransition
  <2>6. Propose(w, task[w], RecordEvent(o, n), FALSE, "done", "handle")
    BY <1>5, <2>1, <2>4
  <2>7. o \in Operations /\ "done" \in Pcs
    BY <1>2, <2>4 DEF Pcs
  <2> QED BY <1>5, <2>2, <2>5, <2>6, <2>7, HandlerInOrder
<1> QED BY <1>3, <1>4, <1>5 DEF ProgressOperation

LEMMA ReceiptInOrder ==
  ASSUME OrderInv, OperationInv', BootMayFail = FALSE, NEW w \in Workers, task[w].pc = "handle",
         task[w].does = "receipt", CompleteOperation(w, task[w]), Sync(task[w].host),
         UNCHANGED <<journal, driver>>
  PROVE  OrderInv'
<1> DEFINE t == task[w]
           r == record[t.op]
<1>1. Typed /\ t \in Tasks /\ RequestOK(t) /\ RecordsOK
  BY TaskFacts DEF OrderInv, OperationInv, TaskOK
<1>2. t.op \in Operations /\ r \in Records /\ t.status \in Outcomes
  BY <1>1 DEF RequestOK, RemoteOp, Created, Typed
<1>3. CASE Fails(w)
  BY <1>3, FailsInOrder
<1>4. CASE Finishes(w, t.op, r)
  BY <1>4, FinishesInOrder
<1>5. CASE /\ r.status \in {"accepted", "running"} /\ UNCHANGED <<hosts, agent>>
           /\ Propose(w, t, RecordEvent(t.op, [r EXCEPT !.status = t.status]), FALSE, "done", "handle")
  <2>1. PICK n : n = [r EXCEPT !.status = t.status]
    OBVIOUS
  <2>2. n \in Records /\ n.status = t.status /\ n.exec = r.exec
    BY <1>1, <1>2, <2>1 DEF Records, Tasks
  <2>3. r.exec # 0
    BY <1>1, <1>2, <1>5 DEF RecordsOK
  <2>4. PICK o : o = t.op
    OBVIOUS
  <2>5. ValidTransition(record[o], n) /\ record[o].status # "none"
    BY <1>2, <1>5, <2>2, <2>3, <2>4 DEF ValidTransition, Outcomes
  <2>6. Propose(w, task[w], RecordEvent(o, n), FALSE, "done", "handle")
    BY <1>5, <2>1, <2>4
  <2>7. o \in Operations /\ "done" \in Pcs
    BY <1>2, <2>4 DEF Pcs
  <2> QED BY <1>5, <2>2, <2>5, <2>6, <2>7, HandlerInOrder
<1> QED BY <1>3, <1>4, <1>5 DEF CompleteOperation

LEMMA HandleInOrder ==
  ASSUME OrderInv, OperationInv', BootMayFail = FALSE, NEW w \in Workers, Handle(w)
  PROVE  OrderInv'
<1>1. task[w].pc = "handle" /\ UNCHANGED <<journal, driver>>
  BY DEF Handle, At
<1>2. CASE Fails(w) /\ UNCHANGED seen
  BY <1>1, <1>2, FailsInOrder
<1>3. CASE Sync(task[w].host) /\ task[w].does = "next" /\ NextOperation(w, task[w])
  BY <1>1, <1>3, NextOperationInOrder
<1>4. CASE Sync(task[w].host) /\ task[w].does = "progress" /\ ProgressOperation(w, task[w])
  BY <1>1, <1>4, ProgressInOrder
<1>5. CASE Sync(task[w].host) /\ task[w].does = "receipt" /\ CompleteOperation(w, task[w])
  BY <1>1, <1>5, ReceiptInOrder
<1> QED BY <1>2, <1>3, <1>4, <1>5 DEF Handle
-----------------------------------------------------------------------------
(* Tasks that begin and tasks that are dropped; steps that move no task.    *)

LEMMA BeginsInOrder ==
  ASSUME OrderInv, OperationInv', NEW w \in Workers, NEW u \in Tasks, SetTask(w, u),
         UNCHANGED <<journal, driver, hosts, seen>>, u.event = NoEvent, u.base = 0,
         u.pc \in {"idle", "fence", "auth"}, u.then # "claim", u.does # "boot"
  PROVE  OrderInv'
<1>1. UNCHANGED <<term, mine, phase, executing, seen>> /\ length \in Nat
  BY DEF hosts, OrderInv, OperationInv, Typed
<1>2. ~Claimed(u) /\ ~Drives(u) /\ u.pc \notin Piped
  BY DEF Claimed, Drives, Piped, ExecPcs
<1>3. FenceOK(u) /\ AppendOK(u)'
  <2>1. u.base <= length
    BY <1>1
  <2> QED BY <1>2, <2>1, Eventless
<1>4. Moves(w, u)
  BY <1>1, <1>2, <1>3 DEF Moves, SeenKept
<1> QED BY <1>4, MovesKeep

LEMMA DropHandlerInOrder ==
  ASSUME OrderInv, OperationInv', NEW w \in Workers, DropHandler(w)
  PROVE  OrderInv'
<1>1. SetTask(w, IdleTask) /\ UNCHANGED <<journal, driver, hosts, seen>>
  BY DEF DropHandler
<1>2. /\ IdleTask.event = NoEvent /\ IdleTask.base = 0 /\ IdleTask.pc = "idle" /\ IdleTask.then = "idle"
      /\ IdleTask.does = "none"
  BY DEF IdleTask
<1> HIDE DEF IdleTask
<1> QED BY <1>1, <1>2, RecordTypes, BeginsInOrder

LEMMA SubmitInOrder ==
  ASSUME OrderInv, OperationInv', NEW w \in Workers, NEW h \in Hosts, NEW k \in Keys, Submit(w, h, k)
  PROVE  OrderInv'
<1>1. PICK u : u = [IdleTask EXCEPT !.pc = "fence", !.does = "submit", !.host = h, !.key = k,
                                    !.then = IF driver[k] = "local" THEN "create" ELSE "target"]
  OBVIOUS
<1>2. SetTask(w, u) /\ UNCHANGED <<journal, driver, hosts, seen>>
  BY <1>1 DEF Submit
<1>3. u \in Tasks
  BY <1>2, NextTask DEF OrderInv, OperationInv
<1>4. /\ u.event = NoEvent /\ u.base = 0 /\ u.pc = "fence" /\ u.then \in {"create", "target"}
      /\ u.does = "submit"
  BY <1>1 DEF IdleTask
<1> QED BY <1>2, <1>3, <1>4, BeginsInOrder

\* A task that keeps its place, its work and the event it has in hand.
SamePlace(v) ==
  /\ task'[v].pc = task[v].pc /\ task'[v].does = task[v].does /\ task'[v].host = task[v].host
  /\ task'[v].op = task[v].op /\ task'[v].claim = task[v].claim /\ task'[v].event = task[v].event
  /\ task'[v].base = task[v].base /\ task'[v].then = task[v].then

LEMMA SameInOrder ==
  ASSUME OrderInv, OperationInv', UNCHANGED <<journal, driver, hosts, seen>>,
         \A v \in Workers : SamePlace(v)
  PROVE  OrderInv'
<1>1. /\ UNCHANGED <<record, fence, claim, length, poisoned>>
      /\ UNCHANGED <<driver, term, mine, phase, executing, seen>>
  BY DEF journal, hosts
<1>2. \A v \in Workers : FenceOK(task[v])'
  <2> SUFFICES ASSUME NEW v \in Workers PROVE FenceOK(task[v])'
    OBVIOUS
  <2>1. FenceOK(task[v]) /\ SamePlace(v)
    BY DEF OrderInv, FencesOK
  <2> QED BY <1>1, <2>1 DEF FenceOK, SamePlace, Claimed, Created
<1>3. FencesOK'
  BY <1>1, <1>2 DEF OrderInv, FencesOK
<1>4. NoOrphanRunning'
  BY <1>1 DEF OrderInv, NoOrphanRunning, Owner, Local, Created
<1>5. LocksOK'
  <2> SUFFICES ASSUME NEW v \in Workers, Drives(task[v])'
               PROVE  (executing[task[v].host][task[v].op] = v)'
    BY DEF LocksOK
  <2>1. Drives(task[v])
    BY DEF Drives, SamePlace
  <2> QED BY <1>1, <2>1 DEF OrderInv, LocksOK, SamePlace
<1>6. ASSUME ~Preemption PROVE AppendsOK'
  <2>1. AppendsOK
    BY <1>6 DEF OrderInv
  <2> SUFFICES ASSUME NEW v \in Workers PROVE AppendOK(task[v])'
    BY <1>1, <2>1 DEF AppendsOK, OperationsReplay
  <2>2. PICK t : t = task[v]
    OBVIOUS
  <2>3. AppendOK(t)
    BY <2>1, <2>2 DEF AppendsOK
  <2>4. AppendOK(t)'
    BY <1>1, <2>3, StandsKept DEF journal
  <2>5. PICK u : u = task'[v]
    OBVIOUS
  <2>6. /\ u.pc = t.pc /\ u.does = t.does /\ u.host = t.host /\ u.op = t.op /\ u.event = t.event
        /\ u.base = t.base
    BY <2>2, <2>5 DEF SamePlace
  <2>7. AppendOK(u)'
    BY <2>4, <2>6 DEF AppendOK, FenceStands, ClaimStands, CreateStands, ChangeStands, Undisturbed
  <2> QED BY <2>5, <2>7
<1> QED BY <1>3, <1>4, <1>5, <1>6 DEF OrderInv

LEMMA TasksInPlace ==
  ASSUME UNCHANGED task, NEW v
  PROVE  SamePlace(v)
BY DEF SamePlace

\* Nobody waits any more for the requests of the agent.
LEMMA LetGoInOrder ==
  ASSUME OrderInv, OperationInv', UNCHANGED <<journal, driver, hosts, seen>>,
         task' = [w \in Workers |-> [task[w] EXCEPT !.awaited = FALSE]]
  PROVE  OrderInv'
<1>1. \A v \in Workers : SamePlace(v)
  <2> SUFFICES ASSUME NEW v \in Workers PROVE SamePlace(v)
    OBVIOUS
  <2>1. task[v] \in Tasks /\ task'[v] = [task[v] EXCEPT !.awaited = FALSE]
    BY DEF OrderInv, OperationInv, Typed
  <2> QED BY <2>1 DEF Tasks, SamePlace
<1> QED BY <1>1, SameInOrder

LEMMA WorldInOrder ==
  ASSUME OrderInv, OperationInv',
         (\E o \in Operations : Expire(o)) \/ Revoke \/ Enroll \/ HeartbeatLapses \/ AgentGivesUp
           \/ UNCHANGED vars
  PROVE  OrderInv'
<1>1. CASE (\E o \in Operations : Expire(o)) \/ Revoke \/ HeartbeatLapses \/ UNCHANGED vars
  <2>1. UNCHANGED <<journal, driver, hosts, seen, task>>
    BY <1>1 DEF Expire, Revoke, HeartbeatLapses, vars
  <2> QED BY <2>1, TasksInPlace, SameInOrder
<1>2. CASE Enroll
  BY <1>2, LetGoInOrder DEF Enroll
<1>3. CASE AgentGivesUp
  BY <1>3, LetGoInOrder DEF AgentGivesUp
<1> QED BY <1>1, <1>2, <1>3

\* The agent moves on, or asks for something.
LEMMA AskInOrder ==
  ASSUME OrderInv, OperationInv', UNCHANGED <<journal, driver, hosts, seen>>,
         NEW does \in AgentDoes, NEW status, NEW x, NEW a, Ask(does, status, x, a)
  PROVE  OrderInv'
<1>1. CASE UNCHANGED task
  BY <1>1, TasksInPlace, SameInOrder
<1>2. ASSUME NEW w \in Workers, NEW h \in Hosts,
             SetTask(w, [IdleTask EXCEPT !.pc = "auth", !.does = does, !.host = h,
                           !.awaited = TRUE, !.op = a.op, !.epoch = a.epoch, !.exec = x,
                           !.status = status])
      PROVE  OrderInv'
  <2>1. PICK u : u = [IdleTask EXCEPT !.pc = "auth", !.does = does, !.host = h,
                        !.awaited = TRUE, !.op = a.op, !.epoch = a.epoch, !.exec = x,
                        !.status = status]
    OBVIOUS
  <2>2. u \in Tasks
    BY <1>2, <2>1, NextTask DEF OrderInv, OperationInv
  <2>3. /\ u.event = NoEvent /\ u.base = 0 /\ u.pc = "auth" /\ u.then = "idle" /\ u.does = does
        /\ does # "boot"
    BY <2>1 DEF IdleTask, AgentDoes
  <2> QED BY <1>2, <2>1, <2>2, <2>3, BeginsInOrder
<1> QED BY <1>1, <1>2 DEF Ask

LEMMA AgentInOrder ==
  ASSUME OrderInv, OperationInv', AgentNext
  PROVE  OrderInv'
<1>1. UNCHANGED <<journal, driver, hosts, seen>>
  BY DEF AgentNext, AgentCycle, AgentAccept, AgentStart, AgentStarted, AgentEnter, AgentGuarded,
         AgentEffect, AgentChecked, AgentFinish, AgentReceipted, AgentStep, Heartbeat
<1>2. {"next", "progress", "receipt"} = AgentDoes
  BY DEF AgentDoes
<1>3. CASE UNCHANGED task
  BY <1>1, <1>3, TasksInPlace, SameInOrder
<1>4. CASE \E does \in AgentDoes : \E status, x, a : Ask(does, status, x, a)
  BY <1>1, <1>4, AskInOrder
<1>5. UNCHANGED task \/ \E does \in AgentDoes : \E status, x, a : Ask(does, status, x, a)
  <2>1. CASE AgentCycle \/ AgentStarted \/ AgentEnter \/ AgentReceipted
    BY <1>2, <2>1 DEF AgentCycle, AgentStarted, AgentEnter, AgentReceipted, Heartbeat, AskRunning, CycleEnds
  <2>2. CASE AgentAccept \/ AgentStart
    BY <1>2, <2>2 DEF AgentAccept, AgentStart, CycleEnds, ReportAgain, CloseRunning, Receipt
  <2>3. CASE AgentGuarded \/ AgentEffect \/ AgentChecked \/ AgentFinish
    BY <1>2, <2>3 DEF AgentGuarded, AgentEffect, AgentChecked, AgentFinish, AgentOver, AskRunning,
                      CycleEnds, Receipt
  <2> QED BY <2>1, <2>2, <2>3 DEF AgentNext
<1> QED BY <1>3, <1>4, <1>5

LEMMA BootInOrder ==
  ASSUME OrderInv, OperationInv', NEW w \in Workers, NEW h \in Hosts, Boot(w, h)
  PROVE  OrderInv'
<1>1. PICK u : u = [IdleTask EXCEPT !.pc = StartsWith, !.does = "boot", !.host = h, !.then = "recover"]
  OBVIOUS
<1>2. /\ phase[h] = "down" /\ term' = term + 1 /\ mine' = [mine EXCEPT ![h] = term + 1]
      /\ phase' = [phase EXCEPT ![h] = "booting"] /\ seen' = [seen EXCEPT ![h] = length]
      /\ SetTask(w, u) /\ UNCHANGED <<journal, driver, executing>>
  BY <1>1 DEF Boot, Sync
<1>3. /\ Typed /\ Typed' /\ TasksOK /\ LocksOK /\ FencesOK /\ TermsOK /\ NoOrphanRunning
      /\ task \in [Workers -> Tasks] /\ mine \in [Hosts -> 0 .. MaxTerm] /\ seen \in [Hosts -> 0 .. length]
      /\ phase \in [Hosts -> {"down", "booting", "up"}] /\ term \in 0 .. MaxTerm /\ fence \in 0 .. MaxTerm
  BY DEF OrderInv, OperationInv, Typed
<1> term \in Nat /\ fence \in Nat
  BY <1>3, ConstantFacts
<1>4. task'[w] = u /\ \A v \in Workers \ {w} : task'[v] = task[v]
  BY <1>2, <1>3 DEF SetTask
<1>5. UNCHANGED <<record, fence, claim, length, poisoned>> /\ JournalGrows
  BY <1>2, Grown DEF journal
<1>6. /\ u.pc = "fence" /\ u.does = "boot" /\ u.event.kind = "none" /\ u.base = 0
  BY <1>1 DEF IdleTask, StartsWith, NoEvent
<1>7. FenceOK(u)' /\ AppendOK(u)' /\ ~Drives(u)'
  <2>1. 0 <= length'
    BY <1>3 DEF Typed
  <2> QED BY <1>6, <2>1 DEF FenceOK, AppendOK, Drives, Claimed, Undisturbed, Piped, ExecPcs
<1>8. \A v \in Workers \ {w} : FenceOK(task[v])' /\ (~Preemption => AppendOK(task[v])')
  <2> SUFFICES ASSUME NEW v \in Workers \ {w}
               PROVE  FenceOK(task[v])' /\ (~Preemption => AppendOK(task[v])')
    OBVIOUS
  <2>1. task[v].pc # "idle" => task[v].host \in Hosts \ {h}
    BY <1>2, <1>3 DEF TasksOK, TaskOK, OnHost
  <2>2. StaysPut(v)
    BY <1>2, <1>3, <1>4, <2>1 DEF StaysPut
  <2> QED BY <1>2, <1>3, <1>5, <2>2, OthersInOrder
<1>9. FencesOK'
  <2>1. \A g \in Hosts : phase'[g] = "up" => mine'[g] <= fence'
    BY <1>2, <1>3, <1>5 DEF FencesOK
  <2>2. fence' <= term'
    BY <1>2, <1>3, <1>5 DEF FencesOK
  <2> QED BY <1>3, <1>4, <1>5, <1>7, <1>8, <2>1, <2>2 DEF FencesOK
<1>10. NoOrphanRunning'
  <2>1. \A g \in Hosts : phase'[g] = "up" => mine'[g] # term'
    BY <1>2, <1>3 DEF TermsOK
  <2> QED BY <2>1 DEF NoOrphanRunning, Owner
<1>11. LocksOK'
  <2> SUFFICES ASSUME NEW v \in Workers, Drives(task[v])'
               PROVE  (executing[task[v].host][task[v].op] = v)'
    BY DEF LocksOK
  <2>1. v # w
    BY <1>4, <1>7
  <2>2. Drives(task[v]) /\ task'[v] = task[v]
    BY <1>4, <2>1 DEF Drives
  <2> QED BY <1>2, <1>3, <2>2 DEF LocksOK
<1>12. ~Preemption => AppendsOK'
  BY <1>4, <1>5, <1>7, <1>8 DEF OrderInv, AppendsOK, OperationsReplay
<1> QED BY <1>9, <1>10, <1>11, <1>12 DEF OrderInv

LEMMA CrashInOrder ==
  ASSUME OrderInv, OperationInv', NEW h \in Hosts, Crash(h)
  PROVE  OrderInv'
<1>1. /\ UNCHANGED <<journal, driver, term, seen>>
      /\ phase' = [phase EXCEPT ![h] = "down"] /\ mine' = [mine EXCEPT ![h] = 0]
      /\ executing' = [executing EXCEPT ![h] = [o \in Operations |-> None]]
      /\ task' = [w \in Workers |-> IF task[w].host = h THEN IdleTask ELSE task[w]]
  BY DEF Crash
<1>2. /\ Typed /\ Typed' /\ TasksOK /\ LocksOK /\ FencesOK /\ NoOrphanRunning
      /\ mine \in [Hosts -> 0 .. MaxTerm] /\ phase \in [Hosts -> {"down", "booting", "up"}]
      /\ executing \in [Hosts -> [Operations -> Workers \cup {None}]]
  BY DEF OrderInv, OperationInv, Typed
<1>3. UNCHANGED <<record, fence, claim, length, poisoned>> /\ JournalGrows
  BY <1>1, Grown DEF journal
<1>4. /\ phase'[h] = "down"
      /\ \A g \in Hosts \ {h} : mine'[g] = mine[g] /\ phase'[g] = phase[g] /\ executing'[g] = executing[g]
  BY <1>1, <1>2
<1>5. FenceOK(IdleTask)' /\ AppendOK(IdleTask)' /\ ~Drives(IdleTask)'
  <2>1. Typed'
    BY <1>2
  <2> QED BY <2>1, IdleInOrder, PTL
<1>6. IdleTask' = IdleTask
  BY DEF IdleTask, NoClaim, NoEvent, NoRecord
<1>7. \A v \in Workers : FenceOK(task[v])' /\ (~Preemption => AppendOK(task[v])')
  <2> SUFFICES ASSUME NEW v \in Workers
               PROVE  FenceOK(task[v])' /\ (~Preemption => AppendOK(task[v])')
    OBVIOUS
  <2>1. CASE task[v].host = h
    <3>1. task'[v] = IdleTask
      BY <1>1, <2>1
    <3> QED BY <1>5, <1>6, <3>1
  <2>2. CASE task[v].host # h
    <3>1. task'[v] = task[v] /\ (task[v].pc # "idle" => task[v].host \in Hosts \ {h})
      BY <1>1, <1>2, <2>2 DEF TasksOK, TaskOK, OnHost
    <3>2. StaysPut(v)
      BY <1>1, <1>4, <3>1 DEF StaysPut
    <3> QED BY <1>1, <1>2, <1>3, <3>2, OthersInOrder
  <2> QED BY <2>1, <2>2
<1>8. FencesOK'
  <2>1. \A g \in Hosts : phase'[g] = "up" => mine'[g] <= fence'
    BY <1>2, <1>3, <1>4 DEF FencesOK
  <2> QED BY <1>1, <1>2, <1>3, <1>7, <2>1 DEF FencesOK
<1>9. NoOrphanRunning'
  <2>1. \A g \in Hosts : phase'[g] = "up" => phase[g] = "up" /\ mine'[g] = mine[g]
    BY <1>4
  <2> QED BY <1>1, <1>2, <1>3, <2>1 DEF NoOrphanRunning, Owner, Local, Created
<1>10. LocksOK'
  <2> SUFFICES ASSUME NEW v \in Workers, Drives(task[v])'
               PROVE  (executing[task[v].host][task[v].op] = v)'
    BY DEF LocksOK
  <2>1. task'[v] = IF task[v].host = h THEN IdleTask ELSE task[v]
    BY <1>1
  <2>2. task[v].host # h
    BY <1>5, <1>6, <2>1
  <2>3. Drives(task[v]) /\ task'[v] = task[v]
    BY <2>1, <2>2 DEF Drives
  <2>4. PointOK(task[v]) /\ EventOK(task[v]) /\ OnHost(task[v])
    BY <1>2 DEF TasksOK, TaskOK
  <2>5. task[v].host \in Hosts \ {h}
    BY <2>2, <2>3, <2>4, DriverOf
  <2> QED BY <1>2, <1>4, <2>3, <2>5 DEF LocksOK
<1>11. ~Preemption => AppendsOK'
  BY <1>3, <1>7 DEF OrderInv, AppendsOK, OperationsReplay
<1> QED BY <1>8, <1>9, <1>10, <1>11 DEF OrderInv

LEMMA OrderStarts == Init => OrderInv
<1> SUFFICES ASSUME Init PROVE OrderInv
  OBVIOUS
<1>1. OperationInv
  BY OperationsStart
<1>2. /\ record = [o \in Operations |-> NoRecord] /\ fence = 0 /\ ~poisoned
      /\ claim = [o \in Operations |-> NoClaim] /\ term = 0 /\ phase = [h \in Hosts |-> "down"]
      /\ task = [w \in Workers |-> IdleTask]
  BY DEF Init, JournalInit
<1>3. \A w \in Workers : FenceOK(task[w]) /\ AppendOK(task[w]) /\ ~Drives(task[w])
  <2> SUFFICES ASSUME NEW w \in Workers
               PROVE  FenceOK(task[w]) /\ AppendOK(task[w]) /\ ~Drives(task[w])
    OBVIOUS
  <2>1. task[w] = IdleTask
    BY <1>2
  <2> HIDE DEF IdleTask
  <2> QED BY <1>1, <2>1, IdleInOrder DEF OperationInv
<1>4. FencesOK
  BY <1>2, <1>3 DEF FencesOK, NoClaim
<1> QED BY <1>1, <1>2, <1>3, <1>4 DEF OrderInv, NoOrphanRunning, LocksOK, AppendsOK, OperationsReplay
-----------------------------------------------------------------------------
(* The append: what it finds, and what it leaves to the others.            *)

\* The event lands, or it ends a journal that cannot be replayed.
Lands(e) ==
  /\ ~poisoned /\ ~poisoned' /\ Replays(e)
  /\ fence' = IF e.kind = "fence" THEN e.new ELSE fence
  /\ claim' = IF e.kind = "claim" THEN [claim EXCEPT ![e.op] = e.new] ELSE claim
  /\ record' = IF e.kind = "record" THEN [record EXCEPT ![e.op] = e.new] ELSE record

Poisons == poisoned' /\ UNCHANGED <<record, fence, claim>>

LEMMA LandsOrPoisons ==
  ASSUME NEW e, AppendEvent(e)
  PROVE  Lands(e) \/ Poisons
BY DEF AppendEvent, Lands, Poisons

\* The kinds of event, and who appends them.
LEMMA AppendKinds ==
  ASSUME NEW t, TaskOK(t), t.pc = "append"
  PROVE  \/ Fencing(t) /\ FencesFor(t) /\ t.event.kind = "fence"
         \/ Claiming(t) /\ t.event.kind = "claim"
         \/ Recording(t) /\ t.event.kind = "record"
BY DEF TaskOK, EventOK, Piped, Fencing, Claiming, Recording

\* A task of a Host that replaces what is there for a local operation.
Replaces(t) ==
  /\ t.does \in HostDoes /\ t.pc \in Piped
  /\ t.event.kind = "claim" \/ (t.event.kind = "record" /\ t.event.was.status # "none")

LEMMA ReplacesLocal ==
  ASSUME NEW t, EventOK(t), Replaces(t)
  PROVE  LocalOp(t.op) /\ t.event.op = t.op
<1>1. Claiming(t) \/ Recording(t)
  BY DEF Replaces, EventOK, Fencing
<1>2. CASE Claiming(t)
  BY <1>2 DEF Claiming
<1>3. CASE Recording(t)
  BY <1>3 DEF Replaces, Recording, Creating, Advancing, Completing, Expiring, Progressing, Reporting,
              Claiming, HostDoes
<1> QED BY <1>1, <1>2, <1>3

\* One task at a time replaces something for an operation, on a Host.
LEMMA ReplacesAlone ==
  ASSUME OrderInv, NEW v \in Workers, NEW w \in Workers, Replaces(task[v]), Replaces(task[w]),
         task[v].host = task[w].host, task[v].op = task[w].op
  PROVE  v = w
<1>1. Alone /\ LocksOK
  BY DEF OrderInv, OperationInv
<1>2. task[v].pc # "idle" /\ task[w].pc # "idle"
  BY DEF Replaces, Piped
<1>3. CASE task[v].does = "boot" \/ task[w].does = "boot"
  BY <1>1, <1>2, <1>3 DEF Alone
<1>4. CASE task[v].does = "submit" /\ task[w].does = "submit"
  <2>1. Drives(task[v]) /\ Drives(task[w])
    BY <1>4 DEF Replaces, Drives
  <2> QED BY <1>1, <2>1 DEF LocksOK
<1> QED BY <1>3, <1>4 DEF Replaces, HostDoes

\* Two Hosts do not hold the same lease.
LEMMA FenceHolder ==
  ASSUME OrderInv, NEW v \in Workers, NEW w \in Workers, task[v].pc # "idle", task[w].pc # "idle",
         mine[task[v].host] = mine[task[w].host]
  PROVE  task[v].host = task[w].host
<1>1. task[v].host \in Hosts /\ task[w].host \in Hosts /\ mine[task[v].host] # 0 /\ TermsOK
  BY TaskFacts DEF OrderInv, OperationInv
<1> QED BY <1>1 DEF TermsOK

\* Without preemption, the event that is appended replays.
LEMMA EventReplays ==
  ASSUME OrderInv, ~Preemption, NEW w \in Workers, task[w].pc = "append", task[w].base = length
  PROVE  Replays(task[w].event)
<1> DEFINE t == task[w]
           e == task[w].event
<1>1. /\ t \in Tasks /\ TaskOK(t) /\ FenceOK(t) /\ AppendOK(t) /\ Typed /\ e \in Events
      /\ fence \in Nat /\ mine[t.host] \in Nat
  BY TaskFacts DEF Tasks
<1> HIDE DEF t
<1>2. CASE t.event.kind = "fence"
  <2>1. t.event.was = fence /\ t.event.was < t.event.new /\ t.event.new = mine[t.host]
    BY <1>1, <1>2 DEF AppendOK, FenceStands, FenceOK, t
  <2>2. FenceReplays(t.event)
    BY <1>1, <2>1 DEF FenceReplays
  <2> QED BY <1>2, <2>2 DEF Replays, t
<1>3. CASE t.event.kind = "claim"
  <2>1. Claiming(t)
    BY <1>1, <1>3, AppendKinds DEF t
  <2>2. fence = mine[t.host] /\ t.does \in HostDoes
    BY <1>1, <1>3, <2>1 DEF AppendOK, ClaimStands, Claiming, t
  <2>3. Undisturbed(t) /\ t.event.new.owner = mine[t.host]
    BY <1>1, <1>3, <2>2 DEF AppendOK, FenceOK
  <2>4. t.event.op = t.op /\ t.op \in Operations /\ record[t.op].status # "none"
    BY <2>1 DEF Claiming, LocalOp, Created
  <2>5. record[t.op].status \in Statuses
    BY <1>1, <2>4 DEF Typed, Records
  <2>6. ClaimReplays(t.event)
    BY <1>3, <2>2, <2>3, <2>4, <2>5 DEF ClaimReplays, Undisturbed, IsTerminal
  <2> QED BY <1>3, <2>6 DEF Replays, t
<1>4. CASE t.event.kind = "record"
  <2>1. Recording(t)
    BY <1>1, <1>4, AppendKinds DEF t
  <2>2. RecordReplays(t.event)
    <3>1. CASE t.event.was.status = "none"
      <4>1. CreateStands(t)
        BY <1>1, <1>4, <3>1 DEF AppendOK
      <4> QED BY <3>1, <4>1 DEF CreateStands, Unique, RecordReplays, t
    <3>2. CASE t.event.was.status # "none"
      <4>1. ChangeStands(t)
        BY <1>1, <1>4, <3>2 DEF AppendOK
      <4>2. CASE t.does \in AgentDoes
        BY <3>2, <4>1, <4>2 DEF ChangeStands, RecordReplays, t
      <4>3. CASE t.does \in HostDoes
        <5>1. fence = mine[t.host]
          BY <1>1, <1>4 DEF FenceOK, t
        <5>2. Undisturbed(t)
          BY <1>1, <4>3, <5>1 DEF AppendOK
        <5>3. t.event.op = t.op
          <6>1. EventOK(t) /\ Replaces(t)
            BY <1>1, <1>4, <3>2, <4>3 DEF TaskOK, Replaces, Piped, t
          <6> QED BY <6>1, ReplacesLocal
        <5> QED BY <1>4, <3>2, <4>1, <5>2, <5>3 DEF ChangeStands, Undisturbed, RecordReplays
      <4>4. t.does \in HostDoes \cup AgentDoes
        BY <1>1 DEF TaskOK, PointOK, Tasks, t
      <4> QED BY <4>2, <4>3, <4>4
    <3> QED BY <3>1, <3>2
  <2> QED BY <1>4, <2>2 DEF Replays, t
<1>5. t.event.kind \in {"fence", "claim", "record"}
  BY <1>1, AppendKinds DEF t
<1> QED BY <1>2, <1>3, <1>4, <1>5

\* What an append does to the fence.
LEMMA AppendFence ==
  ASSUME OrderInv, NEW w \in Workers, task[w].pc = "append", AppendEvent(task[w].event)
  PROVE  /\ length' = length + 1 /\ fence <= fence' /\ fence' <= term /\ fence' \in Nat
         /\ \A o \in Operations : claim'[o].owner # 0 => claim'[o].exec # 0
<1> DEFINE t == task[w]
<1>1. /\ t \in Tasks /\ FenceOK(t) /\ TaskOK(t) /\ Typed /\ t.event \in Events /\ t.host \in Hosts
      /\ fence \in Nat /\ term \in Nat /\ mine[t.host] \in Nat /\ fence <= term
  BY TaskFacts DEF Tasks
<1>2. mine[t.host] <= term /\ \A o \in Operations : claim[o].owner # 0 => claim[o].exec # 0
  BY <1>1 DEF OrderInv, OperationInv, TermsOK, FencesOK
<1>3. length' = length + 1
  BY DEF AppendEvent
<1> HIDE DEF t
<1>4. CASE Poisons
  BY <1>1, <1>2, <1>3, <1>4 DEF Poisons
<1>5. CASE Lands(t.event)
  <2>1. fence' = fence \/ (fence' = mine[t.host] /\ fence < fence')
    <3>1. CASE t.event.kind = "fence"
      BY <1>1, <1>5, <3>1 DEF Lands, Replays, FenceReplays, FenceOK
    <3>2. CASE t.event.kind # "fence"
      BY <1>5, <3>2 DEF Lands
    <3> QED BY <3>1, <3>2
  <2>2. \A o \in Operations : claim'[o].owner # 0 => claim'[o].exec # 0
    <3>1. CASE t.event.kind = "claim"
      <4>1. claim' = [claim EXCEPT ![t.event.op] = t.event.new] /\ t.event.new.exec # 0
        BY <1>1, <1>5, <3>1 DEF Lands, FenceOK
      <4>2. claim \in [Operations -> Claims]
        BY <1>1 DEF Typed
      <4> QED BY <1>2, <4>1, <4>2
    <3>2. CASE t.event.kind # "claim"
      BY <1>2, <1>5, <3>2 DEF Lands
    <3> QED BY <3>1, <3>2
  <2> QED BY <1>1, <1>2, <1>3, <2>1, <2>2
<1> QED BY <1>4, <1>5, LandsOrPoisons DEF t

\* The claim or the record that another task of the Host of the fence is about
\* to replace is not the one that is replaced now.
LEMMA UndisturbedKept ==
  ASSUME OrderInv, ~Preemption, NEW w \in Workers, task[w].pc = "append", task[w].base = length,
         Lands(task[w].event), NEW v \in Workers \ {w}, Replaces(task[v]),
         fence' = mine[task[v].host], task'[v] = task[v]
  PROVE  Undisturbed(task[v])'
<1>1. PICK s : s = task[v]
  OBVIOUS
<1>2. PICK t : t = task[w]
  OBVIOUS
<1>3. /\ t \in Tasks /\ TaskOK(t) /\ FenceOK(t) /\ AppendOK(t) /\ Typed /\ t.event \in Events
      /\ fence \in Nat /\ mine[t.host] \in Nat /\ t.host \in Hosts
  BY <1>2, TaskFacts DEF Tasks
<1>4. /\ s \in Tasks /\ TaskOK(s) /\ AppendOK(s) /\ s.pc # "idle"
      /\ LocalOp(s.op) /\ s.event.op = s.op /\ s.op \in Operations
  <2>1. task[v].pc # "idle"
    BY DEF Replaces, Piped
  <2>2. task[v] \in Tasks /\ TaskOK(task[v]) /\ AppendOK(task[v])
    BY <2>1, TaskFacts
  <2> QED BY <1>1, <2>1, <2>2, ReplacesLocal DEF TaskOK, LocalOp, Created
<1>5. mine[t.host] = mine[s.host] => t.host = s.host
  BY <1>1, <1>2, <1>4, FenceHolder
<1>6. ASSUME t.event.kind # "fence" PROVE Undisturbed(s)
  BY <1>1, <1>2, <1>4, <1>6 DEF Lands, AppendOK, Replaces
<1>7. CASE t.event.kind = "fence"
  <2>1. t.does = "boot" /\ fence' = mine[t.host]
    BY <1>2, <1>3, <1>7 DEF AppendOK, FenceStands, FenceOK, Lands
  <2>2. t.host = s.host
    BY <1>1, <1>5, <2>1
  <2>3. v = w
    BY <1>1, <1>2, <1>4, <2>1, <2>2 DEF OrderInv, OperationInv, Alone
  <2> QED BY <2>3
<1>8. CASE t.event.kind = "claim"
  <2>1. Claiming(t) /\ fence = mine[t.host] /\ fence' = fence
    BY <1>2, <1>3, <1>8, AppendKinds DEF AppendOK, ClaimStands, Lands
  <2>2. t.host = s.host
    BY <1>1, <1>5, <2>1
  <2>3. Replaces(t)
    BY <1>2, <1>8, <2>1 DEF Replaces, Claiming, Piped
  <2>4. t.op # s.op
    BY <1>1, <1>2, <2>2, <2>3, ReplacesAlone
  <2>5. t.event.op = t.op
    BY <2>1 DEF Claiming
  <2>6. claim'[s.op] = claim[s.op] /\ record' = record
    BY <1>2, <1>3, <1>4, <1>8, <2>4, <2>5 DEF Lands, Typed
  <2>7. Undisturbed(s)'
    BY <1>6, <1>8, <2>6 DEF Undisturbed, IsTerminal
  <2> QED BY <1>1, <2>7
<1>9. CASE t.event.kind = "record"
  <2>1. claim' = claim /\ record' = [record EXCEPT ![t.event.op] = t.event.new] /\ RecordReplays(t.event)
        /\ fence' = fence
    BY <1>2, <1>9 DEF Lands, Replays
  <2>2. t.event.op # s.op
    <3> SUFFICES ASSUME t.event.op = s.op PROVE FALSE
      OBVIOUS
    <3>1. t.event.was = record[s.op] /\ t.event.was.status # "none"
      BY <1>4, <2>1 DEF RecordReplays, LocalOp, Created
    <3>2. Recording(t)
      BY <1>2, <1>3, <1>9, AppendKinds
    <3>3. CASE t.does \in HostDoes
      <4>1. Replaces(t) /\ EventOK(t)
        BY <1>2, <1>3, <1>9, <3>1, <3>3 DEF Replaces, Piped, TaskOK
      <4>2. t.op = s.op
        BY <4>1, ReplacesLocal
      <4>3. fence = mine[t.host]
        BY <1>2, <1>3, <1>9 DEF FenceOK
      <4>4. t.host = s.host
        BY <1>1, <1>5, <2>1, <4>3
      <4> QED BY <1>1, <1>2, <4>1, <4>2, <4>4, ReplacesAlone
    <3>4. CASE t.does \in AgentDoes
      <4>1. Expiring(t) \/ Progressing(t) \/ Reporting(t)
        BY <3>2, <3>4 DEF Recording, Creating, Advancing, Completing, HostDoes, AgentDoes
      <4>2. RemoteOp(t.event.op)
        BY <1>3, <4>1 DEF Expiring, Progressing, Reporting, TaskOK, RequestOK
      <4> QED BY <1>4, <4>2 DEF LocalOp, RemoteOp
    <3>5. t.does \in HostDoes \cup AgentDoes
      BY <1>2, <1>3 DEF TaskOK, PointOK, Tasks
    <3> QED BY <3>3, <3>4, <3>5
  <2>3. claim'[s.op] = claim[s.op] /\ record'[s.op] = record[s.op]
    BY <1>3, <1>4, <2>1, <2>2 DEF Typed
  <2>4. Undisturbed(s)'
    BY <1>6, <1>9, <2>3 DEF Undisturbed, IsTerminal
  <2> QED BY <1>1, <2>4
<1> QED BY <1>2, <1>3, <1>7, <1>8, <1>9, AppendKinds

LEMMA OtherAppends ==
  ASSUME OrderInv, Typed', ~Preemption, NEW w \in Workers, task[w].pc = "append", task[w].base = length,
         AppendEvent(task[w].event), Lands(task[w].event), NEW v \in Workers \ {w}, StaysPut(v),
         task[v].pc # "idle"
  PROVE  AppendOK(task[v])'
<1>1. PICK s : s = task[v]
  OBVIOUS
<1>2. /\ s \in Tasks /\ TaskOK(s) /\ AppendOK(s) /\ FenceOK(s) /\ Typed /\ s.host \in Hosts
      /\ length \in Nat /\ task'[v] = s
  BY <1>1, TaskFacts DEF StaysPut
<1>3. length' = length + 1
  BY DEF AppendEvent
<1>4. s.base # length' /\ s.base \in Nat
  BY <1>2, <1>3 DEF FenceOK, Tasks
<1>5. s.event.kind = "fence" => FenceStands(s)'
  <2> SUFFICES ASSUME s.event.kind = "fence" PROVE FenceStands(s)'
    OBVIOUS
  <2>1. FenceStands(s)
    BY <1>2 DEF AppendOK
  <2>2. seen'[s.host] = seen[s.host] /\ seen[s.host] \in 0 .. length
    BY <1>1, <1>2, <2>1 DEF StaysPut, FenceStands, Typed
  <2>3. seen'[s.host] # length'
    BY <1>2, <1>3, <2>2
  <2> QED BY <1>4, <2>1, <2>3 DEF FenceStands
<1>6. ClaimStands(s) => ClaimStands(s)'
  BY <1>4 DEF ClaimStands
<1>7. CreateStands(s) => CreateStands(s)'
  BY <1>4 DEF CreateStands
<1>8. ChangeStands(s) => ChangeStands(s)'
  BY <1>4 DEF ChangeStands, ValidTransition
<1>9. s.does \in HostDoes /\ fence' = mine'[s.host] => Undisturbed(s)'
  <2> SUFFICES ASSUME s.does \in HostDoes, fence' = mine'[s.host] PROVE Undisturbed(s)'
    OBVIOUS
  <2>1. fence' = mine[s.host]
    BY <1>1 DEF StaysPut
  <2>2. CASE Replaces(s)
    BY <1>1, <1>2, <2>1, <2>2, UndisturbedKept
  <2>3. CASE ~Replaces(s)
    <3>1. s.pc \notin Piped => s.event.kind = "none"
      BY <1>2 DEF TaskOK, EventOK, NoEvent
    <3>2. s.event.kind # "claim" /\ ~(s.event.kind = "record" /\ s.event.was.status # "none")
      BY <2>3, <3>1 DEF Replaces
    <3> QED BY <3>2 DEF Undisturbed
  <2> QED BY <2>2, <2>3
<1>10. AppendOK(s)'
  BY <1>2, <1>5, <1>6, <1>7, <1>8, <1>9 DEF AppendOK
<1> QED BY <1>2, <1>10

\* Only the executor that holds the claim makes a local operation Running.
LEMMA RunningIsClaimed ==
  ASSUME OrderInv, NEW w \in Workers, task[w].pc = "append", task[w].base = length,
         Lands(task[w].event), task[w].event.kind = "record", task[w].event.new.status = "running",
         Local(task[w].event.op)
  PROVE  claim[task[w].event.op].owner = fence
<1>1. PICK t : t = task[w]
  OBVIOUS
<1>2. /\ t \in Tasks /\ TaskOK(t) /\ FenceOK(t) /\ Typed
  BY <1>1, TaskFacts
<1>3. RecordReplays(t.event) /\ Recording(t)
  BY <1>1, <1>2, AppendKinds DEF Lands, Replays
<1>4. record[t.event.op].status # "none" /\ t.event.was.status # "none"
  BY <1>1, <1>3 DEF RecordReplays
<1>5. ~Progressing(t)
  <2>1. Progressing(t) => RemoteOp(t.event.op)
    BY <1>2 DEF Progressing, TaskOK, RequestOK
  <2> QED BY <1>1, <2>1 DEF RemoteOp
<1>6. ~Reporting(t)
  <2>1. Reporting(t) => t.event.new.status \in Outcomes
    BY <1>2 DEF Reporting, TaskOK, RequestOK
  <2> QED BY <1>1, <2>1 DEF Outcomes
<1>7. Advancing(t)
  BY <1>1, <1>3, <1>4, <1>5, <1>6 DEF Recording, Creating, Completing, Expiring, Outcomes
<1>8. Claimed(t) /\ t.event.op = t.op
  BY <1>1, <1>4, <1>7 DEF Claimed, Advancing, Piped, HostDoes
<1>9. fence = mine[t.host] /\ claim[t.op] = t.claim /\ t.claim.owner = mine[t.host]
  BY <1>1, <1>2, <1>8 DEF FenceOK
<1> QED BY <1>1, <1>8, <1>9

LEMMA OrphansKept ==
  ASSUME OrderInv, NEW w \in Workers, task[w].pc = "append", task[w].base = length,
         AppendEvent(task[w].event), UNCHANGED <<driver, term>>,
         \A g \in Hosts : phase'[g] = "up" => phase[g] = "up" /\ mine'[g] = mine[g]
  PROVE  NoOrphanRunning'
<1>1. PICK e : e = task[w].event
  OBVIOUS
<1>2. /\ Typed /\ e \in Events /\ fence \in Nat /\ term \in Nat /\ fence <= term
      /\ JournalGrows /\ NoOrphanRunning /\ FencesOK
  BY <1>1, TaskFacts, AppendGrows DEF Tasks, At, OrderInv
<1>3. fence <= fence' /\ fence' <= term /\ fence' \in Nat
  BY AppendFence
<1> SUFFICES ASSUME NEW g \in Hosts, NEW o \in Operations, phase'[g] = "up", mine'[g] = term,
                    record'[o].status = "running", driver[record'[o].key] = "local"
             PROVE  claim'[o].owner = mine[g]
  BY DEF NoOrphanRunning, Owner, Local, Created
<1>4. phase[g] = "up" /\ mine[g] = term /\ fence = term
  <2>1. phase[g] = "up" /\ mine[g] = term /\ mine[g] <= fence
    BY <1>2 DEF FencesOK
  <2> QED BY <1>2, <2>1
<1>5. ASSUME record'[o] = record[o] PROVE claim[o].owner = mine[g]
  BY <1>2, <1>4, <1>5 DEF NoOrphanRunning, Owner, Local, Created
<1>6. CASE Poisons
  BY <1>5, <1>6 DEF Poisons
<1>7. CASE Lands(e)
  <2>1. CASE e.kind \notin {"claim", "record"}
    BY <1>5, <1>7, <2>1 DEF Lands
  <2>2. CASE e.kind = "claim"
    <3>1. record' = record /\ claim' = [claim EXCEPT ![e.op] = e.new] /\ e.new.owner = fence
      BY <1>7, <2>2 DEF Lands, Replays, ClaimReplays
    <3>2. claim \in [Operations -> Claims]
      BY <1>2 DEF Typed
    <3> QED BY <1>4, <1>5, <3>1, <3>2
  <2>3. CASE e.kind = "record"
    <3>1. claim' = claim /\ record' = [record EXCEPT ![e.op] = e.new] /\ record \in [Operations -> Records]
      BY <1>2, <1>7, <2>3 DEF Lands, Typed
    <3>2. CASE o # e.op
      BY <1>5, <3>1, <3>2
    <3>3. CASE o = e.op
      <4>1. e.new = record'[o] /\ e.new.status = "running"
        BY <3>1, <3>3
      <4>2. RecordReplays(e)
        BY <1>7, <2>3 DEF Lands, Replays
      <4>3. o \in Created
        BY <3>3, <4>1, <4>2 DEF RecordReplays, Created
      <4>4. Local(e.op)
        BY <1>2, <3>3, <4>3 DEF JournalGrows, Local
      <4> QED BY <1>1, <1>4, <1>7, <2>3, <3>1, <3>3, <4>1, <4>4, RunningIsClaimed
    <3> QED BY <3>2, <3>3
  <2> QED BY <2>1, <2>2, <2>3
<1> QED BY <1>1, <1>6, <1>7, LandsOrPoisons

\* An append is in order when the task goes on in order, and its Host does not
\* begin to serve with it.
Appends(w) ==
  /\ task[w].pc = "append" /\ task[w].base = length /\ AppendEvent(task[w].event)
  /\ UNCHANGED <<driver, term>> /\ SeenKept(w)
  /\ \A v \in Workers \ {w} : task'[v] = task[v]
  /\ FenceOK(task[w])' /\ (~Preemption => AppendOK(task[w])')
  /\ Drives(task[w])' => executing'[task'[w].host][task'[w].op] = w
  /\ \A g \in Hosts, o \in Operations :
       executing[g][o] \in Workers \ {w} => executing'[g][o] = executing[g][o]
  /\ \A g \in Hosts : \/ phase'[g] = phase[g] /\ mine'[g] = mine[g]
                      \/ task[w].does = "boot" /\ g = task[w].host /\ phase'[g] = "down"

LEMMA AppendsKeep ==
  ASSUME OrderInv, OperationInv', NEW w \in Workers, Appends(w)
  PROVE  OrderInv'
<1>1. /\ task[w].pc = "append" /\ task[w].base = length /\ AppendEvent(task[w].event)
      /\ UNCHANGED <<driver, term>>
  BY DEF Appends
<1>2. /\ Typed /\ Typed' /\ TasksOK /\ Alone /\ LocksOK /\ FencesOK /\ task \in [Workers -> Tasks]
  BY DEF OrderInv, OperationInv, Typed
<1>3. length' = length + 1 /\ fence <= fence' /\ fence' <= term /\ fence' \in Nat /\ fence \in Nat
      /\ \A o \in Operations : claim'[o].owner # 0 => claim'[o].exec # 0
  BY <1>1, TaskFacts, AppendFence
<1>4. JournalGrows
  BY <1>1, AppendGrows DEF At, OrderInv
<1>5. ~Preemption => Lands(task[w].event)
  <2>1. ~Preemption => Replays(task[w].event) /\ ~poisoned
    BY <1>1, EventReplays DEF OrderInv, AppendsOK, OperationsReplay
  <2> QED BY <1>1, <2>1 DEF AppendEvent, Lands
<1>6. \A v \in Workers \ {w} : StaysPut(v)
  <2> SUFFICES ASSUME NEW v \in Workers \ {w} PROVE StaysPut(v)
    OBVIOUS
  <2>1. task[v].pc # "idle" => task[v].host \in Hosts
    BY <1>2 DEF TasksOK, TaskOK, OnHost
  <2>2. /\ task[v].does = "boot" => task[v].pc = "idle" \/ task[v].host # task[w].host
        /\ task[w].does = "boot" /\ task[v].pc # "idle" => task[v].host # task[w].host
    BY <1>1, <1>2 DEF Alone
  <2> QED BY <2>1, <2>2 DEF StaysPut, Appends, SeenKept
<1>7. \A v \in Workers \ {w} : FenceOK(task[v])' /\ (~Preemption => AppendOK(task[v])')
  <2> SUFFICES ASSUME NEW v \in Workers \ {w}
               PROVE  FenceOK(task[v])' /\ (~Preemption => AppendOK(task[v])')
    OBVIOUS
  <2>1. CASE task[v].pc = "idle"
    <3>1. task'[v] = IdleTask
      BY <1>2, <1>6, <2>1 DEF StaysPut, TasksOK, TaskOK, PointOK
    <3>2. IdleTask' = IdleTask
      BY DEF IdleTask, NoClaim, NoEvent, NoRecord
    <3>3. Typed'
      BY <1>2
    <3>4. FenceOK(IdleTask)' /\ AppendOK(IdleTask)'
      BY <3>3, IdleInOrder, PTL
    <3> QED BY <3>1, <3>2, <3>4
  <2>2. CASE task[v].pc # "idle"
    <3>1. PICK s : s = task[v]
      OBVIOUS
    <3>2. /\ s \in Tasks /\ s.host \in Hosts /\ FenceOK(s) /\ task'[v] = s
          /\ mine'[s.host] = mine[s.host]
      BY <1>6, <2>2, <3>1, TaskFacts DEF StaysPut
    <3>3. FenceOK(s)'
      BY <1>2, <1>3, <1>4, <3>2, FenceKept
    <3>4. ~Preemption => AppendOK(task[v])'
      BY <1>1, <1>2, <1>5, <1>6, <2>2, OtherAppends
    <3> QED BY <3>2, <3>3, <3>4
  <2> QED BY <2>1, <2>2
<1>8. \A g \in Hosts : phase'[g] = "up" => phase[g] = "up" /\ mine'[g] = mine[g]
  BY DEF Appends
<1>9. FencesOK'
  <2>1. \A g \in Hosts : phase'[g] = "up" => mine'[g] <= fence'
    <3> SUFFICES ASSUME NEW g \in Hosts, phase'[g] = "up" PROVE mine'[g] <= fence'
      OBVIOUS
    <3>1. mine'[g] = mine[g] /\ mine[g] <= fence /\ mine[g] \in Nat
      BY <1>2, <1>8 DEF FencesOK, Typed
    <3> QED BY <1>3, <3>1
  <2>2. \A v \in Workers : FenceOK(task[v])'
    BY <1>7 DEF Appends
  <2>3. fence' <= term'
    BY <1>1, <1>3
  <2> QED BY <1>3, <2>1, <2>2, <2>3 DEF FencesOK
<1>10. NoOrphanRunning'
  BY <1>1, <1>8, OrphansKept
<1>11. LocksOK'
  <2> SUFFICES ASSUME NEW v \in Workers, Drives(task[v])'
               PROVE  (executing[task[v].host][task[v].op] = v)'
    BY DEF LocksOK
  <2>1. CASE v = w
    BY <2>1 DEF Appends
  <2>2. CASE v # w
    <3>1. Drives(task[v]) /\ task'[v] = task[v]
      BY <2>2 DEF Drives, Appends
    <3>2. executing[task[v].host][task[v].op] = v
      BY <1>2, <3>1 DEF LocksOK
    <3>3. PointOK(task[v]) /\ EventOK(task[v]) /\ OnHost(task[v])
      BY <1>2 DEF TasksOK, TaskOK
    <3>4. task[v].host \in Hosts /\ task[v].op \in Operations
      BY <3>1, <3>3, DriverOf
    <3> QED BY <2>2, <3>1, <3>2, <3>4 DEF Appends
  <2> QED BY <2>1, <2>2
<1>12. ASSUME ~Preemption PROVE AppendsOK'
  <2>1. ~poisoned'
    BY <1>5, <1>12 DEF Lands
  <2> QED BY <1>7, <1>12, <2>1 DEF AppendsOK, OperationsReplay, Appends
<1> QED BY <1>9, <1>10, <1>11, <1>12 DEF OrderInv

\* A task whose event is in the journal goes on in order.
LEMMA AppendedInOrder ==
  ASSUME OrderInv, OperationInv', NEW w \in Workers, task[w].pc = "append", task[w].base = length,
         AppendEvent(task[w].event), ~poisoned', UNCHANGED <<driver, hosts>>, SeenKept(w),
         SetTask(w, Appended(task[w])), task[w].then # "done"
  PROVE  OrderInv'
<1>1. PICK t : t = task[w]
  OBVIOUS
<1>2. /\ t \in Tasks /\ TaskOK(t) /\ FenceOK(t) /\ Typed /\ t.event \in Events /\ t.host \in Hosts
      /\ fence \in Nat /\ mine[t.host] \in Nat /\ LocksOK /\ task \in [Workers -> Tasks]
  BY <1>1, TaskFacts DEF Tasks, OrderInv, Typed
<1>3. PICK u \in Tasks :
        /\ u = Appended(t) /\ u.pc = t.then /\ u.event = NoEvent /\ u.base = 0
        /\ u.does = t.does /\ u.host = t.host /\ u.op = t.op /\ u.then = t.then
        /\ u.claim = IF t.event.kind = "claim" THEN t.event.new ELSE t.claim
  BY <1>2, AppendedFields
<1>4. task'[w] = u /\ (\A v \in Workers \ {w} : task'[v] = task[v])
      /\ UNCHANGED <<term, mine, phase, executing>>
  BY <1>1, <1>2, <1>3 DEF SetTask, hosts
<1>5. Lands(t.event)
  BY <1>1, LandsOrPoisons DEF Poisons
<1>6. fence <= fence' /\ fence' \in Nat /\ length' = length + 1 /\ length \in Nat
  BY <1>1, AppendFence, TaskFacts
<1>7. u.pc \notin Piped \cup {"fence", "done"} /\ (Claimed(u) => u.claim.owner = mine[u.host] /\ u.claim.exec # 0)
      /\ (Drives(u) => Drives(t))
  <2>1. CASE t.event.kind = "fence"
    <3>1. FencesFor(t)
      BY <1>1, <1>2, <2>1, AppendKinds
    <3>2. u.pc \in {"create", "target", "claim", "recover", "handle"} /\ (u.pc = "claim" => t.does = "submit")
      BY <1>3, <3>1 DEF FencesFor, AgentDoes
    <3>3. ~Claimed(u)
      BY <3>2 DEF Claimed, Piped, ExecPcs
    <3>4. Drives(u) => Drives(t)
      BY <1>1, <1>3, <2>1, <3>2 DEF Drives, Piped, ExecPcs
    <3> QED BY <3>2, <3>3, <3>4 DEF Piped
  <2>2. CASE t.event.kind = "claim"
    <3>1. Claiming(t)
      BY <1>1, <1>2, <2>2, AppendKinds
    <3>2. u.pc = "resolve" /\ u.claim = t.event.new
      BY <1>3, <2>2, <3>1 DEF Claiming
    <3>3. u.claim.owner = mine[u.host] /\ u.claim.exec # 0
      BY <1>2, <1>3, <2>2, <3>2 DEF FenceOK
    <3>4. Drives(u) => Drives(t)
      BY <1>1, <1>3, <2>2 DEF Drives, Piped
    <3> QED BY <3>2, <3>3, <3>4 DEF Piped
  <2>3. CASE t.event.kind = "record"
    <3>1. Recording(t)
      BY <1>1, <1>2, <2>3, AppendKinds
    <3>2. u.pc \in {"lock", "advance", "enter", "recover", "handle"} /\ u.claim = t.claim
      BY <1>1, <1>3, <2>3, <3>1 DEF Recording, Creating, Advancing, Completing, Expiring, Progressing,
                                    Reporting
    <3>3. u.pc \in {"advance", "enter"} => Advancing(t)
      BY <1>1, <1>3, <3>1 DEF Recording, Creating, Advancing, Completing, Expiring, Progressing, Reporting
    <3>4. Advancing(t) => Claimed(t) /\ Drives(t)
      BY <1>1, <2>3 DEF Advancing, Claimed, Drives, Piped, HostDoes
    <3>5. Claimed(u) \/ Drives(u) => u.pc \in {"advance", "enter"}
      BY <3>2 DEF Claimed, Drives, Piped, ExecPcs
    <3>6. Claimed(t) => t.claim.owner = mine[t.host] /\ t.claim.exec # 0
      BY <1>2 DEF FenceOK
    <3>7. u.pc \notin Piped \cup {"fence", "done"}
      BY <3>2 DEF Piped
    <3> QED BY <1>3, <3>2, <3>3, <3>4, <3>5, <3>6, <3>7
  <2> QED BY <1>1, <1>2, <2>1, <2>2, <2>3, AppendKinds
<1>8. mine[t.host] <= fence' \/ t.does # "boot"
  <2>1. CASE t.event.kind = "fence"
    BY <1>2, <1>5, <2>1 DEF Lands, FenceOK
  <2>2. CASE t.event.kind # "fence" /\ t.does = "boot"
    BY <1>1, <1>2, <1>6, <2>2 DEF FenceOK
  <2> QED BY <2>1, <2>2
<1>9. u.event.kind = "none"
  BY <1>3 DEF NoEvent
<1>10. FenceOK(u)'
  <2>1. u.base <= length' /\ mine' = mine
    BY <1>3, <1>4, <1>6
  <2>2. Claimed(u)' => Claimed(u)
    BY DEF Claimed
  <2> QED BY <1>3, <1>7, <1>8, <1>9, <2>1, <2>2 DEF FenceOK, Piped
<1>11. AppendOK(u)'
  BY <1>9 DEF AppendOK, Undisturbed
<1>12. Drives(u)' => executing'[u.host][u.op] = w
  <2>1. Drives(u)' => Drives(u)
    BY DEF Drives
  <2> QED BY <1>1, <1>2, <1>3, <1>4, <1>7, <2>1 DEF LocksOK
<1>13. Appends(w)
  BY <1>4, <1>10, <1>11, <1>12 DEF Appends
<1> QED BY <1>13, AppendsKeep

\* A task that ends with its append, well or not.
LEMMA AppendEndsInOrder ==
  ASSUME OrderInv, OperationInv', NEW w \in Workers, task[w].pc = "append", task[w].base = length,
         AppendEvent(task[w].event), Ends(w), UNCHANGED driver, SeenKept(w),
         \A g \in Hosts : \/ phase'[g] = phase[g] /\ mine'[g] = mine[g]
                          \/ task[w].does = "boot" /\ g = task[w].host /\ phase'[g] = "down"
  PROVE  OrderInv'
<1>1. task'[w] = IdleTask /\ (\A v \in Workers \ {w} : task'[v] = task[v]) /\ UNCHANGED term
  BY DEF Ends, SetTask, OrderInv, OperationInv, Typed
<1>2. IdleTask' = IdleTask
  BY DEF IdleTask, NoClaim, NoEvent, NoRecord
<1>3. Typed'
  BY DEF OperationInv
<1>4. FenceOK(IdleTask)' /\ AppendOK(IdleTask)' /\ ~Drives(IdleTask)'
  BY <1>3, IdleInOrder, PTL
<1>5. FenceOK(task[w])' /\ AppendOK(task[w])' /\ ~Drives(task[w])'
  BY <1>1, <1>2, <1>4
<1>6. \A g \in Hosts, o \in Operations :
        executing[g][o] \in Workers \ {w} => executing'[g][o] = executing[g][o]
  BY DEF Ends, Release
<1>7. Appends(w)
  BY <1>1, <1>5, <1>6 DEF Appends
<1> QED BY <1>7, AppendsKeep

LEMMA AppendInOrder ==
  ASSUME OrderInv, OperationInv', BootMayFail = FALSE, NEW w \in Workers, Append(w)
  PROVE  OrderInv'
<1>1. PICK t : t = task[w]
  OBVIOUS
<1>2. t.pc = "append" /\ UNCHANGED driver
  BY <1>1 DEF Append, At
<1>3. /\ t \in Tasks /\ TaskOK(t) /\ FenceOK(t) /\ Typed /\ Typed' /\ t.host \in Hosts
      /\ seen \in [Hosts -> 0 .. length] /\ phase \in [Hosts -> {"down", "booting", "up"}]
      /\ mine \in [Hosts -> 0 .. MaxTerm]
  BY <1>1, <1>2, TaskFacts DEF OperationInv, Typed
<1>4. CASE /\ t.base # length /\ SetTask(w, [t EXCEPT !.pc = t.retry, !.event = NoEvent, !.base = 0])
           /\ UNCHANGED <<journal, hosts, seen>>
  <2>1. PICK u : u = [t EXCEPT !.pc = t.retry, !.event = NoEvent, !.base = 0]
    OBVIOUS
  <2>2. u \in Tasks
    BY <1>3, <1>4, <2>1, NextTask
  <2>3. /\ u.pc = t.retry /\ u.event = NoEvent /\ u.base = 0 /\ u.host = t.host /\ u.does = t.does
        /\ u.op = t.op /\ u.claim = t.claim /\ u.then = t.then
    BY <1>3, <2>1 DEF Tasks
  <2>4. /\ u.pc \in {"fence", "claim", "create", "advance", "complete", "handle"}
        /\ Claimed(u) => Claimed(t)
        /\ Drives(u) => Drives(t)
        /\ u.pc = "fence" <=> t.event.kind = "fence"
    <3>1. CASE t.event.kind = "fence"
      <4>1. u.pc = "fence"
        BY <1>2, <1>3, <2>3, <3>1, AppendKinds DEF Fencing
      <4> QED BY <1>2, <2>3, <3>1, <4>1 DEF Claimed, Drives, Piped, ExecPcs
    <3>2. CASE t.event.kind = "claim"
      <4>1. u.pc = "claim"
        BY <1>2, <1>3, <2>3, <3>2, AppendKinds DEF Claiming
      <4> QED BY <1>2, <2>3, <3>2, <4>1 DEF Claimed, Drives, Piped, ExecPcs
    <3>3. CASE t.event.kind = "record"
      <4>1. Recording(t)
        BY <1>2, <1>3, <3>3, AppendKinds
      <4>2. /\ u.pc \in {"create", "advance", "complete", "handle"}
            /\ u.pc \in {"advance", "complete"} => Advancing(t) \/ Completing(t)
        BY <2>3, <4>1 DEF Recording, Creating, Advancing, Completing, Expiring, Progressing, Reporting
      <4>3. Advancing(t) \/ Completing(t) => Claimed(t) /\ (t.does = "submit" => Drives(t))
        BY <1>2, <3>3 DEF Advancing, Completing, Claimed, Drives, Piped, HostDoes
      <4>4. Claimed(u) \/ Drives(u) => u.pc \in {"advance", "complete"}
        BY <4>2 DEF Claimed, Drives, Piped, ExecPcs
      <4>5. Drives(u) => t.does = "submit"
        BY <2>3 DEF Drives
      <4> QED BY <3>3, <4>2, <4>3, <4>4, <4>5
    <3> QED BY <1>2, <1>3, <3>1, <3>2, <3>3, AppendKinds
  <2>5. FenceOK(u) /\ AppendOK(u)'
    <3>1. u.pc \notin Piped /\ u.base <= length
      <4>1. length \in Nat
        BY <1>3 DEF Typed
      <4> QED BY <2>3, <2>4, <4>1 DEF Piped
    <3>2. Claimed(u) => u.claim.owner = mine[u.host] /\ u.claim.exec # 0
      BY <1>3, <2>3, <2>4 DEF FenceOK
    <3>3. u.does = "boot" => u.pc = "fence" \/ mine[u.host] <= fence
      BY <1>2, <1>3, <2>3, <2>4 DEF FenceOK
    <3> QED BY <2>3, <3>1, <3>2, <3>3, Eventless
  <2>6. SetTask(w, u)
    BY <1>4, <2>1
  <2> QED BY <1>1, <1>2, <1>4, <2>2, <2>3, <2>4, <2>5, <2>6, MovesInOrder
<1>5. CASE t.base = length /\ AppendEvent(t.event)
  <2>1. CASE /\ ~poisoned' /\ seen' = [seen EXCEPT ![t.host] = length + 1]
             /\ IF t.then = "done" THEN Finishes(w, t.op, t.event.new)
                ELSE SetTask(w, Appended(t)) /\ UNCHANGED <<hosts, agent>>
    <3>1. SeenKept(w)
      BY <1>1, <1>2, <1>3, <2>1 DEF SeenKept
    <3>2. CASE t.then = "done" /\ Finishes(w, t.op, t.event.new)
      <4>1. t.does # "boot"
        BY <1>2, <1>3, <3>2, AppendKinds DEF FencesFor, Claiming, Recording, Creating, Advancing,
           Completing, Expiring, Progressing, Reporting
      <4>2. Ends(w) /\ mine' = mine /\ phase' = phase
        BY <1>1, <3>2, <4>1 DEF Finishes, Returns, Ends
      <4> QED BY <1>1, <1>2, <1>5, <3>1, <4>2, AppendEndsInOrder
    <3>3. CASE t.then # "done" /\ SetTask(w, Appended(t)) /\ UNCHANGED <<hosts, agent>>
      BY <1>1, <1>2, <1>5, <2>1, <3>1, <3>3, AppendedInOrder
    <3> QED BY <2>1, <3>2, <3>3
  <2>2. CASE Fails(w) /\ UNCHANGED seen
    <3>1. SeenKept(w)
      BY <2>2 DEF SeenKept
    <3>2. Ends(w)
      BY <2>2 DEF Fails, Ends
    <3>3. \A g \in Hosts : \/ phase'[g] = phase[g] /\ mine'[g] = mine[g]
                           \/ task[w].does = "boot" /\ g = task[w].host /\ phase'[g] = "down"
      BY <1>1, <1>3, <2>2 DEF Fails
    <3> QED BY <1>1, <1>2, <1>5, <3>1, <3>2, <3>3, AppendEndsInOrder
  <2> QED BY <1>1, <1>5, <2>1, <2>2 DEF Append, Errs
<1> QED BY <1>1, <1>4, <1>5 DEF Append
-----------------------------------------------------------------------------
(* The theorems that the order of the journal gives.                       *)

LEMMA HostStepInOrder ==
  ASSUME OrderInv, OperationInv', BootMayFail = FALSE, NEW w \in Workers, HostStep(w)
  PROVE  OrderInv'
<1>1. CASE HostFence(w) \/ CheckOwner(w) \/ ReadBase(w) \/ CheckAppend(w) \/ Append(w)
  BY <1>1, HostFenceInOrder, CheckOwnerInOrder, ReadBaseInOrder, CheckAppendInOrder, AppendInOrder
<1>2. CASE ReadTarget(w) \/ Create(w) \/ LockExecution(w) \/ Claim(w) \/ Resolve(w) \/ Advance(w)
  BY <1>2, ReadTargetInOrder, CreateInOrder, LockExecutionInOrder, ClaimInOrder, ResolveInOrder,
     AdvanceInOrder
<1>3. CASE Enter(w) \/ GuardBefore(w) \/ Effect(w) \/ GuardAfter(w) \/ Finish(w) \/ Complete(w)
  BY <1>3, EnterInOrder, GuardsInOrder, CompleteInOrder
<1>4. CASE Recover(w) \/ Authenticate(w) \/ Handle(w)
  BY <1>4, RecoverInOrder, AuthenticateInOrder, HandleInOrder
<1> QED BY <1>1, <1>2, <1>3, <1>4 DEF HostStep

LEMMA OrderKeeps ==
  ASSUME BootMayFail = FALSE
  PROVE  OrderInv /\ [Next]_vars => OrderInv'
<1> SUFFICES ASSUME OrderInv, [Next]_vars PROVE OrderInv'
  OBVIOUS
<1>1. OperationInv'
  BY OperationsKeep DEF OrderInv
<1>2. ASSUME NEW w \in Workers,
             \/ HostStep(w) \/ StoreError(w) \/ DropHandler(w)
             \/ \E h \in Hosts : Boot(w, h) \/ \E k \in Keys : Submit(w, h, k)
      PROVE  OrderInv'
  BY <1>1, <1>2, HostStepInOrder, StoreErrorInOrder, DropHandlerInOrder, BootInOrder, SubmitInOrder
<1>3. CASE \E h \in Hosts : Crash(h)
  BY <1>1, <1>3, CrashInOrder
<1>4. CASE \/ (\E o \in Operations : Expire(o)) \/ Revoke \/ Enroll \/ HeartbeatLapses \/ AgentGivesUp
           \/ UNCHANGED vars
  BY <1>1, <1>4, WorldInOrder
<1>5. CASE AgentNext
  BY <1>1, <1>5, AgentInOrder
<1> QED BY <1>2, <1>3, <1>4, <1>5 DEF Next

LEMMA OrderHolds ==
  ASSUME BootMayFail = FALSE
  PROVE  Spec => []OrderInv
BY OrderStarts, OrderKeeps, PTL DEF Spec

\* When a Host serves only after a recovery that met no error of the store, as
\* the owner of the lease it finds no local operation Running under the claim
\* of an earlier Host: recover_local_operations_after_restart has closed each
\* of them, and the fence that it wrote first refuses what an earlier Host
\* still appends.
THEOREM NoOrphansAreLeft ==
  ASSUME BootMayFail = FALSE
  PROVE  Spec => []NoOrphanRunning
<1>1. OrderInv => NoOrphanRunning
  BY DEF OrderInv
<1> QED BY <1>1, OrderHolds, PTL

\* When also no other thread of a Host runs between the decision on an event
\* and the read of operation_next_sequence, no interleaving of Hosts, requests,
\* retries and crashes appends an event that apply_operation_event refuses.
THEOREM OperationsAlwaysReplay ==
  ASSUME BootMayFail = FALSE, Preemption = FALSE
  PROVE  Spec => []OperationsReplay
<1>1. OrderInv => OperationsReplay
  BY DEF OrderInv, AppendsOK
<1> QED BY <1>1, OrderHolds, PTL

=============================================================================
