--------------------------- MODULE HostLeaseProofs ---------------------------
(***************************************************************************)
(* Proofs about the Host lease: the state is well typed, and for every set *)
(* of processes and every lease time at most one handle is active, a lease *)
(* is taken over only after its end, a process has one term, and a backup  *)
(* is published only if it was taken in the term of its own process.       *)
(***************************************************************************)
EXTENDS HostLease, TLAPS

\* The last event is a lease, or the session is empty.
LEMMA CurrentType ==
  ASSUME TypeOK
  PROVE  Current \in Leases \cup {NoLease}
BY DEF TypeOK, Current

\* What an append does to the end of the session.
LEMMA AppendCurrent ==
  ASSUME TypeOK, NEW e \in Leases, journal' = Append(journal, e)
  PROVE  /\ Current' = e
         /\ Len(journal') = Len(journal) + 1
         /\ \A k \in 1 .. Len(journal) : journal'[k] = journal[k]
         /\ journal'[Len(journal) + 1] = e
<1>1. journal \in Seq(Leases) /\ Len(journal) \in Nat  BY DEF TypeOK
<1>2. Len(journal') = Len(journal) + 1 /\ journal'[Len(journal) + 1] = e  BY <1>1
<1>3. journal' # <<>>  BY <1>1, <1>2
<1>4. Current' = e  BY <1>2, <1>3 DEF Current
<1> QED  BY <1>1, <1>2, <1>4

\* Tasks begin well typed.
LEMMA BeginType == IdleTask \in TaskStates /\ \A op \in Ops : Begin(op) \in TaskStates
BY DEF IdleTask, TaskStates, Ops, Begin

LEMMA InitType == Init => TypeOK
BY BeginType DEF Init, TypeOK, NoLease, TaskNames, Stages

-----------------------------------------------------------------------------
(* Types.                                                                  *)

LEMMA TaskType ==
  ASSUME TypeOK, NEW p \in Processes, NEW k \in TaskNames
  PROVE  /\ task[p][k] \in TaskStates
         /\ task[p][k].saw \in Nat /\ task[p][k].expires \in Nat /\ task[p][k].tries \in Nat
<1>1. task[p][k] \in TaskStates  BY DEF TypeOK
<1> QED  BY <1>1 DEF TaskStates

\* The moves of a task that is under way.
LEMMA MoveType ==
  ASSUME NEW t \in TaskStates, NEW n \in Nat, NEW e \in Nat
  PROVE  /\ [t EXCEPT !.pc = "range", !.saw = n] \in TaskStates
         /\ [t EXCEPT !.pc = "append", !.expires = e] \in TaskStates
         /\ [t EXCEPT !.pc = "append", !.saw = n, !.expires = e] \in TaskStates
         /\ [t EXCEPT !.pc = "store"] \in TaskStates
         /\ [t EXCEPT !.pc = "store", !.expires = e] \in TaskStates
         /\ [t EXCEPT !.pc = "tail", !.tries = @ + 1] \in TaskStates
         /\ [IdleTask EXCEPT !.pc = "stopped"] \in TaskStates
<1>1. t.tries + 1 \in Nat  BY DEF TaskStates
<1> QED  BY <1>1, BeginType DEF TaskStates

LEMMA SetTaskType ==
  ASSUME TypeOK, NEW p \in Processes, NEW k \in TaskNames, NEW t \in TaskStates,
         SetTask(p, k, t)
  PROVE  task' \in [Processes -> [TaskNames -> TaskStates]]
BY DEF TypeOK, SetTask

\* The outcomes that several actions share.
LEMMA EndsType ==
  ASSUME TypeOK, NEW p \in Processes, Ends(p)
  PROVE  /\ task' \in [Processes -> [TaskNames -> TaskStates]]
         /\ phase' \in [Processes -> {"off", "acquiring", "up", "closing", "ended"}]
<1>1. IdleTask \in TaskStates /\ "main" \in TaskNames  BY BeginType DEF TaskNames
<1> QED  BY <1>1 DEF TypeOK, Ends

LEMMA FailsType ==
  ASSUME TypeOK, NEW p \in Processes, Fails(p)
  PROVE  /\ task' \in [Processes -> [TaskNames -> TaskStates]]
         /\ phase' \in [Processes -> {"off", "acquiring", "up", "closing", "ended"}]
         /\ stage' \in [Processes -> Stages]
BY EndsType DEF TypeOK, Fails, Stages

LEMMA ErrorType ==
  ASSUME TypeOK, NEW p \in Processes, NEW k \in TaskNames, Error(p, k)
  PROVE  /\ task' \in [Processes -> [TaskNames -> TaskStates]]
         /\ phase' \in [Processes -> {"off", "acquiring", "up", "closing", "ended"}]
         /\ stage' \in [Processes -> Stages]
         /\ valid' \in [Processes -> BOOLEAN]
<1>1. CASE Fails(p) /\ UNCHANGED valid  BY <1>1, FailsType DEF TypeOK
<1>2. CASE /\ valid' = [valid EXCEPT ![p] = FALSE]
           /\ SetTask(p, k, [IdleTask EXCEPT !.pc = "stopped"]) /\ UNCHANGED <<phase, stage>>
  <2>1. [IdleTask EXCEPT !.pc = "stopped"] \in TaskStates  BY MoveType, BeginType
  <2> QED  BY <1>2, <2>1, SetTaskType DEF TypeOK
<1>3. CASE SetTask(p, k, IdleTask) /\ UNCHANGED <<phase, stage, valid>>
  BY <1>3, SetTaskType, BeginType DEF TypeOK
<1> QED  BY <1>1, <1>2, <1>3 DEF Error

LEMMA ReleasedType ==
  ASSUME TypeOK, NEW p \in Processes, NEW op, Released(p, op)
  PROVE  /\ task' \in [Processes -> [TaskNames -> TaskStates]]
         /\ phase' \in [Processes -> {"off", "acquiring", "up", "closing", "ended"}]
         /\ stage' \in [Processes -> Stages]
         /\ expiry' \in [Processes -> Nat]
<1>1. CASE op = "strict" /\ stage[p] = "held"
  <2>1. Begin("finalize") \in TaskStates /\ "main" \in TaskNames
    BY BeginType DEF Ops, TaskNames
  <2> QED  BY <1>1, <2>1, SetTaskType DEF TypeOK, Released, Stages
<1>2. CASE ~(op = "strict" /\ stage[p] = "held")
  BY ZenonT(60), <1>2, EndsType DEF TypeOK, Released, Stages
<1> QED  BY <1>1, <1>2

LEMMA WriteType ==
  ASSUME TypeOK, NEW p \in Processes, NEW t \in TaskStates, NEW r \in BOOLEAN, Write(p, t, r)
  PROVE  /\ journal' \in Seq(Leases)
         /\ [owner |-> p, expires |-> t.expires, released |-> r] \in Leases
<1>1. [owner |-> p, expires |-> t.expires, released |-> r] \in Leases  BY DEF TaskStates, Leases
<1> QED  BY <1>1 DEF TypeOK, Write

\* Every step keeps the types.
LEMMA NextType ==
  ASSUME TypeOK, [Next]_vars
  PROVE  TypeOK'
<1> USE LeaseAssumptions
<1>m. "main" \in TaskNames /\ "beat" \in TaskNames /\ "check" \in TaskNames  BY DEF TaskNames
<1>c. Current \in Leases \cup {NoLease} /\ Current.expires \in Nat
  BY CurrentType DEF Leases, NoLease
<1>n. now + TTL \in Nat /\ now \in Nat /\ Len(journal) \in Nat  BY DEF TypeOK
<1>1. CASE UNCHANGED vars  BY <1>1 DEF TypeOK, vars
<1>2. CASE Tick  BY <1>2 DEF TypeOK, Tick
<1>3. ASSUME NEW p \in Processes, NEW k \in TaskNames, ReadNext(p, k)  PROVE TypeOK'
  <2>1. task' \in [Processes -> [TaskNames -> TaskStates]]
    BY <1>3, <1>n, TaskType, MoveType, SetTaskType DEF ReadNext
  <2> QED  BY <1>3, <2>1 DEF TypeOK, ReadNext
<1>4. ASSUME NEW p \in Processes, NEW k \in TaskNames, ReadTorn(p, k) \/ StoreFails(p, k)
      PROVE  TypeOK'
  BY <1>4, ErrorType DEF TypeOK, ReadTorn, StoreFails
<1>5. ASSUME NEW p \in Processes, NEW k \in TaskNames, StoreExpiry(p, k)  PROVE TypeOK'
  <2>1. task' \in [Processes -> [TaskNames -> TaskStates]] /\ task[p][k].expires \in Nat
    BY <1>5, TaskType, BeginType, SetTaskType DEF StoreExpiry
  <2> QED  BY <1>5, <2>1 DEF TypeOK, StoreExpiry
<1>6. ASSUME NEW p \in Processes, NEW k \in TaskNames, AppendLost(p, k)  PROVE TypeOK'
  <2>1. CASE Error(p, k)  BY <1>6, <2>1, ErrorType DEF TypeOK, AppendLost
  <2>2. CASE ~Error(p, k)
    <3>1. task' \in [Processes -> [TaskNames -> TaskStates]]
      BY <1>6, <1>n, <2>2, TaskType, MoveType, SetTaskType DEF AppendLost
    <3> QED  BY <1>6, <2>2, <3>1 DEF TypeOK, AppendLost
  <2> QED  BY <2>1, <2>2
<1>7. ASSUME NEW p \in Processes, TryAcquire(p)  PROVE TypeOK'
  <2>1. CASE Fails(p)  BY <1>7, <2>1, FailsType DEF TypeOK, TryAcquire
  <2>2. CASE ~Fails(p)
    <3>1. task' \in [Processes -> [TaskNames -> TaskStates]]
      BY <1>7, <1>m, <1>n, <2>2, TaskType, MoveType, SetTaskType DEF TryAcquire, Extend
    <3> QED  BY <1>7, <2>2, <3>1 DEF TypeOK, TryAcquire
  <2> QED  BY <2>1, <2>2
<1>8. ASSUME NEW p \in Processes, TryRenew(p)  PROVE TypeOK'
  <2>1. CASE Error(p, "beat")  BY <1>8, <1>m, <2>1, ErrorType DEF TypeOK, TryRenew
  <2>2. CASE ~Error(p, "beat")
    <3>1. task' \in [Processes -> [TaskNames -> TaskStates]]
      BY <1>8, <1>m, <1>n, <2>2, TaskType, MoveType, SetTaskType DEF TryRenew, Extend
    <3> QED  BY <1>8, <2>2, <3>1 DEF TypeOK, TryRenew
  <2> QED  BY <2>1, <2>2
<1>9. ASSUME NEW p \in Processes, CheckOwner(p)  PROVE TypeOK'
  <2>1. task' \in [Processes -> [TaskNames -> TaskStates]]
    BY <1>9, <1>m, <1>c, <1>n, TaskType, MoveType, BeginType, SetTaskType DEF CheckOwner
  <2>2. expiry' \in [Processes -> Nat] /\ valid' \in [Processes -> BOOLEAN]
    BY ZenonT(60), <1>9, <1>n DEF TypeOK, CheckOwner
  <2> QED  BY <1>9, <2>1, <2>2 DEF TypeOK, CheckOwner
<1>10. ASSUME NEW p \in Processes, NEW op \in Ops, TryRelease(p, op)  PROVE TypeOK'
  <2>1. CASE Fails(p) /\ UNCHANGED expiry
    BY <1>10, <2>1, FailsType DEF TypeOK, TryRelease
  <2>2. CASE Released(p, op)  BY <1>10, <2>2, ReleasedType DEF TypeOK, TryRelease
  <2>3. CASE /\ SetTask(p, "main", [task[p]["main"] EXCEPT !.pc = "append", !.expires = now])
             /\ UNCHANGED <<phase, stage, expiry>>
    <3>1. task' \in [Processes -> [TaskNames -> TaskStates]]
      BY <1>m, <1>n, <2>3, TaskType, MoveType, SetTaskType
    <3> QED  BY <1>10, <2>3, <3>1 DEF TypeOK, TryRelease
  <2> QED  BY <1>10, <2>1, <2>2, <2>3 DEF TryRelease
<1>11. ASSUME NEW p \in Processes, Acquired(p)  PROVE TypeOK'
  <2>1. task' \in [Processes -> [TaskNames -> TaskStates]] /\ task[p]["main"].expires \in Nat
    BY <1>11, <1>m, TaskType, BeginType, SetTaskType DEF Acquired
  <2>2. journal' \in Seq(Leases)  BY <1>11, <1>m, TaskType, WriteType DEF Acquired
  <2> QED  BY <1>11, <2>1, <2>2 DEF TypeOK, Acquired
<1>12. ASSUME NEW p \in Processes, Renewed(p)  PROVE TypeOK'
  <2>1. task' \in [Processes -> [TaskNames -> TaskStates]]
    BY <1>12, <1>m, <1>n, TaskType, MoveType, SetTaskType DEF Renewed
  <2>2. journal' \in Seq(Leases)  BY <1>12, <1>m, TaskType, WriteType DEF Renewed
  <2> QED  BY <1>12, <2>1, <2>2 DEF TypeOK, Renewed
<1>13. ASSUME NEW p \in Processes, ReleaseWritten(p)  PROVE TypeOK'
  <2>1. journal' \in Seq(Leases)  BY <1>13, <1>m, TaskType, WriteType DEF ReleaseWritten
  <2> QED  BY <1>13, <2>1, ReleasedType DEF TypeOK, ReleaseWritten
<1>14. ASSUME NEW p \in Processes, Open(p) \/ Heartbeat(p) \/ Check(p) \/ DropHeartbeat(p)
       PROVE  TypeOK'
  <2>1. task' \in [Processes -> [TaskNames -> TaskStates]]
    BY <1>14, <1>m, BeginType, SetTaskType DEF Open, Heartbeat, Check, DropHeartbeat, Ops
  <2> QED  BY <1>14, <2>1 DEF TypeOK, Open, Heartbeat, Check, DropHeartbeat
<1>15. ASSUME NEW p \in Processes, Close(p)  PROVE TypeOK'
  <2>1. task' \in [Processes -> [TaskNames -> TaskStates]]
    BY <1>15, <1>m, BeginType, SetTaskType DEF Close, Ops
  <2> QED  BY <1>15, <2>1 DEF TypeOK, Close, Invalidate
<1>16. ASSUME NEW p \in Processes, Capture(p)  PROVE TypeOK'
  BY <1>16, <1>c DEF TypeOK, Capture, NextStage, Stages
<1>17. ASSUME NEW p \in Processes, CloseBackup(p)  PROVE TypeOK'
  <2>1. IdleTask \in TaskStates /\ Begin("strict") \in TaskStates  BY BeginType DEF Ops
  <2>2. task' \in [Processes -> [TaskNames -> TaskStates]]
    BY <1>17, <1>m, <2>1 DEF CloseBackup, TypeOK
  <2> QED  BY <1>17, <2>2 DEF TypeOK, CloseBackup, Invalidate, Stages
<1>18. ASSUME NEW p \in Processes, Crash(p)  PROVE TypeOK'
  <2>1. task' \in [Processes -> [TaskNames -> TaskStates]]
    BY <1>18, BeginType DEF Crash, TypeOK
  <2> QED  BY <1>18, <2>1 DEF TypeOK, Crash, Stages
<1> QED
  BY <1>1, <1>2, <1>3, <1>4, <1>5, <1>6, <1>7, <1>8, <1>9, <1>10, <1>11, <1>12, <1>13,
     <1>14, <1>15, <1>16, <1>17, <1>18 DEF Next, TaskStep, ProcessStep

\* The state of the lease and of its users is well typed.
THEOREM LeaseTypeCorrect == Spec => []TypeOK
<1>1. Init => TypeOK  BY InitType
<1>2. TypeOK /\ [Next]_vars => TypeOK'  BY NextType
<1> QED  BY <1>1, <1>2, PTL DEF Spec

-----------------------------------------------------------------------------
(* The invariant, for what a step leaves alone.                            *)

LEMMA SetTaskAt ==
  ASSUME TypeOK, NEW p \in Processes, NEW k \in TaskNames, NEW t, SetTask(p, k, t)
  PROVE  /\ task'[p][k] = t
         /\ \A q \in Processes, j \in TaskNames : q # p \/ j # k => task'[q][j] = task[q][j]
BY DEF TypeOK, SetTask

\* A task that does not move keeps its invariant when its process loses its
\* validity or leaves the acquisition behind.
LEMMA KeepTask ==
  ASSUME NEW q \in Processes, NEW j \in TaskNames, TaskInv(q, j),
         task'[q][j] = task[q][j], UNCHANGED <<journal, now>>, valid'[q] => valid[q],
         phase'[q] = phase[q] \/ (j # "main" /\ (phase'[q] \in Unborn => phase[q] \in Unborn))
  PROVE  TaskInv(q, j)'
<1>1. Current' = Current  BY DEF Current
<1>2. TaskOps(q, j)'  BY DEF TaskInv, TaskOps
<1>3. Pending(q, task[q][j])'  BY <1>1 DEF TaskInv, Pending
<1>4. (task[q][j].pc = "store" => Backed(q, task[q][j].expires))'
  BY <1>1 DEF TaskInv, Backed
<1> QED  BY <1>2, <1>3, <1>4 DEF TaskInv

\* A task that does not move while another appends: it can no longer land.
LEMMA KeepTaskAppend ==
  ASSUME TypeOK, NEW q \in Processes, NEW j \in TaskNames, TaskInv(q, j),
         task'[q][j] = task[q][j], NEW e \in Leases, journal' = Append(journal, e),
         now' = now, valid'[q] => valid[q],
         phase'[q] = phase[q] \/ (j # "main" /\ phase'[q] \notin Unborn),
         /\ valid[q] /\ Current.owner = q /\ ~Current.released /\ Current.expires > now
         => e.owner = q /\ ~e.released /\ Current.expires <= e.expires
  PROVE  TaskInv(q, j)'
<1>1. Current' = e /\ Len(journal') = Len(journal) + 1 /\ Len(journal) \in Nat
  BY AppendCurrent DEF TypeOK
<1>t. task[q][j].saw \in Nat /\ task[q][j].expires \in Nat /\ now \in Nat
  BY TaskType DEF TypeOK
<1>c. Current.expires \in Nat /\ e.expires \in Nat  BY CurrentType DEF Leases, NoLease
<1>2. TaskOps(q, j)'  BY DEF TaskInv, TaskOps
<1>3. Pending(q, task[q][j])'  BY <1>1, <1>t DEF TaskInv, Pending
<1>4. (task[q][j].pc = "store" => Backed(q, task[q][j].expires))'
  BY <1>1, <1>t, <1>c DEF TaskInv, Backed
<1>5. task'[q][j].saw <= Len(journal')  BY <1>1, <1>t DEF TaskInv
<1> QED  BY <1>2, <1>3, <1>4, <1>5 DEF TaskInv

LEMMA BoundsType ==
  ASSUME TypeOK
  PROVE  Len(journal) \in Nat /\ now + TTL \in Nat /\ now \in Nat /\ TTL \in Nat /\ 0 < TTL
BY LeaseAssumptions DEF TypeOK

LEMMA NextBoundsType ==
  ASSUME TypeOK'
  PROVE  Len(journal') \in Nat /\ now' + TTL \in Nat
<1>1. journal' \in Seq(Leases)  BY DEF TypeOK
<1>2. Len(journal') \in Nat  BY <1>1
<1>3. TTL \in Nat /\ now' \in Nat  BY LeaseAssumptions DEF TypeOK
<1>4. \A a, b \in Nat : a + b \in Nat  OBVIOUS
<1>5. now' + TTL \in Nat  BY <1>3, <1>4
<1> QED  BY <1>2, <1>5

\* A task at rest.
LEMMA RestTask ==
  ASSUME TypeOK', NEW q \in Processes, NEW j \in TaskNames,
         \/ task'[q][j] = IdleTask
         \/ /\ task'[q][j] = [IdleTask EXCEPT !.pc = "stopped"]
            /\ j = "beat" /\ phase'[q] \notin Unborn
  PROVE  TaskInv(q, j)'
<1>1. Len(journal') \in Nat /\ now' + TTL \in Nat  BY NextBoundsType
<1>2. task'[q][j].saw = 0 /\ task'[q][j].expires = 0 /\ task'[q][j].op = "check"
  BY DEF IdleTask
<1>3. task'[q][j].pc = "idle" \/ (task'[q][j].pc = "stopped" /\ j = "beat" /\ phase'[q] \notin Unborn)
  BY DEF IdleTask
<1> QED  BY <1>1, <1>2, <1>3 DEF TaskInv, TaskOps, Pending

\* A task that begins an operation of its own.
LEMMA BeginTask ==
  ASSUME TypeOK', NEW q \in Processes, NEW j \in TaskNames, NEW op,
         task'[q][j] = Begin(op),
         j = "main" => \/ op = "acquire" /\ phase'[q] = "acquiring"
                       \/ op \in Releasing /\ ~valid'[q],
         j = "beat" => op = "renew", j = "check" => op = "check",
         j # "main" => phase'[q] \notin Unborn
  PROVE  TaskInv(q, j)'
<1>1. Len(journal') \in Nat /\ now' + TTL \in Nat  BY NextBoundsType
<1>2. task'[q][j].saw = 0 /\ task'[q][j].expires = 0 /\ task'[q][j].op = op /\ task'[q][j].pc = "tail"
  BY DEF IdleTask, Begin
<1> QED  BY <1>1, <1>2 DEF TaskInv, TaskOps, Pending

LEMMA KeepHandle ==
  ASSUME NEW q \in Processes, HandleInv(q), UNCHANGED <<journal, now>>,
         valid'[q] => valid[q] /\ expiry'[q] = expiry[q],
         phase'[q] \in Unborn => phase[q] \in Unborn
  PROVE  HandleInv(q)'
<1>1. Current' = Current  BY DEF Current
<1> QED  BY <1>1 DEF HandleInv, Backed

LEMMA KeepHandleAppend ==
  ASSUME TypeOK, NEW q \in Processes, HandleInv(q),
         NEW e \in Leases, journal' = Append(journal, e),
         now' = now, valid'[q] => valid[q] /\ expiry'[q] = expiry[q],
         phase'[q] \in Unborn => phase[q] \in Unborn /\ e.owner # q,
         /\ valid[q] /\ Current.owner = q /\ ~Current.released /\ Current.expires > now
         => e.owner = q /\ ~e.released /\ Current.expires <= e.expires
  PROVE  HandleInv(q)'
<1>1. /\ Current' = e /\ Len(journal') = Len(journal) + 1 /\ Len(journal) \in Nat
      /\ \A k \in 1 .. Len(journal) : journal'[k] = journal[k]
      /\ journal'[Len(journal) + 1] = e
  BY AppendCurrent DEF TypeOK
<1>c. Current.expires \in Nat /\ e.expires \in Nat /\ expiry[q] \in Nat /\ now \in Nat
  BY CurrentType DEF Leases, NoLease, TypeOK
<1>2. Backed(q, expiry[q])'  BY <1>1, <1>c DEF HandleInv, Backed
<1>3. phase'[q] \in Unborn =>
        ~valid'[q] /\ \A k \in 1 .. Len(journal') : journal'[k].owner # q
  <2> SUFFICES ASSUME phase'[q] \in Unborn, NEW k \in 1 .. Len(journal')
               PROVE  ~valid'[q] /\ journal'[k].owner # q
    BY <1>1
  <2>1. CASE k \in 1 .. Len(journal)  BY <1>1, <2>1 DEF HandleInv
  <2>2. CASE k = Len(journal) + 1  BY <1>1, <2>2 DEF HandleInv
  <2> QED  BY <1>1, <2>1, <2>2
<1> QED  BY <1>2, <1>3 DEF HandleInv

\* A step of process p that does not append.
LEMMA ProcessStepInv ==
  ASSUME TypeOK, LeaseInv, NEW p \in Processes, UNCHANGED <<journal, now>>,
         \A q \in Processes \ {p} :
           /\ valid'[q] = valid[q] /\ expiry'[q] = expiry[q] /\ phase'[q] = phase[q]
           /\ \A j \in TaskNames : task'[q][j] = task[q][j],
         HandleInv(p)', \A j \in TaskNames : TaskInv(p, j)'
  PROVE  LeaseInv'
<1>1. (Current.expires <= now + TTL)'  BY DEF LeaseInv, Current
<1>2. ASSUME NEW q \in Processes \ {p}  PROVE HandleInv(q)' /\ \A j \in TaskNames : TaskInv(q, j)'
  <2>1. HandleInv(q)'  BY KeepHandle DEF LeaseInv
  <2>2. ASSUME NEW j \in TaskNames  PROVE TaskInv(q, j)'  BY KeepTask DEF LeaseInv
  <2> QED  BY <2>1, <2>2
<1> QED  BY <1>1, <1>2 DEF LeaseInv

\* A step that moves one task and nothing else.
LEMMA OneTask ==
  ASSUME TypeOK, LeaseInv, NEW p \in Processes, NEW k \in TaskNames, NEW t, SetTask(p, k, t),
         UNCHANGED <<journal, now, phase, valid, expiry>>, TaskInv(p, k)'
  PROVE  LeaseInv'
<1>1. \A q \in Processes, j \in TaskNames : q # p \/ j # k => task'[q][j] = task[q][j]
  BY SetTaskAt
<1>2. HandleInv(p)'  BY KeepHandle DEF LeaseInv
<1>3. ASSUME NEW j \in TaskNames  PROVE TaskInv(p, j)'
  <2>1. CASE j = k  BY <2>1
  <2>2. CASE j # k  BY <1>1, <2>2, KeepTask DEF LeaseInv
  <2> QED  BY <2>1, <2>2
<1> QED  BY <1>1, <1>2, <1>3, ProcessStepInv

\* A step that moves one task on within its operation.
LEMMA MoveTask ==
  ASSUME TypeOK, LeaseInv, NEW p \in Processes, NEW k \in TaskNames, NEW t, SetTask(p, k, t),
         UNCHANGED <<journal, now, phase, valid, expiry>>,
         t.op = task[p][k].op, task[p][k].pc \notin {"idle", "stopped"},
         t.pc \in {"tail", "range"} \/ (t.pc = "append" /\ k # "check") \/ (t.pc = "store" /\ k = "check"),
         t.saw <= Len(journal), t.expires <= now + TTL,
         t.pc = "store" => Backed(p, t.expires), Pending(p, t)
  PROVE  LeaseInv'
<1>1. task'[p][k] = t  BY SetTaskAt
<1>2. Current' = Current  BY DEF Current
<1>3. TaskInv(p, k)  BY DEF LeaseInv
<1>4. TaskOps(p, k)'  BY <1>1, <1>3 DEF TaskInv, TaskOps
<1>5. Pending(p, t)' /\ (t.pc = "store" => Backed(p, t.expires)')  BY <1>2 DEF Pending, Backed
<1>6. TaskInv(p, k)'  BY <1>1, <1>4, <1>5 DEF TaskInv
<1> QED  BY <1>6, OneTask

\* The main task and the process end.
LEMMA EndsInv ==
  ASSUME TypeOK, TypeOK', LeaseInv, NEW p \in Processes, Ends(p),
         UNCHANGED <<journal, now, valid, expiry>>
  PROVE  LeaseInv'
<1>1. /\ task'[p]["main"] = IdleTask /\ phase'[p] = "ended"
      /\ \A j \in TaskNames : j # "main" => task'[p][j] = task[p][j]
      /\ \A q \in Processes \ {p} : phase'[q] = phase[q] /\ \A j \in TaskNames : task'[q][j] = task[q][j]
  BY DEF TypeOK, Ends, TaskNames
<1>2. HandleInv(p)'  BY <1>1, KeepHandle DEF LeaseInv, Unborn
<1>3. ASSUME NEW j \in TaskNames  PROVE TaskInv(p, j)'
  <2>1. CASE j = "main"  BY <1>1, <2>1, RestTask
  <2>2. CASE j # "main"  BY <1>1, <2>2, KeepTask DEF LeaseInv, Unborn
  <2> QED  BY <2>1, <2>2
<1> QED  BY <1>1, <1>2, <1>3, ProcessStepInv

\* A task that is under way fails.
LEMMA ErrorInv ==
  ASSUME TypeOK, TypeOK', LeaseInv, NEW p \in Processes, NEW k \in TaskNames, Error(p, k),
         task[p][k].pc \notin {"idle", "stopped"}, UNCHANGED <<journal, now, expiry>>
  PROVE  LeaseInv'
<1>t. TaskInv(p, k) /\ HandleInv(p)  BY DEF LeaseInv
<1>1. CASE Fails(p) /\ UNCHANGED valid  BY <1>1, EndsInv DEF Fails
<1>2. CASE /\ task[p][k].op = "renew" /\ valid' = [valid EXCEPT ![p] = FALSE]
           /\ SetTask(p, k, [IdleTask EXCEPT !.pc = "stopped"]) /\ UNCHANGED <<phase, stage>>
  <2>1. k = "beat" /\ phase[p] \notin Unborn
    BY <1>t, <1>2 DEF TaskInv, TaskOps, TaskNames, Releasing
  <2>2. /\ task'[p][k] = [IdleTask EXCEPT !.pc = "stopped"]
        /\ \A q \in Processes, j \in TaskNames : q # p \/ j # k => task'[q][j] = task[q][j]
    BY <1>2, SetTaskAt
  <2>3. ~valid'[p] /\ \A q \in Processes \ {p} : valid'[q] = valid[q]
    BY <1>2 DEF TypeOK
  <2>4. HandleInv(p)'  BY <1>t, <1>2, <2>3, KeepHandle
  <2>5. ASSUME NEW j \in TaskNames  PROVE TaskInv(p, j)'
    <3>1. CASE j = k  BY <1>2, <2>1, <2>2, <3>1, RestTask
    <3>2. CASE j # k  BY <1>2, <2>2, <2>3, <3>2, KeepTask DEF LeaseInv
    <3> QED  BY <3>1, <3>2
  <2> QED  BY <1>2, <2>2, <2>3, <2>4, <2>5, ProcessStepInv
<1>3. CASE SetTask(p, k, IdleTask) /\ UNCHANGED <<phase, stage, valid>>
  <2>1. task'[p][k] = IdleTask  BY <1>3, SetTaskAt
  <2>2. TaskInv(p, k)'  BY <2>1, RestTask
  <2> QED  BY <1>3, <2>2, OneTask
<1> QED  BY <1>1, <1>2, <1>3 DEF Error

\* A release that is done, with no append.
LEMMA ReleasedInv ==
  ASSUME TypeOK, TypeOK', LeaseInv, NEW p \in Processes, NEW op, Released(p, op), ~valid[p],
         UNCHANGED <<journal, now, valid>>
  PROVE  LeaseInv'
<1>m. "main" \in TaskNames  BY DEF TaskNames
<1>1. CASE op = "strict" /\ stage[p] = "held"
  <2>1. /\ SetTask(p, "main", Begin("finalize")) /\ UNCHANGED phase
        /\ \A q \in Processes \ {p} : expiry'[q] = expiry[q]
    BY <1>1 DEF TypeOK, Released
  <2>2. /\ task'[p]["main"] = Begin("finalize")
        /\ \A q \in Processes, j \in TaskNames : q # p \/ j # "main" => task'[q][j] = task[q][j]
    BY <1>m, <2>1, SetTaskAt
  <2>3. HandleInv(p)'  BY <2>1, KeepHandle DEF LeaseInv
  <2>4. TaskInv(p, "main")'
    <3>1. "finalize" \in Releasing /\ ~valid'[p]  BY DEF Releasing
    <3> QED  BY <1>m, <2>2, <3>1, BeginTask
  <2>5. ASSUME NEW j \in TaskNames, j # "main"  PROVE TaskInv(p, j)'
    BY <2>1, <2>2, <2>5, KeepTask DEF LeaseInv
  <2> QED  BY <2>1, <2>2, <2>3, <2>4, <2>5, ProcessStepInv
<1>2. CASE ~(op = "strict" /\ stage[p] = "held")  BY <1>2, EndsInv DEF Released
<1> QED  BY <1>1, <1>2

-----------------------------------------------------------------------------
(* Every step keeps the invariant, one lemma per group of actions.         *)

LEMMA InitInv == Init => LeaseInv
<1> SUFFICES ASSUME Init  PROVE LeaseInv
  OBVIOUS
<1>1. Current = NoLease /\ Len(journal) = 0 /\ now = 0  BY DEF Init, Current
<1>2. 0 <= now + TTL /\ Current.expires <= now + TTL  BY <1>1, LeaseAssumptions DEF NoLease
<1>3. ASSUME NEW p \in Processes  PROVE HandleInv(p)
  BY <1>1 DEF Init, HandleInv, Backed
<1>4. ASSUME NEW p \in Processes, NEW k \in TaskNames  PROVE TaskInv(p, k)
  <2>1. task[p][k] = IdleTask  BY DEF Init
  <2>2. /\ IdleTask.pc = "idle" /\ IdleTask.op = "check"
        /\ IdleTask.saw = 0 /\ IdleTask.expires = 0
    BY DEF IdleTask
  <2> QED  BY <1>1, <1>2, <2>1, <2>2 DEF TaskInv, TaskOps, Pending
<1> QED  BY <1>2, <1>3, <1>4 DEF LeaseInv

LEMMA TickInv ==
  ASSUME TypeOK, LeaseInv, Tick
  PROVE  LeaseInv'
<1>1. now \in Nat /\ TTL \in Nat /\ Current.expires \in Nat
  BY BoundsType, CurrentType DEF Leases, NoLease
<1>2. Current' = Current /\ now' = now + 1 /\ UNCHANGED <<journal, phase, valid, expiry, task>>
  BY DEF Tick, Current
<1>3. (Current.expires <= now + TTL)'  BY <1>1, <1>2 DEF LeaseInv
<1>4. ASSUME NEW p \in Processes, NEW e \in Nat, Backed(p, e)  PROVE Backed(p, e)'
  BY <1>1, <1>2, <1>4 DEF Backed
<1>5. ASSUME NEW p \in Processes  PROVE HandleInv(p)'
  <2>1. expiry[p] \in Nat  BY DEF TypeOK
  <2> QED  BY <1>2, <1>4, <2>1 DEF LeaseInv, HandleInv
<1>6. ASSUME NEW p \in Processes, NEW k \in TaskNames  PROVE TaskInv(p, k)'
  <2>1. TaskInv(p, k) /\ task[p][k].expires \in Nat  BY TaskType DEF LeaseInv
  <2>2. TaskOps(p, k)'  BY <1>2, <2>1 DEF TaskInv, TaskOps
  <2>3. Pending(p, task[p][k])'  BY <1>2, <2>1 DEF TaskInv, Pending
  <2>4. (task[p][k].pc = "store" => Backed(p, task[p][k].expires))'
    BY <1>2, <1>4, <2>1 DEF TaskInv
  <2>5. (task[p][k].expires <= now + TTL)'  BY <1>1, <1>2, <2>1 DEF TaskInv
  <2> QED  BY <1>2, <2>1, <2>2, <2>3, <2>4, <2>5 DEF TaskInv
<1> QED  BY <1>3, <1>5, <1>6 DEF LeaseInv

\* The reads, and the decisions taken on them.
LEMMA ReadNextInv ==
  ASSUME TypeOK, LeaseInv, NEW p \in Processes, NEW k \in TaskNames, ReadNext(p, k)
  PROVE  LeaseInv'
<1>t. TaskInv(p, k) /\ task[p][k] \in TaskStates  BY TaskType DEF LeaseInv
<1>b. Len(journal) \in Nat /\ now + TTL \in Nat  BY BoundsType
<1>1. ASSUME journal # <<>>, NEW t, t = [task[p][k] EXCEPT !.pc = "range", !.saw = Len(journal)],
             SetTask(p, k, t)
      PROVE  LeaseInv'
  <2>1. /\ t.pc = "range" /\ t.op = task[p][k].op /\ t.saw = Len(journal)
        /\ t.expires = task[p][k].expires
    BY <1>t, <1>1 DEF TaskStates
  <2>2. Pending(p, t)  BY <2>1 DEF Pending
  <2>3. t.saw <= Len(journal) /\ t.expires <= now + TTL  BY <1>t, <1>b, <2>1 DEF TaskInv
  <2> QED  BY <1>1, <2>1, <2>2, <2>3, MoveTask DEF ReadNext
<1>2. ASSUME journal = <<>>, task[p][k].op = "acquire",
             NEW t, t = [task[p][k] EXCEPT !.pc = "append", !.saw = 0, !.expires = now + TTL],
             SetTask(p, k, t)
      PROVE  LeaseInv'
  <2>1. /\ t.pc = "append" /\ t.op = "acquire" /\ t.saw = 0 /\ t.expires = now + TTL
    BY <1>t, <1>2 DEF TaskStates
  <2>2. Pending(p, t)  BY <1>2, <2>1 DEF Pending, Current, NoLease
  <2>3. t.saw <= Len(journal) /\ t.expires <= now + TTL  BY <1>b, <2>1
  <2>4. k # "check"  BY <1>t, <1>2 DEF TaskInv, TaskOps
  <2> QED  BY <1>2, <2>1, <2>2, <2>3, <2>4, MoveTask DEF ReadNext
<1> QED  BY <1>1, <1>2 DEF ReadNext

\* The append that a decision prepares, when the last event justifies it.
LEMMA PrepareInv ==
  ASSUME TypeOK, LeaseInv, NEW p \in Processes, NEW k \in TaskNames, k # "check",
         NEW e \in Nat, SetTask(p, k, [task[p][k] EXCEPT !.pc = "append", !.expires = e]),
         UNCHANGED <<journal, now, phase, valid, expiry>>,
         task[p][k].pc = "range", e <= now + TTL,
         Pending(p, [task[p][k] EXCEPT !.pc = "append", !.expires = e])
  PROVE  LeaseInv'
<1> DEFINE t == [task[p][k] EXCEPT !.pc = "append", !.expires = e]
<1>t. TaskInv(p, k) /\ task[p][k] \in TaskStates  BY TaskType DEF LeaseInv
<1>1. t.pc = "append" /\ t.op = task[p][k].op /\ t.saw = task[p][k].saw /\ t.expires = e
  BY <1>t DEF TaskStates
<1>2. t.saw <= Len(journal)  BY <1>t, <1>1 DEF TaskInv
<1> HIDE DEF t
<1> QED  BY <1>1, <1>2, MoveTask DEF t

LEMMA TryAcquireInv ==
  ASSUME TypeOK, TypeOK', LeaseInv, NEW p \in Processes, TryAcquire(p)
  PROVE  LeaseInv'
<1>m. "main" \in TaskNames /\ task[p]["main"] \in TaskStates  BY TaskType DEF TaskNames
<1>b. now \in Nat /\ TTL \in Nat /\ now + TTL \in Nat /\ Current.expires \in Nat
  BY BoundsType, CurrentType DEF Leases, NoLease
<1>1. CASE Fails(p)  BY <1>1, EndsInv DEF TryAcquire, Fails
<1>2. CASE ~Live(Current) /\ Extend(p, "main") /\ UNCHANGED <<phase, stage>>
  <2>1. task[p]["main"].op = "acquire" /\ task[p]["main"].pc = "range"
    BY DEF TryAcquire, ReadTail
  <2>2. Current.released \/ Current.expires + TTL <= now + TTL  BY <1>2, <1>b DEF Live
  <2>3. Pending(p, [task[p]["main"] EXCEPT !.pc = "append", !.expires = now + TTL])
    BY <1>m, <2>1, <2>2 DEF Pending, TaskStates
  <2>4. now + TTL <= now + TTL  BY <1>b
  <2> QED  BY <1>2, <1>m, <1>b, <2>1, <2>3, <2>4, PrepareInv DEF TryAcquire, Extend
<1> QED  BY <1>1, <1>2 DEF TryAcquire

LEMMA TryRenewInv ==
  ASSUME TypeOK, TypeOK', LeaseInv, NEW p \in Processes, TryRenew(p)
  PROVE  LeaseInv'
<1>m. "beat" \in TaskNames /\ task[p]["beat"] \in TaskStates  BY TaskType DEF TaskNames
<1>b. now \in Nat /\ TTL \in Nat /\ now + TTL \in Nat /\ Current.expires \in Nat
  BY BoundsType, CurrentType DEF Leases, NoLease
<1>1. task[p]["beat"].op = "renew" /\ task[p]["beat"].pc = "range"
  BY DEF TryRenew, ReadTail
<1>2. CASE Error(p, "beat")  BY <1>m, <1>1, <1>2, ErrorInv DEF TryRenew
<1>3. CASE Renewable(p, Current) /\ Extend(p, "beat") /\ UNCHANGED <<valid, phase, stage>>
  <2>2. Current.owner = p /\ ~Current.released /\ Current.expires <= now + TTL
    BY <1>3 DEF Renewable, LeaseInv
  <2>3. Pending(p, [task[p]["beat"] EXCEPT !.pc = "append", !.expires = now + TTL])
    BY <1>m, <1>1, <2>2 DEF Pending, TaskStates
  <2>4. now + TTL <= now + TTL  BY <1>b
  <2> QED  BY <1>3, <1>m, <1>b, <1>1, <2>3, <2>4, PrepareInv DEF TryRenew, Extend
<1> QED  BY <1>2, <1>3 DEF TryRenew

LEMMA TryReleaseInv ==
  ASSUME TypeOK, TypeOK', LeaseInv, NEW p \in Processes, NEW op \in Ops, TryRelease(p, op)
  PROVE  LeaseInv'
<1>m. "main" \in TaskNames /\ task[p]["main"] \in TaskStates  BY TaskType DEF TaskNames
<1>b. now \in Nat /\ TTL \in Nat  BY BoundsType
<1>1. task[p]["main"].op = op /\ op \in Releasing /\ op # "acquire" /\ op # "renew"
      /\ task[p]["main"].pc = "range"
  BY DEF TryRelease, ReadTail, Releasing
<1>2. ~valid[p]  BY <1>m, <1>1 DEF LeaseInv, TaskInv, TaskOps, Releasing
<1>3. CASE Fails(p) /\ UNCHANGED expiry  BY <1>3, EndsInv DEF TryRelease, Fails
<1>4. CASE Released(p, op)  BY <1>2, <1>4, ReleasedInv DEF TryRelease
<1>5. CASE /\ Current.owner = p /\ ~Current.released
           /\ SetTask(p, "main", [task[p]["main"] EXCEPT !.pc = "append", !.expires = now])
           /\ UNCHANGED <<phase, stage, expiry>>
  <2>1. Pending(p, [task[p]["main"] EXCEPT !.pc = "append", !.expires = now])
    BY <1>m, <1>1, <1>5 DEF Pending, TaskStates
  <2>2. now <= now + TTL  BY <1>b
  <2> QED  BY <1>5, <1>m, <1>b, <1>1, <2>1, <2>2, PrepareInv DEF TryRelease
<1> QED  BY <1>3, <1>4, <1>5 DEF TryRelease

LEMMA CheckOwnerInv ==
  ASSUME TypeOK, TypeOK', LeaseInv, NEW p \in Processes, CheckOwner(p)
  PROVE  LeaseInv'
<1>m. "check" \in TaskNames /\ task[p]["check"] \in TaskStates  BY TaskType DEF TaskNames
<1>b. now \in Nat /\ TTL \in Nat /\ Current.expires \in Nat
  BY BoundsType, CurrentType DEF Leases, NoLease
<1>1. task[p]["check"].pc = "range"  BY DEF CheckOwner, ReadTail
<1>2. ASSUME Current.owner = p, Live(Current), UNCHANGED <<valid, expiry>>,
             NEW t, t = [task[p]["check"] EXCEPT !.pc = "store", !.expires = Current.expires],
             SetTask(p, "check", t)
      PROVE  LeaseInv'
  <2>1. /\ t.pc = "store" /\ t.op = task[p]["check"].op /\ t.saw = task[p]["check"].saw
        /\ t.expires = Current.expires
    BY <1>m, <1>2 DEF TaskStates
  <2>2. Pending(p, t)  BY <2>1 DEF Pending
  <2>3. Backed(p, t.expires)  BY <1>2, <1>b, <2>1 DEF Backed, Live
  <2>4. t.saw <= Len(journal)  BY <1>m, <2>1 DEF LeaseInv, TaskInv
  <2>5. t.expires <= now + TTL  BY <2>1 DEF LeaseInv
  <2> QED  BY <1>m, <1>1, <1>2, <2>1, <2>2, <2>3, <2>4, <2>5, MoveTask DEF CheckOwner
<1>3. ASSUME valid' = [valid EXCEPT ![p] = FALSE], expiry' = [expiry EXCEPT ![p] = now],
             SetTask(p, "check", IdleTask)
      PROVE  LeaseInv'
  <2>1. /\ task'[p]["check"] = IdleTask
        /\ \A q \in Processes, j \in TaskNames : q # p \/ j # "check" => task'[q][j] = task[q][j]
    BY <1>m, <1>3, SetTaskAt
  <2>2. /\ ~valid'[p] /\ UNCHANGED <<journal, now, phase>>
        /\ \A q \in Processes \ {p} : valid'[q] = valid[q] /\ expiry'[q] = expiry[q]
    BY <1>3 DEF TypeOK, CheckOwner
  <2>3. HandleInv(p)'  BY <2>2, KeepHandle DEF LeaseInv
  <2>4. TaskInv(p, "check")'  BY <1>m, <2>1, RestTask
  <2>5. ASSUME NEW j \in TaskNames, j # "check"  PROVE TaskInv(p, j)'
    BY <2>1, <2>2, <2>5, KeepTask DEF LeaseInv
  <2> QED  BY <2>1, <2>2, <2>3, <2>4, <2>5, ProcessStepInv
<1> QED  BY <1>2, <1>3 DEF CheckOwner

LEMMA StoreExpiryInv ==
  ASSUME TypeOK, TypeOK', LeaseInv, NEW p \in Processes, NEW k \in TaskNames, StoreExpiry(p, k)
  PROVE  LeaseInv'
<1>1. /\ task'[p][k] = IdleTask
      /\ \A q \in Processes, j \in TaskNames : q # p \/ j # k => task'[q][j] = task[q][j]
  BY SetTaskAt DEF StoreExpiry
<1>2. /\ expiry'[p] = task[p][k].expires /\ UNCHANGED <<journal, now, phase, valid>>
      /\ \A q \in Processes \ {p} : expiry'[q] = expiry[q]
  BY DEF TypeOK, StoreExpiry
<1>3. HandleInv(p)'
  <2>1. Backed(p, task[p][k].expires) /\ HandleInv(p)  BY DEF LeaseInv, TaskInv, StoreExpiry
  <2>2. Current' = Current  BY <1>2 DEF Current
  <2> QED  BY <1>2, <2>1, <2>2 DEF HandleInv, Backed
<1>4. TaskInv(p, k)'  BY <1>1, RestTask
<1>5. ASSUME NEW j \in TaskNames, j # k  PROVE TaskInv(p, j)'
  BY <1>1, <1>2, <1>5, KeepTask DEF LeaseInv
<1> QED  BY <1>1, <1>2, <1>3, <1>4, <1>5, ProcessStepInv

LEMMA AppendLostInv ==
  ASSUME TypeOK, TypeOK', LeaseInv, NEW p \in Processes, NEW k \in TaskNames, AppendLost(p, k)
  PROVE  LeaseInv'
<1>t. TaskInv(p, k) /\ task[p][k] \in TaskStates  BY TaskType DEF LeaseInv
<1>1. task[p][k].pc = "append"  BY DEF AppendLost
<1>2. CASE Error(p, k)  BY <1>1, <1>2, ErrorInv DEF AppendLost
<1>3. ASSUME NEW t, t = [task[p][k] EXCEPT !.pc = "tail", !.tries = @ + 1], SetTask(p, k, t),
             UNCHANGED <<phase, valid, stage>>
      PROVE  LeaseInv'
  <2>1. /\ t.pc = "tail" /\ t.op = task[p][k].op /\ t.saw = task[p][k].saw
        /\ t.expires = task[p][k].expires
    BY <1>t, <1>3 DEF TaskStates
  <2>2. Pending(p, t)  BY <2>1 DEF Pending
  <2>3. t.saw <= Len(journal) /\ t.expires <= now + TTL  BY <1>t, <2>1 DEF TaskInv
  <2> QED  BY <1>1, <1>3, <2>1, <2>2, <2>3, MoveTask DEF AppendLost
<1> QED  BY <1>2, <1>3 DEF AppendLost

-----------------------------------------------------------------------------
(* The appends.                                                            *)

\* A step of process p that appends e: the tasks and the handles of the others
\* hold if the lease they rely on, if any, is extended and not ended.
LEMMA AppendStepInv ==
  ASSUME TypeOK, LeaseInv, NEW p \in Processes, NEW e \in Leases, journal' = Append(journal, e),
         now' = now, e.owner = p, e.expires <= now + TTL,
         \A q \in Processes \ {p} :
           /\ valid'[q] = valid[q] /\ expiry'[q] = expiry[q] /\ phase'[q] = phase[q]
           /\ \A j \in TaskNames : task'[q][j] = task[q][j],
         Current.owner = p \/ Current.released \/ Current.expires <= now,
         HandleInv(p)', \A j \in TaskNames : TaskInv(p, j)'
  PROVE  LeaseInv'
<1>1. (Current.expires <= now + TTL)'  BY AppendCurrent
<1>c. Current.expires \in Nat /\ now \in Nat  BY CurrentType DEF Leases, NoLease, TypeOK
<1>2. ASSUME NEW q \in Processes \ {p}  PROVE HandleInv(q)' /\ \A j \in TaskNames : TaskInv(q, j)'
  <2>0. ~(Current.owner = q /\ ~Current.released /\ Current.expires > now)  BY <1>c
  <2>1. HandleInv(q)'  BY <2>0, KeepHandleAppend DEF LeaseInv
  <2>2. ASSUME NEW j \in TaskNames  PROVE TaskInv(q, j)'  BY <2>0, KeepTaskAppend DEF LeaseInv
  <2> QED  BY <2>1, <2>2
<1> QED  BY <1>1, <1>2 DEF LeaseInv

LEMMA AcquiredInv ==
  ASSUME TypeOK, TypeOK', LeaseInv, NEW p \in Processes, Acquired(p)
  PROVE  LeaseInv'
<1> DEFINE t == task[p]["main"]
           e == [owner |-> p, expires |-> t.expires, released |-> FALSE]
<1>m. "main" \in TaskNames  BY DEF TaskNames
<1>t. t \in TaskStates /\ TaskInv(p, "main") /\ HandleInv(p)  BY <1>m, TaskType DEF LeaseInv
<1>1. t.pc = "append" /\ t.op = "acquire" /\ t.saw = Len(journal) /\ journal' = Append(journal, e)
  BY DEF Acquired, Write, Lands
<1>2. e \in Leases /\ e.owner = p /\ e.expires = t.expires /\ ~e.released
  BY <1>t DEF Leases, TaskStates
<1>3. phase[p] = "acquiring"  BY <1>t, <1>1 DEF TaskInv, TaskOps, Releasing
<1>b. now \in Nat /\ TTL \in Nat /\ Current.expires \in Nat /\ t.expires \in Nat
      /\ Len(journal) \in Nat
  BY <1>t, BoundsType, CurrentType DEF Leases, NoLease, TaskStates
<1>4. t.expires <= now + TTL  BY <1>t DEF TaskInv
<1>5. Current.released \/ Current.expires + TTL <= t.expires  BY <1>t, <1>1 DEF TaskInv, Pending
<1>6. Current.released \/ Current.expires <= now  BY <1>b, <1>4, <1>5
<1>7. Current' = e /\ Len(journal') = Len(journal) + 1  BY <1>1, <1>2, AppendCurrent
<1>8. /\ task'[p]["main"] = IdleTask
      /\ \A q \in Processes, j \in TaskNames : q # p \/ j # "main" => task'[q][j] = task[q][j]
  BY <1>m, SetTaskAt DEF Acquired
<1>9. /\ now' = now /\ phase'[p] = "up" /\ expiry'[p] = t.expires
      /\ \A q \in Processes \ {p} :
           valid'[q] = valid[q] /\ expiry'[q] = expiry[q] /\ phase'[q] = phase[q]
  BY DEF TypeOK, Acquired
<1> HIDE DEF e
<1>10. HandleInv(p)'  BY <1>2, <1>7, <1>9, <1>b DEF HandleInv, Backed, Unborn
<1>11. TaskInv(p, "main")'  BY <1>m, <1>8, RestTask
<1>12. ASSUME NEW j \in TaskNames, j # "main"  PROVE TaskInv(p, j)'
  <2>1. TaskInv(p, j) /\ task[p][j].pc = "idle" /\ task'[p][j] = task[p][j] /\ task[p][j].saw \in Nat
    BY <1>3, <1>8, <1>12, TaskType DEF LeaseInv, TaskInv, TaskOps, Unborn
  <2>2. TaskOps(p, j)'  BY <1>12, <2>1 DEF TaskInv, TaskOps
  <2>3. task[p][j].saw <= Len(journal') /\ task[p][j].expires <= now'  + TTL
    BY <1>7, <1>9, <1>b, <2>1 DEF TaskInv
  <2> QED  BY <2>1, <2>2, <2>3 DEF TaskInv, Pending
<1> HIDE DEF t
<1> QED  BY <1>1, <1>2, <1>4, <1>6, <1>8, <1>9, <1>10, <1>11, <1>12, AppendStepInv

LEMMA RenewedInv ==
  ASSUME TypeOK, TypeOK', LeaseInv, NEW p \in Processes, Renewed(p)
  PROVE  LeaseInv'
<1> DEFINE t == task[p]["beat"]
           e == [owner |-> p, expires |-> t.expires, released |-> FALSE]
<1>m. "beat" \in TaskNames  BY DEF TaskNames
<1>t. t \in TaskStates /\ TaskInv(p, "beat") /\ HandleInv(p)  BY <1>m, TaskType DEF LeaseInv
<1>1. t.pc = "append" /\ t.saw = Len(journal) /\ journal' = Append(journal, e)
  BY DEF Renewed, Write, Lands
<1>2. e \in Leases /\ e.owner = p /\ e.expires = t.expires /\ ~e.released
  BY <1>t DEF Leases, TaskStates
<1>3. t.op = "renew" /\ phase[p] \notin Unborn  BY <1>t, <1>1 DEF TaskInv, TaskOps
<1>4. t.expires <= now + TTL  BY <1>t DEF TaskInv
<1>5. Current.owner = p /\ ~Current.released /\ Current.expires <= t.expires
  BY <1>t, <1>1, <1>3 DEF TaskInv, Pending
<1>b. now \in Nat /\ TTL \in Nat /\ t.expires \in Nat /\ Len(journal) \in Nat
  BY <1>t, BoundsType DEF TaskStates
<1>7. Current' = e /\ Len(journal') = Len(journal) + 1  BY <1>1, <1>2, AppendCurrent
<1>8. /\ task'[p]["beat"] = [t EXCEPT !.pc = "store"]
      /\ \A q \in Processes, j \in TaskNames : q # p \/ j # "beat" => task'[q][j] = task[q][j]
  BY <1>m, SetTaskAt DEF Renewed
<1>9. UNCHANGED <<now, phase, valid, expiry>>  BY DEF Renewed
<1> HIDE DEF e
<1>10. HandleInv(p)'  BY <1>t, <1>1, <1>2, <1>3, <1>5, <1>9, KeepHandleAppend
<1>11. TaskInv(p, "beat")'
  <2>1. /\ task'[p]["beat"].pc = "store" /\ task'[p]["beat"].op = "renew"
        /\ task'[p]["beat"].saw = t.saw /\ task'[p]["beat"].expires = t.expires
    BY <1>t, <1>3, <1>8 DEF TaskStates
  <2>2. TaskOps(p, "beat")'  BY <1>3, <1>9, <2>1 DEF TaskOps
  <2>3. Backed(p, task[p]["beat"].expires)'  BY <1>2, <1>7, <1>b, <2>1 DEF Backed
  <2>4. task'[p]["beat"].saw <= Len(journal')  BY <1>1, <1>7, <1>b, <2>1
  <2> QED  BY <1>4, <1>9, <2>1, <2>2, <2>3, <2>4 DEF TaskInv, Pending
<1> HIDE DEF t
<1>12. ASSUME NEW j \in TaskNames, j # "beat"  PROVE TaskInv(p, j)'
  BY <1>1, <1>2, <1>5, <1>8, <1>9, <1>12, KeepTaskAppend DEF LeaseInv
<1> QED  BY <1>1, <1>2, <1>4, <1>5, <1>8, <1>9, <1>10, <1>11, <1>12, AppendStepInv

LEMMA ReleaseWrittenInv ==
  ASSUME TypeOK, TypeOK', LeaseInv, NEW p \in Processes, ReleaseWritten(p)
  PROVE  LeaseInv'
<1> DEFINE t == task[p]["main"]
           e == [owner |-> p, expires |-> t.expires, released |-> TRUE]
<1>m. "main" \in TaskNames  BY DEF TaskNames
<1>t. t \in TaskStates /\ TaskInv(p, "main") /\ HandleInv(p)  BY <1>m, TaskType DEF LeaseInv
<1>1. /\ t.pc = "append" /\ t.op # "acquire" /\ t.saw = Len(journal) /\ Released(p, t.op)
      /\ journal' = Append(journal, e) /\ UNCHANGED <<now, valid>>
  BY DEF ReleaseWritten, Write, Lands
<1>2. e \in Leases /\ e.owner = p /\ e.expires = t.expires
  BY <1>t DEF Leases, TaskStates
<1>3. ~valid[p]  BY <1>t, <1>1 DEF TaskInv, TaskOps
<1>4. t.expires <= now + TTL  BY <1>t DEF TaskInv
<1>5. Current.owner = p  BY <1>t, <1>1 DEF TaskInv, Pending
<1>6. phase[p] \notin Unborn
  <2>1. journal # <<>>  BY <1>5, LeaseAssumptions DEF Current, NoLease
  <2>2. Len(journal) \in 1 .. Len(journal)  BY <2>1 DEF TypeOK
  <2> QED  BY <1>t, <1>5, <2>1, <2>2 DEF HandleInv, Current
<1>7. /\ phase'[p] \notin Unborn
      /\ \A j \in TaskNames : j # "main" => task'[p][j] = task[p][j]
      /\ \A q \in Processes \ {p} :
           /\ phase'[q] = phase[q] /\ expiry'[q] = expiry[q]
           /\ \A j \in TaskNames : task'[q][j] = task[q][j]
  BY <1>1, <1>6 DEF TypeOK, Released, Ends, SetTask, Unborn, TaskNames
<1>8. task'[p]["main"] = IdleTask \/ task'[p]["main"] = Begin("finalize")
  BY <1>1, <1>m DEF TypeOK, Released, Ends, SetTask
<1> HIDE DEF e
<1>9. HandleInv(p)'  BY <1>t, <1>1, <1>2, <1>3, <1>7, KeepHandleAppend
<1>10. TaskInv(p, "main")'
  <2>1. CASE task'[p]["main"] = IdleTask  BY <1>m, <2>1, RestTask
  <2>2. CASE task'[p]["main"] = Begin("finalize")
    <3>1. "finalize" \in Releasing /\ ~valid'[p]  BY <1>1, <1>3 DEF Releasing
    <3> QED  BY <1>m, <2>2, <3>1, BeginTask
  <2> QED  BY <1>8, <2>1, <2>2
<1>11. ASSUME NEW j \in TaskNames, j # "main"  PROVE TaskInv(p, j)'
  <2>1. TaskInv(p, j)  BY DEF LeaseInv
  <2> QED  BY <1>1, <1>2, <1>3, <1>7, <1>11, <2>1, KeepTaskAppend
<1> HIDE DEF t
<1> QED  BY <1>1, <1>2, <1>4, <1>5, <1>7, <1>9, <1>10, <1>11, AppendStepInv

-----------------------------------------------------------------------------
(* The processes.                                                          *)

\* The main task begins an operation while the handle loses its validity or
\* keeps it.
LEMMA BeginMainInv ==
  ASSUME TypeOK, TypeOK', LeaseInv, NEW p \in Processes, Open(p) \/ Close(p)
  PROVE  LeaseInv'
<1>m. "main" \in TaskNames  BY DEF TaskNames
<1>o. "acquire" \in Ops /\ "release" \in Ops /\ "release" \in Releasing  BY DEF Ops, Releasing
<1>1. \/ SetTask(p, "main", Begin("acquire")) /\ phase'[p] = "acquiring"
      \/ SetTask(p, "main", Begin("release")) /\ ~valid'[p]
  BY DEF Open, Close, Invalidate, TypeOK
<1>2. PICK op \in Ops :
        /\ SetTask(p, "main", Begin(op))
        /\ \/ op = "acquire" /\ phase'[p] = "acquiring"
           \/ op \in Releasing /\ ~valid'[p]
  BY <1>o, <1>1
<1>3. /\ task'[p]["main"] = Begin(op)
      /\ \A q \in Processes, j \in TaskNames : q # p \/ j # "main" => task'[q][j] = task[q][j]
  BY <1>m, <1>2, SetTaskAt
<1>4. /\ UNCHANGED <<journal, now>>
      /\ valid'[p] => valid[p] /\ expiry'[p] = expiry[p]
      /\ phase'[p] \in Unborn => phase[p] \in Unborn
      /\ \A q \in Processes \ {p} :
           valid'[q] = valid[q] /\ expiry'[q] = expiry[q] /\ phase'[q] = phase[q]
  BY DEF Open, Close, Invalidate, Unborn, TypeOK
<1>5. HandleInv(p)'  BY <1>4, KeepHandle DEF LeaseInv
<1>6. TaskInv(p, "main")'  BY <1>m, <1>2, <1>3, BeginTask
<1>7. ASSUME NEW j \in TaskNames, j # "main"  PROVE TaskInv(p, j)'
  BY <1>3, <1>4, <1>7, KeepTask DEF LeaseInv
<1> QED  BY <1>3, <1>4, <1>5, <1>6, <1>7, ProcessStepInv

LEMMA OtherTasksInv ==
  ASSUME TypeOK, TypeOK', LeaseInv, NEW p \in Processes, Heartbeat(p) \/ Check(p) \/ DropHeartbeat(p)
  PROVE  LeaseInv'
<1>m. "beat" \in TaskNames /\ "check" \in TaskNames  BY DEF TaskNames
<1>1. CASE Heartbeat(p)
  <2>1. SetTask(p, "beat", Begin("renew")) /\ phase'[p] = "up"  BY <1>1 DEF Heartbeat
  <2>2. task'[p]["beat"] = Begin("renew")  BY <1>m, <2>1, SetTaskAt
  <2>3. TaskInv(p, "beat")'  BY <1>m, <2>1, <2>2, BeginTask DEF Unborn
  <2> QED  BY <1>m, <1>1, <2>1, <2>3, OneTask DEF Heartbeat
<1>2. CASE Check(p)
  <2>1. SetTask(p, "check", Begin("check")) /\ phase'[p] = "up"  BY <1>2 DEF Check
  <2>2. task'[p]["check"] = Begin("check")  BY <1>m, <2>1, SetTaskAt
  <2>3. TaskInv(p, "check")'  BY <1>m, <2>1, <2>2, BeginTask DEF Unborn
  <2> QED  BY <1>m, <1>2, <2>1, <2>3, OneTask DEF Check
<1>3. CASE DropHeartbeat(p)
  <2>1. SetTask(p, "beat", IdleTask)  BY <1>3 DEF DropHeartbeat
  <2>2. task'[p]["beat"] = IdleTask  BY <1>m, <2>1, SetTaskAt
  <2>3. TaskInv(p, "beat")'  BY <1>m, <2>2, RestTask
  <2> QED  BY <1>m, <1>3, <2>1, <2>3, OneTask DEF DropHeartbeat
<1> QED  BY <1>1, <1>2, <1>3

LEMMA CloseBackupInv ==
  ASSUME TypeOK, TypeOK', LeaseInv, NEW p \in Processes, CloseBackup(p)
  PROVE  LeaseInv'
<1>m. "main" \in TaskNames /\ "beat" \in TaskNames  BY DEF TaskNames
<1>1. /\ task'[p]["main"] = Begin("strict") /\ task'[p]["beat"] = IdleTask
      /\ \A j \in TaskNames : j # "main" /\ j # "beat" => task'[p][j] = task[p][j]
      /\ \A q \in Processes \ {p}, j \in TaskNames : task'[q][j] = task[q][j]
  BY <1>m DEF CloseBackup, TypeOK
<1>2. /\ UNCHANGED <<journal, now>> /\ ~valid'[p] /\ phase'[p] = "closing"
      /\ \A q \in Processes \ {p} :
           valid'[q] = valid[q] /\ expiry'[q] = expiry[q] /\ phase'[q] = phase[q]
  BY DEF CloseBackup, Invalidate, TypeOK
<1>3. HandleInv(p)'  BY <1>2, KeepHandle DEF LeaseInv, Unborn
<1>4. TaskInv(p, "main")'
  <2>1. "strict" \in Releasing  BY DEF Releasing
  <2> QED  BY <1>m, <1>1, <1>2, <2>1, BeginTask
<1>5. TaskInv(p, "beat")'  BY <1>m, <1>1, RestTask
<1>6. ASSUME NEW j \in TaskNames, j # "main", j # "beat"  PROVE TaskInv(p, j)'
  BY <1>1, <1>2, <1>6, KeepTask DEF LeaseInv, Unborn
<1> QED  BY <1>1, <1>2, <1>3, <1>4, <1>5, <1>6, ProcessStepInv

LEMMA CrashInv ==
  ASSUME TypeOK, TypeOK', LeaseInv, NEW p \in Processes, Crash(p)
  PROVE  LeaseInv'
<1>1. /\ \A j \in TaskNames : task'[p][j] = IdleTask
      /\ \A q \in Processes \ {p}, j \in TaskNames : task'[q][j] = task[q][j]
  BY DEF Crash, TypeOK
<1>2. /\ UNCHANGED <<journal, now>> /\ ~valid'[p] /\ phase'[p] = "ended"
      /\ \A q \in Processes \ {p} :
           valid'[q] = valid[q] /\ expiry'[q] = expiry[q] /\ phase'[q] = phase[q]
  BY DEF Crash, TypeOK
<1>3. HandleInv(p)'  BY <1>2, KeepHandle DEF LeaseInv, Unborn
<1>4. ASSUME NEW j \in TaskNames  PROVE TaskInv(p, j)'  BY <1>1, RestTask
<1> QED  BY <1>1, <1>2, <1>3, <1>4, ProcessStepInv

\* A step that leaves the lease and all who use it alone.
LEMMA StutterInv ==
  ASSUME TypeOK, LeaseInv, UNCHANGED <<journal, now, phase, valid, expiry, task>>
  PROVE  LeaseInv'
<1>1. (Current.expires <= now + TTL)'  BY DEF LeaseInv, Current
<1>2. ASSUME NEW q \in Processes  PROVE HandleInv(q)'  BY KeepHandle DEF LeaseInv
<1>3. ASSUME NEW q \in Processes, NEW j \in TaskNames  PROVE TaskInv(q, j)'
  BY KeepTask DEF LeaseInv
<1> QED  BY <1>1, <1>2, <1>3 DEF LeaseInv

LEMMA NextInv ==
  ASSUME TypeOK, TypeOK', LeaseInv, [Next]_vars
  PROVE  LeaseInv'
<1>1. CASE UNCHANGED vars  BY <1>1, StutterInv DEF vars
<1>2. CASE Tick  BY <1>2, TickInv
<1>3. ASSUME NEW p \in Processes, NEW k \in TaskNames,
             ReadNext(p, k) \/ StoreExpiry(p, k) \/ AppendLost(p, k)
      PROVE  LeaseInv'
  BY <1>3, ReadNextInv, StoreExpiryInv, AppendLostInv
<1>4. ASSUME NEW p \in Processes, NEW k \in TaskNames, ReadTorn(p, k) \/ StoreFails(p, k)
      PROVE  LeaseInv'
  BY <1>4, ErrorInv DEF ReadTorn, StoreFails
<1>5. ASSUME NEW p \in Processes, TryAcquire(p) \/ TryRenew(p) \/ CheckOwner(p)  PROVE LeaseInv'
  BY <1>5, TryAcquireInv, TryRenewInv, CheckOwnerInv
<1>6. ASSUME NEW p \in Processes, NEW op \in Ops, TryRelease(p, op)  PROVE LeaseInv'
  BY <1>6, TryReleaseInv
<1>7. ASSUME NEW p \in Processes, Acquired(p) \/ Renewed(p) \/ ReleaseWritten(p)  PROVE LeaseInv'
  BY <1>7, AcquiredInv, RenewedInv, ReleaseWrittenInv
<1>8. ASSUME NEW p \in Processes, Capture(p)  PROVE LeaseInv'
  BY <1>8, StutterInv DEF Capture
<1>9. ASSUME NEW p \in Processes, ProcessStep(p), ~Capture(p)  PROVE LeaseInv'
  BY <1>9, BeginMainInv, OtherTasksInv, CloseBackupInv, CrashInv DEF ProcessStep
<1> QED
  BY <1>1, <1>2, <1>3, <1>4, <1>5, <1>6, <1>7, <1>8, <1>9 DEF Next, TaskStep

\* What every handle, every task under way and the last event know of each
\* other, in all reachable states.
THEOREM LeaseAlwaysBacked == Spec => [](TypeOK /\ LeaseInv)
<1>1. Init => TypeOK /\ LeaseInv  BY InitType, InitInv
<1>2. TypeOK /\ LeaseInv /\ [Next]_vars => TypeOK' /\ LeaseInv'  BY NextType, NextInv
<1> QED  BY <1>1, <1>2, PTL DEF Spec

-----------------------------------------------------------------------------
(* The properties.                                                         *)

\* ensure_active accepts at most one handle at any moment: two handles that
\* both looked alive would both be backed by the one last event.
THEOREM AtMostOneActiveHandle == Spec => []OneActiveHandle
<1>1. TypeOK /\ LeaseInv => OneActiveHandle
  <2> SUFFICES ASSUME TypeOK, LeaseInv, NEW p \in Processes, NEW q \in Processes,
                      Active(p), Active(q)
               PROVE  p = q
    BY DEF OneActiveHandle
  <2>1. Current.owner = p  BY DEF LeaseInv, HandleInv, Backed, Active
  <2>2. Current.owner = q  BY DEF LeaseInv, HandleInv, Backed, Active
  <2> QED  BY <2>1, <2>2
<1> QED  BY <1>1, LeaseAlwaysBacked, PTL

\* The lease session only grows, by an event of the last owner or by the first
\* event of a process that found the lease at its end.
LEMMA JournalGrows ==
  ASSUME TypeOK, LeaseInv, [Next]_vars
  PROVE  \/ journal' = journal
         \/ \E e \in Leases :
              /\ journal' = Append(journal, e)
              /\ \/ Current.owner = e.owner
                 \/ /\ phase[e.owner] \in Unborn
                    /\ \A k \in 1 .. Len(journal) : journal[k].owner # e.owner
                    /\ Current.released \/ Current.expires + TTL <= e.expires
<1>m. "main" \in TaskNames /\ "beat" \in TaskNames  BY DEF TaskNames
<1>1. ASSUME NEW p \in Processes, Acquired(p)
      PROVE  \E e \in Leases :
               /\ journal' = Append(journal, e)
               /\ phase[e.owner] \in Unborn
               /\ \A k \in 1 .. Len(journal) : journal[k].owner # e.owner
               /\ Current.released \/ Current.expires + TTL <= e.expires
  <2> DEFINE t == task[p]["main"]
             e == [owner |-> p, expires |-> t.expires, released |-> FALSE]
  <2>1. t \in TaskStates /\ TaskInv(p, "main") /\ HandleInv(p)  BY <1>m, TaskType DEF LeaseInv
  <2>2. t.pc = "append" /\ t.op = "acquire" /\ t.saw = Len(journal) /\ journal' = Append(journal, e)
    BY <1>1 DEF Acquired, Write, Lands
  <2>3. e \in Leases /\ e.owner = p /\ e.expires = t.expires  BY <2>1 DEF Leases, TaskStates
  <2>4. phase[p] \in Unborn  BY <2>1, <2>2 DEF TaskInv, TaskOps, Releasing, Unborn
  <2>5. \A k \in 1 .. Len(journal) : journal[k].owner # p  BY <2>1, <2>4 DEF HandleInv
  <2>6. Current.released \/ Current.expires + TTL <= t.expires  BY <2>1, <2>2 DEF TaskInv, Pending
  <2> HIDE DEF e
  <2> QED  BY <2>2, <2>3, <2>4, <2>5, <2>6
<1>2. ASSUME NEW p \in Processes, Renewed(p)
      PROVE  \E e \in Leases : journal' = Append(journal, e) /\ Current.owner = e.owner
  <2> DEFINE t == task[p]["beat"]
             e == [owner |-> p, expires |-> t.expires, released |-> FALSE]
  <2>1. t \in TaskStates /\ TaskInv(p, "beat")  BY <1>m, TaskType DEF LeaseInv
  <2>2. t.pc = "append" /\ t.saw = Len(journal) /\ journal' = Append(journal, e)
    BY <1>2 DEF Renewed, Write, Lands
  <2>3. e \in Leases /\ e.owner = p  BY <2>1 DEF Leases, TaskStates
  <2>4. Current.owner = p  BY <2>1, <2>2 DEF TaskInv, TaskOps, Pending
  <2> HIDE DEF e
  <2> QED  BY <2>2, <2>3, <2>4
<1>3. ASSUME NEW p \in Processes, ReleaseWritten(p)
      PROVE  \E e \in Leases : journal' = Append(journal, e) /\ Current.owner = e.owner
  <2> DEFINE t == task[p]["main"]
             e == [owner |-> p, expires |-> t.expires, released |-> TRUE]
  <2>1. t \in TaskStates /\ TaskInv(p, "main")  BY <1>m, TaskType DEF LeaseInv
  <2>2. /\ t.pc = "append" /\ t.op # "acquire" /\ t.saw = Len(journal)
        /\ journal' = Append(journal, e)
    BY <1>3 DEF ReleaseWritten, Write, Lands
  <2>3. e \in Leases /\ e.owner = p  BY <2>1 DEF Leases, TaskStates
  <2>4. Current.owner = p  BY <2>1, <2>2 DEF TaskInv, Pending
  <2> HIDE DEF e
  <2> QED  BY <2>2, <2>3, <2>4
<1>4. ASSUME NEW p \in Processes, TaskStep(p), ~Acquired(p), ~Renewed(p), ~ReleaseWritten(p)
      PROVE  journal' = journal
  BY <1>4 DEF TaskStep, ReadNext, ReadTorn, StoreExpiry, AppendLost, StoreFails, TryAcquire,
     TryRenew, CheckOwner, TryRelease
<1>5. ASSUME NEW p \in Processes, ProcessStep(p)  PROVE journal' = journal
  BY <1>5 DEF ProcessStep, Open, Heartbeat, Check, Close, DropHeartbeat, Capture, CloseBackup, Crash
<1>6. CASE Tick \/ UNCHANGED vars  BY <1>6 DEF Tick, vars
<1> QED  BY <1>1, <1>2, <1>3, <1>4, <1>5, <1>6 DEF Next

\* A lease passes to another process only after its release or its expiry.
THEOREM LeaseTakenAfterEnd == Spec => []TakeoverAfterEnd
<1>1. Init => TakeoverAfterEnd  BY DEF Init, TakeoverAfterEnd
<1>2. ASSUME TypeOK, LeaseInv, [Next]_vars, TakeoverAfterEnd  PROVE TakeoverAfterEnd'
  <2>1. CASE journal' = journal  BY <1>2, <2>1 DEF TakeoverAfterEnd
  <2>2. ASSUME NEW e \in Leases, journal' = Append(journal, e),
               \/ Current.owner = e.owner
               \/ Current.released \/ Current.expires + TTL <= e.expires
        PROVE  TakeoverAfterEnd'
    <3>1. /\ Len(journal') = Len(journal) + 1 /\ journal'[Len(journal) + 1] = e
          /\ \A k \in 1 .. Len(journal) : journal'[k] = journal[k]
      BY <1>2, <2>2, AppendCurrent
    <3>2. Len(journal) \in Nat  BY <1>2, BoundsType
    <3>3. SUFFICES ASSUME NEW k \in 1 .. Len(journal), journal'[k].owner # journal'[k + 1].owner
                   PROVE  journal'[k].released \/ journal'[k + 1].expires >= journal'[k].expires + TTL
      BY <3>1, <3>2 DEF TakeoverAfterEnd
    <3>4. CASE k = Len(journal)
      <4>1. journal'[k] = Current /\ journal'[k + 1] = e  BY <3>1, <3>2, <3>4 DEF Current
      <4>2. Current.expires \in Nat /\ e.expires \in Nat /\ TTL \in Nat
        BY <1>2, <2>2, CurrentType, BoundsType DEF Leases, NoLease
      <4> QED  BY <2>2, <3>3, <4>1, <4>2
    <3>5. CASE k # Len(journal)
      <4>1. k \in 1 .. Len(journal) - 1 /\ k + 1 \in 1 .. Len(journal)  BY <3>2, <3>5
      <4> QED  BY <1>2, <3>1, <3>3, <4>1 DEF TakeoverAfterEnd
    <3> QED  BY <3>4, <3>5
  <2> QED  BY <1>2, <2>1, <2>2, JournalGrows
<1> QED  BY <1>1, <1>2, LeaseAlwaysBacked, PTL DEF Spec

\* The events of one process are contiguous: who lost the lease is out.
THEOREM LeaseTermsAreContiguous == Spec => []OneTermEach
<1>1. Init => OneTermEach  BY DEF Init, OneTermEach
<1>2. ASSUME TypeOK, LeaseInv, [Next]_vars, OneTermEach  PROVE OneTermEach'
  <2>1. CASE journal' = journal  BY <1>2, <2>1 DEF OneTermEach
  <2>2. ASSUME NEW e \in Leases, journal' = Append(journal, e),
               \/ Current.owner = e.owner
               \/ \A k \in 1 .. Len(journal) : journal[k].owner # e.owner
        PROVE  OneTermEach'
    <3>1. /\ Len(journal') = Len(journal) + 1 /\ journal'[Len(journal) + 1] = e
          /\ \A k \in 1 .. Len(journal) : journal'[k] = journal[k]
      BY <1>2, <2>2, AppendCurrent
    <3>2. Len(journal) \in Nat  BY <1>2, BoundsType
    <3>3. SUFFICES ASSUME NEW k \in 1 .. Len(journal'), NEW l \in 1 .. Len(journal'),
                          NEW m \in 1 .. Len(journal'),
                          k < l, l < m, journal'[k].owner = journal'[m].owner
                   PROVE  journal'[l].owner = journal'[k].owner
      BY DEF OneTermEach
    <3>4. k \in 1 .. Len(journal) /\ l \in 1 .. Len(journal) /\ m \in 1 .. Len(journal) + 1
      BY <3>1, <3>2, <3>3
    <3>5. journal'[k] = journal[k] /\ journal'[l] = journal[l]  BY <3>1, <3>4
    <3>6. CASE m = Len(journal) + 1
      <4>1. Current.owner = e.owner /\ journal[k].owner = e.owner
        BY <2>2, <3>1, <3>3, <3>4, <3>5, <3>6
      <4>2. Current = journal[Len(journal)]  BY <3>4, <3>2 DEF Current
      <4>3. l = Len(journal) \/ (l < Len(journal) /\ Len(journal) \in 1 .. Len(journal))
        BY <3>2, <3>4
      <4> QED  BY <1>2, <3>3, <3>4, <3>5, <4>1, <4>2, <4>3 DEF OneTermEach
    <3>7. CASE m \in 1 .. Len(journal)
      BY <1>2, <3>1, <3>3, <3>4, <3>5, <3>7 DEF OneTermEach
    <3> QED  BY <3>2, <3>4, <3>6, <3>7
  <2> QED  BY <1>2, <2>1, <2>2, JournalGrows
<1> QED  BY <1>1, <1>2, LeaseAlwaysBacked, PTL DEF Spec

-----------------------------------------------------------------------------
(* The backup.                                                             *)

\* A lease does not come back to a process that has acquired one before.
LEMMA TermsEnd ==
  ASSUME TypeOK, LeaseInv, [Next]_vars, NEW q \in Processes, phase[q] \notin Unborn,
         Current'.owner = q
  PROVE  Current.owner = q
<1>1. CASE journal' = journal  BY <1>1 DEF Current
<1>2. ASSUME NEW e \in Leases, journal' = Append(journal, e),
             Current.owner = e.owner \/ phase[e.owner] \in Unborn
      PROVE  Current.owner = q
  <2>1. Current' = e  BY <1>2, AppendCurrent
  <2> QED  BY <1>2, <2>1
<1> QED  BY <1>1, <1>2, JournalGrows

\* A step that leaves the backup of q and its finalization alone.
LEMMA KeepBackup ==
  ASSUME NEW q \in Processes, BackupInv(q), stage'[q] = stage[q], snap'[q] = snap[q],
         phase'[q] \in Unborn => phase[q] \in Unborn,
         phase[q] \notin Unborn /\ Current'.owner = q => Current.owner = q,
         \/ task'[q]["main"] = task[q]["main"]
         \/ task'[q]["main"].op = task[q]["main"].op /\ task[q]["main"].pc # "idle"
         \/ task'[q]["main"].op # "finalize"
  PROVE  BackupInv(q)'
BY DEF BackupInv, Unborn

\* A process that ends without a backup.
LEMMA FailedBackup ==
  ASSUME NEW p \in Processes, stage'[p] = "failed", phase'[p] = "ended",
         task'[p]["main"] = IdleTask
  PROVE  BackupInv(p)'
BY DEF BackupInv, IdleTask, Unborn

LEMMA FailsBackup ==
  ASSUME TypeOK, NEW p \in Processes, Fails(p)
  PROVE  BackupInv(p)'
<1>1. stage'[p] = "failed" /\ phase'[p] = "ended" /\ task'[p]["main"] = IdleTask
  BY DEF Fails, Ends, TypeOK, TaskNames
<1> QED  BY <1>1, FailedBackup

\* One task of p moves, and its main task does not turn to finalize.
LEMMA MoveBackup ==
  ASSUME TypeOK, LeaseInv, [Next]_vars, NEW p \in Processes, BackupInv(p),
         NEW k \in TaskNames, NEW t, SetTask(p, k, t),
         t.op # "finalize" \/ (t.op = task[p][k].op /\ task[p][k].pc # "idle"),
         UNCHANGED <<stage, snap>>, phase'[p] \in Unborn => phase[p] \in Unborn
  PROVE  BackupInv(p)'
<1>1. task'[p][k] = t /\ \A j \in TaskNames : j # k => task'[p][j] = task[p][j]  BY SetTaskAt
<1>2. "main" \in TaskNames  BY DEF TaskNames
<1>3. phase[p] \notin Unborn /\ Current'.owner = p => Current.owner = p  BY TermsEnd
<1> QED  BY <1>1, <1>2, <1>3, KeepBackup

LEMMA ErrorBackup ==
  ASSUME TypeOK, LeaseInv, [Next]_vars, NEW p \in Processes, BackupInv(p),
         NEW k \in TaskNames, Error(p, k), UNCHANGED snap
  PROVE  BackupInv(p)'
<1>1. CASE Fails(p)  BY <1>1, FailsBackup
<1>2. ASSUME NEW t, t = IdleTask \/ t = [IdleTask EXCEPT !.pc = "stopped"], SetTask(p, k, t),
             UNCHANGED <<phase, stage>>
      PROVE  BackupInv(p)'
  <2>1. t.op # "finalize"  BY <1>2 DEF IdleTask
  <2> QED  BY <1>2, <2>1, MoveBackup
<1> QED  BY <1>1, <1>2 DEF Error

\* The release of p is done.
LEMMA ReleasedBackup ==
  ASSUME TypeOK, LeaseInv, [Next]_vars, NEW p \in Processes, BackupInv(p), UNCHANGED snap,
         NEW op, Released(p, op), task[p]["main"].op = op, task[p]["main"].pc # "idle"
  PROVE  BackupInv(p)'
<1>m. "main" \in TaskNames  BY DEF TaskNames
<1>1. CASE op = "strict" /\ stage[p] = "held"
  <2>1. SetTask(p, "main", Begin("finalize")) /\ stage'[p] = "released" /\ UNCHANGED phase
    BY <1>1 DEF Released, TypeOK
  <2> QED  BY <1>1, <2>1 DEF BackupInv
<1>2. CASE ~(op = "strict" /\ stage[p] = "held")
  <2>1. /\ task'[p]["main"] = IdleTask /\ phase'[p] = "ended"
        /\ stage'[p] = IF op = "finalize" THEN "published" ELSE stage[p]
    BY <1>2, <1>m DEF Released, Ends, TypeOK
  <2>2. IdleTask.op # "finalize" /\ IdleTask.pc = "idle"  BY DEF IdleTask
  <2>3. CASE op = "finalize"  BY <2>1, <2>2, <2>3 DEF BackupInv, Unborn
  <2>4. CASE op # "finalize"
    <3>1. phase[p] \notin Unborn /\ Current'.owner = p => Current.owner = p  BY TermsEnd
    <3> QED  BY <2>1, <2>2, <2>4, <3>1, KeepBackup DEF Unborn
  <2> QED  BY <2>3, <2>4
<1> QED  BY <1>1, <1>2

LEMMA CaptureBackup ==
  ASSUME TypeOK, LeaseInv, NEW p \in Processes, BackupInv(p), Capture(p)
  PROVE  BackupInv(p)'
<1>1. /\ phase'[p] = "up" /\ task' = task /\ Current' = Current
      /\ stage[p] \in {"none", "copying", "copied", "snapped"}
      /\ stage'[p] = IF stage[p] = "copied" \/ Active(p) THEN NextStage(stage[p]) ELSE "failed"
      /\ snap'[p] = IF stage[p] = "copied" THEN Current ELSE snap[p]
  BY DEF Capture, TypeOK, Current
<1>2. Active(p) => Current.owner = p  BY DEF LeaseInv, HandleInv, Backed, Active
<1>3. CASE stage[p] = "snapped" /\ Active(p)
  <2>1. stage'[p] = "captured" /\ snap'[p].owner = p
    BY <1>1, <1>2, <1>3 DEF BackupInv, NextStage
  <2> QED  BY <1>1, <1>3, <2>1 DEF BackupInv, Unborn
<1>4. CASE ~(stage[p] = "snapped" /\ Active(p))
  <2>1. stage'[p] \in {"copying", "copied", "failed"} \/ (stage'[p] = "snapped" /\ snap'[p] = Current)
    BY <1>1, <1>4 DEF NextStage
  <2> QED  BY <1>1, <2>1 DEF BackupInv, Unborn
<1> QED  BY <1>3, <1>4

\* What the steps of p do to the backup of p.
LEMMA OwnBackup ==
  ASSUME TypeOK, LeaseInv, [Next]_vars, NEW p \in Processes, BackupInv(p),
         TaskStep(p) \/ ProcessStep(p)
  PROVE  BackupInv(p)'
<1>m. "main" \in TaskNames /\ "beat" \in TaskNames /\ "check" \in TaskNames  BY DEF TaskNames
<1>i. IdleTask.op # "finalize"  BY DEF IdleTask
<1>t. \A k \in TaskNames : task[p][k] \in TaskStates  BY TaskType
<1>b. now + TTL \in Nat /\ now \in Nat /\ Len(journal) \in Nat /\ Current.expires \in Nat
  BY BoundsType, CurrentType DEF Leases, NoLease
<1>1. ASSUME NEW k \in TaskNames, ReadNext(p, k)  PROVE BackupInv(p)'
  <2>1. ASSUME NEW t, SetTask(p, k, t),
               \/ t = [task[p][k] EXCEPT !.pc = "range", !.saw = Len(journal)]
               \/ t = [task[p][k] EXCEPT !.pc = "append", !.saw = 0, !.expires = now + TTL]
        PROVE  BackupInv(p)'
    <3>1. t.op = task[p][k].op  BY <1>t, <2>1 DEF TaskStates
    <3> QED  BY <1>1, <2>1, <3>1, MoveBackup DEF ReadNext
  <2> QED  BY <1>1, <2>1 DEF ReadNext
<1>2. ASSUME NEW k \in TaskNames, ReadTorn(p, k) \/ StoreFails(p, k)  PROVE BackupInv(p)'
  BY <1>2, ErrorBackup DEF ReadTorn, StoreFails
<1>3. ASSUME NEW k \in TaskNames, StoreExpiry(p, k)  PROVE BackupInv(p)'
  BY <1>3, <1>i, MoveBackup DEF StoreExpiry
<1>4. ASSUME NEW k \in TaskNames, AppendLost(p, k)  PROVE BackupInv(p)'
  <2>1. CASE Error(p, k)  BY <1>4, <2>1, ErrorBackup DEF AppendLost
  <2>2. ASSUME NEW t, SetTask(p, k, t), t = [task[p][k] EXCEPT !.pc = "tail", !.tries = @ + 1],
               UNCHANGED <<phase, valid, stage>>
        PROVE  BackupInv(p)'
    <3>1. t.op = task[p][k].op  BY <1>t, <2>2 DEF TaskStates
    <3> QED  BY <1>4, <2>2, <3>1, MoveBackup DEF AppendLost
  <2> QED  BY <1>4, <2>1, <2>2 DEF AppendLost
<1>5. ASSUME NEW k \in TaskNames, task[p][k].pc = "range", NEW e \in Nat,
             SetTask(p, k, [task[p][k] EXCEPT !.pc = "append", !.expires = e]),
             UNCHANGED <<phase, stage, snap>>
      PROVE  BackupInv(p)'
  <2>1. [task[p][k] EXCEPT !.pc = "append", !.expires = e].op = task[p][k].op
    BY <1>t DEF TaskStates
  <2>2. ASSUME NEW t, t = [task[p][k] EXCEPT !.pc = "append", !.expires = e]
        PROVE  SetTask(p, k, t) /\ t.op = task[p][k].op
    BY <1>5, <2>1, <2>2
  <2> QED  BY <1>5, <2>2, MoveBackup
<1>6. ASSUME TryAcquire(p)  PROVE BackupInv(p)'
  <2>1. CASE Fails(p)  BY <2>1, FailsBackup
  <2>2. CASE Extend(p, "main") /\ UNCHANGED <<phase, stage>>
    BY <1>m, <1>b, <1>5, <1>6, <2>2 DEF TryAcquire, ReadTail, Extend
  <2> QED  BY <1>6, <2>1, <2>2 DEF TryAcquire
<1>7. ASSUME TryRenew(p)  PROVE BackupInv(p)'
  <2>1. CASE Error(p, "beat")  BY <1>m, <1>7, <2>1, ErrorBackup DEF TryRenew
  <2>2. CASE Extend(p, "beat") /\ UNCHANGED <<phase, stage>>
    BY <1>m, <1>b, <1>5, <1>7, <2>2 DEF TryRenew, ReadTail, Extend
  <2> QED  BY <1>7, <2>1, <2>2 DEF TryRenew
<1>8. ASSUME CheckOwner(p)  PROVE BackupInv(p)'
  <2>1. ASSUME NEW t, SetTask(p, "check", t),
               \/ t = IdleTask
               \/ t = [task[p]["check"] EXCEPT !.pc = "store", !.expires = Current.expires]
        PROVE  BackupInv(p)'
    <3>1. CASE t = IdleTask
      BY <1>m, <1>i, <1>8, <2>1, <3>1, MoveBackup DEF CheckOwner
    <3>2. CASE t = [task[p]["check"] EXCEPT !.pc = "store", !.expires = Current.expires]
      <4>1. t.op = task[p]["check"].op  BY <1>m, <1>t, <3>2 DEF TaskStates
      <4> QED  BY <1>m, <1>8, <2>1, <4>1, MoveBackup DEF CheckOwner, ReadTail
    <3> QED  BY <2>1, <3>1, <3>2
  <2> QED  BY <1>8, <2>1 DEF CheckOwner
<1>9. ASSUME NEW op \in Ops, TryRelease(p, op)  PROVE BackupInv(p)'
  <2>1. task[p]["main"].op = op /\ task[p]["main"].pc = "range"  BY <1>9 DEF TryRelease, ReadTail
  <2>2. CASE Fails(p)  BY <2>2, FailsBackup
  <2>3. CASE Released(p, op)  BY <1>9, <2>1, <2>3, ReleasedBackup DEF TryRelease
  <2>4. CASE /\ SetTask(p, "main", [task[p]["main"] EXCEPT !.pc = "append", !.expires = now])
             /\ UNCHANGED <<phase, stage, expiry>>
    BY <1>m, <1>b, <1>5, <1>9, <2>1, <2>4 DEF TryRelease
  <2> QED  BY <1>9, <2>2, <2>3, <2>4 DEF TryRelease
<1>10. ASSUME Acquired(p)  PROVE BackupInv(p)'
  <2>1. phase'[p] = "up"  BY <1>10 DEF Acquired, TypeOK
  <2> QED  BY <1>m, <1>i, <1>10, <2>1, MoveBackup DEF Acquired, Unborn
<1>11. ASSUME Renewed(p)  PROVE BackupInv(p)'
  <2>1. ASSUME NEW t, SetTask(p, "beat", t), t = [task[p]["beat"] EXCEPT !.pc = "store"]
        PROVE  BackupInv(p)'
    <3>1. t.op = task[p]["beat"].op  BY <1>m, <1>t, <2>1 DEF TaskStates
    <3> QED  BY <1>m, <1>11, <2>1, <3>1, MoveBackup DEF Renewed
  <2> QED  BY <1>11, <2>1 DEF Renewed
<1>12. ASSUME ReleaseWritten(p)  PROVE BackupInv(p)'
  BY <1>12, ReleasedBackup DEF ReleaseWritten
<1>13. ASSUME Open(p) \/ Heartbeat(p) \/ Check(p) \/ Close(p) \/ DropHeartbeat(p)
       PROVE  BackupInv(p)'
  <2>0. \A op : Begin(op).op = op  BY DEF Begin, IdleTask
  <2>1. (phase'[p] \in Unborn => phase[p] \in Unborn) /\ UNCHANGED <<stage, snap>>
    BY <1>13 DEF Open, Heartbeat, Check, Close, DropHeartbeat, Unborn, TypeOK
  <2>2. CASE Open(p) \/ Close(p)  BY <1>m, <2>0, <2>1, <2>2, MoveBackup DEF Open, Close
  <2>3. CASE Heartbeat(p) \/ Check(p)  BY <1>m, <2>0, <2>1, <2>3, MoveBackup DEF Heartbeat, Check
  <2>4. CASE DropHeartbeat(p)  BY <1>m, <1>i, <2>1, <2>4, MoveBackup DEF DropHeartbeat
  <2> QED  BY <1>13, <2>2, <2>3, <2>4
<1>14. ASSUME Capture(p)  PROVE BackupInv(p)'  BY <1>14, CaptureBackup
<1>15. ASSUME CloseBackup(p)  PROVE BackupInv(p)'
  <2>1. /\ task'[p]["main"] = Begin("strict") /\ phase'[p] = "closing" /\ UNCHANGED snap
        /\ stage'[p] = "failed" \/ (stage'[p] = "held" /\ stage[p] = "captured")
    BY <1>m, <1>15 DEF CloseBackup, TypeOK
  <2>2. Begin("strict").op # "finalize"  BY DEF Begin, IdleTask
  <2> QED  BY <2>1, <2>2 DEF BackupInv, Unborn
<1>16. ASSUME Crash(p)  PROVE BackupInv(p)'
  <2>1. stage'[p] = "failed" /\ phase'[p] = "ended" /\ task'[p]["main"] = IdleTask
    BY <1>m, <1>16 DEF Crash, TypeOK
  <2> QED  BY <2>1, FailedBackup
<1> QED
  BY <1>1, <1>2, <1>3, <1>4, <1>5, <1>6, <1>7, <1>8, <1>9, <1>10, <1>11, <1>12, <1>13, <1>14,
     <1>15, <1>16 DEF TaskStep, ProcessStep

\* What they do to the backups of the others.
LEMMA OtherBackup ==
  ASSUME TypeOK, LeaseInv, [Next]_vars, NEW p \in Processes, NEW q \in Processes, q # p,
         BackupInv(q), TaskStep(p) \/ ProcessStep(p)
  PROVE  BackupInv(q)'
<1>m. "main" \in TaskNames /\ "beat" \in TaskNames /\ "check" \in TaskNames  BY DEF TaskNames
<1>1. phase[q] \notin Unborn /\ Current'.owner = q => Current.owner = q  BY TermsEnd
<1>e. ASSUME Fails(p)  PROVE phase'[q] = phase[q] /\ stage'[q] = stage[q] /\ task'[q] = task[q]
  BY <1>e DEF Fails, Ends, TypeOK
<1>s. ASSUME NEW k \in TaskNames, NEW t, SetTask(p, k, t)  PROVE task'[q] = task[q]
  BY <1>s DEF SetTask, TypeOK
<1>x. ASSUME NEW k \in TaskNames, Error(p, k)
      PROVE  phase'[q] = phase[q] /\ stage'[q] = stage[q] /\ task'[q] = task[q]
  BY <1>e, <1>s, <1>x DEF Error
<1>r. ASSUME NEW op, Released(p, op)
      PROVE  phase'[q] = phase[q] /\ stage'[q] = stage[q] /\ task'[q] = task[q]
  BY <1>m, <1>s, <1>r DEF Released, Ends, TypeOK
<1>2. ASSUME TaskStep(p)
      PROVE  phase'[q] = phase[q] /\ stage'[q] = stage[q] /\ task'[q] = task[q] /\ snap' = snap
  <2>1. ASSUME NEW k \in TaskNames, ReadNext(p, k) \/ StoreExpiry(p, k)
        PROVE  task'[q] = task[q] /\ UNCHANGED <<phase, stage, snap>>
    BY <1>s, <2>1 DEF ReadNext, StoreExpiry
  <2>2. ASSUME NEW k \in TaskNames, ReadTorn(p, k) \/ StoreFails(p, k) \/ AppendLost(p, k)
        PROVE  phase'[q] = phase[q] /\ stage'[q] = stage[q] /\ task'[q] = task[q] /\ snap' = snap
    BY <1>s, <1>x, <2>2 DEF ReadTorn, StoreFails, AppendLost
  <2>3. ASSUME TryAcquire(p) \/ TryRenew(p) \/ CheckOwner(p)
        PROVE  phase'[q] = phase[q] /\ stage'[q] = stage[q] /\ task'[q] = task[q] /\ snap' = snap
    BY <1>m, <1>e, <1>s, <1>x, <2>3 DEF TryAcquire, TryRenew, CheckOwner, Extend
  <2>4. ASSUME NEW op \in Ops, TryRelease(p, op)
        PROVE  phase'[q] = phase[q] /\ stage'[q] = stage[q] /\ task'[q] = task[q] /\ snap' = snap
    BY <1>m, <1>e, <1>s, <1>r, <2>4 DEF TryRelease
  <2>5. ASSUME Acquired(p) \/ Renewed(p)
        PROVE  phase'[q] = phase[q] /\ stage' = stage /\ task'[q] = task[q] /\ snap' = snap
    BY <1>m, <1>s, <2>5 DEF Acquired, Renewed, TypeOK
  <2>6. ASSUME ReleaseWritten(p)
        PROVE  phase'[q] = phase[q] /\ stage'[q] = stage[q] /\ task'[q] = task[q] /\ snap' = snap
    BY <1>r, <2>6 DEF ReleaseWritten
  <2> QED  BY <1>2, <2>1, <2>2, <2>3, <2>4, <2>5, <2>6 DEF TaskStep
<1>3. ASSUME ProcessStep(p)
      PROVE  phase'[q] = phase[q] /\ stage'[q] = stage[q] /\ task'[q] = task[q] /\ snap'[q] = snap[q]
  <2>1. CASE Open(p) \/ Heartbeat(p) \/ Check(p) \/ Close(p) \/ DropHeartbeat(p)
    BY <1>m, <1>s, <2>1 DEF Open, Heartbeat, Check, Close, DropHeartbeat, TypeOK
  <2>2. CASE Capture(p) \/ CloseBackup(p) \/ Crash(p)
    BY <2>2 DEF Capture, CloseBackup, Crash, TypeOK
  <2> QED  BY <1>3, <2>1, <2>2 DEF ProcessStep
<1> QED  BY <1>1, <1>2, <1>3, KeepBackup

\* A published backup was captured in the backup's own term: the checks before
\* and after the copy of the database and the strict release are enough.
THEOREM BackupsAreUnderLease == Spec => []SnapshotUnderLease
<1>1. Init => SnapshotInv
  <2> SUFFICES ASSUME Init, NEW p \in Processes  PROVE BackupInv(p)
    BY DEF SnapshotInv
  <2>1. stage[p] = "none" /\ task[p]["main"] = IdleTask  BY DEF Init, TaskNames
  <2>2. IdleTask.pc = "idle"  BY DEF IdleTask
  <2> QED  BY <2>1, <2>2 DEF BackupInv
<1>2. ASSUME TypeOK, LeaseInv, SnapshotInv, [Next]_vars  PROVE SnapshotInv'
  <2> SUFFICES ASSUME NEW q \in Processes  PROVE BackupInv(q)'
    BY DEF SnapshotInv
  <2>0. BackupInv(q)  BY <1>2 DEF SnapshotInv
  <2>1. ASSUME NEW p \in Processes, TaskStep(p) \/ ProcessStep(p)  PROVE BackupInv(q)'
    BY <1>2, <2>0, <2>1, OwnBackup, OtherBackup
  <2>2. CASE Tick \/ UNCHANGED vars
    <3>1. UNCHANGED <<journal, phase, task, stage, snap>>  BY <2>2 DEF Tick, vars
    <3>2. Current' = Current  BY <3>1 DEF Current
    <3> QED  BY <2>0, <3>1, <3>2, KeepBackup
  <2> QED  BY <1>2, <2>1, <2>2 DEF Next
<1>3. SnapshotInv => SnapshotUnderLease  BY DEF SnapshotInv, BackupInv, SnapshotUnderLease
<1> QED  BY <1>1, <1>2, <1>3, LeaseAlwaysBacked, PTL DEF Spec

=============================================================================
