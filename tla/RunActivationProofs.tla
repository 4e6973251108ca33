------------------------- MODULE RunActivationProofs -------------------------
(***************************************************************************)
(* The activations of the Run registry: who owns one, when it may be       *)
(* stopped, and what a terminal status says about it.  For any number of   *)
(* Hosts, tasks, Runs and failures.                                        *)
(*                                                                         *)
(* The argument: a Run id is drawn by one task of one Host, its starter.   *)
(* While the starter is at work no registry owns the activation and no     *)
(* other Host has one; the starter ends by handing the activation to its   *)
(* own Host's registry, by stopping it or by dropping it, and a Run id is  *)
(* never drawn again.                                                      *)
(***************************************************************************)
EXTENDS RunSafetyProofs

-----------------------------------------------------------------------------
(* The inductive invariant.                                                *)

HoldPoints == {"commit", "lostStop", "failedStop"}

\* The task has drawn the Run id t.run: its Starting event is under way, or
\* committed and the start is not finished.
IsStarter(t) ==
  \/ t.pc = "claim" /\ t.ev # NoView
  \/ t.pc \in {"activate", "failStart"} \cup HoldPoints

Held(t) == t.pc \in HoldPoints

Starter(h, w, r) == task[h][w].run = r /\ IsStarter(task[h][w])

Begun(r) == Now(r).status # "none"
Ended(r) == Now(r).status \in {"stopping"} \cup TerminalStatuses
Settled(r) == Now(r).status \in {"stopped", "failed"}

\* A Host that is down has no tasks.
DownIsIdle == \A h \in Hosts : phase[h] = "down" => \A w \in Tasks : task[h][w] = IdleTask

\* What a task may rely on although the journal grows under it.
Informed(t) ==
  /\ t.ev # NoView => t.pc \notin {"driverStop", "lostStop", "failedStop"}
  /\ t.ev # NoView /\ t.pc # "hydrate" => t.ev.run = t.run
  /\ t.pc = "claim" /\ t.ev # NoView => t.ev.inst = t.inst
  /\ IsStarter(t) /\ t.pc # "claim" => Begun(t.run) /\ Now(t.run).inst = t.inst
  /\ t.pc = "loss" => Begun(t.run)
  /\ t.pc \in {"cleanup", "driverStop"} => Ended(t.run)
  /\ \A r \in Runs : <<r, "cleanup">> \in t.todo => Ended(r)
  /\ t.ev.status \in {"stopped", "failed"} => t.pc = "failStart" \/ (t.pc = "finish" /\ t.owned)
  /\ t.owned => t.pc \in {"cleanup", "driverStop", "finish"}

TasksInformed == \A h \in Hosts, w \in Tasks : Informed(task[h][w])

\* A start keeps its Installation's start lock until it returns.
Starting(t) == t.pc = "claim" \/ IsStarter(t)

StartsLocked ==
  \A h \in Hosts, w \in Tasks :
    Starting(task[h][w]) =>
      task[h][w].inst \in Installations /\ startLock[h][task[h][w].inst] = w

\* A Run id has one starter, on all Hosts.
OneStarter ==
  \A g, h \in Hosts, v, w \in Tasks :
    /\ IsStarter(task[g][v]) /\ IsStarter(task[h][w]) /\ task[g][v].run = task[h][w].run
    => g = h /\ v = w

\* Ownership: a registry owns an activation only when the start is over, and
\* one task at a time is inside driver.stop.
OwnerInv ==
  /\ \A h \in Hosts, r \in Runs :
       active[h][r] # "none" =>
         /\ Begun(r)
         /\ \A g \in Hosts, v \in Tasks : ~Starter(g, v, r)
         /\ \A g \in Hosts \ {h} : r \notin live[g]
  /\ \A h \in Hosts, w \in Tasks, r \in Runs : Stops(h, w, r) => active[h][r] = "cleaning"
  /\ \A h \in Hosts, v, w \in Tasks, r \in Runs : Stops(h, v, r) /\ Stops(h, w, r) => v = w

\* Activations exist where the Run was started, and only while its starter
\* holds them or after it has finished.
LiveInv ==
  /\ \A h \in Hosts : \A r \in live[h] : Begun(r)
  /\ \A g, h \in Hosts, w \in Tasks : \A r \in live[g] :
       Starter(h, w, r) => g = h /\ Held(task[h][w])

\* A completing task that found the activation owned finishes only when it is
\* gone.
OwnedInv ==
  \A h \in Hosts, w \in Tasks, r \in Runs :
    task[h][w].owned /\ task[h][w].run = r =>
      /\ Begun(r)
      /\ \A g \in Hosts, v \in Tasks : ~Starter(g, v, r)
      /\ \A g \in Hosts : r \in live[g] =>
           g = h /\ active[h][r] # "none" /\ task[h][w].pc # "finish"

SettledInv ==
  \A r \in Runs : Settled(r) =>
    /\ \A h \in Hosts : r \notin live[h]
    /\ \A h \in Hosts, w \in Tasks : ~Starter(h, w, r)

\* On a Host an Installation has one owned activation or one start.
InstallationInv ==
  /\ \A h \in Hosts, r, s \in Runs :
       active[h][r] # "none" /\ active[h][s] # "none" /\ Now(r).inst = Now(s).inst => r = s
  /\ \A h \in Hosts, w \in Tasks, s \in Runs :
       IsStarter(task[h][w]) /\ active[h][s] # "none" => Now(s).inst # task[h][w].inst

ActivationInv ==
  /\ DownIsIdle /\ TasksInformed /\ StartsLocked /\ OneStarter /\ OwnerInv /\ LiveInv
  /\ OwnedInv /\ SettledInv /\ InstallationInv /\ ActivationAccounted

-----------------------------------------------------------------------------

LEMMA ActivationInvInit == Init => ActivationInv
<1> SUFFICES ASSUME Init PROVE ActivationInv
  OBVIOUS
<1>1. /\ \A h \in Hosts, w \in Tasks : task[h][w] = IdleTask
      /\ \A h \in Hosts, r \in Runs : active[h][r] = "none"
      /\ \A h \in Hosts : live[h] = {}
  BY DEF Init
<1>2. journal = <<>> /\ Len(journal) = 0
  BY DEF Init
<1>3. \A r : Now(r) = NoView
  BY <1>2, LatestNone DEF Now
<1>4. /\ IdleTask.pc = "idle" /\ IdleTask.ev = NoView /\ IdleTask.todo = {}
      /\ IdleTask.owned = FALSE /\ NoView.status = "none"
  BY DEF IdleTask, NoView
<1>5. ~IsStarter(IdleTask) /\ Informed(IdleTask)
  BY <1>4 DEF IsStarter, HoldPoints, Informed
<1>6. DownIsIdle /\ TasksInformed /\ StartsLocked /\ OneStarter
  BY <1>1, <1>4, <1>5 DEF DownIsIdle, TasksInformed, StartsLocked, OneStarter, Starting
<1>7. OwnerInv /\ LiveInv
  BY <1>1, <1>4 DEF OwnerInv, LiveInv, Stops
<1>8. OwnedInv /\ SettledInv
  BY <1>1, <1>3, <1>4 DEF OwnedInv, SettledInv, Settled
<1>9. InstallationInv /\ ActivationAccounted
  BY <1>1 DEF InstallationInv, ActivationAccounted
<1> QED
  BY <1>6, <1>7, <1>8, <1>9 DEF ActivationInv

-----------------------------------------------------------------------------
(* The shape of a step.  Every step of a task (h, w) keeps the other tasks,*)
(* their locks and the journal they have seen (TaskStep), and changes the  *)
(* activations in one of a few ways (Shape).  A Host that stops forgets    *)
(* everything (Resets).                                                    *)

OthersKept(h, w) ==
  \A g \in Hosts, v \in Tasks : ~(g = h /\ v = w) => task'[g][v] = task[g][v]

LocksKept(h, w) ==
  /\ \A g \in Hosts, v \in Tasks, i \in Installations :
       ~(g = h /\ v = w) /\ startLock[g][i] = v => startLock'[g][i] = v
  /\ Starting(task'[h][w]) =>
       task'[h][w].inst \in Installations /\ startLock'[h][task'[h][w].inst] = w

HostServes(h) ==
  phase'[h] # "down" /\ \A g \in Hosts : phase'[g] = "down" => phase[g] = "down"

\* The event that lands is the task's own; a failed start ends with it.
JournalMoves(h, w) ==
  \/ journal' = journal
  \/ /\ task[h][w].ev \in Events
     /\ ValidEvent(journal, Len(journal), task[h][w].ev)
     /\ journal' = Append(journal, task[h][w].ev)
     /\ task[h][w].pc = "failStart" => ~IsStarter(task'[h][w])

DroppedKept == \A g \in Hosts : dropped[g] \subseteq dropped'[g]

TaskStep(h, w) ==
  /\ OthersKept(h, w) /\ LocksKept(h, w) /\ HostServes(h) /\ JournalMoves(h, w)
  /\ DroppedKept /\ Informed(task[h][w])'

SameActive == \A g \in Hosts, q \in Runs : active'[g][q] = active[g][q]
ActiveBecomes(h, r, s) ==
  /\ active'[h][r] = s
  /\ \A g \in Hosts, q \in Runs : ~(g = h /\ q = r) => active'[g][q] = active[g][q]

SameLive == \A g \in Hosts : live'[g] = live[g]
LiveGains(h, r) ==
  live'[h] = live[h] \cup {r} /\ \A g \in Hosts \ {h} : live'[g] = live[g]
LiveLoses(h, r) ==
  live'[h] = live[h] \ {r} /\ \A g \in Hosts \ {h} : live'[g] = live[g]

Rests(u) == ~IsStarter(u) /\ u.pc # "driverStop" /\ ~u.owned

\* A start draws a new Run id.
Draws(h, w, t, u) ==
  /\ t.pc = "claim" /\ ~IsStarter(t) /\ u.pc = "claim" /\ u.inst = t.inst /\ ~u.owned
  /\ u.run \in Runs /\ Now(u.run) = NoView
  /\ \A g \in Hosts, v \in Tasks : task[g][v].ev.run # u.run
  /\ ~Occupied(h, t.inst)
  /\ SameActive /\ SameLive /\ journal' = journal

\* A starter goes on.
Advances(h, w, t, u) ==
  /\ IsStarter(t) /\ IsStarter(u) /\ u.run = t.run /\ u.inst = t.inst /\ ~u.owned
  /\ Held(u) <=> Held(t)
  /\ SameActive /\ SameLive

Activates(h, w, t, u) ==
  /\ t.pc = "activate" /\ u.pc = "commit" /\ u.run = t.run /\ u.inst = t.inst /\ ~u.owned
  /\ SameActive /\ LiveGains(h, t.run)

\* The starter stops the activation it could not commit.
Withdraws(h, w, t, u) ==
  /\ t.pc = "failedStop" /\ u.pc = "failStart" /\ u.run = t.run /\ u.inst = t.inst /\ ~u.owned
  /\ SameActive /\ LiveLoses(h, t.run)

\* The starter ends: the activation goes to the registry, is stopped, or is
\* dropped, or there is none.
HandsOver(h, w, t, u) ==
  Held(t) /\ Rests(u) /\ ActiveBecomes(h, t.run, "available") /\ SameLive
Undoes(h, w, t, u) ==
  Held(t) /\ Rests(u) /\ SameActive /\ LiveLoses(h, t.run)
Abandons(h, w, t, u) ==
  /\ IsStarter(t) /\ Rests(u) /\ SameActive
  /\ \/ SameLive /\ (Held(t) => t.run \in dropped'[h])
     \/ t.pc = "activate" /\ LiveGains(h, t.run) /\ t.run \in dropped'[h]

\* A cleanup takes an owned activation, and driver.stop answers.
Takes(h, w, t, u) ==
  /\ t.pc = "cleanup" /\ u.pc = "driverStop" /\ u.run = t.run /\ u.owned = t.owned
  /\ active[h][t.run] = "available" /\ ActiveBecomes(h, t.run, "cleaning") /\ SameLive
Stopped(h, w, t, u) ==
  /\ t.pc = "driverStop"
  /\ Rests(u) \/ (u.pc = "finish" /\ u.run = t.run /\ u.owned = t.owned)
  /\ ActiveBecomes(h, t.run, "none") /\ LiveLoses(h, t.run)
StopFailed(h, w, t, u) ==
  t.pc = "driverStop" /\ Rests(u) /\ ActiveBecomes(h, t.run, "available") /\ SameLive

\* Everything else: the activations stay, and a completing task notes whether
\* its Run's activation is owned.
Works(h, w, t, u) ==
  /\ ~IsStarter(t) /\ ~IsStarter(u) /\ u.pc # "driverStop"
  /\ SameActive /\ SameLive
  /\ u.owned =>
       /\ u.run = t.run /\ u.run \in Runs
       /\ \/ u.pc # "finish" /\ active[h][u.run] # "none"
          \/ t.owned /\ (u.pc = "finish" => t.pc = "finish" \/ active[h][u.run] = "none")

Shape(h, w) ==
  LET t == task[h][w]
      u == task'[h][w]
  IN  \/ Draws(h, w, t, u) \/ Advances(h, w, t, u) \/ Activates(h, w, t, u)
      \/ Withdraws(h, w, t, u) \/ HandsOver(h, w, t, u) \/ Undoes(h, w, t, u)
      \/ Abandons(h, w, t, u) \/ Takes(h, w, t, u) \/ Stopped(h, w, t, u)
      \/ StopFailed(h, w, t, u) \/ Works(h, w, t, u)

\* A Host process ends.
Resets(h) ==
  /\ \A w \in Tasks : task'[h][w] = IdleTask
  /\ \A r \in Runs : active'[h][r] = "none"
  /\ live'[h] = {}
  /\ \A g \in Hosts \ {h} :
       /\ \A w \in Tasks : task'[g][w] = task[g][w]
       /\ active'[g] = active[g]
       /\ \A i \in Installations : startLock'[g][i] = startLock[g][i]
       /\ live'[g] = live[g] /\ dropped'[g] = dropped[g] /\ phase'[g] = phase[g]
  /\ journal' = journal
-----------------------------------------------------------------------------
(* The views under a step.                                                 *)

ViewsKept ==
  \A r \in Runs : /\ Begun(r) => Begun(r)' /\ Now(r)'.inst = Now(r).inst
                  /\ Ended(r) => Ended(r)'

\* Growth keeps what is begun and what has ended.
LEMMA GrowthKeepsViews ==
  ASSUME TypeInv, Grows
  PROVE  ViewsKept
<1>1. CASE journal' = journal
  BY <1>1 DEF ViewsKept, Begun, Ended, Now
<1>2. ASSUME NEW e \in Events, ValidEvent(journal, Len(journal), e),
             journal' = Append(journal, e)
      PROVE  ViewsKept
  <2> SUFFICES ASSUME NEW r \in Runs
               PROVE  /\ Begun(r) => Begun(r)' /\ Now(r)'.inst = Now(r).inst
                      /\ Ended(r) => Ended(r)'
    BY DEF ViewsKept
  <2>1. Now(r)' = IF e.run = r THEN e ELSE Now(r)
    BY <1>2, NowAppend
  <2>2. e.status # "none"
    BY DEF Events, ActiveStatuses, TerminalStatuses
  <2>3. e.run = r /\ Begun(r) => Now(r).inst = e.inst /\ <<Now(r).status, e.status>> \in Transitions
    BY <1>2 DEF ValidEvent, Known, ValidMutation, Now, Begun
  <2>4. Ended(r) => Begun(r)
    BY DEF Ended, Begun, TerminalStatuses
  <2>5. <<Now(r).status, e.status>> \in Transitions /\ Ended(r)
          => e.status \in {"stopping"} \cup TerminalStatuses
    BY DEF Transitions, Ended, TerminalStatuses
  <2> QED
    BY <2>1, <2>2, <2>3, <2>4, <2>5 DEF Begun, Ended
<1> QED
  BY <1>1, <1>2 DEF Grows

\* A Run settles by the event of a failed start, or of a completing task that
\* found the activation owned.
LEMMA SettlesBy ==
  ASSUME TypeInv, TasksInformed, NEW h \in Hosts, NEW w \in Tasks, JournalMoves(h, w),
         NEW r \in Runs, Settled(r)', ~Settled(r)
  PROVE  /\ task[h][w].run = r
         /\ \/ task[h][w].pc = "failStart" /\ ~IsStarter(task'[h][w])
            \/ task[h][w].pc = "finish" /\ task[h][w].owned
<1> DEFINE t == task[h][w]
<1>1. journal' # journal
  BY DEF Settled, Now
<1>2. /\ t.ev \in Events /\ journal' = Append(journal, t.ev)
      /\ t.pc = "failStart" => ~IsStarter(task'[h][w])
  BY <1>1 DEF JournalMoves
<1>3. Now(r)' = IF t.ev.run = r THEN t.ev ELSE Now(r)
  BY <1>2, NowAppend
<1>4. t.ev.run = r /\ t.ev.status \in {"stopped", "failed"}
  BY <1>3 DEF Settled
<1>5. Informed(t)
  BY DEF TasksInformed
<1>6. t.ev # NoView
  BY <1>2, NoViewType
<1> QED
  BY <1>2, <1>4, <1>5, <1>6 DEF Informed

\* What a task knows stays true.
LEMMA InformedKept ==
  ASSUME ViewsKept, NEW t \in TaskStates, TaskKnows(t), Informed(t)
  PROVE  /\ t.ev # NoView => t.pc \notin {"driverStop", "lostStop", "failedStop"}
         /\ t.ev # NoView /\ t.pc # "hydrate" => t.ev.run = t.run
         /\ t.pc = "claim" /\ t.ev # NoView => t.ev.inst = t.inst
         /\ IsStarter(t) /\ t.pc # "claim" => Begun(t.run)' /\ Now(t.run)'.inst = t.inst
         /\ t.pc = "loss" => Begun(t.run)'
         /\ t.pc \in {"cleanup", "driverStop"} => Ended(t.run)'
         /\ \A r \in Runs : <<r, "cleanup">> \in t.todo => Ended(r)'
         /\ t.ev.status \in {"stopped", "failed"} =>
              t.pc = "failStart" \/ (t.pc = "finish" /\ t.owned)
         /\ t.owned => t.pc \in {"cleanup", "driverStop", "finish"}
<1>1. IsStarter(t) /\ t.pc # "claim" => t.run \in Runs
  BY DEF IsStarter, HoldPoints, TaskKnows, RunPoints, Points
<1>2. t.pc \in {"loss", "cleanup", "driverStop"} => t.run \in Runs
  BY DEF TaskKnows, RunPoints, Points
<1> QED
  BY <1>1, <1>2 DEF ViewsKept, Informed

LEMMA TasksInformedStep ==
  ASSUME TypeInv, TasksInformed, Grows, NEW h \in Hosts, NEW w \in Tasks,
         OthersKept(h, w), Informed(task[h][w])'
  PROVE  TasksInformed'
<1>1. ViewsKept
  BY GrowthKeepsViews
<1> SUFFICES ASSUME NEW g \in Hosts, NEW v \in Tasks, ~(g = h /\ v = w)
             PROVE  Informed(task[g][v])'
  BY DEF TasksInformed
<1>2. task'[g][v] = task[g][v]
  BY DEF OthersKept
<1>3. task[g][v] \in TaskStates /\ TaskKnows(task[g][v]) /\ Informed(task[g][v])
  BY DEF TypeInv, TypeOK, TasksKnow, TasksInformed
<1> QED
  BY <1>1, <1>2, <1>3, InformedKept DEF Informed

LEMMA StartsLockedStep ==
  ASSUME TypeInv, StartsLocked, NEW h \in Hosts, NEW w \in Tasks,
         OthersKept(h, w), LocksKept(h, w)
  PROVE  StartsLocked'
BY DEF StartsLocked, OthersKept, LocksKept

LEMMA DownIsIdleStep ==
  ASSUME DownIsIdle, NEW h \in Hosts, NEW w \in Tasks, OthersKept(h, w), HostServes(h)
  PROVE  DownIsIdle'
BY DEF DownIsIdle, OthersKept, HostServes
-----------------------------------------------------------------------------
(* Every shape keeps the invariant.                                        *)

\* The facts about one step that the following lemmas share.
StepContext(h, w) ==
  /\ TypeInv /\ ActivationInv /\ TaskStep(h, w) /\ Shape(h, w) /\ ViewsKept

LEMMA StarterRuns ==
  ASSUME TypeInv
  PROVE  \A h \in Hosts, w \in Tasks : IsStarter(task[h][w]) => task[h][w].run \in Runs
BY DEF TypeInv, TasksKnow, TaskKnows, IsStarter, HoldPoints, RunPoints, Points

LEMMA StarterRunsNext ==
  ASSUME TypeInv'
  PROVE  \A h \in Hosts, w \in Tasks : IsStarter(task'[h][w]) => task'[h][w].run \in Runs
BY DEF TypeInv, TasksKnow, TaskKnows, IsStarter, HoldPoints, RunPoints, Points

\* A Run that is drawn has no starter, no activation and no owner yet.
LEMMA DrawnIsNew ==
  ASSUME TypeInv, ActivationInv, NEW r \in Runs, Now(r) = NoView,
         \A g \in Hosts, v \in Tasks : task[g][v].ev.run # r
  PROVE  /\ \A g \in Hosts, v \in Tasks : ~Starter(g, v, r)
         /\ \A g \in Hosts : active[g][r] = "none" /\ r \notin live[g]
         /\ \A g \in Hosts, v \in Tasks : task[g][v].owned => task[g][v].run # r
         /\ ~Settled(r)
<1>1. ~Begun(r) /\ ~Settled(r)
  BY DEF Begun, NoView, Settled
<1>2. ASSUME NEW g \in Hosts, NEW v \in Tasks PROVE ~Starter(g, v, r)
  <2>1. Informed(task[g][v])
    BY DEF ActivationInv, TasksInformed
  <2> QED
    BY <1>1, <2>1 DEF Starter, IsStarter, Informed, HoldPoints
<1>3. \A g \in Hosts : active[g][r] = "none" /\ r \notin live[g]
  BY <1>1 DEF ActivationInv, OwnerInv, LiveInv
<1>4. \A g \in Hosts, v \in Tasks : task[g][v].owned => task[g][v].run # r
  BY <1>1 DEF ActivationInv, OwnedInv
<1> QED
  BY <1>1, <1>2, <1>3, <1>4

\* The starters after a step: the old ones, and the one that draws.
LEMMA StartersAfter ==
  ASSUME NEW h \in Hosts, NEW w \in Tasks, StepContext(h, w)
  PROVE  /\ \A g \in Hosts, v \in Tasks, r \in Runs :
              Starter(g, v, r)' =>
                \/ Starter(g, v, r) /\ ~(g = h /\ v = w)
                \/ g = h /\ v = w /\ Starter(g, v, r) /\ task'[h][w].inst = task[h][w].inst
                \/ g = h /\ v = w /\ task'[h][w].run = r
                     /\ Draws(h, w, task[h][w], task'[h][w])
<1>1. \A g \in Hosts, v \in Tasks, r \in Runs :
        ~(g = h /\ v = w) => (Starter(g, v, r)' <=> Starter(g, v, r))
  BY DEF StepContext, TaskStep, OthersKept, Starter
<1>2. ASSUME NEW r \in Runs, Starter(h, w, r)'
      PROVE  \/ Starter(h, w, r) /\ task'[h][w].inst = task[h][w].inst
             \/ task'[h][w].run = r /\ Draws(h, w, task[h][w], task'[h][w])
  <2> DEFINE t == task[h][w]
             u == task'[h][w]
  <2>1. IsStarter(u) /\ u.run = r
    BY <1>2 DEF Starter
  <2>2. ~HandsOver(h, w, t, u) /\ ~Undoes(h, w, t, u) /\ ~Abandons(h, w, t, u)
    BY <2>1 DEF HandsOver, Undoes, Abandons, Rests
  <2>3. ~Takes(h, w, t, u) /\ ~Stopped(h, w, t, u) /\ ~StopFailed(h, w, t, u)
    BY <2>1 DEF Takes, Stopped, StopFailed, Rests, IsStarter, HoldPoints
  <2>4. ~Works(h, w, t, u)
    BY <2>1 DEF Works
  <2>5. Advances(h, w, t, u) \/ Activates(h, w, t, u) \/ Withdraws(h, w, t, u)
          \/ Draws(h, w, t, u)
    BY <2>2, <2>3, <2>4 DEF StepContext, Shape
  <2> QED
    BY <2>1, <2>5 DEF Advances, Activates, Withdraws, Starter, IsStarter, HoldPoints
<1> QED
  BY <1>1, <1>2

LEMMA OneStarterStep ==
  ASSUME NEW h \in Hosts, NEW w \in Tasks, StepContext(h, w), TypeInv'
  PROVE  OneStarter'
<1> SUFFICES ASSUME NEW a \in Hosts, NEW b \in Hosts, NEW v \in Tasks, NEW x \in Tasks,
                    NEW r \in Runs, Starter(a, v, r)', Starter(b, x, r)'
             PROVE  a = b /\ v = x
  BY StarterRunsNext DEF OneStarter, Starter
<1>1. \A g \in Hosts, y \in Tasks, q \in Hosts, z \in Tasks :
         Starter(g, y, r) /\ Starter(q, z, r) => g = q /\ y = z
  BY DEF StepContext, ActivationInv, OneStarter, Starter
<1>2. Draws(h, w, task[h][w], task'[h][w]) /\ task'[h][w].run = r
        => \A g \in Hosts, y \in Tasks : ~Starter(g, y, r)
  BY DrawnIsNew DEF StepContext, Draws
<1> QED
  BY <1>1, <1>2, StartersAfter
\* What a registry owns after a step: what it owned, or what a starter hands
\* over.
LEMMA ActivesAfter ==
  ASSUME NEW h \in Hosts, NEW w \in Tasks, StepContext(h, w)
  PROVE  \A g \in Hosts, r \in Runs :
           active'[g][r] # "none" =>
             \/ active[g][r] # "none"
             \/ g = h /\ r = task[h][w].run /\ HandsOver(h, w, task[h][w], task'[h][w])
<1> DEFINE t == task[h][w]
           u == task'[h][w]
<1> SUFFICES ASSUME NEW g \in Hosts, NEW r \in Runs, active'[g][r] # "none",
                    active[g][r] = "none"
             PROVE  g = h /\ r = t.run /\ HandsOver(h, w, t, u)
  OBVIOUS
<1>1. ~SameActive
  BY DEF SameActive
<1>2. HandsOver(h, w, t, u) \/ Takes(h, w, t, u) \/ Stopped(h, w, t, u) \/ StopFailed(h, w, t, u)
  BY <1>1 DEF StepContext, Shape, Draws, Advances, Activates, Withdraws, Undoes, Abandons, Works
<1>3. t.pc = "driverStop" => t.run \in Runs /\ active[h][t.run] = "cleaning"
  BY DEF StepContext, TypeInv, TasksKnow, TaskKnows, RunPoints, Points, ActivationInv,
         OwnerInv, Stops
<1>4. ~Takes(h, w, t, u)
  BY DEF Takes, ActiveBecomes
<1>5. ~Stopped(h, w, t, u)
  BY DEF Stopped, ActiveBecomes
<1>6. ~StopFailed(h, w, t, u)
  BY <1>3 DEF StopFailed, ActiveBecomes
<1>7. HandsOver(h, w, t, u)
  BY <1>2, <1>4, <1>5, <1>6
<1> QED
  BY <1>7 DEF HandsOver, ActiveBecomes

\* What is activated after a step: what was, or what a starter activates.
LEMMA LivesAfter ==
  ASSUME NEW h \in Hosts, NEW w \in Tasks, StepContext(h, w)
  PROVE  \A g \in Hosts, r \in Runs :
           r \in live'[g] =>
             \/ r \in live[g]
             \/ /\ g = h /\ r = task[h][w].run /\ task[h][w].pc = "activate"
                /\ \/ Activates(h, w, task[h][w], task'[h][w])
                   \/ Abandons(h, w, task[h][w], task'[h][w])
<1> DEFINE t == task[h][w]
           u == task'[h][w]
<1> SUFFICES ASSUME NEW g \in Hosts, NEW r \in Runs, r \in live'[g], r \notin live[g]
             PROVE  /\ g = h /\ r = t.run /\ t.pc = "activate"
                    /\ Activates(h, w, t, u) \/ Abandons(h, w, t, u)
  OBVIOUS
<1>1. ~SameLive /\ ~LiveLoses(h, t.run)
  BY DEF SameLive, LiveLoses
<1>2. Activates(h, w, t, u) \/ Abandons(h, w, t, u)
  BY <1>1 DEF StepContext, Shape, Draws, Advances, Withdraws, HandsOver, Undoes, Takes,
              Stopped, StopFailed, Works
<1>3. LiveGains(h, t.run) /\ t.pc = "activate"
  BY <1>1, <1>2 DEF Activates, Abandons
<1> QED
  BY <1>2, <1>3 DEF LiveGains

\* The Run of a step that hands over or activates is its starter's.
LEMMA ActingStarter ==
  ASSUME NEW h \in Hosts, NEW w \in Tasks, StepContext(h, w),
         Held(task[h][w]) \/ task[h][w].pc = "activate"
  PROVE  /\ task[h][w].run \in Runs /\ Starter(h, w, task[h][w].run)
         /\ Begun(task[h][w].run)
         /\ \A g \in Hosts : active[g][task[h][w].run] = "none"
<1> DEFINE t == task[h][w]
<1>1. IsStarter(t) /\ t.pc # "claim"
  BY DEF Held, IsStarter, HoldPoints
<1>2. t.run \in Runs /\ Informed(t)
  BY <1>1, StarterRuns DEF StepContext, ActivationInv, TasksInformed
<1>3. Starter(h, w, t.run) /\ Begun(t.run)
  BY <1>1, <1>2 DEF Starter, Informed
<1> QED
  BY <1>2, <1>3 DEF StepContext, ActivationInv, OwnerInv

LEMMA OwnedStep ==
  ASSUME NEW h \in Hosts, NEW w \in Tasks, StepContext(h, w),
         NEW a \in Hosts, NEW r \in Runs, active'[a][r] # "none"
  PROVE  /\ Begun(r)'
         /\ \A g \in Hosts, v \in Tasks : ~Starter(g, v, r)'
         /\ \A g \in Hosts \ {a} : r \notin live'[g]
<1> DEFINE t == task[h][w]
           u == task'[h][w]
<1>1. CASE active[a][r] # "none"
  <2>1. /\ Begun(r) /\ \A g \in Hosts, v \in Tasks : ~Starter(g, v, r)
        /\ \A g \in Hosts \ {a} : r \notin live[g]
    BY <1>1 DEF StepContext, ActivationInv, OwnerInv
  <2>2. Begun(r)'
    BY <2>1 DEF StepContext, ViewsKept
  <2>3. ~(Draws(h, w, t, u) /\ u.run = r)
    BY <1>1, DrawnIsNew DEF StepContext, Draws
  <2>4. \A g \in Hosts, v \in Tasks : ~Starter(g, v, r)'
    BY <2>1, <2>3, StartersAfter
  <2>5. \A g \in Hosts \ {a} : r \notin live'[g]
    BY <2>1, LivesAfter, ActingStarter
  <2> QED
    BY <2>2, <2>4, <2>5
<1>2. CASE active[a][r] = "none"
  <2>1. a = h /\ r = t.run /\ HandsOver(h, w, t, u)
    BY <1>2, ActivesAfter
  <2>2. Held(t) /\ Rests(u) /\ SameLive
    BY <2>1 DEF HandsOver
  <2>3. Starter(h, w, r) /\ Begun(r)
    BY <2>1, <2>2, ActingStarter
  <2>4. Begun(r)'
    BY <2>3 DEF StepContext, ViewsKept
  <2>5. \A g \in Hosts, v \in Tasks : Starter(g, v, r) => g = h /\ v = w
    BY <2>3 DEF StepContext, ActivationInv, OneStarter, Starter
  <2>6. ~Draws(h, w, t, u) /\ ~Starter(h, w, r)'
    BY <2>2 DEF Draws, Held, HoldPoints, Rests, Starter
  <2>7. \A g \in Hosts, v \in Tasks : ~Starter(g, v, r)'
    BY <2>5, <2>6, StartersAfter
  <2>8. \A g \in Hosts : r \in live[g] => g = h
    BY <2>3 DEF StepContext, ActivationInv, LiveInv
  <2> QED
    BY <2>1, <2>2, <2>4, <2>7, <2>8 DEF SameLive
<1> QED
  BY <1>1, <1>2

\* The tasks inside driver.stop after a step: the old ones, and the one that
\* takes an activation.
LEMMA StopsAfter ==
  ASSUME NEW h \in Hosts, NEW w \in Tasks, StepContext(h, w)
  PROVE  \A g \in Hosts, v \in Tasks, r \in Runs :
           Stops(g, v, r)' =>
             \/ Stops(g, v, r) /\ ~(g = h /\ v = w)
             \/ g = h /\ v = w /\ r = task[h][w].run /\ Takes(h, w, task[h][w], task'[h][w])
<1> DEFINE t == task[h][w]
           u == task'[h][w]
<1>1. \A g \in Hosts, v \in Tasks, r \in Runs :
        ~(g = h /\ v = w) => (Stops(g, v, r)' <=> Stops(g, v, r))
  BY DEF StepContext, TaskStep, OthersKept, Stops
<1>2. ASSUME NEW r \in Runs, Stops(h, w, r)'
      PROVE  r = t.run /\ Takes(h, w, t, u)
  <2>1. u.pc = "driverStop" /\ u.run = r
    BY <1>2 DEF Stops
  <2>2. ~IsStarter(u) /\ ~Rests(u)
    BY <2>1 DEF IsStarter, HoldPoints, Rests
  <2>3. Takes(h, w, t, u)
    BY <2>1, <2>2
       DEF StepContext, Shape, Draws, Advances, Activates, Withdraws, HandsOver, Undoes,
           Abandons, Stopped, StopFailed, Works
  <2> QED
    BY <2>1, <2>3 DEF Takes
<1> QED
  BY <1>1, <1>2

LEMMA OwnerStep ==
  ASSUME NEW h \in Hosts, NEW w \in Tasks, StepContext(h, w)
  PROVE  OwnerInv'
<1> DEFINE t == task[h][w]
           u == task'[h][w]
<1>1. \A g \in Hosts, v \in Tasks, r \in Runs : Stops(g, v, r) => active[g][r] = "cleaning"
  BY DEF StepContext, ActivationInv, OwnerInv
<1>2. \A g \in Hosts, v, x \in Tasks, r \in Runs : Stops(g, v, r) /\ Stops(g, x, r) => v = x
  BY DEF StepContext, ActivationInv, OwnerInv
<1>3. ASSUME NEW g \in Hosts, NEW v \in Tasks, NEW r \in Runs, Stops(g, v, r)'
      PROVE  active'[g][r] = "cleaning"
  <2>1. CASE g = h /\ v = w /\ r = t.run /\ Takes(h, w, t, u)
    BY <2>1 DEF Takes, ActiveBecomes
  <2>2. CASE Stops(g, v, r) /\ ~(g = h /\ v = w)
    <3>1. active[g][r] = "cleaning"
      BY <1>1, <2>2
    <3> SUFFICES ASSUME active'[g][r] # active[g][r] PROVE FALSE
      BY <3>1
    <3>2. ~SameActive
      BY DEF SameActive
    <3>3. HandsOver(h, w, t, u) \/ Takes(h, w, t, u) \/ Stopped(h, w, t, u)
            \/ StopFailed(h, w, t, u)
      BY <3>2 DEF StepContext, Shape, Draws, Advances, Activates, Withdraws, Undoes,
                  Abandons, Works
    <3>4. g = h /\ r = t.run
      BY <3>3 DEF HandsOver, Takes, Stopped, StopFailed, ActiveBecomes
    <3>5. ~Takes(h, w, t, u)
      BY <3>1, <3>4 DEF Takes
    <3>6. ~HandsOver(h, w, t, u)
      BY <3>1, <3>4, ActingStarter DEF HandsOver
    <3>7. t.pc = "driverStop"
      BY <3>3, <3>5, <3>6 DEF Stopped, StopFailed
    <3>8. Stops(h, w, r)
      BY <3>4, <3>7 DEF Stops
    <3> QED
      BY <1>2, <2>2, <3>4, <3>8
  <2> QED
    BY <1>3, <2>1, <2>2, StopsAfter
<1>4. ASSUME NEW g \in Hosts, NEW v \in Tasks, NEW x \in Tasks, NEW r \in Runs,
             Stops(g, v, r)', Stops(g, x, r)'
      PROVE  v = x
  <2>1. Takes(h, w, t, u) => active[h][t.run] = "available"
    BY DEF Takes
  <2> QED
    BY <1>1, <1>2, <1>4, <2>1, StopsAfter
<1> QED
  BY <1>3, <1>4, OwnedStep DEF OwnerInv
LEMMA LiveStep ==
  ASSUME NEW h \in Hosts, NEW w \in Tasks, StepContext(h, w), TypeInv'
  PROVE  LiveInv'
<1> DEFINE t == task[h][w]
           u == task'[h][w]
<1>1. \A g \in Hosts : live[g] \subseteq Runs /\ live'[g] \subseteq Runs
  BY DEF StepContext, TypeInv, TypeOK, HostType
<1>2. ASSUME NEW g \in Hosts, NEW r \in live'[g] PROVE Begun(r)'
  <2>1. Begun(r)
    BY <1>1, LivesAfter, ActingStarter DEF StepContext, ActivationInv, LiveInv
  <2> QED
    BY <1>1, <2>1 DEF StepContext, ViewsKept
<1>3. ASSUME NEW g \in Hosts, NEW b \in Hosts, NEW x \in Tasks, NEW r \in live'[g],
             Starter(b, x, r)'
      PROVE  g = b /\ Held(task'[b][x])
  <2>0. r \in Runs
    BY <1>1
  <2>1. CASE r \notin live[g]
    <3>1. /\ g = h /\ r = t.run /\ t.pc = "activate"
          /\ Activates(h, w, t, u) \/ Abandons(h, w, t, u)
      BY <2>0, <2>1, LivesAfter
    <3>2. Starter(h, w, r)
      BY <3>1, ActingStarter
    <3>3. ~Draws(h, w, t, u)
      BY <3>1 DEF Draws
    <3>4. b = h /\ x = w
      BY <1>3, <2>0, <3>2, <3>3, StartersAfter DEF StepContext, ActivationInv, OneStarter, Starter
    <3>5. ~Abandons(h, w, t, u)
      BY <1>3, <3>4 DEF Abandons, Rests, Starter
    <3> QED
      BY <3>1, <3>4, <3>5 DEF Activates, Held, HoldPoints
  <2>2. CASE r \in live[g]
    <3>1. Starter(b, x, r) => g = b /\ Held(task[b][x])
      BY <2>0, <2>2 DEF StepContext, ActivationInv, LiveInv
    <3>2. CASE Starter(b, x, r) /\ ~(b = h /\ x = w)
      BY <3>1, <3>2 DEF StepContext, TaskStep, OthersKept
    <3>3. CASE b = h /\ x = w /\ Draws(h, w, t, u) /\ u.run = r
      BY <2>0, <2>2, <3>3, DrawnIsNew DEF StepContext, Draws
    <3>4. CASE b = h /\ x = w /\ Starter(b, x, r)
      <4>1. g = h /\ Held(t) /\ t.run = r /\ IsStarter(u)
        BY <1>3, <3>1, <3>4 DEF Starter
      <4>2. ~Withdraws(h, w, t, u) /\ ~Undoes(h, w, t, u)
        BY <1>3, <4>1 DEF Withdraws, Undoes, LiveLoses
      <4>3. ~Draws(h, w, t, u) /\ ~Activates(h, w, t, u) /\ ~Takes(h, w, t, u)
        BY <4>1 DEF Draws, Activates, Takes, Held, HoldPoints
      <4>4. ~HandsOver(h, w, t, u) /\ ~Abandons(h, w, t, u) /\ ~Works(h, w, t, u)
        BY <4>1 DEF HandsOver, Abandons, Works, Rests
      <4>5. ~Stopped(h, w, t, u) /\ ~StopFailed(h, w, t, u)
        BY <4>1 DEF Stopped, StopFailed, Held, HoldPoints
      <4>6. Advances(h, w, t, u)
        BY <4>2, <4>3, <4>4, <4>5 DEF StepContext, Shape
      <4> QED
        BY <3>4, <4>1, <4>6 DEF Advances
    <3> QED
      BY <1>3, <2>0, <3>2, <3>3, <3>4, StartersAfter
  <2> QED
    BY <2>1, <2>2
<1> QED
  BY <1>2, <1>3 DEF LiveInv

\* An activation leaves the registry only together with the driver.
LEMMA OwnedOrGone ==
  ASSUME NEW h \in Hosts, NEW w \in Tasks, StepContext(h, w),
         NEW g \in Hosts, NEW r \in Runs, active[g][r] # "none", r \in live'[g]
  PROVE  active'[g][r] # "none"
<1> DEFINE t == task[h][w]
           u == task'[h][w]
<1> SUFFICES ASSUME active'[g][r] = "none" PROVE FALSE
  OBVIOUS
<1>1. ~SameActive
  BY DEF SameActive
<1>2. HandsOver(h, w, t, u) \/ Takes(h, w, t, u) \/ Stopped(h, w, t, u) \/ StopFailed(h, w, t, u)
  BY <1>1 DEF StepContext, Shape, Draws, Advances, Activates, Withdraws, Undoes, Abandons, Works
<1>3. Stopped(h, w, t, u) /\ g = h /\ r = t.run
  BY <1>2 DEF HandsOver, Takes, Stopped, StopFailed, ActiveBecomes
<1> QED
  BY <1>3 DEF Stopped, LiveLoses

LEMMA OwnedFlagStep ==
  ASSUME NEW h \in Hosts, NEW w \in Tasks, StepContext(h, w)
  PROVE  OwnedInv'
<1> DEFINE t == task[h][w]
           u == task'[h][w]
\* The Run of an owned flag keeps its start over.
<1>2. ASSUME NEW r \in Runs, Begun(r), \A g \in Hosts, v \in Tasks : ~Starter(g, v, r)
      PROVE  /\ Begun(r)'
             /\ \A g \in Hosts, v \in Tasks : ~Starter(g, v, r)'
             /\ \A g \in Hosts : r \in live'[g] => r \in live[g]
  <2>1. Begun(r)'
    BY <1>2 DEF StepContext, ViewsKept
  <2>2. ~(Draws(h, w, t, u) /\ u.run = r)
    BY <1>2 DEF Draws, Begun, NoView
  <2>3. \A g \in Hosts, v \in Tasks : ~Starter(g, v, r)'
    BY <1>2, <2>2, StartersAfter
  <2>4. \A g \in Hosts : r \in live'[g] => r \in live[g]
    BY <1>2, LivesAfter, ActingStarter
  <2> QED
    BY <2>1, <2>3, <2>4
<1>3. ASSUME NEW a \in Hosts, NEW v \in Tasks, ~(a = h /\ v = w), NEW r \in Runs,
             task'[a][v].owned, task'[a][v].run = r
      PROVE  /\ Begun(r)'
             /\ \A g \in Hosts, x \in Tasks : ~Starter(g, x, r)'
             /\ \A g \in Hosts : r \in live'[g] =>
                  g = a /\ active'[a][r] # "none" /\ task'[a][v].pc # "finish"
  <2>1. task'[a][v] = task[a][v]
    BY <1>3 DEF StepContext, TaskStep, OthersKept
  <2>3. /\ Begun(r) /\ \A g \in Hosts, x \in Tasks : ~Starter(g, x, r)
        /\ \A g \in Hosts : r \in live[g] =>
             g = a /\ active[a][r] # "none" /\ task[a][v].pc # "finish"
    BY <1>3, <2>1 DEF StepContext, ActivationInv, OwnedInv
  <2>4. /\ Begun(r)' /\ \A g \in Hosts, x \in Tasks : ~Starter(g, x, r)'
        /\ \A g \in Hosts : r \in live'[g] => r \in live[g]
    BY <1>2, <2>3
  <2>5. r \in live'[a] /\ active[a][r] # "none" => active'[a][r] # "none"
    BY OwnedOrGone
  <2> QED
    BY <2>1, <2>3, <2>4, <2>5
<1>4. ASSUME NEW r \in Runs, u.owned, u.run = r
      PROVE  /\ Begun(r)'
             /\ \A g \in Hosts, x \in Tasks : ~Starter(g, x, r)'
             /\ \A g \in Hosts : r \in live'[g] =>
                  g = h /\ active'[h][r] # "none" /\ u.pc # "finish"
  <2>1. Takes(h, w, t, u) \/ Stopped(h, w, t, u) \/ Works(h, w, t, u)
    BY <1>4 DEF StepContext, Shape, Draws, Advances, Activates, Withdraws, HandsOver, Undoes,
                Abandons, StopFailed, Rests
  <2>2. t.run = r
    BY <1>4, <2>1 DEF Takes, Stopped, Works, Rests
  <2>3. \/ t.owned
        \/ Works(h, w, t, u) /\ u.pc # "finish" /\ active[h][r] # "none"
    BY <1>4, <2>1, <2>2 DEF Takes, Stopped, Works, Rests
  <2>5. /\ Begun(r) /\ \A g \in Hosts, x \in Tasks : ~Starter(g, x, r)
        /\ \A g \in Hosts : r \in live[g] => g = h /\ active[h][r] # "none"
    BY <2>2, <2>3 DEF StepContext, ActivationInv, OwnedInv, OwnerInv
  <2>6. /\ Begun(r)' /\ \A g \in Hosts, x \in Tasks : ~Starter(g, x, r)'
        /\ \A g \in Hosts : r \in live'[g] => r \in live[g]
    BY <1>2, <2>5
  <2>7. r \in live'[h] => active'[h][r] # "none"
    BY <2>5, <2>6, OwnedOrGone
  <2>8. \A g \in Hosts : r \in live'[g] => u.pc # "finish"
    <3> SUFFICES ASSUME NEW g \in Hosts, r \in live'[g], u.pc = "finish" PROVE FALSE
      OBVIOUS
    <3>1. g = h /\ r \in live[h] /\ active[h][r] # "none"
      BY <2>5, <2>6
    <3>2. ~Takes(h, w, t, u) /\ ~Stopped(h, w, t, u)
      BY <2>2, <3>1 DEF Takes, Stopped, LiveLoses
    <3>3. t.owned /\ t.pc = "finish"
      BY <1>4, <2>1, <2>2, <3>1, <3>2 DEF Works
    <3> QED
      BY <2>2, <3>1, <3>3 DEF StepContext, ActivationInv, OwnedInv
  <2> QED
    BY <2>5, <2>6, <2>7, <2>8
<1> QED
  BY <1>3, <1>4 DEF OwnedInv

LEMMA SettledStep ==
  ASSUME NEW h \in Hosts, NEW w \in Tasks, StepContext(h, w)
  PROVE  SettledInv'
<1> DEFINE t == task[h][w]
           u == task'[h][w]
<1> SUFFICES ASSUME NEW r \in Runs, Settled(r)'
             PROVE  /\ \A g \in Hosts : r \notin live'[g]
                    /\ \A g \in Hosts, v \in Tasks : ~Starter(g, v, r)'
  BY DEF SettledInv
<1>1. ASSUME \A g \in Hosts : r \notin live[g],
             \A g \in Hosts, v \in Tasks : ~Starter(g, v, r)',
             t.pc = "activate" => ~Starter(h, w, r)
      PROVE  \A g \in Hosts : r \notin live'[g]
  BY <1>1, LivesAfter, ActingStarter
<1>2. CASE Settled(r)
  <2>1. /\ \A g \in Hosts : r \notin live[g]
        /\ \A g \in Hosts, v \in Tasks : ~Starter(g, v, r)
    BY <1>2 DEF StepContext, ActivationInv, SettledInv
  <2>2. ~(Draws(h, w, t, u) /\ u.run = r)
    BY <1>2 DEF Draws, Settled, NoView
  <2>3. \A g \in Hosts, v \in Tasks : ~Starter(g, v, r)'
    BY <2>1, <2>2, StartersAfter
  <2> QED
    BY <1>1, <2>1, <2>3
<1>3. CASE ~Settled(r)
  <2>1. /\ t.run = r
        /\ \/ t.pc = "failStart" /\ ~IsStarter(u)
           \/ t.pc = "finish" /\ t.owned
    BY <1>3, SettlesBy DEF StepContext, ActivationInv, TaskStep
  <2>2. ~Draws(h, w, t, u) /\ t.pc # "activate"
    BY <2>1 DEF Draws
  <2>3. CASE t.pc = "failStart" /\ ~IsStarter(u)
    <3>1. Starter(h, w, r) /\ ~Held(t) /\ ~Starter(h, w, r)'
      BY <2>1, <2>3 DEF Starter, IsStarter, Held, HoldPoints
    <3>2. \A g \in Hosts, v \in Tasks : ~Starter(g, v, r)'
      BY <2>2, <3>1, StartersAfter DEF StepContext, ActivationInv, OneStarter, Starter
    <3>3. \A g \in Hosts : r \notin live[g]
      BY <3>1 DEF StepContext, ActivationInv, LiveInv
    <3> QED
      BY <1>1, <2>2, <3>2, <3>3
  <2>4. CASE t.pc = "finish" /\ t.owned
    <3>1. /\ \A g \in Hosts, v \in Tasks : ~Starter(g, v, r)
          /\ \A g \in Hosts : r \notin live[g]
      BY <2>1, <2>4 DEF StepContext, ActivationInv, OwnedInv
    <3>2. \A g \in Hosts, v \in Tasks : ~Starter(g, v, r)'
      BY <2>2, <3>1, StartersAfter
    <3> QED
      BY <1>1, <3>1, <3>2
  <2> QED
    BY <2>1, <2>3, <2>4
<1> QED
  BY <1>2, <1>3
\* The Installation of an owned activation is the journal's, before and after.
LEMMA InstKept ==
  ASSUME NEW h \in Hosts, NEW w \in Tasks, StepContext(h, w),
         NEW g \in Hosts, NEW r \in Runs, active[g][r] # "none"
  PROVE  Now(r)'.inst = Now(r).inst
<1>1. Begun(r)
  BY DEF StepContext, ActivationInv, OwnerInv
<1> QED
  BY <1>1 DEF StepContext, ViewsKept

\* The Installation of an activation that is handed over is its start's.
LEMMA HandedInst ==
  ASSUME NEW h \in Hosts, NEW w \in Tasks, StepContext(h, w), Held(task[h][w])
  PROVE  Now(task[h][w].run).inst = task[h][w].inst
<1>1. Informed(task[h][w]) /\ IsStarter(task[h][w]) /\ task[h][w].pc # "claim"
  BY DEF StepContext, ActivationInv, TasksInformed, Held, IsStarter, HoldPoints
<1> QED
  BY <1>1 DEF Informed

LEMMA InstallationStep ==
  ASSUME NEW h \in Hosts, NEW w \in Tasks, StepContext(h, w), TypeInv'
  PROVE  InstallationInv'
<1> DEFINE t == task[h][w]
           u == task'[h][w]
\* The activations of a Host after the step, with their Installations.
<1>1. ASSUME NEW g \in Hosts, NEW r \in Runs, active'[g][r] # "none"
      PROVE  /\ Now(r)'.inst = Now(r).inst
             /\ \/ active[g][r] # "none"
                \/ /\ g = h /\ r = t.run /\ Now(r).inst = t.inst
                   /\ IsStarter(t) /\ ~IsStarter(u)
  <2>1. CASE active[g][r] # "none"
    BY <2>1, InstKept
  <2>2. CASE active[g][r] = "none"
    <3>1. g = h /\ r = t.run /\ HandsOver(h, w, t, u)
      BY <1>1, <2>2, ActivesAfter
    <3>2. Held(t) /\ IsStarter(t) /\ ~IsStarter(u)
      BY <3>1 DEF HandsOver, Held, IsStarter, Rests
    <3>3. Now(r).inst = t.inst
      BY <3>1, <3>2, HandedInst
    <3>4. Begun(r)
      BY <3>1, <3>2, ActingStarter
    <3>5. Now(r)'.inst = Now(r).inst
      BY <3>4 DEF StepContext, ViewsKept
    <3> QED
      BY <3>1, <3>2, <3>3, <3>5
  <2> QED
    BY <2>1, <2>2
<1>2. \A g \in Hosts, x \in Tasks, s \in Runs :
        IsStarter(task[g][x]) /\ active[g][s] # "none" => Now(s).inst # task[g][x].inst
  BY DEF StepContext, ActivationInv, InstallationInv
<1>3. ASSUME NEW g \in Hosts, NEW r \in Runs, NEW s \in Runs, active'[g][r] # "none",
             active'[g][s] # "none", Now(r)'.inst = Now(s)'.inst
      PROVE  r = s
  <2>1. active[g][r] # "none" /\ active[g][s] # "none" /\ Now(r).inst = Now(s).inst => r = s
    BY DEF StepContext, ActivationInv, InstallationInv
  <2> QED
    BY <1>1, <1>2, <1>3, <2>1
<1>4. ASSUME NEW g \in Hosts, NEW x \in Tasks, NEW s \in Runs, IsStarter(task'[g][x]),
             active'[g][s] # "none"
      PROVE  Now(s)'.inst # task'[g][x].inst
  <2>1. task'[g][x].run \in Runs
    BY <1>4, StarterRunsNext
  <2>3. PICK r \in Runs : Starter(g, x, r)'
    BY <1>4, <2>1 DEF Starter
  <2>4. CASE IsStarter(task[g][x]) /\ task'[g][x].inst = task[g][x].inst
    <3>1. CASE active[g][s] # "none"
      BY <1>1, <1>2, <1>4, <2>4, <3>1
    <3>2. CASE active[g][s] = "none"
      <4>1. /\ g = h /\ s = t.run /\ Now(s)'.inst = t.inst
            /\ IsStarter(t) /\ ~IsStarter(u)
        BY <1>1, <1>4, <3>2
      <4>2. x # w
        BY <1>4, <4>1
      <4>3. /\ startLock[h][task[h][x].inst] = x
            /\ startLock[h][t.inst] = w
        BY <2>4, <4>1 DEF StepContext, ActivationInv, StartsLocked, Starting
      <4> QED
        BY <2>4, <4>1, <4>2, <4>3
    <3> QED
      BY <3>1, <3>2
  <2>5. CASE g = h /\ x = w /\ Draws(h, w, t, u)
    <3>1. ~Occupied(h, t.inst) /\ u.inst = t.inst /\ SameActive
      BY <2>5 DEF Draws
    <3>2. active[h][s] # "none"
      BY <1>4, <2>5, <3>1 DEF SameActive
    <3>3. Now(s).inst # t.inst
      BY <3>1, <3>2 DEF Occupied
    <3> QED
      BY <1>1, <1>4, <2>5, <3>1, <3>3
  <2>6. Starter(g, x, r) /\ ~(g = h /\ x = w) => task'[g][x].inst = task[g][x].inst
    BY DEF StepContext, TaskStep, OthersKept
  <2> QED
    BY <2>3, <2>4, <2>5, <2>6, StartersAfter DEF Starter
<1> QED
  BY <1>3, <1>4 DEF InstallationInv

LEMMA AccountedStep ==
  ASSUME NEW h \in Hosts, NEW w \in Tasks, StepContext(h, w), TypeInv'
  PROVE  ActivationAccounted'
<1> DEFINE t == task[h][w]
           u == task'[h][w]
<1> SUFFICES ASSUME NEW g \in Hosts, NEW r \in Runs, r \in live'[g], r \notin dropped'[g],
                    active'[g][r] = "none"
             PROVE  \E x \in Tasks : Holds(g, x, r)'
  BY DEF ActivationAccounted, TypeInv, TypeOK, HostType
<1>1. CASE r \notin live[g]
  <2>1. /\ g = h /\ r = t.run /\ t.pc = "activate"
        /\ Activates(h, w, t, u) \/ Abandons(h, w, t, u)
    BY <1>1, LivesAfter
  <2>2. ~Abandons(h, w, t, u)
    BY <1>1, <2>1 DEF Abandons, SameLive
  <2>3. Holds(h, w, r)'
    BY <2>1, <2>2 DEF Activates, Holds
  <2> QED
    BY <2>1, <2>3
<1>2. CASE r \in live[g]
  <2>1. r \notin dropped[g]
    BY DEF StepContext, TaskStep, DroppedKept
  <2>2. active[g][r] = "none"
    BY OwnedOrGone
  <2>3. PICK x \in Tasks : Holds(g, x, r)
    BY <1>2, <2>1, <2>2 DEF StepContext, ActivationInv, ActivationAccounted
  <2>4. CASE ~(g = h /\ x = w)
    BY <2>3, <2>4 DEF StepContext, TaskStep, OthersKept, Holds
  <2>5. CASE g = h /\ x = w
    <3>1. Held(t) /\ IsStarter(t) /\ t.run = r
      BY <2>3, <2>5 DEF Holds, Held, HoldPoints, IsStarter
    <3>2. ~Withdraws(h, w, t, u) /\ ~Undoes(h, w, t, u)
      BY <2>5, <3>1 DEF Withdraws, Undoes, LiveLoses
    <3>3. ~HandsOver(h, w, t, u)
      BY <2>5, <3>1 DEF HandsOver, ActiveBecomes
    <3>4. ~Abandons(h, w, t, u)
      BY <2>5, <3>1 DEF Abandons
    <3>5. ~Draws(h, w, t, u) /\ ~Activates(h, w, t, u) /\ ~Takes(h, w, t, u)
      BY <3>1 DEF Draws, Activates, Takes, Held, HoldPoints
    <3>6. ~Stopped(h, w, t, u) /\ ~StopFailed(h, w, t, u) /\ ~Works(h, w, t, u)
      BY <3>1 DEF Stopped, StopFailed, Works, Held, HoldPoints
    <3>7. Advances(h, w, t, u)
      BY <3>2, <3>3, <3>4, <3>5, <3>6 DEF StepContext, Shape
    <3>8. Held(u) /\ u.run = r
      BY <3>1, <3>7 DEF Advances
    <3> QED
      BY <2>5, <3>8 DEF Held, HoldPoints, Holds
  <2> QED
    BY <2>4, <2>5
<1> QED
  BY <1>1, <1>2

\* A step of one of the shapes keeps the invariant.
LEMMA ShapeKeeps ==
  ASSUME TypeInv, TypeInv', ActivationInv, Grows, NEW h \in Hosts, NEW w \in Tasks,
         TaskStep(h, w), Shape(h, w)
  PROVE  ActivationInv'
<1>1. StepContext(h, w)
  BY GrowthKeepsViews DEF StepContext
<1>2. DownIsIdle' /\ TasksInformed' /\ StartsLocked'
  BY DownIsIdleStep, TasksInformedStep, StartsLockedStep DEF ActivationInv, TaskStep
<1> QED
  BY <1>1, <1>2, OneStarterStep, OwnerStep, LiveStep, OwnedFlagStep, SettledStep,
     InstallationStep, AccountedStep DEF ActivationInv
\* Nothing that the invariant is about changes.
LEMMA ActivationStutter ==
  ASSUME ActivationInv, UNCHANGED <<journal, phase, active, live, dropped, startLock, task>>
  PROVE  ActivationInv'
<1>1. \A r : Now(r)' = Now(r)
  BY DEF Now
<1>2. \A h \in Hosts, w \in Tasks : Informed(task[h][w]) => Informed(task[h][w])'
  BY <1>1 DEF Informed, Begun, Ended
<1>3. DownIsIdle' /\ TasksInformed' /\ StartsLocked' /\ OneStarter'
  BY <1>2 DEF ActivationInv, DownIsIdle, TasksInformed, StartsLocked, OneStarter
<1>4. OwnerInv' /\ LiveInv'
  BY <1>1 DEF ActivationInv, OwnerInv, LiveInv, Starter, Stops, Begun
<1>5. OwnedInv' /\ SettledInv'
  BY <1>1 DEF ActivationInv, OwnedInv, SettledInv, Starter, Begun, Settled
<1>6. InstallationInv' /\ ActivationAccounted'
  BY <1>1 DEF ActivationInv, InstallationInv, ActivationAccounted, Holds
<1> QED
  BY <1>3, <1>4, <1>5, <1>6 DEF ActivationInv

\* A Host that ends takes its tasks and its activations with it.
LEMMA ResetKeeps ==
  ASSUME ActivationInv, NEW h \in Hosts, Resets(h)
  PROVE  ActivationInv'
<1>1. \A r : Now(r)' = Now(r)
  BY DEF Now, Resets
<1>2. /\ IdleTask.pc = "idle" /\ IdleTask.ev = NoView /\ IdleTask.todo = {}
      /\ IdleTask.owned = FALSE /\ NoView.status = "none"
  BY DEF IdleTask, NoView
<1>3. ~IsStarter(IdleTask) /\ ~Held(IdleTask)
  BY <1>2 DEF IsStarter, HoldPoints, Held
<1>4. /\ \A w \in Tasks : task'[h][w] = IdleTask
      /\ \A g \in Hosts \ {h}, w \in Tasks : task'[g][w] = task[g][w]
  BY DEF Resets
<1>5. /\ \A r \in Runs : active'[h][r] = "none"
      /\ \A g \in Hosts \ {h}, r \in Runs : active'[g][r] = active[g][r]
      /\ live'[h] = {} /\ \A g \in Hosts \ {h} : live'[g] = live[g]
  BY DEF Resets
<1>6. \A g \in Hosts, w \in Tasks, r \in Runs :
        Starter(g, w, r)' <=> g # h /\ Starter(g, w, r)
  BY <1>3, <1>4 DEF Starter
<1>7. TasksInformed'
  <2>1. ASSUME NEW g \in Hosts, NEW w \in Tasks PROVE Informed(task[g][w])'
    <3>1. CASE g = h
      <4>1. task'[g][w] = IdleTask
        BY <1>4, <3>1
      <4> QED
        BY <1>2, <1>3, <4>1 DEF Informed
    <3>2. CASE g # h
      <4>1. task'[g][w] = task[g][w] /\ Informed(task[g][w])
        BY <1>4, <3>2 DEF ActivationInv, TasksInformed
      <4> QED
        BY <1>1, <4>1 DEF Informed, Begun, Ended
    <3> QED
      BY <3>1, <3>2
  <2> QED
    BY <2>1 DEF TasksInformed
<1>8. DownIsIdle'
  BY <1>4 DEF ActivationInv, DownIsIdle, Resets
<1>9. StartsLocked'
  BY <1>2, <1>3, <1>4 DEF ActivationInv, StartsLocked, Starting, Resets
<1>10. OneStarter'
  BY <1>3, <1>4 DEF ActivationInv, OneStarter
<1>11. OwnerInv'
  <2>1. \A g \in Hosts, w \in Tasks, r \in Runs : Stops(g, w, r)' <=> g # h /\ Stops(g, w, r)
    BY <1>2, <1>4 DEF Stops
  <2> QED
    BY <1>1, <1>5, <1>6, <2>1 DEF ActivationInv, OwnerInv, Begun
<1>12. LiveInv'
  <2>1. \A g \in Hosts, w \in Tasks : \A r : Starter(g, w, r)' => g # h /\ Starter(g, w, r)
    BY <1>3, <1>4 DEF Starter
  <2>2. \A g \in Hosts : \A r \in live'[g] : g # h /\ r \in live[g]
    BY <1>5
  <2>3. \A g \in Hosts : \A r \in live'[g] : Begun(r)'
    BY <1>1, <2>2 DEF ActivationInv, LiveInv, Begun
  <2>4. \A a, g \in Hosts, w \in Tasks : \A r \in live'[a] :
          Starter(g, w, r)' => a = g /\ Held(task'[g][w])
    BY <1>4, <2>1, <2>2 DEF ActivationInv, LiveInv
  <2> QED
    BY <2>3, <2>4 DEF LiveInv
<1>13. OwnedInv'
  BY <1>1, <1>2, <1>4, <1>5, <1>6 DEF ActivationInv, OwnedInv, Begun
<1>14. SettledInv'
  BY <1>1, <1>5, <1>6 DEF ActivationInv, SettledInv, Settled
<1>15. InstallationInv'
  BY <1>1, <1>3, <1>4, <1>5 DEF ActivationInv, InstallationInv
<1>16. ActivationAccounted'
  <2>1. \A g \in Hosts \ {h} : dropped'[g] = dropped[g]
    BY DEF Resets
  <2>2. \A g \in Hosts \ {h}, w \in Tasks : \A r : Holds(g, w, r)' <=> Holds(g, w, r)
    BY <1>4 DEF Holds
  <2> SUFFICES ASSUME NEW g \in Hosts, NEW r \in live'[g] \ dropped'[g]
               PROVE  active'[g][r] # "none" \/ \E w \in Tasks : Holds(g, w, r)'
    BY DEF ActivationAccounted
  <2>3. g # h /\ r \in live[g] \ dropped[g]
    BY <1>5, <2>1
  <2>4. active[g][r] # "none" \/ \E w \in Tasks : Holds(g, w, r)
    BY <2>3 DEF ActivationInv, ActivationAccounted
  <2>5. active'[g] = active[g]
    BY <2>3 DEF Resets
  <2> QED
    BY <2>2, <2>3, <2>4, <2>5
<1> QED
  BY <1>7, <1>8, <1>9, <1>10, <1>11, <1>12, <1>13, <1>14, <1>15, <1>16 DEF ActivationInv
-----------------------------------------------------------------------------
(* Every action has one of the shapes.                                     *)

Before == TypeInv /\ ActivationInv /\ ViewsKept

LEMMA TaskFacts ==
  ASSUME Before, NEW h \in Hosts, NEW w \in Tasks
  PROVE  /\ task[h][w] \in TaskStates /\ TaskKnows(task[h][w]) /\ Informed(task[h][w])
         /\ IsStarter(task[h][w]) => ~task[h][w].owned /\ task[h][w].run \in Runs
         /\ task[h][w].pc # "idle" \/ task[h][w].role # "none" => phase[h] # "down"
<1>1. task[h][w] \in TaskStates /\ TaskKnows(task[h][w]) /\ Informed(task[h][w])
  BY DEF Before, TypeInv, TypeOK, TasksKnow, ActivationInv, TasksInformed
<1>2. IsStarter(task[h][w]) => ~task[h][w].owned
  BY <1>1 DEF Informed, IsStarter, HoldPoints
<1>3. IsStarter(task[h][w]) => task[h][w].run \in Runs
  BY StarterRuns DEF Before
<1>4. IdleTask.pc = "idle" /\ IdleTask.role = "none"
  BY DEF IdleTask
<1>5. task[h][w].pc # "idle" \/ task[h][w].role # "none" => phase[h] # "down"
  BY <1>4 DEF Before, ActivationInv, DownIsIdle
<1> QED
  BY <1>1, <1>2, <1>3, <1>5

LEMMA TaskSet ==
  ASSUME TypeInv, NEW h \in Hosts, NEW w \in Tasks, NEW x, SetTask(h, w, x)
  PROVE  OthersKept(h, w) /\ task'[h][w] = x
BY DEF TypeInv, TypeOK, SetTask, OthersKept

LEMMA LandMoves ==
  ASSUME TypeInv, NEW h \in Hosts, NEW w \in Tasks, task[h][w].ev # NoView, Land(h, w),
         task[h][w].pc = "failStart" => ~IsStarter(task'[h][w])
  PROVE  JournalMoves(h, w)
<1>1. task[h][w].ev \in Events
  BY LandType DEF TypeInv
<1> QED
  BY <1>1 DEF JournalMoves, Land, CasWins

\* A task that returns rests, and leaves the other tasks their locks.
LEMMA ReturnStep ==
  ASSUME Before, NEW h \in Hosts, NEW w \in Tasks, NEW ok, Return(h, w, ok),
         task[h][w].pc # "idle" \/ task[h][w].role # "none", UNCHANGED phase, DroppedKept,
         journal' = journal \/ (task[h][w].ev # NoView /\ Land(h, w))
  PROVE  TaskStep(h, w) /\ Rests(task'[h][w])
<1> DEFINE t == task[h][w]
           u == task'[h][w]
<1>1. t \in TaskStates /\ TaskKnows(t) /\ Informed(t) /\ phase[h] # "down"
  BY TaskFacts
<1>2. OthersKept(h, w) /\ u = AfterTask(t, ok)
  BY TaskSet DEF Return, Before
<1>3. u.pc \in {"loop", "idle"} /\ u.ev = NoView /\ ~u.owned /\ u.todo \subseteq t.todo
  BY <1>1, <1>2 DEF AfterTask, IdleTask
<1>4. Rests(u) /\ ~Starting(u)
  BY <1>3 DEF Rests, Starting, IsStarter, HoldPoints
<1>5. LocksKept(h, w)
  BY <1>4 DEF LocksKept, Return, Freed, Before, TypeInv, TypeOK, LockType
<1>6. JournalMoves(h, w)
  BY <1>4, LandMoves DEF Before, JournalMoves, Rests
<1>7. \A r \in Runs : <<r, "cleanup">> \in u.todo => Ended(r)'
  BY <1>1, <1>3, InformedKept DEF Before
<1>8. Informed(task[h][w])'
  BY <1>3, <1>4, <1>7 DEF Informed, Rests, NoView
<1> QED
  BY <1>1, <1>2, <1>4, <1>5, <1>6, <1>8 DEF TaskStep, HostServes

\* A task that rests and had no activation in its hands leaves them alone.
LEMMA RestShape ==
  ASSUME NEW h \in Hosts, NEW w \in Tasks, Rests(task'[h][w]), UNCHANGED <<active, live>>,
         Held(task[h][w]) => task[h][w].run \in dropped'[h]
  PROVE  Shape(h, w)
<1>1. SameActive /\ SameLive
  BY DEF SameActive, SameLive
<1>2. CASE IsStarter(task[h][w])
  BY <1>1, <1>2 DEF Shape, Abandons
<1>3. CASE ~IsStarter(task[h][w])
  BY <1>1, <1>3 DEF Shape, Works, Rests
<1> QED
  BY <1>2, <1>3

\* A task that goes on without returning.
LEMMA GoStep ==
  ASSUME Before, NEW h \in Hosts, NEW w \in Tasks, NEW x, SetTask(h, w, x),
         task[h][w].pc # "idle", UNCHANGED <<phase, startLock>>, DroppedKept,
         \/ journal' = journal
         \/ task[h][w].ev # NoView /\ Land(h, w) /\ task[h][w].pc # "failStart",
         Starting(task'[h][w]) => Starting(task[h][w]) /\ task'[h][w].inst = task[h][w].inst,
         Informed(task[h][w])'
  PROVE  TaskStep(h, w)
<1>1. OthersKept(h, w) /\ phase[h] # "down"
  BY TaskSet, TaskFacts DEF Before
<1>2. LocksKept(h, w)
  BY DEF LocksKept, Before, ActivationInv, StartsLocked
<1>3. JournalMoves(h, w)
  BY LandMoves DEF Before, JournalMoves
<1> QED
  BY <1>1, <1>2, <1>3 DEF TaskStep, HostServes
\* What the task knows when it goes on to another point of the same Run.
LEMMA MovesInformed ==
  ASSUME Before, NEW h \in Hosts, NEW w \in Tasks,
         task'[h][w].run = task[h][w].run, task'[h][w].inst = task[h][w].inst,
         task'[h][w].ev = NoView, task'[h][w].todo \subseteq task[h][w].todo,
         task'[h][w].pc # "loss" \/ task[h][w].pc = "loss",
         IsStarter(task'[h][w]) => IsStarter(task[h][w]) /\ task[h][w].pc # "claim",
         task'[h][w].pc \in {"cleanup", "driverStop"} =>
           \/ task[h][w].pc \in {"cleanup", "driverStop"}
           \/ \A r : r = task[h][w].run => Ended(r)',
         task'[h][w].owned => task'[h][w].pc \in {"cleanup", "driverStop", "finish"}
  PROVE  Informed(task[h][w])'
<1> DEFINE t == task[h][w]
           u == task'[h][w]
<1>1. t \in TaskStates /\ TaskKnows(t) /\ Informed(t)
  BY TaskFacts
<1>2. IsStarter(t) /\ t.pc # "claim" => Now(t.run)'.status # "none" /\ Now(t.run)'.inst = t.inst
  BY <1>1, InformedKept DEF Before, Begun
<1>3. t.pc = "loss" => Now(t.run)'.status # "none"
  BY <1>1, InformedKept DEF Before, Begun
<1>4. t.pc \in {"cleanup", "driverStop"} => \A r : r = t.run => Ended(r)'
  BY <1>1, InformedKept DEF Before
<1>5. \A r \in Runs : <<r, "cleanup">> \in t.todo => Ended(r)'
  BY <1>1, InformedKept DEF Before
<1>6. NoView.status = "none"
  BY DEF NoView
<1> QED
  BY <1>2, <1>3, <1>4, <1>5, <1>6 DEF Informed, Begun

\* What the task knows when it has decided on event e.
LEMMA ProposesInformed ==
  ASSUME Before, NEW h \in Hosts, NEW w \in Tasks, NEW e,
         task'[h][w].run = task[h][w].run, task'[h][w].inst = task[h][w].inst,
         task'[h][w].pc = task[h][w].pc, task'[h][w].todo = task[h][w].todo,
         task'[h][w].owned = task[h][w].owned, task'[h][w].ev = e,
         task[h][w].pc \notin {"claim", "hydrate"} => e.run = task[h][w].run,
         task[h][w].pc \notin {"claim", "driverStop", "lostStop", "failedStop"},
         e.status \in {"stopped", "failed"} =>
           task[h][w].pc = "failStart" \/ (task[h][w].pc = "finish" /\ task[h][w].owned)
  PROVE  Informed(task[h][w])'
<1> DEFINE t == task[h][w]
           u == task'[h][w]
<1>1. t \in TaskStates /\ TaskKnows(t) /\ Informed(t)
  BY TaskFacts
<1>2. IsStarter(t) => Now(t.run)'.status # "none" /\ Now(t.run)'.inst = t.inst
  BY <1>1, InformedKept DEF Before, Begun
<1>3. t.pc = "loss" => Now(t.run)'.status # "none"
  BY <1>1, InformedKept DEF Before, Begun
<1>4. t.pc \in {"cleanup", "driverStop"} => \A r : r = t.run => Ended(r)'
  BY <1>1, InformedKept DEF Before
<1>5. \A r \in Runs : <<r, "cleanup">> \in t.todo => Ended(r)'
  BY <1>1, InformedKept DEF Before
<1>6. t.owned => t.pc \in {"cleanup", "driverStop", "finish"}
  BY <1>1 DEF Informed
<1>7. IsStarter(u) => IsStarter(t)
  BY DEF IsStarter
<1> QED
  BY <1>2, <1>3, <1>4, <1>5, <1>6, <1>7 DEF Informed, Begun

\* A task that has decided on an event keeps everything else.
LEMMA ProposeStep ==
  ASSUME Before, NEW h \in Hosts, NEW w \in Tasks, NEW e, Propose(h, w, task[h][w], e),
         task[h][w].pc \notin {"idle", "claim", "driverStop", "lostStop", "failedStop"},
         task[h][w].pc # "hydrate" => e.run = task[h][w].run,
         e.status \in {"stopped", "failed"} =>
           task[h][w].pc = "failStart" \/ (task[h][w].pc = "finish" /\ task[h][w].owned),
         UNCHANGED <<journal, phase, active, live, dropped, startLock>>
  PROVE  TaskStep(h, w) /\ Shape(h, w)
<1> DEFINE t == task[h][w]
           u == task'[h][w]
<1>1. t \in TaskStates /\ TaskKnows(t) /\ Informed(t)
  BY TaskFacts
<1>2. SetTask(h, w, [t EXCEPT !.ev = e])
  BY DEF Propose
<1>3. u = [t EXCEPT !.ev = e]
  BY <1>2, TaskSet DEF Before
<1>4. /\ u.pc = t.pc /\ u.run = t.run /\ u.inst = t.inst /\ u.todo = t.todo
      /\ u.owned = t.owned /\ u.ev = e
  BY <1>1, <1>3 DEF TaskStates
<1>5. Informed(task[h][w])'
  BY <1>4, ProposesInformed
<1>6. IsStarter(u) <=> IsStarter(t)
  BY <1>4 DEF IsStarter
<1>7. TaskStep(h, w)
  <2>1. Starting(u) => Starting(t) /\ u.inst = t.inst
    BY <1>4, <1>6 DEF Starting
  <2>2. DroppedKept
    BY DEF DroppedKept
  <2> HIDE DEF t
  <2> QED
    BY <1>2, <1>5, <2>1, <2>2, GoStep DEF t
<1>8. SameActive /\ SameLive
  BY DEF SameActive, SameLive
<1>9. CASE IsStarter(t)
  <2>1. ~u.owned /\ (Held(u) <=> Held(t))
    BY <1>4, <1>9, TaskFacts DEF Held
  <2>2. Advances(h, w, t, u)
    BY <1>4, <1>6, <1>8, <1>9, <2>1 DEF Advances
  <2> QED
    BY <1>7, <2>2 DEF Shape
<1>10. CASE ~IsStarter(t)
  <2>1. u.owned => u.run \in Runs /\ (u.pc = "finish" => t.pc = "finish")
    BY <1>1, <1>4 DEF Informed, TaskKnows, RunPoints, Points
  <2>2. Works(h, w, t, u)
    BY <1>4, <1>6, <1>8, <1>10, <2>1 DEF Works
  <2> QED
    BY <1>7, <2>2 DEF Shape
<1> QED
  BY <1>9, <1>10
\* A start whose key is claimed resumes the claimed Run under its start lock,
\* or ends.
LEMMA ReplayStep ==
  ASSUME Before, NEW h \in Hosts, NEW w \in Tasks, NEW t \in TaskStates, NEW c \in Events,
         ReplayStart(h, w, t, c), ~IsStarter(task[h][w]), t.ev = NoView, ~t.owned,
         \A r \in Runs : <<r, "cleanup">> \in t.todo => Ended(r)',
         t.inst \in Installations, startLock[h][t.inst] \in {None, w}, phase[h] # "down",
         UNCHANGED <<journal, phase, active, live, dropped>>
  PROVE  TaskStep(h, w) /\ Shape(h, w)
<1> DEFINE u == task'[h][w]
           t2 == [[t EXCEPT !.run = c.run] EXCEPT !.pc = "resume"]
<1>1. SetTask(h, w, IdleTask) \/ SetTask(h, w, t2)
  BY DEF ReplayStart
<1>2. OthersKept(h, w) /\ (u = IdleTask \/ u = t2)
  BY <1>1, TaskSet DEF Before
<1>3. /\ u.pc \in {"idle", "resume"} /\ u.ev = NoView /\ ~u.owned
      /\ u.todo = {} \/ u.todo = t.todo
  <2>1. CASE u = IdleTask
    BY <2>1 DEF IdleTask
  <2>2. CASE u = t2
    BY <2>2 DEF TaskStates
  <2> QED
    BY <1>2, <2>1, <2>2
<1>4. ~Starting(u) /\ ~IsStarter(u) /\ Rests(u)
  BY <1>3 DEF Starting, IsStarter, HoldPoints, Rests
<1>5. Informed(task[h][w])'
  BY <1>3, <1>4 DEF Informed, NoView
<1>6. \A g \in Hosts, v \in Tasks, i \in Installations :
        ~(g = h /\ v = w) /\ startLock[g][i] = v => startLock'[g][i] = v
  BY RegistryAssumptions
     DEF ReplayStart, Freed, Before, TypeInv, TypeOK, LockType, Tasks
<1>7. LocksKept(h, w)
  BY <1>4, <1>6 DEF LocksKept
<1>8. TaskStep(h, w)
  BY <1>2, <1>5, <1>7 DEF TaskStep, HostServes, JournalMoves, DroppedKept
<1>9. ~Held(task[h][w])
  BY DEF Held, IsStarter
<1> QED
  BY <1>4, <1>8, <1>9, RestShape

LEMMA StartShape ==
  ASSUME Before, NEW h \in Hosts, NEW w \in Tasks, NEW i \in Installations,
         NEW key \in Keys, NEW fp \in StartRequests, Start(h, w, i, key, fp)
  PROVE  TaskStep(h, w) /\ Shape(h, w)
<1> DEFINE t == [IdleTask EXCEPT !.pc = "claim", !.role = "request", !.inst = i,
                                 !.key = key, !.fp = fp]
           c == ClaimedBy(journal, Len(journal), i, "start", key)
           u == task'[h][w]
<1>1. /\ task[h][w].pc = "idle" /\ phase[h] = "up" /\ startLock[h][i] = None
      /\ UNCHANGED <<journal, phase, active, live, dropped>>
  BY DEF Start, At, StartLockFree, durable, hostVars
<1>2. ~IsStarter(task[h][w])
  BY <1>1 DEF IsStarter, HoldPoints
<1>3. t \in TaskStates
  BY ZenonT(60), IdleType DEF TaskStates, Points, Roles, Fingerprints
<1>4. t.pc = "claim" /\ t.inst = i /\ t.ev = NoView /\ ~t.owned /\ t.todo = {}
  BY DEF IdleTask
<1>5. CASE c = NoView
  <2>1. SetTask(h, w, t) /\ startLock' = [startLock EXCEPT ![h][i] = w]
    BY <1>5 DEF Start
  <2>2. OthersKept(h, w) /\ u = t
    BY <2>1, TaskSet DEF Before
  <2>3. Rests(u)
    BY <1>4, <2>2 DEF Rests, IsStarter, HoldPoints
  <2>4. Informed(task[h][w])'
    BY <1>4, <2>2, <2>3 DEF Informed, NoView, Rests
  <2>5. LocksKept(h, w)
    BY <1>1, <1>4, <2>1, <2>2, RegistryAssumptions
       DEF LocksKept, Before, TypeInv, TypeOK, LockType, Tasks
  <2>6. TaskStep(h, w)
    BY <1>1, <2>2, <2>4, <2>5 DEF TaskStep, HostServes, JournalMoves, DroppedKept
  <2> QED
    BY <1>1, <1>2, <2>3, <2>6, RestShape DEF Held, IsStarter
<1>6. CASE c # NoView
  <2>1. ReplayStart(h, w, t, c) /\ c \in Events
    BY <1>6, ClaimedType DEF Start, Before, TypeInv, TypeOK, JournalType
  <2> HIDE DEF t, c
  <2> QED
    BY <1>1, <1>2, <1>3, <1>4, <2>1, ReplayStep
<1> QED
  BY <1>5, <1>6

LEMMA ClaimStartShape ==
  ASSUME Before, NEW h \in Hosts, NEW w \in Tasks, ClaimStart(h, w)
  PROVE  TaskStep(h, w) /\ Shape(h, w)
<1> DEFINE t == task[h][w]
           c == ClaimedBy(journal, Len(journal), t.inst, "start", t.key)
           u == task'[h][w]
<1>1. /\ t.pc = "claim" /\ t.ev = NoView
      /\ UNCHANGED <<journal, phase, active, live, dropped>>
  BY DEF ClaimStart, At, durable, hostVars
<1>2. /\ t \in TaskStates /\ TaskKnows(t) /\ Informed(t) /\ phase[h] # "down"
      /\ ~IsStarter(t) /\ ~t.owned
  BY <1>1, TaskFacts DEF IsStarter, HoldPoints, Informed
<1>3. t.inst \in Installations /\ startLock[h][t.inst] = w
  BY <1>1 DEF Before, ActivationInv, StartsLocked, Starting
<1>4. DroppedKept
  BY <1>1 DEF DroppedKept
<1>5. CASE c # NoView /\ ReplayStart(h, w, t, c)
  <2>1. c \in Events
    BY <1>5, ClaimedType DEF Before, TypeInv, TypeOK, JournalType
  <2>2. \A r \in Runs : <<r, "cleanup">> \in t.todo => Ended(r)'
    BY <1>2, InformedKept DEF Before
  <2> HIDE DEF t, c
  <2> QED
    BY <1>1, <1>2, <1>3, <1>5, <2>1, <2>2, ReplayStep DEF t
<1>6. CASE Return(h, w, FALSE)
  <2>1. TaskStep(h, w) /\ Rests(u)
    BY <1>1, <1>4, <1>6, ReturnStep
  <2> QED
    BY <1>1, <1>2, <2>1, RestShape DEF Held, IsStarter
<1>7. CASE /\ ~Occupied(h, t.inst)
           /\ UNCHANGED <<startLock, cleanLock, answered>>
           /\ \E r \in Runs :
                /\ Now(r) = NoView
                /\ \A g \in Hosts, v \in Tasks : task[g][v].ev.run # r
                /\ Propose(h, w, [t EXCEPT !.run = r], StartingRun(r, t.inst, t.key, t.fp))
  <2>1. PICK r \in Runs :
          /\ Now(r) = NoView
          /\ \A g \in Hosts, v \in Tasks : task[g][v].ev.run # r
          /\ Propose(h, w, [t EXCEPT !.run = r], StartingRun(r, t.inst, t.key, t.fp))
    BY <1>7
  <2> DEFINE e == StartingRun(r, t.inst, t.key, t.fp)
             x == [[t EXCEPT !.run = r] EXCEPT !.ev = e]
  <2>2. SetTask(h, w, x)
    BY <2>1 DEF Propose
  <2>3. OthersKept(h, w) /\ u = x
    BY <2>2, TaskSet DEF Before
  <2>4. /\ u.pc = "claim" /\ u.run = r /\ u.inst = t.inst /\ u.ev = e /\ u.todo = t.todo
        /\ u.owned = t.owned
    <3> HIDE DEF e
    <3> QED
      BY <1>1, <1>2, <2>3 DEF TaskStates
  <2>5. e.run = r /\ e.inst = t.inst /\ e.status = "starting"
    BY DEF StartingRun
  <2>6. Informed(task[h][w])'
    <3>1. \A q \in Runs : <<q, "cleanup">> \in t.todo => Ended(q)'
      BY <1>2, InformedKept DEF Before
    <3> HIDE DEF e
    <3> QED
      BY <1>2, <2>4, <2>5, <3>1 DEF Informed, IsStarter, HoldPoints
  <2>7. TaskStep(h, w)
    <3> HIDE DEF x
    <3> QED
      BY <1>1, <1>4, <1>7, <2>2, <2>4, <2>6, GoStep DEF Starting
  <2>8. Draws(h, w, t, u)
    <3> HIDE DEF e
    <3> QED
      BY <1>1, <1>2, <1>7, <2>1, <2>4 DEF Draws, SameActive, SameLive
  <2> QED
    BY <2>7, <2>8 DEF Shape
<1> QED
  BY <1>5, <1>6, <1>7 DEF ClaimStart
\* A view is about its Run, and a move keeps the Run.
LEMMA NowRun ==
  ASSUME TypeInv, NEW r, Now(r).status # "none"
  PROVE  Now(r).run = r /\ Now(r) \in Events
<1>1. journal \in Seq(Events) /\ Len(journal) \in Nat
  BY DEF TypeInv, TypeOK, JournalType
<1>2. Now(r) \in Events
  BY NowType DEF TypeInv, TypeOK
<1>3. \E k \in 1 .. Len(journal) : IsLast(journal, Len(journal), r, k)
  BY DEF Now, Latest, NoView
<1>4. IsLast(journal, Len(journal), r,
             CHOOSE k \in 1 .. Len(journal) : IsLast(journal, Len(journal), r, k))
  BY <1>3
<1> QED
  BY <1>2, <1>3, <1>4 DEF Now, Latest, IsLast

LEMMA MovedRun ==
  ASSUME TypeInv, NEW r, Now(r).status # "none", NEW s, NEW q, NEW c
  PROVE  Moved(Now(r), s, q, c).run = r /\ Moved(Now(r), s, q, c).status = s
<1>1. Now(r).run = r /\ Now(r) \in Events
  BY NowRun
<1> QED
  BY <1>1 DEF Moved, Events

\* A task goes on to another point of the same Run.
LEMMA MoveStep ==
  ASSUME Before, NEW h \in Hosts, NEW w \in Tasks, NEW x, SetTask(h, w, x),
         x.run = task[h][w].run, x.inst = task[h][w].inst, x.ev = NoView,
         x.todo = task[h][w].todo, x.pc \notin {"loss", "claim"},
         IsStarter(x) => IsStarter(task[h][w]) /\ task[h][w].pc # "claim",
         x.pc \in {"cleanup", "driverStop"} =>
           \/ task[h][w].pc \in {"cleanup", "driverStop"}
           \/ \A r : r = task[h][w].run => Ended(r)',
         x.owned => x.pc \in {"cleanup", "driverStop", "finish"},
         task[h][w].pc # "idle", UNCHANGED <<phase, startLock>>, DroppedKept,
         \/ journal' = journal
         \/ task[h][w].ev # NoView /\ Land(h, w) /\ task[h][w].pc # "failStart"
  PROVE  TaskStep(h, w) /\ task'[h][w] = x
<1>1. task'[h][w] = x
  BY TaskSet DEF Before
<1>2. Informed(task[h][w])'
  BY <1>1, MovesInformed
<1>3. Starting(x) => Starting(task[h][w])
  BY DEF Starting
<1> QED
  BY <1>1, <1>2, <1>3, GoStep

LEMMA PrepareFailsShape ==
  ASSUME Before, NEW h \in Hosts, NEW w \in Tasks, PrepareFails(h, w)
  PROVE  TaskStep(h, w) /\ Shape(h, w)
<1>1. /\ task[h][w].pc = "claim" /\ Return(h, w, FALSE)
      /\ UNCHANGED <<journal, phase, active, live, dropped>>
  BY DEF PrepareFails, At, durable, hostVars
<1>2. TaskStep(h, w) /\ Rests(task'[h][w])
  BY <1>1, ReturnStep DEF DroppedKept
<1> QED
  BY <1>1, <1>2, RestShape DEF Held, HoldPoints

LEMMA ActivateShape ==
  ASSUME Before, NEW h \in Hosts, NEW w \in Tasks, Activate(h, w)
  PROVE  TaskStep(h, w) /\ Shape(h, w)
<1> DEFINE t == task[h][w]
           u == task'[h][w]
<1>1. /\ t.pc = "activate" /\ t.ev = NoView
      /\ UNCHANGED <<journal, phase, active, dropped>>
  BY DEF Activate, At, durable
<1>2. t \in TaskStates /\ IsStarter(t) /\ ~t.owned /\ DroppedKept
  BY <1>1, TaskFacts DEF IsStarter, DroppedKept
<1>3. CASE Return(h, w, FALSE) /\ UNCHANGED live
  <2>1. TaskStep(h, w) /\ Rests(u)
    BY <1>1, <1>2, <1>3, ReturnStep
  <2> QED
    BY <1>1, <1>3, <2>1, RestShape DEF Held, HoldPoints
<1>4. ASSUME NEW q, Goto(h, w, [t EXCEPT !.pc = "failStart", !.reason = q]), UNCHANGED live
      PROVE  TaskStep(h, w) /\ Shape(h, w)
  <2> DEFINE x == [t EXCEPT !.pc = "failStart", !.reason = q]
  <2>1. /\ x.pc = "failStart" /\ x.run = t.run /\ x.inst = t.inst /\ x.ev = NoView
        /\ x.todo = t.todo /\ ~x.owned
    BY <1>1, <1>2 DEF TaskStates
  <2>2. SetTask(h, w, x) /\ UNCHANGED startLock
    BY <1>4 DEF Goto
  <2> HIDE DEF x
  <2>3. TaskStep(h, w) /\ u = x
    BY <1>1, <1>2, <2>1, <2>2, MoveStep
  <2>4. Advances(h, w, t, u)
    BY <1>1, <1>2, <1>4, <2>1, <2>3
       DEF Advances, IsStarter, Held, HoldPoints, SameActive, SameLive
  <2> QED
    BY <2>3, <2>4 DEF Shape
<1>5. CASE /\ live' = [live EXCEPT ![h] = @ \cup {t.run}]
           /\ Goto(h, w, [t EXCEPT !.pc = "commit"])
  <2> DEFINE x == [t EXCEPT !.pc = "commit"]
  <2>1. /\ x.pc = "commit" /\ x.run = t.run /\ x.inst = t.inst /\ x.ev = NoView
        /\ x.todo = t.todo /\ ~x.owned
    BY <1>1, <1>2 DEF TaskStates
  <2>2. SetTask(h, w, x) /\ UNCHANGED startLock
    BY <1>5 DEF Goto
  <2> HIDE DEF x
  <2>3. TaskStep(h, w) /\ u = x
    BY <1>1, <1>2, <2>1, <2>2, MoveStep
  <2>4. LiveGains(h, t.run)
    BY <1>5 DEF LiveGains, Before, TypeInv, TypeOK, HostType
  <2>5. Activates(h, w, t, u)
    BY <1>1, <2>1, <2>3, <2>4 DEF Activates, SameActive
  <2> QED
    BY <2>3, <2>5 DEF Shape
<1> QED
  BY <1>3, <1>4, <1>5 DEF Activate

LEMMA FailStartShape ==
  ASSUME Before, NEW h \in Hosts, NEW w \in Tasks, FailStart(h, w)
  PROVE  TaskStep(h, w) /\ Shape(h, w)
<1> DEFINE t == task[h][w]
<1>1. t.pc = "failStart" /\ UNCHANGED <<journal, phase, active, live, dropped>>
  BY DEF FailStart, At, durable, hostVars
<1>2. DroppedKept
  BY <1>1 DEF DroppedKept
<1>3. CASE Return(h, w, FALSE)
  <2>1. TaskStep(h, w) /\ Rests(task'[h][w])
    BY <1>1, <1>2, <1>3, ReturnStep
  <2> QED
    BY <1>1, <2>1, RestShape DEF Held, HoldPoints
<1>4. CASE /\ Propose(h, w, t, FailedRun(Now(t.run), t.reason)) /\ UNCHANGED startLock
           /\ Now(t.run).status = "starting"
  <2>1. Now(t.run).run = t.run
    BY <1>4, NowRun DEF Before
  <2>2. FailedRun(Now(t.run), t.reason).run = t.run
    BY <1>4, <2>1, MovedRun DEF FailedRun, Before
  <2> DEFINE e == FailedRun(Now(t.run), t.reason)
  <2> HIDE DEF e
  <2> QED
    BY <1>1, <1>4, <2>2, ProposeStep DEF e
<1> QED
  BY <1>3, <1>4 DEF FailStart
LEMMA CommitStartShape ==
  ASSUME Before, NEW h \in Hosts, NEW w \in Tasks, CommitStart(h, w)
  PROVE  TaskStep(h, w) /\ Shape(h, w)
<1> DEFINE t == task[h][w]
           u == task'[h][w]
<1>1. /\ t.pc = "commit" /\ t.ev = NoView
      /\ UNCHANGED <<journal, phase, active, live, dropped, startLock>>
  BY DEF CommitStart, At, durable, hostVars
<1>2. t \in TaskStates /\ IsStarter(t) /\ ~t.owned /\ DroppedKept
  BY <1>1, TaskFacts DEF IsStarter, HoldPoints, DroppedKept
<1>3. ASSUME NEW pc \in {"lostStop", "failedStop"}, SetTask(h, w, [t EXCEPT !.pc = pc])
      PROVE  TaskStep(h, w) /\ Shape(h, w)
  <2> DEFINE x == [t EXCEPT !.pc = pc]
  <2>1. /\ x.pc = pc /\ x.run = t.run /\ x.inst = t.inst /\ x.ev = NoView
        /\ x.todo = t.todo /\ ~x.owned
    BY <1>1, <1>2 DEF TaskStates
  <2>2. SetTask(h, w, x)
    BY <1>3
  <2> HIDE DEF x
  <2>3. TaskStep(h, w) /\ u = x
    BY <1>1, <1>2, <1>3, <2>1, <2>2, MoveStep
  <2>4. Advances(h, w, t, u)
    BY <1>1, <1>2, <1>3, <2>1, <2>3
       DEF Advances, IsStarter, Held, HoldPoints, SameActive, SameLive
  <2> QED
    BY <2>3, <2>4 DEF Shape
<1>4. CASE Propose(h, w, t, RunningRun(Now(t.run))) /\ Now(t.run).status = "starting"
  <2> DEFINE e == RunningRun(Now(t.run))
  <2>1. e.run = t.run /\ e.status = "running"
    BY <1>4, MovedRun DEF RunningRun, Before
  <2> HIDE DEF e
  <2> QED
    BY <1>1, <1>4, <2>1, ProposeStep DEF e
<1> QED
  BY <1>3, <1>4 DEF CommitStart

LEMMA StopHeldActivationShape ==
  ASSUME Before, NEW h \in Hosts, NEW w \in Tasks, StopHeldActivation(h, w)
  PROVE  TaskStep(h, w) /\ Shape(h, w)
<1> DEFINE t == task[h][w]
           u == task'[h][w]
<1>1. /\ t.pc \in {"lostStop", "failedStop"} /\ t.ev = NoView
      /\ UNCHANGED <<journal, phase, dropped>>
  BY DEF StopHeldActivation, At, durable
<1>2. t \in TaskStates /\ IsStarter(t) /\ Held(t) /\ ~t.owned /\ t.run \in Runs /\ DroppedKept
  BY <1>1, TaskFacts DEF IsStarter, Held, HoldPoints, DroppedKept
<1>3. CASE /\ live' = [live EXCEPT ![h] = @ \ {t.run}] /\ UNCHANGED active
           /\ IF t.pc = "lostStop" THEN Return(h, w, TRUE)
              ELSE Goto(h, w, [t EXCEPT !.pc = "failStart",
                                        !.reason = "activation_commit_failed"])
  <2>1. LiveLoses(h, t.run) /\ SameActive
    BY <1>3 DEF LiveLoses, SameActive, Before, TypeInv, TypeOK, HostType
  <2>2. CASE Return(h, w, TRUE)
    <3>1. TaskStep(h, w) /\ Rests(u)
      BY <1>1, <1>2, <2>2, ReturnStep
    <3>2. Undoes(h, w, t, u)
      BY <1>2, <2>1, <3>1 DEF Undoes
    <3> QED
      BY <3>1, <3>2 DEF Shape
  <2>3. CASE /\ t.pc = "failedStop"
             /\ Goto(h, w, [t EXCEPT !.pc = "failStart",
                                     !.reason = "activation_commit_failed"])
    <3> DEFINE x == [t EXCEPT !.pc = "failStart", !.reason = "activation_commit_failed"]
    <3>1. /\ x.pc = "failStart" /\ x.run = t.run /\ x.inst = t.inst /\ x.ev = NoView
          /\ x.todo = t.todo /\ ~x.owned
      BY <1>1, <1>2 DEF TaskStates
    <3>2. SetTask(h, w, x) /\ UNCHANGED startLock
      BY <2>3 DEF Goto
    <3> HIDE DEF x
    <3>3. TaskStep(h, w) /\ u = x
      BY <1>1, <1>2, <3>1, <3>2, MoveStep
    <3>4. Withdraws(h, w, t, u)
      BY <2>1, <2>3, <3>1, <3>3 DEF Withdraws
    <3> QED
      BY <3>3, <3>4 DEF Shape
  <2> QED
    BY <1>1, <1>3, <2>2, <2>3
<1>4. CASE Own(h, t.run) /\ Return(h, w, FALSE) /\ UNCHANGED live
  <2>1. TaskStep(h, w) /\ Rests(u)
    BY <1>1, <1>2, <1>4, ReturnStep
  <2>2. ActiveBecomes(h, t.run, "available") /\ SameLive
    BY <1>2, <1>4 DEF Own, ActiveBecomes, SameLive, Before, TypeInv, TypeOK, HostType
  <2>3. HandsOver(h, w, t, u)
    BY <1>2, <2>1, <2>2 DEF HandsOver
  <2> QED
    BY <2>1, <2>3 DEF Shape
<1> QED
  BY <1>3, <1>4 DEF StopHeldActivation

\* A task that is no starter, and not inside driver.stop, goes on without the
\* owned flag, or with the one it had.
LEMMA MoveWorks ==
  ASSUME NEW h \in Hosts, NEW w \in Tasks, ~IsStarter(task[h][w]),
         ~IsStarter(task'[h][w]), task'[h][w].pc \notin {"driverStop", "finish"},
         UNCHANGED <<active, live>>,
         task'[h][w].owned => /\ task'[h][w].run = task[h][w].run
                              /\ task[h][w].run \in Runs
                              /\ task[h][w].owned \/ active[h][task[h][w].run] # "none"
  PROVE  Shape(h, w)
<1>1. Works(h, w, task[h][w], task'[h][w])
  BY DEF Works, SameActive, SameLive
<1> QED
  BY <1>1 DEF Shape

LEMMA ResumeStartShape ==
  ASSUME Before, NEW h \in Hosts, NEW w \in Tasks, ResumeStart(h, w)
  PROVE  TaskStep(h, w) /\ Shape(h, w)
<1> DEFINE t == task[h][w]
           u == task'[h][w]
           v == Now(t.run)
<1>1. /\ t.pc = "resume" /\ t.ev = NoView
      /\ UNCHANGED <<journal, phase, active, live, dropped>>
  BY DEF ResumeStart, At, durable, hostVars
<1>2. /\ t \in TaskStates /\ TaskKnows(t) /\ ~IsStarter(t) /\ ~Held(t) /\ ~t.owned
      /\ DroppedKept
  BY <1>1, TaskFacts DEF IsStarter, Held, HoldPoints, DroppedKept, Informed
<1>3. ASSUME NEW ok, Return(h, w, ok) PROVE TaskStep(h, w) /\ Shape(h, w)
  <2>1. TaskStep(h, w) /\ Rests(u)
    BY <1>1, <1>2, <1>3, ReturnStep
  <2> QED
    BY <1>1, <1>2, <2>1, RestShape
<1>4. CASE v.status \in TerminalStatuses /\ Goto(h, w, [t EXCEPT !.pc = "cleanup"])
  <2> DEFINE x == [t EXCEPT !.pc = "cleanup"]
  <2>1. /\ x.pc = "cleanup" /\ x.run = t.run /\ x.inst = t.inst /\ x.ev = NoView
        /\ x.todo = t.todo /\ ~x.owned
    BY <1>1, <1>2 DEF TaskStates
  <2>2. SetTask(h, w, x) /\ UNCHANGED startLock
    BY <1>4 DEF Goto
  <2> HIDE DEF x
  <2>3. ~IsStarter(x)
    BY <2>1 DEF IsStarter, HoldPoints
  <2>4. \A r : r = t.run => Ended(r)'
    BY <1>1, <1>4 DEF Ended, Now
  <2>5. TaskStep(h, w) /\ u = x
    BY <1>1, <1>2, <2>1, <2>2, <2>3, <2>4, MoveStep
  <2>6. Shape(h, w)
    BY <1>1, <1>2, <2>1, <2>3, <2>5, MoveWorks
  <2> QED
    BY <2>5, <2>6
<1>5. ASSUME NEW e, Propose(h, w, t, e), v.status = "starting", UNCHANGED startLock,
             e = RunningRun(v) \/ e = InterruptedRun(v, "outcome_unknown")
      PROVE  TaskStep(h, w) /\ Shape(h, w)
  <2>1. e.run = t.run /\ e.status \in {"running", "interrupted"}
    BY <1>5, MovedRun DEF RunningRun, InterruptedRun, Before
  <2> QED
    BY <1>1, <1>5, <2>1, ProposeStep
<1> QED
  BY <1>3, <1>4, <1>5 DEF ResumeStart
\* A task that is no starter takes up other work.
LEMMA FreshStep ==
  ASSUME Before, NEW h \in Hosts, NEW w \in Tasks, NEW x, SetTask(h, w, x),
         ~IsStarter(task[h][w]), HostServes(h),
         UNCHANGED <<journal, active, live, dropped, startLock>>,
         x.pc \notin {"claim", "driverStop"}, ~IsStarter(x), ~x.owned,
         x.ev # NoView /\ x.pc # "hydrate" => x.ev.run = x.run,
         x.ev.status \notin {"stopped", "failed"},
         x.pc = "loss" => Begun(x.run), x.pc = "cleanup" => Ended(x.run),
         \A r \in Runs : <<r, "cleanup">> \in x.todo => Ended(r)
  PROVE  TaskStep(h, w) /\ Shape(h, w)
<1>1. OthersKept(h, w) /\ task'[h][w] = x
  BY TaskSet DEF Before
<1>2. \A r : Now(r)' = Now(r)
  BY DEF Now
<1>3. Informed(task[h][w])'
  BY <1>1, <1>2 DEF Informed, Begun, Ended, IsStarter, HoldPoints
<1>4. LocksKept(h, w)
  BY <1>1 DEF LocksKept, Starting
<1>5. TaskStep(h, w)
  BY <1>1, <1>3, <1>4 DEF TaskStep, JournalMoves, DroppedKept
<1>6. Rests(task'[h][w]) /\ ~Held(task[h][w])
  BY <1>1 DEF Rests, Held, IsStarter
<1> QED
  BY <1>5, <1>6, RestShape

LEMMA StopShape ==
  ASSUME Before, NEW h \in Hosts, NEW w \in Tasks, NEW r \in Runs, NEW key \in Keys,
         NEW rev \in 1..3, Stop(h, w, r, key, rev)
  PROVE  \/ TaskStep(h, w) /\ Shape(h, w)
         \/ UNCHANGED <<journal, phase, active, live, dropped, startLock, task>>
<1> DEFINE v == Now(r)
           fp == <<r, rev>>
           claim == [op |-> "stop", key |-> key, fp |-> fp]
           t == [IdleTask EXCEPT !.pc = "complete", !.role = "request", !.inst = v.inst,
                                 !.run = r, !.key = key, !.fp = fp]
           reason == IF v.status = "starting"
                     THEN "explicit_stop_before_start_commit" ELSE "explicit_stop"
<1>1. /\ task[h][w].pc = "idle" /\ phase[h] = "up"
      /\ UNCHANGED <<journal, phase, active, live, dropped, startLock>>
  BY DEF Stop, At, durable, hostVars
<1>2. ~IsStarter(task[h][w]) /\ HostServes(h)
  BY <1>1 DEF IsStarter, HoldPoints, HostServes
<1>3. CASE UNCHANGED task
  BY <1>1, <1>3
<1>4. ASSUME NEW c, SetTask(h, w, [t EXCEPT !.claim = c])
      PROVE  TaskStep(h, w) /\ Shape(h, w)
  <2> DEFINE x == [t EXCEPT !.claim = c]
  <2>1. x.pc = "complete" /\ x.ev = NoView /\ ~x.owned /\ x.todo = {}
    BY DEF IdleTask
  <2>2. SetTask(h, w, x)
    BY <1>4
  <2> HIDE DEF x
  <2>3. ~IsStarter(x) /\ x.ev.status = "none"
    BY <2>1 DEF IsStarter, HoldPoints, NoView
  <2> QED
    BY <1>1, <1>2, <2>1, <2>2, <2>3, FreshStep
<1>5. CASE /\ v.status \in ActiveStatuses
           /\ Propose(h, w, [t EXCEPT !.pc = "stop"], StoppingRun(v, reason, claim))
  <2> DEFINE e == StoppingRun(v, reason, claim)
             x == [[t EXCEPT !.pc = "stop"] EXCEPT !.ev = e]
  <2>1. e.run = r /\ e.status = "stopping"
    BY <1>5, MovedRun DEF StoppingRun, Before, ActiveStatuses
  <2>2. SetTask(h, w, x)
    BY <1>5 DEF Propose
  <2> HIDE DEF e
  <2>3. x.pc = "stop" /\ x.ev = e /\ ~x.owned /\ x.todo = {} /\ x.run = r
    BY DEF IdleTask
  <2> HIDE DEF x
  <2>4. ~IsStarter(x)
    BY <2>3 DEF IsStarter, HoldPoints
  <2> QED
    BY <1>1, <1>2, <2>1, <2>2, <2>3, <2>4, FreshStep
<1> QED
  BY <1>3, <1>4, <1>5 DEF Stop

LEMMA PackageActivationLostShape ==
  ASSUME Before, NEW h \in Hosts, NEW w \in Tasks, NEW r \in Runs,
         PackageActivationLost(h, w, r)
  PROVE  TaskStep(h, w) /\ Shape(h, w)
<1> DEFINE x == [IdleTask EXCEPT !.pc = "loss", !.role = "loss", !.run = r]
<1>1. /\ task[h][w].pc = "idle" /\ phase[h] = "up" /\ SetTask(h, w, x) /\ Now(r) # NoView
      /\ UNCHANGED <<journal, phase, active, live, dropped, startLock>>
  BY DEF PackageActivationLost, At, durable, hostVars, locks
<1>2. ~IsStarter(task[h][w]) /\ HostServes(h)
  BY <1>1 DEF IsStarter, HoldPoints, HostServes
<1>3. /\ x.pc = "loss" /\ x.ev = NoView /\ ~x.owned /\ x.todo = {} /\ x.run = r
      /\ NoView.status = "none"
  BY DEF IdleTask, NoView
<1>4. Begun(r)
  BY <1>1, NowType DEF Begun, Before, TypeInv, TypeOK, Events, ActiveStatuses, TerminalStatuses
<1> HIDE DEF x
<1>5. ~IsStarter(x)
  BY <1>3 DEF IsStarter, HoldPoints
<1> QED
  BY <1>1, <1>2, <1>3, <1>4, <1>5, FreshStep

LEMMA LossShape ==
  ASSUME Before, NEW h \in Hosts, NEW w \in Tasks, Loss(h, w)
  PROVE  TaskStep(h, w) /\ Shape(h, w)
<1> DEFINE t == task[h][w]
           u == task'[h][w]
           v == Now(t.run)
<1>1. /\ t.pc = "loss" /\ t.ev = NoView
      /\ UNCHANGED <<journal, phase, active, live, dropped>>
  BY DEF Loss, At, durable, hostVars
<1>2. /\ t \in TaskStates /\ TaskKnows(t) /\ ~IsStarter(t) /\ ~Held(t) /\ ~t.owned
      /\ DroppedKept /\ Informed(t)
  BY <1>1, TaskFacts DEF IsStarter, Held, HoldPoints, DroppedKept, Informed
<1>3. v \in Events /\ v.status # "none"
  BY <1>1, <1>2, NowRun DEF Informed, Begun, Before
<1>4. CASE Return(h, w, FALSE)
  <2>1. TaskStep(h, w) /\ Rests(u)
    BY <1>1, <1>2, <1>4, ReturnStep
  <2> QED
    BY <1>1, <1>2, <2>1, RestShape
<1>5. ASSUME NEW pc \in {"cleanup", "complete"}, Goto(h, w, [t EXCEPT !.pc = pc]),
             pc = "cleanup" => v.status \notin ActiveStatuses
      PROVE  TaskStep(h, w) /\ Shape(h, w)
  <2> DEFINE x == [t EXCEPT !.pc = pc]
  <2>1. /\ x.pc = pc /\ x.run = t.run /\ x.inst = t.inst /\ x.ev = NoView
        /\ x.todo = t.todo /\ ~x.owned
    BY <1>1, <1>2 DEF TaskStates
  <2>2. SetTask(h, w, x) /\ UNCHANGED startLock
    BY <1>5 DEF Goto
  <2> HIDE DEF x
  <2>3. ~IsStarter(x)
    BY <1>5, <2>1 DEF IsStarter, HoldPoints
  <2>4. pc = "cleanup" => v.status \in TerminalStatuses
    BY <1>3, <1>5 DEF Events
  <2>5. pc = "cleanup" => \A r : r = t.run => Ended(r)'
    BY <1>1, <2>4 DEF Ended, Now
  <2>6. TaskStep(h, w) /\ u = x
    BY <1>1, <1>2, <1>5, <2>1, <2>2, <2>3, <2>5, MoveStep
  <2>7. Shape(h, w)
    BY <1>1, <1>2, <1>5, <2>1, <2>3, <2>6, MoveWorks
  <2> QED
    BY <2>6, <2>7
<1>6. CASE /\ Propose(h, w, t, StoppingRun(v, "package_activation_lost", NoClaim))
           /\ UNCHANGED startLock
  <2> DEFINE e == StoppingRun(v, "package_activation_lost", NoClaim)
  <2>1. e.run = t.run /\ e.status = "stopping"
    BY <1>3, MovedRun DEF StoppingRun, Before
  <2> HIDE DEF e
  <2> QED
    BY <1>1, <1>6, <2>1, ProposeStep DEF e
<1> QED
  BY <1>4, <1>5, <1>6 DEF Loss
LEMMA CompleteShape ==
  ASSUME Before, NEW h \in Hosts, NEW w \in Tasks, Complete(h, w)
  PROVE  TaskStep(h, w) /\ Shape(h, w)
<1> DEFINE t == task[h][w]
           u == task'[h][w]
<1>1. /\ t.pc = "complete" /\ t.ev = NoView
      /\ UNCHANGED <<journal, phase, active, live, dropped>>
  BY DEF Complete, At, durable, hostVars
<1>2. /\ t \in TaskStates /\ TaskKnows(t) /\ ~IsStarter(t) /\ ~Held(t) /\ ~t.owned
      /\ DroppedKept /\ Informed(t)
  BY <1>1, TaskFacts DEF IsStarter, Held, HoldPoints, DroppedKept, Informed
<1>3. CASE Return(h, w, TRUE)
  <2>1. TaskStep(h, w) /\ Rests(u)
    BY <1>1, <1>2, <1>3, ReturnStep
  <2> QED
    BY <1>1, <1>2, <2>1, RestShape
<1>4. CASE /\ Now(t.run).status = "stopping" /\ UNCHANGED startLock
           /\ SetTask(h, w, [t EXCEPT !.pc = "cleanup", !.owned = active[h][t.run] # "none"])
  <2> DEFINE o == active[h][t.run] # "none"
             x == [t EXCEPT !.pc = "cleanup", !.owned = o]
  <2>1. t.run \in Runs
    BY <1>1, <1>2 DEF TaskKnows, RunPoints, Points
  <2>2. /\ x.pc = "cleanup" /\ x.run = t.run /\ x.inst = t.inst /\ x.ev = NoView
        /\ x.todo = t.todo /\ (x.owned <=> o)
    <3> HIDE DEF o
    <3> QED
      BY <1>1, <1>2 DEF TaskStates
  <2>3. SetTask(h, w, x)
    BY <1>4
  <2> HIDE DEF x
  <2>4. ~IsStarter(x)
    BY <2>2 DEF IsStarter, HoldPoints
  <2>5. \A r : r = t.run => Ended(r)'
    BY <1>1, <1>4 DEF Ended, Now
  <2>6. TaskStep(h, w) /\ u = x
    BY <1>1, <1>2, <1>4, <2>2, <2>3, <2>4, <2>5, MoveStep
  <2>7. Shape(h, w)
    BY <1>1, <1>2, <2>1, <2>2, <2>4, <2>6, MoveWorks
  <2> QED
    BY <2>6, <2>7
<1> QED
  BY <1>3, <1>4 DEF Complete

LEMMA CleanupShape ==
  ASSUME Before, NEW h \in Hosts, NEW w \in Tasks, Cleanup(h, w)
  PROVE  TaskStep(h, w) /\ Shape(h, w)
<1> DEFINE t == task[h][w]
           u == task'[h][w]
<1>1. /\ t.pc = "cleanup" /\ t.ev = NoView
      /\ UNCHANGED <<journal, phase, live, dropped>>
  BY DEF Cleanup, At, durable
<1>2. /\ t \in TaskStates /\ TaskKnows(t) /\ ~IsStarter(t) /\ ~Held(t)
      /\ DroppedKept /\ Informed(t)
  BY <1>1, TaskFacts DEF IsStarter, Held, HoldPoints, DroppedKept
<1>3. t.run \in Runs
  BY <1>1, <1>2 DEF TaskKnows, RunPoints, Points
<1>4. ASSUME NEW ok, Return(h, w, ok), UNCHANGED active PROVE TaskStep(h, w) /\ Shape(h, w)
  <2>1. TaskStep(h, w) /\ Rests(u)
    BY <1>1, <1>2, <1>4, ReturnStep
  <2> QED
    BY <1>1, <1>2, <1>4, <2>1, RestShape
<1>5. ASSUME NEW pc \in {"finish", "driverStop"}, Goto(h, w, [t EXCEPT !.pc = pc])
      PROVE  /\ TaskStep(h, w) /\ u.pc = pc /\ u.run = t.run /\ u.owned = t.owned
             /\ ~IsStarter(u)
  <2> DEFINE x == [t EXCEPT !.pc = pc]
  <2>1. /\ x.pc = pc /\ x.run = t.run /\ x.inst = t.inst /\ x.ev = NoView
        /\ x.todo = t.todo /\ x.owned = t.owned
    BY <1>1, <1>2 DEF TaskStates
  <2>2. SetTask(h, w, x) /\ UNCHANGED startLock
    BY <1>5 DEF Goto
  <2> HIDE DEF x
  <2>3. ~IsStarter(x)
    BY <1>5, <2>1 DEF IsStarter, HoldPoints
  <2>4. TaskStep(h, w) /\ u = x
    BY <1>1, <1>2, <1>5, <2>1, <2>2, <2>3, MoveStep
  <2> QED
    BY <2>1, <2>3, <2>4
<1>6. CASE /\ active[h][t.run] = "none" /\ UNCHANGED active
           /\ Goto(h, w, [t EXCEPT !.pc = "finish"])
  <2>1. /\ TaskStep(h, w) /\ u.pc = "finish" /\ u.run = t.run /\ u.owned = t.owned
        /\ ~IsStarter(u)
    BY <1>5, <1>6
  <2>2. Works(h, w, t, u)
    BY <1>1, <1>2, <1>3, <1>6, <2>1 DEF Works, SameActive, SameLive
  <2> QED
    BY <2>1, <2>2 DEF Shape
<1>7. CASE /\ MayStop(h, t.run) /\ active' = [active EXCEPT ![h][t.run] = "cleaning"]
           /\ Goto(h, w, [t EXCEPT !.pc = "driverStop"])
  <2>1. TaskStep(h, w) /\ u.pc = "driverStop" /\ u.run = t.run /\ u.owned = t.owned
    BY <1>5, <1>7
  <2>2. ActiveBecomes(h, t.run, "cleaning") /\ active[h][t.run] = "available"
    BY <1>3, <1>7 DEF ActiveBecomes, MayStop, Before, TypeInv, TypeOK, HostType
  <2>3. Takes(h, w, t, u)
    BY <1>1, <2>1, <2>2 DEF Takes, SameLive
  <2> QED
    BY <2>1, <2>3 DEF Shape
<1> QED
  BY <1>4, <1>6, <1>7 DEF Cleanup

LEMMA DriverStopShape ==
  ASSUME Before, NEW h \in Hosts, NEW w \in Tasks, DriverStop(h, w)
  PROVE  TaskStep(h, w) /\ Shape(h, w)
<1> DEFINE t == task[h][w]
           u == task'[h][w]
<1>1. t.pc = "driverStop" /\ t.ev = NoView /\ UNCHANGED <<journal, phase, dropped>>
  BY DEF DriverStop, At, durable
<1>2. t \in TaskStates /\ TaskKnows(t) /\ DroppedKept /\ Informed(t)
  BY <1>1, TaskFacts DEF DroppedKept
<1>3. t.run \in Runs
  BY <1>1, <1>2 DEF TaskKnows, RunPoints, Points
<1>4. CASE /\ live' = [live EXCEPT ![h] = @ \ {t.run}]
           /\ active' = [active EXCEPT ![h][t.run] = "none"]
           /\ IF Completing(h, w) THEN Goto(h, w, [t EXCEPT !.pc = "finish"])
              ELSE Return(h, w, TRUE)
  <2>1. LiveLoses(h, t.run) /\ ActiveBecomes(h, t.run, "none")
    BY <1>3, <1>4 DEF LiveLoses, ActiveBecomes, Before, TypeInv, TypeOK, HostType
  <2>2. CASE Return(h, w, TRUE)
    <3>1. TaskStep(h, w) /\ Rests(u)
      BY <1>1, <1>2, <2>2, ReturnStep
    <3> QED
      BY <1>1, <2>1, <3>1 DEF Stopped, Shape
  <2>3. CASE Goto(h, w, [t EXCEPT !.pc = "finish"])
    <3> DEFINE x == [t EXCEPT !.pc = "finish"]
    <3>1. /\ x.pc = "finish" /\ x.run = t.run /\ x.inst = t.inst /\ x.ev = NoView
          /\ x.todo = t.todo /\ x.owned = t.owned
      BY <1>1, <1>2 DEF TaskStates
    <3>2. SetTask(h, w, x) /\ UNCHANGED startLock
      BY <2>3 DEF Goto
    <3> HIDE DEF x
    <3>3. ~IsStarter(x)
      BY <3>1 DEF IsStarter, HoldPoints
    <3>4. TaskStep(h, w) /\ u = x
      BY <1>1, <1>2, <3>1, <3>2, <3>3, MoveStep
    <3> QED
      BY <1>1, <2>1, <3>1, <3>4 DEF Stopped, Shape
  <2> QED
    BY <1>4, <2>2, <2>3
<1>5. CASE Own(h, t.run) /\ Return(h, w, FALSE) /\ UNCHANGED live
  <2>1. TaskStep(h, w) /\ Rests(u)
    BY <1>1, <1>2, <1>5, ReturnStep
  <2>2. ActiveBecomes(h, t.run, "available") /\ SameLive
    BY <1>3, <1>5 DEF Own, ActiveBecomes, SameLive, Before, TypeInv, TypeOK, HostType
  <2> QED
    BY <1>1, <2>1, <2>2 DEF StopFailed, Shape
<1> QED
  BY <1>4, <1>5 DEF DriverStop

LEMMA FinishShape ==
  ASSUME Before, NEW h \in Hosts, NEW w \in Tasks, Finish(h, w)
  PROVE  TaskStep(h, w) /\ Shape(h, w)
<1> DEFINE t == task[h][w]
           u == task'[h][w]
           v == Now(t.run)
<1>1. t.pc = "finish" /\ t.ev = NoView /\ UNCHANGED <<journal, phase, active, live, dropped>>
  BY DEF Finish, At, durable
<1>2. t \in TaskStates /\ ~Held(t) /\ DroppedKept
  BY <1>1, TaskFacts DEF DroppedKept, Held, HoldPoints
<1>3. ASSUME NEW ok, Return(h, w, ok) PROVE TaskStep(h, w) /\ Shape(h, w)
  <2>1. TaskStep(h, w) /\ Rests(u)
    BY <1>1, <1>2, <1>3, ReturnStep
  <2> QED
    BY <1>1, <1>2, <2>1, RestShape
<1>4. CASE /\ v.status = "stopping" /\ UNCHANGED startLock
           /\ Propose(h, w, t, TerminalAfterCleanup(v, t.owned, t.claim))
  <2> DEFINE e == TerminalAfterCleanup(v, t.owned, t.claim)
  <2>1. ASSUME NEW s, NEW q
        PROVE  Moved(v, s, q, t.claim).run = t.run /\ Moved(v, s, q, t.claim).status = s
    BY <1>4, MovedRun DEF Before
  <2>2. e.run = t.run
    BY <2>1 DEF TerminalAfterCleanup
  <2>3. e.status \in {"stopped", "failed"} => t.owned
    BY <2>1 DEF TerminalAfterCleanup
  <2> HIDE DEF e
  <2> QED
    BY <1>1, <1>4, <2>2, <2>3, ProposeStep DEF e
<1> QED
  BY <1>3, <1>4 DEF Finish
\* The commit of an event, up to the task's next state.
LEMMA CommitFacts ==
  ASSUME Before, NEW h \in Hosts, NEW w \in Tasks, task[h][w].ev # NoView, Land(h, w)
  PROVE  /\ task[h][w].ev \in Events
         /\ \A r : Now(r)' = IF task[h][w].ev.run = r THEN task[h][w].ev ELSE Now(r)
<1>1. task[h][w].ev \in Events /\ journal' = Append(journal, task[h][w].ev)
  BY LandType DEF Before, TypeInv, Land
<1> DEFINE e == task[h][w].ev
<1>2. ASSUME NEW r PROVE Now(r)' = IF e.run = r THEN e ELSE Now(r)
  BY <1>1, NowAppend DEF Before
<1> QED
  BY <1>1, <1>2

LEMMA StartingCommittedShape ==
  ASSUME Before, NEW h \in Hosts, NEW w \in Tasks, StartingCommitted(h, w)
  PROVE  TaskStep(h, w) /\ Shape(h, w)
<1> DEFINE t == task[h][w]
           u == task'[h][w]
           x == [t EXCEPT !.pc = "activate", !.ev = NoView]
<1>1. /\ t.pc = "claim" /\ t.ev # NoView /\ Land(h, w)
      /\ SetTask(h, w, x) /\ UNCHANGED <<phase, startLock, active, live, dropped>>
  BY DEF StartingCommitted, Appending, Commit, Goto, Resumed
<1>2. /\ t \in TaskStates /\ TaskKnows(t) /\ Informed(t) /\ IsStarter(t) /\ ~t.owned
      /\ DroppedKept
  BY <1>1, TaskFacts DEF IsStarter, DroppedKept
<1>3. /\ x.pc = "activate" /\ x.run = t.run /\ x.inst = t.inst /\ x.ev = NoView
      /\ x.todo = t.todo /\ x.owned = t.owned
  BY <1>2 DEF TaskStates
<1>4. u = x
  BY <1>1, TaskSet DEF Before
<1> HIDE DEF x
<1>5. t.ev.run = t.run /\ t.ev.inst = t.inst
  BY <1>1, <1>2 DEF Informed
<1>6. t.ev.status # "none"
  BY <1>1, CommitFacts DEF Events, ActiveStatuses, TerminalStatuses
<1>7. \A r : r = t.run => Begun(r)' /\ Now(r)'.inst = t.inst
  BY <1>1, <1>5, <1>6, CommitFacts DEF Begun
<1>8. \A r \in Runs : <<r, "cleanup">> \in t.todo => Ended(r)'
  BY <1>2, InformedKept DEF Before
<1>9. Informed(task[h][w])'
  BY <1>2, <1>3, <1>4, <1>7, <1>8 DEF Informed, NoView
<1>10. TaskStep(h, w)
  BY <1>1, <1>2, <1>3, <1>4, <1>9, GoStep DEF Starting
<1>11. Advances(h, w, t, u)
  BY <1>1, <1>2, <1>3, <1>4
     DEF Advances, IsStarter, Held, HoldPoints, SameActive, SameLive
<1> QED
  BY <1>10, <1>11 DEF Shape

LEMMA FailedCommittedShape ==
  ASSUME Before, NEW h \in Hosts, NEW w \in Tasks,
         FailedCommitted(h, w) \/ TerminalCommitted(h, w)
  PROVE  TaskStep(h, w) /\ Shape(h, w)
<1>1. /\ task[h][w].pc \in {"failStart", "finish"} /\ task[h][w].ev # NoView /\ Land(h, w)
      /\ Return(h, w, FALSE) \/ Return(h, w, TRUE)
      /\ UNCHANGED <<phase, active, live, dropped>>
  BY DEF FailedCommitted, TerminalCommitted, Appending, Commit
<1>2. TaskStep(h, w) /\ Rests(task'[h][w])
  BY <1>1, ReturnStep DEF DroppedKept
<1> QED
  BY <1>1, <1>2, RestShape DEF Held, HoldPoints

LEMMA RunningCommittedShape ==
  ASSUME Before, NEW h \in Hosts, NEW w \in Tasks, RunningCommitted(h, w)
  PROVE  TaskStep(h, w) /\ Shape(h, w)
<1> DEFINE t == task[h][w]
<1>1. /\ t.pc = "commit" /\ t.ev # NoView /\ Land(h, w) /\ Own(h, t.run)
      /\ Return(h, w, TRUE) /\ UNCHANGED <<phase, live, dropped>>
  BY DEF RunningCommitted, Appending, Commit
<1>2. t.run \in Runs /\ Held(t)
  BY <1>1, TaskFacts DEF IsStarter, Held, HoldPoints
<1>3. TaskStep(h, w) /\ Rests(task'[h][w])
  BY <1>1, ReturnStep DEF DroppedKept
<1>4. ActiveBecomes(h, t.run, "available") /\ SameLive
  BY <1>1, <1>2 DEF Own, ActiveBecomes, SameLive, Before, TypeInv, TypeOK, HostType
<1> QED
  BY <1>2, <1>3, <1>4 DEF HandsOver, Shape

LEMMA ResumeCommittedShape ==
  ASSUME Before, NEW h \in Hosts, NEW w \in Tasks, ResumeCommitted(h, w)
  PROVE  TaskStep(h, w) /\ Shape(h, w)
<1> DEFINE t == task[h][w]
           u == task'[h][w]
<1>1. /\ t.pc = "resume" /\ t.ev # NoView /\ Land(h, w)
      /\ UNCHANGED <<phase, active, live, dropped>>
  BY DEF ResumeCommitted, Appending, Commit
<1>2. /\ t \in TaskStates /\ TaskKnows(t) /\ Informed(t) /\ ~IsStarter(t) /\ ~Held(t)
      /\ ~t.owned /\ DroppedKept
  BY <1>1, TaskFacts DEF IsStarter, Held, HoldPoints, DroppedKept, Informed
<1>3. CASE Return(h, w, TRUE)
  <2>1. TaskStep(h, w) /\ Rests(u)
    BY <1>1, <1>2, <1>3, ReturnStep
  <2> QED
    BY <1>1, <1>2, <2>1, RestShape
<1>4. CASE t.ev.status = "interrupted" /\ Goto(h, w, Resumed(h, w, "cleanup"))
  <2> DEFINE x == [t EXCEPT !.pc = "cleanup", !.ev = NoView]
  <2>1. /\ x.pc = "cleanup" /\ x.run = t.run /\ x.inst = t.inst /\ x.ev = NoView
        /\ x.todo = t.todo /\ x.owned = t.owned
    BY <1>2 DEF TaskStates
  <2>2. SetTask(h, w, x) /\ UNCHANGED startLock
    BY <1>4 DEF Goto, Resumed
  <2> HIDE DEF x
  <2>3. ~IsStarter(x)
    BY <2>1 DEF IsStarter, HoldPoints
  <2>4. t.ev.run = t.run
    BY <1>1, <1>2 DEF Informed
  <2>5. \A r : r = t.run => Ended(r)'
    BY <1>1, <1>4, <2>4, CommitFacts DEF Ended, TerminalStatuses
  <2>6. TaskStep(h, w) /\ u = x
    BY <1>1, <1>2, <2>1, <2>2, <2>3, <2>5, MoveStep
  <2>7. Shape(h, w)
    BY <1>1, <1>2, <2>1, <2>3, <2>6, MoveWorks
  <2> QED
    BY <2>6, <2>7
<1> QED
  BY <1>3, <1>4 DEF ResumeCommitted

LEMMA StoppingCommittedShape ==
  ASSUME Before, NEW h \in Hosts, NEW w \in Tasks,
         StoppingCommitted(h, w) \/ RestartCommitted(h, w)
  PROVE  TaskStep(h, w) /\ Shape(h, w)
<1> DEFINE t == task[h][w]
           u == task'[h][w]
<1>1. PICK pc \in {"complete", "hydrate"} :
        /\ t.pc \in {"stop", "loss", "hydrate"} /\ t.ev # NoView /\ Land(h, w)
        /\ Goto(h, w, Resumed(h, w, pc))
        /\ UNCHANGED <<phase, active, live, dropped>>
  BY DEF StoppingCommitted, RestartCommitted, Appending, Commit
<1>2. /\ t \in TaskStates /\ TaskKnows(t) /\ Informed(t) /\ ~IsStarter(t) /\ ~t.owned
      /\ DroppedKept
  BY <1>1, TaskFacts DEF IsStarter, HoldPoints, DroppedKept, Informed
<1> DEFINE x == [t EXCEPT !.pc = pc, !.ev = NoView]
<1>3. /\ x.pc = pc /\ x.run = t.run /\ x.inst = t.inst /\ x.ev = NoView
      /\ x.todo = t.todo /\ x.owned = t.owned
  BY <1>2 DEF TaskStates
<1>4. SetTask(h, w, x) /\ UNCHANGED startLock
  BY <1>1 DEF Goto, Resumed
<1> HIDE DEF x
<1>5. ~IsStarter(x)
  BY <1>3 DEF IsStarter, HoldPoints
<1>6. TaskStep(h, w) /\ u = x
  BY <1>1, <1>2, <1>3, <1>4, <1>5, MoveStep
<1>7. Shape(h, w)
  BY <1>1, <1>2, <1>3, <1>5, <1>6, MoveWorks
<1> QED
  BY <1>6, <1>7
\* A task whose append did not land tries again, or gives up the commit.
LEMMA RetryShape ==
  ASSUME Before, NEW h \in Hosts, NEW w \in Tasks, NEW pc,
         task[h][w].ev # NoView, task[h][w].pc # "idle",
         pc = task[h][w].pc \/ (task[h][w].pc = "commit" /\ pc = "failedStop"),
         Goto(h, w, Resumed(h, w, pc)),
         UNCHANGED <<journal, phase, active, live, dropped>>
  PROVE  TaskStep(h, w) /\ Shape(h, w)
<1> DEFINE t == task[h][w]
           u == task'[h][w]
           x == [t EXCEPT !.pc = pc, !.ev = NoView]
<1>1. /\ t \in TaskStates /\ TaskKnows(t) /\ Informed(t) /\ DroppedKept
      /\ t.pc \notin {"driverStop", "lostStop", "failedStop"}
  BY TaskFacts DEF DroppedKept, Informed
<1>2. SetTask(h, w, x) /\ UNCHANGED startLock
  BY DEF Goto, Resumed
<1>3. u = x
  BY <1>2, TaskSet DEF Before
<1>4. /\ u.pc = pc /\ u.run = t.run /\ u.inst = t.inst /\ u.ev = NoView
      /\ u.todo = t.todo /\ u.owned = t.owned
  BY <1>1, <1>3 DEF TaskStates
<1>5. IsStarter(u) => IsStarter(t) /\ t.pc # "claim"
  BY <1>4 DEF IsStarter, HoldPoints
<1>6. t.owned => t.pc \in {"cleanup", "driverStop", "finish"} /\ t.run \in Runs
  BY <1>1 DEF Informed, TaskKnows, RunPoints, Points
<1>7. Informed(task[h][w])'
  <2>1. u.pc # "loss" \/ t.pc = "loss"
    BY <1>4
  <2>2. u.pc \in {"cleanup", "driverStop"} => t.pc \in {"cleanup", "driverStop"}
    BY <1>4
  <2>3. u.owned => u.pc \in {"cleanup", "driverStop", "finish"}
    BY <1>4, <1>6
  <2> HIDE DEF x
  <2> QED
    BY <1>4, <1>5, <2>1, <2>2, <2>3, MovesInformed
<1>8. TaskStep(h, w)
  <2>1. Starting(u) => Starting(t) /\ u.inst = t.inst
    BY <1>4, <1>5 DEF Starting
  <2> HIDE DEF x
  <2> QED
    BY <1>1, <1>2, <1>7, <2>1, GoStep
<1>9. CASE t.pc = "claim"
  <2>1. Rests(u) /\ ~Held(t)
    BY <1>4, <1>6, <1>9 DEF Rests, IsStarter, Held, HoldPoints
  <2> QED
    BY <1>8, <2>1, RestShape
<1>10. CASE t.pc # "claim" /\ IsStarter(t)
  <2>1. IsStarter(u) /\ (Held(u) <=> Held(t)) /\ ~t.owned
    BY <1>4, <1>6, <1>10 DEF IsStarter, Held, HoldPoints
  <2>2. Advances(h, w, t, u)
    BY <1>4, <1>10, <2>1 DEF Advances, SameActive, SameLive
  <2> QED
    BY <1>8, <2>2 DEF Shape
<1>11. CASE t.pc # "claim" /\ ~IsStarter(t)
  <2>1. u.pc = t.pc /\ ~IsStarter(u)
    BY <1>4, <1>5, <1>11 DEF IsStarter, HoldPoints
  <2>2. Works(h, w, t, u)
    BY <1>1, <1>4, <1>6, <1>11, <2>1 DEF Works, SameActive, SameLive
  <2> QED
    BY <1>8, <2>2 DEF Shape
<1> QED
  BY <1>9, <1>10, <1>11

LEMMA AppendRefusedShape ==
  ASSUME Before, NEW h \in Hosts, NEW w \in Tasks, CasLost(h, w) \/ AppendFails(h, w)
  PROVE  TaskStep(h, w) /\ Shape(h, w)
<1> DEFINE t == task[h][w]
<1>1. t.ev # NoView /\ UNCHANGED <<journal, phase, active, live, dropped>>
  BY DEF CasLost, AppendFails, durable, hostVars
<1>2. /\ t \in TaskStates /\ TaskKnows(t)
      /\ t.pc \notin {"idle", "driverStop", "lostStop", "failedStop"}
  BY <1>1, TaskFacts DEF Informed, TaskKnows, RunPoints
<1>3. \/ Return(h, w, FALSE) /\ t.pc # "commit"
      \/ Goto(h, w, Resumed(h, w, t.pc))
      \/ t.pc = "commit" /\ Goto(h, w, Resumed(h, w, "failedStop"))
  BY DEF CasLost, AppendFails
<1>4. CASE Return(h, w, FALSE) /\ t.pc # "commit"
  <2>1. TaskStep(h, w) /\ Rests(task'[h][w])
    BY <1>1, <1>2, <1>4, ReturnStep DEF DroppedKept
  <2> QED
    BY <1>1, <1>2, <1>4, <2>1, RestShape DEF Held, HoldPoints
<1> QED
  BY <1>1, <1>2, <1>3, <1>4, RetryShape

LEMMA SyncFailsShape ==
  ASSUME Before, NEW h \in Hosts, NEW w \in Tasks, SyncFails(h, w)
  PROVE  TaskStep(h, w) /\ Shape(h, w)
<1> DEFINE t == task[h][w]
<1>1. /\ t.pc \in {"claim", "failStart", "commit", "resume", "loss", "complete", "finish"}
      /\ dropped' = [dropped EXCEPT ![h] = IF t.pc = "commit" THEN @ \cup {t.run} ELSE @]
      /\ Return(h, w, FALSE) /\ UNCHANGED <<journal, phase, live, active>>
  BY DEF SyncFails, durable
<1>2. DroppedKept /\ (t.pc = "commit" => t.run \in dropped'[h])
  BY <1>1 DEF DroppedKept, Before, TypeInv, TypeOK, HostType
<1>3. TaskStep(h, w) /\ Rests(task'[h][w])
  BY <1>1, <1>2, ReturnStep
<1>4. Held(t) => t.pc = "commit"
  BY <1>1 DEF Held, HoldPoints
<1> QED
  BY <1>1, <1>2, <1>3, <1>4, RestShape

LEMMA DisconnectShape ==
  ASSUME Before, NEW h \in Hosts, NEW w \in Tasks, Disconnect(h, w)
  PROVE  TaskStep(h, w) /\ Shape(h, w)
<1> DEFINE t == task[h][w]
           u == task'[h][w]
<1>1. PICK activated \in BOOLEAN :
        /\ activated => t.pc = "activate"
        /\ live' = [live EXCEPT ![h] = IF activated THEN @ \cup {t.run} ELSE @]
        /\ dropped' = [dropped EXCEPT ![h] =
             IF activated \/ t.pc \in {"commit", "lostStop", "failedStop", "driverStop"}
             THEN @ \cup {t.run} ELSE @]
  BY DEF Disconnect
<1>2. t.role = "request" /\ Return(h, w, FALSE) /\ UNCHANGED <<journal, phase, active>>
  BY DEF Disconnect, durable
<1>3. DroppedKept /\ (activated \/ Held(t) => t.run \in dropped'[h])
  BY <1>1 DEF DroppedKept, Held, HoldPoints, Before, TypeInv, TypeOK, HostType
<1>4. TaskStep(h, w) /\ Rests(u)
  BY <1>2, <1>3, ReturnStep
<1>5. CASE activated
  <2>1. LiveGains(h, t.run) /\ IsStarter(t)
    BY <1>1, <1>5 DEF LiveGains, IsStarter, Before, TypeInv, TypeOK, HostType
  <2>2. Abandons(h, w, t, u)
    BY <1>1, <1>2, <1>3, <1>4, <1>5, <2>1 DEF Abandons, SameActive
  <2> QED
    BY <1>4, <2>2 DEF Shape
<1>6. CASE ~activated
  <2>1. live' = live
    BY <1>1, <1>6 DEF Before, TypeInv, TypeOK, HostType
  <2> QED
    BY <1>2, <1>3, <1>4, <2>1, RestShape
<1> QED
  BY <1>5, <1>6

LEMMA DisconnectCommittedShape ==
  ASSUME Before, NEW h \in Hosts, NEW w \in Tasks, DisconnectCommitted(h, w)
  PROVE  TaskStep(h, w) /\ Shape(h, w)
<1> DEFINE t == task[h][w]
<1>1. /\ t.pc = "commit" /\ t.ev # NoView /\ Land(h, w) /\ Return(h, w, FALSE)
      /\ dropped' = [dropped EXCEPT ![h] = @ \cup {t.run}]
      /\ UNCHANGED <<phase, live, active>>
  BY DEF DisconnectCommitted, Appending
<1>2. DroppedKept /\ t.run \in dropped'[h]
  BY <1>1 DEF DroppedKept, Before, TypeInv, TypeOK, HostType
<1>3. TaskStep(h, w) /\ Rests(task'[h][w])
  BY <1>1, <1>2, ReturnStep
<1> QED
  BY <1>1, <1>2, <1>3, RestShape
\* Tasks of recovery and of the supervisor.
LEMMA BootShape ==
  ASSUME Before, NEW h \in Hosts, NEW w \in Tasks, Boot(h, w)
  PROVE  TaskStep(h, w) /\ Shape(h, w)
<1> DEFINE x == [IdleTask EXCEPT !.pc = "hydrate", !.role = "hydrate"]
<1>1. /\ phase[h] = "down" /\ phase' = [phase EXCEPT ![h] = "hydrating"] /\ SetTask(h, w, x)
      /\ UNCHANGED <<journal, active, live, dropped, startLock>>
  BY DEF Boot, locks
<1>2. HostServes(h)
  BY <1>1 DEF HostServes, Before, TypeInv, TypeOK, HostType
<1>3. task[h][w] = IdleTask
  BY <1>1 DEF Before, ActivationInv, DownIsIdle
<1>4. ~IsStarter(task[h][w])
  BY <1>3 DEF IsStarter, IdleTask, HoldPoints
<1>5. x.pc = "hydrate" /\ x.ev = NoView /\ ~x.owned /\ x.todo = {} /\ NoView.status = "none"
  BY DEF IdleTask, NoView
<1> HIDE DEF x
<1>6. ~IsStarter(x)
  BY <1>5 DEF IsStarter, HoldPoints
<1> QED
  BY <1>1, <1>2, <1>4, <1>5, <1>6, FreshStep

LEMMA HydrateShape ==
  ASSUME Before, NEW h \in Hosts, NEW w \in Tasks, Hydrate(h, w)
  PROVE  TaskStep(h, w) /\ Shape(h, w)
<1> DEFINE t == task[h][w]
           n == next'[h]
<1>1. /\ t.pc = "hydrate" /\ t.ev = NoView
      /\ UNCHANGED <<journal, phase, active, live, dropped, startLock>>
  BY DEF Hydrate, At, durable, hostVars
<1>2. /\ t \in TaskStates /\ ~IsStarter(t) /\ ~t.owned /\ HostServes(h)
      /\ NoView.status = "none"
  BY <1>1, TaskFacts DEF IsStarter, HoldPoints, Informed, HostServes, NoView
<1>3. ASSUME NEW S, SetTask(h, w, [t EXCEPT !.pc = "loop", !.todo = S \X {"complete"}])
      PROVE  TaskStep(h, w) /\ Shape(h, w)
  <2> DEFINE x == [t EXCEPT !.pc = "loop", !.todo = S \X {"complete"}]
  <2>1. x.pc = "loop" /\ x.ev = NoView /\ ~x.owned /\ x.todo = S \X {"complete"}
    BY <1>1, <1>2 DEF TaskStates
  <2>2. \A r \in Runs : <<r, "cleanup">> \notin x.todo
    BY <2>1
  <2>3. SetTask(h, w, x)
    BY <1>3
  <2> HIDE DEF x
  <2>4. ~IsStarter(x)
    BY <2>1 DEF IsStarter, HoldPoints
  <2> QED
    BY <1>1, <1>2, <2>1, <2>2, <2>3, <2>4, FreshStep
<1>4. ASSUME NEW r \in Unmarked(n),
             Propose(h, w, t, StoppingRun(Latest(journal, n, r), "host_restart", NoClaim))
      PROVE  TaskStep(h, w) /\ Shape(h, w)
  <2> DEFINE e == StoppingRun(Latest(journal, n, r), "host_restart", NoClaim)
  <2>1. journal \in Seq(Events) /\ n \in 0 .. Len(journal)
    BY DEF Hydrate, Sync, Before, TypeInv, TypeOK, JournalType
  <2>2. Latest(journal, n, r) \in Events
    BY <1>4, <2>1, LatestType DEF Unmarked, ActiveStatuses
  <2>3. e.status = "stopping"
    BY <2>2 DEF StoppingRun, Moved, Events
  <2> HIDE DEF e
  <2> QED
    BY <1>1, <1>4, <2>3, ProposeStep DEF e
<1> QED
  BY <1>3, <1>4 DEF Hydrate

LEMMA WakeShape ==
  ASSUME Before, NEW h \in Hosts, Wake(h)
  PROVE  TaskStep(h, Supervisor) /\ Shape(h, Supervisor)
<1> DEFINE x == [IdleTask EXCEPT !.pc = "scan", !.role = "supervise"]
<1>0. Supervisor \in Tasks
  BY DEF Tasks
<1>1. /\ phase[h] # "down" /\ task[h][Supervisor].pc = "idle" /\ SetTask(h, Supervisor, x)
      /\ UNCHANGED <<journal, phase, active, live, dropped, startLock>>
  BY DEF Wake, At, durable, locks
<1>2. HostServes(h) /\ ~IsStarter(task[h][Supervisor])
  BY <1>1 DEF HostServes, IsStarter, HoldPoints
<1>3. x.pc = "scan" /\ x.ev = NoView /\ ~x.owned /\ x.todo = {} /\ NoView.status = "none"
  BY DEF IdleTask, NoView
<1> HIDE DEF x
<1>4. ~IsStarter(x)
  BY <1>3 DEF IsStarter, HoldPoints
<1> QED
  BY <1>0, <1>1, <1>2, <1>3, <1>4, FreshStep

LEMMA ScanShape ==
  ASSUME Before, NEW h \in Hosts, Scan(h)
  PROVE  TaskStep(h, Supervisor) /\ Shape(h, Supervisor)
<1> DEFINE x == [IdleTask EXCEPT !.pc = "scanTerminal", !.role = "supervise",
                                 !.todo = StoppingRuns \X {"complete"}]
<1>0. Supervisor \in Tasks
  BY DEF Tasks
<1>1. /\ task[h][Supervisor].pc = "scan" /\ SetTask(h, Supervisor, x)
      /\ UNCHANGED <<journal, phase, active, live, dropped, startLock>>
  BY DEF Scan, At, durable, hostVars, locks
<1>2. HostServes(h) /\ ~IsStarter(task[h][Supervisor])
  BY <1>0, <1>1, TaskFacts DEF HostServes, IsStarter, HoldPoints
<1>3. /\ x.pc = "scanTerminal" /\ x.ev = NoView /\ ~x.owned /\ NoView.status = "none"
      /\ x.todo = StoppingRuns \X {"complete"}
  BY DEF IdleTask, NoView
<1> HIDE DEF x
<1>4. ~IsStarter(x) /\ \A r \in Runs : <<r, "cleanup">> \notin x.todo
  BY <1>3 DEF IsStarter, HoldPoints
<1> QED
  BY <1>0, <1>1, <1>2, <1>3, <1>4, FreshStep

LEMMA ScanTerminalShape ==
  ASSUME Before, NEW h \in Hosts, ScanTerminal(h)
  PROVE  TaskStep(h, Supervisor) /\ Shape(h, Supervisor)
<1> DEFINE todo == task[h][Supervisor].todo \cup (TerminalActivations(h) \X {"cleanup"})
           x == IF todo = {} THEN IdleTask
                ELSE [IdleTask EXCEPT !.pc = "loop", !.role = "supervise", !.todo = todo]
<1>0. Supervisor \in Tasks
  BY DEF Tasks
<1>1. /\ task[h][Supervisor].pc = "scanTerminal" /\ SetTask(h, Supervisor, x)
      /\ UNCHANGED <<journal, phase, active, live, dropped, startLock>>
  BY DEF ScanTerminal, At, durable, hostVars, locks
<1>2. HostServes(h) /\ ~IsStarter(task[h][Supervisor]) /\ Informed(task[h][Supervisor])
  BY <1>0, <1>1, TaskFacts DEF HostServes, IsStarter, HoldPoints
<1>3. \A r \in Runs : <<r, "cleanup">> \in todo => Ended(r)
  BY <1>2 DEF Informed, TerminalActivations, Ended
<1>4. /\ x.pc \in {"idle", "loop"} /\ x.ev = NoView /\ ~x.owned /\ NoView.status = "none"
      /\ x.todo \subseteq todo
  <2> HIDE DEF todo
  <2> QED
    BY DEF IdleTask, NoView
<1> HIDE DEF x, todo
<1>5. ~IsStarter(x)
  BY <1>4 DEF IsStarter, HoldPoints
<1> QED
  BY <1>0, <1>1, <1>2, <1>3, <1>4, <1>5, FreshStep

LEMMA NextRunShape ==
  ASSUME Before, NEW h \in Hosts, NEW w \in Tasks, NextRun(h, w)
  PROVE  TaskStep(h, w) /\ Shape(h, w)
<1> DEFINE t == task[h][w]
<1>1. /\ t.pc = "loop" /\ t.ev = NoView
      /\ UNCHANGED <<journal, phase, active, live, dropped, startLock>>
  BY DEF NextRun, At, durable, hostVars, locks
<1>2. /\ t \in TaskStates /\ ~IsStarter(t) /\ ~t.owned /\ HostServes(h) /\ Informed(t)
      /\ NoView.status = "none"
  BY <1>1, TaskFacts DEF IsStarter, HoldPoints, Informed, HostServes, NoView
<1>3. PICK y \in t.todo : SetTask(h, w, [t EXCEPT !.pc = y[2], !.run = y[1], !.todo = @ \ {y}])
  BY DEF NextRun
<1>4. y \in Work
  BY <1>2 DEF TaskStates
<1>5. y[1] \in Runs /\ y[2] \in {"complete", "cleanup"} /\ y = <<y[1], y[2]>>
  BY <1>4 DEF Work
<1> DEFINE x == [t EXCEPT !.pc = y[2], !.run = y[1], !.todo = @ \ {y}]
<1>6. /\ x.pc = y[2] /\ x.run = y[1] /\ x.ev = NoView /\ ~x.owned /\ x.todo \subseteq t.todo
  BY <1>1, <1>2 DEF TaskStates
<1>7. y[2] = "cleanup" => Ended(y[1])
  BY <1>2, <1>3, <1>5 DEF Informed
<1>8. \A r \in Runs : <<r, "cleanup">> \in x.todo => Ended(r)
  BY <1>2, <1>6 DEF Informed
<1> HIDE DEF x
<1>9. ~IsStarter(x)
  BY <1>5, <1>6 DEF IsStarter, HoldPoints
<1> QED
  BY <1>1, <1>2, <1>3, <1>5, <1>6, <1>7, <1>8, <1>9, FreshStep DEF x

LEMMA PassEndsShape ==
  ASSUME Before, NEW h \in Hosts, NEW w \in Tasks, PassEnds(h, w)
  PROVE  TaskStep(h, w) /\ Shape(h, w)
<1> DEFINE t == task[h][w]
           x == IF t.role = "supervise" /\ t.retry
                THEN [IdleTask EXCEPT !.pc = "scan", !.role = "supervise"]
                ELSE IdleTask
<1>1. /\ t.pc = "loop" /\ SetTask(h, w, x)
      /\ phase' = [phase EXCEPT ![h] = IF t.role = "hydrate" THEN "up" ELSE @]
      /\ UNCHANGED <<journal, active, live, dropped, startLock>>
  BY DEF PassEnds, At, durable, locks
<1>2. phase[h] # "down" /\ ~IsStarter(t)
  BY <1>1, TaskFacts DEF IsStarter, HoldPoints
<1>3. HostServes(h)
  BY <1>1, <1>2 DEF HostServes, Before, TypeInv, TypeOK, HostType
<1>4. x.pc \in {"idle", "scan"} /\ x.ev = NoView /\ ~x.owned /\ x.todo = {} /\ NoView.status = "none"
  BY DEF IdleTask, NoView
<1> HIDE DEF x
<1>5. ~IsStarter(x)
  BY <1>4 DEF IsStarter, HoldPoints
<1> QED
  BY <1>1, <1>2, <1>3, <1>4, <1>5, FreshStep

LEMMA HaltResets ==
  ASSUME TypeInv, NEW h \in Hosts, Halt(h)
  PROVE  Resets(h)
BY DEF Halt, Resets, TypeInv, TypeOK, HostType, LockType, durable

-----------------------------------------------------------------------------
(* The invariant and the theorems.                                         *)

LEMMA ActivationStep ==
  ASSUME TypeInv, ActivationInv, NEW h \in Hosts, NEW w \in Tasks, ViewsKept,
         Step(h, w) \/ Failure(h, w) \/ Requests(h, w)
  PROVE  \/ TaskStep(h, w) /\ Shape(h, w)
         \/ Resets(h)
         \/ UNCHANGED <<journal, phase, active, live, dropped, startLock, task>>
<1>0. Before
  BY DEF Before
<1>1. CASE Step(h, w)
  BY <1>0, <1>1, ClaimStartShape, ActivateShape, FailStartShape, CommitStartShape,
     StopHeldActivationShape, ResumeStartShape, LossShape, CompleteShape, CleanupShape,
     DriverStopShape, FinishShape, StartingCommittedShape, FailedCommittedShape,
     RunningCommittedShape, ResumeCommittedShape, StoppingCommittedShape,
     AppendRefusedShape, HydrateShape, NextRunShape, PassEndsShape DEF Step
<1>2. CASE Failure(h, w)
  BY <1>0, <1>2, PrepareFailsShape, AppendRefusedShape, SyncFailsShape, HaltResets,
     DisconnectShape, DisconnectCommittedShape DEF Failure, HydrateFails
<1>3. CASE Requests(h, w)
  BY <1>0, <1>3, StartShape, StopShape, PackageActivationLostShape DEF Requests
<1> QED
  BY <1>1, <1>2, <1>3

LEMMA ActivationNext == TypeInv /\ ActivationInv /\ [Next]_vars => ActivationInv'
<1> SUFFICES ASSUME TypeInv, ActivationInv, [Next]_vars PROVE ActivationInv'
  OBVIOUS
<1>1. TypeInv' /\ Grows /\ ViewsKept /\ Before
  BY TypeNext, JournalStep, GrowthKeepsViews DEF Before
<1>2. CASE UNCHANGED vars
  BY <1>2, ActivationStutter DEF vars
<1>3. ASSUME NEW h \in Hosts, NEW w \in Tasks, Step(h, w) \/ Failure(h, w) \/ Requests(h, w)
      PROVE  ActivationInv'
  BY <1>1, <1>3, ActivationStep, ShapeKeeps, ResetKeeps, ActivationStutter
<1>4. ASSUME NEW h \in Hosts, NEW w \in Workers, Boot(h, w) PROVE ActivationInv'
  <2>1. w \in Tasks
    BY DEF Tasks
  <2> QED
    BY <1>1, <1>4, <2>1, BootShape, ShapeKeeps
<1>5. ASSUME NEW h \in Hosts, Wake(h) \/ Scan(h) \/ ScanTerminal(h) PROVE ActivationInv'
  <2>1. Supervisor \in Tasks
    BY DEF Tasks
  <2> QED
    BY <1>1, <1>5, <2>1, WakeShape, ScanShape, ScanTerminalShape, ShapeKeeps
<1>6. ASSUME NEW h \in Hosts, Crash(h) PROVE ActivationInv'
  BY <1>6, HaltResets, ResetKeeps DEF Crash
<1>7. ASSUME NEW h \in Hosts, Observe(h) PROVE ActivationInv'
  BY <1>7, ActivationStutter DEF Observe, durable, hostVars, locks
<1> QED
  BY <1>2, <1>3, <1>4, <1>5, <1>6, <1>7 DEF Next

-----------------------------------------------------------------------------
(* What the invariant says.                                                *)

LEMMA HolderStarts ==
  ASSUME NEW h, NEW w, NEW r, Holds(h, w, r)
  PROVE  /\ task[h][w].run = r /\ IsStarter(task[h][w]) /\ task[h][w].pc # "claim"
         /\ Starter(h, w, r)
BY DEF Holds, IsStarter, HoldPoints, Starter

\* Two holders on a Host have two Runs or are one task: they keep the start
\* lock of one Installation.
LEMMA HoldersShareNothing ==
  ASSUME TypeInv, ActivationInv, NEW h \in Hosts, NEW v \in Tasks, NEW w \in Tasks,
         NEW r \in Runs, NEW s \in Runs, Holds(h, v, r), Holds(h, w, s),
         Now(r).inst = Now(s).inst
  PROVE  r = s
<1>1. /\ task[h][v].run = r /\ IsStarter(task[h][v]) /\ task[h][v].pc # "claim"
      /\ task[h][w].run = s /\ IsStarter(task[h][w]) /\ task[h][w].pc # "claim"
  BY HolderStarts
<1>2. Now(r).inst = task[h][v].inst /\ Now(s).inst = task[h][w].inst
  BY <1>1 DEF ActivationInv, TasksInformed, Informed
<1>3. startLock[h][task[h][v].inst] = v /\ startLock[h][task[h][w].inst] = w
  BY <1>1 DEF ActivationInv, StartsLocked, Starting
<1> QED
  BY <1>1, <1>2, <1>3

\* One owner per activation.  The registry's entry and a start that holds the
\* activation exclude each other, an entry is being stopped exactly when it
\* is Cleaning, and by one task: the ensure! checks behind `replaced` and
\* `removed` in the cleanup never fire, on any number of Hosts.
THEOREM ActivationsHaveOneOwner == Spec => []SingleOwner
<1>1. TypeInv /\ ActivationInv => SingleOwner
  <2> SUFFICES ASSUME TypeInv, ActivationInv, NEW h \in Hosts, NEW r \in Runs, NEW w \in Tasks
               PROVE  /\ Holds(h, w, r) => active[h][r] = "none"
                      /\ Stops(h, w, r) => active[h][r] = "cleaning"
                      /\ \A v \in Tasks : /\ Holds(h, w, r) \/ Stops(h, w, r)
                                          /\ Holds(h, v, r) \/ Stops(h, v, r)
                                          => v = w
    BY DEF SingleOwner
  <2>1. \A v \in Tasks : Holds(h, v, r) => active[h][r] = "none"
    BY HolderStarts DEF ActivationInv, OwnerInv
  <2>2. \A v \in Tasks : Stops(h, v, r) => active[h][r] = "cleaning"
    BY DEF ActivationInv, OwnerInv
  <2>3. \A v \in Tasks : Holds(h, w, r) /\ Holds(h, v, r) => v = w
    BY HolderStarts DEF ActivationInv, OneStarter
  <2>4. \A v \in Tasks : Stops(h, w, r) /\ Stops(h, v, r) => v = w
    BY DEF ActivationInv, OwnerInv
  <2> QED
    BY <2>1, <2>2, <2>3, <2>4
<1> QED
  BY <1>1, TypeInit, TypeNext, ActivationInvInit, ActivationNext, PTL DEF Spec

\* No activation leaks: whatever the driver runs is owned by the registry or
\* held by a start, except what a failed journal read or a dropped request
\* made the code forget (`dropped`).
THEOREM ActivationsAreAccounted == Spec => []ActivationAccounted
<1>1. ActivationInv => ActivationAccounted
  BY DEF ActivationInv
<1> QED
  BY <1>1, TypeInit, TypeNext, ActivationInvInit, ActivationNext, PTL DEF Spec

\* On a Host an Installation has one activation: a start takes the start lock
\* and refuses while an entry of the Installation is owned, also when that
\* Run is already terminal and only its cleanup is outstanding.
THEOREM OneActivationPerInstallation == Spec => []OneActivation
<1>1. TypeInv /\ ActivationInv => OneActivation
  <2> SUFFICES ASSUME TypeInv, ActivationInv, NEW h \in Hosts,
                      NEW r \in live[h] \ dropped[h], NEW s \in live[h] \ dropped[h],
                      Now(r).inst = Now(s).inst
               PROVE  r = s
    BY DEF OneActivation
  <2>0. live \in [Hosts -> SUBSET Runs]
    BY DEF TypeInv, TypeOK, HostType
  <2>1. r \in Runs /\ s \in Runs
    BY <2>0
  <2>2. \A q \in {r, s} : active[h][q] # "none" \/ \E w \in Tasks : Holds(h, w, q)
    BY DEF ActivationInv, ActivationAccounted
  <2>3. \A q \in Runs, p \in Runs, w \in Tasks :
          Holds(h, w, q) /\ active[h][p] # "none" => Now(p).inst # Now(q).inst
    <3> SUFFICES ASSUME NEW q \in Runs, NEW p \in Runs, NEW w \in Tasks, Holds(h, w, q),
                        active[h][p] # "none"
                 PROVE  Now(p).inst # Now(q).inst
      OBVIOUS
    <3>1. task[h][w].run = q /\ IsStarter(task[h][w]) /\ task[h][w].pc # "claim"
      BY HolderStarts
    <3>2. Now(q).inst = task[h][w].inst
      BY <3>1 DEF ActivationInv, TasksInformed, Informed
    <3> QED
      BY <3>1, <3>2 DEF ActivationInv, InstallationInv
  <2>4. active[h][r] # "none" /\ active[h][s] # "none" => r = s
    BY <2>1 DEF ActivationInv, InstallationInv
  <2>5. \A v, w \in Tasks : Holds(h, v, r) /\ Holds(h, w, s) => r = s
    BY <2>1, HoldersShareNothing
  <2> QED
    BY <2>1, <2>2, <2>3, <2>4, <2>5
<1> QED
  BY <1>1, TypeInit, TypeNext, ActivationInvInit, ActivationNext, PTL DEF Spec

\* `stopped` and `failed` promise that nothing runs: no Host has an activation
\* of the Run, and no start can still make one.
THEOREM SettledRunsAreClean == Spec => []SettledIsClean
<1>1. ActivationInv => SettledIsClean
  BY DEF ActivationInv, SettledInv, Settled, SettledIsClean
<1> QED
  BY <1>1, TypeInit, TypeNext, ActivationInvInit, ActivationNext, PTL DEF Spec

\* The cleanup never stops the activation of a Run that the journal shows
\* running: every path into driver.stop saw the Run stopping or ended, and
\* the journal never takes that back.
THEOREM StopsOnlyEndedRuns == Spec => []NoStopWhileRunning
<1>1. ActivationInv => NoStopWhileRunning
  BY DEF ActivationInv, TasksInformed, Informed, Ended, NoStopWhileRunning, Stops
<1> QED
  BY <1>1, TypeInit, TypeNext, ActivationInvInit, ActivationNext, PTL DEF Spec

=============================================================================
