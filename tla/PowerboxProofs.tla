--------------------------- MODULE PowerboxProofs ---------------------------
(***************************************************************************)
(* Proofs about the Powerbox and the binding broker, for any number of     *)
(* Exposures, Bindings, keys, requests, generations and faults.            *)
(*                                                                         *)
(* The argument: once an object has an intent it is never current again,   *)
(* so a Binding that a barrier has closed and drained stays quiet: no      *)
(* generation of it is minted and none admits an invocation.  Terminal     *)
(* events are written under the mutation lock, for Bindings that passed    *)
(* the barrier, the Bindings of an Exposure before the Exposure.  While    *)
(* the Host boots its one task is alone, and its list of closings holds    *)
(* every closing that is left.                                             *)
(***************************************************************************)
EXTENDS Powerbox, FiniteSetTheorems, TLAPS

-----------------------------------------------------------------------------
(* What a task is.                                                         *)

Closes == {"barrier", "generation", "settle", "commit", "write", "relay"}

Points ==
  {"idle", "sweep", "begin", "relayAll", "apply", "answer", "validate", "reconcile",
   "serve", "attach", "mint", "attached", "confirm", "permit", "admit", "running"} \cup Closes

Ops == {"none", "create", "select", "revoke", "invalidate", "sweep", "attach", "invoke",
        "close", "hydrate"}

Boots == {<<"sweep", "reconcile", "serve">>, <<"reconcile", "serve">>, <<"serve">>}

Plans == {<<>>, <<"relayAll">>, <<"attach">>, <<"mint">>, <<"permit">>, <<"answer">>} \cup Boots

TaskStates ==
  [pc : Points, op : Ops, obj : Objects \cup {None}, key : Keys \cup Exposures \cup {None},
   then : Plans, todo : SUBSET Objects, why : Terminal, cur : Objects \cup {None},
   intent : Intents \cup {None}, affected : SUBSET Bindings, barriered : SUBSET Bindings,
   at : Objects \cup {None}, shut : 0..MaxGenerations, gen : 0..MaxGenerations]

\* What an operation has left to do after the closings it waits for.
Waits(t) ==
  \/ t.op \in {"create", "select", "invalidate", "sweep", "invoke"} /\ t.then = <<>>
  \/ t.op = "select" /\ t.then = <<"relayAll">>
  \/ t.op = "revoke" /\ t.then = <<"answer">>
  \/ t.op = "attach" /\ t.then \in {<<"attach">>, <<"mint">>}
  \/ t.op = "invoke" /\ t.then = <<"permit">>
  \/ t.op = "hydrate" /\ t.then \in Boots

\* Which operation is where, with what left to do.
PlanOK(t) ==
  /\ t.pc = "idle" => t = IdleTask
  /\ t.pc = "begin" => Waits(t)
  /\ t.pc \in {"barrier", "generation", "settle"} => t.cur # None \/ t.op = "close"
  /\ t.pc \in {"commit", "write"} => t.cur # None
  /\ t.pc = "relay" => \/ t.cur # None
                       \/ t.op \in {"create", "select"} /\ t.then = <<>> /\ t.todo = {}
  /\ t.pc = "relayAll" => \/ t.op = "select" /\ t.then = <<>> /\ t.todo = {}
                          \/ t.op = "hydrate" /\ t.then = <<"sweep", "reconcile", "serve">>
  /\ t.pc = "sweep" => \/ t.op = "attach" /\ t.then = <<"mint">>
                       \/ t.op = "hydrate" /\ t.then = <<"reconcile", "serve">>
  /\ t.pc = "reconcile" => t.op = "hydrate" /\ t.then = <<"serve">>
  /\ t.pc = "serve" => t.op = "hydrate" /\ t.then = <<>>
  /\ t.pc = "apply" => t.op \in {"create", "select", "revoke"} /\ t.then = <<>>
  /\ t.pc = "answer" => t.op = "revoke" /\ t.then = <<>>
  /\ t.pc = "validate" => t.op \in {"create", "select"} /\ t.then = <<>>
  /\ t.pc \in {"attach", "mint", "attached", "confirm"} => t.op = "attach" /\ t.then = <<>>
  /\ t.pc \in {"permit", "admit", "running"} => t.op = "invoke" /\ t.then = <<>>
  /\ t.pc \notin Closes \cup {"begin", "relayAll"} => t.todo = {}

\* The closing a task is busy with.
WorkOK(t) ==
  /\ (t.cur = None) = (t.intent = None)
  /\ t.cur # None => t.pc \in Closes /\ Waits(t)
  /\ t.shut # 0 => t.op = "close" \/ t.pc = "settle"
  /\ t.pc \in {"generation", "settle"} => t.at \in t.affected
  /\ t.cur \in Bindings => t.affected = {t.cur}
  /\ t.barriered \subseteq t.affected
  /\ t.cur = None => t.barriered = {}
  /\ t.cur # None /\ t.pc \in {"commit", "write", "relay"} => t.affected = t.barriered

\* The request of an operation.
Asked(t) ==
  /\ t.op = "create" => t.obj \in Exposures /\ t.key = None
  /\ t.op = "select" => t.obj \in Bindings /\ t.key \in Exposures
  /\ t.op = "revoke" => t.obj \in Objects /\ t.key \in Keys
  /\ t.op = "attach" => t.obj \in Bindings
  /\ t.op = "invoke" => t.obj \in Bindings /\ t.gen # 0

\* A revocation closes its object and nothing else.
RevokeOK(t) ==
  t.op = "revoke" => /\ t.pc # "begin"
                     /\ t.pc \in Closes => t.cur = t.obj /\ t.todo \subseteq {t.obj}

Shaped(t) == t \in TaskStates /\ PlanOK(t) /\ WorkOK(t) /\ Asked(t) /\ RevokeOK(t)

-----------------------------------------------------------------------------
(* The inductive invariant.                                                *)

\* The journal's projection.
JournalOK ==
  /\ of \in [Objects -> Exposures \cup {None}]
  /\ closing \in [Objects -> Intents \cup {None}]
  /\ claims \in [Keys -> Objects \cup {None}]
  /\ \A e \in Exposures : of[e] = None
  /\ \A o \in Objects : closing[o] # None => status[o] = "open"
  /\ \A e \in Exposures : closing[e] # None => \A b \in closing[e].affected : of[b] = e
  /\ \A k \in Keys : claims[k] # None =>
       status[claims[k]] \in Terminal \/ closing[claims[k]] # None
  /\ IsFiniteSet({b \in Bindings : status[b] = "open"})

PublicOK == public \in [Objects -> [{"opened", "closed"} -> 0..1]]

\* The barrier has passed for the Binding.
Running(b) == \E w \in Workers : At(w, "running") /\ task[w].obj = b

Silent(b) == generation[b] = 0 /\ ~Running(b)

\* The object has an intent or has ended.
Ending(o) == status[o] \in Terminal \/ closing[o] # None

\* The task appends the terminal events of its closing.
Writing(t) == t.pc = "write" \/ (t.pc = "relay" /\ t.cur # None /\ t.at # t.cur)

WritingOK(t) ==
  Writing(t) => /\ status[t.cur] = "open" /\ closing[t.cur] = t.intent
                /\ t.cur \in Exposures => Selected(t.cur) \subseteq t.affected

ClosingOK(t) ==
  t.cur # None =>
    /\ Ending(t.cur)
    /\ t.cur \in Exposures => \A b \in t.affected : of[b] = t.cur
    /\ \A b \in t.barriered : Silent(b)
    /\ t.pc = "settle" => generation[t.at] = 0
    /\ t.pc = "relay" => t.at \in t.affected \cup {t.cur} /\ status[t.at] \in Terminal

AnswerOK(t) == t.pc = "answer" => status[t.obj] \in Terminal

\* The boot: every closing that is left is on its list, after reconcile_runs every
\* Exposure that is open, and what is not public is the event it appended last.
BootOK(t) ==
  t.op = "hydrate" =>
    /\ phase = "booting"
    /\ \A o \in Objects : closing[o] # None => o \in t.todo
    /\ t.pc = "serve" \/ (t.then = <<"serve">> /\ t.pc # "reconcile") =>
         \A e \in Exposures : status[e] = "open" => e \in t.todo
    /\ t.pc # "relayAll" =>
         \A p \in Unpublished : t.pc = "relay" /\ p = <<t.at, "closed">>

TaskOK(t) == Shaped(t) /\ WritingOK(t) /\ ClosingOK(t) /\ AnswerOK(t) /\ BootOK(t)

TasksOK == task \in [Workers -> TaskStates] /\ \A w \in Workers : TaskOK(task[w])

LocksOK ==
  \A w \in Workers :
    /\ task[w].pc \in {"write", "relay"} => mutation = w
    /\ task[w].pc \in {"generation", "settle"} => closeSerial = w

\* Until the Host serves, only the task that boots it runs.
PhaseOK ==
  \A w \in Workers :
    /\ task[w].op = "hydrate" => \A v \in Workers \ {w} : task[v].pc = "idle"
    /\ phase # "up" /\ task[w].pc # "idle" => task[w].op = "hydrate"

\* An invocation's generation is open, or someone waits for the invocation.
RunningOK ==
  \A w \in Workers : At(w, "running") =>
    \/ generation[task[w].obj] = task[w].gen
    \/ \E v \in Workers : /\ At(v, "settle") /\ task[v].at = task[w].obj
                          /\ task[v].shut = task[w].gen

StatusOK ==
  /\ status \in [Objects -> {"none", "open"} \cup Terminal]
  /\ \A b \in Bindings : (of[b] = None) = (status[b] = "none")

RestOK ==
  /\ phase \in {"down", "booting", "up"}
  /\ {mutation, closeSerial, attachSerial} \subseteq Workers \cup {None}
  /\ attached \cup cleanup \subseteq Bindings
  /\ generation \in [Bindings -> 0..MaxGenerations] /\ minted \in 0..MaxGenerations
  /\ expired \subseteq Objects
  /\ faults \in 0..MaxFaults

Durable == StatusOK /\ JournalOK /\ SelectedIsServed

PowerboxInv ==
  /\ Durable /\ PublicOK /\ RestOK
  /\ TasksOK /\ LocksOK /\ PhaseOK /\ RunningOK
  /\ TerminalIsQuiet

-----------------------------------------------------------------------------
(* The tasks.                                                              *)

\* The plans differ, and each is followed by the next one.
LEMMA PlanFacts ==
  /\ Head(<<"relayAll">>) = "relayAll" /\ Tail(<<"relayAll">>) = <<>>
  /\ Head(<<"attach">>) = "attach" /\ Tail(<<"attach">>) = <<>>
  /\ Head(<<"mint">>) = "mint" /\ Tail(<<"mint">>) = <<>>
  /\ Head(<<"permit">>) = "permit" /\ Tail(<<"permit">>) = <<>>
  /\ Head(<<"answer">>) = "answer" /\ Tail(<<"answer">>) = <<>>
  /\ Head(<<"serve">>) = "serve" /\ Tail(<<"serve">>) = <<>>
  /\ Head(<<"reconcile", "serve">>) = "reconcile" /\ Tail(<<"reconcile", "serve">>) = <<"serve">>
  /\ Head(<<"sweep", "reconcile", "serve">>) = "sweep"
  /\ Tail(<<"sweep", "reconcile", "serve">>) = <<"reconcile", "serve">>
OBVIOUS

LEMMA PlansDiffer ==
  /\ <<"relayAll">> # <<>> /\ <<"attach">> # <<>> /\ <<"mint">> # <<>> /\ <<"permit">> # <<>>
  /\ <<"answer">> # <<>> /\ <<>> \notin Boots /\ <<"serve">> \in Boots
  /\ <<"serve">> # <<>>
  /\ \A p \in {<<>>, <<"relayAll">>, <<"attach">>, <<"mint">>, <<"permit">>, <<"answer">>,
               <<"sweep", "reconcile", "serve">>, <<"reconcile", "serve">>} : p # <<"serve">>
BY DEF Boots

LEMMA IdleFacts ==
  /\ IdleTask \in TaskStates /\ Shaped(IdleTask)
  /\ IdleTask.pc = "idle" /\ IdleTask.op = "none" /\ IdleTask.cur = None /\ IdleTask.todo = {}
  /\ IdleTask.then = <<>> /\ IdleTask.barriered = {} /\ IdleTask.intent = None /\ IdleTask.shut = 0
  /\ IdleTask.affected = {} /\ IdleTask.gen = 0 /\ IdleTask.key = None
<1>1. IdleTask \in TaskStates
  BY PowerboxAssumption DEF IdleTask, TaskStates, Points, Ops, Plans, Terminal
<1>2. None \notin Bindings
  BY PowerboxAssumption
<1> QED
  BY <1>1, <1>2 DEF Shaped, PlanOK, WorkOK, Asked, RevokeOK, IdleTask, Closes

LEMMA BarrierOnlyFacts ==
  ASSUME NEW b \in Bindings, NEW g \in 0..MaxGenerations, NEW u, u = BarrierOnly(b, g)
  PROVE  Shaped(u) /\ u.pc = "barrier" /\ u.op = "close" /\ u.cur = None
<1>1. u \in TaskStates
  <2>1. "barrier" \in Points /\ "close" \in Ops /\ {b} \in SUBSET Bindings /\ IdleTask \in TaskStates
    BY IdleFacts DEF Points, Closes, Ops
  <2> QED
    BY <2>1, ZenonT(60) DEF BarrierOnly, TaskStates
<1>2. /\ u.pc = "barrier" /\ u.op = "close" /\ u.cur = None /\ u.intent = None
      /\ u.barriered = {}
  BY IdleFacts DEF BarrierOnly, TaskStates
<1>3. None \notin Bindings
  BY PowerboxAssumption
<1> QED
  BY <1>1, <1>2, <1>3 DEF Shaped, PlanOK, WorkOK, Asked, RevokeOK, Closes

-----------------------------------------------------------------------------
(* What a step of one task may do to the rest.                             *)

\* The journal only grows: what has ended stays so, an intent stays until its
\* object ends, and a Binding keeps its Exposure.
Grows ==
  \A o \in Objects :
    /\ status[o] \in Terminal => status'[o] = status[o]
    /\ status[o] = "open" => status'[o] \in {"open"} \cup Terminal
    /\ closing[o] # None => closing'[o] = closing[o] \/ status'[o] \in Terminal
    /\ of[o] # None => of'[o] = of[o]

JournalStep(w) == Grows /\ Durable' /\ (mutation \notin {None, w} => UNCHANGED journal)

LockStep(w, u) ==
  /\ \A v \in Workers \ {w} : /\ mutation = v => mutation' = v
                              /\ closeSerial = v => closeSerial' = v
  /\ u.pc \in {"write", "relay"} => mutation' = w
  /\ u.pc \in {"generation", "settle"} => closeSerial' = w

\* A task goes on, a request starts, the boot fails, starts or ends.
PhaseStep(w, u) ==
  \/ /\ phase' = phase /\ (task[w].pc # "idle" \/ phase = "up")
     /\ (u.op = "hydrate") = (task[w].op = "hydrate")
  \/ task[w].op = "hydrate" /\ u = IdleTask
  \/ phase = "down" /\ u.op = "hydrate"

\* A generation is closed by the task that then waits for its invocations, and
\* minted only of a current Binding; only an open one admits an invocation.
GenerationStep(w, u) ==
  /\ \A b \in Bindings : generation'[b] \notin {generation[b], 0} =>
       Current(b) /\ generation[b] = 0 /\ UNCHANGED journal
  /\ \A b \in Bindings : generation[b] # 0 /\ generation'[b] # generation[b] =>
       u.pc = "settle" /\ u.at = b /\ u.shut = generation[b]
  /\ u.pc = "running" => generation[u.obj] = u.gen /\ UNCHANGED generation
  /\ task[w].pc = "settle" => ~InFlight(task[w].at, task[w].shut)

Steps(w, u) ==
  /\ SetTask(w, u) /\ Shaped(u)
  /\ JournalStep(w) /\ LockStep(w, u) /\ PhaseStep(w, u) /\ GenerationStep(w, u)

LEMMA TaskMoves ==
  ASSUME TasksOK, NEW w \in Workers, NEW u, SetTask(w, u), Shaped(u)
  PROVE  /\ task'[w] = u /\ \A v \in Workers \ {w} : task'[v] = task[v]
         /\ task' \in [Workers -> TaskStates]
BY DEF TasksOK, SetTask, Shaped

LEMMA SilentKept ==
  ASSUME TasksOK, NEW w \in Workers, NEW u, SetTask(w, u), Shaped(u), GenerationStep(w, u),
         NEW b \in Bindings, Silent(b), ~Current(b)
  PROVE  Silent(b)'
<1>1. task'[w] = u /\ \A v \in Workers \ {w} : task'[v] = task[v]
  BY TaskMoves
<1>2. generation'[b] = 0
  BY DEF GenerationStep, Silent
<1>3. ~(u.pc = "running" /\ u.obj = b)
  BY DEF Shaped, PlanOK, Asked, GenerationStep, Silent
<1> QED
  BY <1>1, <1>2, <1>3 DEF Silent, Running, At

\* A Binding that a task is closing is not current.
LEMMA AffectedEnds ==
  ASSUME Durable, NEW t, Shaped(t), ClosingOK(t), t.cur # None, NEW b \in t.affected
  PROVE  b \in Bindings /\ ~Current(b) /\ status[b] # "none"
<1>1. b \in Bindings /\ t.cur \in Objects
  BY DEF Shaped, TaskStates
<1>2. CASE t.cur \in Bindings
  BY <1>1, <1>2 DEF Shaped, WorkOK, ClosingOK, Ending, Current, Terminal, Durable, JournalOK
<1>3. CASE t.cur \in Exposures
  <2>1. of[b] = t.cur /\ t.cur # None
    BY <1>3 DEF ClosingOK
  <2>2. status[b] # "none"
    BY <1>1, <2>1 DEF Durable, StatusOK
  <2> QED
    BY <1>1, <2>1, <2>2 DEF ClosingOK, Ending, Current, Terminal
<1> QED
  BY <1>1, <1>2, <1>3 DEF Objects

LEMMA EndingKept ==
  ASSUME Grows, NEW o \in Objects, Ending(o)
  PROVE  Ending(o)'
BY DEF Grows, Ending, Terminal

\* A task that does not move keeps its invariant.
LEMMA OtherKept ==
  ASSUME PowerboxInv, NEW w \in Workers, NEW u, Steps(w, u), NEW v \in Workers \ {w}
  PROVE  TaskOK(task[v])'
<1>1. PICK x : x = task[v]
  OBVIOUS
<1>2. TasksOK /\ Durable /\ TaskOK(x) /\ Shaped(x) /\ x \in TaskStates
  BY <1>1 DEF PowerboxInv, TasksOK, TaskOK, Shaped
<1>3. task'[v] = x /\ Grows
  BY <1>1, <1>2, TaskMoves DEF Steps, JournalStep
<1>4. x.op # "hydrate"
  <2>1. x.op = "hydrate" => task[w].pc = "idle" /\ phase = "booting"
    BY <1>1, <1>2 DEF PowerboxInv, PhaseOK, TaskOK, BootOK
  <2>2. task[w].pc = "idle" => task[w].op # "hydrate"
    BY IdleFacts DEF PowerboxInv, TasksOK, TaskOK, Shaped, PlanOK
  <2> QED
    BY <2>1, <2>2 DEF Steps, PhaseStep
<1>5. BootOK(x)'
  BY <1>4 DEF BootOK
<1>6. AnswerOK(x)'
  <2>1. x.pc = "answer" => x.obj \in Objects
    BY <1>2 DEF Shaped, PlanOK, Asked
  <2> QED
    BY <1>2, <1>3, <2>1 DEF TaskOK, AnswerOK, Grows
<1>7. x.pc \in {"write", "relay"} => UNCHANGED journal
  <2>1. x.pc \in {"write", "relay"} => mutation = v
    BY <1>1 DEF PowerboxInv, LocksOK
  <2> QED
    BY <2>1, PowerboxAssumption DEF Steps, JournalStep
<1>8. WritingOK(x)'
  BY <1>2, <1>7 DEF TaskOK, WritingOK, Writing, Selected, journal
<1>9. ClosingOK(x)'
  <2> SUFFICES ASSUME x.cur # None PROVE ClosingOK(x)'
    BY DEF ClosingOK
  <2>1. x.cur \in Objects /\ x.affected \subseteq Bindings /\ x.barriered \subseteq x.affected
    BY <1>2 DEF TaskStates, Shaped, WorkOK
  <2>2. ClosingOK(x)
    BY <1>2 DEF TaskOK
  <2>3. Ending(x.cur)'
    BY <1>3, <2>1, <2>2, EndingKept DEF ClosingOK
  <2>4. x.cur \in Exposures => \A b \in x.affected : of'[b] = x.cur
    BY <1>3, <2>1, <2>2, PowerboxAssumption DEF ClosingOK, Grows, Objects
  <2>5. \A b \in x.affected : ~Current(b) /\ b \in Bindings
    BY <1>2, <2>2, AffectedEnds
  <2>6. \A b \in x.barriered : Silent(b)'
    BY <1>2, <2>1, <2>2, <2>5, SilentKept DEF ClosingOK, Steps
  <2>7. x.pc = "settle" => generation'[x.at] = 0
    <3>1. x.pc = "settle" => x.at \in x.affected
      BY <1>2 DEF Shaped, WorkOK
    <3> QED
      BY <2>2, <2>5, <3>1 DEF ClosingOK, Steps, GenerationStep
  <2>8. x.pc = "relay" => x.at \in x.affected \cup {x.cur} /\ status'[x.at] \in Terminal
    BY <1>7, <2>2 DEF ClosingOK, journal
  <2> QED
    BY <2>3, <2>4, <2>6, <2>7, <2>8 DEF ClosingOK
<1>10. TaskOK(x)'
  BY <1>2, <1>5, <1>6, <1>8, <1>9 DEF TaskOK, Shaped, PlanOK, WorkOK, Asked, RevokeOK, Waits
<1> QED
  BY <1>3, <1>10

\* A step of one task keeps the invariant when the task it leaves is in order.
LEMMA GeneralStep ==
  ASSUME PowerboxInv, NEW w \in Workers, NEW u, Steps(w, u), TaskOK(u)', PublicOK', RestOK',
         \A b \in Bindings : status'[b] \in Terminal => Silent(b) /\ ~Current(b)
  PROVE  PowerboxInv'
<1>1. TasksOK /\ SetTask(w, u) /\ Shaped(u)
  BY DEF PowerboxInv, Steps
<1>2. /\ task'[w] = u /\ \A v \in Workers \ {w} : task'[v] = task[v]
      /\ task' \in [Workers -> TaskStates]
  BY <1>1, TaskMoves
<1>3. TasksOK'
  <2>1. \A v \in Workers : TaskOK(task[v])'
    <3> SUFFICES ASSUME NEW v \in Workers PROVE TaskOK(task[v])'
      OBVIOUS
    <3>1. CASE v = w
      BY <1>2, <3>1
    <3>2. CASE v # w
      BY <3>2, OtherKept
    <3> QED
      BY <3>1, <3>2
  <2> QED
    BY <1>2, <2>1 DEF TasksOK
<1>4. LocksOK'
  BY <1>2 DEF PowerboxInv, LocksOK, Steps, LockStep
<1>5. PhaseOK'
  <2>1. PhaseOK /\ PhaseStep(w, u)
    BY DEF PowerboxInv, Steps
  <2>2. \A v \in Workers : task[v].pc = "idle" => task[v] = IdleTask
    BY <1>1 DEF TasksOK, TaskOK, Shaped, PlanOK
  <2>3. \A v \in Workers : task[v].op = "hydrate" => phase = "booting"
    BY <1>1 DEF TasksOK, TaskOK, BootOK
  <2>4. u.op = "hydrate" => phase' = "booting"
    BY DEF TaskOK, BootOK
  <2>5. IdleTask.pc = "idle" /\ IdleTask.op = "none"
    BY IdleFacts
  <2> QED
    BY <1>2, <2>1, <2>2, <2>3, <2>4, <2>5 DEF PhaseOK, PhaseStep
<1>6. RunningOK'
  <2> SUFFICES ASSUME NEW v \in Workers, At(v, "running")'
               PROVE  \/ generation'[task'[v].obj] = task'[v].gen
                      \/ \E x \in Workers : /\ At(x, "settle")' /\ task'[x].at = task'[v].obj
                                            /\ task'[x].shut = task'[v].gen
    BY DEF RunningOK, At
  <2>1. CASE v = w
    BY <1>2, <2>1 DEF Steps, GenerationStep, At
  <2>2. CASE v # w
    <3> DEFINE b == task[v].obj
               g == task[v].gen
    <3>1. task'[v] = task[v] /\ At(v, "running") /\ b \in Bindings /\ g # 0
      BY <1>1, <1>2, <2>2 DEF At, TasksOK, TaskOK, Shaped, PlanOK, Asked
    <3>2. CASE generation[b] = g
      BY <1>2, <3>1, <3>2 DEF Steps, GenerationStep, At
    <3>3. CASE generation[b] # g
      <4>1. PICK x \in Workers : At(x, "settle") /\ task[x].at = b /\ task[x].shut = g
        BY <3>1, <3>3 DEF PowerboxInv, RunningOK
      <4>2. x # w
        BY <3>1, <4>1 DEF Steps, GenerationStep, InFlight, At
      <4> QED
        BY <1>2, <3>1, <4>1, <4>2 DEF At
    <3> QED
      BY <3>2, <3>3
  <2> QED
    BY <2>1, <2>2
<1>7. TerminalIsQuiet'
  <2>1. \A b \in Bindings : status'[b] \in Terminal => Silent(b)'
    BY <1>1, SilentKept DEF Steps
  <2> QED
    BY <2>1 DEF TerminalIsQuiet, Silent, Running, At
<1> QED
  BY <1>3, <1>4, <1>5, <1>6, <1>7 DEF PowerboxInv, Steps, JournalStep

\* What a task may become without a change of the journal.
Becomes(u) == Shaped(u) /\ WritingOK(u) /\ ClosingOK(u) /\ AnswerOK(u)

Kept(w, u) ==
  /\ SetTask(w, u) /\ LockStep(w, u) /\ PhaseStep(w, u)
  /\ task[w].pc = "settle" => ~InFlight(task[w].at, task[w].shut)
  /\ u.pc = "running" => generation[u.obj] = u.gen
  /\ UNCHANGED <<journal, generation>>

LEMMA DurableSame ==
  ASSUME Durable, UNCHANGED journal
  PROVE  Durable' /\ Grows
BY DEF Durable, StatusOK, JournalOK, SelectedIsServed, Grows, journal, Terminal

LEMMA KeptStep ==
  ASSUME PowerboxInv, NEW w \in Workers, NEW u, Kept(w, u), Becomes(u), BootOK(u)',
         PublicOK', RestOK'
  PROVE  PowerboxInv'
<1>1. TasksOK /\ Durable /\ TerminalIsQuiet /\ Shaped(u) /\ SetTask(w, u)
  BY DEF PowerboxInv, Becomes, Kept
<1>2. GenerationStep(w, u)
  BY DEF Kept, GenerationStep
<1>3. Steps(w, u)
  BY <1>1, <1>2, DurableSame DEF Steps, Kept, JournalStep
<1>4. ClosingOK(u)'
  <2> SUFFICES ASSUME u.cur # None PROVE ClosingOK(u)'
    BY DEF ClosingOK
  <2>1. ClosingOK(u) /\ u.barriered \subseteq u.affected
    BY <1>1 DEF Becomes, Shaped, WorkOK
  <2>2. \A b \in u.barriered : Silent(b)'
    BY <1>1, <1>2, <2>1, AffectedEnds, SilentKept DEF ClosingOK
  <2> QED
    BY <2>1, <2>2 DEF Kept, journal, ClosingOK, Ending
<1>5. WritingOK(u)' /\ AnswerOK(u)'
  BY DEF Becomes, Kept, journal, WritingOK, AnswerOK, Selected
<1>6. TaskOK(u)'
  BY <1>1, <1>4, <1>5 DEF TaskOK, Shaped, PlanOK, WorkOK, Asked, RevokeOK, Waits
<1>7. \A b \in Bindings : status'[b] \in Terminal => Silent(b) /\ ~Current(b)
  BY <1>1 DEF Kept, journal, TerminalIsQuiet, Silent, Running, Current, Terminal
<1> QED
  BY <1>3, <1>6, <1>7, GeneralStep

\* ... and without a change of what is public.
LEMMA QuietStep ==
  ASSUME PowerboxInv, NEW w \in Workers, NEW u, Kept(w, u), Becomes(u), BootOK(u),
         UNCHANGED public, phase' = phase \/ u.op # "hydrate", RestOK'
  PROVE  PowerboxInv'
<1>1. PublicOK'
  BY DEF PowerboxInv, PublicOK
<1>2. BootOK(u)'
  BY DEF BootOK, Kept, journal, Unpublished
<1> QED
  BY <1>1, <1>2, KeptStep

LEMMA FaultType ==
  ASSUME RestOK, NoFault \/ Fault
  PROVE  faults' \in 0..MaxFaults
BY PowerboxAssumption DEF RestOK, NoFault, Fault

-----------------------------------------------------------------------------
(* Errors.                                                                 *)

LEMMA FailTaskFacts ==
  ASSUME NEW t, Shaped(t), NEW u, u = FailTask(t)
  PROVE  /\ Shaped(u) /\ u.cur = None /\ u.pc \in {"idle", "barrier"} /\ u.op \in {"none", "close"}
         /\ t.op = "hydrate" => u = IdleTask
<1>1. CASE t.op = "invoke"
  <2>1. t.obj \in Bindings /\ 0 \in 0..MaxGenerations /\ u = BarrierOnly(t.obj, 0)
    BY <1>1, PowerboxAssumption DEF Shaped, Asked, FailTask
  <2> QED
    BY <1>1, <2>1, BarrierOnlyFacts
<1>2. CASE t.op # "invoke"
  BY <1>2, IdleFacts DEF FailTask
<1> QED
  BY <1>1, <1>2

LEMMA FailFrame ==
  ASSUME PowerboxInv, NEW w \in Workers, Fails(w), task[w].pc # "idle" \/ phase = "up",
         NEW u, u = FailTask(task[w])
  PROVE  /\ SetTask(w, u) /\ Becomes(u) /\ BootOK(u)' /\ TaskOK(u)'
         /\ LockStep(w, u) /\ PhaseStep(w, u) /\ u.pc # "running"
<1>1. Shaped(task[w])
  BY DEF PowerboxInv, TasksOK, TaskOK
<1>2. /\ Shaped(u) /\ u.cur = None /\ u.pc \in {"idle", "barrier"} /\ u.op \in {"none", "close"}
      /\ task[w].op = "hydrate" => u = IdleTask
  BY <1>1, FailTaskFacts
<1>3. SetTask(w, u)
  BY DEF Fails
<1>4. Becomes(u) /\ BootOK(u)'
  BY <1>2 DEF Becomes, WritingOK, Writing, ClosingOK, AnswerOK, BootOK
<1>5. LockStep(w, u)
  BY <1>2 DEF LockStep, Fails, Release
<1>6. PhaseStep(w, u)
  BY <1>2 DEF PhaseStep, Fails
<1>7. Shaped(u)'
  BY <1>2 DEF Shaped, PlanOK, WorkOK, Asked, RevokeOK, Waits
<1>8. WritingOK(u)' /\ ClosingOK(u)' /\ AnswerOK(u)'
  BY <1>2 DEF WritingOK, Writing, ClosingOK, AnswerOK
<1> QED
  BY <1>2, <1>3, <1>4, <1>5, <1>6, <1>7, <1>8 DEF TaskOK

LEMMA FailRest ==
  ASSUME RestOK, NEW w \in Workers, Fails(w), NoFault \/ Fault,
         UNCHANGED <<generation, minted, expired>>, attached' \cup cleanup' \subseteq Bindings
  PROVE  RestOK'
<1>1. faults' \in 0..MaxFaults
  BY FaultType
<1>2. phase' \in {"down", "booting", "up"}
  BY DEF RestOK, Fails
<1>3. {mutation', closeSerial', attachSerial'} \subseteq Workers \cup {None}
  BY DEF RestOK, Fails, Release
<1> QED
  BY <1>1, <1>2, <1>3 DEF RestOK

\* An error that leaves the journal as it was.
LEMMA FailKeeps ==
  ASSUME PowerboxInv, NEW w \in Workers, Fails(w), NoFault \/ Fault,
         task[w].pc # "idle" \/ phase = "up",
         task[w].pc = "settle" => ~InFlight(task[w].at, task[w].shut),
         UNCHANGED <<journal, generation, minted, expired>>, PublicOK',
         attached' \cup cleanup' \subseteq Bindings
  PROVE  PowerboxInv'
<1>1. PICK u : u = FailTask(task[w])
  OBVIOUS
<1>2. RestOK'
  BY FailRest DEF PowerboxInv
<1>3. /\ SetTask(w, u) /\ Becomes(u) /\ BootOK(u)' /\ LockStep(w, u) /\ PhaseStep(w, u)
      /\ u.pc # "running"
  BY <1>1, FailFrame
<1>4. Kept(w, u)
  BY <1>3 DEF Kept
<1> QED
  BY <1>2, <1>3, <1>4, KeptStep

\* An error after an append that landed.
LEMMA FailAppends ==
  ASSUME PowerboxInv, NEW w \in Workers, Fails(w), NoFault \/ Fault, JournalStep(w),
         task[w].pc \notin {"idle", "settle"}, UNCHANGED <<public, broker, expired>>,
         \A b \in Bindings : status'[b] \in Terminal => Silent(b) /\ ~Current(b)
  PROVE  PowerboxInv'
<1>1. PICK u : u = FailTask(task[w])
  OBVIOUS
<1>2. RestOK' /\ PublicOK'
  BY FailRest DEF PowerboxInv, RestOK, broker, PublicOK
<1>3. /\ SetTask(w, u) /\ Becomes(u) /\ TaskOK(u)' /\ LockStep(w, u) /\ PhaseStep(w, u)
      /\ u.pc # "running"
  BY <1>1, FailFrame
<1>4. Steps(w, u)
  BY <1>3 DEF Steps, GenerationStep, broker, Becomes
<1> QED
  BY <1>2, <1>3, <1>4, GeneralStep

-----------------------------------------------------------------------------
(* The next step of a task.                                                *)

\* What the boot still has to close, between two of its steps.
BootLeft(t) ==
  t.op = "hydrate" =>
    /\ phase = "booting" /\ Unpublished = {}
    /\ \A o \in Objects : closing[o] # None => o \in t.todo
    /\ t.then = <<"serve">> => \A e \in Exposures : status[e] = "open" => e \in t.todo

LEMMA PopFacts ==
  ASSUME NEW t \in TaskStates, Waits(t), t.then # <<>>
  PROVE  /\ Head(t.then) \in Points \ (Closes \cup {"idle", "begin", "running"})
         /\ Tail(t.then) \in Plans
         /\ Head(t.then) = "relayAll" => t.op = "select" /\ Tail(t.then) = <<>>
         /\ Head(t.then) = "sweep" => t.op = "hydrate" /\ Tail(t.then) = <<"reconcile", "serve">>
         /\ Head(t.then) = "reconcile" => t.op = "hydrate" /\ Tail(t.then) = <<"serve">>
         /\ Head(t.then) = "serve" => t.op = "hydrate" /\ t.then = <<"serve">> /\ Tail(t.then) = <<>>
         /\ Head(t.then) \in {"attach", "mint"} => t.op = "attach" /\ Tail(t.then) = <<>>
         /\ Head(t.then) = "permit" => t.op = "invoke" /\ Tail(t.then) = <<>>
         /\ Head(t.then) = "answer" => t.op = "revoke" /\ Tail(t.then) = <<>>
         /\ Head(t.then) \in {"relayAll", "sweep", "reconcile", "serve", "attach", "mint", "permit",
                              "answer"}
BY PlanFacts DEF Waits, Boots, Plans, Points, Closes

LEMMA ProceedOK ==
  ASSUME NEW t \in TaskStates, Waits(t), Asked(t), t.cur = None, t.intent = None,
         t.barriered = {}, t.shut = 0,
         t.op = "revoke" => t.todo = {} /\ status[t.obj] \in Terminal,
         NEW u, u = Proceed(t)
  PROVE  /\ Becomes(u) /\ u.pc \notin Closes \cup {"running"} /\ u.cur = None
         /\ (u.op = "hydrate") = (t.op = "hydrate")
<1>n. None \notin Bindings
  BY PowerboxAssumption
<1>1. CASE t.todo # {} /\ u = [t EXCEPT !.pc = "begin"]
  <2>1. u \in TaskStates
    BY <1>1 DEF TaskStates, Points
  <2>2. /\ u.pc = "begin" /\ u.op = t.op /\ u.obj = t.obj /\ u.key = t.key /\ u.then = t.then
        /\ u.todo = t.todo /\ u.cur = None /\ u.intent = None /\ u.barriered = {} /\ u.shut = 0
        /\ u.gen = t.gen
    BY <1>1 DEF TaskStates
  <2>3. Waits(u) /\ Asked(u)
    BY <2>2 DEF Waits, Asked
  <2>4. PlanOK(u) /\ WorkOK(u) /\ RevokeOK(u)
    BY <1>1, <1>n, <2>2, <2>3 DEF PlanOK, WorkOK, RevokeOK, Closes
  <2> QED
    BY <2>1, <2>2, <2>3, <2>4
       DEF Becomes, Shaped, WritingOK, Writing, ClosingOK, AnswerOK, Closes
<1>2. CASE t.todo = {} /\ t.then = <<>> /\ u = IdleTask
  <2>1. t.op # "hydrate"
    BY <1>2, PlansDiffer DEF Waits
  <2> QED
    BY <1>2, <2>1, IdleFacts DEF Becomes, WritingOK, Writing, ClosingOK, AnswerOK, Closes
<1>3. CASE /\ t.todo = {} /\ t.then # <<>>
           /\ u = [t EXCEPT !.pc = Head(t.then), !.then = Tail(t.then), !.why = "revoked"]
  <2> DEFINE p == Head(t.then)
             q == Tail(t.then)
  <2>1. /\ p \in Points \ (Closes \cup {"idle", "begin", "running"}) /\ q \in Plans
        /\ p = "relayAll" => t.op = "select" /\ q = <<>>
        /\ p = "sweep" => t.op = "hydrate" /\ q = <<"reconcile", "serve">>
        /\ p = "reconcile" => t.op = "hydrate" /\ q = <<"serve">>
        /\ p = "serve" => t.op = "hydrate" /\ q = <<>>
        /\ p \in {"attach", "mint"} => t.op = "attach" /\ q = <<>>
        /\ p = "permit" => t.op = "invoke" /\ q = <<>>
        /\ p = "answer" => t.op = "revoke" /\ q = <<>>
        /\ p \in {"relayAll", "sweep", "reconcile", "serve", "attach", "mint", "permit", "answer"}
    BY <1>3, PopFacts
  <2>2. u = [t EXCEPT !.pc = p, !.then = q, !.why = "revoked"]
    BY <1>3
  <2> HIDE DEF p, q
  <2>3. u \in TaskStates
    BY <2>1, <2>2 DEF TaskStates, Terminal
  <2>4. /\ u.pc = p /\ u.op = t.op /\ u.obj = t.obj /\ u.key = t.key /\ u.then = q
        /\ u.todo = {} /\ u.cur = None /\ u.intent = None /\ u.barriered = {} /\ u.shut = 0
        /\ u.gen = t.gen
    BY <1>3, <2>2 DEF TaskStates
  <2>5. Asked(u)
    BY <2>4 DEF Asked
  <2>6. PlanOK(u)
    BY <2>1, <2>4 DEF PlanOK, Closes
  <2>7. WorkOK(u) /\ RevokeOK(u)
    BY <1>n, <2>1, <2>4 DEF WorkOK, RevokeOK, Closes
  <2>8. AnswerOK(u)
    BY <2>1, <2>4 DEF AnswerOK
  <2>9. WritingOK(u) /\ ClosingOK(u)
    BY <2>1, <2>4 DEF WritingOK, Writing, ClosingOK, Closes
  <2> QED
    BY <2>1, <2>3, <2>4, <2>5, <2>6, <2>7, <2>8, <2>9 DEF Becomes, Shaped
<1>4. \/ t.todo # {} /\ u = [t EXCEPT !.pc = "begin"]
      \/ t.todo = {} /\ t.then = <<>> /\ u = IdleTask
      \/ /\ t.todo = {} /\ t.then # <<>>
         /\ u = [t EXCEPT !.pc = Head(t.then), !.then = Tail(t.then), !.why = "revoked"]
  BY DEF Proceed
<1> QED
  BY <1>1, <1>2, <1>3, <1>4

LEMMA ProceedBoot ==
  ASSUME NEW t \in TaskStates, Waits(t), BootLeft(t)', NEW u, u = Proceed(t)
  PROVE  BootOK(u)'
<1>1. CASE t.todo # {} /\ u = [t EXCEPT !.pc = "begin"]
  <2>1. u.pc = "begin" /\ u.op = t.op /\ u.then = t.then /\ u.todo = t.todo
    BY <1>1 DEF TaskStates
  <2> QED
    BY <2>1 DEF BootLeft, BootOK
<1>2. CASE t.todo = {} /\ t.then = <<>> /\ u = IdleTask
  BY <1>2, IdleFacts DEF BootOK
<1>3. CASE /\ t.todo = {} /\ t.then # <<>>
           /\ u = [t EXCEPT !.pc = Head(t.then), !.then = Tail(t.then), !.why = "revoked"]
  <2>1. /\ u.pc = Head(t.then) /\ u.op = t.op /\ u.then = Tail(t.then) /\ u.todo = t.todo
    BY <1>3 DEF TaskStates
  <2>2. u.op = "hydrate" =>
          /\ u.pc = "serve" => t.then = <<"serve">>
          /\ u.then = <<"serve">> => u.pc = "reconcile"
          /\ u.pc # "relay"
    <3> SUFFICES ASSUME t.op = "hydrate"
                 PROVE  /\ u.pc = "serve" => t.then = <<"serve">>
                        /\ u.then = <<"serve">> => u.pc = "reconcile"
                        /\ u.pc # "relay"
      BY <2>1
    <3>1. t.then \in Boots
      BY DEF Waits
    <3>2. CASE t.then = <<"sweep", "reconcile", "serve">>
      BY <2>1, <3>2, PlanFacts, <<"reconcile", "serve">> # <<"serve">>
    <3>3. CASE t.then = <<"reconcile", "serve">>
      BY <2>1, <3>3, PlanFacts
    <3>4. CASE t.then = <<"serve">>
      BY <2>1, <3>4, PlanFacts, PlansDiffer
    <3> QED
      BY <3>1, <3>2, <3>3, <3>4 DEF Boots
  <2> QED
    BY <2>1, <2>2 DEF BootLeft, BootOK
<1>4. \/ t.todo # {} /\ u = [t EXCEPT !.pc = "begin"]
      \/ t.todo = {} /\ t.then = <<>> /\ u = IdleTask
      \/ /\ t.todo = {} /\ t.then # <<>>
         /\ u = [t EXCEPT !.pc = Head(t.then), !.then = Tail(t.then), !.why = "revoked"]
  BY DEF Proceed
<1> QED
  BY <1>1, <1>2, <1>3, <1>4

\* What is left once the closing of t.cur is over.
Rest(t) == [t EXCEPT !.todo = @ \ {t.cur}, !.cur = None, !.intent = None,
                     !.affected = {}, !.barriered = {}, !.at = None]

LEMMA JobDoneRest ==
  ASSUME NEW t \in TaskStates, NEW r, r = Rest(t)
  PROVE  /\ r \in TaskStates /\ JobDone(t) = Proceed(r)
         /\ r.op = t.op /\ r.then = t.then /\ r.todo = t.todo \ {t.cur} /\ r.obj = t.obj
         /\ r.key = t.key /\ r.gen = t.gen /\ r.shut = t.shut /\ r.cur = None /\ r.intent = None
         /\ r.barriered = {}
BY DEF Rest, JobDone, TaskStates

LEMMA JobDoneOK ==
  ASSUME NEW t \in TaskStates, Waits(t), Asked(t), t.shut = 0,
         t.op = "revoke" => t.todo \subseteq {t.cur} /\ status[t.obj] \in Terminal,
         NEW u, u = JobDone(t)
  PROVE  /\ Becomes(u) /\ u.pc \notin Closes \cup {"running"} /\ u.cur = None
         /\ (u.op = "hydrate") = (t.op = "hydrate")
<1>1. PICK r : r = Rest(t)
  OBVIOUS
<1>2. /\ r \in TaskStates /\ u = Proceed(r)
      /\ r.op = t.op /\ r.then = t.then /\ r.todo = t.todo \ {t.cur} /\ r.obj = t.obj
      /\ r.key = t.key /\ r.gen = t.gen /\ r.shut = t.shut /\ r.cur = None /\ r.intent = None
      /\ r.barriered = {}
  BY <1>1, JobDoneRest
<1>3. Waits(r) /\ Asked(r)
  BY <1>2 DEF Waits, Asked
<1> QED
  BY <1>2, <1>3, ProceedOK

LEMMA JobDoneBoot ==
  ASSUME NEW t \in TaskStates, Waits(t), t.op = "hydrate" => phase' = "booting" /\ Unpublished' = {},
         t.op = "hydrate" => \A o \in Objects : closing'[o] # None => o \in t.todo \ {t.cur},
         t.op = "hydrate" /\ t.then = <<"serve">> =>
           \A e \in Exposures : status'[e] = "open" => e \in t.todo \ {t.cur},
         NEW u, u = JobDone(t)
  PROVE  BootOK(u)'
<1>1. PICK r : r = Rest(t)
  OBVIOUS
<1>2. /\ r \in TaskStates /\ u = Proceed(r)
      /\ r.op = t.op /\ r.then = t.then /\ r.todo = t.todo \ {t.cur}
  BY <1>1, JobDoneRest
<1>3. Waits(r) /\ BootLeft(r)'
  BY <1>2 DEF Waits, BootLeft
<1> QED
  BY <1>2, <1>3, ProceedBoot

LEMMA RestSame ==
  ASSUME RestOK, NoFault \/ Fault, UNCHANGED <<phase, broker, expired>>,
         {mutation', closeSerial', attachSerial'} \subseteq Workers \cup {None}
  PROVE  RestOK'
<1>1. faults' \in 0..MaxFaults
  BY FaultType
<1> QED
  BY <1>1 DEF RestOK, broker

\* A task that goes on with the locks as they are.
LEMMA QuietMove ==
  ASSUME PowerboxInv, NEW w \in Workers, NEW u, Continues(w, u), NoFault \/ Fault,
         UNCHANGED <<journal, public, locks, broker, expired>>,
         Becomes(u), BootOK(u), u.pc \notin {"running", "write", "relay", "generation", "settle"},
         task[w].pc # "settle", task[w].pc # "idle" \/ phase = "up",
         (u.op = "hydrate") = (task[w].op = "hydrate")
  PROVE  PowerboxInv'
<1>1. UNCHANGED <<phase, mutation, closeSerial, attachSerial, generation>> /\ SetTask(w, u)
  BY DEF Continues, locks, broker
<1>2. RestOK'
  <2>1. {mutation', closeSerial', attachSerial'} \subseteq Workers \cup {None}
    BY <1>1 DEF PowerboxInv, RestOK
  <2> QED
    BY <1>1, <2>1, RestSame DEF PowerboxInv
<1>3. Kept(w, u)
  BY <1>1 DEF Kept, LockStep, PhaseStep
<1> QED
  BY <1>1, <1>2, <1>3, QuietStep

LEMMA SweepKeeps ==
  ASSUME PowerboxInv, NEW w \in Workers, NEW t \in TaskStates, SweepExpired(w, t),
         Waits(t), Asked(t), t.cur = None, t.intent = None, t.barriered = {}, t.shut = 0,
         t.op # "revoke", task[w].pc # "settle", task[w].pc # "idle" \/ phase = "up",
         (t.op = "hydrate") = (task[w].op = "hydrate"),
         t.op = "hydrate" => /\ phase = "booting" /\ Unpublished = {} /\ t.then # <<"serve">>
                             /\ \A o \in Objects : closing[o] = None
  PROVE  PowerboxInv'
<1>1. CASE Fails(w) /\ (NoFault \/ Fault)
  <2>1. UNCHANGED <<journal, generation, minted, expired>> /\ PublicOK'
        /\ attached' \cup cleanup' \subseteq Bindings
    BY DEF SweepExpired, PowerboxInv, PublicOK, RestOK, broker
  <2> QED
    BY <1>1, <2>1, FailKeeps
<1>2. CASE /\ NoFault /\ UNCHANGED locks
           /\ Continues(w, Proceed([t EXCEPT !.why = "expired", !.todo = expired \cap Opened]))
  <2>1. PICK s : s = [t EXCEPT !.why = "expired", !.todo = expired \cap Opened]
    OBVIOUS
  <2>2. PICK u : u = Proceed(s)
    OBVIOUS
  <2>3. expired \cap Opened \subseteq Objects
    BY DEF Opened
  <2>4. /\ s \in TaskStates /\ s.op = t.op /\ s.then = t.then /\ s.cur = None /\ s.intent = None
        /\ s.barriered = {} /\ s.shut = 0 /\ s.obj = t.obj /\ s.key = t.key /\ s.gen = t.gen
    BY <2>1, <2>3 DEF TaskStates, Terminal
  <2>5. Waits(s) /\ Asked(s)
    BY <2>4 DEF Waits, Asked
  <2>6. /\ Becomes(u) /\ u.pc \notin Closes \cup {"running"} /\ u.cur = None
        /\ (u.op = "hydrate") = (s.op = "hydrate")
    BY <2>2, <2>4, <2>5, ProceedOK
  <2>7. UNCHANGED <<journal, public, broker, expired, phase>> /\ Continues(w, u)
    BY <1>2, <2>1, <2>2 DEF SweepExpired, Continues
  <2>8. BootLeft(s)'
    BY <2>4, <2>7 DEF BootLeft, journal, Unpublished
  <2>9. BootOK(u)'
    BY <2>2, <2>4, <2>5, <2>8, ProceedBoot
  <2>10. BootOK(u)
    BY <2>7, <2>9 DEF BootOK, journal, Unpublished
  <2> QED
    BY <1>2, <2>4, <2>6, <2>7, <2>10, QuietMove DEF Closes
<1> QED
  BY <1>1, <1>2 DEF SweepExpired

-----------------------------------------------------------------------------
(* Appends to the journal.                                                 *)

LEMMA IntentAppended ==
  ASSUME Durable, NEW o \in Objects, status[o] = "open", NEW i \in Intents,
         closing[o] \in {None, i}, o \in Exposures => \A b \in i.affected : of[b] = o,
         AppendIntent(o, i)
  PROVE  /\ Durable' /\ Grows /\ Ending(o)' /\ UNCHANGED <<status, of, poisoned>>
         /\ closing'[o] = i /\ \A x \in Objects \ {o} : closing'[x] = closing[x]
<1>1. i # None
  BY IntentAssumption
<1>2. /\ closing \in [Objects -> Intents \cup {None}] /\ closing' = [closing EXCEPT ![o] = i]
      /\ UNCHANGED <<status, of, poisoned>>
      /\ claims' = [k \in Keys |-> IF k = i.claim THEN o ELSE claims[k]]
  BY DEF AppendIntent, Durable, JournalOK
<1>3. /\ closing' \in [Objects -> Intents \cup {None}]
      /\ closing'[o] = i /\ \A x \in Objects \ {o} : closing'[x] = closing[x]
  BY <1>2
<1>4. claims' \in [Keys -> Objects \cup {None}]
  BY <1>2 DEF Durable, JournalOK
<1>5. \A k \in Keys : claims'[k] # None =>
        status'[claims'[k]] \in Terminal \/ closing'[claims'[k]] # None
  <2> SUFFICES ASSUME NEW k \in Keys, claims'[k] # None
               PROVE  status'[claims'[k]] \in Terminal \/ closing'[claims'[k]] # None
    OBVIOUS
  <2>1. claims'[k] \in {o, claims[k]}
    BY <1>2
  <2>2. claims'[k] \in Objects
    BY <1>4
  <2> QED
    BY <1>1, <1>2, <1>3, <2>1, <2>2 DEF Durable, JournalOK
<1>6. JournalOK'
  BY <1>1, <1>2, <1>3, <1>4, <1>5, PowerboxAssumption DEF Durable, JournalOK, Objects
<1>7. StatusOK' /\ SelectedIsServed'
  BY <1>2 DEF Durable, StatusOK, SelectedIsServed
<1>8. Grows
  BY <1>1, <1>2, <1>3 DEF Grows, Terminal
<1> QED
  BY <1>1, <1>2, <1>3, <1>6, <1>7, <1>8 DEF Durable, Ending

\* What is terminal in the journal is quiet.
LEMMA TerminalSilent ==
  ASSUME PowerboxInv
  PROVE  \A b \in Bindings : status[b] \in Terminal => Silent(b) /\ ~Current(b)
BY DEF PowerboxInv, TerminalIsQuiet, Silent, Running, At, Current, Terminal

\* A new Exposure, or a new Binding of an Exposure that may serve it.
LEMMA OpenedAppended ==
  ASSUME Durable, NEW o \in Objects, status[o] = "none", NEW e,
         o \in Exposures => e = None,
         o \in Bindings => e \in Exposures /\ status[e] = "open" /\ HasCapacity,
         AppendOpened(o, e)
  PROVE  /\ Durable' /\ Grows /\ UNCHANGED <<closing, claims, poisoned>> /\ status'[o] = "open"
         /\ \A x \in Objects \ {o} : status'[x] = status[x] /\ of'[x] = of[x]
<1>1. /\ status' = [status EXCEPT ![o] = "open"] /\ of' = [of EXCEPT ![o] = e]
      /\ UNCHANGED <<closing, claims, poisoned>>
      /\ status \in [Objects -> {"none", "open"} \cup Terminal]
      /\ of \in [Objects -> Exposures \cup {None}]
  BY DEF AppendOpened, Durable, StatusOK, JournalOK
<1>2. /\ status'[o] = "open" /\ of'[o] = e
      /\ \A x \in Objects \ {o} : status'[x] = status[x] /\ of'[x] = of[x]
      /\ status' \in [Objects -> {"none", "open"} \cup Terminal]
  BY <1>1
<1>3. Exposures \cap Bindings = {} /\ None \notin Exposures
  BY PowerboxAssumption
<1>4. closing[o] = None
  BY DEF Durable, JournalOK
<1>5. of' \in [Objects -> Exposures \cup {None}]
  BY <1>1 DEF Objects
<1>6. StatusOK'
  BY <1>2, <1>3 DEF StatusOK, Durable, Objects
<1> DEFINE S == {b \in Bindings : status[b] = "open"}
<1>7. /\ o \in Bindings => {b \in Bindings : status'[b] = "open"} = S \cup {o}
      /\ o \in Exposures => {b \in Bindings : status'[b] = "open"} = S
  BY <1>2, <1>3 DEF Objects
<1>8. IsFiniteSet(S) /\ Cardinality(S) <= Capacity /\ Capacity \in Nat /\ Cardinality(S) \in Nat
  BY FS_CardinalityType, PowerboxAssumption DEF Durable, JournalOK, SelectedIsServed
<1>9. /\ IsFiniteSet({b \in Bindings : status'[b] = "open"})
      /\ Cardinality({b \in Bindings : status'[b] = "open"}) <= Capacity
  <2>1. CASE o \in Bindings
    <3>1. Cardinality(S) < Capacity /\ o \notin S
      BY <2>1 DEF HasCapacity
    <3>2. IsFiniteSet(S \cup {o}) /\ Cardinality(S \cup {o}) = Cardinality(S) + 1
      BY <1>8, <3>1, FS_AddElement
    <3> QED
      BY <1>7, <1>8, <2>1, <3>1, <3>2
  <2>2. CASE o \in Exposures
    BY <1>7, <1>8, <2>2
  <2> QED
    BY <2>1, <2>2 DEF Objects
<1>10. \A b \in Bindings : status'[b] = "open" => status'[of'[b]] = "open"
  <2> SUFFICES ASSUME NEW b \in Bindings, status'[b] = "open" PROVE status'[of'[b]] = "open"
    OBVIOUS
  <2>1. CASE b = o
    BY <1>2, <1>3, <2>1 DEF Objects
  <2>2. CASE b # o
    <3>1. status[b] = "open" /\ of'[b] = of[b] /\ status[of[b]] = "open"
      BY <1>2, <2>2 DEF Objects, Durable, SelectedIsServed
    <3>2. of[b] \in Objects /\ of[b] # o
      BY <1>1, <3>1 DEF Objects, Durable, StatusOK
    <3> QED
      BY <1>2, <3>1, <3>2
  <2> QED
    BY <2>1, <2>2
<1>11. SelectedIsServed'
  BY <1>9, <1>10 DEF SelectedIsServed
<1>12. \A x \in Exposures : closing'[x] # None => \A b \in closing'[x].affected : of'[b] = x
  <2> SUFFICES ASSUME NEW x \in Exposures, closing[x] # None, NEW b \in closing[x].affected
               PROVE  of'[b] = x
    BY <1>1
  <2>1. closing[x] \in Intents /\ b \in Bindings
    BY DEF Durable, JournalOK, Objects, Intents
  <2>2. of[b] = x /\ status[b] # "none"
    BY <1>3, <2>1 DEF Durable, JournalOK, StatusOK
  <2> QED
    BY <1>2, <2>1, <2>2 DEF Objects
<1>13. \A k \in Keys : claims'[k] # None =>
         status'[claims'[k]] \in Terminal \/ closing'[claims'[k]] # None
  <2>1. \A k \in Keys : claims[k] # None => claims[k] \in Objects /\ claims[k] # o
    BY <1>4 DEF Durable, JournalOK, Terminal
  <2> QED
    BY <1>1, <1>2, <2>1 DEF Durable, JournalOK
<1>14. \A x \in Objects : closing'[x] # None => status'[x] = "open"
  BY <1>1, <1>2, <1>4 DEF Durable, JournalOK
<1>15. \A x \in Exposures : of'[x] = None
  BY <1>2 DEF Durable, JournalOK, Objects
<1>16. JournalOK'
  BY <1>1, <1>5, <1>9, <1>12, <1>13, <1>14, <1>15 DEF Durable, JournalOK
<1>17. Grows
  <2>1. of[o] = None
    BY DEF Durable, JournalOK, StatusOK, Objects
  <2> QED
    BY <1>1, <1>2, <2>1 DEF Grows, Terminal
<1> QED
  BY <1>1, <1>2, <1>6, <1>11, <1>16, <1>17 DEF Durable

\* A terminal event, of an Exposure after those of its Bindings.
LEMMA TerminalAppended ==
  ASSUME Durable, NEW x \in Objects, NEW s \in Terminal, status[x] = "open",
         x \in Exposures => Selected(x) = {}, AppendTerminal(x, s)
  PROVE  /\ Durable' /\ Grows /\ UNCHANGED <<of, claims, poisoned>>
         /\ status'[x] = s /\ closing'[x] = None
         /\ \A o \in Objects \ {x} : status'[o] = status[o] /\ closing'[o] = closing[o]
<1>1. /\ status' = [status EXCEPT ![x] = s] /\ closing' = [closing EXCEPT ![x] = None]
      /\ UNCHANGED <<of, claims, poisoned>>
      /\ status \in [Objects -> {"none", "open"} \cup Terminal]
      /\ closing \in [Objects -> Intents \cup {None}]
  BY DEF AppendTerminal, Durable, StatusOK, JournalOK
<1>2. /\ status'[x] = s /\ closing'[x] = None
      /\ \A o \in Objects \ {x} : status'[o] = status[o] /\ closing'[o] = closing[o]
      /\ status' \in [Objects -> {"none", "open"} \cup Terminal]
      /\ closing' \in [Objects -> Intents \cup {None}]
  BY <1>1
<1>3. s # "open" /\ s # "none"
  BY DEF Terminal
<1>4. StatusOK'
  BY <1>1, <1>2, <1>3 DEF StatusOK, Durable, Objects
<1> DEFINE S == {b \in Bindings : status[b] = "open"}
           T == {b \in Bindings : status'[b] = "open"}
<1>5. T \subseteq S
  BY <1>2, <1>3 DEF Objects
<1>6. IsFiniteSet(S) /\ Cardinality(S) <= Capacity /\ Capacity \in Nat
  BY PowerboxAssumption DEF Durable, JournalOK, SelectedIsServed
<1>7. IsFiniteSet(T) /\ Cardinality(T) <= Cardinality(S)
  BY <1>5, <1>6, FS_Subset
<1>8. Cardinality(T) <= Capacity
  BY <1>6, <1>7, FS_CardinalityType
<1>9. \A b \in Bindings : status'[b] = "open" => status'[of'[b]] = "open"
  <2> SUFFICES ASSUME NEW b \in Bindings, status'[b] = "open" PROVE status'[of'[b]] = "open"
    OBVIOUS
  <2>1. status[b] = "open" /\ of'[b] = of[b] /\ status[of[b]] = "open" /\ of[b] \in Exposures
    BY <1>1, <1>5 DEF Durable, SelectedIsServed, JournalOK, StatusOK, Objects
  <2>2. of[b] # x
    BY <2>1 DEF Selected
  <2> QED
    BY <1>2, <2>1, <2>2 DEF Objects
<1>10. SelectedIsServed'
  BY <1>8, <1>9 DEF SelectedIsServed
<1>11. /\ \A o \in Objects : closing'[o] # None => closing'[o] = closing[o] /\ o # x
       /\ \A k \in Keys : claims[k] # None => claims[k] \in Objects
  BY <1>2 DEF Durable, JournalOK
<1>12. JournalOK'
  <2>1. \A k \in Keys : claims'[k] # None =>
          status'[claims'[k]] \in Terminal \/ closing'[claims'[k]] # None
    BY <1>1, <1>2, <1>11 DEF Durable, JournalOK
  <2>2. \A e \in Exposures : closing'[e] # None => \A b \in closing'[e].affected : of'[b] = e
    BY <1>1, <1>11 DEF Durable, JournalOK, Objects
  <2>3. \A o \in Objects : closing'[o] # None => status'[o] = "open"
    BY <1>2, <1>11 DEF Durable, JournalOK
  <2> QED
    BY <1>1, <1>2, <1>7, <2>1, <2>2, <2>3 DEF Durable, JournalOK
<1>13. Grows
  BY <1>1, <1>2 DEF Grows, Terminal
<1> QED
  BY <1>1, <1>2, <1>4, <1>10, <1>12, <1>13 DEF Durable

-----------------------------------------------------------------------------
(* The closing of an object.                                               *)

\* The task that starts to complete an intent.
LEMMA CompleteShape ==
  ASSUME NEW t \in TaskStates, Waits(t), Asked(t), t.shut = 0, NEW o \in Objects, NEW i \in Intents,
         t.op = "revoke" => o = t.obj /\ t.todo \subseteq {t.obj},
         NEW u, u = Complete(t, o, i)
  PROVE  /\ Shaped(u) /\ u.pc \in {"barrier", "commit"} /\ u.cur = o /\ u.intent = i
         /\ u.barriered = {} /\ u.op = t.op /\ u.then = t.then /\ u.todo = t.todo
         /\ o \in Exposures => u.affected = i.affected
<1> DEFINE names == IF o \in Bindings THEN {o} ELSE i.affected
           p == IF names = {} THEN "commit" ELSE "barrier"
<1>1. /\ names \subseteq Bindings /\ p \in {"barrier", "commit"} /\ (p = "commit" => names = {})
      /\ (o \in Bindings => names = {o}) /\ (o \in Exposures => names = i.affected)
  BY PowerboxAssumption DEF Intents
<1>2. u = [t EXCEPT !.cur = o, !.intent = i, !.affected = names, !.barriered = {}, !.pc = p]
  BY DEF Complete
<1> HIDE DEF names, p
<1>3. u \in TaskStates
  <2>1. /\ p \in Points /\ names \in SUBSET Bindings /\ {} \in SUBSET Bindings
        /\ o \in Objects \cup {None} /\ i \in Intents \cup {None}
    BY <1>1 DEF Points, Closes
  <2> QED
    BY <1>2, <2>1, ZenonT(60) DEF TaskStates
<1>4. /\ u.pc = p /\ u.cur = o /\ u.intent = i /\ u.affected = names /\ u.barriered = {}
      /\ u.op = t.op /\ u.then = t.then /\ u.todo = t.todo /\ u.obj = t.obj /\ u.key = t.key
      /\ u.gen = t.gen /\ u.shut = t.shut
  BY <1>2 DEF TaskStates
<1>5. o # None /\ i # None
  BY PowerboxAssumption, IntentAssumption DEF Objects
<1>6. Waits(u) /\ Asked(u)
  BY <1>4 DEF Waits, Asked
<1>7. PlanOK(u) /\ RevokeOK(u)
  BY <1>1, <1>4, <1>5 DEF PlanOK, RevokeOK, Closes
<1>8. WorkOK(u)
  BY <1>1, <1>4, <1>5, <1>6 DEF WorkOK, Closes
<1> QED
  BY <1>1, <1>3, <1>4, <1>6, <1>7, <1>8 DEF Shaped

\* ... of an intent that is in the journal.
LEMMA CompleteKeeps ==
  ASSUME PowerboxInv, NEW w \in Workers, NEW t \in TaskStates, Waits(t), Asked(t), t.shut = 0,
         NEW o \in Objects, closing[o] # None,
         t.op = "revoke" => o = t.obj /\ t.todo \subseteq {t.obj}, t.op # "hydrate" \/ t = task[w],
         task[w].op = "hydrate" => t.op = "hydrate", task[w].pc \notin {"idle", "settle", "relayAll",
           "reconcile", "relay"},
         NoFault, Continues(w, Complete(t, o, closing[o])),
         UNCHANGED <<journal, public, locks, broker, expired>>
  PROVE  PowerboxInv'
<1>1. PICK u : u = Complete(t, o, closing[o])
  OBVIOUS
<1>2. closing[o] \in Intents /\ (o \in Exposures => \A b \in closing[o].affected : of[b] = o)
  BY DEF PowerboxInv, Durable, JournalOK
<1>3. /\ Shaped(u) /\ u.pc \in {"barrier", "commit"} /\ u.cur = o /\ u.intent = closing[o]
      /\ u.barriered = {} /\ u.op = t.op /\ u.then = t.then /\ u.todo = t.todo
      /\ o \in Exposures => u.affected = closing[o].affected
  BY <1>1, <1>2, CompleteShape
<1>4. Becomes(u)
  BY <1>2, <1>3 DEF Becomes, WritingOK, Writing, ClosingOK, AnswerOK, Ending
<1>5. BootOK(u)
  <2>1. BootOK(task[w])
    BY DEF PowerboxInv, TasksOK, TaskOK
  <2> QED
    BY <1>3, <2>1 DEF BootOK
<1> QED
  BY <1>1, <1>3, <1>4, <1>5, QuietMove

\* ... of an intent that it appends first.
LEMMA CompleteAppended ==
  ASSUME PowerboxInv, NEW w \in Workers, NEW t \in TaskStates, Waits(t), Asked(t), t.shut = 0,
         NEW o \in Objects, NEW i \in Intents, status[o] = "open", closing[o] \in {None, i},
         o \in Exposures => \A b \in i.affected : of[b] = o,
         t.op = "revoke" => o = t.obj /\ t.todo \subseteq {t.obj},
         t.op = "hydrate" => t = task[w] /\ o \in t.todo,
         task[w].op = "hydrate" => t.op = "hydrate", task[w].pc \notin {"idle", "settle", "relayAll",
           "reconcile", "relay"}, mutation = None,
         NoFault, Continues(w, Complete(t, o, i)), AppendIntent(o, i),
         UNCHANGED <<public, locks, broker, expired>>
  PROVE  PowerboxInv'
<1>1. PICK u : u = Complete(t, o, i)
  OBVIOUS
<1>2. /\ Shaped(u) /\ u.pc \in {"barrier", "commit"} /\ u.cur = o /\ u.intent = i
      /\ u.barriered = {} /\ u.op = t.op /\ u.then = t.then /\ u.todo = t.todo
      /\ o \in Exposures => u.affected = i.affected
  BY <1>1, CompleteShape
<1>3. /\ Durable' /\ Grows /\ Ending(o)' /\ UNCHANGED <<status, of, poisoned>>
      /\ closing'[o] = i /\ \A x \in Objects \ {o} : closing'[x] = closing[x]
  BY IntentAppended DEF PowerboxInv
<1>4. UNCHANGED <<phase, mutation, closeSerial, attachSerial, generation>> /\ SetTask(w, u)
  BY <1>1 DEF Continues, locks, broker
<1>5. RestOK' /\ PublicOK'
  BY <1>4 DEF PowerboxInv, RestOK, PublicOK, NoFault, broker
<1>6. Steps(w, u)
  BY <1>2, <1>3, <1>4 DEF Steps, JournalStep, LockStep, PhaseStep, GenerationStep
<1>7. Shaped(u)'
  BY <1>2 DEF Shaped, PlanOK, WorkOK, Asked, RevokeOK, Waits
<1>8. WritingOK(u)' /\ ClosingOK(u)' /\ AnswerOK(u)'
  BY <1>2, <1>3 DEF WritingOK, Writing, ClosingOK, AnswerOK
<1>9. BootOK(u)'
  <2> SUFFICES ASSUME u.op = "hydrate" PROVE BootOK(u)'
    BY DEF BootOK
  <2>1. BootOK(task[w]) /\ t = task[w] /\ o \in t.todo
    BY <1>2 DEF PowerboxInv, TasksOK, TaskOK
  <2>2. Unpublished' = Unpublished
    BY <1>3 DEF Unpublished
  <2> QED
    BY <1>2, <1>3, <1>4, <2>1, <2>2 DEF BootOK
<1>10. \A b \in Bindings : status'[b] \in Terminal => Silent(b) /\ ~Current(b)
  BY <1>3, TerminalSilent
<1> QED
  BY <1>5, <1>6, <1>7, <1>8, <1>9, <1>10, GeneralStep DEF TaskOK

LEMMA SelectedNamed ==
  ASSUME Durable, NEW o \in Objects, NEW s \in Terminal, NEW k \in Keys \cup {None}, NEW i,
         i = [status |-> s, claim |-> k, affected |-> IF o \in Bindings THEN {} ELSE Selected(o)]
  PROVE  i \in Intents /\ (o \in Exposures => \A b \in i.affected : of[b] = o)
<1>1. (IF o \in Bindings THEN {} ELSE Selected(o)) \subseteq Bindings
  BY DEF Selected
<1> QED
  BY <1>1 DEF Intents, Selected

LEMMA BeginClosingKeeps ==
  ASSUME PowerboxInv, NEW w \in Workers, BeginClosing(w)
  PROVE  PowerboxInv'
<1> DEFINE t == task[w]
<1>1. /\ t.pc = "begin" /\ mutation = None /\ UNCHANGED <<public, broker, expired>>
      /\ TaskOK(t) /\ t \in TaskStates /\ Waits(t) /\ Asked(t) /\ Durable /\ t.op # "revoke"
  BY DEF BeginClosing, At, PowerboxInv, TasksOK, TaskOK, Shaped, PlanOK, RevokeOK
<1>2. t.shut = 0 /\ t.cur = None
  BY <1>1 DEF TaskOK, Shaped, WorkOK, Waits, Closes
<1>3. PICK o \in t.todo :
        LET i == [status |-> t.why, claim |-> None,
                  affected |-> IF o \in Bindings THEN {} ELSE Selected(o)]
        IN  \/ /\ ~poisoned /\ status[o] # "open" /\ NoFault
               /\ Continues(w, JobDone([t EXCEPT !.cur = o]))
               /\ UNCHANGED <<journal, locks>>
            \/ /\ ~poisoned /\ status[o] = "open" /\ closing[o] # None /\ NoFault
               /\ Continues(w, Complete(t, o, closing[o]))
               /\ UNCHANGED <<journal, locks>>
            \/ /\ ~poisoned /\ status[o] = "open" /\ closing[o] = None /\ NoFault
               /\ AppendIntent(o, i)
               /\ Continues(w, Complete(t, o, i))
               /\ UNCHANGED locks
            \/ /\ ~poisoned /\ status[o] = "open" /\ closing[o] = None /\ Fault
               /\ AppendIntent(o, i) \/ UNCHANGED journal
               /\ Fails(w)
            \/ poisoned /\ NoFault /\ Fails(w) /\ UNCHANGED journal
  BY DEF BeginClosing
<1>4. o \in Objects /\ t.why \in Terminal
  BY <1>1 DEF TaskStates
<1>5. PICK i : i = [status |-> t.why, claim |-> None,
                    affected |-> IF o \in Bindings THEN {} ELSE Selected(o)]
  OBVIOUS
<1>6. i \in Intents /\ (o \in Exposures => \A b \in i.affected : of[b] = o)
  BY <1>1, <1>4, <1>5, SelectedNamed
<1>7. CASE /\ status[o] # "open" /\ NoFault
           /\ Continues(w, JobDone([t EXCEPT !.cur = o]))
           /\ UNCHANGED <<journal, locks>>
  <2>1. PICK s : s = [t EXCEPT !.cur = o]
    OBVIOUS
  <2>2. PICK u : u = JobDone(s)
    OBVIOUS
  <2>3. /\ s \in TaskStates /\ s.op = t.op /\ s.then = t.then /\ s.todo = t.todo /\ s.cur = o
        /\ s.obj = t.obj /\ s.key = t.key /\ s.gen = t.gen /\ s.shut = 0
    BY <1>1, <1>2, <1>4, <2>1 DEF TaskStates
  <2>4. Waits(s) /\ Asked(s)
    BY <1>1, <2>3 DEF Waits, Asked
  <2>5. /\ Becomes(u) /\ u.pc \notin Closes \cup {"running"} /\ u.cur = None
        /\ (u.op = "hydrate") = (s.op = "hydrate")
    BY <1>1, <2>2, <2>3, <2>4, JobDoneOK
  <2>6. closing[o] = None
    BY <1>1, <1>4, <1>7 DEF Durable, JournalOK
  <2>7. UNCHANGED <<phase, journal, public>> /\ Continues(w, u)
    BY <1>1, <1>7, <2>1, <2>2 DEF Continues
  <2>8. BootOK(u)'
    <3>1. t.op = "hydrate" =>
            /\ phase' = "booting" /\ Unpublished' = {}
            /\ \A x \in Objects : closing'[x] # None => x \in t.todo \ {o}
            /\ t.then = <<"serve">> => \A e \in Exposures : status'[e] = "open" => e \in t.todo \ {o}
      BY <1>1, <1>7, <2>6, <2>7 DEF TaskOK, BootOK, journal, Unpublished
    <3> QED
      BY <2>2, <2>3, <2>4, <3>1, JobDoneBoot
  <2>9. BootOK(u)
    BY <2>7, <2>8 DEF BootOK, journal, Unpublished
  <2> QED
    BY <1>1, <1>7, <2>3, <2>5, <2>7, <2>9, QuietMove DEF Closes
<1>8. CASE /\ status[o] = "open" /\ closing[o] # None /\ NoFault
           /\ Continues(w, Complete(t, o, closing[o]))
           /\ UNCHANGED <<journal, locks>>
  BY <1>1, <1>2, <1>4, <1>8, CompleteKeeps
<1>9. CASE /\ status[o] = "open" /\ closing[o] = None /\ NoFault
           /\ AppendIntent(o, i)
           /\ Continues(w, Complete(t, o, i))
           /\ UNCHANGED locks
  BY <1>1, <1>2, <1>3, <1>4, <1>6, <1>9, CompleteAppended
<1>10. CASE status[o] = "open" /\ closing[o] = None /\ Fault /\ AppendIntent(o, i) /\ Fails(w)
  <2>1. Durable' /\ Grows /\ UNCHANGED status
    BY <1>1, <1>4, <1>6, <1>10, IntentAppended
  <2> QED
    BY <1>1, <1>10, <2>1, TerminalSilent, FailAppends DEF JournalStep
<1>11. CASE UNCHANGED journal /\ Fails(w) /\ (NoFault \/ Fault)
  BY <1>1, <1>11, FailKeeps DEF PowerboxInv, PublicOK, RestOK, broker
<1> QED
  BY <1>3, <1>5, <1>7, <1>8, <1>9, <1>10, <1>11

LEMMA CommitKeeps ==
  ASSUME PowerboxInv, NEW w \in Workers, Commit(w)
  PROVE  PowerboxInv'
<1> DEFINE t == task[w]
           new == IF t.cur \in Exposures THEN Selected(t.cur) \ t.affected ELSE {}
<1>1. /\ t.pc = "commit" /\ mutation = None /\ NoFault /\ Durable
      /\ UNCHANGED <<journal, public, broker, expired>>
      /\ TaskOK(t) /\ Shaped(t) /\ t \in TaskStates
  BY DEF Commit, At, PowerboxInv, TasksOK, TaskOK, Shaped, NoFault
<1>2. /\ t.cur # None /\ t.cur \in Objects /\ Waits(t) /\ Asked(t) /\ t.shut = 0
      /\ t.affected = t.barriered /\ t.affected \subseteq Bindings
      /\ (t.op = "revoke" => t.cur = t.obj /\ t.todo \subseteq {t.obj})
  BY <1>1 DEF Shaped, PlanOK, WorkOK, RevokeOK, Waits, Closes, TaskStates
<1>3. CASE Fails(w)
  BY <1>1, <1>3, FailKeeps DEF PowerboxInv, PublicOK, RestOK, broker
<1>4. CASE status[t.cur] # "open" /\ Continues(w, JobDone(t)) /\ UNCHANGED locks
  <2>1. status[t.cur] \in Terminal /\ closing[t.cur] = None
    BY <1>1, <1>2, <1>4 DEF TaskOK, ClosingOK, Ending, Durable, JournalOK
  <2>2. PICK u : u = JobDone(t)
    OBVIOUS
  <2>3. /\ Becomes(u) /\ u.pc \notin Closes \cup {"running"} /\ u.cur = None
        /\ (u.op = "hydrate") = (t.op = "hydrate")
    BY <1>1, <1>2, <2>1, <2>2, JobDoneOK
  <2>4. UNCHANGED <<phase, journal, public>> /\ Continues(w, u)
    BY <1>1, <1>4, <2>2 DEF Continues
  <2>5. BootOK(u)'
    <3>1. t.op = "hydrate" =>
            /\ phase' = "booting" /\ Unpublished' = {}
            /\ \A x \in Objects : closing'[x] # None => x \in t.todo \ {t.cur}
            /\ t.then = <<"serve">> =>
                 \A e \in Exposures : status'[e] = "open" => e \in t.todo \ {t.cur}
      BY <1>1, <1>4, <2>1, <2>4 DEF TaskOK, BootOK, journal, Unpublished
    <3> QED
      BY <1>1, <1>2, <2>2, <3>1, JobDoneBoot
  <2>6. BootOK(u)
    BY <2>4, <2>5 DEF BootOK, journal, Unpublished
  <2> QED
    BY <1>1, <1>4, <2>3, <2>4, <2>6, QuietMove DEF Closes
<1>5. CASE Continues(w, [t EXCEPT !.affected = @ \cup new, !.pc = "barrier"]) /\ UNCHANGED locks
  <2>1. new \subseteq Bindings /\ (t.cur \in Bindings => new = {})
        /\ (\A b \in new : of[b] = t.cur)
    BY PowerboxAssumption DEF Selected
  <2> HIDE DEF new
  <2>2. PICK u : u = [t EXCEPT !.affected = @ \cup new, !.pc = "barrier"]
    OBVIOUS
  <2>3. u \in TaskStates
    <3>1. t.affected \cup new \in SUBSET Bindings /\ "barrier" \in Points
      BY <1>2, <2>1 DEF Points, Closes
    <3> QED
      BY <1>1, <2>2, <3>1 DEF TaskStates
  <2>4. /\ u.pc = "barrier" /\ u.affected = t.affected \cup new /\ u.cur = t.cur
        /\ u.intent = t.intent /\ u.op = t.op /\ u.then = t.then /\ u.todo = t.todo
        /\ u.obj = t.obj /\ u.key = t.key /\ u.gen = t.gen /\ u.shut = t.shut
        /\ u.barriered = t.barriered
    BY <1>1, <2>2 DEF TaskStates
  <2>5. Waits(u) /\ Asked(u)
    BY <1>2, <2>4 DEF Waits, Asked
  <2>6. PlanOK(u) /\ RevokeOK(u)
    BY <1>2, <2>4, <2>5 DEF PlanOK, RevokeOK, Closes
  <2>7. WorkOK(u)
    BY <1>1, <1>2, <2>1, <2>4, <2>5 DEF Shaped, WorkOK, Closes
  <2>8. Becomes(u)
    BY <1>1, <1>2, <2>1, <2>3, <2>4, <2>5, <2>6, <2>7
       DEF Becomes, Shaped, TaskOK, WritingOK, Writing, ClosingOK, AnswerOK
  <2>9. BootOK(u)
    BY <1>1, <2>4 DEF TaskOK, BootOK
  <2> QED
    BY <1>1, <1>5, <2>2, <2>4, <2>8, <2>9, QuietMove
<1>6. CASE /\ status[t.cur] = "open" /\ closing[t.cur] = t.intent /\ new = {}
           /\ mutation' = w /\ Continues(w, [t EXCEPT !.pc = "write"])
           /\ UNCHANGED <<closeSerial, attachSerial>>
  <2>1. t.cur \in Exposures => Selected(t.cur) \subseteq t.affected
    BY <1>6
  <2>2. PICK u : u = [t EXCEPT !.pc = "write"]
    OBVIOUS
  <2>3. u \in TaskStates
    BY <1>1, <2>2 DEF TaskStates, Points, Closes
  <2>4. /\ u.pc = "write" /\ u.affected = t.affected /\ u.cur = t.cur
        /\ u.intent = t.intent /\ u.op = t.op /\ u.then = t.then /\ u.todo = t.todo
        /\ u.obj = t.obj /\ u.key = t.key /\ u.gen = t.gen /\ u.shut = t.shut
        /\ u.barriered = t.barriered
    BY <1>1, <2>2 DEF TaskStates
  <2>5. Waits(u) /\ Asked(u)
    BY <1>2, <2>4 DEF Waits, Asked
  <2>6. PlanOK(u) /\ RevokeOK(u)
    BY <1>2, <2>4, <2>5 DEF PlanOK, RevokeOK, Closes
  <2>7. WorkOK(u)
    BY <1>1, <1>2, <2>4, <2>5 DEF Shaped, WorkOK, Closes
  <2>8. Becomes(u)
    BY <1>1, <1>2, <1>6, <2>1, <2>3, <2>4, <2>5, <2>6, <2>7
       DEF Becomes, Shaped, TaskOK, WritingOK, Writing, ClosingOK, AnswerOK
  <2>9. BootOK(u)
    BY <1>1, <2>4 DEF TaskOK, BootOK
  <2>10. UNCHANGED <<phase, generation>> /\ SetTask(w, u)
    BY <1>1, <1>6, <2>2 DEF Continues, broker
  <2>11. RestOK'
    <3>1. {mutation', closeSerial', attachSerial'} \subseteq Workers \cup {None}
      BY <1>6 DEF PowerboxInv, RestOK
    <3> QED
      BY <1>1, <2>10, <3>1, RestSame DEF PowerboxInv
  <2>12. Kept(w, u)
    BY <1>1, <1>6, <2>4, <2>10, PowerboxAssumption DEF Kept, LockStep, PhaseStep
  <2> QED
    BY <1>1, <2>8, <2>9, <2>10, <2>11, <2>12, QuietStep
<1> QED
  BY <1>3, <1>4, <1>5, <1>6 DEF Commit

\* The object whose terminal event is next, and the intent it ends by.
LEMMA WriteFacts ==
  ASSUME PowerboxInv, NEW w \in Workers, NEW t, t = task[w], t.pc = "write",
         NEW x \in NextTerminal(t)
  PROVE  /\ x \in Objects /\ x \in t.affected \cup {t.cur} /\ status[x] = "open"
         /\ t.cur \in Objects /\ t.intent \in Intents /\ closing[t.cur] = t.intent
         /\ x \in Exposures => x = t.cur /\ Selected(x) = {}
         /\ x \in Bindings => Silent(x) /\ ~Current(x)
         /\ x # t.cur => t.cur \in Exposures /\ of[x] = t.cur
<1>1. TaskOK(t) /\ Shaped(t) /\ t \in TaskStates /\ Durable
  BY DEF PowerboxInv, TasksOK, TaskOK, Shaped
<1>2. /\ t.cur # None /\ t.cur \in Objects /\ t.affected \subseteq Bindings /\ t.affected = t.barriered
      /\ t.intent \in Intents
  BY <1>1 DEF Shaped, PlanOK, WorkOK, TaskStates
<1>3. /\ status[t.cur] = "open" /\ closing[t.cur] = t.intent
      /\ t.cur \in Exposures => Selected(t.cur) \subseteq t.affected
  BY <1>1 DEF TaskOK, WritingOK, Writing
<1>4. \A b \in t.affected : Silent(b) /\ ~Current(b)
  BY <1>1, <1>2, AffectedEnds DEF TaskOK, ClosingOK
<1>5. t.cur \in Bindings => t.affected = {t.cur}
  BY <1>1 DEF Shaped, WorkOK
<1>6. \/ x \in t.affected /\ status[x] = "open"
      \/ x = t.cur /\ {b \in t.affected : status[b] = "open"} = {}
  BY DEF NextTerminal
<1>7. Exposures \cap Bindings = {}
  BY PowerboxAssumption
<1>8. x = t.cur /\ x \in Exposures => Selected(x) = {}
  BY <1>2, <1>3, <1>6, <1>7 DEF Selected
<1>9. x # t.cur => t.cur \in Exposures /\ of[x] = t.cur
  BY <1>1, <1>2, <1>5, <1>6 DEF TaskOK, ClosingOK, Objects
<1> QED
  BY <1>2, <1>3, <1>4, <1>5, <1>6, <1>7, <1>8, <1>9 DEF Objects

LEMMA WriteTerminalKeeps ==
  ASSUME PowerboxInv, NEW w \in Workers, WriteTerminal(w)
  PROVE  PowerboxInv'
<1>1. PICK t : t = task[w]
  OBVIOUS
<1>2. /\ t.pc = "write" /\ UNCHANGED <<public, broker, expired>>
      /\ TaskOK(t) /\ Shaped(t) /\ t \in TaskStates /\ mutation = w /\ Durable
  BY <1>1 DEF WriteTerminal, At, PowerboxInv, TasksOK, TaskOK, Shaped, LocksOK
<1>3. PICK x \in NextTerminal(t) :
        \/ /\ NoFault /\ AppendTerminal(x, t.intent.status)
           /\ Continues(w, [t EXCEPT !.pc = "relay", !.at = x])
           /\ UNCHANGED locks
        \/ /\ Fault /\ (AppendTerminal(x, t.intent.status) \/ UNCHANGED journal)
           /\ Fails(w)
  BY <1>1 DEF WriteTerminal
<1>4. /\ x \in Objects /\ x \in t.affected \cup {t.cur} /\ status[x] = "open"
      /\ t.cur \in Objects /\ t.intent \in Intents /\ closing[t.cur] = t.intent
      /\ x \in Exposures => x = t.cur /\ Selected(x) = {}
      /\ x \in Bindings => Silent(x) /\ ~Current(x)
      /\ x # t.cur => t.cur \in Exposures /\ of[x] = t.cur
  BY <1>1, <1>2, WriteFacts
<1>5. /\ t.cur # None /\ Waits(t) /\ Asked(t) /\ t.affected = t.barriered /\ t.affected \subseteq Bindings
  BY <1>2 DEF Shaped, PlanOK, WorkOK, TaskStates
<1>6. CASE UNCHANGED journal /\ Fault /\ Fails(w)
  BY <1>1, <1>2, <1>6, FailKeeps DEF PowerboxInv, PublicOK, RestOK, broker
<1>7. ASSUME AppendTerminal(x, t.intent.status)
      PROVE  /\ JournalStep(w) /\ UNCHANGED <<of, claims, poisoned>>
             /\ \A b \in Bindings : status'[b] \in Terminal => Silent(b) /\ ~Current(b)
             /\ status'[x] \in Terminal /\ closing'[x] = None
             /\ \A o \in Objects \ {x} : status'[o] = status[o] /\ closing'[o] = closing[o]
  <2>1. t.intent.status \in Terminal
    BY <1>4 DEF Intents
  <2>2. /\ Durable' /\ Grows /\ UNCHANGED <<of, claims, poisoned>>
        /\ status'[x] = t.intent.status /\ closing'[x] = None
        /\ \A o \in Objects \ {x} : status'[o] = status[o] /\ closing'[o] = closing[o]
    BY <1>2, <1>4, <1>7, <2>1, TerminalAppended
  <2>3. \A b \in Bindings : status'[b] \in Terminal => Silent(b) /\ ~Current(b)
    BY <1>4, <2>2, TerminalSilent DEF Objects
  <2> QED
    BY <1>2, <2>1, <2>2, <2>3 DEF JournalStep
<1>8. CASE AppendTerminal(x, t.intent.status) /\ Fault /\ Fails(w)
  BY <1>1, <1>2, <1>7, <1>8, FailAppends
<1>9. CASE /\ NoFault /\ AppendTerminal(x, t.intent.status)
           /\ Continues(w, [t EXCEPT !.pc = "relay", !.at = x])
           /\ UNCHANGED locks
  <2>1. PICK u : u = [t EXCEPT !.pc = "relay", !.at = x]
    OBVIOUS
  <2>2. u \in TaskStates
    BY <1>2, <1>4, <2>1 DEF TaskStates, Points, Closes
  <2>3. /\ u.pc = "relay" /\ u.affected = t.affected /\ u.cur = t.cur /\ u.at = x
        /\ u.intent = t.intent /\ u.op = t.op /\ u.then = t.then /\ u.todo = t.todo
        /\ u.obj = t.obj /\ u.key = t.key /\ u.gen = t.gen /\ u.shut = t.shut
        /\ u.barriered = t.barriered
    BY <1>2, <2>1 DEF TaskStates
  <2>4. Waits(u) /\ Asked(u)
    BY <1>5, <2>3 DEF Waits, Asked
  <2>5. PlanOK(u) /\ RevokeOK(u)
    BY <1>2, <1>5, <2>3, <2>4 DEF Shaped, PlanOK, RevokeOK, Closes
  <2>6. WorkOK(u)
    BY <1>2, <1>5, <2>3, <2>4 DEF Shaped, WorkOK, Closes
  <2>7. Shaped(u) /\ Shaped(u)'
    BY <2>2, <2>4, <2>5, <2>6 DEF Shaped, PlanOK, WorkOK, Asked, RevokeOK, Waits
  <2>8. UNCHANGED <<phase, mutation, closeSerial, attachSerial, generation>> /\ SetTask(w, u)
    BY <1>2, <1>9, <2>1 DEF Continues, locks, broker
  <2>9. /\ JournalStep(w) /\ UNCHANGED <<of, claims, poisoned>>
        /\ \A b \in Bindings : status'[b] \in Terminal => Silent(b) /\ ~Current(b)
        /\ status'[x] \in Terminal /\ closing'[x] = None
        /\ \A o \in Objects \ {x} : status'[o] = status[o] /\ closing'[o] = closing[o]
    BY <1>7, <1>9
  <2>10. GenerationStep(w, u)
    BY <1>1, <1>2, <2>3, <2>8 DEF GenerationStep
  <2>11. Steps(w, u)
    BY <1>1, <1>2, <2>3, <2>7, <2>8, <2>9, <2>10 DEF Steps, LockStep, PhaseStep
  <2>12. WritingOK(u)'
    <3> SUFFICES ASSUME x # t.cur PROVE WritingOK(u)'
      BY <2>3 DEF WritingOK, Writing
    <3>1. WritingOK(t) /\ Writing(t)
      BY <1>2 DEF TaskOK, Writing
    <3>2. Selected(t.cur)' \subseteq Selected(t.cur)
      BY <2>9 DEF Selected, Objects, Terminal
    <3> QED
      BY <1>4, <2>3, <2>9, <3>1, <3>2 DEF WritingOK
  <2>13. ClosingOK(u)'
    <3>1. Ending(t.cur)'
      BY <1>2, <1>4, <1>5, <2>9, EndingKept DEF TaskOK, ClosingOK, JournalStep
    <3>2. \A b \in t.barriered : Silent(b)'
      <4>1. \A b \in t.barriered : b \in Bindings /\ Silent(b) /\ ~Current(b)
        BY <1>2, <1>5, AffectedEnds DEF TaskOK, ClosingOK
      <4> QED
        BY <2>7, <2>8, <2>10, <4>1, SilentKept DEF PowerboxInv
    <3> QED
      BY <1>2, <1>4, <1>5, <2>3, <2>9, <3>1, <3>2 DEF TaskOK, ClosingOK
  <2>14. AnswerOK(u)'
    BY <2>3 DEF AnswerOK
  <2>15. BootOK(u)'
    <3> SUFFICES ASSUME t.op = "hydrate" PROVE BootOK(u)'
      BY <2>3 DEF BootOK
    <3>1. BootOK(t) /\ Unpublished = {}
      BY <1>2 DEF TaskOK, BootOK
    <3>2. \A o \in Objects : closing'[o] # None => closing[o] # None
      BY <2>9
    <3>3. \A e \in Exposures : status'[e] = "open" => status[e] = "open"
      BY <1>4, <2>9 DEF Objects
    <3>4. \A p \in Unpublished' : p = <<x, "closed">>
      <4> SUFFICES ASSUME NEW p \in Unpublished' PROVE p = <<x, "closed">>
        OBVIOUS
      <4>1. /\ p \in Objects \X {"opened", "closed"} /\ status'[p[1]] # "none"
            /\ public[p[1]][p[2]] = 0 /\ (p[2] = "closed" => status'[p[1]] \in Terminal)
        BY <1>2 DEF Unpublished
      <4>2. p \notin Unpublished
        BY <3>1
      <4>3. p[1] = x
        BY <2>9, <4>1, <4>2 DEF Unpublished
      <4>4. p[2] = "closed"
        BY <1>4, <4>1, <4>2, <4>3 DEF Unpublished
      <4> QED
        BY <4>1, <4>3, <4>4
    <3> QED
      BY <1>2, <2>3, <2>8, <3>1, <3>2, <3>3, <3>4 DEF BootOK
  <2>16. RestOK' /\ PublicOK'
    BY <1>2, <1>9, <2>8 DEF PowerboxInv, RestOK, PublicOK, NoFault, broker
  <2> QED
    BY <2>7, <2>9, <2>11, <2>12, <2>13, <2>14, <2>15, <2>16, GeneralStep DEF TaskOK
<1> QED
  BY <1>3, <1>6, <1>8, <1>9

-----------------------------------------------------------------------------
(* The relay.                                                              *)

\* A task that goes on without a change of the journal or of the broker.
LEMMA Moves ==
  ASSUME PowerboxInv, NEW w \in Workers, NEW u, Continues(w, u), NoFault \/ Fault,
         UNCHANGED <<journal, broker, expired>>, PublicOK', Becomes(u), BootOK(u)',
         LockStep(w, u), {mutation', closeSerial', attachSerial'} \subseteq Workers \cup {None},
         u.pc # "running", task[w].pc # "settle", task[w].pc # "idle" \/ phase = "up",
         (u.op = "hydrate") = (task[w].op = "hydrate")
  PROVE  PowerboxInv'
<1>1. UNCHANGED <<phase, generation>> /\ SetTask(w, u)
  BY DEF Continues, broker
<1>2. RestOK'
  BY <1>1, RestSame DEF PowerboxInv
<1>3. Kept(w, u)
  BY <1>1 DEF Kept, PhaseStep
<1> QED
  BY <1>2, <1>3, KeptStep

\* relay_source_event publishes one event, and nothing twice.
LEMMA PublishFacts ==
  ASSUME PublicOK, NEW o \in Objects, NEW e \in {"opened", "closed"}, Publish(o, e),
         UNCHANGED status
  PROVE  PublicOK' /\ Unpublished' \subseteq Unpublished \ {<<o, e>>}
<1> DEFINE r == [public[o] EXCEPT ![e] = IF public[o][e] = 0 THEN 1 ELSE public[o][e]]
<1>1. public \in [Objects -> [{"opened", "closed"} -> 0..1]]
  BY DEF PublicOK
<1>2. public[o] \in [{"opened", "closed"} -> 0..1]
  BY <1>1
<1>3. /\ r \in [{"opened", "closed"} -> 0..1] /\ r[e] # 0
      /\ \A f \in {"opened", "closed"} \ {e} : r[f] = public[o][f]
  BY <1>2
<1>n. public' = [public EXCEPT ![o] = r]
  BY DEF Publish
<1> HIDE DEF r
<1>4. /\ public'[o] = r
      /\ \A x \in Objects \ {o} : public'[x] = public[x]
      /\ public' \in [Objects -> [{"opened", "closed"} -> 0..1]]
  BY <1>1, <1>3, <1>n
<1>5. /\ public'[o][e] # 0
      /\ \A f \in {"opened", "closed"} \ {e} : public'[o][f] = public[o][f]
  BY <1>3, <1>4
<1>6. ASSUME NEW p \in Unpublished' PROVE p \in Unpublished \ {<<o, e>>}
  <2>1. /\ p \in Objects \X {"opened", "closed"} /\ status[p[1]] # "none"
        /\ public'[p[1]][p[2]] = 0 /\ (p[2] = "closed" => status[p[1]] \in Terminal)
    BY <1>6 DEF Unpublished
  <2>2. p # <<o, e>>
    BY <1>5, <2>1
  <2>3. public[p[1]][p[2]] = 0
    BY <1>4, <1>5, <2>1, <2>2
  <2> QED
    BY <2>1, <2>2, <2>3 DEF Unpublished
<1> QED
  BY <1>4, <1>6 DEF PublicOK

LEMMA RelayKeeps ==
  ASSUME PowerboxInv, NEW w \in Workers, Relay(w)
  PROVE  PowerboxInv'
<1>1. PICK t : t = task[w]
  OBVIOUS
<1>2. /\ t.pc = "relay" /\ UNCHANGED <<journal, broker, expired>> /\ PublicOK
      /\ TaskOK(t) /\ Shaped(t) /\ t \in TaskStates /\ mutation = w /\ Durable
  BY <1>1 DEF Relay, At, PowerboxInv, TasksOK, TaskOK, Shaped, LocksOK
<1>3. /\ Asked(t) /\ PlanOK(t) /\ WorkOK(t) /\ (t.cur = None) = (t.intent = None) /\ w # None
      /\ {mutation, closeSerial, attachSerial} \subseteq Workers \cup {None}
  BY <1>2, PowerboxAssumption DEF Shaped, WorkOK, PowerboxInv, RestOK
<1>4. t.cur # None =>
        /\ Waits(t) /\ t.shut = 0 /\ t.at \in t.affected \cup {t.cur} /\ status[t.at] \in Terminal
        /\ t.affected = t.barriered /\ t.affected \subseteq Bindings /\ t.cur \in Objects
        /\ EventOf(t.at) = "closed"
  BY <1>2, <1>3 DEF WorkOK, TaskOK, ClosingOK, TaskStates, Waits, EventOf, Terminal
<1>5. t.cur = None => t.obj \in Objects /\ t.op \in {"create", "select"} /\ t.then = <<>> /\ t.todo = {}
  BY <1>2, <1>3 DEF PlanOK, Asked, Objects
<1>6. CASE Fault /\ Fails(w) /\ UNCHANGED public
  BY <1>1, <1>2, <1>6, FailKeeps DEF PowerboxInv, PublicOK, RestOK, broker
<1>7. CASE /\ NoFault /\ t.cur = None /\ Publish(t.obj, EventOf(t.obj)) /\ mutation' = None
           /\ Continues(w, [t EXCEPT !.pc = "validate"]) /\ UNCHANGED <<closeSerial, attachSerial>>
  <2>1. PICK u : u = [t EXCEPT !.pc = "validate"]
    OBVIOUS
  <2>2. u \in TaskStates
    BY <1>2, <2>1 DEF TaskStates, Points
  <2>3. /\ u.pc = "validate" /\ u.cur = None /\ u.intent = t.intent /\ u.op = t.op /\ u.then = t.then
        /\ u.todo = t.todo /\ u.obj = t.obj /\ u.key = t.key /\ u.gen = t.gen /\ u.shut = t.shut
        /\ u.barriered = t.barriered /\ u.affected = t.affected
    BY <1>2, <1>7, <2>1 DEF TaskStates
  <2>4. PlanOK(u) /\ RevokeOK(u) /\ Asked(u)
    BY <1>3, <1>5, <1>7, <2>3 DEF PlanOK, RevokeOK, Asked, Closes
  <2>5. WorkOK(u)
    BY <1>2, <1>3, <1>7, <2>3 DEF WorkOK, Closes
  <2>6. Becomes(u)
    BY <2>2, <2>3, <2>4, <2>5 DEF Becomes, Shaped, WritingOK, Writing, ClosingOK, AnswerOK
  <2>7. BootOK(u)'
    BY <1>5, <1>7, <2>3 DEF BootOK
  <2>8. PublicOK'
    BY <1>2, <1>5, <1>7, PublishFacts DEF EventOf, journal
  <2>9. LockStep(w, u)
    BY <1>2, <1>3, <1>7, <2>3 DEF LockStep
  <2> QED
    BY <1>1, <1>2, <1>3, <1>5, <1>7, <2>1, <2>3, <2>6, <2>7, <2>8, <2>9, Moves
<1>8. ASSUME t.cur # None, Publish(t.at, EventOf(t.at))
      PROVE  PublicOK' /\ (t.op = "hydrate" => Unpublished' = {})
  <2>1. t.at \in Objects
    BY <1>4, <1>8 DEF Objects
  <2>2. PublicOK' /\ Unpublished' \subseteq Unpublished \ {<<t.at, "closed">>}
    BY <1>2, <1>4, <1>8, <2>1, PublishFacts DEF journal
  <2>3. t.op = "hydrate" => \A p \in Unpublished : p = <<t.at, "closed">>
    BY <1>2 DEF TaskOK, BootOK
  <2> QED
    BY <2>2, <2>3
<1>9. CASE /\ NoFault /\ t.cur # None /\ t.at = t.cur /\ Publish(t.at, EventOf(t.at))
           /\ mutation' = None /\ Continues(w, JobDone(t)) /\ UNCHANGED <<closeSerial, attachSerial>>
  <2>1. PICK u : u = JobDone(t)
    OBVIOUS
  <2>2. t.op = "revoke" => t.todo \subseteq {t.cur} /\ status[t.obj] \in Terminal
    BY <1>2, <1>4, <1>9 DEF Shaped, RevokeOK, Closes
  <2>3. /\ Becomes(u) /\ u.pc \notin Closes \cup {"running"} /\ u.cur = None
        /\ (u.op = "hydrate") = (t.op = "hydrate")
    BY <1>2, <1>3, <1>4, <1>9, <2>1, <2>2, JobDoneOK
  <2>4. UNCHANGED phase /\ Continues(w, u)
    BY <1>9, <2>1 DEF Continues
  <2>5. closing[t.cur] = None
    BY <1>2, <1>4, <1>9 DEF Durable, JournalOK, Terminal
  <2>6. t.op = "hydrate" =>
          /\ phase' = "booting" /\ Unpublished' = {}
          /\ \A x \in Objects : closing'[x] # None => x \in t.todo \ {t.cur}
          /\ t.then = <<"serve">> =>
               \A e \in Exposures : status'[e] = "open" => e \in t.todo \ {t.cur}
    BY <1>2, <1>4, <1>8, <1>9, <2>4, <2>5 DEF TaskOK, BootOK, journal, Terminal
  <2>7. BootOK(u)'
    BY <1>2, <1>4, <1>9, <2>1, <2>6, JobDoneBoot
  <2>8. LockStep(w, u)
    BY <1>2, <1>3, <1>9, <2>3 DEF LockStep, Closes
  <2> QED
    BY <1>1, <1>2, <1>3, <1>8, <1>9, <2>3, <2>4, <2>7, <2>8, Moves
<1>10. CASE /\ NoFault /\ t.cur # None /\ t.at # t.cur /\ Publish(t.at, EventOf(t.at))
            /\ mutation' = w /\ Continues(w, [t EXCEPT !.pc = "write", !.at = None])
            /\ UNCHANGED <<closeSerial, attachSerial>>
  <2>1. PICK u : u = [t EXCEPT !.pc = "write", !.at = None]
    OBVIOUS
  <2>2. u \in TaskStates
    BY <1>2, <2>1 DEF TaskStates, Points, Closes
  <2>3. /\ u.pc = "write" /\ u.affected = t.affected /\ u.cur = t.cur
        /\ u.intent = t.intent /\ u.op = t.op /\ u.then = t.then /\ u.todo = t.todo
        /\ u.obj = t.obj /\ u.key = t.key /\ u.gen = t.gen /\ u.shut = t.shut
        /\ u.barriered = t.barriered
    BY <1>2, <2>1 DEF TaskStates
  <2>4. Waits(u) /\ Asked(u)
    BY <1>3, <1>4, <1>10, <2>3 DEF Waits, Asked
  <2>5. PlanOK(u) /\ RevokeOK(u)
    BY <1>2, <1>10, <2>3, <2>4 DEF Shaped, PlanOK, RevokeOK, Closes
  <2>6. WorkOK(u)
    BY <1>3, <1>4, <1>10, <2>3, <2>4 DEF WorkOK, Closes
  <2>7. Becomes(u)
    BY <1>2, <1>10, <2>2, <2>3, <2>4, <2>5, <2>6
       DEF Becomes, Shaped, TaskOK, WritingOK, Writing, ClosingOK, AnswerOK
  <2>8. BootOK(u)'
    <3> SUFFICES ASSUME t.op = "hydrate" PROVE BootOK(u)'
      BY <2>3 DEF BootOK
    <3>1. Unpublished' = {} /\ UNCHANGED phase
      BY <1>8, <1>10 DEF Continues
    <3> QED
      BY <1>2, <2>3, <3>1 DEF TaskOK, BootOK, journal
  <2>9. LockStep(w, u)
    BY <1>2, <1>3, <1>10, <2>3 DEF LockStep
  <2> QED
    BY <1>1, <1>2, <1>3, <1>8, <1>10, <2>1, <2>3, <2>7, <2>8, <2>9, Moves
<1> QED
  BY <1>1, <1>3, <1>6, <1>7, <1>9, <1>10 DEF Relay

\* relay_pending_public_events publishes what it finds, or a part of it.
LEMMA PublishAllFacts ==
  ASSUME PublicOK, NEW S, S \subseteq Unpublished, PublishAll(S), UNCHANGED status
  PROVE  PublicOK' /\ (S = Unpublished => Unpublished' = {})
<1>1. public \in [Objects -> [{"opened", "closed"} -> 0..1]]
  BY DEF PublicOK
<1>2. \A o \in Objects : \A e \in {"opened", "closed"} : <<o, e>> \in S => public[o][e] = 0
  BY DEF Unpublished
<1>3. /\ public' \in [Objects -> [{"opened", "closed"} -> 0..1]]
      /\ \A o \in Objects : \A e \in {"opened", "closed"} :
           public'[o][e] = IF <<o, e>> \in S THEN public[o][e] + 1 ELSE public[o][e]
  BY <1>1, <1>2 DEF PublishAll
<1>4. ASSUME S = Unpublished, NEW p \in Unpublished' PROVE FALSE
  <2>1. /\ p \in Objects \X {"opened", "closed"} /\ status[p[1]] # "none"
        /\ public'[p[1]][p[2]] = 0 /\ (p[2] = "closed" => status[p[1]] \in Terminal)
    BY <1>4 DEF Unpublished
  <2>2. PICK o \in Objects, e \in {"opened", "closed"} : p = <<o, e>>
    BY <2>1
  <2>3. public'[o][e] = 0 /\ public[o][e] \in 0..1
    BY <1>1, <2>1, <2>2
  <2>4. \/ <<o, e>> \in S /\ public'[o][e] = public[o][e] + 1
        \/ <<o, e>> \notin S /\ public'[o][e] = public[o][e]
    BY <1>3
  <2>5. <<o, e>> \notin S /\ public[o][e] = 0
    BY <2>3, <2>4
  <2> QED
    BY <1>4, <2>1, <2>2, <2>5 DEF Unpublished
<1> QED
  BY <1>3, <1>4 DEF PublicOK

LEMMA RelayPendingKeeps ==
  ASSUME PowerboxInv, NEW w \in Workers, NEW t \in TaskStates, RelayPending(w, t), Asked(t),
         t.cur = None, t.intent = None, t.barriered = {}, t.shut = 0,
         \/ t.op \in {"create", "select", "revoke"} /\ t.then = <<>> /\ t.todo = {}
         \/ t.op = "hydrate" /\ t = task[w] /\ t.then = <<"sweep", "reconcile", "serve">>,
         task[w].pc # "settle", task[w].pc # "idle" \/ phase = "up",
         (t.op = "hydrate") = (task[w].op = "hydrate")
  PROVE  PowerboxInv'
<1>1. /\ PublicOK /\ UNCHANGED <<journal, broker, expired>> /\ UNCHANGED status
      /\ {mutation, closeSerial, attachSerial} \subseteq Workers \cup {None}
  BY DEF PowerboxInv, RelayPending, journal, RestOK
<1>2. CASE Fault /\ (\E S \in SUBSET Unpublished : PublishAll(S)) /\ Fails(w)
  <2>1. PublicOK'
    BY <1>1, <1>2, PublishAllFacts
  <2> QED
    BY <1>1, <1>2, <2>1, FailKeeps DEF PowerboxInv, RestOK, broker
<1>3. ASSUME NoFault, PublishAll(Unpublished), UNCHANGED locks, NEW u, Continues(w, u), Becomes(u),
             BootOK(u)', u.pc \notin Closes \cup {"running"},
             (u.op = "hydrate") = (task[w].op = "hydrate")
      PROVE  PowerboxInv'
  <2>1. PublicOK'
    BY <1>1, <1>3, PublishAllFacts
  <2>2. LockStep(w, u) /\ {mutation', closeSerial', attachSerial'} \subseteq Workers \cup {None}
    BY <1>1, <1>3 DEF LockStep, locks, Closes
  <2> QED
    BY <1>1, <1>3, <2>1, <2>2, Moves
<1>4. CASE /\ t.op = "hydrate" /\ NoFault /\ PublishAll(Unpublished) /\ Continues(w, Proceed(t))
           /\ UNCHANGED locks
  <2>1. PICK u : u = Proceed(t)
    OBVIOUS
  <2>2. Waits(t)
    BY <1>4 DEF Waits, Boots
  <2>3. /\ Becomes(u) /\ u.pc \notin Closes \cup {"running"} /\ u.cur = None
        /\ (u.op = "hydrate") = (t.op = "hydrate")
    BY <1>4, <2>1, <2>2, ProceedOK
  <2>4. BootLeft(t)'
    <3>1. BootOK(t) /\ UNCHANGED phase /\ t.then # <<"serve">>
      BY <1>4, PlansDiffer DEF PowerboxInv, TasksOK, TaskOK, Continues
    <3>2. Unpublished' = {}
      BY <1>1, <1>4, PublishAllFacts
    <3> QED
      BY <1>1, <3>1, <3>2 DEF BootOK, BootLeft, journal
  <2>5. BootOK(u)'
    BY <2>1, <2>2, <2>4, ProceedBoot
  <2> QED
    BY <1>3, <1>4, <2>1, <2>3, <2>5
<1>5. CASE /\ t.op # "hydrate" /\ NoFault /\ PublishAll(Unpublished)
           /\ Continues(w, [t EXCEPT !.pc = "apply"]) /\ UNCHANGED locks
  <2>1. PICK u : u = [t EXCEPT !.pc = "apply"]
    OBVIOUS
  <2>2. u \in TaskStates
    BY <2>1 DEF TaskStates, Points
  <2>3. /\ u.pc = "apply" /\ u.cur = None /\ u.intent = None /\ u.op = t.op /\ u.then = t.then
        /\ u.todo = t.todo /\ u.obj = t.obj /\ u.key = t.key /\ u.gen = t.gen /\ u.shut = 0
        /\ u.barriered = {}
    BY <2>1 DEF TaskStates
  <2>4. PlanOK(u) /\ RevokeOK(u) /\ Asked(u)
    BY <1>5, <2>3 DEF PlanOK, RevokeOK, Asked, Closes
  <2>5. WorkOK(u)
    BY <2>3, PowerboxAssumption DEF WorkOK, Closes
  <2>6. Becomes(u) /\ BootOK(u)'
    BY <1>5, <2>2, <2>3, <2>4, <2>5
       DEF Becomes, Shaped, WritingOK, Writing, ClosingOK, AnswerOK, BootOK
  <2> QED
    BY <1>3, <1>5, <2>1, <2>3, <2>6 DEF Closes
<1> QED
  BY <1>2, <1>4, <1>5 DEF RelayPending

\* A task outside a closing.
LEMMA RestFacts ==
  ASSUME NEW t, Shaped(t), t.pc \notin Closes
  PROVE  /\ t \in TaskStates /\ t.cur = None /\ t.intent = None /\ t.barriered = {}
         /\ Asked(t) /\ PlanOK(t)
BY DEF Shaped, WorkOK

LEMMA CatchUpKeeps ==
  ASSUME PowerboxInv, NEW w \in Workers, CatchUp(w)
  PROVE  PowerboxInv'
<1>1. PICK t : t = task[w]
  OBVIOUS
<1>2. t.pc = "relayAll" /\ Shaped(t) /\ RelayPending(w, t)
  BY <1>1 DEF CatchUp, At, PowerboxInv, TasksOK, TaskOK
<1>3. /\ t \in TaskStates /\ t.cur = None /\ t.intent = None /\ t.barriered = {}
      /\ Asked(t) /\ PlanOK(t)
  BY <1>2, RestFacts DEF Closes
<1>4. \/ t.op \in {"create", "select", "revoke"} /\ t.then = <<>> /\ t.todo = {}
      \/ t.op = "hydrate" /\ t = task[w] /\ t.then = <<"sweep", "reconcile", "serve">>
  BY <1>1, <1>2, <1>3 DEF PlanOK
<1>5. t.shut = 0
  BY <1>2, <1>4 DEF Shaped, WorkOK
<1> QED
  BY <1>1, <1>2, <1>3, <1>4, <1>5, RelayPendingKeeps

LEMMA ReadyIdle ==
  ASSUME PowerboxInv, NEW w \in Workers, Ready(w)
  PROVE  /\ phase = "up" /\ task[w].pc = "idle" /\ task[w] = IdleTask /\ task[w].op = "none"
         /\ task[w].pc # "settle"
BY IdleFacts DEF Ready, At, PowerboxInv, TasksOK, TaskOK, Shaped, PlanOK

LEMMA StartCreateKeeps ==
  ASSUME PowerboxInv, NEW w \in Workers, NEW e \in Exposures, StartCreate(w, e)
  PROVE  PowerboxInv'
<1>1. PICK t : t = [IdleTask EXCEPT !.op = "create", !.obj = e]
  OBVIOUS
<1>2. t \in TaskStates
  BY <1>1, IdleFacts DEF TaskStates, Ops, Objects
<1>3. /\ t.op = "create" /\ t.obj = e /\ t.key = None /\ t.cur = None
      /\ t.intent = None /\ t.barriered = {} /\ t.shut = 0 /\ t.then = <<>> /\ t.todo = {}
  BY <1>1, IdleFacts DEF TaskStates
<1>4. Ready(w) /\ RelayPending(w, t)
  BY <1>1 DEF StartCreate
<1>5. Asked(t)
  BY <1>3 DEF Asked
<1> QED
  BY <1>2, <1>3, <1>4, <1>5, ReadyIdle, RelayPendingKeeps

LEMMA StartRevokeKeeps ==
  ASSUME PowerboxInv, NEW w \in Workers, NEW k \in Keys, NEW o \in Objects, StartRevoke(w, k, o)
  PROVE  PowerboxInv'
<1>1. PICK t : t = [IdleTask EXCEPT !.op = "revoke", !.key = k, !.obj = o]
  OBVIOUS
<1>2. t \in TaskStates
  BY <1>1, IdleFacts DEF TaskStates, Ops
<1>3. /\ t.op = "revoke" /\ t.obj = o /\ t.key = k /\ t.cur = None
      /\ t.intent = None /\ t.barriered = {} /\ t.shut = 0 /\ t.then = <<>> /\ t.todo = {}
  BY <1>1, IdleFacts DEF TaskStates
<1>4. Ready(w) /\ RelayPending(w, t)
  BY <1>1 DEF StartRevoke
<1>5. Asked(t)
  BY <1>3 DEF Asked
<1> QED
  BY <1>2, <1>3, <1>4, <1>5, ReadyIdle, RelayPendingKeeps

-----------------------------------------------------------------------------
(* Requests that sweep first, and background tasks.                        *)

LEMMA StartSelectKeeps ==
  ASSUME PowerboxInv, NEW w \in Workers, NEW b \in Bindings, NEW e \in Exposures,
         StartSelect(w, b, e)
  PROVE  PowerboxInv'
<1>1. PICK t : t = [IdleTask EXCEPT !.op = "select", !.obj = b, !.key = e, !.then = <<"relayAll">>]
  OBVIOUS
<1>2. t \in TaskStates
  BY <1>1, IdleFacts DEF TaskStates, Ops, Objects, Plans
<1>3. /\ t.op = "select" /\ t.obj = b /\ t.key = e /\ t.then = <<"relayAll">> /\ t.cur = None
      /\ t.intent = None /\ t.barriered = {} /\ t.shut = 0
  BY <1>1, IdleFacts DEF TaskStates
<1>4. Ready(w) /\ SweepExpired(w, t)
  BY <1>1 DEF StartSelect
<1>5. Asked(t) /\ Waits(t)
  BY <1>3 DEF Asked, Waits
<1> QED
  BY <1>2, <1>3, <1>4, <1>5, ReadyIdle, SweepKeeps

LEMMA StartSweepKeeps ==
  ASSUME PowerboxInv, NEW w \in Workers, StartSweep(w)
  PROVE  PowerboxInv'
<1>1. PICK t : t = [IdleTask EXCEPT !.op = "sweep"]
  OBVIOUS
<1>2. t \in TaskStates
  BY <1>1, IdleFacts DEF TaskStates, Ops
<1>3. /\ t.op = "sweep" /\ t.then = <<>> /\ t.cur = None /\ t.intent = None /\ t.barriered = {}
      /\ t.shut = 0
  BY <1>1, IdleFacts DEF TaskStates
<1>4. Ready(w) /\ SweepExpired(w, t)
  BY <1>1 DEF StartSweep
<1>5. Asked(t) /\ Waits(t)
  BY <1>3 DEF Asked, Waits
<1> QED
  BY <1>2, <1>3, <1>4, <1>5, ReadyIdle, SweepKeeps

LEMMA StartAttachKeeps ==
  ASSUME PowerboxInv, NEW w \in Workers, NEW b \in Bindings, StartAttach(w, b)
  PROVE  PowerboxInv'
<1>1. PICK t : t = [IdleTask EXCEPT !.op = "attach", !.obj = b, !.then = <<"attach">>]
  OBVIOUS
<1>2. t \in TaskStates
  BY <1>1, IdleFacts DEF TaskStates, Ops, Objects, Plans
<1>3. /\ t.op = "attach" /\ t.obj = b /\ t.then = <<"attach">> /\ t.cur = None /\ t.intent = None
      /\ t.barriered = {} /\ t.shut = 0
  BY <1>1, IdleFacts DEF TaskStates
<1>4. Ready(w) /\ SweepExpired(w, t)
  BY <1>1 DEF StartAttach
<1>5. Asked(t) /\ Waits(t)
  BY <1>3 DEF Asked, Waits
<1> QED
  BY <1>2, <1>3, <1>4, <1>5, ReadyIdle, SweepKeeps

\* A task that turns to the barrier alone.
LEMMA BarrierOnlyBecomes ==
  ASSUME NEW b \in Bindings, NEW g \in 0..MaxGenerations, NEW u, u = BarrierOnly(b, g)
  PROVE  /\ Becomes(u) /\ BootOK(u) /\ BootOK(u)' /\ u.pc = "barrier" /\ u.op = "close"
<1>1. Shaped(u) /\ u.pc = "barrier" /\ u.op = "close" /\ u.cur = None
  BY BarrierOnlyFacts
<1> QED
  BY <1>1 DEF Becomes, WritingOK, Writing, ClosingOK, AnswerOK, BootOK

LEMMA IdleBecomes ==
  Becomes(IdleTask) /\ BootOK(IdleTask) /\ BootOK(IdleTask)'
BY IdleFacts DEF Becomes, WritingOK, Writing, ClosingOK, AnswerOK, BootOK

LEMMA StartCloseKeeps ==
  ASSUME PowerboxInv, NEW w \in Workers, NEW b \in Bindings, StartClose(w, b)
  PROVE  PowerboxInv'
<1>1. PICK u : u = BarrierOnly(b, generation[b])
  OBVIOUS
<1>2. generation[b] \in 0..MaxGenerations
  BY DEF PowerboxInv, RestOK
<1>3. Becomes(u) /\ BootOK(u) /\ u.pc = "barrier" /\ u.op = "close"
  BY <1>1, <1>2, BarrierOnlyBecomes
<1>4. /\ Ready(w) /\ Continues(w, u) /\ NoFault
      /\ UNCHANGED <<journal, public, locks, broker, expired>>
  BY <1>1 DEF StartClose, Continues, NoFault
<1> QED
  BY <1>3, <1>4, ReadyIdle, QuietMove

LEMMA StartInvokeKeeps ==
  ASSUME PowerboxInv, NEW w \in Workers, NEW b \in Bindings, StartInvoke(w, b)
  PROVE  PowerboxInv'
<1>1. generation[b] \in 0..MaxGenerations /\ generation[b] # 0 /\ Ready(w)
  BY DEF PowerboxInv, RestOK, StartInvoke
<1>2. CASE b \in expired
  <2>1. PICK u : u = BarrierOnly(b, 0)
    OBVIOUS
  <2>2. Becomes(u) /\ BootOK(u) /\ u.pc = "barrier" /\ u.op = "close"
    BY <2>1, BarrierOnlyBecomes, PowerboxAssumption
  <2>3. /\ Continues(w, u) /\ NoFault
        /\ UNCHANGED <<journal, public, locks, broker, expired>>
    BY <1>2, <2>1 DEF StartInvoke, Continues, NoFault
  <2> QED
    BY <1>1, <2>2, <2>3, ReadyIdle, QuietMove
<1>3. CASE b \notin expired
  <2>1. PICK t : t = [IdleTask EXCEPT !.op = "invoke", !.obj = b, !.gen = generation[b],
                                      !.then = <<"permit">>]
    OBVIOUS
  <2>2. t \in TaskStates
    BY <1>1, <2>1, IdleFacts DEF TaskStates, Ops, Objects, Plans
  <2>3. /\ t.op = "invoke" /\ t.obj = b /\ t.then = <<"permit">> /\ t.cur = None
        /\ t.intent = None /\ t.barriered = {} /\ t.shut = 0 /\ t.gen = generation[b]
    BY <2>1, IdleFacts DEF TaskStates
  <2>4. SweepExpired(w, t)
    BY <1>3, <2>1 DEF StartInvoke
  <2>5. Asked(t) /\ Waits(t)
    BY <1>1, <2>3 DEF Asked, Waits
  <2> QED
    BY <1>1, <2>2, <2>3, <2>4, <2>5, ReadyIdle, SweepKeeps
<1> QED
  BY <1>2, <1>3

LEMMA StartInvalidateKeeps ==
  ASSUME PowerboxInv, NEW w \in Workers, NEW S \in SUBSET Opened, StartInvalidate(w, S)
  PROVE  PowerboxInv'
<1>1. PICK u : u = [IdleTask EXCEPT !.op = "invalidate", !.todo = S, !.pc = "begin"]
  OBVIOUS
<1>2. u \in TaskStates
  BY <1>1, IdleFacts DEF TaskStates, Ops, Points, Opened
<1>3. /\ u.op = "invalidate" /\ u.pc = "begin" /\ u.then = <<>> /\ u.cur = None
      /\ u.intent = None /\ u.barriered = {} /\ u.shut = 0
  BY <1>1, IdleFacts DEF TaskStates
<1>4. Asked(u) /\ Waits(u)
  BY <1>3 DEF Asked, Waits
<1>5. PlanOK(u) /\ RevokeOK(u)
  BY <1>3, <1>4 DEF PlanOK, RevokeOK, Closes
<1>6. WorkOK(u)
  BY <1>3, PowerboxAssumption DEF WorkOK, Closes
<1>7. Becomes(u) /\ BootOK(u)
  BY <1>2, <1>3, <1>4, <1>5, <1>6
     DEF Becomes, Shaped, WritingOK, Writing, ClosingOK, AnswerOK, BootOK
<1>8. /\ Ready(w) /\ Continues(w, u) /\ NoFault
      /\ UNCHANGED <<journal, public, locks, broker, expired>>
  BY <1>1 DEF StartInvalidate, Continues, NoFault
<1> QED
  BY <1>3, <1>7, <1>8, ReadyIdle, QuietMove

LEMMA SweepStepKeeps ==
  ASSUME PowerboxInv, NEW w \in Workers, Sweep(w)
  PROVE  PowerboxInv'
<1>1. PICK t : t = task[w]
  OBVIOUS
<1>2. t.pc = "sweep" /\ Shaped(t) /\ SweepExpired(w, t) /\ BootOK(t)
  BY <1>1 DEF Sweep, At, PowerboxInv, TasksOK, TaskOK
<1>3. /\ t \in TaskStates /\ t.cur = None /\ t.intent = None /\ t.barriered = {}
      /\ Asked(t) /\ PlanOK(t)
  BY <1>2, RestFacts DEF Closes
<1>4. /\ \/ t.op = "attach" /\ t.then = <<"mint">>
         \/ t.op = "hydrate" /\ t.then = <<"reconcile", "serve">>
      /\ t.todo = {} /\ t.shut = 0
  BY <1>2, <1>3 DEF PlanOK, Closes, Shaped, WorkOK
<1>5. Waits(t)
  BY <1>4 DEF Waits, Boots
<1>6. t.op = "hydrate" => /\ phase = "booting" /\ Unpublished = {} /\ t.then # <<"serve">>
                          /\ \A o \in Objects : closing[o] = None
  BY <1>2, <1>4, PlansDiffer DEF BootOK
<1> QED
  BY <1>1, <1>2, <1>3, <1>4, <1>5, <1>6, SweepKeeps

LEMMA AnswerKeeps ==
  ASSUME PowerboxInv, NEW w \in Workers, Answer(w) \/ Finish(w)
  PROVE  PowerboxInv'
<1>1. /\ task[w].pc \in {"answer", "running"} /\ Continues(w, IdleTask) /\ NoFault
      /\ UNCHANGED <<journal, public, locks, broker, expired>>
  BY DEF Answer, Finish, At, NoFault
<1>2. task[w].op # "hydrate"
  BY <1>1 DEF PowerboxInv, TasksOK, TaskOK, Shaped, PlanOK
<1> QED
  BY <1>1, <1>2, IdleFacts, IdleBecomes, QuietMove

-----------------------------------------------------------------------------
(* Mutations under an idempotency key.                                     *)

LEMMA ApplyFacts ==
  ASSUME PowerboxInv, NEW w \in Workers, NEW t, t = task[w], t.pc = "apply"
  PROVE  /\ t \in TaskStates /\ Shaped(t) /\ t.cur = None /\ t.intent = None /\ t.barriered = {}
         /\ Asked(t) /\ t.op \in {"create", "select", "revoke"} /\ t.then = <<>> /\ t.todo = {}
         /\ t.shut = 0 /\ t.obj \in Objects /\ t.obj # None
<1>1. Shaped(t)
  BY DEF PowerboxInv, TasksOK, TaskOK
<1>2. /\ t \in TaskStates /\ t.cur = None /\ t.intent = None /\ t.barriered = {}
      /\ Asked(t) /\ PlanOK(t)
  BY <1>1, RestFacts DEF Closes
<1>3. t.op \in {"create", "select", "revoke"} /\ t.then = <<>> /\ t.todo = {}
  BY <1>2 DEF PlanOK, Closes
<1>4. t.shut = 0
  BY <1>1, <1>3 DEF Shaped, WorkOK
<1>5. t.obj \in Objects
  BY <1>2, <1>3 DEF Asked, Objects
<1> QED
  BY <1>1, <1>2, <1>3, <1>4, <1>5, PowerboxAssumption DEF Objects

LEMMA AnsweringFacts ==
  ASSUME NEW t \in TaskStates, t.op \in {"create", "select", "revoke"}, t.then = <<>>, Asked(t),
         NEW a, a = Answering(t)
  PROVE  /\ a \in TaskStates /\ a.op = t.op /\ a.obj = t.obj /\ a.todo = t.todo /\ a.cur = t.cur
         /\ a.intent = t.intent /\ a.barriered = t.barriered /\ a.shut = t.shut
         /\ Asked(a) /\ Waits(a)
<1>1. CASE t.op = "revoke"
  <2>1. a = [t EXCEPT !.then = <<"answer">>]
    BY <1>1 DEF Answering
  <2>2. a \in TaskStates
    BY <2>1 DEF TaskStates, Plans
  <2>3. /\ a.op = t.op /\ a.obj = t.obj /\ a.todo = t.todo /\ a.cur = t.cur /\ a.key = t.key
        /\ a.intent = t.intent /\ a.barriered = t.barriered /\ a.shut = t.shut /\ a.gen = t.gen
        /\ a.then = <<"answer">>
    BY <2>1 DEF TaskStates
  <2> QED
    BY <1>1, <2>2, <2>3 DEF Asked, Waits
<1>2. CASE t.op # "revoke"
  BY <1>2 DEF Answering, Waits
<1> QED
  BY <1>1, <1>2

LEMMA ListFacts ==
  ASSUME NEW a \in TaskStates, Asked(a), Waits(a), NEW S \in SUBSET Objects,
         NEW s, s = [a EXCEPT !.todo = S]
  PROVE  /\ s \in TaskStates /\ s.op = a.op /\ s.obj = a.obj /\ s.todo = S /\ s.cur = a.cur
         /\ s.intent = a.intent /\ s.barriered = a.barriered /\ s.shut = a.shut
         /\ s.then = a.then /\ Asked(s) /\ Waits(s)
<1>1. s \in TaskStates
  BY DEF TaskStates
<1>2. /\ s.op = a.op /\ s.obj = a.obj /\ s.todo = S /\ s.cur = a.cur /\ s.key = a.key
      /\ s.intent = a.intent /\ s.barriered = a.barriered /\ s.shut = a.shut /\ s.gen = a.gen
      /\ s.then = a.then
  BY DEF TaskStates
<1> QED
  BY <1>1, <1>2 DEF Asked, Waits

LEMMA RepeatKeeps ==
  ASSUME PowerboxInv, NEW w \in Workers, At(w, "apply"), Repeated(task[w]), NoFault, Repeat(w),
         UNCHANGED <<journal, public, broker, expired>>
  PROVE  PowerboxInv'
<1>1. PICK t : t = task[w]
  OBVIOUS
<1>2. /\ t \in TaskStates /\ Shaped(t) /\ t.cur = None /\ t.intent = None /\ t.barriered = {}
      /\ Asked(t) /\ t.op \in {"create", "select", "revoke"} /\ t.then = <<>> /\ t.todo = {}
      /\ t.shut = 0 /\ t.obj \in Objects /\ t.obj # None /\ t.pc = "apply"
  BY <1>1, ApplyFacts DEF At
<1>3. PICK a : a = Answering(t)
  OBVIOUS
<1>4. /\ a \in TaskStates /\ a.op = t.op /\ a.obj = t.obj /\ a.todo = t.todo /\ a.cur = t.cur
      /\ a.intent = t.intent /\ a.barriered = t.barriered /\ a.shut = t.shut
      /\ Asked(a) /\ Waits(a)
  BY <1>2, <1>3, AnsweringFacts
<1>5. PICK o : o = PendingFor(t)
  OBVIOUS
<1>6. CASE Fails(w)
  BY <1>1, <1>2, <1>6, FailKeeps DEF PowerboxInv, PublicOK, RestOK, broker
<1>7. CASE SameRequest(t) /\ o = None /\ Continues(w, Proceed(a)) /\ UNCHANGED locks
  <2>1. PICK u : u = Proceed(a)
    OBVIOUS
  <2>2. t.op = "revoke" => status[t.obj] \in Terminal
    <3> SUFFICES ASSUME t.op = "revoke" PROVE status[t.obj] \in Terminal
      OBVIOUS
    <3>1. claims[t.key] = t.obj /\ t.key \in Keys
      BY <1>2, <1>7 DEF SameRequest, Asked
    <3>2. closing[t.obj] = None
      BY <1>2, <1>5, <1>7 DEF PendingFor
    <3> QED
      BY <1>2, <3>1, <3>2 DEF PowerboxInv, Durable, JournalOK
  <2>3. /\ Becomes(u) /\ u.pc \notin Closes \cup {"running"} /\ u.cur = None
        /\ (u.op = "hydrate") = (a.op = "hydrate")
    BY <1>2, <1>4, <2>1, <2>2, ProceedOK
  <2>4. BootOK(u)
    BY <1>2, <1>4, <2>3 DEF BootOK
  <2> QED
    BY <1>1, <1>2, <1>4, <1>7, <2>1, <2>3, <2>4, QuietMove DEF Closes
<1>8. CASE /\ SameRequest(t) /\ o # None
           /\ Continues(w, Complete([a EXCEPT !.todo = {o}], o, closing[o])) /\ UNCHANGED locks
  <2>1. o \in Objects /\ closing[o] # None /\ (t.op = "revoke" => o = t.obj)
    <3>1. t.op = "create" => FALSE
      BY <1>5, <1>8 DEF PendingFor
    <3>2. t.op = "revoke" => o = t.obj /\ closing[o] # None
      BY <1>5, <1>8 DEF PendingFor
    <3>3. t.op = "select" => o \in {t.obj, of[t.obj]} /\ closing[o] # None
      BY <1>5, <1>8 DEF PendingFor
    <3>4. t.op = "select" => of[t.obj] \in Objects
      BY <1>1, <1>2 DEF Repeated, Asked, PowerboxInv, Durable, StatusOK, JournalOK, Objects
    <3> QED
      BY <1>2, <3>1, <3>2, <3>3, <3>4
  <2>2. PICK s : s = [a EXCEPT !.todo = {o}]
    OBVIOUS
  <2>3. {o} \in SUBSET Objects
    BY <2>1
  <2>4. /\ s \in TaskStates /\ s.op = a.op /\ s.obj = a.obj /\ s.todo = {o} /\ s.shut = a.shut
        /\ Asked(s) /\ Waits(s)
    BY <1>4, <2>2, <2>3, ListFacts, SMTT(60)
  <2>5. s.op = "revoke" => o = s.obj /\ s.todo \subseteq {s.obj}
    BY <1>4, <2>1, <2>4
  <2>6. Continues(w, Complete(s, o, closing[o])) /\ s.op # "hydrate" /\ task[w].op # "hydrate"
    BY <1>1, <1>2, <1>4, <1>8, <2>2, <2>4
  <2> QED
    BY <1>1, <1>2, <1>4, <1>8, <2>1, <2>4, <2>5, <2>6, CompleteKeeps
<1> QED
  BY <1>1, <1>3, <1>5, <1>6, <1>7, <1>8 DEF Repeat

LEMMA OpenKeeps ==
  ASSUME PowerboxInv, NEW w \in Workers, NEW t, t = task[w], t.pc = "apply", Open(w, t),
         mutation = None, status[t.obj] = "none", t.op \in {"create", "select"},
         t.op = "select" => Admissible(t.key), UNCHANGED <<public, broker, expired>>
  PROVE  PowerboxInv'
<1>1. /\ t \in TaskStates /\ Shaped(t) /\ t.cur = None /\ t.intent = None /\ t.barriered = {}
      /\ Asked(t) /\ t.then = <<>> /\ t.todo = {}
      /\ t.shut = 0 /\ t.obj \in Objects
  BY ApplyFacts
<1>2. Exposures \cap Bindings = {} /\ w # None /\ Durable
  BY PowerboxAssumption DEF PowerboxInv
<1>3. /\ t.obj \in Exposures => t.key = None
      /\ t.obj \in Bindings => t.key \in Exposures /\ status[t.key] = "open" /\ HasCapacity
  BY <1>1, <1>2 DEF Asked, Admissible
<1>4. ASSUME AppendOpened(t.obj, t.key)
      PROVE  /\ Durable' /\ Grows /\ JournalStep(w)
             /\ \A b \in Bindings : status'[b] \in Terminal => Silent(b) /\ ~Current(b)
  <2>1. /\ Durable' /\ Grows /\ UNCHANGED <<closing, claims, poisoned>> /\ status'[t.obj] = "open"
        /\ \A x \in Objects \ {t.obj} : status'[x] = status[x] /\ of'[x] = of[x]
    BY <1>1, <1>2, <1>3, <1>4, OpenedAppended
  <2>2. \A b \in Bindings : status'[b] \in Terminal => status[b] \in Terminal
    BY <2>1 DEF Objects, Terminal
  <2> QED
    BY <2>1, <2>2, TerminalSilent DEF JournalStep
<1>5. CASE UNCHANGED journal /\ Fault /\ Fails(w)
  BY <1>5, FailKeeps DEF PowerboxInv, PublicOK, RestOK, broker
<1>6. CASE AppendOpened(t.obj, t.key) /\ Fault /\ Fails(w)
  BY <1>4, <1>6, FailAppends
<1>7. CASE /\ NoFault /\ AppendOpened(t.obj, t.key) /\ mutation' = w
           /\ Continues(w, [t EXCEPT !.pc = "relay"]) /\ UNCHANGED <<closeSerial, attachSerial>>
  <2>1. PICK u : u = [t EXCEPT !.pc = "relay"]
    OBVIOUS
  <2>2. u \in TaskStates
    BY <1>1, <2>1 DEF TaskStates, Points, Closes
  <2>3. /\ u.pc = "relay" /\ u.cur = None /\ u.intent = None /\ u.op = t.op /\ u.then = t.then
        /\ u.todo = t.todo /\ u.obj = t.obj /\ u.key = t.key /\ u.gen = t.gen /\ u.shut = 0
        /\ u.barriered = {}
    BY <1>1, <2>1 DEF TaskStates
  <2>4. PlanOK(u) /\ RevokeOK(u) /\ Asked(u)
    BY <1>1, <2>3 DEF PlanOK, RevokeOK, Asked, Closes
  <2>5. WorkOK(u)
    BY <2>3, PowerboxAssumption DEF WorkOK, Closes
  <2>6. Shaped(u) /\ TaskOK(u)'
    BY <2>2, <2>3, <2>4, <2>5
       DEF TaskOK, Shaped, WritingOK, Writing, ClosingOK, AnswerOK, BootOK, PlanOK, WorkOK, Asked,
           RevokeOK, Waits
  <2>7. UNCHANGED <<phase, generation>> /\ SetTask(w, u)
    BY <1>7, <2>1 DEF Continues, broker
  <2>8. GenerationStep(w, u)
    BY <2>3, <2>7 DEF GenerationStep
  <2>9. LockStep(w, u) /\ PhaseStep(w, u)
    BY <1>1, <1>2, <1>7, <2>3, <2>7, PowerboxAssumption DEF LockStep, PhaseStep
  <2>10. Steps(w, u)
    BY <1>4, <1>7, <2>6, <2>7, <2>8, <2>9 DEF Steps
  <2>11. RestOK' /\ PublicOK'
    BY <1>7, <2>7 DEF PowerboxInv, RestOK, PublicOK, NoFault, broker
  <2> QED
    BY <1>4, <1>7, <2>6, <2>10, <2>11, GeneralStep
<1> QED
  BY <1>5, <1>6, <1>7 DEF Open

LEMMA RevokeKeeps ==
  ASSUME PowerboxInv, NEW w \in Workers, NEW t, t = task[w], t.pc = "apply", Revoke(w, t),
         mutation = None, status[t.obj] = "open", t.op = "revoke",
         UNCHANGED <<public, broker, expired>>
  PROVE  PowerboxInv'
<1>1. /\ t \in TaskStates /\ Shaped(t) /\ t.cur = None /\ t.intent = None /\ t.barriered = {}
      /\ Asked(t) /\ t.then = <<>> /\ t.todo = {}
      /\ t.shut = 0 /\ t.obj \in Objects /\ Durable
  BY ApplyFacts DEF PowerboxInv
<1>2. PICK i : i = RevokeIntent(t)
  OBVIOUS
<1>3. i \in Intents /\ (t.obj \in Exposures => \A b \in i.affected : of[b] = t.obj)
  <2>1. t.key \in Keys \cup {None} /\ "revoked" \in Terminal
    BY <1>1 DEF Asked, Terminal
  <2>2. PICK s \in Terminal, o \in Objects, k \in Keys \cup {None} :
          s = "revoked" /\ o = t.obj /\ k = t.key
    BY <1>1, <2>1
  <2>3. i = [status |-> s, claim |-> k,
             affected |-> IF o \in Bindings THEN {} ELSE Selected(o)]
    BY <1>2, <2>2 DEF RevokeIntent
  <2>4. i \in Intents /\ (o \in Exposures => \A b \in i.affected : of[b] = o)
    BY <1>1, <2>3, SelectedNamed
  <2> QED
    BY <2>2, <2>4
<1>4. CASE NoFault /\ Poison(w)
  <2>1. Durable' /\ Grows /\ UNCHANGED status
    BY <1>1, <1>4
       DEF Poison, Durable, StatusOK, JournalOK, SelectedIsServed, Grows, Terminal
  <2>2. JournalStep(w)
    BY <2>1 DEF JournalStep
  <2> QED
    BY <1>4, <2>1, <2>2, TerminalSilent, FailAppends DEF Poison
<1>5. CASE UNCHANGED journal /\ Fault /\ Fails(w)
  BY <1>5, FailKeeps DEF PowerboxInv, PublicOK, RestOK, broker
<1>6. CASE closing[t.obj] \in {None, i} /\ AppendIntent(t.obj, i) /\ Fault /\ Fails(w)
  <2>1. Durable' /\ Grows /\ UNCHANGED status
    BY <1>1, <1>3, <1>6, IntentAppended
  <2> QED
    BY <1>6, <2>1, TerminalSilent, FailAppends DEF JournalStep
<1>7. CASE /\ closing[t.obj] \in {None, i} /\ NoFault /\ AppendIntent(t.obj, i)
           /\ Continues(w, Complete([Answering(t) EXCEPT !.todo = {t.obj}], t.obj, i))
           /\ UNCHANGED locks
  <2>1. PICK a : a = Answering(t)
    OBVIOUS
  <2>2. a \in TaskStates /\ a.op = t.op /\ a.obj = t.obj /\ a.shut = t.shut /\ Asked(a) /\ Waits(a)
    BY <1>1, <2>1, AnsweringFacts
  <2>3. PICK s : s = [a EXCEPT !.todo = {t.obj}]
    OBVIOUS
  <2>4. {t.obj} \in SUBSET Objects
    BY <1>1
  <2>5. /\ s \in TaskStates /\ s.op = a.op /\ s.obj = a.obj /\ s.todo = {t.obj} /\ s.shut = a.shut
        /\ Asked(s) /\ Waits(s)
    BY <2>2, <2>3, <2>4, ListFacts, SMTT(60)
  <2>6. Continues(w, Complete(s, t.obj, i)) /\ s.op = "revoke"
    BY <1>7, <2>1, <2>2, <2>3, <2>5
  <2> QED
    BY <1>1, <1>3, <1>7, <2>2, <2>5, <2>6, CompleteAppended
<1> QED
  BY <1>2, <1>4, <1>5, <1>6, <1>7 DEF Revoke

LEMMA ApplyKeeps ==
  ASSUME PowerboxInv, NEW w \in Workers, Apply(w)
  PROVE  PowerboxInv'
<1>1. PICK t : t = task[w]
  OBVIOUS
<1>2. t.pc = "apply" /\ mutation = None /\ UNCHANGED <<public, broker, expired>>
  BY <1>1 DEF Apply, At
<1>3. CASE NoFault /\ Fails(w) /\ UNCHANGED journal
  BY <1>1, <1>2, <1>3, FailKeeps DEF PowerboxInv, PublicOK, RestOK, broker
<1>4. CASE Repeated(t) /\ NoFault /\ Repeat(w) /\ UNCHANGED journal
  BY <1>1, <1>2, <1>4, RepeatKeeps DEF At
<1>5. CASE /\ ~Repeated(t) /\ Open(w, t)
           /\ (t.op = "create" \/ (t.op = "select" /\ Admissible(t.key)))
  <2>1. status[t.obj] = "none"
    BY <1>5 DEF Repeated
  <2> QED
    BY <1>1, <1>2, <1>5, <2>1, OpenKeeps
<1>6. CASE t.op = "revoke" /\ status[t.obj] = "open" /\ Revoke(w, t)
  BY <1>1, <1>2, <1>6, RevokeKeeps
<1> QED
  BY <1>1, <1>3, <1>4, <1>5, <1>6 DEF Apply

\* A task that finds something to close.
LEMMA BeginTask ==
  ASSUME NEW t \in TaskStates, Waits(t), Asked(t), t.cur = None, t.intent = None,
         t.barriered = {}, t.shut = 0, t.op \notin {"revoke", "hydrate"}, NEW S \in SUBSET Objects,
         NEW u, u = [t EXCEPT !.todo = S, !.why = "revoked", !.pc = "begin"]
  PROVE  Becomes(u) /\ BootOK(u) /\ u.pc = "begin" /\ u.op = t.op
<1>1. u \in TaskStates
  <2>1. "begin" \in Points /\ "revoked" \in Terminal
    BY DEF Points, Terminal
  <2> QED
    BY <2>1, ZenonT(60) DEF TaskStates
<1>2. /\ u.pc = "begin" /\ u.op = t.op /\ u.obj = t.obj /\ u.key = t.key /\ u.then = t.then
      /\ u.cur = None /\ u.intent = None /\ u.barriered = {} /\ u.shut = 0 /\ u.gen = t.gen
  BY DEF TaskStates
<1>3. Waits(u) /\ Asked(u)
  BY <1>2 DEF Waits, Asked
<1>4. PlanOK(u) /\ RevokeOK(u)
  BY <1>2, <1>3 DEF PlanOK, RevokeOK, Closes
<1>5. WorkOK(u)
  BY <1>2, PowerboxAssumption DEF WorkOK, Closes
<1> QED
  BY <1>1, <1>2, <1>3, <1>4, <1>5
     DEF Becomes, Shaped, WritingOK, Writing, ClosingOK, AnswerOK, BootOK

LEMMA ValidateKeeps ==
  ASSUME PowerboxInv, NEW w \in Workers, Validate(w)
  PROVE  PowerboxInv'
<1>1. PICK t : t = task[w]
  OBVIOUS
<1>2. /\ t.pc = "validate" /\ Shaped(t) /\ NoFault
      /\ UNCHANGED <<journal, public, locks, broker, expired>>
  BY <1>1 DEF Validate, At, PowerboxInv, TasksOK, TaskOK, NoFault
<1>3. /\ t \in TaskStates /\ t.cur = None /\ t.intent = None /\ t.barriered = {}
      /\ Asked(t) /\ PlanOK(t)
  BY <1>2, RestFacts DEF Closes
<1>4. t.op \in {"create", "select"} /\ t.then = <<>> /\ t.shut = 0 /\ Waits(t) /\ t.obj \in Objects
  BY <1>2, <1>3 DEF PlanOK, Shaped, WorkOK, Waits, Asked, Objects
<1>5. CASE Continues(w, IdleTask)
  BY <1>1, <1>2, <1>4, <1>5, IdleFacts, IdleBecomes, QuietMove
<1>6. CASE Continues(w, [t EXCEPT !.todo = {t.obj}, !.why = "revoked", !.pc = "begin"])
  <2>1. PICK u : u = [t EXCEPT !.todo = {t.obj}, !.why = "revoked", !.pc = "begin"]
    OBVIOUS
  <2>2. {t.obj} \in SUBSET Objects
    BY <1>4
  <2>3. Becomes(u) /\ BootOK(u) /\ u.pc = "begin" /\ u.op = t.op
    BY <1>3, <1>4, <2>1, <2>2, BeginTask
  <2> QED
    BY <1>1, <1>2, <1>4, <1>6, <2>1, <2>3, QuietMove
<1> QED
  BY <1>1, <1>5, <1>6 DEF Validate

-----------------------------------------------------------------------------
(* The boot.                                                               *)

LEMMA ReconcileKeeps ==
  ASSUME PowerboxInv, NEW w \in Workers, Reconcile(w)
  PROVE  PowerboxInv'
<1>1. PICK t : t = task[w]
  OBVIOUS
<1>2. /\ t.pc = "reconcile" /\ Shaped(t) /\ NoFault /\ BootOK(t)
      /\ UNCHANGED <<journal, public, locks, broker, expired>>
  BY <1>1 DEF Reconcile, At, PowerboxInv, TasksOK, TaskOK, NoFault
<1>3. /\ t \in TaskStates /\ t.cur = None /\ t.intent = None /\ t.barriered = {}
      /\ Asked(t) /\ PlanOK(t)
  BY <1>2, RestFacts DEF Closes
<1>4. t.op = "hydrate" /\ t.then = <<"serve">> /\ t.todo = {} /\ t.shut = 0
  BY <1>2, <1>3 DEF PlanOK, Shaped, WorkOK, Closes
<1>5. PICK S \in SUBSET {b \in Bindings : status[b] = "open"} :
        Continues(w, Proceed([t EXCEPT !.why = "revoked",
                                !.todo = {e \in Exposures : status[e] = "open"} \cup S]))
  BY <1>1 DEF Reconcile
<1>6. PICK T : T = {e \in Exposures : status[e] = "open"} \cup S
  OBVIOUS
<1>7. PICK s : s = [t EXCEPT !.why = "revoked", !.todo = T]
  OBVIOUS
<1>8. PICK u : u = Proceed(s)
  OBVIOUS
<1>9. T \in SUBSET Objects /\ \A e \in Exposures : status[e] = "open" => e \in T
  BY <1>6 DEF Objects
<1>10. s \in TaskStates
  BY <1>3, <1>7, <1>9 DEF TaskStates, Terminal
<1>11. /\ s.op = "hydrate" /\ s.then = <<"serve">> /\ s.todo = T /\ s.cur = None /\ s.intent = None
       /\ s.barriered = {} /\ s.shut = 0
  BY <1>3, <1>4, <1>7 DEF TaskStates
<1>12. Waits(s) /\ Asked(s)
  BY <1>11 DEF Waits, Asked, Boots
<1>13. /\ Becomes(u) /\ u.pc \notin Closes \cup {"running"} /\ u.cur = None
       /\ (u.op = "hydrate") = (s.op = "hydrate")
  BY <1>8, <1>10, <1>11, <1>12, ProceedOK
<1>14. UNCHANGED phase /\ Continues(w, u)
  BY <1>5, <1>6, <1>7, <1>8 DEF Continues
<1>15. BootLeft(s)'
  BY <1>2, <1>4, <1>9, <1>11, <1>14 DEF BootLeft, BootOK, journal, Unpublished
<1>16. BootOK(u)'
  BY <1>8, <1>10, <1>12, <1>15, ProceedBoot
<1>17. BootOK(u)
  BY <1>2, <1>14, <1>16 DEF BootOK, journal, Unpublished
<1> QED
  BY <1>1, <1>2, <1>4, <1>11, <1>13, <1>14, <1>17, QuietMove DEF Closes

LEMMA ServeFacts ==
  ASSUME PowerboxInv, NEW w \in Workers, Serve(w)
  PROVE  /\ task[w].op = "hydrate" /\ phase = "booting" /\ Unpublished = {}
         /\ \A o \in Objects : closing[o] = None /\ status[o] # "open"
<1>1. PICK t : t = task[w]
  OBVIOUS
<1>2. t.pc = "serve" /\ Shaped(t) /\ BootOK(t) /\ Durable
  BY <1>1 DEF Serve, At, PowerboxInv, TasksOK, TaskOK
<1>3. t.op = "hydrate" /\ t.todo = {}
  BY <1>2 DEF Shaped, PlanOK, Closes
<1>4. /\ phase = "booting" /\ Unpublished = {} /\ \A o \in Objects : closing[o] = None
      /\ \A e \in Exposures : status[e] # "open"
  BY <1>2, <1>3 DEF BootOK
<1>5. \A b \in Bindings : status[b] # "open"
  BY <1>2, <1>4 DEF Durable, SelectedIsServed, JournalOK, StatusOK, Objects
<1> QED
  BY <1>1, <1>3, <1>4, <1>5 DEF Objects

LEMMA ServeKeeps ==
  ASSUME PowerboxInv, NEW w \in Workers, Serve(w)
  PROVE  PowerboxInv'
<1>1. task[w].op = "hydrate" /\ task[w].pc = "serve"
  BY ServeFacts DEF Serve, At
<1>2. /\ SetTask(w, IdleTask) /\ phase' = "up"
      /\ UNCHANGED <<journal, public, locks, broker, expired, faults>>
  BY DEF Serve
<1>3. RestOK'
  BY <1>2 DEF PowerboxInv, RestOK, locks, broker
<1>4. Kept(w, IdleTask)
  BY <1>1, <1>2, IdleFacts DEF Kept, LockStep, PhaseStep, locks, broker
<1> QED
  BY <1>2, <1>3, <1>4, IdleFacts, IdleBecomes, QuietStep

LEMMA HydrateKeeps ==
  ASSUME PowerboxInv, NEW w \in Workers, Hydrate(w)
  PROVE  PowerboxInv'
<1>1. PICK u : u = [IdleTask EXCEPT !.op = "hydrate", !.pc = "relayAll",
                      !.todo = {o \in Objects : closing[o] # None},
                      !.then = <<"sweep", "reconcile", "serve">>]
  OBVIOUS
<1>2. /\ phase = "down" /\ phase' = "booting" /\ SetTask(w, u)
      /\ UNCHANGED <<journal, public, locks, broker, expired, faults>>
  BY <1>1 DEF Hydrate
<1>3. u \in TaskStates
  BY <1>1, IdleFacts DEF TaskStates, Ops, Points, Plans, Boots
<1>4. /\ u.op = "hydrate" /\ u.pc = "relayAll" /\ u.todo = {o \in Objects : closing[o] # None}
      /\ u.then = <<"sweep", "reconcile", "serve">> /\ u.cur = None
      /\ u.intent = None /\ u.barriered = {} /\ u.shut = 0
  BY <1>1, IdleFacts DEF TaskStates
<1>5. Asked(u) /\ PlanOK(u) /\ RevokeOK(u)
  BY <1>4 DEF Asked, PlanOK, RevokeOK, Closes
<1>6. WorkOK(u)
  BY <1>4, PowerboxAssumption DEF WorkOK, Closes
<1>7. Becomes(u)
  BY <1>3, <1>4, <1>5, <1>6 DEF Becomes, Shaped, WritingOK, Writing, ClosingOK, AnswerOK
<1>8. BootOK(u)'
  BY <1>2, <1>4, PlansDiffer DEF BootOK, journal
<1>9. RestOK' /\ PublicOK'
  BY <1>2 DEF PowerboxInv, RestOK, PublicOK, locks, broker
<1>10. task[w].pc = "idle"
  BY <1>2 DEF PowerboxInv, TasksOK, TaskOK, PhaseOK, BootOK
<1>11. Kept(w, u)
  BY <1>2, <1>4, <1>10 DEF Kept, LockStep, PhaseStep, locks, broker
<1> QED
  BY <1>7, <1>8, <1>9, <1>11, KeptStep

-----------------------------------------------------------------------------
(* The broker.                                                             *)

LEMMA TakeCloseKeeps ==
  ASSUME PowerboxInv, NEW w \in Workers, TakeClose(w)
  PROVE  PowerboxInv'
<1>1. PICK t : t = task[w]
  OBVIOUS
<1>2. /\ t.pc = "barrier" /\ closeSerial = None /\ closeSerial' = w /\ TaskOK(t) /\ Shaped(t)
      /\ UNCHANGED <<journal, public, mutation, attachSerial, broker, expired>> /\ NoFault
      /\ t \in TaskStates /\ WorkOK(t)
  BY <1>1 DEF TakeClose, At, PowerboxInv, TasksOK, TaskOK, Shaped, NoFault
<1>3. PICK b \in t.affected \ t.barriered : Continues(w, [t EXCEPT !.pc = "generation", !.at = b])
  BY <1>1 DEF TakeClose
<1>4. PICK u : u = [t EXCEPT !.pc = "generation", !.at = b]
  OBVIOUS
<1>5. b \in Bindings /\ b \in t.affected
  BY <1>2 DEF TaskStates
<1>6. u \in TaskStates
  BY <1>2, <1>4, <1>5 DEF TaskStates, Points, Closes, Objects
<1>7. /\ u.pc = "generation" /\ u.at = b /\ u.affected = t.affected /\ u.cur = t.cur
      /\ u.intent = t.intent /\ u.op = t.op /\ u.then = t.then /\ u.todo = t.todo
      /\ u.obj = t.obj /\ u.key = t.key /\ u.gen = t.gen /\ u.shut = t.shut
      /\ u.barriered = t.barriered
  BY <1>2, <1>4 DEF TaskStates
<1>8. PlanOK(u) /\ RevokeOK(u) /\ Asked(u)
  BY <1>2, <1>7 DEF Shaped, PlanOK, RevokeOK, Asked, Closes
<1>9. WorkOK(u)
  <2>1. u.cur # None => Waits(u)
    BY <1>2, <1>7 DEF WorkOK, Waits
  <2> QED
    BY <1>2, <1>5, <1>7, <2>1 DEF WorkOK, Closes
<1>10. Becomes(u)
  BY <1>2, <1>6, <1>7, <1>8, <1>9
     DEF Becomes, Shaped, TaskOK, WritingOK, Writing, ClosingOK, AnswerOK
<1>11. BootOK(u)'
  <2>1. BootOK(t) /\ UNCHANGED phase
    BY <1>2, <1>3 DEF TaskOK, Continues
  <2> QED
    BY <1>2, <1>7, <2>1 DEF BootOK, journal, Unpublished
<1>12. LockStep(w, u) /\ {mutation', closeSerial', attachSerial'} \subseteq Workers \cup {None}
  BY <1>2, <1>7, PowerboxAssumption DEF LockStep, PowerboxInv, RestOK
<1>13. PublicOK'
  BY <1>2 DEF PowerboxInv, PublicOK
<1> QED
  BY <1>1, <1>2, <1>3, <1>4, <1>7, <1>10, <1>11, <1>12, <1>13, Moves

LEMMA TakeGenerationKeeps ==
  ASSUME PowerboxInv, NEW w \in Workers, TakeGeneration(w)
  PROVE  PowerboxInv'
<1>1. PICK t : t = task[w]
  OBVIOUS
<1>2. PICK b : b = t.at
  OBVIOUS
<1>3. PICK g : g = IF t.shut \in {0, generation[b]} THEN generation[b] ELSE 0
  OBVIOUS
<1>4. PICK u : u = [t EXCEPT !.pc = "settle", !.shut = g]
  OBVIOUS
<1>5. /\ t.pc = "generation" /\ attachSerial' = w /\ TaskOK(t) /\ Shaped(t) /\ NoFault
      /\ UNCHANGED <<journal, public, mutation, closeSerial, attached, minted, cleanup, expired>>
      /\ generation' = [generation EXCEPT ![b] = IF g = 0 THEN generation[b] ELSE 0]
      /\ SetTask(w, u) /\ UNCHANGED phase
      /\ t \in TaskStates /\ WorkOK(t) /\ generation \in [Bindings -> 0..MaxGenerations]
      /\ closeSerial = w /\ Durable
  BY <1>1, <1>2, <1>3, <1>4
     DEF TakeGeneration, At, PowerboxInv, TasksOK, TaskOK, Shaped, NoFault, Continues, RestOK, LocksOK
<1>6. b \in t.affected /\ b \in Bindings
  BY <1>2, <1>5 DEF WorkOK, TaskStates
<1>7. generation[b] \in 0..MaxGenerations /\ 0 \in 0..MaxGenerations
  BY <1>5, <1>6, PowerboxAssumption
<1>8. g \in {0, generation[b]} /\ (t.shut = 0 => g = generation[b])
  BY <1>3
<1>9. /\ generation' \in [Bindings -> 0..MaxGenerations]
      /\ generation'[b] \in {0, generation[b]} /\ (generation'[b] # generation[b] => g = generation[b])
      /\ g = generation[b] => generation'[b] = 0
      /\ \A x \in Bindings \ {b} : generation'[x] = generation[x]
  BY <1>5, <1>6, <1>7, <1>8
<1>10. u \in TaskStates
  BY <1>4, <1>5, <1>7, <1>8 DEF TaskStates, Points, Closes
<1>11. /\ u.pc = "settle" /\ u.at = b /\ u.shut = g /\ u.affected = t.affected /\ u.cur = t.cur
       /\ u.intent = t.intent /\ u.op = t.op /\ u.then = t.then /\ u.todo = t.todo
       /\ u.obj = t.obj /\ u.key = t.key /\ u.gen = t.gen /\ u.barriered = t.barriered
  BY <1>2, <1>4, <1>5 DEF TaskStates
<1>12. PlanOK(u) /\ RevokeOK(u) /\ Asked(u)
  BY <1>5, <1>11 DEF Shaped, PlanOK, RevokeOK, Asked, Closes
<1>13. WorkOK(u)
  <2>1. u.cur # None => Waits(u)
    BY <1>5, <1>11 DEF WorkOK, Waits
  <2> QED
    BY <1>5, <1>6, <1>11, <2>1 DEF WorkOK, Closes
<1>14. Shaped(u) /\ Shaped(u)'
  BY <1>10, <1>12, <1>13 DEF Shaped, PlanOK, WorkOK, Asked, RevokeOK, Waits
<1>15. GenerationStep(w, u)
  BY <1>1, <1>5, <1>6, <1>9, <1>11 DEF GenerationStep
<1>16. LockStep(w, u) /\ PhaseStep(w, u)
  BY <1>1, <1>5, <1>11 DEF LockStep, PhaseStep
<1>17. Steps(w, u)
  BY <1>5, <1>14, <1>15, <1>16, DurableSame DEF Steps, JournalStep
<1>18. ClosingOK(u)'
  <2> SUFFICES ASSUME t.cur # None PROVE ClosingOK(u)'
    BY <1>11 DEF ClosingOK
  <2>1. t.shut = 0
    BY <1>5 DEF WorkOK, Waits
  <2>2. generation'[b] = 0
    BY <1>8, <1>9, <2>1
  <2>3. \A x \in t.barriered : Silent(x)'
    <3>1. \A x \in t.barriered : x \in Bindings /\ Silent(x) /\ ~Current(x)
      BY <1>5, AffectedEnds DEF TaskOK, ClosingOK, WorkOK
    <3> QED
      BY <1>5, <1>14, <1>15, <3>1, SilentKept DEF PowerboxInv
  <2> QED
    BY <1>5, <1>11, <2>2, <2>3 DEF TaskOK, ClosingOK, Ending, journal
<1>19. WritingOK(u)' /\ AnswerOK(u)'
  BY <1>11 DEF WritingOK, Writing, AnswerOK
<1>20. BootOK(u)'
  BY <1>5, <1>11 DEF TaskOK, BootOK, journal, Unpublished
<1>21. RestOK' /\ PublicOK'
  BY <1>5, <1>9 DEF PowerboxInv, RestOK, PublicOK, NoFault
<1>22. \A x \in Bindings : status'[x] \in Terminal => Silent(x) /\ ~Current(x)
  BY <1>5, TerminalSilent DEF journal
<1> QED
  BY <1>14, <1>17, <1>18, <1>19, <1>20, <1>21, <1>22, GeneralStep DEF TaskOK

LEMMA SettleKeeps ==
  ASSUME PowerboxInv, NEW w \in Workers, Settle(w)
  PROVE  PowerboxInv'
<1>1. PICK t : t = task[w]
  OBVIOUS
<1>2. PICK b : b = t.at
  OBVIOUS
<1>3. /\ t.pc = "settle" /\ TaskOK(t) /\ Shaped(t) /\ t \in TaskStates /\ WorkOK(t) /\ closeSerial = w
      /\ UNCHANGED <<journal, public, generation, minted, expired>> /\ ~InFlight(b, t.shut)
      /\ TasksOK /\ Durable
  BY <1>1, <1>2 DEF Settle, At, PowerboxInv, TasksOK, TaskOK, Shaped, LocksOK
<1>4. b \in t.affected /\ b \in Bindings
  BY <1>2, <1>3 DEF WorkOK, TaskStates
<1>5. PublicOK' /\ attached \cup cleanup \subseteq Bindings
  BY <1>3 DEF PowerboxInv, PublicOK, RestOK
<1>6. CASE Fault /\ cleanup' = cleanup \cup {b} /\ Fails(w) /\ UNCHANGED attached
  BY <1>1, <1>2, <1>3, <1>4, <1>5, <1>6, FailKeeps
<1>7. ASSUME NEW u, Continues(w, u), NoFault, closeSerial' = None, attachSerial' = None,
             UNCHANGED mutation, attached' \cup cleanup' \subseteq Bindings, Becomes(u), BootOK(u),
             u.pc \in {"idle", "barrier", "commit"}, (u.op = "hydrate") = (t.op = "hydrate")
      PROVE  PowerboxInv'
  <2>1. RestOK'
    BY <1>3, <1>7 DEF PowerboxInv, RestOK, Continues, NoFault
  <2>2. Kept(w, u)
    BY <1>1, <1>2, <1>3, <1>7, PowerboxAssumption DEF Kept, LockStep, PhaseStep, Continues
  <2> QED
    BY <1>3, <1>7, <2>1, <2>2, QuietStep DEF Continues
<1>8. CASE /\ NoFault /\ closeSerial' = None /\ attachSerial' = None /\ UNCHANGED mutation
           /\ attached' \cup cleanup' \subseteq Bindings
           /\ Continues(w, AfterBarrier([t EXCEPT !.barriered = @ \cup {b}]))
  <2>1. PICK s : s = [t EXCEPT !.barriered = @ \cup {b}]
    OBVIOUS
  <2>2. t.barriered \cup {b} \in SUBSET Bindings /\ t.barriered \cup {b} \subseteq t.affected
    BY <1>3, <1>4 DEF WorkOK, TaskStates
  <2>3. s \in TaskStates
    BY <1>3, <2>1, <2>2 DEF TaskStates
  <2>4. /\ s.barriered = t.barriered \cup {b} /\ s.affected = t.affected /\ s.cur = t.cur
        /\ s.intent = t.intent /\ s.op = t.op /\ s.then = t.then /\ s.todo = t.todo
        /\ s.obj = t.obj /\ s.key = t.key /\ s.gen = t.gen
    BY <1>3, <2>1 DEF TaskStates
  <2>5. CASE t.cur = None
    <3>1. t.op = "close"
      BY <1>3, <2>5 DEF Shaped, PlanOK
    <3>2. Continues(w, IdleTask)
      BY <1>8, <2>1, <2>4, <2>5 DEF AfterBarrier
    <3> QED
      BY <1>7, <1>8, <3>1, <3>2, IdleFacts, IdleBecomes
  <2>6. CASE t.cur # None
    <3>1. PICK p : p = IF s.affected = s.barriered THEN "commit" ELSE "barrier"
      OBVIOUS
    <3>2. PICK u : u = [s EXCEPT !.pc = p, !.at = None, !.shut = 0]
      OBVIOUS
    <3>3. Continues(w, u)
      BY <1>8, <2>1, <2>4, <2>6, <3>1, <3>2 DEF AfterBarrier
    <3>4. p \in {"commit", "barrier"} /\ (p = "commit" => s.affected = s.barriered)
      BY <3>1
    <3>5. u \in TaskStates
      <4>1. p \in Points /\ 0 \in 0..MaxGenerations
        BY <3>4, PowerboxAssumption DEF Points, Closes
      <4> QED
        BY <2>3, <3>2, <4>1 DEF TaskStates
    <3>6. /\ u.pc = p /\ u.shut = 0 /\ u.barriered = t.barriered \cup {b} /\ u.affected = t.affected
          /\ u.cur = t.cur /\ u.intent = t.intent /\ u.op = t.op /\ u.then = t.then /\ u.todo = t.todo
          /\ u.obj = t.obj /\ u.key = t.key /\ u.gen = t.gen
      BY <2>3, <2>4, <3>2 DEF TaskStates
    <3>7. Waits(u) /\ Asked(u)
      BY <1>3, <2>6, <3>6 DEF Shaped, WorkOK, Waits, Asked
    <3>8. PlanOK(u) /\ RevokeOK(u)
      BY <1>3, <2>6, <3>4, <3>6, <3>7 DEF Shaped, PlanOK, RevokeOK, Closes
    <3>9. WorkOK(u)
      BY <1>3, <2>2, <2>4, <2>6, <3>4, <3>6, <3>7 DEF WorkOK, Closes
    <3>10. Silent(b)
      <4>1. generation[b] = 0
        BY <1>2, <1>3, <2>6 DEF TaskOK, ClosingOK
      <4>2. ASSUME NEW v \in Workers, At(v, "running"), task[v].obj = b PROVE FALSE
        <5>1. task[v].gen # 0
          BY <1>3, <4>2 DEF At, TasksOK, TaskOK, Shaped, PlanOK, Asked
        <5>2. PICK x \in Workers : At(x, "settle") /\ task[x].at = b /\ task[x].shut = task[v].gen
          BY <4>1, <4>2, <5>1 DEF PowerboxInv, RunningOK
        <5>3. x = w
          BY <1>3, <5>2 DEF PowerboxInv, LocksOK, At
        <5> QED
          BY <1>1, <1>3, <4>2, <5>2, <5>3 DEF InFlight
      <4> QED
        BY <4>1, <4>2 DEF Silent, Running
    <3>11. Becomes(u)
      BY <1>3, <2>6, <3>4, <3>5, <3>6, <3>7, <3>8, <3>9, <3>10
         DEF Becomes, Shaped, TaskOK, WritingOK, Writing, ClosingOK, AnswerOK
    <3>12. BootOK(u)
      BY <1>3, <3>4, <3>6 DEF TaskOK, BootOK
    <3> QED
      BY <1>7, <1>8, <3>3, <3>4, <3>6, <3>11, <3>12
  <2> QED
    BY <2>5, <2>6
<1> QED
  BY <1>1, <1>2, <1>4, <1>5, <1>6, <1>8 DEF Settle

LEMMA AttachFacts ==
  ASSUME PowerboxInv, NEW w \in Workers, NEW t, t = task[w],
         t.pc \in {"attach", "mint", "attached", "confirm"}
  PROVE  /\ t \in TaskStates /\ Shaped(t) /\ t.cur = None /\ t.intent = None /\ t.barriered = {}
         /\ Asked(t) /\ t.op = "attach" /\ t.then = <<>> /\ t.todo = {} /\ t.shut = 0
         /\ t.obj \in Bindings
<1>1. Shaped(t)
  BY DEF PowerboxInv, TasksOK, TaskOK
<1>2. /\ t \in TaskStates /\ t.cur = None /\ t.intent = None /\ t.barriered = {}
      /\ Asked(t) /\ PlanOK(t)
  BY <1>1, RestFacts DEF Closes
<1>3. t.op = "attach" /\ t.then = <<>> /\ t.todo = {}
  BY <1>2 DEF PlanOK, Closes
<1> QED
  BY <1>1, <1>2, <1>3 DEF Shaped, WorkOK, Asked

\* The next step of an attach or of an invocation.
LEMMA OnwardTask ==
  ASSUME NEW u \in TaskStates, u.cur = None, u.intent = None, u.barriered = {}, u.shut = 0,
         u.todo = {}, u.obj \in Bindings,
         \/ u.op = "attach" /\ u.pc = "sweep" /\ u.then = <<"mint">>
         \/ u.op = "attach" /\ u.pc \in {"attached", "confirm"} /\ u.then = <<>>
         \/ u.op = "invoke" /\ u.pc \in {"admit", "running"} /\ u.then = <<>> /\ u.gen # 0
  PROVE  Becomes(u) /\ BootOK(u) /\ BootOK(u)'
<1>1. Asked(u)
  BY DEF Asked
<1>2. PlanOK(u) /\ RevokeOK(u)
  BY DEF PlanOK, RevokeOK, Closes
<1>3. WorkOK(u)
  BY PowerboxAssumption DEF WorkOK, Closes
<1> QED
  BY <1>1, <1>2, <1>3
     DEF Becomes, Shaped, WritingOK, Writing, ClosingOK, AnswerOK, BootOK

LEMMA AttachKeeps ==
  ASSUME PowerboxInv, NEW w \in Workers, Attach(w)
  PROVE  PowerboxInv'
<1>1. PICK t : t = task[w]
  OBVIOUS
<1>2. t.pc = "attach" /\ UNCHANGED <<journal, public, broker, expired>> /\ NoFault
  BY <1>1 DEF Attach, At, NoFault
<1>3. /\ t \in TaskStates /\ Shaped(t) /\ t.cur = None /\ t.intent = None /\ t.barriered = {}
      /\ Asked(t) /\ t.op = "attach" /\ t.then = <<>> /\ t.todo = {} /\ t.shut = 0
      /\ t.obj \in Bindings
  BY <1>1, <1>2, AttachFacts
<1>4. CASE Fails(w)
  BY <1>1, <1>2, <1>4, FailKeeps DEF PowerboxInv, PublicOK, RestOK, broker
<1>5. CASE /\ attachSerial' = w /\ Continues(w, [t EXCEPT !.pc = "sweep", !.then = <<"mint">>])
           /\ UNCHANGED <<mutation, closeSerial>>
  <2>1. PICK u : u = [t EXCEPT !.pc = "sweep", !.then = <<"mint">>]
    OBVIOUS
  <2>2. u \in TaskStates
    <3>1. "sweep" \in Points /\ <<"mint">> \in Plans
      BY DEF Points, Plans
    <3> QED
      BY <1>3, <2>1, <3>1, ZenonT(60) DEF TaskStates
  <2>3. /\ u.pc = "sweep" /\ u.then = <<"mint">> /\ u.op = "attach" /\ u.obj = t.obj /\ u.cur = None
        /\ u.intent = None /\ u.barriered = {} /\ u.shut = 0 /\ u.todo = {}
    BY <1>3, <2>1 DEF TaskStates
  <2>4. Becomes(u) /\ BootOK(u)'
    BY <1>3, <2>2, <2>3, OnwardTask
  <2>5. PublicOK' /\ LockStep(w, u)
    BY <1>2, <1>5, <2>3 DEF PowerboxInv, PublicOK, LockStep
  <2>6. {mutation', closeSerial', attachSerial'} \subseteq Workers \cup {None}
    BY <1>5 DEF PowerboxInv, RestOK
  <2> QED
    BY <1>1, <1>2, <1>3, <1>5, <2>1, <2>3, <2>4, <2>5, <2>6, Moves
<1> QED
  BY <1>1, <1>4, <1>5 DEF Attach

LEMMA MintKeeps ==
  ASSUME PowerboxInv, NEW w \in Workers, Mint(w)
  PROVE  PowerboxInv'
<1>1. PICK t : t = task[w]
  OBVIOUS
<1>2. t.pc = "mint" /\ UNCHANGED <<journal, public, attached, cleanup, expired>> /\ NoFault
  BY <1>1 DEF Mint, At, NoFault
<1>3. /\ t \in TaskStates /\ Shaped(t) /\ t.cur = None /\ t.intent = None /\ t.barriered = {}
      /\ Asked(t) /\ t.op = "attach" /\ t.then = <<>> /\ t.todo = {} /\ t.shut = 0
      /\ t.obj \in Bindings
  BY <1>1, <1>2, AttachFacts
<1>4. CASE Fails(w) /\ UNCHANGED <<minted, generation>>
  BY <1>1, <1>2, <1>4, FailKeeps DEF PowerboxInv, PublicOK, RestOK
<1>5. CASE /\ Current(t.obj) /\ generation[t.obj] = 0 /\ minted < MaxGenerations
           /\ minted' = minted + 1
           /\ generation' = [generation EXCEPT ![t.obj] = minted + 1]
           /\ Continues(w, [t EXCEPT !.pc = "attached", !.gen = minted + 1])
           /\ UNCHANGED locks
  <2>1. PICK u : u = [t EXCEPT !.pc = "attached", !.gen = minted + 1]
    OBVIOUS
  <2>2. minted + 1 \in 0..MaxGenerations /\ generation \in [Bindings -> 0..MaxGenerations]
    BY <1>5, PowerboxAssumption DEF PowerboxInv, RestOK
  <2>3. u \in TaskStates
    <3>1. PICK g \in 0..MaxGenerations : g = minted + 1
      BY <2>2
    <3>2. u = [t EXCEPT !.pc = "attached", !.gen = g] /\ "attached" \in Points
      BY <2>1, <3>1 DEF Points
    <3> QED
      BY <1>3, <3>2 DEF TaskStates
  <2>4. /\ u.pc = "attached" /\ u.then = <<>> /\ u.op = "attach" /\ u.obj = t.obj /\ u.cur = None
        /\ u.intent = None /\ u.barriered = {} /\ u.shut = 0 /\ u.todo = {}
    BY <1>3, <2>1 DEF TaskStates
  <2>5. Becomes(u) /\ BootOK(u)'
    BY <1>3, <2>3, <2>4, OnwardTask
  <2>6. /\ \A x \in Bindings \ {t.obj} : generation'[x] = generation[x]
        /\ generation' \in [Bindings -> 0..MaxGenerations]
    BY <1>5, <2>2
  <2>7. SetTask(w, u) /\ UNCHANGED <<phase, mutation, closeSerial, attachSerial>> /\ UNCHANGED journal
    BY <1>2, <1>5, <2>1 DEF Continues, locks
  <2>8. GenerationStep(w, u)
    BY <1>1, <1>2, <1>5, <2>4, <2>6, <2>7 DEF GenerationStep
  <2>9. LockStep(w, u) /\ PhaseStep(w, u)
    BY <1>1, <1>2, <1>3, <2>4, <2>7 DEF LockStep, PhaseStep
  <2>10. Steps(w, u)
    BY <2>5, <2>7, <2>8, <2>9, DurableSame DEF Steps, JournalStep, Becomes, PowerboxInv
  <2>11. TaskOK(u)'
    BY <2>4, <2>5
       DEF TaskOK, Becomes, Shaped, WritingOK, Writing, ClosingOK, AnswerOK, PlanOK, WorkOK, Asked,
           RevokeOK, Waits
  <2>12. RestOK' /\ PublicOK'
    BY <1>2, <1>5, <2>2, <2>6, <2>7 DEF PowerboxInv, RestOK, PublicOK, NoFault
  <2>13. \A b \in Bindings : status'[b] \in Terminal => Silent(b) /\ ~Current(b)
    BY <2>7, TerminalSilent DEF journal
  <2> QED
    BY <2>10, <2>11, <2>12, <2>13, GeneralStep
<1> QED
  BY <1>1, <1>4, <1>5 DEF Mint

\* A task that goes on with a change of what is attached.
LEMMA AttachMoves ==
  ASSUME PowerboxInv, NEW w \in Workers, NEW u, Continues(w, u), NoFault \/ Fault,
         UNCHANGED <<journal, public, generation, minted, cleanup, expired>>,
         attached' \subseteq Bindings, Becomes(u), BootOK(u)', LockStep(w, u),
         {mutation', closeSerial', attachSerial'} \subseteq Workers \cup {None},
         u.pc # "running", task[w].pc \notin {"settle", "idle"},
         (u.op = "hydrate") = (task[w].op = "hydrate")
  PROVE  PowerboxInv'
<1>1. UNCHANGED <<phase, generation>> /\ SetTask(w, u) /\ PublicOK'
  BY DEF Continues, PowerboxInv, PublicOK
<1>2. faults' \in 0..MaxFaults
  BY FaultType DEF PowerboxInv
<1>3. RestOK'
  BY <1>1, <1>2 DEF PowerboxInv, RestOK
<1>4. Kept(w, u)
  BY <1>1 DEF Kept, PhaseStep
<1> QED
  BY <1>1, <1>3, <1>4, KeptStep

LEMMA AttachFailsKeeps ==
  ASSUME PowerboxInv, NEW w \in Workers, AttachFails(w), NoFault \/ Fault,
         task[w].pc \in {"attached", "confirm"},
         UNCHANGED <<journal, public, generation, minted, cleanup, expired, attached>>
  PROVE  PowerboxInv'
<1>1. PICK t : t = task[w]
  OBVIOUS
<1>2. t \in TaskStates /\ t.op = "attach" /\ t.obj \in Bindings
  BY <1>1, AttachFacts
<1>3. PICK u : u = BarrierOnly(t.obj, t.gen)
  OBVIOUS
<1>4. t.gen \in 0..MaxGenerations
  BY <1>2 DEF TaskStates
<1>5. Becomes(u) /\ BootOK(u)' /\ u.pc = "barrier" /\ u.op = "close"
  BY <1>2, <1>3, <1>4, BarrierOnlyBecomes
<1>6. Continues(w, u) /\ attachSerial' = None /\ UNCHANGED <<mutation, closeSerial>>
  BY <1>1, <1>3 DEF AttachFails
<1>7. LockStep(w, u) /\ {mutation', closeSerial', attachSerial'} \subseteq Workers \cup {None}
  BY <1>5, <1>6 DEF LockStep, PowerboxInv, RestOK
<1>8. attached' \subseteq Bindings
  BY DEF PowerboxInv, RestOK
<1> QED
  BY <1>1, <1>2, <1>5, <1>6, <1>7, <1>8, AttachMoves

LEMMA AttachedKeeps ==
  ASSUME PowerboxInv, NEW w \in Workers, Attached(w)
  PROVE  PowerboxInv'
<1>1. PICK t : t = task[w]
  OBVIOUS
<1>2. t.pc = "attached" /\ UNCHANGED <<journal, public, generation, minted, cleanup, expired>>
  BY <1>1 DEF Attached, At
<1>3. /\ t \in TaskStates /\ Shaped(t) /\ t.cur = None /\ t.intent = None /\ t.barriered = {}
      /\ Asked(t) /\ t.op = "attach" /\ t.then = <<>> /\ t.todo = {} /\ t.shut = 0
      /\ t.obj \in Bindings
  BY <1>1, <1>2, AttachFacts
<1>4. CASE AttachFails(w) /\ (NoFault \/ Fault) /\ UNCHANGED attached
  BY <1>1, <1>2, <1>4, AttachFailsKeeps
<1>5. CASE /\ NoFault /\ attached' = attached \cup {t.obj}
           /\ Continues(w, [t EXCEPT !.pc = "confirm"]) /\ UNCHANGED locks
  <2>1. PICK u : u = [t EXCEPT !.pc = "confirm"]
    OBVIOUS
  <2>2. u \in TaskStates
    BY <1>3, <2>1 DEF TaskStates, Points
  <2>3. /\ u.pc = "confirm" /\ u.then = <<>> /\ u.op = "attach" /\ u.obj = t.obj /\ u.cur = None
        /\ u.intent = None /\ u.barriered = {} /\ u.shut = 0 /\ u.todo = {}
    BY <1>3, <2>1 DEF TaskStates
  <2>4. Becomes(u) /\ BootOK(u)'
    BY <1>3, <2>2, <2>3, OnwardTask
  <2>5. LockStep(w, u) /\ {mutation', closeSerial', attachSerial'} \subseteq Workers \cup {None}
    BY <1>5, <2>3 DEF LockStep, PowerboxInv, RestOK, locks
  <2>6. attached' \subseteq Bindings
    BY <1>3, <1>5 DEF PowerboxInv, RestOK
  <2> QED
    BY <1>1, <1>2, <1>3, <1>5, <2>1, <2>3, <2>4, <2>5, <2>6, AttachMoves
<1> QED
  BY <1>1, <1>4, <1>5 DEF Attached

LEMMA ConfirmKeeps ==
  ASSUME PowerboxInv, NEW w \in Workers, Confirm(w)
  PROVE  PowerboxInv'
<1>1. /\ task[w].pc = "confirm" /\ NoFault
      /\ UNCHANGED <<journal, public, generation, minted, cleanup, expired, attached>>
  BY DEF Confirm, At, NoFault, broker
<1>2. task[w].op = "attach"
  BY <1>1, AttachFacts
<1>3. CASE AttachFails(w)
  BY <1>1, <1>3, AttachFailsKeeps
<1>4. CASE Continues(w, IdleTask) /\ attachSerial' = None /\ UNCHANGED <<mutation, closeSerial>>
  <2>1. /\ LockStep(w, IdleTask) /\ attached' \subseteq Bindings
        /\ {mutation', closeSerial', attachSerial'} \subseteq Workers \cup {None}
    BY <1>1, <1>4, IdleFacts DEF LockStep, PowerboxInv, RestOK
  <2> QED
    BY <1>1, <1>2, <1>4, <2>1, IdleFacts, IdleBecomes, AttachMoves
<1> QED
  BY <1>3, <1>4 DEF Confirm

LEMMA InvokeFacts ==
  ASSUME PowerboxInv, NEW w \in Workers, NEW t, t = task[w], t.pc \in {"permit", "admit"}
  PROVE  /\ t \in TaskStates /\ Shaped(t) /\ t.cur = None /\ t.intent = None /\ t.barriered = {}
         /\ Asked(t) /\ t.op = "invoke" /\ t.then = <<>> /\ t.todo = {} /\ t.shut = 0
         /\ t.obj \in Bindings /\ t.gen # 0 /\ Waits(t)
<1>1. Shaped(t)
  BY DEF PowerboxInv, TasksOK, TaskOK
<1>2. /\ t \in TaskStates /\ t.cur = None /\ t.intent = None /\ t.barriered = {}
      /\ Asked(t) /\ PlanOK(t)
  BY <1>1, RestFacts DEF Closes
<1>3. t.op = "invoke" /\ t.then = <<>> /\ t.todo = {}
  BY <1>2 DEF PlanOK, Closes
<1> QED
  BY <1>1, <1>2, <1>3 DEF Shaped, WorkOK, Asked, Waits

LEMMA PermitKeeps ==
  ASSUME PowerboxInv, NEW w \in Workers, Permit(w)
  PROVE  PowerboxInv'
<1>1. PICK t : t = task[w]
  OBVIOUS
<1>2. t.pc = "permit" /\ UNCHANGED <<journal, public, locks, broker, expired>> /\ NoFault
  BY <1>1 DEF Permit, At, NoFault
<1>3. /\ t \in TaskStates /\ Shaped(t) /\ t.cur = None /\ t.intent = None /\ t.barriered = {}
      /\ Asked(t) /\ t.op = "invoke" /\ t.then = <<>> /\ t.todo = {} /\ t.shut = 0
      /\ t.obj \in Bindings /\ t.gen # 0 /\ Waits(t)
  BY <1>1, <1>2, InvokeFacts
<1>4. CASE Continues(w, [t EXCEPT !.pc = "admit"])
  <2>1. PICK u : u = [t EXCEPT !.pc = "admit"]
    OBVIOUS
  <2>2. u \in TaskStates
    BY <1>3, <2>1 DEF TaskStates, Points
  <2>3. /\ u.pc = "admit" /\ u.then = <<>> /\ u.op = "invoke" /\ u.obj = t.obj /\ u.cur = None
        /\ u.intent = None /\ u.barriered = {} /\ u.shut = 0 /\ u.todo = {} /\ u.gen = t.gen
    BY <1>3, <2>1 DEF TaskStates
  <2>4. Becomes(u) /\ BootOK(u)
    BY <1>3, <2>2, <2>3, OnwardTask
  <2> QED
    BY <1>1, <1>2, <1>3, <1>4, <2>1, <2>3, <2>4, QuietMove
<1>5. CASE Continues(w, [t EXCEPT !.todo = {t.obj}, !.why = "revoked", !.pc = "begin"])
  <2>1. PICK u : u = [t EXCEPT !.todo = {t.obj}, !.why = "revoked", !.pc = "begin"]
    OBVIOUS
  <2>2. {t.obj} \in SUBSET Objects
    BY <1>3 DEF Objects
  <2>3. Becomes(u) /\ BootOK(u) /\ u.pc = "begin" /\ u.op = t.op
    BY <1>3, <2>1, <2>2, BeginTask
  <2> QED
    BY <1>1, <1>2, <1>3, <1>5, <2>1, <2>3, QuietMove
<1> QED
  BY <1>1, <1>4, <1>5 DEF Permit

LEMMA AdmitKeeps ==
  ASSUME PowerboxInv, NEW w \in Workers, Admit(w)
  PROVE  PowerboxInv'
<1>1. PICK t : t = task[w]
  OBVIOUS
<1>2. t.pc = "admit" /\ UNCHANGED <<journal, public, locks, broker, expired>> /\ NoFault
  BY <1>1 DEF Admit, At, NoFault
<1>3. /\ t \in TaskStates /\ Shaped(t) /\ t.cur = None /\ t.intent = None /\ t.barriered = {}
      /\ Asked(t) /\ t.op = "invoke" /\ t.then = <<>> /\ t.todo = {} /\ t.shut = 0
      /\ t.obj \in Bindings /\ t.gen # 0 /\ Waits(t)
  BY <1>1, <1>2, InvokeFacts
<1>4. CASE Continues(w, IdleTask)
  BY <1>1, <1>2, <1>3, <1>4, IdleFacts, IdleBecomes, QuietMove
<1>5. CASE generation[t.obj] = t.gen /\ Continues(w, [t EXCEPT !.pc = "running"])
  <2>1. PICK u : u = [t EXCEPT !.pc = "running"]
    OBVIOUS
  <2>2. u \in TaskStates
    BY <1>3, <2>1 DEF TaskStates, Points
  <2>3. /\ u.pc = "running" /\ u.then = <<>> /\ u.op = "invoke" /\ u.obj = t.obj /\ u.cur = None
        /\ u.intent = None /\ u.barriered = {} /\ u.shut = 0 /\ u.todo = {} /\ u.gen = t.gen
    BY <1>3, <2>1 DEF TaskStates
  <2>4. Becomes(u) /\ BootOK(u)
    BY <1>3, <2>2, <2>3, OnwardTask
  <2>5. UNCHANGED <<phase, mutation, closeSerial, attachSerial, generation>> /\ SetTask(w, u)
    BY <1>2, <1>5, <2>1 DEF Continues, locks, broker
  <2>6. RestOK'
    BY <1>2, <2>5 DEF PowerboxInv, RestOK, NoFault, broker
  <2>7. Kept(w, u)
    BY <1>1, <1>2, <1>3, <1>5, <2>3, <2>5 DEF Kept, LockStep, PhaseStep
  <2> QED
    BY <1>2, <2>3, <2>4, <2>6, <2>7, QuietStep
<1> QED
  BY <1>1, <1>4, <1>5 DEF Admit

-----------------------------------------------------------------------------
(* Steps of no task.                                                       *)

LEMMA SameTasks ==
  ASSUME PowerboxInv, UNCHANGED <<journal, public, phase, locks, generation, task>>, RestOK'
  PROVE  PowerboxInv'
<1>1. Durable'
  BY DurableSame DEF PowerboxInv
<1>2. PublicOK' /\ LocksOK' /\ PhaseOK'
  BY DEF PowerboxInv, PublicOK, LocksOK, PhaseOK, locks
<1>3. RunningOK' /\ TerminalIsQuiet'
  BY DEF PowerboxInv, RunningOK, TerminalIsQuiet, At, journal
<1>4. TasksOK'
  <2> SUFFICES ASSUME NEW v \in Workers PROVE TaskOK(task[v])'
    BY DEF PowerboxInv, TasksOK
  <2>1. PICK t : t = task[v]
    OBVIOUS
  <2>2. TaskOK(t)
    BY <2>1 DEF PowerboxInv, TasksOK
  <2>3. Shaped(t)'
    BY <2>2 DEF TaskOK, Shaped, PlanOK, WorkOK, Asked, RevokeOK, Waits
  <2>4. WritingOK(t)' /\ AnswerOK(t)'
    BY <2>2 DEF TaskOK, WritingOK, Writing, AnswerOK, Selected, journal
  <2>5. ClosingOK(t)'
    BY <2>2 DEF TaskOK, ClosingOK, Ending, Silent, Running, At, journal
  <2>6. BootOK(t)'
    BY <2>2 DEF TaskOK, BootOK, Unpublished, journal
  <2> QED
    BY <2>1, <2>3, <2>4, <2>5, <2>6 DEF TaskOK
<1> QED
  BY <1>1, <1>2, <1>3, <1>4 DEF PowerboxInv

LEMMA CrashKeeps ==
  ASSUME PowerboxInv, Crash
  PROVE  PowerboxInv'
<1>1. Durable'
  BY DurableSame DEF PowerboxInv, Crash
<1>2. PublicOK'
  BY DEF PowerboxInv, PublicOK, Crash
<1>3. RestOK'
  <2>1. faults' \in 0..MaxFaults
    BY FaultType DEF PowerboxInv, Crash
  <2> QED
    BY <2>1, PowerboxAssumption DEF PowerboxInv, RestOK, Crash
<1>4. \A w \in Workers : task'[w] = IdleTask
  BY DEF Crash
<1>5. TaskOK(IdleTask)'
  <2>1. Shaped(IdleTask)'
    BY IdleFacts DEF Shaped, PlanOK, WorkOK, Asked, RevokeOK, Waits
  <2> QED
    BY <2>1, IdleFacts DEF TaskOK, WritingOK, Writing, ClosingOK, AnswerOK, BootOK
<1>6. TasksOK'
  BY <1>4, <1>5, IdleFacts DEF TasksOK, Crash
<1>7. LocksOK' /\ PhaseOK' /\ RunningOK'
  BY <1>4, IdleFacts DEF LocksOK, PhaseOK, RunningOK, At
<1>8. TerminalIsQuiet'
  BY <1>4, IdleFacts DEF TerminalIsQuiet, At, Crash
<1> QED
  BY <1>1, <1>2, <1>3, <1>6, <1>7, <1>8 DEF PowerboxInv

LEMMA InitInv == Init => PowerboxInv
<1> SUFFICES ASSUME Init PROVE PowerboxInv
  OBVIOUS
<1>1. \A o \in Objects : status[o] = "none" /\ of[o] = None /\ closing[o] = None
  BY DEF Init
<1>2. {b \in Bindings : status[b] = "open"} = {}
  BY <1>1 DEF Objects
<1>3. /\ IsFiniteSet({b \in Bindings : status[b] = "open"})
      /\ Cardinality({b \in Bindings : status[b] = "open"}) = 0
  BY <1>2, FS_EmptySet
<1>4. StatusOK
  BY <1>1 DEF Init, StatusOK, Objects
<1>5. JournalOK
  BY <1>1, <1>3 DEF Init, JournalOK, Objects
<1>6. SelectedIsServed
  BY <1>1, <1>3, PowerboxAssumption DEF SelectedIsServed, Objects
<1>7. PublicOK /\ RestOK
  <2>1. [opened |-> 0, closed |-> 0] \in [{"opened", "closed"} -> 0..1]
    OBVIOUS
  <2>2. PublicOK
    BY <2>1 DEF Init, PublicOK
  <2>3. RestOK
    BY PowerboxAssumption DEF Init, RestOK
  <2> QED
    BY <2>2, <2>3
<1>8. \A w \in Workers : task[w] = IdleTask
  BY DEF Init
<1>9. TaskOK(IdleTask)
  BY IdleFacts DEF TaskOK, WritingOK, Writing, ClosingOK, AnswerOK, BootOK
<1>10. TasksOK
  BY <1>8, <1>9, IdleFacts DEF TasksOK, Init
<1>11. LocksOK /\ PhaseOK /\ RunningOK
  BY <1>8, IdleFacts DEF LocksOK, PhaseOK, RunningOK, At
<1>12. TerminalIsQuiet
  BY <1>1 DEF TerminalIsQuiet, Terminal, Objects
<1> QED
  BY <1>4, <1>5, <1>6, <1>7, <1>10, <1>11, <1>12 DEF PowerboxInv, Durable

LEMMA NextInv == PowerboxInv /\ [Next]_vars => PowerboxInv'
<1> SUFFICES ASSUME PowerboxInv, [Next]_vars PROVE PowerboxInv'
  OBVIOUS
<1>1. ASSUME NEW w \in Workers, RegistryStep(w) PROVE PowerboxInv'
  BY <1>1, SweepStepKeeps, BeginClosingKeeps, CommitKeeps, WriteTerminalKeeps, RelayKeeps,
     CatchUpKeeps, ApplyKeeps, AnswerKeeps, ValidateKeeps, ReconcileKeeps, ServeKeeps, HydrateKeeps
     DEF RegistryStep
<1>2. ASSUME NEW w \in Workers, BrokerStep(w) PROVE PowerboxInv'
  BY <1>2, TakeCloseKeeps, TakeGenerationKeeps, SettleKeeps, AttachKeeps, MintKeeps, AttachedKeeps,
     ConfirmKeeps, PermitKeeps, AdmitKeeps, AnswerKeeps
     DEF BrokerStep
<1>3. ASSUME NEW w \in Workers, Start(w) PROVE PowerboxInv'
  BY <1>3, StartCreateKeeps, StartRevokeKeeps, StartSelectKeeps, StartInvalidateKeeps,
     StartSweepKeeps, StartAttachKeeps, StartInvokeKeeps, StartCloseKeeps
     DEF Start
<1>4. ASSUME NEW b \in Bindings, RetryCleanup(b) PROVE PowerboxInv'
  <2>1. RestOK'
    BY <1>4 DEF PowerboxInv, RestOK, RetryCleanup, locks
  <2> QED
    BY <1>4, <2>1, SameTasks DEF RetryCleanup
<1>5. ASSUME NEW o \in Objects, Expire(o) PROVE PowerboxInv'
  <2>1. RestOK'
    BY <1>5 DEF PowerboxInv, RestOK, Expire, locks, broker, Objects
  <2> QED
    BY <1>5, <2>1, SameTasks DEF Expire, broker
<1>6. CASE Crash
  BY <1>6, CrashKeeps
<1>7. CASE UNCHANGED vars
  <2>1. RestOK'
    BY <1>7 DEF PowerboxInv, RestOK, vars, locks, broker
  <2> QED
    BY <1>7, <2>1, SameTasks DEF vars, broker
<1> QED
  BY <1>1, <1>2, <1>3, <1>4, <1>5, <1>6, <1>7 DEF Next

LEMMA InvHolds == Spec => []PowerboxInv
BY InitInv, NextInv, PTL DEF Spec

-----------------------------------------------------------------------------
(* What the journal and the phase do in a step.                            *)

\* Only an append of a terminal event or of a new object changes a status.
LEMMA StatusSteps ==
  ASSUME [Next]_vars
  PROVE  UNCHANGED status \/ \E w \in Workers : WriteTerminal(w) \/ Apply(w)
<1>1. ASSUME NEW w \in Workers, RegistryStep(w)
      PROVE  UNCHANGED status \/ WriteTerminal(w) \/ Apply(w)
  BY <1>1
     DEF RegistryStep, Sweep, SweepExpired, BeginClosing, AppendIntent, Commit, Relay, CatchUp,
         RelayPending, Answer, Validate, Reconcile, Serve, Hydrate, journal
<1>2. ASSUME NEW w \in Workers, BrokerStep(w) PROVE UNCHANGED status
  BY <1>2
     DEF BrokerStep, TakeClose, TakeGeneration, Settle, Attach, Mint, Attached, Confirm, Permit,
         Admit, Finish, journal
<1>3. ASSUME NEW w \in Workers, Start(w) PROVE UNCHANGED status
  BY <1>3
     DEF Start, StartCreate, StartRevoke, StartSelect, StartInvalidate, StartSweep, StartAttach,
         StartInvoke, StartClose, SweepExpired, RelayPending, journal
<1>4. CASE \/ \E b \in Bindings : RetryCleanup(b)
           \/ \E o \in Objects : Expire(o)
           \/ Crash
           \/ UNCHANGED vars
  BY <1>4 DEF RetryCleanup, Expire, Crash, vars, journal
<1> QED
  BY <1>1, <1>2, <1>3, <1>4 DEF Next

\* An append under an idempotency key opens an object that was not there.
LEMMA ApplyStatus ==
  ASSUME PowerboxInv, NEW w \in Workers, Apply(w), NEW o \in Objects, status[o] # "none"
  PROVE  status'[o] = status[o]
<1>1. PICK t : t = task[w]
  OBVIOUS
<1>2. t.pc = "apply" /\ t.obj \in Objects /\ status \in [Objects -> {"none", "open"} \cup Terminal]
  BY <1>1, ApplyFacts DEF Apply, At, PowerboxInv, Durable, StatusOK
<1>3. ASSUME ~Repeated(t), t.op # "revoke", Open(w, t) PROVE status'[o] = status[o]
  <2>1. status[t.obj] = "none"
    BY <1>3 DEF Repeated
  <2> QED
    BY <1>2, <1>3, <2>1 DEF Open, AppendOpened, journal
<1>4. ASSUME Revoke(w, t) PROVE UNCHANGED status
  BY <1>4 DEF Revoke, Poison, AppendIntent, journal
<1>5. \/ UNCHANGED journal
      \/ ~Repeated(t) /\ t.op # "revoke" /\ Open(w, t)
      \/ Revoke(w, t)
  BY <1>1 DEF Apply
<1> QED
  BY <1>3, <1>4, <1>5 DEF journal

\* The step of EndsAsIntended.
LEMMA StepEndsAsIntended ==
  ASSUME PowerboxInv, [Next]_vars, NEW o \in Objects
  PROVE  /\ status[o] \in Terminal => status'[o] = status[o]
         /\ status[o] = "open" /\ status'[o] \in Terminal =>
              \E x \in {o, of[o]} \cap Objects : closing[x] # None /\ closing[x].status = status'[o]
<1>0. status \in [Objects -> {"none", "open"} \cup Terminal]
  BY DEF PowerboxInv, Durable, StatusOK
<1>1. CASE UNCHANGED status
  BY <1>1 DEF Terminal
<1>2. ASSUME NEW w \in Workers, Apply(w)
      PROVE  status[o] # "none" => status'[o] = status[o]
  BY <1>2, ApplyStatus
<1>3. CASE \E w \in Workers : Apply(w)
  BY <1>2, <1>3 DEF Terminal
<1>4. CASE \E w \in Workers : WriteTerminal(w)
  <2>1. PICK w \in Workers : WriteTerminal(w)
    BY <1>4
  <2>2. PICK t : t = task[w]
    OBVIOUS
  <2>3. t.pc = "write"
    BY <2>1, <2>2 DEF WriteTerminal, At
  <2>4. PICK x \in NextTerminal(t) : AppendTerminal(x, t.intent.status) \/ UNCHANGED journal
    BY <2>1, <2>2 DEF WriteTerminal
  <2>5. /\ x \in Objects /\ status[x] = "open" /\ t.cur \in Objects /\ t.intent \in Intents
        /\ closing[t.cur] = t.intent /\ (x # t.cur => of[x] = t.cur)
    BY <2>2, <2>3, WriteFacts
  <2>6. t.intent # None
    BY <2>5, IntentAssumption
  <2>7. CASE UNCHANGED journal
    BY <1>1, <2>7 DEF journal
  <2>8. CASE AppendTerminal(x, t.intent.status)
    <3>1. status'[x] = t.intent.status /\ (o # x => status'[o] = status[o])
      BY <1>0, <2>5, <2>8 DEF AppendTerminal
    <3>2. CASE o = x
      BY <2>5, <2>6, <3>1, <3>2 DEF Terminal
    <3>3. CASE o # x
      BY <3>1, <3>3 DEF Terminal
    <3> QED
      BY <3>2, <3>3
  <2> QED
    BY <2>4, <2>7, <2>8
<1> QED
  BY <1>1, <1>3, <1>4, StatusSteps

\* Only Serve ends a boot with a Host that is up.
LEMMA PhaseSteps ==
  ASSUME [Next]_vars, phase = "booting", phase' = "up"
  PROVE  \E w \in Workers : Serve(w)
<1>1. ASSUME NEW w \in Workers, RegistryStep(w) PROVE Serve(w)
  BY <1>1
     DEF RegistryStep, Sweep, SweepExpired, BeginClosing, Commit, WriteTerminal, Relay, CatchUp,
         RelayPending, Apply, Repeat, Open, Revoke, Poison, Answer, Validate, Reconcile, Hydrate,
         Continues, Fails
<1>2. ASSUME NEW w \in Workers, BrokerStep(w) PROVE FALSE
  BY <1>2
     DEF BrokerStep, TakeClose, TakeGeneration, Settle, Attach, Mint, Attached, AttachFails, Confirm,
         Permit, Admit, Finish, Continues, Fails
<1>3. ASSUME NEW w \in Workers, Start(w) PROVE FALSE
  BY <1>3
     DEF Start, StartCreate, StartRevoke, StartSelect, StartInvalidate, StartSweep, StartAttach,
         StartInvoke, StartClose, Ready
<1>4. CASE \/ \E b \in Bindings : RetryCleanup(b)
           \/ \E o \in Objects : Expire(o)
           \/ Crash
           \/ UNCHANGED vars
  BY <1>4 DEF RetryCleanup, Expire, Crash, vars
<1> QED
  BY <1>1, <1>2, <1>3, <1>4 DEF Next

\* The step of RestartCloses.
LEMMA StepRestartCloses ==
  ASSUME PowerboxInv, [Next]_vars, phase = "booting", phase' = "up"
  PROVE  /\ \A o \in Objects : status'[o] # "open" /\ closing'[o] = None
         /\ Unpublished' = {}
<1>1. PICK w \in Workers : Serve(w)
  BY PhaseSteps
<1>2. Unpublished = {} /\ \A o \in Objects : closing[o] = None /\ status[o] # "open"
  BY <1>1, ServeFacts
<1>3. UNCHANGED <<journal, public>>
  BY <1>1 DEF Serve
<1> QED
  BY <1>2, <1>3 DEF journal, Unpublished

-----------------------------------------------------------------------------
(* The theorems.                                                           *)

\* The projection of the journal, the locks and the broker keep their types, and a
\* Binding has an Exposure from its selection on (apply_event, BrokerState).
THEOREM PowerboxTypes == Spec => []TypeOK
<1>1. PowerboxInv => TypeOK
  <2> SUFFICES ASSUME PowerboxInv PROVE TypeOK
    OBVIOUS
  <2>1. StatusOK /\ RestOK /\ JournalOK
    BY DEF PowerboxInv, Durable
  <2> QED
    BY <2>1 DEF TypeOK, StatusOK, RestOK, JournalOK
<1> QED
  BY <1>1, InvHolds, PTL

\* Close precedes the terminal commit: however closings, attaches, invocations,
\* errors and crashes interleave, a Binding that has ended has no open generation
\* and no invocation (complete_binding_closing, close_binding_barrier).
THEOREM EndedBindingIsQuiet == Spec => []TerminalIsQuiet
<1>1. PowerboxInv => TerminalIsQuiet
  BY DEF PowerboxInv
<1> QED
  BY <1>1, InvHolds, PTL

\* The import Port never has more selected Bindings than its multiplicity, and a
\* selected Binding's Exposure has not ended (binding_select).
THEOREM SelectionIsServed == Spec => []SelectedIsServed
<1>1. PowerboxInv => SelectedIsServed
  BY DEF PowerboxInv, Durable
<1> QED
  BY <1>1, InvHolds, PTL

\* A revocation that is answered has ended its object and all its Bindings, also
\* when another task completed it (exposure_revoke, binding_revoke).
THEOREM RevocationIsFinal == Spec => []RevokedIsTerminal
<1>1. PowerboxInv => RevokedIsTerminal
  <2> SUFFICES ASSUME PowerboxInv, NEW w \in Workers, At(w, "answer"), task[w].op = "revoke"
               PROVE  /\ status[task[w].obj] \in Terminal
                      /\ task[w].obj \in Exposures => Selected(task[w].obj) = {}
    BY DEF RevokedIsTerminal
  <2>1. status[task[w].obj] \in Terminal
    BY DEF PowerboxInv, TasksOK, TaskOK, AnswerOK, At
  <2>2. \A b \in Bindings : status[b] = "open" => status[of[b]] = "open"
    BY DEF PowerboxInv, Durable, SelectedIsServed
  <2> QED
    BY <2>1, <2>2 DEF Selected, Terminal
<1> QED
  BY <1>1, InvHolds, PTL

\* An event is published at most once, by whichever of the append, a later request
\* and a restart relays it (relay_source_event, relay_pending_public_events).
THEOREM PublishedOnce == Spec => []PublicOnce
<1>1. PowerboxInv => PublicOnce
  <2> SUFFICES ASSUME PublicOK, NEW o \in Objects
               PROVE  public[o].opened <= 1 /\ public[o].closed <= 1
    BY DEF PublicOnce, PowerboxInv
  <2>1. public[o]["opened"] \in 0..1 /\ public[o]["closed"] \in 0..1
    BY DEF PublicOK
  <2> QED
    BY <2>1
<1> QED
  BY <1>1, InvHolds, PTL

\* A terminal event follows a durable intent with its status, and what has ended
\* is never rewritten (apply_event, complete_exposure_closing).
THEOREM EndsByItsIntent == Spec => EndsAsIntended
<1>1. PowerboxInv /\ [Next]_vars =>
        [\A o \in Objects :
           /\ status[o] \in Terminal => status'[o] = status[o]
           /\ status[o] = "open" /\ status'[o] \in Terminal =>
                \E x \in {o, of[o]} \cap Objects :
                  closing[x] # None /\ closing[x].status = status'[o]]_vars
  BY StepEndsAsIntended
<1> QED
  BY <1>1, InvHolds, PTL DEF Spec, EndsAsIntended

\* A Host that serves after a restart has nothing open, nothing half closed and
\* nothing unpublished, after any number of failed boots (hydrate, reconcile_runs).
THEOREM RestartClosesAll == Spec => RestartCloses
<1>1. PowerboxInv /\ [Next]_vars =>
        [phase = "booting" /\ phase' = "up" =>
           /\ \A o \in Objects : status'[o] # "open" /\ closing'[o] = None
           /\ Unpublished' = {}]_vars
  BY StepRestartCloses
<1> QED
  BY <1>1, InvHolds, PTL DEF Spec, RestartCloses

=============================================================================
