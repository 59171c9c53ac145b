---------------------------- MODULE SchedProofs ----------------------------
(***************************************************************************)
(* Proofs about Sched, for a table of any size and any ticks and signals:  *)
(* one context runs, the swapper only when nobody else can, contexts are   *)
(* counted, alarms stay armed, and only the last tick of a sleep wakes.    *)
(***************************************************************************)
EXTENDS Sched, FiniteSetTheorems, TLAPS

Contexts == [state : States, type : Types, ticks_to_sleep : Nat, ticks_to_alarm : Nat,
             alarm_config_time : Nat, sighandlers : SUBSET Signals]

\* What one context c in slot p is, whoever has the CPU: the swapper never
\* waits and never ends, a process in use has the type of one, a thread never
\* leaves its wait, only waiting contexts have ticks of a sleep left, and an
\* alarm is counted down from its time.
Sane(p, c) ==
  /\ p = Swapper => c.state \in {"READY", "RUNNING"}
  /\ p # Swapper /\ c.state # "UNUSED" => c.type \in {"USER", "USER_TH"}
  /\ c.type = "USER_TH" => c.state = "WAITING" /\ c.ticks_to_sleep = 0
  /\ c.state # "WAITING" => c.ticks_to_sleep = 0
  /\ c.ticks_to_alarm = 0 <=> c.alarm_config_time = 0
  /\ c.ticks_to_alarm <= c.alarm_config_time

Table(f) == f \in [Slots -> Contexts] /\ \A p \in Slots : Sane(p, f[p])

\* The table f with context c in slot p, and with the context in q running.
With(f, p, c) == [f EXCEPT ![p] = c]

Running(f, q) == [f EXCEPT ![q].state = "RUNNING"]

InUse(f) == {p \in Slots : f[p].state # "UNUSED"}

\* The part of the invariant that is about who runs.
Runs(f, p) ==
  /\ \A q \in Slots : f[q].state = "RUNNING" => q = p
  /\ f[p].state \in {"RUNNING", "READY"}
  /\ p = Swapper => ReadyIn(f) = {}

Inv ==
  /\ Table(ctx) /\ current \in Slots /\ Runs(ctx, current)
  /\ num_contexts = Cardinality(InUse(ctx)) /\ halted \in BOOLEAN

-----------------------------------------------------------------------------
(* Sets of contexts                                                        *)

LEMMA SwapperSlot == Swapper \in Slots /\ Users \subseteq Slots
BY SchedAssumption DEF Swapper, Slots, Users

\* The contexts in use are finitely many.
LEMMA InUseFinite ==
  ASSUME NEW f
  PROVE  IsFiniteSet(InUse(f)) /\ Cardinality(InUse(f)) \in Nat
<1>1. IsFiniteSet(Slots)
  BY FS_Interval, SchedAssumption DEF Slots
<1>2. InUse(f) \subseteq Slots
  BY DEF InUse
<1> QED BY <1>1, <1>2, FS_Subset, FS_CardinalityType

\* One more context in use, or one less.
LEMMA InUseGrows ==
  ASSUME NEW f, NEW g, NEW p \in Slots, f[p].state = "UNUSED",
         InUse(g) = InUse(f) \union {p}
  PROVE  Cardinality(InUse(g)) = Cardinality(InUse(f)) + 1
<1>1. p \notin InUse(f)
  BY DEF InUse
<1> QED BY <1>1, InUseFinite, FS_AddElement

LEMMA InUseShrinks ==
  ASSUME NEW f, NEW g, NEW p \in InUse(f), InUse(g) = InUse(f) \ {p}
  PROVE  Cardinality(InUse(g)) = Cardinality(InUse(f)) - 1
BY InUseFinite, FS_RemoveElement

-----------------------------------------------------------------------------
(* Choosing the next context                                               *)

\* A process that is made to run in a table in which nobody runs is the one
\* that runs; so is the swapper, when no process can.
LEMMA MadeToRun ==
  ASSUME NEW f, Table(f), \A p \in Slots : f[p].state # "RUNNING",
         NEW q \in Slots, f[q].state = "READY", q = Swapper => ReadyIn(f) = {},
         NEW g, g = Running(f, q)
  PROVE  Table(g) /\ Runs(g, q) /\ InUse(g) = InUse(f)
<1>1. f[q] \in Contexts /\ Sane(q, f[q])
  BY DEF Table
<1>2. g[q] = [f[q] EXCEPT !.state = "RUNNING"] /\ g[q] \in Contexts
  BY <1>1 DEF Table, Running, Contexts, States
<1>3. \A p \in Slots \ {q} : g[p] = f[p]
  BY DEF Table, Running
<1>4. g \in [Slots -> Contexts]
  BY <1>2, <1>3 DEF Table, Running
<1>5. Sane(q, g[q])
  BY <1>1, <1>2 DEF Sane, Contexts
<1>6. Table(g)
  BY <1>3, <1>4, <1>5 DEF Table
<1>7. InUse(g) = InUse(f)
  BY <1>1, <1>2, <1>3 DEF InUse, Contexts
<1>8. q = Swapper => ReadyIn(g) = {}
  BY <1>3, SwapperSlot DEF ReadyIn, Users
<1>9. Runs(g, q)
  BY <1>1, <1>2, <1>3, <1>8 DEF Runs, Contexts
<1> QED BY <1>6, <1>7, <1>9

\* So is whoever is chosen.
LEMMA ScheduleFacts ==
  ASSUME NEW f, Table(f), \A p \in Slots : f[p].state # "RUNNING",
         NEW from, NEW q \in Slots, IsNext(f, from, q),
         NEW g, g = Running(f, q)
  PROVE  Table(g) /\ Runs(g, q) /\ InUse(g) = InUse(f)
<1>1. f[q].state = "READY"
  BY DEF IsNext, Table, Sane, ReadyIn
<1>2. q = Swapper => ReadyIn(f) = {}
  BY DEF IsNext, ReadyIn, Users
<1> QED BY <1>1, <1>2, MadeToRun

\* A table stays one when a context of it is replaced by a sane one.
LEMMA Replaced ==
  ASSUME NEW f, Table(f), NEW p \in Slots, NEW c \in Contexts, Sane(p, c),
         NEW g, g = With(f, p, c)
  PROVE  /\ Table(g) /\ g[p] = c
         /\ \A q \in Slots \ {p} : g[q] = f[q]
<1>1. g \in [Slots -> Contexts] /\ g[p] = c /\ \A q \in Slots \ {p} : g[q] = f[q]
  BY DEF Table, With
<1>2. \A q \in Slots : Sane(q, g[q])
  BY <1>1 DEF Table
<1> QED BY <1>1, <1>2 DEF Table

\* The process that makes a call.
LEMMA Caller ==
  ASSUME Inv, Calling
  PROVE  /\ current \in Slots /\ current # Swapper
         /\ ctx[current] \in Contexts /\ Sane(current, ctx[current])
         /\ ctx[current].state # "UNUSED" /\ ctx[current].state # "WAITING"
         /\ ctx[current].ticks_to_sleep = 0 /\ ctx[current].type = "USER"
         /\ ctx \in [Slots -> Contexts]
BY DEF Inv, Calling, Users, Table, Sane, Runs

-----------------------------------------------------------------------------
(* The timer tick                                                          *)

\* Counting one context down leaves it sane, and changes only WAITING to READY.
LEMMA CountDownSleepFacts ==
  ASSUME NEW p \in Slots, NEW c \in Contexts, Sane(p, c)
  PROVE  /\ CountDownSleep(c) \in Contexts /\ Sane(p, CountDownSleep(c))
         /\ CountDownSleep(c).state = "UNUSED" <=> c.state = "UNUSED"
         /\ CountDownSleep(c).state = "RUNNING" <=> c.state = "RUNNING"
<1> DEFINE d == CountDownSleep(c)
<1>1. CASE c.state = "WAITING" /\ c.ticks_to_sleep > 0
  <2>1. /\ d = [c EXCEPT !.ticks_to_sleep = c.ticks_to_sleep - 1,
                         !.state = IF c.ticks_to_sleep = 1 THEN "READY" ELSE c.state]
        /\ c.ticks_to_sleep \in Nat \ {0}
    BY <1>1 DEF CountDownSleep, Contexts
  <2>2. c.ticks_to_sleep - 1 \in Nat
    BY <2>1
  <2>3. /\ d.state = IF c.ticks_to_sleep = 1 THEN "READY" ELSE "WAITING"
        /\ d.ticks_to_sleep = c.ticks_to_sleep - 1 /\ d.type = c.type
        /\ d.ticks_to_alarm = c.ticks_to_alarm /\ d.alarm_config_time = c.alarm_config_time
    BY <1>1, <2>1 DEF Contexts
  <2>4. d \in Contexts
    BY <1>1, <2>1, <2>2 DEF Contexts, States
  <2>5. p # Swapper /\ c.type # "USER_TH"
    BY <1>1 DEF Sane
  <2>6. Sane(p, d)
    BY <1>1, <2>1, <2>3, <2>5 DEF Sane
  <2> QED BY <1>1, <2>3, <2>4, <2>6
<1>2. CASE ~(c.state = "WAITING" /\ c.ticks_to_sleep > 0)
  BY <1>2 DEF CountDownSleep
<1> QED BY <1>1, <1>2

\* The context that had the CPU, with its alarm counted down.
LEMMA CountDownAlarmFacts ==
  ASSUME NEW p \in Slots, NEW c \in Contexts, Sane(p, c), c.state \in {"RUNNING", "READY"},
         NEW d, d = [CountDownAlarm(c) EXCEPT !.state = "READY"]
  PROVE  d \in Contexts /\ Sane(p, d) /\ d.state = "READY"
<1> DEFINE left == IF c.ticks_to_alarm = 0 THEN 0
                   ELSE IF c.ticks_to_alarm = 1 THEN c.alarm_config_time
                   ELSE c.ticks_to_alarm - 1
<1>1. d = [c EXCEPT !.ticks_to_alarm = left, !.state = "READY"]
  BY DEF CountDownAlarm, Contexts
<1>2. /\ c.ticks_to_alarm \in Nat /\ c.alarm_config_time \in Nat
      /\ c.ticks_to_alarm = 0 <=> c.alarm_config_time = 0
      /\ c.ticks_to_alarm <= c.alarm_config_time
  BY DEF Contexts, Sane
<1>3. left \in Nat /\ (left = 0 <=> c.alarm_config_time = 0) /\ left <= c.alarm_config_time
  BY <1>2
<1> HIDE DEF left
<1>4. /\ d.ticks_to_alarm = left /\ d.alarm_config_time = c.alarm_config_time
      /\ d.state = "READY" /\ d.type = c.type /\ d.ticks_to_sleep = c.ticks_to_sleep
  BY <1>1 DEF Contexts
<1>5. d \in Contexts
  BY <1>1, <1>3 DEF Contexts, States
<1>6. Sane(p, d)
  BY <1>3, <1>4 DEF Sane
<1> QED BY <1>4, <1>5, <1>6

\* Accounting the sleeps and the alarm leaves a table in which nobody runs
\* and the same contexts are in use.
LEMMA AccountedFacts ==
  ASSUME Inv
  PROVE  /\ Table(Accounted) /\ InUse(Accounted) = InUse(ctx)
         /\ \A p \in Slots : Accounted[p].state # "RUNNING"
         /\ Accounted[current].state = "READY"
<1> DEFINE g == Accounted
<1>1. ASSUME NEW p \in Slots
      PROVE  /\ CountDownSleep(ctx[p]) \in Contexts /\ Sane(p, CountDownSleep(ctx[p]))
             /\ CountDownSleep(ctx[p]).state = "UNUSED" <=> ctx[p].state = "UNUSED"
             /\ CountDownSleep(ctx[p]).state = "RUNNING" <=> ctx[p].state = "RUNNING"
  <2>1. ctx[p] \in Contexts /\ Sane(p, ctx[p])
    BY DEF Inv, Table
  <2> QED BY <2>1, CountDownSleepFacts
<1>2. ASSUME NEW p \in Slots, p # current
      PROVE  g[p] = CountDownSleep(ctx[p])
  BY <1>2 DEF Accounted
<1>3. ctx[current] \in Contexts /\ Sane(current, ctx[current])
      /\ ctx[current].state \in {"RUNNING", "READY"} /\ current \in Slots
  BY DEF Inv, Table, Runs
<1>4. CountDownSleep(ctx[current]) = ctx[current]
  BY <1>3 DEF CountDownSleep
<1>5. g[current] = [CountDownAlarm(ctx[current]) EXCEPT !.state = "READY"]
  BY <1>3, <1>4 DEF Accounted
<1>6. /\ g[current] \in Contexts /\ Sane(current, g[current])
      /\ g[current].state = "READY"
  BY <1>3, <1>5, CountDownAlarmFacts
<1>7. g \in [Slots -> Contexts]
  <2>1. \A p \in Slots : g[p] \in Contexts
    BY <1>1, <1>2, <1>6
  <2>2. g = [p \in Slots |-> g[p]]
    BY DEF Accounted
  <2> HIDE DEF g
  <2> QED BY <2>1, <2>2
<1>8. Table(g)
  <2>1. \A p \in Slots : Sane(p, g[p])
    BY <1>1, <1>2, <1>6
  <2> QED BY <2>1, <1>7 DEF Table
<1>9. \A p \in Slots : g[p].state # "RUNNING"
  BY <1>1, <1>2, <1>6 DEF Inv, Runs
<1>10. InUse(g) = InUse(ctx)
  BY <1>1, <1>2, <1>3, <1>6 DEF InUse
<1> QED BY <1>6, <1>8, <1>9, <1>10

LEMMA TickInv == Inv /\ Tick => Inv'
<1> SUFFICES ASSUME Inv, Tick PROVE Inv'
  OBVIOUS
<1>1. /\ Table(Accounted) /\ InUse(Accounted) = InUse(ctx)
      /\ \A p \in Slots : Accounted[p].state # "RUNNING"
      /\ Accounted[current].state = "READY"
  BY AccountedFacts
<1>2. PICK q \in Slots :
        /\ IsNext(Accounted, current, q)
        /\ IF q = current THEN ctx' = Accounted /\ UNCHANGED current
           ELSE Schedule(Accounted, q)
  BY DEF Tick
<1>3. CASE q = current
  <2>1. ctx' = Accounted /\ current' = current
    BY <1>2, <1>3
  <2>2. current = Swapper => ReadyIn(Accounted) = {}
    BY <1>2, <1>3 DEF IsNext, ReadyIn, Users
  <2>3. Runs(Accounted, current)
    BY <1>1, <2>2 DEF Runs
  <2>4. Table(ctx') /\ Runs(ctx', current') /\ InUse(ctx') = InUse(ctx)
    BY <2>1, <2>3, <1>1
  <2> QED BY <2>1, <2>4 DEF Inv, Tick
<1>4. CASE q # current
  <2>1. ctx' = Running(Accounted, q) /\ current' = q
    BY <1>2, <1>4 DEF Schedule, Running
  <2>2. Table(ctx') /\ Runs(ctx', q) /\ InUse(ctx') = InUse(Accounted)
    BY <2>1, <1>1, <1>2, ScheduleFacts
  <2> QED BY <2>1, <2>2, <1>1 DEF Inv, Tick
<1> QED BY <1>3, <1>4

-----------------------------------------------------------------------------
(* Calls that give the CPU away                                            *)

LEMMA DoExitInv == Inv /\ DoExit => Inv'
<1> SUFFICES ASSUME Inv, DoExit PROVE Inv'
  OBVIOUS
<1> DEFINE c == [ctx[current] EXCEPT !.state = "UNUSED"]
           f == With(ctx, current, c)
<1>1. /\ current \in Slots /\ current # Swapper
      /\ ctx[current] \in Contexts /\ Sane(current, ctx[current])
      /\ ctx[current].state # "UNUSED" /\ ctx[current].type = "USER"
      /\ ctx[current].ticks_to_sleep = 0 /\ ctx \in [Slots -> Contexts]
  BY Caller DEF DoExit
<1>2. c \in Contexts /\ Sane(current, c) /\ c.state = "UNUSED"
  BY <1>1 DEF Contexts, Sane, States
<1>3. Table(f) /\ f[current] = c /\ \A q \in Slots \ {current} : f[q] = ctx[q]
  <2> HIDE DEF c
  <2> QED BY <1>1, <1>2, Replaced DEF Inv
<1>4. \A p \in Slots : f[p].state # "RUNNING"
  BY <1>2, <1>3 DEF Inv, Runs
<1>5. PICK q \in Slots : /\ IsNext(f, current, q) /\ current' = q
                         /\ ctx' = Running(f, q)
  BY <1>1 DEF DoExit, ScheduleNext, Schedule, Running, With
<1> HIDE DEF c, f
<1>6. Table(ctx') /\ Runs(ctx', current') /\ InUse(ctx') = InUse(f)
  BY <1>3, <1>4, <1>5, ScheduleFacts
<1>7. InUse(f) = InUse(ctx) \ {current} /\ current \in InUse(ctx)
  BY <1>1, <1>2, <1>3 DEF InUse
<1>8. num_contexts' = Cardinality(InUse(ctx'))
  BY <1>6, <1>7, InUseShrinks DEF Inv, DoExit, ReleaseContext
<1> QED BY <1>5, <1>6, <1>8 DEF Inv, DoExit

LEMMA DoSleepInv == Inv /\ (\E ticks \in Ticks : DoSleep(ticks)) => Inv'
<1> SUFFICES ASSUME Inv, NEW ticks \in Ticks, DoSleep(ticks) PROVE Inv'
  OBVIOUS
<1> DEFINE c == [ctx[current] EXCEPT !.state = "WAITING", !.ticks_to_sleep = ticks]
           f == With(ctx, current, c)
<1>1. /\ current \in Slots /\ current # Swapper
      /\ ctx[current] \in Contexts /\ Sane(current, ctx[current])
      /\ ctx[current].state # "UNUSED" /\ ctx[current].type = "USER"
      /\ ctx \in [Slots -> Contexts] /\ ticks \in Nat
  BY Caller, SchedAssumption DEF DoSleep
<1>2. c \in Contexts /\ Sane(current, c) /\ c.state = "WAITING"
  BY <1>1 DEF Contexts, Sane, States
<1>3. Table(f) /\ f[current] = c /\ \A q \in Slots \ {current} : f[q] = ctx[q]
  <2> HIDE DEF c
  <2> QED BY <1>1, <1>2, Replaced DEF Inv
<1>4. \A p \in Slots : f[p].state # "RUNNING"
  BY <1>2, <1>3 DEF Inv, Runs
<1>5. f = [ctx EXCEPT ![current].state = "WAITING", ![current].ticks_to_sleep = ticks]
  BY <1>1 DEF With
<1>6. PICK q \in Slots : /\ IsNext(f, current, q) /\ current' = q
                         /\ ctx' = Running(f, q)
  BY <1>5 DEF DoSleep, ScheduleNext, Schedule, Running
<1> HIDE DEF c, f
<1>7. Table(ctx') /\ Runs(ctx', current') /\ InUse(ctx') = InUse(f)
  BY <1>3, <1>4, <1>6, ScheduleFacts
<1>8. InUse(f) = InUse(ctx)
  BY <1>1, <1>2, <1>3 DEF InUse
<1> QED BY <1>6, <1>7, <1>8 DEF Inv, DoSleep

-----------------------------------------------------------------------------
(* Calls that keep it                                                      *)

\* The caller's context is replaced by one of the same state.
LEMMA CallerReplaced ==
  ASSUME Inv, Calling, NEW c \in Contexts, Sane(current, c),
         c.state = ctx[current].state, ctx' = With(ctx, current, c),
         UNCHANGED <<current, num_contexts, halted>>
  PROVE  Inv'
<1>1. current \in Slots /\ current # Swapper /\ ctx[current].state # "UNUSED"
  BY Caller
<1>2. Table(ctx') /\ ctx'[current] = c /\ \A q \in Slots \ {current} : ctx'[q] = ctx[q]
  <2>1. Table(ctx) /\ current \in Slots
    BY DEF Inv
  <2> QED BY <2>1, Replaced
<1>3. Runs(ctx', current)
  BY <1>1, <1>2 DEF Inv, Runs
<1>4. InUse(ctx') = InUse(ctx)
  BY <1>1, <1>2 DEF InUse
<1> QED BY <1>2, <1>3, <1>4 DEF Inv

LEMMA DoAlarmInv == Inv /\ (\E ticks \in Ticks : DoAlarm(ticks)) => Inv'
<1> SUFFICES ASSUME Inv, NEW ticks \in Ticks, DoAlarm(ticks) PROVE Inv'
  OBVIOUS
<1> DEFINE c == [ctx[current] EXCEPT !.alarm_config_time = ticks, !.ticks_to_alarm = ticks]
<1>1. /\ ctx[current] \in Contexts /\ Sane(current, ctx[current]) /\ current \in Slots
      /\ ctx \in [Slots -> Contexts] /\ ticks \in Nat /\ ticks > 0 /\ Calling
  BY Caller, SchedAssumption DEF DoAlarm
<1>2. c \in Contexts /\ c.state = ctx[current].state
  BY <1>1 DEF Contexts
<1>3. Sane(current, c)
  <2>1. /\ c.ticks_to_alarm = ticks /\ c.alarm_config_time = ticks
        /\ c.type = ctx[current].type /\ c.ticks_to_sleep = ctx[current].ticks_to_sleep
    BY <1>1 DEF Contexts
  <2> HIDE DEF c
  <2> QED BY <1>1, <1>2, <2>1 DEF Sane
<1>4. ctx' = With(ctx, current, c)
  BY <1>1 DEF DoAlarm, With
<1>5. UNCHANGED <<current, num_contexts, halted>>
  BY DEF DoAlarm
<1> HIDE DEF c
<1> QED BY <1>1, <1>2, <1>3, <1>4, <1>5, CallerReplaced

LEMMA DoSignalInv ==
  Inv /\ (\E sig \in Signals, handled \in BOOLEAN : DoSignal(sig, handled)) => Inv'
<1> SUFFICES ASSUME Inv, NEW sig \in Signals, NEW handled \in BOOLEAN, DoSignal(sig, handled)
             PROVE  Inv'
  OBVIOUS
<1> DEFINE old == ctx[current].sighandlers
           new == IF handled THEN old \union {sig} ELSE old \ {sig}
           c == [ctx[current] EXCEPT !.sighandlers = new]
<1>1. /\ ctx[current] \in Contexts /\ Sane(current, ctx[current]) /\ current \in Slots
      /\ ctx \in [Slots -> Contexts] /\ Calling
  BY Caller DEF DoSignal
<1>2. new \in SUBSET Signals
  BY <1>1 DEF Contexts
<1>3. ctx' = With(ctx, current, c)
  BY <1>1 DEF DoSignal, With
<1> HIDE DEF new
<1>4. c \in Contexts /\ Sane(current, c) /\ c.state = ctx[current].state
  BY <1>1, <1>2 DEF Contexts, Sane
<1>5. UNCHANGED <<current, num_contexts, halted>>
  BY DEF DoSignal
<1> HIDE DEF c
<1> QED BY <1>1, <1>3, <1>4, <1>5, CallerReplaced

-----------------------------------------------------------------------------
(* Calls that make contexts                                                *)

LEMMA NoSlotInv == Inv /\ NoSlot => Inv'
BY DEF Inv, NoSlot, Table, InUse, Runs, ReadyIn

\* A new context c in an unused slot p, which is neither the caller's nor the
\* swapper's.
LEMMA ContextAdded ==
  ASSUME Inv, NEW p \in Slots, ctx[p].state = "UNUSED",
         NEW c \in Contexts, Sane(p, c), c.state \in {"READY", "WAITING"},
         NEW f, f = With(ctx, p, c)
  PROVE  /\ Table(f) /\ p # current /\ p # Swapper /\ f[p] = c
         /\ \A q \in Slots \ {p} : f[q] = ctx[q]
         /\ InUse(f) = InUse(ctx) \union {p}
         /\ current # Swapper => Runs(f, current)
<1>1. Table(ctx) /\ current \in Slots /\ Runs(ctx, current)
  BY DEF Inv
<1>2. p # current /\ p # Swapper
  BY <1>1, SwapperSlot DEF Runs, Table, Sane
<1>3. Table(f) /\ f[p] = c /\ \A q \in Slots \ {p} : f[q] = ctx[q]
  BY <1>1, Replaced
<1>4. InUse(f) = InUse(ctx) \union {p}
  BY <1>3 DEF InUse
<1>5. current # Swapper => Runs(f, current)
  BY <1>1, <1>2, <1>3 DEF Runs
<1> QED BY <1>2, <1>3, <1>4, <1>5

\* The caller's copy is fit for an unused slot.
LEMMA ChildFacts ==
  ASSUME Inv, Calling, NEW p \in Slots, ctx[p].state = "UNUSED"
  PROVE  LET c == [ctx[current] EXCEPT !.state = "READY"]
         IN  c \in Contexts /\ Sane(p, c) /\ c.state = "READY"
             /\ WithChild(p) = With(ctx, p, c)
<1> DEFINE c == [ctx[current] EXCEPT !.state = "READY"]
<1>1. /\ current # Swapper /\ ctx[current] \in Contexts /\ Sane(current, ctx[current])
      /\ ctx[current].ticks_to_sleep = 0 /\ ctx[current].type = "USER"
  BY Caller
<1>2. c \in Contexts /\ c.state = "READY" /\ c.type = "USER" /\ c.ticks_to_sleep = 0
      /\ c.ticks_to_alarm = ctx[current].ticks_to_alarm
      /\ c.alarm_config_time = ctx[current].alarm_config_time
  BY <1>1 DEF Contexts, States
<1>3. WithChild(p) = With(ctx, p, c)
  BY DEF WithChild, With
<1> HIDE DEF c
<1>4. Sane(p, c)
  BY <1>1, <1>2 DEF Sane
<1> QED BY <1>2, <1>3, <1>4 DEF c

LEMMA DoForkInv == Inv /\ DoFork => Inv'
<1> SUFFICES ASSUME Inv, DoFork PROVE Inv'
  OBVIOUS
<1>1. CASE NoSlot
  BY <1>1, NoSlotInv
<1>2. ASSUME NEW p \in Slots, IsNewCtx(p), ctx' = WithChild(p),
             num_contexts' = num_contexts + 1, UNCHANGED <<current, halted>>
      PROVE  Inv'
  <2> DEFINE c == [ctx[current] EXCEPT !.state = "READY"]
  <2>1. ctx[p].state = "UNUSED" /\ Calling
    BY <1>2 DEF IsNewCtx, Unused, DoFork
  <2>2. c \in Contexts /\ Sane(p, c) /\ c.state = "READY" /\ ctx' = With(ctx, p, c)
    BY <1>2, <2>1, ChildFacts
  <2> HIDE DEF c
  <2>3. /\ Table(ctx') /\ InUse(ctx') = InUse(ctx) \union {p}
        /\ Runs(ctx', current)
    BY <2>1, <2>2, ContextAdded DEF Calling, Users
  <2>4. Cardinality(InUse(ctx')) = Cardinality(InUse(ctx)) + 1
    BY <2>1, <2>3, InUseGrows
  <2> QED BY <1>2, <2>3, <2>4 DEF Inv
<1> QED BY <1>1, <1>2 DEF DoFork

LEMMA DoVforkInv == Inv /\ DoVfork => Inv'
<1> SUFFICES ASSUME Inv, DoVfork PROVE Inv'
  OBVIOUS
<1>1. CASE NoSlot
  BY <1>1, NoSlotInv
<1>2. ASSUME NEW p \in Slots, IsNewCtx(p), num_contexts' = num_contexts + 1,
             Schedule([WithChild(p) EXCEPT ![current].state = "WAITING"], p),
             UNCHANGED halted
      PROVE  Inv'
  <2> DEFINE c == [ctx[current] EXCEPT !.state = "READY"]
             f == WithChild(p)
             d == [ctx[current] EXCEPT !.state = "WAITING"]
             g == [f EXCEPT ![current].state = "WAITING"]
  <2>1. ctx[p].state = "UNUSED" /\ Calling
    BY <1>2 DEF IsNewCtx, Unused, DoVfork
  <2>2. c \in Contexts /\ Sane(p, c) /\ c.state = "READY" /\ f = With(ctx, p, c)
    BY <1>2, <2>1, ChildFacts
  <2>3. /\ current \in Slots /\ current # Swapper
        /\ ctx[current] \in Contexts /\ Sane(current, ctx[current])
        /\ ctx[current].ticks_to_sleep = 0 /\ ctx[current].type = "USER"
        /\ ctx[current].state # "UNUSED"
    BY <2>1, Caller
  <2>4. d \in Contexts /\ d.state = "WAITING" /\ Sane(current, d)
    BY <2>3 DEF Contexts, States, Sane
  <2> HIDE DEF c, f
  <2>5. /\ Table(f) /\ InUse(f) = InUse(ctx) \union {p} /\ p # current /\ f[p] = c
        /\ \A q \in Slots \ {p} : f[q] = ctx[q]
    BY <2>1, <2>2, ContextAdded
  <2>6. g = With(f, current, d)
    BY <2>3, <2>5 DEF Table, With
  <2> HIDE DEF d, g
  <2>7. Table(g) /\ g[current] = d /\ \A q \in Slots \ {current} : g[q] = f[q]
    BY <2>3, <2>4, <2>5, <2>6, Replaced
  <2>8. \A q \in Slots : g[q].state # "RUNNING"
    BY <2>2, <2>4, <2>5, <2>7 DEF Inv, Runs
  <2>9. InUse(g) = InUse(f)
    BY <2>3, <2>4, <2>5, <2>7 DEF InUse
  <2>10. ctx' = Running(g, p) /\ current' = p
    BY <1>2 DEF Schedule, Running, f, g
  <2>11. g[p].state = "READY" /\ p # Swapper
    BY <2>1, <2>2, <2>5, <2>7, ContextAdded
  <2>12. Table(ctx') /\ Runs(ctx', p) /\ InUse(ctx') = InUse(g)
    BY <2>7, <2>8, <2>10, <2>11, MadeToRun
  <2>13. Cardinality(InUse(ctx')) = Cardinality(InUse(ctx)) + 1
    BY <2>1, <2>5, <2>9, <2>12, InUseGrows
  <2> QED BY <1>2, <2>10, <2>12, <2>13 DEF Inv
<1> QED BY <1>1, <1>2 DEF DoVfork

LEMMA DoCloneInv == Inv /\ DoClone => Inv'
<1> SUFFICES ASSUME Inv, DoClone PROVE Inv'
  OBVIOUS
<1>1. CASE NoSlot
  BY <1>1, NoSlotInv
<1>2. ASSUME NEW p \in Slots, IsNewCtx(p), num_contexts' = num_contexts + 1,
             ctx' = IF ctx[current].type = "USER"
                    THEN [WithChild(p) EXCEPT ![p].state = "WAITING", ![p].type = "USER_TH"]
                    ELSE ctx,
             UNCHANGED <<current, halted>>
      PROVE  Inv'
  <2> DEFINE c == [ctx[current] EXCEPT !.state = "WAITING", !.type = "USER_TH"]
  <2>1. ctx[p].state = "UNUSED" /\ Calling
    BY <1>2 DEF IsNewCtx, Unused, DoClone
  <2>2. /\ current \in Slots /\ current # Swapper
        /\ ctx[current] \in Contexts /\ Sane(current, ctx[current])
        /\ ctx[current].ticks_to_sleep = 0 /\ ctx[current].type = "USER"
        /\ ctx \in [Slots -> Contexts]
    BY <2>1, Caller
  <2>3. p # Swapper
    BY <2>1 DEF Inv, Table, Sane
  <2>4. /\ c \in Contexts /\ c.state = "WAITING" /\ c.type = "USER_TH"
        /\ c.ticks_to_sleep = 0
        /\ c.ticks_to_alarm = ctx[current].ticks_to_alarm
        /\ c.alarm_config_time = ctx[current].alarm_config_time
    BY <2>2 DEF Contexts, States, Types
  <2>5. ctx' = With(ctx, p, c)
    BY <1>2, <2>2 DEF WithChild, With
  <2> HIDE DEF c
  <2>6. Sane(p, c)
    BY <2>2, <2>3, <2>4 DEF Sane
  <2>7. /\ Table(ctx') /\ InUse(ctx') = InUse(ctx) \union {p}
        /\ Runs(ctx', current)
    BY <2>1, <2>2, <2>4, <2>5, <2>6, ContextAdded
  <2>8. Cardinality(InUse(ctx')) = Cardinality(InUse(ctx)) + 1
    BY <2>1, <2>7, InUseGrows
  <2> QED BY <1>2, <2>7, <2>8 DEF Inv
<1> QED BY <1>1, <1>2 DEF DoClone

LEMMA LaunchInv == Inv /\ Launch => Inv'
<1> SUFFICES ASSUME Inv, Launch PROVE Inv'
  OBVIOUS
<1>1. PICK p \in Slots : IsNewCtx(p) /\ ExecInit(CreateContext(p, "USER"), p)
  BY DEF Launch
<1> DEFINE c == [ctx[p] EXCEPT !.state = "READY", !.type = "USER"]
           d == [ctx[Swapper] EXCEPT !.state = "READY"]
           f == With(ctx, p, c)
           g == With(f, Swapper, d)
<1>2. /\ ctx[p].state = "UNUSED" /\ ctx[p] \in Contexts /\ Sane(p, ctx[p])
      /\ ctx[Swapper] \in Contexts /\ Sane(Swapper, ctx[Swapper])
      /\ Swapper \in Slots /\ current = Swapper
  BY <1>1, SwapperSlot DEF IsNewCtx, Unused, Inv, Table, Launch, ShellRuns
<1>3. p # Swapper /\ ctx[p].ticks_to_sleep = 0
  BY <1>2 DEF Sane
<1>4. /\ c \in Contexts /\ c.state = "READY" /\ c.type = "USER" /\ c.ticks_to_sleep = 0
      /\ c.ticks_to_alarm = ctx[p].ticks_to_alarm
      /\ c.alarm_config_time = ctx[p].alarm_config_time
  BY <1>2, <1>3 DEF Contexts, States, Types
<1>5. /\ d \in Contexts /\ d.state = "READY" /\ d.type = ctx[Swapper].type
      /\ d.ticks_to_sleep = ctx[Swapper].ticks_to_sleep
      /\ d.ticks_to_alarm = ctx[Swapper].ticks_to_alarm
      /\ d.alarm_config_time = ctx[Swapper].alarm_config_time
  BY <1>2 DEF Contexts, States
<1>6. ctx' = Running(g, p) /\ current' = p
  <2>1. ctx' = [[[ctx EXCEPT ![p].state = "NEW", ![p].type = "USER"]
                    EXCEPT ![Swapper].state = "READY"] EXCEPT ![p].state = "RUNNING"]
    BY <1>1, <1>2 DEF ExecInit, CreateContext
  <2>2. ctx \in [Slots -> Contexts]
    BY DEF Inv, Table
  <2>3. ctx' \in [Slots -> Contexts]
    BY <1>2, <2>1, <2>2 DEF Contexts, States, Types
  <2>4. Running(g, p) \in [Slots -> Contexts]
    BY <1>2, <1>3, <1>4, <1>5, <2>2 DEF Running, With, Contexts, States, Types
  <2>5. \A q \in Slots : ctx'[q] = Running(g, p)[q]
    BY <1>2, <1>3, <2>1, <2>2 DEF Running, With, Contexts
  <2>6. ctx' = Running(g, p)
    BY <2>3, <2>4, <2>5
  <2> QED BY <1>1, <2>6 DEF ExecInit
<1> HIDE DEF c, d
<1>7. Sane(p, c) /\ Sane(Swapper, d)
  BY <1>2, <1>3, <1>4, <1>5 DEF Sane
<1> HIDE DEF f
<1>8. /\ Table(f) /\ f[p] = c /\ \A q \in Slots \ {p} : f[q] = ctx[q]
      /\ InUse(f) = InUse(ctx) \union {p}
  BY <1>2, <1>4, <1>7, ContextAdded DEF f
<1> HIDE DEF g
<1>9. Table(g) /\ g[Swapper] = d /\ \A q \in Slots \ {Swapper} : g[q] = f[q]
  BY <1>2, <1>5, <1>7, <1>8, Replaced DEF g
<1>10. \A q \in Slots : g[q].state # "RUNNING"
  BY <1>2, <1>4, <1>5, <1>8, <1>9 DEF Inv, Runs
<1>11. InUse(g) = InUse(f)
  <2>1. f[Swapper].state # "UNUSED"
    BY <1>2, <1>3, <1>8 DEF Sane
  <2> QED BY <1>2, <1>5, <1>9, <2>1 DEF InUse
<1>12. g[p].state = "READY"
  BY <1>3, <1>4, <1>8, <1>9
<1>13. Table(ctx') /\ Runs(ctx', p) /\ InUse(ctx') = InUse(g)
  BY <1>3, <1>6, <1>9, <1>10, <1>12, MadeToRun
<1>14. Cardinality(InUse(ctx')) = Cardinality(InUse(ctx)) + 1
  BY <1>2, <1>8, <1>11, <1>13, InUseGrows
<1>15. num_contexts' = num_contexts + 1 /\ halted' \in BOOLEAN
  BY DEF Launch, ShellRuns, Inv
<1> QED BY <1>6, <1>13, <1>14, <1>15 DEF Inv

-----------------------------------------------------------------------------
(* The invariant and what follows from it                                  *)

\* At boot the swapper runs and is the only context in use.
LEMMA InitInv == Init => Inv
<1> SUFFICES ASSUME Init PROVE Inv
  OBVIOUS
<1>1. ctx \in [Slots -> Contexts]
  BY DEF Init, Contexts, Blank, States, Types
<1>2. \A p \in Slots : Sane(p, ctx[p])
  BY DEF Init, Blank, Sane
<1>3. Runs(ctx, current) /\ current \in Slots
  BY SwapperSlot DEF Init, Blank, Runs, ReadyIn, Users
<1>4. InUse(ctx) = {Swapper}
  BY SwapperSlot DEF Init, Blank, InUse
<1> QED BY <1>1, <1>2, <1>3, <1>4, FS_Singleton DEF Init, Inv, Table

LEMMA FaultInv == Inv /\ (\E sig \in Signals : Fault(sig)) => Inv'
BY DoExitInv DEF Fault

LEMMA NextInv == Inv /\ [Next]_vars => Inv'
<1> SUFFICES ASSUME Inv, [Next]_vars PROVE Inv'
  OBVIOUS
<1>1. CASE Next
  BY <1>1, TickInv, DoExitInv, DoSleepInv, DoAlarmInv, DoSignalInv, FaultInv, DoForkInv,
     DoVforkInv, DoCloneInv, LaunchInv DEF Next, DoSyscall
<1>2. CASE UNCHANGED vars
  BY <1>2 DEF vars, Inv, Table, InUse, Runs, ReadyIn
<1> QED BY <1>1, <1>2

THEOREM Invariance == Spec => []Inv
BY InitInv, NextInv, PTL DEF Spec

\* Every variable keeps its type.
THEOREM TypeCorrect == Spec => []TypeOK
<1>1. Inv => TypeOK
  BY InUseFinite DEF Inv, TypeOK, Table, Contexts
<1> QED BY <1>1, Invariance, PTL

\* Whatever processes call and whenever the timer ticks, one context runs.
THEOREM OneRunsAlways == Spec => []OneRuns
<1>1. Inv => OneRuns
  BY DEF Inv, Runs, OneRuns
<1> QED BY <1>1, Invariance, PTL

\* The swapper never has the CPU while a process could use it.
THEOREM WorkConserved == Spec => []WorkConserving
<1>1. Inv => WorkConserving
  BY DEF Inv, Runs, WorkConserving
<1> QED BY <1>1, Invariance, PTL

\* The count of contexts is right, so that the shell comes back exactly when
\* the last process has gone.
THEOREM CountRight == Spec => []ContextsCounted
<1>1. Inv => ContextsCounted
  BY DEF Inv, InUse, ContextsCounted
<1> QED BY <1>1, Invariance, PTL

\* An alarm is set again whenever it rings.
THEOREM AlarmStaysArmed == Spec => []AlarmArmed
<1>1. Inv => AlarmArmed
  BY DEF Inv, Table, Sane, AlarmArmed
<1> QED BY <1>1, Invariance, PTL

-----------------------------------------------------------------------------
(* Who wakes                                                               *)

Waiters == {p \in Slots : ctx[p].state = "WAITING"}

WaitersKept == \A p \in Waiters : ctx'[p] = ctx[p]

\* Giving the CPU to a READY context touches nobody who waits.
LEMMA ScheduleWakesNobody ==
  ASSUME Inv, current # Swapper, NEW f, f \in [Slots -> Contexts],
         \A p \in Slots \ {current} : f[p] = ctx[p],
         f[current].state # "READY", ScheduleNext(f)
  PROVE  WaitersKept
<1>1. PICK q \in Slots : IsNext(f, current, q) /\ ctx' = [f EXCEPT ![q].state = "RUNNING"]
  BY DEF ScheduleNext, Schedule
<1>2. q \notin Waiters
  BY <1>1 DEF IsNext, ReadyIn, Users, Waiters, Inv, Table, Sane
<1>3. current \notin Waiters
  BY DEF Waiters, Inv, Runs
<1> QED BY <1>1, <1>2, <1>3 DEF WaitersKept, Waiters

\* Nobody but the tick wakes a waiting context: not an exit, not the shell.
LEMMA CallsWakeNobody == Inv /\ Next => Tick \/ WaitersKept
<1> SUFFICES ASSUME Inv, Next PROVE Tick \/ WaitersKept
  OBVIOUS
<1>1. ctx \in [Slots -> Contexts] /\ current \in Slots /\ current \notin Waiters
  BY DEF Inv, Table, Waiters, Runs
<1>2. CASE DoExit
  <2> DEFINE f == [ctx EXCEPT ![current].state = "UNUSED"]
  <2>1. /\ f \in [Slots -> Contexts] /\ f[current].state # "READY"
        /\ \A p \in Slots \ {current} : f[p] = ctx[p]
    BY <1>1 DEF Contexts, States
  <2>2. ScheduleNext(f) /\ current # Swapper
    BY <1>2 DEF DoExit, Calling, Users
  <2> HIDE DEF f
  <2> QED BY <2>1, <2>2, ScheduleWakesNobody
<1>3. CASE \E ticks \in Ticks : DoSleep(ticks)
  <2>1. PICK ticks \in Ticks : DoSleep(ticks)
    BY <1>3
  <2> DEFINE f == [ctx EXCEPT ![current].state = "WAITING", ![current].ticks_to_sleep = ticks]
  <2>2. /\ f \in [Slots -> Contexts] /\ f[current].state # "READY"
        /\ \A p \in Slots \ {current} : f[p] = ctx[p]
    BY <1>1, SchedAssumption DEF Contexts, States
  <2>3. ScheduleNext(f) /\ current # Swapper
    BY <2>1 DEF DoSleep, Calling, Users
  <2> HIDE DEF f
  <2> QED BY <2>2, <2>3, ScheduleWakesNobody
<1>4. CASE \E ticks \in Ticks : DoAlarm(ticks)
  BY <1>1, <1>4 DEF DoAlarm, WaitersKept, Waiters
<1>5. CASE \E sig \in Signals, handled \in BOOLEAN : DoSignal(sig, handled)
  BY <1>1, <1>5 DEF DoSignal, WaitersKept, Waiters
<1>6. CASE \E sig \in Signals : Fault(sig)
  BY <1>2, <1>6 DEF Fault
<1>7. CASE DoFork
  BY <1>1, <1>7 DEF DoFork, NoSlot, IsNewCtx, Unused, WithChild, WaitersKept, Waiters
<1>8. CASE DoVfork
  BY <1>1, <1>8 DEF DoVfork, NoSlot, IsNewCtx, Unused, WithChild, Schedule, WaitersKept, Waiters
<1>9. CASE DoClone
  BY <1>1, <1>9 DEF DoClone, NoSlot, IsNewCtx, Unused, WithChild, WaitersKept, Waiters
<1>10. CASE Launch
  <2>1. PICK p \in Slots : IsNewCtx(p) /\ ExecInit(CreateContext(p, "USER"), p)
    BY <1>10 DEF Launch
  <2>2. p \notin Waiters
    BY <2>1 DEF IsNewCtx, Unused, Waiters
  <2> QED BY <1>1, <2>1, <2>2 DEF ExecInit, CreateContext, WaitersKept, Waiters
<1> QED BY <1>2, <1>3, <1>4, <1>5, <1>6, <1>7, <1>8, <1>9, <1>10 DEF Next, DoSyscall

\* The tick wakes the contexts whose last tick of a sleep it counts.
LEMMA TickWakes ==
  ASSUME Inv, Tick, NEW p \in Waiters, ctx'[p].state # "WAITING"
  PROVE  /\ ctx[p].ticks_to_sleep = 1 /\ ctx'[p].ticks_to_sleep = 0
         /\ ctx'[p].state \in {"READY", "RUNNING"}
<1>1. /\ p \in Slots /\ p # current /\ ctx[p] \in Contexts /\ ctx[p].state = "WAITING"
      /\ Table(Accounted)
  BY AccountedFacts DEF Waiters, Inv, Table, Runs
<1>2. Accounted[p] = CountDownSleep(ctx[p])
  BY <1>1 DEF Accounted
<1>3. PICK q \in Slots :
        /\ IsNext(Accounted, current, q)
        /\ IF q = current THEN ctx' = Accounted ELSE ctx' = Running(Accounted, q)
  BY DEF Tick, Schedule, Running
<1>4. ctx'[p] = Accounted[p] \/ ctx'[p] = [Accounted[p] EXCEPT !.state = "RUNNING"]
  BY <1>1, <1>3 DEF Running, Table
<1>5. Accounted[p].state # "WAITING"
  <2>1. CASE q = p
    BY <1>1, <1>3, <2>1 DEF IsNext, ReadyIn, Users, Table, Sane
  <2>2. CASE q # p
    BY <1>1, <1>3, <2>2 DEF Running, Table
  <2> QED BY <2>1, <2>2
<1>6. ctx[p].ticks_to_sleep = 1
  BY <1>1, <1>2, <1>5 DEF CountDownSleep, Contexts
<1>7. Accounted[p].ticks_to_sleep = 0 /\ Accounted[p].state = "READY"
  BY <1>1, <1>2, <1>6 DEF CountDownSleep, Contexts
<1>8. Accounted[p] \in Contexts
  BY <1>1 DEF Table
<1> QED BY <1>4, <1>6, <1>7, <1>8 DEF Contexts

\* A waiting context wakes by the last tick of its sleep and in no other way:
\* a parent in vfork, a thread of clone and a sleep of 0 ticks wait for ever.
THEOREM WakingTakesASleep == Spec => OnlySleepersWake
<1>1. Inv /\ [Next]_vars =>
        [\A p \in Slots :
           ctx[p].state = "WAITING" /\ ctx'[p].state # "WAITING" =>
             /\ ctx[p].ticks_to_sleep = 1 /\ ctx'[p].ticks_to_sleep = 0
             /\ ctx'[p].state \in {"READY", "RUNNING"}]_vars
  BY CallsWakeNobody, TickWakes DEF WaitersKept, Waiters
<1> QED BY <1>1, Invariance, PTL DEF Spec, OnlySleepersWake
=============================================================================
