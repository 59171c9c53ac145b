------------------------------- MODULE Sched -------------------------------
(***************************************************************************)
(* The processes of gemOS (assignment_3): the table of contexts, which of  *)
(* them runs, and the timer tick, fork, vfork, cfork, clone, sleep, alarm, *)
(* signals, exit and the shell's init that move them between their states *)
(* (schedule.c, entry.c, fork.c, context.c).  Context 0 is the swapper,    *)
(* which runs when nobody else can, and the shell in it when nobody else   *)
(* is left.  The kernel is entered through interrupt gates on one CPU, so  *)
(* that every call is a step.  A process may make any call at any time, so *)
(* what it computes in between is left out.                                *)
(***************************************************************************)
EXTENDS Integers, FiniteSets

CONSTANTS
  MAX_PROCESSES,  \* contexts in the table, the swapper included: 32 in the code
  Ticks,          \* the arguments of sleep and alarm
  Signals         \* the signals whose default is to exit: SIGSEGV and SIGFPE

ASSUME SchedAssumption ==
  /\ MAX_PROCESSES \in Nat /\ MAX_PROCESSES >= 2
  /\ Ticks \subseteq Nat

VARIABLES
  ctx,           \* the table of contexts
  current,       \* the context that has the CPU
  num_contexts,  \* how many contexts are in use, as the code counts them
  halted         \* OS_BUG stopped the machine

vars == <<ctx, current, num_contexts, halted>>

Slots == 0..(MAX_PROCESSES - 1)
Swapper == 0
Users == Slots \ {Swapper}

States == {"UNUSED", "READY", "RUNNING", "WAITING"}
Types == {"BOOT", "OS", "USER", "USER_TH"}

Blank == [state |-> "UNUSED", type |-> "BOOT", ticks_to_sleep |-> 0,
          ticks_to_alarm |-> 0, alarm_config_time |-> 0, sighandlers |-> {}]

Init ==
  /\ ctx = [p \in Slots |-> IF p = Swapper
                            THEN [Blank EXCEPT !.state = "RUNNING", !.type = "OS"]
                            ELSE Blank]
  /\ current = Swapper
  /\ num_contexts = 1
  /\ halted = FALSE

-----------------------------------------------------------------------------
(* Choosing the next context                                               *)

\* How many processes the scan from p looks at before q: p + 1, p + 2, ...,
\* then 1, 2, ... and p itself last.
Place(p, q) == (q - p - 1) % (MAX_PROCESSES - 1)

ReadyIn(f) == {q \in Users : f[q].state = "READY"}

\* Mutant: the scan gives up at the end of the table.
NextWithoutWrap(f, p, q) ==
  LET ready == {r \in ReadyIn(f) : r > p}
  IN  IF ready = {} THEN q = Swapper
      ELSE q \in ready /\ \A r \in ready : q <= r

\* Mutant: every scan starts at the first process.
NextFromFirst(f, p, q) ==
  IF ReadyIn(f) = {} THEN q = Swapper
  ELSE q \in ReadyIn(f) /\ \A r \in ReadyIn(f) : q <= r

\* q is the context pick_next_context finds for p.
IsNext(f, p, q) ==
  IF ReadyIn(f) = {} THEN q = Swapper
  ELSE q \in ReadyIn(f) /\ \A r \in ReadyIn(f) : Place(p, q) <= Place(p, r)

\* The context switch of the calls that do not return to their caller.
Schedule(f, q) ==
  /\ ctx' = [f EXCEPT ![q].state = "RUNNING"]
  /\ current' = q

ScheduleNext(f) == \E q \in Slots : IsNext(f, current, q) /\ Schedule(f, q)

-----------------------------------------------------------------------------
(* The timer tick                                                          *)

\* Mutant: whoever waits is counted down.
CountDownAll(c) ==
  IF c.state = "WAITING"
  THEN [c EXCEPT !.ticks_to_sleep = IF @ = 0 THEN 0 ELSE @ - 1,
                 !.state = IF c.ticks_to_sleep <= 1 THEN "READY" ELSE @]
  ELSE c

CountDownSleep(c) ==
  IF c.state = "WAITING" /\ c.ticks_to_sleep > 0
  THEN [c EXCEPT !.ticks_to_sleep = @ - 1,
                 !.state = IF c.ticks_to_sleep = 1 THEN "READY" ELSE @]
  ELSE c

\* At 0 SIGALRM is raised, whose default is to do nothing, and the alarm is
\* set again.
CountDownAlarm(c) ==
  [c EXCEPT !.ticks_to_alarm =
     IF @ = 0 THEN 0 ELSE IF @ = 1 THEN c.alarm_config_time ELSE @ - 1]

\* The table after do_sleep_and_alarm_account, with the caller READY.
Accounted ==
  [p \in Slots |->
     LET c == CountDownSleep(ctx[p])
     IN  IF p = current THEN [CountDownAlarm(c) EXCEPT !.state = "READY"] ELSE c]

\* A process that finds nobody else keeps the CPU, and stays READY.
Tick ==
  /\ ~halted
  /\ \E q \in Slots :
       /\ IsNext(Accounted, current, q)
       /\ IF q = current THEN ctx' = Accounted /\ UNCHANGED current
          ELSE Schedule(Accounted, q)
  /\ UNCHANGED <<num_contexts, halted>>

-----------------------------------------------------------------------------
(* System calls and faults of the process that has the CPU                 *)

Calling == ~halted /\ current \in Users

Unused == {p \in Slots : ctx[p].state = "UNUSED"}

\* The slot get_new_ctx takes.
IsNewCtx(p) == p \in Unused /\ \A q \in Unused : p <= q

\* Without a slot get_new_ctx stops the machine.
NoSlot ==
  /\ Unused = {}
  /\ halted' = TRUE
  /\ UNCHANGED <<ctx, current, num_contexts>>

\* Mutant: the count of contexts is left alone.
ReleaseUncounted == UNCHANGED num_contexts

ReleaseContext == num_contexts' = num_contexts - 1

\* vfork_exit_handle is compiled in only with vfork_var, which nothing defines.
DoExit ==
  /\ Calling
  /\ ReleaseContext
  /\ ScheduleNext([ctx EXCEPT ![current].state = "UNUSED"])
  /\ UNCHANGED halted

DoSleep(ticks) ==
  /\ Calling
  /\ ScheduleNext([ctx EXCEPT ![current].state = "WAITING",
                              ![current].ticks_to_sleep = ticks])
  /\ UNCHANGED <<num_contexts, halted>>

DoAlarm(ticks) ==
  /\ Calling
  /\ ticks > 0
  /\ ctx' = [ctx EXCEPT ![current].alarm_config_time = ticks,
                        ![current].ticks_to_alarm = ticks]
  /\ UNCHANGED <<current, num_contexts, halted>>

\* The new handler of a signal; NULL takes the handler away.
DoSignal(sig, handled) ==
  /\ Calling
  /\ ctx' = [ctx EXCEPT ![current].sighandlers =
               IF handled THEN @ \union {sig} ELSE @ \ {sig}]
  /\ UNCHANGED <<current, num_contexts, halted>>

\* A fault of the process: its handler is called or it exits.
Fault(sig) == sig \notin ctx[current].sighandlers /\ DoExit

\* The table with the child in slot p as a copy of its parent.
WithChild(p) == [ctx EXCEPT ![p] = [ctx[current] EXCEPT !.state = "READY"]]

\* do_cfork treats the states and counts the same way.
DoFork ==
  /\ Calling
  /\ \/ /\ \E p \in Slots : IsNewCtx(p) /\ ctx' = WithChild(p)
        /\ num_contexts' = num_contexts + 1
        /\ UNCHANGED <<current, halted>>
     \/ NoSlot

\* The parent waits without a time, the child runs at once.
DoVfork ==
  /\ Calling
  /\ \/ /\ \E p \in Slots :
             IsNewCtx(p) /\ Schedule([WithChild(p) EXCEPT ![current].state = "WAITING"], p)
        /\ num_contexts' = num_contexts + 1
        /\ UNCHANGED halted
     \/ NoSlot

\* The thread is left WAITING without a time; a thread may not clone.
DoClone ==
  /\ Calling
  /\ \/ /\ \E p \in Slots :
             /\ IsNewCtx(p)
             /\ ctx' = IF ctx[current].type = "USER"
                       THEN [WithChild(p) EXCEPT ![p].state = "WAITING", ![p].type = "USER_TH"]
                       ELSE ctx
        /\ num_contexts' = num_contexts + 1
        /\ UNCHANGED <<current, halted>>
     \/ NoSlot

\* create_context leaves the alarm and the handlers of the slot's last
\* process as they are.
CreateContext(p, type) == [ctx EXCEPT ![p].state = "NEW", ![p].type = type]

\* Mutant: the swapper is not switched out.
ExecOverSwapper(f, p) ==
  /\ ctx' = [f EXCEPT ![p].state = "RUNNING"]
  /\ current' = p

ExecInit(f, p) ==
  /\ ctx' = [f EXCEPT ![current].state = "READY", ![p].state = "RUNNING"]
  /\ current' = p

\* swapper_task calls the shell when the swapper is the only context.
ShellRuns == ~halted /\ current = Swapper /\ num_contexts = 1

\* The shell's init.
Launch ==
  /\ ShellRuns
  /\ \E p \in Slots : IsNewCtx(p) /\ ExecInit(CreateContext(p, "USER"), p)
  /\ num_contexts' = num_contexts + 1
  /\ UNCHANGED halted

\* The calls of do_syscall that are about processes.
DoSyscall ==
  \/ DoExit
  \/ \E ticks \in Ticks : DoSleep(ticks)
  \/ \E ticks \in Ticks : DoAlarm(ticks)
  \/ \E sig \in Signals, handled \in BOOLEAN : DoSignal(sig, handled)
  \/ DoFork
  \/ DoVfork
  \/ DoClone

Next ==
  \/ Tick
  \/ DoSyscall
  \/ \E sig \in Signals : Fault(sig)
  \/ Launch

\* The timer is periodic and its interrupt is taken whatever runs.
Spec == Init /\ [][Next]_vars /\ WF_vars(Tick)

-----------------------------------------------------------------------------
(* Properties                                                              *)

TypeOK ==
  /\ ctx \in [Slots -> [state : States, type : Types,
                        ticks_to_sleep : Nat, ticks_to_alarm : Nat,
                        alarm_config_time : Nat, sighandlers : SUBSET Signals]]
  /\ current \in Slots
  /\ num_contexts \in Nat
  /\ halted \in BOOLEAN

\* Only the context that has the CPU is RUNNING, and it is RUNNING or, when a
\* tick found nobody else, READY: no exit, sleep, vfork or launch leaves the
\* CPU with a context that waits or is gone (set_current_ctx and the state
\* are stored apart in schedule, handle_timer_tick and exec_init).
OneRuns ==
  /\ \A p \in Slots : ctx[p].state = "RUNNING" => p = current
  /\ ctx[current].state \in {"RUNNING", "READY"}

\* The swapper has the CPU only while no process could use it, whoever exits,
\* goes to sleep or wakes, and however the scan of pick_next_context wraps.
WorkConserving == current = Swapper => ReadyIn(ctx) = {}

\* num_contexts, which lets the shell back in, is the number of contexts in
\* use over every life of a slot (get_new_ctx, release_context).
ContextsCounted ==
  num_contexts = Cardinality({p \in Slots : ctx[p].state # "UNUSED"})

\* An alarm once set never runs dry: the ticks left are 0 only if none was
\* set in this slot, in a parent's or in an earlier life of it.
AlarmArmed ==
  \A p \in Slots :
    /\ ctx[p].ticks_to_alarm = 0 <=> ctx[p].alarm_config_time = 0
    /\ ctx[p].ticks_to_alarm <= ctx[p].alarm_config_time

\* Only the last tick of a sleep wakes a WAITING context.  A parent that
\* called vfork, a thread made by clone and a sleep of 0 ticks have none.
OnlySleepersWake ==
  [][\A p \in Slots :
       ctx[p].state = "WAITING" /\ ctx'[p].state # "WAITING" =>
         /\ ctx[p].ticks_to_sleep = 1 /\ ctx'[p].ticks_to_sleep = 0
         /\ ctx'[p].state \in {"READY", "RUNNING"}]_vars

\* A process that is READY or sleeps for a time gets the CPU again, whatever
\* the others do: the scan goes round and the timer ticks.
EveryoneRuns ==
  \A p \in Users :
    ctx[p].state = "READY" \/ (ctx[p].state = "WAITING" /\ ctx[p].ticks_to_sleep > 0)
      ~> current = p \/ halted
=============================================================================
