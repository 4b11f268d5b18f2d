------------------------------ MODULE Threads ------------------------------
(***************************************************************************)
(* Boot order, the timer interrupt and the kernel threads of sharix:       *)
(* kern/init/init.c, kern/trap/trap.c, kern/process/{proc,thread,sched}.c  *)
(* and switch_to of kern/libs/asm_tool.S.                                   *)
(*                                                                         *)
(* One CPU runs one stack at a time.  Nothing is preempted: a timer        *)
(* interrupt only raises need_resched, which the idle loop alone reads; a  *)
(* thread gives up the CPU when its function has returned.  switch_to      *)
(* always saves into the context of the main thread, whichever stack it is *)
(* called on.                                                              *)
(***************************************************************************)
EXTENDS Naturals, Sequences, SequencesExt

CONSTANTS
  Threads,      \* every thread, the main thread included
  Main,         \* the thread with tid 0: the stack the kernel booted on
  Lists,        \* the lists proc_init may link, first thread first
  Joinable,     \* further threads a thread function may hand to thread_join
  TickNum,      \* TICK_NUM, the ticks between two requests to reschedule
  Seeds,        \* the low bits of the generator when scheduling begins
  Nobody        \* the null thread

ASSUME ThreadsAssumption ==
  /\ Main \in Threads /\ Nobody \notin Threads
  /\ \A l \in Lists :
       /\ l \in Seq(Threads) /\ l # <<>> /\ l[Len(l)] = Main
       /\ \A i, j \in 1 .. Len(l) : l[i] = l[j] => i = j
       /\ \A i \in 1 .. Len(l) : l[i] \notin Joinable
  /\ Joinable \subseteq Threads
  /\ TickNum \in Nat \ {0}
  /\ Seeds \subseteq 0 .. 8191

VARIABLES
  pc,            \* where the CPU is
  stack,         \* the thread on whose stack it is
  intr,          \* the IF flag
  idt,           \* idt_init has run
  timer,         \* clock_init has unmasked the timer
  ticks,         \* ticks % TICK_NUM
  current,       \* "none" (NULL) or "idleproc"
  needResched,   \* current->need_resched
  list,          \* current->thread_list
  currentthread,
  frame,         \* per stack, the locals of the schedule call running on it
  mainContext,   \* the stack and frame main->context was saved from
  seed,          \* rand.c: next, low 13 bits
  starts         \* per thread, how often its function was entered

boot == <<idt, timer, current>>
chosen == <<list, currentthread, seed>>
vars == <<pc, stack, intr, idt, timer, ticks, current, needResched, list,
          currentthread, frame, mainContext, seed, starts>>

NoFrame == [ret |-> "none", flag |-> FALSE, to |-> Nobody]

(* A call of schedule: where it returns to, the interrupt flag it found and *)
(* the thread it chose.                                                     *)
Returns == {"idle", "halt", "hlt"}
Frames == [ret : Returns, flag : BOOLEAN, to : Threads \cup {Nobody}]

(* kern_init's calls, in order. *)
Boot == <<"memset", "cons_init", "pmm_init", "pic_init", "idt_init",
          "clock_init", "intr_enable", "check_vmm", "sched_init",
          "proc_init", "idle">>

Init ==
  /\ pc = Boot[1]
  /\ stack = Main
  /\ intr = FALSE /\ idt = FALSE /\ timer = FALSE
  /\ ticks = 0
  /\ current = "none" /\ needResched = FALSE
  /\ list = <<>>
  /\ currentthread = Nobody
  /\ frame = [t \in Threads |-> NoFrame]
  /\ mainContext = [of |-> Main, frame |-> NoFrame]
  /\ seed \in Seeds
  /\ starts = [t \in Threads |-> 0]

-----------------------------------------------------------------------------
(* rand() % 2: the generator keeps 48 bits and returns them from bit 12 up; *)
(* the parity of its result depends on the low 13 bits alone.               *)
NextSeed(s) == (1645 * s + 11) % 8192
Odd(s) == s >= 4096
(* Mistake: every later thread replaces the choice. *)
Walk_Last(ths, s0) ==
  IF ths = <<>> THEN [run |-> Nobody, seed |-> s0]
  ELSE [run |-> ths[Len(ths)], seed |-> s0]

(* The walk of schedule over the thread list: the first thread is taken, and *)
(* every later one replaces the choice when rand() is odd.                   *)
Walk(ths, s0) ==
  LET at[i \in 1 .. Len(ths)] ==
        IF i = 1 THEN [run |-> ths[1], seed |-> s0]
        ELSE LET s == NextSeed(at[i - 1].seed)
             IN [run |-> IF Odd(s) THEN ths[i] ELSE at[i - 1].run, seed |-> s]
  IN IF ths = <<>> THEN [run |-> Nobody, seed |-> s0] ELSE at[Len(ths)]

(* kern_init up to the call of proc_init. *)
KernInit ==
  \E i \in 1 .. Len(Boot) - 2 :
    /\ pc = Boot[i]
    /\ pc' = Boot[i + 1]
    /\ idt' = (idt \/ Boot[i] = "idt_init")
    /\ timer' = (timer \/ Boot[i] = "clock_init")
    /\ intr' = (intr \/ Boot[i] = "intr_enable")
    /\ ticks' = IF Boot[i] = "clock_init" THEN 0 ELSE ticks
    /\ UNCHANGED <<stack, current, needResched, chosen, frame, mainContext,
                   starts>>

(* current is assigned after the list is built: an interrupt in between     *)
(* still finds NULL, as it does before the call.                            *)
proc_init ==
  /\ pc = "proc_init"
  /\ list' \in Lists
  /\ current' = "idleproc"
  /\ needResched' = TRUE
  /\ pc' = "idle"
  /\ UNCHANGED <<stack, intr, idt, timer, ticks, currentthread, frame,
                 mainContext, seed, starts>>

CallSchedule(ret) ==
  /\ pc' = "schedule"
  /\ frame' = [frame EXCEPT ![stack] = [NoFrame EXCEPT !.ret = ret]]

cpu_idle ==
  /\ pc = "idle" /\ needResched
  /\ CallSchedule("idle")
  /\ UNCHANGED <<stack, intr, boot, ticks, needResched, chosen, mainContext,
                 starts>>

(* schedule: local_intr_save, after the printing. *)
ScheduleEnter ==
  /\ pc = "schedule"
  /\ frame' = [frame EXCEPT ![stack].flag = intr]
  /\ intr' = FALSE
  /\ pc' = "walk"
  /\ UNCHANGED <<stack, boot, ticks, needResched, chosen, mainContext, starts>>

(* Mistake: the request is not cleared; currentthread is   *)
(* left as it was.                                                          *)
ScheduleWalk_KeepRequest ==
  /\ pc = "walk"
  /\ LET w == Walk(list, seed) IN
       /\ seed' = w.seed
       /\ frame' = [frame EXCEPT ![stack].to = w.run]
       /\ currentthread' = IF w.run = Nobody THEN currentthread ELSE w.run
       /\ pc' = IF w.run = Nobody THEN "restore" ELSE "save"
  /\ UNCHANGED <<stack, intr, boot, ticks, needResched, list, mainContext, starts>>

ScheduleWalk_KeepThread ==
  /\ pc = "walk"
  /\ LET w == Walk(list, seed) IN
       /\ seed' = w.seed
       /\ frame' = [frame EXCEPT ![stack].to = w.run]
       /\ needResched' = (needResched /\ w.run \notin {Main, Nobody})
       /\ currentthread' = IF currentthread = Nobody THEN w.run ELSE currentthread
       /\ pc' = IF w.run = Nobody THEN "restore" ELSE "save"
  /\ UNCHANGED <<stack, intr, boot, ticks, list, mainContext, starts>>

(* schedule: the choice, made with interrupts off. *)
ScheduleWalk ==
  /\ pc = "walk"
  /\ LET w == Walk(list, seed) IN
       /\ seed' = w.seed
       /\ frame' = [frame EXCEPT ![stack].to = w.run]
       /\ needResched' = (needResched /\ w.run \notin {Main, Nobody})
       /\ currentthread' = IF w.run = Nobody THEN currentthread ELSE w.run
       /\ pc' = IF w.run = Nobody THEN "restore" ELSE "save"
  /\ UNCHANGED <<stack, intr, boot, ticks, list, mainContext, starts>>

(* Mistake: a context that is in use already is kept. *)
SwitchSave_Once ==
  /\ pc = "save"
  /\ mainContext' = IF mainContext.frame = NoFrame
                    THEN [of |-> stack, frame |-> frame[stack]] ELSE mainContext
  /\ pc' = "load"
  /\ UNCHANGED <<stack, intr, boot, ticks, needResched, chosen, frame, starts>>

(* switch_to, first half: from is the context of the main thread whatever   *)
(* stack the call is on.                                                    *)
SwitchSave ==
  /\ pc = "save"
  /\ mainContext' = [of |-> stack, frame |-> frame[stack]]
  /\ pc' = "load"
  /\ UNCHANGED <<stack, intr, boot, ticks, needResched, chosen, frame, starts>>

(* switch_to, second half: the main thread goes on where its context says,  *)
(* any other thread enters its function; its flags come from a trap frame    *)
(* thread_create leaves unset, so IF is either value.                        *)
SwitchLoad ==
  /\ pc = "load"
  /\ LET t == frame[stack].to IN
       IF t = Main
       THEN /\ stack' = mainContext.of
            /\ pc' = "restore"
            /\ UNCHANGED <<intr, starts>>
       ELSE /\ stack' = t
            /\ starts' = [starts EXCEPT ![t] = @ + 1]
            /\ intr' \in BOOLEAN
            /\ pc' = "body"
  /\ UNCHANGED <<boot, ticks, needResched, chosen, frame, mainContext>>

(* Mistake: interrupts stay as they are. *)
ScheduleReturn_NoRestore ==
  /\ pc = "restore"
  /\ pc' = frame[stack].ret
  /\ frame' = [frame EXCEPT ![stack] = NoFrame]
  /\ UNCHANGED <<stack, intr, boot, ticks, needResched, chosen, mainContext, starts>>

(* thread_run and schedule: local_intr_restore and return. *)
ScheduleReturn ==
  /\ pc = "restore"
  /\ intr' = (intr \/ frame[stack].flag)
  /\ pc' = frame[stack].ret
  /\ frame' = [frame EXCEPT ![stack] = NoFrame]
  /\ UNCHANGED <<stack, boot, ticks, needResched, chosen, mainContext, starts>>

(* A thread function hands another thread to the list: thread_join inserts  *)
(* it at the head, with interrupts as they are.                             *)
thread_join(t) ==
  /\ pc = "body" /\ t \in Joinable
  /\ starts[t] = 0 /\ \A i \in 1 .. Len(list) : list[i] # t
  /\ list' = <<t>> \o list
  /\ UNCHANGED <<pc, stack, intr, boot, ticks, needResched, currentthread,
                 frame, mainContext, seed, starts>>

(* The function returns and thread_entry calls thread_exit. *)
BodyReturn ==
  /\ pc = "body"
  /\ pc' = "exit"
  /\ UNCHANGED <<stack, intr, boot, ticks, needResched, chosen, frame,
                 mainContext, starts>>

(* Mistake: the thread stays in the list. *)
thread_exit_Listed ==
  /\ pc = "exit"
  /\ CallSchedule("halt")
  /\ UNCHANGED <<stack, intr, boot, ticks, needResched, chosen, mainContext,
                 starts>>

thread_exit ==
  /\ pc = "exit"
  /\ list' = IF currentthread = Main THEN list ELSE RemoveFirst(list, currentthread)
  /\ CallSchedule("halt")
  /\ UNCHANGED <<stack, intr, boot, ticks, needResched, currentthread,
                 mainContext, seed, starts>>

(* thread_entry: halt: call schedule; hlt; jmp halt. *)
HaltLoop ==
  /\ pc = "halt"
  /\ CallSchedule("hlt")
  /\ UNCHANGED <<stack, intr, boot, ticks, needResched, chosen, mainContext,
                 starts>>

Hlt ==
  /\ pc = "hlt"
  /\ pc' = "halted"
  /\ UNCHANGED <<stack, intr, boot, ticks, needResched, chosen, frame,
                 mainContext, starts>>

(* Where an interrupted CPU goes on: hlt ends. *)
Woken(p) == IF p = "halted" THEN "halt" ELSE p

(* trap_dispatch, timer.  On every TickNum-th tick the handler writes       *)
(* through current; while current is NULL that is a write to address 8,     *)
(* which faults except while check_vmm has page 0 mapped or mappable.       *)
Tick ==
  /\ intr /\ timer /\ pc # "fault"
  /\ ticks' = (ticks + 1) % TickNum
  /\ IF ticks' = 0 /\ current = "none"
     THEN /\ pc' \in {"fault"} \cup (IF pc = "check_vmm" THEN {pc} ELSE {})
          /\ UNCHANGED needResched
     ELSE /\ needResched' = (needResched \/ ticks' = 0)
          /\ pc' = Woken(pc)
  /\ UNCHANGED <<stack, intr, boot, chosen, frame, mainContext, starts>>

(* trap_dispatch, any other source: nothing of this module changes.         *)
OtherInterrupt ==
  /\ intr /\ pc = "halted"
  /\ pc' = Woken(pc)
  /\ UNCHANGED <<stack, intr, boot, ticks, needResched, chosen, frame,
                 mainContext, starts>>

CpuStep ==
  \/ KernInit \/ proc_init \/ cpu_idle
  \/ ScheduleEnter \/ ScheduleWalk \/ SwitchSave \/ SwitchLoad \/ ScheduleReturn
  \/ BodyReturn \/ thread_exit \/ HaltLoop \/ Hlt

Next == CpuStep \/ Tick \/ OtherInterrupt \/ \E t \in Threads : thread_join(t)

(* The CPU goes on unless it waits, and the 8253 never stops ticking. *)
Spec == Init /\ [][Next]_vars /\ WF_vars(CpuStep) /\ WF_vars(Tick)

-----------------------------------------------------------------------------
(* What switch_to loads can be run: the main thread's context describes a    *)
(* call of schedule still waiting on its stack, and any other thread has     *)
(* not been started, so its first frame is intact.                           *)
Resumable ==
  pc = "load" =>
    IF frame[stack].to = Main
    THEN mainContext.frame = frame[mainContext.of] /\ mainContext.frame # NoFrame
    ELSE starts[frame[stack].to] = 0

(* thread_exit takes currentthread for the thread it runs on: the global and *)
(* the stack in use agree whenever a function is running or has returned.    *)
ExitsItself == pc \in {"body", "exit"} => currentthread = stack

(* The idle loop waits for an interrupt to set need_resched, so it must      *)
(* always run with interrupts enabled, however schedule came back to it.     *)
IdleInterruptible == pc = "idle" => intr /\ idt /\ timer

(* The last thread of the list is never lost: once proc_init has run, the    *)
(* list ends with the main thread and names no other thread twice, and none  *)
(* that has already run to its end.                                          *)
ListSound ==
  current = "idleproc" =>
    /\ list # <<>> /\ list[Len(list)] = Main
    /\ \A i, j \in 1 .. Len(list) : list[i] = list[j] => i = j
    /\ \A i \in 1 .. Len(list) :
         starts[list[i]] > 0 => list[i] = stack /\ pc \in {"body", "exit"}

(* A linked thread is started, unless the CPU waits in hlt with interrupts    *)
(* off, as it may when a thread began with IF clear and picked the main thread. *)
Stuck == pc = "halted" /\ ~intr
LinkedRun ==
  \A t \in Threads \ {Main} :
    (\E i \in 1 .. Len(list) : list[i] = t) ~> (starts[t] = 1 \/ Stuck)

(* A request to reschedule is answered: need_resched does not stay set.      *)
ReschedServed == needResched ~> ~needResched
=============================================================================
