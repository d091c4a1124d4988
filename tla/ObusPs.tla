-------------------------------- MODULE ObusPs ------------------------------
(***************************************************************************)
(* The process example: psd.c publishes the processes of its host, with    *)
(* the share of a processor that each has used since the scan before, in   *)
(* one bus event per scan.  Processes start, run and exit at any moment,   *)
(* also between two steps of a scan, and process numbers are used again.   *)
(*                                                                         *)
(* A share is counted in parts of Cpus to the hundred percent, for a scan  *)
(* in whose time a processor makes one tick.                               *)
(***************************************************************************)
EXTENDS Integers, FiniteSets

CONSTANTS
    Pids,        \* process numbers
    Cpus,        \* number of processors
    Wrap,        \* 2^64, where the unsigned ticks wrap around
    MaxTics,     \* bound: ticks of a process
    MaxChanges,  \* bound: changes in /proc
    Reuse,       \* are process numbers used again
    ClockSteps,  \* may the clock be set back
    Failures,    \* what may fail: "bus event", "event", "settime", "opendir", "fopen"
    MaxFails,    \* bound: failures
    MaxCalls     \* bound: calls that change the rate or the mode

PsAssumption ==
    /\ IsFiniteSet(Pids)
    /\ Cpus \in Nat \ {0} /\ MaxTics \in Nat /\ Wrap \in Nat /\ MaxTics < Wrap
    /\ MaxChanges \in Nat /\ Reuse \in BOOLEAN /\ ClockSteps \in BOOLEAN
    /\ Failures \subseteq {"bus event", "event", "settime", "opendir", "fopen"}
    /\ MaxFails \in Nat /\ MaxCalls \in Nat

VARIABLES
    procs,    \* the processes: alive, name (how many had the number), tics, state
    used,     \* the ticks of each since it was read
    changes,  \* changes in /proc so far
    mode,     \* s_pcpu_ctx.mode
    rate,     \* s_pcpu_ctx.refresh_rate, and
    timer,    \* what the timer was set to
    summary,  \* the summary object: mode, rate and the numbers of tasks
    objs,     \* the registered object of each process, or Absent
    pc,       \* "boot", "poll", "scan" or "cleanup"
    todo,     \* process numbers that a loop has to visit
    hist,     \* hist_sav: the ticks of each process in the scan before, or -1
    seen,     \* hist_new
    et,       \* elapsed time, or Epoch in the first scan
    evt,      \* the bus event: info of added and updated objects, removed ones
    stale,    \* has /proc changed since the scan began, could /proc/stat not be
              \* read, or the event not be sent
    fails,    \* failures so far
    calls     \* calls so far

world == <<procs, used, changes>>
context == <<mode, rate, timer, summary, fails, calls>>
scan == <<pc, todo, hist, seen, et, evt>>
vars == <<world, context, scan, objs, stale>>

States == {"running", "sleeping", "unknown"}
Epoch == 2
Absent == [name |-> 0]
NoTics == [p \in Pids |-> -1]
NoTasks == [total |-> 0, running |-> 0, sleeping |-> 0]
NoEvent == [info |-> [p \in Pids |-> Absent], gone |-> {}, tasks |-> NoTasks]

Init ==
    /\ procs = [p \in Pids |-> [alive |-> FALSE, name |-> 0, tics |-> 0, state |-> "running"]]
    /\ used = [p \in Pids |-> 0] /\ changes = 0
    /\ mode = "IRIX" /\ rate = 3 /\ timer = 3 /\ fails = 0 /\ calls = 0
    /\ summary = [mode |-> "IRIX", rate |-> 3, tasks |-> NoTasks]
    /\ objs = [p \in Pids |-> Absent]
    /\ pc = "boot" /\ todo = {} /\ hist = NoTics /\ seen = NoTics /\ et = 1
    /\ evt = NoEvent /\ stale = TRUE

-----------------------------------------------------------------------------
(***************************************************************************)
(* The processes.                                                          *)
(***************************************************************************)

Change(p, proc, ticks) ==
    /\ changes < MaxChanges
    /\ changes' = changes + 1
    /\ procs' = [procs EXCEPT ![p] = proc] /\ used' = [used EXCEPT ![p] = ticks]
    /\ stale' = TRUE
    /\ UNCHANGED <<context, scan, objs>>

Start(p) ==
    /\ ~procs[p].alive /\ (Reuse \/ procs[p].name = 0)
    /\ Change(p, [procs[p] EXCEPT !.alive = TRUE, !.name = @ + 1, !.tics = 0], 0)
Exit(p) == procs[p].alive /\ Change(p, [procs[p] EXCEPT !.alive = FALSE], 0)
Run(p) ==
    /\ procs[p].alive /\ procs[p].tics < MaxTics
    /\ Change(p, [procs[p] EXCEPT !.tics = @ + 1], used[p] + 1)
Sleep(p) ==
    /\ procs[p].alive
    /\ \E s \in States \ {procs[p].state} : Change(p, [procs[p] EXCEPT !.state = s], used[p])

-----------------------------------------------------------------------------
(***************************************************************************)
(* scan_process.                                                           *)
(***************************************************************************)

\* adjust max %CPU value
MaxPcpu == IF mode = "SOLARIS" THEN Cpus ELSE Cpus * Cpus

Fails(what) == what \in Failures /\ fails < MaxFails /\ fails' = fails + 1

\* Ticks as a share: none in the time since the epoch; not a number (-1) for none in no time, and at most MaxPcpu.
Pcpu(tics) ==
    LET share == IF mode = "SOLARIS" THEN tics ELSE tics * Cpus
    IN  IF et = Epoch THEN 0
        ELSE IF et = 0 THEN IF tics = 0 THEN -1 ELSE MaxPcpu
        ELSE IF share >= MaxPcpu THEN MaxPcpu ELSE share

\* compute_pcpu without a process: the time, and the ticks of the scan before.
NewHistory ==
    /\ et' \in IF pc = "boot" THEN {Epoch} ELSE IF ClockSteps THEN 0..1 ELSE {1}
    /\ hist' = seen /\ seen' = NoTics

ScanProcess ==
    /\ pc \in {"boot", "poll"} /\ pc' = "scan"
    /\ NewHistory
    /\ todo' = Pids /\ evt' = NoEvent /\ stale' = FALSE
    /\ UNCHANGED <<world, context, objs>>

\* /proc cannot be opened.
ScanProcessFails ==
    /\ pc \in {"boot", "poll"} /\ pc' = "poll" /\ Fails("opendir")
    /\ NewHistory
    /\ UNCHANGED <<world, mode, rate, timer, summary, calls, todo, evt, objs, stale>>

\* Mutant: the ticks of the scan before are not taken off.
TicsSinceStart(p) == procs[p].tics

\* compute_pcpu with a process: its ticks since the scan before.
Tics(p) == IF hist[p] = -1 THEN procs[p].tics
           ELSE (procs[p].tics - hist[p] + Wrap) % Wrap

\* Mutant: the name is taken from the object.
InfoNamed(p) == [name |-> IF objs[p] = Absent THEN procs[p].name ELSE objs[p].name,
                 state |-> procs[p].state, pcpu |-> Pcpu(Tics(p))]

\* parse_process_stat with update_process.
Info(p) == [name |-> procs[p].name, state |-> procs[p].state, pcpu |-> Pcpu(Tics(p))]

Counted(state) ==
    [t \in DOMAIN evt.tasks |-> IF t \in {"total", state} THEN evt.tasks[t] + 1 ELSE evt.tasks[t]]

\* One entry of /proc: the process may have died.
ReadOne(p) ==
    /\ pc = "scan" /\ p \in todo /\ todo' = todo \ {p}
    /\ IF procs[p].alive
       THEN /\ seen' = [seen EXCEPT ![p] = procs[p].tics]
            /\ evt' = [evt EXCEPT !.info[p] = Info(p), !.tasks = Counted(procs[p].state)]
            /\ used' = [used EXCEPT ![p] = 0]
       ELSE UNCHANGED <<seen, evt, used>>
    /\ UNCHANGED <<procs, changes, context, pc, hist, et, objs, stale>>

\* update_cpus, and the objects that are looked through: those registered, an
\* added one is not among them.
UpdateCpus ==
    /\ pc = "scan" /\ todo = {} /\ pc' = "cleanup"
    /\ todo' = {p \in Pids : objs[p] # Absent}
    /\ UNCHANGED <<world, context, hist, seen, et, evt, objs, stale>>

\* /proc/stat cannot be opened: the event leaves the summary as it is.
UpdateCpusFails ==
    /\ pc = "scan" /\ todo = {} /\ pc' = "cleanup" /\ Fails("fopen")
    /\ todo' = {p \in Pids : objs[p] # Absent}
    /\ evt' = [evt EXCEPT !.tasks = summary.tasks] /\ stale' = TRUE
    /\ UNCHANGED <<world, mode, rate, timer, summary, calls, hist, seen, et, objs>>

\* Mutant: of the objects only those that were read are looked at.
CleanupOneRead(p) ==
    /\ pc = "cleanup" /\ p \in todo /\ todo' = todo \ {p}
    /\ evt' = IF procs[p].alive \/ evt.info[p] = Absent THEN evt
              ELSE [evt EXCEPT !.gone = @ \cup {p}]
    /\ UNCHANGED <<world, context, pc, hist, seen, et, objs, stale>>

\* cleanup_process_list
CleanupOne(p) ==
    /\ pc = "cleanup" /\ p \in todo /\ todo' = todo \ {p}
    /\ evt' = IF procs[p].alive THEN evt ELSE [evt EXCEPT !.gone = @ \cup {p}]
    /\ UNCHANGED <<world, context, pc, hist, seen, et, objs, stale>>

\* ps_bus_event_send, and obus_server_commit_bus_event: updates, then removals.
Send ==
    /\ pc = "cleanup" /\ todo = {} /\ pc' = "poll"
    /\ objs' = [p \in Pids |-> IF p \in evt.gone THEN Absent
                               ELSE IF evt.info[p] # Absent THEN evt.info[p] ELSE objs[p]]
    /\ summary' = [summary EXCEPT !.tasks = evt.tasks]
    /\ evt' = NoEvent
    /\ UNCHANGED <<world, mode, rate, timer, fails, calls, todo, hist, seen, et, stale>>

\* It fails for want of memory, once there are clients to encode it for: the
\* server and the clients stay as they are.
SendFails ==
    /\ pc = "cleanup" /\ todo = {} /\ pc' = "poll"
    /\ et # Epoch /\ Fails("bus event")
    /\ evt' = NoEvent /\ stale' = TRUE
    /\ UNCHANGED <<world, mode, rate, timer, summary, calls, todo, hist, seen, et, objs>>

-----------------------------------------------------------------------------
(***************************************************************************)
(* The methods of the summary.  One thing may fail in a call: the event,   *)
(* or timerfd_settime, after which the timer goes on as it was.            *)
(***************************************************************************)

Called == pc = "poll" /\ calls < MaxCalls /\ calls' = calls + 1

SendEvent(new) ==
    \/ summary' = new /\ UNCHANGED fails
    \/ Fails("event") /\ UNCHANGED summary

\* summary_set_refresh_rate with a valid rate that is new.
SetRefreshRate(r) ==
    /\ Called /\ r # rate
    /\ rate' = r
    /\ LET new == [summary EXCEPT !.rate = r]
       IN  \/ timer' = r /\ SendEvent(new)
           \/ summary' = new /\ Fails("settime") /\ UNCHANGED timer
    /\ UNCHANGED <<world, mode, scan, objs, stale>>

\* summary_set_mode
SetMode(m) ==
    /\ Called /\ m # mode
    /\ mode' = m
    /\ SendEvent([summary EXCEPT !.mode = m])
    /\ UNCHANGED <<world, rate, timer, scan, objs, stale>>

-----------------------------------------------------------------------------
Scan == ScanProcess \/ UpdateCpus \/ Send \/ \E p \in Pids : ReadOne(p) \/ CleanupOne(p)

Next ==
    \/ Scan \/ ScanProcessFails \/ UpdateCpusFails \/ SendFails
    \/ \E p \in Pids : Start(p) \/ Exit(p) \/ Run(p) \/ Sleep(p)
    \/ \E r \in {3, 5} : SetRefreshRate(r)
    \/ \E m \in {"IRIX", "SOLARIS"} : SetMode(m)

Spec == Init /\ [][Next]_vars

\* The timer fires once nobody changes its rate any more, the main loop looks at
\* it every time round, and a scan runs to its end.
Fairness == WF_vars(Scan)

FairSpec == Spec /\ Fairness

-----------------------------------------------------------------------------
(***************************************************************************)
(* Properties.                                                             *)
(***************************************************************************)

Agrees ==
    /\ \A p \in Pids :
         IF procs[p].alive THEN objs[p].name = procs[p].name /\ objs[p].state = procs[p].state
         ELSE objs[p] = Absent
    /\ \A t \in DOMAIN summary.tasks : summary.tasks[t] =
         Cardinality({p \in Pids : procs[p].alive /\ t \in {"total", procs[p].state}})

\* After a scan that could read /proc/stat and was sent, and during which nothing
\* has changed, the objects are the processes there are, even if their numbers were
\* those of others, and the summary counts them; what scans before it have missed
\* or could not send makes no difference.
ProcessesPublished == pc = "poll" /\ ~stale => Agrees

\* Once processes are quiet the objects follow for good, although events fail.
ProcessesFollow == <>[]Agrees

\* The share of a process is that of the ticks it has used since it was read
\* before, also when a scan in between could not be sent.
TicsSinceRead == \A p \in Pids : pc = "scan" /\ p \in todo \ todo' /\ procs[p].alive
                               => evt'.info[p].pcpu = Pcpu(used[p])
TicsOfProcess == [][TicsSinceRead]_vars

\* The summary shows the mode and the rate in force, and the timer has that rate.
SummaryTrue == summary.rate = rate /\ summary.mode = mode /\ timer = rate

-----------------------------------------------------------------------------
(***************************************************************************)
(* What the code does not do, although its comments suggest it: TLC finds  *)
(* a counterexample to each of these (see the README).                     *)
(***************************************************************************)

\* In the mode SOLARIS no process has more than a hundred percent.
SolarisBound == summary.mode = "SOLARIS" =>
                   \A p \in Pids : objs[p] # Absent => objs[p].pcpu <= Cpus

\* A share is a number.
PcpuIsNumber == \A p \in Pids : objs[p] # Absent => objs[p].pcpu >= 0

=============================================================================
