------------------------ MODULE ObusExampleTheorems ------------------------
(***************************************************************************)
(* Proofs about the two example servers, for all values of the constants:  *)
(* psd.c (ObusPs) and netd.c (ObusNet) publish what there is.              *)
(***************************************************************************)
EXTENDS ObusPs, Sequences, FiniteSetTheorems, TLAPS

-----------------------------------------------------------------------------
(***************************************************************************)
(* psd.c: the processes.                                                   *)
(***************************************************************************)

\* The counters of the summary object.
Tasks == {"total", "running", "sleeping"}

\* The processes among S that count as task t.
Among(S, t) == {p \in S : procs[p].alive /\ t \in {"total", procs[p].state}}

\* What the variables are made of.  A process that lives has a name, and before the
\* first scan nothing is known.
PsTypes ==
    /\ DOMAIN procs = Pids /\ DOMAIN objs = Pids
    /\ \A p \in Pids :
         /\ DOMAIN procs[p] = {"alive", "name", "tics", "state"}
         /\ procs[p].alive \in BOOLEAN /\ procs[p].name \in Nat
         /\ procs[p].alive => procs[p].name # 0
    /\ DOMAIN evt = {"info", "gone", "tasks"}
    /\ DOMAIN evt.info = Pids /\ DOMAIN evt.tasks = Tasks
    /\ DOMAIN summary = {"mode", "rate", "tasks"} /\ DOMAIN summary.tasks = Tasks
    /\ pc \in {"boot", "poll", "scan", "cleanup"}
    /\ pc = "boot" => stale

\* Object o is up to date about process p.
Describes(o, p) == o.name = procs[p].name /\ o.state = procs[p].state

\* What a scan has gathered of the processes S.
Gathered(S) ==
    /\ \A p \in Pids : IF p \in S /\ procs[p].alive THEN Describes(evt.info[p], p)
                       ELSE evt.info[p] = Absent
    /\ \A t \in Tasks : evt.tasks[t] = Cardinality(Among(S, t))

\* How far a scan has come while no process changes: in a scan the event holds what
\* was read so far, in the cleanup all of it, and what is gone is being removed.
Scanned ==
    ~stale =>
      /\ pc = "scan" => todo \subseteq Pids /\ evt.gone = {} /\ Gathered(Pids \ todo)
      /\ pc = "cleanup" =>
           /\ Gathered(Pids)
           /\ \A p \in Pids : IF procs[p].alive THEN p \notin evt.gone
                              ELSE p \in todo \cup evt.gone \/ objs[p] = Absent
      /\ pc = "poll" => Agrees

\* The inductive invariant of ProcessesPublished.
PsInv == PsTypes /\ Scanned

\* No process is in a state when there are none.
LEMMA EmptyAmong == ASSUME NEW t PROVE Cardinality(Among({}, t)) = 0
<1>1. Among({}, t) = {}
  BY Zenon DEF Among
<1> QED
  BY <1>1, FS_EmptySet, Zenon

\* A process changes: what a scan has read may be out of date from then on.
LEMMA ChangeStale ==
    ASSUME PsTypes, NEW p \in Pids, NEW new, NEW ticks, Change(p, new, ticks),
           DOMAIN new = {"alive", "name", "tics", "state"}, new.alive \in BOOLEAN,
           new.name \in Nat, new.alive => new.name # 0
    PROVE  PsInv'
<1>1. /\ procs' = [procs EXCEPT ![p] = new] /\ stale'
      /\ UNCHANGED <<objs, evt, summary, pc>>
  BY Zenon DEF Change, context, scan
<1>2. PsTypes'
  BY <1>1, Zenon DEF PsTypes
<1> QED
  BY <1>1, <1>2, Zenon DEF PsInv, Scanned

\* Processes start, run and end while a scan goes on.
LEMMA ProcessesKeep ==
    ASSUME PsInv, NEW p \in Pids, Start(p) \/ Exit(p) \/ Run(p) \/ Sleep(p)
    PROVE  PsInv'
<1>0. PsTypes
  BY Zenon DEF PsInv
<1> PICK old : old = procs[p]
  BY Zenon
<1>1. /\ DOMAIN old = {"alive", "name", "tics", "state"}
      /\ old.alive \in BOOLEAN /\ old.name \in Nat /\ (old.alive => old.name # 0)
  BY <1>0, Zenon DEF PsTypes
<1>2. CASE Start(p)
  <2> PICK new : new = [old EXCEPT !.alive = TRUE, !.name = @ + 1, !.tics = 0]
    BY Zenon
  <2>1. /\ DOMAIN new = {"alive", "name", "tics", "state"}
        /\ new.alive = TRUE /\ new.name \in Nat /\ new.name # 0
    BY <1>1
  <2> QED
    BY <1>0, <1>2, <2>1, ChangeStale, Zenon DEF Start
<1>3. CASE Exit(p)
  <2> PICK new : new = [old EXCEPT !.alive = FALSE]
    BY Zenon
  <2>1. /\ DOMAIN new = {"alive", "name", "tics", "state"}
        /\ new.alive = FALSE /\ new.name \in Nat
    BY <1>1, Zenon
  <2> QED
    BY <1>0, <1>3, <2>1, ChangeStale, Zenon DEF Exit
<1>4. CASE Run(p)
  <2> PICK new : new = [old EXCEPT !.tics = @ + 1]
    BY Zenon
  <2>1. /\ DOMAIN new = {"alive", "name", "tics", "state"}
        /\ new.alive = old.alive /\ new.name = old.name
    BY <1>1, Zenon
  <2> QED
    BY <1>0, <1>1, <1>4, <2>1, ChangeStale, Zenon DEF Run
<1>5. CASE Sleep(p)
  <2>1. PICK s \in States : Change(p, [old EXCEPT !.state = s], used[p])
    BY <1>5, Zenon DEF Sleep
  <2> PICK new : new = [old EXCEPT !.state = s]
    BY Zenon
  <2>2. /\ DOMAIN new = {"alive", "name", "tics", "state"}
        /\ new.alive = old.alive /\ new.name = old.name
    BY <1>1, Zenon
  <2> QED
    BY <1>0, <1>1, <2>1, <2>2, ChangeStale, Zenon
<1> QED
  BY <1>2, <1>3, <1>4, <1>5, Zenon

\* Nothing that the invariant is about is written.
LEMMA Untouched ==
    ASSUME PsInv, UNCHANGED <<procs, objs, evt, pc, todo, stale>>,
           DOMAIN summary' = {"mode", "rate", "tasks"}, summary'.tasks = summary.tasks
    PROVE  PsInv'
<1>1. /\ \A S, t : Among(S, t)' = Among(S, t)
      /\ \A o, p : Describes(o, p)' <=> Describes(o, p)
  BY Zenon DEF Among, Describes
<1>2. Agrees => Agrees'
  BY DEF Agrees
<1>3. \A S : Gathered(S) => Gathered(S)'
  BY <1>1, Zenon DEF Gathered
<1>4. PsTypes' /\ Scanned
  BY Zenon DEF PsInv, PsTypes
<1>5. Scanned'
  BY <1>2, <1>3, <1>4, Zenon DEF Scanned
<1> QED
  BY <1>4, <1>5, Zenon DEF PsInv

\* A call of a client changes the rate or the mode in the summary and no process.
LEMMA CallsKeep ==
    ASSUME PsInv,
           (\E r \in {3, 5} : SetRefreshRate(r)) \/ (\E m \in {"IRIX", "SOLARIS"} : SetMode(m))
    PROVE  PsInv'
<1>1. PICK x, y : (summary' = [summary EXCEPT !.rate = x] \/ summary' = [summary EXCEPT !.mode = y]
                    \/ summary' = summary)
  BY Zenon DEF SetRefreshRate, SetMode, SendEvent
<1>2. UNCHANGED <<procs, objs, evt, pc, todo, stale>>
  BY Zenon DEF SetRefreshRate, SetMode, world, scan
<1>3. DOMAIN summary = {"mode", "rate", "tasks"}
  BY Zenon DEF PsInv, PsTypes
<1>4. DOMAIN summary' = {"mode", "rate", "tasks"} /\ summary'.tasks = summary.tasks
  BY <1>1, <1>3, Zenon
<1> QED
  BY <1>2, <1>4, Untouched, Zenon

\* A scan that has read nothing yet.
LEMMA NothingRead ==
    ASSUME PsTypes, evt' = NoEvent, UNCHANGED <<procs, objs, summary>>
    PROVE  /\ DOMAIN evt' = {"info", "gone", "tasks"}
           /\ DOMAIN evt'.info = Pids /\ DOMAIN evt'.tasks = Tasks
           /\ evt'.gone = {} /\ Gathered({})'
<1>1. /\ DOMAIN evt' = {"info", "gone", "tasks"} /\ DOMAIN evt'.info = Pids
      /\ DOMAIN evt'.tasks = Tasks /\ evt'.gone = {}
      /\ \A t \in Tasks : evt'.tasks[t] = 0
      /\ \A p \in Pids : evt'.info[p] = Absent
  BY DEF NoEvent, NoTasks, Tasks
<1>2. \A t \in Tasks : Cardinality(Among({}, t)') = 0
  BY EmptyAmong, Zenon DEF Among
<1> QED
  BY <1>1, <1>2, Zenon DEF Gathered

\* scan_process begins with nothing gathered.
LEMMA ScanBegins == ASSUME PsInv, ScanProcess PROVE PsInv'
<1>1. /\ pc' = "scan" /\ todo' = Pids /\ evt' = NoEvent /\ stale' = FALSE
      /\ UNCHANGED <<procs, objs, summary>>
  BY Zenon DEF ScanProcess, world, context
<1>2. PsTypes
  BY Zenon DEF PsInv
<1>3. Pids \ Pids = {}
  BY Zenon
<1>4. PsTypes'
  BY <1>1, <1>2, NothingRead, Zenon DEF PsTypes
<1>5. Gathered({})' /\ evt'.gone = {}
  BY <1>1, <1>2, NothingRead, Zenon
<1>6. Gathered(Pids \ todo)'
  BY <1>1, <1>3, <1>5, Zenon DEF Gathered
<1> QED
  BY <1>1, <1>4, <1>5, <1>6, Zenon DEF PsInv, Scanned

\* What scan_process reads of one process is gathered.
LEMMA ReadKeeps ==
    ASSUME PsAssumption, PsInv, NEW p \in Pids, ReadOne(p)
    PROVE  PsInv'
<1>0. PsTypes /\ Scanned
  BY Zenon DEF PsInv
<1>1. /\ pc = "scan" /\ pc' = "scan" /\ p \in todo /\ todo' = todo \ {p}
      /\ UNCHANGED <<procs, objs, stale, summary>>
  BY Zenon DEF ReadOne, context
<1> PICK S, T : S = Pids \ todo /\ T = Pids \ todo'
  BY Zenon
<1>2. ~stale => todo \subseteq Pids /\ evt.gone = {} /\ Gathered(S)
  BY <1>0, <1>1, Zenon DEF Scanned
<1>3. T = S \cup {p} /\ p \notin S /\ S \subseteq Pids
  BY <1>1, Zenon
<1>4. \A X, t : Among(X, t)' = Among(X, t)
  BY <1>1, Zenon DEF Among
<1>5. CASE procs[p].alive
  <2> PICK i, c : i = Info(p) /\ c = Counted(procs[p].state)
    BY Zenon
  <2>1. evt' = [evt EXCEPT !.info[p] = i, !.tasks = c]
    BY <1>5, Zenon DEF ReadOne
  <2>2. /\ DOMAIN evt = {"info", "gone", "tasks"} /\ DOMAIN evt.info = Pids
        /\ DOMAIN evt.tasks = Tasks
    BY <1>0, Zenon DEF PsTypes
  <2>3. /\ DOMAIN evt' = {"info", "gone", "tasks"} /\ evt'.gone = evt.gone /\ evt'.tasks = c
        /\ evt'.info = [evt.info EXCEPT ![p] = i]
    BY <2>1, <2>2, Zenon
  <2>4. DOMAIN evt'.info = Pids /\ DOMAIN evt'.tasks = Tasks
    BY <2>2, <2>3, Zenon DEF Counted
  <2>5. PsTypes'
    BY <1>0, <1>1, <2>3, <2>4, Zenon DEF PsTypes
  <2>6. ASSUME ~stale, NEW q \in Pids
        PROVE  IF q \in T /\ procs[q].alive THEN Describes(evt'.info[q], q)
               ELSE evt'.info[q] = Absent
    <3>1. CASE q = p
      <4>1. evt'.info[q] = i /\ Describes(i, p)
        BY <2>2, <2>3, <3>1, Zenon DEF Describes, Info
      <4> QED
        BY <1>3, <1>5, <3>1, <4>1, Zenon
    <3>2. CASE q # p
      <4>1. evt'.info[q] = evt.info[q] /\ (q \in T <=> q \in S)
        BY <1>3, <2>2, <2>3, <3>2, Zenon
      <4> QED
        BY <1>2, <2>6, <4>1, Zenon DEF Gathered
    <3> QED
      BY <3>1, <3>2, Zenon
  <2>7. ASSUME ~stale, NEW t \in Tasks
        PROVE  evt'.tasks[t] = Cardinality(Among(T, t))
    <3>1. evt.tasks[t] = Cardinality(Among(S, t))
      BY <1>2, <2>7, Zenon DEF Gathered
    <3>2. IsFiniteSet(Among(S, t))
      <4>1. Among(S, t) \subseteq Pids
        BY <1>3, Zenon DEF Among
      <4> QED
        BY <4>1, FS_Subset, Zenon DEF PsAssumption
    <3>3. CASE t \in {"total", procs[p].state}
      <4>1. Among(T, t) = Among(S, t) \cup {p} /\ p \notin Among(S, t)
        BY <1>3, <1>5, <3>3, Zenon DEF Among
      <4>2. Cardinality(Among(T, t)) = Cardinality(Among(S, t)) + 1
        BY <3>2, <4>1, FS_AddElement, ZenonT(40)
      <4>3. evt'.tasks[t] = evt.tasks[t] + 1
        BY <2>2, <2>3, <3>3, Zenon DEF Counted
      <4> QED
        BY <3>1, <4>2, <4>3, Zenon
    <3>4. CASE t \notin {"total", procs[p].state}
      <4>1. Among(T, t) = Among(S, t)
        BY <1>3, <3>4, Zenon DEF Among
      <4>2. evt'.tasks[t] = evt.tasks[t]
        BY <2>2, <2>3, <3>4 DEF Counted
      <4> QED
        BY <3>1, <4>1, <4>2, Zenon
    <3> QED
      BY <3>3, <3>4, Zenon
  <2>8. ~stale => Gathered(T)'
    BY <1>1, <1>4, <2>6, <2>7, Zenon DEF Gathered, Describes
  <2>9. ~stale => Gathered(Pids \ todo)'
    BY <2>8, Zenon DEF Gathered
  <2> QED
    BY <1>1, <1>2, <2>3, <2>5, <2>9, Zenon DEF PsInv, Scanned
<1>6. CASE ~procs[p].alive
  <2>1. evt' = evt
    BY <1>6, Zenon DEF ReadOne
  <2>2. \A t : Among(T, t) = Among(S, t)
    BY <1>3, <1>6, Zenon DEF Among
  <2>3. \A q \in Pids : q \in T /\ procs[q].alive <=> q \in S /\ procs[q].alive
    BY <1>3, <1>6, Zenon
  <2>4. ~stale => Gathered(T)'
    BY <1>1, <1>2, <1>4, <2>1, <2>2, <2>3, Zenon DEF Gathered, Describes
  <2>5. ~stale => Gathered(Pids \ todo)'
    BY <2>4, Zenon DEF Gathered
  <2>6. PsTypes'
    BY <1>0, <1>1, <2>1, Zenon DEF PsTypes
  <2> QED
    BY <1>1, <1>2, <2>1, <2>5, <2>6, Zenon DEF PsInv, Scanned
<1> QED
  BY <1>5, <1>6, Zenon

\* The CPU times are computed from what was gathered.
LEMMA UpdateCpusKeeps == ASSUME PsInv, UpdateCpus PROVE PsInv'
<1>0. PsTypes /\ Scanned
  BY Zenon DEF PsInv
<1>1. /\ pc = "scan" /\ todo = {} /\ pc' = "cleanup" /\ todo' = {p \in Pids : objs[p] # Absent}
      /\ UNCHANGED <<procs, objs, stale, summary, evt>>
  BY Zenon DEF UpdateCpus, world, context
<1>2. PsTypes'
  BY <1>0, <1>1, Zenon DEF PsTypes
<1>3. ~stale => evt.gone = {} /\ Gathered(Pids)
  <2>1. Pids \ todo = Pids
    BY <1>1, Zenon
  <2>2. ~stale => evt.gone = {} /\ Gathered(Pids \ todo)
    BY <1>0, <1>1, Zenon DEF Scanned
  <2> QED
    BY <2>1, <2>2, Zenon
<1>4. Gathered(Pids) => Gathered(Pids)'
  BY <1>1, Zenon DEF Gathered, Among, Describes
<1> QED
  BY <1>1, <1>2, <1>3, <1>4, Zenon DEF PsInv, Scanned

\* A process that was not read is removed from what is to be published.
LEMMA CleanupKeeps == ASSUME PsInv, NEW p \in Pids, CleanupOne(p) PROVE PsInv'
<1>0. PsTypes /\ Scanned
  BY Zenon DEF PsInv
<1>1. /\ pc = "cleanup" /\ pc' = "cleanup" /\ p \in todo /\ todo' = todo \ {p}
      /\ UNCHANGED <<procs, objs, stale, summary>>
      /\ evt' = IF procs[p].alive THEN evt ELSE [evt EXCEPT !.gone = @ \cup {p}]
  BY Zenon DEF CleanupOne, world, context
<1>2. DOMAIN evt = {"info", "gone", "tasks"}
  BY <1>0, Zenon DEF PsTypes
<1>3. /\ DOMAIN evt' = {"info", "gone", "tasks"} /\ evt'.info = evt.info /\ evt'.tasks = evt.tasks
      /\ evt'.gone = IF procs[p].alive THEN evt.gone ELSE evt.gone \cup {p}
  BY <1>1, <1>2, Zenon
<1>4. PsTypes'
  BY <1>0, <1>1, <1>3, Zenon DEF PsTypes
<1>5. Gathered(Pids) => Gathered(Pids)'
  BY <1>1, <1>3 DEF Gathered, Among, Describes
<1>6. ~stale =>
        /\ Gathered(Pids)
        /\ \A q \in Pids : IF procs[q].alive THEN q \notin evt.gone
                           ELSE q \in todo \cup evt.gone \/ objs[q] = Absent
  BY <1>0, <1>1, Zenon DEF Scanned
<1>7. ~stale => \A q \in Pids : IF procs[q].alive THEN q \notin evt'.gone
                                ELSE q \in todo' \cup evt'.gone \/ objs[q] = Absent
  BY <1>1, <1>3, <1>6, Zenon
<1> QED
  BY <1>1, <1>4, <1>5, <1>6, <1>7, Zenon DEF PsInv, Scanned

\* The bus event publishes what was gathered.
LEMMA SendPublishes == ASSUME PsInv, Send PROVE PsInv'
<1>0. PsTypes /\ Scanned
  BY Zenon DEF PsInv
<1>1. /\ pc = "cleanup" /\ todo = {} /\ pc' = "poll" /\ evt' = NoEvent
      /\ objs' = [p \in Pids |-> IF p \in evt.gone THEN Absent
                                 ELSE IF evt.info[p] # Absent THEN evt.info[p] ELSE objs[p]]
      /\ summary' = [summary EXCEPT !.tasks = evt.tasks]
      /\ UNCHANGED <<procs, stale>>
  BY Zenon DEF Send, world
<1>2. /\ DOMAIN evt' = {"info", "gone", "tasks"} /\ DOMAIN evt'.info = Pids
      /\ DOMAIN evt'.tasks = Tasks
  BY <1>1, Zenon DEF NoEvent, NoTasks, Tasks
<1>3. /\ DOMAIN summary' = {"mode", "rate", "tasks"} /\ summary'.tasks = evt.tasks
      /\ DOMAIN evt.tasks = Tasks
  BY <1>0, <1>1, Zenon DEF PsTypes
<1>4. PsTypes'
  BY <1>0, <1>1, <1>2, <1>3, Zenon DEF PsTypes
<1>5. ASSUME ~stale PROVE Agrees'
  <2>1. /\ Gathered(Pids)
        /\ \A q \in Pids : IF procs[q].alive THEN q \notin evt.gone
                           ELSE q \in evt.gone \/ objs[q] = Absent
    BY <1>0, <1>1, <1>5, Zenon DEF Scanned
  <2>2. ASSUME NEW q \in Pids, procs[q].alive
        PROVE  objs'[q].name = procs[q].name /\ objs'[q].state = procs[q].state
    <3>1. Describes(evt.info[q], q) /\ q \notin evt.gone
      BY <2>1, <2>2, Zenon DEF Gathered
    <3>2. evt.info[q] # Absent
      <4>1. evt.info[q].name # 0
        BY <1>0, <2>2, <3>1, Zenon DEF PsTypes, Describes
      <4>2. Absent.name = 0
        BY Zenon DEF Absent
      <4> QED
        BY <4>1, <4>2, Zenon
    <3>3. objs'[q] = evt.info[q]
      BY <1>1, <3>1, <3>2, Zenon
    <3> QED
      BY <3>1, <3>3, Zenon DEF Describes
  <2>3. ASSUME NEW q \in Pids, ~procs[q].alive PROVE objs'[q] = Absent
    BY <1>1, <2>1, <2>3, Zenon DEF Gathered
  <2>4. \A t \in Tasks : evt.tasks[t] =
          Cardinality({p \in Pids : procs[p].alive /\ t \in {"total", procs[p].state}})
    BY <2>1, Zenon DEF Gathered, Among
  <2>5. \A p \in Pids :
         IF procs[p].alive THEN objs'[p].name = procs[p].name /\ objs'[p].state = procs[p].state
         ELSE objs'[p] = Absent
    BY <2>2, <2>3, Zenon
  <2>6. \A t \in DOMAIN summary'.tasks : summary'.tasks[t] =
          Cardinality({p \in Pids : procs[p].alive /\ t \in {"total", procs[p].state}})
    BY <1>3, <2>4, Zenon
  <2> QED
    BY <1>1, <2>5, <2>6, Zenon DEF Agrees
<1> QED
  BY <1>1, <1>4, <1>5, Zenon DEF PsInv, Scanned

\* A scan that fails: nothing is published, and the objects stay as out of date as they were.
LEMMA FailuresKeep ==
    ASSUME PsInv, ScanProcessFails \/ UpdateCpusFails \/ SendFails
    PROVE  PsInv'
<1>0. PsTypes
  BY Zenon DEF PsInv
<1>1. CASE ScanProcessFails
  <2>1. /\ pc \in {"boot", "poll"} /\ pc' = "poll"
        /\ UNCHANGED <<procs, objs, evt, todo, stale, summary>>
    BY <1>1, Zenon DEF ScanProcessFails, world
  <2>2. PsTypes'
    BY <1>0, <2>1, Zenon DEF PsTypes
  <2>3. ~stale => Agrees
    BY <1>0, <2>1, Zenon DEF PsInv, PsTypes, Scanned
  <2>4. Agrees => Agrees'
    BY <2>1, Zenon DEF Agrees
  <2> QED
    BY <2>1, <2>2, <2>3, <2>4, Zenon DEF PsInv, Scanned
<1>2. CASE UpdateCpusFails
  <2>1. /\ pc' = "cleanup" /\ stale' = TRUE /\ UNCHANGED <<procs, objs, summary>>
        /\ evt' = [evt EXCEPT !.tasks = summary.tasks]
    BY <1>2, Zenon DEF UpdateCpusFails, world
  <2>2. PsTypes'
    BY <1>0, <2>1, Zenon DEF PsTypes
  <2> QED
    BY <2>1, <2>2, Zenon DEF PsInv, Scanned
<1>3. CASE SendFails
  <2>1. /\ pc' = "poll" /\ stale' = TRUE /\ UNCHANGED <<procs, objs, summary>> /\ evt' = NoEvent
    BY <1>3, Zenon DEF SendFails, world
  <2>2. PsTypes'
    BY <1>0, <2>1, NothingRead, Zenon DEF PsTypes
  <2> QED
    BY <2>1, <2>2, Zenon DEF PsInv, Scanned
<1> QED
  BY <1>1, <1>2, <1>3, Zenon

\* Every step keeps the invariant.
LEMMA PsStep == ASSUME PsAssumption, PsInv, [Next]_vars PROVE PsInv'
<1>1. CASE Scan
  BY <1>1, ScanBegins, UpdateCpusKeeps, SendPublishes, ReadKeeps, CleanupKeeps, Zenon DEF Scan
<1>2. CASE ScanProcessFails \/ UpdateCpusFails \/ SendFails
  BY <1>2, FailuresKeep, Zenon
<1>3. CASE \E p \in Pids : Start(p) \/ Exit(p) \/ Run(p) \/ Sleep(p)
  BY <1>3, ProcessesKeep, Zenon
<1>4. CASE (\E r \in {3, 5} : SetRefreshRate(r)) \/ (\E m \in {"IRIX", "SOLARIS"} : SetMode(m))
  BY <1>4, CallsKeep, Zenon
<1>5. CASE UNCHANGED vars
  <2>1. UNCHANGED <<procs, objs, evt, pc, todo, stale, summary>>
    BY <1>5, Zenon DEF vars, world, context, scan
  <2>2. DOMAIN summary' = {"mode", "rate", "tasks"} /\ summary'.tasks = summary.tasks
    BY <2>1, Zenon DEF PsInv, PsTypes
  <2> QED
    BY <2>1, <2>2, Untouched, Zenon
<1> QED
  BY <1>1, <1>2, <1>3, <1>4, <1>5, Zenon DEF Next

\* It holds at the start.
LEMMA PsStart == ASSUME Init PROVE PsInv
<1>1. /\ procs = [p \in Pids |-> [alive |-> FALSE, name |-> 0, tics |-> 0, state |-> "running"]]
      /\ objs = [p \in Pids |-> Absent] /\ pc = "boot" /\ stale = TRUE
      /\ summary = [mode |-> "IRIX", rate |-> 3, tasks |-> NoTasks] /\ evt = NoEvent
  BY Zenon DEF Init
<1>2. PsTypes
  BY <1>1, Zenon DEF PsTypes, NoEvent, NoTasks, Tasks
<1> QED
  BY <1>1, <1>2, Zenon DEF PsInv, Scanned

\* The summary is rewritten whenever the mode or the rate are, and the timer is set,
\* unless one of the two fails.
LEMMA SummaryStep ==
    ASSUME {"event", "settime"} \cap Failures = {}, PsTypes, SummaryTrue, [Next]_vars
    PROVE  SummaryTrue'
<1>0. DOMAIN summary = {"mode", "rate", "tasks"}
  BY Zenon DEF PsTypes
<1>1. ASSUME NEW r, SetRefreshRate(r) PROVE SummaryTrue'
  <2>0. "event" \notin Failures /\ "settime" \notin Failures
    BY Zenon
  <2>1. rate' = r /\ timer' = r /\ mode' = mode /\ summary' = [summary EXCEPT !.rate = r]
    BY <1>1, <2>0, Zenon DEF SetRefreshRate, SendEvent, Fails
  <2> QED
    BY <1>0, <2>1, Zenon DEF SummaryTrue
<1>2. ASSUME NEW m, SetMode(m) PROVE SummaryTrue'
  <2>0. "event" \notin Failures
    BY Zenon
  <2>1. rate' = rate /\ timer' = timer /\ mode' = m /\ summary' = [summary EXCEPT !.mode = m]
    BY <1>2, <2>0, Zenon DEF SetMode, SendEvent, Fails
  <2> QED
    BY <1>0, <2>1, Zenon DEF SummaryTrue
<1>3. CASE Send
  <2>1. UNCHANGED <<mode, rate, timer>> /\ summary' = [summary EXCEPT !.tasks = evt.tasks]
    BY <1>3, Zenon DEF Send
  <2> QED
    BY <1>0, <2>1, Zenon DEF SummaryTrue
<1>4. CASE UNCHANGED <<mode, rate, timer, summary>>
  BY <1>4, Zenon DEF SummaryTrue
<1>5. ASSUME NEW p, ReadOne(p) \/ CleanupOne(p) \/ Start(p) \/ Exit(p) \/ Run(p) \/ Sleep(p)
      PROVE  UNCHANGED <<mode, rate, timer, summary>>
  BY <1>5, Zenon DEF ReadOne, CleanupOne, Start, Exit, Run, Sleep, Change, context
<1>6. ASSUME ScanProcess \/ UpdateCpus \/ ScanProcessFails \/ UpdateCpusFails
             \/ SendFails \/ UNCHANGED vars
      PROVE  UNCHANGED <<mode, rate, timer, summary>>
  BY <1>6, Zenon DEF ScanProcess, UpdateCpus, ScanProcessFails, UpdateCpusFails, SendFails, vars, context
<1> QED
  BY <1>1, <1>2, <1>3, <1>4, <1>5, <1>6, Zenon DEF Next, Scan

\* After a scan of psd.c (scan_process, ps_bus_event_send) that could read /proc/stat
\* and was sent, and during which no process has changed, the objects are the
\* processes that there are and the summary counts them, whatever earlier scans have
\* missed or could not send, for any number of processes.  If neither an event of the
\* summary nor timerfd_settime fails, the summary shows the mode and the rate in
\* force, and the timer has that rate.
THEOREM ProcessesPublishedCorrect ==
    ASSUME PsAssumption
    PROVE  Spec => [](ProcessesPublished /\ ({"event", "settime"} \cap Failures = {} => SummaryTrue))
<1> DEFINE Inv == PsInv /\ ({"event", "settime"} \cap Failures = {} => SummaryTrue)
<1>1. Init => Inv
  BY PsStart DEF Init, SummaryTrue
<1>2. Inv /\ [Next]_vars => Inv'
  BY PsStep, SummaryStep, Zenon DEF PsInv
<1>3. Inv => ProcessesPublished /\ ({"event", "settime"} \cap Failures = {} => SummaryTrue)
  BY Zenon DEF PsInv, Scanned, ProcessesPublished
<1> QED
  BY <1>1, <1>2, <1>3, PTL DEF Spec

-----------------------------------------------------------------------------
\* The ticks of p when it was read last, or -1.
LastRead(p) == IF pc = "scan" /\ p \in todo THEN hist[p] ELSE seen[p]

\* The inductive invariant of TicsOfProcess: what a process used since it was last
\* read is the difference of its ticks, which never shrink.
TicsInv ==
    /\ DOMAIN procs = Pids /\ DOMAIN used = Pids /\ DOMAIN hist = Pids /\ DOMAIN seen = Pids
    /\ \A p \in Pids :
         /\ DOMAIN procs[p] = {"alive", "name", "tics", "state"}
         /\ procs[p].name \in Nat /\ procs[p].tics \in 0..MaxTics
         /\ procs[p].name = 0 => ~procs[p].alive /\ hist[p] = -1 /\ seen[p] = -1
         /\ procs[p].alive =>
              /\ LastRead(p) \in {-1} \cup 0..procs[p].tics
              /\ used[p] = procs[p].tics - IF LastRead(p) = -1 THEN 0 ELSE LastRead(p)

\* Adding the width of a counter changes nothing modulo the width.
LEMMA Unwrapped == ASSUME NEW w \in Nat, NEW a \in 0..(w - 1) PROVE (a + w) % w = a
OBVIOUS

\* The unsigned difference of two readings is what the process has used.
LEMMA UsedIsTics ==
    ASSUME PsAssumption, TicsInv, pc = "scan", NEW p \in todo, p \in Pids, procs[p].alive
    PROVE  Tics(p) = used[p]
<1> PICK t, h : t = procs[p].tics /\ h = hist[p]
  BY Zenon
<1>1. LastRead(p) = h
  BY Zenon DEF LastRead
<1>2. t \in 0..MaxTics /\ h \in {-1} \cup 0..t /\ used[p] = t - IF h = -1 THEN 0 ELSE h
  BY <1>1, Zenon DEF TicsInv
<1>3. Wrap \in Nat /\ MaxTics \in Nat /\ MaxTics < Wrap
  BY Zenon DEF PsAssumption
<1>4. CASE h = -1
  BY <1>2, <1>3, <1>4 DEF Tics
<1>5. CASE h # -1
  <2>1. t - h \in 0..(Wrap - 1) /\ used[p] = t - h
    BY <1>2, <1>3, <1>5
  <2>2. ((t - h) + Wrap) % Wrap = t - h
    BY <1>3, <2>1, Unwrapped, Zenon
  <2> QED
    BY <1>5, <2>1, <2>2, Zenon DEF Tics
<1> QED
  BY <1>4, <1>5, Zenon

\* A process changes between two readings.
LEMMA TicsChange ==
    ASSUME PsAssumption, TicsInv, ~Reuse, NEW p \in Pids, Start(p) \/ Exit(p) \/ Run(p) \/ Sleep(p)
    PROVE  TicsInv'
<1> PICK old : old = procs[p]
  BY Zenon
<1>0. /\ DOMAIN old = {"alive", "name", "tics", "state"}
      /\ old.name \in Nat /\ old.tics \in 0..MaxTics /\ MaxTics \in Nat
      /\ old.name = 0 => ~old.alive /\ hist[p] = -1 /\ seen[p] = -1
      /\ old.alive => /\ LastRead(p) \in {-1} \cup 0..old.tics
                      /\ used[p] = old.tics - IF LastRead(p) = -1 THEN 0 ELSE LastRead(p)
  BY Zenon DEF TicsInv, PsAssumption
<1>1. ASSUME NEW new, NEW ticks, Change(p, new, ticks),
             DOMAIN new = {"alive", "name", "tics", "state"}, new.name \in Nat \ {0},
             new.tics \in 0..MaxTics,
             new.alive => /\ LastRead(p) \in {-1} \cup 0..new.tics
                          /\ ticks = new.tics - IF LastRead(p) = -1 THEN 0 ELSE LastRead(p)
      PROVE  TicsInv'
  <2>1. /\ procs' = [procs EXCEPT ![p] = new] /\ used' = [used EXCEPT ![p] = ticks]
        /\ UNCHANGED <<pc, todo, hist, seen>>
    BY <1>1, Zenon DEF Change, scan
  <2>2. \A q : LastRead(q)' = LastRead(q)
    BY <2>1, Zenon DEF LastRead
  <2> QED
    BY <1>1, <2>1, <2>2, Zenon DEF TicsInv
<1>2. CASE Start(p)
  <2> PICK new : new = [old EXCEPT !.alive = TRUE, !.name = @ + 1, !.tics = 0]
    BY Zenon
  <2>1. old.name = 0 /\ Change(p, new, 0)
    BY <1>2, Zenon DEF Start
  <2>2. /\ DOMAIN new = {"alive", "name", "tics", "state"}
        /\ new.name = 1 /\ new.tics = 0
    BY <1>0, <2>1
  <2>3. LastRead(p) = -1
    BY <1>0, <2>1, Zenon DEF LastRead
  <2>4. new.name \in Nat \ {0} /\ new.tics \in 0..MaxTics
    BY <1>0, <2>2
  <2>5. /\ LastRead(p) \in {-1} \cup 0..new.tics
        /\ 0 = new.tics - IF LastRead(p) = -1 THEN 0 ELSE LastRead(p)
    BY <2>2, <2>3
  <2> QED
    BY <1>1, <2>1, <2>2, <2>4, <2>5, Zenon
<1>3. CASE Exit(p)
  <2> PICK new : new = [old EXCEPT !.alive = FALSE]
    BY Zenon
  <2>1. old.alive /\ Change(p, new, 0)
    BY <1>3, Zenon DEF Exit
  <2>2. /\ DOMAIN new = {"alive", "name", "tics", "state"}
        /\ new.name = old.name /\ new.tics = old.tics /\ ~new.alive
    BY <1>0, <2>1, Zenon
  <2> QED
    BY <1>0, <1>1, <2>1, <2>2, Zenon
<1>4. CASE Run(p)
  <2> PICK new : new = [old EXCEPT !.tics = @ + 1]
    BY Zenon
  <2>1. old.alive /\ old.tics < MaxTics /\ Change(p, new, used[p] + 1)
    BY <1>4, Zenon DEF Run
  <2>2. /\ DOMAIN new = {"alive", "name", "tics", "state"}
        /\ new.name = old.name /\ new.tics = old.tics + 1
    BY <1>0, <2>1, Zenon
  <2> QED
    BY <1>0, <1>1, <2>1, <2>2
<1>5. CASE Sleep(p)
  <2>1. PICK s \in States : old.alive /\ Change(p, [old EXCEPT !.state = s], used[p])
    BY <1>5, Zenon DEF Sleep
  <2> PICK new : new = [old EXCEPT !.state = s]
    BY Zenon
  <2>2. /\ DOMAIN new = {"alive", "name", "tics", "state"}
        /\ new.name = old.name /\ new.tics = old.tics
    BY <1>0, Zenon
  <2> QED
    BY <1>0, <1>1, <2>1, <2>2, Zenon
<1> QED
  BY <1>2, <1>3, <1>4, <1>5, Zenon

\* Every step keeps the invariant of the CPU times.
LEMMA TicsStep ==
    ASSUME PsAssumption, ~Reuse, "opendir" \notin Failures, TicsInv, [Next]_vars
    PROVE  TicsInv'
<1>1. CASE ScanProcess
  <2>1. /\ pc \in {"boot", "poll"} /\ pc' = "scan" /\ todo' = Pids
        /\ hist' = seen /\ seen' = NoTics /\ UNCHANGED <<procs, used>>
    BY <1>1, Zenon DEF ScanProcess, NewHistory, world
  <2>2. \A p \in Pids : LastRead(p)' = LastRead(p)
    BY <2>1, Zenon DEF LastRead
  <2> QED
    BY <2>1, <2>2, Zenon DEF TicsInv, NoTics
<1>2. ASSUME NEW p \in Pids, ReadOne(p) PROVE TicsInv'
  <2>1. /\ pc = "scan" /\ pc' = pc /\ p \in todo /\ todo' = todo \ {p} /\ UNCHANGED <<procs, hist>>
    BY <1>2, Zenon DEF ReadOne
  <2>2. CASE procs[p].alive
    <3>1. seen' = [seen EXCEPT ![p] = procs[p].tics] /\ used' = [used EXCEPT ![p] = 0]
      BY <1>2, <2>2, Zenon DEF ReadOne
    <3>2. LastRead(p)' = procs[p].tics
      BY <2>1, <3>1, Zenon DEF LastRead, TicsInv
    <3>3. \A q \in Pids : q # p => LastRead(q)' = LastRead(q)
      BY <2>1, <3>1, Zenon DEF LastRead, TicsInv
    <3>4. /\ DOMAIN seen' = Pids /\ DOMAIN used' = Pids /\ used'[p] = 0
          /\ \A q \in Pids : q # p => used'[q] = used[q] /\ seen'[q] = seen[q]
      BY <3>1, Zenon DEF TicsInv
    <3>5. procs[p].name # 0 /\ procs[p].tics \in 0..MaxTics /\ MaxTics \in Nat
      BY <2>2, Zenon DEF TicsInv, PsAssumption
    <3>6. /\ LastRead(p)' \in {-1} \cup 0..procs[p].tics
          /\ used'[p] = procs[p].tics - IF LastRead(p)' = -1 THEN 0 ELSE LastRead(p)'
      BY <3>2, <3>4, <3>5
    <3> QED
      BY <2>1, <3>3, <3>4, <3>5, <3>6 DEF TicsInv
  <2>3. CASE ~procs[p].alive
    <3>1. seen' = seen /\ used' = used
      BY <1>2, <2>3, Zenon DEF ReadOne
    <3>2. \A q \in Pids : q # p => LastRead(q)' = LastRead(q)
      BY <2>1, <3>1, Zenon DEF LastRead
    <3> QED
      BY <2>1, <2>3, <3>1, <3>2, Zenon DEF TicsInv
  <2> QED
    BY <2>2, <2>3, Zenon
<1>3. CASE UpdateCpus \/ UpdateCpusFails \/ Send \/ SendFails \/ \E p \in Pids : CleanupOne(p)
  <2>1. /\ UNCHANGED <<procs, used, hist, seen>> /\ pc' # "scan"
        /\ pc = "cleanup" \/ (pc = "scan" /\ todo = {})
    BY <1>3, Zenon DEF UpdateCpus, UpdateCpusFails, Send, SendFails, CleanupOne, world
  <2>2. \A q \in Pids : LastRead(q)' = LastRead(q)
    BY <2>1, Zenon DEF LastRead
  <2> QED
    BY <2>1, <2>2, Zenon DEF TicsInv
<1>4. CASE UNCHANGED <<procs, used, hist, seen, pc, todo>>
  BY <1>4, Zenon DEF TicsInv, LastRead
<1>5. ASSUME \/ \E r \in {3, 5} : SetRefreshRate(r)
             \/ \E m \in {"IRIX", "SOLARIS"} : SetMode(m)
             \/ UNCHANGED vars
      PROVE  UNCHANGED <<procs, used, hist, seen, pc, todo>>
  BY <1>5, Zenon DEF SetRefreshRate, SetMode, vars, world, scan
<1>6. ~ScanProcessFails
  BY Zenon DEF ScanProcessFails, Fails
<1> QED
  BY <1>1, <1>2, <1>3, <1>4, <1>5, <1>6, TicsChange, Zenon DEF Next, Scan

\* The share that psd.c computes for a process (compute_pcpu) is that of
\* the ticks it has used since it was read before, although scans in between
\* could not be sent.  The argument needs that no pid is used again and that
\* /proc can be opened: otherwise the previous reading is not of this process, or
\* was dropped.
THEOREM TicsOfProcessCorrect ==
    ASSUME PsAssumption, ~Reuse, "opendir" \notin Failures
    PROVE  Spec => TicsOfProcess
<1> DEFINE Inv == PsInv /\ TicsInv
<1>0. MaxTics \in Nat
  BY Zenon DEF PsAssumption
<1>1. Init => Inv
  <2> SUFFICES ASSUME Init PROVE TicsInv
    BY PsStart, Zenon
  <2>1. /\ procs = [p \in Pids |-> [alive |-> FALSE, name |-> 0, tics |-> 0, state |-> "running"]]
        /\ used = [p \in Pids |-> 0] /\ hist = NoTics /\ seen = NoTics
    BY Zenon DEF Init
  <2>2. 0 \in 0..MaxTics
    BY <1>0
  <2> QED
    BY <2>1, <2>2, Zenon DEF TicsInv, NoTics
<1>2. Inv /\ [Next]_vars => Inv'
  BY PsStep, TicsStep, Zenon
<1>3. Inv /\ [Next]_vars => TicsSinceRead
  <2> SUFFICES ASSUME Inv, [Next]_vars, NEW p \in Pids, pc = "scan", p \in todo \ todo',
                      procs[p].alive
               PROVE  evt'.info[p].pcpu = Pcpu(used[p])
    BY Zenon DEF TicsSinceRead
  <2>1. ReadOne(p)
    <3>1. ASSUME NEW q \in Pids, ReadOne(q) PROVE ReadOne(p)
      <4>1. todo' = todo \ {q}
        BY <3>1, Zenon DEF ReadOne
      <4>2. p = q
        BY <4>1, Zenon
      <4> QED
        BY <3>1, <4>2, Zenon
    <3>2. todo # {} /\ todo' # todo
      BY Zenon
    <3>3. ASSUME \/ ScanProcess \/ UpdateCpus \/ Send \/ ScanProcessFails \/ UpdateCpusFails
                 \/ SendFails
          PROVE  FALSE
      BY <3>2, <3>3, Zenon DEF ScanProcess, UpdateCpus, Send, ScanProcessFails, UpdateCpusFails, SendFails
    <3>4. ASSUME NEW q \in Pids, CleanupOne(q) \/ Start(q) \/ Exit(q) \/ Run(q) \/ Sleep(q)
          PROVE  FALSE
      BY <3>2, <3>4, Zenon DEF CleanupOne, Start, Exit, Run, Sleep, Change, scan
    <3>5. ASSUME \/ \E r \in {3, 5} : SetRefreshRate(r)
                 \/ \E m \in {"IRIX", "SOLARIS"} : SetMode(m)
                 \/ UNCHANGED vars
          PROVE  FALSE
      BY <3>2, <3>5, Zenon DEF SetRefreshRate, SetMode, vars, scan
    <3> QED
      BY <3>1, <3>3, <3>4, <3>5, Zenon DEF Next, Scan
  <2> PICK i, c : i = Info(p) /\ c = Counted(procs[p].state)
    BY Zenon
  <2>2. evt' = [evt EXCEPT !.info[p] = i, !.tasks = c]
    BY <2>1, Zenon DEF ReadOne
  <2>3. DOMAIN evt = {"info", "gone", "tasks"} /\ DOMAIN evt.info = Pids
    BY Zenon DEF PsInv, PsTypes
  <2>4. evt'.info[p] = i
    BY <2>2, <2>3, Zenon
  <2>5. Tics(p) = used[p]
    BY UsedIsTics, Zenon
  <2> QED
    BY <2>4, <2>5 DEF Info
<1> QED
  BY <1>1, <1>2, <1>3, PTL DEF Spec, TicsOfProcess

-----------------------------------------------------------------------------
(***************************************************************************)
(* netd.c: the interfaces.                                                 *)
(***************************************************************************)

CONSTANTS Names, Iface, Fields, Cmd, MaxNetChanges, MaxDrops
VARIABLES sys, netChanges, netObjs, born, netPc, listed, netTodo, asked, netStale, queue, call, cl

Net == INSTANCE ObusNet
    WITH MaxChanges <- MaxNetChanges, changes <- netChanges, objs <- netObjs, pc <- netPc,
         todo <- netTodo, stale <- netStale

\* What an interface and an object are made of.
Addr == [Fields -> {0, 1}]
Bytes == [1..2 -> {0, 1}]
Interface == [here : BOOLEAN, up : BOOLEAN, addr : Addr, traffic : Bytes]

\* Objects whose method is the one that changes their state.
Object == {o \in [id : Nat \ {0}, up : BOOLEAN, methods : SUBSET {"up", "down"}, addr : Addr,
                  bytes : Bytes \cup {<<>>}] : o.methods = Net!Methods(o.up)}
Objects == Object \cup {Net!Absent}

\* What an event sets.
Delta == [addr : UNION {[F -> {0, 1}] : F \in SUBSET Fields}, up : SUBSET BOOLEAN,
          bytes : Bytes \cup {<<>>}]

\* The events and statuses of netd.c, and the packets to a client.
EventTypes == {"NONE", "UP", "DOWN", "CONFIGURED", "TRAFFIC", "FAILED"}
Statuses == {"INVALID", "ACKED", "METHOD_DISABLED", "INVALID_ARGUMENTS", "ABORTED"}

Message ==
    [t : {"connected"}, objs : [Names -> Objects]] \cup [t : {"add"}, n : Names, obj : Object]
    \cup [t : {"remove"}, n : Names] \cup [t : {"ack"}, status : Statuses]
    \cup [t : {"event"}, n : Names, type : EventTypes, set : Delta]

\* A client sees objects; the rest of it makes no difference here.
Client(c) == "view" \in DOMAIN c /\ c.view \in [Names -> Objects]

\* What the variables are made of.
NetTypes ==
    /\ sys \in [Names -> Interface] /\ netObjs \in [Names -> Objects] /\ born \in Nat
    /\ netPc \in {"boot", "poll", "scan", "sweep", "traffic", "update"}
    /\ listed \subseteq Names /\ netTodo \subseteq Names
    /\ queue \in Seq(Message) /\ Client(cl)

\* A packet without changes is one that a client can merge.
LEMMA SetsNothing ==
    ASSUME NEW b \in Bytes \cup {<<>>}
    PROVE  [addr |-> <<>>, up |-> {}, bytes |-> b] \in Delta
<1>1. <<>> \in [{} -> {0, 1}] /\ {} \in SUBSET Fields
  OBVIOUS
<1>2. <<>> \in UNION {[F -> {0, 1}] : F \in SUBSET Fields}
  BY <1>1, Zenon
<1>3. {} \in SUBSET BOOLEAN
  BY Zenon
<1> QED
  BY <1>2, <1>3, Zenon DEF Delta

\* A Boolean as membership.
LEMMA TrueIn == \A b \in BOOLEAN : (TRUE \in {b}) = b
<1>1. (TRUE \in {TRUE}) = TRUE
  BY Zenon
<1>2. (TRUE \in {FALSE}) = FALSE
  OBVIOUS
<1> QED
  BY <1>1, <1>2, Zenon

\* A merge of fields gives an object.
LEMMA MergeObject ==
    ASSUME NEW o \in Objects, NEW d \in Delta
    PROVE  Net!Merge(o, d) \in Objects /\ (o \in Object => Net!Merge(o, d) \in Object)
<1>1. CASE o = Net!Absent
  BY <1>1, Zenon DEF Net!Merge, Net!Absent, Objects, Object
<1>2. CASE o \in Object
  <2> PICK r : r = Net!Merge(o, d)
    BY Zenon
  <2>1. /\ o \in [id : Nat \ {0}, up : BOOLEAN, methods : SUBSET {"up", "down"}, addr : Addr,
                  bytes : Bytes \cup {<<>>}]
        /\ o.methods = Net!Methods(o.up)
    BY <1>2, Zenon DEF Object
  <2>2. /\ d.up \in SUBSET BOOLEAN /\ d.bytes \in Bytes \cup {<<>>}
        /\ \E F \in SUBSET Fields : d.addr \in [F -> {0, 1}]
    BY Zenon DEF Delta
  <2>3. /\ r.id = o.id /\ DOMAIN r = DOMAIN o
        /\ r.addr = [f \in Fields |-> IF f \in DOMAIN d.addr THEN d.addr[f] ELSE o.addr[f]]
        /\ r.up = IF d.up = {} THEN o.up ELSE TRUE \in d.up
        /\ r.methods = IF d.up = {} THEN o.methods ELSE Net!Methods(TRUE \in d.up)
        /\ r.bytes = IF d.bytes = <<>> THEN o.bytes ELSE d.bytes
    BY <2>1, Zenon DEF Net!Merge
  <2>4. r.addr \in Addr
    BY <2>1, <2>2, <2>3 DEF Addr
  <2>5. r.methods = Net!Methods(r.up) /\ r.up \in BOOLEAN
    <3>1. o.up \in BOOLEAN
      BY <2>1, Zenon
    <3>2. CASE d.up = {}
      BY <2>1, <2>3, <3>1, <3>2, Zenon
    <3>3. CASE d.up # {}
      <4>1. r.up = (TRUE \in d.up) /\ r.methods = Net!Methods(TRUE \in d.up)
        BY <2>3, <3>3, Zenon
      <4>2. (TRUE \in d.up) \in BOOLEAN
        OBVIOUS
      <4> QED
        BY <4>1, <4>2, Zenon
    <3> QED
      BY <3>2, <3>3, Zenon
  <2>6. r.methods \in SUBSET {"up", "down"}
    BY <2>5, Zenon DEF Net!Methods
  <2>7. r.bytes \in Bytes \cup {<<>>}
    BY <2>1, <2>2, <2>3, Zenon
  <2>8. r = [id |-> r.id, up |-> r.up, methods |-> r.methods, addr |-> r.addr, bytes |-> r.bytes]
    BY <2>1, Zenon DEF Net!Merge
  <2>9. r.id \in Nat \ {0}
    BY <2>1, <2>3, Zenon
  <2> QED
    BY <2>4, <2>5, <2>6, <2>7, <2>8, <2>9, Zenon DEF Object, Objects
<1> QED
  BY <1>1, <1>2, Zenon DEF Objects

Shows(n, o) == Net!Agrees(n, o, {"ip", "hw"})

\* What the server reads of an interface.
LEMMA Reads ==
    ASSUME NetTypes, NEW n \in Names
    PROVE  /\ sys[n] \in Interface /\ netObjs[n] \in Objects
           /\ Net!Addresses(n) \in Addr /\ Net!IsUp(n) \in BOOLEAN
           /\ Net!ReadTraffic(n) \in Bytes \cup {<<>>}
           /\ sys[n].here => Net!Addresses(n) = sys[n].addr /\ Net!IsUp(n) = sys[n].up
<1>1. sys[n] \in Interface /\ netObjs[n] \in Objects
  BY Zenon DEF NetTypes
<1>2. sys[n].here \in BOOLEAN /\ sys[n].up \in BOOLEAN /\ sys[n].addr \in Addr
      /\ sys[n].traffic \in Bytes
  BY <1>1, Zenon DEF Interface
<1>3. Net!Addresses(n) \in Addr /\ (sys[n].here => Net!Addresses(n) = sys[n].addr)
  BY <1>2, Zenon DEF Net!Addresses, Addr
<1>4. Net!IsUp(n) \in BOOLEAN
  BY <1>2, Zenon DEF Net!IsUp
<1>5. sys[n].here => Net!IsUp(n) = sys[n].up
  <2>1. CASE sys[n].up = TRUE
    BY <2>1, Zenon DEF Net!IsUp
  <2>2. CASE sys[n].up = FALSE
    BY <2>2, Zenon DEF Net!IsUp
  <2> QED
    BY <1>2, <2>1, <2>2, Zenon
<1>6. Net!ReadTraffic(n) \in Bytes \cup {<<>>}
  BY <1>2, Zenon DEF Net!ReadTraffic
<1> QED
  BY <1>1, <1>3, <1>4, <1>5, <1>6, Zenon

\* A new object shows the interface.
LEMMA CreatedObject ==
    ASSUME NetTypes, NEW n \in Names
    PROVE  /\ Net!Created(n) \in Object
           /\ sys[n].here => Shows(n, Net!Created(n))
<1> PICK o : o = Net!Created(n)
  BY Zenon
<1>1. /\ o = [id |-> born + 1, up |-> Net!IsUp(n), methods |-> Net!Methods(Net!IsUp(n)),
              addr |-> Net!Addresses(n), bytes |-> Net!ReadTraffic(n)]
  BY Zenon DEF Net!Created
<1>8. o.up = Net!IsUp(n) /\ o.methods = Net!Methods(Net!IsUp(n))
  BY <1>1
<1>9. o.methods = Net!Methods(o.up)
  BY <1>8, Zenon
<1>2. /\ o.id = born + 1 /\ o.up = Net!IsUp(n) /\ o.methods = Net!Methods(o.up)
      /\ o.addr = Net!Addresses(n) /\ o.bytes = Net!ReadTraffic(n)
  BY <1>1, <1>9
<1>3. born + 1 \in Nat \ {0}
  BY DEF NetTypes
<1>4. Net!Methods(Net!IsUp(n)) \in SUBSET {"up", "down"}
  BY Zenon DEF Net!Methods
<1>5. o \in [id : Nat \ {0}, up : BOOLEAN, methods : SUBSET {"up", "down"}, addr : Addr,
             bytes : Bytes \cup {<<>>}]
  BY <1>1, <1>3, <1>4, Reads
<1>6. o \in Object
  BY <1>2, <1>5, Zenon DEF Object
<1>7. o # Net!Absent
  BY <1>2, <1>3 DEF Net!Absent
<1> QED
  BY <1>2, <1>6, <1>7, Reads, Zenon DEF Shows, Net!Agrees

\* What goes to the client is added to its queue, if it is connected.
LEMMA SentTypes ==
    ASSUME NetTypes, NEW msgs \in Seq(Message), Net!Sent(msgs)
    PROVE  queue' \in Seq(Message)
  BY DEF NetTypes, Net!Sent

\* Setting an object and telling the client.
LEMMA SendEventTypes ==
    ASSUME NetTypes, NEW n \in Names, NEW type \in EventTypes, NEW d \in Delta,
           Net!SendEvent(n, type, d)
    PROVE  /\ netObjs' \in [Names -> Objects] /\ queue' \in Seq(Message)
           /\ netObjs'[n] = Net!Merge(netObjs[n], d)
           /\ \A m \in Names : m # n => netObjs'[m] = netObjs[m]
<1> PICK msg : msg = [t |-> "event", n |-> n, type |-> type, set |-> d]
  BY Zenon
<1>1. netObjs' = [netObjs EXCEPT ![n] = Net!Merge(netObjs[n], d)] /\ Net!Sent(<<msg>>)
  BY Zenon DEF Net!SendEvent
<1>2. msg \in Message
  BY Zenon DEF Message
<1>3. <<msg>> \in Seq(Message)
  BY <1>2
<1>4. queue' \in Seq(Message)
  BY <1>1, <1>3, SentTypes, Zenon
<1>5. netObjs \in [Names -> Objects] /\ Net!Merge(netObjs[n], d) \in Objects
  BY MergeObject, Zenon DEF NetTypes
<1> QED
  BY <1>1, <1>4, <1>5, Zenon

\* update_interface: the object shows the interface afterwards.
LEMMA UpdateShows ==
    ASSUME NetTypes, NEW n \in Names, Net!UpdateInterface(n)
    PROVE  /\ netObjs' \in [Names -> Objects] /\ queue' \in Seq(Message)
           /\ \A m \in Names : m # n => netObjs'[m] = netObjs[m]
           /\ sys[n].here /\ netObjs[n] # Net!Absent => Shows(n, netObjs'[n])
<1>1. CASE Net!EventType(n) = "NONE"
  <2>1. netObjs' = netObjs /\ queue' = queue
    BY <1>1, Zenon DEF Net!UpdateInterface
  <2>2. ASSUME sys[n].here, netObjs[n] # Net!Absent PROVE Shows(n, netObjs[n])
    <3>1. netObjs[n] \in Object
      BY <2>2, Reads, Zenon DEF Objects
    <3>2. netObjs[n].up \in BOOLEAN /\ netObjs[n].addr \in Addr
      BY <3>1, Zenon DEF Object
    <3>3. netObjs[n].up = Net!IsUp(n)
      <4>1. ~(Net!IsUp(n) /\ ~netObjs[n].up) /\ ~(~Net!IsUp(n) /\ netObjs[n].up)
        BY <1>1, Zenon DEF Net!EventType
      <4> QED
        BY <3>2, <4>1, Reads, Zenon
    <3>4. Net!Changed(n) \cap {"ip", "hw"} = {}
      BY <1>1, Zenon DEF Net!EventType
    <3>5. \A f \in {"ip", "hw"} \cap Fields : netObjs[n].addr[f] = sys[n].addr[f]
      BY <2>2, <3>4, Reads, Zenon DEF Net!Changed
    <3>6. netObjs[n].up = sys[n].up
      BY <2>2, <3>3, Reads, Zenon
    <3> QED
      BY <2>2, <3>5, <3>6, Zenon DEF Shows, Net!Agrees
  <2> QED
    BY <2>1, <2>2, Zenon DEF NetTypes
<1>2. CASE Net!EventType(n) # "NONE"
  <2> PICK d : d = [Net!Nothing EXCEPT
                      !.addr = [f \in Net!Changed(n) |-> Net!Addresses(n)[f]],
                      !.up = IF Net!EventType(n) = "CONFIGURED" THEN {} ELSE {Net!IsUp(n)}]
    BY Zenon
  <2>1. Net!SendEvent(n, Net!EventType(n), d)
    BY <1>2, Zenon DEF Net!UpdateInterface
  <2>2. /\ d.addr = [f \in Net!Changed(n) |-> Net!Addresses(n)[f]] /\ d.bytes = <<>>
        /\ d.up = IF Net!EventType(n) = "CONFIGURED" THEN {} ELSE {Net!IsUp(n)}
        /\ d = [addr |-> d.addr, up |-> d.up, bytes |-> d.bytes]
    BY Zenon DEF Net!Nothing
  <2>3. Net!EventType(n) \in EventTypes
    BY Zenon DEF Net!EventType, EventTypes
  <2>4. Net!Changed(n) \in SUBSET Fields
    BY Zenon DEF Net!Changed
  <2>5. d.addr \in [Net!Changed(n) -> {0, 1}]
    BY <2>2, <2>4, Reads DEF Addr
  <2>6. d.up \in SUBSET BOOLEAN
    BY <2>2, Reads, ZenonT(40)
  <2>7. d \in Delta
    BY <2>2, <2>4, <2>5, <2>6, ZenonT(40) DEF Delta
  <2>8. /\ netObjs' \in [Names -> Objects] /\ queue' \in Seq(Message)
        /\ netObjs'[n] = Net!Merge(netObjs[n], d)
        /\ \A m \in Names : m # n => netObjs'[m] = netObjs[m]
    BY <2>1, <2>3, <2>7, SendEventTypes, Zenon
  <2>9. ASSUME sys[n].here, netObjs[n] # Net!Absent PROVE Shows(n, netObjs'[n])
    <3> PICK o, r : o = netObjs[n] /\ r = Net!Merge(o, d)
      BY Zenon
    <3>1. o \in Object
      BY <2>9, Reads, Zenon DEF Objects
    <3>2. o \in [id : Nat \ {0}, up : BOOLEAN, methods : SUBSET {"up", "down"}, addr : Addr,
                 bytes : Bytes \cup {<<>>}]
      BY <3>1, Zenon DEF Object
    <3>3. /\ r.id = o.id
          /\ r.addr = [f \in Fields |-> IF f \in DOMAIN d.addr THEN d.addr[f] ELSE o.addr[f]]
          /\ r.up = IF d.up = {} THEN o.up ELSE TRUE \in d.up
      BY <3>2, Zenon DEF Net!Merge
    <3>4. \A f \in Fields : r.addr[f] = sys[n].addr[f]
      <4>1. DOMAIN d.addr = Net!Changed(n)
        BY <2>2, Zenon
      <4> QED
        BY <2>2, <2>9, <3>3, <4>1, Reads DEF Net!Changed
    <3>5. r.up = sys[n].up
      <4>1. CASE Net!EventType(n) = "CONFIGURED"
        <5>1. ~(Net!IsUp(n) /\ ~o.up) /\ ~(~Net!IsUp(n) /\ o.up)
          BY <4>1, Zenon DEF Net!EventType
        <5>2. o.up \in BOOLEAN
          BY <3>2, Zenon
        <5>3. o.up = Net!IsUp(n)
          BY <5>1, <5>2, Reads, Zenon
        <5>4. r.up = o.up
          BY <2>2, <3>3, <4>1, Zenon
        <5> QED
          BY <2>9, <5>3, <5>4, Reads, Zenon
      <4>2. CASE Net!EventType(n) # "CONFIGURED"
        <5>1. d.up = {Net!IsUp(n)} /\ d.up # {}
          BY <2>2, <4>2, Zenon
        <5>2. r.up = (TRUE \in d.up)
          BY <3>3, <5>1, Zenon
        <5>3. (TRUE \in {Net!IsUp(n)}) = Net!IsUp(n)
          BY Reads, TrueIn, Zenon
        <5> QED
          BY <2>9, <5>1, <5>2, <5>3, Reads, Zenon
      <4> QED
        BY <4>1, <4>2, Zenon
    <3>6. r # Net!Absent
      BY <3>2, <3>3 DEF Net!Absent
    <3> QED
      BY <2>8, <2>9, <3>4, <3>5, <3>6, ZenonT(40) DEF Shows, Net!Agrees
  <2> QED
    BY <2>8, <2>9, Zenon
<1> QED
  BY <1>1, <1>2, Zenon

\* The client sees objects whatever it reads.
LEMMA ViewSet ==
    ASSUME NEW c, Client(c), NEW n \in Names, NEW o \in Objects
    PROVE  Client([c EXCEPT !.view[n] = o])
  BY Zenon DEF Client

\* A client that is disconnected has seen no interface.
LEMMA NoneSeen == Net!Off \in [Names -> Objects]
  BY Zenon DEF Net!Off, Objects

\* Clients keep their types when they stop,
LEMMA StoppedClient == ASSUME NEW c, Client(c) PROVE Client(Net!Stopped(c))
  BY NoneSeen, Zenon DEF Client, Net!Stopped

\* when they print,
LEMMA PrintedClient == ASSUME NEW c, Client(c), NEW set PROVE Client(Net!Printed(c, set))
<1>1. Client([Net!Stopped(c) EXCEPT !.crashed = TRUE])
  BY StoppedClient, Zenon DEF Client
<1>2. \A b : Client([c EXCEPT !.printed = b])
  BY Zenon DEF Client
<1> QED
  BY <1>1, <1>2, Zenon DEF Net!Printed

\* when they call a method,
LEMMA ExecuteClient == ASSUME NEW c, Client(c) PROVE Client(Net!ExecuteCommand(c))
<1>1. \A set : Client(Net!Printed(c, set)) /\ Client(Net!Stopped(Net!Printed(c, set)))
  BY PrintedClient, StoppedClient, Zenon
<1>2. \A h : Client([c EXCEPT !.handle = h])
  BY Zenon DEF Client
<1>3. Client(Net!Stopped(c))
  BY StoppedClient, Zenon
<1> QED
  BY <1>1, <1>2, <1>3, Zenon DEF Net!ExecuteCommand

\* when it is answered,
LEMMA StatusClient == ASSUME NEW c, Client(c), NEW s PROVE Client(Net!MethodStatus(c, s))
<1>1. Client([c EXCEPT !.status = s])
  BY Zenon DEF Client
<1> QED
  BY <1>1, StoppedClient, Zenon DEF Net!MethodStatus

\* and when they read a packet.
LEMMA ReadClient ==
    ASSUME NEW c, Client(c), NEW m \in Message
    PROVE  Client(Net!Read(c, m))
<1>1. CASE m \in [t : {"connected"}, objs : [Names -> Objects]]
  <2>1. Client([c EXCEPT !.view = m.objs])
    BY <1>1, Zenon DEF Client
  <2>2. Net!Read(c, m) = Net!ExecuteCommand([c EXCEPT !.view = m.objs])
    BY <1>1, Zenon DEF Net!Read
  <2> QED
    BY <2>1, <2>2, ExecuteClient, Zenon
<1>2. CASE m \in [t : {"add"}, n : Names, obj : Object]
  <2> PICK d : d = [c EXCEPT !.view[m.n] = m.obj]
    BY Zenon
  <2>1. m.n \in Names /\ m.obj \in Objects /\ m.t = "add"
    BY <1>2, Zenon DEF Objects
  <2>2. Client(d)
    BY <2>1, ViewSet, Zenon
  <2>3. Net!Read(c, m) = IF Cmd = "monitor" THEN Net!Printed(d, {m.obj}) ELSE d
    BY <2>1, Zenon DEF Net!Read
  <2> QED
    BY <2>2, <2>3, PrintedClient, Zenon
<1>3. CASE m \in [t : {"remove"}, n : Names]
  <2> PICK d : d = [c EXCEPT !.view[m.n] = Net!Absent]
    BY Zenon
  <2>1. m.n \in Names /\ Net!Absent \in Objects /\ m.t = "remove"
    BY <1>3, Zenon DEF Objects
  <2>2. Client(d)
    BY <2>1, ViewSet, Zenon
  <2>3. Net!Read(c, m) = IF m.n = Iface /\ Net!Pending(c) THEN Net!MethodStatus(d, "ABORTED") ELSE d
    BY <2>1, Zenon DEF Net!Read
  <2> QED
    BY <2>2, <2>3, StatusClient, Zenon
<1>4. CASE m \in [t : {"ack"}, status : Statuses]
  <2>1. Net!Read(c, m) = Net!MethodStatus(c, m.status)
    BY <1>4, Zenon DEF Net!Read
  <2> QED
    BY <2>1, StatusClient, Zenon
<1>5. CASE m \in [t : {"event"}, n : Names, type : EventTypes, set : Delta]
  <2> PICK d : d = [c EXCEPT !.view[m.n] = Net!Merge(c.view[m.n], m.set)]
    BY Zenon
  <2>1. m.n \in Names /\ m.set \in Delta /\ m.t = "event" /\ c.view[m.n] \in Objects
    BY <1>5, Zenon DEF Client
  <2>2. Net!Merge(c.view[m.n], m.set) \in Objects
    BY <2>1, MergeObject, Zenon
  <2>3. Client(d)
    BY <2>1, <2>2, ViewSet, Zenon
  <2>4. \A set : Client(Net!Printed(d, set))
    BY <2>3, PrintedClient, Zenon
  <2>5. Client(Net!Stopped(d))
    BY <2>3, StoppedClient, Zenon
  <2>6. Client(Net!Event(c, m))
    BY <2>3, <2>4, <2>5, Zenon DEF Net!Event
  <2>7. Net!Read(c, m) = Net!Event(c, m)
    BY <2>1, Zenon DEF Net!Read
  <2> QED
    BY <2>6, <2>7, Zenon
<1> QED
  BY <1>1, <1>2, <1>3, <1>4, <1>5, Zenon DEF Message

\* The interfaces that exist.
Here == {n \in Names : sys[n].here}

\* How far a scan has come while the kernel changes nothing: what is left to do is
\* all that keeps the objects from showing the interfaces.
Scans ==
    /\ netPc = "update" => \E n \in Names : netTodo = {n}
    /\ ~netStale =>
         /\ netPc # "boot"
         /\ netPc = "scan" => /\ listed = Here /\ netTodo \subseteq listed
                           /\ \A n \in listed \ netTodo : Shows(n, netObjs[n])
         /\ netPc = "sweep" => /\ listed = Here /\ \A n \in listed : Shows(n, netObjs[n])
                            /\ \A n \in Names \ (listed \cup netTodo) : netObjs[n] = Net!Absent
         /\ netPc \in {"poll", "traffic"} => \A n \in Names : Shows(n, netObjs[n])
         /\ netPc = "update" => /\ \A n \in Names \ netTodo : Shows(n, netObjs[n])
                             /\ \A n \in netTodo : sys[n].here /\ netObjs[n] # Net!Absent

\* The inductive invariant of Published.
NetInv == NetTypes /\ Scans

\* The kernel changes something: what is known of the scan is out of date.
LEMMA ChangeKeeps ==
    ASSUME NetInv, NEW n \in Names, NEW i \in Interface, Net!Change(n, i)
    PROVE  NetInv'
<1>1. /\ sys' = [sys EXCEPT ![n] = i] /\ netStale' = TRUE
      /\ UNCHANGED <<netObjs, born, netPc, listed, netTodo, queue, cl>>
  BY Zenon DEF Net!Change
<1>2. sys' \in [Names -> Interface]
  BY <1>1, Zenon DEF NetInv, NetTypes
<1> QED
  BY <1>1, <1>2, Zenon DEF NetInv, NetTypes, Scans

\* The kernel may change its interfaces at any time: what is listed is then stale.
LEMMA KernelKeeps == ASSUME NetInv, Net!Kernel PROVE NetInv'
<1>0. PICK n \in Names : \/ Net!Plug(n) \/ Net!Switch(n)
                         \/ \E f \in Fields : Net!Configure(n, f)
                         \/ \E k \in 1..2 : Net!Traffic(n, k)
  BY Zenon DEF Net!Kernel
<1> PICK i : i = sys[n]
  BY Zenon
<1>1. i \in Interface
  BY Zenon DEF NetInv, NetTypes
<1>2. i.addr \in Addr /\ i.traffic \in Bytes /\ i.here \in BOOLEAN /\ i.up \in BOOLEAN
  BY <1>1, Zenon DEF Interface
<1>3. CASE Net!Plug(n)
  <2>1. [i EXCEPT !.here = ~@, !.up = FALSE] \in Interface
    BY <1>1, Zenon DEF Interface
  <2> QED
    BY <1>3, <2>1, ChangeKeeps, Zenon DEF Net!Plug
<1>4. CASE Net!Switch(n)
  <2>1. [i EXCEPT !.up = ~@] \in Interface
    BY <1>1, Zenon DEF Interface
  <2> QED
    BY <1>4, <2>1, ChangeKeeps, Zenon DEF Net!Switch
<1>5. ASSUME NEW f \in Fields, Net!Configure(n, f) PROVE NetInv'
  <2>1. [i.addr EXCEPT ![f] = 1 - @] \in Addr
    BY <1>2 DEF Addr
  <2>2. [i EXCEPT !.addr = [i.addr EXCEPT ![f] = 1 - @]] \in Interface
    BY <1>1, <2>1, Zenon DEF Interface
  <2>3. [i EXCEPT !.addr[f] = 1 - @] = [i EXCEPT !.addr = [i.addr EXCEPT ![f] = 1 - @]]
    BY Zenon
  <2> QED
    BY <1>5, <2>2, <2>3, ChangeKeeps, Zenon DEF Net!Configure
<1>6. ASSUME NEW k \in 1..2, Net!Traffic(n, k) PROVE NetInv'
  <2>1. [i.traffic EXCEPT ![k] = 1] \in Bytes
    BY <1>2, Zenon DEF Bytes
  <2>2. [i EXCEPT !.traffic = [i.traffic EXCEPT ![k] = 1]] \in Interface
    BY <1>1, <2>1, Zenon DEF Interface
  <2>3. [i EXCEPT !.traffic[k] = 1] = [i EXCEPT !.traffic = [i.traffic EXCEPT ![k] = 1]]
    BY Zenon
  <2> QED
    BY <1>6, <2>2, <2>3, ChangeKeeps, Zenon DEF Net!Traffic
<1> QED
  BY <1>0, <1>3, <1>4, <1>5, <1>6, Zenon

\* One step of the loop that creates and updates objects.
LEMMA ScanOneKeeps == ASSUME NetInv, NEW n \in Names, Net!ScanOne(n) PROVE NetInv'
<1>1. /\ netPc = "scan" /\ n \in netTodo /\ netTodo' = netTodo \ {n}
      /\ UNCHANGED <<sys, netPc, listed, netStale, cl>>
  BY Zenon DEF Net!ScanOne
<1>2. NetTypes
  BY Zenon DEF NetInv
<1>3. /\ netObjs' \in [Names -> Objects] /\ queue' \in Seq(Message) /\ born' \in Nat
      /\ \A m \in Names : m # n => netObjs'[m] = netObjs[m]
      /\ sys[n].here => Shows(n, netObjs'[n])
  <2>1. CASE netObjs[n] = Net!Absent
    <3> PICK o, msg : o = Net!Created(n) /\ msg = [t |-> "add", n |-> n, obj |-> o]
      BY Zenon
    <3>1. /\ netObjs' = [netObjs EXCEPT ![n] = o] /\ born' = born + 1 /\ Net!Sent(<<msg>>)
      BY <2>1, Zenon DEF Net!ScanOne
    <3>2. o \in Object /\ (sys[n].here => Shows(n, o))
      BY <1>2, CreatedObject, Zenon
    <3>3. msg \in Message
      BY <3>2, Zenon DEF Message
    <3>4. <<msg>> \in Seq(Message)
      BY <3>3
    <3>5. queue' \in Seq(Message)
      BY <1>2, <3>1, <3>4, SentTypes, Zenon
    <3>6. netObjs' \in [Names -> Objects] /\ netObjs'[n] = o /\ born' \in Nat
          /\ \A m \in Names : m # n => netObjs'[m] = netObjs[m]
      BY <1>2, <3>1, <3>2 DEF NetTypes, Objects
    <3> QED
      BY <3>2, <3>5, <3>6, Zenon
  <2>2. CASE netObjs[n] # Net!Absent
    <3>1. Net!UpdateInterface(n) /\ born' = born
      BY <2>2, Zenon DEF Net!ScanOne
    <3> QED
      BY <1>2, <2>2, <3>1, UpdateShows, Zenon DEF NetTypes
  <2> QED
    BY <2>1, <2>2, Zenon
<1>4. NetTypes'
  BY <1>1, <1>2, <1>3, Zenon DEF NetTypes
<1>5. ASSUME ~netStale
      PROVE  /\ listed = Here /\ netTodo' \subseteq listed
             /\ \A m \in listed \ netTodo' : Shows(m, netObjs'[m])
  <2>1. /\ listed = Here /\ netTodo \subseteq listed
        /\ \A m \in listed \ netTodo : Shows(m, netObjs[m])
    BY <1>1, <1>5, Zenon DEF NetInv, Scans
  <2>2. sys[n].here /\ \A m \in listed : m \in Names
    BY <1>1, <2>1, Zenon DEF Here
  <2> QED
    BY <1>1, <1>3, <2>1, <2>2, Zenon
<1>6. Here' = Here /\ \A m : Shows(m, netObjs[m])' <=> Shows(m, netObjs'[m])
  BY <1>1, Zenon DEF Here, Shows, Net!Agrees
<1> QED
  BY <1>1, <1>4, <1>5, <1>6, Zenon DEF NetInv, Scans

\* One step of the loop that removes objects.
LEMMA SweepOneKeeps == ASSUME NetInv, NEW n \in Names, Net!SweepOne(n) PROVE NetInv'
<1>1. /\ netPc = "sweep" /\ n \in netTodo /\ netTodo' = netTodo \ {n}
      /\ UNCHANGED <<sys, born, netPc, listed, netStale, cl>>
  BY Zenon DEF Net!SweepOne
<1>2. NetTypes
  BY Zenon DEF NetInv
<1>3. /\ netObjs' \in [Names -> Objects] /\ queue' \in Seq(Message)
      /\ \A m \in Names : m # n => netObjs'[m] = netObjs[m]
      /\ netObjs'[n] = IF n \in listed THEN netObjs[n] ELSE Net!Absent
  <2>1. CASE n \in listed
    BY <1>2, <2>1, Zenon DEF Net!SweepOne, NetTypes
  <2>2. CASE n \notin listed
    <3> PICK msg : msg = [t |-> "remove", n |-> n]
      BY Zenon
    <3>1. netObjs' = [netObjs EXCEPT ![n] = Net!Absent] /\ Net!Sent(<<msg>>)
      BY <2>2, Zenon DEF Net!SweepOne
    <3>2. msg \in Message
      BY Zenon DEF Message
    <3>3. <<msg>> \in Seq(Message)
      BY <3>2
    <3>4. queue' \in Seq(Message)
      BY <1>2, <3>1, <3>3, SentTypes, Zenon
    <3> QED
      BY <1>2, <2>2, <3>1, <3>4, Zenon DEF NetTypes, Objects
  <2> QED
    BY <2>1, <2>2, Zenon
<1>4. NetTypes'
  BY <1>1, <1>2, <1>3, Zenon DEF NetTypes
<1>5. ASSUME ~netStale
      PROVE  /\ listed = Here /\ \A m \in listed : Shows(m, netObjs'[m])
             /\ \A m \in Names \ (listed \cup netTodo') : netObjs'[m] = Net!Absent
  <2>1. /\ listed = Here /\ \A m \in listed : Shows(m, netObjs[m])
        /\ \A m \in Names \ (listed \cup netTodo) : netObjs[m] = Net!Absent
    BY <1>1, <1>5, Zenon DEF NetInv, Scans
  <2>2. listed \subseteq Names
    BY <1>2, Zenon DEF NetTypes
  <2>3. \A m \in listed : netObjs'[m] = netObjs[m]
    BY <1>3, <2>2, Zenon
  <2> QED
    BY <1>1, <1>3, <2>1, <2>3, Zenon
<1>6. Here' = Here /\ \A m : Shows(m, netObjs[m])' <=> Shows(m, netObjs'[m])
  BY <1>1, Zenon DEF Here, Shows, Net!Agrees
<1> QED
  BY <1>1, <1>4, <1>5, <1>6, Zenon DEF NetInv, Scans

\* One step of the loop over the traffic, which changes nothing else.
LEMMA TrafficKeeps == ASSUME NetInv, NEW n \in Names, Net!UpdateTraffic(n) PROVE NetInv'
<1>1. /\ netPc = "traffic" /\ n \in netTodo /\ netTodo' = netTodo \ {n}
      /\ UNCHANGED <<sys, born, netPc, listed, netStale, cl>>
  BY Zenon DEF Net!UpdateTraffic
<1>2. NetTypes
  BY Zenon DEF NetInv
<1>3. /\ netObjs' \in [Names -> Objects] /\ queue' \in Seq(Message)
      /\ \A m \in Names : m # n => netObjs'[m] = netObjs[m]
      /\ Shows(n, netObjs[n]) => Shows(n, netObjs'[n])
  <2>1. CASE Net!ReadTraffic(n) \in {<<>>, netObjs[n].bytes}
    BY <1>2, <2>1, Zenon DEF Net!UpdateTraffic, NetTypes
  <2>2. CASE Net!ReadTraffic(n) \notin {<<>>, netObjs[n].bytes}
    <3> PICK d : d = [Net!Nothing EXCEPT !.bytes = Net!ReadTraffic(n)]
      BY Zenon
    <3>1. Net!SendEvent(n, "TRAFFIC", d)
      BY <2>2, Zenon DEF Net!UpdateTraffic
    <3>2. d = [addr |-> <<>>, up |-> {}, bytes |-> Net!ReadTraffic(n)]
      BY Zenon DEF Net!Nothing
    <3>3. Net!ReadTraffic(n) \in Bytes \cup {<<>>}
      BY <1>2, Reads, Zenon
    <3>4. d \in Delta
      BY <3>2, <3>3, SetsNothing, Zenon
    <3>5. /\ netObjs' \in [Names -> Objects] /\ queue' \in Seq(Message)
          /\ netObjs'[n] = Net!Merge(netObjs[n], d)
          /\ \A m \in Names : m # n => netObjs'[m] = netObjs[m]
      BY <1>2, <3>1, <3>4, SendEventTypes, Zenon DEF EventTypes
    <3>6. ASSUME Shows(n, netObjs[n]) PROVE Shows(n, netObjs'[n])
      <4> PICK o, r : o = netObjs[n] /\ r = Net!Merge(o, d)
        BY Zenon
      <4>1. CASE o = Net!Absent
        <5>1. r = Net!Absent
          BY <4>1, Zenon DEF Net!Merge, Net!Absent
        <5> QED
          BY <3>5, <3>6, <4>1, <5>1, Zenon
      <4>2. CASE o \in Object
        <5>1. o \in [id : Nat \ {0}, up : BOOLEAN, methods : SUBSET {"up", "down"}, addr : Addr,
                     bytes : Bytes \cup {<<>>}]
          BY <4>2, Zenon DEF Object
        <5>2. /\ r.id = o.id
              /\ r.addr = [f \in Fields |-> IF f \in DOMAIN d.addr THEN d.addr[f] ELSE o.addr[f]]
              /\ r.up = IF d.up = {} THEN o.up ELSE TRUE \in d.up
          BY <5>1, Zenon DEF Net!Merge
        <5>3. d.up = {} /\ DOMAIN d.addr = {}
          BY <3>2
        <5>4. r.up = o.up
          BY <5>2, <5>3, Zenon
        <5>5. \A f \in Fields : r.addr[f] = o.addr[f]
          BY <5>2, <5>3, Zenon
        <5>6. r # Net!Absent /\ o # Net!Absent
          BY <5>1, <5>2 DEF Net!Absent
        <5> QED
          BY <3>5, <3>6, <5>4, <5>5, <5>6, SMTT(30) DEF Shows, Net!Agrees
      <4> QED
        BY <1>2, <4>1, <4>2, Reads, Zenon DEF Objects
    <3> QED
      BY <3>5, <3>6, Zenon
  <2> QED
    BY <2>1, <2>2, Zenon
<1>4. NetTypes'
  BY <1>1, <1>2, <1>3, Zenon DEF NetTypes
<1>5. ~netStale => \A m \in Names : Shows(m, netObjs'[m])
  BY <1>1, <1>3, Zenon DEF NetInv, Scans
<1>6. \A m : Shows(m, netObjs[m])' <=> Shows(m, netObjs'[m])
  BY <1>1, Zenon DEF Shows, Net!Agrees
<1> QED
  BY <1>1, <1>4, <1>5, <1>6, Zenon DEF NetInv, Scans

\* The beginnings and ends of the loops.
LEMMA LoopKeeps ==
    ASSUME NetInv,
           Net!ScanNetwork \/ Net!SweepBegins \/ Net!UpdateNetworkTraffic \/ Net!LoopEnds
    PROVE  NetInv'
<1>1. NetTypes /\ Scans
  BY Zenon DEF NetInv
<1>2. UNCHANGED <<sys, netObjs, born, queue, cl>>
  BY Zenon DEF Net!ScanNetwork, Net!SweepBegins, Net!UpdateNetworkTraffic, Net!LoopEnds
<1>3. Here' = Here /\ \A m : Shows(m, netObjs[m])' <=> Shows(m, netObjs[m])
  BY <1>2, Zenon DEF Here, Shows, Net!Agrees
<1>4. CASE Net!ScanNetwork
  <2>1. /\ netPc' = "scan" /\ listed' = Here /\ netTodo' = Here /\ Here \subseteq Names
    BY <1>4, Zenon DEF Net!ScanNetwork, Here
  <2> QED
    BY <1>1, <1>2, <1>3, <2>1, Zenon DEF NetInv, NetTypes, Scans
<1>5. CASE Net!SweepBegins
  <2>1. /\ netPc = "scan" /\ netTodo = {} /\ netPc' = "sweep"
        /\ listed' = listed /\ netStale' = netStale
        /\ netTodo' = {n \in Names : netObjs[n] # Net!Absent}
    BY <1>5, Zenon DEF Net!SweepBegins
  <2> QED
    BY <1>1, <1>2, <1>3, <2>1, Zenon DEF NetInv, NetTypes, Scans
<1>6. CASE Net!UpdateNetworkTraffic
  <2>1. /\ netPc = "poll" /\ netPc' = "traffic" /\ listed' = listed /\ netStale' = netStale
        /\ netTodo' = {n \in Names : netObjs[n] # Net!Absent}
    BY <1>6, Zenon DEF Net!UpdateNetworkTraffic
  <2> QED
    BY <1>1, <1>2, <1>3, <2>1, Zenon DEF NetInv, NetTypes, Scans
<1>7. CASE Net!LoopEnds
  <2>1. /\ netPc \in {"sweep", "traffic"} /\ netTodo = {} /\ netPc' = "poll"
        /\ listed' = listed /\ netStale' = netStale /\ netTodo' = netTodo
    BY <1>7, Zenon DEF Net!LoopEnds
  <2>2. ASSUME ~netStale, NEW n \in Names PROVE Shows(n, netObjs[n])
    <3>1. CASE netPc = "traffic"
      BY <1>1, <2>2, <3>1, Zenon DEF Scans
    <3>2. CASE netPc = "sweep" /\ n \in listed
      BY <1>1, <2>2, <3>2, Zenon DEF Scans
    <3>3. CASE netPc = "sweep" /\ n \notin listed
      <4>1. netObjs[n] = Net!Absent /\ ~sys[n].here
        BY <1>1, <2>1, <2>2, <3>3, Zenon DEF Scans, Here
      <4> QED
        BY <4>1, Zenon DEF Shows, Net!Agrees
    <3> QED
      BY <2>1, <3>1, <3>2, <3>3, Zenon
  <2> QED
    BY <1>1, <1>2, <1>3, <2>1, <2>2, Zenon DEF NetInv, NetTypes, Scans
<1> QED
  BY <1>4, <1>5, <1>6, <1>7, Zenon

\* A call is handled: the kernel does what it asks for, and the object is out of date
\* until it is updated, before anything else is done.
LEMMA HandleKeeps ==
    ASSUME NetInv, NEW n \in Names, NEW method, NEW args \in SUBSET {"ip", "netmask"},
           NEW mine \in BOOLEAN, netPc = "poll", Net!Handle(n, method, args, mine),
           netObjs[n] # Net!Absent, UNCHANGED <<born, listed, netStale, cl>>
    PROVE  NetInv'
<1>0. NetTypes /\ Scans
  BY Zenon DEF NetInv
<1> PICK ack, fail :
        /\ ack = Net!Ack(mine, "ACKED")
        /\ fail = [t |-> "event", n |-> n, type |-> "FAILED", set |-> Net!Nothing]
  BY Zenon
<1>1. ack \in Seq(Message) /\ \A st \in Statuses : Net!Ack(mine, st) \in Seq(Message)
  <2>1. \A st \in Statuses : [t |-> "ack", status |-> st] \in Message
    BY Zenon DEF Message
  <2>2. ASSUME NEW st \in Statuses PROVE <<[t |-> "ack", status |-> st]>> \in Seq(Message)
    <3> PICK m : m = [t |-> "ack", status |-> st]
      BY Zenon
    <3>1. m \in Message
      BY <2>1, Zenon
    <3>2. <<m>> \in Seq(Message)
      BY <3>1
    <3> QED
      BY <3>2, Zenon
  <2>3. <<>> \in Seq(Message) /\ "ACKED" \in Statuses
    BY DEF Statuses
  <2> QED
    BY <2>2, <2>3, Zenon DEF Net!Ack
<1>2. fail \in Message
  <2>1. Net!Nothing \in Delta
    BY SetsNothing, Zenon DEF Net!Nothing
  <2>2. "FAILED" \in EventTypes
    BY Zenon DEF EventTypes
  <2> QED
    BY <2>1, <2>2, Zenon DEF Message
<1>3. ack \o <<fail>> \in Seq(Message)
  BY <1>1, <1>2
<1>4. CASE queue' \in Seq(Message) /\ UNCHANGED <<sys, netObjs, netPc, netTodo>>
  <2>1. Here' = Here /\ \A m : Shows(m, netObjs[m])' <=> Shows(m, netObjs[m])
    BY <1>4, Zenon DEF Here, Shows, Net!Agrees
  <2> QED
    BY <1>0, <1>4, <2>1, Zenon DEF NetInv, NetTypes, Scans
<1>5. ASSUME NEW done, Net!Sent(ack), sys[n].here,
             sys' = [sys EXCEPT ![n] = Net!SetUp(n, method, args, done)],
             netPc' = "update", netTodo' = {n}, UNCHANGED netObjs
      PROVE  NetInv'
  <2>1. queue' \in Seq(Message)
    BY <1>0, <1>1, <1>5, SentTypes, Zenon
  <2> PICK i, j : i = sys[n] /\ j = Net!SetUp(n, method, args, done)
    BY Zenon
  <2>2. i \in Interface /\ i.addr \in Addr
    BY <1>0, Reads, Zenon DEF Interface
  <2> PICK a : a = IF "ip" \notin args THEN i.addr
                   ELSE [f \in Fields |-> IF f \notin done THEN i.addr[f]
                                          ELSE IF f \in args THEN 1 ELSE 0]
    BY Zenon
  <2>3. a \in Addr
    BY <2>2, Zenon DEF Addr
  <2>4. j = [i EXCEPT !.up = (method = "up"), !.addr = a]
    BY Zenon DEF Net!SetUp
  <2>5. (method = "up") \in BOOLEAN
    BY Zenon
  <2>6. j \in Interface /\ j.here = i.here
    BY <2>2, <2>3, <2>4, <2>5, Zenon DEF Interface
  <2>7. /\ sys' \in [Names -> Interface] /\ sys'[n].here
        /\ \A m \in Names : m # n => sys'[m] = sys[m]
    BY <1>0, <1>5, <2>6, Zenon DEF NetTypes
  <2>8. \A m \in Names : m # n => (Shows(m, netObjs[m])' <=> Shows(m, netObjs[m]))
    BY <1>5, <2>7 DEF Shows, Net!Agrees
  <2>9. ~netStale => \A m \in Names : Shows(m, netObjs[m])
    BY <1>0, Zenon DEF Scans
  <2> QED
    BY <1>0, <1>5, <2>1, <2>7, <2>8, <2>9, Zenon DEF NetInv, NetTypes, Scans
<1>6. \/ /\ \E st \in Net!Refusals(n, method, args) : Net!Sent(Net!Ack(mine, st))
         /\ UNCHANGED <<sys, netObjs, netPc, netTodo>>
      \/ Net!Sent(ack \o <<fail>>) /\ UNCHANGED <<sys, netObjs, netPc, netTodo>>
      \/ /\ Net!Sent(ack) /\ sys[n].here
         /\ \E done \in SUBSET ({"ip", "netmask"} \cap Fields) :
               sys' = [sys EXCEPT ![n] = Net!SetUp(n, method, args, done)]
         /\ netPc' = "update" /\ netTodo' = {n} /\ UNCHANGED netObjs
  BY Zenon DEF Net!Handle
<1>7. Net!Refusals(n, method, args) \subseteq Statuses
  BY Zenon DEF Net!Refusals, Statuses
<1>8. ASSUME NEW st \in Net!Refusals(n, method, args), Net!Sent(Net!Ack(mine, st))
      PROVE  queue' \in Seq(Message)
  BY <1>0, <1>1, <1>7, <1>8, SentTypes, Zenon
<1>9. Net!Sent(ack \o <<fail>>) => queue' \in Seq(Message)
  BY <1>0, <1>3, SentTypes, Zenon
<1> QED
  BY <1>4, <1>5, <1>6, <1>8, <1>9, Zenon

\* A call of a client asks for changes of an interface.
LEMMA CallKeeps == ASSUME Net!NetAssumption, NetInv, Net!CallOfClient PROVE NetInv'
<1>1. netPc = "poll" /\ call # 0 /\ UNCHANGED <<born, listed, netStale, cl>> /\ Iface \in Names
  BY Zenon DEF Net!CallOfClient, Net!NetAssumption
<1>2. CASE netObjs[Iface].id = call /\ Net!Handle(Iface, Cmd, {}, TRUE)
  <2>1. netObjs[Iface] # Net!Absent
    BY <1>1, <1>2 DEF Net!Absent
  <2> QED
    BY <1>1, <1>2, <2>1, HandleKeeps, Zenon
<1>3. CASE UNCHANGED <<sys, netObjs, netPc, netTodo, queue>>
  <2>1. Here' = Here /\ \A m : Shows(m, netObjs[m])' <=> Shows(m, netObjs[m])
    BY <1>3, Zenon DEF Here, Shows, Net!Agrees
  <2> QED
    BY <1>1, <1>3, <2>1, Zenon DEF NetInv, NetTypes, Scans
<1> QED
  BY <1>2, <1>3, Zenon DEF Net!CallOfClient

\* The scan updates the object of one interface.
LEMMA UpdateKeeps == ASSUME NetInv, NEW n \in Names, Net!Update(n) PROVE NetInv'
<1>1. /\ netPc = "update" /\ n \in netTodo /\ netTodo' = {} /\ netPc' = "poll"
      /\ Net!UpdateInterface(n)
      /\ UNCHANGED <<sys, born, listed, netStale, cl>>
  BY Zenon DEF Net!Update
<1>2. NetTypes /\ Scans
  BY Zenon DEF NetInv
<1>3. netTodo = {n}
  BY <1>1, <1>2, Zenon DEF Scans
<1>4. /\ netObjs' \in [Names -> Objects] /\ queue' \in Seq(Message)
      /\ \A m \in Names : m # n => netObjs'[m] = netObjs[m]
      /\ sys[n].here /\ netObjs[n] # Net!Absent => Shows(n, netObjs'[n])
  BY <1>1, <1>2, UpdateShows, Zenon
<1>5. ~netStale => \A m \in Names : Shows(m, netObjs'[m])
  BY <1>1, <1>2, <1>3, <1>4, Zenon DEF Scans
<1>6. \A m : Shows(m, netObjs[m])' <=> Shows(m, netObjs'[m])
  BY <1>1, Zenon DEF Shows, Net!Agrees
<1> QED
  BY <1>1, <1>2, <1>4, <1>5, <1>6, Zenon DEF NetInv, NetTypes, Scans

\* What the client does is nothing to the server.
LEMMA ClientKeeps ==
    ASSUME NetInv, Net!Receive \/ Net!Connect \/ Net!Disconnect
    PROVE  NetInv'
<1>0. NetTypes /\ Scans
  BY Zenon DEF NetInv
<1>1. UNCHANGED <<sys, netObjs, born, netPc, listed, netTodo, netStale>>
  BY Zenon DEF Net!Receive, Net!Connect, Net!Disconnect, Net!srvVars
<1>2. Here' = Here /\ \A m : Shows(m, netObjs[m])' <=> Shows(m, netObjs[m])
  BY <1>1, Zenon DEF Here, Shows, Net!Agrees
<1>3. queue \in Seq(Message) /\ <<>> \in Seq(Message) /\ Client(cl)
  BY <1>0 DEF NetTypes
<1>4. queue' \in Seq(Message) /\ Client(cl')
  <2>1. CASE Net!Receive
    <3> PICK c : c = Net!Read(cl, Head(queue))
      BY Zenon
    <3>1. queue # <<>> /\ cl' = c /\ queue' = IF c.conn THEN Tail(queue) ELSE <<>>
      BY <2>1, Zenon DEF Net!Receive
    <3>2. Head(queue) \in Message /\ Tail(queue) \in Seq(Message)
      BY <1>3, <3>1
    <3> QED
      BY <1>3, <3>1, <3>2, ReadClient, Zenon
  <2>2. CASE Net!Connect
    <3> PICK msg : msg = [t |-> "connected", objs |-> netObjs]
      BY Zenon
    <3>1. cl' = [cl EXCEPT !.conn = TRUE] /\ queue' = <<msg>>
      BY <2>2, Zenon DEF Net!Connect
    <3>2. msg \in Message
      BY <1>0, Zenon DEF NetTypes, Message
    <3> QED
      BY <1>3, <3>1, <3>2 DEF Client
  <2>3. CASE Net!Disconnect
    <3> PICK d : d = [cl EXCEPT !.conn = FALSE, !.drops = @ + 1, !.view = Net!Off]
      BY Zenon
    <3>1. queue' = <<>> /\ cl' = IF Net!Pending(cl) THEN Net!MethodStatus(d, "ABORTED") ELSE d
      BY <2>3, Zenon DEF Net!Disconnect
    <3>2. Client(d)
      BY <1>3, NoneSeen, Zenon DEF Client
    <3> QED
      BY <1>3, <3>1, <3>2, StatusClient, Zenon
  <2> QED
    BY <2>1, <2>2, <2>3, Zenon
<1> QED
  BY <1>0, <1>1, <1>2, <1>4, Zenon DEF NetInv, NetTypes, Scans, Client

\* Every step keeps the invariant.
LEMMA NetStep ==
    ASSUME Net!NetAssumption, NetInv, [Net!Next]_(Net!vars)
    PROVE  NetInv'
<1>1. CASE Net!Server
  <2>1. CASE Net!ScanNetwork \/ Net!SweepBegins \/ Net!UpdateNetworkTraffic \/ Net!LoopEnds
    BY <2>1, LoopKeeps, Zenon
  <2>2. CASE Net!CallOfClient
    BY <2>2, CallKeeps, Zenon
  <2>3. ASSUME NEW n \in Names,
               Net!ScanOne(n) \/ Net!SweepOne(n) \/ Net!UpdateTraffic(n) \/ Net!Update(n)
        PROVE  NetInv'
    BY <2>3, ScanOneKeeps, SweepOneKeeps, TrafficKeeps, UpdateKeeps, Zenon
  <2> QED
    BY <1>1, <2>1, <2>2, <2>3, Zenon DEF Net!Server
<1>2. CASE Net!Kernel
  BY <1>2, KernelKeeps, Zenon
<1>3. CASE Net!Receive \/ Net!Connect \/ Net!Disconnect
  BY <1>3, ClientKeeps, Zenon
<1>4. ASSUME NEW n \in Names, NEW m \in {"up", "down"},
             NEW a \in SUBSET ({"ip", "netmask"} \cap Fields), Net!CallOfOther(n, m, a)
      PROVE  NetInv'
  <2>1. /\ netPc = "poll" /\ netObjs[n] # Net!Absent /\ Net!Handle(n, m, a, FALSE)
        /\ UNCHANGED <<born, listed, netStale, cl>>
    BY <1>4, Zenon DEF Net!CallOfOther
  <2>2. a \in SUBSET {"ip", "netmask"}
    BY Zenon
  <2> QED
    BY <2>1, <2>2, HandleKeeps, Zenon
<1>5. CASE UNCHANGED Net!vars
  <2>1. UNCHANGED <<sys, netObjs, born, netPc, listed, netTodo, netStale, queue, cl>>
    BY <1>5, Zenon DEF Net!vars, Net!srvVars
  <2>2. Here' = Here /\ \A m : Shows(m, netObjs[m])' <=> Shows(m, netObjs[m])
    BY <2>1, Zenon DEF Here, Shows, Net!Agrees
  <2> QED
    BY <2>1, <2>2, Zenon DEF NetInv, NetTypes, Scans, Client
<1> QED
  BY <1>1, <1>2, <1>3, <1>4, <1>5, Zenon DEF Net!Next

\* It holds at the start.
LEMMA NetStart == ASSUME Net!Init PROVE NetInv
<1>1. /\ netObjs = Net!Off /\ born = 0 /\ netPc = "boot" /\ listed = {}
      /\ netTodo = {} /\ netStale = TRUE
      /\ queue = <<>> /\ "view" \in DOMAIN cl /\ cl.view = Net!Off
  BY Zenon DEF Net!Init
<1>2. sys \in [Names -> [here : BOOLEAN, up : {FALSE}, addr : {[f \in Fields |-> 0]},
                         traffic : {<<0, 0>>}]]
  BY Zenon DEF Net!Init
<1>3. [f \in Fields |-> 0] \in Addr /\ <<0, 0>> \in Bytes
  BY DEF Addr, Bytes
<1>4. [here : BOOLEAN, up : {FALSE}, addr : {[f \in Fields |-> 0]}, traffic : {<<0, 0>>}]
        \subseteq Interface
  BY <1>3, Zenon DEF Interface
<1>5. sys \in [Names -> Interface]
  BY <1>2, <1>4, Zenon
<1>6. Client(cl)
  BY <1>1, NoneSeen, Zenon DEF Client
<1>7. netObjs \in [Names -> Objects] /\ born \in Nat /\ queue \in Seq(Message)
  <2>1. <<>> \in Seq(Message) /\ 0 \in Nat
    OBVIOUS
  <2> QED
    BY <1>1, <2>1, NoneSeen, Zenon
<1>8. listed \subseteq Names /\ netTodo \subseteq Names
  BY <1>1, Zenon
<1>9. NetTypes
  BY <1>1, <1>5, <1>6, <1>7, <1>8, Zenon DEF NetTypes
<1>10. Scans
  BY <1>1, Zenon DEF Scans
<1> QED
  BY <1>9, <1>10, Zenon DEF NetInv

\* After a scan of netd.c (scan_network) during which the kernel has changed
\* nothing, the objects are the interfaces that there are, with their state and
\* their addresses, whatever earlier scans have met half-way; and in the server
\* and in the client an interface that is up has the method down and one that is
\* down the method up, at every moment.
THEOREM PublishedCorrect ==
    ASSUME Net!NetAssumption
    PROVE  Net!Spec => [](Net!Published /\ Net!MethodsFollowState)
<1>1. Net!Init => NetInv
  BY NetStart, Zenon
<1>2. NetInv /\ [Net!Next]_(Net!vars) => NetInv'
  BY NetStep, Zenon
<1>3. NetInv => Net!Published
  BY Zenon DEF NetInv, Scans, Shows, Net!Published, Net!Scanned
<1>4. NetInv => Net!MethodsFollowState
  <2> SUFFICES ASSUME NetInv, NEW n \in Names, NEW o \in {netObjs[n], cl.view[n]}, o # Net!Absent
               PROVE  o.methods = IF o.up THEN {"down"} ELSE {"up"}
    BY Zenon DEF Net!MethodsFollowState
  <2>1. o \in Object
    BY DEF NetInv, NetTypes, Client, Objects
  <2> QED
    BY <2>1, Zenon DEF Object, Net!Methods
<1> QED
  BY <1>1, <1>2, <1>3, <1>4, PTL DEF Net!Spec

=============================================================================
