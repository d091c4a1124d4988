------------------------------ MODULE ObusTimer -----------------------------
(***************************************************************************)
(* Timers in the event loop: obus_timer.c, on a timer descriptor of the    *)
(* kernel, and obus_timer_posix.c, where a signal handler writes a byte to *)
(* a pipe.  The handlers that the loop calls before that of a timer set    *)
(* and clear it.                                                           *)
(***************************************************************************)
EXTENDS Naturals

CONSTANTS
    Timers,     \* the timers of a process
    MaxSets     \* bound: how many times a timer is set

TimerAssumption == MaxSets \in Nat

VARIABLES
    timerfd,  \* are the timers built on obus_timer.c, or obus_timer_posix.c
    armed,    \* is the timer of the kernel running
    signal,   \* has it raised a signal that is not delivered yet
    count,    \* what a read finds: the expirations, or the bytes in the pipe
    event,    \* has the loop collected an event of the timer
    calling,  \* is the callback of the timer running
    sets,     \* how many times the timer was set
    wanted    \* was it set, and neither cleared nor called back since

vars == <<timerfd, armed, signal, count, event, calling, sets, wanted>>

Off == [t \in Timers |-> FALSE]

Init ==
    /\ timerfd \in BOOLEAN
    /\ armed = Off /\ signal = Off /\ event = Off /\ calling = Off /\ wanted = Off
    /\ count = [t \in Timers |-> 0] /\ sets = [t \in Timers |-> 0]

\* timerfd_settime forgets the expirations; the pipe keeps its bytes.
Forget(t) == IF timerfd THEN [count EXCEPT ![t] = 0] ELSE count

\* Mutant: a timeout below a second is rounded down to zero.
SetTimerShort(t) ==
    /\ sets[t] < MaxSets
    /\ armed' = [armed EXCEPT ![t] = FALSE]
    /\ count' = Forget(t)
    /\ sets' = [sets EXCEPT ![t] = @ + 1]
    /\ wanted' = [wanted EXCEPT ![t] = TRUE]
    /\ UNCHANGED <<timerfd, signal, event, calling>>

\* obus_timer_set
SetTimer(t) ==
    /\ sets[t] < MaxSets
    /\ armed' = [armed EXCEPT ![t] = TRUE]
    /\ count' = Forget(t)
    /\ sets' = [sets EXCEPT ![t] = @ + 1]
    /\ wanted' = [wanted EXCEPT ![t] = TRUE]
    /\ UNCHANGED <<timerfd, signal, event, calling>>

\* obus_timer_clear
ClearTimer(t) ==
    /\ armed' = [armed EXCEPT ![t] = FALSE]
    /\ count' = Forget(t)
    /\ wanted' = [wanted EXCEPT ![t] = FALSE]
    /\ UNCHANGED <<timerfd, signal, event, calling, sets>>

\* The time has come, once.
Expire(t) ==
    /\ armed[t]
    /\ armed' = [armed EXCEPT ![t] = FALSE]
    /\ count' = IF timerfd THEN [count EXCEPT ![t] = 1] ELSE count
    /\ signal' = [signal EXCEPT ![t] = ~timerfd]
    /\ UNCHANGED <<timerfd, event, calling, sets, wanted>>

\* obus_timer_sighandler, at any moment.
SigHandler(t) ==
    /\ signal[t]
    /\ signal' = [signal EXCEPT ![t] = FALSE]
    /\ count' = [count EXCEPT ![t] = @ + 1]
    /\ UNCHANGED <<timerfd, armed, event, calling, sets, wanted>>

\* The loop finds the descriptor ready.
Collect(t) ==
    /\ count[t] > 0 /\ ~event[t]
    /\ event' = [event EXCEPT ![t] = TRUE]
    /\ UNCHANGED <<timerfd, armed, signal, count, calling, sets, wanted>>

\* Mutant: the callback is called although there is nothing to read.
EventsUnread(t) ==
    /\ event[t] /\ \A u \in Timers : ~calling[u]
    /\ event' = [event EXCEPT ![t] = FALSE]
    /\ calling' = [calling EXCEPT ![t] = TRUE]
    /\ count' = [count EXCEPT ![t] = 0]
    /\ UNCHANGED <<timerfd, armed, signal, sets, wanted>>

\* obus_timer_events with obus_timer_read: with nothing to read it returns.
Events(t) ==
    /\ event[t] /\ \A u \in Timers : ~calling[u]
    /\ event' = [event EXCEPT ![t] = FALSE]
    /\ calling' = [calling EXCEPT ![t] = count[t] > 0]
    /\ count' = [count EXCEPT ![t] = CASE @ = 0 -> 0 [] timerfd -> 0 [] OTHER -> @ - 1]
    /\ UNCHANGED <<timerfd, armed, signal, sets, wanted>>

\* The callback, which begins by clearing its timer in all of the library.
Callback(t) ==
    /\ calling[t]
    /\ calling' = [calling EXCEPT ![t] = FALSE]
    /\ armed' = [armed EXCEPT ![t] = FALSE]
    /\ count' = Forget(t)
    /\ wanted' = [wanted EXCEPT ![t] = FALSE]
    /\ UNCHANGED <<timerfd, signal, event, sets>>

\* Between two handlers of the loop.
Next ==
    \E t \in Timers :
        \/ /\ \A u \in Timers : ~calling[u]
           /\ SetTimer(t) \/ ClearTimer(t)
        \/ Expire(t) \/ SigHandler(t) \/ Collect(t) \/ Events(t) \/ Callback(t)

Spec == Init /\ [][Next]_vars

\* Time passes, signals are delivered, the loop runs.
Fairness ==
    \A t \in Timers : /\ WF_vars(Expire(t)) /\ WF_vars(SigHandler(t)) /\ WF_vars(Collect(t))
                      /\ WF_vars(Events(t)) /\ WF_vars(Callback(t))

FairSpec == Spec /\ Fairness

-----------------------------------------------------------------------------
(***************************************************************************)
(* Properties.                                                             *)
(***************************************************************************)

\* With a timerfd a callback runs only for a timer that is set: clearing a timer,
\* or setting it again, takes back an expiration that the loop has not served yet.
\* With signals it does not: the byte stays in the pipe.
NoLateCallback == timerfd => \A t \in Timers : calling[t] => wanted[t] /\ ~armed[t]

\* A timer that is set is called back, unless it is cleared first or set again
\* for ever.
Fires == \A t \in Timers : wanted[t] ~> ~wanted[t]

=============================================================================
