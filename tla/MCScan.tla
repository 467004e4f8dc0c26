-------------------------------- MODULE MCScan --------------------------------
(* The two earlier stages of the kernel on the idle thread and up to three      *)
(* threads of any routine and priority.                                         *)
EXTENDS EarlierStages, ScanRoutines

Shared == {Thread_A, Thread_B, Thread_L, Thread_H}
Source == <<Shared \cup {Lvl1Thread_M}, Shared \cup {Lvl2Thread_M}>>

\* Callers of the services one at a time: threads that wait for a completion,
\* start an I/O, die owning the mutex (only stage 2 releases it then).
Clients == <<{<<"wait", "acquire", "release", "exit">>, <<"startIo", "exit">>},
             {<<"wait", "acquire", "release", "terminate">>, <<"startIo", "terminate">>,
              <<"acquire", "terminate">>}>>
RoutinesOfStage == [s \in {1, 2} |-> Source[s] \cup Clients[s]]

AllRoutines == RoutinesOfStage[1] \cup RoutinesOfStage[2]
EventLater == {r \in AllRoutines : Head(r) \notin EventCalls}

Looping(s) == stage = s /\ phase = "timer" /\ Runs(kernel.threads, Source[s])

\* Every thread of a stage's own routines ends once main's loop runs (main
\* itself stops after ten ticks), and with it the second stage's process.  In
\* the first stage Thread_M ends without requesting anything: the timer charges
\* the dead thread until its quantum is over, which brings the others back.
RoutinesEnd == /\ Looping(1) ~> Lvl1!Ended
               /\ Looping(2) ~> ~exist
================================================================================
