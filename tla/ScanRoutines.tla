----------------------------- MODULE ScanRoutines -----------------------------
(***************************************************************************)
(* The routines of BlueKernel_Lvl1.c and BlueKernel_lvl2.c, which differ   *)
(* in Thread_M only.  A routine is a sequence of calls, one per value of   *)
(* t->pc, each named for the services it uses.  A call that uses the mutex *)
(* takes a reference through the handle (in the second stage) and drops it *)
(* before it returns.                                                      *)
(***************************************************************************)
Thread_A == <<"work", "work", "terminate">>
Thread_B == <<"work", "startIoAndWait", "terminate">>
Thread_L == <<"acquire", "work", "releaseAndTerminate">>
Thread_H == <<"acquire", "releaseAndTerminate">>

\* In the first stage it terminates without asking for a reschedule.
Lvl1Thread_M == <<"work", "exit">>
Lvl2Thread_M == <<"work", "terminate">>
================================================================================
