------------------------------- MODULE MCSysv -------------------------------
(***************************************************************************)
(* SysvPrograms for TLC: of the runs that share a semaphore m1 is one of   *)
(* sysv_sem.c, whose third child aborts, and m2 one of                     *)
(* sysv_sem_waitforzero.c.                                                 *)
(***************************************************************************)
EXTENDS SysvPrograms, TLC

CONSTANTS m1, m2, c0, c1, c2, c3, c4, w

TwoRuns == (m1 :> <<c0, c1, c2>>) @@ (m2 :> <<w, c3, c4>>)
TwoValues == (m1 :> 1) @@ (m2 :> 2)
=============================================================================
