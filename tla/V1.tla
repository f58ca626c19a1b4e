---------------------------------- MODULE V1 ----------------------------------
(***************************************************************************)
(* What the models of panel version 1 (legacy/v1/backend/app) share.       *)
(*                                                                         *)
(* Every endpoint of version 1 is an async def that calls its service      *)
(* without awaiting anything, and one worker serves them: a handler is     *)
(* never interleaved with another one. What can come between its steps is  *)
(* its end (an exception of a later step, or the process killed: each      *)
(* `with db.get_conn()` is a transaction of its own, and files and         *)
(* commands belong to none), the threads of the scheduler and the thread   *)
(* of a webhook. A handler is therefore one action that carries out a      *)
(* prefix of its steps: k of Steps(n), all of them when k = n.             *)
(***************************************************************************)
EXTENDS Integers, Sequences, FiniteSets

CONSTANT Nil    \* no row, no file

Steps(n) == 0 .. n
=============================================================================
