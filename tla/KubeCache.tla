----------------------------- MODULE KubeCache -----------------------------
(***************************************************************************)
(* The informer cache behind the reconciler's client (external:            *)
(* controller-runtime).  cmd/main.go hands the reconciler mgr.GetClient(), *)
(* so every Get and List of internal/controller reads a local copy that    *)
(* trails the API server, while every Create, Update, Patch and Delete     *)
(* goes straight to it.                                                    *)
(*                                                                         *)
(* The cache of one resource type is the sequence of the older versions it *)
(* has yet to move past, oldest first: it shows the head, and the empty    *)
(* sequence means that it is in sync.  Watches deliver in order, so a      *)
(* cache never goes back.                                                  *)
(***************************************************************************)
EXTENDS Naturals, Sequences

\* What a read through the cache returns when the API server holds `now`.
View(now, lag) == IF lag = <<>> THEN now ELSE Head(lag)

(***************************************************************************)
(* The backlog after a write that turns `now` into `new`.  A write that    *)
(* changes nothing makes no new version.  At most `max` versions are       *)
(* pending: past that bound the oldest one is taken to have been           *)
(* delivered.  max = 0 is a cache that is always in sync.                  *)
(***************************************************************************)
Pushed(lag, now, new, max) ==
    IF new = now THEN lag
    ELSE IF Len(lag) < max THEN Append(lag, now)
    ELSE IF max = 0 THEN <<>>
    ELSE Append(Tail(lag), now)
=============================================================================
