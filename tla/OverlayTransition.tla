------------------------- MODULE OverlayTransition -------------------------
(***************************************************************************)
(* The controller of one-shot animations over a looping base:              *)
(*                                                                         *)
(*    base --> overlay --> recovering --> base                             *)
(*                                                                         *)
(* (frontend/src/lib/battle/overlayTransition.ts).  A controller is a      *)
(* record; each method of the class is an operator that gives the          *)
(* controller afterwards and the decision returned to the caller.          *)
(***************************************************************************)
EXTENDS Naturals

CONSTANT NoKey                     \* undefined

Phases == {"base", "overlay", "recovering"}

(* OverlayTransitionPolicy without its durations: what a request meets. *)
Policy == [queueWhileOverlay: BOOLEAN, interruptOverlay: BOOLEAN,
           chainOnOverlayEnd: BOOLEAN, interruptRecovering: BOOLEAN]

Chained == [queueWhileOverlay |-> FALSE, interruptOverlay |-> TRUE,
            chainOnOverlayEnd |-> TRUE, interruptRecovering |-> TRUE]

Strict == [queueWhileOverlay |-> TRUE, interruptOverlay |-> FALSE,
           chainOnOverlayEnd |-> FALSE, interruptRecovering |-> FALSE]

QueueChain == [Strict EXCEPT !.chainOnOverlayEnd = TRUE]

(* reset, which is also the state after construction. *)
Reset == [phase |-> "base", last |-> NoKey, pending |-> NoKey]

(* A method's outcome: the controller it leaves, and what it asks for. *)
Ignore(c) == [ctl |-> c, kind |-> "ignore", key |-> NoKey, hold |-> FALSE]
PlayFromBase(c, k) == [ctl |-> c, kind |-> "play_from_base", key |-> k, hold |-> FALSE]
PlayChain(c, k, h) == [ctl |-> c, kind |-> "play_chain", key |-> k, hold |-> h]
Queue(c, k) == [ctl |-> [c EXCEPT !.pending = k], kind |-> "queue", key |-> k,
                hold |-> FALSE]

ResolvePending(c) == IF c.pending = c.last THEN NoKey ELSE c.pending

Forget(c) == [c EXCEPT !.pending = NoKey]

(* Mutant: the key played is not noted. *)
MarkUnnoted(c, k) == [c EXCEPT !.phase = "overlay"]

MarkOverlayStarted(c, k) == [c EXCEPT !.last = k, !.phase = "overlay"]

Request(p, c, k) ==
  IF k = c.last THEN Ignore(c)
  ELSE CASE c.phase = "base" -> PlayFromBase(c, k)
         [] c.phase = "overlay" ->
              IF p.interruptOverlay THEN PlayChain(Forget(c), k, FALSE)
              ELSE IF p.queueWhileOverlay THEN Queue(c, k) ELSE Ignore(c)
         [] c.phase = "recovering" ->
              IF p.interruptRecovering THEN PlayChain(Forget(c), k, FALSE)
              ELSE Queue(c, k)

HasPendingChain(p, c) == p.chainOnOverlayEnd /\ ResolvePending(c) # NoKey

OnOverlayEnded(p, c) ==
  IF c.phase # "overlay" THEN Ignore(c)
  ELSE IF HasPendingChain(p, c) THEN PlayChain(Forget(c), c.pending, TRUE)
  ELSE [ctl |-> [c EXCEPT !.phase = "recovering"], kind |-> "start_recover",
        key |-> NoKey, hold |-> FALSE]

(* Mutant: the end of a recovery forgets to look for a pending request. *)
RecoverForgets(c) ==
  IF c.phase # "recovering" THEN Ignore(c)
  ELSE Ignore([Forget(c) EXCEPT !.phase = "base"])

OnRecoverComplete(c) ==
  LET b == [Forget(c) EXCEPT !.phase = "base"]
  IN  IF c.phase # "recovering" THEN Ignore(c)
      ELSE IF ResolvePending(c) = NoKey THEN Ignore(b)
      ELSE PlayFromBase(b, c.pending)
=============================================================================
